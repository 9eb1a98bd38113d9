--------------------------- MODULE SourceProbeRules ---------------------------
\* What the live source probes make of the answers of the providers, and which role
\* a recorded verdict gets in the combined universe loader.
\*
\* A probe sends one to three requests.  A reply is a status and a body:
\*   status  "none" (no answer: unreachable or timed out), "ok" (200),
\*           "refused" (401, 403), "error" (any other)
\*   body    "garbled" (not of the expected format), "note" (the provider's message
\*           that a key, a captcha or a larger quota is needed), "empty" (the expected
\*           format without a row), "others" (rows, none of Prague), "rows" (rows)
EXTENDS Naturals, Sequences

Statuses == {"none", "ok", "refused", "error"}
Bodies == {"garbled", "note", "empty", "others", "rows"}
Replies == [status : Statuses, body : Bodies]

Verdicts == {"promote", "fallback_only", "validation_only", "not_for_universe_loader", "reject"}
NoRole == "no role"
LoaderRoles == {"primary_discovery", "fallback_discovery", "symbology_normalization",
                "metadata_enrichment"}
Roles == LoaderRoles \cup {"validation_only", "not_for_universe_loader", NoRole}

Raised == [available |-> FALSE, verdict |-> "raised", role |-> NoRole]   \* no evidence
Evidence == [available : BOOLEAN, verdict : Verdicts, role : Roles]

NonKeyed == {"YFINANCE", "STOOQ", "AKSHARE"}
KeyedA == {"EODHD", "FMP", "FINNHUB", "ALPHA_VANTAGE"}
KeyedB == {"TIINGO", "MARKETSTACK", "POLYGON", "TWELVE_DATA"}
Official == {"NASDAQ_TRADER", "NYSE", "PSE_PSE_EDGE", "OPENFIGI", "NASDAQ_DATA_LINK"}
Macro == {"FRED", "DBNOMICS", "IMF", "WORLDBANK"}
AllSources == NonKeyed \cup KeyedA \cup KeyedB \cup Official \cup Macro

\* How many requests a probe sends.
Requests(source) ==
  CASE source \in {"YFINANCE", "EODHD"} -> 3
    [] source \in {"FMP", "FINNHUB", "ALPHA_VANTAGE", "NYSE", "PSE_PSE_EDGE"} -> 2
    [] OTHER -> 1

Answered(reply) == reply.status # "none"
Ok(reply) == reply.status = "ok"
HasRows(reply) == reply.body \in {"others", "rows"}

Available(verdict, role) == [available |-> TRUE, verdict |-> verdict, role |-> role]
ForValidation(available) ==
  [available |-> available, verdict |-> "validation_only", role |-> "validation_only"]
Rejected == [available |-> FALSE, verdict |-> "reject", role |-> NoRole]

\* ------------------------------------------------------------- the probe families

Found(replies) == {i \in DOMAIN replies : Ok(replies[i]) /\ HasRows(replies[i])}

\* Everything the non-keyed probes can raise is caught and kept for validation.
YFinance(replies) ==
  IF \/ \E i \in DOMAIN replies : ~Answered(replies[i]) \/ replies[i].body = "garbled"
     \/ \A i, j \in Found(replies) : i = j
  THEN ForValidation(FALSE)
  ELSE Available("fallback_only", "fallback_discovery")

Stooq(reply) ==
  IF Answered(reply) /\ HasRows(reply)      \* whatever the status
  THEN Available("fallback_only", "fallback_discovery")
  ELSE ForValidation(FALSE)

AkShare(reply) ==
  IF Ok(reply) /\ HasRows(reply)
  THEN Available("fallback_only", "metadata_enrichment")
  ELSE ForValidation(FALSE)

\* A faulty variant: Prague alone makes a fallback.
Coverage_PragueIsEnough(us, prague) ==
  IF us /\ prague THEN [verdict |-> "promote", role |-> "primary_discovery"]
  ELSE IF us \/ prague THEN [verdict |-> "fallback_only", role |-> "fallback_discovery"]
  ELSE [verdict |-> "validation_only", role |-> "validation_only"]

Coverage(us, prague) ==
  IF us /\ prague THEN [verdict |-> "promote", role |-> "primary_discovery"]
  ELSE IF us THEN [verdict |-> "fallback_only", role |-> "fallback_discovery"]
  ELSE [verdict |-> "validation_only", role |-> "validation_only"]

\* The last two requests of a keyed-A probe ask for an American and a Prague symbol;
\* EODHD counts its Prague rows, the others look for Prague in them.
KeyedAProbe(source, replies) ==
  LET american == replies[Len(replies) - 1]
      czech    == replies[Len(replies)]
      us       == HasRows(american)
      prague   == czech.body = "rows" \/ (source = "EODHD" /\ HasRows(czech))
      throttled == source = "ALPHA_VANTAGE" /\ \E i \in DOMAIN replies : replies[i].body = "note"
      coverage == Coverage(us, prague)
  IN IF \E i \in DOMAIN replies : ~Ok(replies[i]) THEN ForValidation(FALSE)
     ELSE [available |-> us \/ (prague /\ source \in {"EODHD", "ALPHA_VANTAGE"}),
           verdict   |-> IF throttled THEN "validation_only" ELSE coverage.verdict,
           role      |-> IF throttled THEN "validation_only" ELSE coverage.role]

\* Any object counts as an answer, with rows or without.
KeyedBProbe(source, reply) ==
  IF ~Answered(reply) THEN Raised
  ELSE IF /\ Ok(reply) /\ reply.body # "garbled"
          /\ source = "TWELVE_DATA" => reply.body # "note"
       THEN IF source \in {"TIINGO", "POLYGON"}
            THEN Available("fallback_only", "fallback_discovery")
            ELSE ForValidation(TRUE)
  ELSE IF reply.status = "refused" \/ (source = "TWELVE_DATA" /\ reply.body = "note")
       THEN ForValidation(FALSE)
  ELSE Rejected

NasdaqTrader(reply) ==
  IF Ok(reply) /\ HasRows(reply) THEN Available("promote", "primary_discovery") ELSE Rejected

\* The directory names the mapping file; its own status is not looked at.
Nyse(directory, file) ==
  IF /\ Answered(directory) /\ HasRows(directory)
     /\ Ok(file) /\ HasRows(file)
  THEN Available("promote", "primary_discovery")
  ELSE Rejected

Pse(standard, free) ==
  IF /\ Answered(standard) /\ Answered(free)
     /\ \E page \in {standard, free} : Ok(page) /\ HasRows(page)
  THEN ForValidation(TRUE)
  ELSE Rejected

OpenFigi(reply) ==
  IF ~Answered(reply) THEN Rejected
  ELSE IF Ok(reply) /\ HasRows(reply) THEN Available("promote", "symbology_normalization")
  ELSE ForValidation(FALSE)

\* An answer of status 200 is enough, whatever is in it.
NasdaqDataLink(reply) ==
  IF Ok(reply) THEN Available("fallback_only", "metadata_enrichment")
  ELSE IF Answered(reply) /\ reply.body = "note" THEN ForValidation(FALSE)
  ELSE Rejected

MacroProbe(reply) ==
  IF Ok(reply) /\ HasRows(reply)
  THEN Available("not_for_universe_loader", "not_for_universe_loader")
  ELSE Raised

Probe(source, replies) ==
  CASE source = "YFINANCE"         -> YFinance(replies)
    [] source = "STOOQ"            -> Stooq(replies[1])
    [] source = "AKSHARE"          -> AkShare(replies[1])
    [] source \in KeyedA           -> KeyedAProbe(source, replies)
    [] source \in KeyedB           -> KeyedBProbe(source, replies[1])
    [] source = "NASDAQ_TRADER"    -> NasdaqTrader(replies[1])
    [] source = "NYSE"             -> Nyse(replies[1], replies[2])
    [] source = "PSE_PSE_EDGE"     -> Pse(replies[1], replies[2])
    [] source = "OPENFIGI"         -> OpenFigi(replies[1])
    [] source = "NASDAQ_DATA_LINK" -> NasdaqDataLink(replies[1])
    [] source \in Macro            -> MacroProbe(replies[1])

\* ------------------------------------------------------------- the combined matrix

RuntimeRole(verdict, role) ==
  CASE verdict = "promote"         -> IF role \in LoaderRoles THEN role ELSE "fallback_discovery"
    [] verdict = "fallback_only"   -> "fallback_discovery"
    [] verdict = "validation_only" -> "validation_only"
    [] OTHER                       -> "not_for_universe_loader"

Selectable(verdict, role) == RuntimeRole(verdict, role) \in LoaderRoles
===============================================================================
