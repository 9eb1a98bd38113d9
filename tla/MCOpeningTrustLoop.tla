-------------------------- MODULE MCOpeningTrustLoop --------------------------
(* Small instances of the trust loop and of the operator's table over what   *)
(* it commits: exchange 1 has the listing 1; exchange 2, processed after it, *)
(* has the listings 2 and 3.                                                 *)
EXTENDS OperatorLoadTable

MCExchanges == 1..2
MCListings == 1..3
MCExchangeOf == [l \in MCListings |-> IF l = 1 THEN 1 ELSE 2]
=============================================================================
