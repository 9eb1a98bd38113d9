---------------------------- MODULE MCOpeningLoad ----------------------------
(* Small instances of OpeningLoad for TLC. *)
EXTENDS OpeningLoad, TLC

\* No sample, a mismatch of exactly 5 percent, and one above it.
MCSamples == {<<0, 0>>, <<20, 1>>, <<20, 2>>}
\* One report per class, and two whose flags compete.
MCReports == {{}, {"has_selected_price", "halted"}, {"halted"}, {"suspended"},
              {"late_open", "stale"}, {"stale"}, {"provider_failed"}}
MCTimes == {1, 2}
MCOneTime == {1}
Symmetry == Permutations(Listings)
=============================================================================
