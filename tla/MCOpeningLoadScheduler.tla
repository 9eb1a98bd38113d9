------------------------ MODULE MCOpeningLoadScheduler ------------------------
(* A small instance of OpeningLoadScheduler for TLC. *)
EXTENDS OpeningLoadScheduler

MCTwoExchanges == 1..2
=============================================================================
