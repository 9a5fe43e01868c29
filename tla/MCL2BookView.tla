---------------------------- MODULE MCL2BookView ----------------------------
(* Instances of L2BookView for TLC: a snapshot of two words, and one       *)
(* publishing thread.                                                      *)
EXTENDS L2BookView

CONSTANT consumer

OneWriter == {consumer}
MCFields == {"bids", "asks"}
=============================================================================
