----------------------------- MODULE MCHistory ------------------------------
(* An instance of History for TLC.                                         *)
EXTENDS HistoryInductive
=============================================================================
