--------------------------- MODULE MCSyncManager ----------------------------
(* An instance of SyncManager for TLC.  Client tasks are alike.            *)
EXTENDS SyncManagerInductive, TLC

MCSymmetry == Permutations(Clients)
=============================================================================
