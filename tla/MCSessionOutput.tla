-------------------------- MODULE MCSessionOutput ---------------------------
(***************************************************************************)
(* An instance of SessionOutput and Archive for TLC.  They share nothing   *)
(* but the text that push_output hands to both, so one rests while the     *)
(* other is explored.                                                      *)
(***************************************************************************)
EXTENDS SessionOutputInductive, ArchiveInductive

VARIABLE explored

MCInit == Init /\ ArchiveInit /\ explored \in {"output", "archive"}

MCOutput == explored = "output" /\ Next /\ UNCHANGED <<archiveVars, explored>>
MCArchive == explored = "archive" /\ ArchiveNext /\ UNCHANGED <<vars, explored>>

MCSpec ==
  /\ MCInit
  /\ [][MCOutput \/ MCArchive]_<<vars, archiveVars, explored>>
  /\ OutputFairness
  /\ WF_archiveVars(explored = "archive" /\ WriterStep)
=============================================================================
