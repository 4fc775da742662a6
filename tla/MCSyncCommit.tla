---------------------------- MODULE MCSyncCommit ----------------------------
(* One push on small trees.                                                *)
EXTENDS SyncCommitInductive

(* A directory with two entries.                                           *)
MCPaths == {<<>>, <<"a">>, <<"a", "b">>, <<"a", "c">>}

MCContents == {"v1", "v2"}

(* No filter, one that includes a single file, and one that includes a     *)
(* directory without its entries.                                          *)
MCSelections == {MCPaths, {<<"a", "b">>}, {<<"a">>}}
=============================================================================
