------------------------ MODULE MCCommitVerification ------------------------
(***************************************************************************)
(* An instance of CommitVerification for TLC: two verifications and an     *)
(* authoring request contend for one worktree.                             *)
(***************************************************************************)
EXTENDS CommitVerification

CONSTANTS v1, v2, d1
=============================================================================
