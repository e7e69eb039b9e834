----------------------------- MODULE MCTransfer -----------------------------
(***************************************************************************)
(* Instances of Transfer for TLC: lengths by version.                      *)
(***************************************************************************)
EXTENDS Transfer

\* The object is replaced by a longer, a shorter or an empty one.
ThreeVersions == <<2, 3, 0>>
=============================================================================
