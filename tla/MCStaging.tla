----------------------------- MODULE MCStaging -----------------------------
(***************************************************************************)
(* Instances of Staging for TLC.                                           *)
(***************************************************************************)
EXTENDS Staging

\* The destination, the staging file and one to spare.
ThreeInodes == {1, 2, 3}

\* Callers that never overwrite a destination, or always do.
OneWay == {{FALSE}, {TRUE}}

=============================================================================
