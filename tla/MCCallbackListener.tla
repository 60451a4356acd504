------------------------- MODULE MCCallbackListener -------------------------
(***************************************************************************)
(* Small instances of CallbackListener. The channel holds one result, as   *)
(* in the code; the runs differ in how many callbacks arrive.              *)
(***************************************************************************)
EXTENDS CallbackListener, TLC

CONSTANTS r1, r2, r3, r4

Three == {r1, r2, r3}
Four == {r1, r2, r3, r4}
=============================================================================
