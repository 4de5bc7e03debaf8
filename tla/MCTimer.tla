------------------------------ MODULE MCTimer ------------------------------
(***************************************************************************)
(* Model checking of Timer: a timer of one interval and one of three, on   *)
(* and off the main thread, with enough changes for two full rounds of the *)
(* application through the background.                                     *)
(***************************************************************************)
EXTENDS Timer
=============================================================================
