-------------------------- MODULE MCAsyncOperation --------------------------
(***************************************************************************)
(* Model checking of AsyncOperation.                                       *)
(***************************************************************************)
EXTENDS AsyncOperation
=============================================================================
