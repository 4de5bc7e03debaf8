--------------------------- MODULE MCInvokerQueue ---------------------------
(***************************************************************************)
(* Model checking of InvokerQueue: three operations, so that a drain that  *)
(* is under way has operations before, in and after its reach, with a      *)
(* repeated start and a reinitialization.                                  *)
(***************************************************************************)
EXTENDS InvokerQueue
=============================================================================
