--------------------------- MODULE MCAdOperations ---------------------------
(***************************************************************************)
(* Model checking of AdOperations: one operation of each module, so that   *)
(* the three share the main thread and the queue of asynchronous           *)
(* operations.                                                             *)
(***************************************************************************)
EXTENDS AdOperations

CONSTANTS l1, s1, b1

MCKind ==
  [o \in Ops |-> CASE o = l1 -> "load" [] o = s1 -> "show" [] o = b1 -> "banner"]
=============================================================================
