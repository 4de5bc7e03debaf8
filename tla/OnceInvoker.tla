---------------------------- MODULE OnceInvoker ----------------------------
(***************************************************************************)
(* What a UADSWebViewInvoker that waits for the SDK promises to the module *)
(* that uses it: an operation is handed on to the web view, or refused     *)
(* with an error, and never both nor twice.  It is handed on only once an  *)
(* initialization has succeeded and refused only once one has failed.      *)
(***************************************************************************)
EXTENDS Sequences

CONSTANT Ops  \* the operations that the module invokes

VARIABLES
  ended,  \* how the initializations that are over have ended
  fate    \* what has become of each operation, in order

Ends == {"succeeded", "failed"}

Init == ended = {} /\ fate = [o \in Ops |-> <<>>]

End == \E e \in Ends : ended' = ended \cup {e} /\ UNCHANGED fate

\* One operation meets its fate; meanwhile an initialization may end.
Settle(o, f) ==
  /\ fate[o] = <<>>
  /\ fate' = [fate EXCEPT ![o] = <<f>>]
  /\ (IF f = "sent" THEN "succeeded" ELSE "failed") \in ended
  /\ UNCHANGED ended

Next == End \/ \E o \in Ops, f \in {"sent", "failed"} : Settle(o, f)

Spec == Init /\ [][Next]_<<ended, fate>>
=============================================================================
