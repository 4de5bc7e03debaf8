---------------------------- MODULE TokenPromise ----------------------------
(***************************************************************************)
(* What UnityAds.getToken: promises to those who wait for a token: they    *)
(* are served in the order in which they have come, each with one answer   *)
(* at most, be it a token or none; only whoever has been served while its  *)
(* time was running out is told so as well, and nobody is served after     *)
(* that.                                                                   *)
(***************************************************************************)
EXTENDS SequencesExt

CONSTANT Requests

VARIABLES
  waiting,  \* the requests that wait for a token
  told      \* what each request has been told

Nothing == "null"

Init == waiting = <<>> /\ told = [r \in Requests |-> <<>>]

Wait(r) ==
  /\ told[r] = <<>> /\ ~ Contains(waiting, r)
  /\ waiting' = Append(waiting, r)
  /\ UNCHANGED told

Refuse(r) ==
  /\ told[r] = <<>> /\ ~ Contains(waiting, r)
  /\ told' = [told EXCEPT ![r] = <<Nothing>>]
  /\ UNCHANGED waiting

Serve ==
  /\ waiting # <<>>
  /\ \E answer \in {"token", Nothing} :
       told' = [told EXCEPT ![Head(waiting)] = <<answer>>]
  /\ waiting' = Tail(waiting)

GiveUp(r) ==
  /\ Contains(waiting, r)
  /\ waiting' = RemoveFirst(waiting, r)
  /\ told' = [told EXCEPT ![r] = <<Nothing>>]

GiveUpLate(r) ==
  /\ Len(told[r]) = 1 /\ ~ Contains(waiting, r)
  /\ told' = [told EXCEPT ![r] = Append(@, Nothing)]
  /\ UNCHANGED waiting

Next ==
  \/ Serve
  \/ \E r \in Requests : Wait(r) \/ Refuse(r) \/ GiveUp(r) \/ GiveUpLate(r)

Spec == Init /\ [][Next]_<<waiting, told>>
=============================================================================
