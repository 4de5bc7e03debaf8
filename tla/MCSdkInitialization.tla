------------------------ MODULE MCSdkInitialization ------------------------
(***************************************************************************)
(* Model checking of SdkInitialization: three calls, of which at least two *)
(* ask for the same, in both flows.                                        *)
(***************************************************************************)
EXTENDS SdkInitialization, TLC

CONSTANTS c1, c2, c3

CallSet == {c1, c2, c3}
CallKindSets ==
  {(c1 :> "valid" @@ c2 :> "valid" @@ c3 :> k) : k \in CallKinds}
=============================================================================
