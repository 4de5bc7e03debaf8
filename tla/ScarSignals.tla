---------------------------- MODULE ScarSignals ----------------------------
(***************************************************************************)
(* UADSHeaderBiddingTokenReaderWithSCARSignalsEagerStrategy: a request for *)
(* a token asks the ads SDK of Google for signals as well.  The two answer *)
(* independently, on threads of their own, and share one identifier: the   *)
(* server puts the signals it is posted and the token it is shown together *)
(* by it.                                                                  *)
(***************************************************************************)
CONSTANT Requests

VARIABLE scar  \* for each request, the two answers and their identifier

Ids == {"none", "generated", "token"}

\* signals: where the callback of the signals is; uuid: uuidString; posted
\* and shown: the identifiers that went out with the signals and the token.
ScarTypeOK ==
  scar \in [Requests -> [signals : {"none", "asked", "kept", "sent"},
                         uuid : Ids, posted : Ids, shown : Ids]]

ScarInit ==
  scar = [r \in Requests |-> [signals |-> "none", uuid |-> "generated",
                              posted |-> "none", shown |-> "none"]]

RequestSignals(r) == scar' = [scar EXCEPT ![r].signals = "asked"]

\* blockSignals is set under the lock, and the identifier is read after it.
KeepSignals(r) ==
  /\ scar[r].signals = "asked"
  /\ scar' = [scar EXCEPT ![r].signals = "kept"]

\* A mutant: the identifier that goes out is the one of the beginning.
SendGenerated(r) ==
  /\ scar[r].signals = "kept"
  /\ scar' = [scar EXCEPT ![r].signals = "sent",
                          ![r].posted = "generated"]

SendSignals(r) ==
  /\ scar[r].signals = "kept"
  /\ scar' = [scar EXCEPT ![r].signals = "sent", ![r].posted = scar[r].uuid]

\* The signals have not come: they will go out with the token's identifier.
\* They have: the token is made anew with the identifier they go out with.
Inject(r) ==
  scar' = [scar EXCEPT
             ![r].uuid  = IF scar[r].signals \in {"none", "asked"}
                          THEN "token" ELSE @,
             ![r].shown = IF scar[r].signals \in {"none", "asked"}
                          THEN "token" ELSE scar[r].uuid]
=============================================================================
