---------------------------- MODULE AdOperations ----------------------------
(***************************************************************************)
(* The life of a load, show or banner operation in the ad-operation        *)
(* modules: UADSAbstractModule and its subclasses UADSLoadModule,          *)
(* UADSShowModule and UADSBannerLoadModule.                                *)
(*                                                                         *)
(* An operation is created by the application's call, kept in the module's *)
(* storage, and invoked from the module's serial queue.  It is answered by *)
(* whichever comes first of three: an event of the web view, its TTL timer *)
(* or an error of the invoker.  The first two run on the main thread.  An  *)
(* invoker error runs on the main thread, on the module's queue, or on the *)
(* queue of the asynchronous web-view operations.                          *)
(*                                                                         *)
(* Storage is guarded by a serial queue, so each read and each removal is  *)
(* atomic, but processError is three of them: it reads the operation,      *)
(* tells the delegate, then removes the operation.  This module keeps the  *)
(* three apart; a web-view event removes and reads in a single step.       *)
(*                                                                         *)
(* Delegate calls are dispatched to the main queue in the order in which   *)
(* the wrappers are called; they are counted here at that call.            *)
(***************************************************************************)
EXTENDS ErrorCodes, Naturals, Sequences, FiniteSets

CONSTANTS
  Ops,          \* identifiers (UUIDs) of the operations
  Kind,         \* the module of each operation
  MaxCalls,     \* bound on the calls the application makes
  MaxEvents,    \* bound on the web-view events and the repeated expirations
                \* of one operation
  ShowFailures, \* the reasons a web view names for a failed show
  LoadFailures  \* the reasons a web view gives for a failed load or banner

Kinds == {"load", "show", "banner"}

\* Main thread, the serial queue of asynchronous web-view operations, and
\* the invoke queue of each module (named as the module).
Threads == {"main", "async"} \cup Kinds

ASSUME KindAssumption  == Kind \in [Ops -> Kinds]
ASSUME BoundAssumption == MaxCalls \in Nat /\ MaxEvents \in Nat
ASSUME ReasonAssumption ==
  ShowFailures \subseteq NamedShowErrors /\ LoadFailures \subseteq LoadReasons

Callbacks == {"loaded", "completed", "failed", "started", "clicked"}
Metrics   == {"start", "success", "failure"}

CONSTANT None  \* the absence of an operation or of a failure

VARIABLES
  phase,          \* the call: "new", "rejected" or "accepted"
  stored,         \* stateStorage
  invokeQ,        \* per module, the operations dispatched to its invokeQueue
  subscribed,     \* operations whose TTL subscription has been made
  ttl,            \* the TTL timer: "off", "armed", "fired" or "stopped"
  invoker,        \* what the invoker has done with the operation
  handler,        \* per thread, the processError it is running
  calls,          \* delegate calls made for the operation, by kind
  metrics,        \* metrics sent for the operation, by kind
  failure,        \* the last failure told to the delegate: cause and code
  events          \* events and expirations used up, for the bound

vars == <<phase, stored, invokeQ, subscribed, ttl, invoker,
          handler, calls, metrics, failure, events>>

-----------------------------------------------------------------------------
(***************************************************************************)
(* What the invoker has done with an operation: nothing yet; kept it until *)
(* the SDK is initialized; sent it to the web view and waits for the       *)
(* answer; got the answer; got an error or none in time; refused it at     *)
(* once because the initialization had failed; dropped it from the buffer  *)
(* because the initialization failed.                                      *)
(***************************************************************************)
InvokerStates ==
  {"idle", "buffered", "sent", "succeeded", "failed", "refused", "dropped"}

InternalErrors ==
  {TTLExpired, EmptyPlacement, WebViewInternal, WebViewTimeout,
   InitFailedLate, InitFailedEarly}

\* The errors of the show domain, the web view's and the module's own, and
\* the errors a web view reports of a load.
ModuleErrors ==
  {InternalError("show", r) : r \in NamedShowErrors} \cup
    {InternalError("load", r) : r \in LoadReasons}

DelegateErrors == InternalErrors \cup ModuleErrors

Failures == [why : DelegateErrors, code : Int]

\* A running processError: its operation, its error and its next step.
Handling ==
  [op : Ops, error : InternalErrors, step : {"get", "notify", "remove"}]

ASSUME NoneAssumption == None \notin Handling \cup Failures

TypeOK ==
  /\ phase \in [Ops -> {"new", "rejected", "accepted"}]
  /\ stored \subseteq Ops
  /\ invokeQ \in [Kinds -> Seq(Ops)]
  /\ subscribed \subseteq Ops
  /\ ttl \in [Ops -> {"off", "armed", "fired", "stopped"}]
  /\ invoker \in [Ops -> InvokerStates]
  /\ handler \in [Threads -> Handling \cup {None}]
  /\ calls \in [Ops -> [Callbacks -> Nat]]
  /\ metrics \in [Ops -> [Metrics -> Nat]]
  /\ failure \in [Ops -> Failures \cup {None}]
  /\ events \in [Ops -> Nat]

Init ==
  /\ phase = [o \in Ops |-> "new"]
  /\ stored = {}
  /\ invokeQ = [k \in Kinds |-> <<>>]
  /\ subscribed = {}
  /\ ttl = [o \in Ops |-> "off"]
  /\ invoker = [o \in Ops |-> "idle"]
  /\ handler = [t \in Threads |-> None]
  /\ calls = [o \in Ops |-> [c \in Callbacks |-> 0]]
  /\ metrics = [o \in Ops |-> [m \in Metrics |-> 0]]
  /\ failure = [o \in Ops |-> None]
  /\ events = [o \in Ops |-> 0]

-----------------------------------------------------------------------------
\* A show and a load operation have a time to live, a banner has none (-1).
HasTTL(o) == Kind[o] # "banner"

PublicError(o, e) ==
  CASE Kind[o] = "load"   -> LoadPublicError(e)
    [] Kind[o] = "show"   -> ShowPublicError(e)
    [] Kind[o] = "banner" -> BannerPublicError(e)

\* One more delegate call, one more metric of a kind for an operation.
Call(o, c)   == calls' = [calls EXCEPT ![o][c] = @ + 1]
Metric(o, m) == metrics' = [metrics EXCEPT ![o][m] = @ + 1]

Fail(o, why, code) ==
  /\ Call(o, "failed")
  /\ failure' = [failure EXCEPT ![o] = [why |-> why, code |-> code]]

\* A mutant: events are not serialized with the handlers of the main thread.
MainIsNotAwaited == TRUE

MainIsFree == handler["main"] = None

\* A thread starts processError.
StartHandling(t, o, e) ==
  /\ handler[t] = None
  /\ handler' = [handler EXCEPT ![t] =
                   [op |-> o, error |-> e, step |-> "get"]]

-----------------------------------------------------------------------------
(***************************************************************************)
(* The application's call: executeForPlacement.                            *)
(***************************************************************************)
MayCall(o) ==
  /\ phase[o] = "new"
  /\ Cardinality({p \in Ops : phase[p] # "new"}) < MaxCalls

\* The error that stops the call before an operation is created: an empty
\* placement, or a show on a device that is not supported or while the SDK is
\* not initialized, which a new initialization may change at any time.
ExecutionErrors(o) ==
  IF Kind[o] = "show"
  THEN {ShowNotSupported, ShowNotInitialized, EmptyPlacement}
  ELSE {EmptyPlacement}

Reject(o, e) ==
  /\ MayCall(o)
  /\ e \in ExecutionErrors(o)
  /\ phase' = [phase EXCEPT ![o] = "rejected"]
  /\ metrics' = [metrics EXCEPT ![o]["start"] = @ + 1, ![o]["failure"] = @ + 1]
  /\ Fail(o, e, PublicError(o, e))
  /\ UNCHANGED <<stored, invokeQ, subscribed, ttl, invoker,
                 handler, events>>

\* Nobody else knows the identifier before the dispatch to the invoke queue,
\* so the metric, the save and the dispatch are one step.
Execute(o) ==
  /\ MayCall(o)
  /\ phase' = [phase EXCEPT ![o] = "accepted"]
  /\ Metric(o, "start")
  /\ stored' = stored \cup {o}
  /\ invokeQ' = [invokeQ EXCEPT ![Kind[o]] = Append(@, o)]
  /\ UNCHANGED <<subscribed, ttl, invoker, handler, calls,
                 failure, events>>

-----------------------------------------------------------------------------
(***************************************************************************)
(* The invoke queue of module k: invokeOperation.                          *)
(***************************************************************************)
AtHead(k, o) == invokeQ[k] # <<>> /\ Head(invokeQ[k]) = o /\ handler[k] = None

\* The timer is scheduled on the main thread while the queue waits.
SubscribeToExpiration(k, o) ==
  /\ AtHead(k, o)
  /\ o \notin subscribed
  /\ MainIsFree
  /\ subscribed' = subscribed \cup {o}
  /\ ttl' = IF HasTTL(o) THEN [ttl EXCEPT ![o] = "armed"] ELSE ttl
  /\ UNCHANGED <<phase, stored, invokeQ, invoker, handler,
                 calls, metrics, failure, events>>

\* The invoker sends the operation to the web view, or, for a load or a
\* banner while the SDK is not initialized, keeps it.
CallInvoker(k, o) ==
  /\ AtHead(k, o)
  /\ o \in subscribed
  /\ invokeQ' = [invokeQ EXCEPT ![k] = Tail(@)]
  /\ \E s \in {"sent", "buffered"} :
       /\ s = "buffered" => k # "show"
       /\ invoker' = [invoker EXCEPT ![o] = s]
  /\ UNCHANGED <<phase, stored, subscribed, ttl, handler,
                 calls, metrics, failure, events>>

\* The initialization has failed: the error completion runs inside the call.
InvokerRefuses(k, o) ==
  /\ AtHead(k, o)
  /\ o \in subscribed
  /\ k # "show"
  /\ invokeQ' = [invokeQ EXCEPT ![k] = Tail(@)]
  /\ invoker' = [invoker EXCEPT ![o] = "refused"]
  /\ StartHandling(k, o, InitFailedEarly)
  /\ UNCHANGED <<phase, stored, subscribed, ttl, calls,
                 metrics, failure, events>>

-----------------------------------------------------------------------------
(***************************************************************************)
(* The invoker's later answers.                                            *)
(***************************************************************************)
\* sdkDidInitialize sends a buffered operation to the web view.
BufferedIsSent(o) ==
  /\ MainIsFree
  /\ invoker[o] = "buffered"
  /\ invoker' = [invoker EXCEPT ![o] = "sent"]
  /\ UNCHANGED <<phase, stored, invokeQ, subscribed, ttl,
                 handler, calls, metrics, failure, events>>

\* sdkInitializeFailed fails a buffered operation, on the main thread.
BufferedIsDropped(o) ==
  /\ invoker[o] = "buffered"
  /\ invoker' = [invoker EXCEPT ![o] = "dropped"]
  /\ StartHandling("main", o, InitFailedLate)
  /\ UNCHANGED <<phase, stored, invokeQ, subscribed, ttl,
                 calls, metrics, failure, events>>

\* processInvokerSuccess is empty.
InvokerSucceeds(o) ==
  /\ invoker[o] = "sent"
  /\ handler["async"] = None
  /\ invoker' = [invoker EXCEPT ![o] = "succeeded"]
  /\ UNCHANGED <<phase, stored, invokeQ, subscribed, ttl,
                 handler, calls, metrics, failure, events>>

\* The web view answered with an error, or not within the waiting time.
InvokerFails(o, e) ==
  /\ invoker[o] = "sent"
  /\ e \in {WebViewInternal, WebViewTimeout}
  /\ invoker' = [invoker EXCEPT ![o] = "failed"]
  /\ StartHandling("async", o, e)
  /\ UNCHANGED <<phase, stored, invokeQ, subscribed, ttl,
                 calls, metrics, failure, events>>

\* A mutant: nobody but the invoker retains the operation.
IsHeldByInvoker(o) == invoker[o] \in {"idle", "buffered", "sent"}

\* The operation lives as long as the storage, the invoker's completion
\* blocks or a running handler hold it; when it dies it stops its timer.
IsAlive(o) ==
  \/ o \in stored
  \/ invoker[o] \in {"idle", "buffered", "sent"}
  \/ \E t \in Threads : handler[t] # None /\ handler[t].op = o

\* A mutant: the expiration error carries the domain of the load module.
TTLExpiresInLoadDomain(o) ==
  /\ ttl[o] = "armed"
  /\ IsAlive(o)
  /\ ttl' = [ttl EXCEPT ![o] = "fired"]
  /\ StartHandling("main", o, InternalError("load", TTLExpired.reason))
  /\ UNCHANGED <<phase, stored, invokeQ, subscribed, invoker,
                 calls, metrics, failure, events>>

TTLExpires(o) ==
  /\ ttl[o] = "armed"
  /\ IsAlive(o)
  /\ ttl' = [ttl EXCEPT ![o] = "fired"]
  /\ StartHandling("main", o, TTLExpired)
  /\ UNCHANGED <<phase, stored, invokeQ, subscribed, invoker,
                 calls, metrics, failure, events>>

\* The timer keeps its interval and its block when it has fired, so an
\* application that becomes active starts it once more.
TTLExpiresAgain(o) ==
  /\ ttl[o] = "fired"
  /\ IsAlive(o)
  /\ events[o] < MaxEvents
  /\ events' = [events EXCEPT ![o] = @ + 1]
  /\ StartHandling("main", o, TTLExpired)
  /\ UNCHANGED <<phase, stored, invokeQ, subscribed, ttl, invoker,
                 calls, metrics, failure>>

-----------------------------------------------------------------------------
(***************************************************************************)
(* processError on thread t, in its three steps.                           *)
(***************************************************************************)
Running(t, step) == handler[t] # None /\ handler[t].step = step

\* A mutant: the delegate is told whether the operation is stored or not.
GetAnyOperation(t) ==
  /\ Running(t, "get")
  /\ handler' = [handler EXCEPT ![t].step = "notify"]
  /\ UNCHANGED <<phase, stored, invokeQ, subscribed, ttl,
                 invoker, calls, metrics, failure, events>>

\* getOperationWithID: an operation already removed is not notified.
GetOperation(t) ==
  /\ Running(t, "get")
  /\ LET o == handler[t].op IN
       handler' = [handler EXCEPT ![t].step =
                     IF o \in stored THEN "notify" ELSE "remove"]
  /\ UNCHANGED <<phase, stored, invokeQ, subscribed, ttl,
                 invoker, calls, metrics, failure, events>>

\* A mutant: the failure is not counted.
NotifyUncounted(t) ==
  /\ Running(t, "notify")
  /\ LET o == handler[t].op
         e == handler[t].error IN
       Fail(o, e, PublicError(o, e))
  /\ handler' = [handler EXCEPT ![t].step = "remove"]
  /\ UNCHANGED <<phase, stored, invokeQ, subscribed, ttl,
                 invoker, metrics, events>>

NotifyDelegate(t) ==
  /\ Running(t, "notify")
  /\ LET o == handler[t].op
         e == handler[t].error IN
       /\ Metric(o, "failure")
       /\ Fail(o, e, PublicError(o, e))
  /\ handler' = [handler EXCEPT ![t].step = "remove"]
  /\ UNCHANGED <<phase, stored, invokeQ, subscribed, ttl,
                 invoker, events>>

RemoveOperation(t) ==
  /\ Running(t, "remove")
  /\ stored' = stored \ {handler[t].op}
  /\ handler' = [handler EXCEPT ![t] = None]
  /\ UNCHANGED <<phase, invokeQ, subscribed, ttl, invoker,
                 calls, metrics, failure, events>>

-----------------------------------------------------------------------------
(***************************************************************************)
(* Events of the web view, on the main thread.  The web view knows the     *)
(* identifier once the operation has been sent, and may repeat an event or *)
(* send it after the operation has been answered.                          *)
(***************************************************************************)
WebViewEvent(o) ==
  /\ MainIsFree
  /\ invoker[o] \in {"sent", "succeeded", "failed"}
  /\ events[o] < MaxEvents
  /\ events' = [events EXCEPT ![o] = @ + 1]
  /\ UNCHANGED <<phase, invokeQ, subscribed, invoker, handler>>

\* A delegate is called only if its operation is still stored.
CallIfStored(o, c) == IF o \in stored THEN Call(o, c) ELSE UNCHANGED calls

SendAdLoaded(o) ==
  /\ Kind[o] = "load"
  /\ WebViewEvent(o)
  /\ Metric(o, "success")
  /\ CallIfStored(o, "loaded")
  /\ stored' = stored \ {o}
  /\ UNCHANGED <<ttl, failure>>

\* A banner stays stored when it is loaded: it is shown and clicked later.
SendBannerLoaded(o) ==
  /\ Kind[o] = "banner"
  /\ WebViewEvent(o)
  /\ Metric(o, "success")
  /\ CallIfStored(o, "loaded")
  /\ UNCHANGED <<stored, ttl, failure>>

SendBannerEvent(o, c) ==
  /\ Kind[o] = "banner"
  /\ c \in {"started", "clicked"}
  /\ WebViewEvent(o)
  /\ CallIfStored(o, c)
  /\ UNCHANGED <<stored, ttl, metrics, failure>>

FailIfStored(o, why, code) ==
  IF o \in stored THEN Fail(o, why, code) ELSE UNCHANGED <<calls, failure>>

SendAdFailedToLoad(o, reason) ==
  /\ Kind[o] \in {"load", "banner"}
  /\ WebViewEvent(o)
  /\ Metric(o, "failure")
  /\ LET e == InternalError("load", reason) IN
       FailIfStored(o, e, PublicError(o, e))
  /\ stored' = stored \ {o}
  /\ UNCHANGED ttl

\* Start, click and consent stop the TTL timer for good.  The wrapper does
\* not pass a consent on.
StopTTLObserving(o) ==
  ttl' = IF o \in stored THEN [ttl EXCEPT ![o] = "stopped"] ELSE ttl

SendShowEvent(o, c) ==
  /\ Kind[o] = "show"
  /\ c \in {"started", "clicked", "consent"}
  /\ WebViewEvent(o)
  /\ StopTTLObserving(o)
  /\ IF c = "consent" THEN UNCHANGED calls ELSE CallIfStored(o, c)
  /\ UNCHANGED <<stored, metrics, failure>>

SendShowComplete(o) ==
  /\ Kind[o] = "show"
  /\ WebViewEvent(o)
  /\ Metric(o, "success")
  /\ CallIfStored(o, "completed")
  /\ stored' = stored \ {o}
  /\ UNCHANGED <<ttl, failure>>

\* A mutant: the failed show is left in the storage.
SendShowFailedAndKeep(o, reason) ==
  /\ Kind[o] = "show"
  /\ WebViewEvent(o)
  /\ Metric(o, "failure")
  /\ FailIfStored(o, InternalError("show", reason), ShowErrorFromName(reason))
  /\ UNCHANGED <<stored, ttl>>

SendShowFailed(o, reason) ==
  /\ Kind[o] = "show"
  /\ WebViewEvent(o)
  /\ Metric(o, "failure")
  /\ FailIfStored(o, InternalError("show", reason), ShowErrorFromName(reason))
  /\ stored' = stored \ {o}
  /\ UNCHANGED ttl

-----------------------------------------------------------------------------
ApplicationCall(o) ==
  \/ Execute(o)
  \/ \E e \in ExecutionErrors(o) : Reject(o, e)

InvokeQueueStep(o) ==
  \/ SubscribeToExpiration(Kind[o], o)
  \/ CallInvoker(Kind[o], o)
  \/ InvokerRefuses(Kind[o], o)

InvokerAnswer(o) ==
  \/ InvokerSucceeds(o)
  \/ \E e \in {WebViewInternal, WebViewTimeout} : InvokerFails(o, e)

BufferStep(o) == BufferedIsSent(o) \/ BufferedIsDropped(o)

ShowEvent(o) ==
  \/ SendShowComplete(o)
  \/ \E c \in {"started", "clicked", "consent"} : SendShowEvent(o, c)
  \/ \E r \in ShowFailures : SendShowFailed(o, r)

LoadEvent(o) ==
  \/ SendAdLoaded(o)
  \/ \E r \in LoadFailures : SendAdFailedToLoad(o, r)
  \/ SendBannerLoaded(o)
  \/ \E c \in {"started", "clicked"} : SendBannerEvent(o, c)

HandlerStep(t) == GetOperation(t) \/ NotifyDelegate(t) \/ RemoveOperation(t)

Next ==
  \/ \E o \in Ops : \/ ApplicationCall(o)
                    \/ InvokeQueueStep(o)
                    \/ InvokerAnswer(o)
                    \/ BufferStep(o)
                    \/ TTLExpires(o)
                    \/ TTLExpiresAgain(o)
                    \/ ShowEvent(o)
                    \/ LoadEvent(o)
  \/ \E t \in Threads : HandlerStep(t)

(***************************************************************************)
(* The dispatch queues run what is dispatched to them, and a scheduled     *)
(* timer fires.  Nothing is assumed of the web view, of the application or *)
(* of the invoker's buffer, which may keep an operation for ever.          *)
(***************************************************************************)
Fairness ==
  /\ \A o \in Ops : WF_vars(InvokeQueueStep(o)) /\ WF_vars(TTLExpires(o))
  /\ \A t \in Threads : WF_vars(HandlerStep(t))

Spec == Init /\ [][Next]_vars /\ Fairness

-----------------------------------------------------------------------------
(***************************************************************************)
(* Properties.                                                             *)
(***************************************************************************)
\* The delegate calls that end an operation; a banner may be loaded again.
Terminals(o) ==
  IF Kind[o] = "banner" THEN calls[o]["failed"]
  ELSE calls[o]["loaded"] + calls[o]["completed"] + calls[o]["failed"]

\* An invoker error that ran off the main thread.
FailedInBackground(o) == invoker[o] \in {"failed", "refused"}

(***************************************************************************)
(* The delegate hears the end of an operation once.  Everything that runs  *)
(* on the main thread (web-view events, the TTL, a failed initialization)  *)
(* takes turns, however often it happens; only one invoker error in the    *)
(* background, whose processError reads, notifies and removes in three     *)
(* steps, can add a second end, and never a third.                         *)
(***************************************************************************)
AnsweredOnce ==
  \A o \in Ops : Terminals(o) <= IF FailedInBackground(o) THEN 2 ELSE 1

(***************************************************************************)
(* An operation whose end has been told does not stay in the storage,      *)
(* unless the processError that told it is about to remove it: no answer   *)
(* leaks the operation, its delegate and its timer.                        *)
(***************************************************************************)
AnsweredIsRemoved ==
  \A o \in stored :
    Terminals(o) > 0 =>
      \E t \in Threads : Running(t, "remove") /\ handler[t].op = o

(***************************************************************************)
(* Once an event of the ad has stopped the TTL of a show, that show is     *)
(* never reported as timed out, neither in the past nor by a processError  *)
(* that is already running.                                                *)
(***************************************************************************)
NoTimeoutOnceShowing ==
  \A o \in Ops : ttl[o] = "stopped" =>
    /\ failure[o] # None => failure[o].why # TTLExpired
    /\ \A t \in Threads :
         handler[t] # None /\ handler[t].op = o =>
           handler[t].error # TTLExpired

(***************************************************************************)
(* Metrics are complete: no delegate hears an end that was not counted     *)
(* first, a success for a loaded or completed ad, a failure for a failed   *)
(* one ("Send both start and failure metrics to align total number of      *)
(* calls").                                                                *)
(***************************************************************************)
EveryEndIsCounted ==
  \A o \in Ops :
    /\ calls[o]["loaded"] + calls[o]["completed"] <= metrics[o]["success"]
    /\ calls[o]["failed"] <= metrics[o]["failure"]
    /\ phase[o] # "new" <=> metrics[o]["start"] = 1

(***************************************************************************)
(* When the SDK itself fails a load, it says INITIALIZE_FAILED if and only *)
(* if the SDK could not be initialized, whether the load was waiting in    *)
(* the buffer or came after the failure: the second path only passes a raw *)
(* reason whose integer happens to agree.  A web view may name any reason. *)
(***************************************************************************)
InitFailureIsNamed ==
  \A o \in Ops :
    /\ Kind[o] = "load" /\ failure[o] # None
    /\ failure[o].why \in InternalErrors
    => (failure[o].why \in {InitFailedEarly, InitFailedLate} <=>
          failure[o].code = LoadError.InitializeFailed)

(***************************************************************************)
(* Every accepted load and show is settled for good, even when the invoker *)
(* loses it or the web view never reports, because the TTL sees to it: its *)
(* end is told and it has left the storage, or it is a show that got as    *)
(* far as an event of the ad, after which only the web view can end it.    *)
(***************************************************************************)
IsSettled(o) ==
  \/ Terminals(o) > 0 /\ o \notin stored
  \/ Kind[o] = "show" /\ ttl[o] = "stopped"

EveryCallIsSettled ==
  \A o \in {p \in Ops : HasTTL(p)} :
    phase[o] = "accepted" ~> []IsSettled(o)

-----------------------------------------------------------------------------
(***************************************************************************)
(* What the tests and the headers say, and the code does not keep.         *)
(***************************************************************************)
(***************************************************************************)
(* The delegate of a load or a show is told one end, never two             *)
(* (test_notifies_delegate_once_and_clears_the_states; a show "is either   *)
(* successfully completed ... or failed").                                 *)
(***************************************************************************)
ToldOnce == \A o \in Ops : Terminals(o) <= 1

(***************************************************************************)
(* A show that fails for want of a connection is told so ("if              *)
(* kUnityShowErrorNoConnection, show failed due to internet connection").  *)
(***************************************************************************)
NoConnectionIsTold ==
  \A o \in Ops :
    /\ failure[o] # None
    /\ failure[o].why = InternalError("show", ShowError.NoConnection)
    => failure[o].code = ShowError.NoConnection
=============================================================================
