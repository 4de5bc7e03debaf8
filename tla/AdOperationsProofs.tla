------------------------- MODULE AdOperationsProofs -------------------------
(***************************************************************************)
(* Proofs about AdOperations, for every set of operations and every value  *)
(* of its constants: type correctness and the safety properties.           *)
(***************************************************************************)
EXTENDS AdOperations, TLAPS

-----------------------------------------------------------------------------
(***************************************************************************)
(* Facts about the errors and the counters.                                *)
(***************************************************************************)
\* The reason of every error a delegate can hear of is an integer.
LEMMA ErrorsAreReasons ==
  \A e \in DelegateErrors :
    e.reason \in Int /\ e.domain \in {"show", "load", "abstract", "webview", "none"}
BY DEF DelegateErrors, InternalErrors, ModuleErrors, InternalError,
       TTLExpired, EmptyPlacement, WebViewInternal, WebViewTimeout,
       InitFailedLate, InitFailedEarly, NamedShowErrors, ShowError, LoadReasons

\* The errors that stop a call are among them.
LEMMA ExecutionErrorsAreDelegateErrors ==
  \A o \in Ops : ExecutionErrors(o) \subseteq DelegateErrors
BY DEF ExecutionErrors, DelegateErrors, InternalErrors, ModuleErrors,
       InternalError, EmptyPlacement, ShowNotInitialized, ShowNotSupported,
       NamedShowErrors, ShowError

\* Every error is converted into an integer of a public enumeration.
LEMMA PublicErrorIsInt ==
  ASSUME NEW o \in Ops, NEW e \in DelegateErrors
  PROVE  PublicError(o, e) \in Int
<1>1. e.reason \in Int /\ e.domain \in {"show", "load", "abstract", "webview", "none"}
  BY ErrorsAreReasons
<1>2. Kind[o] \in {"load", "show", "banner"}
  BY KindAssumption DEF Kinds
<1>3. LoadPublicError(e) \in Int
  BY <1>1 DEF LoadPublicError, LoadError
<1>4. ShowPublicError(e) \in Int
  BY <1>1 DEF ShowPublicError, ShowError, DomainCode
<1>5. BannerPublicError(e) \in Int
  BY <1>1 DEF BannerPublicError, BannerError
<1> QED BY <1>2, <1>3, <1>4, <1>5 DEF PublicError

\* What one more delegate call does to the counters.
LEMMA CallCounts ==
  ASSUME calls \in [Ops -> [Callbacks -> Nat]],
         NEW o \in Ops, NEW c \in Callbacks, Call(o, c)
  PROVE  /\ calls' \in [Ops -> [Callbacks -> Nat]]
         /\ \A p \in Ops, d \in Callbacks :
              calls'[p][d] = IF p = o /\ d = c THEN calls[p][d] + 1
                             ELSE calls[p][d]
BY DEF Call

\* What one more metric does to the counters.
LEMMA MetricCounts ==
  ASSUME metrics \in [Ops -> [Metrics -> Nat]],
         NEW o \in Ops, NEW m \in Metrics, Metric(o, m)
  PROVE  /\ metrics' \in [Ops -> [Metrics -> Nat]]
         /\ \A p \in Ops, n \in Metrics :
              metrics'[p][n] = IF p = o /\ n = m THEN metrics[p][n] + 1
                               ELSE metrics[p][n]
BY DEF Metric

-----------------------------------------------------------------------------
(***************************************************************************)
(* Type correctness: every variable keeps its type in every behaviour, the *)
(* queues of the modules and the running handlers included.                *)
(***************************************************************************)
LEMMA InitIsTyped == Init => TypeOK
BY DEF Init, TypeOK, InvokerStates, Handling, Kinds, Callbacks, Metrics

\* What telling the delegate of a failure does to the types.
LEMMA FailIsTyped ==
  ASSUME TypeOK, NEW o \in Ops, NEW e \in DelegateErrors,
         NEW code \in Int, Fail(o, e, code)
  PROVE  /\ calls' \in [Ops -> [Callbacks -> Nat]]
         /\ failure' \in [Ops -> Failures \cup {None}]
<1>1. calls' \in [Ops -> [Callbacks -> Nat]]
  BY CallCounts DEF Fail, TypeOK, Callbacks
<1>2. [why |-> e, code |-> code] \in Failures
  BY DEF Failures
<1> QED BY <1>1, <1>2 DEF Fail, TypeOK

\* The event handlers leave the counters and the failure typed, whether the
\* operation is still stored or not.
LEMMA ConditionalCallIsTyped ==
  ASSUME TypeOK, NEW o \in Ops, NEW c \in Callbacks, CallIfStored(o, c)
  PROVE  calls' \in [Ops -> [Callbacks -> Nat]]
BY CallCounts DEF CallIfStored, TypeOK

LEMMA ConditionalFailIsTyped ==
  ASSUME TypeOK, NEW o \in Ops, NEW e \in DelegateErrors,
         NEW code \in Int, FailIfStored(o, e, code)
  PROVE  /\ calls' \in [Ops -> [Callbacks -> Nat]]
         /\ failure' \in [Ops -> Failures \cup {None}]
BY FailIsTyped DEF FailIfStored, TypeOK

\* A handler starts at its first step.
LEMMA StartHandlingIsTyped ==
  ASSUME TypeOK, NEW t \in Threads, NEW o \in Ops,
         NEW e \in InternalErrors, StartHandling(t, o, e)
  PROVE  handler' \in [Threads -> Handling \cup {None}]
BY DEF StartHandling, Handling, TypeOK

\* The steps of the application and of the invoke queues.
LEMMA CallIsTyped ==
  ASSUME TypeOK, NEW o \in Ops, ApplicationCall(o) \/ InvokeQueueStep(o)
  PROVE  TypeOK'
<1>0. Kind[o] \in Kinds /\ Kind[o] \in Threads
  BY KindAssumption DEF Kinds, Threads
<1>1. CASE Execute(o)
  <2>1. metrics' \in [Ops -> [Metrics -> Nat]]
    BY <1>1, MetricCounts DEF Execute, TypeOK, Metrics
  <2>2. invokeQ' \in [Kinds -> Seq(Ops)]
    <3>1. Append(invokeQ[Kind[o]], o) \in Seq(Ops)
      BY <1>0 DEF TypeOK
    <3> QED BY <1>1, <3>1 DEF Execute, TypeOK
  <2>3. phase' \in [Ops -> {"new", "rejected", "accepted"}] /\ stored' \subseteq Ops
    BY <1>1 DEF Execute, TypeOK
  <2> QED BY <1>1, <2>1, <2>2, <2>3 DEF Execute, TypeOK
<1>2. ASSUME NEW e \in ExecutionErrors(o), Reject(o, e) PROVE TypeOK'
  <2>1. e \in DelegateErrors
    BY <1>2, ExecutionErrorsAreDelegateErrors
  <2>2. PublicError(o, e) \in Int
    BY <2>1, PublicErrorIsInt
  <2>3. Fail(o, e, PublicError(o, e))
    BY <1>2 DEF Reject
  <2>4. /\ calls' \in [Ops -> [Callbacks -> Nat]]
        /\ failure' \in [Ops -> Failures \cup {None}]
    BY <2>1, <2>2, <2>3, FailIsTyped
  <2>5. metrics' \in [Ops -> [Metrics -> Nat]]
    <3>1. metrics[o] \in [Metrics -> Nat]
      BY DEF TypeOK
    <3>2. metrics[o]["start"] + 1 \in Nat /\ metrics[o]["failure"] + 1 \in Nat
      BY <3>1 DEF Metrics
    <3> QED BY <1>2, <3>1, <3>2 DEF Reject, TypeOK, Metrics
  <2> QED BY <1>2, <2>4, <2>5 DEF Reject, TypeOK
<1>3. CASE SubscribeToExpiration(Kind[o], o)
  BY <1>3 DEF SubscribeToExpiration, TypeOK
<1>4. CASE CallInvoker(Kind[o], o)
  BY <1>0, <1>4 DEF CallInvoker, AtHead, TypeOK, InvokerStates
<1>5. CASE InvokerRefuses(Kind[o], o)
  <2>1. InitFailedEarly \in InternalErrors
    BY DEF InternalErrors
  <2>2. handler' \in [Threads -> Handling \cup {None}]
    BY <1>0, <1>5, <2>1, StartHandlingIsTyped DEF InvokerRefuses
  <2> QED BY <1>0, <1>5, <2>2
          DEF InvokerRefuses, AtHead, TypeOK, InvokerStates
<1> QED BY <1>1, <1>2, <1>3, <1>4, <1>5 DEF ApplicationCall, InvokeQueueStep

\* The later answers of the invoker and the TTL.
LEMMA AnswerIsTyped ==
  ASSUME TypeOK, NEW o \in Ops,
         InvokerAnswer(o) \/ BufferStep(o)
           \/ TTLExpires(o) \/ TTLExpiresAgain(o)
  PROVE  TypeOK'
<1>0. "main" \in Threads /\ "async" \in Threads
  BY DEF Threads
<1>1. {InitFailedLate, TTLExpired, WebViewInternal, WebViewTimeout}
        \subseteq InternalErrors
  BY DEF InternalErrors
<1>2. CASE InvokerSucceeds(o)
  BY <1>2 DEF InvokerSucceeds, TypeOK, InvokerStates
<1>3. ASSUME NEW e \in {WebViewInternal, WebViewTimeout}, InvokerFails(o, e)
      PROVE  TypeOK'
  <2>1. handler' \in [Threads -> Handling \cup {None}]
    BY <1>0, <1>1, <1>3, StartHandlingIsTyped DEF InvokerFails
  <2> QED BY <1>3, <2>1 DEF InvokerFails, TypeOK, InvokerStates
<1>4. CASE BufferedIsSent(o)
  BY <1>4 DEF BufferedIsSent, TypeOK, InvokerStates
<1>5. CASE BufferedIsDropped(o)
  <2>1. handler' \in [Threads -> Handling \cup {None}]
    BY <1>0, <1>1, <1>5, StartHandlingIsTyped DEF BufferedIsDropped
  <2> QED BY <1>5, <2>1 DEF BufferedIsDropped, TypeOK, InvokerStates
<1>6. CASE TTLExpires(o) \/ TTLExpiresAgain(o)
  <2>1. handler' \in [Threads -> Handling \cup {None}]
    BY <1>0, <1>1, <1>6, StartHandlingIsTyped DEF TTLExpires, TTLExpiresAgain
  <2>2. ttl' \in [Ops -> {"off", "armed", "fired", "stopped"}]
    BY <1>6 DEF TTLExpires, TTLExpiresAgain, TypeOK
  <2>3. events' \in [Ops -> Nat]
    <3>1. events[o] + 1 \in Nat
      BY DEF TypeOK
    <3> QED BY <1>6, <3>1 DEF TTLExpires, TTLExpiresAgain, TypeOK
  <2> QED BY <1>6, <2>1, <2>2, <2>3 DEF TTLExpires, TTLExpiresAgain, TypeOK
<1> QED BY <1>2, <1>3, <1>4, <1>5, <1>6 DEF InvokerAnswer, BufferStep

\* The three steps of processError.
LEMMA HandlerIsTyped ==
  ASSUME TypeOK, NEW t \in Threads, HandlerStep(t)
  PROVE  TypeOK'
<1>1. handler[t] \in Handling
  BY DEF HandlerStep, GetOperation, NotifyDelegate, RemoveOperation,
         Running, TypeOK
<1>2. handler[t].op \in Ops /\ handler[t].error \in DelegateErrors
  BY <1>1 DEF Handling, DelegateErrors
<1>3. CASE GetOperation(t)
  BY <1>1, <1>3 DEF GetOperation, Handling, TypeOK
<1>4. CASE NotifyDelegate(t)
  <2> DEFINE o == handler[t].op
             e == handler[t].error
  <2>1. PublicError(o, e) \in Int
    BY <1>2, PublicErrorIsInt
  <2>2. Fail(o, e, PublicError(o, e)) /\ Metric(o, "failure")
    BY <1>4 DEF NotifyDelegate
  <2>3. /\ calls' \in [Ops -> [Callbacks -> Nat]]
        /\ failure' \in [Ops -> Failures \cup {None}]
    BY <1>2, <2>1, <2>2, FailIsTyped
  <2>4. metrics' \in [Ops -> [Metrics -> Nat]]
    BY <1>2, <2>2, MetricCounts DEF TypeOK, Metrics
  <2>5. handler' \in [Threads -> Handling \cup {None}]
    BY <1>1, <1>4 DEF NotifyDelegate, Handling, TypeOK
  <2> QED BY <1>4, <2>3, <2>4, <2>5 DEF NotifyDelegate, TypeOK
<1>5. CASE RemoveOperation(t)
  BY <1>5 DEF RemoveOperation, TypeOK
<1> QED BY <1>3, <1>4, <1>5 DEF HandlerStep

\* What an event of the web view leaves typed, whatever its kind.
LEMMA WebViewEventIsTyped ==
  ASSUME TypeOK, NEW o \in Ops, WebViewEvent(o)
  PROVE  /\ phase' \in [Ops -> {"new", "rejected", "accepted"}]
         /\ invokeQ' \in [Kinds -> Seq(Ops)]
         /\ subscribed' \subseteq Ops
         /\ invoker' \in [Ops -> InvokerStates]
         /\ handler' \in [Threads -> Handling \cup {None}]
         /\ events' \in [Ops -> Nat]
BY DEF WebViewEvent, TypeOK

\* The events of a show.
LEMMA ShowEventIsTyped ==
  ASSUME TypeOK, NEW o \in Ops, ShowEvent(o)
  PROVE  TypeOK'
<1>1. CASE SendShowComplete(o)
  <2>1. calls' \in [Ops -> [Callbacks -> Nat]]
    BY <1>1, ConditionalCallIsTyped DEF SendShowComplete, Callbacks
  <2>2. metrics' \in [Ops -> [Metrics -> Nat]]
    BY <1>1, MetricCounts DEF SendShowComplete, TypeOK, Metrics
  <2> QED BY <1>1, <2>1, <2>2, WebViewEventIsTyped DEF SendShowComplete, TypeOK
<1>2. ASSUME NEW c \in {"started", "clicked", "consent"}, SendShowEvent(o, c)
      PROVE  TypeOK'
  <2>1. calls' \in [Ops -> [Callbacks -> Nat]]
    BY <1>2, ConditionalCallIsTyped DEF SendShowEvent, Callbacks, TypeOK
  <2>2. ttl' \in [Ops -> {"off", "armed", "fired", "stopped"}]
    BY <1>2 DEF SendShowEvent, StopTTLObserving, TypeOK
  <2> QED BY <1>2, <2>1, <2>2, WebViewEventIsTyped DEF SendShowEvent, TypeOK
<1>3. ASSUME NEW r \in ShowFailures, SendShowFailed(o, r) PROVE TypeOK'
  <2>1. r \in NamedShowErrors
    BY <1>3, ReasonAssumption
  <2>2. ShowErrorFromName(r) \in Int
    BY <2>1 DEF ShowErrorFromName, NamedShowErrors, ShowError
  <2>3. InternalError("show", r) \in DelegateErrors
    BY <2>1 DEF DelegateErrors, ModuleErrors
  <2>4. /\ calls' \in [Ops -> [Callbacks -> Nat]]
        /\ failure' \in [Ops -> Failures \cup {None}]
    BY <1>3, <2>2, <2>3, ConditionalFailIsTyped DEF SendShowFailed
  <2>5. metrics' \in [Ops -> [Metrics -> Nat]]
    BY <1>3, MetricCounts DEF SendShowFailed, TypeOK, Metrics
  <2> QED BY <1>3, <2>4, <2>5, WebViewEventIsTyped DEF SendShowFailed, TypeOK
<1> QED BY <1>1, <1>2, <1>3 DEF ShowEvent

\* The events of a load and of a banner.
LEMMA LoadEventIsTyped ==
  ASSUME TypeOK, NEW o \in Ops, LoadEvent(o)
  PROVE  TypeOK'
<1>1. CASE SendAdLoaded(o) \/ SendBannerLoaded(o)
  <2>1. calls' \in [Ops -> [Callbacks -> Nat]]
    BY <1>1, ConditionalCallIsTyped
       DEF SendAdLoaded, SendBannerLoaded, Callbacks
  <2>2. metrics' \in [Ops -> [Metrics -> Nat]]
    BY <1>1, MetricCounts DEF SendAdLoaded, SendBannerLoaded, TypeOK, Metrics
  <2> QED BY <1>1, <2>1, <2>2, WebViewEventIsTyped
          DEF SendAdLoaded, SendBannerLoaded, TypeOK
<1>2. ASSUME NEW r \in LoadFailures, SendAdFailedToLoad(o, r) PROVE TypeOK'
  <2> DEFINE e == InternalError("load", r)
  <2>1. e \in DelegateErrors
    BY ReasonAssumption DEF DelegateErrors, ModuleErrors
  <2>2. PublicError(o, e) \in Int
    BY <2>1, PublicErrorIsInt
  <2>3. FailIfStored(o, e, PublicError(o, e))
    BY <1>2 DEF SendAdFailedToLoad
  <2>4. /\ calls' \in [Ops -> [Callbacks -> Nat]]
        /\ failure' \in [Ops -> Failures \cup {None}]
    BY <2>1, <2>2, <2>3, ConditionalFailIsTyped
  <2>5. metrics' \in [Ops -> [Metrics -> Nat]]
    BY <1>2, MetricCounts DEF SendAdFailedToLoad, TypeOK, Metrics
  <2> QED BY <1>2, <2>4, <2>5, WebViewEventIsTyped DEF SendAdFailedToLoad, TypeOK
<1>3. ASSUME NEW c \in {"started", "clicked"}, SendBannerEvent(o, c)
      PROVE  TypeOK'
  <2>1. calls' \in [Ops -> [Callbacks -> Nat]]
    BY <1>3, ConditionalCallIsTyped DEF SendBannerEvent, Callbacks
  <2> QED BY <1>3, <2>1, WebViewEventIsTyped DEF SendBannerEvent, TypeOK
<1> QED BY <1>1, <1>2, <1>3 DEF LoadEvent

LEMMA NextIsTyped == TypeOK /\ [Next]_vars => TypeOK'
<1> SUFFICES ASSUME TypeOK, [Next]_vars PROVE TypeOK'
  OBVIOUS
<1>1. CASE UNCHANGED vars
  BY <1>1 DEF vars, TypeOK
<1> QED BY <1>1, CallIsTyped, AnswerIsTyped, ShowEventIsTyped,
           LoadEventIsTyped, HandlerIsTyped DEF Next

\* TypeOK holds in every behaviour of the ad-operation modules.
THEOREM TypeCorrect == Spec => []TypeOK
BY InitIsTyped, NextIsTyped, PTL DEF Spec

-----------------------------------------------------------------------------
(***************************************************************************)
(* The inductive invariant.                                                *)
(*                                                                         *)
(* Two parties can tell the end of an operation: the main thread, and one  *)
(* background thread, the queue on which the invoker failed.  MainTold and *)
(* BackgroundTold bound how often each has done so.  The main thread can   *)
(* no longer tell once the operation has left the storage and it is not    *)
(* about to notify, or while it is about to remove it.  The background     *)
(* thread has had its turn when its handler is past the notification.      *)
(***************************************************************************)
Handles(t, o) == handler[t] # None /\ handler[t].op = o
AtStep(t, o, step) == Handles(t, o) /\ handler[t].step = step

BackgroundThreads == {"async"} \cup Kinds

MainMayTell(o) ==
  \/ AtStep("main", o, "notify")
  \/ o \in stored /\ ~AtStep("main", o, "remove")

BackgroundHasTold(o) ==
  /\ FailedInBackground(o)
  /\ \A t \in BackgroundThreads :
       ~AtStep(t, o, "get") /\ ~AtStep(t, o, "notify")

MainTold(o)       == IF MainMayTell(o) THEN 0 ELSE 1
BackgroundTold(o) == IF BackgroundHasTold(o) THEN 1 ELSE 0

\* An operation waits at most once, in the queue of its own module, and has
\* not been given to the invoker before.
IsFresh(k) ==
  \A i \in 1..Len(invokeQ[k]) :
    /\ Kind[invokeQ[k][i]] = k
    /\ phase[invokeQ[k][i]] = "accepted"
    /\ invoker[invokeQ[k][i]] = "idle"
    /\ \A j \in 1..Len(invokeQ[k]) : invokeQ[k][i] = invokeQ[k][j] => i = j

QueuesAreFresh == \A k \in Kinds : IsFresh(k)

\* Nothing happens to an operation that has not been accepted.
OnlyAcceptedRun ==
  \A o \in Ops :
    /\ phase[o] # "accepted" =>
         /\ o \notin stored /\ o \notin subscribed
         /\ invoker[o] = "idle"
         /\ \A t \in Threads : ~Handles(t, o)
    /\ phase[o] = "new" => \A c \in Callbacks : calls[o][c] = 0
    /\ o \notin subscribed => ttl[o] = "off" /\ invoker[o] = "idle"

\* Which thread handles which error.
HandlersAreInPlace ==
  \A o \in Ops, t \in Threads : Handles(t, o) =>
    /\ t = "async" => invoker[o] = "failed"
    /\ t \in Kinds => invoker[o] = "refused" /\ t = Kind[o]
    /\ handler[t].error = TTLExpired => t = "main" /\ ttl[o] = "fired"

\* A background failure that is no longer handled has removed its operation,
\* and so has an expiration.
HandlersRemove ==
  \A o \in stored :
    /\ FailedInBackground(o) => \E t \in BackgroundThreads : Handles(t, o)
    /\ ttl[o] = "fired" => Handles("main", o)

EndsAreBounded ==
  \A o \in Ops : Terminals(o) <= MainTold(o) + BackgroundTold(o)

TimeoutsAreFired ==
  \A o \in Ops :
    failure[o] # None /\ failure[o].why = TTLExpired => ttl[o] = "fired"

IInv ==
  /\ TypeOK
  /\ QueuesAreFresh
  /\ OnlyAcceptedRun
  /\ HandlersAreInPlace
  /\ HandlersRemove
  /\ EndsAreBounded
  /\ TimeoutsAreFired

LEMMA InitIsInvariant == Init => IInv
<1> SUFFICES ASSUME Init PROVE IInv
  OBVIOUS
<1>1. TypeOK
  BY InitIsTyped
<1>2. \A t \in Threads, o \in Ops : ~Handles(t, o)
  BY DEF Init, Handles
<1>3. \A o \in Ops : ~FailedInBackground(o) /\ Terminals(o) = 0
  BY DEF Init, FailedInBackground, Terminals, Callbacks
<1>4. EndsAreBounded
  BY <1>3 DEF EndsAreBounded, MainTold, BackgroundTold
<1>5. QueuesAreFresh
  BY DEF Init, QueuesAreFresh, IsFresh
<1>6. OnlyAcceptedRun /\ HandlersAreInPlace /\ HandlersRemove /\ TimeoutsAreFired
  BY <1>2 DEF Init, OnlyAcceptedRun, HandlersAreInPlace, HandlersRemove,
              TimeoutsAreFired
<1> QED BY <1>1, <1>4, <1>5, <1>6 DEF IInv

\* An event of the web view concerns an operation the invoker has sent.
LEMMA EventsAreOfAccepted ==
  ASSUME OnlyAcceptedRun, NEW o \in Ops, WebViewEvent(o)
  PROVE  phase[o] = "accepted"
BY DEF OnlyAcceptedRun, WebViewEvent

\* The operation that leaves a queue was its only entry there.
LEMMA TailIsFresh ==
  ASSUME IInv, NEW o \in Ops, NEW k \in Kinds, AtHead(k, o)
  PROVE  /\ Kind[o] = k /\ phase[o] = "accepted" /\ invoker[o] = "idle"
         /\ Len(Tail(invokeQ[k])) = Len(invokeQ[k]) - 1
         /\ \A i \in 1..Len(Tail(invokeQ[k])) :
              /\ Tail(invokeQ[k])[i] = invokeQ[k][i + 1]
              /\ Tail(invokeQ[k])[i] # o
         /\ \A l \in Kinds \ {k} : \A i \in 1..Len(invokeQ[l]) :
              invokeQ[l][i] # o
<1>1. invokeQ[k] \in Seq(Ops) /\ invokeQ[k] # <<>> /\ o = invokeQ[k][1]
  BY DEF AtHead, IInv, TypeOK
<1>2. Len(invokeQ[k]) \in Nat /\ Len(invokeQ[k]) >= 1
  BY <1>1
<1>3. 1 \in 1..Len(invokeQ[k])
  BY <1>2
<1>4. IsFresh(k)
  BY DEF IInv, QueuesAreFresh
<1>5. Kind[o] = k /\ phase[o] = "accepted" /\ invoker[o] = "idle"
  BY <1>1, <1>3, <1>4 DEF IsFresh
<1>6. /\ Len(Tail(invokeQ[k])) = Len(invokeQ[k]) - 1
      /\ \A i \in 1..Len(Tail(invokeQ[k])) :
           /\ Tail(invokeQ[k])[i] = invokeQ[k][i + 1]
           /\ i + 1 \in 1..Len(invokeQ[k]) /\ i + 1 # 1
  BY <1>1, <1>2
<1>7. \A i \in 1..Len(Tail(invokeQ[k])) : Tail(invokeQ[k])[i] # o
  BY <1>1, <1>3, <1>4, <1>6 DEF IsFresh
<1>8. \A l \in Kinds \ {k} : \A i \in 1..Len(invokeQ[l]) : invokeQ[l][i] # o
  BY <1>5 DEF IInv, QueuesAreFresh, IsFresh
<1> QED BY <1>5, <1>6, <1>7, <1>8

\* What Append leaves in its place and what it adds.
LEMMA AppendElements ==
  ASSUME NEW S, NEW s \in Seq(S), NEW x \in S
  PROVE  /\ Len(Append(s, x)) = Len(s) + 1
         /\ Append(s, x)[Len(s) + 1] = x
         /\ \A i \in 1..Len(s) : Append(s, x)[i] = s[i]
OBVIOUS

\* The queues of the modules, when an operation is called and invoked, and
\* when anything else happens.
LEMMA CallsKeepQueuesFresh ==
  ASSUME IInv, NEW o \in Ops, Execute(o)
  PROVE  QueuesAreFresh'
<1> USE DEF IInv, TypeOK
<1>1. Kind[o] \in Kinds
  BY KindAssumption
<1>2. \A k \in Kinds : invokeQ[k] \in Seq(Ops)
  OBVIOUS
<1>3. \A k \in Kinds : \A i \in 1..Len(invokeQ[k]) : invokeQ[k][i] # o
  BY DEF Execute, MayCall, QueuesAreFresh, IsFresh
<1>4. invoker[o] = "idle"
  BY DEF Execute, MayCall, OnlyAcceptedRun
<1>7. /\ phase'[o] = "accepted" /\ invoker' = invoker
      /\ \A p \in Ops \ {o} : phase'[p] = phase[p]
  BY DEF Execute
<1> SUFFICES ASSUME NEW k \in Kinds PROVE IsFresh(k)'
  BY DEF QueuesAreFresh
<1>8. IsFresh(k) /\ \A i \in 1..Len(invokeQ[k]) : invokeQ[k][i] \in Ops \ {o}
  BY <1>2, <1>3 DEF QueuesAreFresh
<1>5. CASE k = Kind[o]
  <2>1. invokeQ'[k] = Append(invokeQ[k], o)
    BY <1>5 DEF Execute
  <2>2. /\ Len(invokeQ'[k]) = Len(invokeQ[k]) + 1
        /\ invokeQ'[k][Len(invokeQ[k]) + 1] = o
        /\ \A i \in 1..Len(invokeQ[k]) : invokeQ'[k][i] = invokeQ[k][i]
    BY <1>2, <2>1, AppendElements
  <2>3. Len(invokeQ[k]) \in Nat
    BY <1>2
  <2>4. \A i \in 1..Len(invokeQ'[k]) :
          IF i = Len(invokeQ[k]) + 1 THEN invokeQ'[k][i] = o
          ELSE /\ i \in 1..Len(invokeQ[k]) /\ invokeQ'[k][i] = invokeQ[k][i]
               /\ invokeQ'[k][i] # o
    <3> SUFFICES ASSUME NEW i \in 1..Len(invokeQ'[k]),
                        i # Len(invokeQ[k]) + 1
                 PROVE  /\ i \in 1..Len(invokeQ[k])
                        /\ invokeQ'[k][i] = invokeQ[k][i]
                        /\ invokeQ'[k][i] # o
      BY <2>2
    <3> HIDE DEF IInv, TypeOK
    <3>1. i \in 1..Len(invokeQ[k])
      BY <2>2, <2>3
    <3> QED BY <1>8, <2>2, <3>1
  <2>5. \A i \in 1..Len(invokeQ'[k]) :
          /\ Kind[invokeQ'[k][i]] = k
          /\ phase'[invokeQ'[k][i]] = "accepted"
          /\ invoker'[invokeQ'[k][i]] = "idle"
    <3> SUFFICES ASSUME NEW i \in 1..Len(invokeQ'[k])
                 PROVE  /\ Kind[invokeQ'[k][i]] = k
                        /\ phase'[invokeQ'[k][i]] = "accepted"
                        /\ invoker'[invokeQ'[k][i]] = "idle"
      OBVIOUS
    <3>1. CASE i = Len(invokeQ[k]) + 1
      BY <1>4, <1>5, <1>7, <2>4, <3>1
    <3>2. CASE i # Len(invokeQ[k]) + 1
      <4>1. i \in 1..Len(invokeQ[k]) /\ invokeQ'[k][i] = invokeQ[k][i]
        BY <2>4, <3>2
      <4>2. invokeQ[k][i] \in Ops \ {o}
        BY <1>8, <4>1
      <4> QED BY <1>7, <1>8, <4>1, <4>2 DEF IsFresh
    <3> QED BY <3>1, <3>2
  <2>6. \A i, j \in 1..Len(invokeQ'[k]) :
          invokeQ'[k][i] = invokeQ'[k][j] => i = j
    BY <1>8, <2>4 DEF IsFresh
  <2> QED BY <2>5, <2>6 DEF IsFresh
<1>6. CASE k # Kind[o]
  <2>1. invokeQ'[k] = invokeQ[k]
    BY <1>6 DEF Execute
  <2> QED BY <1>7, <1>8, <2>1 DEF IsFresh
<1> QED BY <1>5, <1>6

LEMMA InvocationsKeepQueuesFresh ==
  ASSUME IInv, NEW o \in Ops, NEW k \in Kinds,
         CallInvoker(k, o) \/ InvokerRefuses(k, o)
  PROVE  QueuesAreFresh'
<1> USE DEF IInv, TypeOK
<1>1. AtHead(k, o)
  BY DEF CallInvoker, InvokerRefuses
<1>2. /\ invokeQ' = [invokeQ EXCEPT ![k] = Tail(@)]
      /\ phase' = phase
      /\ \A p \in Ops \ {o} : invoker'[p] = invoker[p]
  BY DEF CallInvoker, InvokerRefuses
<1> SUFFICES ASSUME NEW l \in Kinds PROVE IsFresh(l)'
  BY DEF QueuesAreFresh
<1>3. invokeQ[l] \in Seq(Ops) /\ IsFresh(l)
  BY DEF QueuesAreFresh
<1>4. CASE l = k
  <2>1. invokeQ'[l] = Tail(invokeQ[k]) /\ invokeQ'[l] \in Seq(Ops)
    BY <1>1, <1>2, <1>3, <1>4 DEF AtHead
  <2>2. \A i \in 1..Len(invokeQ'[l]) : i + 1 \in 1..Len(invokeQ[l])
    BY <1>1, <1>3, <1>4, <2>1, TailIsFresh
  <2> QED BY <1>1, <1>2, <1>3, <1>4, <2>1, <2>2, TailIsFresh DEF IsFresh
<1>5. CASE l # k
  <2>1. invokeQ'[l] = invokeQ[l]
    BY <1>2, <1>5
  <2> QED BY <1>1, <1>2, <1>3, <1>5, <2>1, TailIsFresh DEF IsFresh
<1> QED BY <1>4, <1>5

LEMMA QueuesStayFresh ==
  ASSUME IInv, [Next]_vars
  PROVE  QueuesAreFresh'
<1> USE DEF IInv
<1>1. ASSUME phase' = phase, invokeQ' = invokeQ,
             \A o \in Ops : invoker[o] = "idle" => invoker'[o] = "idle"
      PROVE  QueuesAreFresh'
  BY <1>1 DEF TypeOK, QueuesAreFresh, IsFresh
<1>2. ASSUME NEW o \in Ops, ApplicationCall(o) PROVE QueuesAreFresh'
  <2>1. ASSUME NEW e \in ExecutionErrors(o), Reject(o, e)
        PROVE  QueuesAreFresh'
    <3>1. \A k \in Kinds : \A i \in 1..Len(invokeQ[k]) :
            invokeQ[k][i] \in Ops \ {o}
      BY <2>1 DEF Reject, MayCall, TypeOK, QueuesAreFresh, IsFresh
    <3>2. /\ invokeQ' = invokeQ /\ invoker' = invoker
          /\ \A p \in Ops \ {o} : phase'[p] = phase[p]
      BY <2>1 DEF Reject, TypeOK
    <3> QED BY <3>1, <3>2 DEF QueuesAreFresh, IsFresh
  <2> QED BY <1>2, <2>1, CallsKeepQueuesFresh DEF ApplicationCall
<1>3. ASSUME NEW o \in Ops, InvokeQueueStep(o) PROVE QueuesAreFresh'
  <2>1. CASE SubscribeToExpiration(Kind[o], o)
    BY <1>1, <2>1 DEF SubscribeToExpiration
  <2>2. Kind[o] \in Kinds
    BY KindAssumption
  <2> QED BY <1>3, <2>1, <2>2, InvocationsKeepQueuesFresh DEF InvokeQueueStep
<1>4. ASSUME NEW o \in Ops,
             InvokerAnswer(o) \/ BufferStep(o)
           \/ TTLExpires(o) \/ TTLExpiresAgain(o)
      PROVE  QueuesAreFresh'
  BY <1>1, <1>4 DEF InvokerAnswer, InvokerSucceeds, InvokerFails, BufferStep,
                    BufferedIsSent, BufferedIsDropped, TTLExpires, TTLExpiresAgain, TypeOK
<1>5. ASSUME NEW o \in Ops, ShowEvent(o) \/ LoadEvent(o)
      PROVE  QueuesAreFresh'
  BY <1>1, <1>5 DEF ShowEvent, SendShowComplete, SendShowEvent, SendShowFailed,
                    LoadEvent, SendAdLoaded, SendAdFailedToLoad,
                    SendBannerLoaded, SendBannerEvent, WebViewEvent
<1>6. ASSUME NEW t \in Threads, HandlerStep(t) PROVE QueuesAreFresh'
  BY <1>1, <1>6 DEF HandlerStep, GetOperation, NotifyDelegate, RemoveOperation
<1>7. CASE UNCHANGED vars
  BY <1>1, <1>7 DEF vars
<1> QED BY <1>2, <1>3, <1>4, <1>5, <1>6, <1>7 DEF Next

\* What an event of the web view for o leaves alone.  It runs on the main
\* thread, for an operation the invoker has sent; of the operation it may
\* change the delegate calls, the last failure and the TTL, and it may take
\* it out of the storage.
EventEffect(o) ==
  /\ UNCHANGED <<phase, invokeQ, subscribed, invoker, handler>>
  /\ handler["main"] = None
  /\ invoker[o] \in {"sent", "succeeded", "failed"}
  /\ stored' \subseteq stored /\ stored \subseteq stored' \cup {o}
  /\ \A p \in Ops \ {o} : /\ calls'[p] = calls[p]
                         /\ failure'[p] = failure[p]
                         /\ ttl'[p] = ttl[p]
  /\ failure'[o] = failure[o] \/ failure'[o].why \in ModuleErrors
  /\ ttl'[o] = ttl[o] \/ (o \in stored /\ ttl'[o] = "stopped")
  /\ o \notin stored => calls' = calls /\ failure' = failure

LEMMA EventFrame ==
  ASSUME TypeOK, NEW o \in Ops, ShowEvent(o) \/ LoadEvent(o)
  PROVE  EventEffect(o)
<1> USE DEF EventEffect, TypeOK, WebViewEvent, MainIsFree, CallIfStored, FailIfStored,
            Fail, Call, StopTTLObserving
<1>0. /\ \A r \in ShowFailures : InternalError("show", r) \in ModuleErrors
      /\ \A r \in LoadFailures : InternalError("load", r) \in ModuleErrors
  BY ReasonAssumption DEF ModuleErrors
<1>1. CASE SendShowComplete(o)
  BY <1>1 DEF SendShowComplete
<1>2. ASSUME NEW c \in {"started", "clicked", "consent"}, SendShowEvent(o, c)
      PROVE  EventEffect(o)
  BY <1>2 DEF SendShowEvent
<1>3. ASSUME NEW r \in ShowFailures, SendShowFailed(o, r)
      PROVE  EventEffect(o)
  BY <1>0, <1>3 DEF SendShowFailed
<1>4. CASE SendAdLoaded(o)
  BY <1>4 DEF SendAdLoaded
<1>5. ASSUME NEW r \in LoadFailures, SendAdFailedToLoad(o, r)
      PROVE  EventEffect(o)
  BY <1>0, <1>5 DEF SendAdFailedToLoad
<1>6. CASE SendBannerLoaded(o)
  BY <1>6 DEF SendBannerLoaded
<1>7. ASSUME NEW c \in {"started", "clicked"}, SendBannerEvent(o, c)
      PROVE  EventEffect(o)
  BY <1>7 DEF SendBannerEvent
<1> QED BY <1>1, <1>2, <1>3, <1>4, <1>5, <1>6, <1>7 DEF ShowEvent, LoadEvent

\* What the steps of a handler change of which thread handles what.
Started(t, o, e) ==
  /\ handler[t] = None
  /\ AtStep(t, o, "get")' /\ handler'[t].error = e
  /\ \A u \in Threads \ {t} : handler'[u] = handler[u]
  /\ \A u \in Threads, p \in Ops :
       Handles(u, p)' <=> Handles(u, p) \/ (u = t /\ p = o)
  /\ \A p \in Ops : ~Handles(t, p)

LEMMA HandlerStarts ==
  ASSUME TypeOK, NEW t \in Threads, NEW o \in Ops, NEW e \in InternalErrors,
         StartHandling(t, o, e)
  PROVE  Started(t, o, e)
<1>1. [op |-> o, error |-> e, step |-> "get"] \in Handling
  BY DEF Handling
<1> QED BY <1>1, NoneAssumption
       DEF Started, StartHandling, TypeOK, AtStep, Handles

LEMMA HandlerGoesOn ==
  ASSUME TypeOK, NEW t \in Threads, GetOperation(t) \/ NotifyDelegate(t)
  PROVE  /\ \A u \in Threads, o \in Ops : Handles(u, o)' <=> Handles(u, o)
         /\ \A u \in Threads : handler[u] # None => handler'[u].error = handler[u].error
         /\ \A u \in Threads \ {t} : handler'[u] = handler[u]
<1>1. handler[t] \in Handling
  BY DEF GetOperation, NotifyDelegate, Running, TypeOK
<1>2. PICK s \in {"get", "notify", "remove"} :
        handler' = [handler EXCEPT ![t].step = s]
  BY DEF GetOperation, NotifyDelegate
<1>3. [handler[t] EXCEPT !.step = s] \in Handling
  BY <1>1 DEF Handling
<1> QED BY <1>1, <1>2, <1>3, NoneAssumption DEF TypeOK, Handles, Handling

LEMMA HandlerEnds ==
  ASSUME TypeOK, NEW t \in Threads, RemoveOperation(t)
  PROVE  /\ \A o \in Ops : ~Handles(t, o)'
         /\ \A u \in Threads \ {t} : handler'[u] = handler[u]
         /\ handler[t].op \in Ops /\ Handles(t, handler[t].op)
BY DEF RemoveOperation, Running, TypeOK, Handles, Handling

LEMMA HandlersUnchanged ==
  ASSUME UNCHANGED handler
  PROVE  \A u \in Threads, o \in Ops : Handles(u, o)' <=> Handles(u, o)
BY DEF Handles

\* The threads are apart, and so are the errors.
LEMMA ThreadsDiffer ==
  /\ {"main", "async"} \subseteq Threads /\ "main" # "async"
  /\ Kinds \subseteq Threads /\ "main" \notin Kinds /\ "async" \notin Kinds
  /\ BackgroundThreads = Threads \ {"main"}
BY DEF Threads, Kinds, BackgroundThreads

LEMMA ErrorsDiffer ==
  /\ TTLExpired \notin ModuleErrors
  /\ \A o \in Ops : TTLExpired \notin ExecutionErrors(o)
  /\ {InitFailedLate, InitFailedEarly, WebViewInternal, WebViewTimeout,
      TTLExpired} \subseteq InternalErrors
  /\ TTLExpired \notin {InitFailedLate, InitFailedEarly, WebViewInternal,
                      WebViewTimeout}
<1> USE DEF InternalError
<1>1. TTLExpired.domain = "abstract" /\ TTLExpired.reason = 0
  BY DEF TTLExpired
<1>2. \A e \in ModuleErrors : e.domain # "abstract"
  BY DEF ModuleErrors
<1>3. /\ InitFailedLate.domain # "abstract" /\ InitFailedEarly.domain # "abstract"
      /\ WebViewInternal.domain # "abstract" /\ WebViewTimeout.domain # "abstract"
  BY DEF InitFailedLate, InitFailedEarly, WebViewInternal, WebViewTimeout
<1>4. EmptyPlacement.reason # 0
  BY DEF EmptyPlacement
<1>5. ShowNotInitialized.domain # "abstract" /\ ShowNotSupported.domain # "abstract"
  BY DEF ShowNotInitialized, ShowNotSupported
<1>6. \A o \in Ops : TTLExpired \notin ExecutionErrors(o)
  BY <1>1, <1>4, <1>5 DEF ExecutionErrors
<1>7. {InitFailedLate, InitFailedEarly, WebViewInternal, WebViewTimeout,
       TTLExpired} \subseteq InternalErrors
  BY DEF InternalErrors
<1> QED BY <1>1, <1>2, <1>3, <1>6, <1>7

\* Only accepted operations run.
LEMMA OnlyAcceptedRunIsKept ==
  ASSUME IInv, [Next]_vars
  PROVE  OnlyAcceptedRun'
<1>0. TypeOK /\ QueuesAreFresh /\ OnlyAcceptedRun /\ HandlersAreInPlace
        /\ HandlersRemove /\ EndsAreBounded /\ TimeoutsAreFired
  BY DEF IInv
<1>1. ASSUME NEW o \in Ops, Execute(o)
      PROVE  OnlyAcceptedRun'
  BY <1>0, <1>1
     DEF TypeOK, Execute, MayCall, Metric, OnlyAcceptedRun, Handles
<1>2. ASSUME NEW o \in Ops, NEW e \in ExecutionErrors(o), Reject(o, e)
      PROVE  OnlyAcceptedRun'
  BY <1>0, <1>2
     DEF TypeOK, Reject, MayCall, Fail, Call, OnlyAcceptedRun, Handles
<1>3. ASSUME NEW o \in Ops, NEW k \in Kinds, SubscribeToExpiration(k, o)
      PROVE  OnlyAcceptedRun'
  BY <1>0, <1>3, TailIsFresh
     DEF TypeOK, SubscribeToExpiration, AtHead, OnlyAcceptedRun, Handles
<1>4. ASSUME NEW o \in Ops, NEW k \in Kinds, CallInvoker(k, o)
      PROVE  OnlyAcceptedRun'
  BY <1>0, <1>4, TailIsFresh
     DEF TypeOK, CallInvoker, AtHead, OnlyAcceptedRun, Handles
<1>5. ASSUME NEW o \in Ops, NEW k \in Kinds, InvokerRefuses(k, o)
      PROVE  OnlyAcceptedRun'
  <2>1. Started(k, o, InitFailedEarly)
    BY <1>0, <1>5, HandlerStarts, ThreadsDiffer, ErrorsDiffer DEF InvokerRefuses
  <2> QED BY <1>0, <1>5, <2>1, TailIsFresh, ThreadsDiffer, ErrorsDiffer
          DEF InvokerRefuses, AtHead, Started, TypeOK, OnlyAcceptedRun
<1>6. ASSUME NEW o \in Ops, InvokerSucceeds(o)
      PROVE  OnlyAcceptedRun'
  BY <1>0, <1>6
     DEF TypeOK, InvokerSucceeds, OnlyAcceptedRun, Handles
<1>7. ASSUME NEW o \in Ops,
             NEW e \in {WebViewInternal, WebViewTimeout}, InvokerFails(o, e)
      PROVE  OnlyAcceptedRun'
  <2>1. Started("async", o, e)
    BY <1>0, <1>7, HandlerStarts, ThreadsDiffer, ErrorsDiffer DEF InvokerFails
  <2> QED BY <1>0, <1>7, <2>1, ThreadsDiffer, ErrorsDiffer
          DEF InvokerFails, Started, TypeOK, OnlyAcceptedRun
<1>8. ASSUME NEW o \in Ops, BufferedIsSent(o)
      PROVE  OnlyAcceptedRun'
  BY <1>0, <1>8
     DEF TypeOK, BufferedIsSent, MainIsFree, OnlyAcceptedRun, Handles
<1>9. ASSUME NEW o \in Ops, BufferedIsDropped(o)
      PROVE  OnlyAcceptedRun'
  <2>1. Started("main", o, InitFailedLate)
    BY <1>0, <1>9, HandlerStarts, ThreadsDiffer, ErrorsDiffer DEF BufferedIsDropped
  <2> QED BY <1>0, <1>9, <2>1, ThreadsDiffer, ErrorsDiffer
          DEF BufferedIsDropped, Started, TypeOK, OnlyAcceptedRun
<1>10. ASSUME NEW o \in Ops, TTLExpires(o) \/ TTLExpiresAgain(o)
      PROVE  OnlyAcceptedRun'
  <2>1. Started("main", o, TTLExpired)
    BY <1>0, <1>10, HandlerStarts, ThreadsDiffer, ErrorsDiffer DEF TTLExpires, TTLExpiresAgain
  <2> QED BY <1>0, <1>10, <2>1, ThreadsDiffer, ErrorsDiffer
          DEF TTLExpires, TTLExpiresAgain, IsAlive, Started, TypeOK, OnlyAcceptedRun
<1>11. ASSUME NEW o \in Ops, ShowEvent(o) \/ LoadEvent(o)
      PROVE  OnlyAcceptedRun'
  <2>1. EventEffect(o) /\ phase[o] = "accepted"
    BY <1>0, <1>11, EventFrame DEF OnlyAcceptedRun, EventEffect
  <2> QED BY <1>0, <1>11, <2>1 DEF EventEffect, OnlyAcceptedRun, Handles
<1>12. ASSUME NEW t \in Threads, GetOperation(t)
      PROVE  OnlyAcceptedRun'
  BY <1>0, <1>12, HandlerGoesOn, ThreadsDiffer
     DEF TypeOK, GetOperation, Running, OnlyAcceptedRun, Handles
<1>13. ASSUME NEW t \in Threads, NotifyDelegate(t)
      PROVE  OnlyAcceptedRun'
  BY <1>0, <1>13, HandlerGoesOn, ThreadsDiffer
     DEF TypeOK, NotifyDelegate, Running, Fail, Call, OnlyAcceptedRun, Handles
<1>14. ASSUME NEW t \in Threads, RemoveOperation(t)
      PROVE  OnlyAcceptedRun'
  BY <1>0, <1>14, HandlerEnds, ThreadsDiffer
     DEF TypeOK, RemoveOperation, Running, OnlyAcceptedRun, Handles
<1>15. CASE UNCHANGED vars
  BY <1>0, <1>15 DEF vars, OnlyAcceptedRun, Handles
<1>16. \A o \in Ops : Kind[o] \in Kinds
  BY KindAssumption
<1> QED BY <1>1, <1>2, <1>3, <1>4, <1>5, <1>6, <1>7, <1>8, <1>9, <1>10,
           <1>11, <1>12, <1>13, <1>14, <1>15, <1>16
  DEF Next, ApplicationCall, InvokeQueueStep, InvokerAnswer, BufferStep,
      HandlerStep

\* Every error is handled on the thread it arose on.
LEMMA HandlersStayInPlace ==
  ASSUME IInv, [Next]_vars
  PROVE  HandlersAreInPlace'
<1>0. TypeOK /\ QueuesAreFresh /\ OnlyAcceptedRun /\ HandlersAreInPlace
        /\ HandlersRemove /\ EndsAreBounded /\ TimeoutsAreFired
  BY DEF IInv
<1>1. ASSUME NEW o \in Ops, Execute(o)
      PROVE  HandlersAreInPlace'
  BY <1>0, <1>1
     DEF TypeOK, Execute, MayCall, Metric, HandlersAreInPlace,
         OnlyAcceptedRun, Handles
<1>2. ASSUME NEW o \in Ops, NEW e \in ExecutionErrors(o), Reject(o, e)
      PROVE  HandlersAreInPlace'
  BY <1>0, <1>2 DEF Reject, TypeOK, HandlersAreInPlace, OnlyAcceptedRun, Handles
<1>3. ASSUME NEW o \in Ops, NEW k \in Kinds, SubscribeToExpiration(k, o)
      PROVE  HandlersAreInPlace'
  BY <1>0, <1>3, TailIsFresh
     DEF TypeOK, SubscribeToExpiration, AtHead, HandlersAreInPlace,
         OnlyAcceptedRun, Handles
<1>4. ASSUME NEW o \in Ops, NEW k \in Kinds, CallInvoker(k, o)
      PROVE  HandlersAreInPlace'
  BY <1>0, <1>4, TailIsFresh
     DEF TypeOK, CallInvoker, AtHead, HandlersAreInPlace, OnlyAcceptedRun,
         Handles
<1>5. ASSUME NEW o \in Ops, NEW k \in Kinds, InvokerRefuses(k, o)
      PROVE  HandlersAreInPlace'
  <2>1. Started(k, o, InitFailedEarly)
    BY <1>0, <1>5, HandlerStarts, ThreadsDiffer, ErrorsDiffer DEF InvokerRefuses
  <2> QED BY <1>0, <1>5, <2>1, TailIsFresh, ThreadsDiffer, ErrorsDiffer
          DEF InvokerRefuses, AtHead, Started, TypeOK, HandlersAreInPlace,
              OnlyAcceptedRun
<1>6. ASSUME NEW o \in Ops, InvokerSucceeds(o)
      PROVE  HandlersAreInPlace'
  BY <1>0, <1>6
     DEF TypeOK, InvokerSucceeds, HandlersAreInPlace, OnlyAcceptedRun, Handles
<1>7. ASSUME NEW o \in Ops,
             NEW e \in {WebViewInternal, WebViewTimeout}, InvokerFails(o, e)
      PROVE  HandlersAreInPlace'
  <2>1. Started("async", o, e)
    BY <1>0, <1>7, HandlerStarts, ThreadsDiffer, ErrorsDiffer DEF InvokerFails
  <2> QED BY <1>0, <1>7, <2>1, ThreadsDiffer, ErrorsDiffer
          DEF InvokerFails, Started, TypeOK, HandlersAreInPlace,
              OnlyAcceptedRun
<1>8. ASSUME NEW o \in Ops, BufferedIsSent(o)
      PROVE  HandlersAreInPlace'
  BY <1>0, <1>8
     DEF TypeOK, BufferedIsSent, MainIsFree, HandlersAreInPlace,
         OnlyAcceptedRun, Handles
<1>9. ASSUME NEW o \in Ops, BufferedIsDropped(o)
      PROVE  HandlersAreInPlace'
  <2>1. Started("main", o, InitFailedLate)
    BY <1>0, <1>9, HandlerStarts, ThreadsDiffer, ErrorsDiffer DEF BufferedIsDropped
  <2> QED BY <1>0, <1>9, <2>1, ThreadsDiffer, ErrorsDiffer
          DEF BufferedIsDropped, Started, TypeOK, HandlersAreInPlace,
              OnlyAcceptedRun
<1>10. ASSUME NEW o \in Ops, TTLExpires(o) \/ TTLExpiresAgain(o)
      PROVE  HandlersAreInPlace'
  <2>1. Started("main", o, TTLExpired)
    BY <1>0, <1>10, HandlerStarts, ThreadsDiffer, ErrorsDiffer DEF TTLExpires, TTLExpiresAgain
  <2> QED BY <1>0, <1>10, <2>1, ThreadsDiffer, ErrorsDiffer
          DEF TTLExpires, TTLExpiresAgain, IsAlive, Started, TypeOK, HandlersAreInPlace,
              OnlyAcceptedRun
<1>11. ASSUME NEW o \in Ops, ShowEvent(o) \/ LoadEvent(o)
      PROVE  HandlersAreInPlace'
  BY <1>0, <1>11, EventFrame
     DEF TypeOK, EventEffect, HandlersAreInPlace, OnlyAcceptedRun, Handles
<1>12. ASSUME NEW t \in Threads, GetOperation(t)
      PROVE  HandlersAreInPlace'
  BY <1>0, <1>12, HandlerGoesOn, ThreadsDiffer
     DEF TypeOK, GetOperation, Running, HandlersAreInPlace, OnlyAcceptedRun,
         Handles
<1>13. ASSUME NEW t \in Threads, NotifyDelegate(t)
      PROVE  HandlersAreInPlace'
  BY <1>0, <1>13, HandlerGoesOn, ThreadsDiffer
     DEF TypeOK, NotifyDelegate, Running, Fail, Call, HandlersAreInPlace,
         OnlyAcceptedRun, Handles
<1>14. ASSUME NEW t \in Threads, RemoveOperation(t)
      PROVE  HandlersAreInPlace'
  BY <1>0, <1>14, HandlerEnds, ThreadsDiffer
     DEF TypeOK, RemoveOperation, Running, HandlersAreInPlace,
         OnlyAcceptedRun, Handles
<1>15. CASE UNCHANGED vars
  BY <1>0, <1>15 DEF vars, HandlersAreInPlace, OnlyAcceptedRun, Handles
<1>16. \A o \in Ops : Kind[o] \in Kinds
  BY KindAssumption
<1> QED BY <1>1, <1>2, <1>3, <1>4, <1>5, <1>6, <1>7, <1>8, <1>9, <1>10,
           <1>11, <1>12, <1>13, <1>14, <1>15, <1>16
  DEF Next, ApplicationCall, InvokeQueueStep, InvokerAnswer, BufferStep,
      HandlerStep

\* No handler leaves its operation behind.
LEMMA HandlersKeepRemoving ==
  ASSUME IInv, [Next]_vars
  PROVE  HandlersRemove'
<1>0. TypeOK /\ QueuesAreFresh /\ OnlyAcceptedRun /\ HandlersAreInPlace
        /\ HandlersRemove /\ EndsAreBounded /\ TimeoutsAreFired
  BY DEF IInv
<1>1. ASSUME NEW o \in Ops, Execute(o)
      PROVE  HandlersRemove'
  <2>1. \A u \in Threads, p \in Ops : Handles(u, p)' <=> Handles(u, p)
    BY <1>0, <1>1, HandlersUnchanged DEF Execute
  <2>2. BackgroundThreads \subseteq Threads /\ "main" \in Threads
    BY ThreadsDiffer
  <2> QED BY <1>0, <1>1, <2>1, <2>2
          DEF TypeOK, Execute, MayCall, OnlyAcceptedRun, HandlersRemove, FailedInBackground
<1>2. ASSUME NEW o \in Ops, NEW e \in ExecutionErrors(o), Reject(o, e)
      PROVE  HandlersRemove'
  <2>1. \A u \in Threads, p \in Ops : Handles(u, p)' <=> Handles(u, p)
    BY <1>0, <1>2, HandlersUnchanged DEF Reject
  <2>2. BackgroundThreads \subseteq Threads /\ "main" \in Threads
    BY ThreadsDiffer
  <2> QED BY <1>0, <1>2, <2>1, <2>2
          DEF TypeOK, Reject, HandlersRemove, FailedInBackground
<1>3. ASSUME NEW o \in Ops, NEW k \in Kinds, SubscribeToExpiration(k, o)
      PROVE  HandlersRemove'
  <2>1. \A u \in Threads, p \in Ops : Handles(u, p)' <=> Handles(u, p)
    BY <1>0, <1>3, HandlersUnchanged DEF SubscribeToExpiration
  <2>2. BackgroundThreads \subseteq Threads /\ "main" \in Threads
    BY ThreadsDiffer
  <2> QED BY <1>0, <1>3, <2>1, <2>2
          DEF TypeOK, SubscribeToExpiration, OnlyAcceptedRun, HandlersRemove, FailedInBackground
<1>4. ASSUME NEW o \in Ops, NEW k \in Kinds, CallInvoker(k, o)
      PROVE  HandlersRemove'
  <2>1. \A u \in Threads, p \in Ops : Handles(u, p)' <=> Handles(u, p)
    BY <1>0, <1>4, HandlersUnchanged DEF CallInvoker
  <2>2. BackgroundThreads \subseteq Threads /\ "main" \in Threads
    BY ThreadsDiffer
  <2> QED BY <1>0, <1>4, <2>1, <2>2
          DEF TypeOK, CallInvoker, AtHead, HandlersRemove, FailedInBackground
<1>5. ASSUME NEW o \in Ops, NEW k \in Kinds, InvokerRefuses(k, o)
      PROVE  HandlersRemove'
  <2>1. Started(k, o, InitFailedEarly)
    BY <1>0, <1>5, HandlerStarts, ThreadsDiffer, ErrorsDiffer DEF InvokerRefuses
  <2> QED BY <1>0, <1>5, <2>1, TailIsFresh, ThreadsDiffer, ErrorsDiffer
          DEF InvokerRefuses, AtHead, Started, TypeOK, HandlersRemove,
              FailedInBackground
<1>6. ASSUME NEW o \in Ops, InvokerSucceeds(o)
      PROVE  HandlersRemove'
  <2>1. \A u \in Threads, p \in Ops : Handles(u, p)' <=> Handles(u, p)
    BY <1>0, <1>6, HandlersUnchanged DEF InvokerSucceeds
  <2>2. BackgroundThreads \subseteq Threads /\ "main" \in Threads
    BY ThreadsDiffer
  <2> QED BY <1>0, <1>6, <2>1, <2>2
          DEF TypeOK, InvokerSucceeds, HandlersRemove, FailedInBackground
<1>7. ASSUME NEW o \in Ops,
             NEW e \in {WebViewInternal, WebViewTimeout}, InvokerFails(o, e)
      PROVE  HandlersRemove'
  <2>1. Started("async", o, e)
    BY <1>0, <1>7, HandlerStarts, ThreadsDiffer, ErrorsDiffer DEF InvokerFails
  <2> QED BY <1>0, <1>7, <2>1, ThreadsDiffer, ErrorsDiffer
          DEF InvokerFails, Started, TypeOK, HandlersRemove,
              FailedInBackground
<1>8. ASSUME NEW o \in Ops, BufferedIsSent(o)
      PROVE  HandlersRemove'
  <2>1. \A u \in Threads, p \in Ops : Handles(u, p)' <=> Handles(u, p)
    BY <1>0, <1>8, HandlersUnchanged DEF BufferedIsSent
  <2>2. BackgroundThreads \subseteq Threads /\ "main" \in Threads
    BY ThreadsDiffer
  <2> QED BY <1>0, <1>8, <2>1, <2>2
          DEF TypeOK, BufferedIsSent, HandlersRemove, FailedInBackground
<1>9. ASSUME NEW o \in Ops, BufferedIsDropped(o)
      PROVE  HandlersRemove'
  <2>1. Started("main", o, InitFailedLate)
    BY <1>0, <1>9, HandlerStarts, ThreadsDiffer, ErrorsDiffer DEF BufferedIsDropped
  <2> QED BY <1>0, <1>9, <2>1, ThreadsDiffer, ErrorsDiffer
          DEF BufferedIsDropped, Started, TypeOK, HandlersRemove,
              FailedInBackground
<1>10. ASSUME NEW o \in Ops, TTLExpires(o) \/ TTLExpiresAgain(o)
      PROVE  HandlersRemove'
  <2>1. Started("main", o, TTLExpired)
    BY <1>0, <1>10, HandlerStarts, ThreadsDiffer, ErrorsDiffer DEF TTLExpires, TTLExpiresAgain
  <2> QED BY <1>0, <1>10, <2>1, ThreadsDiffer, ErrorsDiffer
          DEF TTLExpires, TTLExpiresAgain, IsAlive, Started, TypeOK, HandlersRemove,
              FailedInBackground
<1>11. ASSUME NEW o \in Ops, ShowEvent(o) \/ LoadEvent(o)
      PROVE  HandlersRemove'
  <2>1. EventEffect(o)
    BY <1>0, <1>11, EventFrame
  <2>2. \A u \in Threads, p \in Ops : Handles(u, p)' <=> Handles(u, p)
    BY <2>1, HandlersUnchanged DEF EventEffect
  <2>3. BackgroundThreads \subseteq Threads /\ "main" \in Threads
    BY ThreadsDiffer
  <2> QED BY <1>0, <1>11, <2>1, <2>2, <2>3
          DEF TypeOK, EventEffect, HandlersRemove, FailedInBackground
<1>12. ASSUME NEW t \in Threads, GetOperation(t)
      PROVE  HandlersRemove'
  <2>1. \A u \in Threads, p \in Ops : Handles(u, p)' <=> Handles(u, p)
    BY <1>0, <1>12, HandlerGoesOn
  <2>2. BackgroundThreads \subseteq Threads /\ "main" \in Threads
    BY ThreadsDiffer
  <2> QED BY <1>0, <1>12, <2>1, <2>2
          DEF TypeOK, GetOperation, HandlersRemove, FailedInBackground
<1>13. ASSUME NEW t \in Threads, NotifyDelegate(t)
      PROVE  HandlersRemove'
  <2>1. \A u \in Threads, p \in Ops : Handles(u, p)' <=> Handles(u, p)
    BY <1>0, <1>13, HandlerGoesOn
  <2>2. BackgroundThreads \subseteq Threads /\ "main" \in Threads
    BY ThreadsDiffer
  <2> QED BY <1>0, <1>13, <2>1, <2>2
          DEF TypeOK, NotifyDelegate, HandlersRemove, FailedInBackground
<1>14. ASSUME NEW t \in Threads, RemoveOperation(t)
      PROVE  HandlersRemove'
  BY <1>0, <1>14, HandlerEnds, ThreadsDiffer
     DEF TypeOK, RemoveOperation, Running, HandlersRemove,
         FailedInBackground, Handles
<1>15. CASE UNCHANGED vars
  BY <1>0, <1>15 DEF vars, HandlersRemove, FailedInBackground, Handles
<1>16. \A o \in Ops : Kind[o] \in Kinds
  BY KindAssumption
<1> QED BY <1>1, <1>2, <1>3, <1>4, <1>5, <1>6, <1>7, <1>8, <1>9, <1>10,
           <1>11, <1>12, <1>13, <1>14, <1>15, <1>16
  DEF Next, ApplicationCall, InvokeQueueStep, InvokerAnswer, BufferStep,
      HandlerStep

\* A timeout that was told has fired.
LEMMA TimeoutsStayFired ==
  ASSUME IInv, [Next]_vars
  PROVE  TimeoutsAreFired'
<1>0. TypeOK /\ QueuesAreFresh /\ OnlyAcceptedRun /\ HandlersAreInPlace
        /\ HandlersRemove /\ EndsAreBounded /\ TimeoutsAreFired
  BY DEF IInv
<1>1. ASSUME NEW o \in Ops, Execute(o)
      PROVE  TimeoutsAreFired'
  BY <1>0, <1>1
     DEF TypeOK, Execute, MayCall, Metric, TimeoutsAreFired, HandlersRemove,
         HandlersAreInPlace, OnlyAcceptedRun, Handles
<1>2. ASSUME NEW o \in Ops, NEW e \in ExecutionErrors(o), Reject(o, e)
      PROVE  TimeoutsAreFired'
  BY <1>0, <1>2, ErrorsDiffer, ExecutionErrorsAreDelegateErrors
     DEF Reject, Fail, TimeoutsAreFired
<1>3. ASSUME NEW o \in Ops, NEW k \in Kinds, SubscribeToExpiration(k, o)
      PROVE  TimeoutsAreFired'
  BY <1>0, <1>3, TailIsFresh
     DEF TypeOK, SubscribeToExpiration, AtHead, TimeoutsAreFired,
         HandlersRemove, HandlersAreInPlace, OnlyAcceptedRun, Handles
<1>4. ASSUME NEW o \in Ops, NEW k \in Kinds, CallInvoker(k, o)
      PROVE  TimeoutsAreFired'
  BY <1>0, <1>4, TailIsFresh
     DEF TypeOK, CallInvoker, AtHead, TimeoutsAreFired, HandlersRemove,
         HandlersAreInPlace, OnlyAcceptedRun, Handles
<1>5. ASSUME NEW o \in Ops, NEW k \in Kinds, InvokerRefuses(k, o)
      PROVE  TimeoutsAreFired'
  <2>1. Started(k, o, InitFailedEarly)
    BY <1>0, <1>5, HandlerStarts, ThreadsDiffer, ErrorsDiffer DEF InvokerRefuses
  <2> QED BY <1>0, <1>5, <2>1, TailIsFresh, ThreadsDiffer, ErrorsDiffer
          DEF InvokerRefuses, AtHead, Started, TypeOK, TimeoutsAreFired,
              HandlersRemove, HandlersAreInPlace, OnlyAcceptedRun
<1>6. ASSUME NEW o \in Ops, InvokerSucceeds(o)
      PROVE  TimeoutsAreFired'
  BY <1>0, <1>6
     DEF TypeOK, InvokerSucceeds, TimeoutsAreFired, HandlersRemove,
         HandlersAreInPlace, OnlyAcceptedRun, Handles
<1>7. ASSUME NEW o \in Ops,
             NEW e \in {WebViewInternal, WebViewTimeout}, InvokerFails(o, e)
      PROVE  TimeoutsAreFired'
  <2>1. Started("async", o, e)
    BY <1>0, <1>7, HandlerStarts, ThreadsDiffer, ErrorsDiffer DEF InvokerFails
  <2> QED BY <1>0, <1>7, <2>1, ThreadsDiffer, ErrorsDiffer
          DEF InvokerFails, Started, TypeOK, TimeoutsAreFired,
              HandlersRemove, HandlersAreInPlace, OnlyAcceptedRun
<1>8. ASSUME NEW o \in Ops, BufferedIsSent(o)
      PROVE  TimeoutsAreFired'
  BY <1>0, <1>8
     DEF TypeOK, BufferedIsSent, MainIsFree, TimeoutsAreFired,
         HandlersRemove, HandlersAreInPlace, OnlyAcceptedRun, Handles
<1>9. ASSUME NEW o \in Ops, BufferedIsDropped(o)
      PROVE  TimeoutsAreFired'
  <2>1. Started("main", o, InitFailedLate)
    BY <1>0, <1>9, HandlerStarts, ThreadsDiffer, ErrorsDiffer DEF BufferedIsDropped
  <2> QED BY <1>0, <1>9, <2>1, ThreadsDiffer, ErrorsDiffer
          DEF BufferedIsDropped, Started, TypeOK, TimeoutsAreFired,
              HandlersRemove, HandlersAreInPlace, OnlyAcceptedRun
<1>10. ASSUME NEW o \in Ops, TTLExpires(o) \/ TTLExpiresAgain(o)
      PROVE  TimeoutsAreFired'
  <2>1. Started("main", o, TTLExpired)
    BY <1>0, <1>10, HandlerStarts, ThreadsDiffer, ErrorsDiffer DEF TTLExpires, TTLExpiresAgain
  <2> QED BY <1>0, <1>10, <2>1, ThreadsDiffer, ErrorsDiffer
          DEF TTLExpires, TTLExpiresAgain, IsAlive, Started, TypeOK, TimeoutsAreFired,
              HandlersRemove, HandlersAreInPlace, OnlyAcceptedRun
<1>11. ASSUME NEW o \in Ops, ShowEvent(o) \/ LoadEvent(o)
      PROVE  TimeoutsAreFired'
  <2>1. EventEffect(o)
    BY <1>0, <1>11, EventFrame
  <2>2. ttl[o] = "fired" => ttl'[o] = "fired"
    BY <1>0, <1>11, <2>1 DEF EventEffect, HandlersRemove, Handles
  <2> QED BY <1>0, <1>11, <2>1, <2>2, ErrorsDiffer DEF EventEffect, TimeoutsAreFired
<1>12. ASSUME NEW t \in Threads, GetOperation(t)
      PROVE  TimeoutsAreFired'
  BY <1>0, <1>12, HandlerGoesOn, ThreadsDiffer
     DEF TypeOK, GetOperation, Running, TimeoutsAreFired, HandlersRemove,
         HandlersAreInPlace, OnlyAcceptedRun, Handles
<1>13. ASSUME NEW t \in Threads, NotifyDelegate(t)
      PROVE  TimeoutsAreFired'
  BY <1>0, <1>13, HandlerGoesOn, ThreadsDiffer
     DEF TypeOK, NotifyDelegate, Running, Fail, Call, TimeoutsAreFired,
         HandlersRemove, HandlersAreInPlace, OnlyAcceptedRun, Handles
<1>14. ASSUME NEW t \in Threads, RemoveOperation(t)
      PROVE  TimeoutsAreFired'
  BY <1>0, <1>14, HandlerEnds, ThreadsDiffer
     DEF TypeOK, RemoveOperation, Running, TimeoutsAreFired, HandlersRemove,
         HandlersAreInPlace, OnlyAcceptedRun, Handles
<1>15. CASE UNCHANGED vars
  BY <1>0, <1>15 DEF vars, TimeoutsAreFired, HandlersRemove, HandlersAreInPlace,
         OnlyAcceptedRun, Handles
<1>16. \A o \in Ops : Kind[o] \in Kinds
  BY KindAssumption
<1> QED BY <1>1, <1>2, <1>3, <1>4, <1>5, <1>6, <1>7, <1>8, <1>9, <1>10,
           <1>11, <1>12, <1>13, <1>14, <1>15, <1>16
  DEF Next, ApplicationCall, InvokeQueueStep, InvokerAnswer, BufferStep,
      HandlerStep

(***************************************************************************)
(* The bound on the ends that a delegate hears.                            *)
(***************************************************************************)
LEMMA TerminalsAreNatural ==
  ASSUME calls \in [Ops -> [Callbacks -> Nat]]
  PROVE  \A o \in Ops : Terminals(o) \in Nat
BY DEF Terminals, Callbacks

\* A step that takes no turn back keeps the bound for the operations that
\* hear of no end.
NoTurnTakenBack(o) ==
  /\ MainMayTell(o)' => MainMayTell(o)
  /\ BackgroundHasTold(o) => BackgroundHasTold(o)'

LEMMA BoundIsKept ==
  ASSUME IInv, NEW o \in Ops, NoTurnTakenBack(o), calls'[o] = calls[o]
  PROVE  Terminals(o)' <= MainTold(o)' + BackgroundTold(o)'
<1>1. Terminals(o)' = Terminals(o)
  BY DEF Terminals
<1>2. /\ Terminals(o) <= MainTold(o) + BackgroundTold(o)
      /\ Terminals(o) \in Nat
  BY TerminalsAreNatural DEF IInv, EndsAreBounded, TypeOK
<1> QED BY <1>1, <1>2 DEF NoTurnTakenBack, MainTold, BackgroundTold

\* An end that the main thread tells in its turn, and one that a background
\* thread tells in its turn.
LEMMA BoundIsUsed ==
  ASSUME IInv, NEW o \in Ops, NoTurnTakenBack(o),
         Terminals(o)' = Terminals(o) + 1,
         \/ MainMayTell(o) /\ ~MainMayTell(o)'
         \/ ~BackgroundHasTold(o) /\ BackgroundHasTold(o)'
  PROVE  Terminals(o)' <= MainTold(o)' + BackgroundTold(o)'
<1>1. /\ Terminals(o) <= MainTold(o) + BackgroundTold(o)
      /\ Terminals(o) \in Nat
  BY TerminalsAreNatural DEF IInv, EndsAreBounded, TypeOK
<1> QED BY <1>1 DEF NoTurnTakenBack, MainTold, BackgroundTold

\* A delegate call is an end or it is not.
LEMMA CallEnds ==
  ASSUME TypeOK, NEW o \in Ops, NEW c \in Callbacks, Call(o, c)
  PROVE  /\ Terminals(o)' \in {Terminals(o), Terminals(o) + 1}
         /\ Kind[o] = "banner" /\ c # "failed" => Terminals(o)' = Terminals(o)
         /\ c \in {"started", "clicked"} => Terminals(o)' = Terminals(o)
         /\ c = "failed" => Terminals(o)' = Terminals(o) + 1
         /\ \A p \in Ops \ {o} : calls'[p] = calls[p]
<1>1. /\ calls' \in [Ops -> [Callbacks -> Nat]]
      /\ \A p \in Ops, d \in Callbacks :
           calls'[p][d] = IF p = o /\ d = c THEN calls[p][d] + 1 ELSE calls[p][d]
  BY CallCounts DEF TypeOK
<1>2. \A p \in Ops \ {o} : calls'[p] = calls[p]
  BY DEF Call, TypeOK
<1>3. \A d \in Callbacks : calls[o][d] \in Nat
  BY DEF TypeOK
<1> QED BY <1>1, <1>2, <1>3 DEF Terminals, Callbacks

\* An event that ends an operation takes it out of the storage.
LEMMA EventEnds ==
  ASSUME TypeOK, NEW o \in Ops, ShowEvent(o) \/ LoadEvent(o)
  PROVE  \/ Terminals(o)' = Terminals(o)
         \/ Terminals(o)' = Terminals(o) + 1 /\ o \in stored /\ o \notin stored'
<1> DEFINE Ends == \/ Terminals(o)' = Terminals(o)
                   \/ /\ Terminals(o)' = Terminals(o) + 1
                      /\ o \in stored /\ o \notin stored'
<1>0. UNCHANGED calls => Ends
  BY DEF Terminals
<1>1. CASE SendShowComplete(o)
  BY <1>0, <1>1, CallEnds DEF SendShowComplete, CallIfStored, Callbacks
<1>2. ASSUME NEW c \in {"started", "clicked", "consent"}, SendShowEvent(o, c)
      PROVE  Ends
  BY <1>0, <1>2, CallEnds DEF SendShowEvent, CallIfStored, Callbacks
<1>3. ASSUME NEW r \in ShowFailures, SendShowFailed(o, r)
      PROVE  Ends
  BY <1>0, <1>3, CallEnds DEF SendShowFailed, FailIfStored, Fail, Callbacks
<1>4. CASE SendAdLoaded(o)
  BY <1>0, <1>4, CallEnds DEF SendAdLoaded, CallIfStored, Callbacks
<1>5. ASSUME NEW r \in LoadFailures, SendAdFailedToLoad(o, r)
      PROVE  Ends
  BY <1>0, <1>5, CallEnds DEF SendAdFailedToLoad, FailIfStored, Fail, Callbacks
<1>6. CASE SendBannerLoaded(o)
  BY <1>0, <1>6, CallEnds DEF SendBannerLoaded, CallIfStored, Callbacks
<1>7. ASSUME NEW c \in {"started", "clicked"}, SendBannerEvent(o, c)
      PROVE  Ends
  BY <1>0, <1>7, CallEnds DEF SendBannerEvent, CallIfStored, Callbacks
<1> QED BY <1>1, <1>2, <1>3, <1>4, <1>5, <1>6, <1>7 DEF ShowEvent, LoadEvent

\* Who takes which turn: a step that only shrinks the storage takes none back,
\* nor does one that starts a handler,
LEMMA StorageTakesNoTurnBack ==
  ASSUME NEW o \in Ops, UNCHANGED handler, stored' \subseteq stored,
         FailedInBackground(o) => FailedInBackground(o)'
  PROVE  NoTurnTakenBack(o)
BY DEF NoTurnTakenBack, MainMayTell, BackgroundHasTold, AtStep, Handles

LEMMA StartTakesNoTurnBack ==
  ASSUME NEW t \in Threads, NEW p \in Ops, NEW e \in InternalErrors,
         Started(t, p, e), UNCHANGED stored,
         t # "main" => ~FailedInBackground(p),
         NEW o \in Ops, FailedInBackground(o) => FailedInBackground(o)'
  PROVE  NoTurnTakenBack(o)
<1>1. \A u \in Threads \ {t}, s \in {"get", "notify", "remove"} :
        AtStep(u, o, s)' <=> AtStep(u, o, s)
  BY DEF Started, AtStep, Handles
<1>2. \A s \in {"get", "notify", "remove"} : ~AtStep(t, o, s)
  BY DEF Started, AtStep
<1>3. \A s \in {"notify", "remove"} : ~AtStep(t, o, s)'
  BY DEF Started, AtStep
<1>4. MainMayTell(o)' => MainMayTell(o)
  BY <1>1, <1>2, <1>3, ThreadsDiffer DEF MainMayTell
<1>5. BackgroundHasTold(o) => BackgroundHasTold(o)'
  <2>1. CASE t = "main"
    BY <1>1, <2>1, ThreadsDiffer DEF BackgroundHasTold
  <2>2. CASE t # "main"
    <3>1. o # p => \A s \in {"get", "notify", "remove"} : ~AtStep(t, o, s)'
      BY <1>2 DEF Started, AtStep, Handles
    <3> QED BY <1>1, <2>2, <3>1, ThreadsDiffer DEF BackgroundHasTold
  <2> QED BY <2>1, <2>2
<1> QED BY <1>4, <1>5 DEF NoTurnTakenBack

\* nor do the three steps of a handler.
LEMMA HandlerTakesNoTurnBack ==
  ASSUME TypeOK, NEW t \in Threads, HandlerStep(t), NEW o \in Ops
  PROVE  NoTurnTakenBack(o)
<1>1. /\ handler[t] \in Handling /\ handler[t] # None
      /\ \A u \in Threads \ {t} : handler'[u] = handler[u]
      /\ UNCHANGED invoker
  BY HandlerGoesOn, HandlerEnds
     DEF HandlerStep, GetOperation, NotifyDelegate, RemoveOperation, Running,
         TypeOK
<1>2. \A u \in Threads \ {t}, s \in {"get", "notify", "remove"} :
        AtStep(u, o, s)' <=> AtStep(u, o, s)
  BY <1>1 DEF AtStep, Handles
<1>3. FailedInBackground(o)' <=> FailedInBackground(o)
  BY <1>1 DEF FailedInBackground
<1>4. CASE GetOperation(t)
  <2>1. UNCHANGED stored /\ ~AtStep(t, o, "remove") /\ ~AtStep(t, o, "notify")
    BY <1>4 DEF GetOperation, Running, AtStep
  <2>2. /\ AtStep(t, o, "notify")' => AtStep(t, o, "get") /\ o \in stored
        /\ ~AtStep(t, o, "get")'
    BY <1>1, <1>4 DEF GetOperation, Running, AtStep, Handles, TypeOK, Handling
  <2> QED BY <1>2, <1>3, <2>1, <2>2, ThreadsDiffer
          DEF NoTurnTakenBack, MainMayTell, BackgroundHasTold
<1>5. CASE NotifyDelegate(t)
  <2>1. /\ UNCHANGED stored
        /\ AtStep(t, o, "remove")' <=> AtStep(t, o, "notify")
        /\ ~AtStep(t, o, "notify")' /\ ~AtStep(t, o, "get")'
        /\ ~AtStep(t, o, "remove")
    BY <1>1, <1>5, NoneAssumption
       DEF NotifyDelegate, Running, AtStep, Handles, TypeOK, Handling
  <2> QED BY <1>2, <1>3, <2>1, ThreadsDiffer
          DEF NoTurnTakenBack, MainMayTell, BackgroundHasTold
<1>6. CASE RemoveOperation(t)
  <2>1. /\ stored' \subseteq stored
        /\ AtStep(t, o, "remove") => o \notin stored'
        /\ \A s \in {"get", "notify", "remove"} : ~AtStep(t, o, s)'
    BY <1>1, <1>6 DEF RemoveOperation, Running, AtStep, Handles, TypeOK
  <2> QED BY <1>2, <1>3, <2>1, ThreadsDiffer
          DEF NoTurnTakenBack, MainMayTell, BackgroundHasTold
<1> QED BY <1>4, <1>5, <1>6 DEF HandlerStep

\* A notification uses the turn of its thread.
LEMMA NotificationUsesTurn ==
  ASSUME IInv, NEW t \in Threads, NotifyDelegate(t),
         NEW o \in Ops, o = handler[t].op
  PROVE  \/ MainMayTell(o) /\ ~MainMayTell(o)'
         \/ ~BackgroundHasTold(o) /\ BackgroundHasTold(o)'
<1>0. TypeOK /\ HandlersAreInPlace
  BY DEF IInv
<1>1. handler[t] \in Handling /\ handler[t] # None
  BY <1>0 DEF NotifyDelegate, Running, TypeOK, Handling
<1>2. /\ AtStep(t, o, "notify")
      /\ AtStep(t, o, "remove")' /\ ~AtStep(t, o, "notify")' /\ ~AtStep(t, o, "get")'
  BY <1>0, <1>1, NoneAssumption
     DEF NotifyDelegate, Running, AtStep, Handles, TypeOK, Handling
<1>3. CASE t = "main"
  BY <1>2, <1>3 DEF MainMayTell
<1>4. CASE t # "main"
  <2>1. t \in BackgroundThreads
    BY <1>4, ThreadsDiffer
  <2>2. ~BackgroundHasTold(o)
    BY <1>2, <2>1 DEF BackgroundHasTold
  <2>3. FailedInBackground(o) /\ UNCHANGED invoker
    BY <1>0, <1>1, <1>2, <2>1
       DEF BackgroundThreads, HandlersAreInPlace, AtStep, FailedInBackground,
           NotifyDelegate
  <2>4. \A u \in BackgroundThreads \ {t} : ~Handles(u, o) /\ ~Handles(u, o)'
    <3>1. \A u \in BackgroundThreads \ {t} : ~Handles(u, o)
      BY <1>0, <1>1, <1>2, <2>1, ThreadsDiffer
         DEF BackgroundThreads, HandlersAreInPlace, AtStep
    <3> QED BY <1>0, <1>1, <3>1, ThreadsDiffer, HandlerGoesOn
  <2>5. BackgroundHasTold(o)'
    BY <1>2, <2>3, <2>4 DEF BackgroundHasTold, AtStep, FailedInBackground
  <2> QED BY <2>2, <2>5
<1> QED BY <1>3, <1>4

\* The bound, action by action.
LEMMA EndsStayBounded ==
  ASSUME IInv, [Next]_vars
  PROVE  EndsAreBounded'
<1>0. /\ TypeOK /\ OnlyAcceptedRun /\ HandlersAreInPlace
      /\ \A o \in Ops : Kind[o] \in Kinds
  BY KindAssumption DEF IInv
<1>1. ASSUME \A o \in Ops : NoTurnTakenBack(o), UNCHANGED calls
      PROVE  EndsAreBounded'
  BY <1>1, BoundIsKept DEF EndsAreBounded
<1>2. ASSUME NEW o \in Ops, Execute(o) PROVE EndsAreBounded'
  <2>1. /\ UNCHANGED <<handler, invoker, calls>> /\ stored' = stored \cup {o}
        /\ Terminals(o) = 0
    BY <1>0, <1>2 DEF Execute, MayCall, OnlyAcceptedRun, Terminals, Callbacks
  <2>2. Terminals(o)' <= MainTold(o)' + BackgroundTold(o)'
    BY <2>1 DEF Terminals, MainTold, BackgroundTold
  <2>3. ASSUME NEW p \in Ops \ {o} PROVE NoTurnTakenBack(p)
    BY <2>1 DEF NoTurnTakenBack, MainMayTell, BackgroundHasTold,
                FailedInBackground, AtStep, Handles
  <2> QED BY <2>1, <2>2, <2>3, BoundIsKept DEF EndsAreBounded
<1>3. ASSUME NEW o \in Ops, NEW e \in ExecutionErrors(o), Reject(o, e)
      PROVE  EndsAreBounded'
  <2>1. /\ UNCHANGED <<stored, handler, invoker>> /\ o \notin stored
        /\ Call(o, "failed") /\ "main" \in Threads
        /\ \A t \in Threads : ~Handles(t, o)
        /\ Terminals(o) = 0
    BY <1>0, <1>3, ThreadsDiffer
       DEF Reject, Fail, MayCall, OnlyAcceptedRun, Terminals, Callbacks
  <2>2. /\ Terminals(o)' = 1
        /\ \A p \in Ops \ {o} : calls'[p] = calls[p]
    BY <1>0, <2>1, CallEnds DEF Callbacks
  <2>3. ~MainMayTell(o)'
    BY <2>1 DEF MainMayTell, AtStep, Handles
  <2>4. \A p \in Ops : NoTurnTakenBack(p)
    BY <2>1, StorageTakesNoTurnBack DEF FailedInBackground
  <2>5. Terminals(o)' <= MainTold(o)' + BackgroundTold(o)'
    BY <2>2, <2>3 DEF MainTold, BackgroundTold
  <2> QED BY <2>2, <2>4, <2>5, BoundIsKept DEF EndsAreBounded
<1>4. ASSUME NEW o \in Ops,
             \/ SubscribeToExpiration(Kind[o], o) \/ CallInvoker(Kind[o], o)
             \/ InvokerSucceeds(o) \/ BufferedIsSent(o)
      PROVE  EndsAreBounded'
  <2>1. UNCHANGED <<stored, handler, calls>>
    BY <1>4 DEF SubscribeToExpiration, CallInvoker, InvokerSucceeds, BufferedIsSent
  <2>2. \A p \in Ops : FailedInBackground(p) => FailedInBackground(p)'
    BY <1>0, <1>4, TailIsFresh
       DEF SubscribeToExpiration, CallInvoker, InvokerSucceeds, BufferedIsSent,
           FailedInBackground, TypeOK
  <2> QED BY <1>1, <2>1, <2>2, StorageTakesNoTurnBack
<1>5. ASSUME NEW o \in Ops, InvokerRefuses(Kind[o], o) PROVE EndsAreBounded'
  <2>1. Started(Kind[o], o, InitFailedEarly) /\ UNCHANGED <<stored, calls>>
    BY <1>0, <1>5, HandlerStarts, ThreadsDiffer, ErrorsDiffer DEF InvokerRefuses
  <2>2. /\ \A p \in Ops : FailedInBackground(p) => FailedInBackground(p)'
        /\ ~FailedInBackground(o)
    BY <1>0, <1>5, TailIsFresh DEF InvokerRefuses, FailedInBackground, TypeOK
  <2> QED BY <1>0, <1>1, <2>1, <2>2, StartTakesNoTurnBack, ThreadsDiffer,
             ErrorsDiffer
<1>6. ASSUME NEW o \in Ops, NEW e \in {WebViewInternal, WebViewTimeout},
             InvokerFails(o, e)
      PROVE  EndsAreBounded'
  <2>1. Started("async", o, e) /\ UNCHANGED <<stored, calls>>
    BY <1>0, <1>6, HandlerStarts, ThreadsDiffer, ErrorsDiffer DEF InvokerFails
  <2>2. /\ \A p \in Ops : FailedInBackground(p) => FailedInBackground(p)'
        /\ ~FailedInBackground(o)
    BY <1>0, <1>6 DEF InvokerFails, FailedInBackground, TypeOK
  <2> QED BY <1>1, <2>1, <2>2, StartTakesNoTurnBack, ThreadsDiffer, ErrorsDiffer
<1>7. ASSUME NEW o \in Ops, BufferedIsDropped(o) PROVE EndsAreBounded'
  <2>1. Started("main", o, InitFailedLate) /\ UNCHANGED <<stored, calls>>
    BY <1>0, <1>7, HandlerStarts, ThreadsDiffer, ErrorsDiffer
       DEF BufferedIsDropped
  <2>2. \A p \in Ops : FailedInBackground(p) => FailedInBackground(p)'
    BY <1>0, <1>7 DEF BufferedIsDropped, FailedInBackground, TypeOK
  <2> QED BY <1>1, <2>1, <2>2, StartTakesNoTurnBack, ThreadsDiffer, ErrorsDiffer
<1>8. ASSUME NEW o \in Ops, TTLExpires(o) \/ TTLExpiresAgain(o) PROVE EndsAreBounded'
  <2>1. Started("main", o, TTLExpired) /\ UNCHANGED <<stored, calls, invoker>>
    BY <1>0, <1>8, HandlerStarts, ThreadsDiffer, ErrorsDiffer DEF TTLExpires, TTLExpiresAgain
  <2>2. \A p \in Ops : FailedInBackground(p) => FailedInBackground(p)'
    BY <2>1 DEF FailedInBackground
  <2> QED BY <1>1, <2>1, <2>2, StartTakesNoTurnBack, ThreadsDiffer, ErrorsDiffer
<1>9. ASSUME NEW o \in Ops, ShowEvent(o) \/ LoadEvent(o) PROVE EndsAreBounded'
  <2>1. EventEffect(o) /\ UNCHANGED <<handler, invoker>>
    BY <1>0, <1>9, EventFrame DEF EventEffect
  <2>2. \A p \in Ops : NoTurnTakenBack(p)
    BY <2>1, StorageTakesNoTurnBack DEF EventEffect, FailedInBackground
  <2>3. \A p \in Ops \ {o} :
          Terminals(p)' <= MainTold(p)' + BackgroundTold(p)'
    BY <2>1, <2>2, BoundIsKept DEF EventEffect
  <2>4. CASE Terminals(o)' = Terminals(o)
    <3>1. /\ Terminals(o) <= MainTold(o) + BackgroundTold(o)
          /\ Terminals(o) \in Nat
      BY <1>0, TerminalsAreNatural DEF IInv, EndsAreBounded, TypeOK
    <3>2. Terminals(o)' <= MainTold(o)' + BackgroundTold(o)'
      BY <2>2, <2>4, <3>1 DEF NoTurnTakenBack, MainTold, BackgroundTold
    <3> QED BY <2>3, <3>2 DEF EndsAreBounded
  <2>5. CASE Terminals(o)' = Terminals(o) + 1 /\ o \in stored /\ o \notin stored'
    <3>1. MainMayTell(o) /\ ~MainMayTell(o)'
      BY <2>1, <2>5 DEF EventEffect, MainMayTell, AtStep, Handles
    <3>2. Terminals(o)' <= MainTold(o)' + BackgroundTold(o)'
      BY <2>2, <2>5, <3>1, BoundIsUsed
    <3> QED BY <2>3, <3>2 DEF EndsAreBounded
  <2> QED BY <1>0, <1>9, <2>4, <2>5, EventEnds
<1>10. ASSUME NEW t \in Threads, HandlerStep(t) PROVE EndsAreBounded'
  <2>1. \A p \in Ops : NoTurnTakenBack(p)
    BY <1>0, <1>10, HandlerTakesNoTurnBack
  <2>2. CASE GetOperation(t) \/ RemoveOperation(t)
    BY <1>1, <2>1, <2>2 DEF GetOperation, RemoveOperation
  <2>3. CASE NotifyDelegate(t)
    <3>1. PICK o \in Ops : o = handler[t].op
      BY <1>0, <2>3 DEF NotifyDelegate, Running, TypeOK, Handling
    <3>2. Call(o, "failed")
      BY <2>3, <3>1 DEF NotifyDelegate, Fail
    <3>3. /\ Terminals(o)' = Terminals(o) + 1
          /\ \A p \in Ops \ {o} : calls'[p] = calls[p]
      BY <1>0, <3>2, CallEnds DEF Callbacks
    <3>4. \/ MainMayTell(o) /\ ~MainMayTell(o)'
          \/ ~BackgroundHasTold(o) /\ BackgroundHasTold(o)'
      BY <2>3, <3>1, NotificationUsesTurn
    <3>5. Terminals(o)' <= MainTold(o)' + BackgroundTold(o)'
      BY <2>1, <3>3, <3>4, BoundIsUsed
    <3> QED BY <2>1, <3>3, <3>5, BoundIsKept DEF EndsAreBounded
  <2> QED BY <1>10, <2>2, <2>3 DEF HandlerStep
<1>11. CASE UNCHANGED vars
  BY <1>1, <1>11, StorageTakesNoTurnBack DEF vars, FailedInBackground
<1> QED BY <1>2, <1>3, <1>4, <1>5, <1>6, <1>7, <1>8, <1>9, <1>10, <1>11
        DEF Next, ApplicationCall, InvokeQueueStep, InvokerAnswer, BufferStep

-----------------------------------------------------------------------------
(***************************************************************************)
(* The theorems.                                                           *)
(***************************************************************************)
LEMMA NextKeepsInvariant == IInv /\ [Next]_vars => IInv'
<1> SUFFICES ASSUME IInv, [Next]_vars PROVE IInv'
  OBVIOUS
<1>1. TypeOK'
  BY NextIsTyped DEF IInv
<1> QED BY <1>1, QueuesStayFresh, OnlyAcceptedRunIsKept, HandlersStayInPlace,
           HandlersKeepRemoving, EndsStayBounded, TimeoutsStayFired DEF IInv

\* The inductive invariant holds in every behaviour of the modules.
THEOREM Invariance == Spec => []IInv
BY InitIsInvariant, NextKeepsInvariant, PTL DEF Spec

\* A delegate hears the end of an operation once, or twice if the invoker
\* failed it in the background, however the threads interleave.
THEOREM DelegatesAreAnsweredOnce == Spec => []AnsweredOnce
<1>1. IInv => AnsweredOnce
  <2> SUFFICES ASSUME IInv, NEW o \in Ops
               PROVE  Terminals(o) <= IF FailedInBackground(o) THEN 2 ELSE 1
    BY DEF AnsweredOnce
  <2>1. /\ Terminals(o) <= MainTold(o) + BackgroundTold(o)
        /\ Terminals(o) \in Nat
    BY TerminalsAreNatural DEF IInv, EndsAreBounded, TypeOK
  <2> QED BY <2>1 DEF MainTold, BackgroundTold, BackgroundHasTold
<1> QED BY <1>1, Invariance, PTL

\* An operation whose end was told leaves the storage with the handler that
\* told it: no interleaving of answers leaks it.
THEOREM AnsweredOperationsAreRemoved == Spec => []AnsweredIsRemoved
<1>1. IInv => AnsweredIsRemoved
  <2> SUFFICES ASSUME IInv, NEW o \in stored, Terminals(o) > 0
               PROVE  \E t \in Threads : Running(t, "remove") /\ handler[t].op = o
    BY DEF AnsweredIsRemoved
  <2>1. /\ Terminals(o) <= MainTold(o) + BackgroundTold(o)
        /\ Terminals(o) \in Nat /\ o \in Ops
    BY TerminalsAreNatural DEF IInv, EndsAreBounded, TypeOK
  <2>2. CASE MainTold(o) = 1
    BY <2>2, ThreadsDiffer DEF MainTold, MainMayTell, AtStep, Handles, Running
  <2>3. CASE BackgroundTold(o) = 1
    <3>1. FailedInBackground(o)
      BY <2>3 DEF BackgroundTold, BackgroundHasTold
    <3>2. PICK t \in BackgroundThreads : Handles(t, o)
      BY <3>1 DEF IInv, HandlersRemove
    <3>3. t \in Threads /\ handler[t] \in Handling /\ handler[t] # None
      BY <3>2, ThreadsDiffer DEF Handles, IInv, TypeOK
    <3>4. handler[t].step = "remove"
      BY <2>3, <3>2, <3>3
         DEF BackgroundTold, BackgroundHasTold, AtStep, Handling
    <3> QED BY <3>2, <3>3, <3>4 DEF Handles, Running
  <2> QED BY <2>1, <2>2, <2>3 DEF MainTold, BackgroundTold
<1> QED BY <1>1, Invariance, PTL

\* A show that an event of the ad has stopped the TTL of is never reported
\* as timed out.
THEOREM ShowingIsNotTimedOut == Spec => []NoTimeoutOnceShowing
<1>1. IInv => NoTimeoutOnceShowing
  BY DEF IInv, HandlersAreInPlace, TimeoutsAreFired, NoTimeoutOnceShowing, Handles
<1> QED BY <1>1, Invariance, PTL

(***************************************************************************)
(* The metrics.  EveryEndIsCounted is inductive once the start metric of a *)
(* call that has not been made is known to be 0.                           *)
(***************************************************************************)
EndsAreCounted(o) ==
  /\ calls[o]["loaded"] + calls[o]["completed"] <= metrics[o]["success"]
  /\ calls[o]["failed"] <= metrics[o]["failure"]
  /\ metrics[o]["start"] = IF phase[o] = "new" THEN 0 ELSE 1

AllIsCounted == TypeOK /\ \A o \in Ops : EndsAreCounted(o)

\* A step that counts at least what it tells keeps the metrics complete.
Counts(o) ==
  \/ UNCHANGED <<calls, metrics, phase>>
  \/ /\ UNCHANGED phase
     /\ \/ Metric(o, "success") /\ UNCHANGED calls
        \/ Metric(o, "failure") /\ UNCHANGED calls
        \/ Metric(o, "success") /\ (Call(o, "loaded") \/ Call(o, "completed"))
        \/ Metric(o, "failure") /\ Call(o, "failed")
        \/ UNCHANGED metrics /\ (Call(o, "started") \/ Call(o, "clicked"))

LEMMA CountingIsKept ==
  ASSUME AllIsCounted, NEW o \in Ops, Counts(o), NEW p \in Ops
  PROVE  EndsAreCounted(p)'
<1>1. ASSUME NEW m \in Metrics, Metric(o, m)
      PROVE  \A n \in Metrics :
               metrics'[p][n] = IF p = o /\ n = m THEN metrics[p][n] + 1
                                ELSE metrics[p][n]
  BY <1>1, MetricCounts DEF AllIsCounted, TypeOK
<1>2. ASSUME NEW c \in Callbacks, Call(o, c)
      PROVE  \A d \in Callbacks :
               calls'[p][d] = IF p = o /\ d = c THEN calls[p][d] + 1
                              ELSE calls[p][d]
  BY <1>2, CallCounts DEF AllIsCounted, TypeOK
<1>3. /\ EndsAreCounted(p)
      /\ \A n \in Metrics : metrics[p][n] \in Nat
      /\ \A d \in Callbacks : calls[p][d] \in Nat
  BY DEF AllIsCounted, TypeOK
<1>4. /\ {"start", "success", "failure"} \subseteq Metrics
      /\ {"loaded", "completed", "failed", "started", "clicked"} \subseteq Callbacks
  BY DEF Metrics, Callbacks
<1> USE DEF EndsAreCounted
<1>5. CASE UNCHANGED <<calls, metrics, phase>>
  BY <1>3, <1>5
<1>6. CASE UNCHANGED phase /\ Metric(o, "success") /\ UNCHANGED calls
  BY <1>1, <1>3, <1>4, <1>6
<1>7. CASE UNCHANGED phase /\ Metric(o, "failure") /\ UNCHANGED calls
  BY <1>1, <1>3, <1>4, <1>7
<1>8. CASE UNCHANGED phase /\ Metric(o, "success") /\ Call(o, "loaded")
  BY <1>1, <1>2, <1>3, <1>4, <1>8
<1>9. CASE UNCHANGED phase /\ Metric(o, "success") /\ Call(o, "completed")
  BY <1>1, <1>2, <1>3, <1>4, <1>9
<1>10. CASE UNCHANGED phase /\ Metric(o, "failure") /\ Call(o, "failed")
  BY <1>1, <1>2, <1>3, <1>4, <1>10
<1>11. CASE UNCHANGED <<phase, metrics>> /\ Call(o, "started")
  BY <1>2, <1>3, <1>4, <1>11
<1>12. CASE UNCHANGED <<phase, metrics>> /\ Call(o, "clicked")
  BY <1>2, <1>3, <1>4, <1>12
<1> QED BY <1>5, <1>6, <1>7, <1>8, <1>9, <1>10, <1>11, <1>12 DEF Counts

LEMMA NextCounts ==
  ASSUME AllIsCounted, [Next]_vars
  PROVE  AllIsCounted'
<1>0. TypeOK /\ TypeOK'
  BY NextIsTyped DEF AllIsCounted
<1> SUFFICES \A p \in Ops : EndsAreCounted(p)'
  BY <1>0 DEF AllIsCounted
<1>1. ASSUME NEW o \in Ops, Execute(o) PROVE \A p \in Ops : EndsAreCounted(p)'
  <2>1. /\ UNCHANGED calls /\ Metric(o, "start")
        /\ phase[o] = "new" /\ phase' = [phase EXCEPT ![o] = "accepted"]
    BY <1>1 DEF Execute, MayCall
  <2> QED BY <1>0, <2>1, MetricCounts
          DEF AllIsCounted, EndsAreCounted, TypeOK, Metrics
<1>2. ASSUME NEW o \in Ops, NEW e \in ExecutionErrors(o), Reject(o, e)
      PROVE  \A p \in Ops : EndsAreCounted(p)'
  <2>1. /\ Call(o, "failed") /\ phase[o] = "new"
        /\ phase' = [phase EXCEPT ![o] = "rejected"]
        /\ metrics' = [metrics EXCEPT ![o]["start"] = @ + 1, ![o]["failure"] = @ + 1]
    BY <1>2 DEF Reject, Fail, MayCall
  <2>2. /\ metrics'[o]["start"] = metrics[o]["start"] + 1
        /\ metrics'[o]["failure"] = metrics[o]["failure"] + 1
        /\ metrics'[o]["success"] = metrics[o]["success"]
        /\ \A p \in Ops \ {o} : metrics'[p] = metrics[p]
    BY <1>0, <2>1 DEF TypeOK, Metrics
  <2>3. /\ calls'[o]["failed"] = calls[o]["failed"] + 1
        /\ calls'[o]["loaded"] = calls[o]["loaded"]
        /\ calls'[o]["completed"] = calls[o]["completed"]
        /\ \A p \in Ops \ {o} : calls'[p] = calls[p]
    BY <1>0, <2>1 DEF Call, TypeOK, Callbacks
  <2>4. phase'[o] = "rejected" /\ \A p \in Ops \ {o} : phase'[p] = phase[p]
    BY <1>0, <2>1 DEF TypeOK
  <2>5. /\ EndsAreCounted(o)
        /\ {"start", "success", "failure"} \subseteq Metrics
        /\ {"loaded", "completed", "failed"} \subseteq Callbacks
    BY DEF AllIsCounted, Metrics, Callbacks
  <2>6. /\ \A n \in Metrics : metrics[o][n] \in Nat
        /\ \A d \in Callbacks : calls[o][d] \in Nat
    BY <1>0 DEF TypeOK
  <2>7. EndsAreCounted(o)'
    BY <2>1, <2>2, <2>3, <2>4, <2>5, <2>6 DEF EndsAreCounted
  <2>8. ASSUME NEW p \in Ops \ {o} PROVE EndsAreCounted(p)'
    BY <2>2, <2>3, <2>4 DEF AllIsCounted, EndsAreCounted
  <2> QED BY <2>7, <2>8
<1>3. ASSUME NEW o \in Ops,
             \/ InvokeQueueStep(o) \/ InvokerAnswer(o) \/ BufferStep(o)
             \/ TTLExpires(o) \/ TTLExpiresAgain(o)
      PROVE  Counts(o)
  BY <1>3 DEF InvokeQueueStep, SubscribeToExpiration, CallInvoker,
              InvokerRefuses, InvokerAnswer, InvokerSucceeds, InvokerFails,
              BufferStep, BufferedIsSent, BufferedIsDropped, TTLExpires, TTLExpiresAgain, Counts
<1>4. ASSUME NEW o \in Ops, ShowEvent(o) PROVE Counts(o)
  BY <1>4 DEF ShowEvent, SendShowComplete, SendShowEvent, SendShowFailed,
              WebViewEvent, CallIfStored, FailIfStored, Fail, Counts
<1>5. ASSUME NEW o \in Ops, LoadEvent(o) PROVE Counts(o)
  BY <1>5 DEF LoadEvent, SendAdLoaded, SendAdFailedToLoad, SendBannerLoaded,
              SendBannerEvent, WebViewEvent, CallIfStored, FailIfStored, Fail,
              Counts
<1>6. ASSUME NEW t \in Threads, HandlerStep(t)
      PROVE  \E o \in Ops : Counts(o)
  <2>1. handler[t].op \in Ops
    BY <1>0, <1>6 DEF HandlerStep, GetOperation, NotifyDelegate,
                      RemoveOperation, Running, TypeOK, Handling
  <2>2. Counts(handler[t].op)
    BY <1>6 DEF HandlerStep, GetOperation, NotifyDelegate, RemoveOperation,
                Fail, Counts
  <2> QED BY <2>1, <2>2
<1>7. CASE UNCHANGED vars
  BY <1>7 DEF vars, AllIsCounted, EndsAreCounted
<1> QED BY <1>1, <1>2, <1>3, <1>4, <1>5, <1>6, <1>7, CountingIsKept
        DEF Next, ApplicationCall

\* No delegate hears an end that was not counted first.
THEOREM EndsAreAllCounted == Spec => []EveryEndIsCounted
<1>1. Init => AllIsCounted
  BY InitIsTyped DEF Init, AllIsCounted, EndsAreCounted, Callbacks, Metrics
<1>2. AllIsCounted => EveryEndIsCounted
  BY DEF AllIsCounted, EndsAreCounted, EveryEndIsCounted
<1> QED BY <1>1, <1>2, NextCounts, PTL DEF Spec

(***************************************************************************)
(* The failed initialization of a load.                                    *)
(***************************************************************************)
InitErrors == {InitFailedEarly, InitFailedLate}

\* Of the SDK's own errors, those of a failed initialization and no others are
\* converted into InitializeFailed for a load.
LEMMA OnlyInitErrorsAreNamed ==
  ASSUME NEW e \in InternalErrors
  PROVE  LoadPublicError(e) = LoadError.InitializeFailed <=> e \in InitErrors
<1> USE DEF InternalError, LoadError
<1>1. /\ TTLExpired = [domain |-> "abstract", reason |-> 0]
      /\ EmptyPlacement = [domain |-> "abstract", reason |-> 1]
      /\ WebViewInternal = [domain |-> "webview", reason |-> 0]
      /\ WebViewTimeout = [domain |-> "webview", reason |-> 1]
      /\ InitFailedLate = [domain |-> "webview", reason |-> 2]
      /\ InitFailedEarly = [domain |-> "none", reason |-> 0]
  BY DEF TTLExpired, EmptyPlacement, WebViewInternal, WebViewTimeout,
         InitFailedLate, InitFailedEarly
<1>2. CASE e = TTLExpired
  BY <1>1, <1>2 DEF LoadPublicError, InitErrors
<1>3. CASE e = EmptyPlacement
  BY <1>1, <1>3 DEF LoadPublicError, InitErrors
<1>4. CASE e = WebViewInternal
  BY <1>1, <1>4 DEF LoadPublicError, InitErrors
<1>5. CASE e = WebViewTimeout
  BY <1>1, <1>5 DEF LoadPublicError, InitErrors
<1>6. CASE e = InitFailedLate
  BY <1>1, <1>6 DEF LoadPublicError, InitErrors
<1>7. CASE e = InitFailedEarly
  BY <1>1, <1>7 DEF LoadPublicError, InitErrors
<1> QED BY <1>2, <1>3, <1>4, <1>5, <1>6, <1>7 DEF InternalErrors

IsNamed(o) ==
  Kind[o] = "load" /\ failure[o] # None /\ failure[o].why \in InternalErrors =>
    (failure[o].why \in InitErrors <=> failure[o].code = LoadError.InitializeFailed)

LEMMA NextNames ==
  ASSUME TypeOK, \A o \in Ops : IsNamed(o), [Next]_vars, NEW p \in Ops
  PROVE  IsNamed(p)'
<1>1. ASSUME NEW o \in Ops, NEW e \in InternalErrors \cup ModuleErrors,
             NEW code \in Int, Fail(o, e, code),
             Kind[o] = "load" => code = LoadPublicError(e)
      PROVE  IsNamed(p)'
  <2>1. failure' = [failure EXCEPT ![o] = [why |-> e, code |-> code]]
    BY <1>1 DEF Fail
  <2>2. CASE p = o /\ Kind[o] = "load"
    BY <1>1, <2>1, <2>2, OnlyInitErrorsAreNamed DEF IsNamed, TypeOK
  <2>3. CASE p # o \/ Kind[o] # "load"
    BY <2>1, <2>3 DEF IsNamed, TypeOK
  <2> QED BY <2>2, <2>3
<1>2. UNCHANGED failure => IsNamed(p)'
  BY DEF IsNamed
<1>3. ASSUME NEW o \in Ops, NEW e \in ExecutionErrors(o), Reject(o, e)
      PROVE  IsNamed(p)'
  <2>1. e \in DelegateErrors /\ PublicError(o, e) \in Int
    BY PublicErrorIsInt, ExecutionErrorsAreDelegateErrors
  <2>2. Kind[o] = "load" => PublicError(o, e) = LoadPublicError(e)
    BY DEF PublicError
  <2> QED BY <1>1, <1>3, <2>1, <2>2 DEF Reject, DelegateErrors
<1>4. ASSUME NEW t \in Threads, NotifyDelegate(t) PROVE IsNamed(p)'
  <2>1. PICK o \in Ops, e \in InternalErrors :
          o = handler[t].op /\ e = handler[t].error
    BY <1>4 DEF NotifyDelegate, Running, TypeOK, Handling
  <2>2. PublicError(o, e) \in Int
    BY PublicErrorIsInt DEF DelegateErrors
  <2>3. Kind[o] = "load" => PublicError(o, e) = LoadPublicError(e)
    BY DEF PublicError
  <2>4. Fail(o, e, PublicError(o, e))
    BY <1>4, <2>1 DEF NotifyDelegate
  <2> QED BY <1>1, <2>2, <2>3, <2>4
<1>5. ASSUME NEW o \in Ops, NEW r \in LoadFailures, SendAdFailedToLoad(o, r)
      PROVE  IsNamed(p)'
  <2> DEFINE e == InternalError("load", r)
  <2>1. e \in ModuleErrors /\ PublicError(o, e) \in Int
    BY PublicErrorIsInt, ReasonAssumption DEF DelegateErrors, ModuleErrors
  <2>2. Kind[o] = "load" => PublicError(o, e) = LoadPublicError(e)
    BY DEF PublicError
  <2>3. Fail(o, e, PublicError(o, e)) \/ UNCHANGED failure
    BY <1>5 DEF SendAdFailedToLoad, FailIfStored
  <2> QED BY <1>1, <1>2, <2>1, <2>2, <2>3
<1>6. ASSUME NEW o \in Ops, NEW r \in ShowFailures, SendShowFailed(o, r)
      PROVE  IsNamed(p)'
  <2>1. r \in NamedShowErrors
    BY ReasonAssumption
  <2>2. InternalError("show", r) \in ModuleErrors /\ ShowErrorFromName(r) \in Int
    BY <2>1 DEF ModuleErrors, ShowErrorFromName, NamedShowErrors, ShowError
  <2>3. \/ Fail(o, InternalError("show", r), ShowErrorFromName(r))
        \/ UNCHANGED failure
    BY <1>6 DEF SendShowFailed, FailIfStored
  <2> QED BY <1>1, <1>2, <1>6, <2>2, <2>3 DEF SendShowFailed
<1>7. \/ UNCHANGED failure
      \/ \E o \in Ops : \E e \in ExecutionErrors(o) : Reject(o, e)
      \/ \E t \in Threads : NotifyDelegate(t)
      \/ \E o \in Ops : \E r \in LoadFailures : SendAdFailedToLoad(o, r)
      \/ \E o \in Ops : \E r \in ShowFailures : SendShowFailed(o, r)
  <2>1. ASSUME NEW o \in Ops,
               \/ Execute(o) \/ InvokeQueueStep(o) \/ InvokerAnswer(o)
               \/ BufferStep(o) \/ TTLExpires(o) \/ TTLExpiresAgain(o)
        PROVE  UNCHANGED failure
    BY <2>1 DEF Execute, InvokeQueueStep, SubscribeToExpiration, CallInvoker,
                InvokerRefuses, InvokerAnswer, InvokerSucceeds, InvokerFails,
                BufferStep, BufferedIsSent, BufferedIsDropped, TTLExpires, TTLExpiresAgain
  <2>2. ASSUME NEW o \in Ops,
               \/ SendShowComplete(o)
               \/ \E c \in {"started", "clicked", "consent"} : SendShowEvent(o, c)
               \/ SendAdLoaded(o) \/ SendBannerLoaded(o)
               \/ \E c \in {"started", "clicked"} : SendBannerEvent(o, c)
        PROVE  UNCHANGED failure
    BY <2>2 DEF SendShowComplete, SendShowEvent, SendAdLoaded,
                SendBannerLoaded, SendBannerEvent
  <2>3. ASSUME NEW t \in Threads, GetOperation(t) \/ RemoveOperation(t)
        PROVE  UNCHANGED failure
    BY <2>3 DEF GetOperation, RemoveOperation
  <2> QED BY <2>1, <2>2, <2>3
          DEF Next, ApplicationCall, ShowEvent, LoadEvent, HandlerStep, vars
<1> QED BY <1>2, <1>3, <1>4, <1>5, <1>6, <1>7

\* A load that fails because of the initialization says so, on either path.
THEOREM FailedInitializationIsNamed == Spec => []InitFailureIsNamed
<1> DEFINE Inv == TypeOK /\ \A o \in Ops : IsNamed(o)
<1>1. Init => Inv
  BY InitIsTyped DEF Init, IsNamed
<1>2. Inv /\ [Next]_vars => Inv'
  BY NextIsTyped, NextNames
<1>3. Inv => InitFailureIsNamed
  BY DEF IsNamed, InitErrors, InitFailureIsNamed
<1> QED BY <1>1, <1>2, <1>3, PTL DEF Spec
=============================================================================
