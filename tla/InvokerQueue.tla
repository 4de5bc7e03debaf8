---------------------------- MODULE InvokerQueue ----------------------------
(***************************************************************************)
(* WebViewInvokerQueueDecorator: the invoker of the load and banner        *)
(* modules, which keeps the operations in a buffer while the SDK is not    *)
(* initialized, and the steps of the initialization that it depends on.    *)
(*                                                                         *)
(* The module's serial queue invokes one operation at a time: it reads the *)
(* state of the SDK, then sends, buffers or refuses the operation; the     *)
(* state may change in between.  The buffer is emptied on the main thread, *)
(* by a block that the USRVInitializationNotificationCenter posts for the  *)
(* delegates it has at that moment.                                        *)
(*                                                                         *)
(* In the legacy flow the end of an initialization posts that block, then  *)
(* another one that sets the state.  In the Swift flow the state is that   *)
(* of SDKInitializerBase: after a success it is set once the block is      *)
(* posted, after a failure it is set first, and the block is posted by     *)
(* each saved completion.  The web view may ask for a reinitialization; it *)
(* always takes the legacy states.                                         *)
(***************************************************************************)
EXTENDS Naturals, Sequences, SequencesExt

CONSTANTS
  Count,       \* number of operations; i is the i-th that is invoked
  MaxStarts,   \* bound on the calls of UnityServices.initialize
  MaxReinits   \* bound on the reinitializations

ASSUME CountAssumption == Count \in Nat \ {0}
ASSUME BoundAssumption == MaxStarts \in Nat /\ MaxReinits \in Nat

Ops  == 1..Count
Ends == {"succeeded", "failed"}

VARIABLES
  flow,        \* the initialization flow, fixed
  state,       \* the state of the SDK, as the decorator reads it
  boot,        \* the initialization: its chain and its step
  waiters,     \* Swift flow: completions that SDKInitializerBase has saved
  telling,     \* Swift flow: completions being told of a failure
  starts,      \* calls of initialize, for the bound
  reinits,     \* reinitializations, for the bound
  mainQ,       \* blocks posted to the main queue
  created,     \* whether the module, and so its decorator, is created
  next,        \* the next operation to invoke
  pc,          \* where the module's queue is
  buffer,      \* the buffer, guarded by serialQueue
  draining,    \* the next index that the drain visits; 0 if none runs
  ended,       \* how the initializations that are over have ended
  fate         \* what has become of each operation, in order

bootVars   == <<boot, waiters, telling, starts, reinits, ended>>
moduleVars == <<created, next, pc>>
drainVars  == <<buffer, draining, fate>>
vars == <<flow, state, bootVars, mainQ, moduleVars, drainVars>>

Block == [do : {"send", "fail"}, listed : BOOLEAN]
           \cup [do : {"succeed", "giveUp"}]

TypeOK ==
  /\ flow \in {"legacy", "swift"}
  /\ state \in {"not", "initializing", "succeeded", "failed"}
  /\ boot \in [chain : {"legacy", "swift"},
               step : {"idle", "running"} \cup Ends]
  /\ waiters \in 0..MaxStarts /\ telling \in 0..MaxStarts
  /\ starts \in 0..MaxStarts /\ reinits \in 0..MaxReinits
  /\ mainQ \in Seq(Block)
  /\ created \in BOOLEAN
  /\ next \in 1..Count + 1
  /\ pc \in {"idle", "send", "put", "refuse"}
  /\ buffer \in Seq(Ops)
  /\ draining \in 0..Count + 1
  /\ ended \subseteq Ends
  /\ fate \in [Ops -> Seq({"sent", "failed"})]

Init ==
  /\ flow \in {"legacy", "swift"}
  /\ state = "not"
  /\ boot = [chain |-> flow, step |-> "idle"]
  /\ waiters = 0 /\ telling = 0 /\ starts = 0 /\ reinits = 0
  /\ mainQ = <<>>
  /\ created = FALSE /\ next = 1 /\ pc = "idle"
  /\ buffer = <<>> /\ draining = 0
  /\ ended = {}
  /\ fate = [o \in Ops |-> <<>>]

-----------------------------------------------------------------------------
(***************************************************************************)
(* The initialization.                                                     *)
(***************************************************************************)
\* A block for the delegates that the center has now.
Trigger(do) == mainQ' = Append(mainQ, [do |-> do, listed |-> created])

\* UnityServices.initialize; what a repeated call does that tells no delegate
\* of the center and changes no state is left out.
Start ==
  /\ starts < MaxStarts /\ starts' = starts + 1
  /\ \/ /\ state = "not" /\ boot.step = "idle"
        /\ state' = "initializing"
        /\ boot' = [chain |-> flow, step |-> "running"]
        /\ waiters' = IF flow = "swift" THEN waiters + 1 ELSE 0
        /\ UNCHANGED telling
     \/ /\ flow = "swift" /\ state = "initializing"
        /\ waiters' = waiters + 1
        /\ UNCHANGED <<state, boot, telling>>
     \/ /\ flow = "swift" /\ state = "failed"
        /\ telling' = telling + 1
        /\ UNCHANGED <<state, boot, waiters>>
  /\ UNCHANGED <<flow, reinits, ended, mainQ, moduleVars, drainVars>>

\* A mutant: the saved completions are told and kept.
StartInvalidAndKeep ==
  /\ starts < MaxStarts /\ starts' = starts + 1
  /\ ended' = ended \cup {"failed"}
  /\ \/ /\ flow = "legacy" /\ state = "not"
        /\ state' = "failed"
        /\ UNCHANGED telling
     \/ /\ flow = "swift"
        /\ telling' = telling + waiters + 1
        /\ UNCHANGED state
  /\ UNCHANGED <<flow, boot, waiters, reinits, mainQ, moduleVars, drainVars>>

\* initialize with an invalid game identifier.  The legacy flow sets the
\* state; the Swift flow fails this and all saved completions.
StartInvalid ==
  /\ starts < MaxStarts /\ starts' = starts + 1
  /\ ended' = ended \cup {"failed"}
  /\ \/ /\ flow = "legacy" /\ state = "not"
        /\ state' = "failed"
        /\ UNCHANGED <<waiters, telling>>
     \/ /\ flow = "swift"
        /\ telling' = telling + waiters + 1
        /\ waiters' = 0
        /\ UNCHANGED state
  /\ UNCHANGED <<flow, boot, reinits, mainQ, moduleVars, drainVars>>

\* A saved completion: onInitError.
Tell ==
  /\ telling > 0 /\ telling' = telling - 1
  /\ Trigger("fail")
  /\ UNCHANGED <<flow, state, boot, waiters, starts, reinits, ended,
                 moduleVars, drainVars>>

\* The web view asks for it; there is one once an initialization has run.
Reinitialize ==
  /\ reinits < MaxReinits /\ reinits' = reinits + 1
  /\ ended # {} /\ boot.step = "idle"
  /\ boot' = [chain |-> "legacy", step |-> "running"]
  /\ UNCHANGED <<flow, state, waiters, telling, starts, ended, mainQ,
                 moduleVars, drainVars>>

\* initCompleteState or initErrorState: the center is triggered.  (In the
\* Swift flow the block that sets the legacy state is without effect.)
TriggerEnd(e) ==
  /\ boot.step = "running"
  /\ boot.chain = "legacy" \/ e = "succeeded"
  /\ boot' = [boot EXCEPT !.step = e]
  /\ ended' = ended \cup {e}
  /\ Trigger(IF e = "succeeded" THEN "send" ELSE "fail")
  /\ UNCHANGED <<flow, state, waiters, telling, starts, reinits, moduleVars,
                 drainVars>>

\* The rest of it: the block that sets the legacy state is posted.
PostState ==
  /\ boot.step \in Ends /\ boot.chain = "legacy"
  /\ mainQ' = Append(mainQ, [do |-> IF boot.step = "succeeded" THEN "succeed"
                                    ELSE "giveUp"])
  /\ boot' = [boot EXCEPT !.step = "idle"]
  /\ UNCHANGED <<flow, state, waiters, telling, starts, reinits, ended,
                 moduleVars, drainVars>>

\* SDKInitializerBase.processResult, then the saved completions are told.
ProcessResult ==
  /\ boot.chain = "swift"
  /\ \/ /\ boot.step = "succeeded"
        /\ state' = "succeeded"
        /\ UNCHANGED <<telling, ended>>
     \/ /\ boot.step = "running"
        /\ state' = "failed"
        /\ telling' = telling + waiters
        /\ ended' = ended \cup {"failed"}
  /\ waiters' = 0
  /\ boot' = [boot EXCEPT !.step = "idle"]
  /\ UNCHANGED <<flow, starts, reinits, mainQ, moduleVars, drainVars>>

Boot ==
  \/ Start \/ StartInvalid \/ Tell \/ Reinitialize
  \/ \E e \in Ends : TriggerEnd(e)
  \/ PostState \/ ProcessResult

-----------------------------------------------------------------------------
(***************************************************************************)
(* The module's queue: invokeOperation, the decision and what it leads to. *)
(***************************************************************************)
\* createDefaultModule: the decorator joins the delegates of the center.
Create ==
  /\ ~created /\ created' = TRUE
  /\ UNCHANGED <<flow, state, bootVars, mainQ, next, pc, drainVars>>

ReadState ==
  /\ created /\ pc = "idle" /\ next <= Count
  /\ pc' = CASE state = "succeeded" -> "send"
             [] state = "failed"    -> "refuse"
             [] OTHER               -> "put"
  /\ UNCHANGED <<flow, state, bootVars, mainQ, created, next, drainVars>>

Done == pc' = "idle" /\ next' = next + 1 /\ UNCHANGED created

Meets(o, f) == fate' = [fate EXCEPT ![o] = Append(@, f)]

Send ==
  /\ pc = "send" /\ Meets(next, "sent") /\ Done
  /\ UNCHANGED <<flow, state, bootVars, mainQ, buffer, draining>>

Refuse ==
  /\ pc = "refuse" /\ Meets(next, "failed") /\ Done
  /\ UNCHANGED <<flow, state, bootVars, mainQ, buffer, draining>>

\* A mutant: the operation is also sent at once.
PutAndSend ==
  /\ pc = "put" /\ draining = 0
  /\ buffer' = Append(buffer, next) /\ Meets(next, "sent") /\ Done
  /\ UNCHANGED <<flow, state, bootVars, mainQ, draining>>

\* A drain holds serialQueue until it is over.
Put ==
  /\ pc = "put" /\ draining = 0
  /\ buffer' = Append(buffer, next) /\ Done
  /\ UNCHANGED <<flow, state, bootVars, mainQ, draining, fate>>

-----------------------------------------------------------------------------
(***************************************************************************)
(* The main thread: it runs one block after the other.                     *)
(***************************************************************************)
Current == Head(mainQ)

\* A mutant: the drain starts with the second object.
BeginDrainLate ==
  /\ mainQ # <<>> /\ Current.do \in {"send", "fail"}
  /\ draining = 0
  /\ IF Current.listed THEN draining' = 2 /\ UNCHANGED mainQ
                       ELSE mainQ' = Tail(mainQ) /\ UNCHANGED draining
  /\ UNCHANGED <<flow, state, bootVars, moduleVars, buffer, fate>>

BeginDrain ==
  /\ mainQ # <<>> /\ Current.do \in {"send", "fail"}
  /\ draining = 0
  /\ IF Current.listed THEN draining' = 1 /\ UNCHANGED mainQ
                       ELSE mainQ' = Tail(mainQ) /\ UNCHANGED draining
  /\ UNCHANGED <<flow, state, bootVars, moduleVars, buffer, fate>>

\* invokeBufferedObjects or failBufferedObjectsWithError, one object.
Visit ==
  /\ draining \in 1..Len(buffer)
  /\ Meets(buffer[draining], IF Current.do = "send" THEN "sent" ELSE "failed")
  /\ draining' = draining + 1
  /\ UNCHANGED <<flow, state, bootVars, mainQ, moduleVars, buffer>>

\* A mutant: the buffer is not cleared.
EndDrainOnly ==
  /\ draining > Len(buffer)
  /\ draining' = 0 /\ mainQ' = Tail(mainQ)
  /\ UNCHANGED <<flow, state, bootVars, moduleVars, buffer, fate>>

EndDrain ==
  /\ draining > Len(buffer)
  /\ buffer' = <<>> /\ draining' = 0 /\ mainQ' = Tail(mainQ)
  /\ UNCHANGED <<flow, state, bootVars, moduleVars, fate>>

\* notifyInitializationComplete or notifyInitializationFailed.
SetState ==
  /\ mainQ # <<>> /\ Current.do \in {"succeed", "giveUp"}
  /\ state' = IF flow = "swift" THEN state
              ELSE IF Current.do = "succeed" THEN "succeeded" ELSE "failed"
  /\ mainQ' = Tail(mainQ)
  /\ UNCHANGED <<flow, bootVars, moduleVars, drainVars>>

Main == BeginDrain \/ Visit \/ EndDrain \/ SetState

Invoke == ReadState \/ Send \/ Refuse \/ Put

Next == Boot \/ Create \/ Invoke \/ Main

\* The main thread and the module's queue run what they are given.
Spec == Init /\ [][Next]_vars /\ WF_vars(Main) /\ WF_vars(Invoke)

-----------------------------------------------------------------------------
(***************************************************************************)
(* Properties.                                                             *)
(***************************************************************************)
Abstract == INSTANCE OnceInvoker WITH
              Ops <- Ops, ended <- ended, fate <- fate

(***************************************************************************)
(* The decorator keeps the promise of OnceInvoker, whatever the order of   *)
(* initializations, reinitializations and calls: no operation is sent or   *)
(* refused twice or both, though several drains may find it.               *)
(***************************************************************************)
IsOnceInvoker == Abstract!Spec

(***************************************************************************)
(* An operation that is in the buffer when a drain of this decorator is    *)
(* due is settled, however late that drain runs.                           *)
(***************************************************************************)
DrainIsDue ==
  \E i \in DOMAIN mainQ : mainQ[i].do \in {"send", "fail"} /\ mainQ[i].listed

BufferedIsSettled ==
  \A o \in Ops :
    (Contains(buffer, o) /\ DrainIsDue) ~> (fate[o] # <<>>)

(***************************************************************************)
(* The buffer holds the operations in the order of their calls, and what a *)
(* drain has visited of it is exactly what is settled of it: a drain that  *)
(* finds an operation is the only one that does.                           *)
(***************************************************************************)
DrainSettlesInOrder ==
  \A i, j \in DOMAIN buffer :
    /\ i < j => buffer[i] < buffer[j]
    /\ fate[buffer[i]] # <<>> <=> i < draining

(***************************************************************************)
(* The notification that the SDK is initialized sends what was buffered    *)
(* (the tests of WebViewInvokerQueueDecorator): once it is initialized and *)
(* nothing is left to run, the buffer is empty.  It is not so: the state   *)
(* may be read before, and the operation buffered after, the last drain.   *)
(***************************************************************************)
NothingIsStranded ==
  state = "succeeded" /\ mainQ = <<>> /\ boot.step = "idle" /\ telling = 0
    => buffer = <<>>
=============================================================================
