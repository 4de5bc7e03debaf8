------------------------- MODULE SdkInitialization -------------------------
(***************************************************************************)
(* What the delegates of UnityServices.initialize hear, in either flow.    *)
(*                                                                         *)
(* legacyStart compares and reads the state step by step, and starts the   *)
(* chain of USRVInitialize; newStart hands the call to SDKInitializerBase, *)
(* whose serial queue saves the completions and starts the task.  Both     *)
(* hold the lock of UnityServices.  The end is announced by a block on the *)
(* main thread, which sets the state and then tells the delegates.         *)
(*                                                                         *)
(* The chain (LegacyInit) and the task are one step here: how they end.    *)
(* The runner of the Swift tasks is not part of the repository: whether it *)
(* passes on a second result is left open, and it is taken to leave the    *)
(* thread on which it was started.                                         *)
(***************************************************************************)
EXTENDS Naturals, FiniteSets, SequencesExt

CONSTANTS
  Calls,  \* the calls of initialize, each with a delegate of its own
  Kinds   \* what the calls may ask for

CallKinds == {"valid", "other", "invalid"}

ASSUME CallsAssumption == IsFiniteSet(Calls)
ASSUME KindsAssumption == Kinds \subseteq [Calls -> CallKinds]

VARIABLES
  flow,       \* legacy or swift
  kind,       \* a game identifier and a test mode, others, or no identifier
  pc,         \* where each call is
  heard,      \* history: what the delegate of each call was told
  delegates,  \* USRVSdkProperties: initializationDelegates
  state,      \* USRVSdkProperties: currentInitializeState
  params,     \* USRVClientProperties: what the SDK was last started with
  main,       \* the announcements posted to the main thread
  telling,    \* the one whose state is set and whose delegates are not told
  work,       \* the chain or the task: idle, running, over
  sdkState,   \* SDKStateStorage: initializeState
  queue,      \* the blocks on the queue of SDKInitializerBase
  saved,      \* its completions
  completed,  \* history: what each completion was called with
  returned,   \* the results whose processing is done, and not the rest
  wait,       \* a wait for the network: none, recovered, fallen through
  ended       \* history: how the work has ended

swiftVars == <<sdkState, queue, saved, completed, returned, wait>>
mainVars == <<main, telling>>
vars == <<flow, kind, pc, heard, delegates, state, params, mainVars, work,
          swiftVars, ended>>

State == {"NOT_INITIALIZED", "INITIALIZING", "INITIALIZED_SUCCESSFULLY",
          "INITIALIZED_FAILED"}
SdkState == {"notInitialized", "inProcess", "failed", "initialized"}
Outcomes == {"complete", "failed"}
Steps == {"idle", "success", "failure", "initializing", "start",
          "initializer", "done"}
Blocks == [do : {"start"}, call : Calls]
            \cup [do : {"process", "notify"}, result : Outcomes]

\* The bound on the announcements: of the work, of a wait that falls
\* through, and one for each completion that is told a failure.
TypeOK ==
  /\ flow \in {"legacy", "swift"} /\ kind \in Kinds
  /\ pc \in [Calls -> Steps]
  /\ heard \in [Calls -> Seq(Outcomes \cup {"invalid"})]
  /\ delegates \subseteq Calls
  /\ state \in State /\ params \in {"none"} \cup CallKinds
  /\ main \in Seq(Outcomes) /\ Len(main) <= 2 + Cardinality(Calls)
  /\ telling \in {"nothing"} \cup Outcomes
  /\ work \in {"idle", "running", "over"}
  /\ sdkState \in SdkState
  /\ queue \in Seq(Blocks)
  /\ saved \in Seq(Calls) /\ IsInjective(saved)
  /\ completed \in [Calls -> Seq(Outcomes)]
  /\ returned \in Seq(Outcomes)
  /\ wait \in {"none", "recovered", "fallen"}
  /\ ended \subseteq Outcomes

Init ==
  /\ flow \in {"legacy", "swift"} /\ kind \in Kinds
  /\ pc = [c \in Calls |-> "idle"]
  /\ heard = [c \in Calls |-> <<>>]
  /\ delegates = {} /\ state = "NOT_INITIALIZED" /\ params = "none"
  /\ main = <<>> /\ telling = "nothing" /\ work = "idle"
  /\ sdkState = "notInitialized" /\ queue = <<>> /\ saved = <<>>
  /\ completed = [c \in Calls |-> <<>>] /\ returned = <<>>
  /\ wait = "none" /\ ended = {}

-----------------------------------------------------------------------------
StateOf(outcome) == IF outcome = "complete" THEN "INITIALIZED_SUCCESSFULLY"
                                            ELSE "INITIALIZED_FAILED"

\* A mutant: the delegates are not reset.
TellAndKeep(what) ==
  /\ heard' = [c \in Calls |-> IF c \in delegates THEN Append(heard[c], what)
                                                  ELSE heard[c]]
  /\ UNCHANGED delegates

\* The delegates are told and reset under one lock.
Tell(what) ==
  /\ heard' = [c \in Calls |-> IF c \in delegates THEN Append(heard[c], what)
                                                  ELSE heard[c]]
  /\ delegates' = {}

\* Within the lock of UnityServices there is one call at a time.
IsFree == \A c \in Calls : pc[c] \in {"idle", "done"}

At(c, step) == flow = "legacy" /\ pc[c] = step
GoTo(c, step) == pc' = [pc EXCEPT ![c] = step]

\* Nothing is compared before the first call, and nothing fits a first call
\* without an identifier.
Differs(c) == state # "NOT_INITIALIZED" /\ params # kind[c]

EnterLegacy(c) ==
  /\ At(c, "idle") /\ IsFree
  /\ IF Differs(c)
       THEN /\ heard' = [heard EXCEPT ![c] = Append(@, "invalid")]
            /\ GoTo(c, "done") /\ UNCHANGED delegates
       ELSE /\ delegates' = delegates \cup {c}
            /\ GoTo(c, "success") /\ UNCHANGED heard
  /\ UNCHANGED <<flow, kind, state, params, mainVars, work, swiftVars, ended>>

\* The state is read three times.  An end that was read is told at once; the
\* state is set to what it is.
ReadSuccess(c) ==
  /\ At(c, "success")
  /\ IF state = "INITIALIZED_SUCCESSFULLY"
       THEN Tell("complete") /\ GoTo(c, "done")
       ELSE GoTo(c, "failure") /\ UNCHANGED <<heard, delegates>>
  /\ UNCHANGED <<flow, kind, state, params, mainVars, work, swiftVars, ended>>

\* A mutant: whatever is not under way has failed.
ReadNoProgress(c) ==
  /\ At(c, "failure")
  /\ IF state \in {"INITIALIZED_FAILED", "INITIALIZED_SUCCESSFULLY"}
       THEN Tell("failed") /\ GoTo(c, "done")
       ELSE GoTo(c, "initializing") /\ UNCHANGED <<heard, delegates>>
  /\ UNCHANGED <<flow, kind, state, params, mainVars, work, swiftVars, ended>>

ReadFailure(c) ==
  /\ At(c, "failure")
  /\ IF state = "INITIALIZED_FAILED"
       THEN Tell("failed") /\ GoTo(c, "done")
       ELSE GoTo(c, "initializing") /\ UNCHANGED <<heard, delegates>>
  /\ UNCHANGED <<flow, kind, state, params, mainVars, work, swiftVars, ended>>

ReadInitializing(c) ==
  /\ At(c, "initializing")
  /\ GoTo(c, IF state = "INITIALIZING" THEN "done" ELSE "start")
  /\ UNCHANGED <<flow, kind, heard, delegates, state, params, mainVars, work,
                 swiftVars, ended>>

\* Without an identifier the delegate is told in the list and directly.
StartWithout(c) ==
  /\ At(c, "start") /\ kind[c] = "invalid"
  /\ state' = "INITIALIZED_FAILED"
  /\ heard' = [d \in Calls |->
                 heard[d] \o (IF d \in delegates THEN <<"invalid">> ELSE <<>>)
                          \o (IF d = c THEN <<"invalid">> ELSE <<>>)]
  /\ delegates' = {}
  /\ GoTo(c, "done")
  /\ UNCHANGED <<flow, kind, params, mainVars, work, swiftVars, ended>>

\* USRVInitialize starts nothing while an operation is still counted.
StartLegacy(c) ==
  /\ At(c, "start") /\ kind[c] # "invalid"
  /\ state' = "INITIALIZING"
  /\ params' = kind[c]
  /\ work' = IF work = "idle" THEN "running" ELSE work
  /\ GoTo(c, "done")
  /\ UNCHANGED <<flow, kind, heard, delegates, mainVars, swiftVars, ended>>

\* The last state of the chain posts the announcement; the operation is
\* counted until it has returned.
ChainEnds ==
  /\ flow = "legacy" /\ work = "running"
  /\ work' = "over"
  /\ \E outcome \in Outcomes :
       main' = Append(main, outcome) /\ ended' = ended \cup {outcome}
  /\ UNCHANGED <<flow, kind, pc, heard, delegates, state, params, telling,
                 swiftVars>>

OperationEnds ==
  /\ flow = "legacy" /\ work = "over" /\ work' = "idle"
  /\ UNCHANGED <<flow, kind, pc, heard, delegates, state, params, mainVars,
                 swiftVars, ended>>

-----------------------------------------------------------------------------
\* notifyInitializationComplete and notifyInitializationFailed: on the main
\* thread.
SetState ==
  /\ main # <<>> /\ telling = "nothing"
  /\ telling' = Head(main) /\ main' = Tail(main)
  /\ state' = StateOf(Head(main))
  /\ UNCHANGED <<flow, kind, pc, heard, delegates, params, work, swiftVars,
                 ended>>

TellDelegates ==
  /\ telling # "nothing"
  /\ Tell(telling)
  /\ telling' = "nothing"
  /\ UNCHANGED <<flow, kind, pc, state, params, main, work, swiftVars, ended>>

-----------------------------------------------------------------------------
\* newStart: the delegate is added, then the initializer's queue is waited
\* for.
EnterSwift(c) ==
  /\ flow = "swift" /\ pc[c] = "idle" /\ IsFree
  /\ delegates' = delegates \cup {c}
  /\ params' = kind[c]
  /\ queue' = Append(queue, [do |-> "start", call |-> c])
  /\ GoTo(c, "initializer")
  /\ UNCHANGED <<flow, kind, heard, state, mainVars, work, sdkState, saved,
                 completed, returned, wait, ended>>

Running(do) == queue # <<>> /\ Head(queue).do = do
Notify(result) == queue' = Append(Tail(queue), [do |-> "notify",
                                                result |-> result])

\* A mutant: a call after a failure is left to wait.
StartUnlessFailed ==
  /\ Running("start")
  /\ LET c == Head(queue).call IN
     /\ saved' = Append(saved, c)
     /\ GoTo(c, "done")
     /\ IF kind[c] = "invalid" THEN Notify("failed")
        ELSE IF sdkState = "initialized" THEN Notify("complete")
        ELSE queue' = Tail(queue)
     /\ IF kind[c] # "invalid" /\ sdkState = "notInitialized"
          THEN sdkState' = "inProcess" /\ work' = "running"
          ELSE UNCHANGED <<sdkState, work>>
  /\ UNCHANGED <<flow, kind, heard, delegates, state, params, mainVars,
                 completed, returned, wait, ended>>

\* startInitialization: an identifier that is no number fails the saved
\* completions, whatever the state, also those of an initialization that is
\* under way.
StartInitialization ==
  /\ Running("start")
  /\ LET c == Head(queue).call IN
     /\ saved' = Append(saved, c)
     /\ GoTo(c, "done")
     /\ IF kind[c] = "invalid" \/ sdkState = "failed" THEN Notify("failed")
        ELSE IF sdkState = "initialized" THEN Notify("complete")
        ELSE queue' = Tail(queue)
     /\ IF kind[c] # "invalid" /\ sdkState = "notInitialized"
          THEN sdkState' = "inProcess" /\ work' = "running"
          ELSE UNCHANGED <<sdkState, work>>
  /\ UNCHANGED <<flow, kind, heard, delegates, state, params, mainVars,
                 completed, returned, wait, ended>>

\* A mutant: only a success is a result.
ProcessSuccess ==
  /\ Running("process")
  /\ sdkState' = IF Head(queue).result = "complete" THEN "initialized"
                                                    ELSE sdkState
  /\ returned' = Append(returned, Head(queue).result)
  /\ queue' = Tail(queue)
  /\ UNCHANGED <<flow, kind, pc, heard, delegates, state, params, mainVars,
                 work, saved, completed, wait, ended>>

ProcessResult ==
  /\ Running("process")
  /\ sdkState' = IF Head(queue).result = "complete" THEN "initialized"
                                                    ELSE "failed"
  /\ returned' = Append(returned, Head(queue).result)
  /\ queue' = Tail(queue)
  /\ UNCHANGED <<flow, kind, pc, heard, delegates, state, params, mainVars,
                 work, saved, completed, wait, ended>>

\* The thread of the task goes on to notify.
NotifySaved ==
  /\ returned # <<>>
  /\ returned' = Tail(returned)
  /\ queue' = Append(queue, [do |-> "notify", result |-> Head(returned)])
  /\ UNCHANGED <<flow, kind, pc, heard, delegates, state, params, mainVars,
                 work, sdkState, saved, completed, wait, ended>>

\* A mutant: onInitError does not tell the delegates.
CompleteQuietly ==
  /\ Running("notify")
  /\ LET result == Head(queue).result IN
     /\ completed' = [c \in Calls |-> IF Contains(saved, c)
                                      THEN Append(completed[c], result)
                                      ELSE completed[c]]
     /\ state' = IF saved = <<>> THEN state ELSE StateOf(result)
  /\ saved' = <<>> /\ queue' = Tail(queue)
  /\ UNCHANGED <<flow, kind, pc, heard, delegates, params, mainVars, work,
                 sdkState, returned, wait, ended>>

\* A mutant: the completions stay saved.
CompleteAndKeep ==
  /\ Running("notify")
  /\ LET result == Head(queue).result IN
     /\ completed' = [c \in Calls |-> IF Contains(saved, c)
                                      THEN Append(completed[c], result)
                                      ELSE completed[c]]
     /\ state' = IF saved = <<>> THEN state ELSE StateOf(result)
     /\ main' = main \o [i \in 1..(IF result = "failed" THEN Len(saved)
                                                        ELSE 0) |-> "failed"]
  /\ queue' = Tail(queue)
  /\ UNCHANGED <<flow, kind, pc, heard, delegates, params, telling, work,
                 sdkState, saved, returned, wait, ended>>

\* The completions of newStart: a success sets the state; each failure sets
\* it and posts an announcement of its own (onInitError:).
Complete ==
  /\ Running("notify")
  /\ LET result == Head(queue).result IN
     /\ completed' = [c \in Calls |-> IF Contains(saved, c)
                                      THEN Append(completed[c], result)
                                      ELSE completed[c]]
     /\ state' = IF saved = <<>> THEN state ELSE StateOf(result)
     /\ main' = main \o [i \in 1..(IF result = "failed" THEN Len(saved)
                                                        ELSE 0) |-> "failed"]
  /\ saved' = <<>> /\ queue' = Tail(queue)
  /\ UNCHANGED <<flow, kind, pc, heard, delegates, params, telling, work,
                 sdkState, returned, wait, ended>>

Result(result) == queue' = Append(queue, [do |-> "process",
                                          result |-> result])

\* A mutant: the task calls its completion more than once.
TaskReports ==
  /\ flow = "swift" /\ work = "running"
  /\ \E outcome \in Outcomes :
       /\ ended' = ended \cup {outcome}
       /\ Result(outcome)
       /\ main' = Append(main, outcome)
  /\ UNCHANGED <<flow, kind, pc, heard, delegates, state, params, telling,
                 work, sdkState, saved, completed, returned, wait>>

\* The modules announce the end in the last state; tasks that are not states
\* of the chain fail without.
TaskEnds ==
  /\ flow = "swift" /\ work = "running"
  /\ \E outcome \in Outcomes :
       /\ ended' = ended \cup {outcome}
       /\ Result(outcome)
       /\ \/ main' = Append(main, outcome)
          \/ outcome = "failed" /\ UNCHANGED main
  /\ work' = "over"
  /\ UNCHANGED <<flow, kind, pc, heard, delegates, state, params, telling,
                 sdkState, saved, completed, returned, wait>>

\* A connection ends the wait of USRVInitializeStateNetworkError, which
\* starts the state that failed again.
Recover ==
  /\ flow = "swift" /\ work = "running" /\ wait = "none"
  /\ wait' = "recovered"
  /\ UNCHANGED <<flow, kind, pc, heard, delegates, state, params, mainVars,
                 work, sdkState, queue, saved, completed, returned, ended>>

\* startWithCompletion: goes on behind it, and fails with the modules.
FallThrough ==
  /\ wait = "recovered" /\ wait' = "fallen"
  /\ main' = Append(main, "failed")
  /\ Result("failed") \/ UNCHANGED queue
  /\ UNCHANGED <<flow, kind, pc, heard, delegates, state, params, telling,
                 work, sdkState, saved, completed, returned, ended>>

-----------------------------------------------------------------------------
Caller(c) ==
  \/ ReadSuccess(c) \/ ReadFailure(c) \/ ReadInitializing(c)
  \/ StartWithout(c) \/ StartLegacy(c)

MainStep == SetState \/ TellDelegates
QueueStep == StartInitialization \/ ProcessResult \/ Complete
WorkStep == ChainEnds \/ OperationEnds \/ TaskEnds \/ NotifySaved

Next ==
  \/ \E c \in Calls : EnterLegacy(c) \/ EnterSwift(c) \/ Caller(c)
  \/ MainStep \/ QueueStep \/ WorkStep \/ Recover \/ FallThrough

\* Threads that have work go on, and the chain ends (LegacyInit); nobody has
\* to call.
Fairness ==
  /\ \A c \in Calls : WF_vars(Caller(c))
  /\ WF_vars(MainStep) /\ WF_vars(QueueStep)
  /\ WF_vars(ChainEnds \/ TaskEnds) /\ WF_vars(OperationEnds)
  /\ WF_vars(NotifySaved) /\ WF_vars(FallThrough)

Spec == Init /\ [][Next]_vars /\ Fairness

-----------------------------------------------------------------------------
\* A delegate hears one thing, although the caller, the main thread and the
\* completions of others may each tell it.  Without an identifier the legacy
\* flow says it twice, through the list and directly.
HeardOnce ==
  \A c \in Calls :
    Len(heard[c]) <= IF flow = "legacy" /\ kind[c] = "invalid" THEN 2 ELSE 1

\* A completion is called once, whatever calls and results come in between
\* the block that is to call it and its run.
CompletedOnce == \A c \in Calls : Len(completed[c]) <= 1

InvalidCalled == \E c \in Calls : kind[c] = "invalid" /\ pc[c] # "idle"

\* No delegate hears of a success that was not, or of a failure that was
\* not, unless an invalid call fails those of an initialization under way,
\* or a wait for the network has fallen through, in the Swift flow.
HeardWhatHappened ==
  \A c \in Calls : \A i \in DOMAIN heard[c] :
    \/ heard[c][i] = "invalid"
    \/ heard[c][i] \in ended
    \/ heard[c][i] = "failed" /\ flow = "swift"
       /\ (InvalidCalled \/ wait = "fallen")

AtRest ==
  /\ main = <<>> /\ telling = "nothing" /\ queue = <<>> /\ returned = <<>>
  /\ work # "running" /\ IsFree

\* currentInitializeState and the state of the initializer are set by
\* different threads, in either order; when all is done they agree, but for
\* invalid calls and a fallen wait.
StatesAgree ==
  flow = "swift" /\ AtRest /\ work = "over" /\ ~ InvalidCalled
    /\ wait # "fallen" =>
      \E outcome \in ended :
        /\ state = StateOf(outcome)
        /\ sdkState = IF outcome = "complete" THEN "initialized" ELSE "failed"

\* Two ways to wait for ever: for the announcement of a success that has
\* been made already, in the Swift flow, and for a chain that was not
\* started since the one before was still counted, in the legacy flow.
IsStranded(c) ==
  /\ AtRest /\ c \in delegates
  /\ IF flow = "swift" THEN "complete" \in ended
                       ELSE state = "INITIALIZING" /\ ended # {}

\* Each delegate is told in the end, but for those two.
EveryCallIsTold ==
  \A c \in Calls : pc[c] = "done" ~> heard[c] # <<>> \/ IsStranded(c)

\* Each completion is called in the end.
EveryCompletionIsCalled ==
  \A c \in Calls : Contains(saved, c) ~> completed[c] # <<>>
=============================================================================
