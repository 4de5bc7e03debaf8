---------------------- MODULE SdkInitializationProofs ----------------------
(***************************************************************************)
(* Proofs about SdkInitialization, for any finite set of calls of any      *)
(* kinds: type correctness, what the delegates and the completions hear,   *)
(* and that the two states agree in the end.                               *)
(***************************************************************************)
EXTENDS SdkInitialization, SequenceFacts, FiniteSetTheorems, TLAPS

(***************************************************************************)
(* The inductive invariant.                                                *)
(***************************************************************************)
\* The steps at which a call does not hold the lock of UnityServices.
FreeSteps == {"idle", "done"}

\* The lock lets one call in at a time.
OneCaller ==
  \A c, d \in Calls : pc[c] \notin FreeSteps /\ pc[d] \notin FreeSteps => c = d

\* A flow leaves alone what belongs to the other one.
FlowsAreApart ==
  /\ flow = "swift" => \A c \in Calls : pc[c] \in FreeSteps \cup {"initializer"}
  /\ flow = "legacy" =>
       /\ queue = <<>> /\ saved = <<>> /\ returned = <<>>
       /\ sdkState = "notInitialized" /\ wait = "none"
       /\ \A c \in Calls : pc[c] # "initializer"

\* A block that starts an initialization is the only one, for the call that
\* waits for it.
StartIsAwaited ==
  /\ \A i \in DOMAIN queue :
       queue[i].do = "start" => pc[queue[i].call] = "initializer"
  /\ \A i, j \in DOMAIN queue :
       queue[i].do = "start" /\ queue[j].do = "start" => i = j

\* A delegate that is in the list, or yet to be added, has heard nothing.
DelegatesWait ==
  \A c \in Calls :
    /\ c \in delegates \/ pc[c] = "idle" => heard[c] = <<>>
    /\ pc[c] = "idle" => c \notin delegates

\* What was said twice was said to a call that is over.
HeardByStep ==
  \A c \in Calls :
    Len(heard[c]) <= IF flow = "legacy" /\ kind[c] = "invalid" /\ pc[c] = "done"
                     THEN 2 ELSE 1

\* A completion that is saved, or yet to be saved, has not been called.
CompletionsWait ==
  /\ \A i \in DOMAIN saved : pc[saved[i]] = "done"
  /\ \A i \in DOMAIN saved : completed[saved[i]] = <<>>
  /\ \A c \in Calls : pc[c] # "done" => completed[c] = <<>>

\* The work of the Swift flow is started once.
WorkIsStartedOnce ==
  flow = "swift" =>
    /\ work = "idle" <=> sdkState = "notInitialized"
    /\ work = "idle" => wait = "none"
    /\ work = "idle" => \A i \in DOMAIN queue : queue[i].do # "process"

\* What is left that may post an announcement.
Left(condition) == IF condition THEN 1 ELSE 0

Pending == {c \in Calls : pc[c] # "done"}

AnnouncementsAreBounded ==
  IF flow = "legacy"
  THEN Len(main) + Left(work = "running") + Cardinality(Pending)
         <= Cardinality(Calls)
  ELSE Len(main) + Len(saved) + Cardinality(Pending)
         + Left(work # "over") + Left(wait # "fallen")
         <= 2 + Cardinality(Calls)

\* The outcomes that may be announced.
Causes ==
  ended \cup (IF flow = "swift" /\ (InvalidCalled \/ wait = "fallen")
              THEN {"failed"} ELSE {})

\* Whatever an announcement is made from has its cause.
AnnouncementsHaveCauses ==
  /\ \A i \in DOMAIN main : main[i] \in Causes
  /\ telling # "nothing" => telling \in Causes
  /\ \A i \in DOMAIN queue : queue[i].do # "start" => queue[i].result \in Causes
  /\ \A i \in DOMAIN returned : returned[i] \in Causes
  /\ sdkState = "failed" => "failed" \in Causes
  /\ sdkState = "initialized" => "complete" \in Causes

\* What the legacy flow compares: before the SDK was started, a call without
\* an identifier may have set the state, and no other is on its way; after
\* it, the calls on their way ask for the same, and a state that is an end
\* has been reached.
ParametersFit ==
  flow = "legacy" =>
    /\ params = "none" =>
         /\ work = "idle" /\ main = <<>> /\ telling = "nothing" /\ ended = {}
         /\ \/ state = "NOT_INITIALIZED"
            \/ state = "INITIALIZED_FAILED" /\ IsFree
    /\ params # "none" =>
         /\ state # "NOT_INITIALIZED" /\ params # "invalid"
         /\ \A c \in Calls : pc[c] \notin FreeSteps => kind[c] = params
         /\ state = "INITIALIZED_SUCCESSFULLY" => "complete" \in ended
         /\ state = "INITIALIZED_FAILED" => "failed" \in ended

\* An initialization that no invalid call and no fallen wait disturbs.
Undisturbed == flow = "swift" /\ ~InvalidCalled /\ wait # "fallen"

SdkStateOf(outcome) == IF outcome = "complete" THEN "initialized" ELSE "failed"

\* The blocks that say nothing of an end, and those that may say this one.
Starts == {b \in Blocks : b.do = "start"}
Saying(outcome) == {b \in Blocks : b.do = "start" \/ b.result = outcome}

\* Until the task has ended, nothing is said of its end.
NothingIsSaid ==
  /\ ended = {} /\ main = <<>> /\ telling = "nothing" /\ returned = <<>>
  /\ state = "NOT_INITIALIZED"
  /\ queue \in Seq(Starts)
  /\ IF work = "idle" THEN sdkState = "notInitialized"
                      ELSE sdkState = "inProcess" /\ saved # <<>>

\* A block of the queue is about to set the state of the initializer.
WillProcess == \E i \in DOMAIN queue : queue[i].do = "process"

\* A block of the queue says how it has ended, or is about to be posted.
WillNotify ==
  returned # <<>> \/ \E i \in DOMAIN queue : queue[i].do # "start"

\* Then all that is said is that it has ended so, and as long as a state is
\* not set, what will set it is on its way.
AllSay(outcome) ==
  /\ ended = {outcome}
  /\ main \in Seq({outcome}) /\ returned \in Seq({outcome})
  /\ telling \in {"nothing", outcome}
  /\ queue \in Seq(Saying(outcome))
  /\ state \in {"NOT_INITIALIZED", StateOf(outcome)}
  /\ sdkState \in {"inProcess", SdkStateOf(outcome)}
  /\ sdkState = "inProcess" => WillProcess
  /\ state = "NOT_INITIALIZED" => saved # <<>> /\ WillNotify

OneOutcome ==
  Undisturbed =>
    IF work = "over" THEN \E outcome \in Outcomes : AllSay(outcome)
                     ELSE NothingIsSaid

IInv ==
  /\ TypeOK /\ OneCaller /\ FlowsAreApart /\ StartIsAwaited
  /\ DelegatesWait /\ HeardByStep /\ CompletionsWait /\ CompletedOnce
  /\ WorkIsStartedOnce /\ AnnouncementsAreBounded /\ AnnouncementsHaveCauses
  /\ HeardWhatHappened /\ ParametersFit /\ OneOutcome

-----------------------------------------------------------------------------
LEMMA InitIsInvariant == Init => IInv
<1> SUFFICES ASSUME Init PROVE IInv
  OBVIOUS
<1> USE DEF Init
<1>1. Cardinality(Calls) \in Nat
  BY CallsAssumption, FS_CardinalityType
<1>2. TypeOK
  <2>1. main \in Seq(Outcomes) /\ Len(main) <= 2 + Cardinality(Calls)
    BY <1>1
  <2>2. queue \in Seq(Blocks) /\ saved \in Seq(Calls)
    OBVIOUS
  <2>3. IsInjective(saved)
    BY DEF IsInjective
  <2>4. returned \in Seq(Outcomes)
    OBVIOUS
  <2>5. heard \in [Calls -> Seq(Outcomes \cup {"invalid"})]
    OBVIOUS
  <2>6. completed \in [Calls -> Seq(Outcomes)]
    OBVIOUS
  <2>7. pc \in [Calls -> Steps]
    BY DEF Steps
  <2> QED BY <2>1, <2>2, <2>3, <2>4, <2>5, <2>6, <2>7
          DEF TypeOK, State, SdkState
<1>3. AnnouncementsAreBounded
  <2>1. Pending = Calls
    BY DEF Pending
  <2> QED BY <1>1, <2>1 DEF AnnouncementsAreBounded, Left
<1>4. OneCaller /\ FlowsAreApart /\ StartIsAwaited /\ WorkIsStartedOnce
  BY DEF OneCaller, FlowsAreApart, StartIsAwaited, WorkIsStartedOnce,
         FreeSteps
<1>5. DelegatesWait /\ HeardByStep /\ CompletionsWait /\ CompletedOnce
  BY DEF DelegatesWait, HeardByStep, CompletionsWait, CompletedOnce
<1>6. AnnouncementsHaveCauses /\ HeardWhatHappened /\ ParametersFit
  BY DEF AnnouncementsHaveCauses, HeardWhatHappened, ParametersFit
<1>7. OneOutcome
  <2>1. queue \in Seq(Starts)
    OBVIOUS
  <2> QED BY <2>1 DEF OneOutcome, NothingIsSaid
<1> QED BY <1>2, <1>3, <1>4, <1>5, <1>6, <1>7 DEF IInv

-----------------------------------------------------------------------------
(***************************************************************************)
(* What a step does to the sequences and to what was heard.                *)
(***************************************************************************)
\* The head of a queue that is running a block.
LEMMA RunningHead ==
  ASSUME TypeOK, NEW do, Running(do)
  PROVE  /\ queue # <<>> /\ Head(queue) \in Blocks /\ Head(queue).do = do
         /\ 1 \in DOMAIN queue /\ Head(queue) = queue[1]
         /\ Tail(queue) \in Seq(Blocks)
         /\ do = "start" => Head(queue).call \in Calls
         /\ do # "start" => Head(queue).result \in Outcomes
<1>1. queue \in Seq(Blocks) /\ queue # <<>> /\ Head(queue).do = do
  BY DEF TypeOK, Running
<1>2. Head(queue) \in Blocks /\ Head(queue) = queue[1] /\ 1 \in DOMAIN queue
  BY <1>1, TailElements
<1> QED BY <1>1, <1>2, TailElements DEF Blocks

\* The queue of the initializer takes a block, runs its first, or both.
LEMMA QueueSteps ==
  ASSUME TypeOK, [Next]_vars
  PROVE  \/ UNCHANGED queue
         \/ \E b \in Blocks : queue' = Append(queue, b)
         \/ queue # <<>> /\ queue' = Tail(queue)
         \/ queue # <<>> /\ \E b \in Blocks : queue' = Append(Tail(queue), b)
<1>1. ASSUME NEW c \in Calls, EnterSwift(c)
      PROVE  \E b \in Blocks : queue' = Append(queue, b)
  BY <1>1 DEF EnterSwift, Blocks
<1>2. CASE StartInitialization
  BY <1>2 DEF StartInitialization, Running, Notify, Blocks, Outcomes
<1>3. CASE ProcessResult \/ Complete
  BY <1>3 DEF ProcessResult, Complete, Running
<1>4. CASE NotifySaved
  <2>1. Head(returned) \in Outcomes
    BY <1>4, TailElements DEF NotifySaved, TypeOK
  <2> QED BY <1>4, <2>1 DEF NotifySaved, Blocks
<1>5. CASE TaskEnds \/ FallThrough
  BY <1>5 DEF TaskEnds, FallThrough, Result, Blocks, Outcomes
<1>6. \/ UNCHANGED queue
      \/ \E c \in Calls : EnterSwift(c)
      \/ StartInitialization \/ ProcessResult \/ Complete \/ NotifySaved
      \/ TaskEnds \/ FallThrough
  BY DEF Next, EnterLegacy, Caller, ReadSuccess, ReadFailure,
         ReadInitializing, StartWithout, StartLegacy, MainStep, SetState,
         TellDelegates, QueueStep, WorkStep, ChainEnds, OperationEnds,
         Recover, vars, swiftVars
<1> QED BY <1>1, <1>2, <1>3, <1>4, <1>5, <1>6

\* The announcements of the completions that are told a failure.
Failures(n) == [i \in 1..n |-> "failed"]

\* The main thread takes an announcement; the work, a wait that falls
\* through, or the completions post some.
LEMMA MainSteps ==
  ASSUME TypeOK, [Next]_vars
  PROVE  \/ UNCHANGED main
         \/ main # <<>> /\ main' = Tail(main) /\ SetState
         \/ /\ ChainEnds \/ TaskEnds \/ FallThrough
            /\ \E o \in Outcomes : main' = Append(main, o)
         \/ Complete /\ \E n \in {0, Len(saved)} : main' = main \o Failures(n)
<1>1. CASE SetState
  BY <1>1 DEF SetState
<1>2. CASE ChainEnds \/ TaskEnds \/ FallThrough
  BY <1>2 DEF ChainEnds, TaskEnds, FallThrough, Outcomes
<1>3. CASE Complete
  BY <1>3 DEF Complete, Failures
<1>4. \/ UNCHANGED main
      \/ SetState \/ ChainEnds \/ TaskEnds \/ FallThrough \/ Complete
  BY DEF Next, EnterLegacy, Caller, ReadSuccess, ReadFailure,
         ReadInitializing, StartWithout, StartLegacy, MainStep, EnterSwift,
         TellDelegates, QueueStep, StartInitialization, ProcessResult,
         WorkStep, OperationEnds, NotifySaved, Recover, vars, mainVars
<1> QED BY <1>1, <1>2, <1>3, <1>4

\* A call goes from one step to another, or none does.
LEMMA CallSteps ==
  ASSUME TypeOK, [Next]_vars
  PROVE  \/ UNCHANGED pc
         \/ \E c \in Calls, step \in Steps \ {"idle"} : GoTo(c, step)
<1>1. CASE StartInitialization
  <2>1. Head(queue).call \in Calls
    BY <1>1, RunningHead DEF StartInitialization
  <2> QED BY <1>1, <2>1 DEF StartInitialization, Steps
<1>2. ASSUME NEW c \in Calls, EnterLegacy(c) \/ EnterSwift(c) \/ Caller(c)
      PROVE  \E step \in Steps \ {"idle"} : GoTo(c, step)
  BY <1>2 DEF EnterLegacy, EnterSwift, Caller, ReadSuccess, ReadFailure,
              ReadInitializing, StartWithout, StartLegacy, Steps
<1>3. \/ UNCHANGED pc
      \/ StartInitialization
      \/ \E c \in Calls : EnterLegacy(c) \/ EnterSwift(c) \/ Caller(c)
  BY DEF Next, MainStep, SetState, TellDelegates, QueueStep, ProcessResult,
         Complete, WorkStep, ChainEnds, OperationEnds, TaskEnds, NotifySaved,
         Recover, FallThrough, vars
<1> QED BY <1>1, <1>2, <1>3

\* What a delegate can hear.
Words == Outcomes \cup {"invalid"}

\* The delegates in the list hear one word more.
LEMMA TellAppends ==
  ASSUME TypeOK, NEW w \in Words, Tell(w)
  PROVE  /\ heard' \in [Calls -> Seq(Words)] /\ delegates' = {}
         /\ \A c \in Calls :
              heard'[c] = IF c \in delegates THEN Append(heard[c], w)
                                             ELSE heard[c]
<1>1. \A c \in Calls : heard[c] \in Seq(Words)
  BY DEF TypeOK, Words
<1>2. \A c \in Calls : Append(heard[c], w) \in Seq(Words)
  BY <1>1, AppendElements
<1> QED BY <1>1, <1>2 DEF Tell

\* A list of words that only says "invalid".
LEMMA InvalidIsAdded ==
  ASSUME NEW s \in Seq(Words),
         NEW a \in {<<>>, <<"invalid">>}, NEW b \in {<<>>, <<"invalid">>}
  PROVE  /\ (s \o a) \o b \in Seq(Words)
         /\ Len((s \o a) \o b) = Len(s) + Len(a) + Len(b)
         /\ \A i \in DOMAIN ((s \o a) \o b) :
              \/ i \in DOMAIN s /\ ((s \o a) \o b)[i] = s[i]
              \/ ((s \o a) \o b)[i] = "invalid"
         /\ a = <<>> /\ b = <<>> => (s \o a) \o b = s
<1>1. a \in Seq(Words) /\ b \in Seq(Words)
  <2>1. "invalid" \in Words
    BY DEF Words
  <2>2. <<>> \in Seq(Words) /\ <<"invalid">> \in Seq(Words)
    BY <2>1
  <2> QED BY <2>2
<1>2. s \o a \in Seq(Words) /\ Len(s \o a) = Len(s) + Len(a)
  BY <1>1, ConcatElements
<1>3. /\ (s \o a) \o b \in Seq(Words)
      /\ Len((s \o a) \o b) = Len(s) + Len(a) + Len(b)
  BY <1>1, <1>2, ConcatElements
<1>4. \A t \in {<<>>, <<"invalid">>} : \A i \in DOMAIN t : t[i] = "invalid"
  OBVIOUS
<1>5. ASSUME NEW i \in DOMAIN (s \o a)
      PROVE  \/ i \in DOMAIN s /\ (s \o a)[i] = s[i]
             \/ (s \o a)[i] = "invalid"
  <2>1. CASE i <= Len(s)
    BY <1>1, <2>1, ConcatElements
  <2>2. CASE ~(i <= Len(s))
    <3>1. i - Len(s) \in DOMAIN a /\ (s \o a)[i] = a[i - Len(s)]
      BY <1>1, <2>2, ConcatElements
    <3> QED BY <1>4, <3>1
  <2> QED BY <2>1, <2>2
<1>6. ASSUME NEW i \in DOMAIN ((s \o a) \o b)
      PROVE  \/ i \in DOMAIN s /\ ((s \o a) \o b)[i] = s[i]
             \/ ((s \o a) \o b)[i] = "invalid"
  <2>1. CASE i <= Len(s \o a)
    <3>1. i \in DOMAIN (s \o a) /\ ((s \o a) \o b)[i] = (s \o a)[i]
      BY <1>1, <1>2, <2>1, ConcatElements
    <3> QED BY <1>5, <3>1
  <2>2. CASE ~(i <= Len(s \o a))
    <3>1. /\ i - Len(s \o a) \in DOMAIN b
          /\ ((s \o a) \o b)[i] = b[i - Len(s \o a)]
      BY <1>1, <1>2, <2>2, ConcatElements
    <3> QED BY <1>4, <3>1
  <2> QED BY <2>1, <2>2
<1>7. ASSUME a = <<>>, b = <<>> PROVE (s \o a) \o b = s
  BY <1>7
<1> QED BY <1>3, <1>6, <1>7

\* The delegates hear that there is no identifier, and the caller's hears it
\* once more.
LEMMA StartWithoutSays ==
  ASSUME TypeOK, NEW c \in Calls, StartWithout(c)
  PROVE  /\ heard' \in [Calls -> Seq(Words)]
         /\ \A d \in Calls :
              /\ Len(heard'[d]) = Len(heard[d]) + Left(d \in delegates)
                                  + Left(d = c)
              /\ \A i \in DOMAIN heard'[d] :
                   \/ i \in DOMAIN heard[d] /\ heard'[d][i] = heard[d][i]
                   \/ heard'[d][i] = "invalid"
              /\ d \notin delegates \cup {c} => heard'[d] = heard[d]
<1>1. \A d \in Calls : heard[d] \in Seq(Words)
  BY DEF TypeOK, Words
<1> DEFINE a(d) == IF d \in delegates THEN <<"invalid">> ELSE <<>>
           b(d) == IF d = c THEN <<"invalid">> ELSE <<>>
<1>2. heard' = [d \in Calls |-> (heard[d] \o a(d)) \o b(d)]
  BY DEF StartWithout
<1>3. \A d \in Calls : /\ a(d) \in {<<>>, <<"invalid">>}
                       /\ b(d) \in {<<>>, <<"invalid">>}
  OBVIOUS
<1>4. \A d \in Calls : /\ Len(a(d)) = Left(d \in delegates)
                       /\ Len(b(d)) = Left(d = c)
  BY DEF Left
<1>5. \A d \in Calls : d \notin delegates \cup {c} => a(d) = <<>> /\ b(d) = <<>>
  OBVIOUS
<1> HIDE DEF a, b
<1>6. ASSUME NEW d \in Calls
      PROVE  /\ heard'[d] \in Seq(Words)
             /\ Len(heard'[d]) = Len(heard[d]) + Left(d \in delegates)
                                 + Left(d = c)
             /\ \A i \in DOMAIN heard'[d] :
                  \/ i \in DOMAIN heard[d] /\ heard'[d][i] = heard[d][i]
                  \/ heard'[d][i] = "invalid"
             /\ d \notin delegates \cup {c} => heard'[d] = heard[d]
  <2>1. heard'[d] = (heard[d] \o a(d)) \o b(d)
    BY <1>2
  <2>2. heard[d] \in Seq(Words) /\ a(d) \in {<<>>, <<"invalid">>}
        /\ b(d) \in {<<>>, <<"invalid">>}
    BY <1>1, <1>3
  <2> DEFINE r == (heard[d] \o a(d)) \o b(d)
  <2>3. /\ r \in Seq(Words)
        /\ Len(r) = Len(heard[d]) + Len(a(d)) + Len(b(d))
        /\ \A i \in DOMAIN r :
             \/ i \in DOMAIN heard[d] /\ r[i] = heard[d][i]
             \/ r[i] = "invalid"
        /\ a(d) = <<>> /\ b(d) = <<>> => r = heard[d]
    BY <2>2, InvalidIsAdded
  <2>4. heard'[d] = r
    BY <2>1
  <2>5. /\ Len(a(d)) = Left(d \in delegates) /\ Len(b(d)) = Left(d = c)
        /\ d \notin delegates \cup {c} => a(d) = <<>> /\ b(d) = <<>>
    BY <1>4, <1>5
  <2> HIDE DEF r
  <2> QED BY <2>3, <2>4, <2>5
<1>7. heard' \in [Calls -> Seq(Words)]
  <2>1. heard' = [d \in Calls |-> heard'[d]]
    BY <1>2
  <2> QED BY <2>1, <1>6
<1> QED BY <1>6, <1>7

\* A word that is told: it was posted, or read by a caller of the legacy flow.
IsSaid(w) ==
  \/ telling = w
  \/ /\ flow = "legacy" /\ state = StateOf(w)
     /\ \E c \in Calls : pc[c] \notin FreeSteps

\* How what was heard changes: a call enters, and joins the list or is told
\* at once, or the delegates in the list are told.
LEMMA HeardSteps ==
  ASSUME TypeOK, [Next]_vars
  PROVE  \/ UNCHANGED <<heard, delegates>>
         \/ \E c \in Calls : /\ pc[c] = "idle" /\ pc'[c] # "idle"
                             /\ delegates' = delegates \cup {c}
                             /\ UNCHANGED heard
         \/ \E c \in Calls : /\ pc[c] = "idle" /\ pc'[c] # "idle"
                             /\ heard' = [heard EXCEPT ![c] =
                                            Append(@, "invalid")]
                             /\ UNCHANGED delegates
         \/ \E c \in Calls : StartWithout(c)
         \/ \E w \in Outcomes : Tell(w) /\ IsSaid(w)
<1>1. ASSUME NEW c \in Calls, EnterLegacy(c) \/ EnterSwift(c)
      PROVE  /\ pc[c] = "idle" /\ pc'[c] # "idle"
             /\ \/ UNCHANGED heard /\ delegates' = delegates \cup {c}
                \/ /\ heard' = [heard EXCEPT ![c] = Append(@, "invalid")]
                   /\ UNCHANGED delegates
  BY <1>1 DEF EnterLegacy, EnterSwift, At, GoTo, TypeOK
<1>2. ASSUME NEW c \in Calls, ReadSuccess(c) \/ ReadFailure(c)
      PROVE  \/ UNCHANGED <<heard, delegates>>
             \/ \E w \in Outcomes : Tell(w) /\ IsSaid(w)
  BY <1>2 DEF ReadSuccess, ReadFailure, At, Outcomes, IsSaid, StateOf,
              FreeSteps
<1>3. CASE TellDelegates
  BY <1>3 DEF TellDelegates, TypeOK, IsSaid
<1>4. \/ UNCHANGED <<heard, delegates>>
      \/ \E c \in Calls : \/ EnterLegacy(c) \/ EnterSwift(c)
                          \/ StartWithout(c)
                          \/ ReadSuccess(c) \/ ReadFailure(c)
      \/ TellDelegates
  BY DEF Next, Caller, ReadInitializing, StartLegacy, MainStep, SetState,
         QueueStep, StartInitialization, ProcessResult, Complete, WorkStep,
         ChainEnds, OperationEnds, TaskEnds, NotifySaved, Recover,
         FallThrough, vars
<1> QED BY <1>1, <1>2, <1>3, <1>4

-----------------------------------------------------------------------------
(***************************************************************************)
(* Type correctness.                                                       *)
(***************************************************************************)
LEMMA QueueIsTyped == ASSUME TypeOK, [Next]_vars PROVE queue' \in Seq(Blocks)
<1>1. queue \in Seq(Blocks)
  BY DEF TypeOK
<1>2. CASE UNCHANGED queue
  BY <1>1, <1>2
<1>3. ASSUME NEW b \in Blocks, queue' = Append(queue, b)
      PROVE  queue' \in Seq(Blocks)
  BY <1>1, <1>3, AppendElements
<1>4. CASE queue # <<>> /\ queue' = Tail(queue)
  BY <1>1, <1>4, TailElements
<1>5. ASSUME queue # <<>>, NEW b \in Blocks, queue' = Append(Tail(queue), b)
      PROVE  queue' \in Seq(Blocks)
  <2>1. Tail(queue) \in Seq(Blocks)
    BY <1>1, <1>5, TailElements
  <2> QED BY <1>5, <2>1, AppendElements
<1> QED BY <1>2, <1>3, <1>4, <1>5, QueueSteps

LEMMA FailuresAreOutcomes ==
  ASSUME NEW n \in Nat
  PROVE  /\ Failures(n) \in Seq(Outcomes) /\ Len(Failures(n)) = n
         /\ \A i \in DOMAIN Failures(n) : Failures(n)[i] = "failed"
<1>1. "failed" \in Outcomes
  BY DEF Outcomes
<1> QED BY <1>1, RepeatElements DEF Failures

LEMMA MainIsTyped == ASSUME TypeOK, [Next]_vars PROVE main' \in Seq(Outcomes)
<1>1. main \in Seq(Outcomes) /\ Len(saved) \in Nat
  BY DEF TypeOK
<1>2. CASE UNCHANGED main
  BY <1>1, <1>2
<1>3. ASSUME NEW o \in Outcomes, main' = Append(main, o)
      PROVE  main' \in Seq(Outcomes)
  BY <1>1, <1>3, AppendElements
<1>4. CASE main # <<>> /\ main' = Tail(main)
  BY <1>1, <1>4, TailElements
<1>5. ASSUME NEW n \in {0, Len(saved)}, main' = main \o Failures(n)
      PROVE  main' \in Seq(Outcomes)
  <2>1. n \in Nat
    BY <1>1
  <2> QED BY <1>1, <1>5, <2>1, FailuresAreOutcomes, ConcatElements
<1> QED BY <1>2, <1>3, <1>4, <1>5, MainSteps

\* What else is kept in sequences.
LEMMA SavedIsTyped ==
  ASSUME TypeOK, StartIsAwaited, CompletionsWait, [Next]_vars
  PROVE  saved' \in Seq(Calls) /\ IsInjective(saved')
<1>1. saved \in Seq(Calls) /\ IsInjective(saved)
  BY DEF TypeOK
<1>2. CASE StartInitialization
  <2> DEFINE c == Head(queue).call
  <2>1. c \in Calls /\ pc[c] = "initializer" /\ saved' = Append(saved, c)
    BY <1>2, RunningHead DEF StartInitialization, StartIsAwaited
  <2>2. saved' \in Seq(Calls)
    BY <1>1, <2>1, AppendElements
  <2>3. ASSUME NEW i \in DOMAIN saved', NEW j \in DOMAIN saved',
               saved'[i] = saved'[j]
        PROVE  i = j
    <3>1. \A k \in DOMAIN saved : saved[k] # c
      BY <2>1 DEF CompletionsWait
    <3> HIDE DEF c
    <3>2. \A k \in DOMAIN saved' :
            \/ k \in DOMAIN saved /\ saved'[k] = saved[k]
            \/ k = Len(saved) + 1 /\ saved'[k] = c
      BY <1>1, <2>1, AppendedFrom
    <3> QED BY <1>1, <2>3, <3>1, <3>2 DEF IsInjective
  <2> QED BY <2>2, <2>3 DEF IsInjective
<1>3. CASE Complete
  BY <1>3 DEF Complete, IsInjective
<1>4. CASE UNCHANGED saved
  BY <1>1, <1>4
<1>5. UNCHANGED saved \/ StartInitialization \/ Complete
  BY DEF Next, EnterLegacy, Caller, ReadSuccess, ReadFailure,
         ReadInitializing, StartWithout, StartLegacy, MainStep, SetState,
         TellDelegates, EnterSwift, QueueStep, ProcessResult, WorkStep,
         ChainEnds, OperationEnds, TaskEnds, NotifySaved, Recover,
         FallThrough, vars, swiftVars
<1> QED BY <1>2, <1>3, <1>4, <1>5

LEMMA ReturnedIsTyped ==
  ASSUME TypeOK, [Next]_vars PROVE returned' \in Seq(Outcomes)
<1>1. returned \in Seq(Outcomes)
  BY DEF TypeOK
<1>2. CASE ProcessResult
  <2>1. /\ Head(queue).result \in Outcomes
        /\ returned' = Append(returned, Head(queue).result)
    BY <1>2, RunningHead DEF ProcessResult
  <2> QED BY <1>1, <2>1, AppendElements
<1>3. CASE NotifySaved
  BY <1>1, <1>3, TailElements DEF NotifySaved
<1>4. CASE UNCHANGED returned
  BY <1>1, <1>4
<1>5. UNCHANGED returned \/ ProcessResult \/ NotifySaved
  BY DEF Next, EnterLegacy, Caller, ReadSuccess, ReadFailure,
         ReadInitializing, StartWithout, StartLegacy, MainStep, SetState,
         TellDelegates, EnterSwift, QueueStep, StartInitialization, Complete,
         WorkStep, ChainEnds, OperationEnds, TaskEnds, Recover, FallThrough,
         vars, swiftVars
<1> QED BY <1>2, <1>3, <1>4, <1>5

\* What was heard and called.
LEMMA HeardIsTyped ==
  ASSUME TypeOK, [Next]_vars PROVE heard' \in [Calls -> Seq(Words)]
<1>1. heard \in [Calls -> Seq(Words)]
  BY DEF TypeOK, Words
<1>2. ASSUME NEW c \in Calls,
             heard' = [heard EXCEPT ![c] = Append(@, "invalid")]
      PROVE  heard' \in [Calls -> Seq(Words)]
  <2>1. Append(heard[c], "invalid") \in Seq(Words)
    <3>1. heard[c] \in Seq(Words) /\ "invalid" \in Words
      BY <1>1 DEF Words
    <3> QED BY <3>1, AppendElements
  <2> QED BY <1>1, <1>2, <2>1
<1>3. ASSUME NEW w \in Outcomes, Tell(w)
      PROVE  heard' \in [Calls -> Seq(Words)]
  BY <1>3, TellAppends DEF Words
<1> QED BY <1>1, <1>2, <1>3, HeardSteps, StartWithoutSays

\* The completions that are saved are called with one result more.
LEMMA CompleteCalls ==
  ASSUME TypeOK, Complete
  PROVE  /\ Head(queue).result \in Outcomes
         /\ completed' \in [Calls -> Seq(Outcomes)]
         /\ \A c \in Calls :
              completed'[c] = IF \E i \in DOMAIN saved : saved[i] = c
                              THEN Append(completed[c], Head(queue).result)
                              ELSE completed[c]
<1> DEFINE r == Head(queue).result
<1>1. r \in Outcomes
  BY RunningHead DEF Complete
<1>2. completed' = [c \in Calls |-> IF Contains(saved, c)
                                    THEN Append(completed[c], r)
                                    ELSE completed[c]]
  BY DEF Complete
<1> HIDE DEF r
<1>3. \A c \in Calls : completed[c] \in Seq(Outcomes)
  BY DEF TypeOK
<1>4. \A c \in Calls : Append(completed[c], r) \in Seq(Outcomes)
  BY <1>1, <1>3, AppendElements
<1>5. \A c \in Calls :
        Contains(saved, c) <=> \E i \in DOMAIN saved : saved[i] = c
  BY DEF Contains, TypeOK
<1>6. completed' \in [Calls -> Seq(Outcomes)]
  BY <1>2, <1>3, <1>4
<1>7. ASSUME NEW c \in Calls
      PROVE  completed'[c] = IF \E i \in DOMAIN saved : saved[i] = c
                             THEN Append(completed[c], r) ELSE completed[c]
  BY <1>2, <1>5
<1> QED BY <1>1, <1>6, <1>7 DEF r

\* The completions are called by Complete alone.
LEMMA CompletedSteps ==
  ASSUME [Next]_vars PROVE UNCHANGED completed \/ Complete
BY DEF Next, EnterLegacy, Caller, ReadSuccess, ReadFailure,
       ReadInitializing, StartWithout, StartLegacy, MainStep, SetState,
       TellDelegates, EnterSwift, QueueStep, StartInitialization,
       ProcessResult, WorkStep, ChainEnds, OperationEnds, TaskEnds,
       NotifySaved, Recover, FallThrough, vars, swiftVars

LEMMA CallsAreTyped ==
  ASSUME TypeOK, [Next]_vars
  PROVE  pc' \in [Calls -> Steps] /\ completed' \in [Calls -> Seq(Outcomes)]
<1>1. pc' \in [Calls -> Steps]
  BY CallSteps DEF TypeOK, GoTo
<1>2. completed' \in [Calls -> Seq(Outcomes)]
  BY CompletedSteps, CompleteCalls DEF TypeOK
<1> QED BY <1>1, <1>2

\* What is no sequence.
RestOfTypes ==
  /\ flow \in {"legacy", "swift"} /\ kind \in Kinds
  /\ delegates \subseteq Calls
  /\ state \in State /\ params \in {"none"} \cup CallKinds
  /\ telling \in {"nothing"} \cup Outcomes
  /\ work \in {"idle", "running", "over"}
  /\ sdkState \in SdkState
  /\ wait \in {"none", "recovered", "fallen"}
  /\ ended \subseteq Outcomes

LEMMA RestIsTyped == ASSUME TypeOK, [Next]_vars PROVE RestOfTypes'
<1> USE DEF RestOfTypes, TypeOK, State, SdkState
<1>0. \A c \in Calls : kind[c] \in CallKinds
  BY KindsAssumption
<1>1. ASSUME NEW c \in Calls, EnterLegacy(c) \/ EnterSwift(c) \/ Caller(c)
      PROVE  RestOfTypes'
  <2> USE DEF mainVars, swiftVars
  <2>1. CASE EnterLegacy(c)
    BY <2>1 DEF EnterLegacy
  <2>2. CASE EnterSwift(c)
    BY <1>0, <2>2 DEF EnterSwift
  <2>3. CASE ReadSuccess(c) \/ ReadFailure(c)
    BY <2>3 DEF ReadSuccess, ReadFailure, Tell
  <2>4. CASE ReadInitializing(c)
    BY <2>4 DEF ReadInitializing
  <2>5. CASE StartWithout(c)
    BY <2>5 DEF StartWithout
  <2>6. CASE StartLegacy(c)
    BY <1>0, <2>6 DEF StartLegacy
  <2> QED BY <1>1, <2>1, <2>2, <2>3, <2>4, <2>5, <2>6 DEF Caller
<1>2. CASE SetState
  <2>1. Head(main) \in Outcomes
    BY <1>2, TailElements DEF SetState
  <2> QED BY <1>2, <2>1 DEF SetState, StateOf, swiftVars
<1>3. CASE TellDelegates
  BY <1>3 DEF TellDelegates, Tell, swiftVars
<1>4. CASE StartInitialization
  BY <1>4 DEF StartInitialization, mainVars
<1>5. CASE ProcessResult
  BY <1>5 DEF ProcessResult, mainVars
<1>6. CASE Complete
  BY <1>6 DEF Complete, StateOf
<1>7. CASE ChainEnds \/ OperationEnds
  BY <1>7 DEF ChainEnds, OperationEnds, mainVars, swiftVars
<1>8. CASE TaskEnds \/ NotifySaved
  BY <1>8 DEF TaskEnds, NotifySaved, mainVars
<1>9. CASE Recover \/ FallThrough
  BY <1>9 DEF Recover, FallThrough, mainVars
<1>10. CASE UNCHANGED vars
  BY <1>10 DEF vars, mainVars, swiftVars
<1> QED BY <1>1, <1>2, <1>3, <1>4, <1>5, <1>6, <1>7, <1>8, <1>9, <1>10
        DEF Next, MainStep, QueueStep, WorkStep

-----------------------------------------------------------------------------
(***************************************************************************)
(* The lock of UnityServices and the flows.                                *)
(***************************************************************************)
\* A step into the lock finds nobody there, any other one is a step of the
\* call that is there, or leads out of it; a call that is over stays so.
LEMMA LockSteps ==
  ASSUME TypeOK, [Next]_vars
  PROVE  \/ UNCHANGED pc
         \/ \E c \in Calls, step \in Steps \ {"idle"} :
              /\ GoTo(c, step)
              /\ \/ pc[c] = "idle" /\ IsFree
                 \/ pc[c] \notin FreeSteps
                 \/ step = "done"
<1>1. CASE StartInitialization
  <2>1. Head(queue).call \in Calls
    BY <1>1, RunningHead DEF StartInitialization
  <2> QED BY <1>1, <2>1 DEF StartInitialization, Steps
<1>2. ASSUME NEW c \in Calls, EnterLegacy(c) \/ EnterSwift(c) \/ Caller(c)
      PROVE  \E step \in Steps \ {"idle"} :
               /\ GoTo(c, step)
               /\ \/ pc[c] = "idle" /\ IsFree
                  \/ pc[c] \notin FreeSteps
                  \/ step = "done"
  BY <1>2 DEF EnterLegacy, EnterSwift, Caller, ReadSuccess, ReadFailure, At,
              ReadInitializing, StartWithout, StartLegacy, Steps, FreeSteps
<1>3. \/ UNCHANGED pc
      \/ StartInitialization
      \/ \E c \in Calls : EnterLegacy(c) \/ EnterSwift(c) \/ Caller(c)
  BY DEF Next, MainStep, SetState, TellDelegates, QueueStep, ProcessResult,
         Complete, WorkStep, ChainEnds, OperationEnds, TaskEnds, NotifySaved,
         Recover, FallThrough, vars
<1> QED BY <1>1, <1>2, <1>3

LEMMA OneCallerIsKept == ASSUME IInv, [Next]_vars PROVE OneCaller'
<1> USE DEF IInv, TypeOK
<1>1. CASE UNCHANGED pc
  BY <1>1 DEF OneCaller
<1>2. ASSUME NEW c \in Calls, NEW step \in Steps \ {"idle"}, GoTo(c, step),
             \/ pc[c] = "idle" /\ IsFree
             \/ pc[c] \notin FreeSteps
             \/ step = "done"
      PROVE  OneCaller'
  BY <1>2 DEF OneCaller, GoTo, IsFree, FreeSteps
<1> QED BY <1>1, <1>2, LockSteps

\* What a step of one flow does not do.
LEMMA FlowsStayApart == ASSUME IInv, [Next]_vars PROVE FlowsAreApart'
<1> USE DEF IInv, TypeOK, FlowsAreApart, FreeSteps
<1>0. UNCHANGED flow
  BY DEF Next, EnterLegacy, Caller, ReadSuccess, ReadFailure,
         ReadInitializing, StartWithout, StartLegacy, MainStep, SetState,
         TellDelegates, EnterSwift, QueueStep, StartInitialization,
         ProcessResult, Complete, WorkStep, ChainEnds, OperationEnds,
         TaskEnds, NotifySaved, Recover, FallThrough, vars
<1>1. CASE flow = "swift"
  <2>1. ASSUME NEW c \in Calls, EnterSwift(c) PROVE FlowsAreApart'
    BY <1>0, <1>1, <2>1 DEF EnterSwift, GoTo
  <2>2. CASE StartInitialization
    <3>1. Head(queue).call \in Calls
      BY <2>2, RunningHead DEF StartInitialization
    <3>2. GoTo(Head(queue).call, "done")
      BY <2>2 DEF StartInitialization
    <3> QED BY <1>0, <1>1, <3>1, <3>2 DEF GoTo
  <2>3. \/ UNCHANGED pc \/ StartInitialization
        \/ \E c \in Calls : EnterSwift(c)
    BY <1>1 DEF Next, EnterLegacy, Caller, ReadSuccess, ReadFailure, At,
           ReadInitializing, StartWithout, StartLegacy, MainStep, SetState,
           TellDelegates, QueueStep, ProcessResult, Complete, WorkStep,
           ChainEnds, OperationEnds, TaskEnds, NotifySaved, Recover,
           FallThrough, vars
  <2> QED BY <1>0, <1>1, <2>1, <2>2, <2>3
<1>2. CASE flow = "legacy"
  <2>1. UNCHANGED swiftVars
    BY <1>2 DEF Next, EnterLegacy, Caller, ReadSuccess, ReadFailure,
           ReadInitializing, StartWithout, StartLegacy, MainStep, SetState,
           TellDelegates, EnterSwift, QueueStep, StartInitialization,
           ProcessResult, Complete, WorkStep, ChainEnds, OperationEnds,
           TaskEnds, NotifySaved, Recover, FallThrough, vars, Running
  <2>2. ASSUME NEW c \in Calls, EnterLegacy(c) \/ Caller(c)
        PROVE  \A d \in Calls : pc'[d] # "initializer"
    BY <1>2, <2>2 DEF EnterLegacy, Caller, ReadSuccess, ReadFailure,
           ReadInitializing, StartWithout, StartLegacy, GoTo
  <2>3. UNCHANGED pc \/ \E c \in Calls : EnterLegacy(c) \/ Caller(c)
    BY <1>2 DEF Next, MainStep, SetState, TellDelegates, EnterSwift,
           QueueStep, StartInitialization, Running, ProcessResult, Complete,
           WorkStep, ChainEnds, OperationEnds, TaskEnds, NotifySaved,
           Recover, FallThrough, vars
  <2> QED BY <1>0, <1>2, <2>1, <2>2, <2>3 DEF swiftVars
<1> QED BY <1>1, <1>2

-----------------------------------------------------------------------------
(***************************************************************************)
(* The queue of the initializer and the work that it starts.               *)
(***************************************************************************)
LEMMA StartStaysAwaited == ASSUME IInv, [Next]_vars PROVE StartIsAwaited'
<1> USE DEF StartIsAwaited
<1>1. TypeOK /\ StartIsAwaited /\ queue \in Seq(Blocks)
  BY DEF IInv, TypeOK
<1>2. CASE UNCHANGED queue /\ (UNCHANGED pc \/ flow = "legacy")
  BY <1>1, <1>2 DEF IInv, FlowsAreApart
<1>3. ASSUME UNCHANGED pc, NEW b \in Blocks, b.do # "start",
             queue' = Append(queue, b)
      PROVE  StartIsAwaited'
  <2>1. \A i \in DOMAIN queue' : queue'[i].do = "start" =>
          i \in DOMAIN queue /\ queue'[i] = queue[i]
    BY <1>1, <1>3, AppendedFrom
  <2> QED BY <1>1, <1>3, <2>1
<1>4. CASE UNCHANGED pc /\ queue # <<>> /\ queue' = Tail(queue)
  <2>1. \A i \in DOMAIN queue' :
          i + 1 \in DOMAIN queue /\ queue'[i] = queue[i + 1] /\ i \in Nat
    BY <1>1, <1>4, TailFrom
  <2> QED BY <1>1, <1>4, <2>1
<1>5. CASE StartInitialization
  <2>1. /\ queue # <<>> /\ 1 \in DOMAIN queue /\ queue[1].do = "start"
        /\ Tail(queue) \in Seq(Blocks)
    BY <1>1, <1>5, RunningHead DEF StartInitialization
  <2>2. \A i \in DOMAIN Tail(queue) : Tail(queue)[i].do # "start"
    <3>1. \A i \in DOMAIN Tail(queue) :
            i + 1 \in DOMAIN queue /\ Tail(queue)[i] = queue[i + 1] /\ i \in Nat
      BY <1>1, <2>1, TailFrom
    <3>2. \A i \in DOMAIN Tail(queue) : i # 0
      BY <1>1, <2>1, TailElements
    <3>3. \A i \in DOMAIN Tail(queue) : i + 1 # 1
      BY <3>1, <3>2
    <3> QED BY <1>1, <2>1, <3>1, <3>3
  <2>3. \/ queue' = Tail(queue)
        \/ \E b \in Blocks : b.do # "start" /\ queue' = Append(Tail(queue), b)
    BY <1>5 DEF StartInitialization, Notify, Blocks, Outcomes
  <2>4. \A i \in DOMAIN queue' : queue'[i].do # "start"
    <3>1. ASSUME NEW b \in Blocks, b.do # "start",
                 queue' = Append(Tail(queue), b), NEW i \in DOMAIN queue'
          PROVE  queue'[i].do # "start"
      BY <2>1, <2>2, <3>1, AppendedFrom
    <3>2. CASE queue' = Tail(queue)
      BY <2>2, <3>2
    <3> QED BY <2>3, <3>1, <3>2
  <2> QED BY <2>4
<1>6. ASSUME NEW c \in Calls, EnterSwift(c) PROVE StartIsAwaited'
  <2> DEFINE b == [do |-> "start", call |-> c]
  <2>1. b \in Blocks /\ queue' = Append(queue, b)
    BY <1>6 DEF EnterSwift, Blocks
  <2>2. \A i \in DOMAIN queue : queue[i].do # "start"
    <3>1. \A i \in DOMAIN queue :
            queue[i] \in Blocks
      BY <1>1
    <3>2. \A d \in Calls : pc[d] # "initializer"
      BY <1>6 DEF EnterSwift, IsFree
    <3> QED BY <1>1, <3>1, <3>2 DEF Blocks
  <2>3. \A i \in DOMAIN queue' :
          queue'[i].do = "start" => i = Len(queue) + 1 /\ queue'[i] = b
    BY <1>1, <2>1, <2>2, AppendedFrom
  <2>4. pc'[c] = "initializer" /\ b.call = c
    BY <1>1, <1>6 DEF EnterSwift, GoTo, TypeOK
  <2> QED BY <2>3, <2>4
<1>7. CASE NotifySaved
  <2>1. Head(returned) \in Outcomes
    BY <1>7, TailElements DEF NotifySaved, IInv, TypeOK
  <2> QED BY <1>3, <1>7, <2>1 DEF NotifySaved, Blocks
<1>8. CASE TaskEnds \/ FallThrough
  <2>1. \/ UNCHANGED queue
        \/ \E b \in Blocks : b.do # "start" /\ queue' = Append(queue, b)
    BY <1>8 DEF TaskEnds, FallThrough, Result, Blocks, Outcomes
  <2>2. UNCHANGED pc
    BY <1>8 DEF TaskEnds, FallThrough
  <2> QED BY <1>2, <1>3, <2>1, <2>2
<1>9. CASE ProcessResult \/ Complete
  BY <1>4, <1>9 DEF ProcessResult, Complete, Running
<1>10. \/ UNCHANGED queue /\ (UNCHANGED pc \/ flow = "legacy")
       \/ StartInitialization \/ ProcessResult \/ Complete
       \/ \E c \in Calls : EnterSwift(c)
       \/ NotifySaved \/ TaskEnds \/ FallThrough
  BY DEF Next, EnterLegacy, Caller, ReadSuccess, ReadFailure, At,
         ReadInitializing, StartWithout, StartLegacy, MainStep, SetState,
         TellDelegates, QueueStep, WorkStep, ChainEnds, OperationEnds,
         Recover, vars, swiftVars
<1> QED BY <1>2, <1>5, <1>6, <1>7, <1>8, <1>9, <1>10

\* A result is processed, and a wait begun, only once the work was started.
LEMMA WorkStaysStartedOnce ==
  ASSUME IInv, [Next]_vars PROVE WorkIsStartedOnce'
<1> USE DEF WorkIsStartedOnce
<1>1. /\ TypeOK /\ WorkIsStartedOnce /\ queue \in Seq(Blocks)
      /\ UNCHANGED flow
  BY DEF IInv, TypeOK, Next, EnterLegacy, Caller, ReadSuccess, ReadFailure,
         ReadInitializing, StartWithout, StartLegacy, MainStep, SetState,
         TellDelegates, EnterSwift, QueueStep, StartInitialization,
         ProcessResult, Complete, WorkStep, ChainEnds, OperationEnds,
         TaskEnds, NotifySaved, Recover, FallThrough, vars
<1>2. CASE flow = "legacy"
  BY <1>1, <1>2
<1>3. CASE flow = "swift" /\ UNCHANGED <<work, sdkState, wait, queue>>
  BY <1>1, <1>3
<1>4. ASSUME flow = "swift", UNCHANGED <<work, sdkState, wait>>,
             NEW b \in Blocks, b.do # "process", queue' = Append(queue, b)
      PROVE  WorkIsStartedOnce'
  <2>1. \A i \in DOMAIN queue' : queue'[i].do = "process" =>
          i \in DOMAIN queue /\ queue'[i] = queue[i]
    BY <1>1, <1>4, AppendedFrom
  <2> QED BY <1>1, <1>4, <2>1
<1>5. ASSUME NEW c \in Calls, EnterSwift(c) PROVE WorkIsStartedOnce'
  <2>1. [do |-> "start", call |-> c] \in Blocks
    BY DEF Blocks
  <2> QED BY <1>4, <1>5, <2>1 DEF EnterSwift
<1>6. CASE flow = "swift" /\ NotifySaved
  <2>1. Head(returned) \in Outcomes
    BY <1>6, TailElements DEF NotifySaved, IInv, TypeOK
  <2>2. [do |-> "notify", result |-> Head(returned)] \in Blocks
    BY <2>1 DEF Blocks
  <2> QED BY <1>4, <1>6, <2>2 DEF NotifySaved
<1>7. CASE StartInitialization
  <2>1. queue # <<>> /\ Tail(queue) \in Seq(Blocks)
    BY <1>1, <1>7, RunningHead DEF StartInitialization
  <2>2. \/ queue' = Tail(queue)
        \/ \E b \in Blocks : b.do = "notify" /\ queue' = Append(Tail(queue), b)
    BY <1>7 DEF StartInitialization, Notify, Blocks, Outcomes
  <2>3. \A i \in DOMAIN Tail(queue) :
          i + 1 \in DOMAIN queue /\ Tail(queue)[i] = queue[i + 1]
    BY <1>1, <2>1, TailFrom
  <2>4. \A i \in DOMAIN queue' : queue'[i].do = "process" =>
          \E j \in DOMAIN queue : queue[j].do = "process"
    <3>1. ASSUME NEW b \in Blocks, b.do = "notify",
                 queue' = Append(Tail(queue), b),
                 NEW i \in DOMAIN queue', queue'[i].do = "process"
          PROVE  \E j \in DOMAIN queue : queue[j].do = "process"
      <4>1. i \in DOMAIN Tail(queue) /\ queue'[i] = Tail(queue)[i]
        BY <2>1, <3>1, AppendedFrom
      <4> QED BY <2>3, <3>1, <4>1
    <3> QED BY <2>2, <2>3, <3>1
  <2>5. UNCHANGED wait
    BY <1>7 DEF StartInitialization
  <2>6. \/ UNCHANGED <<sdkState, work>>
        \/ sdkState' = "inProcess" /\ work' = "running"
    BY <1>7 DEF StartInitialization
  <2> QED BY <1>1, <2>4, <2>5, <2>6
<1>8. CASE flow = "swift" /\ ProcessResult
  <2>1. 1 \in DOMAIN queue /\ queue[1].do = "process"
    BY <1>1, <1>8, RunningHead DEF ProcessResult
  <2> QED BY <1>1, <1>8, <2>1 DEF ProcessResult
<1>9. CASE Complete
  <2>1. queue # <<>> /\ queue' = Tail(queue)
    BY <1>9 DEF Complete, Running
  <2>2. \A i \in DOMAIN queue' :
          i + 1 \in DOMAIN queue /\ queue'[i] = queue[i + 1]
    BY <1>1, <2>1, TailFrom
  <2> QED BY <1>1, <1>9, <2>2 DEF Complete
<1>10. CASE TaskEnds
  BY <1>1, <1>10 DEF TaskEnds
<1>11. CASE flow = "swift" /\ (Recover \/ FallThrough)
  BY <1>1, <1>11 DEF Recover, FallThrough
<1>12. \/ flow = "legacy"
       \/ flow = "swift" /\ UNCHANGED <<work, sdkState, wait, queue>>
       \/ \E c \in Calls : EnterSwift(c)
       \/ flow = "swift" /\ (NotifySaved \/ ProcessResult \/ Recover
                              \/ FallThrough)
       \/ StartInitialization \/ Complete \/ TaskEnds
  BY DEF IInv, TypeOK, Next, EnterLegacy, Caller, ReadSuccess, ReadFailure,
         At, ReadInitializing, StartWithout, StartLegacy, MainStep, SetState,
         TellDelegates, QueueStep, WorkStep, ChainEnds, OperationEnds, vars,
         swiftVars
<1> QED BY <1>2, <1>3, <1>5, <1>6, <1>7, <1>8, <1>9, <1>10, <1>11, <1>12

-----------------------------------------------------------------------------
(***************************************************************************)
(* What the delegates hear and how often.                                  *)
(***************************************************************************)
\* A call does not become idle again, and one that is over stays so; neither
\* its kind nor the flow changes.
LEMMA CallsGoOn ==
  ASSUME TypeOK, [Next]_vars
  PROVE  /\ \A c \in Calls : /\ pc'[c] = "idle" => pc[c] = "idle"
                             /\ pc[c] = "done" => pc'[c] = "done"
         /\ UNCHANGED <<flow, kind>>
<1>1. \A c \in Calls : /\ pc'[c] = "idle" => pc[c] = "idle"
                       /\ pc[c] = "done" => pc'[c] = "done"
  BY LockSteps DEF TypeOK, GoTo, FreeSteps
<1>2. UNCHANGED <<flow, kind>>
  BY DEF Next, EnterLegacy, Caller, ReadSuccess, ReadFailure,
         ReadInitializing, StartWithout, StartLegacy, MainStep, SetState,
         TellDelegates, EnterSwift, QueueStep, StartInitialization,
         ProcessResult, Complete, WorkStep, ChainEnds, OperationEnds,
         TaskEnds, NotifySaved, Recover, FallThrough, vars
<1> QED BY <1>1, <1>2

LEMMA DelegatesStillWait == ASSUME IInv, [Next]_vars PROVE DelegatesWait'
<1> USE DEF DelegatesWait
<1>1. TypeOK /\ DelegatesWait
  BY DEF IInv
<1>2. \A d \in Calls : pc'[d] = "idle" => pc[d] = "idle"
  BY <1>1, CallsGoOn
<1>3. CASE UNCHANGED <<heard, delegates>>
  BY <1>1, <1>2, <1>3
<1>4. ASSUME NEW c \in Calls, pc[c] = "idle", pc'[c] # "idle",
             delegates' = delegates \cup {c}, UNCHANGED heard
      PROVE  DelegatesWait'
  BY <1>1, <1>2, <1>4
<1>5. ASSUME NEW c \in Calls, pc[c] = "idle", pc'[c] # "idle",
             heard' = [heard EXCEPT ![c] = Append(@, "invalid")],
             UNCHANGED delegates
      PROVE  DelegatesWait'
  BY <1>1, <1>2, <1>5 DEF TypeOK
<1>6. ASSUME NEW c \in Calls, StartWithout(c) PROVE DelegatesWait'
  <2>1. delegates' = {} /\ pc'[c] = "done"
    BY <1>1, <1>6 DEF StartWithout, GoTo, TypeOK
  <2>2. \A d \in Calls : d \notin delegates \cup {c} => heard'[d] = heard[d]
    BY <1>1, <1>6, StartWithoutSays
  <2> QED BY <1>1, <1>2, <2>1, <2>2
<1>7. ASSUME NEW w \in Outcomes, Tell(w) PROVE DelegatesWait'
  <2>1. /\ delegates' = {}
        /\ \A d \in Calls : d \notin delegates => heard'[d] = heard[d]
    BY <1>1, <1>7, TellAppends DEF Words
  <2> QED BY <1>1, <1>2, <2>1
<1> QED BY <1>1, <1>3, <1>4, <1>5, <1>6, <1>7, HeardSteps

LEMMA HeardStaysByStep == ASSUME IInv, [Next]_vars PROVE HeardByStep'
<1> DEFINE Most(c) == IF flow = "legacy" /\ kind[c] = "invalid" /\ pc[c] = "done"
                      THEN 2 ELSE 1
<1>1. /\ TypeOK /\ DelegatesWait
      /\ \A c \in Calls : Len(heard[c]) <= Most(c) /\ Len(heard[c]) \in Nat
  BY DEF IInv, HeardByStep, TypeOK
<1>2. \A c \in Calls : Most(c)' >= Most(c) /\ Most(c)' >= 1
  BY <1>1, CallsGoOn
<1>3. ASSUME NEW c \in Calls PROVE Len(heard'[c]) <= Most(c)'
  <2>1. CASE UNCHANGED heard
    BY <1>1, <1>2, <2>1
  <2>2. ASSUME NEW s \in Seq(Words), NEW w \in Words,
               s = <<>>, heard'[c] = Append(s, w)
        PROVE  Len(heard'[c]) <= Most(c)'
    <3>1. Len(heard'[c]) = 1
      BY <2>2, AppendElements
    <3> QED BY <1>2, <3>1
  <2>3. heard[c] \in Seq(Words) /\ "invalid" \in Words /\ Outcomes \subseteq Words
    BY <1>1 DEF TypeOK, Words
  <2>4. ASSUME NEW d \in Calls, pc[d] = "idle",
               heard' = [heard EXCEPT ![d] = Append(@, "invalid")]
        PROVE  Len(heard'[c]) <= Most(c)'
    <3>1. CASE c = d
      <4>1. heard[c] = <<>> /\ heard'[c] = Append(heard[c], "invalid")
        BY <1>1, <2>4, <3>1 DEF DelegatesWait, TypeOK
      <4> QED BY <2>2, <2>3, <4>1
    <3>2. CASE c # d
      <4>1. heard'[c] = heard[c]
        BY <1>1, <2>4, <3>2 DEF TypeOK
      <4> QED BY <1>1, <1>2, <4>1
    <3> QED BY <3>1, <3>2
  <2>5. ASSUME NEW d \in Calls, StartWithout(d)
        PROVE  Len(heard'[c]) <= Most(c)'
    <3>1. Len(heard'[c]) = Len(heard[c]) + Left(c \in delegates) + Left(c = d)
      BY <1>1, <2>5, StartWithoutSays
    <3>2. Len(heard[c]) + Left(c \in delegates) \in 0..Most(c)
      <4>1. CASE c \in delegates
        <5>1. Left(c \in delegates) = 1 /\ Len(heard[c]) = 0
          BY <1>1, <4>1 DEF Left, DelegatesWait
        <5> QED BY <5>1
      <4>2. CASE c \notin delegates
        <5>1. Left(c \in delegates) = 0
          BY <4>2 DEF Left
        <5>2. Len(heard[c]) \in 0..Most(c)
          BY <1>1
        <5> QED BY <5>1, <5>2
      <4> QED BY <4>1, <4>2
    <3>3. CASE c = d
      <4>1. Most(c) = 1 /\ Most(c)' = 2
        BY <1>1, <2>5, <3>3, CallsGoOn DEF StartWithout, At, GoTo, TypeOK
      <4>2. Left(c = d) = 1
        BY <3>3 DEF Left
      <4> QED BY <3>1, <3>2, <4>1, <4>2
    <3>4. CASE c # d
      <4>1. Left(c = d) = 0
        BY <3>4 DEF Left
      <4> QED BY <1>2, <3>1, <3>2, <4>1
    <3> QED BY <3>3, <3>4
  <2>6. ASSUME NEW w \in Outcomes, Tell(w) PROVE Len(heard'[c]) <= Most(c)'
    <3>1. heard'[c] = IF c \in delegates THEN Append(heard[c], w) ELSE heard[c]
      BY <1>1, <2>3, <2>6, TellAppends
    <3>2. CASE c \in delegates
      <4>1. heard[c] = <<>> /\ heard'[c] = Append(heard[c], w) /\ w \in Words
        BY <1>1, <2>3, <3>1, <3>2 DEF DelegatesWait
      <4> QED BY <2>2, <2>3, <4>1
    <3>3. CASE c \notin delegates
      BY <1>1, <1>2, <3>1, <3>3
    <3> QED BY <3>2, <3>3
  <2> QED BY <1>1, <2>1, <2>4, <2>5, <2>6, HeardSteps
<1> QED BY <1>3 DEF HeardByStep

(***************************************************************************)
(* How often the completions are called.                                   *)
(***************************************************************************)
LEMMA CompletionsStillWait ==
  ASSUME IInv, [Next]_vars PROVE CompletionsWait' /\ CompletedOnce'
<1> USE DEF CompletionsWait, CompletedOnce
<1>1. /\ TypeOK /\ CompletionsWait /\ CompletedOnce /\ StartIsAwaited
      /\ saved \in Seq(Calls)
      /\ \A c \in Calls : /\ pc[c] = "done" => pc'[c] = "done"
                          /\ completed[c] \in Seq(Outcomes)
  BY CallsGoOn DEF IInv, TypeOK
<1>2. CASE UNCHANGED <<saved, completed>>
  <2>1. \A i \in DOMAIN saved : saved[i] \in Calls
    BY <1>1
  <2> QED BY <1>1, <1>2, <2>1
<1>3. CASE StartInitialization
  <2> DEFINE c == Head(queue).call
  <2>1. /\ c \in Calls /\ pc[c] = "initializer" /\ saved' = Append(saved, c)
        /\ GoTo(c, "done") /\ UNCHANGED completed
    BY <1>1, <1>3, RunningHead DEF StartInitialization, StartIsAwaited
  <2> HIDE DEF c
  <2>2. completed[c] = <<>> /\ pc'[c] = "done"
    BY <1>1, <2>1 DEF GoTo, TypeOK
  <2>3. \A i \in DOMAIN saved' :
          \/ i \in DOMAIN saved /\ saved'[i] = saved[i] /\ saved[i] \in Calls
          \/ saved'[i] = c
    BY <1>1, <2>1, AppendedFrom
  <2> QED BY <1>1, <2>1, <2>2, <2>3
<1>4. CASE Complete
  <2>1. saved' = <<>> /\ UNCHANGED pc
    BY <1>4 DEF Complete
  <2>2. ASSUME NEW c \in Calls
        PROVE  /\ pc[c] # "done" => completed'[c] = <<>>
               /\ Len(completed'[c]) <= 1
    <3>1. CASE \E i \in DOMAIN saved : saved[i] = c
      <4>1. completed[c] = <<>> /\ pc[c] = "done"
        BY <1>1, <3>1
      <4>2. /\ Head(queue).result \in Outcomes
            /\ completed'[c] = Append(completed[c], Head(queue).result)
        BY <1>1, <1>4, <3>1, CompleteCalls
      <4>3. Len(completed'[c]) = 1
        BY <1>1, <4>1, <4>2, AppendElements
      <4> QED BY <4>1, <4>3
    <3>2. CASE ~ \E i \in DOMAIN saved : saved[i] = c
      <4>1. completed'[c] = completed[c]
        BY <1>1, <1>4, <3>2, CompleteCalls
      <4> QED BY <1>1, <4>1
    <3> QED BY <3>1, <3>2
  <2> QED BY <2>1, <2>2
<1>5. UNCHANGED <<saved, completed>> \/ StartInitialization \/ Complete
  BY DEF Next, EnterLegacy, Caller, ReadSuccess, ReadFailure,
         ReadInitializing, StartWithout, StartLegacy, MainStep, SetState,
         TellDelegates, EnterSwift, QueueStep, ProcessResult, WorkStep,
         ChainEnds, OperationEnds, TaskEnds, NotifySaved, Recover,
         FallThrough, vars, swiftVars
<1> QED BY <1>2, <1>3, <1>4, <1>5

-----------------------------------------------------------------------------
(***************************************************************************)
(* What the announcements are made from.                                   *)
(***************************************************************************)
\* A cause stays one.
LEMMA CausesGrow == ASSUME IInv, [Next]_vars PROVE Causes \subseteq Causes'
<1>1. TypeOK
  BY DEF IInv
<1>2. InvalidCalled => InvalidCalled'
  BY <1>1, CallsGoOn DEF InvalidCalled
<1>3. ended \subseteq ended' /\ (wait = "fallen" => wait' = "fallen")
  BY DEF Next, EnterLegacy, Caller, ReadSuccess, ReadFailure,
         ReadInitializing, StartWithout, StartLegacy, MainStep, SetState,
         TellDelegates, EnterSwift, QueueStep, StartInitialization,
         ProcessResult, Complete, WorkStep, ChainEnds, OperationEnds,
         TaskEnds, NotifySaved, Recover, FallThrough, vars, swiftVars
<1> QED BY <1>1, <1>2, <1>3, CallsGoOn DEF Causes

\* The end of the work is a cause, and so is a wait that falls through.
LEMMA EndsAreCauses ==
  ASSUME IInv, [Next]_vars, ChainEnds \/ TaskEnds \/ FallThrough,
         NEW o \in Outcomes, main' = Append(main, o)
  PROVE  o \in Causes'
<1>1. main \in Seq(Outcomes)
  BY DEF IInv, TypeOK
<1>2. CASE ChainEnds \/ TaskEnds
  <2>1. o \in ended'
    <3>1. PICK p \in Outcomes :
            \/ main' = Append(main, p) /\ p \in ended'
            \/ UNCHANGED main
      BY <1>2 DEF ChainEnds, TaskEnds
    <3>2. main'[Len(main) + 1] = o /\ main' # main
      BY <1>1, AppendElements
    <3>3. p = o
      BY <1>1, <3>1, <3>2, AppendElements
    <3> QED BY <3>1, <3>2, <3>3
  <2> QED BY <2>1 DEF Causes
<1>3. CASE FallThrough
  <2>1. main' = Append(main, "failed") /\ "failed" \in Outcomes
    BY <1>3 DEF FallThrough, Outcomes
  <2>2. o = "failed"
    <3>1. main'[Len(main) + 1] = o
      BY <1>1, AppendElements
    <3>2. main'[Len(main) + 1] = "failed"
      BY <1>1, <2>1, AppendElements
    <3> QED BY <3>1, <3>2
  <2>3. flow' = "swift" /\ wait' = "fallen"
    BY <1>3 DEF FallThrough, IInv, TypeOK, FlowsAreApart
  <2> QED BY <2>2, <2>3 DEF Causes
<1> QED BY <1>2, <1>3

LEMMA MainHasCauses ==
  ASSUME IInv, [Next]_vars PROVE \A i \in DOMAIN main' : main'[i] \in Causes'
<1>1. /\ TypeOK /\ main \in Seq(Outcomes) /\ queue \in Seq(Blocks)
      /\ \A i \in DOMAIN main : main[i] \in Causes'
  BY CausesGrow DEF IInv, TypeOK, AnnouncementsHaveCauses
<1>2. CASE UNCHANGED main
  BY <1>1, <1>2
<1>3. CASE main # <<>> /\ main' = Tail(main)
  BY <1>1, <1>3, TailFrom
<1>4. ASSUME ChainEnds \/ TaskEnds \/ FallThrough,
             NEW o \in Outcomes, main' = Append(main, o)
      PROVE  \A i \in DOMAIN main' : main'[i] \in Causes'
  <2>1. o \in Causes'
    BY <1>4, EndsAreCauses
  <2> QED BY <1>1, <1>4, <2>1, AppendedFrom
<1>5. CASE Complete
  <2>1. CASE Head(queue).result = "failed"
    <3>1. main' = main \o Failures(Len(saved)) /\ Len(saved) \in Nat
      <4>1. main' = main \o [i \in 1..Len(saved) |-> "failed"]
        BY <1>5, <2>1 DEF Complete
      <4>2. Len(saved) \in Nat
        BY <1>1 DEF TypeOK
      <4> QED BY <4>1, <4>2 DEF Failures
    <3>2. "failed" \in Causes'
      BY <1>1, <1>5, <2>1, CausesGrow, RunningHead
         DEF Complete, IInv, AnnouncementsHaveCauses
    <3>3. /\ Failures(Len(saved)) \in Seq(Outcomes)
          /\ \A i \in DOMAIN Failures(Len(saved)) :
               Failures(Len(saved))[i] = "failed"
      BY <3>1, FailuresAreOutcomes
    <3>4. ASSUME NEW i \in DOMAIN main' PROVE main'[i] \in Causes'
      <4>1. CASE i <= Len(main)
        <5>1. main'[i] = main[i] /\ i \in DOMAIN main
          BY <1>1, <3>1, <3>3, <4>1, ConcatElements
        <5> QED BY <1>1, <5>1
      <4>2. CASE ~(i <= Len(main))
        <5>1. /\ main'[i] = Failures(Len(saved))[i - Len(main)]
              /\ i - Len(main) \in DOMAIN Failures(Len(saved))
          BY <1>1, <3>1, <3>3, <4>2, ConcatElements
        <5> QED BY <3>2, <3>3, <5>1
      <4> QED BY <4>1, <4>2
    <3> QED BY <3>4
  <2>2. CASE Head(queue).result # "failed"
    <3>1. main' = main \o Failures(0)
      BY <1>5, <2>2 DEF Complete, Failures
    <3>2. Failures(0) \in Seq(Outcomes) /\ Len(Failures(0)) = 0
      BY FailuresAreOutcomes
    <3>3. \A i \in DOMAIN main' : i \in DOMAIN main /\ main'[i] = main[i]
      BY <1>1, <3>1, <3>2, ConcatElements
    <3> QED BY <1>1, <3>3
  <2> QED BY <2>1, <2>2
<1> QED BY <1>1, <1>2, <1>3, <1>4, <1>5, MainSteps

\* The queue may take a block that starts or has its cause, and lose its head.
LEMMA QueueHasCauses ==
  ASSUME IInv, [Next]_vars
  PROVE  \A i \in DOMAIN queue' :
           queue'[i].do # "start" => queue'[i].result \in Causes'
<1>0. PICK Caused : Caused =
        {b \in Blocks : b.do # "start" => b.result \in Causes'}
  OBVIOUS
<1> SUFFICES queue' \in Seq(Caused)
  BY <1>0
<1>1. TypeOK /\ AnnouncementsHaveCauses
  BY DEF IInv
<1>2. queue \in Seq(Caused)
  <2>1. /\ queue \in Seq(Blocks)
        /\ \A i \in DOMAIN queue :
             queue[i].do # "start" => queue[i].result \in Causes'
    BY <1>1, CausesGrow DEF TypeOK, AnnouncementsHaveCauses
  <2> QED BY <1>0, <2>1
<1>3. /\ \A c \in Calls : [do |-> "start", call |-> c] \in Caused
      /\ \A do \in {"process", "notify"}, r \in Outcomes \cap Causes' :
           [do |-> do, result |-> r] \in Caused
  BY <1>0 DEF Blocks
<1>4. ASSUME NEW c \in Calls, EnterSwift(c) PROVE queue' \in Seq(Caused)
  <2>1. queue' = Append(queue, [do |-> "start", call |-> c])
    BY <1>4 DEF EnterSwift
  <2> QED BY <1>2, <1>3, <2>1, AppendElements
<1>5. CASE StartInitialization
  <2> DEFINE c == Head(queue).call
  <2>1. queue # <<>> /\ c \in Calls /\ pc[c] = "initializer"
    BY <1>1, <1>5, RunningHead
       DEF StartInitialization, IInv, StartIsAwaited
  <2>2. CASE queue' = Tail(queue)
    BY <1>2, <2>1, <2>2, TailElements
  <2>3. ASSUME NEW r \in Outcomes, Notify(r), r \in Causes'
        PROVE  queue' \in Seq(Caused)
    <3>1. [do |-> "notify", result |-> r] \in Caused
      BY <1>3, <2>3
    <3>2. Tail(queue) \in Seq(Caused)
      BY <1>2, <2>1, TailElements
    <3> QED BY <2>3, <3>1, <3>2, AppendElements DEF Notify
  <2>4. CASE kind[c] = "invalid"
    <3>1. flow = "swift" /\ InvalidCalled
      BY <1>1, <2>1, <2>4 DEF IInv, TypeOK, FlowsAreApart, InvalidCalled
    <3>2. "failed" \in Causes' /\ "failed" \in Outcomes
      BY <3>1, CausesGrow DEF Causes, Outcomes
    <3>3. Notify("failed")
      BY <1>5, <2>4 DEF StartInitialization
    <3> QED BY <2>3, <3>2, <3>3
  <2>5. CASE kind[c] # "invalid" /\ sdkState = "failed"
    <3>1. "failed" \in Causes' /\ "failed" \in Outcomes
      BY <1>1, <2>5, CausesGrow DEF AnnouncementsHaveCauses, Outcomes
    <3>2. Notify("failed")
      BY <1>5, <2>5 DEF StartInitialization
    <3> QED BY <2>3, <3>1, <3>2
  <2>6. CASE kind[c] # "invalid" /\ sdkState = "initialized"
    <3>1. "complete" \in Causes' /\ "complete" \in Outcomes
      BY <1>1, <2>6, CausesGrow DEF AnnouncementsHaveCauses, Outcomes
    <3>2. Notify("complete")
      BY <1>5, <2>6 DEF StartInitialization
    <3> QED BY <2>3, <3>1, <3>2
  <2>7. CASE kind[c] # "invalid" /\ sdkState \notin {"failed", "initialized"}
    BY <1>5, <2>2, <2>7 DEF StartInitialization
  <2> QED BY <2>4, <2>5, <2>6, <2>7
<1>6. CASE ProcessResult \/ Complete
  BY <1>2, <1>6, TailElements DEF ProcessResult, Complete, Running
<1>7. CASE NotifySaved
  <2>1. Head(returned) \in Outcomes /\ Head(returned) \in Causes'
    BY <1>1, <1>7, TailElements, CausesGrow
       DEF NotifySaved, TypeOK, AnnouncementsHaveCauses
  <2>2. [do |-> "notify", result |-> Head(returned)] \in Caused
    BY <1>3, <2>1
  <2> QED BY <1>2, <1>7, <2>2, AppendElements DEF NotifySaved
<1>8. CASE TaskEnds \/ FallThrough
  <2>1. UNCHANGED queue \/ \E r \in Outcomes : Result(r) /\ r \in Causes'
    <3>1. CASE TaskEnds
      BY <3>1 DEF TaskEnds, Causes
    <3>2. CASE FallThrough
      BY <1>1, <3>2
         DEF FallThrough, Causes, Outcomes, IInv, TypeOK, FlowsAreApart
    <3> QED BY <1>8, <3>1, <3>2
  <2>2. ASSUME NEW r \in Outcomes, Result(r), r \in Causes'
        PROVE  queue' \in Seq(Caused)
    <3>1. [do |-> "process", result |-> r] \in Caused
      BY <1>3, <2>2
    <3> QED BY <1>2, <2>2, <3>1, AppendElements DEF Result
  <2> QED BY <1>2, <2>1, <2>2
<1>9. \/ UNCHANGED queue
      \/ \E c \in Calls : EnterSwift(c)
      \/ StartInitialization \/ ProcessResult \/ Complete \/ NotifySaved
      \/ TaskEnds \/ FallThrough
  BY DEF Next, EnterLegacy, Caller, ReadSuccess, ReadFailure,
         ReadInitializing, StartWithout, StartLegacy, MainStep, SetState,
         TellDelegates, QueueStep, WorkStep, ChainEnds, OperationEnds,
         Recover, vars, swiftVars
<1> QED BY <1>2, <1>4, <1>5, <1>6, <1>7, <1>8, <1>9

LEMMA AnnouncementsKeepCauses ==
  ASSUME IInv, [Next]_vars PROVE AnnouncementsHaveCauses'
<1>1. TypeOK /\ AnnouncementsHaveCauses
  BY DEF IInv
<1>2. telling' # "nothing" => telling' \in Causes'
  <2>1. CASE SetState
    <3>1. Head(main) \in Causes'
      BY <1>1, <2>1, TailElements, CausesGrow
         DEF SetState, TypeOK, AnnouncementsHaveCauses
    <3> QED BY <2>1, <3>1 DEF SetState
  <2>2. CASE TellDelegates
    BY <2>2 DEF TellDelegates
  <2>3. CASE UNCHANGED telling
    BY <1>1, <2>3, CausesGrow DEF AnnouncementsHaveCauses
  <2>4. UNCHANGED telling \/ SetState \/ TellDelegates
    BY DEF Next, EnterLegacy, Caller, ReadSuccess, ReadFailure,
           ReadInitializing, StartWithout, StartLegacy, MainStep, EnterSwift,
           QueueStep, StartInitialization, ProcessResult, Complete, WorkStep,
           ChainEnds, OperationEnds, TaskEnds, NotifySaved, Recover,
           FallThrough, vars, mainVars
  <2> QED BY <2>1, <2>2, <2>3, <2>4
<1>3. /\ \A i \in DOMAIN returned' : returned'[i] \in Causes'
      /\ sdkState' = "failed" => "failed" \in Causes'
      /\ sdkState' = "initialized" => "complete" \in Causes'
  <2>1. /\ returned \in Seq(Outcomes)
        /\ \A i \in DOMAIN returned : returned[i] \in Causes'
        /\ sdkState = "failed" => "failed" \in Causes'
        /\ sdkState = "initialized" => "complete" \in Causes'
    BY <1>1, CausesGrow DEF AnnouncementsHaveCauses, TypeOK
  <2>2. CASE ProcessResult
    <3> DEFINE r == Head(queue).result
    <3>1. r \in Outcomes /\ r \in Causes'
      BY <1>1, <2>2, RunningHead, CausesGrow
         DEF ProcessResult, AnnouncementsHaveCauses
    <3>2. /\ returned' = Append(returned, r)
          /\ sdkState' = IF r = "complete" THEN "initialized" ELSE "failed"
      BY <2>2 DEF ProcessResult
    <3> HIDE DEF r
    <3>3. \A i \in DOMAIN returned' : returned'[i] \in Causes'
      BY <2>1, <3>1, <3>2, AppendedFrom
    <3> QED BY <3>1, <3>2, <3>3 DEF Outcomes
  <2>3. CASE NotifySaved
    <3>1. \A i \in DOMAIN returned' : returned'[i] \in Causes'
      BY <2>1, <2>3, TailFrom DEF NotifySaved
    <3> QED BY <2>1, <2>3, <3>1 DEF NotifySaved
  <2>4. CASE StartInitialization
    BY <2>1, <2>4 DEF StartInitialization
  <2>5. CASE UNCHANGED <<returned, sdkState>>
    BY <2>1, <2>5
  <2>6. \/ UNCHANGED <<returned, sdkState>>
        \/ ProcessResult \/ NotifySaved \/ StartInitialization
    BY DEF Next, EnterLegacy, Caller, ReadSuccess, ReadFailure,
           ReadInitializing, StartWithout, StartLegacy, MainStep, SetState,
           TellDelegates, EnterSwift, QueueStep, Complete, WorkStep,
           ChainEnds, OperationEnds, TaskEnds, Recover, FallThrough, vars,
           swiftVars
  <2> QED BY <2>2, <2>3, <2>4, <2>5, <2>6
<1> QED BY <1>2, <1>3, MainHasCauses, QueueHasCauses
        DEF AnnouncementsHaveCauses

\* A word that is told has its cause.
LEMMA SaidHasCause ==
  ASSUME IInv, NEW w \in Outcomes, IsSaid(w) PROVE w \in Causes
<1>1. CASE telling = w
  BY <1>1 DEF IInv, AnnouncementsHaveCauses, Outcomes
<1>2. ASSUME flow = "legacy", state = StateOf(w),
             NEW c \in Calls, pc[c] \notin FreeSteps
      PROVE  w \in ended
  BY <1>2 DEF IInv, ParametersFit, IsFree, FreeSteps, StateOf, Outcomes
<1> QED BY <1>1, <1>2 DEF IsSaid, Causes

LEMMA HeardStillHappened ==
  ASSUME IInv, [Next]_vars PROVE HeardWhatHappened'
<1>0. PICK Happened : Happened = {"invalid"} \cup (Causes' \cap Outcomes)
  OBVIOUS
<1>1. /\ TypeOK /\ Causes \subseteq Causes' /\ Happened \subseteq Words
      /\ "invalid" \in Happened
  BY <1>0, CausesGrow DEF IInv, Words
<1>2. \A c \in Calls : heard[c] \in Seq(Happened)
  <2>1. \A c \in Calls : heard[c] \in Seq(Words)
    BY <1>1 DEF TypeOK, Words
  <2>2. \A c \in Calls : \A i \in DOMAIN heard[c] :
          heard[c][i] = "invalid" \/ heard[c][i] \in Causes
    BY DEF IInv, HeardWhatHappened, Causes
  <2>3. \A c \in Calls : \A i \in DOMAIN heard[c] : heard[c][i] \in Happened
    BY <1>0, <1>1, <2>1, <2>2 DEF Words
  <2> QED BY <2>1, <2>3
<1>3. ASSUME NEW c \in Calls PROVE heard'[c] \in Seq(Happened)
  <2>1. CASE UNCHANGED heard
    BY <1>2, <2>1
  <2>2. ASSUME NEW d \in Calls,
               heard' = [heard EXCEPT ![d] = Append(@, "invalid")]
        PROVE  heard'[c] \in Seq(Happened)
    BY <1>1, <1>2, <2>2, AppendElements DEF TypeOK
  <2>3. ASSUME NEW d \in Calls, StartWithout(d)
        PROVE  heard'[c] \in Seq(Happened)
    <3>1. heard'[c] \in Seq(Words)
      BY <1>1, <2>3, StartWithoutSays
    <3>2. \A i \in DOMAIN heard'[c] : heard'[c][i] \in Happened
      BY <1>1, <1>2, <2>3, StartWithoutSays
    <3> QED BY <3>1, <3>2
  <2>4. ASSUME NEW w \in Outcomes, Tell(w), IsSaid(w)
        PROVE  heard'[c] \in Seq(Happened)
    <3>1. w \in Happened /\ w \in Words
      BY <1>0, <1>1, <2>4, SaidHasCause DEF Words
    <3>2. heard'[c] = IF c \in delegates THEN Append(heard[c], w) ELSE heard[c]
      BY <1>1, <2>4, <3>1, TellAppends
    <3> QED BY <1>2, <3>1, <3>2, AppendElements
  <2> QED BY <1>1, <2>1, <2>2, <2>3, <2>4, HeardSteps
<1>4. ASSUME NEW c \in Calls, NEW i \in DOMAIN heard'[c]
      PROVE  heard'[c][i] = "invalid" \/ heard'[c][i] \in Causes'
  BY <1>0, <1>3, <1>4
<1> QED BY <1>4 DEF HeardWhatHappened, Causes

(***************************************************************************)
(* What the legacy flow compares.                                          *)
(***************************************************************************)
LEMMA ParametersStillFit == ASSUME IInv, [Next]_vars PROVE ParametersFit'
<1>1. CASE flow = "swift"
  BY <1>1, CallsGoOn DEF IInv, ParametersFit
<1>2. CASE flow = "legacy"
  <2>1. TypeOK /\ OneCaller /\ ParametersFit /\ UNCHANGED <<flow, kind>>
    BY CallsGoOn DEF IInv
  <2>2. \A c \in Calls : kind[c] \in CallKinds
    BY <2>1, KindsAssumption DEF TypeOK
  <2>3. pc \in [Calls -> Steps]
    BY <2>1 DEF TypeOK
  <2> USE <1>2, <2>1, <2>3 DEF ParametersFit, FreeSteps, IsFree, GoTo
  <2>4. ASSUME NEW c \in Calls, EnterLegacy(c) PROVE ParametersFit'
    <3>1. UNCHANGED <<state, params, work, main, telling, ended>>
      BY <2>4 DEF EnterLegacy, mainVars
    <3>2. CASE Differs(c)
      BY <2>4, <3>1, <3>2 DEF EnterLegacy
    <3>3. CASE ~Differs(c)
      <4>1. state = "NOT_INITIALIZED" \/ params = kind[c]
        BY <3>3 DEF Differs
      <4>2. params = "none" => state = "NOT_INITIALIZED"
        BY <2>2, <4>1 DEF CallKinds
      <4>3. params # "none" => kind[c] = params
        BY <4>1
      <4>4. \A d \in Calls : pc'[d] \notin FreeSteps => d = c
        BY <2>4, <3>3 DEF EnterLegacy
      <4> QED BY <3>1, <4>2, <4>3, <4>4
    <3> QED BY <3>2, <3>3
  <2>5. ASSUME NEW c \in Calls,
               ReadSuccess(c) \/ ReadFailure(c) \/ ReadInitializing(c)
        PROVE  ParametersFit'
    <3>1. UNCHANGED <<state, params, work, main, telling, ended>>
      BY <2>5 DEF ReadSuccess, ReadFailure, ReadInitializing, mainVars
    <3>2. pc[c] \notin FreeSteps
      BY <2>5 DEF ReadSuccess, ReadFailure, ReadInitializing, At
    <3>3. \A d \in Calls : pc'[d] \notin FreeSteps => pc[d] \notin FreeSteps
      BY <2>5, <3>2 DEF ReadSuccess, ReadFailure, ReadInitializing
    <3> QED BY <3>1, <3>2, <3>3
  <2>6. ASSUME NEW c \in Calls, StartWithout(c) PROVE ParametersFit'
    <3>1. UNCHANGED <<params, work, main, telling, ended>>
          /\ state' = "INITIALIZED_FAILED"
      BY <2>6 DEF StartWithout, mainVars
    <3>2. params = "none"
      BY <2>6 DEF StartWithout, At
    <3>3. \A d \in Calls : pc'[d] \in FreeSteps
      BY <2>6 DEF StartWithout, At, OneCaller
    <3> QED BY <3>1, <3>2, <3>3
  <2>7. ASSUME NEW c \in Calls, StartLegacy(c) PROVE ParametersFit'
    <3>1. params' # "none" /\ params' # "invalid" /\ state' = "INITIALIZING"
      BY <2>2, <2>7 DEF StartLegacy, CallKinds
    <3>2. \A d \in Calls : pc'[d] \in FreeSteps
      BY <2>7 DEF StartLegacy, At, OneCaller
    <3> QED BY <3>1, <3>2
  <2>8. CASE ChainEnds \/ OperationEnds
    BY <2>8 DEF ChainEnds, OperationEnds, mainVars
  <2>9. CASE SetState
    <3>1. Head(main) \in Outcomes /\ Head(main) \in ended
      BY <2>9, TailElements
         DEF SetState, IInv, TypeOK, AnnouncementsHaveCauses, Causes
    <3> QED BY <2>9, <3>1 DEF SetState, StateOf, Outcomes
  <2>10. CASE TellDelegates
    BY <2>10 DEF TellDelegates
  <2>11. CASE UNCHANGED vars
    BY <2>11 DEF vars, mainVars
  <2>12. \/ UNCHANGED vars \/ ChainEnds \/ OperationEnds
         \/ SetState \/ TellDelegates
         \/ \E c \in Calls :
              \/ EnterLegacy(c) \/ ReadSuccess(c) \/ ReadFailure(c)
              \/ ReadInitializing(c) \/ StartWithout(c) \/ StartLegacy(c)
    BY DEF IInv, FlowsAreApart, Next, Caller, MainStep, EnterSwift,
           QueueStep, StartInitialization, Running, ProcessResult, Complete,
           WorkStep, TaskEnds, NotifySaved, Recover, FallThrough
  <2> QED BY <2>4, <2>5, <2>6, <2>7, <2>8, <2>9, <2>10, <2>11, <2>12
<1> QED BY <1>1, <1>2 DEF IInv, TypeOK

-----------------------------------------------------------------------------
(***************************************************************************)
(* How many announcements there can be.                                    *)
(***************************************************************************)
LEMMA LeftIsCount ==
  ASSUME NEW b \in BOOLEAN
  PROVE  (b => Left(b) = 1) /\ (~b => Left(b) = 0) /\ Left(b) \in {0, 1}
BY DEF Left

\* No call becomes pending, and one that gets over it is no longer so.
LEMMA PendingShrinks ==
  ASSUME TypeOK, [Next]_vars
  PROVE  /\ Cardinality(Pending) \in Nat /\ Cardinality(Pending') \in Nat
         /\ Cardinality(Pending') <= Cardinality(Pending)
         /\ \A c \in Calls : pc[c] # "done" /\ GoTo(c, "done") =>
              Cardinality(Pending') = Cardinality(Pending) - 1
<1>1. IsFiniteSet(Pending)
  <2>1. Pending \in SUBSET Calls
    BY DEF Pending
  <2> QED BY <2>1, CallsAssumption, FS_Subset
<1>2. Pending' \in SUBSET Pending
  BY CallsGoOn DEF Pending
<1>3. /\ IsFiniteSet(Pending') /\ Cardinality(Pending') <= Cardinality(Pending)
  BY <1>1, <1>2, FS_Subset
<1>4. ASSUME NEW c \in Calls, pc[c] # "done", GoTo(c, "done")
      PROVE  Cardinality(Pending') = Cardinality(Pending) - 1
  <2>1. c \in Pending /\ Pending' = Pending \ {c}
    BY <1>4 DEF Pending, GoTo, TypeOK
  <2> QED BY <1>1, <2>1, FS_RemoveElement
<1> QED BY <1>1, <1>3, <1>4, FS_CardinalityType

LEMMA AnnouncementsStayBounded ==
  ASSUME IInv, [Next]_vars PROVE AnnouncementsAreBounded'
<1>1. /\ TypeOK /\ AnnouncementsAreBounded /\ UNCHANGED flow
      /\ main \in Seq(Outcomes) /\ saved \in Seq(Calls)
      /\ Len(main) \in Nat /\ Len(saved) \in Nat
      /\ main' \in Seq(Outcomes) /\ Len(main') \in Nat
  BY CallsGoOn, MainIsTyped DEF IInv, TypeOK
<1>2. Cardinality(Calls) \in Nat
  BY CallsAssumption, FS_CardinalityType
<1>3. /\ Cardinality(Pending) \in Nat /\ Cardinality(Pending') \in Nat
      /\ Cardinality(Pending') <= Cardinality(Pending)
  BY <1>1, PendingShrinks
<1>4. \A o \in Outcomes : main' = Append(main, o) => Len(main') = Len(main) + 1
  BY <1>1, AppendElements
<1>5. SetState => Len(main') = Len(main) - 1
  BY <1>1, TailElements DEF SetState
<1>6. CASE flow = "legacy"
  <2> DEFINE r == Left(work = "running")
  <2>1. r \in {0, 1} /\ Len(main) + r + Cardinality(Pending) <= Cardinality(Calls)
    BY <1>1, <1>6, LeftIsCount DEF AnnouncementsAreBounded
  <2>2. (work = "running" => r = 1) /\ (work # "running" => r = 0)
        /\ (work' = "running" => r' = 1) /\ (work' # "running" => r' = 0)
    BY LeftIsCount
  <2> HIDE DEF r
  <2> SUFFICES Len(main') + r' + Cardinality(Pending') <= Cardinality(Calls)
    BY <1>1, <1>6 DEF AnnouncementsAreBounded, r
  <2>3. ASSUME NEW c \in Calls, StartLegacy(c)
        PROVE  Len(main') + r' + Cardinality(Pending') <= Cardinality(Calls)
    <3>1. Cardinality(Pending') = Cardinality(Pending) - 1
      BY <1>1, <2>3, PendingShrinks DEF StartLegacy, At
    <3>2. UNCHANGED main /\ (work = "running" => work' = "running")
      BY <2>3 DEF StartLegacy, mainVars
    <3>3. r' <= r + 1 /\ r' \in {0, 1}
      BY <2>1, <2>2
    <3> QED BY <1>1, <1>2, <1>3, <2>1, <3>1, <3>2, <3>3
  <2>4. CASE ChainEnds
    <3>1. Len(main') = Len(main) + 1
      BY <1>4, <2>4 DEF ChainEnds
    <3>2. r = 1 /\ r' = 0
      BY <2>2, <2>4 DEF ChainEnds
    <3> QED BY <1>1, <1>2, <1>3, <2>1, <3>1, <3>2
  <2>5. CASE SetState
    <3>1. r' = r
      BY <2>2, <2>5 DEF SetState, r
    <3> QED BY <1>1, <1>2, <1>3, <1>5, <2>1, <2>5, <3>1
  <2>6. CASE UNCHANGED main /\ (UNCHANGED work \/ work' = "idle")
    <3>1. r' = r \/ r' = 0
      BY <2>2, <2>6 DEF r
    <3> QED BY <1>1, <1>2, <1>3, <2>1, <2>6, <3>1
  <2>7. \/ UNCHANGED main /\ (UNCHANGED work \/ work' = "idle")
        \/ ChainEnds \/ SetState \/ \E c \in Calls : StartLegacy(c)
    BY <1>6 DEF IInv, FlowsAreApart, Next, EnterLegacy, Caller, ReadSuccess,
           ReadFailure, ReadInitializing, StartWithout, MainStep,
           TellDelegates, EnterSwift, QueueStep, StartInitialization,
           Running, ProcessResult, Complete, WorkStep, OperationEnds,
           TaskEnds, NotifySaved, Recover, FallThrough, vars, mainVars
  <2> QED BY <2>3, <2>4, <2>5, <2>6, <2>7
<1>7. CASE flow = "swift"
  <2> DEFINE w == Left(work # "over")
             f == Left(wait # "fallen")
             bound == Len(main) + Len(saved) + Cardinality(Pending) + w + f
                        <= 2 + Cardinality(Calls)
  <2>1. bound /\ w \in {0, 1} /\ f \in {0, 1}
    BY <1>1, <1>7, LeftIsCount DEF AnnouncementsAreBounded
  <2>2. /\ (work # "over" => w = 1) /\ (work = "over" => w = 0)
        /\ (work' # "over" => w' = 1) /\ (work' = "over" => w' = 0)
        /\ (wait # "fallen" => f = 1) /\ (wait = "fallen" => f = 0)
        /\ (wait' # "fallen" => f' = 1) /\ (wait' = "fallen" => f' = 0)
    BY LeftIsCount
  <2> HIDE DEF w, f
  <2> SUFFICES bound'
    BY <1>1, <1>7 DEF AnnouncementsAreBounded, w, f
  <2>3. CASE StartInitialization
    <3> DEFINE c == Head(queue).call
    <3>1. /\ c \in Calls /\ pc[c] # "done" /\ GoTo(c, "done")
          /\ saved' = Append(saved, c)
      BY <1>1, <2>3, RunningHead
         DEF StartInitialization, IInv, StartIsAwaited
    <3> HIDE DEF c
    <3>2. Cardinality(Pending') = Cardinality(Pending) - 1
      BY <1>1, <3>1, PendingShrinks
    <3>3. Len(saved') = Len(saved) + 1
      BY <1>1, <3>1, AppendElements
    <3>4. UNCHANGED <<main, wait>> /\ (work = "over" => work' = "over")
      BY <1>7, <2>3
         DEF StartInitialization, mainVars, IInv, WorkIsStartedOnce
    <3>5. w' <= w /\ f' = f /\ w' \in {0, 1}
      BY <2>1, <2>2, <3>4
    <3>6. Len(main') = Len(main)
      BY <3>4
    <3>7. Cardinality(Pending') + Len(saved') = Cardinality(Pending) + Len(saved)
      BY <1>1, <1>3, <3>2, <3>3
    <3> QED BY <1>1, <1>2, <1>3, <2>1, <3>3, <3>5, <3>6, <3>7
  <2>4. CASE Complete
    <3>1. \E n \in {0, Len(saved)} : Len(main') = Len(main) + n
      <4>1. PICK n \in {0, Len(saved)} : main' = main \o Failures(n)
        BY <2>4 DEF Complete, Failures
      <4>2. n \in Nat
        BY <1>1
      <4> QED BY <1>1, <4>1, <4>2, FailuresAreOutcomes, ConcatElements
    <3>2. Len(saved') = 0 /\ UNCHANGED <<work, wait>>
      BY <2>4 DEF Complete
    <3>3. w' = w /\ f' = f
      BY <2>2, <3>2
    <3> QED BY <1>1, <1>2, <1>3, <2>1, <3>1, <3>2, <3>3
  <2>5. CASE TaskEnds
    <3>1. Len(main') <= Len(main) + 1
      BY <1>1, <1>4, <2>5 DEF TaskEnds
    <3>2. w = 1 /\ w' = 0 /\ f' = f /\ UNCHANGED saved
      BY <2>2, <2>5 DEF TaskEnds
    <3> QED BY <1>1, <1>2, <1>3, <2>1, <3>1, <3>2
  <2>6. CASE FallThrough
    <3>1. Len(main') = Len(main) + 1
      BY <1>4, <2>6 DEF FallThrough, Outcomes
    <3>2. f = 1 /\ f' = 0 /\ w' = w /\ UNCHANGED saved
      BY <2>2, <2>6 DEF FallThrough
    <3> QED BY <1>1, <1>2, <1>3, <2>1, <3>1, <3>2
  <2>7. CASE SetState
    <3>1. w' = w /\ f' = f /\ UNCHANGED saved
      BY <2>2, <2>7 DEF SetState, swiftVars
    <3> QED BY <1>1, <1>2, <1>3, <1>5, <2>1, <2>7, <3>1
  <2>8. CASE /\ UNCHANGED <<main, saved, work>>
             /\ UNCHANGED wait \/ (wait = "none" /\ wait' = "recovered")
    <3>1. w' = w /\ f' = f
      BY <2>2, <2>8
    <3> QED BY <1>1, <1>2, <1>3, <2>1, <2>8, <3>1
  <2>9. \/ /\ UNCHANGED <<main, saved, work>>
           /\ UNCHANGED wait \/ (wait = "none" /\ wait' = "recovered")
        \/ StartInitialization \/ Complete \/ TaskEnds \/ FallThrough
        \/ SetState
    <3>1. \A c \in Calls : ~EnterLegacy(c) /\ ~Caller(c)
      BY <1>7 DEF EnterLegacy, At, Caller, ReadSuccess, ReadFailure,
             ReadInitializing, StartWithout, StartLegacy
    <3>2. ~ChainEnds /\ ~OperationEnds
      BY <1>7 DEF ChainEnds, OperationEnds
    <3>3. ASSUME \/ TellDelegates \/ (\E c \in Calls : EnterSwift(c))
                 \/ ProcessResult \/ NotifySaved \/ Recover
                 \/ UNCHANGED vars
          PROVE  /\ UNCHANGED <<main, saved, work>>
                 /\ UNCHANGED wait \/ (wait = "none" /\ wait' = "recovered")
      <4>1. CASE TellDelegates
        BY <4>1 DEF TellDelegates, swiftVars
      <4>2. ASSUME NEW c \in Calls, EnterSwift(c)
            PROVE  UNCHANGED <<main, saved, work, wait>>
        BY <4>2 DEF EnterSwift, mainVars
      <4>3. CASE ProcessResult
        BY <4>3 DEF ProcessResult, mainVars
      <4>4. CASE NotifySaved
        BY <4>4 DEF NotifySaved, mainVars
      <4>5. CASE Recover
        BY <4>5 DEF Recover, mainVars
      <4>6. CASE UNCHANGED vars
        BY <4>6 DEF vars, mainVars, swiftVars
      <4> QED BY <3>3, <4>1, <4>2, <4>3, <4>4, <4>5, <4>6
    <3> QED BY <3>1, <3>2, <3>3 DEF Next, MainStep, QueueStep, WorkStep
  <2> QED BY <2>3, <2>4, <2>5, <2>6, <2>7, <2>8, <2>9
<1> QED BY <1>1, <1>6, <1>7 DEF TypeOK

-----------------------------------------------------------------------------
(***************************************************************************)
(* What an undisturbed initialization says of its end.                     *)
(***************************************************************************)
\* What disturbs an initialization has disturbed it for good.
LEMMA WasUndisturbed ==
  ASSUME IInv, [Next]_vars, Undisturbed' PROVE Undisturbed
<1>1. InvalidCalled => InvalidCalled'
  BY CallsGoOn DEF InvalidCalled, IInv
<1>2. wait = "fallen" => wait' = "fallen"
  BY DEF Next, EnterLegacy, Caller, ReadSuccess, ReadFailure,
         ReadInitializing, StartWithout, StartLegacy, MainStep, SetState,
         TellDelegates, EnterSwift, QueueStep, StartInitialization,
         ProcessResult, Complete, WorkStep, ChainEnds, OperationEnds,
         TaskEnds, NotifySaved, Recover, FallThrough, vars, swiftVars
<1> QED BY <1>1, <1>2, CallsGoOn DEF Undisturbed, IInv

\* The steps that it can take.
LEMMA UndisturbedSteps ==
  ASSUME IInv, [Next]_vars, Undisturbed'
  PROVE  \/ UNCHANGED vars \/ SetState \/ TellDelegates
         \/ \E c \in Calls : EnterSwift(c)
         \/ StartInitialization \/ ProcessResult \/ Complete \/ NotifySaved
         \/ TaskEnds \/ Recover
<1>1. flow = "swift" /\ wait' # "fallen"
  BY WasUndisturbed DEF Undisturbed
<1>2. \A c \in Calls : ~EnterLegacy(c) /\ ~Caller(c)
  BY <1>1 DEF EnterLegacy, At, Caller, ReadSuccess, ReadFailure,
         ReadInitializing, StartWithout, StartLegacy
<1>3. ~ChainEnds /\ ~OperationEnds /\ ~FallThrough
  BY <1>1 DEF ChainEnds, OperationEnds, FallThrough
<1> QED BY <1>2, <1>3 DEF Next, MainStep, QueueStep, WorkStep

\* The call that starts it has an identifier.
LEMMA UndisturbedStart ==
  ASSUME IInv, Undisturbed, StartInitialization
  PROVE  /\ queue # <<>> /\ Head(queue).do = "start"
         /\ Head(queue).call \in Calls
         /\ kind[Head(queue).call] # "invalid"
         /\ saved' # <<>>
<1>1. /\ queue # <<>> /\ Head(queue).do = "start" /\ Head(queue).call \in Calls
      /\ pc[Head(queue).call] = "initializer"
  BY RunningHead DEF StartInitialization, IInv, StartIsAwaited
<1>2. saved' = Append(saved, Head(queue).call) /\ saved \in Seq(Calls)
  BY DEF StartInitialization, IInv, TypeOK
<1> QED BY <1>1, <1>2, AppendHasLast DEF Undisturbed, InvalidCalled

LEMMA OneOutcomeBefore ==
  ASSUME IInv, [Next]_vars, Undisturbed', work # "over" PROVE OneOutcome'
<1>1. TypeOK /\ NothingIsSaid /\ Undisturbed
  BY WasUndisturbed DEF IInv, OneOutcome
<1>2. \A i \in DOMAIN queue : queue[i].do = "start"
  BY <1>1 DEF NothingIsSaid, Starts
<1>3. CASE UNCHANGED vars \/ Recover
  <2>1. NothingIsSaid' /\ UNCHANGED work
    BY <1>1, <1>3 DEF NothingIsSaid, Starts, Blocks, vars, Recover, mainVars,
                      swiftVars
  <2> QED BY <2>1 DEF OneOutcome
<1>4. ASSUME NEW c \in Calls, EnterSwift(c) PROVE OneOutcome'
  <2>1. [do |-> "start", call |-> c] \in Starts
    BY DEF Starts, Blocks
  <2>2. queue' \in Seq(Starts)
    BY <1>1, <1>4, <2>1, AppendElements DEF EnterSwift, NothingIsSaid
  <2>3. UNCHANGED <<ended, main, telling, returned, state, work, sdkState,
                    saved>>
    BY <1>4 DEF EnterSwift, mainVars
  <2>4. NothingIsSaid'
    BY <1>1, <2>2, <2>3 DEF NothingIsSaid
  <2> QED BY <2>3, <2>4 DEF OneOutcome
<1>5. CASE StartInitialization
  <2>1. /\ queue # <<>> /\ kind[Head(queue).call] # "invalid"
        /\ saved' # <<>>
    BY <1>1, <1>5, UndisturbedStart
  <2>2. queue' = Tail(queue)
    BY <1>1, <1>5, <2>1 DEF StartInitialization, NothingIsSaid
  <2>3. queue' \in Seq(Starts)
    BY <1>1, <2>1, <2>2, TailElements DEF NothingIsSaid
  <2>4. work' = "running" /\ sdkState' = "inProcess"
    BY <1>1, <1>5, <2>1 DEF StartInitialization, NothingIsSaid, TypeOK
  <2>5. UNCHANGED <<ended, main, telling, returned, state>>
    BY <1>5 DEF StartInitialization, mainVars
  <2>6. NothingIsSaid'
    BY <1>1, <2>1, <2>3, <2>4, <2>5 DEF NothingIsSaid
  <2> QED BY <2>4, <2>6 DEF OneOutcome
<1>6. CASE TaskEnds
  <2>1. PICK o \in Outcomes :
          /\ ended' = ended \cup {o} /\ Result(o)
          /\ main' = Append(main, o) \/ UNCHANGED main
    BY <1>6 DEF TaskEnds
  <2>2. /\ work = "running" /\ work' = "over"
        /\ UNCHANGED <<state, telling, sdkState, saved, returned>>
    BY <1>6 DEF TaskEnds
  <2>3. /\ Saying(o) \subseteq Blocks /\ Starts \subseteq Saying(o)
        /\ [do |-> "process", result |-> o] \in Saying(o)
    BY DEF Saying, Starts, Blocks
  <2>4. queue \in Seq(Saying(o))
    BY <1>1, <2>3 DEF NothingIsSaid
  <2>5. queue' \in Seq(Saying(o)) /\ WillProcess'
    BY <2>1, <2>3, <2>4, AppendElements, AppendHasLast
       DEF Result, WillProcess
  <2>6. WillNotify'
    BY <2>5 DEF WillProcess, WillNotify
  <2>7. main' \in Seq({o}) /\ returned' \in Seq({o})
    <3>1. <<>> \in Seq({o}) /\ main = <<>> /\ returned = <<>>
      BY <1>1 DEF NothingIsSaid
    <3>2. Append(main, o) \in Seq({o})
      BY <3>1, AppendElements
    <3> QED BY <2>1, <2>2, <3>1, <3>2
  <2>8. AllSay(o)'
    BY <1>1, <2>1, <2>2, <2>5, <2>6, <2>7 DEF NothingIsSaid, AllSay
  <2> QED BY <2>2, <2>8 DEF OneOutcome
<1>7. ~SetState /\ ~TellDelegates /\ ~NotifySaved
  BY <1>1 DEF SetState, TellDelegates, NotifySaved, NothingIsSaid
<1>8. ~ProcessResult /\ ~Complete
  BY <1>1, <1>2, RunningHead DEF ProcessResult, Complete
<1> QED BY <1>3, <1>4, <1>5, <1>6, <1>7, <1>8, UndisturbedSteps

LEMMA OneOutcomeAfter ==
  ASSUME IInv, [Next]_vars, Undisturbed', work = "over" PROVE OneOutcome'
<1>1. TypeOK /\ Undisturbed
  BY WasUndisturbed DEF IInv
<1>2. PICK o \in Outcomes : AllSay(o)
  BY <1>1 DEF IInv, OneOutcome
<1>3. /\ ended = {o} /\ main \in Seq({o}) /\ returned \in Seq({o})
      /\ telling \in {"nothing", o} /\ queue \in Seq(Saying(o))
      /\ state \in {"NOT_INITIALIZED", StateOf(o)}
      /\ sdkState \in {"inProcess", SdkStateOf(o)}
      /\ sdkState = "inProcess" => WillProcess
      /\ state = "NOT_INITIALIZED" => saved # <<>> /\ WillNotify
  BY <1>2 DEF AllSay
<1>4. /\ Saying(o) \subseteq Blocks
      /\ \A c \in Calls : [do |-> "start", call |-> c] \in Saying(o)
      /\ [do |-> "notify", result |-> o] \in Saying(o)
  BY DEF Saying, Blocks
<1>5. /\ o = "complete" => StateOf(o) = "INITIALIZED_SUCCESSFULLY"
                             /\ SdkStateOf(o) = "initialized"
      /\ o = "failed" => StateOf(o) = "INITIALIZED_FAILED"
                           /\ SdkStateOf(o) = "failed"
      /\ o \in {"complete", "failed"}
  BY DEF StateOf, SdkStateOf, Outcomes
<1>6. SUFFICES work' = "over" /\ AllSay(o)'
  BY DEF OneOutcome
<1>7. CASE UNCHANGED vars
  BY <1>2, <1>7 DEF AllSay, WillProcess, WillNotify, vars, mainVars, swiftVars
<1>8. CASE SetState
  <2>1. main # <<>> /\ Head(main) = o /\ main' \in Seq({o})
    BY <1>3, <1>8, TailElements DEF SetState
  <2>2. telling' = o /\ state' = StateOf(o)
    BY <1>8, <2>1 DEF SetState
  <2>3. UNCHANGED <<work, ended, returned, queue, sdkState, saved>>
    BY <1>8 DEF SetState, swiftVars
  <2> QED BY <1>3, <1>5, <2>1, <2>2, <2>3 DEF AllSay, WillProcess
<1>9. CASE TellDelegates
  <2>1. /\ UNCHANGED <<work, ended, main, returned, queue, state, sdkState,
                       saved>>
        /\ telling' = "nothing"
    BY <1>9 DEF TellDelegates, swiftVars
  <2> QED BY <1>3, <2>1 DEF AllSay, WillProcess, WillNotify
<1>10. ASSUME NEW c \in Calls, EnterSwift(c) PROVE work' = "over" /\ AllSay(o)'
  <2>1. queue' = Append(queue, [do |-> "start", call |-> c])
    BY <1>10 DEF EnterSwift
  <2>2. /\ queue' \in Seq(Saying(o))
        /\ \A j \in DOMAIN queue :
             j \in DOMAIN queue' /\ queue'[j] = queue[j]
    BY <1>3, <1>4, <2>1, AppendElements, AppendHasLast
  <2>3. UNCHANGED <<work, ended, main, telling, returned, state, sdkState,
                    saved>>
    BY <1>10 DEF EnterSwift, mainVars
  <2>4. (WillProcess => WillProcess') /\ (WillNotify => WillNotify')
    BY <2>2, <2>3 DEF WillProcess, WillNotify
  <2> QED BY <1>3, <2>2, <2>3, <2>4 DEF AllSay
<1>11. CASE StartInitialization
  <2>1. /\ queue # <<>> /\ Head(queue).do = "start"
        /\ kind[Head(queue).call] # "invalid" /\ saved' # <<>>
    BY <1>1, <1>11, UndisturbedStart
  <2>2. /\ Tail(queue) \in Seq(Saying(o))
        /\ \A j \in DOMAIN queue : queue[j].do # "start" =>
             \E i \in DOMAIN Tail(queue) : Tail(queue)[i] = queue[j]
    BY <1>3, <2>1, TailElements, TailKeeps
  <2>3. \/ queue' = Tail(queue)
        \/ queue' = Append(Tail(queue), [do |-> "notify", result |-> o])
    BY <1>3, <1>5, <1>11, <2>1 DEF StartInitialization, Notify
  <2>4. /\ queue' \in Seq(Saying(o))
        /\ \A i \in DOMAIN Tail(queue) :
             i \in DOMAIN queue' /\ queue'[i] = Tail(queue)[i]
    <3>1. CASE queue' = Tail(queue)
      BY <2>2, <3>1
    <3>2. CASE queue' = Append(Tail(queue),
                               [do |-> "notify", result |-> o])
      <4>1. queue' \in Seq(Saying(o))
        BY <1>4, <2>2, <3>2, AppendElements
      <4>2. \A i \in DOMAIN Tail(queue) :
              i \in DOMAIN queue' /\ queue'[i] = Tail(queue)[i]
        BY <2>2, <3>2, AppendHasLast
      <4> QED BY <4>1, <4>2
    <3> QED BY <2>3, <3>1, <3>2
  <2>5. UNCHANGED <<ended, main, telling, returned, state>>
    BY <1>11 DEF StartInitialization, mainVars
  <2>6. UNCHANGED <<work, sdkState>>
    BY <1>3, <1>5, <1>11 DEF StartInitialization
  <2>7. (WillProcess => WillProcess') /\ (WillNotify => WillNotify')
    <3>1. \A j \in DOMAIN queue : queue[j].do # "start" =>
            \E i \in DOMAIN queue' : queue'[i] = queue[j]
      BY <2>2, <2>4
    <3> QED BY <2>5, <3>1 DEF WillProcess, WillNotify
  <2> QED BY <1>3, <2>1, <2>4, <2>5, <2>6, <2>7 DEF AllSay
<1>12. CASE ProcessResult
  <2>1. /\ queue # <<>> /\ Head(queue) \in Saying(o)
        /\ Head(queue).do = "process" /\ Tail(queue) \in Seq(Saying(o))
    BY <1>3, <1>12, TailElements DEF ProcessResult, Running
  <2>2. Head(queue).result = o
    BY <2>1 DEF Saying
  <2>3. /\ queue' = Tail(queue) /\ returned' = Append(returned, o)
        /\ sdkState' = SdkStateOf(o)
    BY <1>12, <2>2 DEF ProcessResult, SdkStateOf
  <2>4. returned' \in Seq({o}) /\ returned' # <<>>
    BY <1>3, <2>3, AppendElements, AppendHasLast
  <2>5. UNCHANGED <<work, ended, main, telling, state, saved>>
    BY <1>12 DEF ProcessResult, mainVars
  <2> QED BY <1>3, <1>5, <2>1, <2>3, <2>4, <2>5 DEF AllSay, WillNotify
<1>13. CASE NotifySaved
  <2>1. Head(returned) = o /\ returned' \in Seq({o})
    BY <1>3, <1>13, TailElements DEF NotifySaved
  <2>2. queue' = Append(queue, [do |-> "notify", result |-> o])
    BY <1>13, <2>1 DEF NotifySaved
  <2>3. /\ queue' \in Seq(Saying(o))
        /\ \A j \in DOMAIN queue :
             j \in DOMAIN queue' /\ queue'[j] = queue[j]
        /\ \E i \in DOMAIN queue' :
             queue'[i] = [do |-> "notify", result |-> o]
    <3>1. queue' \in Seq(Saying(o))
      BY <1>3, <1>4, <2>2, AppendElements
    <3>2. /\ \A j \in DOMAIN queue :
               j \in DOMAIN queue' /\ queue'[j] = queue[j]
          /\ \E i \in DOMAIN queue' :
               queue'[i] = [do |-> "notify", result |-> o]
      BY <1>3, <2>2, AppendHasLast
    <3> QED BY <3>1, <3>2
  <2>4. UNCHANGED <<work, ended, main, telling, state, sdkState, saved>>
    BY <1>13 DEF NotifySaved, mainVars
  <2>5. (WillProcess => WillProcess') /\ WillNotify'
    BY <2>3 DEF WillProcess, WillNotify
  <2> QED BY <1>3, <2>1, <2>3, <2>4, <2>5 DEF AllSay
<1>14. CASE Complete
  <2>1. /\ queue # <<>> /\ Head(queue) \in Saying(o)
        /\ Head(queue).do = "notify" /\ queue' = Tail(queue)
        /\ queue' \in Seq(Saying(o))
    BY <1>3, <1>14, TailElements DEF Complete, Running
  <2>2. Head(queue).result = o
    BY <2>1 DEF Saying
  <2>3. state' = StateOf(o)
    BY <1>3, <1>14, <2>2 DEF Complete
  <2>4. main' \in Seq({o})
    <3>1. CASE o = "failed"
      <4>1. main' = main \o [i \in 1..Len(saved) |-> o]
        BY <1>14, <2>2, <3>1 DEF Complete
      <4>2. Len(saved) \in Nat
        BY <1>1 DEF TypeOK
      <4>3. [i \in 1..Len(saved) |-> o] \in Seq({o})
        BY <4>2, RepeatElements
      <4> QED BY <1>3, <4>1, <4>3, ConcatElements
    <3>2. CASE o # "failed"
      <4>1. main' = main \o Failures(0)
        BY <1>14, <2>2, <3>2 DEF Complete, Failures
      <4>2. Failures(0) \in Seq({o})
        BY DEF Failures
      <4> QED BY <1>3, <4>1, <4>2, ConcatElements
    <3> QED BY <3>1, <3>2
  <2>5. WillProcess => WillProcess'
    BY <1>3, <2>1, TailKeeps DEF WillProcess
  <2>6. UNCHANGED <<work, ended, telling, returned, sdkState>>
    BY <1>14 DEF Complete
  <2> QED BY <1>3, <1>5, <2>1, <2>3, <2>4, <2>5, <2>6 DEF AllSay
<1>15. ~TaskEnds /\ ~Recover
  BY DEF TaskEnds, Recover
<1> QED BY <1>7, <1>8, <1>9, <1>10, <1>11, <1>12, <1>13, <1>14, <1>15,
           UndisturbedSteps

LEMMA OneOutcomeStays == ASSUME IInv, [Next]_vars PROVE OneOutcome'
BY OneOutcomeBefore, OneOutcomeAfter DEF OneOutcome

-----------------------------------------------------------------------------
(***************************************************************************)
(* Every step keeps the inductive invariant.                               *)
(***************************************************************************)
LEMMA NextIsTyped == ASSUME IInv, [Next]_vars PROVE TypeOK'
<1>1. TypeOK /\ StartIsAwaited /\ CompletionsWait
  BY DEF IInv
<1>2. Len(main') <= 2 + Cardinality(Calls)
  <2>1. /\ Len(main') \in Nat /\ Len(saved') \in Nat
        /\ Cardinality(Pending') \in Nat /\ Cardinality(Calls) \in Nat
    BY <1>1, MainIsTyped, SavedIsTyped, PendingShrinks, CallsAssumption,
       FS_CardinalityType
  <2>2. /\ Left(work' = "running") \in {0, 1} /\ Left(work' # "over") \in {0, 1}
        /\ Left(wait' # "fallen") \in {0, 1}
    BY LeftIsCount
  <2> QED BY <2>1, <2>2, AnnouncementsStayBounded DEF AnnouncementsAreBounded
<1>3. heard' \in [Calls -> Seq(Outcomes \cup {"invalid"})]
  BY <1>1, HeardIsTyped DEF Words
<1>4. /\ queue' \in Seq(Blocks) /\ main' \in Seq(Outcomes)
      /\ saved' \in Seq(Calls) /\ IsInjective(saved')
      /\ returned' \in Seq(Outcomes) /\ pc' \in [Calls -> Steps]
      /\ completed' \in [Calls -> Seq(Outcomes)]
  BY <1>1, QueueIsTyped, MainIsTyped, SavedIsTyped, ReturnedIsTyped,
     CallsAreTyped
<1> QED BY <1>1, <1>2, <1>3, <1>4, RestIsTyped DEF TypeOK, RestOfTypes

LEMMA NextKeepsInvariant == ASSUME IInv, [Next]_vars PROVE IInv'
BY NextIsTyped, OneCallerIsKept, FlowsStayApart, StartStaysAwaited,
   DelegatesStillWait, HeardStaysByStep, CompletionsStillWait,
   WorkStaysStartedOnce, AnnouncementsStayBounded, AnnouncementsKeepCauses,
   HeardStillHappened, ParametersStillFit, OneOutcomeStays
   DEF IInv

\* The inductive invariant holds in every reachable state.
THEOREM Invariance == Spec => []IInv
<1>1. IInv /\ [Next]_vars => IInv'
  BY NextKeepsInvariant
<1> QED BY InitIsInvariant, <1>1, PTL DEF Spec

(***************************************************************************)
(* Every variable keeps its type; in particular no more announcements are  *)
(* posted than two and one for each call, and no completion is saved twice.*)
(***************************************************************************)
THEOREM TypeCorrect == Spec => []TypeOK
<1>1. IInv => TypeOK
  BY DEF IInv
<1> QED BY Invariance, <1>1, PTL

(***************************************************************************)
(* The delegate of a call hears one thing; in the legacy flow, a call      *)
(* without an identifier may hear two (initialize, notifyInitialization-   *)
(* Complete, notifyInitializationFailed).                                  *)
(***************************************************************************)
THEOREM DelegatesHearOnce == Spec => []HeardOnce
<1>1. IInv => HeardOnce
  BY DEF IInv, TypeOK, HeardByStep, HeardOnce
<1> QED BY Invariance, <1>1, PTL

(***************************************************************************)
(* A completion that SDKInitializerBase has saved is called at most once,  *)
(* whatever the order of the blocks on its queue.                          *)
(***************************************************************************)
THEOREM CompletionsAreCalledOnce == Spec => []CompletedOnce
<1>1. IInv => CompletedOnce
  BY DEF IInv
<1> QED BY Invariance, <1>1, PTL

(***************************************************************************)
(* What a delegate hears is how the work has ended, but for invalid calls  *)
(* and a fallen wait in the Swift flow.                                    *)
(***************************************************************************)
THEOREM DelegatesHearWhatHappened == Spec => []HeardWhatHappened
<1>1. IInv => HeardWhatHappened
  BY DEF IInv
<1> QED BY Invariance, <1>1, PTL

(***************************************************************************)
(* When all is done, currentInitializeState and the state of the Swift     *)
(* initializer say the same, if nothing has disturbed the initialization.  *)
(***************************************************************************)
THEOREM StatesAgreeInTheEnd == Spec => []StatesAgree
<1>1. ASSUME IInv PROVE StatesAgree
  <2> SUFFICES ASSUME flow = "swift", AtRest, work = "over", ~InvalidCalled,
                      wait # "fallen"
               PROVE  \E outcome \in ended :
                        /\ state = StateOf(outcome)
                        /\ sdkState = SdkStateOf(outcome)
    BY DEF StatesAgree, SdkStateOf
  <2>1. PICK o \in Outcomes : AllSay(o)
    BY <1>1 DEF IInv, OneOutcome, Undisturbed
  <2>2. queue = <<>> /\ returned = <<>>
    BY DEF AtRest
  <2>3. ~WillProcess /\ ~WillNotify
    BY <2>2 DEF WillProcess, WillNotify
  <2> QED BY <2>1, <2>3 DEF AllSay
<1> QED BY Invariance, <1>1, PTL
=============================================================================
