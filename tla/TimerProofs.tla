----------------------------- MODULE TimerProofs -----------------------------
(***************************************************************************)
(* Proofs about Timer, for all numbers of intervals, lengths of them and   *)
(* changes of the application: that an unraced timer has one NSTimer and   *)
(* calls its block when its intervals are over.                            *)
(***************************************************************************)
EXTENDS Timer, SequenceFacts, Integers, TLAPS

-----------------------------------------------------------------------------
(***************************************************************************)
(* The inductive invariant.                                                *)
(***************************************************************************)
\* A timer that is not armed can be: one of the two NSTimers is free.  The
\* caller forgets an NSTimer only with its last step.
OneIsFree ==
  /\ timer = None => live # Timers
  /\ caller # "done" => live \subseteq {timer}
  /\ caller = "fields" => live = {} /\ index = 0

StoppedIsDone == stopped => caller = "done"

\* How many NSTimers are in the run loop or will be with the last step.
Armed ==
  (IF 1 \in live THEN 1 ELSE 0) + (IF 2 \in live THEN 1 ELSE 0)
    + (IF caller = "done" THEN 0 ELSE 1)

\* One NSTimer calls the block for all intervals.  What calls it later was
\* armed by resume, and calls it once.
CallsAreFew ==
  /\ index < count => Armed <= 1 + switches
  /\ index >= count => index + Armed <= count + switches

CallsAreCounted ==
  /\ Len(calls) = index
  /\ \A i \in DOMAIN calls : calls[i].index = i - 1

\* Before the last step of the caller nothing has run.
NothingHasRun ==
  ~raced /\ caller # "done" =>
    timer = None /\ index = 0 /\ ran = 0 /\ remaining = 0

\* What is left of the interval: with the NSTimer, or saved by pause.
LeftOver == IF timer = None THEN remaining ELSE left[timer]

\* The time that has run is that of the intervals called, and a part of the
\* one that runs.
TimeIsKept ==
  ~raced /\ caller = "done" /\ ~stopped /\ index < count =>
    ran + LeftOver = index * Interval + Interval

CallsWereInTime ==
  ~raced => \A i \in DOMAIN calls : i <= count => calls[i].at = i * Interval

IInv ==
  /\ TypeOK
  /\ OneIsFree /\ StoppedIsDone
  /\ CallsAreFew
  /\ CallsAreCounted
  /\ OneTimerIsLive
  /\ NothingHasRun
  /\ TimeIsKept
  /\ CallsWereInTime

-----------------------------------------------------------------------------
(***************************************************************************)
(* What the steps do to the NSTimers.                                      *)
(***************************************************************************)
LEMMA TwoTimers == Timers = {1, 2} /\ None = 0 /\ None \notin Timers
BY DEF Timers, None

LEMMA ArmTakesASpare ==
  ASSUME NEW time, NEW others \in SUBSET Timers, others # Timers,
         Arm(time, others)
  PROVE  /\ timer' \in Timers /\ timer' \notin others /\ timer' # None
         /\ live' = others \cup {timer'}
         /\ left' = [left EXCEPT ![timer'] = time]
<1>1. \E u \in Timers \ others : TRUE
  OBVIOUS
<1>2. (CHOOSE u \in Timers \ others : TRUE) \in Timers \ others
  BY <1>1
<1> QED BY <1>2, TwoTimers DEF Arm

\* resume arms a timer without an NSTimer with the time that remains.
LEMMA ResumeArms ==
  ASSUME IInv, Resume
  PROVE  \/ UNCHANGED <<nsVars, raced>>
         \/ /\ ~stopped /\ timer = None /\ caller # "fields"
            /\ timer' \in Timers /\ timer' \notin live /\ timer' # None
            /\ live' = live \cup {timer'}
            /\ left' = [left EXCEPT ![timer'] = remaining]
            /\ raced' = (raced \/ caller # "done")
<1>1. live \in SUBSET Timers /\ (timer = None => live # Timers)
  BY DEF IInv, TypeOK, OneIsFree
<1>2. CASE ~stopped /\ WasInitialized /\ timer = None
  <2>1. Arm(remaining, live) /\ raced' = (raced \/ IsScheduling)
    BY <1>2 DEF Resume
  <2>2. IsScheduling <=> caller # "done"
    BY <1>2 DEF IsScheduling, WasInitialized, IInv, TypeOK
  <2> QED BY <1>1, <1>2, <2>1, <2>2, ArmTakesASpare DEF WasInitialized
<1>3. CASE ~(~stopped /\ WasInitialized /\ timer = None)
  BY <1>3 DEF Resume
<1> QED BY <1>2, <1>3

\* pause saves what is left and invalidates.
LEMMA PauseInvalidates ==
  ASSUME IInv, Pause
  PROVE  \/ UNCHANGED <<nsVars, remaining>>
         \/ /\ ~stopped /\ timer # None /\ timer \in Timers
            /\ caller # "fields"
            /\ remaining' = left[timer] /\ timer' = None
            /\ live' = live \ {timer} /\ left' = left
BY DEF Pause, Invalidate, WasInitialized, IInv, TypeOK

\* timesUp spends the NSTimer, and arms the next as long as there is one.
LEMMA TimesUpSpends ==
  ASSUME IInv, NEW t \in Timers, TimesUp(t)
  PROVE  /\ t \in live /\ left[t] = 0
         /\ \/ /\ index + 1 < count
               /\ timer' \in Timers /\ timer' # None
               /\ timer' \notin live \ {t, timer}
               /\ live' = (live \ {t, timer}) \cup {timer'}
               /\ left' = [left EXCEPT ![timer'] = Interval]
            \/ /\ ~(index + 1 < count)
               /\ timer' = None /\ live' = live \ {t, timer}
               /\ left' = left
<1>1. t \in live /\ left[t] = 0
  BY DEF TimesUp
<1>2. live \ {t, timer} \in SUBSET Timers /\ live \ {t, timer} # Timers
  BY DEF IInv, TypeOK
<1>3. CASE index + 1 < count
  <2>1. Arm(Interval, live \ {t, timer})
    BY <1>3 DEF TimesUp
  <2> QED BY <1>1, <1>2, <1>3, <2>1, ArmTakesASpare
<1>4. CASE ~(index + 1 < count)
  BY <1>1, <1>4 DEF TimesUp
<1> QED BY <1>3, <1>4

\* The caller's last step arms, for the whole interval.
LEMMA ArmFirstArms ==
  ASSUME IInv, ArmFirst
  PROVE  /\ timer' \in Timers /\ timer' \notin live /\ timer' # None
         /\ live' = live \cup {timer'}
         /\ left' = [left EXCEPT ![timer'] = Interval]
<1>1. live \in SUBSET Timers /\ live \subseteq {timer}
  BY DEF IInv, TypeOK, OneIsFree, ArmFirst
<1>2. live # Timers
  BY <1>1, TwoTimers
<1> QED BY <1>1, <1>2, ArmTakesASpare DEF ArmFirst

\* Every step of the system, by its action.
LEMMA Steps ==
  ASSUME [Next]_vars
  PROVE  \/ UNCHANGED vars
         \/ SetFields \/ InvalidateFirst \/ ArmFirst
         \/ \E t \in Timers : TimesUp(t)
         \/ Tick \/ Stop
         \/ BecomeActive \/ EnterBackground \/ BecomeInactive
BY DEF Next, Caller, Fire

-----------------------------------------------------------------------------
LEMMA InitIsInvariant == Init => IInv
<1> SUFFICES ASSUME Init PROVE IInv
  OBVIOUS
<1> USE CountsAssumption, IntervalAssumption, BoundAssumption, TwoTimers
<1>1. TypeOK
  <2>1. count \in Nat /\ index \in 0..count + MaxSwitches
    BY DEF Init
  <2>2. left \in [Timers -> 0..Interval] /\ remaining \in 0..Interval
    BY DEF Init
  <2>3. calls \in Seq([index : Nat, at : Nat])
    BY DEF Init
  <2>4. timer \in live \cup {None} /\ live \subseteq Timers
    BY DEF Init
  <2>5. switches \in 0..MaxSwitches /\ ran \in Nat
    BY DEF Init
  <2> QED BY <2>1, <2>2, <2>3, <2>4, <2>5 DEF Init, TypeOK
<1>2. OneIsFree /\ StoppedIsDone /\ OneTimerIsLive
      /\ NothingHasRun /\ TimeIsKept
  BY DEF Init, OneIsFree, StoppedIsDone, OneTimerIsLive, NothingHasRun,
         TimeIsKept
<1>3. CallsAreFew /\ CallsAreCounted /\ CallsWereInTime
  BY DEF Init, CallsAreFew, Armed, CallsAreCounted, CallsWereInTime
<1> QED BY <1>1, <1>2, <1>3 DEF IInv

-----------------------------------------------------------------------------
(***************************************************************************)
(* One NSTimer, unless the application has become active in between.       *)
(***************************************************************************)
LEMMA OneIsFreeAfter ==
  ASSUME IInv, [Next]_vars PROVE OneIsFree'
<1> USE TwoTimers
<1>1. /\ timer \in live \cup {None} /\ live \subseteq Timers
      /\ timer = None => live # Timers
      /\ caller # "done" => live \subseteq {timer}
      /\ caller = "fields" => live = {} /\ index = 0
      /\ caller \in {"fields", "invalidate", "arm", "done"}
  BY DEF IInv, TypeOK, OneIsFree
<1>2. CASE UNCHANGED <<caller, timer, live, index>>
  BY <1>1, <1>2 DEF OneIsFree
<1>3. CASE SetFields
  BY <1>1, <1>3 DEF SetFields, nsVars, OneIsFree
<1>4. CASE InvalidateFirst
  <2>1. caller # "done" /\ caller' = "arm" /\ timer' = None /\ live' = {}
    BY <1>1, <1>4 DEF InvalidateFirst, Invalidate
  <2> QED BY <2>1 DEF OneIsFree
<1>5. CASE ArmFirst
  <2>1. caller' = "done"
    BY <1>5 DEF ArmFirst
  <2> QED BY <1>5, <2>1, ArmFirstArms DEF OneIsFree
<1>6. ASSUME NEW t \in Timers, TimesUp(t) PROVE OneIsFree'
  <2>1. caller' = caller
    BY <1>6 DEF TimesUp
  <2>2. caller # "fields"
    BY <1>1, <1>6, TimesUpSpends
  <2>3. live \ {t, timer} # Timers
    BY <1>1
  <2>4. caller # "done" => live \ {t, timer} = {}
    BY <1>1
  <2> QED BY <1>6, <2>1, <2>2, <2>3, <2>4, TimesUpSpends DEF OneIsFree
<1>7. CASE Stop
  <2>1. caller' = "done" /\ timer' = None /\ live' = live \ {timer}
    BY <1>7 DEF Stop, Invalidate
  <2> QED BY <1>1, <2>1 DEF OneIsFree
<1>8. CASE BecomeActive
  <2>1. Resume /\ caller' = caller /\ index' = index
    BY <1>8 DEF BecomeActive
  <2> QED BY <1>1, <2>1, ResumeArms DEF OneIsFree, nsVars
<1>9. CASE EnterBackground
  <2>1. Pause /\ caller' = caller /\ index' = index
    BY <1>9 DEF EnterBackground
  <2> QED BY <1>1, <2>1, PauseInvalidates DEF OneIsFree, nsVars
<1>10. \/ UNCHANGED <<caller, timer, live, index>>
       \/ SetFields \/ InvalidateFirst \/ ArmFirst
       \/ \E t \in Timers : TimesUp(t)
       \/ Stop \/ BecomeActive \/ EnterBackground
  BY Steps DEF vars, nsVars, Tick, BecomeInactive
<1> QED BY <1>2, <1>3, <1>4, <1>5, <1>6, <1>7, <1>8, <1>9, <1>10

LEMMA OneTimerIsLiveAfter ==
  ASSUME IInv, [Next]_vars PROVE OneTimerIsLive' /\ (raced => raced')
<1> USE TwoTimers
<1>1. /\ timer \in live \cup {None} /\ live \subseteq Timers
      /\ caller # "done" => live \subseteq {timer}
      /\ caller = "fields" => live = {}
      /\ caller \in {"fields", "invalidate", "arm", "done"}
      /\ ~raced => live \subseteq {timer} /\ (stopped => live = {})
      /\ raced \in BOOLEAN /\ stopped \in BOOLEAN
  BY DEF IInv, TypeOK, OneIsFree, OneTimerIsLive
<1>2. CASE UNCHANGED <<timer, live, stopped, raced>>
  BY <1>1, <1>2 DEF OneTimerIsLive
<1>3. CASE InvalidateFirst
  BY <1>1, <1>3 DEF InvalidateFirst, Invalidate, OneTimerIsLive
<1>4. CASE ArmFirst
  <2>1. UNCHANGED <<stopped, raced>> /\ caller # "done"
    BY <1>4 DEF ArmFirst
  <2>2. ~raced => timer = None /\ ~stopped
    BY <1>4, <2>1 DEF IInv, NothingHasRun, StoppedIsDone
  <2>3. ~raced => live' = {timer'}
    BY <1>1, <1>4, <2>2, ArmFirstArms
  <2> QED BY <2>1, <2>2, <2>3 DEF OneTimerIsLive
<1>5. ASSUME NEW t \in Timers, TimesUp(t)
      PROVE OneTimerIsLive' /\ (raced => raced')
  <2>1. UNCHANGED <<stopped, raced>> /\ t \in live
    BY <1>5 DEF TimesUp
  <2> QED BY <1>1, <1>5, <2>1, TimesUpSpends DEF OneTimerIsLive
<1>6. CASE Stop
  BY <1>1, <1>6 DEF Stop, Invalidate, OneTimerIsLive
<1>7. CASE BecomeActive
  <2>1. Resume /\ stopped' = stopped
    BY <1>7 DEF BecomeActive
  <2> QED BY <1>1, <2>1, ResumeArms DEF OneTimerIsLive, nsVars
<1>8. CASE EnterBackground
  <2>1. Pause /\ UNCHANGED <<stopped, raced>>
    BY <1>8 DEF EnterBackground
  <2> QED BY <1>1, <2>1, PauseInvalidates DEF OneTimerIsLive, nsVars
<1>9. \/ UNCHANGED <<timer, live, stopped, raced>>
      \/ InvalidateFirst \/ ArmFirst
      \/ \E t \in Timers : TimesUp(t)
      \/ Stop \/ BecomeActive \/ EnterBackground
  BY Steps DEF vars, nsVars, SetFields, Tick, BecomeInactive
<1> QED BY <1>2, <1>3, <1>4, <1>5, <1>6, <1>7, <1>8, <1>9

\* Arithmetic: with no more new NSTimers than changes the bounds are kept,
\* and a call may take the place of an NSTimer.
LEMMA BoundsAreKept ==
  ASSUME NEW a \in Nat, NEW b \in Nat, NEW s \in Nat, NEW t \in Nat,
         NEW i \in Nat, NEW c \in Nat
  PROVE  /\ b + s <= a + t =>
              /\ a <= 1 + s => b <= 1 + t
              /\ i + a <= c + s => i + b <= c + t
         /\ b + 1 <= a =>
              /\ i < c /\ a <= 1 + s => i + 1 + b <= c + s
              /\ i + a <= c + s => i + 1 + b <= c + s
         /\ b <= a /\ a <= 1 + s => b <= 1 + s
OBVIOUS

\* The bound of the calls.
LEMMA CallsAreFewAfter ==
  ASSUME IInv, [Next]_vars PROVE CallsAreFew'
<1> USE TwoTimers
<1>1. /\ count \in Nat /\ index \in Nat /\ switches \in Nat
      /\ Armed \in Nat /\ Armed' \in Nat
      /\ timer \in live \cup {None} /\ live \subseteq Timers
      /\ caller = "fields" => index = 0
  BY CountsAssumption, BoundAssumption DEF IInv, TypeOK, OneIsFree, Armed
<1>a. /\ index < count => Armed <= 1 + switches
      /\ ~(index < count) => index + Armed <= count + switches
  <2>1. CASE index < count
    BY <2>1 DEF IInv, CallsAreFew
  <2>2. CASE ~(index < count)
    <3>1. index >= count
      BY <1>1, <2>2
    <3> QED BY <2>2, <3>1 DEF IInv, CallsAreFew
  <2> QED BY <2>1, <2>2
<1>2. ASSUME UNCHANGED <<count, index>>, switches' \in Nat,
             switches <= switches', Armed' + switches <= Armed + switches'
      PROVE  CallsAreFew'
  <2>1. count' = count /\ index' = index
    BY <1>2
  <2>2. CASE index < count
    <3>1. Armed <= 1 + switches
      BY <1>a, <2>2
    <3>2. Armed' <= 1 + switches'
      BY <1>1, <1>2, <3>1, BoundsAreKept
    <3> QED BY <1>1, <2>1, <2>2, <3>2 DEF CallsAreFew
  <2>3. CASE ~(index < count)
    <3>1. index + Armed <= count + switches
      BY <1>a, <2>3
    <3>2. index + Armed' <= count + switches'
      BY <1>1, <1>2, <3>1, BoundsAreKept
    <3> QED BY <1>1, <2>1, <2>3, <3>2 DEF CallsAreFew
  <2> QED BY <2>2, <2>3
<1>3. CASE UNCHANGED <<count, index, caller, live, switches>>
  BY <1>1, <1>2, <1>3 DEF Armed
<1>4. CASE SetFields
  BY <1>1, <1>2, <1>4 DEF SetFields, nsVars, appVars, Armed
<1>5. CASE InvalidateFirst
  BY <1>1, <1>2, <1>5 DEF InvalidateFirst, Invalidate, appVars, Armed
<1>6. CASE ArmFirst
  <2>1. /\ UNCHANGED <<count, index, switches>>
        /\ caller = "arm" /\ caller' = "done"
    BY <1>6 DEF ArmFirst, appVars
  <2>2. Armed' <= Armed
    BY <1>1, <1>6, <2>1, ArmFirstArms DEF Armed
  <2> QED BY <1>1, <1>2, <2>1, <2>2 DEF Armed
<1>7. ASSUME NEW t \in Timers, TimesUp(t) PROVE CallsAreFew'
  <2>1. /\ UNCHANGED <<count, caller, switches>> /\ index' = index + 1
        /\ t \in live
    BY <1>7 DEF TimesUp, appVars
  <2>2. CASE index + 1 < count
    <3>1. timer' \in Timers /\ live' = (live \ {t, timer}) \cup {timer'}
      BY <1>7, <2>2, TimesUpSpends
    <3>2. Armed' <= Armed
      BY <1>1, <2>1, <3>1 DEF Armed
    <3>3. Armed <= 1 + switches
      BY <1>1, <1>a, <2>2
    <3>4. Armed' <= 1 + switches
      BY <1>1, <3>2, <3>3
    <3>5. /\ index' < count' => Armed' <= 1 + switches'
          /\ ~(index' >= count')
      BY <1>1, <2>1, <2>2, <3>4
    <3> QED BY <3>5 DEF CallsAreFew
  <2>3. CASE ~(index + 1 < count)
    <3>1. live' = live \ {t, timer}
      BY <1>7, <2>3, TimesUpSpends
    <3>2. Armed' + 1 <= Armed
      BY <1>1, <2>1, <3>1 DEF Armed
    <3>3. index + 1 + Armed' <= count + switches
      <4>1. CASE index < count
        <5>1. Armed <= 1 + switches
          BY <1>a, <4>1
        <5> QED BY <1>1, <3>2, <4>1, <5>1, BoundsAreKept
      <4>2. CASE ~(index < count)
        <5>1. index + Armed <= count + switches
          BY <1>a, <4>2
        <5> QED BY <1>1, <3>2, <5>1, BoundsAreKept
      <4> QED BY <4>1, <4>2
    <3> QED BY <1>1, <2>1, <2>3, <3>3 DEF CallsAreFew
  <2> QED BY <2>2, <2>3
<1>8. CASE Stop
  BY <1>1, <1>2, <1>8 DEF Stop, Invalidate, appVars, Armed
<1>9. CASE BecomeActive
  <2>1. /\ Resume /\ UNCHANGED <<count, caller, index>>
        /\ switches' = switches + 1
    BY <1>9 DEF BecomeActive, Switch
  <2>2. Armed' <= Armed + 1
    BY <1>1, <2>1, ResumeArms DEF Armed, nsVars
  <2> QED BY <1>1, <1>2, <2>1, <2>2 DEF Armed
<1>10. CASE EnterBackground
  <2>1. /\ Pause /\ UNCHANGED <<count, caller, index>>
        /\ switches' = switches + 1
    BY <1>10 DEF EnterBackground, Switch
  <2>2. Armed' <= Armed + 1
    BY <1>1, <2>1, PauseInvalidates DEF Armed, nsVars
  <2> QED BY <1>1, <1>2, <2>1, <2>2 DEF Armed
<1>11. CASE BecomeInactive
  BY <1>1, <1>2, <1>11 DEF BecomeInactive, Switch, nsVars, Armed
<1>12. CASE UNCHANGED vars \/ Tick
  BY <1>3, <1>12 DEF vars, nsVars, appVars, Tick
<1> QED BY <1>4, <1>5, <1>6, <1>7, <1>8, <1>9, <1>10, <1>11, <1>12, Steps

-----------------------------------------------------------------------------
(***************************************************************************)
(* The calls and the time of the calls.                                    *)
(***************************************************************************)
LEMMA StoppedIsDoneAfter ==
  ASSUME IInv, [Next]_vars PROVE StoppedIsDone'
<1>1. stopped => caller = "done"
  BY DEF IInv, StoppedIsDone
<1>2. CASE UNCHANGED <<stopped, caller>>
  BY <1>1, <1>2 DEF StoppedIsDone
<1>3. CASE Stop
  BY <1>3 DEF Stop, StoppedIsDone
<1>4. CASE Caller
  BY <1>1, <1>4
     DEF Caller, SetFields, InvalidateFirst, ArmFirst, StoppedIsDone
<1>5. UNCHANGED <<stopped, caller>> \/ Caller \/ Stop
  BY DEF Next, vars, Fire, TimesUp, Tick, BecomeActive, EnterBackground,
         BecomeInactive
<1> QED BY <1>2, <1>3, <1>4, <1>5

\* The index goes up with each call, and is set only when it is 0.
LEMMA CallsAreCountedAfter ==
  ASSUME IInv, [Next]_vars PROVE CallsAreCounted'
<1>1. /\ calls \in Seq([index : Nat, at : Nat]) /\ index \in Nat
      /\ ran \in Nat /\ Len(calls) = index
      /\ \A i \in DOMAIN calls : calls[i].index = i - 1
      /\ caller = "fields" => index = 0
  BY CountsAssumption, BoundAssumption
     DEF IInv, TypeOK, CallsAreCounted, OneIsFree
<1>2. CASE UNCHANGED <<index, calls>>
  BY <1>1, <1>2 DEF CallsAreCounted
<1>3. CASE SetFields
  BY <1>1, <1>3 DEF SetFields, CallsAreCounted
<1>4. ASSUME NEW t \in Timers, TimesUp(t) PROVE CallsAreCounted'
  <2> DEFINE call == [index |-> index, at |-> ran]
  <2>1. index' = index + 1 /\ calls' = Append(calls, call)
    BY <1>4 DEF TimesUp
  <2>2. call \in [index : Nat, at : Nat] /\ call.index = index
    BY <1>1
  <2> HIDE DEF call
  <2>3. /\ Len(calls') = index + 1 /\ DOMAIN calls = 1..index
        /\ DOMAIN calls' = 1..index + 1
        /\ \A i \in 1..index + 1 :
             calls'[i] = IF i <= index THEN calls[i] ELSE call
    BY <1>1, <2>1, <2>2, AppendElements
  <2>4. \A i \in DOMAIN calls' : calls'[i].index = i - 1
    BY <1>1, <2>2, <2>3
  <2> QED BY <2>1, <2>3, <2>4 DEF CallsAreCounted
<1>5. UNCHANGED <<index, calls>> \/ SetFields \/ \E t \in Timers : TimesUp(t)
  BY Steps DEF vars, InvalidateFirst, ArmFirst, Tick, Stop, BecomeActive,
               EnterBackground, BecomeInactive
<1> QED BY <1>2, <1>3, <1>4, <1>5

\* Without a race nothing runs before the last step of the caller.
LEMMA NothingHasRunAfter ==
  ASSUME IInv, [Next]_vars PROVE NothingHasRun'
<1> USE TwoTimers
<1>1. /\ timer \in live \cup {None} /\ live \subseteq Timers
      /\ ~raced => live \subseteq {timer}
      /\ ~raced /\ caller # "done" =>
           timer = None /\ index = 0 /\ ran = 0 /\ remaining = 0
      /\ raced => raced'
  BY OneTimerIsLiveAfter DEF IInv, TypeOK, OneTimerIsLive, NothingHasRun
<1>2. ~raced /\ caller # "done" => live = {}
  BY <1>1
<1>3. CASE UNCHANGED <<caller, timer, index, ran, remaining, raced>>
  BY <1>1, <1>3 DEF NothingHasRun
<1>4. CASE SetFields
  BY <1>1, <1>4 DEF SetFields, nsVars, NothingHasRun
<1>5. CASE InvalidateFirst
  BY <1>1, <1>5 DEF InvalidateFirst, Invalidate, NothingHasRun
<1>6. CASE ArmFirst
  BY <1>6 DEF ArmFirst, NothingHasRun
<1>7. ASSUME NEW t \in Timers, TimesUp(t) PROVE NothingHasRun'
  BY <1>1, <1>2, <1>7 DEF TimesUp, NothingHasRun
<1>8. CASE Tick
  BY <1>1, <1>2, <1>8 DEF Tick, NothingHasRun
<1>9. CASE Stop
  BY <1>9 DEF Stop, NothingHasRun
<1>10. CASE BecomeActive
  <2>1. Resume /\ UNCHANGED <<caller, index, ran, remaining>>
    BY <1>10 DEF BecomeActive
  <2> QED BY <1>1, <2>1, ResumeArms DEF NothingHasRun, nsVars
<1>11. CASE EnterBackground
  <2>1. Pause /\ UNCHANGED <<caller, index, ran, raced>>
    BY <1>11 DEF EnterBackground
  <2> QED BY <1>1, <2>1, PauseInvalidates DEF NothingHasRun, nsVars
<1>12. CASE BecomeInactive
  BY <1>3, <1>12 DEF BecomeInactive, nsVars
<1>13. CASE UNCHANGED vars
  BY <1>3, <1>13 DEF vars, nsVars
<1> QED BY <1>4, <1>5, <1>6, <1>7, <1>8, <1>9, <1>10, <1>11, <1>12, <1>13,
           Steps

\* Arithmetic: one more interval.
LEMMA OneMore ==
  ASSUME NEW i \in Nat, NEW n \in Nat
  PROVE  (i + 1) * n = i * n + n /\ i * n \in Nat /\ 0 * n = 0
OBVIOUS

\* Pauses neither lose nor gain time.
LEMMA TimeIsKeptAfter ==
  ASSUME IInv, [Next]_vars PROVE TimeIsKept'
<1> USE TwoTimers
<1>1. /\ index \in Nat /\ ran \in Nat /\ Interval \in Nat /\ count \in Nat
      /\ remaining \in Nat /\ left \in [Timers -> Nat]
      /\ timer \in live \cup {None} /\ live \subseteq Timers
      /\ caller \in {"fields", "invalidate", "arm", "done"}
      /\ ~raced => live \subseteq {timer} /\ (stopped => live = {})
      /\ ~raced /\ caller # "done" =>
           timer = None /\ index = 0 /\ ran = 0 /\ remaining = 0
      /\ raced => raced'
  BY CountsAssumption, IntervalAssumption, BoundAssumption,
     OneTimerIsLiveAfter
     DEF IInv, TypeOK, OneTimerIsLive, NothingHasRun
<1>2. ~raced /\ caller = "done" /\ ~stopped /\ index < count =>
        ran + LeftOver = index * Interval + Interval
  BY DEF IInv, TimeIsKept
<1>3. LeftOver \in Nat
  BY <1>1 DEF LeftOver
<1>4. ASSUME UNCHANGED <<count, index, caller, ran>>, stopped => stopped',
             ~stopped /\ ~raced' => LeftOver' = LeftOver
      PROVE  TimeIsKept'
  BY <1>1, <1>2, <1>4 DEF TimeIsKept
<1>5. CASE SetFields \/ InvalidateFirst
  BY <1>5 DEF SetFields, InvalidateFirst, TimeIsKept
<1>6. CASE ArmFirst
  <2>1. /\ caller # "done"
        /\ UNCHANGED <<count, index, ran, raced>>
    BY <1>6 DEF ArmFirst
  <2>2. LeftOver' = Interval
    BY <1>1, <1>6, ArmFirstArms DEF LeftOver
  <2>3. ~raced => ran' + LeftOver' = index' * Interval + Interval
    BY <1>1, <2>1, <2>2, OneMore
  <2> QED BY <2>1, <2>3 DEF TimeIsKept
<1>7. ASSUME NEW t \in Timers, TimesUp(t) PROVE TimeIsKept'
  <2>1. /\ UNCHANGED <<count, caller, ran, stopped, raced>>
        /\ index' = index + 1 /\ t \in live /\ left[t] = 0
    BY <1>7 DEF TimesUp
  <2>2. SUFFICES ASSUME ~raced, caller = "done", ~stopped,
                        index + 1 < count
                 PROVE  ran + LeftOver' = (index + 1) * Interval + Interval
    BY <2>1 DEF TimeIsKept
  <2>3. t = timer /\ LeftOver = 0
    BY <1>1, <2>1, <2>2 DEF LeftOver
  <2>4. ran = index * Interval + Interval
    BY <1>1, <1>2, <2>2, <2>3
  <2>5. LeftOver' = Interval
    BY <1>1, <1>7, <2>2, TimesUpSpends DEF LeftOver
  <2> QED BY <1>1, <2>4, <2>5, OneMore
<1>8. CASE Tick
  <2>1. PICK t \in live : left[t] > 0
    BY <1>8 DEF Tick
  <2>2. /\ UNCHANGED <<count, caller, index, timer, live, stopped, raced>>
        /\ left' = [u \in Timers |-> IF u \in live /\ left[u] > 0
                                     THEN left[u] - 1 ELSE left[u]]
        /\ ran' = ran + 1
    BY <1>8 DEF Tick
  <2>3. SUFFICES ASSUME ~raced, caller = "done", ~stopped, index < count
                 PROVE  ran' + LeftOver' = index * Interval + Interval
    BY <2>2 DEF TimeIsKept
  <2>4. t = timer /\ timer \in Timers
    BY <1>1, <2>1, <2>3
  <2>5. /\ LeftOver = left[timer] /\ left[timer] \in Nat
        /\ LeftOver' = left[timer] - 1 /\ left[timer] > 0
    BY <1>1, <2>1, <2>2, <2>4 DEF LeftOver
  <2>6. ran' + LeftOver' = ran + LeftOver
    BY <1>1, <2>2, <2>5
  <2> QED BY <1>2, <2>3, <2>6
<1>9. CASE Stop
  BY <1>9 DEF Stop, TimeIsKept
<1>10. CASE BecomeActive
  <2>1. Resume /\ UNCHANGED <<count, index, caller, ran, stopped, remaining>>
    BY <1>10 DEF BecomeActive
  <2>2. ~stopped /\ ~raced' => LeftOver' = LeftOver
    BY <1>1, <2>1, ResumeArms DEF LeftOver, nsVars
  <2> QED BY <1>4, <2>1, <2>2
<1>11. CASE EnterBackground
  <2>1. Pause /\ UNCHANGED <<count, index, caller, ran, stopped>>
    BY <1>11 DEF EnterBackground
  <2>2. LeftOver' = LeftOver
    BY <1>1, <2>1, PauseInvalidates DEF LeftOver, nsVars
  <2> QED BY <1>4, <2>1, <2>2
<1>12. CASE BecomeInactive
  BY <1>4, <1>12 DEF BecomeInactive, nsVars, LeftOver
<1>13. CASE UNCHANGED vars
  BY <1>4, <1>13 DEF vars, nsVars, LeftOver
<1> QED BY <1>5, <1>6, <1>7, <1>8, <1>9, <1>10, <1>11, <1>12, <1>13, Steps

LEMMA CallsWereInTimeAfter ==
  ASSUME IInv, [Next]_vars PROVE CallsWereInTime'
<1> USE TwoTimers
<1>1. /\ calls \in Seq([index : Nat, at : Nat]) /\ index \in Nat
      /\ ran \in Nat /\ Len(calls) = index /\ count \in Nat
      /\ ~raced => \A i \in DOMAIN calls :
                     i <= count => calls[i].at = i * Interval
      /\ raced => raced'
  BY CountsAssumption, BoundAssumption, OneTimerIsLiveAfter
     DEF IInv, TypeOK, CallsAreCounted, CallsWereInTime
<1>2. CASE UNCHANGED <<count, calls>>
  BY <1>1, <1>2 DEF CallsWereInTime
<1>3. ASSUME NEW t \in Timers, TimesUp(t) PROVE CallsWereInTime'
  <2> DEFINE call == [index |-> index, at |-> ran]
  <2>1. /\ calls' = Append(calls, call) /\ UNCHANGED <<count, raced>>
        /\ t \in live /\ left[t] = 0
    BY <1>3 DEF TimesUp
  <2>2. call \in [index : Nat, at : Nat] /\ call.at = ran
    BY <1>1
  <2> HIDE DEF call
  <2>3. /\ DOMAIN calls = 1..index /\ DOMAIN calls' = 1..index + 1
        /\ \A i \in 1..index + 1 :
             calls'[i] = IF i <= index THEN calls[i] ELSE call
    BY <1>1, <2>1, <2>2, AppendElements
  <2>4. ~raced /\ index < count => ran = (index + 1) * Interval
    <3>1. SUFFICES ASSUME ~raced, index < count
                   PROVE  ran = (index + 1) * Interval
      OBVIOUS
    <3>2. t = timer /\ timer # None /\ caller = "done" /\ ~stopped
      BY <2>1, <3>1
         DEF IInv, TypeOK, OneTimerIsLive, NothingHasRun
    <3>3. LeftOver = 0
      BY <2>1, <3>2 DEF LeftOver
    <3>4. ran + 0 = index * Interval + Interval
      BY <3>1, <3>2, <3>3 DEF IInv, TimeIsKept
    <3> QED BY <1>1, <3>4, OneMore, IntervalAssumption
  <2>5. SUFFICES ASSUME ~raced, NEW i \in DOMAIN calls', i <= count
                 PROVE  calls'[i].at = i * Interval
    BY <2>1 DEF CallsWereInTime
  <2>6. CASE i <= index
    BY <1>1, <2>3, <2>5, <2>6
  <2>7. CASE ~(i <= index)
    <3>1. i = index + 1 /\ calls'[i] = call /\ index < count
      BY <1>1, <2>3, <2>5, <2>7
    <3> QED BY <2>2, <2>4, <2>5, <3>1
  <2> QED BY <2>6, <2>7
<1>4. UNCHANGED <<count, calls>> \/ \E t \in Timers : TimesUp(t)
  BY Steps DEF vars, SetFields, InvalidateFirst, ArmFirst, Tick, Stop,
               BecomeActive, EnterBackground, BecomeInactive
<1> QED BY <1>2, <1>3, <1>4

-----------------------------------------------------------------------------
\* What resume, pause and timesUp write is in range.
LEMMA NSTimersAreTyped ==
  ASSUME IInv, [Next]_vars
  PROVE  /\ live' \subseteq Timers /\ timer' \in live' \cup {None}
         /\ left' \in [Timers -> 0..Interval] /\ remaining' \in 0..Interval
<1> USE TwoTimers
<1>1. /\ timer \in live \cup {None} /\ live \subseteq Timers
      /\ left \in [Timers -> 0..Interval] /\ remaining \in 0..Interval
      /\ Interval \in Nat /\ Interval \in 0..Interval
      /\ caller # "done" => live \subseteq {timer}
      /\ ~raced => live \subseteq {timer}
  BY IntervalAssumption DEF IInv, TypeOK, OneIsFree, OneTimerIsLive
<1>2. CASE UNCHANGED <<nsVars, remaining>>
  BY <1>1, <1>2 DEF nsVars
<1>3. CASE InvalidateFirst \/ Stop
  BY <1>1, <1>3 DEF InvalidateFirst, Stop, Invalidate
<1>4. CASE ArmFirst
  <2>1. remaining' = remaining
    BY <1>4 DEF ArmFirst
  <2> QED BY <1>1, <1>4, <2>1, ArmFirstArms
<1>5. ASSUME NEW t \in Timers, TimesUp(t)
      PROVE  /\ live' \subseteq Timers /\ timer' \in live' \cup {None}
             /\ left' \in [Timers -> 0..Interval]
             /\ remaining' \in 0..Interval
  <2>1. remaining' = remaining
    BY <1>5 DEF TimesUp
  <2> QED BY <1>1, <1>5, <2>1, TimesUpSpends
<1>6. CASE Tick
  <2>1. /\ UNCHANGED <<timer, live, remaining>>
        /\ left' = [u \in Timers |-> IF u \in live /\ left[u] > 0
                                     THEN left[u] - 1 ELSE left[u]]
    BY <1>6 DEF Tick
  <2>2. \A u \in Timers : /\ left[u] \in 0..Interval
                          /\ left[u] > 0 => left[u] - 1 \in 0..Interval
    BY <1>1
  <2> QED BY <1>1, <2>1, <2>2
<1>7. CASE BecomeActive
  <2>1. Resume /\ remaining' = remaining
    BY <1>7 DEF BecomeActive
  <2> QED BY <1>1, <2>1, ResumeArms DEF nsVars
<1>8. CASE EnterBackground
  <2>1. Pause
    BY <1>8 DEF EnterBackground
  <2> QED BY <1>1, <2>1, PauseInvalidates DEF nsVars
<1>9. UNCHANGED <<nsVars, remaining>> \/ InvalidateFirst \/ Stop \/ ArmFirst
      \/ (\E t \in Timers : TimesUp(t)) \/ Tick \/ BecomeActive
      \/ EnterBackground
  BY Steps DEF vars, SetFields, BecomeInactive
<1> QED BY <1>2, <1>3, <1>4, <1>5, <1>6, <1>7, <1>8, <1>9

\* The call that timesUp appends is one.
LEMMA CallsAreTyped ==
  ASSUME IInv, [Next]_vars
  PROVE  /\ calls' \in Seq([index : Nat, at : Nat])
         /\ index' \in Nat /\ ran' \in Nat
<1>1. /\ calls \in Seq([index : Nat, at : Nat])
      /\ index \in Nat /\ ran \in Nat
  BY CountsAssumption, BoundAssumption DEF IInv, TypeOK
<1>2. CASE UNCHANGED <<calls, index, ran>>
  BY <1>1, <1>2
<1>3. CASE SetFields
  BY <1>1, <1>3 DEF SetFields
<1>4. ASSUME NEW t \in Timers, TimesUp(t)
      PROVE  /\ calls' \in Seq([index : Nat, at : Nat])
             /\ index' \in Nat /\ ran' \in Nat
  <2>1. /\ calls' = Append(calls, [index |-> index, at |-> ran])
        /\ index' = index + 1 /\ ran' = ran
    BY <1>4 DEF TimesUp
  <2>2. [index |-> index, at |-> ran] \in [index : Nat, at : Nat]
    BY <1>1
  <2> QED BY <1>1, <2>1, <2>2, AppendElements
<1>5. CASE Tick
  BY <1>1, <1>5 DEF Tick
<1>6. UNCHANGED <<calls, index, ran>> \/ SetFields \/ Tick
      \/ \E t \in Timers : TimesUp(t)
  BY Steps DEF vars, InvalidateFirst, ArmFirst, Stop, BecomeActive,
               EnterBackground, BecomeInactive
<1> QED BY <1>2, <1>3, <1>4, <1>5, <1>6

\* The changes of the application, and the fields with few values.
LEMMA StatesAreTyped ==
  ASSUME IInv, [Next]_vars
  PROVE  /\ count' \in Counts /\ onMain' \in BOOLEAN
         /\ caller' \in {"fields", "invalidate", "arm", "done"}
         /\ app' \in {"active", "inactive", "background"}
         /\ switches' \in 0..MaxSwitches
         /\ stopped' \in BOOLEAN /\ raced' \in BOOLEAN
<1>1. UNCHANGED <<count, onMain>>
  BY Steps DEF vars, SetFields, InvalidateFirst, ArmFirst, TimesUp, Tick,
               Stop, BecomeActive, EnterBackground, BecomeInactive
<1>2. caller' = caller \/ caller' \in {"invalidate", "arm", "done"}
  BY Steps DEF vars, SetFields, InvalidateFirst, ArmFirst, TimesUp, Tick,
               Stop, BecomeActive, EnterBackground, BecomeInactive
<1>3. \/ UNCHANGED <<app, switches>>
      \/ Switch /\ app' \in {"active", "inactive", "background"}
  BY Steps DEF vars, appVars, SetFields, InvalidateFirst, ArmFirst, TimesUp,
               Tick, Stop, BecomeActive, EnterBackground, BecomeInactive
<1>4. switches' \in 0..MaxSwitches
  BY <1>3, BoundAssumption DEF IInv, TypeOK, Switch
<1>5. stopped' \in BOOLEAN
  BY Steps DEF vars, SetFields, InvalidateFirst, ArmFirst, TimesUp,
               Tick, Stop, BecomeActive, EnterBackground, BecomeInactive,
               IInv, TypeOK
<1>6. raced' \in BOOLEAN
  <2>1. raced' = raced \/ Resume
    BY Steps DEF vars, SetFields, InvalidateFirst, ArmFirst, TimesUp,
                 Tick, Stop, BecomeActive, EnterBackground, BecomeInactive
  <2>2. raced \in BOOLEAN
    BY DEF IInv, TypeOK
  <2> QED BY <2>1, <2>2, ResumeArms
<1> QED BY <1>1, <1>2, <1>3, <1>4, <1>5, <1>6 DEF IInv, TypeOK

\* Arithmetic: the bound of the index.
LEMMA InRange ==
  ASSUME NEW i \in Nat, NEW c \in Nat, NEW m \in Nat, NEW s \in 0..m
  PROVE  /\ i < c => i \in 0..c + m
         /\ \A a \in Nat : i + a <= c + s => i \in 0..c + m
OBVIOUS

LEMMA TypeAfter ==
  ASSUME IInv, [Next]_vars PROVE TypeOK'
<1>1. CallsAreFew'
  BY CallsAreFewAfter
<1>2. count' \in Nat /\ index' \in Nat /\ switches' \in 0..MaxSwitches
  BY StatesAreTyped, CallsAreTyped, CountsAssumption
<1>3. Armed' \in Nat
  BY DEF Armed
<1>4. index' \in 0..count' + MaxSwitches
  <2>1. CASE index' < count'
    BY <1>2, <2>1, BoundAssumption, InRange
  <2>2. CASE ~(index' < count')
    <3>1. index' >= count'
      BY <1>2, <2>2
    <3>2. index' + Armed' <= count' + switches'
      BY <1>1, <3>1 DEF CallsAreFew
    <3> QED BY <1>2, <1>3, <3>2, BoundAssumption, InRange
  <2> QED BY <2>1, <2>2
<1> QED BY <1>4, StatesAreTyped, CallsAreTyped, NSTimersAreTyped DEF TypeOK

LEMMA NextKeepsInvariant == IInv /\ [Next]_vars => IInv'
BY TypeAfter, OneIsFreeAfter, StoppedIsDoneAfter, CallsAreFewAfter,
   CallsAreCountedAfter, OneTimerIsLiveAfter, NothingHasRunAfter,
   TimeIsKeptAfter, CallsWereInTimeAfter DEF IInv

-----------------------------------------------------------------------------
(***************************************************************************)
(* The inductive invariant holds in every reachable state, for timers of   *)
(* any number of intervals and length.                                     *)
(***************************************************************************)
THEOREM Invariance == Spec => []IInv
BY InitIsInvariant, NextKeepsInvariant, PTL DEF Spec

(***************************************************************************)
(* Type correctness: the index never exceeds the number of intervals by    *)
(* more than the application has changed, though nothing stops resume from *)
(* arming a timer that has called its block for the last time.             *)
(***************************************************************************)
THEOREM TypeCorrect == Spec => []TypeOK
<1>1. IInv => TypeOK
  BY DEF IInv
<1> QED BY <1>1, Invariance, PTL

(***************************************************************************)
(* However schedule, pause, resume, timesUp and invalidate follow each     *)
(* other, one NSTimer is in the run loop at most, and none once the owner  *)
(* has released the timer.                                                 *)
(***************************************************************************)
THEOREM OneIsLive == Spec => []OneTimerIsLive
<1>1. IInv => OneTimerIsLive
  BY DEF IInv
<1> QED BY <1>1, Invariance, PTL

(***************************************************************************)
(* The block is called with 0, 1, and so on, and exactly when the timer    *)
(* has run for that many intervals, however often it was paused.           *)
(***************************************************************************)
THEOREM TimeIsNeitherLostNorGained == Spec => []IntervalsAreKept
<1>1. IInv => IntervalsAreKept
  BY DEF IInv, CallsAreCounted, CallsWereInTime, IntervalsAreKept
<1> QED BY <1>1, Invariance, PTL
=============================================================================
