------------------------------- MODULE Timer -------------------------------
(***************************************************************************)
(* UADSTimerWithAppLifeCycle on top of UADSTimer: a timer that calls a     *)
(* block once for each interval, is paused when the application enters the *)
(* background and resumed when it becomes active.  It times the life (TTL) *)
(* of the ad operations, with one interval, scheduled from a module's      *)
(* queue; and the quartile events of SCAR ads, with four, scheduled on the *)
(* main thread.                                                            *)
(*                                                                         *)
(* Its NSTimers fire on the main thread, where the application's           *)
(* notifications run too.  A caller on another thread sets the fields,     *)
(* then invalidates and arms in two visits to the main thread; the         *)
(* application may become active in between, and resume arms an NSTimer    *)
(* that the caller then forgets.                                           *)
(***************************************************************************)
EXTENDS Naturals, Sequences, FiniteSets

CONSTANTS
  Counts,      \* the numbers of intervals to choose from
  Interval,    \* the length of an interval, in ticks
  MaxSwitches  \* bound on the changes of the application's state

ASSUME CountsAssumption   == Counts \subseteq Nat \ {0}
ASSUME IntervalAssumption == Interval \in Nat \ {0}
ASSUME BoundAssumption    == MaxSwitches \in Nat

\* The NSTimers: the timer's own, and one that it may have forgotten.
Timers == 1..2
None   == 0

VARIABLES
  count,      \* the number of intervals, fixed
  onMain,     \* whether the caller schedules on the main thread, fixed
  caller,     \* the caller's next step
  index,      \* currentIndex
  timer,      \* the timer's NSTimer, or None
  live,       \* the NSTimers in the run loop
  left,       \* the time left of each of them
  remaining,  \* remainingTime
  app,        \* the state of the application
  switches,   \* its changes, for the bound
  stopped,    \* whether the owner has invalidated and released the timer
  ran,        \* the ticks during which an NSTimer was live
  calls,      \* the calls of the block: the index and the ticks by then
  raced       \* whether resume has armed between the steps of the caller

appVars  == <<app, switches>>
nsVars   == <<timer, live, left>>
vars == <<count, onMain, caller, index, nsVars, remaining, appVars, stopped,
          ran, calls, raced>>

TypeOK ==
  /\ count \in Counts /\ onMain \in BOOLEAN
  /\ caller \in {"fields", "invalidate", "arm", "done"}
  /\ index \in 0..count + MaxSwitches
  /\ timer \in live \cup {None}
  /\ live \subseteq Timers
  /\ left \in [Timers -> 0..Interval]
  /\ remaining \in 0..Interval
  /\ app \in {"active", "inactive", "background"}
  /\ switches \in 0..MaxSwitches
  /\ stopped \in BOOLEAN /\ raced \in BOOLEAN
  /\ ran \in Nat
  /\ calls \in Seq([index : Nat, at : Nat])

Init ==
  /\ count \in Counts /\ onMain \in BOOLEAN
  /\ caller = "fields"
  /\ index = 0
  /\ timer = None /\ live = {} /\ left = [t \in Timers |-> 0]
  /\ remaining = 0
  /\ app \in {"active", "inactive", "background"} /\ switches = 0
  /\ stopped = FALSE /\ raced = FALSE
  /\ ran = 0 /\ calls = <<>>

-----------------------------------------------------------------------------
(***************************************************************************)
(* Helpers.                                                                *)
(***************************************************************************)
IsScheduling == caller \in {"invalidate", "arm"}

\* The main thread runs nothing else while the caller schedules on it.
MainIsFree == ~(onMain /\ IsScheduling)

WasInitialized == caller # "fields"

\* scheduleTimerWithTimeInterval, with the NSTimers that stay in the run loop.
Arm(time, others) ==
  LET t == CHOOSE u \in Timers \ others : TRUE IN
  /\ timer' = t
  /\ live' = others \cup {t}
  /\ left' = [left EXCEPT ![t] = time]

\* invalidate: only the timer's own NSTimer leaves the run loop.
Invalidate ==
  timer' = None /\ live' = live \ {timer} /\ UNCHANGED left

-----------------------------------------------------------------------------
(***************************************************************************)
(* scheduleWithTimeIntervals.                                              *)
(***************************************************************************)
SetFields ==
  /\ caller = "fields" /\ caller' = "invalidate"
  /\ index' = 0
  /\ UNCHANGED <<count, onMain, nsVars, remaining, appVars, stopped, ran,
                 calls, raced>>

InvalidateFirst ==
  /\ caller = "invalidate" /\ caller' = "arm"
  /\ Invalidate
  /\ UNCHANGED <<count, onMain, index, remaining, appVars, stopped, ran,
                 calls, raced>>

ArmFirst ==
  /\ caller = "arm" /\ caller' = "done"
  /\ Arm(Interval, live)
  /\ UNCHANGED <<count, onMain, index, remaining, appVars, stopped, ran,
                 calls, raced>>

Caller == SetFields \/ InvalidateFirst \/ ArmFirst

-----------------------------------------------------------------------------
(***************************************************************************)
(* The main thread.                                                        *)
(***************************************************************************)
\* A mutant: the bounds of the intervals are not checked.
TimesUpUnchecked(t) ==
  /\ MainIsFree /\ t \in live /\ left[t] = 0
  /\ calls' = Append(calls, [index |-> index, at |-> ran])
  /\ index' = index + 1
  /\ Arm(IF index < count THEN Interval ELSE 0, live \ {t, timer})
  /\ UNCHANGED <<count, onMain, caller, remaining, appVars, stopped, ran,
                 raced>>

\* timesUp: the NSTimer that fires is spent, whether or not it is the timer's.
TimesUp(t) ==
  /\ MainIsFree /\ t \in live /\ left[t] = 0
  /\ calls' = Append(calls, [index |-> index, at |-> ran])
  /\ index' = index + 1
  /\ IF index + 1 < count
     THEN Arm(Interval, live \ {t, timer})
     ELSE /\ timer' = None /\ live' = live \ {t, timer}
          /\ UNCHANGED left
  /\ UNCHANGED <<count, onMain, caller, remaining, appVars, stopped, ran,
                 raced>>

Tick ==
  /\ \E t \in live : left[t] > 0
  /\ left' = [t \in Timers |-> IF t \in live /\ left[t] > 0 THEN left[t] - 1
                               ELSE left[t]]
  /\ ran' = ran + 1
  /\ UNCHANGED <<count, onMain, caller, index, timer, live, remaining,
                 appVars, stopped, calls, raced>>

\* A mutant: the remaining time is not saved.
PauseUnsaved ==
  IF ~stopped /\ WasInitialized /\ timer # None
  THEN Invalidate /\ UNCHANGED remaining
  ELSE UNCHANGED <<remaining, nsVars>>

Pause ==
  IF ~stopped /\ WasInitialized /\ timer # None
  THEN remaining' = left[timer] /\ Invalidate
  ELSE UNCHANGED <<remaining, nsVars>>

\* A mutant: the timer is armed though it is valid.
ResumeValid ==
  IF ~stopped /\ WasInitialized /\ Cardinality(live) < 2
  THEN Arm(remaining, live) /\ raced' = (raced \/ IsScheduling)
  ELSE UNCHANGED <<nsVars, raced>>

\* A mutant: what is left over is armed only if it is something.
ResumeIfLeft ==
  IF ~stopped /\ WasInitialized /\ timer = None /\ remaining > 0
  THEN Arm(remaining, live) /\ raced' = (raced \/ IsScheduling)
  ELSE UNCHANGED <<nsVars, raced>>

\* A timer that has called its block for the last time is armed as well.
Resume ==
  IF ~stopped /\ WasInitialized /\ timer = None
  THEN Arm(remaining, live) /\ raced' = (raced \/ IsScheduling)
  ELSE UNCHANGED <<nsVars, raced>>

Switch == MainIsFree /\ switches < MaxSwitches /\ switches' = switches + 1

BecomeActive ==
  /\ Switch /\ app = "inactive" /\ app' = "active"
  /\ Resume
  /\ UNCHANGED <<count, onMain, caller, index, remaining, stopped, ran,
                 calls>>

EnterBackground ==
  /\ Switch /\ app = "inactive" /\ app' = "background"
  /\ Pause
  /\ UNCHANGED <<count, onMain, caller, index, stopped, ran, calls, raced>>

\* willResignActive and willEnterForeground: the timer does not listen.
BecomeInactive ==
  /\ Switch /\ app # "inactive" /\ app' = "inactive"
  /\ UNCHANGED <<count, onMain, caller, index, nsVars, remaining, stopped,
                 ran, calls, raced>>

\* The owner invalidates the timer and releases it.
Stop ==
  /\ caller = "done" /\ ~stopped /\ stopped' = TRUE
  /\ Invalidate
  /\ UNCHANGED <<count, onMain, caller, index, remaining, appVars, ran, calls,
                 raced>>

Fire == \E t \in Timers : TimesUp(t)

Next ==
  \/ Caller \/ Fire \/ Tick \/ Stop
  \/ BecomeActive \/ EnterBackground \/ BecomeInactive

\* Time passes, and what is due runs; the application changes as it likes.
Spec ==
  Init /\ [][Next]_vars /\ WF_vars(Caller) /\ WF_vars(Fire) /\ WF_vars(Tick)

-----------------------------------------------------------------------------
(***************************************************************************)
(* Properties.  All but the last leave out what follows an application     *)
(* that becomes active in the middle of a schedule: then two NSTimers may  *)
(* be live, and a TTL may expire at once.                                  *)
(***************************************************************************)
(***************************************************************************)
(* However often the application changes, schedule, pause, resume and      *)
(* timesUp leave one NSTimer at most, and none once the owner has released *)
(* the timer.                                                              *)
(***************************************************************************)
OneTimerIsLive ==
  ~raced => live \subseteq {timer} /\ (stopped => live = {})

(***************************************************************************)
(* The block is called with 0, 1, and so on, and never before the NSTimers *)
(* have run for all intervals until then: a pause neither loses nor gains  *)
(* time.  (Beyond the last interval a resumed timer calls at once.)        *)
(***************************************************************************)
IntervalsAreKept ==
  ~raced => \A i \in DOMAIN calls :
    /\ calls[i].index = i - 1
    /\ i <= count => calls[i].at = i * Interval

(***************************************************************************)
(* If the application stays active, a timer that is not stopped calls its  *)
(* block for every interval, also when it was scheduled or resumed in the  *)
(* middle of a change.                                                     *)
(***************************************************************************)
EveryIntervalIsCalled ==
  <>[](app = "active") => <>(stopped \/ Len(calls) >= count)
=============================================================================
