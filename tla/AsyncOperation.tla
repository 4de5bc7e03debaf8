--------------------------- MODULE AsyncOperation ---------------------------
(***************************************************************************)
(* USRVWebViewAsyncOperation: a call to the web view whose answer is       *)
(* awaited on a serial queue.                                              *)
(*                                                                         *)
(* The queue runs one operation at a time.  An operation makes a condition *)
(* of its own, publishes it as the lock of a storage that all operations   *)
(* share, sends its invocation and waits on the condition until it is      *)
(* signalled or the waiting time is over; it is completed with the status  *)
(* of the storage.  The web view's answer runs on the main thread: it sets *)
(* the status, then locks, signals and unlocks the lock of the storage,    *)
(* which it reads anew each time.  Nothing says whose answer it is, so an  *)
(* answer that comes late meets the storage of a later operation.          *)
(***************************************************************************)
EXTENDS Naturals, FiniteSets

CONSTANTS
  Count,      \* number of operations; operation i is the i-th in the queue
  WaitTimes   \* the waiting times (webViewTimeout / 1000) to choose from

ASSUME CountAssumption == Count \in Nat \ {0}
ASSUME WaitAssumption  == WaitTimes \subseteq Nat

Ops      == 1..Count
Statuses == {"idle", "waiting", "ok", "error", "timeout"}

Nil == 0  \* no lock

VARIABLES
  waitTime,   \* the waiting time of the invoker, fixed
  cur,        \* the operation that runs, or the last one that did
  pc,         \* where the operation queue is
  success,    \* what waitUntilDate has returned
  main,       \* where the main thread is in callback
  answering,  \* the operation whose answer the main thread processes
  held,       \* the lock that the main thread has read in signalLock
  lock,       \* storage: the condition of the operation that waits
  status,     \* storage: the status
  owner,      \* who holds the mutex of each condition
  answer,     \* the web view's answer to each operation
  result      \* the status each operation was completed with

vars == <<waitTime, cur, pc, success, main, answering, held, lock, status,
          owner, answer, result>>

mainVars == <<main, answering, held>>

TypeOK ==
  /\ waitTime \in WaitTimes
  /\ cur \in 0..Count
  /\ pc \in {"idle", "publish", "send", "lock", "wait", "asleep", "awake",
             "unlock", "clear", "timeout", "complete"}
  /\ success \in BOOLEAN
  /\ main \in {"idle", "process", "read", "lock", "signal", "unlock"}
  /\ answering \in Ops \cup {Nil}
  /\ held \in Ops \cup {Nil}
  /\ lock \in Ops \cup {Nil}
  /\ status \in Statuses
  /\ owner \in [Ops -> {"nobody", "queue", "main"}]
  /\ answer \in [Ops -> {"none", "awaited", "ok", "error"}]
  /\ result \in [Ops -> Statuses \cup {"none"}]

Init ==
  /\ waitTime \in WaitTimes
  /\ cur = 0 /\ pc = "idle" /\ success = FALSE
  /\ main = "idle" /\ answering = Nil /\ held = Nil
  /\ lock = Nil /\ status = "idle"
  /\ owner = [o \in Ops |-> "nobody"]
  /\ answer = [o \in Ops |-> "none"]
  /\ result = [o \in Ops |-> "none"]

-----------------------------------------------------------------------------
(***************************************************************************)
(* The operation queue: main, then the completion.                         *)
(***************************************************************************)
\* A mutant: the status of the last operation is left in the storage.
StartWithOldStatus ==
  /\ pc = "idle" /\ cur < Count
  /\ cur' = cur + 1
  /\ pc' = "publish"
  /\ UNCHANGED <<waitTime, success, mainVars, lock, status, owner, answer,
                 result>>

Start ==
  /\ pc = "idle" /\ cur < Count
  /\ cur' = cur + 1
  /\ status' = "waiting"
  /\ pc' = "publish"
  /\ UNCHANGED <<waitTime, success, mainVars, lock, owner, answer, result>>

Publish ==
  /\ pc = "publish"
  /\ lock' = cur
  /\ pc' = "send"
  /\ UNCHANGED <<waitTime, cur, success, mainVars, status, owner, answer,
                 result>>

\* The invocation is dropped when the web application is not loaded.
Send ==
  /\ pc = "send"
  /\ \E a \in {"none", "awaited"} : answer' = [answer EXCEPT ![cur] = a]
  /\ pc' = "lock"
  /\ UNCHANGED <<waitTime, cur, success, mainVars, lock, status, owner,
                 result>>

\* Without a waiting time the condition stays locked and in the storage.
Lock ==
  /\ pc = "lock"
  /\ owner[lock] = "nobody"
  /\ owner' = [owner EXCEPT ![lock] = "queue"]
  /\ pc' = IF waitTime > 0 THEN "wait" ELSE "complete"
  /\ UNCHANGED <<waitTime, cur, success, mainVars, lock, status, answer,
                 result>>

\* Only what the queue owns can be released by it.
Release(l) ==
  owner' = IF owner[l] = "queue" THEN [owner EXCEPT ![l] = "nobody"] ELSE owner

Wait ==
  /\ pc = "wait"
  /\ Release(lock)
  /\ pc' = "asleep"
  /\ UNCHANGED <<waitTime, cur, success, mainVars, lock, status, answer,
                 result>>

\* The time is over, or the condition wakes up without a signal.
WakeUp ==
  /\ pc = "asleep"
  /\ success' \in BOOLEAN
  /\ pc' = "awake"
  /\ UNCHANGED <<waitTime, cur, mainVars, lock, status, owner, answer,
                 result>>

Relock ==
  /\ pc = "awake"
  /\ owner[lock] = "nobody"
  /\ owner' = [owner EXCEPT ![lock] = "queue"]
  /\ pc' = "unlock"
  /\ UNCHANGED <<waitTime, cur, success, mainVars, lock, status, answer,
                 result>>

\* A mutant: the queue forgets to unlock its condition.
UnlockForgotten ==
  /\ pc = "unlock"
  /\ pc' = "clear"
  /\ UNCHANGED <<waitTime, cur, success, mainVars, lock, status, owner,
                 answer, result>>

Unlock ==
  /\ pc = "unlock"
  /\ Release(lock)
  /\ pc' = "clear"
  /\ UNCHANGED <<waitTime, cur, success, mainVars, lock, status, answer,
                 result>>

Clear ==
  /\ pc = "clear"
  /\ lock' = Nil
  /\ pc' = IF success THEN "complete" ELSE "timeout"
  /\ UNCHANGED <<waitTime, cur, success, mainVars, status, owner, answer,
                 result>>

TimeOut ==
  /\ pc = "timeout"
  /\ status' = "timeout"
  /\ pc' = "complete"
  /\ UNCHANGED <<waitTime, cur, success, mainVars, lock, owner, answer,
                 result>>

\* A mutant: an operation is completed with the state of its callback.
CompleteWithCallback ==
  /\ pc = "complete"
  /\ result' = [result EXCEPT ![cur] = answer[cur]]
  /\ pc' = "idle"
  /\ UNCHANGED <<waitTime, cur, success, mainVars, lock, status, owner,
                 answer>>

Complete ==
  /\ pc = "complete"
  /\ result' = [result EXCEPT ![cur] = status]
  /\ pc' = "idle"
  /\ UNCHANGED <<waitTime, cur, success, mainVars, lock, status, owner,
                 answer>>

QueueStep ==
  \/ Start \/ Publish \/ Send \/ Lock \/ Wait \/ WakeUp \/ Relock
  \/ Unlock \/ Clear \/ TimeOut \/ Complete

-----------------------------------------------------------------------------
(***************************************************************************)
(* The main thread: callback.  A native callback is removed when it has    *)
(* been invoked, so an operation is answered once, whenever that may be.   *)
(***************************************************************************)
Callback(o, a) ==
  /\ main = "idle"
  /\ answer[o] = "awaited"
  /\ answer' = [answer EXCEPT ![o] = a]
  /\ answering' = o
  /\ main' = IF lock = Nil THEN "idle" ELSE "process"
  /\ UNCHANGED <<waitTime, cur, pc, success, held, lock, status, owner,
                 result>>

ProcessResponse ==
  /\ main = "process"
  /\ status' = answer[answering]
  /\ main' = "read"
  /\ UNCHANGED <<waitTime, cur, pc, success, answering, held, lock, owner,
                 answer, result>>

\* A message to no lock has no effect.
ReadLock ==
  /\ main = "read"
  /\ held' = lock
  /\ main' = IF lock = Nil THEN "signal" ELSE "lock"
  /\ UNCHANGED <<waitTime, cur, pc, success, answering, lock, status, owner,
                 answer, result>>

LockHeld ==
  /\ main = "lock"
  /\ owner[held] = "nobody"
  /\ owner' = [owner EXCEPT ![held] = "main"]
  /\ main' = "signal"
  /\ UNCHANGED <<waitTime, cur, pc, success, answering, held, lock, status,
                 answer, result>>

\* A signal reaches the operation that sleeps on the lock, and nobody else.
SignalLock ==
  /\ main = "signal"
  /\ IF lock # Nil /\ pc = "asleep"
     THEN pc' = "awake" /\ success' = TRUE
     ELSE UNCHANGED <<pc, success>>
  /\ main' = "unlock"
  /\ UNCHANGED <<waitTime, cur, answering, held, lock, status, owner, answer,
                 result>>

\* A mutant: the main thread forgets to unlock.
LeaveLocked ==
  /\ main = "unlock"
  /\ main' = "idle"
  /\ UNCHANGED <<waitTime, cur, pc, success, answering, held, lock, status,
                 owner, answer, result>>

\* To unlock a mutex that the main thread does not hold is undefined: it has
\* no effect, or it takes the mutex from whoever holds it.
UnlockLock ==
  /\ main = "unlock"
  /\ \/ lock # Nil /\ owner' = [owner EXCEPT ![lock] = "nobody"]
     \/ lock = Nil /\ UNCHANGED owner
     \/ lock # Nil /\ owner[lock] # "main" /\ UNCHANGED owner
  /\ main' = "idle"
  /\ UNCHANGED <<waitTime, cur, pc, success, answering, held, lock, status,
                 answer, result>>

MainStep ==
  \/ ProcessResponse \/ ReadLock \/ LockHeld \/ SignalLock \/ UnlockLock

Next ==
  \/ QueueStep
  \/ MainStep
  \/ \E o \in Ops, a \in {"ok", "error"} : Callback(o, a)

(***************************************************************************)
(* The queue and the main thread run what they have begun, and the waiting *)
(* time passes.  The web view need not answer.                             *)
(***************************************************************************)
Spec == Init /\ [][Next]_vars /\ WF_vars(QueueStep) /\ WF_vars(MainStep)

-----------------------------------------------------------------------------
(***************************************************************************)
(* Properties.                                                             *)
(***************************************************************************)
(***************************************************************************)
(* An answer completes one operation at most, and none that precedes its   *)
(* own: up to any operation, no more operations are completed with a       *)
(* status than the web view has given answers of that status.              *)
(***************************************************************************)
EachAnswerCountsOnce ==
  \A o \in Ops, a \in {"ok", "error"} :
    Cardinality({p \in 1..o : result[p] = a})
      <= Cardinality({p \in 1..o : answer[p] = a})

(***************************************************************************)
(* Every operation is completed, however the web view answers and with     *)
(* whatever waiting time, so that the queue never stops: the module that   *)
(* waits for the outcome is told one.                                      *)
(***************************************************************************)
EveryOperationCompletes == \A o \in Ops : <>(result[o] # "none")

(***************************************************************************)
(* With a waiting time, the main thread always comes back from callback:   *)
(* the condition it locks is not kept by the queue, nor lost by it.        *)
(***************************************************************************)
MainIsNeverStuck == waitTime > 0 => [](main # "idle" => <>(main = "idle"))

(***************************************************************************)
(* The status of an operation is what the web view answered to it, or a    *)
(* timeout if it did not (the tests of USRVWebViewAsyncOperation).  It is  *)
(* not so: an answer that comes late completes a later operation.          *)
(***************************************************************************)
StatusIsOwn ==
  \A o \in Ops : result[o] \in {"ok", "error"} => result[o] = answer[o]
=============================================================================
