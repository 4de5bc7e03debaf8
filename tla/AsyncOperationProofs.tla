------------------------ MODULE AsyncOperationProofs ------------------------
(***************************************************************************)
(* Proofs about AsyncOperation, for any number of operations and whatever  *)
(* the waiting time: that an answer of the web view completes one          *)
(* operation at most, though nothing says whose answer it is.              *)
(***************************************************************************)
EXTENDS AsyncOperation, FiniteSetTheorems, TLAPS

-----------------------------------------------------------------------------
(***************************************************************************)
(* The inductive invariant.                                                *)
(***************************************************************************)
\* The lock of the storage is that of the operation that waits.
LockIsOwn ==
  /\ pc # "idle" => cur \in Ops
  /\ pc \in {"send", "lock", "wait", "asleep", "awake", "unlock", "clear"} =>
       lock = cur
  /\ main = "lock" => held \in Ops

\* Nothing has been asked or told that lies ahead.
NothingIsAhead ==
  \A o \in Ops :
    /\ o > cur \/ (o = cur /\ pc \in {"publish", "send"}) =>
         answer[o] = "none"
    /\ o > cur \/ (o = cur /\ pc # "idle") => result[o] = "none"

\* The answer that the main thread is about to store was given to an
\* operation that has run.
AnswerIsGiven ==
  main = "process" =>
    answering \in Ops /\ answering <= cur
      /\ answer[answering] \in {"ok", "error"}

\* The answers a up to operation o, and the operations completed with it.
CountOf(f, o, a) == Cardinality({p \in 1..o : f[p] = a})
Answers(o, a) == CountOf(answer, o, a)
Results(o, a) == CountOf(result, o, a)

\* The answer may still complete the operation that runs: it is in the
\* storage, or the main thread is about to store it.
Stored(o, a)  == IF pc # "idle" /\ status = a /\ cur <= o THEN 1 ELSE 0
Brought(o, a) ==
  IF main = "process" /\ answer[answering] = a /\ answering <= o THEN 1 ELSE 0

\* An answer that may still be used has not been used.
AnswersSuffice ==
  \A o \in Ops, a \in {"ok", "error"} :
    Results(o, a) + Stored(o, a) + Brought(o, a) <= Answers(o, a)

IInv ==
  TypeOK /\ LockIsOwn /\ NothingIsAhead /\ AnswerIsGiven /\ AnswersSuffice

-----------------------------------------------------------------------------
(***************************************************************************)
(* Counting.                                                               *)
(***************************************************************************)
\* The operations up to one are finitely many.
LEMMA CountIsFinite ==
  ASSUME NEW f, NEW o \in Ops, NEW a
  PROVE  IsFiniteSet({p \in 1..o : f[p] = a})
<1>1. o \in Int
  BY DEF Ops
<1>2. IsFiniteSet(1..o)
  BY <1>1, FS_Interval
<1> QED BY <1>2, FS_Subset

LEMMA CountIsNat ==
  ASSUME NEW f, NEW o \in Ops, NEW a
  PROVE  CountOf(f, o, a) \in Nat
BY CountIsFinite, FS_CardinalityType DEF CountOf

\* A new value of one operation counts for it and for those after it.
LEMMA CountOfUpdate ==
  ASSUME NEW f, NEW g, NEW x \in Ops, NEW v, NEW o \in Ops, NEW a,
         f[x] # a, g[x] = v, \A p \in Ops \ {x} : g[p] = f[p]
  PROVE  /\ v = a /\ x <= o => CountOf(g, o, a) = CountOf(f, o, a) + 1
         /\ ~(v = a /\ x <= o) => CountOf(g, o, a) = CountOf(f, o, a)
<1> DEFINE old == {p \in 1..o : f[p] = a}
           new == {p \in 1..o : g[p] = a}
<1>1. IsFiniteSet(old)
  BY ONLY o \in Ops, CountIsFinite
<1>2. 1..o \subseteq Ops /\ x \notin old /\ (x \in 1..o <=> x <= o)
  BY CountAssumption DEF Ops
<1>3. \A p \in 1..o : g[p] = IF p = x THEN v ELSE f[p]
  BY <1>2
<1>4. CASE v = a /\ x <= o
  <2>1. new = old \cup {x}
    BY <1>2, <1>3, <1>4
  <2>2. Cardinality(old \cup {x}) = Cardinality(old) + 1
    BY <1>1, <1>2, FS_AddElement
  <2> QED BY <1>4, <2>1, <2>2 DEF CountOf
<1>5. CASE ~(v = a /\ x <= o)
  <2>1. new = old
    BY <1>2, <1>3, <1>5
  <2> QED BY <1>5, <2>1 DEF CountOf
<1> QED BY <1>4, <1>5

\* What is counted is a number, and what is pending is one or nothing.
LEMMA CountsAreNat ==
  ASSUME NEW o \in Ops, NEW a \in {"ok", "error"}
  PROVE  /\ Answers(o, a) \in Nat /\ Results(o, a) \in Nat
         /\ Stored(o, a) \in {0, 1} /\ Brought(o, a) \in {0, 1}
BY CountIsNat DEF Answers, Results, Stored, Brought

\* Every step of the system, by its action.
LEMMA Steps ==
  ASSUME [Next]_vars
  PROVE  \/ UNCHANGED vars
         \/ Start \/ Publish \/ Send \/ Lock \/ Wait \/ WakeUp \/ Relock
         \/ Unlock \/ Clear \/ TimeOut \/ Complete
         \/ ProcessResponse \/ ReadLock \/ LockHeld \/ SignalLock
         \/ UnlockLock
         \/ \E o \in Ops, a \in {"ok", "error"} : Callback(o, a)
BY DEF Next, QueueStep, MainStep

-----------------------------------------------------------------------------
LEMMA InitIsInvariant == Init => IInv
<1> SUFFICES ASSUME Init PROVE IInv
  OBVIOUS
<1>1. TypeOK
  <2>1. cur \in 0..Count
    BY CountAssumption DEF Init
  <2>2. /\ answering \in Ops \cup {Nil} /\ held \in Ops \cup {Nil}
        /\ lock \in Ops \cup {Nil}
    BY DEF Init
  <2>3. /\ owner \in [Ops -> {"nobody", "queue", "main"}]
        /\ answer \in [Ops -> {"none", "awaited", "ok", "error"}]
        /\ result \in [Ops -> Statuses \cup {"none"}]
    BY DEF Init
  <2> QED BY <2>1, <2>2, <2>3 DEF Init, TypeOK, Statuses
<1>2. LockIsOwn /\ AnswerIsGiven
  BY DEF Init, LockIsOwn, AnswerIsGiven
<1>3. NothingIsAhead
  BY DEF Init, NothingIsAhead
<1>4. ASSUME NEW o \in Ops, NEW a \in {"ok", "error"}
      PROVE  Results(o, a) + Stored(o, a) + Brought(o, a) <= Answers(o, a)
  <2>1. 1..o \subseteq Ops
    BY CountAssumption DEF Ops
  <2>2. {p \in 1..o : result[p] = a} = {} /\ {p \in 1..o : answer[p] = a} = {}
    BY <2>1 DEF Init
  <2>3. Results(o, a) = 0 /\ Answers(o, a) = 0
    BY <2>2, FS_EmptySet DEF Results, Answers, CountOf
  <2>4. Stored(o, a) = 0 /\ Brought(o, a) = 0
    BY DEF Init, Stored, Brought
  <2> QED BY <2>3, <2>4
<1>5. AnswersSuffice
  BY <1>4 DEF AnswersSuffice
<1> QED BY <1>1, <1>2, <1>3, <1>5 DEF IInv

-----------------------------------------------------------------------------
(***************************************************************************)
(* Type correctness.                                                       *)
(***************************************************************************)
LEMMA QueueIsTyped ==
  ASSUME IInv, [Next]_vars
  PROVE  /\ waitTime' \in WaitTimes /\ cur' \in 0..Count
         /\ pc' \in {"idle", "publish", "send", "lock", "wait", "asleep",
                     "awake", "unlock", "clear", "timeout", "complete"}
         /\ success' \in BOOLEAN
<1>1. /\ waitTime \in WaitTimes /\ cur \in 0..Count
      /\ pc \in {"idle", "publish", "send", "lock", "wait", "asleep",
                 "awake", "unlock", "clear", "timeout", "complete"}
      /\ success \in BOOLEAN
  BY DEF IInv, TypeOK
<1>2. waitTime' = waitTime
  BY Steps DEF vars, Start, Publish, Send, Lock, Wait, WakeUp, Relock, Unlock,
               Clear, TimeOut, Complete, ProcessResponse, ReadLock, LockHeld,
               SignalLock, UnlockLock, Callback
<1>3. cur' = cur \/ Start
  BY Steps DEF vars, Publish, Send, Lock, Wait, WakeUp, Relock, Unlock,
               Clear, TimeOut, Complete, ProcessResponse, ReadLock, LockHeld,
               SignalLock, UnlockLock, Callback
<1>4. cur' \in 0..Count
  BY <1>1, <1>3, CountAssumption DEF Start
<1>5. pc' = pc \/ pc' \in {"idle", "publish", "send", "lock", "wait", "asleep",
                     "awake", "unlock", "clear", "timeout", "complete"}
  BY Steps DEF vars, Start, Publish, Send, Lock, Wait, WakeUp, Relock, Unlock,
               Clear, TimeOut, Complete, ProcessResponse, ReadLock, LockHeld,
               SignalLock, UnlockLock, Callback
<1>6. success' = success \/ success' \in BOOLEAN
  BY Steps DEF vars, Start, Publish, Send, Lock, Wait, WakeUp, Relock, Unlock,
               Clear, TimeOut, Complete, ProcessResponse, ReadLock, LockHeld,
               SignalLock, UnlockLock, Callback
<1> QED BY <1>1, <1>2, <1>4, <1>5, <1>6

LEMMA MainIsTyped ==
  ASSUME IInv, [Next]_vars
  PROVE  /\ main' \in {"idle", "process", "read", "lock", "signal", "unlock"}
         /\ answering' \in Ops \cup {Nil} /\ held' \in Ops \cup {Nil}
         /\ lock' \in Ops \cup {Nil}
<1>1. /\ main \in {"idle", "process", "read", "lock", "signal", "unlock"}
      /\ answering \in Ops \cup {Nil} /\ held \in Ops \cup {Nil}
      /\ lock \in Ops \cup {Nil}
      /\ pc # "idle" => cur \in Ops
  BY DEF IInv, TypeOK, LockIsOwn
<1>2. main' = main \/ main' \in {"idle", "process", "read", "lock", "signal",
                               "unlock"}
  BY Steps DEF vars, mainVars, Start, Publish, Send, Lock, Wait, WakeUp,
               Relock, Unlock, Clear, TimeOut, Complete, ProcessResponse,
               ReadLock, LockHeld, SignalLock, UnlockLock, Callback
<1>3. answering' = answering \/ answering' \in Ops
  BY Steps DEF vars, mainVars, Start, Publish, Send, Lock, Wait, WakeUp,
               Relock, Unlock, Clear, TimeOut, Complete, ProcessResponse,
               ReadLock, LockHeld, SignalLock, UnlockLock, Callback
<1>4. held' = held \/ held' = lock
  BY Steps DEF vars, mainVars, Start, Publish, Send, Lock, Wait, WakeUp,
               Relock, Unlock, Clear, TimeOut, Complete, ProcessResponse,
               ReadLock, LockHeld, SignalLock, UnlockLock, Callback
<1>5. lock' = lock \/ lock' = Nil \/ Publish
  BY Steps DEF vars, mainVars, Start, Send, Lock, Wait, WakeUp,
               Relock, Unlock, Clear, TimeOut, Complete, ProcessResponse,
               ReadLock, LockHeld, SignalLock, UnlockLock, Callback
<1>6. lock' \in Ops \cup {Nil}
  BY <1>1, <1>5 DEF Publish
<1> QED BY <1>1, <1>2, <1>3, <1>4, <1>6

LEMMA StorageIsTyped ==
  ASSUME IInv, [Next]_vars
  PROVE  /\ status' \in Statuses
         /\ owner' \in [Ops -> {"nobody", "queue", "main"}]
         /\ answer' \in [Ops -> {"none", "awaited", "ok", "error"}]
         /\ result' \in [Ops -> Statuses \cup {"none"}]
<1>1. /\ status \in Statuses
      /\ owner \in [Ops -> {"nobody", "queue", "main"}]
      /\ answer \in [Ops -> {"none", "awaited", "ok", "error"}]
      /\ result \in [Ops -> Statuses \cup {"none"}]
  BY DEF IInv, TypeOK
<1>2. status' \in Statuses
  <2>1. \/ status' \in {status, "waiting", "timeout"}
        \/ main = "process" /\ status' = answer[answering]
    BY Steps DEF vars, Start, Publish, Send, Lock, Wait, WakeUp,
                 Relock, Unlock, Clear, TimeOut, Complete, ProcessResponse,
                 ReadLock, LockHeld, SignalLock, UnlockLock, Callback
  <2> QED BY <1>1, <2>1 DEF IInv, AnswerIsGiven, Statuses
<1>3. owner' \in [Ops -> {"nobody", "queue", "main"}]
  <2>1. \/ owner' = owner
        \/ \E l \in {lock, held}, w \in {"nobody", "queue", "main"} :
             owner' = [owner EXCEPT ![l] = w]
    BY Steps DEF vars, Start, Publish, Send, Lock, Wait, WakeUp,
                 Relock, Unlock, Clear, TimeOut, Complete, ProcessResponse,
                 ReadLock, LockHeld, SignalLock, UnlockLock, Callback, Release
  <2> QED BY <1>1, <2>1
<1>4. answer' \in [Ops -> {"none", "awaited", "ok", "error"}]
  <2>1. \/ answer' = answer
        \/ \E o \in Ops \cup {cur}, a \in {"none", "awaited", "ok", "error"} :
             answer' = [answer EXCEPT ![o] = a]
    BY Steps DEF vars, Start, Publish, Send, Lock, Wait, WakeUp,
                 Relock, Unlock, Clear, TimeOut, Complete, ProcessResponse,
                 ReadLock, LockHeld, SignalLock, UnlockLock, Callback
  <2> QED BY <1>1, <2>1
<1>5. result' \in [Ops -> Statuses \cup {"none"}]
  <2>1. result' = result \/ result' = [result EXCEPT ![cur] = status]
    BY Steps DEF vars, Start, Publish, Send, Lock, Wait, WakeUp,
                 Relock, Unlock, Clear, TimeOut, Complete, ProcessResponse,
                 ReadLock, LockHeld, SignalLock, UnlockLock, Callback
  <2> QED BY <1>1, <2>1
<1> QED BY <1>2, <1>3, <1>4, <1>5

LEMMA TypeAfter == ASSUME IInv, [Next]_vars PROVE TypeOK'
BY QueueIsTyped, MainIsTyped, StorageIsTyped DEF TypeOK

-----------------------------------------------------------------------------
(***************************************************************************)
(* Where an answer is.                                                     *)
(***************************************************************************)
LEMMA LockStaysOwn ==
  ASSUME IInv, [Next]_vars PROVE LockIsOwn'
<1>1. /\ pc # "idle" => cur \in Ops
      /\ pc \in {"send", "lock", "wait", "asleep", "awake", "unlock", "clear"}
           => lock = cur
      /\ main = "lock" => held \in Ops
      /\ lock \in Ops \cup {Nil} /\ cur \in 0..Count
  BY DEF IInv, TypeOK, LockIsOwn
<1>2. CASE UNCHANGED <<pc, cur, lock, main, held>>
  BY <1>1, <1>2 DEF LockIsOwn
<1>3. CASE Start
  <2>1. cur' \in Ops
    BY <1>1, <1>3, CountAssumption DEF Start, Ops
  <2> QED BY <1>1, <1>3, <2>1 DEF Start, mainVars, LockIsOwn
<1>4. CASE Publish
  BY <1>1, <1>4 DEF Publish, mainVars, LockIsOwn
<1>5. CASE Send \/ Lock \/ Wait \/ WakeUp \/ Relock \/ Unlock \/ Clear
             \/ TimeOut \/ Complete
  BY <1>1, <1>5 DEF Send, Lock, Wait, WakeUp, Relock, Unlock, Clear, TimeOut,
                    Complete, mainVars, LockIsOwn
<1>6. CASE ReadLock
  BY <1>1, <1>6 DEF ReadLock, LockIsOwn
<1>7. CASE ProcessResponse \/ LockHeld \/ SignalLock \/ UnlockLock
             \/ \E o \in Ops, a \in {"ok", "error"} : Callback(o, a)
  BY <1>1, <1>7 DEF ProcessResponse, LockHeld, SignalLock, UnlockLock,
                    Callback, LockIsOwn
<1>8. CASE UNCHANGED vars
  BY <1>2, <1>8 DEF vars, mainVars
<1> QED BY <1>3, <1>4, <1>5, <1>6, <1>7, <1>8, Steps

\* Who is ahead is only whom the queue has not reached.
LEMMA NothingStaysAhead ==
  ASSUME IInv, [Next]_vars PROVE NothingIsAhead'
<1>1. \A o \in Ops :
        /\ o > cur \/ (o = cur /\ pc \in {"publish", "send"}) =>
             answer[o] = "none"
        /\ o > cur \/ (o = cur /\ pc # "idle") => result[o] = "none"
  BY DEF IInv, NothingIsAhead
<1>2. /\ cur \in Nat /\ Ops \subseteq Nat
      /\ answer \in [Ops -> {"none", "awaited", "ok", "error"}]
      /\ result \in [Ops -> Statuses \cup {"none"}]
      /\ pc # "idle" => cur \in Ops
  BY CountAssumption DEF IInv, TypeOK, LockIsOwn, Ops
<1>3. CASE UNCHANGED <<pc, cur, answer, result>>
  BY <1>1, <1>3 DEF NothingIsAhead
<1>4. CASE Start
  <2>1. /\ cur' = cur + 1 /\ pc' = "publish" /\ UNCHANGED <<answer, result>>
    BY <1>4 DEF Start
  <2>2. \A o \in Ops : o > cur' \/ o = cur' => o > cur
    BY <1>2, <2>1
  <2> QED BY <1>1, <2>1, <2>2 DEF NothingIsAhead
<1>5. CASE Publish \/ Lock \/ Wait \/ WakeUp \/ Relock \/ Unlock \/ Clear
             \/ TimeOut \/ SignalLock
  <2>1. /\ UNCHANGED <<cur, answer, result>> /\ (pc # "idle" \/ pc' = pc)
        /\ pc' \in {"publish", "send"} => pc \in {"publish", "send"}
    BY <1>5 DEF Publish, Lock, Wait, WakeUp, Relock, Unlock, Clear, TimeOut,
                SignalLock
  <2> QED BY <1>1, <2>1 DEF NothingIsAhead
<1>6. CASE Send
  <2>1. /\ UNCHANGED <<cur, result>> /\ pc # "idle" /\ pc' = "lock"
        /\ \E a \in {"none", "awaited"} : answer' = [answer EXCEPT ![cur] = a]
    BY <1>6 DEF Send
  <2>2. \A o \in Ops : o > cur => answer'[o] = answer[o]
    BY <1>2, <2>1
  <2> QED BY <1>1, <2>1, <2>2 DEF NothingIsAhead
<1>7. CASE Complete
  <2>1. /\ UNCHANGED <<cur, answer>> /\ pc' = "idle"
        /\ result' = [result EXCEPT ![cur] = status]
    BY <1>7 DEF Complete
  <2>2. \A o \in Ops : o > cur => result'[o] = result[o]
    BY <1>2, <2>1
  <2> QED BY <1>1, <2>1, <2>2 DEF NothingIsAhead
<1>8. ASSUME NEW p \in Ops, NEW a \in {"ok", "error"}, Callback(p, a)
      PROVE  NothingIsAhead'
  <2>1. /\ UNCHANGED <<cur, pc, result>> /\ answer[p] = "awaited"
        /\ answer' = [answer EXCEPT ![p] = a]
    BY <1>8 DEF Callback
  <2>2. \A o \in Ops : answer[o] = "none" => answer'[o] = answer[o]
    BY <1>2, <2>1
  <2> QED BY <1>1, <2>1, <2>2 DEF NothingIsAhead
<1>9. CASE ProcessResponse \/ ReadLock \/ LockHeld \/ UnlockLock
             \/ UNCHANGED vars
  BY <1>3, <1>9 DEF ProcessResponse, ReadLock, LockHeld, UnlockLock, vars
<1> QED BY <1>4, <1>5, <1>6, <1>7, <1>8, <1>9, Steps

\* The main thread stores an answer that was given.
LEMMA AnswerStaysGiven ==
  ASSUME IInv, [Next]_vars PROVE AnswerIsGiven'
<1>1. /\ main = "process" =>
           answering \in Ops /\ answering <= cur
             /\ answer[answering] \in {"ok", "error"}
      /\ cur \in Nat /\ Ops \subseteq Nat
      /\ answer \in [Ops -> {"none", "awaited", "ok", "error"}]
  BY CountAssumption DEF IInv, TypeOK, AnswerIsGiven, Ops
<1>2. CASE UNCHANGED <<cur, main, answering, answer>>
  BY <1>1, <1>2 DEF AnswerIsGiven
<1>3. CASE Start
  <2>1. cur' = cur + 1 /\ UNCHANGED <<main, answering, answer>>
    BY <1>3 DEF Start, mainVars
  <2>2. main = "process" => answering <= cur + 1
    <3>1. ASSUME NEW q \in Nat, q <= cur PROVE q <= cur + 1
      BY <1>1, <3>1
    <3> QED BY <1>1, <3>1
  <2> QED BY <1>1, <2>1, <2>2 DEF AnswerIsGiven
<1>4. CASE Send
  <2>1. /\ UNCHANGED <<cur, main, answering>> /\ answer[cur] = "none"
        /\ \E a \in {"none", "awaited"} : answer' = [answer EXCEPT ![cur] = a]
    BY <1>4 DEF Send, mainVars, IInv, NothingIsAhead, LockIsOwn
  <2> QED BY <1>1, <2>1 DEF AnswerIsGiven
<1>5. ASSUME NEW o \in Ops, NEW a \in {"ok", "error"}, Callback(o, a)
      PROVE  AnswerIsGiven'
  <2>1. /\ cur' = cur /\ answering' = o /\ answer' = [answer EXCEPT ![o] = a]
        /\ answer[o] = "awaited"
    BY <1>5 DEF Callback
  <2>2. ~(o > cur)
    BY <2>1 DEF IInv, NothingIsAhead
  <2> QED BY <1>1, <2>1, <2>2 DEF AnswerIsGiven
<1>6. CASE ProcessResponse \/ ReadLock \/ LockHeld \/ SignalLock \/ UnlockLock
  BY <1>6 DEF ProcessResponse, ReadLock, LockHeld, SignalLock, UnlockLock,
              AnswerIsGiven
<1>7. CASE Publish \/ Lock \/ Wait \/ WakeUp \/ Relock \/ Unlock \/ Clear
             \/ TimeOut \/ Complete \/ UNCHANGED vars
  BY <1>2, <1>7 DEF Publish, Lock, Wait, WakeUp, Relock, Unlock, Clear,
                    TimeOut, Complete, mainVars, vars
<1> QED BY <1>3, <1>4, <1>5, <1>6, <1>7, Steps

-----------------------------------------------------------------------------
(***************************************************************************)
(* An answer is used once.                                                 *)
(***************************************************************************)
\* A step that brings no answer and completes nothing leaves the counts and
\* takes at most what is stored.
LEMMA OthersLeaveTheCounts ==
  ASSUME NEW o \in Ops, NEW a \in {"ok", "error"}, IInv,
         UNCHANGED <<result, answer, main, answering>>,
         Stored(o, a)' <= Stored(o, a)
  PROVE  (Results(o, a) + Stored(o, a) + Brought(o, a) <= Answers(o, a))'
<1>1. Results(o, a) + Stored(o, a) + Brought(o, a) <= Answers(o, a)
  BY DEF IInv, AnswersSuffice
<1>2. /\ Results(o, a)' = Results(o, a) /\ Answers(o, a)' = Answers(o, a)
      /\ Brought(o, a)' = Brought(o, a)
  BY DEF Results, Answers, Brought
<1>3. Stored(o, a)' \in {0, 1}
  BY DEF Stored
<1> QED BY <1>1, <1>2, <1>3, CountsAreNat

\* An answer the web view gives is one more for its operation and the later.
LEMMA AnswerIsOneMore ==
  ASSUME NEW o \in Ops, NEW a \in {"ok", "error"}, IInv,
         NEW p \in Ops, NEW b \in {"ok", "error"}, Callback(p, b)
  PROVE  (Results(o, a) + Stored(o, a) + Brought(o, a) <= Answers(o, a))'
<1>1. Results(o, a) + Stored(o, a) + Brought(o, a) <= Answers(o, a)
  BY DEF IInv, AnswersSuffice
<1>2. /\ UNCHANGED <<pc, status, cur, result>> /\ main = "idle"
      /\ answering' = p /\ answer' = [answer EXCEPT ![p] = b]
      /\ answer[p] = "awaited"
  BY DEF Callback
<1>3. /\ answer \in [Ops -> {"none", "awaited", "ok", "error"}]
      /\ answer[p] # a
  BY <1>2 DEF IInv, TypeOK
<1>4. Answers(o, a)' = Answers(o, a) + (IF b = a /\ p <= o THEN 1 ELSE 0)
  <2>0. answer'[p] = b /\ \A q \in Ops \ {p} : answer'[q] = answer[q]
    BY <1>2, <1>3
  <2>1. /\ b = a /\ p <= o =>
             CountOf(answer', o, a) = CountOf(answer, o, a) + 1
        /\ ~(b = a /\ p <= o) =>
             CountOf(answer', o, a) = CountOf(answer, o, a)
    BY <1>3, <2>0, CountOfUpdate
  <2>2. CountOf(answer, o, a) \in Nat
    BY CountIsNat
  <2> QED BY <2>1, <2>2 DEF Answers
<1>5. Results(o, a)' = Results(o, a) /\ Stored(o, a)' = Stored(o, a)
  BY <1>2 DEF Results, Stored
<1>6. Brought(o, a)' <= IF b = a /\ p <= o THEN 1 ELSE 0
  BY <1>2, <1>3 DEF Brought
<1>7. Brought(o, a) = 0 /\ Brought(o, a)' \in {0, 1}
  BY <1>2 DEF Brought
<1> QED BY <1>1, <1>4, <1>5, <1>6, <1>7, CountsAreNat

\* Storing an answer takes it from the main thread.
LEMMA StoringTakesTheAnswer ==
  ASSUME NEW o \in Ops, NEW a \in {"ok", "error"}, IInv, ProcessResponse
  PROVE  (Results(o, a) + Stored(o, a) + Brought(o, a) <= Answers(o, a))'
<1>1. Results(o, a) + Stored(o, a) + Brought(o, a) <= Answers(o, a)
  BY DEF IInv, AnswersSuffice
<1>2. /\ UNCHANGED <<pc, cur, result, answer>> /\ main = "process"
      /\ main' = "read" /\ status' = answer[answering]
  BY DEF ProcessResponse
<1>3. Results(o, a)' = Results(o, a) /\ Answers(o, a)' = Answers(o, a)
  BY <1>2 DEF Results, Answers
<1>4. Brought(o, a)' = 0 /\ Stored(o, a)' \in {0, 1}
  BY <1>2 DEF Brought, Stored
<1>5. Stored(o, a)' <= Brought(o, a)
  <2>1. answering \in Nat /\ answering <= cur /\ o \in Nat /\ cur \in Nat
    BY <1>2, CountAssumption DEF IInv, TypeOK, AnswerIsGiven, Ops
  <2>2. cur <= o => answering <= o
    BY <2>1
  <2> QED BY <1>2, <2>2 DEF Stored, Brought
<1> QED BY <1>1, <1>3, <1>4, <1>5, CountsAreNat

\* A completion takes the answer that is stored.
LEMMA CompletionTakesTheAnswer ==
  ASSUME NEW o \in Ops, NEW a \in {"ok", "error"}, IInv, Complete
  PROVE  (Results(o, a) + Stored(o, a) + Brought(o, a) <= Answers(o, a))'
<1>1. Results(o, a) + Stored(o, a) + Brought(o, a) <= Answers(o, a)
  BY DEF IInv, AnswersSuffice
<1>2. /\ UNCHANGED <<cur, answer, main, answering>> /\ pc = "complete"
      /\ pc' = "idle" /\ result' = [result EXCEPT ![cur] = status]
  BY DEF Complete, mainVars
<1>3. /\ result \in [Ops -> Statuses \cup {"none"}] /\ cur \in Ops
      /\ result[cur] = "none" /\ result[cur] # a
  BY <1>2 DEF IInv, TypeOK, LockIsOwn, NothingIsAhead
<1>4. Results(o, a)' = Results(o, a) + (IF status = a /\ cur <= o THEN 1 ELSE 0)
  <2>0. /\ result'[cur] = status
        /\ \A q \in Ops \ {cur} : result'[q] = result[q]
    BY <1>2, <1>3
  <2>1. /\ status = a /\ cur <= o =>
             CountOf(result', o, a) = CountOf(result, o, a) + 1
        /\ ~(status = a /\ cur <= o) =>
             CountOf(result', o, a) = CountOf(result, o, a)
    BY <1>3, <2>0, CountOfUpdate
  <2>2. CountOf(result, o, a) \in Nat
    BY CountIsNat
  <2> QED BY <2>1, <2>2 DEF Results
<1>5. Answers(o, a)' = Answers(o, a) /\ Brought(o, a)' = Brought(o, a)
  BY <1>2 DEF Answers, Brought
<1>6. Stored(o, a) = (IF status = a /\ cur <= o THEN 1 ELSE 0)
  BY <1>2 DEF Stored
<1>7. Stored(o, a)' = 0
  BY <1>2 DEF Stored
<1> QED BY <1>1, <1>4, <1>5, <1>6, <1>7, CountsAreNat

\* Asking the web view is no answer.
LEMMA AskingIsNoAnswer ==
  ASSUME NEW o \in Ops, NEW a \in {"ok", "error"}, IInv, Send
  PROVE  (Results(o, a) + Stored(o, a) + Brought(o, a) <= Answers(o, a))'
<1>1. Results(o, a) + Stored(o, a) + Brought(o, a) <= Answers(o, a)
  BY DEF IInv, AnswersSuffice
<1>2. /\ UNCHANGED <<cur, result, main, answering, status>>
      /\ pc = "send" /\ pc' = "lock"
  BY DEF Send, mainVars
<1>3. PICK v \in {"none", "awaited"} : answer' = [answer EXCEPT ![cur] = v]
  BY DEF Send
<1>4. /\ answer \in [Ops -> {"none", "awaited", "ok", "error"}]
      /\ cur \in Ops /\ answer[cur] = "none" /\ answer[cur] # a /\ v # a
  BY <1>2 DEF IInv, TypeOK, LockIsOwn, NothingIsAhead
<1>5. Answers(o, a)' = Answers(o, a)
  <2>0. answer'[cur] = v /\ \A q \in Ops \ {cur} : answer'[q] = answer[q]
    BY <1>3, <1>4
  <2>1. CountOf(answer', o, a) = CountOf(answer, o, a)
    BY <1>4, <2>0, CountOfUpdate
  <2> QED BY <2>1 DEF Answers
<1>6. Results(o, a)' = Results(o, a) /\ Stored(o, a)' = Stored(o, a)
  BY <1>2 DEF Results, Stored
<1>7. Brought(o, a)' = Brought(o, a)
  BY <1>2, <1>3, <1>4 DEF Brought, IInv, AnswerIsGiven
<1> QED BY <1>1, <1>5, <1>6, <1>7

LEMMA AnswersStillSuffice ==
  ASSUME IInv, [Next]_vars PROVE AnswersSuffice'
<1> SUFFICES ASSUME NEW o \in Ops, NEW a \in {"ok", "error"}
             PROVE  (Results(o, a) + Stored(o, a) + Brought(o, a)
                       <= Answers(o, a))'
  BY DEF AnswersSuffice
<1>1. CASE Start
  <2>1. UNCHANGED <<result, answer, main, answering>> /\ status' = "waiting"
    BY <1>1 DEF Start, mainVars
  <2>2. Stored(o, a)' = 0
    BY <2>1 DEF Stored
  <2>3. Stored(o, a)' <= Stored(o, a)
    BY <2>2, CountsAreNat
  <2> QED BY <2>1, <2>3, OthersLeaveTheCounts
<1>2. CASE Publish \/ Lock \/ Wait \/ WakeUp \/ Relock \/ Unlock \/ Clear
             \/ UNCHANGED vars
  <2>1. /\ UNCHANGED <<result, answer, main, answering, status, cur>>
        /\ pc' = "idle" <=> pc = "idle"
    BY <1>2 DEF Publish, Lock, Wait, WakeUp, Relock, Unlock, Clear, mainVars,
                vars
  <2>2. Stored(o, a)' = Stored(o, a)
    BY <2>1 DEF Stored
  <2>3. Stored(o, a)' <= Stored(o, a)
    BY <2>2, CountsAreNat
  <2> QED BY <2>1, <2>3, OthersLeaveTheCounts
<1>3. CASE TimeOut
  <2>1. UNCHANGED <<result, answer, main, answering>> /\ status' = "timeout"
    BY <1>3 DEF TimeOut, mainVars
  <2>2. Stored(o, a)' = 0
    BY <2>1 DEF Stored
  <2>3. Stored(o, a)' <= Stored(o, a)
    BY <2>2, CountsAreNat
  <2> QED BY <2>1, <2>3, OthersLeaveTheCounts
<1>4. CASE ReadLock \/ LockHeld \/ SignalLock \/ UnlockLock
  <2>1. /\ UNCHANGED <<result, answer, answering, status, cur>>
        /\ pc' = "idle" <=> pc = "idle"
        /\ main # "process" /\ main' # "process"
    BY <1>4 DEF ReadLock, LockHeld, SignalLock, UnlockLock
  <2>2. /\ Stored(o, a)' = Stored(o, a) /\ Brought(o, a)' = Brought(o, a)
        /\ Results(o, a)' = Results(o, a) /\ Answers(o, a)' = Answers(o, a)
    BY <2>1 DEF Stored, Brought, Results, Answers
  <2> QED BY <2>2 DEF IInv, AnswersSuffice
<1>5. CASE Send \/ Complete \/ ProcessResponse
             \/ \E p \in Ops, b \in {"ok", "error"} : Callback(p, b)
  BY <1>5, AnswerIsOneMore, StoringTakesTheAnswer, CompletionTakesTheAnswer,
     AskingIsNoAnswer
<1> QED BY <1>1, <1>2, <1>3, <1>4, <1>5, Steps

LEMMA NextKeepsInvariant == IInv /\ [Next]_vars => IInv'
BY TypeAfter, LockStaysOwn, NothingStaysAhead, AnswerStaysGiven,
   AnswersStillSuffice DEF IInv

-----------------------------------------------------------------------------
(***************************************************************************)
(* The inductive invariant holds in every reachable state.                 *)
(***************************************************************************)
THEOREM Invariance == Spec => []IInv
BY InitIsInvariant, NextKeepsInvariant, PTL DEF Spec

(***************************************************************************)
(* Every variable keeps its type: in particular what processResponse       *)
(* stores is an answer, though the storage is shared by all operations and *)
(* read without a lock.                                                    *)
(***************************************************************************)
THEOREM TypeCorrect == Spec => []TypeOK
<1>1. IInv => TypeOK
  BY DEF IInv
<1> QED BY <1>1, Invariance, PTL

(***************************************************************************)
(* However late the web view answers, and whichever condition the main     *)
(* thread signals, an answer completes one operation at most, and none     *)
(* that precedes its own.                                                  *)
(***************************************************************************)
THEOREM AnswersCountOnce == Spec => []EachAnswerCountsOnce
<1>1. IInv => EachAnswerCountsOnce
  <2> SUFFICES ASSUME IInv, NEW o \in Ops, NEW a \in {"ok", "error"}
               PROVE  Results(o, a) <= Answers(o, a)
    BY DEF EachAnswerCountsOnce, Results, Answers, CountOf
  <2>1. Results(o, a) + Stored(o, a) + Brought(o, a) <= Answers(o, a)
    BY DEF IInv, AnswersSuffice
  <2> QED BY <2>1, CountsAreNat
<1> QED BY <1>1, Invariance, PTL
=============================================================================
