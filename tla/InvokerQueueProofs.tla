------------------------- MODULE InvokerQueueProofs -------------------------
(***************************************************************************)
(* Proofs about InvokerQueue, for any number of operations, starts and     *)
(* reinitializations: type correctness, the order of the drains, and that  *)
(* the decorator implements OnceInvoker.                                   *)
(***************************************************************************)
EXTENDS InvokerQueue, SequenceFacts, TLAPS

(***************************************************************************)
(* The inductive invariant.                                                *)
(***************************************************************************)
\* The bounds of what is counted: a completion is saved or being told once
\* for each start, and what is buffered has been invoked.
CountsAreBounded ==
  /\ waiters + telling <= starts
  /\ Len(buffer) < next
  /\ pc # "idle" => next <= Count

\* A drain runs for a block that is still at the head of the main queue, and
\* has visited the objects before draining.
DrainIsInPlace ==
  /\ draining <= Len(buffer) + 1
  /\ draining # 0 =>
       mainQ # <<>> /\ Head(mainQ).do \in {"send", "fail"}

\* An operation that has not been invoked has not met its fate, nor has the
\* one that is being invoked; what is buffered was invoked before.
BufferIsOld ==
  /\ \A o \in Ops : o >= next => fate[o] = <<>>
  /\ \A i \in DOMAIN buffer : buffer[i] < next

\* How an initialization must have ended for a block to be posted.
Cause(do) == IF do \in {"send", "succeed"} THEN "succeeded" ELSE "failed"

\* A block is posted for an initialization that has ended its way.
QueueHasCauses == \A i \in DOMAIN mainQ : Cause(mainQ[i].do) \in ended

\* Whatever says that the SDK is initialized, or could not be, is there only
\* once an initialization has ended that way.
EndsHaveCauses ==
  /\ state \in Ends => state \in ended
  /\ boot.step \in Ends => boot.step \in ended
  /\ telling > 0 => "failed" \in ended
  /\ QueueHasCauses
  /\ pc = "send" => "succeeded" \in ended
  /\ pc = "refuse" => "failed" \in ended

IInv ==
  /\ TypeOK /\ CountsAreBounded /\ DrainIsInPlace /\ BufferIsOld
  /\ EndsHaveCauses /\ DrainSettlesInOrder

-----------------------------------------------------------------------------
LEMMA InitIsInvariant == Init => IInv
<1> SUFFICES ASSUME Init PROVE IInv
  OBVIOUS
<1> USE CountAssumption, BoundAssumption DEF Init, Ops
<1>1. TypeOK
  <2>1. boot \in [chain : {"legacy", "swift"},
                  step : {"idle", "running"} \cup Ends]
    OBVIOUS
  <2>2. mainQ \in Seq(Block) /\ buffer \in Seq(Ops)
    OBVIOUS
  <2>3. fate \in [Ops -> Seq({"sent", "failed"})]
    OBVIOUS
  <2>4. /\ waiters \in 0..MaxStarts /\ telling \in 0..MaxStarts
        /\ starts \in 0..MaxStarts /\ reinits \in 0..MaxReinits
        /\ next \in 1..Count + 1 /\ draining \in 0..Count + 1
    OBVIOUS
  <2>5. /\ flow \in {"legacy", "swift"}
        /\ state \in {"not", "initializing", "succeeded", "failed"}
        /\ created \in BOOLEAN
        /\ pc \in {"idle", "send", "put", "refuse"}
        /\ ended \subseteq Ends
    OBVIOUS
  <2> QED BY <2>1, <2>2, <2>3, <2>4, <2>5 DEF TypeOK
<1>2. CountsAreBounded /\ DrainIsInPlace /\ BufferIsOld
  BY DEF CountsAreBounded, DrainIsInPlace, BufferIsOld
<1>3. EndsHaveCauses
  BY DEF EndsHaveCauses, QueueHasCauses, Ends
<1>4. DrainSettlesInOrder
  BY DEF DrainSettlesInOrder
<1> QED BY <1>1, <1>2, <1>3, <1>4 DEF IInv

-----------------------------------------------------------------------------
(***************************************************************************)
(* What a step does to the main queue and to the fates.                    *)
(***************************************************************************)
\* A step posts one block, or takes the first one, or leaves the queue alone.
LEMMA QueueSteps ==
  ASSUME IInv, [Next]_vars
  PROVE  \/ UNCHANGED mainQ
         \/ \E b \in Block : mainQ' = Append(mainQ, b)
         \/ mainQ # <<>> /\ mainQ' = Tail(mainQ)
<1> USE DEF IInv, TypeOK
<1>1. CASE Boot
  BY <1>1 DEF Boot, Start, StartInvalid, Tell, Reinitialize, TriggerEnd,
              PostState, ProcessResult, Trigger, Block
<1>2. CASE Create \/ Invoke
  BY <1>2 DEF Create, Invoke, ReadState, Send, Refuse, Put
<1>3. CASE Main
  <2>1. CASE EndDrain
    BY <2>1 DEF EndDrain, DrainIsInPlace
  <2> QED BY <1>3, <2>1 DEF Main, BeginDrain, Visit, SetState
<1>4. CASE UNCHANGED vars
  BY <1>4 DEF vars
<1> QED BY <1>1, <1>2, <1>3, <1>4 DEF Next

\* One operation meets its fate in a step, or none.
LEMMA FateSteps ==
  ASSUME IInv, [Next]_vars
  PROVE  \/ UNCHANGED fate
         \/ \E o \in Ops, f \in {"sent", "failed"} : Meets(o, f)
<1> USE DEF IInv, TypeOK
<1>1. CASE Boot
  BY <1>1 DEF Boot, Start, StartInvalid, Tell, Reinitialize, TriggerEnd,
              PostState, ProcessResult, drainVars
<1>2. CASE Create \/ Invoke
  <2>1. CASE Send \/ Refuse
    BY <2>1, CountAssumption DEF Send, Refuse, CountsAreBounded, Ops
  <2> QED BY <1>2, <2>1 DEF Create, Invoke, ReadState, Put, drainVars
<1>3. CASE Main
  <2>1. CASE Visit
    BY <2>1 DEF Visit
  <2> QED BY <1>3, <2>1 DEF Main, BeginDrain, EndDrain, SetState, drainVars
<1>4. CASE UNCHANGED vars
  BY <1>4 DEF vars, drainVars
<1> QED BY <1>1, <1>2, <1>3, <1>4 DEF Next

\* What Meets does to the fates.
LEMMA MeetsOne ==
  ASSUME TypeOK, NEW o \in Ops, NEW f \in {"sent", "failed"}, Meets(o, f)
  PROVE  /\ fate' \in [Ops -> Seq({"sent", "failed"})]
         /\ fate'[o] # <<>>
         /\ \A p \in Ops \ {o} : fate'[p] = fate[p]
         /\ fate[o] = <<>> => fate' = [fate EXCEPT ![o] = <<f>>]
<1>1. fate[o] \in Seq({"sent", "failed"})
  BY DEF TypeOK
<1>2. /\ Append(fate[o], f) \in Seq({"sent", "failed"})
      /\ Append(fate[o], f) # <<>>
      /\ fate[o] = <<>> => Append(fate[o], f) = <<f>>
  <2> DEFINE Fates == {"sent", "failed"}
  <2>1. Append(fate[o], f) \in Seq(Fates) /\ Len(Append(fate[o], f)) # 0
    BY <1>1, AppendElements
  <2>2. ASSUME fate[o] = <<>> PROVE Append(fate[o], f) = <<f>>
    BY <2>2
  <2>3. Len(<<>>) = 0
    OBVIOUS
  <2> QED BY <2>1, <2>2, <2>3
<1>3. fate' = [fate EXCEPT ![o] = Append(fate[o], f)]
  BY DEF Meets
<1> QED BY <1>2, <1>3 DEF TypeOK

(***************************************************************************)
(* Type correctness.                                                       *)
(***************************************************************************)
\* The types of the queues and of the fates.
LEMMA QueuesAreTyped ==
  ASSUME IInv, [Next]_vars
  PROVE  /\ mainQ' \in Seq(Block)
         /\ fate' \in [Ops -> Seq({"sent", "failed"})]
<1>1. mainQ' \in Seq(Block)
  <2>1. mainQ \in Seq(Block)
    BY DEF IInv, TypeOK
  <2>2. CASE UNCHANGED mainQ
    BY <2>1, <2>2
  <2>3. ASSUME NEW b \in Block, mainQ' = Append(mainQ, b)
        PROVE  mainQ' \in Seq(Block)
    BY <2>1, <2>3, AppendElements
  <2>4. CASE mainQ # <<>> /\ mainQ' = Tail(mainQ)
    BY <2>1, <2>4, TailElements
  <2> QED BY <2>2, <2>3, <2>4, QueueSteps
<1>2. fate' \in [Ops -> Seq({"sent", "failed"})]
  BY FateSteps, MeetsOne DEF IInv, TypeOK
<1> QED BY <1>1, <1>2

\* The rest of TypeOK.
OtherTypes ==
  /\ flow \in {"legacy", "swift"}
  /\ state \in {"not", "initializing", "succeeded", "failed"}
  /\ boot \in [chain : {"legacy", "swift"},
               step : {"idle", "running"} \cup Ends]
  /\ waiters \in 0..MaxStarts /\ telling \in 0..MaxStarts
  /\ starts \in 0..MaxStarts /\ reinits \in 0..MaxReinits
  /\ created \in BOOLEAN
  /\ next \in 1..Count + 1
  /\ pc \in {"idle", "send", "put", "refuse"}
  /\ buffer \in Seq(Ops)
  /\ draining \in 0..Count + 1
  /\ ended \subseteq Ends

LEMMA TypesAreKept == ASSUME IInv, [Next]_vars PROVE OtherTypes'
<1> USE CountAssumption, BoundAssumption
    DEF IInv, TypeOK, OtherTypes, CountsAreBounded
<1>1. CASE Boot
  <2> USE DEF moduleVars, drainVars
  <2>1. CASE Start
    BY <2>1 DEF Start
  <2>2. CASE StartInvalid
    BY <2>2 DEF StartInvalid, Ends
  <2>3. CASE Tell
    BY <2>3 DEF Tell
  <2>4. CASE Reinitialize
    BY <2>4 DEF Reinitialize
  <2>5. ASSUME NEW e \in Ends, TriggerEnd(e) PROVE OtherTypes'
    <3>1. boot' \in [chain : {"legacy", "swift"},
                     step : {"idle", "running"} \cup Ends]
      BY <2>5 DEF TriggerEnd
    <3> QED BY <2>5, <3>1 DEF TriggerEnd
  <2>6. CASE PostState
    <3>1. boot' \in [chain : {"legacy", "swift"},
                     step : {"idle", "running"} \cup Ends]
      BY <2>6 DEF PostState
    <3> QED BY <2>6, <3>1 DEF PostState
  <2>7. CASE ProcessResult
    <3>1. boot' \in [chain : {"legacy", "swift"},
                     step : {"idle", "running"} \cup Ends]
      BY <2>7 DEF ProcessResult
    <3> QED BY <2>7, <3>1 DEF ProcessResult, Ends
  <2> QED BY <1>1, <2>1, <2>2, <2>3, <2>4, <2>5, <2>6, <2>7 DEF Boot
<1>2. CASE Create \/ Invoke
  <2>1. CASE Create
    BY <2>1 DEF Create, bootVars, drainVars
  <2>2. CASE ReadState
    BY <2>2 DEF ReadState, bootVars, drainVars
  <2>3. CASE Send \/ Refuse
    BY <2>3 DEF Send, Refuse, Done, bootVars, drainVars
  <2>4. CASE Put
    <3>1. next \in Ops
      BY <2>4 DEF Put, Ops
    <3>2. buffer' \in Seq(Ops)
      BY <2>4, <3>1 DEF Put
    <3> QED BY <2>4, <3>2 DEF Put, Done, bootVars, drainVars
  <2> QED BY <1>2, <2>1, <2>2, <2>3, <2>4 DEF Invoke
<1>3. CASE Main
  <2> USE DEF bootVars, moduleVars, drainVars
  <2>1. CASE BeginDrain
    BY <2>1 DEF BeginDrain
  <2>2. CASE Visit
    <3>1. draining' \in 0..Count + 1
      <4>1. Len(buffer) \in Nat
        OBVIOUS
      <4> QED BY <2>2, <4>1 DEF Visit
    <3> QED BY <2>2, <3>1 DEF Visit
  <2>3. CASE EndDrain
    BY <2>3 DEF EndDrain
  <2>4. CASE SetState
    BY <2>4 DEF SetState
  <2> QED BY <1>3, <2>1, <2>2, <2>3, <2>4 DEF Main
<1>4. CASE UNCHANGED vars
  BY <1>4 DEF vars, bootVars, moduleVars, drainVars
<1> QED BY <1>1, <1>2, <1>3, <1>4 DEF Next

LEMMA NextIsTyped == ASSUME IInv, [Next]_vars PROVE TypeOK'
BY QueuesAreTyped, TypesAreKept DEF TypeOK, OtherTypes

(***************************************************************************)
(* The counts and the place of the drain.                                  *)
(***************************************************************************)
LEMMA CountsStayBounded == ASSUME IInv, [Next]_vars PROVE CountsAreBounded'
<1> USE BoundAssumption, CountAssumption
    DEF IInv, TypeOK, CountsAreBounded, bootVars, moduleVars, drainVars
<1>1. CASE Boot
  BY <1>1 DEF Boot, Start, StartInvalid, Tell, Reinitialize, TriggerEnd,
              PostState, ProcessResult
<1>2. CASE Create \/ Invoke
  BY <1>2, AppendElements
     DEF Create, Invoke, ReadState, Send, Refuse, Put, Done, Ops
<1>3. CASE Main
  BY <1>3 DEF Main, BeginDrain, Visit, EndDrain, SetState
<1>4. CASE UNCHANGED vars
  BY <1>4 DEF vars
<1> QED BY <1>1, <1>2, <1>3, <1>4 DEF Next

\* A block that is posted does not change which one is the first.
LEMMA PostKeepsHead ==
  ASSUME TypeOK, NEW b \in Block, mainQ # <<>>, mainQ' = Append(mainQ, b)
  PROVE  mainQ' # <<>> /\ Head(mainQ') = Head(mainQ)
BY DEF TypeOK

LEMMA DrainStaysInPlace == ASSUME IInv, [Next]_vars PROVE DrainIsInPlace'
<1> USE DEF IInv, TypeOK, DrainIsInPlace, bootVars, moduleVars, drainVars
<1>1. CASE Boot
  <2>1. UNCHANGED <<buffer, draining>>
    BY <1>1 DEF Boot, Start, StartInvalid, Tell, Reinitialize, TriggerEnd,
                PostState, ProcessResult
  <2>2. \/ UNCHANGED mainQ
        \/ \E b \in Block : mainQ' = Append(mainQ, b)
    BY <1>1 DEF Boot, Start, StartInvalid, Tell, Reinitialize, TriggerEnd,
                PostState, ProcessResult, Trigger, Block
  <2> QED BY <2>1, <2>2, PostKeepsHead
<1>2. CASE Create \/ Invoke
  BY <1>2, AppendElements
     DEF Create, Invoke, ReadState, Send, Refuse, Put, Done, Ops
<1>3. CASE Main
  BY <1>3, TailElements
     DEF Main, BeginDrain, Visit, EndDrain, SetState, Current
<1>4. CASE UNCHANGED vars
  BY <1>4 DEF vars
<1> QED BY <1>1, <1>2, <1>3, <1>4 DEF Next

(***************************************************************************)
(* The fates and the buffer.                                               *)
(***************************************************************************)
LEMMA BufferStaysOld == ASSUME IInv, [Next]_vars PROVE BufferIsOld'
<1> USE CountAssumption DEF IInv, TypeOK, BufferIsOld
<1>1. CASE UNCHANGED <<next, fate, buffer>>
  BY <1>1
<1>2. CASE Send \/ Refuse
  <2>1. next \in Ops /\ next' = next + 1 /\ UNCHANGED buffer
    BY <1>2 DEF Send, Refuse, Done, CountsAreBounded, Ops
  <2>2. \A o \in Ops \ {next} : fate'[o] = fate[o]
    BY <1>2, <2>1, MeetsOne DEF Send, Refuse
  <2>3. ASSUME NEW o \in Ops, o >= next' PROVE fate'[o] = <<>>
    <3>1. o # next /\ o >= next
      BY <2>1, <2>3 DEF Ops
    <3> QED BY <2>2, <3>1
  <2>4. ASSUME NEW i \in DOMAIN buffer PROVE buffer[i] < next'
    BY <2>1 DEF Ops
  <2> QED BY <2>1, <2>3, <2>4
<1>3. CASE Put
  <2>1. next \in Ops /\ next' = next + 1 /\ UNCHANGED fate
    BY <1>3 DEF Put, Done, CountsAreBounded, Ops
  <2>2. buffer' = Append(buffer, next)
    BY <1>3 DEF Put
  <2>3. ASSUME NEW o \in Ops, o >= next' PROVE fate'[o] = <<>>
    BY <2>1, <2>3 DEF Ops
  <2>4. ASSUME NEW i \in DOMAIN buffer' PROVE buffer'[i] < next'
    <3>1. \/ i \in DOMAIN buffer /\ buffer'[i] = buffer[i]
          \/ buffer'[i] = next
      BY <2>1, <2>2, AppendElements
    <3>2. \A j \in DOMAIN buffer : buffer[j] \in Nat /\ buffer[j] < next
      BY DEF Ops
    <3>3. next \in Nat
      OBVIOUS
    <3> QED BY <2>1, <3>1, <3>2, <3>3
  <2> QED BY <2>3, <2>4
<1>4. CASE Visit
  <2>1. buffer[draining] \in Ops /\ draining \in DOMAIN buffer
    BY <1>4 DEF Visit
  <2>2. \A o \in Ops \ {buffer[draining]} : fate'[o] = fate[o]
    BY <1>4, <2>1, MeetsOne DEF Visit
  <2>3. UNCHANGED <<next, buffer>>
    BY <1>4 DEF Visit, moduleVars
  <2>4. ASSUME NEW o \in Ops, o >= next PROVE fate'[o] = <<>>
    <3>1. buffer[draining] < next
      BY <2>1
    <3>2. o # buffer[draining]
      BY <2>1, <2>4, <3>1 DEF Ops
    <3> QED BY <2>2, <2>4, <3>2
  <2> QED BY <2>3, <2>4
<1>5. CASE EndDrain
  BY <1>5 DEF EndDrain, moduleVars
<1>6. \/ UNCHANGED <<next, fate, buffer>>
      \/ Send \/ Refuse \/ Put \/ Visit \/ EndDrain
  BY DEF Next, Boot, Start, StartInvalid, Tell, Reinitialize, TriggerEnd,
         PostState, ProcessResult, Create, Invoke, ReadState, Main,
         BeginDrain, SetState, vars, moduleVars, drainVars
<1> QED BY <1>1, <1>2, <1>3, <1>4, <1>5, <1>6

LEMMA DrainKeepsOrder ==
  ASSUME IInv, [Next]_vars PROVE DrainSettlesInOrder'
<1> USE CountAssumption DEF IInv, TypeOK, DrainSettlesInOrder
<1>1. CASE UNCHANGED <<draining, fate, buffer>>
  BY <1>1
<1>2. CASE Send \/ Refuse
  <2>1. next \in Ops /\ UNCHANGED <<draining, buffer>>
    BY <1>2 DEF Send, Refuse, CountsAreBounded, Ops
  <2>2. \A o \in Ops \ {next} : fate'[o] = fate[o]
    BY <1>2, <2>1, MeetsOne DEF Send, Refuse
  <2>3. \A i \in DOMAIN buffer : buffer[i] \in Ops \ {next}
    BY DEF BufferIsOld, Ops
  <2> QED BY <2>1, <2>2, <2>3
<1>3. CASE Put
  <2>1. next \in Ops /\ UNCHANGED <<draining, fate>> /\ draining = 0
    BY <1>3 DEF Put, CountsAreBounded, Ops
  <2>2. buffer' = Append(buffer, next)
    BY <1>3 DEF Put
  <2>3. fate[next] = <<>>
    BY <2>1 DEF BufferIsOld
  <2>4. ASSUME NEW i \in DOMAIN buffer', NEW j \in DOMAIN buffer', i < j
        PROVE  buffer'[i] < buffer'[j]
    <3>1. buffer'[i] = buffer[i] /\ i \in DOMAIN buffer
      BY <2>1, <2>2, <2>4, AppendElements
    <3>2. CASE j \in DOMAIN buffer
      <4>1. buffer'[j] = buffer[j]
        BY <2>1, <2>2, <3>2, AppendElements
      <4> QED BY <2>4, <3>1, <3>2, <4>1
    <3>3. CASE j \notin DOMAIN buffer
      <4>1. buffer'[j] = next
        BY <2>1, <2>2, <3>3, AppendElements
      <4> QED BY <3>1, <4>1 DEF BufferIsOld
    <3> QED BY <3>2, <3>3
  <2>5. ASSUME NEW i \in DOMAIN buffer'
        PROVE  fate'[buffer'[i]] # <<>> <=> i < draining'
    <3>1. \/ i \in DOMAIN buffer /\ buffer'[i] = buffer[i]
          \/ buffer'[i] = next
      BY <2>1, <2>2, AppendElements
    <3>2. ~(i < 0)
      BY <2>1, <2>2, AppendElements
    <3> QED BY <2>1, <2>3, <3>1, <3>2
  <2> QED BY <2>4, <2>5
<1>4. CASE BeginDrain
  <2>1. /\ UNCHANGED <<fate, buffer>>
        /\ draining = 0
        /\ draining' = 0 \/ draining' = 1
    BY <1>4 DEF BeginDrain
  <2>2. \A i \in DOMAIN buffer : ~(i < 0) /\ ~(i < 1)
    OBVIOUS
  <2> QED BY <2>1, <2>2
<1>5. CASE Visit
  <2>1. buffer[draining] \in Ops /\ draining \in DOMAIN buffer
    BY <1>5 DEF Visit
  <2>2. /\ fate'[buffer[draining]] # <<>>
        /\ \A o \in Ops \ {buffer[draining]} : fate'[o] = fate[o]
    BY <1>5, <2>1, MeetsOne DEF Visit
  <2>3. draining' = draining + 1 /\ UNCHANGED buffer
    BY <1>5 DEF Visit
  <2>4. ASSUME NEW i \in DOMAIN buffer
        PROVE  fate'[buffer[i]] # <<>> <=> i < draining + 1
    <3>1. CASE i = draining
      BY <2>1, <2>2, <3>1
    <3>2. CASE i # draining
      <4>1. buffer[i] \in Ops /\ buffer[i] # buffer[draining]
        <5>1. i < draining \/ draining < i
          BY <2>1, <3>2
        <5>2. buffer[i] < buffer[draining] \/ buffer[draining] < buffer[i]
          BY <2>1, <5>1
        <5>3. buffer[i] \in Ops
          OBVIOUS
        <5> QED BY <2>1, <5>2, <5>3 DEF Ops
      <4>2. fate[buffer[i]] # <<>> <=> i < draining
        OBVIOUS
      <4>3. i < draining <=> i < draining + 1
        BY <2>1, <3>2
      <4> QED BY <2>2, <4>1, <4>2, <4>3
    <3> QED BY <3>1, <3>2
  <2> QED BY <2>3, <2>4
<1>6. CASE EndDrain
  BY <1>6 DEF EndDrain
<1>7. \/ UNCHANGED <<draining, fate, buffer>>
      \/ Send \/ Refuse \/ Put \/ BeginDrain \/ Visit \/ EndDrain
  BY DEF Next, Boot, Start, StartInvalid, Tell, Reinitialize, TriggerEnd,
         PostState, ProcessResult, Create, Invoke, ReadState, Main,
         SetState, vars, drainVars
<1> QED BY <1>1, <1>2, <1>3, <1>4, <1>5, <1>6, <1>7

(***************************************************************************)
(* The causes.                                                             *)
(***************************************************************************)
\* What has ended stays so.
LEMMA EndsAreKept == ASSUME IInv, [Next]_vars PROVE ended \subseteq ended'
BY DEF Next, Boot, Start, StartInvalid, Tell, Reinitialize, TriggerEnd,
       PostState, ProcessResult, Create, Invoke, ReadState, Send, Refuse, Put,
       Main, BeginDrain, Visit, EndDrain, SetState, vars, bootVars

\* A block that has its cause may join the queue.
LEMMA CausedBlockJoins ==
  ASSUME IInv, [Next]_vars, NEW b \in Block, mainQ' = Append(mainQ, b),
         Cause(b.do) \in ended'
  PROVE  QueueHasCauses'
<1>1. mainQ \in Seq(Block) /\ QueueHasCauses
  BY DEF IInv, TypeOK, EndsHaveCauses
<1>2. ASSUME NEW i \in DOMAIN mainQ' PROVE Cause(mainQ'[i].do) \in ended'
  <2>1. CASE i \in DOMAIN mainQ
    <3>1. mainQ'[i] = mainQ[i]
      BY <1>1, <2>1, AppendElements
    <3> QED BY <1>1, <2>1, <3>1, EndsAreKept DEF QueueHasCauses
  <2>2. CASE i \notin DOMAIN mainQ
    <3>1. mainQ'[i] = b
      BY <1>1, <2>2, AppendElements
    <3> QED BY <3>1
  <2> QED BY <2>1, <2>2
<1> QED BY <1>2 DEF QueueHasCauses

\* The queue keeps its causes when no block joins it.
LEMMA ShorterQueueHasCauses ==
  ASSUME IInv, [Next]_vars,
         UNCHANGED mainQ \/ (mainQ # <<>> /\ mainQ' = Tail(mainQ))
  PROVE  QueueHasCauses'
<1>1. mainQ \in Seq(Block) /\ QueueHasCauses
  BY DEF IInv, TypeOK, EndsHaveCauses
<1>2. ASSUME NEW i \in DOMAIN mainQ'
      PROVE  \E j \in DOMAIN mainQ : mainQ'[i] = mainQ[j]
  <2>1. CASE mainQ # <<>> /\ mainQ' = Tail(mainQ)
    <3>1. i + 1 \in DOMAIN mainQ /\ mainQ'[i] = mainQ[i + 1]
      BY <1>1, <2>1, TailElements
    <3> QED BY <3>1
  <2> QED BY <2>1
<1> QED BY <1>1, <1>2, EndsAreKept DEF QueueHasCauses

\* The other causes.
OthersHaveCauses ==
  /\ state \in Ends => state \in ended
  /\ boot.step \in Ends => boot.step \in ended
  /\ telling > 0 => "failed" \in ended
  /\ pc = "send" => "succeeded" \in ended
  /\ pc = "refuse" => "failed" \in ended

LEMMA QueueKeepsCauses == ASSUME IInv, [Next]_vars PROVE QueueHasCauses'
<1> USE DEF Block, Cause, Ends
<1>1. CASE Tell
  <2> DEFINE b == [do |-> "fail", listed |-> created]
  <2>1. b \in Block /\ mainQ' = Append(mainQ, b)
    BY <1>1 DEF Tell, Trigger, IInv, TypeOK
  <2>2. Cause(b.do) \in ended'
    BY <1>1, EndsAreKept DEF Tell, IInv, TypeOK, EndsHaveCauses
  <2> QED BY <2>1, <2>2, CausedBlockJoins
<1>2. ASSUME NEW e \in Ends, TriggerEnd(e) PROVE QueueHasCauses'
  <2> DEFINE b == [do |-> IF e = "succeeded" THEN "send" ELSE "fail",
                   listed |-> created]
  <2>1. b \in Block /\ mainQ' = Append(mainQ, b)
    BY <1>2 DEF TriggerEnd, Trigger, IInv, TypeOK
  <2>2. Cause(b.do) \in ended'
    BY <1>2 DEF TriggerEnd
  <2> QED BY <2>1, <2>2, CausedBlockJoins
<1>3. CASE PostState
  <2> DEFINE b == [do |-> IF boot.step = "succeeded" THEN "succeed"
                          ELSE "giveUp"]
  <2>1. b \in Block /\ mainQ' = Append(mainQ, b)
    BY <1>3 DEF PostState
  <2>2. Cause(b.do) \in ended'
    BY <1>3, EndsAreKept DEF PostState, IInv, EndsHaveCauses
  <2> QED BY <2>1, <2>2, CausedBlockJoins
<1>4. CASE EndDrain
  BY <1>4, ShorterQueueHasCauses DEF EndDrain, IInv, TypeOK, DrainIsInPlace
<1>5. \/ Tell \/ (\E e \in Ends : TriggerEnd(e)) \/ PostState \/ EndDrain
      \/ UNCHANGED mainQ
      \/ mainQ # <<>> /\ mainQ' = Tail(mainQ)
  BY DEF Next, Boot, Start, StartInvalid, Reinitialize, ProcessResult,
         Create, Invoke, ReadState, Send, Refuse, Put, Main, BeginDrain,
         Visit, SetState, vars
<1> QED BY <1>1, <1>2, <1>3, <1>4, <1>5, ShorterQueueHasCauses

LEMMA OthersKeepCauses == ASSUME IInv, [Next]_vars PROVE OthersHaveCauses'
<1> USE BoundAssumption
    DEF IInv, TypeOK, EndsHaveCauses, OthersHaveCauses, Ends
<1>1. CASE Boot
  <2> USE DEF moduleVars, drainVars
  <2>1. CASE Start
    BY <2>1 DEF Start
  <2>2. CASE StartInvalid
    BY <2>2 DEF StartInvalid
  <2>3. CASE Tell
    BY <2>3 DEF Tell
  <2>4. CASE Reinitialize
    BY <2>4 DEF Reinitialize
  <2>5. ASSUME NEW e \in Ends, TriggerEnd(e) PROVE OthersHaveCauses'
    BY <2>5 DEF TriggerEnd
  <2>6. CASE PostState
    BY <2>6 DEF PostState
  <2>7. CASE ProcessResult
    BY <2>7 DEF ProcessResult
  <2> QED BY <1>1, <2>1, <2>2, <2>3, <2>4, <2>5, <2>6, <2>7 DEF Boot
<1>2. CASE Create \/ Invoke
  BY <1>2 DEF Create, Invoke, ReadState, Send, Refuse, Put, Done, bootVars
<1>3. CASE BeginDrain \/ Visit \/ EndDrain
  BY <1>3 DEF BeginDrain, Visit, EndDrain, bootVars, moduleVars
<1>4. CASE SetState
  <2>1. Cause(Current.do) \in ended
    BY <1>4, TailElements DEF SetState, Current, QueueHasCauses
  <2> QED BY <1>4, <2>1 DEF SetState, Cause, bootVars, moduleVars
<1>5. CASE UNCHANGED vars
  BY <1>5 DEF vars, bootVars, moduleVars
<1> QED BY <1>1, <1>2, <1>3, <1>4, <1>5 DEF Next, Main

-----------------------------------------------------------------------------
(***************************************************************************)
(* Every step keeps the inductive invariant.                               *)
(***************************************************************************)
LEMMA NextKeepsInvariant == ASSUME IInv, [Next]_vars PROVE IInv'
<1>1. EndsHaveCauses'
  BY QueueKeepsCauses, OthersKeepCauses
     DEF EndsHaveCauses, OthersHaveCauses
<1> QED BY <1>1, NextIsTyped, CountsStayBounded, DrainStaysInPlace,
           BufferStaysOld, DrainKeepsOrder DEF IInv

(***************************************************************************)
(* The inductive invariant holds in every reachable state.                 *)
(***************************************************************************)
THEOREM Invariance == Spec => []IInv
<1>1. IInv /\ [Next]_vars => IInv'
  BY NextKeepsInvariant
<1> QED BY InitIsInvariant, <1>1, PTL DEF Spec

(***************************************************************************)
(* Every variable keeps its type: the queues hold blocks and operations,   *)
(* the index of the drain never passes the end of the buffer by more than  *)
(* one, and no counter passes its bound.                                   *)
(***************************************************************************)
THEOREM TypeCorrect == Spec => []TypeOK
<1>1. IInv => TypeOK
  BY DEF IInv
<1> QED BY Invariance, <1>1, PTL

(***************************************************************************)
(* The buffer holds the operations in the order of their calls, and a      *)
(* drain that finds an operation is the only one that does                 *)
(* (invokeBufferedObjects, failBufferedObjectsWithError).                  *)
(***************************************************************************)
THEOREM DrainsSettleInOrder == Spec => []DrainSettlesInOrder
<1>1. IInv => DrainSettlesInOrder
  BY DEF IInv
<1> QED BY Invariance, <1>1, PTL

-----------------------------------------------------------------------------
(***************************************************************************)
(* The decorator implements OnceInvoker.                                   *)
(***************************************************************************)
LEMMA InitIsAbstract == Init => Abstract!Init
BY DEF Init, Abstract!Init

\* The end of an initialization.
LEMMA EndIsAbstract ==
  ASSUME NEW e \in Ends, ended' = ended \cup {e}, UNCHANGED fate
  PROVE  Abstract!Next
BY DEF Abstract!Next, Abstract!End, Abstract!Ends, Ends

\* An operation that had not met its fate does, for a cause.
LEMMA MeetsIsAbstract ==
  ASSUME TypeOK, UNCHANGED ended,
         NEW o \in Ops, NEW f \in {"sent", "failed"}, Meets(o, f),
         fate[o] = <<>>,
         (IF f = "sent" THEN "succeeded" ELSE "failed") \in ended
  PROVE  Abstract!Next
BY MeetsOne DEF Abstract!Next, Abstract!Settle

LEMMA StepIsAbstract ==
  ASSUME IInv, [Next]_vars PROVE [Abstract!Next]_<<ended, fate>>
<1>1. CASE UNCHANGED <<ended, fate>>
  BY <1>1
<1>2. ASSUME NEW e \in Ends, ended' = ended \cup {e}, UNCHANGED fate
      PROVE  Abstract!Next
  BY <1>2, EndIsAbstract
<1>3. CASE Send \/ Refuse
  <2>1. next \in Ops /\ fate[next] = <<>> /\ UNCHANGED ended
    BY <1>3, CountAssumption
       DEF Send, Refuse, IInv, TypeOK, CountsAreBounded, BufferIsOld, Ops,
           bootVars
  <2>2. CASE Send
    BY <2>1, <2>2, MeetsIsAbstract DEF Send, IInv, EndsHaveCauses
  <2>3. CASE Refuse
    BY <2>1, <2>3, MeetsIsAbstract DEF Refuse, IInv, EndsHaveCauses
  <2> QED BY <1>3, <2>2, <2>3
<1>4. CASE Visit
  <2> DEFINE o == buffer[draining]
             f == IF Current.do = "send" THEN "sent" ELSE "failed"
  <2>1. draining \in DOMAIN buffer /\ o \in Ops /\ draining # 0
    BY <1>4 DEF Visit, IInv, TypeOK
  <2>2. fate[o] = <<>>
    BY <2>1 DEF IInv, TypeOK, DrainSettlesInOrder
  <2>3. mainQ # <<>> /\ Current.do \in {"send", "fail"}
    BY <2>1 DEF IInv, DrainIsInPlace, Current
  <2>4. Cause(Current.do) \in ended
    BY <2>3, TailElements
       DEF IInv, TypeOK, EndsHaveCauses, QueueHasCauses, Current
  <2>5. (IF f = "sent" THEN "succeeded" ELSE "failed") \in ended
    BY <2>3, <2>4 DEF Cause
  <2>6. Meets(o, f) /\ UNCHANGED ended
    BY <1>4 DEF Visit, bootVars
  <2> QED BY <2>1, <2>2, <2>5, <2>6, MeetsIsAbstract DEF IInv
<1>5. \/ UNCHANGED <<ended, fate>>
      \/ \E e \in Ends : ended' = ended \cup {e} /\ UNCHANGED fate
      \/ Send \/ Refuse \/ Visit
  BY DEF Next, Boot, Start, StartInvalid, Tell, Reinitialize, TriggerEnd,
         PostState, ProcessResult, Create, Invoke, ReadState, Put, Main,
         BeginDrain, EndDrain, SetState, vars, bootVars, drainVars, Ends
<1> QED BY <1>1, <1>2, <1>3, <1>4, <1>5

(***************************************************************************)
(* The decorator keeps the promise of OnceInvoker, whatever the order of   *)
(* initializations, reinitializations and calls: no operation is sent or   *)
(* refused twice or both, and none without an initialization that ended    *)
(* that way.                                                               *)
(***************************************************************************)
THEOREM ImplementsOnceInvoker == Spec => IsOnceInvoker
<1>1. IInv /\ [Next]_vars => [Abstract!Next]_<<ended, fate>>
  BY StepIsAbstract
<1> QED BY InitIsAbstract, Invariance, <1>1, PTL
        DEF Spec, IsOnceInvoker, Abstract!Spec
=============================================================================
