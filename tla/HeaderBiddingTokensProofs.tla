---------------------- MODULE HeaderBiddingTokensProofs ----------------------
(***************************************************************************)
(* Proofs about HeaderBiddingTokens, for any number of requests, tokens    *)
(* and setups: that tokens are served in order and lost only for a reason, *)
(* that nobody waits in vain, and that the readers implement TokenPromise. *)
(***************************************************************************)
EXTENDS HeaderBiddingTokens, SequenceFacts, FiniteSetTheorems,
        WellFoundedInduction, TLAPS

-----------------------------------------------------------------------------
(***************************************************************************)
(* The inductive invariant: the serial queue.                              *)
(***************************************************************************)
\* The blocks that have not begun.
Upcoming == IF running.step = "start" THEN calls ELSE Tail(calls)

Get(r) == [op |-> "get", req |-> r]
Comes(r) == \E i \in DOMAIN Upcoming : Upcoming[i] = Get(r)

Looping == running.step \in {"take", "hand"}
Generating == running.step \in {"privacy", "subscribe", "generate"}

\* A block that has begun is at the head of the queue; what generates a token
\* is the block of a request, and only as long as there is no queue of tokens.
BlockIsInPlace ==
  /\ running.step # "start" => calls # <<>>
  /\ Looping => queueCreated /\ running.left >= 1
  /\ Generating => ~ queueCreated /\ Head(calls).op = "get"
  /\ ~ queueCreated => tokens = <<>> /\ ~ firstToken

-----------------------------------------------------------------------------
(***************************************************************************)
(* The inductive invariant: the requests.                                  *)
(***************************************************************************)
\* Whether a request has come to the head of the queue: it observes, or was
\* told an answer.
Heard(r) == r \in ToSet(observers) \/ answers[r] # <<>>

\* A request is in the queue once, after it was made and before it is heard;
\* it waits for the privacy response once, after that.
RequestsComeOnce ==
  /\ \A i \in DOMAIN Upcoming : Upcoming[i].op = "get" =>
       Contains(asked, Upcoming[i].req)
  /\ \A i, j \in DOMAIN Upcoming :
       Upcoming[i].op = "get" /\ Upcoming[i] = Upcoming[j] => i = j
  /\ \A r \in Requests : Heard(r) => Contains(asked, r) /\ ~ Comes(r)
  /\ Generating => Heard(Head(calls).req)
  /\ \A r \in ToSet(privacyObservers) \cup privacyFiring : Heard(r)
  /\ running.step \in {"privacy", "subscribe"} =>
       Head(calls).req \notin ToSet(privacyObservers) \cup privacyFiring

\* An observer loses its timeout block, if it has one, no later than it leaves.
ArmedObserversWait ==
  /\ armed \subseteq ToSet(observers)
  /\ privacyArmed \subseteq ToSet(privacyObservers)

\* An observer has heard nothing yet; one whose timeout is being handled may
\* have been told an answer.
ObserversHaveHeardNothing ==
  /\ \A r \in ToSet(observers) : answers[r] = <<>>
  /\ \A r \in firing : r \in ToSet(observers) \/ Len(answers[r]) = 1

-----------------------------------------------------------------------------
(***************************************************************************)
(* The inductive invariant: the generations.                               *)
(***************************************************************************)
\* The requests whose block has run.
Past ==
  {r \in Requests : Contains(asked, r)
                      /\ \A i \in DOMAIN calls : calls[i] # Get(r)}
NotWaiting == Past \ ToSet(privacyObservers)
NotTiming  == Past \ (ToSet(privacyObservers) \cup privacyFiring)

\* A request causes two generations at most: one when the privacy response
\* comes, and one when its timeout is handled.
GenerationsAreFew ==
  /\ ToSet(privacyObservers) \cup privacyFiring \subseteq Past
  /\ generations <= Cardinality(NotWaiting) + Cardinality(NotTiming)

-----------------------------------------------------------------------------
(***************************************************************************)
(* The inductive invariant: the tokens.                                    *)
(***************************************************************************)
\* The blocks that bring tokens, the tokens to come and those in the storage.
IsNews(c) == c.op \in {"create", "append"}
Coming ==
  {t \in 1..MaxTokens : \E k \in DOMAIN Upcoming :
                          IsNews(Upcoming[k]) /\ t \in ToSet(Upcoming[k].new)}
Stored == ToSet(tokens)

Rising(s) == \A i, j \in DOMAIN s : i < j => s[i] < s[j]
Older(t, u) == t < u \/ (t = u /\ t \in peeked)

\* The token that a pass of the loop hands to an observer.
Handing(t) == running.step = "hand" /\ running.token = t /\ t # 0

\* The tokens in the storage, and those on their way to it, are in order.
TokensAreInOrder ==
  /\ Rising(tokens)
  /\ \A k \in DOMAIN Upcoming : IsNews(Upcoming[k]) => Rising(Upcoming[k].new)
  /\ \A k, l \in DOMAIN Upcoming :
       k < l /\ IsNews(Upcoming[k]) /\ IsNews(Upcoming[l]) =>
         \A t \in ToSet(Upcoming[k].new), u \in ToSet(Upcoming[l].new) : t < u
  /\ \A t \in Stored, u \in Coming : t < u
  /\ \A t \in Stored \cup Coming : t <= made

\* A token that has gone out is older than those that have not, unless it was
\* peeked at.
GoneIsOlder(t) ==
  /\ t <= made
  /\ \A u \in Stored : Older(t, u)
  /\ \A u \in Coming : t < u

TokensGoOutInOrder ==
  /\ \A t \in 1..MaxTokens : Handing(t) =>
       GoneIsOlder(t) /\ (running.removed => \A u \in Stored : t < u)
  /\ \A r \in Requests : \A a \in ToSet(answers[r]) : a.kind = "web" =>
       /\ GoneIsOlder(a.token)
       /\ \A t \in 1..MaxTokens : Handing(t) => Older(a.token, t)

\* Requests are observers, and come to the queue, in their order; whoever was
\* told a token of the web was before all that still wait.
Before(r, q) ==
  \E i, j \in DOMAIN asked : i < j /\ asked[i] = r /\ asked[j] = q
ToldWeb(r) == \E a \in ToSet(answers[r]) : a.kind = "web"
InOrder(r, q) ==
  /\ Comes(r) => ~ Heard(q)
  /\ \A k, l \in DOMAIN Upcoming :
       Upcoming[k] = Get(r) /\ Upcoming[l] = Get(q) => k < l
  /\ \A k, l \in DOMAIN observers :
       observers[k] = r /\ observers[l] = q => k < l
  /\ ToldWeb(q) => r \notin ToSet(observers)
RequestsAreInOrder ==
  \A r, q \in Requests : Before(r, q) => InOrder(r, q)

\* The tokens that are lost, and may be lost by the passes that are left.
LossesAreFew ==
  /\ lost <= Cardinality(ServedOtherwise)
  /\ Looping =>
       lost + running.left <= Cardinality(ServedOtherwise) + Len(observers)

\* No more tokens are lost than are older than what is left of them.
LostAreOld ==
  /\ lost <= made
  /\ \A u \in Stored \cup Coming : lost < u
  /\ running.step = "hand" /\ running.removed =>
       running.token # 0 /\ lost < running.token

-----------------------------------------------------------------------------
(***************************************************************************)
(* The inductive invariant: who waits, and the identifiers.                *)
(***************************************************************************)
Empty == tokens = <<>> /\ ~ firstToken

\* A loop has a pass left for each observer, unless there is no token.
NobodyWaitsInVain ==
  IF queueCreated
  THEN /\ running.step = "start" => observers = <<>> \/ Empty
       /\ running.step = "take" => Len(observers) <= running.left \/ Empty
       /\ running.step = "hand" => Len(observers) <= running.left
  ELSE Len(observers) <= generations + Len(privacyObservers)
                           + (IF Generating THEN 1 ELSE 0)

\* The identifier is not changed any more once the signals are kept.
IdentifiersAgree ==
  \A r \in Requests :
    /\ scar[r].shown \in {"none", scar[r].uuid}
    /\ scar[r].posted \in {"none", scar[r].uuid}
    /\ scar[r].signals \in {"none", "asked"} =>
         scar[r].posted = "none" /\ scar[r].shown \in {"none", "token"}
    /\ scar[r].signals # "none" => Contains(asked, r)

IInv ==
  /\ TypeOK /\ BlockIsInPlace
  /\ RequestsComeOnce /\ ArmedObserversWait /\ ObserversHaveHeardNothing
  /\ GenerationsAreFew
  /\ TokensAreInOrder /\ TokensGoOutInOrder /\ RequestsAreInOrder
  /\ OldTokensGoToOldRequests
  /\ LossesAreFew /\ LostAreOld
  /\ NobodyWaitsInVain /\ IdentifiersAgree

-----------------------------------------------------------------------------
(***************************************************************************)
(* Sequences of distinct elements, and what RemoveFirst leaves.            *)
(***************************************************************************)
LEMMA LeastOfSet ==
  ASSUME NEW I \in SUBSET Nat, I # {}
  PROVE  Min(I) \in I
<1> DEFINE Less == {ss \in Nat \X Nat : ss[1] < ss[2]}
<1>1. PICK n \in I : \A m \in I : ~(<<m, n>> \in OpToRel(<, Nat))
  BY NatLessThanWellFounded, WFMin
<1>2. OpToRel(<, Nat) = Less
  BY Zenon DEF OpToRel
<1>3. \A m \in I : <<m, n>> \notin Less
  BY <1>1, <1>2
<1>4. ASSUME NEW m \in I PROVE n <= m
  <2>1. CASE m < n
    <3>1. <<m, n>> \in Nat \X Nat /\ <<m, n>>[1] < <<m, n>>[2]
      BY <2>1
    <3>2. <<m, n>> \in Less
      BY <3>1
    <3> QED BY <1>3, <3>2
  <2>2. CASE ~(m < n)
    <3>1. n \in Nat /\ m \in Nat
      OBVIOUS
    <3> QED BY <2>2, <3>1
  <2> QED BY <2>1, <2>2
<1>5. \E x \in I : \A y \in I : x <= y
  BY <1>4
<1> QED BY <1>5 DEF Min

LEMMA RemoveAtElements ==
  ASSUME NEW S, NEW s \in Seq(S), NEW k \in 1..Len(s)
  PROVE  /\ RemoveAt(s, k) \in Seq(S)
         /\ Len(RemoveAt(s, k)) = Len(s) - 1
         /\ \A i \in 1..Len(s) - 1 :
              RemoveAt(s, k)[i] = IF i < k THEN s[i] ELSE s[i + 1]
<1> DEFINE a == SubSeq(s, 1, k - 1)
           b == SubSeq(s, k + 1, Len(s))
<1>1. Len(s) \in Nat
  OBVIOUS
<1>2. a \in Seq(S) /\ Len(a) = k - 1 /\ \A i \in 1..k - 1 : a[i] = s[i]
  OBVIOUS
<1>3. b \in Seq(S) /\ Len(b) = Len(s) - k
      /\ \A i \in 1..Len(s) - k : b[i] = s[i + k]
  OBVIOUS
<1> HIDE DEF a, b
<1>4. a \o b \in Seq(S) /\ Len(a \o b) = Len(s) - 1
      /\ \A i \in 1..Len(s) - 1 : (a \o b)[i] = IF i < k THEN s[i] ELSE s[i + 1]
  <2>1. /\ a \o b \in Seq(S) /\ Len(a \o b) = Len(a) + Len(b)
        /\ \A i \in 1..Len(a) + Len(b) :
             (a \o b)[i] = IF i <= Len(a) THEN a[i] ELSE b[i - Len(a)]
    BY <1>2, <1>3, ConcatElements
  <2> QED BY <1>1, <1>2, <1>3, <2>1
<1>5. RemoveAt(s, k) = a \o b
  BY DEF RemoveAt, a, b
<1> QED BY <1>4, <1>5

LEMMA RemoveFirstIsRemoveAt ==
  ASSUME NEW S, NEW s \in Seq(S), NEW e, \E i \in 1..Len(s) : s[i] = e
  PROVE  \E k \in 1..Len(s) : s[k] = e /\ RemoveFirst(s, e) = RemoveAt(s, k)
<1> DEFINE I == {i \in 1..Len(s) : s[i] = e}
<1>1. I \in SUBSET Nat /\ I # {}
  OBVIOUS
<1> HIDE DEF I
<1>2. Min(I) \in I
  BY <1>1, LeastOfSet
<1>3. RemoveFirst(s, e) = RemoveAt(s, SelectInSeq(s, LAMBDA v : v = e))
  BY DEF RemoveFirst
<1>4. SelectInSeq(s, LAMBDA v : v = e) = Min(I)
  BY <1>1 DEF SelectInSeq, I
<1>5. RemoveFirst(s, e) = RemoveAt(s, Min(I))
  BY <1>3, <1>4
<1> QED BY <1>2, <1>5 DEF I

\* The elements of a sequence and how many they are when they are distinct.
LEMMA ElementsOf ==
  ASSUME NEW S, NEW s \in Seq(S)
  PROVE  /\ DOMAIN s = 1..Len(s) /\ Len(s) \in Nat
         /\ ToSet(s) \subseteq S
         /\ \A e : e \in ToSet(s) <=> \E i \in DOMAIN s : s[i] = e
         /\ \A e : Contains(s, e) <=> e \in ToSet(s)
BY DEF ToSet, Contains

\* A distinct element that joins.
LEMMA AppendDistinct ==
  ASSUME NEW S, NEW s \in Seq(S), NEW e \in S
  PROVE  /\ ToSet(Append(s, e)) = ToSet(s) \cup {e}
         /\ IsInjective(s) /\ e \notin ToSet(s) => IsInjective(Append(s, e))
<1>1. ToSet(Append(s, e)) = ToSet(s) \cup {e}
  BY AppendElements DEF ToSet
<1>2. ASSUME IsInjective(s), e \notin ToSet(s)
      PROVE  IsInjective(Append(s, e))
  BY <1>2, AppendElements DEF ToSet, IsInjective
<1> QED BY <1>1, <1>2

\* The head of distinct elements that leaves.
LEMMA TailDistinct ==
  ASSUME NEW S, NEW s \in Seq(S), s # <<>>
  PROVE  /\ Head(s) \in ToSet(s)
         /\ IsInjective(s) => /\ IsInjective(Tail(s))
                              /\ ToSet(Tail(s)) = ToSet(s) \ {Head(s)}
<1>1. Head(s) \in ToSet(s)
  BY TailElements DEF ToSet
<1>2. ASSUME IsInjective(s) PROVE IsInjective(Tail(s))
  BY <1>2, TailElements DEF IsInjective
<1>3. ASSUME IsInjective(s) PROVE ToSet(Tail(s)) = ToSet(s) \ {Head(s)}
  <2>1. ASSUME NEW x \in ToSet(Tail(s)) PROVE x \in ToSet(s) \ {Head(s)}
    <3>1. PICK i \in DOMAIN Tail(s) : Tail(s)[i] = x
      BY <2>1 DEF ToSet
    <3>2. s[i + 1] = x /\ i + 1 \in DOMAIN s /\ i + 1 # 1 /\ 1 \in DOMAIN s
      BY <3>1, TailElements
    <3> QED BY <1>3, <3>2, TailElements DEF ToSet, IsInjective
  <2>2. ASSUME NEW x \in ToSet(s) \ {Head(s)} PROVE x \in ToSet(Tail(s))
    <3>1. PICK i \in DOMAIN s : s[i] = x /\ s[i] # Head(s)
      BY <2>2 DEF ToSet
    <3>2. \E j \in DOMAIN Tail(s) : Tail(s)[j] = s[i]
      BY <3>1, TailKeeps
    <3> QED BY <3>1, <3>2 DEF ToSet
  <2> QED BY <2>1, <2>2
<1> QED BY <1>1, <1>2, <1>3

\* A distinct element that is removed, and where the others are.
LEMMA RemoveDistinct ==
  ASSUME NEW S, NEW s \in Seq(S), NEW e, IsInjective(s)
  PROVE  /\ RemoveFirst(s, e) \in Seq(S)
         /\ IsInjective(RemoveFirst(s, e))
         /\ ToSet(RemoveFirst(s, e)) = ToSet(s) \ {e}
         /\ e \in ToSet(s) => Len(RemoveFirst(s, e)) = Len(s) - 1
         /\ e \notin ToSet(s) => RemoveFirst(s, e) = s
         /\ \A p, q \in DOMAIN RemoveFirst(s, e) :
              \E i, j \in DOMAIN s :
                /\ s[i] = RemoveFirst(s, e)[p] /\ s[j] = RemoveFirst(s, e)[q]
                /\ i < j <=> p < q
<1> DEFINE t == RemoveFirst(s, e)
<1>1. CASE e \notin ToSet(s)
  <2>1. t = s
    BY <1>1, ElementsOf DEF RemoveFirst
  <2>2. ToSet(t) = ToSet(s) \ {e}
    BY <1>1, <2>1
  <2> QED BY <1>1, <2>1, <2>2
<1>2. CASE e \in ToSet(s)
  <2>1. \E i \in 1..Len(s) : s[i] = e
    BY <1>2 DEF ToSet
  <2>2. PICK k \in 1..Len(s) : s[k] = e /\ t = RemoveAt(s, k)
    BY <2>1, RemoveFirstIsRemoveAt
  <2> HIDE DEF t
  <2>a. Len(s) \in Nat /\ DOMAIN s = 1..Len(s)
    OBVIOUS
  <2>b. /\ t \in Seq(S) /\ Len(t) = Len(s) - 1
        /\ \A i \in 1..Len(s) - 1 : t[i] = IF i < k THEN s[i] ELSE s[i + 1]
    BY <2>2, RemoveAtElements
  <2>c. DOMAIN t = 1..Len(t)
    BY <2>b
  <2>3. /\ t \in Seq(S) /\ Len(s) \in Nat /\ Len(t) = Len(s) - 1
        /\ DOMAIN s = 1..Len(s) /\ DOMAIN t = 1..Len(s) - 1
        /\ \A i \in 1..Len(s) - 1 : t[i] = IF i < k THEN s[i] ELSE s[i + 1]
    BY <2>a, <2>b, <2>c
  <2>4. \A p, q \in DOMAIN t : \E i, j \in DOMAIN s :
          s[i] = t[p] /\ s[j] = t[q] /\ (i < j <=> p < q) /\ (i = j <=> p = q)
            /\ i # k
    <3> SUFFICES ASSUME NEW p \in DOMAIN t, NEW q \in DOMAIN t
                 PROVE  \E i, j \in DOMAIN s :
                          /\ s[i] = t[p] /\ s[j] = t[q]
                          /\ (i < j <=> p < q) /\ (i = j <=> p = q) /\ i # k
      OBVIOUS
    <3> DEFINE i == IF p < k THEN p ELSE p + 1
               j == IF q < k THEN q ELSE q + 1
    <3>1. i \in DOMAIN s /\ j \in DOMAIN s /\ s[i] = t[p] /\ s[j] = t[q]
      BY <2>3
    <3>2. (i < j <=> p < q) /\ (i = j <=> p = q) /\ i # k
      BY <2>3
    <3> QED BY <3>1, <3>2
  <2>5. IsInjective(t)
    BY <2>4 DEF IsInjective
  <2>6. ToSet(t) = ToSet(s) \ {e}
    <3>1. ASSUME NEW x \in ToSet(t) PROVE x \in ToSet(s) \ {e}
      <4>1. PICK p \in DOMAIN t : t[p] = x
        BY <3>1 DEF ToSet
      <4>2. PICK i \in DOMAIN s : s[i] = x /\ i # k
        BY <2>4, <4>1
      <4>3. x # e
        BY <2>2, <2>3, <4>2 DEF IsInjective
      <4> QED BY <4>2, <4>3 DEF ToSet
    <3>2. ASSUME NEW x \in ToSet(s) \ {e} PROVE x \in ToSet(t)
      <4>1. PICK i \in DOMAIN s : s[i] = x /\ i # k
        BY <2>2, <3>2 DEF ToSet
      <4>2. CASE i < k
        BY <2>3, <4>1, <4>2 DEF ToSet
      <4>3. CASE ~(i < k)
        <5>1. i - 1 \in DOMAIN t /\ t[i - 1] = s[i]
          BY <2>3, <4>1, <4>3
        <5> QED BY <4>1, <5>1 DEF ToSet
      <4> QED BY <4>2, <4>3
    <3> QED BY <3>1, <3>2
  <2> QED BY <1>2, <2>3, <2>4, <2>5, <2>6 DEF t
<1> QED BY <1>1, <1>2

\* Distinct elements of a finite set are no more than it has.
LEMMA DistinctAreFew ==
  ASSUME NEW S, IsFiniteSet(S), NEW s \in Seq(S), IsInjective(s)
  PROVE  /\ Len(s) = Cardinality(ToSet(s)) /\ IsFiniteSet(ToSet(s))
         /\ Len(s) <= Cardinality(S)
<1>1. /\ DOMAIN s = 1..Len(s) /\ Len(s) \in Nat /\ ToSet(s) \subseteq S
  BY ElementsOf
<1>2. IsFiniteSet(ToSet(s)) /\ Cardinality(ToSet(s)) <= Cardinality(S)
  BY <1>1, FS_Subset
<1>3. s \in Bijection(1..Len(s), ToSet(s))
  <2>1. s \in [1..Len(s) -> ToSet(s)]
    BY <1>1 DEF ToSet
  <2>2. \A x \in ToSet(s) : \E i \in 1..Len(s) : s[i] = x
    BY <1>1 DEF ToSet
  <2>3. \A i, j \in 1..Len(s) : s[i] = s[j] => i = j
    BY <1>1 DEF IsInjective
  <2> QED BY <2>1, <2>2, <2>3 DEF Bijection, Injection, Surjection, IsInjective
<1>4. ExistsBijection(1..Len(s), ToSet(s))
  BY <1>3 DEF ExistsBijection
<1> QED BY <1>1, <1>2, <1>4, FS_CountingElements

-----------------------------------------------------------------------------
(***************************************************************************)
(* The steps, and the types of what they use.                              *)
(***************************************************************************)
LEMMA AllSteps ==
  ASSUME [Next]_vars
  PROVE  \/ UNCHANGED vars
         \/ WebCall \/ SaveConfiguration \/ SetStatus \/ GetTokenNow
         \/ \E r \in Requests : Ask(r) \/ ScarStep(r) \/ TimeOut(r)
                                \/ GiveUp(r) \/ GiveUpPrivacy(r)
         \/ StartGet \/ StartStore \/ StartInit \/ StartOther
         \/ Take \/ Hand \/ LookForPrivacy \/ WaitForPrivacy \/ Generate
         \/ SavePrivacy \/ TellPrivacy \/ FinishGeneration
BY DEF Next, SerialStep, PrivacyStep, MainStep

\* A block for a request names it; the head of the observers is one.
LEMMA CallTypes ==
  ASSUME NEW c \in Calls
  PROVE  /\ c.op \in {"get", "create", "append", "delete", "peek", "init"}
         /\ c.op = "get" => c.req \in Requests /\ c = Get(c.req)
         /\ c.op = "init" => c.given \in BOOLEAN
         /\ c.op = "peek" => c.mode \in BOOLEAN
         /\ IsNews(c) => c.new \in Seq(1..MaxTokens)
BY DEF Calls, Get, IsNews

\* The mediators' type invariant without the names of their instances.
MediatorsTyped ==
  /\ observers \in Seq(Requests) /\ IsInjective(observers)
  /\ armed \subseteq Requests /\ firing \subseteq Requests
  /\ privacyObservers \in Seq(Requests) /\ IsInjective(privacyObservers)
  /\ privacyArmed \subseteq Requests /\ privacyFiring \subseteq Requests

LEMMA MediatorTypes ==
  /\ TypeOK => MediatorsTyped
  /\ MediatorsTyped' => Bridge!MediatorTypeOK' /\ Privacy!MediatorTypeOK'
<1>1. TypeOK => Bridge!MediatorTypeOK /\ Privacy!MediatorTypeOK
  BY DEF TypeOK
<1>2. /\ IsInjective(observers) <=> Bridge!IsInjective(observers)
      /\ IsInjective(observers') <=> Bridge!IsInjective(observers')
      /\ IsInjective(privacyObservers) <=> Privacy!IsInjective(privacyObservers)
      /\ IsInjective(privacyObservers')
           <=> Privacy!IsInjective(privacyObservers')
  BY DEF IsInjective, Bridge!IsInjective, Privacy!IsInjective
<1> QED
  BY <1>1, <1>2
     DEF MediatorsTyped, Bridge!MediatorTypeOK, Privacy!MediatorTypeOK

LEMMA HeadsAreTyped ==
  ASSUME TypeOK
  PROVE  /\ calls # <<>> => Head(calls) \in Calls
         /\ observers # <<>> => Head(observers) \in Requests
         /\ privacyObservers # <<>> => Head(privacyObservers) \in Requests
BY DEF TypeOK, Bridge!MediatorTypeOK, Privacy!MediatorTypeOK

-----------------------------------------------------------------------------
(***************************************************************************)
(* The identifiers.                                                        *)
(***************************************************************************)
LEMMA ScarChanges ==
  ASSUME TypeOK, [Next]_vars
  PROVE  \/ UNCHANGED scar
         \/ \E r \in Requests : \/ Ask(r) /\ RequestSignals(r)
                               \/ KeepSignals(r) \/ SendSignals(r) \/ Inject(r)
<1>1. CASE Hand \/ Generate \/ FinishGeneration
  BY <1>1, HeadsAreTyped
    DEF Hand, Generate, FinishGeneration, NotifyHead, Tell
<1>2. CASE StartGet
  BY <1>2, HeadsAreTyped, CallTypes DEF StartGet, Running, Tell
<1>3. CASE \E r \in Requests : Ask(r) \/ ScarStep(r) \/ GiveUp(r)
  BY <1>3 DEF Ask, ScarStep, GiveUp, Tell
<1> QED
  BY <1>1, <1>2, <1>3, AllSteps
  DEF vars, WebCall, SaveConfiguration, SetStatus, GetTokenNow, TimeOut,
      GiveUpPrivacy, StartStore, StartInit, StartOther, Take, LookForPrivacy,
      WaitForPrivacy, SavePrivacy, TellPrivacy

LEMMA AskedChanges ==
  ASSUME TypeOK, [Next]_vars
  PROVE  \/ UNCHANGED asked
         \/ \E r \in Requests :
              /\ Ask(r) /\ asked' = Append(asked, r) /\ ~ Contains(asked, r)
BY AllSteps
   DEF vars, WebCall, SaveConfiguration, SetStatus, GetTokenNow, TimeOut, Ask,
       GiveUp, ScarStep, GiveUpPrivacy, StartGet, StartStore, StartInit,
       StartOther, Take, Hand, LookForPrivacy, WaitForPrivacy, Generate,
       SavePrivacy, TellPrivacy, FinishGeneration

\* Who has asked once has asked.
LEMMA AskedGrows ==
  ASSUME TypeOK, [Next]_vars
  PROVE  /\ \A r : Contains(asked, r) => Contains(asked, r)'
         /\ \A r \in Requests : Ask(r) => Contains(asked, r)'
         /\ asked' \in Seq(Requests) /\ IsInjective(asked)'
<1>1. asked \in Seq(Requests) /\ IsInjective(asked)
  BY DEF TypeOK
<1>2. CASE UNCHANGED asked
  <2>1. \A r \in Requests : ~ Ask(r)
    <3>1. SUFFICES ASSUME NEW r \in Requests, Ask(r) PROVE FALSE
      OBVIOUS
    <3>2. Len(asked') = Len(asked) + 1
      BY <1>1, <3>1 DEF Ask
    <3> QED BY <1>1, <1>2, <3>2
  <2> QED BY <1>1, <1>2, <2>1 DEF Contains
<1>3. CASE \E r \in Requests :
             asked' = Append(asked, r) /\ ~ Contains(asked, r)
  <2>1. PICK r \in Requests : asked' = Append(asked, r) /\ ~ Contains(asked, r)
    BY <1>3
  <2>2. /\ asked' \in Seq(Requests) /\ IsInjective(asked')
        /\ ToSet(asked') = ToSet(asked) \cup {r}
    BY <1>1, <2>1, AppendDistinct, ElementsOf
  <2>3. \A q : Contains(asked', q) <=> q \in ToSet(asked')
    BY <2>2, ElementsOf
  <2>4. \A q : Contains(asked, q) <=> q \in ToSet(asked)
    BY <1>1, ElementsOf
  <2>5. \A q \in Requests : Ask(q) => q = r
    <3>1. SUFFICES ASSUME NEW q \in Requests, Ask(q) PROVE q = r
      OBVIOUS
    <3>2. asked' = Append(asked, q)
      BY <3>1 DEF Ask
    <3>3. /\ Append(asked, q)[Len(asked) + 1] = q
          /\ Append(asked, r)[Len(asked) + 1] = r
      BY <1>1
    <3> QED BY <2>1, <3>2, <3>3
  <2> QED BY <2>2, <2>3, <2>4, <2>5
<1> QED BY <1>2, <1>3, AskedChanges

\* The identifier that goes out first is the one that goes out next.
LEMMA IdentifiersStep ==
  ASSUME TypeOK, IdentifiersAgree, [Next]_vars
  PROVE  IdentifiersAgree' /\ ScarTypeOK'
<1> USE DEF ScarTypeOK, Ids
<1>1. ScarTypeOK
  BY DEF TypeOK
<1>2. CASE UNCHANGED scar
  BY <1>1, <1>2, AskedGrows DEF IdentifiersAgree
<1>3. ASSUME NEW r \in Requests, Ask(r), RequestSignals(r)
      PROVE  IdentifiersAgree' /\ ScarTypeOK'
  <2>1. ~ Contains(asked, r)
    BY <1>3 DEF Ask
  <2>2. scar[r].signals = "none"
    BY <2>1 DEF IdentifiersAgree
  <2> QED BY <1>1, <1>3, <2>2, AskedGrows DEF IdentifiersAgree, RequestSignals
<1>4. ASSUME NEW r \in Requests, KeepSignals(r)
      PROVE  IdentifiersAgree' /\ ScarTypeOK'
  BY <1>1, <1>4, AskedGrows DEF IdentifiersAgree, KeepSignals
<1>5. ASSUME NEW r \in Requests, SendSignals(r)
      PROVE  IdentifiersAgree' /\ ScarTypeOK'
  <2>1. /\ scar[r].signals = "kept" /\ scar[r].uuid \in Ids
        /\ scar' = [scar EXCEPT ![r] = [@ EXCEPT !.signals = "sent",
                                                !.posted = scar[r].uuid]]
    BY <1>1, <1>5 DEF SendSignals
  <2>2. ScarTypeOK'
    BY <1>1, <2>1
  <2>3. /\ \A q \in Requests \ {r} : scar'[q] = scar[q]
        /\ scar'[r].signals = "sent" /\ scar'[r].posted = scar[r].uuid
        /\ scar'[r].uuid = scar[r].uuid /\ scar'[r].shown = scar[r].shown
    BY <1>1, <2>1
  <2> QED BY <2>1, <2>2, <2>3, AskedGrows DEF IdentifiersAgree
<1>6. ASSUME NEW r \in Requests, Inject(r)
      PROVE  IdentifiersAgree' /\ ScarTypeOK'
  <2> DEFINE early == scar[r].signals \in {"none", "asked"}
             id == IF early THEN "token" ELSE scar[r].uuid
  <2>1. scar' = [scar EXCEPT ![r] = [@ EXCEPT !.uuid = id, !.shown = id]]
    BY <1>1, <1>6 DEF Inject
  <2>2. id \in Ids
    BY <1>1
  <2>3. ScarTypeOK'
    BY <1>1, <2>1, <2>2
  <2>4. /\ \A q \in Requests \ {r} : scar'[q] = scar[q]
        /\ scar'[r].signals = scar[r].signals
        /\ scar'[r].posted = scar[r].posted
        /\ scar'[r].uuid = id /\ scar'[r].shown = id
    BY <1>1, <2>1
  <2>5. early => id = "token" /\ scar[r].posted = "none"
    BY DEF IdentifiersAgree
  <2>6. ~ early => id = scar[r].uuid
    OBVIOUS
  <2> QED BY <2>3, <2>4, <2>5, <2>6, AskedGrows DEF IdentifiersAgree
<1> QED BY <1>2, <1>3, <1>4, <1>5, <1>6, ScarChanges

-----------------------------------------------------------------------------
(***************************************************************************)
(* The serial queue.                                                       *)
(***************************************************************************)
\* How a block goes on, or leaves the queue.
LEMMA Going ==
  ASSUME NEW step, NEW left, GoTo(step, left)
  PROVE  /\ calls' = calls
         /\ running' = [step |-> step, left |-> left, token |-> 0,
                       removed |-> FALSE]
BY DEF GoTo, Start

LEMMA Passing ==
  ASSUME TypeOK, NextPass
  PROVE  \/ running.left <= 1 /\ calls' = Tail(calls) /\ running' = Start
         \/ /\ running.left > 1 /\ calls' = calls
            /\ running' = [step |-> "take", left |-> running.left - 1,
                          token |-> 0, removed |-> FALSE]
<1>1. running.left \in Nat
  BY RequestsAssumption, FS_CardinalityType DEF TypeOK
<1> QED BY <1>1, Going DEF NextPass, Done

\* A block that begins leaves the blocks behind it.
LEMMA BlockBegins ==
  ASSUME TypeOK, StartGet \/ StartStore \/ StartInit \/ StartOther
  PROVE  /\ calls # <<>> /\ running.step = "start" /\ Upcoming = calls
         /\ Upcoming' = Tail(calls)
         /\ \/ calls' = Tail(calls) /\ running'.step = "start"
            \/ calls' = calls /\ running'.step # "start"
<1>1. calls # <<>> /\ running.step = "start"
  BY DEF StartGet, StartStore, StartInit, StartOther, Running
<1>2. \/ calls' = Tail(calls) /\ running'.step = "start"
      \/ calls' = calls /\ running'.step # "start"
  <2>1. CASE StartGet
    <3>1. CASE Done
      BY <3>1 DEF Done, Start
    <3>2. CASE GoTo(FirstStep, 1)
      BY <3>2, Going DEF FirstStep
    <3> QED BY <2>1, <3>1, <3>2 DEF StartGet
  <2>2. CASE StartStore \/ StartInit \/ StartOther
    <3>1. CASE Done
      BY <3>1 DEF Done, Start
    <3>2. CASE GoTo("take", Len(observers))
      BY <3>2, Going
    <3> QED BY <2>2, <3>1, <3>2 DEF StartStore, StartInit, StartOther
  <2> QED BY <2>1, <2>2
<1> QED BY <1>1, <1>2 DEF Upcoming

\* So does a block that has begun.
LEMMA BlockRuns ==
  ASSUME TypeOK, BlockIsInPlace,
         Take \/ Hand \/ LookForPrivacy \/ WaitForPrivacy \/ Generate
  PROVE  /\ calls # <<>> /\ running.step # "start"
         /\ Upcoming = Tail(calls) /\ Upcoming' = Tail(calls)
         /\ \/ calls' = Tail(calls) /\ running'.step = "start"
            \/ calls' = calls /\ running'.step # "start"
<1>1. calls # <<>> /\ running.step # "start"
  BY DEF Take, Hand, LookForPrivacy, WaitForPrivacy, Generate, Running
<1>2. \/ calls' = Tail(calls) /\ running'.step = "start"
      \/ calls' = calls /\ running'.step # "start"
  <2>1. CASE Take
    <3>1. CASE NextPass
      BY <3>1, Passing DEF Start
    <3>2. ASSUME NEW t, NEW m, HandOver(t, m)
          PROVE  calls' = calls /\ running'.step # "start"
      <4>1. running' = [running EXCEPT !.step = "hand", !.token = t,
                                       !.removed = m] /\ calls' = calls
        BY <3>2 DEF HandOver
      <4>2. running'.step = "hand"
        BY <4>1 DEF TypeOK
      <4> QED BY <4>1, <4>2
    <3> QED BY <2>1, <3>1, <3>2 DEF Take
  <2>2. CASE Hand
    BY <2>2, Passing DEF Hand, Start
  <2>3. CASE LookForPrivacy
    BY <2>3 DEF LookForPrivacy, GoTo, Start
  <2>4. CASE WaitForPrivacy \/ Generate
    BY <2>4 DEF WaitForPrivacy, Generate, Done, Start
  <2> QED BY <2>1, <2>2, <2>3, <2>4
<1> QED BY <1>1, <1>2 DEF Upcoming

\* Blocks that join a queue leave the block that runs in its place.
LEMMA BlocksJoin ==
  ASSUME TypeOK, BlockIsInPlace, NEW u \in Seq(Calls),
         calls' = calls \o u, UNCHANGED running
  PROVE  /\ calls' \in Seq(Calls)
         /\ calls # <<>> => calls' # <<>> /\ Head(calls') = Head(calls)
         /\ Upcoming \in Seq(Calls) /\ Upcoming' = Upcoming \o u
<1>1. calls \in Seq(Calls)
  BY DEF TypeOK
<1>2. calls' \in Seq(Calls)
  BY <1>1
<1>3. ASSUME calls # <<>>
      PROVE  /\ calls' # <<>> /\ Head(calls') = Head(calls)
             /\ Tail(calls) \in Seq(Calls) /\ Tail(calls') = Tail(calls) \o u
  BY <1>1, <1>3
<1> QED BY <1>1, <1>2, <1>3 DEF Upcoming, BlockIsInPlace

-----------------------------------------------------------------------------
(***************************************************************************)
(* The blocks to come.                                                     *)
(***************************************************************************)
Quiet(c) == c.op \in {"delete", "peek", "init"}

\* No block comes but quiet ones; those to come keep their order.
UpcomingKeeps ==
  \E d \in {0, 1} : \A p \in DOMAIN Upcoming' :
    \/ Quiet(Upcoming'[p])
    \/ p + d \in DOMAIN Upcoming /\ Upcoming'[p] = Upcoming[p + d]

\* One more block comes, behind the others.
UpcomingJoins(c) ==
  /\ c \in Calls
  /\ \A p \in DOMAIN Upcoming' :
       \/ p \in DOMAIN Upcoming /\ Upcoming'[p] = Upcoming[p]
       \/ p = Len(Upcoming) + 1 /\ Upcoming'[p] = c

News(op, n) == [op |-> op, new |-> [i \in 1..n |-> made + i]]

LEMMA UpcomingType ==
  ASSUME TypeOK, BlockIsInPlace
  PROVE  /\ Upcoming \in Seq(Calls) /\ Len(Upcoming) \in Nat
         /\ DOMAIN Upcoming = 1..Len(Upcoming)
         /\ \A p \in DOMAIN Upcoming : Upcoming[p] \in Calls
<1>1. Upcoming \in Seq(Calls)
  BY DEF Upcoming, TypeOK, BlockIsInPlace
<1> QED BY <1>1

LEMMA TailKeepsUpcoming ==
  ASSUME TypeOK, calls # <<>>, Upcoming = calls, Upcoming' = Tail(calls)
  PROVE  /\ UpcomingKeeps
         /\ \A p \in DOMAIN Upcoming' :
              /\ p \in Nat \ {0} /\ p + 1 \in DOMAIN Upcoming
              /\ Upcoming'[p] = Upcoming[p + 1]
         /\ 1 \in DOMAIN Upcoming /\ Upcoming[1] = Head(calls)
<1>1. calls \in Seq(Calls)
  BY DEF TypeOK
<1>2. \A p \in DOMAIN Upcoming' :
        /\ p \in Nat \ {0} /\ p + 1 \in DOMAIN Upcoming
        /\ Upcoming'[p] = Upcoming[p + 1]
  BY <1>1, TailElements
<1>3. 1 \in DOMAIN Upcoming /\ Upcoming[1] = Head(calls)
  BY <1>1, TailElements
<1> QED BY <1>2, <1>3 DEF UpcomingKeeps

\* What joins is one block, or several that are quiet.
LEMMA BlockJoins ==
  ASSUME TypeOK, BlockIsInPlace, NEW c \in Calls, Post(c), UNCHANGED running
  PROVE  /\ calls' \in Seq(Calls)
         /\ calls # <<>> => calls' # <<>> /\ Head(calls') = Head(calls)
         /\ UpcomingJoins(c)
         /\ Quiet(c) => UpcomingKeeps
<1>1. calls' = calls \o <<c>> /\ <<c>> \in Seq(Calls)
  BY DEF Post, TypeOK
<1>2. /\ calls' \in Seq(Calls) /\ Upcoming \in Seq(Calls)
      /\ calls # <<>> => calls' # <<>> /\ Head(calls') = Head(calls)
      /\ Upcoming' = Upcoming \o <<c>>
  BY <1>1, BlocksJoin
<1>3. UpcomingJoins(c)
  BY <1>2 DEF UpcomingJoins
<1>4. ASSUME Quiet(c) PROVE UpcomingKeeps
  <2>1. \A p \in DOMAIN Upcoming' :
          \/ Quiet(Upcoming'[p])
          \/ p + 0 \in DOMAIN Upcoming /\ Upcoming'[p] = Upcoming[p + 0]
    BY <1>2, <1>3, <1>4 DEF UpcomingJoins
  <2> QED BY <2>1 DEF UpcomingKeeps
<1> QED BY <1>2, <1>3, <1>4

\* Sequences of quiet blocks.
QuietBlocks == {u \in Seq(Calls) : \A i \in 1..Len(u) : Quiet(u[i])}

LEMMA QuietBlocksJoin ==
  ASSUME TypeOK, BlockIsInPlace, NEW u \in QuietBlocks,
         calls' = calls \o u, UNCHANGED running
  PROVE  /\ calls' \in Seq(Calls)
         /\ calls # <<>> => calls' # <<>> /\ Head(calls') = Head(calls)
         /\ UpcomingKeeps
<1>1. /\ calls' \in Seq(Calls) /\ Upcoming \in Seq(Calls)
      /\ calls # <<>> => calls' # <<>> /\ Head(calls') = Head(calls)
      /\ Upcoming' = Upcoming \o u
  BY BlocksJoin DEF QuietBlocks
<1>0. u \in Seq(Calls) /\ \A i \in 1..Len(u) : Quiet(u[i])
  BY DEF QuietBlocks
<1>2. \A p \in DOMAIN Upcoming' :
        \/ p + 0 \in DOMAIN Upcoming /\ Upcoming'[p] = Upcoming[p + 0]
        \/ p - Len(Upcoming) \in 1..Len(u)
             /\ Upcoming'[p] = u[p - Len(Upcoming)]
  BY <1>0, <1>1, ConcatElements
<1>3. UpcomingKeeps
  BY <1>0, <1>2 DEF UpcomingKeeps
<1> QED BY <1>1, <1>3

LEMMA QuietConcat ==
  ASSUME NEW u \in QuietBlocks, NEW v \in QuietBlocks
  PROVE  u \o v \in QuietBlocks
<1>1. /\ u \in Seq(Calls) /\ v \in Seq(Calls)
      /\ \A i \in 1..Len(u) : Quiet(u[i])
      /\ \A i \in 1..Len(v) : Quiet(v[i])
  BY DEF QuietBlocks
<1>2. /\ u \o v \in Seq(Calls) /\ Len(u) \in Nat /\ Len(v) \in Nat
      /\ Len(u \o v) = Len(u) + Len(v)
      /\ \A i \in 1..Len(u) + Len(v) :
           (u \o v)[i] = IF i <= Len(u) THEN u[i] ELSE v[i - Len(u)]
  BY <1>1, ConcatElements
<1>3. ASSUME NEW i \in 1..Len(u) + Len(v) PROVE Quiet((u \o v)[i])
  <2>1. CASE i <= Len(u)
    BY <1>1, <1>2, <2>1
  <2>2. CASE ~(i <= Len(u))
    <3>1. i - Len(u) \in 1..Len(v)
      BY <1>2, <2>2
    <3> QED BY <1>1, <1>2, <2>2, <3>1
  <2> QED BY <2>1, <2>2
<1> QED BY <1>2, <1>3 DEF QuietBlocks

LEMMA Associative ==
  ASSUME NEW S, NEW s \in Seq(S), NEW t \in Seq(S), NEW u \in Seq(S)
  PROVE  (s \o t) \o u = s \o (t \o u)
<1>1. /\ Len(s) \in Nat /\ Len(t) \in Nat /\ Len(u) \in Nat
      /\ s \o t \in Seq(S) /\ t \o u \in Seq(S)
      /\ Len(s \o t) = Len(s) + Len(t) /\ Len(t \o u) = Len(t) + Len(u)
  BY ConcatElements
<1> QED BY <1>1, ConcatElements

\* A failure posts quiet blocks only.
LEMMA FailurePosts ==
  ASSUME TypeOK, PostFailure
  PROVE  \E u \in QuietBlocks : calls' = calls \o u
<1> DEFINE forget == <<[op |-> "init", given |-> FALSE]>>
           again == <<[op |-> "init", given |-> TRUE]>>
           delete == <<[op |-> "delete"]>>
<1>1. forget \in QuietBlocks /\ again \in QuietBlocks /\ delete \in QuietBlocks
      /\ <<>> \in QuietBlocks
  BY DEF Calls, Quiet, QuietBlocks
<1>2. calls \in Seq(Calls) /\ QuietBlocks \subseteq Seq(Calls)
  BY DEF TypeOK, QuietBlocks
<1>3. \/ calls' = calls \o delete
      \/ \E save \in {<<>>, again} : calls' = calls \o save \o forget \o delete
  BY DEF PostFailure
<1> HIDE DEF forget, again, delete
<1>4. ASSUME NEW save \in {<<>>, again}
      PROVE  /\ calls \o save \o forget \o delete
                  = calls \o (save \o (forget \o delete))
             /\ save \o (forget \o delete) \in QuietBlocks
  <2>1. /\ save \in QuietBlocks /\ forget \o delete \in QuietBlocks
        /\ save \o (forget \o delete) \in QuietBlocks
    BY <1>1, QuietConcat
  <2>2. (calls \o save) \o forget \in Seq(Calls) /\ calls \o save \in Seq(Calls)
    BY <1>1, <1>2, <2>1, ConcatElements
  <2>a. /\ save \in Seq(Calls) /\ forget \in Seq(Calls)
        /\ delete \in Seq(Calls) /\ forget \o delete \in Seq(Calls)
    BY <1>1, <1>2, <2>1
  <2>3. ((calls \o save) \o forget) \o delete
          = (calls \o save) \o (forget \o delete)
    BY <2>a, <2>2, Associative
  <2>4. ASSUME NEW x \in Seq(Calls)
        PROVE  (calls \o save) \o x = calls \o (save \o x)
    BY <1>2, <2>a, Associative
  <2> QED BY <2>1, <2>a, <2>3, <2>4
<1> QED BY <1>1, <1>3, <1>4

\* The tokens that a call of the web application brings are new.
LEMMA NewsIsTyped ==
  ASSUME TypeOK, NEW n \in 0..(MaxTokens - made),
         NEW op \in {"create", "append"}
  PROVE  /\ News(op, n) \in Calls /\ IsNews(News(op, n))
         /\ made + n \in 0..MaxTokens /\ made \in Nat /\ n \in Nat
         /\ DOMAIN News(op, n).new = 1..n
         /\ \A i \in 1..n : News(op, n).new[i] = made + i
<1>1. made \in Nat /\ MaxTokens \in Nat /\ n \in Nat /\ made + n \in 0..MaxTokens
  BY TokensAssumption DEF TypeOK
<1>2. [i \in 1..n |-> made + i] \in Seq(1..MaxTokens)
  BY <1>1
<1> QED BY <1>1, <1>2 DEF News, Calls, IsNews

-----------------------------------------------------------------------------
(***************************************************************************)
(* The serial queue takes steps.                                           *)
(***************************************************************************)
\* The ways in which the blocks to come change.
LEMMA UpcomingChanges ==
  ASSUME TypeOK, BlockIsInPlace, [Next]_vars
  PROVE  /\ calls' \in Seq(Calls)
         /\ \/ UpcomingKeeps
            \/ \E r \in Requests : Ask(r) /\ UpcomingJoins(Get(r))
            \/ \E n \in 0..(MaxTokens - made), op \in {"create", "append"} :
                 /\ WebCall /\ made' = made + n
                 /\ UpcomingJoins(News(op, n))
<1>0. calls \in Seq(Calls)
  BY DEF TypeOK
<1>1. CASE UNCHANGED <<calls, running>>
  <2>1. \A p \in DOMAIN Upcoming' :
          p + 0 \in DOMAIN Upcoming /\ Upcoming'[p] = Upcoming[p + 0]
    BY <1>1, UpcomingType DEF Upcoming
  <2> QED BY <1>0, <1>1, <2>1 DEF UpcomingKeeps
<1>2. CASE StartGet \/ StartStore \/ StartInit \/ StartOther
  BY <1>0, <1>2, BlockBegins, TailKeepsUpcoming
<1>3. CASE Take \/ Hand \/ LookForPrivacy \/ WaitForPrivacy \/ Generate
  <2>1. /\ calls # <<>> /\ Upcoming' = Upcoming
        /\ calls' = Tail(calls) \/ calls' = calls
    BY <1>3, BlockRuns
  <2>2. \A p \in DOMAIN Upcoming' :
          p + 0 \in DOMAIN Upcoming /\ Upcoming'[p] = Upcoming[p + 0]
    BY <2>1, UpcomingType
  <2> QED BY <1>0, <2>1, <2>2 DEF UpcomingKeeps
<1>4. CASE \E r \in Requests : Ask(r)
  <2>1. PICK r \in Requests : Ask(r)
    BY <1>4
  <2>2. Get(r) \in Calls /\ Post(Get(r)) /\ UNCHANGED running
    BY <2>1 DEF Ask, Get, Calls
  <2> QED BY <2>1, <2>2, BlockJoins
<1>5. CASE WebCall
  <2>1. UNCHANGED running
    BY <1>5 DEF WebCall
  <2>2. CASE \E n \in 0..(MaxTokens - made), op \in {"create", "append"} :
               made' = made + n /\ Post(News(op, n))
    BY <1>5, <2>1, <2>2, BlockJoins, NewsIsTyped
  <2>3. ASSUME NEW c \in Calls, Quiet(c), Post(c)
        PROVE  calls' \in Seq(Calls) /\ UpcomingKeeps
    BY <2>1, <2>3, BlockJoins
  <2>4. [op |-> "delete"] \in Calls /\ Quiet([op |-> "delete"])
    BY DEF Calls, Quiet
  <2>5. \A mode \in BOOLEAN : /\ [op |-> "peek", mode |-> mode] \in Calls
                              /\ Quiet([op |-> "peek", mode |-> mode])
    BY DEF Calls, Quiet
  <2> QED BY <1>5, <2>2, <2>3, <2>4, <2>5 DEF WebCall, News
<1>6. CASE SaveConfiguration
  <2>1. /\ [op |-> "init", given |-> TRUE] \in Calls
        /\ Quiet([op |-> "init", given |-> TRUE])
    BY DEF Calls, Quiet
  <2> QED BY <1>6, <2>1, BlockJoins DEF SaveConfiguration
<1>7. CASE SetStatus
  <2>1. CASE Post([op |-> "delete"])
    <3>1. [op |-> "delete"] \in Calls /\ Quiet([op |-> "delete"])
      BY DEF Calls, Quiet
    <3> QED BY <1>7, <2>1, <3>1, BlockJoins DEF SetStatus
  <2>2. CASE PostFailure
    BY <1>7, <2>2, FailurePosts, QuietBlocksJoin DEF SetStatus
  <2>3. CASE UNCHANGED calls
    BY <1>1, <1>7, <2>3 DEF SetStatus
  <2> QED BY <1>7, <2>1, <2>2, <2>3 DEF SetStatus
<1>8. CASE GetTokenNow \/ SavePrivacy \/ TellPrivacy \/ FinishGeneration
  BY <1>1, <1>8
     DEF GetTokenNow, SavePrivacy, TellPrivacy, FinishGeneration, serialVars
<1>9. CASE \E r \in Requests : ScarStep(r) \/ TimeOut(r) \/ GiveUp(r)
                                \/ GiveUpPrivacy(r)
  BY <1>1, <1>9 DEF ScarStep, TimeOut, GiveUp, GiveUpPrivacy, serialVars
<1>10. CASE UNCHANGED vars
  BY <1>1, <1>10 DEF vars, serialVars
<1> QED
  BY <1>2, <1>3, <1>4, <1>5, <1>6, <1>7, <1>8, <1>9, <1>10, AllSteps

\* The head of the queue stays while its block runs, and whoever is not on
\* the queue does not change how far it is.
LEMMA RunningKeeps ==
  ASSUME TypeOK, BlockIsInPlace, [Next]_vars,
         ~ (StartGet \/ StartStore \/ StartInit \/ StartOther),
         ~ (Take \/ Hand \/ LookForPrivacy \/ WaitForPrivacy \/ Generate)
  PROVE  /\ UNCHANGED <<running, queueCreated, firstToken>>
         /\ calls # <<>> => calls' # <<>> /\ Head(calls') = Head(calls)
<1>1. UNCHANGED <<running, queueCreated>>
  BY AllSteps
     DEF vars, serialVars, WebCall, SaveConfiguration, SetStatus, GetTokenNow,
         TimeOut, Ask, GiveUp, ScarStep, GiveUpPrivacy, SavePrivacy,
         TellPrivacy, FinishGeneration
<1>2. UNCHANGED firstToken
  BY AllSteps
     DEF vars, storageVars, WebCall, SaveConfiguration, SetStatus, GetTokenNow,
         TakeToken, TimeOut, Ask, GiveUp, ScarStep, GiveUpPrivacy, SavePrivacy,
         TellPrivacy, FinishGeneration
<1>3. CASE UNCHANGED calls
  BY <1>1, <1>2, <1>3
<1>4. ASSUME NEW c \in Calls, Post(c)
      PROVE  calls # <<>> => calls' # <<>> /\ Head(calls') = Head(calls)
  BY <1>1, <1>4, BlockJoins
<1>5. CASE \E r \in Requests : Ask(r)
  BY <1>1, <1>2, <1>4, <1>5 DEF Ask, Get, Calls
<1>6. CASE WebCall \/ SaveConfiguration
  <2>1. \A n \in 0..(MaxTokens - made), op \in {"create", "append"} :
          News(op, n) \in Calls
    BY NewsIsTyped
  <2>2. \E c \in Calls : Post(c)
    BY <1>6, <2>1 DEF WebCall, SaveConfiguration, News, Calls
  <2> QED BY <1>1, <1>2, <1>4, <2>2
<1>7. CASE SetStatus
  <2>1. CASE Post([op |-> "delete"])
    BY <1>1, <1>2, <1>4, <2>1 DEF Calls
  <2>2. CASE PostFailure
    BY <1>1, <1>2, <2>2, FailurePosts, QuietBlocksJoin
  <2> QED BY <1>3, <1>7, <2>1, <2>2 DEF SetStatus
<1> QED
  BY <1>3, <1>5, <1>6, <1>7, AllSteps
     DEF vars, serialVars, GetTokenNow, TimeOut, GiveUp, ScarStep,
         GiveUpPrivacy, SavePrivacy, TellPrivacy, FinishGeneration

\* No more requests observe than there are.
LEMMA ObserversAreFew ==
  ASSUME TypeOK
  PROVE  /\ Len(observers) \in 0..Cardinality(Requests)
         /\ Len(privacyObservers) \in 0..Cardinality(Requests)
         /\ Cardinality(Requests) \in Nat
         /\ observers # <<>> => Len(observers) >= 1
         /\ observers = <<>> => Len(observers) = 0
<1>1. /\ observers \in Seq(Requests) /\ IsInjective(observers)
      /\ privacyObservers \in Seq(Requests) /\ IsInjective(privacyObservers)
  BY MediatorTypes DEF MediatorsTyped
<1>2. /\ Len(observers) \in Nat /\ Len(observers) <= Cardinality(Requests)
      /\ Len(privacyObservers) \in Nat
      /\ Len(privacyObservers) <= Cardinality(Requests)
  BY <1>1, RequestsAssumption, DistinctAreFew
<1>3. observers # <<>> => Len(observers) >= 1
  BY <1>1
<1>4. Cardinality(Requests) \in Nat
  BY RequestsAssumption, FS_CardinalityType
<1> QED BY <1>2, <1>3, <1>4

\* A request that has begun is one of those there are.
LEMMA RequestBegins ==
  ASSUME TypeOK, StartGet
  PROVE  /\ Head(calls).req \in Requests /\ Head(calls) = Get(Head(calls).req)
         /\ Cardinality(Requests) >= 1
<1>1. /\ Head(calls).req \in Requests /\ Head(calls) = Get(Head(calls).req)
  BY HeadsAreTyped, CallTypes DEF StartGet, Running
<1>2. Cardinality(Requests) # 0 /\ Cardinality(Requests) \in Nat
  BY <1>1, RequestsAssumption, FS_CardinalityType, FS_EmptySet
<1> QED BY <1>1, <1>2

RunningTypes ==
  [step : Steps, left : 0..Cardinality(Requests), token : 0..MaxTokens,
   removed : BOOLEAN]

LEMMA RunningType ==
  ASSUME NEW step \in Steps, NEW left \in 0..Cardinality(Requests)
  PROVE  [step |-> step, left |-> left, token |-> 0, removed |-> FALSE]
           \in RunningTypes
<1>1. 0 \in 0..MaxTokens
  BY TokensAssumption
<1> QED BY <1>1 DEF RunningTypes

LEMMA StartIsTyped == Start \in RunningTypes /\ Start.step = "start"
<1>1. 0 \in 0..Cardinality(Requests) /\ "start" \in Steps
  BY RequestsAssumption, FS_CardinalityType DEF Steps
<1> QED BY <1>1, RunningType DEF Start

\* A loop goes on, and ends in time.
LEMMA PassingIsTyped ==
  ASSUME TypeOK, NextPass
  PROVE  /\ running' \in RunningTypes
         /\ running'.step # "start" =>
              /\ running'.step = "take" /\ running.left > 1
              /\ running'.left = running.left - 1 /\ calls' = calls
<1>1. running.left \in 0..Cardinality(Requests) /\ Cardinality(Requests) \in Nat
  BY RequestsAssumption, FS_CardinalityType DEF TypeOK
<1>2. CASE running.left > 1
  <2>1. running.left - 1 \in 0..Cardinality(Requests) /\ "take" \in Steps
    BY <1>1, <1>2 DEF Steps
  <2> QED BY <1>1, <1>2, <2>1, Passing, RunningType
<1>3. CASE ~(running.left > 1)
  BY <1>1, <1>3, Passing, StartIsTyped
<1> QED BY <1>2, <1>3

LEMMA TakingIsTyped ==
  ASSUME TypeOK, Take
  PROVE  /\ running' \in RunningTypes
         /\ running'.step = "hand" =>
              running'.left = running.left /\ calls' = calls
         /\ NextPass \/ running'.step = "hand"
<1>1. CASE NextPass
  <2>1. running'.step # "hand"
    BY <1>1, PassingIsTyped
  <2> QED BY <1>1, <2>1, PassingIsTyped
<1>2. ASSUME NEW t \in 0..MaxTokens, NEW m \in BOOLEAN, HandOver(t, m)
      PROVE  /\ running' \in RunningTypes
             /\ running'.step = "hand" /\ running'.left = running.left
             /\ calls' = calls
  BY <1>2 DEF HandOver, TypeOK, RunningTypes, Steps
<1>3. tokens # <<>> => Head(tokens) \in 0..MaxTokens
  BY TokensAssumption DEF TypeOK
<1>4. 0 \in 0..MaxTokens /\ (~ peekMode) \in BOOLEAN
  BY TokensAssumption
<1> QED BY <1>1, <1>2, <1>3, <1>4 DEF Take

LEMMA RunningStep ==
  ASSUME TypeOK, BlockIsInPlace, [Next]_vars
  PROVE  running' \in RunningTypes
<1>0. Start \in RunningTypes /\ running \in RunningTypes
  BY StartIsTyped DEF RunningTypes, TypeOK
<1>1. ASSUME NEW step \in Steps, NEW left \in 0..Cardinality(Requests),
             GoTo(step, left)
      PROVE  running' \in RunningTypes
  BY <1>1, Going, RunningType
<1>2. CASE StartGet
  <2>1. 1 \in 0..Cardinality(Requests)
    BY <1>2, RequestBegins, ObserversAreFew
  <2>2. FirstStep \in Steps
    BY DEF FirstStep, Steps
  <2> QED BY <1>0, <1>1, <1>2, <2>1, <2>2 DEF StartGet, Done
<1>3. CASE StartStore \/ StartInit \/ StartOther
  <2>1. "take" \in Steps /\ Len(observers) \in 0..Cardinality(Requests)
    BY ObserversAreFew DEF Steps
  <2> QED BY <1>0, <1>1, <1>3, <2>1 DEF StartStore, StartInit, StartOther, Done
<1>4. CASE Take
  BY <1>4, TakingIsTyped
<1>5. CASE Hand
  BY <1>5, PassingIsTyped DEF Hand
<1>6. CASE LookForPrivacy
  <2>1. 1 \in 0..Cardinality(Requests)
    <3>1. Head(calls).req \in Requests
      BY <1>6, HeadsAreTyped, CallTypes
         DEF LookForPrivacy, Running, BlockIsInPlace, Generating
    <3>2. Cardinality(Requests) # 0 /\ Cardinality(Requests) \in Nat
      BY <3>1, RequestsAssumption, FS_CardinalityType, FS_EmptySet
    <3> QED BY <3>2
  <2>2. (IF privacy = "unknown" THEN "subscribe" ELSE "generate") \in Steps
    BY DEF Steps
  <2> QED BY <1>1, <1>6, <2>1, <2>2 DEF LookForPrivacy
<1>7. CASE WaitForPrivacy \/ Generate
  BY <1>0, <1>7 DEF WaitForPrivacy, Generate, Done
<1> QED BY <1>0, <1>2, <1>3, <1>4, <1>5, <1>6, <1>7, RunningKeeps

\* A block that has begun is in its place, and there is no token before there
\* is a queue of them.
LEMMA NoTokensBefore ==
  ASSUME TypeOK, BlockIsInPlace, [Next]_vars
  PROVE  /\ queueCreated => queueCreated'
         /\ ~ queueCreated' => tokens' = <<>> /\ ~ firstToken'
<1>1. ~ queueCreated => tokens = <<>> /\ ~ firstToken
  BY DEF BlockIsInPlace
<1>2. CASE StartStore
  <2>1. queueCreated' = (queueCreated \/ Head(calls).new # <<>>)
        /\ firstToken' = firstToken
        /\ tokens' = IF Head(calls).op = "create" THEN Head(calls).new
                     ELSE tokens \o Head(calls).new
    BY <1>2 DEF StartStore
  <2>2. <<>> \o <<>> = <<>>
    OBVIOUS
  <2> QED BY <1>1, <2>1, <2>2
<1>3. CASE StartInit
  BY <1>1, <1>3, HeadsAreTyped, CallTypes DEF StartInit, Running
<1>4. CASE TakeToken /\ UNCHANGED queueCreated
  <2>1. tokens # <<>> /\ UNCHANGED firstToken
    BY <1>4 DEF TakeToken
  <2> QED BY <1>1, <1>4, <2>1
<1>5. CASE UNCHANGED storageVars /\ UNCHANGED queueCreated
  BY <1>1, <1>5 DEF storageVars
<1>6. CASE StartOther
  BY <1>1, <1>6 DEF StartOther
<1>7. CASE Take
  BY <1>4, <1>5, <1>7 DEF Take
<1> QED
  BY <1>2, <1>3, <1>4, <1>5, <1>6, <1>7, AllSteps
     DEF vars, WebCall, SaveConfiguration, SetStatus, GetTokenNow, TimeOut,
         Ask, GiveUp, ScarStep, GiveUpPrivacy, StartGet, Hand, LookForPrivacy,
         WaitForPrivacy, Generate, SavePrivacy, TellPrivacy, FinishGeneration

LEMMA BlockStep ==
  ASSUME TypeOK, BlockIsInPlace, [Next]_vars
  PROVE  BlockIsInPlace'
<1> DEFINE InPlace ==
      /\ running'.step # "start" => calls' # <<>>
      /\ Looping' => queueCreated' /\ running'.left >= 1
      /\ Generating' => ~ queueCreated' /\ Head(calls').op = "get"
<1> USE DEF Looping, Generating
<1>1. CASE running'.step = "start"
  <2>1. InPlace
    BY <1>1
  <2> QED BY <2>1, NoTokensBefore DEF BlockIsInPlace
<1> SUFFICES ASSUME running'.step # "start" PROVE InPlace
  BY <1>1, NoTokensBefore DEF BlockIsInPlace
<1>2. CASE StartGet
  <2>1. GoTo(FirstStep, 1)
    BY <1>2, StartIsTyped DEF StartGet, Done
  <2>2. calls # <<>> /\ calls' = calls /\ Head(calls).op = "get"
        /\ running'.step = FirstStep /\ running'.left = 1
        /\ queueCreated' = queueCreated
    BY <1>2, <2>1, Going DEF StartGet, Running
  <2> QED BY <2>2 DEF FirstStep
<1>3. CASE StartStore \/ StartInit
  <2>1. /\ calls # <<>> /\ observers # <<>>
        /\ GoTo("take", Len(observers)) /\ queueCreated'
    <3>1. CASE StartStore
      BY <1>3, <3>1, StartIsTyped DEF StartStore, Done, Running
    <3>2. CASE StartInit
      BY <1>3, <3>2, StartIsTyped, HeadsAreTyped, CallTypes
         DEF StartInit, Done, Running
    <3> QED BY <1>3, <3>1, <3>2
  <2>2. /\ calls' = calls /\ running'.step = "take"
        /\ running'.left = Len(observers) /\ Len(observers) >= 1
    BY <2>1, Going, ObserversAreFew
  <2> QED BY <2>1, <2>2
<1>4. CASE StartOther \/ WaitForPrivacy \/ Generate
  BY <1>4, StartIsTyped DEF StartOther, WaitForPrivacy, Generate, Done
<1>5. CASE Take
  <2>1. UNCHANGED queueCreated /\ running.step = "take" /\ calls # <<>>
        /\ queueCreated /\ running.left >= 1
    BY <1>5 DEF Take, Running, BlockIsInPlace
  <2>2. CASE NextPass
    BY <2>1, <2>2, PassingIsTyped DEF RunningTypes, TypeOK
  <2>3. CASE running'.step = "hand"
    BY <1>5, <2>1, <2>3, TakingIsTyped
  <2> QED BY <1>5, <2>2, <2>3, TakingIsTyped
<1>6. CASE Hand
  <2>1. UNCHANGED queueCreated /\ running.step = "hand" /\ calls # <<>>
        /\ queueCreated /\ NextPass
    BY <1>6 DEF Hand, Running, BlockIsInPlace
  <2> QED BY <2>1, PassingIsTyped DEF RunningTypes, TypeOK
<1>7. CASE LookForPrivacy
  <2>1. /\ running.step = "privacy" /\ calls # <<>> /\ UNCHANGED queueCreated
        /\ ~ queueCreated /\ Head(calls).op = "get"
    BY <1>7 DEF LookForPrivacy, Running, BlockIsInPlace
  <2>2. calls' = calls /\ running'.step \in {"subscribe", "generate"}
    BY <1>7, Going DEF LookForPrivacy
  <2> QED BY <2>1, <2>2
<1>8. CASE ~ (StartGet \/ StartStore \/ StartInit \/ StartOther)
             /\ ~ (Take \/ Hand \/ LookForPrivacy \/ WaitForPrivacy \/ Generate)
  BY <1>8, RunningKeeps DEF BlockIsInPlace
<1> QED BY <1>2, <1>3, <1>4, <1>5, <1>6, <1>7, <1>8

-----------------------------------------------------------------------------
(***************************************************************************)
(* How observers come and go, and what they are told.                      *)
(***************************************************************************)
Told(r, a) == answers' = [answers EXCEPT ![r] = Append(@, a)]

ObserverJoins(r) ==
  /\ observers' = Append(observers, r)
  /\ armed' \in {armed, armed \cup {r}}
  /\ UNCHANGED <<firing, answers>>

ObserverServed(a) ==
  /\ observers # <<>> /\ observers' = Tail(observers)
  /\ armed' = armed \ {Head(observers)} /\ UNCHANGED firing
  /\ Told(Head(observers), a)

ObserverTimesOut(r) ==
  /\ r \in armed /\ firing' = firing \cup {r}
  /\ UNCHANGED <<observers, armed, answers>>

ObserverGivesUp(r) ==
  /\ r \in firing /\ observers' = RemoveFirst(observers, r)
  /\ armed' = armed \ {r} /\ firing' = firing \ {r}
  /\ Told(r, None)

LEMMA NotifyingServes ==
  ASSUME NEW a, NotifyHead(a)
  PROVE  \/ observers = <<>> /\ UNCHANGED <<bridgeVars, answers>>
         \/ ObserverServed(a)
BY DEF NotifyHead, Bridge!NotifyFirst, Tell, ObserverServed, Told

LEMMA BridgeChanges ==
  ASSUME TypeOK, [Next]_vars
  PROVE  \/ UNCHANGED <<observers, armed, firing, answers>>
         \/ /\ StartGet
            /\ \/ ObserverJoins(Head(calls).req)
               \/ Told(Head(calls).req, None) /\ UNCHANGED bridgeVars
         \/ Hand /\ ObserverServed(Web(running.token))
         \/ /\ Generate \/ FinishGeneration
            /\ \E a \in {Native, None} : ObserverServed(a)
         \/ \E r \in Requests : TimeOut(r) /\ ObserverTimesOut(r)
         \/ \E r \in Requests : GiveUp(r) /\ ObserverGivesUp(r)
<1>1. CASE StartGet
  BY <1>1 DEF StartGet, Tell, Told, Bridge!Subscribe, ObserverJoins
<1>2. CASE Hand
  BY <1>2, NotifyingServes DEF Hand, bridgeVars
<1>3. CASE Generate \/ FinishGeneration
  BY <1>3, NotifyingServes DEF Generate, FinishGeneration, bridgeVars
<1>4. ASSUME NEW r \in Requests, TimeOut(r)
      PROVE  UNCHANGED <<observers, armed, firing, answers>>
               \/ ObserverTimesOut(r)
  BY <1>4 DEF TimeOut, bridgeVars, Bridge!TakeTimeout, ObserverTimesOut
<1>5. ASSUME NEW r \in Requests, GiveUp(r)
      PROVE  ObserverGivesUp(r)
  <2>1. RemoveFirst(observers, r) = Bridge!RemoveFirst(observers, r)
    BY DEF RemoveFirst, Bridge!RemoveFirst, RemoveAt, Bridge!RemoveAt,
           SelectInSeq, Bridge!SelectInSeq, Min, Bridge!Min
  <2> QED
    BY <1>5, <2>1
       DEF GiveUp, Tell, Told, Bridge!RemoveObserver, ObserverGivesUp
<1> QED
  BY <1>1, <1>2, <1>3, <1>4, <1>5, AllSteps
     DEF vars, bridgeVars, WebCall, SaveConfiguration, SetStatus, GetTokenNow,
         Ask, ScarStep, GiveUpPrivacy, StartStore, StartInit, StartOther, Take,
         LookForPrivacy, WaitForPrivacy, SavePrivacy, TellPrivacy

\* The same of those who wait for the privacy response.
PrivacyWaits(r) ==
  /\ privacyObservers' = Append(privacyObservers, r)
  /\ privacyArmed' \in {privacyArmed, privacyArmed \cup {r}}
  /\ UNCHANGED privacyFiring

PrivacyIsTold ==
  /\ privacyObservers' = <<>>
  /\ privacyArmed' = privacyArmed \ ToSet(privacyObservers)
  /\ UNCHANGED privacyFiring
  /\ generations' = generations + Len(privacyObservers)

PrivacyTimesOut(r) ==
  /\ r \in privacyArmed /\ privacyFiring' = privacyFiring \cup {r}
  /\ UNCHANGED <<privacyObservers, privacyArmed>>

PrivacyGivesUp(r) ==
  /\ r \in privacyFiring
  /\ privacyObservers' = RemoveFirst(privacyObservers, r)
  /\ privacyArmed' = privacyArmed \ {r}
  /\ privacyFiring' = privacyFiring \ {r}
  /\ generations' = generations + 1

LEMMA PrivacyChanges ==
  ASSUME TypeOK, [Next]_vars
  PROVE  \/ /\ UNCHANGED privacyVars
            /\ \/ UNCHANGED generations
               \/ /\ FinishGeneration
                  /\ generations > 0 /\ generations' = generations - 1
         \/ /\ WaitForPrivacy /\ PrivacyWaits(Head(calls).req)
            /\ UNCHANGED generations
         \/ TellPrivacy /\ PrivacyIsTold
         \/ \E r \in Requests :
              TimeOut(r) /\ PrivacyTimesOut(r) /\ UNCHANGED generations
         \/ \E r \in Requests : GiveUpPrivacy(r) /\ PrivacyGivesUp(r)
<1>1. CASE FinishGeneration
  BY <1>1 DEF FinishGeneration
<1>2. CASE WaitForPrivacy
  BY <1>2 DEF WaitForPrivacy, Privacy!Subscribe, PrivacyWaits
<1>3. CASE TellPrivacy
  <2>1. Privacy!ToSet(privacyObservers) = ToSet(privacyObservers)
    BY DEF Privacy!ToSet, ToSet
  <2> QED BY <1>3, <2>1 DEF TellPrivacy, Privacy!NotifyAllAndRemove, PrivacyIsTold
<1>4. ASSUME NEW r \in Requests, TimeOut(r)
      PROVE  /\ UNCHANGED privacyVars \/ PrivacyTimesOut(r)
             /\ UNCHANGED generations
  BY <1>4 DEF TimeOut, Privacy!TakeTimeout, PrivacyTimesOut
<1>5. ASSUME NEW r \in Requests, GiveUpPrivacy(r)
      PROVE  PrivacyGivesUp(r)
  <2>1. RemoveFirst(privacyObservers, r)
          = Privacy!RemoveFirst(privacyObservers, r)
    BY DEF RemoveFirst, Privacy!RemoveFirst, RemoveAt, Privacy!RemoveAt,
           SelectInSeq, Privacy!SelectInSeq, Min, Privacy!Min
  <2> QED
    BY <1>5, <2>1 DEF GiveUpPrivacy, Privacy!RemoveObserver, PrivacyGivesUp
<1> QED
  BY <1>1, <1>2, <1>3, <1>4, <1>5, AllSteps
     DEF vars, WebCall, SaveConfiguration, SetStatus, GetTokenNow, Ask, GiveUp,
         ScarStep, StartGet, StartStore, StartInit, StartOther, Take, Hand,
         LookForPrivacy, Generate, SavePrivacy

-----------------------------------------------------------------------------
(***************************************************************************)
(* What these changes do.                                                  *)
(***************************************************************************)
LEMMA AnswerTypes ==
  ASSUME TypeOK
  PROVE  Native \in Answers /\ None \in Answers /\ Web(running.token) \in Answers
<1>1. running.token \in 0..MaxTokens /\ MaxTokens \in Nat
  BY TokensAssumption DEF TypeOK
<1> QED BY <1>1 DEF Native, None, Web, Answers

\* An answer comes last, and changes what nobody else was told.
LEMMA Telling ==
  ASSUME TypeOK, NEW r \in Requests, NEW a \in Answers, Told(r, a)
  PROVE  /\ answers' \in [Requests -> Seq(Answers)]
         /\ answers'[r] = Append(answers[r], a) /\ answers'[r] # <<>>
         /\ \A q \in Requests \ {r} : answers'[q] = answers[q]
         /\ \A b : b \in ToSet(answers'[r]) <=>
                     b \in ToSet(answers[r]) \/ b = a
         /\ answers[r] # <<>> => answers'[r][1] = answers[r][1]
         /\ answers[r] = <<>> => answers'[r][1] = a /\ Len(answers'[r]) = 1
<1>1. answers \in [Requests -> Seq(Answers)] /\ answers[r] \in Seq(Answers)
  BY DEF TypeOK
<1>2. answers'[r] = Append(answers[r], a)
  BY <1>1 DEF Told
<1>3. answers' \in [Requests -> Seq(Answers)]
  BY <1>1 DEF Told
<1>4. \A q \in Requests \ {r} : answers'[q] = answers[q]
  BY <1>1 DEF Told
<1>5. ToSet(Append(answers[r], a)) = ToSet(answers[r]) \cup {a}
  BY <1>1, AppendDistinct
<1>6. answers'[r] # <<>>
  BY <1>1, <1>2, AppendHasLast
<1>7. answers[r] # <<>> => answers'[r][1] = answers[r][1]
  BY <1>1, <1>2
<1>8. answers[r] = <<>> => answers'[r][1] = a /\ Len(answers'[r]) = 1
  BY <1>2
<1> QED BY <1>2, <1>3, <1>4, <1>5, <1>6, <1>7, <1>8

\* Whose block begins has not been heard before, and will not come again.
LEMMA NewcomerIsUnheard ==
  ASSUME TypeOK, BlockIsInPlace, RequestsComeOnce, StartGet
  PROVE  LET r == Head(calls).req IN
         /\ r \in Requests /\ ~ Heard(r) /\ Contains(asked, r)
         /\ \A p \in DOMAIN Upcoming' : Upcoming'[p] # Get(r)
         /\ Comes(r)
<1> DEFINE r == Head(calls).req
<1>1. r \in Requests /\ Head(calls) = Get(r)
  BY RequestBegins
<1>2. /\ \A p \in DOMAIN Upcoming' :
           /\ p \in Nat \ {0} /\ p + 1 \in DOMAIN Upcoming
           /\ Upcoming'[p] = Upcoming[p + 1]
      /\ 1 \in DOMAIN Upcoming /\ Upcoming[1] = Head(calls)
  BY BlockBegins, TailKeepsUpcoming
<1>3. Comes(r)
  BY <1>1, <1>2 DEF Comes
<1>4. Get(r).op = "get" /\ Get(r).req = r
  BY DEF Get
<1>5. ASSUME NEW p \in DOMAIN Upcoming', Upcoming'[p] = Get(r) PROVE FALSE
  <2>1. /\ p \in Nat \ {0} /\ p + 1 \in DOMAIN Upcoming
        /\ Upcoming[p + 1] = Get(r)
    BY <1>2, <1>5
  <2>2. Upcoming[1].op = "get" /\ Upcoming[1] = Upcoming[p + 1]
    BY <1>1, <1>2, <1>4, <2>1
  <2>3. 1 = p + 1
    BY <1>2, <2>1, <2>2 DEF RequestsComeOnce
  <2> QED BY <2>1, <2>3
<1>6. Contains(asked, r)
  BY <1>1, <1>2, <1>4 DEF RequestsComeOnce
<1> QED BY <1>1, <1>3, <1>5, <1>6 DEF RequestsComeOnce

\* The observers stay distinct, and have their timeout blocks.
LEMMA ObserverJoining ==
  ASSUME TypeOK, NEW r \in Requests, r \notin ToSet(observers),
         observers' = Append(observers, r)
  PROVE  /\ observers' \in Seq(Requests) /\ IsInjective(observers')
         /\ ToSet(observers') = ToSet(observers) \cup {r}
BY MediatorTypes, AppendDistinct DEF MediatorsTyped

LEMMA ObserverLeaving ==
  ASSUME TypeOK, observers # <<>>, observers' = Tail(observers)
  PROVE  /\ observers' \in Seq(Requests) /\ IsInjective(observers')
         /\ ToSet(observers') = ToSet(observers) \ {Head(observers)}
         /\ Head(observers) \in ToSet(observers) /\ Head(observers) \in Requests
         /\ Len(observers') = Len(observers) - 1
<1>1. observers \in Seq(Requests) /\ IsInjective(observers)
  BY MediatorTypes DEF MediatorsTyped
<1>2. /\ Tail(observers) \in Seq(Requests) /\ Head(observers) \in Requests
      /\ Len(Tail(observers)) = Len(observers) - 1
  BY <1>1, TailElements
<1> QED BY <1>1, <1>2, TailDistinct

LEMMA ObserverRemoved ==
  ASSUME TypeOK, NEW r \in Requests, observers' = RemoveFirst(observers, r)
  PROVE  /\ observers' \in Seq(Requests) /\ IsInjective(observers')
         /\ ToSet(observers') = ToSet(observers) \ {r}
BY MediatorTypes, RemoveDistinct DEF MediatorsTyped

LEMMA ObserversStep ==
  ASSUME TypeOK, BlockIsInPlace, RequestsComeOnce, ArmedObserversWait,
         ObserversHaveHeardNothing, [Next]_vars
  PROVE  /\ observers' \in Seq(Requests) /\ IsInjective(observers')
         /\ armed' \subseteq ToSet(observers') /\ armed' \subseteq Requests
         /\ firing' \subseteq Requests
         /\ answers' \in [Requests -> Seq(Answers)]
         /\ ObserversHaveHeardNothing'
         /\ \A q \in Requests :
              Heard(q)' <=> Heard(q) \/ (StartGet /\ q = Head(calls).req)
<1>1. /\ observers \in Seq(Requests) /\ IsInjective(observers)
      /\ armed \subseteq ToSet(observers) /\ armed \subseteq Requests
      /\ firing \subseteq Requests /\ answers \in [Requests -> Seq(Answers)]
      /\ \A r \in ToSet(observers) : answers[r] = <<>>
      /\ \A r \in firing : r \in ToSet(observers) \/ Len(answers[r]) = 1
      /\ \A r \in Requests :
           r \in ToSet(observers) => answers[r] = <<>> /\ Len(answers[r]) = 0
  BY MediatorTypes
     DEF MediatorsTyped, ArmedObserversWait, ObserversHaveHeardNothing, TypeOK
<1> DEFINE Goal ==
      /\ observers' \in Seq(Requests) /\ IsInjective(observers')
      /\ armed' \subseteq ToSet(observers') /\ armed' \subseteq Requests
      /\ firing' \subseteq Requests
      /\ answers' \in [Requests -> Seq(Answers)]
      /\ \A r \in ToSet(observers') : answers'[r] = <<>>
      /\ \A r \in firing' : r \in ToSet(observers') \/ Len(answers'[r]) = 1
    HeardGrows(r) ==
      \A q \in Requests : Heard(q)' <=> Heard(q) \/ q = r
    HeardStays == \A q \in Requests : Heard(q)' <=> Heard(q)
<1>a. \A r \in Requests : Len(answers[r]) = 1 => answers[r] # <<>>
  OBVIOUS
<1>b. ToSet(observers) \subseteq Requests
  BY <1>1 DEF ToSet
<1>2. ASSUME UNCHANGED <<observers, armed, firing, answers>>
      PROVE  Goal /\ HeardStays
  <2>1. Goal
    BY <1>1, <1>2
  <2>2. HeardStays
    BY <1>2 DEF Heard
  <2> QED BY <2>1, <2>2
<1>3. ASSUME StartGet, NEW r \in Requests, r = Head(calls).req
      PROVE  Goal /\ HeardGrows(r)
  <2>1. ~ Heard(r)
    BY <1>3, NewcomerIsUnheard
  <2>2. r \notin ToSet(observers) /\ answers[r] = <<>> /\ r \notin firing
    BY <1>1, <1>a, <2>1 DEF Heard
  <2>3. CASE ObserverJoins(r)
    <3>1. /\ observers' \in Seq(Requests) /\ IsInjective(observers')
          /\ ToSet(observers') = ToSet(observers) \cup {r}
      BY <2>2, <2>3, ObserverJoining DEF ObserverJoins
    <3>2. UNCHANGED <<firing, answers>> /\ armed' \subseteq armed \cup {r}
      BY <2>3 DEF ObserverJoins
    <3>3. armed' \subseteq ToSet(observers') /\ armed' \subseteq Requests
      BY <1>1, <3>1, <3>2
    <3>4. Goal
      BY <1>1, <2>2, <3>1, <3>2, <3>3
    <3>5. HeardGrows(r)
      BY <3>1, <3>2 DEF Heard
    <3> QED BY <3>4, <3>5
  <2>4. CASE Told(r, None) /\ UNCHANGED bridgeVars
    <3>1. /\ answers' \in [Requests -> Seq(Answers)] /\ answers'[r] # <<>>
          /\ \A q \in Requests \ {r} : answers'[q] = answers[q]
      BY <2>4, AnswerTypes, Telling
    <3>2. UNCHANGED <<observers, armed, firing>>
      BY <2>4 DEF bridgeVars
    <3>3. \A q \in ToSet(observers) \cup firing : answers'[q] = answers[q]
      BY <1>1, <1>b, <2>2, <3>1
    <3>4. Goal
      BY <1>1, <3>1, <3>2, <3>3
    <3>5. HeardGrows(r)
      BY <3>1, <3>2 DEF Heard
    <3> QED BY <3>4, <3>5
  <2>5. ObserverJoins(r) \/ (Told(r, None) /\ UNCHANGED bridgeVars)
    BY <1>3 DEF StartGet, Tell, Told, Bridge!Subscribe, ObserverJoins
  <2> QED BY <2>3, <2>4, <2>5
<1>4. ASSUME NEW a \in Answers, ObserverServed(a)
      PROVE  Goal /\ HeardStays
  <2> DEFINE h == Head(observers)
  <2>1. /\ observers' \in Seq(Requests) /\ IsInjective(observers')
        /\ ToSet(observers') = ToSet(observers) \ {h}
        /\ h \in ToSet(observers) /\ h \in Requests
    BY <1>4, ObserverLeaving DEF ObserverServed
  <2>2. armed' = armed \ {h} /\ UNCHANGED firing /\ Told(h, a)
    BY <1>4 DEF ObserverServed
  <2> HIDE DEF h
  <2>3. /\ answers' \in [Requests -> Seq(Answers)] /\ answers'[h] # <<>>
        /\ Len(answers'[h]) = 1
        /\ \A q \in Requests \ {h} : answers'[q] = answers[q]
    BY <1>1, <2>1, <2>2, Telling
  <2>4. armed' \subseteq ToSet(observers') /\ armed' \subseteq Requests
    BY <1>1, <2>1, <2>2
  <2>5. Goal
    BY <1>1, <1>b, <2>1, <2>2, <2>3, <2>4
  <2>6. HeardStays
    BY <1>1, <2>1, <2>2, <2>3 DEF Heard
  <2> QED BY <2>5, <2>6
<1>5. ASSUME NEW r \in Requests, ObserverTimesOut(r)
      PROVE  Goal /\ HeardStays
  BY <1>1, <1>5 DEF ObserverTimesOut, Heard
<1>6. ASSUME NEW r \in Requests, ObserverGivesUp(r)
      PROVE  Goal /\ HeardStays
  <2>1. /\ observers' \in Seq(Requests) /\ IsInjective(observers')
        /\ ToSet(observers') = ToSet(observers) \ {r}
    BY <1>6, ObserverRemoved DEF ObserverGivesUp
  <2>2. /\ armed' = armed \ {r} /\ firing' = firing \ {r} /\ r \in firing
        /\ Told(r, None)
    BY <1>6 DEF ObserverGivesUp
  <2>3. /\ answers' \in [Requests -> Seq(Answers)] /\ answers'[r] # <<>>
        /\ \A q \in Requests \ {r} : answers'[q] = answers[q]
    BY <2>2, AnswerTypes, Telling
  <2>4. Heard(r)
    <3>1. Len(answers[r]) = 1 => answers[r] # <<>>
      OBVIOUS
    <3> QED BY <1>1, <2>2, <3>1 DEF Heard
  <2>5. armed' \subseteq ToSet(observers') /\ armed' \subseteq Requests
    BY <1>1, <2>1, <2>2
  <2>6. Goal
    BY <1>1, <1>b, <2>1, <2>2, <2>3, <2>5
  <2>7. HeardStays
    BY <1>1, <2>1, <2>2, <2>3, <2>4 DEF Heard
  <2> QED BY <2>6, <2>7
<1>7. CASE StartGet
  BY <1>3, <1>7, RequestBegins DEF ObserversHaveHeardNothing
<1>8. CASE ~ StartGet
  <2>1. Goal /\ HeardStays
    BY <1>2, <1>4, <1>5, <1>6, <1>8, BridgeChanges, AnswerTypes
  <2> QED BY <1>8, <2>1 DEF ObserversHaveHeardNothing
<1> QED BY <1>7, <1>8

LEMMA PrivacyObserversStep ==
  ASSUME TypeOK, BlockIsInPlace, RequestsComeOnce, ArmedObserversWait,
         [Next]_vars
  PROVE  /\ privacyObservers' \in Seq(Requests)
         /\ IsInjective(privacyObservers')
         /\ privacyArmed' \subseteq ToSet(privacyObservers')
         /\ privacyArmed' \subseteq Requests /\ privacyFiring' \subseteq Requests
         /\ \A q \in ToSet(privacyObservers') \cup privacyFiring' :
              \/ q \in ToSet(privacyObservers) \cup privacyFiring
              \/ WaitForPrivacy /\ q = Head(calls).req
<1>1. /\ privacyObservers \in Seq(Requests) /\ IsInjective(privacyObservers)
      /\ privacyArmed \subseteq ToSet(privacyObservers)
      /\ privacyArmed \subseteq Requests /\ privacyFiring \subseteq Requests
  BY MediatorTypes DEF MediatorsTyped, ArmedObserversWait
<1>2. CASE UNCHANGED privacyVars
  BY <1>1, <1>2 DEF privacyVars
<1>3. ASSUME WaitForPrivacy, NEW r, r = Head(calls).req, PrivacyWaits(r)
      PROVE  /\ r \in Requests
             /\ privacyObservers' \in Seq(Requests)
             /\ IsInjective(privacyObservers')
             /\ ToSet(privacyObservers') = ToSet(privacyObservers) \cup {r}
             /\ privacyArmed' \in {privacyArmed, privacyArmed \cup {r}}
             /\ UNCHANGED privacyFiring
  <2>1. running.step = "subscribe" /\ calls # <<>> /\ Head(calls).op = "get"
    BY <1>3 DEF WaitForPrivacy, Running, BlockIsInPlace, Generating
  <2>2. r \in Requests
    BY <1>3, <2>1, HeadsAreTyped, CallTypes
  <2>3. r \notin ToSet(privacyObservers)
    BY <1>3, <2>1 DEF RequestsComeOnce
  <2> QED BY <1>1, <1>3, <2>2, <2>3, AppendDistinct DEF PrivacyWaits
<1>4. CASE WaitForPrivacy /\ PrivacyWaits(Head(calls).req)
  <2>1. PICK r : r = Head(calls).req /\ PrivacyWaits(r)
    BY <1>4
  <2>2. /\ r \in Requests
        /\ privacyObservers' \in Seq(Requests)
        /\ IsInjective(privacyObservers')
        /\ ToSet(privacyObservers') = ToSet(privacyObservers) \cup {r}
        /\ privacyArmed' \in {privacyArmed, privacyArmed \cup {r}}
        /\ UNCHANGED privacyFiring
    BY <1>3, <1>4, <2>1
  <2> QED BY <1>1, <1>4, <2>1, <2>2
<1>5. CASE PrivacyIsTold
  <2>1. /\ <<>> \in Seq(Requests) /\ ToSet(<<>>) = {} /\ IsInjective(<<>>)
    BY DEF ToSet, IsInjective
  <2> QED BY <1>1, <1>5, <2>1 DEF PrivacyIsTold
<1>6. ASSUME NEW r \in Requests, PrivacyTimesOut(r)
      PROVE  /\ UNCHANGED <<privacyObservers, privacyArmed>>
             /\ privacyFiring' = privacyFiring \cup {r}
             /\ r \in ToSet(privacyObservers)
  BY <1>1, <1>6 DEF PrivacyTimesOut
<1>7. ASSUME NEW r \in Requests, PrivacyGivesUp(r)
      PROVE  /\ privacyObservers' \in Seq(Requests)
             /\ IsInjective(privacyObservers')
             /\ ToSet(privacyObservers') = ToSet(privacyObservers) \ {r}
             /\ privacyArmed' = privacyArmed \ {r}
             /\ privacyFiring' = privacyFiring \ {r}
  BY <1>1, <1>7, RemoveDistinct DEF PrivacyGivesUp
<1>8. CASE \E r \in Requests : PrivacyTimesOut(r)
  BY <1>1, <1>6, <1>8
<1>9. CASE \E r \in Requests : PrivacyGivesUp(r)
  BY <1>1, <1>7, <1>9
<1> QED BY <1>2, <1>4, <1>5, <1>8, <1>9, PrivacyChanges

-----------------------------------------------------------------------------
(***************************************************************************)
(* The requests, in the queue and out of it.                               *)
(***************************************************************************)
\* Only who asks will come who did not before.
LEMMA GetsCome ==
  ASSUME TypeOK, BlockIsInPlace, [Next]_vars
  PROVE  \A r \in Requests : Comes(r)' => Comes(r) \/ Ask(r)
<1>1. ASSUME NEW r \in Requests, Comes(r)' PROVE Comes(r) \/ Ask(r)
  <2>0. Get(r).op = "get" /\ \A q : Get(q) = Get(r) => q = r
    BY DEF Get
  <2>1. PICK p \in DOMAIN Upcoming' : Upcoming'[p] = Get(r)
    BY <1>1 DEF Comes
  <2>2. CASE UpcomingKeeps
    <3>1. ~ Quiet(Upcoming'[p])
      BY <2>0, <2>1 DEF Quiet
    <3> QED BY <2>1, <2>2, <3>1 DEF UpcomingKeeps, Comes
  <2>3. ASSUME NEW q \in Requests, Ask(q), UpcomingJoins(Get(q))
        PROVE  Comes(r) \/ Ask(r)
    BY <2>0, <2>1, <2>3 DEF UpcomingJoins, Comes
  <2>4. ASSUME NEW n, NEW op \in {"create", "append"},
               UpcomingJoins(News(op, n))
        PROVE  Comes(r)
    <3>1. News(op, n).op # "get"
      BY DEF News
    <3> QED BY <2>0, <2>1, <2>4, <3>1 DEF UpcomingJoins, Comes
  <2> QED BY <2>2, <2>3, <2>4, UpcomingChanges
<1> QED BY <1>1

LEMMA GetsAreOnce ==
  ASSUME TypeOK, BlockIsInPlace, RequestsComeOnce, [Next]_vars
  PROVE  /\ \A i \in DOMAIN Upcoming' : Upcoming'[i].op = "get" =>
              Contains(asked', Upcoming'[i].req)
         /\ \A i, j \in DOMAIN Upcoming' :
              Upcoming'[i].op = "get" /\ Upcoming'[i] = Upcoming'[j] => i = j
<1>1. /\ \A i \in DOMAIN Upcoming : Upcoming[i].op = "get" =>
           Contains(asked, Upcoming[i].req)
      /\ \A i, j \in DOMAIN Upcoming :
           Upcoming[i].op = "get" /\ Upcoming[i] = Upcoming[j] => i = j
  BY DEF RequestsComeOnce
<1>2. \A r : Contains(asked, r) => Contains(asked, r)'
  BY AskedGrows
<1>3. Len(Upcoming) \in Nat /\ DOMAIN Upcoming = 1..Len(Upcoming)
  BY UpcomingType
<1>4. CASE UpcomingKeeps
  <2>1. PICK d \in {0, 1} : \A p \in DOMAIN Upcoming' :
          \/ Quiet(Upcoming'[p])
          \/ p + d \in DOMAIN Upcoming /\ Upcoming'[p] = Upcoming[p + d]
    BY <1>4 DEF UpcomingKeeps
  <2>2. \A p \in DOMAIN Upcoming' : Upcoming'[p].op = "get" =>
          p + d \in DOMAIN Upcoming /\ Upcoming'[p] = Upcoming[p + d]
    BY <2>1 DEF Quiet
  <2>3. DOMAIN Upcoming' = 1..Len(Upcoming')
    <3>1. Upcoming' \in Seq(Calls)
      BY UpcomingChanges, BlockStep DEF Upcoming, BlockIsInPlace
    <3> QED BY <3>1
  <2>4. \A i, j \in DOMAIN Upcoming' : i + d = j + d => i = j
    BY <2>3
  <2> QED BY <1>1, <1>2, <2>2, <2>4
<1>5. ASSUME NEW r \in Requests, Ask(r), UpcomingJoins(Get(r))
      PROVE  /\ \A i \in DOMAIN Upcoming' : Upcoming'[i].op = "get" =>
                  Contains(asked', Upcoming'[i].req)
             /\ \A i, j \in DOMAIN Upcoming' :
                  Upcoming'[i].op = "get" /\ Upcoming'[i] = Upcoming'[j]
                    => i = j
  <2>1. Contains(asked, r)' /\ ~ Contains(asked, r)
    BY <1>5, AskedGrows DEF Ask
  <2>2. Get(r).op = "get" /\ Get(r).req = r
    BY DEF Get
  <2>3. \A i \in DOMAIN Upcoming : Upcoming[i] # Get(r)
    BY <1>1, <2>1, <2>2
  <2> QED BY <1>1, <1>2, <1>5, <2>1, <2>2, <2>3 DEF UpcomingJoins
<1>6. ASSUME NEW n, NEW op \in {"create", "append"}, UpcomingJoins(News(op, n))
      PROVE  /\ \A i \in DOMAIN Upcoming' : Upcoming'[i].op = "get" =>
                  Contains(asked', Upcoming'[i].req)
             /\ \A i, j \in DOMAIN Upcoming' :
                  Upcoming'[i].op = "get" /\ Upcoming'[i] = Upcoming'[j]
                    => i = j
  <2>1. News(op, n).op # "get"
    BY DEF News
  <2> QED BY <1>1, <1>2, <1>6, <2>1 DEF UpcomingJoins
<1> QED BY <1>4, <1>5, <1>6, UpcomingChanges

\* Who generates a token has been heard, and waits for the privacy response
\* once.
LEMMA GeneratingStep ==
  ASSUME TypeOK, BlockIsInPlace, RequestsComeOnce, ArmedObserversWait,
         ObserversHaveHeardNothing, [Next]_vars, Generating'
  PROVE  \E r \in Requests :
           /\ r = Head(calls').req /\ Heard(r)'
           /\ running'.step \in {"privacy", "subscribe"} =>
                r \notin ToSet(privacyObservers') \cup privacyFiring'
<1>0. running'.step # "start" /\ running'.step # "take"
        /\ running'.step # "hand"
  BY DEF Generating
<1>1. CASE StartGet
  <2>1. PICK r \in Requests : r = Head(calls).req
    BY <1>1, RequestBegins
  <2>2. calls' = calls
    BY <1>0, <1>1, BlockBegins
  <2>3. Heard(r)' /\ ~ Heard(r)
    BY <1>1, <2>1, ObserversStep, NewcomerIsUnheard
  <2>4. UNCHANGED <<privacyObservers, privacyFiring>>
    BY <1>1 DEF StartGet, privacyVars
  <2>5. r \notin ToSet(privacyObservers) \cup privacyFiring
    BY <2>3 DEF RequestsComeOnce
  <2> QED BY <2>1, <2>2, <2>3, <2>4, <2>5
<1>2. CASE StartStore \/ StartInit \/ StartOther
  <2>1. ~ GoTo("take", Len(observers)) /\ ~ Done
    BY <1>0, Going, StartIsTyped DEF Done
  <2> QED BY <1>2, <2>1 DEF StartStore, StartInit, StartOther
<1>3. CASE Take
  BY <1>0, <1>3, TakingIsTyped, PassingIsTyped
<1>4. CASE Hand
  BY <1>0, <1>4, PassingIsTyped DEF Hand
<1>5. CASE WaitForPrivacy \/ Generate
  BY <1>0, <1>5, StartIsTyped DEF WaitForPrivacy, Generate, Done
<1>6. CASE LookForPrivacy
  <2>1. /\ calls' = calls /\ running.step = "privacy" /\ calls # <<>>
        /\ UNCHANGED <<privacyObservers, privacyFiring, observers, answers>>
    BY <1>6, Going
       DEF LookForPrivacy, privacyVars, bridgeVars, Running
  <2>2. Generating /\ Head(calls).op = "get"
    BY <2>1 DEF BlockIsInPlace, Generating
  <2>3. PICK r \in Requests : r = Head(calls).req
    BY <2>1, <2>2, HeadsAreTyped, CallTypes
  <2>4. Heard(r) /\ r \notin ToSet(privacyObservers) \cup privacyFiring
    BY <2>1, <2>2, <2>3 DEF RequestsComeOnce
  <2>5. Heard(r)'
    BY <2>1, <2>4 DEF Heard
  <2> QED BY <2>1, <2>3, <2>4, <2>5
<1>7. CASE ~ (StartGet \/ StartStore \/ StartInit \/ StartOther)
             /\ ~ (Take \/ Hand \/ LookForPrivacy \/ WaitForPrivacy \/ Generate)
  <2>1. Generating /\ running' = running
    BY <1>7, RunningKeeps DEF Generating
  <2>2. /\ calls # <<>> /\ Head(calls') = Head(calls)
        /\ Head(calls).op = "get"
    BY <1>7, <2>1, RunningKeeps DEF BlockIsInPlace, Generating
  <2>3. PICK r \in Requests : r = Head(calls).req
    BY <2>2, HeadsAreTyped, CallTypes
  <2>4. Heard(r)
    BY <2>1, <2>3 DEF RequestsComeOnce
  <2>5. running'.step \in {"privacy", "subscribe"} =>
          r \notin ToSet(privacyObservers) \cup privacyFiring
    BY <2>1, <2>3 DEF RequestsComeOnce
  <2>6. Heard(r)'
    BY <2>4, ObserversStep
  <2>7. \A q \in ToSet(privacyObservers') \cup privacyFiring' :
          q \in ToSet(privacyObservers) \cup privacyFiring
    BY <1>7, PrivacyObserversStep
  <2> QED BY <2>2, <2>3, <2>5, <2>6, <2>7
<1> QED BY <1>1, <1>2, <1>3, <1>4, <1>5, <1>6, <1>7

LEMMA RequestsStep ==
  ASSUME TypeOK, BlockIsInPlace, RequestsComeOnce, ArmedObserversWait,
         ObserversHaveHeardNothing, [Next]_vars
  PROVE  RequestsComeOnce' /\ ArmedObserversWait'
<1>1. ASSUME NEW r \in Requests, Heard(r)'
      PROVE  Contains(asked, r)' /\ ~ Comes(r)'
  <2>1. CASE Heard(r)
    <3>1. Contains(asked, r) /\ ~ Comes(r)
      BY <2>1 DEF RequestsComeOnce
    <3>2. ~ Ask(r)
      BY <3>1 DEF Ask
    <3> QED BY <3>1, <3>2, GetsCome, AskedGrows
  <2>2. CASE ~ Heard(r)
    <3>1. StartGet /\ r = Head(calls).req
      BY <1>1, <2>2, ObserversStep
    <3> QED BY <3>1, NewcomerIsUnheard, AskedGrows DEF Comes
  <2> QED BY <2>1, <2>2
<1>2. ASSUME NEW r \in ToSet(privacyObservers') \cup privacyFiring'
      PROVE  Heard(r)'
  <2>1. r \in Requests
    BY PrivacyObserversStep, ElementsOf
  <2>2. CASE r \in ToSet(privacyObservers) \cup privacyFiring
    BY <2>1, <2>2, ObserversStep DEF RequestsComeOnce
  <2>3. CASE WaitForPrivacy /\ r = Head(calls).req
    <3>1. Generating
      BY <2>3 DEF WaitForPrivacy, Running, Generating
    <3> QED BY <2>1, <2>3, <3>1, ObserversStep DEF RequestsComeOnce
  <2> QED BY <2>2, <2>3, PrivacyObserversStep
<1>3. Generating' => Heard(Head(calls).req)'
  BY GeneratingStep DEF Heard
<1>4. (running.step \in {"privacy", "subscribe"} =>
         Head(calls).req \notin ToSet(privacyObservers) \cup privacyFiring)'
  BY GeneratingStep DEF Generating
<1>5. ArmedObserversWait'
  BY ObserversStep, PrivacyObserversStep DEF ArmedObserversWait
<1>6. (\A r \in ToSet(privacyObservers) \cup privacyFiring : Heard(r))'
  BY <1>2
<1>7. (\A i \in DOMAIN Upcoming : Upcoming[i].op = "get" =>
         Contains(asked, Upcoming[i].req))'
  BY GetsAreOnce
<1>8. (\A i, j \in DOMAIN Upcoming :
         Upcoming[i].op = "get" /\ Upcoming[i] = Upcoming[j] => i = j)'
  BY GetsAreOnce
<1>9. (\A r \in Requests : Heard(r) => Contains(asked, r) /\ ~ Comes(r))'
  BY <1>1
<1> QED
  BY <1>3, <1>4, <1>5, <1>6, <1>7, <1>8, <1>9 DEF RequestsComeOnce

-----------------------------------------------------------------------------
(***************************************************************************)
(* Who waits.                                                              *)
(***************************************************************************)
\* Only a request that begins adds to the observers.
LEMMA ObserversDoNotGrow ==
  ASSUME TypeOK, [Next]_vars, ~ StartGet
  PROVE  /\ Len(observers') \in Nat /\ Len(observers') <= Len(observers)
         /\ observers = <<>> => observers' = <<>>
<1>1. observers \in Seq(Requests) /\ IsInjective(observers)
      /\ Len(observers) \in Nat
  BY MediatorTypes DEF MediatorsTyped
<1>2. CASE UNCHANGED observers
  BY <1>1, <1>2
<1>3. ASSUME NEW a, ObserverServed(a)
      PROVE  observers # <<>> /\ Len(observers') = Len(observers) - 1
             /\ Len(observers') \in Nat
  BY <1>1, <1>3, TailElements DEF ObserverServed
<1>4. ASSUME NEW r \in Requests, ObserverGivesUp(r)
      PROVE  /\ Len(observers') \in Nat /\ Len(observers') <= Len(observers)
             /\ observers = <<>> => observers' = <<>>
  <2>1. /\ observers' \in Seq(Requests)
        /\ r \in ToSet(observers) => Len(observers') = Len(observers) - 1
        /\ r \notin ToSet(observers) => observers' = observers
    BY <1>1, <1>4, RemoveDistinct DEF ObserverGivesUp
  <2>2. observers = <<>> => r \notin ToSet(observers)
    BY DEF ToSet
  <2> QED BY <1>1, <2>1, <2>2
<1> QED
  BY <1>1, <1>2, <1>3, <1>4, BridgeChanges DEF ObserverTimesOut

\* Whoever is notified leaves.
LEMMA NotifyingLeaves ==
  ASSUME TypeOK, NEW a, NotifyHead(a)
  PROVE  \/ Len(observers) = 0 /\ observers' = <<>>
         \/ /\ Len(observers') = Len(observers) - 1
            /\ Len(observers) \in Nat \ {0}
            /\ Len(observers) = 1 => observers' = <<>>
<1>1. observers \in Seq(Requests)
  BY MediatorTypes DEF MediatorsTyped
<1>2. CASE observers = <<>> /\ UNCHANGED <<bridgeVars, answers>>
  BY <1>2 DEF bridgeVars
<1>3. CASE ObserverServed(a)
  <2>1. /\ observers' \in Seq(Requests) /\ Len(observers') = Len(observers) - 1
        /\ Len(observers) \in Nat \ {0}
    BY <1>1, <1>3, TailElements DEF ObserverServed
  <2>2. Len(observers) = 1 => observers' = <<>>
    BY <2>1
  <2> QED BY <2>1, <2>2
<1> QED BY <1>2, <1>3, NotifyingServes

\* Generations that are under way, and those that are still to come, go only
\* when they are finished.
LEMMA GenerationsCount ==
  ASSUME TypeOK, [Next]_vars
  PROVE  /\ generations \in Nat /\ generations' \in Nat
         /\ Len(privacyObservers) \in Nat /\ Len(privacyObservers') \in Nat
         /\ \/ /\ FinishGeneration /\ generations > 0
               /\ generations' = generations - 1
               /\ privacyObservers' = privacyObservers
            \/ /\ WaitForPrivacy /\ generations' = generations
               /\ Len(privacyObservers') = Len(privacyObservers) + 1
            \/ generations' + Len(privacyObservers')
                 >= generations + Len(privacyObservers)
<1>1. generations \in Nat
  BY RequestsAssumption, FS_CardinalityType DEF TypeOK
<1>2. /\ privacyObservers \in Seq(Requests) /\ IsInjective(privacyObservers)
      /\ Len(privacyObservers) \in Nat
  BY MediatorTypes DEF MediatorsTyped
<1>3. CASE UNCHANGED privacyVars
  BY <1>1, <1>2, <1>3, PrivacyChanges
     DEF privacyVars, PrivacyWaits, PrivacyIsTold, PrivacyTimesOut,
         PrivacyGivesUp
<1>4. CASE WaitForPrivacy /\ PrivacyWaits(Head(calls).req)
           /\ UNCHANGED generations
  <2>1. Len(privacyObservers') = Len(privacyObservers) + 1
    BY <1>2, <1>4 DEF PrivacyWaits
  <2> QED BY <1>1, <1>2, <1>4, <2>1
<1>5. CASE PrivacyIsTold
  BY <1>1, <1>2, <1>5 DEF PrivacyIsTold
<1>6. ASSUME NEW r \in Requests, PrivacyTimesOut(r), UNCHANGED generations
      PROVE  generations' + Len(privacyObservers')
                 >= generations + Len(privacyObservers)
             /\ generations' \in Nat /\ Len(privacyObservers') \in Nat
  BY <1>1, <1>2, <1>6 DEF PrivacyTimesOut
<1>7. ASSUME NEW r \in Requests, PrivacyGivesUp(r)
      PROVE  generations' + Len(privacyObservers')
                 >= generations + Len(privacyObservers)
             /\ generations' \in Nat /\ Len(privacyObservers') \in Nat
  <2>1. /\ privacyObservers' \in Seq(Requests)
        /\ Len(privacyObservers') = Len(privacyObservers) - 1
             \/ privacyObservers' = privacyObservers
    BY <1>2, <1>7, RemoveDistinct DEF PrivacyGivesUp
  <2>2. generations' = generations + 1 /\ Len(privacyObservers') \in Nat
    BY <1>7, <2>1 DEF PrivacyGivesUp
  <2> QED BY <1>1, <1>2, <2>1, <2>2
<1> QED
  BY <1>1, <1>2, <1>3, <1>4, <1>5, <1>6, <1>7, PrivacyChanges

\* A storage stays empty until it is given something.
LEMMA EmptyStays ==
  ASSUME TypeOK, [Next]_vars, Empty, ~ StartStore, ~ StartInit
  PROVE  Empty'
<1>1. ~ TakeToken
  BY DEF Empty, TakeToken
<1>2. CASE Take
  BY <1>1, <1>2 DEF Take, storageVars, Empty
<1>3. CASE StartOther
  BY <1>3 DEF StartOther, Empty
<1>4. CASE UNCHANGED storageVars
  BY <1>4 DEF storageVars, Empty
<1> QED
  BY <1>1, <1>2, <1>3, <1>4, AllSteps
     DEF vars, WebCall, SaveConfiguration, SetStatus, GetTokenNow, TimeOut,
         Ask, GiveUp, ScarStep, GiveUpPrivacy, StartGet, Hand, LookForPrivacy,
         WaitForPrivacy, Generate,
         SavePrivacy, TellPrivacy, FinishGeneration

\* The steps of a queue of tokens.
LEMMA WaitingWithQueueStep ==
  ASSUME TypeOK, BlockIsInPlace, NobodyWaitsInVain, [Next]_vars,
         queueCreated
  PROVE  /\ running'.step = "start" => observers' = <<>> \/ Empty'
         /\ running'.step = "take" =>
              Len(observers') <= running'.left \/ Empty'
         /\ running'.step = "hand" => Len(observers') <= running'.left
<1>1. /\ running.step = "start" => observers = <<>> \/ Empty
      /\ running.step = "take" => Len(observers) <= running.left \/ Empty
      /\ running.step = "hand" => Len(observers) <= running.left
  BY DEF NobodyWaitsInVain
<1>2. running.left \in Nat /\ Len(observers) \in Nat
  BY ObserversAreFew, RequestsAssumption, FS_CardinalityType DEF TypeOK
<1>3. CASE StartGet
  <2>1. running.step = "start"
    BY <1>3 DEF StartGet, Running
  <2>2. CASE Done /\ UNCHANGED bridgeVars
    <3>1. running'.step = "start" /\ observers' = observers
      BY <2>2, StartIsTyped DEF Done, bridgeVars
    <3> QED BY <1>1, <1>3, <2>1, <3>1, EmptyStays DEF StartStore, StartInit, StartGet
  <2>3. CASE /\ GoTo(FirstStep, 1)
             /\ Bridge!Subscribe(Head(calls).req, TokenTimeout)
    <3>1. running'.step = "take" /\ running'.left = 1
      BY <2>3, Going DEF FirstStep
    <3>2. observers' = Append(observers, Head(calls).req)
          /\ Head(calls).req \in Requests /\ observers \in Seq(Requests)
      BY <1>3, <2>3, RequestBegins, MediatorTypes
         DEF Bridge!Subscribe, MediatorsTyped
    <3>3. observers = <<>> => Len(observers') = 1
      BY <3>2
    <3>4. Empty => Empty'
      BY <1>3, EmptyStays DEF StartGet, StartStore, StartInit
    <3>5. CASE observers = <<>>
      <4>1. Len(observers') <= running'.left
        BY <3>1, <3>3, <3>5
      <4> QED BY <3>1, <4>1
    <3>6. CASE Empty
      BY <3>1, <3>4, <3>6
    <3> QED BY <1>1, <2>1, <3>5, <3>6
  <2> QED BY <1>3, <2>2, <2>3 DEF StartGet
<1>4. CASE StartStore \/ StartInit
  <2>1. /\ running.step = "start" /\ UNCHANGED observers
        /\ Done \/ GoTo("take", Len(observers))
    BY <1>4 DEF StartStore, StartInit, Running, bridgeVars
  <2>2. CASE GoTo("take", Len(observers))
    BY <1>2, <2>1, <2>2, Going
  <2>3. CASE Done /\ observers # <<>>
    <3>1. running'.step = "start" /\ Empty
      BY <1>1, <2>1, <2>3, StartIsTyped DEF Done
    <3>2. ~ GoTo("take", Len(observers))
      BY <3>1, Going
    <3>3. CASE StartStore
      <4>1. Head(calls).new = <<>>
        BY <2>3, <3>2, <3>3 DEF StartStore
      <4>2. tokens' = <<>> /\ ~ firstToken'
        BY <3>1, <3>3, <4>1 DEF StartStore, Empty
      <4> QED BY <3>1, <4>2 DEF Empty
    <3>4. CASE StartInit
      <4>1. tokens' = <<>> /\ ~ firstToken'
        BY <2>3, <3>1, <3>2, <3>4 DEF StartInit, Empty
      <4> QED BY <3>1, <4>1 DEF Empty
    <3> QED BY <1>4, <3>3, <3>4
  <2>4. CASE Done /\ observers = <<>>
    BY <2>1, <2>4, StartIsTyped DEF Done
  <2> QED BY <2>1, <2>2, <2>3, <2>4
<1>5. CASE StartOther
  <2>1. running.step = "start" /\ running'.step = "start" /\ UNCHANGED observers
    BY <1>5, StartIsTyped DEF StartOther, Done, Running, bridgeVars
  <2>2. Empty => Empty'
    BY <1>5, EmptyStays DEF StartOther, StartStore, StartInit
  <2> QED BY <1>1, <2>1, <2>2
<1>6. CASE Take
  <2>1. running.step = "take" /\ UNCHANGED observers
    BY <1>6 DEF Take, Running, bridgeVars
  <2>2. CASE running'.step = "hand"
    <3>1. ~ Empty
      <4>1. CASE NextPass
        BY <2>2, <4>1, PassingIsTyped
      <4>2. CASE ~ NextPass
        BY <1>6, <4>2 DEF Take, Empty
      <4> QED BY <4>1, <4>2
    <3> QED BY <1>1, <1>6, <2>1, <2>2, <3>1, TakingIsTyped
  <2>3. CASE running'.step # "hand"
    <3>1. NextPass
      BY <1>6, <2>3, TakingIsTyped
    <3>2. running'.step \in {"start", "take"}
      BY <3>1, PassingIsTyped
    <3>3. Empty
      <4>1. \A t, m : ~ HandOver(t, m)
        <5> SUFFICES ASSUME NEW t, NEW m, HandOver(t, m)
                     PROVE  running'.step = "hand"
          BY <2>3
        <5> QED BY DEF HandOver, TypeOK
      <4> QED BY <1>6, <4>1 DEF Take, Empty
    <3>4. Empty'
      BY <1>6, <2>1, <3>3, EmptyStays
         DEF StartStore, StartInit, Running
    <3> QED BY <3>2, <3>4
  <2> QED BY <2>2, <2>3
<1>7. CASE Hand
  <2>1. running.step = "hand" /\ NextPass /\ NotifyHead(Web(running.token))
    BY <1>7 DEF Hand, Running
  <2>2. \/ running.left <= 1 /\ running'.step = "start"
        \/ running.left > 1 /\ running'.step = "take"
             /\ running'.left = running.left - 1
    BY <2>1, Passing, StartIsTyped
  <2>3. Len(observers) <= running.left
    BY <1>1, <2>1
  <2>4. \/ Len(observers) = 0 /\ observers' = <<>>
        \/ /\ Len(observers') = Len(observers) - 1
           /\ Len(observers) \in Nat \ {0}
           /\ Len(observers) = 1 => observers' = <<>>
    BY <2>1, NotifyingLeaves
  <2>5. observers' = <<>> => Len(observers') = 0
    OBVIOUS
  <2> QED BY <1>2, <2>2, <2>3, <2>4, <2>5
<1>8. CASE LookForPrivacy \/ WaitForPrivacy \/ Generate
  BY <1>8
     DEF LookForPrivacy, WaitForPrivacy, Generate, Running, BlockIsInPlace,
         Generating
<1>9. CASE ~ (StartGet \/ StartStore \/ StartInit \/ StartOther)
             /\ ~ (Take \/ Hand \/ LookForPrivacy \/ WaitForPrivacy \/ Generate)
  <2>1. running' = running
    BY <1>9, RunningKeeps
  <2>2. /\ Len(observers') \in Nat /\ Len(observers') <= Len(observers)
        /\ observers = <<>> => observers' = <<>>
    BY <1>9, ObserversDoNotGrow
  <2>3. Empty => Empty'
    BY <1>9, EmptyStays
  <2> QED BY <1>1, <1>2, <2>1, <2>2, <2>3
<1> QED BY <1>3, <1>4, <1>5, <1>6, <1>7, <1>8, <1>9

\* The steps before there is one.
LEMMA WaitingWithoutQueueStep ==
  ASSUME TypeOK, BlockIsInPlace, NobodyWaitsInVain, [Next]_vars,
         ~ queueCreated, ~ queueCreated'
  PROVE  Len(observers') <= generations' + Len(privacyObservers')
                             + (IF Generating' THEN 1 ELSE 0)
<1> DEFINE T == generations + Len(privacyObservers)
           G == IF Generating THEN 1 ELSE 0
<1>1. /\ Len(observers) <= T + G
      /\ Len(observers) \in Nat /\ T \in Nat /\ T' \in Nat
      /\ G \in {0, 1} /\ G' \in {0, 1}
  BY ObserversAreFew, GenerationsCount DEF NobodyWaitsInVain
<1>2. \/ FinishGeneration /\ T' = T - 1
      \/ WaitForPrivacy /\ T' = T + 1
      \/ T' >= T
  BY GenerationsCount
<1>3. (~ StartGet => Len(observers') \in Nat /\ Len(observers') <= Len(observers))
  BY ObserversDoNotGrow
<1>4. CASE StartGet
  <2>1. T' >= T /\ ~ Generating
    <3>1. UNCHANGED <<generations, privacyObservers>> /\ running.step = "start"
      BY <1>4 DEF StartGet, privacyVars, Running
    <3> QED BY <1>1, <3>1 DEF Generating
  <2>2. CASE Done /\ UNCHANGED bridgeVars
    BY <1>1, <2>1, <2>2 DEF bridgeVars
  <2>3. CASE /\ GoTo(FirstStep, 1)
             /\ Bridge!Subscribe(Head(calls).req, TokenTimeout)
    <3>1. Generating'
      BY <2>3, Going DEF FirstStep, Generating
    <3>2. observers' = Append(observers, Head(calls).req)
          /\ Head(calls).req \in Requests /\ observers \in Seq(Requests)
      BY <1>4, <2>3, RequestBegins, MediatorTypes
         DEF Bridge!Subscribe, MediatorsTyped
    <3>3. Len(observers') = Len(observers) + 1
      BY <3>2
    <3> QED BY <1>1, <2>1, <3>1, <3>3
  <2> QED BY <1>4, <2>2, <2>3 DEF StartGet
<1>5. CASE StartStore \/ StartInit \/ StartOther
  <2>1. /\ running.step = "start" /\ UNCHANGED observers
        /\ UNCHANGED <<generations, privacyObservers>>
    BY <1>5
       DEF StartStore, StartInit, StartOther, Running, bridgeVars, privacyVars
  <2>2. ~ Generating
    BY <2>1 DEF Generating
  <2> QED BY <1>1, <2>1, <2>2
<1>6. CASE Take \/ Hand
  BY <1>6 DEF Take, Hand, Running, BlockIsInPlace, Looping
<1>7. CASE LookForPrivacy
  <2>1. /\ running'.step \in {"subscribe", "generate"} /\ UNCHANGED observers
        /\ UNCHANGED <<generations, privacyObservers>>
    BY <1>7, Going DEF LookForPrivacy, bridgeVars, privacyVars
  <2>2. Generating'
    BY <2>1 DEF Generating
  <2> QED BY <1>1, <2>1, <2>2
<1>8. CASE WaitForPrivacy
  <2>1. /\ UNCHANGED <<observers, generations>>
        /\ running.step = "subscribe" /\ ~ FinishGeneration
    BY <1>8, PrivacyChanges, StartIsTyped
       DEF WaitForPrivacy, bridgeVars, Running, FinishGeneration, Done,
           serialVars
  <2>2. T' = T + 1
    <3>1. privacyObservers' = Append(privacyObservers, Head(calls).req)
      BY <1>8 DEF WaitForPrivacy, Privacy!Subscribe
    <3>2. Head(calls).req \in Requests /\ privacyObservers \in Seq(Requests)
      BY <1>8, HeadsAreTyped, CallTypes, MediatorTypes
         DEF WaitForPrivacy, Running, BlockIsInPlace, Generating,
             MediatorsTyped
    <3>3. Len(privacyObservers') = Len(privacyObservers) + 1
      BY <3>1, <3>2
    <3> QED BY <2>1, <3>3, GenerationsCount
  <2> QED BY <1>1, <2>1, <2>2
<1>9. CASE Generate \/ FinishGeneration
  <2>1. \/ Len(observers) = 0 /\ Len(observers') = 0
        \/ Len(observers') = Len(observers) - 1
    BY <1>9, NotifyingLeaves DEF Generate, FinishGeneration
  <2>2. CASE Generate
    <3>1. UNCHANGED <<generations, privacyObservers>>
      BY <2>2 DEF Generate, privacyVars
    <3> QED BY <1>1, <2>1, <3>1
  <2>3. CASE FinishGeneration
    <3>1. UNCHANGED <<running, privacyObservers>>
          /\ generations' = generations - 1
      BY <2>3 DEF FinishGeneration, privacyVars, serialVars
    <3>2. T' = T - 1 /\ G' = G
      BY <3>1, GenerationsCount DEF Generating
    <3> QED BY <1>1, <2>1, <3>2
  <2> QED BY <1>9, <2>2, <2>3
<1>10. CASE ~ (StartGet \/ StartStore \/ StartInit \/ StartOther)
             /\ ~ (Take \/ Hand \/ LookForPrivacy \/ WaitForPrivacy \/ Generate)
             /\ ~ FinishGeneration
  <2>1. running' = running
    BY <1>10, RunningKeeps
  <2>2. T' >= T /\ G' = G
    BY <1>2, <1>10, <2>1 DEF Generating
  <2> QED BY <1>1, <1>3, <1>10, <2>2
<1> QED BY <1>4, <1>5, <1>6, <1>7, <1>8, <1>9, <1>10

LEMMA WaitingStep ==
  ASSUME TypeOK, BlockIsInPlace, NobodyWaitsInVain, [Next]_vars
  PROVE  NobodyWaitsInVain'
<1>1. CASE queueCreated
  <2>1. queueCreated'
    BY <1>1, NoTokensBefore
  <2> QED BY <1>1, <2>1, WaitingWithQueueStep DEF NobodyWaitsInVain
<1>2. CASE ~ queueCreated /\ ~ queueCreated'
  BY <1>2, WaitingWithoutQueueStep DEF NobodyWaitsInVain
<1>3. CASE ~ queueCreated /\ queueCreated'
  <2>1. StartStore \/ StartInit
    BY <1>3, AllSteps
       DEF vars, WebCall, SaveConfiguration, SetStatus, GetTokenNow, TimeOut,
           Ask, GiveUp, ScarStep, GiveUpPrivacy, StartGet, StartOther, Take,
           Hand, LookForPrivacy, WaitForPrivacy, Generate, SavePrivacy,
           TellPrivacy, FinishGeneration
  <2>2. UNCHANGED observers /\ (observers = <<>> \/ GoTo("take", Len(observers)))
    <3>1. CASE StartStore
      BY <1>3, <3>1 DEF StartStore, bridgeVars
    <3>2. CASE StartInit
      BY <1>3, <3>2 DEF StartInit, bridgeVars
    <3> QED BY <2>1, <3>1, <3>2
  <2>3. CASE GoTo("take", Len(observers))
    <3>1. /\ running'.step = "take" /\ running'.left = Len(observers)
          /\ Len(observers) \in Nat
      BY <2>3, Going, ObserversAreFew
    <3> QED BY <1>3, <2>2, <3>1 DEF NobodyWaitsInVain
  <2>4. CASE observers = <<>>
    <3>1. running'.step \in {"start", "take"} /\ running'.left \in Nat
      BY <2>1, <2>4, Going, StartIsTyped, RunningStep, RequestsAssumption,
         FS_CardinalityType
         DEF StartStore, StartInit, Done, RunningTypes
    <3>2. Len(observers') = 0
      BY <2>2, <2>4
    <3> QED BY <1>3, <2>2, <2>4, <3>1, <3>2 DEF NobodyWaitsInVain
  <2> QED BY <2>2, <2>3, <2>4
<1> QED BY <1>1, <1>2, <1>3

-----------------------------------------------------------------------------
(***************************************************************************)
(* The generations.                                                        *)
(***************************************************************************)
LEMMA InQueue ==
  ASSUME NEW S, NEW s \in Seq(S), s # <<>>, NEW c
  PROVE  (\E i \in DOMAIN s : s[i] = c)
           <=> Head(s) = c \/ \E j \in DOMAIN Tail(s) : Tail(s)[j] = c
<1>1. ASSUME NEW i \in DOMAIN s, s[i] = c
      PROVE  Head(s) = c \/ \E j \in DOMAIN Tail(s) : Tail(s)[j] = c
  BY <1>1, TailKeeps
<1>2. 1 \in DOMAIN s /\ s[1] = Head(s)
  BY TailElements
<1>3. ASSUME NEW j \in DOMAIN Tail(s), Tail(s)[j] = c
      PROVE  \E i \in DOMAIN s : s[i] = c
  BY <1>3, TailFrom
<1> QED BY <1>1, <1>2, <1>3

\* Whose block has run does not come again.
LEMMA PastGrows ==
  ASSUME TypeOK, BlockIsInPlace, [Next]_vars
  PROVE  Past \subseteq Past'
<1> SUFFICES ASSUME NEW r \in Past PROVE r \in Past'
  OBVIOUS
<1>1. /\ r \in Requests /\ Contains(asked, r)
      /\ \A i \in DOMAIN calls : calls[i] # Get(r)
  BY DEF Past
<1>2. calls \in Seq(Calls) /\ calls' \in Seq(Calls)
  BY UpcomingChanges DEF TypeOK
<1>3. /\ ~ Comes(r)
      /\ calls # <<>> => Head(calls) # Get(r)
  BY <1>1, <1>2, InQueue DEF Comes, Upcoming, BlockIsInPlace
<1>4. ~ Comes(r)'
  BY <1>1, <1>3, GetsCome DEF Ask
<1>5. running'.step # "start" =>
        calls # <<>> /\ calls' # <<>> /\ Head(calls') = Head(calls)
  <2>1. CASE StartGet \/ StartStore \/ StartInit \/ StartOther
    BY <2>1, BlockBegins
  <2>2. CASE Take \/ Hand \/ LookForPrivacy \/ WaitForPrivacy \/ Generate
    BY <2>2, BlockRuns
  <2>3. CASE ~ (StartGet \/ StartStore \/ StartInit \/ StartOther)
          /\ ~ (Take \/ Hand \/ LookForPrivacy \/ WaitForPrivacy \/ Generate)
    BY <2>3, RunningKeeps DEF BlockIsInPlace
  <2> QED BY <2>1, <2>2, <2>3
<1>6. \A i \in DOMAIN calls' : calls'[i] # Get(r)
  <2>1. CASE running'.step = "start"
    BY <1>4, <2>1 DEF Comes, Upcoming
  <2>2. CASE running'.step # "start"
    <3>1. Upcoming' = Tail(calls')
      BY <2>2 DEF Upcoming
    <3>2. \A j \in DOMAIN Tail(calls') : Tail(calls')[j] # Get(r)
      BY <1>4, <3>1 DEF Comes
    <3> QED BY <1>2, <1>3, <1>5, <2>2, <3>2, InQueue
  <2> QED BY <2>1, <2>2
<1>7. Contains(asked, r)'
  BY <1>1, AskedGrows
<1> QED BY <1>1, <1>6, <1>7 DEF Past

LEMMA CountsGrow ==
  ASSUME NEW A \in SUBSET Requests, NEW B \in SUBSET Requests
  PROVE  /\ Cardinality(A) \in Nat
         /\ A \subseteq B => Cardinality(A) <= Cardinality(B)
         /\ \A r \in B : A \subseteq B /\ r \notin A =>
              Cardinality(A) + 1 <= Cardinality(B)
         /\ \A C \in SUBSET B : A \subseteq B /\ A \cap C = {} =>
              /\ Cardinality(C) \in Nat
              /\ Cardinality(A) + Cardinality(C) <= Cardinality(B)
<1>1. IsFiniteSet(A) /\ IsFiniteSet(B)
  BY RequestsAssumption, FS_Subset
<1>2. Cardinality(A) \in Nat /\ Cardinality(B) \in Nat
  BY <1>1, FS_CardinalityType
<1>3. A \subseteq B => Cardinality(A) <= Cardinality(B)
  BY <1>1, FS_Subset
<1>4. ASSUME NEW C \in SUBSET B, A \subseteq B, A \cap C = {}
      PROVE  /\ Cardinality(C) \in Nat
             /\ Cardinality(A) + Cardinality(C) <= Cardinality(B)
  <2>1. IsFiniteSet(C) /\ Cardinality(C) \in Nat
    BY <1>1, FS_Subset, FS_CardinalityType
  <2>2. /\ IsFiniteSet(A \cup C)
        /\ Cardinality(A \cup C) = Cardinality(A) + Cardinality(C)
                                     - Cardinality(A \cap C)
    BY <1>1, <2>1, FS_Union
  <2>3. Cardinality(A \cap C) = 0
    BY <1>4, FS_EmptySet
  <2>4. Cardinality(A \cup C) <= Cardinality(B)
    BY <1>1, <1>4, FS_Subset
  <2> QED BY <1>2, <2>1, <2>2, <2>3, <2>4
<1>5. ASSUME NEW r \in B, A \subseteq B, r \notin A
      PROVE  Cardinality(A) + 1 <= Cardinality(B)
  <2>1. Cardinality({r}) = 1
    BY FS_Singleton
  <2>2. {r} \in SUBSET B /\ A \cap {r} = {}
    BY <1>5
  <2> QED BY <1>4, <1>5, <2>1, <2>2
<1> QED BY <1>2, <1>3, <1>4, <1>5

LEMMA GenerationsStep ==
  ASSUME TypeOK, BlockIsInPlace, RequestsComeOnce, ArmedObserversWait,
         GenerationsAreFew, [Next]_vars
  PROVE  GenerationsAreFew'
<1> DEFINE O == ToSet(privacyObservers)
           F == privacyFiring
<1>1. /\ O \cup F \subseteq Past /\ Past \subseteq Requests
      /\ generations <= Cardinality(NotWaiting) + Cardinality(NotTiming)
  BY DEF GenerationsAreFew, Past
<1>2. Past \subseteq Past' /\ Past' \subseteq Requests
  BY PastGrows DEF Past
<1>3. /\ NotWaiting = Past \ O /\ NotTiming = Past \ (O \cup F)
      /\ NotWaiting' = Past' \ O' /\ NotTiming' = Past' \ (O' \cup F')
  BY DEF NotWaiting, NotTiming
<1>4. generations \in Nat
  BY GenerationsCount
<1>5. /\ privacyObservers \in Seq(Requests) /\ IsInjective(privacyObservers)
      /\ privacyArmed \subseteq O
  BY MediatorTypes DEF MediatorsTyped, ArmedObserversWait
<1>6. /\ NotWaiting \in SUBSET Requests /\ NotTiming \in SUBSET Requests
      /\ NotWaiting' \in SUBSET Requests /\ NotTiming' \in SUBSET Requests
  BY <1>1, <1>2, <1>3
<1>7. /\ Cardinality(NotWaiting) \in Nat /\ Cardinality(NotTiming) \in Nat
      /\ Cardinality(NotWaiting') \in Nat /\ Cardinality(NotTiming') \in Nat
  BY <1>6, CountsGrow
<1> HIDE DEF O, F
<1>8. ASSUME NotWaiting \subseteq NotWaiting', NotTiming \subseteq NotTiming'
      PROVE  /\ Cardinality(NotWaiting) <= Cardinality(NotWaiting')
             /\ Cardinality(NotTiming) <= Cardinality(NotTiming')
  BY <1>6, <1>8, CountsGrow
<1> DEFINE Few == generations' <= Cardinality(NotWaiting')
                                    + Cardinality(NotTiming')
<1>9. CASE /\ UNCHANGED privacyVars
           /\ UNCHANGED generations
              \/ (generations > 0 /\ generations' = generations - 1)
  <2>1. O' = O /\ F' = F
    BY <1>9 DEF privacyVars, O, F
  <2>2. O' \cup F' \subseteq Past'
    BY <1>1, <1>2, <2>1
  <2>3. NotWaiting \subseteq NotWaiting' /\ NotTiming \subseteq NotTiming'
    BY <1>2, <1>3, <2>1
  <2>4. Few
    BY <1>1, <1>4, <1>7, <1>8, <1>9, <2>3
  <2> QED BY <2>2, <2>4 DEF GenerationsAreFew, O, F
<1>10. CASE /\ WaitForPrivacy /\ PrivacyWaits(Head(calls).req)
            /\ UNCHANGED generations
  <2>0. /\ calls # <<>> /\ running.step = "subscribe"
        /\ Head(calls).op = "get" /\ calls' = Tail(calls)
    BY <1>10 DEF WaitForPrivacy, Running, BlockIsInPlace, Generating, Done
  <2>1. PICK r \in Requests : r = Head(calls).req /\ Head(calls) = Get(r)
    BY <2>0, HeadsAreTyped, CallTypes
  <2>2. O' = O \cup {r} /\ F' = F
    BY <1>5, <1>10, <2>1, AppendDistinct DEF PrivacyWaits, O, F
  <2>3. r \notin Past
    <3>1. 1 \in DOMAIN calls /\ calls[1] = Get(r)
      BY <2>0, <2>1, TailElements DEF TypeOK
    <3> QED BY <3>1 DEF Past
  <2>4. r \in Past'
    <3>1. Heard(r)
      BY <2>0, <2>1 DEF RequestsComeOnce, Generating
    <3>2. Contains(asked, r) /\ ~ Comes(r)
      BY <3>1 DEF RequestsComeOnce
    <3>3. \A i \in DOMAIN calls' : calls'[i] # Get(r)
      BY <2>0, <3>2 DEF Comes, Upcoming
    <3>4. Contains(asked, r)'
      BY <3>2, AskedGrows
    <3> QED BY <3>3, <3>4 DEF Past
  <2>5. O' \cup F' \subseteq Past'
    BY <1>1, <1>2, <2>2, <2>4
  <2>6. NotWaiting \subseteq NotWaiting' /\ NotTiming \subseteq NotTiming'
    BY <1>2, <1>3, <2>2, <2>3
  <2>7. Few
    BY <1>1, <1>4, <1>7, <1>8, <1>10, <2>6
  <2> QED BY <2>5, <2>7 DEF GenerationsAreFew, O, F
<1>11. CASE PrivacyIsTold
  <2>1. O' = {} /\ F' = F /\ generations' = generations + Len(privacyObservers)
    BY <1>11 DEF PrivacyIsTold, O, F, ToSet
  <2>2. O' \cup F' \subseteq Past'
    BY <1>1, <1>2, <2>1
  <2>3. Len(privacyObservers) = Cardinality(O)
    BY <1>5, RequestsAssumption, DistinctAreFew DEF O
  <2>4. /\ O \in SUBSET NotWaiting' /\ NotWaiting \subseteq NotWaiting'
        /\ NotWaiting \cap O = {} /\ NotTiming \subseteq NotTiming'
    BY <1>1, <1>2, <1>3, <2>1
  <2>5. /\ Cardinality(O) \in Nat
        /\ Cardinality(NotWaiting) + Cardinality(O)
             <= Cardinality(NotWaiting')
    BY <1>6, <2>4, CountsGrow
  <2>6. Few
    BY <1>1, <1>4, <1>7, <1>8, <2>1, <2>3, <2>4, <2>5
  <2> QED BY <2>2, <2>6 DEF GenerationsAreFew, O, F
<1>12. CASE \E r \in Requests : PrivacyTimesOut(r) /\ UNCHANGED generations
  <2>1. PICK r \in Requests : PrivacyTimesOut(r) /\ UNCHANGED generations
    BY <1>12
  <2>2. O' = O /\ F' = F \cup {r} /\ r \in O
    BY <1>5, <2>1 DEF PrivacyTimesOut, O, F
  <2>3. O' \cup F' \subseteq Past'
    BY <1>1, <1>2, <2>2
  <2>4. NotWaiting \subseteq NotWaiting' /\ NotTiming \subseteq NotTiming'
    BY <1>2, <1>3, <2>2
  <2>5. Few
    BY <1>1, <1>4, <1>7, <1>8, <2>1, <2>4
  <2> QED BY <2>3, <2>5 DEF GenerationsAreFew, O, F
<1>13. CASE \E r \in Requests : PrivacyGivesUp(r)
  <2>1. PICK r \in Requests : PrivacyGivesUp(r)
    BY <1>13
  <2>2. /\ O' = O \ {r} /\ F' = F \ {r} /\ r \in F
        /\ generations' = generations + 1
    BY <1>5, <2>1, RemoveDistinct DEF PrivacyGivesUp, O, F
  <2>3. O' \cup F' \subseteq Past'
    BY <1>1, <1>2, <2>2
  <2>4. /\ NotWaiting \subseteq NotWaiting' /\ NotTiming \subseteq NotTiming'
        /\ r \in NotTiming' /\ r \notin NotTiming
    BY <1>1, <1>2, <1>3, <2>2
  <2>5. Cardinality(NotTiming) + 1 <= Cardinality(NotTiming')
    BY <1>6, <2>4, CountsGrow
  <2>6. Few
    BY <1>1, <1>4, <1>7, <1>8, <2>2, <2>4, <2>5
  <2> QED BY <2>3, <2>6 DEF GenerationsAreFew, O, F
<1> QED
  BY <1>9, <1>10, <1>11, <1>12, <1>13, PrivacyChanges

\* No more than two generations for each request.
LEMMA GenerationsAreBounded ==
  ASSUME GenerationsAreFew', generations' \in Nat
  PROVE  generations' \in 0..(2 * Cardinality(Requests))
<1>1. NotWaiting' \in SUBSET Requests /\ NotTiming' \in SUBSET Requests
  BY DEF NotWaiting, NotTiming, Past
<1>2. /\ Cardinality(NotWaiting') <= Cardinality(Requests)
      /\ Cardinality(NotTiming') <= Cardinality(Requests)
      /\ Cardinality(NotWaiting') \in Nat /\ Cardinality(NotTiming') \in Nat
      /\ Cardinality(Requests) \in Nat
  BY <1>1, CountsGrow
<1>3. generations' <= Cardinality(NotWaiting') + Cardinality(NotTiming')
  BY DEF GenerationsAreFew
<1> QED BY <1>2, <1>3

-----------------------------------------------------------------------------
(***************************************************************************)
(* The tokens: those in the storage and those to come.                     *)
(***************************************************************************)
LEMMA RisingTail ==
  ASSUME NEW n \in Nat, NEW s \in Seq(1..n), s # <<>>, Rising(s)
  PROVE  /\ Tail(s) \in Seq(1..n) /\ Rising(Tail(s))
         /\ Head(s) \in ToSet(s) /\ Head(s) \in 1..n
         /\ ToSet(Tail(s)) \subseteq ToSet(s)
         /\ \A u \in ToSet(Tail(s)) : Head(s) < u
         /\ \A u \in ToSet(s) : u = Head(s) \/ Head(s) < u
<1>1. /\ Tail(s) \in Seq(1..n) /\ Len(s) \in Nat \ {0}
      /\ DOMAIN s = 1..Len(s) /\ DOMAIN Tail(s) = 1..Len(s) - 1
      /\ \A i \in 1..Len(s) - 1 : Tail(s)[i] = s[i + 1]
      /\ Head(s) = s[1] /\ Head(s) \in 1..n
  BY TailElements
<1>2. Rising(Tail(s))
  BY <1>1 DEF Rising
<1>3. ASSUME NEW u \in ToSet(Tail(s)) PROVE u \in ToSet(s) /\ Head(s) < u
  <2>1. PICK i \in DOMAIN Tail(s) : Tail(s)[i] = u
    BY <1>3 DEF ToSet
  <2>2. i + 1 \in DOMAIN s /\ 1 \in DOMAIN s /\ 1 < i + 1 /\ s[i + 1] = u
    BY <1>1, <2>1
  <2> QED BY <1>1, <2>2 DEF Rising, ToSet
<1>4. Head(s) \in ToSet(s)
  BY <1>1 DEF ToSet
<1>5. ASSUME NEW u \in ToSet(s) PROVE u = Head(s) \/ Head(s) < u
  <2>1. PICK i \in DOMAIN s : s[i] = u
    BY DEF ToSet
  <2>2. 1 \in DOMAIN s /\ (i = 1 \/ 1 < i)
    BY <1>1, <2>1
  <2> QED BY <1>1, <2>1, <2>2 DEF Rising
<1> QED BY <1>1, <1>2, <1>3, <1>4, <1>5

LEMMA RisingConcat ==
  ASSUME NEW n \in Nat, NEW s \in Seq(1..n), NEW t \in Seq(1..n),
         Rising(s), Rising(t), \A u \in ToSet(s), v \in ToSet(t) : u < v
  PROVE  /\ s \o t \in Seq(1..n) /\ Rising(s \o t)
         /\ \A u \in ToSet(s \o t) : u \in ToSet(s) \/ u \in ToSet(t)
<1>1. /\ s \o t \in Seq(1..n)
      /\ Len(s) \in Nat /\ Len(t) \in Nat
      /\ DOMAIN s = 1..Len(s) /\ DOMAIN t = 1..Len(t)
      /\ DOMAIN (s \o t) = 1..Len(s) + Len(t)
      /\ \A i \in 1..Len(s) + Len(t) :
           (s \o t)[i] = IF i <= Len(s) THEN s[i] ELSE t[i - Len(s)]
  BY ConcatElements
<1>2. ASSUME NEW i \in DOMAIN (s \o t)
      PROVE  \/ i \in DOMAIN s /\ (s \o t)[i] = s[i] /\ s[i] \in ToSet(s)
             \/ /\ i > Len(s) /\ i - Len(s) \in DOMAIN t
                /\ (s \o t)[i] = t[i - Len(s)]
                /\ t[i - Len(s)] \in ToSet(t)
  BY <1>1 DEF ToSet
<1>3. ASSUME NEW i \in DOMAIN (s \o t), NEW j \in DOMAIN (s \o t), i < j
      PROVE  (s \o t)[i] < (s \o t)[j]
  <2>1. i \in Nat /\ j \in Nat
    BY <1>1
  <2>2. CASE j \in DOMAIN s
    <3>1. i \in DOMAIN s /\ (s \o t)[i] = s[i] /\ (s \o t)[j] = s[j]
      BY <1>1, <1>3, <2>1, <2>2
    <3> QED BY <1>3, <2>2, <3>1 DEF Rising
  <2>3. CASE i \in DOMAIN s /\ j \notin DOMAIN s
    <3>1. (s \o t)[i] \in ToSet(s) /\ (s \o t)[j] \in ToSet(t)
      <4>1. (s \o t)[j] \in ToSet(t)
        BY <1>2, <2>3
      <4>2. (s \o t)[i] = s[i]
        BY <1>1, <2>3
      <4> QED BY <2>3, <4>1, <4>2 DEF ToSet
    <3> QED BY <3>1
  <2>4. CASE i \notin DOMAIN s /\ j \notin DOMAIN s
    <3>1. /\ i - Len(s) \in DOMAIN t /\ j - Len(s) \in DOMAIN t
          /\ (s \o t)[i] = t[i - Len(s)] /\ (s \o t)[j] = t[j - Len(s)]
      BY <1>2, <2>4
    <3>2. i - Len(s) < j - Len(s)
      BY <1>1, <1>3, <2>1
    <3> QED BY <3>1, <3>2 DEF Rising
  <2> QED BY <2>2, <2>3, <2>4
<1>4. ASSUME NEW u \in ToSet(s \o t) PROVE u \in ToSet(s) \/ u \in ToSet(t)
  <2>1. PICK i \in DOMAIN (s \o t) : (s \o t)[i] = u
    BY <1>4 DEF ToSet
  <2> QED BY <1>2, <2>1
<1> QED BY <1>1, <1>3, <1>4 DEF Rising

\* What a block brings is to come.
LEMMA NewsIsComing ==
  ASSUME TypeOK, BlockIsInPlace, NEW k \in DOMAIN Upcoming,
         IsNews(Upcoming[k])
  PROVE  /\ Upcoming[k].new \in Seq(1..MaxTokens)
         /\ ToSet(Upcoming[k].new) \subseteq Coming
<1>1. Upcoming[k].new \in Seq(1..MaxTokens)
  BY UpcomingType, CallTypes
<1>2. ToSet(Upcoming[k].new) \subseteq 1..MaxTokens
  BY <1>1, ElementsOf
<1> QED BY <1>1, <1>2 DEF Coming

\* What a block stores was to come, and comes before what is still to come.
LEMMA Storing ==
  ASSUME TypeOK, BlockIsInPlace, TokensAreInOrder, StartStore
  PROVE  LET new == Head(calls).new IN
         /\ new \in Seq(1..MaxTokens) /\ Rising(new)
         /\ ToSet(new) \subseteq Coming
         /\ \A t \in ToSet(new), u \in Coming' : t < u
<1> DEFINE new == Head(calls).new
<1>1. IsNews(Head(calls))
  BY DEF StartStore, IsNews
<1>2. /\ \A p \in DOMAIN Upcoming' :
           /\ p \in Nat \ {0} /\ p + 1 \in DOMAIN Upcoming
           /\ Upcoming'[p] = Upcoming[p + 1]
      /\ 1 \in DOMAIN Upcoming /\ Upcoming[1] = Head(calls)
  BY BlockBegins, TailKeepsUpcoming
<1>3. new \in Seq(1..MaxTokens) /\ ToSet(new) \subseteq Coming /\ Rising(new)
  BY <1>1, <1>2, NewsIsComing DEF TokensAreInOrder
<1>4. ASSUME NEW t \in ToSet(new), NEW u \in Coming' PROVE t < u
  <2>1. PICK p \in DOMAIN Upcoming' :
          IsNews(Upcoming'[p]) /\ u \in ToSet(Upcoming'[p].new)
    BY <1>4 DEF Coming
  <2>2. /\ p + 1 \in DOMAIN Upcoming /\ Upcoming'[p] = Upcoming[p + 1]
        /\ 1 < p + 1
    BY <1>2, <2>1
  <2> QED BY <1>1, <1>2, <1>4, <2>1, <2>2 DEF TokensAreInOrder
<1> QED BY <1>3, <1>4

LEMMA MadeGrows ==
  ASSUME TypeOK, [Next]_vars
  PROVE  /\ made \in 0..MaxTokens /\ made' \in 0..MaxTokens /\ made <= made'
         /\ MaxTokens \in Nat
         /\ ~ WebCall => made' = made
<1>1. made \in 0..MaxTokens /\ MaxTokens \in Nat
  BY TokensAssumption DEF TypeOK
<1>2. CASE WebCall
  <2>1. made' = made \/ \E n \in 0..(MaxTokens - made) : made' = made + n
    BY <1>2 DEF WebCall
  <2> QED BY <1>1, <1>2, <2>1
<1>3. CASE UNCHANGED made
  BY <1>1, <1>3
<1> QED
  BY <1>2, <1>3, AllSteps
     DEF vars, boundVars, SaveConfiguration, SetStatus, GetTokenNow, TimeOut,
         Ask, GiveUp, ScarStep, GiveUpPrivacy, StartGet, StartStore, StartInit,
         StartOther, Take, Hand, LookForPrivacy, WaitForPrivacy, Generate,
         SavePrivacy, TellPrivacy, FinishGeneration

\* What comes is what came, or newer than all tokens that have been made.
LEMMA ComingChanges ==
  ASSUME TypeOK, BlockIsInPlace, [Next]_vars
  PROVE  Coming' \subseteq
           Coming \cup {t \in 1..MaxTokens : made < t /\ t <= made'}
<1> SUFFICES ASSUME NEW u \in Coming', u \notin Coming
             PROVE  u \in 1..MaxTokens /\ made < u /\ u <= made'
  OBVIOUS
<1>1. PICK p \in DOMAIN Upcoming' :
        IsNews(Upcoming'[p]) /\ u \in ToSet(Upcoming'[p].new)
  BY DEF Coming
<1>2. u \in 1..MaxTokens
  BY DEF Coming
<1>3. \A k \in DOMAIN Upcoming : Upcoming'[p] # Upcoming[k]
  BY <1>1, <1>2 DEF Coming
<1>4. ~ UpcomingKeeps
  BY <1>1, <1>3 DEF UpcomingKeeps, Quiet, IsNews
<1>5. \A r \in Requests : ~ UpcomingJoins(Get(r))
  BY <1>1, <1>3 DEF UpcomingJoins, Get, IsNews
<1>6. PICK n \in 0..(MaxTokens - made), op \in {"create", "append"} :
        made' = made + n /\ UpcomingJoins(News(op, n))
  BY <1>4, <1>5, UpcomingChanges
<1>7. Upcoming'[p] = News(op, n)
  BY <1>1, <1>3, <1>6 DEF UpcomingJoins
<1>8. \E i \in 1..n : u = made + i
  BY <1>1, <1>7, NewsIsTyped DEF ToSet
<1> QED BY <1>2, <1>6, <1>8, MadeGrows

\* What is stored was stored, or to come.
LEMMA StoredChanges ==
  ASSUME TypeOK, BlockIsInPlace, TokensAreInOrder, [Next]_vars
  PROVE  /\ tokens' \in Seq(1..MaxTokens) /\ Rising(tokens')
         /\ Stored' \subseteq Stored \cup Coming
         /\ ~ StartStore => Stored' \subseteq Stored
         /\ StartStore => Stored' \subseteq Stored \cup ToSet(Head(calls).new)
         /\ peeked \subseteq peeked' /\ peeked' \subseteq 1..MaxTokens
<1>1. /\ tokens \in Seq(1..MaxTokens) /\ Rising(tokens) /\ MaxTokens \in Nat
      /\ peeked \subseteq 1..MaxTokens
  BY TokensAssumption DEF TypeOK, TokensAreInOrder
<1>2. CASE UNCHANGED storageVars
  BY <1>1, <1>2 DEF storageVars, Stored
<1>3. CASE TakeToken
  <2>1. /\ Tail(tokens) \in Seq(1..MaxTokens) /\ Rising(Tail(tokens))
        /\ ToSet(Tail(tokens)) \subseteq ToSet(tokens)
        /\ Head(tokens) \in 1..MaxTokens
    BY <1>1, <1>3, RisingTail DEF TakeToken
  <2>2. /\ tokens' = tokens \/ tokens' = Tail(tokens)
        /\ peeked' = peeked \/ peeked' = peeked \cup {Head(tokens)}
    BY <1>3 DEF TakeToken
  <2> QED BY <1>1, <2>1, <2>2 DEF Stored
<1>4. CASE StartOther
  <2>1. (tokens' = tokens \/ tokens' = <<>>) /\ peeked' = peeked
    BY <1>4 DEF StartOther
  <2>2. <<>> \in Seq(1..MaxTokens) /\ Rising(<<>>) /\ ToSet(<<>>) = {}
    BY DEF Rising, ToSet
  <2> QED BY <1>1, <2>1, <2>2 DEF Stored
<1>5. CASE StartInit
  BY <1>1, <1>5 DEF StartInit, Stored
<1>6. CASE StartStore
  <2> DEFINE new == Head(calls).new
  <2>1. /\ new \in Seq(1..MaxTokens) /\ Rising(new)
        /\ ToSet(new) \subseteq Coming
    BY <1>6, Storing
  <2>2. (tokens' = new \/ tokens' = tokens \o new) /\ peeked' = peeked
    BY <1>6 DEF StartStore
  <2> HIDE DEF new
  <2>3. \A t \in ToSet(tokens), u \in ToSet(new) : t < u
    BY <2>1 DEF TokensAreInOrder, Stored
  <2>4. /\ tokens \o new \in Seq(1..MaxTokens) /\ Rising(tokens \o new)
        /\ \A u \in ToSet(tokens \o new) :
             u \in ToSet(tokens) \/ u \in ToSet(new)
    BY <1>1, <2>1, <2>3, RisingConcat
  <2>5. ToSet(tokens') \subseteq ToSet(tokens) \cup ToSet(new)
    BY <2>2, <2>4
  <2>6. Stored' \subseteq Stored \cup ToSet(Head(calls).new)
    BY <2>5 DEF Stored, new
  <2> QED BY <1>1, <1>6, <2>1, <2>2, <2>4, <2>5, <2>6 DEF Stored
<1> QED
  BY <1>2, <1>3, <1>4, <1>5, <1>6, AllSteps
     DEF vars, WebCall, SaveConfiguration, SetStatus, GetTokenNow, TimeOut,
         Ask, GiveUp, ScarStep, GiveUpPrivacy, StartGet, Take, Hand,
         LookForPrivacy, WaitForPrivacy, Generate, SavePrivacy, TellPrivacy,
         FinishGeneration

\* The news of the web application are in order.
LEMMA NewsInOrderStep ==
  ASSUME TypeOK, BlockIsInPlace, TokensAreInOrder, [Next]_vars
  PROVE  /\ \A k \in DOMAIN Upcoming' :
              IsNews(Upcoming'[k]) => Rising(Upcoming'[k].new)
         /\ \A k, l \in DOMAIN Upcoming' :
              k < l /\ IsNews(Upcoming'[k]) /\ IsNews(Upcoming'[l]) =>
                \A t \in ToSet(Upcoming'[k].new), u \in ToSet(Upcoming'[l].new) :
                  t < u
<1>1. /\ \A k \in DOMAIN Upcoming :
           IsNews(Upcoming[k]) => Rising(Upcoming[k].new)
      /\ \A k, l \in DOMAIN Upcoming :
           k < l /\ IsNews(Upcoming[k]) /\ IsNews(Upcoming[l]) =>
             \A t \in ToSet(Upcoming[k].new), u \in ToSet(Upcoming[l].new) :
               t < u
  BY DEF TokensAreInOrder
<1>2. Len(Upcoming) \in Nat /\ DOMAIN Upcoming = 1..Len(Upcoming)
  BY UpcomingType
<1>3. CASE UpcomingKeeps
  <2>1. PICK d \in {0, 1} : \A p \in DOMAIN Upcoming' :
          \/ Quiet(Upcoming'[p])
          \/ p + d \in DOMAIN Upcoming /\ Upcoming'[p] = Upcoming[p + d]
    BY <1>3 DEF UpcomingKeeps
  <2>2. \A p \in DOMAIN Upcoming' : IsNews(Upcoming'[p]) =>
          p + d \in DOMAIN Upcoming /\ Upcoming'[p] = Upcoming[p + d]
    BY <2>1 DEF Quiet, IsNews
  <2>3. DOMAIN Upcoming' \subseteq Nat
    <3>1. Upcoming' \in Seq(Calls)
      BY UpcomingChanges, BlockStep DEF Upcoming, BlockIsInPlace
    <3> QED BY <3>1
  <2>4. \A k, l \in DOMAIN Upcoming' : k < l => k + d < l + d
    BY <2>3
  <2> QED BY <1>1, <2>2, <2>4
<1>4. ASSUME NEW r \in Requests, UpcomingJoins(Get(r))
      PROVE  \A p \in DOMAIN Upcoming' : IsNews(Upcoming'[p]) =>
               p \in DOMAIN Upcoming /\ Upcoming'[p] = Upcoming[p]
  <2>1. ~ IsNews(Get(r))
    BY DEF IsNews, Get
  <2> QED BY <1>4, <2>1 DEF UpcomingJoins
<1>5. ASSUME NEW n \in 0..(MaxTokens - made), NEW op \in {"create", "append"},
             UpcomingJoins(News(op, n))
      PROVE  /\ \A k \in DOMAIN Upcoming' :
                  IsNews(Upcoming'[k]) => Rising(Upcoming'[k].new)
             /\ \A k, l \in DOMAIN Upcoming' :
                  k < l /\ IsNews(Upcoming'[k]) /\ IsNews(Upcoming'[l]) =>
                    \A t \in ToSet(Upcoming'[k].new),
                       u \in ToSet(Upcoming'[l].new) : t < u
  <2> DEFINE c == News(op, n)
  <2>1. /\ DOMAIN c.new = 1..n /\ \A i \in 1..n : c.new[i] = made + i
        /\ made \in Nat /\ n \in Nat
    BY NewsIsTyped
  <2>2. \A p \in DOMAIN Upcoming' :
          \/ p \in DOMAIN Upcoming /\ Upcoming'[p] = Upcoming[p]
          \/ p = Len(Upcoming) + 1 /\ Upcoming'[p] = c
    BY <1>5 DEF UpcomingJoins
  <2> HIDE DEF c
  <2>3. Rising(c.new)
    BY <2>1 DEF Rising
  <2>4. \A u \in ToSet(c.new) : \E i \in 1..n : u = made + i
    BY <2>1 DEF ToSet
  <2>5. ASSUME NEW k \in DOMAIN Upcoming, IsNews(Upcoming[k]),
               NEW t \in ToSet(Upcoming[k].new), NEW u \in ToSet(c.new)
        PROVE  t < u
    <3>1. t \in Coming
      BY <2>5, NewsIsComing
    <3>2. t \in 1..MaxTokens /\ t <= made
      BY <3>1 DEF TokensAreInOrder, Coming
    <3>3. PICK i \in 1..n : u = made + i
      BY <2>4
    <3> QED BY <2>1, <3>2, <3>3
  <2>6. \A k, l \in DOMAIN Upcoming' : k < l =>
          k \in DOMAIN Upcoming /\ Upcoming'[k] = Upcoming[k]
    BY <1>2, <2>2
  <2> QED BY <1>1, <2>2, <2>3, <2>5, <2>6
<1>6. CASE \E r \in Requests : UpcomingJoins(Get(r))
  BY <1>1, <1>4, <1>6
<1> QED BY <1>3, <1>5, <1>6, UpcomingChanges

LEMMA TokensInOrderStep ==
  ASSUME TypeOK, BlockIsInPlace, TokensAreInOrder, [Next]_vars
  PROVE  TokensAreInOrder'
<1>1. /\ \A t \in Stored, u \in Coming : t < u
      /\ \A t \in Stored \cup Coming : t <= made
  BY DEF TokensAreInOrder
<1>2. /\ Stored \subseteq 1..MaxTokens /\ Coming \subseteq 1..MaxTokens
      /\ made \in Nat /\ made' \in Nat /\ made <= made'
  BY MadeGrows, ElementsOf DEF TypeOK, Stored, Coming
<1>3. Stored' \subseteq Stored \cup Coming
  BY StoredChanges
<1>4. \A u \in Coming' : u \in Coming
                           \/ (u \in 1..MaxTokens /\ made < u /\ u <= made')
  BY ComingChanges
<1>5. ASSUME NEW t \in Stored', NEW u \in Coming' PROVE t < u
  <2>1. CASE t \in Stored /\ u \in Coming
    BY <1>1, <2>1
  <2>2. CASE t \in Stored /\ u \notin Coming
    <3>1. t <= made /\ made < u /\ t \in Nat /\ u \in Nat
      BY <1>1, <1>2, <1>4, <1>5, <2>2
    <3> QED BY <1>2, <3>1
  <2>3. CASE t \notin Stored
    <3>1. StartStore /\ t \in ToSet(Head(calls).new)
      BY <2>3, StoredChanges
    <3> QED BY <3>1, Storing
  <2> QED BY <2>1, <2>2, <2>3
<1>6. ASSUME NEW t \in Stored' \cup Coming' PROVE t <= made'
  <2>1. CASE t \in Stored \cup Coming
    <3>1. t <= made /\ t \in Nat
      BY <1>1, <1>2, <2>1
    <3> QED BY <1>2, <3>1
  <2>2. CASE t \notin Stored \cup Coming
    BY <1>3, <1>4, <2>2
  <2> QED BY <2>1, <2>2
<1>7. Rising(tokens')
  BY StoredChanges
<1> QED BY <1>5, <1>6, <1>7, NewsInOrderStep DEF TokensAreInOrder, Rising

\* What has gone out stays older than what has not.
LEMMA GoneStays ==
  ASSUME TypeOK, BlockIsInPlace, TokensAreInOrder, [Next]_vars,
         NEW t \in 1..MaxTokens, GoneIsOlder(t)
  PROVE  GoneIsOlder(t)'
<1>1. /\ t <= made /\ \A u \in Stored : Older(t, u)
      /\ \A u \in Coming : t < u
  BY DEF GoneIsOlder
<1>2. /\ made \in Nat /\ made' \in Nat /\ made <= made' /\ t \in Nat
      /\ peeked \subseteq peeked'
  BY MadeGrows, StoredChanges
<1>3. \A u \in Coming' : u \in Coming \/ (u \in 1..MaxTokens /\ made < u)
  BY ComingChanges
<1>4. \A u \in Coming' : t < u
  BY <1>1, <1>2, <1>3
<1>5. \A u \in Stored' : u \in Stored \/ u \in Coming
  BY StoredChanges
<1>6. \A u \in Stored' : Older(t, u)'
  BY <1>1, <1>2, <1>5 DEF Older
<1>7. t <= made'
  BY <1>1, <1>2
<1> QED BY <1>4, <1>6, <1>7 DEF GoneIsOlder

-----------------------------------------------------------------------------
(***************************************************************************)
(* The tokens that go out.                                                 *)
(***************************************************************************)
\* A token is being handed over because it was taken, or was before.
LEMMA HandingChanges ==
  ASSUME TypeOK, BlockIsInPlace, [Next]_vars, running'.step = "hand"
  PROVE  \/ running' = running /\ ~ StartStore /\ ~ Hand
         \/ /\ Take /\ TakeToken /\ running.step = "take"
            /\ running'.token = Head(tokens) /\ running'.removed = ~ peekMode
         \/ /\ Take /\ UNCHANGED storageVars /\ running.step = "take"
            /\ running'.token = 0 /\ running'.removed = FALSE
<1>1. CASE StartGet \/ StartStore \/ StartInit \/ StartOther
  <2>1. ~ Done /\ \A l : ~ GoTo("take", l)
    BY Going, StartIsTyped DEF Done
  <2>2. ~ GoTo(FirstStep, 1)
    BY Going DEF FirstStep
  <2> QED BY <1>1, <2>1, <2>2 DEF StartGet, StartStore, StartInit, StartOther
<1>2. CASE Take
  <2>1. ~ NextPass
    BY PassingIsTyped
  <2>2. ASSUME NEW t, NEW m, HandOver(t, m)
        PROVE  running'.token = t /\ running'.removed = m
    <3>1. running' = [running EXCEPT !.step = "hand", !.token = t,
                                     !.removed = m]
      BY <2>2 DEF HandOver
    <3> QED BY <3>1 DEF TypeOK
  <2> QED BY <1>2, <2>1, <2>2 DEF Take, Running
<1>3. CASE Hand
  BY <1>3, PassingIsTyped DEF Hand
<1>4. CASE LookForPrivacy
  BY <1>4, Going DEF LookForPrivacy
<1>5. CASE WaitForPrivacy \/ Generate
  BY <1>5, StartIsTyped DEF WaitForPrivacy, Generate, Done
<1> QED BY <1>1, <1>2, <1>3, <1>4, <1>5, RunningKeeps

\* Who is told of a token of the web is told of the one that is handed over.
LEMMA WebAnswers ==
  ASSUME TypeOK, [Next]_vars, NEW r \in Requests,
         NEW a \in ToSet(answers'[r]), a.kind = "web"
  PROVE  \/ a \in ToSet(answers[r]) /\ a.token \in 1..MaxTokens
         \/ /\ Hand /\ observers # <<>> /\ r = Head(observers)
            /\ Handing(a.token) /\ a.token \in 1..MaxTokens
<1>1. \A b \in ToSet(answers[r]) : b \in Answers
  BY ElementsOf DEF TypeOK
<1>2. \A b \in Answers : b.kind = "web" => b.token \in 1..MaxTokens
  BY DEF Answers
<1>3. CASE a \in ToSet(answers[r])
  BY <1>1, <1>2, <1>3
<1>4. CASE a \notin ToSet(answers[r])
  <2>1. \A q \in Requests, b \in Answers : Told(q, b) => q = r /\ b = a
    BY <1>4, Telling
  <2>2. a # None /\ a # Native
    BY DEF None, Native
  <2>3. \A b \in {Native, None} : ~ ObserverServed(b)
    BY <2>1, <2>2, AnswerTypes, HeadsAreTyped DEF ObserverServed
  <2>4. ~ StartGet
    <3>1. Head(calls).req \in Requests \/ ~ StartGet
      BY RequestBegins
    <3>2. StartGet => Told(Head(calls).req, None) \/ UNCHANGED answers
      BY DEF StartGet, Tell, Told
    <3> QED BY <1>4, <2>1, <2>2, <3>1, <3>2, AnswerTypes
  <2>5. \A q \in Requests : ~ ObserverGivesUp(q)
    BY <2>1, <2>2, AnswerTypes DEF ObserverGivesUp
  <2>6. Hand /\ ObserverServed(Web(running.token))
    BY <1>4, <2>3, <2>4, <2>5, BridgeChanges DEF ObserverTimesOut
  <2>7. observers # <<>> /\ r = Head(observers) /\ a = Web(running.token)
    BY <2>1, <2>6, AnswerTypes, HeadsAreTyped DEF ObserverServed
  <2>8. running.step = "hand" /\ running.token \in 0..MaxTokens
        /\ MaxTokens \in Nat
    BY <2>6, TokensAssumption DEF Hand, Running, TypeOK
  <2>9. a.token = running.token /\ a.token # 0
    BY <2>7 DEF Web
  <2> QED BY <2>6, <2>7, <2>8, <2>9 DEF Handing
<1> QED BY <1>3, <1>4

LEMMA TakingStep ==
  ASSUME TypeOK, BlockIsInPlace, TokensAreInOrder, TokensGoOutInOrder,
         [Next]_vars, NEW t \in 1..MaxTokens, Handing(t)'
  PROVE  /\ GoneIsOlder(t)'
         /\ running'.removed => \A u \in Stored' : t < u
<1>1. running'.step = "hand" /\ running'.token = t /\ t # 0
  BY DEF Handing
<1>2. CASE running' = running /\ ~ StartStore
  <2>1. Handing(t)
    BY <1>2 DEF Handing
  <2>2. GoneIsOlder(t) /\ (running.removed => \A u \in Stored : t < u)
    BY <2>1 DEF TokensGoOutInOrder
  <2> QED BY <1>2, <2>2, GoneStays, StoredChanges
<1>3. CASE /\ Take /\ TakeToken
           /\ running'.token = Head(tokens) /\ running'.removed = ~ peekMode
  <2>1. /\ t \in Stored /\ t = Head(tokens)
        /\ \A u \in ToSet(Tail(tokens)) : t < u
        /\ \A u \in Stored : u = t \/ t < u
    BY <1>1, <1>3, TokensAssumption, RisingTail
       DEF TakeToken, TypeOK, TokensAreInOrder, Stored
  <2>2. /\ peekMode => Stored' = Stored /\ t \in peeked'
        /\ ~ peekMode => Stored' = ToSet(Tail(tokens))
    BY <1>3, <2>1 DEF TakeToken, Stored
  <2>3. \A u \in Stored' : Older(t, u)' /\ (~ peekMode => t < u)
    BY <2>1, <2>2 DEF Older
  <2>4. t <= made /\ \A u \in Coming : t < u
    BY <2>1 DEF TokensAreInOrder
  <2>5. /\ t \in Nat /\ made \in Nat /\ made' \in Nat /\ made <= made'
        /\ \A u \in Coming' : u \in Coming \/ (u \in 1..MaxTokens /\ made < u)
    BY MadeGrows, ComingChanges
  <2>6. t <= made' /\ \A u \in Coming' : t < u
    BY <2>4, <2>5
  <2> QED BY <1>3, <2>3, <2>6 DEF GoneIsOlder
<1> QED BY <1>1, <1>2, <1>3, HandingChanges

LEMMA GoingOutStep ==
  ASSUME TypeOK, BlockIsInPlace, TokensAreInOrder, TokensGoOutInOrder,
         [Next]_vars
  PROVE  TokensGoOutInOrder'
<1>1. ASSUME NEW r \in Requests, NEW a \in ToSet(answers'[r]), a.kind = "web"
      PROVE  /\ GoneIsOlder(a.token)'
             /\ \A t \in 1..MaxTokens : Handing(t)' => Older(a.token, t)'
  <2>1. CASE a \in ToSet(answers[r]) /\ a.token \in 1..MaxTokens
    <3>1. /\ GoneIsOlder(a.token)
          /\ \A t \in 1..MaxTokens : Handing(t) => Older(a.token, t)
      BY <1>1, <2>1 DEF TokensGoOutInOrder
    <3>2. GoneIsOlder(a.token)'
      BY <2>1, <3>1, GoneStays
    <3>3. ASSUME NEW t \in 1..MaxTokens, Handing(t)'
          PROVE  Older(a.token, t)'
      <4>1. running'.step = "hand" /\ running'.token = t /\ t # 0
        BY <3>3 DEF Handing
      <4>2. Older(a.token, t)
        <5>1. CASE running' = running
          BY <3>1, <3>3, <5>1 DEF Handing
        <5>2. CASE TakeToken /\ running'.token = Head(tokens)
          <6>1. t \in Stored
            BY <4>1, <5>2, TokensAssumption, RisingTail
               DEF TakeToken, TypeOK, TokensAreInOrder, Stored
          <6> QED BY <3>1, <6>1 DEF GoneIsOlder
        <5> QED BY <4>1, <5>1, <5>2, HandingChanges
      <4> QED BY <4>2, StoredChanges DEF Older
    <3> QED BY <3>2, <3>3
  <2>2. CASE Hand /\ Handing(a.token) /\ a.token \in 1..MaxTokens
    <3>1. GoneIsOlder(a.token)
      BY <2>2 DEF TokensGoOutInOrder
    <3>2. running'.step # "hand"
      BY <2>2, PassingIsTyped DEF Hand
    <3> QED BY <2>2, <3>1, <3>2, GoneStays DEF Handing
  <2> QED BY <1>1, <2>1, <2>2, WebAnswers
<1>2. \A t \in 1..MaxTokens : Handing(t)' =>
        GoneIsOlder(t)' /\ (running'.removed => \A u \in Stored' : t < u)
  BY TakingStep
<1> QED BY <1>1, <1>2 DEF TokensGoOutInOrder

\* What is lost is older than what is left.
LEMMA LostChanges ==
  ASSUME TypeOK, [Next]_vars
  PROVE  \/ lost' = lost
         \/ Hand /\ observers = <<>> /\ running.removed /\ lost' = lost + 1
BY AllSteps
   DEF vars, WebCall, SaveConfiguration, SetStatus, GetTokenNow, TimeOut, Ask,
       GiveUp, ScarStep, GiveUpPrivacy, StartGet, StartStore, StartInit,
       StartOther, Take, Hand, LookForPrivacy, WaitForPrivacy, Generate,
       SavePrivacy, TellPrivacy, FinishGeneration

LEMMA LostStep ==
  ASSUME TypeOK, BlockIsInPlace, TokensAreInOrder, TokensGoOutInOrder,
         LostAreOld, [Next]_vars
  PROVE  LostAreOld' /\ lost' \in 0..MaxTokens
<1>1. /\ lost <= made /\ \A u \in Stored \cup Coming : lost < u
      /\ running.step = "hand" /\ running.removed =>
           running.token # 0 /\ lost < running.token
  BY DEF LostAreOld
<1>2. /\ made \in 0..MaxTokens /\ made' \in 0..MaxTokens /\ made <= made'
      /\ MaxTokens \in Nat /\ lost \in Nat
      /\ Stored' \subseteq Stored \cup Coming
      /\ \A u \in Coming' : u \in Coming \/ (u \in 1..MaxTokens /\ made < u)
  BY MadeGrows, ComingChanges, StoredChanges DEF TypeOK
<1>3. CASE lost' = lost
  <2>1. \A u \in Coming' : lost < u
    BY <1>1, <1>2
  <2>2. lost' <= made' /\ \A u \in Stored' \cup Coming' : lost' < u
    BY <1>1, <1>2, <1>3, <2>1
  <2>3. lost' \in 0..MaxTokens
    BY <1>1, <1>2, <1>3
  <2>4. ASSUME running'.step = "hand", running'.removed
        PROVE  running'.token # 0 /\ lost' < running'.token
    <3>1. CASE running' = running
      BY <1>1, <1>3, <2>4, <3>1
    <3>2. CASE TakeToken /\ running'.token = Head(tokens)
      <4>1. Head(tokens) \in Stored /\ Head(tokens) \in 1..MaxTokens
        BY <3>2, TokensAssumption, RisingTail
           DEF TakeToken, TypeOK, TokensAreInOrder, Stored
      <4> QED BY <1>1, <1>3, <3>2, <4>1
    <3> QED BY <2>4, <3>1, <3>2, HandingChanges
  <2> QED BY <2>2, <2>3, <2>4 DEF LostAreOld
<1>4. CASE Hand /\ running.removed /\ lost' = lost + 1
  <2>1. running.step = "hand" /\ running'.step # "hand"
    BY <1>4, PassingIsTyped DEF Hand, Running
  <2> DEFINE t == running.token
  <2>2. t \in 1..MaxTokens /\ lost < t /\ Handing(t)
    BY <1>1, <1>2, <1>4, <2>1 DEF TypeOK, Handing
  <2>3. GoneIsOlder(t) /\ \A u \in Stored : t < u
    BY <1>4, <2>2 DEF TokensGoOutInOrder
  <2>4. t <= made /\ \A u \in Coming : t < u
    BY <2>3 DEF GoneIsOlder
  <2>5. Stored \subseteq 1..MaxTokens /\ Coming \subseteq 1..MaxTokens
    BY ElementsOf DEF TypeOK, Stored, Coming
  <2> HIDE DEF t
  <2>6. lost + 1 <= made /\ \A u \in Stored \cup Coming : lost + 1 < u
    BY <1>2, <2>2, <2>3, <2>4, <2>5
  <2>7. \A u \in Coming' : lost + 1 < u
    BY <1>2, <2>6
  <2>8. lost' <= made' /\ \A u \in Stored' \cup Coming' : lost' < u
    BY <1>2, <1>4, <2>6, <2>7
  <2>9. lost' \in 0..MaxTokens
    BY <1>2, <1>4, <2>6
  <2> QED BY <2>1, <2>8, <2>9 DEF LostAreOld
<1> QED BY <1>3, <1>4, LostChanges

-----------------------------------------------------------------------------
(***************************************************************************)
(* The order of the requests.                                              *)
(***************************************************************************)

\* Requests keep their places; a new one comes last.
LEMMA PlacesStay ==
  ASSUME TypeOK, [Next]_vars, NEW r \in Requests, NEW q \in Requests,
         Before(r, q)'
  PROVE  /\ Contains(asked, r) /\ r # q
         /\ \/ Before(r, q)
            \/ Ask(q) /\ ~ Contains(asked, q)
<1>1. asked \in Seq(Requests) /\ IsInjective(asked)
  BY DEF TypeOK
<1>2. PICK i \in DOMAIN asked', j \in DOMAIN asked' :
        i < j /\ asked'[i] = r /\ asked'[j] = q
  BY DEF Before
<1>3. /\ DOMAIN asked = 1..Len(asked) /\ Len(asked) \in Nat
      /\ \A k \in DOMAIN asked : Contains(asked, asked[k])
      /\ \A k, l \in DOMAIN asked : asked[k] = asked[l] => k = l
  BY <1>1 DEF Contains, IsInjective
<1>4. CASE UNCHANGED asked
  <2>1. i \in DOMAIN asked /\ j \in DOMAIN asked /\ asked[i] = r /\ asked[j] = q
    BY <1>2, <1>4
  <2>2. r # q
    BY <1>2, <1>3, <2>1
  <2> QED BY <1>2, <1>3, <2>1, <2>2 DEF Before
<1>5. ASSUME NEW x \in Requests, Ask(x), asked' = Append(asked, x),
             ~ Contains(asked, x)
      PROVE  /\ Contains(asked, r) /\ r # q
             /\ \/ Before(r, q)
                \/ Ask(q) /\ ~ Contains(asked, q)
  <2>1. \A k \in DOMAIN asked' :
          \/ k \in DOMAIN asked /\ asked'[k] = asked[k]
          \/ k = Len(asked) + 1 /\ asked'[k] = x
    BY <1>1, <1>5, AppendedFrom
  <2>2. DOMAIN asked' = 1..Len(asked) + 1
    BY <1>1, <1>5
  <2>3. i \in DOMAIN asked /\ asked[i] = r /\ Contains(asked, r)
    BY <1>2, <1>3, <2>1, <2>2
  <2>4. CASE j \in DOMAIN asked /\ asked[j] = q
    <3>1. r # q
      BY <1>2, <1>3, <2>3, <2>4
    <3> QED BY <1>2, <2>3, <2>4, <3>1 DEF Before
  <2>5. CASE q = x
    BY <1>5, <2>3, <2>5
  <2> QED BY <1>2, <2>1, <2>4, <2>5
<1> QED BY <1>4, <1>5, AskedChanges

\* Where the blocks of two requests to come were before.
LEMMA GetsKeepOrder ==
  ASSUME TypeOK, BlockIsInPlace, [Next]_vars,
         NEW r \in Requests, NEW q \in Requests,
         Contains(asked, r), Contains(asked, q),
         NEW k \in DOMAIN Upcoming', NEW l \in DOMAIN Upcoming',
         Upcoming'[k] = Get(r), Upcoming'[l] = Get(q)
  PROVE  \E m, n \in DOMAIN Upcoming :
           Upcoming[m] = Get(r) /\ Upcoming[n] = Get(q) /\ (m < n => k < l)
<1>1. \A x : /\ Get(x).op = "get" /\ Get(x).req = x /\ ~ Quiet(Get(x))
             /\ \A n : \A op \in {"create", "append"} : Get(x) # News(op, n)
  <2>1. \A x : Get(x).op = "get" /\ Get(x).req = x
    BY DEF Get
  <2>2. \A n : \A op \in {"create", "append"} : News(op, n).op # "get"
    BY DEF News
  <2> QED BY <2>1, <2>2 DEF Quiet
<1>2. k \in Nat /\ l \in Nat
  <2>1. Upcoming' \in Seq(Calls)
    <3>1. calls' \in Seq(Calls) /\ BlockIsInPlace'
      BY UpcomingChanges, BlockStep
    <3>2. CASE running'.step = "start"
      BY <3>1, <3>2 DEF Upcoming
    <3>3. CASE running'.step # "start"
      BY <3>1, <3>3 DEF Upcoming, BlockIsInPlace
    <3> QED BY <3>2, <3>3
  <2> QED BY <2>1
<1>4. CASE UpcomingKeeps
  <2>1. PICK d \in {0, 1} : \A p \in DOMAIN Upcoming' :
          \/ Quiet(Upcoming'[p])
          \/ p + d \in DOMAIN Upcoming /\ Upcoming'[p] = Upcoming[p + d]
    BY <1>4 DEF UpcomingKeeps
  <2>2. /\ k + d \in DOMAIN Upcoming /\ Upcoming[k + d] = Get(r)
        /\ l + d \in DOMAIN Upcoming /\ Upcoming[l + d] = Get(q)
    BY <1>1, <2>1
  <2>3. k + d < l + d => k < l
    BY <1>2
  <2> QED BY <2>2, <2>3
<1>5. ASSUME NEW x \in Requests, Ask(x), UpcomingJoins(Get(x))
      PROVE  /\ k \in DOMAIN Upcoming /\ Upcoming[k] = Get(r)
             /\ l \in DOMAIN Upcoming /\ Upcoming[l] = Get(q)
  <2>1. x # r /\ x # q
    BY <1>5 DEF Ask
  <2>2. Get(r) # Get(x) /\ Get(q) # Get(x)
    BY <1>1, <2>1
  <2> QED BY <1>5, <2>2 DEF UpcomingJoins
<1>6. ASSUME NEW n, NEW op \in {"create", "append"}, UpcomingJoins(News(op, n))
      PROVE  /\ k \in DOMAIN Upcoming /\ Upcoming[k] = Get(r)
             /\ l \in DOMAIN Upcoming /\ Upcoming[l] = Get(q)
  BY <1>1, <1>6 DEF UpcomingJoins
<1> QED BY <1>4, <1>5, <1>6, UpcomingChanges

\* Requests come in order.
LEMMA ComingOrderStep ==
  ASSUME TypeOK, BlockIsInPlace, RequestsComeOnce, ArmedObserversWait,
         ObserversHaveHeardNothing, [Next]_vars,
         NEW r \in Requests, NEW q \in Requests,
         Contains(asked, r), Contains(asked, q), InOrder(r, q)
  PROVE  /\ Comes(r)' => ~ Heard(q)'
         /\ \A k, l \in DOMAIN Upcoming' :
              Upcoming'[k] = Get(r) /\ Upcoming'[l] = Get(q) => k < l
<1>1. ASSUME Comes(r)', Heard(q)' PROVE FALSE
  <2>1. Comes(r)
    BY <1>1, GetsCome DEF Ask
  <2>2. ~ Heard(q)
    BY <2>1 DEF InOrder
  <2>3. StartGet /\ q = Head(calls).req
    BY <1>1, <2>2, ObserversStep
  <2>4. calls # <<>> /\ Upcoming = calls /\ Upcoming' = Tail(calls)
        /\ Head(calls) = Get(q)
    BY <2>3, BlockBegins, RequestBegins
  <2>5. /\ \A p \in DOMAIN Upcoming' :
             /\ p \in Nat \ {0} /\ p + 1 \in DOMAIN Upcoming
             /\ Upcoming'[p] = Upcoming[p + 1]
        /\ 1 \in DOMAIN Upcoming /\ Upcoming[1] = Get(q)
    BY <2>4, TailKeepsUpcoming
  <2>6. PICK p \in DOMAIN Upcoming' : Upcoming'[p] = Get(r)
    BY <1>1 DEF Comes
  <2>7. p + 1 \in DOMAIN Upcoming /\ Upcoming[p + 1] = Get(r) /\ p \in Nat \ {0}
    BY <2>5, <2>6
  <2>8. p + 1 < 1
    BY <2>5, <2>7 DEF InOrder
  <2> QED BY <2>7, <2>8
<1>2. ASSUME NEW k \in DOMAIN Upcoming', NEW l \in DOMAIN Upcoming',
             Upcoming'[k] = Get(r), Upcoming'[l] = Get(q)
      PROVE  k < l
  BY <1>2, GetsKeepOrder DEF InOrder
<1> QED BY <1>1, <1>2

\* Who observes does so already, or its block begins.
LEMMA WhoObserves ==
  ASSUME TypeOK, BlockIsInPlace, RequestsComeOnce, [Next]_vars,
         NEW r \in ToSet(observers')
  PROVE  r \in ToSet(observers) \/ (StartGet /\ r = Head(calls).req)
<1>1. CASE observers' = observers
  BY <1>1
<1>2. ASSUME StartGet, ObserverJoins(Head(calls).req)
      PROVE  r \in ToSet(observers) \/ r = Head(calls).req
  BY <1>2, NewcomerIsUnheard, ObserverJoining DEF ObserverJoins, Heard
<1>3. ASSUME NEW a, ObserverServed(a) PROVE r \in ToSet(observers)
  BY <1>3, ObserverLeaving DEF ObserverServed
<1>4. ASSUME NEW x \in Requests, ObserverGivesUp(x)
      PROVE  r \in ToSet(observers)
  BY <1>4, ObserverRemoved DEF ObserverGivesUp
<1> QED BY <1>1, <1>2, <1>3, <1>4, BridgeChanges
        DEF bridgeVars, ObserverTimesOut

\* Observers keep their order.
LEMMA ObservingOrderStep ==
  ASSUME TypeOK, BlockIsInPlace, RequestsComeOnce, [Next]_vars,
         NEW r \in Requests, NEW q \in Requests, r # q, InOrder(r, q)
  PROVE  \A k, l \in DOMAIN observers' :
           observers'[k] = r /\ observers'[l] = q => k < l
<1> SUFFICES ASSUME NEW k \in DOMAIN observers', NEW l \in DOMAIN observers',
                    observers'[k] = r, observers'[l] = q
             PROVE  k < l
  OBVIOUS
<1>1. observers \in Seq(Requests) /\ IsInjective(observers)
  BY MediatorTypes DEF MediatorsTyped
<1>2. DOMAIN observers = 1..Len(observers) /\ Len(observers) \in Nat
  BY <1>1
<1>3. CASE observers' = observers
  BY <1>3 DEF InOrder
<1>4. ASSUME StartGet, ObserverJoins(Head(calls).req) PROVE k < l
  <2>1. /\ \/ k \in DOMAIN observers /\ observers[k] = r
           \/ k = Len(observers) + 1 /\ r = Head(calls).req
        /\ \/ l \in DOMAIN observers /\ observers[l] = q
           \/ l = Len(observers) + 1 /\ q = Head(calls).req
    BY <1>1, <1>4, RequestBegins, AppendedFrom DEF ObserverJoins
  <2>2. CASE k \in DOMAIN observers /\ observers[k] = r
    BY <1>2, <2>1, <2>2 DEF InOrder
  <2>3. CASE r = Head(calls).req
    <3>1. Comes(r)
      BY <1>4, <2>3, NewcomerIsUnheard
    <3>2. q \notin ToSet(observers)
      BY <3>1 DEF InOrder, Heard
    <3>3. ~(l \in DOMAIN observers /\ observers[l] = q)
      BY <3>2 DEF ToSet
    <3> QED BY <2>1, <2>3, <3>3
  <2> QED BY <2>1, <2>2, <2>3
<1>5. ASSUME NEW a, ObserverServed(a) PROVE k < l
  <2>1. \A p \in DOMAIN Tail(observers) :
          /\ p \in Nat /\ p + 1 \in DOMAIN observers
          /\ Tail(observers)[p] = observers[p + 1]
    BY <1>1, <1>5, TailElements DEF ObserverServed
  <2>2. /\ k \in Nat /\ l \in Nat /\ k + 1 \in DOMAIN observers
        /\ observers[k + 1] = r
        /\ l + 1 \in DOMAIN observers /\ observers[l + 1] = q
    BY <1>5, <2>1 DEF ObserverServed
  <2>3. k + 1 < l + 1
    BY <2>2 DEF InOrder
  <2> QED BY <2>2, <2>3
<1>6. ASSUME NEW x \in Requests, ObserverGivesUp(x) PROVE k < l
  <2>1. observers' = RemoveFirst(observers, x)
    BY <1>6 DEF ObserverGivesUp
  <2>2. \E i, j \in DOMAIN observers :
          observers[i] = r /\ observers[j] = q /\ (i < j <=> k < l)
    BY <1>1, <2>1, RemoveDistinct
  <2> QED BY <2>2 DEF InOrder
<1> QED BY <1>3, <1>4, <1>5, <1>6, BridgeChanges
        DEF bridgeVars, ObserverTimesOut

\* Nobody is told a token of the web before who waits longer.
LEMMA ServingOrderStep ==
  ASSUME TypeOK, BlockIsInPlace, RequestsComeOnce, [Next]_vars,
         NEW r \in Requests, NEW q \in Requests, r # q, InOrder(r, q)
  PROVE  ToldWeb(q)' => r \notin ToSet(observers')
<1> SUFFICES ASSUME NEW a \in ToSet(answers'[q]), a.kind = "web",
                    r \in ToSet(observers')
             PROVE  FALSE
  BY DEF ToldWeb
<1>1. answers \in [Requests -> Seq(Answers)] /\ observers \in Seq(Requests)
  BY MediatorTypes DEF MediatorsTyped, TypeOK
<1>2. \/ a \in ToSet(answers[q])
      \/ observers # <<>> /\ q = Head(observers)
  BY WebAnswers
<1>3. Heard(q)
  <2>1. a \in ToSet(answers[q]) => answers[q] # <<>>
    BY <1>1 DEF ToSet
  <2>2. observers # <<>> => Head(observers) \in ToSet(observers)
    BY <1>1, TailDistinct
  <2> QED BY <1>2, <2>1, <2>2 DEF Heard
<1>4. r \in ToSet(observers)
  BY <1>3, WhoObserves, NewcomerIsUnheard DEF InOrder
<1>5. ~ ToldWeb(q)
  BY <1>4 DEF InOrder
<1>6. observers # <<>> /\ q = Head(observers)
  BY <1>2, <1>5 DEF ToldWeb
<1>7. PICK k \in DOMAIN observers : observers[k] = r
  BY <1>4 DEF ToSet
<1>8. 1 \in DOMAIN observers /\ observers[1] = q /\ k \in 1..Len(observers)
  BY <1>1, <1>6
<1>9. k < 1
  BY <1>7, <1>8 DEF InOrder
<1> QED BY <1>8, <1>9

\* What has just asked is last.
LEMMA AskingOrderStep ==
  ASSUME TypeOK, BlockIsInPlace, RequestsComeOnce,
         NEW r \in Requests, NEW q \in Requests, r # q,
         Ask(q), ~ Contains(asked, q)
  PROVE  InOrder(r, q)'
<1>1. UNCHANGED <<running, observers, answers>> /\ Post(Get(q))
  BY DEF Ask, bridgeVars, Get
<1>2. ~ Heard(q)
  BY DEF RequestsComeOnce
<1>3. q \notin ToSet(observers) /\ answers[q] = <<>>
  BY <1>2 DEF Heard
<1>4. q \notin ToSet(observers') /\ answers'[q] = <<>>
  BY <1>1, <1>3
<1>5. ASSUME NEW k \in DOMAIN Upcoming', NEW l \in DOMAIN Upcoming',
             Upcoming'[k] = Get(r), Upcoming'[l] = Get(q)
      PROVE  k < l
  <2>1. \A x : Get(x).op = "get" /\ Get(x).req = x
    BY DEF Get
  <2>2. Get(q) \in Calls
    BY DEF Calls, Get
  <2>3. UpcomingJoins(Get(q))
    BY <1>1, <2>2, BlockJoins
  <2>4. k \in DOMAIN Upcoming
    BY <1>5, <2>1, <2>3 DEF UpcomingJoins
  <2>5. ~(l \in DOMAIN Upcoming /\ Upcoming[l] = Get(q))
    BY <2>1 DEF RequestsComeOnce
  <2>6. l = Len(Upcoming) + 1
    BY <1>5, <2>3, <2>5 DEF UpcomingJoins
  <2> QED BY <2>4, <2>6, UpcomingType
<1>6. ~ Heard(q)'
  BY <1>4 DEF Heard
<1>7. ~ ToldWeb(q)'
  BY <1>4 DEF ToldWeb, ToSet
<1>8. \A l \in DOMAIN observers' : observers'[l] # q
  BY <1>4 DEF ToSet
<1> QED BY <1>5, <1>6, <1>7, <1>8 DEF InOrder

LEMMA OrderStep ==
  ASSUME TypeOK, BlockIsInPlace, RequestsComeOnce, ArmedObserversWait,
         ObserversHaveHeardNothing, RequestsAreInOrder, [Next]_vars
  PROVE  RequestsAreInOrder'
<1> SUFFICES ASSUME NEW r \in Requests, NEW q \in Requests, Before(r, q)'
             PROVE  InOrder(r, q)'
  BY DEF RequestsAreInOrder
<1>1. Contains(asked, r) /\ r # q
  BY PlacesStay
<1>2. CASE Before(r, q)
  <2>1. InOrder(r, q)
    BY <1>2 DEF RequestsAreInOrder
  <2>2. Contains(asked, q)
    BY <1>2 DEF Before, Contains
  <2>3. /\ Comes(r)' => ~ Heard(q)'
        /\ \A k, l \in DOMAIN Upcoming' :
             Upcoming'[k] = Get(r) /\ Upcoming'[l] = Get(q) => k < l
    BY <1>1, <2>1, <2>2, ComingOrderStep
  <2>4. \A k, l \in DOMAIN observers' :
          observers'[k] = r /\ observers'[l] = q => k < l
    BY <1>1, <2>1, ObservingOrderStep
  <2>5. ToldWeb(q)' => r \notin ToSet(observers')
    BY <1>1, <2>1, ServingOrderStep
  <2> QED BY <2>3, <2>4, <2>5 DEF InOrder
<1>3. CASE Ask(q) /\ ~ Contains(asked, q)
  BY <1>1, <1>3, AskingOrderStep
<1> QED BY <1>2, <1>3, PlacesStay

\* Tokens go out in the order of the requests.
LEMMA ServedOrderStep ==
  ASSUME TypeOK, BlockIsInPlace, RequestsComeOnce, RequestsAreInOrder,
         TokensAreInOrder, TokensGoOutInOrder, OldTokensGoToOldRequests,
         [Next]_vars,
         NEW r \in Requests, NEW q \in Requests, Before(r, q)',
         NEW a \in ToSet(answers'[r]), NEW b \in ToSet(answers'[q]),
         a.kind = "web", b.kind = "web"
  PROVE  a.token < b.token \/ (a.token = b.token /\ a.token \in peeked')
<1>1. Contains(asked, r) /\ r # q
  BY PlacesStay
<1>2. peeked \subseteq peeked'
  BY StoredChanges
<1>3. Older(a.token, b.token)
        => a.token < b.token \/ (a.token = b.token /\ a.token \in peeked')
  BY <1>2 DEF Older
<1>4. /\ \/ a \in ToSet(answers[r]) /\ a.token \in 1..MaxTokens
         \/ /\ Hand /\ observers # <<>> /\ r = Head(observers)
            /\ Handing(a.token) /\ a.token \in 1..MaxTokens
      /\ \/ b \in ToSet(answers[q]) /\ b.token \in 1..MaxTokens
         \/ /\ Hand /\ observers # <<>> /\ q = Head(observers)
            /\ Handing(b.token) /\ b.token \in 1..MaxTokens
  BY WebAnswers
<1>5. answers \in [Requests -> Seq(Answers)] /\ observers \in Seq(Requests)
  BY MediatorTypes DEF MediatorsTyped, TypeOK
<1>6. Before(r, q)
  <2>1. CASE Ask(q) /\ ~ Contains(asked, q)
    <3>1. q \notin ToSet(observers) /\ answers[q] = <<>>
      BY <2>1 DEF RequestsComeOnce, Heard
    <3>2. b \notin ToSet(answers[q])
      BY <3>1 DEF ToSet
    <3>3. observers # <<>> => Head(observers) \in ToSet(observers)
      BY <1>5 DEF ToSet
    <3> QED BY <1>4, <3>1, <3>2, <3>3
  <2> QED BY <2>1, PlacesStay
<1>7. PICK i \in DOMAIN asked, j \in DOMAIN asked :
        i < j /\ asked[i] = r /\ asked[j] = q
  BY <1>6 DEF Before
<1>8. InOrder(r, q)
  BY <1>6 DEF RequestsAreInOrder
<1>9. CASE a \in ToSet(answers[r]) /\ b \in ToSet(answers[q])
  <2>1. a.token < b.token \/ (a.token = b.token /\ a.token \in peeked)
    BY <1>7, <1>9 DEF OldTokensGoToOldRequests
  <2> QED BY <1>3, <2>1 DEF Older
<1>10. CASE a \in ToSet(answers[r]) /\ Handing(b.token)
  <2>1. Older(a.token, b.token)
    BY <1>4, <1>10 DEF TokensGoOutInOrder
  <2> QED BY <1>3, <2>1
<1>11. CASE b \in ToSet(answers[q]) /\ observers # <<>> /\ r = Head(observers)
  <2>1. ToldWeb(q)
    BY <1>11 DEF ToldWeb
  <2>2. r \in ToSet(observers)
    BY <1>5, <1>11 DEF ToSet
  <2> QED BY <1>8, <2>1, <2>2 DEF InOrder
<1> QED BY <1>1, <1>4, <1>9, <1>10, <1>11

LEMMA OldTokensStep ==
  ASSUME TypeOK, BlockIsInPlace, RequestsComeOnce, RequestsAreInOrder,
         TokensAreInOrder, TokensGoOutInOrder, OldTokensGoToOldRequests,
         [Next]_vars
  PROVE  OldTokensGoToOldRequests'
<1> SUFFICES ASSUME NEW i \in DOMAIN asked', NEW j \in DOMAIN asked', i < j,
                    NEW a \in ToSet(answers'[asked'[i]]),
                    NEW b \in ToSet(answers'[asked'[j]]),
                    a.kind = "web", b.kind = "web"
             PROVE  \/ a.token < b.token
                    \/ a.token = b.token /\ a.token \in peeked'
  BY DEF OldTokensGoToOldRequests
<1>1. asked' \in Seq(Requests)
  BY AskedGrows
<1>2. asked'[i] \in Requests /\ asked'[j] \in Requests
  BY <1>1
<1>3. PICK r \in Requests, q \in Requests : r = asked'[i] /\ q = asked'[j]
  BY <1>2
<1>4. Before(r, q)'
  BY <1>3 DEF Before
<1>5. a \in ToSet(answers'[r]) /\ b \in ToSet(answers'[q])
  BY <1>3
<1> QED BY <1>4, <1>5, ServedOrderStep

\* Whoever was served otherwise stays so.
LEMMA ServedOtherwiseGrows ==
  ASSUME TypeOK, NEW r \in Requests, NEW a \in Answers, Told(r, a)
  PROVE  /\ ServedOtherwise \subseteq ServedOtherwise'
         /\ answers[r] = <<>> /\ a.kind # "web" =>
              r \in ServedOtherwise' /\ r \notin ServedOtherwise
<1>1. /\ answers'[r] # <<>>
      /\ \A q \in Requests \ {r} : answers'[q] = answers[q]
      /\ answers[r] # <<>> => answers'[r][1] = answers[r][1]
      /\ answers[r] = <<>> => answers'[r][1] = a
  BY Telling
<1>2. ASSUME NEW q \in ServedOtherwise PROVE q \in ServedOtherwise'
  <2>1. q \in Requests /\ answers[q] # <<>> /\ answers[q][1].kind # "web"
    BY <1>2 DEF ServedOtherwise
  <2>2. answers'[q] # <<>> /\ answers'[q][1] = answers[q][1]
    BY <1>1, <2>1
  <2> QED BY <2>1, <2>2 DEF ServedOtherwise
<1>3. ASSUME answers[r] = <<>>, a.kind # "web"
      PROVE  r \in ServedOtherwise' /\ r \notin ServedOtherwise
  BY <1>1, <1>3 DEF ServedOtherwise
<1> QED BY <1>2, <1>3

\* What there is for those who may lose a token: whoever leaves the observers
\* unserved by the loop was served otherwise.
LEMMA BudgetStep ==
  ASSUME TypeOK, BlockIsInPlace, RequestsComeOnce, ObserversHaveHeardNothing,
         [Next]_vars
  PROVE  LET before == Cardinality(ServedOtherwise)
             after == Cardinality(ServedOtherwise')
         IN  /\ before \in Nat /\ after \in Nat /\ before <= after
             /\ Len(observers) \in Nat /\ Len(observers') \in Nat
             /\ ~ Hand \/ observers = <<>> =>
                  before + Len(observers) <= after + Len(observers')
             /\ Hand =>
                  before + Len(observers) <= after + Len(observers') + 1
<1> DEFINE before == Cardinality(ServedOtherwise)
           after == Cardinality(ServedOtherwise')
<1>1. ServedOtherwise \in SUBSET Requests /\ ServedOtherwise' \in SUBSET Requests
  BY DEF ServedOtherwise
<1>2. /\ before \in Nat /\ after \in Nat
      /\ ServedOtherwise \subseteq ServedOtherwise' => before <= after
      /\ \A r \in ServedOtherwise' :
           ServedOtherwise \subseteq ServedOtherwise' /\ r \notin ServedOtherwise
             => before + 1 <= after
  BY <1>1, CountsGrow
<1> HIDE DEF before, after
<1>3. observers \in Seq(Requests) /\ Len(observers) \in Nat
  BY MediatorTypes DEF MediatorsTyped
<1>4. None \in Answers /\ Native \in Answers /\ None.kind # "web"
      /\ Native.kind # "web" /\ Web(running.token) \in Answers
  BY AnswerTypes DEF None, Native
<1>5. ASSUME UNCHANGED <<observers, answers>>
      PROVE  before <= after /\ observers' = observers
  <2>1. ServedOtherwise' = ServedOtherwise
    BY <1>5 DEF ServedOtherwise
  <2> QED BY <1>2, <1>5, <2>1
<1>6. ASSUME StartGet, ObserverJoins(Head(calls).req)
      PROVE  before <= after /\ Len(observers') = Len(observers) + 1
  <2>1. ServedOtherwise' = ServedOtherwise
    BY <1>6 DEF ServedOtherwise, ObserverJoins
  <2>2. Len(observers') = Len(observers) + 1
    BY <1>3, <1>6, RequestBegins, AppendElements DEF ObserverJoins
  <2> QED BY <1>2, <2>1, <2>2
<1>7. ASSUME StartGet, Told(Head(calls).req, None), UNCHANGED bridgeVars
      PROVE  before <= after /\ observers' = observers
  <2>1. ServedOtherwise \subseteq ServedOtherwise'
    BY <1>4, <1>7, RequestBegins, ServedOtherwiseGrows
  <2> QED BY <1>2, <1>7, <2>1 DEF bridgeVars
<1>8. ASSUME NEW a \in Answers, ObserverServed(a)
      PROVE  /\ before <= after /\ observers # <<>>
             /\ Len(observers') = Len(observers) - 1 /\ Len(observers) >= 1
             /\ a.kind # "web" => before + 1 <= after
  <2>1. /\ Head(observers) \in Requests /\ Head(observers) \in ToSet(observers)
        /\ Len(observers') = Len(observers) - 1 /\ Len(observers) >= 1
    BY <1>8, ObserverLeaving, ObserversAreFew DEF ObserverServed
  <2>2. answers[Head(observers)] = <<>>
    BY <2>1 DEF ObserversHaveHeardNothing
  <2>3. /\ ServedOtherwise \subseteq ServedOtherwise'
        /\ a.kind # "web" => /\ Head(observers) \in ServedOtherwise'
                             /\ Head(observers) \notin ServedOtherwise
    BY <1>8, <2>1, <2>2, ServedOtherwiseGrows DEF ObserverServed
  <2> QED BY <1>2, <1>8, <2>1, <2>3 DEF ObserverServed
<1>9. ASSUME NEW r \in Requests, ObserverGivesUp(r)
      PROVE  /\ before <= after
             /\ \/ observers' = observers
                \/ /\ Len(observers') = Len(observers) - 1
                   /\ Len(observers') \in Nat
                   /\ before + 1 <= after
  <2>1. ServedOtherwise \subseteq ServedOtherwise'
    BY <1>4, <1>9, ServedOtherwiseGrows DEF ObserverGivesUp
  <2>2. /\ r \notin ToSet(observers) => observers' = observers
        /\ r \in ToSet(observers) => Len(observers') = Len(observers) - 1
        /\ observers' \in Seq(Requests)
    BY <1>3, <1>9, RemoveDistinct, MediatorTypes
       DEF ObserverGivesUp, MediatorsTyped
  <2>3. CASE r \in ToSet(observers)
    <3>1. answers[r] = <<>>
      BY <2>3 DEF ObserversHaveHeardNothing
    <3>2. r \in ServedOtherwise' /\ r \notin ServedOtherwise
      BY <1>4, <1>9, <3>1, ServedOtherwiseGrows DEF ObserverGivesUp
    <3> QED BY <1>2, <2>1, <2>2, <2>3, <3>2
  <2> QED BY <1>2, <2>1, <2>2, <2>3
<1>10. /\ before <= after /\ Len(observers') \in Nat
       /\ ~ Hand \/ observers = <<>> =>
            before + Len(observers) <= after + Len(observers')
       /\ Hand => before + Len(observers) <= after + Len(observers') + 1
  <2>1. CASE before <= after /\ observers' = observers
    BY <1>2, <1>3, <2>1
  <2>2. CASE before <= after /\ Len(observers') = Len(observers) + 1
    BY <1>2, <1>3, <2>2
  <2>3. CASE /\ before + 1 <= after /\ Len(observers') \in Nat
             /\ Len(observers') = Len(observers) - 1
    BY <1>2, <1>3, <2>3
  <2>4. CASE /\ Hand /\ observers # <<>> /\ before <= after
             /\ Len(observers) >= 1 /\ Len(observers') = Len(observers) - 1
    BY <1>2, <1>3, <2>4
  <2>5. ASSUME \E a \in {Native, None} : ObserverServed(a)
        PROVE  /\ before + 1 <= after /\ Len(observers') \in Nat
               /\ Len(observers') = Len(observers) - 1
    BY <1>3, <1>4, <1>8, <2>5
  <2>6. ASSUME Hand, ObserverServed(Web(running.token))
        PROVE  /\ observers # <<>> /\ before <= after
               /\ Len(observers) >= 1 /\ Len(observers') = Len(observers) - 1
    BY <1>4, <1>8, <2>6
  <2> QED BY <1>5, <1>6, <1>7, <1>9, <2>1, <2>2, <2>3, <2>4, <2>5, <2>6,
             BridgeChanges DEF ObserverTimesOut
<1> QED BY <1>2, <1>3, <1>10 DEF before, after

\* No token is lost but for an observer that was served otherwise.
LEMMA LossesStep ==
  ASSUME TypeOK, BlockIsInPlace, RequestsComeOnce, ObserversHaveHeardNothing,
         LossesAreFew, [Next]_vars
  PROVE  LossesAreFew'
<1> DEFINE before == Cardinality(ServedOtherwise)
           after == Cardinality(ServedOtherwise')
<1>1. /\ before \in Nat /\ after \in Nat /\ before <= after
      /\ Len(observers) \in Nat /\ Len(observers') \in Nat
      /\ ~ Hand \/ observers = <<>> =>
           before + Len(observers) <= after + Len(observers')
      /\ Hand => before + Len(observers) <= after + Len(observers') + 1
  BY BudgetStep
<1>2. /\ lost <= before
      /\ Looping => lost + running.left <= before + Len(observers)
  BY DEF LossesAreFew
<1>3. /\ lost \in Nat /\ running \in RunningTypes /\ running.left \in Nat
      /\ Cardinality(Requests) \in Nat
  BY ObserversAreFew DEF TypeOK, RunningTypes
<1>4. running' \in RunningTypes /\ running'.left \in Nat
  BY <1>3, RunningStep DEF RunningTypes
<1> HIDE DEF before, after
<1> SUFFICES /\ lost' <= after
             /\ Looping' => lost' + running'.left <= after + Len(observers')
  BY DEF LossesAreFew, after
<1>5. ASSUME lost' = lost, running'.step \notin {"take", "hand"}
      PROVE  /\ lost' <= after
             /\ Looping' => lost' + running'.left <= after + Len(observers')
  BY <1>1, <1>2, <1>3, <1>5 DEF Looping
<1>6. ASSUME lost' = lost, Looping, running'.left <= running.left, ~ Hand
      PROVE  /\ lost' <= after
             /\ Looping' => lost' + running'.left <= after + Len(observers')
  BY <1>1, <1>2, <1>3, <1>4, <1>6
<1>7. ASSUME StartGet
      PROVE  /\ lost' <= after
             /\ Looping' => lost' + running'.left <= after + Len(observers')
  <2>1. lost' = lost
    BY <1>7 DEF StartGet
  <2>2. CASE running' = Start
    BY <1>5, <2>1, <2>2, StartIsTyped
  <2>3. CASE /\ running'.left = 1
             /\ observers' = Append(observers, Head(calls).req)
    <3>1. Len(observers') = Len(observers) + 1
      <4>1. observers \in Seq(Requests)
        BY MediatorTypes DEF MediatorsTyped
      <4> QED BY <1>7, <2>3, <4>1, RequestBegins, AppendElements
    <3> QED BY <1>1, <1>2, <1>3, <2>1, <2>3, <3>1
  <2>4. \/ running' = Start
        \/ /\ GoTo(FirstStep, 1)
           /\ observers' = Append(observers, Head(calls).req)
    BY <1>7 DEF StartGet, Done, Bridge!Subscribe
  <2>5. GoTo(FirstStep, 1) => running'.left = 1
    BY Going
  <2> QED BY <2>2, <2>3, <2>4, <2>5
<1>8. ASSUME StartStore \/ StartInit
      PROVE  /\ lost' <= after
             /\ Looping' => lost' + running'.left <= after + Len(observers')
  <2>1. lost' = lost /\ observers' = observers
    BY <1>8 DEF StartStore, StartInit, bridgeVars
  <2>2. running' = Start \/ GoTo("take", Len(observers))
    BY <1>8 DEF StartStore, StartInit, Done
  <2>3. CASE running' = Start
    BY <1>5, <2>1, <2>3, StartIsTyped
  <2>4. CASE GoTo("take", Len(observers))
    <3>1. running'.left = Len(observers)
      BY <2>4, Going
    <3> QED BY <1>1, <1>2, <1>3, <2>1, <3>1
  <2> QED BY <2>2, <2>3, <2>4
<1>9. ASSUME StartOther \/ WaitForPrivacy \/ Generate \/ LookForPrivacy
      PROVE  /\ lost' <= after
             /\ Looping' => lost' + running'.left <= after + Len(observers')
  <2>1. lost' = lost
    BY <1>9 DEF StartOther, WaitForPrivacy, Generate, LookForPrivacy
  <2>2. \/ running' = Start
        \/ GoTo("subscribe", 1) \/ GoTo("generate", 1)
    BY <1>9 DEF StartOther, WaitForPrivacy, Generate, LookForPrivacy, Done
  <2>3. \A step \in {"subscribe", "generate"} :
          GoTo(step, 1) => running'.step = step
    BY Going
  <2> QED BY <1>5, <2>1, <2>2, <2>3, StartIsTyped
<1>10. ASSUME Take
       PROVE  /\ lost' <= after
              /\ Looping' => lost' + running'.left <= after + Len(observers')
  <2>1. lost' = lost /\ running.step = "take" /\ Looping /\ ~ Hand
    BY <1>10 DEF Take, Running, Looping, Hand
  <2>2. CASE running'.step = "hand"
    <3>1. running'.left = running.left
      BY <1>10, <2>2, TakingIsTyped
    <3> QED BY <1>3, <1>6, <2>1, <3>1
  <2>3. CASE NextPass
    <3>1. running'.step # "start" => running'.left = running.left - 1
      BY <2>3, PassingIsTyped
    <3>2. CASE running'.step = "start"
      BY <1>5, <2>1, <3>2
    <3>3. CASE running'.left = running.left - 1
      BY <1>3, <1>6, <2>1, <3>3
    <3> QED BY <3>1, <3>2, <3>3
  <2> QED BY <1>10, <2>2, <2>3, TakingIsTyped
<1>11. ASSUME Hand
       PROVE  /\ lost' <= after
              /\ Looping' => lost' + running'.left <= after + Len(observers')
  <2>1. Looping /\ running.left >= 1 /\ NextPass
    BY <1>11 DEF Hand, Running, Looping, BlockIsInPlace
  <2>2. \/ running'.step = "start"
        \/ running'.left = running.left - 1
    BY <2>1, PassingIsTyped
  <2>3. \/ lost' = lost
        \/ observers = <<>> /\ lost' = lost + 1
    BY <1>11 DEF Hand
  <2>4. observers = <<>> => Len(observers) = 0
    BY ObserversAreFew
  <2>5. lost + running.left <= before + Len(observers)
    BY <1>2, <2>1
  <2>6. lost' <= after
    BY <1>1, <1>2, <1>3, <2>1, <2>3, <2>4, <2>5
  <2>7. CASE running'.left = running.left - 1
    <3>1. CASE lost' = lost
      BY <1>1, <1>3, <1>11, <2>5, <2>6, <2>7, <3>1
    <3>2. CASE observers = <<>> /\ lost' = lost + 1
      BY <1>1, <1>3, <2>5, <2>6, <2>7, <3>2
    <3> QED BY <2>3, <3>1, <3>2
  <2>8. CASE running'.step = "start"
    BY <2>6, <2>8 DEF Looping
  <2> QED BY <2>2, <2>7, <2>8
<1>12. ASSUME ~ (StartGet \/ StartStore \/ StartInit \/ StartOther),
              ~ (Take \/ Hand \/ LookForPrivacy \/ WaitForPrivacy \/ Generate)
       PROVE  /\ lost' <= after
              /\ Looping' => lost' + running'.left <= after + Len(observers')
  <2>1. running' = running
    BY <1>12, RunningKeeps
  <2>2. lost' = lost
    BY <1>12, LostChanges
  <2>3. Looping' <=> Looping
    BY <2>1 DEF Looping
  <2> QED BY <1>1, <1>2, <1>3, <1>12, <2>1, <2>2, <2>3
<1> QED BY <1>7, <1>8, <1>9, <1>10, <1>11, <1>12

-----------------------------------------------------------------------------
(***************************************************************************)
(* The inductive invariant holds.                                          *)
(***************************************************************************)
\* The switches of a process keep their types.
LEMMA StatusStep ==
  ASSUME TypeOK, [Next]_vars
  PROVE  /\ status' \in Status /\ privacy' \in {"unknown", "saved", "known"}
         /\ setup' = setup /\ setup \in Setups
<1>1. /\ status \in Status /\ privacy \in {"unknown", "saved", "known"}
      /\ setup \in Setups
  BY DEF TypeOK
<1>2. status' \in Status
  <2>1. CASE SetStatus
    BY <2>1 DEF SetStatus, Status
  <2>2. CASE UNCHANGED status
    BY <1>1, <2>2
  <2> QED BY <2>1, <2>2, AllSteps
          DEF vars, WebCall, SaveConfiguration, GetTokenNow, Ask, ScarStep,
              TimeOut, GiveUp, GiveUpPrivacy, StartGet, StartStore, StartInit,
              StartOther, Take, Hand, LookForPrivacy, WaitForPrivacy,
              Generate, SavePrivacy, TellPrivacy, FinishGeneration
<1>3. privacy' \in {"unknown", "saved", "known"}
  <2>1. CASE SavePrivacy \/ TellPrivacy
    BY <2>1 DEF SavePrivacy, TellPrivacy
  <2>2. CASE UNCHANGED privacy
    BY <1>1, <2>2
  <2> QED BY <2>1, <2>2, AllSteps
          DEF vars, WebCall, SaveConfiguration, GetTokenNow, Ask, ScarStep,
              TimeOut, GiveUp, GiveUpPrivacy, StartGet, StartStore, StartInit,
              StartOther, Take, Hand, LookForPrivacy, WaitForPrivacy,
              Generate, SetStatus, FinishGeneration
<1>4. setup' = setup
  BY AllSteps
  DEF vars, boundVars, WebCall, SaveConfiguration, SetStatus, GetTokenNow,
      Ask, ScarStep, TimeOut, GiveUp, GiveUpPrivacy, StartGet, StartStore,
      StartInit, StartOther, Take, Hand, LookForPrivacy, WaitForPrivacy,
      Generate, SavePrivacy, TellPrivacy, FinishGeneration
<1> QED BY <1>1, <1>2, <1>3, <1>4

LEMMA SwitchesStep ==
  ASSUME TypeOK, [Next]_vars
  PROVE  /\ peekMode' \in BOOLEAN /\ firstToken' \in BOOLEAN
         /\ queueCreated' \in BOOLEAN
<1>1. /\ peekMode \in BOOLEAN /\ firstToken \in BOOLEAN
      /\ queueCreated \in BOOLEAN
  BY DEF TypeOK
<1>2. peekMode' \in BOOLEAN
  <2>1. CASE StartOther
    BY <1>1, <2>1, HeadsAreTyped, CallTypes DEF StartOther, Running
  <2>2. CASE UNCHANGED peekMode
    BY <1>1, <2>2
  <2> QED BY <2>1, <2>2, AllSteps
          DEF vars, storageVars, WebCall, SaveConfiguration, SetStatus,
              GetTokenNow, Ask, ScarStep, TimeOut, GiveUp, GiveUpPrivacy,
              StartGet, StartStore, StartInit, Take, TakeToken, Hand,
              LookForPrivacy, WaitForPrivacy, Generate, SavePrivacy,
              TellPrivacy, FinishGeneration
<1>3. firstToken' \in BOOLEAN
  <2>1. CASE StartInit
    BY <2>1, HeadsAreTyped, CallTypes DEF StartInit, Running
  <2>2. CASE UNCHANGED firstToken
    BY <1>1, <2>2
  <2> QED BY <2>1, <2>2, AllSteps
          DEF vars, storageVars, WebCall, SaveConfiguration, SetStatus,
              GetTokenNow, Ask, ScarStep, TimeOut, GiveUp, GiveUpPrivacy,
              StartGet, StartStore, StartOther, Take, TakeToken, Hand,
              LookForPrivacy, WaitForPrivacy, Generate, SavePrivacy,
              TellPrivacy, FinishGeneration
<1>4. queueCreated' \in BOOLEAN
  <2>1. CASE StartInit \/ StartStore
    BY <2>1 DEF StartInit, StartStore
  <2>2. CASE UNCHANGED queueCreated
    BY <1>1, <2>2
  <2> QED BY <2>1, <2>2, AllSteps
          DEF vars, WebCall, SaveConfiguration, SetStatus,
              GetTokenNow, Ask, ScarStep, TimeOut, GiveUp, GiveUpPrivacy,
              StartGet, StartOther, Take, Hand,
              LookForPrivacy, WaitForPrivacy, Generate, SavePrivacy,
              TellPrivacy, FinishGeneration
<1> QED BY <1>2, <1>3, <1>4

\* The bounds are kept.
LEMMA BoundsStep ==
  ASSUME TypeOK, [Next]_vars
  PROVE  used' \in 0..setup'.calls /\ saved' \in BOOLEAN
<1>1. used \in 0..setup.calls /\ saved \in BOOLEAN /\ setup.calls \in Nat
  BY TokensAssumption DEF TypeOK
<1>2. setup' = setup
  BY StatusStep
<1>3. CASE WebCall
  <2>1. used < setup.calls /\ used' = used + 1 /\ saved' = saved
    BY <1>3 DEF WebCall
  <2>2. used' \in 0..setup.calls
    BY <1>1, <2>1
  <2> QED BY <1>1, <1>2, <2>1, <2>2
<1>4. CASE UNCHANGED used /\ saved' \in {saved, TRUE}
  BY <1>1, <1>2, <1>4
<1> QED BY <1>3, <1>4, AllSteps
    DEF vars, boundVars, SaveConfiguration, SetStatus, GetTokenNow,
        Ask, ScarStep, TimeOut, GiveUp, GiveUpPrivacy, StartGet, StartStore,
        StartInit, StartOther, Take, Hand, LookForPrivacy, WaitForPrivacy,
        Generate, SavePrivacy, TellPrivacy, FinishGeneration

LEMMA TypeStep ==
  ASSUME IInv, [Next]_vars
  PROVE  TypeOK'
<1>1. /\ TypeOK /\ BlockIsInPlace /\ RequestsComeOnce /\ ArmedObserversWait
      /\ ObserversHaveHeardNothing /\ GenerationsAreFew /\ TokensAreInOrder
      /\ TokensGoOutInOrder /\ LostAreOld /\ IdentifiersAgree
  BY DEF IInv
<1>2. /\ status' \in Status /\ privacy' \in {"unknown", "saved", "known"}
      /\ setup' \in Setups
  BY <1>1, StatusStep
<1>3. calls' \in Seq(Calls) /\ running' \in RunningTypes
  BY <1>1, UpcomingChanges, RunningStep
<1>4. /\ tokens' \in Seq(1..MaxTokens) /\ peeked' \subseteq 1..MaxTokens
      /\ {peekMode', firstToken'} \subseteq BOOLEAN /\ queueCreated' \in BOOLEAN
  BY <1>1, StoredChanges, SwitchesStep
<1>5. MediatorsTyped'
  BY <1>1, ObserversStep, PrivacyObserversStep DEF MediatorsTyped
<1>6. Bridge!MediatorTypeOK' /\ Privacy!MediatorTypeOK'
  BY <1>5, MediatorTypes
<1>7. generations' \in 0..(2 * Cardinality(Requests))
  BY <1>1, GenerationsStep, GenerationsCount, GenerationsAreBounded
<1>8. asked' \in Seq(Requests) /\ IsInjective(asked')
  BY <1>1, AskedGrows
<1>9. answers' \in [Requests -> Seq(Answers)]
  BY <1>1, ObserversStep
<1>10. lost' \in 0..MaxTokens /\ made' \in 0..MaxTokens
  BY <1>1, LostStep, MadeGrows
<1>11. used' \in 0..setup'.calls /\ saved' \in BOOLEAN
  BY <1>1, BoundsStep
<1>12. ScarTypeOK'
  BY <1>1, IdentifiersStep
<1> QED BY <1>2, <1>3, <1>4, <1>6, <1>7, <1>8, <1>9, <1>10, <1>11, <1>12
        DEF TypeOK, RunningTypes

\* What holds in the beginning.
LEMMA Beginning ==
  ASSUME Init
  PROVE  IInv
<1>1. /\ calls = <<>> /\ observers = <<>> /\ privacyObservers = <<>>
      /\ tokens = <<>> /\ asked = <<>> /\ firing = {} /\ privacyFiring = {}
      /\ armed = {} /\ privacyArmed = {} /\ peeked = {}
      /\ \A r \in Requests : answers[r] = <<>>
      /\ lost = 0 /\ made = 0 /\ used = 0 /\ generations = 0
      /\ running = Start /\ queueCreated = FALSE /\ firstToken = FALSE
      /\ peekMode = FALSE
  BY DEF Init, Bridge!MediatorInit, Privacy!MediatorInit
<1>2. /\ running.step = "start" /\ running \in RunningTypes
  BY <1>1, StartIsTyped
<1>3. Cardinality(Requests) \in Nat /\ MaxTokens \in Nat
  BY RequestsAssumption, TokensAssumption, FS_CardinalityType
<1>4. TypeOK
  <2>1. Bridge!MediatorTypeOK /\ Privacy!MediatorTypeOK
    BY <1>1 DEF Bridge!MediatorTypeOK, Privacy!MediatorTypeOK,
                Bridge!IsInjective, Privacy!IsInjective
  <2>2. answers \in [Requests -> Seq(Answers)]
    BY DEF Init
  <2>3. ScarTypeOK
    BY DEF Init, ScarInit, ScarTypeOK, Ids
  <2>4. used \in 0..setup.calls /\ setup \in Setups
    BY <1>1, TokensAssumption DEF Init
  <2>5. generations \in 0..(2 * Cardinality(Requests)) /\ lost \in 0..MaxTokens
        /\ made \in 0..MaxTokens
    BY <1>1, <1>3
  <2>6. /\ calls \in Seq(Calls) /\ tokens \in Seq(1..MaxTokens)
        /\ asked \in Seq(Requests) /\ peeked \subseteq 1..MaxTokens
    BY <1>1
  <2>8. IsInjective(asked)
    BY <1>1 DEF IsInjective
  <2>9. {peekMode, firstToken} \subseteq BOOLEAN /\ queueCreated \in BOOLEAN
    BY <1>1
  <2>7. status \in Status /\ privacy \in {"unknown", "saved", "known"}
        /\ saved \in BOOLEAN
    BY DEF Init, Status
  <2> QED BY <1>2, <2>1, <2>2, <2>3, <2>4, <2>5, <2>6, <2>7, <2>8, <2>9
          DEF TypeOK, RunningTypes
<1>5. DOMAIN Upcoming = {} /\ ~ Looping /\ ~ Generating /\ Stored = {}
      /\ ToSet(observers) = {} /\ ToSet(privacyObservers) = {}
  BY <1>1, <1>2 DEF Upcoming, Looping, Generating, Stored, ToSet
<1>6. BlockIsInPlace /\ ArmedObserversWait /\ ObserversHaveHeardNothing
  BY <1>1, <1>2, <1>5 DEF BlockIsInPlace, ArmedObserversWait,
                          ObserversHaveHeardNothing
<1>7. RequestsComeOnce
  BY <1>1, <1>2, <1>5 DEF RequestsComeOnce, Heard
<1>8. GenerationsAreFew
  <2>1. NotWaiting \in SUBSET Requests /\ NotTiming \in SUBSET Requests
    BY DEF NotWaiting, NotTiming, Past
  <2>2. Cardinality(NotWaiting) \in Nat /\ Cardinality(NotTiming) \in Nat
    BY <2>1, CountsGrow
  <2> QED BY <1>1, <1>5, <2>2 DEF GenerationsAreFew
<1>9. Coming = {}
  BY <1>5 DEF Coming
<1>10. TokensAreInOrder
  BY <1>1, <1>5, <1>9 DEF TokensAreInOrder, Rising
<1>11. TokensGoOutInOrder
  <2>1. \A r \in Requests : ToSet(answers[r]) = {}
    BY <1>1 DEF ToSet
  <2>2. \A t : ~ Handing(t)
    BY <1>2 DEF Handing
  <2> QED BY <2>1, <2>2 DEF TokensGoOutInOrder
<1>12. RequestsAreInOrder /\ OldTokensGoToOldRequests
  BY <1>1 DEF RequestsAreInOrder, Before, OldTokensGoToOldRequests
<1>13. LossesAreFew
  <2>1. ServedOtherwise \in SUBSET Requests
    BY DEF ServedOtherwise
  <2>2. Cardinality(ServedOtherwise) \in Nat
    BY <2>1, CountsGrow
  <2> QED BY <1>1, <1>5, <2>2 DEF LossesAreFew
<1>14. LostAreOld
  BY <1>1, <1>2, <1>5, <1>9 DEF LostAreOld
<1>15. NobodyWaitsInVain
  <2>1. Len(observers) = 0 /\ Len(privacyObservers) = 0
    BY <1>1
  <2> QED BY <1>1, <1>5, <2>1 DEF NobodyWaitsInVain
<1>16. IdentifiersAgree
  BY DEF Init, ScarInit, IdentifiersAgree
<1> QED BY <1>4, <1>6, <1>7, <1>8, <1>10, <1>11, <1>12, <1>13, <1>14, <1>15,
           <1>16 DEF IInv

LEMMA Induction ==
  ASSUME IInv, [Next]_vars
  PROVE  IInv'
<1>1. /\ TypeOK /\ BlockIsInPlace /\ RequestsComeOnce /\ ArmedObserversWait
      /\ ObserversHaveHeardNothing /\ GenerationsAreFew /\ TokensAreInOrder
      /\ TokensGoOutInOrder /\ RequestsAreInOrder /\ OldTokensGoToOldRequests
      /\ LossesAreFew /\ LostAreOld /\ NobodyWaitsInVain /\ IdentifiersAgree
  BY DEF IInv
<1>2. TypeOK' /\ BlockIsInPlace'
  BY <1>1, TypeStep, BlockStep
<1>3. RequestsComeOnce' /\ ArmedObserversWait' /\ ObserversHaveHeardNothing'
  BY <1>1, RequestsStep, ObserversStep
<1>4. GenerationsAreFew' /\ NobodyWaitsInVain'
  BY <1>1, GenerationsStep, WaitingStep
<1>5. TokensAreInOrder' /\ TokensGoOutInOrder'
  BY <1>1, TokensInOrderStep, GoingOutStep
<1>6. RequestsAreInOrder' /\ OldTokensGoToOldRequests'
  BY <1>1, OrderStep, OldTokensStep
<1>7. LossesAreFew' /\ LostAreOld' /\ IdentifiersAgree'
  BY <1>1, LossesStep, LostStep, IdentifiersStep
<1> QED BY <1>2, <1>3, <1>4, <1>5, <1>6, <1>7 DEF IInv

\* The inductive invariant holds in every reachable state.
THEOREM Invariance == Spec => []IInv
<1>1. Init => IInv
  BY Beginning
<1>2. IInv /\ [Next]_vars => IInv'
  BY Induction
<1> QED BY <1>1, <1>2, PTL DEF Spec

\* All variables keep their types: what is lost, generated and counted stays
\* within its bounds.
THEOREM TypeCorrect == Spec => []TypeOK
<1>1. IInv => TypeOK
  BY DEF IInv
<1> QED BY <1>1, Invariance, PTL

\* No token of the web application is dropped but for a request that was
\* answered otherwise, one for each.
THEOREM TokensAreLostForAReason == Spec => []LostTokensAreAccountedFor
<1>1. IInv => LostTokensAreAccountedFor
  BY DEF IInv, LossesAreFew, LostTokensAreAccountedFor
<1> QED BY <1>1, Invariance, PTL

\* Whoever waits while the serial queue is idle waits because there is no
\* token, or because its generation is still to come.
THEOREM NobodyWaitsWithoutReason == Spec => []WaitingIsForAReason
<1>1. IInv => WaitingIsForAReason
  <2> SUFFICES ASSUME IInv, calls = <<>>, observers # <<>>
               PROVE  IF queueCreated THEN tokens = <<>> /\ ~ firstToken
                      ELSE Len(observers) <= generations + Len(privacyObservers)
    BY DEF WaitingIsForAReason
  <2>1. running.step = "start"
    BY DEF IInv, BlockIsInPlace
  <2>2. NobodyWaitsInVain /\ TypeOK
    BY DEF IInv
  <2>3. CASE queueCreated
    BY <2>1, <2>2, <2>3 DEF NobodyWaitsInVain, Empty
  <2>4. CASE ~ queueCreated
    <3>1. ~ Generating
      BY <2>1 DEF Generating
    <3>2. Len(observers) <= generations + Len(privacyObservers) + 0
      BY <2>2, <2>4, <3>1 DEF NobodyWaitsInVain
    <3>3. generations \in Nat /\ Len(privacyObservers) \in Nat
      BY <2>2, ObserversAreFew DEF TypeOK
    <3> QED BY <2>4, <3>2, <3>3
  <2> QED BY <2>3, <2>4
<1> QED BY <1>1, Invariance, PTL

\* Requests are served in the order in which they were made, older tokens
\* first, and no token twice unless it was peeked at.
THEOREM RequestsAreServedInOrder == Spec => []OldTokensGoToOldRequests
<1>1. IInv => OldTokensGoToOldRequests
  BY DEF IInv
<1> QED BY <1>1, Invariance, PTL

\* The signals and the token of one request bear the same identifier.
THEOREM SignalsGoWithTheirToken == Spec => []SignalsMatchToken
<1>1. IInv => SignalsMatchToken
  BY DEF IInv, IdentifiersAgree, SignalsMatchToken
<1> QED BY <1>1, Invariance, PTL

-----------------------------------------------------------------------------
(***************************************************************************)
(* The readers implement TokenPromise.                                     *)
(***************************************************************************)
\* What the promise has of an answer, and of those of all requests.
Word(a) == IF a = None THEN "null" ELSE "token"
Said(s) == [i \in DOMAIN s |-> IF s[i] = None THEN "null" ELSE "token"]
ToldOf == [r \in Requests |-> [i \in DOMAIN answers[r] |->
             IF answers[r][i] = None THEN "null" ELSE "token"]]
Words == {"null", "token"}

\* The instance's names of the community modules' operators.
LEMMA PromiseNames ==
  /\ \A s, e : Promise!Contains(s, e) <=> Contains(s, e)
  /\ \A s, e : Promise!RemoveFirst(s, e) = RemoveFirst(s, e)
<1>1. \A s, e : Promise!Contains(s, e) <=> Contains(s, e)
  BY DEF Promise!Contains, Contains
<1> QED BY <1>1
    DEF Promise!RemoveFirst, RemoveFirst, Promise!SelectInSeq, SelectInSeq,
        Promise!RemoveAt, RemoveAt, Promise!Min, Min

LEMMA SayingMore ==
  ASSUME NEW s \in Seq(Answers), NEW a \in Answers
  PROVE  /\ Said(s) \in Seq(Words) /\ Len(Said(s)) = Len(s)
         /\ Said(Append(s, a)) = Append(Said(s), Word(a))
<1> DEFINE t == Append(s, a)
<1>1. /\ t \in Seq(Answers) /\ Len(s) \in Nat /\ Len(t) = Len(s) + 1
      /\ DOMAIN s = 1..Len(s) /\ DOMAIN t = 1..Len(s) + 1
      /\ \A i \in 1..Len(s) + 1 : t[i] = IF i <= Len(s) THEN s[i] ELSE a
  BY AppendElements
<1> HIDE DEF t
<1>2. Said(s) = [i \in 1..Len(s) |-> Word(s[i])]
      /\ Said(t) = [i \in 1..Len(s) + 1 |-> Word(t[i])]
  BY <1>1 DEF Said, Word
<1>3. \A x : Word(x) \in Words
  BY DEF Word, Words
<1>4. Said(s) \in Seq(Words) /\ Len(Said(s)) = Len(s)
  BY <1>1, <1>2, <1>3
<1>5. /\ Append(Said(s), Word(a)) \in Seq(Words)
      /\ DOMAIN Append(Said(s), Word(a)) = 1..Len(s) + 1
      /\ \A i \in 1..Len(s) + 1 : Append(Said(s), Word(a))[i] =
           IF i <= Len(s) THEN Said(s)[i] ELSE Word(a)
  BY <1>3, <1>4, AppendElements
<1>6. Append(Said(s), Word(a)) =
        [i \in 1..Len(s) + 1 |-> Append(Said(s), Word(a))[i]]
  <2>1. Append(Said(s), Word(a)) \in [1..Len(s) + 1 -> Words]
    <3>1. \A u \in Seq(Words) : u \in [1..Len(u) -> Words]
      OBVIOUS
    <3>2. Len(Append(Said(s), Word(a))) = Len(s) + 1
      BY <1>3, <1>4, AppendElements
    <3> QED BY <1>5, <3>1, <3>2
  <2> QED BY <2>1
<1>7. \A i \in 1..Len(s) + 1 : Append(Said(s), Word(a))[i] = Word(t[i])
  BY <1>1, <1>2, <1>5
<1>8. Said(t) = Append(Said(s), Word(a))
  BY <1>2, <1>6, <1>7
<1> QED BY <1>4, <1>8 DEF t

\* An answer is one more word for whom it is given to.
LEMMA TellingIsAbstract ==
  ASSUME TypeOK, NEW r \in Requests, NEW a \in Answers, Told(r, a)
  PROVE  /\ ToldOf' = [ToldOf EXCEPT ![r] = Append(@, Word(a))]
         /\ ToldOf[r] \in Seq(Words) /\ Len(ToldOf[r]) = Len(answers[r])
         /\ answers[r] = <<>> =>
              /\ ToldOf[r] = <<>>
              /\ ToldOf' = [ToldOf EXCEPT ![r] = <<Word(a)>>]
<1>1. answers \in [Requests -> Seq(Answers)]
  BY DEF TypeOK
<1>2. ToldOf = [q \in Requests |-> Said(answers[q])]
      /\ ToldOf' = [q \in Requests |-> Said(answers'[q])]
  BY DEF ToldOf, Said
<1>3. /\ answers'[r] = Append(answers[r], a)
      /\ \A q \in Requests \ {r} : answers'[q] = answers[q]
  BY Telling
<1>4. /\ ToldOf[r] \in Seq(Words) /\ Len(ToldOf[r]) = Len(answers[r])
      /\ Said(answers'[r]) = Append(ToldOf[r], Word(a))
  BY <1>1, <1>2, <1>3, SayingMore
<1>5. ToldOf' = [ToldOf EXCEPT ![r] = Append(@, Word(a))]
  BY <1>2, <1>3, <1>4
<1>6. ASSUME answers[r] = <<>>
      PROVE  ToldOf[r] = <<>> /\ Append(ToldOf[r], Word(a)) = <<Word(a)>>
  <2>1. Len(ToldOf[r]) = 0
    BY <1>4, <1>6
  <2>2. ToldOf[r] = <<>>
    BY <1>4, <2>1
  <2> QED BY <2>2
<1> QED BY <1>4, <1>5, <1>6

LEMMA InitIsAbstract ==
  Init => Promise!Init
<1> SUFFICES ASSUME Init PROVE Promise!Init
  OBVIOUS
<1>1. observers = <<>> /\ answers = [r \in Requests |-> <<>>]
  BY DEF Init, Bridge!MediatorInit
<1>2. \A r \in Requests : Said(answers[r]) = <<>>
  BY <1>1 DEF Said
<1>3. ToldOf = [r \in Requests |-> Said(answers[r])]
  BY DEF ToldOf, Said
<1>4. ToldOf = [r \in Requests |-> <<>>]
  BY <1>2, <1>3
<1> QED BY <1>1, <1>4 DEF Promise!Init, ToldOf

\* A step of the readers is one of the promise, or none.
LEMMA StepIsAbstract ==
  ASSUME IInv, [Next]_vars
  PROVE  Promise!Next \/ (observers' = observers /\ ToldOf' = ToldOf)
<1>1. /\ TypeOK /\ BlockIsInPlace /\ RequestsComeOnce
      /\ ObserversHaveHeardNothing
  BY DEF IInv
<1>2. None \in Answers /\ Native \in Answers /\ Web(running.token) \in Answers
      /\ Word(None) = "null" /\ \A a : Word(a) \in {"token", "null"}
  BY <1>1, AnswerTypes DEF Word
<1>3. observers \in Seq(Requests) /\ answers \in [Requests -> Seq(Answers)]
  BY <1>1, MediatorTypes DEF MediatorsTyped, TypeOK
<1>4. \A r : r \in ToSet(observers) <=> Contains(observers, r)
  BY <1>3, ElementsOf
<1>5. CASE UNCHANGED <<observers, answers>>
  BY <1>5 DEF ToldOf
<1>6. ASSUME StartGet, ObserverJoins(Head(calls).req)
      PROVE  Promise!Next
  <2>1. PICK r \in Requests : r = Head(calls).req
    BY <1>1, <1>6, NewcomerIsUnheard
  <2>2. answers[r] = <<>> /\ ~ Contains(observers, r)
    BY <1>1, <1>4, <1>6, <2>1, NewcomerIsUnheard DEF Heard
  <2>3. ToldOf[r] = <<>>
    BY <2>2 DEF ToldOf
  <2>4. observers' = Append(observers, r) /\ ToldOf' = ToldOf
    BY <1>6, <2>1 DEF ObserverJoins, ToldOf
  <2>5. Promise!Wait(r)
    BY <2>2, <2>3, <2>4, PromiseNames DEF Promise!Wait, ToldOf
  <2> QED BY <2>5 DEF Promise!Next
<1>7. ASSUME StartGet, Told(Head(calls).req, None), UNCHANGED bridgeVars
      PROVE  Promise!Next
  <2>1. PICK r \in Requests : r = Head(calls).req
    BY <1>1, <1>7, NewcomerIsUnheard
  <2>2. answers[r] = <<>> /\ ~ Contains(observers, r)
    BY <1>1, <1>4, <1>7, <2>1, NewcomerIsUnheard DEF Heard
  <2>3. ToldOf[r] = <<>> /\ ToldOf' = [ToldOf EXCEPT ![r] = <<"null">>]
    BY <1>1, <1>2, <1>7, <2>1, <2>2, TellingIsAbstract
  <2>4. Promise!Refuse(r)
    BY <1>7, <2>2, <2>3, PromiseNames
       DEF Promise!Refuse, Promise!Nothing, ToldOf, bridgeVars
  <2> QED BY <2>4 DEF Promise!Next
<1>8. ASSUME NEW a \in Answers, ObserverServed(a)
      PROVE  Promise!Next
  <2>1. PICK r \in Requests : r = Head(observers) /\ r \in ToSet(observers)
    BY <1>1, <1>8, ObserverLeaving DEF ObserverServed
  <2>2. answers[r] = <<>>
    BY <1>1, <2>1 DEF ObserversHaveHeardNothing
  <2>3. ToldOf' = [ToldOf EXCEPT ![r] = <<Word(a)>>]
    BY <1>1, <1>8, <2>1, <2>2, TellingIsAbstract DEF ObserverServed
  <2>4. Promise!Serve
    BY <1>2, <1>8, <2>1, <2>3
       DEF Promise!Serve, Promise!Nothing, ToldOf, ObserverServed
  <2> QED BY <2>4 DEF Promise!Next
<1>9. ASSUME NEW r \in Requests, ObserverGivesUp(r)
      PROVE  Promise!Next
  <2>1. CASE r \in ToSet(observers)
    <3>1. answers[r] = <<>>
      BY <1>1, <2>1 DEF ObserversHaveHeardNothing
    <3>2. ToldOf' = [ToldOf EXCEPT ![r] = <<"null">>]
      BY <1>1, <1>2, <1>9, <3>1, TellingIsAbstract DEF ObserverGivesUp
    <3>3. Promise!GiveUp(r)
      BY <1>4, <1>9, <2>1, <3>2, PromiseNames
         DEF Promise!GiveUp, Promise!Nothing, ToldOf, ObserverGivesUp
    <3> QED BY <3>3 DEF Promise!Next
  <2>2. CASE r \notin ToSet(observers)
    <3>1. Len(answers[r]) = 1
      BY <1>1, <1>9, <2>2 DEF ObserversHaveHeardNothing, ObserverGivesUp
    <3>2. /\ ToldOf' = [ToldOf EXCEPT ![r] = Append(@, "null")]
          /\ Len(ToldOf[r]) = 1
      BY <1>1, <1>2, <1>9, <3>1, TellingIsAbstract DEF ObserverGivesUp
    <3>3. observers' = observers
      BY <1>1, <1>3, <1>9, <2>2, MediatorTypes, RemoveDistinct
         DEF ObserverGivesUp, MediatorsTyped
    <3>4. Promise!GiveUpLate(r)
      BY <1>4, <2>2, <3>2, <3>3, PromiseNames
         DEF Promise!GiveUpLate, Promise!Nothing, ToldOf
    <3> QED BY <3>4 DEF Promise!Next
  <2> QED BY <2>1, <2>2
<1> QED BY <1>1, <1>2, <1>5, <1>6, <1>7, <1>8, <1>9, BridgeChanges
        DEF ObserverTimesOut

\* The chain of readers keeps the promise: an observer is told once, in its
\* turn, unless its timeout was already being handled; then the second answer
\* is none.
THEOREM ImplementsTokenPromise == Spec => IsTokenPromise
<1>1. IInv /\ [Next]_vars => [Promise!Next]_<<observers, ToldOf>>
  BY StepIsAbstract
<1>2. IInv /\ [Next]_vars =>
        [Promise!Next]_<<observers,
           [r \in Requests |->
             [i \in DOMAIN answers[r] |->
               IF answers[r][i] = None THEN "null" ELSE "token"]]>>
  BY <1>1 DEF ToldOf
<1> QED BY InitIsAbstract, Invariance, <1>2, PTL
        DEF Spec, IsTokenPromise, Promise!Spec
=============================================================================
