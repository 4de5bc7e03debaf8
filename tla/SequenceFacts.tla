--------------------------- MODULE SequenceFacts ---------------------------
(***************************************************************************)
(* Facts about sequences that the proofs of several components need: what  *)
(* a queue holds once an element has joined it or its first one has left.  *)
(***************************************************************************)
EXTENDS Naturals, Sequences, TLAPS

\* What Append leaves in its place and what it adds.
LEMMA AppendElements ==
  ASSUME NEW S, NEW s \in Seq(S), NEW e \in S
  PROVE  /\ Append(s, e) \in Seq(S)
         /\ Len(s) \in Nat
         /\ Len(Append(s, e)) = Len(s) + 1
         /\ DOMAIN s = 1..Len(s)
         /\ DOMAIN Append(s, e) = 1..Len(s) + 1
         /\ \A i \in 1..Len(s) + 1 :
              Append(s, e)[i] = IF i <= Len(s) THEN s[i] ELSE e
OBVIOUS

\* What is left once the head is gone, and the head itself.
LEMMA TailElements ==
  ASSUME NEW S, NEW s \in Seq(S), s # <<>>
  PROVE  /\ Tail(s) \in Seq(S)
         /\ Len(s) \in Nat \ {0}
         /\ Len(Tail(s)) = Len(s) - 1
         /\ DOMAIN s = 1..Len(s)
         /\ DOMAIN Tail(s) = 1..Len(s) - 1
         /\ \A i \in 1..Len(s) - 1 : Tail(s)[i] = s[i + 1]
         /\ Head(s) = s[1] /\ Head(s) \in S
OBVIOUS

\* A sequence that repeats one element.
LEMMA RepeatElements ==
  ASSUME NEW S, NEW e \in S, NEW n \in Nat
  PROVE  /\ [i \in 1..n |-> e] \in Seq(S)
         /\ Len([i \in 1..n |-> e]) = n
OBVIOUS

\* A sequence behind another.
LEMMA ConcatElements ==
  ASSUME NEW S, NEW s \in Seq(S), NEW t \in Seq(S)
  PROVE  /\ s \o t \in Seq(S)
         /\ Len(s) \in Nat /\ Len(t) \in Nat
         /\ Len(s \o t) = Len(s) + Len(t)
         /\ DOMAIN s = 1..Len(s)
         /\ DOMAIN (s \o t) = 1..Len(s) + Len(t)
         /\ \A i \in 1..Len(s) + Len(t) :
              (s \o t)[i] = IF i <= Len(s) THEN s[i] ELSE t[i - Len(s)]
OBVIOUS

(***************************************************************************)
(* Where the elements of a changed sequence come from.                     *)
(***************************************************************************)
LEMMA AppendedFrom ==
  ASSUME NEW S, NEW s \in Seq(S), NEW e \in S,
         NEW i \in DOMAIN Append(s, e)
  PROVE  \/ i \in DOMAIN s /\ Append(s, e)[i] = s[i]
         \/ i = Len(s) + 1 /\ i \notin DOMAIN s /\ Append(s, e)[i] = e
BY AppendElements

LEMMA TailFrom ==
  ASSUME NEW S, NEW s \in Seq(S), s # <<>>, NEW i \in DOMAIN Tail(s)
  PROVE  i + 1 \in DOMAIN s /\ Tail(s)[i] = s[i + 1] /\ i \in Nat
BY TailElements

\* The element that joins a sequence is in it.
LEMMA AppendHasLast ==
  ASSUME NEW S, NEW s \in Seq(S), NEW e \in S
  PROVE  /\ Append(s, e) # <<>>
         /\ \E i \in DOMAIN Append(s, e) : Append(s, e)[i] = e
         /\ \A j \in DOMAIN s : /\ j \in DOMAIN Append(s, e)
                                /\ Append(s, e)[j] = s[j]
<1>1. Len(s) + 1 \in DOMAIN Append(s, e) /\ Append(s, e)[Len(s) + 1] = e
  BY AppendElements
<1>2. \A j \in DOMAIN s : j \in DOMAIN Append(s, e) /\ Append(s, e)[j] = s[j]
  BY AppendElements
<1>3. Append(s, e) # <<>>
  <2>1. Len(Append(s, e)) # Len(<<>>)
    BY AppendElements
  <2> QED BY <2>1
<1> QED BY <1>1, <1>2, <1>3

\* An element is the head or stays when the head has left.
LEMMA TailKeeps ==
  ASSUME NEW S, NEW s \in Seq(S), s # <<>>,
         NEW i \in DOMAIN s, s[i] # Head(s)
  PROVE  \E j \in DOMAIN Tail(s) : Tail(s)[j] = s[i]
<1>1. Head(s) = s[1] /\ DOMAIN s = 1..Len(s) /\ Len(s) \in Nat
  BY TailElements
<1>2. i - 1 \in DOMAIN Tail(s) /\ Tail(s)[i - 1] = s[i]
  BY <1>1, TailElements
<1> QED BY <1>2
=============================================================================
