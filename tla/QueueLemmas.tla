---------------------------- MODULE QueueLemmas ----------------------------
(***************************************************************************)
(* What taking an index from the front of one queue and pushing it at the  *)
(* back of another does to the ranges of the two: the facts about Head,    *)
(* Tail and Append that every proof about a pool of indices needs.         *)
(***************************************************************************)
EXTENDS SequenceTheorems, TLAPS

\* pop() of a queue without duplicates: the element popped is gone from it,
\* and nothing else is.
LEMMA PopFacts ==
    ASSUME NEW S, NEW s \in Seq(S), s # <<>>
    PROVE  /\ Head(s) \in S
           /\ Head(s) \in Range(s)
           /\ Tail(s) \in Seq(S)
           /\ Range(s) = Range(Tail(s)) \cup {Head(s)}
           /\ IsInjective(s) => IsInjective(Tail(s)) /\ Head(s) \notin Range(Tail(s))
<1>1. /\ Head(s) \in S
      /\ Tail(s) \in Seq(S)
      /\ DOMAIN Tail(s) = 1 .. Len(s) - 1
      /\ \A i \in 1 .. Len(s) - 1 : Tail(s)[i] = s[i + 1]
      /\ Len(s) \in Nat \ {0}
      /\ DOMAIN s = 1 .. Len(s)
      /\ Head(s) = s[1]
    OBVIOUS
<1>2. IsInjective(s) => IsInjective(Tail(s)) /\ Head(s) \notin Range(Tail(s))
    BY <1>1 DEF IsInjective, Range
<1>3. Range(s) \subseteq Range(Tail(s)) \cup {Head(s)}
    <2> SUFFICES ASSUME NEW i \in 1 .. Len(s), i # 1
                 PROVE  s[i] \in Range(Tail(s))
        BY <1>1 DEF Range
    <2>1. i - 1 \in DOMAIN Tail(s) /\ Tail(s)[i - 1] = s[i]
        BY <1>1
    <2> QED BY <2>1 DEF Range
<1>4. Range(Tail(s)) \cup {Head(s)} \subseteq Range(s)
    BY <1>1 DEF Range
<1> QED BY <1>1, <1>2, <1>3, <1>4

\* push() of an element: it is added to the queue, which has no duplicates if it
\* had none and the element is new to it.
LEMMA PushFacts ==
    ASSUME NEW S, NEW s \in Seq(S), NEW x \in S
    PROVE  /\ Append(s, x) \in Seq(S)
           /\ Range(Append(s, x)) = Range(s) \cup {x}
           /\ IsInjective(s) /\ x \notin Range(s) => IsInjective(Append(s, x))
<1>1. /\ Append(s, x) \in Seq(S)
      /\ DOMAIN Append(s, x) = 1 .. Len(s) + 1
      /\ \A i \in 1 .. Len(s) : Append(s, x)[i] = s[i]
      /\ Append(s, x)[Len(s) + 1] = x
      /\ Len(s) \in Nat
      /\ DOMAIN s = 1 .. Len(s)
    OBVIOUS
<1>2. IsInjective(s) /\ x \notin Range(s) => IsInjective(Append(s, x))
    BY <1>1 DEF IsInjective, Range
<1>3. Range(Append(s, x)) = Range(s) \cup {x}
    BY <1>1 DEF Range
<1> QED BY <1>1, <1>2, <1>3

\* Adding a result to the second of two lists adds it to the two in a row.
LEMMA AppendToConcat ==
    ASSUME NEW S, NEW s \in Seq(S), NEW t \in Seq(S), NEW x \in S
    PROVE  /\ s \o t \in Seq(S)
           /\ s \o Append(t, x) = Append(s \o t, x)
<1>1. s \o t \in Seq(S) /\ Append(t, x) \in Seq(S)
    OBVIOUS
<1>2. s \o Append(t, x) \in Seq(S) /\ Append(s \o t, x) \in Seq(S)
    BY <1>1
<1>3. /\ Len(s \o Append(t, x)) = Len(Append(s \o t, x))
      /\ \A i \in 1 .. Len(s \o Append(t, x)) :
             (s \o Append(t, x))[i] = Append(s \o t, x)[i]
    BY <1>1
<1> QED BY <1>2, <1>3, SeqEqual

\* An empty queue holds nothing, and nothing twice.
LEMMA EmptyFacts == Range(<<>>) = {} /\ IsInjective(<<>>)
    BY DEF Range, IsInjective

=============================================================================
