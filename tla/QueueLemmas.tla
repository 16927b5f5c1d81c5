---------------------------- MODULE QueueLemmas ----------------------------
(***************************************************************************)
(* Sequences without repetition, used as queues: the elements that are     *)
(* left when one is appended, taken off the head or taken out.             *)
(***************************************************************************)
EXTENDS Integers, Sequences, SequencesExt, SequenceTheorems, TLAPS

\* Taking the head off a sequence without repetition.
LEMMA TailElements ==
  ASSUME NEW S, NEW q \in Seq(S), q # <<>>, IsInjective(q)
  PROVE  IsInjective(Tail(q)) /\ Range(Tail(q)) = Range(q) \ {Head(q)}
  <1>1. /\ Len(q) \in Nat /\ Len(q) > 0
        /\ DOMAIN q = 1 .. Len(q) /\ Head(q) = q[1]
        /\ DOMAIN Tail(q) = 1 .. Len(q) - 1
        /\ \A i \in 1 .. Len(q) - 1 : Tail(q)[i] = q[i + 1]
    BY HeadTailProperties, LenProperties, EmptySeq
  <1>2. \A i \in 1 .. Len(q) - 1 : i + 1 \in 1 .. Len(q)
    BY <1>1
  <1>3. IsInjective(Tail(q))
    BY <1>1, <1>2 DEF IsInjective
  <1>4. Range(Tail(q)) \subseteq Range(q) \ {Head(q)}
    BY <1>1, <1>2 DEF IsInjective, Range
  <1>5. \A j \in 1 .. Len(q) : j # 1 => j - 1 \in 1 .. Len(q) - 1 /\ (j - 1) + 1 = j
    BY <1>1
  <1>6. Range(q) \ {Head(q)} \subseteq Range(Tail(q))
    <2> SUFFICES ASSUME NEW j \in 1 .. Len(q), q[j] # q[1]
                 PROVE  q[j] \in Range(Tail(q))
      BY <1>1 DEF Range
    <2>1. j - 1 \in 1 .. Len(q) - 1 /\ Tail(q)[j - 1] = q[j]
      BY <1>1, <1>5
    <2> QED
      BY <1>1, <2>1 DEF Range
  <1> QED
    BY <1>3, <1>4, <1>6

\* Taking the k-th element out.
LEMMA RemoveAtElements ==
  ASSUME NEW S, NEW q \in Seq(S), NEW k \in DOMAIN q, IsInjective(q)
  PROVE  LET s == SubSeq(q, 1, k - 1) \o SubSeq(q, k + 1, Len(q))
         IN  IsInjective(s) /\ Range(s) = Range(q) \ {q[k]}
  <1> DEFINE n == Len(q)
             a == SubSeq(q, 1, k - 1)
             b == SubSeq(q, k + 1, n)
             s == a \o b
  <1>1. /\ n \in Nat /\ k \in 1 .. n /\ DOMAIN q = 1 .. n
        /\ \A i \in 1 .. n : q[i] \in S
    BY LenProperties, ElementOfSeq
  <1> HIDE DEF n
  <1>2. /\ a \in Seq(S) /\ Len(a) = k - 1
        /\ \A i \in 1 .. k - 1 : a[i] = q[i]
    <2>1. \A i \in 1 .. k - 1 : q[i] \in S
      BY <1>1
    <2>2. /\ a \in Seq(S)
          /\ Len(a) = IF 1 <= k - 1 THEN (k - 1) - 1 + 1 ELSE 0
          /\ \A i \in 1 .. (k - 1) - 1 + 1 : a[i] = q[1 + i - 1]
      BY <1>1, <2>1, SubSeqProperties
    <2> QED
      BY <1>1, <2>2
  <1>3. /\ b \in Seq(S) /\ Len(b) = n - k
        /\ \A i \in 1 .. n - k : b[i] = q[k + i]
    <2>1. \A i \in k + 1 .. n : q[i] \in S
      BY <1>1
    <2>2. /\ b \in Seq(S)
          /\ Len(b) = IF k + 1 <= n THEN n - (k + 1) + 1 ELSE 0
          /\ \A i \in 1 .. n - (k + 1) + 1 : b[i] = q[(k + 1) + i - 1]
      BY <1>1, <2>1, SubSeqProperties
    <2> QED
      BY <1>1, <2>2
  <1> HIDE DEF a, b
  <1>4. /\ s \in Seq(S) /\ Len(s) = n - 1
        /\ \A i \in 1 .. n - 1 : s[i] = IF i < k THEN q[i] ELSE q[i + 1]
    <2>1. /\ s \in Seq(S) /\ Len(s) = Len(a) + Len(b)
          /\ \A i \in 1 .. Len(a) + Len(b) :
               s[i] = IF i <= Len(a) THEN a[i] ELSE b[i - Len(a)]
      BY <1>2, <1>3, ConcatProperties
    <2> HIDE DEF s
    <2>2. ASSUME NEW i \in 1 .. n - 1
          PROVE  s[i] = IF i < k THEN q[i] ELSE q[i + 1]
      <3>1. CASE i < k
        BY <1>1, <1>2, <1>3, <2>1, <3>1
      <3>2. CASE i >= k
        <4>1. i - (k - 1) \in 1 .. n - k /\ k + (i - (k - 1)) = i + 1
          BY <1>1, <3>2
        <4>2. b[i - (k - 1)] = q[i + 1]
          BY <1>3, <4>1
        <4>3. i \in 1 .. Len(a) + Len(b) /\ ~(i <= Len(a))
          BY <1>1, <1>2, <1>3, <3>2
        <4>4. s[i] = b[i - (k - 1)]
          BY <1>2, <2>1, <4>3
        <4> QED
          BY <1>1, <3>2, <4>2, <4>4
      <3> QED
        BY <1>1, <3>1, <3>2
    <2> QED
      BY <1>1, <1>2, <1>3, <2>1, <2>2
  <1> HIDE DEF s
  <1>5. DOMAIN s = 1 .. n - 1
    BY <1>4, LenProperties
  <1>6. ASSUME NEW i \in 1 .. n - 1
        PROVE  \E j \in 1 .. n : j # k /\ s[i] = q[j] /\ j = IF i < k THEN i ELSE i + 1
    BY <1>1, <1>4
  <1>7. IsInjective(s)
    BY <1>1, <1>5, <1>6 DEF IsInjective
  <1>8. Range(s) \subseteq Range(q) \ {q[k]}
    BY <1>1, <1>5, <1>6 DEF IsInjective, Range
  <1>9. Range(q) \ {q[k]} \subseteq Range(s)
    <2> SUFFICES ASSUME NEW j \in 1 .. n, q[j] # q[k] PROVE q[j] \in Range(s)
      BY <1>1 DEF Range
    <2>1. CASE j < k
      <3>1. j \in 1 .. n - 1 /\ s[j] = q[j]
        BY <1>1, <1>4, <2>1
      <3> QED
        BY <1>5, <3>1 DEF Range
    <2>2. CASE j > k
      <3>1. j - 1 \in 1 .. n - 1 /\ s[j - 1] = q[j]
        BY <1>1, <1>4, <2>2
      <3> QED
        BY <1>5, <3>1 DEF Range
    <2> QED
      BY <1>1, <2>1, <2>2
  <1> QED
    BY <1>7, <1>8, <1>9 DEF s, a, b, n

\* Appending an element that is not there yet.
LEMMA AppendElements ==
  ASSUME NEW S, NEW q \in Seq(S), NEW e \in S, e \notin Range(q), IsInjective(q)
  PROVE  IsInjective(Append(q, e)) /\ Range(Append(q, e)) = Range(q) \cup {e}
  <1> DEFINE n == Len(q)
             s == Append(q, e)
  <1>1. /\ n \in Nat /\ DOMAIN q = 1 .. n /\ DOMAIN s = 1 .. n + 1
        /\ s[n + 1] = e
        /\ \A i \in 1 .. n : s[i] = q[i]
    BY AppendProperties, LenProperties
  <1> HIDE DEF n, s
  <1>2. \A i \in 1 .. n + 1 : i \in 1 .. n \/ i = n + 1
    BY <1>1
  <1>3. IsInjective(s)
    BY <1>1, <1>2 DEF IsInjective, Range
  <1>4. Range(s) = Range(q) \cup {e}
    <2>1. Range(s) \subseteq Range(q) \cup {e}
      BY <1>1, <1>2 DEF Range
    <2>2. \A i \in 1 .. n : i \in 1 .. n + 1
      BY <1>1
    <2>3. n + 1 \in 1 .. n + 1
      BY <1>1
    <2>4. Range(q) \cup {e} \subseteq Range(s)
      BY <1>1, <2>2, <2>3 DEF Range
    <2> QED
      BY <2>1, <2>4
  <1> QED
    BY <1>3, <1>4 DEF s

=============================================================================
