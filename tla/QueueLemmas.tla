---------------------------- MODULE QueueLemmas -----------------------------
(***************************************************************************)
(* What the proofs about the kernel's services share: queues without       *)
(* repetition, families of queues that no process is on twice, the moves   *)
(* that scheduler.c makes between them, and the least natural number of a  *)
(* set, which stands in for induction.                                     *)
(***************************************************************************)
EXTENDS RunQueue, SequencesExt, FiniteSetTheorems, SequenceTheorems,
        WellFoundedInduction, TLAPS
-----------------------------------------------------------------------------
(* Numbers *)

\* A set of natural numbers has a least one.  A predicate that fails
\* somewhere fails somewhere first: this is the induction the proofs use.
LEMMA LeastNat ==
  ASSUME NEW T \in SUBSET Nat, T # {}
  PROVE  \E n \in T : \A m \in T : n <= m
<1> DEFINE R == {ss \in Nat \X Nat : ss[1] < ss[2]}
<1>1. IsWellFoundedOn(R, Nat)
  BY NatLessThanWellFounded, Zenon DEF OpToRel
<1>2. \A m, n \in Nat : m < n => <<m, n>> \in R
  OBVIOUS
<1> HIDE DEF R
<1>3. PICK n \in T : \A m \in T : ~(<<m, n>> \in R)
  BY <1>1, WFMin
<1>4. ASSUME NEW m \in T PROVE n <= m
  <2>1. m \in Nat /\ n \in Nat
    OBVIOUS
  <2>2. ~(m < n)
    BY <1>2, <1>3, <2>1, Zenon
  <2> QED BY <2>1, <2>2
<1> QED BY <1>4
-----------------------------------------------------------------------------
(* Sequences without repetition *)

\* A function from 1..n is a sequence.
LEMMA FunctionIsSeq ==
  ASSUME NEW S, NEW n \in Nat, NEW f \in [1..n -> S]
  PROVE  f \in Seq(S) /\ Len(f) = n
OBVIOUS

\* The members of a queue to which a process was added.
LEMMA AppendFacts ==
  ASSUME NEW S, NEW s \in Seq(S), NEW x \in S
  PROVE  /\ Append(s, x) \in Seq(S)
         /\ Range(Append(s, x)) = Range(s) \union {x}
         /\ IsInjective(s) /\ x \notin Range(s) => IsInjective(Append(s, x))
<1>1. /\ DOMAIN Append(s, x) = 1..(Len(s) + 1)
      /\ \A i \in 1..Len(s) : Append(s, x)[i] = s[i]
      /\ Append(s, x)[Len(s) + 1] = x
      /\ DOMAIN s = 1..Len(s) /\ Len(s) \in Nat
  OBVIOUS
<1>2. Range(Append(s, x)) = Range(s) \union {x}
  <2>1. ASSUME NEW y \in Range(s) PROVE y \in Range(Append(s, x))
    BY <1>1, <2>1 DEF Range
  <2>2. x \in Range(Append(s, x))
    BY <1>1 DEF Range
  <2>3. ASSUME NEW y \in Range(Append(s, x)) PROVE y \in Range(s) \union {x}
    <3>1. PICK i \in 1..(Len(s) + 1) : y = Append(s, x)[i]
      BY <1>1, <2>3 DEF Range
    <3>2. CASE i = Len(s) + 1
      BY <1>1, <3>1, <3>2
    <3>3. CASE i \in 1..Len(s)
      BY <1>1, <3>1, <3>3 DEF Range
    <3> QED BY <1>1, <3>2, <3>3
  <2> QED BY <2>1, <2>2, <2>3
<1>3. ASSUME IsInjective(s), x \notin Range(s) PROVE IsInjective(Append(s, x))
  <2> SUFFICES ASSUME NEW a \in 1..(Len(s) + 1), NEW b \in 1..(Len(s) + 1),
                      Append(s, x)[a] = Append(s, x)[b]
               PROVE  a = b
    BY <1>1 DEF IsInjective
  <2>1. \A i \in 1..Len(s) : s[i] # x
    BY <1>1, <1>3 DEF Range
  <2> QED BY <1>1, <1>3, <2>1 DEF IsInjective
<1> QED BY <1>2, <1>3

\* The members of a queue from which get_next_process took the first.
LEMMA TailFacts ==
  ASSUME NEW S, NEW s \in Seq(S), s # <<>>
  PROVE  /\ Head(s) \in S /\ Tail(s) \in Seq(S)
         /\ Range(s) = Range(Tail(s)) \union {Head(s)}
         /\ IsInjective(s) => IsInjective(Tail(s)) /\ Head(s) \notin Range(Tail(s))
<1>1. /\ Len(s) \in Nat \ {0} /\ DOMAIN s = 1..Len(s)
      /\ Head(s) = s[1]
      /\ DOMAIN Tail(s) = 1..(Len(s) - 1)
      /\ \A i \in 1..(Len(s) - 1) : Tail(s)[i] = s[i + 1]
  OBVIOUS
<1>2. Head(s) \in S /\ Tail(s) \in Seq(S)
  OBVIOUS
<1>3. Head(s) \in Range(s)
  BY <1>1 DEF Range
<1>4. Range(Tail(s)) \subseteq Range(s)
  BY <1>1 DEF Range
<1>5. ASSUME NEW y \in Range(s), y # Head(s) PROVE y \in Range(Tail(s))
  <2>1. PICK i \in 1..Len(s) : y = s[i]
    BY <1>1, <1>5 DEF Range
  <2>2. i - 1 \in 1..(Len(s) - 1) /\ y = Tail(s)[i - 1]
    BY <1>1, <1>5, <2>1
  <2> QED BY <1>1, <2>2 DEF Range
<1>6. ASSUME IsInjective(s) PROVE IsInjective(Tail(s)) /\ Head(s) \notin Range(Tail(s))
  <2>1. IsInjective(Tail(s))
    BY <1>1, <1>6 DEF IsInjective
  <2>2. \A i \in 1..(Len(s) - 1) : Tail(s)[i] # s[1]
    BY <1>1, <1>6 DEF IsInjective
  <2>3. Head(s) \notin Range(Tail(s))
    BY <1>1, <2>2 DEF Range
  <2> QED BY <2>1, <2>3
<1> QED BY <1>2, <1>3, <1>4, <1>5, <1>6

\* The members of a queue that another was added to.
LEMMA ConcatFacts ==
  ASSUME NEW S, NEW s \in Seq(S), NEW t \in Seq(S)
  PROVE  /\ s \o t \in Seq(S)
         /\ Range(s \o t) = Range(s) \union Range(t)
         /\ IsInjective(s) /\ IsInjective(t) /\ Range(s) \intersect Range(t) = {}
              => IsInjective(s \o t)
<1>1. /\ DOMAIN (s \o t) = 1..(Len(s) + Len(t))
      /\ \A i \in 1..Len(s) : (s \o t)[i] = s[i]
      /\ \A i \in 1..Len(t) : (s \o t)[Len(s) + i] = t[i]
      /\ DOMAIN s = 1..Len(s) /\ Len(s) \in Nat
      /\ DOMAIN t = 1..Len(t) /\ Len(t) \in Nat
      /\ s \o t \in Seq(S)
  OBVIOUS
<1>r. \A i \in 1..(Len(s) + Len(t)) : i \in 1..Len(s) \/ i - Len(s) \in 1..Len(t)
  BY <1>1
<1>e. \A i \in 1..(Len(s) + Len(t)) : i \notin 1..Len(s) => (s \o t)[i] = t[i - Len(s)]
  BY <1>1, <1>r
<1>2. Range(s \o t) = Range(s) \union Range(t)
  <2>1. ASSUME NEW y \in Range(s) PROVE y \in Range(s \o t)
    BY <1>1, <2>1 DEF Range
  <2>2. ASSUME NEW y \in Range(t) PROVE y \in Range(s \o t)
    <3>1. PICK i \in 1..Len(t) : y = t[i]
      BY <1>1, <2>2 DEF Range
    <3>2. Len(s) + i \in 1..(Len(s) + Len(t)) /\ y = (s \o t)[Len(s) + i]
      BY <1>1, <3>1
    <3> QED BY <1>1, <3>2 DEF Range
  <2>3. ASSUME NEW y \in Range(s \o t) PROVE y \in Range(s) \union Range(t)
    BY <1>1, <1>r, <1>e, <2>3 DEF Range
  <2> QED BY <2>1, <2>2, <2>3
<1>3. ASSUME IsInjective(s), IsInjective(t), Range(s) \intersect Range(t) = {}
      PROVE  IsInjective(s \o t)
  <2> SUFFICES ASSUME NEW a \in 1..(Len(s) + Len(t)), NEW b \in 1..(Len(s) + Len(t)),
                      (s \o t)[a] = (s \o t)[b]
               PROVE  a = b
    BY <1>1 DEF IsInjective
  <2>1. \A i \in 1..Len(s), j \in 1..Len(t) : s[i] # t[j]
    BY <1>1, <1>3 DEF Range
  <2>2. CASE a \in 1..Len(s) /\ b \in 1..Len(s)
    BY <1>1, <1>3, <2>2 DEF IsInjective
  <2>3. CASE a \notin 1..Len(s) /\ b \notin 1..Len(s)
    <3>1. t[a - Len(s)] = t[b - Len(s)] /\ a - Len(s) \in 1..Len(t) /\ b - Len(s) \in 1..Len(t)
      BY <1>r, <1>e, <2>3
    <3>2. a - Len(s) = b - Len(s)
      BY <1>1, <1>3, <3>1 DEF IsInjective
    <3> QED BY <1>1, <3>2
  <2>4. CASE a \in 1..Len(s) /\ b \notin 1..Len(s)
    BY <1>1, <1>r, <1>e, <2>1, <2>4
  <2>5. CASE a \notin 1..Len(s) /\ b \in 1..Len(s)
    BY <1>1, <1>r, <1>e, <2>1, <2>5
  <2> QED BY <2>2, <2>3, <2>4, <2>5
<1> QED BY <1>1, <1>2, <1>3

\* A queue of nobody.
LEMMA EmptyFacts == IsInjective(<<>>) /\ Range(<<>>) = {}
BY DEF IsInjective, Range

\* A list of a finite set without repetition, as long as the set is large.
LEMMA ListFacts ==
  ASSUME NEW S, IsFiniteSet(S), NEW s \in [1..Cardinality(S) -> S], IsInjective(s)
  PROVE  s \in Seq(S) /\ Range(s) = S
<1> DEFINE D == 1..Cardinality(S)
<1>1. Cardinality(S) \in Nat
  BY FS_CardinalityType
<1>2. IsFiniteSet(D) /\ Cardinality(D) = Cardinality(S)
  <2>1. /\ IsFiniteSet(1..Cardinality(S))
        /\ Cardinality(1..Cardinality(S)) = IF 1 > Cardinality(S) THEN 0 ELSE Cardinality(S) - 1 + 1
    BY <1>1, FS_Interval
  <2> QED BY <1>1, <2>1
<1>3. s \in Injection(D, S)
  BY DEF Injection, IsInjective
<1> HIDE DEF D
<1>4. s \in Surjection(D, S)
  BY <1>2, <1>3, FS_Injection
<1>5. Range(s) = S
  BY <1>4 DEF Surjection, Range
<1>6. s \in Seq(S)
  BY <1>1
<1> QED BY <1>5, <1>6

\* SetToSeq lists a finite set, each of its members once.
LEMMA SetToSeqFacts ==
  ASSUME NEW S, IsFiniteSet(S)
  PROVE  /\ SetToSeq(S) \in Seq(S)
         /\ IsInjective(SetToSeq(S))
         /\ Range(SetToSeq(S)) = S
<1> DEFINE D == 1..Cardinality(S)
<1>1. Cardinality(S) \in Nat /\ ExistsBijection(D, S)
  BY FS_CardinalityType
<1>2. \E f \in [D -> S] : IsInjective(f)
  BY <1>1 DEF ExistsBijection, Bijection, Injection, IsInjective
<1>3. SetToSeq(S) \in [D -> S] /\ IsInjective(SetToSeq(S))
  BY <1>2 DEF SetToSeq
<1> QED BY <1>3, ListFacts

\* So does every member of SetToSeqs,
LEMMA SetToSeqsFacts ==
  ASSUME NEW S, IsFiniteSet(S), NEW s \in SetToSeqs(S)
  PROVE  s \in Seq(S) /\ IsInjective(s) /\ Range(s) = S
<1>1. s \in [1..Cardinality(S) -> S] /\ IsInjective(s)
  BY DEF SetToSeqs, IsInjective
<1> QED BY <1>1, ListFacts

\* which holds every list of the set.
LEMMA SetToSeqsHasAll ==
  ASSUME NEW P, NEW s \in Seq(P), IsInjective(s)
  PROVE  IsFiniteSet(Range(s)) /\ s \in SetToSeqs(Range(s))
<1> DEFINE D == 1..Len(s)
<1>1. /\ Len(s) \in Nat /\ DOMAIN s = D /\ \A i \in D : s[i] \in Range(s)
      /\ \A y \in Range(s) : \E i \in D : s[i] = y
      /\ s = [i \in D |-> s[i]]
  BY DEF Range
<1>2. IsFiniteSet(D) /\ Cardinality(D) = Len(s)
  <2>1. 1 \in Int /\ Len(s) \in Int
    BY <1>1
  <2> DEFINE n == Len(s)
  <2> HIDE DEF n
  <2>2. IsFiniteSet(1..n) /\ Cardinality(1..n) = IF 1 > n THEN 0 ELSE n - 1 + 1
    BY <2>1, FS_Interval DEF n
  <2> QED BY <1>1, <2>1, <2>2 DEF n
<1> HIDE DEF D
<1>3. s \in [D -> Range(s)]
  BY <1>1
<1>4. s \in Surjection(D, Range(s)) /\ s \in Injection(D, Range(s))
  BY <1>1, <1>3 DEF Surjection, Injection, IsInjective
<1>5. IsFiniteSet(Range(s)) /\ Cardinality(Range(s)) = Len(s)
  BY <1>2, <1>4, FS_Surjection
<1> QED BY <1>1, <1>3, <1>5 DEF SetToSeqs, IsInjective, D

\* The members of a queue that lost the one at index i.
LEMMA RemoveAtFacts ==
  ASSUME NEW S, NEW s \in Seq(S), NEW i \in 1..Len(s)
  PROVE  /\ RemoveAt(s, i) \in Seq(S) /\ Len(RemoveAt(s, i)) = Len(s) - 1
         /\ IsInjective(s) => /\ IsInjective(RemoveAt(s, i))
                              /\ Range(RemoveAt(s, i)) = Range(s) \ {s[i]}
<1> DEFINE r == RemoveAt(s, i)
           n == Len(s)
<1>1. n \in Nat /\ DOMAIN s = 1..n /\ i \in Nat /\ 1 <= i /\ i <= n
  OBVIOUS
<1>2. /\ r \in Seq(S) /\ Len(r) = n - 1
      /\ \A j \in 1..(n - 1) : r[j] = IF j < i THEN s[j] ELSE s[j + 1]
  <2> DEFINE a == SubSeq(s, 1, i - 1)
             b == SubSeq(s, i + 1, n)
  <2>1. a \in Seq(S) /\ Len(a) = i - 1 /\ \A j \in 1..(i - 1) : a[j] = s[j]
    BY <1>1
  <2>2. b \in Seq(S) /\ Len(b) = n - i /\ \A j \in 1..(n - i) : b[j] = s[i + j]
    <3>1. i + 1 \in Int /\ n \in Int /\ \A j \in (i + 1)..n : s[j] \in S
      BY <1>1
    <3> HIDE DEF n
    <3>2. /\ b \in Seq(S) /\ Len(b) = IF i + 1 <= n THEN n - (i + 1) + 1 ELSE 0
          /\ \A j \in 1..(n - (i + 1) + 1) : b[j] = s[(i + 1) + j - 1]
      BY <3>1, SubSeqProperties
    <3> HIDE DEF b
    <3>3. n - (i + 1) + 1 = n - i /\ \A j \in 1..(n - i) : (i + 1) + j - 1 = i + j
      BY <1>1
    <3>4. Len(b) = n - i
      BY <1>1, <3>2
    <3> QED BY <3>2, <3>3, <3>4
  <2>3. r = a \o b
    BY DEF RemoveAt
  <2> HIDE DEF a, b, r
  <2>4. r \in Seq(S) /\ Len(r) = n - 1
    <3>1. r \in Seq(S) /\ Len(r) = Len(a) + Len(b)
      BY <2>1, <2>2, <2>3, ConcatProperties
    <3>2. Len(a) + Len(b) = n - 1
      BY <1>1, <2>1, <2>2
    <3> QED BY <3>1, <3>2
  <2>5. ASSUME NEW j \in 1..(n - 1) PROVE r[j] = IF j < i THEN s[j] ELSE s[j + 1]
    <3>1. CASE j < i
      <4>1. j \in 1..(i - 1)
        BY <1>1, <3>1
      <4>2. r[j] = a[j]
        BY <1>1, <2>1, <2>2, <2>3, <4>1
      <4> QED BY <2>1, <3>1, <4>1, <4>2
    <3>2. CASE ~(j < i)
      <4>1. j - (i - 1) \in 1..(n - i) /\ j \in (i - 1 + 1)..(i - 1 + (n - i))
        BY <1>1, <3>2
      <4>2. r[j] = b[j - (i - 1)]
        BY <1>1, <2>1, <2>2, <2>3, <4>1
      <4>3. i + (j - (i - 1)) = j + 1
        BY <1>1
      <4> QED BY <2>2, <3>2, <4>1, <4>2, <4>3
    <3> QED BY <3>1, <3>2
  <2> QED BY <2>4, <2>5
<1> HIDE DEF r
<1>3. DOMAIN r = 1..(n - 1)
  BY <1>2
<1>4. ASSUME IsInjective(s) PROVE IsInjective(r) /\ Range(r) = Range(s) \ {s[i]}
  <2>1. \A x, y \in 1..n : s[x] = s[y] => x = y
    BY <1>1, <1>4 DEF IsInjective
  <2>2. ASSUME NEW x \in 1..(n - 1), NEW y \in 1..(n - 1), r[x] = r[y] PROVE x = y
    <3>1. PICK u \in 1..n : r[x] = s[u] /\ u = IF x < i THEN x ELSE x + 1
      BY <1>1, <1>2
    <3>2. PICK v \in 1..n : r[y] = s[v] /\ v = IF y < i THEN y ELSE y + 1
      BY <1>1, <1>2
    <3>3. u = v
      BY <2>1, <2>2, <3>1, <3>2
    <3> QED BY <1>1, <3>1, <3>2, <3>3
  <2>3. ASSUME NEW y \in Range(r) PROVE y \in Range(s) \ {s[i]}
    <3>1. PICK x \in 1..(n - 1) : y = r[x]
      BY <1>3, <2>3 DEF Range
    <3>2. PICK u \in 1..n : r[x] = s[u] /\ u # i
      <4>1. CASE x < i
        BY <1>1, <1>2, <4>1
      <4>2. CASE ~(x < i)
        <5>1. x + 1 \in 1..n /\ x + 1 # i /\ r[x] = s[x + 1]
          BY <1>1, <1>2, <4>2
        <5> QED BY <5>1
      <4> QED BY <4>1, <4>2
    <3> QED BY <1>1, <2>1, <3>1, <3>2 DEF Range
  <2>4. ASSUME NEW y \in Range(s), y # s[i] PROVE y \in Range(r)
    <3>1. PICK u \in 1..n : y = s[u]
      BY <1>1, <2>4 DEF Range
    <3>2. u # i
      BY <2>4, <3>1
    <3>3. CASE u < i
      <4>1. u \in 1..(n - 1) /\ r[u] = s[u]
        BY <1>1, <1>2, <3>3
      <4> QED BY <1>3, <3>1, <4>1 DEF Range
    <3>4. CASE u > i
      <4>1. u - 1 \in 1..(n - 1) /\ ~(u - 1 < i) /\ (u - 1) + 1 = u
        BY <1>1, <3>4
      <4>2. r[u - 1] = s[u]
        BY <1>2, <4>1
      <4> QED BY <1>3, <3>1, <4>1, <4>2 DEF Range
    <3> QED BY <1>1, <3>2, <3>3, <3>4
  <2>5. IsInjective(r)
    BY <1>3, <2>2 DEF IsInjective
  <2> QED BY <2>3, <2>4, <2>5
<1> QED BY <1>2, <1>4 DEF r

\* In a queue without repetition a member has one place, another none.
LEMMA OnePlace ==
  ASSUME NEW S, NEW s \in Seq(S), IsInjective(s), NEW p
  PROVE  /\ p \notin Range(s) => {j \in DOMAIN s : s[j] = p} = {}
         /\ p \in Range(s) => \E i : {j \in DOMAIN s : s[j] = p} = {i}
<1>1. ASSUME p \notin Range(s) PROVE {j \in DOMAIN s : s[j] = p} = {}
  BY <1>1 DEF Range
<1>2. ASSUME p \in Range(s) PROVE \E i : {j \in DOMAIN s : s[j] = p} = {i}
  <2>1. PICK i \in DOMAIN s : s[i] = p
    BY <1>2 DEF Range
  <2>2. {j \in DOMAIN s : s[j] = p} = {i}
    BY <2>1 DEF IsInjective
  <2> QED BY <2>2
<1> QED BY <1>1, <1>2
-----------------------------------------------------------------------------
(* Families of queues *)

\* The families of queues with names in N.
Family(N) == [N -> Seq(Proc)]

\* Everybody on a queue of the family.
Members(Q) == UNION {Range(Q[k]) : k \in DOMAIN Q}

\* No queue of the family has a process twice, no two queues share one, and
\* process r is in none.
Separate(r, Q) ==
  /\ \A k \in DOMAIN Q : IsInjective(Q[k]) /\ r \notin Range(Q[k])
  /\ \A k, j \in DOMAIN Q : k # j => Range(Q[k]) \intersect Range(Q[j]) = {}

\* The idle process, or any other that is no user process, is on no queue.
LEMMA LeaveProcessor ==
  ASSUME NEW N, NEW Q \in Family(N), NEW r, Separate(r, Q)
  PROVE  Separate(Idle, Q)
<1>1. ASSUME NEW k \in N PROVE Idle \notin Range(Q[k])
  BY IdleAssumption DEF Range, Family
<1> QED BY <1>1 DEF Separate, Family

\* A queue loses its first process: nobody has it then.
LEMMA Take ==
  ASSUME NEW N, NEW Q \in Family(N), NEW r, Separate(r, Q),
         NEW k \in N, Q[k] # <<>>
  PROVE  LET R == [Q EXCEPT ![k] = Tail(@)]
         IN  /\ R \in Family(N)
             /\ Head(Q[k]) \in Proc /\ Head(Q[k]) # r
             /\ Separate(r, R) /\ Separate(Head(Q[k]), R)
             /\ Members(Q) = Members(R) \union {Head(Q[k])}
<1> DEFINE R == [Q EXCEPT ![k] = Tail(@)]
           h == Head(Q[k])
<1>1. Q[k] \in Seq(Proc) /\ DOMAIN Q = N /\ DOMAIN R = N
  BY DEF Family
<1>2. /\ R[k] \in Seq(Proc) /\ IsInjective(R[k]) /\ h \notin Range(R[k])
      /\ h \in Proc /\ Range(Q[k]) = Range(R[k]) \union {h}
      /\ \A j \in N : j # k => R[j] = Q[j]
  BY <1>1, TailFacts DEF Family, Separate
<1>3. R \in Family(N)
  BY <1>2 DEF Family
<1>4. Separate(r, Q)
  OBVIOUS
<1> HIDE DEF R, h
<1>5. h # r
  BY <1>1, <1>2, <1>4 DEF Separate
<1>6. ASSUME NEW i \in N
      PROVE  IsInjective(R[i]) /\ r \notin Range(R[i]) /\ h \notin Range(R[i])
  BY <1>1, <1>2, <1>4 DEF Separate
<1>7. ASSUME NEW i \in N, NEW j \in N, i # j
      PROVE  Range(R[i]) \intersect Range(R[j]) = {}
  BY <1>1, <1>2, <1>4, <1>7 DEF Separate
<1>8. Separate(r, R) /\ Separate(h, R)
  BY <1>1, <1>6, <1>7 DEF Separate
<1>9. Members(Q) = Members(R) \union {h}
  BY <1>1, <1>2 DEF Members
<1> QED BY <1>2, <1>3, <1>5, <1>8, <1>9 DEF R, h

\* The family after process h joined queue k.
Joined(Q, k, h) == [Q EXCEPT ![k] = Append(@, h)]

\* A process that is on no queue joins one, while another runs.
LEMMA Put ==
  ASSUME NEW N, NEW Q \in Family(N), NEW r, NEW h \in Proc, r # h,
         Separate(r, Q), Separate(h, Q), NEW k \in N
  PROVE  /\ Joined(Q, k, h) \in Family(N) /\ Separate(r, Joined(Q, k, h))
         /\ Members(Joined(Q, k, h)) = Members(Q) \union {h}
<1> DEFINE R == Joined(Q, k, h)
<1>1. Q[k] \in Seq(Proc) /\ DOMAIN Q = N /\ DOMAIN R = N
  BY DEF Family, Joined
<1>2. /\ R[k] \in Seq(Proc) /\ IsInjective(R[k]) /\ Range(R[k]) = Range(Q[k]) \union {h}
      /\ \A j \in N : j # k => R[j] = Q[j]
  BY <1>1, AppendFacts DEF Family, Separate, Joined
<1>3. R \in Family(N)
  BY <1>2 DEF Family, Joined
<1>4. Separate(r, Q) /\ Separate(h, Q)
  OBVIOUS
<1> HIDE DEF R
<1>5. ASSUME NEW i \in N PROVE IsInjective(R[i]) /\ r \notin Range(R[i])
  BY <1>1, <1>2, <1>4 DEF Separate
<1>6. ASSUME NEW i \in N, NEW j \in N, i # j
      PROVE  Range(R[i]) \intersect Range(R[j]) = {}
  BY <1>1, <1>2, <1>4, <1>6 DEF Separate
<1>7. Members(R) = Members(Q) \union {h}
  BY <1>1, <1>2 DEF Members
<1> QED BY <1>1, <1>3, <1>5, <1>6, <1>7 DEF Separate, R

\* The family after the first process of queue j went to the end of queue k.
HeadMoved(Q, j, k) == Joined([Q EXCEPT ![j] = Tail(@)], k, Head(Q[j]))

\* The first process of a queue goes to the end of another.
LEMMA MoveHead ==
  ASSUME NEW N, NEW Q \in Family(N), NEW r, Separate(r, Q),
         NEW j \in N, NEW k \in N, j # k, Q[j] # <<>>
  PROVE  LET R == HeadMoved(Q, j, k)
         IN  /\ R \in Family(N) /\ Separate(r, R) /\ Members(R) = Members(Q)
             /\ R[j] = Tail(Q[j]) /\ R[k] = Append(Q[k], Head(Q[j]))
             /\ \A i \in N : i # j /\ i # k => R[i] = Q[i]
<1> DEFINE P == [Q EXCEPT ![j] = Tail(@)]
           h == Head(Q[j])
           R == Joined(P, k, h)
<1>1. /\ P \in Family(N) /\ h \in Proc /\ h # r /\ Separate(r, P) /\ Separate(h, P)
      /\ Members(Q) = Members(P) \union {h}
  BY Take
<1>2. P[j] = Tail(Q[j]) /\ \A i \in N : i # j => P[i] = Q[i]
  BY DEF Family
<1> HIDE DEF P, h
<1>3. R \in Family(N) /\ Separate(r, R) /\ Members(R) = Members(P) \union {h}
  BY <1>1, Put
<1>4. R[k] = Append(P[k], h) /\ \A i \in N : i # k => R[i] = P[i]
  BY <1>1 DEF Joined, Family
<1>5. HeadMoved(Q, j, k) = R
  BY DEF HeadMoved, P, h
<1> HIDE DEF R
<1>6. R[j] = Tail(Q[j]) /\ R[k] = Append(Q[k], h) /\ \A i \in N : i # j /\ i # k => R[i] = Q[i]
  BY <1>2, <1>4
<1>7. R[k] = Append(Q[k], Head(Q[j]))
  BY <1>6 DEF h
<1> QED BY <1>1, <1>3, <1>5, <1>6, <1>7

\* A queue is emptied.
LEMMA Clear ==
  ASSUME NEW N, NEW Q \in Family(N), NEW r, Separate(r, Q), NEW k \in N
  PROVE  LET R == [Q EXCEPT ![k] = <<>>]
         IN  R \in Family(N) /\ Separate(r, R)
<1> DEFINE R == [Q EXCEPT ![k] = <<>>]
<1>1. /\ R[k] = <<>>
      /\ \A j \in N : j # k => R[j] = Q[j]
      /\ R \in Family(N)
      /\ DOMAIN Q = N /\ DOMAIN R = N
  BY DEF Family
<1>2. IsInjective(R[k]) /\ Range(R[k]) = {}
  BY <1>1, EmptyFacts
<1>3. Separate(r, Q)
  OBVIOUS
<1> HIDE DEF R
<1>4. Separate(r, R)
  BY <1>1, <1>2, <1>3 DEF Separate
<1> QED BY <1>1, <1>4 DEF R

\* The family after all of queue j went to the end of queue k.
Moved(Q, j, k) == [[Q EXCEPT ![j] = <<>>] EXCEPT ![k] = @ \o Q[j]]

\* All the processes of one queue go to the end of another.
LEMMA MoveAll ==
  ASSUME NEW N, NEW Q \in Family(N), NEW r, Separate(r, Q),
         NEW j \in N, NEW k \in N, j # k
  PROVE  LET R == Moved(Q, j, k)
         IN  R \in Family(N) /\ Separate(r, R) /\ Members(R) = Members(Q)
<1> DEFINE R == [[Q EXCEPT ![j] = <<>>] EXCEPT ![k] = @ \o Q[j]]
<1>1. /\ Q[j] \in Seq(Proc) /\ Q[k] \in Seq(Proc) /\ DOMAIN Q = N /\ DOMAIN R = N
      /\ R[j] = <<>> /\ R[k] = Q[k] \o Q[j]
      /\ \A i \in N : i # j /\ i # k => R[i] = Q[i]
  BY DEF Family
<1>2. Separate(r, Q)
  OBVIOUS
<1>3. IsInjective(R[j]) /\ Range(R[j]) = {}
  BY <1>1, EmptyFacts
<1>4. IsInjective(Q[j]) /\ IsInjective(Q[k]) /\ Range(Q[k]) \intersect Range(Q[j]) = {}
  BY <1>1, <1>2 DEF Separate
<1>5. /\ R[k] \in Seq(Proc) /\ IsInjective(R[k])
      /\ Range(R[k]) = Range(Q[k]) \union Range(Q[j])
  BY <1>1, <1>4, ConcatFacts
<1>6. R \in Family(N)
  <2>1. [Q EXCEPT ![j] = <<>>] \in Family(N)
    BY DEF Family
  <2> QED BY <1>1, <1>5, <2>1 DEF Family
<1> HIDE DEF R
<1>7. ASSUME NEW i \in N PROVE IsInjective(R[i]) /\ r \notin Range(R[i])
  BY <1>1, <1>2, <1>3, <1>5 DEF Separate
<1>8. ASSUME NEW i \in N, NEW l \in N, i # l
      PROVE  Range(R[i]) \intersect Range(R[l]) = {}
  BY <1>1, <1>2, <1>3, <1>5, <1>8 DEF Separate
<1>9. Members(R) = Members(Q)
  BY <1>1, <1>3, <1>5 DEF Members
<1>10. Separate(r, R)
  BY <1>1, <1>7, <1>8 DEF Separate
<1> QED BY <1>6, <1>9, <1>10 DEF R, Moved

\* A processor that nobody uses takes the next process off the main queue m.
LEMMA Dispatch ==
  ASSUME NEW N, NEW Q \in Family(N), Separate(Idle, Q), NEW m \in N,
         SwitchToNext(Q[m])
  PROVE  LET R == [Q EXCEPT ![m] = main_queue']
         IN  /\ R \in Family(N) /\ Separate(running', R)
             /\ running' \in Proc \union {Idle} /\ main_queue' \in Seq(Proc)
             /\ Members(Q) \subseteq Members(R) \union {running'}
<1>1. CASE Q[m] = <<>>
  <2>1. running' = Idle /\ main_queue' = Q[m]
    BY <1>1 DEF SwitchToNext
  <2>2. [Q EXCEPT ![m] = main_queue'] = Q
    BY <2>1 DEF Family
  <2>3. Q[m] \in Seq(Proc)
    BY DEF Family
  <2> QED BY <2>1, <2>2, <2>3
<1>2. CASE Q[m] # <<>>
  <2>1. running' = Head(Q[m]) /\ main_queue' = Tail(Q[m])
    BY <1>2 DEF SwitchToNext
  <2>2. Tail(Q[m]) \in Seq(Proc)
    BY <1>2 DEF Family
  <2> DEFINE R == [Q EXCEPT ![m] = Tail(@)]
  <2>3. /\ R \in Family(N) /\ Head(Q[m]) \in Proc /\ Separate(Head(Q[m]), R)
        /\ Members(Q) = Members(R) \union {Head(Q[m])}
    BY <1>2, Take
  <2>4. R = [Q EXCEPT ![m] = main_queue']
    BY <2>1
  <2> HIDE DEF R
  <2> QED BY <2>1, <2>2, <2>3, <2>4
<1> QED BY <1>1, <1>2

\* The processor is given to the next process of a queue.
LEMMA SwitchType ==
  ASSUME NEW q \in Seq(Proc), SwitchToNext(q)
  PROVE  running' \in Proc \union {Idle} /\ main_queue' \in Seq(Proc)
BY DEF SwitchToNext

\* The family after process h joined queue k and queue m became q.
JoinedAnd(Q, k, h, m, q) == [[Q EXCEPT ![k] = Append(@, h)] EXCEPT ![m] = q]

\* Whom the processor goes to, and who stays ready.
LEMMA SwitchFacts ==
  ASSUME NEW q \in Seq(Proc), IsInjective(q), SwitchToNext(q)
  PROVE  /\ running' \in Proc \union {Idle} /\ main_queue' \in Seq(Proc)
         /\ IsInjective(main_queue') /\ running' \notin Range(main_queue')
         /\ Range(q) = (Range(main_queue') \union {running'}) \ {Idle}
<1>1. \A p \in Range(q) : p \in Proc /\ p # Idle
  BY IdleAssumption DEF Range
<1>2. CASE q = <<>>
  <2>1. Range(q) = {} /\ running' = Idle /\ main_queue' = q
    BY <1>2, EmptyFacts DEF SwitchToNext
  <2> QED BY <2>1
<1>3. CASE q # <<>>
  <2>1. running' = Head(q) /\ main_queue' = Tail(q)
    BY <1>3 DEF SwitchToNext
  <2>2. /\ Head(q) \in Proc /\ Tail(q) \in Seq(Proc)
        /\ Range(q) = Range(Tail(q)) \union {Head(q)}
        /\ IsInjective(Tail(q)) /\ Head(q) \notin Range(Tail(q))
    BY <1>3, TailFacts
  <2> QED BY <1>1, <2>1, <2>2
<1> QED BY <1>2, <1>3

\* The running process blocks on a queue, and the next one runs.
LEMMA Block ==
  ASSUME NEW N, NEW Q \in Family(N), NEW r \in Proc, Separate(r, Q),
         NEW k \in N, NEW m \in N, k # m, SwitchToNext(Q[m])
  PROVE  LET R == JoinedAnd(Q, k, r, m, main_queue')
         IN  /\ R \in Family(N) /\ Separate(running', R)
             /\ Members(Q) \union {r} \subseteq Members(R) \union {running'}
             /\ R[k] = Append(Q[k], r) /\ R[m] = main_queue'
             /\ \A i \in N : i # k /\ i # m => R[i] = Q[i]
<1> DEFINE P == [Q EXCEPT ![k] = Append(@, r)]
           R == [P EXCEPT ![m] = main_queue']
<1>1. Separate(Idle, Q) /\ Separate(r, Q) /\ Idle # r
  BY LeaveProcessor, IdleAssumption
<1>2. P \in Family(N) /\ Separate(Idle, P) /\ Members(P) = Members(Q) \union {r}
  <2>1. P = Joined(Q, k, r)
    BY DEF Joined
  <2> HIDE DEF P
  <2>2. Q \in Family(N) /\ r \in Proc /\ k \in N
    OBVIOUS
  <2> QED BY <1>1, <2>1, <2>2, Put
<1>3. P[m] = Q[m] /\ P[k] = Append(Q[k], r) /\ \A i \in N : i # k => P[i] = Q[i]
  BY DEF Family
<1>4. SwitchToNext(P[m])
  BY <1>3
<1> HIDE DEF P
<1>5. /\ R \in Family(N) /\ Separate(running', R)
      /\ Members(P) \subseteq Members(R) \union {running'}
  BY <1>2, <1>4, Dispatch
<1>6. R[k] = P[k] /\ R[m] = main_queue' /\ \A i \in N : i # m => R[i] = P[i]
  BY <1>2 DEF Family
<1> QED BY <1>2, <1>3, <1>5, <1>6 DEF P, JoinedAnd

\* The family after queue m became q.
Became(Q, m, q) == [Q EXCEPT ![m] = q]

\* The clock handler puts the running process at the end of the main queue
\* and takes the first.
LEMMA Rotate ==
  ASSUME NEW N, NEW Q \in Family(N), NEW r \in Proc \union {Idle}, Separate(r, Q),
         NEW m \in N, SwitchToNext(schedule_process(Q[m], r))
  PROVE  LET R == Became(Q, m, main_queue')
         IN  /\ R \in Family(N) /\ Separate(running', R)
             /\ (Members(Q) \union {r}) \intersect Proc \subseteq Members(R) \union {running'}
             /\ R[m] = main_queue' /\ \A i \in N : i # m => R[i] = Q[i]
<1> DEFINE R == [Q EXCEPT ![m] = main_queue']
<1>1. Separate(Idle, Q)
  BY LeaveProcessor
<1>2. R[m] = main_queue' /\ \A i \in N : i # m => R[i] = Q[i]
  BY DEF Family
<1>3. CASE r = Idle
  <2>1. SwitchToNext(Q[m])
    BY <1>3 DEF schedule_process
  <2>2. /\ R \in Family(N) /\ Separate(running', R)
        /\ Members(Q) \subseteq Members(R) \union {running'}
    BY <1>1, <2>1, Dispatch
  <2> QED BY <1>2, <1>3, <2>2, IdleAssumption DEF Became
<1>4. CASE r # Idle
  <2> DEFINE P == [Q EXCEPT ![m] = Append(@, r)]
  <2>1. P \in Family(N) /\ Separate(Idle, P) /\ Members(P) = Members(Q) \union {r}
    <3>1. r \in Proc /\ Idle # r
      BY <1>4
    <3>2. P = Joined(Q, m, r) /\ Separate(r, Q)
      BY DEF Joined
    <3> HIDE DEF P
    <3> QED BY <1>1, <3>1, <3>2, Put
  <2>2. SwitchToNext(P[m])
    <3>1. P[m] = schedule_process(Q[m], r)
      BY <1>4 DEF schedule_process, Family
    <3> QED BY <3>1
  <2>3. [P EXCEPT ![m] = main_queue'] = R
    BY DEF Family
  <2> HIDE DEF P, R
  <2>4. /\ R \in Family(N) /\ Separate(running', R)
        /\ Members(P) \subseteq Members(R) \union {running'}
    BY <2>1, <2>2, <2>3, Dispatch
  <2> QED BY <1>2, <2>1, <2>4 DEF R, Became
<1> QED BY <1>3, <1>4
=============================================================================
