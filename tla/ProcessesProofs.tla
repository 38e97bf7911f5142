-------------------------- MODULE ProcessesProofs ---------------------------
(***************************************************************************)
(* Proofs about the life of processes, for any number of pcb blocks, any   *)
(* room for children and any delays.                                       *)
(***************************************************************************)
EXTENDS Processes, QueueLemmas
-----------------------------------------------------------------------------
(* Operators *)

\* A queue's members of a set have an order, the queue's.  The proof looks at
\* the shortest queue whose members would not.
LEMMA SelectionExists ==
  ASSUME NEW S
  PROVE  \A q \in Seq(Proc) : IsInjective(q) =>
           \E s \in Seq(Proc) :
             /\ IsInjective(s) /\ Range(s) = Range(q) \intersect S
             /\ \A i, j \in DOMAIN s : i < j =>
                  \E k, l \in DOMAIN q : k < l /\ q[k] = s[i] /\ q[l] = s[j]
<1> DEFINE Order(q, s) == \A i, j \in DOMAIN s : i < j =>
                            \E k, l \in DOMAIN q : k < l /\ q[k] = s[i] /\ q[l] = s[j]
           Good(q, s) == IsInjective(s) /\ Range(s) = Range(q) \intersect S /\ Order(q, s)
           Bad(q) == IsInjective(q) /\ \A s \in Seq(Proc) : ~Good(q, s)
           T == {n \in Nat : \E q \in Seq(Proc) : Len(q) = n /\ Bad(q)}
<1> SUFFICES ASSUME NEW q0 \in Seq(Proc), Bad(q0) PROVE FALSE
  BY SMTT(30)
<1>1. Len(q0) \in T
  OBVIOUS
<1>2. PICK n \in T : \A m \in T : n <= m
  BY <1>1, LeastNat
<1>3. n \in Nat
  OBVIOUS
<1>4. PICK q \in Seq(Proc) : Len(q) = n /\ Bad(q)
  BY <1>2
<1>5. IsInjective(q) /\ \A s \in Seq(Proc) : ~Good(q, s)
  BY <1>4
<1>6. CASE n = 0
  <2>1. q = <<>> /\ <<>> \in Seq(Proc)
    BY <1>4, <1>6
  <2>2. Good(q, <<>>)
    BY <2>1, EmptyFacts
  <2> QED BY <1>5, <2>1, <2>2
<1>7. CASE n # 0
  <2> DEFINE f == [i \in 1..(n - 1) |-> q[i]]
             x == q[n]
  <2>1. DOMAIN q = 1..n /\ n - 1 \in Nat /\ \A i \in 1..n : q[i] \in Proc
    BY <1>3, <1>4, <1>7
  <2>2. f \in Seq(Proc) /\ Len(f) = n - 1 /\ DOMAIN f = 1..(n - 1)
    <3>1. f \in [1..(n - 1) -> Proc]
      BY <1>3, <2>1
    <3> QED BY <2>1, <3>1, FunctionIsSeq
  <2>3. \A i \in 1..(n - 1) : f[i] = q[i] /\ i \in 1..n
    BY <1>3
  <2>4. x \in Proc /\ n \in 1..n /\ \A i \in 1..n : i \in 1..(n - 1) \/ i = n
    BY <1>3, <1>7, <2>1
  <2> HIDE DEF f, x, T
  <2>5. IsInjective(f)
    BY <1>5, <2>1, <2>2, <2>3 DEF IsInjective
  <2>6. Range(q) = Range(f) \union {x} /\ x \notin Range(f)
    <3>1. ASSUME NEW y \in Range(q) PROVE y \in Range(f) \union {x}
      <4>1. PICK i \in 1..n : y = q[i]
        BY <2>1, <3>1 DEF Range
      <4>2. CASE i = n
        BY <4>1, <4>2 DEF x
      <4>3. CASE i \in 1..(n - 1)
        BY <2>2, <2>3, <4>1, <4>3 DEF Range
      <4> QED BY <2>4, <4>2, <4>3
    <3>2. x \in Range(q)
      BY <2>1, <2>4 DEF Range, x
    <3>3. \A y \in Range(f) : y \in Range(q)
      BY <2>1, <2>2, <2>3 DEF Range
    <3>4. x \notin Range(f)
      <4> SUFFICES ASSUME NEW i \in 1..(n - 1), x = f[i] PROVE FALSE
        BY <2>2 DEF Range
      <4>1. q[i] = q[n]
        BY <2>3 DEF x
      <4>2. i = n
        BY <1>5, <2>1, <2>3, <2>4, <4>1 DEF IsInjective
      <4> QED BY <1>3, <4>2
    <3> QED BY <3>1, <3>2, <3>3, <3>4
  <2>7. n - 1 \notin T
    <3>1. ~(n <= n - 1)
      BY <1>3
    <3> QED BY <1>2, <3>1
  <2>8. PICK s \in Seq(Proc) : Good(f, s)
    BY <2>1, <2>2, <2>5, <2>7 DEF T
  <2>9. /\ IsInjective(s) /\ Range(s) = Range(f) \intersect S
        /\ DOMAIN s = 1..Len(s) /\ Len(s) \in Nat
        /\ \A i, j \in DOMAIN s : i < j =>
             \E k, l \in 1..(n - 1) : k < l /\ f[k] = s[i] /\ f[l] = s[j]
    BY <2>2, <2>8
  <2>10. Order(q, s)
    <3> SUFFICES ASSUME NEW i \in DOMAIN s, NEW j \in DOMAIN s, i < j
                 PROVE  \E k, l \in DOMAIN q : k < l /\ q[k] = s[i] /\ q[l] = s[j]
      OBVIOUS
    <3>1. PICK k \in 1..(n - 1), l \in 1..(n - 1) : k < l /\ f[k] = s[i] /\ f[l] = s[j]
      BY <2>9
    <3>2. k \in DOMAIN q /\ l \in DOMAIN q /\ q[k] = s[i] /\ q[l] = s[j]
      BY <2>1, <2>3, <3>1
    <3> QED BY <3>1, <3>2
  <2>11. CASE x \notin S
    <3>1. Range(s) = Range(q) \intersect S
      BY <2>6, <2>9, <2>11
    <3> QED BY <1>5, <2>9, <2>10, <3>1
  <2>12. CASE x \in S
    <3> DEFINE r == Append(s, x)
    <3>1. /\ r \in Seq(Proc) /\ IsInjective(r) /\ Range(r) = Range(s) \union {x}
      BY <2>4, <2>6, <2>9, AppendFacts
    <3>2. /\ DOMAIN r = 1..(Len(s) + 1) /\ r[Len(s) + 1] = x
          /\ \A i \in 1..Len(s) : r[i] = s[i]
      BY <2>4
    <3> HIDE DEF r
    <3>3. ASSUME NEW i \in DOMAIN r, NEW j \in DOMAIN r, i < j
          PROVE  \E k, l \in DOMAIN q : k < l /\ q[k] = r[i] /\ q[l] = r[j]
      <4>1. i \in 1..Len(s)
        BY <2>9, <3>2, <3>3
      <4>2. CASE j \in 1..Len(s)
        BY <2>9, <2>10, <3>2, <3>3, <4>1, <4>2
      <4>3. CASE j = Len(s) + 1
        <5>1. s[i] \in Range(f)
          BY <2>9, <4>1 DEF Range
        <5>2. PICK k \in 1..(n - 1) : f[k] = s[i]
          BY <2>2, <5>1 DEF Range
        <5>3. k \in DOMAIN q /\ n \in DOMAIN q /\ k < n /\ q[k] = r[i] /\ q[n] = r[j]
          BY <1>3, <2>1, <2>3, <2>4, <3>2, <4>1, <4>3, <5>2 DEF x
        <5> QED BY <5>3
      <4> QED BY <2>9, <3>2, <4>2, <4>3
    <3>4. Good(q, r)
      <4>1. Range(r) = Range(q) \intersect S
        BY <2>6, <2>9, <2>12, <3>1
      <4> QED BY <3>1, <3>3, <4>1
    <3> QED BY <1>5, <3>1, <3>4
  <2> QED BY <2>11, <2>12
<1> QED BY <1>6, <1>7

\* What Selected chooses.
LEMMA SelectedFacts ==
  ASSUME NEW q \in Seq(Proc), IsInjective(q), NEW S
  PROVE  /\ Selected(q, S) \in Seq(Proc) /\ IsInjective(Selected(q, S))
         /\ Range(Selected(q, S)) = Range(q) \intersect S
<1> DEFINE R == Range(q) \intersect S
           Order(s) == \A i, j \in DOMAIN s : i < j =>
                         \E k, l \in DOMAIN q : k < l /\ q[k] = s[i] /\ q[l] = s[j]
<1>1. PICK s \in Seq(Proc) : IsInjective(s) /\ Range(s) = R /\ Order(s)
  BY SelectionExists
<1>2. Selected(q, S) = CHOOSE x \in SetToSeqs(R) : Order(x)
  BY DEF Selected
<1> HIDE DEF R, Order
<1>3. IsFiniteSet(R) /\ s \in SetToSeqs(R)
  BY <1>1, SetToSeqsHasAll
<1>4. Selected(q, S) \in SetToSeqs(R)
  BY <1>1, <1>2, <1>3
<1>5. Selected(q, S) \in Seq(R) /\ IsInjective(Selected(q, S)) /\ Range(Selected(q, S)) = R
  BY <1>3, <1>4, SetToSeqsFacts
<1>6. R \subseteq Proc
  BY DEF R, Range
<1> QED BY <1>5, <1>6 DEF R

\* find_exited_child finds an exited child of p when p has one.
LEMMA FirstExitedFacts ==
  ASSUME NEW p, children[p] \in Seq(Proc), HasExitedChild(p)
  PROVE  /\ FirstExited(p) \in 1..Len(children[p])
         /\ Exited(children[p][FirstExited(p)])
<1> DEFINE s == children[p]
           T == {i \in 1..Len(s) : Exited(s[i])}
           P(i) == Exited(s[i]) /\ \A j \in 1..(i - 1) : ~Exited(s[j])
<1>1. s \in Seq(Proc) /\ DOMAIN s = 1..Len(s) /\ Len(s) \in Nat
  OBVIOUS
<1>2. T # {} /\ T \in SUBSET Nat
  BY <1>1 DEF HasExitedChild, Range
<1>3. PICK i \in T : \A j \in T : i <= j
  BY <1>2, LeastNat
<1>4. i \in 1..Len(s) /\ Exited(s[i])
  BY <1>3
<1>5. ASSUME NEW j \in 1..(i - 1) PROVE ~Exited(s[j])
  <2>1. j \in 1..Len(s) /\ ~(i <= j)
    BY <1>1, <1>4
  <2> QED BY <1>3, <2>1
<1>6. \E x \in DOMAIN s : P(x)
  BY <1>1, <1>4, <1>5
<1>7. FirstExited(p) = CHOOSE x \in DOMAIN s : P(x)
  BY DEF FirstExited
<1> HIDE DEF P
<1>8. FirstExited(p) \in DOMAIN s /\ P(FirstExited(p))
  BY <1>6, <1>7
<1> QED BY <1>1, <1>8 DEF P
-----------------------------------------------------------------------------
(* The inductive invariant *)

\* The types of the family's variables.
FamilyType ==
  /\ state \in [Proc -> {"FREE", "LIVE", "EXITED"}]
  /\ children \in [Proc -> Seq(Proc)]
  /\ arr_size \in [Proc -> Nat]
  /\ \A p \in Live : arr_size[p] >= 1 /\ Len(children[p]) <= arr_size[p]
  /\ has_parent \in [Proc -> BOOLEAN]
  /\ parent \in [Proc -> Proc \union {Nobody}]
  /\ unlisted \subseteq Proc

\* The family: init does not end while the machine runs, and nobody is its
\* own parent.
FamilyInv ==
  /\ FamilyType /\ NoDanglingChild /\ NoPcbLeak
  /\ Init_pcb \in Live /\ \A c \in Proc : parent[c] # c

\* The queues and the sleepers share no process, and those on them and the
\* running one are the live ones.
Placed ==
  /\ IsInjective(main_queue) /\ IsInjective(wait_queue)
  /\ Range(main_queue) \intersect Range(wait_queue) = {}
  /\ (Range(main_queue) \union Range(wait_queue)) \intersect DOMAIN sleepers = {}
  /\ running \notin Range(main_queue) \union Range(wait_queue) \union DOMAIN sleepers
  /\ Live = (Range(main_queue) \union Range(wait_queue) \union DOMAIN sleepers \union {running}) \ {Idle}

\* The types of the other variables.
QueueType ==
  /\ running \in Proc \union {Idle}
  /\ main_queue \in Seq(Proc) /\ wait_queue \in Seq(Proc)
  /\ DOMAIN sleepers \subseteq Proc
  /\ \A p \in DOMAIN sleepers : sleepers[p] \in 1..MaxDelay
  /\ halted \in BOOLEAN

IInv == QueueType /\ FamilyInv /\ Placed

\* A fork adds a live process that its parent lists, or that add_child_proc
\* failed to list.
LEMMA ForkFamily ==
  ASSUME FamilyInv, NEW p \in Live, NEW c \in Proc, state[c] = "FREE", create_new_pcb(c),
         add_child_proc(p, c) \/ add_child_fails(p, c), parent' = [parent EXCEPT ![c] = p]
  PROVE  FamilyInv' /\ Live' = Live \union {c}
<1>t. /\ state \in [Proc -> {"FREE", "LIVE", "EXITED"}] /\ children \in [Proc -> Seq(Proc)]
      /\ arr_size \in [Proc -> Nat] /\ has_parent \in [Proc -> BOOLEAN]
      /\ parent \in [Proc -> Proc \union {Nobody}] /\ unlisted \subseteq Proc
      /\ \A q \in Live : arr_size[q] >= 1 /\ Len(children[q]) <= arr_size[q]
      /\ CHILD_ARR_SIZE \in Nat /\ CHILD_ARR_SIZE >= 1
      /\ p \in Proc /\ p # c /\ state[p] = "LIVE" /\ c \notin Live
  BY ProcessAssumption DEF FamilyInv, FamilyType, Live
<1>d. \A q \in Proc : /\ IsInjective(children[q])
                      /\ \A k \in Range(children[q]) :
                           /\ q \in Live /\ state[k] # "FREE" /\ parent[k] = q /\ has_parent[k]
                           /\ k \in Proc /\ k # c
  <2>1. \A q \in Proc : \A k \in Range(children[q]) : k \in Proc
    BY <1>t DEF Range
  <2> QED BY <1>t, <2>1 DEF FamilyInv, NoDanglingChild
<1>c. Range(children[c]) = {}
  BY <1>d, <1>t
<1>1. /\ state' = [state EXCEPT ![c] = "LIVE"]
      /\ has_parent' = [has_parent EXCEPT ![c] = TRUE]
  BY DEF create_new_pcb
<1>2. Live' = Live \union {c} /\ \A k \in Proc : k # c => state'[k] = state[k]
  BY <1>1, <1>t DEF Live
<1>3. /\ parent'[c] = p /\ has_parent'[c] /\ state'[c] = "LIVE"
      /\ \A k \in Proc : k # c => parent'[k] = parent[k] /\ has_parent'[k] = has_parent[k]
      /\ parent' \in [Proc -> Proc \union {Nobody}] /\ has_parent' \in [Proc -> BOOLEAN]
      /\ state' \in [Proc -> {"FREE", "LIVE", "EXITED"}]
  BY <1>1, <1>t
<1>4. /\ children' \in [Proc -> Seq(Proc)] /\ children'[c] = <<>> /\ arr_size'[c] = CHILD_ARR_SIZE
      /\ arr_size' \in [Proc -> Nat]
      /\ \A q \in Proc : q # p /\ q # c => children'[q] = children[q] /\ arr_size'[q] = arr_size[q]
      /\ arr_size'[p] >= 1 /\ Len(children'[p]) <= arr_size'[p]
      /\ IsInjective(children'[p])
      /\ \/ Range(children'[p]) = Range(children[p]) \union {c} /\ unlisted' = unlisted
         \/ Range(children'[p]) = Range(children[p]) /\ unlisted' = unlisted \union {c}
  <2>1. CASE add_child_proc(p, c)
    <3>1. /\ children' = [children EXCEPT ![p] = Append(@, c), ![c] = <<>>]
          /\ arr_size' = [arr_size EXCEPT ![p] = IF Len(children[p]) = @ THEN 2 * @ ELSE @,
                                          ![c] = CHILD_ARR_SIZE]
          /\ unlisted' = unlisted
      BY <2>1 DEF add_child_proc
    <3>2. /\ Append(children[p], c) \in Seq(Proc) /\ IsInjective(Append(children[p], c))
          /\ Range(Append(children[p], c)) = Range(children[p]) \union {c}
          /\ Len(Append(children[p], c)) = Len(children[p]) + 1 /\ Len(children[p]) \in Nat
      BY <1>d, <1>t, AppendFacts
    <3>3. /\ children'[p] = Append(children[p], c) /\ children'[c] = <<>>
          /\ \A q \in Proc : q # p /\ q # c => children'[q] = children[q]
          /\ children' \in [Proc -> Seq(Proc)]
      <4> DEFINE a == Append(children[p], c)
                 e == <<>>
      <4>1. a \in Seq(Proc) /\ e \in Seq(Proc)
        BY <3>2
      <4>2. children' = [children EXCEPT ![p] = a, ![c] = e]
        BY <3>1
      <4> HIDE DEF a, e
      <4>3. /\ children'[p] = a /\ children'[c] = e
            /\ \A q \in Proc : q # p /\ q # c => children'[q] = children[q]
            /\ children' \in [Proc -> Seq(Proc)]
        BY <1>t, <4>1, <4>2
      <4> QED BY <4>3 DEF a, e
    <3>4. /\ arr_size'[p] = (IF Len(children[p]) = arr_size[p] THEN 2 * arr_size[p] ELSE arr_size[p])
          /\ arr_size'[c] = CHILD_ARR_SIZE
          /\ \A q \in Proc : q # p /\ q # c => arr_size'[q] = arr_size[q]
          /\ arr_size' \in [Proc -> Nat]
      BY <1>t, <3>1
    <3>5. arr_size'[p] >= 1 /\ Len(children[p]) + 1 <= arr_size'[p]
      BY <1>t, <3>2, <3>4
    <3> QED BY <3>1, <3>2, <3>3, <3>4, <3>5
  <2>2. CASE add_child_fails(p, c)
    <3>1. /\ children' = [children EXCEPT ![c] = <<>>]
          /\ arr_size' = [arr_size EXCEPT ![c] = CHILD_ARR_SIZE]
          /\ unlisted' = unlisted \union {c}
      BY <2>2 DEF add_child_fails
    <3>2. /\ children' \in [Proc -> Seq(Proc)] /\ arr_size' \in [Proc -> Nat]
          /\ children'[c] = <<>> /\ arr_size'[c] = CHILD_ARR_SIZE
          /\ \A q \in Proc : q # c => children'[q] = children[q] /\ arr_size'[q] = arr_size[q]
      BY <1>t, <3>1
    <3> QED BY <1>d, <1>t, <3>1, <3>2
  <2> QED BY <2>1, <2>2
<1>5. FamilyType'
  <2>1. \A q \in Live' : arr_size'[q] >= 1 /\ Len(children'[q]) <= arr_size'[q]
    <3> SUFFICES ASSUME NEW q, q \in Live'
                 PROVE  arr_size'[q] >= 1 /\ Len(children'[q]) <= arr_size'[q]
      OBVIOUS
    <3>1. CASE q = c
      <4>1. Len(children'[c]) = 0
        BY <1>4
      <4> QED BY <1>4, <1>t, <3>1, <4>1
    <3>2. CASE q = p
      BY <1>4, <3>2
    <3>3. CASE q # c /\ q # p
      <4>1. q \in Live /\ q \in Proc
        BY <1>2, <3>3 DEF Live
      <4> QED BY <1>4, <1>t, <3>3, <4>1
    <3> QED BY <3>1, <3>2, <3>3
  <2>2. unlisted' \subseteq Proc
    BY <1>4, <1>t
  <2> QED BY <1>3, <1>4, <2>1, <2>2 DEF FamilyType
<1>6. NoDanglingChild'
  <2> SUFFICES ASSUME NEW q \in Proc
               PROVE  /\ IsInjective(children'[q])
                      /\ \A k \in Range(children'[q]) :
                           q \in Live' /\ state'[k] # "FREE" /\ parent'[k] = q /\ has_parent'[k]
    BY DEF NoDanglingChild
  <2>1. CASE q = c
    BY <1>4, <2>1, EmptyFacts
  <2>2. CASE q = p
    BY <1>2, <1>3, <1>4, <1>d, <1>t, <2>2
  <2>3. CASE q # p /\ q # c
    BY <1>2, <1>3, <1>4, <1>d, <2>3, ZenonT(30)
  <2> QED BY <2>1, <2>2, <2>3
<1>7. NoPcbLeak'
  <2> SUFFICES ASSUME NEW k \in Proc \ ({Init_pcb} \union unlisted')
               PROVE  /\ state'[k] # "FREE" /\ has_parent'[k] =>
                           parent'[k] \in Live' /\ k \in Range(children'[parent'[k]])
                      /\ state'[k] = "EXITED" => has_parent'[k]
    BY DEF NoPcbLeak, Exited
  <2>1. CASE k = c
    BY <1>2, <1>3, <1>4, <2>1
  <2>2. CASE k # c
    <3>1. k \notin unlisted /\ state'[k] = state[k] /\ parent'[k] = parent[k] /\ has_parent'[k] = has_parent[k]
      BY <1>2, <1>3, <1>4, <2>2
    <3>2. /\ state[k] # "FREE" /\ has_parent[k] => parent[k] \in Live /\ k \in Range(children[parent[k]])
          /\ state[k] = "EXITED" => has_parent[k]
      BY <3>1 DEF FamilyInv, NoPcbLeak, Exited
    <3>3. \A q \in Live : Range(children[q]) \subseteq Range(children'[q])
      BY <1>4, <1>t DEF Live
    <3> QED BY <1>2, <3>1, <3>2, <3>3
  <2> QED BY <2>1, <2>2
<1>8. Init_pcb \in Live' /\ \A k \in Proc : parent'[k] # k
  BY <1>2, <1>3, <1>t DEF FamilyInv
<1> QED BY <1>2, <1>5, <1>6, <1>7, <1>8 DEF FamilyInv

\* An exit ends the process: it frees the children that ended before it,
\* orphans the others, and leaves the pcb only to a parent that lists it.
LEMMA ExitFamily ==
  ASSUME FamilyInv, NEW p \in Live, p # Init_pcb, retire_pcb(p)
  PROVE  FamilyInv' /\ Live' = Live \ {p}
<1> DEFINE kids == Range(children[p])
           freed == {c \in kids : Exited(c)} \union (IF has_parent[p] THEN {} ELSE {p})
<1>t. /\ state \in [Proc -> {"FREE", "LIVE", "EXITED"}] /\ children \in [Proc -> Seq(Proc)]
      /\ arr_size \in [Proc -> Nat] /\ has_parent \in [Proc -> BOOLEAN]
      /\ parent \in [Proc -> Proc \union {Nobody}] /\ unlisted \subseteq Proc
      /\ \A q \in Live : arr_size[q] >= 1 /\ Len(children[q]) <= arr_size[q]
      /\ p \in Proc /\ state[p] = "LIVE" /\ Nobody \notin Proc
  BY ProcessAssumption DEF FamilyInv, FamilyType, Live
<1>d. \A q \in Proc : /\ IsInjective(children[q])
                      /\ \A k \in Range(children[q]) :
                           /\ q \in Live /\ state[k] # "FREE" /\ parent[k] = q /\ has_parent[k]
                           /\ k \in Proc /\ k # q
  <2>1. \A q \in Proc : \A k \in Range(children[q]) : k \in Proc
    BY <1>t DEF Range
  <2> QED BY <1>t, <2>1 DEF FamilyInv, NoDanglingChild
<1>1. /\ state' = [c \in Proc |-> IF c \in freed THEN "FREE" ELSE IF c = p THEN "EXITED" ELSE state[c]]
      /\ has_parent' = [c \in Proc |-> has_parent[c] /\ ~(c \in kids /\ ~Exited(c))]
      /\ children' = [children EXCEPT ![p] = <<>>]
      /\ parent' = [c \in Proc |-> IF parent[c] = p THEN Nobody ELSE parent[c]]
      /\ arr_size' = [arr_size EXCEPT ![p] = 0]
      /\ unlisted' = unlisted
  BY DEF retire_pcb
<1>k. /\ \A c \in kids : c \in Proc /\ c # p /\ parent[c] = p /\ has_parent[c]
      /\ \A c \in Proc : c \in freed <=> \/ c \in kids /\ state[c] = "EXITED"
                                         \/ c = p /\ ~has_parent[p]
  BY <1>d, <1>t DEF Exited
<1>2. /\ \A c \in Proc : state'[c] = IF c \in freed THEN "FREE" ELSE IF c = p THEN "EXITED" ELSE state[c]
      /\ state' \in [Proc -> {"FREE", "LIVE", "EXITED"}]
  <2> HIDE DEF freed
  <2> QED BY <1>1, <1>t
<1>3. /\ \A c \in Proc : has_parent'[c] = (has_parent[c] /\ ~(c \in kids /\ state[c] # "EXITED"))
      /\ has_parent' \in [Proc -> BOOLEAN]
  <2> HIDE DEF kids
  <2> QED BY <1>1, <1>t, Zenon DEF Exited
<1>4. /\ \A c \in Proc : parent'[c] = IF parent[c] = p THEN Nobody ELSE parent[c]
      /\ parent' \in [Proc -> Proc \union {Nobody}]
  BY <1>1, <1>t
<1>5. /\ children'[p] = <<>> /\ \A q \in Proc : q # p => children'[q] = children[q]
      /\ children' \in [Proc -> Seq(Proc)]
  <2>1. <<>> \in Seq(Proc)
    OBVIOUS
  <2> QED BY <1>1, <1>t, <2>1
<1>6. arr_size' \in [Proc -> Nat] /\ \A q \in Proc : q # p => arr_size'[q] = arr_size[q]
  BY <1>1, <1>t
<1> HIDE DEF kids, freed
<1>7. Live' = Live \ {p}
  <2>1. ASSUME NEW c \in Proc PROVE state'[c] = "LIVE" <=> c # p /\ state[c] = "LIVE"
    BY <1>2, <1>k
  <2> QED BY <2>1 DEF Live
<1>8. FamilyType'
  <2>1. ASSUME NEW q, q \in Live' PROVE arr_size'[q] >= 1 /\ Len(children'[q]) <= arr_size'[q]
    <3>1. q \in Live /\ q \in Proc /\ q # p
      BY <1>7, <2>1 DEF Live
    <3> QED BY <1>5, <1>6, <1>t, <3>1
  <2>2. \A q \in Live' : arr_size'[q] >= 1 /\ Len(children'[q]) <= arr_size'[q]
    BY <2>1
  <2>3. unlisted' \subseteq Proc
    BY <1>1, <1>t
  <2> QED BY <1>2, <1>3, <1>4, <1>5, <1>6, <2>2, <2>3 DEF FamilyType
<1>9. NoDanglingChild'
  <2> SUFFICES ASSUME NEW q \in Proc
               PROVE  /\ IsInjective(children'[q])
                      /\ \A k \in Range(children'[q]) :
                           q \in Live' /\ state'[k] # "FREE" /\ parent'[k] = q /\ has_parent'[k]
    BY DEF NoDanglingChild
  <2>1. CASE q = p
    BY <1>5, <2>1, EmptyFacts
  <2>2. CASE q # p
    <3>1. children'[q] = children[q] /\ IsInjective(children'[q])
      BY <1>5, <1>d, <2>2
    <3>2. ASSUME NEW k \in Range(children[q])
          PROVE  q \in Live' /\ state'[k] # "FREE" /\ parent'[k] = q /\ has_parent'[k]
      <4>1. k \in Proc /\ parent[k] = q /\ state[k] # "FREE" /\ has_parent[k] /\ q \in Live /\ k \notin kids
        BY <1>d, <1>k, <2>2
      <4>2. k \notin freed
        BY <1>k, <4>1
      <4> QED BY <1>2, <1>3, <1>4, <1>7, <2>2, <4>1, <4>2
    <3> QED BY <3>1, <3>2
  <2> QED BY <2>1, <2>2
<1>10. NoPcbLeak'
  <2> SUFFICES ASSUME NEW c \in Proc \ ({Init_pcb} \union unlisted')
               PROVE  /\ state'[c] # "FREE" /\ has_parent'[c] =>
                           parent'[c] \in Live' /\ c \in Range(children'[parent'[c]])
                      /\ state'[c] = "EXITED" => has_parent'[c]
    BY DEF NoPcbLeak, Exited
  <2>1. /\ state[c] # "FREE" /\ has_parent[c] => parent[c] \in Live /\ c \in Range(children[parent[c]])
        /\ state[c] = "EXITED" => has_parent[c]
    BY <1>1 DEF FamilyInv, NoPcbLeak, Exited
  <2>2. ASSUME state'[c] # "FREE", has_parent'[c]
        PROVE  parent'[c] \in Live' /\ c \in Range(children'[parent'[c]])
    <3>1. c \notin freed /\ state[c] # "FREE" /\ has_parent[c]
      BY <1>2, <1>3, <1>t, <2>2
    <3>2. parent[c] \in Live /\ c \in Range(children[parent[c]])
      BY <2>1, <3>1
    <3>3. parent[c] # p
      <4> SUFFICES ASSUME parent[c] = p PROVE FALSE
        OBVIOUS
      <4>1. c \in kids
        BY <3>2 DEF kids
      <4>2. state[c] = "EXITED"
        BY <1>3, <2>2, <4>1
      <4> QED BY <1>k, <3>1, <4>1, <4>2
    <3>4. parent[c] \in Proc
      BY <3>2 DEF Live
    <3> QED BY <1>4, <1>5, <1>7, <3>2, <3>3, <3>4
  <2>3. ASSUME state'[c] = "EXITED" PROVE has_parent'[c]
    <3>1. c \notin freed
      BY <1>2, <2>3
    <3>2. CASE c = p
      BY <1>3, <1>k, <3>1, <3>2
    <3>3. CASE c # p
      BY <1>2, <1>3, <2>1, <2>3, <3>1, <3>3
    <3> QED BY <3>2, <3>3
  <2> QED BY <2>2, <2>3
<1>11. Init_pcb \in Live' /\ \A k \in Proc : parent'[k] # k
  BY <1>4, <1>7, <1>t DEF FamilyInv
<1> QED BY <1>7, <1>8, <1>9, <1>10, <1>11 DEF FamilyInv

\* Each of the processes ps takes one exited child, which is freed; nobody
\* else's family changes.
LEMMA FindFamily ==
  ASSUME FamilyInv, NEW ps, ps \subseteq Proc, \A p \in ps : HasExitedChild(p), find_exited_child(ps)
  PROVE  /\ FamilyInv' /\ Live' = Live /\ unlisted' = unlisted
         /\ \A c \in Proc : state'[c] = "EXITED" => state[c] = "EXITED" /\ parent'[c] = parent[c]
<1> DEFINE freed == {children[p][FirstExited(p)] : p \in ps}
           sparse == {p \in ps : Len(children[p]) < arr_size[p] \div 2}
<1>t. /\ state \in [Proc -> {"FREE", "LIVE", "EXITED"}] /\ children \in [Proc -> Seq(Proc)]
      /\ arr_size \in [Proc -> Nat] /\ has_parent \in [Proc -> BOOLEAN]
      /\ parent \in [Proc -> Proc \union {Nobody}] /\ unlisted \subseteq Proc
      /\ \A q \in Live : arr_size[q] >= 1 /\ Len(children[q]) <= arr_size[q]
      /\ Nobody \notin Proc
  BY ProcessAssumption DEF FamilyInv, FamilyType
<1>d. \A q \in Proc : /\ IsInjective(children[q])
                      /\ \A k \in Range(children[q]) :
                           /\ q \in Live /\ state[k] # "FREE" /\ parent[k] = q /\ has_parent[k]
                           /\ k \in Proc
  <2>1. \A q \in Proc : \A k \in Range(children[q]) : k \in Proc
    BY <1>t DEF Range
  <2> QED BY <1>t, <2>1 DEF FamilyInv, NoDanglingChild
<1>1. /\ state' = [c \in Proc |-> IF c \in freed THEN "FREE" ELSE state[c]]
      /\ parent' = [c \in Proc |-> IF c \in freed THEN Nobody ELSE parent[c]]
      /\ children' = [p \in Proc |-> IF p \in ps THEN RemoveAt(children[p], FirstExited(p))
                                     ELSE children[p]]
      /\ \E halved \in SUBSET sparse :
           arr_size' = [p \in Proc |-> IF p \in halved THEN arr_size[p] \div 2 ELSE arr_size[p]]
      /\ has_parent' = has_parent /\ unlisted' = unlisted
  BY DEF find_exited_child
<1>2. PICK halved \in SUBSET sparse :
        arr_size' = [p \in Proc |-> IF p \in halved THEN arr_size[p] \div 2 ELSE arr_size[p]]
  BY <1>1
<1>3. ASSUME NEW p \in ps
      PROVE  /\ FirstExited(p) \in 1..Len(children[p])
             /\ children[p][FirstExited(p)] \in Range(children[p])
             /\ state[children[p][FirstExited(p)]] = "EXITED"
             /\ RemoveAt(children[p], FirstExited(p)) \in Seq(Proc)
             /\ Len(RemoveAt(children[p], FirstExited(p))) = Len(children[p]) - 1
             /\ IsInjective(RemoveAt(children[p], FirstExited(p)))
             /\ Range(RemoveAt(children[p], FirstExited(p)))
                  = Range(children[p]) \ {children[p][FirstExited(p)]}
  <2>1. p \in Proc /\ children[p] \in Seq(Proc) /\ HasExitedChild(p) /\ IsInjective(children[p])
    BY <1>d, <1>t
  <2>2. FirstExited(p) \in 1..Len(children[p]) /\ Exited(children[p][FirstExited(p)])
    BY <2>1, FirstExitedFacts
  <2>3. children[p][FirstExited(p)] \in Range(children[p])
    <3>1. DOMAIN children[p] = 1..Len(children[p])
      BY <2>1
    <3> QED BY <2>2, <3>1 DEF Range
  <2> QED BY <2>1, <2>2, <2>3, RemoveAtFacts DEF Exited
<1>4. \A c \in freed : /\ c \in Proc /\ state[c] = "EXITED"
                       /\ parent[c] \in ps /\ c = children[parent[c]][FirstExited(parent[c])]
  <2> SUFFICES ASSUME NEW p \in ps, NEW c, c = children[p][FirstExited(p)]
               PROVE  c \in Proc /\ state[c] = "EXITED" /\ parent[c] = p
    OBVIOUS
  <2> QED BY <1>3, <1>d
<1>5. \A p \in ps : children[p][FirstExited(p)] \in freed
  OBVIOUS
<1> HIDE DEF freed
<1>6. /\ \A c \in Proc : /\ state'[c] = IF c \in freed THEN "FREE" ELSE state[c]
                         /\ parent'[c] = IF c \in freed THEN Nobody ELSE parent[c]
      /\ state' \in [Proc -> {"FREE", "LIVE", "EXITED"}]
      /\ parent' \in [Proc -> Proc \union {Nobody}]
  BY <1>1, <1>t
<1>7. ASSUME NEW q \in Proc
      PROVE  /\ children'[q] \in Seq(Proc) /\ IsInjective(children'[q])
             /\ Range(children'[q]) = Range(children[q]) \ freed
             /\ Len(children'[q]) = IF q \in ps THEN Len(children[q]) - 1 ELSE Len(children[q])
  <2>1. CASE q \in ps
    <3>1. children'[q] = RemoveAt(children[q], FirstExited(q))
      BY <1>1, <2>1
    <3>2. Range(children[q]) \ {children[q][FirstExited(q)]} = Range(children[q]) \ freed
      <4>1. ASSUME NEW k \in Range(children[q]), k \in freed PROVE k = children[q][FirstExited(q)]
        BY <1>4, <1>d, <4>1
      <4> QED BY <1>5, <2>1, <4>1
    <3> QED BY <1>3, <2>1, <3>1, <3>2
  <2>2. CASE q \notin ps
    <3>1. children'[q] = children[q]
      BY <1>1, <2>2
    <3>2. \A k \in Range(children[q]) : k \notin freed
      BY <1>4, <1>d, <2>2
    <3> QED BY <1>d, <1>t, <2>2, <3>1, <3>2
  <2> QED BY <2>1, <2>2
<1>8. children' \in [Proc -> Seq(Proc)]
  <2>1. children' = [q \in Proc |-> children'[q]]
    BY <1>1
  <2> QED BY <1>7, <2>1
<1>9. \A q \in Proc : /\ arr_size'[q] \in Nat
                      /\ arr_size'[q] = arr_size[q] \/ (/\ q \in ps /\ Len(children[q]) < arr_size[q] \div 2
                                                        /\ arr_size'[q] = arr_size[q] \div 2)
  BY <1>2, <1>t
<1>10. arr_size' \in [Proc -> Nat]
  <2>1. arr_size' = [q \in Proc |-> arr_size'[q]]
    BY <1>2
  <2> QED BY <1>9, <2>1
<1>11. Live' = Live
  <2>1. ASSUME NEW c \in Proc PROVE state'[c] = "LIVE" <=> state[c] = "LIVE"
    BY <1>4, <1>6
  <2> QED BY <2>1 DEF Live
<1>12. FamilyType'
  <2>1. ASSUME NEW q, q \in Live' PROVE arr_size'[q] >= 1 /\ Len(children'[q]) <= arr_size'[q]
    <3>1. q \in Live /\ q \in Proc
      BY <1>11, <2>1 DEF Live
    <3>2. Len(children[q]) \in Nat /\ Len(children'[q]) <= Len(children[q])
      <4>1. Len(children[q]) \in Nat
        BY <1>t, <3>1
      <4> QED BY <1>7, <3>1, <4>1
    <3>3. CASE arr_size'[q] = arr_size[q]
      BY <1>t, <1>7, <3>1, <3>2, <3>3
    <3>4. CASE Len(children[q]) < arr_size[q] \div 2 /\ arr_size'[q] = arr_size[q] \div 2
      BY <1>9, <1>7, <3>1, <3>2, <3>4
    <3> QED BY <1>9, <3>1, <3>3, <3>4
  <2>2. \A q \in Live' : arr_size'[q] >= 1 /\ Len(children'[q]) <= arr_size'[q]
    BY <2>1
  <2>3. unlisted' \subseteq Proc /\ has_parent' \in [Proc -> BOOLEAN]
    BY <1>1, <1>t
  <2> QED BY <1>6, <1>8, <1>10, <2>2, <2>3 DEF FamilyType
<1>13. NoDanglingChild'
  <2> SUFFICES ASSUME NEW q \in Proc
               PROVE  /\ IsInjective(children'[q])
                      /\ \A k \in Range(children'[q]) :
                           q \in Live' /\ state'[k] # "FREE" /\ parent'[k] = q /\ has_parent'[k]
    BY DEF NoDanglingChild
  <2>1. ASSUME NEW k \in Range(children'[q])
        PROVE  q \in Live' /\ state'[k] # "FREE" /\ parent'[k] = q /\ has_parent'[k]
    <3>1. k \in Range(children[q]) /\ k \notin freed
      BY <1>7
    <3> QED BY <1>1, <1>11, <1>6, <1>d, <3>1
  <2> QED BY <1>7, <2>1
<1>14. NoPcbLeak'
  <2> SUFFICES ASSUME NEW c \in Proc \ ({Init_pcb} \union unlisted')
               PROVE  /\ state'[c] # "FREE" /\ has_parent'[c] =>
                           parent'[c] \in Live' /\ c \in Range(children'[parent'[c]])
                      /\ state'[c] = "EXITED" => has_parent'[c]
    BY DEF NoPcbLeak, Exited
  <2>1. /\ state[c] # "FREE" /\ has_parent[c] => parent[c] \in Live /\ c \in Range(children[parent[c]])
        /\ state[c] = "EXITED" => has_parent[c]
    BY <1>1 DEF FamilyInv, NoPcbLeak, Exited
  <2>2. ASSUME state'[c] # "FREE", has_parent'[c]
        PROVE  parent'[c] \in Live' /\ c \in Range(children'[parent'[c]])
    <3>1. c \notin freed /\ state[c] # "FREE" /\ has_parent[c] /\ parent'[c] = parent[c]
      BY <1>1, <1>6, <2>2
    <3>2. parent[c] \in Live /\ c \in Range(children[parent[c]]) /\ parent[c] \in Proc
      BY <2>1, <3>1 DEF Live
    <3> QED BY <1>7, <1>11, <3>1, <3>2
  <2> QED BY <1>1, <1>6, <2>1, <2>2
<1>15. Init_pcb \in Live' /\ \A k \in Proc : parent'[k] # k
  BY <1>6, <1>11, <1>t DEF FamilyInv
<1>16. \A c \in Proc : state'[c] = "EXITED" => state[c] = "EXITED" /\ parent'[c] = parent[c]
  BY <1>6
<1> QED BY <1>1, <1>11, <1>12, <1>13, <1>14, <1>15, <1>16 DEF FamilyInv
-----------------------------------------------------------------------------
(* The invariant holds *)

\* The processor goes to the first of the ready processes q: who is ready,
\* waits or sleeps is then placed, provided they were apart.
LEMMA PlacedAfter ==
  ASSUME NEW q \in Seq(Proc), IsInjective(q), SwitchToNext(q),
         wait_queue' \in Seq(Proc), IsInjective(wait_queue'), DOMAIN sleepers' \subseteq Proc,
         Range(q) \intersect Range(wait_queue') = {},
         Range(q) \intersect DOMAIN sleepers' = {},
         Range(wait_queue') \intersect DOMAIN sleepers' = {},
         Live' = Range(q) \union Range(wait_queue') \union DOMAIN sleepers'
  PROVE  Placed' /\ running' \in Proc \union {Idle} /\ main_queue' \in Seq(Proc)
<1>1. /\ running' \in Proc \union {Idle} /\ main_queue' \in Seq(Proc)
      /\ IsInjective(main_queue') /\ running' \notin Range(main_queue')
      /\ Range(q) = (Range(main_queue') \union {running'}) \ {Idle}
  BY SwitchFacts
<1>2. /\ Idle \notin Range(wait_queue') /\ Idle \notin DOMAIN sleepers'
      /\ Idle \notin Range(main_queue')
  BY <1>1, IdleAssumption DEF Range
<1>3. Range(main_queue') \subseteq Range(q) /\ (running' = Idle \/ running' \in Range(q))
  BY <1>1, <1>2
<1>4. running' \notin Range(wait_queue') /\ running' \notin DOMAIN sleepers'
  BY <1>2, <1>3
<1>5. Live' = (Range(main_queue') \union Range(wait_queue') \union DOMAIN sleepers' \union {running'}) \ {Idle}
  BY <1>1, <1>2
<1> QED BY <1>1, <1>3, <1>4, <1>5 DEF Placed

\* Who is where, as sets.
LEMMA PlacedFacts ==
  ASSUME QueueType, Placed
  PROVE  /\ Range(main_queue) \subseteq Proc /\ Range(wait_queue) \subseteq Proc
         /\ Live = (Range(main_queue) \union Range(wait_queue) \union DOMAIN sleepers)
                     \union ({running} \ {Idle})
         /\ Idle \notin Range(main_queue) \union Range(wait_queue) \union DOMAIN sleepers
<1>1. Range(main_queue) \subseteq Proc /\ Range(wait_queue) \subseteq Proc
  BY DEF QueueType, Range
<1> QED BY <1>1, IdleAssumption DEF QueueType, Placed

LEMMA InitInv == Init => IInv
<1> SUFFICES ASSUME Init PROVE IInv
  OBVIOUS
<1>a. /\ Init_pcb \in Proc /\ CHILD_ARR_SIZE \in Nat /\ CHILD_ARR_SIZE >= 1 /\ Nobody \notin Proc
      /\ Idle \notin Proc
  BY ProcessAssumption, IdleAssumption
<1>1. /\ running = Idle /\ main_queue = <<Init_pcb>> /\ wait_queue = <<>> /\ sleepers = <<>>
      /\ halted = FALSE /\ unlisted = {}
  BY DEF Init
<1>2. /\ state \in [Proc -> {"FREE", "LIVE", "EXITED"}]
      /\ \A p \in Proc : state[p] = IF p = Init_pcb THEN "LIVE" ELSE "FREE"
  BY DEF Init
<1>3. Live = {Init_pcb}
  BY <1>2, <1>a DEF Live
<1>4. children \in [Proc -> Seq(Proc)] /\ \A p \in Proc : children[p] = <<>>
  <2>1. children = [p \in Proc |-> <<>>] /\ <<>> \in Seq(Proc)
    BY DEF Init
  <2> QED BY <2>1
<1>5. arr_size \in [Proc -> Nat] /\ arr_size[Init_pcb] = CHILD_ARR_SIZE
  BY <1>a DEF Init
<1>6. /\ has_parent \in [Proc -> BOOLEAN] /\ parent \in [Proc -> Proc \union {Nobody}]
      /\ \A p \in Proc : parent[p] = Nobody
  BY DEF Init
<1>7. \A p \in Live : arr_size[p] >= 1 /\ Len(children[p]) <= arr_size[p]
  <2>1. Len(children[Init_pcb]) = 0
    BY <1>4, <1>a
  <2> QED BY <1>3, <1>5, <1>a, <2>1
<1>8. FamilyType
  BY <1>1, <1>2, <1>4, <1>5, <1>6, <1>7 DEF FamilyType
<1>9. NoDanglingChild
  BY <1>4, EmptyFacts DEF NoDanglingChild
<1>10. NoPcbLeak
  BY <1>2 DEF NoPcbLeak, Exited
<1>11. FamilyInv
  BY <1>3, <1>6, <1>8, <1>9, <1>10, <1>a DEF FamilyInv
<1>12. main_queue \in Seq(Proc) /\ IsInjective(main_queue) /\ Range(main_queue) = {Init_pcb}
  <2>1. /\ main_queue \in Seq(Proc) /\ DOMAIN main_queue = {1} /\ main_queue[1] = Init_pcb
    BY <1>1, <1>a
  <2> QED BY <2>1 DEF IsInjective, Range
<1>13. /\ wait_queue \in Seq(Proc) /\ IsInjective(wait_queue) /\ Range(wait_queue) = {}
       /\ DOMAIN sleepers = {}
  BY <1>1, EmptyFacts
<1>14. QueueType
  BY <1>1, <1>12, <1>13 DEF QueueType
<1>15. Placed
  BY <1>1, <1>3, <1>12, <1>13, <1>a DEF Placed
<1> QED BY <1>11, <1>14, <1>15 DEF IInv

\* Nothing about the family changes.
LEMMA SameFamily ==
  ASSUME FamilyInv, UNCHANGED family
  PROVE  FamilyInv' /\ Live' = Live
BY DEF family, FamilyInv, FamilyType, NoDanglingChild, NoPcbLeak, Live, Exited

\* A process forks.
LEMMA ForkInv ==
  ASSUME IInv, KernelFork
  PROVE  IInv'
<1>1. PICK c \in Proc :
        /\ state[c] = "FREE" /\ create_new_pcb(c)
        /\ add_child_proc(running, c) \/ add_child_fails(running, c)
        /\ main_queue' = schedule_process(main_queue, c)
        /\ parent' = [parent EXCEPT ![c] = running]
  BY DEF KernelFork
<1>t. /\ QueueType /\ FamilyInv /\ Placed /\ running \in Proc
      /\ running' = running /\ wait_queue' = wait_queue /\ sleepers' = sleepers /\ halted' = halted
      /\ c # Idle
  BY IdleAssumption DEF KernelFork, IInv, Trap, UserRuns
<1>2. /\ Range(main_queue) \subseteq Proc /\ Range(wait_queue) \subseteq Proc
      /\ Live = (Range(main_queue) \union Range(wait_queue) \union DOMAIN sleepers)
                  \union ({running} \ {Idle})
      /\ Idle \notin Range(main_queue) \union Range(wait_queue) \union DOMAIN sleepers
  BY <1>t, PlacedFacts
<1>3. running \in Live /\ c \notin Live
  BY <1>1, <1>2, <1>t, IdleAssumption DEF Live
<1>4. FamilyInv' /\ Live' = Live \union {c}
  BY <1>1, <1>3, <1>t, ForkFamily
<1>5. c \notin Range(main_queue) \union Range(wait_queue) \union DOMAIN sleepers \union {running}
  BY <1>2, <1>3
<1>6. /\ main_queue' \in Seq(Proc) /\ IsInjective(main_queue')
      /\ Range(main_queue') = Range(main_queue) \union {c}
  <2>1. main_queue' = Append(main_queue, c) /\ main_queue \in Seq(Proc) /\ IsInjective(main_queue)
    BY <1>1, <1>t DEF schedule_process, QueueType, Placed
  <2> QED BY <1>5, <2>1, AppendFacts
<1>7. QueueType'
  BY <1>6, <1>t DEF QueueType
<1>8. Placed'
  <2>1. /\ IsInjective(wait_queue') /\ Range(main_queue') \intersect Range(wait_queue') = {}
        /\ (Range(main_queue') \union Range(wait_queue')) \intersect DOMAIN sleepers' = {}
        /\ running' \notin Range(main_queue') \union Range(wait_queue') \union DOMAIN sleepers'
    BY <1>5, <1>6, <1>t DEF Placed
  <2>2. Live' = (Range(main_queue') \union Range(wait_queue') \union DOMAIN sleepers' \union {running'}) \ {Idle}
    BY <1>2, <1>4, <1>6, <1>t, IdleAssumption
  <2> QED BY <1>6, <2>1, <2>2 DEF Placed
<1> QED BY <1>4, <1>7, <1>8 DEF IInv

\* A process exits.
LEMMA ExitInv ==
  ASSUME IInv, KernelExit
  PROVE  IInv'
<1>t. /\ QueueType /\ FamilyInv /\ Placed /\ running \in Proc /\ running # Init_pcb /\ running # Idle
      /\ main_queue \in Seq(Proc) /\ IsInjective(main_queue) /\ SwitchToNext(main_queue)
      /\ retire_pcb(running)
      /\ wait_queue' = wait_queue /\ sleepers' = sleepers /\ halted' = halted
      /\ wait_queue' \in Seq(Proc) /\ IsInjective(wait_queue') /\ DOMAIN sleepers' \subseteq Proc
  BY IdleAssumption DEF KernelExit, IInv, Trap, UserRuns, QueueType, Placed
<1>1. Live = (Range(main_queue) \union Range(wait_queue) \union DOMAIN sleepers) \union {running}
  BY <1>t, PlacedFacts
<1>2. running \in Live
  BY <1>1
<1>3. FamilyInv' /\ Live' = Live \ {running}
  BY <1>2, <1>t, ExitFamily
<1>4. /\ Range(main_queue) \intersect Range(wait_queue) = {}
      /\ (Range(main_queue) \union Range(wait_queue)) \intersect DOMAIN sleepers = {}
      /\ running \notin Range(main_queue) \union Range(wait_queue) \union DOMAIN sleepers
  BY <1>t DEF Placed
<1>5. Live' = Range(main_queue) \union Range(wait_queue') \union DOMAIN sleepers'
  BY <1>1, <1>3, <1>4, <1>t
<1>6. Placed' /\ running' \in Proc \union {Idle} /\ main_queue' \in Seq(Proc)
  BY <1>4, <1>5, <1>t, PlacedAfter
<1>7. QueueType'
  BY <1>6, <1>t DEF QueueType
<1> QED BY <1>3, <1>6, <1>7 DEF IInv

\* A process waits for its children: it takes one or blocks.
LEMMA WaitInv ==
  ASSUME IInv, KernelWait
  PROVE  IInv'
<1>t. /\ QueueType /\ FamilyInv /\ Placed /\ running \in Proc /\ running # Idle
      /\ main_queue \in Seq(Proc) /\ IsInjective(main_queue)
      /\ wait_queue \in Seq(Proc) /\ IsInjective(wait_queue)
      /\ sleepers' = sleepers /\ halted' = halted /\ DOMAIN sleepers' \subseteq Proc
  BY IdleAssumption DEF KernelWait, IInv, Trap, UserRuns, QueueType, Placed
<1>1. CASE /\ HasExitedChild(running) /\ find_exited_child({running})
           /\ UNCHANGED <<running, main_queue, wait_queue>>
  <2>1. FamilyInv' /\ Live' = Live
    <3> DEFINE ps == {running}
    <3>1. ps \subseteq Proc /\ (\A p \in ps : HasExitedChild(p)) /\ find_exited_child(ps)
      BY <1>1, <1>t
    <3> HIDE DEF ps
    <3> QED BY <1>t, <3>1, FindFamily
  <2>2. running' = running /\ main_queue' = main_queue /\ wait_queue' = wait_queue
    BY <1>1
  <2>3. QueueType' /\ Placed'
    BY <1>t, <2>1, <2>2 DEF QueueType, Placed
  <2> QED BY <2>1, <2>3 DEF IInv
<1>2. CASE /\ wait_queue' = Append(wait_queue, running)
           /\ SwitchToNext(main_queue) /\ UNCHANGED family
  <2>1. FamilyInv' /\ Live' = Live
    BY <1>2, <1>t, SameFamily
  <2>2. Live = (Range(main_queue) \union Range(wait_queue) \union DOMAIN sleepers) \union {running}
    BY <1>t, PlacedFacts
  <2>3. /\ Range(main_queue) \intersect Range(wait_queue) = {}
        /\ (Range(main_queue) \union Range(wait_queue)) \intersect DOMAIN sleepers = {}
        /\ running \notin Range(main_queue) \union Range(wait_queue) \union DOMAIN sleepers
    BY <1>t DEF Placed
  <2>4. /\ wait_queue' \in Seq(Proc) /\ IsInjective(wait_queue')
        /\ Range(wait_queue') = Range(wait_queue) \union {running}
    BY <1>2, <1>t, <2>3, AppendFacts
  <2>5. /\ Range(main_queue) \intersect Range(wait_queue') = {}
        /\ Range(main_queue) \intersect DOMAIN sleepers' = {}
        /\ Range(wait_queue') \intersect DOMAIN sleepers' = {}
        /\ Live' = Range(main_queue) \union Range(wait_queue') \union DOMAIN sleepers'
    BY <1>t, <2>1, <2>2, <2>3, <2>4
  <2>6. Placed' /\ running' \in Proc \union {Idle} /\ main_queue' \in Seq(Proc)
    BY <1>2, <1>t, <2>4, <2>5, PlacedAfter
  <2>7. QueueType'
    BY <1>t, <2>4, <2>6 DEF QueueType
  <2> QED BY <2>1, <2>6, <2>7 DEF IInv
<1> QED BY <1>1, <1>2 DEF KernelWait

\* A process goes to sleep.
LEMMA DelayInv ==
  ASSUME IInv, KernelDelay
  PROVE  IInv'
<1>t. /\ QueueType /\ FamilyInv /\ Placed /\ running \in Proc /\ running # Idle
      /\ main_queue \in Seq(Proc) /\ IsInjective(main_queue) /\ SwitchToNext(main_queue)
      /\ UNCHANGED family /\ wait_queue' = wait_queue /\ halted' = halted
      /\ wait_queue' \in Seq(Proc) /\ IsInjective(wait_queue')
      /\ DOMAIN sleepers \subseteq Proc /\ \A p \in DOMAIN sleepers : sleepers[p] \in 1..MaxDelay
  BY IdleAssumption DEF KernelDelay, IInv, Trap, UserRuns, QueueType, Placed
<1>1. PICK t \in 1..MaxDelay :
        sleepers' = [p \in DOMAIN sleepers \union {running} |-> IF p = running THEN t ELSE sleepers[p]]
  BY DEF KernelDelay
<1>2. /\ DOMAIN sleepers' = DOMAIN sleepers \union {running}
      /\ \A p \in DOMAIN sleepers' : sleepers'[p] \in 1..MaxDelay
  <2> DEFINE D == DOMAIN sleepers \union {running}
  <2>1. /\ DOMAIN sleepers' = D
        /\ \A p \in D : sleepers'[p] = IF p = running THEN t ELSE sleepers[p]
    BY <1>1
  <2>2. \A p \in D : p = running \/ p \in DOMAIN sleepers
    OBVIOUS
  <2> HIDE DEF D
  <2>3. \A p \in D : sleepers'[p] \in 1..MaxDelay
    BY <1>t, <2>1, <2>2
  <2> QED BY <2>1, <2>3 DEF D
<1>3. FamilyInv' /\ Live' = Live
  BY <1>t, SameFamily
<1>4. Live = (Range(main_queue) \union Range(wait_queue) \union DOMAIN sleepers) \union {running}
  BY <1>t, PlacedFacts
<1>5. /\ Range(main_queue) \intersect Range(wait_queue) = {}
      /\ (Range(main_queue) \union Range(wait_queue)) \intersect DOMAIN sleepers = {}
      /\ running \notin Range(main_queue) \union Range(wait_queue) \union DOMAIN sleepers
  BY <1>t DEF Placed
<1>6. /\ Range(main_queue) \intersect Range(wait_queue') = {}
      /\ Range(main_queue) \intersect DOMAIN sleepers' = {}
      /\ Range(wait_queue') \intersect DOMAIN sleepers' = {}
      /\ Live' = Range(main_queue) \union Range(wait_queue') \union DOMAIN sleepers'
      /\ DOMAIN sleepers' \subseteq Proc
  BY <1>t, <1>2, <1>3, <1>4, <1>5
<1>7. Placed' /\ running' \in Proc \union {Idle} /\ main_queue' \in Seq(Proc)
  BY <1>t, <1>6, PlacedAfter
<1>8. QueueType'
  BY <1>2, <1>6, <1>7, <1>t DEF QueueType
<1> QED BY <1>3, <1>7, <1>8 DEF IInv

\* Whom a tick wakes, and who goes on waiting.
LEMMA WokenFacts ==
  ASSUME wait_queue \in Seq(Proc), IsInjective(wait_queue)
  PROVE  /\ Woken \in Seq(Proc) /\ IsInjective(Woken)
         /\ Range(Woken) = Range(wait_queue) \intersect {p \in Proc : HasExitedChild(p)}
         /\ StillWaiting \in Seq(Proc) /\ IsInjective(StillWaiting)
         /\ Range(StillWaiting) = Range(wait_queue) \ Range(Woken)
<1> DEFINE S == {p \in Proc : HasExitedChild(p)}
           N == Proc \ Range(Woken)
<1>1. Woken = Selected(wait_queue, S) /\ StillWaiting = Selected(wait_queue, N)
  BY DEF Woken, StillWaiting
<1>2. Range(wait_queue) \intersect N = Range(wait_queue) \ Range(Woken)
  <2>1. Range(wait_queue) \subseteq Proc
    BY DEF Range
  <2> QED BY <2>1
<1> HIDE DEF N
<1> QED BY <1>1, <1>2, SelectedFacts

\* The main queue s with the woken processes t, the due ones u and the running
\* one r added to it.
Ready(s, t, u, r) == schedule_process(s \o t \o u, r)

LEMMA ReadyFacts ==
  ASSUME NEW s \in Seq(Proc), IsInjective(s), NEW t \in Seq(Proc), IsInjective(t),
         NEW u \in Seq(Proc), IsInjective(u),
         Range(s) \intersect Range(t) = {}, Range(s) \intersect Range(u) = {},
         Range(t) \intersect Range(u) = {},
         NEW r \in Proc \union {Idle}, r \notin Range(s) \union Range(t) \union Range(u)
  PROVE  /\ Ready(s, t, u, r) \in Seq(Proc) /\ IsInjective(Ready(s, t, u, r))
         /\ Range(Ready(s, t, u, r))
              = Range(s) \union Range(t) \union Range(u) \union ({r} \ {Idle})
<1>1. s \o t \in Seq(Proc) /\ IsInjective(s \o t) /\ Range(s \o t) = Range(s) \union Range(t)
  BY ConcatFacts
<1> DEFINE st == s \o t
<1>2. st \in Seq(Proc) /\ IsInjective(st) /\ Range(st) = Range(s) \union Range(t)
  BY <1>1
<1> HIDE DEF st
<1>3. Range(st) \intersect Range(u) = {}
  BY <1>2
<1> DEFINE q == st \o u
<1>4. q \in Seq(Proc) /\ IsInjective(q) /\ Range(q) = Range(s) \union Range(t) \union Range(u)
  BY <1>2, <1>3, ConcatFacts
<1>5. s \o t \o u = q
  BY DEF st
<1> HIDE DEF q
<1>6. CASE r = Idle
  BY <1>4, <1>5, <1>6 DEF Ready, schedule_process
<1>7. CASE r # Idle
  <2>1. Ready(s, t, u, r) = Append(q, r) /\ r \in Proc /\ r \notin Range(q)
    BY <1>4, <1>5, <1>7 DEF Ready, schedule_process
  <2> QED BY <1>4, <1>7, <2>1, AppendFacts
<1> QED BY <1>6, <1>7

\* A clock tick.
LEMMA ClockInv ==
  ASSUME IInv, trap_clock_handler
  PROVE  IInv'
<1>t. /\ QueueType /\ FamilyInv /\ Placed /\ running \in Proc \union {Idle}
      /\ main_queue \in Seq(Proc) /\ IsInjective(main_queue)
      /\ wait_queue \in Seq(Proc) /\ IsInjective(wait_queue)
      /\ DOMAIN sleepers \subseteq Proc /\ \A p \in DOMAIN sleepers : sleepers[p] \in 1..MaxDelay
      /\ find_exited_child(Range(Woken)) /\ wait_queue' = StillWaiting
      /\ sleepers' = [p \in DOMAIN sleepers \ Due |-> sleepers[p] - 1]
      /\ halted' = halted
  BY DEF trap_clock_handler, IInv, QueueType, Placed
<1>1. /\ Woken \in Seq(Proc) /\ IsInjective(Woken)
      /\ Range(Woken) = Range(wait_queue) \intersect {p \in Proc : HasExitedChild(p)}
      /\ StillWaiting \in Seq(Proc) /\ IsInjective(StillWaiting)
      /\ Range(StillWaiting) = Range(wait_queue) \ Range(Woken)
  BY <1>t, WokenFacts
<1>2. FamilyInv' /\ Live' = Live
  <2> DEFINE ps == Range(Woken)
  <2>1. ps \subseteq Proc /\ (\A p \in ps : HasExitedChild(p)) /\ find_exited_child(ps)
    BY <1>1, <1>t
  <2> HIDE DEF ps
  <2> QED BY <1>t, <2>1, FindFamily
<1>3. PICK due \in SetToSeqs(Due) : Preempt(main_queue \o Woken \o due)
  BY DEF trap_clock_handler
<1>4. due \in Seq(Proc) /\ IsInjective(due) /\ Range(due) = Due /\ Due \subseteq DOMAIN sleepers
  <2>1. Due \subseteq Proc /\ Due \subseteq DOMAIN sleepers
    BY <1>t DEF Due
  <2>2. IsFiniteSet(Due)
    BY <2>1, ProcessAssumption, FS_Subset
  <2>3. due \in Seq(Due) /\ IsInjective(due) /\ Range(due) = Due
    BY <1>3, <2>2, SetToSeqsFacts
  <2> QED BY <2>1, <2>3
<1>5. /\ DOMAIN sleepers' = DOMAIN sleepers \ Due
      /\ \A p \in DOMAIN sleepers' : sleepers'[p] \in 1..MaxDelay
  <2> DEFINE D == DOMAIN sleepers \ Due
  <2>1. DOMAIN sleepers' = D /\ \A p \in D : sleepers'[p] = sleepers[p] - 1
    BY <1>t
  <2>2. \A p \in D : sleepers[p] \in 1..MaxDelay /\ sleepers[p] # 1
    BY <1>t DEF Due
  <2> HIDE DEF D
  <2>3. MaxDelay \in Nat
    BY ProcessAssumption
  <2>4. \A p \in D : sleepers'[p] \in 1..MaxDelay
    BY <2>1, <2>2, <2>3
  <2> QED BY <2>1, <2>4 DEF D
<1>6. /\ Live = (Range(main_queue) \union Range(wait_queue) \union DOMAIN sleepers)
                  \union ({running} \ {Idle})
      /\ Range(main_queue) \intersect Range(wait_queue) = {}
      /\ (Range(main_queue) \union Range(wait_queue)) \intersect DOMAIN sleepers = {}
      /\ running \notin Range(main_queue) \union Range(wait_queue) \union DOMAIN sleepers
  BY <1>t, PlacedFacts DEF Placed
<1>7. Range(Woken) \subseteq Range(wait_queue)
  BY <1>1
<1> DEFINE q == Ready(main_queue, Woken, due, running)
<1>8. /\ q \in Seq(Proc) /\ IsInjective(q)
      /\ Range(q) = Range(main_queue) \union Range(Woken) \union Due \union ({running} \ {Idle})
  <2>1. /\ Range(main_queue) \intersect Range(Woken) = {}
        /\ Range(main_queue) \intersect Range(due) = {}
        /\ Range(Woken) \intersect Range(due) = {}
        /\ running \notin Range(main_queue) \union Range(Woken) \union Range(due)
    BY <1>4, <1>6, <1>7
  <2>2. /\ q \in Seq(Proc) /\ IsInjective(q)
        /\ Range(q) = Range(main_queue) \union Range(Woken) \union Range(due) \union ({running} \ {Idle})
    <3>1. /\ Woken \in Seq(Proc) /\ IsInjective(Woken) /\ due \in Seq(Proc) /\ IsInjective(due)
          /\ main_queue \in Seq(Proc) /\ IsInjective(main_queue) /\ running \in Proc \union {Idle}
      BY <1>1, <1>4, <1>t
    <3> QED BY <2>1, <3>1, ReadyFacts
  <2> QED BY <1>4, <2>2
<1>9. SwitchToNext(q)
  BY <1>3 DEF Preempt, Ready
<1> HIDE DEF q
<1>10. /\ wait_queue' \in Seq(Proc) /\ IsInjective(wait_queue')
       /\ Range(wait_queue') = Range(wait_queue) \ Range(Woken) /\ DOMAIN sleepers' \subseteq Proc
  BY <1>1, <1>5, <1>t
<1>11. /\ Range(q) \intersect Range(wait_queue') = {}
       /\ Range(q) \intersect DOMAIN sleepers' = {}
       /\ Range(wait_queue') \intersect DOMAIN sleepers' = {}
  <2> HIDE DEF Due
  <2> QED BY <1>4, <1>5, <1>6, <1>7, <1>8, <1>10
<1>12. Live' = Range(q) \union Range(wait_queue') \union DOMAIN sleepers'
  BY <1>2, <1>4, <1>5, <1>6, <1>7, <1>8, <1>10
<1>13. Placed' /\ running' \in Proc \union {Idle} /\ main_queue' \in Seq(Proc)
  BY <1>8, <1>9, <1>10, <1>11, <1>12, PlacedAfter
<1>14. QueueType'
  BY <1>5, <1>10, <1>13, <1>t DEF QueueType
<1> QED BY <1>2, <1>13, <1>14 DEF IInv

LEMMA NextInv == IInv /\ [Next]_vars => IInv'
<1> SUFFICES ASSUME IInv, [Next]_vars PROVE IInv'
  OBVIOUS
<1>1. CASE KernelFork
  BY <1>1, ForkInv
<1>2. CASE KernelExit
  BY <1>2, ExitInv
<1>3. CASE Halt
  <2>1. /\ FamilyInv' /\ Live' = Live
        /\ running' = running /\ main_queue' = main_queue /\ wait_queue' = wait_queue
        /\ sleepers' = sleepers /\ halted' = TRUE
    BY <1>3, SameFamily DEF Halt, IInv
  <2> QED BY <2>1 DEF IInv, QueueType, Placed
<1>4. CASE KernelWait
  BY <1>4, WaitInv
<1>5. CASE KernelDelay
  BY <1>5, DelayInv
<1>6. CASE trap_clock_handler
  BY <1>6, ClockInv
<1>7. CASE UNCHANGED vars
  <2>1. /\ FamilyInv' /\ Live' = Live
        /\ running' = running /\ main_queue' = main_queue /\ wait_queue' = wait_queue
        /\ sleepers' = sleepers /\ halted' = halted
    BY <1>7, SameFamily DEF vars, IInv
  <2> QED BY <2>1 DEF IInv, QueueType, Placed
<1> QED BY <1>1, <1>2, <1>3, <1>4, <1>5, <1>6, <1>7 DEF Next

LEMMA InvHolds == Spec => []IInv
BY InitInv, NextInv, PTL DEF Spec
-----------------------------------------------------------------------------
(* What the invariant says *)

\* Every variable has its type, and the children of every process fit in an
\* array that never shrinks to nothing, however the array grew and was halved.
THEOREM TypeCorrect == Spec => []TypeOK
<1>1. IInv => TypeOK
  BY DEF IInv, QueueType, FamilyInv, FamilyType, TypeOK
<1> QED BY <1>1, InvHolds, PTL

\* A child pointer never dangles: the pcb block of a listed child is not freed
\* and used for another process while its parent lives.
THEOREM ChildPointersHold == Spec => []NoDanglingChild
<1>1. IInv => NoDanglingChild
  BY DEF IInv, FamilyInv
<1> QED BY <1>1, InvHolds, PTL

\* No pcb is kept that nobody can ask for, but for the children that
\* add_child_proc failed to list.
THEOREM PcbsAreFreed == Spec => []NoPcbLeak
<1>1. IInv => NoPcbLeak
  BY DEF IInv, FamilyInv
<1> QED BY <1>1, InvHolds, PTL

\* Processes in separate places are counted once.
LEMMA OncePlaced ==
  ASSUME QueueType, Placed
  PROVE  PlacedOnce
<1>1. ASSUME NEW p \in Proc
      PROVE  Cardinality({k \in Place : p \in At(k)}) = IF p \in Live THEN 1 ELSE 0
  <2> DEFINE K == {k \in Place : p \in At(k)}
  <2>1. /\ At("running") = {running} /\ At("main") = Range(main_queue)
        /\ At("wait") = Range(wait_queue) /\ At("sleep") = DOMAIN sleepers
    BY DEF At
  <2>2. \A k : k \in K <=> \/ k = "running" /\ p = running
                           \/ k = "main" /\ p \in Range(main_queue)
                           \/ k = "wait" /\ p \in Range(wait_queue)
                           \/ k = "sleep" /\ p \in DOMAIN sleepers
    BY <2>1 DEF Place
  <2> HIDE DEF K
  <2>3. /\ Range(main_queue) \intersect Range(wait_queue) = {}
        /\ (Range(main_queue) \union Range(wait_queue)) \intersect DOMAIN sleepers = {}
        /\ running \notin Range(main_queue) \union Range(wait_queue) \union DOMAIN sleepers
        /\ p # Idle
        /\ Live = (Range(main_queue) \union Range(wait_queue) \union DOMAIN sleepers \union {running}) \ {Idle}
    BY IdleAssumption DEF Placed
  <2>4. CASE p \in Live
    <3>1. \E k : K = {k}
      <4>1. CASE p = running
        <5>1. K = {"running"}
          BY <2>2, <2>3, <4>1
        <5> QED BY <5>1
      <4>2. CASE p \in Range(main_queue)
        <5>1. K = {"main"}
          BY <2>2, <2>3, <4>2
        <5> QED BY <5>1
      <4>3. CASE p \in Range(wait_queue)
        <5>1. K = {"wait"}
          BY <2>2, <2>3, <4>3
        <5> QED BY <5>1
      <4>4. CASE p \in DOMAIN sleepers
        <5>1. K = {"sleep"}
          BY <2>2, <2>3, <4>4
        <5> QED BY <5>1
      <4> QED BY <2>3, <2>4, <4>1, <4>2, <4>3, <4>4
    <3>2. Cardinality(K) = 1
      BY <3>1, FS_Singleton
    <3> QED BY <2>4, <3>2 DEF K
  <2>5. CASE p \notin Live
    <3>1. K = {}
      BY <2>2, <2>3, <2>5
    <3>2. Cardinality(K) = 0
      BY <3>1, FS_EmptySet
    <3> QED BY <2>5, <3>2 DEF K
  <2> QED BY <2>4, <2>5
<1> QED BY <1>1 DEF PlacedOnce, Placed

\* No fork, exit, wait, delay or tick loses a live process or puts it in two
\* places, and none leaves a dead one in any.
THEOREM EverybodyPlacedOnce == Spec => []PlacedOnce
<1>1. IInv => PlacedOnce
  BY OncePlaced DEF IInv
<1> QED BY <1>1, InvHolds, PTL

\* A clock tick leaves nobody waiting for a child that has exited, whatever
\* the number of waiters and however many of them have such a child.
THEOREM TickServesEveryWaiter == Spec => TickLeavesNoWaiter
<1> DEFINE Served == \A p \in Range(wait_queue'), c \in Proc \ unlisted :
                       ~(state'[c] = "EXITED" /\ parent'[c] = p)
<1>1. ASSUME IInv, trap_clock_handler PROVE Served
  <2> SUFFICES ASSUME NEW p, p \in Range(wait_queue'), NEW c \in Proc \ unlisted,
                      state'[c] = "EXITED", parent'[c] = p
               PROVE  FALSE
    OBVIOUS
  <2>t. /\ FamilyInv /\ wait_queue \in Seq(Proc) /\ IsInjective(wait_queue)
        /\ find_exited_child(Range(Woken)) /\ wait_queue' = StillWaiting
    BY <1>1 DEF trap_clock_handler, IInv, QueueType, Placed
  <2>1. /\ Range(Woken) = Range(wait_queue) \intersect {x \in Proc : HasExitedChild(x)}
        /\ Range(wait_queue') = Range(wait_queue) \ Range(Woken)
    BY <2>t, WokenFacts
  <2>2. state[c] = "EXITED" /\ parent[c] = p
    <3> DEFINE ps == Range(Woken)
    <3>1. ps \subseteq Proc /\ (\A x \in ps : HasExitedChild(x)) /\ find_exited_child(ps)
      BY <2>1, <2>t
    <3> HIDE DEF ps
    <3> QED BY <2>t, <3>1, FindFamily
  <2>3. c # Init_pcb
    BY <2>2, <2>t DEF FamilyInv, Live
  <2>4. p \in Proc /\ c \in Range(children[p])
    <3>1. NoPcbLeak
      BY <2>t DEF FamilyInv
    <3>2. has_parent[c]
      BY <2>2, <2>3, <3>1 DEF NoPcbLeak, Exited
    <3>3. parent[c] \in Live /\ c \in Range(children[parent[c]])
      BY <2>2, <2>3, <3>1, <3>2 DEF NoPcbLeak
    <3> QED BY <2>2, <3>3 DEF Live
  <2>5. p \in Range(Woken)
    <3>1. HasExitedChild(p)
      BY <2>2, <2>4 DEF HasExitedChild, Exited
    <3> QED BY <2>1, <2>4, <3>1
  <2> QED BY <2>1, <2>5
<1>2. IInv => [trap_clock_handler => Served]_vars
  BY <1>1
<1>3. Spec => [][trap_clock_handler => Served]_vars
  BY <1>2, InvHolds, PTL
<1> QED BY <1>3 DEF TickLeavesNoWaiter
=============================================================================
