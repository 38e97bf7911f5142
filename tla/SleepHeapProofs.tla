-------------------------- MODULE SleepHeapProofs --------------------------
(***************************************************************************)
(* Proofs about the heap of sleepers, for any number of processes, any     *)
(* array sizes and any width of int.                                       *)
(*                                                                         *)
(* The sifting loops are argued about on the wake-up times in the array:   *)
(* what a swap does to a heap that is in order but around one entry.  That *)
(* the first process of a heap is the earliest of all is the one induction *)
(* needed; it is made on the least entry that would be earlier still.      *)
(***************************************************************************)
EXTENDS SleepHeap, WellFoundedInduction, TLAPS
-----------------------------------------------------------------------------
(* Numbers *)

\* The parent of an entry of the array.
Parent(j) == (j - 1) \div 2

\* Where a parent lies.
LEMMA ParentFacts ==
  /\ \A j \in Nat \ {0} : Parent(j) \in Nat /\ Parent(j) < j
  /\ \A j \in Nat \ {0} : j = 2 * Parent(j) + 1 \/ j = 2 * Parent(j) + 2
  /\ \A k \in Nat : Parent(2 * k + 1) = k /\ Parent(2 * k + 2) = k
BY DEF Parent

\* The same within a heap of n entries.
LEMMA ParentInside ==
  ASSUME NEW n \in Nat, NEW j \in 1..(n - 1)
  PROVE  Parent(j) \in 0..(n - 1) /\ Parent(j) < j
<1>1. j \in Nat \ {0}
  OBVIOUS
<1>2. Parent(j) \in Nat /\ Parent(j) < j
  BY <1>1, ParentFacts, Zenon
<1> QED BY <1>2

\* Indices below k fit in an array of more than k entries.
LEMMA Within ==
  ASSUME NEW k \in Nat, NEW n \in Nat, k < n
  PROVE  k \in 0..(n - 1) /\ \A j \in 0..(k - 1) : j \in 0..(n - 1) /\ j < k
OBVIOUS

\* A set of natural numbers has a least one.
LEMMA FirstNatural ==
  ASSUME NEW T \in SUBSET Nat, T # {}
  PROVE  \E n \in T : \A m \in T : n <= m
<1> DEFINE R == {ss \in Nat \X Nat : ss[1] < ss[2]}
<1>1. IsWellFoundedOn(R, Nat)
  BY NatLessThanWellFounded, Zenon DEF OpToRel
<1>2. \A m, n \in Nat : m < n => <<m, n>> \in R
  OBVIOUS
<1> HIDE DEF R
<1>3. PICK n \in T : \A m \in T : ~(<<m, n>> \in R)
  BY <1>1, WFMin
<1>4. ASSUME NEW m \in T PROVE n <= m
  <2>1. m \in Nat /\ n \in Nat
    OBVIOUS
  <2>2. ~(m < n)
    BY <1>2, <1>3, <2>1, Zenon
  <2> QED BY <2>1, <2>2
<1> QED BY <1>4
-----------------------------------------------------------------------------
(* Heaps of times *)

\* n times in heap order, but for the entry x and its parent, or for the
\* entry x and its children; x's parent is no later than x's children.
Spans(w, n, x) ==
  \A j \in 1..(n - 1) : Parent(j) = x /\ x > 0 => w[Parent(x)] <= w[j]
InOrder(w, n) == \A j \in 1..(n - 1) : w[Parent(j)] <= w[j]
InOrderUp(w, n, x) ==
  Spans(w, n, x) /\ \A j \in 1..(n - 1) : j # x => w[Parent(j)] <= w[j]
InOrderDown(w, n, x) ==
  Spans(w, n, x) /\ \A j \in 1..(n - 1) : Parent(j) # x => w[Parent(j)] <= w[j]

Exchanged(w, j, k) == [w EXCEPT ![j] = w[k], ![k] = w[j]]

\* In a heap nothing is earlier than the first entry: the first one that were
\* would be earlier than its parent.
LEMMA FirstIsEarliest ==
  ASSUME NEW n \in Nat \ {0}, NEW w \in [0..(n - 1) -> Int], InOrder(w, n)
  PROVE  \A j \in 0..(n - 1) : w[0] <= w[j]
<1> DEFINE T == {j \in 0..(n - 1) : w[j] < w[0]}
<1>1. SUFFICES ASSUME T # {} PROVE FALSE
  OBVIOUS
<1>t. T \in SUBSET Nat
  OBVIOUS
<1>2. PICK m \in T : \A j \in T : m <= j
  <2> HIDE DEF T
  <2> QED BY <1>1, <1>t, FirstNatural
<1>3. m \in 1..(n - 1) /\ w[m] < w[0]
  BY <1>2
<1>4. Parent(m) \in 0..(n - 1) /\ Parent(m) < m
  BY <1>3, ParentInside
<1>5. w[Parent(m)] <= w[m]
  BY <1>3 DEF InOrder
<1>6. Parent(m) \in T
  BY <1>3, <1>4, <1>5
<1> QED BY <1>2, <1>3, <1>4, <1>6

\* A round of add_to_heap's loop moves the new entry to its parent's place.
LEMMA SwapUp ==
  ASSUME NEW n \in Nat, NEW w \in [0..(n - 1) -> Int], NEW x \in 1..(n - 1),
         NEW u, u = Parent(x), InOrderUp(w, n, x), w[x] <= w[u],
         NEW v, v = Exchanged(w, u, x)
  PROVE  InOrderUp(v, n, u)
<1>1. u \in 0..(n - 1) /\ u < x
  BY ParentInside
<1>2. /\ v[u] = w[x] /\ v[x] = w[u]
      /\ \A j \in 0..(n - 1) : j # u /\ j # x => v[j] = w[j]
  BY <1>1 DEF Exchanged
<1>3. \A j \in 1..(n - 1) : Parent(j) \in 0..(n - 1) /\ Parent(j) < j
  BY ParentInside
<1>o. /\ \A j \in 1..(n - 1) : j # x => w[Parent(j)] <= w[j]
      /\ \A j \in 1..(n - 1) : Parent(j) = x => w[u] <= w[j]
  BY DEF InOrderUp, Spans
<1>4. ASSUME NEW j \in 1..(n - 1), j # u PROVE v[Parent(j)] <= v[j]
  <2>1. CASE j = x
    BY <1>2, <2>1
  <2>2. CASE j # x /\ Parent(j) = x
    BY <1>2, <1>4, <1>o, <2>2
  <2>3. CASE j # x /\ Parent(j) = u
    <3>1. w[u] <= w[j] /\ v[j] = w[j]
      BY <1>2, <1>4, <1>o, <2>3
    <3>2. w[x] \in Int /\ w[u] \in Int /\ w[j] \in Int
      BY <1>1
    <3> QED BY <1>2, <2>3, <3>1, <3>2
  <2>4. CASE j # x /\ Parent(j) # x /\ Parent(j) # u
    <3>1. w[Parent(j)] <= w[j]
      BY <1>o, <2>4
    <3>2. v[j] = w[j]
      BY <1>2, <1>4, <2>4
    <3>3. v[Parent(j)] = w[Parent(j)]
      BY <1>2, <1>3, <2>4
    <3> QED BY <3>1, <3>2, <3>3
  <2> QED BY <2>1, <2>2, <2>3, <2>4
<1>5. ASSUME NEW j \in 1..(n - 1), Parent(j) = u, u > 0 PROVE v[Parent(u)] <= v[j]
  <2>1. u \in 1..(n - 1) /\ u # x /\ Parent(u) < u /\ Parent(u) \in 0..(n - 1)
    BY <1>1, <1>3, <1>5
  <2>2. w[Parent(u)] <= w[u] /\ v[Parent(u)] = w[Parent(u)]
    BY <1>1, <1>2, <1>o, <2>1
  <2>3. CASE j = x
    BY <1>2, <2>2, <2>3
  <2>4. CASE j # x
    <3>1. w[u] <= w[j] /\ v[j] = w[j]
      <4>1. j # u
        BY <1>3, <1>5
      <4> QED BY <1>2, <1>5, <1>o, <2>4, <4>1
    <3>2. w[Parent(u)] \in Int /\ w[u] \in Int /\ w[j] \in Int
      BY <1>1, <2>1
    <3> QED BY <2>2, <3>1, <3>2
  <2> QED BY <2>3, <2>4
<1> QED BY <1>4, <1>5 DEF InOrderUp, Spans

\* A round of remove_from_heap's loop moves the entry to the place of its
\* earlier child.
LEMMA SwapDown ==
  ASSUME NEW n \in Nat, NEW w \in [0..(n - 1) -> Int], NEW x \in 0..(n - 1),
         NEW m \in 1..(n - 1), Parent(m) = x, InOrderDown(w, n, x), w[m] <= w[x],
         \A j \in 1..(n - 1) : Parent(j) = x => w[m] <= w[j],
         NEW v, v = Exchanged(w, m, x)
  PROVE  InOrderDown(v, n, m)
<1>1. x < m
  BY ParentInside
<1>2. /\ v[m] = w[x] /\ v[x] = w[m]
      /\ \A j \in 0..(n - 1) : j # m /\ j # x => v[j] = w[j]
  BY <1>1 DEF Exchanged
<1>3. \A j \in 1..(n - 1) : Parent(j) \in 0..(n - 1) /\ Parent(j) < j
  BY ParentInside
<1>o. /\ \A j \in 1..(n - 1) : Parent(j) # x => w[Parent(j)] <= w[j]
      /\ x > 0 => w[Parent(x)] <= w[m]
  BY DEF InOrderDown, Spans
<1>4. ASSUME NEW j \in 1..(n - 1), Parent(j) # m PROVE v[Parent(j)] <= v[j]
  <2>1. CASE j = m
    BY <1>2, <2>1
  <2>2. CASE j # m /\ Parent(j) = x
    <3>1. j # x
      BY <1>3, <2>2
    <3> QED BY <1>2, <2>2, <3>1
  <2>3. CASE j = x
    <3>1. Parent(x) # x /\ Parent(x) \in 0..(n - 1)
      BY <1>3, <2>3
    <3>2. v[Parent(x)] = w[Parent(x)]
      BY <1>2, <1>4, <2>3, <3>1
    <3> QED BY <1>2, <1>o, <2>3, <3>2
  <2>4. CASE j # m /\ j # x /\ Parent(j) # x
    <3>1. w[Parent(j)] <= w[j]
      BY <1>o, <2>4
    <3>2. v[j] = w[j]
      BY <1>2, <2>4
    <3>3. v[Parent(j)] = w[Parent(j)]
      BY <1>2, <1>3, <1>4, <2>4
    <3> QED BY <3>1, <3>2, <3>3
  <2> QED BY <2>1, <2>2, <2>3, <2>4
<1>5. ASSUME NEW j \in 1..(n - 1), Parent(j) = m PROVE v[Parent(m)] <= v[j]
  <2>1. j # m /\ j # x
    BY <1>1, <1>3, <1>5
  <2> QED BY <1>1, <1>2, <1>5, <1>o, <2>1
<1> QED BY <1>4, <1>5 DEF InOrderDown, Spans

\* A new entry at the end has no children.
LEMMA Appended ==
  ASSUME NEW n \in Nat, NEW w \in [0..(n - 1) -> Int], InOrder(w, n),
         NEW v, \A j \in 0..(n - 1) : v[j] = w[j]
  PROVE  InOrderUp(v, n + 1, n)
<1>1. ASSUME NEW j \in 1..n PROVE Parent(j) \in 0..(n - 1) /\ Parent(j) # n
  <2>1. n + 1 \in Nat /\ j \in 1..((n + 1) - 1)
    OBVIOUS
  <2>2. Parent(j) \in 0..((n + 1) - 1) /\ Parent(j) < j
    BY <2>1, ParentInside
  <2> QED BY <2>2
<1>2. ASSUME NEW j \in 1..n, j # n PROVE v[Parent(j)] <= v[j]
  <2>1. j \in 1..(n - 1) /\ j \in 0..(n - 1)
    BY <1>2
  <2>2. w[Parent(j)] <= w[j]
    BY <2>1 DEF InOrder
  <2> QED BY <1>1, <2>1, <2>2
<1>3. (n + 1) - 1 = n
  OBVIOUS
<1>4. Spans(v, n + 1, n)
  BY <1>1, <1>3 DEF Spans
<1> QED BY <1>2, <1>3, <1>4 DEF InOrderUp

\* Taking the last entry for the first leaves the order below the first's
\* children.
LEMMA Removed ==
  ASSUME NEW n \in Nat \ {0}, NEW w \in [0..(n - 1) -> Int], InOrder(w, n),
         NEW v, \A j \in 1..(n - 2) : v[j] = w[j]
  PROVE  InOrderDown(v, n - 1, 0)
<1>1. (n - 1) - 1 = n - 2
  OBVIOUS
<1>2. Spans(v, n - 1, 0)
  BY DEF Spans
<1>3. ASSUME NEW j \in 1..(n - 2), Parent(j) # 0 PROVE v[Parent(j)] <= v[j]
  <2>1. j \in 1..(n - 1)
    OBVIOUS
  <2>2. Parent(j) \in 0..(n - 1) /\ Parent(j) < j
    BY <2>1, ParentInside
  <2>3. Parent(j) \in 1..(n - 2)
    BY <1>3, <2>2
  <2>4. w[Parent(j)] <= w[j]
    BY <2>1 DEF InOrder
  <2> QED BY <2>3, <2>4
<1> QED BY <1>1, <1>2, <1>3 DEF InOrderDown

\* The loop of add_to_heap ends with a heap.
LEMMA UpEnds ==
  ASSUME NEW n \in Nat, NEW w \in [0..(n - 1) -> Int], NEW x \in 0..(n - 1),
         InOrderUp(w, n, x), x > 0 => w[Parent(x)] < w[x]
  PROVE  InOrder(w, n)
<1> SUFFICES ASSUME NEW j \in 1..(n - 1) PROVE w[Parent(j)] <= w[j]
  BY DEF InOrder
<1>1. CASE j = x
  <2>1. Parent(x) \in 0..(n - 1) /\ x > 0
    BY <1>1, ParentInside
  <2> QED BY <1>1, <2>1
<1>2. CASE j # x
  BY <1>2 DEF InOrderUp
<1> QED BY <1>1, <1>2

\* The loop of remove_from_heap ends with a heap.
LEMMA DownEnds ==
  ASSUME NEW n \in Nat, NEW w \in [0..(n - 1) -> Int], NEW x,
         InOrderDown(w, n, x), \A j \in 1..(n - 1) : Parent(j) = x => w[x] <= w[j]
  PROVE  InOrder(w, n)
BY DEF InOrder, InOrderDown
-----------------------------------------------------------------------------
(* The inductive invariant *)

\* The wake-up times in the array.
Keys == [j \in 0..(length - 1) |-> wake_up(arr[j])]

\* The first length entries are processes, each in the heap once.
Filled == \A j \in 0..(length - 1) : arr[j] \in Proc
Distinct == \A j, k \in 0..(length - 1) : arr[j] = arr[k] => j = k

\* The sifting loops are at an entry of the heap; after the last process
\* was removed, at the first.
IndexOK ==
  /\ loop = "up" => i < length
  /\ loop = "down" => i < length \/ i = 0

\* HeapOrder, as what it says in each loop.
Ordered ==
  /\ loop \in {"none", "wake"} => InOrder(Keys, length)
  /\ loop = "up" => InOrderUp(Keys, length, i)
  /\ loop = "down" => InOrderDown(Keys, length, i)

IInv == TypeOK /\ Filled /\ Distinct /\ IndexOK /\ Ordered

\* A wake-up time is an integer, in the past when the sum overflows.
LEMMA KeysType ==
  ASSUME TypeOK, Filled
  PROVE  Keys \in [0..(length - 1) -> Int] /\ length \in Nat
<1>1. ASSUME NEW j \in 0..(length - 1) PROVE wake_up(arr[j]) \in Int
  <2>1. arr[j] \in Proc
    BY DEF Filled
  <2>2. due[arr[j]] \in Nat /\ INT_MAX \in Nat
    BY <2>1, HeapAssumption DEF TypeOK
  <2> QED BY <2>2 DEF wake_up
<1> QED BY <1>1 DEF Keys, TypeOK

LEMMA KeyAt ==
  ASSUME NEW j \in 0..(length - 1)
  PROVE  Keys[j] = wake_up(arr[j])
BY DEF Keys

\* The invariant has HeapOrder.
LEMMA OrderedIsHeapOrder ==
  ASSUME IInv
  PROVE  HeapOrder
<1>1. length \in Nat /\ i \in Nat /\ loop \in {"none", "up", "wake", "down"}
  BY DEF IInv, TypeOK
<1> SUFFICES ASSUME NEW j \in 1..(length - 1)
             PROVE  /\ \/ wake_up(arr[Parent(j)]) <= wake_up(arr[j])
                       \/ loop = "up" /\ j = i
                       \/ loop = "down" /\ Parent(j) = i
                    /\ loop \in {"up", "down"} /\ Parent(j) = i /\ i > 0 =>
                         wake_up(arr[Parent(i)]) <= wake_up(arr[j])
  BY DEF HeapOrder, Parent
<1>2. Parent(j) \in 0..(length - 1) /\ j \in 0..(length - 1) /\ Parent(j) < j
  BY <1>1, ParentInside
<1>3. Keys[j] = wake_up(arr[j]) /\ Keys[Parent(j)] = wake_up(arr[Parent(j)])
  BY <1>2, KeyAt
<1>4. CASE loop \in {"none", "wake"}
  <2>1. Keys[Parent(j)] <= Keys[j]
    BY <1>4 DEF IInv, Ordered, InOrder
  <2> QED BY <1>3, <1>4, <2>1
<1>5. CASE loop \in {"up", "down"}
  <2>1. Spans(Keys, length, i)
    BY <1>5 DEF IInv, Ordered, InOrderUp, InOrderDown
  <2>2. ASSUME Parent(j) = i, i > 0 PROVE wake_up(arr[Parent(i)]) <= wake_up(arr[j])
    <3>1. Keys[Parent(i)] <= Keys[j]
      BY <2>1, <2>2 DEF Spans
    <3>2. i \in 1..(length - 1)
      BY <1>1, <1>2, <2>2
    <3>3. Parent(i) \in 0..(length - 1)
      BY <1>1, <3>2, ParentInside
    <3>4. Keys[Parent(i)] = wake_up(arr[Parent(i)])
      BY <3>3, KeyAt
    <3> QED BY <1>3, <3>1, <3>4
  <2>3. \/ Keys[Parent(j)] <= Keys[j]
        \/ loop = "up" /\ j = i
        \/ loop = "down" /\ Parent(j) = i
    BY <1>5 DEF IInv, Ordered, InOrderUp, InOrderDown
  <2> QED BY <1>3, <2>2, <2>3
<1> QED BY <1>1, <1>4, <1>5
-----------------------------------------------------------------------------
(* The steps *)

\* What TypeOK says, with the entries of the heap.
LEMMA TypeFacts ==
  ASSUME IInv
  PROVE  /\ current_size \in Nat \ {0} /\ length \in Nat /\ length <= current_size
         /\ arr \in [0..(current_size - 1) -> Proc \union {NULL}]
         /\ num_ticks \in 0..MaxTick /\ due \in [Proc -> Nat] /\ i \in Nat
         /\ \A j \in 0..(length - 1) : arr[j] \in Proc /\ j \in 0..(current_size - 1)
BY DEF IInv, TypeOK, Filled

\* A heap with the same processes at the same places has the same times.
LEMMA SameHeap ==
  ASSUME IInv, length' = length, due' = due, \A j \in 0..(length - 1) : arr'[j] = arr[j]
  PROVE  Keys' = Keys /\ Members' = Members /\ Filled' /\ Distinct'
<1>1. Keys' = Keys
  BY DEF Keys, wake_up
<1>2. Members' = Members
  BY DEF Members
<1>3. Filled' /\ Distinct'
  BY DEF IInv, Filled, Distinct
<1> QED BY <1>1, <1>2, <1>3

\* A swap moves two times, and no process comes or goes.
LEMMA SwapStep ==
  ASSUME IInv, NEW a \in 0..(length - 1), NEW b \in 0..(length - 1), a # b,
         arr' = Swapped(a, b), length' = length, due' = due
  PROVE  /\ arr' \in [0..(current_size - 1) -> Proc \union {NULL}]
         /\ Keys' = Exchanged(Keys, a, b) /\ Members' = Members /\ Filled' /\ Distinct'
<1>t. /\ arr \in [0..(current_size - 1) -> Proc \union {NULL}] /\ length \in Nat
      /\ a \in 0..(current_size - 1) /\ b \in 0..(current_size - 1)
      /\ \A j \in 0..(length - 1) : arr[j] \in Proc /\ j \in 0..(current_size - 1)
  BY TypeFacts
<1>1. /\ arr'[a] = arr[b] /\ arr'[b] = arr[a]
      /\ \A j \in 0..(length - 1) : j # a /\ j # b => arr'[j] = arr[j]
  BY <1>t DEF Swapped
<1>2. arr' \in [0..(current_size - 1) -> Proc \union {NULL}]
  BY <1>t DEF Swapped
<1>3. Keys' = Exchanged(Keys, a, b)
  <2>1. Keys' = [j \in 0..(length - 1) |-> wake_up(arr'[j])]
    BY DEF Keys, wake_up
  <2>2. ASSUME NEW j \in 0..(length - 1) PROVE wake_up(arr'[j]) = Exchanged(Keys, a, b)[j]
    <3>1. /\ Exchanged(Keys, a, b)[j] =
               IF j = b THEN Keys[a] ELSE IF j = a THEN Keys[b] ELSE Keys[j]
      BY DEF Keys, Exchanged
    <3>2. Keys[a] = wake_up(arr[a]) /\ Keys[b] = wake_up(arr[b]) /\ Keys[j] = wake_up(arr[j])
      BY KeyAt
    <3>3. CASE j = a
      BY <1>1, <3>1, <3>2, <3>3
    <3>4. CASE j = b
      BY <1>1, <3>1, <3>2, <3>4
    <3>5. CASE j # a /\ j # b
      BY <1>1, <3>1, <3>2, <3>5
    <3> QED BY <3>3, <3>4, <3>5
  <2>3. Exchanged(Keys, a, b) = [j \in 0..(length - 1) |-> Exchanged(Keys, a, b)[j]]
    BY DEF Exchanged, Keys
  <2> HIDE DEF Exchanged
  <2> QED BY <2>1, <2>2, <2>3
<1>4. Members' = Members
  <2>1. Members' = {arr'[j] : j \in 0..(length - 1)}
    BY DEF Members
  <2>2. ASSUME NEW j \in 0..(length - 1)
        PROVE  /\ \E k \in 0..(length - 1) : arr'[j] = arr[k]
               /\ \E k \in 0..(length - 1) : arr[j] = arr'[k]
    <3>1. CASE j = a
      BY <1>1, <3>1
    <3>2. CASE j = b
      BY <1>1, <3>2
    <3>3. CASE j # a /\ j # b
      BY <1>1, <3>3
    <3> QED BY <3>1, <3>2, <3>3
  <2> QED BY <2>1, <2>2 DEF Members
<1>5. Filled'
  BY <1>1, <1>t DEF Filled
<1>6. Distinct'
  <2> SUFFICES ASSUME NEW j \in 0..(length - 1), NEW k \in 0..(length - 1),
                      arr'[j] = arr'[k]
               PROVE  j = k
    BY DEF Distinct
  <2>1. \A x, y \in 0..(length - 1) : arr[x] = arr[y] => x = y
    BY DEF IInv, Distinct
  <2> QED BY <1>1, <2>1
<1> QED BY <1>2, <1>3, <1>4, <1>5, <1>6

\* The new process comes last, and the others keep their places and times.
LEMMA SleepStep ==
  ASSUME IInv, NEW p \in Proc, NEW t \in Delays, put_to_sleep(p, t)
  PROVE  IInv' /\ Members' = Members \union {p}
<1>t. /\ current_size \in Nat \ {0} /\ length \in Nat /\ length <= current_size
      /\ arr \in [0..(current_size - 1) -> Proc \union {NULL}]
      /\ num_ticks \in 0..MaxTick /\ due \in [Proc -> Nat]
      /\ \A j \in 0..(length - 1) : arr[j] \in Proc /\ j \in 0..(current_size - 1)
  BY TypeFacts
<1>a. /\ t \in Nat /\ MaxTick \in Nat /\ INT_MAX \in Nat
  BY HeapAssumption
<1>s. /\ current_size' = IF length >= current_size THEN current_size * 2 ELSE current_size
      /\ arr' = [resize_heap(current_size') EXCEPT ![length] = p]
      /\ length' = length + 1 /\ i' = length /\ loop' = "up" /\ loop = "none"
      /\ p \notin Members /\ due' = [due EXCEPT ![p] = num_ticks + t]
      /\ num_ticks' = num_ticks
  BY DEF put_to_sleep, add_to_heap
<1>1. current_size' \in Nat \ {0} /\ length < current_size' /\ current_size <= current_size'
  BY <1>t, <1>s
<1>2. DOMAIN resize_heap(current_size') = 0..(current_size' - 1)
  BY DEF resize_heap
<1>3. ASSUME NEW j \in 0..(current_size' - 1)
      PROVE  /\ j = length => arr'[j] = p
             /\ j < length => arr'[j] = arr[j]
             /\ j > length => arr'[j] = NULL
  <2>1. /\ j = length => arr'[j] = p
        /\ j # length => arr'[j] = resize_heap(current_size')[j]
    BY <1>s, <1>2
  <2>2. resize_heap(current_size')[j] = IF j < length THEN arr[j] ELSE NULL
    BY DEF resize_heap
  <2> QED BY <1>t, <2>1, <2>2
<1>4. arr' \in [0..(current_size' - 1) -> Proc \union {NULL}]
  <2>1. arr' = [j \in 0..(current_size' - 1) |-> arr'[j]]
    BY <1>s, <1>2
  <2>2. \A j \in 0..(current_size' - 1) : arr'[j] \in Proc \union {NULL}
    <3> SUFFICES ASSUME NEW j \in 0..(current_size' - 1)
                 PROVE  arr'[j] \in Proc \union {NULL}
      OBVIOUS
    <3>1. j < length \/ j = length \/ j > length
      BY <1>t
    <3>2. j < length => arr[j] \in Proc
      BY <1>t
    <3> QED BY <1>3, <3>1, <3>2
  <2> QED BY <2>1, <2>2
<1>5. arr'[length] = p /\ \A j \in 0..(length - 1) : arr'[j] = arr[j] /\ arr[j] # p
  <2>1. \A j \in 0..(length - 1) : arr[j] # p
    BY <1>s DEF Members
  <2>n. length \in Nat /\ current_size' \in Nat /\ length < current_size'
    BY <1>t, <1>1
  <2>2. length \in 0..(current_size' - 1)
    BY <2>n, Within
  <2>3. \A j \in 0..(length - 1) : j \in 0..(current_size' - 1) /\ j < length
    BY <2>n, Within
  <2>4. arr'[length] = p
    BY <1>3, <2>2
  <2>5. \A j \in 0..(length - 1) : arr'[j] = arr[j]
    BY <1>3, <2>3
  <2> QED BY <2>1, <2>4, <2>5
<1>6. due' \in [Proc -> Nat] /\ num_ticks + t \in Nat
  BY <1>t, <1>a, <1>s
<1>7. TypeOK'
  <2>1. length' \in 0..current_size'
    BY <1>t, <1>s, <1>1
  <2> QED BY <1>t, <1>s, <1>1, <1>4, <1>6, <2>1 DEF TypeOK
<1>8. \A j \in 0..length : j \in 0..(length - 1) \/ j = length
  BY <1>t
<1>9. length' - 1 = length
  BY <1>s, <1>t
<1>10. Filled'
  BY <1>t, <1>5, <1>8, <1>9 DEF Filled
<1>11. Distinct'
  <2> SUFFICES ASSUME NEW j \in 0..length, NEW k \in 0..length, arr'[j] = arr'[k]
               PROVE  j = k
    BY <1>9 DEF Distinct
  <2>1. \A x, y \in 0..(length - 1) : arr[x] = arr[y] => x = y
    BY DEF IInv, Distinct
  <2> QED BY <1>5, <1>8, <2>1
<1>12. IndexOK'
  BY <1>t, <1>s DEF IndexOK
<1>13. \A j \in 0..(length - 1) : Keys'[j] = Keys[j]
  <2> SUFFICES ASSUME NEW j \in 0..(length - 1) PROVE Keys'[j] = Keys[j]
    OBVIOUS
  <2>1. due'[arr'[j]] = due[arr[j]]
    BY <1>t, <1>s, <1>5
  <2>2. j \in 0..(length' - 1)
    BY <1>t, <1>s
  <2> QED BY <2>1, <2>2 DEF Keys, wake_up
<1>14. Ordered'
  <2>1. InOrder(Keys, length)
    BY <1>s DEF IInv, Ordered
  <2>2. Keys \in [0..(length - 1) -> Int]
    BY KeysType DEF IInv
  <2>3. InOrderUp(Keys', length + 1, length)
    <3> HIDE DEF Keys
    <3> QED BY <1>t, <1>13, <2>1, <2>2, Appended
  <2>4. InOrderUp(Keys', length', i')
    BY <1>s, <2>3
  <2> QED BY <1>s, <2>4 DEF Ordered
<1>15. Members' = Members \union {p}
  <2>1. Members' = {arr'[j] : j \in 0..length}
    BY <1>9 DEF Members
  <2>2. length \in 0..length /\ \A j \in 0..(length - 1) : j \in 0..length
    BY <1>t
  <2> QED BY <1>5, <1>8, <2>1, <2>2 DEF Members
<1> QED BY <1>7, <1>10, <1>11, <1>12, <1>14, <1>15 DEF IInv

\* The loop of add_to_heap: the new process goes up, or is in its place.
LEMMA SiftUpStep ==
  ASSUME IInv, SiftUp
  PROVE  IInv' /\ Members' = Members
<1> DEFINE up == Parent(i)
<1>t. /\ current_size \in Nat \ {0} /\ length \in Nat /\ i \in Nat
      /\ i \in 0..(length - 1)
  BY TypeFacts DEF IInv, IndexOK, SiftUp
<1>k. Keys \in [0..(length - 1) -> Int] /\ InOrderUp(Keys, length, i)
  BY KeysType DEF IInv, Ordered, SiftUp
<1>s. /\ length' = length /\ current_size' = current_size /\ num_ticks' = num_ticks
      /\ due' = due /\ loop = "up"
  BY DEF SiftUp
<1>1. CASE /\ i > 0 => compare(arr[up], arr[i])
           /\ loop' = "none" /\ arr' = arr /\ i' = i
  <2>1. Keys' = Keys /\ Members' = Members /\ Filled' /\ Distinct'
    BY <1>1, <1>s, SameHeap
  <2>2. i > 0 => Keys[up] < Keys[i]
    <3> SUFFICES ASSUME i > 0 PROVE Keys[up] < Keys[i]
      OBVIOUS
    <3>1. i \in 1..(length - 1)
      BY <1>t
    <3>2. up \in 0..(length - 1)
      BY <1>t, <3>1, ParentInside
    <3>3. Keys[up] = wake_up(arr[up]) /\ Keys[i] = wake_up(arr[i])
      BY <1>t, <3>2, KeyAt
    <3> QED BY <1>1, <3>3 DEF compare
  <2>3. InOrder(Keys, length)
    BY <1>t, <1>k, <2>2, UpEnds
  <2>4. Ordered'
    BY <1>1, <1>s, <2>1, <2>3 DEF Ordered
  <2>5. TypeOK' /\ IndexOK'
    BY <1>1, <1>s DEF IInv, TypeOK, IndexOK
  <2> QED BY <2>1, <2>4, <2>5 DEF IInv
<1>2. CASE /\ i > 0 /\ ~compare(arr[up], arr[i])
           /\ arr' = Swapped(up, i) /\ i' = up /\ loop' = loop
  <2>1. i \in 1..(length - 1)
    BY <1>2, <1>t
  <2>2. up \in 0..(length - 1) /\ up < i
    BY <1>t, <2>1, ParentInside
  <2>3. /\ arr' \in [0..(current_size - 1) -> Proc \union {NULL}]
        /\ Keys' = Exchanged(Keys, up, i) /\ Members' = Members /\ Filled' /\ Distinct'
    BY <1>2, <1>s, <1>t, <2>2, SwapStep
  <2>4. Keys[i] <= Keys[up]
    <3>1. Keys[up] = wake_up(arr[up]) /\ Keys[i] = wake_up(arr[i])
      BY <1>t, <2>2, KeyAt
    <3>2. Keys[up] \in Int /\ Keys[i] \in Int
      BY <1>k, <1>t, <2>2
    <3> QED BY <1>2, <3>1, <3>2 DEF compare
  <2>5. InOrderUp(Keys', length, up)
    BY <1>k, <1>t, <2>1, <2>3, <2>4, SwapUp
  <2>6. Ordered'
    BY <1>2, <1>s, <2>5 DEF Ordered
  <2>7. TypeOK'
    BY <1>2, <1>s, <2>2, <2>3 DEF IInv, TypeOK
  <2>8. IndexOK'
    BY <1>2, <1>s, <1>t, <2>2 DEF IndexOK
  <2> QED BY <2>3, <2>6, <2>7, <2>8 DEF IInv
<1> QED BY <1>1, <1>2 DEF SiftUp, Parent

\* The clock's tick leaves the heap alone.
LEMMA TickStep ==
  ASSUME IInv, increment_ticks
  PROVE  IInv' /\ Members' = Members
<1>s. /\ arr' = arr /\ length' = length /\ current_size' = current_size /\ due' = due
      /\ loop = "none" /\ loop' = "wake" /\ i' = i
      /\ num_ticks' = num_ticks + 1 /\ num_ticks < MaxTick
  BY DEF increment_ticks, heap
<1>1. Keys' = Keys /\ Members' = Members /\ Filled' /\ Distinct'
  BY <1>s, SameHeap
<1>2. TypeOK'
  <2>1. num_ticks' \in 0..MaxTick
    BY <1>s, TypeFacts, HeapAssumption
  <2> QED BY <1>s, <2>1 DEF IInv, TypeOK
<1>3. Ordered' /\ IndexOK'
  BY <1>s, <1>1 DEF IInv, Ordered, IndexOK
<1> QED BY <1>1, <1>2, <1>3 DEF IInv

\* The handler ends.
LEMMA WakeEndsStep ==
  ASSUME IInv, WakeEnds
  PROVE  IInv' /\ Members' = Members
<1>s. /\ arr' = arr /\ length' = length /\ current_size' = current_size /\ due' = due
      /\ loop = "wake" /\ loop' = "none" /\ i' = i /\ num_ticks' = num_ticks
  BY DEF WakeEnds, heap
<1>1. Keys' = Keys /\ Members' = Members /\ Filled' /\ Distinct'
  BY <1>s, SameHeap
<1>2. TypeOK' /\ Ordered' /\ IndexOK'
  BY <1>s, <1>1 DEF IInv, TypeOK, Ordered, IndexOK
<1> QED BY <1>1, <1>2 DEF IInv

\* The first process leaves, and only it.
LEMMA RemoveStep ==
  ASSUME IInv, remove_from_heap
  PROVE  IInv' /\ Members' = Members \ {arr[0]} /\ arr[0] \in Members
<1>t. /\ current_size \in Nat \ {0} /\ length \in Nat /\ length <= current_size
      /\ arr \in [0..(current_size - 1) -> Proc \union {NULL}]
      /\ due \in [Proc -> Nat]
      /\ \A j \in 0..(length - 1) : arr[j] \in Proc /\ j \in 0..(current_size - 1)
  BY TypeFacts
<1>s. /\ arr' = [arr EXCEPT ![0] = arr[length - 1]] /\ length' = length - 1
      /\ due' = [due EXCEPT ![arr[0]] = 0] /\ i' = 0 /\ loop = "wake" /\ loop' = "down"
      /\ current_size' = current_size /\ num_ticks' = num_ticks
  BY DEF remove_from_heap
<1>l. length > 0 /\ length - 1 \in Nat /\ (length - 1) - 1 = length - 2
  BY <1>t DEF remove_from_heap, FirstIsDue
<1>e. 0 \in 0..(length - 1) /\ length - 1 \in 0..(length - 1)
  BY <1>l, <1>t
<1>d. \A x, y \in 0..(length - 1) : arr[x] = arr[y] => x = y
  BY DEF IInv, Distinct
<1>r. /\ \A j \in 0..(length - 2) : j \in 0..(length - 1) /\ j # length - 1
      /\ \A j \in 0..(length - 1) : j # length - 1 => j \in 0..(length - 2)
  BY <1>t, <1>l
<1>1. /\ arr'[0] = arr[length - 1]
      /\ \A j \in 0..(length - 1) : j # 0 => arr'[j] = arr[j]
  BY <1>e, <1>s, <1>t
<1>2. arr' \in [0..(current_size - 1) -> Proc \union {NULL}]
  <2>1. arr[length - 1] \in Proc
    BY <1>e, <1>t
  <2> QED BY <1>s, <1>t, <2>1
<1>3. TypeOK'
  <2>1. due' \in [Proc -> Nat]
    BY <1>s, <1>t
  <2>2. length' \in 0..current_size'
    BY <1>l, <1>s, <1>t
  <2> QED BY <1>2, <1>s, <2>1, <2>2 DEF IInv, TypeOK
<1>4. Filled'
  <2> SUFFICES ASSUME NEW j \in 0..(length - 2) PROVE arr'[j] \in Proc
    BY <1>l, <1>s DEF Filled
  <2>1. arr[j] \in Proc /\ arr[length - 1] \in Proc
    BY <1>e, <1>r, <1>t
  <2> QED BY <1>1, <1>r, <2>1
<1>5. Distinct'
  <2> SUFFICES ASSUME NEW j \in 0..(length - 2), NEW k \in 0..(length - 2),
                      arr'[j] = arr'[k]
               PROVE  j = k
    BY <1>l, <1>s DEF Distinct
  <2>1. /\ j \in 0..(length - 1) /\ k \in 0..(length - 1)
        /\ j # length - 1 /\ k # length - 1
    BY <1>r
  <2> QED BY <1>1, <1>d, <1>e, <2>1
<1>6. IndexOK'
  BY <1>s DEF IndexOK
<1>7. \A j \in 1..(length - 2) : Keys'[j] = Keys[j]
  <2> SUFFICES ASSUME NEW j \in 1..(length - 2) PROVE Keys'[j] = Keys[j]
    OBVIOUS
  <2>1. j \in 0..(length - 1) /\ j # 0 /\ j \in 0..(length - 2)
    BY <1>t
  <2>2. arr[j] # arr[0] /\ arr[j] \in Proc
    BY <1>d, <1>e, <1>t, <2>1
  <2>3. due'[arr'[j]] = due[arr[j]]
    BY <1>1, <1>s, <1>t, <2>1, <2>2
  <2>4. j \in 0..(length' - 1)
    BY <1>l, <1>s, <2>1
  <2> QED BY <2>1, <2>3, <2>4 DEF Keys, wake_up
<1>8. Ordered'
  <2>1. InOrder(Keys, length)
    BY <1>s DEF IInv, Ordered
  <2>2. Keys \in [0..(length - 1) -> Int]
    BY KeysType DEF IInv
  <2>3. length \in Nat \ {0}
    BY <1>l, <1>t
  <2>4. InOrderDown(Keys', length - 1, 0)
    BY <1>7, <2>1, <2>2, <2>3, Removed
  <2> QED BY <1>s, <2>4 DEF Ordered
<1>9. Members' = Members \ {arr[0]}
  <2>1. Members' = {arr'[j] : j \in 0..(length - 2)}
    BY <1>l, <1>s DEF Members
  <2>2. ASSUME NEW j \in 0..(length - 2)
        PROVE  arr'[j] # arr[0] /\ \E k \in 0..(length - 1) : arr'[j] = arr[k]
    <3>1. j \in 0..(length - 1) /\ j # length - 1
      BY <1>r
    <3>2. CASE j = 0
      <4>1. arr'[j] = arr[length - 1] /\ length - 1 # 0
        BY <1>1, <3>1, <3>2
      <4> QED BY <1>d, <1>e, <4>1
    <3>3. CASE j # 0
      BY <1>1, <1>d, <1>e, <3>1, <3>3
    <3> QED BY <3>2, <3>3
  <2>3. ASSUME NEW j \in 0..(length - 1), arr[j] # arr[0]
        PROVE  \E k \in 0..(length - 2) : arr[j] = arr'[k]
    <3>1. j # 0
      BY <2>3
    <3>2. CASE j = length - 1
      <4>1. 0 \in 0..(length - 2)
        BY <1>l, <1>t, <3>1, <3>2
      <4> QED BY <1>1, <3>2, <4>1
    <3>3. CASE j # length - 1
      BY <1>1, <1>r, <3>1, <3>3
    <3> QED BY <3>2, <3>3
  <2>4. Members' \subseteq Members \ {arr[0]}
    BY <2>1, <2>2 DEF Members
  <2>5. Members \ {arr[0]} \subseteq Members'
    BY <2>1, <2>3 DEF Members
  <2> QED BY <2>4, <2>5
<1>10. arr[0] \in Members
  BY <1>e DEF Members
<1> QED BY <1>3, <1>4, <1>5, <1>6, <1>8, <1>9, <1>10 DEF IInv

\* The children of an entry.
LEMMA ChildrenOf ==
  ASSUME NEW n \in Nat, NEW x \in Nat, NEW j \in 1..(n - 1), Parent(j) = x
  PROVE  /\ j = 2 * x + 1 \/ j = 2 * x + 2
         /\ j = 2 * x + 1 => 2 * x + 1 < n
         /\ j = 2 * x + 2 => 2 * x + 2 < n
<1>1. j \in Nat \ {0} /\ j < n
  OBVIOUS
<1>2. j = 2 * x + 1 \/ j = 2 * x + 2
  BY <1>1, ParentFacts, Zenon
<1> QED BY <1>1, <1>2

\* What the comparisons of remove_from_heap's loop find: the earliest of an
\* entry and its children.
LEMMA LeastFacts ==
  ASSUME IInv, loop = "down"
  PROVE  /\ least # i => /\ i \in 0..(length - 1) /\ least \in 1..(length - 1)
                         /\ Parent(least) = i /\ Keys[least] <= Keys[i]
         /\ \A j \in 1..(length - 1) : Parent(j) = i => Keys[least] <= Keys[j]
<1> DEFINE left  == 2 * i + 1
           right == 2 * i + 2
           l == IF left < length /\ compare(arr[left], arr[i]) THEN left ELSE i
<1>t. length \in Nat /\ i \in Nat /\ Keys \in [0..(length - 1) -> Int]
  BY TypeFacts, KeysType DEF IInv
<1>p. Parent(left) = i /\ Parent(right) = i
  BY <1>t, ParentFacts
<1>l. least = IF right < length /\ compare(arr[right], arr[l]) THEN right ELSE l
  BY DEF least
<1>c. \A j \in 1..(length - 1) : Parent(j) = i =>
         (j = left /\ left < length) \/ (j = right /\ right < length)
  BY <1>t, ChildrenOf
<1>1. CASE left >= length
  <2>1. ~(left < length) /\ ~(right < length)
    BY <1>1, <1>t
  <2>2. least = i
    BY <1>l, <2>1
  <2> QED BY <1>c, <2>1, <2>2
<1>2. CASE left < length
  <2>1. i \in 0..(length - 1) /\ left \in 1..(length - 1) /\ left \in 0..(length - 1)
    BY <1>2, <1>t
  <2>k. /\ Keys[i] = wake_up(arr[i]) /\ Keys[left] = wake_up(arr[left])
        /\ Keys[i] \in Int /\ Keys[left] \in Int
    BY <1>t, <2>1, KeyAt
  <2>2. /\ l \in {i, left} /\ l \in 0..(length - 1)
        /\ Keys[l] <= Keys[i] /\ Keys[l] <= Keys[left]
    <3>1. CASE compare(arr[left], arr[i])
      <4>1. l = left /\ Keys[left] < Keys[i]
        BY <1>2, <2>k, <3>1 DEF compare
      <4> HIDE DEF l
      <4> QED BY <2>1, <2>k, <4>1
    <3>2. CASE ~compare(arr[left], arr[i])
      <4>1. l = i /\ ~(Keys[left] < Keys[i])
        BY <2>k, <3>2 DEF compare
      <4> HIDE DEF l
      <4> QED BY <2>1, <2>k, <4>1
    <3> QED BY <3>1, <3>2
  <2> HIDE DEF l
  <2>3. CASE ~(right < length)
    <3>1. least = l
      BY <1>l, <2>3
    <3>2. \A j \in 1..(length - 1) : Parent(j) = i => j = left
      BY <1>c, <2>3
    <3> HIDE DEF left, right
    <3> QED BY <1>p, <2>1, <2>2, <3>1, <3>2
  <2>4. CASE right < length
    <3>1. right \in 1..(length - 1) /\ right \in 0..(length - 1)
      BY <1>t, <2>4
    <3>2. /\ Keys[right] = wake_up(arr[right]) /\ Keys[right] \in Int
          /\ Keys[l] = wake_up(arr[l]) /\ Keys[l] \in Int
      BY <1>t, <2>2, <3>1, KeyAt
    <3>3. \A j \in 1..(length - 1) : Parent(j) = i => j = left \/ j = right
      BY <1>c
    <3>4. CASE compare(arr[right], arr[l])
      <4>1. least = right /\ Keys[right] < Keys[l]
        BY <1>l, <2>4, <3>2, <3>4 DEF compare
      <4> HIDE DEF left, right
      <4>2. Keys[right] <= Keys[i] /\ Keys[right] <= Keys[left]
        BY <2>2, <2>k, <3>2, <4>1
      <4> QED BY <1>p, <2>1, <3>1, <3>2, <3>3, <4>1, <4>2
    <3>5. CASE ~compare(arr[right], arr[l])
      <4>1. least = l /\ ~(Keys[right] < Keys[l])
        BY <1>l, <3>2, <3>5 DEF compare
      <4> HIDE DEF left, right
      <4>2. Keys[l] <= Keys[right]
        BY <3>2, <4>1
      <4> QED BY <1>p, <2>1, <2>2, <3>3, <4>1, <4>2
    <3> QED BY <3>4, <3>5
  <2> QED BY <2>3, <2>4
<1> QED BY <1>1, <1>2, <1>t

\* A round that goes on moves the process down.
LEMMA SiftDownStep ==
  ASSUME IInv, SiftDown
  PROVE  IInv' /\ Members' = Members
<1>s. /\ length' = length /\ current_size' = current_size /\ num_ticks' = num_ticks
      /\ due' = due /\ loop' = loop /\ loop = "down" /\ least # i
      /\ arr' = Swapped(least, i) /\ i' = least
  BY DEF SiftDown
<1>t. length \in Nat /\ Keys \in [0..(length - 1) -> Int]
  BY TypeFacts, KeysType DEF IInv
<1>1. PICK m : m = least
  OBVIOUS
<1>2. /\ i \in 0..(length - 1) /\ m \in 1..(length - 1) /\ Parent(m) = i
      /\ Keys[m] <= Keys[i]
      /\ \A j \in 1..(length - 1) : Parent(j) = i => Keys[m] <= Keys[j]
  BY <1>1, <1>s, LeastFacts
<1>3. m \in 0..(length - 1) /\ m \in Nat /\ m < length /\ m # i
  BY <1>1, <1>2, <1>s, <1>t
<1>4. /\ arr' \in [0..(current_size - 1) -> Proc \union {NULL}]
      /\ Keys' = Exchanged(Keys, m, i) /\ Members' = Members /\ Filled' /\ Distinct'
  BY <1>1, <1>2, <1>3, <1>s, SwapStep
<1>5. InOrderDown(Keys, length, i)
  BY <1>s DEF IInv, Ordered
<1>6. InOrderDown(Keys', length, m)
  BY <1>2, <1>4, <1>5, <1>t, SwapDown
<1>7. Ordered'
  BY <1>1, <1>6, <1>s DEF Ordered
<1>8. TypeOK'
  BY <1>1, <1>3, <1>4, <1>s DEF IInv, TypeOK
<1>9. IndexOK'
  BY <1>1, <1>3, <1>s DEF IndexOK
<1> QED BY <1>4, <1>7, <1>8, <1>9 DEF IInv

\* The last round: a heap again, whose array may be halved.
LEMMA SiftDownEndsStep ==
  ASSUME IInv, SiftDownEnds
  PROVE  IInv' /\ Members' = Members
<1>s. /\ length' = length /\ num_ticks' = num_ticks /\ due' = due /\ i' = i
      /\ loop = "down" /\ loop' = "wake" /\ least = i
  BY DEF SiftDownEnds
<1>t. /\ length \in Nat /\ Keys \in [0..(length - 1) -> Int]
      /\ current_size \in Nat \ {0} /\ length <= current_size
      /\ arr \in [0..(current_size - 1) -> Proc \union {NULL}]
      /\ \A j \in 0..(length - 1) : arr[j] \in Proc /\ j \in 0..(current_size - 1)
  BY TypeFacts, KeysType DEF IInv
<1>1. /\ current_size' \in Nat \ {0} /\ length \in 0..current_size'
      /\ arr' \in [0..(current_size' - 1) -> Proc \union {NULL}]
      /\ \A j \in 0..(length - 1) : arr'[j] = arr[j]
  <2>1. CASE arr' = arr /\ current_size' = current_size
    BY <1>t, <2>1
  <2>2. CASE /\ Sparse /\ current_size' = current_size \div 2
             /\ arr' = resize_heap(current_size')
    <3>1. current_size' \in Nat \ {0} /\ length < current_size'
      BY <1>t, <2>2 DEF Sparse
    <3>2. \A j \in 0..(length - 1) : j \in 0..(current_size' - 1) /\ j < length
      BY <1>t, <3>1, Within
    <3>3. arr' = [j \in 0..(current_size' - 1) |-> IF j < length THEN arr[j] ELSE NULL]
      BY <2>2 DEF resize_heap
    <3>4. \A j \in 0..(length - 1) : arr'[j] = arr[j]
      BY <3>2, <3>3
    <3>5. ASSUME NEW j \in 0..(current_size' - 1)
          PROVE  (IF j < length THEN arr[j] ELSE NULL) \in Proc \union {NULL}
      <4>1. j < length => arr[j] \in Proc
        BY <1>t
      <4> QED BY <4>1
    <3>6. arr' \in [0..(current_size' - 1) -> Proc \union {NULL}]
      BY <3>3, <3>5
    <3>7. length \in 0..current_size'
      BY <1>t, <3>1
    <3> QED BY <3>1, <3>4, <3>6, <3>7
  <2> QED BY <2>1, <2>2 DEF SiftDownEnds
<1>2. Keys' = Keys /\ Members' = Members /\ Filled' /\ Distinct'
  BY <1>1, <1>s, SameHeap
<1>3. InOrder(Keys, length)
  <2>1. \A j \in 1..(length - 1) : Parent(j) = i => Keys[i] <= Keys[j]
    BY <1>s, LeastFacts
  <2>2. InOrderDown(Keys, length, i)
    BY <1>s DEF IInv, Ordered
  <2> QED BY <1>t, <2>1, <2>2, DownEnds
<1>4. Ordered' /\ IndexOK'
  BY <1>2, <1>3, <1>s DEF Ordered, IndexOK
<1>5. TypeOK'
  BY <1>1, <1>s DEF IInv, TypeOK
<1> QED BY <1>2, <1>4, <1>5 DEF IInv
-----------------------------------------------------------------------------
(* The theorems *)

LEMMA InvInit == Init => IInv
<1> SUFFICES ASSUME Init PROVE IInv
  OBVIOUS
<1>1. TypeOK
  BY HeapAssumption DEF Init, init_scheduler, TypeOK
<1>2. length = 0 /\ loop = "none"
  BY DEF Init, init_scheduler
<1>3. Filled /\ Distinct /\ IndexOK
  BY <1>2 DEF Filled, Distinct, IndexOK
<1>4. Ordered
  BY <1>2 DEF Ordered, InOrder
<1> QED BY <1>1, <1>3, <1>4 DEF IInv

LEMMA InvStep == IInv /\ [Next]_vars => IInv'
<1> SUFFICES ASSUME IInv, [Next]_vars PROVE IInv'
  OBVIOUS
<1>1. ASSUME NEW p \in Proc, NEW t \in Delays, put_to_sleep(p, t) PROVE IInv'
  BY <1>1, SleepStep
<1>2. CASE increment_ticks
  BY <1>2, TickStep
<1>3. CASE SiftUp
  BY <1>3, SiftUpStep
<1>4. CASE remove_from_heap
  BY <1>4, RemoveStep
<1>5. CASE SiftDown
  BY <1>5, SiftDownStep
<1>6. CASE SiftDownEnds
  BY <1>6, SiftDownEndsStep
<1>7. CASE WakeEnds
  BY <1>7, WakeEndsStep
<1>8. CASE UNCHANGED vars
  <2>1. /\ arr' = arr /\ length' = length /\ current_size' = current_size /\ due' = due
        /\ loop' = loop /\ i' = i /\ num_ticks' = num_ticks
    BY <1>8 DEF vars, heap
  <2>2. Keys' = Keys /\ Filled' /\ Distinct'
    BY <2>1, SameHeap
  <2>3. TypeOK' /\ Ordered' /\ IndexOK'
    BY <2>1, <2>2 DEF IInv, TypeOK, Ordered, IndexOK
  <2> QED BY <2>2, <2>3 DEF IInv
<1> QED BY <1>1, <1>2, <1>3, <1>4, <1>5, <1>6, <1>7, <1>8 DEF Next, KernelStep

LEMMA InvHolds == Spec => []IInv
BY InvInit, InvStep, PTL DEF Spec

\* The array is never indexed outside its size: put_to_sleep grows it in
\* time, and halving a sparse one leaves room for all who sleep.
THEOREM TypeCorrect == Spec => []TypeOK
<1>1. IInv => TypeOK
  BY DEF IInv
<1> QED BY <1>1, InvHolds, PTL

\* Whatever sleeps are added and removed, and wherever the sifting loops of
\* add_to_heap and remove_from_heap are, the array is a heap around the
\* process they move.
THEOREM HeapStaysOrdered == Spec => []HeapOrder
BY OrderedIsHeapOrder, InvHolds, PTL

\* The first process of the heap is the earliest sleeper.
LEMMA RootIsEarliest ==
  ASSUME IInv, loop \in {"none", "wake"}, length > 0
  PROVE  \A p \in Members : wake_up(arr[0]) <= wake_up(p)
<1>1. length \in Nat \ {0} /\ Keys \in [0..(length - 1) -> Int]
  BY KeysType DEF IInv
<1>2. InOrder(Keys, length)
  BY DEF IInv, Ordered
<1>3. \A j \in 0..(length - 1) : Keys[0] <= Keys[j]
  BY <1>1, <1>2, FirstIsEarliest
<1>4. 0 \in 0..(length - 1)
  BY <1>1
<1>5. \A j \in 0..(length - 1) : wake_up(arr[0]) <= wake_up(arr[j])
  BY <1>3, <1>4, KeyAt
<1> QED BY <1>5 DEF Members

\* A time that an int can hold is stored as it is, and any other as a past one.
LEMMA Stored ==
  ASSUME IInv, NEW p \in Proc
  PROVE  /\ due[p] \in Nat /\ wake_up(p) \in Int /\ wake_up(p) <= due[p]
         /\ due[p] <= INT_MAX => wake_up(p) = due[p]
<1>1. due[p] \in Nat /\ INT_MAX \in Nat
  BY TypeFacts, HeapAssumption
<1> QED BY <1>1 DEF wake_up

\* The heap implements the queue of sleepers: put_to_sleep adds one, a tick
\* takes off exactly those whose time has come, the earliest first, each
\* once, and the sifting and resizing change nothing that can be seen.  Left
\* out is when a process wakes whose time passes INT_MAX; it disturbs no other.
THEOREM HeapImplementsQueue == Spec => ImplementsQueue
<1> SUFFICES Spec => Queue!Spec
  BY DEF ImplementsQueue
<1> DEFINE waking == loop \in {"wake", "down"}
<1>1. Init => Queue!Init
  <2> SUFFICES ASSUME Init PROVE Queue!Init
    OBVIOUS
  <2>1. Members = {}
    BY DEF Init, init_scheduler, Members
  <2> QED BY <2>1 DEF Init, Queue!Init
<1>2. IInv /\ [Next]_vars => [Queue!Next]_(Queue!vars)
  <2> SUFFICES ASSUME IInv, [Next]_vars PROVE [Queue!Next]_(Queue!vars)
    OBVIOUS
  <2>t. /\ length \in Nat /\ num_ticks \in Nat /\ due \in [Proc -> Nat] /\ INT_MAX \in Nat
        /\ \A j \in 0..(length - 1) : arr[j] \in Proc
    BY TypeFacts, HeapAssumption
  <2>m. Members \subseteq Proc
    BY <2>t DEF Members
  <2>s. ASSUME Members' = Members, due' = due, num_ticks' = num_ticks, waking' = waking
        PROVE  UNCHANGED Queue!vars
    BY <2>s DEF Queue!vars
  <2>1. ASSUME NEW p \in Proc, NEW t \in Delays, put_to_sleep(p, t)
        PROVE  [Queue!Next]_(Queue!vars)
    <3>1. Members' = Members \union {p}
      BY <2>1, SleepStep
    <3>2. due' = [due EXCEPT ![p] = num_ticks + t]
      BY <2>1 DEF put_to_sleep
    <3>3. ~waking /\ waking' = waking /\ p \notin Members /\ num_ticks' = num_ticks
      BY <2>1 DEF put_to_sleep
    <3>4. Queue!Sleep(p, t)
      BY <3>1, <3>2, <3>3 DEF Queue!Sleep
    <3> QED BY <3>4 DEF Queue!Next
  <2>2. CASE increment_ticks
    <3>1. Members' = Members /\ due' = due
      BY <2>2, TickStep DEF increment_ticks
    <3>2. ~waking /\ waking' = TRUE /\ num_ticks' = num_ticks + 1
      BY <2>2 DEF increment_ticks
    <3>3. Queue!Tick
      BY <3>1, <3>2 DEF Queue!Tick
    <3> QED BY <3>3 DEF Queue!Next
  <2>3. CASE SiftUp
    BY <2>3, <2>s, SiftUpStep DEF SiftUp
  <2>4. CASE remove_from_heap
    <3>1. PICK p : p = arr[0]
      OBVIOUS
    <3>2. length > 0 /\ wake_up(p) <= num_ticks /\ loop = "wake" /\ loop' = "down"
      BY <2>4, <3>1 DEF remove_from_heap, FirstIsDue
    <3>3. p \in Proc
      BY <2>t, <3>1, <3>2
    <3>4. Members' = Members \ {p} /\ p \in Members
      BY <2>4, <3>1, RemoveStep
    <3>5. due' = [due EXCEPT ![p] = 0]
      BY <2>4, <3>1 DEF remove_from_heap
    <3>6. waking /\ waking' = waking /\ num_ticks' = num_ticks
      BY <2>4, <3>2 DEF remove_from_heap
    <3>7. Queue!Promised(p) =>
            /\ due[p] <= num_ticks
            /\ \A q \in Members : Queue!Promised(q) => due[p] <= due[q]
      <4> SUFFICES ASSUME due[p] <= INT_MAX
                   PROVE  /\ due[p] <= num_ticks
                          /\ \A q \in Members : due[q] <= INT_MAX => due[p] <= due[q]
        BY DEF Queue!Promised
      <4>1. due[p] = wake_up(p)
        BY <3>3, Stored
      <4>2. ASSUME NEW q \in Members, due[q] <= INT_MAX PROVE due[p] <= due[q]
        <5>1. due[q] = wake_up(q)
          BY <2>m, <4>2, Stored
        <5>2. wake_up(p) <= wake_up(q)
          BY <3>1, <3>2, RootIsEarliest
        <5> QED BY <4>1, <5>1, <5>2
      <4> QED BY <3>2, <4>1, <4>2
    <3>8. Queue!Wake(p)
      BY <3>4, <3>5, <3>6, <3>7 DEF Queue!Wake
    <3> QED BY <3>3, <3>8 DEF Queue!Next
  <2>5. CASE SiftDown
    BY <2>5, <2>s, SiftDownStep DEF SiftDown
  <2>6. CASE SiftDownEnds
    BY <2>6, <2>s, SiftDownEndsStep DEF SiftDownEnds
  <2>7. CASE WakeEnds
    <3>1. Members' = Members /\ due' = due /\ num_ticks' = num_ticks
      BY <2>7, WakeEndsStep DEF WakeEnds
    <3>2. waking /\ waking' = FALSE
      BY <2>7 DEF WakeEnds
    <3>3. \A p \in Members : due[p] > num_ticks
      <4> SUFFICES ASSUME NEW p \in Members PROVE due[p] > num_ticks
        OBVIOUS
      <4>1. PICK j \in 0..(length - 1) : p = arr[j]
        BY DEF Members
      <4>2. length > 0 /\ p \in Proc /\ arr[0] \in Proc
        BY <2>t, <4>1
      <4>3. ~(wake_up(arr[0]) <= num_ticks)
        BY <2>7, <4>2 DEF WakeEnds, FirstIsDue
      <4>4. wake_up(arr[0]) <= wake_up(p)
        BY <2>7, <4>2, RootIsEarliest DEF WakeEnds
      <4>5. wake_up(arr[0]) \in Int /\ wake_up(p) \in Int /\ due[p] \in Nat /\ wake_up(p) <= due[p]
        BY <4>2, Stored
      <4> QED BY <2>t, <4>3, <4>4, <4>5
    <3>4. Queue!Done
      BY <3>1, <3>2, <3>3 DEF Queue!Done
    <3> QED BY <3>4 DEF Queue!Next
  <2>8. CASE UNCHANGED vars
    BY <2>8, <2>s DEF vars, heap, Members
  <2> QED BY <2>1, <2>2, <2>3, <2>4, <2>5, <2>6, <2>7, <2>8 DEF Next, KernelStep
<1> QED BY <1>1, <1>2, InvHolds, PTL DEF Spec, Queue!Spec
=============================================================================
