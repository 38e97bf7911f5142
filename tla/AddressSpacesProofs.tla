------------------------ MODULE AddressSpacesProofs -------------------------
(***************************************************************************)
(* Proofs about the memory of processes, for any number of processes and   *)
(* frames, any sizes of the regions and of programs; and, in the last      *)
(* part, about KernelStart, which has the same page loops.                 *)
(***************************************************************************)
EXTENDS AddressSpaces, Boot, QueueLemmas
-----------------------------------------------------------------------------
(* The frames that the page loops find *)

\* A set of pages or of frames: finitely many numbers.
LEMMA NumbersFinite ==
  ASSUME NEW n \in Int, NEW S, S \subseteq 0..(n - 1)
  PROVE  /\ IsFiniteSet(S) /\ Cardinality(S) \in Nat
         /\ \A x \in Int : Rank(x, S) \in Nat /\ IsFiniteSet({y \in S : y < x})
<1>1. IsFiniteSet(0..(n - 1))
  BY FS_Interval
<1>2. IsFiniteSet(S)
  BY <1>1, FS_Subset
<1>3. ASSUME NEW T, T \subseteq S PROVE IsFiniteSet(T) /\ Cardinality(T) \in Nat
  BY <1>2, <1>3, FS_Subset, FS_CardinalityType
<1>4. ASSUME NEW x \in Int PROVE Rank(x, S) \in Nat /\ IsFiniteSet({y \in S : y < x})
  <2>1. {y \in S : y < x} \subseteq S
    OBVIOUS
  <2> QED BY <1>3, <2>1 DEF Rank
<1> QED BY <1>3, <1>4

\* A higher page has a higher rank.
LEMMA RankGrows ==
  ASSUME NEW n \in Int, NEW S, S \subseteq 0..(n - 1), NEW x \in S, NEW y \in S, x < y
  PROVE  Rank(x, S) < Rank(y, S)
<1> DEFINE A == {z \in S : z < x}
           B == {z \in S : z < y}
<1>0. \A z \in S : z \in Int
  OBVIOUS
<1>1. x \in Int /\ y \in Int /\ A \union {x} \subseteq B /\ x \notin A
  <2>1. x \in Int /\ y \in Int
    BY <1>0
  <2>2. ~(x < x) /\ \A z \in S : z < x => z < y
    BY <1>0, <2>1
  <2> QED BY <2>1, <2>2
<1>2. IsFiniteSet(A) /\ IsFiniteSet(B) /\ Cardinality(A) \in Nat /\ Cardinality(B) \in Nat
  BY <1>1, NumbersFinite DEF Rank
<1> HIDE DEF A, B
<1>3. Cardinality(A \union {x}) = Cardinality(A) + 1
  BY <1>1, <1>2, FS_AddElement
<1>4. Cardinality(A \union {x}) <= Cardinality(B)
  BY <1>1, <1>2, FS_Subset
<1>5. Cardinality(A) < Cardinality(B)
  BY <1>2, <1>3, <1>4
<1> QED BY <1>5 DEF Rank, A, B

\* Fewer pages lower the rank, and the rank of one of them is less than
\* their number.
LEMMA RankBounds ==
  ASSUME NEW n \in Int, NEW S, S \subseteq 0..(n - 1), NEW T, T \subseteq S
  PROVE  /\ \A x \in S : Rank(x, T) <= Rank(x, S)
         /\ \A x \in S : Rank(x, S) < Cardinality(S)
<1>0. \A z \in S : z \in Int
  OBVIOUS
<1>1. ASSUME NEW x \in S PROVE Rank(x, T) <= Rank(x, S) /\ Rank(x, S) < Cardinality(S)
  <2> DEFINE A == {z \in T : z < x}
             B == {z \in S : z < x}
  <2>0. x \in Int /\ ~(x < x)
    BY <1>0
  <2>1. x \in Int /\ A \subseteq B /\ B \union {x} \subseteq S /\ x \notin B
    BY <2>0
  <2>2. IsFiniteSet(B) /\ IsFiniteSet(S) /\ Cardinality(B) \in Nat /\ Cardinality(S) \in Nat
    BY <2>1, NumbersFinite DEF Rank
  <2> HIDE DEF A, B
  <2>3. Cardinality(A) <= Cardinality(B) /\ Cardinality(B \union {x}) = Cardinality(B) + 1
    BY <2>1, <2>2, FS_Subset, FS_AddElement
  <2>4. Cardinality(B \union {x}) <= Cardinality(S)
    BY <2>1, <2>2, FS_Subset
  <2>5. Cardinality(A) <= Cardinality(B) /\ Cardinality(B) < Cardinality(S)
    BY <2>2, <2>3, <2>4
  <2> QED BY <2>5 DEF Rank, A, B
<1> QED BY <1>1

\* There is a member of every rank.
LEMMA RankReached ==
  ASSUME NEW n \in Int, NEW S, S \subseteq 0..(n - 1), NEW r \in Nat, r < Cardinality(S)
  PROVE  \E x \in S : Rank(x, S) = r
<1> DEFINE Below(k) == {y \in S : y < k}
           T == {k \in Nat : Cardinality(Below(k)) > r}
<1>z. \A z \in S : z \in Int /\ 0 <= z /\ z < n
  OBVIOUS
<1>0. \A k \in Int : IsFiniteSet(Below(k)) /\ Cardinality(Below(k)) \in Nat
  BY NumbersFinite DEF Rank
<1>1. T # {}
  <2>1. n \in Nat
    <3>1. CASE S = {}
      BY <3>1, FS_EmptySet
    <3>2. CASE S # {}
      <4>1. PICK z \in S : TRUE
        BY <3>2
      <4>2. z \in Int /\ 0 <= z /\ z < n
        BY <1>z
      <4> QED BY <4>2
    <3> QED BY <3>1, <3>2
  <2>2. Below(n) = S
    BY <1>z
  <2>3. Cardinality(S) > r
    BY NumbersFinite
  <2> HIDE DEF Below
  <2> QED BY <2>1, <2>2, <2>3
<1>2. PICK k \in T : \A j \in T : k <= j
  <2>1. T \in SUBSET Nat
    OBVIOUS
  <2> QED BY <1>1, <2>1, LeastNat
<1>3. k \in Nat /\ Cardinality(Below(k)) > r
  OBVIOUS
<1>4. k # 0
  <2>0. \A z \in S : ~(z < 0)
    BY <1>z
  <2>1. Below(0) = {}
    BY <2>0
  <2>2. Cardinality(Below(0)) = 0
    BY <2>1, FS_EmptySet
  <2> QED BY <1>3, <2>2
<1> DEFINE m == k - 1
<1>5. m \in Nat /\ m < k /\ ~(Cardinality(Below(m)) > r)
  <2>1. m \in Nat /\ ~(k <= m)
    BY <1>3, <1>4
  <2>2. m \notin T
    BY <1>2, <2>1
  <2> QED BY <2>1, <2>2
<1>6. Below(k) = IF m \in S THEN Below(m) \union {m} ELSE Below(m)
  <2>1. \A z \in S : z < k <=> z < m \/ z = m
    BY <1>3, <1>z
  <2>2. ~(m < m)
    BY <1>3
  <2> QED BY <2>1, <2>2
<1>7. m \notin Below(m)
  BY <1>5
<1>8. m \in S
  BY <1>3, <1>5, <1>6
<1> HIDE DEF Below
<1>9. Cardinality(Below(k)) = Cardinality(Below(m)) + 1
  <2>1. IsFiniteSet(Below(m)) /\ Below(k) = Below(m) \union {m}
    BY <1>0, <1>5, <1>6, <1>8
  <2> QED BY <1>7, <2>1, FS_AddElement
<1>10. Cardinality(Below(m)) = r
  BY <1>0, <1>3, <1>5, <1>9
<1> QED BY <1>8, <1>10 DEF Below, Rank

\* The pages of a loop that all get a frame.
AllServed(pages, pool) == \A v \in pages : Rank(v, pages) < Cardinality(pool)

\* Each page gets a frame of the pool, and no two get the same.
LEMMA FrameFacts ==
  ASSUME NEW n \in Int, NEW pages, pages \subseteq 0..(n - 1),
         NEW k \in Int, NEW pool, pool \subseteq 0..(k - 1), AllServed(pages, pool)
  PROVE  /\ \A v \in pages : FrameFor(v, pages, pool) \in pool
         /\ \A v, w \in pages : FrameFor(v, pages, pool) = FrameFor(w, pages, pool) => v = w
         /\ Taken(pages, pool) \subseteq pool
<1>z. \A z \in pages : z \in Int
  OBVIOUS
<1>r. \A v \in pages : Rank(v, pages) \in Nat
  BY <1>z, NumbersFinite
<1>1. ASSUME NEW v \in pages
      PROVE  /\ FrameFor(v, pages, pool) \in pool
             /\ Rank(FrameFor(v, pages, pool), pool) = Rank(v, pages)
  <2>1. Rank(v, pages) \in Nat /\ Rank(v, pages) < Cardinality(pool)
    BY <1>r DEF AllServed
  <2>2. \E f \in pool : Rank(f, pool) = Rank(v, pages)
    BY <2>1, RankReached
  <2> QED BY <2>2 DEF FrameFor
<1>2. ASSUME NEW v \in pages, NEW w \in pages, FrameFor(v, pages, pool) = FrameFor(w, pages, pool)
      PROVE  v = w
  <2>1. Rank(v, pages) = Rank(w, pages) /\ Rank(v, pages) \in Nat
    BY <1>1, <1>2, <1>r
  <2>2. v \in Int /\ w \in Int
    BY <1>z
  <2>3. ASSUME v < w PROVE FALSE
    <3>1. Rank(v, pages) < Rank(w, pages)
      BY <2>3, RankGrows
    <3> QED BY <2>1, <3>1
  <2>4. ASSUME w < v PROVE FALSE
    <3>1. Rank(w, pages) < Rank(v, pages)
      BY <2>4, RankGrows
    <3> QED BY <2>1, <3>1
  <2> QED BY <2>2, <2>3, <2>4
<1> QED BY <1>1, <1>2 DEF Taken

\* All pages are served when there are enough frames, and those that get one
\* before the frames run out are.
LEMMA ServedFacts ==
  ASSUME NEW n \in Int, NEW pages, pages \subseteq 0..(n - 1),
         NEW k \in Int, NEW pool, pool \subseteq 0..(k - 1)
  PROVE  /\ Enough(pages, pool) => AllServed(pages, pool) /\ Served(pages, pool) = pages
         /\ AllServed(Served(pages, pool), pool) /\ Served(pages, pool) \subseteq pages
         /\ \A v \in pages, w \in Served(pages, pool) : v < w => v \in Served(pages, pool)
         /\ Served(pages, {}) = {}
<1>c. Cardinality(pages) \in Nat /\ Cardinality(pool) \in Nat
  BY NumbersFinite
<1>z. \A z \in pages : z \in Int
  OBVIOUS
<1>r. \A v \in pages : Rank(v, pages) \in Nat
  BY <1>z, NumbersFinite
<1>1. ASSUME Enough(pages, pool) PROVE AllServed(pages, pool) /\ Served(pages, pool) = pages
  <2>1. \A v \in pages : Rank(v, pages) < Cardinality(pages)
    BY RankBounds
  <2>2. \A v \in pages : Rank(v, pages) < Cardinality(pool)
    BY <1>1, <1>c, <1>r, <2>1 DEF Enough
  <2> QED BY <2>2 DEF AllServed, Served
<1> DEFINE S == Served(pages, pool)
<1>2. S \subseteq pages /\ \A v \in S : Rank(v, pages) < Cardinality(pool)
  BY DEF Served
<1>3. AllServed(S, pool)
  <2> SUFFICES ASSUME NEW v \in S PROVE Rank(v, S) < Cardinality(pool)
    BY DEF AllServed
  <2>0. v \in pages /\ v \in Int
    BY <1>2, <1>z
  <2>1. Rank(v, S) <= Rank(v, pages) /\ Rank(v, pages) < Cardinality(pool)
    BY <1>2, <2>0, RankBounds
  <2>2. Rank(v, S) \in Nat
    <3>1. S \subseteq 0..(n - 1)
      BY <1>2
    <3> QED BY <2>0, <3>1, NumbersFinite
  <2> QED BY <1>c, <1>r, <2>0, <2>1, <2>2
<1>4. ASSUME NEW v \in pages, NEW w \in S, v < w PROVE v \in S
  <2>1. Rank(v, pages) < Rank(w, pages)
    BY <1>2, <1>4, RankGrows
  <2> QED BY <1>2, <1>c, <1>r, <2>1 DEF Served
<1>5. Served(pages, {}) = {}
  <2>1. \A v \in pages : ~(Rank(v, pages) < 0)
    BY <1>r
  <2> QED BY <2>1, FS_EmptySet DEF Served
<1> QED BY <1>1, <1>2, <1>3, <1>4, <1>5
-----------------------------------------------------------------------------
(* The inductive invariant *)

Frame == 0..(NUM_FRAMES - 1)
HeapPage == 0..(K_STACK_BASE_VPN - 1)
Valid == [pfn : Frame, prot : {"rw", "rx"}]
Context == [txt_start_page : Page, data_start_page : Page, orig_brk_page : Page, curr_brk_page : Page]

Types ==
  /\ running \in Proc \union {Idle} /\ main_queue \in Seq(Proc) /\ live \subseteq Proc
  /\ free \subseteq Frame
  /\ region1_pt \in [Proc -> [Page -> Pte]] /\ ks_pt \in [Proc -> [StackPage -> Pte]]
  /\ region0_pt \in [HeapPage -> Pte]
  /\ mem_ctx \in [Proc -> Context] /\ sp \in [Proc -> Page]
  /\ current_brk_page \in 0..K_STACK_BASE_VPN
  /\ fault \in {"none", "page", "pcb", "switch", "pointer"}
  /\ refused \in [Proc -> SUBSET Page] /\ stackless \subseteq Proc

\* The processes on the main queue and the running one exist, and no two of
\* them are the same.
Placed ==
  /\ IsInjective(main_queue) /\ running \notin Range(main_queue)
  /\ Range(main_queue) \subseteq live /\ (running \in Proc => running \in live)

\* A process that does not exist has no pages, and the kernel's heap none
\* above its end.
NothingLeft ==
  /\ \A p \in Proc \ live : region1_pt[p] = NoTable(Page) /\ ks_pt[p] = NoTable(StackPage)
  /\ \A v \in HeapPage : v >= current_brk_page => region0_pt[v] = None

\* The program with context m in table t.
ProgramOK(t, m) ==
  /\ m.data_start_page <= m.orig_brk_page /\ m.orig_brk_page <= m.curr_brk_page
  /\ \A v \in m.txt_start_page..(m.curr_brk_page - 1) :
       t[v] # None /\ t[v].prot = IF v < m.data_start_page THEN "rx" ELSE "rw"

\* The stack above the stack pointer s is whole but for the pages R that were
\* refused, and so is what is above any page that is mapped outside the
\* program: pages the stack has left behind are still there when it comes
\* back.  Only a refused stack pointer is inside the heap.
StackOK(t, m, s, R) ==
  /\ \A v \in Page : s <= v /\ v <= m.curr_brk_page => v \in R
  /\ s..(REGION1_VPNS - 1) \subseteq Mapped(t) \union R
  /\ \A v \in Page :
       v >= m.curr_brk_page /\ t[v] # None => v..(REGION1_VPNS - 1) \subseteq Mapped(t) \union R

ProcessesOK ==
  \A p \in live :
    /\ ProgramOK(region1_pt[p], mem_ctx[p])
    /\ StackOK(region1_pt[p], mem_ctx[p], sp[p], refused[p])
    /\ p \in stackless \/ Mapped(ks_pt[p]) = StackPage

FaultOK ==
  /\ fault = "page" => refused[running] \intersect (UserStack(running) \ Mapped(region1_pt[running])) # {}
  /\ fault = "switch" => running \in stackless

\* All the tables as one, with a key for every entry.
Key == {<<"user", p, v>> : p \in Proc, v \in Page} \union
       {<<"stack", p, v>> : p \in Proc, v \in StackPage} \union
       {<<"heap", 0, v>> : v \in HeapPage}
Memory(u, k, h) ==
  [e \in Key |-> IF e[1] = "user" THEN u[e[2]][e[3]]
                 ELSE IF e[1] = "stack" THEN k[e[2]][e[3]] ELSE h[e[3]]]

\* No frame is in two entries of the memory, or in one and free.
Isolated(M, pool) ==
  /\ \A d, e \in Key : M[d] # None /\ M[e] # None /\ M[d].pfn = M[e].pfn => d = e
  /\ \A e \in Key : M[e] # None => M[e].pfn \notin pool

\* Every frame is in an entry or free.
Covered(M, pool) == \A f \in Frame : f \in pool \/ \E e \in Key : M[e] # None /\ M[e].pfn = f

FramesOK ==
  LET M == Memory(region1_pt, ks_pt, region0_pt)
  IN  Isolated(M, free) /\ (overgrown \/ Covered(M, free))

IInv == Types /\ Placed /\ NothingLeft /\ ProcessesOK /\ FaultOK /\ FramesOK
-----------------------------------------------------------------------------
(* Frames and tables *)

\* Memory M2 is M with table old, of the pages S, replaced by table t.
Replaced(M, M2, tag, o, S, old, t) ==
  /\ \A v \in S : /\ <<tag, o, v>> \in Key
                  /\ M[<<tag, o, v>>] = old[v] /\ M2[<<tag, o, v>>] = t[v]
  /\ \A e \in Key : (\A v \in S : e # <<tag, o, v>>) => M2[e] = M[e]

\* Pages of a table get frames of the pool, each its own.
LEMMA Fill ==
  ASSUME NEW M, NEW M2, NEW tag, NEW o, NEW S, NEW old, NEW t,
         Replaced(M, M2, tag, o, S, old, t),
         NEW pages, pages \subseteq S, NEW pool,
         \A v \in pages : t[v] # None /\ t[v].pfn \in pool,
         \A v, w \in pages : t[v].pfn = t[w].pfn => v = w,
         \A v \in S : v \notin pages => t[v] = old[v],
         Isolated(M, pool)
  PROVE  LET rest == pool \ {t[v].pfn : v \in pages}
         IN  /\ Isolated(M2, rest)
             /\ (\A v \in pages : old[v] = None) /\ Covered(M, pool) => Covered(M2, rest)
<1> DEFINE rest == pool \ {t[v].pfn : v \in pages}
           New(e) == \E v \in pages : e = <<tag, o, v>> /\ M2[e] = t[v]
<1>1. ASSUME NEW e \in Key PROVE New(e) \/ M2[e] = M[e]
  BY DEF Replaced
<1>2. ASSUME NEW e \in Key, NEW d \in Key, New(e), New(d), M2[e].pfn = M2[d].pfn PROVE e = d
  BY <1>2
<1>3. ASSUME NEW e \in Key, New(e) PROVE M2[e] # None /\ M2[e].pfn \in pool /\ M2[e].pfn \notin rest
  BY <1>3
<1>4. ASSUME NEW e \in Key, ~New(e), M2[e] # None PROVE M[e] # None /\ M2[e] = M[e] /\ M2[e].pfn \notin pool
  BY <1>1, <1>4 DEF Isolated
<1>5. Isolated(M2, rest)
  <2>1. ASSUME NEW e \in Key, NEW d \in Key, M2[d] # None, M2[e] # None, M2[d].pfn = M2[e].pfn
        PROVE  d = e
    <3>1. CASE New(d) /\ New(e)
      BY <1>2, <2>1, <3>1
    <3>2. CASE New(d) /\ ~New(e)
      BY <1>3, <1>4, <2>1, <3>2
    <3>3. CASE ~New(d) /\ New(e)
      BY <1>3, <1>4, <2>1, <3>3
    <3>4. CASE ~New(d) /\ ~New(e)
      <4> HIDE DEF New
      <4>1. M[d] # None /\ M[e] # None /\ M[d].pfn = M[e].pfn
        BY <1>4, <2>1, <3>4
      <4> QED BY <4>1 DEF Isolated
    <3> QED BY <3>1, <3>2, <3>3, <3>4
  <2>2. ASSUME NEW e \in Key, M2[e] # None PROVE M2[e].pfn \notin rest
    <3> HIDE DEF New
    <3> QED BY <1>3, <1>4, <2>2
  <2> HIDE DEF rest, New
  <2> QED BY <2>1, <2>2 DEF Isolated
<1>6. ASSUME \A v \in pages : old[v] = None, Covered(M, pool) PROVE Covered(M2, rest)
  <2> SUFFICES ASSUME NEW f \in Frame, f \notin rest PROVE \E e \in Key : M2[e] # None /\ M2[e].pfn = f
    BY DEF Covered
  <2>1. CASE f \in pool
    <3>1. PICK v \in pages : t[v].pfn = f
      BY <2>1
    <3>2. <<tag, o, v>> \in Key /\ M2[<<tag, o, v>>] = t[v]
      BY DEF Replaced
    <3> QED BY <3>1, <3>2
  <2>2. CASE f \notin pool
    <3>1. PICK e \in Key : M[e] # None /\ M[e].pfn = f
      BY <1>6, <2>2 DEF Covered
    <3>2. ~New(e)
      BY <1>6, <3>1 DEF Replaced
    <3> QED BY <1>1, <3>1, <3>2
  <2> QED BY <2>1, <2>2
<1> QED BY <1>5, <1>6

\* Pages of a table are unmapped, and their frames given back or not.
LEMMA Drop ==
  ASSUME NEW M, NEW M2, NEW tag, NEW o, NEW S, NEW old, DOMAIN old = S, NEW t,
         Replaced(M, M2, tag, o, S, old, t),
         NEW pages, pages \subseteq S, NEW pool,
         \A v \in pages : t[v] = None,
         \A v \in S : v \notin pages => t[v] = old[v],
         Isolated(M, pool)
  PROVE  LET more == pool \union Frames(old, pages)
         IN  /\ Isolated(M2, more) /\ Isolated(M2, pool)
             /\ Covered(M, pool) => Covered(M2, more)
<1> DEFINE fs == Frames(old, pages)
           more == pool \union fs
           Gone(e) == \E v \in pages : e = <<tag, o, v>> /\ M2[e] = None /\ M[e] = old[v]
<1>0. fs = {old[v].pfn : v \in {w \in pages : old[w] # None}}
  BY DEF Frames, Mapped
<1>1. ASSUME NEW e \in Key PROVE Gone(e) \/ M2[e] = M[e]
  BY DEF Replaced
<1>2. ASSUME NEW e \in Key, M2[e] # None PROVE M[e] = M2[e] /\ ~Gone(e)
  BY <1>1, <1>2
<1>3. ASSUME NEW e \in Key, M2[e] # None PROVE M2[e].pfn \notin fs
  <2> SUFFICES ASSUME NEW v \in pages, old[v] # None, old[v].pfn = M2[e].pfn PROVE FALSE
    BY <1>0
  <2>1. <<tag, o, v>> \in Key /\ M[<<tag, o, v>>] = old[v] /\ M2[<<tag, o, v>>] = None
    BY DEF Replaced
  <2>2. M[e] # None /\ M[e].pfn = M[<<tag, o, v>>].pfn
    BY <1>2, <1>3, <2>1
  <2>3. e = <<tag, o, v>>
    BY <2>1, <2>2 DEF Isolated
  <2> QED BY <1>3, <2>1, <2>3
<1>4. Isolated(M2, more) /\ Isolated(M2, pool)
  <2> HIDE DEF fs, Gone
  <2>1. \A d, e \in Key : M2[d] # None /\ M2[e] # None /\ M2[d].pfn = M2[e].pfn => d = e
    BY <1>2 DEF Isolated
  <2>2. \A e \in Key : M2[e] # None => M2[e].pfn \notin pool /\ M2[e].pfn \notin fs
    BY <1>2, <1>3 DEF Isolated
  <2> QED BY <2>1, <2>2 DEF Isolated
<1>5. ASSUME Covered(M, pool) PROVE Covered(M2, more)
  <2> SUFFICES ASSUME NEW f \in Frame, f \notin more PROVE \E e \in Key : M2[e] # None /\ M2[e].pfn = f
    BY DEF Covered
  <2>1. PICK e \in Key : M[e] # None /\ M[e].pfn = f
    BY <1>5 DEF Covered
  <2>2. ~Gone(e)
    BY <1>0, <2>1
  <2> QED BY <1>1, <2>1, <2>2
<1> QED BY <1>4, <1>5

\* A table that is replaced by itself, or loses pages it does not have, is
\* the same.
LEMMA DropNothing ==
  ASSUME NEW M, NEW M2, NEW tag, NEW o, NEW S, NEW old, NEW t,
         Replaced(M, M2, tag, o, S, old, t), NEW pool, \A v \in S : t[v] = old[v], Covered(M, pool)
  PROVE  Covered(M2, pool)
<1>1. \A e \in Key : M2[e] = M[e]
  BY DEF Replaced
<1> QED BY <1>1 DEF Covered

\* The memory after one table was replaced.
LEMMA ReplaceTable ==
  ASSUME NEW u, DOMAIN u = Proc, NEW k, DOMAIN k = Proc, NEW h, NEW p \in Proc, NEW t
  PROVE  /\ Replaced(Memory(u, k, h), Memory([u EXCEPT ![p] = t], k, h), "user", p, Page, u[p], t)
         /\ Replaced(Memory(u, k, h), Memory(u, [k EXCEPT ![p] = t], h), "stack", p, StackPage, k[p], t)
         /\ Replaced(Memory(u, k, h), Memory(u, k, t), "heap", 0, HeapPage, h, t)
<1>1. \A v \in Page : <<"user", p, v>> \in Key
  BY DEF Key
<1>2. \A v \in StackPage : <<"stack", p, v>> \in Key
  BY DEF Key
<1>3. \A v \in HeapPage : <<"heap", 0, v>> \in Key
  BY DEF Key
<1>4. ASSUME NEW e \in Key
      PROVE  \/ \E q \in Proc, v \in Page : e = <<"user", q, v>>
             \/ \E q \in Proc, v \in StackPage : e = <<"stack", q, v>>
             \/ \E v \in HeapPage : e = <<"heap", 0, v>>
  BY DEF Key
<1>5. Replaced(Memory(u, k, h), Memory([u EXCEPT ![p] = t], k, h), "user", p, Page, u[p], t)
  BY <1>1, <1>4 DEF Replaced, Memory
<1>6. Replaced(Memory(u, k, h), Memory(u, [k EXCEPT ![p] = t], h), "stack", p, StackPage, k[p], t)
  BY <1>2, <1>4 DEF Replaced, Memory
<1>7. Replaced(Memory(u, k, h), Memory(u, k, t), "heap", 0, HeapPage, h, t)
  BY <1>3, <1>4 DEF Replaced, Memory
<1> QED BY <1>5, <1>6, <1>7
-----------------------------------------------------------------------------
(* Changes of one table *)

\* The valid entries, the invalid one, and how entries are told apart.
LEMMA PteFacts ==
  /\ Pte = Valid \union {None} /\ None \notin Valid
  /\ \A e \in Pte : e # None => e \in Valid /\ e.pfn \in Frame /\ e.prot \in {"rw", "rx"}
  /\ \A f \in Frame, a \in {"rw", "rx"} :
       [pfn |-> f, prot |-> a] \in Valid /\ [pfn |-> f, prot |-> a] # None
<1>1. Frame \subseteq Nat
  BY SpaceAssumption DEF Frame
<1>2. Pte = Valid \union {None}
  BY DEF Pte, Valid, Frame
<1>3. Valid \subseteq [pfn : Nat, prot : {"rw", "rx"}]
  BY <1>1 DEF Valid
<1>4. None \notin Valid
  BY <1>3, NoneAssumption
<1>5. \A e \in Valid : e.pfn \in Frame /\ e.prot \in {"rw", "rx"}
  BY DEF Valid
<1>6. \A f \in Frame, a \in {"rw", "rx"} : [pfn |-> f, prot |-> a] \in Valid
  BY DEF Valid
<1> QED BY <1>2, <1>4, <1>5, <1>6

\* Table w is table t, of the pages S, after each of the pages got a frame of
\* the pool, no two the same.
Filled(w, t, S, pages, pool) ==
  /\ w \in [S -> Pte] /\ pages \subseteq S /\ Mapped(w) = Mapped(t) \union pages
  /\ \A v \in pages : w[v] # None /\ w[v].pfn \in pool
  /\ \A v, x \in pages : w[v].pfn = w[x].pfn => v = x
  /\ \A v \in S : v \notin pages => w[v] = t[v]

FilledWith(t, S, pages, prot, pool) ==
  LET w == With(t, pages, prot, pool)
  IN  /\ Filled(w, t, S, pages, pool)
      /\ \A v \in pages : w[v].prot = prot
      /\ {w[v].pfn : v \in pages} = Taken(pages, pool)

\* The pages of a table are numbered from 0.
Numbered(S) == \E n \in Int : S = 0..(n - 1)

LEMMA TablesNumbered == Numbered(Page) /\ Numbered(StackPage) /\ Numbered(HeapPage) /\ Numbered(Frame)
<1>1. REGION1_VPNS \in Int /\ K_STACK_VPNS \in Int /\ K_STACK_BASE_VPN \in Int /\ NUM_FRAMES \in Int
  BY SpaceAssumption
<1> QED BY <1>1 DEF Numbered, Page, StackPage, HeapPage, Frame

\* All of the pages get a frame if there are enough, and those that do
\* before the frames run out are the lowest.
LEMMA LoopFacts ==
  ASSUME NEW S, Numbered(S), NEW pages \in SUBSET S, NEW pool \in SUBSET Frame
  PROVE  /\ Enough(pages, pool) => AllServed(pages, pool) /\ Served(pages, pool) = pages
         /\ AllServed(Served(pages, pool), pool) /\ Served(pages, pool) \in SUBSET pages
         /\ \A v \in pages, w \in Served(pages, pool) : v < w => v \in Served(pages, pool)
<1>1. PICK n \in Int : S = 0..(n - 1)
  BY DEF Numbered
<1>2. NUM_FRAMES \in Int /\ pool \subseteq 0..(NUM_FRAMES - 1) /\ pages \subseteq 0..(n - 1)
  BY <1>1, SpaceAssumption DEF Frame
<1> QED BY <1>2, ServedFacts

\* The loops that map pages.
LEMMA WithFacts ==
  ASSUME NEW S, Numbered(S), NEW t \in [S -> Pte], NEW pages \in SUBSET S,
         NEW pool \in SUBSET Frame, AllServed(pages, pool), NEW prot \in {"rw", "rx"}
  PROVE  FilledWith(t, S, pages, prot, pool)
<1> DEFINE w == With(t, pages, prot, pool)
<1>1. /\ \A v \in pages : FrameFor(v, pages, pool) \in pool
      /\ \A v, x \in pages : FrameFor(v, pages, pool) = FrameFor(x, pages, pool) => v = x
  <2>1. NUM_FRAMES \in Int /\ pool \subseteq 0..(NUM_FRAMES - 1)
    BY SpaceAssumption DEF Frame
  <2>2. PICK n \in Int : pages \subseteq 0..(n - 1)
    BY DEF Numbered
  <2> QED BY <2>1, <2>2, FrameFacts
<1>2. /\ DOMAIN w = S
      /\ \A v \in pages : w[v] = [pfn |-> FrameFor(v, pages, pool), prot |-> prot]
      /\ \A v \in S : v \notin pages => w[v] = t[v]
      /\ w = [v \in S |-> w[v]]
  BY DEF With
<1> HIDE DEF w
<1>3. ASSUME NEW v \in pages
      PROVE  w[v] # None /\ w[v].prot = prot /\ w[v].pfn = FrameFor(v, pages, pool) /\ w[v] \in Pte
  <2>1. FrameFor(v, pages, pool) \in Frame
    BY <1>1
  <2> DEFINE f == FrameFor(v, pages, pool)
  <2> HIDE DEF f
  <2>2. [pfn |-> f, prot |-> prot] \in Pte /\ [pfn |-> f, prot |-> prot] # None
    BY <2>1, PteFacts DEF f
  <2>3. w[v] = [pfn |-> f, prot |-> prot]
    BY <1>2 DEF f
  <2>4. w[v].prot = prot /\ w[v].pfn = f
    BY <2>3
  <2> QED BY <2>2, <2>3, <2>4 DEF f
<1>4. w \in [S -> Pte]
  <2>1. \A v \in S : w[v] \in Pte
    BY <1>2, <1>3
  <2> QED BY <1>2, <2>1
<1>5. {w[v].pfn : v \in pages} = Taken(pages, pool)
  BY <1>3 DEF Taken
<1>6. Mapped(w) = Mapped(t) \union pages
  BY <1>2, <1>3 DEF Mapped
<1>7. \A v \in pages : w[v].pfn \in pool
  BY <1>1, <1>3
<1>8. \A v, x \in pages : w[v].pfn = w[x].pfn => v = x
  BY <1>1, <1>3
<1>9. Filled(w, t, S, pages, pool)
  BY <1>2, <1>3, <1>4, <1>6, <1>7, <1>8 DEF Filled
<1> QED BY <1>3, <1>5, <1>9 DEF w, FilledWith

\* The loops that unmap pages.
LEMMA WithoutFacts ==
  ASSUME NEW S, NEW t \in [S -> Pte], NEW pages
  PROVE  LET w == Without(t, pages)
         IN  /\ w \in [S -> Pte] /\ Mapped(w) = Mapped(t) \ pages
             /\ \A v \in S : w[v] = IF v \in pages THEN None ELSE t[v]
BY PteFacts DEF Without, Mapped

LEMMA NoTableFacts ==
  ASSUME NEW S
  PROVE  NoTable(S) \in [S -> Pte] /\ Mapped(NoTable(S)) = {} /\ \A v \in S : NoTable(S)[v] = None
BY PteFacts DEF NoTable, Mapped

\* The frames are all free at first.
LEMMA AllFree ==
  LET u == [p \in Proc |-> NoTable(Page)]
      k == [p \in Proc |-> NoTable(StackPage)]
      h == NoTable(HeapPage)
  IN  /\ Isolated(Memory(u, k, h), Frame) /\ Covered(Memory(u, k, h), Frame)
<1> DEFINE u == [p \in Proc |-> NoTable(Page)]
           k == [p \in Proc |-> NoTable(StackPage)]
           h == NoTable(HeapPage)
           M == Memory(u, k, h)
<1>1. ASSUME NEW e \in Key PROVE M[e] = None
  BY DEF Key, Memory, NoTable
<1> HIDE DEF M
<1> QED BY <1>1 DEF Isolated, Covered, M

\* Table t is w after the pages in ro became read-only.
Protected(t, w, pages, ro) ==
  \A v \in pages : t[v].pfn = w[v].pfn /\ t[v].prot = IF v \in ro THEN "rx" ELSE "rw"

\* Some of the pages that got a frame become read-only.
LEMMA ProtectFacts ==
  ASSUME NEW S, NEW old, NEW w, NEW pages, NEW pool \in SUBSET Frame, Filled(w, old, S, pages, pool),
         \A v \in pages : w[v].prot = "rw", NEW ro \in SUBSET pages, NEW t,
         t = [v \in S |-> IF v \in ro THEN [w[v] EXCEPT !.prot = "rx"] ELSE w[v]]
  PROVE  Filled(t, old, S, pages, pool) /\ Protected(t, w, pages, ro)
<1>1. /\ w \in [S -> Pte] /\ pages \subseteq S /\ Mapped(w) = Mapped(old) \union pages
      /\ \A v \in pages : w[v] # None /\ w[v].pfn \in pool
      /\ \A v, x \in pages : w[v].pfn = w[x].pfn => v = x
      /\ \A v \in S : v \notin pages => w[v] = old[v]
  BY DEF Filled
<1>2. DOMAIN t = S /\ t = [v \in S |-> t[v]] /\ \A v \in S : v \notin ro => t[v] = w[v]
  OBVIOUS
<1>3. ASSUME NEW v \in ro
      PROVE  t[v] \in Pte /\ t[v] # None /\ t[v].pfn = w[v].pfn /\ t[v].prot = "rx"
  <2>1. v \in S /\ w[v] \in Valid
    BY <1>1, PteFacts
  <2>2. t[v] = [w[v] EXCEPT !.prot = "rx"]
    BY <2>1
  <2>3. t[v] = [pfn |-> w[v].pfn, prot |-> "rx"] /\ w[v].pfn \in Frame
    BY <2>1, <2>2 DEF Valid
  <2>4. [pfn |-> w[v].pfn, prot |-> "rx"] \in Pte /\ [pfn |-> w[v].pfn, prot |-> "rx"] # None
    BY <2>3, PteFacts
  <2>5. t[v].pfn = w[v].pfn /\ t[v].prot = "rx"
    BY <2>3
  <2> QED BY <2>3, <2>4, <2>5
<1>4. \A v \in pages : t[v] # None /\ t[v].pfn = w[v].pfn /\ t[v].prot = IF v \in ro THEN "rx" ELSE "rw"
  <2> SUFFICES ASSUME NEW v \in pages
               PROVE  t[v] # None /\ t[v].pfn = w[v].pfn /\ t[v].prot = IF v \in ro THEN "rx" ELSE "rw"
    OBVIOUS
  <2>1. CASE v \in ro
    BY <1>3, <2>1
  <2>2. CASE v \notin ro
    <3>1. t[v] = w[v] /\ w[v] # None /\ w[v].prot = "rw"
      BY <1>1, <1>2, <2>2
    <3> QED BY <2>2, <3>1
  <2> QED BY <2>1, <2>2
<1>5. \A v \in S : v \notin pages => t[v] = w[v]
  BY <1>2
<1>6. t \in [S -> Pte]
  <2>1. \A v \in S : t[v] \in Pte
    BY <1>1, <1>2, <1>3
  <2> QED BY <1>2, <2>1
<1>7. Mapped(t) = Mapped(w)
  BY <1>1, <1>2, <1>4, <1>5 DEF Mapped
<1>8. \A v, x \in pages : t[v].pfn = t[x].pfn => v = x
  BY <1>1, <1>4
<1>9. \A v \in pages : t[v] # None /\ t[v].pfn \in pool
  BY <1>1, <1>4
<1>10. Filled(t, old, S, pages, pool)
  BY <1>1, <1>5, <1>6, <1>7, <1>8, <1>9 DEF Filled
<1> QED BY <1>4, <1>10 DEF Protected

\* The pages of a program: text and data, and the stack.
ProgramPages(prog) ==
  0..(prog.text + prog.data - 1) \union (REGION1_VPNS - prog.stack)..(REGION1_VPNS - 1)

\* The parts of a program that fits, and how many pages they are.
LEMMA ProgramSizes ==
  ASSUME NEW prog \in Program, Fits(prog)
  PROVE  /\ prog.text \in Nat /\ prog.data \in Nat /\ prog.stack \in Nat /\ REGION1_VPNS \in Nat
         /\ 0 < prog.text /\ 0 < prog.data /\ 0 < prog.stack
         /\ prog.text + prog.data < REGION1_VPNS - prog.stack
         /\ ProgramPages(prog) \subseteq Page /\ Cardinality(ProgramPages(prog)) = Size(prog)
<1> DEFINE x == prog.text
           y == prog.data
           z == prog.stack
           N == REGION1_VPNS
<1>1. x \in Nat \ {0} /\ y \in Nat \ {0} /\ z \in Nat \ {0} /\ N \in Nat
  BY SpaceAssumption DEF Program
<1>2. x + y + z < N
  BY DEF Fits, Size
<1>3. ProgramPages(prog) = 0..(x + y - 1) \union (N - z)..(N - 1) /\ Size(prog) = x + y + z
  BY DEF ProgramPages, Size
<1>4. Page = 0..(N - 1)
  BY DEF Page
<1> HIDE DEF x, y, z, N
<1> DEFINE low == 0..(x + y - 1)
           high == (N - z)..(N - 1)
<1>5. low \union high \subseteq 0..(N - 1)
  BY <1>1, <1>2
<1>6. Cardinality(low \union high) = x + y + z
  <2>1. IsFiniteSet(low) /\ Cardinality(low) = x + y
    <3>1. IsFiniteSet(low) /\ Cardinality(low) = IF 0 > x + y - 1 THEN 0 ELSE x + y - 1 - 0 + 1
      BY <1>1, FS_Interval
    <3> QED BY <1>1, <3>1
  <2>2. IsFiniteSet(high) /\ Cardinality(high) = z
    <3>1. IsFiniteSet(high) /\ Cardinality(high) = IF N - z > N - 1 THEN 0 ELSE N - 1 - (N - z) + 1
      BY <1>1, FS_Interval
    <3> QED BY <1>1, <3>1
  <2>3. low \intersect high = {}
    BY <1>1, <1>2
  <2> HIDE DEF low, high
  <2>4. Cardinality(low \union high) = Cardinality(low) + Cardinality(high) - Cardinality(low \intersect high)
    BY <2>1, <2>2, FS_Union
  <2>5. Cardinality(low \intersect high) = 0
    BY <2>3, FS_EmptySet
  <2> QED BY <1>1, <2>1, <2>2, <2>4, <2>5
<1>7. 0 < x /\ 0 < y /\ 0 < z /\ x + y < N - z
  BY <1>1, <1>2
<1> QED BY <1>1, <1>3, <1>4, <1>5, <1>6, <1>7 DEF x, y, z, N

\* Only the text of the program is read-only.
TextProtected(t, prog) ==
  \A v \in 0..(prog.text + prog.data - 1) : t[v].prot = IF v < prog.text THEN "rx" ELSE "rw"

\* A program that fits is loaded into frames of the pool, its text read-only.
LEMMA LoadedFacts ==
  ASSUME NEW prog \in Program, Fits(prog), NEW pool, pool \subseteq Frame, Size(prog) <= Cardinality(pool)
  PROVE  /\ Filled(Loaded(prog, pool), NoTable(Page), Page, ProgramPages(prog), pool)
         /\ Mapped(Loaded(prog, pool)) = ProgramPages(prog)
         /\ Frames(Loaded(prog, pool), Page) = {Loaded(prog, pool)[v].pfn : v \in ProgramPages(prog)}
         /\ TextProtected(Loaded(prog, pool), prog)
<1> DEFINE pages == ProgramPages(prog)
           none == NoTable(Page)
           w == With(none, pages, "rw", pool)
           t == Loaded(prog, pool)
<1>1. /\ prog.text \in Nat /\ prog.data \in Nat /\ REGION1_VPNS \in Nat /\ 0 < prog.data
      /\ pages \subseteq Page /\ Cardinality(pages) = Size(prog)
  BY ProgramSizes
<1>2. AllServed(pages, pool)
  <2>1. Enough(pages, pool)
    BY <1>1 DEF Enough
  <2> QED BY <1>1, <2>1, TablesNumbered, LoopFacts
<1>3. \A v \in 0..(prog.text + prog.data - 1) : v \in pages
  BY DEF ProgramPages
<1>4. t = [v \in Page |-> IF v < prog.text THEN [w[v] EXCEPT !.prot = "rx"] ELSE w[v]]
  BY DEF Loaded, ProgramPages
<1>n. none \in [Page -> Pte] /\ Mapped(none) = {} /\ \A v \in Page : none[v] = None
  BY NoTableFacts
<1> HIDE DEF pages, none, w, t
<1>5. Filled(w, none, Page, pages, pool) /\ \A v \in pages : w[v].prot = "rw"
  <2>1. "rw" \in {"rw", "rx"} /\ pool \in SUBSET Frame /\ pages \in SUBSET Page
    BY <1>1
  <2>2. FilledWith(none, Page, pages, "rw", pool)
    BY <1>n, <1>2, <2>1, TablesNumbered, WithFacts
  <2> QED BY <2>2 DEF w, FilledWith
<1> DEFINE ro == {v \in Page : v < prog.text}
<1>6. ro \in SUBSET pages
  <2>1. \A v \in Page : v < prog.text => v \in 0..(prog.text + prog.data - 1)
    BY <1>1 DEF Page
  <2> QED BY <1>3, <2>1
<1>7. t = [v \in Page |-> IF v \in ro THEN [w[v] EXCEPT !.prot = "rx"] ELSE w[v]]
  BY <1>4
<1> HIDE DEF ro
<1>8. Filled(t, none, Page, pages, pool) /\ Protected(t, w, pages, ro)
  <2>1. pool \in SUBSET Frame
    OBVIOUS
  <2> QED BY <1>5, <1>6, <1>7, <2>1, ProtectFacts
<1>9. Mapped(t) = pages
  BY <1>n, <1>8 DEF Filled
<1>10. Frames(t, Page) = {t[v].pfn : v \in pages}
  BY <1>1, <1>9 DEF Frames
<1>11. TextProtected(t, prog)
  BY <1>1, <1>3, <1>8 DEF ro, Protected, Page, TextProtected
<1> QED BY <1>8, <1>9, <1>10, <1>11 DEF t, pages, none
-----------------------------------------------------------------------------
(* The frames of all tables while one of them changes *)

\* No frame has two owners, and no frame is lost, when the tables are u, k
\* and h and the frames in pool are free.
OwnFrames(u, k, h, pool) == Isolated(Memory(u, k, h), pool)
NoneLost(u, k, h, pool) == Covered(Memory(u, k, h), pool)

\* Of the tables only one, of the pages S, changes: from old to t.
Changes(u, k, h, u2, k2, h2, S, old, t) ==
  \E tag, o : Replaced(Memory(u, k, h), Memory(u2, k2, h2), tag, o, S, old, t)

LEMMA UserChanges ==
  ASSUME NEW u, DOMAIN u = Proc, NEW k, DOMAIN k = Proc, NEW h, NEW p \in Proc, NEW t,
         NEW u2, u2 = [u EXCEPT ![p] = t], NEW old, old = u[p]
  PROVE  Changes(u, k, h, u2, k, h, Page, old, t)
<1>1. Replaced(Memory(u, k, h), Memory([u EXCEPT ![p] = t], k, h), "user", p, Page, u[p], t)
  BY ReplaceTable
<1> QED BY <1>1, Zenon DEF Changes

LEMMA StackChanges ==
  ASSUME NEW u, DOMAIN u = Proc, NEW k, DOMAIN k = Proc, NEW h, NEW p \in Proc, NEW t,
         NEW k2, k2 = [k EXCEPT ![p] = t], NEW old, old = k[p]
  PROVE  Changes(u, k, h, u, k2, h, StackPage, old, t)
<1>1. Replaced(Memory(u, k, h), Memory(u, [k EXCEPT ![p] = t], h), "stack", p, StackPage, k[p], t)
  BY ReplaceTable
<1> QED BY <1>1, Zenon DEF Changes

LEMMA HeapChanges ==
  ASSUME NEW u, DOMAIN u = Proc, NEW k, DOMAIN k = Proc, NEW h, NEW t
  PROVE  Changes(u, k, h, u, k, t, HeapPage, h, t)
<1>1. Init_pcb \in Proc
  BY SpaceAssumption
<1>2. Replaced(Memory(u, k, h), Memory(u, k, t), "heap", 0, HeapPage, h, t)
  BY <1>1, ReplaceTable
<1> QED BY <1>2, Zenon DEF Changes

\* Pages of one table get frames of the pool.  If none of them was mapped,
\* no frame is lost.
LEMMA FillTable ==
  ASSUME NEW u, NEW k, NEW h, NEW u2, NEW k2, NEW h2, NEW S, NEW old, DOMAIN old = S, NEW t,
         Changes(u, k, h, u2, k2, h2, S, old, t), NEW pages, NEW pool,
         Filled(t, old, S, pages, pool), OwnFrames(u, k, h, pool),
         NEW rest, rest = pool \ {t[v].pfn : v \in pages}
  PROVE  /\ OwnFrames(u2, k2, h2, rest)
         /\ pages \intersect Mapped(old) = {} /\ NoneLost(u, k, h, pool) => NoneLost(u2, k2, h2, rest)
<1> DEFINE M == Memory(u, k, h)
           M2 == Memory(u2, k2, h2)
<1>1. PICK tag, o : Replaced(M, M2, tag, o, S, old, t)
  BY DEF Changes
<1>2. Isolated(M, pool)
  BY DEF OwnFrames
<1>3. /\ pages \subseteq S
      /\ \A v \in pages : t[v] # None /\ t[v].pfn \in pool
      /\ \A v, x \in pages : t[v].pfn = t[x].pfn => v = x
      /\ \A v \in S : v \notin pages => t[v] = old[v]
  BY DEF Filled
<1> HIDE DEF M, M2
<1>4. /\ Isolated(M2, rest)
      /\ (\A v \in pages : old[v] = None) /\ Covered(M, pool) => Covered(M2, rest)
  BY <1>1, <1>2, <1>3, Fill, SMTT(30)
<1>5. pages \intersect Mapped(old) = {} => \A v \in pages : old[v] = None
  BY <1>3 DEF Mapped
<1> QED BY <1>4, <1>5 DEF OwnFrames, NoneLost, M, M2

\* Pages of one table are unmapped.  If their frames are given back, or none
\* of them was mapped, no frame is lost.
LEMMA DropTable ==
  ASSUME NEW u, NEW k, NEW h, NEW u2, NEW k2, NEW h2, NEW S, NEW old \in [S -> Pte], NEW t,
         Changes(u, k, h, u2, k2, h2, S, old, t), NEW pages \in SUBSET S, NEW pool,
         t = Without(old, pages), OwnFrames(u, k, h, pool),
         NEW more, more = pool \union Frames(old, pages)
  PROVE  /\ OwnFrames(u2, k2, h2, pool) /\ OwnFrames(u2, k2, h2, more)
         /\ NoneLost(u, k, h, pool) => NoneLost(u2, k2, h2, more)
         /\ pages \intersect Mapped(old) = {} /\ NoneLost(u, k, h, pool) => NoneLost(u2, k2, h2, pool)
<1> DEFINE M == Memory(u, k, h)
           M2 == Memory(u2, k2, h2)
<1>1. PICK tag, o : Replaced(M, M2, tag, o, S, old, t)
  BY DEF Changes
<1>2. Isolated(M, pool)
  BY DEF OwnFrames
<1>3. DOMAIN old = S /\ \A v \in S : t[v] = IF v \in pages THEN None ELSE old[v]
  BY DEF Without
<1> HIDE DEF M, M2
<1>4. /\ Isolated(M2, more) /\ Isolated(M2, pool)
      /\ Covered(M, pool) => Covered(M2, more)
  <2>1. pages \subseteq S /\ \A v \in pages : t[v] = None
    BY <1>3
  <2>2. \A v \in S : v \notin pages => t[v] = old[v]
    BY <1>3
  <2> QED BY <1>1, <1>2, <1>3, <2>1, <2>2, Drop
<1>5. ASSUME pages \intersect Mapped(old) = {}, Covered(M, pool) PROVE Covered(M2, pool)
  <2>1. \A v \in S : t[v] = old[v]
    BY <1>3, <1>5 DEF Mapped
  <2> QED BY <1>1, <1>5, <2>1, DropNothing
<1> QED BY <1>4, <1>5 DEF OwnFrames, NoneLost, M, M2

\* All pages of a table are unmapped.
LEMMA AllDropped ==
  ASSUME NEW S, NEW t \in [S -> Pte]
  PROVE  NoTable(S) = Without(t, S)
BY DEF NoTable, Without
-----------------------------------------------------------------------------
(* The program and the stack in a table that changes *)

LEMMA ContextFacts ==
  ASSUME NEW m \in Context, NEW b \in Page
  PROVE  /\ m.txt_start_page \in Page /\ m.data_start_page \in Page
         /\ m.orig_brk_page \in Page /\ m.curr_brk_page \in Page
         /\ [m EXCEPT !.curr_brk_page = b] \in Context
         /\ [m EXCEPT !.curr_brk_page = b].txt_start_page = m.txt_start_page
         /\ [m EXCEPT !.curr_brk_page = b].data_start_page = m.data_start_page
         /\ [m EXCEPT !.curr_brk_page = b].orig_brk_page = m.orig_brk_page
         /\ [m EXCEPT !.curr_brk_page = b].curr_brk_page = b
BY DEF Context

LEMMA PageFacts == REGION1_VPNS \in Nat /\ \A v \in Page : v \in Nat /\ v < REGION1_VPNS
BY SpaceAssumption DEF Page

LEMMA ContextNumbers ==
  ASSUME NEW m \in Context
  PROVE  /\ m.txt_start_page \in Int /\ m.data_start_page \in Int
         /\ m.orig_brk_page \in Int /\ m.curr_brk_page \in Int
BY DEF Context, Page

\* What happens above the heap does not disturb the program.
LEMMA KeepProgram ==
  ASSUME NEW m \in Context, NEW t, NEW t2, ProgramOK(t, m),
         \A v \in Page : v < m.curr_brk_page => t2[v] = t[v]
  PROVE  ProgramOK(t2, m)
<1>1. m.txt_start_page \in Page /\ m.curr_brk_page \in Page
  BY DEF Context
<1>2. \A v \in m.txt_start_page..(m.curr_brk_page - 1) : v \in Page /\ v < m.curr_brk_page
  BY <1>1, PageFacts DEF Page
<1> QED BY <1>2 DEF ProgramOK

\* The heap grows, below the stack.
LEMMA GrownOK ==
  ASSUME NEW m \in Context, NEW s \in Page, NEW b \in Page, NEW t, NEW t2, NEW pool, NEW R,
         m.curr_brk_page < b, b < s - 1,
         Filled(t2, t, Page, m.curr_brk_page..(b - 1), pool),
         \A v \in m.curr_brk_page..(b - 1) : t2[v].prot = "rw",
         ProgramOK(t, m)
  PROVE  /\ ProgramOK(t2, [m EXCEPT !.curr_brk_page = b])
         /\ StackOK(t, m, s, R) => StackOK(t2, [m EXCEPT !.curr_brk_page = b], s, R)
<1> DEFINE n == [m EXCEPT !.curr_brk_page = b]
           c == m.curr_brk_page
           pages == c..(b - 1)
<1>1. /\ m.txt_start_page \in Page /\ m.data_start_page \in Page /\ m.orig_brk_page \in Page /\ c \in Page
      /\ n.txt_start_page = m.txt_start_page /\ n.data_start_page = m.data_start_page
      /\ n.orig_brk_page = m.orig_brk_page /\ n.curr_brk_page = b
  BY ContextFacts
<1>2. /\ Mapped(t2) = Mapped(t) \union pages
      /\ \A v \in pages : t2[v] # None /\ t2[v].prot = "rw"
      /\ \A v \in Page : v \notin pages => t2[v] = t[v]
  BY DEF Filled
<1> HIDE DEF n
<1>3. ProgramOK(t2, n)
  <2>1. m.data_start_page <= m.orig_brk_page /\ m.orig_brk_page <= c
    BY DEF ProgramOK
  <2>2. m.orig_brk_page <= b
    BY <1>1, <2>1, PageFacts
  <2>3. ASSUME NEW v \in m.txt_start_page..(b - 1)
        PROVE  t2[v] # None /\ t2[v].prot = IF v < m.data_start_page THEN "rx" ELSE "rw"
    <3>1. v \in Page
      BY <1>1, PageFacts DEF Page
    <3>0. /\ v \in Int /\ c \in Int /\ b \in Int /\ m.txt_start_page \in Int /\ m.data_start_page \in Int
          /\ m.orig_brk_page \in Int /\ m.txt_start_page <= v /\ v <= b - 1
      <4>0. b \in Int /\ v \in Int
        BY <3>1, PageFacts
      <4>c. /\ c \in Int /\ m.txt_start_page \in Int /\ m.data_start_page \in Int
            /\ m.orig_brk_page \in Int
        BY ContextNumbers
      <4>1. /\ c \in Int /\ b \in Int /\ m.txt_start_page \in Int /\ m.data_start_page \in Int
            /\ m.orig_brk_page \in Int /\ v \in Int
        BY <4>0, <4>c
      <4> HIDE DEF c
      <4>2. m.txt_start_page <= v /\ v <= b - 1
        BY <4>1
      <4> QED BY <4>1, <4>2
    <3>2. CASE v < c
      <4>1. v \in m.txt_start_page..(c - 1) /\ v \notin pages
        BY <3>0, <3>2
      <4>2. t[v] # None /\ t[v].prot = IF v < m.data_start_page THEN "rx" ELSE "rw"
        BY <4>1 DEF ProgramOK
      <4> QED BY <1>2, <3>1, <4>1, <4>2
    <3>3. CASE ~(v < c)
      <4>1. v \in pages /\ ~(v < m.data_start_page)
        BY <2>1, <3>0, <3>3
      <4> QED BY <1>2, <4>1
    <3> QED BY <3>2, <3>3
  <2> QED BY <1>1, <2>1, <2>2, <2>3 DEF ProgramOK
<1>4. ASSUME StackOK(t, m, s, R) PROVE StackOK(t2, n, s, R)
  <2>1. \A v \in Page : ~(s <= v /\ v <= b)
    BY PageFacts
  <2>2. s..(REGION1_VPNS - 1) \subseteq Mapped(t2) \union R
    BY <1>2, <1>4 DEF StackOK
  <2>3. ASSUME NEW v \in Page, v >= b, t2[v] # None
        PROVE  v..(REGION1_VPNS - 1) \subseteq Mapped(t2) \union R
    <3>1. v \notin pages /\ v >= c
      BY <1>1, <2>3, PageFacts
    <3>2. v..(REGION1_VPNS - 1) \subseteq Mapped(t) \union R
      BY <1>2, <1>4, <2>3, <3>1 DEF StackOK
    <3> QED BY <1>2, <3>2
  <2> QED BY <1>1, <2>1, <2>2, <2>3 DEF StackOK
<1> QED BY <1>3, <1>4 DEF n

\* The heap shrinks.
LEMMA ShrunkOK ==
  ASSUME NEW m \in Context, NEW s \in Page, NEW b \in Page, NEW t \in [Page -> Pte], NEW t2, NEW R,
         m.orig_brk_page <= b, b <= m.curr_brk_page,
         t2 = Without(t, b..(m.curr_brk_page - 1)),
         ProgramOK(t, m)
  PROVE  /\ ProgramOK(t2, [m EXCEPT !.curr_brk_page = b])
         /\ StackOK(t, m, s, R) => StackOK(t2, [m EXCEPT !.curr_brk_page = b], s, R)
<1> DEFINE n == [m EXCEPT !.curr_brk_page = b]
           c == m.curr_brk_page
           pages == b..(c - 1)
<1>1. /\ m.txt_start_page \in Page /\ m.data_start_page \in Page /\ m.orig_brk_page \in Page /\ c \in Page
      /\ n.txt_start_page = m.txt_start_page /\ n.data_start_page = m.data_start_page
      /\ n.orig_brk_page = m.orig_brk_page /\ n.curr_brk_page = b
  BY ContextFacts
<1>2. Mapped(t2) = Mapped(t) \ pages /\ \A v \in Page : t2[v] = IF v \in pages THEN None ELSE t[v]
  <2> HIDE DEF pages
  <2> QED BY DEF pages, Without, Mapped
<1> HIDE DEF n
<1>3. ProgramOK(t2, n)
  <2>1. m.data_start_page <= m.orig_brk_page
    BY DEF ProgramOK
  <2>2. ASSUME NEW v \in m.txt_start_page..(b - 1)
        PROVE  t2[v] # None /\ t2[v].prot = IF v < m.data_start_page THEN "rx" ELSE "rw"
    <3>1. v \in Page /\ v \in m.txt_start_page..(c - 1) /\ v \notin pages
      BY <1>1, PageFacts DEF Page
    <3>2. t[v] # None /\ t[v].prot = IF v < m.data_start_page THEN "rx" ELSE "rw"
      BY <3>1 DEF ProgramOK
    <3> QED BY <1>2, <3>1, <3>2
  <2> QED BY <1>1, <2>1, <2>2 DEF ProgramOK
<1>4. ASSUME StackOK(t, m, s, R) PROVE StackOK(t2, n, s, R)
  <2>0. /\ \A v \in Page : s <= v /\ v <= c => v \in R
        /\ s..(REGION1_VPNS - 1) \subseteq Mapped(t) \union R
    BY <1>4 DEF StackOK
  <2>1. \A v \in Page : s <= v /\ v <= b => v \in R
    BY <1>1, <2>0, PageFacts
  <2>2. ASSUME NEW x \in s..(REGION1_VPNS - 1) PROVE x \in Mapped(t2) \union R
    <3>1. x \in Page /\ s <= x
      BY PageFacts DEF Page
    <3>2. CASE x \in pages
      <4>1. x <= c
        <5>1. c \in Int /\ b \in Int /\ x \in Int
          BY <3>1, ContextNumbers, PageFacts
        <5> QED BY <3>2, <5>1
      <4> QED BY <2>0, <3>1, <4>1
    <3>3. CASE x \notin pages
      BY <1>2, <2>0, <3>3
    <3> QED BY <3>2, <3>3
  <2>3. ASSUME NEW v \in Page, v >= b, t2[v] # None
        PROVE  v..(REGION1_VPNS - 1) \subseteq Mapped(t2) \union R
    <3>1. v \notin pages /\ t[v] # None
      BY <1>2, <2>3
    <3>2. v >= c
      BY <1>1, <2>3, <3>1, PageFacts
    <3>3. v..(REGION1_VPNS - 1) \subseteq Mapped(t) \union R
      BY <1>4, <3>1, <3>2 DEF StackOK
    <3>4. \A x \in v..(REGION1_VPNS - 1) : x \notin pages
      BY <1>1, <3>2, PageFacts
    <3> QED BY <1>2, <3>3, <3>4
  <2> QED BY <1>1, <2>1, <2>2, <2>3 DEF StackOK
<1> QED BY <1>3, <1>4 DEF n

\* Brk fails: the pages above the heap that had got a frame, the lowest of
\* them, are unmapped again.
LEMMA UndoneOK ==
  ASSUME NEW m \in Context, NEW s \in Page, NEW b \in Page, NEW t \in [Page -> Pte], NEW t2, NEW R,
         m.curr_brk_page < b, b < s - 1,
         NEW lowest \in SUBSET (m.curr_brk_page..(b - 1)),
         \A v \in m.curr_brk_page..(b - 1), w \in lowest : v < w => v \in lowest,
         t2 = Without(t, lowest),
         ProgramOK(t, m)
  PROVE  ProgramOK(t2, m) /\ (StackOK(t, m, s, R) => StackOK(t2, m, s, R))
<1> DEFINE c == m.curr_brk_page
           pages == c..(b - 1)
<1>1. c \in Int /\ b \in Int /\ s \in Int /\ REGION1_VPNS \in Int
  BY ContextNumbers, PageFacts
<1>2. Mapped(t2) = Mapped(t) \ lowest /\ \A v \in Page : t2[v] = IF v \in lowest THEN None ELSE t[v]
  BY DEF Without, Mapped
<1>l. \A x \in lowest : x \in Int /\ c <= x /\ x < b
  BY <1>1
<1>3. ProgramOK(t2, m)
  <2>1. \A v \in Page : v < c => v \notin lowest
    BY <1>1, <1>l, PageFacts
  <2>2. \A v \in Page : v < c => t2[v] = t[v]
    BY <1>2, <2>1
  <2> QED BY <2>2, KeepProgram
<1>4. ASSUME StackOK(t, m, s, R) PROVE StackOK(t2, m, s, R)
  <2>0. /\ \A v \in Page : s <= v /\ v <= c => v \in R
        /\ s..(REGION1_VPNS - 1) \subseteq Mapped(t) \union R
    BY <1>4 DEF StackOK
  <2>1. \A x \in s..(REGION1_VPNS - 1) : x \notin lowest
    BY <1>1, <1>l
  <2>2. s..(REGION1_VPNS - 1) \subseteq Mapped(t2) \union R
    BY <1>2, <2>0, <2>1
  <2>3. ASSUME NEW v \in Page, v >= c, t2[v] # None
        PROVE  v..(REGION1_VPNS - 1) \subseteq Mapped(t2) \union R
    <3>1. v \notin lowest /\ t[v] # None /\ v \in Int
      BY <1>2, <2>3, PageFacts
    <3>2. v..(REGION1_VPNS - 1) \subseteq Mapped(t) \union R
      BY <1>4, <2>3, <3>1 DEF StackOK
    <3>3. ASSUME NEW x \in v..(REGION1_VPNS - 1), x \in lowest PROVE FALSE
      <4>0. x \in Int /\ v <= x /\ x < b
        BY <1>1, <1>l, <3>1, <3>3
      <4>1. v # x
        BY <3>1, <3>3
      <4>2. v < x /\ v \in pages
        BY <1>1, <2>3, <3>1, <4>0, <4>1
      <4>3. v \in lowest
        BY <3>3, <4>2
      <4> QED BY <3>1, <4>3
    <3> QED BY <1>2, <3>2, <3>3
  <2> QED BY <2>0, <2>2, <2>3 DEF StackOK
<1> QED BY <1>3, <1>4

\* The pages that expand_stack adds: those from v up to the first one mapped.
Gap(t, v) == {x \in v..(REGION1_VPNS - 1) : v..x \intersect Mapped(t) = {}}

\* The stack grows down to page v by the pages that are served; the stack
\* pointer is there then, or where it was.
Expands(m, t, s, R, v, served, t2, s2, R2) ==
  /\ m \in Context /\ s \in Page /\ v \in Page /\ t \in [Page -> Pte]
  /\ s2 = s \/ s2 = v
  /\ v >= m.curr_brk_page + 1
  /\ served \in SUBSET Gap(t, v) /\ R2 = (R \union Gap(t, v)) \ served
  /\ \E pool : Filled(t2, t, Page, served, pool)

LEMMA ExpandedOK ==
  ASSUME NEW m, NEW t, NEW s, NEW R, NEW v, NEW served, NEW t2, NEW s2, NEW R2,
         Expands(m, t, s, R, v, served, t2, s2, R2),
         ProgramOK(t, m), StackOK(t, m, s, R)
  PROVE  ProgramOK(t2, m) /\ StackOK(t2, m, s2, R2)
<1>0. /\ m \in Context /\ s \in Page /\ v \in Page /\ t \in [Page -> Pte]
      /\ s2 = s \/ s2 = v
      /\ v >= m.curr_brk_page + 1
      /\ served \in SUBSET Gap(t, v) /\ R2 = (R \union Gap(t, v)) \ served
  BY DEF Expands
<1>p. PICK pool : Filled(t2, t, Page, served, pool)
  BY DEF Expands
<1> USE <1>0
<1> DEFINE c == m.curr_brk_page
           N == REGION1_VPNS
<1>1. c \in Int /\ v \in Int /\ s \in Int /\ N \in Int
  BY ContextNumbers, PageFacts
<1>2. /\ Mapped(t2) = Mapped(t) \union served
      /\ \A x \in Page : x \notin served => t2[x] = t[x]
      /\ DOMAIN t2 = Page
  BY <1>p DEF Filled
<1>g. \A x \in Gap(t, v) : x \in Int /\ v <= x /\ x < N
  BY <1>1 DEF Gap
<1>3. ProgramOK(t2, m)
  <2>1. \A x \in Page : x < c => x \notin served
    BY <1>1, <1>g, PageFacts
  <2>2. \A x \in Page : x < c => t2[x] = t[x]
    BY <1>2, <2>1
  <2> QED BY <2>2, KeepProgram
<1>s. /\ \A x \in Page : s <= x /\ x <= c => x \in R
      /\ s..(N - 1) \subseteq Mapped(t) \union R
      /\ \A x \in Page : x >= c /\ t[x] # None => x..(N - 1) \subseteq Mapped(t) \union R
  BY DEF StackOK
<1>u. Mapped(t) \union R \subseteq Mapped(t2) \union R2
  BY <1>2
<1>4. ASSUME NEW x \in Page, s2 <= x, x <= c PROVE x \in R2
  <2>0. x \in Int /\ ~(v <= x)
    BY <1>1, <1>4, PageFacts
  <2>1. s2 = s
    BY <1>4, <2>0
  <2>2. x \in R /\ x \notin served
    BY <1>s, <1>g, <1>4, <2>0, <2>1
  <2> QED BY <2>2
<1>5. ASSUME NEW x \in v..(N - 1) PROVE x \in Mapped(t2) \union R2
  <2>1. CASE x \in Gap(t, v)
    BY <1>2, <2>1
  <2>2. CASE x \notin Gap(t, v)
    <3>1. PICK y \in v..x : y \in Mapped(t)
      BY <2>2 DEF Gap
    <3>2. y \in Page /\ t[y] # None
      BY <3>1 DEF Mapped
    <3>3. y >= c /\ x \in y..(N - 1)
      BY <1>1
    <3>4. x \in Mapped(t) \union R
      BY <1>s, <3>2, <3>3
    <3> QED BY <1>u, <3>4
  <2> QED BY <2>1, <2>2
<1>6. s2..(N - 1) \subseteq Mapped(t2) \union R2
  <2>1. CASE s2 = s
    BY <1>s, <1>u, <2>1
  <2>2. CASE s2 = v
    BY <1>5, <2>2
  <2> QED BY <2>1, <2>2
<1>7. ASSUME NEW x \in Page, x >= c, t2[x] # None PROVE x..(N - 1) \subseteq Mapped(t2) \union R2
  <2>1. CASE x \in served
    <3>1. x \in Int /\ v <= x
      BY <1>g, <2>1
    <3>2. \A y \in x..(N - 1) : y \in v..(N - 1)
      BY <1>1, <3>1
    <3> QED BY <1>5, <3>2
  <2>2. CASE x \notin served
    <3>1. t[x] # None
      BY <1>2, <1>7, <2>2
    <3>2. x..(N - 1) \subseteq Mapped(t) \union R
      BY <1>s, <1>7, <3>1
    <3> QED BY <1>u, <3>2
  <2> QED BY <2>1, <2>2
<1>8. StackOK(t2, m, s2, R2)
  <2> HIDE DEF N, c
  <2> QED BY <1>4, <1>6, <1>7 DEF StackOK, N, c
<1> QED BY <1>3, <1>8

\* The stack pointer moves up, or down to a page that is there.
LEMMA MovedOK ==
  ASSUME NEW m \in Context, NEW s \in Page, NEW v \in Page, NEW t \in [Page -> Pte], NEW R,
         v > s \/ (v > m.curr_brk_page /\ v \in Mapped(t)), StackOK(t, m, s, R)
  PROVE  StackOK(t, m, v, R)
<1> DEFINE c == m.curr_brk_page
           N == REGION1_VPNS
<1>1. c \in Int /\ v \in Int /\ s \in Int /\ N \in Int
  BY ContextNumbers, PageFacts
<1>2. /\ \A x \in Page : s <= x /\ x <= c => x \in R
      /\ s..(N - 1) \subseteq Mapped(t) \union R
  BY DEF StackOK
<1>3. CASE v > s
  <2>1. \A x \in Page : v <= x => s <= x
    BY <1>1, <1>3, PageFacts
  <2>2. \A x \in v..(N - 1) : x \in s..(N - 1)
    BY <1>1, <1>3
  <2> QED BY <1>2, <2>1, <2>2 DEF StackOK
<1>4. CASE v > c /\ v \in Mapped(t)
  <2>1. v >= c /\ t[v] # None /\ \A x \in Page : ~(v <= x /\ x <= c)
    BY <1>1, <1>4, PageFacts DEF Mapped
  <2> QED BY <2>1 DEF StackOK
<1> QED BY <1>3, <1>4

\* The stack pointer is moved to a stack that the process did not get.
LEMMA MisplacedOK ==
  ASSUME NEW m, NEW s, NEW v, NEW t, NEW R, StackOK(t, m, s, R), v \in Page
  PROVE  StackOK(t, m, v, R \union v..(REGION1_VPNS - 1))
<1>1. \A x \in Page : v <= x => x \in v..(REGION1_VPNS - 1)
  BY PageFacts DEF Page
<1> QED BY <1>1 DEF StackOK

\* A program just loaded.
LEMMA LoadedOK ==
  ASSUME NEW prog \in Program, Fits(prog), NEW pool, pool \subseteq Frame, Size(prog) <= Cardinality(pool)
  PROVE  /\ ContextOf(prog) \in Context /\ REGION1_VPNS - prog.stack \in Page
         /\ ProgramOK(Loaded(prog, pool), ContextOf(prog))
         /\ StackOK(Loaded(prog, pool), ContextOf(prog), REGION1_VPNS - prog.stack, {})
<1> DEFINE t == Loaded(prog, pool)
           m == ContextOf(prog)
           a == prog.text + prog.data
           b == REGION1_VPNS - prog.stack
           N == REGION1_VPNS
<1>1. /\ prog.text \in Nat /\ prog.data \in Nat /\ prog.stack \in Nat /\ N \in Nat
      /\ 0 < prog.text /\ 0 < prog.data /\ 0 < prog.stack /\ a < b
  BY ProgramSizes
<1>2. /\ a \in Int /\ b \in Int /\ b < N /\ prog.text < a
      /\ 0 \in Page /\ prog.text \in Page /\ a \in Page /\ b \in Page
  BY <1>1 DEF Page
<1>0. Mapped(t) = ProgramPages(prog) /\ TextProtected(t, prog)
  <2> HIDE DEF t
  <2> QED BY LoadedFacts DEF t
<1>e. a - 1 = prog.text + prog.data - 1
  BY <1>1
<1>3. \A v \in 0..(a - 1) : t[v].prot = IF v < prog.text THEN "rx" ELSE "rw"
  <2> HIDE DEF t, a
  <2> QED BY <1>0, <1>e DEF TextProtected
<1>4. Mapped(t) = 0..(a - 1) \union b..(N - 1)
  <2> HIDE DEF t, a
  <2> QED BY <1>0, <1>e DEF ProgramPages
<1>5. /\ m.txt_start_page = 0 /\ m.data_start_page = prog.text /\ m.orig_brk_page = a /\ m.curr_brk_page = a
      /\ m \in Context
  BY <1>2 DEF ContextOf, Context
<1>6. \A v : v \in Mapped(t) => t[v] # None
  BY DEF Mapped
<1>7. DOMAIN t = Page
  BY DEF Loaded
<1> HIDE DEF t, m, a, b
<1>8. ProgramOK(t, m)
  <2>1. prog.text <= a /\ a <= a
    BY <1>1, <1>2
  <2>2. \A v \in 0..(a - 1) : t[v] # None
    BY <1>4, <1>6
  <2> QED BY <1>3, <1>5, <2>1, <2>2 DEF ProgramOK
<1>9. StackOK(t, m, b, {})
  <2>0. \A v \in Page : ~(b <= v /\ v <= a)
    BY <1>1, <1>2, PageFacts DEF a, b
  <2>1. ASSUME NEW v \in Page, v >= a, t[v] # None PROVE v..(N - 1) \subseteq Mapped(t)
    <3>1. v \in Mapped(t) /\ v \in Int
      BY <1>7, <2>1, PageFacts DEF Mapped
    <3>2. v >= b
      BY <1>1, <1>2, <1>4, <2>1, <3>1
    <3>3. \A x \in v..(N - 1) : x \in b..(N - 1)
      BY <1>1, <1>2, <3>1, <3>2
    <3> QED BY <1>4, <3>3
  <2> QED BY <1>1, <1>4, <1>5, <2>0, <2>1 DEF StackOK
<1> QED BY <1>2, <1>5, <1>8, <1>9 DEF t, m, b

\* The caller of Fork loses the page at its brk, which is not its program's
\* and not its stack's.
LEMMA CallerOK ==
  ASSUME NEW m \in Context, NEW s \in Page, NEW t \in [Page -> Pte], NEW t2, NEW R,
         t2 = Without(t, {m.curr_brk_page}), ProgramOK(t, m)
  PROVE  ProgramOK(t2, m) /\ (StackOK(t, m, s, R) => StackOK(t2, m, s, R))
<1> DEFINE c == m.curr_brk_page
           N == REGION1_VPNS
<1>1. c \in Int /\ s \in Int /\ N \in Int
  BY ContextNumbers, PageFacts
<1>2. Mapped(t2) = Mapped(t) \ {c} /\ \A v \in Page : t2[v] = IF v = c THEN None ELSE t[v]
  BY DEF Without, Mapped
<1>3. ProgramOK(t2, m)
  <2>1. ASSUME NEW v \in Page, v < c PROVE t2[v] = t[v]
    <3>1. v # c
      BY <1>1, <2>1
    <3> QED BY <1>2, <3>1
  <2> QED BY <2>1, KeepProgram
<1>4. ASSUME StackOK(t, m, s, R) PROVE StackOK(t2, m, s, R)
  <2>1. /\ \A v \in Page : s <= v /\ v <= c => v \in R
        /\ s..(N - 1) \subseteq Mapped(t) \union R
    BY <1>4 DEF StackOK
  <2>2. s..(N - 1) \subseteq Mapped(t2) \union R
    <3>1. c \in Page
      BY DEF Context
    <3>2. c \in s..(N - 1) => c \in R
      BY <1>1, <2>1, <3>1
    <3> HIDE DEF c
    <3> QED BY <1>2, <2>1, <3>2
  <2>3. ASSUME NEW v \in Page, v >= c, t2[v] # None PROVE v..(N - 1) \subseteq Mapped(t2) \union R
    <3>1. v # c /\ t[v] # None /\ v \in Int
      BY <1>2, <2>3, PageFacts
    <3>2. v..(N - 1) \subseteq Mapped(t) \union R /\ c \notin v..(N - 1)
      BY <1>1, <1>4, <2>3, <3>1 DEF StackOK
    <3> QED BY <1>2, <3>2
  <2> QED BY <2>1, <2>2, <2>3 DEF StackOK
<1> QED BY <1>3, <1>4

\* The child's table: the pages are mapped, the text read-only.
Copy(m, pages, pool) ==
  [v \in Page |-> IF v \in m.txt_start_page..(m.data_start_page - 1)
                  THEN [With(NoTable(Page), pages, "rw", pool)[v] EXCEPT !.prot = "rx"]
                  ELSE With(NoTable(Page), pages, "rw", pool)[v]]

IsCopy(t, m, pages, pool) ==
  /\ Filled(t, NoTable(Page), Page, pages, pool) /\ {t[v].pfn : v \in pages} = Taken(pages, pool)
  /\ \A v \in pages : t[v].prot = IF v \in m.txt_start_page..(m.data_start_page - 1) THEN "rx" ELSE "rw"

LEMMA CopyFacts ==
  ASSUME NEW m, NEW pages \in SUBSET Page, m.txt_start_page..(m.data_start_page - 1) \in SUBSET pages,
         NEW pool \in SUBSET Frame, AllServed(pages, pool), NEW t, t = Copy(m, pages, pool)
  PROVE  IsCopy(t, m, pages, pool)
<1> DEFINE none == NoTable(Page)
           w == With(none, pages, "rw", pool)
           ro == m.txt_start_page..(m.data_start_page - 1)
<1>1. none \in [Page -> Pte]
  BY NoTableFacts
<1>2. t = [v \in Page |-> IF v \in ro THEN [w[v] EXCEPT !.prot = "rx"] ELSE w[v]] /\ ro \in SUBSET pages
  BY DEF Copy
<1> HIDE DEF none, w, ro
<1>3. FilledWith(none, Page, pages, "rw", pool)
  <2>1. "rw" \in {"rw", "rx"}
    OBVIOUS
  <2> QED BY <1>1, <2>1, TablesNumbered, WithFacts
<1>4. /\ Filled(w, none, Page, pages, pool) /\ \A v \in pages : w[v].prot = "rw"
      /\ {w[v].pfn : v \in pages} = Taken(pages, pool)
  BY <1>3 DEF FilledWith, w
<1>5. Filled(t, none, Page, pages, pool) /\ Protected(t, w, pages, ro)
  BY <1>2, <1>4, ProtectFacts, Zenon
<1>6. {t[v].pfn : v \in pages} = Taken(pages, pool)
  <2>1. \A v \in pages : t[v].pfn = w[v].pfn
    BY <1>5 DEF Protected
  <2>2. {t[v].pfn : v \in pages} = {w[v].pfn : v \in pages}
    BY <2>1
  <2> QED BY <1>4, <2>2
<1>7. \A v \in pages : t[v].prot = IF v \in ro THEN "rx" ELSE "rw"
  BY <1>5 DEF Protected
<1> QED BY <1>5, <1>6, <1>7 DEF none, ro, IsCopy

\* The child's program and stack are copies of the caller's.
LEMMA ChildOK ==
  ASSUME NEW m \in Context, NEW s \in Page, m.curr_brk_page < s, NEW t, ProgramOK(t, m),
         NEW pages, pages = m.txt_start_page..(m.curr_brk_page - 1) \union s..(REGION1_VPNS - 1),
         NEW pool \in SUBSET Frame, AllServed(pages, pool), NEW t2, t2 = Copy(m, pages, pool),
         NEW R
  PROVE  IsCopy(t2, m, pages, pool) /\ ProgramOK(t2, m) /\ StackOK(t2, m, s, R)
<1> DEFINE a == m.txt_start_page
           d == m.data_start_page
           c == m.curr_brk_page
           N == REGION1_VPNS
<1>1. a \in Page /\ d \in Page /\ c \in Page /\ d <= m.orig_brk_page /\ m.orig_brk_page <= c
  BY DEF Context, ProgramOK
<1>2. a \in Nat /\ d \in Int /\ c \in Int /\ s \in Int /\ N \in Nat /\ d <= c /\ c < s /\ c < N
  <2>1. a \in Nat /\ c < N /\ N \in Nat /\ s \in Int
    BY <1>1, PageFacts
  <2> QED BY <1>1, <2>1, ContextNumbers
<1>3. pages \in SUBSET Page /\ a..(d - 1) \in SUBSET pages
  <2>1. pages = a..(c - 1) \union s..(N - 1) /\ Page = 0..(N - 1) /\ s \in Nat
    BY PageFacts DEF Page
  <2> HIDE DEF a, c, d, N
  <2> QED BY <1>2, <2>1
<1>7. IsCopy(t2, m, pages, pool)
  BY <1>3, CopyFacts
<1>8. /\ Filled(t2, NoTable(Page), Page, pages, pool)
      /\ \A v \in pages : t2[v].prot = IF v \in a..(d - 1) THEN "rx" ELSE "rw"
  BY <1>7 DEF IsCopy
<1>9. Mapped(NoTable(Page)) = {}
  BY NoTableFacts
<1>10. /\ Mapped(t2) = pages /\ \A v \in pages : t2[v] # None
       /\ DOMAIN t2 = Page
  BY <1>8, <1>9 DEF Filled
<1>11. ProgramOK(t2, m)
  <2>1. ASSUME NEW v \in a..(c - 1)
        PROVE  t2[v] # None /\ t2[v].prot = IF v < d THEN "rx" ELSE "rw"
    <3>1. v \in pages
      OBVIOUS
    <3>2. v \in a..(d - 1) <=> v < d
      BY <1>2
    <3> QED BY <1>8, <1>10, <3>1, <3>2
  <2> QED BY <1>1, <2>1 DEF ProgramOK
<1>12. StackOK(t2, m, s, R)
  <2>0. \A v \in Page : ~(s <= v /\ v <= c)
    BY <1>2, PageFacts
  <2>1. s..(N - 1) \subseteq Mapped(t2)
    BY <1>10
  <2>2. ASSUME NEW v \in Page, v >= c, t2[v] # None PROVE v..(N - 1) \subseteq Mapped(t2)
    <3>0. v \in Mapped(t2)
      BY <1>10, <2>2 DEF Mapped
    <3>a. v \in pages
      BY <1>10, <3>0, Zenon
    <3>1. v \in pages /\ v \in Int
      BY <3>a, PageFacts
    <3>2. v >= s
      BY <1>2, <2>2, <3>1
    <3>3. \A x \in v..(N - 1) : x \in s..(N - 1)
      BY <1>2, <3>1, <3>2
    <3> QED BY <2>1, <3>3
  <2> QED BY <1>2, <2>0, <2>1, <2>2 DEF StackOK
<1> QED BY <1>7, <1>11, <1>12
-----------------------------------------------------------------------------
(* The steps of the processes *)

\* The parts of the invariant, about the process that runs.
LEMMA RunningFacts ==
  ASSUME IInv, UserRuns
  PROVE  /\ running \in Proc /\ running \in live
         /\ pt \in [Page -> Pte] /\ ctx \in Context /\ sp[running] \in Page
         /\ free \in SUBSET Frame
         /\ DOMAIN region1_pt = Proc /\ DOMAIN ks_pt = Proc /\ DOMAIN mem_ctx = Proc /\ DOMAIN sp = Proc /\ DOMAIN refused = Proc
         /\ ks_pt[running] \in [StackPage -> Pte]
         /\ ProgramOK(pt, ctx) /\ StackOK(pt, ctx, sp[running], refused[running])
         /\ OwnFrames(region1_pt, ks_pt, region0_pt, free)
         /\ overgrown \/ NoneLost(region1_pt, ks_pt, region0_pt, free)
<1>1. running \in Proc /\ running \in live
  BY DEF IInv, UserRuns, Placed
<1>2. /\ pt \in [Page -> Pte] /\ ctx \in Context /\ sp[running] \in Page /\ free \in SUBSET Frame
      /\ DOMAIN region1_pt = Proc /\ DOMAIN ks_pt = Proc /\ DOMAIN mem_ctx = Proc /\ DOMAIN sp = Proc /\ DOMAIN refused = Proc
      /\ ks_pt[running] \in [StackPage -> Pte]
  BY <1>1 DEF IInv, Types, pt, ctx
<1>3. ProgramOK(pt, ctx) /\ StackOK(pt, ctx, sp[running], refused[running])
  BY <1>1 DEF IInv, ProcessesOK, pt, ctx
<1>4. /\ OwnFrames(region1_pt, ks_pt, region0_pt, free)
      /\ overgrown \/ NoneLost(region1_pt, ks_pt, region0_pt, free)
  BY DEF IInv, FramesOK, OwnFrames, NoneLost
<1> QED BY <1>1, <1>2, <1>3, <1>4

LEMMA SameAt ==
  ASSUME NEW S, NEW R, NEW f \in [S -> R], NEW x \in S
  PROVE  f = [f EXCEPT ![x] = f[x]]
OBVIOUS

\* What does not change of the running process's memory.
LEMMA SameUser ==
  ASSUME IInv, UserRuns
  PROVE  /\ region1_pt = [region1_pt EXCEPT ![running] = pt]
         /\ mem_ctx = [mem_ctx EXCEPT ![running] = ctx]
         /\ sp = [sp EXCEPT ![running] = sp[running]]
         /\ refused = [refused EXCEPT ![running] = refused[running]]
<1>1. /\ running \in Proc /\ region1_pt \in [Proc -> [Page -> Pte]]
      /\ mem_ctx \in [Proc -> Context] /\ sp \in [Proc -> Page] /\ refused \in [Proc -> SUBSET Page]
  BY DEF IInv, Types, UserRuns
<1> QED BY <1>1, SameAt DEF pt, ctx

\* Only the memory of the running process changes.
LEMMA UserStep ==
  ASSUME IInv, UserRuns, fault = "none", NEW t \in [Page -> Pte], NEW m \in Context, NEW s \in Page, NEW R \in SUBSET Page,
         region1_pt' = [region1_pt EXCEPT ![running] = t],
         mem_ctx' = [mem_ctx EXCEPT ![running] = m],
         sp' = [sp EXCEPT ![running] = s],
         refused' = [refused EXCEPT ![running] = R],
         UNCHANGED <<queue, kernel, live, fault, stackless>>, free' \subseteq Frame,
         ProgramOK(t, m), StackOK(t, m, s, R),
         OwnFrames(region1_pt', ks_pt', region0_pt', free'),
         overgrown' \/ NoneLost(region1_pt', ks_pt', region0_pt', free')
  PROVE  IInv'
<1>1. running \in Proc /\ running \in live /\ fault = "none"
  BY RunningFacts
<1>2. Types'
  BY <1>1 DEF IInv, Types, queue, kernel
<1>3. Placed'
  BY DEF IInv, Placed, queue
<1>4. NothingLeft'
  BY <1>1 DEF IInv, NothingLeft, Types, kernel
<1>5. ProcessesOK'
  <2> SUFFICES ASSUME NEW p \in live
               PROVE  /\ ProgramOK(region1_pt'[p], mem_ctx'[p])
                      /\ StackOK(region1_pt'[p], mem_ctx'[p], sp'[p], refused'[p])
                      /\ p \in stackless' \/ Mapped(ks_pt'[p]) = StackPage
    BY DEF ProcessesOK
  <2>0. /\ p \in Proc /\ DOMAIN region1_pt = Proc /\ DOMAIN mem_ctx = Proc /\ DOMAIN sp = Proc
        /\ DOMAIN refused = Proc
    BY DEF IInv, Types
  <2>1. p \in stackless' \/ Mapped(ks_pt'[p]) = StackPage
    BY DEF IInv, ProcessesOK, kernel
  <2>2. CASE p = running
    <3>1. region1_pt'[p] = t /\ mem_ctx'[p] = m /\ sp'[p] = s /\ refused'[p] = R
      BY <2>0, <2>2
    <3> QED BY <2>1, <3>1
  <2>3. CASE p # running
    <3>1. /\ region1_pt'[p] = region1_pt[p] /\ mem_ctx'[p] = mem_ctx[p] /\ sp'[p] = sp[p]
          /\ refused'[p] = refused[p]
      BY <2>0, <2>3
    <3>2. ProgramOK(region1_pt[p], mem_ctx[p]) /\ StackOK(region1_pt[p], mem_ctx[p], sp[p], refused[p])
      BY DEF IInv, ProcessesOK
    <3> QED BY <2>1, <3>1, <3>2
  <2> QED BY <2>2, <2>3
<1>6. FaultOK'
  BY <1>1 DEF FaultOK
<1>7. FramesOK'
  BY DEF FramesOK, OwnFrames, NoneLost
<1> QED BY <1>2, <1>3, <1>4, <1>5, <1>6, <1>7 DEF IInv

\* The frames of pages of a table.
LEMMA FramesOfTable ==
  ASSUME NEW S, NEW t \in [S -> Pte], NEW pages
  PROVE  Frames(t, pages) \subseteq Frame
BY PteFacts DEF Frames, Mapped

LEMMA ExecStep ==
  ASSUME IInv, NEW prog \in Program, KernelExec(prog)
  PROVE  IInv'
<1> DEFINE pool == free \union Frames(pt, Page)
           table == Loaded(prog, pool)
           m == ContextOf(prog)
           s == REGION1_VPNS - prog.stack
           pages == ProgramPages(prog)
           none == NoTable(Page)
           u == [region1_pt EXCEPT ![running] = none]
<1>1. /\ UserRuns /\ fault = "none" /\ Fits(prog) /\ Size(prog) <= Cardinality(pool)
      /\ region1_pt' = [region1_pt EXCEPT ![running] = table]
      /\ free' = pool \ Frames(table, Page)
      /\ mem_ctx' = [mem_ctx EXCEPT ![running] = m]
      /\ sp' = [sp EXCEPT ![running] = s]
      /\ refused' = [refused EXCEPT ![running] = {}]
      /\ UNCHANGED <<queue, kernel, live, fault, stackless>> /\ overgrown' = overgrown
  BY DEF KernelExec, Trap, LoadProgram
<1>2. /\ running \in Proc /\ pt \in [Page -> Pte] /\ free \in SUBSET Frame
      /\ DOMAIN region1_pt = Proc /\ DOMAIN ks_pt = Proc
      /\ OwnFrames(region1_pt, ks_pt, region0_pt, free)
      /\ overgrown \/ NoneLost(region1_pt, ks_pt, region0_pt, free)
  BY <1>1, RunningFacts
<1>3. pool \subseteq Frame
  BY <1>2, FramesOfTable
<1>4. none = Without(pt, Page) /\ none \in [Page -> Pte] /\ Mapped(none) = {}
  BY <1>2, AllDropped, NoTableFacts
<1>5. region1_pt[running] = pt /\ DOMAIN u = Proc /\ u[running] = none
  BY <1>2 DEF pt
<1>6. region1_pt' = [u EXCEPT ![running] = table]
  BY <1>1, <1>2
<1>p. pool = free \union Frames(pt, Page)
  OBVIOUS
<1>u. u = [region1_pt EXCEPT ![running] = none]
  OBVIOUS
<1> HIDE DEF pool, table, m, s, pages, none, u
<1>7. /\ Filled(table, none, Page, pages, pool)
      /\ Frames(table, Page) = {table[v].pfn : v \in pages}
  BY <1>1, <1>3, LoadedFacts DEF table, pages, none
<1>8. m \in Context /\ s \in Page /\ ProgramOK(table, m) /\ StackOK(table, m, s, {})
  BY <1>1, <1>3, LoadedOK DEF table, m, s
<1>9. /\ OwnFrames(u, ks_pt, region0_pt, pool)
      /\ NoneLost(region1_pt, ks_pt, region0_pt, free) => NoneLost(u, ks_pt, region0_pt, pool)
  <2>1. Changes(region1_pt, ks_pt, region0_pt, u, ks_pt, region0_pt, Page, pt, none)
    BY <1>2, <1>5, <1>u, UserChanges
  <2>2. Page \in SUBSET Page
    OBVIOUS
  <2> QED BY <1>2, <1>4, <1>p, <2>1, <2>2, DropTable
<1>10. /\ OwnFrames(region1_pt', ks_pt, region0_pt, free')
       /\ NoneLost(u, ks_pt, region0_pt, pool) => NoneLost(region1_pt', ks_pt, region0_pt, free')
  <2>1. Changes(u, ks_pt, region0_pt, region1_pt', ks_pt, region0_pt, Page, none, table)
    BY <1>2, <1>5, <1>6, UserChanges
  <2>2. DOMAIN none = Page /\ pages \intersect Mapped(none) = {}
    BY <1>4
  <2>3. free' = pool \ {table[v].pfn : v \in pages}
    BY <1>1, <1>7
  <2> QED BY <1>7, <1>9, <2>1, <2>2, <2>3, FillTable
<1>11. table \in [Page -> Pte] /\ free' \subseteq Frame /\ ks_pt' = ks_pt /\ region0_pt' = region0_pt
  BY <1>1, <1>3, <1>7 DEF Filled, kernel
<1>12. OwnFrames(region1_pt', ks_pt', region0_pt', free') /\ (overgrown' \/ NoneLost(region1_pt', ks_pt', region0_pt', free'))
  BY <1>1, <1>2, <1>9, <1>10, <1>11
<1>13. {} \in SUBSET Page
  OBVIOUS
<1> QED BY <1>1, <1>8, <1>11, <1>12, <1>13, UserStep

\* Pages of the running process get free frames.
LEMMA FillUser ==
  ASSUME IInv, UserRuns, NEW pages \in SUBSET Page, AllServed(pages, free),
         NEW t, t = With(pt, pages, "rw", free),
         region1_pt' = [region1_pt EXCEPT ![running] = t],
         free' = free \ Taken(pages, free), UNCHANGED kernel
  PROVE  /\ Filled(t, pt, Page, pages, free) /\ \A v \in pages : t[v].prot = "rw"
         /\ t \in [Page -> Pte] /\ free' \subseteq Frame
         /\ OwnFrames(region1_pt', ks_pt', region0_pt', free')
         /\ pages \intersect Mapped(pt) = {} /\ NoneLost(region1_pt, ks_pt, region0_pt, free)
              => NoneLost(region1_pt', ks_pt', region0_pt', free')
<1>1. /\ running \in Proc /\ pt \in [Page -> Pte] /\ free \in SUBSET Frame
      /\ DOMAIN region1_pt = Proc /\ DOMAIN ks_pt = Proc
      /\ OwnFrames(region1_pt, ks_pt, region0_pt, free)
  BY RunningFacts
<1>2. ks_pt' = ks_pt /\ region0_pt' = region0_pt
  BY DEF kernel
<1>3. FilledWith(pt, Page, pages, "rw", free)
  <2>1. "rw" \in {"rw", "rx"}
    OBVIOUS
  <2> QED BY <1>1, <2>1, TablesNumbered, WithFacts
<1>4. /\ Filled(t, pt, Page, pages, free) /\ \A v \in pages : t[v].prot = "rw"
      /\ {t[v].pfn : v \in pages} = Taken(pages, free)
  BY <1>3 DEF FilledWith
<1>5. Changes(region1_pt, ks_pt, region0_pt, region1_pt', ks_pt, region0_pt, Page, pt, t)
  <2>1. pt = region1_pt[running]
    BY DEF pt
  <2> QED BY <1>1, <2>1, UserChanges
<1>6. /\ OwnFrames(region1_pt', ks_pt, region0_pt, free')
      /\ pages \intersect Mapped(pt) = {} /\ NoneLost(region1_pt, ks_pt, region0_pt, free)
           => NoneLost(region1_pt', ks_pt, region0_pt, free')
  <2>1. free' = free \ {t[v].pfn : v \in pages} /\ DOMAIN pt = Page
    BY <1>1, <1>4
  <2> QED BY <1>1, <1>4, <1>5, <2>1, FillTable
<1>7. t \in [Page -> Pte] /\ free' \subseteq Frame
  BY <1>1, <1>4 DEF Filled
<1> QED BY <1>2, <1>4, <1>6, <1>7

\* Pages of the running process are unmapped.
LEMMA DropUser ==
  ASSUME IInv, UserRuns, NEW pages \in SUBSET Page, NEW t, t = Without(pt, pages),
         region1_pt' = [region1_pt EXCEPT ![running] = t], UNCHANGED kernel
  PROVE  /\ t \in [Page -> Pte] /\ free \union Frames(pt, pages) \subseteq Frame
         /\ OwnFrames(region1_pt', ks_pt', region0_pt', free)
         /\ OwnFrames(region1_pt', ks_pt', region0_pt', free \union Frames(pt, pages))
         /\ NoneLost(region1_pt, ks_pt, region0_pt, free)
              => NoneLost(region1_pt', ks_pt', region0_pt', free \union Frames(pt, pages))
         /\ pages \intersect Mapped(pt) = {} /\ NoneLost(region1_pt, ks_pt, region0_pt, free)
              => NoneLost(region1_pt', ks_pt', region0_pt', free)
<1>1. /\ running \in Proc /\ pt \in [Page -> Pte] /\ free \in SUBSET Frame
      /\ DOMAIN region1_pt = Proc /\ DOMAIN ks_pt = Proc
      /\ OwnFrames(region1_pt, ks_pt, region0_pt, free)
  BY RunningFacts
<1>2. ks_pt' = ks_pt /\ region0_pt' = region0_pt
  BY DEF kernel
<1>3. Changes(region1_pt, ks_pt, region0_pt, region1_pt', ks_pt, region0_pt, Page, pt, t)
  <2>1. pt = region1_pt[running]
    BY DEF pt
  <2> QED BY <1>1, <2>1, UserChanges
<1> DEFINE more == free \union Frames(pt, pages)
<1>4. more = free \union Frames(pt, pages) /\ more \subseteq Frame
  BY <1>1, FramesOfTable
<1> HIDE DEF more
<1>5. /\ OwnFrames(region1_pt', ks_pt, region0_pt, free) /\ OwnFrames(region1_pt', ks_pt, region0_pt, more)
      /\ NoneLost(region1_pt, ks_pt, region0_pt, free) => NoneLost(region1_pt', ks_pt, region0_pt, more)
      /\ pages \intersect Mapped(pt) = {} /\ NoneLost(region1_pt, ks_pt, region0_pt, free)
           => NoneLost(region1_pt', ks_pt, region0_pt, free)
  BY <1>1, <1>3, <1>4, DropTable
<1>6. t \in [Page -> Pte]
  BY <1>1, PteFacts DEF Without
<1> QED BY <1>2, <1>4, <1>5, <1>6 DEF more

LEMMA BrkGrowsStep ==
  ASSUME IInv, NEW b \in Page, Trap, ctx.curr_brk_page < b, b < sp[running] - 1, BrkGrows(b),
         UNCHANGED <<queue, sp, kernel, live, fault, refused, stackless>>
  PROVE  IInv'
<1> DEFINE c == ctx.curr_brk_page
           pages == c..(b - 1)
           t == With(pt, pages, "rw", free)
           m == [ctx EXCEPT !.curr_brk_page = b]
           s == sp[running]
           R == refused[running]
<1>1. /\ UserRuns /\ fault = "none" /\ R \in SUBSET Page
      /\ running \in Proc /\ ctx \in Context /\ s \in Page /\ free \in SUBSET Frame
  BY RunningFacts DEF Trap, IInv, Types
<1>2. /\ c \in Page /\ m \in Context
      /\ DOMAIN region1_pt = Proc /\ DOMAIN mem_ctx = Proc /\ DOMAIN sp = Proc
      /\ ProgramOK(pt, ctx) /\ StackOK(pt, ctx, s, R)
      /\ overgrown \/ NoneLost(region1_pt, ks_pt, region0_pt, free)
  BY <1>1, RunningFacts, ContextFacts
<1>3. pages \in SUBSET Page
  BY <1>2, PageFacts DEF Page
<1>4. Enough(pages, free) /\ AllServed(pages, free)
  <2>1. Enough(pages, free)
    BY DEF BrkGrows
  <2>2. Numbered(Page)
    BY TablesNumbered
  <2> HIDE DEF pages
  <2>3. Enough(pages, free) => AllServed(pages, free)
    BY <1>1, <1>3, <2>2, LoopFacts
  <2> QED BY <2>1, <2>3
<1>5. /\ region1_pt' = [region1_pt EXCEPT ![running] = t]
      /\ mem_ctx' = [mem_ctx EXCEPT ![running] = m]
      /\ free' = free \ Taken(pages, free)
      /\ sp' = [sp EXCEPT ![running] = s] /\ refused' = [refused EXCEPT ![running] = R]
      /\ overgrown' = (overgrown \/ c..b \intersect Mapped(pt) # {})
  <2>1. sp' = [sp EXCEPT ![running] = s] /\ refused' = [refused EXCEPT ![running] = R]
    BY <1>1, SameUser
  <2> QED BY <2>1 DEF BrkGrows, pt, ctx
<1>6. c..b \intersect Mapped(pt) = {} => pages \intersect Mapped(pt) = {}
  BY <1>2, PageFacts
<1>k. UNCHANGED kernel /\ UNCHANGED <<queue, kernel, live, fault, stackless>>
  OBVIOUS
<1>b. \A v \in pages : v \in c..(b - 1)
  OBVIOUS
<1>7. /\ Filled(t, pt, Page, pages, free) /\ \A v \in pages : t[v].prot = "rw"
      /\ t \in [Page -> Pte] /\ free' \subseteq Frame
      /\ OwnFrames(region1_pt', ks_pt', region0_pt', free')
      /\ pages \intersect Mapped(pt) = {} /\ NoneLost(region1_pt, ks_pt, region0_pt, free)
           => NoneLost(region1_pt', ks_pt', region0_pt', free')
  <2> HIDE DEF pages, t
  <2> QED BY <1>1, <1>3, <1>4, <1>5, <1>k, FillUser DEF t
<1>8. ProgramOK(t, m) /\ StackOK(t, m, s, R)
  <2> HIDE DEF t
  <2> QED BY <1>1, <1>2, <1>7, GrownOK
<1>10. overgrown' \/ NoneLost(region1_pt', ks_pt', region0_pt', free')
  BY <1>2, <1>5, <1>6, <1>7
<1> HIDE DEF t, m, s, R, pages
<1> QED BY <1>1, <1>2, <1>5, <1>7, <1>8, <1>10, <1>k, UserStep

LEMMA BrkFailsStep ==
  ASSUME IInv, NEW b \in Page, Trap, ctx.curr_brk_page < b, b < sp[running] - 1, BrkFails(b),
         UNCHANGED <<queue, sp, kernel, live, fault, refused, stackless>>
  PROVE  IInv'
<1> DEFINE c == ctx.curr_brk_page
           pages == c..(b - 1)
           lowest == Served(pages, free)
           t == Without(pt, lowest)
           s == sp[running]
           R == refused[running]
<1>1. /\ UserRuns /\ fault = "none" /\ R \in SUBSET Page
      /\ running \in Proc /\ ctx \in Context /\ s \in Page /\ free \in SUBSET Frame /\ pt \in [Page -> Pte]
  BY RunningFacts DEF Trap, IInv, Types
<1>2. /\ c \in Page
      /\ ProgramOK(pt, ctx) /\ StackOK(pt, ctx, s, R)
      /\ overgrown \/ NoneLost(region1_pt, ks_pt, region0_pt, free)
  BY <1>1, RunningFacts, ContextFacts
<1>3. pages \in SUBSET Page
  BY <1>2, PageFacts DEF Page
<1>4. lowest \in SUBSET pages /\ \A v \in pages, w \in lowest : v < w => v \in lowest
  <2> HIDE DEF pages
  <2> QED BY <1>1, <1>3, TablesNumbered, LoopFacts
<1>5. /\ region1_pt' = [region1_pt EXCEPT ![running] = t]
      /\ mem_ctx' = [mem_ctx EXCEPT ![running] = ctx]
      /\ sp' = [sp EXCEPT ![running] = s] /\ refused' = [refused EXCEPT ![running] = R]
      /\ free' = free
      /\ overgrown' = (overgrown \/ pages \intersect Mapped(pt) # {})
  <2>1. sp' = [sp EXCEPT ![running] = s] /\ refused' = [refused EXCEPT ![running] = R] /\ mem_ctx' = [mem_ctx EXCEPT ![running] = ctx]
    BY <1>1, SameUser DEF BrkFails
  <2> QED BY <2>1 DEF BrkFails, pt, ctx
<1>6. pages \intersect Mapped(pt) = {} => lowest \intersect Mapped(pt) = {}
  BY <1>4
<1>k. UNCHANGED kernel /\ UNCHANGED <<queue, kernel, live, fault, stackless>>
  OBVIOUS
<1> HIDE DEF lowest, t
<1>7. /\ t \in [Page -> Pte]
      /\ OwnFrames(region1_pt', ks_pt', region0_pt', free)
      /\ lowest \intersect Mapped(pt) = {} /\ NoneLost(region1_pt, ks_pt, region0_pt, free)
           => NoneLost(region1_pt', ks_pt', region0_pt', free)
  <2>1. lowest \in SUBSET Page /\ t = Without(pt, lowest)
    BY <1>3, <1>4 DEF t
  <2> QED BY <1>1, <1>5, <1>k, <2>1, DropUser
<1>8. ProgramOK(t, ctx) /\ StackOK(t, ctx, s, R)
  <2>1. t = Without(pt, lowest)
    BY DEF t
  <2> QED BY <1>1, <1>2, <1>4, <2>1, UndoneOK
<1>10. overgrown' \/ NoneLost(region1_pt', ks_pt', region0_pt', free')
  BY <1>2, <1>5, <1>6, <1>7
<1>11. free' \subseteq Frame /\ OwnFrames(region1_pt', ks_pt', region0_pt', free')
  BY <1>1, <1>5, <1>7, <1>k
<1> HIDE DEF s, R, pages
<1> QED BY <1>1, <1>2, <1>5, <1>7, <1>8, <1>10, <1>11, <1>k, UserStep

LEMMA BrkShrinksStep ==
  ASSUME IInv, NEW b \in Page, Trap, b <= ctx.curr_brk_page, ctx.orig_brk_page <= b, BrkShrinks(b),
         UNCHANGED <<queue, sp, kernel, live, fault, refused, stackless>>
  PROVE  IInv'
<1> DEFINE c == ctx.curr_brk_page
           pages == b..(c - 1)
           t == Without(pt, pages)
           m == [ctx EXCEPT !.curr_brk_page = b]
           s == sp[running]
           R == refused[running]
<1>1. /\ UserRuns /\ fault = "none" /\ R \in SUBSET Page
      /\ running \in Proc /\ ctx \in Context /\ s \in Page /\ free \in SUBSET Frame /\ pt \in [Page -> Pte]
  BY RunningFacts DEF Trap, IInv, Types
<1>2. /\ c \in Page /\ m \in Context
      /\ ProgramOK(pt, ctx) /\ StackOK(pt, ctx, s, R)
      /\ overgrown \/ NoneLost(region1_pt, ks_pt, region0_pt, free)
  BY <1>1, RunningFacts, ContextFacts
<1>3. pages \in SUBSET Page
  BY <1>2, PageFacts DEF Page
<1>5. /\ region1_pt' = [region1_pt EXCEPT ![running] = t]
      /\ mem_ctx' = [mem_ctx EXCEPT ![running] = m]
      /\ sp' = [sp EXCEPT ![running] = s] /\ refused' = [refused EXCEPT ![running] = R]
      /\ free' = free \union Frames(pt, pages)
      /\ overgrown' = overgrown
  <2>1. sp' = [sp EXCEPT ![running] = s] /\ refused' = [refused EXCEPT ![running] = R]
    BY <1>1, SameUser
  <2> QED BY <2>1 DEF BrkShrinks, pt, ctx
<1>k. UNCHANGED kernel /\ UNCHANGED <<queue, kernel, live, fault, stackless>>
  OBVIOUS
<1>t. t = Without(pt, pages)
  OBVIOUS
<1> HIDE DEF t
<1>7. /\ t \in [Page -> Pte] /\ free' \subseteq Frame
      /\ OwnFrames(region1_pt', ks_pt', region0_pt', free')
      /\ NoneLost(region1_pt, ks_pt, region0_pt, free) => NoneLost(region1_pt', ks_pt', region0_pt', free')
  <2> HIDE DEF pages
  <2> QED BY <1>1, <1>3, <1>5, <1>k, <1>t, DropUser
<1>8. ProgramOK(t, m) /\ StackOK(t, m, s, R)
  BY <1>1, <1>2, <1>t, ShrunkOK
<1>10. overgrown' \/ NoneLost(region1_pt', ks_pt', region0_pt', free')
  BY <1>2, <1>5, <1>7
<1> HIDE DEF m, s, R, pages
<1> QED BY <1>1, <1>2, <1>5, <1>7, <1>8, <1>10, <1>k, UserStep

LEMMA BrkStep ==
  ASSUME IInv, NEW b \in Page, KernelBrk_Impl(b)
  PROVE  IInv'
<1>1. /\ Trap /\ b >= ctx.orig_brk_page /\ b < sp[running] - 1
      /\ UNCHANGED <<queue, sp, kernel, live, fault, refused, stackless>>
  BY DEF KernelBrk_Impl
<1>2. ctx \in Context /\ b \in Int
  BY <1>1, RunningFacts, PageFacts DEF Trap
<1>3. ctx.orig_brk_page \in Int /\ ctx.curr_brk_page \in Int
  BY <1>2, ContextNumbers
<1>4. CASE BrkGrows(b)
  <2>1. ctx.curr_brk_page < b
    BY <1>2, <1>3, <1>4 DEF BrkGrows
  <2> QED BY <1>1, <1>4, <2>1, BrkGrowsStep
<1>5. CASE BrkFails(b)
  <2>1. ctx.curr_brk_page < b
    BY <1>2, <1>3, <1>5 DEF BrkFails
  <2> QED BY <1>1, <1>5, <2>1, BrkFailsStep
<1>6. CASE BrkShrinks(b)
  <2>1. b <= ctx.curr_brk_page /\ ctx.orig_brk_page <= b
    BY <1>1, <1>2, <1>3, <1>6 DEF BrkShrinks
  <2> QED BY <1>1, <1>6, <2>1, BrkShrinksStep
<1> QED BY <1>4, <1>5, <1>6 DEF KernelBrk_Impl

\* Only the stack pointer of the running process moves.
LEMMA PointerStep ==
  ASSUME IInv, UserRuns, fault = "none", NEW s \in Page, sp' = [sp EXCEPT ![running] = s],
         NEW R \in SUBSET Page, refused' = [refused EXCEPT ![running] = R],
         UNCHANGED <<queue, free, region1_pt, mem_ctx, kernel, live, fault, stackless, overgrown>>,
         StackOK(pt, ctx, s, R)
  PROVE  IInv'
<1>1. /\ running \in Proc /\ pt \in [Page -> Pte] /\ ctx \in Context /\ free \in SUBSET Frame
      /\ ProgramOK(pt, ctx)
      /\ OwnFrames(region1_pt, ks_pt, region0_pt, free)
      /\ overgrown \/ NoneLost(region1_pt, ks_pt, region0_pt, free)
  BY RunningFacts
<1>2. /\ region1_pt' = [region1_pt EXCEPT ![running] = pt]
      /\ mem_ctx' = [mem_ctx EXCEPT ![running] = ctx]
  BY SameUser
<1>3. ks_pt' = ks_pt /\ region0_pt' = region0_pt /\ region1_pt' = region1_pt /\ free' = free /\ overgrown' = overgrown
  BY DEF kernel
<1>4. /\ free' \subseteq Frame
      /\ OwnFrames(region1_pt', ks_pt', region0_pt', free')
      /\ overgrown' \/ NoneLost(region1_pt', ks_pt', region0_pt', free')
  BY <1>1, <1>3
<1>5. UNCHANGED <<queue, kernel, live, fault, stackless>>
  OBVIOUS
<1> QED BY <1>1, <1>2, <1>4, <1>5, UserStep

\* What the steps of the stack start from.
LEMMA StackFacts ==
  ASSUME IInv, UserRuns
  PROVE  /\ pt \in [Page -> Pte] /\ ctx \in Context /\ sp[running] \in Page
         /\ refused[running] \in SUBSET Page
         /\ StackOK(pt, ctx, sp[running], refused[running])
<1>1. refused[running] \in SUBSET Page
  BY RunningFacts DEF IInv, Types
<1> QED BY <1>1, RunningFacts

LEMMA ExecErrorStep ==
  ASSUME IInv, NEW prog \in Program, ExecReturnsError(prog)
  PROVE  IInv'
<1> DEFINE s == REGION1_VPNS - prog.stack
           R == refused[running] \union s..(REGION1_VPNS - 1)
<1>1. /\ UserRuns /\ fault = "none" /\ Fits(prog) /\ sp' = [sp EXCEPT ![running] = s]
      /\ UNCHANGED <<queue, free, region1_pt, mem_ctx, kernel, live, fault, stackless, overgrown>>
      /\ refused' = [refused EXCEPT ![running] = R]
  BY DEF ExecReturnsError, Trap
<1>2. s \in Page
  <2>1. prog.text \in Nat /\ prog.data \in Nat /\ prog.stack \in Nat /\ REGION1_VPNS \in Nat
        /\ 0 < prog.stack /\ prog.text + prog.data < REGION1_VPNS - prog.stack
    BY <1>1, ProgramSizes
  <2> QED BY <2>1 DEF Page
<1> HIDE DEF s
<1>3. StackOK(pt, ctx, s, R)
  BY <1>1, <1>2, StackFacts, MisplacedOK
<1>4. R \in SUBSET Page
  <2>1. s \in Nat /\ REGION1_VPNS \in Nat
    BY <1>2, PageFacts
  <2>2. s..(REGION1_VPNS - 1) \subseteq Page
    BY <2>1 DEF Page
  <2> QED BY <1>1, <2>2, StackFacts
<1> HIDE DEF R
<1> QED BY <1>1, <1>2, <1>3, <1>4, PointerStep

LEMMA PopsStep ==
  ASSUME IInv, NEW v \in Page, Pops(v)
  PROVE  IInv'
<1>1. /\ UserRuns /\ fault = "none" /\ v > sp[running] /\ sp' = [sp EXCEPT ![running] = v]
      /\ UNCHANGED <<queue, free, region1_pt, mem_ctx, kernel, live, fault, stackless, overgrown>>
      /\ refused' = refused
  BY DEF Pops, Trap, history
<1>2. StackOK(pt, ctx, v, refused[running])
  BY <1>1, StackFacts, MovedOK
<1>3. refused' = [refused EXCEPT ![running] = refused[running]] /\ refused[running] \in SUBSET Page
  BY <1>1, SameUser, StackFacts
<1> QED BY <1>1, <1>2, <1>3, PointerStep

\* The memory trap adds pages to the stack.
LEMMA ExpandStep ==
  ASSUME IInv, UserRuns, fault = "none", NEW v \in Page, expand_stack(v),
         NEW s \in Page, s = sp[running] \/ s = v, sp' = [sp EXCEPT ![running] = s],
         UNCHANGED <<queue, mem_ctx, kernel, live, fault, stackless, overgrown>>
  PROVE  IInv'
<1> DEFINE gap == Gap(pt, v)
           served == Served(gap, free)
           t == With(pt, served, "rw", free)
           R == (refused[running] \union gap) \ served
<1>1. /\ running \in Proc /\ ctx \in Context /\ sp[running] \in Page /\ free \in SUBSET Frame /\ pt \in [Page -> Pte]
      /\ ProgramOK(pt, ctx) /\ StackOK(pt, ctx, sp[running], refused[running])
      /\ overgrown \/ NoneLost(region1_pt, ks_pt, region0_pt, free)
  BY RunningFacts
<1>2. /\ v >= ctx.curr_brk_page + 1
      /\ region1_pt' = [region1_pt EXCEPT ![running] = t]
      /\ free' = free \ Taken(served, free)
      /\ refused' = [refused EXCEPT ![running] = R]
  BY DEF expand_stack, Gap, pt
<1>3. gap \in SUBSET Page /\ gap \intersect Mapped(pt) = {}
  <2>1. ASSUME NEW x \in gap PROVE x \in Page /\ x \notin Mapped(pt)
    <3>1. x \in v..(REGION1_VPNS - 1) /\ v..x \intersect Mapped(pt) = {}
      BY DEF Gap
    <3>2. v \in Nat /\ REGION1_VPNS \in Nat
      BY PageFacts
    <3>3. x \in v..x /\ x \in Page
      BY <3>1, <3>2 DEF Page
    <3> QED BY <3>1, <3>3
  <2> QED BY <2>1
<1> HIDE DEF gap
<1>4. AllServed(served, free) /\ served \in SUBSET gap
  BY <1>1, <1>3, TablesNumbered, LoopFacts
<1>k. UNCHANGED kernel /\ UNCHANGED <<queue, kernel, live, fault, stackless>> /\ overgrown' = overgrown
  OBVIOUS
<1>5. /\ served \in SUBSET Page /\ served \intersect Mapped(pt) = {} /\ t = With(pt, served, "rw", free)
      /\ R = (refused[running] \union gap) \ served
  BY <1>3, <1>4
<1> HIDE DEF served, t, R
<1>6. /\ Filled(t, pt, Page, served, free)
      /\ t \in [Page -> Pte] /\ free' \subseteq Frame
      /\ OwnFrames(region1_pt', ks_pt', region0_pt', free')
      /\ served \intersect Mapped(pt) = {} /\ NoneLost(region1_pt, ks_pt, region0_pt, free)
           => NoneLost(region1_pt', ks_pt', region0_pt', free')
  BY <1>2, <1>4, <1>5, <1>k, FillUser
<1>7. ProgramOK(t, ctx) /\ StackOK(t, ctx, s, R)
  <2>1. served \in SUBSET Gap(pt, v) /\ R = (refused[running] \union Gap(pt, v)) \ served
    BY <1>4, <1>5 DEF gap
  <2>2. \E pool : Filled(t, pt, Page, served, pool)
    BY <1>6
  <2>3. Expands(ctx, pt, sp[running], refused[running], v, served, t, s, R)
    BY <1>1, <1>2, <2>1, <2>2 DEF Expands
  <2> QED BY <1>1, <2>3, ExpandedOK
<1>8. R \in SUBSET Page
  BY <1>1, <1>3, <1>5, StackFacts
<1>10. overgrown' \/ NoneLost(region1_pt', ks_pt', region0_pt', free')
  BY <1>1, <1>5, <1>6, <1>k
<1>11. mem_ctx' = [mem_ctx EXCEPT ![running] = ctx]
  BY SameUser
<1> QED BY <1>1, <1>2, <1>6, <1>7, <1>8, <1>10, <1>11, <1>k, UserStep

LEMMA PushesStep ==
  ASSUME IInv, NEW v \in Page, Pushes(v)
  PROVE  IInv'
<1>1. /\ UserRuns /\ fault = "none" /\ v > ctx.curr_brk_page /\ sp' = [sp EXCEPT ![running] = v]
      /\ UNCHANGED <<queue, mem_ctx, kernel, live, fault, stackless, overgrown>>
  BY DEF Pushes, Trap
<1>3. CASE v \in Mapped(pt) /\ UNCHANGED <<region1_pt, free, refused>>
  <2>1. StackOK(pt, ctx, v, refused[running])
    BY <1>1, <1>3, StackFacts, MovedOK
  <2>2. refused' = [refused EXCEPT ![running] = refused[running]] /\ refused[running] \in SUBSET Page
    BY <1>1, <1>3, SameUser, StackFacts
  <2>3. UNCHANGED <<queue, free, region1_pt, mem_ctx, kernel, live, fault, stackless, overgrown>>
    BY <1>1, <1>3
  <2> QED BY <1>1, <2>1, <2>2, <2>3, PointerStep
<1>4. CASE expand_stack(v)
  BY <1>1, <1>4, ExpandStep
<1> QED BY <1>3, <1>4 DEF Pushes

LEMMA TouchesStep ==
  ASSUME IInv, NEW v \in Page, TouchesAgain(v)
  PROVE  IInv'
<1>1. /\ UserRuns /\ fault = "none" /\ expand_stack(v)
      /\ UNCHANGED <<queue, mem_ctx, kernel, live, fault, stackless, overgrown>> /\ sp' = sp
  BY DEF TouchesAgain, Trap
<1>2. sp' = [sp EXCEPT ![running] = sp[running]] /\ sp[running] \in Page
  BY <1>1, SameUser, StackFacts
<1> QED BY <1>1, <1>2, ExpandStep

LEMMA ForkFailsStep ==
  ASSUME IInv, ForkFails
  PROVE  IInv'
<1> DEFINE c == ctx.curr_brk_page
           s == sp[running]
           R == refused[running]
<1>1. /\ UserRuns /\ fault = "none"
      /\ UNCHANGED <<queue, kernel, live, fault, stackless>> /\ UNCHANGED kernel
      /\ free' = free /\ mem_ctx' = mem_ctx /\ sp' = sp /\ refused' = refused
      /\ overgrown' = (overgrown \/ c \in Mapped(pt))
      /\ region1_pt' = IF free = {} THEN region1_pt ELSE [region1_pt EXCEPT ![running] = Without(@, {c})]
  BY DEF ForkFails, ForkTrap, Trap
<1>2. /\ running \in Proc /\ ctx \in Context /\ s \in Page /\ free \in SUBSET Frame /\ pt \in [Page -> Pte]
      /\ ProgramOK(pt, ctx) /\ StackOK(pt, ctx, s, R) /\ R \in SUBSET Page
      /\ OwnFrames(region1_pt, ks_pt, region0_pt, free)
      /\ overgrown \/ NoneLost(region1_pt, ks_pt, region0_pt, free)
  BY <1>1, RunningFacts, StackFacts
<1>3. /\ mem_ctx' = [mem_ctx EXCEPT ![running] = ctx] /\ sp' = [sp EXCEPT ![running] = s]
      /\ refused' = [refused EXCEPT ![running] = R] /\ free' \subseteq Frame
      /\ ks_pt' = ks_pt /\ region0_pt' = region0_pt
  BY <1>1, <1>2, SameUser DEF kernel
<1>4. CASE free = {}
  <2>1. region1_pt' = region1_pt /\ region1_pt' = [region1_pt EXCEPT ![running] = pt]
    BY <1>1, <1>4, SameUser
  <2>2. /\ OwnFrames(region1_pt', ks_pt', region0_pt', free')
        /\ overgrown' \/ NoneLost(region1_pt', ks_pt', region0_pt', free')
    BY <1>1, <1>2, <1>3, <2>1
  <2> HIDE DEF s, R
  <2> QED BY <1>1, <1>2, <1>3, <2>1, <2>2, UserStep
<1>5. CASE free # {}
  <2> DEFINE t == Without(pt, {c})
  <2>1. region1_pt' = [region1_pt EXCEPT ![running] = t]
    BY <1>1, <1>5 DEF pt
  <2>2. {c} \in SUBSET Page /\ t = Without(pt, {c})
    BY <1>2, ContextFacts
  <2> HIDE DEF t
  <2>3. /\ t \in [Page -> Pte]
        /\ OwnFrames(region1_pt', ks_pt', region0_pt', free)
        /\ {c} \intersect Mapped(pt) = {} /\ NoneLost(region1_pt, ks_pt, region0_pt, free)
             => NoneLost(region1_pt', ks_pt', region0_pt', free)
    BY <1>1, <2>1, <2>2, DropUser
  <2>4. overgrown' \/ NoneLost(region1_pt', ks_pt', region0_pt', free')
    <3>1. c \notin Mapped(pt) => {c} \intersect Mapped(pt) = {}
      OBVIOUS
    <3> QED BY <1>1, <1>2, <2>3, <3>1
  <2>5. ProgramOK(t, ctx) /\ StackOK(t, ctx, s, R)
    BY <1>2, <2>2, CallerOK
  <2>7. OwnFrames(region1_pt', ks_pt', region0_pt', free')
    BY <1>1, <2>3
  <2> HIDE DEF s, R
  <2> QED BY <1>1, <1>2, <1>3, <2>1, <2>3, <2>4, <2>5, <2>7, UserStep
<1> QED BY <1>4, <1>5

\* The kernel faults: nothing else changes.
LEMMA FaultStep ==
  ASSUME IInv, UNCHANGED <<queue, free, user, kernel, live, history>>, FaultOK',
         fault' \in {"none", "page", "pcb", "switch", "pointer"}
  PROVE  IInv'
<1>1. /\ running' = running /\ main_queue' = main_queue /\ region1_pt' = region1_pt /\ mem_ctx' = mem_ctx
      /\ sp' = sp /\ ks_pt' = ks_pt /\ region0_pt' = region0_pt /\ current_brk_page' = current_brk_page
      /\ live' = live /\ free' = free /\ overgrown' = overgrown
      /\ refused' = refused /\ stackless' = stackless
  BY DEF queue, user, kernel, history
<1>2. Types' /\ Placed' /\ NothingLeft'
  BY <1>1 DEF IInv, Types, Placed, NothingLeft
<1>3. ProcessesOK'
  BY <1>1 DEF IInv, ProcessesOK
<1>4. FramesOK'
  BY <1>1 DEF IInv, FramesOK
<1> QED BY <1>2, <1>3, <1>4 DEF IInv

\* UCCopy comes to a page that is not there only if the stack has a hole.
LEMMA ForkFaultsStep ==
  ASSUME IInv, ForkFaults
  PROVE  IInv'
<1> DEFINE pages == Copied(running)
           c == ctx.curr_brk_page
           s == sp[running]
<1>1. /\ UserRuns /\ ~(Reached \subseteq Mapped(pt)) /\ fault' = "page"
      /\ UNCHANGED <<queue, free, user, kernel, live, history>>
  BY DEF ForkFaults, ForkTrap, Trap
<1>2. /\ running \in Proc /\ ctx \in Context /\ s \in Page /\ free \in SUBSET Frame /\ pt \in [Page -> Pte]
      /\ ProgramOK(pt, ctx) /\ StackOK(pt, ctx, s, refused[running])
  BY <1>1, RunningFacts
<1>3. pages = ctx.txt_start_page..(c - 1) \union UserStack(running)
  BY DEF Copied, UserStack, ctx
<1>4. Reached \subseteq pages
  BY DEF Reached, Served
<1>5. ctx.txt_start_page..(c - 1) \subseteq Mapped(pt)
  <2>1. ASSUME NEW v \in ctx.txt_start_page..(c - 1) PROVE v \in Mapped(pt)
    <3>1. pt[v] # None
      BY <1>2 DEF ProgramOK
    <3>2. ctx.txt_start_page \in Page /\ c \in Page
      BY <1>2, ContextFacts
    <3>3. v \in Page
      BY <3>2, PageFacts DEF Page
    <3> QED BY <1>2, <3>1, <3>3 DEF Mapped
  <2> QED BY <2>1
<1>6. UserStack(running) \subseteq Mapped(pt) \union refused[running]
  BY <1>2 DEF StackOK, UserStack
<1>7. refused[running] \intersect (UserStack(running) \ Mapped(region1_pt[running])) # {}
  <2>1. PICK v \in Reached : v \notin Mapped(pt)
    BY <1>1
  <2>2. v \in UserStack(running) /\ v \in refused[running]
    <3> HIDE DEF pages, c
    <3> QED BY <1>3, <1>4, <1>5, <1>6, <2>1
  <2>3. v \notin Mapped(region1_pt[running])
    BY <2>1 DEF pt
  <2> QED BY <2>2, <2>3
<1>8. running' = running /\ refused' = refused /\ sp' = sp /\ region1_pt' = region1_pt
  BY <1>1 DEF queue, history, user
<1>9. FaultOK'
  BY <1>1, <1>7, <1>8 DEF FaultOK, UserStack, pt
<1> QED BY <1>1, <1>9, FaultStep

LEMMA ForkWithoutPcbStep ==
  ASSUME IInv, ForkWithoutPcb
  PROVE  IInv'
<1>1. UNCHANGED <<queue, free, user, kernel, live, history>> /\ fault' = "pcb"
  BY DEF ForkWithoutPcb
<1>2. FaultOK'
  BY <1>1 DEF FaultOK
<1> QED BY <1>1, <1>2, FaultStep

LEMMA StoresStep ==
  ASSUME IInv, NEW v \in Page, StoresThroughPointer(v)
  PROVE  IInv'
<1>1. UNCHANGED <<queue, free, user, kernel, live, history>> /\ fault' = "pointer"
  BY DEF StoresThroughPointer
<1>2. FaultOK'
  BY <1>1 DEF FaultOK
<1> QED BY <1>1, <1>2, FaultStep

\* Fork: what the caller's and the child's tables become, and their frames.
LEMMA ForkUser ==
  ASSUME IInv, NEW c \in Proc, KernelFork(c),
         NEW t, t = Without(pt, {ctx.curr_brk_page}),
         NEW ch, ch = Copy(ctx, Copied(running), free),
         NEW pool, pool = free \ Taken(Copied(running), free)
  PROVE  /\ region1_pt' = [[region1_pt EXCEPT ![running] = t] EXCEPT ![c] = ch] /\ c # running
         /\ t \in [Page -> Pte] /\ ch \in [Page -> Pte] /\ pool \in SUBSET Frame
         /\ ProgramOK(t, ctx) /\ StackOK(t, ctx, sp[running], refused[running])
         /\ ProgramOK(ch, ctx) /\ StackOK(ch, ctx, sp[running], refused[c])
         /\ OwnFrames(region1_pt', ks_pt, region0_pt, pool)
         /\ overgrown' \/ NoneLost(region1_pt', ks_pt, region0_pt, pool)
<1> DEFINE b == ctx.curr_brk_page
           s == sp[running]
           pages == Copied(running)
           none == NoTable(Page)
           u == [region1_pt EXCEPT ![running] = t]
<1>1. /\ UserRuns /\ b < s /\ c \notin live /\ Enough(pages, free)
      /\ overgrown' = (overgrown \/ b \in Mapped(pt))
  BY DEF KernelFork, ForkTrap, Trap
<1>2. /\ running \in Proc /\ running \in live /\ ctx \in Context /\ s \in Page /\ free \in SUBSET Frame
      /\ pt \in [Page -> Pte]
      /\ DOMAIN region1_pt = Proc /\ DOMAIN ks_pt = Proc
      /\ ProgramOK(pt, ctx) /\ StackOK(pt, ctx, s, refused[running])
      /\ OwnFrames(region1_pt, ks_pt, region0_pt, free)
      /\ overgrown \/ NoneLost(region1_pt, ks_pt, region0_pt, free)
  BY <1>1, RunningFacts
<1>3. c # running /\ region1_pt[c] = none
  BY <1>1, <1>2 DEF IInv, NothingLeft
<1>4. pages = ctx.txt_start_page..(b - 1) \union s..(REGION1_VPNS - 1)
  BY DEF Copied, UserStack, ctx
<1>5. region1_pt' = [u EXCEPT ![c] = ch]
  <2>1. region1_pt' = [region1_pt EXCEPT ![running] = Without(region1_pt[running], {b}), ![c] = ch]
    BY DEF KernelFork, UCCopy, Copy
  <2> QED BY <2>1 DEF pt
<1>6. pages \in SUBSET Page
  <2>1. ctx.txt_start_page \in Page /\ b \in Page
    BY <1>2, ContextFacts
  <2>2. ctx.txt_start_page \in Nat /\ b \in Nat /\ b < REGION1_VPNS /\ s \in Nat /\ REGION1_VPNS \in Nat
    BY <1>2, <2>1, PageFacts
  <2> HIDE DEF b, s
  <2> QED BY <1>4, <2>2 DEF Page
<1>7. AllServed(pages, free)
  <2> HIDE DEF pages
  <2> QED BY <1>1, <1>2, <1>6, TablesNumbered, LoopFacts
<1>8. /\ Filled(ch, none, Page, pages, free) /\ {ch[v].pfn : v \in pages} = Taken(pages, free)
      /\ ProgramOK(ch, ctx) /\ StackOK(ch, ctx, s, refused[c])
  <2> HIDE DEF pages
  <2>1. ch = Copy(ctx, pages, free)
    BY DEF pages
  <2>2. IsCopy(ch, ctx, pages, free) /\ ProgramOK(ch, ctx) /\ StackOK(ch, ctx, s, refused[c])
    BY <1>1, <1>2, <1>4, <1>7, <2>1, ChildOK
  <2> QED BY <2>2 DEF IsCopy, none
<1>9. ProgramOK(t, ctx) /\ StackOK(t, ctx, s, refused[running])
  BY <1>2, CallerOK
<1>10. {b} \in SUBSET Page /\ t \in [Page -> Pte]
  <2>1. b \in Page
    BY <1>2, ContextFacts
  <2>2. t \in [Page -> Pte]
    BY <1>2, PteFacts DEF Without
  <2> QED BY <2>1, <2>2
<1>u. u = [region1_pt EXCEPT ![running] = t] /\ DOMAIN u = Proc /\ u[c] = none /\ pt = region1_pt[running]
  BY <1>2, <1>3 DEF pt
<1>n. DOMAIN none = Page /\ Mapped(none) = {}
  BY NoTableFacts
<1> HIDE DEF u, none, pages
<1>11. /\ OwnFrames(u, ks_pt, region0_pt, free)
       /\ {b} \intersect Mapped(pt) = {} /\ NoneLost(region1_pt, ks_pt, region0_pt, free)
            => NoneLost(u, ks_pt, region0_pt, free)
  <2>1. Changes(region1_pt, ks_pt, region0_pt, u, ks_pt, region0_pt, Page, pt, t)
    BY <1>2, <1>u, UserChanges
  <2> DEFINE more == free \union Frames(pt, {b})
  <2>2. more = free \union Frames(pt, {b})
    OBVIOUS
  <2> HIDE DEF more, b
  <2>3. t = Without(pt, {b})
    BY DEF b
  <2>4. pt \in [Page -> Pte] /\ {b} \in SUBSET Page /\ OwnFrames(region1_pt, ks_pt, region0_pt, free)
    BY <1>2, <1>10
  <2> QED BY <2>1, <2>2, <2>3, <2>4, DropTable
<1>12. /\ OwnFrames(region1_pt', ks_pt, region0_pt, pool)
       /\ NoneLost(u, ks_pt, region0_pt, free) => NoneLost(region1_pt', ks_pt, region0_pt, pool)
  <2>1. Changes(u, ks_pt, region0_pt, region1_pt', ks_pt, region0_pt, Page, none, ch)
    BY <1>2, <1>5, <1>u, UserChanges
  <2>2. pool = free \ {ch[v].pfn : v \in pages} /\ pages \intersect Mapped(none) = {}
    BY <1>8, <1>n DEF pages
  <2> QED BY <1>8, <1>11, <1>n, <2>1, <2>2, FillTable
<1>13. overgrown' \/ NoneLost(region1_pt', ks_pt, region0_pt, pool)
  <2>1. b \notin Mapped(pt) => {b} \intersect Mapped(pt) = {}
    OBVIOUS
  <2> QED BY <1>1, <1>2, <1>11, <1>12, <2>1
<1>14. ch \in [Page -> Pte] /\ pool \in SUBSET Frame
  BY <1>2, <1>8 DEF Filled
<1> QED BY <1>2, <1>3, <1>5, <1>8, <1>9, <1>10, <1>12, <1>13, <1>14, <1>u

\* Only c's stack changes.
OthersSame(k, k2, c) == \A p \in Proc : p # c => k2[p] = k[p]

\* KCCopy: the child has a kernel stack, or the refusal is recorded.
LEMMA ForkStack ==
  ASSUME IInv, NEW c \in Proc, c \notin live, NEW pool \in SUBSET Frame, KCCopy(c, pool),
         NEW u, DOMAIN u = Proc, OwnFrames(u, ks_pt, region0_pt, pool)
  PROVE  /\ ks_pt' \in [Proc -> [StackPage -> Pte]] /\ OthersSame(ks_pt, ks_pt', c)
         /\ c \in stackless' \/ Mapped(ks_pt'[c]) = StackPage
         /\ free' \subseteq Frame /\ stackless \subseteq stackless' /\ stackless' \subseteq Proc
         /\ OwnFrames(u, ks_pt', region0_pt, free')
         /\ NoneLost(u, ks_pt, region0_pt, pool) => NoneLost(u, ks_pt', region0_pt, free')
<1> DEFINE ok == HeapMayEndAt(current_brk_page + K_STACK_VPNS) /\ Enough(StackPage, pool)
           none == NoTable(StackPage)
           t == With(none, StackPage, "rw", pool)
<1>1. ks_pt \in [Proc -> [StackPage -> Pte]] /\ DOMAIN ks_pt = Proc /\ ks_pt[c] = none
  BY DEF IInv, Types, NothingLeft
<1>2. none \in [StackPage -> Pte] /\ Mapped(none) = {} /\ DOMAIN none = StackPage
  BY NoTableFacts
<1>3. /\ ks_pt' = IF ok THEN [ks_pt EXCEPT ![c] = t] ELSE ks_pt
      /\ free' = IF ok THEN pool \ Taken(StackPage, pool) ELSE pool
      /\ stackless' = IF ok THEN stackless ELSE stackless \union {c}
  BY <1>1 DEF KCCopy
<1>4. ok => Enough(StackPage, pool)
  OBVIOUS
<1>5. stackless \subseteq stackless' /\ stackless' \subseteq Proc
  BY <1>3 DEF IInv, Types
<1> HIDE DEF ok, none, t
<1>6. CASE ~ok
  <2>1. ks_pt' = ks_pt /\ free' = pool /\ c \in stackless'
    BY <1>3, <1>6
  <2> QED BY <1>1, <1>5, <2>1 DEF OthersSame
<1>7. CASE ok
  <2>1. /\ ks_pt' = [ks_pt EXCEPT ![c] = t] /\ free' = pool \ Taken(StackPage, pool)
        /\ Enough(StackPage, pool) /\ StackPage \in SUBSET StackPage /\ "rw" \in {"rw", "rx"}
    BY <1>3, <1>4, <1>7
  <2>2. AllServed(StackPage, pool)
    BY <2>1, TablesNumbered, LoopFacts
  <2>3. FilledWith(none, StackPage, StackPage, "rw", pool)
    BY <1>2, <2>1, <2>2, TablesNumbered, WithFacts
  <2>4. Filled(t, none, StackPage, StackPage, pool) /\ {t[v].pfn : v \in StackPage} = Taken(StackPage, pool)
    BY <2>3 DEF FilledWith, t
  <2>5. Mapped(t) = StackPage /\ t \in [StackPage -> Pte]
    BY <1>2, <2>4 DEF Filled
  <2>6. Changes(u, ks_pt, region0_pt, u, ks_pt', region0_pt, StackPage, none, t)
    BY <1>1, <2>1, StackChanges
  <2>7. /\ OwnFrames(u, ks_pt', region0_pt, free')
        /\ NoneLost(u, ks_pt, region0_pt, pool) => NoneLost(u, ks_pt', region0_pt, free')
    <3>1. StackPage \intersect Mapped(none) = {} /\ free' = pool \ {t[v].pfn : v \in StackPage}
      BY <1>2, <2>1, <2>4
    <3> QED BY <1>2, <2>4, <2>6, <3>1, FillTable
  <2>8. /\ ks_pt' \in [Proc -> [StackPage -> Pte]] /\ ks_pt'[c] = t
        /\ \A p \in Proc : p # c => ks_pt'[p] = ks_pt[p]
    BY <1>1, <2>1, <2>5
  <2>9. free' \subseteq Frame
    BY <2>1
  <2> QED BY <1>5, <2>5, <2>7, <2>8, <2>9 DEF OthersSame
<1> QED BY <1>6, <1>7

LEMMA ForkStep ==
  ASSUME IInv, NEW c \in Proc, KernelFork(c)
  PROVE  IInv'
<1> DEFINE t == Without(pt, {ctx.curr_brk_page})
           ch == Copy(ctx, Copied(running), free)
           pool == free \ Taken(Copied(running), free)
           s == sp[running]
<1>1. /\ UserRuns /\ fault = "none" /\ refused' = refused /\ c \notin live /\ KCCopy(c, pool)
      /\ mem_ctx' = [mem_ctx EXCEPT ![c] = ctx] /\ sp' = [sp EXCEPT ![c] = s]
      /\ live' = live \union {c} /\ main_queue' = schedule_process(main_queue, c)
      /\ running' = running /\ region0_pt' = region0_pt /\ current_brk_page' = current_brk_page /\ fault' = fault
  BY DEF KernelFork, ForkTrap, Trap, UCCopy
<1>2. /\ running \in Proc /\ running \in live /\ ctx \in Context /\ s \in Page
      /\ DOMAIN region1_pt = Proc /\ DOMAIN mem_ctx = Proc /\ DOMAIN sp = Proc
      /\ mem_ctx[running] = ctx /\ sp[running] = s
  BY <1>1, RunningFacts DEF ctx
<1>d. t = Without(pt, {ctx.curr_brk_page}) /\ ch = Copy(ctx, Copied(running), free) /\ pool = free \ Taken(Copied(running), free)
  OBVIOUS
<1> HIDE DEF t, ch, pool
<1>3. /\ region1_pt' = [[region1_pt EXCEPT ![running] = t] EXCEPT ![c] = ch] /\ c # running
      /\ t \in [Page -> Pte] /\ ch \in [Page -> Pte] /\ pool \in SUBSET Frame
      /\ ProgramOK(t, ctx) /\ StackOK(t, ctx, sp[running], refused[running])
      /\ ProgramOK(ch, ctx) /\ StackOK(ch, ctx, sp[running], refused[c])
      /\ OwnFrames(region1_pt', ks_pt, region0_pt, pool)
      /\ overgrown' \/ NoneLost(region1_pt', ks_pt, region0_pt, pool)
  BY <1>d, ForkUser, ZenonT(30)
<1>4. /\ DOMAIN region1_pt' = Proc /\ region1_pt'[c] = ch /\ region1_pt'[running] = t
      /\ \A p \in Proc : p # c /\ p # running => region1_pt'[p] = region1_pt[p]
      /\ region1_pt' \in [Proc -> [Page -> Pte]]
  <2>1. region1_pt \in [Proc -> [Page -> Pte]]
    BY DEF IInv, Types
  <2> QED BY <1>2, <1>3, <2>1
<1>o. /\ ks_pt' \in [Proc -> [StackPage -> Pte]] /\ OthersSame(ks_pt, ks_pt', c)
      /\ c \in stackless' \/ Mapped(ks_pt'[c]) = StackPage
      /\ free' \subseteq Frame /\ stackless \subseteq stackless' /\ stackless' \subseteq Proc
      /\ OwnFrames(region1_pt', ks_pt', region0_pt, free')
      /\ NoneLost(region1_pt', ks_pt, region0_pt, pool) => NoneLost(region1_pt', ks_pt', region0_pt, free')
  BY <1>1, <1>3, <1>4, ForkStack
<1>5. /\ ks_pt' \in [Proc -> [StackPage -> Pte]] /\ \A p \in Proc : p # c => ks_pt'[p] = ks_pt[p]
      /\ c \in stackless' \/ Mapped(ks_pt'[c]) = StackPage
      /\ free' \subseteq Frame /\ stackless \subseteq stackless' /\ stackless' \subseteq Proc
  BY <1>o DEF OthersSame
<1> HIDE DEF s
<1>6. main_queue' = Append(main_queue, c) /\ main_queue \in Seq(Proc)
  BY <1>1, IdleAssumption DEF schedule_process, IInv, Types
<1>7. Types'
  <2>1. main_queue' \in Seq(Proc)
    BY <1>6, AppendFacts
  <2>2. mem_ctx' \in [Proc -> Context] /\ sp' \in [Proc -> Page]
    BY <1>1, <1>2 DEF IInv, Types
  <2> QED BY <1>1, <1>4, <1>5, <2>1, <2>2 DEF IInv, Types
<1>8. Placed'
  <2>1. IsInjective(main_queue) /\ running \notin Range(main_queue) /\ Range(main_queue) \subseteq live
    BY DEF IInv, Placed
  <2>2. c \notin Range(main_queue)
    BY <1>1, <2>1
  <2>3. IsInjective(main_queue') /\ Range(main_queue') = Range(main_queue) \union {c}
    BY <1>6, <2>1, <2>2, AppendFacts
  <2> QED BY <1>1, <1>2, <1>3, <2>1, <2>3 DEF Placed
<1>9. NothingLeft'
  <2>1. ASSUME NEW p \in Proc \ live' PROVE region1_pt'[p] = NoTable(Page) /\ ks_pt'[p] = NoTable(StackPage)
    <3>1. p \in Proc \ live /\ p # c /\ p # running
      BY <1>1, <1>2
    <3>2. region1_pt[p] = NoTable(Page) /\ ks_pt[p] = NoTable(StackPage)
      BY <3>1 DEF IInv, NothingLeft
    <3> QED BY <1>4, <1>5, <3>1, <3>2
  <2> QED BY <1>1, <2>1 DEF IInv, NothingLeft
<1>10. ProcessesOK'
  <2> SUFFICES ASSUME NEW p \in live'
               PROVE  /\ ProgramOK(region1_pt'[p], mem_ctx'[p])
                      /\ StackOK(region1_pt'[p], mem_ctx'[p], sp'[p], refused[p])
                      /\ p \in stackless' \/ Mapped(ks_pt'[p]) = StackPage
    BY <1>1 DEF ProcessesOK
  <2>1. CASE p = c
    <3>1. mem_ctx'[p] = ctx /\ sp'[p] = s /\ region1_pt'[p] = ch
      BY <1>1, <1>2, <1>4, <2>1
    <3> QED BY <1>2, <1>3, <1>5, <2>1, <3>1
  <2>2. CASE p # c
    <3>1. p \in live /\ p \in Proc
      BY <1>1, <2>2 DEF IInv, Types
    <3>2. mem_ctx'[p] = mem_ctx[p] /\ sp'[p] = sp[p] /\ ks_pt'[p] = ks_pt[p]
      BY <1>1, <1>2, <1>5, <2>2, <3>1
    <3>3. /\ ProgramOK(region1_pt[p], mem_ctx[p])
          /\ StackOK(region1_pt[p], mem_ctx[p], sp[p], refused[p])
          /\ p \in stackless \/ Mapped(ks_pt[p]) = StackPage
      BY <3>1 DEF IInv, ProcessesOK
    <3>4. ProgramOK(region1_pt'[p], mem_ctx[p]) /\ StackOK(region1_pt'[p], mem_ctx[p], sp[p], refused[p])
      BY <1>2, <1>3, <1>4, <2>2, <3>1, <3>3
    <3> QED BY <1>5, <3>2, <3>3, <3>4
  <2> QED BY <2>1, <2>2
<1>11. FaultOK'
  BY <1>1 DEF FaultOK
<1>12. FramesOK'
  <2>1. /\ OwnFrames(region1_pt', ks_pt', region0_pt', free')
        /\ overgrown' \/ NoneLost(region1_pt', ks_pt', region0_pt', free')
    BY <1>1, <1>3, <1>o
  <2> QED BY <2>1 DEF FramesOK, OwnFrames, NoneLost
<1> QED BY <1>7, <1>8, <1>9, <1>10, <1>11, <1>12 DEF IInv

\* A switch to another process faults only if that process was refused its
\* kernel stack.
LEMMA SwitchStep ==
  ASSUME IInv, SwitchFaults, running' \in Proc => running' \in live
  PROVE  fault' \in {"none", "switch"} /\ (fault' = "switch" => running' \in stackless)
<1>0. fault' \in {"none", "switch"}
  BY DEF SwitchFaults
<1> SUFFICES ASSUME fault' = "switch" PROVE running' \in stackless
  BY <1>0
<1>1. running' \in live /\ Mapped(ks_pt[running']) = {}
  BY DEF SwitchFaults
<1>2. running' \in stackless \/ Mapped(ks_pt[running']) = StackPage
  BY <1>1 DEF IInv, ProcessesOK
<1>3. StackPage # {}
  BY SpaceAssumption DEF StackPage
<1> QED BY <1>1, <1>2, <1>3

LEMMA ExitStep ==
  ASSUME IInv, KernelExit
  PROVE  IInv'
<1> DEFINE none == NoTable(Page)
           empty == NoTable(StackPage)
           kst == ks_pt[running]
           pool == free \union Frames(pt, Page)
<1>1. /\ UserRuns /\ free' = pool \union Frames(kst, StackPage)
      /\ region1_pt' = [region1_pt EXCEPT ![running] = none]
      /\ ks_pt' = [ks_pt EXCEPT ![running] = empty]
      /\ mem_ctx' = [mem_ctx EXCEPT ![running] = NoContext]
      /\ sp' = [sp EXCEPT ![running] = 0]
      /\ live' = live \ {running} /\ SwitchToNext(main_queue) /\ SwitchFaults
      /\ region0_pt' = region0_pt /\ current_brk_page' = current_brk_page
      /\ refused' = [refused EXCEPT ![running] = {}] /\ stackless' = stackless \ {running}
      /\ overgrown' = overgrown
  BY DEF KernelExit, Trap
<1>2. /\ running \in Proc /\ running \in live /\ free \in SUBSET Frame
      /\ pt \in [Page -> Pte] /\ kst \in [StackPage -> Pte] /\ sp[running] \in Page
      /\ DOMAIN region1_pt = Proc /\ DOMAIN ks_pt = Proc
      /\ OwnFrames(region1_pt, ks_pt, region0_pt, free)
      /\ overgrown \/ NoneLost(region1_pt, ks_pt, region0_pt, free)
  BY <1>1, RunningFacts
<1>3. /\ none = Without(pt, Page) /\ none \in [Page -> Pte]
      /\ empty = Without(kst, StackPage) /\ empty \in [StackPage -> Pte]
  BY <1>2, AllDropped, NoTableFacts
<1>4. /\ kst = ks_pt[running] /\ pt = region1_pt[running]
      /\ pool = free \union Frames(pt, Page) /\ pool \subseteq Frame
  BY <1>2, FramesOfTable DEF pt
<1>5. 0 \in Page /\ NoContext \in Context
  <2>1. 0 \in Page
    BY <1>2, PageFacts DEF Page
  <2> QED BY <2>1 DEF NoContext, Context
<1>6. free' \subseteq Frame
  BY <1>1, <1>2, <1>4, FramesOfTable
<1> HIDE DEF none, empty, kst, pool
<1>7. /\ OwnFrames(region1_pt', ks_pt, region0_pt, pool)
      /\ NoneLost(region1_pt, ks_pt, region0_pt, free) => NoneLost(region1_pt', ks_pt, region0_pt, pool)
  <2>1. Changes(region1_pt, ks_pt, region0_pt, region1_pt', ks_pt, region0_pt, Page, pt, none)
    BY <1>1, <1>2, <1>4, UserChanges
  <2>2. Page \in SUBSET Page
    OBVIOUS
  <2> QED BY <1>2, <1>3, <1>4, <2>1, <2>2, DropTable
<1>8. /\ OwnFrames(region1_pt', ks_pt', region0_pt, free')
      /\ NoneLost(region1_pt', ks_pt, region0_pt, pool) => NoneLost(region1_pt', ks_pt', region0_pt, free')
  <2>0. DOMAIN region1_pt' = Proc
    BY <1>1, <1>2
  <2>1. Changes(region1_pt', ks_pt, region0_pt, region1_pt', ks_pt', region0_pt, StackPage, kst, empty)
    BY <1>1, <1>2, <1>4, <2>0, StackChanges
  <2>2. StackPage \in SUBSET StackPage
    OBVIOUS
  <2>3. free' = pool \union Frames(kst, StackPage)
    BY <1>1
  <2>4. OwnFrames(region1_pt', ks_pt, region0_pt, pool) /\ kst \in [StackPage -> Pte]
        /\ empty = Without(kst, StackPage)
    BY <1>2, <1>3, <1>7
  <2> QED BY <2>1, <2>2, <2>3, <2>4, DropTable
<1>9. /\ main_queue \in Seq(Proc) /\ IsInjective(main_queue) /\ running \notin Range(main_queue)
      /\ Range(main_queue) \subseteq live
  BY DEF IInv, Types, Placed
<1>10. /\ running' \in Proc \union {Idle} /\ main_queue' \in Seq(Proc)
       /\ IsInjective(main_queue') /\ running' \notin Range(main_queue')
       /\ Range(main_queue) = (Range(main_queue') \union {running'}) \ {Idle}
  BY <1>1, <1>9, SwitchFacts
<1>11. Range(main_queue') \subseteq Proc
  BY <1>10 DEF Range
<1>12. Range(main_queue') \subseteq live' /\ (running' \in Proc => running' \in live')
  BY <1>1, <1>9, <1>10, <1>11, IdleAssumption
<1>13. Types'
  <2>1. region1_pt' \in [Proc -> [Page -> Pte]] /\ ks_pt' \in [Proc -> [StackPage -> Pte]]
    BY <1>1, <1>2, <1>3 DEF IInv, Types
  <2>2. mem_ctx' \in [Proc -> Context] /\ sp' \in [Proc -> Page]
    BY <1>1, <1>2, <1>5 DEF IInv, Types
  <2>3. refused' \in [Proc -> SUBSET Page] /\ stackless' \subseteq Proc
    BY <1>1, <1>2 DEF IInv, Types
  <2>4. fault' \in {"none", "page", "pcb", "switch", "pointer"}
    BY <1>1 DEF SwitchFaults
  <2> QED BY <1>1, <1>6, <1>10, <2>1, <2>2, <2>3, <2>4 DEF IInv, Types
<1>14. Placed'
  BY <1>10, <1>12 DEF Placed
<1>15. NothingLeft'
  <2>1. ASSUME NEW p \in Proc \ live' PROVE region1_pt'[p] = none /\ ks_pt'[p] = empty
    <3>1. CASE p = running
      BY <1>1, <1>2, <3>1
    <3>2. CASE p # running
      <4>1. region1_pt[p] = none /\ ks_pt[p] = empty
        BY <1>1, <3>2 DEF IInv, NothingLeft, none, empty
      <4> QED BY <1>1, <1>2, <3>2, <4>1
    <3> QED BY <3>1, <3>2
  <2> QED BY <1>1, <2>1 DEF IInv, NothingLeft, none, empty
<1>16. ProcessesOK'
  <2> SUFFICES ASSUME NEW p \in live'
               PROVE  /\ ProgramOK(region1_pt'[p], mem_ctx'[p])
                      /\ StackOK(region1_pt'[p], mem_ctx'[p], sp'[p], refused'[p])
                      /\ p \in stackless' \/ Mapped(ks_pt'[p]) = StackPage
    BY DEF ProcessesOK
  <2>1. /\ p \in live /\ p # running /\ p \in Proc /\ DOMAIN mem_ctx = Proc /\ DOMAIN sp = Proc
        /\ DOMAIN refused = Proc
    BY <1>1 DEF IInv, Types
  <2>2. /\ region1_pt'[p] = region1_pt[p] /\ mem_ctx'[p] = mem_ctx[p] /\ sp'[p] = sp[p]
        /\ ks_pt'[p] = ks_pt[p] /\ refused'[p] = refused[p] /\ (p \in stackless => p \in stackless')
    BY <1>1, <1>2, <2>1
  <2>3. /\ ProgramOK(region1_pt[p], mem_ctx[p])
        /\ StackOK(region1_pt[p], mem_ctx[p], sp[p], refused[p])
        /\ p \in stackless \/ Mapped(ks_pt[p]) = StackPage
    BY <2>1 DEF IInv, ProcessesOK
  <2> QED BY <1>1, <2>2, <2>3
<1>17. FaultOK'
  <2>1. running' \in Proc => running' \in live /\ running' # running
    BY <1>1, <1>12
  <2>2. fault' \in {"none", "switch"} /\ (fault' = "switch" => running' \in stackless)
    BY <1>1, <2>1, SwitchStep
  <2>3. stackless \subseteq Proc
    BY DEF IInv, Types
  <2> QED BY <1>1, <2>1, <2>2, <2>3 DEF FaultOK
<1>18. FramesOK'
  <2>1. /\ OwnFrames(region1_pt', ks_pt', region0_pt', free')
        /\ overgrown' \/ NoneLost(region1_pt', ks_pt', region0_pt', free')
    BY <1>1, <1>2, <1>7, <1>8
  <2> QED BY <2>1 DEF FramesOK, OwnFrames, NoneLost
<1> QED BY <1>13, <1>14, <1>15, <1>16, <1>17, <1>18 DEF IInv

\* Only the kernel's heap changes.
LEMMA HeapStep ==
  ASSUME IInv, NEW b \in HeapPage, current_brk_page' = b, region0_pt' \in [HeapPage -> Pte],
         UNCHANGED <<queue, user, ks_pt, live, fault, history>>, free' \subseteq Frame,
         \A v \in HeapPage : v >= b => region0_pt'[v] = None,
         OwnFrames(region1_pt, ks_pt, region0_pt', free'),
         NoneLost(region1_pt, ks_pt, region0_pt, free) => NoneLost(region1_pt, ks_pt, region0_pt', free')
  PROVE  IInv'
<1>1. /\ running' = running /\ main_queue' = main_queue /\ region1_pt' = region1_pt /\ mem_ctx' = mem_ctx
      /\ sp' = sp /\ ks_pt' = ks_pt /\ live' = live /\ fault' = fault /\ refused' = refused
      /\ stackless' = stackless /\ overgrown' = overgrown
  BY DEF queue, user, history
<1>2. b \in 0..K_STACK_BASE_VPN
  BY SpaceAssumption DEF HeapPage
<1>3. Types'
  BY <1>1, <1>2 DEF IInv, Types
<1>4. Placed' /\ NothingLeft' /\ FaultOK'
  BY <1>1 DEF IInv, Placed, NothingLeft, FaultOK, UserStack, pt
<1>5. ProcessesOK'
  BY <1>1 DEF IInv, ProcessesOK
<1>6. FramesOK'
  <2>1. overgrown \/ NoneLost(region1_pt, ks_pt, region0_pt, free)
    BY DEF IInv, FramesOK, NoneLost
  <2>2. /\ OwnFrames(region1_pt', ks_pt', region0_pt', free')
        /\ overgrown' \/ NoneLost(region1_pt', ks_pt', region0_pt', free')
    BY <1>1, <2>1
  <2> QED BY <2>2 DEF FramesOK, OwnFrames, NoneLost
<1> QED BY <1>3, <1>4, <1>5, <1>6 DEF IInv

LEMMA SetKernelBrkStep ==
  ASSUME IInv, NEW b \in HeapPage, SetKernelBrk(b)
  PROVE  IInv'
<1> DEFINE c == current_brk_page
<1>1. current_brk_page' = b /\ UNCHANGED <<queue, user, ks_pt, live, fault, history>>
  BY DEF SetKernelBrk
<1>2. /\ region0_pt \in [HeapPage -> Pte] /\ free \in SUBSET Frame /\ c \in 0..K_STACK_BASE_VPN
      /\ DOMAIN region1_pt = Proc /\ DOMAIN ks_pt = Proc /\ DOMAIN region0_pt = HeapPage
      /\ \A v \in HeapPage : v >= c => region0_pt[v] = None
      /\ OwnFrames(region1_pt, ks_pt, region0_pt, free)
  BY DEF IInv, Types, NothingLeft, FramesOK, OwnFrames
<1>3. b \in Int /\ c \in Int /\ 0 <= b /\ 0 <= c /\ K_STACK_BASE_VPN \in Int /\ b < K_STACK_BASE_VPN /\ c <= K_STACK_BASE_VPN
  BY <1>2, SpaceAssumption DEF HeapPage
<1>h. \A v \in HeapPage : v \in Int
  BY DEF HeapPage
<1>4. CASE HeapGrows(b)
  <2> DEFINE pages == c..(b - 1)
             t == With(region0_pt, pages, "rw", free)
  <2>1. Enough(pages, free) /\ region0_pt' = t /\ free' = free \ Taken(pages, free) /\ b > c
    BY <1>4 DEF HeapGrows
  <2>2. pages \in SUBSET HeapPage
    BY <1>3 DEF HeapPage
  <2>3. pages \intersect Mapped(region0_pt) = {} /\ \A v \in HeapPage : v >= b => v \notin pages /\ v >= c
    <3>1. \A v \in pages : v \in HeapPage /\ v >= c
      BY <1>3, <2>2
    <3>2. \A v \in pages : region0_pt[v] = None
      BY <1>2, <3>1
    <3>3. \A v \in HeapPage : v >= b => v \notin pages /\ v >= c
      BY <1>3, <1>h, <2>1
    <3> HIDE DEF pages
    <3> QED BY <3>2, <3>3 DEF Mapped
  <2>t. "rw" \in {"rw", "rx"}
    OBVIOUS
  <2> HIDE DEF pages
  <2>4. AllServed(pages, free)
    BY <1>2, <2>1, <2>2, TablesNumbered, LoopFacts
  <2>5. FilledWith(region0_pt, HeapPage, pages, "rw", free)
    BY <1>2, <2>2, <2>4, <2>t, TablesNumbered, WithFacts
  <2>6. Filled(t, region0_pt, HeapPage, pages, free) /\ {t[v].pfn : v \in pages} = Taken(pages, free)
    BY <2>5 DEF FilledWith
  <2> HIDE DEF t
  <2>7. Changes(region1_pt, ks_pt, region0_pt, region1_pt, ks_pt, t, HeapPage, region0_pt, t)
    BY <1>2, HeapChanges
  <2>8. /\ OwnFrames(region1_pt, ks_pt, t, free')
        /\ NoneLost(region1_pt, ks_pt, region0_pt, free) => NoneLost(region1_pt, ks_pt, t, free')
    <3>1. free' = free \ {t[v].pfn : v \in pages}
      BY <2>1, <2>6
    <3> QED BY <1>2, <2>3, <2>6, <2>7, <3>1, FillTable
  <2>9. /\ region0_pt' \in [HeapPage -> Pte] /\ free' \subseteq Frame
        /\ \A v \in HeapPage : v >= b => region0_pt'[v] = None
    BY <1>2, <2>1, <2>3, <2>6 DEF Filled
  <2> QED BY <1>1, <2>1, <2>8, <2>9, HeapStep
<1>5. CASE HeapShrinks(b)
  <2> DEFINE pages == b..(c - 1)
             t == Without(region0_pt, pages)
  <2>1. region0_pt' = t /\ free' = free \union Frames(region0_pt, pages) /\ b < c
    BY <1>5 DEF HeapShrinks
  <2>2. pages \in SUBSET HeapPage /\ \A v \in HeapPage : v >= b => v \in pages \/ v >= c
    BY <1>3, <1>h DEF HeapPage
  <2>3. t = Without(region0_pt, pages) /\ t \in [HeapPage -> Pte]
    BY <1>2, PteFacts DEF Without
  <2>4. \A v \in HeapPage : v >= b => t[v] = None
    BY <1>2, <2>2 DEF Without
  <2> HIDE DEF pages, t
  <2>5. Changes(region1_pt, ks_pt, region0_pt, region1_pt, ks_pt, t, HeapPage, region0_pt, t)
    BY <1>2, HeapChanges
  <2>6. /\ OwnFrames(region1_pt, ks_pt, t, free')
        /\ NoneLost(region1_pt, ks_pt, region0_pt, free) => NoneLost(region1_pt, ks_pt, t, free')
    BY <1>2, <2>1, <2>2, <2>3, <2>5, DropTable
  <2>7. free' \subseteq Frame
    BY <1>2, <2>1, FramesOfTable
  <2> QED BY <1>1, <2>1, <2>3, <2>4, <2>6, <2>7, HeapStep
<1> QED BY <1>4, <1>5 DEF SetKernelBrk

LEMMA ClockStep ==
  ASSUME IInv, trap_clock_handler
  PROVE  IInv'
<1> DEFINE q == schedule_process(main_queue, running)
<1>1. /\ SwitchToNext(q) /\ SwitchFaults
      /\ UNCHANGED <<free, user, kernel, live, history>>
  BY DEF trap_clock_handler, Preempt
<1>2. /\ running \in Proc \union {Idle} /\ main_queue \in Seq(Proc)
      /\ IsInjective(main_queue) /\ running \notin Range(main_queue)
      /\ Range(main_queue) \subseteq live /\ (running \in Proc => running \in live)
  BY DEF IInv, Types, Placed
<1>3. q \in Seq(Proc) /\ IsInjective(q) /\ Range(q) \subseteq live
  <2>1. CASE running = Idle
    BY <1>2, <2>1 DEF schedule_process
  <2>2. CASE running # Idle
    <3>1. q = Append(main_queue, running) /\ running \in Proc
      BY <1>2, <2>2 DEF schedule_process
    <3>2. q \in Seq(Proc) /\ IsInjective(q) /\ Range(q) = Range(main_queue) \union {running}
      BY <1>2, <3>1, AppendFacts
    <3> QED BY <1>2, <3>1, <3>2
  <2> QED BY <2>1, <2>2
<1> HIDE DEF q
<1>4. /\ running' \in Proc \union {Idle} /\ main_queue' \in Seq(Proc)
      /\ IsInjective(main_queue') /\ running' \notin Range(main_queue')
      /\ Range(q) = (Range(main_queue') \union {running'}) \ {Idle}
  BY <1>1, <1>3, SwitchFacts
<1>5. Range(main_queue') \subseteq Proc
  BY <1>4 DEF Range
<1>6. Range(main_queue') \subseteq live /\ (running' \in Proc => running' \in live)
  BY <1>3, <1>4, <1>5, IdleAssumption
<1>7. /\ region1_pt' = region1_pt /\ mem_ctx' = mem_ctx /\ sp' = sp /\ ks_pt' = ks_pt
      /\ region0_pt' = region0_pt /\ current_brk_page' = current_brk_page
      /\ live' = live /\ free' = free /\ overgrown' = overgrown /\ refused' = refused
      /\ stackless' = stackless
  BY <1>1 DEF user, kernel, history
<1>8. Types' /\ Placed'
  <2>1. fault' \in {"none", "page", "pcb", "switch", "pointer"}
    BY <1>1 DEF SwitchFaults
  <2> QED BY <1>4, <1>6, <1>7, <2>1 DEF IInv, Types, Placed
<1>9. NothingLeft' /\ FramesOK'
  BY <1>7 DEF IInv, NothingLeft, FramesOK
<1>10. ProcessesOK'
  BY <1>7 DEF IInv, ProcessesOK
<1>11. FaultOK'
  BY <1>1, <1>6, <1>7, SwitchStep DEF FaultOK
<1> QED BY <1>8, <1>9, <1>10, <1>11 DEF IInv
-----------------------------------------------------------------------------
(* The first state *)

\* The rank of a number among the first n.
LEMMA RankOfNumber ==
  ASSUME NEW n \in Nat, NEW x \in 0..(n - 1)
  PROVE  Rank(x, 0..(n - 1)) = x /\ Cardinality(0..(n - 1)) = n
<1>1. {y \in 0..(n - 1) : y < x} = 0..(x - 1)
  OBVIOUS
<1>2. Cardinality(0..(x - 1)) = IF 0 > x - 1 THEN 0 ELSE x - 1 - 0 + 1
  BY FS_Interval
<1>3. Cardinality(0..(n - 1)) = IF 0 > n - 1 THEN 0 ELSE n - 1 - 0 + 1
  BY FS_Interval
<1>4. Cardinality(0..(x - 1)) = x /\ Cardinality(0..(n - 1)) = n
  BY <1>2, <1>3
<1>5. Rank(x, 0..(n - 1)) = Cardinality(0..(x - 1))
  BY <1>1, Zenon DEF Rank
<1> QED BY <1>4, <1>5

\* If frames are left once init's kernel stack has its own, there were frames
\* for all of the stack.
LEMMA StackFits ==
  ASSUME Cardinality(Frame \ Taken(StackPage, Frame)) > 0
  PROVE  AllServed(StackPage, Frame)
<1>1. NUM_FRAMES \in Nat /\ K_STACK_VPNS \in Nat
  BY SpaceAssumption
<1>2. ASSUME NEW v \in StackPage PROVE Rank(v, StackPage) = v
  BY <1>1, RankOfNumber DEF StackPage
<1>3. ASSUME NEW f \in Frame PROVE Rank(f, Frame) = f /\ Cardinality(Frame) = NUM_FRAMES
  BY <1>1, RankOfNumber DEF Frame
<1>4. CASE NUM_FRAMES < K_STACK_VPNS
  <2>1. ASSUME NEW f \in Frame PROVE f \in Taken(StackPage, Frame)
    <3>1. f \in StackPage
      BY <1>1, <1>4 DEF Frame, StackPage
    <3>2. Rank(f, StackPage) = f /\ Rank(f, Frame) = f
      BY <1>2, <1>3, <3>1
    <3> DEFINE g == FrameFor(f, StackPage, Frame)
    <3>3. g \in Frame /\ Rank(g, Frame) = f
      <4>1. \E e \in Frame : Rank(e, Frame) = Rank(f, StackPage)
        BY <3>2
      <4> QED BY <3>2, <4>1 DEF FrameFor
    <3>4. g = f
      <4> HIDE DEF g
      <4> QED BY <1>3, <3>3
    <3> QED BY <3>1, <3>4 DEF Taken
  <2>2. Frame \ Taken(StackPage, Frame) = {}
    BY <2>1
  <2>3. Cardinality(Frame \ Taken(StackPage, Frame)) = 0
    BY <2>2, FS_EmptySet
  <2> QED BY <2>3
<1>5. CASE ~(NUM_FRAMES < K_STACK_VPNS)
  <2>1. Cardinality(Frame) = NUM_FRAMES
    <3>1. Cardinality(0..(NUM_FRAMES - 1)) = IF 0 > NUM_FRAMES - 1 THEN 0 ELSE NUM_FRAMES - 1 - 0 + 1
      BY <1>1, FS_Interval
    <3> QED BY <1>1, <3>1 DEF Frame
  <2>2. \A v \in StackPage : v < NUM_FRAMES
    BY <1>1, <1>5 DEF StackPage
  <2> QED BY <1>2, <2>1, <2>2 DEF AllServed
<1> QED BY <1>4, <1>5

LEMMA InitInvariant == Init => IInv
<1> SUFFICES ASSUME Init PROVE IInv
  OBVIOUS
<1> DEFINE pool == Frame \ Taken(StackPage, Frame)
           Table(prog) == Loaded(prog, pool)
           none == NoTable(Page)
           empty == NoTable(StackPage)
           h == NoTable(HeapPage)
           st == With(empty, StackPage, "rw", Frame)
<1>1. PICK prog \in Program :
        /\ Fits(prog) /\ Size(prog) <= Cardinality(pool)
        /\ running = Init_pcb /\ main_queue = <<>>
        /\ live = {Init_pcb}
        /\ region1_pt = [p \in Proc |-> IF p = Init_pcb THEN Table(prog) ELSE none]
        /\ mem_ctx = [p \in Proc |-> IF p = Init_pcb THEN ContextOf(prog) ELSE NoContext]
        /\ sp = [p \in Proc |-> IF p = Init_pcb THEN REGION1_VPNS - prog.stack ELSE 0]
        /\ ks_pt = [p \in Proc |-> IF p = Init_pcb THEN st ELSE empty]
        /\ free = pool \ Frames(Table(prog), Page)
        /\ region0_pt = h /\ current_brk_page = 0
        /\ fault = "none" /\ refused = [p \in Proc |-> {}] /\ stackless = {} /\ overgrown = FALSE
  BY DEF Init, Frame, HeapPage
<1> DEFINE table == Table(prog)
           m == ContextOf(prog)
           s == REGION1_VPNS - prog.stack
           pages == ProgramPages(prog)
           u0 == [p \in Proc |-> none]
           k0 == [p \in Proc |-> empty]
<1>2. Init_pcb \in Proc
  BY SpaceAssumption
<1>p. pool \subseteq Frame
  OBVIOUS
<1>3. Size(prog) \in Nat /\ Size(prog) > 0
  BY <1>1, ProgramSizes DEF Size
<1>4. AllServed(StackPage, Frame)
  <2>1. NUM_FRAMES \in Int /\ Frame \subseteq 0..(NUM_FRAMES - 1)
    BY SpaceAssumption DEF Frame
  <2>2. pool \subseteq 0..(NUM_FRAMES - 1)
    BY <2>1
  <2>3. Cardinality(pool) \in Nat
    BY <2>1, <2>2, NumbersFinite
  <2>4. Cardinality(pool) > 0
    BY <1>1, <1>3, <2>3
  <2> QED BY <2>4, StackFits
<1>5. /\ none \in [Page -> Pte] /\ empty \in [StackPage -> Pte] /\ h \in [HeapPage -> Pte]
      /\ Mapped(none) = {} /\ Mapped(empty) = {} /\ DOMAIN none = Page /\ DOMAIN empty = StackPage
      /\ \A v \in HeapPage : h[v] = None
  BY NoTableFacts
<1>6. /\ region1_pt = [u0 EXCEPT ![Init_pcb] = table] /\ ks_pt = [k0 EXCEPT ![Init_pcb] = st]
      /\ u0[Init_pcb] = none /\ k0[Init_pcb] = empty
      /\ DOMAIN u0 = Proc /\ DOMAIN k0 = Proc /\ DOMAIN ks_pt = Proc
  BY <1>1, <1>2
<1>7. OwnFrames(u0, k0, h, Frame) /\ NoneLost(u0, k0, h, Frame)
  BY AllFree DEF OwnFrames, NoneLost
<1>8. /\ Fits(prog) /\ Size(prog) <= Cardinality(pool)
      /\ free = pool \ Frames(table, Page)
      /\ mem_ctx = [p \in Proc |-> IF p = Init_pcb THEN m ELSE NoContext]
      /\ sp = [p \in Proc |-> IF p = Init_pcb THEN s ELSE 0]
      /\ region1_pt = [p \in Proc |-> IF p = Init_pcb THEN table ELSE none]
      /\ ks_pt = [p \in Proc |-> IF p = Init_pcb THEN st ELSE empty]
  BY <1>1
<1>d. st = With(empty, StackPage, "rw", Frame) /\ pool = Frame \ Taken(StackPage, Frame)
  OBVIOUS
<1> HIDE DEF pool, none, empty, h, st, table, m, s, pages, u0, k0
<1>9. /\ Filled(st, empty, StackPage, StackPage, Frame) /\ {st[v].pfn : v \in StackPage} = Taken(StackPage, Frame)
      /\ st \in [StackPage -> Pte] /\ Mapped(st) = StackPage
  <2>1. Frame \in SUBSET Frame /\ StackPage \in SUBSET StackPage /\ "rw" \in {"rw", "rx"}
    OBVIOUS
  <2>2. FilledWith(empty, StackPage, StackPage, "rw", Frame)
    BY <1>4, <1>5, <2>1, TablesNumbered, WithFacts
  <2>3. Filled(st, empty, StackPage, StackPage, Frame) /\ {st[v].pfn : v \in StackPage} = Taken(StackPage, Frame)
    BY <1>d, <2>2 DEF FilledWith
  <2> QED BY <1>5, <2>3 DEF Filled
<1>10. /\ Filled(table, none, Page, pages, pool) /\ Frames(table, Page) = {table[v].pfn : v \in pages}
       /\ table \in [Page -> Pte]
  <2>1. Filled(table, none, Page, pages, pool) /\ Frames(table, Page) = {table[v].pfn : v \in pages}
    BY <1>8, <1>p, LoadedFacts DEF table, none, pages
  <2> QED BY <2>1 DEF Filled
<1>11. m \in Context /\ s \in Page /\ ProgramOK(table, m) /\ StackOK(table, m, s, {})
  BY <1>8, <1>p, LoadedOK DEF table, m, s
<1>12. 0 \in Page /\ NoContext \in Context
  <2>1. 0 \in Page
    BY <1>11, PageFacts DEF Page
  <2> QED BY <2>1 DEF NoContext, Context
<1>13. OwnFrames(u0, ks_pt, h, pool) /\ NoneLost(u0, ks_pt, h, pool)
  <2>1. Changes(u0, k0, h, u0, ks_pt, h, StackPage, empty, st)
    BY <1>2, <1>6, StackChanges
  <2>2. pool = Frame \ {st[v].pfn : v \in StackPage} /\ StackPage \intersect Mapped(empty) = {}
    BY <1>5, <1>9, <1>d
  <2> QED BY <1>5, <1>7, <1>9, <2>1, <2>2, FillTable
<1>14. OwnFrames(region1_pt, ks_pt, h, free) /\ NoneLost(region1_pt, ks_pt, h, free)
  <2>1. Changes(u0, ks_pt, h, region1_pt, ks_pt, h, Page, none, table)
    BY <1>2, <1>6, UserChanges
  <2>2. free = pool \ {table[v].pfn : v \in pages} /\ pages \intersect Mapped(none) = {}
    BY <1>5, <1>8, <1>10
  <2> QED BY <1>5, <1>10, <1>13, <2>1, <2>2, FillTable
<1>15. Types
  <2>1. free \subseteq Frame
    BY <1>8, <1>p
  <2>2. region1_pt \in [Proc -> [Page -> Pte]] /\ ks_pt \in [Proc -> [StackPage -> Pte]]
    BY <1>5, <1>8, <1>9, <1>10
  <2>3. mem_ctx \in [Proc -> Context] /\ sp \in [Proc -> Page]
    BY <1>8, <1>11, <1>12
  <2>4. current_brk_page \in 0..K_STACK_BASE_VPN
    BY <1>1, SpaceAssumption
  <2>5. refused \in [Proc -> SUBSET Page] /\ stackless \subseteq Proc
    BY <1>1
  <2> QED BY <1>1, <1>2, <1>5, <2>1, <2>2, <2>3, <2>4, <2>5 DEF Types
<1>16. Placed
  BY <1>1, EmptyFacts DEF Placed
<1>17. NothingLeft
  <2>1. \A p \in Proc \ live : region1_pt[p] = none /\ ks_pt[p] = empty
    BY <1>1, <1>8
  <2>2. \A v \in HeapPage : v >= current_brk_page => region0_pt[v] = None
    BY <1>1, <1>5
  <2> QED BY <2>1, <2>2 DEF NothingLeft, none, empty
<1>18. ProcessesOK
  <2>1. ASSUME NEW p \in live
        PROVE  /\ region1_pt[p] = table /\ mem_ctx[p] = m /\ sp[p] = s /\ ks_pt[p] = st
               /\ refused[p] = {}
    BY <1>1, <1>2, <1>8
  <2> QED BY <1>9, <1>11, <2>1 DEF ProcessesOK
<1>19. FaultOK
  BY <1>1 DEF FaultOK
<1>20. FramesOK
  <2>1. OwnFrames(region1_pt, ks_pt, region0_pt, free) /\ NoneLost(region1_pt, ks_pt, region0_pt, free)
    BY <1>1, <1>14
  <2> QED BY <2>1 DEF FramesOK, OwnFrames, NoneLost
<1> QED BY <1>15, <1>16, <1>17, <1>18, <1>19, <1>20 DEF IInv
-----------------------------------------------------------------------------
(* The theorems *)

LEMMA NextInvariant ==
  ASSUME IInv, [Next]_vars
  PROVE  IInv'
<1>1. CASE UNCHANGED vars
  <2>1. UNCHANGED <<queue, free, user, kernel, live, history>> /\ fault' = fault
    BY <1>1 DEF vars
  <2>2. FaultOK' /\ fault' \in {"none", "page", "pcb", "switch", "pointer"}
    BY <2>1 DEF IInv, Types, FaultOK, UserStack, pt, queue, user, history
  <2> QED BY <2>1, <2>2, FaultStep
<1>2. ASSUME NEW prog \in Program, KernelExec(prog) PROVE IInv'
  BY <1>2, ExecStep
<1>3. ASSUME NEW prog \in Program, ExecReturnsError(prog) PROVE IInv'
  BY <1>3, ExecErrorStep
<1>4. ASSUME NEW v \in Page, KernelBrk_Impl(v) PROVE IInv'
  BY <1>4, BrkStep
<1>5. ASSUME NEW v \in Page, Pops(v) PROVE IInv'
  BY <1>5, PopsStep
<1>6. ASSUME NEW v \in Page, Pushes(v) PROVE IInv'
  BY <1>6, PushesStep
<1>7. ASSUME NEW v \in Page, TouchesAgain(v) PROVE IInv'
  BY <1>7, TouchesStep
<1>8. ASSUME NEW c \in Proc, KernelFork(c) PROVE IInv'
  BY <1>8, ForkStep
<1>9. CASE ForkFails
  BY <1>9, ForkFailsStep
<1>10. CASE ForkFaults
  BY <1>10, ForkFaultsStep
<1>11. CASE ForkWithoutPcb
  BY <1>11, ForkWithoutPcbStep
<1>12. CASE KernelExit
  BY <1>12, ExitStep
<1>13. ASSUME NEW v \in 0..(K_STACK_BASE_VPN - 1), SetKernelBrk(v) PROVE IInv'
  <2>1. v \in HeapPage
    BY DEF HeapPage
  <2> QED BY <1>13, <2>1, SetKernelBrkStep
<1>14. CASE trap_clock_handler
  BY <1>14, ClockStep
<1>15. ASSUME NEW v \in Page, StoresThroughPointer(v) PROVE IInv'
  BY <1>15, StoresStep
<1> QED BY <1>1, <1>2, <1>3, <1>4, <1>5, <1>6, <1>7, <1>8, <1>9, <1>10, <1>11, <1>12, <1>13, <1>14, <1>15 DEF Next

\* The inductive invariant holds in every state: tables and queue, the
\* program and the stack of every process, and who has which frame.
THEOREM MemoryInvariant == Spec => []IInv
<1>1. Init => IInv
  BY InitInvariant
<1>2. IInv /\ [Next]_vars => IInv'
  BY NextInvariant
<1> QED BY <1>1, <1>2, PTL DEF Spec

\* The variables have their types.  What each page loop of user_memory.c and
\* kernel_memory.c writes into a table is a frame that exists, and brk and
\* stack pointer stay within region 1.
THEOREM TypeCorrect == Spec => []TypeOK
<1>1. IInv => TypeOK
  BY DEF IInv, Types, TypeOK, Frame, HeapPage, Context
<1> QED BY <1>1, MemoryInvariant, PTL

\* Isolation and no leaks: for any sequence of Exec, Brk, stack growth, Fork,
\* Exit and growth of the kernel's heap, also those that fail half way, every
\* frame is free or is in one entry of one table, and frames are lost only
\* after a heap was grown onto a stack.
THEOREM FramesAreConserved == Spec => []FramesConserved
<1>1. IInv => FramesConserved
  <2> SUFFICES ASSUME IInv PROVE FramesConserved
    OBVIOUS
  <2> DEFINE M == Memory(region1_pt, ks_pt, region0_pt)
  <2>1. DOMAIN region0_pt = HeapPage
    BY DEF IInv, Types
  <2>2. Entries = Key
    BY <2>1 DEF Entries, Key
  <2>3. \A e \in Key : EntryAt(e) = M[e]
    BY DEF EntryAt, Memory
  <2>4. Isolated(M, free) /\ (overgrown \/ Covered(M, free))
    BY DEF IInv, FramesOK
  <2>5. ASSUME NEW e \in Key, M[e] # None PROVE M[e].pfn \in Frame
    <3>1. /\ region1_pt \in [Proc -> [Page -> Pte]] /\ ks_pt \in [Proc -> [StackPage -> Pte]]
          /\ region0_pt \in [HeapPage -> Pte]
      BY DEF IInv, Types
    <3>2. M[e] \in Pte
      <4>1. CASE \E p \in Proc, v \in Page : e = <<"user", p, v>>
        BY <3>1, <4>1 DEF Memory
      <4>2. CASE \E p \in Proc, v \in StackPage : e = <<"stack", p, v>>
        BY <3>1, <4>2 DEF Memory
      <4>3. CASE \E v \in HeapPage : e = <<"heap", 0, v>>
        BY <3>1, <4>3 DEF Memory
      <4> QED BY <4>1, <4>2, <4>3 DEF Key
    <3> QED BY <2>5, <3>2, PteFacts
  <2> HIDE DEF M
  <2>6. InUse = {e \in Key : M[e] # None}
    BY <2>2, <2>3 DEF InUse
  <2>7. MappedFrames = {M[e].pfn : e \in InUse}
    BY <2>3, <2>6 DEF MappedFrames
  <2>8. MappedFrames \subseteq Frame /\ IsFiniteSet(MappedFrames)
    <3>1. MappedFrames \subseteq Frame
      BY <2>5, <2>6, <2>7
    <3>2. NUM_FRAMES \in Int /\ MappedFrames \subseteq 0..(NUM_FRAMES - 1)
      BY <3>1, SpaceAssumption DEF Frame
    <3> QED BY <3>1, <3>2, NumbersFinite
  <2>9. Cardinality(InUse) = Cardinality(MappedFrames)
    <3> DEFINE f == [e \in InUse |-> M[e].pfn]
    <3>1. \A e \in InUse : e \in Key /\ M[e] # None
      BY <2>6
    <3>2. \A d, e \in InUse : M[d].pfn = M[e].pfn => d = e
      BY <2>4, <3>1 DEF Isolated
    <3>3. f \in Injection(InUse, MappedFrames) /\ f \in Surjection(InUse, MappedFrames)
      <4>1. f \in [InUse -> MappedFrames]
        BY <2>7
      <4>2. \A d, e \in InUse : f[d] = f[e] => d = e
        BY <3>2
      <4>3. \A x \in MappedFrames : \E e \in InUse : f[e] = x
        BY <2>7
      <4> HIDE DEF f
      <4>4. f \in Injection(InUse, MappedFrames)
        BY <4>1, <4>2 DEF Injection, IsInjective
      <4>5. f \in Surjection(InUse, MappedFrames)
        BY <4>1, <4>3 DEF Surjection
      <4> QED BY <4>4, <4>5
    <3> HIDE DEF f
    <3> QED BY <2>8, <3>3, FS_Injection
  <2>10. MappedFrames \intersect free = {}
    BY <2>4, <2>6, <2>7 DEF Isolated
  <2>11. ASSUME Covered(M, free) PROVE free \union MappedFrames = Frame
    <3>1. free \subseteq Frame
      BY DEF IInv, Types
    <3>2. ASSUME NEW x \in Frame, x \notin free PROVE x \in MappedFrames
      <4>1. PICK e \in Key : M[e] # None /\ M[e].pfn = x
        BY <2>11, <3>2 DEF Covered
      <4> QED BY <2>6, <2>7, <4>1
    <3> QED BY <2>8, <3>1, <3>2
  <2> QED BY <2>4, <2>9, <2>10, <2>11 DEF FramesConserved, Frame
<1> QED BY <1>1, MemoryInvariant, PTL

\* Every page missing from a stack is one that there was no memory for when the
\* process needed it last, whatever Brk, Fork and Exec did or failed to do
\* since, a process is without a kernel stack only if its KCCopy was refused
\* one, and UCCopy and a switch fault on just these.
THEOREM BrokenByRefusal == Spec => []BrokenOnlyByRefusal
<1>1. IInv => BrokenOnlyByRefusal
  <2> SUFFICES ASSUME IInv PROVE BrokenOnlyByRefusal
    OBVIOUS
  <2>1. ASSUME NEW p \in live
        PROVE  /\ UserStack(p) \ Mapped(region1_pt[p]) \subseteq refused[p]
               /\ Mapped(ks_pt[p]) = StackPage \/ p \in stackless
    BY DEF IInv, ProcessesOK, StackOK, UserStack
  <2> QED BY <2>1 DEF IInv, FaultOK, BrokenOnlyByRefusal
<1> QED BY <1>1, MemoryInvariant, PTL

\* Text is never writable, and text, data and heap of every process are all
\* there, whatever Brk, Fork and Exec did, or failed to do, before.
THEOREM ProgramStaysWhole == Spec => []ProgramIsWhole
<1>1. IInv => ProgramIsWhole
  BY DEF IInv, ProcessesOK, ProgramOK, ProgramIsWhole
<1> QED BY <1>1, MemoryInvariant, PTL
-----------------------------------------------------------------------------
(* Kernel start *)

\* KernelStart has the page loops of user_memory.c and kernel_memory.c over
\* region 0 and the same frames, so what was shown of them holds of it.
UsedTo(end) == (first_kernel_text_page..(end - 1)) \union Stack

\* Table t maps the pages in use and no others, each in a frame of its own;
\* those frames, the others and the free ones are all the frames.
Partitioned(t, use, pool, rest) ==
  /\ t \in [Region0Page -> Pte] /\ pool \subseteq Frame /\ rest \subseteq Frame
  /\ Mapped(t) = use /\ pool \intersect rest = {}
  /\ \A v, w \in use : t[v].pfn = t[w].pfn => v = w
  /\ \A v \in use : t[v].pfn \notin pool /\ t[v].pfn \notin rest
  /\ \A f \in Frame : f \in pool \/ f \in rest \/ \E v \in use : t[v].pfn = f

\* The pages below the end, and those of the kernel stack, are where they
\* were written before VM was enabled.
InPlace(t, use, end) == \A v \in use : v < end \/ v \in Stack => t[v].pfn = v

StartOK ==
  /\ done \in 0..8 /\ vm_enabled \in BOOLEAN /\ agreed \in BOOLEAN
  /\ vm_enabled <=> done >= 7
  /\ heap_end \in orig_kernel_brk_page..(K_STACK_BASE_VPN - 3)
  /\ old_end \in Nat /\ old_end <= heap_end
  /\ done <= 3 => free = Frame /\ others = {} /\ ~agreed

RegionOK ==
  /\ current_brk_page = heap_end
  /\ Partitioned(region0_pt, UsedTo(heap_end), free, others)
  /\ InPlace(region0_pt, UsedTo(heap_end), IF vm_enabled THEN old_end ELSE heap_end)

StartInv == StartOK /\ (agreed => RegionOK)

\* Frames that others take.
LEMMA OthersTake ==
  ASSUME NEW t, NEW use, NEW pool, NEW rest, Partitioned(t, use, pool, rest),
         NEW taken \in SUBSET pool
  PROVE  Partitioned(t, use, pool \ taken, rest \union taken)
<1>1. \A f \in Frame : \/ f \in pool \ taken \/ f \in rest \union taken
                       \/ \E v \in use : t[v].pfn = f
  BY DEF Partitioned
<1> QED BY <1>1 DEF Partitioned

\* Pages the kernel's heap gets.
LEMMA RegionGrows ==
  ASSUME NEW t, NEW use, NEW pool, NEW rest, Partitioned(t, use, pool, rest),
         NEW pages \in SUBSET Region0Page, pages \intersect use = {}, Enough(pages, pool),
         NEW w, w = With(t, pages, "rw", pool)
  PROVE  /\ Partitioned(w, use \union pages, pool \ Taken(pages, pool), rest)
         /\ \A v \in use : w[v] = t[v]
<1>p. /\ t \in [Region0Page -> Pte] /\ pool \in SUBSET Frame /\ rest \subseteq Frame
      /\ Mapped(t) = use /\ pool \intersect rest = {} /\ use \subseteq Region0Page
  BY DEF Partitioned, Mapped
<1>1. Numbered(Region0Page)
  BY BootAssumption DEF Numbered, Region0Page
<1>2. AllServed(pages, pool)
  BY <1>1, <1>p, LoopFacts
<1>3. FilledWith(t, Region0Page, pages, "rw", pool)
  BY <1>1, <1>2, <1>p, WithFacts
<1>4. /\ w \in [Region0Page -> Pte] /\ Mapped(w) = use \union pages
      /\ \A v \in pages : w[v].pfn \in pool
      /\ \A v, x \in pages : w[v].pfn = w[x].pfn => v = x
      /\ {w[v].pfn : v \in pages} = Taken(pages, pool)
  BY <1>3, <1>p DEF FilledWith, Filled
<1>5. \A v \in use : w[v] = t[v]
  BY <1>3, <1>p DEF FilledWith, Filled
<1>6. \A v, x \in use \union pages : w[v].pfn = w[x].pfn => v = x
  <2> SUFFICES ASSUME NEW v \in use \union pages, NEW x \in use \union pages,
                      w[v].pfn = w[x].pfn
               PROVE  v = x
    OBVIOUS
  <2>1. \A a, b \in use : t[a].pfn = t[b].pfn => a = b
    BY DEF Partitioned
  <2>2. \A a \in use : t[a].pfn \notin pool
    BY DEF Partitioned
  <2> QED BY <1>4, <1>5, <2>1, <2>2
<1>7. \A v \in use \union pages : w[v].pfn \notin pool \ Taken(pages, pool) /\ w[v].pfn \notin rest
  <2>1. \A a \in use : t[a].pfn \notin pool /\ t[a].pfn \notin rest
    BY DEF Partitioned
  <2> QED BY <1>4, <1>5, <1>p, <2>1
<1>8. ASSUME NEW f \in Frame, f \notin pool \ Taken(pages, pool), f \notin rest
      PROVE  \E v \in use \union pages : w[v].pfn = f
  <2>1. CASE f \in Taken(pages, pool)
    BY <1>4, <2>1
  <2>2. CASE f \notin pool
    <3>1. PICK v \in use : t[v].pfn = f
      BY <1>8, <2>2 DEF Partitioned
    <3> QED BY <1>5, <3>1
  <2> QED BY <1>8, <2>1, <2>2
<1>9. Partitioned(w, use \union pages, pool \ Taken(pages, pool), rest)
  BY <1>4, <1>6, <1>7, <1>8, <1>p DEF Partitioned
<1> QED BY <1>5, <1>9

\* Pages the kernel's heap gives back.
LEMMA RegionShrinks ==
  ASSUME NEW t, NEW use, NEW pool, NEW rest, Partitioned(t, use, pool, rest),
         NEW pages \in SUBSET use, NEW w, w = Without(t, pages)
  PROVE  /\ Partitioned(w, use \ pages, pool \union Frames(t, pages), rest)
         /\ \A v \in use \ pages : w[v] = t[v]
<1>p. /\ t \in [Region0Page -> Pte] /\ pool \in SUBSET Frame /\ rest \subseteq Frame
      /\ Mapped(t) = use /\ pool \intersect rest = {} /\ use \subseteq Region0Page
  BY DEF Partitioned, Mapped
<1>q. /\ \A a, b \in use : t[a].pfn = t[b].pfn => a = b
      /\ \A a \in use : t[a].pfn \notin pool /\ t[a].pfn \notin rest
      /\ \A f \in Frame : f \in pool \/ f \in rest \/ \E v \in use : t[v].pfn = f
  BY DEF Partitioned
<1>1. /\ w \in [Region0Page -> Pte] /\ Mapped(w) = use \ pages
      /\ \A v \in use \ pages : w[v] = t[v]
  BY <1>p, WithoutFacts
<1>2. Frames(t, pages) = {t[v].pfn : v \in pages}
  BY <1>p DEF Frames
<1>3. Frames(t, pages) \subseteq Frame /\ Frames(t, pages) \intersect rest = {}
  BY <1>2, <1>p, <1>q, FramesOfTable
<1>4. \A v \in use \ pages : w[v].pfn \notin pool \union Frames(t, pages) /\ w[v].pfn \notin rest
  BY <1>1, <1>2, <1>q
<1>5. ASSUME NEW f \in Frame, f \notin pool \union Frames(t, pages), f \notin rest
      PROVE  \E v \in use \ pages : w[v].pfn = f
  <2>1. PICK v \in use : t[v].pfn = f
    BY <1>5, <1>q
  <2>2. v \notin pages
    BY <1>2, <1>5, <2>1
  <2> QED BY <1>1, <2>1, <2>2
<1>6. \A v, x \in use \ pages : w[v].pfn = w[x].pfn => v = x
  BY <1>1, <1>q
<1>7. Partitioned(w, use \ pages, pool \union Frames(t, pages), rest)
  BY <1>1, <1>3, <1>4, <1>5, <1>6, <1>p DEF Partitioned
<1> QED BY <1>1, <1>7

\* Unmapping what is not mapped changes nothing.
LEMMA NothingUnmapped ==
  ASSUME NEW t, NEW use, NEW pool, NEW rest, Partitioned(t, use, pool, rest),
         NEW pages, pages \intersect use = {}
  PROVE  Without(t, pages) = t
<1>1. t \in [Region0Page -> Pte] /\ \A v \in Region0Page : v \in pages => t[v] = None
  BY DEF Partitioned, Mapped
<1> QED BY <1>1 DEF Without

\* The pages in use when the heap ends elsewhere.
LEMMA UsedFacts ==
  ASSUME NEW e \in orig_kernel_brk_page..(K_STACK_BASE_VPN - 3),
         NEW n \in orig_kernel_brk_page..(K_STACK_BASE_VPN - 3)
  PROVE  /\ UsedTo(e) \subseteq Region0Page /\ Region0Page \subseteq Frame
         /\ e < n => /\ UsedTo(n) = UsedTo(e) \union e..(n - 1)
                     /\ (e..(n - 1)) \intersect UsedTo(e) = {}
                     /\ (e..(n - 1)) \intersect Stack = {} /\ e..(n - 1) \subseteq Region0Page
         /\ n <= e => /\ UsedTo(n) = UsedTo(e) \ n..(e - 1)
                      /\ n..(e - 1) \subseteq UsedTo(e)
         /\ \A k \in Nat : e + k < K_STACK_BASE_VPN - 2 =>
              (e..(e + k - 1)) \intersect UsedTo(e) = {}
BY BootAssumption DEF UsedTo, Region0Page, Stack, Frame

\* The heap moves while VM is not enabled: region0_pt does not get it.
LEMMA EarlyMove ==
  ASSUME StartInv, ~vm_enabled, NEW n \in Int, MoveHeap(heap_end + n)
  PROVE  /\ free' = free /\ agreed' = FALSE /\ old_end' \in Nat /\ old_end' <= heap_end'
         /\ heap_end' \in orig_kernel_brk_page..(K_STACK_BASE_VPN - 3)
<1>t. /\ heap_end \in orig_kernel_brk_page..(K_STACK_BASE_VPN - 3) /\ old_end \in Nat
      /\ orig_kernel_brk_page \in Nat /\ K_STACK_BASE_VPN \in Nat
  BY BootAssumption DEF StartInv, StartOK
<1>1. PICK e \in Int : e = heap_end + n
  BY <1>t
<1>2. /\ e >= orig_kernel_brk_page /\ e < K_STACK_BASE_VPN - 2 /\ heap_end' = e
      /\ old_end' = (IF e < old_end THEN e ELSE old_end)
      /\ free' = free /\ agreed' = FALSE
  BY <1>1 DEF MoveHeap, BootSetKernelBrk, SetBrk, GrowBrk, ShrinkBrk
<1> QED BY <1>t, <1>2

\* The initializers that allocate memory before VM is enabled.
LEMMA MallocsStep ==
  ASSUME StartInv, NEW n \in {1, 3, 6}, Step(n), Mallocs,
         UNCHANGED <<vm_enabled, others>>
  PROVE  StartInv'
<1>1. /\ done = n - 1 /\ done' = n /\ ~vm_enabled /\ vm_enabled' = vm_enabled
      /\ others' = others
  BY DEF Step, StartInv, StartOK
<1>2. CASE KeepHeap
  <2>1. /\ current_brk_page' = current_brk_page /\ region0_pt' = region0_pt /\ free' = free
        /\ heap_end' = heap_end /\ old_end' = old_end /\ agreed' = agreed
    BY <1>2 DEF KeepHeap
  <2>2. StartOK'
    BY <1>1, <2>1 DEF StartInv, StartOK
  <2>3. RegionOK' <=> RegionOK
    BY <1>1, <2>1 DEF RegionOK
  <2> QED BY <2>1, <2>2, <2>3 DEF StartInv
<1>3. ASSUME NEW k \in 1..MaxGrowth, MoveHeap(heap_end + k) PROVE StartInv'
  <2>1. /\ free' = free /\ agreed' = FALSE /\ old_end' \in Nat /\ old_end' <= heap_end'
        /\ heap_end' \in orig_kernel_brk_page..(K_STACK_BASE_VPN - 3)
    <3>1. k \in Int
      OBVIOUS
    <3> QED BY <1>1, <1>3, <3>1, EarlyMove
  <2>2. StartOK'
    <3>1. done' \in 0..8 /\ ~vm_enabled' /\ ~(done' >= 7)
      BY <1>1
    <3>2. done' <= 3 => free' = Frame /\ others' = {}
      BY <1>1, <2>1 DEF StartInv, StartOK
    <3>3. vm_enabled' \in BOOLEAN
      BY <1>1 DEF StartInv, StartOK
    <3> QED BY <2>1, <3>1, <3>2, <3>3 DEF StartOK
  <2> QED BY <2>1, <2>2 DEF StartInv
<1> QED BY <1>2, <1>3 DEF Mallocs

LEMMA KernelBrkStep ==
  ASSUME StartInv, init_kernel_brk
  PROVE  StartInv'
<1>1. /\ done = 1 /\ done' = 2 /\ vm_enabled' = vm_enabled /\ free' = free
      /\ others' = others /\ heap_end' = heap_end /\ old_end' = old_end /\ agreed' = agreed
  BY DEF init_kernel_brk, Step
<1>2. StartOK' /\ ~agreed'
  BY <1>1 DEF StartInv, StartOK
<1> QED BY <1>2 DEF StartInv

\* region0_pt is filled in, each page in its own frame.
LEMMA RegionStep ==
  ASSUME StartInv, init_region0_pt
  PROVE  StartInv'
<1> DEFINE pages == UsedTo(current_brk_page)
<1>1. /\ done = 3 /\ done' = 4 /\ vm_enabled' = vm_enabled
      /\ current_brk_page' = current_brk_page /\ others' = others
      /\ heap_end' = heap_end /\ old_end' = old_end
      /\ agreed' = (current_brk_page = heap_end)
  BY DEF init_region0_pt, Step
<1>2. /\ region0_pt' = [v \in Region0Page |-> IF v \notin pages THEN None
                          ELSE [pfn |-> v, prot |-> IF v < first_kernel_data_page THEN "rx" ELSE "rw"]]
      /\ free' = free \ pages
  BY DEF init_region0_pt, UsedTo
<1>3. free = Frame /\ others = {} /\ ~vm_enabled
  BY <1>1 DEF StartInv, StartOK
<1>4. StartOK'
  BY <1>1 DEF StartInv, StartOK
<1>5. ASSUME current_brk_page = heap_end PROVE RegionOK'
  <2>0. heap_end \in orig_kernel_brk_page..(K_STACK_BASE_VPN - 3)
    BY DEF StartInv, StartOK
  <2>1. pages \subseteq Region0Page /\ Region0Page \subseteq Frame
    BY <1>5, <2>0, UsedFacts
  <2> HIDE DEF pages
  <2> DEFINE prot(v) == IF v < first_kernel_data_page THEN "rx" ELSE "rw"
             entry(v) == [pfn |-> v, prot |-> prot(v)]
  <2>2. ASSUME NEW v \in pages
        PROVE  entry(v) \in Pte /\ entry(v) # None /\ entry(v).pfn = v
    <3>1. v \in Frame /\ prot(v) \in {"rw", "rx"}
      BY <2>1
    <3> HIDE DEF prot
    <3> QED BY <3>1, PteFacts
  <2>3. /\ \A v \in pages : region0_pt'[v] = entry(v)
        /\ \A v \in Region0Page : v \notin pages => region0_pt'[v] = None
        /\ region0_pt' = [v \in Region0Page |-> region0_pt'[v]]
    BY <1>2, <2>1
  <2> HIDE DEF entry
  <2>4. region0_pt' \in [Region0Page -> Pte]
    <3>1. \A v \in Region0Page : region0_pt'[v] \in Pte
      BY <2>2, <2>3, PteFacts
    <3> QED BY <2>3, <3>1
  <2>5. \A v \in pages : region0_pt'[v] # None /\ region0_pt'[v].pfn = v
    BY <2>2, <2>3
  <2>6. Mapped(region0_pt') = pages
    BY <2>1, <2>3, <2>4, <2>5 DEF Mapped
  <2>7. Partitioned(region0_pt', pages, free', others')
    BY <1>1, <1>2, <1>3, <2>4, <2>5, <2>6 DEF Partitioned
  <2>8. InPlace(region0_pt', pages, heap_end')
    BY <2>5 DEF InPlace
  <2>9. pages = UsedTo(heap_end') /\ current_brk_page' = heap_end' /\ ~vm_enabled'
    BY <1>1, <1>3, <1>5 DEF pages
  <2>10. RegionOK' <=> /\ current_brk_page' = heap_end'
                       /\ Partitioned(region0_pt', UsedTo(heap_end'), free', others')
                       /\ InPlace(region0_pt', UsedTo(heap_end'),
                                  IF vm_enabled' THEN old_end' ELSE heap_end')
    BY DEF RegionOK, Partitioned, InPlace, UsedTo
  <2> QED BY <2>7, <2>8, <2>9, <2>10
<1> QED BY <1>1, <1>4, <1>5 DEF StartInv

\* Idle's page comes from the free frames.
LEMMA IdleStep ==
  ASSUME StartInv, init_region1_pt
  PROVE  StartInv'
<1>1. /\ done = 4 /\ done' = 5 /\ vm_enabled' = vm_enabled /\ free # {}
      /\ others' = others \union Taken({0}, free) /\ free' = free \ Taken({0}, free)
      /\ current_brk_page' = current_brk_page /\ region0_pt' = region0_pt
      /\ heap_end' = heap_end /\ old_end' = old_end /\ agreed' = agreed
  BY DEF init_region1_pt, Step
<1>2. StartOK'
  BY <1>1 DEF StartInv, StartOK
<1>3. ASSUME agreed PROVE RegionOK'
  <2>1. /\ current_brk_page = heap_end
        /\ Partitioned(region0_pt, UsedTo(heap_end), free, others)
        /\ InPlace(region0_pt, UsedTo(heap_end), IF vm_enabled THEN old_end ELSE heap_end)
    BY <1>3 DEF StartInv, RegionOK
  <2>2. free \in SUBSET Frame /\ NUM_FRAMES \in Int /\ free \subseteq 0..(NUM_FRAMES - 1)
    BY <2>1, BootAssumption DEF Partitioned, Frame
  <2>3. IsFiniteSet(free) /\ Cardinality(free) \in Nat
    BY <2>2, NumbersFinite
  <2>4. Cardinality({0}) = 1 /\ Cardinality(free) # 0
    BY <1>1, <2>3, FS_EmptySet, FS_Singleton
  <2>5. Enough({0}, free)
    BY <2>3, <2>4 DEF Enough
  <2>6. 1 \in Int /\ {0} \subseteq 0..(1 - 1)
    OBVIOUS
  <2>7. AllServed({0}, free)
    BY <2>2, <2>5, <2>6, ServedFacts
  <2>8. Taken({0}, free) \subseteq free
    BY <2>2, <2>6, <2>7, FrameFacts
  <2>9. Partitioned(region0_pt, UsedTo(heap_end), free', others')
    BY <1>1, <2>1, <2>8, OthersTake
  <2>10. Partitioned(region0_pt', UsedTo(heap_end'), free', others')
    BY <1>1, <2>9
  <2>11. InPlace(region0_pt', UsedTo(heap_end'), IF vm_enabled' THEN old_end' ELSE heap_end')
    BY <1>1, <2>1
  <2>12. RegionOK' <=> /\ current_brk_page' = heap_end'
                       /\ Partitioned(region0_pt', UsedTo(heap_end'), free', others')
                       /\ InPlace(region0_pt', UsedTo(heap_end'),
                                  IF vm_enabled' THEN old_end' ELSE heap_end')
    BY DEF RegionOK, Partitioned, InPlace, UsedTo
  <2> QED BY <1>1, <2>1, <2>10, <2>11, <2>12
<1> QED BY <1>1, <1>2, <1>3 DEF StartInv

LEMMA EnableStep ==
  ASSUME StartInv, enable_vm
  PROVE  StartInv'
<1>1. /\ done = 6 /\ done' = 7 /\ vm_enabled' = TRUE /\ old_end' = heap_end
      /\ current_brk_page' = current_brk_page /\ region0_pt' = region0_pt
      /\ free' = free /\ others' = others /\ heap_end' = heap_end /\ agreed' = agreed
  BY DEF enable_vm, Step
<1>2. ~vm_enabled /\ orig_kernel_brk_page \in Nat /\ K_STACK_BASE_VPN \in Nat
  BY <1>1, BootAssumption DEF StartInv, StartOK
<1>3. StartOK'
  <2>1. heap_end' \in Nat /\ heap_end' \in orig_kernel_brk_page..(K_STACK_BASE_VPN - 3)
    BY <1>1, <1>2 DEF StartInv, StartOK
  <2> QED BY <1>1, <2>1 DEF StartInv, StartOK
<1>4. RegionOK => RegionOK'
  BY <1>1, <1>2 DEF RegionOK, Partitioned, InPlace, UsedTo
<1> QED BY <1>1, <1>3, <1>4 DEF StartInv

\* Init's kernel stack comes from the free frames, and the pages it was
\* written through were not in use.
LEMMA CopyStep ==
  ASSUME StartInv, BootKCCopy
  PROVE  StartInv'
<1>1. /\ done = 7 /\ done' = 8 /\ vm_enabled' = vm_enabled
      /\ current_brk_page + Cardinality(Stack) < K_STACK_BASE_VPN - 2
      /\ Enough(Stack, free)
      /\ others' = others \union Taken(Stack, free) /\ free' = free \ Taken(Stack, free)
      /\ region0_pt' = Without(region0_pt,
                               current_brk_page..(current_brk_page + Cardinality(Stack) - 1))
      /\ current_brk_page' = current_brk_page
      /\ heap_end' = heap_end /\ old_end' = old_end /\ agreed' = agreed
  BY DEF BootKCCopy, Step
<1>2. StartOK'
  BY <1>1 DEF StartInv, StartOK
<1>3. ASSUME agreed PROVE RegionOK'
  <2>1. /\ current_brk_page = heap_end
        /\ Partitioned(region0_pt, UsedTo(heap_end), free, others)
        /\ InPlace(region0_pt, UsedTo(heap_end), IF vm_enabled THEN old_end ELSE heap_end)
    BY <1>3 DEF StartInv, RegionOK
  <2>2. free \in SUBSET Frame /\ NUM_FRAMES \in Int /\ free \subseteq 0..(NUM_FRAMES - 1)
    BY <2>1, BootAssumption DEF Partitioned, Frame
  <2>3. K_STACK_LIMIT_VPN \in Int /\ Stack \subseteq 0..(K_STACK_LIMIT_VPN - 1)
    BY BootAssumption DEF Stack
  <2>4. Cardinality(Stack) \in Nat
    BY <2>3, NumbersFinite
  <2>5. AllServed(Stack, free)
    BY <1>1, <2>2, <2>3, ServedFacts
  <2>6. Taken(Stack, free) \subseteq free
    BY <2>2, <2>3, <2>5, FrameFacts
  <2>7. Partitioned(region0_pt, UsedTo(heap_end), free', others')
    BY <1>1, <2>1, <2>6, OthersTake
  <2>8. (heap_end..(heap_end + Cardinality(Stack) - 1)) \intersect UsedTo(heap_end) = {}
    <3>1. heap_end \in orig_kernel_brk_page..(K_STACK_BASE_VPN - 3)
      BY DEF StartInv, StartOK
    <3> QED BY <1>1, <2>1, <2>4, <3>1, UsedFacts
  <2>9. region0_pt' = region0_pt
    BY <1>1, <2>1, <2>8, NothingUnmapped
  <2>10. RegionOK' <=> /\ current_brk_page' = heap_end'
                       /\ Partitioned(region0_pt', UsedTo(heap_end'), free', others')
                       /\ InPlace(region0_pt', UsedTo(heap_end'),
                                  IF vm_enabled' THEN old_end' ELSE heap_end')
    BY DEF RegionOK, Partitioned, InPlace, UsedTo
  <2> QED BY <1>1, <2>1, <2>7, <2>9, <2>10
<1> QED BY <1>1, <1>2, <1>3 DEF StartInv

\* The heap moves with VM enabled: each page it gains has a frame of its own,
\* and what was in place below its new end still is.
LEMMA RunsStep ==
  ASSUME StartInv, Runs
  PROVE  StartInv'
<1>1. /\ done = 8 /\ done' = done /\ vm_enabled' = vm_enabled /\ others' = others
  BY DEF Runs
<1>2. PICK n \in Int : MoveHeap(n)
  <2>1. MaxGrowth \in Nat /\ heap_end \in Int
    BY BootAssumption DEF StartInv, StartOK
  <2> QED BY <2>1 DEF Runs
<1>3. /\ n >= orig_kernel_brk_page /\ n < K_STACK_BASE_VPN - 2 /\ heap_end' = n
      /\ old_end' = (IF n < old_end THEN n ELSE old_end)
      /\ agreed' = (agreed /\ vm_enabled)
  BY <1>2 DEF MoveHeap, BootSetKernelBrk
<1>4. /\ vm_enabled = TRUE /\ vm_enabled' = TRUE /\ agreed \in BOOLEAN /\ agreed' = agreed
      /\ heap_end \in orig_kernel_brk_page..(K_STACK_BASE_VPN - 3)
      /\ old_end \in Nat /\ old_end <= heap_end /\ heap_end \in Int
  BY <1>1, <1>3, BootAssumption DEF StartInv, StartOK
<1>5. /\ n \in orig_kernel_brk_page..(K_STACK_BASE_VPN - 3)
      /\ old_end' \in Nat /\ old_end' <= n /\ old_end' <= old_end
  BY <1>3, <1>4, BootAssumption
<1>6. StartOK'
  BY <1>1, <1>3, <1>4, <1>5 DEF StartOK
<1>7. ASSUME agreed PROVE RegionOK'
  <2>1. /\ current_brk_page = heap_end
        /\ Partitioned(region0_pt, UsedTo(heap_end), free, others)
        /\ InPlace(region0_pt, UsedTo(heap_end), old_end)
    BY <1>4, <1>7 DEF StartInv, RegionOK
  <2>2. RegionOK' <=> /\ current_brk_page' = heap_end'
                      /\ Partitioned(region0_pt', UsedTo(heap_end'), free', others')
                      /\ InPlace(region0_pt', UsedTo(heap_end'),
                                 IF vm_enabled' THEN old_end' ELSE heap_end')
    BY DEF RegionOK, Partitioned, InPlace, UsedTo
  <2>3. \/ GrowBrk(n) \/ ShrinkBrk(n)
    BY <1>2, <1>4 DEF MoveHeap, BootSetKernelBrk, SetBrk
  <2>4. CASE GrowBrk(n)
    <3> DEFINE pages == heap_end..(n - 1)
    <3>1. /\ n > heap_end /\ Enough(pages, free)
          /\ region0_pt' = With(region0_pt, pages, "rw", free)
          /\ free' = free \ Taken(pages, free) /\ current_brk_page' = n
      BY <2>1, <2>4 DEF GrowBrk
    <3>2. heap_end < n
      BY <1>4, <3>1
    <3>3. /\ UsedTo(n) = UsedTo(heap_end) \union pages
          /\ pages \intersect UsedTo(heap_end) = {}
          /\ pages \intersect Stack = {} /\ pages \in SUBSET Region0Page
      BY <1>4, <1>5, <3>2, UsedFacts
    <3>4. \A v \in pages : ~(v < old_end')
      BY <1>4, <1>5
    <3> HIDE DEF pages
    <3>5. /\ Partitioned(region0_pt', UsedTo(n), free', others')
          /\ \A v \in UsedTo(heap_end) : region0_pt'[v] = region0_pt[v]
      BY <1>1, <2>1, <3>1, <3>3, RegionGrows
    <3>6. InPlace(region0_pt', UsedTo(n), old_end')
      <4> SUFFICES ASSUME NEW v \in UsedTo(n), v < old_end' \/ v \in Stack
                   PROVE  region0_pt'[v].pfn = v
        BY DEF InPlace
      <4>1. v \in UsedTo(heap_end)
        BY <3>3, <3>4
      <4>2. v < old_end \/ v \in Stack
        <5>1. v \in Int
          BY BootAssumption DEF UsedTo, Stack
        <5> QED BY <1>4, <1>5, <5>1
      <4>3. region0_pt[v].pfn = v
        BY <2>1, <4>1, <4>2 DEF InPlace
      <4> QED BY <3>5, <4>1, <4>3
    <3> QED BY <1>3, <1>4, <2>2, <3>1, <3>5, <3>6
  <2>5. CASE ShrinkBrk(n)
    <3> DEFINE pages == n..(heap_end - 1)
    <3>1. /\ n <= heap_end /\ free' = free \union Frames(region0_pt, pages)
          /\ region0_pt' = Without(region0_pt, pages) /\ current_brk_page' = n
      BY <2>1, <2>5 DEF ShrinkBrk
    <3>2. UsedTo(n) = UsedTo(heap_end) \ pages /\ pages \in SUBSET UsedTo(heap_end)
      BY <1>4, <1>5, <3>1, UsedFacts
    <3> HIDE DEF pages
    <3>3. /\ Partitioned(region0_pt', UsedTo(n), free', others')
          /\ \A v \in UsedTo(n) : region0_pt'[v] = region0_pt[v]
      BY <1>1, <2>1, <3>1, <3>2, RegionShrinks
    <3>4. InPlace(region0_pt', UsedTo(n), old_end')
      <4> SUFFICES ASSUME NEW v \in UsedTo(n), v < old_end' \/ v \in Stack
                   PROVE  region0_pt'[v].pfn = v
        BY DEF InPlace
      <4>1. v \in UsedTo(heap_end)
        BY <3>2
      <4>2. v < old_end \/ v \in Stack
        <5>1. v \in Int
          BY BootAssumption DEF UsedTo, Stack
        <5> QED BY <1>4, <1>5, <5>1
      <4>3. region0_pt[v].pfn = v
        BY <2>1, <4>1, <4>2 DEF InPlace
      <4> QED BY <3>3, <4>3
    <3> QED BY <1>3, <1>4, <2>2, <3>1, <3>3, <3>4
  <2> QED BY <2>3, <2>4, <2>5
<1> QED BY <1>4, <1>6, <1>7 DEF StartInv

LEMMA StartInvInit ==
  ASSUME BootInit
  PROVE  StartInv
<1>0. /\ done = 0 /\ vm_enabled = FALSE /\ agreed = FALSE /\ old_end = 0
      /\ heap_end = orig_kernel_brk_page /\ free = Frame /\ others = {}
  BY DEF BootInit, Frame
<1>l. /\ orig_kernel_brk_page \in Nat
      /\ orig_kernel_brk_page \in orig_kernel_brk_page..(K_STACK_BASE_VPN - 3)
  BY BootAssumption
<1>1. StartOK
  <2>1. done \in 0..8 /\ ~(done >= 7)
    BY <1>0
  <2>2. old_end \in Nat /\ old_end <= heap_end
    BY <1>0, <1>l
  <2>3. vm_enabled \in BOOLEAN /\ agreed \in BOOLEAN /\ (vm_enabled <=> done >= 7)
    BY <1>0, <2>1
  <2> QED BY <1>0, <1>l, <2>1, <2>2, <2>3, Zenon DEF StartOK
<1> QED BY <1>1 DEF StartInv, StartOK, BootInit

LEMMA StartInvStep ==
  ASSUME StartInv, [BootNext]_boot_vars
  PROVE  StartInv'
<1>1. CASE initialize_frame_tracking
  <2>1. 1 \in {1, 3, 6}
    OBVIOUS
  <2> QED BY <1>1, <2>1, MallocsStep DEF initialize_frame_tracking
<1>2. CASE init_kernel_brk
  BY <1>2, KernelBrkStep
<1>3. CASE create_pcbs
  <2>1. 3 \in {1, 3, 6}
    OBVIOUS
  <2> QED BY <1>3, <2>1, MallocsStep DEF create_pcbs
<1>4. CASE init_region0_pt
  BY <1>4, RegionStep
<1>5. CASE init_region1_pt
  BY <1>5, IdleStep
<1>6. CASE init_services
  <2>1. 6 \in {1, 3, 6}
    OBVIOUS
  <2> QED BY <1>6, <2>1, MallocsStep DEF init_services
<1>7. CASE enable_vm
  BY <1>7, EnableStep
<1>8. CASE BootKCCopy
  BY <1>8, CopyStep
<1>9. CASE Runs
  BY <1>9, RunsStep
<1>10. CASE UNCHANGED boot_vars
  BY <1>10 DEF boot_vars, StartInv, StartOK, RegionOK, Partitioned, InPlace, UsedTo
<1> QED BY <1>1, <1>2, <1>3, <1>4, <1>5, <1>6, <1>7, <1>8, <1>9, <1>10
        DEF BootNext, KernelStart

LEMMA StartIsSound ==
  ASSUME StartInv
  PROVE  SoundWhenAgreed
<1> DEFINE use == UsedTo(heap_end)
           mapped == Frames(region0_pt, Region0Page)
<1> SUFFICES ASSUME agreed
             PROVE  /\ vm_enabled => AllMapped
                    /\ Cardinality(Mapped(region0_pt)) = Cardinality(mapped)
                    /\ (mapped \union others) \intersect free = {}
                    /\ mapped \intersect others = {}
                    /\ mapped \union others \union free = Frame
  BY DEF SoundWhenAgreed, Frame
<1>1. /\ Partitioned(region0_pt, use, free, others)
      /\ vm_enabled => InPlace(region0_pt, use, old_end)
  BY DEF StartInv, RegionOK
<1>2. /\ region0_pt \in [Region0Page -> Pte] /\ Mapped(region0_pt) = use /\ use \subseteq Region0Page
      /\ free \subseteq Frame /\ others \subseteq Frame /\ free \intersect others = {}
  BY <1>1 DEF Partitioned, Mapped
<1>3. mapped = {region0_pt[v].pfn : v \in use}
  BY <1>2 DEF Frames
<1>4. mapped \subseteq Frame
  BY <1>2, FramesOfTable
<1> HIDE DEF use, mapped
<1>5. /\ \A v, w \in use : region0_pt[v].pfn = region0_pt[w].pfn => v = w
      /\ \A v \in use : region0_pt[v].pfn \notin free /\ region0_pt[v].pfn \notin others
      /\ \A f \in Frame : f \in free \/ f \in others \/ \E v \in use : region0_pt[v].pfn = f
  BY <1>1 DEF Partitioned
<1>6. Cardinality(Mapped(region0_pt)) = Cardinality(mapped)
  <2> DEFINE f == [v \in use |-> region0_pt[v].pfn]
  <2>1. f \in [use -> mapped] /\ (\A x \in mapped : \E v \in use : f[v] = x)
    BY <1>3
  <2>2. \A v, w \in use : f[v] = f[w] => v = w
    BY <1>5
  <2> HIDE DEF f
  <2>3. f \in Injection(use, mapped) /\ f \in Surjection(use, mapped)
    BY <2>1, <2>2 DEF Injection, IsInjective, Surjection
  <2>4. IsFiniteSet(mapped)
    <3>1. NUM_FRAMES \in Int /\ mapped \subseteq 0..(NUM_FRAMES - 1)
      BY <1>4, BootAssumption DEF Frame
    <3> QED BY <3>1, NumbersFinite
  <2> QED BY <1>2, <2>3, <2>4, FS_Injection
<1>7. ASSUME vm_enabled PROVE AllMapped
  <2>1. \A v \in use : region0_pt[v] # None
    BY <1>2 DEF Mapped
  <2>2. ASSUME NEW v \in use, v \in (0..(old_end - 1)) \union Stack
        PROVE  region0_pt[v].pfn = v
    <3>1. v < old_end \/ v \in Stack
      BY <2>2 DEF StartInv, StartOK
    <3> QED BY <1>1, <1>7, <3>1 DEF InPlace
  <2> QED BY <2>1, <2>2 DEF AllMapped, KernelPages, UsedTo, use
<1>8. (mapped \union others) \intersect free = {} /\ mapped \intersect others = {}
  BY <1>2, <1>3, <1>5
<1>9. mapped \union others \union free = Frame
  BY <1>2, <1>3, <1>4, <1>5
<1> QED BY <1>6, <1>7, <1>8, <1>9

\* If the break is where the library's heap ends when KernelStart fills in
\* region0_pt, and malloc does not move it until VM is enabled, the kernel has
\* all of its memory, where it wrote it, and no frame is lost or used twice, for
\* any layout and however the heap goes up and down afterwards.
THEOREM KernelStartIsSound == BootSpec => []SoundWhenAgreed
<1>1. BootInit => StartInv
  BY StartInvInit
<1>2. StartInv /\ [BootNext]_boot_vars => StartInv'
  BY StartInvStep
<1>3. StartInv => SoundWhenAgreed
  BY StartIsSound
<1> QED BY <1>1, <1>2, <1>3, PTL DEF BootSpec
=============================================================================
