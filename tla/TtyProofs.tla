----------------------------- MODULE TtyProofs ------------------------------
(***************************************************************************)
(* Proofs about the terminals, for any number of processes and terminals,  *)
(* any texts and lines, and any TERMINAL_MAX_LINE.                         *)
(***************************************************************************)
EXTENDS Tty, QueueLemmas
-----------------------------------------------------------------------------
(* The inductive invariant *)

Call == [proc : Proc, len : Nat \ {0}]
Chunk == [call : Nat, off : Nat, len : Nat]
Shape == Nat \X Nat

\* The types of the history variables and the device.
HistoryType ==
  /\ device \in [Tty -> Chunk \union {None}]
  /\ calls \in [Tty -> Seq(Call)]
  /\ screen \in [Tty -> Seq(Shape)]
  /\ typed \in [Tty -> [lines : Nat, bytes : Nat]]
  /\ delivered \in [Tty -> Nat]
  /\ taken \in [Tty -> Nat]
  /\ leftover \in [Tty -> BOOLEAN]

\* The queues: the main queue and, of each terminal, the writers, the readers
\* and the owner, as a queue of at most one process.
Owner(o) == IF o.tx_owner = None THEN <<>> ELSE <<o.tx_owner>>
Main == <<"main", None>>
QueueName == {Main} \union ({"owner", "w", "r"} \X Tty)
Queues ==
  [k \in QueueName |->
     IF k = Main THEN main_queue
     ELSE IF k[1] = "owner" THEN Owner(ttys[k[2]])
     ELSE IF k[1] = "w" THEN ttys[k[2]].w ELSE ttys[k[2]].r]

Placed == Separate(running, Queues) /\ Proc \subseteq Members(Queues) \union {running}

\* The last byte on a screen.
Shown(scr) == IF scr = <<>> THEN <<0, 0>> ELSE Last(scr)

\* How a terminal o stands when the first d of its writes cs have been sent
\* and f holds the io_ fields: the next write is the owner's, of which sent
\* bytes are on the screen and a chunk is at the device; the writes after it
\* are those of the processes that wait, in their order.
Sending(o, f, cs, dev, scr, d) ==
  /\ o.tx_owner = None => o.w = <<>> /\ Len(cs) = d
  /\ o.tx_owner # None =>
       /\ Len(cs) = d + 1 + Len(o.w)
       /\ cs[d + 1] = [proc |-> o.tx_owner, len |-> f[o.tx_owner].total]
       /\ f[o.tx_owner].sent < f[o.tx_owner].total
       /\ o.tx_last_chunk = Smaller(f[o.tx_owner].total - f[o.tx_owner].sent, TERMINAL_MAX_LINE)
       /\ dev = [call |-> d + 1, off |-> f[o.tx_owner].sent, len |-> o.tx_last_chunk]
       /\ \A i \in 1..Len(o.w) :
            /\ cs[d + 1 + i] = [proc |-> o.w[i], len |-> f[o.w[i]].total]
            /\ f[o.w[i]].sent = 0
  /\ \A c \in 1..d : <<c, cs[c].len>> \in Range(scr)
  /\ IF o.tx_owner # None /\ f[o.tx_owner].sent > 0
     THEN Shown(scr) = <<d + 1, f[o.tx_owner].sent>>
     ELSE Shown(scr) = IF d = 0 THEN <<0, 0>> ELSE <<d, cs[d].len>>

Writing ==
  \A t \in Tty : \E d \in Nat : Sending(ttys[t], io, calls[t], device[t], screen[t], d)

\* Whoever is in a read knows its terminal, and those on the reader queue of a
\* terminal are in a read of it.
Reading ==
  /\ \A p \in Proc : inside[p] = "read" => io[p].tty \in Tty
  /\ \A t \in Tty : \A p \in Range(ttys[t].r) : inside[p] = "read" /\ io[p].tty = t

\* Lines and woken readers: there are no more woken readers than lines and
\* lines taken before them, and no more lines than woken readers while others
\* wait, unless part of a line was left.
Counted ==
  \A t \in Tty :
    /\ Cardinality(Woken(t)) <= Len(ttys[t].rx) + taken[t]
    /\ ttys[t].r # <<>> /\ ~leftover[t] => Len(ttys[t].rx) <= Cardinality(Woken(t))

IInv == TypeOK /\ HistoryType /\ Placed /\ Writing /\ Reading /\ Counted /\ InputInOrder
-----------------------------------------------------------------------------
(* Places *)

\* The fields of a terminal, of a request and of a line.
LEMMA Fields ==
  /\ \A o \in Terminal : /\ o.tx_owner \in Proc \union {None} /\ o.tx_last_chunk \in Nat
                         /\ o.tx_last_chunk <= TERMINAL_MAX_LINE
                         /\ o.w \in Seq(Proc) /\ o.r \in Seq(Proc) /\ o.rx \in Seq(Line)
  /\ \A f \in Request : /\ f.tty \in Tty \union {None} /\ f.total \in Nat
                        /\ f.sent \in Nat /\ f.len \in Nat
  /\ \A l \in Line : l.first \in Nat /\ l.len \in Nat /\ l.off \in Nat
BY TtyAssumption DEF Terminal, Request, Line

\* The least of two numbers.
LEMMA SmallerFacts ==
  ASSUME NEW a \in Nat, NEW b \in Nat
  PROVE  /\ Smaller(a, b) \in Nat /\ Smaller(a, b) <= a /\ Smaller(a, b) <= b
         /\ Smaller(a, b) = a \/ Smaller(a, b) = b
BY DEF Smaller

LEMMA OwnerFacts ==
  ASSUME NEW o \in Terminal
  PROVE  /\ Owner(o) \in Seq(Proc)
         /\ o.tx_owner = None => Owner(o) = <<>> /\ Range(Owner(o)) = {}
         /\ o.tx_owner # None => /\ Owner(o) = <<o.tx_owner>> /\ Owner(o) = Append(<<>>, o.tx_owner)
                                 /\ Range(Owner(o)) = {o.tx_owner}
<1>1. CASE o.tx_owner = None
  BY <1>1, EmptyFacts DEF Owner
<1>2. CASE o.tx_owner # None
  <2>1. o.tx_owner \in Proc
    BY <1>2, Fields
  <2>2. Owner(o) = <<o.tx_owner>>
    BY <1>2 DEF Owner
  <2> DEFINE x == o.tx_owner
  <2>3. x \in Proc
    BY <2>1
  <2> HIDE DEF x
  <2>4. <<x>> \in Seq(Proc) /\ <<x>> = Append(<<>>, x) /\ DOMAIN <<x>> = {1} /\ <<x>>[1] = x
    BY <2>3
  <2>5. Range(<<x>>) = {x}
    BY <2>4 DEF Range
  <2> QED BY <1>2, <2>2, <2>4, <2>5 DEF x
<1> QED BY <1>1, <1>2

\* The names of queues.
LEMMA Names ==
  /\ Main \in QueueName
  /\ \A t \in Tty : \A k \in {"owner", "w", "r"} : <<k, t>> \in QueueName /\ <<k, t>> # Main
  /\ \A k \in QueueName : \/ k = Main
                          \/ \E t \in Tty : k = <<"owner", t>> \/ k = <<"w", t>> \/ k = <<"r", t>>
  /\ \A t, u \in Tty : \A k, j \in {"owner", "w", "r"} : k # j \/ t # u => <<k, t>> # <<j, u>>
BY DEF QueueName, Main

\* The queues of a state, and those of the next.
LEMMA QueuesFacts ==
  ASSUME TypeOK
  PROVE  /\ Queues \in Family(QueueName) /\ Queues[Main] = main_queue
         /\ \A t \in Tty : /\ Queues[<<"owner", t>>] = Owner(ttys[t])
                           /\ Queues[<<"w", t>>] = ttys[t].w /\ Queues[<<"r", t>>] = ttys[t].r
<1>1. main_queue \in Seq(Proc) /\ \A t \in Tty : ttys[t] \in Terminal
  BY DEF TypeOK
<1>2. \A t \in Tty : Owner(ttys[t]) \in Seq(Proc) /\ ttys[t].w \in Seq(Proc) /\ ttys[t].r \in Seq(Proc)
  BY <1>1, OwnerFacts, Fields
<1>3. /\ Queues[Main] = main_queue /\ DOMAIN Queues = QueueName
      /\ \A t \in Tty : /\ Queues[<<"owner", t>>] = Owner(ttys[t])
                        /\ Queues[<<"w", t>>] = ttys[t].w /\ Queues[<<"r", t>>] = ttys[t].r
  BY Names DEF Queues
<1>4. \A k \in QueueName : Queues[k] \in Seq(Proc)
  <2> TAKE k \in QueueName
  <2>1. CASE k = Main
    BY <1>1, <1>3, <2>1
  <2>2. ASSUME NEW t \in Tty, k = <<"owner", t>> \/ k = <<"w", t>> \/ k = <<"r", t>>
        PROVE  Queues[k] \in Seq(Proc)
    BY <1>2, <1>3, <2>2
  <2> QED BY <2>1, <2>2, Names
<1>5. Queues = [k \in QueueName |-> Queues[k]]
  BY DEF Queues
<1> QED BY <1>3, <1>4, <1>5 DEF Family

LEMMA QueuesNext ==
  ASSUME TypeOK', NEW R \in Family(QueueName), R[Main] = main_queue',
         \A t \in Tty : /\ R[<<"owner", t>>] = Owner(ttys'[t])
                        /\ R[<<"w", t>>] = ttys'[t].w /\ R[<<"r", t>>] = ttys'[t].r
  PROVE  Queues' = R
<1>1. \A k \in QueueName : Queues'[k] = R[k]
  <2>1. /\ Queues'[Main] = main_queue'
        /\ \A t \in Tty : /\ Queues'[<<"owner", t>>] = Owner(ttys'[t])
                          /\ Queues'[<<"w", t>>] = ttys'[t].w /\ Queues'[<<"r", t>>] = ttys'[t].r
    BY Names DEF Queues
  <2> TAKE k \in QueueName
  <2>2. CASE k = Main
    BY <2>1, <2>2
  <2>3. ASSUME NEW t \in Tty, k = <<"owner", t>> \/ k = <<"w", t>> \/ k = <<"r", t>>
        PROVE  Queues'[k] = R[k]
    BY <2>1, <2>3
  <2> QED BY <2>2, <2>3, Names
<1>2. Queues' = [k \in QueueName |-> Queues'[k]]
  BY DEF Queues
<1> QED BY <1>1, <1>2 DEF Family

\* A process on a queue of a terminal is on no other and is not running.
LEMMA Apart ==
  ASSUME TypeOK, Placed
  PROVE  /\ running \notin Range(main_queue)
         /\ \A t \in Tty :
              /\ ttys[t].tx_owner # None => /\ ttys[t].tx_owner \in Proc /\ ttys[t].tx_owner # running
                                            /\ ttys[t].tx_owner \notin Range(ttys[t].w)
              /\ \A p \in Range(ttys[t].w) \union Range(ttys[t].r) : p \in Proc /\ p # running
              /\ IsInjective(ttys[t].w) /\ IsInjective(ttys[t].r)
         /\ \A t, u \in Tty : t # u =>
              /\ ttys[t].tx_owner # None => /\ ttys[t].tx_owner # ttys[u].tx_owner
                                            /\ ttys[t].tx_owner \notin Range(ttys[u].w)
              /\ Range(ttys[t].w) \intersect Range(ttys[u].w) = {}
<1>1. /\ Queues \in Family(QueueName) /\ Queues[Main] = main_queue /\ DOMAIN Queues = QueueName
      /\ \A t \in Tty : /\ Queues[<<"owner", t>>] = Owner(ttys[t])
                        /\ Queues[<<"w", t>>] = ttys[t].w /\ Queues[<<"r", t>>] = ttys[t].r
  BY QueuesFacts DEF Family
<1>2. /\ \A k \in QueueName : IsInjective(Queues[k]) /\ running \notin Range(Queues[k])
      /\ \A k, j \in QueueName : k # j => Range(Queues[k]) \intersect Range(Queues[j]) = {}
  BY <1>1 DEF Placed, Separate
<1>3. \A t \in Tty : ttys[t] \in Terminal
  BY DEF TypeOK
<1>4. running \notin Range(main_queue)
  BY <1>1, <1>2, Names
<1>5. ASSUME NEW t \in Tty
      PROVE  /\ IsInjective(ttys[t].w) /\ IsInjective(ttys[t].r)
             /\ running \notin Range(Owner(ttys[t])) /\ running \notin Range(ttys[t].w)
             /\ running \notin Range(ttys[t].r)
             /\ Range(Owner(ttys[t])) \intersect Range(ttys[t].w) = {}
  <2>1. /\ <<"owner", t>> \in QueueName /\ <<"w", t>> \in QueueName /\ <<"r", t>> \in QueueName
        /\ <<"owner", t>> # <<"w", t>>
    BY Names
  <2>2. Range(Queues[<<"owner", t>>]) \intersect Range(Queues[<<"w", t>>]) = {}
    BY <1>2, <2>1
  <2> QED BY <1>1, <1>2, <2>1, <2>2
<1>6. ASSUME NEW t \in Tty, NEW u \in Tty, t # u
      PROVE  /\ Range(Owner(ttys[t])) \intersect Range(Owner(ttys[u])) = {}
             /\ Range(Owner(ttys[t])) \intersect Range(ttys[u].w) = {}
             /\ Range(ttys[t].w) \intersect Range(ttys[u].w) = {}
  <2>1. /\ <<"owner", t>> \in QueueName /\ <<"owner", u>> \in QueueName /\ <<"w", t>> \in QueueName
        /\ <<"w", u>> \in QueueName
        /\ <<"owner", t>> # <<"owner", u>> /\ <<"owner", t>> # <<"w", u>> /\ <<"w", t>> # <<"w", u>>
    BY <1>6, Names
  <2>2. /\ Range(Queues[<<"owner", t>>]) \intersect Range(Queues[<<"owner", u>>]) = {}
        /\ Range(Queues[<<"owner", t>>]) \intersect Range(Queues[<<"w", u>>]) = {}
        /\ Range(Queues[<<"w", t>>]) \intersect Range(Queues[<<"w", u>>]) = {}
    BY <1>2, <2>1
  <2> QED BY <1>1, <2>2
<1>7. \A t \in Tty : \A p \in Range(ttys[t].w) \union Range(ttys[t].r) : p \in Proc
  BY <1>3, Fields DEF Range
<1>8. \A t \in Tty : ttys[t].tx_owner # None => /\ Range(Owner(ttys[t])) = {ttys[t].tx_owner}
                                                 /\ ttys[t].tx_owner \in Proc
  BY <1>3, Fields, OwnerFacts
<1>9. \A t, u \in Tty : t # u /\ ttys[t].tx_owner # None => ttys[t].tx_owner # ttys[u].tx_owner
  BY <1>6, <1>8
<1>10. \A t \in Tty :
         /\ ttys[t].tx_owner # None => /\ ttys[t].tx_owner \in Proc /\ ttys[t].tx_owner # running
                                       /\ ttys[t].tx_owner \notin Range(ttys[t].w)
         /\ \A p \in Range(ttys[t].w) \union Range(ttys[t].r) : p \in Proc /\ p # running
         /\ IsInjective(ttys[t].w) /\ IsInjective(ttys[t].r)
  BY <1>5, <1>7, <1>8
<1>11. \A t, u \in Tty : t # u =>
         /\ ttys[t].tx_owner # None => ttys[t].tx_owner \notin Range(ttys[u].w)
         /\ Range(ttys[t].w) \intersect Range(ttys[u].w) = {}
  BY <1>6, <1>8
<1> QED BY <1>4, <1>9, <1>10, <1>11

\* A step that moves nobody.
LEMMA QuietPlaced ==
  ASSUME TypeOK, TypeOK', Placed, running' = running, main_queue' = main_queue,
         \A t \in Tty : /\ Owner(ttys'[t]) = Owner(ttys[t])
                        /\ ttys'[t].w = ttys[t].w /\ ttys'[t].r = ttys[t].r
  PROVE  Placed'
<1>1. Queues' = Queues
  BY QueuesFacts, QueuesNext
<1> QED BY <1>1 DEF Placed

\* The running process blocks on a queue of a terminal or becomes its owner.
LEMMA BlockPlaced ==
  ASSUME TypeOK, TypeOK', Placed, running \in Proc, SwitchToNext(main_queue),
         NEW t \in Tty, NEW k \in {"owner", "w", "r"},
         \A u \in Tty :
           /\ Owner(ttys'[u]) = IF k = "owner" /\ u = t THEN Append(Owner(ttys[u]), running)
                                ELSE Owner(ttys[u])
           /\ ttys'[u].w = IF k = "w" /\ u = t THEN Append(ttys[u].w, running) ELSE ttys[u].w
           /\ ttys'[u].r = IF k = "r" /\ u = t THEN Append(ttys[u].r, running) ELSE ttys[u].r
  PROVE  Placed'
<1> DEFINE n == <<k, t>>
           R == JoinedAnd(Queues, n, running, Main, main_queue')
<1>q. /\ Queues \in Family(QueueName) /\ Queues[Main] = main_queue
      /\ \A u \in Tty : /\ Queues[<<"owner", u>>] = Owner(ttys[u])
                        /\ Queues[<<"w", u>>] = ttys[u].w /\ Queues[<<"r", u>>] = ttys[u].r
  BY QueuesFacts
<1>n. n \in QueueName /\ Main \in QueueName /\ n # Main
  BY Names
<1>1. Separate(running, Queues) /\ Proc \subseteq Members(Queues) \union {running}
      /\ SwitchToNext(Queues[Main])
  BY <1>q DEF Placed
<1> HIDE DEF n
<1>2. /\ R \in Family(QueueName) /\ Separate(running', R)
      /\ Members(Queues) \union {running} \subseteq Members(R) \union {running'}
      /\ R[n] = Append(Queues[n], running) /\ R[Main] = main_queue'
      /\ \A i \in QueueName : i # n /\ i # Main => R[i] = Queues[i]
  BY <1>1, <1>n, <1>q, Block
<1> HIDE DEF R
<1>3. ASSUME NEW u \in Tty
      PROVE  /\ R[<<"owner", u>>] = Owner(ttys'[u])
             /\ R[<<"w", u>>] = ttys'[u].w /\ R[<<"r", u>>] = ttys'[u].r
  <2>1. /\ <<"owner", u>> \in QueueName /\ <<"owner", u>> # Main
        /\ <<"w", u>> \in QueueName /\ <<"w", u>> # Main
        /\ <<"r", u>> \in QueueName /\ <<"r", u>> # Main
    BY Names
  <2>2. /\ <<"owner", u>> = n <=> k = "owner" /\ u = t
        /\ <<"w", u>> = n <=> k = "w" /\ u = t
        /\ <<"r", u>> = n <=> k = "r" /\ u = t
    BY DEF n
  <2> QED BY <1>2, <1>q, <2>1, <2>2
<1>4. Queues' = R
  BY <1>2, <1>3, QueuesNext
<1> QED BY <1>1, <1>2, <1>4 DEF Placed

\* The clock interrupts the running process.
LEMMA TickPlaced ==
  ASSUME TypeOK, TypeOK', Placed, SwitchToNext(schedule_process(main_queue, running)), ttys' = ttys
  PROVE  Placed'
<1> DEFINE R == Became(Queues, Main, main_queue')
<1>q. /\ Queues \in Family(QueueName) /\ Queues[Main] = main_queue
      /\ \A u \in Tty : /\ Queues[<<"owner", u>>] = Owner(ttys[u])
                        /\ Queues[<<"w", u>>] = ttys[u].w /\ Queues[<<"r", u>>] = ttys[u].r
  BY QueuesFacts
<1>1. /\ Separate(running, Queues) /\ Proc \subseteq Members(Queues) \union {running}
      /\ SwitchToNext(schedule_process(Queues[Main], running))
      /\ running \in Proc \union {Idle} /\ Main \in QueueName
  BY <1>q, Names DEF Placed, TypeOK
<1>2. /\ R \in Family(QueueName) /\ Separate(running', R)
      /\ (Members(Queues) \union {running}) \intersect Proc \subseteq Members(R) \union {running'}
      /\ R[Main] = main_queue' /\ \A i \in QueueName : i # Main => R[i] = Queues[i]
  BY <1>1, <1>q, Rotate
<1> HIDE DEF R
<1>3. \A u \in Tty : /\ R[<<"owner", u>>] = Owner(ttys'[u])
                     /\ R[<<"w", u>>] = ttys'[u].w /\ R[<<"r", u>>] = ttys'[u].r
  BY <1>2, <1>q, Names
<1>4. Queues' = R
  BY <1>2, <1>3, QueuesNext
<1> QED BY <1>1, <1>2, <1>4 DEF Placed

\* The owner of a terminal has sent its text, is made ready, and nobody or the
\* first writer that waits becomes the owner.
LEMMA HandPlaced ==
  ASSUME TypeOK, TypeOK', Placed, NEW t \in Tty, ttys[t].tx_owner # None,
         running' = running, main_queue' = Append(main_queue, ttys[t].tx_owner),
         \/ ttys'[t].tx_owner = None /\ ttys'[t].w = ttys[t].w
         \/ /\ ttys[t].w # <<>> /\ ttys'[t].tx_owner = Head(ttys[t].w)
            /\ ttys'[t].w = Tail(ttys[t].w),
         ttys'[t].r = ttys[t].r, \A u \in Tty : u # t => ttys'[u] = ttys[u]
  PROVE  Placed'
<1> DEFINE o == <<"owner", t>>
           v == <<"w", t>>
           P == HeadMoved(Queues, o, Main)
<1>q. /\ Queues \in Family(QueueName) /\ Queues[Main] = main_queue
      /\ \A u \in Tty : /\ Queues[<<"owner", u>>] = Owner(ttys[u])
                        /\ Queues[<<"w", u>>] = ttys[u].w /\ Queues[<<"r", u>>] = ttys[u].r
  BY QueuesFacts
<1>n. /\ o \in QueueName /\ v \in QueueName /\ Main \in QueueName /\ o # Main /\ v # Main /\ o # v
      /\ \A u \in Tty : /\ <<"owner", u>> \in QueueName /\ <<"owner", u>> # Main
                        /\ <<"w", u>> \in QueueName /\ <<"w", u>> # Main
                        /\ <<"r", u>> \in QueueName /\ <<"r", u>> # Main
                        /\ <<"owner", u>> # v /\ <<"w", u>> # o /\ <<"r", u>> # v /\ <<"r", u>> # o
                        /\ u # t => <<"owner", u>> # o /\ <<"w", u>> # v
  BY Names
<1>o. /\ ttys[t] \in Terminal /\ ttys'[t] \in Terminal
      /\ Queues[o] = <<ttys[t].tx_owner>> /\ Queues[o] # <<>> /\ Head(Queues[o]) = ttys[t].tx_owner
      /\ Tail(Queues[o]) = <<>>
  <2>1. ttys[t] \in Terminal /\ ttys'[t] \in Terminal
    BY DEF TypeOK
  <2>2. Queues[o] = <<ttys[t].tx_owner>>
    BY <1>q, <2>1, OwnerFacts
  <2> QED BY <2>1, <2>2
<1>1. Separate(running, Queues) /\ Proc \subseteq Members(Queues) \union {running}
  BY DEF Placed
<1>v. Queues[v] = ttys[t].w
  BY <1>q
<1> HIDE DEF o, v
<1>2. /\ P \in Family(QueueName) /\ Separate(running, P) /\ Members(P) = Members(Queues)
      /\ P[o] = <<>> /\ P[Main] = main_queue' /\ \A i \in QueueName : i # o /\ i # Main => P[i] = Queues[i]
  <2>1. /\ Queues \in Family(QueueName) /\ Separate(running, Queues) /\ Queues[o] # <<>>
        /\ o \in QueueName /\ Main \in QueueName /\ o # Main
    BY <1>1, <1>n, <1>o, <1>q
  <2>2. /\ P \in Family(QueueName) /\ Separate(running, P) /\ Members(P) = Members(Queues)
        /\ P[o] = Tail(Queues[o]) /\ P[Main] = Append(Queues[Main], Head(Queues[o]))
        /\ \A i \in QueueName : i # o /\ i # Main => P[i] = Queues[i]
    BY <2>1, MoveHead
  <2> HIDE DEF P
  <2> QED BY <1>o, <1>q, <2>2
<1> HIDE DEF P
<1>3. CASE ttys'[t].tx_owner = None /\ ttys'[t].w = ttys[t].w
  <2>1. Owner(ttys'[t]) = <<>>
    BY <1>3 DEF Owner
  <2>2. ASSUME NEW u \in Tty
        PROVE  /\ P[<<"owner", u>>] = Owner(ttys'[u])
               /\ P[<<"w", u>>] = ttys'[u].w /\ P[<<"r", u>>] = ttys'[u].r
    <3>1. CASE u = t
      BY <1>2, <1>3, <1>n, <1>q, <2>1, <3>1 DEF o
    <3>2. CASE u # t
      BY <1>2, <1>n, <1>q, <3>2
    <3> QED BY <3>1, <3>2
  <2>3. Queues' = P
    BY <1>2, <2>2, QueuesNext
  <2> QED BY <1>1, <1>2, <2>3 DEF Placed
<1>4. CASE /\ ttys[t].w # <<>> /\ ttys'[t].tx_owner = Head(ttys[t].w)
           /\ ttys'[t].w = Tail(ttys[t].w)
  <2> DEFINE R == HeadMoved(P, v, o)
  <2>0. P[v] = ttys[t].w /\ P[v] # <<>>
    BY <1>2, <1>4, <1>n, <1>v
  <2>1. /\ R \in Family(QueueName) /\ Separate(running, R) /\ Members(R) = Members(P)
        /\ R[v] = Tail(P[v]) /\ R[o] = Append(P[o], Head(P[v]))
        /\ \A i \in QueueName : i # v /\ i # o => R[i] = P[i]
    BY <1>2, <1>n, <2>0, MoveHead
  <2> HIDE DEF R
  <2>2. R[o] = Owner(ttys'[t]) /\ R[v] = ttys'[t].w
    <3>1. ttys'[t].tx_owner # None
      <4>1. ttys[t].w \in Seq(Proc)
        BY <1>o, Fields
      <4>2. Head(ttys[t].w) \in Proc
        BY <1>4, <4>1, TailFacts
      <4> QED BY <1>4, <4>2, TtyAssumption
    <3>2. Owner(ttys'[t]) = Append(<<>>, ttys'[t].tx_owner)
      BY <1>o, <3>1, OwnerFacts
    <3> QED BY <1>2, <1>4, <2>0, <2>1, <3>2
  <2>3. ASSUME NEW u \in Tty
        PROVE  /\ R[<<"owner", u>>] = Owner(ttys'[u])
               /\ R[<<"w", u>>] = ttys'[u].w /\ R[<<"r", u>>] = ttys'[u].r
    <3>1. CASE u = t
      <4>1. R[<<"r", t>>] = ttys'[t].r
        BY <1>2, <1>n, <1>q, <2>1
      <4> QED BY <2>2, <3>1, <4>1 DEF o, v
    <3>2. CASE u # t
      BY <1>2, <1>n, <1>q, <2>1, <3>2
    <3> QED BY <3>1, <3>2
  <2>4. R[Main] = main_queue'
    BY <1>2, <1>n, <2>1
  <2>5. Queues' = R
    BY <2>1, <2>3, <2>4, QueuesNext
  <2> QED BY <1>1, <1>2, <2>1, <2>5 DEF Placed
<1> QED BY <1>3, <1>4

\* A line wakes the first reader.
LEMMA WakePlaced ==
  ASSUME TypeOK, TypeOK', Placed, NEW t \in Tty, ttys[t].r # <<>>,
         running' = running, main_queue' = Append(main_queue, Head(ttys[t].r)),
         ttys'[t].r = Tail(ttys[t].r),
         \A u \in Tty : /\ Owner(ttys'[u]) = Owner(ttys[u]) /\ ttys'[u].w = ttys[u].w
                        /\ u # t => ttys'[u].r = ttys[u].r
  PROVE  Placed'
<1> DEFINE n == <<"r", t>>
           R == HeadMoved(Queues, n, Main)
<1>q. /\ Queues \in Family(QueueName) /\ Queues[Main] = main_queue
      /\ \A u \in Tty : /\ Queues[<<"owner", u>>] = Owner(ttys[u])
                        /\ Queues[<<"w", u>>] = ttys[u].w /\ Queues[<<"r", u>>] = ttys[u].r
  BY QueuesFacts
<1>n. /\ n \in QueueName /\ Main \in QueueName /\ n # Main
      /\ \A u \in Tty : /\ <<"owner", u>> \in QueueName /\ <<"owner", u>> # Main
                        /\ <<"w", u>> \in QueueName /\ <<"w", u>> # Main
                        /\ <<"r", u>> \in QueueName /\ <<"r", u>> # Main
                        /\ <<"owner", u>> # n /\ <<"w", u>> # n
                        /\ u # t => <<"r", u>> # n
  BY Names
<1>1. Separate(running, Queues) /\ Proc \subseteq Members(Queues) \union {running}
  BY DEF Placed
<1>r. Queues[n] = ttys[t].r
  BY <1>q
<1> HIDE DEF n
<1>2. /\ R \in Family(QueueName) /\ Separate(running, R) /\ Members(R) = Members(Queues)
      /\ R[n] = Tail(ttys[t].r) /\ R[Main] = main_queue'
      /\ \A i \in QueueName : i # n /\ i # Main => R[i] = Queues[i]
  BY <1>1, <1>n, <1>q, <1>r, MoveHead
<1> HIDE DEF R
<1>3. ASSUME NEW u \in Tty
      PROVE  /\ R[<<"owner", u>>] = Owner(ttys'[u])
             /\ R[<<"w", u>>] = ttys'[u].w /\ R[<<"r", u>>] = ttys'[u].r
  <2>1. CASE u = t
    BY <1>2, <1>n, <1>q, <2>1 DEF n
  <2>2. CASE u # t
    BY <1>2, <1>n, <1>q, <2>2
  <2> QED BY <2>1, <2>2
<1>4. Queues' = R
  BY <1>2, <1>3, QueuesNext
<1> QED BY <1>1, <1>2, <1>4 DEF Placed
-----------------------------------------------------------------------------
(* Writing *)

\* The last call of a process.
LEMMA CallOfLast ==
  ASSUME NEW cs \in Seq(Call), NEW c \in DOMAIN cs, NEW p, cs[c].proc = p,
         \A k \in DOMAIN cs : k > c => cs[k].proc # p
  PROVE  CallOf(p, cs) = c
<1> DEFINE P(x) == cs[x].proc = p /\ \A d \in DOMAIN cs : cs[d].proc = p => d <= x
<1>1. DOMAIN cs = 1..Len(cs) /\ Len(cs) \in Nat
  OBVIOUS
<1>2. P(c)
  BY <1>1
<1>3. \A x \in DOMAIN cs : P(x) => x = c
  BY <1>1, <1>2
<1>4. CallOf(p, cs) = CHOOSE x \in DOMAIN cs : P(x)
  BY DEF CallOf
<1> HIDE DEF P
<1> QED BY <1>2, <1>3, <1>4

\* The places of a sequence that grew.
LEMMA AppendPlaces ==
  ASSUME NEW S, NEW s \in Seq(S), NEW x \in S
  PROVE  /\ Append(s, x) \in Seq(S) /\ Len(Append(s, x)) = Len(s) + 1 /\ Len(s) \in Nat
         /\ DOMAIN Append(s, x) = 1..(Len(s) + 1) /\ Append(s, x)[Len(s) + 1] = x
         /\ \A i \in 1..Len(s) : Append(s, x)[i] = s[i]
OBVIOUS

LEMMA LastConcat ==
  ASSUME NEW S, NEW s \in Seq(S), NEW t \in Seq(S), t # <<>>
  PROVE  s \o t # <<>> /\ Last(s \o t) = Last(t) /\ Last(t) \in Range(t)
<1>1. /\ Len(s \o t) = Len(s) + Len(t) /\ Len(s) \in Nat /\ Len(t) \in Nat \ {0}
      /\ DOMAIN t = 1..Len(t)
      /\ \A i \in 1..Len(t) : (s \o t)[Len(s) + i] = t[i]
  OBVIOUS
<1>2. Len(t) \in 1..Len(t) /\ Len(s \o t) # 0
  BY <1>1
<1> QED BY <1>1, <1>2 DEF Last, Range

\* A chunk appears on the screen.
LEMMA ScreenFacts ==
  ASSUME NEW scr \in Seq(Shape), NEW c \in Nat, NEW off \in Nat, NEW k \in Nat \ {0}
  PROVE  LET new == scr \o [i \in 1..k |-> <<c, off + i>>]
         IN
         /\ new \in Seq(Shape) /\ Range(scr) \subseteq Range(new)
         /\ Shown(new) = <<c, off + k>> /\ <<c, off + k>> \in Range(new)
<1> DEFINE part == [i \in 1..k |-> <<c, off + i>>]
<1>1. part \in [1..k -> Shape] /\ part[k] = <<c, off + k>> /\ k \in 1..k
  BY DEF Shape
<1>2. part \in Seq(Shape) /\ Len(part) = k
  BY <1>1, FunctionIsSeq
<1>3. part # <<>> /\ Last(part) = <<c, off + k>>
  BY <1>1, <1>2 DEF Last
<1> HIDE DEF part
<1>4. scr \o part \in Seq(Shape) /\ Range(scr \o part) = Range(scr) \union Range(part)
  BY <1>2, ConcatFacts
<1>5. scr \o part # <<>> /\ Last(scr \o part) = Last(part) /\ Last(part) \in Range(part)
  BY <1>2, <1>3, LastConcat
<1> QED BY <1>3, <1>4, <1>5 DEF Shown, part

\* The processes with a write at a terminal.
Writers(o) == Range(o.w) \union (IF o.tx_owner = None THEN {} ELSE {o.tx_owner})

LEMMA WritersFacts ==
  ASSUME NEW o \in Terminal
  PROVE  /\ DOMAIN o.w = 1..Len(o.w) /\ Len(o.w) \in Nat
         /\ \A i \in 1..Len(o.w) : o.w[i] \in Writers(o) /\ o.w[i] \in Range(o.w) /\ o.w[i] \in Proc
         /\ o.tx_owner # None => o.tx_owner \in Writers(o) /\ o.tx_owner \in Proc
<1>1. o.w \in Seq(Proc) /\ o.tx_owner \in Proc \union {None}
  BY Fields
<1>2. DOMAIN o.w = 1..Len(o.w) /\ Len(o.w) \in Nat /\ \A i \in 1..Len(o.w) : o.w[i] \in Proc
  BY <1>1
<1> QED BY <1>1, <1>2 DEF Writers, Range

\* A step that changes nothing of a terminal's writing, nor of its writers.
LEMMA SendSame ==
  ASSUME NEW o \in Terminal, NEW e \in Terminal, NEW f, NEW g, NEW cs, NEW dev, NEW scr,
         NEW d \in Nat, Sending(o, f, cs, dev, scr, d),
         e.tx_owner = o.tx_owner, e.tx_last_chunk = o.tx_last_chunk, e.w = o.w,
         \A p \in Writers(o) : g[p].total = f[p].total /\ g[p].sent = f[p].sent
  PROVE  Sending(e, g, cs, dev, scr, d)
<1>1. \A i \in 1..Len(o.w) : g[o.w[i]].total = f[o.w[i]].total /\ g[o.w[i]].sent = f[o.w[i]].sent
  BY WritersFacts
<1>2. CASE o.tx_owner = None
  <2>1. e.tx_owner = None
    BY <1>2
  <2> QED BY <1>2, <2>1 DEF Sending
<1>3. CASE o.tx_owner # None
  <2>1. /\ g[o.tx_owner].total = f[o.tx_owner].total
        /\ g[o.tx_owner].sent = f[o.tx_owner].sent
    BY <1>3, WritersFacts
  <2>2. \A i \in 1..Len(e.w) : /\ cs[d + 1 + i] = [proc |-> e.w[i], len |-> g[e.w[i]].total]
                                /\ g[e.w[i]].sent = 0
    <3> TAKE i \in 1..Len(e.w)
    <3>1. i \in 1..Len(o.w) /\ e.w[i] = o.w[i]
      OBVIOUS
    <3>2. cs[d + 1 + i] = [proc |-> o.w[i], len |-> f[o.w[i]].total] /\ f[o.w[i]].sent = 0
      BY <1>3, <3>1 DEF Sending
    <3> QED BY <1>1, <3>1, <3>2
  <2>3. e.tx_owner # None
    BY <1>3
  <2> QED BY <1>3, <2>1, <2>2, <2>3 DEF Sending
<1> QED BY <1>2, <1>3

\* A write to a terminal without an owner.
LEMMA SendFirst ==
  ASSUME NEW o \in Terminal, NEW e \in Terminal, NEW f, NEW g,
         NEW cs \in Seq(Call), NEW dev, NEW scr, NEW d \in Nat, Sending(o, f, cs, dev, scr, d),
         NEW p \in Proc, NEW n \in Nat \ {0}, o.tx_owner = None,
         g[p].total = n, g[p].sent = 0,
         e.tx_owner = p, e.w = o.w, e.tx_last_chunk = Smaller(n, TERMINAL_MAX_LINE)
  PROVE  LET cs2 == Append(cs, [proc |-> p, len |-> n])
         IN  Sending(e, g, cs2, [call |-> CallOf(p, cs2), off |-> 0, len |-> e.tx_last_chunk], scr, d)
<1> DEFINE x == [proc |-> p, len |-> n]
           cs2 == Append(cs, x)
<1>1. o.w = <<>> /\ Len(cs) = d /\ p # None /\ Len(e.w) = 0
  BY TtyAssumption DEF Sending
<1>2. x \in Call /\ x.proc = p /\ x.len = n
  BY DEF Call
<1> HIDE DEF x
<1>3. /\ cs2 \in Seq(Call) /\ Len(cs2) = d + 1 /\ cs2[d + 1] = x /\ DOMAIN cs2 = 1..(d + 1)
      /\ \A c \in 1..d : cs2[c] = cs[c]
  BY <1>1, <1>2
<1> HIDE DEF cs2
<1>4. CallOf(p, cs2) = d + 1
  <2>1. d + 1 \in DOMAIN cs2 /\ cs2[d + 1].proc = p /\ \A k \in DOMAIN cs2 : ~(k > d + 1)
    BY <1>2, <1>3
  <2> QED BY <1>3, <2>1, CallOfLast
<1>5. \A c \in 1..d : <<c, cs2[c].len>> \in Range(scr)
  BY <1>3 DEF Sending
<1>6. Shown(scr) = IF d = 0 THEN <<0, 0>> ELSE <<d, cs2[d].len>>
  <2>1. d # 0 => d \in 1..d
    OBVIOUS
  <2> QED BY <1>3, <2>1 DEF Sending
<1>7. \A i \in 1..Len(e.w) : FALSE
  BY <1>1
<1>8. Smaller(g[p].total - g[p].sent, TERMINAL_MAX_LINE) = e.tx_last_chunk
  <2>1. g[p].total - g[p].sent = n
    OBVIOUS
  <2> QED BY <2>1
<1>9. Sending(e, g, cs2, [call |-> d + 1, off |-> 0, len |-> e.tx_last_chunk], scr, d)
  BY <1>1, <1>2, <1>3, <1>5, <1>6, <1>7, <1>8 DEF Sending, x
<1> QED BY <1>4, <1>9 DEF cs2, x

\* A write to a terminal that another process owns.
LEMMA SendQueued ==
  ASSUME NEW o \in Terminal, NEW e \in Terminal, NEW f, NEW g,
         NEW cs \in Seq(Call), NEW dev, NEW scr, NEW d \in Nat, Sending(o, f, cs, dev, scr, d),
         NEW p \in Proc, NEW n \in Nat \ {0}, o.tx_owner # None, p \notin Writers(o),
         g[p].total = n, g[p].sent = 0,
         \A q \in Writers(o) : g[q].total = f[q].total /\ g[q].sent = f[q].sent,
         e.tx_owner = o.tx_owner, e.w = Append(o.w, p), e.tx_last_chunk = o.tx_last_chunk
  PROVE  Sending(e, g, Append(cs, [proc |-> p, len |-> n]), dev, scr, d)
<1> DEFINE x == [proc |-> p, len |-> n]
           cs2 == Append(cs, x)
           m == Len(o.w)
<1>w. o.w \in Seq(Proc) /\ m \in Nat
  BY Fields
<1>1. Sending(o, g, cs, dev, scr, d)
  BY SendSame
<1>2. x \in Call /\ x.proc = p /\ x.len = n
  BY DEF Call
<1> HIDE DEF x
<1>3. Len(cs) = d + 1 + m
  BY DEF Sending
<1>4. /\ cs2 \in Seq(Call) /\ Len(cs2) = d + 1 + (m + 1) /\ cs2[d + 1 + (m + 1)] = x
      /\ \A c \in 1..(d + 1 + m) : cs2[c] = cs[c]
  <2>1. /\ cs2 \in Seq(Call) /\ Len(cs2) = Len(cs) + 1 /\ cs2[Len(cs) + 1] = x
        /\ \A c \in 1..Len(cs) : cs2[c] = cs[c]
    BY <1>2, AppendPlaces
  <2>2. d + 1 + m + 1 = d + 1 + (m + 1)
    <3> HIDE DEF m
    <3> QED BY <1>w
  <2> QED BY <1>3, <2>1, <2>2
<1>5. Len(e.w) = m + 1 /\ e.w[m + 1] = p /\ \A i \in 1..m : e.w[i] = o.w[i]
  BY <1>w
<1> HIDE DEF cs2, m
<1>6. ASSUME NEW i \in 1..Len(e.w)
      PROVE  /\ cs2[d + 1 + i] = [proc |-> e.w[i], len |-> g[e.w[i]].total]
             /\ g[e.w[i]].sent = 0
  <2>1. CASE i = m + 1
    BY <1>4, <1>5, <2>1 DEF x
  <2>2. CASE i \in 1..m
    <3>1. d + 1 + i \in 1..(d + 1 + m)
      BY <1>w, <2>2
    <3>2. cs2[d + 1 + i] = cs[d + 1 + i] /\ e.w[i] = o.w[i]
      BY <1>4, <1>5, <2>2, <3>1
    <3>3. /\ cs[d + 1 + i] = [proc |-> o.w[i], len |-> g[o.w[i]].total]
          /\ g[o.w[i]].sent = 0
      BY <1>1, <2>2 DEF Sending, m
    <3> QED BY <3>2, <3>3
  <2> QED BY <1>5, <1>w, <2>1, <2>2
<1>7. /\ d + 1 \in 1..(d + 1 + m) /\ \A c \in 1..d : c \in 1..(d + 1 + m)
      /\ d # 0 => d \in 1..(d + 1 + m)
  BY <1>w
<1>8. cs2[d + 1] = cs[d + 1] /\ (\A c \in 1..d : cs2[c] = cs[c]) /\ (d # 0 => cs2[d] = cs[d])
  BY <1>4, <1>7
<1>9. Len(cs2) = d + 1 + Len(e.w)
  BY <1>4, <1>5
<1>10. Sending(e, g, cs2, dev, scr, d)
  BY <1>1, <1>6, <1>8, <1>9 DEF Sending
<1> QED BY <1>10 DEF cs2, x

\* The screen after the device has sent its chunk.
Displayed(scr, dev) == scr \o [i \in 1..dev.len |-> <<dev.call, dev.off + i>>]

\* An index beyond a.
LEMMA IndexAfter ==
  ASSUME NEW a \in Nat, NEW m \in Nat, NEW c \in 1..(a + m), c > a
  PROVE  \E i \in 1..m : a + i = c
<1>1. c - a \in 1..m /\ a + (c - a) = c
  OBVIOUS
<1> QED BY <1>1

\* What the device of a terminal with an owner is sending, and the screen when
\* it has sent it.
Chunked(o, f, dev, scr, d) ==
  LET p == o.tx_owner
      k == o.tx_last_chunk
      scr2 == Displayed(scr, dev)
  IN  /\ p \in Proc /\ f[p].sent \in Nat /\ f[p].total \in Nat
      /\ dev.call = d + 1 /\ dev.off = f[p].sent /\ dev.len = k
      /\ k \in Nat \ {0} /\ k <= TERMINAL_MAX_LINE /\ f[p].sent + k <= f[p].total
      /\ scr2 \in Seq(Shape) /\ Range(scr) \subseteq Range(scr2)
      /\ Shown(scr2) = <<d + 1, f[p].sent + k>> /\ <<d + 1, f[p].sent + k>> \in Range(scr2)

LEMMA ChunkFacts ==
  ASSUME NEW o \in Terminal, NEW f \in [Proc -> Request], NEW cs, NEW dev, NEW scr \in Seq(Shape),
         NEW d \in Nat, Sending(o, f, cs, dev, scr, d), o.tx_owner # None
  PROVE  Chunked(o, f, dev, scr, d)
<1> DEFINE p == o.tx_owner
           k == o.tx_last_chunk
<1>1. /\ p \in Proc /\ f[p] \in Request /\ f[p].sent \in Nat /\ f[p].total \in Nat /\ k \in Nat
      /\ k <= TERMINAL_MAX_LINE
  BY Fields
<1>2. /\ f[p].sent < f[p].total
      /\ k = Smaller(f[p].total - f[p].sent, TERMINAL_MAX_LINE)
      /\ dev = [call |-> d + 1, off |-> f[p].sent, len |-> k]
  BY DEF Sending
<1>3. TERMINAL_MAX_LINE \in Nat \ {0}
  BY TtyAssumption
<1> HIDE DEF p, k
<1>4. k # 0 /\ f[p].sent + k <= f[p].total
  BY <1>1, <1>2, <1>3 DEF Smaller
<1>5. dev.call = d + 1 /\ dev.off = f[p].sent /\ dev.len = k
  BY <1>2
<1> DEFINE scr2 == scr \o [i \in 1..k |-> <<d + 1, f[p].sent + i>>]
<1>6. /\ scr2 \in Seq(Shape) /\ Range(scr) \subseteq Range(scr2)
      /\ Shown(scr2) = <<d + 1, f[p].sent + k>> /\ <<d + 1, f[p].sent + k>> \in Range(scr2)
  <2>1. d + 1 \in Nat /\ k \in Nat \ {0}
    BY <1>1, <1>4
  <2> QED BY <1>1, <2>1, ScreenFacts
<1>7. scr2 = Displayed(scr, dev)
  BY <1>5 DEF Displayed
<1> HIDE DEF scr2
<1> QED BY <1>1, <1>4, <1>5, <1>6, <1>7 DEF p, k, Chunked

\* A chunk was sent, and the owner has more.
LEMMA SendMore ==
  ASSUME NEW o \in Terminal, NEW e \in Terminal, NEW f \in [Proc -> Request], NEW g,
         NEW cs \in Seq(Call), NEW dev, NEW scr \in Seq(Shape), NEW d \in Nat,
         Sending(o, f, cs, dev, scr, d), o.tx_owner # None, o.tx_owner \notin Range(o.w),
         g[o.tx_owner].total = f[o.tx_owner].total,
         g[o.tx_owner].sent = f[o.tx_owner].sent + o.tx_last_chunk,
         g[o.tx_owner].sent < g[o.tx_owner].total,
         \A q \in Range(o.w) : g[q] = f[q],
         e.tx_owner = o.tx_owner, e.w = o.w,
         e.tx_last_chunk = Smaller(g[o.tx_owner].total - g[o.tx_owner].sent, TERMINAL_MAX_LINE)
  PROVE  Sending(e, g, cs,
                 [call |-> CallOf(o.tx_owner, cs), off |-> g[o.tx_owner].sent, len |-> e.tx_last_chunk],
                 Displayed(scr, dev), d)
<1> DEFINE p == o.tx_owner
           k == o.tx_last_chunk
           scr2 == Displayed(scr, dev)
<1>1. /\ p \in Proc /\ f[p].sent \in Nat /\ f[p].total \in Nat /\ k \in Nat \ {0}
      /\ Range(scr) \subseteq Range(scr2) /\ Shown(scr2) = <<d + 1, f[p].sent + k>>
  <2>1. Chunked(o, f, dev, scr, d)
    BY ChunkFacts
  <2> QED BY <2>1 DEF Chunked
<1>2. /\ Len(cs) = d + 1 + Len(o.w) /\ cs[d + 1] = [proc |-> p, len |-> f[p].total]
      /\ \A i \in 1..Len(o.w) : /\ cs[d + 1 + i] = [proc |-> o.w[i], len |-> f[o.w[i]].total]
                                /\ f[o.w[i]].sent = 0
      /\ \A c \in 1..d : <<c, cs[c].len>> \in Range(scr)
  BY DEF Sending
<1> HIDE DEF scr2
<1>w. Len(o.w) \in Nat /\ \A i \in 1..Len(o.w) : o.w[i] \in Range(o.w)
  BY WritersFacts
<1>3. CallOf(p, cs) = d + 1
  <2>1. DOMAIN cs = 1..(d + 1 + Len(o.w))
    BY <1>2
  <2>2. d + 1 \in DOMAIN cs /\ cs[d + 1].proc = p
    BY <1>2, <1>w, <2>1
  <2>3. ASSUME NEW c \in DOMAIN cs, c > d + 1 PROVE cs[c].proc # p
    <3>0. c \in 1..(d + 1 + Len(o.w))
      BY <2>1, Zenon
    <3>1. d + 1 \in Nat
      OBVIOUS
    <3>2. PICK i \in 1..Len(o.w) : d + 1 + i = c
      BY <1>w, <2>3, <3>0, <3>1, IndexAfter
    <3>3. cs[d + 1 + i] = [proc |-> o.w[i], len |-> f[o.w[i]].total]
      BY <1>2
    <3>4. cs[d + 1 + i].proc = o.w[i] /\ o.w[i] \in Range(o.w)
      BY <1>w, <3>3
    <3> QED BY <3>2, <3>4
  <2> QED BY <2>2, <2>3, CallOfLast
<1>4. ASSUME NEW i \in 1..Len(e.w)
      PROVE  cs[d + 1 + i] = [proc |-> e.w[i], len |-> g[e.w[i]].total] /\ g[e.w[i]].sent = 0
  <2>1. i \in 1..Len(o.w) /\ e.w[i] = o.w[i] /\ g[e.w[i]] = f[o.w[i]]
    BY <1>w
  <2> QED BY <1>2, <2>1
<1>5. g[p].sent > 0 /\ Shown(scr2) = <<d + 1, g[p].sent>>
  BY <1>1
<1>6. \A c \in 1..d : <<c, cs[c].len>> \in Range(scr2)
  BY <1>1, <1>2
<1>7. e.tx_owner = p /\ e.tx_owner # None /\ g[p].sent < g[p].total /\ cs[d + 1] = [proc |-> p, len |-> g[p].total]
      /\ Len(cs) = d + 1 + Len(e.w)
      /\ e.tx_last_chunk = Smaller(g[p].total - g[p].sent, TERMINAL_MAX_LINE)
  BY <1>2
<1> HIDE DEF p, k
<1>8. Sending(e, g, cs, [call |-> d + 1, off |-> g[p].sent, len |-> e.tx_last_chunk], scr2, d)
  BY <1>4, <1>5, <1>6, <1>7 DEF Sending
<1> QED BY <1>3, <1>8 DEF p, scr2

\* The last chunk was sent, and nobody or the first writer that waits becomes
\* the owner.
LEMMA SendDone ==
  ASSUME NEW o \in Terminal, NEW e \in Terminal, NEW f \in [Proc -> Request], NEW g,
         NEW cs \in Seq(Call), NEW dev, NEW scr \in Seq(Shape), NEW d \in Nat,
         Sending(o, f, cs, dev, scr, d), o.tx_owner # None,
         IsInjective(o.w), f[o.tx_owner].sent + o.tx_last_chunk >= f[o.tx_owner].total,
         \A q \in Range(o.w) : g[q] = f[q],
         NEW dev2,
         \/ o.w = <<>> /\ e.tx_owner = None /\ e.w = o.w
         \/ /\ o.w # <<>> /\ e.tx_owner = Head(o.w) /\ e.w = Tail(o.w)
            /\ e.tx_last_chunk = Smaller(g[Head(o.w)].total - g[Head(o.w)].sent, TERMINAL_MAX_LINE)
            /\ dev2 = [call |-> CallOf(Head(o.w), cs), off |-> g[Head(o.w)].sent, len |-> e.tx_last_chunk]
  PROVE  Sending(e, g, cs, dev2, Displayed(scr, dev), d + 1)
<1> DEFINE p == o.tx_owner
           k == o.tx_last_chunk
           scr2 == Displayed(scr, dev)
<1>1. /\ p \in Proc /\ f[p].sent \in Nat /\ f[p].total \in Nat /\ k \in Nat \ {0}
      /\ f[p].sent + k <= f[p].total
      /\ Range(scr) \subseteq Range(scr2) /\ Shown(scr2) = <<d + 1, f[p].sent + k>>
      /\ <<d + 1, f[p].sent + k>> \in Range(scr2)
  <2>1. Chunked(o, f, dev, scr, d)
    BY ChunkFacts
  <2> QED BY <2>1 DEF Chunked
<1>2. /\ Len(cs) = d + 1 + Len(o.w) /\ cs[d + 1] = [proc |-> p, len |-> f[p].total]
      /\ \A i \in 1..Len(o.w) : /\ cs[d + 1 + i] = [proc |-> o.w[i], len |-> f[o.w[i]].total]
                                /\ f[o.w[i]].sent = 0
      /\ \A c \in 1..d : <<c, cs[c].len>> \in Range(scr)
  BY DEF Sending
<1>3. f[p].sent + k = f[p].total /\ cs[d + 1].len = f[p].total
  <2>1. f[p].sent + k >= f[p].total
    OBVIOUS
  <2>2. cs[d + 1].len = f[p].total
    BY <1>2
  <2> HIDE DEF p, k, scr2
  <2>3. f[p].sent \in Nat /\ f[p].total \in Nat /\ k \in Nat /\ f[p].sent + k <= f[p].total
    BY <1>1
  <2> DEFINE a == f[p].sent + k
             b == f[p].total
  <2>4. a \in Nat /\ b \in Nat /\ a <= b /\ a >= b
    BY <2>1, <2>3
  <2> HIDE DEF a, b
  <2>5. a = b
    BY <2>4
  <2> QED BY <2>2, <2>5 DEF a, b
<1>w. /\ Len(o.w) \in Nat /\ o.w \in Seq(Proc)
      /\ \A i \in 1..Len(o.w) : o.w[i] \in Range(o.w) /\ o.w[i] \in Proc
  BY WritersFacts, Fields
<1> HIDE DEF scr2, p, k
<1>4. /\ \A c \in 1..(d + 1) : <<c, cs[c].len>> \in Range(scr2)
      /\ Shown(scr2) = <<d + 1, cs[d + 1].len>> /\ d + 1 # 0
  <2>1. Shown(scr2) = <<d + 1, cs[d + 1].len>> /\ <<d + 1, cs[d + 1].len>> \in Range(scr2)
    BY <1>1, <1>3
  <2>2. ASSUME NEW c \in 1..(d + 1) PROVE <<c, cs[c].len>> \in Range(scr2)
    <3>1. CASE c = d + 1
      BY <2>1, <3>1
    <3>2. CASE c \in 1..d
      BY <1>1, <1>2, <3>2
    <3> QED BY <3>1, <3>2
  <2>3. d + 1 # 0
    OBVIOUS
  <2> QED BY <2>1, <2>2, <2>3
<1>5. CASE o.w = <<>> /\ e.tx_owner = None /\ e.w = o.w
  <2>1. Len(cs) = d + 1
    BY <1>2, <1>5
  <2>2. Sending(e, g, cs, dev2, scr2, d + 1)
    BY <1>4, <1>5, <2>1 DEF Sending
  <2> QED BY <2>2 DEF scr2
<1>6. CASE /\ o.w # <<>> /\ e.tx_owner = Head(o.w) /\ e.w = Tail(o.w)
           /\ e.tx_last_chunk = Smaller(g[Head(o.w)].total - g[Head(o.w)].sent, TERMINAL_MAX_LINE)
           /\ dev2 = [call |-> CallOf(Head(o.w), cs), off |-> g[Head(o.w)].sent, len |-> e.tx_last_chunk]
  <2> DEFINE h == Head(o.w)
             m == Len(o.w) - 1
  <2>1. /\ h = o.w[1] /\ m \in Nat /\ Len(o.w) = m + 1 /\ Len(e.w) = m
        /\ \A i \in 1..m : e.w[i] = o.w[i + 1]
    BY <1>6, <1>w
  <2>2. h \in Proc /\ h \in Range(o.w) /\ h \notin Range(e.w)
    BY <1>6, <1>w, TailFacts
  <2>3. g[h] = f[h] /\ h # None
    BY <2>2, TtyAssumption
  <2>d. e.tx_owner = h /\ dev2 = [call |-> CallOf(h, cs), off |-> g[h].sent, len |-> e.tx_last_chunk]
        /\ e.tx_last_chunk = Smaller(g[h].total - g[h].sent, TERMINAL_MAX_LINE)
    BY <1>6
  <2> HIDE DEF h, m
  <2>n. \A i \in 1..m : /\ i + 1 \in 1..Len(o.w) /\ d + 1 + (i + 1) = d + 1 + 1 + i
                        /\ i + 1 # 1
    BY <2>1
  <2>4. cs[d + 1 + 1] = [proc |-> h, len |-> g[h].total] /\ g[h].sent = 0
    <3>1. 1 \in 1..Len(o.w)
      BY <2>1
    <3> QED BY <1>2, <2>1, <2>3, <3>1
  <2>5. ASSUME NEW i \in 1..Len(e.w)
        PROVE  cs[d + 1 + 1 + i] = [proc |-> e.w[i], len |-> g[e.w[i]].total] /\ g[e.w[i]].sent = 0
    <3>1. i \in 1..m
      BY <2>1
    <3>2. /\ i + 1 \in 1..Len(o.w) /\ d + 1 + (i + 1) = d + 1 + 1 + i /\ e.w[i] = o.w[i + 1]
      BY <2>1, <2>n, <3>1
    <3>3. o.w[i + 1] \in Range(o.w) /\ g[o.w[i + 1]] = f[o.w[i + 1]]
      BY <1>w, <3>2
    <3> DEFINE j == i + 1
    <3>4. j \in 1..Len(o.w) /\ d + 1 + j = d + 1 + 1 + i /\ e.w[i] = o.w[j] /\ g[e.w[i]] = f[o.w[j]]
      BY <3>2, <3>3
    <3> HIDE DEF j
    <3>5. cs[d + 1 + j] = [proc |-> o.w[j], len |-> f[o.w[j]].total] /\ f[o.w[j]].sent = 0
      BY <1>2, <3>4
    <3> QED BY <3>4, <3>5
  <2>6. Len(cs) = d + 1 + 1 + Len(e.w)
    BY <1>2, <2>1
  <2>7. CallOf(h, cs) = d + 1 + 1
    <3>1. DOMAIN cs = 1..(d + 1 + 1 + m) /\ d + 1 + 1 \in DOMAIN cs
      BY <2>1, <2>6
    <3>2. cs[d + 1 + 1].proc = h
      BY <2>4
    <3>3. ASSUME NEW c \in DOMAIN cs, c > d + 1 + 1 PROVE cs[c].proc # h
      <4>1. d + 1 + 1 \in Nat /\ Len(e.w) \in Nat /\ c \in 1..(d + 1 + 1 + Len(e.w)) /\ c > d + 1 + 1
        BY <2>1, <3>1, <3>3
      <4>2. PICK i \in 1..Len(e.w) : d + 1 + 1 + i = c
        BY <4>1, IndexAfter
      <4>3. cs[d + 1 + 1 + i] = [proc |-> e.w[i], len |-> g[e.w[i]].total]
        BY <2>5
      <4>4. cs[d + 1 + 1 + i].proc = e.w[i]
        BY <4>3
      <4>5. e.w[i] \in Range(e.w)
        BY WritersFacts
      <4> QED BY <2>2, <4>2, <4>4, <4>5
    <3> QED BY <3>1, <3>2, <3>3, CallOfLast
  <2>8. g[h].sent < g[h].total
    <3>1. cs[d + 1 + 1] \in Call
      BY <2>1, <2>6
    <3>2. g[h].total \in Nat \ {0}
      BY <2>4, <3>1 DEF Call
    <3> QED BY <2>4, <3>2
  <2>9. ~(e.tx_owner # None /\ g[e.tx_owner].sent > 0)
    BY <2>4, <2>d
  <2>10. Sending(e, g, cs, dev2, scr2, d + 1)
    BY <1>4, <2>3, <2>4, <2>5, <2>6, <2>7, <2>8, <2>9, <2>d DEF Sending
  <2> QED BY <2>10 DEF scr2
<1> QED BY <1>5, <1>6
-----------------------------------------------------------------------------
(* Reading *)

\* The lines rx are the bytes from number dl to number ty.
Left(rx, dl, ty) ==
  /\ rx = <<>> => dl = ty
  /\ rx # <<>> => /\ rx[1].first + rx[1].off = dl
                  /\ rx[Len(rx)].first + rx[Len(rx)].len = ty
  /\ \A i \in DOMAIN rx :
       /\ rx[i].off = 0 \/ rx[i].first + rx[i].off < rx[i].first + rx[i].len
       /\ i > 1 => rx[i].first + rx[i].off = rx[i - 1].first + rx[i - 1].len

LEMMA InputIsLeft ==
  InputInOrder <=> \A t \in Tty : Left(ttys[t].rx, delivered[t], typed[t].bytes)
BY DEF InputInOrder, Left

LEMMA InputNext ==
  ASSUME \A t \in Tty : Left(ttys'[t].rx, delivered'[t], typed'[t].bytes)
  PROVE  InputInOrder'
BY DEF InputInOrder, Left

\* A line arrives.
LEMMA LineArrives ==
  ASSUME NEW rx \in Seq(Line), NEW dl \in Nat, NEW ty \in Nat, Left(rx, dl, ty), NEW n \in Nat
  PROVE  LET line == [first |-> ty, len |-> n, off |-> 0]
         IN  /\ line \in Line /\ Append(rx, line) \in Seq(Line) /\ Len(Append(rx, line)) = Len(rx) + 1
             /\ Left(Append(rx, line), dl, ty + n)
<1> DEFINE line == [first |-> ty, len |-> n, off |-> 0]
           new == Append(rx, line)
           m == Len(rx)
<1>1. line \in Line /\ line.first = ty /\ line.len = n /\ line.off = 0
  BY DEF Line
<1> HIDE DEF line
<1>2. /\ new \in Seq(Line) /\ Len(new) = m + 1 /\ m \in Nat /\ DOMAIN new = 1..(m + 1)
      /\ new[m + 1] = line /\ \A i \in 1..m : new[i] = rx[i]
  BY <1>1, AppendPlaces
<1>3. DOMAIN rx = 1..m /\ (rx = <<>> <=> m = 0)
  OBVIOUS
<1> HIDE DEF new, m
<1>4. new # <<>> /\ new[Len(new)].first + new[Len(new)].len = ty + n
  <2>1. new # <<>>
    BY <1>2
  <2> QED BY <1>1, <1>2, <2>1
<1>5. new[1].first + new[1].off = dl
  <2>1. CASE m = 0
    <3>1. dl = ty /\ new[1] = line
      BY <1>2, <1>3, <2>1 DEF Left
    <3> QED BY <1>1, <3>1
  <2>2. CASE m # 0
    <3>1. 1 \in 1..m
      BY <1>2, <2>2
    <3> QED BY <1>2, <1>3, <2>2, <3>1 DEF Left
  <2> QED BY <2>1, <2>2
<1>6. ASSUME NEW i \in DOMAIN new
      PROVE  /\ new[i].off = 0 \/ new[i].first + new[i].off < new[i].first + new[i].len
             /\ i > 1 => new[i].first + new[i].off = new[i - 1].first + new[i - 1].len
  <2>1. CASE i \in 1..m
    <3>1. new[i] = rx[i] /\ (i > 1 => i - 1 \in 1..m /\ new[i - 1] = rx[i - 1])
      BY <1>2, <2>1
    <3> QED BY <1>3, <2>1, <3>1 DEF Left
  <2>2. CASE i = m + 1
    <3>1. new[i] = line
      BY <1>2, <2>2
    <3>2. new[i].off = 0 \/ new[i].first + new[i].off < new[i].first + new[i].len
      BY <1>1, <3>1
    <3>3. ASSUME i > 1 PROVE new[i].first + new[i].off = new[i - 1].first + new[i - 1].len
      <4>1. i - 1 = m /\ m \in 1..m /\ m # 0
        BY <1>2, <2>2, <3>3
      <4>2. rx[m].first + rx[m].len = ty
        BY <1>3, <4>1 DEF Left, m
      <4>3. new[i - 1] = rx[m]
        BY <1>2, <4>1
      <4> QED BY <1>1, <3>1, <4>2, <4>3
    <3> QED BY <3>2, <3>3
  <2> QED BY <1>2, <2>1, <2>2
<1>7. Left(new, dl, ty + n)
  BY <1>4, <1>5, <1>6 DEF Left
<1> QED BY <1>1, <1>2, <1>7 DEF line, new, m

\* What a reader that asks for len bytes takes of the lines rx, and the lines
\* it leaves.
Took(rx, len) == Smaller(Head(rx).len - Head(rx).off, len)
UsedUp(rx, len) == Head(rx).off + Took(rx, len) >= Head(rx).len
Rest(rx, len) ==
  IF UsedUp(rx, len) THEN Tail(rx) ELSE [rx EXCEPT ![1].off = @ + Took(rx, len)]

LEMMA LineRead ==
  ASSUME NEW rx \in Seq(Line), rx # <<>>, NEW dl \in Nat, NEW ty \in Nat, Left(rx, dl, ty),
         NEW len \in Nat
  PROVE  /\ Rest(rx, len) \in Seq(Line) /\ Took(rx, len) \in Nat
         /\ Len(Rest(rx, len)) = IF UsedUp(rx, len) THEN Len(rx) - 1 ELSE Len(rx)
         /\ Left(Rest(rx, len), dl + Took(rx, len), ty)
<1> DEFINE k == Took(rx, len)
           new == Rest(rx, len)
           m == Len(rx)
           h == rx[1]
<1>1. /\ m \in Nat \ {0} /\ DOMAIN rx = 1..m /\ Head(rx) = h /\ 1 \in 1..m
      /\ \A i \in 1..m : rx[i] \in Line
  OBVIOUS
<1>2. h.first \in Nat /\ h.len \in Nat /\ h.off \in Nat
  BY <1>1, Fields
<1>3. /\ h.first + h.off = dl /\ rx[m].first + rx[m].len = ty
      /\ \A i \in 1..m : /\ rx[i].off = 0 \/ rx[i].first + rx[i].off < rx[i].first + rx[i].len
                         /\ i > 1 => rx[i].first + rx[i].off = rx[i - 1].first + rx[i - 1].len
  BY <1>1 DEF Left
<1>4. h.off <= h.len
  <2>1. h.off = 0 \/ h.first + h.off < h.first + h.len
    BY <1>1, <1>3
  <2> HIDE DEF h
  <2> QED BY <1>2, <2>1
<1>5. /\ k \in Nat /\ k <= h.len - h.off
      /\ UsedUp(rx, len) <=> h.off + k >= h.len
      /\ UsedUp(rx, len) => h.off + k = h.len
      /\ ~UsedUp(rx, len) => h.off + k < h.len
  <2>1. k = Smaller(h.len - h.off, len) /\ (UsedUp(rx, len) <=> h.off + k >= h.len)
    BY <1>1 DEF Took, UsedUp
  <2>2. h.len - h.off \in Nat
    <3> HIDE DEF h
    <3> QED BY <1>2, <1>4
  <2> HIDE DEF h, k
  <2>3. k \in Nat /\ k <= h.len - h.off
    BY <2>1, <2>2, SmallerFacts
  <2> QED BY <1>2, <2>1, <2>3
<1>6. CASE UsedUp(rx, len)
  <2>1. new = Tail(rx)
    BY <1>6 DEF Rest
  <2>2. /\ new \in Seq(Line) /\ Len(new) = m - 1 /\ DOMAIN new = 1..(m - 1)
        /\ \A i \in 1..(m - 1) : new[i] = rx[i + 1]
    BY <2>1
  <2>e. new = <<>> <=> m = 1
    BY <1>1, <2>2
  <2> HIDE DEF new, m, h, k
  <2>3. new = <<>> => dl + k = ty
    <3>1. ASSUME m = 1 PROVE dl + k = ty
      <4>1. h.first + h.len = ty
        BY <1>3, <3>1 DEF h
      <4> QED BY <1>2, <1>3, <1>5, <1>6, <4>1, SMTT(30)
    <3> QED BY <2>e, <3>1
  <2>4. ASSUME new # <<>>
        PROVE  new[1].first + new[1].off = dl + k /\ new[Len(new)].first + new[Len(new)].len = ty
    <3>1. m # 1 /\ 2 \in 1..m /\ 1 \in 1..(m - 1) /\ m - 1 \in 1..(m - 1)
      BY <1>1, <2>4, <2>e
    <3>2. new[1] = rx[2] /\ new[m - 1] = rx[m]
      BY <1>1, <2>2, <3>1
    <3>3. rx[2].first + rx[2].off = rx[1].first + rx[1].len
      BY <1>3, <3>1
    <3>4. rx[2].first + rx[2].off = h.first + h.len
      BY <3>3 DEF h
    <3>5. h.first + h.len = dl + k
      <4>1. k \in Nat /\ h.off + k = h.len
        BY <1>5, <1>6
      <4>2. h.first + h.off = dl
        BY <1>3
      <4> QED BY <1>2, <4>1, <4>2, SMTT(30)
    <3> QED BY <1>3, <2>2, <3>2, <3>4, <3>5
  <2>5. ASSUME NEW i \in DOMAIN new
        PROVE  /\ new[i].off = 0 \/ new[i].first + new[i].off < new[i].first + new[i].len
               /\ i > 1 => new[i].first + new[i].off = new[i - 1].first + new[i - 1].len
    <3> DEFINE j == i + 1
    <3>1. j \in 1..m /\ new[i] = rx[j] /\ j > 1
      BY <1>1, <2>2
    <3>2. i > 1 => new[i - 1] = rx[j - 1]
      <4>1. i > 1 => i - 1 \in 1..(m - 1) /\ (i - 1) + 1 = j - 1
        BY <1>1, <2>2
      <4> HIDE DEF j
      <4> QED BY <2>2, <4>1
    <3> HIDE DEF j
    <3>3. /\ rx[j].off = 0 \/ rx[j].first + rx[j].off < rx[j].first + rx[j].len
          /\ rx[j].first + rx[j].off = rx[j - 1].first + rx[j - 1].len
      BY <1>3, <3>1
    <3> QED BY <3>1, <3>2, <3>3
  <2>6. Left(new, dl + k, ty)
    BY <2>3, <2>4, <2>5 DEF Left
  <2> QED BY <1>5, <1>6, <2>2, <2>6 DEF new, m, k
<1>7. CASE ~UsedUp(rx, len)
  <2> DEFINE x == [h EXCEPT !.off = @ + k]
  <2>1. x \in Line /\ x.first = h.first /\ x.len = h.len /\ x.off = h.off + k
    <3>1. h \in Line
      BY <1>1
    <3>2. k \in Nat
      BY <1>5
    <3> HIDE DEF h, k
    <3>3. h.off + k \in Nat
      BY <1>2, <3>2
    <3> DEFINE a == h.off + k
    <3>4. a \in Nat /\ x = [h EXCEPT !.off = a]
      BY <3>3
    <3> HIDE DEF x, a
    <3>5. x \in Line /\ x.first = h.first /\ x.len = h.len /\ x.off = a
      BY <3>1, <3>4 DEF Line
    <3> QED BY <3>5 DEF a
  <2>2. new = [rx EXCEPT ![1] = x]
    BY <1>7 DEF Rest
  <2> HIDE DEF x
  <2>3. /\ new \in Seq(Line) /\ Len(new) = m /\ DOMAIN new = 1..m /\ new[1] = x
        /\ \A i \in 1..m : i # 1 => new[i] = rx[i]
    BY <1>1, <2>1, <2>2
  <2>4. new # <<>>
    BY <1>1, <2>3
  <2> HIDE DEF new, m, h, k
  <2>5. new[1].first + new[1].off = dl + k
    <3>1. k \in Nat /\ h.first + h.off = dl
      BY <1>3, <1>5
    <3>2. new[1].first = h.first /\ new[1].off = h.off + k
      BY <2>1, <2>3
    <3> QED BY <1>2, <3>1, <3>2
  <2>6. \A i \in 1..m : new[i].first + new[i].len = rx[i].first + rx[i].len
    <3> TAKE i \in 1..m
    <3>1. CASE i = 1
      BY <2>1, <2>3, <3>1 DEF h
    <3>2. CASE i # 1
      BY <2>3, <3>2
    <3> QED BY <3>1, <3>2
  <2>7. m \in 1..m
    BY <1>1
  <2>8. new[Len(new)].first + new[Len(new)].len = ty
    BY <1>3, <2>3, <2>6, <2>7
  <2>9. ASSUME NEW i \in DOMAIN new
        PROVE  /\ new[i].off = 0 \/ new[i].first + new[i].off < new[i].first + new[i].len
               /\ i > 1 => new[i].first + new[i].off = new[i - 1].first + new[i - 1].len
    <3>1. CASE i = 1
      <4>1. x.first + x.off < x.first + x.len
        BY <1>2, <1>5, <1>7, <2>1
      <4> QED BY <2>3, <3>1, <4>1
    <3>2. CASE i # 1
      <4>1. i \in 1..m /\ i - 1 \in 1..m /\ i > 1 /\ new[i] = rx[i]
        BY <1>1, <2>3, <3>2
      <4>2. /\ rx[i].off = 0 \/ rx[i].first + rx[i].off < rx[i].first + rx[i].len
            /\ rx[i].first + rx[i].off = rx[i - 1].first + rx[i - 1].len
        BY <1>3, <4>1
      <4>3. new[i - 1].first + new[i - 1].len = rx[i - 1].first + rx[i - 1].len
        BY <2>6, <4>1
      <4> QED BY <4>1, <4>2, <4>3
    <3> QED BY <3>1, <3>2
  <2>10. Left(new, dl + k, ty)
    BY <2>4, <2>5, <2>8, <2>9 DEF Left
  <2> QED BY <1>5, <1>7, <2>3, <2>10 DEF new, m, k
<1> QED BY <1>6, <1>7
-----------------------------------------------------------------------------
(* Steps *)

\* A step that changes no read, no reader queue and no line.
LEMMA ReadsSame ==
  ASSUME TypeOK, Reading, Counted,
         \A p \in Proc : /\ inside'[p] = "read" <=> inside[p] = "read"
                         /\ inside[p] = "read" => io'[p].tty = io[p].tty,
         \A u \in Tty : ttys'[u].r = ttys[u].r /\ ttys'[u].rx = ttys[u].rx,
         taken' = taken, leftover' = leftover
  PROVE  Reading' /\ Counted'
<1>1. \A u \in Tty : \A p \in Range(ttys[u].r) : p \in Proc
  <2>1. \A u \in Tty : ttys[u].r \in Seq(Proc)
    BY Fields DEF TypeOK
  <2> QED BY <2>1 DEF Range
<1>2. Reading'
  BY <1>1 DEF Reading
<1>3. ASSUME NEW u \in Tty PROVE Woken(u)' = Woken(u)
  BY DEF Woken
<1>4. Counted'
  BY <1>3 DEF Counted
<1> QED BY <1>2, <1>4

\* A step that gives nobody input.
LEMMA InputSame ==
  ASSUME InputInOrder, \A u \in Tty : ttys'[u].rx = ttys[u].rx, delivered' = delivered, typed' = typed
  PROVE  InputInOrder'
<1>1. \A u \in Tty : Left(ttys'[u].rx, delivered'[u], typed'[u].bytes)
  BY InputIsLeft
<1> QED BY <1>1, InputNext

\* A step that changes nothing of the writing at any terminal.
LEMMA WritesSame ==
  ASSUME TypeOK, TypeOK', Writing,
         \A u \in Tty : /\ ttys'[u].tx_owner = ttys[u].tx_owner
                        /\ ttys'[u].tx_last_chunk = ttys[u].tx_last_chunk /\ ttys'[u].w = ttys[u].w,
         \A p \in Proc : io'[p].total = io[p].total /\ io'[p].sent = io[p].sent,
         UNCHANGED output
  PROVE  Writing'
<1> SUFFICES ASSUME NEW u \in Tty
             PROVE  \E d \in Nat : Sending(ttys'[u], io', calls'[u], device'[u], screen'[u], d)
  BY DEF Writing
<1>1. PICK d \in Nat : Sending(ttys[u], io, calls[u], device[u], screen[u], d)
  BY DEF Writing
<1>2. ttys[u] \in Terminal /\ ttys'[u] \in Terminal
  BY DEF TypeOK
<1>3. Writers(ttys[u]) \subseteq Proc
  <2>1. ttys[u].w \in Seq(Proc) /\ ttys[u].tx_owner \in Proc \union {None}
    BY <1>2, Fields
  <2> QED BY <2>1 DEF Writers, Range
<1>4. Sending(ttys'[u], io', calls[u], device[u], screen[u], d)
  BY <1>1, <1>2, <1>3, SendSame
<1> QED BY <1>4 DEF output

\* A terminal whose owner, whose writers, or whose lines and readers change.
Given(o, p, k) == [o EXCEPT !.tx_owner = p, !.tx_last_chunk = k]
Lined(o, q) == [o EXCEPT !.w = q]
Input(o, x, q) == [o EXCEPT !.rx = x, !.r = q]
Lines(o, x) == [o EXCEPT !.rx = x]
Readers(o, q) == [o EXCEPT !.r = q]

LEMMA GivenFacts ==
  ASSUME NEW o \in Terminal, NEW p \in Proc \union {None}, NEW k \in 0..TERMINAL_MAX_LINE
  PROVE  /\ Given(o, p, k) \in Terminal /\ Given(o, p, k).tx_owner = p
         /\ Given(o, p, k).tx_last_chunk = k /\ Given(o, p, k).w = o.w
         /\ Given(o, p, k).rx = o.rx /\ Given(o, p, k).r = o.r
BY DEF Terminal, Given

LEMMA LinedFacts ==
  ASSUME NEW o \in Terminal, NEW q \in Seq(Proc)
  PROVE  /\ Lined(o, q) \in Terminal /\ Lined(o, q).tx_owner = o.tx_owner
         /\ Lined(o, q).tx_last_chunk = o.tx_last_chunk /\ Lined(o, q).w = q
         /\ Lined(o, q).rx = o.rx /\ Lined(o, q).r = o.r
BY DEF Terminal, Lined

LEMMA InputFacts ==
  ASSUME NEW o \in Terminal, NEW x \in Seq(Line), NEW q \in Seq(Proc)
  PROVE  /\ Input(o, x, q) \in Terminal /\ Input(o, x, q).tx_owner = o.tx_owner
         /\ Input(o, x, q).tx_last_chunk = o.tx_last_chunk /\ Input(o, x, q).w = o.w
         /\ Input(o, x, q).rx = x /\ Input(o, x, q).r = q
BY DEF Terminal, Input

LEMMA LinesFacts ==
  ASSUME NEW o \in Terminal, NEW x \in Seq(Line)
  PROVE  /\ Lines(o, x) \in Terminal /\ Lines(o, x).tx_owner = o.tx_owner
         /\ Lines(o, x).tx_last_chunk = o.tx_last_chunk /\ Lines(o, x).w = o.w
         /\ Lines(o, x).rx = x /\ Lines(o, x).r = o.r
BY DEF Terminal, Lines

LEMMA ReadersFacts ==
  ASSUME NEW o \in Terminal, NEW q \in Seq(Proc)
  PROVE  /\ Readers(o, q) \in Terminal /\ Readers(o, q).tx_owner = o.tx_owner
         /\ Readers(o, q).tx_last_chunk = o.tx_last_chunk /\ Readers(o, q).w = o.w
         /\ Readers(o, q).rx = o.rx /\ Readers(o, q).r = q
BY DEF Terminal, Readers

\* A process writes.
LEMMA WriteInv ==
  ASSUME IInv, NEW t \in Tty, NEW n \in WriteLen, kernel_tty_write(t, n)
  PROVE  IInv'
<1> DEFINE p == running
           o == ttys[t]
           x == [proc |-> p, len |-> n]
           y == [tty |-> t, total |-> n, sent |-> 0, len |-> io[p].len]
<1>t. /\ TypeOK /\ HistoryType /\ Placed /\ Writing /\ Reading /\ Counted /\ InputInOrder
      /\ ttys \in [Tty -> Terminal] /\ io \in [Proc -> Request] /\ main_queue \in Seq(Proc)
      /\ inside \in [Proc -> {"write", "read", None}]
      /\ device \in [Tty -> Chunk \union {None}] /\ calls \in [Tty -> Seq(Call)]
      /\ screen \in [Tty -> Seq(Shape)]
  BY DEF IInv, TypeOK, HistoryType
<1>n. n \in Nat \ {0} /\ None \notin {"write", "read"} /\ TERMINAL_MAX_LINE \in Nat
  BY TtyAssumption
<1>1. /\ p \in Proc /\ inside[p] = None /\ SwitchToNext(main_queue)
      /\ calls' = [calls EXCEPT ![t] = Append(@, x)]
      /\ io' = [io EXCEPT ![p] = y]
      /\ inside' = [inside EXCEPT ![p] = "write"]
      /\ \/ /\ ttys[t].tx_owner = None
            /\ start_chunk(ttys, t, p, calls')
         \/ /\ ttys[t].tx_owner # None
            /\ ttys' = [ttys EXCEPT ![t].w = Append(@, p)]
            /\ UNCHANGED device
      /\ screen' = screen /\ typed' = typed /\ delivered' = delivered /\ taken' = taken
      /\ leftover' = leftover
  BY DEF kernel_tty_write, UserRuns, InKernel, input
<1>2. running' \in Proc \union {Idle} /\ main_queue' \in Seq(Proc)
  BY <1>1, <1>t, SwitchType
<1>3. x \in Call /\ y \in Request /\ y.total = n /\ y.sent = 0 /\ y.tty = t /\ o \in Terminal
  <2>1. io[p].len \in Nat /\ o \in Terminal
    BY <1>1, <1>t, Fields
  <2> QED BY <1>1, <1>n, <2>1 DEF Call, Request
<1> HIDE DEF x, y, p
<1>4. /\ io' \in [Proc -> Request] /\ io'[p] = y /\ \A q \in Proc : q # p => io'[q] = io[q]
      /\ inside' \in [Proc -> {"write", "read", None}] /\ inside'[p] = "write"
      /\ \A q \in Proc : q # p => inside'[q] = inside[q]
  BY <1>1, <1>3, <1>t
<1>5. /\ calls' \in [Tty -> Seq(Call)] /\ calls'[t] = Append(calls[t], x)
      /\ \A u \in Tty : u # t => calls'[u] = calls[u]
  <2> DEFINE a == Append(calls[t], x)
  <2>1. a \in Seq(Call) /\ calls' = [calls EXCEPT ![t] = a]
    BY <1>1, <1>3, <1>t
  <2> HIDE DEF a
  <2>2. /\ calls' \in [Tty -> Seq(Call)] /\ calls'[t] = a
        /\ \A u \in Tty : u # t => calls'[u] = calls[u]
    BY <1>t, <2>1
  <2> QED BY <2>2 DEF a
<1>6. /\ \A u \in Tty : p \notin Writers(ttys[u])
      /\ \A u \in Tty : \A q \in Writers(ttys[u]) : q \in Proc /\ q # p
  <2>1. \A u \in Tty : \A q \in Writers(ttys[u]) : q \in Proc /\ q # p
    BY <1>t, Apart DEF Writers, p
  <2> QED BY <2>1
<1>7. PICK d \in Nat : Sending(ttys[t], io, calls[t], device[t], screen[t], d)
  BY <1>t DEF Writing
<1>8. CASE ttys[t].tx_owner = None /\ start_chunk(ttys, t, p, calls')
  <2> DEFINE k == Smaller(n, TERMINAL_MAX_LINE)
             e == Given(o, p, k)
             c == [call |-> CallOf(p, calls'[t]), off |-> 0, len |-> k]
  <2>1. k \in 0..TERMINAL_MAX_LINE /\ k \in Nat
    <3>1. k \in Nat /\ k <= TERMINAL_MAX_LINE
      BY <1>n, SmallerFacts
    <3> QED BY <1>n, <3>1
  <2>2. /\ ttys' = [ttys EXCEPT ![t] = e] /\ device' = [device EXCEPT ![t] = c]
    <3>1. Smaller(io'[p].total - io'[p].sent, TERMINAL_MAX_LINE) = k /\ io'[p].sent = 0
      <4>1. io'[p].total - io'[p].sent = n /\ io'[p].sent = 0
        BY <1>3, <1>4, <1>n
      <4> QED BY <4>1
    <3> HIDE DEF k
    <3>2. /\ ttys' = [ttys EXCEPT ![t].tx_owner = p, ![t].tx_last_chunk = k]
          /\ device' = [device EXCEPT ![t] = [call |-> CallOf(p, calls'[t]), off |-> 0, len |-> k]]
      BY <1>8, <3>1 DEF start_chunk
    <3>3. ttys' = [ttys EXCEPT ![t] = e]
      BY <1>t, <3>2 DEF Given
    <3> QED BY <3>2, <3>3
  <2> HIDE DEF k
  <2>3. /\ e \in Terminal /\ e.tx_owner = p /\ e.tx_last_chunk = k
        /\ e.w = o.w /\ e.rx = o.rx /\ e.r = o.r
    BY <1>1, <1>3, <2>1, GivenFacts
  <2>4. Sending(e, io', calls'[t], c, screen[t], d)
    <3>1. io'[p].total = n /\ io'[p].sent = 0 /\ e.tx_last_chunk = Smaller(n, TERMINAL_MAX_LINE)
      BY <1>3, <1>4, <2>3 DEF k
    <3>2. calls[t] \in Seq(Call) /\ calls'[t] = Append(calls[t], [proc |-> p, len |-> n]) /\ p \in Proc
      BY <1>1, <1>5, <1>t DEF x
    <3> HIDE DEF e
    <3>3. Sending(e, io', calls'[t], [call |-> CallOf(p, calls'[t]), off |-> 0, len |-> e.tx_last_chunk],
                  screen[t], d)
      BY <1>3, <1>7, <1>8, <1>n, <2>3, <3>1, <3>2, SendFirst
    <3> QED BY <2>3, <3>3
  <2>c. c \in Chunk
    <3>1. CallOf(p, calls'[t]) \in Nat
      <4> HIDE DEF e, c
      <4>1. c.call = d + 1
        BY <1>1, <2>3, <2>4, TtyAssumption DEF Sending
      <4> QED BY <4>1 DEF c
    <3> QED BY <2>1, <3>1 DEF Chunk
  <2> HIDE DEF e, c
  <2>5. /\ ttys' \in [Tty -> Terminal] /\ ttys'[t] = e /\ \A u \in Tty : u # t => ttys'[u] = ttys[u]
        /\ device' \in [Tty -> Chunk \union {None}] /\ device'[t] = c
        /\ \A u \in Tty : u # t => device'[u] = device[u]
    BY <1>t, <2>2, <2>3, <2>c
  <2>6. TypeOK'
    BY <1>2, <1>4, <2>5 DEF TypeOK
  <2>7. HistoryType'
    BY <1>1, <1>5, <1>t, <2>5 DEF HistoryType
  <2>8. Writing'
    <3> SUFFICES ASSUME NEW u \in Tty
                 PROVE  \E i \in Nat : Sending(ttys'[u], io', calls'[u], device'[u], screen'[u], i)
      BY DEF Writing
    <3>1. CASE u = t
      BY <1>1, <2>4, <2>5, <3>1
    <3>2. CASE u # t
      <4>1. PICK i \in Nat : Sending(ttys[u], io, calls[u], device[u], screen[u], i)
        BY <1>t DEF Writing
      <4>2. /\ ttys[u] \in Terminal
            /\ \A q \in Writers(ttys[u]) : io'[q].total = io[q].total /\ io'[q].sent = io[q].sent
        BY <1>4, <1>6, <1>t
      <4>3. Sending(ttys[u], io', calls[u], device[u], screen[u], i)
        BY <4>1, <4>2, SendSame
      <4> QED BY <1>1, <1>5, <2>5, <3>2, <4>3
    <3> QED BY <3>1, <3>2
  <2>9. \A u \in Tty : ttys'[u].r = ttys[u].r /\ ttys'[u].rx = ttys[u].rx
    BY <2>3, <2>5
  <2>10. Reading' /\ Counted'
    BY <1>1, <1>4, <1>n, <1>t, <2>9, ReadsSame
  <2>11. InputInOrder'
    BY <1>1, <1>t, <2>9, InputSame
  <2>12. Placed'
    <3>1. Owner(e) = Append(Owner(o), p)
      <4>1. Owner(o) = <<>>
        BY <1>8 DEF Owner
      <4>2. e.tx_owner # None
        BY <1>1, <2>3, TtyAssumption
      <4> QED BY <2>3, <4>1, <4>2, OwnerFacts
    <3>2. \A u \in Tty :
           /\ Owner(ttys'[u]) = IF "owner" = "owner" /\ u = t THEN Append(Owner(ttys[u]), p)
                                ELSE Owner(ttys[u])
           /\ ttys'[u].w = IF "owner" = "w" /\ u = t THEN Append(ttys[u].w, p) ELSE ttys[u].w
           /\ ttys'[u].r = IF "owner" = "r" /\ u = t THEN Append(ttys[u].r, p) ELSE ttys[u].r
      BY <2>3, <2>5, <3>1
    <3> QED BY <1>1, <1>t, <2>6, <3>2, BlockPlaced DEF p
  <2> QED BY <2>6, <2>7, <2>8, <2>10, <2>11, <2>12 DEF IInv
<1>9. CASE /\ ttys[t].tx_owner # None /\ ttys' = [ttys EXCEPT ![t].w = Append(@, p)]
           /\ UNCHANGED device
  <2> DEFINE q == Append(o.w, p)
             e == Lined(o, q)
  <2>1. q \in Seq(Proc)
    BY <1>1, <1>3, Fields
  <2>2. ttys' = [ttys EXCEPT ![t] = e]
    BY <1>9, <1>t DEF Lined
  <2> HIDE DEF q
  <2>3. /\ e \in Terminal /\ e.tx_owner = o.tx_owner /\ e.tx_last_chunk = o.tx_last_chunk
        /\ e.w = q /\ e.rx = o.rx /\ e.r = o.r
    BY <1>3, <2>1, LinedFacts
  <2> HIDE DEF e
  <2>4. /\ ttys' \in [Tty -> Terminal] /\ ttys'[t] = e /\ \A u \in Tty : u # t => ttys'[u] = ttys[u]
    BY <1>t, <2>2, <2>3
  <2>5. Sending(e, io', calls'[t], device[t], screen[t], d)
    <3>1. /\ io'[p].total = n /\ io'[p].sent = 0
          /\ \A r \in Writers(o) : io'[r].total = io[r].total /\ io'[r].sent = io[r].sent
      BY <1>3, <1>4, <1>6
    <3>2. /\ calls[t] \in Seq(Call) /\ calls'[t] = Append(calls[t], [proc |-> p, len |-> n]) /\ p \in Proc
          /\ e.w = Append(o.w, p) /\ p \notin Writers(o)
      BY <1>1, <1>5, <1>6, <1>t, <2>3 DEF x, q
    <3>3. Sending(o, io, calls[t], device[t], screen[t], d) /\ o.tx_owner # None
      BY <1>7, <1>9
    <3>4. /\ o \in Terminal /\ e \in Terminal /\ n \in Nat \ {0}
          /\ e.tx_owner = o.tx_owner /\ e.tx_last_chunk = o.tx_last_chunk
      BY <1>3, <1>n, <2>3
    <3> HIDE DEF o
    <3>5. Sending(e, io', Append(calls[t], [proc |-> p, len |-> n]), device[t], screen[t], d)
      BY <3>1, <3>2, <3>3, <3>4, SendQueued, ZenonT(30)
    <3> QED BY <3>2, <3>5
  <2>6. TypeOK'
    BY <1>2, <1>4, <2>4 DEF TypeOK
  <2>7. HistoryType'
    BY <1>1, <1>5, <1>9, <1>t DEF HistoryType
  <2>8. Writing'
    <3> SUFFICES ASSUME NEW u \in Tty
                 PROVE  \E i \in Nat : Sending(ttys'[u], io', calls'[u], device'[u], screen'[u], i)
      BY DEF Writing
    <3>1. CASE u = t
      BY <1>1, <1>9, <2>4, <2>5, <3>1
    <3>2. CASE u # t
      <4>1. PICK i \in Nat : Sending(ttys[u], io, calls[u], device[u], screen[u], i)
        BY <1>t DEF Writing
      <4>2. /\ ttys[u] \in Terminal
            /\ \A r \in Writers(ttys[u]) : io'[r].total = io[r].total /\ io'[r].sent = io[r].sent
        BY <1>4, <1>6, <1>t
      <4>3. Sending(ttys[u], io', calls[u], device[u], screen[u], i)
        BY <4>1, <4>2, SendSame
      <4> QED BY <1>1, <1>5, <1>9, <2>4, <3>2, <4>3
    <3> QED BY <3>1, <3>2
  <2>9. \A u \in Tty : ttys'[u].r = ttys[u].r /\ ttys'[u].rx = ttys[u].rx
    BY <2>3, <2>4
  <2>10. Reading' /\ Counted'
    BY <1>1, <1>4, <1>n, <1>t, <2>9, ReadsSame
  <2>11. InputInOrder'
    BY <1>1, <1>t, <2>9, InputSame
  <2>12. Placed'
    <3>1. Owner(e) = Owner(o)
      BY <2>3 DEF Owner
    <3>2. \A u \in Tty :
           /\ Owner(ttys'[u]) = IF "w" = "owner" /\ u = t THEN Append(Owner(ttys[u]), p)
                                ELSE Owner(ttys[u])
           /\ ttys'[u].w = IF "w" = "w" /\ u = t THEN Append(ttys[u].w, p) ELSE ttys[u].w
           /\ ttys'[u].r = IF "w" = "r" /\ u = t THEN Append(ttys[u].r, p) ELSE ttys[u].r
      BY <2>3, <2>4, <3>1 DEF q
    <3> QED BY <1>1, <1>t, <2>6, <3>2, BlockPlaced DEF p
  <2> QED BY <2>6, <2>7, <2>8, <2>10, <2>11, <2>12 DEF IInv
<1> QED BY <1>1, <1>8, <1>9

\* A writer's call returns.
LEMMA WriteReturnsInv ==
  ASSUME IInv, WriteReturns
  PROVE  IInv'
<1>t. /\ TypeOK /\ HistoryType /\ Placed /\ Writing /\ Reading /\ Counted /\ InputInOrder
      /\ inside \in [Proc -> {"write", "read", None}] /\ None \notin {"write", "read"}
  BY TtyAssumption DEF IInv, TypeOK
<1>1. /\ running \in Proc /\ inside[running] = "write" /\ inside' = [inside EXCEPT ![running] = None]
      /\ running' = running /\ main_queue' = main_queue /\ ttys' = ttys /\ io' = io
      /\ UNCHANGED output /\ device' = device /\ calls' = calls /\ screen' = screen
      /\ typed' = typed /\ delivered' = delivered /\ taken' = taken /\ leftover' = leftover
  BY DEF WriteReturns, output, input
<1>2. /\ inside' \in [Proc -> {"write", "read", None}]
      /\ \A p \in Proc : inside'[p] = "read" <=> inside[p] = "read"
  BY <1>1, <1>t
<1>3. TypeOK'
  BY <1>1, <1>2, <1>t DEF TypeOK
<1>4. HistoryType'
  BY <1>1, <1>t DEF HistoryType
<1>5. Placed'
  BY <1>1, <1>3, <1>t, QuietPlaced
<1>6. Writing'
  BY <1>1, <1>3, <1>t, WritesSame
<1>7. Reading' /\ Counted'
  BY <1>1, <1>2, <1>t, ReadsSame
<1>8. InputInOrder'
  BY <1>1, <1>t, InputSame
<1> QED BY <1>3, <1>4, <1>5, <1>6, <1>7, <1>8 DEF IInv

\* The clock interrupts.
LEMMA ClockInv ==
  ASSUME IInv, trap_clock_handler
  PROVE  IInv'
<1>t. /\ TypeOK /\ HistoryType /\ Placed /\ Writing /\ Reading /\ Counted /\ InputInOrder
      /\ running \in Proc \union {Idle} /\ main_queue \in Seq(Proc)
  BY DEF IInv, TypeOK
<1>1. /\ SwitchToNext(schedule_process(main_queue, running)) /\ ttys' = ttys /\ io' = io
      /\ inside' = inside
      /\ UNCHANGED output /\ device' = device /\ calls' = calls /\ screen' = screen
      /\ typed' = typed /\ delivered' = delivered /\ taken' = taken /\ leftover' = leftover
  BY DEF trap_clock_handler, Preempt, output, input
<1>2. running' \in Proc \union {Idle} /\ main_queue' \in Seq(Proc)
  <2>1. schedule_process(main_queue, running) \in Seq(Proc)
    BY <1>t DEF schedule_process
  <2> QED BY <1>1, <2>1, SwitchType
<1>3. TypeOK'
  BY <1>1, <1>2, <1>t DEF TypeOK
<1>4. HistoryType'
  BY <1>1, <1>t DEF HistoryType
<1>5. Placed'
  BY <1>1, <1>3, <1>t, TickPlaced
<1>6. Writing'
  BY <1>1, <1>3, <1>t, WritesSame
<1>7. Reading' /\ Counted'
  BY <1>1, <1>t, ReadsSame
<1>8. InputInOrder'
  BY <1>1, <1>t, InputSame
<1> QED BY <1>3, <1>4, <1>5, <1>6, <1>7, <1>8 DEF IInv

\* What a transmit interrupt at t leaves alone, when it makes e of the terminal
\* and dev of the device.
LEMMA TransmitRest ==
  ASSUME IInv, NEW t \in Tty, NEW e \in Terminal, NEW dev \in Chunk \union {None}, NEW d \in Nat,
         ttys[t].tx_owner # None, e.rx = ttys[t].rx, e.r = ttys[t].r,
         ttys' = [ttys EXCEPT ![t] = e], device' = [device EXCEPT ![t] = dev],
         screen' = [screen EXCEPT ![t] = Displayed(screen[t], device[t])],
         Displayed(screen[t], device[t]) \in Seq(Shape),
         io' \in [Proc -> Request], io'[ttys[t].tx_owner].tty = io[ttys[t].tx_owner].tty,
         \A q \in Proc : q # ttys[t].tx_owner => io'[q] = io[q],
         running' = running, main_queue' \in Seq(Proc), inside' = inside, calls' = calls,
         UNCHANGED input, Sending(e, io', calls[t], dev, Displayed(screen[t], device[t]), d)
  PROVE  /\ TypeOK' /\ HistoryType' /\ Writing' /\ Reading' /\ Counted' /\ InputInOrder'
         /\ ttys'[t] = e /\ \A u \in Tty : u # t => ttys'[u] = ttys[u]
<1> DEFINE p == ttys[t].tx_owner
           scr == Displayed(screen[t], device[t])
<1>t. /\ TypeOK /\ HistoryType /\ Placed /\ Writing /\ Reading /\ Counted /\ InputInOrder
      /\ ttys \in [Tty -> Terminal] /\ device \in [Tty -> Chunk \union {None}]
      /\ screen \in [Tty -> Seq(Shape)] /\ running \in Proc \union {Idle}
      /\ inside \in [Proc -> {"write", "read", None}]
  BY DEF IInv, TypeOK, HistoryType
<1>1. /\ typed' = typed /\ delivered' = delivered /\ taken' = taken /\ leftover' = leftover
  BY DEF input
<1>2. scr \in Seq(Shape) /\ screen' = [screen EXCEPT ![t] = scr]
  OBVIOUS
<1> HIDE DEF scr
<1>3. /\ ttys' \in [Tty -> Terminal] /\ ttys'[t] = e /\ \A u \in Tty : u # t => ttys'[u] = ttys[u]
      /\ device' \in [Tty -> Chunk \union {None}] /\ device'[t] = dev
      /\ \A u \in Tty : u # t => device'[u] = device[u]
      /\ screen' \in [Tty -> Seq(Shape)] /\ screen'[t] = scr
      /\ \A u \in Tty : u # t => screen'[u] = screen[u]
  BY <1>2, <1>t
<1>4. TypeOK'
  BY <1>3, <1>t DEF TypeOK
<1>5. HistoryType'
  BY <1>1, <1>3, <1>t DEF HistoryType
<1>6. Writing'
  <2> SUFFICES ASSUME NEW u \in Tty
               PROVE  \E i \in Nat : Sending(ttys'[u], io', calls'[u], device'[u], screen'[u], i)
    BY DEF Writing
  <2>1. CASE u = t
    BY <1>3, <2>1 DEF scr
  <2>2. CASE u # t
    <3>1. PICK i \in Nat : Sending(ttys[u], io, calls[u], device[u], screen[u], i)
      BY <1>t DEF Writing
    <3>2. \A q \in Writers(ttys[u]) : q \in Proc /\ q # p
      BY <1>t, <2>2, Apart DEF Writers
    <3>3. /\ ttys[u] \in Terminal
          /\ \A q \in Writers(ttys[u]) : io'[q].total = io[q].total /\ io'[q].sent = io[q].sent
      BY <1>t, <3>2
    <3>4. Sending(ttys[u], io', calls[u], device[u], screen[u], i)
      BY <3>1, <3>3, SendSame
    <3> QED BY <1>3, <2>2, <3>4
  <2> QED BY <2>1, <2>2
<1>7. \A u \in Tty : ttys'[u].r = ttys[u].r /\ ttys'[u].rx = ttys[u].rx
  BY <1>3
<1>8. \A q \in Proc : io'[q].tty = io[q].tty
  OBVIOUS
<1>9. Reading' /\ Counted'
  BY <1>1, <1>7, <1>8, <1>t, ReadsSame
<1>10. InputInOrder'
  BY <1>1, <1>7, <1>t, InputSame
<1> QED BY <1>3, <1>4, <1>5, <1>6, <1>9, <1>10

\* A terminal without an owner.
Released(o) == [o EXCEPT !.tx_owner = None]

LEMMA ReleasedFacts ==
  ASSUME NEW o \in Terminal
  PROVE  /\ Released(o) \in Terminal /\ Released(o).tx_owner = None
         /\ Released(o).tx_last_chunk = o.tx_last_chunk /\ Released(o).w = o.w
         /\ Released(o).rx = o.rx /\ Released(o).r = o.r
BY DEF Terminal, Released

\* The chunk that a terminal with an owner sends has the type of one.
LEMMA SendingChunk ==
  ASSUME NEW e \in Terminal, NEW g \in [Proc -> Request], NEW cs, NEW dev, NEW scr, NEW d \in Nat,
         Sending(e, g, cs, dev, scr, d), e.tx_owner # None
  PROVE  dev \in Chunk /\ dev.call = d + 1
<1>1. dev = [call |-> d + 1, off |-> g[e.tx_owner].sent, len |-> e.tx_last_chunk]
  BY DEF Sending
<1>2. d + 1 \in Nat /\ g[e.tx_owner].sent \in Nat /\ e.tx_last_chunk \in Nat
  BY Fields
<1> DEFINE a == g[e.tx_owner].sent
           b == e.tx_last_chunk
           c == d + 1
<1>3. dev = [call |-> c, off |-> a, len |-> b] /\ a \in Nat /\ b \in Nat /\ c \in Nat
  BY <1>1, <1>2
<1> HIDE DEF a, b, c
<1>4. dev \in Chunk /\ dev.call = c
  BY <1>3 DEF Chunk
<1> QED BY <1>4 DEF c

\* A transmit interrupt.
LEMMA TransmitInv ==
  ASSUME IInv, NEW t \in Tty, trap_tty_transmit_handler(t)
  PROVE  IInv'
<1> DEFINE o == ttys[t]
           p == o.tx_owner
           k == o.tx_last_chunk
           f == io[p]
           y == [f EXCEPT !.sent = @ + k]
           scr == Displayed(screen[t], device[t])
<1>t. /\ TypeOK /\ HistoryType /\ Placed /\ Writing /\ Reading /\ Counted /\ InputInOrder
      /\ ttys \in [Tty -> Terminal] /\ io \in [Proc -> Request] /\ main_queue \in Seq(Proc)
      /\ device \in [Tty -> Chunk \union {None}] /\ calls \in [Tty -> Seq(Call)]
      /\ screen \in [Tty -> Seq(Shape)] /\ running \in Proc \union {Idle}
      /\ o \in Terminal /\ calls[t] \in Seq(Call) /\ screen[t] \in Seq(Shape)
  BY DEF IInv, TypeOK, HistoryType
<1>1. /\ p # None /\ io' = [io EXCEPT ![p] = y] /\ screen' = [screen EXCEPT ![t] = scr]
      /\ \/ /\ io'[p].sent < io[p].total
            /\ start_chunk(ttys, t, p, calls)
            /\ UNCHANGED main_queue
         \/ /\ io'[p].sent >= io[p].total
            /\ IF wq_pop(t) = None
               THEN /\ ttys' = [ttys EXCEPT ![t].tx_owner = None]
                    /\ device' = [device EXCEPT ![t] = None]
               ELSE start_chunk([ttys EXCEPT ![t].w = Tail(@)], t, wq_pop(t), calls)
            /\ main_queue' = schedule_process(main_queue, p)
      /\ running' = running /\ inside' = inside /\ calls' = calls /\ UNCHANGED input
  BY DEF trap_tty_transmit_handler, tty_transmit_done, Displayed
<1>2. PICK d \in Nat : Sending(o, io, calls[t], device[t], screen[t], d)
  BY <1>t DEF Writing
<1>3. /\ p \in Proc /\ f.sent \in Nat /\ f.total \in Nat /\ k \in Nat \ {0}
      /\ f.sent + k <= f.total /\ scr \in Seq(Shape) /\ f \in Request
  <2>1. Chunked(o, io, device[t], screen[t], d)
    BY <1>1, <1>2, <1>t, ChunkFacts
  <2> QED BY <1>t, <2>1 DEF Chunked
<1>4. y \in Request /\ y.tty = f.tty /\ y.total = f.total /\ y.sent = f.sent + k
  <2> DEFINE a == f.sent + k
  <2>1. a \in Nat /\ y = [f EXCEPT !.sent = a]
    BY <1>3
  <2>2. f \in Request
    BY <1>3
  <2> HIDE DEF a, y, f
  <2>3. y \in Request /\ y.tty = f.tty /\ y.total = f.total /\ y.sent = a
    BY <2>1, <2>2 DEF Request
  <2> QED BY <2>3 DEF a
<1>5. /\ p \notin Range(o.w) /\ IsInjective(o.w) /\ \A q \in Range(o.w) : q \in Proc /\ q # p
      /\ o.w \in Seq(Proc)
  BY <1>1, <1>t, Apart, Fields
<1> HIDE DEF y, scr
<1>6. /\ io' \in [Proc -> Request] /\ io'[p] = y /\ \A q \in Proc : q # p => io'[q] = io[q]
  <2> HIDE DEF p
  <2> QED BY <1>1, <1>3, <1>4, <1>t
<1>7. /\ io'[p].total = io[p].total /\ io'[p].sent = io[p].sent + k /\ io'[p].tty = io[p].tty
      /\ \A q \in Range(o.w) : io'[q] = io[q]
  BY <1>4, <1>5, <1>6
<1>8. CASE io'[p].sent < io[p].total /\ start_chunk(ttys, t, p, calls) /\ UNCHANGED main_queue
  <2> DEFINE j == Smaller(io'[p].total - io'[p].sent, TERMINAL_MAX_LINE)
             e == Given(o, p, j)
             dev == [call |-> CallOf(p, calls[t]), off |-> io'[p].sent, len |-> j]
  <2>1. ttys' = [ttys EXCEPT ![t] = e] /\ device' = [device EXCEPT ![t] = dev]
    <3>1. /\ ttys' = [ttys EXCEPT ![t].tx_owner = p, ![t].tx_last_chunk = j]
          /\ device' = [device EXCEPT ![t] = dev]
      BY <1>8 DEF start_chunk
    <3> HIDE DEF j, dev
    <3>2. ttys' = [ttys EXCEPT ![t] = e]
      BY <1>t, <3>1 DEF Given
    <3> QED BY <3>1, <3>2
  <2>2. j \in 0..TERMINAL_MAX_LINE
    <3>1. io'[p].total - io'[p].sent \in Nat
      BY <1>3, <1>7, <1>8
    <3>2. TERMINAL_MAX_LINE \in Nat
      BY TtyAssumption
    <3>3. j \in Nat /\ j <= TERMINAL_MAX_LINE
      BY <3>1, <3>2, SmallerFacts
    <3> QED BY <3>2, <3>3
  <2> HIDE DEF j
  <2>3. /\ e \in Terminal /\ e.tx_owner = p /\ e.tx_last_chunk = j
        /\ e.w = o.w /\ e.rx = o.rx /\ e.r = o.r
    BY <1>3, <1>t, <2>2, GivenFacts
  <2> HIDE DEF e
  <2>4. Sending(e, io', calls[t], dev, scr, d)
    <3>1. /\ e.tx_last_chunk = Smaller(io'[p].total - io'[p].sent, TERMINAL_MAX_LINE)
          /\ io'[p].sent < io'[p].total
          /\ dev = [call |-> CallOf(p, calls[t]), off |-> io'[p].sent, len |-> e.tx_last_chunk]
      BY <1>7, <1>8, <2>3 DEF j
    <3>2. /\ o \in Terminal /\ e \in Terminal /\ io \in [Proc -> Request] /\ calls[t] \in Seq(Call)
          /\ screen[t] \in Seq(Shape) /\ Sending(o, io, calls[t], device[t], screen[t], d)
          /\ o.tx_owner # None /\ o.tx_owner \notin Range(o.w)
          /\ io'[o.tx_owner].total = io[o.tx_owner].total
          /\ io'[o.tx_owner].sent = io[o.tx_owner].sent + o.tx_last_chunk
          /\ io'[o.tx_owner].sent < io'[o.tx_owner].total
          /\ \A q \in Range(o.w) : io'[q] = io[q]
          /\ e.tx_owner = o.tx_owner /\ e.w = o.w
          /\ e.tx_last_chunk = Smaller(io'[o.tx_owner].total - io'[o.tx_owner].sent, TERMINAL_MAX_LINE)
      BY <1>1, <1>2, <1>5, <1>7, <1>t, <2>3, <3>1
    <3> HIDE DEF dev, o
    <3>3. Sending(e, io', calls[t],
                  [call |-> CallOf(o.tx_owner, calls[t]), off |-> io'[o.tx_owner].sent,
                   len |-> e.tx_last_chunk],
                  Displayed(screen[t], device[t]), d)
      BY <3>2, SendMore
    <3> QED BY <3>1, <3>3 DEF scr
  <2>5. dev \in Chunk
    <3> HIDE DEF dev
    <3> QED BY <1>1, <1>6, <2>3, <2>4, SendingChunk
  <2> HIDE DEF dev
  <2>6. /\ TypeOK' /\ HistoryType' /\ Writing' /\ Reading' /\ Counted' /\ InputInOrder'
        /\ ttys'[t] = e /\ \A u \in Tty : u # t => ttys'[u] = ttys[u]
    <3>1. main_queue' \in Seq(Proc)
      BY <1>8, <1>t
    <3> QED BY <1>1, <1>3, <1>6, <1>7, <2>1, <2>3, <2>4, <2>5, <3>1, TransmitRest DEF scr
  <2>7. Placed'
    <3>1. Owner(e) = Owner(o)
      BY <2>3 DEF Owner
    <3>2. \A u \in Tty : /\ Owner(ttys'[u]) = Owner(ttys[u])
                         /\ ttys'[u].w = ttys[u].w /\ ttys'[u].r = ttys[u].r
      BY <2>3, <2>6, <3>1
    <3> QED BY <1>1, <1>8, <1>t, <2>6, <3>2, QuietPlaced
  <2> QED BY <2>6, <2>7 DEF IInv
<1>9. ASSUME io'[p].sent >= io[p].total, main_queue' = schedule_process(main_queue, p),
             NEW e \in Terminal, NEW dev,
             ttys' = [ttys EXCEPT ![t] = e], device' = [device EXCEPT ![t] = dev],
             e.rx = o.rx, e.r = o.r,
             \/ o.w = <<>> /\ e.tx_owner = None /\ e.w = o.w /\ dev = None
             \/ /\ o.w # <<>> /\ e.tx_owner = Head(o.w) /\ e.w = Tail(o.w)
                /\ e.tx_last_chunk = Smaller(io'[Head(o.w)].total - io'[Head(o.w)].sent, TERMINAL_MAX_LINE)
                /\ dev = [call |-> CallOf(Head(o.w), calls[t]), off |-> io'[Head(o.w)].sent,
                          len |-> e.tx_last_chunk]
      PROVE  IInv'
  <2>1. Sending(e, io', calls[t], dev, scr, d + 1) /\ d + 1 \in Nat
    <3>1. io[p].sent + k >= io[p].total
      BY <1>7, <1>9
    <3>2. /\ o \in Terminal /\ e \in Terminal /\ io \in [Proc -> Request] /\ calls[t] \in Seq(Call)
          /\ screen[t] \in Seq(Shape) /\ Sending(o, io, calls[t], device[t], screen[t], d)
          /\ o.tx_owner # None /\ IsInjective(o.w)
          /\ io[o.tx_owner].sent + o.tx_last_chunk >= io[o.tx_owner].total
          /\ \A q \in Range(o.w) : io'[q] = io[q]
      BY <1>1, <1>2, <1>5, <1>7, <1>t, <3>1
    <3>3. \/ o.w = <<>> /\ e.tx_owner = None /\ e.w = o.w
          \/ /\ o.w # <<>> /\ e.tx_owner = Head(o.w) /\ e.w = Tail(o.w)
             /\ e.tx_last_chunk = Smaller(io'[Head(o.w)].total - io'[Head(o.w)].sent, TERMINAL_MAX_LINE)
             /\ dev = [call |-> CallOf(Head(o.w), calls[t]), off |-> io'[Head(o.w)].sent,
                       len |-> e.tx_last_chunk]
      BY <1>9
    <3> HIDE DEF o
    <3>4. Sending(e, io', calls[t], dev, Displayed(screen[t], device[t]), d + 1)
      BY <3>2, <3>3, SendDone
    <3> QED BY <3>4 DEF scr
  <2>2. dev \in Chunk \union {None}
    <3>1. CASE o.w = <<>>
      BY <1>9, <3>1
    <3>2. CASE o.w # <<>>
      <4>1. e.tx_owner # None
        BY <1>5, <1>9, <3>2, TailFacts, TtyAssumption
      <4> QED BY <1>6, <1>9, <2>1, <4>1, SendingChunk
    <3> QED BY <3>1, <3>2
  <2>3. main_queue' = Append(main_queue, p) /\ main_queue' \in Seq(Proc)
    BY <1>3, <1>9, <1>t, IdleAssumption DEF schedule_process
  <2>4. /\ TypeOK' /\ HistoryType' /\ Writing' /\ Reading' /\ Counted' /\ InputInOrder'
        /\ ttys'[t] = e /\ \A u \in Tty : u # t => ttys'[u] = ttys[u]
    BY <1>1, <1>3, <1>6, <1>7, <1>9, <2>1, <2>2, <2>3, TransmitRest DEF scr
  <2>5. Placed'
    <3>1. /\ \/ ttys'[t].tx_owner = None /\ ttys'[t].w = ttys[t].w
             \/ /\ ttys[t].w # <<>> /\ ttys'[t].tx_owner = Head(ttys[t].w)
                /\ ttys'[t].w = Tail(ttys[t].w)
          /\ ttys'[t].r = ttys[t].r
      BY <1>9, <2>4
    <3> QED BY <1>1, <1>t, <2>3, <2>4, <3>1, HandPlaced
  <2> QED BY <2>4, <2>5 DEF IInv
<1>10. CASE /\ io'[p].sent >= io[p].total /\ main_queue' = schedule_process(main_queue, p)
            /\ wq_pop(t) = None
            /\ ttys' = [ttys EXCEPT ![t].tx_owner = None] /\ device' = [device EXCEPT ![t] = None]
  <2> DEFINE e == Released(o)
  <2>1. /\ e \in Terminal /\ e.tx_owner = None /\ e.w = o.w /\ e.rx = o.rx /\ e.r = o.r
    BY <1>t, ReleasedFacts
  <2>2. ttys' = [ttys EXCEPT ![t] = e]
    BY <1>10, <1>t DEF Released
  <2>3. o.w = <<>>
    <3>1. o.w # <<>> => Head(o.w) \in Proc
      BY <1>5, TailFacts
    <3> QED BY <1>10, <3>1, TtyAssumption DEF wq_pop
  <2> HIDE DEF e
  <2> QED BY <1>9, <1>10, <2>1, <2>2, <2>3
<1>11. CASE /\ io'[p].sent >= io[p].total /\ main_queue' = schedule_process(main_queue, p)
            /\ wq_pop(t) # None
            /\ start_chunk([ttys EXCEPT ![t].w = Tail(@)], t, wq_pop(t), calls)
  <2> DEFINE h == Head(o.w)
             j == Smaller(io'[h].total - io'[h].sent, TERMINAL_MAX_LINE)
             e == Given(Lined(o, Tail(o.w)), h, j)
             dev == [call |-> CallOf(h, calls[t]), off |-> io'[h].sent, len |-> j]
  <2>1. o.w # <<>> /\ wq_pop(t) = h /\ h \in Proc /\ h \in Range(o.w) /\ Tail(o.w) \in Seq(Proc)
    <3>1. o.w # <<>> /\ wq_pop(t) = h
      BY <1>11 DEF wq_pop
    <3> QED BY <1>5, <3>1, TailFacts
  <2>2. ttys' = [ttys EXCEPT ![t] = e] /\ device' = [device EXCEPT ![t] = dev]
    <3> DEFINE ts == [ttys EXCEPT ![t].w = Tail(@)]
    <3>1. ts = [ttys EXCEPT ![t] = Lined(o, Tail(o.w))]
      BY <1>t DEF Lined
    <3>2. ts[t] = Lined(o, Tail(o.w)) /\ DOMAIN ts = Tty
      BY <1>t, <3>1
    <3>3. /\ ttys' = [ts EXCEPT ![t].tx_owner = h, ![t].tx_last_chunk = j]
          /\ device' = [device EXCEPT ![t] = dev]
      BY <1>11, <2>1 DEF start_chunk
    <3> HIDE DEF ts, h, j, dev
    <3>4. ttys' = [ts EXCEPT ![t] = e]
      BY <3>2, <3>3 DEF Given
    <3> HIDE DEF e
    <3>5. ttys' = [ttys EXCEPT ![t] = e]
      BY <1>t, <3>1, <3>4
    <3> QED BY <3>3, <3>5
  <2>3. j \in 0..TERMINAL_MAX_LINE
    <3>1. io'[h].total \in Nat /\ io'[h].sent = 0
      <4>1. io'[h] = io[h] /\ io[h].total \in Nat
        BY <1>7, <1>t, <2>1, Fields
      <4>2. PICK i \in DOMAIN o.w : o.w[i] = h
        BY <2>1 DEF Range
      <4>3. i \in 1..Len(o.w)
        BY <1>5
      <4>4. io[o.w[i]].sent = 0
        BY <1>1, <1>2, <4>3 DEF Sending
      <4> QED BY <4>1, <4>2, <4>4
    <3>2. io'[h].total - io'[h].sent \in Nat /\ TERMINAL_MAX_LINE \in Nat
      BY <3>1, TtyAssumption
    <3>3. j \in Nat /\ j <= TERMINAL_MAX_LINE
      BY <3>2, SmallerFacts
    <3> QED BY <3>2, <3>3
  <2>4. /\ e \in Terminal /\ e.tx_owner = h /\ e.tx_last_chunk = j
        /\ e.w = Tail(o.w) /\ e.rx = o.rx /\ e.r = o.r
    <3> DEFINE a == Lined(o, Tail(o.w))
    <3>1. a \in Terminal /\ a.w = Tail(o.w) /\ a.rx = o.rx /\ a.r = o.r
      BY <1>t, <2>1, LinedFacts
    <3> HIDE DEF a, j, h
    <3>2. /\ Given(a, h, j) \in Terminal /\ Given(a, h, j).tx_owner = h
          /\ Given(a, h, j).tx_last_chunk = j /\ Given(a, h, j).w = a.w
          /\ Given(a, h, j).rx = a.rx /\ Given(a, h, j).r = a.r
      BY <2>1, <2>3, <3>1, GivenFacts
    <3> QED BY <3>1, <3>2 DEF a
  <2>5. /\ e.tx_last_chunk = Smaller(io'[Head(o.w)].total - io'[Head(o.w)].sent, TERMINAL_MAX_LINE)
        /\ dev = [call |-> CallOf(Head(o.w), calls[t]), off |-> io'[Head(o.w)].sent,
                  len |-> e.tx_last_chunk]
        /\ e.tx_owner = Head(o.w)
    <3>1. e.tx_last_chunk = j /\ e.tx_owner = h
      BY <2>4
    <3> HIDE DEF e
    <3> QED BY <3>1
  <2> HIDE DEF e, dev
  <2> QED BY <1>9, <1>11, <2>1, <2>2, <2>4, <2>5
<1> QED BY <1>1, <1>8, <1>10, <1>11

\* What a step leaves alone that changes the lines and readers of a terminal t,
\* which it makes e.
LEMMA InputRest ==
  ASSUME IInv, NEW t \in Tty, NEW e \in Terminal, e.tx_owner = ttys[t].tx_owner,
         e.tx_last_chunk = ttys[t].tx_last_chunk, e.w = ttys[t].w, ttys' = [ttys EXCEPT ![t] = e],
         io' \in [Proc -> Request],
         \A p \in Proc : io'[p].total = io[p].total /\ io'[p].sent = io[p].sent,
         running' \in Proc \union {Idle}, main_queue' \in Seq(Proc),
         inside' \in [Proc -> {"write", "read", None}], UNCHANGED output,
         typed' \in [Tty -> [lines : Nat, bytes : Nat]], delivered' \in [Tty -> Nat],
         taken' \in [Tty -> Nat], leftover' \in [Tty -> BOOLEAN]
  PROVE  /\ TypeOK' /\ HistoryType' /\ Writing'
         /\ ttys'[t] = e /\ \A u \in Tty : u # t => ttys'[u] = ttys[u]
         /\ \A u \in Tty : Owner(ttys'[u]) = Owner(ttys[u]) /\ ttys'[u].w = ttys[u].w
<1>1. TypeOK /\ HistoryType /\ Writing /\ ttys \in [Tty -> Terminal]
  BY DEF IInv, TypeOK
<1>2. /\ ttys' \in [Tty -> Terminal] /\ ttys'[t] = e /\ \A u \in Tty : u # t => ttys'[u] = ttys[u]
  BY <1>1
<1>3. TypeOK'
  BY <1>2 DEF TypeOK
<1>4. HistoryType'
  BY <1>1 DEF HistoryType, output
<1>5. \A u \in Tty : /\ ttys'[u].tx_owner = ttys[u].tx_owner
                     /\ ttys'[u].tx_last_chunk = ttys[u].tx_last_chunk /\ ttys'[u].w = ttys[u].w
  BY <1>2
<1>6. Writing'
  BY <1>1, <1>3, <1>5, WritesSame
<1> QED BY <1>2, <1>3, <1>4, <1>5, <1>6 DEF Owner

\* A reader takes what it asks for of the first line.
LEMMA ConsumeFacts ==
  ASSUME IInv, NEW t \in Tty, NEW len \in Nat, consume_into_user(t, len), ttys[t].rx # <<>>
  PROVE  /\ ttys' = [ttys EXCEPT ![t] = Lines(@, Rest(@.rx, len))]
         /\ delivered' = [delivered EXCEPT ![t] = @ + Took(ttys[t].rx, len)]
         /\ leftover' = [leftover EXCEPT ![t] = @ \/ (~UsedUp(ttys[t].rx, len) /\ ttys[t].r # <<>>)]
         /\ Rest(ttys[t].rx, len) \in Seq(Line) /\ Took(ttys[t].rx, len) \in Nat
         /\ Len(Rest(ttys[t].rx, len)) = IF UsedUp(ttys[t].rx, len) THEN Len(ttys[t].rx) - 1
                                                                    ELSE Len(ttys[t].rx)
         /\ Left(Rest(ttys[t].rx, len), delivered[t] + Took(ttys[t].rx, len), typed[t].bytes)
<1>1. ttys \in [Tty -> Terminal] /\ ttys[t].rx \in Seq(Line) /\ InputInOrder
      /\ delivered[t] \in Nat /\ typed[t].bytes \in Nat
  BY Fields DEF IInv, TypeOK, HistoryType
<1>2. Left(ttys[t].rx, delivered[t], typed[t].bytes)
  BY <1>1, InputIsLeft
<1> DEFINE rx == ttys[t].rx
<1>3. /\ delivered' = [delivered EXCEPT ![t] = @ + Took(rx, len)]
      /\ ttys' = IF UsedUp(rx, len) THEN [ttys EXCEPT ![t].rx = Tail(@)]
                 ELSE [ttys EXCEPT ![t].rx[1].off = @ + Took(rx, len)]
      /\ leftover' = [leftover EXCEPT ![t] = @ \/ (~UsedUp(rx, len) /\ ttys[t].r # <<>>)]
  BY DEF consume_into_user, Took, UsedUp
<1>4. ttys' = [ttys EXCEPT ![t] = Lines(@, Rest(@.rx, len))]
  <2>1. CASE UsedUp(rx, len)
    BY <1>3, <2>1 DEF Lines, Rest
  <2>2. CASE ~UsedUp(rx, len)
    BY <1>3, <2>2 DEF Lines, Rest
  <2> QED BY <2>1, <2>2
<1> HIDE DEF rx
<1>5. /\ Rest(rx, len) \in Seq(Line) /\ Took(rx, len) \in Nat
      /\ Len(Rest(rx, len)) = IF UsedUp(rx, len) THEN Len(rx) - 1 ELSE Len(rx)
      /\ Left(Rest(rx, len), delivered[t] + Took(rx, len), typed[t].bytes)
  <2>1. /\ rx \in Seq(Line) /\ rx # <<>> /\ delivered[t] \in Nat /\ typed[t].bytes \in Nat
        /\ Left(rx, delivered[t], typed[t].bytes)
    BY <1>1, <1>2 DEF rx
  <2> QED BY <2>1, LineRead
<1> QED BY <1>3, <1>4, <1>5 DEF rx

\* The readers that were woken are finitely many.
LEMMA WokenFinite ==
  ASSUME NEW t \in Tty
  PROVE  IsFiniteSet(Woken(t)) /\ Cardinality(Woken(t)) \in Nat
<1>1. IsFiniteSet(Proc) /\ Woken(t) \in SUBSET Proc
  BY TtyAssumption DEF Woken
<1>2. IsFiniteSet(Woken(t))
  BY <1>1, FS_Subset
<1> QED BY <1>2, FS_CardinalityType

\* A process reads input that is there.
LEMMA ReadNowInv ==
  ASSUME IInv, NEW t \in Tty, NEW len \in Nat, ReadNow(t, len), UNCHANGED output
  PROVE  IInv'
<1> DEFINE o == ttys[t]
           x == Rest(o.rx, len)
           e == Lines(o, x)
           k == Took(o.rx, len)
<1>t. /\ TypeOK /\ HistoryType /\ Placed /\ Writing /\ Reading /\ Counted /\ InputInOrder
      /\ ttys \in [Tty -> Terminal] /\ o \in Terminal /\ o.rx \in Seq(Line)
      /\ running \in Proc \union {Idle} /\ main_queue \in Seq(Proc) /\ io \in [Proc -> Request]
      /\ inside \in [Proc -> {"write", "read", None}]
      /\ typed \in [Tty -> [lines : Nat, bytes : Nat]] /\ delivered \in [Tty -> Nat]
      /\ taken \in [Tty -> Nat] /\ leftover \in [Tty -> BOOLEAN]
  BY Fields DEF IInv, TypeOK, HistoryType
<1>1. /\ o.rx # <<>> /\ consume_into_user(t, len)
      /\ taken' = [taken EXCEPT ![t] =
           IF Woken(t) # {} /\ Len(ttys'[t].rx) < Len(o.rx) THEN @ + 1 ELSE @]
      /\ running' = running /\ main_queue' = main_queue /\ io' = io /\ inside' = inside
      /\ typed' = typed
  BY DEF ReadNow
<1>2. /\ ttys' = [ttys EXCEPT ![t] = e] /\ delivered' = [delivered EXCEPT ![t] = @ + k]
      /\ leftover' = [leftover EXCEPT ![t] = @ \/ (~UsedUp(o.rx, len) /\ o.r # <<>>)]
      /\ x \in Seq(Line) /\ k \in Nat
      /\ Len(x) = IF UsedUp(o.rx, len) THEN Len(o.rx) - 1 ELSE Len(o.rx)
      /\ Left(x, delivered[t] + k, typed[t].bytes)
  BY <1>1, ConsumeFacts
<1> HIDE DEF x, k
<1>3. /\ e \in Terminal /\ e.tx_owner = o.tx_owner /\ e.tx_last_chunk = o.tx_last_chunk
      /\ e.w = o.w /\ e.rx = x /\ e.r = o.r
  BY <1>2, <1>t, LinesFacts
<1> HIDE DEF e
<1>4. /\ delivered' \in [Tty -> Nat] /\ delivered'[t] = delivered[t] + k
      /\ taken' \in [Tty -> Nat] /\ leftover' \in [Tty -> BOOLEAN]
      /\ taken'[t] = IF Woken(t) # {} /\ Len(ttys'[t].rx) < Len(o.rx) THEN taken[t] + 1 ELSE taken[t]
      /\ leftover'[t] = (leftover[t] \/ (~UsedUp(o.rx, len) /\ o.r # <<>>))
      /\ \A u \in Tty : u # t => /\ delivered'[u] = delivered[u] /\ taken'[u] = taken[u]
                                 /\ leftover'[u] = leftover[u]
  <2>1. /\ delivered' \in [Tty -> Nat] /\ delivered'[t] = delivered[t] + k
        /\ \A u \in Tty : u # t => delivered'[u] = delivered[u]
    BY <1>2, <1>t
  <2>2. /\ taken' \in [Tty -> Nat]
        /\ taken'[t] = IF Woken(t) # {} /\ Len(ttys'[t].rx) < Len(o.rx) THEN taken[t] + 1 ELSE taken[t]
        /\ \A u \in Tty : u # t => taken'[u] = taken[u]
    BY <1>1, <1>t
  <2>3. /\ leftover' \in [Tty -> BOOLEAN]
        /\ leftover'[t] = (leftover[t] \/ (~UsedUp(o.rx, len) /\ o.r # <<>>))
        /\ \A u \in Tty : u # t => leftover'[u] = leftover[u]
    BY <1>2, <1>t
  <2> QED BY <2>1, <2>2, <2>3
<1>5. /\ TypeOK' /\ HistoryType' /\ Writing'
      /\ ttys'[t] = e /\ \A u \in Tty : u # t => ttys'[u] = ttys[u]
      /\ \A u \in Tty : Owner(ttys'[u]) = Owner(ttys[u]) /\ ttys'[u].w = ttys[u].w
  BY <1>1, <1>2, <1>3, <1>4, <1>t, InputRest
<1>6. \A u \in Tty : ttys'[u].r = ttys[u].r
  BY <1>3, <1>5
<1>7. Placed'
  BY <1>1, <1>5, <1>6, <1>t, QuietPlaced
<1>8. InputInOrder'
  <2>1. ASSUME NEW u \in Tty PROVE Left(ttys'[u].rx, delivered'[u], typed'[u].bytes)
    <3>1. CASE u = t
      BY <1>1, <1>2, <1>3, <1>4, <1>5, <3>1
    <3>2. CASE u # t
      BY <1>1, <1>4, <1>5, <1>t, <3>2, InputIsLeft
    <3> QED BY <3>1, <3>2
  <2> QED BY <2>1, InputNext
<1>9. Reading'
  BY <1>1, <1>6, <1>t DEF Reading
<1>10. \A u \in Tty : Woken(u)' = Woken(u)
  BY <1>1, <1>6 DEF Woken
<1>11. Counted'
  <2>1. ASSUME NEW u \in Tty
        PROVE  /\ Cardinality(Woken(u)) <= Len(ttys'[u].rx) + taken'[u]
               /\ ttys'[u].r # <<>> /\ ~leftover'[u] => Len(ttys'[u].rx) <= Cardinality(Woken(u))
    <3>1. CASE u # t
      BY <1>4, <1>5, <1>t, <3>1 DEF Counted
    <3>2. CASE u = t
      <4> DEFINE a == Cardinality(Woken(t))
                 m == Len(o.rx)
                 j == Len(x)
      <4>1. a \in Nat /\ (Woken(t) = {} => a = 0)
        BY WokenFinite, FS_EmptySet
      <4>2. /\ m \in Nat /\ j \in Nat /\ taken[t] \in Nat /\ (j = m - 1 \/ j = m)
        BY <1>2, <1>t, SMTT(30)
      <4>3. /\ ttys'[t].rx = x
            /\ taken'[t] = IF Woken(t) # {} /\ j < m THEN taken[t] + 1 ELSE taken[t]
        BY <1>3, <1>4, <1>5
      <4>4. a <= m + taken[t] /\ (o.r # <<>> /\ ~leftover[t] => m <= a)
        BY <1>t DEF Counted
      <4>5. leftover[t] => leftover'[t]
        BY <1>4
      <4> HIDE DEF a, m, j
      <4>6. a <= j + taken'[t] /\ (o.r # <<>> /\ ~leftover'[t] => j <= a)
        BY <4>1, <4>2, <4>3, <4>4, <4>5
      <4> QED BY <1>6, <3>2, <4>3, <4>6 DEF a, j
    <3> QED BY <3>1, <3>2
  <2> QED BY <1>10, <2>1 DEF Counted
<1> QED BY <1>5, <1>7, <1>8, <1>9, <1>11 DEF IInv

\* The running process, if it is in a read, is a woken reader of its terminal
\* and of no other.
LEMMA RunningWoken ==
  ASSUME TypeOK, Placed, Reading, running \in Proc, inside[running] = "read"
  PROVE  /\ io[running].tty \in Tty /\ running \in Woken(io[running].tty)
         /\ \A u \in Tty : u # io[running].tty => running \notin Woken(u)
<1>1. io[running].tty \in Tty /\ running \notin Range(ttys[io[running].tty].r)
  BY Apart DEF Reading
<1> QED BY <1>1 DEF Woken

\* A reader that had blocked returns.
LEMMA ReadReturnsInv ==
  ASSUME IInv, ReadReturns
  PROVE  IInv'
<1> DEFINE p == running
<1>t. /\ TypeOK /\ HistoryType /\ Placed /\ Writing /\ Reading /\ Counted /\ InputInOrder
      /\ ttys \in [Tty -> Terminal] /\ running \in Proc \union {Idle} /\ main_queue \in Seq(Proc)
      /\ io \in [Proc -> Request] /\ inside \in [Proc -> {"write", "read", None}]
      /\ typed \in [Tty -> [lines : Nat, bytes : Nat]] /\ delivered \in [Tty -> Nat]
      /\ taken \in [Tty -> Nat] /\ leftover \in [Tty -> BOOLEAN] /\ None # "read"
  BY TtyAssumption DEF IInv, TypeOK, HistoryType
<1>1. PICK t : t = io[p].tty
  OBVIOUS
<1>2. /\ p \in Proc /\ inside[p] = "read" /\ consume_into_user(t, io[p].len)
      /\ inside' = [inside EXCEPT ![p] = None]
      /\ taken' = [taken EXCEPT ![t] =
           IF Woken(t) = {p} THEN 0 ELSE IF ttys[t].rx = <<>> THEN @ - 1 ELSE @]
      /\ running' = running /\ main_queue' = main_queue /\ io' = io /\ UNCHANGED output /\ typed' = typed
  BY <1>1 DEF ReadReturns
<1>3. /\ t \in Tty /\ p \in Woken(t) /\ \A u \in Tty : u # t => p \notin Woken(u)
  BY <1>1, <1>2, <1>t, RunningWoken
<1> DEFINE o == ttys[t]
           len == io[p].len
           a == Cardinality(Woken(t))
<1>4. o \in Terminal /\ o.rx \in Seq(Line) /\ len \in Nat /\ taken[t] \in Nat /\ Len(o.rx) \in Nat
  <2>1. o \in Terminal /\ io[p] \in Request
    BY <1>2, <1>3, <1>t
  <2> QED BY <1>3, <1>t, <2>1, Fields
<1>5. inside' \in [Proc -> {"write", "read", None}]
  BY <1>2, <1>t
<1>6. /\ a \in Nat \ {0} /\ Cardinality(Woken(t) \ {p}) = a - 1 /\ (Woken(t) = {p} <=> a = 1)
      /\ a <= Len(o.rx) + taken[t] /\ (o.r # <<>> /\ ~leftover[t] => Len(o.rx) <= a)
  <2>1. IsFiniteSet(Woken(t)) /\ a \in Nat
    BY <1>3, WokenFinite
  <2>2. a # 0
    BY <1>3, <2>1, FS_EmptySet
  <2>3. Cardinality(Woken(t) \ {p}) = a - 1
    BY <1>3, <2>1, FS_RemoveElement
  <2>4. Woken(t) = {p} => a = 1
    BY FS_Singleton
  <2>5. ASSUME a = 1 PROVE Woken(t) = {p}
    <3>1. \E z : Woken(t) = {z}
      BY <2>1, <2>5, FS_Singleton
    <3> QED BY <1>3, <3>1
  <2>6. a <= Len(o.rx) + taken[t] /\ (o.r # <<>> /\ ~leftover[t] => Len(o.rx) <= a)
    BY <1>3, <1>t DEF Counted
  <2> HIDE DEF a
  <2> QED BY <2>1, <2>2, <2>3, <2>4, <2>5, <2>6
<1> DEFINE b == IF Woken(t) = {p} THEN 0 ELSE IF o.rx = <<>> THEN taken[t] - 1 ELSE taken[t]
<1>7. b \in Nat /\ taken' = [taken EXCEPT ![t] = b]
  <2>1. o.rx = <<>> => Len(o.rx) = 0
    OBVIOUS
  <2>2. taken' = [taken EXCEPT ![t] = b]
    BY <1>2
  <2> HIDE DEF a, o
  <2>3. b \in Nat
    BY <1>4, <1>6, <2>1
  <2> QED BY <2>2, <2>3
<1> HIDE DEF b
<1>8. taken' \in [Tty -> Nat] /\ taken'[t] = b /\ \A u \in Tty : u # t => taken'[u] = taken[u]
  BY <1>3, <1>7, <1>t
<1>9. ASSUME NEW x \in Seq(Line), NEW k \in Nat, NEW l \in BOOLEAN,
             ttys' = [ttys EXCEPT ![t] = Lines(@, x)],
             delivered' = [delivered EXCEPT ![t] = @ + k], leftover' = [leftover EXCEPT ![t] = l],
             Left(x, delivered[t] + k, typed[t].bytes), a - 1 <= Len(x) + b,
             o.r # <<>> /\ ~l => Len(x) <= a - 1
      PROVE  IInv'
  <2> DEFINE e == Lines(o, x)
  <2>1. /\ e \in Terminal /\ e.tx_owner = o.tx_owner /\ e.tx_last_chunk = o.tx_last_chunk
        /\ e.w = o.w /\ e.rx = x /\ e.r = o.r /\ ttys' = [ttys EXCEPT ![t] = e]
    BY <1>4, <1>9, LinesFacts
  <2> HIDE DEF e
  <2>2. /\ delivered' \in [Tty -> Nat] /\ delivered'[t] = delivered[t] + k
        /\ leftover' \in [Tty -> BOOLEAN] /\ leftover'[t] = l
        /\ \A u \in Tty : u # t => delivered'[u] = delivered[u] /\ leftover'[u] = leftover[u]
    BY <1>3, <1>9, <1>t
  <2>3. /\ TypeOK' /\ HistoryType' /\ Writing'
        /\ ttys'[t] = e /\ \A u \in Tty : u # t => ttys'[u] = ttys[u]
        /\ \A u \in Tty : Owner(ttys'[u]) = Owner(ttys[u]) /\ ttys'[u].w = ttys[u].w
    <3>1. /\ io' \in [Proc -> Request] /\ running' \in Proc \union {Idle} /\ main_queue' \in Seq(Proc)
          /\ \A q \in Proc : io'[q].total = io[q].total /\ io'[q].sent = io[q].sent
          /\ typed' \in [Tty -> [lines : Nat, bytes : Nat]]
      BY <1>2, <1>t
    <3> QED BY <1>2, <1>3, <1>5, <1>8, <2>1, <2>2, <3>1, InputRest
  <2>4. \A u \in Tty : ttys'[u].r = ttys[u].r
    BY <2>1, <2>3
  <2>5. Placed'
    BY <1>2, <1>t, <2>3, <2>4, QuietPlaced
  <2>6. InputInOrder'
    <3>1. ASSUME NEW u \in Tty PROVE Left(ttys'[u].rx, delivered'[u], typed'[u].bytes)
      <4>1. CASE u = t
        BY <1>2, <1>9, <2>1, <2>2, <2>3, <4>1
      <4>2. CASE u # t
        BY <1>2, <1>t, <2>2, <2>3, <4>2, InputIsLeft
      <4> QED BY <4>1, <4>2
    <3> QED BY <3>1, InputNext
  <2>7. Reading'
    <3>1. /\ \A q \in Proc : inside'[q] = "read" => inside[q] = "read"
          /\ \A q \in Proc : q # p => inside'[q] = inside[q]
      BY <1>2, <1>t
    <3>2. \A u \in Tty : \A q \in Range(ttys[u].r) : q \in Proc /\ q # p
      BY <1>t, Apart
    <3> QED BY <1>2, <1>t, <2>4, <3>1, <3>2 DEF Reading
  <2>8. Woken(t)' = Woken(t) \ {p} /\ \A u \in Tty : u # t => Woken(u)' = Woken(u)
    <3>1. ASSUME NEW u \in Tty PROVE Woken(u)' = Woken(u) \ {p}
      <4>1. inside'[p] = None /\ \A q \in Proc : q # p => inside'[q] = inside[q]
        BY <1>2, <1>t
      <4> QED BY <1>2, <1>t, <2>4, <4>1 DEF Woken
    <3> QED BY <1>3, <3>1
  <2>9. Counted'
    <3>1. ASSUME NEW u \in Tty
          PROVE  /\ Cardinality(Woken(u)') <= Len(ttys'[u].rx) + taken'[u]
                 /\ ttys'[u].r # <<>> /\ ~leftover'[u] => Len(ttys'[u].rx) <= Cardinality(Woken(u)')
      <4>1. CASE u # t
        BY <1>8, <1>t, <2>2, <2>3, <2>8, <4>1 DEF Counted
      <4>2. CASE u = t
        <5>1. Woken(u)' = Woken(t) \ {p}
          BY <2>8, <4>2
        <5> QED BY <1>6, <1>8, <1>9, <2>1, <2>2, <2>3, <4>2, <5>1
      <4> QED BY <4>1, <4>2
    <3> QED BY <3>1 DEF Counted
  <2> QED BY <2>3, <2>5, <2>6, <2>7, <2>9 DEF IInv
<1>10. CASE o.rx = <<>>
  <2>1. ttys' = ttys /\ delivered' = delivered /\ leftover' = leftover
    BY <1>2, <1>10 DEF consume_into_user
  <2>2. ttys' = [ttys EXCEPT ![t] = Lines(@, <<>>)]
    <3>1. Lines(o, <<>>) = o
      BY <1>4, <1>10 DEF Lines, Terminal
    <3> QED BY <1>3, <1>t, <2>1, <3>1
  <2>3. delivered' = [delivered EXCEPT ![t] = @ + 0] /\ leftover' = [leftover EXCEPT ![t] = leftover[t]]
    BY <1>3, <1>t, <2>1
  <2>4. Left(<<>>, delivered[t] + 0, typed[t].bytes)
    <3>1. Left(o.rx, delivered[t], typed[t].bytes)
      BY <1>3, <1>t, InputIsLeft
    <3>2. delivered[t] + 0 = delivered[t]
      BY <1>3, <1>t
    <3> QED BY <1>10, <3>1, <3>2
  <2>5. a - 1 <= 0 + b /\ (o.r # <<>> /\ ~leftover[t] => 0 <= a - 1)
    <3>1. Len(o.rx) = 0
      BY <1>10
    <3>2. b = IF a = 1 THEN 0 ELSE taken[t] - 1
      BY <1>6, <1>10 DEF b
    <3> HIDE DEF a, o
    <3> QED BY <1>4, <1>6, <3>1, <3>2
  <2>6. Len(<<>>) = 0 /\ <<>> \in Seq(Line) /\ leftover[t] \in BOOLEAN /\ 0 \in Nat
    BY <1>3, <1>t
  <2> QED BY <1>9, <2>2, <2>3, <2>4, <2>5, <2>6
<1>11. CASE o.rx # <<>>
  <2> DEFINE x == Rest(o.rx, len)
             k == Took(o.rx, len)
             l == leftover[t] \/ (~UsedUp(o.rx, len) /\ o.r # <<>>)
  <2>1. /\ ttys' = [ttys EXCEPT ![t] = Lines(@, x)] /\ delivered' = [delivered EXCEPT ![t] = @ + k]
        /\ leftover' = [leftover EXCEPT ![t] = l]
        /\ x \in Seq(Line) /\ k \in Nat
        /\ Len(x) = IF UsedUp(o.rx, len) THEN Len(o.rx) - 1 ELSE Len(o.rx)
        /\ Left(x, delivered[t] + k, typed[t].bytes)
    BY <1>2, <1>3, <1>4, <1>11, ConsumeFacts
  <2>2. l \in BOOLEAN
    BY <1>3, <1>t
  <2>3. a - 1 <= Len(x) + b /\ (o.r # <<>> /\ ~l => Len(x) <= a - 1)
    <3>1. b = IF a = 1 THEN 0 ELSE taken[t]
      BY <1>6, <1>11 DEF b
    <3> DEFINE m == Len(o.rx)
               j == Len(x)
    <3>2. /\ m \in Nat /\ j \in Nat /\ (j = m - 1 \/ j = m)
          /\ o.r # <<>> /\ ~l => j = m - 1 /\ ~leftover[t]
      BY <1>4, <2>1
    <3>3. a <= m + taken[t] /\ (o.r # <<>> /\ ~leftover[t] => m <= a)
      BY <1>6
    <3> HIDE DEF a, o, m, j, l
    <3>4. a - 1 <= j + b /\ (o.r # <<>> /\ ~l => j <= a - 1)
      BY <1>4, <1>6, <3>1, <3>2, <3>3
    <3> QED BY <3>4 DEF j
  <2> HIDE DEF x, k, l, a
  <2> QED BY <1>9, <2>1, <2>2, <2>3
<1> QED BY <1>10, <1>11

\* A process blocks in a read.
LEMMA ReadBlocksInv ==
  ASSUME IInv, NEW t \in Tty, NEW len \in Nat, UserRuns, ~InKernel, ReadBlocks(t, len), UNCHANGED output
  PROVE  IInv'
<1> DEFINE p == running
           o == ttys[t]
           q == Append(o.r, p)
           e == Readers(o, q)
           f == io[p]
           y == [f EXCEPT !.tty = t, !.len = len]
<1>t. /\ TypeOK /\ HistoryType /\ Placed /\ Writing /\ Reading /\ Counted /\ InputInOrder
      /\ ttys \in [Tty -> Terminal] /\ o \in Terminal /\ o.r \in Seq(Proc)
      /\ main_queue \in Seq(Proc) /\ io \in [Proc -> Request]
      /\ inside \in [Proc -> {"write", "read", None}] /\ None # "read"
      /\ typed \in [Tty -> [lines : Nat, bytes : Nat]] /\ delivered \in [Tty -> Nat]
      /\ taken \in [Tty -> Nat] /\ leftover \in [Tty -> BOOLEAN]
  BY TtyAssumption, Fields DEF IInv, TypeOK, HistoryType
<1>1. /\ p \in Proc /\ inside[p] = None /\ o.rx = <<>> /\ io' = [io EXCEPT ![p] = y]
      /\ ttys' = [ttys EXCEPT ![t] = e] /\ inside' = [inside EXCEPT ![p] = "read"]
      /\ SwitchToNext(main_queue)
      /\ typed' = typed /\ delivered' = delivered /\ taken' = taken /\ leftover' = leftover
  BY <1>t DEF ReadBlocks, UserRuns, InKernel, input, Readers
<1>2. running' \in Proc \union {Idle} /\ main_queue' \in Seq(Proc)
  BY <1>1, <1>t, SwitchType
<1>3. f \in Request /\ q \in Seq(Proc)
  BY <1>1, <1>t
<1> HIDE DEF f
<1>4. y \in Request /\ y.tty = t /\ y.total = f.total /\ y.sent = f.sent
  BY <1>3 DEF Request
<1> HIDE DEF y, q
<1>5. /\ io' \in [Proc -> Request] /\ io'[p] = y /\ \A r \in Proc : r # p => io'[r] = io[r]
      /\ inside' \in [Proc -> {"write", "read", None}] /\ inside'[p] = "read"
      /\ \A r \in Proc : r # p => inside'[r] = inside[r]
  BY <1>1, <1>4, <1>t
<1>6. \A r \in Proc : io'[r].total = io[r].total /\ io'[r].sent = io[r].sent
  BY <1>4, <1>5 DEF f
<1>7. /\ e \in Terminal /\ e.tx_owner = o.tx_owner /\ e.tx_last_chunk = o.tx_last_chunk
      /\ e.w = o.w /\ e.rx = o.rx /\ e.r = q
  BY <1>3, <1>t, ReadersFacts
<1> HIDE DEF e
<1>8. /\ TypeOK' /\ HistoryType' /\ Writing'
      /\ ttys'[t] = e /\ \A u \in Tty : u # t => ttys'[u] = ttys[u]
      /\ \A u \in Tty : Owner(ttys'[u]) = Owner(ttys[u]) /\ ttys'[u].w = ttys[u].w
  BY <1>1, <1>2, <1>5, <1>6, <1>7, <1>t, InputRest
<1>9. Placed'
  <2>1. \A u \in Tty :
          /\ Owner(ttys'[u]) = IF "r" = "owner" /\ u = t THEN Append(Owner(ttys[u]), p)
                               ELSE Owner(ttys[u])
          /\ ttys'[u].w = IF "r" = "w" /\ u = t THEN Append(ttys[u].w, p) ELSE ttys[u].w
          /\ ttys'[u].r = IF "r" = "r" /\ u = t THEN Append(ttys[u].r, p) ELSE ttys[u].r
    BY <1>7, <1>8 DEF q
  <2> QED BY <1>1, <1>8, <1>t, <2>1, BlockPlaced
<1>10. InputInOrder'
  <2>1. \A u \in Tty : ttys'[u].rx = ttys[u].rx
    BY <1>7, <1>8
  <2> QED BY <1>1, <1>t, <2>1, InputSame
<1>11. Range(q) = Range(o.r) \union {p}
  BY <1>1, <1>t, AppendFacts DEF q
<1>12. \A u \in Tty : \A r \in Range(ttys[u].r) : r \in Proc /\ r # p
  BY <1>t, Apart
<1>13. Reading'
  <2>1. \A r \in Proc : inside'[r] = "read" => io'[r].tty \in Tty
    BY <1>4, <1>5, <1>t DEF Reading
  <2>2. ASSUME NEW u \in Tty, NEW r \in Range(ttys'[u].r)
        PROVE  inside'[r] = "read" /\ io'[r].tty = u
    <3>1. CASE r = p /\ u = t
      BY <1>4, <1>5, <3>1
    <3>2. CASE r \in Range(ttys[u].r)
      BY <1>5, <1>12, <1>t, <3>2 DEF Reading
    <3> QED BY <1>7, <1>8, <1>11, <3>1, <3>2
  <2> QED BY <2>1, <2>2 DEF Reading
<1>14. ASSUME NEW u \in Tty PROVE Woken(u)' = Woken(u)
  <2>1. p \notin Woken(u)
    BY <1>1, <1>t DEF Woken
  <2>2. ~(io'[p].tty = u /\ p \notin Range(ttys'[u].r))
    BY <1>4, <1>5, <1>7, <1>8, <1>11
  <2>3. ASSUME NEW r \in Proc, r # p
        PROVE  r \notin Range(ttys'[u].r) <=> r \notin Range(ttys[u].r)
    BY <1>7, <1>8, <1>11, <2>3
  <2>4. Woken(u)' = {r \in Proc : inside'[r] = "read" /\ io'[r].tty = u /\ r \notin Range(ttys'[u].r)}
    BY DEF Woken
  <2>5. \A r \in Proc : r # p =>
          ((inside'[r] = "read" /\ io'[r].tty = u /\ r \notin Range(ttys'[u].r)) <=> r \in Woken(u))
    BY <1>5, <2>3 DEF Woken
  <2>6. Woken(u) \subseteq Proc
    BY DEF Woken
  <2> QED BY <2>1, <2>2, <2>4, <2>5, <2>6
<1>15. Counted'
  <2>1. ASSUME NEW u \in Tty
        PROVE  /\ Cardinality(Woken(u)) <= Len(ttys'[u].rx) + taken'[u]
               /\ ttys'[u].r # <<>> /\ ~leftover'[u] => Len(ttys'[u].rx) <= Cardinality(Woken(u))
    <3>1. CASE u # t
      BY <1>1, <1>8, <1>t, <3>1 DEF Counted
    <3>2. CASE u = t
      <4>1. Cardinality(Woken(u)) \in Nat /\ Len(ttys'[u].rx) = 0 /\ ttys'[u].rx = ttys[u].rx
        BY <1>1, <1>7, <1>8, <3>2, WokenFinite
      <4>2. Cardinality(Woken(u)) <= Len(ttys[u].rx) + taken[u]
        BY <1>t DEF Counted
      <4> QED BY <1>1, <4>1, <4>2
    <3> QED BY <3>1, <3>2
  <2> QED BY <1>14, <2>1 DEF Counted
<1> QED BY <1>8, <1>9, <1>10, <1>13, <1>15 DEF IInv

\* The readers that are left when a line has woken the first, if there is one.
LEMMA RestOfReaders ==
  ASSUME NEW t \in Tty, ttys[t].r \in Seq(Proc)
  PROVE  /\ ttys[t].r = <<>> => rq_pop(t) = <<>> /\ SubSeq(ttys[t].r, Len(rq_pop(t)) + 1, Len(ttys[t].r)) = <<>>
         /\ ttys[t].r # <<>> => /\ rq_pop(t) = <<Head(ttys[t].r)>>
                                /\ SubSeq(ttys[t].r, Len(rq_pop(t)) + 1, Len(ttys[t].r)) = Tail(ttys[t].r)
<1> DEFINE s == ttys[t].r
<1>1. CASE s = <<>>
  <2>1. rq_pop(t) = <<>> /\ Len(rq_pop(t)) = 0 /\ Len(s) = 0
    BY <1>1 DEF rq_pop
  <2>2. SubSeq(s, 1, 0) = <<>>
    BY <1>1
  <2> QED BY <1>1, <2>1, <2>2
<1>2. CASE s # <<>>
  <2>1. rq_pop(t) = <<Head(s)>> /\ Len(rq_pop(t)) + 1 = 2
    BY <1>2 DEF rq_pop
  <2>2. Tail(s) = SubSeq(s, 2, Len(s))
    BY <1>2
  <2> QED BY <1>2, <2>1, <2>2
<1> QED BY <1>1, <1>2

\* A line is typed.
LEMMA ReceiveInv ==
  ASSUME IInv, NEW t \in Tty, NEW n \in LineLen, trap_tty_receive_handler(t, n)
  PROVE  IInv'
<1> DEFINE o == ttys[t]
           line == [first |-> typed[t].bytes, len |-> n, off |-> 0]
           x == Append(o.rx, line)
           q == SubSeq(o.r, Len(rq_pop(t)) + 1, Len(o.r))
           e == Input(o, x, q)
           m == Len(o.rx)
           z == [lines |-> typed[t].lines + 1, bytes |-> typed[t].bytes + n]
<1>t. /\ TypeOK /\ HistoryType /\ Placed /\ Writing /\ Reading /\ Counted /\ InputInOrder
      /\ ttys \in [Tty -> Terminal] /\ o \in Terminal /\ o.r \in Seq(Proc) /\ o.rx \in Seq(Line)
      /\ running \in Proc \union {Idle} /\ main_queue \in Seq(Proc) /\ io \in [Proc -> Request]
      /\ inside \in [Proc -> {"write", "read", None}]
      /\ typed \in [Tty -> [lines : Nat, bytes : Nat]] /\ delivered \in [Tty -> Nat]
      /\ taken \in [Tty -> Nat] /\ leftover \in [Tty -> BOOLEAN]
  BY Fields DEF IInv, TypeOK, HistoryType
<1>n. n \in Nat
  BY TtyAssumption
<1>1. /\ typed' = [typed EXCEPT ![t] = z]
      /\ ttys' = [ttys EXCEPT ![t] = e] /\ main_queue' = main_queue \o rq_pop(t)
      /\ leftover' = [leftover EXCEPT ![t] = @ /\ ttys'[t].r # <<>>]
      /\ running' = running /\ io' = io /\ inside' = inside /\ UNCHANGED output
      /\ delivered' = delivered /\ taken' = taken
  BY <1>t DEF trap_tty_receive_handler, tty_receive_done, Input
<1>2. /\ x \in Seq(Line) /\ Len(x) = m + 1 /\ m \in Nat /\ z \in [lines : Nat, bytes : Nat]
      /\ z.bytes = typed[t].bytes + n /\ Left(x, delivered[t], typed[t].bytes + n)
  <2>1. typed[t].bytes \in Nat /\ typed[t].lines \in Nat /\ delivered[t] \in Nat
    BY <1>t
  <2>2. Left(o.rx, delivered[t], typed[t].bytes)
    BY <1>t, InputIsLeft
  <2>3. x \in Seq(Line) /\ Len(x) = m + 1 /\ Left(x, delivered[t], typed[t].bytes + n)
    BY <1>n, <1>t, <2>1, <2>2, LineArrives
  <2>4. typed[t].bytes + n \in Nat /\ typed[t].lines + 1 \in Nat
    BY <1>n, <2>1
  <2>5. m \in Nat
    BY <1>t
  <2> HIDE DEF x, line
  <2> QED BY <2>3, <2>4, <2>5
<1> HIDE DEF x, z, line
<1>3. /\ o.r = <<>> => rq_pop(t) = <<>> /\ q = <<>>
      /\ o.r # <<>> => rq_pop(t) = <<Head(o.r)>> /\ q = Tail(o.r)
  BY <1>t, RestOfReaders
<1> HIDE DEF q
<1>4. q \in Seq(Proc) /\ main_queue' \in Seq(Proc)
  <2>1. CASE o.r = <<>>
    BY <1>1, <1>3, <1>t, <2>1
  <2>2. CASE o.r # <<>>
    <3>1. Head(o.r) \in Proc /\ Tail(o.r) \in Seq(Proc)
      BY <1>t, <2>2, TailFacts
    <3>2. main_queue' = main_queue \o <<Head(o.r)>>
      BY <1>1, <1>3, <2>2
    <3> DEFINE h == Head(o.r)
    <3>3. h \in Proc /\ main_queue' = main_queue \o <<h>>
      BY <3>1, <3>2
    <3> HIDE DEF h
    <3>4. main_queue' \in Seq(Proc)
      BY <1>t, <3>3
    <3> QED BY <1>3, <2>2, <3>1, <3>4
  <2> QED BY <2>1, <2>2
<1>5. /\ e \in Terminal /\ e.tx_owner = o.tx_owner /\ e.tx_last_chunk = o.tx_last_chunk
      /\ e.w = o.w /\ e.rx = x /\ e.r = q
  BY <1>2, <1>4, <1>t, InputFacts
<1> HIDE DEF e
<1>6. ttys'[t] = e
  BY <1>1, <1>t
<1>7. /\ typed' \in [Tty -> [lines : Nat, bytes : Nat]] /\ typed'[t] = z
      /\ leftover' \in [Tty -> BOOLEAN] /\ leftover'[t] = (leftover[t] /\ q # <<>>)
      /\ \A u \in Tty : u # t => typed'[u] = typed[u] /\ leftover'[u] = leftover[u]
  BY <1>1, <1>2, <1>5, <1>6, <1>t
<1>8. /\ TypeOK' /\ HistoryType' /\ Writing'
      /\ ttys'[t] = e /\ \A u \in Tty : u # t => ttys'[u] = ttys[u]
      /\ \A u \in Tty : Owner(ttys'[u]) = Owner(ttys[u]) /\ ttys'[u].w = ttys[u].w
  BY <1>1, <1>4, <1>5, <1>7, <1>t, InputRest
<1>9. InputInOrder'
  <2>1. ASSUME NEW u \in Tty PROVE Left(ttys'[u].rx, delivered'[u], typed'[u].bytes)
    <3>1. CASE u = t
      BY <1>1, <1>2, <1>5, <1>7, <1>8, <3>1
    <3>2. CASE u # t
      BY <1>1, <1>7, <1>8, <1>t, <3>2, InputIsLeft
    <3> QED BY <3>1, <3>2
  <2> QED BY <2>1, InputNext
<1>10. Range(q) \subseteq Range(o.r)
  <2>1. CASE o.r = <<>>
    BY <1>3, <2>1
  <2>2. CASE o.r # <<>>
    BY <1>3, <1>t, <2>2, TailFacts
  <2> QED BY <2>1, <2>2
<1>11. Reading'
  <2>1. \A u \in Tty : Range(ttys'[u].r) \subseteq Range(ttys[u].r)
    BY <1>5, <1>8, <1>10
  <2> QED BY <1>1, <1>t, <2>1 DEF Reading
<1>12. ASSUME NEW u \in Tty, u # t PROVE Woken(u)' = Woken(u)
  BY <1>1, <1>8, <1>12 DEF Woken
<1>13. ASSUME NEW a \in Nat, Cardinality(Woken(t)') = a, a <= (m + 1) + taken[t],
              q # <<>> /\ ~leftover[t] => m + 1 <= a
       PROVE  Counted'
  <2>1. ASSUME NEW u \in Tty
        PROVE  /\ Cardinality(Woken(u)') <= Len(ttys'[u].rx) + taken'[u]
               /\ ttys'[u].r # <<>> /\ ~leftover'[u] => Len(ttys'[u].rx) <= Cardinality(Woken(u)')
    <3>1. CASE u # t
      BY <1>1, <1>7, <1>8, <1>12, <1>t, <3>1 DEF Counted
    <3>2. CASE u = t
      <4>1. Cardinality(Woken(u)') = a /\ ttys'[u].rx = x /\ ttys'[u].r = q /\ taken'[u] = taken[t]
            /\ leftover'[u] = (leftover[t] /\ q # <<>>)
        BY <1>1, <1>5, <1>7, <1>8, <1>13, <3>2
      <4>2. Len(ttys'[u].rx) = m + 1
        BY <1>2, <4>1
      <4> HIDE DEF m
      <4> QED BY <1>13, <4>1, <4>2
    <3> QED BY <3>1, <3>2
  <2> QED BY <2>1 DEF Counted
<1>14. /\ IsFiniteSet(Woken(t)) /\ Cardinality(Woken(t)) \in Nat /\ taken[t] \in Nat
       /\ Cardinality(Woken(t)) <= m + taken[t]
       /\ o.r # <<>> /\ ~leftover[t] => m <= Cardinality(Woken(t))
  BY <1>t, WokenFinite DEF Counted
<1>15. CASE o.r = <<>>
  <2>1. \A u \in Tty : ttys'[u].r = ttys[u].r
    BY <1>3, <1>5, <1>8, <1>15
  <2>2. main_queue' = main_queue
    BY <1>1, <1>3, <1>15, <1>t
  <2>3. Placed'
    BY <1>1, <1>8, <1>t, <2>1, <2>2, QuietPlaced
  <2>4. Woken(t)' = Woken(t)
    BY <1>1, <2>1 DEF Woken
  <2>5. Counted'
    <3> DEFINE a == Cardinality(Woken(t))
    <3>1. a \in Nat /\ Cardinality(Woken(t)') = a /\ a <= m + taken[t] /\ q = <<>> /\ taken[t] \in Nat
      BY <1>3, <1>14, <1>15, <2>4
    <3> HIDE DEF a, m
    <3>2. a <= (m + 1) + taken[t]
      BY <1>2, <3>1
    <3> QED BY <1>13, <3>1, <3>2
  <2> QED BY <1>8, <1>9, <1>11, <2>3, <2>5 DEF IInv
<1>16. CASE o.r # <<>>
  <2> DEFINE h == Head(o.r)
  <2>1. /\ h \in Proc /\ h \in Range(o.r) /\ h \notin Range(q) /\ Range(o.r) = Range(q) \union {h}
        /\ q = Tail(o.r)
    <3>1. IsInjective(o.r) /\ q = Tail(o.r)
      BY <1>3, <1>16, <1>t, Apart
    <3> QED BY <1>16, <1>t, <3>1, TailFacts
  <2>2. main_queue' = Append(main_queue, h)
    <3>1. main_queue' = main_queue \o <<h>>
      BY <1>1, <1>3, <1>16
    <3> HIDE DEF h
    <3> QED BY <1>t, <2>1, <3>1
  <2>3. Placed'
    <3>1. ttys'[t].r = Tail(ttys[t].r) /\ \A u \in Tty : u # t => ttys'[u].r = ttys[u].r
      BY <1>5, <1>8, <2>1
    <3> QED BY <1>1, <1>8, <1>16, <1>t, <2>2, <3>1, WakePlaced
  <2> HIDE DEF h
  <2>4. inside[h] = "read" /\ io[h].tty = t
    BY <1>t, <2>1 DEF Reading
  <2>5. Woken(t)' = Woken(t) \union {h} /\ h \notin Woken(t)
    <3>1. ttys'[t].r = q
      BY <1>5, <1>8
    <3>2. Woken(t)' = {r \in Proc : inside[r] = "read" /\ io[r].tty = t /\ r \notin Range(q)}
      BY <1>1, <3>1 DEF Woken
    <3> QED BY <2>1, <2>4, <3>2 DEF Woken
  <2>6. Counted'
    <3> DEFINE b == Cardinality(Woken(t))
               a == b + 1
    <3>1. Cardinality(Woken(t)') = a
      BY <1>14, <2>5, FS_AddElement
    <3>2. /\ b \in Nat /\ b <= m + taken[t] /\ taken[t] \in Nat
          /\ ~leftover[t] => m <= b
      BY <1>14, <1>16
    <3> HIDE DEF b, m
    <3>3. a \in Nat /\ a <= (m + 1) + taken[t] /\ (~leftover[t] => m + 1 <= a)
      BY <1>2, <3>2
    <3> HIDE DEF a
    <3> QED BY <1>13, <3>1, <3>3
  <2> QED BY <1>8, <1>9, <1>11, <2>3, <2>6 DEF IInv
<1> QED BY <1>15, <1>16

\* It holds at the start.
LEMMA InitInv == Init => IInv
<1> SUFFICES ASSUME Init PROVE IInv
  OBVIOUS
<1>q. main_queue \in Seq(Proc) /\ IsInjective(main_queue) /\ Range(main_queue) = Proc
  BY TtyAssumption, SetToSeqFacts DEF Init
<1> DEFINE o == [tx_owner |-> None, tx_last_chunk |-> 0, w |-> <<>>, rx |-> <<>>, r |-> <<>>]
<1>1. /\ o \in Terminal /\ o.tx_owner = None /\ o.w = <<>> /\ o.rx = <<>> /\ o.r = <<>>
      /\ ttys \in [Tty -> Terminal] /\ \A t \in Tty : ttys[t] = o
  <2>1. o \in Terminal
    BY TtyAssumption DEF Terminal
  <2>2. ttys = [t \in Tty |-> o]
    BY DEF Init, init_tty
  <2>3. o.tx_owner = None /\ o.w = <<>> /\ o.rx = <<>> /\ o.r = <<>>
    OBVIOUS
  <2> HIDE DEF o
  <2> QED BY <2>1, <2>2, <2>3
<1> HIDE DEF o
<1>2. /\ running = Idle /\ io \in [Proc -> Request] /\ inside \in [Proc -> {"write", "read", None}]
      /\ \A p \in Proc : inside[p] = None /\ None # "read"
  BY TtyAssumption DEF Init, Request
<1>3. TypeOK
  BY <1>q, <1>1, <1>2 DEF TypeOK
<1>4. /\ \A t \in Tty : /\ calls[t] = <<>> /\ screen[t] = <<>> /\ typed[t].bytes = 0
                        /\ delivered[t] = 0 /\ taken[t] = 0
      /\ HistoryType
  BY DEF Init, HistoryType
<1>5. Placed
  <2>1. /\ Queues \in Family(QueueName) /\ Queues[Main] = main_queue /\ DOMAIN Queues = QueueName
        /\ \A t \in Tty : /\ Queues[<<"owner", t>>] = <<>>
                          /\ Queues[<<"w", t>>] = <<>> /\ Queues[<<"r", t>>] = <<>>
    BY <1>1, <1>3, QueuesFacts, OwnerFacts DEF Family
  <2>2. ASSUME NEW k \in QueueName, k # Main PROVE Queues[k] = <<>>
    <3>1. PICK t \in Tty : k = <<"owner", t>> \/ k = <<"w", t>> \/ k = <<"r", t>>
      BY <2>2, Names
    <3> QED BY <2>1, <3>1
  <2>3. /\ \A k \in QueueName : k # Main => IsInjective(Queues[k]) /\ Range(Queues[k]) = {}
        /\ IsInjective(Queues[Main]) /\ Range(Queues[Main]) = Proc /\ Main \in QueueName
    BY <1>q, <2>1, <2>2, EmptyFacts, Names
  <2>4. Separate(running, Queues)
    BY <1>2, <2>1, <2>3, IdleAssumption DEF Separate
  <2>5. Proc \subseteq Members(Queues)
    BY <2>1, <2>3 DEF Members
  <2> QED BY <2>4, <2>5 DEF Placed
<1>6. Writing
  <2> SUFFICES ASSUME NEW t \in Tty
               PROVE  Sending(ttys[t], io, calls[t], device[t], screen[t], 0)
    BY DEF Writing
  <2>1. Shown(screen[t]) = <<0, 0>> /\ Len(calls[t]) = 0 /\ ttys[t].tx_owner = None /\ ttys[t].w = <<>>
    BY <1>1, <1>4 DEF Shown
  <2>2. \A c \in 1..0 : FALSE
    OBVIOUS
  <2> QED BY <2>1, <2>2 DEF Sending
<1>7. Reading
  BY <1>1, <1>2, EmptyFacts DEF Reading
<1>8. Counted
  <2>1. \A t \in Tty : Woken(t) = {}
    BY <1>2 DEF Woken
  <2>2. \A t \in Tty : Cardinality(Woken(t)) = 0
    BY <2>1, FS_EmptySet
  <2>3. \A t \in Tty : Len(ttys[t].rx) = 0 /\ taken[t] = 0
    BY <1>1, <1>4
  <2> QED BY <2>2, <2>3 DEF Counted
<1>9. InputInOrder
  <2>1. \A t \in Tty : Left(ttys[t].rx, delivered[t], typed[t].bytes)
    BY <1>1, <1>4 DEF Left
  <2> QED BY <2>1, InputIsLeft
<1> QED BY <1>3, <1>4, <1>5, <1>6, <1>7, <1>8, <1>9 DEF IInv

\* A step that changes none of the variables.
LEMMA StutterInv ==
  ASSUME IInv, UNCHANGED vars
  PROVE  IInv'
<1>t. TypeOK /\ HistoryType /\ Placed /\ Writing /\ Reading /\ Counted /\ InputInOrder
  BY DEF IInv
<1>1. /\ running' = running /\ main_queue' = main_queue /\ ttys' = ttys /\ io' = io /\ inside' = inside
      /\ UNCHANGED output /\ device' = device /\ calls' = calls /\ screen' = screen
      /\ typed' = typed /\ delivered' = delivered /\ taken' = taken /\ leftover' = leftover
  BY DEF vars, output, input
<1>2. TypeOK'
  BY <1>1, <1>t DEF TypeOK
<1>3. HistoryType'
  BY <1>1, <1>t DEF HistoryType
<1>4. Placed'
  BY <1>1, <1>2, <1>t, QuietPlaced
<1>5. Writing'
  BY <1>1, <1>2, <1>t, WritesSame
<1>6. Reading' /\ Counted'
  BY <1>1, <1>t, ReadsSame
<1>7. InputInOrder'
  BY <1>1, <1>t, InputSame
<1> QED BY <1>2, <1>3, <1>4, <1>5, <1>6, <1>7 DEF IInv

\* Every step keeps it.
LEMMA NextInv == IInv /\ [Next]_vars => IInv'
<1> SUFFICES ASSUME IInv, [Next]_vars PROVE IInv'
  OBVIOUS
<1>1. ASSUME NEW t \in Tty, NEW n \in WriteLen, kernel_tty_write(t, n) PROVE IInv'
  BY <1>1, WriteInv
<1>2. ASSUME NEW t \in Tty, NEW n \in ReadLen, kernel_tty_read(t, n) PROVE IInv'
  <2>1. n \in Nat
    BY TtyAssumption
  <2>2. UserRuns /\ ~InKernel /\ UNCHANGED output /\ (ReadNow(t, n) \/ ReadBlocks(t, n))
    BY <1>2 DEF kernel_tty_read
  <2>3. CASE ReadNow(t, n)
    BY <2>1, <2>2, <2>3, ReadNowInv
  <2>4. CASE ReadBlocks(t, n)
    BY <2>1, <2>2, <2>4, ReadBlocksInv
  <2> QED BY <2>2, <2>3, <2>4
<1>3. ASSUME NEW t \in Tty, NEW n \in LineLen, trap_tty_receive_handler(t, n) PROVE IInv'
  BY <1>3, ReceiveInv
<1>4. ASSUME NEW t \in Tty, trap_tty_transmit_handler(t) PROVE IInv'
  BY <1>4, TransmitInv
<1>5. CASE WriteReturns
  BY <1>5, WriteReturnsInv
<1>6. CASE ReadReturns
  BY <1>6, ReadReturnsInv
<1>7. CASE trap_clock_handler
  BY <1>7, ClockInv
<1>8. CASE UNCHANGED vars
  BY <1>8, StutterInv
<1> QED BY <1>1, <1>2, <1>3, <1>4, <1>5, <1>6, <1>7, <1>8 DEF Next, Resume

\* The invariant holds in every state.
LEMMA InvHolds == Spec => []IInv
BY InitInv, NextInv, PTL DEF Spec

\* Who is separate from the queues, or on one of them, is in one place.
LEMMA OncePlaced == TypeOK /\ Placed => PlacedOnce
<1> DEFINE Ready(p) == {<<"ready", i>> : i \in {j \in DOMAIN main_queue : main_queue[j] = p}}
           Owns(p) == {<<"owner", t>> : t \in {u \in Tty : ttys[u].tx_owner = p}}
           W(p, t) == {<<"w", t, i>> : i \in {j \in DOMAIN ttys[t].w : ttys[t].w[j] = p}}
           R(p, t) == {<<"r", t, i>> : i \in {j \in DOMAIN ttys[t].r : ttys[t].r[j] = p}}
           Places(p) == (IF running = p THEN {<<"running">>} ELSE {}) \union Ready(p) \union Owns(p)
                        \union UNION {W(p, t) \union R(p, t) : t \in Tty}
<1> SUFFICES ASSUME TypeOK, Placed, NEW p \in Proc PROVE Cardinality(Places(p)) = 1
  BY DEF PlacedOnce
<1>q. /\ Queues \in Family(QueueName) /\ Queues[Main] = main_queue /\ DOMAIN Queues = QueueName
      /\ \A t \in Tty : /\ Queues[<<"owner", t>>] = Owner(ttys[t])
                        /\ Queues[<<"w", t>>] = ttys[t].w /\ Queues[<<"r", t>>] = ttys[t].r
      /\ main_queue \in Seq(Proc) /\ \A t \in Tty : ttys[t] \in Terminal
  BY QueuesFacts DEF TypeOK, Family
<1>w. \A t \in Tty : ttys[t].w \in Seq(Proc) /\ ttys[t].r \in Seq(Proc)
  BY <1>q, Fields
<1>n. /\ Main \in QueueName
      /\ \A t \in Tty : <<"owner", t>> \in QueueName /\ <<"w", t>> \in QueueName /\ <<"r", t>> \in QueueName
      /\ \A t \in Tty : <<"owner", t>> # Main /\ <<"w", t>> # Main /\ <<"r", t>> # Main
      /\ \A t, u \in Tty : /\ <<"owner", t>> # <<"w", u>> /\ <<"owner", t>> # <<"r", u>>
                           /\ <<"w", t>> # <<"r", u>>
                           /\ t # u => /\ <<"owner", t>> # <<"owner", u>> /\ <<"w", t>> # <<"w", u>>
                                       /\ <<"r", t>> # <<"r", u>>
  BY Names
<1>i. IsInjective(main_queue) /\ \A t \in Tty : IsInjective(ttys[t].w) /\ IsInjective(ttys[t].r)
  BY <1>n, <1>q DEF Placed, Separate
<1>o. \A t \in Tty : ttys[t].tx_owner = p <=> p \in Range(Owner(ttys[t]))
  <2> TAKE t \in Tty
  <2>1. p # None /\ ttys[t] \in Terminal
    BY <1>q, TtyAssumption
  <2> QED BY <2>1, OwnerFacts
<1>1. /\ p \notin Range(main_queue) => Ready(p) = {}
      /\ p \in Range(main_queue) => \E x : Ready(p) = {x}
  <2> DEFINE T == {j \in DOMAIN main_queue : main_queue[j] = p}
  <2>1. /\ p \notin Range(main_queue) => T = {}
        /\ p \in Range(main_queue) => \E i : T = {i}
    <3>1. main_queue \in Seq(Proc) /\ IsInjective(main_queue)
      BY <1>i, <1>q
    <3> QED BY <3>1, OnePlace
  <2>2. Ready(p) = {<<"ready", i>> : i \in T}
    OBVIOUS
  <2> HIDE DEF T, Ready
  <2>3. T = {} => Ready(p) = {}
    BY <2>2
  <2>4. ASSUME NEW i, T = {i} PROVE Ready(p) = {<<"ready", i>>}
    BY <2>2, <2>4
  <2> QED BY <2>1, <2>3, <2>4
<1>2. ASSUME NEW t \in Tty
      PROVE  /\ p \notin Range(ttys[t].w) => W(p, t) = {}
             /\ p \in Range(ttys[t].w) => \E x : W(p, t) = {x}
  <2> DEFINE q == ttys[t].w
  <2>1. q \in Seq(Proc) /\ IsInjective(q)
    BY <1>i, <1>w
  <2> DEFINE T == {j \in DOMAIN q : q[j] = p}
  <2>2. /\ p \notin Range(q) => T = {}
        /\ p \in Range(q) => \E i : T = {i}
    <3> HIDE DEF q
    <3> QED BY <2>1, OnePlace
  <2>3. W(p, t) = {<<"w", t, i>> : i \in T}
    OBVIOUS
  <2> HIDE DEF T, W
  <2>4. T = {} => W(p, t) = {}
    BY <2>3
  <2>5. ASSUME NEW i, T = {i} PROVE W(p, t) = {<<"w", t, i>>}
    BY <2>3, <2>5
  <2> QED BY <2>2, <2>4, <2>5
<1>3. ASSUME NEW t \in Tty
      PROVE  /\ p \notin Range(ttys[t].r) => R(p, t) = {}
             /\ p \in Range(ttys[t].r) => \E x : R(p, t) = {x}
  <2> DEFINE q == ttys[t].r
  <2>1. q \in Seq(Proc) /\ IsInjective(q)
    BY <1>i, <1>w
  <2> DEFINE T == {j \in DOMAIN q : q[j] = p}
  <2>2. /\ p \notin Range(q) => T = {}
        /\ p \in Range(q) => \E i : T = {i}
    <3> HIDE DEF q
    <3> QED BY <2>1, OnePlace
  <2>3. R(p, t) = {<<"r", t, i>> : i \in T}
    OBVIOUS
  <2> HIDE DEF T, R
  <2>4. T = {} => R(p, t) = {}
    BY <2>3
  <2>5. ASSUME NEW i, T = {i} PROVE R(p, t) = {<<"r", t, i>>}
    BY <2>3, <2>5
  <2> QED BY <2>2, <2>4, <2>5
<1>4. /\ (\A t \in Tty : ttys[t].tx_owner # p) => Owns(p) = {}
      /\ \A t \in Tty : ttys[t].tx_owner = p /\ (\A u \in Tty : u # t => ttys[u].tx_owner # p)
                        => Owns(p) = {<<"owner", t>>}
  <2> DEFINE T == {u \in Tty : ttys[u].tx_owner = p}
  <2>1. Owns(p) = {<<"owner", t>> : t \in T}
    OBVIOUS
  <2>2. /\ (\A t \in Tty : ttys[t].tx_owner # p) => T = {}
        /\ \A t \in Tty : ttys[t].tx_owner = p /\ (\A u \in Tty : u # t => ttys[u].tx_owner # p)
                          => T = {t}
    OBVIOUS
  <2> HIDE DEF T, Owns
  <2>3. T = {} => Owns(p) = {}
    BY <2>1
  <2>4. \A t \in Tty : T = {t} => Owns(p) = {<<"owner", t>>}
    BY <2>1
  <2> QED BY <2>2, <2>3, <2>4
<1> HIDE DEF Ready, Owns, W, R
<1>5. \E x : Places(p) = {x}
  <2>1. CASE p = running
    <3>1. /\ p \notin Range(main_queue)
          /\ \A t \in Tty : /\ p \notin Range(Owner(ttys[t])) /\ p \notin Range(ttys[t].w)
                            /\ p \notin Range(ttys[t].r)
      BY <1>n, <1>q, <2>1 DEF Placed, Separate
    <3>2. Ready(p) = {} /\ Owns(p) = {} /\ \A t \in Tty : W(p, t) = {} /\ R(p, t) = {}
      BY <1>1, <1>2, <1>3, <1>4, <1>o, <3>1
    <3>3. Places(p) = {<<"running">>}
      BY <2>1, <3>2
    <3> QED BY <3>3
  <2>2. CASE p # running
    <3>1. PICK k \in QueueName : p \in Range(Queues[k])
      BY <1>q, <2>2 DEF Placed, Members
    <3>2. \A j \in QueueName : j # k => p \notin Range(Queues[j])
      BY <1>q, <3>1 DEF Placed, Separate
    <3>3. CASE k = Main
      <4>1. /\ p \in Range(main_queue)
            /\ \A t \in Tty : /\ p \notin Range(Owner(ttys[t])) /\ p \notin Range(ttys[t].w)
                              /\ p \notin Range(ttys[t].r)
        BY <1>n, <1>q, <3>1, <3>2, <3>3
      <4>2. PICK x : Ready(p) = {x}
        BY <1>1, <4>1
      <4>3. Owns(p) = {} /\ \A t \in Tty : W(p, t) = {} /\ R(p, t) = {}
        BY <1>2, <1>3, <1>4, <1>o, <4>1
      <4>4. Places(p) = {x}
        BY <2>2, <4>2, <4>3
      <4> QED BY <4>4
    <3>4. ASSUME NEW t \in Tty, k = <<"owner", t>> PROVE \E x : Places(p) = {x}
      <4>1. /\ p \in Range(Owner(ttys[t])) /\ p \notin Range(main_queue)
            /\ \A u \in Tty : /\ u # t => p \notin Range(Owner(ttys[u]))
                              /\ p \notin Range(ttys[u].w) /\ p \notin Range(ttys[u].r)
        BY <1>n, <1>q, <3>1, <3>2, <3>4
      <4>2. /\ Ready(p) = {} /\ \A u \in Tty : W(p, u) = {} /\ R(p, u) = {}
            /\ Owns(p) = {<<"owner", t>>}
        BY <1>1, <1>2, <1>3, <1>4, <1>o, <4>1
      <4>3. Places(p) = {<<"owner", t>>}
        BY <2>2, <4>2
      <4> QED BY <4>3
    <3>5. ASSUME NEW t \in Tty, k = <<"w", t>> PROVE \E x : Places(p) = {x}
      <4>1. /\ p \in Range(ttys[t].w) /\ p \notin Range(main_queue)
            /\ \A u \in Tty : /\ u # t => p \notin Range(ttys[u].w)
                              /\ p \notin Range(Owner(ttys[u])) /\ p \notin Range(ttys[u].r)
        BY <1>n, <1>q, <3>1, <3>2, <3>5
      <4>2. PICK x : W(p, t) = {x}
        BY <1>2, <4>1
      <4>3. /\ Ready(p) = {} /\ Owns(p) = {} /\ \A u \in Tty : u # t => W(p, u) = {}
            /\ \A u \in Tty : R(p, u) = {}
        BY <1>1, <1>2, <1>3, <1>4, <1>o, <4>1
      <4>4. Places(p) = {x}
        BY <2>2, <4>2, <4>3
      <4> QED BY <4>4
    <3>6. ASSUME NEW t \in Tty, k = <<"r", t>> PROVE \E x : Places(p) = {x}
      <4>1. /\ p \in Range(ttys[t].r) /\ p \notin Range(main_queue)
            /\ \A u \in Tty : /\ u # t => p \notin Range(ttys[u].r)
                              /\ p \notin Range(Owner(ttys[u])) /\ p \notin Range(ttys[u].w)
        BY <1>n, <1>q, <3>1, <3>2, <3>6
      <4>2. PICK x : R(p, t) = {x}
        BY <1>3, <4>1
      <4>3. /\ Ready(p) = {} /\ Owns(p) = {} /\ \A u \in Tty : u # t => R(p, u) = {}
            /\ \A u \in Tty : W(p, u) = {}
        BY <1>1, <1>2, <1>3, <1>4, <1>o, <4>1
      <4>4. Places(p) = {x}
        BY <2>2, <4>2, <4>3
      <4> QED BY <4>4
    <3> QED BY <3>3, <3>4, <3>5, <3>6, Names
  <2> QED BY <2>1, <2>2
<1> HIDE DEF Places
<1> QED BY <1>5, FS_Singleton
-----------------------------------------------------------------------------
(* Theorems *)

\* The terminals, the requests and the queues have their types: no chunk is
\* longer than TERMINAL_MAX_LINE, however long the text.
THEOREM TypeCorrect == Spec => []TypeOK
<1>1. IInv => TypeOK
  BY DEF IInv
<1> QED BY <1>1, InvHolds, PTL

\* No step of tty.c loses a process, puts it on two queues, or leaves the
\* owner of a terminal on a queue.
THEOREM EverybodyPlacedOnce == Spec => []PlacedOnce
<1>1. IInv => PlacedOnce
  BY OncePlaced DEF IInv
<1> QED BY <1>1, InvHolds, PTL

\* consume_into_user gives every byte that was typed to one reader, in order,
\* also when readers take a line piece by piece.
THEOREM BytesInOrder == Spec => []InputInOrder
<1>1. IInv => InputInOrder
  BY DEF IInv
<1> QED BY <1>1, InvHolds, PTL

\* tty_receive_done wakes one reader per line: a woken reader finds no line
\* only for a line that a process which did not block used up, and a reader
\* stays blocked beside lines only when part of a line was left.
THEOREM LinesMeetReaders == Spec => []OneReaderPerLine
<1>1. IInv => OneReaderPerLine
  <2> SUFFICES ASSUME IInv, NEW t \in Tty
               PROVE  /\ taken[t] >= 0 /\ Cardinality(Woken(t)) <= Len(ttys[t].rx) + taken[t]
                      /\ ttys[t].r # <<>> /\ ttys[t].rx # <<>> /\ Woken(t) = {} => leftover[t]
    BY DEF OneReaderPerLine
  <2>1. taken[t] \in Nat /\ ttys[t].rx \in Seq(Line) /\ leftover[t] \in BOOLEAN
    BY Fields DEF IInv, TypeOK, HistoryType
  <2>2. /\ Cardinality(Woken(t)) <= Len(ttys[t].rx) + taken[t]
        /\ ttys[t].r # <<>> /\ ~leftover[t] => Len(ttys[t].rx) <= Cardinality(Woken(t))
    BY DEF IInv, Counted
  <2>3. ASSUME ttys[t].r # <<>>, ttys[t].rx # <<>>, Woken(t) = {}, ~leftover[t] PROVE FALSE
    <3>1. Cardinality(Woken(t)) = 0
      BY <2>3, FS_EmptySet
    <3>2. Len(ttys[t].rx) \in Nat \ {0}
      BY <2>1, <2>3
    <3> QED BY <2>2, <2>3, <3>1, <3>2
  <2> QED BY <2>1, <2>2, <2>3
<1> QED BY <1>1, InvHolds, PTL
-----------------------------------------------------------------------------
(* The terminals implement TtyStream *)

LEMMA OneFact == One \in Tty
BY TtyAssumption DEF One

\* A step that TtyStream does not see.
LEMMA StreamSame ==
  ASSUME calls'[One] = calls[One], screen'[One] = screen[One],
         \A p \in Proc : (inside'[p] = "write" /\ io'[p].tty = One)
                         <=> (inside[p] = "write" /\ io[p].tty = One)
  PROVE  UNCHANGED Stream!vars
<1>1. {p \in Proc : inside'[p] = "write" /\ io'[p].tty = One}
        = {p \in Proc : inside[p] = "write" /\ io[p].tty = One}
  OBVIOUS
<1> QED BY <1>1 DEF Stream!vars

\* The write whose text TtyStream expects is the owner's, after the bytes that
\* it has sent.
LEMMA OwnersTurn ==
  ASSUME IInv, ttys[One].tx_owner # None, NEW d \in Nat,
         Sending(ttys[One], io, calls[One], device[One], screen[One], d)
  PROVE  /\ Stream!Turn = d + 1 /\ Stream!Offset = io[ttys[One].tx_owner].sent
         /\ d + 1 \in DOMAIN calls[One]
         /\ calls[One][d + 1].len = io[ttys[One].tx_owner].total
<1> DEFINE o == ttys[One]
           cs == calls[One]
           a == io[o.tx_owner].sent
           b == io[o.tx_owner].total
<1>t. o \in Terminal /\ cs \in Seq(Call) /\ a \in Nat /\ b \in Nat /\ Len(o.w) \in Nat
  <2>1. o \in Terminal /\ cs \in Seq(Call) /\ io \in [Proc -> Request]
    BY OneFact DEF IInv, TypeOK, HistoryType
  <2>2. io[o.tx_owner] \in Request
    BY <2>1, WritersFacts
  <2> QED BY <2>1, <2>2, Fields, WritersFacts
<1>1. /\ Len(cs) = d + 1 + Len(o.w) /\ cs[d + 1] = [proc |-> o.tx_owner, len |-> b] /\ a < b
  BY DEF Sending
<1>s. a > 0 => Shown(screen[One]) = <<d + 1, a>>
  BY DEF Sending
<1>e. ~(a > 0) /\ d = 0 => Shown(screen[One]) = <<0, 0>>
  BY DEF Sending
<1>f. ~(a > 0) /\ d # 0 => Shown(screen[One]) = <<d, cs[d].len>>
  BY DEF Sending
<1>2. DOMAIN cs = 1..(d + 1 + Len(o.w)) /\ cs[d + 1].len = b
  BY <1>1, <1>t
<1>3. d + 1 \in DOMAIN cs /\ (d # 0 => d \in DOMAIN cs)
  <2> DEFINE m == Len(o.w)
  <2>1. m \in Nat /\ DOMAIN cs = 1..(d + 1 + m)
    BY <1>2, <1>t
  <2> HIDE DEF m, cs
  <2> QED BY <2>1
<1>4. d # 0 => cs[d].len \in Nat
  <2>1. \A c \in DOMAIN cs : cs[c] \in Call
    BY <1>t
  <2> HIDE DEF cs
  <2> QED BY <1>3, <2>1 DEF Call
<1>5. Stream!Shown = Shown(screen[One])
  BY DEF Stream!Shown, Shown, Last, Stream!Last
<1>6. /\ Stream!InMiddle <=> Stream!Shown[1] > 0 /\ Stream!Shown[2] < cs[Stream!Shown[1]].len
      /\ Stream!Turn = IF Stream!InMiddle THEN Stream!Shown[1] ELSE Stream!Shown[1] + 1
      /\ Stream!Offset = IF Stream!InMiddle THEN Stream!Shown[2] ELSE 0
  BY DEF Stream!InMiddle, Stream!Turn, Stream!Offset
<1> HIDE DEF o, cs, a, b
<1>7. CASE a > 0
  <2>1. Stream!Shown[1] = d + 1 /\ Stream!Shown[2] = a
    BY <1>5, <1>7, <1>s
  <2>2. Stream!InMiddle
    <3>1. d + 1 > 0 /\ a < b /\ cs[d + 1].len = b
      BY <1>1, <1>2
    <3>2. Stream!Shown[1] > 0 /\ Stream!Shown[2] < cs[Stream!Shown[1]].len
      BY <2>1, <3>1
    <3> QED BY <1>6, <3>2
  <2>3. Stream!Turn = d + 1 /\ Stream!Offset = a
    BY <1>6, <2>1, <2>2
  <2> QED BY <1>2, <1>3, <2>3 DEF o, cs, a, b
<1>8. CASE a = 0
  <2>1. CASE d = 0
    <3>1. Stream!Shown[1] = 0
      BY <1>5, <1>8, <1>e, <2>1
    <3>2. ~Stream!InMiddle
      BY <1>6, <3>1
    <3>3. Stream!Turn = d + 1 /\ Stream!Offset = a
      BY <1>6, <1>8, <2>1, <3>1, <3>2
    <3> QED BY <1>2, <1>3, <3>3 DEF o, cs, a, b
  <2>2. CASE d # 0
    <3>0. Stream!Shown = <<d, cs[d].len>>
      BY <1>5, <1>8, <1>f, <2>2
    <3>1. Stream!Shown[1] = d /\ Stream!Shown[2] = cs[d].len
      BY <3>0
    <3>2. ~Stream!InMiddle
      BY <1>4, <1>6, <2>2, <3>1
    <3>3. Stream!Turn = d + 1 /\ Stream!Offset = a
      BY <1>6, <1>8, <3>1, <3>2
    <3> QED BY <1>2, <1>3, <3>3 DEF o, cs, a, b
  <2> QED BY <2>1, <2>2
<1> QED BY <1>7, <1>8, <1>t

\* The text of every write of the running process has appeared.
LEMMA RunningHasSent ==
  ASSUME IInv, NEW c \in DOMAIN calls[One], calls[One][c].proc = running
  PROVE  <<c, calls[One][c].len>> \in ToSet(screen[One])
<1> DEFINE o == ttys[One]
           cs == calls[One]
<1>t. /\ TypeOK /\ Placed /\ Writing /\ o \in Terminal /\ cs \in Seq(Call) /\ One \in Tty
  BY OneFact DEF IInv, TypeOK, HistoryType
<1>1. PICK d \in Nat : Sending(o, io, cs, device[One], screen[One], d)
  BY <1>t DEF Writing
<1>2. /\ Len(o.w) \in Nat /\ \A i \in 1..Len(o.w) : o.w[i] # running
      /\ o.tx_owner # None => o.tx_owner # running
  BY <1>t, WritersFacts, Apart
<1>3. c \in 1..Len(cs) /\ cs[c].proc = running
  BY <1>t
<1> HIDE DEF cs, o
<1>4. c \in 1..d
  <2>1. CASE o.tx_owner = None
    BY <1>1, <1>3, <2>1 DEF Sending
  <2>2. CASE o.tx_owner # None
    <3>1. /\ Len(cs) = d + 1 + Len(o.w)
          /\ cs[d + 1] = [proc |-> o.tx_owner, len |-> io[o.tx_owner].total]
          /\ \A i \in 1..Len(o.w) : cs[d + 1 + i] = [proc |-> o.w[i], len |-> io[o.w[i]].total]
      BY <1>1, <2>2 DEF Sending
    <3>2. c # d + 1
      <4>1. cs[d + 1].proc = o.tx_owner
        BY <3>1
      <4> QED BY <1>2, <1>3, <2>2, <4>1
    <3>3. ~(c > d + 1)
      <4> SUFFICES ASSUME c > d + 1 PROVE FALSE
        OBVIOUS
      <4>0. d + 1 \in Nat /\ c \in 1..Len(cs)
        BY <1>3
      <4>1. d + 1 \in Nat /\ c \in 1..(d + 1 + Len(o.w))
        BY <3>1, <4>0
      <4>2. PICK i \in 1..Len(o.w) : d + 1 + i = c
        BY <1>2, <4>1, IndexAfter
      <4>3. cs[d + 1 + i] = [proc |-> o.w[i], len |-> io[o.w[i]].total]
        BY <3>1
      <4>4. cs[d + 1 + i].proc = o.w[i]
        BY <4>3
      <4> QED BY <1>2, <1>3, <4>2, <4>4
    <3>4. c \in Nat /\ c >= 1
      BY <1>3
    <3> QED BY <3>2, <3>3, <3>4
  <2> QED BY <2>1, <2>2
<1>5. <<c, cs[c].len>> \in Range(screen[One])
  BY <1>1, <1>4 DEF Sending
<1> QED BY <1>5 DEF cs, Range, ToSet

\* tty.c implements TtyStream: whatever the texts and their chunks, the writes
\* to a terminal appear whole, one after the other and in the order of the
\* calls, and a call returns once its text is on the screen.
THEOREM TtyImplementsStream == Spec => ImplementsStream
<1> SUFFICES Spec => Stream!Spec
  BY DEF ImplementsStream
<1>0. One \in Tty
  BY OneFact
<1>1. Init => Stream!Init
  <2> SUFFICES ASSUME Init PROVE Stream!Init
    OBVIOUS
  <2>1. calls[One] = <<>> /\ screen[One] = <<>>
    BY <1>0 DEF Init
  <2>2. {p \in Proc : inside[p] = "write" /\ io[p].tty = One} = {}
    BY TtyAssumption DEF Init
  <2> QED BY <2>1, <2>2 DEF Stream!Init
<1>2. IInv /\ [Next]_vars => [Stream!Next]_(Stream!vars)
  <2> SUFFICES ASSUME IInv, [Next]_vars PROVE [Stream!Next]_(Stream!vars)
    OBVIOUS
  <2>t. /\ TypeOK /\ Placed /\ Writing /\ ttys \in [Tty -> Terminal] /\ io \in [Proc -> Request]
        /\ inside \in [Proc -> {"write", "read", None}] /\ None \notin {"write", "read"}
        /\ calls \in [Tty -> Seq(Call)] /\ screen \in [Tty -> Seq(Shape)]
    BY TtyAssumption DEF IInv, TypeOK, HistoryType
  <2>n. ASSUME inside' = inside, io' = io, calls' = calls, screen' = screen
        PROVE  UNCHANGED Stream!vars
    BY <2>n, StreamSame
  <2>1. ASSUME NEW t \in Tty, NEW n \in WriteLen, kernel_tty_write(t, n)
        PROVE  [Stream!Next]_(Stream!vars)
    <3> DEFINE p == running
               y == [tty |-> t, total |-> n, sent |-> 0, len |-> io[p].len]
    <3>1. /\ p \in Proc /\ inside[p] = None
          /\ calls' = [calls EXCEPT ![t] = Append(@, [proc |-> p, len |-> n])]
          /\ io' = [io EXCEPT ![p] = y] /\ inside' = [inside EXCEPT ![p] = "write"]
          /\ screen' = screen
      BY <2>1 DEF kernel_tty_write, UserRuns, InKernel
    <3>2. y.tty = t
      OBVIOUS
    <3> HIDE DEF y
    <3>3. /\ inside'[p] = "write" /\ io'[p].tty = t
          /\ \A q \in Proc : q # p => inside'[q] = inside[q] /\ io'[q] = io[q]
      BY <2>t, <3>1, <3>2
    <3>4. CASE t = One
      <4>1. calls'[One] = Append(calls[One], [proc |-> p, len |-> n]) /\ screen'[One] = screen[One]
        BY <2>t, <3>1, <3>4
      <4>2. p \notin {q \in Proc : inside[q] = "write" /\ io[q].tty = One}
        BY <2>t, <3>1
      <4>3. {q \in Proc : inside'[q] = "write" /\ io'[q].tty = One}
              = {q \in Proc : inside[q] = "write" /\ io[q].tty = One} \union {p}
        BY <3>1, <3>3, <3>4
      <4>4. Stream!Write(p, n)
        BY <4>1, <4>2, <4>3 DEF Stream!Write
      <4> QED BY <3>1, <4>4 DEF Stream!Next
    <3>5. CASE t # One
      <4>1. calls'[One] = calls[One] /\ screen'[One] = screen[One]
        BY <1>0, <2>t, <3>1, <3>5
      <4>2. \A q \in Proc : (inside'[q] = "write" /\ io'[q].tty = One)
                            <=> (inside[q] = "write" /\ io[q].tty = One)
        BY <2>t, <3>1, <3>3, <3>5
      <4> QED BY <4>1, <4>2, StreamSame
    <3> QED BY <3>4, <3>5
  <2>2. ASSUME NEW t \in Tty, NEW n \in ReadLen, kernel_tty_read(t, n)
        PROVE  [Stream!Next]_(Stream!vars)
    <3>1. calls' = calls /\ screen' = screen
      BY <2>2 DEF kernel_tty_read, output
    <3>2. CASE ReadNow(t, n)
      BY <2>n, <3>1, <3>2 DEF ReadNow
    <3>3. CASE ReadBlocks(t, n)
      <4>1. /\ running \in Proc /\ inside[running] = None
            /\ inside' = [inside EXCEPT ![running] = "read"]
            /\ io' = [io EXCEPT ![running].tty = t, ![running].len = n]
        BY <2>2, <3>3 DEF kernel_tty_read, ReadBlocks, UserRuns, InKernel
      <4>2. /\ inside'[running] = "read"
            /\ \A q \in Proc : q # running => inside'[q] = inside[q] /\ io'[q] = io[q]
        BY <2>t, <4>1
      <4>3. \A q \in Proc : (inside'[q] = "write" /\ io'[q].tty = One)
                            <=> (inside[q] = "write" /\ io[q].tty = One)
        BY <2>t, <4>1, <4>2
      <4> QED BY <3>1, <4>3, StreamSame
    <3> QED BY <2>2, <3>2, <3>3 DEF kernel_tty_read
  <2>3. ASSUME NEW t \in Tty, NEW n \in LineLen, trap_tty_receive_handler(t, n)
        PROVE  [Stream!Next]_(Stream!vars)
    BY <2>3, <2>n DEF trap_tty_receive_handler, output
  <2>4. ASSUME NEW t \in Tty, trap_tty_transmit_handler(t)
        PROVE  [Stream!Next]_(Stream!vars)
    <3>1. /\ ttys[t].tx_owner # None /\ inside' = inside /\ calls' = calls
          /\ screen' = [screen EXCEPT ![t] = Displayed(screen[t], device[t])]
          /\ io' = [io EXCEPT ![ttys[t].tx_owner].sent = @ + ttys[t].tx_last_chunk]
      BY <2>4 DEF trap_tty_transmit_handler, tty_transmit_done, Displayed
    <3>2. \A q \in Proc : io'[q].tty = io[q].tty
      <4> TAKE q \in Proc
      <4> DEFINE f == io[q]
                 a == f.sent + ttys[t].tx_last_chunk
      <4>1. f \in Request /\ (io'[q] = f \/ io'[q] = [f EXCEPT !.sent = a])
        BY <2>t, <3>1
      <4> HIDE DEF f, a
      <4>2. io'[q].tty = f.tty
        BY <4>1 DEF Request
      <4> QED BY <4>2 DEF f
    <3>3. CASE t # One
      <4>1. calls'[One] = calls[One] /\ screen'[One] = screen[One]
        BY <1>0, <2>t, <3>1, <3>3
      <4> QED BY <3>1, <3>2, <4>1, StreamSame
    <3>4. CASE t = One
      <4> DEFINE o == ttys[One]
                 k == o.tx_last_chunk
                 a == io[o.tx_owner].sent
      <4>1. PICK d \in Nat : Sending(o, io, calls[One], device[One], screen[One], d)
        BY <1>0, <2>t DEF Writing
      <4>2. /\ Stream!Turn = d + 1 /\ Stream!Offset = a /\ d + 1 \in DOMAIN calls[One]
            /\ calls[One][d + 1].len = io[o.tx_owner].total
        BY <3>1, <3>4, <4>1, OwnersTurn
      <4>3. /\ a \in Nat /\ device[One].call = d + 1 /\ device[One].off = a /\ device[One].len = k
            /\ k \in Nat \ {0} /\ k <= TERMINAL_MAX_LINE /\ a + k <= io[o.tx_owner].total
        <5>1. o \in Terminal /\ screen[One] \in Seq(Shape)
          BY <1>0, <2>t
        <5>2. Chunked(o, io, device[One], screen[One], d)
          BY <2>t, <3>1, <3>4, <4>1, <5>1, ChunkFacts
        <5> QED BY <5>2 DEF Chunked
      <4>4. screen'[One] = screen[One] \o [i \in 1..k |-> <<d + 1, a + i>>]
        <5>1. screen'[One] = Displayed(screen[One], device[One])
          BY <2>t, <3>1, <3>4
        <5> QED BY <4>3, <5>1 DEF Displayed
      <4> HIDE DEF k, a
      <4>5. k \in 1..TERMINAL_MAX_LINE
        BY <4>3, TtyAssumption
      <4>6. /\ calls'[One] = calls[One]
            /\ {q \in Proc : inside'[q] = "write" /\ io'[q].tty = One}
                 = {q \in Proc : inside[q] = "write" /\ io[q].tty = One}
        BY <3>1, <3>2
      <4>7. /\ Stream!Offset + k <= calls[One][Stream!Turn].len /\ Stream!Turn \in DOMAIN calls[One]
            /\ screen'[One] = screen[One] \o [i \in 1..k |-> <<Stream!Turn, Stream!Offset + i>>]
        BY <4>2, <4>3, <4>4
      <4>8. Stream!Show
        BY <4>5, <4>6, <4>7 DEF Stream!Show
      <4> QED BY <4>8 DEF Stream!Next
    <3> QED BY <3>3, <3>4
  <2>5. CASE WriteReturns
    <3>0. running \in Proc
      BY <2>5 DEF WriteReturns
    <3>p. PICK p \in Proc : p = running
      BY <3>0
    <3>1. /\ p \in Proc /\ inside[p] = "write" /\ inside' = [inside EXCEPT ![p] = None]
          /\ io' = io /\ calls' = calls /\ screen' = screen
      BY <2>5, <3>p DEF WriteReturns, output
    <3>2. inside'[p] = None /\ \A q \in Proc : q # p => inside'[q] = inside[q]
      BY <2>t, <3>1
    <3>3. CASE io[p].tty = One
      <4>1. p \in {q \in Proc : inside[q] = "write" /\ io[q].tty = One}
        BY <3>1, <3>3
      <4>2. {q \in Proc : inside'[q] = "write" /\ io'[q].tty = One}
              = {q \in Proc : inside[q] = "write" /\ io[q].tty = One} \ {p}
        BY <2>t, <3>1, <3>2
      <4>3. \A c \in DOMAIN calls[One] : calls[One][c].proc = p
              => <<c, calls[One][c].len>> \in ToSet(screen[One])
        BY <3>p, RunningHasSent
      <4>4. ToSet(screen[One]) = Stream!ToSet(screen[One])
        BY DEF ToSet, Stream!ToSet
      <4>5. Stream!Return(p)
        BY <3>1, <4>1, <4>2, <4>3, <4>4 DEF Stream!Return
      <4> QED BY <4>5 DEF Stream!Next
    <3>4. CASE io[p].tty # One
      <4>1. \A q \in Proc : (inside'[q] = "write" /\ io'[q].tty = One)
                            <=> (inside[q] = "write" /\ io[q].tty = One)
        BY <3>1, <3>2, <3>4
      <4> QED BY <3>1, <4>1, StreamSame
    <3> QED BY <3>3, <3>4
  <2>6. CASE ReadReturns
    <3>1. /\ running \in Proc /\ inside[running] = "read" /\ inside' = [inside EXCEPT ![running] = None]
          /\ io' = io /\ calls' = calls /\ screen' = screen
      BY <2>6 DEF ReadReturns, output
    <3>2. inside'[running] = None /\ \A q \in Proc : q # running => inside'[q] = inside[q]
      BY <2>t, <3>1
    <3>3. \A q \in Proc : (inside'[q] = "write" /\ io'[q].tty = One)
                          <=> (inside[q] = "write" /\ io[q].tty = One)
      BY <2>t, <3>1, <3>2
    <3> QED BY <3>1, <3>3, StreamSame
  <2>7. CASE trap_clock_handler
    BY <2>7, <2>n DEF trap_clock_handler, output
  <2>8. CASE UNCHANGED vars
    BY <2>8, <2>n DEF vars, output
  <2> QED BY <2>1, <2>2, <2>3, <2>4, <2>5, <2>6, <2>7, <2>8 DEF Next, Resume
<1> QED BY <1>1, <1>2, InvHolds, PTL DEF Spec, Stream!Spec
=============================================================================
