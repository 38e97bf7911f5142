-------------------------------- MODULE Tty ---------------------------------
(***************************************************************************)
(* Terminal input and output, tty.c: writers that take turns and send      *)
(* their text in chunks, one chunk per transmit interrupt; lines that      *)
(* arrive by receive interrupts and readers that wait for them.            *)
(*                                                                         *)
(* A call that blocks is finished when its process runs again, before      *)
(* anything else happens: the kernel takes no interrupts.  A call that is  *)
(* refused (bad arguments, no memory) and a line that is dropped for lack  *)
(* of memory change nothing and are left out.                              *)
(***************************************************************************)
EXTENDS RunQueue, SequencesExt

CONSTANTS Tty,                \* the terminals
          None,
          TERMINAL_MAX_LINE,
          WriteLen, ReadLen,  \* the lengths processes ask for
          LineLen,            \* the lengths of lines typed
          MaxWrites,          \* bound: the writes to a terminal
          MaxLines            \* bound: the lines typed at a terminal

ASSUME TtyAssumption ==
  /\ IsFiniteSet(Proc) /\ Tty # {}
  /\ None \notin Proc \union {"write", "read"}
  /\ TERMINAL_MAX_LINE \in Nat \ {0}
  /\ WriteLen \union ReadLen \subseteq Nat \ {0}
  /\ LineLen \subseteq 0..TERMINAL_MAX_LINE

VARIABLES ttys,    \* [tx_owner, tx_last_chunk, w (writers), rx (lines), r (readers)]
          io,      \* the io_ fields of each pcb: [tty, total, sent, len]
          inside,  \* "write" or "read": the call each process is in, or None
          device,  \* the chunk each terminal is sending, [call, off, len], or None
          calls,   \* history: the writes to each terminal, [proc, len]
          screen,  \* history: the bytes that appeared, <<call, offset>>
          typed,      \* history: lines and bytes received, [lines, bytes]
          delivered,  \* history: bytes given to readers
          taken,      \* history: lines that processes which did not block used
                      \* up since there are woken readers, less the reads that found none
          leftover    \* history: was part of a line left while readers blocked?

output == <<device, calls, screen>>
input == <<typed, delivered, taken, leftover>>
vars == <<running, main_queue, ttys, io, inside, output, input>>

Smaller(a, b) == IF a < b THEN a ELSE b

\* The kernel runs on behalf of a process that has a call to finish.
InKernel == running \in Proc /\ inside[running] # None

\* The readers a line has woken and that have not run since.
Woken(t) == {p \in Proc : /\ inside[p] = "read" /\ io[p].tty = t
                          /\ p \notin Range(ttys[t].r)}

init_tty == ttys = [t \in Tty |->
  [tx_owner |-> None, tx_last_chunk |-> 0, w |-> <<>>, rx |-> <<>>, r |-> <<>>]]

Init ==
  /\ init_tty
  /\ running = Idle
  /\ main_queue = SetToSeq(Proc)
  /\ io = [p \in Proc |-> [tty |-> None, total |-> 0, sent |-> 0, len |-> 0]]
  /\ inside = [p \in Proc |-> None]
  /\ device = [t \in Tty |-> None]
  /\ calls = [t \in Tty |-> <<>>]
  /\ screen = [t \in Tty |-> <<>>]
  /\ typed = [t \in Tty |-> [lines |-> 0, bytes |-> 0]]
  /\ delivered = [t \in Tty |-> 0]
  /\ taken = [t \in Tty |-> 0]
  /\ leftover = [t \in Tty |-> FALSE]
-----------------------------------------------------------------------------
(* Writing *)

\* The call that p's buffer belongs to.
CallOf(p, cs) == CHOOSE c \in DOMAIN cs :
  cs[c].proc = p /\ \A d \in DOMAIN cs : cs[d].proc = p => d <= c

\* Slip: every chunk starts at the beginning of the buffer.
start_chunk_Restart(ts, t, p, cs) ==
  LET chunk == Smaller(io'[p].total - io'[p].sent, TERMINAL_MAX_LINE)
  IN  /\ ttys' = [ts EXCEPT ![t].tx_owner = p, ![t].tx_last_chunk = chunk]
      /\ device' = [device EXCEPT ![t] =
           [call |-> CallOf(p, cs[t]), off |-> 0, len |-> chunk]]

\* Slip: the whole rest goes to the device, however long.
start_chunk_NoLimit(ts, t, p, cs) ==
  LET chunk == io'[p].total - io'[p].sent
  IN  /\ ttys' = [ts EXCEPT ![t].tx_owner = p, ![t].tx_last_chunk = chunk]
      /\ device' = [device EXCEPT ![t] =
           [call |-> CallOf(p, cs[t]), off |-> io'[p].sent, len |-> chunk]]

\* p becomes or stays the owner of terminal t, whose state is ts[t], and
\* the device gets the next chunk of its text.
start_chunk(ts, t, p, cs) ==
  LET chunk == Smaller(io'[p].total - io'[p].sent, TERMINAL_MAX_LINE)
  IN  /\ ttys' = [ts EXCEPT ![t].tx_owner = p, ![t].tx_last_chunk = chunk]
      /\ device' = [device EXCEPT ![t] =
           [call |-> CallOf(p, cs[t]), off |-> io'[p].sent, len |-> chunk]]

\* The caller sends its first chunk or queues behind the owner, and blocks.
kernel_tty_write(t, n) ==
  LET p == running
  IN  /\ UserRuns /\ ~InKernel
      /\ Len(calls[t]) < MaxWrites
      /\ calls' = [calls EXCEPT ![t] = Append(@, [proc |-> p, len |-> n])]
      /\ io' = [io EXCEPT ![p] = [tty |-> t, total |-> n, sent |-> 0, len |-> @.len]]
      /\ inside' = [inside EXCEPT ![p] = "write"]
      /\ \/ /\ ttys[t].tx_owner = None
            /\ start_chunk(ttys, t, p, calls')
         \/ /\ ttys[t].tx_owner # None
            /\ ttys' = [ttys EXCEPT ![t].w = Append(@, p)]
            /\ UNCHANGED device
      /\ SwitchToNext(main_queue)
      /\ UNCHANGED <<screen, input>>

\* The writer's call returns once it runs again.
WriteReturns ==
  /\ running \in Proc /\ inside[running] = "write"
  /\ inside' = [inside EXCEPT ![running] = None]
  /\ UNCHANGED <<running, main_queue, ttys, io, output, input>>

\* The writer that follows the owner.
wq_pop(t) == IF ttys[t].w = <<>> THEN None ELSE Head(ttys[t].w)

\* The owner sends its next chunk; or it is done, is made ready, and the
\* first writer that waits becomes the owner.
tty_transmit_done(t) ==
  LET p == ttys[t].tx_owner
  IN  /\ p # None
      /\ io' = [io EXCEPT ![p].sent = @ + ttys[t].tx_last_chunk]
      /\ \/ /\ io'[p].sent < io[p].total
            /\ start_chunk(ttys, t, p, calls)
            /\ UNCHANGED main_queue
         \/ /\ io'[p].sent >= io[p].total
            /\ IF wq_pop(t) = None
               THEN /\ ttys' = [ttys EXCEPT ![t].tx_owner = None]
                    /\ device' = [device EXCEPT ![t] = None]
               ELSE start_chunk([ttys EXCEPT ![t].w = Tail(@)], t, wq_pop(t), calls)
            /\ main_queue' = schedule_process(main_queue, p)

\* The terminal has put its chunk on the screen and interrupts.
trap_tty_transmit_handler(t) ==
  /\ ~InKernel
  /\ device[t] # None
  /\ screen' = [screen EXCEPT ![t] = @ \o
       [i \in 1..device[t].len |-> <<device[t].call, device[t].off + i>>]]
  /\ tty_transmit_done(t)
  /\ UNCHANGED <<running, inside, calls, input>>
-----------------------------------------------------------------------------
(* Reading *)

\* Slip: a line is freed once part of it has been read.
consume_into_user_Whole(t, len) ==
  LET line == Head(ttys[t].rx)
      n == Smaller(line.len - line.off, len)
  IN  IF ttys[t].rx = <<>> THEN UNCHANGED <<ttys, delivered, leftover>>
      ELSE /\ delivered' = [delivered EXCEPT ![t] = @ + n]
           /\ ttys' = [ttys EXCEPT ![t].rx = Tail(@)]
           /\ UNCHANGED leftover

\* The reader gets as much of the first line as it asks for; a line that is
\* used up goes away.  Without a line it gets nothing.
consume_into_user(t, len) ==
  LET line == Head(ttys[t].rx)
      n == Smaller(line.len - line.off, len)
      used_up == line.off + n >= line.len
  IN  IF ttys[t].rx = <<>> THEN UNCHANGED <<ttys, delivered, leftover>>
      ELSE /\ delivered' = [delivered EXCEPT ![t] = @ + n]
           /\ ttys' = IF used_up THEN [ttys EXCEPT ![t].rx = Tail(@)]
                                 ELSE [ttys EXCEPT ![t].rx[1].off = @ + n]
           /\ leftover' = [leftover EXCEPT ![t] = @ \/ (~used_up /\ ttys[t].r # <<>>)]

\* Input is there: the caller takes it at once.
ReadNow(t, len) ==
  /\ ttys[t].rx # <<>>
  /\ consume_into_user(t, len)
  /\ taken' = [taken EXCEPT ![t] =
       IF Woken(t) # {} /\ Len(ttys'[t].rx) < Len(ttys[t].rx) THEN @ + 1 ELSE @]
  /\ UNCHANGED <<running, main_queue, io, inside, typed>>

ReadBlocks(t, len) ==
  LET p == running
  IN  /\ ttys[t].rx = <<>>
      /\ io' = [io EXCEPT ![p].tty = t, ![p].len = len]
      /\ ttys' = [ttys EXCEPT ![t].r = Append(@, p)]
      /\ inside' = [inside EXCEPT ![p] = "read"]
      /\ SwitchToNext(main_queue)
      /\ UNCHANGED input

kernel_tty_read(t, len) ==
  /\ UserRuns /\ ~InKernel
  /\ ReadNow(t, len) \/ ReadBlocks(t, len)
  /\ UNCHANGED output

\* A reader that blocked takes what there is when it runs again.
ReadReturns ==
  LET p == running
      t == io[p].tty
  IN  /\ p \in Proc /\ inside[p] = "read"
      /\ consume_into_user(t, io[p].len)
      /\ inside' = [inside EXCEPT ![p] = None]
      /\ taken' = [taken EXCEPT ![t] =
           IF Woken(t) = {p} THEN 0 ELSE IF ttys[t].rx = <<>> THEN @ - 1 ELSE @]
      /\ UNCHANGED <<running, main_queue, io, output, typed>>

\* Slip: only a line that finds the buffer empty wakes a reader.
rq_pop_Edge(t) == IF ttys[t].rx = <<>> /\ ttys[t].r # <<>> THEN <<Head(ttys[t].r)>> ELSE <<>>

\* The readers that a line wakes: the first that waits.
rq_pop(t) == IF ttys[t].r = <<>> THEN <<>> ELSE <<Head(ttys[t].r)>>

\* Slip: the reader that is woken stays on the reader queue.
tty_receive_done_Stays(t, line) ==
  /\ ttys' = [ttys EXCEPT ![t].rx = Append(@, line)]
  /\ main_queue' = main_queue \o rq_pop(t)

\* The line is added, and the reader it wakes is made ready.
tty_receive_done(t, line) ==
  /\ ttys' = [ttys EXCEPT ![t].rx = Append(@, line),
                          ![t].r = SubSeq(@, Len(rq_pop(t)) + 1, Len(@))]
  /\ main_queue' = main_queue \o rq_pop(t)

\* A line of n bytes was typed, an empty one (end of file) included: the
\* code keeps whatever TtyReceive returns.  The first byte of the line has its number
\* in the terminal's input.
trap_tty_receive_handler(t, n) ==
  /\ ~InKernel
  /\ typed[t].lines < MaxLines
  /\ typed' = [typed EXCEPT ![t] = [lines |-> @.lines + 1, bytes |-> @.bytes + n]]
  /\ tty_receive_done(t, [first |-> typed[t].bytes, len |-> n, off |-> 0])
  /\ leftover' = [leftover EXCEPT ![t] = @ /\ ttys'[t].r # <<>>]
  /\ UNCHANGED <<running, io, inside, output, delivered, taken>>
-----------------------------------------------------------------------------
trap_clock_handler ==
  /\ ~InKernel
  /\ Preempt(main_queue)
  /\ UNCHANGED <<ttys, io, inside, output, input>>

Resume == WriteReturns \/ ReadReturns

Next ==
  \/ \E t \in Tty :
       \/ \E n \in WriteLen : kernel_tty_write(t, n)
       \/ \E n \in ReadLen : kernel_tty_read(t, n)
       \/ \E n \in LineLen : trap_tty_receive_handler(t, n)
       \/ trap_tty_transmit_handler(t)
  \/ Resume
  \/ trap_clock_handler

\* The terminals finish what they send, the clock ticks, and a process that
\* is switched to finishes its call.
Spec ==
  /\ Init /\ [][Next]_vars
  /\ WF_vars(Resume) /\ WF_vars(trap_clock_handler)
  /\ \A t \in Tty : WF_vars(trap_tty_transmit_handler(t))
-----------------------------------------------------------------------------
\* A line received, a terminal, and the io_ fields of a pcb.
Line == [first : Nat, len : Nat, off : Nat]
Terminal == [tx_owner : Proc \union {None}, tx_last_chunk : 0..TERMINAL_MAX_LINE,
             w : Seq(Proc), rx : Seq(Line), r : Seq(Proc)]
Request == [tty : Tty \union {None}, total : Nat, sent : Nat, len : Nat]

\* The terminals' variables have their types.
TypeOK ==
  /\ running \in Proc \union {Idle}
  /\ main_queue \in Seq(Proc)
  /\ ttys \in [Tty -> Terminal]
  /\ io \in [Proc -> Request]
  /\ inside \in [Proc -> {"write", "read", None}]

\* A process is in one place at a time: running, ready, owner of a terminal,
\* or once on one queue of one terminal.  All the queues are linked through
\* the same field of the pcb, so a second place would cut another queue.
PlacedOnce ==
  LET Places(p) ==
        (IF running = p THEN {<<"running">>} ELSE {})
        \union {<<"ready", i>> : i \in {j \in DOMAIN main_queue : main_queue[j] = p}}
        \union {<<"owner", t>> : t \in {u \in Tty : ttys[u].tx_owner = p}}
        \union UNION {{<<"w", t, i>> : i \in {j \in DOMAIN ttys[t].w : ttys[t].w[j] = p}}
                      \union {<<"r", t, i>> : i \in {j \in DOMAIN ttys[t].r : ttys[t].r[j] = p}}
                      : t \in Tty}
  IN  \A p \in Proc : Cardinality(Places(p)) = 1

\* A terminal keeps the promise of TtyStream: however the writers and the
\* interrupts interleave, the chunks of one write are not mixed with those
\* of another, none is lost or sent twice, and no write returns early.
One == CHOOSE t \in Tty : TRUE
Stream == INSTANCE TtyStream WITH
  calls <- calls[One], screen <- screen[One], MaxLine <- TERMINAL_MAX_LINE,
  inside <- {p \in Proc : inside[p] = "write" /\ io[p].tty = One}
ImplementsStream == Stream!Spec

\* Every write returns.
EveryWriteReturns == \A p \in Proc : inside[p] = "write" ~> inside[p] = None

\* The lines that are left are the bytes after those that readers were
\* given: none was skipped, lost or given to two readers.  A line that
\* readers have begun stays only while it has bytes left.
InputInOrder ==
  \A t \in Tty :
    LET rx == ttys[t].rx
        Start(i) == rx[i].first + rx[i].off
        End(i) == rx[i].first + rx[i].len
    IN  /\ rx = <<>> => delivered[t] = typed[t].bytes
        /\ rx # <<>> => Start(1) = delivered[t] /\ End(Len(rx)) = typed[t].bytes
        /\ \A i \in DOMAIN rx : /\ rx[i].off = 0 \/ Start(i) < End(i)
                                /\ i > 1 => Start(i) = End(i - 1)

\* One line wakes one reader, which does not look whether its line is still
\* there.  For every woken reader there is a line, less the lines that
\* processes which did not block have used up in between: only those make a
\* reader find no line, and each of them at most one.  A reader stays
\* blocked beside input that nobody was woken for only when another has left
\* part of a line.
OneReaderPerLine ==
  \A t \in Tty :
    /\ taken[t] >= 0 /\ Cardinality(Woken(t)) <= Len(ttys[t].rx) + taken[t]
    /\ ttys[t].r # <<>> /\ ttys[t].rx # <<>> /\ Woken(t) = {} => leftover[t]
=============================================================================
