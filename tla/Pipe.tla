-------------------------------- MODULE Pipe --------------------------------
(***************************************************************************)
(* Pipes, pipe.c: a table of circular buffers that grow when they are      *)
(* full, and the readers that block on an empty one.                       *)
(*                                                                         *)
(* A read that blocks goes on when its process runs again, before anything *)
(* else happens: the kernel takes no interrupts.  It has kept the pipe's   *)
(* index, and looks the pipe up again.  A call that is refused (a bad      *)
(* argument or identifier, no memory) changes nothing and is left out,     *)
(* except for PipeInit when the table has grown already.                   *)
(***************************************************************************)
EXTENDS RunQueue, SequencesExt

CONSTANTS None,
          INITIAL_PIPE_COUNT, PIPE_BUFFER_LEN,
          Byte,         \* the values of bytes
          WriteLen, ReadLen,
          MAX_PIPES,    \* bound: the size the table may grow to
          Written,      \* bound: the indices that are written to
          MaxBytes      \* bound: the bytes in a pipe

ASSUME PipeAssumption ==
  /\ IsFiniteSet(Proc)
  /\ None \notin Byte /\ None \notin [pipe_id : 0..(MAX_PIPES - 1), len : ReadLen]
  /\ INITIAL_PIPE_COUNT \in Nat \ {0} /\ PIPE_BUFFER_LEN \in Nat \ {0}
  /\ WriteLen \union ReadLen \subseteq Nat \ {0}
  /\ MAX_PIPES \in Nat /\ INITIAL_PIPE_COUNT <= MAX_PIPES
  /\ MaxBytes \in Nat /\ Written \subseteq Nat

VARIABLES pipes, pipes_size, open_pipe_idx,
          inside,  \* the blocked read each process is in, [pipe_id, len], or None
          robbed   \* history: readers that were awake, but had not run yet,
                   \* when their pipe was reclaimed

table == <<pipes, pipes_size, open_pipe_idx>>
vars == <<running, main_queue, table, inside, robbed>>

Id == 0..(MAX_PIPES - 1)
Text == UNION {[1..n -> Byte] : n \in WriteLen}

\* An entry that calloc or memset has cleared.
Cleared == [in_use |-> FALSE, buf |-> <<>>, cap |-> 0, head |-> 0, len |-> 0, readers |-> <<>>]

InKernel == running \in Proc /\ inside[running] # None

init_pipes ==
  /\ pipes = [id \in Id |-> Cleared]
  /\ pipes_size = INITIAL_PIPE_COUNT
  /\ open_pipe_idx = 0

Init ==
  /\ init_pipes
  /\ running = Idle
  /\ main_queue = SetToSeq(Proc)
  /\ inside = [p \in Proc |-> None]
  /\ robbed = {}

get_pipe(id) == id < pipes_size /\ pipes[id].in_use
-----------------------------------------------------------------------------
(* The circular buffer; buf[i] is the byte at index i - 1 *)

At(pipe, i) == pipe.buf[((pipe.head + i) % pipe.cap) + 1]

\* The bytes in the pipe, from the first to be read to the last.
Bytes(pipe) == [i \in 1..pipe.len |-> At(pipe, i - 1)]

\* What doubling k times multiplies a capacity by.
Doubled[k \in Nat] == IF k = 0 THEN 1 ELSE 2 * Doubled[k - 1]

\* The capacity that doubling comes to when needed bytes have to fit.
new_cap(pipe, needed) ==
  LET fits == {c \in {pipe.cap * Doubled[k] : k \in 0..needed} : c >= needed}
  IN  CHOOSE c \in fits : \A d \in fits : c <= d

\* Slip: the old buffer is copied from its start.
ensure_capacity_Raw(pipe, needed) ==
  LET cap == new_cap(pipe, needed)
  IN  IF needed <= pipe.cap THEN pipe
      ELSE [pipe EXCEPT !.buf = [i \in 1..cap |-> IF i <= pipe.cap THEN pipe.buf[i] ELSE None],
                        !.cap = cap, !.head = 0]

\* The pipe with room for needed bytes: doubled until they fit, its bytes
\* moved to the front of the new buffer.
ensure_capacity(pipe, needed) ==
  LET cap == new_cap(pipe, needed)
  IN  IF needed <= pipe.cap THEN pipe
      ELSE [pipe EXCEPT !.buf = [i \in 1..cap |-> IF i <= pipe.len THEN At(pipe, i - 1) ELSE None],
                        !.cap = cap, !.head = 0]

append_bytes(pipe, text) ==
  LET Slot(i) == ((pipe.head + pipe.len + i - 1) % pipe.cap) + 1
  IN  [pipe EXCEPT
        !.buf = [s \in 1..pipe.cap |->
                  IF \E i \in DOMAIN text : Slot(i) = s
                  THEN text[CHOOSE i \in DOMAIN text : Slot(i) = s] ELSE @[s]],
        !.len = @ + Len(text)]

BytesRead(pipe, n) == IF pipe.len < n THEN pipe.len ELSE n

\* The buffer after the first k bytes were read.  What stays in their places
\* is forgotten: it must not be read again.
Unread(pipe, k) == [s \in 1..pipe.cap |->
  IF \E i \in 0..(k - 1) : ((pipe.head + i) % pipe.cap) + 1 = s THEN None ELSE pipe.buf[s]]

\* Slip: the head runs past the end of the buffer.
read_bytes_NoWrap(pipe, n) ==
  LET k == BytesRead(pipe, n)
  IN  [pipe EXCEPT !.buf = Unread(pipe, k), !.len = @ - k,
                   !.head = IF k = pipe.len THEN 0 ELSE @ + k]

\* The pipe after read_bytes of at most n.  What it returns is the front of
\* Bytes(pipe), BytesRead(pipe, n) bytes long.
read_bytes(pipe, n) ==
  LET k == BytesRead(pipe, n)
  IN  [pipe EXCEPT !.buf = Unread(pipe, k), !.len = @ - k,
                   !.head = IF k = pipe.len THEN 0 ELSE (@ + k) % pipe.cap]
-----------------------------------------------------------------------------
(* The calls *)

\* The first index at or after from that is not in use.
FirstUnused(ps, from, size) ==
  CHOOSE i \in from..size : /\ i < size => ~ps[i].in_use
                            /\ \A j \in from..(i - 1) : ps[j].in_use

Grown == IF open_pipe_idx >= pipes_size THEN pipes_size * 2 ELSE pipes_size

\* Slip: the open index moves on by one.
new_pipe_NextIndex ==
  LET id == open_pipe_idx
  IN  /\ Grown <= MAX_PIPES
      /\ pipes_size' = Grown
      /\ pipes' = [pipes EXCEPT ![id] = [Cleared EXCEPT !.in_use = TRUE,
           !.buf = [i \in 1..PIPE_BUFFER_LEN |-> None], !.cap = PIPE_BUFFER_LEN]]
      /\ open_pipe_idx' = id + 1

\* A pipe with an empty buffer at the open index, in a table that has grown
\* when it was full.
new_pipe ==
  LET id == open_pipe_idx
  IN  /\ Grown <= MAX_PIPES
      /\ pipes_size' = Grown
      /\ pipes' = [pipes EXCEPT ![id] = [Cleared EXCEPT !.in_use = TRUE,
           !.buf = [i \in 1..PIPE_BUFFER_LEN |-> None], !.cap = PIPE_BUFFER_LEN]]
      /\ open_pipe_idx' = FirstUnused(pipes', id, Grown)

PipeInit_Impl ==
  /\ UserRuns /\ ~InKernel
  /\ new_pipe
  /\ UNCHANGED <<running, main_queue, inside, robbed>>

\* The table has grown, and there is no memory for the buffer.
PipeInitFails ==
  /\ UserRuns /\ ~InKernel
  /\ open_pipe_idx >= pipes_size /\ Grown <= MAX_PIPES
  /\ pipes_size' = Grown
  /\ UNCHANGED <<running, main_queue, pipes, open_pipe_idx, inside, robbed>>

TakeBytes(id, n) ==
  /\ pipes' = [pipes EXCEPT ![id] = read_bytes(@, n)]
  /\ UNCHANGED <<running, main_queue>>

\* Slip: the reader stays ready, as one that is preempted does.
BlockOn_Ready(id) ==
  /\ pipes' = [pipes EXCEPT ![id].readers = Append(@, running)]
  /\ SwitchToNext(Append(main_queue, running))

BlockOn(id) ==
  /\ pipes' = [pipes EXCEPT ![id].readers = Append(@, running)]
  /\ SwitchToNext(main_queue)

PipeRead_Impl(id, n) ==
  /\ UserRuns /\ ~InKernel
  /\ get_pipe(id)
  /\ \/ pipes[id].len > 0 /\ TakeBytes(id, n) /\ UNCHANGED inside
     \/ /\ pipes[id].len = 0 /\ BlockOn(id)
        /\ inside' = [inside EXCEPT ![running] = [pipe_id |-> id, len |-> n]]
  /\ UNCHANGED <<pipes_size, open_pipe_idx, robbed>>

\* A reader that runs again looks its pipe up; the pipe may be gone, or
\* another, or empty again.
ReadGoesOn ==
  LET p == running
      id == inside[p].pipe_id
  IN  /\ InKernel
      /\ \/ ~get_pipe(id) /\ UNCHANGED <<pipes, running, main_queue>>
         \/ get_pipe(id) /\ pipes[id].len > 0 /\ TakeBytes(id, inside[p].len)
         \/ get_pipe(id) /\ pipes[id].len = 0 /\ BlockOn(id)
      /\ inside' = [inside EXCEPT ![p] = IF get_pipe(id) /\ pipes[id].len = 0 THEN @ ELSE None]
      /\ robbed' = IF inside'[p] = None THEN robbed \ {p} ELSE robbed
      /\ UNCHANGED <<pipes_size, open_pipe_idx>>

\* Slip: only the first reader is woken.
wake_readers_One(id) == SubSeq(pipes[id].readers, 1, Min({1, Len(pipes[id].readers)}))

\* The readers that a write makes ready: all that are blocked.
wake_readers(id) == pipes[id].readers

PipeWrite_Impl(id, text) ==
  LET pipe == ensure_capacity(pipes[id], pipes[id].len + Len(text))
  IN  /\ UserRuns /\ ~InKernel
      /\ get_pipe(id)
      /\ id \in Written /\ pipes[id].len + Len(text) <= MaxBytes
      /\ pipes' = [pipes EXCEPT ![id] =
                    [append_bytes(pipe, text) EXCEPT
                      !.readers = SubSeq(@, Len(wake_readers(id)) + 1, Len(@))]]
      /\ main_queue' = main_queue \o wake_readers(id)
      /\ UNCHANGED <<running, pipes_size, open_pipe_idx, inside, robbed>>

\* Slip: readers do not keep a pipe.
pipe_reclaim_Blocked(id) ==
  /\ pipes' = [pipes EXCEPT ![id] = Cleared]
  /\ open_pipe_idx' = IF id < open_pipe_idx THEN id ELSE open_pipe_idx

\* The part of Reclaim_Impl that is about pipes.
pipe_reclaim(id) ==
  /\ pipes[id].readers = <<>>
  /\ pipes' = [pipes EXCEPT ![id] = Cleared]
  /\ open_pipe_idx' = IF id < open_pipe_idx THEN id ELSE open_pipe_idx

Reclaim_Impl(id) ==
  /\ UserRuns /\ ~InKernel
  /\ get_pipe(id)
  /\ pipe_reclaim(id)
  /\ robbed' = robbed \union {p \in Range(main_queue) :
                               inside[p] # None /\ inside[p].pipe_id = id}
  /\ UNCHANGED <<running, main_queue, pipes_size, inside>>
-----------------------------------------------------------------------------
trap_clock_handler ==
  /\ ~InKernel
  /\ Preempt(main_queue)
  /\ UNCHANGED <<table, inside, robbed>>

Next ==
  \/ PipeInit_Impl \/ PipeInitFails
  \/ \E id \in Id :
       \/ \E n \in ReadLen : PipeRead_Impl(id, n)
       \/ \E text \in Text : PipeWrite_Impl(id, text)
       \/ Reclaim_Impl(id)
  \/ ReadGoesOn
  \/ trap_clock_handler

\* The clock ticks, and a process that is switched to goes on with its call.
Spec == Init /\ [][Next]_vars /\ WF_vars(ReadGoesOn) /\ WF_vars(trap_clock_handler)
-----------------------------------------------------------------------------
PipeEntry == [in_use : BOOLEAN, buf : Seq(Byte \union {None}), cap : Nat,
              head : Nat, len : Nat, readers : Seq(Proc)]

\* The bytes of a pipe fit its buffer.
Sound(pipe) ==
  /\ Len(pipe.buf) = pipe.cap /\ pipe.len <= pipe.cap
  /\ pipe.in_use => pipe.head < pipe.cap

\* The variables have their types, and the bytes of every pipe fit its buffer.
TypeOK ==
  /\ running \in Proc \union {Idle}
  /\ main_queue \in Seq(Proc)
  /\ pipes_size \in 1..MAX_PIPES
  /\ open_pipe_idx \in 0..pipes_size
  /\ pipes \in [Id -> PipeEntry] /\ \A id \in Id : Sound(pipes[id])
  /\ inside \in [Proc -> [pipe_id : Id, len : ReadLen] \union {None}]
  /\ robbed \subseteq Proc

\* A pipe keeps the promise of PipeStream, also when its buffer wraps around
\* and when it grows while the bytes in it wrap around.
Stream == INSTANCE PipeStream WITH
  Texts <- Text, open <- pipes[0].in_use, content <- Bytes(pipes[0])
ImplementsStream == Stream!Spec

\* The open index is the lowest index that is not in use: PipeInit neither
\* overwrites a pipe nor grows a table that has room.
OpenIsLowestUnused ==
  /\ \A id \in 0..(open_pipe_idx - 1) : pipes[id].in_use
  /\ open_pipe_idx < pipes_size => ~pipes[open_pipe_idx].in_use
  /\ \A id \in Id : id >= pipes_size => ~pipes[id].in_use

\* A process is in one place at a time: running, ready or once on the queue
\* of one pipe.  A pipe that is reclaimed takes no reader with it.
PlacedOnce ==
  LET Places(p) ==
        (IF running = p THEN {<<"running">>} ELSE {})
        \union {<<"ready", i>> : i \in {j \in DOMAIN main_queue : main_queue[j] = p}}
        \union UNION {{<<"reads", id, i>> : i \in {j \in DOMAIN pipes[id].readers : pipes[id].readers[j] = p}}
                      : id \in Id}
  IN  \A p \in Proc : Cardinality(Places(p)) = 1

\* No reader stays blocked on a pipe that has bytes, whoever else reads
\* between a write and a reader's turn.
NoReaderBesideBytes == \A id \in Id : pipes[id].readers # <<>> => pipes[id].len = 0

\* A reader whose pipe has bytes is served, or someone else reads them.
BytesReachReaders ==
  \A p \in Proc, id \in Id :
    inside[p] # None /\ inside[p].pipe_id = id /\ pipes[id].len > 0
      ~> inside[p] = None \/ pipes[id].len = 0

\* "Readers still blocked, cannot reclaim": a process inside a read keeps
\* the pipe it reads from.  Reclaim_Impl looks at the reader queue only, so
\* the readers that a write has woken and that have not run since lose it, and
\* go on with the next pipe at its index; no others do.
OnlyWokenReadersLoseTheirPipe ==
  \A p \in Proc : inside[p] # None /\ p \notin robbed => pipes[inside[p].pipe_id].in_use
=============================================================================
