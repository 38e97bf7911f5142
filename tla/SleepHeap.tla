----------------------------- MODULE SleepHeap ------------------------------
(***************************************************************************)
(* The array heap of sleeping processes in scheduler.c.                    *)
(*                                                                         *)
(* The kernel runs put_to_sleep, and the clock handler's wake_sleepers,    *)
(* without interruption.  Their loops are modelled round by round; loop    *)
(* says which one is under way and keeps everything else out.              *)
(***************************************************************************)
EXTENDS Integers

CONSTANTS Proc,            \* the processes that sleep
          NULL,            \* an array entry that was never written
          HEAP_INIT_SIZE, HEAP_MIN_SIZE,
          INT_MAX,         \* the largest int
          Delays,          \* ticks processes ask for
          MaxTick          \* bound: the last tick of the model

ASSUME HeapAssumption ==
  /\ NULL \notin Proc
  /\ HEAP_INIT_SIZE \in Nat \ {0} /\ HEAP_MIN_SIZE \in Nat \ {0}
  /\ INT_MAX \in Nat /\ Delays \subseteq 1..INT_MAX
  /\ MaxTick \in 0..INT_MAX

VARIABLES arr, length, current_size,  \* sleepers
          num_ticks,
          due,   \* num_ticks + t, as it would be without overflow; 0 when awake
          loop,  \* "none", or the loop under way: "up", "wake", "down"
          i      \* the index the sifting loops are at

heap == <<arr, length, current_size>>
vars == <<heap, num_ticks, due, loop, i>>

Members == {arr[j] : j \in 0..(length - 1)}

\* An int that overflows wraps around.
wake_up(p) == IF due[p] > INT_MAX THEN due[p] - 2 * (INT_MAX + 1) ELSE due[p]

compare(a, b) == wake_up(a) < wake_up(b)

init_scheduler ==
  /\ arr = [j \in 0..(HEAP_INIT_SIZE - 1) |-> NULL]
  /\ length = 0
  /\ current_size = HEAP_INIT_SIZE

Init ==
  /\ init_scheduler
  /\ num_ticks = 0
  /\ due = [p \in Proc |-> 0]
  /\ loop = "none"
  /\ i = 0

\* The array after resize_heap(size), when its calloc succeeds.
resize_heap(size) == [j \in 0..(size - 1) |-> IF j < length THEN arr[j] ELSE NULL]

Swapped(j, k) == [arr EXCEPT ![j] = arr[k], ![k] = arr[j]]
-----------------------------------------------------------------------------
(* put_to_sleep *)

\* Slip: the array grows one process too late.
add_to_heap_Late(p) ==
  /\ current_size' = IF length > current_size THEN current_size * 2 ELSE current_size
  /\ arr' = [resize_heap(current_size') EXCEPT ![length] = p]
  /\ length' = length + 1
  /\ i' = length

\* add_to_heap up to its loop.
add_to_heap(p) ==
  /\ current_size' = IF length >= current_size THEN current_size * 2 ELSE current_size
  /\ arr' = [resize_heap(current_size') EXCEPT ![length] = p]
  /\ length' = length + 1
  /\ i' = length

\* When the array is full and cannot grow, Delay is refused and nothing
\* changes.
put_to_sleep(p, t) ==
  /\ loop = "none"
  /\ p \notin Members
  /\ due' = [due EXCEPT ![p] = num_ticks + t]
  /\ add_to_heap(p)
  /\ loop' = "up"
  /\ UNCHANGED num_ticks

\* Slip: the loop goes on past the root.
SiftUp_NoRoot ==
  LET up == (i - 1) \div 2
  IN  /\ loop = "up"
      /\ \/ /\ i # 0 /\ compare(arr[up], arr[i])
            /\ loop' = "none"
            /\ UNCHANGED <<arr, i>>
         \/ /\ i > 0 => ~compare(arr[up], arr[i])
            /\ arr' = IF i = 0 THEN arr ELSE Swapped(up, i)
            /\ i' = IF i = 0 THEN 0 ELSE up
            /\ loop' = loop
      /\ UNCHANGED <<length, current_size, num_ticks, due>>

\* One round of the loop of add_to_heap.
SiftUp ==
  LET up == (i - 1) \div 2
  IN  /\ loop = "up"
      /\ \/ /\ i > 0 => compare(arr[up], arr[i])
            /\ loop' = "none"
            /\ UNCHANGED <<arr, i>>
         \/ /\ i > 0 /\ ~compare(arr[up], arr[i])
            /\ arr' = Swapped(up, i)
            /\ i' = up
            /\ loop' = loop
      /\ UNCHANGED <<length, current_size, num_ticks, due>>
-----------------------------------------------------------------------------
(* The clock *)

increment_ticks ==
  /\ loop = "none"
  /\ num_ticks < MaxTick
  /\ num_ticks' = num_ticks + 1
  /\ loop' = "wake"
  /\ UNCHANGED <<heap, due, i>>

\* Slip: a process wakes when its time has passed.
FirstIsDue_Late == length > 0 /\ wake_up(arr[0]) < num_ticks

FirstIsDue == length > 0 /\ wake_up(arr[0]) <= num_ticks

\* A round of wake_sleepers takes the first process off the heap: this is
\* remove_from_heap up to its loop.
remove_from_heap ==
  /\ loop = "wake"
  /\ FirstIsDue
  /\ arr' = [arr EXCEPT ![0] = arr[length - 1]]
  /\ length' = length - 1
  /\ due' = [due EXCEPT ![arr[0]] = 0]
  /\ i' = 0
  /\ loop' = "down"
  /\ UNCHANGED <<current_size, num_ticks>>

\* Slip: the right child is not looked at.
least_Left ==
  IF 2 * i + 1 < length /\ compare(arr[2 * i + 1], arr[i]) THEN 2 * i + 1 ELSE i

\* The earliest of a process and its two children in the heap; on a tie the
\* process before its children, and the left child before the right.
least ==
  LET left  == 2 * i + 1
      right == 2 * i + 2
      l == IF left < length /\ compare(arr[left], arr[i]) THEN left ELSE i
  IN  IF right < length /\ compare(arr[right], arr[l]) THEN right ELSE l

\* One round of the loop of remove_from_heap that goes on.
SiftDown ==
  /\ loop = "down"
  /\ least # i
  /\ arr' = Swapped(least, i)
  /\ i' = least
  /\ UNCHANGED <<length, current_size, num_ticks, due, loop>>

Sparse == length < current_size \div 2 /\ current_size > HEAP_MIN_SIZE

\* The loop's last round, and the halving of a sparse array, which may fail
\* for lack of memory.
SiftDownEnds ==
  /\ loop = "down"
  /\ least = i
  /\ \/ UNCHANGED <<arr, current_size>>
     \/ /\ Sparse
        /\ current_size' = current_size \div 2
        /\ arr' = resize_heap(current_size')
  /\ loop' = "wake"
  /\ UNCHANGED <<length, num_ticks, due, i>>

\* wake_sleepers finds no more processes to wake.
WakeEnds ==
  /\ loop = "wake"
  /\ ~FirstIsDue
  /\ loop' = "none"
  /\ UNCHANGED <<heap, num_ticks, due, i>>

KernelStep == SiftUp \/ remove_from_heap \/ SiftDown \/ SiftDownEnds \/ WakeEnds

Next ==
  \/ \E p \in Proc, t \in Delays : put_to_sleep(p, t)
  \/ increment_ticks
  \/ KernelStep

\* The kernel does not stop in the middle of a loop.
Spec == Init /\ [][Next]_vars /\ WF_vars(KernelStep)
-----------------------------------------------------------------------------
\* The heap's variables have their types, and the processes fit in the array.
TypeOK ==
  /\ current_size \in Nat \ {0}
  /\ length \in 0..current_size
  /\ arr \in [0..(current_size - 1) -> Proc \union {NULL}]
  /\ num_ticks \in 0..MaxTick
  /\ due \in [Proc -> Nat]
  /\ loop \in {"none", "up", "wake", "down"}
  /\ i \in Nat

\* No process wakes before its parent in the heap, except around the one
\* that is being moved: up, it may be earlier than its parent, and down,
\* later than its children; what is above it is earlier than what is below.
HeapOrder ==
  \A j \in 1..(length - 1) :
    LET up == (j - 1) \div 2
    IN  /\ wake_up(arr[up]) <= wake_up(arr[j]) \/ (loop = "up" /\ j = i)
                                              \/ (loop = "down" /\ up = i)
        /\ loop \in {"up", "down"} /\ up = i /\ i > 0 =>
             wake_up(arr[(i - 1) \div 2]) <= wake_up(arr[j])

\* The heap keeps the promise of SleepQueue, "put the current process to
\* sleep for a fixed number of clock ticks" (headers/scheduler.h): whatever
\* is added in between and however often the array is resized, no sleeper is
\* lost, woken twice, early or late, and the earlier ones go first.  A process
\* for which num_ticks + t passes INT_MAX is left out of the promise, since
\* put_to_sleep does break it: but it is still woken once, and its negative
\* time in the heap makes nobody else early, late or out of order.
Queue == INSTANCE SleepQueue WITH
  asleep <- Members, now <- num_ticks, waking <- (loop \in {"wake", "down"})
ImplementsQueue == Queue!Spec

\* The kernel's loops end: put_to_sleep and the clock handler return.
HandlerEnds == (loop # "none") ~> (loop = "none")
=============================================================================
