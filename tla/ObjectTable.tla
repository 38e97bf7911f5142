---------------------------- MODULE ObjectTable ----------------------------
(***************************************************************************)
(* The growing and shrinking tables in which synchronization.c keeps locks *)
(* and condition variables.  new_lock and new_cvar, and delete_lock and    *)
(* delete_cvar, handle their tables in the same way; this module is that   *)
(* way, and Synchronization instantiates it once for each table.           *)
(*                                                                         *)
(* An entry is only its in_use bit here: new_* clears the rest of an entry *)
(* before it uses it.  A resize copies a prefix of the entries to a        *)
(* zeroed block, so entries that are not copied are no longer in use.      *)
(***************************************************************************)
EXTENDS Integers

CONSTANTS INITIAL_ARR_SIZE,  \* entries of the table init_sync allocates
          MAX_ARR_SIZE       \* bound: calloc of a larger table fails

ASSUME TableAssumption ==
  /\ INITIAL_ARR_SIZE \in Nat \ {0}
  /\ MAX_ARR_SIZE \in Nat
  /\ INITIAL_ARR_SIZE <= MAX_ARR_SIZE

VARIABLES in_use,    \* indices of the entries in use
          arr_size,  \* entries the table has room for
          open_idx   \* where the next object goes (arr_size: grow first)

table_vars == <<in_use, arr_size, open_idx>>

Entry == 0..(MAX_ARR_SIZE - 1)

TableInit ==
  /\ in_use = {}
  /\ arr_size = INITIAL_ARR_SIZE
  /\ open_idx = 0

Full == open_idx >= arr_size
GrownSize == IF Full THEN 2 * arr_size ELSE arr_size

\* Slip: one entry too few is copied.
AfterGrowth_ShortCopy == IF Full THEN in_use \intersect 0..(open_idx - 2) ELSE in_use

\* The entries that survive the growth: memcpy copies open_idx of them.
AfterGrowth == IF Full THEN in_use \intersect 0..(open_idx - 1) ELSE in_use

\* The while loop that moves the open index stops at k.
ScanEndsAt(k, from, used, size) ==
  /\ k \in from..size
  /\ k = size \/ k \notin used
  /\ \A j \in from..(k - 1) : j \in used

\* new_lock and new_cvar when every calloc succeeds; id is returned.
New(id) ==
  /\ id = open_idx
  /\ GrownSize <= MAX_ARR_SIZE
  /\ in_use' = AfterGrowth \union {id}
  /\ arr_size' = GrownSize
  /\ \E k \in 0..MAX_ARR_SIZE :
       /\ ScanEndsAt(k, id, in_use', GrownSize)
       /\ open_idx' = k

\* new_lock when the table could grow but the new lock's pids array could not
\* be allocated: the caller gets ERROR and the larger table stays.
NewFails ==
  /\ Full
  /\ GrownSize <= MAX_ARR_SIZE
  /\ in_use' = AfterGrowth
  /\ arr_size' = GrownSize
  /\ UNCHANGED open_idx

\* Slip: the open index is not pulled back to the hole.
DeleteInPlace_NoPullBack(i) ==
  /\ i \in in_use
  /\ in_use' = in_use \ {i}
  /\ UNCHANGED <<arr_size, open_idx>>

\* The table keeps its size: its upper half has an object, the open index is
\* not in the lower half, or the smaller block could not be allocated.
DeleteInPlace(i) ==
  /\ i \in in_use
  /\ in_use' = in_use \ {i}
  /\ open_idx' = IF i < open_idx THEN i ELSE open_idx
  /\ UNCHANGED arr_size

\* The table is halved.
DeleteAndShrink(i) ==
  LET half == arr_size \div 2
  IN  /\ i \in in_use
      /\ \A j \in half..(arr_size - 1) : j \notin in_use \ {i}
      /\ open_idx' = IF i < open_idx THEN i ELSE open_idx
      /\ open_idx' < half
      /\ in_use' = (in_use \ {i}) \intersect 0..(half - 1)
      /\ arr_size' = half

Delete(i) == DeleteInPlace(i) \/ DeleteAndShrink(i)

TableNext ==
  \/ \E i \in Entry : New(i) \/ Delete(i)
  \/ NewFails

TableSpec == TableInit /\ [][TableNext]_table_vars
-----------------------------------------------------------------------------
\* The table variables have their types; the table never shrinks to nothing.
TableTypeOK ==
  /\ in_use \subseteq Entry
  /\ arr_size \in 1..MAX_ARR_SIZE
  /\ open_idx \in 0..MAX_ARR_SIZE

\* The open index is the lowest unused entry, or the end of the table when
\* every entry is used, after any mixture of creations, deletions, growths,
\* shrinks and failed allocations; and no object lies past the table's end.
\* new_lock trusts this when it overwrites the entry at the open index.
OpenIsLowestUnused ==
  /\ in_use \subseteq 0..(arr_size - 1)
  /\ open_idx \in 0..arr_size
  /\ open_idx \notin in_use
  /\ \A i \in 0..(open_idx - 1) : i \in in_use

\* A step creates one object that did not exist, deletes one, or leaves the
\* objects alone: no resize loses an object and no creation takes over one.
OneObjectAtATime ==
  [][\/ \E i \in Entry \ in_use : in_use' = in_use \union {i}
     \/ \E i \in in_use : in_use' = in_use \ {i}
     \/ in_use' = in_use]_table_vars
=============================================================================
