----------------------------- MODULE PipeProofs -----------------------------
(***************************************************************************)
(* Proofs about pipes, for any number of processes and pipes, any initial  *)
(* size of a buffer and any lengths of reads and writes.                   *)
(***************************************************************************)
EXTENDS Pipe, QueueLemmas
-----------------------------------------------------------------------------
(* Doubling *)

\* The recursive function Doubled exists.  Its first n values do, for every
\* n, and those for different n agree.
LEMMA DoubledExists ==
  \E f : f = [k \in Nat |-> IF k = 0 THEN 1 ELSE 2 * f[k - 1]]
<1> DEFINE Start(n) == {g \in [0..n -> Nat] : g[0] = 1 /\ \A k \in 1..n : g[k] = 2 * g[k - 1]}
<1>1. \A n \in Nat : Start(n) # {}
  <2> DEFINE T == {n \in Nat : Start(n) = {}}
  <2> SUFFICES ASSUME T # {} PROVE FALSE
    OBVIOUS
  <2>1. PICK n \in T : \A m \in T : n <= m
    BY LeastNat
  <2>2. n \in Nat /\ Start(n) = {}
    BY <2>1
  <2>3. CASE n = 0
    <3>1. [k \in 0..n |-> 1] \in Start(n)
      BY <2>3
    <3> QED BY <2>2, <3>1
  <2>4. CASE n # 0
    <3>1. n - 1 \in Nat /\ n - 1 \notin T
      <4>1. n - 1 \in Nat /\ ~(n <= n - 1)
        BY <2>2, <2>4
      <4> HIDE DEF T
      <4> QED BY <2>1, <4>1
    <3>2. PICK g \in Start(n - 1) : TRUE
      BY <3>1
    <3> DEFINE h == [k \in 0..n |-> IF k = n THEN 2 * g[n - 1] ELSE g[k]]
    <3>3. g \in [0..(n - 1) -> Nat] /\ g[0] = 1 /\ \A k \in 1..(n - 1) : g[k] = 2 * g[k - 1]
      BY <3>2
    <3>4. h \in [0..n -> Nat]
      BY <2>2, <2>4, <3>1, <3>3
    <3>5. h[0] = 1 /\ \A k \in 1..n : h[k] = 2 * h[k - 1]
      <4>1. h[0] = 1 /\ h[n] = 2 * g[n - 1] /\ \A k \in 0..(n - 1) : h[k] = g[k]
        BY <2>2, <2>4, <3>3
      <4> HIDE DEF h
      <4>2. ASSUME NEW k \in 1..n PROVE h[k] = 2 * h[k - 1]
        <5>1. CASE k = n
          BY <2>2, <2>4, <4>1, <5>1
        <5>2. CASE k # n
          <6>1. k \in 1..(n - 1) /\ k \in 0..(n - 1) /\ k - 1 \in 0..(n - 1)
            BY <2>2, <5>2
          <6>2. h[k] = g[k] /\ h[k - 1] = g[k - 1]
            BY <4>1, <6>1
          <6> QED BY <3>3, <6>1, <6>2
        <5> QED BY <5>1, <5>2
      <4> QED BY <4>1, <4>2
    <3> HIDE DEF h
    <3>6. h \in Start(n)
      BY <3>4, <3>5
    <3> QED BY <2>2, <3>6
  <2> QED BY <2>3, <2>4
<1>2. ASSUME NEW n \in Nat, NEW m \in Nat, NEW g \in Start(n), NEW h \in Start(m)
      PROVE  \A k \in 0..n : k <= m => g[k] = h[k]
  <2> DEFINE T == {k \in 0..n : k <= m /\ g[k] # h[k]}
  <2> SUFFICES ASSUME T # {} PROVE FALSE
    OBVIOUS
  <2>1. T \in SUBSET Nat
    OBVIOUS
  <2>2. PICK k \in T : \A j \in T : k <= j
    BY <2>1, LeastNat
  <2>3. k \in Nat /\ k \in 0..n /\ k <= m /\ g[k] # h[k]
    BY <2>2
  <2>4. k # 0
    BY <2>3
  <2>5. k - 1 \notin T /\ k - 1 \in 0..n /\ k - 1 <= m
    BY <2>2, <2>3, <2>4
  <2>6. g[k - 1] = h[k - 1]
    BY <2>5
  <2>7. g[k] = 2 * g[k - 1] /\ h[k] = 2 * h[k - 1]
    BY <2>3, <2>4
  <2> QED BY <2>3, <2>6, <2>7
<1> DEFINE Pick(n) == CHOOSE g : g \in Start(n)
           f == [n \in Nat |-> Pick(n)[n]]
<1>3. \A n \in Nat : Pick(n) \in Start(n)
  BY <1>1
<1>4. ASSUME NEW n \in Nat PROVE f[n] = IF n = 0 THEN 1 ELSE 2 * f[n - 1]
  <2>1. Pick(n) \in Start(n) /\ f[n] = Pick(n)[n]
    BY <1>3
  <2> HIDE DEF Pick
  <2>2. CASE n = 0
    BY <2>1, <2>2
  <2>3. CASE n # 0
    <3>1. n - 1 \in Nat /\ Pick(n - 1) \in Start(n - 1)
      BY <1>3, <2>3
    <3>2. f[n - 1] = Pick(n - 1)[n - 1]
      BY <3>1
    <3>3. Pick(n)[n - 1] = Pick(n - 1)[n - 1]
      <4>1. n - 1 \in 0..n /\ n - 1 <= n - 1
        BY <2>3
      <4> HIDE DEF Start
      <4> QED BY <1>2, <2>1, <3>1, <4>1
    <3>4. Pick(n)[n] = 2 * Pick(n)[n - 1]
      BY <2>1, <2>3
    <3> QED BY <2>1, <2>3, <3>2, <3>3, <3>4
  <2> QED BY <2>2, <2>3
<1> HIDE DEF f
<1>5. f = [n \in Nat |-> IF n = 0 THEN 1 ELSE 2 * f[n - 1]]
  <2>1. f = [n \in Nat |-> f[n]]
    BY DEF f
  <2> QED BY <1>4, <2>1
<1> QED BY <1>5

\* Doubling k times multiplies by more than k.
LEMMA DoubledGrows == \A k \in Nat : Doubled[k] \in Nat /\ Doubled[k] > k
<1>1. Doubled = [k \in Nat |-> IF k = 0 THEN 1 ELSE 2 * Doubled[k - 1]]
  BY DoubledExists DEF Doubled
<1> DEFINE T == {k \in Nat : ~(Doubled[k] \in Nat /\ Doubled[k] > k)}
<1> SUFFICES ASSUME T # {} PROVE FALSE
  OBVIOUS
<1>2. PICK k \in T : \A j \in T : k <= j
  BY LeastNat
<1>3. k \in Nat /\ ~(Doubled[k] \in Nat /\ Doubled[k] > k)
  BY <1>2
<1>4. Doubled[k] = IF k = 0 THEN 1 ELSE 2 * Doubled[k - 1]
  BY <1>1, <1>3
<1>5. CASE k = 0
  BY <1>3, <1>4, <1>5
<1>6. CASE k # 0
  <2>1. k - 1 \in Nat /\ k - 1 \notin T
    BY <1>2, <1>3, <1>6
  <2>2. Doubled[k - 1] \in Nat /\ Doubled[k - 1] > k - 1
    BY <2>1
  <2> QED BY <1>3, <1>4, <1>6, <2>2
<1> QED BY <1>5, <1>6

\* The doubling loop ends with room for what is needed.
LEMMA NewCapFits ==
  ASSUME NEW pipe, pipe.cap \in Nat \ {0}, NEW needed \in Nat
  PROVE  new_cap(pipe, needed) \in Nat /\ new_cap(pipe, needed) >= needed
<1> DEFINE fits == {c \in {pipe.cap * Doubled[k] : k \in 0..needed} : c >= needed}
<1>1. fits \in SUBSET Nat
  BY DoubledGrows
<1>2. pipe.cap * Doubled[needed] \in fits
  <2>1. Doubled[needed] \in Nat /\ Doubled[needed] > needed
    BY DoubledGrows
  <2>2. \A a \in Nat \ {0}, b \in Nat : a * b >= b /\ a * b \in Nat
    OBVIOUS
  <2>3. pipe.cap * Doubled[needed] >= needed
    BY <2>1, <2>2
  <2> QED BY <2>3
<1>3. \A c \in fits : c >= needed
  OBVIOUS
<1> HIDE DEF fits
<1>4. \E c \in fits : \A d \in fits : c <= d
  BY <1>1, <1>2, LeastNat
<1>5. (CHOOSE c \in fits : \A d \in fits : c <= d) \in fits
  BY <1>4
<1> QED BY <1>1, <1>3, <1>5 DEF new_cap, fits
-----------------------------------------------------------------------------
(* The circular buffer *)

\* An index that has run past the end of the buffer once.
LEMMA Wrap ==
  ASSUME NEW c \in Nat \ {0}, NEW a \in Nat, a < 2 * c
  PROVE  a % c = IF a < c THEN a ELSE a - c
<1>1. CASE a < c
  BY <1>1
<1>2. CASE ~(a < c)
  <2> DEFINE b == a - c
  <2>1. b \in Nat /\ b < c /\ a = b + c
    BY <1>2
  <2> HIDE DEF b
  <2>2. (b + c) % c = b
    BY <2>1
  <2> QED BY <1>2, <2>1, <2>2
<1> QED BY <1>1, <1>2

\* The i-th index after the head, and the head after k bytes were read.
LEMMA WrapFromHead ==
  ASSUME NEW c \in Nat \ {0}, NEW h \in Nat, h < c, NEW i \in Nat, i <= c
  PROVE  (h + i) % c = IF h + i < c THEN h + i ELSE h + i - c
<1> DEFINE x == h + i
<1>1. x \in Nat /\ x < 2 * c
  OBVIOUS
<1> HIDE DEF x
<1>2. x % c = IF x < c THEN x ELSE x - c
  BY <1>1, Wrap
<1> QED BY <1>2 DEF x

\* The fields of an entry.
LEMMA EntryFields ==
  ASSUME NEW pipe \in PipeEntry
  PROVE  /\ pipe.in_use \in BOOLEAN /\ pipe.buf \in Seq(Byte \union {None})
         /\ pipe.cap \in Nat /\ pipe.head \in Nat /\ pipe.len \in Nat
         /\ pipe.readers \in Seq(Proc)
         /\ DOMAIN pipe.buf = 1..Len(pipe.buf)
         /\ \A i \in 1..Len(pipe.buf) : pipe.buf[i] \in Byte \union {None}
BY DEF PipeEntry

\* The bytes of a sound pipe are a sequence, and where each of them is.
LEMMA BytesFacts ==
  ASSUME NEW pipe \in PipeEntry, Sound(pipe), pipe.in_use
  PROVE  /\ Bytes(pipe) \in Seq(Byte \union {None}) /\ Len(Bytes(pipe)) = pipe.len
         /\ \A i \in 1..pipe.len :
              /\ At(pipe, i - 1) \in Byte \union {None}
              /\ Bytes(pipe)[i] = pipe.buf[IF pipe.head + i <= pipe.cap THEN pipe.head + i
                                           ELSE pipe.head + i - pipe.cap]
<1>1. /\ pipe.cap \in Nat \ {0} /\ pipe.head \in Nat /\ pipe.head < pipe.cap
      /\ pipe.len \in Nat /\ pipe.len <= pipe.cap
      /\ \A i \in 1..pipe.cap : pipe.buf[i] \in Byte \union {None}
  BY EntryFields DEF Sound
<1>2. ASSUME NEW i \in 1..pipe.len
      PROVE  /\ At(pipe, i - 1) = pipe.buf[IF pipe.head + i <= pipe.cap THEN pipe.head + i
                                           ELSE pipe.head + i - pipe.cap]
             /\ At(pipe, i - 1) \in Byte \union {None}
  <2> DEFINE a == pipe.head + (i - 1)
             j == IF pipe.head + i <= pipe.cap THEN pipe.head + i
                  ELSE pipe.head + i - pipe.cap
  <2>1. a \in Nat /\ a < 2 * pipe.cap
    BY <1>1
  <2>2. a % pipe.cap = IF a < pipe.cap THEN a ELSE a - pipe.cap
    BY <1>1, <2>1, Wrap
  <2>3. (a % pipe.cap) + 1 = j /\ j \in 1..pipe.cap
    BY <1>1, <2>2
  <2> QED BY <1>1, <2>3 DEF At
<1> DEFINE S == Byte \union {None}
<1>3. Bytes(pipe) \in [1..pipe.len -> S]
  BY <1>2 DEF Bytes
<1>4. Bytes(pipe) \in Seq(S) /\ Len(Bytes(pipe)) = pipe.len
  BY <1>1, <1>3
<1> QED BY <1>2, <1>4 DEF Bytes

\* Growing the buffer keeps the bytes, in their order, wherever they were.
LEMMA EnsureCapacityKeepsBytes ==
  ASSUME NEW pipe \in PipeEntry, Sound(pipe), pipe.in_use, NEW needed \in Nat,
         pipe.len <= needed
  PROVE  LET e == ensure_capacity(pipe, needed)
         IN  /\ e \in PipeEntry /\ Sound(e) /\ e.in_use
             /\ e.cap >= needed /\ e.len = pipe.len /\ e.readers = pipe.readers
             /\ Bytes(e) = Bytes(pipe)
<1> DEFINE e == ensure_capacity(pipe, needed)
<1>1. /\ pipe.cap \in Nat \ {0} /\ pipe.head \in Nat /\ pipe.head < pipe.cap
      /\ pipe.len \in Nat /\ pipe.len <= pipe.cap
      /\ pipe.buf \in Seq(Byte \union {None}) /\ pipe.in_use \in BOOLEAN
      /\ pipe.readers \in Seq(Proc)
  BY EntryFields DEF Sound
<1>2. CASE needed <= pipe.cap
  <2>1. e = pipe
    BY <1>2 DEF ensure_capacity
  <2> QED BY <1>2, <2>1
<1>3. CASE ~(needed <= pipe.cap)
  <2> DEFINE cap == new_cap(pipe, needed)
             buf == [i \in 1..cap |-> IF i <= pipe.len THEN At(pipe, i - 1) ELSE None]
  <2>1. cap \in Nat /\ cap >= needed
    BY <1>1, NewCapFits
  <2>2. e = [pipe EXCEPT !.buf = buf, !.cap = cap, !.head = 0]
    BY <1>3 DEF ensure_capacity
  <2>3. buf \in Seq(Byte \union {None}) /\ Len(buf) = cap
    <3>1. \A i \in 1..pipe.len : At(pipe, i - 1) \in Byte \union {None}
      BY BytesFacts
    <3> HIDE DEF cap
    <3>2. buf \in [1..cap -> Byte \union {None}]
      BY <1>1, <2>1, <3>1
    <3> HIDE DEF buf
    <3> QED BY <2>1, <3>2
  <2>4. \A i \in 1..pipe.len : buf[i] = Bytes(pipe)[i]
    BY <1>1, <1>3, <2>1 DEF Bytes
  <2> HIDE DEF cap, buf, e
  <2>5. /\ e.in_use = pipe.in_use /\ e.buf = buf /\ e.cap = cap /\ e.head = 0
        /\ e.len = pipe.len /\ e.readers = pipe.readers
    BY <2>2 DEF PipeEntry
  <2>6. e \in PipeEntry
    BY <2>1, <2>2, <2>3 DEF PipeEntry
  <2>7. Sound(e)
    BY <1>1, <1>3, <2>1, <2>3, <2>5 DEF Sound
  <2>8. ASSUME NEW i \in 1..pipe.len PROVE Bytes(e)[i] = Bytes(pipe)[i]
    <3>1. Bytes(e)[i] = e.buf[IF e.head + i <= e.cap THEN e.head + i ELSE e.head + i - e.cap]
      BY <2>5, <2>6, <2>7, BytesFacts
    <3>2. e.head + i = i /\ i <= e.cap
      BY <1>1, <1>3, <2>1, <2>5
    <3> QED BY <2>4, <2>5, <3>1, <3>2
  <2>9. Bytes(e) = Bytes(pipe)
    <3>1. /\ Bytes(e) \in Seq(Byte \union {None}) /\ Len(Bytes(e)) = pipe.len
          /\ Bytes(pipe) \in Seq(Byte \union {None}) /\ Len(Bytes(pipe)) = pipe.len
      BY <2>5, <2>6, <2>7, BytesFacts
    <3> QED BY <2>8, <3>1
  <2> QED BY <1>3, <2>1, <2>5, <2>6, <2>7, <2>9 DEF e
<1> QED BY <1>2, <1>3

\* Appending adds the text after the bytes, and overwrites none of them.
LEMMA AppendBytesAddsText ==
  ASSUME NEW pipe \in PipeEntry, Sound(pipe), pipe.in_use, NEW text \in Seq(Byte),
         pipe.len + Len(text) <= pipe.cap
  PROVE  LET a == append_bytes(pipe, text)
         IN  /\ a \in PipeEntry /\ Sound(a) /\ a.in_use
             /\ a.len = pipe.len + Len(text) /\ a.readers = pipe.readers
             /\ Bytes(a) = Bytes(pipe) \o text
<1> DEFINE a == append_bytes(pipe, text)
           Slot(i) == ((pipe.head + pipe.len + i - 1) % pipe.cap) + 1
           Pos(i) == IF pipe.head + i <= pipe.cap THEN pipe.head + i
                     ELSE pipe.head + i - pipe.cap
           buf == [s \in 1..pipe.cap |->
                    IF \E i \in DOMAIN text : Slot(i) = s
                    THEN text[CHOOSE i \in DOMAIN text : Slot(i) = s] ELSE pipe.buf[s]]
<1>1. /\ pipe.cap \in Nat \ {0} /\ pipe.head \in Nat /\ pipe.head < pipe.cap
      /\ pipe.len \in Nat /\ pipe.len <= pipe.cap
      /\ pipe.buf \in Seq(Byte \union {None}) /\ pipe.in_use \in BOOLEAN
      /\ \A i \in 1..pipe.cap : pipe.buf[i] \in Byte \union {None}
      /\ pipe.readers \in Seq(Proc)
  BY EntryFields DEF Sound
<1>t. Len(text) \in Nat /\ DOMAIN text = 1..Len(text) /\ \A i \in 1..Len(text) : text[i] \in Byte
  OBVIOUS
<1>2. \A i \in 1..Len(text) : Slot(i) = Pos(pipe.len + i)
  <2> TAKE i \in 1..Len(text)
  <2> DEFINE x == pipe.head + pipe.len + i - 1
  <2>1. x \in Nat /\ x < 2 * pipe.cap
    BY <1>1, <1>t, SMTT(30)
  <2>2. x % pipe.cap = IF x < pipe.cap THEN x ELSE x - pipe.cap
    BY <1>1, <2>1, Wrap
  <2> QED BY <1>1, <1>t, <2>2, SMTT(30)
<1>3. \A i, j \in 1..(pipe.len + Len(text)) : Pos(i) = Pos(j) => i = j
  BY <1>1, <1>t, SMTT(30)
<1>4. \A i \in 1..(pipe.len + Len(text)) : Pos(i) \in 1..pipe.cap
  BY <1>1, <1>t, SMTT(30)
<1>5. a = [pipe EXCEPT !.buf = buf, !.len = pipe.len + Len(text)]
  BY DEF append_bytes
<1> HIDE DEF Slot, Pos, a
<1>6. ASSUME NEW i \in 1..Len(text) PROVE buf[Pos(pipe.len + i)] = text[i]
  <2>1. pipe.len + i \in 1..(pipe.len + Len(text))
    BY <1>1, <1>t
  <2>2. Pos(pipe.len + i) \in 1..pipe.cap
    BY <1>4, <2>1
  <2>3. ASSUME NEW j \in DOMAIN text, Slot(j) = Pos(pipe.len + i) PROVE j = i
    <3>1. pipe.len + j \in 1..(pipe.len + Len(text)) /\ Pos(pipe.len + j) = Pos(pipe.len + i)
      BY <1>1, <1>2, <1>t, <2>3
    <3>2. pipe.len + j = pipe.len + i
      BY <1>3, <2>1, <3>1
    <3> QED BY <1>1, <1>t, <3>2
  <2>4. i \in DOMAIN text /\ Slot(i) = Pos(pipe.len + i)
    BY <1>2, <1>t
  <2>5. (CHOOSE j \in DOMAIN text : Slot(j) = Pos(pipe.len + i)) = i
    BY <2>3, <2>4
  <2> QED BY <2>2, <2>4, <2>5
<1>7. ASSUME NEW i \in 1..pipe.len PROVE buf[Pos(i)] = pipe.buf[Pos(i)]
  <2>1. i \in 1..(pipe.len + Len(text)) /\ Pos(i) \in 1..pipe.cap
    BY <1>1, <1>4, <1>t
  <2>2. ASSUME NEW j \in DOMAIN text, Slot(j) = Pos(i) PROVE FALSE
    <3>1. j \in 1..Len(text) /\ pipe.len + j \in 1..(pipe.len + Len(text))
      BY <1>1, <1>t
    <3>2. Pos(pipe.len + j) = Pos(i)
      BY <1>2, <2>2, <3>1
    <3>3. pipe.len + j = i
      BY <1>3, <2>1, <3>1, <3>2
    <3> QED BY <1>1, <3>1, <3>3
  <2> QED BY <2>1, <2>2
<1>8. buf \in Seq(Byte \union {None}) /\ Len(buf) = pipe.cap
  <2>1. buf \in [1..pipe.cap -> Byte \union {None}]
    <3> SUFFICES ASSUME NEW s \in 1..pipe.cap PROVE buf[s] \in Byte \union {None}
      OBVIOUS
    <3>1. CASE \E i \in DOMAIN text : Slot(i) = s
      <4>1. (CHOOSE i \in DOMAIN text : Slot(i) = s) \in DOMAIN text
        BY <3>1
      <4> QED BY <1>t, <3>1, <4>1
    <3>2. CASE ~\E i \in DOMAIN text : Slot(i) = s
      BY <1>1, <3>2
    <3> QED BY <3>1, <3>2
  <2> HIDE DEF buf
  <2> QED BY <1>1, <2>1, FunctionIsSeq
<1> HIDE DEF buf
<1>9. /\ a.in_use = pipe.in_use /\ a.buf = buf /\ a.cap = pipe.cap /\ a.head = pipe.head
      /\ a.len = pipe.len + Len(text) /\ a.readers = pipe.readers
  BY <1>5 DEF PipeEntry
<1>10. a \in PipeEntry
  <2>1. pipe.len + Len(text) \in Nat
    BY <1>1, <1>t
  <2> QED BY <1>5, <1>8, <2>1 DEF PipeEntry
<1>11. Sound(a)
  BY <1>1, <1>8, <1>9 DEF Sound
<1>12. /\ Bytes(a) \in Seq(Byte \union {None}) /\ Len(Bytes(a)) = pipe.len + Len(text)
       /\ \A i \in 1..(pipe.len + Len(text)) : Bytes(a)[i] = buf[Pos(i)]
  <2>1. /\ Bytes(a) \in Seq(Byte \union {None}) /\ Len(Bytes(a)) = a.len
        /\ \A i \in 1..a.len :
             Bytes(a)[i] = a.buf[IF a.head + i <= a.cap THEN a.head + i ELSE a.head + i - a.cap]
    BY <1>9, <1>10, <1>11, BytesFacts
  <2> QED BY <1>9, <2>1 DEF Pos
<1>13. /\ Bytes(pipe) \in Seq(Byte \union {None}) /\ Len(Bytes(pipe)) = pipe.len
       /\ \A i \in 1..pipe.len : Bytes(pipe)[i] = pipe.buf[Pos(i)]
  BY BytesFacts DEF Pos
<1>14. ASSUME NEW i \in 1..(pipe.len + Len(text))
       PROVE  Bytes(a)[i] = (Bytes(pipe) \o text)[i]
  <2>1. CASE i <= pipe.len
    <3>1. i \in 1..pipe.len
      BY <1>1, <2>1
    <3>2. (Bytes(pipe) \o text)[i] = Bytes(pipe)[i]
      BY <1>13, <3>1
    <3> QED BY <1>7, <1>12, <1>13, <3>1, <3>2
  <2>2. CASE ~(i <= pipe.len)
    <3>1. i - pipe.len \in 1..Len(text) /\ pipe.len + (i - pipe.len) = i
      BY <1>1, <1>t, <2>2
    <3>2. (Bytes(pipe) \o text)[i] = text[i - pipe.len]
      BY <1>1, <1>13, <2>2, <3>1, SMTT(30)
    <3>3. buf[Pos(pipe.len + (i - pipe.len))] = text[i - pipe.len]
      BY <1>6, <3>1
    <3> QED BY <1>12, <3>1, <3>2, <3>3
  <2> QED BY <2>1, <2>2
<1>15. Bytes(a) = Bytes(pipe) \o text
  <2> DEFINE S == Byte \union {None}
             c == Bytes(pipe) \o text
  <2>1. c \in Seq(S) /\ Len(c) = pipe.len + Len(text)
    BY <1>13, SMTT(30)
  <2> HIDE DEF c
  <2>2. \A i \in 1..(pipe.len + Len(text)) : Bytes(a)[i] = c[i]
    BY <1>14 DEF c
  <2>3. Bytes(a) = c
    BY <1>12, <2>1, <2>2
  <2> QED BY <2>3 DEF c
<1> QED BY <1>9, <1>10, <1>11, <1>15 DEF a

\* What is left of a sequence without its first k elements.
LEMMA SuffixFacts ==
  ASSUME NEW S, NEW s \in Seq(S), NEW k \in Nat, k <= Len(s)
  PROVE  /\ SubSeq(s, k + 1, Len(s)) \in Seq(S)
         /\ Len(SubSeq(s, k + 1, Len(s))) = Len(s) - k
         /\ \A i \in 1..(Len(s) - k) : SubSeq(s, k + 1, Len(s))[i] = s[k + i]
OBVIOUS

\* Reading takes bytes from the front and leaves the others as they are.
LEMMA ReadBytesTakesFront ==
  ASSUME NEW pipe \in PipeEntry, Sound(pipe), pipe.in_use, NEW n \in Nat
  PROVE  LET r == read_bytes(pipe, n)
             k == BytesRead(pipe, n)
         IN  /\ r \in PipeEntry /\ Sound(r) /\ r.in_use
             /\ k \in 0..pipe.len /\ r.len = pipe.len - k /\ r.readers = pipe.readers
             /\ Bytes(r) = SubSeq(Bytes(pipe), k + 1, pipe.len)
<1> DEFINE r == read_bytes(pipe, n)
           k == BytesRead(pipe, n)
           head == IF k = pipe.len THEN 0 ELSE (pipe.head + k) % pipe.cap
           buf == Unread(pipe, k)
           Pos(i) == IF pipe.head + i <= pipe.cap THEN pipe.head + i
                     ELSE pipe.head + i - pipe.cap
<1>1. /\ pipe.cap \in Nat \ {0} /\ pipe.head \in Nat /\ pipe.head < pipe.cap
      /\ pipe.len \in Nat /\ pipe.len <= pipe.cap
      /\ pipe.buf \in Seq(Byte \union {None}) /\ pipe.in_use \in BOOLEAN
      /\ \A i \in 1..pipe.cap : pipe.buf[i] \in Byte \union {None}
      /\ pipe.readers \in Seq(Proc)
  BY EntryFields DEF Sound
<1>2. k \in Nat /\ k <= pipe.len
  BY <1>1 DEF BytesRead
<1>3. r = [pipe EXCEPT !.buf = buf, !.len = pipe.len - k, !.head = head]
  BY DEF read_bytes
<1> HIDE DEF k, r
<1>4. buf \in Seq(Byte \union {None}) /\ Len(buf) = pipe.cap
  <2>1. buf \in [1..pipe.cap -> Byte \union {None}]
    BY <1>1 DEF Unread
  <2> HIDE DEF buf
  <2> QED BY <1>1, <2>1, FunctionIsSeq
<1>5. /\ head \in Nat /\ head < pipe.cap
      /\ k < pipe.len => head = IF pipe.head + k < pipe.cap THEN pipe.head + k
                                ELSE pipe.head + k - pipe.cap
  <2>2. (pipe.head + k) % pipe.cap = IF pipe.head + k < pipe.cap THEN pipe.head + k
                                     ELSE pipe.head + k - pipe.cap
    <3>1. k \in Nat /\ k <= pipe.cap
      BY <1>1, <1>2
    <3> QED BY <1>1, <3>1, WrapFromHead
  <2>3. CASE k = pipe.len
    BY <1>1, <2>3
  <2>4. CASE k # pipe.len
    <3>1. head = (pipe.head + k) % pipe.cap
      BY <2>4
    <3> HIDE DEF head
    <3>2. head = IF pipe.head + k < pipe.cap THEN pipe.head + k ELSE pipe.head + k - pipe.cap
      BY <2>2, <3>1, Zenon
    <3> QED BY <1>1, <1>2, <3>2
  <2> QED BY <2>3, <2>4
<1>6. \A i \in 0..(k - 1) : ((pipe.head + i) % pipe.cap) + 1 = Pos(i + 1)
  <2> TAKE i \in 0..(k - 1)
  <2>1. i \in Nat /\ i <= pipe.cap
    BY <1>1, <1>2
  <2>2. (pipe.head + i) % pipe.cap = IF pipe.head + i < pipe.cap THEN pipe.head + i
                                     ELSE pipe.head + i - pipe.cap
    BY <1>1, <2>1, WrapFromHead
  <2> DEFINE x == (pipe.head + i) % pipe.cap
  <2> HIDE DEF x
  <2>3. x = IF pipe.head + i < pipe.cap THEN pipe.head + i ELSE pipe.head + i - pipe.cap
    BY <2>2, Zenon DEF x
  <2>4. x + 1 = Pos(i + 1)
    <3>1. CASE pipe.head + i < pipe.cap
      BY <1>1, <2>1, <2>3, <3>1
    <3>2. CASE ~(pipe.head + i < pipe.cap)
      <4>1. x = pipe.head + i - pipe.cap
        BY <2>3, <3>2
      <4>2. Pos(i + 1) = pipe.head + (i + 1) - pipe.cap
        BY <1>1, <2>1, <3>2
      <4>3. i \in Int /\ pipe.head \in Int /\ pipe.cap \in Int
        BY <1>1, <2>1
      <4> HIDE DEF Pos
      <4> QED BY <4>1, <4>2, <4>3
    <3> QED BY <3>1, <3>2
  <2> QED BY <2>4, Zenon DEF x
<1>7. \A i, j \in 1..pipe.len : Pos(i) = Pos(j) => i = j
  BY <1>1
<1>8. \A i \in 1..pipe.len : Pos(i) \in 1..pipe.cap
  BY <1>1
<1>9. \A i \in 1..(pipe.len - k) :
        Pos(k + i) = IF head + i <= pipe.cap THEN head + i ELSE head + i - pipe.cap
  <2> TAKE i \in 1..(pipe.len - k)
  <2> HIDE DEF head
  <2>1. k < pipe.len
    BY <1>1, <1>2
  <2>2. CASE pipe.head + k < pipe.cap
    <3>1. head = pipe.head + k
      BY <1>5, <2>1, <2>2
    <3> QED BY <1>1, <1>2, <3>1
  <2>3. CASE ~(pipe.head + k < pipe.cap)
    <3>1. head = pipe.head + k - pipe.cap
      BY <1>5, <2>1, <2>3
    <3>2. ~(pipe.head + (k + i) <= pipe.cap) /\ head + i <= pipe.cap
      BY <1>1, <1>2, <2>3, <3>1
    <3> QED BY <1>1, <1>2, <3>1, <3>2, SMTT(30)
  <2> QED BY <2>2, <2>3
<1>10. ASSUME NEW i \in 1..(pipe.len - k) PROVE buf[Pos(k + i)] = pipe.buf[Pos(k + i)]
  <2> HIDE DEF Pos
  <2>1. k + i \in 1..pipe.len /\ Pos(k + i) \in 1..pipe.cap
    BY <1>1, <1>2, <1>8
  <2>2. ASSUME NEW j \in 0..(k - 1), ((pipe.head + j) % pipe.cap) + 1 = Pos(k + i)
        PROVE  FALSE
    <3>1. j + 1 \in 1..pipe.len /\ Pos(j + 1) = Pos(k + i)
      BY <1>1, <1>2, <1>6, <2>2
    <3>2. j + 1 = k + i
      BY <1>7, <2>1, <3>1
    <3> QED BY <1>2, <3>2
  <2> QED BY <2>1, <2>2 DEF Unread
<1> HIDE DEF Pos, head, buf
<1>11. /\ r.in_use = pipe.in_use /\ r.buf = buf /\ r.cap = pipe.cap /\ r.head = head
       /\ r.len = pipe.len - k /\ r.readers = pipe.readers
  BY <1>3 DEF PipeEntry
<1>12. r \in PipeEntry
  <2>1. pipe.len - k \in Nat
    BY <1>1, <1>2
  <2> QED BY <1>3, <1>4, <1>5, <2>1 DEF PipeEntry
<1>13. Sound(r)
  BY <1>1, <1>2, <1>4, <1>5, <1>11 DEF Sound
<1>14. /\ Bytes(r) \in Seq(Byte \union {None}) /\ Len(Bytes(r)) = pipe.len - k
       /\ \A i \in 1..(pipe.len - k) : Bytes(r)[i] = buf[Pos(k + i)]
  <2>1. /\ Bytes(r) \in Seq(Byte \union {None}) /\ Len(Bytes(r)) = r.len
        /\ \A i \in 1..r.len :
             Bytes(r)[i] = r.buf[IF r.head + i <= r.cap THEN r.head + i ELSE r.head + i - r.cap]
    BY <1>11, <1>12, <1>13, BytesFacts
  <2> QED BY <1>9, <1>11, <2>1
<1>15. /\ Bytes(pipe) \in Seq(Byte \union {None}) /\ Len(Bytes(pipe)) = pipe.len
       /\ \A i \in 1..pipe.len : Bytes(pipe)[i] = pipe.buf[Pos(i)]
  BY BytesFacts DEF Pos
<1>16. Bytes(r) = SubSeq(Bytes(pipe), k + 1, pipe.len)
  <2> DEFINE c == SubSeq(Bytes(pipe), k + 1, pipe.len)
  <2>1. /\ c \in Seq(Byte \union {None}) /\ Len(c) = pipe.len - k
        /\ \A i \in 1..(pipe.len - k) : c[i] = Bytes(pipe)[k + i]
    <3>1. k \in Nat /\ pipe.len \in Nat /\ k <= pipe.len
      BY <1>1, <1>2
    <3> QED BY <1>15, <3>1, SuffixFacts
  <2> HIDE DEF c
  <2>2. ASSUME NEW i \in 1..(pipe.len - k) PROVE Bytes(r)[i] = c[i]
    <3>1. k + i \in 1..pipe.len
      BY <1>1, <1>2
    <3>2. Bytes(pipe)[k + i] = pipe.buf[Pos(k + i)]
      BY <1>15, <3>1
    <3> QED BY <1>10, <1>14, <2>1, <3>2
  <2>3. Bytes(r) = c
    BY <1>14, <2>1, <2>2
  <2> QED BY <2>3 DEF c
<1> QED BY <1>1, <1>2, <1>11, <1>12, <1>13, <1>16 DEF r, k
-----------------------------------------------------------------------------
(* What the calls do to the table *)

\* The scan for an index that is not in use finds the first.
LEMMA FirstUnusedFacts ==
  ASSUME NEW ps, NEW from \in Nat, NEW size \in Nat, from <= size
  PROVE  LET i == FirstUnused(ps, from, size)
         IN  /\ i \in from..size
             /\ i < size => ~ps[i].in_use
             /\ \A j \in from..(i - 1) : ps[j].in_use
<1> DEFINE T == {i \in from..size : i < size => ~ps[i].in_use}
           P(i) == (i < size => ~ps[i].in_use) /\ \A j \in from..(i - 1) : ps[j].in_use
<1>1. T \in SUBSET Nat /\ size \in T
  OBVIOUS
<1>2. PICK i \in T : \A j \in T : i <= j
  BY <1>1, LeastNat
<1>3. i \in from..size /\ (i < size => ~ps[i].in_use)
  BY <1>2
<1>4. ASSUME NEW j \in from..(i - 1) PROVE ps[j].in_use
  <2>1. j \in from..size /\ j < size /\ ~(i <= j)
    BY <1>3
  <2>2. j \notin T
    BY <1>2, <2>1
  <2> QED BY <2>1, <2>2
<1>5. \E x \in from..size : P(x)
  BY <1>3, <1>4
<1> HIDE DEF P
<1>6. LET x == CHOOSE x \in from..size : P(x) IN x \in from..size /\ P(x)
  BY <1>5
<1> QED BY <1>6 DEF FirstUnused, P

\* A text is a sequence of one byte at least.
LEMMA TextFacts ==
  ASSUME NEW text \in Text
  PROVE  text \in Seq(Byte) /\ Len(text) \in Nat \ {0}
<1>1. PICK n \in WriteLen : text \in [1..n -> Byte]
  BY DEF Text
<1>2. n \in Nat \ {0}
  BY PipeAssumption
<1> QED BY <1>1, <1>2, FunctionIsSeq

\* A new pipe's entry.
NewEntry == [Cleared EXCEPT !.in_use = TRUE,
               !.buf = [i \in 1..PIPE_BUFFER_LEN |-> None], !.cap = PIPE_BUFFER_LEN]

\* Entries that are cleared, and those that new_pipe makes.
LEMMA NewEntryFacts ==
  /\ Cleared \in PipeEntry /\ Sound(Cleared) /\ ~Cleared.in_use
  /\ Cleared.len = 0 /\ Cleared.readers = <<>>
  /\ NewEntry \in PipeEntry /\ Sound(NewEntry) /\ NewEntry.in_use
  /\ NewEntry.len = 0 /\ NewEntry.readers = <<>>
<1> DEFINE b == [i \in 1..PIPE_BUFFER_LEN |-> None]
<1>1. b \in [1..PIPE_BUFFER_LEN -> Byte \union {None}] /\ PIPE_BUFFER_LEN \in Nat \ {0}
  BY PipeAssumption
<1>0. NewEntry = [Cleared EXCEPT !.in_use = TRUE, !.buf = b, !.cap = PIPE_BUFFER_LEN]
  BY DEF NewEntry
<1> HIDE DEF b
<1>2. NewEntry = [in_use |-> TRUE, buf |-> b, cap |-> PIPE_BUFFER_LEN, head |-> 0,
                  len |-> 0, readers |-> <<>>]
  BY <1>0 DEF Cleared
<1>3. b \in Seq(Byte \union {None}) /\ Len(b) = PIPE_BUFFER_LEN
  BY <1>1, FunctionIsSeq
<1>4. NewEntry \in PipeEntry
  BY <1>1, <1>2, <1>3 DEF PipeEntry
<1>5. Cleared \in PipeEntry /\ Sound(Cleared)
  BY DEF Cleared, PipeEntry, Sound
<1> QED BY <1>1, <1>2, <1>3, <1>4, <1>5 DEF Cleared, Sound

\* PipeInit puts a new entry at the open index, inside the table.
LEMMA NewPipeStep ==
  ASSUME TypeOK, new_pipe
  PROVE  /\ open_pipe_idx \in Id /\ open_pipe_idx < Grown
         /\ Grown \in 1..MAX_PIPES /\ Grown >= pipes_size
         /\ pipes_size' = Grown
         /\ pipes' = [pipes EXCEPT ![open_pipe_idx] = NewEntry]
         /\ open_pipe_idx' \in open_pipe_idx..Grown
         /\ open_pipe_idx' < Grown => ~pipes'[open_pipe_idx'].in_use
         /\ \A j \in open_pipe_idx..(open_pipe_idx' - 1) : pipes'[j].in_use
<1>1. pipes_size \in Nat \ {0} /\ open_pipe_idx \in Nat /\ open_pipe_idx <= pipes_size
  BY DEF TypeOK
<1>2. /\ Grown \in Nat /\ Grown >= pipes_size /\ open_pipe_idx < Grown
      /\ Grown <= MAX_PIPES /\ MAX_PIPES \in Nat
  BY <1>1, PipeAssumption DEF Grown, new_pipe
<1>3. /\ pipes_size' = Grown
      /\ pipes' = [pipes EXCEPT ![open_pipe_idx] = NewEntry]
      /\ open_pipe_idx' = FirstUnused(pipes', open_pipe_idx, Grown)
  BY DEF new_pipe, NewEntry
<1>4. /\ open_pipe_idx' \in open_pipe_idx..Grown
      /\ open_pipe_idx' < Grown => ~pipes'[open_pipe_idx'].in_use
      /\ \A j \in open_pipe_idx..(open_pipe_idx' - 1) : pipes'[j].in_use
  <2> DEFINE i == FirstUnused(pipes', open_pipe_idx, Grown)
  <2>1. /\ i \in open_pipe_idx..Grown
        /\ i < Grown => ~pipes'[i].in_use
        /\ \A j \in open_pipe_idx..(i - 1) : pipes'[j].in_use
    <3>1. open_pipe_idx \in Nat /\ Grown \in Nat /\ open_pipe_idx <= Grown
      BY <1>1, <1>2
    <3> QED BY <3>1, FirstUnusedFacts, Zenon
  <2>2. open_pipe_idx' = i
    BY <1>3
  <2> HIDE DEF i
  <2> QED BY <2>1, <2>2
<1>5. open_pipe_idx \in Id /\ Grown \in 1..MAX_PIPES
  BY <1>1, <1>2 DEF Id
<1> QED BY <1>2, <1>3, <1>4, <1>5

\* TakeBytes leaves a pipe with its readers and the rest of its bytes.
LEMMA TakeBytesStep ==
  ASSUME TypeOK, NEW id \in Id, pipes[id].in_use, pipes[id].len > 0, NEW n \in ReadLen,
         TakeBytes(id, n)
  PROVE  \E e \in PipeEntry :
           /\ pipes' = [pipes EXCEPT ![id] = e]
           /\ Sound(e) /\ e.in_use /\ e.readers = pipes[id].readers /\ e.len <= pipes[id].len
           /\ LET k == IF pipes[id].len < n THEN pipes[id].len ELSE n
              IN  k > 0 /\ Bytes(e) = SubSeq(Bytes(pipes[id]), k + 1, pipes[id].len)
<1> DEFINE e == read_bytes(pipes[id], n)
<1>1. pipes[id] \in PipeEntry /\ Sound(pipes[id]) /\ n \in Nat \ {0}
  BY PipeAssumption DEF TypeOK
<1>2. /\ e \in PipeEntry /\ Sound(e) /\ e.in_use /\ e.readers = pipes[id].readers
      /\ BytesRead(pipes[id], n) \in 0..pipes[id].len
      /\ e.len = pipes[id].len - BytesRead(pipes[id], n)
      /\ Bytes(e) = SubSeq(Bytes(pipes[id]), BytesRead(pipes[id], n) + 1, pipes[id].len)
  BY <1>1, ReadBytesTakesFront
<1>5. e.len <= pipes[id].len
  <2> HIDE DEF e
  <2>1. pipes[id].len \in Nat
    BY <1>1, EntryFields
  <2> QED BY <1>2, <2>1
<1>3. pipes' = [pipes EXCEPT ![id] = e]
  BY DEF TakeBytes
<1>4. BytesRead(pipes[id], n) > 0
  BY <1>1, EntryFields DEF BytesRead
<1> HIDE DEF e
<1> QED BY <1>2, <1>3, <1>4, <1>5 DEF BytesRead

\* A write leaves a pipe with more bytes and no readers.
LEMMA WriteStep ==
  ASSUME TypeOK, NEW id \in Id, NEW text \in Text, PipeWrite_Impl(id, text)
  PROVE  /\ pipes[id].in_use /\ main_queue' = main_queue \o pipes[id].readers
         /\ \E e \in PipeEntry :
              /\ pipes' = [pipes EXCEPT ![id] = e]
              /\ Sound(e) /\ e.in_use /\ e.readers = <<>>
              /\ Bytes(e) = Bytes(pipes[id]) \o text
<1> DEFINE old == pipes[id]
           needed == old.len + Len(text)
           room == ensure_capacity(old, needed)
           full == append_bytes(room, text)
           e == [full EXCEPT !.readers = SubSeq(@, Len(wake_readers(id)) + 1, Len(@))]
<1>1. old \in PipeEntry /\ Sound(old) /\ old.in_use
  BY DEF TypeOK, PipeWrite_Impl, get_pipe
<1>2. text \in Seq(Byte) /\ needed \in Nat /\ old.len <= needed
  BY <1>1, TextFacts, EntryFields
<1>3. /\ room \in PipeEntry /\ Sound(room) /\ room.in_use
      /\ room.cap >= needed /\ room.len = old.len /\ room.readers = old.readers
      /\ Bytes(room) = Bytes(old)
  BY <1>1, <1>2, EnsureCapacityKeepsBytes
<1>4. room.cap \in Nat /\ room.len + Len(text) <= room.cap
  BY <1>2, <1>3, EntryFields
<1>5. pipes' = [pipes EXCEPT ![id] = e] /\ main_queue' = main_queue \o old.readers
  BY DEF PipeWrite_Impl, wake_readers
<1> HIDE DEF room
<1>6. /\ full \in PipeEntry /\ Sound(full) /\ full.in_use
      /\ full.readers = old.readers
      /\ Bytes(full) = Bytes(old) \o text
  BY <1>2, <1>3, <1>4, AppendBytesAddsText
<1>7. full.readers \in Seq(Proc) /\ wake_readers(id) = full.readers
  BY <1>6, EntryFields DEF wake_readers
<1> HIDE DEF full
<1>8. e = [full EXCEPT !.readers = <<>>]
  <2>1. \A q \in Seq(Proc) : SubSeq(q, Len(q) + 1, Len(q)) = <<>>
    OBVIOUS
  <2>2. e = [full EXCEPT !.readers = SubSeq(full.readers, Len(full.readers) + 1, Len(full.readers))]
    BY <1>7
  <2> QED BY <1>7, <2>1, <2>2
<1> HIDE DEF e
<1>9. /\ e \in PipeEntry /\ e.in_use = full.in_use /\ e.buf = full.buf /\ e.cap = full.cap
      /\ e.head = full.head /\ e.len = full.len /\ e.readers = <<>>
  <2>1. <<>> \in Seq(Proc)
    OBVIOUS
  <2> QED BY <1>6, <1>8, <2>1 DEF PipeEntry
<1>10. Sound(e) /\ Bytes(e) = Bytes(full)
  BY <1>6, <1>9 DEF Sound, Bytes, At
<1> QED BY <1>1, <1>5, <1>6, <1>9, <1>10
-----------------------------------------------------------------------------
(* Types *)

\* An entry is replaced by another.
LEMMA EntryType ==
  ASSUME TypeOK, NEW id \in Id, NEW e \in PipeEntry, Sound(e),
         pipes' = [pipes EXCEPT ![id] = e]
  PROVE  /\ pipes' \in [Id -> PipeEntry] /\ \A i \in Id : Sound(pipes'[i])
         /\ pipes'[id] = e /\ \A i \in Id : i # id => pipes'[i] = pipes[i]
BY DEF TypeOK

\* The running process joins the readers of a pipe.
LEMMA BlockStep ==
  ASSUME TypeOK, running \in Proc, NEW id \in Id, BlockOn(id)
  PROVE  LET e == [pipes[id] EXCEPT !.readers = Append(@, running)]
         IN  /\ pipes' = [pipes EXCEPT ![id] = e] /\ e \in PipeEntry /\ Sound(e)
             /\ e.in_use = pipes[id].in_use /\ e.len = pipes[id].len
             /\ e.readers = Append(pipes[id].readers, running)
             /\ Bytes(e) = Bytes(pipes[id])
             /\ running' \in Proc \union {Idle} /\ main_queue' \in Seq(Proc)
<1> DEFINE q == Append(pipes[id].readers, running)
           e == [pipes[id] EXCEPT !.readers = q]
<1>1. pipes[id] \in PipeEntry /\ Sound(pipes[id]) /\ main_queue \in Seq(Proc)
  BY DEF TypeOK
<1>2. q \in Seq(Proc)
  BY <1>1, EntryFields
<1>3. pipes' = [pipes EXCEPT ![id] = e] /\ SwitchToNext(main_queue)
  BY DEF BlockOn
<1>4. running' \in Proc \union {Idle} /\ main_queue' \in Seq(Proc)
  BY <1>1, <1>3, SwitchType
<1> HIDE DEF q
<1>5. /\ e \in PipeEntry /\ e.in_use = pipes[id].in_use /\ e.buf = pipes[id].buf
      /\ e.cap = pipes[id].cap /\ e.head = pipes[id].head /\ e.len = pipes[id].len
      /\ e.readers = q
  BY <1>1, <1>2 DEF PipeEntry
<1> HIDE DEF e
<1>6. Sound(e) /\ Bytes(e) = Bytes(pipes[id])
  BY <1>1, <1>5 DEF Sound, Bytes, At
<1> QED BY <1>3, <1>4, <1>5, <1>6 DEF e, q

\* At first the variables have their types.
LEMMA InitType == Init => TypeOK
<1> SUFFICES ASSUME Init PROVE TypeOK
  OBVIOUS
<1>1. main_queue \in Seq(Proc)
  BY PipeAssumption, SetToSeqFacts DEF Init
<1>2. pipes \in [Id -> PipeEntry] /\ \A id \in Id : Sound(pipes[id])
  BY NewEntryFacts DEF Init, init_pipes
<1>3. pipes_size \in 1..MAX_PIPES /\ open_pipe_idx \in 0..pipes_size
  BY PipeAssumption DEF Init, init_pipes
<1> QED BY <1>1, <1>2, <1>3 DEF Init, TypeOK

\* Every step keeps the types.
LEMMA NextType == TypeOK /\ [Next]_vars => TypeOK'
<1> SUFFICES ASSUME TypeOK, [Next]_vars PROVE TypeOK'
  OBVIOUS
<1> DEFINE Call == [pipe_id : Id, len : ReadLen]
<1>t. /\ running \in Proc \union {Idle} /\ main_queue \in Seq(Proc)
      /\ pipes_size \in 1..MAX_PIPES /\ open_pipe_idx \in 0..pipes_size
      /\ pipes \in [Id -> PipeEntry] /\ \A id \in Id : Sound(pipes[id])
      /\ inside \in [Proc -> Call \union {None}] /\ robbed \subseteq Proc
  BY DEF TypeOK
<1>1. CASE PipeInit_Impl
  <2>1. /\ open_pipe_idx \in Id /\ Grown \in 1..MAX_PIPES /\ pipes_size' = Grown
        /\ pipes' = [pipes EXCEPT ![open_pipe_idx] = NewEntry]
        /\ open_pipe_idx' \in open_pipe_idx..Grown
    BY <1>1, NewPipeStep DEF PipeInit_Impl
  <2>2. pipes' \in [Id -> PipeEntry] /\ \A i \in Id : Sound(pipes'[i])
    BY <2>1, EntryType, NewEntryFacts
  <2>3. pipes_size' \in 1..MAX_PIPES /\ open_pipe_idx' \in 0..pipes_size'
    BY <1>t, <2>1, PipeAssumption
  <2> QED BY <1>1, <1>t, <2>2, <2>3 DEF PipeInit_Impl, TypeOK
<1>2. CASE PipeInitFails
  <2>1. pipes_size' \in 1..MAX_PIPES /\ open_pipe_idx' \in 0..pipes_size'
    BY <1>2, <1>t, PipeAssumption DEF PipeInitFails, Grown
  <2> QED BY <1>2, <1>t, <2>1 DEF PipeInitFails, TypeOK
<1>3. ASSUME NEW id \in Id, NEW n \in ReadLen, PipeRead_Impl(id, n) PROVE TypeOK'
  <2>0. running \in Proc /\ pipes[id].in_use
    BY <1>3 DEF PipeRead_Impl, UserRuns, get_pipe
  <2>1. CASE pipes[id].len > 0 /\ TakeBytes(id, n) /\ UNCHANGED inside
    <3>1. pipes' \in [Id -> PipeEntry] /\ \A i \in Id : Sound(pipes'[i])
      BY <2>0, <2>1, TakeBytesStep, EntryType
    <3> QED BY <1>3, <1>t, <2>1, <3>1 DEF PipeRead_Impl, TakeBytes, TypeOK
  <2>2. CASE pipes[id].len = 0 /\ BlockOn(id)
             /\ inside' = [inside EXCEPT ![running] = [pipe_id |-> id, len |-> n]]
    <3>1. /\ pipes' \in [Id -> PipeEntry] /\ \A i \in Id : Sound(pipes'[i])
          /\ running' \in Proc \union {Idle} /\ main_queue' \in Seq(Proc)
      BY <2>0, <2>2, BlockStep, EntryType
    <3>2. inside' \in [Proc -> Call \union {None}]
      BY <1>t, <2>0, <2>2
    <3> QED BY <1>3, <1>t, <3>1, <3>2 DEF PipeRead_Impl, TypeOK
  <2> QED BY <1>3, <2>1, <2>2 DEF PipeRead_Impl
<1>4. ASSUME NEW id \in Id, NEW text \in Text, PipeWrite_Impl(id, text) PROVE TypeOK'
  <2>1. PICK e \in PipeEntry : pipes' = [pipes EXCEPT ![id] = e] /\ Sound(e)
    BY <1>4, WriteStep
  <2>2. pipes' \in [Id -> PipeEntry] /\ \A i \in Id : Sound(pipes'[i])
    BY <2>1, EntryType
  <2>3. pipes[id].readers \in Seq(Proc) /\ main_queue' = main_queue \o pipes[id].readers
    BY <1>4, <1>t, WriteStep, EntryFields
  <2>4. main_queue' \in Seq(Proc)
    BY <1>t, <2>3
  <2> QED BY <1>4, <1>t, <2>2, <2>4 DEF PipeWrite_Impl, TypeOK
<1>5. ASSUME NEW id \in Id, Reclaim_Impl(id) PROVE TypeOK'
  <2>1. pipes' \in [Id -> PipeEntry] /\ \A i \in Id : Sound(pipes'[i])
    BY <1>5, EntryType, NewEntryFacts DEF Reclaim_Impl, pipe_reclaim
  <2>2. open_pipe_idx' \in 0..pipes_size
    BY <1>5, <1>t, PipeAssumption DEF Reclaim_Impl, pipe_reclaim, Id
  <2>3. robbed' \subseteq Proc
    BY <1>5, <1>t DEF Reclaim_Impl, Range
  <2> QED BY <1>5, <1>t, <2>1, <2>2, <2>3 DEF Reclaim_Impl, TypeOK
<1>6. CASE ReadGoesOn
  <2> DEFINE id == inside[running].pipe_id
             n == inside[running].len
  <2>0. running \in Proc /\ inside[running] \in Call /\ id \in Id /\ n \in ReadLen
    BY <1>6, <1>t DEF ReadGoesOn, InKernel
  <2>1. /\ pipes' \in [Id -> PipeEntry] /\ \A i \in Id : Sound(pipes'[i])
        /\ running' \in Proc \union {Idle} /\ main_queue' \in Seq(Proc)
    <3>1. CASE ~get_pipe(id) /\ UNCHANGED <<pipes, running, main_queue>>
      BY <1>t, <3>1
    <3>2. CASE get_pipe(id) /\ pipes[id].len > 0 /\ TakeBytes(id, n)
      <4>1. pipes[id].in_use
        BY <3>2 DEF get_pipe
      <4>2. pipes' \in [Id -> PipeEntry] /\ \A i \in Id : Sound(pipes'[i])
        BY <2>0, <3>2, <4>1, TakeBytesStep, EntryType
      <4> QED BY <1>t, <3>2, <4>2 DEF TakeBytes
    <3>3. CASE get_pipe(id) /\ pipes[id].len = 0 /\ BlockOn(id)
      BY <2>0, <3>3, BlockStep, EntryType
    <3> QED BY <1>6, <3>1, <3>2, <3>3 DEF ReadGoesOn
  <2>2. inside' \in [Proc -> Call \union {None}] /\ robbed' \subseteq Proc
    BY <1>6, <1>t DEF ReadGoesOn
  <2> QED BY <1>6, <1>t, <2>1, <2>2 DEF ReadGoesOn, TypeOK
<1>7. CASE trap_clock_handler
  <2>1. schedule_process(main_queue, running) \in Seq(Proc)
    BY <1>t DEF schedule_process
  <2>2. running' \in Proc \union {Idle} /\ main_queue' \in Seq(Proc)
    BY <1>7, <2>1, SwitchType DEF trap_clock_handler, Preempt
  <2> QED BY <1>7, <1>t, <2>2 DEF trap_clock_handler, table, TypeOK
<1>8. CASE UNCHANGED vars
  BY <1>8, <1>t DEF vars, table, TypeOK
<1> QED BY <1>1, <1>2, <1>3, <1>4, <1>5, <1>6, <1>7, <1>8 DEF Next
-----------------------------------------------------------------------------
(* The inductive invariant *)

\* An entry that is not in use has no bytes and no readers.
Clean == \A id \in Id : ~pipes[id].in_use => pipes[id].len = 0 /\ pipes[id].readers = <<>>

\* Whoever is on the queue of a pipe is inside a read of this pipe.
Reading ==
  \A id \in Id : \A p \in Range(pipes[id].readers) : inside[p] # None /\ inside[p].pipe_id = id

\* The queues of the kernel as one family: the main queue, and the readers
\* of each pipe.
Main == -1
QueueName == Id \union {Main}
Queues == [k \in QueueName |-> IF k = Main THEN main_queue ELSE pipes[k].readers]

\* Every process is running or on one queue, once.
Placed == Separate(running, Queues) /\ Proc \subseteq Members(Queues) \union {running}

\* The table's part of the invariant, and all of it.
TableInv == TypeOK /\ OpenIsLowestUnused /\ Clean
IInv == TableInv /\ NoReaderBesideBytes /\ Reading /\ Placed /\ OnlyWokenReadersLoseTheirPipe

\* How a step other than PipeInit and Reclaim changes the table: one entry
\* that is in use becomes another that is.
LEMMA TableSame ==
  ASSUME TypeOK, OpenIsLowestUnused, Clean, NEW id \in Id, NEW e \in PipeEntry, e.in_use,
         pipes[id].in_use, pipes' = [pipes EXCEPT ![id] = e],
         UNCHANGED <<pipes_size, open_pipe_idx>>
  PROVE  OpenIsLowestUnused' /\ Clean'
<1>1. /\ pipes'[id] = e /\ \A i \in Id : i # id => pipes'[i] = pipes[i]
      /\ pipes_size \in 1..MAX_PIPES /\ open_pipe_idx \in 0..pipes_size /\ MAX_PIPES \in Nat
  BY PipeAssumption DEF TypeOK
<1>2. \A i \in Id : pipes'[i].in_use = pipes[i].in_use
  <2>1. e.in_use \in BOOLEAN /\ pipes[id].in_use \in BOOLEAN
    BY EntryFields DEF TypeOK
  <2> QED BY <1>1, <2>1
<1>3. \A i \in 0..(open_pipe_idx - 1) : i \in Id
  BY <1>1 DEF Id
<1>4. open_pipe_idx < pipes_size => open_pipe_idx \in Id
  BY <1>1 DEF Id
<1>5. OpenIsLowestUnused'
  BY <1>2, <1>3, <1>4 DEF OpenIsLowestUnused
<1>6. Clean'
  BY <1>1, <1>2 DEF Clean
<1> QED BY <1>5, <1>6

\* PipeInit and Reclaim keep the open index the lowest that is not in use.
LEMMA NextTable == TableInv /\ [Next]_vars => OpenIsLowestUnused' /\ Clean'
<1> SUFFICES ASSUME TypeOK, OpenIsLowestUnused, Clean, [Next]_vars
             PROVE  OpenIsLowestUnused' /\ Clean'
  BY DEF TableInv
<1>t. /\ pipes_size \in 1..MAX_PIPES /\ open_pipe_idx \in 0..pipes_size /\ MAX_PIPES \in Nat
      /\ pipes \in [Id -> PipeEntry]
      /\ inside \in [Proc -> [pipe_id : Id, len : ReadLen] \union {None}]
  BY PipeAssumption DEF TypeOK
<1>s. ASSUME UNCHANGED table PROVE OpenIsLowestUnused' /\ Clean'
  BY <1>s DEF table, OpenIsLowestUnused, Clean
<1>1. CASE PipeInit_Impl
  <2>1. /\ open_pipe_idx \in Id /\ open_pipe_idx < Grown
        /\ Grown \in 1..MAX_PIPES /\ Grown >= pipes_size /\ pipes_size' = Grown
        /\ pipes' = [pipes EXCEPT ![open_pipe_idx] = NewEntry]
        /\ open_pipe_idx' \in open_pipe_idx..Grown
        /\ open_pipe_idx' < Grown => ~pipes'[open_pipe_idx'].in_use
        /\ \A j \in open_pipe_idx..(open_pipe_idx' - 1) : pipes'[j].in_use
    BY <1>1, NewPipeStep DEF PipeInit_Impl
  <2>2. pipes'[open_pipe_idx] = NewEntry /\ \A i \in Id : i # open_pipe_idx => pipes'[i] = pipes[i]
    BY <1>t, <2>1
  <2>3. ASSUME NEW i, i \in 0..(open_pipe_idx' - 1) PROVE pipes'[i].in_use
    <3>1. CASE i < open_pipe_idx
      <4>0. open_pipe_idx \in Nat /\ i \in Nat
        BY <1>t, <2>3
      <4>1. i \in 0..(open_pipe_idx - 1) /\ i \in Id /\ i # open_pipe_idx
        BY <1>t, <3>1, <4>0 DEF Id
      <4> QED BY <2>2, <4>1 DEF OpenIsLowestUnused
    <3>2. CASE ~(i < open_pipe_idx)
      <4>1. PICK o : o = open_pipe_idx'
        OBVIOUS
      <4>2. open_pipe_idx \in Nat /\ Grown \in Nat /\ o \in open_pipe_idx..Grown
        BY <1>t, <2>1, <4>1
      <4>3. i \in 0..(o - 1)
        BY <2>3, <4>1
      <4>4. i \in open_pipe_idx..(o - 1)
        BY <3>2, <4>2, <4>3
      <4>5. i \in open_pipe_idx..(open_pipe_idx' - 1)
        BY <4>1, <4>4
      <4> QED BY <2>1, <4>5
    <3> QED BY <3>1, <3>2
  <2>4. ASSUME NEW i \in Id, i >= pipes_size' PROVE ~pipes'[i].in_use
    <3>1. i >= pipes_size /\ i # open_pipe_idx
      BY <1>t, <2>1, <2>4 DEF Id
    <3> QED BY <2>2, <3>1 DEF OpenIsLowestUnused
  <2>5. OpenIsLowestUnused'
    BY <2>1, <2>3, <2>4 DEF OpenIsLowestUnused
  <2>6. Clean'
    BY <2>2, NewEntryFacts DEF Clean
  <2> QED BY <2>5, <2>6
<1>2. CASE PipeInitFails
  <2>1. /\ pipes' = pipes /\ open_pipe_idx' = open_pipe_idx /\ open_pipe_idx = pipes_size
        /\ pipes_size' = pipes_size * 2 /\ pipes_size' <= MAX_PIPES
    BY <1>2, <1>t DEF PipeInitFails, Grown
  <2>2. open_pipe_idx \in Id /\ open_pipe_idx >= pipes_size
    BY <1>t, <2>1 DEF Id
  <2>3. \A i \in Id : i >= pipes_size' => i >= pipes_size
    BY <1>t, <2>1 DEF Id
  <2> QED BY <2>1, <2>2, <2>3 DEF OpenIsLowestUnused, Clean
<1>3. ASSUME NEW id \in Id, NEW n \in ReadLen, get_pipe(id), running \in Proc,
             \/ pipes[id].len > 0 /\ TakeBytes(id, n)
             \/ BlockOn(id),
             UNCHANGED <<pipes_size, open_pipe_idx>>
      PROVE  OpenIsLowestUnused' /\ Clean'
  <2>1. pipes[id].in_use
    BY <1>3 DEF get_pipe
  <2>2. PICK e \in PipeEntry : pipes' = [pipes EXCEPT ![id] = e] /\ e.in_use
    BY <1>3, <2>1, TakeBytesStep, BlockStep
  <2> QED BY <1>3, <2>1, <2>2, TableSame
<1>4. ASSUME NEW id \in Id, NEW text \in Text, PipeWrite_Impl(id, text)
      PROVE  OpenIsLowestUnused' /\ Clean'
  <2>1. PICK e \in PipeEntry : pipes' = [pipes EXCEPT ![id] = e] /\ e.in_use
    BY <1>4, WriteStep
  <2>2. pipes[id].in_use /\ UNCHANGED <<pipes_size, open_pipe_idx>>
    BY <1>4 DEF PipeWrite_Impl, get_pipe
  <2> QED BY <2>1, <2>2, TableSame
<1>5. ASSUME NEW id \in Id, Reclaim_Impl(id) PROVE OpenIsLowestUnused' /\ Clean'
  <2> DEFINE o == open_pipe_idx
  <2>1. /\ pipes' = [pipes EXCEPT ![id] = Cleared] /\ pipes_size' = pipes_size
        /\ o' = IF id < o THEN id ELSE o
        /\ pipes[id].in_use /\ id < pipes_size
    BY <1>5 DEF Reclaim_Impl, pipe_reclaim, get_pipe
  <2>2. pipes'[id] = Cleared /\ \A i \in Id : i # id => pipes'[i] = pipes[i]
    BY <1>t, <2>1
  <2>3. id \in Nat /\ \A i \in 0..(o' - 1) : i \in Id /\ i # id /\ i \in 0..(o - 1)
    BY <1>t, <2>1 DEF Id
  <2>4. \A i \in 0..(o' - 1) : pipes'[i].in_use
    BY <2>2, <2>3 DEF OpenIsLowestUnused
  <2>5. o' < pipes_size' => ~pipes'[o'].in_use
    <3>1. CASE o' = id
      BY <2>2, <3>1, NewEntryFacts
    <3>2. CASE o' # id
      <4>1. o' = o
        BY <2>1, <3>2
      <4>2. o < pipes_size => o \in Id
        BY <1>t DEF Id
      <4> QED BY <2>1, <2>2, <3>2, <4>1, <4>2 DEF OpenIsLowestUnused
    <3> QED BY <3>1, <3>2
  <2>6. \A i \in Id : i >= pipes_size' => ~pipes'[i].in_use
    BY <2>1, <2>2, NewEntryFacts DEF OpenIsLowestUnused
  <2>7. Clean'
    BY <2>2, NewEntryFacts DEF Clean
  <2> QED BY <2>4, <2>5, <2>6, <2>7 DEF OpenIsLowestUnused
<1>6. CASE ReadGoesOn
  <2> DEFINE id == inside[running].pipe_id
             n == inside[running].len
  <2>1. running \in Proc /\ id \in Id /\ n \in ReadLen /\ UNCHANGED <<pipes_size, open_pipe_idx>>
    BY <1>6, <1>t DEF ReadGoesOn, InKernel
  <2>2. CASE ~get_pipe(id) /\ UNCHANGED pipes
    BY <1>s, <2>1, <2>2 DEF table
  <2>3. CASE get_pipe(id) /\ (\/ pipes[id].len > 0 /\ TakeBytes(id, n)
                              \/ BlockOn(id))
    BY <1>3, <2>1, <2>3
  <2> QED BY <1>6, <2>2, <2>3 DEF ReadGoesOn
<1>7. CASE trap_clock_handler
  BY <1>7, <1>s DEF trap_clock_handler
<1>8. CASE UNCHANGED vars
  BY <1>8, <1>s DEF vars
<1>9. ASSUME NEW id \in Id, NEW n \in ReadLen, PipeRead_Impl(id, n)
      PROVE  OpenIsLowestUnused' /\ Clean'
  BY <1>3, <1>9 DEF PipeRead_Impl, UserRuns
<1> QED BY <1>1, <1>2, <1>4, <1>5, <1>6, <1>7, <1>8, <1>9 DEF Next
-----------------------------------------------------------------------------
(* What a step does to the queues *)

\* The kinds of steps, told apart by what they do to the queues and to the
\* reads that processes are in: nothing, or the running process ends its read;
\* it blocks on a pipe; a write wakes the readers of a pipe; the clock ticks.
Quiet ==
  /\ UNCHANGED <<running, main_queue>>
  /\ \A i \in Id : pipes'[i].readers = pipes[i].readers /\ pipes'[i].len <= pipes[i].len
  /\ \/ UNCHANGED inside
     \/ running \in Proc /\ inside' = [inside EXCEPT ![running] = None]

Blocks(id) ==
  /\ running \in Proc /\ SwitchToNext(main_queue)
  /\ pipes'[id].readers = Append(pipes[id].readers, running) /\ pipes'[id].len = 0
  /\ \A i \in Id : i # id => pipes'[i] = pipes[i]
  /\ \E c \in [pipe_id : Id, len : ReadLen] :
       c.pipe_id = id /\ inside' = [inside EXCEPT ![running] = c]

Wakes(id) ==
  /\ main_queue' = main_queue \o pipes[id].readers
  /\ pipes'[id].readers = <<>>
  /\ \A i \in Id : i # id => pipes'[i] = pipes[i]
  /\ UNCHANGED <<running, inside>>

Ticks == SwitchToNext(schedule_process(main_queue, running)) /\ UNCHANGED <<pipes, inside>>

\* Every step is of one of these kinds.
LEMMA StepKinds ==
  ASSUME TableInv, [Next]_vars
  PROVE  Quiet \/ (\E id \in Id : Blocks(id)) \/ (\E id \in Id : Wakes(id)) \/ Ticks
<1>t. /\ pipes \in [Id -> PipeEntry] /\ TypeOK /\ Clean /\ OpenIsLowestUnused
      /\ inside \in [Proc -> [pipe_id : Id, len : ReadLen] \union {None}]
      /\ \A i \in Id : pipes[i].len \in Nat
  BY EntryFields DEF TypeOK, TableInv
<1>s. ASSUME UNCHANGED <<running, main_queue, pipes, inside>> PROVE Quiet
  BY <1>s, <1>t DEF Quiet
<1>1. CASE PipeInit_Impl
  <2>1. open_pipe_idx \in Id /\ pipes' = [pipes EXCEPT ![open_pipe_idx] = NewEntry]
    BY <1>1, <1>t, NewPipeStep DEF PipeInit_Impl
  <2>2. ~pipes[open_pipe_idx].in_use
    BY <1>t, <2>1 DEF OpenIsLowestUnused, TypeOK
  <2>3. pipes[open_pipe_idx].len = 0 /\ pipes[open_pipe_idx].readers = <<>>
    BY <1>t, <2>1, <2>2 DEF Clean
  <2>4. \A i \in Id : pipes'[i].readers = pipes[i].readers /\ pipes'[i].len <= pipes[i].len
    BY <1>t, <2>1, <2>3, NewEntryFacts
  <2> QED BY <1>1, <2>4 DEF Quiet, PipeInit_Impl
<1>2. CASE PipeInitFails
  BY <1>2, <1>s DEF PipeInitFails
<1>3. ASSUME NEW id \in Id, NEW n \in ReadLen, get_pipe(id), pipes[id].len > 0, TakeBytes(id, n)
      PROVE  /\ UNCHANGED <<running, main_queue>>
             /\ \A i \in Id : pipes'[i].readers = pipes[i].readers /\ pipes'[i].len <= pipes[i].len
  <2>1. pipes[id].in_use
    BY <1>3 DEF get_pipe
  <2>2. PICK e \in PipeEntry : /\ pipes' = [pipes EXCEPT ![id] = e]
                               /\ e.readers = pipes[id].readers /\ e.len <= pipes[id].len
    BY <1>3, <1>t, <2>1, TakeBytesStep
  <2>3. \A i \in Id : pipes'[i].readers = pipes[i].readers /\ pipes'[i].len <= pipes[i].len
    BY <1>t, <2>2
  <2> QED BY <1>3, <2>3 DEF TakeBytes
<1>4. ASSUME NEW id \in Id, NEW c \in [pipe_id : Id, len : ReadLen], c.pipe_id = id,
             running \in Proc, pipes[id].len = 0, BlockOn(id),
             inside' = [inside EXCEPT ![running] = c]
      PROVE  Blocks(id)
  <2> DEFINE e == [pipes[id] EXCEPT !.readers = Append(@, running)]
  <2>1. /\ pipes' = [pipes EXCEPT ![id] = e] /\ e.len = pipes[id].len
        /\ e.readers = Append(pipes[id].readers, running)
    BY <1>4, <1>t, BlockStep
  <2> HIDE DEF e
  <2>2. pipes'[id] = e /\ \A i \in Id : i # id => pipes'[i] = pipes[i]
    BY <1>t, <2>1
  <2>3. SwitchToNext(main_queue)
    BY <1>4 DEF BlockOn
  <2> QED BY <1>4, <2>1, <2>2, <2>3 DEF Blocks
<1>5. ASSUME NEW id \in Id, NEW n \in ReadLen, PipeRead_Impl(id, n)
      PROVE  Quiet \/ Blocks(id)
  <2>1. get_pipe(id) /\ running \in Proc
    BY <1>5 DEF PipeRead_Impl, UserRuns
  <2>2. CASE pipes[id].len > 0 /\ TakeBytes(id, n) /\ UNCHANGED inside
    BY <1>3, <2>1, <2>2 DEF Quiet
  <2>3. CASE /\ pipes[id].len = 0 /\ BlockOn(id)
             /\ inside' = [inside EXCEPT ![running] = [pipe_id |-> id, len |-> n]]
    <3>1. [pipe_id |-> id, len |-> n] \in [pipe_id : Id, len : ReadLen]
      OBVIOUS
    <3> QED BY <1>4, <2>1, <2>3, <3>1
  <2> QED BY <1>5, <2>2, <2>3 DEF PipeRead_Impl
<1>6. ASSUME NEW id \in Id, NEW text \in Text, PipeWrite_Impl(id, text) PROVE Wakes(id)
  <2>1. main_queue' = main_queue \o pipes[id].readers
    BY <1>6, <1>t, WriteStep
  <2>2. PICK e \in PipeEntry : pipes' = [pipes EXCEPT ![id] = e] /\ e.readers = <<>>
    BY <1>6, <1>t, WriteStep
  <2>3. pipes'[id] = e /\ \A i \in Id : i # id => pipes'[i] = pipes[i]
    BY <1>t, <2>2
  <2> QED BY <1>6, <2>1, <2>2, <2>3 DEF Wakes, PipeWrite_Impl
<1>7. ASSUME NEW id \in Id, Reclaim_Impl(id) PROVE Quiet
  <2>1. pipes[id].readers = <<>> /\ pipes' = [pipes EXCEPT ![id] = Cleared]
    BY <1>7 DEF Reclaim_Impl, pipe_reclaim
  <2>2. \A i \in Id : pipes'[i].readers = pipes[i].readers /\ pipes'[i].len <= pipes[i].len
    BY <1>t, <2>1, NewEntryFacts
  <2> QED BY <1>7, <2>2 DEF Quiet, Reclaim_Impl
<1>8. CASE ReadGoesOn
  <2> DEFINE id == inside[running].pipe_id
             n == inside[running].len
  <2>1. /\ running \in Proc /\ inside[running] \in [pipe_id : Id, len : ReadLen]
        /\ id \in Id /\ n \in ReadLen
    BY <1>8, <1>t DEF ReadGoesOn, InKernel
  <2>2. inside' = [inside EXCEPT ![running] = IF get_pipe(id) /\ pipes[id].len = 0 THEN @ ELSE None]
    BY <1>8 DEF ReadGoesOn
  <2>3. CASE ~get_pipe(id) /\ UNCHANGED <<pipes, running, main_queue>>
    BY <1>t, <2>1, <2>2, <2>3 DEF Quiet
  <2>4. CASE get_pipe(id) /\ pipes[id].len > 0 /\ TakeBytes(id, n)
    <3>0. ~(pipes[id].len = 0)
      BY <1>t, <2>1, <2>4
    <3>1. inside' = [inside EXCEPT ![running] = None]
      BY <2>2, <3>0
    <3> QED BY <1>3, <2>1, <2>4, <3>1 DEF Quiet
  <2>5. CASE get_pipe(id) /\ pipes[id].len = 0 /\ BlockOn(id)
    <3>1. inside' = [inside EXCEPT ![running] = inside[running]]
      BY <2>2, <2>5
    <3>2. Blocks(id)
      BY <1>4, <2>1, <2>5, <3>1
    <3> QED BY <2>1, <3>2
  <2> QED BY <1>8, <2>3, <2>4, <2>5 DEF ReadGoesOn
<1>9. CASE trap_clock_handler
  BY <1>9 DEF trap_clock_handler, table, Ticks, Preempt
<1>10. CASE UNCHANGED vars
  BY <1>10, <1>s DEF vars, table
<1> QED BY <1>1, <1>2, <1>5, <1>6, <1>7, <1>8, <1>9, <1>10 DEF Next

\* The queues of a state, and those of the next.
LEMMA QueuesFacts ==
  ASSUME TypeOK
  PROVE  /\ Queues \in Family(QueueName) /\ Queues[Main] = main_queue
         /\ \A i \in Id : Queues[i] = pipes[i].readers
         /\ Main \in QueueName /\ Main \notin Id /\ \A i \in Id : i \in QueueName /\ i # Main
<1>1. Main \notin Id
  BY DEF Main, Id
<1>2. main_queue \in Seq(Proc) /\ \A i \in Id : pipes[i].readers \in Seq(Proc)
  BY EntryFields DEF TypeOK
<1>3. Queues \in Family(QueueName)
  BY <1>1, <1>2 DEF Queues, QueueName, Family
<1> QED BY <1>1, <1>3 DEF Queues, QueueName

LEMMA QueuesNext ==
  ASSUME TypeOK, NEW R \in Family(QueueName), R[Main] = main_queue',
         \A i \in Id : R[i] = pipes'[i].readers
  PROVE  Queues' = R
<1>1. \A k \in QueueName : R[k] = IF k = Main THEN main_queue' ELSE pipes'[k].readers
  BY QueuesFacts DEF QueueName
<1> QED BY <1>1 DEF Queues, Family

\* A running process is on no queue, and on a queue are processes.
LEMMA QueuedFacts ==
  ASSUME TypeOK, Placed
  PROVE  \A i \in Id : \A p \in Range(pipes[i].readers) : p \in Proc /\ p # running
<1>1. ASSUME NEW i \in Id, NEW p \in Range(pipes[i].readers) PROVE p \in Proc /\ p # running
  <2>1. i \in DOMAIN Queues /\ Queues[i] = pipes[i].readers /\ pipes[i].readers \in Seq(Proc)
    BY QueuesFacts DEF Family
  <2>2. p # running
    BY <1>1, <2>1 DEF Placed, Separate
  <2>3. p \in Proc
    BY <1>1, <2>1 DEF Range
  <2> QED BY <2>2, <2>3
<1> QED BY <1>1

\* Every step keeps the processes in one place each, and whoever waits in a
\* read of the pipe it waits for.
LEMMA QueuesStep ==
  ASSUME TableInv, TypeOK', Placed, Reading, NoReaderBesideBytes, [Next]_vars
  PROVE  Placed' /\ Reading' /\ NoReaderBesideBytes'
<1>t. /\ TypeOK /\ running \in Proc \union {Idle}
      /\ inside \in [Proc -> [pipe_id : Id, len : ReadLen] \union {None}]
      /\ \A i \in Id : pipes[i].len \in Nat /\ pipes'[i].len \in Nat /\ pipes[i].readers \in Seq(Proc)
  BY EntryFields DEF TableInv, TypeOK
<1>q. /\ Queues \in Family(QueueName) /\ Queues[Main] = main_queue
      /\ \A i \in Id : Queues[i] = pipes[i].readers
      /\ Main \in QueueName /\ \A i \in Id : i \in QueueName /\ i # Main
  BY <1>t, QueuesFacts
<1>p. Separate(running, Queues) /\ Proc \subseteq Members(Queues) \union {running}
  BY DEF Placed
<1>r. \A i \in Id : \A p \in Range(pipes[i].readers) : p \in Proc /\ p # running
  BY <1>t, QueuedFacts
<1>c. None \notin [pipe_id : Id, len : ReadLen]
  BY PipeAssumption DEF Id
<1>1. CASE Quiet
  <2>1. /\ running' = running /\ main_queue' = main_queue
        /\ \A i \in Id : pipes'[i].readers = pipes[i].readers /\ pipes'[i].len <= pipes[i].len
    BY <1>1 DEF Quiet
  <2>2. Queues' = Queues
    BY <1>q, <1>t, <2>1, QueuesNext
  <2>3. Placed'
    BY <1>p, <2>1, <2>2 DEF Placed
  <2>4. \A p \in Proc : p # running => inside'[p] = inside[p]
    BY <1>1, <1>t DEF Quiet
  <2>5. Reading'
    BY <1>r, <2>1, <2>4 DEF Reading
  <2>6. NoReaderBesideBytes'
    BY <1>t, <2>1 DEF NoReaderBesideBytes
  <2> QED BY <2>3, <2>5, <2>6
<1>2. ASSUME NEW id \in Id, Blocks(id) PROVE Placed' /\ Reading' /\ NoReaderBesideBytes'
  <2> DEFINE R == JoinedAnd(Queues, id, running, Main, main_queue')
  <2>1. /\ running \in Proc /\ SwitchToNext(Queues[Main])
        /\ pipes'[id].readers = Append(pipes[id].readers, running) /\ pipes'[id].len = 0
        /\ \A i \in Id : i # id => pipes'[i] = pipes[i]
    BY <1>2, <1>q DEF Blocks
  <2>2. /\ R \in Family(QueueName) /\ Separate(running', R)
        /\ Members(Queues) \union {running} \subseteq Members(R) \union {running'}
        /\ R[id] = Append(Queues[id], running) /\ R[Main] = main_queue'
        /\ \A i \in QueueName : i # id /\ i # Main => R[i] = Queues[i]
    BY <1>p, <1>q, <2>1, Block
  <2> HIDE DEF R
  <2>3. \A i \in Id : R[i] = pipes'[i].readers
    BY <1>q, <2>1, <2>2
  <2>4. Queues' = R
    BY <1>t, <2>2, <2>3, QueuesNext
  <2>5. Placed'
    BY <1>p, <2>2, <2>4 DEF Placed
  <2>6. PICK c \in [pipe_id : Id, len : ReadLen] :
          c.pipe_id = id /\ inside' = [inside EXCEPT ![running] = c]
    BY <1>2 DEF Blocks
  <2>7. /\ inside'[running] # None /\ inside'[running].pipe_id = id
        /\ \A p \in Proc : p # running => inside'[p] = inside[p]
    BY <1>c, <1>t, <2>1, <2>6
  <2>8. Range(pipes'[id].readers) = Range(pipes[id].readers) \union {running}
    BY <1>t, <2>1, AppendFacts
  <2>9. Reading'
    <3>1. ASSUME NEW i \in Id, NEW p, p \in Range(pipes'[i].readers)
          PROVE  inside'[p] # None /\ inside'[p].pipe_id = i
      <4>1. CASE p = running
        <5>1. i = id
          BY <1>r, <2>1, <3>1, <4>1
        <5> QED BY <2>7, <4>1, <5>1
      <4>2. CASE p # running
        <5>1. p \in Range(pipes[i].readers)
          BY <2>1, <2>8, <3>1, <4>2
        <5> QED BY <1>r, <2>7, <4>2, <5>1 DEF Reading
      <4> QED BY <4>1, <4>2
    <3> QED BY <3>1 DEF Reading
  <2>10. NoReaderBesideBytes'
    BY <2>1 DEF NoReaderBesideBytes
  <2> QED BY <2>5, <2>9, <2>10
<1>3. ASSUME NEW id \in Id, Wakes(id) PROVE Placed' /\ Reading' /\ NoReaderBesideBytes'
  <2> DEFINE R == Moved(Queues, id, Main)
  <2>1. /\ main_queue' = main_queue \o pipes[id].readers /\ pipes'[id].readers = <<>>
        /\ \A i \in Id : i # id => pipes'[i] = pipes[i]
        /\ running' = running /\ inside' = inside
    BY <1>3 DEF Wakes
  <2>2. /\ R \in Family(QueueName) /\ Separate(running, R) /\ Members(R) = Members(Queues)
        /\ R[Main] = Queues[Main] \o Queues[id] /\ R[id] = <<>>
        /\ \A i \in QueueName : i # id /\ i # Main => R[i] = Queues[i]
    <3>1. /\ Queues \in Family(QueueName) /\ Separate(running, Queues)
          /\ id \in QueueName /\ Main \in QueueName /\ id # Main
      BY <1>p, <1>q
    <3>2. R \in Family(QueueName) /\ Separate(running, R) /\ Members(R) = Members(Queues)
      BY <3>1, MoveAll
    <3>3. /\ R[Main] = Queues[Main] \o Queues[id] /\ R[id] = <<>>
          /\ \A i \in QueueName : i # id /\ i # Main => R[i] = Queues[i]
      BY <3>1 DEF Moved, Family
    <3> QED BY <3>2, <3>3
  <2>3. R[Main] = main_queue'
    BY <1>q, <2>1, <2>2
  <2> HIDE DEF R
  <2>4. Queues' = R
    <3>1. \A i \in Id : R[i] = pipes'[i].readers
      BY <1>q, <2>1, <2>2
    <3> QED BY <1>t, <2>2, <2>3, <3>1, QueuesNext
  <2>5. Placed'
    BY <1>p, <2>1, <2>2, <2>4 DEF Placed
  <2>6. Reading'
    BY <2>1, EmptyFacts DEF Reading
  <2>7. NoReaderBesideBytes'
    BY <2>1 DEF NoReaderBesideBytes
  <2> QED BY <2>5, <2>6, <2>7
<1>4. CASE Ticks
  <2> DEFINE R == Became(Queues, Main, main_queue')
  <2>1. SwitchToNext(schedule_process(Queues[Main], running)) /\ pipes' = pipes /\ inside' = inside
    BY <1>4, <1>q DEF Ticks
  <2>2. /\ R \in Family(QueueName) /\ Separate(running', R)
        /\ (Members(Queues) \union {running}) \intersect Proc \subseteq Members(R) \union {running'}
        /\ R[Main] = main_queue' /\ \A i \in QueueName : i # Main => R[i] = Queues[i]
    BY <1>p, <1>q, <1>t, <2>1, Rotate
  <2> HIDE DEF R
  <2>3. Queues' = R
    BY <1>q, <1>t, <2>1, <2>2, QueuesNext
  <2>4. Placed'
    BY <1>p, <2>2, <2>3 DEF Placed
  <2> QED BY <2>1, <2>4 DEF Reading, NoReaderBesideBytes
<1> QED BY <1>1, <1>2, <1>3, <1>4, StepKinds

\* Whoever loses a pipe inside a read of it was ready: Reclaim_Impl finds no
\* reader on the pipe's queue, the running process is in no read, and a
\* process on the queue of another pipe reads that one.
LEMMA LosersWereReady ==
  ASSUME IInv, TypeOK', [Next]_vars
  PROVE  OnlyWokenReadersLoseTheirPipe'
<1>t. /\ TableInv /\ TypeOK /\ Placed /\ Reading /\ OnlyWokenReadersLoseTheirPipe
      /\ pipes \in [Id -> PipeEntry]
      /\ inside \in [Proc -> [pipe_id : Id, len : ReadLen] \union {None}]
      /\ \A p \in Proc : inside[p] # None => inside[p].pipe_id \in Id
  BY DEF IInv, TableInv, TypeOK
<1>s. ASSUME \A i \in Id : pipes[i].in_use => pipes'[i].in_use,
             UNCHANGED <<inside, robbed>>
      PROVE  OnlyWokenReadersLoseTheirPipe'
  BY <1>s, <1>t DEF OnlyWokenReadersLoseTheirPipe
<1>e. ASSUME NEW id \in Id, NEW e \in PipeEntry, e.in_use, pipes' = [pipes EXCEPT ![id] = e]
      PROVE  \A i \in Id : pipes[i].in_use => pipes'[i].in_use
  BY <1>e, <1>t
<1>b. ASSUME NEW id \in Id, pipes[id].in_use, running \in Proc, BlockOn(id)
      PROVE  \A i \in Id : pipes[i].in_use => pipes'[i].in_use
  <2> DEFINE e == [pipes[id] EXCEPT !.readers = Append(@, running)]
  <2>1. pipes' = [pipes EXCEPT ![id] = e] /\ e.in_use = pipes[id].in_use /\ e \in PipeEntry
    BY <1>b, <1>t, BlockStep
  <2> HIDE DEF e
  <2> QED BY <1>b, <1>e, <2>1
<1>k. ASSUME NEW id \in Id, NEW n \in ReadLen, pipes[id].in_use, pipes[id].len > 0, TakeBytes(id, n)
      PROVE  \A i \in Id : pipes[i].in_use => pipes'[i].in_use
  <2>1. PICK e \in PipeEntry : pipes' = [pipes EXCEPT ![id] = e] /\ e.in_use
    BY <1>k, <1>t, TakeBytesStep
  <2> QED BY <1>e, <2>1
<1>1. CASE PipeInit_Impl
  <2>1. open_pipe_idx \in Id /\ pipes' = [pipes EXCEPT ![open_pipe_idx] = NewEntry]
    BY <1>1, <1>t, NewPipeStep DEF PipeInit_Impl
  <2>2. \A i \in Id : pipes[i].in_use => pipes'[i].in_use
    BY <1>e, <2>1, NewEntryFacts
  <2> QED BY <1>1, <1>s, <2>2 DEF PipeInit_Impl
<1>2. CASE PipeInitFails
  BY <1>2, <1>s DEF PipeInitFails
<1>3. ASSUME NEW id \in Id, NEW n \in ReadLen, PipeRead_Impl(id, n)
      PROVE  OnlyWokenReadersLoseTheirPipe'
  <2>1. pipes[id].in_use /\ running \in Proc /\ robbed' = robbed
    BY <1>3 DEF PipeRead_Impl, UserRuns, get_pipe
  <2>2. CASE pipes[id].len > 0 /\ TakeBytes(id, n) /\ UNCHANGED inside
    BY <1>k, <1>s, <2>1, <2>2
  <2>3. CASE /\ pipes[id].len = 0 /\ BlockOn(id)
             /\ inside' = [inside EXCEPT ![running] = [pipe_id |-> id, len |-> n]]
    <3>1. \A i \in Id : pipes[i].in_use => pipes'[i].in_use
      BY <1>b, <2>1, <2>3
    <3>2. inside'[running].pipe_id = id /\ \A p \in Proc : p # running => inside'[p] = inside[p]
      BY <1>t, <2>1, <2>3
    <3> QED BY <1>t, <2>1, <3>1, <3>2 DEF OnlyWokenReadersLoseTheirPipe
  <2> QED BY <1>3, <2>2, <2>3 DEF PipeRead_Impl
<1>4. ASSUME NEW id \in Id, NEW text \in Text, PipeWrite_Impl(id, text)
      PROVE  OnlyWokenReadersLoseTheirPipe'
  <2>1. PICK e \in PipeEntry : pipes' = [pipes EXCEPT ![id] = e] /\ e.in_use
    BY <1>4, <1>t, WriteStep
  <2>2. \A i \in Id : pipes[i].in_use => pipes'[i].in_use
    BY <1>e, <2>1
  <2> QED BY <1>4, <1>s, <2>2 DEF PipeWrite_Impl
<1>5. ASSUME NEW id \in Id, Reclaim_Impl(id) PROVE OnlyWokenReadersLoseTheirPipe'
  <2>1. /\ running \in Proc /\ inside[running] = None /\ inside' = inside
        /\ pipes[id].readers = <<>> /\ pipes' = [pipes EXCEPT ![id] = Cleared]
        /\ robbed' = robbed \union {p \in Range(main_queue) :
                                     inside[p] # None /\ inside[p].pipe_id = id}
    BY <1>5 DEF Reclaim_Impl, pipe_reclaim, UserRuns, InKernel
  <2>2. \A i \in Id : i # id => pipes'[i] = pipes[i]
    BY <1>t, <2>1
  <2>3. ASSUME NEW p \in Proc, inside[p] # None, inside[p].pipe_id = id PROVE p \in robbed'
    <3>1. p # running
      BY <2>1, <2>3
    <3>2. PICK k \in QueueName : p \in Range(Queues[k])
      BY <1>t, <3>1, QueuesFacts DEF Placed, Members, Family
    <3>3. CASE k = Main
      BY <1>t, <2>1, <2>3, <3>2, <3>3, QueuesFacts
    <3>4. CASE k # Main
      <4>1. k \in Id /\ p \in Range(pipes[k].readers)
        BY <1>t, <3>2, <3>4, QueuesFacts DEF QueueName
      <4>2. k = id
        BY <1>t, <2>3, <4>1 DEF Reading
      <4> QED BY <2>1, <4>1, <4>2, EmptyFacts
    <3> QED BY <3>3, <3>4
  <2> QED BY <1>t, <2>1, <2>2, <2>3 DEF OnlyWokenReadersLoseTheirPipe
<1>6. CASE ReadGoesOn
  <2> DEFINE id == inside[running].pipe_id
             n == inside[running].len
  <2>1. running \in Proc /\ inside[running] # None /\ id \in Id /\ n \in ReadLen
    BY <1>6, <1>t DEF ReadGoesOn, InKernel
  <2>2. /\ inside' = [inside EXCEPT ![running] = IF get_pipe(id) /\ pipes[id].len = 0 THEN @ ELSE None]
        /\ robbed' = IF inside'[running] = None THEN robbed \ {running} ELSE robbed
    BY <1>6 DEF ReadGoesOn
  <2>3. \A p \in Proc : p # running => inside'[p] = inside[p] /\ (p \in robbed => p \in robbed')
    BY <1>t, <2>2
  <2>4. inside'[running] # None => inside'[running] = inside[running] /\ robbed' = robbed
    BY <1>t, <2>1, <2>2
  <2>5. \A i \in Id : pipes[i].in_use => pipes'[i].in_use
    <3>1. CASE ~get_pipe(id) /\ UNCHANGED pipes
      BY <3>1
    <3>2. CASE get_pipe(id) /\ pipes[id].len > 0 /\ TakeBytes(id, n)
      <4>1. pipes[id].in_use
        BY <3>2 DEF get_pipe
      <4> QED BY <1>k, <2>1, <3>2, <4>1
    <3>3. CASE get_pipe(id) /\ BlockOn(id)
      <4>1. pipes[id].in_use
        BY <3>3 DEF get_pipe
      <4> QED BY <1>b, <2>1, <3>3, <4>1
    <3> QED BY <1>6, <3>1, <3>2, <3>3 DEF ReadGoesOn
  <2> QED BY <1>t, <2>1, <2>3, <2>4, <2>5 DEF OnlyWokenReadersLoseTheirPipe
<1>7. CASE trap_clock_handler
  BY <1>7, <1>s DEF trap_clock_handler, table
<1>8. CASE UNCHANGED vars
  BY <1>8, <1>s DEF vars, table
<1> QED BY <1>1, <1>2, <1>3, <1>4, <1>5, <1>6, <1>7, <1>8 DEF Next

\* At first the invariant holds.
LEMMA InitInv == Init => IInv
<1> SUFFICES ASSUME Init PROVE IInv
  OBVIOUS
<1>t. TypeOK
  BY InitType
<1>1. /\ running = Idle /\ main_queue = SetToSeq(Proc) /\ pipes_size \in Nat
      /\ \A i \in Id : pipes[i] = Cleared
      /\ open_pipe_idx = 0 /\ \A p \in Proc : inside[p] = None
  BY <1>t, PipeAssumption DEF Init, init_pipes
<1>2. OpenIsLowestUnused
  <2>1. 0 \in Id
    BY PipeAssumption DEF Id
  <2>2. 0..(open_pipe_idx - 1) = {}
    BY <1>1
  <2> QED BY <1>1, <2>1, <2>2, NewEntryFacts DEF OpenIsLowestUnused
<1>3. Clean /\ NoReaderBesideBytes
  BY <1>1, NewEntryFacts DEF Clean, NoReaderBesideBytes
<1>4. Reading /\ OnlyWokenReadersLoseTheirPipe
  BY <1>1, NewEntryFacts, EmptyFacts DEF Reading, OnlyWokenReadersLoseTheirPipe
<1>5. Placed
  <2>q. /\ Queues \in Family(QueueName) /\ Queues[Main] = SetToSeq(Proc) /\ DOMAIN Queues = QueueName
        /\ \A i \in Id : Queues[i] = <<>>
        /\ Main \in QueueName
    BY <1>t, <1>1, QueuesFacts, NewEntryFacts DEF Family
  <2>1. /\ IsInjective(Queues[Main]) /\ Range(Queues[Main]) = Proc
        /\ \A i \in Id : IsInjective(Queues[i]) /\ Range(Queues[i]) = {}
    BY <2>q, SetToSeqFacts, EmptyFacts, PipeAssumption
  <2>2. \A k \in QueueName : k \in Id \/ k = Main
    BY DEF QueueName
  <2>3. Separate(running, Queues)
    BY <1>1, <2>q, <2>1, <2>2, IdleAssumption DEF Separate
  <2>4. Proc \subseteq Members(Queues)
    BY <2>q, <2>1 DEF Members
  <2> QED BY <2>3, <2>4 DEF Placed
<1> QED BY <1>t, <1>2, <1>3, <1>4, <1>5 DEF IInv, TableInv

\* Every step keeps it.
LEMMA NextInv == IInv /\ [Next]_vars => IInv'
<1> SUFFICES ASSUME IInv, [Next]_vars PROVE IInv'
  OBVIOUS
<1>1. TableInv /\ TypeOK /\ Placed /\ Reading /\ NoReaderBesideBytes
  BY DEF IInv, TableInv
<1>2. TypeOK'
  BY <1>1, NextType
<1>3. OpenIsLowestUnused' /\ Clean'
  BY <1>1, NextTable
<1>4. Placed' /\ Reading' /\ NoReaderBesideBytes'
  BY <1>1, <1>2, QueuesStep
<1>5. OnlyWokenReadersLoseTheirPipe'
  BY <1>2, LosersWereReady
<1> QED BY <1>2, <1>3, <1>4, <1>5 DEF IInv, TableInv

\* The invariant holds in every state.
LEMMA InvHolds == Spec => []IInv
BY InitInv, NextInv, PTL DEF Spec

\* Who is separate from the queues, or on one of them, is in one place.
LEMMA OncePlaced == TypeOK /\ Placed => PlacedOnce
<1> DEFINE Ready(p) == {<<"ready", i>> : i \in {j \in DOMAIN main_queue : main_queue[j] = p}}
           Reads(p, id) == {<<"reads", id, i>> :
                             i \in {j \in DOMAIN pipes[id].readers : pipes[id].readers[j] = p}}
           Places(p) == (IF running = p THEN {<<"running">>} ELSE {}) \union Ready(p)
                        \union UNION {Reads(p, id) : id \in Id}
<1> SUFFICES ASSUME TypeOK, Placed, NEW p \in Proc PROVE Cardinality(Places(p)) = 1
  BY DEF PlacedOnce
<1>q. /\ Queues \in Family(QueueName) /\ Queues[Main] = main_queue
      /\ \A i \in Id : Queues[i] = pipes[i].readers
      /\ Main \in QueueName /\ \A i \in Id : i \in QueueName /\ i # Main
      /\ main_queue \in Seq(Proc) /\ \A i \in Id : pipes[i].readers \in Seq(Proc)
      /\ DOMAIN Queues = QueueName /\ \A k \in QueueName : k = Main \/ k \in Id
  BY QueuesFacts, EntryFields DEF TypeOK, Family, QueueName
<1>i. IsInjective(main_queue) /\ \A i \in Id : IsInjective(pipes[i].readers)
  BY <1>q DEF Placed, Separate
<1>1. /\ p \notin Range(main_queue) => Ready(p) = {}
      /\ p \in Range(main_queue) => \E x : Ready(p) = {x}
  <2> DEFINE T == {j \in DOMAIN main_queue : main_queue[j] = p}
  <2>1. /\ p \notin Range(main_queue) => T = {}
        /\ p \in Range(main_queue) => \E i : T = {i}
    BY <1>q, <1>i, OnePlace, ZenonT(30)
  <2>2. Ready(p) = {<<"ready", i>> : i \in T}
    OBVIOUS
  <2> HIDE DEF T, Ready
  <2>3. T = {} => Ready(p) = {}
    BY <2>2
  <2>4. ASSUME NEW i, T = {i} PROVE Ready(p) = {<<"ready", i>>}
    BY <2>2, <2>4
  <2> QED BY <2>1, <2>3, <2>4
<1>2. ASSUME NEW id \in Id
      PROVE  /\ p \notin Range(pipes[id].readers) => Reads(p, id) = {}
             /\ p \in Range(pipes[id].readers) => \E x : Reads(p, id) = {x}
  <2> DEFINE q == pipes[id].readers
  <2>1. q \in Seq(Proc) /\ IsInjective(q)
    BY <1>q, <1>i
  <2> DEFINE T == {j \in DOMAIN q : q[j] = p}
  <2>2. /\ p \notin Range(q) => T = {}
        /\ p \in Range(q) => \E i : T = {i}
    <3> HIDE DEF q
    <3> QED BY <2>1, OnePlace
  <2>3. Reads(p, id) = {<<"reads", id, i>> : i \in T}
    OBVIOUS
  <2> HIDE DEF T, Reads
  <2>4. T = {} => Reads(p, id) = {}
    BY <2>3
  <2>5. ASSUME NEW i, T = {i} PROVE Reads(p, id) = {<<"reads", id, i>>}
    BY <2>3, <2>5
  <2> QED BY <2>2, <2>4, <2>5
<1> HIDE DEF Ready, Reads
<1>3. \E x : Places(p) = {x}
  <2>1. CASE p = running
    <3>1. p \notin Range(main_queue) /\ \A id \in Id : p \notin Range(pipes[id].readers)
      BY <1>q, <2>1 DEF Placed, Separate
    <3>2. Ready(p) = {} /\ \A id \in Id : Reads(p, id) = {}
      BY <1>1, <1>2, <3>1
    <3>3. Places(p) = {<<"running">>}
      BY <2>1, <3>2
    <3> QED BY <3>3
  <2>2. CASE p # running
    <3>1. PICK k \in QueueName : p \in Range(Queues[k])
      BY <1>q, <2>2 DEF Placed, Members
    <3>2. \A j \in QueueName : j # k => p \notin Range(Queues[j])
      BY <1>q, <3>1 DEF Placed, Separate
    <3>3. CASE k = Main
      <4>1. p \in Range(main_queue) /\ \A id \in Id : p \notin Range(pipes[id].readers)
        BY <1>q, <3>1, <3>2, <3>3
      <4>2. PICK x : Ready(p) = {x}
        BY <1>1, <4>1
      <4>3. \A id \in Id : Reads(p, id) = {}
        BY <1>2, <4>1
      <4>4. Places(p) = {x}
        BY <2>2, <4>2, <4>3
      <4> QED BY <4>4
    <3>4. CASE k # Main
      <4>1. /\ k \in Id /\ p \in Range(pipes[k].readers) /\ p \notin Range(main_queue)
            /\ \A id \in Id : id # k => p \notin Range(pipes[id].readers)
        BY <1>q, <3>1, <3>2, <3>4
      <4>2. PICK x : Reads(p, k) = {x}
        BY <1>2, <4>1
      <4>3. Ready(p) = {} /\ \A id \in Id : id # k => Reads(p, id) = {}
        BY <1>1, <1>2, <4>1
      <4>4. Places(p) = {x}
        BY <2>2, <4>1, <4>2, <4>3
      <4> QED BY <4>4
    <3> QED BY <3>3, <3>4
  <2> QED BY <2>1, <2>2
<1> HIDE DEF Places
<1> QED BY <1>3, FS_Singleton
-----------------------------------------------------------------------------
(* Theorems *)

\* The fields of a pipe have their types, and its bytes always fit its
\* buffer: ensure_capacity doubles until they do, whatever the lengths.
THEOREM TypeCorrect == Spec => []TypeOK
<1>1. IInv => TypeOK
  BY DEF IInv, TableInv
<1> QED BY <1>1, InvHolds, PTL

\* PipeInit and Reclaim keep open_pipe_idx the lowest index not in use.
THEOREM OpenIsLowest == Spec => []OpenIsLowestUnused
<1>1. IInv => OpenIsLowestUnused
  BY DEF IInv, TableInv
<1> QED BY <1>1, InvHolds, PTL

\* A write wakes every reader: none stays blocked on a pipe with bytes.
THEOREM NobodyWaitsBesideBytes == Spec => []NoReaderBesideBytes
<1>1. IInv => NoReaderBesideBytes
  BY DEF IInv
<1> QED BY <1>1, InvHolds, PTL

\* No step of pipe.c loses a process or puts it on two queues.
THEOREM EverybodyPlacedOnce == Spec => []PlacedOnce
<1>1. IInv => PlacedOnce
  BY OncePlaced DEF IInv, TableInv
<1> QED BY <1>1, InvHolds, PTL

\* Reclaim_Impl's look at the reader queue keeps the pipe of every process in
\* a read, but of those that a write has made ready and that have not run.
THEOREM OnlyReadyReadersLose == Spec => []OnlyWokenReadersLoseTheirPipe
<1>1. IInv => OnlyWokenReadersLoseTheirPipe
  BY DEF IInv
<1> QED BY <1>1, InvHolds, PTL

\* A pipe without bytes.
LEMMA NoBytes ==
  ASSUME NEW pipe \in PipeEntry, pipe.len = 0
  PROVE  Bytes(pipe) = <<>>
BY DEF Bytes

\* pipe.c implements PipeStream: the bytes that reads take out of the
\* circular buffer are those that writes put in, once each and in their order,
\* across the end of the buffer and across a buffer that grows.
THEOREM PipeImplementsStream == Spec => ImplementsStream
<1> SUFFICES Spec => Stream!Spec
  BY DEF ImplementsStream
<1>0. 0 \in Id
  BY PipeAssumption DEF Id
<1>1. Init => Stream!Init
  <2> SUFFICES ASSUME Init PROVE Stream!Init
    OBVIOUS
  <2>1. pipes[0] = Cleared
    BY <1>0 DEF Init, init_pipes
  <2>2. Bytes(Cleared) = <<>>
    BY NoBytes, NewEntryFacts
  <2>3. Cleared.in_use = FALSE
    BY DEF Cleared
  <2> QED BY <2>1, <2>2, <2>3 DEF Stream!Init
<1>2. IInv /\ [Next]_vars => [Stream!Next]_(Stream!vars)
  <2> SUFFICES ASSUME IInv, [Next]_vars PROVE [Stream!Next]_(Stream!vars)
    OBVIOUS
  <2>t. /\ TypeOK /\ Clean /\ OpenIsLowestUnused /\ pipes \in [Id -> PipeEntry]
        /\ inside \in [Proc -> [pipe_id : Id, len : ReadLen] \union {None}]
        /\ pipes[0] \in PipeEntry /\ Sound(pipes[0]) /\ pipes[0].in_use \in BOOLEAN
    BY <1>0, EntryFields DEF IInv, TableInv, TypeOK
  <2>s. ASSUME pipes'[0].in_use = pipes[0].in_use, Bytes(pipes'[0]) = Bytes(pipes[0])
        PROVE  UNCHANGED Stream!vars
    BY <2>s DEF Stream!vars, Bytes, At
  <2>n. ASSUME pipes'[0] = pipes[0] PROVE UNCHANGED Stream!vars
    BY <2>n, <2>s
  <2>1. CASE PipeInit_Impl
    <3>1. open_pipe_idx \in Id /\ pipes' = [pipes EXCEPT ![open_pipe_idx] = NewEntry]
      BY <2>1, <2>t, NewPipeStep DEF PipeInit_Impl
    <3>2. CASE open_pipe_idx = 0
      <4>1. pipes'[0] = NewEntry
        BY <2>t, <3>1, <3>2
      <4>2. ~pipes[0].in_use
        BY <2>t, <3>1, <3>2 DEF OpenIsLowestUnused, TypeOK
      <4>3. NewEntry.in_use = TRUE /\ Bytes(NewEntry) = <<>>
        BY NewEntryFacts, NoBytes DEF NewEntry, Cleared
      <4>4. Stream!Create
        BY <4>1, <4>2, <4>3 DEF Stream!Create
      <4> QED BY <4>4 DEF Stream!Next
    <3>3. CASE open_pipe_idx # 0
      BY <2>n, <2>t, <1>0, <3>1, <3>3
    <3> QED BY <3>2, <3>3
  <2>2. CASE PipeInitFails
    BY <2>2, <2>n DEF PipeInitFails
  <2>3. ASSUME NEW id \in Id, NEW n \in ReadLen, get_pipe(id), pipes[id].len > 0, TakeBytes(id, n)
        PROVE  [Stream!Next]_(Stream!vars)
    <3>1. pipes[id].in_use
      BY <2>3 DEF get_pipe
    <3>2. PICK e \in PipeEntry :
            /\ pipes' = [pipes EXCEPT ![id] = e] /\ e.in_use
            /\ LET k == IF pipes[id].len < n THEN pipes[id].len ELSE n
               IN  k > 0 /\ Bytes(e) = SubSeq(Bytes(pipes[id]), k + 1, pipes[id].len)
      BY <2>3, <2>t, <3>1, TakeBytesStep
    <3>3. CASE id = 0
      <4>1. pipes'[0] = e /\ e.in_use \in BOOLEAN
        BY <2>t, <3>2, <3>3, EntryFields
      <4>2. Len(Bytes(pipes[0])) = pipes[0].len
        BY <2>t, <3>1, <3>3, BytesFacts
      <4>3. Stream!Read(n)
        BY <2>t, <3>1, <3>2, <3>3, <4>1, <4>2 DEF Stream!Read
      <4> QED BY <4>3 DEF Stream!Next
    <3>4. CASE id # 0
      BY <2>n, <2>t, <1>0, <3>2, <3>4
    <3> QED BY <3>3, <3>4
  <2>4. ASSUME NEW id \in Id, running \in Proc, BlockOn(id) PROVE UNCHANGED Stream!vars
    <3> DEFINE e == [pipes[id] EXCEPT !.readers = Append(@, running)]
    <3>1. /\ pipes' = [pipes EXCEPT ![id] = e] /\ e.in_use = pipes[id].in_use
          /\ Bytes(e) = Bytes(pipes[id])
      BY <2>4, <2>t, BlockStep
    <3> HIDE DEF e
    <3>2. CASE id = 0
      BY <2>s, <2>t, <3>1, <3>2
    <3>3. CASE id # 0
      BY <2>n, <2>t, <1>0, <3>1, <3>3
    <3> QED BY <3>2, <3>3
  <2>5. ASSUME NEW id \in Id, NEW n \in ReadLen, PipeRead_Impl(id, n)
        PROVE  [Stream!Next]_(Stream!vars)
    BY <2>3, <2>4, <2>5 DEF PipeRead_Impl, UserRuns
  <2>6. ASSUME NEW id \in Id, NEW text \in Text, PipeWrite_Impl(id, text)
        PROVE  [Stream!Next]_(Stream!vars)
    <3>1. pipes[id].in_use
      BY <2>6 DEF PipeWrite_Impl, get_pipe
    <3>2. PICK e \in PipeEntry : /\ pipes' = [pipes EXCEPT ![id] = e] /\ e.in_use
                                 /\ Bytes(e) = Bytes(pipes[id]) \o text
      BY <2>6, <2>t, WriteStep
    <3>3. CASE id = 0
      <4>1. pipes'[0] = e /\ e.in_use \in BOOLEAN
        BY <2>t, <3>2, <3>3, EntryFields
      <4>2. Stream!Write(text)
        BY <2>t, <3>1, <3>2, <3>3, <4>1 DEF Stream!Write
      <4> QED BY <4>2 DEF Stream!Next
    <3>4. CASE id # 0
      BY <2>n, <2>t, <1>0, <3>2, <3>4
    <3> QED BY <3>3, <3>4
  <2>7. ASSUME NEW id \in Id, Reclaim_Impl(id) PROVE [Stream!Next]_(Stream!vars)
    <3>1. pipes[id].in_use /\ pipes' = [pipes EXCEPT ![id] = Cleared]
      BY <2>7 DEF Reclaim_Impl, pipe_reclaim, get_pipe
    <3>2. CASE id = 0
      <4>1. pipes'[0] = Cleared
        BY <2>t, <3>1, <3>2
      <4>2. Cleared.in_use = FALSE /\ Bytes(Cleared) = <<>>
        BY NewEntryFacts, NoBytes DEF Cleared
      <4>3. Stream!Reclaim
        BY <3>1, <3>2, <4>1, <4>2 DEF Stream!Reclaim
      <4> QED BY <4>3 DEF Stream!Next
    <3>3. CASE id # 0
      BY <2>n, <2>t, <1>0, <3>1, <3>3
    <3> QED BY <3>2, <3>3
  <2>8. CASE ReadGoesOn
    <3> DEFINE id == inside[running].pipe_id
               n == inside[running].len
    <3>1. running \in Proc /\ id \in Id /\ n \in ReadLen
      BY <2>8, <2>t DEF ReadGoesOn, InKernel
    <3>2. CASE UNCHANGED pipes
      BY <2>n, <3>2
    <3>3. CASE get_pipe(id) /\ pipes[id].len > 0 /\ TakeBytes(id, n)
      BY <2>3, <3>1, <3>3
    <3>4. CASE BlockOn(id)
      BY <2>4, <3>1, <3>4
    <3> QED BY <2>8, <3>2, <3>3, <3>4 DEF ReadGoesOn
  <2>9. CASE trap_clock_handler
    BY <2>9, <2>n DEF trap_clock_handler, table
  <2>10. CASE UNCHANGED vars
    BY <2>10, <2>n DEF vars, table
  <2> QED BY <2>1, <2>2, <2>5, <2>6, <2>7, <2>8, <2>9, <2>10 DEF Next
<1> QED BY <1>1, <1>2, InvHolds, PTL DEF Spec, Stream!Spec
=============================================================================
