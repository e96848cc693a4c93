------------------------- MODULE PointerFifo_proofs -------------------------
(***************************************************************************)
(* Facts about the ring buffer of pointer_fifo.c, for every size: what     *)
(* push, pop and clear do to the slots in use and to the sequence of       *)
(* pointers the buffer stands for.                                         *)
(***************************************************************************)
EXTENDS PointerFifo, TLAPS

(* The index arithmetic of push and pop: the slot after the last is 0. *)
LEMMA AdvanceWraps ==
    ASSUME NEW i \in Slots
    PROVE  /\ Advance(i) \in Slots
           /\ Advance(i) = IF i = Size - 1 THEN 0 ELSE i + 1
<1>1. CASE i = Size - 1
    BY <1>1, SizeAssumption DEF Advance, Slots
<1>2. CASE i < Size - 1
    BY <1>2, SizeAssumption DEF Advance, Slots
<1> QED BY <1>1, <1>2, SizeAssumption DEF Slots

(* A new fifo is empty. *)
LEMMA NewFifo ==
    /\ pointer_fifo_new \in Fifos
    /\ LiveSlots(pointer_fifo_new) = {}
    /\ Contents(pointer_fifo_new) = << >>
BY SizeAssumption
   DEF pointer_fifo_new, Fifos, Slots, LiveSlots, Contents, pointer_fifo_count

(* The count is the number a fifo can hold, one less than its slots, at most. *)
LEMMA CountRange ==
    ASSUME NEW q \in Fifos
    PROVE  /\ pointer_fifo_count(q) \in 0 .. Size - 1
           /\ pointer_fifo_count(q) = 0 <=> q.head = q.tail
BY SizeAssumption DEF Fifos, Slots, pointer_fifo_count

(* A successful push puts the pointer in a slot that was not in use. *)
LEMMA PushSlots ==
    ASSUME NEW q \in Fifos, NEW p \in Pointers, ~pointer_fifo_is_full(q),
           NEW r, r = pointer_fifo_push(q, p)
    PROVE  /\ r.success = TRUE
           /\ r.fifo \in Fifos
           /\ q.head \in Slots \ LiveSlots(q)
           /\ LiveSlots(r.fifo) = LiveSlots(q) \cup {q.head}
           /\ r.fifo.buffer = [q.buffer EXCEPT ![q.head] = p]
<1>1. r = [fifo |-> [buffer |-> [q.buffer EXCEPT ![q.head] = p],
                     head |-> Advance(q.head), tail |-> q.tail],
           success |-> TRUE]
    BY DEF pointer_fifo_push
<1>2. /\ q.head \in Slots
      /\ q.tail \in Slots
      /\ q.buffer \in [Slots -> Pointers \cup {NULL}]
    BY DEF Fifos
<1>3. r.fifo = [buffer |-> [q.buffer EXCEPT ![q.head] = p],
                head |-> Advance(q.head), tail |-> q.tail]
    BY <1>1
<1>4. r.fifo \in Fifos
    BY <1>2, <1>3, AdvanceWraps DEF Fifos
<1>5. q.head \notin LiveSlots(q)
    BY <1>2 DEF LiveSlots, Slots
<1>6. LiveSlots(r.fifo) = LiveSlots(q) \cup {q.head}
  <2>1. /\ r.fifo.tail = q.tail
        /\ r.fifo.head = IF q.head = Size - 1 THEN 0 ELSE q.head + 1
      BY <1>2, <1>3, AdvanceWraps
  <2>2. ASSUME NEW i \in Slots
        PROVE  i \in LiveSlots(r.fifo) <=> i \in LiveSlots(q) \/ i = q.head
      BY <1>2, <2>1, SizeAssumption
         DEF LiveSlots, Slots, pointer_fifo_is_full, pointer_fifo_count
  <2>3. LiveSlots(r.fifo) \subseteq Slots /\ LiveSlots(q) \subseteq Slots
      BY DEF LiveSlots
  <2> QED BY <1>2, <2>2, <2>3
<1> QED BY <1>1, <1>2, <1>3, <1>4, <1>5, <1>6

(* A failed push changes nothing. *)
LEMMA PushFull ==
    ASSUME NEW q, NEW p, pointer_fifo_is_full(q)
    PROVE  /\ pointer_fifo_push(q, p).success = FALSE
           /\ pointer_fifo_push(q, p).fifo = q
BY DEF pointer_fifo_push

(* A pop of a fifo that is not empty returns the pointer in a slot in use,
   and that slot only is no longer in use. *)
LEMMA PopSlots ==
    ASSUME NEW q \in Fifos, ~pointer_fifo_is_empty(q),
           NEW r, r = pointer_fifo_pop(q)
    PROVE  /\ r.fifo \in Fifos
           /\ q.tail \in LiveSlots(q)
           /\ LiveSlots(r.fifo) = LiveSlots(q) \ {q.tail}
           /\ r.fifo.buffer = q.buffer
           /\ r.result = q.buffer[q.tail]
<1>1. r = [fifo |-> [q EXCEPT !.tail = Advance(q.tail)],
           result |-> q.buffer[q.tail]]
    BY DEF pointer_fifo_pop
<1>2. /\ q.head \in Slots
      /\ q.tail \in Slots
      /\ q.buffer \in [Slots -> Pointers \cup {NULL}]
    BY DEF Fifos
<1>3. r.fifo = [buffer |-> q.buffer, head |-> q.head, tail |-> Advance(q.tail)]
    BY <1>1 DEF Fifos
<1>4. r.fifo \in Fifos
    BY <1>2, <1>3, AdvanceWraps DEF Fifos
<1>5. q.head # q.tail
    BY CountRange DEF pointer_fifo_is_empty
<1>6. q.tail \in LiveSlots(q)
    BY <1>2, <1>5 DEF LiveSlots, Slots
<1>7. LiveSlots(r.fifo) = LiveSlots(q) \ {q.tail}
  <2>1. /\ r.fifo.head = q.head
        /\ r.fifo.tail = IF q.tail = Size - 1 THEN 0 ELSE q.tail + 1
      BY <1>2, <1>3, AdvanceWraps
  <2>2. ASSUME NEW i \in Slots
        PROVE  i \in LiveSlots(r.fifo) <=> i \in LiveSlots(q) /\ i # q.tail
      BY <1>2, <1>5, <2>1, SizeAssumption DEF LiveSlots, Slots
  <2>3. LiveSlots(r.fifo) \subseteq Slots /\ LiveSlots(q) \subseteq Slots
      BY DEF LiveSlots
  <2> QED BY <2>2, <2>3
<1> QED BY <1>1, <1>2, <1>3, <1>4, <1>6, <1>7

(* A pop of an empty fifo returns NULL and changes nothing. *)
LEMMA PopEmpty ==
    ASSUME NEW q, pointer_fifo_is_empty(q)
    PROVE  /\ pointer_fifo_pop(q).result = NULL
           /\ pointer_fifo_pop(q).fifo = q
BY DEF pointer_fifo_pop

(* After clear no slot is in use, whatever stale pointers they hold. *)
LEMMA ClearSlots ==
    ASSUME NEW q \in Fifos
    PROVE  /\ pointer_fifo_clear(q) \in Fifos
           /\ LiveSlots(pointer_fifo_clear(q)) = {}
           /\ Contents(pointer_fifo_clear(q)) = << >>
BY SizeAssumption
   DEF pointer_fifo_clear, Fifos, Slots, LiveSlots, Contents, pointer_fifo_count

(* What the three do to the set of pointers stored, when each is stored once. *)
LEMMA PushStored ==
    ASSUME NEW q \in Fifos, NEW p \in Pointers, ~pointer_fifo_is_full(q),
           NoDuplicates(q), p \notin Stored(q),
           NEW r, r = pointer_fifo_push(q, p).fifo
    PROVE  NoDuplicates(r) /\ Stored(r) = Stored(q) \cup {p}
<1>1. /\ q.head \in Slots \ LiveSlots(q)
      /\ LiveSlots(r) = LiveSlots(q) \cup {q.head}
      /\ r.buffer = [q.buffer EXCEPT ![q.head] = p]
    BY PushSlots
<1>2. q.buffer \in [Slots -> Pointers \cup {NULL}] /\ LiveSlots(q) \subseteq Slots
    BY DEF Fifos, LiveSlots
<1>3. /\ r.buffer[q.head] = p
      /\ \A i \in LiveSlots(q) : r.buffer[i] = q.buffer[i]
    BY <1>1, <1>2
<1> QED BY <1>1, <1>3 DEF NoDuplicates, Stored

LEMMA PopStored ==
    ASSUME NEW q \in Fifos, ~pointer_fifo_is_empty(q), NoDuplicates(q),
           NEW r, r = pointer_fifo_pop(q)
    PROVE  /\ NoDuplicates(r.fifo)
           /\ r.result \in Stored(q)
           /\ Stored(r.fifo) = Stored(q) \ {r.result}
BY PopSlots DEF NoDuplicates, Stored

LEMMA ClearStored ==
    ASSUME NEW q \in Fifos
    PROVE  /\ NoDuplicates(pointer_fifo_clear(q))
           /\ Stored(pointer_fifo_clear(q)) = {}
BY ClearSlots DEF NoDuplicates, Stored

-----------------------------------------------------------------------------
(***************************************************************************)
(* The same functions on the sequence of pointers a fifo stands for.       *)
(***************************************************************************)

(* The k-th pointer is in a slot in use, and every slot in use is the place
   of some k. *)
LEMMA ContentsSlots ==
    ASSUME NEW q \in Fifos
    PROVE  /\ Contents(q) \in Seq(Pointers \cup {NULL})
           /\ Len(Contents(q)) = pointer_fifo_count(q)
           /\ \A k \in 1 .. pointer_fifo_count(q) :
                  /\ NthSlot(q, k) \in LiveSlots(q)
                  /\ Contents(q)[k] = q.buffer[NthSlot(q, k)]
           /\ \A i \in LiveSlots(q) :
                  \E k \in 1 .. pointer_fifo_count(q) : i = NthSlot(q, k)
<1>1. /\ q.head \in Slots
      /\ q.tail \in Slots
      /\ q.buffer \in [Slots -> Pointers \cup {NULL}]
    BY DEF Fifos
<1>2. pointer_fifo_count(q) \in Nat
    BY CountRange, SizeAssumption
<1>3. ASSUME NEW k \in 1 .. pointer_fifo_count(q)
      PROVE  NthSlot(q, k) \in LiveSlots(q)
    BY <1>1, <1>3, SizeAssumption, SMTT(20) DEF NthSlot, LiveSlots, Slots, pointer_fifo_count
<1>4. LiveSlots(q) \subseteq Slots
    BY DEF LiveSlots
<1>5. \A k \in 1 .. pointer_fifo_count(q) :
          q.buffer[NthSlot(q, k)] \in Pointers \cup {NULL}
    BY <1>1, <1>3, <1>4
<1>6. Contents(q) \in [1 .. pointer_fifo_count(q) -> Pointers \cup {NULL}]
    BY <1>5 DEF Contents
<1>7. ASSUME NEW i \in LiveSlots(q)
      PROVE  \E k \in 1 .. pointer_fifo_count(q) : i = NthSlot(q, k)
  <2>1. CASE q.tail <= i
    <3>1. i - q.tail + 1 \in 1 .. pointer_fifo_count(q)
        BY <1>1, <1>7, <2>1, SizeAssumption DEF LiveSlots, Slots, pointer_fifo_count
    <3>2. i = NthSlot(q, i - q.tail + 1)
        BY <1>1, <1>7, <2>1, SizeAssumption DEF LiveSlots, Slots, NthSlot
    <3> QED BY <3>1, <3>2
  <2>2. CASE i < q.tail
    <3>1. i - q.tail + 1 + Size \in 1 .. pointer_fifo_count(q)
        BY <1>1, <1>7, <2>2, SizeAssumption DEF LiveSlots, Slots, pointer_fifo_count
    <3>2. i = NthSlot(q, i - q.tail + 1 + Size)
        BY <1>1, <1>7, <2>2, SizeAssumption DEF LiveSlots, Slots, NthSlot
    <3> QED BY <3>1, <3>2
  <2> QED BY <1>1, <1>4, <2>1, <2>2 DEF Slots
<1>8. /\ Contents(q) \in Seq(Pointers \cup {NULL})
      /\ Len(Contents(q)) = pointer_fifo_count(q)
    BY <1>2, <1>6
<1> QED BY <1>3, <1>6, <1>7, <1>8 DEF Contents

(* The sequence holds what is stored, and nothing else. *)
LEMMA ContentsRange ==
    ASSUME NEW q \in Fifos
    PROVE  {Contents(q)[k] : k \in DOMAIN Contents(q)} = Stored(q)
<1>1. DOMAIN Contents(q) = 1 .. pointer_fifo_count(q)
    BY DEF Contents
<1> QED BY <1>1, ContentsSlots DEF Stored

(* Two sequences of the same length with the same elements are equal. *)
LEMMA SameElements ==
    ASSUME NEW S, NEW s \in Seq(S), NEW t \in Seq(S), Len(s) = Len(t),
           \A k \in 1 .. Len(s) : s[k] = t[k]
    PROVE  s = t
  OBVIOUS

(* A successful push appends. *)
THEOREM PushAppends ==
    ASSUME NEW q \in Fifos, NEW p \in Pointers, ~pointer_fifo_is_full(q),
           NEW r, r = pointer_fifo_push(q, p).fifo
    PROVE  /\ Contents(r) = Append(Contents(q), p)
           /\ Len(Contents(q)) < Size - 1
<1> DEFINE n == pointer_fifo_count(q)
<1>1. /\ q.head \in Slots
      /\ q.tail \in Slots
      /\ q.buffer \in [Slots -> Pointers \cup {NULL}]
    BY DEF Fifos
<1>2. /\ r \in Fifos
      /\ q.head \notin LiveSlots(q)
      /\ r.buffer = [q.buffer EXCEPT ![q.head] = p]
    BY PushSlots
<1>3. /\ r.tail = q.tail
      /\ r.head = IF q.head = Size - 1 THEN 0 ELSE q.head + 1
    BY <1>1, AdvanceWraps DEF pointer_fifo_push
<1>4. n \in 0 .. Size - 1 /\ n < Size - 1
    BY CountRange, SizeAssumption DEF pointer_fifo_is_full
<1>5. pointer_fifo_count(r) = n + 1
    BY <1>1, <1>3, <1>4, SizeAssumption DEF pointer_fifo_count, Slots
<1>6. NthSlot(r, n + 1) = q.head
    BY <1>1, <1>3, <1>4, SizeAssumption, SMTT(20) DEF pointer_fifo_count, NthSlot, Slots
<1>7. \A k \in 1 .. n : NthSlot(r, k) = NthSlot(q, k)
    BY <1>3 DEF NthSlot
<1>8. /\ Contents(q) \in Seq(Pointers \cup {NULL})
      /\ Len(Contents(q)) = n
      /\ \A k \in 1 .. n : /\ NthSlot(q, k) \in LiveSlots(q)
                           /\ Contents(q)[k] = q.buffer[NthSlot(q, k)]
    BY ContentsSlots
<1>9. /\ Contents(r) \in Seq(Pointers \cup {NULL})
      /\ Len(Contents(r)) = n + 1
      /\ \A k \in 1 .. n + 1 : Contents(r)[k] = r.buffer[NthSlot(r, k)]
    BY <1>2, <1>5, ContentsSlots
<1>10. LiveSlots(q) \subseteq Slots
    BY DEF LiveSlots
<1>11. \A k \in 1 .. n : Contents(r)[k] = Contents(q)[k]
    BY <1>1, <1>2, <1>4, <1>7, <1>8, <1>9, <1>10
<1>12. Contents(r)[n + 1] = p
    BY <1>1, <1>2, <1>4, <1>6, <1>9
<1>13. Append(Contents(q), p) \in Seq(Pointers \cup {NULL})
    BY <1>8
<1>14. /\ Len(Append(Contents(q), p)) = n + 1
       /\ \A k \in 1 .. n : Append(Contents(q), p)[k] = Contents(q)[k]
       /\ Append(Contents(q), p)[n + 1] = p
    BY <1>8
<1> HIDE DEF n
<1>15. \A k \in 1 .. n + 1 : Contents(r)[k] = Append(Contents(q), p)[k]
    BY <1>4, <1>11, <1>12, <1>14, SizeAssumption
<1>16. Contents(r) = Append(Contents(q), p)
    BY <1>9, <1>13, <1>14, <1>15, SameElements
<1> QED BY <1>4, <1>8, <1>16

(* A pop that returns a pointer returns the oldest and leaves the rest. *)
THEOREM PopRemovesHead ==
    ASSUME NEW q \in Fifos, ~pointer_fifo_is_empty(q),
           NEW r, r = pointer_fifo_pop(q)
    PROVE  /\ Contents(q) # << >>
           /\ r.result = Head(Contents(q))
           /\ Contents(r.fifo) = Tail(Contents(q))
<1> DEFINE n == pointer_fifo_count(q)
           s == r.fifo
<1>1. /\ q.head \in Slots
      /\ q.tail \in Slots
    BY DEF Fifos
<1>2. /\ s \in Fifos
      /\ s.buffer = q.buffer
      /\ r.result = q.buffer[q.tail]
    BY PopSlots
<1>3. /\ s.head = q.head
      /\ s.tail = IF q.tail = Size - 1 THEN 0 ELSE q.tail + 1
    BY <1>1, AdvanceWraps DEF pointer_fifo_pop, Fifos
<1>4. n \in 0 .. Size - 1 /\ n > 0
    BY CountRange, SizeAssumption DEF pointer_fifo_is_empty
<1>5. pointer_fifo_count(s) = n - 1
    BY <1>1, <1>3, <1>4, SizeAssumption DEF pointer_fifo_count, Slots
<1>6. NthSlot(q, 1) = q.tail
    BY <1>1, SizeAssumption DEF NthSlot, Slots
<1>7. \A k \in 1 .. n - 1 : NthSlot(s, k) = NthSlot(q, k + 1)
    BY <1>1, <1>3, <1>4, SizeAssumption DEF NthSlot, Slots
<1>8. /\ Contents(q) \in Seq(Pointers \cup {NULL})
      /\ Len(Contents(q)) = n
      /\ \A k \in 1 .. n : Contents(q)[k] = q.buffer[NthSlot(q, k)]
    BY ContentsSlots
<1>9. /\ Contents(s) \in Seq(Pointers \cup {NULL})
      /\ Len(Contents(s)) = n - 1
      /\ \A k \in 1 .. n - 1 : Contents(s)[k] = s.buffer[NthSlot(s, k)]
    BY <1>2, <1>5, ContentsSlots
<1> HIDE DEF n, s
<1>10. Contents(q) # << >>
    BY <1>4, <1>8
<1>11. r.result = Head(Contents(q))
    BY <1>2, <1>4, <1>6, <1>8, <1>10, SizeAssumption
<1>12. \A k \in 1 .. n - 1 : Contents(s)[k] = Contents(q)[k + 1]
    BY <1>2, <1>4, <1>7, <1>8, <1>9, SizeAssumption
<1>13. /\ Tail(Contents(q)) \in Seq(Pointers \cup {NULL})
       /\ Len(Tail(Contents(q))) = n - 1
       /\ \A k \in 1 .. n - 1 : Tail(Contents(q))[k] = Contents(q)[k + 1]
    BY <1>4, <1>8, <1>10, SizeAssumption
<1>14. Contents(s) = Tail(Contents(q))
    BY <1>9, <1>12, <1>13, SameElements
<1> QED BY <1>10, <1>11, <1>14 DEF s

=============================================================================
