---------------------------- MODULE PointerFifo ----------------------------
(***************************************************************************)
(* The ring buffer of src/src/pigeond/pointer_fifo.c: the struct, and one  *)
(* operator per function.  A function that changes the struct and returns  *)
(* a value is an operator whose value is a record of both.                 *)
(***************************************************************************)
EXTENDS Integers, Sequences

CONSTANTS
    Size,       \* fifo->size; PIGEON_FRAME_PIPE_SIZE (100) in the program
    Pointers,   \* the addresses that can be stored
    NULL

ASSUME SizeAssumption == Size \in Nat /\ Size >= 1
ASSUME NullAssumption == NULL \notin Pointers

Slots == 0 .. Size - 1

Fifos == [buffer : [Slots -> Pointers \cup {NULL}], head : Slots, tail : Slots]

pointer_fifo_new ==
    [buffer |-> [i \in Slots |-> NULL], head |-> 0, tail |-> 0]

pointer_fifo_count(q) ==
    IF q.head < q.tail THEN Size - (q.tail - q.head) ELSE q.head - q.tail

pointer_fifo_is_empty(q) == pointer_fifo_count(q) = 0

pointer_fifo_is_full(q) == pointer_fifo_count(q) = Size - 1

advance_without_wrap(i) == i + 1

(* head and tail move round the buffer; one slot always stays blank. *)
Advance(i) == (i + 1) % Size

(* Mutants of the functions below. *)
pop_when_empty(q) ==
    [fifo |-> [q EXCEPT !.tail = Advance(q.tail)],
     result |-> q.buffer[q.tail]]

pop_from_head(q) ==
    IF pointer_fifo_is_empty(q)
    THEN [fifo |-> q, result |-> NULL]
    ELSE LET last == (q.head + Size - 1) % Size
         IN  [fifo |-> [q EXCEPT !.head = last], result |-> q.buffer[last]]

clear_head_only(q) == [q EXCEPT !.head = 0]

pointer_fifo_push(q, p) ==
    IF ~pointer_fifo_is_full(q)
    THEN [fifo |-> [buffer |-> [q.buffer EXCEPT ![q.head] = p],
                    head |-> Advance(q.head), tail |-> q.tail],
          success |-> TRUE]
    ELSE [fifo |-> q, success |-> FALSE]

pointer_fifo_pop(q) ==
    IF ~pointer_fifo_is_empty(q)
    THEN [fifo |-> [q EXCEPT !.tail = Advance(q.tail)],
          result |-> q.buffer[q.tail]]
    ELSE [fifo |-> q, result |-> NULL]

(* The slots keep their stale pointers: only head and tail are reset. *)
pointer_fifo_clear(q) == [buffer |-> q.buffer, head |-> 0, tail |-> 0]

-----------------------------------------------------------------------------
(***************************************************************************)
(* What a fifo holds, for stating properties: the slots between tail and   *)
(* head, and the sequence of pointers in them, oldest first.               *)
(***************************************************************************)
LiveSlots(q) ==
    {i \in Slots : IF q.tail <= q.head
                   THEN q.tail <= i /\ i < q.head
                   ELSE q.tail <= i \/ i < q.head}

(* The pointers in the slots in use, and that no two slots hold the same. *)
Stored(q) == {q.buffer[i] : i \in LiveSlots(q)}

NoDuplicates(q) ==
    \A i, j \in LiveSlots(q) : q.buffer[i] = q.buffer[j] => i = j

NthSlot(q, k) ==
    IF q.tail + k <= Size THEN q.tail + k - 1 ELSE q.tail + k - 1 - Size

Contents(q) ==
    [k \in 1 .. pointer_fifo_count(q) |-> q.buffer[NthSlot(q, k)]]

=============================================================================
