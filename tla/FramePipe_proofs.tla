-------------------------- MODULE FramePipe_proofs --------------------------
(***************************************************************************)
(* Proofs about the frame pipe, for every buffer size, every set of        *)
(* addresses and headers, and every choice of link modules.                *)
(***************************************************************************)
EXTENDS FramePipe, PointerFifo_proofs

(* Where each thread starts its loop is a place of its own code, at which it
   has no frame. *)
LEMMA LoopStartType ==
    /\ LoopStart \in [Threads -> WriterPCs \cup ReaderPCs \cup ControlsPCs]
    /\ \A t \in Writers : LoopStart[t] \in {"read", "stopped"}
    /\ \A t \in Readers : LoopStart[t] \in {"has_next", "is_empty"}
    /\ LoopStart["controls"] = "poll"
<1>1. /\ LoopStart["tunnel_read"] = "read"
      /\ LoopStart["tunnel_write"] = "is_empty"
      /\ LoopStart["link_tx"] \in {"has_next", "is_empty"}
      /\ LoopStart["link_rx"] \in {"read", "stopped"}
      /\ LoopStart["controls"] = "poll"
    BY DEF LoopStart, Threads
<1>2. \A t \in Threads : LoopStart[t] \in WriterPCs \cup ReaderPCs \cup ControlsPCs
    BY <1>1 DEF Threads, WriterPCs, ReaderPCs, ControlsPCs
<1>3. LoopStart \in [Threads -> WriterPCs \cup ReaderPCs \cup ControlsPCs]
    BY <1>2 DEF LoopStart
<1> QED BY <1>1, <1>3 DEF Writers, Readers

(* The writer and the reader of a direction. *)
LEMMA Ends ==
    ASSUME NEW d \in Directions
    PROVE  /\ Writer(d) \in Writers /\ Writer(d) \in Threads
           /\ Reader(d) \in Readers /\ Reader(d) \in Threads
           /\ Writer(d) # Reader(d)
BY DEF Directions, Writer, Reader, Writers, Readers, Threads

(* A thread writes, reads or resets. *)
LEMMA Roles ==
    /\ Threads = Writers \cup Readers \cup {"controls"}
    /\ Writers \cap Readers = {}
    /\ "controls" \notin Writers \cup Readers
BY DEF Threads, Writers, Readers

(* The two outcomes of pigeon_frame_pipe_push. *)
LEMMA PushFails ==
    ASSUME TypeOK, HeldByPC, NEW d \in Directions, Push(d),
           pointer_fifo_is_full(fifo[d])
    PROVE  /\ pc[Writer(d)] = "push"
           /\ fifo' = fifo /\ held' = held
           /\ Goto(Writer(d), "ui_count")
           /\ UNCHANGED <<heap, count, display>>
<1> DEFINE r == pointer_fifo_push(fifo[d], held[Writer(d)])
<1>1. r.success = FALSE /\ r.fifo = fifo[d]
    BY PushFull
<1>2. /\ pc[Writer(d)] = "push"
      /\ fifo' = [fifo EXCEPT ![d] = r.fifo]
      /\ held' = IF r.success THEN [held EXCEPT ![Writer(d)] = NULL] ELSE held
      /\ Goto(Writer(d), IF r.success THEN "signal" ELSE "ui_count")
      /\ UNCHANGED <<heap, count, display>>
    BY DEF Push
<1> HIDE DEF r
<1> QED BY <1>1, <1>2 DEF TypeOK

LEMMA PushSucceeds ==
    ASSUME TypeOK, HeldByPC, NEW d \in Directions, Push(d),
           ~pointer_fifo_is_full(fifo[d])
    PROVE  /\ pc[Writer(d)] = "push"
           /\ held[Writer(d)] \in Pointers
           /\ fifo' = [fifo EXCEPT
                         ![d] = pointer_fifo_push(fifo[d], held[Writer(d)]).fifo]
           /\ held' = [held EXCEPT ![Writer(d)] = NULL]
           /\ Goto(Writer(d), "signal")
           /\ UNCHANGED <<heap, count, display>>
<1>1. held[Writer(d)] \in Pointers /\ fifo[d] \in Fifos
    BY Ends DEF Push, TypeOK, HeldByPC
<1>2. pointer_fifo_push(fifo[d], held[Writer(d)]).success = TRUE
    BY <1>1, PushSlots
<1> QED BY <1>1, <1>2 DEF Push

(* pigeon_frame_pipe_pop finds the buffer emptied by a reset: it returns NULL. *)
LEMMA TryPopFails ==
    ASSUME TypeOK, HeldByPC, NEW d \in Directions, TryPop(d),
           pointer_fifo_is_empty(fifo[d])
    PROVE  /\ fifo' = fifo /\ held' = held
           /\ held[Reader(d)] = NULL
           /\ Goto(Reader(d), "ui_count")
           /\ UNCHANGED <<heap, count, display>>
<1> DEFINE r == pointer_fifo_pop(fifo[d])
<1>1. r.result = NULL /\ r.fifo = fifo[d]
    BY PopEmpty
<1>2. /\ pc[Reader(d)] = "try_pop"
      /\ fifo' = [fifo EXCEPT ![d] = r.fifo]
      /\ held' = [held EXCEPT ![Reader(d)] = r.result]
      /\ Goto(Reader(d), "ui_count")
      /\ UNCHANGED <<heap, count, display>>
    BY DEF TryPop
<1> HIDE DEF r
<1>3. held[Reader(d)] = NULL
    BY <1>2, Ends DEF HeldByPC
<1> QED BY <1>1, <1>2, <1>3 DEF TypeOK

LEMMA TypeInit == Init => TypeOK /\ HeldByPC
<1> SUFFICES ASSUME Init PROVE TypeOK /\ HeldByPC
    OBVIOUS
<1> USE DEF Init
<1>1. fifo \in [Directions -> Fifos]
    BY NewFifo
<1>2. /\ pc \in [Threads -> WriterPCs \cup ReaderPCs \cup ControlsPCs]
      /\ \A t \in Writers : pc[t] \in WriterPCs
      /\ \A t \in Readers : pc[t] \in ReaderPCs
      /\ pc["controls"] \in ControlsPCs
    BY LoopStartType DEF WriterPCs, ReaderPCs, ControlsPCs
<1>3. count \in [Threads -> Counts] /\ display \in Counts
    BY SizeAssumption DEF Counts
<1>4. TypeOK
    BY <1>1, <1>2, <1>3 DEF TypeOK
<1>5. HeldByPC
    BY Roles, LoopStartType DEF HeldByPC
<1> QED BY <1>4, <1>5

(* Every step keeps the types, and a frame in hand where the code has one. *)
LEMMA TypeStep ==
    TypeOK /\ HeldByPC /\ [Next]_vars => TypeOK' /\ HeldByPC'
<1> SUFFICES ASSUME TypeOK, HeldByPC, [Next]_vars
             PROVE  TypeOK' /\ HeldByPC'
    OBVIOUS
<1> USE Roles
<1>1. ASSUME NEW f \in Pointers, NEW h \in Headers, TunnelRead(f, h)
      PROVE  TypeOK' /\ HeldByPC'
    BY <1>1, NullAssumption
       DEF TunnelRead, pigeon_frame_new, Goto, TypeOK, HeldByPC, WriterPCs, Writers, Readers
<1>2. ASSUME NEW f \in Pointers, NEW h \in Headers, LinkReceive(f, h)
      PROVE  TypeOK' /\ HeldByPC'
    BY <1>2, NullAssumption
       DEF LinkReceive, pigeon_frame_new, Goto, TypeOK, HeldByPC, WriterPCs, Writers, Readers
<1>3. ASSUME TunnelAllow PROVE TypeOK' /\ HeldByPC'
    BY <1>3 DEF TunnelAllow, Goto, TypeOK, HeldByPC, WriterPCs, Writers, Readers
<1>4. ASSUME TunnelReject PROVE TypeOK' /\ HeldByPC'
    BY <1>4 DEF TunnelReject, Goto, TypeOK, HeldByPC, WriterPCs, Writers, Readers
<1>5. ASSUME NEW d \in Directions, Push(d) PROVE TypeOK' /\ HeldByPC'
  <2>1. CASE pointer_fifo_is_full(fifo[d])
      BY <1>5, <2>1, PushFails, Ends DEF Goto, TypeOK, HeldByPC, WriterPCs
  <2>2. CASE ~pointer_fifo_is_full(fifo[d])
    <3>1. pointer_fifo_push(fifo[d], held[Writer(d)]).fifo \in Fifos
        BY <1>5, <2>2, PushSucceeds, PushSlots DEF TypeOK
    <3>2. fifo' \in [Directions -> Fifos]
        BY <1>5, <2>2, <3>1, PushSucceeds DEF TypeOK
    <3> QED BY <1>5, <2>2, <3>2, PushSucceeds, Ends DEF Goto, TypeOK, HeldByPC, WriterPCs
  <2> QED BY <2>1, <2>2
<1>6. ASSUME NEW d \in Directions, Signal(d) PROVE TypeOK' /\ HeldByPC'
    BY <1>6, Ends DEF Signal, TypeOK, HeldByPC, WriterPCs, ReaderPCs
<1>7. ASSUME NEW d \in Directions, ReadIsEmpty(d) PROVE TypeOK' /\ HeldByPC'
    BY <1>7, Ends DEF ReadIsEmpty, Goto, TypeOK, HeldByPC, ReaderPCs
<1>8. ASSUME NEW d \in Directions, CondWait(d) PROVE TypeOK' /\ HeldByPC'
    BY <1>8, Ends DEF CondWait, Goto, TypeOK, HeldByPC, ReaderPCs
<1>9. ASSUME NEW d \in Directions, SpuriousWakeup(d) PROVE TypeOK' /\ HeldByPC'
    BY <1>9, Ends DEF SpuriousWakeup, Goto, TypeOK, HeldByPC, ReaderPCs
<1>10. ASSUME NEW d \in Directions, TryPop(d) PROVE TypeOK' /\ HeldByPC'
  <2>1. CASE pointer_fifo_is_empty(fifo[d])
      BY <1>10, <2>1, TryPopFails, Ends DEF Goto, TypeOK, HeldByPC, ReaderPCs
  <2>2. CASE ~pointer_fifo_is_empty(fifo[d])
    <3> DEFINE r == pointer_fifo_pop(fifo[d])
    <3>1. r.fifo \in Fifos /\ r.result \in Pointers \cup {NULL}
        BY <2>2, PopSlots DEF TypeOK, Fifos, LiveSlots
    <3>2. /\ fifo' = [fifo EXCEPT ![d] = r.fifo]
          /\ held' = [held EXCEPT ![Reader(d)] = r.result]
          /\ Goto(Reader(d), "ui_count")
          /\ UNCHANGED <<heap, count, display>>
        BY <1>10 DEF TryPop
    <3> HIDE DEF r
    <3> QED BY <3>1, <3>2, Ends DEF Goto, TypeOK, HeldByPC, ReaderPCs
  <2> QED BY <2>1, <2>2
<1>11. ASSUME NEW d \in Directions, Use(d) PROVE TypeOK' /\ HeldByPC'
  <2>1. LoopStart[Reader(d)] \in {"has_next", "is_empty"}
      BY LoopStartType, Ends
  <2>2. held[Reader(d)] \in Pointers
      BY <1>11, Ends DEF Use, TypeOK, HeldByPC
  <2> QED BY <1>11, <2>1, <2>2, Ends DEF Use, Goto, TypeOK, HeldByPC, ReaderPCs
<1>12. ASSUME HasNext PROVE TypeOK' /\ HeldByPC'
    BY <1>12 DEF HasNext, Goto, TypeOK, HeldByPC, ReaderPCs, Readers, Writers
<1>13. ASSUME ResetTx PROVE TypeOK' /\ HeldByPC'
  <2>1. fifo' \in [Directions -> Fifos]
      BY <1>13, ClearSlots DEF ResetTx, TypeOK
  <2> QED BY <1>13, <2>1 DEF ResetTx, Goto, TypeOK, HeldByPC, ControlsPCs
<1>14. ASSUME ResetRx PROVE TypeOK' /\ HeldByPC'
  <2>1. fifo' \in [Directions -> Fifos]
      BY <1>14, ClearSlots DEF ResetRx, TypeOK
  <2> QED BY <1>14, <2>1 DEF ResetRx, Goto, TypeOK, HeldByPC, ControlsPCs
<1>15. ASSUME NEW t \in Threads, UiCount(t) PROVE TypeOK' /\ HeldByPC'
  <2>1. pointer_fifo_count(fifo["tx"]) \in Counts
      BY CountRange DEF TypeOK, Directions, Counts
  <2> QED BY <1>15, <2>1
          DEF UiCount, Goto, TypeOK, HeldByPC, WriterPCs, ReaderPCs, ControlsPCs
<1>16. ASSUME NEW t \in Threads, UiShow(t) PROVE TypeOK' /\ HeldByPC'
  <2>1. count' \in [Threads -> Counts] /\ display' \in Counts
      BY <1>16, SizeAssumption DEF UiShow, TypeOK, Counts, SCREEN_MAX_VALUE
  <2>2. CASE t \in Readers /\ held[t] # NULL
      BY <1>16, <2>1, <2>2 DEF UiShow, Goto, TypeOK, HeldByPC, ReaderPCs
  <2>3. CASE ~(t \in Readers /\ held[t] # NULL)
      BY <1>16, <2>1, <2>3, LoopStartType
         DEF UiShow, Goto, TypeOK, HeldByPC, WriterPCs, ReaderPCs, ControlsPCs
  <2> QED BY <2>2, <2>3
<1>17. CASE UNCHANGED vars
    BY <1>17 DEF vars, TypeOK, HeldByPC
<1> QED BY <1>1, <1>2, <1>3, <1>4, <1>5, <1>6, <1>7, <1>8, <1>9, <1>10, <1>11,
           <1>12, <1>13, <1>14, <1>15, <1>16, <1>17
        DEF Next, WriterStep, ReaderStep, UpdateUi

(* The pipe is type-correct: indices stay in the buffer, a count is at most
   one less than the buffer's size, and every thread is in its own code. *)
THEOREM TypeCorrect == Spec => [](TypeOK /\ HeldByPC)
BY TypeInit, TypeStep, PTL DEF Spec

-----------------------------------------------------------------------------
(***************************************************************************)
(* Ownership.                                                              *)
(***************************************************************************)

Owned == SingleOwner /\ NoDanglingFrame

LEMMA OwnerInit == Init => Owned
<1> SUFFICES ASSUME Init PROVE Owned
    OBVIOUS
<1>1. \A d \in Directions : Queued(d) = {} /\ NoDuplicates(fifo[d])
    BY NewFifo DEF Init, Queued, Stored, NoDuplicates
<1>2. \A t \in Threads : held[t] = NULL
    BY DEF Init
<1> QED BY <1>1, <1>2 DEF Owned, SingleOwner, NoDanglingFrame, Directions

(* Every step leaves each frame with at most one owner, and leaves no owner
   with a frame that was freed. *)
LEMMA OwnerStep ==
    TypeOK /\ HeldByPC /\ Owned /\ [Next]_vars => Owned'
<1> SUFFICES ASSUME TypeOK, HeldByPC, Owned, [Next]_vars
             PROVE  Owned'
    OBVIOUS
<1> USE Roles
<1>0. ASSUME UNCHANGED <<fifo, heap, held>> PROVE Owned'
    BY <1>0 DEF Owned, SingleOwner, NoDanglingFrame, Queued
<1>1. ASSUME NEW t \in Threads, NEW f \in Pointers, NEW h \in Headers,
             fifo' = fifo, pigeon_frame_new(t, f, h)
      PROVE  Owned'
  <2>1. \A d \in Directions : Queued(d)' = Queued(d)
      BY <1>1 DEF Queued
  <2>2. /\ \A d \in Directions : f \notin Queued(d)
        /\ \A u \in Threads : held[u] # f
      BY <1>1, NullAssumption DEF Owned, NoDanglingFrame, pigeon_frame_new
  <2>3. SingleOwner'
      BY <1>1, <2>1, <2>2 DEF Owned, SingleOwner, pigeon_frame_new, TypeOK, Directions
  <2>4. NoDanglingFrame'
      BY <1>1, <2>1, <2>2, HeadersAssumption, NullAssumption
         DEF Owned, NoDanglingFrame, pigeon_frame_new, TypeOK
  <2> QED BY <2>3, <2>4 DEF Owned
<1>2. ASSUME NEW t \in Threads, held[t] # NULL, fifo' = fifo,
             \/ heap' = [heap EXCEPT ![held[t]] = NULL]
             \/ heap' = heap,
             held' = [held EXCEPT ![t] = NULL]
      PROVE  Owned'
  <2>1. \A d \in Directions : Queued(d)' = Queued(d)
      BY <1>2 DEF Queued
  <2>2. /\ \A d \in Directions : held[t] \notin Queued(d) /\ NULL \notin Queued(d)
        /\ \A u \in Threads : u # t => held[u] # held[t]
      BY <1>2, NullAssumption DEF Owned, SingleOwner, NoDanglingFrame
  <2>3. SingleOwner'
      BY <1>2, <2>1, <2>2 DEF Owned, SingleOwner, TypeOK, Directions
  <2>4. NoDanglingFrame'
      BY <1>2, <2>1, <2>2 DEF Owned, NoDanglingFrame, TypeOK
  <2> QED BY <2>3, <2>4 DEF Owned
<1>3. ASSUME NEW d \in Directions, fifo' = [fifo EXCEPT ![d] = pointer_fifo_clear(fifo[d])],
             UNCHANGED <<heap, held>>
      PROVE  Owned'
  <2>1. /\ Queued(d)' = {} /\ NoDuplicates(fifo[d])'
        /\ \A e \in Directions \ {d} : Queued(e)' = Queued(e) /\ fifo'[e] = fifo[e]
      BY <1>3, ClearStored DEF Queued, TypeOK
  <2>2. \A e \in Directions : NoDuplicates(fifo[e])'
      BY <2>1 DEF Owned, SingleOwner
  <2>3. \A e \in Directions : Queued(e)' \subseteq Queued(e)
      BY <2>1
  <2>4. SingleOwner'
      BY <1>3, <2>2, <2>3 DEF Owned, SingleOwner, Directions
  <2>5. NoDanglingFrame'
      BY <1>3, <2>3 DEF Owned, NoDanglingFrame
  <2> QED BY <2>4, <2>5 DEF Owned
<1>4. ASSUME NEW d \in Directions, Push(d) PROVE Owned'
  <2>1. CASE pointer_fifo_is_full(fifo[d])
      BY <1>0, <1>4, <2>1, PushFails
  <2>2. CASE ~pointer_fifo_is_full(fifo[d])
    <3> DEFINE p == held[Writer(d)]
    <3>1. /\ p \in Pointers
          /\ fifo' = [fifo EXCEPT ![d] = pointer_fifo_push(fifo[d], p).fifo]
          /\ held' = [held EXCEPT ![Writer(d)] = NULL]
          /\ heap' = heap
        BY <1>4, <2>2, PushSucceeds
    <3>2. /\ \A e \in Directions : p \notin Queued(e) /\ NULL \notin Queued(e)
          /\ \A u \in Threads : u # Writer(d) => held[u] # p
          /\ heap[p] # NULL
        BY <3>1, Ends, NullAssumption DEF Owned, SingleOwner, NoDanglingFrame
    <3>3. /\ Queued(d)' = Queued(d) \cup {p} /\ NoDuplicates(fifo[d])'
          /\ \A e \in Directions \ {d} : Queued(e)' = Queued(e) /\ fifo'[e] = fifo[e]
        BY <2>2, <3>1, <3>2, PushStored DEF Queued, TypeOK, Owned, SingleOwner
    <3>4. \A e \in Directions : NoDuplicates(fifo[e])'
        BY <3>3 DEF Owned, SingleOwner
    <3> HIDE DEF p
    <3>5. SingleOwner'
      <4>1. Queued("tx")' \cap Queued("rx")' = {}
          BY <3>2, <3>3 DEF Owned, SingleOwner, Directions
      <4>2. \A e \in Directions, u \in Threads : held'[u] \notin Queued(e)'
          BY <3>1, <3>2, <3>3, Ends, NullAssumption DEF Owned, SingleOwner, TypeOK
      <4>3. \A t, u \in Threads : held'[t] = held'[u] /\ held'[t] # NULL => t = u
          BY <3>1, Ends DEF Owned, SingleOwner, TypeOK
      <4> QED BY <3>4, <4>1, <4>2, <4>3 DEF SingleOwner
    <3>6. NoDanglingFrame'
        BY <3>1, <3>2, <3>3, Ends DEF Owned, NoDanglingFrame, TypeOK
    <3> QED BY <3>5, <3>6 DEF Owned
  <2> QED BY <2>1, <2>2
<1>5. ASSUME NEW d \in Directions, TryPop(d) PROVE Owned'
  <2>1. CASE pointer_fifo_is_empty(fifo[d])
      BY <1>0, <1>5, <2>1, TryPopFails
  <2>2. CASE ~pointer_fifo_is_empty(fifo[d])
    <3> DEFINE r == pointer_fifo_pop(fifo[d])
    <3>1. /\ fifo' = [fifo EXCEPT ![d] = r.fifo]
          /\ held' = [held EXCEPT ![Reader(d)] = r.result]
          /\ heap' = heap
        BY <1>5 DEF TryPop
    <3>2. /\ r.result \in Queued(d)
          /\ Queued(d)' = Queued(d) \ {r.result} /\ NoDuplicates(fifo[d])'
          /\ \A e \in Directions \ {d} : Queued(e)' = Queued(e) /\ fifo'[e] = fifo[e]
        BY <2>2, <3>1, PopStored DEF Queued, TypeOK, Owned, SingleOwner
    <3>3. \A e \in Directions : NoDuplicates(fifo[e])'
        BY <3>2 DEF Owned, SingleOwner
    <3>4. /\ \A e \in Directions \ {d} : r.result \notin Queued(e)
          /\ \A u \in Threads : held[u] # r.result
          /\ r.result \in Pointers /\ heap[r.result] # NULL
        BY <3>2 DEF Owned, SingleOwner, NoDanglingFrame, Directions
    <3> HIDE DEF r
    <3>5. SingleOwner'
      <4>1. Queued("tx")' \cap Queued("rx")' = {}
          BY <3>2 DEF Owned, SingleOwner, Directions
      <4>2. \A e \in Directions, u \in Threads : held'[u] \notin Queued(e)'
          BY <3>1, <3>2, <3>4, Ends DEF Owned, SingleOwner, TypeOK
      <4>3. \A t, u \in Threads : held'[t] = held'[u] /\ held'[t] # NULL => t = u
          BY <3>1, <3>4, Ends DEF Owned, SingleOwner, TypeOK
      <4> QED BY <3>3, <4>1, <4>2, <4>3 DEF SingleOwner
    <3>6. NoDanglingFrame'
        BY <3>1, <3>2, <3>4, Ends DEF Owned, NoDanglingFrame, TypeOK
    <3> QED BY <3>5, <3>6 DEF Owned
  <2> QED BY <2>1, <2>2
<1>6. ASSUME NEW t \in Threads, UiShow(t) PROVE Owned'
  <2>1. CASE held[t] = NULL \/ t \in Readers
    <3>1. held' = held
        BY <1>6, <2>1 DEF UiShow, TypeOK
    <3> QED BY <1>0, <1>6, <3>1 DEF UiShow
  <2>2. CASE held[t] # NULL /\ t \notin Readers
      BY <1>2, <1>6, <2>2 DEF UiShow
  <2> QED BY <2>1, <2>2
<1>7. ASSUME NEW f \in Pointers, NEW h \in Headers, TunnelRead(f, h) \/ LinkReceive(f, h)
      PROVE  Owned'
    BY <1>1, <1>7 DEF TunnelRead, LinkReceive, Threads
<1>8. ASSUME TunnelReject PROVE Owned'
  <2>1. "tunnel_read" \in Threads /\ held["tunnel_read"] # NULL
      BY <1>8 DEF TunnelReject, HeldByPC, Writers, Threads
  <2> QED BY <1>2, <1>8, <2>1 DEF TunnelReject
<1>9. ASSUME NEW d \in Directions, Use(d) PROVE Owned'
  <2>1. Reader(d) \in Threads /\ held[Reader(d)] # NULL
      BY <1>9, Ends DEF Use, HeldByPC
  <2> QED BY <1>2, <1>9, <2>1 DEF Use
<1>10. ASSUME ResetTx \/ ResetRx PROVE Owned'
    BY <1>3, <1>10 DEF ResetTx, ResetRx, Directions
<1>11. ASSUME NEW d \in Directions,
              Signal(d) \/ ReadIsEmpty(d) \/ CondWait(d) \/ SpuriousWakeup(d)
       PROVE  Owned'
    BY <1>0, <1>11 DEF Signal, ReadIsEmpty, CondWait, SpuriousWakeup
<1>12. ASSUME TunnelAllow \/ HasNext \/ (\E t \in Threads : UiCount(t)) \/ UNCHANGED vars
       PROVE  Owned'
    BY <1>0, <1>12 DEF TunnelAllow, HasNext, UiCount, vars
<1> QED BY <1>4, <1>5, <1>6, <1>7, <1>8, <1>9, <1>10, <1>11, <1>12
        DEF Next, WriterStep, ReaderStep, UpdateUi

(* For every interleaving of the five threads, resets included, a frame has
   at most one owner. *)
THEOREM FramesHaveOneOwner == Spec => []SingleOwner
<1>1. Owned => SingleOwner
    BY DEF Owned
<1> QED BY <1>1, TypeInit, TypeStep, OwnerInit, OwnerStep, PTL DEF Spec

(* No thread ever uses, and no buffer ever holds, a frame that was freed. *)
THEOREM NoUseAfterFree == Spec => []NoDanglingFrame
<1>1. Owned => NoDanglingFrame
    BY DEF Owned
<1> QED BY <1>1, TypeInit, TypeStep, OwnerInit, OwnerStep, PTL DEF Spec

-----------------------------------------------------------------------------
(***************************************************************************)
(* The filter.                                                             *)
(***************************************************************************)

(* Every step keeps the frames between the filter and the link allowed. *)
LEMMA AllowedStep ==
    IndInv /\ [Next]_vars => AllowedOnTheWay'
<1> SUFFICES ASSUME IndInv, [Next]_vars PROVE AllowedOnTheWay'
    OBVIOUS
<1> USE Roles DEF IndInv
<1>a. /\ "tx" \in Directions
      /\ \A t \in {"tunnel_read", "link_rx", "link_tx", "tunnel_write"} : t \in Threads
      /\ Reader("tx") = "link_tx" /\ Writer("tx") = "tunnel_read"
      /\ Reader("rx") = "tunnel_write" /\ Writer("rx") = "link_rx"
    BY DEF Directions, Threads, Reader, Writer
<1>0. ASSUME UNCHANGED <<fifo, heap>>,
             held'["tunnel_read"] = held["tunnel_read"]
                 \/ pc'["tunnel_read"] # "push",
             held'["link_tx"] \in {held["link_tx"], NULL},
             pc'["tunnel_read"] = "push" =>
                 \/ pc["tunnel_read"] = "push"
                 \/ pigeon_tunnel_is_frame_allowed(heap[held["tunnel_read"]])
      PROVE  AllowedOnTheWay'
    BY <1>0 DEF AllowedOnTheWay, OnlyAllowedFramesLeave, Queued
<1>1. ASSUME NEW t \in Threads, t # "link_tx", NEW f \in Pointers, NEW h \in Headers,
             fifo' = fifo, pigeon_frame_new(t, f, h),
             pc'["tunnel_read"] = "push" => pc["tunnel_read"] = "push" /\ t # "tunnel_read"
      PROVE  AllowedOnTheWay'
  <2>1. /\ f \notin Queued("tx")
        /\ \A u \in Threads : held[u] # f
      BY <1>1, <1>a, NullAssumption DEF NoDanglingFrame, pigeon_frame_new
  <2>2. \A g \in Pointers : g # f => heap'[g] = heap[g]
      BY <1>1 DEF pigeon_frame_new, TypeOK
  <2>3. Queued("tx")' = Queued("tx") /\ Queued("tx") \subseteq Pointers
      BY <1>1, <1>a DEF Queued, NoDanglingFrame
  <2>4. \A u \in Threads : u # t => held'[u] = held[u]
      BY <1>1 DEF pigeon_frame_new, TypeOK
  <2>5. \A u \in Threads : held[u] \in Pointers \cup {NULL}
      BY DEF TypeOK
  <2>6. pc["tunnel_read"] = "push" => held["tunnel_read"] # NULL
      BY DEF HeldByPC, Writers
  <2> QED BY <1>1, <1>a, <2>1, <2>2, <2>3, <2>4, <2>5, <2>6
          DEF AllowedOnTheWay, OnlyAllowedFramesLeave
<1>2. ASSUME NEW t \in Threads, held[t] # NULL, fifo' = fifo,
             \/ heap' = [heap EXCEPT ![held[t]] = NULL]
             \/ heap' = heap,
             held' = [held EXCEPT ![t] = NULL],
             pc'["tunnel_read"] = "push" => pc["tunnel_read"] = "push" /\ t # "tunnel_read"
      PROVE  AllowedOnTheWay'
  <2>1. /\ held[t] \notin Queued("tx")
        /\ \A u \in Threads : u # t => held[u] # held[t]
      BY <1>2, <1>a DEF SingleOwner
  <2>2. \A g \in Pointers : g # held[t] => heap'[g] = heap[g]
      BY <1>2 DEF TypeOK
  <2>3. Queued("tx")' = Queued("tx") /\ Queued("tx") \subseteq Pointers
      BY <1>2, <1>a DEF Queued, NoDanglingFrame
  <2>4. /\ \A u \in Threads : u # t => held'[u] = held[u]
        /\ held'[t] = NULL
      BY <1>2 DEF TypeOK
  <2>5. \A u \in Threads : held[u] \in Pointers \cup {NULL}
      BY DEF TypeOK
  <2>6. pc["tunnel_read"] = "push" => held["tunnel_read"] # NULL
      BY DEF HeldByPC, Writers
  <2> QED BY <1>2, <1>a, <2>1, <2>2, <2>3, <2>4, <2>5, <2>6
          DEF AllowedOnTheWay, OnlyAllowedFramesLeave
<1>3. ASSUME NEW f \in Pointers, NEW h \in Headers, TunnelRead(f, h) \/ LinkReceive(f, h)
      PROVE  AllowedOnTheWay'
  <2>1. CASE TunnelRead(f, h)
      BY <1>1, <1>a, <2>1 DEF TunnelRead, Goto, TypeOK
  <2>2. CASE LinkReceive(f, h)
      BY <1>1, <1>a, <2>2 DEF LinkReceive, Goto, TypeOK
  <2> QED BY <1>3, <2>1, <2>2
<1>4. ASSUME TunnelAllow PROVE AllowedOnTheWay'
    BY <1>0, <1>4 DEF TunnelAllow
<1>5. ASSUME TunnelReject PROVE AllowedOnTheWay'
  <2>1. held["tunnel_read"] # NULL
      BY <1>5 DEF TunnelReject, HeldByPC, Writers
  <2>2. pc'["tunnel_read"] = "read"
      BY <1>5, <1>a DEF TunnelReject, Goto, TypeOK
  <2> QED BY <1>2, <1>5, <1>a, <2>1, <2>2 DEF TunnelReject
<1>6. ASSUME NEW d \in Directions, Push(d) PROVE AllowedOnTheWay'
  <2>1. CASE pointer_fifo_is_full(fifo[d])
      BY <1>0, <1>a, <1>6, <2>1, PushFails, Ends DEF Goto, TypeOK
  <2>2. CASE ~pointer_fifo_is_full(fifo[d])
    <3> DEFINE p == held[Writer(d)]
    <3>1. /\ p \in Pointers
          /\ fifo' = [fifo EXCEPT ![d] = pointer_fifo_push(fifo[d], p).fifo]
          /\ held' = [held EXCEPT ![Writer(d)] = NULL]
          /\ pc' = [pc EXCEPT ![Writer(d)] = "signal"]
          /\ heap' = heap
          /\ pc[Writer(d)] = "push"
        BY <1>6, <2>2, PushSucceeds DEF Goto
    <3>2. p \notin Queued(d)
        BY Ends DEF SingleOwner
    <3>3. /\ Queued(d)' = Queued(d) \cup {p}
          /\ \A e \in Directions \ {d} : Queued(e)' = Queued(e)
        BY <2>2, <3>1, <3>2, PushStored DEF Queued, TypeOK, SingleOwner
    <3>4. d \in {"tx", "rx"}
        BY DEF Directions
    <3> QED BY <1>a, <3>1, <3>3, <3>4
            DEF AllowedOnTheWay, OnlyAllowedFramesLeave, TypeOK
  <2> QED BY <2>1, <2>2
<1>7. ASSUME NEW d \in Directions, TryPop(d) PROVE AllowedOnTheWay'
  <2>1. CASE pointer_fifo_is_empty(fifo[d])
      BY <1>0, <1>a, <1>7, <2>1, TryPopFails, Ends DEF Goto, TypeOK, Readers, Writers
  <2>2. CASE ~pointer_fifo_is_empty(fifo[d])
    <3> DEFINE r == pointer_fifo_pop(fifo[d])
    <3>1. /\ fifo' = [fifo EXCEPT ![d] = r.fifo]
          /\ held' = [held EXCEPT ![Reader(d)] = r.result]
          /\ pc' = [pc EXCEPT ![Reader(d)] = "ui_count"]
          /\ heap' = heap
        BY <1>7 DEF TryPop, Goto
    <3>2. /\ r.result \in Queued(d)
          /\ Queued(d)' = Queued(d) \ {r.result}
          /\ \A e \in Directions \ {d} : Queued(e)' = Queued(e)
        BY <2>2, <3>1, PopStored DEF Queued, TypeOK, SingleOwner
    <3>3. d \in {"tx", "rx"}
        BY DEF Directions
    <3> HIDE DEF r
    <3> QED BY <1>a, <3>1, <3>2, <3>3
            DEF AllowedOnTheWay, OnlyAllowedFramesLeave, TypeOK
  <2> QED BY <2>1, <2>2
<1>8. ASSUME NEW d \in Directions, Use(d) PROVE AllowedOnTheWay'
  <2>1. Reader(d) \in Threads /\ held[Reader(d)] # NULL /\ Reader(d) # "tunnel_read"
      BY <1>8, <1>a, Ends DEF Use, HeldByPC, Writers, Readers
  <2>2. pc'["tunnel_read"] = pc["tunnel_read"]
      BY <1>8, <1>a, <2>1 DEF Use, Goto, TypeOK
  <2> QED BY <1>2, <1>8, <2>1, <2>2 DEF Use
<1>9. ASSUME ResetTx \/ ResetRx PROVE AllowedOnTheWay'
  <2>1. Queued("tx")' \subseteq Queued("tx")
      BY <1>9, ClearStored DEF ResetTx, ResetRx, Queued, TypeOK, Directions
  <2>2. UNCHANGED <<heap, held>> /\ pc'["tunnel_read"] = pc["tunnel_read"]
      BY <1>9, <1>a DEF ResetTx, ResetRx, Goto, TypeOK
  <2> QED BY <2>1, <2>2 DEF AllowedOnTheWay, OnlyAllowedFramesLeave
<1>10. ASSUME NEW d \in Directions,
              Signal(d) \/ ReadIsEmpty(d) \/ CondWait(d) \/ SpuriousWakeup(d)
       PROVE  AllowedOnTheWay'
  <2>1. pc'["tunnel_read"] = "push" => pc["tunnel_read"] = "push"
      BY <1>10, <1>a, Ends
         DEF Signal, ReadIsEmpty, CondWait, SpuriousWakeup, Goto, TypeOK, Readers, Writers
  <2> QED BY <1>0, <1>10, <2>1 DEF Signal, ReadIsEmpty, CondWait, SpuriousWakeup
<1>11. ASSUME HasNext PROVE AllowedOnTheWay'
    BY <1>0, <1>11, <1>a DEF HasNext, Goto, TypeOK
<1>12. ASSUME NEW t \in Threads, UiCount(t) PROVE AllowedOnTheWay'
    BY <1>0, <1>12, <1>a DEF UiCount, Goto, TypeOK
<1>13. ASSUME NEW t \in Threads, UiShow(t) PROVE AllowedOnTheWay'
  <2>1. pc'["tunnel_read"] = "push" => pc["tunnel_read"] = "push" /\ t # "tunnel_read"
      BY <1>13, <1>a, LoopStartType DEF UiShow, Goto, TypeOK, Writers, Readers
  <2>2. /\ held'["link_tx"] \in {held["link_tx"], NULL}
        /\ t # "tunnel_read" => held'["tunnel_read"] = held["tunnel_read"]
      BY <1>13, <1>a DEF UiShow, TypeOK
  <2> QED BY <1>0, <1>13, <2>1, <2>2 DEF UiShow
<1>14. CASE UNCHANGED vars
    BY <1>0, <1>14 DEF vars
<1> QED BY <1>3, <1>4, <1>5, <1>6, <1>7, <1>8, <1>9, <1>10, <1>11, <1>12, <1>13, <1>14
        DEF Next, WriterStep, ReaderStep, UpdateUi

(* The inductive invariant holds. *)
THEOREM Invariant == Spec => []IndInv
<1>1. Init => IndInv
  <2>1. Init => AllowedOnTheWay
    <3> SUFFICES ASSUME Init PROVE AllowedOnTheWay
        OBVIOUS
    <3>1. Queued("tx") = {}
        BY NewFifo DEF Init, Queued, Stored, Directions
    <3>2. /\ pc["tunnel_read"] # "push"
          /\ held["link_tx"] = NULL
        BY LoopStartType DEF Init, Threads, Writers
    <3> QED BY <3>1, <3>2 DEF AllowedOnTheWay, OnlyAllowedFramesLeave
  <2> QED BY <2>1, TypeInit, OwnerInit DEF IndInv, Owned
<1>2. IndInv /\ [Next]_vars => IndInv'
    BY TypeStep, OwnerStep, AllowedStep DEF IndInv, Owned
<1> QED BY <1>1, <1>2, PTL DEF Spec

(* What the tunnel's filter refuses never reaches the link module. *)
THEOREM FilterHolds == Spec => []OnlyAllowedFramesLeave
<1>1. IndInv => OnlyAllowedFramesLeave
    BY DEF IndInv, AllowedOnTheWay
<1> QED BY <1>1, Invariant, PTL

-----------------------------------------------------------------------------
(***************************************************************************)
(* Refinement: the pipe is two bounded FIFO queues.                        *)
(***************************************************************************)

(* The refinement mapping. *)
QueueOf == [d \in Directions |-> Contents(fifo[d])]
OfferedOf == [d \in Directions |->
                 IF pc[Writer(d)] = "push" THEN held[Writer(d)] ELSE NULL]
DeliveredOf == [d \in Directions |-> held[Reader(d)]]

(* A step that leaves the mapped variables alone is a stuttering step. *)
LEMMA Stutters ==
    ASSUME QueueOf' = QueueOf, OfferedOf' = OfferedOf, DeliveredOf' = DeliveredOf
    PROVE  [Channel!Next]_Channel!vars
BY DEF QueueOf, OfferedOf, DeliveredOf, Channel!vars

(* An address that is not allocated, or that only one writer has in hand, is
   not in use in the queues. *)
LEMMA FreshFrame ==
    ASSUME IndInv, NEW f \in Pointers,
           \A e \in Directions : f \notin Queued(e),
           \A e \in Directions : pc[Writer(e)] = "push" => held[Writer(e)] # f,
           \A e \in Directions : held[Reader(e)] # f
    PROVE  f \notin Channel!InUse
<1>1. \A e \in Directions : Channel!InQueue(e) = Queued(e)
  <2> SUFFICES ASSUME NEW e \in Directions PROVE Channel!InQueue(e) = Queued(e)
      OBVIOUS
  <2>1. [d \in Directions |-> Contents(fifo[d])][e] = Contents(fifo[e])
      OBVIOUS
  <2>2. fifo[e] \in Fifos
      BY DEF IndInv, TypeOK
  <2> QED BY <2>1, <2>2, ContentsRange DEF Channel!InQueue, Queued
<1>2. f \notin UNION {Channel!InQueue(e) : e \in Directions}
    BY <1>1
<1>3. \A e \in Directions :
          (IF pc[Writer(e)] = "push" THEN held[Writer(e)] ELSE NULL) # f
    BY NullAssumption
<1> QED BY <1>2, <1>3 DEF Channel!InUse

LEMMA ChannelInit == Init => Channel!Init
<1> SUFFICES ASSUME Init PROVE Channel!Init
    OBVIOUS
<1>1. \A d \in Directions : Contents(fifo[d]) = << >>
    BY NewFifo DEF Init
<1>2. \A d \in Directions : pc[Writer(d)] # "push" /\ held[Reader(d)] = NULL
    BY LoopStartType, Ends DEF Init
<1> QED BY <1>1, <1>2 DEF Channel!Init

(* Every step of the pipe is a step of the queues, or leaves them alone. *)
LEMMA ChannelStep ==
    IndInv /\ [Next]_vars => [Channel!Next]_Channel!vars
<1> SUFFICES ASSUME IndInv, [Next]_vars PROVE [Channel!Next]_Channel!vars
    OBVIOUS
<1> USE Roles
<1>a. /\ \A d \in Directions : d = "tx" \/ d = "rx"
      /\ "tx" \in Directions /\ "rx" \in Directions
      /\ Reader("tx") = "link_tx" /\ Writer("tx") = "tunnel_read"
      /\ Reader("rx") = "tunnel_write" /\ Writer("rx") = "link_rx"
    BY DEF Directions, Reader, Writer
<1>b. TypeOK /\ HeldByPC /\ SingleOwner /\ NoDanglingFrame
    BY DEF IndInv
<1>1. ASSUME NEW f \in Pointers, NEW h \in Headers, TunnelRead(f, h)
      PROVE  [Channel!Next]_Channel!vars
  <2>1. QueueOf' = QueueOf
      BY <1>1 DEF TunnelRead, QueueOf
  <2>2. OfferedOf' = OfferedOf
      BY <1>1, <1>a, <1>b DEF TunnelRead, pigeon_frame_new, Goto, OfferedOf, TypeOK, Threads
  <2>3. DeliveredOf' = DeliveredOf
      BY <1>1, <1>a, <1>b DEF TunnelRead, pigeon_frame_new, DeliveredOf, TypeOK, Threads
  <2> QED BY <2>1, <2>2, <2>3, Stutters
<1>2. ASSUME NEW f \in Pointers, NEW h \in Headers, LinkReceive(f, h)
      PROVE  [Channel!Next]_Channel!vars
  <2>1. QueueOf' = QueueOf
      BY <1>2 DEF LinkReceive, QueueOf
  <2>2. OfferedOf' = [OfferedOf EXCEPT !["rx"] = f] /\ OfferedOf["rx"] = NULL
      BY <1>2, <1>a, <1>b
         DEF LinkReceive, pigeon_frame_new, Goto, OfferedOf, TypeOK, Threads
  <2>3. DeliveredOf' = DeliveredOf
      BY <1>2, <1>a, <1>b DEF LinkReceive, pigeon_frame_new, DeliveredOf, TypeOK, Threads
  <2>4. f \notin Channel!InUse
    <3>1. heap[f] = NULL
        BY <1>2 DEF LinkReceive, pigeon_frame_new
    <3> QED BY <1>b, <3>1, FreshFrame, Ends, NullAssumption DEF NoDanglingFrame
  <2>5. Channel!Offer("rx", f)
      BY <2>1, <2>2, <2>3, <2>4 DEF Channel!Offer, QueueOf, OfferedOf, DeliveredOf
  <2> QED BY <1>a, <2>5 DEF Channel!Next
<1>3. ASSUME TunnelAllow PROVE [Channel!Next]_Channel!vars
  <2> DEFINE f == held["tunnel_read"]
  <2>1. QueueOf' = QueueOf
      BY <1>3 DEF TunnelAllow, QueueOf
  <2>2. OfferedOf' = [OfferedOf EXCEPT !["tx"] = f] /\ OfferedOf["tx"] = NULL
      BY <1>3, <1>a, <1>b DEF TunnelAllow, Goto, OfferedOf, TypeOK, Threads
  <2>3. DeliveredOf' = DeliveredOf
      BY <1>3 DEF TunnelAllow, DeliveredOf
  <2>4. f \in Pointers
      BY <1>3, <1>b DEF TunnelAllow, TypeOK, HeldByPC, Writers, Threads
  <2>5. f \notin Channel!InUse
    <3>1. \A e \in Directions : f \notin Queued(e)
        BY <1>b DEF SingleOwner, Threads
    <3>2. \A e \in Directions : pc[Writer(e)] = "push" => held[Writer(e)] # f
        BY <1>3, <1>a, <1>b, <2>4, NullAssumption DEF TunnelAllow, SingleOwner, Threads
    <3>3. \A e \in Directions : held[Reader(e)] # f
        BY <1>a, <1>b, <2>4, NullAssumption DEF SingleOwner, Threads
    <3> QED BY <2>4, <3>1, <3>2, <3>3, FreshFrame
  <2>6. Channel!Offer("tx", f)
      BY <2>1, <2>2, <2>3, <2>5 DEF Channel!Offer, QueueOf, OfferedOf, DeliveredOf
  <2> QED BY <1>a, <2>4, <2>6 DEF Channel!Next
<1>4. ASSUME TunnelReject PROVE [Channel!Next]_Channel!vars
  <2>1. QueueOf' = QueueOf
      BY <1>4 DEF TunnelReject, QueueOf
  <2>2. OfferedOf' = OfferedOf
      BY <1>4, <1>a, <1>b DEF TunnelReject, Goto, OfferedOf, TypeOK, Threads
  <2>3. DeliveredOf' = DeliveredOf
      BY <1>4, <1>a, <1>b DEF TunnelReject, DeliveredOf, TypeOK, Threads
  <2> QED BY <2>1, <2>2, <2>3, Stutters
<1>5. ASSUME NEW d \in Directions, Push(d) PROVE [Channel!Next]_Channel!vars
  <2>1. CASE pointer_fifo_is_full(fifo[d])
    <3>1. /\ pc[Writer(d)] = "push"
          /\ fifo' = fifo /\ held' = held
          /\ pc' = [pc EXCEPT ![Writer(d)] = "ui_count"]
        BY <1>5, <1>b, <2>1, PushFails DEF Goto
    <3>2. QueueOf' = QueueOf /\ DeliveredOf' = DeliveredOf
        BY <3>1 DEF QueueOf, DeliveredOf
    <3>3. OfferedOf' = [OfferedOf EXCEPT ![d] = NULL] /\ OfferedOf[d] # NULL
        <4>1. Writer(d) \in Writers /\ Writer(d) \in DOMAIN pc
            BY <1>b, Ends DEF TypeOK
        <4>2. held[Writer(d)] # NULL
            BY <1>b, <3>1, <4>1 DEF HeldByPC
        <4>3. OfferedOf[d] # NULL
            BY <3>1, <4>2, Zenon DEF OfferedOf
        <4>4. \A e \in Directions \ {d} : pc'[Writer(e)] = pc[Writer(e)]
            BY <3>1 DEF Directions, Writer
        <4>5. pc'[Writer(d)] # "push"
            BY <3>1, <4>1
        <4>6. \A e \in Directions :
                  (IF pc'[Writer(e)] = "push" THEN held'[Writer(e)] ELSE NULL)
                      = IF e = d THEN NULL ELSE OfferedOf[e]
            BY <3>1, <4>4, <4>5 DEF OfferedOf
        <4> QED BY <4>3, <4>6 DEF OfferedOf
    <3>4. Len(QueueOf[d]) = Size - 1
        BY <1>b, <2>1, ContentsSlots DEF QueueOf, pointer_fifo_is_full, TypeOK
    <3>5. Channel!Overflow(d)
        BY <3>2, <3>3, <3>4 DEF Channel!Overflow, QueueOf, OfferedOf, DeliveredOf
    <3> QED BY <3>5 DEF Channel!Next
  <2>2. CASE ~pointer_fifo_is_full(fifo[d])
    <3> DEFINE p == held[Writer(d)]
    <3>1. /\ pc[Writer(d)] = "push"
          /\ p \in Pointers
          /\ fifo' = [fifo EXCEPT ![d] = pointer_fifo_push(fifo[d], p).fifo]
          /\ held' = [held EXCEPT ![Writer(d)] = NULL]
          /\ pc' = [pc EXCEPT ![Writer(d)] = "signal"]
        BY <1>5, <1>b, <2>2, PushSucceeds DEF Goto
    <3>2. OfferedOf[d] = p /\ p # NULL
        BY <3>1, NullAssumption DEF OfferedOf
    <3>3. OfferedOf' = [OfferedOf EXCEPT ![d] = NULL]
        BY <1>a, <1>b, <3>1, Ends DEF OfferedOf, TypeOK, Threads
    <3>4. DeliveredOf' = DeliveredOf
        BY <1>a, <1>b, <3>1 DEF DeliveredOf, TypeOK, Threads
    <3>5. /\ Contents(fifo'[d]) = Append(Contents(fifo[d]), p)
          /\ Len(Contents(fifo[d])) < Size - 1
        BY <1>b, <2>2, <3>1, PushAppends DEF TypeOK
    <3>6. QueueOf' = [QueueOf EXCEPT ![d] = Append(QueueOf[d], p)]
        BY <1>b, <3>1, <3>5 DEF QueueOf, TypeOK
    <3>7. Len(QueueOf[d]) < Size - 1
        BY <3>5 DEF QueueOf
    <3>8. Channel!Transfer(d)
        BY <3>2, <3>3, <3>4, <3>6, <3>7
           DEF Channel!Transfer, QueueOf, OfferedOf, DeliveredOf
    <3> QED BY <3>8 DEF Channel!Next
  <2> QED BY <2>1, <2>2
<1>6. ASSUME NEW d \in Directions, TryPop(d) PROVE [Channel!Next]_Channel!vars
  <2>1. OfferedOf' = OfferedOf
      BY <1>6, <1>a, <1>b DEF TryPop, Goto, OfferedOf, TypeOK, Threads
  <2>2. CASE pointer_fifo_is_empty(fifo[d])
    <3>1. QueueOf' = QueueOf /\ DeliveredOf' = DeliveredOf
        BY <1>6, <1>b, <2>2, TryPopFails DEF QueueOf, DeliveredOf
    <3> QED BY <2>1, <3>1, Stutters
  <2>3. CASE ~pointer_fifo_is_empty(fifo[d])
    <3> DEFINE r == pointer_fifo_pop(fifo[d])
    <3>1. /\ pc[Reader(d)] = "try_pop"
          /\ fifo' = [fifo EXCEPT ![d] = r.fifo]
          /\ held' = [held EXCEPT ![Reader(d)] = r.result]
        BY <1>6 DEF TryPop
    <3>2. /\ Contents(fifo[d]) # << >>
          /\ r.result = Head(Contents(fifo[d]))
          /\ Contents(r.fifo) = Tail(Contents(fifo[d]))
        BY <1>b, <2>3, PopRemovesHead DEF TypeOK
    <3> HIDE DEF r
    <3>3. DeliveredOf[d] = NULL
        BY <1>b, <3>1, Ends DEF DeliveredOf, HeldByPC
    <3>4. DeliveredOf' = [DeliveredOf EXCEPT ![d] = Head(QueueOf[d])]
        BY <1>a, <1>b, <3>1, <3>2 DEF DeliveredOf, QueueOf, TypeOK, Threads
    <3>5. QueueOf' = [QueueOf EXCEPT ![d] = Tail(QueueOf[d])] /\ QueueOf[d] # << >>
        BY <1>b, <3>1, <3>2 DEF QueueOf, TypeOK
    <3>6. Channel!Deliver(d)
        BY <2>1, <3>3, <3>4, <3>5 DEF Channel!Deliver, QueueOf, OfferedOf, DeliveredOf
    <3> QED BY <3>6 DEF Channel!Next
  <2> QED BY <2>2, <2>3
<1>7. ASSUME NEW d \in Directions, Use(d) PROVE [Channel!Next]_Channel!vars
  <2>1. QueueOf' = QueueOf
      BY <1>7 DEF Use, QueueOf
  <2>2. OfferedOf' = OfferedOf
      BY <1>7, <1>a, <1>b DEF Use, Goto, OfferedOf, TypeOK, Threads
  <2>3. DeliveredOf[d] # NULL /\ DeliveredOf' = [DeliveredOf EXCEPT ![d] = NULL]
    <3>1. pc[Reader(d)] = "use" /\ held' = [held EXCEPT ![Reader(d)] = NULL]
        BY <1>7 DEF Use
    <3>2. DeliveredOf[d] # NULL
        BY <1>b, <3>1, Ends DEF DeliveredOf, HeldByPC
    <3>3. DeliveredOf' = [DeliveredOf EXCEPT ![d] = NULL]
        BY <1>a, <1>b, <3>1 DEF DeliveredOf, TypeOK, Threads
    <3> QED BY <3>2, <3>3
  <2>4. Channel!Release(d)
      BY <2>1, <2>2, <2>3 DEF Channel!Release, QueueOf, OfferedOf, DeliveredOf
  <2> QED BY <2>4 DEF Channel!Next
<1>8. ASSUME NEW d \in Directions,
             fifo' = [fifo EXCEPT ![d] = pointer_fifo_clear(fifo[d])],
             held' = held, NEW l, pc' = [pc EXCEPT !["controls"] = l]
      PROVE  [Channel!Next]_Channel!vars
  <2>1. QueueOf' = [QueueOf EXCEPT ![d] = << >>]
      BY <1>8, <1>b, ClearSlots DEF QueueOf, TypeOK
  <2>2. OfferedOf' = OfferedOf /\ DeliveredOf' = DeliveredOf
      BY <1>8, <1>a, <1>b DEF OfferedOf, DeliveredOf, TypeOK, Threads
  <2>3. Channel!Clear(d)
      BY <2>1, <2>2 DEF Channel!Clear, QueueOf, OfferedOf, DeliveredOf
  <2> QED BY <2>3 DEF Channel!Next
<1>9. ASSUME ResetTx \/ ResetRx PROVE [Channel!Next]_Channel!vars
    BY <1>8, <1>9, <1>a DEF ResetTx, ResetRx, Goto
<1>10. ASSUME UNCHANGED <<fifo, held>>,
              \A d \in Directions : pc'[Writer(d)] = "push" <=> pc[Writer(d)] = "push"
       PROVE  [Channel!Next]_Channel!vars
  <2>1. QueueOf' = QueueOf /\ OfferedOf' = OfferedOf /\ DeliveredOf' = DeliveredOf
      BY <1>10 DEF QueueOf, OfferedOf, DeliveredOf
  <2> QED BY <2>1, Stutters
<1>11. ASSUME NEW d \in Directions,
              Signal(d) \/ ReadIsEmpty(d) \/ CondWait(d) \/ SpuriousWakeup(d)
       PROVE  [Channel!Next]_Channel!vars
  <2>1. \A e \in Directions : pc'[Writer(e)] = "push" <=> pc[Writer(e)] = "push"
      BY <1>11, <1>a, <1>b
         DEF Signal, ReadIsEmpty, CondWait, SpuriousWakeup, Goto, TypeOK, Threads
  <2> QED BY <1>10, <1>11, <2>1 DEF Signal, ReadIsEmpty, CondWait, SpuriousWakeup
<1>12. ASSUME HasNext PROVE [Channel!Next]_Channel!vars
    BY <1>10, <1>12, <1>a, <1>b DEF HasNext, Goto, TypeOK, Threads
<1>13. ASSUME NEW t \in Threads, UiCount(t) PROVE [Channel!Next]_Channel!vars
    BY <1>10, <1>13, <1>b, Ends DEF UiCount, Goto, TypeOK
<1>14. ASSUME NEW t \in Threads, UiShow(t) PROVE [Channel!Next]_Channel!vars
  <2>1. QueueOf' = QueueOf
      BY <1>14 DEF UiShow, QueueOf
  <2>2. \A u \in Threads : u # t => held'[u] = held[u] /\ pc'[u] = pc[u]
      BY <1>14, <1>b DEF UiShow, Goto, TypeOK
  <2>3. t \in Readers => held'[t] = held[t]
      BY <1>14, <1>b DEF UiShow, TypeOK
  <2>4. t \in Writers => pc[t] # "push" /\ pc'[t] # "push"
      BY <1>14, <1>b, LoopStartType DEF UiShow, Goto, TypeOK
  <2>5. OfferedOf' = OfferedOf
      BY <2>2, <2>4, Ends DEF OfferedOf
  <2>6. DeliveredOf' = DeliveredOf
      BY <2>2, <2>3, Ends DEF DeliveredOf
  <2> QED BY <2>1, <2>5, <2>6, Stutters
<1>15. CASE UNCHANGED vars
    BY <1>10, <1>15 DEF vars
<1> QED BY <1>1, <1>2, <1>3, <1>4, <1>5, <1>6, <1>7, <1>9, <1>11, <1>12, <1>13, <1>14, <1>15
        DEF Next, WriterStep, ReaderStep, UpdateUi

(* The pipe implements the two bounded FIFO queues of FrameChannel: frames
   come out in the order they went in, none twice, and one is lost only if
   the queue was full when it was pushed, or by a reset. *)
THEOREM PipeImplementsChannel == Spec => ImplementsChannel
<1> SUFFICES Spec => Channel!Spec
    BY DEF ImplementsChannel
<1> QED BY Invariant, ChannelInit, ChannelStep, PTL DEF Spec, Channel!Spec

-----------------------------------------------------------------------------
(***************************************************************************)
(* Without the joystick nobody empties a buffer behind its one reader.     *)
(***************************************************************************)

(* A fifo is empty when no slot is in use. *)
LEMMA EmptySlots ==
    ASSUME NEW q \in Fifos
    PROVE  pointer_fifo_is_empty(q) <=> LiveSlots(q) = {}
<1>1. /\ q.head \in Slots /\ q.tail \in Slots
      /\ \A i \in Slots : i \in Int
    BY SizeAssumption DEF Fifos, Slots
<1>2. pointer_fifo_is_empty(q) <=> q.head = q.tail
    BY CountRange DEF pointer_fifo_is_empty
<1>3. q.head = q.tail => LiveSlots(q) = {}
    BY <1>1 DEF LiveSlots
<1>4. q.head # q.tail => q.tail \in LiveSlots(q)
    BY <1>1 DEF LiveSlots
<1> QED BY <1>2, <1>3, <1>4

(* Once the reader has seen a frame it is there until the reader takes it out;
   linkmod_files sees one before it calls pop. *)
Undisturbed ==
    /\ pc["controls"] = "poll"
    /\ \A d \in Directions :
           pc[Reader(d)] = "try_pop" => ~pointer_fifo_is_empty(fifo[d])
    /\ PopReturnsFrame
    /\ LinkTx = "files" =>
           /\ pc["link_tx"] \notin {"cond_wait", "asleep"}
           /\ pc["link_tx"] = "is_empty" => ~pointer_fifo_is_empty(fifo["tx"])

(* A new buffer is empty, and no reader is in pop. *)
LEMMA UndisturbedInit == Init => Undisturbed
<1> SUFFICES ASSUME Init PROVE Undisturbed
    OBVIOUS
<1>1. /\ \A d \in Directions : pc[Reader(d)] \in {"has_next", "is_empty"}
      /\ pc["controls"] = "poll"
    BY LoopStartType, Ends DEF Init
<1>2. LinkTx = "files" => pc["link_tx"] = "has_next"
    BY DEF Init, LoopStart, Threads
<1> QED BY <1>1, <1>2 DEF Undisturbed, PopReturnsFrame

(* Every step keeps it so. *)
LEMMA UndisturbedStep ==
    ASSUME ~HasJoystick, IndInv, Undisturbed, [Next]_vars
    PROVE  Undisturbed'
<1> USE Roles DEF IndInv
<1>a. /\ "tx" \in Directions /\ Reader("tx") = "link_tx"
      /\ \A d \in Directions : Reader(d) = "link_tx" <=> d = "tx"
      /\ \A d, e \in Directions : Reader(d) = Reader(e) => d = e
      /\ \A d \in Directions : Reader(d) \in Readers /\ Reader(d) \in Threads
                               /\ Reader(d) # "controls"
      /\ "controls" \in Threads
    BY DEF Directions, Reader, Readers, Threads
<1>b. \A d \in Directions : fifo[d] \in Fifos /\ fifo'[d] \in Fifos
    BY TypeStep DEF TypeOK
<1>0. ASSUME \A d \in Directions :
                 ~pointer_fifo_is_empty(fifo[d]) => ~pointer_fifo_is_empty(fifo'[d]),
             \A d \in Directions : /\ pc'[Reader(d)] = pc[Reader(d)]
                                   /\ held'[Reader(d)] = held[Reader(d)],
             pc'["controls"] = pc["controls"]
      PROVE  Undisturbed'
    BY <1>0, <1>a DEF Undisturbed, PopReturnsFrame
<1>1. ASSUME NEW e \in Directions, NEW l, pc' = [pc EXCEPT ![Reader(e)] = l],
             UNCHANGED <<fifo, held>>,
             l = "try_pop" => ~pointer_fifo_is_empty(fifo[e]),
             l \in {"ui_count", "ui_show"} => held[Reader(e)] # NULL,
             LinkTx = "files" /\ e = "tx" =>
                 /\ l \notin {"cond_wait", "asleep"}
                 /\ l = "is_empty" => ~pointer_fifo_is_empty(fifo["tx"])
      PROVE  Undisturbed'
  <2>1. /\ pc'[Reader(e)] = l /\ pc'["controls"] = pc["controls"]
        /\ \A d \in Directions : d # e => pc'[Reader(d)] = pc[Reader(d)]
      BY <1>1, <1>a DEF TypeOK
  <2>2. pc'["controls"] = "poll"
      BY <2>1 DEF Undisturbed
  <2>3. \A d \in Directions : pc'[Reader(d)] = "try_pop" => ~pointer_fifo_is_empty(fifo[d])
      BY <1>1, <2>1 DEF Undisturbed
  <2>4. \A d \in Directions : pc'[Reader(d)] \in {"ui_count", "ui_show"} => held[Reader(d)] # NULL
      BY <1>1, <2>1 DEF Undisturbed, PopReturnsFrame
  <2>5. LinkTx = "files" =>
           /\ pc'["link_tx"] \notin {"cond_wait", "asleep"}
           /\ pc'["link_tx"] = "is_empty" => ~pointer_fifo_is_empty(fifo["tx"])
      BY <1>1, <1>a, <2>1 DEF Undisturbed
  <2> QED BY <1>1, <2>2, <2>3, <2>4, <2>5 DEF Undisturbed, PopReturnsFrame
<1>2. ASSUME NEW f \in Pointers, NEW h \in Headers, TunnelRead(f, h) \/ LinkReceive(f, h)
      PROVE  Undisturbed'
    BY <1>0, <1>2, <1>a DEF TunnelRead, LinkReceive, pigeon_frame_new, Goto, TypeOK, Readers
<1>3. ASSUME TunnelAllow \/ TunnelReject PROVE Undisturbed'
    BY <1>0, <1>3, <1>a DEF TunnelAllow, TunnelReject, Goto, TypeOK, Readers
<1>4. ASSUME NEW e \in Directions, Push(e) PROVE Undisturbed'
  <2>1. Writer(e) \in Writers /\ \A d \in Directions : Reader(d) # Writer(e)
      BY Ends, <1>a
  <2>2. CASE pointer_fifo_is_full(fifo[e])
      BY <1>0, <1>a, <1>4, <2>1, <2>2, PushFails DEF Goto, TypeOK
  <2>3. CASE ~pointer_fifo_is_full(fifo[e])
    <3> DEFINE p == held[Writer(e)]
    <3>1. /\ p \in Pointers
          /\ fifo' = [fifo EXCEPT ![e] = pointer_fifo_push(fifo[e], p).fifo]
          /\ held' = [held EXCEPT ![Writer(e)] = NULL]
          /\ pc' = [pc EXCEPT ![Writer(e)] = "signal"]
        BY <1>4, <2>3, PushSucceeds DEF Goto
    <3>2. LiveSlots(pointer_fifo_push(fifo[e], p).fifo) # {}
      <4>1. ASSUME NEW q \in Fifos, ~pointer_fifo_is_full(q)
            PROVE  LiveSlots(pointer_fifo_push(q, p).fifo) = LiveSlots(q) \cup {q.head}
          BY <3>1, <4>1, PushSlots
      <4>2. LiveSlots(pointer_fifo_push(fifo[e], p).fifo) = LiveSlots(fifo[e]) \cup {fifo[e].head}
          BY <1>b, <2>3, <4>1
      <4> QED BY <4>2
    <3>3. fifo'[e] = pointer_fifo_push(fifo[e], p).fifo
          /\ \A d \in Directions : d # e => fifo'[d] = fifo[d]
        BY <3>1 DEF TypeOK
    <3>4. ~pointer_fifo_is_empty(fifo'[e])
        BY <1>b, <3>2, <3>3, EmptySlots
    <3>5. /\ pc'["controls"] = pc["controls"]
          /\ \A d \in Directions : /\ pc'[Reader(d)] = pc[Reader(d)]
                                   /\ held'[Reader(d)] = held[Reader(d)]
        BY <1>a, <2>1, <3>1 DEF TypeOK
    <3> QED BY <1>0, <3>3, <3>4, <3>5
  <2> QED BY <2>2, <2>3
<1>5. ASSUME NEW e \in Directions, Signal(e) PROVE Undisturbed'
  <2>1. Writer(e) \in Writers /\ \A d \in Directions : Reader(d) # Writer(e)
      BY Ends, <1>a
  <2>2. /\ pc' = [pc EXCEPT ![Writer(e)] = "ui_count",
                            ![Reader(e)] = IF @ = "asleep" THEN "is_empty" ELSE @]
        /\ UNCHANGED <<fifo, held>>
      BY <1>5 DEF Signal
  <2>3. /\ \A d \in Directions : d # e => pc'[Reader(d)] = pc[Reader(d)]
        /\ pc'[Reader(e)] = IF pc[Reader(e)] = "asleep" THEN "is_empty" ELSE pc[Reader(e)]
        /\ pc'["controls"] = pc["controls"]
      BY <1>a, <2>1, <2>2 DEF TypeOK
  <2>4. LinkTx = "files" => pc'["link_tx"] = pc["link_tx"]
      BY <1>a, <2>3 DEF Undisturbed
  <2>5. pc'["controls"] = "poll"
      BY <2>3 DEF Undisturbed
  <2>6. \A d \in Directions : pc'[Reader(d)] = pc[Reader(d)] \/ pc'[Reader(d)] = "is_empty"
      BY <2>3
  <2>7. \A d \in Directions : pc'[Reader(d)] = "try_pop" => ~pointer_fifo_is_empty(fifo[d])
      BY <2>6 DEF Undisturbed
  <2>8. \A d \in Directions : pc'[Reader(d)] \in {"ui_count", "ui_show"} => held[Reader(d)] # NULL
      BY <2>6 DEF Undisturbed, PopReturnsFrame
  <2>9. LinkTx = "files" =>
           /\ pc'["link_tx"] \notin {"cond_wait", "asleep"}
           /\ pc'["link_tx"] = "is_empty" => ~pointer_fifo_is_empty(fifo["tx"])
      BY <2>4 DEF Undisturbed
  <2> QED BY <2>2, <2>5, <2>7, <2>8, <2>9 DEF Undisturbed, PopReturnsFrame
<1>6. ASSUME HasNext PROVE Undisturbed'
    BY <1>1, <1>6, <1>a DEF HasNext, Goto
<1>7. ASSUME NEW e \in Directions, ReadIsEmpty(e) PROVE Undisturbed'
  <2>1. LinkTx = "files" /\ e = "tx" => ~pointer_fifo_is_empty(fifo["tx"])
      BY <1>7, <1>a DEF ReadIsEmpty, Undisturbed
  <2> QED BY <1>1, <1>7, <2>1 DEF ReadIsEmpty, Goto
<1>8. ASSUME NEW e \in Directions, CondWait(e) \/ SpuriousWakeup(e) PROVE Undisturbed'
  <2>1. ~(LinkTx = "files" /\ e = "tx")
      BY <1>8, <1>a DEF CondWait, SpuriousWakeup, Undisturbed
  <2> QED BY <1>1, <1>8, <2>1 DEF CondWait, SpuriousWakeup, Goto
<1>9. ASSUME NEW e \in Directions, TryPop(e) PROVE Undisturbed'
  <2> DEFINE r == pointer_fifo_pop(fifo[e])
  <2>1. ~pointer_fifo_is_empty(fifo[e])
      BY <1>9 DEF TryPop, Undisturbed
  <2>2. /\ fifo' = [fifo EXCEPT ![e] = r.fifo]
        /\ held' = [held EXCEPT ![Reader(e)] = r.result]
        /\ pc' = [pc EXCEPT ![Reader(e)] = "ui_count"]
      BY <1>9 DEF TryPop, Goto
  <2>3. r.result \in Queued(e)
      BY <1>b, <2>1, PopStored DEF Queued, SingleOwner
  <2>4. r.result # NULL
      BY <2>3, NullAssumption DEF NoDanglingFrame
  <2> HIDE DEF r
  <2>5. /\ \A d \in Directions : d # e => /\ pc'[Reader(d)] = pc[Reader(d)]
                                          /\ held'[Reader(d)] = held[Reader(d)]
                                          /\ fifo'[d] = fifo[d]
        /\ pc'["controls"] = pc["controls"]
        /\ pc'[Reader(e)] = "ui_count" /\ held'[Reader(e)] = r.result
      BY <1>a, <2>2 DEF TypeOK
  <2>6. LinkTx = "files" =>
           /\ pc'["link_tx"] \notin {"cond_wait", "asleep"}
           /\ pc'["link_tx"] = "is_empty" => ~pointer_fifo_is_empty(fifo'["tx"])
      BY <1>a, <2>5 DEF Undisturbed
  <2>7. \A d \in Directions : pc'[Reader(d)] = "try_pop" => ~pointer_fifo_is_empty(fifo'[d])
      BY <2>5 DEF Undisturbed
  <2>8. \A d \in Directions :
            pc'[Reader(d)] \in {"ui_count", "ui_show"} => held'[Reader(d)] # NULL
      BY <2>4, <2>5 DEF Undisturbed, PopReturnsFrame
  <2>9. pc'["controls"] = "poll"
      BY <2>5 DEF Undisturbed
  <2> QED BY <2>6, <2>7, <2>8, <2>9 DEF Undisturbed, PopReturnsFrame
<1>10. ASSUME NEW e \in Directions, NEW l \in {"use", LoopStart[Reader(e)]},
              fifo' = fifo, pc' = [pc EXCEPT ![Reader(e)] = l],
              held' \in {held, [held EXCEPT ![Reader(e)] = NULL]}
       PROVE  Undisturbed'
  <2>1. /\ \A d \in Directions : d # e => /\ pc'[Reader(d)] = pc[Reader(d)]
                                          /\ held'[Reader(d)] = held[Reader(d)]
        /\ pc'["controls"] = pc["controls"] /\ pc'[Reader(e)] = l
      BY <1>10, <1>a DEF TypeOK
  <2>2. l \in {"use", "has_next", "is_empty"}
      BY <1>a, LoopStartType
  <2>3. LinkTx = "files" /\ e = "tx" => l \in {"use", "has_next"}
      BY <1>a DEF LoopStart, Threads
  <2> QED BY <1>10, <1>a, <2>1, <2>2, <2>3 DEF Undisturbed, PopReturnsFrame
<1>11. ASSUME NEW e \in Directions, Use(e) PROVE Undisturbed'
    BY <1>10, <1>11 DEF Use, Goto
<1>12. ASSUME ResetTx \/ ResetRx PROVE Undisturbed'
    BY <1>12 DEF ResetTx, ResetRx, Undisturbed
<1>13. ASSUME NEW t \in Threads, UiCount(t) PROVE Undisturbed'
  <2>1. CASE \E e \in Directions : t = Reader(e)
    <3>1. PICK e \in Directions : t = Reader(e)
        BY <2>1
    <3>2. held[Reader(e)] # NULL
        BY <1>13, <3>1 DEF UiCount, Undisturbed, PopReturnsFrame
    <3> QED BY <1>1, <1>13, <3>1, <3>2 DEF UiCount, Goto
  <2>2. CASE ~\E e \in Directions : t = Reader(e)
    <3>1. t # "controls"
        BY <1>13 DEF UiCount, Undisturbed
    <3> QED BY <1>0, <1>13, <1>a, <2>2, <3>1 DEF UiCount, Goto, TypeOK
  <2> QED BY <2>1, <2>2
<1>14. ASSUME NEW t \in Threads, UiShow(t) PROVE Undisturbed'
  <2>1. CASE \E e \in Directions : t = Reader(e)
    <3>1. PICK e \in Directions : t = Reader(e)
        BY <2>1
    <3> QED BY <1>10, <1>14, <3>1 DEF UiShow, Goto
  <2>2. CASE ~\E e \in Directions : t = Reader(e)
    <3>1. t # "controls" /\ t \notin Readers
        BY <1>14, <2>2 DEF UiShow, Undisturbed, Readers, Reader, Directions
    <3>2. fifo' = fifo /\ pc' = [pc EXCEPT ![t] = LoopStart[t]]
          /\ held' = [held EXCEPT ![t] = NULL]
        BY <1>14, <3>1 DEF UiShow, Goto
    <3> QED BY <1>0, <1>a, <2>2, <3>1, <3>2 DEF TypeOK
  <2> QED BY <2>1, <2>2
<1>15. CASE UNCHANGED vars
    BY <1>0, <1>15 DEF vars
<1> QED BY <1>2, <1>3, <1>4, <1>5, <1>6, <1>7, <1>8, <1>9, <1>11, <1>12, <1>13, <1>14, <1>15
        DEF Next, WriterStep, ReaderStep, UpdateUi

(* Without the joystick a pop whose wait is over returns a frame: the one the
   reader saw cannot be taken by anybody else. *)
THEOREM PopHasFrame == ~HasJoystick => (Spec => []PopReturnsFrame)
<1> SUFFICES ASSUME ~HasJoystick PROVE Spec => []PopReturnsFrame
    OBVIOUS
<1>1. Init => Undisturbed
    BY UndisturbedInit
<1>2. IndInv /\ Undisturbed /\ [Next]_vars => Undisturbed'
    BY UndisturbedStep
<1>3. Undisturbed => PopReturnsFrame
    BY DEF Undisturbed
<1> QED BY <1>1, <1>2, <1>3, Invariant, PTL DEF Spec

(* Without the joystick linkmod_files, which asks pigeon_link_frames_has_next
   first, never blocks in pop, so that it goes on looking at its time limit. *)
THEOREM PollingNeverBlocks == ~HasJoystick => (Spec => []PollingReaderNeverBlocks)
<1> SUFFICES ASSUME ~HasJoystick PROVE Spec => []PollingReaderNeverBlocks
    OBVIOUS
<1>1. Init => Undisturbed
    BY UndisturbedInit
<1>2. IndInv /\ Undisturbed /\ [Next]_vars => Undisturbed'
    BY UndisturbedStep
<1>3. Undisturbed => PollingReaderNeverBlocks
    BY DEF Undisturbed, PollingReaderNeverBlocks
<1> QED BY <1>1, <1>2, <1>3, Invariant, PTL DEF Spec

=============================================================================
