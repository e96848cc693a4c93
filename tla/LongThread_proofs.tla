-------------------------- MODULE LongThread_proofs --------------------------
(***************************************************************************)
(* Proofs about LongThread, for any number of callers and of threads.  An *)
(* object with a start_fn is started again only after a stop, as in the    *)
(* program (StartsOnce); one without may be started at any time.  The      *)
(* invariant says what the holder of thread_mutex can rely on at each of   *)
(* its steps.                                                              *)
(***************************************************************************)
EXTENDS LongThread, TLAPS

USE DEF Alive, Instances

(* Whatever pthread_join answers, the thread it was called for has ended or
   never was; and it changes only joined, to TRUE, for a thread that ended. *)
LEMMA JoinedHasEnded ==
    ASSUME TypeOK, NEW i \in Instances, NEW failed \in BOOLEAN, JoinReturns(i, failed),
           \A j \in Instances : joined[j] => inst[j] = "ended"
    PROVE  /\ inst[i] \in {"ended", "failed"}
           /\ joined' \in [Instances -> BOOLEAN]
           /\ \A j \in Instances : joined'[j] => inst[j] = "ended"
  BY DEF TypeOK, JoinReturns

LEMMA InvInit == Init => ThreadInv
<1> SUFFICES ASSUME Init PROVE ThreadInv
  OBVIOUS
<1>1. TypeOK
  <2>1. /\ start_fn \in BOOLEAN
        /\ thread_stop \in BOOLEAN /\ finished \in BOOLEAN
        /\ setUp \in BOOLEAN /\ started \in BOOLEAN
        /\ joined \in [Instances -> BOOLEAN]
        /\ error \in [Callers -> BOOLEAN]
    BY Zenon DEF Init
  <2>2. /\ thread \in 0 .. MaxThreads
        /\ lock \in Callers \cup {NoOne}
        /\ inst \in [Instances -> Alive \cup {"none", "failed", "ended"}]
        /\ pc \in [Callers -> {"idle", "create", "stop_join", "stop_fn", "join"}]
        /\ target \in [Callers -> 0 .. MaxThreads]
    BY MaxThreadsAssumption, SMT DEF Init
  <2> QED BY <2>1, <2>2, Zenon DEF TypeOK
<1>2. /\ \A c \in Callers : pc[c] = "idle"
      /\ \A i \in Instances : inst[i] = "none" /\ ~joined[i]
      /\ thread = 0
  BY DEF Init
<1> QED BY <1>1, <1>2 DEF ThreadInv

LEMMA InvStep ==
    ASSUME StartsOnce, ThreadInv, [Next]_vars
    PROVE  ThreadInv'
<1> USE CallersAssumption, MaxThreadsAssumption, OptionsAssumption
<1> USE DEF ThreadInv, TypeOK
<1>1. ASSUME NEW c \in Callers, StartBegin(c) PROVE ThreadInv'
  <2>1. ~start_fn => error'[c] = (thread # 0)
    BY <1>1 DEF StartBegin, SetError
  <2>2. start_fn => thread = 0
    BY <1>1 DEF StartBegin, MayStart
  <2>3. start_fn /\ ~error'[c] => setUp'
    BY <1>1, <2>2 DEF StartBegin, SetError
  <2>4. /\ setUp' \in BOOLEAN
        /\ setUp => setUp'
        /\ error' \in [Callers -> BOOLEAN]
        /\ \A b \in Callers \ {c} : error'[b] = error[b]
    <3>1. CASE ~start_fn
      <4>1. SetError(c, thread # 0) /\ UNCHANGED setUp
        BY <1>1, <3>1, Zenon DEF StartBegin
      <4>2. (thread # 0) \in BOOLEAN
        OBVIOUS
      <4>3. QED
        BY <4>1, <4>2, Zenon DEF SetError
    <3>2. CASE start_fn
      <4>1. PICK ok \in BOOLEAN : SetError(c, ~ok) /\ setUp' = (setUp \/ ok)
        BY <1>1, <2>2, <3>2 DEF StartBegin
      <4>2. QED
        BY <4>1, Zenon DEF SetError
    <3>3. QED
      BY <3>1, <3>2
  <2> QED BY <1>1, <2>1, <2>2, <2>3, <2>4 DEF StartBegin, MayStart, Goto
<1>2. ASSUME NEW c \in Callers, StartRefused(c) PROVE ThreadInv'
  BY <1>2 DEF StartRefused, Goto
<1>3. ASSUME NEW c \in Callers, NEW i \in Instances, StartCreate(c, i) PROVE ThreadInv'
  <2>1. /\ pc[c] = "create" /\ ~error[c] /\ lock = c /\ thread = 0
        /\ inst[i] = "none"
        /\ \A j \in Instances : inst[j] \notin Alive
    BY <1>3 DEF StartCreate, IsNext
  <2>2. /\ thread' = i
        /\ inst' = [inst EXCEPT ![i] = "test"]
        /\ pc' = [pc EXCEPT ![c] = "idle"]
        /\ lock' = NoOne
        /\ thread_stop' = FALSE
        /\ UNCHANGED <<start_fn, finished, setUp, started, joined, error, target>>
    BY <1>3 DEF StartCreate, Goto
  <2>3. \A b \in Callers : pc'[b] \in {"idle", "join"}
    BY <2>1, <2>2
  <2>4. TypeOK'
    <3>1. start_fn' \in BOOLEAN /\ thread_stop' \in BOOLEAN
      BY <2>2, Zenon
    <3>2. inst' \in [Instances -> Alive \cup {"none", "failed", "ended"}]
      BY <2>2, SMT
    <3>3. pc' \in [Callers -> {"idle", "create", "stop_join", "stop_fn", "join"}]
      BY <2>2, SMT
    <3>4. /\ finished' \in BOOLEAN /\ setUp' \in BOOLEAN /\ started' \in BOOLEAN
          /\ joined' \in [Instances -> BOOLEAN] /\ error' \in [Callers -> BOOLEAN]
          /\ target' \in [Callers -> 0 .. MaxThreads]
      BY <2>2, Zenon
    <3>5. thread' \in 0 .. MaxThreads /\ lock' \in Callers \cup {NoOne}
      BY <2>1, <2>2, SMT
    <3> QED BY <3>1, <3>2, <3>3, <3>4, <3>5, Zenon
  <2>5. start_fn => setUp
    BY <2>1
  <2>6. \A j \in Instances : joined[j] => j # i
    BY <2>1
  <2> QED BY <2>1, <2>2, <2>3, <2>4, <2>5, <2>6
<1>4. ASSUME NEW c \in Callers, NEW i \in Instances, StartCreateFails(c, i) PROVE ThreadInv'
  <2>1. /\ pc[c] = "create" /\ ~error[c] /\ lock = c /\ thread = 0
        /\ inst[i] = "none"
        /\ \A j \in Instances : inst[j] \notin Alive
    BY <1>4 DEF StartCreateFails, IsNext
  <2>2. /\ thread' \in {thread, i}
        /\ inst' = [inst EXCEPT ![i] = "failed"]
        /\ pc' = [pc EXCEPT ![c] = "idle"]
        /\ error' = [error EXCEPT ![c] = TRUE]
        /\ lock' = NoOne
        /\ thread_stop' = FALSE
        /\ UNCHANGED <<start_fn, finished, setUp, started, joined, target>>
    BY <1>4 DEF StartCreateFails, Goto, SetError
  <2>3. \A b \in Callers : pc'[b] \in {"idle", "join"}
    BY <2>1, <2>2
  <2>4. TypeOK'
    <3>1. start_fn' \in BOOLEAN /\ thread_stop' \in BOOLEAN
      BY <2>2, Zenon
    <3>2. inst' \in [Instances -> Alive \cup {"none", "failed", "ended"}]
      BY <2>2, SMT
    <3>3. pc' \in [Callers -> {"idle", "create", "stop_join", "stop_fn", "join"}]
      BY <2>2, SMT
    <3>4. /\ finished' \in BOOLEAN /\ setUp' \in BOOLEAN /\ started' \in BOOLEAN
          /\ joined' \in [Instances -> BOOLEAN]
          /\ target' \in [Callers -> 0 .. MaxThreads]
      BY <2>2, Zenon
    <3>6. error' \in [Callers -> BOOLEAN]
      BY <2>2, Zenon
    <3>5. thread' \in 0 .. MaxThreads /\ lock' \in Callers \cup {NoOne}
      BY <2>1, <2>2, SMT
    <3> QED BY <3>1, <3>2, <3>3, <3>4, <3>5, <3>6, Zenon
  <2>5. \A j \in Instances : inst'[j] \notin Alive
    BY <2>1, <2>2
  <2>6. \A j \in Instances : joined[j] => j # i
    BY <2>1
  <2> QED BY <2>1, <2>2, <2>3, <2>4, <2>5, <2>6
<1>5. ASSUME NEW c \in Callers, StopBegin(c) PROVE ThreadInv'
  BY <1>5 DEF StopBegin, Goto, SetError
<1>6. ASSUME NEW c \in Callers, StopJoin(c) PROVE ThreadInv'
  <2>1. PICK failed \in BOOLEAN : JoinReturns(thread, failed) /\ SetError(c, failed)
    BY <1>6 DEF StopJoin
  <2>2. thread \in Instances
    BY <1>6 DEF StopJoin
  <2>3. /\ inst[thread] \in {"ended", "failed"}
        /\ joined' \in [Instances -> BOOLEAN]
        /\ \A j \in Instances : joined'[j] => inst[j] = "ended"
    BY <2>1, <2>2, JoinedHasEnded
  <2>4. \A j \in Instances : inst[j] \notin Alive
    BY <2>3
  <2> QED BY <1>6, <2>1, <2>3, <2>4 DEF StopJoin, Goto, SetError
<1>7. ASSUME NEW c \in Callers, StopEnd(c) PROVE ThreadInv'
  <2>1. /\ error' \in [Callers -> BOOLEAN]
        /\ \A b \in Callers \ {c} : error'[b] = error[b]
        /\ setUp' \in BOOLEAN
    BY <1>7 DEF StopEnd, SetError
  <2>2. thread' = IF error'[c] THEN thread ELSE 0
    BY <1>7 DEF StopEnd
  <2>3. started' = (started /\ error'[c])
    BY <1>7 DEF StopEnd
  <2>4. \A i \in Instances : inst[i] \notin Alive
    BY <1>7 DEF StopEnd
  <2>5. \A b \in Callers \ {c} : pc[b] \notin {"create", "stop_join", "stop_fn"}
    BY <1>7 DEF StopEnd
  <2>6. /\ pc' = [pc EXCEPT ![c] = "idle"]
        /\ lock' = NoOne
        /\ UNCHANGED <<start_fn, thread_stop, finished, inst, joined, target>>
    BY <1>7 DEF StopEnd, Goto
  <2>7. \A b \in Callers : pc'[b] \in {"idle", "join"}
    BY <2>5, <2>6
  <2>8. started' \in BOOLEAN /\ (thread' # 0 => started')
    BY <2>2, <2>3
  <2>9. TypeOK'
    BY <2>1, <2>2, <2>6, <2>8
  <2> QED BY <2>4, <2>6, <2>7, <2>8, <2>9
<1>8. ASSUME NEW c \in Callers, JoinBegin(c) PROVE ThreadInv'
  BY <1>8 DEF JoinBegin, Goto
<1>9. ASSUME NEW c \in Callers, JoinEnd(c) PROVE ThreadInv'
  <2>1. PICK failed \in BOOLEAN : JoinReturns(target[c], failed)
    BY <1>9 DEF JoinEnd
  <2>2. target[c] \in Instances
    BY <1>9 DEF JoinEnd
  <2>3. /\ joined' \in [Instances -> BOOLEAN]
        /\ \A j \in Instances : joined'[j] => inst[j] = "ended"
    BY <2>1, <2>2, JoinedHasEnded
  <2> QED BY <1>9, <2>3 DEF JoinEnd, Goto
<1>10. ASSUME NEW i \in Instances, Test(i) PROVE ThreadInv'
  BY <1>10 DEF Test, Move
<1>11. ASSUME NEW i \in Instances, LoopContinue(i) PROVE ThreadInv'
  BY <1>11 DEF LoopContinue, Move
<1>12. ASSUME NEW i \in Instances, LoopStop(i) PROVE ThreadInv'
  BY <1>12 DEF LoopStop, Move
<1>13. ASSUME NEW i \in Instances, Finish(i) PROVE ThreadInv'
  BY <1>13 DEF Finish, Move
<1>14. ASSUME UNCHANGED vars PROVE ThreadInv'
  BY <1>14 DEF vars
<1> QED
  BY <1>1, <1>2, <1>3, <1>4, <1>5, <1>6, <1>7, <1>8, <1>9, <1>10, <1>11, <1>12,
     <1>13, <1>14 DEF Next, CallerStep, Run

(* The invariant of the object: what start and stop can rely on while they
   hold thread_mutex, and that the handle is the one of the running thread. *)
THEOREM ObjectInvariant ==
    ASSUME StartsOnce
    PROVE  Spec => []ThreadInv
<1>1. Init => ThreadInv
  BY InvInit
<1>2. ThreadInv /\ [Next]_vars => ThreadInv'
  BY InvStep
<1> QED BY <1>1, <1>2, PTL DEF Spec

(* No pthread runs that stop could not join: at most one is alive, and its
   handle is in the object. *)
THEOREM OneThread ==
    ASSUME StartsOnce
    PROVE  Spec => []NoOrphanThread
<1>1. ThreadInv => NoOrphanThread
  BY DEF ThreadInv, NoOrphanThread
<1> QED BY <1>1, ObjectInvariant, PTL

(* "Teardown after thread ends": stop_fn is called when no loop runs. *)
THEOREM TeardownIsLast ==
    ASSUME StartsOnce
    PROVE  Spec => []TeardownAfterThreadEnds
<1>1. ThreadInv => TeardownAfterThreadEnds
  BY DEF ThreadInv, TeardownAfterThreadEnds
<1> QED BY <1>1, ObjectInvariant, PTL

(* "Setup before thread starts", and not torn down while it runs. *)
THEOREM SetupIsFirst ==
    ASSUME StartsOnce
    PROVE  Spec => []SetUpWhileRunning
<1>1. ThreadInv => SetUpWhileRunning
  BY DEF ThreadInv, SetUpWhileRunning
<1> QED BY <1>1, ObjectInvariant, PTL

=============================================================================
