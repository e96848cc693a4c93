----------------------------- MODULE LongThread -----------------------------
(***************************************************************************)
(* long_thread.c: one LongThread object, the threads that call its start,  *)
(* stop and join, and the pthreads it creates.  start and stop run under   *)
(* thread_mutex; the created thread reads and writes thread_stop without   *)
(* it, so its steps fall between any two of theirs.                        *)
(*                                                                         *)
(* A callback is an outcome: start_fn and stop_fn succeed or fail, loop_fn *)
(* returns LONG_THREAD_CONTINUE or LONG_THREAD_STOP.                       *)
(***************************************************************************)
EXTENDS Integers

CONSTANTS
    Callers,       \* the threads that call start, stop and join
    NoOne,         \* thread_mutex is free
    MaxThreads,    \* bound: how many pthreads are created in a behaviour
    HasStopFn,     \* options.stop_fn is given
    CreateFails,   \* pthread_create may fail
    UsesJoin,      \* long_thread_join is called
    StartsOnce     \* a caller starts an object with a start_fn only when it is new
                   \*   or was stopped, as main does

ASSUME CallersAssumption == NoOne \notin Callers
ASSUME MaxThreadsAssumption == MaxThreads \in Nat
ASSUME OptionsAssumption ==
    {HasStopFn, CreateFails, UsesJoin, StartsOnce} \subseteq BOOLEAN

Instances == 1 .. MaxThreads

VARIABLES
    start_fn,      \* options.start_fn is given
    thread,        \* the pthread_t, an instance or 0
    thread_stop,
    finished,
    lock,          \* who holds thread_mutex
    setUp,         \* start_fn has succeeded and stop_fn has not, since
    started,       \* start was called, and no stop has succeeded since
    inst,          \* instance -> where its _long_thread_thread_fn is
    joined,        \* instance -> pthread_join has returned for it
    pc,            \* caller -> where it is
    error,         \* caller -> the local error
    target         \* caller -> the instance its long_thread_join waits for

vars == <<start_fn, thread, thread_stop, finished, lock, setUp, started, inst, joined,
          pc, error, target>>

Alive == {"test", "loop", "finish"}

TypeOK ==
    /\ start_fn \in BOOLEAN
    /\ thread \in 0 .. MaxThreads
    /\ thread_stop \in BOOLEAN
    /\ finished \in BOOLEAN
    /\ lock \in Callers \cup {NoOne}
    /\ setUp \in BOOLEAN
    /\ started \in BOOLEAN
    /\ inst \in [Instances -> Alive \cup {"none", "failed", "ended"}]
    /\ joined \in [Instances -> BOOLEAN]
    /\ pc \in [Callers -> {"idle", "create", "stop_join", "stop_fn", "join"}]
    /\ error \in [Callers -> BOOLEAN]
    /\ target \in [Callers -> 0 .. MaxThreads]

Init ==
    /\ start_fn \in BOOLEAN
    /\ thread = 0
    /\ thread_stop = FALSE
    /\ finished = FALSE
    /\ lock = NoOne
    /\ setUp = FALSE
    /\ started = FALSE
    /\ inst = [i \in Instances |-> "none"]
    /\ joined = [i \in Instances |-> FALSE]
    /\ pc = [c \in Callers |-> "idle"]
    /\ error = [c \in Callers |-> FALSE]
    /\ target = [c \in Callers |-> 0]

Goto(c, l) == pc' = [pc EXCEPT ![c] = l]

SetError(c, e) == error' = [error EXCEPT ![c] = e]

-----------------------------------------------------------------------------
(***************************************************************************)
(* long_thread_start.  The first step is up to and including start_fn: it  *)
(* is called unless the thread exists, and its result then REPLACES error. *)
(***************************************************************************)
MayStart(c) ==
    /\ pc[c] = "idle"
    /\ StartsOnce /\ start_fn => ~started
    /\ \E i \in Instances : inst[i] = "none"

start_again(c) ==
    /\ MayStart(c)
    /\ lock = NoOne
    /\ lock' = c
    /\ started' = TRUE
    /\ \/ ~start_fn /\ SetError(c, FALSE) /\ UNCHANGED setUp
       \/ start_fn /\ \E ok \in BOOLEAN : SetError(c, ~ok) /\ setUp' = (setUp \/ ok)
    /\ Goto(c, "create")
    /\ UNCHANGED <<start_fn, thread, thread_stop, finished, inst, joined,
                   target>>

start_fn_unchecked(c) ==
    /\ MayStart(c)
    /\ lock = NoOne
    /\ lock' = c
    /\ started' = TRUE
    /\ SetError(c, thread # 0)
    /\ \E ok \in BOOLEAN : setUp' = (setUp \/ ok)
    /\ Goto(c, "create")
    /\ UNCHANGED <<start_fn, thread, thread_stop, finished, inst, joined,
                   target>>

StartBegin(c) ==
    /\ MayStart(c)
    /\ lock = NoOne
    /\ lock' = c
    /\ started' = TRUE
    /\ \/ /\ ~start_fn
          /\ SetError(c, thread # 0)
          /\ UNCHANGED setUp
       \/ /\ start_fn
          /\ thread # 0
          /\ SetError(c, FALSE)
          /\ UNCHANGED setUp
       \/ /\ start_fn
          /\ thread = 0
          /\ \E ok \in BOOLEAN : SetError(c, ~ok) /\ setUp' = (setUp \/ ok)
    /\ Goto(c, "create")
    /\ UNCHANGED <<start_fn, thread, thread_stop, finished, inst, joined,
                   target>>

(* Instances are created in order. *)
IsNext(i) == inst[i] = "none" /\ \A j \in 1 .. i - 1 : inst[j] # "none"

StartRefused(c) ==
    /\ pc[c] = "create"
    /\ error[c]
    /\ lock' = NoOne
    /\ Goto(c, "idle")
    /\ UNCHANGED <<start_fn, thread, thread_stop, finished, setUp, started,
                   inst, joined,
                   error, target>>

StartCreate(c, i) ==
    /\ pc[c] = "create"
    /\ ~error[c]
    /\ IsNext(i)
    /\ thread_stop' = FALSE
    /\ thread' = i
    /\ inst' = [inst EXCEPT ![i] = "test"]
    /\ lock' = NoOne
    /\ Goto(c, "idle")
    /\ UNCHANGED <<start_fn, finished, setUp, started, joined, error, target>>

(* pthread_create fails: what it leaves in long_thread->thread is undefined,
   the old value or a handle of no thread. *)
StartCreateFails(c, i) ==
    /\ CreateFails
    /\ pc[c] = "create"
    /\ ~error[c]
    /\ IsNext(i)
    /\ thread_stop' = FALSE
    /\ thread' \in {thread, i}
    /\ inst' = [inst EXCEPT ![i] = "failed"]
    /\ SetError(c, TRUE)
    /\ lock' = NoOne
    /\ Goto(c, "idle")
    /\ UNCHANGED <<start_fn, finished, setUp, started, joined, target>>

-----------------------------------------------------------------------------
(* pthread_join on i.  On a handle that was joined before, or that is of no
   thread, its behaviour is undefined: it returns, with or without error. *)
JoinReturns(i, failed) ==
    \/ /\ inst[i] = "ended" /\ ~joined[i]
       /\ ~failed
       /\ joined' = [joined EXCEPT ![i] = TRUE]
    \/ /\ joined[i] \/ inst[i] = "failed"
       /\ failed \in BOOLEAN
       /\ UNCHANGED joined

(***************************************************************************)
(* long_thread_stop: set thread_stop, join, call stop_fn, forget the       *)
(* handle.  Its result REPLACES error, as in start.                        *)
(***************************************************************************)
stop_without_flag(c) ==
    /\ pc[c] = "idle"
    /\ lock = NoOne
    /\ lock' = c
    /\ SetError(c, thread = 0)
    /\ Goto(c, IF thread = 0 THEN "stop_fn" ELSE "stop_join")
    /\ UNCHANGED <<start_fn, thread, thread_stop, finished, setUp, started,
                   inst, joined, target>>

stop_without_join(c) ==
    /\ pc[c] = "idle"
    /\ lock = NoOne
    /\ lock' = c
    /\ SetError(c, thread = 0)
    /\ thread_stop' = (thread_stop \/ thread # 0)
    /\ Goto(c, "stop_fn")
    /\ UNCHANGED <<start_fn, thread, finished, setUp, started, inst, joined,
                   target>>

StopBegin(c) ==
    /\ pc[c] = "idle"
    /\ lock = NoOne
    /\ lock' = c
    /\ SetError(c, thread = 0)
    /\ thread_stop' = (thread_stop \/ thread # 0)
    /\ Goto(c, IF thread = 0 THEN "stop_fn" ELSE "stop_join")
    /\ UNCHANGED <<start_fn, thread, finished, setUp, started, inst, joined,
                   target>>

StopJoin(c) ==
    /\ pc[c] = "stop_join"
    /\ \E failed \in BOOLEAN : JoinReturns(thread, failed) /\ SetError(c, failed)
    /\ Goto(c, "stop_fn")
    /\ UNCHANGED <<start_fn, thread, thread_stop, finished, lock, setUp,
                   started, inst, target>>

StopEnd(c) ==
    /\ pc[c] = "stop_fn"
    /\ \/ /\ ~HasStopFn
          /\ UNCHANGED <<error, setUp>>
       \/ /\ HasStopFn
          /\ error[c]
          /\ SetError(c, FALSE)
          /\ UNCHANGED setUp
       \/ /\ HasStopFn
          /\ ~error[c]
          /\ \E ok \in BOOLEAN : SetError(c, ~ok) /\ setUp' = (setUp /\ ~ok)
    /\ thread' = IF error'[c] THEN thread ELSE 0
    /\ started' = (started /\ error'[c])
    /\ lock' = NoOne
    /\ Goto(c, "idle")
    /\ UNCHANGED <<start_fn, thread_stop, finished, inst, joined, target>>

-----------------------------------------------------------------------------
(* long_thread_join takes no mutex: the handle is read, then waited for. *)
JoinBegin(c) ==
    /\ UsesJoin
    /\ pc[c] = "idle"
    /\ thread # 0
    /\ target' = [target EXCEPT ![c] = thread]
    /\ Goto(c, "join")
    /\ UNCHANGED <<start_fn, thread, thread_stop, finished, lock, setUp,
                   started, inst,
                   joined, error>>

JoinEnd(c) ==
    /\ pc[c] = "join"
    /\ \E failed \in BOOLEAN : JoinReturns(target[c], failed)
    /\ target' = [target EXCEPT ![c] = 0]
    /\ Goto(c, "idle")
    /\ UNCHANGED <<start_fn, thread, thread_stop, finished, lock, setUp,
                   started, inst, error>>

-----------------------------------------------------------------------------
(* _long_thread_thread_fn *)
Move(i, l) == inst' = [inst EXCEPT ![i] = l]

Test(i) ==
    /\ inst[i] = "test"
    /\ Move(i, IF thread_stop THEN "finish" ELSE "loop")
    /\ UNCHANGED <<start_fn, thread, thread_stop, finished, lock, setUp,
                   started, joined,
                   pc, error, target>>

LoopContinue(i) ==
    /\ inst[i] = "loop"
    /\ Move(i, "test")
    /\ UNCHANGED <<start_fn, thread, thread_stop, finished, lock, setUp,
                   started, joined,
                   pc, error, target>>

LoopStop(i) ==
    /\ inst[i] = "loop"
    /\ thread_stop' = TRUE
    /\ Move(i, "test")
    /\ UNCHANGED <<start_fn, thread, finished, lock, setUp, started, joined,
                   pc, error, target>>

Finish(i) ==
    /\ inst[i] = "finish"
    /\ finished' = TRUE
    /\ Move(i, "ended")
    /\ UNCHANGED <<start_fn, thread, thread_stop, lock, setUp, started,
                   joined, pc, error, target>>

long_thread_is_running == thread # 0 /\ ~finished

-----------------------------------------------------------------------------
CallerStep(c) ==
    \/ StartRefused(c)
    \/ \E i \in Instances : StartCreate(c, i) \/ StartCreateFails(c, i)
    \/ StopJoin(c)
    \/ StopEnd(c)
    \/ JoinEnd(c)

Run(i) == Test(i) \/ LoopContinue(i) \/ LoopStop(i) \/ Finish(i)

Next ==
    \/ \E c \in Callers : StartBegin(c) \/ StopBegin(c) \/ JoinBegin(c) \/ CallerStep(c)
    \/ \E i \in Instances : Run(i)

Spec == Init /\ [][Next]_vars

(***************************************************************************)
(* A call that was made goes on, and a loop_fn that was called returns:    *)
(* true of the loops that poll (beagle_controls, beagle_display), not of   *)
(* the ones that block in read, recvfrom or pigeon_frame_pipe_pop.         *)
(***************************************************************************)
FairSpec ==
    /\ Spec
    /\ \A c \in Callers : WF_vars(CallerStep(c))
    /\ \A i \in Instances : WF_vars(Run(i))

-----------------------------------------------------------------------------
(* Every pthread that is still running is the one whose handle the object
   has, so that stop can join it.  Without a start_fn long_thread_start refuses
   to create a second thread, whoever calls it when; with one it does not
   (line 56 replaces the error of line 52), and it takes callers that start
   nothing twice (StartsOnce).  stop forgets the handle only after the join. *)
NoOrphanThread == \A i \in Instances : inst[i] \in Alive => thread = i

(* "stop_fn; // Teardown after thread ends" (long_thread.h): when stop gets
   to stop_fn, no loop that uses what it tears down is running. *)
TeardownAfterThreadEnds ==
    \A c \in Callers :
        pc[c] = "stop_fn" /\ ~error[c] => \A i \in Instances : inst[i] \notin Alive

(* "start_fn; // Setup before thread starts" (long_thread.h): a loop runs only
   with what start_fn set up. *)
SetUpWhileRunning ==
    start_fn /\ HasStopFn =>
        \A i \in Instances : inst[i] \in Alive => setUp

(* The inductive invariant behind the three properties above, for objects that
   are not started twice if they have a start_fn. *)
ThreadInv ==
    /\ TypeOK
    /\ \A c \in Callers :
           /\ pc[c] \in {"create", "stop_join", "stop_fn"} => lock = c
           /\ pc[c] = "create" => started
           /\ pc[c] = "create" /\ ~error[c] => thread = 0 /\ (start_fn => setUp)
           /\ pc[c] = "stop_join" => thread # 0
           /\ pc[c] = "stop_fn" => \A i \in Instances : inst[i] \notin Alive
           /\ pc[c] = "join" => target[c] # 0
    /\ thread # 0 => started
    /\ \A i \in Instances :
           /\ inst[i] \in Alive => thread = i
           /\ start_fn /\ inst[i] \in Alive => setUp
           /\ joined[i] => inst[i] = "ended"

(* A stop that was called returns, whoever else calls start and stop at the
   same time (for loops that return). *)
StopReturns ==
    \A c \in Callers : pc[c] \in {"stop_join", "stop_fn"} ~> pc[c] = "idle"

=============================================================================
