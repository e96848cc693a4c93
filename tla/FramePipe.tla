----------------------------- MODULE FramePipe -----------------------------
(***************************************************************************)
(* pigeon_frame_pipe.c with the five threads of the program that use it.   *)
(* The tunnel reads frames from the tap device into the tx buffer, a link  *)
(* module takes them out; a link module puts received frames in the rx     *)
(* buffer, the tunnel writes them to the tap device; the controls thread   *)
(* empties both when the joystick is pressed.                              *)
(*                                                                         *)
(* A step is a section under a buffer's fifo_mutex (every access to a fifo *)
(* is under it), a call on write_cond, or a thread-local piece of code     *)
(* between two of those.  write_cond_mutex is never locked by a writer,    *)
(* and only the buffer's one reader passes it to pthread_cond_wait, so it  *)
(* excludes nobody and is not part of the state.                           *)
(***************************************************************************)
EXTENDS PointerFifo, FiniteSets

CONSTANTS
    Headers,      \* the frame headers the outside world can send
    LinkTx,       \* the tx link module in use: "console" (the printer's loop
                  \*   has the same shape) or "files"; the list in
                  \*   pigeon_linkmods__list.h never gets as far as "null"
    LinkRx,       \* the rx link module in use: "files" (the camera's loop
                  \*   has the same shape) or "null"
    HasJoystick   \* whether beagle_joystick_open succeeded

Ethertypes == {"IP", "ARP", "IPV6", "other"}
Destinations == {"broadcast", "multicast", "unicast"}
HeaderType == [ethertype : Ethertypes, dest : Destinations]

ASSUME HeadersAssumption == Headers \subseteq HeaderType /\ NULL \notin Headers
ASSUME LinkTxAssumption == LinkTx \in {"console", "files"}
ASSUME LinkRxAssumption == LinkRx \in {"files", "null"}
ASSUME HasJoystickAssumption == HasJoystick \in BOOLEAN

Directions == {"tx", "rx"}
Threads == {"tunnel_read", "tunnel_write", "link_tx", "link_rx", "controls"}

(***************************************************************************)
(* The tunnel holds the TX handle (write to tx, read from rx), the link    *)
(* the RX handle (write to rx, read from tx).                              *)
(***************************************************************************)
Writer(d) == IF d = "tx" THEN "tunnel_read" ELSE "link_rx"
Reader(d) == IF d = "tx" THEN "link_tx" ELSE "tunnel_write"
Writers == {"tunnel_read", "link_rx"}
Readers == {"tunnel_write", "link_tx"}

VARIABLES
    fifo,      \* direction -> its PointerFifo
    heap,      \* address -> header of the frame allocated there, or NULL
    pc,        \* thread -> where it is
    held,      \* thread -> the frame its local variable owns, or NULL
    count,     \* thread -> the local count of _pigeon_frame_pipe_update_ui
    display    \* the number given to pigeon_ui_set_display_count last

vars == <<fifo, heap, pc, held, count, display>>

SCREEN_MAX_VALUE == 99

Counts == 0 .. Size - 1

WriterPCs == {"read", "filter", "push", "signal", "ui_count", "ui_show", "stopped"}
ReaderPCs == {"has_next", "is_empty", "cond_wait", "asleep", "try_pop",
              "ui_count", "ui_show", "use"}
ControlsPCs == {"poll", "clear_rx", "ui_count", "ui_show"}

(* Where each thread's loop_fn begins.  A null link module has no loop_fn,
   so its thread ends at once. *)
LoopStart ==
    [t \in Threads |->
        CASE t = "tunnel_read"  -> "read"
          [] t = "tunnel_write" -> "is_empty"
          [] t = "link_tx"      -> IF LinkTx = "files" THEN "has_next" ELSE "is_empty"
          [] t = "link_rx"      -> IF LinkRx = "null" THEN "stopped" ELSE "read"
          [] t = "controls"     -> "poll"]

Init ==
    /\ fifo = [d \in Directions |-> pointer_fifo_new]
    /\ heap = [f \in Pointers |-> NULL]
    /\ pc = LoopStart
    /\ held = [t \in Threads |-> NULL]
    /\ count = [t \in Threads |-> 0]
    /\ display = 0

Goto(t, l) == pc' = [pc EXCEPT ![t] = l]

-----------------------------------------------------------------------------
(* Writers *)

pigeon_tunnel_is_frame_allowed(h) ==
    /\ h.ethertype # "IPV6"
    /\ ~(h.dest = "broadcast" /\ h.ethertype # "ARP")

pigeon_frame_new(t, f, h) ==
    /\ heap[f] = NULL
    /\ heap' = [heap EXCEPT ![f] = h]
    /\ held' = [held EXCEPT ![t] = f]

(* read() on the tap device returned a frame. *)
TunnelRead(f, h) ==
    /\ pc["tunnel_read"] = "read"
    /\ pigeon_frame_new("tunnel_read", f, h)
    /\ Goto("tunnel_read", "filter")
    /\ UNCHANGED <<fifo, count, display>>

tunnel_allow_any ==
    /\ pc["tunnel_read"] = "filter"
    /\ Goto("tunnel_read", "push")
    /\ UNCHANGED <<fifo, heap, held, count, display>>

TunnelAllow ==
    /\ pc["tunnel_read"] = "filter"
    /\ pigeon_tunnel_is_frame_allowed(heap[held["tunnel_read"]])
    /\ Goto("tunnel_read", "push")
    /\ UNCHANGED <<fifo, heap, held, count, display>>

TunnelReject ==
    /\ pc["tunnel_read"] = "filter"
    /\ ~pigeon_tunnel_is_frame_allowed(heap[held["tunnel_read"]])
    /\ heap' = [heap EXCEPT ![held["tunnel_read"]] = NULL]
    /\ held' = [held EXCEPT !["tunnel_read"] = NULL]
    /\ Goto("tunnel_read", "read")
    /\ UNCHANGED <<fifo, count, display>>

(* The link module decoded a frame (a line of the frames file, a QR code). *)
LinkReceive(f, h) ==
    /\ pc["link_rx"] = "read"
    /\ pigeon_frame_new("link_rx", f, h)
    /\ Goto("link_rx", "push")
    /\ UNCHANGED <<fifo, count, display>>

(* pigeon_frame_pipe_push.  The writers ignore its result: after a failed
   push the frame stays in the local variable until the loop_fn returns. *)
Push(d) ==
    LET t == Writer(d)
        r == pointer_fifo_push(fifo[d], held[t])
    IN  /\ pc[t] = "push"
        /\ fifo' = [fifo EXCEPT ![d] = r.fifo]
        /\ held' = IF r.success THEN [held EXCEPT ![t] = NULL] ELSE held
        /\ Goto(t, IF r.success THEN "signal" ELSE "ui_count")
        /\ UNCHANGED <<heap, count, display>>

signal_never(d) ==
    /\ pc[Writer(d)] = "signal"
    /\ Goto(Writer(d), "ui_count")
    /\ UNCHANGED <<fifo, heap, held, count, display>>

Signal(d) ==
    /\ pc[Writer(d)] = "signal"
    /\ pc' = [pc EXCEPT ![Writer(d)] = "ui_count",
                        ![Reader(d)] = IF @ = "asleep" THEN "is_empty" ELSE @]
    /\ UNCHANGED <<fifo, heap, held, count, display>>

-----------------------------------------------------------------------------
(* Readers *)

has_next_always ==
    /\ pc["link_tx"] = "has_next"
    /\ Goto("link_tx", "is_empty")
    /\ UNCHANGED <<fifo, heap, held, count, display>>

(* linkmod_files looks before it pops, and tries again after 50 ms. *)
HasNext ==
    /\ pc["link_tx"] = "has_next"
    /\ ~pointer_fifo_is_empty(fifo["tx"])
    /\ Goto("link_tx", "is_empty")
    /\ UNCHANGED <<fifo, heap, held, count, display>>

wait_without_test(d) ==
    /\ pc[Reader(d)] = "is_empty"
    /\ Goto(Reader(d), "try_pop")
    /\ UNCHANGED <<fifo, heap, held, count, display>>

(* pigeon_frame_pipe_wait: the test of its loop ... *)
ReadIsEmpty(d) ==
    /\ pc[Reader(d)] = "is_empty"
    /\ Goto(Reader(d), IF pointer_fifo_is_empty(fifo[d])
                       THEN "cond_wait" ELSE "try_pop")
    /\ UNCHANGED <<fifo, heap, held, count, display>>

(* ... and pthread_cond_wait: the reader blocks, in a step of its own. *)
CondWait(d) ==
    /\ pc[Reader(d)] = "cond_wait"
    /\ Goto(Reader(d), "asleep")
    /\ UNCHANGED <<fifo, heap, held, count, display>>

(* A condition variable may wake a waiter without a signal. *)
SpuriousWakeup(d) ==
    /\ pc[Reader(d)] = "asleep"
    /\ Goto(Reader(d), "is_empty")
    /\ UNCHANGED <<fifo, heap, held, count, display>>

(* _pigeon_frame_pipe_try_pop: NULL if a reset came in between. *)
TryPop(d) ==
    /\ pc[Reader(d)] = "try_pop"
    /\ LET r == pointer_fifo_pop(fifo[d])
       IN  /\ fifo' = [fifo EXCEPT ![d] = r.fifo]
           /\ held' = [held EXCEPT ![Reader(d)] = r.result]
    /\ Goto(Reader(d), "ui_count")
    /\ UNCHANGED <<heap, count, display>>

(* The tunnel, the console and the printer free the frame they sent out;
   linkmod_files does not. *)
Frees(t) == ~(t = "link_tx" /\ LinkTx = "files")

use_keeps_pointer(d) ==
    LET t == Reader(d)
    IN  /\ pc[t] = "use"
        /\ heap' = [heap EXCEPT ![held[t]] = NULL]
        /\ Goto(t, "ui_count")
        /\ UNCHANGED <<fifo, held, count, display>>

Use(d) ==
    LET t == Reader(d)
    IN  /\ pc[t] = "use"
        /\ heap' = IF Frees(t) THEN [heap EXCEPT ![held[t]] = NULL] ELSE heap
        /\ held' = [held EXCEPT ![t] = NULL]
        /\ Goto(t, LoopStart[t])
        /\ UNCHANGED <<fifo, count, display>>

-----------------------------------------------------------------------------
(* pigeon_frame_pipe_reset clears the two buffers one after the other.  The
   frames in them are not freed. *)

reset_frees_frames ==
    /\ HasJoystick
    /\ pc["controls"] = "poll"
    /\ heap' = [f \in Pointers |->
                   IF f \in Stored(fifo["tx"]) THEN NULL ELSE heap[f]]
    /\ Goto("controls", "clear_rx")
    /\ UNCHANGED <<fifo, held, count, display>>

ResetTx ==
    /\ HasJoystick
    /\ pc["controls"] = "poll"
    /\ fifo' = [fifo EXCEPT !["tx"] = pointer_fifo_clear(@)]
    /\ Goto("controls", "clear_rx")
    /\ UNCHANGED <<heap, held, count, display>>

ResetRx ==
    /\ pc["controls"] = "clear_rx"
    /\ fifo' = [fifo EXCEPT !["rx"] = pointer_fifo_clear(@)]
    /\ Goto("controls", "ui_count")
    /\ UNCHANGED <<heap, held, count, display>>

-----------------------------------------------------------------------------
(* _pigeon_frame_pipe_update_ui, the end of push, try_pop and reset: the
   count is read under the mutex and shown after it is released. *)

UiCount(t) ==
    /\ pc[t] = "ui_count"
    /\ count' = [count EXCEPT ![t] = pointer_fifo_count(fifo["tx"])]
    /\ Goto(t, "ui_show")
    /\ UNCHANGED <<fifo, heap, held, display>>

UiShow(t) ==
    /\ pc[t] = "ui_show"
    /\ display' = IF count[t] > SCREEN_MAX_VALUE THEN SCREEN_MAX_VALUE ELSE count[t]
    /\ count' = [count EXCEPT ![t] = 0]
    /\ IF t \in Readers /\ held[t] # NULL
       THEN Goto(t, "use") /\ UNCHANGED held
       ELSE /\ Goto(t, LoopStart[t])
            /\ held' = [held EXCEPT ![t] = NULL]
    /\ UNCHANGED <<fifo, heap>>

-----------------------------------------------------------------------------
WriterStep(d) == Push(d) \/ Signal(d)

ReaderStep(d) == ReadIsEmpty(d) \/ CondWait(d) \/ TryPop(d) \/ Use(d)

UpdateUi(t) == UiCount(t) \/ UiShow(t)

Next ==
    \/ \E f \in Pointers, h \in Headers : TunnelRead(f, h) \/ LinkReceive(f, h)
    \/ TunnelAllow
    \/ TunnelReject
    \/ \E d \in Directions : WriterStep(d) \/ ReaderStep(d) \/ SpuriousWakeup(d)
    \/ HasNext
    \/ ResetTx
    \/ ResetRx
    \/ \E t \in Threads : UpdateUi(t)

Spec == Init /\ [][Next]_vars

(***************************************************************************)
(* Every thread that can run does: the threads are ordinary pthreads, and  *)
(* no step below waits for another thread except for a fifo_mutex, which   *)
(* is held for a few instructions.  Nothing obliges the outside world to   *)
(* send frames, plug in a device (HasNext) or press the joystick, or a     *)
(* spurious wakeup to happen.                                              *)
(***************************************************************************)
Fairness ==
    /\ WF_vars(TunnelAllow)
    /\ WF_vars(TunnelReject)
    /\ WF_vars(ResetRx)
    /\ \A d \in Directions : WF_vars(WriterStep(d)) /\ WF_vars(ReaderStep(d))
    /\ \A t \in Threads : WF_vars(UpdateUi(t))

FairSpec == Spec /\ Fairness

-----------------------------------------------------------------------------
(***************************************************************************)
(* Properties.                                                             *)
(***************************************************************************)

(* The frames in the buffer of direction d. *)
Queued(d) == Stored(fifo[d])

(* Types: the head and tail of a fifo stay inside its buffer, and every thread
   is somewhere in its own code. *)
TypeOK ==
    /\ fifo \in [Directions -> Fifos]
    /\ heap \in [Pointers -> Headers \cup {NULL}]
    /\ pc \in [Threads -> WriterPCs \cup ReaderPCs \cup ControlsPCs]
    /\ \A t \in Writers : pc[t] \in WriterPCs
    /\ \A t \in Readers : pc[t] \in ReaderPCs
    /\ pc["controls"] \in ControlsPCs
    /\ held \in [Threads -> Pointers \cup {NULL}]
    /\ count \in [Threads -> Counts]
    /\ display \in Counts

(* A frame is in one place: no two slots of the buffers (of either one) hold
   the same frame, no buffer holds a frame that a thread is using, and no two
   threads use the same frame.  This is what "the caller loses ownership" of
   push and "the caller gains ownership" of pop come to over all the threads,
   with reset in between; a double pop or a stale slot left by
   pointer_fifo_clear would break it. *)
SingleOwner ==
    /\ \A d \in Directions : NoDuplicates(fifo[d])
    /\ Queued("tx") \cap Queued("rx") = {}
    /\ \A d \in Directions, t \in Threads : held[t] \notin Queued(d)
    /\ \A t, u \in Threads : held[t] = held[u] /\ held[t] # NULL => t = u

(* No use after free: every frame in a buffer, and every frame a thread has
   in hand, is allocated. *)
NoDanglingFrame ==
    /\ \A d \in Directions : \A f \in Queued(d) : f \in Pointers /\ heap[f] # NULL
    /\ \A t \in Threads : held[t] # NULL => heap[held[t]] # NULL

(* What the filter of the tunnel-read thread refuses (IPv6, and broadcasts
   other than ARP) never gets to the link module, whatever was freed and
   allocated again at the same address on the way. *)
OnlyAllowedFramesLeave ==
    held["link_tx"] # NULL => pigeon_tunnel_is_frame_allowed(heap[held["link_tx"]])

(* Where in its code a thread has a frame in its local variable. *)
HeldByPC ==
    /\ \A t \in Writers :
           /\ pc[t] \in {"filter", "push"} => held[t] # NULL
           /\ pc[t] \in {"read", "signal", "stopped"} => held[t] = NULL
    /\ \A t \in Readers :
           /\ pc[t] = "use" => held[t] # NULL
           /\ pc[t] \notin {"ui_count", "ui_show", "use"} => held[t] = NULL
    /\ held["controls"] = NULL

(* From the filter on, the frames on the way to the link module are allowed. *)
AllowedOnTheWay ==
    /\ pc["tunnel_read"] = "push" =>
           pigeon_tunnel_is_frame_allowed(heap[held["tunnel_read"]])
    /\ \A f \in Queued("tx") : pigeon_tunnel_is_frame_allowed(heap[f])
    /\ OnlyAllowedFramesLeave

(* The inductive invariant behind the safety properties above. *)
IndInv == TypeOK /\ HeldByPC /\ SingleOwner /\ NoDanglingFrame /\ AllowedOnTheWay

(* "Pop a frame from the pipe. If there are no frames, this operation will
   block until one arrives" (pigeon_frame_pipe.h): a reader is asleep only
   while there is nothing to read or a signal is on its way. *)
BlockedOnlyWhileEmpty ==
    \A d \in Directions :
        pc[Reader(d)] = "asleep" =>
            pointer_fifo_is_empty(fifo[d]) \/ pc[Writer(d)] = "signal"

(* "@return the next PigeonFrame in the read pipe, or NULL if there was an
   error" (pigeon_frame_pipe.h): with its wait over, pop has a frame. *)
PopReturnsFrame ==
    \A d \in Directions :
        pc[Reader(d)] \in {"ui_count", "ui_show"} => held[Reader(d)] # NULL

(* Without the joystick, linkmod_files never blocks inside pop: nobody else
   reads the tx buffer, so the frame has_next saw is still there. *)
PollingReaderNeverBlocks ==
    LinkTx = "files" => pc["link_tx"] \notin {"cond_wait", "asleep"}

(* The refinement mapping to the abstract channel of pigeon_frame_pipe.h. *)
Channel ==
    INSTANCE FrameChannel
    WITH Frames <- Pointers, NoFrame <- NULL, Capacity <- Size - 1,
         queue <- [d \in Directions |-> Contents(fifo[d])],
         offered <- [d \in Directions |->
                        IF pc[Writer(d)] = "push" THEN held[Writer(d)] ELSE NULL],
         delivered <- [d \in Directions |-> held[Reader(d)]]

(* Every step of the pipe is a step of two bounded FIFO queues: frames come out
   in the order they went in, each at most once, and a frame that is lost is
   lost because the buffer was full when it was pushed, or to a reset. *)
ImplementsChannel == Channel!Spec

(* A signal that finds the reader asleep on a frame is enough, also when the
   signals for earlier frames were lost: without the joystick it is followed
   by a frame in the reader's hands. *)
SignalWakesReader ==
    \A d \in Directions :
        (/\ pc[Writer(d)] = "signal"
         /\ pc[Reader(d)] = "asleep"
         /\ ~pointer_fifo_is_empty(fifo[d]))
            ~> held[Reader(d)] # NULL

(* A reader that is awake in pop, or busy with a frame, gets round to every
   frame in its buffer before it sleeps again (without the joystick).
   linkmod_files sleeps between frames whatever the buffer holds, until a
   device is there. *)
AwakeReaderDrains ==
    \A d \in Directions, f \in Pointers :
        (/\ f \in Queued(d)
         /\ LoopStart[Reader(d)] = "is_empty"
         /\ pc[Reader(d)] \in {"try_pop", "ui_count", "ui_show", "use"})
            ~> held[Reader(d)] = f

=============================================================================
