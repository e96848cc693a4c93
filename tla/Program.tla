------------------------------ MODULE Program ------------------------------
(***************************************************************************)
(* main.c with the start and stop functions it calls: which thread is      *)
(* started and stopped in which order, what each loop waits for, and what   *)
(* main does with its objects.  Inside a LongThread object and inside the   *)
(* frame pipe the steps are those of the modules LongThread and FramePipe;  *)
(* here a thread tests thread_stop, runs its loop function and tests again, *)
(* and the two buffers are numbers of frames.                               *)
(***************************************************************************)
EXTENDS Integers, Sequences, FiniteSets

CONSTANTS
    Stations,    \* the sets of hardware and settings that are looked at
    Capacity,    \* how many frames a buffer of the pipe holds
    MaxOpenFiles \* how many files the camera thread can have open

(* The environment variables that enable a link module, and the joystick. *)
Hardware == {"printer", "files_tx", "camera", "files_rx", "joystick"}

ASSUME StationsAssumption == Stations \subseteq SUBSET Hardware
ASSUME CapacityAssumption == Capacity \in Nat \ {0}
ASSUME OpenFilesAssumption == MaxOpenFiles \in Nat

Threads == {"display", "controls", "server", "tunnel_write", "tunnel_read",
            "link_tx", "link_rx"}

VARIABLES
    hardware,         \* what the station has
    pc, error,        \* where main is, and its variable error
    thread,           \* no thread, testing thread_stop, in the loop function, ended
    thread_stop,      \* the flag of each LongThread object
    busy,             \* linkmod_files_tx waits for the first frame of a transfer
    moved,            \* the camera loop has seen the joystick move: directions.y # 0
    open_files,       \* files the camera thread opened and never closed
    linkmod,          \* the module chosen for each direction
    sounds,           \* the wave files are in memory
    seccomp,          \* main may only read, write and exit
    txq, rxq,         \* frames in the two buffers
    joined,           \* threads that were joined
    released,         \* what main has closed or freed
    commanded,        \* the stop command was received
    outcome           \* of the process

vars == <<hardware, pc, error, thread, thread_stop, busy, moved, open_files, linkmod,
          sounds, seccomp, txq, rxq, joined, released, commanded, outcome>>

mainVars == <<pc, error, linkmod, sounds, seccomp, joined, released>>
loopVars == <<busy, moved, open_files>>
threadVars == <<thread, thread_stop, loopVars>>
queues == <<txq, rxq>>

(* LINKMODS_TX and LINKMODS_RX.  The last two of the first list and the last
   of the second are always available. *)
LINKMODS_TX == <<"printer", "files_tx", "console", "null">>
LINKMODS_RX == <<"camera", "files_rx", "null">>

is_available(m) == m \in hardware \cup {"console", "null"}

find_available(linkmods) ==
    linkmods[CHOOSE i \in DOMAIN linkmods :
                 /\ is_available(linkmods[i])
                 /\ \A j \in 1 .. i - 1 : ~is_available(linkmods[j])]

(* The order in which main starts and stops, each step with the one after it. *)
AfterStep ==
    [tunnel_init |-> "link_init", link_init |-> "set_mtu", set_mtu |-> "ui_start",
     ui_start |-> "controls", controls |-> "server", server |-> "tunnel",
     tunnel |-> "link", link |-> "seccomp", seccomp |-> "join"]

AfterStop ==
    [controls |-> "server", server |-> "link_tx", link_tx |-> "link_rx",
     link_rx |-> "tunnel_write", tunnel_write |-> "tunnel_read",
     tunnel_read |-> "display"]

FirstStop == "controls"
LastStop == "display"
ExitSteps == {"close_joystick", "tunnel_free", "controls_free", "server_free", "killed"}

Stopping(t) == [at |-> "stop", thread |-> t]
Joining(t) == [at |-> "stop_join", thread |-> t]
At(step) == [at |-> step, thread |-> "none"]

Places ==
    {At(step) : step \in DOMAIN AfterStep \cup {"join"} \cup ExitSteps}
        \cup {Stopping(t) : t \in Threads} \cup {Joining(t) : t \in Threads}

TypeOK ==
    /\ hardware \in Stations
    /\ pc \in Places
    /\ error \in BOOLEAN
    /\ thread \in [Threads -> {"none", "test", "loop", "ended"}]
    /\ thread_stop \in [Threads -> BOOLEAN]
    /\ busy \in BOOLEAN
    /\ moved \in BOOLEAN
    /\ open_files \in 0 .. MaxOpenFiles
    /\ linkmod \in [link_tx : {LINKMODS_TX[i] : i \in DOMAIN LINKMODS_TX} \cup {"unset"},
                    link_rx : {LINKMODS_RX[i] : i \in DOMAIN LINKMODS_RX} \cup {"unset"}]
    /\ sounds \in BOOLEAN
    /\ seccomp \in BOOLEAN
    /\ txq \in 0 .. Capacity
    /\ rxq \in 0 .. Capacity
    /\ joined \subseteq Threads
    /\ released \subseteq {"pins", "joystick", "tunnel", "controls"}
    /\ commanded \in BOOLEAN
    /\ outcome \in {"running", "exit_failure", "crashed"}

Init ==
    /\ hardware \in Stations
    /\ pc = At("tunnel_init")
    /\ error = FALSE
    /\ thread = [t \in Threads |-> "none"]
    /\ thread_stop = [t \in Threads |-> FALSE]
    /\ busy = FALSE
    /\ moved = FALSE
    /\ open_files = 0
    /\ linkmod = [link_tx |-> "unset", link_rx |-> "unset"]
    /\ sounds = FALSE
    /\ seccomp = FALSE
    /\ txq = 0
    /\ rxq = 0
    /\ joined = {}
    /\ released = {}
    /\ commanded = FALSE
    /\ outcome = "running"

Running == outcome = "running"
Crash == outcome' = "crashed"
ExitFailure == outcome' = "exit_failure"

-----------------------------------------------------------------------------
(* main, up to the join *)

(* The step at s is done: go to the next one, or with an error straight to the
   exit path. *)
Continue(s, failed) ==
    /\ error' = failed
    /\ pc' = IF failed THEN Stopping(FirstStop) ELSE At(AfterStep[s])

AtStep(s) == Running /\ pc = At(s)

(* long_thread_start for a set of objects, each with its start_fn: those in
   started get a thread. *)
StartThreads(started) ==
    /\ thread' = [t \in Threads |-> IF t \in started THEN "test" ELSE thread[t]]
    /\ thread_stop' = [t \in Threads |-> IF t \in started THEN FALSE ELSE thread_stop[t]]

TunnelInit ==
    /\ AtStep("tunnel_init")
    /\ \E failed \in BOOLEAN : Continue("tunnel_init", failed)
    /\ UNCHANGED <<hardware, threadVars, linkmod, sounds, seccomp, queues, joined,
                   released, commanded, outcome>>

(* The lists end with a module that is always there: this step cannot fail. *)
LinkInit ==
    /\ AtStep("link_init")
    /\ linkmod' = [link_tx |-> find_available(LINKMODS_TX),
                   link_rx |-> find_available(LINKMODS_RX)]
    /\ Continue("link_init", FALSE)
    /\ UNCHANGED <<hardware, threadVars, sounds, seccomp, queues, joined, released,
                   commanded, outcome>>

SetMtu ==
    /\ AtStep("set_mtu")
    /\ \E failed \in BOOLEAN : Continue("set_mtu", failed)
    /\ UNCHANGED <<hardware, threadVars, linkmod, sounds, seccomp, queues, joined,
                   released, commanded, outcome>>

ui_start_later ==
    /\ AtStep("ui_start")
    /\ \E started \in SUBSET {"display"} : StartThreads(started)
    /\ Continue("ui_start", FALSE)
    /\ UNCHANGED <<hardware, loopVars, linkmod, sounds, seccomp, queues, joined, released,
                   commanded, outcome>>

(* pigeon_ui_start: a display that does not start goes unnoticed, a missing
   wave file ends the program. *)
UiStart ==
    /\ AtStep("ui_start")
    /\ \E started \in SUBSET {"display"} : StartThreads(started)
    /\ \/ /\ sounds' = TRUE
          /\ Continue("ui_start", FALSE)
          /\ UNCHANGED outcome
       \/ /\ ExitFailure
          /\ UNCHANGED <<pc, error, sounds>>
    /\ UNCHANGED <<hardware, loopVars, linkmod, seccomp, queues, joined, released, commanded>>

(* One of main's start calls: each of its objects gets a thread or fails. *)
StartStep(step, objects) ==
    /\ AtStep(step)
    /\ \E started \in SUBSET objects :
           StartThreads(started) /\ Continue(step, started # objects)
    /\ UNCHANGED <<hardware, loopVars, linkmod, sounds, seccomp, queues, joined, released,
                   commanded, outcome>>

StartControls == StartStep("controls", {"controls"})
StartServer == StartStep("server", {"server"})

(* These two start both threads before they look whether one failed. *)
StartTunnel == StartStep("tunnel", {"tunnel_write", "tunnel_read"})
StartLink == StartStep("link", {"link_tx", "link_rx"})

EnableSeccomp ==
    /\ AtStep("seccomp")
    /\ \E failed \in BOOLEAN : seccomp' = ~failed /\ Continue("seccomp", failed)
    /\ UNCHANGED <<hardware, threadVars, linkmod, sounds, queues, joined, released,
                   commanded, outcome>>

(* pthread_join: it returns when the thread has ended.  If it has to wait it
   makes a system call, which strict seccomp answers by killing the thread
   that made it.  A thread that was joined before is undefined behaviour: the
   call returns or crashes. *)
pthread_join(t, after) ==
    \/ /\ t \notin joined
       /\ thread[t] = "ended"
       /\ joined' = joined \cup {t}
       /\ pc' = after
       /\ UNCHANGED outcome
    \/ /\ t \notin joined
       /\ thread[t] # "ended"
       /\ seccomp
       /\ pc' = At("killed")
       /\ UNCHANGED <<joined, outcome>>
    \/ /\ t \in joined
       /\ \/ pc' = after /\ UNCHANGED outcome
          \/ UNCHANGED pc /\ Crash
       /\ UNCHANGED joined

JoinServer ==
    /\ AtStep("join")
    /\ pthread_join("server", Stopping(FirstStop))
    /\ UNCHANGED <<hardware, error, threadVars, linkmod, sounds, seccomp, queues, released,
                   commanded>>

-----------------------------------------------------------------------------
(* main, from "Exiting" to the end *)

Stopped(t) == IF t = LastStop THEN At("close_joystick") ELSE Stopping(AfterStop[t])

stop_what_never_ran(t) ==
    /\ Running
    /\ pc = Stopping(t)
    /\ pc' = Joining(t)
    /\ thread_stop' = [thread_stop EXCEPT ![t] = TRUE]
    /\ UNCHANGED <<hardware, error, thread, loopVars, linkmod, sounds, seccomp, queues, joined,
                   released, commanded, outcome>>

stop_without_join(t) ==
    /\ Running
    /\ pc = Stopping(t)
    /\ pc' = Stopped(t)
    /\ thread_stop' = [thread_stop EXCEPT ![t] = TRUE]
    /\ UNCHANGED <<hardware, error, thread, loopVars, linkmod, sounds, seccomp, queues, joined,
                   released, commanded, outcome>>

(* long_thread_stop, or nothing for a module or a tunnel thread that was never
   made; an object without a thread is left alone. *)
StopBegin(t) ==
    /\ Running
    /\ pc = Stopping(t)
    /\ IF thread[t] = "none"
       THEN pc' = Stopped(t) /\ UNCHANGED thread_stop
       ELSE pc' = Joining(t) /\ thread_stop' = [thread_stop EXCEPT ![t] = TRUE]
    /\ UNCHANGED <<hardware, error, thread, loopVars, linkmod, sounds, seccomp, queues, joined,
                   released, commanded, outcome>>

(* The stop_fns that close a file: strict seccomp kills main in them. *)
KilledIn(t) ==
    /\ seccomp
    /\ \/ t \in {"server", "display"}
       \/ t = "link_tx" /\ linkmod.link_tx = "printer"
       \/ t = "link_rx" /\ linkmod.link_rx = "camera"

(* What follows the join: the stop_fn, unless the join returned an error, as it
   may for a thread that was joined before. *)
Follows(t, place) ==
    \/ place = At("killed") /\ KilledIn(t)
    \/ place = Stopped(t) /\ (~KilledIn(t) \/ t \in joined)

(* The join, and the stop_fn after it: the camera's closes its joystick, which
   may be NULL, and so takes back the pins it shares with the other one. *)
StopJoin(t) ==
    /\ Running
    /\ pc = Joining(t)
    /\ LET closes == t = "link_rx" /\ linkmod.link_rx = "camera" /\ thread[t] = "ended"
       IN  IF closes /\ "joystick" \notin hardware
           THEN Crash /\ UNCHANGED <<pc, joined, released>>
           ELSE /\ \E place \in Places : Follows(t, place) /\ pthread_join(t, place)
                /\ released' = released \cup (IF closes /\ ~seccomp THEN {"pins"} ELSE {})
    /\ UNCHANGED <<hardware, error, threadVars, linkmod, sounds, seccomp, queues, commanded>>

(* pigeon_ui_stop closes the joystick without asking whether there is one,
   which takes a file for each pin.  main then frees the tunnel and the
   controls, and NULL instead of the command server, which it has set to NULL
   in place of the controls.  The calls after that are never reached. *)
CloseJoystick ==
    /\ AtStep("close_joystick")
    /\ CASE "joystick" \notin hardware -> Crash /\ UNCHANGED <<pc, released>>
         [] "joystick" \in hardware /\ seccomp ->
                pc' = At("killed") /\ UNCHANGED <<released, outcome>>
         [] OTHER -> /\ released' = released \cup {"joystick"}
                     /\ pc' = At("tunnel_free")
                     /\ UNCHANGED outcome
    /\ UNCHANGED <<hardware, error, threadVars, linkmod, sounds, seccomp, queues, joined,
                   commanded>>

TunnelFree ==
    /\ AtStep("tunnel_free")
    /\ released' = released \cup {"tunnel"}
    /\ pc' = At("controls_free")
    /\ UNCHANGED <<hardware, error, threadVars, linkmod, sounds, seccomp, queues, joined,
                   commanded, outcome>>

ControlsFree ==
    /\ AtStep("controls_free")
    /\ released' = released \cup {"controls"}
    /\ pc' = At("server_free")
    /\ UNCHANGED <<hardware, error, threadVars, linkmod, sounds, seccomp, queues, joined,
                   commanded, outcome>>

ServerFree ==
    /\ AtStep("server_free")
    /\ Crash
    /\ UNCHANGED <<hardware, mainVars, threadVars, queues, commanded>>

-----------------------------------------------------------------------------
(* The threads *)

(* while (!thread_stop) of _long_thread_thread_fn *)
Test(t) ==
    /\ Running
    /\ thread[t] = "test"
    /\ thread' = [thread EXCEPT ![t] = IF thread_stop[t] THEN "ended" ELSE "loop"]
    /\ UNCHANGED <<hardware, mainVars, thread_stop, loopVars, queues, commanded, outcome>>

InLoop(t) == Running /\ thread[t] = "loop"
LoopReturns(t) == thread' = [thread EXCEPT ![t] = "test"]

DisplayLoop ==
    /\ InLoop("display")
    /\ LoopReturns("display")
    /\ UNCHANGED <<hardware, mainVars, thread_stop, loopVars, queues, commanded, outcome>>

(* With a joystick its press resets both buffers. *)
ControlsLoop ==
    /\ InLoop("controls")
    /\ LoopReturns("controls")
    /\ \/ UNCHANGED queues
       \/ "joystick" \in hardware /\ txq' = 0 /\ rxq' = 0
    /\ UNCHANGED <<hardware, mainVars, thread_stop, loopVars, commanded, outcome>>

push_without_check ==
    /\ InLoop("tunnel_read")
    /\ LoopReturns("tunnel_read")
    /\ txq' = txq + 1
    /\ UNCHANGED <<hardware, mainVars, thread_stop, loopVars, rxq, commanded, outcome>>

server_ignores_stop(command) ==
    /\ InLoop("server")
    /\ LoopReturns("server")
    /\ commanded' = (commanded \/ command = "stop")
    /\ UNCHANGED <<hardware, mainVars, thread_stop, loopVars, queues, outcome>>

(* recvfrom returns a datagram; the command in it is run and answered. *)
ServerLoop(command) ==
    /\ InLoop("server")
    /\ LoopReturns("server")
    /\ commanded' = (commanded \/ command = "stop")
    /\ thread_stop' = [thread_stop EXCEPT !["server"] = @ \/ command = "stop"]
    /\ UNCHANGED <<hardware, mainVars, loopVars, queues, outcome>>

(* read() on the tap device returns a frame, which is rejected or pushed. *)
TunnelReadLoop ==
    /\ InLoop("tunnel_read")
    /\ LoopReturns("tunnel_read")
    /\ \/ txq' = IF txq < Capacity THEN txq + 1 ELSE txq
       \/ UNCHANGED txq
    /\ UNCHANGED <<hardware, mainVars, thread_stop, loopVars, rxq, commanded, outcome>>

TunnelWriteLoop ==
    /\ InLoop("tunnel_write")
    /\ rxq > 0
    /\ rxq' = rxq - 1
    /\ LoopReturns("tunnel_write")
    /\ UNCHANGED <<hardware, mainVars, thread_stop, loopVars, txq, commanded, outcome>>

(* The console and the printer wait for a frame in pop.  linkmod_files returns
   at once while no device is connected; with one it stays in its own loop
   until a first frame came, and returns some frames later. *)
LinkTxPop ==
    /\ InLoop("link_tx")
    /\ linkmod.link_tx \in {"printer", "console"}
    /\ txq > 0
    /\ txq' = txq - 1
    /\ LoopReturns("link_tx")
    /\ UNCHANGED <<hardware, mainVars, thread_stop, loopVars, rxq, commanded, outcome>>

LinkTxFiles ==
    /\ InLoop("link_tx")
    /\ linkmod.link_tx = "files_tx"
    /\ \/ ~busy /\ LoopReturns("link_tx") /\ UNCHANGED <<busy, txq>>
       \/ busy /\ LoopReturns("link_tx") /\ busy' = FALSE
               /\ \E n \in 1 .. txq : txq' = txq - n
    /\ UNCHANGED <<hardware, mainVars, thread_stop, moved, open_files, rxq, commanded, outcome>>

DeviceConnected ==
    /\ InLoop("link_tx")
    /\ linkmod.link_tx = "files_tx"
    /\ ~busy
    /\ busy' = TRUE
    /\ UNCHANGED <<hardware, mainVars, thread, thread_stop, moved, open_files, queues, commanded, outcome>>

(* A module without a loop function: _long_thread_null_loop_fn stops. *)
NullLoop(t) ==
    /\ InLoop(t)
    /\ t \in DOMAIN linkmod
    /\ linkmod[t] = "null"
    /\ LoopReturns(t)
    /\ thread_stop' = [thread_stop EXCEPT ![t] = TRUE]
    /\ UNCHANGED <<hardware, mainVars, loopVars, queues, commanded, outcome>>

(* Frames come from a file of the connected device. *)
LinkRxFiles ==
    /\ InLoop("link_rx")
    /\ linkmod.link_rx = "files_rx"
    /\ rxq' \in rxq .. Capacity
    /\ LoopReturns("link_rx")
    /\ UNCHANGED <<hardware, mainVars, thread_stop, loopVars, txq, commanded, outcome>>

(* The camera loop waits until the joystick is moved; without a joystick it
   uses a NULL pointer. *)
CameraWait ==
    /\ InLoop("link_rx")
    /\ linkmod.link_rx = "camera"
    /\ ~moved
    /\ IF "joystick" \in hardware
       THEN moved' = TRUE /\ UNCHANGED outcome
       ELSE Crash /\ UNCHANGED moved
    /\ UNCHANGED <<hardware, mainVars, thread, thread_stop, busy, open_files, queues, commanded>>

(* It then takes pictures until there is a code in one, without looking at the
   joystick again.  bar_code_read leaves its file open when there was none;
   when no more files can be opened capture_image exits. *)
CameraPicture ==
    /\ InLoop("link_rx")
    /\ linkmod.link_rx = "camera"
    /\ moved
    /\ \/ /\ open_files < MaxOpenFiles
          /\ rxq' = IF rxq < Capacity THEN rxq + 1 ELSE rxq
          /\ moved' = FALSE
          /\ LoopReturns("link_rx")
          /\ UNCHANGED <<open_files, outcome>>
       \/ /\ open_files < MaxOpenFiles
          /\ open_files' = open_files + 1
          /\ UNCHANGED <<thread, moved, rxq, outcome>>
       \/ /\ open_files = MaxOpenFiles
          /\ ExitFailure
          /\ UNCHANGED <<thread, moved, open_files, rxq>>
    /\ UNCHANGED <<hardware, mainVars, thread_stop, busy, txq, commanded>>

(* capture_image exits when the camera does not work. *)
CameraFails ==
    /\ InLoop("link_rx")
    /\ linkmod.link_rx = "camera"
    /\ moved
    /\ ExitFailure
    /\ UNCHANGED <<hardware, mainVars, threadVars, queues, commanded>>

-----------------------------------------------------------------------------
MainStep ==
    \/ TunnelInit \/ LinkInit \/ SetMtu \/ UiStart
    \/ StartControls \/ StartServer \/ StartTunnel \/ StartLink
    \/ EnableSeccomp \/ JoinServer
    \/ \E t \in Threads : StopBegin(t) \/ StopJoin(t)
    \/ CloseJoystick \/ TunnelFree \/ ControlsFree \/ ServerFree

(* The loops that go on by themselves: those that only sleep for a moment, and
   those that wait for a frame once there is one. *)
LoopStep(t) ==
    \/ t = "display" /\ DisplayLoop
    \/ t = "controls" /\ ControlsLoop
    \/ t = "tunnel_write" /\ TunnelWriteLoop
    \/ t = "link_tx" /\ (LinkTxPop \/ LinkTxFiles)
    \/ t = "link_rx" /\ (LinkRxFiles \/ CameraPicture)
    \/ NullLoop(t)

Next ==
    \/ MainStep
    \/ \E t \in Threads : Test(t) \/ LoopStep(t)
    \/ \E command \in {"stop", "other"} : ServerLoop(command)
    \/ TunnelReadLoop
    \/ DeviceConnected
    \/ CameraWait
    \/ CameraFails

Spec == Init /\ [][Next]_vars

(* Every thread that can take a step does.  Nothing is assumed of those who
   send datagrams, frames and joystick presses. *)
FairSpec ==
    /\ Spec
    /\ WF_vars(MainStep)
    /\ \A t \in Threads : WF_vars(Test(t)) /\ WF_vars(LoopStep(t))

-----------------------------------------------------------------------------
(***************************************************************************)
(* Properties.                                                             *)
(***************************************************************************)

Idle(t) == thread[t] \in {"none", "ended"}

(* Nothing is closed or freed under a thread that uses it: the joystick and its
   pins, which the camera module also has, are used by the controls thread,
   the tap device by the tunnel threads. *)
ReleasedAfterUse ==
    /\ released \cap {"pins", "joystick"} # {} => Idle("controls")
    /\ "controls" \in released => Idle("controls")
    /\ "tunnel" \in released => Idle("tunnel_write") /\ Idle("tunnel_read")

(* AudioMixer_queueSound asserts that the sound it is given was loaded.  The
   threads that report to the user interface run only after it was. *)
SoundsLoadedBeforeUse ==
    \A t \in {"controls", "link_tx", "link_rx"} : thread[t] # "none" => sounds

(* "Exit manually. Otherwise, we may not see the signal from the main thread"
   (command_server.c): after a stop command the server's thread ends. *)
StopCommandEndsServer ==
    commanded ~> thread["server"] = "ended" \/ outcome # "running"

(* A start that fails before the command server runs ends the process: every
   thread started by then is one whose loop returns. *)
FailedStartEnds ==
    error /\ thread["server"] = "none" ~> outcome # "running"

(* "Stop the network interface and exit the program", says the help text of
   the stop command (command_runner.c). *)
StopEndsProgram == commanded ~> outcome # "running"

(* "We got bupkiss back from the camera, let the user know they need to try
   again" (linkmod_camera.c): after a picture without a code the loop waits
   for the joystick. *)
NewPictureNeedsPress == [][open_files' > open_files => ~moved']_vars

=============================================================================
