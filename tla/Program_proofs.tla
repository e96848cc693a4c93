--------------------------- MODULE Program_proofs ---------------------------
(***************************************************************************)
(* Proofs about Program: the order in which main starts, stops and frees,  *)
(* for every station, every capacity and every choice of failing starts.   *)
(***************************************************************************)
EXTENDS Program, TLAPS

StartSteps == DOMAIN AfterStep \cup {"join"}
SoundSteps == {"controls", "server", "tunnel", "link", "seccomp", "join"}
FreeSteps == {"close_joystick", "tunnel_free", "controls_free", "server_free"}

StartPlaces == {At(s) : s \in StartSteps}

(* main has stopped the threads of the set: it is at a later stop, or past all
   of them. *)
Past(later) == (pc.at \in {"stop", "stop_join"} /\ pc.thread \in later) \/ pc.at \in FreeSteps

(* Before the exit path nothing was joined or released, and the sounds are
   there before a thread that uses them is started. *)
StartInv ==
    /\ pc \in StartPlaces => joined = {} /\ released = {}
    /\ \A s \in SoundSteps : pc = At(s) => sounds

JoinInv == \A t \in joined : thread[t] = "ended"

(* What main has stopped does not run any more. *)
StopInv ==
    /\ Past(Threads \ {"controls"}) => Idle("controls")
    /\ Past({"tunnel_read", "display"}) => Idle("tunnel_write")
    /\ Past({"display"}) => Idle("tunnel_read")

OrderInv == StartInv /\ JoinInv /\ StopInv /\ ReleasedAfterUse /\ SoundsLoadedBeforeUse

IndInv == TypeOK /\ OrderInv

-----------------------------------------------------------------------------
(* The order of main. *)

LEMMA StepOrder ==
    /\ AfterStep["tunnel_init"] = "link_init"
    /\ AfterStep["link_init"] = "set_mtu"
    /\ AfterStep["set_mtu"] = "ui_start"
    /\ AfterStep["ui_start"] = "controls"
    /\ AfterStep["controls"] = "server"
    /\ AfterStep["server"] = "tunnel"
    /\ AfterStep["tunnel"] = "link"
    /\ AfterStep["link"] = "seccomp"
    /\ AfterStep["seccomp"] = "join"
    /\ StartSteps = {"tunnel_init", "link_init", "set_mtu", "ui_start", "controls",
                     "server", "tunnel", "link", "seccomp", "join"}
  BY DEF AfterStep, StartSteps

LEMMA StopOrder ==
    /\ AfterStop["controls"] = "server"
    /\ AfterStop["server"] = "link_tx"
    /\ AfterStop["link_tx"] = "link_rx"
    /\ AfterStop["link_rx"] = "tunnel_write"
    /\ AfterStop["tunnel_write"] = "tunnel_read"
    /\ AfterStop["tunnel_read"] = "display"
    /\ FirstStop = "controls"
    /\ LastStop = "display"
  BY DEF AfterStop, FirstStop, LastStop

LEMMA PlacesAre ==
    /\ \A s \in StartSteps \cup ExitSteps : At(s) \in Places
    /\ \A t \in Threads : Stopping(t) \in Places /\ Joining(t) \in Places
    /\ \A t \in Threads : Stopped(t) \in Places
    /\ Stopping(FirstStop) \in Places
  <1>1. \A s \in StartSteps \cup ExitSteps : At(s) \in Places
    BY DEF Places, StartSteps
  <1>2. \A t \in Threads : Stopping(t) \in Places /\ Joining(t) \in Places
    BY DEF Places
  <1>3. ASSUME NEW t \in Threads PROVE Stopped(t) \in Places
    <2>1. CASE t = "display"
      BY <2>1, <1>1, StopOrder DEF Stopped, ExitSteps
    <2>2. CASE t # "display"
      <3>1. AfterStop[t] \in Threads
        BY <2>2, StopOrder DEF Threads
      <3>2. QED
        BY <2>2, <3>1, <1>2, StopOrder DEF Stopped
    <2>3. QED
      BY <2>1, <2>2
  <1>4. FirstStop \in Threads
    BY StopOrder DEF Threads
  <1>5. QED
    BY <1>1, <1>2, <1>3, <1>4

LEMMA ModulesExist ==
    /\ find_available(LINKMODS_TX) \in {LINKMODS_TX[i] : i \in DOMAIN LINKMODS_TX}
    /\ find_available(LINKMODS_RX) \in {LINKMODS_RX[i] : i \in DOMAIN LINKMODS_RX}
  <1> DEFINE P(l, i) == is_available(l[i]) /\ \A j \in 1 .. i - 1 : ~is_available(l[j])
  <1>1. \E i \in DOMAIN LINKMODS_TX : P(LINKMODS_TX, i)
    <2>1. /\ DOMAIN LINKMODS_TX = 1 .. 4
          /\ LINKMODS_TX[1] = "printer" /\ LINKMODS_TX[2] = "files_tx"
          /\ LINKMODS_TX[3] = "console"
      BY DEF LINKMODS_TX
    <2>2. is_available("console")
      BY DEF is_available
    <2>3. CASE is_available("printer")
      <3>1. P(LINKMODS_TX, 1)
        BY <2>1, <2>3
      <3>2. QED
        BY <3>1, <2>1
    <2>4. CASE ~is_available("printer") /\ is_available("files_tx")
      <3>1. P(LINKMODS_TX, 2)
        BY <2>1, <2>4
      <3>2. QED
        BY <3>1, <2>1
    <2>5. CASE ~is_available("printer") /\ ~is_available("files_tx")
      <3>1. P(LINKMODS_TX, 3)
        BY <2>1, <2>2, <2>5
      <3>2. QED
        BY <3>1, <2>1
    <2>6. QED
      BY <2>3, <2>4, <2>5
  <1>2. \E i \in DOMAIN LINKMODS_RX : P(LINKMODS_RX, i)
    <2>1. /\ DOMAIN LINKMODS_RX = 1 .. 3
          /\ LINKMODS_RX[1] = "camera" /\ LINKMODS_RX[2] = "files_rx"
          /\ LINKMODS_RX[3] = "null"
      BY DEF LINKMODS_RX
    <2>2. is_available("null")
      BY DEF is_available
    <2>3. CASE is_available("camera")
      <3>1. P(LINKMODS_RX, 1)
        BY <2>1, <2>3
      <3>2. QED
        BY <3>1, <2>1
    <2>4. CASE ~is_available("camera") /\ is_available("files_rx")
      <3>1. P(LINKMODS_RX, 2)
        BY <2>1, <2>4
      <3>2. QED
        BY <3>1, <2>1
    <2>5. CASE ~is_available("camera") /\ ~is_available("files_rx")
      <3>1. P(LINKMODS_RX, 3)
        BY <2>1, <2>2, <2>5
      <3>2. QED
        BY <3>1, <2>1
    <2>6. QED
      BY <2>3, <2>4, <2>5
  <1>3. QED
    BY <1>1, <1>2 DEF find_available

-----------------------------------------------------------------------------
(* Types. *)

LEMMA InitTypes == Init => TypeOK
  <1> SUFFICES ASSUME Init PROVE TypeOK
    OBVIOUS
  <1>1. pc \in Places
    BY StepOrder, PlacesAre DEF Init
  <1>2. linkmod \in [link_tx : {LINKMODS_TX[i] : i \in DOMAIN LINKMODS_TX} \cup {"unset"},
                    link_rx : {LINKMODS_RX[i] : i \in DOMAIN LINKMODS_RX} \cup {"unset"}]
    BY DEF Init
  <1>3. txq \in 0 .. Capacity /\ rxq \in 0 .. Capacity /\ open_files \in 0 .. MaxOpenFiles
    BY CapacityAssumption, OpenFilesAssumption DEF Init
  <1>4. QED
    BY <1>1, <1>2, <1>3 DEF Init, TypeOK

(* Where main goes after a step, with or without an error. *)
LEMMA ContinueTypes ==
    ASSUME NEW s \in DOMAIN AfterStep, NEW failed \in BOOLEAN, Continue(s, failed)
    PROVE  /\ pc' \in Places /\ error' \in BOOLEAN
           /\ ~failed => pc' = At(AfterStep[s])
           /\ failed => pc' = Stopping("controls")
  <1>1. DOMAIN AfterStep = {"tunnel_init", "link_init", "set_mtu", "ui_start", "controls",
                            "server", "tunnel", "link", "seccomp"}
    BY DEF AfterStep
  <1>2. AfterStep[s] \in StartSteps
    BY <1>1, StepOrder
  <1>3. QED
    BY <1>2, PlacesAre, StopOrder DEF Continue

LEMMA StartThreadsTypes ==
    ASSUME TypeOK, NEW started, StartThreads(started)
    PROVE  /\ thread' \in [Threads -> {"none", "test", "loop", "ended"}]
           /\ thread_stop' \in [Threads -> BOOLEAN]
           /\ \A t \in Threads : t \notin started => thread'[t] = thread[t]
  BY DEF StartThreads, TypeOK

LEMMA StartTypes ==
    ASSUME TypeOK, NEW step \in DOMAIN AfterStep, NEW objects, StartStep(step, objects)
    PROVE  TypeOK'
  <1>1. PICK started \in SUBSET objects :
            StartThreads(started) /\ Continue(step, started # objects)
    BY DEF StartStep
  <1>2. pc' \in Places /\ error' \in BOOLEAN
    BY <1>1, ContinueTypes
  <1>3. QED
    BY <1>1, <1>2, StartThreadsTypes DEF StartStep, TypeOK, loopVars, queues

LEMMA StartUpTypes ==
    ASSUME TypeOK,
           \/ TunnelInit \/ LinkInit \/ SetMtu \/ UiStart
           \/ StartControls \/ StartServer \/ StartTunnel \/ StartLink \/ EnableSeccomp
    PROVE  TypeOK'
  <1>1. {"tunnel_init", "link_init", "set_mtu", "ui_start", "controls", "server", "tunnel",
         "link", "seccomp"} \subseteq DOMAIN AfterStep
    BY DEF AfterStep
  <1>2. CASE TunnelInit
    <2>1. pc' \in Places /\ error' \in BOOLEAN
      BY <1>1, <1>2, ContinueTypes DEF TunnelInit
    <2>2. QED
      BY <2>1, <1>2 DEF TunnelInit, TypeOK, threadVars, loopVars, queues
  <1>3. CASE LinkInit
    <2>1. pc' \in Places /\ error' \in BOOLEAN
      BY <1>1, <1>3, ContinueTypes DEF LinkInit
    <2>2. QED
      BY <2>1, <1>3, ModulesExist DEF LinkInit, TypeOK, threadVars, loopVars, queues
  <1>4. CASE SetMtu
    <2>1. pc' \in Places /\ error' \in BOOLEAN
      BY <1>1, <1>4, ContinueTypes DEF SetMtu
    <2>2. QED
      BY <2>1, <1>4 DEF SetMtu, TypeOK, threadVars, loopVars, queues
  <1>5. CASE UiStart
    <2>1. /\ thread' \in [Threads -> {"none", "test", "loop", "ended"}]
          /\ thread_stop' \in [Threads -> BOOLEAN]
      BY <1>5, StartThreadsTypes DEF UiStart
    <2>2. CASE Continue("ui_start", FALSE) /\ sounds' = TRUE /\ UNCHANGED outcome
      <3>1. pc' \in Places /\ error' \in BOOLEAN
        BY <1>1, <2>2, ContinueTypes
      <3>2. QED
        BY <3>1, <2>1, <2>2, <1>5 DEF UiStart, TypeOK, loopVars, queues
    <2>3. CASE ExitFailure /\ UNCHANGED <<pc, error, sounds>>
      BY <2>1, <2>3, <1>5 DEF UiStart, TypeOK, loopVars, queues, ExitFailure
    <2>4. QED
      BY <2>2, <2>3, <1>5 DEF UiStart
  <1>6. CASE StartControls \/ StartServer \/ StartTunnel \/ StartLink
    BY <1>1, <1>6, StartTypes DEF StartControls, StartServer, StartTunnel, StartLink
  <1>7. CASE EnableSeccomp
    <2>1. pc' \in Places /\ error' \in BOOLEAN
      BY <1>1, <1>7, ContinueTypes DEF EnableSeccomp
    <2>2. seccomp' \in BOOLEAN
      BY <1>7 DEF EnableSeccomp
    <2>3. QED
      BY <2>1, <2>2, <1>7 DEF EnableSeccomp, TypeOK, threadVars, loopVars, queues
  <1>8. QED
    BY <1>2, <1>3, <1>4, <1>5, <1>6, <1>7

LEMMA JoinTypes ==
    ASSUME TypeOK, NEW t \in Threads, NEW after \in Places, pthread_join(t, after)
    PROVE  /\ pc' \in Places /\ joined' \subseteq Threads
           /\ outcome' \in {"running", "exit_failure", "crashed"}
  <1>1. At("killed") \in Places
    BY PlacesAre DEF ExitSteps
  <1>2. QED
    BY <1>1 DEF pthread_join, TypeOK, Crash

LEMMA ExitTypes ==
    ASSUME TypeOK,
           \/ JoinServer \/ (\E t \in Threads : StopBegin(t) \/ StopJoin(t))
           \/ CloseJoystick \/ TunnelFree \/ ControlsFree \/ ServerFree
    PROVE  TypeOK'
  <1>1. At("tunnel_free") \in Places /\ At("controls_free") \in Places
        /\ At("server_free") \in Places /\ At("killed") \in Places
    BY PlacesAre DEF ExitSteps
  <1>2. CASE JoinServer
    <2>1. "server" \in Threads /\ Stopping(FirstStop) \in Places
      BY PlacesAre DEF Threads
    <2>2. /\ pc' \in Places /\ joined' \subseteq Threads
          /\ outcome' \in {"running", "exit_failure", "crashed"}
      BY <2>1, <1>2, JoinTypes DEF JoinServer
    <2>3. QED
      BY <2>2, <1>2 DEF JoinServer, TypeOK, threadVars, loopVars, queues
  <1>3. ASSUME NEW t \in Threads, StopBegin(t) PROVE TypeOK'
    <2>1. pc' \in Places
      BY <1>3, PlacesAre DEF StopBegin
    <2>2. thread_stop' \in [Threads -> BOOLEAN]
      BY <1>3 DEF StopBegin, TypeOK
    <2>3. QED
      BY <2>1, <2>2, <1>3 DEF StopBegin, TypeOK, loopVars, queues
  <1>4. ASSUME NEW t \in Threads, StopJoin(t) PROVE TypeOK'
    <2>1. /\ pc' \in Places /\ joined' \subseteq Threads
          /\ outcome' \in {"running", "exit_failure", "crashed"}
          /\ released' \subseteq {"pins", "joystick", "tunnel", "controls"}
      <3>1. CASE Crash /\ UNCHANGED <<pc, joined, released>>
        BY <3>1 DEF Crash, TypeOK
      <3>2. CASE /\ \E place \in Places : Follows(t, place) /\ pthread_join(t, place)
                 /\ (released' = released \cup {"pins"} \/ released' = released)
        <4>2. /\ pc' \in Places /\ joined' \subseteq Threads
              /\ outcome' \in {"running", "exit_failure", "crashed"}
          BY <3>2, JoinTypes
        <4>3. QED
          BY <4>2, <3>2 DEF TypeOK
      <3>3. QED
        BY <3>1, <3>2, <1>4 DEF StopJoin
    <2>2. QED
      BY <2>1, <1>4 DEF StopJoin, TypeOK, threadVars, loopVars, queues
  <1>5. CASE CloseJoystick
    <2>1. /\ pc' \in Places /\ released' \subseteq {"pins", "joystick", "tunnel", "controls"}
          /\ outcome' \in {"running", "exit_failure", "crashed"}
      BY <1>1, <1>5 DEF CloseJoystick, Crash, TypeOK
    <2>2. QED
      BY <2>1, <1>5 DEF CloseJoystick, TypeOK, threadVars, loopVars, queues
  <1>6. CASE TunnelFree
    BY <1>1, <1>6 DEF TunnelFree, TypeOK, threadVars, loopVars, queues
  <1>7. CASE ControlsFree
    BY <1>1, <1>7 DEF ControlsFree, TypeOK, threadVars, loopVars, queues
  <1>8. CASE ServerFree
    BY <1>8 DEF ServerFree, Crash, TypeOK, mainVars, threadVars, loopVars, queues
  <1>9. QED
    BY <1>2, <1>3, <1>4, <1>5, <1>6, <1>7, <1>8

(* A step of one of the threads. *)
ThreadStep ==
    \/ \E t \in Threads : Test(t) \/ LoopStep(t)
    \/ \E command \in {"stop", "other"} : ServerLoop(command)
    \/ TunnelReadLoop \/ DeviceConnected \/ CameraWait \/ CameraFails

LEMMA ThreadTypes ==
    ASSUME TypeOK, ThreadStep
    PROVE  TypeOK'
  <1> USE CapacityAssumption, OpenFilesAssumption
  <1>1. ASSUME NEW t \in Threads, Test(t) PROVE TypeOK'
    BY <1>1 DEF Test, TypeOK, mainVars, loopVars, queues
  <1>2. CASE DisplayLoop
    BY <1>2 DEF DisplayLoop, InLoop, LoopReturns, TypeOK, mainVars, loopVars, queues, Threads
  <1>3. CASE ControlsLoop
    <2>1. txq' \in 0 .. Capacity /\ rxq' \in 0 .. Capacity
      BY <1>3 DEF ControlsLoop, TypeOK, queues
    <2>2. QED
      BY <2>1, <1>3 DEF ControlsLoop, LoopReturns, TypeOK, mainVars, loopVars, Threads
  <1>4. CASE TunnelWriteLoop
    BY <1>4 DEF TunnelWriteLoop, InLoop, LoopReturns, TypeOK, mainVars, loopVars, Threads
  <1>5. CASE LinkTxPop
    BY <1>5 DEF LinkTxPop, InLoop, LoopReturns, TypeOK, mainVars, loopVars, Threads
  <1>6. CASE LinkTxFiles
    <2>1. txq' \in 0 .. Capacity
      <3>1. txq' = txq \/ \E n \in 1 .. txq : txq' = txq - n
        BY <1>6 DEF LinkTxFiles
      <3>2. QED
        BY <3>1 DEF TypeOK
    <2>2. LoopReturns("link_tx") /\ busy' \in BOOLEAN
      BY <1>6 DEF LinkTxFiles, TypeOK
    <2>3. QED
      BY <2>1, <2>2, <1>6 DEF LinkTxFiles, LoopReturns, TypeOK, mainVars, Threads
  <1>7. CASE LinkRxFiles
    BY <1>7 DEF LinkRxFiles, InLoop, LoopReturns, TypeOK, mainVars, loopVars, Threads
  <1>8. CASE CameraPicture
    <2>1. rxq' \in 0 .. Capacity /\ open_files' \in 0 .. MaxOpenFiles
      <3>1. \/ rxq' = rxq
            \/ rxq < Capacity /\ rxq' = rxq + 1
        BY <1>8 DEF CameraPicture
      <3>2. \/ open_files' = open_files
            \/ open_files < MaxOpenFiles /\ open_files' = open_files + 1
        BY <1>8 DEF CameraPicture
      <3>3. QED
        BY <3>1, <3>2 DEF TypeOK
    <2>2. moved' \in BOOLEAN /\ outcome' \in {"running", "exit_failure", "crashed"}
      BY <1>8 DEF CameraPicture, ExitFailure, TypeOK
    <2>3. thread' \in [Threads -> {"none", "test", "loop", "ended"}]
      BY <1>8 DEF CameraPicture, LoopReturns, TypeOK
    <2>4. QED
      BY <2>1, <2>2, <2>3, <1>8 DEF CameraPicture, TypeOK, mainVars
  <1>9. ASSUME NEW t \in Threads, NullLoop(t) PROVE TypeOK'
    BY <1>9 DEF NullLoop, InLoop, LoopReturns, TypeOK, mainVars, loopVars, queues
  <1>10. ASSUME NEW command \in {"stop", "other"}, ServerLoop(command) PROVE TypeOK'
    <2>1. commanded' \in BOOLEAN
      BY <1>10 DEF ServerLoop
    <2>2. thread_stop' \in [Threads -> BOOLEAN]
      BY <1>10 DEF ServerLoop, TypeOK
    <2>3. QED
      BY <2>1, <2>2, <1>10
         DEF ServerLoop, InLoop, LoopReturns, TypeOK, mainVars, loopVars, queues
  <1>11. CASE TunnelReadLoop
    BY <1>11 DEF TunnelReadLoop, InLoop, LoopReturns, TypeOK, mainVars, loopVars, Threads
  <1>12. CASE DeviceConnected
    BY <1>12 DEF DeviceConnected, TypeOK, mainVars, queues
  <1>13. CASE CameraWait
    BY <1>13 DEF CameraWait, Crash, TypeOK, mainVars, queues
  <1>14. CASE CameraFails
    BY <1>14 DEF CameraFails, ExitFailure, TypeOK, mainVars, threadVars, loopVars, queues
  <1>15. QED
    BY <1>1, <1>2, <1>3, <1>4, <1>5, <1>6, <1>7, <1>8, <1>9, <1>10, <1>11, <1>12, <1>13,
       <1>14 DEF ThreadStep, LoopStep

LEMMA NextSplits == Next <=> MainStep \/ ThreadStep
  BY DEF Next, ThreadStep

LEMMA StepTypes == TypeOK /\ [Next]_vars => TypeOK'
  <1> SUFFICES ASSUME TypeOK, [Next]_vars PROVE TypeOK'
    OBVIOUS
  <1>1. CASE MainStep
    BY <1>1, StartUpTypes, ExitTypes DEF MainStep
  <1>2. CASE ThreadStep
    BY <1>2, ThreadTypes
  <1>3. CASE UNCHANGED vars
    BY <1>3 DEF vars, TypeOK
  <1>4. QED
    BY <1>1, <1>2, <1>3, NextSplits

(* The types of Program hold for every station and capacity: in particular
   main is always at a step of its code, and no buffer overflows. *)
THEOREM TypeCorrect == Spec => []TypeOK
  BY InitTypes, StepTypes, PTL DEF Spec

-----------------------------------------------------------------------------
(* The order of starting, stopping and releasing. *)

LEMMA InitOrder == Init => OrderInv
  BY DEF Init, OrderInv, StartInv, JoinInv, StopInv, ReleasedAfterUse,
         SoundsLoadedBeforeUse, Past, Idle, At, FreeSteps, SoundSteps, Threads

(* A thread's step changes only a thread that runs, and nothing of main. *)
LEMMA ThreadStepIs ==
    ASSUME TypeOK, ThreadStep
    PROVE  /\ UNCHANGED mainVars
           /\ \A t \in Threads : Idle(t) => thread'[t] = thread[t]
           /\ \A t \in Threads : thread[t] # "none" <=> thread'[t] # "none"
  <1>1. ASSUME NEW t \in Threads, NEW place \in {"test", "loop", "ended"},
               thread[t] \in {"test", "loop"}, thread' = [thread EXCEPT ![t] = place]
        PROVE  /\ \A s \in Threads : Idle(s) => thread'[s] = thread[s]
               /\ \A s \in Threads : thread[s] # "none" <=> thread'[s] # "none"
    BY <1>1 DEF TypeOK, Idle
  <1>2. \/ thread' = thread
        \/ \E t \in Threads, place \in {"test", "loop", "ended"} :
              thread[t] \in {"test", "loop"} /\ thread' = [thread EXCEPT ![t] = place]
    <2>1. ASSUME NEW t \in Threads, Test(t)
          PROVE  \E place \in {"test", "loop", "ended"} :
                    thread[t] \in {"test", "loop"} /\ thread' = [thread EXCEPT ![t] = place]
      BY <2>1 DEF Test
    <2>2. ASSUME NEW t \in Threads, InLoop(t), LoopReturns(t)
          PROVE  \E place \in {"test", "loop", "ended"} :
                    thread[t] \in {"test", "loop"} /\ thread' = [thread EXCEPT ![t] = place]
      BY <2>2 DEF InLoop, LoopReturns
    <2>3. \/ \E t \in Threads : Test(t)
          \/ \E t \in Threads : InLoop(t) /\ LoopReturns(t)
          \/ thread' = thread
      BY DEF ThreadStep, LoopStep, DisplayLoop, ControlsLoop, TunnelWriteLoop, LinkTxPop,
             LinkTxFiles, LinkRxFiles, CameraPicture, NullLoop, ServerLoop, TunnelReadLoop,
             DeviceConnected, CameraWait, CameraFails, threadVars, Threads
    <2>4. QED
      BY <2>1, <2>2, <2>3
  <1>3. UNCHANGED mainVars
    BY DEF ThreadStep, LoopStep, Test, DisplayLoop, ControlsLoop, TunnelWriteLoop, LinkTxPop,
           LinkTxFiles, LinkRxFiles, CameraPicture, NullLoop, ServerLoop, TunnelReadLoop,
           DeviceConnected, CameraWait, CameraFails
  <1>4. QED
    BY <1>1, <1>2, <1>3

LEMMA ThreadOrder ==
    ASSUME TypeOK, OrderInv, ThreadStep
    PROVE  OrderInv'
  <1>1. /\ UNCHANGED mainVars
        /\ \A t \in Threads : Idle(t) => thread'[t] = thread[t]
        /\ \A t \in Threads : thread[t] # "none" <=> thread'[t] # "none"
    BY ThreadStepIs
  <1>2. \A t \in Threads : Idle(t) => Idle(t)'
    BY <1>1 DEF Idle
  <1>3. StartInv'
    BY <1>1 DEF OrderInv, StartInv, mainVars
  <1>4. JoinInv'
    BY <1>1 DEF OrderInv, JoinInv, mainVars, Idle, TypeOK
  <1>5. StopInv'
    BY <1>1, <1>2 DEF OrderInv, StopInv, Past, mainVars, Threads
  <1>6. ReleasedAfterUse'
    BY <1>1, <1>2 DEF OrderInv, ReleasedAfterUse, mainVars, Threads
  <1>7. SoundsLoadedBeforeUse'
    BY <1>1 DEF OrderInv, SoundsLoadedBeforeUse, mainVars, Threads
  <1>8. QED
    BY <1>3, <1>4, <1>5, <1>6, <1>7 DEF OrderInv

(* A start step that leaves the threads alone. *)
LEMMA QuietOrder ==
    ASSUME TypeOK, OrderInv, NEW s \in {"tunnel_init", "link_init", "set_mtu", "seccomp"},
           AtStep(s), NEW failed \in BOOLEAN, Continue(s, failed),
           UNCHANGED <<thread, sounds, joined, released>>
    PROVE  OrderInv'
  <1>1. s \in DOMAIN AfterStep /\ s \in StartSteps
    BY DEF AfterStep, StartSteps
  <1>2. joined = {} /\ released = {}
    BY <1>1 DEF OrderInv, StartInv, AtStep, StartPlaces
  <1>3. pc' = At(AfterStep[s]) \/ pc' = Stopping("controls")
    BY <1>1, ContinueTypes
  <1>4. \A r \in SoundSteps : pc' = At(r) => sounds
    BY <1>3, StepOrder DEF OrderInv, StartInv, AtStep, SoundSteps, At, Stopping
  <1>5. StartInv'
    BY <1>2, <1>4 DEF StartInv
  <1>6. StopInv'
    BY <1>3, StepOrder DEF StopInv, Past, At, Stopping, FreeSteps
  <1>7. JoinInv' /\ ReleasedAfterUse' /\ SoundsLoadedBeforeUse'
    BY <1>2 DEF OrderInv, JoinInv, ReleasedAfterUse, SoundsLoadedBeforeUse
  <1>8. QED
    BY <1>5, <1>6, <1>7 DEF OrderInv

(* A step that starts threads, with the sounds there afterwards. *)
LEMMA StartingOrder ==
    ASSUME TypeOK, OrderInv,
           NEW s \in {"ui_start", "controls", "server", "tunnel", "link"}, AtStep(s),
           NEW failed \in BOOLEAN, Continue(s, failed),
           sounds', UNCHANGED <<joined, released>>
    PROVE  OrderInv'
  <1>1. s \in DOMAIN AfterStep /\ s \in StartSteps
    BY DEF AfterStep, StartSteps
  <1>2. joined = {} /\ released = {}
    BY <1>1 DEF OrderInv, StartInv, AtStep, StartPlaces
  <1>3. pc' = At(AfterStep[s]) \/ pc' = Stopping("controls")
    BY <1>1, ContinueTypes
  <1>4. StartInv'
    BY <1>2 DEF StartInv
  <1>5. StopInv'
    BY <1>3, StepOrder DEF StopInv, Past, At, Stopping, FreeSteps
  <1>6. JoinInv' /\ ReleasedAfterUse' /\ SoundsLoadedBeforeUse'
    BY <1>2 DEF JoinInv, ReleasedAfterUse, SoundsLoadedBeforeUse
  <1>7. QED
    BY <1>4, <1>5, <1>6 DEF OrderInv

LEMMA StartUpOrder ==
    ASSUME TypeOK, OrderInv,
           \/ TunnelInit \/ LinkInit \/ SetMtu \/ UiStart
           \/ StartControls \/ StartServer \/ StartTunnel \/ StartLink \/ EnableSeccomp
    PROVE  OrderInv'
  <1>1. CASE TunnelInit
    BY <1>1, QuietOrder DEF TunnelInit, threadVars
  <1>2. CASE LinkInit
    BY <1>2, QuietOrder DEF LinkInit, threadVars
  <1>3. CASE SetMtu
    BY <1>3, QuietOrder DEF SetMtu, threadVars
  <1>4. CASE EnableSeccomp
    BY <1>4, QuietOrder DEF EnableSeccomp, threadVars
  <1>5. CASE UiStart
    <2>1. CASE Continue("ui_start", FALSE) /\ sounds' = TRUE
      BY <2>1, <1>5, StartingOrder DEF UiStart
    <2>2. CASE UNCHANGED <<pc, sounds>>
      <3>1. PICK started \in SUBSET {"display"} : StartThreads(started)
        BY <1>5 DEF UiStart
      <3>2. \A t \in Threads : t # "display" => thread'[t] = thread[t]
        BY <3>1, StartThreadsTypes
      <3>3. pc = At("ui_start") /\ UNCHANGED <<joined, released>>
        BY <1>5 DEF UiStart, AtStep
      <3>4. joined = {} /\ released = {}
        BY <3>3, StepOrder DEF OrderInv, StartInv, StartPlaces
      <3>5. StartInv'
        BY <2>2, <3>3 DEF OrderInv, StartInv
      <3>6. StopInv'
        BY <2>2, <3>3 DEF StopInv, Past, At, FreeSteps
      <3>7. JoinInv' /\ ReleasedAfterUse'
        BY <3>3, <3>4 DEF JoinInv, ReleasedAfterUse
      <3>8. SoundsLoadedBeforeUse'
        BY <2>2, <3>2 DEF OrderInv, SoundsLoadedBeforeUse, Threads
      <3>9. QED
        BY <3>5, <3>6, <3>7, <3>8 DEF OrderInv
    <2>3. QED
      BY <2>1, <2>2, <1>5 DEF UiStart
  <1>6. ASSUME NEW s \in {"controls", "server", "tunnel", "link"}, NEW objects,
               StartStep(s, objects)
        PROVE  OrderInv'
    <2>1. sounds'
      BY <1>6 DEF StartStep, AtStep, OrderInv, StartInv, SoundSteps
    <2>2. QED
      BY <2>1, <1>6, StartingOrder DEF StartStep
  <1>7. CASE StartControls \/ StartServer \/ StartTunnel \/ StartLink
    BY <1>7, <1>6 DEF StartControls, StartServer, StartTunnel, StartLink
  <1>8. QED
    BY <1>1, <1>2, <1>3, <1>4, <1>5, <1>7

(* A join that returned means the thread has ended; otherwise main is dead. *)
LEMMA JoinIs ==
    ASSUME TypeOK, JoinInv, NEW t \in Threads, NEW after, pthread_join(t, after),
           UNCHANGED thread
    PROVE  /\ JoinInv'
           /\ \/ pc' = after /\ Idle(t)
              \/ pc' = At("killed")
              \/ pc' = pc
  BY DEF pthread_join, JoinInv, Idle

(* On the exit path the threads, the sounds and the invariants about starting
   are not touched any more. *)
LEMMA ExitOrder ==
    ASSUME TypeOK, OrderInv, UNCHANGED <<thread, sounds>>,
           JoinInv', StopInv', ReleasedAfterUse',
           pc' \notin StartPlaces
    PROVE  OrderInv'
  <1>1. StartInv'
    BY StepOrder DEF StartInv, StartPlaces, SoundSteps
  <1>2. SoundsLoadedBeforeUse'
    BY DEF OrderInv, SoundsLoadedBeforeUse
  <1>3. QED
    BY <1>1, <1>2 DEF OrderInv

LEMMA StopPlaces ==
    ASSUME NEW t \in Threads
    PROVE  /\ Stopping(t) \notin StartPlaces
           /\ Joining(t) \notin StartPlaces
           /\ Stopped(t) \notin StartPlaces
           /\ \A s \in ExitSteps : At(s) \notin StartPlaces
  <1>1. "stop" \notin StartSteps /\ "stop_join" \notin StartSteps
        /\ ExitSteps \cap StartSteps = {}
    BY StepOrder DEF ExitSteps
  <1>2. \A s : At(s) \in StartPlaces => s \in StartSteps
    BY DEF StartPlaces, At
  <1>3. \A s : Stopping(s) \notin StartPlaces /\ Joining(s) \notin StartPlaces
    BY <1>1 DEF StartPlaces, At, Stopping, Joining
  <1>4. \A s \in ExitSteps : At(s) \notin StartPlaces
    BY <1>1, <1>2
  <1>5. QED
    BY <1>3, <1>4 DEF Stopped, ExitSteps

(* Once a thread is stopped, main is past one thread more. *)
LEMMA StoppedIs ==
    ASSUME TypeOK, NEW t \in Threads, pc \in {Stopping(t), Joining(t)},
           pc' = Stopped(t), StopInv, Idle(t), UNCHANGED thread
    PROVE  StopInv'
  <1>1. pc.at \in {"stop", "stop_join"} /\ pc.thread = t
    BY DEF Stopping, Joining
  <1>2. CASE t = "display"
    BY <1>1, <1>2 DEF StopInv, Past, Idle, Threads
  <1>3. CASE t # "display"
    <2>1. pc' = Stopping(AfterStop[t])
      BY <1>3, StopOrder DEF Stopped
    <2>2. pc'.at = "stop" /\ pc'.thread = AfterStop[t]
      BY <2>1 DEF Stopping
    <2>3. QED
      BY <1>1, <1>3, <2>2, StopOrder DEF StopInv, Past, Idle, Threads, FreeSteps
  <1>4. QED
    BY <1>2, <1>3

LEMMA ExitPathOrder ==
    ASSUME TypeOK, OrderInv,
           \/ JoinServer \/ (\E t \in Threads : StopBegin(t) \/ StopJoin(t))
           \/ CloseJoystick \/ TunnelFree \/ ControlsFree \/ ServerFree
    PROVE  OrderInv'
  <1>1. CASE JoinServer
    <2>1. /\ pc = At("join") /\ UNCHANGED <<thread, sounds, released>>
          /\ pthread_join("server", Stopping("controls"))
      BY <1>1, StopOrder DEF JoinServer, AtStep, threadVars
    <2>2. "server" \in Threads /\ "controls" \in Threads
      BY DEF Threads
    <2>3. /\ JoinInv'
          /\ pc' = Stopping("controls") \/ pc' = At("killed") \/ pc' = pc
      BY <2>1, <2>2, JoinIs DEF OrderInv
    <2>4. ReleasedAfterUse' /\ SoundsLoadedBeforeUse'
      BY <2>1 DEF OrderInv, ReleasedAfterUse, SoundsLoadedBeforeUse, Idle
    <2>5. StopInv'
      BY <2>1, <2>3 DEF StopInv, Past, At, Stopping, FreeSteps
    <2>6. StartInv'
      <3>1. CASE pc' = pc
        <4>1. joined = {}
          BY <2>1, StepOrder DEF OrderInv, StartInv, StartPlaces
        <4>2. pc # Stopping("controls") /\ pc # At("killed")
          BY <2>1 DEF At, Stopping
        <4>3. FALSE
          BY <2>1, <3>1, <4>1, <4>2 DEF pthread_join
        <4>4. QED
          BY <4>3
      <3>2. CASE pc' # pc
        <4>1. pc' \notin StartPlaces
          BY <2>2, <2>3, <3>2, StopPlaces DEF ExitSteps
        <4>2. QED
          BY <4>1, StepOrder DEF StartInv, StartPlaces, SoundSteps
      <3>3. QED
        BY <3>1, <3>2
    <2>7. QED
      BY <2>3, <2>4, <2>5, <2>6 DEF OrderInv
  <1>2. ASSUME NEW t \in Threads, StopBegin(t) PROVE OrderInv'
    <2>1. pc = Stopping(t) /\ UNCHANGED <<thread, sounds, joined, released>>
      BY <1>2 DEF StopBegin
    <2>2. StopInv'
      <3>1. CASE thread[t] = "none"
        BY <3>1, <2>1, <1>2, StoppedIs DEF StopBegin, Idle, OrderInv
      <3>2. CASE pc' = Joining(t)
        BY <3>2, <2>1 DEF OrderInv, StopInv, Past, Idle, Stopping, Joining, FreeSteps
      <3>3. QED
        BY <3>1, <3>2, <1>2 DEF StopBegin
    <2>3. pc' \notin StartPlaces
      BY <1>2, StopPlaces DEF StopBegin
    <2>4. JoinInv' /\ ReleasedAfterUse'
      BY <2>1 DEF OrderInv, JoinInv, ReleasedAfterUse, Idle
    <2>5. QED
      BY <2>1, <2>2, <2>3, <2>4, ExitOrder
  <1>3. ASSUME NEW t \in Threads, StopJoin(t) PROVE OrderInv'
    <2>1. pc = Joining(t) /\ UNCHANGED <<thread, sounds>>
      BY <1>3 DEF StopJoin, threadVars
    <2>2. /\ JoinInv'
          /\ \/ pc' = Stopped(t) /\ Idle(t)
             \/ pc' = At("killed")
             \/ pc' = pc
      <3>1. CASE Crash /\ UNCHANGED <<pc, joined, released>>
        BY <3>1, <2>1 DEF OrderInv, JoinInv
      <3>2. ASSUME NEW place \in Places, Follows(t, place), pthread_join(t, place)
            PROVE  /\ JoinInv'
                   /\ \/ pc' = Stopped(t) /\ Idle(t)
                      \/ pc' = At("killed")
                      \/ pc' = pc
        <4>1. place = Stopped(t) \/ place = At("killed")
          BY <3>2 DEF Follows
        <4>2. QED
          BY <4>1, <3>2, <2>1, JoinIs DEF OrderInv
      <3>3. QED
        BY <3>1, <3>2, <1>3 DEF StopJoin
    <2>3. StopInv'
      <3>1. CASE pc' = Stopped(t) /\ Idle(t)
        BY <3>1, <2>1, StoppedIs DEF OrderInv
      <3>2. CASE pc' = At("killed")
        BY <3>2 DEF StopInv, Past, At, FreeSteps
      <3>3. CASE pc' = pc
        BY <3>3, <2>1 DEF OrderInv, StopInv, Past, Idle
      <3>4. QED
        BY <3>1, <3>2, <3>3, <2>2
    <2>4. pc' \notin StartPlaces
      BY <2>1, <2>2, StopPlaces DEF ExitSteps
    <2>5. ReleasedAfterUse'
      <3>1. CASE released' = released
        BY <3>1, <2>1 DEF OrderInv, ReleasedAfterUse, Idle
      <3>2. CASE t = "link_rx" /\ released' = released \cup {"pins"}
        <4>1. Past(Threads \ {"controls"})
          BY <3>2, <2>1 DEF Past, Joining, Threads
        <4>2. Idle("controls") /\ Idle("controls")'
          BY <4>1, <2>1 DEF OrderInv, StopInv, Idle
        <4>3. QED
          BY <4>2, <3>2, <2>1 DEF OrderInv, ReleasedAfterUse, Idle
      <3>3. QED
        BY <3>1, <3>2, <1>3 DEF StopJoin
    <2>6. QED
      BY <2>1, <2>2, <2>3, <2>4, <2>5, ExitOrder
  <1>4. ASSUME NEW s \in FreeSteps, pc = At(s), UNCHANGED <<thread, sounds, joined>>,
               pc' = pc \/ pc' = At("killed") \/ (\E r \in FreeSteps : pc' = At(r)),
               released' \subseteq released \cup {"joystick", "tunnel", "controls"}
        PROVE  OrderInv'
    <2>1. pc.at \in FreeSteps /\ pc'.at \in FreeSteps \cup {"killed"}
      BY <1>4 DEF At
    <2>2. Idle("controls") /\ Idle("tunnel_write") /\ Idle("tunnel_read")
      BY <2>1 DEF OrderInv, StopInv, Past
    <2>3. StopInv' /\ ReleasedAfterUse'
      BY <1>4, <2>2 DEF StopInv, ReleasedAfterUse, Idle
    <2>4. pc' \notin StartPlaces
      BY <1>4, StopPlaces DEF FreeSteps, ExitSteps, Threads
    <2>5. JoinInv'
      BY <1>4 DEF OrderInv, JoinInv
    <2>6. QED
      BY <1>4, <2>3, <2>4, <2>5, ExitOrder
  <1>5. CASE CloseJoystick
    BY <1>4, <1>5 DEF CloseJoystick, AtStep, FreeSteps, threadVars
  <1>6. CASE TunnelFree
    BY <1>4, <1>6 DEF TunnelFree, AtStep, FreeSteps, threadVars
  <1>7. CASE ControlsFree
    BY <1>4, <1>7 DEF ControlsFree, AtStep, FreeSteps, threadVars
  <1>8. CASE ServerFree
    BY <1>4, <1>8 DEF ServerFree, AtStep, FreeSteps, threadVars, mainVars
  <1>9. QED
    BY <1>1, <1>2, <1>3, <1>5, <1>6, <1>7, <1>8

(* The inductive invariant: main's order of starting and stopping. *)
THEOREM Invariant == Spec => []IndInv
  <1>1. Init => IndInv
    BY InitTypes, InitOrder DEF IndInv
  <1>2. IndInv /\ [Next]_vars => IndInv'
    <2> SUFFICES ASSUME TypeOK, OrderInv, [Next]_vars PROVE TypeOK' /\ OrderInv'
      BY DEF IndInv
    <2>1. TypeOK'
      BY StepTypes
    <2>2. CASE MainStep
      BY <2>1, <2>2, StartUpOrder, ExitPathOrder DEF MainStep
    <2>3. CASE ThreadStep
      BY <2>1, <2>3, ThreadOrder
    <2>4. CASE UNCHANGED vars
      BY <2>1, <2>4 DEF vars, OrderInv, StartInv, JoinInv, StopInv, Past, Idle,
                        ReleasedAfterUse, SoundsLoadedBeforeUse
    <2>5. QED
      BY <2>2, <2>3, <2>4, NextSplits
  <1>3. QED
    BY <1>1, <1>2, PTL DEF Spec

(* Nothing is closed or freed under a thread that uses it, whichever starts
   failed, also when a second join or a dead main is in the way. *)
THEOREM NothingReleasedInUse == Spec => []ReleasedAfterUse
  <1>1. IndInv => ReleasedAfterUse
    BY DEF IndInv, OrderInv
  <1>2. QED
    BY <1>1, Invariant, PTL

(* No thread that reports to the user interface runs before the wave files are
   in memory. *)
THEOREM SoundsAreLoaded == Spec => []SoundsLoadedBeforeUse
  <1>1. IndInv => SoundsLoadedBeforeUse
    BY DEF IndInv, OrderInv
  <1>2. QED
    BY <1>1, Invariant, PTL

=============================================================================
