---------------------------- MODULE LinkmodFiles ----------------------------
(***************************************************************************)
(* linkmod_files.c: frames carried on a removable device.  The tx module   *)
(* of one station appends frames to the frames file of a device that is    *)
(* mounted there and unmounts it; somebody carries the device to the other *)
(* station, whose rx module reads the file, empties it and unmounts.       *)
(*                                                                         *)
(* A frame is its number among the frames that leave the tx pipe: what the *)
(* joystick's reset forgets there has no number.  The frames directory     *)
(* exists while the device is mounted.  What a program writes is visible   *)
(* in the file at once and gets to the medium when the kernel writes it    *)
(* back, at the latest at umount: Linux ignores the O_DSYNC and O_RSYNC    *)
(* that _fopen_with_sync passes to F_SETFL.                                *)
(***************************************************************************)
EXTENDS Integers, Sequences, FiniteSets

CONSTANTS
    MaxFrames,        \* bound: how many frames are queued in a behaviour
    MAX_WRITE_COUNT,  \* the limit of one transfer
    MaxOpenDirs,      \* how many directories the process can have open
    Faults,           \* what may happen of "tx", "read", "rx", "umount", "reset"
    MaxFaults         \* bound: how many of them happen in a behaviour

FaultKinds == {"tx", "read", "rx", "umount", "reset"}

ASSUME MaxFramesAssumption == MaxFrames \in Nat
ASSUME WriteCountAssumption == MAX_WRITE_COUNT \in Nat \ {0}
ASSUME OpenDirsAssumption == MaxOpenDirs \in Nat \ {0}
ASSUME FaultsAssumption == Faults \subseteq FaultKinds /\ MaxFaults \in Nat

VARIABLES
    arrived,      \* the number of the last frame in the tx pipe
    popped,       \* how many frames the tx module took out
    device,       \* where it is mounted: "tx", "rx" or nowhere, "away"
    file,         \* the lines of the frames file as programs see it
    disk,         \* the lines on the medium
    created,      \* the device has a frames file
    tx,           \* the locals of _push_to_frames_file
    transfer_complete,
    open_dirs,    \* directory streams the tx thread opened and never closed
    rx,           \* where the rx module is and the lines its FILE still has
    pushed,       \* the frames the rx module gave to pigeon_link_frames_push
    faulted,      \* the kinds of fault that have happened
    faultCount

vars == <<arrived, popped, device, file, disk, created, tx, transfer_complete,
          open_dirs, rx, pushed, faulted, faultCount>>

pipe == <<arrived, popped>>
medium == <<device, file, disk, created>>
station == <<transfer_complete, open_dirs>>
txSide == <<tx, station>>
rxSide == <<rx, pushed>>
faultVars == <<faulted, faultCount>>

Frames == 1 .. MaxFrames
Junk == 0      \* a frame made of two lines run together

(* A line is whole, cut off before its newline, or a cut line with the next
   frame appended to it. *)
Lines == [kind : {"whole", "torn", "garbled"}, frame : Frames]

Whole(f) == [kind |-> "whole", frame |-> f]

TypeOK ==
    /\ arrived \in 0 .. MaxFrames
    /\ popped \in 0 .. arrived
    /\ device \in {"tx", "rx", "away"}
    /\ file \in Seq(Lines)
    /\ disk \in Seq(Lines)
    /\ created \in BOOLEAN
    /\ tx \in [pc : {"poll", "next", "wait", "tested", "asleep", "try_pop", "open", "put",
                     "limit", "umount"},
               frames_count : 0 .. MAX_WRITE_COUNT,
               expired : BOOLEAN, stale : BOOLEAN, error : BOOLEAN]
    /\ transfer_complete \in BOOLEAN
    /\ open_dirs \in 0 .. MaxOpenDirs
    /\ rx \in [pc : {"poll", "read", "truncate", "umount", "crashed"},
               todo : Seq(Lines)]
    /\ pushed \in Seq(Frames \cup {Junk})
    /\ faulted \subseteq Faults
    /\ faultCount \in 0 .. MaxFaults

TxPolling ==
    [pc |-> "poll", frames_count |-> 0, expired |-> FALSE, stale |-> FALSE,
     error |-> FALSE]

RxPolling == [pc |-> "poll", todo |-> <<>>]

Init ==
    /\ arrived = 0
    /\ popped = 0
    /\ device = "away"
    /\ file = <<>>
    /\ disk = <<>>
    /\ created = FALSE
    /\ tx = TxPolling
    /\ transfer_complete = FALSE
    /\ open_dirs = 0
    /\ rx = RxPolling
    /\ pushed = <<>>
    /\ faulted = {}
    /\ faultCount = 0

Fault(kind) ==
    /\ kind \in Faults
    /\ faultCount < MaxFaults
    /\ faultCount' = faultCount + 1
    /\ faulted' = faulted \cup {kind}

-----------------------------------------------------------------------------
(* Around the two modules: frames, the joystick, the kernel and the person who
   carries the device. *)

(* A push into the tx pipe, whose signal reaches a reader that sleeps. *)
FrameArrives ==
    /\ arrived < MaxFrames
    /\ arrived' = arrived + 1
    /\ tx' = IF tx.pc = "asleep" THEN [tx EXCEPT !.pc = "wait"] ELSE tx
    /\ UNCHANGED <<popped, medium, station, rxSide, faultVars>>

(* pigeon_frame_pipe_reset empties the tx pipe. *)
Reset ==
    /\ popped < arrived
    /\ Fault("reset")
    /\ arrived' = popped
    /\ UNCHANGED <<popped, medium, txSide, rxSide>>

Writeback ==
    /\ disk # file
    /\ disk' = file
    /\ UNCHANGED <<pipe, device, file, created, txSide, rxSide, faultVars>>

(* Carrying a device takes longer than _pop_from_frames_file takes to notice
   that it is gone. *)
Plug(where) ==
    /\ device = "away"
    /\ where = "rx" => rx.pc \in {"poll", "crashed"}
    /\ device' = where
    /\ UNCHANGED <<pipe, file, disk, created, txSide, rxSide, faultVars>>

(* The device is taken out between two transfers, with everything written
   back. *)
Remove ==
    /\ \/ device = "tx" /\ tx.pc = "poll"
       \/ device = "rx" /\ rx.pc = "poll"
    /\ file = disk
    /\ device' = "away"
    /\ UNCHANGED <<pipe, file, disk, created, txSide, rxSide, faultVars>>

(* What is on the medium when it is pulled out before the writeback: what was
   appended up to some point, possibly in the middle of a line, or the old
   lines of a file that was emptied. *)
Survivors ==
    LET added == {k \in DOMAIN file : k \in DOMAIN disk => file[k] # disk[k]}
        torn(k) == [file[k] EXCEPT !.kind = "torn"]
    IN  {disk} \cup {SubSeq(file, 1, k) : k \in added}
               \cup {Append(SubSeq(file, 1, k - 1), torn(k)) : k \in added}

Yank ==
    /\ device # "away"
    /\ Fault(device)
    /\ device' = "away"
    /\ \E lines \in Survivors : file' = lines /\ disk' = lines
    /\ created' \in {created, file' # <<>>}
    /\ tx' = [tx EXCEPT !.stale = TRUE]
    /\ UNCHANGED <<pipe, station, rxSide>>

(* umount(): writes everything back, or fails and leaves the device mounted.
   No directory stream of the program is open on this mount: the tx thread
   leaks them only after the transfer it unmounts. *)
umount(where) ==
    \/ /\ device = where
       /\ device' = "away"
       /\ disk' = file
       /\ UNCHANGED faultVars
    \/ /\ device = where
       /\ Fault("umount")
       /\ UNCHANGED <<device, disk>>
    \/ /\ device # where
       /\ UNCHANGED <<device, disk, faultVars>>

-----------------------------------------------------------------------------
(* _linkmod_files_tx_thread_loop *)

opendir_succeeds == device = "tx" /\ open_dirs < MaxOpenDirs

TxPoll ==
    /\ tx.pc = "poll"
    /\ \/ /\ opendir_succeeds /\ ~transfer_complete
          /\ tx' = [TxPolling EXCEPT !.pc = "next"]
          /\ UNCHANGED station
       \/ /\ opendir_succeeds /\ transfer_complete
          /\ open_dirs' = open_dirs + 1
          /\ UNCHANGED <<transfer_complete, tx>>
       \/ /\ ~opendir_succeeds /\ transfer_complete
          /\ transfer_complete' = FALSE
          /\ UNCHANGED <<open_dirs, tx>>
    /\ UNCHANGED <<pipe, medium, rxSide, faultVars>>

(* _push_to_frames_file.  One round of its loop: pop a frame if there is one,
   append it, and see whether a limit is reached.  A round without a frame
   only looks at the time limit. *)
TxMoves(from, to) == tx.pc = from /\ tx' = [tx EXCEPT !.pc = to]

TxHasNext ==
    /\ popped < arrived
    /\ TxMoves("next", "wait")
    /\ UNCHANGED <<pipe, medium, station, rxSide, faultVars>>

TxNoFrame ==
    /\ popped = arrived
    /\ tx.expired
    /\ TxMoves("next", "limit")
    /\ UNCHANGED <<pipe, medium, station, rxSide, faultVars>>

(* pigeon_frame_pipe_wait: a frame is there, or none any more after a reset. *)
TxWait ==
    /\ \/ popped < arrived /\ TxMoves("wait", "try_pop")
       \/ popped = arrived /\ TxMoves("wait", "tested")
       \/ TxMoves("tested", "asleep")
    /\ UNCHANGED <<pipe, medium, station, rxSide, faultVars>>

TxSpuriousWakeup ==
    /\ TxMoves("asleep", "wait")
    /\ UNCHANGED <<pipe, medium, station, rxSide, faultVars>>

(* _pigeon_frame_pipe_try_pop: NULL after a reset behind the wait. *)
TxTryPop ==
    /\ \/ /\ popped < arrived
          /\ popped' = popped + 1
          /\ TxMoves("try_pop", "open")
       \/ /\ popped = arrived
          /\ TxMoves("try_pop", "limit")
          /\ UNCHANGED popped
    /\ UNCHANGED <<arrived, medium, station, rxSide, faultVars>>

(* MAX_WRITE_TIME_MS have passed since the first frame, as of the clock that
   this round reads behind its pop. *)
TimeLimit ==
    /\ tx.pc \in {"next", "wait", "tested", "asleep", "try_pop"}
    /\ tx.frames_count > 0
    /\ ~tx.expired
    /\ tx' = [tx EXCEPT !.expired = TRUE]
    /\ UNCHANGED <<pipe, medium, station, rxSide, faultVars>>

TxOpen ==
    /\ tx.pc = "open"
    /\ \/ /\ device = "tx"
          /\ tx' = [tx EXCEPT !.pc = "put", !.stale = FALSE]
          /\ created' = TRUE
          /\ UNCHANGED faultVars
       \/ /\ \/ device # "tx" /\ UNCHANGED faultVars
             \/ device = "tx" /\ Fault("tx")
          /\ tx' = [tx EXCEPT !.pc = "limit", !.error = TRUE]
          /\ UNCHANGED created
    /\ UNCHANGED <<pipe, device, file, disk, station, rxSide>>

AppendLine(lines, f) ==
    IF lines # <<>> /\ lines[Len(lines)].kind = "torn"
    THEN [lines EXCEPT ![Len(lines)] = [kind |-> "garbled", frame |-> f]]
    ELSE Append(lines, Whole(f))

(* A write that fails in the middle of a line. *)
AppendTorn(lines, f) ==
    LET torn == [kind |-> "torn", frame |-> f]
    IN  IF lines # <<>> /\ lines[Len(lines)].kind = "torn"
        THEN [lines EXCEPT ![Len(lines)] = torn]
        ELSE Append(lines, torn)

overwrite_file ==
    /\ tx.pc = "put"
    /\ tx' = [tx EXCEPT !.pc = "limit", !.frames_count = @ + 1]
    /\ file' = IF tx.stale THEN file ELSE <<Whole(popped)>>
    /\ UNCHANGED <<pipe, device, disk, created, station, rxSide, faultVars>>

write_again ==
    /\ tx.pc = "put"
    /\ \/ /\ file' = IF tx.stale THEN file ELSE AppendLine(file, popped)
          /\ tx' = [tx EXCEPT !.pc = "limit", !.frames_count = @ + 1]
          /\ UNCHANGED faultVars
       \/ /\ ~tx.stale
          /\ Fault("tx")
          /\ file' = AppendLine(file, popped)
          /\ UNCHANGED tx
    /\ UNCHANGED <<pipe, device, disk, created, station, rxSide>>

(* fwrite only fills the stdio buffer, so it succeeds and the frame counts;
   whether fflush then gets it into the file is not looked at. *)
TxWrite ==
    /\ tx.pc = "put"
    /\ tx' = [tx EXCEPT !.pc = "limit", !.frames_count = @ + 1]
    /\ \/ /\ ~tx.stale
          /\ file' = AppendLine(file, popped)
          /\ UNCHANGED faultVars
       \/ /\ ~tx.stale
          /\ Fault("tx")
          /\ file' \in {file, AppendTorn(file, popped)}
       \/ tx.stale /\ UNCHANGED <<file, faultVars>>
    /\ UNCHANGED <<pipe, device, disk, created, station, rxSide>>

no_time_limit ==
    /\ tx.pc = "limit"
    /\ LET complete == tx.frames_count >= MAX_WRITE_COUNT
       IN  /\ transfer_complete' = complete
           /\ tx' = [tx EXCEPT !.pc = IF complete \/ tx.error THEN "umount" ELSE "next"]
    /\ UNCHANGED <<pipe, medium, open_dirs, rxSide, faultVars>>

limit_off_by_one ==
    /\ tx.pc = "limit"
    /\ LET complete == tx.frames_count > MAX_WRITE_COUNT \/ tx.expired
       IN  /\ transfer_complete' = complete
           /\ tx' = [tx EXCEPT !.pc = IF complete \/ tx.error THEN "umount" ELSE "next"]
    /\ UNCHANGED <<pipe, medium, open_dirs, rxSide, faultVars>>

TxLimit ==
    /\ tx.pc = "limit"
    /\ LET complete == tx.frames_count >= MAX_WRITE_COUNT \/ tx.expired
       IN  /\ transfer_complete' = complete
           /\ tx' = [tx EXCEPT !.pc = IF complete \/ tx.error THEN "umount" ELSE "next"]
    /\ UNCHANGED <<pipe, medium, open_dirs, rxSide, faultVars>>

TxUmount ==
    /\ tx.pc = "umount"
    /\ umount("tx")
    /\ transfer_complete' = TRUE
    /\ tx' = TxPolling
    /\ UNCHANGED <<pipe, file, created, open_dirs, rxSide>>

-----------------------------------------------------------------------------
(* _linkmod_files_rx_thread_loop and _pop_from_frames_file *)

truncate_at_open ==
    /\ rx.pc = "poll"
    /\ device = "rx"
    /\ created
    /\ rx' = [pc |-> "read", todo |-> file]
    /\ file' = <<>>
    /\ UNCHANGED <<pipe, device, disk, created, txSide, pushed, faultVars>>

RxOpen ==
    /\ rx.pc = "poll"
    /\ device = "rx"
    /\ created
    /\ rx' = [pc |-> "read", todo |-> file]
    /\ UNCHANGED <<pipe, medium, txSide, pushed, faultVars>>

(* One line: a whole one is a frame.  A cut one at the end stops the loop.  A
   garbled one decodes to a frame nobody sent, or base64_decode refuses it and
   leaves the size undefined for pigeon_frame_new to use: the line is dropped
   or the program crashes. *)
RxLine ==
    /\ rx.pc = "read"
    /\ rx.todo # <<>>
    /\ LET line == Head(rx.todo)
       IN  \/ /\ line.kind = "whole"
              /\ pushed' = Append(pushed, line.frame)
              /\ rx' = [rx EXCEPT !.todo = Tail(@)]
           \/ /\ line.kind = "torn"
              /\ rx' = [rx EXCEPT !.pc = "truncate", !.todo = <<>>]
              /\ UNCHANGED pushed
           \/ /\ line.kind = "garbled"
              /\ \/ pushed' = Append(pushed, Junk) /\ rx' = [rx EXCEPT !.todo = Tail(@)]
                 \/ UNCHANGED pushed /\ rx' = [rx EXCEPT !.todo = Tail(@)]
                 \/ UNCHANGED pushed /\ rx' = [pc |-> "crashed", todo |-> <<>>]
    /\ UNCHANGED <<pipe, medium, txSide, faultVars>>

rx_end_anywhere ==
    /\ rx.pc = "read"
    /\ rx' = [pc |-> "truncate", todo |-> <<>>]
    /\ UNCHANGED <<pipe, medium, txSide, pushed, faultVars>>

RxEnd ==
    /\ rx.pc = "read"
    /\ rx.todo = <<>>
    /\ rx' = [rx EXCEPT !.pc = "truncate"]
    /\ UNCHANGED <<pipe, medium, txSide, pushed, faultVars>>

(* fgets returns NULL for a read error as it does at the end of the file. *)
RxReadError ==
    /\ rx.pc = "read"
    /\ rx.todo # <<>>
    /\ \/ device # "rx" /\ UNCHANGED faultVars
       \/ Fault("read")
    /\ rx' = [pc |-> "truncate", todo |-> <<>>]
    /\ UNCHANGED <<pipe, medium, txSide, pushed>>

(* The file is opened again to empty it; whether that works is not looked at. *)
RxTruncate ==
    /\ rx.pc = "truncate"
    /\ \/ device = "rx" /\ file' = <<>> /\ UNCHANGED faultVars
       \/ device = "rx" /\ Fault("rx") /\ UNCHANGED file
       \/ device # "rx" /\ UNCHANGED <<file, faultVars>>
    /\ rx' = [rx EXCEPT !.pc = "umount"]
    /\ UNCHANGED <<pipe, device, disk, created, txSide, pushed>>

rx_keeps_mounted ==
    /\ rx.pc = "umount"
    /\ rx' = RxPolling
    /\ UNCHANGED <<pipe, medium, txSide, pushed, faultVars>>

RxUmount ==
    /\ rx.pc = "umount"
    /\ umount("rx")
    /\ rx' = RxPolling
    /\ UNCHANGED <<pipe, file, created, txSide, pushed>>

(* The program of the receiving station is stopped at any moment, or after a
   crash, and starts again. *)
RxRestart ==
    /\ rx.pc # "poll"
    /\ Fault("rx")
    /\ rx' = RxPolling
    /\ UNCHANGED <<pipe, medium, txSide, pushed>>

-----------------------------------------------------------------------------
TxTransfer ==
    \/ TxHasNext \/ TxNoFrame \/ TxWait \/ TxTryPop
    \/ TxOpen \/ TxWrite \/ TxLimit \/ TxUmount

RxStep == RxOpen \/ RxLine \/ RxEnd \/ RxTruncate \/ RxUmount

Next ==
    \/ FrameArrives
    \/ Reset
    \/ Writeback
    \/ \E where \in {"tx", "rx"} : Plug(where)
    \/ Remove
    \/ Yank
    \/ TxPoll
    \/ TimeLimit
    \/ TxTransfer
    \/ TxSpuriousWakeup
    \/ RxStep
    \/ RxReadError
    \/ RxRestart

Spec == Init /\ [][Next]_vars

(* The threads run, and time passes. *)
FairSpec ==
    Spec /\ WF_vars(TxPoll) /\ WF_vars(TxTransfer) /\ WF_vars(TimeLimit)
         /\ WF_vars(RxStep)

-----------------------------------------------------------------------------
(***************************************************************************)
(* Properties.                                                             *)
(***************************************************************************)

FramesOf(lines) == {lines[i].frame : i \in {j \in DOMAIN lines : lines[j].kind = "whole"}}

InHand == IF tx.pc \in {"open", "put"} THEN {popped} ELSE {}

Received == {pushed[i] : i \in DOMAIN pushed}

(* As long as the sending side wrote what it was told to and no line failed to
   be read, a frame taken out of the tx pipe is in hand, on the medium or with
   the receiver, whenever the device is pulled out of the receiving station or
   that station is restarted: the file is emptied only after its last frame
   was pushed. *)
NothingLost ==
    faulted \cap {"tx", "read"} = {} =>
        \A f \in 1 .. popped : f \in InHand \cup FramesOf(file) \cup Received

(* Whatever was cut, failed or restarted on either side, a whole frame on the
   medium is there until the receiver has it: no write of the other side, no
   removal in the middle of one and no writeback after the file was emptied
   takes it away, unless a line failed to be read. *)
MediumKeepsFrames ==
    [][ "read" \notin faulted' =>
            FramesOf(disk) \subseteq FramesOf(disk') \cup Received' ]_vars

(* Without a fault the receiver gets every frame that leaves the pipe once, in
   that order, over any number of transfers and limits; a umount that fails on
   either side or a reset of the pipe changes nothing about that. *)
OnceInOrder ==
    faulted \subseteq {"umount", "reset"} => \A i \in DOMAIN pushed : pushed[i] = i

(* The frames file is in the order of the pipe and has no frame twice, also
   after the device was pulled out and lines came back or were cut. *)
FileInOrder ==
    \A lines \in {file, disk} :
        \A i, j \in DOMAIN lines : i < j => lines[i].frame < lines[j].frame

(* A transfer that wrote a frame ends and the device is let go, whether frames
   stop coming, keep coming, or the device is gone.  The code has one way out
   of this: a reset between the look into the pipe and the pop leaves the loop
   in pop, past its time limit, until the signal of a later frame wakes it. *)
TransferEnds ==
    tx.frames_count > 0 ~>
        \/ tx.pc = "poll"
        \/ "reset" \in faulted /\ [](tx.pc \in {"wait", "tested", "asleep"})

(* A device with a frames file is read by the receiver and let go again, also
   when umount failed at first or the station was restarted in the middle, unless a line
   crashed the program. *)
DeviceIsReleased == device = "rx" /\ created ~> device = "away" \/ rx.pc = "crashed"

(* "Once the device is removed, we should be ready to transfer files again"
   (linkmod_files.c): transfer_complete is reset only while no device is
   mounted, so that one device does not get a second transfer. *)
ReadyOnlyAfterRemoval ==
    [][transfer_complete /\ ~transfer_complete' => device # "tx"]_vars

=============================================================================
