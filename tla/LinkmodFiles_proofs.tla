------------------------ MODULE LinkmodFiles_proofs ------------------------
(***************************************************************************)
(* Proofs about LinkmodFiles: for any number of frames, any limit of a     *)
(* transfer, any faults.                                                   *)
(***************************************************************************)
EXTENDS LinkmodFiles, SequenceTheorems, TLAPS

(* The last frame that can be in the file: the one in hand is not. *)
Written == IF tx.pc \in {"open", "put"} THEN popped - 1 ELSE popped

Increasing(lines) == \A i, j \in DOMAIN lines : i < j => lines[i].frame < lines[j].frame
UpTo(lines, n) == \A i \in DOMAIN lines : lines[i].frame <= n
AllWhole(lines) == \A i \in DOMAIN lines : lines[i].kind = "whole"
Consecutive(lines, n) == \A i \in DOMAIN lines : lines[i] = Whole(n + i)

(* Where it is in a round that has no frame yet. *)
Popping == {"next", "wait", "tested", "asleep", "try_pop"}

(* Where the tx module is in a transfer it has room for a frame, and in the
   middle of a round it has one. *)
RoundInv ==
    /\ tx.pc \in Popping \cup {"open", "put"} => tx.frames_count < MAX_WRITE_COUNT
    /\ tx.pc \in {"open", "put"} => popped >= 1

FileInv ==
    /\ Increasing(file) /\ Increasing(disk)
    /\ UpTo(file, Written) /\ UpTo(disk, Written)

(* The file extends the medium while it is mounted at the tx station, up to a
   last line that was cut there; at the rx station it is that of the medium, or
   it was emptied.  Only a last line is cut. *)
Continues(old, new) ==
    /\ Len(old) <= Len(new)
    /\ \A i \in DOMAIN old :
           new[i] = old[i] \/ (i = Len(old) /\ old[i].kind # "whole")

Extends == Continues(disk, file)

TornLast(lines) == \A i \in DOMAIN lines : lines[i].kind = "torn" => i = Len(lines)

MediumInv ==
    /\ device = "tx" => Extends
    /\ device = "rx" => file = disk \/ file = <<>>
    /\ device = "away" => file = disk
    /\ tx.pc = "put" => device = "tx" \/ tx.stale
    /\ TornLast(file) /\ TornLast(disk) /\ TornLast(rx.todo)

(* As long as no line failed to be read, the rx side empties the file when it
   has pushed what is in it. *)
AllRead == "read" \notin faulted

ReadInv ==
    /\ FramesOf(disk) \subseteq FramesOf(file) \cup Received
    /\ device = "rx" /\ rx.pc = "read" =>
           FramesOf(file) \subseteq Received \cup FramesOf(rx.todo)
    /\ device = "rx" /\ rx.pc = "truncate" => FramesOf(file) \subseteq Received

(* As long as the tx side had no fault either, the device stays there during a
   transfer and every line is whole. *)
Clean == faulted \cap {"tx", "read"} = {}

Kept ==
    /\ tx.pc # "poll" => device = "tx" /\ ~tx.stale
    /\ AllWhole(file) /\ AllWhole(disk) /\ AllWhole(rx.todo)

Safe == \A f \in 1 .. popped : f \in InHand \cup FramesOf(file) \cup Received

(* Without faults but umount's and resets, the frames pushed and the lines that follow
   them are the frames written so far, in order. *)
Harmless == faulted \subseteq {"umount", "reset"}

Orderly ==
    /\ tx.pc # "poll" => device = "tx" /\ ~tx.stale
    /\ rx.pc # "poll" => device = "rx"
    /\ rx.pc # "crashed"
    /\ \A i \in DOMAIN pushed : pushed[i] = i
    /\ rx.pc \in {"poll", "umount"} =>
           Consecutive(file, Len(pushed)) /\ Len(pushed) + Len(file) = Written
    /\ rx.pc = "read" =>
           Consecutive(rx.todo, Len(pushed)) /\ Len(pushed) + Len(rx.todo) = Written
    /\ rx.pc = "truncate" => Len(pushed) = Written

IndInv ==
    /\ TypeOK
    /\ RoundInv
    /\ FileInv
    /\ MediumInv
    /\ AllRead => ReadInv
    /\ Clean => Kept /\ Safe
    /\ Harmless => Orderly

-----------------------------------------------------------------------------
(* The frames file. *)

LEMMA WholeIsLine == \A f \in Frames : Whole(f) \in Lines
  BY DEF Whole, Lines

LEMMA LineFrame == \A line \in Lines : line.frame \in Frames /\ line.frame \in Int
  <1>1. \A f \in Frames : f \in Int
    BY DEF Frames
  <1>2. QED
    BY <1>1 DEF Lines

LEMMA LinesAre ==
    ASSUME NEW lines \in Seq(Lines)
    PROVE  \A i \in DOMAIN lines : lines[i] \in Lines /\ lines[i].frame \in Int
  <1>1. \A i \in DOMAIN lines : lines[i] \in Lines
    OBVIOUS
  <1>2. QED
    BY <1>1, LineFrame

(* Appending one line of a frame later than all in the file. *)
LEMMA AppendKeeps ==
    ASSUME NEW lines \in Seq(Lines), NEW line \in Lines, NEW n \in Int,
           Increasing(lines), UpTo(lines, n), n < line.frame
    PROVE  /\ Append(lines, line) \in Seq(Lines)
           /\ Increasing(Append(lines, line))
           /\ UpTo(Append(lines, line), line.frame)
  <1> DEFINE new == Append(lines, line)
  <1>1. /\ new \in Seq(Lines) /\ Len(new) = Len(lines) + 1 /\ Len(lines) \in Nat
        /\ DOMAIN new = 1 .. Len(lines) + 1 /\ DOMAIN lines = 1 .. Len(lines)
        /\ \A i \in 1 .. Len(lines) : new[i] = lines[i]
        /\ new[Len(lines) + 1] = line
    OBVIOUS
  <1>2. \A i \in DOMAIN lines : lines[i].frame \in Int
    BY LinesAre
  <1>3. line.frame \in Int
    BY LineFrame
  <1> HIDE DEF new
  <1>4. Increasing(new)
    BY <1>1, <1>2, <1>3 DEF Increasing, UpTo
  <1>5. UpTo(new, line.frame)
    BY <1>1, <1>2, <1>3 DEF UpTo
  <1>6. QED
    BY <1>1, <1>4, <1>5 DEF new

(* _pigeon_frame_to_file appends, whether or not the last line was cut off. *)
LEMMA AppendLineKeeps ==
    ASSUME NEW lines \in Seq(Lines), NEW f \in Frames,
           Increasing(lines), UpTo(lines, f - 1)
    PROVE  /\ AppendLine(lines, f) \in Seq(Lines)
           /\ Increasing(AppendLine(lines, f))
           /\ UpTo(AppendLine(lines, f), f)
           /\ AllWhole(lines) => AppendLine(lines, f) = Append(lines, Whole(f))
  <1>1. f \in Int /\ Whole(f) \in Lines /\ Whole(f).frame = f
    BY WholeIsLine DEF Frames, Whole
  <1>2. \A i \in DOMAIN lines : lines[i].frame \in Int
    BY LinesAre
  <1>3. CASE lines # <<>> /\ lines[Len(lines)].kind = "torn"
    <2> DEFINE last == [kind |-> "garbled", frame |-> f]
               new == [lines EXCEPT ![Len(lines)] = last]
    <2>1. AppendLine(lines, f) = new
      BY <1>3 DEF AppendLine
    <2>2. last \in Lines /\ last.frame = f
      BY DEF Lines
    <2>3. /\ Len(lines) \in Nat /\ Len(lines) \in DOMAIN lines
          /\ DOMAIN lines = 1 .. Len(lines)
      BY <1>3
    <2> HIDE DEF last
    <2>4. /\ new \in Seq(Lines) /\ DOMAIN new = 1 .. Len(lines)
          /\ \A i \in 1 .. Len(lines) - 1 : new[i] = lines[i]
          /\ new[Len(lines)] = last
      BY <2>2, <2>3
    <2> HIDE DEF new
    <2>5. Increasing(new) /\ UpTo(new, f)
      BY <1>1, <1>2, <2>2, <2>3, <2>4, SMTT(20) DEF Increasing, UpTo
    <2>6. ~AllWhole(lines)
      BY <1>3, <2>3 DEF AllWhole
    <2>7. QED
      BY <2>1, <2>4, <2>5, <2>6
  <1>4. CASE ~(lines # <<>> /\ lines[Len(lines)].kind = "torn")
    <2>1. AppendLine(lines, f) = Append(lines, Whole(f))
      BY <1>4 DEF AppendLine
    <2>2. QED
      BY <2>1, <1>1, AppendKeeps
  <1>5. QED
    BY <1>3, <1>4

(* What is left of a failing write. *)
LEMMA AppendTornKeeps ==
    ASSUME NEW lines \in Seq(Lines), NEW f \in Frames,
           Increasing(lines), UpTo(lines, f - 1)
    PROVE  /\ AppendTorn(lines, f) \in Seq(Lines)
           /\ Increasing(AppendTorn(lines, f))
           /\ UpTo(AppendTorn(lines, f), f)
  <1> DEFINE last == [kind |-> "torn", frame |-> f]
             new == [lines EXCEPT ![Len(lines)] = last]
  <1>1. f \in Int /\ f - 1 \in Int /\ f - 1 < f
    BY DEF Frames
  <1>2. last \in Lines /\ last.frame = f
    BY DEF Lines
  <1>3. \A i \in DOMAIN lines : lines[i].frame \in Int
    BY LinesAre
  <1>4. AppendTorn(lines, f) = new \/ AppendTorn(lines, f) = Append(lines, last)
    BY DEF AppendTorn
  <1> HIDE DEF last
  <1>5. CASE AppendTorn(lines, f) = new /\ lines # <<>>
    <2>1. /\ Len(lines) \in Nat /\ Len(lines) \in DOMAIN lines
          /\ DOMAIN lines = 1 .. Len(lines)
      BY <1>5
    <2>2. /\ new \in Seq(Lines) /\ DOMAIN new = 1 .. Len(lines)
          /\ \A i \in 1 .. Len(lines) - 1 : new[i] = lines[i]
          /\ new[Len(lines)] = last
      BY <1>2, <2>1
    <2> HIDE DEF new
    <2>3. Increasing(new) /\ UpTo(new, f)
      BY <1>1, <1>2, <1>3, <2>1, <2>2, SMTT(20) DEF Increasing, UpTo
    <2>4. QED
      BY <1>5, <2>2, <2>3
  <1>6. CASE AppendTorn(lines, f) = Append(lines, last)
    BY <1>1, <1>2, <1>6, AppendKeeps
  <1>7. lines = <<>> => AppendTorn(lines, f) = Append(lines, last)
    BY DEF AppendTorn, last
  <1>8. QED
    BY <1>4, <1>5, <1>6, <1>7

LEMMA Beginning ==
    ASSUME NEW lines \in Seq(Lines), NEW k \in 0 .. Len(lines), Increasing(lines)
    PROVE  /\ SubSeq(lines, 1, k) \in Seq(Lines)
           /\ Increasing(SubSeq(lines, 1, k))
           /\ \A n \in Int : UpTo(lines, n) => UpTo(SubSeq(lines, 1, k), n)
           /\ k < Len(lines) => UpTo(SubSeq(lines, 1, k), lines[k + 1].frame - 1)
  <1> DEFINE new == SubSeq(lines, 1, k)
  <1>1. /\ k \in Int /\ \A i \in 1 .. k : lines[i] \in Lines
        /\ Len(lines) \in Nat /\ DOMAIN lines = 1 .. Len(lines)
    OBVIOUS
  <1>2. /\ new \in Seq(Lines)
        /\ Len(new) = k
        /\ \A i \in 1 .. k : new[i] = lines[i]
    BY <1>1, SubSeqProperties
  <1>3. DOMAIN new = 1 .. k
    BY <1>2
  <1>4. \A i \in DOMAIN lines : lines[i].frame \in Int
    BY LinesAre
  <1> HIDE DEF new
  <1>5. Increasing(new)
    BY <1>1, <1>2, <1>3 DEF Increasing
  <1>6. \A n \in Int : UpTo(lines, n) => UpTo(new, n)
    BY <1>1, <1>2, <1>3 DEF UpTo
  <1>7. k < Len(lines) => UpTo(new, lines[k + 1].frame - 1)
    <2> SUFFICES ASSUME k < Len(lines), NEW i \in DOMAIN new
                 PROVE  new[i].frame <= lines[k + 1].frame - 1
      BY DEF UpTo
    <2>1. /\ i \in DOMAIN lines /\ k + 1 \in DOMAIN lines
          /\ i < k + 1 /\ new[i] = lines[i]
      BY <1>1, <1>2, <1>3
    <2>2. lines[i].frame < lines[k + 1].frame
      BY <2>1, Zenon DEF Increasing
    <2> QED
      BY <1>4, <2>1, <2>2
  <1>8. QED
    BY <1>2, <1>5, <1>6, <1>7 DEF new

(* What is left of the file after the device was pulled out. *)
LEMMA SurvivorsKeep ==
    ASSUME file \in Seq(Lines), disk \in Seq(Lines), NEW lines \in Survivors,
           Increasing(file), Increasing(disk), NEW n \in Int, UpTo(file, n), UpTo(disk, n)
    PROVE  /\ lines \in Seq(Lines) /\ Increasing(lines) /\ UpTo(lines, n)
           /\ file = disk \/ file = <<>> => lines = disk
  <1> DEFINE torn(k) == [file[k] EXCEPT !.kind = "torn"]
             added == {k \in DOMAIN file : k \in DOMAIN disk => file[k] # disk[k]}
  <1>1. /\ Len(file) \in Nat /\ Len(disk) \in Nat /\ DOMAIN file = 1 .. Len(file)
        /\ added \subseteq 1 .. Len(file)
        /\ file = disk \/ file = <<>> => added = {}
    OBVIOUS
  <1> HIDE DEF added
  <1>2. \A i \in DOMAIN file : file[i] \in Lines /\ file[i].frame \in Int
    BY LinesAre
  <1>3. CASE lines = disk
    BY <1>3
  <1>4. CASE \E k \in added : lines = SubSeq(file, 1, k)
    <2>1. PICK k \in added : lines = SubSeq(file, 1, k)
      BY <1>4
    <2>2. k \in 0 .. Len(file)
      BY <2>1, <1>1
    <2>3. lines \in Seq(Lines) /\ Increasing(lines) /\ UpTo(lines, n)
      BY <2>1, <2>2, Beginning
    <2>4. ~(file = disk \/ file = <<>>)
      BY <2>1, <1>1
    <2>5. QED
      BY <2>3, <2>4
  <1>5. CASE \E k \in added :
                lines = Append(SubSeq(file, 1, k - 1), torn(k))
    <2>1. PICK k \in added :
                lines = Append(SubSeq(file, 1, k - 1), torn(k))
      BY <1>5
    <2>2. k \in 1 .. Len(file) /\ k - 1 \in 0 .. Len(file) /\ k - 1 < Len(file)
          /\ (k - 1) + 1 = k
      BY <2>1, <1>1
    <2>3. file[k] \in Lines /\ file[k].frame \in Int /\ file[k].frame <= n
      BY <2>2, <1>1, <1>2 DEF UpTo
    <2>4. \A line \in Lines : /\ [line EXCEPT !.kind = "torn"] \in Lines
                              /\ [line EXCEPT !.kind = "torn"].frame = line.frame
      BY DEF Lines
    <2>5. torn(k) \in Lines /\ torn(k).frame = file[k].frame
      BY <2>3, <2>4
    <2> DEFINE before == SubSeq(file, 1, k - 1)
               line == torn(k)
               bound == file[k].frame - 1
    <2>6. before \in Seq(Lines) /\ Increasing(before) /\ UpTo(before, bound)
      BY <2>2, Beginning
    <2>7. line \in Lines /\ bound \in Int /\ bound < line.frame /\ line.frame <= n
      BY <2>3, <2>5
    <2>8. lines = Append(before, line)
      BY <2>1
    <2> HIDE DEF before, line, bound, torn
    <2>9. lines \in Seq(Lines) /\ Increasing(lines) /\ UpTo(lines, line.frame)
      BY <2>6, <2>7, <2>8, AppendKeeps
    <2>10. \A i \in DOMAIN lines : lines[i].frame \in Int
      BY <2>9, LinesAre
    <2>11. line.frame \in Int
      BY <2>7, LineFrame
    <2>12. UpTo(lines, n)
      BY <2>7, <2>9, <2>10, <2>11 DEF UpTo
    <2>13. ~(file = disk \/ file = <<>>)
      BY <2>1, <1>1
    <2>14. QED
      BY <2>9, <2>12, <2>13
  <1>6. QED
    BY <1>3, <1>4, <1>5 DEF Survivors, added

LEMMA FramesOfAppend ==
    ASSUME NEW lines \in Seq(Lines), NEW f \in Frames
    PROVE  FramesOf(lines) \cup {f} \subseteq FramesOf(Append(lines, Whole(f)))
  <1> DEFINE new == Append(lines, Whole(f))
  <1>1. /\ Len(lines) \in Nat /\ DOMAIN lines = 1 .. Len(lines)
        /\ DOMAIN new = 1 .. Len(lines) + 1
        /\ \A i \in 1 .. Len(lines) : new[i] = lines[i]
        /\ new[Len(lines) + 1] = Whole(f)
    BY WholeIsLine
  <1>2. Whole(f).kind = "whole" /\ Whole(f).frame = f
    BY DEF Whole
  <1> HIDE DEF new
  <1>3. ASSUME NEW g \in FramesOf(lines) PROVE g \in FramesOf(new)
    <2>1. PICK i \in DOMAIN lines : lines[i].kind = "whole" /\ g = lines[i].frame
      BY <1>3 DEF FramesOf
    <2>2. i \in DOMAIN new /\ new[i] = lines[i]
      BY <1>1
    <2>3. QED
      BY <2>1, <2>2 DEF FramesOf
  <1>4. f \in FramesOf(new)
    <2>1. Len(lines) + 1 \in DOMAIN new
      BY <1>1
    <2>2. QED
      BY <2>1, <1>1, <1>2 DEF FramesOf
  <1>5. QED
    BY <1>3, <1>4 DEF new

LEMMA FramesOfTail ==
    ASSUME NEW lines \in Seq(Lines), lines # <<>>
    PROVE  /\ FramesOf(lines) \subseteq FramesOf(Tail(lines)) \cup {Head(lines).frame}
           /\ Head(lines).kind # "whole" => FramesOf(lines) \subseteq FramesOf(Tail(lines))
  <1>1. /\ Len(lines) \in Nat /\ DOMAIN lines = 1 .. Len(lines)
        /\ DOMAIN Tail(lines) = 1 .. Len(lines) - 1
        /\ \A i \in 1 .. Len(lines) - 1 : Tail(lines)[i] = lines[i + 1]
        /\ Head(lines) = lines[1]
    OBVIOUS
  <1>2. ASSUME NEW i \in DOMAIN lines, lines[i].kind = "whole", i # 1
        PROVE  lines[i].frame \in FramesOf(Tail(lines))
    <2>1. i - 1 \in DOMAIN Tail(lines) /\ Tail(lines)[i - 1] = lines[i]
      BY <1>1, <1>2
    <2>2. QED
      BY <1>2, <2>1 DEF FramesOf
  <1>3. QED
    BY <1>1, <1>2 DEF FramesOf

LEMMA FramesOfNone == FramesOf(<<>>) = {} /\ AllWhole(<<>>)
  BY DEF FramesOf, AllWhole

-----------------------------------------------------------------------------
(* Types, and the order of the file. *)

LEMMA FaultIs ==
    ASSUME TypeOK, NEW kind, Fault(kind)
    PROVE  /\ faulted' \subseteq Faults /\ faultCount' \in 0 .. MaxFaults
           /\ kind \in faulted' /\ faulted \subseteq faulted'
  BY FaultsAssumption DEF Fault, TypeOK

LEMMA NoFaultIs ==
    ASSUME TypeOK, UNCHANGED faultVars
    PROVE  faulted' = faulted /\ faulted' \subseteq Faults /\ faultCount' \in 0 .. MaxFaults
  BY DEF TypeOK, faultVars

(* A station between two transfers, and at the start of one. *)
TxStates == [pc : {"poll", "next", "wait", "tested", "asleep", "try_pop", "open", "put",
                "limit", "umount"},
             frames_count : 0 .. MAX_WRITE_COUNT,
             expired : BOOLEAN, stale : BOOLEAN, error : BOOLEAN]

LEMMA TxStatesAre ==
    /\ TxPolling \in TxStates
    /\ TxPolling.pc = "poll" /\ TxPolling.frames_count = 0
    /\ [TxPolling EXCEPT !.pc = "next"] \in TxStates
    /\ [TxPolling EXCEPT !.pc = "next"].pc = "next"
    /\ [TxPolling EXCEPT !.pc = "next"].frames_count = 0
    /\ [TxPolling EXCEPT !.pc = "next"].stale = FALSE
  <1>1. 0 \in 0 .. MAX_WRITE_COUNT
    BY WriteCountAssumption
  <1> DEFINE counts == 0 .. MAX_WRITE_COUNT
  <1>2. 0 \in counts
    BY <1>1
  <1>3. TxStates = [pc : {"poll", "next", "wait", "tested", "asleep", "try_pop", "open", "put",
                "limit", "umount"},
                    frames_count : counts,
                    expired : BOOLEAN, stale : BOOLEAN, error : BOOLEAN]
    BY DEF TxStates
  <1> HIDE DEF counts
  <1>4. QED
    BY <1>2, <1>3 DEF TxPolling

LEMMA RxPollingIs ==
    RxPolling \in [pc : {"poll", "read", "truncate", "umount", "crashed"}, todo : Seq(Lines)]
  BY DEF RxPolling

LEMMA InitBasics == Init => TypeOK /\ RoundInv /\ FileInv
  <1> SUFFICES ASSUME Init PROVE TypeOK /\ RoundInv /\ FileInv
    OBVIOUS
  <1>1. /\ MaxFrames \in Nat /\ MAX_WRITE_COUNT \in Nat /\ MAX_WRITE_COUNT > 0
        /\ MaxOpenDirs \in Nat /\ MaxFaults \in Nat
    BY MaxFramesAssumption, WriteCountAssumption, OpenDirsAssumption, FaultsAssumption
  <1>2. TypeOK
    <2>1. arrived \in 0 .. MaxFrames /\ popped \in 0 .. arrived
      BY <1>1 DEF Init
    <2>2. open_dirs \in 0 .. MaxOpenDirs /\ faultCount \in 0 .. MaxFaults
      BY <1>1 DEF Init
    <2>3. file \in Seq(Lines) /\ disk \in Seq(Lines) /\ pushed \in Seq(Frames \cup {Junk})
      BY DEF Init
    <2>4. QED
      BY <2>1, <2>2, <2>3, TxStatesAre, RxPollingIs DEF Init, TypeOK, TxStates
  <1>3. RoundInv /\ FileInv
    BY DEF Init, RoundInv, FileInv, TxPolling, Popping, Increasing, UpTo
  <1>4. QED
    BY <1>2, <1>3

(* What a umount does to the medium. *)
LEMMA UmountIs ==
    ASSUME TypeOK, FileInv, NEW where \in {"tx", "rx"}, umount(where)
    PROVE  /\ device' \in {"tx", "rx", "away"}
           /\ disk' = disk \/ (device = where /\ device' = "away" /\ disk' = file)
           /\ disk' = disk => device' = device \/ (device = where /\ device' = "away" /\ disk' = file)
           /\ faulted' \subseteq Faults /\ faultCount' \in 0 .. MaxFaults
           /\ faulted \subseteq faulted' /\ faulted' \subseteq faulted \cup {"umount"}
  <1>1. CASE device = where /\ device' = "away" /\ disk' = file /\ UNCHANGED faultVars
    BY <1>1, NoFaultIs
  <1>2. CASE device = where /\ Fault("umount") /\ UNCHANGED <<device, disk>>
    <2>1. faulted' \subseteq faulted \cup {"umount"}
      BY <1>2 DEF Fault
    <2>2. QED
      BY <1>2, <2>1, FaultIs DEF TypeOK
  <1>3. CASE device # where /\ UNCHANGED <<device, disk, faultVars>>
    BY <1>3, NoFaultIs DEF TypeOK
  <1>4. QED
    BY <1>1, <1>2, <1>3 DEF umount

(* Actions that leave the tx module and the contents of the pipe alone: enough
   for the order of the file is that the lines come from the file or the disk. *)
LEMMA SameRound ==
    ASSUME TypeOK, RoundInv, FileInv, UNCHANGED popped,
           tx'.pc = tx.pc, tx'.frames_count = tx.frames_count,
           file' = file \/ file' = <<>>, disk' = disk \/ disk' = file
    PROVE  RoundInv' /\ FileInv'
  <1>1. Written' = Written
    BY DEF Written
  <1>2. Increasing(<<>>) /\ UpTo(<<>>, Written)
    BY DEF Increasing, UpTo
  <1>3. QED
    BY <1>1, <1>2 DEF RoundInv, FileInv

(* Steps of the pipe, and of the tx module on its way to a frame. *)
Quiet == FrameArrives \/ Reset \/ TxHasNext \/ TxWait \/ TxSpuriousWakeup

LEMMA QuietIs ==
    ASSUME TypeOK, Quiet
    PROVE  /\ UNCHANGED <<popped, device, file, disk, created, rx, pushed>>
           /\ tx' = tx \/ (tx.pc \in Popping /\ tx'.pc \in Popping)
           /\ tx'.stale = tx.stale /\ tx'.frames_count = tx.frames_count
           /\ faulted \subseteq faulted' /\ faulted' \subseteq faulted \cup {"reset"}
           /\ TypeOK'
  <1>1. CASE FrameArrives
    <2>1. arrived' \in 0 .. MaxFrames /\ popped \in 0 .. arrived'
      BY <1>1, MaxFramesAssumption DEF FrameArrives, TypeOK
    <2>2. /\ tx' = tx \/ (tx.pc = "asleep" /\ tx' = [tx EXCEPT !.pc = "wait"])
          /\ UNCHANGED <<popped, device, file, disk, created, station, rxSide, faultVars>>
      BY <1>1 DEF FrameArrives, medium
    <2>3. QED
      BY <2>1, <2>2 DEF TypeOK, Popping, station, rxSide, faultVars
  <1>2. CASE Reset
    <2>1. faulted' \subseteq Faults /\ faultCount' \in 0 .. MaxFaults /\ faulted \subseteq faulted'
      BY <1>2, FaultIs DEF Reset
    <2>2. faulted' \subseteq faulted \cup {"reset"}
      BY <1>2 DEF Reset, Fault
    <2>3. popped \in 0 .. popped /\ popped \in 0 .. MaxFrames
      BY MaxFramesAssumption DEF TypeOK
    <2>4. /\ arrived' = popped
          /\ UNCHANGED <<popped, device, file, disk, created, tx, station, rxSide>>
      BY <1>2 DEF Reset, medium, txSide
    <2>5. QED
      BY <2>1, <2>2, <2>3, <2>4 DEF TypeOK, station, rxSide
  <1>3. CASE TxHasNext \/ TxWait \/ TxSpuriousWakeup
    <2>1. PICK to \in Popping : tx.pc \in Popping /\ tx' = [tx EXCEPT !.pc = to]
      BY <1>3 DEF TxHasNext, TxWait, TxSpuriousWakeup, TxMoves, Popping
    <2>2. UNCHANGED <<pipe, medium, station, rxSide, faultVars>>
      BY <1>3 DEF TxHasNext, TxWait, TxSpuriousWakeup
    <2>3. QED
      BY <2>1, <2>2 DEF TypeOK, Popping, pipe, medium, station, rxSide, faultVars
  <1>4. QED
    BY <1>1, <1>2, <1>3 DEF Quiet

LEMMA QuietBasics ==
    ASSUME TypeOK, RoundInv, FileInv, Quiet
    PROVE  TypeOK' /\ RoundInv' /\ FileInv'
  <1>1. Written' = Written
    BY QuietIs DEF Written, Popping
  <1>2. QED
    BY <1>1, QuietIs DEF RoundInv, FileInv, Popping

LEMMA OutsideBasics ==
    ASSUME TypeOK, RoundInv, FileInv,
           Writeback \/ (\E where \in {"tx", "rx"} : Plug(where)) \/ Remove
    PROVE  TypeOK' /\ RoundInv' /\ FileInv'
  <1>2. CASE Writeback
    <2>1. TypeOK'
      BY <1>2 DEF Writeback, TypeOK, pipe, txSide, station, rxSide, faultVars
    <2>2. QED
      BY <2>1, <1>2, SameRound DEF Writeback, pipe, txSide
  <1>3. ASSUME NEW where \in {"tx", "rx"}, Plug(where) PROVE TypeOK' /\ RoundInv' /\ FileInv'
    <2>1. TypeOK'
      BY <1>3 DEF Plug, TypeOK, pipe, txSide, station, rxSide, faultVars
    <2>2. QED
      BY <2>1, <1>3, SameRound DEF Plug, pipe, txSide
  <1>4. CASE Remove
    <2>1. TypeOK'
      BY <1>4 DEF Remove, TypeOK, pipe, txSide, station, rxSide, faultVars
    <2>2. QED
      BY <2>1, <1>4, SameRound DEF Remove, pipe, txSide
  <1>5. QED
    BY <1>2, <1>3, <1>4

LEMMA YankBasics ==
    ASSUME TypeOK, RoundInv, FileInv, Yank
    PROVE  TypeOK' /\ RoundInv' /\ FileInv'
  <1>1. PICK lines \in Survivors : file' = lines /\ disk' = lines
    BY DEF Yank
  <1>2. Written \in Int
    BY DEF Written, TypeOK
  <1>3. lines \in Seq(Lines) /\ Increasing(lines) /\ UpTo(lines, Written)
    BY <1>2, SurvivorsKeep DEF TypeOK, FileInv
  <1>4. /\ tx' = [tx EXCEPT !.stale = TRUE] /\ UNCHANGED popped
        /\ tx'.pc = tx.pc /\ tx'.frames_count = tx.frames_count
    BY DEF Yank, pipe, TypeOK
  <1>5. Written' = Written
    BY <1>4 DEF Written
  <1>6. faulted' \subseteq Faults /\ faultCount' \in 0 .. MaxFaults
    BY FaultIs DEF Yank
  <1>7. created' \in BOOLEAN
    BY DEF Yank, TypeOK
  <1>8. TypeOK'
    BY <1>1, <1>3, <1>4, <1>6, <1>7 DEF Yank, TypeOK, pipe, station, rxSide
  <1>9. QED
    BY <1>1, <1>3, <1>4, <1>5, <1>8 DEF RoundInv, FileInv

LEMMA TxBasics ==
    ASSUME TypeOK, RoundInv, FileInv, TxPoll \/ TimeLimit \/ TxTransfer
    PROVE  TypeOK' /\ RoundInv' /\ FileInv'
  <1>0. /\ MaxFrames \in Nat /\ MAX_WRITE_COUNT \in Nat /\ MAX_WRITE_COUNT > 0
        /\ MaxOpenDirs \in Nat
    BY MaxFramesAssumption, WriteCountAssumption, OpenDirsAssumption
  <1>1. CASE TxPoll
    <2>1. /\ tx' = tx \/ tx' = [TxPolling EXCEPT !.pc = "next"]
          /\ UNCHANGED <<pipe, medium, rxSide, faultVars>>
          /\ tx.pc = "poll"
      BY <1>1 DEF TxPoll
    <2>2. tx' \in [pc : {"poll", "next", "wait", "tested", "asleep", "try_pop", "open", "put",
                "limit", "umount"},
                   frames_count : 0 .. MAX_WRITE_COUNT,
                   expired : BOOLEAN, stale : BOOLEAN, error : BOOLEAN]
      BY <2>1, TxStatesAre DEF TypeOK, TxStates
    <2>3. transfer_complete' \in BOOLEAN
      BY <1>1 DEF TxPoll, TypeOK, station
    <2>9. open_dirs' = open_dirs \/ (open_dirs < MaxOpenDirs /\ open_dirs' = open_dirs + 1)
      BY <1>1 DEF TxPoll, opendir_succeeds, station
    <2>10. open_dirs' \in 0 .. MaxOpenDirs
      BY <2>9, <1>0 DEF TypeOK
    <2>4. TypeOK'
      BY <2>1, <2>2, <2>3, <2>10 DEF TypeOK, pipe, medium, rxSide, faultVars
    <2>5. Written' = Written
      BY <2>1, TxStatesAre DEF Written, pipe
    <2>6. RoundInv'
      BY <2>1, <1>0, TxStatesAre DEF RoundInv, pipe, Popping
    <2>7. FileInv'
      BY <2>1, <2>5 DEF FileInv, medium
    <2>8. QED
      BY <2>4, <2>6, <2>7
  <1>2. CASE TimeLimit
    <2>1. TypeOK'
      BY <1>2 DEF TimeLimit, TypeOK, pipe, medium, station, rxSide, faultVars
    <2>2. tx'.pc = tx.pc /\ tx'.frames_count = tx.frames_count
      BY <1>2 DEF TimeLimit, TypeOK
    <2>3. QED
      BY <2>1, <2>2, <1>2, SameRound DEF TimeLimit, pipe, medium
  <1>3. CASE TxTryPop /\ popped < arrived
    <2>1. popped' \in 0 .. arrived' /\ popped' >= 1 /\ popped' = popped + 1
      BY <1>3 DEF TxTryPop, TypeOK
    <2>2. /\ tx' = [tx EXCEPT !.pc = "open"] /\ tx.pc = "try_pop"
          /\ tx'.pc = "open" /\ tx'.frames_count = tx.frames_count
      BY <1>3 DEF TxTryPop, TxMoves, TypeOK
    <2>3. TypeOK'
      BY <2>1, <2>2, <1>3 DEF TxTryPop, TypeOK, medium, station, rxSide, faultVars
    <2>4. Written' = Written
      BY <2>1, <2>2 DEF Written, TypeOK
    <2>5. RoundInv'
      BY <2>1, <2>2 DEF RoundInv, Popping
    <2>6. FileInv'
      BY <2>4, <1>3 DEF TxTryPop, FileInv, medium
    <2>7. QED
      BY <2>3, <2>5, <2>6
  <1>4. CASE TxNoFrame \/ (TxTryPop /\ ~(popped < arrived))
    <2>1. /\ tx' = [tx EXCEPT !.pc = "limit"] /\ tx.pc \in Popping /\ tx'.pc = "limit"
          /\ UNCHANGED <<pipe, medium, station, rxSide, faultVars>>
      BY <1>4 DEF TxNoFrame, TxTryPop, TxMoves, pipe, Popping, TypeOK
    <2>2. TypeOK'
      BY <2>1 DEF TypeOK, pipe, medium, station, rxSide, faultVars
    <2>3. Written' = Written
      BY <2>1 DEF Written, pipe, Popping
    <2>4. QED
      BY <2>1, <2>2, <2>3 DEF RoundInv, FileInv, medium, Popping
  <1>5. CASE TxOpen
    <2>1. /\ \/ tx' = [tx EXCEPT !.pc = "put", !.stale = FALSE] /\ UNCHANGED faultVars
             \/ /\ tx' = [tx EXCEPT !.pc = "limit", !.error = TRUE]
                /\ UNCHANGED faultVars \/ Fault("tx")
          /\ UNCHANGED <<pipe, device, file, disk, station, rxSide>>
          /\ tx.pc = "open"
      BY <1>5 DEF TxOpen
    <2>2. created' \in BOOLEAN
      BY <1>5 DEF TxOpen, TypeOK
    <2>3. faulted' \subseteq Faults /\ faultCount' \in 0 .. MaxFaults
      BY <2>1, FaultIs, NoFaultIs
    <2>4. TypeOK'
      BY <2>1, <2>2, <2>3 DEF TypeOK, pipe, station, rxSide
    <2>5. /\ tx'.pc \in {"put", "limit"} /\ tx'.frames_count = tx.frames_count
      BY <2>1 DEF TypeOK
    <2>6. RoundInv'
      BY <2>1, <2>5 DEF RoundInv, pipe, Popping
    <2>7. popped \in Int /\ Written = popped - 1 /\ popped' = popped
          /\ (Written' = popped \/ Written' = popped - 1)
      BY <2>1, <2>5 DEF Written, pipe, TypeOK
    <2>8. \A lines \in Seq(Lines) : UpTo(lines, popped - 1) => UpTo(lines, popped)
      BY <2>7, LinesAre DEF UpTo
    <2>9. FileInv'
      BY <2>1, <2>7, <2>8 DEF FileInv, TypeOK
    <2>10. QED
      BY <2>4, <2>6, <2>9
  <1>6. CASE TxWrite
    <2>1. /\ tx' = [tx EXCEPT !.pc = "limit", !.frames_count = @ + 1] /\ tx.pc = "put"
          /\ UNCHANGED <<pipe, device, disk, created, station, rxSide>>
      BY <1>6 DEF TxWrite
    <2>2. /\ tx'.pc = "limit"
          /\ tx' \in [pc : {"poll", "next", "wait", "tested", "asleep", "try_pop", "open", "put",
                "limit", "umount"},
                      frames_count : 0 .. MAX_WRITE_COUNT,
                      expired : BOOLEAN, stale : BOOLEAN, error : BOOLEAN]
      <3>1. tx.frames_count + 1 \in 0 .. MAX_WRITE_COUNT
        BY <2>1, <1>0 DEF TypeOK, RoundInv
      <3>2. QED
        BY <2>1, <3>1 DEF TypeOK
    <2>3. popped \in Frames /\ popped \in Int /\ Written = popped - 1 /\ Written' = popped
      <3>1. popped \in Int /\ popped >= 1 /\ popped <= MaxFrames
        BY <2>1, <1>0 DEF TypeOK, RoundInv
      <3>2. popped' = popped
        BY <2>1 DEF pipe
      <3>3. QED
        BY <2>1, <2>2, <3>1, <3>2, <1>0 DEF Written, Frames
    <2>4. faulted' \subseteq Faults /\ faultCount' \in 0 .. MaxFaults
      BY <1>6, FaultIs, NoFaultIs DEF TxWrite, faultVars
    <2>6. /\ file \in Seq(Lines) /\ Increasing(file) /\ UpTo(file, popped - 1)
          /\ disk \in Seq(Lines) /\ Increasing(disk) /\ UpTo(disk, popped - 1)
      BY <2>3 DEF TypeOK, FileInv
    <2>7. \A lines \in Seq(Lines) : UpTo(lines, popped - 1) => UpTo(lines, popped)
      BY <2>3, LinesAre DEF UpTo
    <2>8. file' = file \/ file' = AppendLine(file, popped) \/ file' = AppendTorn(file, popped)
      BY <1>6 DEF TxWrite
    <2>9. file' \in Seq(Lines) /\ Increasing(file') /\ UpTo(file', popped)
      <3>1. CASE file' = file
        BY <3>1, <2>6, <2>7
      <3>2. CASE file' = AppendLine(file, popped)
        BY <3>2, <2>3, <2>6, AppendLineKeeps
      <3>3. CASE file' = AppendTorn(file, popped)
        BY <3>3, <2>3, <2>6, AppendTornKeeps
      <3>4. QED
        BY <3>1, <3>2, <3>3, <2>8
    <2>10. TypeOK'
      BY <2>1, <2>2, <2>4, <2>9 DEF TypeOK, pipe, station, rxSide
    <2>11. RoundInv'
      BY <2>2 DEF RoundInv, Popping
    <2>12. FileInv'
      BY <2>1, <2>3, <2>6, <2>7, <2>9 DEF FileInv
    <2>13. QED
      BY <2>10, <2>11, <2>12
  <1>7. CASE TxLimit
    <2> DEFINE complete == tx.frames_count >= MAX_WRITE_COUNT \/ tx.expired
    <2>1. /\ tx' = [tx EXCEPT !.pc = IF complete \/ tx.error THEN "umount" ELSE "next"]
          /\ tx.pc = "limit" /\ transfer_complete' = complete
          /\ UNCHANGED <<pipe, medium, open_dirs, rxSide, faultVars>>
      BY <1>7 DEF TxLimit
    <2>2. complete \in BOOLEAN
      BY DEF TypeOK
    <2>3. /\ tx'.pc \in {"umount", "next"} /\ tx'.frames_count = tx.frames_count
          /\ (tx'.pc = "next" => ~(tx.frames_count >= MAX_WRITE_COUNT))
          /\ tx' \in [pc : {"poll", "next", "wait", "tested", "asleep", "try_pop", "open", "put",
                "limit", "umount"},
                      frames_count : 0 .. MAX_WRITE_COUNT,
                      expired : BOOLEAN, stale : BOOLEAN, error : BOOLEAN]
      BY <2>1 DEF TypeOK
    <2>4. TypeOK'
      BY <2>1, <2>2, <2>3 DEF TypeOK, pipe, medium, rxSide, faultVars
    <2>5. RoundInv'
      BY <2>3, <1>0 DEF RoundInv, Popping, TypeOK
    <2>6. Written' = Written
      BY <2>1, <2>3 DEF Written, pipe
    <2>7. FileInv'
      BY <2>1, <2>6 DEF FileInv, medium
    <2>8. QED
      BY <2>4, <2>5, <2>7
  <1>8. CASE TxUmount
    <2>1. /\ tx' = TxPolling /\ tx.pc = "umount" /\ umount("tx") /\ transfer_complete' = TRUE
          /\ UNCHANGED <<pipe, file, created, open_dirs, rxSide>>
      BY <1>8 DEF TxUmount
    <2>2. /\ device' \in {"tx", "rx", "away"} /\ (disk' = disk \/ disk' = file)
          /\ faulted' \subseteq Faults /\ faultCount' \in 0 .. MaxFaults
      BY <2>1, UmountIs
    <2>3. /\ tx'.pc = "poll"
          /\ tx' \in [pc : {"poll", "next", "wait", "tested", "asleep", "try_pop", "open", "put",
                "limit", "umount"},
                      frames_count : 0 .. MAX_WRITE_COUNT,
                      expired : BOOLEAN, stale : BOOLEAN, error : BOOLEAN]
      BY <2>1, TxStatesAre DEF TxStates
    <2>4. TypeOK'
      BY <2>1, <2>2, <2>3 DEF TypeOK, pipe, rxSide
    <2>5. Written' = Written
      BY <2>1, <2>3 DEF Written, pipe
    <2>6. QED
      BY <2>1, <2>2, <2>3, <2>4, <2>5 DEF RoundInv, FileInv, Popping
  <1>9. QED
    BY <1>1, <1>2, <1>3, <1>4, <1>5, <1>6, <1>7, <1>8, QuietBasics DEF TxTransfer, Quiet

LEMMA RxBasics ==
    ASSUME TypeOK, RoundInv, FileInv, RxStep \/ RxReadError \/ RxRestart
    PROVE  TypeOK' /\ RoundInv' /\ FileInv'
  <1>0. rx.pc \in {"poll", "read", "truncate", "umount", "crashed"} /\ rx.todo \in Seq(Lines)
    BY DEF TypeOK
  <1>1. CASE RxOpen
    <2>1. TypeOK'
      BY <1>1 DEF RxOpen, TypeOK, pipe, medium, txSide, station, faultVars
    <2>2. QED
      BY <2>1, <1>1, SameRound DEF RxOpen, pipe, medium, txSide
  <1>2. CASE RxLine
    <2> DEFINE line == Head(rx.todo)
    <2>1. line \in Lines /\ Tail(rx.todo) \in Seq(Lines)
      BY <1>0, <1>2, HeadTailProperties DEF RxLine
    <2>2. /\ \/ pushed' = pushed
             \/ pushed' = Append(pushed, line.frame)
             \/ pushed' = Append(pushed, Junk)
          /\ \/ rx' = [rx EXCEPT !.todo = Tail(@)]
             \/ rx' = [rx EXCEPT !.pc = "truncate", !.todo = <<>>]
             \/ rx' = [pc |-> "crashed", todo |-> <<>>]
          /\ UNCHANGED <<pipe, medium, txSide, faultVars>>
      BY <1>2 DEF RxLine
    <2>3. line.frame \in Frames \cup {Junk} /\ Junk \in Frames \cup {Junk}
      BY <2>1, LineFrame
    <2> HIDE DEF line
    <2>4. pushed' \in Seq(Frames \cup {Junk})
      <3>1. pushed \in Seq(Frames \cup {Junk})
        BY DEF TypeOK
      <3> DEFINE values == Frames \cup {Junk}
      <3>2. pushed \in Seq(values) /\ line.frame \in values /\ Junk \in values
        BY <3>1, <2>3
      <3> HIDE DEF values
      <3>3. pushed' \in Seq(values)
        BY <3>2, <2>2
      <3>4. QED
        BY <3>3 DEF values
    <2>5. rx' \in [pc : {"poll", "read", "truncate", "umount", "crashed"}, todo : Seq(Lines)]
      <3>1. <<>> \in Seq(Lines)
        OBVIOUS
      <3>2. rx \in [pc : {"poll", "read", "truncate", "umount", "crashed"}, todo : Seq(Lines)]
        BY DEF TypeOK
      <3> DEFINE none == <<>>
                 all == Seq(Lines)
      <3>3. /\ none \in all /\ Tail(rx.todo) \in all
            /\ rx \in [pc : {"poll", "read", "truncate", "umount", "crashed"}, todo : all]
            /\ \/ rx' = [rx EXCEPT !.todo = Tail(rx.todo)]
               \/ rx' = [rx EXCEPT !.pc = "truncate", !.todo = none]
               \/ rx' = [pc |-> "crashed", todo |-> none]
        BY <2>1, <2>2, <3>1, <3>2
      <3> HIDE DEF none, all
      <3>4. rx' \in [pc : {"poll", "read", "truncate", "umount", "crashed"}, todo : all]
        <4>1. CASE rx' = [rx EXCEPT !.todo = Tail(rx.todo)]
          BY <3>3, <4>1
        <4>2. CASE rx' = [rx EXCEPT !.pc = "truncate", !.todo = none]
          BY <3>3, <4>2
        <4>3. CASE rx' = [pc |-> "crashed", todo |-> none]
          BY <3>3, <4>3
        <4>4. QED
          BY <3>3, <4>1, <4>2, <4>3
      <3>5. QED
        BY <3>4 DEF all
    <2>6. TypeOK'
      BY <2>2, <2>4, <2>5 DEF TypeOK, pipe, medium, txSide, station, faultVars
    <2>7. QED
      BY <2>2, <2>6, SameRound DEF pipe, medium, txSide
  <1>3. CASE RxEnd
    <2>1. TypeOK'
      BY <1>3 DEF RxEnd, TypeOK, pipe, medium, txSide, station, faultVars
    <2>2. QED
      BY <2>1, <1>3, SameRound DEF RxEnd, pipe, medium, txSide
  <1>4. CASE RxTruncate
    <2>1. file' = file \/ file' = <<>>
      BY <1>4 DEF RxTruncate
    <2>2. TypeOK'
      <3>1. rx' \in [pc : {"poll", "read", "truncate", "umount", "crashed"}, todo : Seq(Lines)]
        BY <1>4 DEF RxTruncate, TypeOK
      <3>2. file' \in Seq(Lines)
        <4>1. file \in Seq(Lines)
          BY DEF TypeOK
        <4>2. <<>> \in Seq(Lines)
          OBVIOUS
        <4>3. QED
          BY <2>1, <4>1, <4>2, Zenon
      <3>4. faulted' \subseteq Faults /\ faultCount' \in 0 .. MaxFaults
        BY <1>4, FaultIs, NoFaultIs DEF RxTruncate, faultVars
      <3>5. QED
        BY <3>1, <3>2, <3>4, <1>4 DEF RxTruncate, TypeOK, pipe, txSide, station
    <2>3. QED
      BY <2>1, <2>2, <1>4, SameRound DEF RxTruncate, pipe, txSide
  <1>5. CASE RxUmount
    <2>1. /\ rx' = RxPolling /\ umount("rx")
          /\ UNCHANGED <<pipe, file, created, txSide, pushed>>
      BY <1>5 DEF RxUmount
    <2>2. /\ device' \in {"tx", "rx", "away"} /\ (disk' = disk \/ disk' = file)
          /\ faulted' \subseteq Faults /\ faultCount' \in 0 .. MaxFaults
      BY <2>1, UmountIs
    <2>3. TypeOK'
      BY <2>1, <2>2, RxPollingIs DEF TypeOK, pipe, txSide, station
    <2>4. QED
      BY <2>1, <2>2, <2>3, SameRound DEF pipe, txSide
  <1>6. CASE RxReadError
    <2>1. faulted' \subseteq Faults /\ faultCount' \in 0 .. MaxFaults
      BY <1>6, FaultIs, NoFaultIs DEF RxReadError
    <2>2. TypeOK'
      BY <2>1, <1>6 DEF RxReadError, TypeOK, pipe, medium, txSide, station
    <2>3. QED
      BY <2>2, <1>6, SameRound DEF RxReadError, pipe, medium, txSide
  <1>7. CASE RxRestart
    <2>1. faulted' \subseteq Faults /\ faultCount' \in 0 .. MaxFaults
      BY <1>7, FaultIs DEF RxRestart
    <2>2. TypeOK'
      BY <2>1, <1>7, RxPollingIs DEF RxRestart, TypeOK, pipe, medium, txSide, station
    <2>3. QED
      BY <2>2, <1>7, SameRound DEF RxRestart, pipe, medium, txSide
  <1>8. QED
    BY <1>1, <1>2, <1>3, <1>4, <1>5, <1>6, <1>7 DEF RxStep

LEMMA StutterBasics ==
    ASSUME TypeOK, RoundInv, FileInv, UNCHANGED vars
    PROVE  TypeOK' /\ RoundInv' /\ FileInv'
  <1>1. TypeOK'
    BY DEF TypeOK, vars
  <1>2. QED
    BY <1>1, SameRound DEF vars

LEMMA StepBasics ==
    ASSUME TypeOK, RoundInv, FileInv, [Next]_vars
    PROVE  TypeOK' /\ RoundInv' /\ FileInv'
  BY QuietBasics, OutsideBasics, YankBasics, TxBasics, RxBasics, StutterBasics
  DEF Next, Quiet

-----------------------------------------------------------------------------
(* The file and the medium. *)

LEMMA ContinuesSelf == \A lines \in Seq(Lines) : Continues(lines, lines)
  BY DEF Continues

LEMMA ContinuesFurther ==
    ASSUME NEW a \in Seq(Lines), NEW b \in Seq(Lines), NEW c \in Seq(Lines),
           Continues(a, b), Continues(b, c)
    PROVE  Continues(a, c)
  <1>1. /\ Len(a) \in Nat /\ Len(b) \in Nat /\ Len(c) \in Nat
        /\ DOMAIN a = 1 .. Len(a) /\ DOMAIN b = 1 .. Len(b)
        /\ Len(a) <= Len(b) /\ Len(b) <= Len(c)
    BY DEF Continues
  <1>2. ASSUME NEW i \in DOMAIN a
        PROVE  c[i] = a[i] \/ (i = Len(a) /\ a[i].kind # "whole")
    <2>1. i \in DOMAIN b
      BY <1>1
    <2>2. b[i] = a[i] \/ (i = Len(a) /\ a[i].kind # "whole")
      BY DEF Continues
    <2>3. c[i] = b[i] \/ (i = Len(b) /\ b[i].kind # "whole")
      BY <2>1 DEF Continues
    <2>4. CASE i = Len(a)
      BY <2>2, <2>3, <2>4
    <2>5. CASE i # Len(a)
      <3>1. i \in 1 .. Len(a) /\ i # Len(b)
        BY <1>1, <2>5
      <3>2. QED
        BY <2>2, <2>3, <2>5, <3>1
    <2>6. QED
      BY <2>4, <2>5
  <1>3. Len(a) <= Len(c)
    BY <1>1
  <1>4. QED
    BY <1>2, <1>3 DEF Continues

LEMMA ContinuesFrames ==
    ASSUME NEW a \in Seq(Lines), NEW b \in Seq(Lines), Continues(a, b)
    PROVE  FramesOf(a) \subseteq FramesOf(b)
  <1> SUFFICES ASSUME NEW i \in DOMAIN a, a[i].kind = "whole"
               PROVE  a[i].frame \in FramesOf(b)
    BY DEF FramesOf
  <1>1. b[i] = a[i] /\ Len(a) <= Len(b)
    BY DEF Continues
  <1>2. i \in DOMAIN b
    BY <1>1
  <1>3. QED
    BY <1>1, <1>2 DEF FramesOf

(* A write that succeeds or fails takes away no whole line. *)
LEMMA WriteContinues ==
    ASSUME NEW lines \in Seq(Lines), NEW f \in Frames, NEW new, TornLast(lines),
           new = AppendLine(lines, f) \/ new = AppendTorn(lines, f)
    PROVE  Continues(lines, new) /\ TornLast(new)
  <1>1. PICK line \in Lines :
           \/ /\ lines # <<>> /\ lines[Len(lines)].kind = "torn"
              /\ new = [lines EXCEPT ![Len(lines)] = line]
           \/ /\ ~(lines # <<>> /\ lines[Len(lines)].kind = "torn")
              /\ new = Append(lines, line)
    <2>1. /\ [kind |-> "garbled", frame |-> f] \in Lines
          /\ [kind |-> "torn", frame |-> f] \in Lines
          /\ Whole(f) \in Lines
      BY WholeIsLine DEF Lines
    <2>2. CASE new = AppendLine(lines, f)
      BY <2>1, <2>2 DEF AppendLine
    <2>3. CASE new = AppendTorn(lines, f)
      BY <2>1, <2>3 DEF AppendTorn
    <2>4. QED
      BY <2>2, <2>3
  <1>2. Len(lines) \in Nat /\ DOMAIN lines = 1 .. Len(lines)
    OBVIOUS
  <1>3. CASE /\ lines # <<>> /\ lines[Len(lines)].kind = "torn"
             /\ new = [lines EXCEPT ![Len(lines)] = line]
    <2> DEFINE n == Len(lines)
    <2>0. n \in DOMAIN lines /\ n \in Nat
      BY <1>2, <1>3
    <2>1. /\ Len(new) = n /\ DOMAIN new = 1 .. n
          /\ \A i \in 1 .. n : i # n => new[i] = lines[i]
      BY <1>3, <2>0
    <2>2. lines[n].kind # "whole"
      BY <1>3
    <2>3. Continues(lines, new)
      <3>1. \A i \in DOMAIN lines : new[i] = lines[i] \/ (i = n /\ lines[i].kind # "whole")
        BY <1>2, <2>1, <2>2
      <3>2. n <= Len(new)
        <4> HIDE DEF n
        <4>1. QED
          BY <2>0, <2>1
      <3>3. QED
        BY <3>1, <3>2 DEF Continues
    <2>4. TornLast(new)
      BY <1>2, <2>1 DEF TornLast
    <2>5. QED
      BY <2>3, <2>4
  <1>4. CASE /\ ~(lines # <<>> /\ lines[Len(lines)].kind = "torn")
             /\ new = Append(lines, line)
    <2>1. /\ Len(new) = Len(lines) + 1 /\ DOMAIN new = 1 .. Len(lines) + 1
          /\ \A i \in 1 .. Len(lines) : new[i] = lines[i]
      BY <1>2, <1>4
    <2>2. \A i \in DOMAIN lines : lines[i].kind # "torn"
      BY <1>2, <1>4 DEF TornLast
    <2>3. Continues(lines, new)
      BY <1>2, <2>1 DEF Continues
    <2>4. ASSUME NEW i \in DOMAIN new, new[i].kind = "torn" PROVE i = Len(new)
      <3>1. CASE i \in DOMAIN lines
        BY <1>2, <2>1, <2>2, <2>4, <3>1
      <3>2. CASE i \notin DOMAIN lines
        BY <1>2, <2>1, <2>4, <3>2
      <3>3. QED
        BY <3>1, <3>2
    <2>5. QED
      BY <2>3, <2>4 DEF TornLast
  <1>5. QED
    BY <1>1, <1>3, <1>4

LEMMA TornLastTail ==
    ASSUME NEW lines \in Seq(Lines), lines # <<>>, TornLast(lines)
    PROVE  TornLast(Tail(lines)) /\ (Head(lines).kind = "torn" => FramesOf(lines) = {})
  <1>1. /\ Len(lines) \in Nat /\ DOMAIN lines = 1 .. Len(lines) /\ 1 \in DOMAIN lines
        /\ DOMAIN Tail(lines) = 1 .. Len(lines) - 1
        /\ Len(Tail(lines)) = Len(lines) - 1
        /\ \A i \in 1 .. Len(lines) - 1 : i + 1 \in DOMAIN lines /\ Tail(lines)[i] = lines[i + 1]
        /\ Head(lines) = lines[1]
    OBVIOUS
  <1>2. TornLast(Tail(lines))
    <2> SUFFICES ASSUME NEW i \in 1 .. Len(lines) - 1, Tail(lines)[i].kind = "torn"
                 PROVE  i = Len(lines) - 1
      BY <1>1 DEF TornLast
    <2>1. i + 1 \in DOMAIN lines /\ lines[i + 1].kind = "torn"
      BY <1>1
    <2>2. i + 1 = Len(lines)
      BY <2>1 DEF TornLast
    <2>3. QED
      BY <2>2, <1>1
  <1>3. ASSUME Head(lines).kind = "torn" PROVE FramesOf(lines) = {}
    <2>1. Len(lines) = 1
      BY <1>1, <1>3 DEF TornLast
    <2>2. \A i \in DOMAIN lines : lines[i].kind # "whole"
      BY <1>1, <1>3, <2>1
    <2>3. QED
      BY <2>2 DEF FramesOf
  <1>4. QED
    BY <1>2, <1>3

(* What is left of the file after the device was pulled out has every whole
   line of the medium. *)
LEMMA SurvivorsContinue ==
    ASSUME file \in Seq(Lines), disk \in Seq(Lines), NEW lines \in Survivors,
           TornLast(file), TornLast(disk)
    PROVE  /\ TornLast(lines)
           /\ Extends => Continues(disk, lines)
  <1> DEFINE torn(k) == [file[k] EXCEPT !.kind = "torn"]
             added == {k \in DOMAIN file : k \in DOMAIN disk => file[k] # disk[k]}
  <1>1. /\ Len(file) \in Nat /\ Len(disk) \in Nat
        /\ DOMAIN file = 1 .. Len(file) /\ DOMAIN disk = 1 .. Len(disk)
    OBVIOUS
  <1>2. CASE lines = disk
    BY <1>2, ContinuesSelf
  <1>3. ASSUME NEW k \in added PROVE Extends => Len(disk) <= k /\ (k \in DOMAIN disk =>
                                                          k = Len(disk) /\ disk[k].kind # "whole")
    BY <1>1 DEF Extends, Continues
  <1>4. ASSUME NEW k \in added, lines = SubSeq(file, 1, k)
        PROVE  TornLast(lines) /\ (Extends => Continues(disk, lines))
    <2>1. k \in 1 .. Len(file)
      BY <1>1
    <2>2. /\ Len(lines) = k /\ DOMAIN lines = 1 .. k
          /\ \A i \in 1 .. k : lines[i] = file[i]
      BY <1>1, <1>4, <2>1
    <2>3. TornLast(lines)
      BY <1>1, <2>1, <2>2 DEF TornLast
    <2>4. ASSUME Extends PROVE Continues(disk, lines)
      BY <1>1, <1>3, <2>1, <2>2, <2>4 DEF Extends, Continues
    <2>5. QED
      BY <2>3, <2>4
  <1>5. ASSUME NEW k \in added, lines = Append(SubSeq(file, 1, k - 1), torn(k))
        PROVE  TornLast(lines) /\ (Extends => Continues(disk, lines))
    <2> DEFINE line == torn(k)
    <2>1. k \in 1 .. Len(file) /\ k \in Nat
      BY <1>1
    <2> HIDE DEF line
    <2>2. /\ Len(lines) = k /\ DOMAIN lines = 1 .. k
          /\ \A i \in 1 .. k - 1 : lines[i] = file[i]
      <3> DEFINE before == SubSeq(file, 1, k - 1)
      <3>1. /\ before \in Seq(Lines) /\ Len(before) = k - 1
            /\ \A i \in 1 .. k - 1 : before[i] = file[i]
        BY <1>1, <2>1
      <3>2. lines = Append(before, line)
        BY <1>5 DEF line
      <3> HIDE DEF before
      <3>3. /\ Len(lines) = (k - 1) + 1
            /\ DOMAIN lines = 1 .. (k - 1) + 1
            /\ \A i \in 1 .. k - 1 : lines[i] = before[i]
        BY <3>1, <3>2
      <3>4. QED
        BY <2>1, <3>1, <3>3
    <2>3. TornLast(lines)
      BY <1>1, <2>1, <2>2 DEF TornLast
    <2>4. ASSUME Extends PROVE Continues(disk, lines)
      <3>1. /\ Len(disk) <= k
            /\ k \in DOMAIN disk => k = Len(disk) /\ disk[k].kind # "whole"
        BY <1>3, <2>4
      <3>2. ASSUME NEW i \in DOMAIN disk
            PROVE  lines[i] = disk[i] \/ (i = Len(disk) /\ disk[i].kind # "whole")
        <4>1. CASE i = k
          BY <3>1, <4>1
        <4>2. CASE i # k
          <5>0. i \in Nat /\ 1 <= i /\ i <= Len(disk)
            BY <1>1
          <5>a. \A a, b, c \in Nat :
                  a >= 1 /\ a <= b /\ b <= c /\ a # c => a \in 1 .. c - 1
            OBVIOUS
          <5>b. k \in Nat /\ Len(disk) \in Nat /\ Len(disk) <= k
            BY <1>1, <2>1, <3>1
          <5>1. i \in 1 .. k - 1
            <6> HIDE DEF added, torn
            <6> QED
              BY <4>2, <5>0, <5>a, <5>b
          <5>2. file[i] = disk[i] \/ (i = Len(disk) /\ disk[i].kind # "whole")
            BY <2>4 DEF Extends, Continues
          <5>3. QED
            BY <2>2, <5>1, <5>2
        <4>3. QED
          BY <4>1, <4>2
      <3>3. QED
        BY <2>2, <3>1, <3>2 DEF Continues
    <2>5. QED
      BY <2>3, <2>4
  <1>6. QED
    BY <1>2, <1>4, <1>5 DEF Survivors

LEMMA InitMedium == Init => MediumInv
  <1>1. TornLast(<<>>)
    BY DEF TornLast
  <1>2. QED
    BY <1>1, TxStatesAre DEF Init, MediumInv, RxPolling

LEMMA OutsideMedium ==
    ASSUME TypeOK, MediumInv,
           Quiet \/ Writeback \/ (\E where \in {"tx", "rx"} : Plug(where)) \/ Remove
    PROVE  MediumInv'
  <1>0. file \in Seq(Lines)
    BY DEF TypeOK
  <1>1. CASE Quiet
    <2>1. UNCHANGED <<device, file, disk, rx>> /\ (tx'.pc = "put" => tx.pc = "put")
          /\ tx'.stale = tx.stale
      BY <1>1, QuietIs DEF Popping
    <2>2. QED
      BY <2>1 DEF MediumInv, Extends
  <1>2. CASE Writeback
    <2>1. UNCHANGED <<device, file, rx, tx>> /\ disk' = file
      BY <1>2 DEF Writeback, rxSide, txSide
    <2>2. Continues(file, file)
      BY <1>0, ContinuesSelf
    <2>3. QED
      BY <2>1, <2>2 DEF MediumInv, Extends
  <1>3. ASSUME NEW where \in {"tx", "rx"}, Plug(where) PROVE MediumInv'
    <2>1. UNCHANGED <<file, disk, rx, tx>> /\ device = "away" /\ device' \in {"tx", "rx"}
      BY <1>3 DEF Plug, rxSide, txSide
    <2>2. file = disk /\ Continues(file, file)
      BY <1>0, <2>1, ContinuesSelf DEF MediumInv
    <2>3. Extends'
      BY <2>1, <2>2 DEF Extends
    <2>4. QED
      BY <2>1, <2>2, <2>3 DEF MediumInv
  <1>4. CASE Remove
    <2>1. UNCHANGED <<file, disk, rx, tx>> /\ file = disk /\ device' = "away"
          /\ ((device = "tx" /\ tx.pc = "poll") \/ device = "rx")
      BY <1>4 DEF Remove, rxSide, txSide
    <2>2. QED
      BY <2>1 DEF MediumInv
  <1>5. QED
    BY <1>1, <1>2, <1>3, <1>4

LEMMA YankMedium ==
    ASSUME TypeOK, FileInv, MediumInv, Yank
    PROVE  /\ MediumInv'
           /\ device' = "away" /\ file' = disk'
           /\ FramesOf(disk) \subseteq FramesOf(disk')
  <1>1. PICK lines \in Survivors : file' = lines /\ disk' = lines
    BY DEF Yank
  <1>2. /\ device \in {"tx", "rx"} /\ device' = "away" /\ UNCHANGED rx
        /\ tx'.pc = tx.pc /\ tx'.stale = TRUE
    BY DEF Yank, rxSide, TypeOK
  <1>3. file \in Seq(Lines) /\ disk \in Seq(Lines) /\ Written \in Int
    BY DEF TypeOK, Written
  <1>4. lines \in Seq(Lines) /\ (file = disk \/ file = <<>> => lines = disk)
    BY <1>3, SurvivorsKeep DEF FileInv
  <1>5. TornLast(lines) /\ (Extends => Continues(disk, lines))
    BY <1>3, SurvivorsContinue DEF MediumInv
  <1>6. FramesOf(disk) \subseteq FramesOf(lines)
    <2>1. CASE device = "tx"
      BY <1>3, <1>4, <1>5, <2>1, ContinuesFrames DEF MediumInv
    <2>2. CASE device = "rx"
      BY <1>4, <2>2 DEF MediumInv
    <2>3. QED
      BY <1>2, <2>1, <2>2
  <1>7. MediumInv'
    BY <1>1, <1>2, <1>5 DEF MediumInv
  <1>8. QED
    BY <1>1, <1>2, <1>6, <1>7

(* A write goes to the device that is mounted there, or nowhere. *)
LEMMA WriteIs ==
    ASSUME TypeOK, RoundInv, MediumInv, TxWrite, TypeOK'
    PROVE  /\ UNCHANGED <<popped, device, disk, rx, pushed>> /\ tx'.pc = "limit"
           /\ file' = file \/ (device = "tx" /\ Continues(file, file') /\ TornLast(file'))
           /\ FramesOf(file) \subseteq FramesOf(file')
           /\ file' = AppendLine(file, popped) \/ file' = AppendTorn(file, popped) \/ file' = file
  <1>1. /\ UNCHANGED <<popped, device, disk, rx, pushed>> /\ tx.pc = "put" /\ tx'.pc = "limit"
        /\ \/ file' = file
           \/ ~tx.stale /\ (file' = AppendLine(file, popped) \/ file' = AppendTorn(file, popped))
    BY DEF TxWrite, pipe, rxSide, TypeOK
  <1>2. popped \in Frames
    <2>1. popped \in Int /\ popped >= 1 /\ popped <= MaxFrames
      BY <1>1, MaxFramesAssumption DEF TypeOK, RoundInv
    <2>2. QED
      BY <2>1, MaxFramesAssumption DEF Frames
  <1>3. file \in Seq(Lines) /\ TornLast(file)
    BY DEF TypeOK, MediumInv
  <1>4. CASE file' = file
    BY <1>1, <1>4
  <1>5. CASE ~tx.stale /\ (file' = AppendLine(file, popped) \/ file' = AppendTorn(file, popped))
    <2>1. device = "tx"
      BY <1>1, <1>5 DEF MediumInv
    <2>2. Continues(file, file') /\ TornLast(file')
      BY <1>2, <1>3, <1>5, WriteContinues
    <2>3. file' \in Seq(Lines)
      BY DEF TypeOK
    <2>4. QED
      BY <1>1, <1>3, <1>5, <2>1, <2>2, <2>3, ContinuesFrames
  <1>6. QED
    BY <1>1, <1>4, <1>5

(* The other steps of the tx module. *)
LEMMA TxElseIs ==
    ASSUME TypeOK, TxPoll \/ TimeLimit \/ TxNoFrame \/ TxTryPop \/ TxOpen \/ TxLimit
    PROVE  /\ UNCHANGED <<device, file, disk, rx, pushed>>
           /\ tx'.pc = "put" => device = "tx"
  <1>1. CASE TxPoll
    BY <1>1, TxStatesAre DEF TxPoll, medium, rxSide, TypeOK
  <1>2. CASE TimeLimit
    BY <1>2 DEF TimeLimit, medium, rxSide, TypeOK
  <1>3. CASE TxNoFrame
    BY <1>3 DEF TxNoFrame, TxMoves, medium, rxSide, TypeOK
  <1>4. CASE TxTryPop
    BY <1>4 DEF TxTryPop, TxMoves, medium, rxSide, TypeOK
  <1>5. CASE TxOpen
    BY <1>5 DEF TxOpen, rxSide, TypeOK
  <1>6. CASE TxLimit
    BY <1>6 DEF TxLimit, medium, rxSide, TypeOK
  <1>7. QED
    BY <1>1, <1>2, <1>3, <1>4, <1>5, <1>6

LEMMA UmountDoes ==
    ASSUME TypeOK, TxUmount \/ RxUmount
    PROVE  /\ UNCHANGED <<file, pushed>>
           /\ rx' = RxPolling \/ rx' = rx
           /\ tx'.pc = "put" => tx' = tx
           /\ \/ device' = "away" /\ disk' = file
              \/ device' = device /\ disk' = disk
  <1>1. CASE TxUmount
    <2>1. umount("tx") /\ UNCHANGED <<file, rx, pushed>> /\ tx' = TxPolling
      BY <1>1 DEF TxUmount, rxSide
    <2>2. QED
      BY <2>1, TxStatesAre DEF umount
  <1>2. CASE RxUmount
    <2>1. umount("rx") /\ UNCHANGED <<file, tx, pushed>> /\ rx' = RxPolling
      BY <1>2 DEF RxUmount, txSide
    <2>2. QED
      BY <2>1 DEF umount, RxPolling
  <1>3. QED
    BY <1>1, <1>2

LEMMA TxMedium ==
    ASSUME TypeOK, TypeOK', RoundInv, MediumInv, TxPoll \/ TimeLimit \/ TxTransfer
    PROVE  MediumInv'
  <1>1. CASE TxPoll \/ TimeLimit \/ TxNoFrame \/ TxTryPop \/ TxOpen \/ TxLimit
    BY <1>1, TxElseIs DEF MediumInv, Extends
  <1>2. CASE TxWrite
    <2>1. file \in Seq(Lines) /\ file' \in Seq(Lines) /\ disk \in Seq(Lines)
      BY DEF TypeOK
    <2>2. device = "tx" => Continues(disk, file')
      BY <1>2, <2>1, WriteIs, ContinuesFurther DEF MediumInv, Extends
    <2>3. device # "tx" => file' = file
      BY <1>2, WriteIs
    <2>4. TornLast(file')
      BY <1>2, WriteIs DEF MediumInv
    <2>5. UNCHANGED <<device, disk, rx>> /\ tx'.pc = "limit"
      BY <1>2, WriteIs
    <2>6. Extends' <=> Continues(disk, file')
      BY <2>5 DEF Extends
    <2>7. QED
      BY <2>2, <2>3, <2>4, <2>5, <2>6 DEF MediumInv
  <1>3. CASE TxUmount
    <2>1. UNCHANGED <<file, rx>> /\ tx'.pc # "put"
          /\ \/ device' = "away" /\ disk' = file
             \/ device' = device /\ disk' = disk
      <3>1. UNCHANGED rx /\ tx' = TxPolling
        BY <1>3 DEF TxUmount, rxSide
      <3>2. QED
        BY <1>3, <3>1, UmountDoes, TxStatesAre
    <2>2. QED
      BY <2>1 DEF MediumInv, Extends
  <1>4. QED
    BY <1>1, <1>2, <1>3, OutsideMedium DEF TxTransfer, Quiet

LEMMA RxMedium ==
    ASSUME TypeOK, MediumInv, RxStep \/ RxReadError \/ RxRestart
    PROVE  MediumInv'
  <1>0. rx.todo \in Seq(Lines) /\ TornLast(<<>>)
    BY DEF TypeOK, TornLast
  <1>a. UNCHANGED tx
    BY DEF RxStep, RxOpen, RxLine, RxEnd, RxTruncate, RxUmount, RxReadError, RxRestart, txSide
  <1>1. CASE RxOpen \/ RxLine \/ RxEnd \/ RxReadError \/ RxRestart
    <2>1. UNCHANGED <<device, file, disk>>
      BY <1>1 DEF RxOpen, RxLine, RxEnd, RxReadError, RxRestart, medium
    <2>2. \/ rx'.todo = <<>>
          \/ rx'.todo = file
          \/ rx'.todo = Tail(rx.todo) /\ rx.todo # <<>>
      <3>1. CASE RxOpen \/ RxEnd \/ RxReadError \/ RxRestart
        BY <3>1 DEF RxOpen, RxEnd, RxReadError, RxRestart, RxPolling, TypeOK
      <3>2. CASE RxLine
        <4>1. /\ rx.todo # <<>>
              /\ \/ rx' = [rx EXCEPT !.todo = Tail(rx.todo)]
                 \/ rx' = [rx EXCEPT !.pc = "truncate", !.todo = <<>>]
                 \/ rx' = [pc |-> "crashed", todo |-> <<>>]
          BY <3>2 DEF RxLine
        <4> DEFINE rest == Tail(rx.todo)
        <4> HIDE DEF rest
        <4>2. /\ rx.todo # <<>>
              /\ \/ rx' = [rx EXCEPT !.todo = rest]
                 \/ rx' = [rx EXCEPT !.pc = "truncate", !.todo = <<>>]
                 \/ rx' = [pc |-> "crashed", todo |-> <<>>]
          BY <4>1 DEF rest
        <4>3. rx'.todo = <<>> \/ rx'.todo = rest
          <5>1. CASE rx' = [rx EXCEPT !.todo = rest]
            BY <5>1 DEF TypeOK
          <5>2. CASE rx' = [rx EXCEPT !.pc = "truncate", !.todo = <<>>]
            BY <5>2 DEF TypeOK
          <5>3. CASE rx' = [pc |-> "crashed", todo |-> <<>>]
            BY <5>3
          <5>4. QED
            BY <4>2, <5>1, <5>2, <5>3
        <4>4. QED
          BY <4>1, <4>3 DEF rest
      <3>3. QED
        BY <1>1, <3>1, <3>2
    <2>3. TornLast(rx'.todo)
      BY <1>0, <2>2, TornLastTail DEF MediumInv
    <2>4. QED
      BY <1>a, <2>1, <2>3 DEF MediumInv, Extends
  <1>2. CASE RxTruncate
    <2>1. /\ UNCHANGED <<device, disk>> /\ rx'.todo = rx.todo
          /\ file' = file \/ (device = "rx" /\ file' = <<>>)
      BY <1>2 DEF RxTruncate, TypeOK
    <2>2. QED
      BY <1>0, <1>a, <2>1 DEF MediumInv, Extends
  <1>3. CASE RxUmount
    <2>1. UNCHANGED file /\ rx'.todo = <<>>
          /\ \/ device = "rx" /\ device' = "away" /\ disk' = file
             \/ device' = device /\ disk' = disk
      BY <1>3 DEF RxUmount, RxPolling, umount
    <2>2. TornLast(rx'.todo)
      BY <1>0, <2>1
    <2>3. CASE device = "rx" /\ device' = "away" /\ disk' = file
      BY <1>a, <2>1, <2>2, <2>3 DEF MediumInv
    <2>4. CASE device' = device /\ disk' = disk
      BY <1>a, <2>1, <2>2, <2>4 DEF MediumInv, Extends
    <2>5. QED
      BY <2>1, <2>3, <2>4
  <1>4. QED
    BY <1>1, <1>2, <1>3 DEF RxStep

LEMMA StepMedium ==
    ASSUME TypeOK, TypeOK', RoundInv, FileInv, MediumInv, [Next]_vars
    PROVE  MediumInv'
  <1>1. CASE UNCHANGED vars
    BY <1>1 DEF MediumInv, Extends, vars
  <1>2. QED
    BY <1>1, OutsideMedium, YankMedium, TxMedium, RxMedium DEF Next, Quiet

-----------------------------------------------------------------------------
(* What the rx side reads. *)

LEMMA ReceivedAppend ==
    ASSUME TypeOK, NEW f, f \in Frames \cup {Junk}, pushed' = Append(pushed, f)
    PROVE  Received' = Received \cup {f}
  <1> DEFINE values == Frames \cup {Junk}
  <1>0. pushed \in Seq(values) /\ f \in values
    BY DEF TypeOK
  <1> HIDE DEF values
  <1>1. /\ Len(pushed) \in Nat /\ DOMAIN pushed = 1 .. Len(pushed)
        /\ DOMAIN pushed' = 1 .. Len(pushed) + 1
        /\ \A i \in 1 .. Len(pushed) : pushed'[i] = pushed[i]
        /\ pushed'[Len(pushed) + 1] = f
    BY <1>0
  <1>2. ASSUME NEW g \in Received PROVE g \in Received'
    <2>1. PICK i \in DOMAIN pushed : g = pushed[i]
      BY <1>2 DEF Received
    <2>2. i \in DOMAIN pushed' /\ pushed'[i] = g
      BY <2>1, <1>1
    <2>3. QED
      BY <2>2 DEF Received
  <1>3. f \in Received'
    <2>1. Len(pushed) + 1 \in DOMAIN pushed'
      BY <1>1
    <2>2. QED
      BY <2>1, <1>1 DEF Received
  <1>4. ASSUME NEW g \in Received' PROVE g \in Received \cup {f}
    <2>1. PICK i \in DOMAIN pushed' : g = pushed'[i]
      BY <1>4 DEF Received
    <2>2. CASE i = Len(pushed) + 1
      BY <2>1, <2>2, <1>1
    <2>3. CASE i # Len(pushed) + 1
      <3>1. i \in DOMAIN pushed /\ pushed[i] = g
        BY <2>1, <2>3, <1>1
      <3>2. QED
        BY <3>1 DEF Received
    <2>4. QED
      BY <2>2, <2>3
  <1>5. QED
    BY <1>2, <1>3, <1>4

LEMMA AllWholeAppend ==
    ASSUME NEW lines \in Seq(Lines), NEW f \in Frames, AllWhole(lines)
    PROVE  AllWhole(Append(lines, Whole(f)))
  <1> DEFINE new == Append(lines, Whole(f))
  <1>1. /\ Len(lines) \in Nat /\ DOMAIN lines = 1 .. Len(lines)
        /\ DOMAIN new = 1 .. Len(lines) + 1
        /\ \A i \in 1 .. Len(lines) : new[i] = lines[i]
        /\ new[Len(lines) + 1] = Whole(f)
    BY WholeIsLine
  <1>2. Whole(f).kind = "whole"
    BY DEF Whole
  <1> HIDE DEF new
  <1>3. AllWhole(new)
    BY <1>1, <1>2 DEF AllWhole
  <1>4. QED
    BY <1>3 DEF new

LEMMA AllWholeTail ==
    ASSUME NEW lines \in Seq(Lines), lines # <<>>, AllWhole(lines)
    PROVE  AllWhole(Tail(lines)) /\ Head(lines).kind = "whole" /\ Head(lines) \in Lines
  <1>1. /\ Len(lines) \in Nat /\ DOMAIN lines = 1 .. Len(lines) /\ 1 \in DOMAIN lines
        /\ DOMAIN Tail(lines) = 1 .. Len(lines) - 1
        /\ \A i \in 1 .. Len(lines) - 1 : Tail(lines)[i] = lines[i + 1]
        /\ Head(lines) = lines[1]
        /\ Head(lines) \in Lines
    OBVIOUS
  <1>2. \A i \in 1 .. Len(lines) - 1 : i + 1 \in DOMAIN lines
    BY <1>1
  <1>3. QED
    BY <1>1, <1>2 DEF AllWhole

LEMMA FaultsStay == ASSUME TypeOK, [Next]_vars PROVE faulted \subseteq faulted'
  <1>1. ASSUME NEW where, umount(where) PROVE faulted \subseteq faulted'
    BY <1>1 DEF umount, Fault, faultVars
  <1>2. CASE Next
    <2>1. CASE Quiet
      BY <2>1, QuietIs
    <2>2. CASE ~Quiet
      BY <1>1, <1>2, <2>2 DEF Next, Quiet, Writeback, Plug, Remove, Yank, TxPoll, TimeLimit,
         TxTransfer, TxNoFrame, TxTryPop, TxOpen, TxWrite, TxLimit, TxUmount, RxStep, RxOpen,
         RxLine, RxEnd, RxTruncate, RxUmount, RxReadError, RxRestart, Fault, faultVars
    <2>3. QED
      BY <2>1, <2>2
  <1>3. CASE UNCHANGED vars
    BY <1>3 DEF vars
  <1>4. QED
    BY <1>2, <1>3

LEMMA InitRead == Init => ReadInv
  BY FramesOfNone DEF Init, ReadInv, RxPolling

LEMMA OtherRead ==
    ASSUME TypeOK, TypeOK', RoundInv, FileInv, MediumInv, ReadInv,
           \/ Quiet \/ Writeback \/ Remove \/ Yank
           \/ \E where \in {"tx", "rx"} : Plug(where)
           \/ TxPoll \/ TimeLimit \/ TxTransfer
    PROVE  ReadInv' /\ FramesOf(disk) \subseteq FramesOf(disk') \cup Received'
  <1>0. UNCHANGED <<rx, pushed>>
    <2>1. CASE Quiet \/ Writeback \/ Remove \/ Yank \/ (\E where \in {"tx", "rx"} : Plug(where))
      BY <2>1, QuietIs DEF Writeback, Remove, Yank, Plug, rxSide
    <2>2. CASE TxPoll \/ TimeLimit \/ TxTransfer
      BY <2>2, QuietIs DEF TxPoll, TimeLimit, TxTransfer, TxNoFrame, TxTryPop, TxOpen, TxWrite,
         TxLimit, TxUmount, Quiet, rxSide
    <2>3. QED
      BY <2>1, <2>2
  <1>1. Received' = Received
    BY <1>0 DEF Received
  <1>2. CASE UNCHANGED <<device, file, disk>>
    BY <1>0, <1>1, <1>2 DEF ReadInv
  <1>3. CASE Writeback
    BY <1>0, <1>1, <1>3 DEF Writeback, ReadInv
  <1>4. CASE Remove
    BY <1>0, <1>1, <1>4 DEF Remove, ReadInv
  <1>5. CASE Yank
    BY <1>0, <1>1, <1>5, YankMedium DEF ReadInv
  <1>6. CASE \E where \in {"tx", "rx"} : Plug(where)
    BY <1>0, <1>1, <1>6 DEF Plug, ReadInv
  <1>7. CASE TxWrite
    BY <1>0, <1>1, <1>7, WriteIs DEF ReadInv
  <1>8. CASE TxUmount
    BY <1>0, <1>1, <1>8, UmountDoes DEF ReadInv, RxPolling
  <1>9. QED
    BY <1>2, <1>3, <1>4, <1>5, <1>6, <1>7, <1>8, QuietIs, TxElseIs DEF TxTransfer, Quiet

LEMMA RxRead ==
    ASSUME TypeOK, MediumInv, ReadInv, RxStep \/ RxReadError \/ RxRestart, AllRead'
    PROVE  ReadInv' /\ FramesOf(disk) \subseteq FramesOf(disk') \cup Received'
  <1>0. rx.pc \in {"poll", "read", "truncate", "umount", "crashed"} /\ rx.todo \in Seq(Lines)
    BY DEF TypeOK
  <1>1. CASE RxOpen
    <2>1. UNCHANGED <<device, file, disk, pushed>> /\ rx'.pc = "read" /\ rx'.todo = file
      BY <1>1 DEF RxOpen, medium
    <2>2. Received' = Received
      BY <2>1 DEF Received
    <2>3. QED
      BY <2>1, <2>2 DEF ReadInv
  <1>2. CASE RxLine
    <2> DEFINE line == Head(rx.todo)
    <2>1. rx.pc = "read" /\ rx.todo # <<>> /\ UNCHANGED <<device, file, disk>>
      BY <1>2 DEF RxLine, medium
    <2>2. /\ line.kind = "whole" => FramesOf(rx.todo) \subseteq FramesOf(Tail(rx.todo)) \cup {line.frame}
          /\ line.kind # "whole" => FramesOf(rx.todo) \subseteq FramesOf(Tail(rx.todo))
      BY <1>0, <2>1, FramesOfTail
    <2>3. line.kind = "torn" => FramesOf(rx.todo) = {}
      BY <1>0, <2>1, TornLastTail DEF MediumInv
    <2>4. line.frame \in Frames \cup {Junk} /\ Junk \in Frames \cup {Junk}
      <3>1. line \in Lines
        BY <1>0, <2>1, HeadTailProperties
      <3>2. QED
        BY <3>1, LineFrame
    <2>5. \/ /\ line.kind = "whole"
             /\ pushed' = Append(pushed, line.frame)
             /\ rx'.pc = "read" /\ rx'.todo = Tail(rx.todo)
          \/ /\ line.kind = "torn" /\ pushed' = pushed /\ rx'.pc = "truncate"
          \/ /\ line.kind = "garbled"
             /\ pushed' = Append(pushed, Junk) \/ pushed' = pushed
             /\ rx'.pc = "crashed" \/ (rx'.pc = "read" /\ rx'.todo = Tail(rx.todo))
      <3>1. \/ /\ line.kind = "whole"
               /\ pushed' = Append(pushed, line.frame)
               /\ rx' = [rx EXCEPT !.todo = Tail(@)]
            \/ /\ line.kind = "torn" /\ pushed' = pushed
               /\ rx' = [rx EXCEPT !.pc = "truncate", !.todo = <<>>]
            \/ /\ line.kind = "garbled"
               /\ pushed' = Append(pushed, Junk) \/ pushed' = pushed
               /\ \/ rx' = [rx EXCEPT !.todo = Tail(@)]
                  \/ rx' = [pc |-> "crashed", todo |-> <<>>]
        BY <1>2 DEF RxLine
      <3> HIDE DEF line
      <3>2. CASE line.kind = "whole"
        BY <2>1, <3>1, <3>2 DEF TypeOK
      <3>3. CASE line.kind = "torn"
        BY <2>1, <3>1, <3>3 DEF TypeOK
      <3>4. CASE line.kind = "garbled"
        BY <2>1, <3>1, <3>4 DEF TypeOK
      <3>5. QED
        BY <3>1, <3>2, <3>3, <3>4
    <2> HIDE DEF line
    <2>6. /\ Received \subseteq Received'
          /\ line.kind = "whole" => Received' = Received \cup {line.frame}
      <3>1. CASE pushed' = Append(pushed, line.frame) /\ line.kind = "whole"
        BY <3>1, <2>4, ReceivedAppend
      <3>2. CASE pushed' = pushed /\ line.kind # "whole"
        BY <3>2 DEF Received
      <3>3. CASE pushed' = Append(pushed, Junk) /\ line.kind # "whole"
        BY <3>3, <2>4, ReceivedAppend
      <3>4. QED
        BY <2>5, <3>1, <3>2, <3>3
    <2>7. FramesOf(disk) \subseteq FramesOf(file) \cup Received'
      BY <2>6 DEF ReadInv
    <2>8. device = "rx" /\ rx'.pc = "read" =>
              FramesOf(file) \subseteq Received' \cup FramesOf(rx'.todo)
      BY <2>1, <2>2, <2>5, <2>6 DEF ReadInv
    <2>9. device = "rx" /\ rx'.pc = "truncate" => FramesOf(file) \subseteq Received'
      BY <2>1, <2>3, <2>5, <2>6 DEF ReadInv
    <2>10. QED
      BY <2>1, <2>7, <2>8, <2>9 DEF ReadInv
  <1>3. CASE RxEnd \/ RxReadError
    <2>1. /\ rx.pc = "read" /\ rx'.pc = "truncate" /\ rx'.todo = <<>>
          /\ UNCHANGED <<file, disk, device, pushed>>
      BY <1>3 DEF RxEnd, RxReadError, medium, TypeOK
    <2>2. Received' = Received
      BY <2>1 DEF Received
    <2>3. rx.todo = <<>> \/ device # "rx"
      <3>1. ~Fault("read")
        BY FaultIs DEF AllRead
      <3>2. QED
        BY <3>1, <1>3 DEF RxEnd, RxReadError
    <2>4. device = "rx" => FramesOf(file) \subseteq Received
      BY <2>1, <2>3, FramesOfNone DEF ReadInv
    <2>5. QED
      BY <2>1, <2>2, <2>4 DEF ReadInv
  <1>4. CASE RxTruncate
    <2>1. /\ rx.pc = "truncate" /\ rx'.pc = "umount"
          /\ UNCHANGED <<disk, device, pushed>>
          /\ file' = file \/ (device = "rx" /\ file' = <<>>)
      BY <1>4 DEF RxTruncate, TypeOK
    <2>2. Received' = Received
      BY <2>1 DEF Received
    <2>3. FramesOf(disk) \subseteq FramesOf(file') \cup Received
      BY <2>1 DEF ReadInv
    <2>4. QED
      BY <2>1, <2>2, <2>3 DEF ReadInv
  <1>5. CASE RxUmount \/ RxRestart
    <2>1. rx'.pc = "poll" /\ UNCHANGED <<file, pushed>>
      BY <1>5 DEF RxUmount, RxRestart, RxPolling, medium
    <2>2. \/ device = "rx" /\ device' = "away" /\ disk' = file
          \/ device' = device /\ disk' = disk
      BY <1>5 DEF RxUmount, RxRestart, umount, medium
    <2>3. Received' = Received
      BY <2>1 DEF Received
    <2>4. QED
      BY <2>1, <2>2, <2>3 DEF ReadInv
  <1>6. QED
    BY <1>1, <1>2, <1>3, <1>4, <1>5 DEF RxStep

LEMMA StepRead ==
    ASSUME TypeOK, TypeOK', RoundInv, FileInv, MediumInv, AllRead => ReadInv, [Next]_vars
    PROVE  /\ (AllRead => ReadInv)'
           /\ AllRead' => FramesOf(disk) \subseteq FramesOf(disk') \cup Received'
  <1>1. SUFFICES ASSUME AllRead'
                 PROVE  ReadInv' /\ FramesOf(disk) \subseteq FramesOf(disk') \cup Received'
    OBVIOUS
  <1>2. ReadInv
    BY <1>1, FaultsStay DEF AllRead
  <1>3. CASE UNCHANGED vars
    <2>1. Received' = Received
      BY <1>3 DEF Received, vars
    <2>2. QED
      BY <1>2, <1>3, <2>1 DEF ReadInv, vars
  <1>4. QED
    BY <1>1, <1>2, <1>3, OtherRead, RxRead DEF Next, Quiet

-----------------------------------------------------------------------------
(* Nothing is lost. *)

LEMMA InitKept == Init => Kept /\ Safe
  <1> SUFFICES ASSUME Init PROVE Kept /\ Safe
    OBVIOUS
  <1>1. Kept
    BY FramesOfNone, TxStatesAre DEF Init, Kept, RxPolling
  <1>2. Safe
    BY DEF Init, Safe
  <1>3. QED
    BY <1>1, <1>2

LEMMA OutsideKept ==
    ASSUME TypeOK, Kept, Safe,
           Quiet \/ Writeback \/ (\E where \in {"tx", "rx"} : Plug(where)) \/ Remove
    PROVE  Kept' /\ Safe'
  <1>1. /\ UNCHANGED <<popped, file, rx, pushed>> /\ (disk' = disk \/ disk' = file)
        /\ tx' = tx \/ (tx.pc \in Popping /\ tx'.pc \in Popping /\ tx'.stale = tx.stale)
    BY QuietIs DEF Writeback, Plug, Remove, pipe, medium, txSide, rxSide
  <1>2. Received' = Received /\ InHand' = InHand
    BY <1>1 DEF Received, InHand, Popping
  <1>3. Safe'
    BY <1>1, <1>2 DEF Safe
  <1>4. tx.pc # "poll" => device' = "tx"
    <2>1. tx.pc # "poll" => device = "tx"
      BY DEF Kept
    <2>2. QED
      BY <2>1, QuietIs DEF Writeback, Plug, Remove
  <1>5. Kept'
    BY <1>1, <1>4 DEF Kept, Popping
  <1>6. QED
    BY <1>3, <1>5

(* Pulling the device out of the receiving station brings back what the file
   had before it was emptied. *)
LEMMA YankKept ==
    ASSUME TypeOK, FileInv, MediumInv, Kept, Safe, Yank, Clean'
    PROVE  Kept' /\ Safe'
  <1>1. device \in faulted' /\ device \in {"tx", "rx"}
    BY FaultIs DEF Yank, TypeOK
  <1>2. device = "rx"
    BY <1>1 DEF Clean
  <1>3. PICK lines \in Survivors : file' = lines /\ disk' = lines
    BY DEF Yank
  <1>4. Written \in Int
    BY DEF Written, TypeOK
  <1>5. lines = disk /\ (file = disk \/ file = <<>>)
    BY <1>2, <1>4, SurvivorsKeep DEF TypeOK, FileInv, MediumInv
  <1>6. FramesOf(file) \subseteq FramesOf(disk)
    BY <1>5, FramesOfNone
  <1>7. /\ UNCHANGED <<popped, rx, pushed>> /\ device' = "away"
        /\ tx'.pc = tx.pc
    BY DEF Yank, pipe, rxSide, TypeOK
  <1>8. Received' = Received /\ InHand' = InHand
    BY <1>7 DEF Received, InHand
  <1>9. Safe'
    BY <1>3, <1>5, <1>6, <1>7, <1>8 DEF Safe
  <1>10. Kept'
    BY <1>2, <1>3, <1>5, <1>7, <1>8 DEF Kept
  <1>11. QED
    BY <1>9, <1>10

LEMMA TxKept ==
    ASSUME TypeOK, RoundInv, FileInv, Kept, Safe, TxPoll \/ TimeLimit \/ TxTransfer, Clean'
    PROVE  Kept' /\ Safe'
  <1>1. CASE TxPoll
    <2>1. /\ tx.pc = "poll" /\ UNCHANGED <<popped, file, disk, device, rx, pushed>>
          /\ tx' = tx \/ (device = "tx" /\ tx' = [TxPolling EXCEPT !.pc = "next"])
      BY <1>1 DEF TxPoll, opendir_succeeds, pipe, medium, rxSide
    <2>2. Received' = Received /\ InHand' = InHand
      BY <2>1, TxStatesAre DEF Received, InHand
    <2>3. Safe'
      BY <2>1, <2>2 DEF Safe
    <2>4. Kept'
      BY <2>1, <2>2, TxStatesAre DEF Kept
    <2>5. QED
      BY <2>3, <2>4
  <1>2. CASE TimeLimit \/ TxNoFrame \/ (TxTryPop /\ ~(popped < arrived)) \/ TxLimit
    <2>1. /\ UNCHANGED <<popped, file, disk, device, rx, pushed>>
          /\ tx.pc # "poll" /\ tx'.stale = tx.stale
          /\ tx.pc \notin {"open", "put"} /\ tx'.pc \notin {"open", "put"}
      BY <1>2 DEF TimeLimit, TxNoFrame, TxTryPop, TxMoves, TxLimit, pipe, medium, rxSide, TypeOK
    <2>2. Received' = Received /\ InHand' = InHand
      BY <2>1 DEF Received, InHand
    <2>3. Safe'
      BY <2>1, <2>2 DEF Safe
    <2>4. Kept'
      BY <2>1, <2>2 DEF Kept
    <2>5. QED
      BY <2>3, <2>4
  <1>3. CASE TxTryPop /\ popped < arrived
    <2>1. /\ UNCHANGED <<file, disk, device, rx, pushed>> /\ popped' = popped + 1
          /\ tx.pc = "try_pop" /\ tx'.pc = "open" /\ tx'.stale = tx.stale /\ popped \in Nat
      BY <1>3 DEF TxTryPop, TxMoves, medium, rxSide, TypeOK
    <2>2. Received' = Received /\ InHand' = {popped + 1} /\ InHand = {}
      BY <2>1 DEF Received, InHand
    <2>3. \A f \in 1 .. popped' : f \in 1 .. popped \/ f = popped + 1
      BY <2>1
    <2>4. Safe'
      BY <2>1, <2>2, <2>3 DEF Safe
    <2>5. Kept'
      BY <2>1, <2>2 DEF Kept
    <2>6. QED
      BY <2>4, <2>5
  <1>4. CASE TxOpen
    <2>1. device = "tx" /\ tx.pc = "open"
      BY <1>4 DEF TxOpen, Kept
    <2>2. ~Fault("tx")
      BY FaultIs DEF Clean
    <2>3. /\ UNCHANGED <<popped, file, disk, device, rx, pushed>>
          /\ tx' = [tx EXCEPT !.pc = "put", !.stale = FALSE]
      BY <1>4, <2>1, <2>2 DEF TxOpen, pipe, rxSide
    <2>4. tx'.pc = "put" /\ tx'.stale = FALSE
      BY <2>3 DEF TypeOK
    <2>5. Received' = Received /\ InHand' = InHand
      BY <2>1, <2>3, <2>4 DEF Received, InHand
    <2>6. Safe'
      BY <2>3, <2>5 DEF Safe
    <2>7. Kept'
      BY <2>1, <2>3, <2>4, <2>5 DEF Kept
    <2>8. QED
      BY <2>6, <2>7
  <1>5. CASE TxWrite
    <2>1. tx.pc = "put" /\ device = "tx" /\ ~tx.stale
      BY <1>5 DEF TxWrite, Kept
    <2>2. ~Fault("tx")
      BY FaultIs DEF Clean
    <2>3. /\ UNCHANGED <<popped, disk, device, rx, pushed>>
          /\ file' = AppendLine(file, popped)
          /\ tx' = [tx EXCEPT !.pc = "limit", !.frames_count = @ + 1]
      BY <1>5, <2>1, <2>2 DEF TxWrite, pipe, rxSide
    <2>4. tx'.pc = "limit" /\ tx'.stale = tx.stale
      BY <2>3 DEF TypeOK
    <2>5. popped \in Frames /\ Written = popped - 1
      <3>1. popped \in Int /\ popped >= 1 /\ popped <= MaxFrames
        BY <2>1, MaxFramesAssumption DEF TypeOK, RoundInv
      <3>2. QED
        BY <2>1, <3>1, MaxFramesAssumption DEF Written, Frames
    <2>6. file' = Append(file, Whole(popped)) /\ file \in Seq(Lines) /\ AllWhole(file)
      BY <2>3, <2>5, AppendLineKeeps DEF TypeOK, FileInv, Kept
    <2>7. AllWhole(file') /\ FramesOf(file) \cup {popped} \subseteq FramesOf(file')
      BY <2>5, <2>6, AllWholeAppend, FramesOfAppend
    <2>8. Received' = Received /\ InHand = {popped} /\ InHand' = {}
      BY <2>1, <2>3, <2>4 DEF Received, InHand
    <2>9. Safe'
      BY <2>3, <2>7, <2>8 DEF Safe
    <2>10. Kept'
      BY <2>1, <2>3, <2>4, <2>7, <2>8 DEF Kept
    <2>11. QED
      BY <2>9, <2>10
  <1>6. CASE TxUmount
    <2>1. tx.pc = "umount" /\ device = "tx" /\ tx' = TxPolling
          /\ UNCHANGED <<popped, file, rx, pushed>>
      BY <1>6 DEF TxUmount, Kept, pipe, rxSide
    <2>2. (device' = "away" /\ disk' = file) \/ (device' = "tx" /\ disk' = disk)
      BY <1>6, <2>1 DEF TxUmount, umount
    <2>3. Received' = Received /\ InHand' = InHand
      BY <2>1, TxStatesAre DEF Received, InHand
    <2>4. Safe'
      BY <2>1, <2>3 DEF Safe
    <2>5. Kept'
      BY <2>1, <2>2, <2>3, TxStatesAre DEF Kept
    <2>6. QED
      BY <2>4, <2>5
  <1>7. QED
    BY <1>1, <1>2, <1>3, <1>4, <1>5, <1>6, OutsideKept DEF TxTransfer, Quiet

(* The file is emptied only after its last line was pushed. *)
LEMMA RxKept ==
    ASSUME TypeOK, ReadInv, Kept, Safe, RxStep \/ RxReadError \/ RxRestart, Clean'
    PROVE  Kept' /\ Safe'
  <1>0. rx.pc \in {"poll", "read", "truncate", "umount", "crashed"} /\ rx.todo \in Seq(Lines)
    BY DEF TypeOK
  <1>a. UNCHANGED <<popped, tx>>
    BY DEF RxStep, RxOpen, RxLine, RxEnd, RxTruncate, RxUmount, RxReadError, RxRestart,
           pipe, txSide
  <1>b. InHand' = InHand
    BY <1>a DEF InHand
  <1>1. CASE RxOpen
    <2>1. /\ UNCHANGED <<file, disk, device, pushed>> /\ rx'.pc = "read" /\ rx'.todo = file
      BY <1>1 DEF RxOpen, medium
    <2>2. Received' = Received
      BY <2>1 DEF Received
    <2>3. Safe'
      BY <1>a, <1>b, <2>1, <2>2 DEF Safe
    <2>4. Kept'
      BY <1>a, <2>1, <2>2 DEF Kept
    <2>5. QED
      BY <2>3, <2>4
  <1>2. CASE RxLine
    <2> DEFINE line == Head(rx.todo)
    <2>1. rx.pc = "read" /\ rx.todo # <<>> /\ UNCHANGED <<file, disk, device>>
      BY <1>2 DEF RxLine, medium
    <2>2. AllWhole(Tail(rx.todo)) /\ line.kind = "whole" /\ line \in Lines
      BY <1>0, <2>1, AllWholeTail DEF Kept
    <2>3. pushed' = Append(pushed, line.frame) /\ rx' = [rx EXCEPT !.todo = Tail(@)]
      BY <1>2, <2>2 DEF RxLine
    <2> HIDE DEF line
    <2>5. Received' = Received \cup {line.frame}
      <3>1. line.frame \in Frames \cup {Junk}
        BY <2>2, LineFrame
      <3>2. QED
        BY <3>1, <2>3, ReceivedAppend
    <2>6. rx'.pc = "read" /\ rx'.todo = Tail(rx.todo)
      BY <2>1, <2>3 DEF TypeOK
    <2>7. Safe'
      BY <1>a, <1>b, <2>1, <2>5 DEF Safe
    <2>8. Kept'
      BY <1>a, <2>1, <2>2, <2>6 DEF Kept
    <2>9. QED
      BY <2>7, <2>8
  <1>3. CASE RxEnd \/ RxReadError
    <2>1. /\ rx.pc = "read" /\ rx'.pc = "truncate" /\ rx'.todo = <<>>
          /\ UNCHANGED <<file, disk, device, pushed>>
      BY <1>3 DEF RxEnd, RxReadError, medium, TypeOK
    <2>2. Received' = Received
      BY <2>1 DEF Received
    <2>4. Safe'
      BY <1>a, <1>b, <2>1, <2>2 DEF Safe
    <2>6. Kept'
      BY <1>a, <2>1, <2>2, FramesOfNone DEF Kept
    <2>7. QED
      BY <2>4, <2>6
  <1>4. CASE RxTruncate
    <2>1. /\ rx.pc = "truncate" /\ rx'.pc = "umount" /\ rx'.todo = rx.todo
          /\ UNCHANGED <<disk, device, pushed>>
          /\ file' = file \/ (device = "rx" /\ file' = <<>>)
      BY <1>4 DEF RxTruncate, TypeOK
    <2>2. Received' = Received
      BY <2>1 DEF Received
    <2>3. FramesOf(file) \subseteq FramesOf(file') \cup Received
      BY <2>1 DEF ReadInv
    <2>4. Safe'
      BY <1>a, <1>b, <2>2, <2>3 DEF Safe
    <2>5. Kept'
      BY <1>a, <2>1, <2>2, FramesOfNone DEF Kept
    <2>6. QED
      BY <2>4, <2>5
  <1>5. CASE RxUmount \/ RxRestart
    <2>1. rx'.pc = "poll" /\ rx'.todo = <<>> /\ UNCHANGED <<file, pushed>>
      BY <1>5 DEF RxUmount, RxRestart, RxPolling, medium
    <2>2. \/ device = "rx" /\ device' = "away" /\ disk' = file
          \/ device' = device /\ disk' = disk
      BY <1>5 DEF RxUmount, RxRestart, umount, medium
    <2>3. Received' = Received
      BY <2>1 DEF Received
    <2>4. Safe'
      BY <1>a, <1>b, <2>1, <2>3 DEF Safe
    <2>5. Kept'
      BY <1>a, <2>1, <2>2, <2>3, FramesOfNone DEF Kept
    <2>6. QED
      BY <2>4, <2>5
  <1>6. QED
    BY <1>1, <1>2, <1>3, <1>4, <1>5 DEF RxStep

LEMMA StutterKept ==
    ASSUME Kept, Safe, UNCHANGED vars
    PROVE  Kept' /\ Safe'
  <1>1. Received' = Received /\ InHand' = InHand
    BY DEF Received, InHand, vars
  <1>2. Kept'
    BY <1>1 DEF Kept, vars
  <1>3. Safe'
    BY <1>1 DEF Safe, vars
  <1>4. QED
    BY <1>2, <1>3

LEMMA StepKept ==
    ASSUME TypeOK, RoundInv, FileInv, MediumInv, AllRead => ReadInv, Clean => Kept /\ Safe,
           [Next]_vars
    PROVE  (Clean => Kept /\ Safe)'
  <1>1. SUFFICES ASSUME Clean' PROVE Kept' /\ Safe'
    OBVIOUS
  <1>2. Kept /\ Safe
    BY <1>1, FaultsStay DEF Clean
  <1>3. ReadInv
    BY <1>1, FaultsStay DEF Clean, AllRead
  <1>4. QED
    BY <1>1, <1>2, <1>3, OutsideKept, YankKept, TxKept, RxKept, StutterKept DEF Next, Quiet

-----------------------------------------------------------------------------
(* Once and in order. *)

LEMMA ConsecutiveAppend ==
    ASSUME NEW lines \in Seq(Lines), NEW n \in Int, NEW f \in Frames, Consecutive(lines, n),
           f = n + Len(lines) + 1
    PROVE  /\ AppendLine(lines, f) = Append(lines, Whole(f))
           /\ Consecutive(Append(lines, Whole(f)), n)
           /\ Len(Append(lines, Whole(f))) = Len(lines) + 1
  <1> DEFINE new == Append(lines, Whole(f))
  <1>1. /\ Len(lines) \in Nat /\ DOMAIN lines = 1 .. Len(lines)
        /\ DOMAIN new = 1 .. Len(lines) + 1
        /\ Len(new) = Len(lines) + 1
        /\ \A i \in 1 .. Len(lines) : new[i] = lines[i]
        /\ new[Len(lines) + 1] = Whole(f)
    BY WholeIsLine
  <1>2. AppendLine(lines, f) = new
    <2>1. CASE lines = <<>>
      BY <2>1 DEF AppendLine
    <2>2. CASE lines # <<>>
      <3>1. Len(lines) \in DOMAIN lines
        BY <2>2
      <3>2. lines[Len(lines)] = Whole(n + Len(lines))
        BY <3>1 DEF Consecutive
      <3>3. lines[Len(lines)].kind # "torn"
        BY <3>2 DEF Whole
      <3>4. QED
        BY <3>3 DEF AppendLine
    <2>3. QED
      BY <2>1, <2>2
  <1>3. f = n + (Len(lines) + 1)
    BY <1>1
  <1> HIDE DEF new
  <1>4. ASSUME NEW i \in DOMAIN new PROVE new[i] = Whole(n + i)
    <2>1. CASE i = Len(lines) + 1
      BY <2>1, <1>1, <1>3
    <2>2. CASE i # Len(lines) + 1
      <3>1. i \in DOMAIN lines /\ new[i] = lines[i]
        BY <2>2, <1>1
      <3>2. QED
        BY <3>1 DEF Consecutive
    <2>3. QED
      BY <2>1, <2>2
  <1>5. Consecutive(new, n)
    BY <1>4 DEF Consecutive
  <1>6. QED
    BY <1>1, <1>2, <1>5 DEF new

LEMMA ConsecutiveTail ==
    ASSUME NEW lines \in Seq(Lines), NEW n \in Int, Consecutive(lines, n), lines # <<>>
    PROVE  /\ Head(lines) = Whole(n + 1)
           /\ Consecutive(Tail(lines), n + 1)
           /\ Len(Tail(lines)) = Len(lines) - 1
  <1>1. /\ Len(lines) \in Nat /\ DOMAIN lines = 1 .. Len(lines) /\ 1 \in DOMAIN lines
        /\ DOMAIN Tail(lines) = 1 .. Len(lines) - 1
        /\ \A i \in 1 .. Len(lines) - 1 : Tail(lines)[i] = lines[i + 1]
        /\ Head(lines) = lines[1]
        /\ Len(Tail(lines)) = Len(lines) - 1
    OBVIOUS
  <1>2. Head(lines) = Whole(n + 1)
    BY <1>1 DEF Consecutive
  <1>3. ASSUME NEW i \in DOMAIN Tail(lines) PROVE Tail(lines)[i] = Whole(n + 1 + i)
    <2>1. i + 1 \in DOMAIN lines /\ Tail(lines)[i] = lines[i + 1] /\ n + (i + 1) = n + 1 + i
      BY <1>1
    <2>2. lines[i + 1] = Whole(n + (i + 1))
      BY <2>1 DEF Consecutive
    <2>3. QED
      BY <2>1, <2>2
  <1>4. QED
    BY <1>1, <1>2, <1>3 DEF Consecutive

LEMMA ConsecutiveNone == \A n : Consecutive(<<>>, n)
  BY DEF Consecutive

LEMMA InitOrderly == Init => Orderly
  BY ConsecutiveNone, TxStatesAre DEF Init, Orderly, Written, RxPolling

LEMMA OutsideOrderly ==
    ASSUME TypeOK, Orderly,
           Quiet \/ Writeback \/ (\E where \in {"tx", "rx"} : Plug(where)) \/ Remove
    PROVE  Orderly'
  <1>1. /\ UNCHANGED <<popped, file, rx, pushed>>
        /\ tx' = tx \/ (tx.pc \in Popping /\ tx'.pc \in Popping /\ tx'.stale = tx.stale)
    BY QuietIs DEF Writeback, Plug, Remove, pipe, medium, txSide, rxSide
  <1>2. Written' = Written
    BY <1>1 DEF Written, Popping
  <1>3. (tx.pc # "poll" => device' = "tx") /\ (rx.pc # "poll" => device' = "rx")
    <2>1. CASE Quiet \/ Writeback
      BY <2>1, QuietIs DEF Writeback, medium, Orderly
    <2>2. CASE \E where \in {"tx", "rx"} : Plug(where)
      BY <2>2 DEF Plug, Orderly
    <2>3. CASE Remove
      BY <2>3 DEF Remove, Orderly
    <2>4. QED
      BY <2>1, <2>2, <2>3
  <1>4. QED
    BY <1>1, <1>2, <1>3 DEF Orderly, Popping

LEMMA TxOrderly ==
    ASSUME TypeOK, RoundInv, Orderly, TxPoll \/ TimeLimit \/ TxTransfer, Harmless'
    PROVE  Orderly'
  <1>0. UNCHANGED <<rx, pushed>>
    BY QuietIs DEF TxPoll, TimeLimit, TxTransfer, TxNoFrame, TxTryPop, TxOpen, TxWrite, TxLimit,
           TxUmount, Quiet, rxSide
  <1>1. CASE TxPoll
    <2>1. /\ tx.pc = "poll" /\ UNCHANGED <<popped, file, device>>
          /\ tx' = tx \/ (device = "tx" /\ tx' = [TxPolling EXCEPT !.pc = "next"])
      BY <1>1 DEF TxPoll, opendir_succeeds, pipe, medium
    <2>2. Written' = Written
      BY <2>1, TxStatesAre DEF Written
    <2>3. QED
      BY <1>0, <2>1, <2>2, TxStatesAre DEF Orderly
  <1>2. CASE TimeLimit \/ TxNoFrame \/ (TxTryPop /\ ~(popped < arrived)) \/ TxLimit
    <2>1. /\ UNCHANGED <<popped, file, device>>
          /\ tx.pc # "poll" /\ tx'.stale = tx.stale
          /\ tx.pc \notin {"open", "put"} /\ tx'.pc \notin {"open", "put"}
      BY <1>2 DEF TimeLimit, TxNoFrame, TxTryPop, TxMoves, TxLimit, pipe, medium, TypeOK
    <2>2. Written' = Written
      BY <2>1 DEF Written
    <2>3. QED
      BY <1>0, <2>1, <2>2 DEF Orderly
  <1>3. CASE TxTryPop /\ popped < arrived
    <2>1. /\ UNCHANGED <<file, device>> /\ popped' = popped + 1
          /\ tx.pc = "try_pop" /\ tx'.pc = "open" /\ tx'.stale = tx.stale /\ popped \in Nat
      BY <1>3 DEF TxTryPop, TxMoves, medium, TypeOK
    <2>2. Written' = Written
      BY <2>1 DEF Written
    <2>3. QED
      BY <1>0, <2>1, <2>2 DEF Orderly
  <1>4. CASE TxOpen
    <2>1. device = "tx" /\ tx.pc = "open"
      BY <1>4 DEF TxOpen, Orderly
    <2>2. ~Fault("tx")
      BY FaultIs DEF Harmless
    <2>3. /\ UNCHANGED <<popped, file, device>>
          /\ tx' = [tx EXCEPT !.pc = "put", !.stale = FALSE]
      BY <1>4, <2>1, <2>2 DEF TxOpen, pipe
    <2>4. tx'.pc = "put" /\ tx'.stale = FALSE
      BY <2>3 DEF TypeOK
    <2>5. Written' = Written
      BY <2>1, <2>3, <2>4 DEF Written
    <2>6. QED
      BY <1>0, <2>1, <2>3, <2>4, <2>5 DEF Orderly
  <1>5. CASE TxWrite
    <2>1. tx.pc = "put" /\ device = "tx" /\ ~tx.stale /\ rx.pc = "poll"
      BY <1>5 DEF TxWrite, Orderly
    <2>2. ~Fault("tx")
      BY FaultIs DEF Harmless
    <2>3. /\ UNCHANGED <<popped, device>>
          /\ file' = AppendLine(file, popped)
          /\ tx' = [tx EXCEPT !.pc = "limit", !.frames_count = @ + 1]
      BY <1>5, <2>1, <2>2 DEF TxWrite, pipe
    <2>4. tx'.pc = "limit" /\ tx'.stale = tx.stale
      BY <2>3 DEF TypeOK
    <2>5. /\ popped \in Frames /\ popped \in Int
          /\ Written = popped - 1 /\ Written' = popped
      <3>1. popped \in Int /\ popped >= 1 /\ popped <= MaxFrames
        BY <2>1, MaxFramesAssumption DEF TypeOK, RoundInv
      <3>2. QED
        BY <2>1, <2>3, <2>4, <3>1, MaxFramesAssumption DEF Written, Frames
    <2>6. /\ Consecutive(file, Len(pushed)) /\ Len(pushed) + Len(file) = popped - 1
          /\ file \in Seq(Lines) /\ Len(pushed) \in Int /\ Len(file) \in Int
      BY <2>1, <2>5 DEF Orderly, TypeOK
    <2>7. popped = Len(pushed) + Len(file) + 1
      BY <2>5, <2>6
    <2>8. /\ Consecutive(file', Len(pushed)) /\ Len(file') = Len(file) + 1
      BY <2>3, <2>5, <2>6, <2>7, ConsecutiveAppend
    <2>9. Len(pushed') + Len(file') = Written'
      BY <1>0, <2>5, <2>6, <2>8
    <2>10. QED
      BY <1>0, <2>1, <2>3, <2>4, <2>8, <2>9 DEF Orderly
  <1>6. CASE TxUmount
    <2>1. tx.pc = "umount" /\ device = "tx" /\ rx.pc = "poll" /\ tx' = TxPolling
          /\ UNCHANGED <<popped, file>>
      BY <1>6 DEF TxUmount, Orderly, pipe
    <2>2. Written' = Written
      BY <2>1, TxStatesAre DEF Written
    <2>3. QED
      BY <1>0, <2>1, <2>2, TxStatesAre DEF Orderly
  <1>7. QED
    BY <1>1, <1>2, <1>3, <1>4, <1>5, <1>6, OutsideOrderly DEF TxTransfer, Quiet

LEMMA RxOrderly ==
    ASSUME TypeOK, Orderly, RxStep \/ RxReadError \/ RxRestart, Harmless'
    PROVE  Orderly'
  <1>0. rx.pc \in {"poll", "read", "truncate", "umount", "crashed"} /\ rx.todo \in Seq(Lines)
    BY DEF TypeOK
  <1>a. UNCHANGED <<popped, tx>>
    BY DEF RxStep, RxOpen, RxLine, RxEnd, RxTruncate, RxUmount, RxReadError, RxRestart,
           pipe, txSide
  <1>b. Written' = Written
    BY <1>a DEF Written
  <1>1. CASE RxOpen
    <2>1. /\ rx.pc = "poll" /\ device = "rx" /\ UNCHANGED <<file, device, pushed>>
          /\ rx'.pc = "read" /\ rx'.todo = file
      BY <1>1 DEF RxOpen, medium
    <2>2. QED
      BY <1>a, <1>b, <2>1 DEF Orderly
  <1>2. CASE RxLine
    <2>1. rx.pc = "read" /\ rx.todo # <<>> /\ UNCHANGED <<file, device>>
      BY <1>2 DEF RxLine, medium
    <2>2. /\ Consecutive(rx.todo, Len(pushed)) /\ Len(pushed) + Len(rx.todo) = Written
          /\ Len(pushed) \in Int /\ Len(rx.todo) \in Int
      BY <2>1, <1>0 DEF Orderly, TypeOK
    <2>3. /\ Head(rx.todo) = Whole(Len(pushed) + 1)
          /\ Consecutive(Tail(rx.todo), Len(pushed) + 1)
          /\ Len(Tail(rx.todo)) = Len(rx.todo) - 1
      BY <1>0, <2>1, <2>2, ConsecutiveTail
    <2>4. Head(rx.todo).kind = "whole" /\ Head(rx.todo).frame = Len(pushed) + 1
      BY <2>3 DEF Whole
    <2>5. pushed' = Append(pushed, Len(pushed) + 1) /\ rx' = [rx EXCEPT !.todo = Tail(@)]
      BY <1>2, <2>4 DEF RxLine
    <2>6. rx'.pc = "read" /\ rx'.todo = Tail(rx.todo)
      BY <2>1, <2>5 DEF TypeOK
    <2>7. Len(pushed') = Len(pushed) + 1 /\ \A i \in DOMAIN pushed' : pushed'[i] = i
      <3>1. pushed \in Seq(Frames \cup {Junk}) /\ \A i \in DOMAIN pushed : pushed[i] = i
        BY DEF TypeOK, Orderly
      <3>2. /\ Len(pushed) \in Nat /\ DOMAIN pushed = 1 .. Len(pushed)
            /\ DOMAIN pushed' = 1 .. Len(pushed) + 1
            /\ \A i \in 1 .. Len(pushed) : pushed'[i] = pushed[i]
            /\ pushed'[Len(pushed) + 1] = Len(pushed) + 1
            /\ Len(pushed') = Len(pushed) + 1
        BY <3>1, <2>5
      <3>3. QED
        BY <3>1, <3>2
    <2>8. Consecutive(rx'.todo, Len(pushed')) /\ Len(pushed') + Len(rx'.todo) = Written'
      <3>1. Consecutive(rx'.todo, Len(pushed'))
        BY <2>3, <2>6, <2>7
      <3>2. Len(pushed') + Len(rx'.todo) = (Len(pushed) + 1) + (Len(rx.todo) - 1)
        <4>1. Len(rx'.todo) = Len(rx.todo) - 1
          BY <2>3, <2>6
        <4>2. QED
          BY <4>1, <2>7
      <3>3. (Len(pushed) + 1) + (Len(rx.todo) - 1) = Len(pushed) + Len(rx.todo)
        <4>1. \A a, b \in Int : (a + 1) + (b - 1) = a + b
          OBVIOUS
        <4>2. Len(pushed) \in Int /\ Len(rx.todo) \in Int
          BY <2>2
        <4>3. QED
          BY <4>1, <4>2, Zenon
      <3>4. QED
        BY <1>b, <2>2, <3>1, <3>2, <3>3
    <2>9. QED
      BY <1>a, <2>1, <2>6, <2>7, <2>8 DEF Orderly
  <1>3. CASE RxEnd
    <2>1. /\ rx.pc = "read" /\ rx.todo = <<>> /\ rx'.pc = "truncate"
          /\ UNCHANGED <<file, device, pushed>>
      BY <1>3 DEF RxEnd, medium, TypeOK
    <2>2. Len(pushed) = Written
      <3>1. Len(pushed) \in Int /\ Len(rx.todo) = 0
        BY <2>1 DEF TypeOK
      <3>2. QED
        BY <2>1, <3>1 DEF Orderly
    <2>3. QED
      BY <1>a, <1>b, <2>1, <2>2 DEF Orderly
  <1>4. CASE RxTruncate
    <2>1. /\ rx.pc = "truncate" /\ rx'.pc = "umount" /\ device = "rx"
          /\ UNCHANGED <<device, pushed>> /\ file' = <<>>
      <3>1. ~Fault("rx")
        BY FaultIs DEF Harmless
      <3>2. QED
        BY <1>4, <3>1 DEF RxTruncate, TypeOK, Orderly
    <2>2. Len(pushed') + Len(file') = Written'
      <3>1. Len(pushed) \in Int /\ Len(file') = 0 /\ Len(pushed) = Written
        BY <2>1 DEF TypeOK, Orderly
      <3>2. QED
        BY <1>b, <2>1, <3>1
    <2>3. Consecutive(file', Len(pushed'))
      BY <2>1, ConsecutiveNone
    <2>4. QED
      BY <1>a, <2>1, <2>2, <2>3 DEF Orderly
  <1>5. CASE RxUmount
    <2>1. rx.pc = "umount" /\ rx'.pc = "poll" /\ UNCHANGED <<file, pushed>> /\ device = "rx"
      BY <1>5 DEF RxUmount, RxPolling, Orderly
    <2>2. QED
      BY <1>a, <1>b, <2>1 DEF Orderly
  <1>6. CASE RxReadError
    <2>1. ~Fault("read")
      BY FaultIs DEF Harmless
    <2>2. QED
      BY <1>6, <2>1 DEF RxReadError, Orderly
  <1>7. CASE RxRestart
    <2>1. ~Fault("rx")
      BY FaultIs DEF Harmless
    <2>2. QED
      BY <1>7, <2>1 DEF RxRestart
  <1>8. QED
    BY <1>1, <1>2, <1>3, <1>4, <1>5, <1>6, <1>7 DEF RxStep

LEMMA StepOrderly ==
    ASSUME TypeOK, RoundInv, Harmless => Orderly, [Next]_vars
    PROVE  (Harmless => Orderly)'
  <1>1. SUFFICES ASSUME Harmless' PROVE Orderly'
    OBVIOUS
  <1>2. Orderly
    BY <1>1, FaultsStay DEF Harmless
  <1>3. ~Yank
    <2>1. ASSUME Yank PROVE device \in faulted' /\ device \in {"tx", "rx"}
      BY <2>1, FaultIs DEF Yank, TypeOK
    <2>2. QED
      BY <1>1, <2>1 DEF Harmless
  <1>4. CASE UNCHANGED vars
    <2>1. Written' = Written
      BY <1>4 DEF Written, vars
    <2>2. QED
      BY <1>2, <1>4, <2>1 DEF Orderly, vars
  <1>5. QED
    BY <1>1, <1>2, <1>3, <1>4, OutsideOrderly, TxOrderly, RxOrderly DEF Next, Quiet

-----------------------------------------------------------------------------
(* The inductive invariant holds in every behaviour. *)
THEOREM Invariant == Spec => []IndInv
  <1>1. Init => IndInv
    BY InitBasics, InitMedium, InitRead, InitKept, InitOrderly DEF IndInv
  <1>2. IndInv /\ [Next]_vars => IndInv'
    BY StepBasics, StepMedium, StepRead, StepKept, StepOrderly DEF IndInv
  <1>3. QED
    BY <1>1, <1>2, PTL DEF Spec

(* Types: the file is a sequence of lines and the rx module has pushed frames,
   whatever transfers, crashes and removals there were. *)
THEOREM TypeCorrect == Spec => []TypeOK
  <1>1. IndInv => TypeOK
    BY DEF IndInv
  <1>2. QED
    BY <1>1, Invariant, PTL

(* Appending at the end is all the tx module ever does to the file, and a line
   that was cut gets the number of the frame it is run together with: the file
   and the medium are in the order of the pipe and hold no frame twice. *)
THEOREM FileOrdered == Spec => []FileInOrder
  <1>1. IndInv => FileInOrder
    BY DEF IndInv, FileInv, Increasing, FileInOrder
  <1>2. QED
    BY <1>1, Invariant, PTL

(* No frame is lost while the sending side writes what it was told to and no
   line fails to be read, over any number of transfers: not when the device is
   pulled out of the receiving station or that station is restarted. *)
THEOREM NoFrameLost == Spec => []NothingLost
  <1>1. IndInv => NothingLost
    BY DEF IndInv, Clean, Safe, NothingLost
  <1>2. QED
    BY <1>1, Invariant, PTL

(* A whole frame leaves the medium only for the receiver, whatever the faults
   but a line that cannot be read: the file continues what is on the medium
   until it is emptied, and by then its frames were pushed. *)
THEOREM MediumKept == Spec => MediumKeepsFrames
  <1>1. IndInv /\ [Next]_vars =>
            [ "read" \notin faulted' =>
                  FramesOf(disk) \subseteq FramesOf(disk') \cup Received' ]_vars
    BY StepBasics, StepRead DEF IndInv, AllRead
  <1>2. QED
    BY <1>1, Invariant, PTL DEF Spec, MediumKeepsFrames

(* Without a fault the receiver gets the frames that leave the pipe once and in
   their order: what was pushed and the lines that follow are the frames written
   so far.  A umount that fails and a reset leave both as they are. *)
THEOREM ReceivedInOrder == Spec => []OnceInOrder
  <1>1. IndInv => OnceInOrder
    BY DEF IndInv, Harmless, Orderly, OnceInOrder
  <1>2. QED
    BY <1>1, Invariant, PTL

=============================================================================
