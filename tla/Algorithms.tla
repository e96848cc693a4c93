------------------------------ MODULE Algorithms ------------------------------
(***************************************************************************)
(* The functions of Encodings and Texts checked against reference          *)
(* definitions: Init picks an input, and the invariants say what the code  *)
(* computes from it.  The dump of a frame is computed turn by turn.        *)
(***************************************************************************)
EXTENDS Encodings, Texts

CONSTANTS Bytes,             \* bytes of the frames tried
          MaxBytes,          \* longest frame tried with every content
          LongFrames,        \* longer ones tried with one content
          Beyond,            \* what may lie behind a short buffer
          LongestFrame,      \* PIGEON_LINK_MTU and the header (170 + 14)
          Scales,            \* scales tried for printing
          PRINT_SCALE,       \* the scale of printer_printQRCode (6)
          MaxWidth,          \* widest QR code tried with every pattern
          WideWidth,         \* a QR code wider than a byte, tried with one black module
          MaxDatagram,       \* longest datagram tried
          MaxData,           \* longest frame data tried for printing
          MaxCount           \* highest count shown

VARIABLES input,    \* what the functions are given
          dump      \* the loop of pigeon_frame_print_data

vars == <<input, dump>>

ASSUME InputAssumption ==
    /\ Bytes \subseteq 0 .. 255 /\ Beyond \subseteq 0 .. 255
    /\ Scales \subseteq Nat \ {0} /\ LongFrames \subseteq Nat
    /\ {MaxBytes, MaxWidth, WideWidth, MaxDatagram, MaxData, MaxCount} \subseteq Nat \ {0}

(* The longest frame has a place in the table of codes, the widest of      *)
(* which, 61 modules in 8 bytes, fits the paper, and its text a buffer.    *)
ASSUME MediaAssumption ==
    /\ LongestFrame \in Nat /\ LongestFrame =< QR_CAPACITY[11]
    /\ PRINT_SCALE \in Nat /\ 8 * PRINT_SCALE =< ROW_BYTES
    /\ 4 * ((LongestFrame + 2) \div 3) + 2 =< READ_BUFFER_SIZE

Square(w) == [1 .. w -> [1 .. w -> BOOLEAN]]
OneBlack(w) == {[i \in 1 .. w |-> [j \in 1 .. w |-> i = x /\ j = y]] : x, y \in 1 .. w}

InputChosen ==
    \/ \E bytes \in BoundedSeq(Bytes, MaxBytes), beyond, later \in Beyond :
          /\ bytes # <<>>
          /\ input = [kind |-> "frame", bytes |-> bytes, beyond |-> beyond, later |-> later]
    \/ \E size \in LongFrames, beyond, later \in Beyond :
          input = [kind |-> "long", bytes |-> [i \in 1 .. size |-> i % 256],
                   beyond |-> beyond, later |-> later]
    \/ \E size \in 1 .. LongestFrame : input = [kind |-> "size", size |-> size]
    \/ \E scale \in Scales :
          \E code \in (UNION {Square(w) : w \in 1 .. MaxWidth}) \cup OneBlack(WideWidth) :
             input = [kind |-> "code", code |-> code, scale |-> scale]
    \/ \E text \in BoundedSeq({" ", "0", "help", "stop", "x"}, MaxDatagram) :
          input = [kind |-> "datagram", text |-> text]
    \/ \E data \in BoundedSeq({"a", "\n", "\r", "0"}, MaxData) :
          input = [kind |-> "data", data |-> data]
    \/ \E count \in 0 .. MaxCount : input = [kind |-> "count", count |-> count]

Init == InputChosen /\ dump = PrintStart

(* A turn of the loop over the data. *)
pigeon_frame_print_data ==
    /\ input.kind = "data" /\ dump.i < Len(input.data)
    /\ dump' = print_turn(input.data, dump)
    /\ UNCHANGED input

Next == pigeon_frame_print_data \/ UNCHANGED vars

Spec == Init /\ [][Next]_vars

-----------------------------------------------------------------------------
(* The frame a station reads from the frames file is the frame the other   *)
(* station got from its tunnel, byte for byte and whatever memory lies     *)
(* behind the two buffers, padding included: padding happens once.  This   *)
(* holds for a frame whose text, newline and NUL fit the buffer that fgets *)
(* reads into; a longer one, which pigeon_frame_new still lets through, is *)
(* dropped and never read as part of a frame.                              *)
FrameSurvivesFile ==
    input.kind \in {"frame", "long"} =>
        LET sent == pigeon_frame_new(input.bytes, input.beyond)
            fits == 4 * ((Len(sent) + 2) \div 3) + 2 =< READ_BUFFER_SIZE
        IN sent # NULL => line_to_frame(pigeon_frame_to_file(sent), input.later)
                            = IF fits THEN sent ELSE NULL

(* The camera station reads the printed frame and one more byte, the       *)
(* newline of zbarimg, which cut keeps - provided the frame holds no colon *)
(* in a line behind its first newline: cut would drop what precedes it.    *)
CameraKeepsFrame ==
    input.kind = "frame" =>
        LET sent == pigeon_frame_new(input.bytes, input.beyond)
        IN /\ sent # NULL
           /\ ~\E i \in DOMAIN sent, k \in DOMAIN sent :
                  i < k /\ sent[i] = LF /\ sent[k] = COLON
           => bar_code_read(sent) = Append(sent, LF)

(* Every frame the MTU lets through fits every medium: as a QR code at the *)
(* scale of the program it is not too wide for the paper, and as a line    *)
(* with its newline fgets reads it in one piece.                           *)
FrameFitsEveryMedium ==
    input.kind = "size" =>
        /\ FitsPaper(QRcode_width(input.size), PRINT_SCALE)
        /\ Len(base64_encode([i \in 1 .. input.size |-> 0])) + 1 =< READ_BUFFER_SIZE - 1

(* On paper every module of the code is a square of scale by scale dots,   *)
(* in its place, and the rest of the width is white.  Of a code that is    *)
(* too wide nothing is printed.                                            *)
PrintedIsCode ==
    input.kind = "code" =>
        LET printed == printer_printQRCode(input.code, input.scale)
            width == Len(input.code)
            dot(y, x) == Bit(printed[y][((x - 1) \div 8) + 1], 7 - ((x - 1) % 8)) = 1
            module(y, x) == /\ x =< width * input.scale
                            /\ input.code[(y - 1) \div input.scale + 1]
                                         [(x - 1) \div input.scale + 1]
        IN IF FitsPaper(width, input.scale)
           THEN /\ Len(printed) = width * input.scale
                /\ \A y \in 1 .. Len(printed), x \in 1 .. 8 * ROW_BYTES :
                      dot(y, x) <=> module(y, x)
           ELSE printed = <<>>

(* The server stops for a datagram whose first word is stop and for no     *)
(* other; it answers every datagram that has a word, a blank one with      *)
(* nothing; and the answer always fits its buffer, with the NUL that       *)
(* vsnprintf puts behind it.  The first word is found by its place: no     *)
(* word character precedes it.                                             *)
CommandIsAnswered ==
    input.kind = "datagram" =>
        LET answer == RunDatagram(input.text)
            text == ReceiveBuffer(input.text)
            word(i) == text[i] # " "
            stop == \E i \in DOMAIN text :
                       /\ text[i] = "stop"
                       /\ \A k \in 1 .. i - 1 : ~word(k)
                       /\ i = Len(text) \/ ~word(i + 1)
        IN /\ answer.result = "SUCCESS_STOP" <=> stop
           /\ answer.out_size > 0 <=> \E i \in DOMAIN text : word(i)
           /\ answer.result # "RESPONSE_TOO_LARGE" /\ answer.whole

(* In the dump of a frame numbers stand outside strings and text inside.   *)
(* A string opens when none is open and starts with four characters or     *)
(* more, closes behind a line end that no text follows, and is closed when *)
(* the loop ends; all that is left out of the dump is a carriage return.   *)
StringsAreClosed ==
    input.kind = "data" =>
        LET data == input.data
            out == dump.out
            open(j, k) == out[j].open /\ \A c \in j .. k - 1 : ~out[c].close
            text(k) == isprint(data[k]) \/ eol_char(data[k])
        IN \A k \in 1 .. Len(out) :
              /\ out[k].shown = "number" <=> ~\E j \in 1 .. k : open(j, k)
              /\ out[k].shown # "number" => text(k)
              /\ out[k].shown = "nothing" => data[k] = "\r"
              /\ out[k].open =>
                    /\ ~\E j \in 1 .. k - 1 : open(j, k)
                    /\ k + 4 =< Len(data) /\ \A m \in k .. k + 3 : isprint(data[m])
                    /\ Len(out) = Len(data) => \E c \in k .. Len(out) : out[c].close
              /\ out[k].close => /\ \E j \in 1 .. k : open(j, k)
                                 /\ eol_char(data[k])
                                 /\ k = Len(data) \/ ~text(k + 1)

(* The two digits show the number of frames waiting, right-aligned, and 99 *)
(* from 99 on; nothing is left over of a longer number.                    *)
DisplayShowsCount ==
    input.kind = "count" =>
        LET shown == beagle_display_set_output_number(input.count)
            tens == IF shown[1] = Blank THEN 0 ELSE 10 * shown[1]
        IN /\ shown[2] \in 0 .. 9 /\ shown[1] # 0
           /\ tens + shown[2] = Min({input.count, SCREEN_MAX_VALUE})
=============================================================================
