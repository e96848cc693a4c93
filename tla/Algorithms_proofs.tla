-------------------------- MODULE Algorithms_proofs --------------------------
(***************************************************************************)
(* The invariants of Algorithms for inputs of every size.                  *)
(***************************************************************************)
EXTENDS Algorithms, Encodings_proofs, SequenceTheorems

(* What Init may choose, one conjunct for each kind of input. *)
InputType ==
    /\ input.kind \in {"frame", "long"} => input.bytes \in Seq(Byte) /\ input.beyond \in Byte
    /\ input.kind = "size" => input.size \in 1 .. LongestFrame
    /\ input.kind = "code" => /\ input.scale \in Nat \ {0}
                              /\ Len(input.code) \in Nat \ {0}
    /\ input.kind = "datagram" => input.text \in Seq({" ", "0", "help", "stop", "x"})
    /\ input.kind = "data" => input.data \in Seq({"a", "\n", "\r", "0"})
    /\ input.kind = "count" => input.count \in Nat

(* A bounded sequence is a sequence. *)
LEMMA BoundedSeqIs ==
    ASSUME NEW S, NEW T, S \subseteq T, NEW n \in Nat, NEW s \in BoundedSeq(S, n)
    PROVE  s \in Seq(T)
  <1>1. PICK m \in 0 .. n : s \in [1 .. m -> S]
    BY Zenon DEF BoundedSeq, SeqOf
  <1>2. m \in Nat /\ s \in [1 .. m -> T]
    BY <1>1
  <1> QED
    BY <1>2

(* A square of modules is as long as it is wide. *)
LEMMA CodeIs ==
    ASSUME NEW code,
           code \in (UNION {Square(w) : w \in 1 .. MaxWidth}) \cup OneBlack(WideWidth)
    PROVE  Len(code) \in Nat \ {0}
  <1>1. MaxWidth \in Nat \ {0} /\ WideWidth \in Nat \ {0}
    BY InputAssumption
  <1> DEFINE squares == UNION {Square(w) : w \in 1 .. MaxWidth}
             single == OneBlack(WideWidth)
  <1>2. ASSUME code \in squares
        PROVE  Len(code) \in Nat \ {0}
    <2>1. PICK w \in 1 .. MaxWidth : code \in Square(w)
      BY <1>2
    <2>2. w \in Nat \ {0}
      BY <1>1, <2>1
    <2>3. code = [i \in 1 .. w |-> code[i]]
      BY <2>1, Zenon DEF Square
    <2> QED
      BY <2>2, <2>3, LengthIs
  <1>3. ASSUME code \in single
        PROVE  Len(code) \in Nat \ {0}
    <2>1. PICK x, y \in 1 .. WideWidth :
             code = [i \in 1 .. WideWidth |-> [j \in 1 .. WideWidth |-> i = x /\ j = y]]
      BY <1>3 DEF OneBlack
    <2>2. code = [i \in 1 .. WideWidth |-> code[i]]
      BY <2>1, Zenon
    <2> QED
      BY <1>1, <2>2, LengthIs
  <1>4. code \in squares \cup single
    OBVIOUS
  <1> HIDE DEF squares, single
  <1> QED
    BY <1>2, <1>3, <1>4

(* Init chooses among these inputs, and nothing changes the choice. *)
THEOREM InputTypeCorrect == Spec => []InputType
  <1>1. Init => InputType
    <2>1. SUFFICES ASSUME Init
                   PROVE  InputType
      OBVIOUS
    <2>2. ASSUME NEW bytes \in BoundedSeq(Bytes, MaxBytes), NEW beyond \in Beyond,
                 NEW later \in Beyond,
                 input = [kind |-> "frame", bytes |-> bytes, beyond |-> beyond,
                          later |-> later]
          PROVE  InputType
      <3>1. Bytes \subseteq Byte /\ Beyond \subseteq Byte /\ MaxBytes \in Nat
        BY InputAssumption DEF Byte
      <3>2. bytes \in Seq(Byte) /\ beyond \in Byte
        BY <3>1, BoundedSeqIs
      <3> QED
        BY <2>2, <3>2 DEF InputType
    <2>8. ASSUME NEW size \in LongFrames, NEW beyond \in Beyond, NEW later \in Beyond,
                 input = [kind |-> "long", bytes |-> [i \in 1 .. size |-> i % 256],
                          beyond |-> beyond, later |-> later]
          PROVE  InputType
      <3>1. size \in Nat /\ beyond \in Byte
        BY InputAssumption DEF Byte
      <3>2. [i \in 1 .. size |-> i % 256] \in [1 .. size -> Byte]
        BY <3>1 DEF Byte
      <3>3. [i \in 1 .. size |-> i % 256] \in Seq(Byte)
        BY <3>1, <3>2
      <3> QED
        BY <2>8, <3>1, <3>3 DEF InputType
    <2>3. ASSUME NEW size \in 1 .. LongestFrame, input = [kind |-> "size", size |-> size]
          PROVE  InputType
      BY <2>3 DEF InputType
    <2>4. ASSUME NEW scale \in Scales,
                 NEW code \in (UNION {Square(w) : w \in 1 .. MaxWidth}) \cup OneBlack(WideWidth),
                 input = [kind |-> "code", code |-> code, scale |-> scale]
          PROVE  InputType
      <3>1. scale \in Nat \ {0} /\ Len(code) \in Nat \ {0}
        BY InputAssumption, CodeIs, Zenon
      <3> QED
        BY <2>4, <3>1 DEF InputType
    <2>5. ASSUME NEW text \in BoundedSeq({" ", "0", "help", "stop", "x"}, MaxDatagram),
                 input = [kind |-> "datagram", text |-> text]
          PROVE  InputType
      <3>1. MaxDatagram \in Nat
        BY InputAssumption
      <3>2. text \in Seq({" ", "0", "help", "stop", "x"})
        BY <3>1, BoundedSeqIs, Zenon
      <3> QED
        BY <2>5, <3>2 DEF InputType
    <2>6. ASSUME NEW data \in BoundedSeq({"a", "\n", "\r", "0"}, MaxData),
                 input = [kind |-> "data", data |-> data]
          PROVE  InputType
      <3>1. MaxData \in Nat
        BY InputAssumption
      <3>2. data \in Seq({"a", "\n", "\r", "0"})
        BY <3>1, BoundedSeqIs, Zenon
      <3> QED
        BY <2>6, <3>2 DEF InputType
    <2>7. ASSUME NEW count \in 0 .. MaxCount, input = [kind |-> "count", count |-> count]
          PROVE  InputType
      BY <2>7, InputAssumption DEF InputType
    <2> QED
      BY <2>1, <2>2, <2>3, <2>4, <2>5, <2>6, <2>7, <2>8, Zenon DEF Init, InputChosen
  <1>2. InputType /\ [Next]_vars => InputType'
    BY Zenon DEF InputType, Next, pigeon_frame_print_data, vars
  <1> QED
    BY <1>1, <1>2, PTL DEF Spec

-----------------------------------------------------------------------------
(* The media. *)

(* A frame written to the frames file by one station and read by the other *)
(* is the same frame, whatever its bytes are, if its line fits the buffer  *)
(* it is read into; of a frame that is too long for that none is read.     *)
THEOREM FrameSurvives == Spec => []FrameSurvivesFile
  <1>1. InputType => FrameSurvivesFile
    <2>1. SUFFICES ASSUME InputType, input.kind \in {"frame", "long"},
                          NEW sent, sent = pigeon_frame_new(input.bytes, input.beyond),
                          sent # NULL
                   PROVE  line_to_frame(pigeon_frame_to_file(sent), input.later)
                            = IF 4 * ((Len(sent) + 2) \div 3) + 2 =< READ_BUFFER_SIZE
                              THEN sent ELSE NULL
      BY Zenon DEF FrameSurvivesFile
    <2>2. PICK bytes, beyond, later :
             bytes = input.bytes /\ beyond = input.beyond /\ later = input.later
      OBVIOUS
    <2>3. bytes \in Seq(Byte) /\ beyond \in Byte
      BY <2>1, <2>2 DEF InputType
    <2>4. sent = pigeon_frame_new(bytes, beyond)
      BY <2>1, <2>2
    <2>5. line_to_frame(pigeon_frame_to_file(sent), later)
            = IF 4 * ((Len(sent) + 2) \div 3) + 2 =< READ_BUFFER_SIZE THEN sent ELSE NULL
      BY <2>1, <2>3, <2>4, FileUndone
    <2> QED
      BY <2>2, <2>5, Zenon
  <1> QED
    BY <1>1, InputTypeCorrect, PTL

(* What bar_code_read returns of a printed frame is the frame and the      *)
(* newline of zbarimg, for every frame without a colon behind a newline.   *)
THEOREM CameraReads == Spec => []CameraKeepsFrame
  <1>1. InputType => CameraKeepsFrame
    <2>1. SUFFICES ASSUME InputType, input.kind = "frame",
                          NEW sent, sent = pigeon_frame_new(input.bytes, input.beyond),
                          sent # NULL,
                          ~\E i \in DOMAIN sent, k \in DOMAIN sent :
                              i < k /\ sent[i] = LF /\ sent[k] = COLON
                   PROVE  bar_code_read(sent) = Append(sent, LF)
      BY Zenon DEF CameraKeepsFrame
    <2>2. PICK bytes, beyond : bytes = input.bytes /\ beyond = input.beyond
      OBVIOUS
    <2>3. bytes \in Seq(Byte) /\ beyond \in Byte
      BY <2>1, <2>2 DEF InputType
    <2>4. sent = pigeon_frame_new(bytes, beyond)
      BY <2>1, <2>2
    <2>5. sent \in Seq(Byte)
      BY <2>1, <2>3, <2>4, FrameIs, Zenon
    <2> QED
      BY <2>1, <2>5, CutUndone, Zenon
  <1> QED
    BY <1>1, InputTypeCorrect, PTL

(* Every frame up to the longest the link lets through is drawn narrow     *)
(* enough for the paper, and its line fits the buffer it is read into.     *)
THEOREM FrameFits == Spec => []FrameFitsEveryMedium
  <1>1. InputType => FrameFitsEveryMedium
    <2>1. SUFFICES ASSUME InputType, input.kind = "size"
                   PROVE  /\ FitsPaper(QRcode_width(input.size), PRINT_SCALE)
                          /\ Len(base64_encode([i \in 1 .. input.size |-> 0])) + 1
                               =< READ_BUFFER_SIZE - 1
      BY Zenon DEF FrameFitsEveryMedium
    <2>2. PICK size : size = input.size
      OBVIOUS
    <2>3. size \in Nat \ {0} /\ size =< LongestFrame /\ LongestFrame \in Nat
      BY <2>1, <2>2, MediaAssumption DEF InputType
    <2>4. FitsPaper(QRcode_width(size), PRINT_SCALE)
      <3>1. LongestFrame =< 321
        BY MediaAssumption DEF QR_CAPACITY
      <3>2. PICK R : R = RoundedColumns(QRcode_width(size))
        OBVIOUS
      <3>3. size \in Nat /\ size =< 321
        BY <2>3, <3>1
      <3>4. QRcode_width(size) \in 1 .. 61 /\ R =< 8
        BY <3>2, <3>3, WidestCode
      <3>5. R \in Nat
        BY <3>2, <3>4 DEF RoundedColumns
      <3>6. PRINT_SCALE * R =< PRINT_SCALE * 8
        BY <3>4, <3>5, MediaAssumption, SMT
      <3>7. PRINT_SCALE * R =< ROW_BYTES
        BY <3>5, <3>6, MediaAssumption, FrameLengthsAssumption, SMT
      <3> QED
        BY <3>2, <3>7 DEF FitsPaper
    <2>5. Len(base64_encode([i \in 1 .. size |-> 0])) + 1 =< READ_BUFFER_SIZE - 1
      <3>1. PICK data : data = [i \in 1 .. size |-> 0]
        OBVIOUS
      <3>2. data \in Seq(Byte) /\ Len(data) = size
        BY <2>3, <3>1 DEF Byte
      <3>3. Len(base64_encode(data)) = 4 * ((size + 2) \div 3)
        <4>1. PICK text, L : text = base64_encode(data) /\ L = EncodedLength(data)
          OBVIOUS
        <4>2. L = 4 * ((size + 2) \div 3) /\ L \in Nat
          BY <2>3, <3>2, <4>1 DEF EncodedLength
        <4>3. text = [j \in 1 .. L |-> text[j]]
          BY <3>2, <4>1, Encoded, Zenon
        <4>4. Len(text) = L
          BY <4>2, <4>3, LengthIs, Zenon
        <4> QED
          BY <4>1, <4>2, <4>4
      <3>4. 4 * ((size + 2) \div 3) =< 4 * ((LongestFrame + 2) \div 3)
        BY <2>3
      <3> QED
        BY <2>3, <3>1, <3>3, <3>4, MediaAssumption, FrameLengthsAssumption
    <2> QED
      BY <2>2, <2>4, <2>5, Zenon
  <1> QED
    BY <1>1, InputTypeCorrect, PTL

(* The printed code is the code, at every scale and width.                 *)
THEOREM PrintedCode == Spec => []PrintedIsCode
  <1>1. InputType => PrintedIsCode
    <2>1. SUFFICES ASSUME InputType, input.kind = "code"
                   PROVE  PrintedIsCode
      BY Zenon DEF PrintedIsCode
    <2>2. PICK code, s, w, printed :
             /\ code = input.code /\ s = input.scale /\ w = Len(code)
             /\ printed = printer_printQRCode(code, s)
      OBVIOUS
    <2>3. w \in Nat \ {0} /\ s \in Nat \ {0} /\ Len(code) = w
      BY <2>1, <2>2 DEF InputType
    <2>4. CASE FitsPaper(w, s)
      <3>1. Shows(printed, code, w, s)
        BY <2>2, <2>3, <2>4, PrintedAsDrawn
      <3>2. Shows(printer_printQRCode(input.code, input.scale), input.code,
                  Len(input.code), input.scale)
        BY <2>2, <3>1, Zenon
      <3> QED
        BY <2>2, <2>4, <3>2, Zenon DEF PrintedIsCode, Shows
    <2>5. CASE ~FitsPaper(w, s)
      <3>1. printed = <<>>
        BY <2>2, <2>5, Zenon DEF printer_printQRCode, printBitmap
      <3> QED
        BY <2>2, <2>5, <3>1, Zenon DEF PrintedIsCode
    <2> QED
      BY <2>4, <2>5
  <1> QED
    BY <1>1, InputTypeCorrect, PTL

-----------------------------------------------------------------------------
(* The display. *)

(* The smaller of two numbers is the minimum of their set. *)
LEMMA MinOfTwo ==
    ASSUME NEW a \in Int, NEW b \in Int
    PROVE  Min({a, b}) = IF a =< b THEN a ELSE b
  <1>1. CASE a =< b
    BY <1>1, MinIs
  <1>2. CASE ~(a =< b)
    BY <1>2, MinIs
  <1> QED
    BY <1>1, <1>2

(* Blanks as many as there are, and digits behind them. *)
LEMMA Padded ==
    ASSUME NEW n \in 0 .. 1, NEW blanks, blanks = [i \in 1 .. n |-> Blank],
           NEW digits \in Seq(Int), Len(digits) = 2 - n
    PROVE  /\ blanks \o digits \in Seq(Int) /\ Len(blanks \o digits) = 2
           /\ (blanks \o digits)[2] = digits[2 - n]
           /\ (blanks \o digits)[1] = IF n = 1 THEN Blank ELSE digits[1]
  <1>1. blanks \in Seq(Int) /\ Len(blanks) = n /\ \A i \in 1 .. n : blanks[i] = Blank
    <2>1. blanks \in [1 .. n -> Int]
      BY DEF Blank
    <2> QED
      BY <2>1
  <1>2. n = 0 \/ n = 1
    OBVIOUS
  <1> QED
    BY <1>1, <1>2, SMTT(20)

(* A number of at most two digits is formatted as two characters. *)
LEMMA TwoCharacters ==
    ASSUME NEW v \in Nat, v =< 99, NEW string, string = FormatNumber(v)
    PROVE  /\ Len(string) = 2
           /\ string[1] = IF v < 10 THEN Blank ELSE v \div 10
           /\ string[2] = v % 10
  <1> DEFINE digits == IF v < 10 THEN <<v>> ELSE <<v \div 10, v % 10>>
             blanks == [i \in 1 .. Max({0, SCREEN_SIZE - Len(digits)}) |-> Blank]
             all == blanks \o digits
  <1>1. string = SubSeq(all, 1, Min({Len(all), SCREEN_BUFFER_SIZE - 1}))
    <2>1. v < 100
      BY SMT
    <2> QED
      BY <2>1, Zenon DEF FormatNumber
  <1>2. /\ Len(all) = 2 /\ all \in Seq(Int)
        /\ all[1] = IF v < 10 THEN Blank ELSE v \div 10
        /\ all[2] = v % 10
    <2>1. CASE v < 10
      <3>1. digits = <<v>> /\ v % 10 = v
        BY <2>1
      <3>2. SCREEN_SIZE - Len(digits) = 1
        BY <3>1 DEF SCREEN_SIZE
      <3>3. Max({0, SCREEN_SIZE - Len(digits)}) = 1
        BY <3>2, MaxOfTwo
      <3>4. blanks = [i \in 1 .. 1 |-> Blank]
        BY <3>3, Zenon
      <3>5. digits \in Seq(Int) /\ Len(digits) = 2 - 1 /\ digits[2 - 1] = v
        BY <3>1
      <3> HIDE DEF blanks, digits
      <3>6. /\ Len(all) = 2 /\ all \in Seq(Int)
            /\ all[1] = Blank /\ all[2] = digits[2 - 1]
        <4>1. PICK n : n = 1
          OBVIOUS
        <4>2. n \in 0 .. 1 /\ Len(digits) = 2 - n /\ digits[2 - n] = digits[2 - 1]
          BY <3>5, <4>1
        <4>3. blanks = [i \in 1 .. n |-> Blank]
          BY <3>4, <4>1, Zenon
        <4> QED
          BY <3>5, <4>1, <4>2, <4>3, Padded
      <3> QED
        BY <2>1, <3>1, <3>5, <3>6
    <2>2. CASE ~(v < 10)
      <3>1. digits = <<v \div 10, v % 10>>
        BY <2>2
      <3>2. SCREEN_SIZE - Len(digits) = 0
        BY <3>1 DEF SCREEN_SIZE
      <3>3. Max({0, SCREEN_SIZE - Len(digits)}) = 0
        BY <3>2, MaxOfTwo
      <3>4. blanks = [i \in 1 .. 0 |-> Blank]
        BY <3>3, Zenon
      <3>5. /\ digits \in Seq(Int) /\ Len(digits) = 2 - 0
            /\ digits[1] = v \div 10 /\ digits[2 - 0] = v % 10
        BY <3>1
      <3> HIDE DEF blanks, digits
      <3>6. /\ Len(all) = 2 /\ all \in Seq(Int)
            /\ all[1] = digits[1] /\ all[2] = digits[2 - 0]
        BY <3>4, <3>5, Padded
      <3> QED
        BY <2>2, <3>5, <3>6
    <2> QED
      BY <2>1, <2>2
  <1> HIDE DEF all
  <1>3. Min({Len(all), SCREEN_BUFFER_SIZE - 1}) = 2
    <2>1. PICK a, b : a = Len(all) /\ b = SCREEN_BUFFER_SIZE - 1
      OBVIOUS
    <2>2. a = 2 /\ b = 2
      BY <1>2, <2>1 DEF SCREEN_BUFFER_SIZE
    <2>3. Min({a, b}) = 2
      BY <2>2, MinOfTwo
    <2> QED
      BY <2>1, <2>3, Zenon
  <1>4. string = SubSeq(all, 1, 2)
    BY <1>1, <1>3, Zenon
  <1> QED
    BY <1>2, <1>4

(* The display shows the count in two digits, or 99, however many frames   *)
(* wait.                                                                   *)
THEOREM CountShown == Spec => []DisplayShowsCount
  <1>1. InputType => DisplayShowsCount
    <2>1. SUFFICES ASSUME InputType, input.kind = "count"
                   PROVE  DisplayShowsCount
      BY Zenon DEF DisplayShowsCount
    <2>2. PICK count, v, string, shown :
             /\ count = input.count /\ v = Min({input.count, SCREEN_MAX_VALUE})
             /\ string = FormatNumber(v)
             /\ shown = beagle_display_set_output_number(input.count)
      OBVIOUS
    <2>3. v \in Nat /\ v =< 99
      <3>1. count \in Int /\ count >= 0 /\ SCREEN_MAX_VALUE = 99
        BY <2>1, <2>2 DEF InputType, SCREEN_MAX_VALUE
      <3>2. v = Min({count, 99})
        BY <2>2, <3>1, Zenon
      <3> QED
        BY <3>1, <3>2, MinOfTwo
    <2>4. /\ Len(string) = 2
          /\ string[1] = IF v < 10 THEN Blank ELSE v \div 10
          /\ string[2] = v % 10
      BY <2>2, <2>3, TwoCharacters
    <2>5. shown = [i \in 1 .. 3 |-> IF i =< Len(string) /\ i < 3 THEN string[i] ELSE Blank]
      <3>1. SCREEN_BUFFER_SIZE = 3
        BY DEF SCREEN_BUFFER_SIZE
      <3>2. shown = str_to_fsd_chars(string, 3)
        BY <2>2, <3>1, Zenon DEF beagle_display_set_output_number
      <3> QED
        BY <3>2, Zenon DEF str_to_fsd_chars
    <2>6. shown[1] = string[1] /\ shown[2] = string[2]
      BY <2>4, <2>5
    <2>7. /\ shown[2] \in 0 .. 9 /\ shown[1] # 0
          /\ (IF shown[1] = Blank THEN 0 ELSE 10 * shown[1]) + shown[2] = v
      <3>1. CASE v < 10
        BY <2>3, <2>4, <2>6, <3>1 DEF Blank
      <3>2. CASE ~(v < 10)
        BY <2>3, <2>4, <2>6, <3>2 DEF Blank
      <3> QED
        BY <3>1, <3>2
    <2> QED
      BY <2>2, <2>7, Zenon DEF DisplayShowsCount
  <1> QED
    BY <1>1, InputTypeCorrect, PTL

-----------------------------------------------------------------------------
(* Commands. *)

(* The text of a datagram is its beginning, cut to the buffer. *)
LEMMA ReceivedIs ==
    ASSUME NEW C, NEW datagram \in Seq(C)
    PROVE  /\ ReceiveBuffer(datagram) \in Seq(C)
           /\ Len(ReceiveBuffer(datagram)) =< RECEIVE_LENGTH
  <1>1. PICK m : m = Min({Len(datagram), RECEIVE_LENGTH})
    OBVIOUS
  <1>2. m \in 0 .. Len(datagram) /\ m =< RECEIVE_LENGTH /\ RECEIVE_LENGTH \in Nat
    <2>1. PICK n : n = Len(datagram)
      OBVIOUS
    <2>2. n \in Nat /\ RECEIVE_LENGTH \in Nat
      BY <2>1, CommandAssumption
    <2>3. m = Min({n, RECEIVE_LENGTH})
      BY <1>1, <2>1, Zenon
    <2> QED
      BY <2>1, <2>2, <2>3, MinOfTwo
  <1>3. PICK received : received = SubSeq(datagram, 1, m)
    OBVIOUS
  <1>4. received \in Seq(C) /\ Len(received) = m
    BY <1>2, <1>3
  <1> DEFINE ends == {i \in 1 .. Len(received) : received[i] = "0"} \cup {Len(received) + 1}
  <1>5. PICK e : e = Min(ends)
    OBVIOUS
  <1>6. e \in 1 .. m + 1
    <2>1. ends \in SUBSET Nat /\ ends # {} /\ ends \subseteq 1 .. m + 1
      BY <1>2, <1>4
    <2> HIDE DEF ends
    <2>2. e \in ends
      BY <1>5, <2>1, MinOfNaturals, Zenon
    <2> QED
      BY <2>1, <2>2
  <1>7. ReceiveBuffer(datagram) = SubSeq(received, 1, e - 1)
    BY <1>1, <1>3, <1>5, Zenon DEF ReceiveBuffer
  <1>8. SubSeq(received, 1, e - 1) \in Seq(C) /\ Len(SubSeq(received, 1, e - 1)) = e - 1
    BY <1>2, <1>4, <1>6
  <1> QED
    BY <1>2, <1>6, <1>7, <1>8

(* What it is to be a word. *)
LEMMA WordIs ==
    ASSUME NEW text, NEW f \in 1 .. Len(text), NEW l \in 1 .. Len(text)
    PROVE  <<f, l>> \in Words(text) <=>
              /\ f =< l
              /\ \A i \in f .. l : ~Delimiter(text[i])
              /\ f = 1 \/ Delimiter(text[f - 1])
              /\ l = Len(text) \/ Delimiter(text[l + 1])
  <1>1. <<f, l>> \in (1 .. Len(text)) \X (1 .. Len(text)) /\ <<f, l>>[1] = f /\ <<f, l>>[2] = l
    OBVIOUS
  <1> QED
    BY <1>1, Zenon DEF Words

(* A word is a pair of places. *)
LEMMA WordType ==
    ASSUME NEW text, NEW w \in Words(text)
    PROVE  \E f, l \in 1 .. Len(text) : w = <<f, l>>
  <1>1. w \in (1 .. Len(text)) \X (1 .. Len(text))
    BY Zenon DEF Words
  <1> QED
    BY <1>1

(* Every character that is no delimiter is in a word. *)
LEMMA WordAround ==
    ASSUME NEW C, NEW text \in Seq(C), NEW k \in 1 .. Len(text), ~Delimiter(text[k])
    PROVE  \E f, l \in 1 .. Len(text) : <<f, l>> \in Words(text) /\ f =< k /\ k =< l
  <1>1. PICK n : n = Len(text)
    OBVIOUS
  <1>2. n \in Nat /\ k \in 1 .. n
    BY <1>1
  <1> DEFINE before == {0} \cup {i \in 1 .. k - 1 : Delimiter(text[i])}
             behind == {n + 1} \cup {i \in k + 1 .. n : Delimiter(text[i])}
  <1>3. PICK p \in before : \A i \in before : p >= i
    <2>1. before \in SUBSET Nat /\ before # {} /\ \A i \in before : i =< n
      BY <1>2
    <2> HIDE DEF before
    <2> QED
      BY <1>2, <2>1, MaxOfNaturals, Zenon
  <1>4. PICK q \in behind : \A i \in behind : q =< i
    <2>1. behind \in SUBSET Nat /\ behind # {}
      BY <1>2
    <2> HIDE DEF behind
    <2> QED
      BY <2>1, LeastNatural, Zenon
  <1>5. PICK f, l : f = p + 1 /\ l = q - 1
    OBVIOUS
  <1>6. f \in 1 .. k /\ l \in k .. n /\ f - 1 = p /\ l + 1 = q
    BY <1>2, <1>3, <1>4, <1>5
  <1>7. \A i \in f .. l : ~Delimiter(text[i])
    <2>1. SUFFICES ASSUME NEW i \in f .. l, Delimiter(text[i])
                   PROVE  FALSE
      OBVIOUS
    <2>2. i # k
      BY <2>1
    <2>3. i \in 1 .. k - 1 \/ i \in k + 1 .. n
      BY <1>2, <1>6, <2>2
    <2>4. i \in before \/ i \in behind
      BY <2>1, <2>3
    <2> HIDE DEF before, behind
    <2>5. i =< p \/ q =< i
      BY <1>3, <1>4, <2>4
    <2>6. p \in Int /\ q \in Int
      BY <1>2, <1>5, <1>6, <1>3, <1>4 DEF before, behind
    <2> QED
      BY <1>2, <1>6, <2>5, <2>6
  <1>8. f = 1 \/ Delimiter(text[f - 1])
    <2>1. p = 0 \/ Delimiter(text[p])
      BY <1>3
    <2> QED
      BY <1>5, <1>6, <2>1
  <1>9. l = n \/ Delimiter(text[l + 1])
    <2>1. q = n + 1 \/ Delimiter(text[q])
      BY <1>4
    <2> QED
      BY <1>2, <1>5, <1>6, <2>1
  <1>10. f \in 1 .. Len(text) /\ l \in 1 .. Len(text) /\ f =< l
    BY <1>1, <1>2, <1>6
  <1>11. <<f, l>> \in Words(text)
    BY <1>1, <1>7, <1>8, <1>9, <1>10, WordIs, Zenon
  <1>12. f =< k /\ k =< l
    BY <1>2, <1>6
  <1> QED
    BY <1>10, <1>11, <1>12, Zenon

(* Two words with the same beginning are the same. *)
LEMMA WordUnique ==
    ASSUME NEW text, NEW f \in 1 .. Len(text), NEW l \in 1 .. Len(text),
           NEW m \in 1 .. Len(text), Len(text) \in Nat,
           <<f, l>> \in Words(text), <<f, m>> \in Words(text)
    PROVE  l = m
  <1>1. /\ f =< l /\ \A i \in f .. l : ~Delimiter(text[i])
        /\ l = Len(text) \/ Delimiter(text[l + 1])
    BY WordIs, Zenon
  <1>2. /\ f =< m /\ \A i \in f .. m : ~Delimiter(text[i])
        /\ m = Len(text) \/ Delimiter(text[m + 1])
    BY WordIs, Zenon
  <1>3. ASSUME l < m
        PROVE  FALSE
    <2>1. l + 1 \in f .. m /\ l # Len(text)
      BY <1>1, <1>2, <1>3
    <2> QED
      BY <1>1, <1>2, <2>1
  <1>4. ASSUME m < l
        PROVE  FALSE
    <2>1. m + 1 \in f .. l /\ m # Len(text)
      BY <1>1, <1>2, <1>4
    <2> QED
      BY <1>1, <1>2, <2>1
  <1> QED
    BY <1>3, <1>4

(* There are finitely many words, none exactly if every character is a     *)
(* delimiter.                                                              *)
LEMMA WordsFinite ==
    ASSUME NEW C, NEW text \in Seq(C)
    PROVE  /\ IsFiniteSet(Words(text)) /\ Cardinality(Words(text)) \in Nat
           /\ Cardinality(Words(text)) = 0 <=> Words(text) = {}
  <1>1. PICK places : places = 1 .. Len(text)
    OBVIOUS
  <1>2. IsFiniteSet(places)
    BY <1>1, FS_Interval
  <1>3. IsFiniteSet(places \X places)
    BY <1>2, FS_Product, Zenon
  <1>4. Words(text) \in SUBSET (places \X places)
    BY <1>1, Zenon DEF Words
  <1>5. IsFiniteSet(Words(text))
    BY <1>3, <1>4, FS_Subset, Zenon
  <1> QED
    BY <1>5, FS_CardinalityType, FS_EmptySet, Zenon

(* The first word of a text that has one, as _get_tokens finds it: by the  *)
(* number of words that begin at it or before.                             *)
FirstWord(text) ==
    CHOOSE w \in Words(text) : Cardinality({v \in Words(text) : v[1] =< w[1]}) = 1

(* No word begins before the first. *)
LEMMA FirstWordIs ==
    ASSUME NEW C, NEW text \in Seq(C), Words(text) # {}
    PROVE  \E f, l \in 1 .. Len(text) :
              /\ FirstWord(text) = <<f, l>> /\ <<f, l>> \in Words(text)
              /\ \A v \in Words(text) : f =< v[1]
  <1> DEFINE starts == {i \in Nat : \E w \in Words(text) : w[1] = i}
             upto(w) == {v \in Words(text) : v[1] =< w[1]}
  <1>1. starts # {}
    <2>1. PICK w \in Words(text) : TRUE
      OBVIOUS
    <2>2. PICK f, l \in 1 .. Len(text) : w = <<f, l>>
      BY WordType, Zenon
    <2>3. w[1] = f /\ f \in Nat
      BY <2>2
    <2> QED
      BY <2>1, <2>3
  <1>2. PICK f \in starts : \A i \in starts : f =< i
    <2>1. starts \in SUBSET Nat
      OBVIOUS
    <2> HIDE DEF starts
    <2> QED
      BY <1>1, <2>1, LeastNatural, Zenon
  <1>3. PICK w \in Words(text) : w[1] = f
    BY <1>2
  <1>4. PICK g, l \in 1 .. Len(text) : w = <<g, l>>
    BY WordType, Zenon
  <1>5. w = <<f, l>> /\ f \in 1 .. Len(text)
    BY <1>3, <1>4
  <1>6. \A v \in Words(text) : f =< v[1]
    <2>1. SUFFICES ASSUME NEW v \in Words(text)
                   PROVE  f =< v[1]
      OBVIOUS
    <2>2. PICK g2, l2 \in 1 .. Len(text) : v = <<g2, l2>>
      BY WordType, Zenon
    <2>3. v[1] \in Nat
      BY <2>2
    <2>4. v[1] \in starts
      BY <2>3
    <2> QED
      BY <1>2, <2>4, Zenon
  <1> HIDE DEF starts
  <1>7. \A v \in Words(text) : v[1] =< f => v = w
    <2>1. SUFFICES ASSUME NEW v \in Words(text), v[1] =< f
                   PROVE  v = w
      OBVIOUS
    <2>2. PICK g2, l2 \in 1 .. Len(text) : v = <<g2, l2>>
      BY WordType, Zenon
    <2>3. f =< v[1]
      BY <1>6
    <2>4. g2 = f
      BY <1>5, <2>1, <2>2, <2>3
    <2>5. Len(text) \in Nat
      OBVIOUS
    <2>6. l2 = l
      BY <1>3, <1>5, <2>1, <2>2, <2>4, <2>5, WordUnique, Zenon
    <2> QED
      BY <1>5, <2>2, <2>4, <2>6
  <1>8. upto(w) = {w}
    <2>1. w \in upto(w)
      BY <1>5
    <2>2. \A v \in upto(w) : v = w
      BY <1>3, <1>7
    <2> QED
      BY <2>1, <2>2
  <1>9. Cardinality(upto(w)) = 1
    BY <1>8, FS_Singleton, Zenon
  <1>10. \A c \in Words(text) : Cardinality(upto(c)) = 1 => c = w
    <2>1. SUFFICES ASSUME NEW c \in Words(text), Cardinality(upto(c)) = 1
                   PROVE  c = w
      BY Zenon
    <2>2. upto(c) \in SUBSET Words(text)
      BY Zenon
    <2>3. c \in upto(c) /\ w \in upto(c)
      <3>1. PICK g2, l2 \in 1 .. Len(text) : c = <<g2, l2>>
        BY WordType, Zenon
      <3>2. c[1] =< c[1] /\ w[1] =< c[1]
        BY <1>3, <1>6, <3>1
      <3> QED
        BY <3>2, Zenon
    <2> HIDE DEF upto
    <2>4. IsFiniteSet(upto(c))
      BY <2>2, WordsFinite, FS_Subset, Zenon
    <2>5. PICK x : upto(c) = {x}
      BY <2>1, <2>4, FS_Singleton, Zenon
    <2>6. c \in {x} /\ w \in {x}
      BY <2>3, <2>5, Zenon
    <2> QED
      BY <2>6
  <1>11. FirstWord(text) = w
    BY <1>9, <1>10, Zenon DEF FirstWord
  <1> QED
    BY <1>3, <1>5, <1>6, <1>11, Zenon

(* The first token is the first word, or none. *)
LEMMA FirstTokenIs ==
    ASSUME NEW C, NEW text \in Seq(C), NEW size \in Nat \ {0}
    PROVE  get_tokens(text, size)[1] =
              IF Words(text) = {} THEN NoToken
              ELSE SubSeq(text, FirstWord(text)[1], FirstWord(text)[2])
  <1> DEFINE words == Words(text)
             nth(n) == CHOOSE w \in words : Cardinality({v \in words : v[1] =< w[1]}) = n
             strings == [n \in 1 .. Cardinality(words) |->
                            SubSeq(text, nth(n)[1], nth(n)[2])]
  <1>1. get_tokens(text, size) =
           IF Cardinality(words) < size THEN Append(strings, NoToken)
           ELSE SubSeq(strings, 1, size)
    BY Zenon DEF get_tokens
  <1>2. PICK K : K = Cardinality(words)
    OBVIOUS
  <1>3. K \in Nat /\ (K = 0 <=> words = {})
    BY <1>2, WordsFinite, Zenon
  <1>4. ASSUME words # {}
        PROVE  strings[1] = SubSeq(text, FirstWord(text)[1], FirstWord(text)[2])
    <2>1. 1 \in 1 .. K
      BY <1>3, <1>4
    <2>2. nth(1) = FirstWord(text)
      BY Zenon DEF FirstWord
    <2> HIDE DEF nth
    <2>3. strings[1] = SubSeq(text, nth(1)[1], nth(1)[2])
      BY <1>2, <2>1, Zenon
    <2> QED
      BY <2>2, <2>3, Zenon
  <1>5. PICK S : S = {strings[n] : n \in 1 .. K} \cup {NoToken}
    OBVIOUS
  <1>6. strings \in [1 .. K -> S]
    <2> HIDE DEF nth
    <2>1. strings = [n \in 1 .. Cardinality(words) |-> strings[n]]
      BY Zenon
    <2> HIDE DEF strings
    <2>2. strings = [n \in 1 .. K |-> strings[n]]
      BY <1>2, <2>1, Zenon
    <2> QED
      BY <1>5, <2>2
  <1> HIDE DEF strings, words
  <1>7. strings \in Seq(S) /\ Len(strings) = K /\ NoToken \in S
    BY <1>3, <1>5, <1>6
  <1>8. CASE words = {}
    <2>1. Append(strings, NoToken)[1] = NoToken
      BY <1>3, <1>7, <1>8
    <2>2. Cardinality(words) < size
      BY <1>2, <1>3, <1>8
    <2> QED
      BY <1>1, <1>8, <2>1, <2>2, Zenon DEF words
  <1>9. CASE words # {}
    <2>1. K >= 1
      BY <1>3, <1>9
    <2>2. Append(strings, NoToken)[1] = strings[1]
      BY <1>3, <1>7, <2>1
    <2>3. ~(K < size) => SubSeq(strings, 1, size)[1] = strings[1]
      BY <1>3, <1>7, <2>1
    <2>4. get_tokens(text, size)[1] = strings[1]
      BY <1>1, <1>2, <2>2, <2>3, Zenon
    <2> QED
      BY <1>4, <1>9, <2>4, Zenon DEF words
  <1> QED
    BY <1>8, <1>9

(* What the runner makes of the first token. *)
LEMMA RunIs ==
    ASSUME NEW C, NEW tokens, NEW name, name = tokens[1], name \in Seq(C),
           Len(name) =< RECEIVE_LENGTH,
           NEW answer, answer = command_runner_run(tokens)
    PROVE  /\ answer.result = "SUCCESS_STOP" <=> name = <<"stop">>
           /\ answer.out_size > 0 <=> name # NoToken
           /\ answer.result # "RESPONSE_TOO_LARGE" /\ answer.whole
  <1>1. PICK command, size :
           command = get_command_by_name(tokens) /\ size = Output(command, tokens)
    OBVIOUS
  <1>2. NoToken # <<"help">> /\ NoToken # <<"stop">> /\ <<"help">> # <<"stop">>
    BY DEF NoToken
  <1>3. /\ HelpText \in Nat \ {0} /\ StopText \in Nat \ {0} /\ NotFoundText \in Nat \ {0}
        /\ RESPONSE_LENGTH \in Nat \ {0} /\ RECEIVE_LENGTH \in Nat \ {0}
        /\ HelpText < RESPONSE_LENGTH /\ StopText < RESPONSE_LENGTH
        /\ RECEIVE_LENGTH + NotFoundText < RESPONSE_LENGTH
    BY CommandAssumption
  <1>4. \/ name = NoToken /\ command = "none" /\ size = 0
        \/ name = <<"help">> /\ command = "help" /\ size = HelpText
        \/ name = <<"stop">> /\ command = "stop" /\ size = StopText
        \/ /\ name # NoToken /\ name # <<"help">> /\ name # <<"stop">>
           /\ command = "not_found" /\ size = Len(name) + NotFoundText
    <2>1. CASE name = NoToken
      <3>1. command = "none"
        BY <1>1, <1>2, <2>1, Zenon DEF get_command_by_name
      <3>2. size = 0
        BY <1>1, <3>1, Zenon DEF Output
      <3> QED
        BY <2>1, <3>1, <3>2, Zenon
    <2>2. CASE name = <<"help">>
      <3>1. command = "help"
        BY <1>1, <1>2, <2>2, Zenon DEF get_command_by_name
      <3>2. size = HelpText
        BY <1>1, <3>1, Zenon DEF Output
      <3> QED
        BY <2>2, <3>1, <3>2, Zenon
    <2>3. CASE name = <<"stop">>
      <3>1. command = "stop"
        BY <1>1, <1>2, <2>3, Zenon DEF get_command_by_name
      <3>2. size = StopText
        BY <1>1, <3>1, Zenon DEF Output
      <3> QED
        BY <2>3, <3>1, <3>2, Zenon
    <2>4. CASE name # NoToken /\ name # <<"help">> /\ name # <<"stop">>
      <3>1. command = "not_found"
        BY <1>1, <2>4, Zenon DEF get_command_by_name
      <3>2. size = Len(name) + NotFoundText
        BY <1>1, <3>1, Zenon DEF Output
      <3> QED
        BY <2>4, <3>1, <3>2, Zenon
    <2> QED
      BY <2>1, <2>2, <2>3, <2>4, Zenon
  <1>5. /\ size \in Nat /\ ~(size > RESPONSE_LENGTH) /\ size < RESPONSE_LENGTH
        /\ size > 0 <=> name # NoToken
        /\ command = "stop" <=> name = <<"stop">>
    <2>1. Len(name) \in Nat
      OBVIOUS
    <2>2. CASE name = NoToken /\ command = "none" /\ size = 0
      BY <1>2, <1>3, <2>2
    <2>3. CASE name = <<"help">> /\ command = "help" /\ size = HelpText
      BY <1>2, <1>3, <2>3
    <2>4. CASE name = <<"stop">> /\ command = "stop" /\ size = StopText
      BY <1>2, <1>3, <2>4
    <2>5. CASE /\ name # NoToken /\ name # <<"help">> /\ name # <<"stop">>
               /\ command = "not_found" /\ size = Len(name) + NotFoundText
      BY <1>3, <2>1, <2>5
    <2> QED
      BY <1>4, <2>2, <2>3, <2>4, <2>5, Zenon
  <1>6. /\ answer.result = IF command = "stop" THEN "SUCCESS_STOP" ELSE "SUCCESS"
        /\ answer.whole
    BY <1>1, <1>5, Zenon DEF command_runner_run
  <1>7. answer.out_size = size
    <2>1. answer.out_size = Min({size, RESPONSE_LENGTH})
      BY <1>1, <1>5, Zenon DEF command_runner_run
    <2> QED
      BY <1>3, <1>5, <2>1, MinOfTwo
  <1>8. CASE command = "stop"
    BY <1>5, <1>6, <1>7, <1>8, Zenon
  <1>9. CASE command # "stop"
    BY <1>5, <1>6, <1>7, <1>9, Zenon
  <1> QED
    BY <1>8, <1>9

(* The first token is the one word stop exactly if stop stands between     *)
(* delimiters with nothing but delimiters before it.                       *)
LEMMA StopIs ==
    ASSUME NEW C, NEW text \in Seq(C), NEW name, name = get_tokens(text, MaxTokens)[1]
    PROVE  /\ name \in Seq(C) /\ Len(name) =< Len(text)
           /\ name # NoToken <=> \E i \in DOMAIN text : text[i] # " "
           /\ name = <<"stop">> <=>
                 \E i \in DOMAIN text : /\ text[i] = "stop"
                                        /\ \A k \in 1 .. i - 1 : ~(text[k] # " ")
                                        /\ i = Len(text) \/ ~(text[i + 1] # " ")
  <1>1. PICK n : n = Len(text)
    OBVIOUS
  <1>2. n \in Nat /\ DOMAIN text = 1 .. n /\ MaxTokens \in Nat \ {0}
    BY <1>1, CommandAssumption
  <1>3. \A k \in 1 .. n : Delimiter(text[k]) <=> text[k] = " "
    BY Zenon DEF Delimiter
  <1>4. CASE Words(text) = {}
    <2>1. name = NoToken
      BY <1>2, <1>4, FirstTokenIs, Zenon
    <2>2. \A k \in 1 .. n : text[k] = " "
      BY <1>1, <1>3, <1>4, WordAround
    <2>3. " " # "stop" /\ NoToken # <<"stop">>
      BY DEF NoToken
    <2>4. name \in Seq(C) /\ Len(name) =< Len(text)
      BY <1>1, <1>2, <2>1 DEF NoToken
    <2> QED
      BY <1>2, <2>1, <2>2, <2>3, <2>4, Zenon
  <1>5. CASE Words(text) # {}
    <2>1. PICK f, l \in 1 .. n :
             /\ FirstWord(text) = <<f, l>> /\ <<f, l>> \in Words(text)
             /\ \A v \in Words(text) : f =< v[1]
      BY <1>1, <1>5, FirstWordIs
    <2>2. name = SubSeq(text, f, l)
      <3>1. name = SubSeq(text, FirstWord(text)[1], FirstWord(text)[2])
        BY <1>2, <1>5, FirstTokenIs, Zenon
      <3>2. FirstWord(text)[1] = f /\ FirstWord(text)[2] = l
        BY <2>1
      <3> QED
        BY <3>1, <3>2, Zenon
    <2>3. /\ f =< l
          /\ \A i \in f .. l : ~Delimiter(text[i])
          /\ l = n \/ Delimiter(text[l + 1])
      BY <1>1, <2>1, WordIs, Zenon
    <2>4. \A k \in 1 .. f - 1 : Delimiter(text[k])
      <3>1. SUFFICES ASSUME NEW k \in 1 .. f - 1, ~Delimiter(text[k])
                     PROVE  FALSE
        OBVIOUS
      <3>2. k \in 1 .. Len(text)
        BY <1>1, <1>2, <2>1
      <3>3. PICK g, m \in 1 .. Len(text) : <<g, m>> \in Words(text) /\ g =< k /\ k =< m
        BY <3>1, <3>2, WordAround, Zenon
      <3>4. f =< <<g, m>>[1]
        BY <2>1, <3>3, Zenon
      <3> QED
        BY <1>1, <1>2, <2>1, <3>3, <3>4
    <2>5. /\ name \in Seq(C) /\ Len(name) = l - f + 1 /\ Len(name) =< Len(text)
          /\ \A j \in 1 .. l - f + 1 : name[j] = text[f + j - 1]
      BY <1>1, <1>2, <2>2, <2>3
    <2>6. name # NoToken /\ \E i \in DOMAIN text : text[i] # " "
      <3>1. Len(name) > 0
        BY <1>2, <2>3, <2>5
      <3>2. f \in f .. l
        BY <1>2, <2>3
      <3>3. name # NoToken
        BY <2>5, <3>1 DEF NoToken
      <3>4. text[f] # " "
        BY <2>3, <3>2, Zenon DEF Delimiter
      <3> QED
        BY <1>2, <2>1, <3>3, <3>4, Zenon
    <2>7. ASSUME name = <<"stop">>
          PROVE  \E i \in DOMAIN text : /\ text[i] = "stop"
                                        /\ \A k \in 1 .. i - 1 : ~(text[k] # " ")
                                        /\ i = Len(text) \/ ~(text[i + 1] # " ")
      <3>1. Len(name) = 1 /\ name[1] = "stop"
        BY <2>7
      <3>2. l = f /\ text[f] = "stop"
        BY <1>2, <2>1, <2>5, <3>1
      <3>3. f = Len(text) \/ text[f + 1] = " "
        BY <1>1, <1>2, <2>3, <3>2 DEF Delimiter
      <3>4. \A k \in 1 .. f - 1 : text[k] = " "
        BY <2>4, Zenon DEF Delimiter
      <3>5. f \in DOMAIN text
        BY <1>2, <2>1
      <3> QED
        BY <3>2, <3>3, <3>4, <3>5, Zenon
    <2>8. ASSUME NEW i \in DOMAIN text, text[i] = "stop",
                 \A k \in 1 .. i - 1 : text[k] = " ",
                 i = Len(text) \/ text[i + 1] = " "
          PROVE  name = <<"stop">>
      <3>1. i \in 1 .. n
        BY <1>2
      <3>2. ~Delimiter(text[i])
        BY <2>8 DEF Delimiter
      <3>3. ~(i < f)
        BY <1>2, <2>1, <2>4, <3>1, <3>2
      <3>4. ~(f < i)
        <4>1. f \in f .. l
          BY <1>2, <2>3
        <4>2. text[f] # " "
          BY <2>3, <4>1, Zenon DEF Delimiter
        <4>3. f < i => f \in 1 .. i - 1
          BY <1>2, <2>1, <3>1
        <4> QED
          BY <2>8, <4>2, <4>3, Zenon
      <3>5. i = f
        BY <1>2, <2>1, <3>1, <3>3, <3>4
      <3>6. l = f
        <4>1. ASSUME f < l
              PROVE  FALSE
          <5>1. f + 1 \in f .. l /\ f # n
            BY <1>2, <2>1, <4>1
          <5>2. text[f + 1] # " "
            BY <2>3, <5>1, Zenon DEF Delimiter
          <5> QED
            BY <1>1, <2>8, <3>5, <5>1, <5>2
        <4> QED
          BY <1>2, <2>1, <2>3, <4>1
      <3>7. Len(name) = 1 /\ name[1] = "stop"
        <4>1. l - f + 1 = 1 /\ 1 \in 1 .. l - f + 1 /\ f + 1 - 1 = i
          BY <1>2, <2>1, <3>5, <3>6
        <4>2. name[1] = text[f + 1 - 1]
          BY <2>5, <4>1
        <4> QED
          BY <2>5, <2>8, <4>1, <4>2
      <3> QED
        BY <2>5, <3>7
    <2> QED
      BY <2>5, <2>6, <2>7, <2>8, Zenon
  <1> QED
    BY <1>4, <1>5

(* Every datagram with a word is answered, and stop is the one command     *)
(* that stops the server, for datagrams of every length.                   *)
THEOREM CommandAnswered == Spec => []CommandIsAnswered
  <1>1. InputType => CommandIsAnswered
    <2>1. SUFFICES ASSUME InputType, input.kind = "datagram"
                   PROVE  CommandIsAnswered
      BY Zenon DEF CommandIsAnswered
    <2> DEFINE C == {" ", "0", "help", "stop", "x"}
               text == ReceiveBuffer(input.text)
               answer == RunDatagram(input.text)
    <2>2. text \in Seq(C) /\ Len(text) =< RECEIVE_LENGTH
      <3>1. PICK datagram : datagram = input.text
        OBVIOUS
      <3>2. datagram \in Seq(C)
        BY <2>1, <3>1, Zenon DEF InputType
      <3> HIDE DEF C
      <3>3. ReceiveBuffer(datagram) \in Seq(C) /\ Len(ReceiveBuffer(datagram)) =< RECEIVE_LENGTH
        BY <3>2, ReceivedIs, Zenon
      <3> QED
        BY <3>1, <3>3, Zenon
    <2>3. PICK tokens, name : tokens = get_tokens(text, MaxTokens) /\ name = tokens[1]
      OBVIOUS
    <2>4. answer = command_runner_run(tokens)
      BY <2>3, Zenon DEF RunDatagram
    <2> HIDE DEF C, text, answer
    <2>5. /\ name \in Seq(C) /\ Len(name) =< Len(text)
          /\ name # NoToken <=> \E i \in DOMAIN text : text[i] # " "
          /\ name = <<"stop">> <=>
                \E i \in DOMAIN text : /\ text[i] = "stop"
                                       /\ \A k \in 1 .. i - 1 : ~(text[k] # " ")
                                       /\ i = Len(text) \/ ~(text[i + 1] # " ")
      BY <2>2, <2>3, StopIs, Zenon
    <2>6. Len(name) =< RECEIVE_LENGTH
      <3>1. PICK a, b : a = Len(name) /\ b = Len(text)
        OBVIOUS
      <3>2. name \in Seq(C) /\ text \in Seq(C)
        BY <2>2, <2>5, Zenon
      <3>3. a \in Nat /\ b \in Nat
        BY <3>1, <3>2, LenProperties, Zenon
      <3>4. a =< b /\ b =< RECEIVE_LENGTH
        BY <2>2, <2>5, <3>1, Zenon
      <3>5. RECEIVE_LENGTH \in Nat
        BY CommandAssumption
      <3>6. a =< RECEIVE_LENGTH
        BY <3>3, <3>4, <3>5
      <3> QED
        BY <3>1, <3>6, Zenon
    <2>7. /\ answer.result = "SUCCESS_STOP" <=> name = <<"stop">>
          /\ answer.out_size > 0 <=> name # NoToken
          /\ answer.result # "RESPONSE_TOO_LARGE" /\ answer.whole
      BY <2>3, <2>4, <2>5, <2>6, RunIs, ZenonT(30)
    <2> QED
      BY <2>5, <2>7, Zenon DEF CommandIsAnswered, text, answer
  <1> QED
    BY <1>1, InputTypeCorrect, PTL

-----------------------------------------------------------------------------
(* The dump of a frame. *)

(* A byte that may stand in a string. *)
Text(data, k) == isprint(data[k]) \/ eol_char(data[k])

(* The bytes from place s to place e, counted from 0, are a string: four   *)
(* characters or more, a line end behind them, and no text behind that.    *)
IsString(data, s, e) ==
    /\ s + 4 =< e /\ e < Len(data)
    /\ \A k \in s + 1 .. e + 1 : Text(data, k)
    /\ \A k \in s + 1 .. s + 4 : isprint(data[k])
    /\ eol_char(data[e + 1])
    /\ e + 1 = Len(data) \/ ~Text(data, e + 2)

(* What _find_string finds is a string. *)
LEMMA FoundIsString ==
    ASSUME NEW C, NEW data \in Seq(C), NEW offset \in Nat, offset < Len(data),
           NEW e, e = find_string(data, offset)
    PROVE  e \in Nat /\ (e # 0 => IsString(data, offset, e))
  <1>1. PICK n : n = Len(data)
    OBVIOUS
  <1>2. n \in Nat /\ offset < n
    BY <1>1
  <1> DEFINE stops == {n} \cup {i \in offset .. n - 1 :
                          ~isprint(data[i + 1]) /\ ~(i > offset + 3 /\ eol_char(data[i + 1]))}
  <1>3. PICK stop : stop = Min(stops)
    OBVIOUS
  <1>4. stop \in stops /\ \A i \in stops : stop =< i
    <2>1. stops \in SUBSET Nat /\ stops # {}
      BY <1>2
    <2> HIDE DEF stops
    <2> QED
      BY <1>3, <2>1, MinOfNaturals, Zenon
  <1>5. stop \in offset .. n
    BY <1>2, <1>4
  <1>6. e = IF stop > offset /\ eol_char(data[stop - 1 + 1]) THEN stop - 1 ELSE 0
    BY <1>1, <1>3, Zenon DEF find_string
  <1>7. \A i \in offset .. stop - 1 :
           isprint(data[i + 1]) \/ (i > offset + 3 /\ eol_char(data[i + 1]))
    <2>1. SUFFICES ASSUME NEW i \in offset .. stop - 1,
                          ~isprint(data[i + 1]),
                          ~(i > offset + 3 /\ eol_char(data[i + 1]))
                   PROVE  FALSE
      BY Zenon
    <2>2. i \in offset .. n - 1 /\ ~(stop =< i)
      BY <1>2, <1>5
    <2>3. i \in stops
      BY <2>1, <2>2, Zenon
    <2> QED
      BY <1>4, <2>2, <2>3, Zenon
  <1>8. stop = n \/ /\ ~isprint(data[stop + 1])
                    /\ ~(stop > offset + 3 /\ eol_char(data[stop + 1]))
    BY <1>4, Zenon
  <1> HIDE DEF stops
  <1>9. CASE ~(stop > offset /\ eol_char(data[stop - 1 + 1]))
    BY <1>6, <1>9
  <1>10. CASE stop > offset /\ eol_char(data[stop - 1 + 1])
    <2>1. e = stop - 1
      BY <1>6, <1>10
    <2>2. e \in offset .. n - 1 /\ e \in Nat /\ stop = e + 1 /\ stop - 1 + 1 = e + 1
      BY <1>2, <1>5, <1>10, <2>1
    <2>3. eol_char(data[e + 1])
      BY <1>10, <2>2, Zenon
    <2>4. ~isprint(data[e + 1])
      BY <2>3 DEF isprint, eol_char
    <2>5. e > offset + 3
      BY <1>7, <2>2, <2>4
    <2>6. \A i \in offset .. e :
             isprint(data[i + 1]) \/ (i > offset + 3 /\ eol_char(data[i + 1]))
      BY <1>7, <2>1, Zenon
    <2>7. \A k \in offset + 1 .. e + 1 : k - 1 \in offset .. e /\ (k - 1) + 1 = k
      BY <2>2
    <2>8. \A k \in offset + 1 .. e + 1 :
             isprint(data[k]) \/ (k - 1 > offset + 3 /\ eol_char(data[k]))
      BY <2>6, <2>7, Zenon
    <2>9. \A k \in offset + 1 .. e + 1 : Text(data, k)
      BY <2>8, Zenon DEF Text
    <2>10. \A k \in offset + 1 .. offset + 4 : isprint(data[k])
      <3>1. \A k \in offset + 1 .. offset + 4 :
               k \in offset + 1 .. e + 1 /\ ~(k - 1 > offset + 3)
        BY <2>2, <2>5
      <3> QED
        BY <2>8, <3>1, Zenon
    <2>11. e + 1 = n \/ ~Text(data, e + 2)
      <3>1. stop > offset + 3 /\ stop + 1 = e + 2
        BY <2>2, <2>5
      <3>2. stop = n \/ (~isprint(data[e + 2]) /\ ~eol_char(data[e + 2]))
        BY <1>8, <3>1, Zenon
      <3> QED
        BY <2>2, <3>2, Zenon DEF Text
    <2>12. offset + 4 =< e /\ e < n
      BY <1>2, <2>2, <2>5
    <2> QED
      BY <1>1, <2>2, <2>3, <2>9, <2>10, <2>11, <2>12, Zenon DEF IsString
  <1> QED
    BY <1>9, <1>10

(* What a turn prints. *)
Turn == [open : BOOLEAN, shown : {"number", "char", "blank", "nothing"}, close : BOOLEAN]

(* The string opened in turn j is not yet closed when turn k begins. *)
StillOpen(out, j, k) == out[j].open /\ \A c \in j .. k - 1 : ~out[c].close

(* What StringsAreClosed says of turn k, as far as the turns up to it go.  *)
TurnOK(data, out, k) ==
    /\ out[k].shown = "number" <=> ~\E j \in 1 .. k : StillOpen(out, j, k)
    /\ out[k].shown # "number" => Text(data, k)
    /\ out[k].shown = "nothing" => data[k] = "\r"
    /\ out[k].open => /\ ~\E j \in 1 .. k - 1 : StillOpen(out, j, k)
                      /\ k + 4 =< Len(data) /\ \A m \in k .. k + 3 : isprint(data[m])
    /\ out[k].close => /\ \E j \in 1 .. k : StillOpen(out, j, k)
                       /\ eol_char(data[k])
                       /\ k = Len(data) \/ ~Text(data, k + 1)

(* The loop before turn i: its indices are those of a string it is in or   *)
(* behind, or both 0, and a string is open exactly while it is in one.     *)
Loop(data, i, s, e, out) ==
    /\ i \in 0 .. Len(data) /\ out \in Seq(Turn) /\ Len(out) = i
    /\ s \in Nat /\ e \in Nat
    /\ (s = 0 /\ e = 0) \/ (s \in 1 .. i - 1 /\ IsString(data, s, e))
    /\ e # 0 /\ i =< e => StillOpen(out, s + 1, i + 1)
    /\ ~(e # 0 /\ i =< e) => ~\E j \in 1 .. i : StillOpen(out, j, i + 1)
    /\ \A k \in 1 .. i : TurnOK(data, out, k)

(* A turn leaves what earlier turns printed. *)
LEMMA StillOpenKept ==
    ASSUME NEW i \in Nat, NEW out, NEW new, \A m \in 1 .. i : new[m] = out[m],
           NEW j \in 1 .. i, NEW k \in 1 .. i + 1
    PROVE  StillOpen(new, j, k) <=> StillOpen(out, j, k)
  <1>1. \A c \in j .. k - 1 : new[c] = out[c]
    OBVIOUS
  <1> QED
    BY <1>1, Zenon DEF StillOpen

(* So what was right of them stays right. *)
LEMMA TurnOKKept ==
    ASSUME NEW data, NEW i \in Nat, NEW out, NEW new, \A m \in 1 .. i : new[m] = out[m],
           NEW k \in 1 .. i, TurnOK(data, out, k)
    PROVE  TurnOK(data, new, k)
  <1>1. new[k] = out[k]
    OBVIOUS
  <1>2. k \in 1 .. i + 1 /\ \A j \in 1 .. k : j \in 1 .. i
    OBVIOUS
  <1>3. \A j \in 1 .. k : StillOpen(new, j, k) <=> StillOpen(out, j, k)
    BY <1>2, StillOpenKept, Zenon
  <1>4. \A j \in 1 .. k - 1 : j \in 1 .. k
    OBVIOUS
  <1> QED
    BY <1>1, <1>3, <1>4, Zenon DEF TurnOK

(* A turn that opens a string, or prints a number while none is open. *)
LEMMA TurnOutside ==
    ASSUME NEW C, NEW data \in Seq(C), NEW i, NEW s, NEW e, NEW out,
           Loop(data, i, s, e, out), i < Len(data), ~(e # 0 /\ i =< e),
           NEW turn \in Turn, ~turn.close,
           NEW s2 \in Nat, NEW e2 \in Nat,
           \/ ~turn.open /\ turn.shown = "number" /\ s2 = 0 /\ e2 = 0
           \/ turn.open /\ turn.shown = "char" /\ s2 = i /\ i # 0 /\ IsString(data, i, e2)
    PROVE  Loop(data, i + 1, s2, e2, Append(out, turn))
  <1>1. PICK new : new = Append(out, turn)
    OBVIOUS
  <1>2. /\ i \in Nat /\ i + 1 \in 0 .. Len(data) /\ i + 1 =< Len(data)
        /\ out \in Seq(Turn) /\ Len(out) = i
        /\ ~\E j \in 1 .. i : StillOpen(out, j, i + 1)
        /\ \A k \in 1 .. i : TurnOK(data, out, k)
    BY DEF Loop
  <1>3. /\ new \in Seq(Turn) /\ Len(new) = i + 1 /\ new[i + 1] = turn
        /\ \A m \in 1 .. i : new[m] = out[m]
    BY <1>1, <1>2
  <1>4. \A k \in 1 .. i : TurnOK(data, new, k)
    BY <1>2, <1>3, TurnOKKept
  <1>5. \A j \in 1 .. i : ~StillOpen(new, j, i + 1)
    <2>1. i + 1 \in 1 .. i + 1
      BY <1>2
    <2> QED
      BY <1>2, <1>3, <2>1, StillOpenKept, Zenon
  <1>6. \A j \in 1 .. i : ~StillOpen(new, j, (i + 1) + 1)
    <2>1. \A j \in 1 .. i : \A c \in j .. (i + 1) - 1 : c \in j .. ((i + 1) + 1) - 1
      BY <1>2
    <2> QED
      BY <1>5, <2>1, Zenon DEF StillOpen
  <1>7. /\ StillOpen(new, i + 1, i + 1) <=> turn.open
        /\ StillOpen(new, i + 1, (i + 1) + 1) <=> turn.open
    <2>1. \A c \in i + 1 .. (i + 1) - 1 : FALSE
      BY <1>2
    <2>2. \A c \in i + 1 .. ((i + 1) + 1) - 1 : c = i + 1
      BY <1>2
    <2> QED
      BY <1>3, <2>1, <2>2, Zenon DEF StillOpen
  <1>8. \A j \in 1 .. i + 1 : j \in 1 .. i \/ j = i + 1
    BY <1>2
  <1>9. i + 1 \in 1 .. i + 1 /\ (i + 1) - 1 = i
    BY <1>2
  <1>10. \A k \in 1 .. i + 1 : k \in 1 .. i \/ k = i + 1
    BY <1>2
  <1>11. CASE ~turn.open /\ turn.shown = "number" /\ s2 = 0 /\ e2 = 0
    <2>1. ~\E j \in 1 .. i + 1 : StillOpen(new, j, i + 1)
      BY <1>5, <1>7, <1>8, <1>11, Zenon
    <2>2. "number" # "nothing"
      OBVIOUS
    <2>3. TurnOK(data, new, i + 1)
      BY <1>3, <1>11, <2>1, <2>2, Zenon DEF TurnOK
    <2>4. ~\E j \in 1 .. i + 1 : StillOpen(new, j, (i + 1) + 1)
      BY <1>6, <1>7, <1>8, <1>11, Zenon
    <2>5. \A k \in 1 .. i + 1 : TurnOK(data, new, k)
      BY <1>4, <1>10, <2>3, Zenon
    <2>6. Loop(data, i + 1, s2, e2, new)
      BY <1>2, <1>3, <1>11, <2>4, <2>5, Zenon DEF Loop
    <2> QED
      BY <1>1, <2>6, Zenon
  <1>12. CASE turn.open /\ turn.shown = "char" /\ s2 = i /\ i # 0 /\ IsString(data, i, e2)
    <2>1. /\ i + 4 =< e2 /\ e2 < Len(data)
          /\ \A k \in i + 1 .. e2 + 1 : Text(data, k)
          /\ \A k \in i + 1 .. i + 4 : isprint(data[k])
      BY <1>12, Zenon DEF IsString
    <2>2. /\ i + 1 \in i + 1 .. e2 + 1 /\ (i + 1) + 4 =< Len(data) /\ (i + 1) + 3 = i + 4
          /\ i \in 1 .. (i + 1) - 1 /\ e2 # 0 /\ i + 1 =< e2
      BY <1>2, <1>12, <2>1
    <2>3. "number" # "char" /\ "char" # "nothing"
      OBVIOUS
    <2>4. TurnOK(data, new, i + 1)
      BY <1>3, <1>5, <1>7, <1>9, <1>12, <2>1, <2>2, <2>3, Zenon DEF TurnOK
    <2>5. StillOpen(new, s2 + 1, (i + 1) + 1)
      BY <1>7, <1>12, Zenon
    <2>6. \A k \in 1 .. i + 1 : TurnOK(data, new, k)
      BY <1>4, <1>10, <2>4, Zenon
    <2>7. Loop(data, i + 1, s2, e2, new)
      BY <1>2, <1>3, <1>12, <2>2, <2>5, <2>6, Zenon DEF Loop
    <2> QED
      BY <1>1, <2>7, Zenon
  <1> QED
    BY <1>11, <1>12

(* A turn in a string prints text, and closes the string at its end. *)
LEMMA TurnInside ==
    ASSUME NEW C, NEW data \in Seq(C), NEW i, NEW s, NEW e, NEW out,
           Loop(data, i, s, e, out), i < Len(data), e # 0, i =< e,
           NEW turn \in Turn, ~turn.open, turn.shown # "number",
           turn.shown = "nothing" => data[i + 1] = "\r",
           turn.close <=> i = e
    PROVE  Loop(data, i + 1, s, e, Append(out, turn))
  <1>1. PICK new : new = Append(out, turn)
    OBVIOUS
  <1>2. /\ i \in Nat /\ i + 1 \in 0 .. Len(data) /\ i + 1 =< Len(data)
        /\ out \in Seq(Turn) /\ Len(out) = i
        /\ \A k \in 1 .. i : TurnOK(data, out, k)
        /\ s \in Nat /\ e \in Nat /\ s \in 1 .. i - 1 /\ IsString(data, s, e)
        /\ StillOpen(out, s + 1, i + 1)
    BY DEF Loop
  <1>3. /\ new \in Seq(Turn) /\ Len(new) = i + 1 /\ new[i + 1] = turn
        /\ \A m \in 1 .. i : new[m] = out[m]
    BY <1>1, <1>2
  <1>4. \A k \in 1 .. i : TurnOK(data, new, k)
    BY <1>2, <1>3, TurnOKKept
  <1>5. /\ s + 1 \in 1 .. i /\ s + 1 \in 1 .. i + 1 /\ i + 1 \in 1 .. i + 1
        /\ s \in 1 .. (i + 1) - 1
    BY <1>2
  <1>6. StillOpen(new, s + 1, i + 1)
    <2>1. PICK j, k : j = s + 1 /\ k = i + 1
      OBVIOUS
    <2>2. j \in 1 .. i /\ k \in 1 .. i + 1
      BY <1>5, <2>1
    <2>3. StillOpen(new, j, k) <=> StillOpen(out, j, k)
      BY <1>2, <1>3, <2>2, StillOpenKept
    <2> QED
      BY <1>2, <2>1, <2>3, Zenon
  <1>7. /\ \A k \in s + 1 .. e + 1 : Text(data, k)
        /\ eol_char(data[e + 1])
        /\ e + 1 = Len(data) \/ ~Text(data, e + 2)
    BY <1>2, Zenon DEF IsString
  <1>8. Text(data, i + 1)
    <2>1. i + 1 \in s + 1 .. e + 1
      BY <1>2
    <2> QED
      BY <1>7, <2>1, Zenon
  <1>9. turn.close => /\ eol_char(data[i + 1])
                      /\ i + 1 = Len(data) \/ ~Text(data, (i + 1) + 1)
    <2>1. e + 2 = (e + 1) + 1
      BY <1>2
    <2> QED
      BY <1>7, <2>1, Zenon
  <1>10. TurnOK(data, new, i + 1)
    BY <1>3, <1>5, <1>6, <1>8, <1>9, Zenon DEF TurnOK
  <1>11. \A k \in 1 .. i + 1 : TurnOK(data, new, k)
    <2>1. \A k \in 1 .. i + 1 : k \in 1 .. i \/ k = i + 1
      BY <1>2
    <2> QED
      BY <1>4, <1>10, <2>1, Zenon
  <1>12. i + 1 =< e => StillOpen(new, s + 1, (i + 1) + 1)
    <2>1. SUFFICES ASSUME i + 1 =< e
                   PROVE  StillOpen(new, s + 1, (i + 1) + 1)
      OBVIOUS
    <2>2. ~turn.close
      BY <1>2, <2>1
    <2>3. \A c \in s + 1 .. ((i + 1) + 1) - 1 : c \in s + 1 .. (i + 1) - 1 \/ c = i + 1
      BY <1>2
    <2> QED
      BY <1>3, <1>6, <2>2, <2>3, Zenon DEF StillOpen
  <1>13. ~(i + 1 =< e) => ~\E j \in 1 .. i + 1 : StillOpen(new, j, (i + 1) + 1)
    <2>1. SUFFICES ASSUME ~(i + 1 =< e)
                   PROVE  ~\E j \in 1 .. i + 1 : StillOpen(new, j, (i + 1) + 1)
      OBVIOUS
    <2>2. turn.close
      BY <1>2, <2>1
    <2>3. \A j \in 1 .. i + 1 : i + 1 \in j .. ((i + 1) + 1) - 1
      BY <1>2
    <2> QED
      BY <1>3, <2>2, <2>3, Zenon DEF StillOpen
  <1>14. Loop(data, i + 1, s, e, new)
    BY <1>2, <1>3, <1>5, <1>11, <1>12, <1>13, Zenon DEF Loop
  <1> QED
    BY <1>1, <1>14, Zenon

(* Every turn of the loop keeps its invariant. *)
LEMMA TurnKeepsLoop ==
    ASSUME NEW C, NEW data \in Seq(C), NEW at,
           Loop(data, at.i, at.string_start, at.string_end, at.out), at.i < Len(data),
           NEW next, next = print_turn(data, at)
    PROVE  Loop(data, next.i, next.string_start, next.string_end, next.out)
  <1>1. PICK i, s, e, out, found :
           /\ i = at.i /\ s = at.string_start /\ e = at.string_end /\ out = at.out
           /\ found = find_string(data, i)
    OBVIOUS
  <1>2. Loop(data, i, s, e, out) /\ i < Len(data)
    BY <1>1, Zenon
  <1>3. i \in Nat /\ s \in Nat /\ e \in Nat
    BY <1>2 DEF Loop
  <1>4. found \in Nat /\ (found # 0 => IsString(data, i, found))
    BY <1>1, <1>2, <1>3, FoundIsString
  <1>5. PICK s2, e2, in, shown, turn :
           /\ e2 = IF i > e THEN found ELSE e
           /\ s2 = IF ~(i > e) THEN s ELSE IF found > 0 THEN i ELSE 0
           /\ in = (s2 # e2 /\ i \in s2 .. e2)
           /\ shown = CASE ~in -> "number"
                        [] in /\ isprint(data[i + 1]) -> "char"
                        [] in /\ data[i + 1] = "\n" -> "blank"
                        [] OTHER -> "nothing"
           /\ turn = [open |-> in /\ i = s2, shown |-> shown, close |-> in /\ i = e2]
    OBVIOUS
  <1>6. /\ next.i = i + 1 /\ next.string_start = s2 /\ next.string_end = e2
        /\ next.out = Append(out, turn)
    BY <1>1, <1>5, Zenon DEF print_turn
  <1>7. /\ ~in => shown = "number"
        /\ in => /\ shown \in {"char", "blank", "nothing"}
                 /\ isprint(data[i + 1]) => shown = "char"
                 /\ shown = "nothing" => data[i + 1] # "\n" /\ ~isprint(data[i + 1])
    <2>1. isprint(data[i + 1]) => data[i + 1] # "\n"
      BY DEF isprint
    <2>2. ASSUME ~in
          PROVE  shown = "number"
      BY <1>5, <2>2, Zenon
    <2>3. ASSUME in, isprint(data[i + 1])
          PROVE  shown = "char"
      BY <1>5, <2>1, <2>3, Zenon
    <2>4. ASSUME in, ~isprint(data[i + 1]), data[i + 1] = "\n"
          PROVE  shown = "blank"
      BY <1>5, <2>4, Zenon
    <2>5. ASSUME in, ~isprint(data[i + 1]), data[i + 1] # "\n"
          PROVE  shown = "nothing"
      BY <1>5, <2>5, Zenon
    <2>6. "blank" # "nothing" /\ "char" # "nothing"
      OBVIOUS
    <2> QED
      BY <2>1, <2>2, <2>3, <2>4, <2>5, <2>6, Zenon
  <1>8. /\ turn \in Turn /\ turn.shown = shown
        /\ turn.open <=> in /\ i = s2
        /\ turn.close <=> in /\ i = e2
    BY <1>5, <1>7, Zenon DEF Turn
  <1>9. CASE e # 0 /\ i =< e
    <2>1. s \in 1 .. i - 1 /\ IsString(data, s, e)
      BY <1>2, <1>9, Zenon DEF Loop
    <2>2. s2 = s /\ e2 = e /\ in
      <3>1. s + 4 =< e
        BY <2>1, Zenon DEF IsString
      <3>2. ~(i > e) /\ s # e /\ i \in s .. e
        BY <1>3, <1>9, <2>1, <3>1
      <3> QED
        BY <1>5, <3>2, Zenon
    <2>3. ~turn.open /\ (turn.close <=> i = e) /\ turn.shown # "number"
      <3>1. i # s
        BY <1>3, <2>1
      <3>2. "number" \notin {"char", "blank", "nothing"}
        BY Zenon
      <3> QED
        BY <1>7, <1>8, <2>2, <3>1, <3>2, Zenon
    <2>4. turn.shown = "nothing" => data[i + 1] = "\r"
      <3>1. i + 1 \in s + 1 .. e + 1
        BY <1>3, <1>9, <2>1
      <3>2. Text(data, i + 1)
        BY <2>1, <3>1, Zenon DEF IsString
      <3> QED
        BY <1>7, <1>8, <2>2, <3>2, Zenon DEF Text, eol_char
    <2>5. Loop(data, i + 1, s, e, Append(out, turn))
      BY <1>2, <1>8, <1>9, <2>3, <2>4, TurnInside
    <2> QED
      BY <1>6, <2>2, <2>5, Zenon
  <1>10. CASE ~(e # 0 /\ i =< e)
    <2>1. CASE i > e /\ found # 0
      <3>1. s2 = i /\ e2 = found /\ i # 0
        BY <1>3, <1>4, <1>5, <2>1
      <3>2. i + 4 =< found /\ \A k \in i + 1 .. i + 4 : isprint(data[k])
        BY <1>4, <2>1, Zenon DEF IsString
      <3>3. s2 # e2 /\ i \in s2 .. e2 /\ i # e2 /\ i + 1 \in i + 1 .. i + 4
        BY <1>3, <1>4, <3>1, <3>2
      <3>4. in /\ shown = "char"
        BY <1>5, <1>7, <3>2, <3>3, Zenon
      <3>5. turn.open /\ turn.shown = "char" /\ ~turn.close
        BY <1>8, <3>1, <3>3, <3>4, Zenon
      <3>6. s2 \in Nat /\ e2 \in Nat /\ IsString(data, i, e2)
        BY <1>3, <1>4, <2>1, <3>1, Zenon
      <3>7. Loop(data, i + 1, s2, e2, Append(out, turn))
        BY <1>2, <1>8, <1>10, <3>1, <3>5, <3>6, TurnOutside
      <3> QED
        BY <1>6, <3>7, Zenon
    <2>2. CASE ~(i > e /\ found # 0)
      <3>1. s2 = 0 /\ e2 = 0
        <4>1. CASE i > e
          <5>1. found = 0
            BY <2>2, <4>1
          <5> QED
            BY <1>5, <4>1, <5>1
        <4>2. CASE ~(i > e)
          <5>1. e = 0
            BY <1>3, <1>10, <4>2
          <5>2. ~IsString(data, s, e)
            <6>1. ~(s + 4 =< e)
              BY <1>3, <5>1
            <6> QED
              BY <6>1, Zenon DEF IsString
          <5>3. s = 0
            BY <1>2, <5>2, Zenon DEF Loop
          <5> QED
            BY <1>5, <4>2, <5>1, <5>3, Zenon
        <4> QED
          BY <4>1, <4>2
      <3>2. ~in
        BY <1>5, <3>1, Zenon
      <3>3. ~turn.open /\ ~turn.close /\ turn.shown = "number"
        BY <1>7, <1>8, <3>2, Zenon
      <3>4. s2 \in Nat /\ e2 \in Nat
        BY <3>1
      <3>5. Loop(data, i + 1, s2, e2, Append(out, turn))
        BY <1>2, <1>8, <1>10, <3>1, <3>3, <3>4, TurnOutside
      <3> QED
        BY <1>6, <3>5, Zenon
    <2> QED
      BY <2>1, <2>2
  <1> QED
    BY <1>9, <1>10

(* The invariant of the dump. *)
DumpInv ==
    input.kind = "data" =>
        Loop(input.data, dump.i, dump.string_start, dump.string_end, dump.out)

(* Strings in the dump of a frame are opened and closed in turn, hold text *)
(* and nothing else, and are closed when the loop ends, for data of every  *)
(* length.                                                                 *)
THEOREM StringsClosed == Spec => []StringsAreClosed
  <1>1. Init /\ InputType => DumpInv
    <2>1. SUFFICES ASSUME Init, InputType, input.kind = "data"
                   PROVE  Loop(input.data, dump.i, dump.string_start, dump.string_end, dump.out)
      BY Zenon DEF DumpInv
    <2>2. dump = PrintStart
      BY <2>1, Zenon DEF Init
    <2>3. PICK data, i, s, e, out :
             /\ data = input.data /\ i = dump.i /\ s = dump.string_start
             /\ e = dump.string_end /\ out = dump.out
      OBVIOUS
    <2>4. i = 0 /\ s = 0 /\ e = 0 /\ out = <<>>
      BY <2>2, <2>3, Zenon DEF PrintStart
    <2>5. Len(data) \in Nat
      BY <2>1, <2>3 DEF InputType
    <2>6. i \in 0 .. Len(data) /\ out \in Seq(Turn) /\ Len(out) = i /\ s \in Nat /\ e \in Nat
      BY <2>4, <2>5
    <2>7. \A j \in 1 .. i : FALSE
      BY <2>4
    <2>8. Loop(data, i, s, e, out)
      BY <2>4, <2>6, <2>7, Zenon DEF Loop
    <2> QED
      BY <2>3, <2>8, Zenon
  <1>2. InputType /\ DumpInv /\ [Next]_vars => DumpInv'
    <2>1. SUFFICES ASSUME InputType, DumpInv, [Next]_vars
                   PROVE  DumpInv'
      OBVIOUS
    <2>2. CASE pigeon_frame_print_data
      <3>1. /\ input.kind = "data" /\ dump.i < Len(input.data)
            /\ dump' = print_turn(input.data, dump) /\ input' = input
        BY <2>2, Zenon DEF pigeon_frame_print_data
      <3>2. PICK data, at, next : data = input.data /\ at = dump /\ next = dump'
        OBVIOUS
      <3>3. PICK C : C = {"a", "\n", "\r", "0"}
        OBVIOUS
      <3>4. data \in Seq(C)
        BY <2>1, <3>1, <3>2, <3>3, Zenon DEF InputType
      <3>5. Loop(data, at.i, at.string_start, at.string_end, at.out)
        BY <2>1, <3>1, <3>2, Zenon DEF DumpInv
      <3>6. at.i < Len(data) /\ next = print_turn(data, at)
        BY <3>1, <3>2, Zenon
      <3>7. Loop(data, next.i, next.string_start, next.string_end, next.out)
        BY <3>4, <3>5, <3>6, TurnKeepsLoop, Zenon
      <3> QED
        BY <3>1, <3>2, <3>7, Zenon DEF DumpInv
    <2>3. CASE UNCHANGED vars
      BY <2>1, <2>3, Zenon DEF DumpInv, vars
    <2> QED
      BY <2>1, <2>2, <2>3, Zenon DEF Next
  <1>3. InputType /\ DumpInv => StringsAreClosed
    <2>1. SUFFICES ASSUME InputType, DumpInv, input.kind = "data",
                          NEW k \in 1 .. Len(dump.out)
                   PROVE  /\ TurnOK(input.data, dump.out, k)
                          /\ Len(dump.out) = Len(input.data) =>
                                (dump.out[k].open =>
                                    \E c \in k .. Len(dump.out) : dump.out[c].close)
      BY Zenon DEF StringsAreClosed, TurnOK, StillOpen, Text
    <2>2. PICK data, i, s, e, out :
             /\ data = input.data /\ i = dump.i /\ s = dump.string_start
             /\ e = dump.string_end /\ out = dump.out
      OBVIOUS
    <2>3. Loop(data, i, s, e, out)
      BY <2>1, <2>2, Zenon DEF DumpInv
    <2>4. Len(out) = i /\ k \in 1 .. i
      BY <2>1, <2>2, <2>3, Zenon DEF Loop
    <2>5. TurnOK(data, out, k)
      BY <2>3, <2>4, Zenon DEF Loop
    <2>6. ASSUME i = Len(data), out[k].open
          PROVE  \E c \in k .. i : out[c].close
      <3>1. ~(e # 0 /\ i =< e)
        <4>1. i \in Nat /\ e \in Nat /\ ((s = 0 /\ e = 0) \/ IsString(data, s, e))
          BY <2>3 DEF Loop
        <4>2. IsString(data, s, e) => e < i
          BY <2>6, Zenon DEF IsString
        <4> QED
          BY <4>1, <4>2
      <3>2. ~StillOpen(out, k, i + 1)
        BY <2>3, <2>4, <3>1, Zenon DEF Loop
      <3>3. (i + 1) - 1 = i
        BY <2>3 DEF Loop
      <3> QED
        BY <2>6, <3>2, <3>3, Zenon DEF StillOpen
    <2> QED
      BY <2>2, <2>4, <2>5, <2>6, Zenon
  <1> QED
    BY <1>1, <1>2, <1>3, InputTypeCorrect, PTL DEF Spec
=============================================================================
