------------------------------ MODULE Encodings ------------------------------
(***************************************************************************)
(* How a frame is written on the media that carry it and read back: as a   *)
(* line of base64 in the frames file (base64.c, linkmods/linkmod_files.c), *)
(* and as a QR code that printer.c puts on paper and barcode_decoder.c     *)
(* reads from a picture.                                                   *)
(*                                                                         *)
(* Bytes are numbers 0..255, characters their codes, buffers sequences     *)
(* (so index 0 of the code is index 1 here).  Shifts and masks are written *)
(* with division and remainder.                                            *)
(***************************************************************************)
EXTENDS Integers, Sequences, FiniteSetsExt, SequencesExt

CONSTANTS ETHER_MIN_LEN,      \* shortest frame (64 in the headers)
          ETHER_MAX_LEN,      \* longest frame (1518)
          READ_BUFFER_SIZE,   \* room for a line of the frames file and its NUL (1700)
          ROW_BYTES,          \* bytes in a row of the printer (48)
          NULL

ASSUME FrameLengthsAssumption ==
    /\ ETHER_MIN_LEN \in Nat \ {0}
    /\ ETHER_MAX_LEN \in Nat
    /\ ETHER_MIN_LEN =< ETHER_MAX_LEN
    /\ READ_BUFFER_SIZE \in Nat /\ READ_BUFFER_SIZE >= 2
    /\ ROW_BYTES \in Nat \ {0}

LF == 10
COLON == 58
EQUALS == 61

Bit(value, i) == (value \div 2^i) % 2

(* The byte whose bits are those of `bits'. *)
ByteOf(bits) ==
    LET b(i) == IF i \in bits THEN 2^i ELSE 0
    IN b(0) + b(1) + b(2) + b(3) + b(4) + b(5) + b(6) + b(7)

-----------------------------------------------------------------------------
(***************************************************************************)
(* pigeon_frame_new.  memcpy copies the padded length, so for a short      *)
(* frame it reads past the bytes it was given: `beyond' is what it finds   *)
(* there.  The result is the frame's buffer.                               *)
(***************************************************************************)
pigeon_frame_new(bytes, beyond) ==
    IF Len(bytes) > ETHER_MAX_LEN
    THEN NULL
    ELSE [i \in 1 .. Max({Len(bytes), ETHER_MIN_LEN}) |->
             IF i =< Len(bytes) THEN bytes[i] ELSE beyond]

-----------------------------------------------------------------------------
(* base64.c *)

encoding_table ==
    [s \in 0 .. 63 |-> CASE s < 26 -> s + 65        \* A .. Z
                         [] s \in 26 .. 51 -> s + 71 \* a .. z
                         [] s \in 52 .. 61 -> s - 4  \* 0 .. 9
                         [] s = 62 -> 43             \* +
                         [] s = 63 -> 47]            \* /

mod_table == [r \in 0 .. 2 |-> CASE r = 0 -> 0 [] r = 1 -> 2 [] r = 2 -> 1]

(* base64_new fills 64 of the 256 entries; what the others hold is never   *)
(* read for text that base64_encode wrote.                                 *)
decoding_table == [c \in {encoding_table[s] : s \in 0 .. 63} |->
                      CHOOSE s \in 0 .. 63 : encoding_table[s] = c]

(* Four characters for every three bytes begun; the characters that stand  *)
(* for no byte become `='.                                                 *)
base64_encode(data) ==
    LET n == Len(data)
        output_length == 4 * ((n + 2) \div 3)
        octet(i) == IF i =< n THEN data[i] ELSE 0
        triple(j) == LET i == 3 * ((j - 1) \div 4)
                     IN octet(i + 1) * 2^16 + octet(i + 2) * 2^8 + octet(i + 3)
        sextet(j) == (triple(j) \div 2^(6 * (3 - ((j - 1) % 4)))) % 64
    IN [j \in 1 .. output_length |->
           IF j > output_length - mod_table[n % 3]
           THEN EQUALS
           ELSE encoding_table[sextet(j)]]

decode_one_pad(text) ==
    LET n == Len(text)
        padding == Cardinality({i \in {n} : text[i] = EQUALS})
        sextet(i) == IF text[i] = EQUALS THEN 0 ELSE decoding_table[text[i]]
        triple(j) == LET i == 4 * ((j - 1) \div 3)
                     IN sextet(i + 1) * 2^18 + sextet(i + 2) * 2^12
                        + sextet(i + 3) * 2^6 + sextet(i + 4)
    IN IF n % 4 # 0
       THEN NULL
       ELSE [j \in 1 .. (n \div 4) * 3 - padding |->
                (triple(j) \div 2^(8 * (2 - ((j - 1) % 3)))) % 256]

(* NULL, with the length unset, for text whose length is not a multiple of *)
(* four.  The text is not empty: the last two characters are looked at.    *)
base64_decode(text) ==
    LET n == Len(text)
        padding == Cardinality({i \in {n - 1, n} : text[i] = EQUALS})
        sextet(i) == IF text[i] = EQUALS THEN 0 ELSE decoding_table[text[i]]
        triple(j) == LET i == 4 * ((j - 1) \div 3)
                     IN sextet(i + 1) * 2^18 + sextet(i + 2) * 2^12
                        + sextet(i + 3) * 2^6 + sextet(i + 4)
    IN IF n % 4 # 0
       THEN NULL
       ELSE [j \in 1 .. (n \div 4) * 3 - padding |->
                (triple(j) \div 2^(8 * (2 - ((j - 1) % 3)))) % 256]

(* _pigeon_frame_to_file writes the text and a newline. *)
pigeon_frame_to_file(buffer) == Append(base64_encode(buffer), LF)

(* What fgets puts into the buffer of _pop_from_frames_file when `line' is  *)
(* next in the file: the buffer also has to hold a NUL.                    *)
fgets(line) ==
    IF Len(line) < READ_BUFFER_SIZE THEN line ELSE SubSeq(line, 1, READ_BUFFER_SIZE - 1)

(* One turn of the loop of _pop_from_frames_file: the newline is removed;  *)
(* text without one, of a line that was cut, ends the reading.             *)
line_to_frame(line, beyond) ==
    LET raw_buffer == fgets(line)
        decoded == base64_decode(Front(raw_buffer))
    IN IF Last(raw_buffer) # LF \/ decoded = NULL
       THEN NULL
       ELSE pigeon_frame_new(decoded, beyond)

-----------------------------------------------------------------------------
(***************************************************************************)
(* barcode_decoder.c.  zbarimg prints `QR-Code:', what it decoded and a    *)
(* newline; cut -d: -f2- prints each line from behind its first colon, or  *)
(* the whole line if it has none.  bar_code_read returns the output.       *)
(***************************************************************************)
zbarimg(payload) == <<COLON>> \o payload \o <<LF>>

LineStart(text, i) == Max({0} \cup {k \in 1 .. i - 1 : text[k] = LF}) + 1
LineEnd(text, i) == Min({k \in i .. Len(text) : text[k] = LF})

cut_second_field(text) ==
    LET colons(i) == {k \in LineStart(text, i) .. i : text[k] = COLON}
        any(i) == \E k \in LineStart(text, i) .. LineEnd(text, i) : text[k] = COLON
        kept == {i \in 1 .. Len(text) :
                   text[i] = LF \/ ~any(i) \/ (Cardinality(colons(i)) = 1
                                               /\ text[i] # COLON)}
    IN [n \in 1 .. Cardinality(kept) |->
           text[CHOOSE i \in kept : Cardinality({k \in kept : k =< i}) = n]]

cut_fields(text) ==
    LET first(i) == {k \in LineStart(text, i) .. LineEnd(text, i) : text[k] = COLON}
        kept == {i \in 1 .. Len(text) : first(i) = {} \/ i > Min(first(i))}
    IN [n \in 1 .. Cardinality(kept) |->
           text[CHOOSE i \in kept : Cardinality({k \in kept : k =< i}) = n]]

bar_code_read(payload) == cut_fields(zbarimg(payload))

-----------------------------------------------------------------------------
(***************************************************************************)
(* printer.c.  A QR code is a square of modules, code[i][j] being TRUE     *)
(* where it is black.                                                      *)
(***************************************************************************)

(* libqrencode: the smallest of versions 1 to 11 that holds `size' bytes   *)
(* at error correction level L, as the width of the square.                *)
QR_CAPACITY == <<17, 32, 53, 78, 106, 134, 154, 192, 230, 271, 321>>
QRcode_width(size) ==
    17 + 4 * Min({v \in DOMAIN QR_CAPACITY : QR_CAPACITY[v] >= size})

columns_in_bits(columns) == columns

RoundedColumns(columns) == (columns + 7) \div 8

(* What malloc is asked for: `width * (width + 7)/8', read as C reads it. *)
BitmapRoom(width) == (width * (width + 7)) \div 8

(* One bit per module, the leftmost in the highest bit of its byte; a byte *)
(* that is not full ends the row.                                          *)
make1bitBitmap(code) ==
    LET width == Len(code)
        rounded == RoundedColumns(width)
        column(b, bit) == 8 * ((b - 1) % rounded) + 7 - bit
        black(b) == {bit \in 0 .. 7 : /\ column(b, bit) < width
                                      /\ code[(b - 1) \div rounded + 1][column(b, bit) + 1]}
    IN [b \in 1 .. width * rounded |-> ByteOf(black(b))]

(* Bit i of the old byte is the bits i * scale .. i * scale + scale - 1 of *)
(* the new bytes, counted from the lowest bit of the last one.             *)
scale_from_first(oldByte, scale) ==
    [m \in 1 .. scale |->
        ByteOf({bit \in 0 .. 7 : Bit(oldByte, (8 * (m - 1) + bit) \div scale) = 1})]

scaleByte(oldByte, scale) ==
    [m \in 1 .. scale |->
        ByteOf({bit \in 0 .. 7 : Bit(oldByte, (8 * (scale - m) + bit) \div scale) = 1})]

FitsPaper(columns, scale) == scale * RoundedColumns(columns) =< ROW_BYTES

(* What is sent for row i, `scale' times: scale bytes for every one of     *)
(* ROW_BYTES columns of the bitmap, zeros behind its last one.  (For those *)
(* the code looks at input behind the row, or behind the bitmap, and       *)
(* scales it, but does not send it.)                                       *)
SentRow(bitmap, i, columns, scale) ==
    LET rounded == RoundedColumns(columns)
        sent(k, m) == IF k >= rounded THEN 0
                      ELSE scaleByte(bitmap[(i - 1) * rounded + k + 1], scale)[m]
    IN [b \in 1 .. ROW_BYTES * scale |-> sent((b - 1) \div scale, ((b - 1) % scale) + 1)]

(* The header announces ROW_BYTES bytes: these are the row on paper.  The  *)
(* rest of what is sent is zeros, and the printer ignores them.            *)
PrintedRow(bitmap, i, columns, scale) ==
    LET sent == SentRow(bitmap, i, columns, scale)
    IN [b \in 1 .. ROW_BYTES |-> sent[b]]

(* The rows on paper, none if the bitmap is too wide. *)
printBitmap(bitmap, rows, columns, scale) ==
    IF ~FitsPaper(columns, scale) THEN <<>>
    ELSE LET printed == [i \in 1 .. rows |-> PrintedRow(bitmap, i, columns, scale)]
         IN [r \in 1 .. rows * scale |-> printed[(r - 1) \div scale + 1]]

printer_printQRCode(code, scale) ==
    printBitmap(make1bitBitmap(code), Len(code), Len(code), scale)
=============================================================================
