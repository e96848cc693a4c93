-------------------------------- MODULE Texts --------------------------------
(***************************************************************************)
(* The parts of pigeond that take text apart or put it together: commands  *)
(* (command_server.c, command_runner.c), the two digits of the display     *)
(* (fsd_char.c, beagle_display.c) and the dump of a frame's data           *)
(* (pigeon_frame.c).                                                       *)
(*                                                                         *)
(* A character is an atom: " " stands for each delimiter of strtok_r,      *)
(* "0" in a datagram for the byte 0, and the words help and stop are       *)
(* characters of their own.                                                *)
(***************************************************************************)
EXTENDS Integers, Sequences, FiniteSetsExt, SequencesExt

CONSTANTS MaxTokens,        \* room for tokens (32)
          RECEIVE_LENGTH,   \* longest datagram received (255)
          RESPONSE_LENGTH,  \* room for the response (1452)
          HelpText,         \* length of the answer to help
          NotFoundText,     \* length of ": command not found\n"
          StopText,         \* length of the answer to stop
          ErrorText         \* length of "Error: response is too large\n"

ASSUME CommandAssumption ==
    /\ {MaxTokens, RECEIVE_LENGTH, RESPONSE_LENGTH} \subseteq Nat \ {0}
    /\ {HelpText, NotFoundText, StopText, ErrorText} \subseteq Nat \ {0}
    /\ HelpText < RESPONSE_LENGTH /\ StopText < RESPONSE_LENGTH
    /\ RECEIVE_LENGTH + NotFoundText < RESPONSE_LENGTH

NoToken == <<>>   \* the NULL behind the last token: a word is never empty

-----------------------------------------------------------------------------
(* command_server.c *)

(* recvfrom cuts the datagram at RECEIVE_LENGTH, the loop puts a zero      *)
(* behind it, and the C string ends at the first zero.                     *)
ReceiveBuffer(datagram) ==
    LET received == SubSeq(datagram, 1, Min({Len(datagram), RECEIVE_LENGTH}))
    IN SubSeq(received, 1,
              Min({i \in 1 .. Len(received) : received[i] = "0"} \cup {Len(received) + 1}) - 1)

Delimiter(c) == c = " "

(* The maximal runs of characters that are no delimiters, as <<first, last>>. *)
Words(text) ==
    {w \in (1 .. Len(text)) \X (1 .. Len(text)) :
        /\ w[1] =< w[2]
        /\ \A i \in w[1] .. w[2] : ~Delimiter(text[i])
        /\ w[1] = 1 \/ Delimiter(text[w[1] - 1])
        /\ w[2] = Len(text) \/ Delimiter(text[w[2] + 1])}

(* _get_tokens: the words in order and then none, or as many as there is   *)
(* room for.                                                               *)
tokens_with_leading_blank(text, buffer_size) ==
    <<SubSeq(text, 1, Min({i \in 1 .. Len(text) : Delimiter(text[i])}
                          \cup {Len(text) + 1}) - 1)>>

get_tokens(text, buffer_size) ==
    LET words == Words(text)
        nth(n) == CHOOSE w \in words : Cardinality({v \in words : v[1] =< w[1]}) = n
        strings == [n \in 1 .. Cardinality(words) |->
                       SubSeq(text, nth(n)[1], nth(n)[2])]
    IN IF Cardinality(words) < buffer_size
       THEN Append(strings, NoToken)
       ELSE SubSeq(strings, 1, buffer_size)

(* command_runner.c: the command's name selects what is run; without a     *)
(* name nothing is.                                                        *)
get_command_by_name(tokens) ==
    CASE tokens[1] = NoToken -> "none"
      [] tokens[1] = <<"help">> -> "help"
      [] tokens[1] = <<"stop">> -> "stop"
      [] OTHER -> "not_found"

(* The length the command's output would have; _command_respond_printf     *)
(* counts it whether it fitted or not.                                     *)
Output(command, tokens) ==
    CASE command = "none" -> 0
      [] command = "help" -> HelpText
      [] command = "stop" -> StopText
      [] command = "not_found" -> Len(tokens[1]) + NotFoundText

(* An answer that is too long is replaced by an error text.  vsnprintf     *)
(* keeps the last place of the buffer for a NUL: an answer of exactly its  *)
(* size is sent as if it fitted, with the NUL for its last character.      *)
command_runner_run(tokens) ==
    LET command == get_command_by_name(tokens)
        size == Output(command, tokens)
        too_large == size > RESPONSE_LENGTH
    IN [result |-> CASE too_large -> "RESPONSE_TOO_LARGE"
                     [] ~too_large /\ command = "stop" -> "SUCCESS_STOP"
                     [] OTHER -> "SUCCESS",
        out_size |-> Min({IF too_large THEN ErrorText ELSE size, RESPONSE_LENGTH}),
        whole |-> size < RESPONSE_LENGTH]

RunDatagram(datagram) ==
    command_runner_run(get_tokens(ReceiveBuffer(datagram), MaxTokens))

-----------------------------------------------------------------------------
(* beagle_display.c, fsd_char.c *)

SCREEN_SIZE == 2
SCREEN_BUFFER_SIZE == 3
SCREEN_MAX_VALUE == 99
Blank == -1       \* no segment lit: a space, or no character at all

(* snprintf with "%*d" and a width of SCREEN_SIZE: digits, blanks to the   *)
(* left; it writes at most SCREEN_BUFFER_SIZE - 1 characters and a zero.   *)
FormatNumber(value) ==
    LET digits == IF value < 10 THEN <<value>>
                  ELSE IF value < 100 THEN <<value \div 10, value % 10>>
                  ELSE <<value \div 100, (value \div 10) % 10, value % 10>>
        blanks == [i \in 1 .. Max({0, SCREEN_SIZE - Len(digits)}) |-> Blank]
        all == blanks \o digits
    IN SubSeq(all, 1, Min({Len(all), SCREEN_BUFFER_SIZE - 1}))

(* str_to_fsd_chars: the segments of each character up to the end of the   *)
(* string, nothing behind it, and nothing in the last place.  (Every       *)
(* character the program shows is in the font.)                            *)
str_to_fsd_chars(string, out_length) ==
    [i \in 1 .. out_length |->
        IF i =< Len(string) /\ i < out_length THEN string[i] ELSE Blank]

output_number_unlimited(value) ==
    str_to_fsd_chars(FormatNumber(value), SCREEN_BUFFER_SIZE)

beagle_display_set_output_number(value) ==
    str_to_fsd_chars(FormatNumber(Min({value, SCREEN_MAX_VALUE})), SCREEN_BUFFER_SIZE)

-----------------------------------------------------------------------------
(* pigeon_frame.c *)

(* A byte of a frame's data: printable, the end of a line, or neither.     *)
isprint(c) == c = "a"
eol_char(c) == c \in {"\r", "\n"}

find_short_string(data, offset) ==
    LET n == Len(data)
        at(i) == data[i + 1]
        stop == Min({n} \cup {i \in offset .. n - 1 : ~isprint(at(i)) /\ ~eol_char(at(i))})
    IN IF stop > offset THEN stop - 1 ELSE 0

(* _find_string: the last of the line ends that directly follow more than  *)
(* three characters from `offset' on, 0 if something else follows them.    *)
(* Places are counted from 0, as in the code.                              *)
find_string(data, offset) ==
    LET n == Len(data)
        at(i) == data[i + 1]
        stop == Min({n} \cup {i \in offset .. n - 1 :
                                 ~isprint(at(i)) /\ ~(i > offset + 3 /\ eol_char(at(i)))})
    IN IF stop > offset /\ eol_char(at(stop - 1)) THEN stop - 1 ELSE 0

(* pigeon_frame_print_data: the variables of its loop and, for every turn  *)
(* it made, what was printed: "<" before the byte, the byte, ">" behind    *)
(* it.  A string is looked for behind the end of the previous one.         *)
PrintStart == [i |-> 0, string_start |-> 0, string_end |-> 0, out |-> <<>>]

print_turn(data, at) ==
    LET value == data[at.i + 1]
        found == find_string(data, at.i)
        anew == at.i > at.string_end
        string_end == IF anew THEN found ELSE at.string_end
        string_start == IF ~anew THEN at.string_start ELSE IF found > 0 THEN at.i ELSE 0
        in_string == string_start # string_end /\ at.i \in string_start .. string_end
        shown == CASE ~in_string -> "number"
                   [] in_string /\ isprint(value) -> "char"
                   [] in_string /\ value = "\n" -> "blank"
                   [] OTHER -> "nothing"
    IN [i |-> at.i + 1, string_start |-> string_start, string_end |-> string_end,
        out |-> Append(at.out, [open |-> in_string /\ at.i = string_start,
                                shown |-> shown,
                                close |-> in_string /\ at.i = string_end])]
=============================================================================
