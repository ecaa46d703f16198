--------------------------- MODULE BindParameters ---------------------------
(***************************************************************************)
(* handle_bind: the parameters of a Bind message take the place of $0, $1, *)
(* ... in the text of a prepared statement.  A text parameter is copied, a *)
(* binary one decoded by its length (copy_bind_parameter.c, deserialize.c).*)
(*                                                                         *)
(* An integer is its eight bytes, which determine the digits that snprintf *)
(* prints.  Statements are shorter than the MAX_STR_CONST bytes of their   *)
(* buffer.                                                                 *)
(***************************************************************************)
EXTENDS WireBytes

CONSTANTS
    ParameterLists,   \* the parameters a client binds, as bytes
    Numbers,          \* the numbers of placeholders
    Characters,       \* other characters of a statement
    MaxPieces         \* bound: characters and placeholders in a statement

Dollar == 36
Digits == 48..57

Failed == <<[failed |-> TRUE]>>

-----------------------------------------------------------------------------
(* Decoding.                                                               *)

Fill(b, n) == [i \in 1..n |-> b]
Extended(bin, b) == Fill(b, 8 - Len(bin)) \o bin

\* bin_to_char, whose char is signed.
BinToChar(bin) == Extended(bin, IF bin[1] < 128 THEN 0 ELSE 255)

\* bin_to_int16 and bin_to_int32: the unsigned results of ntohs and ntohl.
BinToInt(bin) == Extended(bin, 0)

Dash == 16

\* Two digits for a byte, 0 to 15, the high nibble first.
ByteToHex(b) == <<b \div 16, b % 16>>

\* The fields of a UUID, in digits.
UuidFields == <<8, 4, 4, 4, 12>>

\* bin_to_uuid: j digits and dashes are written, of i bytes.
BinToUuid(bin) ==
    LET Add(st, n) ==
            [i |-> st.i + (n \div 2),
             text |-> st.text \o (IF st.text = <<>> THEN <<>> ELSE <<Dash>>)
                          \o FlattenSeq([k \in 1..(n \div 2) |-> ByteToHex(bin[st.i + k])])]
    IN FoldLeft(Add, [i |-> 0, text |-> <<>>], UuidFields).text

CopyBinaryParameter(bin) ==
    CASE Len(bin) = 1 -> <<[int |-> BinToChar(bin)]>>
      [] Len(bin) \in {2, 4} -> <<[int |-> BinToInt(bin)]>>
      [] Len(bin) = 8 -> <<[int |-> bin]>>
      [] Len(bin) = 16 -> <<[uuid |-> BinToUuid(bin)]>>
      [] OTHER -> Failed

CopyTextParameter(value) == [i \in DOMAIN value |-> [char |-> value[i]]]

\* No format code means text, one is for all parameters.
FormatOf(bind, n) ==
    CASE Len(bind.formats) = 0 -> 0
      [] Len(bind.formats) = 1 -> bind.formats[1]
      [] OTHER -> bind.formats[n + 1]

Quoted(s) == <<[char |-> 34]>> \o s \o <<[char |-> 34]>>

\* The value of parameter n, numbered from 0.
CopyParameter(bind, n) ==
    IF n >= Len(bind.parms) THEN Failed
    ELSE LET value == IF FormatOf(bind, n) = 0 THEN CopyTextParameter(bind.parms[n + 1])
                      ELSE CopyBinaryParameter(bind.parms[n + 1])
         IN IF value = Failed THEN Failed ELSE Quoted(value)

-----------------------------------------------------------------------------
(* The scan over the statement.                                            *)

\* The position after the digits that start at i.
DigitsEnd(s, i) ==
    CHOOSE j \in i..(Len(s) + 1) :
        /\ j = Len(s) + 1 \/ s[j] \notin Digits
        /\ \A k \in i..(j - 1) : s[k] \in Digits

\* Mutant: a placeholder has one digit.
AtoiOne(s, i) == IF i <= Len(s) /\ s[i] \in Digits THEN s[i] - 48 ELSE 0

\* Without a digit, 0.
Atoi(s, i) == FoldLeft(LAMBDA n, d : 10 * n + d - 48, 0, SubSeq(s, i, DigitsEnd(s, i) - 1))

RECURSIVE HandleBind(_, _, _)
HandleBind(bind, s, i) ==
    IF i > Len(s) THEN <<>>
    ELSE LET value == IF s[i] = Dollar THEN CopyParameter(bind, Atoi(s, i + 1)) ELSE <<[char |-> s[i]]>>
             rest == HandleBind(bind, s, IF s[i] = Dollar THEN DigitsEnd(s, i + 1) ELSE i + 1)
         IN IF value = Failed \/ rest = Failed THEN Failed ELSE value \o rest

-----------------------------------------------------------------------------
(* A client prepares a statement and binds parameters.                     *)

VARIABLES
    pieces,   \* of the statement: characters and numbers of placeholders
    bound     \* the parameters and their formats

bindVars == <<pieces, bound>>

BindInit == pieces = <<>> /\ bound \in ParameterLists

\* A digit does not follow a placeholder.
AddCharacter(c) ==
    /\ Len(pieces) < MaxPieces
    /\ ~(pieces # <<>> /\ "parm" \in DOMAIN Last(pieces) /\ c \in Digits)
    /\ pieces' = Append(pieces, [char |-> c])
    /\ UNCHANGED bound

AddPlaceholder(n) ==
    /\ Len(pieces) < MaxPieces
    /\ pieces' = Append(pieces, [parm |-> n])
    /\ UNCHANGED bound

BindNext == (\E c \in Characters : AddCharacter(c)) \/ (\E n \in Numbers : AddPlaceholder(n))

-----------------------------------------------------------------------------
Decimal(n) == IF n < 10 THEN <<48 + n>> ELSE <<48 + (n \div 10), 48 + (n % 10)>>

Statement ==
    FlattenSeq([i \in DOMAIN pieces |->
        IF "char" \in DOMAIN pieces[i] THEN <<pieces[i].char>> ELSE <<Dollar>> \o Decimal(pieces[i].parm)])

\* What parameter n stands for: text, a number in two's complement, or a UUID
\* with dashes between the 4th and 5th, 6th and 7th, 8th and 9th, 10th and 11th
\* byte.
Meaning(n) ==
    LET value == bound.parms[n + 1]
        digits == [k \in 1..(2 * Len(value)) |-> ByteToHex(value[(k + 1) \div 2])[2 - (k % 2)]]
    IN IF FormatOf(bound, n) = 0 THEN [i \in DOMAIN value |-> [char |-> value[i]]]
       ELSE IF Len(value) = 16
       THEN <<[uuid |-> SubSeq(digits, 1, 8) \o <<Dash>> \o SubSeq(digits, 9, 12) \o <<Dash>>
                   \o SubSeq(digits, 13, 16) \o <<Dash>> \o SubSeq(digits, 17, 20) \o <<Dash>>
                   \o SubSeq(digits, 21, 32)]>>
       ELSE <<[int |-> Extended(value, IF value[1] < 128 THEN 0 ELSE 255)]>>

Placeholders == {pieces[i].parm : i \in {j \in DOMAIN pieces : "parm" \in DOMAIN pieces[j]}}

\* A value handle_bind can take: two or four bytes of a negative number are
\* decoded as an unsigned one, and other lengths are refused.
Supported(n) ==
    /\ n < Len(bound.parms)
    /\ FormatOf(bound, n) = 1 =>
         LET value == bound.parms[n + 1] IN
         \/ Len(value) \in {1, 8, 16}
         \/ Len(value) \in {2, 4} /\ value[1] < 128

\* A statement with supported parameters is bound to its own text with each
\* placeholder replaced by its parameter's value in quotes, every occurrence of it
\* and nothing else.
BoundAsSent ==
    (\A n \in Placeholders : Supported(n)) =>
        HandleBind(bound, Statement, 1) =
            FlattenSeq([i \in DOMAIN pieces |->
                IF "char" \in DOMAIN pieces[i] THEN <<pieces[i]>> ELSE Quoted(Meaning(pieces[i].parm))])
=============================================================================
