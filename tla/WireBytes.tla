----------------------------- MODULE WireBytes -----------------------------
(***************************************************************************)
(* Strings and integers of the PostgreSQL protocol as bytes in network     *)
(* order.  m is a message, i a position in it, from 1.                     *)
(***************************************************************************)
EXTENDS Integers, Sequences, SequencesExt

Str(s) == s \o <<0>>

\* htons and htonl.
Int16(n) == <<(n \div 256) % 256, n % 256>>
Int32(n) == Int16(n \div 65536) \o Int16(n % 65536)

Counted(s) == Int16(Len(s)) \o FlattenSeq(s)

\* Buffers are longer than their message and zero beyond its end.
ByteAt(m, i) == IF i <= Len(m) THEN m[i] ELSE 0

\* The position of the first NUL from i on, Len(m) + 1 if there is none.
Terminator(m, i) ==
    CHOOSE j \in i..(Len(m) + 1) :
        /\ j = Len(m) + 1 \/ m[j] = 0
        /\ \A k \in i..(j - 1) : m[k] # 0

Text(m, i) == SubSeq(m, i, Terminator(m, i) - 1)

\* ntohs, a signed short, and ntohl, a signed int.
ShortAt(m, i) ==
    LET n == 256 * ByteAt(m, i) + ByteAt(m, i + 1)
    IN IF n < 32768 THEN n ELSE n - 65536

IntAt(m, i) == 65536 * ShortAt(m, i) + 256 * ByteAt(m, i + 2) + ByteAt(m, i + 3)

\* n items of w bytes from i.
ItemsAt(m, i, n, w) == [k \in 1..n |-> SubSeq(m, i + (k - 1) * w, i + k * w - 1)]
=============================================================================
