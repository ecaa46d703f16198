---------------------------- MODULE WireMessages ----------------------------
(***************************************************************************)
(* The readers of the messages a client sends (rocto/read_*.c), on the     *)
(* bytes that follow the length field, against the formats of the          *)
(* PostgreSQL protocol that message_formats.h refers to.  The buffer a     *)
(* reader works on is longer than the message and zero beyond its end.     *)
(***************************************************************************)
EXTENDS WireBytes

CONSTANTS
    Bytes,    \* bytes a client sends
    MaxLen,   \* bound: the messages of bytes of S that are not written by
              \* Encode have at most MaxLen[S] bytes
    Items,    \* 'S' and 'P'
    Fields,   \* the contents of messages a client writes, by kind
    Null      \* the value of a parameter of a Bind message that is NULL

ASSUME WireAssumption ==
    /\ 0 \in Bytes /\ Items \subseteq Bytes \ {0}
    /\ MaxLen \in [DOMAIN MaxLen -> Nat]

Rejected == [rejected |-> TRUE]
Undefined == [undefined |-> TRUE]

Kinds == {"query", "password", "describe", "close", "execute", "parse", "bind", "startup"}

-----------------------------------------------------------------------------
(* What a message of each kind looks like.                                 *)

\* A parameter after its length, which is -1 for NULL.
EncodeParm(v) == IF v = Null THEN Int32(-1) ELSE Int32(Len(v)) \o v

EncodeBind(f) ==
    Str(f.dest) \o Str(f.source) \o Counted(f.formats) \o Int16(Len(f.parms))
        \o FlattenSeq([i \in DOMAIN f.parms |-> EncodeParm(f.parms[i])])
        \o Counted(f.results)

Encode(kind, f) ==
    CASE kind \in {"query", "password"} -> Str(f.query)
      [] kind \in {"describe", "close"} -> <<f.item>> \o Str(f.name)
      [] kind = "execute" -> Str(f.source) \o f.rows
      [] kind = "parse" -> Str(f.dest) \o Str(f.query) \o Counted(f.types)
      [] kind = "bind" -> EncodeBind(f)
      [] kind = "startup" -> FlattenSeq([i \in DOMAIN f.parms |-> Str(f.parms[i][1]) \o Str(f.parms[i][2])])
                                 \o <<0>>

-----------------------------------------------------------------------------
(* Reading.  m is the message, i a position in it, from 1.                 *)

Missing(m, i) == i > Len(m)       \* no terminator was found
Beyond(m, i) == i > Len(m) + 1    \* cur_pointer > last_byte

ReadQuery(m) ==
    LET end == Terminator(m, 1) IN
    IF Missing(m, end) \/ end < Len(m) THEN Rejected ELSE [query |-> Text(m, 1)]

\* The same steps, under another type.
ReadPassword(m) == ReadQuery(m)

\* The item, and a name that ends with the message.
ReadDescribe(m) ==
    LET end == Terminator(m, 2) IN
    IF m[1] \notin Items \/ Missing(m, end) \/ end < Len(m) THEN Rejected
    ELSE [item |-> m[1], name |-> Text(m, 2)]

ReadClose(m) == ReadDescribe(m)

\* Mutant: what follows the number of rows is ignored.
ReadExecuteLoose(m) ==
    LET rows == Terminator(m, 1) + 1 IN
    IF Missing(m, rows - 1) \/ Beyond(m, rows + 4) THEN Rejected
    ELSE [source |-> Text(m, 1), rows |-> SubSeq(m, rows, rows + 3)]

ReadExecute(m) ==
    LET rows == Terminator(m, 1) + 1 IN
    IF Missing(m, rows - 1) \/ Beyond(m, rows + 4) \/ rows + 4 # Len(m) + 1 THEN Rejected
    ELSE [source |-> Text(m, 1), rows |-> SubSeq(m, rows, rows + 3)]

ReadParse(m) ==
    LET query == Terminator(m, 1) + 1
        types == Terminator(m, query) + 1
        n == ShortAt(m, types)
        first == types + 2 IN
    IF Missing(m, query - 1) \/ query = Len(m) + 1 THEN Rejected
    ELSE IF Missing(m, types - 1) \/ types = Len(m) + 1 \/ n < 0 THEN Rejected
    ELSE IF first + 4 * n # Len(m) + 1 THEN Rejected
    ELSE [dest |-> Text(m, 1), query |-> Text(m, query), types |-> ItemsAt(m, first, n, 4)]

Codes == {<<0, 0>>, <<0, 1>>}

RECURSIVE BindParms(_, _, _)
\* n parameters from i: their values, and where they end; Rejected if they go
\* beyond the message.  A negative length, NULL among them, moves back; before the
\* message are other fields of the structure that holds it.
BindParms(m, i, n) ==
    IF n = 0 THEN [values |-> <<>>, end |-> i]
    ELSE LET len == IntAt(m, i)
             next == i + 4 + len
             value == IF len < 0 THEN Null ELSE SubSeq(m, i + 4, next - 1)
             rest == BindParms(m, next, n - 1) IN
         IF Beyond(m, i + 4) \/ Beyond(m, next) THEN Rejected
         ELSE IF next < 1 THEN Undefined
         ELSE IF rest \in {Rejected, Undefined} THEN rest
         ELSE [values |-> <<value>> \o rest.values, end |-> rest.end]

\* The result column formats are the rest of the message; bytes after them are
\* reported but accepted, and so is a message that ends before their number.
BindResults(m, f, parms) ==
    LET n == ShortAt(m, parms.end)
        results == ItemsAt(m, parms.end + 2, n, 2) IN
    IF n < 0 \/ (n > 0 /\ Beyond(m, parms.end + 2 + 2 * n)) THEN Rejected
    ELSE IF \E k \in 1..n : results[k] \notin Codes THEN Rejected
    ELSE [f EXCEPT !.parms = parms.values, !.results = results]

\* Mutant: one format code for any number of parameters is an error.
FormatsMatchStrict(n, parms) == n = parms \/ n = 0

\* No format code, one for all parameters, or one for each.
FormatsMatch(n, parms) == n <= parms /\ (n <= 1 \/ n = parms)

ReadBind(m) ==
    LET source == Terminator(m, 1) + 1
        nFormats == Terminator(m, source) + 1
        n == ShortAt(m, nFormats)
        nParms == nFormats + 2 + 2 * n
        formats == ItemsAt(m, nFormats + 2, n, 2)
        parms == ShortAt(m, nParms)
        read == BindParms(m, nParms + 2, parms) IN
    IF Missing(m, source - 1) THEN Rejected
    ELSE IF Missing(m, nFormats - 1) \/ n < 0 THEN Rejected
    ELSE IF Beyond(m, nFormats + 2) \/ Beyond(m, nParms) THEN Rejected
    ELSE IF \E k \in 1..n : formats[k] \notin Codes THEN Rejected
    ELSE IF parms < 0 \/ ~FormatsMatch(n, parms) \/ Beyond(m, nParms + 2) THEN Rejected
    ELSE IF read \in {Rejected, Undefined} THEN read
    ELSE BindResults(m, [dest |-> Text(m, 1), source |-> Text(m, source), formats |-> formats,
                         parms |-> <<>>, results |-> <<>>], read)

RECURSIVE StartupParms(_, _)
\* The first loop over names and values, and the second one.
StartupParms(m, i) ==
    IF Missing(m, i) THEN Rejected
    ELSE IF m[i] = 0 THEN (IF i = Len(m) THEN [parms |-> <<>>] ELSE Rejected)
    ELSE LET value == Terminator(m, i) + 1
             next == Terminator(m, value) + 1 IN
         IF Missing(m, value - 1) THEN Rejected
         ELSE IF Missing(m, next - 1) THEN Rejected
         ELSE LET rest == StartupParms(m, next) IN
              IF rest = Rejected THEN Rejected
              ELSE [parms |-> <<<<Text(m, i), Text(m, value)>>>> \o rest.parms]

ReadStartup(m) == StartupParms(m, 1)

Read(kind, m) ==
    CASE kind = "query" -> ReadQuery(m)
      [] kind = "password" -> ReadPassword(m)
      [] kind = "describe" -> ReadDescribe(m)
      [] kind = "close" -> ReadClose(m)
      [] kind = "execute" -> ReadExecute(m)
      [] kind = "parse" -> ReadParse(m)
      [] kind = "bind" -> ReadBind(m)
      [] kind = "startup" -> ReadStartup(m)

-----------------------------------------------------------------------------
(* A client sends bytes, or a message with the fields it wants.            *)

VARIABLES
    type,      \* the kind of the message
    message,   \* its bytes
    sent       \* the fields, if the client formatted them

vars == <<type, message, sent>>

None == [none |-> TRUE]

Init == type \in Kinds /\ message = <<>> /\ sent = None

SendByte(b) ==
    /\ sent = None
    /\ message' = Append(message, b)
    /\ \E S \in DOMAIN MaxLen : Range(message') \subseteq S /\ Len(message') <= MaxLen[S]
    /\ UNCHANGED <<type, sent>>

SendFields ==
    /\ message = <<>>
    /\ \E f \in Fields[type] : sent' = f /\ message' = Encode(type, f)
    /\ UNCHANGED type

Next == (\E b \in Bytes : SendByte(b)) \/ SendFields

Spec == Init /\ [][Next]_vars

-----------------------------------------------------------------------------
\* A parameter of a Bind message is NULL, or has another negative length: read_bind
\* then goes on before the end of this length, and not behind it.
HasNull(r) == "parms" \in DOMAIN r /\ Null \in Range(r.parms)

\* A message a client formats by the protocol, without NULL as a parameter, is
\* accepted and read as the fields it was made from.
Understood == sent # None /\ ~HasNull(sent) => Read(type, message) = sent

\* Bytes that a reader accepts, without a negative length of a parameter, are a message
\* of the protocol, made of the fields it returns: no field reaches beyond the end of
\* the message, nothing is skipped, nothing is left over.  (Bind alone accepts bytes
\* after its end, as its test test_input_too_long has it, and a message without the
\* last count.)
WellFormed ==
    message # <<>> =>
        LET r == Read(type, message) IN
        r \notin {Rejected, Undefined} /\ ~HasNull(r) =>
            IF type = "bind" THEN IsPrefix(Encode(type, r), message \o <<0, 0>>)
            ELSE Encode(type, r) = message
=============================================================================
