--------------------------- MODULE ServerMessages ---------------------------
(***************************************************************************)
(* The messages rocto sends: the writers (rocto/make_*.c), which compute a *)
(* length and fill a buffer, and send_message and send_bytes, which write  *)
(* that many bytes of it to a connection that takes a few at a time or     *)
(* goes away.  The other side cuts the stream into messages by their       *)
(* length and reads them (rocto/read_*.c, the client's half of them).      *)
(***************************************************************************)
EXTENDS WireBytes

CONSTANTS
    Messages,     \* what rocto may send
    MaxMessages   \* bound: messages on a connection

-----------------------------------------------------------------------------
(* Writing: type, length field and the bytes after it.                     *)

Total(lengths) == FoldLeft(LAMBDA a, b : a + b, 0, lengths)

MakeDataRow(m) ==
    [type |-> 68,
     length |-> Total([i \in DOMAIN m.values |-> Len(m.values[i]) + 4]) + 4 + 2,
     data |-> Counted([i \in DOMAIN m.values |-> Int32(Len(m.values[i])) \o m.values[i]])]

\* 18 bytes of each column have a fixed length.
MakeRowDescription(m) ==
    LET Column(c) == Str(c.name) \o Int32(c.table_id) \o Int16(c.column_id) \o Int32(c.data_type)
                         \o Int16(c.data_type_size) \o Int32(c.type_modifier) \o Int16(c.format_code)
    IN [type |-> 84,
        length |-> Total([i \in DOMAIN m.columns |-> Len(m.columns[i].name) + 1 + 18]) + 4 + 2,
        data |-> Counted([i \in DOMAIN m.columns |-> Column(m.columns[i])])]

\* Severity, code and message are the first arguments, 'N' and 'E' the types.
MakeErrorResponse(m) ==
    [type |-> IF m.notice THEN 78 ELSE 69,
     length |-> Total([i \in DOMAIN m.args |-> Len(m.args[i].value) + 2]) + 1 + 4,
     data |-> FlattenSeq([i \in DOMAIN m.args |-> <<m.args[i].type>> \o Str(m.args[i].value)]) \o <<0>>]

MakeCommandComplete(m) ==
    [type |-> 67, length |-> 4 + Len(m.tag) + 1, data |-> Str(m.tag)]

MakeParameterStatus(m) ==
    [type |-> 83, length |-> 4 + Len(m.name) + 1 + Len(m.value) + 1, data |-> Str(m.name) \o Str(m.value)]

MakeAuthenticationMD5Password(m) ==
    [type |-> 82, length |-> 4 + 4 + 4, data |-> Int32(5) \o m.salt]

MakeAuthenticationOk == [type |-> 82, length |-> 8, data |-> Int32(0)]

MakeReadyForQuery(m) == [type |-> 90, length |-> 4 + 1, data |-> <<m.status>>]

\* Its list of parameters is always empty.
MakeParameterDescription == [type |-> 116, length |-> 4 + 2, data |-> Int16(0)]

\* ParseComplete, BindComplete, CloseComplete, NoData, EmptyQueryResponse and
\* PortalSuspended have nothing but a type.
MakeSignal(m) == [type |-> m.type, length |-> 4, data |-> <<>>]

Make(m) ==
    CASE m.kind = "data_row" -> MakeDataRow(m)
      [] m.kind = "row_description" -> MakeRowDescription(m)
      [] m.kind = "error_response" -> MakeErrorResponse(m)
      [] m.kind = "command_complete" -> MakeCommandComplete(m)
      [] m.kind = "parameter_status" -> MakeParameterStatus(m)
      [] m.kind = "md5_password" -> MakeAuthenticationMD5Password(m)
      [] m.kind = "authentication_ok" -> MakeAuthenticationOk
      [] m.kind = "ready_for_query" -> MakeReadyForQuery(m)
      [] m.kind = "parameter_description" -> MakeParameterDescription
      [] m.kind = "signal" -> MakeSignal(m)

\* What send_message hands to send_bytes: length + 1 bytes of the structure.
Bytestream(m) ==
    LET made == Make(m)
    IN SubSeq(<<made.type>> \o Int32(made.length) \o made.data, 1, made.length + 1)

-----------------------------------------------------------------------------
(* Reading what follows the length field, on the client's side.            *)

RECURSIVE DataRowParms(_, _, _)
DataRowParms(m, i, n) ==
    IF n <= 0 THEN <<>>
    ELSE LET length == IntAt(m, i)
         IN <<SubSeq(m, i + 4, i + 3 + length)>> \o DataRowParms(m, i + 4 + length, n - 1)

ReadDataRow(m) == [kind |-> "data_row", values |-> DataRowParms(m, 3, ShortAt(m, 1))]

RECURSIVE RowDescriptionParms(_, _, _)
RowDescriptionParms(m, i, n) ==
    IF n <= 0 THEN <<>>
    ELSE LET at == Terminator(m, i) + 1
         IN <<[name |-> Text(m, i), table_id |-> IntAt(m, at), column_id |-> ShortAt(m, at + 4),
               data_type |-> IntAt(m, at + 6), data_type_size |-> ShortAt(m, at + 10),
               type_modifier |-> IntAt(m, at + 12), format_code |-> ShortAt(m, at + 16)]>>
            \o RowDescriptionParms(m, at + 18, n - 1)

ReadRowDescription(m) ==
    [kind |-> "row_description", columns |-> RowDescriptionParms(m, 3, ShortAt(m, 1))]

RECURSIVE ErrorArgs(_, _)
\* The byte that ends the message is counted as one more argument.
ErrorArgs(m, i) ==
    IF i > Len(m) THEN <<>>
    ELSE <<[type |-> m[i], value |-> Text(m, i + 1)]>> \o ErrorArgs(m, Terminator(m, i + 1) + 1)

ReadErrorResponse(type, m) ==
    [kind |-> "error_response", notice |-> type = 78, args |-> ErrorArgs(m, 1)]

ReadCommandComplete(m) == [kind |-> "command_complete", tag |-> Text(m, 1)]

\* read_parameter_status keeps the bytes; name and value are in them.
ReadParameterStatus(m) ==
    [kind |-> "parameter_status", name |-> Text(m, 1), value |-> Text(m, Terminator(m, 1) + 1)]

ReadAuthentication(m) ==
    IF IntAt(m, 1) = 0 THEN [kind |-> "authentication_ok"]
    ELSE [kind |-> "md5_password", salt |-> SubSeq(m, 5, 8)]

ReadReadyForQuery(m) == [kind |-> "ready_for_query", status |-> ByteAt(m, 1)]

ReadSignal(type) == [kind |-> "signal", type |-> type]

Receive(type, m) ==
    CASE type = 68 -> ReadDataRow(m)
      [] type = 84 -> ReadRowDescription(m)
      [] type \in {69, 78} -> ReadErrorResponse(type, m)
      [] type = 67 -> ReadCommandComplete(m)
      [] type = 83 -> ReadParameterStatus(m)
      [] type = 82 -> ReadAuthentication(m)
      [] type = 90 -> ReadReadyForQuery(m)
      [] type = 116 -> [kind |-> "parameter_description"]
      [] OTHER -> ReadSignal(type)

RECURSIVE Received(_)
\* The complete messages of a stream: one byte and the bytes its length counts.
Received(s) ==
    IF Len(s) < 5 \/ Len(s) < IntAt(s, 2) + 1 THEN <<>>
    ELSE LET length == IntAt(s, 2)
         IN <<Receive(s[1], SubSeq(s, 6, length + 1))>> \o Received(SubSeq(s, length + 2, Len(s)))

-----------------------------------------------------------------------------
(* send_bytes.                                                             *)

VARIABLES
    outbox,    \* messages sent so far
    buffer,    \* the bytes of the last one
    written,   \* written_so_far
    stream,    \* the bytes that reached the client
    broken     \* the connection is gone

sendVars == <<outbox, buffer, written, stream, broken>>

SendInit == outbox = <<>> /\ buffer = <<>> /\ written = 0 /\ stream = <<>> /\ broken = FALSE

\* The previous call has returned.
SendMessage(m) ==
    /\ ~broken /\ written = Len(buffer) /\ Len(outbox) < MaxMessages
    /\ outbox' = Append(outbox, m)
    /\ buffer' = Bytestream(m)
    /\ written' = 0
    /\ UNCHANGED <<stream, broken>>

\* Mutant: after a short write the buffer is sent from its start again.
SendAgain(n) ==
    /\ ~broken /\ n <= Len(buffer) - written
    /\ stream' = stream \o SubSeq(buffer, 1, n)
    /\ written' = written + n
    /\ UNCHANGED <<outbox, buffer, broken>>

\* send takes n bytes; with EINTR it takes none and is called again.  A TLS
\* connection takes all of them.
SendBytes(n) ==
    /\ ~broken /\ n <= Len(buffer) - written
    /\ stream' = stream \o SubSeq(buffer, written + 1, written + n)
    /\ written' = written + n
    /\ UNCHANGED <<outbox, buffer, broken>>

\* ECONNRESET or EPIPE: the rest of the message is given up.
SendFails ==
    /\ ~broken /\ written < Len(buffer)
    /\ broken' = TRUE
    /\ UNCHANGED <<outbox, buffer, written, stream>>

SendNext ==
    \/ \E m \in Messages : SendMessage(m)
    \/ \E n \in 1..Len(buffer) : SendBytes(n)
    \/ SendFails

-----------------------------------------------------------------------------
\* A message as the client's readers return it.
AsRead(m) ==
    IF m.kind = "error_response" THEN [m EXCEPT !.args = Append(@, [type |-> 0, value |-> <<>>])] ELSE m

\* However the connection splits the bytes, what the client has received is the
\* first of the messages sent, each with the contents it was made from, and all of
\* them once send_bytes has returned: the lengths the writers compute are those of
\* what they write, and no byte is skipped or sent twice.
Delivered ==
    LET got == Received(stream) IN
    /\ Len(got) <= Len(outbox)
    /\ \A i \in DOMAIN got : got[i] = AsRead(outbox[i])
    /\ written = Len(buffer) => Len(got) = Len(outbox)
=============================================================================
