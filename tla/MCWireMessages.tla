-------------------------- MODULE MCWireMessages --------------------------
(* Instances of WireMessages, ServerMessages and BindParameters.  In one   *)
(* behaviour a client sends messages, the server does, or a client binds   *)
(* parameters.                                                             *)
EXTENDS WireMessages, ServerMessages, BindParameters

VARIABLE direction

Silent == type = "query" /\ message = <<>> /\ sent = None
Unbound == pieces = <<>> /\ bound = [parms |-> <<>>, formats |-> <<>>]

AllInit ==
    \/ direction = "frontend" /\ Init /\ SendInit /\ Unbound
    \/ direction = "backend" /\ Silent /\ SendInit /\ Unbound
    \/ direction = "bind" /\ Silent /\ SendInit /\ BindInit

AllNext ==
    /\ UNCHANGED direction
    /\ \/ direction = "frontend" /\ Next /\ UNCHANGED <<sendVars, bindVars>>
       \/ direction = "backend" /\ SendNext /\ UNCHANGED <<vars, bindVars>>
       \/ direction = "bind" /\ BindNext /\ UNCHANGED <<vars, sendVars>>

AllSpec == AllInit /\ [][AllNext]_<<vars, sendVars, bindVars, direction>>

-----------------------------------------------------------------------------
(* What a client sends.                                                    *)

\* Short messages of bytes that make counts negative, longer ones of others.
Lengths == ({0, 1} :> 13) @@ ({0, 1, 255} :> 10)

Strings == {<<>>, <<1>>, <<1, 1>>}
Types == {<<>>, <<<<0, 0, 0, 1>>>>, <<<<0, 0, 0, 1>>, <<0, 0, 0, 0>>>>}
CodeLists(n) == UNION {[1..k -> Codes] : k \in 0..n}
Values == {<<>>, <<0>>, <<1, 0>>, Null}

MessageFields ==
    [k \in Kinds |->
        CASE k \in {"query", "password"} -> [query : Strings]
          [] k \in {"describe", "close"} -> [item : Items, name : Strings]
          [] k = "execute" -> [source : Strings, rows : {<<0, 0, 0, 0>>, <<0, 0, 0, 1>>}]
          [] k = "parse" -> [dest : Strings, query : Strings, types : Types]
          [] k = "bind" ->
               {f \in [dest : Strings, source : Strings, formats : CodeLists(2),
                       parms : UNION {[1..n -> Values] : n \in 0..2}, results : CodeLists(2)] :
                   Len(f.formats) \in {0, 1, Len(f.parms)} /\ Len(f.formats) <= Len(f.parms)}
          [] k = "startup" ->
               [parms : UNION {[1..n -> (Strings \ {<<>>}) \X Strings] : n \in 0..2}]]

-----------------------------------------------------------------------------
(* What the server sends.                                                  *)

Names == {<<>>, <<1>>, <<1, 255>>}
RowValues == UNION {[1..n -> {<<>>, <<0, 1>>}] : n \in 0..2}
ColumnOf(name, size) ==
    [name |-> name, table_id |-> 258, column_id |-> 1, data_type |-> 65536, data_type_size |-> size,
     type_modifier |-> -1, format_code |-> 0]
Columns == UNION {[1..n -> {ColumnOf(<<1>>, -1), ColumnOf(<<>>, 4)}] : n \in 0..2}
Arg(code, value) == [type |-> code, value |-> value]
ErrorArguments == {<<Arg(83, <<1>>), Arg(67, <<1>>), Arg(77, text)>> \o more :
                       text \in Names, more \in {<<>>, <<Arg(68, <<1, 1>>)>>}}

ServerSends ==
    [kind : {"data_row"}, values : RowValues]
    \cup [kind : {"row_description"}, columns : Columns]
    \cup [kind : {"error_response"}, notice : BOOLEAN, args : ErrorArguments]
    \cup [kind : {"command_complete"}, tag : Names]
    \cup [kind : {"parameter_status"}, name : {<<1>>}, value : Names]
    \cup [kind : {"md5_password"}, salt : {<<0, 1, 0, 255>>}]
    \cup [kind : {"authentication_ok", "parameter_description"}]
    \cup [kind : {"ready_for_query"}, status : {73}]
    \cup [kind : {"signal"}, type : {49, 50, 51, 110, 73, 115}]

-----------------------------------------------------------------------------
(* What a client binds.                                                    *)

Uuid == [i \in 1..16 |-> 16 * i - 1]
Binary == {<<1>>, <<200>>, <<1, 2>>, <<200, 2>>, <<0, 1, 2, 3>>, Fill(255, 8), Uuid, <<1, 2, 3>>}
Bindings ==
    [parms : {<<v>> : v \in Binary \cup {<<>>}}, formats : {<<>>, <<0>>, <<1>>}]
    \cup [parms : {<<<<65>>, v>> : v \in Binary}, formats : {<<1>>, <<0, 1>>, <<1, 0>>}]
    \cup [parms : {[i \in 1..11 |-> <<64 + i>>]}, formats : {<<>>, <<1>>}]
=============================================================================
