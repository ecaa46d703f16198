---------------------------- MODULE RoctoSession ----------------------------
(***************************************************************************)
(* One rocto process after authentication: rocto_main_loop and the message *)
(* handlers, answering a client that may send at any time, without waiting *)
(* for answers, and may close the connection at any time.                  *)
(***************************************************************************)
EXTENDS InputText, Integers

CONSTANTS
    Text,         \* the SQL texts the client uses
    Name,         \* names of prepared statements and of portals
    Limit,        \* values of Execute's rows_to_return
    NumRows,      \* rows of a SELECT of kind "rows"
    LogLevel,     \* config->record_error_level, among the levels that answer
    MaxMessages,  \* bound: messages the client sends
    None          \* no text, no message

VARIABLES
    inbox,        \* messages sent by the client and not read yet
    sent,         \* how many messages the client has sent
    client,       \* the client's end of the connection
    pc,           \* where the process is
    sendReady,    \* send_ready_for_query
    req,          \* the message being handled, or handled last
    resp,         \* answers sent since req was read: for each statement of req, or for req,
                  \* the messages sent; ReadyForQuery left out
    ready,        \* ReadyForQuery has been sent since req was read
    text, index, eof,   \* input_buffer_combined, cur_input_index, eof_hit
    prepared, bound,    \* ^session(id,"prepared",name), ^session(id,"bound",name)
    results       \* what parse_line returned for each statement of req

input == <<text, index, eof>>
connection == <<inbox, sent, client>>
store == <<prepared, bound>>
run == <<input, results>>
vars == <<connection, pc, sendReady, req, resp, ready, input, store, results>>

LogLevels == {"WARNING", "ERROR", "FATAL"}

ASSUME SessionAssumption ==
    /\ \A t \in Text : IsText(t)
    /\ Limit \subseteq Int
    /\ NumRows \in Nat \ {0}
    /\ LogLevel \in LogLevels
    /\ MaxMessages \in Nat
    /\ None \notin Text

\* A Bind has parameters that are "wrong" for its statement, or give a text that
\* fits input_buffer_combined, or one that is as "long" as the buffer itself.  The
\* length of an "Unreadable" message is over MAX_STR_CONST or below that of its header.
Message ==
         [type : {"Query"}, text : Text]
    \cup [type : {"Parse"}, name : Name, text : Text]
    \cup [type : {"Bind"}, portal : Name, source : Name, parms : {"wrong", "short", "long"}]
    \cup [type : {"Describe"}, item : {"S", "P"}, name : Name]
    \cup [type : {"Execute"}, portal : Name, limit : Limit]
    \cup [type : {"Sync", "Terminate", "Malformed", "Unreadable"}]

\* What a portal holds: the text of its statement, with the parameters in place.
Portal == [text : Text, long : BOOLEAN]

\* Earlier Parse and Bind messages may have left anything in the store.
Init ==
    /\ inbox = <<>> /\ sent = 0 /\ client = "open"
    /\ pc = "select" /\ sendReady = TRUE
    /\ req = [type |-> "none"] /\ resp = <<>> /\ ready = FALSE
    /\ text = <<>> /\ index = 1 /\ eof = FALSE
    /\ prepared \in [Name -> Text \cup {None}]
    /\ bound \in [Name -> Portal \cup {None}]
    /\ results = <<>>

-----------------------------------------------------------------------------
(* The client.                                                             *)

ClientSend(m) ==
    /\ client = "open" /\ sent < MaxMessages
    /\ inbox' = Append(inbox, m)
    /\ sent' = sent + 1
    /\ UNCHANGED <<client, pc, sendReady, req, resp, ready, store, run>>

ClientClose ==
    /\ client = "open"
    /\ client' = "closed"
    /\ UNCHANGED <<inbox, sent, pc, sendReady, req, resp, ready, store, run>>

-----------------------------------------------------------------------------
(* rocto_main_loop.                                                        *)

\* Mutant: send_ready_for_query is not set again.
PollForgets ==
    /\ pc = "select"
    /\ pc' = IF inbox = <<>> /\ client = "open" /\ sendReady THEN "ready" ELSE "read"
    /\ UNCHANGED <<connection, sendReady, req, resp, ready, store, run>>

\* A closed connection is readable: select returns 1 and no ReadyForQuery is sent.
Poll ==
    /\ pc = "select"
    /\ pc' = IF inbox = <<>> /\ client = "open" /\ sendReady THEN "ready" ELSE "read"
    /\ sendReady' = TRUE
    /\ UNCHANGED <<connection, req, resp, ready, store, run>>

\* The client may have closed since select; then the send may fail.
SendReady ==
    /\ pc = "ready"
    /\ \/ pc' = "read" /\ ready' = TRUE
       \/ client = "closed" /\ pc' = "ended" /\ ready' = ready
    /\ UNCHANGED <<connection, sendReady, req, resp, store, run>>

ReadMessage ==
    /\ pc = "read" /\ inbox # <<>> /\ Head(inbox).type # "Unreadable"
    /\ req' = Head(inbox)
    /\ inbox' = Tail(inbox)
    /\ pc' = "handle" /\ resp' = <<>> /\ ready' = FALSE /\ results' = <<>>
    /\ UNCHANGED <<sent, client, sendReady, store, input>>

\* Mutant: octo_log only writes to the log.
LoggedQuietly(level) == <<>>

\* octo_log sends what it logs.
Logged(level) ==
    CASE level = "WARNING" /\ LogLevel = "WARNING" -> <<"Warning">>
      [] level = "ERROR" /\ LogLevel # "FATAL" -> <<"ErrorResponse">>
      [] OTHER -> <<>>

\* recv finds the connection closed, or reset and what was sent lost.
ReadClosed ==
    /\ client = "closed"
    /\ UNCHANGED <<inbox, req, resp, ready, results>>

\* read_bytes does not read a message of such a length.
ReadRefused ==
    /\ inbox # <<>> /\ Head(inbox).type = "Unreadable"
    /\ req' = Head(inbox)
    /\ inbox' = Tail(inbox)
    /\ resp' = <<Logged("WARNING")>> /\ ready' = FALSE /\ results' = <<>>

\* Mutant: a failed read does not leave the loop.
ReadFailsGoesOn ==
    /\ pc = "read"
    /\ ReadClosed \/ ReadRefused
    /\ pc' = "select"
    /\ UNCHANGED <<sent, client, sendReady, store, input>>

\* read_message returns NULL, and the loop is left without a ReadyForQuery.
ReadFails ==
    /\ pc = "read"
    /\ ReadClosed \/ ReadRefused
    /\ pc' = "ended"
    /\ UNCHANGED <<sent, client, sendReady, store, input>>

\* The handler for req returns with one more answer sent.
Answer(messages) ==
    /\ pc' = "select"
    /\ resp' = Append(resp, messages)
    /\ UNCHANGED <<connection, req, ready, run>>

\* A read_* function rejects the message.
Malformed ==
    /\ pc = "handle" /\ req.type = "Malformed"
    /\ Answer(<<"ErrorResponse">>)
    /\ UNCHANGED <<sendReady, store>>

\* Sync needs no action; Terminate only leaves the switch.
NoAction ==
    /\ pc = "handle" /\ req.type \in {"Sync", "Terminate"}
    /\ Answer(<<>>)
    /\ UNCHANGED <<sendReady, store>>

HandleParse ==
    /\ pc = "handle" /\ req.type = "Parse"
    /\ prepared' = [prepared EXCEPT ![req.name] = req.text]
    /\ Answer(<<"ParseComplete">>)
    /\ UNCHANGED <<sendReady, bound>>

\* An unknown statement, or parameters that do not fit it, leave the portal alone.
HandleBind ==
    /\ pc = "handle" /\ req.type = "Bind"
    /\ IF prepared[req.source] = None \/ req.parms = "wrong"
       THEN Answer(<<"ErrorResponse">>) /\ UNCHANGED bound
       ELSE /\ bound' = [bound EXCEPT ![req.portal] =
                           [text |-> prepared[req.source], long |-> req.parms = "long"]]
            /\ Answer(<<"BindComplete">>)
    /\ UNCHANGED <<sendReady, prepared>>

-----------------------------------------------------------------------------
(* Texts.  A handler copies the text into the input buffer and loops over  *)
(* its statements until eof_hit.                                           *)

\* Mutant: eof_hit is left as the last text set it.
LoadKeepsEof(t, loop) ==
    /\ text' = t /\ index' = 1 /\ eof' = eof
    /\ pc' = loop
    /\ UNCHANGED <<connection, sendReady, req, resp, ready, store, results>>

Load(t, loop) ==
    /\ text' = t /\ index' = 1 /\ eof' = FALSE
    /\ pc' = loop
    /\ UNCHANGED <<connection, sendReady, req, resp, ready, store, results>>

\* YDB_ERROR_CHECK on the undefined node: a FATAL error, sent and then fatal.
Die ==
    /\ pc' = "dead"
    /\ resp' = Append(resp, <<"ErrorResponse">>)
    /\ UNCHANGED <<connection, sendReady, req, ready, store, run>>

\* The text of a message that could be read fits input_buffer_combined.
HandleQuery ==
    /\ pc = "handle" /\ req.type = "Query"
    /\ IF req.text = <<>>
       THEN Answer(<<"EmptyQueryResponse">>) /\ UNCHANGED <<sendReady, store>>
       ELSE Load(req.text, "query")

HandleExecute ==
    /\ pc = "handle" /\ req.type = "Execute"
    /\ LET portal == bound[req.portal]
       IN  CASE portal = None -> Die
             [] portal # None /\ portal.long ->
                    Answer(<<"ErrorResponse">>) /\ sendReady' = FALSE /\ UNCHANGED store
             [] OTHER -> Load(portal.text, "execute")

HandleDescribe ==
    /\ pc = "handle" /\ req.type = "Describe"
    /\ LET t == CASE req.item = "S" -> prepared[req.name]
                  [] req.item = "P" /\ bound[req.name] # None -> bound[req.name].text
                  [] OTHER -> None
       IN  IF t = None THEN Die ELSE Load(t, "describe")

\* handle_query_response for a SELECT with rows; a limit of 0 or less means all.
RowsSent(limit) == IF limit <= 0 \/ limit > NumRows THEN NumRows ELSE limit

\* What run_query and its callback send for one statement.
RunQuery(result, limit) ==
    CASE result = "rows" -> <<"RowDescription">>
                            \o [r \in 1..RowsSent(limit) |-> "DataRow"]
                            \o <<"CommandComplete">>
      [] result = "norows" -> <<"RowDescription">>
      [] result = "set" -> <<"CommandComplete">>
      [] result = "show" -> <<"RowDescription", "DataRow", "CommandComplete">>
      [] result \in {"begin", "reject"} -> Logged("WARNING")
      [] result = "error" -> Logged("ERROR")
      [] result = "refused" -> Logged("WARNING") \o Logged("ERROR")
      [] OTHER -> <<>>

\* parms.data_sent after the statement.
DataSent(result) == result \in {"rows", "norows", "show"}

Failed(result) == result \in {"error", "refused", "silent"}

\* The parser has taken a statement; the loop goes on unless eof_hit.
Took(line, messages) ==
    /\ index' = line.index /\ eof' = line.eof
    /\ results' = Append(results, line.result)
    /\ resp' = Append(resp, messages)
    /\ pc' = IF line.eof THEN "select" ELSE pc
    /\ UNCHANGED <<connection, req, ready, text, store>>

QueryStatement ==
    /\ pc = "query"
    /\ \E line \in {ParseLine(text, index, eof)} :
           Took(line,
                RunQuery(line.result, 0)
                \o (IF Failed(line.result) THEN <<"ErrorResponse">> ELSE <<>>))
    /\ UNCHANGED sendReady

\* The error of the last statement is not sent by the handler.
ExecuteStatement ==
    /\ pc = "execute"
    /\ \E line \in {ParseLine(text, index, eof)} :
           /\ Took(line,
                   RunQuery(line.result, req.limit)
                   \o (IF Failed(line.result) /\ ~line.eof THEN <<"ErrorResponse">> ELSE <<>>)
                   \o (IF DataSent(line.result) THEN <<>> ELSE <<"EmptyQueryResponse">>))
           /\ sendReady' = (sendReady /\ ~line.eof)

\* The plan of a SELECT is generated, not run.
DescribeStatement ==
    /\ pc = "describe"
    /\ \E line \in {ParseLine(text, index, eof)} :
           Took(line,
                CASE Failed(line.result) -> RunQuery(line.result, 0) \o <<"ErrorResponse">>
                  [] line.result = "reject" -> Logged("WARNING") \o <<"ErrorResponse">>
                  [] line.result = "no_data" -> <<"NoData">>
                  [] OTHER -> <<"RowDescription">>)
    /\ UNCHANGED sendReady

-----------------------------------------------------------------------------
Server ==
    \/ Poll \/ SendReady \/ ReadMessage \/ ReadFails
    \/ Malformed \/ NoAction \/ HandleParse \/ HandleBind
    \/ HandleQuery \/ HandleExecute \/ HandleDescribe
    \/ QueryStatement \/ ExecuteStatement \/ DescribeStatement

Next == (\E m \in Message : ClientSend(m)) \/ ClientClose \/ Server

Spec == Init /\ [][Next]_vars

\* The process runs whenever it can; the client need not do anything.
FairSpec == Spec /\ WF_vars(Server)

-----------------------------------------------------------------------------
Count(s, S) == Cardinality({k \in DOMAIN s : s[k] \in S})

\* The loop of handle_query or handle_execute over text has ended.
TextDone == pc = "select" /\ results # <<>> /\ req.type \in {"Query", "Execute"}

\* A text whose statements are all accepted is run statement by statement, each
\* once and in order, whatever was handled before: the handlers share
\* input_buffer_combined, cur_input_index and eof_hit, and leave them anyhow.
RunsInOrder ==
    TextDone /\ NoEmptyStatement(text) /\ (\A k \in DOMAIN text : text[k] \notin Failing) =>
        /\ \A k \in DOMAIN text : text[k] \in Kind =>
               Place(text, k) \in DOMAIN results /\ results[Place(text, k)] = text[k]
        /\ Count(results, Accepted) = Count(text, Kind)

\* run_query could not run the statement, or took it and did nothing.
Unserved(result) ==
    Failed(result) \/ result = "reject" \/ (result = "begin" /\ req.type # "Describe")

\* What the client is not told.  handle_query and handle_execute take a rejected
\* SELECT, BEGIN and COMMIT for served: there is only a warning, which octo_log
\* sends at no other level than WARNING.  handle_execute leaves the last statement
\* to octo_log, which is not called for an UPDATE, and at level FATAL sends no errors.
Overlooked(k) ==
    \/ ~Failed(results[k]) /\ req.type # "Describe" /\ LogLevel # "WARNING"
    \/ /\ req.type = "Execute" /\ k = Len(results)
       /\ results[k] = "silent" \/ (Failed(results[k]) /\ LogLevel = "FATAL")

\* The answer to the k-th statement says that it was not served.
Told(k) ==
    \E j \in DOMAIN resp[k] :
        resp[k][j] = "ErrorResponse" \/ (resp[k][j] = "Warning" /\ ~Failed(results[k]))

\* Each statement that run_query could not run has an ErrorResponse among its own
\* answers, and each that it took and did not serve an ErrorResponse or a warning,
\* wherever in the text it is and whatever happened to the ones before it; the
\* statements that are overlooked are those named above, and no others.
FailuresReported ==
    pc = "select" /\ req.type \in {"Query", "Execute", "Describe"} =>
        \A k \in DOMAIN results :
            Unserved(results[k]) /\ ~Overlooked(k) => k \in DOMAIN resp /\ Told(k)

\* A client that has sent its messages and waits is sent ReadyForQuery: no order of
\* messages, and no failed statement, makes rocto_main_loop forget it.  Two things
\* are left out, for the code sends none then: an Execute comes last, without the
\* Sync that should follow it; a message could not be read, which ends the session.
ReadyComes ==
    (inbox = <<>> /\ client = "open" /\ req.type \notin {"Execute", "Unreadable"})
        ~> (ready \/ inbox # <<>> \/ client = "closed" \/ pc = "dead")

\* After the client has closed the connection, the process handles what it still
\* can read and ends.
SessionEnds == (client = "closed") ~> (pc \in {"ended", "dead"})
=============================================================================
