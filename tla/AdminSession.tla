---------------------------- MODULE AdminSession ----------------------------
(***************************************************************************)
(* A session of AdminClient (src/admin/mod.rs): one call at a time writes  *)
(* a line and reads the reply, one line or a list of lines up to a dot.    *)
(* Nothing in a reply says which call it answers, and a caller may drop    *)
(* the future of a call at any await.                                      *)
(*                                                                         *)
(* The server (external) answers line by line, and the connection may end  *)
(* anywhere.  Letters are read one at a time, however they arrive.         *)
(***************************************************************************)
EXTENDS AdminText

CONSTANTS
    Calls,      \* the calls made
    Answers,    \* [Calls -> what the server may have to say to each]
    MaxLine,    \* MAX_ADMIN_LINE_LEN, the line's end included
    MaxCalls    \* bound: calls in the session

Known == Lists \cup Values \cup Acks
Unknown == Outcome("server_error", << << <<"u">>, <<"t">> >> >>)   \* an unknown command
NoCall == "none"

\* A list with a row that reads "." cannot be told from a shorter one. A row may
\* begin with a dot.
ASSUME AdminAssumption ==
    /\ Calls \subseteq Known
    /\ MaxLine \in Nat \ {0} /\ MaxCalls \in Nat
    /\ \A c \in Calls : \A answer \in Answers[c] :
         LET lines == ReplyLines(c, answer)
         IN  /\ lines \in Seq(Seq(STRING))
             /\ \A i \in DOMAIN lines :
                   /\ LF \notin ToSet(lines[i])
                   /\ lines[i] # <<>>
                   /\ Trimmed(Append(lines[i], LF)) = Dot => i = Len(lines)
                   /\ i = Len(lines) /\ Head(lines[i]) = "." => lines[i] = Dot

VARIABLES
    pc,          \* "idle", "command", "newline" or "reading"
    call,        \* the call under way
    line,        \* the letters read_line has read
    lines,       \* the lines read_dot_terminated has read
    result,      \* of the last call: an outcome, and whether its last line had an end
    to_server, to_client,
    closed,      \* the server's end is gone
    calls,
    in_step,     \* history: no call was dropped half way, or ended inside its reply
    meant        \* history: the server's answer to the last line it read

client == <<pc, call, line, lines, result>>
stream == <<to_server, to_client, closed>>
vars == <<client, stream, calls, in_step, meant>>

-----------------------------------------------------------------------------
Init ==
    /\ pc = "idle" /\ call = NoCall
    /\ line = <<>> /\ lines = <<>>
    /\ result = [call |-> NoCall, outcome |-> Outcome("none", <<>>), whole |-> TRUE]
    /\ to_server = <<>> /\ to_client = <<>>
    /\ closed = FALSE
    /\ calls = 0
    /\ in_step = TRUE
    /\ meant = Outcome("none", <<>>)

\* The call returns, or its future is dropped.
Ends(outcome, whole) ==
    /\ pc' = "idle" /\ call' = NoCall
    /\ line' = <<>> /\ lines' = <<>>
    /\ result' = [call |-> call, outcome |-> outcome, whole |-> whole]

Fails(type) == Ends(Outcome(type, <<>>), TRUE)

-----------------------------------------------------------------------------
(* send_line: the command, then its CRLF, then a flush.                    *)

Begin(c) ==
    /\ pc = "idle" /\ calls < MaxCalls
    /\ pc' = "command" /\ call' = c
    /\ calls' = calls + 1
    /\ UNCHANGED <<line, lines, result, stream, in_step, meant>>

\* What is written to a closed stream is lost, if the write does not fail.
Writes(letters) == to_server' = IF closed THEN to_server ELSE to_server \o letters

WriteCommand ==
    /\ pc = "command"
    /\ pc' = "newline"
    /\ Writes(<<call>>)
    /\ UNCHANGED <<call, line, lines, result, to_client, closed, calls, in_step, meant>>

WriteNewline ==
    /\ pc = "newline"
    /\ pc' = "reading"
    /\ Writes(<<CR, LF>>)
    /\ UNCHANGED <<call, line, lines, result, to_client, closed, calls, in_step, meant>>

\* A write or a read fails.
IoFails ==
    /\ pc # "idle" /\ closed
    /\ Fails("io")
    /\ in_step' = FALSE
    /\ UNCHANGED <<stream, calls, meant>>

-----------------------------------------------------------------------------
(* read_line, read_dot_terminated and read_ack.                            *)

\* Mutated form of OverCap: a full line is not yet over the cap.
OverCap_More(text) == Len(text) > MaxLine

\* The cap is reached without a line's end.
OverCap(text) == Len(text) >= MaxLine

\* The letter is one more of the line.
ReadLetter ==
    /\ pc = "reading" /\ to_client # <<>> /\ Head(to_client) # LF
    /\ ~OverCap(Append(line, Head(to_client)))
    /\ line' = Append(line, Head(to_client))
    /\ to_client' = Tail(to_client)
    /\ UNCHANGED <<pc, call, lines, result, to_server, closed, calls, in_step, meant>>

\* The letter makes the line too long. take() stops there, if need be inside a
\* character, and the text is looked at first.
ReadTooMuch ==
    /\ pc = "reading" /\ to_client # <<>> /\ Head(to_client) # LF
    /\ LET text == Append(line, Head(to_client))
       IN  /\ OverCap(text)
           /\ Fails(IF IsUtf8(text) THEN "too_long" ELSE "io")
    /\ to_client' = Tail(to_client)
    /\ in_step' = FALSE
    /\ UNCHANGED <<to_server, closed, calls, meant>>

\* Mutated form of LineRead: a list ends with the first line that is malformed.
LineRead_Early(text, whole) ==
    /\ IF ~IsUtf8(text)
       THEN Fails("io") /\ in_step' = FALSE
       ELSE /\ IF call \notin Lists THEN Ends(Ack(call, Trimmed(text)), whole)
               ELSE IF Trimmed(text) = Dot THEN Ends(Table(call, lines), whole)
               ELSE IF Row(call, Trimmed(text)) = {} THEN Ends(ProtocolError, whole)
               ELSE /\ lines' = Append(lines, Trimmed(text)) /\ line' = <<>>
                    /\ UNCHANGED <<pc, call, result>>
            /\ UNCHANGED in_step

\* read_line returns: the reply, the end of a list, or one of its lines. Bytes
\* that are no UTF-8 fail the call, with the rest of a list unread.
LineRead(text, whole) ==
    IF ~IsUtf8(text)
    THEN Fails("io") /\ in_step' = FALSE
    ELSE /\ IF call \notin Lists THEN Ends(Ack(call, Trimmed(text)), whole)
            ELSE IF Trimmed(text) = Dot THEN Ends(Table(call, lines), whole)
            ELSE /\ lines' = Append(lines, Trimmed(text)) /\ line' = <<>>
                 /\ UNCHANGED <<pc, call, result>>
         /\ UNCHANGED in_step

ReadNewline ==
    /\ pc = "reading" /\ to_client # <<>> /\ Head(to_client) = LF
    /\ to_client' = Tail(to_client)
    /\ LineRead(Append(line, LF), TRUE)
    /\ UNCHANGED <<to_server, closed, calls, meant>>

\* Mutated forms of ReadEnd: the end of the stream ends a list, or is an empty
\* line, of which a list then reads one after the other.
ReadEnd_EndsList ==
    /\ pc = "reading" /\ to_client = <<>> /\ closed
    /\ IF line # <<>> THEN LineRead(line, FALSE)
       ELSE IF call \in Lists THEN Ends(Table(call, lines), FALSE) /\ UNCHANGED in_step
       ELSE Fails("closed") /\ UNCHANGED in_step
    /\ UNCHANGED <<stream, calls, meant>>

ReadEnd_Blank ==
    /\ pc = "reading" /\ to_client = <<>> /\ closed
    /\ call \notin Lists \/ line # <<>>
    /\ LineRead(line, FALSE)
    /\ UNCHANGED <<stream, calls, meant>>

\* The stream has ended: read_line returns what it has, as if it were a line.
ReadEnd ==
    /\ pc = "reading" /\ to_client = <<>> /\ closed
    /\ IF line = <<>> THEN Fails("closed") /\ UNCHANGED in_step
                      ELSE LineRead(line, FALSE)
    /\ UNCHANGED <<stream, calls, meant>>

\* The caller drops the future, and with it the lines read so far. A command of
\* which nothing is written yet leaves no trace.
Drop ==
    /\ pc # "idle"
    /\ Fails("dropped")
    /\ in_step' = (in_step /\ pc = "command")
    /\ UNCHANGED <<stream, calls, meant>>

-----------------------------------------------------------------------------
(* The server and the network (external).                                  *)

\* The server reads a line and answers it; what is no command it does not know.
Answer ==
    LET end == SelectInSeq(to_server, LAMBDA x : x = LF)
        asked == Trimmed(SubSeq(to_server, 1, end))
    IN  /\ ~closed /\ end > 0
        /\ to_server' = SubSeq(to_server, end + 1, Len(to_server))
        /\ IF Len(asked) = 1
           THEN \E answer \in Answers[asked[1]] :
                   meant' = answer /\ to_client' = to_client \o Reply(asked[1], answer)
           ELSE meant' = Unknown /\ to_client' = to_client \o Reply("getpid", Unknown)
        /\ UNCHANGED <<client, closed, calls, in_step>>

\* The connection ends; a tail of what the server wrote may be lost.
Close ==
    /\ ~closed
    /\ closed' = TRUE
    /\ to_server' = <<>>
    /\ \E n \in 0 .. Len(to_client) : to_client' = SubSeq(to_client, 1, n)
    /\ UNCHANGED <<client, calls, in_step, meant>>

-----------------------------------------------------------------------------
Reading == ReadLetter \/ ReadTooMuch \/ ReadNewline \/ ReadEnd

Next == \/ \E c \in Calls : Begin(c)
        \/ WriteCommand \/ WriteNewline \/ IoFails \/ Reading \/ Drop
        \/ Answer \/ Close

Spec == Init /\ [][Next]_vars

\* The caller polls its future and the server answers.
FairSpec == Spec /\ WF_vars(WriteCommand \/ WriteNewline \/ Reading) /\ WF_vars(Answer)

-----------------------------------------------------------------------------
(* Correctness.                                                            *)

OutcomeTypes == {"none", "ok", "server_error", "protocol_error", "too_long", "closed",
                 "io", "dropped"}

\* Every variable holds a value of its kind, no line outgrows the cap ("guarding
\* against a peer that withholds the terminating \n"), and nothing read is kept
\* from one call to the next.
TypeOK ==
    /\ pc \in {"idle", "command", "newline", "reading"}
    /\ call \in Calls \cup {NoCall} /\ (pc = "idle" <=> call = NoCall)
    /\ Len(line) < MaxLine
    /\ \A i \in DOMAIN lines : Len(lines[i]) < MaxLine
    /\ pc # "reading" => line = <<>> /\ lines = <<>>
    /\ result.call \in Calls \cup {NoCall} /\ result.outcome.type \in OutcomeTypes
    /\ calls \in 0 .. MaxCalls
    /\ {closed, in_step, result.whole} \subseteq BOOLEAN

\* As long as no call was dropped half way or gave up inside its reply, each
\* begins with a stream on which nothing is left: an ERR, a malformed row, or a
\* value that is none, costs no later call its answer.
InStep == in_step /\ pc \in {"idle", "command"} /\ ~closed => to_server = <<>> /\ to_client = <<>>

\* A row that gearmand's layout of the list can carry.
Legible(c, row) == c = "workers" => \A i \in DOMAIN row : SP \notin ToSet(row[i])

\* What read_line sees of a line, and why it may not get to its end.
Seen(text) == SubSeq(text, 1, Min({MaxLine, Len(text)}))
Bad(text) == Len(text) >= MaxLine \/ ~IsUtf8(Seen(text))
FirstBad(c, answer) == SelectInSeq(ReplyLines(c, answer), Bad)
Refused(text) == Outcome(IF IsUtf8(Seen(text)) THEN "too_long" ELSE "io", <<>>)

\* What the call c should return for an answer: by the first of its lines that
\* is too long or no UTF-8, by a row that cannot be told, or the answer itself.
Expected(c, answer) ==
    LET first == FirstBad(c, answer)
    IN  IF first # 0 THEN Refused(ReplyLines(c, answer)[first])
        ELSE IF c \in Lists /\ \E i \in DOMAIN answer.value : ~Legible(c, answer.value[i])
        THEN ProtocolError
        ELSE answer

Answered == {"ok", "server_error", "protocol_error", "too_long"}

\* A call in step returns what the server means by its reply: all rows of a
\* list, each field in its place, or the error the reply calls for, and that at
\* the cap and for every kind of call.
AnswersItsCall ==
    [][LET outcome == result'.outcome
       IN  pc # "idle" /\ pc' = "idle" /\ in_step /\ result'.whole /\ outcome.type \in Answered
           => outcome = Expected(call, meant)]_vars

\* The stream ended behind the dot that a row begins with: read_line returns it as
\* a line, and read_dot_terminated takes it for the end of the list.
CutAtDot(n) == /\ n < Len(ReplyLines(call, meant)) /\ Head(ReplyLines(call, meant)[n]) = "."
               /\ closed /\ Trimmed(line) = Dot

\* A list is returned with all its rows: the end of the stream passes for the end
\* of the list nowhere but behind a dot that begins a row, and then the rows before
\* that one are returned, and no other.
NoShortList ==
    [][pc # "idle" /\ pc' = "idle" /\ in_step /\ call \in Lists /\ result'.outcome.type = "ok"
       => \/ result'.outcome.value = meant.value
          \/ \E n \in DOMAIN ReplyLines(call, meant) :
                /\ CutAtDot(n) /\ ~result'.whole
                /\ result'.outcome.value = [i \in 1 .. n - 1 |-> meant.value[i]]]_vars

\* A call in step returns, if only because the stream ends: none waits for a
\* line, or a dot, that the reply does not have.
CallsReturn == pc # "idle" /\ in_step ~> pc = "idle"
=============================================================================
