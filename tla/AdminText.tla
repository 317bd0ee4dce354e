------------------------------ MODULE AdminText ------------------------------
(***************************************************************************)
(* The lines of the admin text protocol (src/admin/mod.rs): how a reply is *)
(* parsed and, as an external part, how gearmand lays one out.             *)
(*                                                                         *)
(* A line is a sequence of letters; a letter stands for a run of           *)
(* characters the parsers do not tell apart, so "OK" is one.  A parser     *)
(* yields the set of its result, or the empty set for AdminProtocolError.  *)
(* What a call returns is a sequence of rows, a row one of fields; a single *)
(* value is one row of one field.                                          *)
(***************************************************************************)
EXTENDS Naturals, Sequences, SequencesExt

TAB == "\t"  SP == " "  CR == "\r"  LF == "\n"
Dot == <<".">>
Colon == <<":">>
Zero == <<"0">>
True == <<"true">>  False == <<"false">>
Digits == {"0", "1", "2"}
NotUtf8 == "?"      \* stands for bytes that are not UTF-8
Lead == "<"  Trail == ">"   \* the two parts of a character of several bytes

Lists == {"status", "prioritystatus", "show jobs", "show unique jobs", "workers"}
Values == {"getpid", "verbose", "version"}
Acks == {"cancel job", "create function", "drop function", "maxqueue"}

-----------------------------------------------------------------------------
(* What read_line makes of the bytes of a line.                            *)

\* The text is UTF-8: nothing in it is not, and no character is cut in two.
IsUtf8(text) ==
    /\ NotUtf8 \notin ToSet(text)
    /\ \A i \in DOMAIN text : text[i] = Lead => i < Len(text) /\ text[i + 1] = Trail

\* The line's end, "\n" or "\r\n", goes.
Trimmed(text) ==
    LET last == SelectLastInSeq(text, LAMBDA x : x \notin {CR, LF})
    IN  SubSeq(text, 1, last)

-----------------------------------------------------------------------------
(* The parsers.                                                            *)

\* str::split: the pieces between the separators, empty ones included.
Fields(line, sep) ==
    LET ends == SetToSortSeq({i \in DOMAIN line : line[i] = sep} \cup {Len(line) + 1},
                             LAMBDA i, j : i < j)
        start(k) == IF k = 1 THEN 1 ELSE ends[k - 1] + 1
    IN  [k \in DOMAIN ends |-> SubSeq(line, start(k), ends[k] - 1)]

\* str::split_whitespace.
Words(line) == SelectSeq(Fields(ReplaceAll(line, TAB, SP), SP), LAMBDA w : w # <<>>)

\* str::trim_start.
TrimStart(line) ==
    LET first == SelectInSeq(line, LAMBDA x : x \notin {SP, TAB})
    IN  IF first = 0 THEN <<>> ELSE SubSeq(line, first, Len(line))

\* What parse::<u64>, u32 or i32 accepts; signs and widths are left out.
IsNumber(field) == field # <<>> /\ \A i \in DOMAIN field : field[i] \in Digits

\* A function and n counts: parse_status_line and parse_priority_status_line.
Counts(line, n) ==
    LET f == Fields(line, TAB)
    IN  IF Len(f) > n /\ \A i \in 2 .. n + 1 : IsNumber(f[i])
        THEN {SubSeq(f, 1, n + 1)} ELSE {}

\* parse_job_list_line: handle, retries and two flags.
JobLine(line) ==
    LET f == Fields(line, TAB)
    IN  IF Len(f) > 3 /\ IsNumber(f[2])
        THEN LET flag(i) == IF f[i] = Zero THEN False ELSE True
             IN  {<<f[1], f[2], flag(3), flag(4)>>}
        ELSE {}

\* Mutated form of UniqueJobLine: split at every tab.
UniqueJobLine_EachTab(line) ==
    LET f == Fields(line, TAB)
    IN  IF Len(f) = 1 THEN {f} ELSE {SubSeq(f, 1, 2)}

\* parse_unique_job_line: split at the first tab, if there is one.
UniqueJobLine(line) ==
    LET tab == SelectInSeq(line, LAMBDA x : x = TAB)
    IN  IF tab = 0 THEN {<<line>>}
        ELSE {<<SubSeq(line, 1, tab - 1), SubSeq(line, tab + 1, Len(line))>>}

\* parse_worker_line: the fourth word is the delimiter, and functions follow.
WorkerLine(line) ==
    LET w == Words(line)
    IN  IF Len(w) > 3 /\ IsNumber(w[1]) /\ w[4] = Colon
        THEN {SubSeq(w, 1, 3) \o SubSeq(w, 5, Len(w))} ELSE {}

\* The parser a call of a list maps over its lines.
Row(call, line) ==
    CASE call = "status" -> Counts(line, 3)
      [] call = "prioritystatus" -> Counts(line, 4)
      [] call = "show jobs" -> JobLine(line)
      [] call = "show unique jobs" -> UniqueJobLine(line)
      [] call = "workers" -> WorkerLine(line)

Outcome(type, value) == [type |-> type, value |-> value]
ProtocolError == Outcome("protocol_error", <<>>)

\* collect(): the rows, or an error if one line is malformed.
Table(call, lines) ==
    IF \E i \in DOMAIN lines : Row(call, lines[i]) = {}
    THEN ProtocolError
    ELSE Outcome("ok", [i \in DOMAIN lines |-> CHOOSE r \in Row(call, lines[i]) : TRUE])

\* parse_ack_line, and what the call makes of the value: acks ignore it, values
\* need it, and getpid reads it as a number.
Ack(call, line) ==
    LET rest == TrimStart(Tail(line))
        space == SelectInSeq(rest, LAMBDA x : x = SP)
    IN  IF line = <<>> \/ Head(line) \notin {"OK", "ERR"} THEN ProtocolError
        ELSE IF Head(line) = "ERR"
             THEN Outcome("server_error",
                          IF space = 0 THEN << <<rest, <<>> >> >>
                          ELSE << <<SubSeq(rest, 1, space - 1),
                                    SubSeq(rest, space + 1, Len(rest))>> >>)
        ELSE IF call \in Acks THEN Outcome("ok", <<>>)
        ELSE IF rest = <<>> \/ (call = "getpid" /\ ~IsNumber(rest)) THEN ProtocolError
        ELSE Outcome("ok", << <<rest>> >>)

-----------------------------------------------------------------------------
(* gearmand's layout of a reply (external; tests/admin_fake_server.rs and   *)
(* the comments of the parsers).                                           *)

Join(fields, sep) ==
    FlattenSeq([i \in DOMAIN fields |-> IF i = 1 THEN fields[1] ELSE <<sep>> \o fields[i]])

Flag(f) == IF f = False THEN Zero ELSE <<"1">>

RowText(call, row) ==
    CASE call = "workers" -> Join(SubSeq(row, 1, 3) \o <<Colon>> \o SubSeq(row, 4, Len(row)), SP)
      [] call = "show jobs" -> Join(<<row[1], row[2], Flag(row[3]), Flag(row[4])>>, TAB)
      [] OTHER -> Join(row, TAB)

\* The lines of an answer, without their ends. An answer is what the call should
\* return: a table, a value, nothing, or an error of a code and a text.
ReplyLines(call, answer) ==
    IF answer.type = "server_error"
    THEN << <<"ERR", SP>> \o Join(answer.value[1], SP) \o <<CR>> >>
    ELSE IF call \in Acks THEN << <<"OK", CR>> >>
    ELSE IF call \in Values THEN << <<"OK", SP>> \o answer.value[1][1] >>
    ELSE [i \in DOMAIN answer.value |-> RowText(call, answer.value[i])] \o <<Dot>>

Reply(call, answer) ==
    LET lines == ReplyLines(call, answer)
    IN  FlattenSeq([i \in DOMAIN lines |-> lines[i] \o <<LF>>])
=============================================================================
