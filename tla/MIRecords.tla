------------------------------ MODULE MIRecords ------------------------------
(***************************************************************************)
(* GDB's records as GDBMIParser reads them: breakpoints, the notifications *)
(* and streams that come out of band, and the answers to commands.         *)
(***************************************************************************)
EXTENDS MIAnswers

(***************************************************************************)
(* Breakpoints, with the locations behind them.                            *)
(***************************************************************************)
Absolute == [p \in {"/a.c"} |-> "a.c"]
Addresses == {"0xa", "0xb"}
RECURSIVE Attributes(_, _, _), Locations(_, _, _), BreakpointRows(_, _, _)

(* parse_attributes, and the loop of a stop: what is read up to the first  *)
(* thing that is no attribute.                                             *)
Attributes(t, i, got) ==
    LET attribute == ParseAttribute(t, i)
        all == Append(got, attribute.val)
    IN  IF ~Succeeds(attribute) THEN Parsed(attribute.at, got)
        ELSE IF UnitAt(t, attribute.at) = "," THEN Attributes(t, attribute.at + 1, all)
        ELSE Parsed(attribute.at, all)

(* A place is a file and a line; anything else is taken for a function.    *)
(* What was asked for counts, over what GDB made of it.                    *)
IsPlace(s) == Len(s) >= 2 /\ s[Len(s) - 1] = ":" /\ Last(s) \in DOMAIN Digits
FileOfPlace(s) == SubSeq(s, 1, Len(s) - 2)
IsAbsolute(s) == s # <<>> /\ s[1] \in DOMAIN Absolute

Breakpoint(c, sub) ==
    LET Attr(w) == ValueText(Field(c, w))
        asked == IF Attr("pending") # <<>> THEN Attr("pending") ELSE Attr("original-location")
        rooted == IsPlace(asked) /\ IsAbsolute(FileOfPlace(asked))
        number == Attr("number")
    IN  [number |-> IF sub /\ Len(number) > 2 THEN Atoi(<<number[3]>>) ELSE Atoi(number),
         pending |-> Attr("pending") # <<>>,
         enabled |-> Attr("enabled") = <<"y">>,
         address |-> IF Attr("addr") # <<>> /\ Head(Attr("addr")) \in Addresses THEN Attr("addr") ELSE <<>>,
         function |-> IF asked # <<>> /\ ~IsPlace(asked) THEN asked ELSE Attr("func"),
         expression |-> Attr("what"),
         file |-> IF rooted THEN <<Absolute[asked[1]]>> ELSE IF IsPlace(asked) THEN FileOfPlace(asked)
                  ELSE Attr("file"),
         path |-> IF rooted THEN FileOfPlace(asked) ELSE Attr("fullname"),
         line |-> IF IsPlace(asked) THEN Atoi(<<Last(asked)>>) ELSE Atoi(Attr("line")),
         condition |-> Attr("cond"),
         hits |-> Atoi(Attr("times")),
         ignore |-> Atoi(Attr("ignore")),
         initial |-> IF Attr("ignore") # <<>> THEN Atoi(Attr("ignore")) + Atoi(Attr("times")) ELSE 0,
         type |-> IF "breakpoint" \in Range(Attr("type")) THEN "breakpoint"
                  ELSE IF "watchpoint" \in Range(Attr("type")) THEN "watchpoint" ELSE "unspecified",
         subs |-> <<>>]

ParseBreakpointWithOneLoc(t, i, sub) ==
    LET all == Attributes(t, IF sub THEN i + 1 ELSE i + 3, <<>>)
        needed == {"number", "enabled"} \union (IF sub THEN {} ELSE {"type", "disp", "times"})
    IN  IF UnitAt(t, all.at) # "}" \/ \E w \in needed : ValueText(Field(all.val, w)) = <<>> THEN Failed(i)
        ELSE Parsed(all.at + 1, Breakpoint(all.val, sub))

(* Wrong variant: only the first of the locations is read.                *)
LocationsFirst(t, i, b) ==
    LET sub == ParseBreakpointWithOneLoc(t, i + 1, TRUE)
    IN  IF UnitAt(t, i) = "," /\ UnitAt(t, i + 1) = "{" /\ Succeeds(sub)
        THEN Parsed(sub.at, [b EXCEPT !.subs = <<sub.val>>])
        ELSE Parsed(i, b)

Locations(t, i, b) ==
    LET comma == SkipBlank(t, i)
        next == SkipBlank(t, comma + 1)
        sub == ParseBreakpointWithOneLoc(t, next, TRUE)
    IN  IF UnitAt(t, comma) # "," \/ UnitAt(t, next) \notin {"{", "end"} THEN Parsed(i, b)
        ELSE IF Succeeds(sub) THEN Locations(t, sub.at, [b EXCEPT !.subs = Append(@, sub.val)])
        ELSE Failed(i)

ParseBreakpoint(t, i) ==
    LET WithLocations(main) == IF Succeeds(main) THEN Locations(t, main.at, main.val) ELSE Failed(i)
    IN  IF Starts(t, i, <<"bkpt", "=", "{">>) THEN WithLocations(ParseBreakpointWithOneLoc(t, i, FALSE)) ELSE Failed(i)

BreakpointRows(t, i, got) ==
    LET Behind(row) ==
            IF ~Succeeds(row) THEN Failed(i)
            ELSE BreakpointRows(t, IF UnitAt(t, row.at) = "," THEN row.at + 1 ELSE row.at, Append(got, row.val))
    IN  IF Starts(t, i, <<"bkpt", "=", "{">>) THEN Behind(ParseBreakpoint(t, i)) ELSE Parsed(i, got)

(* The rows are looked for from the beginning of the buffer.               *)
ParseBreakpointTable(t, i) ==
    LET body == Min({k \in DOMAIN t : Starts(t, k, <<"body", "=", "[">>)} \union {Len(t)}) + 3
        rows == BreakpointRows(t, body, <<>>)
    IN  IF (rows.is = "ok" /\ rows.val = <<>> /\ UnitAt(t, body) # "]") \/ ~Succeeds(rows) THEN Failed(i)
        ELSE IF ~Starts(t, rows.at, <<"]", "}">>) THEN Failed(i)
        ELSE Parsed(rows.at + 2, rows.val)

(***************************************************************************)
(* Out of band records: a stream's text, and the notification behind it.   *)
(***************************************************************************)
RECURSIVE SkipSpace(_, _), OutOfBands(_, _, _), Answers(_, _, _)
SkipSpace(t, i) == IF UnitAt(t, i) \in {" ", "\n"} THEN SkipSpace(t, i + 1) ELSE i

Streams == [c \in {"~", "@", "&"} |-> CASE c = "~" -> "console" [] c = "@" -> "target" [] c = "&" -> "log"]
RemoveTrailingChars(s) ==
    IF Len(s) >= 2 /\ SubSeq(s, Len(s) - 1, Len(s)) = <<Escape, "n">> THEN Append(SubSeq(s, 1, Len(s) - 2), "\n") ELSE s
ParseStreamRecord(t, i) ==
    LET string == ParseCString(t, i + 1)
        at == SkipSpace(t, string.at)
        prompt == UnitAt(t, i) = "~" /\ UnitAt(t, at) = ">" /\ UnitAt(t, at + 1) \in {" ", "\n"}
    IN  IF ~Succeeds(string) \/ string.val = <<>> THEN Failed(i)
        ELSE Parsed(SkipSpace(t, IF prompt THEN at + 2 ELSE at),
                    [on |-> Streams[t[i]], text |-> RemoveTrailingChars(string.val)])

Reasons == {"breakpoint-hit", "watchpoint-trigger", "read-watchpoint-trigger", "function-finished",
            "location-reached", "watchpoint-scope", "end-stepping-range", "exited-signalled", "exited",
            "exited-normally", "signal-received"}
StrToStoppedReason(s) == IF s # <<>> /\ s[1] \in Reasons THEN s[1] ELSE "undefined"

Stopped(c) ==
    [is |-> "stopped", reason |-> StrToStoppedReason(TextOf(c, "reason")),
     frame |-> IF Field(c, "frame") = NoValue THEN <<>> ELSE <<Frame(Field(c, "frame").c)>>,
     number |-> IF TextOf(c, "wpnum") # <<>> THEN NumberOf(c, "wpnum") ELSE NumberOf(c, "bkptno"),
     thread |-> NumberOf(c, "thread-id"), signal |-> TextOf(c, "signal-name")]
ParseStoppedAsyncOutput(t, i) ==
    LET all == Attributes(t, i + 3, <<>>)
        end == EndOfLine(t, all.at)
    IN  IF Field(all.val, "frame").t \notin {"none", "tuple"} \/ UnitAt(t, end) # "\n" THEN Failed(i)
        ELSE Parsed(end + 1, Stopped(all.val))

ParseRunningAsyncOutput(t, i) ==
    LET thread == ParseAttribute(t, i + 3)
    IN  IF ~Succeeds(thread) \/ thread.val.n # <<"thread-id">> THEN Failed(i)
        ELSE Parsed(thread.at, [is |-> "running",
                                thread |-> IF thread.val.v.s = <<"all">> THEN -1 ELSE Atoi(thread.val.v.s)])

ParseThreadSelectedAsyncOutput(t, i) ==
    LET thread == ParseAttribute(t, i + 3)
    IN  IF ~Succeeds(thread) \/ thread.val.n \notin {<<"id">>, <<"thread-id">>} \/ Atoi(thread.val.v.s) = 0
        THEN Failed(i)
        ELSE Parsed(thread.at, [is |-> "selected", thread |-> Atoi(thread.val.v.s)])

ParseBreakpointModifiedAsyncOutput(t, i) ==
    LET Modified(b) == IF Succeeds(b) THEN Parsed(b.at, [is |-> "modified", breakpoint |-> b.val]) ELSE Failed(i)
    IN  Modified(ParseBreakpoint(t, i + 3))

NoStream == [on |-> "none", text |-> <<>>]
NoAsync == [is |-> "none"]

(* A notification nothing is known of is passed to the end of its line.    *)
AsyncAt(t, at) ==
    CASE Starts(t, at, <<"*", "stopped", ",">>) -> ParseStoppedAsyncOutput(t, at)
      [] Starts(t, at, <<"*", "running", ",">>) -> ParseRunningAsyncOutput(t, at)
      [] Starts(t, at, <<"=", "thread-selected", ",">>) -> ParseThreadSelectedAsyncOutput(t, at)
      [] Starts(t, at, <<"=", "breakpoint-modified", ",">>) -> ParseBreakpointModifiedAsyncOutput(t, at)
      [] UnitAt(t, at) \in {"=", "*"} -> Parsed(EndOfLine(t, at) + 1, NoAsync)
      [] OTHER -> Parsed(at, NoAsync)
ParseOutOfBandRecord(t, i) ==
    LET Both(stream, async) ==
            IF ~Succeeds(async) THEN Failed(i)
            ELSE Parsed(SkipSpace(t, async.at), [stream |-> stream.val, async |-> async.val])
        Behind(stream) == IF Succeeds(stream) THEN Both(stream, AsyncAt(t, stream.at)) ELSE Failed(i)
    IN  Behind(IF UnitAt(t, i) \in DOMAIN Streams THEN ParseStreamRecord(t, i) ELSE Parsed(i, NoStream))

OutOfBands(t, i, got) ==
    LET Behind(record) == IF Succeeds(record) THEN OutOfBands(t, record.at, Append(got, record.val)) ELSE Failed(i)
    IN  IF UnitAt(t, i) \in {"*", "=", "~", "@", "&"} THEN Behind(ParseOutOfBandRecord(t, i)) ELSE Parsed(i, got)

(***************************************************************************)
(* Result records.  What an answer holds is told by how it begins.         *)
(***************************************************************************)
AnswerPrefixes ==
    [breakpoint |-> <<"bkpt", "=", "{">>, table |-> <<"BreakpointTable", "=", "{">>,
     threads |-> <<"thread-ids", "=", "{">>, thread |-> <<"new-thread-id", "=", Quote>>,
     files |-> <<"files", "=", "[">>, stack |-> <<"stack", "=", "[">>, frame |-> <<"frame", "=", "{">>,
     depth |-> <<"depth", "=", Quote>>, args |-> <<"stack-args", "=", "[">>, locals |-> <<"locals", "=", "[">>,
     value |-> <<"value", "=", Quote>>, registers |-> <<"register-names", "=">>,
     changed |-> <<"changed-registers", "=">>, values |-> <<"register-values", "=">>,
     memory |-> <<"addr", "=">>, asm |-> <<"asm_insns", "=">>, variable |-> <<"name", "=", Quote>>,
     deleted |-> <<"ndeleted", "=", Quote>>, children |-> <<"numchild", "=", Quote>>,
     changes |-> <<"changelist", "=", "[">>, path |-> <<"path_expr", "=">>, format |-> <<"format", "=">>]
KindAt(t, i) ==
    LET kinds == {k \in DOMAIN AnswerPrefixes : Starts(t, i, AnswerPrefixes[k])}
    IN  IF kinds = {} THEN "unknown" ELSE CHOOSE k \in kinds : TRUE

AnswerAt(t, i) ==
    LET kind == KindAt(t, i)
    IN  CASE kind = "breakpoint" -> ParseBreakpoint(t, i)
          [] kind = "table" -> ParseBreakpointTable(t, i)
          [] kind = "threads" -> ParseThreadsList(t, i)
          [] kind = "thread" -> ParseNewThreadId(t, i)
          [] kind = "files" -> ParseFileList(t, i)
          [] kind = "stack" -> ParseCallStack(t, i)
          [] kind = "frame" -> ParseFrame(t, i)
          [] kind = "args" -> ParseStackArguments(t, i)
          [] kind = "locals" -> ParseLocalVarList(t, i)
          [] kind = "value" -> ParseVariableValue(t, i)
          [] kind = "registers" -> ParseRegisterNames(t, i)
          [] kind = "changed" -> ParseChangedRegisters(t, i)
          [] kind = "values" -> ParseRegisterValues(t, i)
          [] kind = "memory" -> ParseMemoryValues(t, i)
          [] kind = "asm" -> ParseAsmInstructionList(t, i)
          [] kind = "variable" -> ParseVariable(t, i)
          [] kind = "deleted" -> ParseVariablesDeleted(t, i)
          [] kind = "children" -> ParseVarListChildren(t, i)
          [] kind = "changes" -> ParseVarChangedList(t, i)
          [] kind = "path" -> ParseVarPathExpression(t, i)
          [] kind = "format" -> ParseVariableFormat(t, i)
          [] OTHER -> ParseResult(t, i)

(* The results of ^done.  One that is not understood ends them, without an *)
(* error; but files and a call stack fail the record.  What is unknown,    *)
(* the depth and a deletion of nothing are read and not kept.              *)
WithAnswer(t, i, got, kind, answer) ==
    LET at == IF Succeeds(answer) THEN answer.at ELSE i
        kept == Succeeds(answer) /\ kind \notin {"unknown", "depth"} /\ ~(kind = "deleted" /\ answer.val = 0)
        all == IF kept THEN Append(got, [kind |-> kind, val |-> answer.val]) ELSE got
    IN  IF answer.is = "thrown" \/ (kind = "depth" /\ ~Succeeds(answer)) THEN Threw(i)
        ELSE IF i > Len(t) \/ (kind \in {"files", "stack"} /\ ~Succeeds(answer)) THEN Failed(i)
        ELSE IF UnitAt(t, at) = "," THEN Answers(t, at + 1, all)
        ELSE Parsed(EndOfLine(t, at), all)
Answers(t, i, got) == WithAnswer(t, i, got, KindAt(t, i), AnswerAt(t, i))

Result(kind, got) == [kind |-> kind, got |-> got]
ParseResultRecord(t, i) ==
    LET kind == UnitAt(t, i + 1)
        error == ParseAttribute(t, IF UnitAt(t, i + 2) = "," THEN i + 3 ELSE i + 2)
        read == CASE kind = "done" /\ UnitAt(t, i + 2) = "," -> Answers(t, i + 3, <<>>)
                  [] kind = "done" -> Parsed(i + 2, <<>>)
                  [] kind \in {"running", "exit", "connected"} -> Parsed(EndOfLine(t, i + 2), <<>>)
                  [] kind = "error" /\ Succeeds(error) ->
                        Parsed(EndOfLine(t, error.at), <<[kind |-> "error", val |-> ValueText(error.val.v)]>>)
                  [] OTHER -> Failed(i)
    IN  IF ~Succeeds(read) THEN read
        ELSE IF UnitAt(t, read.at) \notin {"\n", "end"} THEN Failed(i)
        ELSE Parsed(read.at, Result(kind, read.val))

NoResult == Result("none", <<>>)
NoOutput == [records |-> <<>>, result |-> NoResult]

(* A result that is not understood is left where it is, for the next turn. *)
ParseOutputRecord(t, i) ==
    LET WithResult(records, result) ==
            LET behind == IF Succeeds(result) THEN result.at ELSE records.at
                prompt == SkipSpace(t, behind)
                end == IF UnitAt(t, prompt) = "(gdb)" THEN prompt + 1 ELSE prompt
            IN  IF result.is = "thrown" THEN result
                ELSE IF behind > Len(t) \/ end = i THEN Failed(i)
                ELSE Parsed(end, [records |-> records.val, result |-> IF Succeeds(result) THEN result.val ELSE NoResult])
        Behind(records) ==
            IF ~Succeeds(records) \/ records.at > Len(t) THEN Failed(i)
            ELSE WithResult(records, IF UnitAt(t, records.at) = "^" THEN ParseResultRecord(t, records.at)
                                     ELSE Failed(records.at))
    IN  Behind(OutOfBands(t, i, <<>>))
=============================================================================
