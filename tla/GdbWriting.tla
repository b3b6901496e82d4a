----------------------------- MODULE GdbWriting -----------------------------
(***************************************************************************)
(* The other end of the pipe, as src/tests/test-gdbmi.cc and the comments  *)
(* of the parser show it: how GDB writes what the parser is to read.       *)
(***************************************************************************)
EXTENDS MIRecords

Num(n) == IF n = 0 THEN <<"0">> ELSE <<CHOOSE d \in DOMAIN Digits : Digits[d] = n>>
Flag(b) == IF b THEN <<"1">> ELSE <<"0">>
Of(w, v) == GDBMIResult(<<w>>, v)
Str(w, s) == Of(w, StringValue(s))
Opt(w, s) == IF s = <<>> THEN <<>> ELSE <<Str(w, s)>>
Tuple(w, c) == Of(w, TupleValue(c))
Values(w, Op(_), s) == Of(w, ListValue("values", Map(Op, s)))
Results(w, Op(_), s) == Of(w, ListValue("results", Map(Op, s)))
Written(results) == Commas(Map(PrintResult, results))
OneAfterTheOther(Op(_), S) == Map(Op, SetToSortSeq(S, LAMBDA a, b : a < b))

FrameResults(f) ==
    <<Str("level", Num(f.level)), Str("addr", f.address), Str("func", f.function)>>
    \o Opt("file", f.file) \o Opt("fullname", f.path)
    \o (IF f.line = 0 THEN <<>> ELSE <<Str("line", Num(f.line))>>) \o Opt("from", f.library)
WriteFrame(f) == Tuple("frame", FrameResults(f))

(* A main location, or one of several; asked is where it was asked for.    *)
LocationResults(b, number, sub) ==
    <<Str("number", number)>>
    \o (IF sub THEN <<>> ELSE <<Str("type", IF b.type = "watchpoint" THEN <<"hw", " ", "watchpoint">> ELSE <<b.type>>),
                                Str("disp", <<"keep">>)>>)
    \o <<Str("enabled", IF b.enabled THEN <<"y">> ELSE <<"n">>)>>
    \o Opt("addr", IF b.pending THEN <<"<", "PENDING", ">">> ELSE b.address)
    \o (IF b.pending THEN Opt("pending", b.function) ELSE Opt("func", b.function))
    \o Opt("what", b.expression) \o Opt("file", b.file) \o Opt("fullname", b.path)
    \o (IF b.line = 0 THEN <<>> ELSE <<Str("line", Num(b.line))>>)
    \o Opt("cond", b.condition)
    \o (IF sub THEN <<>> ELSE <<Str("times", Num(b.hits))>>)
    \o (IF b.ignore = 0 THEN <<>> ELSE <<Str("ignore", Num(b.ignore))>>)
    \o (IF b.file = <<>> THEN <<>> ELSE <<Str("original-location", b.file \o <<":">> \o Num(b.line))>>)
WriteBreakpoint(b) ==
    PrintResult(Tuple("bkpt", LocationResults(b, Num(b.number), FALSE)))
    \o FlattenSeq(Map(LAMBDA s : <<",">> \o PrintValue(TupleValue(
            LocationResults(s, Num(b.number) \o <<".">> \o Num(s.number), TRUE))), b.subs))

(* The text of a value with members.                                       *)
RECURSIVE MembersText(_)
MemberText(m) ==
    LET value == IF m.members = <<>> THEN m.value ELSE MembersText(m.members)
    IN  IF m.name = <<"#unnamed#">> THEN value
        ELSE IF value = <<>> THEN m.name
        ELSE m.name \o <<" ", "=", " ">> \o value
MembersText(ms) == <<"{">> \o FoldLeft(LAMBDA all, m : IF all = <<>> THEN MemberText(m)
                                                       ELSE all \o <<",", " ">> \o MemberText(m), <<>>, ms) \o <<"}">>
ValueOf(m) == IF m.members = <<>> THEN m.value ELSE MembersText(m.members) \o m.value

WriteVariable(v) ==
    <<Str("name", v.name), Str("numchild", Num(v.children)), Str("value", v.value), Str("type", v.type),
      Str("dynamic", Flag(v.dynamic)), Str("has_more", Flag(v.more))>>
ChangedResults(c) ==
    <<Str("name", c.name)>> \o Opt("value", c.value)
    \o <<Str("in_scope", IF c.scope THEN <<"true">> ELSE <<"false">>)>> \o Opt("type", c.type)
    \o <<Str("dynamic", Flag(c.dynamic)), Str("has_more", Flag(c.more))>>
WriteChange(c) ==
    TupleValue(ChangedResults(c.variable)
               \o (IF c.number = -1 THEN <<>> ELSE <<Str("new_num_children", Num(c.number))>>)
               \o (IF c.children = <<>> THEN <<>>
                   ELSE <<Values("new_children", LAMBDA n : TupleValue(ChangedResults(n)), c.children)>>))
WriteChild(c) ==
    Tuple("child", <<Str("name", c.internal), Str("exp", c.name), Str("numchild", Num(c.children)),
                     Str("value", c.value), Str("type", c.type)>>)
WriteInstr(a) ==
    TupleValue(<<Str("address", a.address), Str("func-name", a.function), Str("offset", a.offset),
                 Str("inst", a.instr)>>)
WriteArg(m) == TupleValue(<<Str("name", m.name), Str("value", ValueOf(m))>>)

(* The text of an answer, by what it is an answer to.                      *)
WriteAnswer(kind, d) ==
    CASE kind = "breakpoint" -> WriteBreakpoint(d)
      [] kind = "table" -> <<"BreakpointTable", "=", "{", "nr_rows", "=", Quote>> \o Num(Len(d)) \o <<Quote, ",",
                             "hdr", "=", "[", "{", "width", "=", Quote, "3", Quote, "}", "]", ",", "body", "=", "[">>
                           \o Commas(Map(WriteBreakpoint, d)) \o <<"]", "}">>
      [] kind = "threads" -> Written(<<Tuple("thread-ids", Map(LAMBDA n : Str("thread-id", Num(n)), d)),
                                       Str("current-thread-id", <<"1">>), Str("number-of-threads", Num(Len(d)))>>)
      [] kind = "thread" -> Written(<<Str("new-thread-id", Num(d.thread)), WriteFrame(d.frame)>>)
      [] kind = "files" -> Written(<<Of("files", ListValue("values", SetToSeq({
                              TupleValue(IF IsAbsolute(f) THEN <<Str("file", <<Absolute[f[1]]>>), Str("fullname", f)>>
                                         ELSE <<Str("file", f)>>) : f \in d})))>>)
      [] kind = "stack" -> Written(<<Results("stack", WriteFrame, d)>>)
      [] kind = "frame" -> PrintResult(WriteFrame(d))
      [] kind = "depth" -> Written(<<Str("depth", Num(d))>>)
      [] kind = "args" -> Written(<<Of("stack-args", ListValue("results", OneAfterTheOther(
                              LAMBDA l : Tuple("frame", <<Str("level", Num(l)), Values("args", WriteArg, d[l])>>),
                              DOMAIN d)))>>)
      [] kind = "locals" -> Written(<<Values("locals", WriteArg, d)>>)
      [] kind = "value" -> Written(<<Str("value", ValueOf(d))>>)
      [] kind = "registers" -> Written(<<Values("register-names", StringValue, d)>>)
      [] kind = "changed" -> Written(<<Values("changed-registers", LAMBDA n : StringValue(Num(n)), d)>>)
      [] kind = "values" -> Written(<<Of("register-values", ListValue("values", OneAfterTheOther(
                              LAMBDA r : TupleValue(<<Str("number", Num(r)), Str("value", d[r])>>), DOMAIN d)))>>)
      [] kind = "memory" -> Written(<<Str("addr", d.address), Str("nr-bytes", Num(Len(d.bytes))),
                              Values("memory", LAMBDA row : TupleValue(<<Str("addr", row.address),
                                                            Values("data", StringValue, row.bytes)>>), <<d>>)>>)
      [] kind = "asm" -> IF "line" \in DOMAIN d[1]
                         THEN Written(<<Results("asm_insns", LAMBDA l : Tuple("src_and_asm_line",
                                  <<Str("line", Num(l.line)), Str("file", l.file),
                                    Values("line_asm_insn", WriteInstr, l.instrs)>>), d)>>)
                         ELSE Written(<<Values("asm_insns", WriteInstr, d)>>)
      [] kind = "variable" -> Written(WriteVariable(d))
      [] kind = "deleted" -> Written(<<Str("ndeleted", Num(d))>>)
      [] kind = "children" -> Written(<<Str("numchild", Num(Len(d)))>>
                                      \o (IF d = <<>> THEN <<>>
                                          ELSE <<Str("displayhint", <<"array">>), Results("children", WriteChild, d)>>)
                                      \o <<Str("has_more", <<"0">>)>>)
      [] kind = "changes" -> Written(<<Values("changelist", WriteChange, d)>>)
      [] kind = "path" -> Written(<<Str("path_expr", d)>>)
      [] kind = "format" -> Written(<<Str("format", d.format)>> \o Opt("value", d.value))
      [] OTHER -> Written(<<Str("features", d)>>)

WriteResult(r) ==
    CASE r = NoResult -> <<>>
      [] r.kind = "error" -> <<"^", "error", ",">> \o Written(<<Str("msg", r.got[1].val)>>) \o <<"\n">>
      [] OTHER -> <<"^", r.kind>> \o FlattenSeq(Map(LAMBDA a : <<",">> \o WriteAnswer(a.kind, a.val), r.got)) \o <<"\n">>

WriteStream(s) ==
    IF s = NoStream THEN <<>>
    ELSE <<CHOOSE c \in DOMAIN Streams : Streams[c] = s.on>> \o PrintString(s.text) \o <<"\n">>
WriteAsync(a) ==
    CASE a.is = "none" -> <<>>
      [] a.is = "unknown" -> <<"=", "thread-created", ",">> \o Written(<<Str("id", <<"1">>)>>) \o <<"\n">>
      [] a.is = "running" ->
            <<"*", "running", ",">>
            \o Written(<<Str("thread-id", IF a.thread = -1 THEN <<"all">> ELSE Num(a.thread))>>) \o <<"\n">>
      [] a.is = "selected" -> <<"=", "thread-selected", ",">> \o Written(<<Str("id", Num(a.thread))>>) \o <<"\n">>
      [] a.is = "modified" -> <<"=", "breakpoint-modified", ",">> \o WriteBreakpoint(a.breakpoint) \o <<"\n">>
      [] a.is = "stopped" ->
            <<"*", "stopped", ",">>
            \o Written(<<Str("reason", <<a.reason>>)>>
                       \o (IF a.number = 0 THEN <<>> ELSE <<Str("bkptno", Num(a.number))>>)
                       \o Opt("signal-name", a.signal)
                       \o (IF a.frame = <<>> THEN <<>> ELSE <<WriteFrame(a.frame[1])>>)
                       \o <<Str("thread-id", Num(a.thread)), Values("stopped-threads", StringValue, <<<<"1">>>>)>>)
            \o <<"\n">>

Prompt == <<"(gdb)", "\n">>
WriteMessage(m) ==
    FlattenSeq(Map(LAMBDA r : WriteStream(r.stream) \o WriteAsync(r.async), m.records)) \o WriteResult(m.result) \o Prompt
=============================================================================
