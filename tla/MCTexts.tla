------------------------------ MODULE MCTexts ------------------------------
(***************************************************************************)
(* What GDB may say in the runs: every kind of notification and of answer, *)
(* with its optional parts there and not, alone and one behind the other.  *)
(***************************************************************************)
EXTENDS EngineAnswers, CppReading

Main == [level |-> 0, address |-> <<"0xa">>, function |-> <<"main">>, file |-> <<"a.c">>, path |-> <<"/a.c">>,
         line |-> 3, library |-> <<>>]
Inner == [Main EXCEPT !.level = 1, !.function = <<"f">>, !.file = <<>>, !.path = <<>>, !.line = 0]
InLib == [Inner EXCEPT !.level = 2, !.library = <<"lib">>]

Plain == [number |-> 1, pending |-> FALSE, enabled |-> TRUE, address |-> <<"0xa">>, function |-> <<"f">>,
          expression |-> <<>>, file |-> <<"a.c">>, path |-> <<"/a.c">>, line |-> 3, condition |-> <<>>,
          hits |-> 0, ignore |-> 0, initial |-> 0, type |-> "breakpoint", subs |-> <<>>]
Hit == [Plain EXCEPT !.number = 2, !.enabled = FALSE, !.hits = 1, !.ignore = 2, !.initial = 3,
                     !.condition = <<"x", "=", "=", "{", Quote, "}", Quote>>]
Site == [Plain EXCEPT !.type = "unspecified", !.address = <<"0xb">>]
Several == [Plain EXCEPT !.subs = <<Site, [Site EXCEPT !.number = 2, !.enabled = FALSE]>>]
Watch == [Plain EXCEPT !.number = 3, !.type = "watchpoint", !.address = <<>>, !.function = <<>>, !.file = <<>>,
                       !.path = <<>>, !.line = 0, !.expression = <<"x">>]
Pending == [Watch EXCEPT !.type = "breakpoint", !.pending = TRUE, !.expression = <<>>, !.function = <<"A", ":", ":", "f">>]
SomeBreakpoints == {Plain, Hit, Several, Watch, Pending}

Leaf(n, v) == Member(<<n>>, v, <<>>)
Struct == Member(<<"s">>, <<>>, <<Leaf("a", <<"1">>), Leaf("b", <<"0xa", " ", "<", "f", "(", "int", ",", " ", "int", ")", ">">>)>>)
Nested == Member(<<"n">>, <<>>, <<Struct, Leaf("c", <<"3", " ", "'", "}", "'">>), Member(<<"u">>, <<>>, Struct.members)>>)
Text == Member(<<"t">>, <<>>, <<Leaf("p", <<"0xa", " ", Quote, "x", ",", " ", "}", Quote>>), Leaf("q", <<"2">>)>>)
Anonymous == Member(<<"u">>, <<>>, <<Member(<<"#unnamed#">>, <<>>, Struct.members), Leaf("c", <<"3">>)>>)
Pointer == Member(<<"f">>, <<" ", "0xa">>, <<Leaf("int", <<>>)>>)
SomeValues == {Leaf("i", <<"1">>), Leaf("e", <<>>), Struct, Nested, Text, Anonymous}
Unnamed(m) == [m EXCEPT !.name = <<>>]

Change == [name |-> <<"var1">>, value |-> <<"3">>, type |-> <<"int">>, scope |-> TRUE, dynamic |-> FALSE, more |-> FALSE]
VarObj(n) == [internal |-> <<n>>, name |-> <<"m">>, value |-> <<"1">>, type |-> <<>>, children |-> 2]
Asm(f, o) == [address |-> <<"0xa">>, function |-> f, offset |-> o, instr |-> <<"mov", " ", ",", "x">>]
Line(n, is) == [line |-> n, file |-> <<"a.c">>, instrs |-> is]

(* Strings with what GDB escapes in them.  Left out are those the parser   *)
(* reads past their end: a last backslash, and octal escapes alone.        *)
SomeStrings == {s \in UNION {[1 .. n -> {"x", " ", "{", ",", Quote, Escape, "e'"}] : n \in 1 .. 3} :
                    Last(s) # Escape /\ \E k \in DOMAIN s : s[k] # "e'"}

(* What an answer of a kind may hold.                                      *)
Data ==
    [breakpoint |-> SomeBreakpoints,
     table |-> {<<>>, <<Plain>>, <<Hit, Several, Watch>>},
     threads |-> {<<>>, <<1>>, <<2, 1>>},
     thread |-> {[thread |-> 2, frame |-> f] : f \in {Main, Inner}},
     files |-> {{<<"/a.c">>}, {<<"/a.c">>, <<"b.h">>}},
     stack |-> {<<Main>>, <<Main, Inner>>, <<Main, Inner, InLib>>},
     frame |-> {Main, Inner},
     depth |-> {0, 12},
     args |-> {[l \in {0} |-> <<v>>] : v \in SomeValues} \union {[l \in {0, 1} |-> IF l = 0 THEN <<>> ELSE <<Struct, Text>>]},
     locals |-> {<<>>, <<Leaf("i", <<"1">>)>>, <<Leaf("i", <<"1">>), Leaf("p", <<>>)>>},
     value |-> {Unnamed(v) : v \in SomeValues \union {Pointer}},
     registers |-> {<<<<"eax">>>>, <<<<"eax">>, <<>>, <<"ebx">>>>},
     changed |-> {<<>>, <<0>>, <<2, 12>>},
     values |-> {[r \in {0, 2} |-> IF r = 0 THEN <<"0xa">> ELSE <<"{", "x", "=", "1", "}">>]},
     memory |-> {[address |-> <<"0xa">>, bytes |-> b] : b \in {<<<<"0x61">>>>, <<<<"0x61">>, <<"0x0">>>>}},
     asm |-> {<<Asm(<<"f">>, <<"0">>)>>, <<Asm(<<>>, <<>>), Asm(<<"f">>, <<"2">>)>>,
              <<Line(3, <<Asm(<<"f">>, <<"0">>), Asm(<<"f">>, <<"2">>)>>), Line(1, <<>>)>>},
     variable |-> {[name |-> <<"var1">>, value |-> v, type |-> <<"int">>, children |-> 0, dynamic |-> d, more |-> d] :
                       v \in {<<"1">>, <<>>, <<"0xa", " ", Quote, "e'", Quote>>}, d \in BOOLEAN},
     deleted |-> {1, 12},
     children |-> {<<>>, <<VarObj("var1")>>, <<VarObj("var1"), VarObj("var2")>>},
     changes |-> {<<>>, <<[variable |-> Change, number |-> -1, children |-> <<>>]>>,
                  <<[variable |-> [Change EXCEPT !.scope = FALSE, !.value = <<>>], number |-> -1, children |-> <<>>],
                    [variable |-> [Change EXCEPT !.dynamic = TRUE, !.more = TRUE], number |-> 2,
                     children |-> <<[Change EXCEPT !.name = <<"var2">>], [Change EXCEPT !.name = <<"var3">>]>>]>>},
     path |-> SomeStrings,
     format |-> {[format |-> <<f>>, value |-> v] : f \in {"natural", "octal"}, v \in {<<>>, <<"1">>}},
     unknown |-> {<<>>, <<"x">>}]

Answer(k, d) == [kind |-> k, val |-> d]
One == UNION {{<<Answer(k, d)>> : d \in Data[k]} : k \in DOMAIN Data}
Alone == {"threads", "locals", "value", "files", "children", "variable", "memory", "format"}
Two == {<<Answer(k, CHOOSE d \in Data[k] : TRUE), b>> :
            k \in DOMAIN Data \ Alone, b \in {Answer("breakpoint", Plain), Answer("unknown", <<"x">>)}}

SomeAsyncs ==
    {NoAsync, [is |-> "unknown"]}
    \union {[is |-> "running", thread |-> n] : n \in {-1, 1}}
    \union {[is |-> "selected", thread |-> 2]}
    \union {[is |-> "modified", breakpoint |-> b] : b \in {Hit, Several}}
    \union {[is |-> "stopped", reason |-> r, frame |-> f, number |-> n, thread |-> 1,
             signal |-> IF r = "signal-received" THEN <<"SIGSEGV">> ELSE <<>>] :
                r \in {"breakpoint-hit", "exited", "signal-received"}, f \in {<<>>, <<Main>>}, n \in {0, 1}}
SomeStreams ==
    {NoStream} \union {[on |-> c, text |-> s] : c \in {"console", "target", "log"}, s \in {<<"x">>, <<"x", "\n">>, <<Quote, "x", Quote, "\n">>}}
Record(s, a) == [stream |-> s, async |-> a]
SomeRecords == {Record(s, a) : s \in SomeStreams, a \in SomeAsyncs} \ {Record(NoStream, NoAsync)}
Console == Record([on |-> "console", text |-> <<"x">>], NoAsync)
Unread == Record(NoStream, [is |-> "unknown"])

SomeResults ==
    {NoResult, Result("error", <<Answer("error", <<"x", " ", Quote, "y", Quote>>)>>)}
    \union {Result(k, <<>>) : k \in {"done", "running", "exit", "connected"}}
    \union {Result("done", <<Answer("stack", <<>>)>>), Result("done", <<Answer("files", {})>>)}

(* Records and answers, whoever asked; and the commands with what they are *)
(* answered, as -exec-... by ^running and most others by ^done.            *)
Said(rs, r) == [records |-> rs, result |-> r]
SomeMessages ==
    {Said(rs, Result("done", as)) : rs \in {<<>>, <<Unread, Console>>}, as \in One \union Two}
    \union {Said(rs, r) : rs \in {<<a>> : a \in SomeRecords} \union {<<Console, a>> : a \in SomeRecords}, r \in SomeResults}

Slots == BOOLEAN
Moves ==
    {DoContinue, Run, StepIn, StepOut, StepOver, StepOverAsm, StepInAsm, ContinueToPosition("a.c:3")}
    \union {ReRun(s) : s \in Slots} \union {JumpToPosition("a.c:3", s) : s \in Slots}
Others ==
    {LoadProgram(r, "a") : r \in BOOLEAN} \union {SetTtyPath("load-program"), AttachToRemoteTarget, AttachToTarget("12"), DetachFromTarget,
     DisconnectFromRemoteTarget, DisableBreakpoint("1"), SetIgnoreCount("1", 2), SetCondition("1", <<"x">>),
     SelectFrame(1), DeleteOnLine("a.c:3"), DeleteBreakpoint("1"), SetVariableFormat("v", "octal")}
    \union {EnableBreakpoint("1", s) : s \in Slots} \union {EnableCountpoint("1", y) : y \in BOOLEAN}
    \union {SetVariableVisualizer("v", "None", s) : s \in Slots}
Ask(kind) ==
    CASE kind = "breakpoint" ->
            {SetBreakpointAt("a.c:3", <<"x">>, n, s) : n \in {-1, 2}, s \in Slots}
            \union {SetBreakpointOnLine("a.c:3", <<>>, n) : n \in {-1, 0}}
            \union {SetBreakpointAtAddress("*0xa", <<>>, 0), SetBreakpointOnFunction("f", <<>>, 0, TRUE),
                    SetWatchpoint("x", TRUE, FALSE), SetCatch("fork")}
      [] kind = "table" -> {ListBreakpoints}
      [] kind = "threads" -> {ListThreads}
      [] kind = "thread" -> {SelectThread("2")}
      [] kind = "files" -> {ListFiles}
      [] kind = "stack" -> {ListFrames(l, 3, s) : l \in {-1, 0}, s \in Slots}
      [] kind = "frame" -> {DoContinue}
      [] kind = "depth" -> {Run}
      [] kind = "args" -> {ListFramesArguments(l, 3, s) : l \in {-1, 0}, s \in Slots}
      [] kind = "locals" -> {ListLocalVariables(s) : s \in Slots}
      [] kind = "value" ->
            {EvaluateExpression("x"), CallFunction("f"), PrintVariableValue("x"), GetVariableValue("v"),
             PrintPointedVariableValue("x"), DereferenceVariable("v", TRUE), SetRegisterValue("eax", "1"),
             SetMemory(1, <<"1">>)}
            \union {AssignVariable("v", "1", s) : s \in Slots} \union {EvaluateVariableExpr("v", s) : s \in Slots}
      [] kind = "registers" -> {ListRegisterNames}
      [] kind = "changed" -> {ListChangedRegisters}
      [] kind = "values" -> {ListAllRegisterValues, ListRegisterValues(<<"0">>)}
      [] kind = "memory" -> {ReadMemory("0xa", "2")}
      [] kind = "asm" -> {DisassembleRange("1", "2", "0", s) : s \in Slots}
                         \union {DisassembleLines("a.c", "3", n, "1", s) : n \in {0, 1}, s \in Slots}
      [] kind = "variable" -> {CreateVariable("x", s, t) : s \in Slots, t \in BOOLEAN}
      [] kind = "deleted" -> {DeleteVariable("v", s) : s \in Slots} \union {DeleteByName("var1", s) : s \in Slots}
      [] kind = "children" -> {UnfoldVariable("v", s, t) : s \in Slots, t \in BOOLEAN}
      [] kind = "changes" -> {ListChangedVariables("v", s) : s \in Slots}
      [] kind = "path" -> {QueryVariablePathExpr("v", s) : s \in Slots}
      [] kind = "format" -> {QueryVariableFormat("v", s) : s \in Slots}
      [] OTHER -> {GetTargetInfo}

Exchange(asked, said, known) == [asked |-> asked, said |-> said, known |-> known]
Asker(r) == IF r.kind = "done" /\ r.got # <<>> THEN Head(CHOOSE c \in Ask(Head(r.got).kind) : TRUE) ELSE Head(StepOver)
NoneKnown == [n \in {} |-> Plain]
Counted == [n \in {1} |-> [Plain EXCEPT !.type = "countpoint", !.initial = 3]]
Failure == Result("error", <<Answer("error", <<"x">>)>>)
Few(kind) == IF kind = "path" THEN {<<"x">>, <<"x", Quote, ",">>} ELSE Data[kind]

(* Commands of the console: GDB repeats them, and answers in words.         *)
Says(s) == Record([on |-> "console", text |-> Append(s, "\n")], NoAsync)
Repeated(s) == Record([on |-> "log", text |-> Append(s, "\n")], NoAsync)
Process == Says(<<"process", " ", "12">>)
Program == Says(<<"exe", " ", "=", " ", "'", "/a.c", "'">>)
Declared(t, n) == Says(<<t, " ", n, ";">>)
FileLine(f) == Says(<<"File", " ", f, ":">>)
Spoken(asked, lines) == Exchange(asked, Said(<<Repeated(asked.text)>> \o lines, Result("done", <<>>)), NoneKnown)
Conversations ==
    {Spoken(c, lines) : c \in {Head(GetTargetInfo), AttachToTarget("12")[2]},
                        lines \in {<<Process>>, <<Process, Says(<<"cwd">>), Program>>, <<Program, Process>>}}
    \union {Spoken(c[1], lines) : c \in {PrintVariableType("x"), GetVariableType("v")},
                                  lines \in {<<Says(<<"type", " ", "=", " ", "int">>)>>,
                                            <<Says(<<"type", " ", "=", " ", "struct", " ", "{">>), Says(<<"int", ";">>), Says(<<"}">>)>>}}
    \union {Spoken(Head(ListGlobalVariables), lines) :
              lines \in {<<Says(<<"All">>), FileLine("a.c"), Declared("int", "x"), Declared("int", "y"),
                          FileLine("b.h"), Declared("int", "x"), Declared("int", "z"), Says(<<"Non-debugging">>)>>,
                        <<FileLine("a.c"), Declared("int", "x"), Says(<<"Non-debugging">>)>>}}

MCExchanges ==
    Conversations \union
    {Exchange(Asker(m.result), m, NoneKnown) : m \in SomeMessages}
    \union {Exchange(Head(c), Said(<<>>, r), NoneKnown) : c \in Moves, r \in {Result("running", <<>>), Failure}}
    \union {Exchange(c[k], Said(<<>>, r), known) : c \in Others, k \in {1}, r \in {Result("done", <<>>), Failure},
                                                 known \in {NoneKnown, Counted}}
    \union UNION {{Exchange(c[1], Said(<<>>, r), known) :
                      c \in Ask(kind), known \in {NoneKnown, Counted},
                      r \in {Failure} \union {Result("done", <<Answer(kind, d)>>) : d \in Few(kind)}} :
                  kind \in DOMAIN Data \ {"unknown"}}

(***************************************************************************)
(* C++: every pair of operators, grouped either way, and the names, types  *)
(* and declarators the parser takes.                                       *)
(***************************************************************************)
Name(w) == UnqualifiedID(<<w>>)
Number(w) == LiteralPrimaryExpr(Token("integer", <<w>>))
Within(n) == QualifiedIDExpr(<<QName(<<Name("s")>>)>>, n)
SimpleType(name) == SimpleTypeSpec(<<>>, UnqualifiedID(name))
Cast(types, e) == CStyleCastExpr(TypeID(types), e)

(* The operators of C++, from those that bind tightest; "!=" is left out,   *)
(* for "!" is never scanned.                                               *)
Precedences ==
    <<{<<".", "*">>, <<"-", ">", "*">>}, {<<"*">>, <<"/">>, <<"%">>}, {<<"+">>, <<"-">>}, {<<"<", "<">>, <<">", ">">>},
      {<<"<">>, <<"<", "=">>, <<">">>, <<">", "=">>}, {<<"=", "=">>}, {<<"&">>}, {<<"^">>}, {<<"|">>}, {<<"&", "&">>}, {<<"|", "|">>}>>
Used == UNION {{<<l, op>> : op \in Precedences[l]} : l \in 1 .. 11}
BinaryExpr(level, l, op, r) ==
    CASE level = 1 -> PMExpr(l, op, r) [] level = 2 -> MultExpr(l, op, r) [] level = 3 -> AddExpr(l, op, r)
      [] level = 4 -> ShiftExpr(l, op, r) [] level = 5 -> RelExpr(l, op, r) [] level = 6 -> EqExpr(l, op, r)
      [] level = 7 -> AndExpr(l, r) [] level = 8 -> XORExpr(l, r) [] level = 9 -> ORExpr(l, r)
      [] level = 10 -> LogAndExpr(l, r) [] level = 11 -> LogOrExpr(l, r)
Grouped(p, o, q, n, r) ==
    (IF o[1] <= n[1] THEN {BinaryExpr(n[1], BinaryExpr(o[1], p, o[2], q), n[2], r)} ELSE {})
    \union (IF n[1] < o[1] THEN {BinaryExpr(o[1], p, o[2], BinaryExpr(n[1], q, n[2], r))} ELSE {})
(* "a<b>1" is a template to C++ too; a template before ">" or "=" is       *)
(* written without the blank that tells the two signs apart.               *)
Mistaken(p, o, n) ==
    \/ p.of # "LiteralPrimaryExpr" /\ o[2] = <<"<">> /\ n[2] = <<">">>
    \/ p.of = "TemplateID" /\ Head(o[2]) \in {">", "="}
PairsOf(p, q, r) == UNION {Grouped(p, on[1], q, on[2], r) : on \in {on \in Used \X Used : ~Mistaken(p, on[1], on[2])}}

Sum == AddExpr(Name("a"), <<"+">>, Number("1"))
More == RelExpr(Name("a"), <<">">>, Name("b"))
Choice == CondExpr(Name("a"), FullAssignExpr(Name("b"), <<"=">>, Number("1")), FullAssignExpr(Within(Name("c")), <<"+", "=">>, Sum))
Templates ==
    {TemplateID(<<"X">>, args) :
        args \in {<<Number("1")>>, <<Name("int"), Within(Name("a"))>>, <<Sum>>, <<Choice>>, <<ParenthesisPrimaryExpr(More)>>,
                  <<RelExpr(Number("1"), <<"<">>, Name("b"))>>, <<TemplateID(<<"Y">>, <<Number("2")>>), Cast(<<SimpleType(<<"int">>)>>, Name("a"))>>}}
SomeExprs ==
    PairsOf(Number("1"), Name("a"), Within(Name("b")))
    \union PairsOf(Name("a"), ParenthesisPrimaryExpr(Sum), Cast(<<CVTypeSpec("const"), SimpleType(<<"int">>)>>, Number("2")))
    \union PairsOf(TemplateID(<<"X">>, <<Sum>>), Number("1"), ParenthesisPrimaryExpr(More))
    \union {Choice, Expr(<<Name("a"), Choice, Number("1")>>), CondExpr(More, Expr(<<Name("a"), Name("b")>>), Choice)}
    \union {FullAssignExpr(Name("a"), op, FullAssignExpr(Name("b"), op, e)) : op \in AssignOperators, e \in {Sum, Choice}}
    \union Templates \union {Within(n) : n \in Templates \union {DestructorID(Name("s"))}}
    \union {AddExpr(Within(n), <<"-">>, n) : n \in Templates}

SomeTypes ==
    {SimpleType(<<"int">>), SimpleType(<<"foo">>), SimpleTypeSpec(<<QName(<<Name("s"), Name("r")>>)>>, Name("foo")),
     ElaboratedTypeSpec(<<Name("struct"), Name("foo")>>)}
    \union {SimpleType(n.text) : n \in Templates}
    \union {SimpleTypeSpec(<<QName(<<n>>)>>, Name("foo")) : n \in Templates}
SomeSpecifiers ==
    {before \o <<type>> : type \in SomeTypes,
        before \in {<<>>, <<CVTypeSpec("const")>>, <<StorageSpecifier("static"), CVTypeSpec("volatile")>>}}
    \union {<<StorageSpecifier("extern"), SimpleType(<<"long">>), SimpleType(<<"unsigned">>), SimpleType(<<"int">>)>>,
            <<SimpleType(<<"unsigned">>), SimpleType(<<"char">>)>>, <<SimpleType(<<"long">>), SimpleType(<<"double">>)>>}
(* Left out are the operators whose names are not those of their tokens.   *)
Names ==
    {Name("x"), Within(Name("x")), Within(DestructorID(Name("s"))), QualifiedIDExpr(<<QName(<<TemplateID(<<"X">>, <<Sum>>)>>)>>, Name("x"))}
    \union {UnqualifiedOpFuncID(Token("operator", op)) :
               op \in Operators \ {<<"/", "=">>, <<"!">>, <<"!", "=">>}}
Pointers == {<<>>} \union {<<PtrOperator(<<Name("*")>> \o cvs)>> : cvs \in {<<>>, <<Name("const")>>, <<Name("const"), Name("volatile")>>}}
            \union {<<PtrOperator(<<Name("&")>>)>>}
DeclaratorsOf(id) ==
    LET plain == Declarator(<<>>, IDDeclarator(id))
    IN  {plain, Declarator(<<>>, ArrayDeclarator(IDDeclarator(id), <<Sum>>))}
        \union {Declarator(p, plain) : p \in Pointers \ {<<>>}}
        \union {Declarator(p, Declarator(<<PtrOperator(<<Name("*")>>)>>, Declarator(<<>>, ArrayDeclarator(IDDeclarator(id), <<Choice>>)))) : p \in Pointers \ {<<>>}}

Expression(e) == Source("expression", e.text, e, NoName)
Declaration(specs, inits, name) ==
    LET d == SimpleDeclaration(specs, inits) IN Source("declaration", d.text, d, name)
(* Texts that are not written as the trees are: other blanks, quotes, the  *)
(* suffixes of numbers.                                                    *)
Typed(written, tree) == Source("expression", written, tree, NoName)
MCSources ==
    {Expression(e) : e \in SomeExprs}
    \union {Declaration(s, <<>>, NoName) : s \in SomeSpecifiers}
    \union {Declaration(s, <<d>>, <<"x">>) : s \in SomeSpecifiers, d \in DeclaratorsOf(Name("x"))}
    \union UNION {{Declaration(s, <<d>>, id.text) : d \in DeclaratorsOf(id)} :
                     id \in Names, s \in {<<SimpleType(<<"foo">>)>>, <<CVTypeSpec("const"), SimpleType(<<"char">>)>>}}
    \union {Typed(<<Blank, "a", Blank, Blank, "+", Blank, "1">>, Sum),
            Typed(<<"\"", "x", Backslash, "\"", "\"">>, LiteralPrimaryExpr(Token("string", <<"x", "\"">>))),
            Typed(<<"L", "'", "x", "'">>, LiteralPrimaryExpr(Token("character", <<"x">>))),
            Typed(<<"1", "u", "+", "a">>, AddExpr(LiteralPrimaryExpr(Token("integer", <<"1", "u">>)), <<"+">>, Name("a")))}

(***************************************************************************)
(* A run reads what GDB says to a command, or a text of C++.               *)
(***************************************************************************)
Quiet == Exchange(Head(StepOver), Said(<<>>, NoResult), NoneKnown)
TextInit ==
    \/ Init /\ source = NoSource /\ reading = <<>>
    \/ LoopInit(Quiet.said) /\ command = Quiet.asked /\ engine = NewEngine(Quiet.known) /\ SourceInit
TextNext ==
    \/ source = NoSource /\ HandleOutput /\ UNCHANGED cppVars
    \/ ReadSource /\ UNCHANGED vars
TextSpec == TextInit /\ [][TextNext]_<<vars, cppVars>>
=============================================================================
