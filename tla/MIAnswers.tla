------------------------------ MODULE MIAnswers ------------------------------
(***************************************************************************)
(* What GDBMIParser reads in GDB's answers: the data of each kind of       *)
(* result.  A reading function says whether it succeeded, where it stopped *)
(* and the data; one that throws abandons the buffer.                      *)
(***************************************************************************)
EXTENDS MISyntax, FiniteSets

(***************************************************************************)
(* Looking results up by name: the last one with a name counts.            *)
(***************************************************************************)
Field(c, w) ==
    LET named == {k \in DOMAIN c : c[k].n = <<w>>}
    IN  IF named = {} THEN NoValue ELSE c[Max(named)].v
TextOf(c, w) == Field(c, w).s
NumberOf(c, w) == Atoi(TextOf(c, w))
FlagOf(c, w) == Field(c, w) # NoValue /\ TextOf(c, w) # <<"0">>
AllStrings(c) == \A k \in DOMAIN c : IsString(c[k].v)
Map(Op(_), s) == [k \in DOMAIN s |-> Op(s[k])]

RECURSIVE SkipBlank(_, _), EndOfLine(_, _)
SkipBlank(t, i) == IF UnitAt(t, i) = " " THEN SkipBlank(t, i + 1) ELSE i
EndOfLine(t, i) == IF UnitAt(t, i) \in {"\n", "end"} THEN i ELSE EndOfLine(t, i + 1)

(* Results with commas between them, and none missing behind a comma.      *)
AllResults(t, i) ==
    LET first == ParseResult(t, i)
        all == MoreResults(t, first.at, <<first.val>>)
    IN  IF Succeeds(first) /\ UnitAt(t, all.at - 1) # "," THEN all ELSE Failed(i)

(* A result whose value must be of a type: the way most answers are read.  *)
Expect(t, i, Type(_), Make(_)) ==
    LET result == ParseResult(t, i)
    IN  IF Succeeds(result) /\ Type(result.val.v) THEN Parsed(result.at, Make(result.val.v)) ELSE Failed(i)

(***************************************************************************)
(* Frames and the call stack.  Only the call stack has the library.        *)
(***************************************************************************)
Frame(c) ==
    [level |-> NumberOf(c, "level"), address |-> TextOf(c, "addr"), function |-> TextOf(c, "func"),
     file |-> TextOf(c, "file"), path |-> TextOf(c, "fullname"), line |-> NumberOf(c, "line"),
     library |-> <<>>]

ParseFrame(t, i) == Expect(t, i, IsTuple, LAMBDA v : Frame(v.c))

(* A list without frames is not taken for a call stack; a frame without an *)
(* address throws.                                                         *)
ParseCallStack(t, i) ==
    LET stack == Expect(t, i, HasResults, LAMBDA v : v)
        Stacked(r) == [Frame(r.v.c) EXCEPT !.library = TextOf(r.v.c, "from")]
    IN  IF ~Succeeds(stack) THEN Failed(i)
        ELSE IF \E r \in Range(stack.val.c) :
                   ~IsTuple(r.v) \/ ~AllStrings(r.v.c) \/ Frame(r.v.c).address = <<>>
        THEN Threw(i)
        ELSE Parsed(stack.at, Map(Stacked, stack.val.c))

(***************************************************************************)
(* The text of a value with members: {a = 1, b = {c = 2}}.                 *)
(***************************************************************************)
RECURSIVE EndOfName(_, _), EmbeddedEnd(_, _, _, _), EndOfValue(_, _, _), Members(_, _, _),
          EndOfBlock(_, _)
Chomp(s) == IF s # <<>> /\ Last(s) = " " THEN Front(s) ELSE s

InQuotes(t, i) == UnitAt(t, i - 1) = "'" /\ UnitAt(t, i + 1) = "'"
EndOfName(t, i) ==
    IF UnitAt(t, i) \in {"=", "}", "end"} /\ ~InQuotes(t, i) THEN i ELSE EndOfName(t, i + 1)

(* parse_embedded_c_string, from behind its opening quote: the index       *)
(* behind the closing one.                                                 *)
EmbeddedEnd(t, i, escaping, prev) ==
    CASE i > Len(t) -> 0
      [] t[i] = Escape -> EmbeddedEnd(t, i + 1, ~escaping, IF escaping THEN Escape ELSE prev)
      [] t[i] = Quote /\ ~escaping -> 0
      [] t[i] = Quote /\ prev # Escape -> i + 1
      [] t[i] = Quote /\ prev = Escape -> EmbeddedEnd(t, i + 1, FALSE, Quote)
      [] OTHER -> EmbeddedEnd(t, i + 1, FALSE, t[i])

(* Where a value ends: at ", " outside of angle brackets, or at a brace.   *)
(* level counts the brackets that are open; it is unsigned, and more that  *)
(* close than open leave it other than zero.                               *)
EndOfValue(t, i, level) ==
    LET string == ParseCString(t, i)
        embedded == EmbeddedEnd(t, i + 2, FALSE, "")
    IN  CASE UnitAt(t, i) = "end" -> 0
          [] UnitAt(t, i) = Quote /\ UnitAt(t, i - 1) # Escape ->
                IF Succeeds(string) THEN EndOfValue(t, string.at, level) ELSE 0
          [] /\ UnitAt(t, i) = Escape /\ UnitAt(t, i + 1) = Quote
             /\ UnitAt(t, i + 2) \notin {"'", "end"} /\ UnitAt(t, i - 1) # "'" ->
                IF embedded # 0 THEN EndOfValue(t, embedded, level) ELSE 0
          [] InQuotes(t, i) -> EndOfValue(t, i + 1, level)
          [] UnitAt(t, i) = "}" \/ (UnitAt(t, i) = "," /\ UnitAt(t, i + 1) \in {" ", "end"} /\ level = 0) -> i
          [] OTHER -> EndOfValue(t, i + 1, CASE t[i] = "<" -> level + 1 [] t[i] = ">" -> level - 1
                                             [] OTHER -> level)

EndOfBlock(t, i) ==
    LET at == SkipBlank(t, i)
        Close(k) == IF \E j \in k .. Len(t) : t[j] = ">"
                    THEN CHOOSE j \in k .. Len(t) : t[j] = ">" /\ \A l \in k .. j - 1 : t[l] # ">"
                    ELSE 0
    IN  IF Starts(t, at, <<"<", "repeats">>) /\ Close(at) # 0 THEN EndOfBlock(t, Close(at) + 1)
        ELSE IF Starts(t, at, <<".", ".", ".">>) THEN EndOfBlock(t, at + 3)
        ELSE at

Member(name, value, members) == [name |-> name, value |-> value, members |-> members]
Members(t, i, got) ==
    LET start == SkipBlank(t, i)
        unnamed == UnitAt(t, start) = "{"
        stop == IF unnamed THEN start ELSE EndOfName(t, start)
        name == IF unnamed THEN <<"#unnamed#">> ELSE Chomp(SubSeq(t, start, stop - 1))
        from == IF unnamed THEN stop ELSE SkipBlank(t, stop + 1)
        within == IF UnitAt(t, from) = "{" THEN Members(t, from + 1, <<>>) ELSE Failed(from)
        end == EndOfValue(t, from, 0)
        all == Append(got, IF UnitAt(t, from) = "{" THEN Member(name, <<>>, within.val)
                           ELSE Member(name, SubSeq(t, from, end - 1), <<>>))
        at == EndOfBlock(t, IF UnitAt(t, from) = "{" THEN within.at ELSE end)
    IN  CASE UnitAt(t, stop) = "}" -> Parsed(stop + 1, Append(got, Member(name, <<>>, <<>>)))
          [] UnitAt(t, from) = "{" /\ ~Succeeds(within) -> within
          [] UnitAt(t, from) # "{" /\ end = 0 -> Failed(i)
          [] UnitAt(t, at) \in {"end", Quote} -> Parsed(at, all)
          [] UnitAt(t, at) = "}" -> Parsed(at + 1, all)
          [] UnitAt(t, at) = "," -> Members(t, at + 1, all)
          [] OTHER -> Threw(at)

ParseMemberVariable(t, i) == IF UnitAt(t, i) = "{" THEN Members(t, i + 1, <<>>) ELSE Failed(i)
(***************************************************************************)
(* Variables: locals, arguments, the value of an expression.               *)
(***************************************************************************)
(* A value that holds a brace is read for its members, and if it has any   *)
(* the value is empty.                                                     *)
Braced(value) == \E k \in DOMAIN value : value[k] = "{"
MembersOf(value) == ParseMemberVariable(value, Min({k \in DOMAIN value : value[k] = "{"}))
Parameter(c) ==
    LET value == TextOf(c, "value")
    IN  IF Braced(value) /\ Succeeds(MembersOf(value)) THEN Member(TextOf(c, "name"), <<>>, MembersOf(value).val)
        ELSE Member(TextOf(c, "name"), value, <<>>)

ParseStackArguments(t, i) ==
    LET frames == Expect(t, i, HasResults, LAMBDA v : v)
        Level(r) == NumberOf(r.v.c, "level")
        ArgsAt(l) == Field((CHOOSE r \in Range(frames.val.c) : Level(r) = l).v.c, "args").c
        Throws(v) == Braced(TextOf(v.c, "value")) /\ MembersOf(TextOf(v.c, "value")).is = "thrown"
    IN  IF ~Succeeds(frames) THEN Failed(i)
        ELSE IF \E r \in Range(frames.val.c) :
                   \/ ~IsTuple(r.v) \/ Field(r.v.c, "args").t # "list"
                   \/ \E v \in Range(Field(r.v.c, "args").c) : Throws(v)
        THEN Threw(i)
        ELSE Parsed(frames.at, [l \in {Level(r) : r \in Range(frames.val.c)} |->
                                  Map(LAMBDA v : Parameter(v.c), ArgsAt(l))])

ParseLocalVarList(t, i) ==
    LET Local(v) == Member(Chomp(TextOf(v.c, "name")), Chomp(TextOf(v.c, "value")), <<>>)
    IN  Expect(t, i, LAMBDA v : IsEmptyList(v) \/ HasValues(v), LAMBDA v : Map(Local, SelectSeq(v.c, IsTuple)))

(* Behind "value=" there is a string; one that begins with a brace is read *)
(* in place for its members.  In the other case the index ends up one too  *)
(* far, behind the end of the line.                                        *)
ParseVariableValue(t, i) ==
    LET from == i + 2
        members == ParseMemberVariable(t, from + 1)
        behind == SkipBlank(t, members.at)
        rest == ParseCStringBody(t, behind)
        string == ParseCString(t, from)
    IN  CASE UnitAt(t, from + 1) = "{" ->
                IF members.is = "thrown" THEN members
                ELSE IF ~Succeeds(members) THEN Failed(i)
                ELSE IF UnitAt(t, behind) = Quote
                THEN Parsed(behind + 1, Member(<<>>, <<>>, members.val))
                ELSE IF Succeeds(rest)
                THEN Parsed(rest.at + 1, Member(<<>>, <<" ">> \o rest.val, members.val))
                ELSE Failed(i)
          [] OTHER -> IF Succeeds(string) THEN Parsed(string.at + 1, Member(<<>>, string.val, <<>>))
                      ELSE Failed(i)

(***************************************************************************)
(* Variable objects.                                                       *)
(***************************************************************************)
CreatedVariable(c) ==
    [name |-> TextOf(c, "name"), value |-> TextOf(c, "value"), type |-> TextOf(c, "type"),
     children |-> NumberOf(c, "numchild"), dynamic |-> FlagOf(c, "dynamic"), more |-> FlagOf(c, "has_more")]

(* Results to the end of the line, each of them a string.                  *)
ParseVariable(t, i) ==
    LET all == AllResults(t, i)
    IN  IF ~Succeeds(all) THEN Failed(i)
        ELSE IF ~AllStrings(all.val) THEN Threw(i)
        ELSE Parsed(all.at, CreatedVariable(all.val))

ParseVariablesDeleted(t, i) == Expect(t, i, IsString, LAMBDA v : Atoi(v.s))

RECURSIVE UpToResult(_, _, _)
UpToResult(t, i, w) ==
    LET result == ParseResult(t, i)
    IN  IF ~Succeeds(result) THEN Failed(i)
        ELSE IF result.val.n = <<w>> THEN result
        ELSE UpToResult(t, IF UnitAt(t, result.at) = "," THEN result.at + 1 ELSE result.at, w)

Child(c) ==
    [internal |-> TextOf(c, "name"), name |-> TextOf(c, "exp"), value |-> TextOf(c, "value"),
     type |-> TextOf(c, "type"), children |-> NumberOf(c, "numchild")]

(* The number of children, and unless it is zero, somewhere behind it, the *)
(* children; one that lacks a name is left out.                            *)
ParseVarListChildren(t, i) ==
    LET number == Expect(t, i, IsString, LAMBDA v : Atoi(v.s))
        list == UpToResult(t, number.at + 1, "children")
        Named(r) == TextOf(r.v.c, "exp") # <<>> /\ TextOf(r.v.c, "name") # <<>>
    IN  IF ~Succeeds(number) THEN Failed(i)
        ELSE IF number.val = 0 THEN Parsed(number.at, <<>>)
        ELSE IF UnitAt(t, number.at) # "," \/ ~Succeeds(list) \/ list.val.v.t # "list" THEN Failed(i)
        ELSE IF \/ HasValues(list.val.v)
                \/ \E r \in Range(list.val.v.c) : r.n # <<"child">> \/ ~IsTuple(r.v) THEN Failed(i)
        ELSE Parsed(list.at, Map(LAMBDA r : Child(r.v.c), SelectSeq(list.val.v.c, Named)))

(* What changed, and for a variable that got new children, the variables   *)
(* of these.  Anything but a list of tuples is not understood; for the new *)
(* children that leaves the list empty.                                    *)
Changed(c) ==
    [name |-> TextOf(c, "name"), value |-> TextOf(c, "value"), type |-> TextOf(c, "type"),
     scope |-> Field(c, "in_scope") = NoValue \/ TextOf(c, "in_scope") = <<"true">>,
     dynamic |-> FlagOf(c, "dynamic"), more |-> FlagOf(c, "has_more")]
Changes(v) == IsEmptyList(v) \/ (HasValues(v) /\ \A k \in DOMAIN v.c : IsTuple(v.c[k]))
HasName(v) == TextOf(v.c, "name") # <<>>
NewChildren(v) == IF Changes(Field(v.c, "new_children")) THEN SelectSeq(Field(v.c, "new_children").c, HasName)
                  ELSE <<>>
NewNumber(v) == IF Field(v.c, "new_num_children") = NoValue THEN -1 ELSE NumberOf(v.c, "new_num_children")
VarChange(v) ==
    [variable |-> Changed(v.c), number |-> NewNumber(v), children |-> Map(LAMBDA n : Changed(n.c), NewChildren(v))]

ParseVarChangedList(t, i) ==
    LET result == ParseResult(t, i)
        all == SelectSeq(result.val.v.c, HasName)
    IN  IF ~Succeeds(result) THEN Failed(i)
        ELSE IF ~Changes(result.val.v) THEN Failed(result.at)
        ELSE IF \E v \in Range(all) : \E n \in Range(NewChildren(v)) : NewChildren(n) # <<>> \/ NewNumber(n) # -1
        THEN Threw(i)
        ELSE Parsed(result.at, Map(VarChange, all))

ParseVarPathExpression(t, i) == Expect(t, i, LAMBDA v : IsString(v) /\ v.s # <<>>, LAMBDA v : v.s)

Formats == {"binary", "decimal", "hexadecimal", "octal", "natural"}
ParseVariableFormat(t, i) ==
    LET format == ParseStringResult(t, i)
        value == ParseStringResult(t, format.at + 1)
    IN  IF ~Succeeds(format) \/ format.val.v.s \notin {<<f>> : f \in Formats} THEN Failed(i)
        ELSE IF UnitAt(t, format.at) # "," THEN Parsed(format.at, [format |-> format.val.v.s, value |-> <<>>])
        ELSE IF ~Succeeds(value) THEN Failed(i)
        ELSE Parsed(value.at, [format |-> format.val.v.s,
                               value |-> IF value.val.n = <<"value">> THEN value.val.v.s ELSE <<>>])

(***************************************************************************)
(* Threads and files.                                                      *)
(***************************************************************************)
ParseThreadsList(t, i) ==
    LET all == AllResults(t, i)
        threads == Field(all.val, "thread-ids")
        ids == Map(LAMBDA r : Atoi(r.v.s), threads.c)
    IN  IF ~Succeeds(all) \/ UnitAt(t, all.at) # "\n" THEN Failed(i)
        ELSE IF \E r \in Range(threads.c) : r.n # <<"thread-id">> THEN Failed(i)
        ELSE IF threads.t \notin {"tuple", "empty"} \/ 0 \in Range(ids) THEN Threw(i)
        ELSE IF NumberOf(all.val, "number-of-threads") # Len(ids) THEN Failed(i)
        ELSE Parsed(all.at, ids)

ParseNewThreadId(t, i) ==
    LET thread == ParseResult(t, i)
        frame == ParseFrame(t, thread.at + 1)
    IN  IF \/ ~Succeeds(thread) \/ Atoi(thread.val.v.s) = 0 \/ UnitAt(t, thread.at) # ","
           \/ ~Starts(t, thread.at + 1, <<"frame", "=", "{">>) \/ ~Succeeds(frame)
        THEN Failed(i)
        ELSE Parsed(frame.at, [thread |-> Atoi(thread.val.v.s), frame |-> frame.val])

(* Tuples up to the closing bracket, which is not passed.  The list is     *)
(* sorted and told without its duplicates.                                 *)
RECURSIVE Tuples(_, _, _)
Tuples(t, i, got) ==
    LET tuple == ParseTuple(t, i)
        all == Append(got, tuple.val)
    IN  IF i > Len(t) THEN Parsed(i, got)
        ELSE IF ~Succeeds(tuple) THEN Failed(i)
        ELSE IF UnitAt(t, tuple.at) = "]" THEN Parsed(tuple.at, all)
        ELSE Tuples(t, IF UnitAt(t, tuple.at) = "," THEN tuple.at + 1 ELSE tuple.at, all)

FileOf(c) == IF Field(c, "fullname") # NoValue THEN TextOf(c, "fullname") ELSE TextOf(c, "file")
ParseFileList(t, i) ==
    LET files == Tuples(t, i + 3, <<>>)
    IN  IF ~Succeeds(files) THEN Failed(i)
        ELSE IF \E v \in Range(files.val) : FileOf(v.c) = <<>> \/ ~AllStrings(v.c) THEN Threw(i)
        ELSE IF \E v \in Range(files.val) : \E r \in Range(v.c) : r.n \notin {<<"file">>, <<"fullname">>} THEN Failed(i)
        ELSE Parsed(files.at, {FileOf(v.c) : v \in Range(files.val)})

(***************************************************************************)
(* Registers, memory, instructions.                                        *)
(***************************************************************************)
(* A list that stands behind a name of so many units.                      *)
ListBehind(t, i, Type(_), Make(_)) ==
    LET list == ParseList(t, i)
    IN  IF Succeeds(list) /\ Type(list.val) THEN Parsed(list.at, Make(list.val)) ELSE Failed(i)
StringsOf(v) == HasValues(v) /\ \A k \in DOMAIN v.c : IsString(v.c[k])

ParseRegisterNames(t, i) == ListBehind(t, i + 2, StringsOf, LAMBDA v : Map(LAMBDA e : e.s, v.c))
ParseChangedRegisters(t, i) ==
    ListBehind(t, i + 2, LAMBDA v : IsEmptyList(v) \/ StringsOf(v), LAMBDA v : Map(LAMBDA e : Atoi(e.s), v.c))

ParseRegisterValues(t, i) ==
    LET Pair(v) == /\ IsTuple(v) /\ Len(v.c) = 2 /\ AllStrings(v.c)
                   /\ v.c[1].n = <<"number">> /\ v.c[2].n = <<"value">>
        Register(v) == NumberOf(v.c, "number")
        ValueOf(c, r) == TextOf(c[Max({k \in DOMAIN c : Register(c[k]) = r})].c, "value")
    IN  ListBehind(t, i + 2, LAMBDA l : HasValues(l) /\ \A k \in DOMAIN l.c : Pair(l.c[k]),
                   LAMBDA l : [r \in {Register(v) : v \in Range(l.c)} |-> ValueOf(l.c, r)])

(* The list is the one behind the first "memory=" of the buffer.           *)
ParseMemoryValues(t, i) ==
    LET at == Min({k \in DOMAIN t : Starts(t, k, <<"memory", "=">>)} \union {Len(t)})
        Row(v) == /\ HasValues(v) /\ Len(v.c) = 1 /\ IsTuple(v.c[1]) /\ Len(v.c[1].c) >= 2
                  /\ IsString(Field(v.c[1].c, "addr")) /\ StringsOf(Field(v.c[1].c, "data"))
    IN  ListBehind(t, at + 2, Row, LAMBDA v : [address |-> TextOf(v.c[1].c, "addr"),
                                              bytes |-> Map(LAMBDA e : e.s, Field(v.c[1].c, "data").c)])

Instr(v) ==
    [address |-> TextOf(v.c, "address"), function |-> TextOf(v.c, "func-name"),
     offset |-> TextOf(v.c, "offset"), instr |-> TextOf(v.c, "inst")]
Instrs(v) == \A k \in DOMAIN v.c : IsTuple(v.c[k])
MixedInstr(r) ==
    [line |-> NumberOf(r.v.c, "line"), file |-> TextOf(r.v.c, "file"),
     instrs |-> Map(Instr, Field(r.v.c, "line_asm_insn").c)]
Mixed(r) == /\ r.n = <<"src_and_asm_line">> /\ IsTuple(r.v)
            /\ TextOf(r.v.c, "line") \in {<<d>> : d \in DOMAIN Digits}
            /\ Instrs(Field(r.v.c, "line_asm_insn"))

(* Instructions alone, or lines of source with theirs.                     *)
ParseAsmInstructionList(t, i) ==
    ListBehind(t, i + 2,
               LAMBDA v : IF HasResults(v) THEN \A k \in DOMAIN v.c : Mixed(v.c[k]) ELSE Instrs(v),
               LAMBDA v : IF HasResults(v) THEN Map(MixedInstr, v.c) ELSE Map(Instr, v.c))
=============================================================================
