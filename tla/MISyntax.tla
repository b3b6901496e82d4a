------------------------------ MODULE MISyntax ------------------------------
(***************************************************************************)
(* What GDBMIParser takes for a string, a value, a tuple, a list and a     *)
(* result.  Text is a sequence of units, each read as one character: the   *)
(* punctuation of GDB/MI, and the words between it.  A parsing function    *)
(* says whether it succeeded, where it stopped and what it read; one that  *)
(* fails leaves the index of its caller alone.                             *)
(***************************************************************************)
EXTENDS Integers, Sequences, SequencesExt

Quote == "\""
Escape == "\\"

(* Octal escapes, by the character they stand for, and the words that are  *)
(* not names.                                                              *)
Decoded == [o \in {"303"} |-> "e'"]
Foreign == {"e'"}
Digits == [d \in {"0", "1", "2", "3", "12"} |->
             CASE d = "0" -> 0 [] d = "1" -> 1 [] d = "2" -> 2 [] d = "3" -> 3
               [] d = "12" -> 12]
Signs == {"{", "}", "[", "]", "(", ")", ",", "=", ":", "/", "'", ".", " ", "\n", "end",
          "*", "~", "@", "&", "^", Quote, Escape}
          \union Foreign \union DOMAIN Digits \union DOMAIN Decoded

(* The unit at an index; past the end the code meets the final zero.       *)
UnitAt(t, i) == IF i \in 1 .. Len(t) THEN t[i] ELSE "end"
Starts(t, i, prefix) == \A k \in DOMAIN prefix : UnitAt(t, i + k - 1) = prefix[k]

Parsed(at, val) == [is |-> "ok", at |-> at, val |-> val]
Failed(at) == [is |-> "failed", at |-> at]
Threw(at) == [is |-> "thrown", at |-> at]
Succeeds(p) == p.is = "ok"

Atoi(s) == IF s # <<>> /\ Head(s) \in DOMAIN Digits THEN Digits[Head(s)] ELSE 0

(***************************************************************************)
(* Values: strings, tuples and lists of results, lists of values; an empty *)
(* tuple has no content, an empty list no type.                            *)
(***************************************************************************)
StringValue(s) == [t |-> "string", s |-> s, c |-> <<>>]
TupleValue(c) == [t |-> IF c = <<>> THEN "empty" ELSE "tuple", s |-> <<>>, c |-> c]
ListValue(of, c) == [t |-> "list", s |-> IF c = <<>> THEN <<>> ELSE <<of>>, c |-> c]
NoValue == [t |-> "none", s |-> <<>>, c |-> <<>>]
GDBMIResult(n, v) == [n |-> n, v |-> v]

IsString(v) == v.t = "string"
IsTuple(v) == v.t = "tuple"
HasResults(v) == v.t = "list" /\ v.s = <<"results">>
HasValues(v) == v.t = "list" /\ v.s = <<"values">>
IsEmptyList(v) == v.t = "list" /\ v.s = <<>>

(***************************************************************************)
(* Strings.                                                                *)
(***************************************************************************)
ParseString(t, i) ==
    IF UnitAt(t, i) \notin Signs /\ i + 1 <= Len(t) THEN Parsed(i + 1, <<t[i]>>) ELSE Failed(i)

(* parse_octal_escape_sequence: as many escapes as follow each other.      *)
IsOctal(t, i) == UnitAt(t, i) = Escape /\ UnitAt(t, i + 1) \in DOMAIN Decoded
RECURSIVE ParseOctals(_, _)
ParseOctals(t, i) == IF IsOctal(t, i) THEN <<Decoded[t[i + 1]]>> \o ParseOctals(t, i + 2) ELSE <<>>

(* The loop of parse_c_string_body; prev is what was read before index i.  *)
RECURSIVE RestOfString(_, _, _, _)
RestOfString(t, i, prev, got) ==
    IF i > Len(t) THEN Failed(i)
    ELSE IF t[i] = Quote /\ prev # Escape THEN Parsed(i, got)
    ELSE IF t[i] = Quote THEN RestOfString(t, i + 1, Quote, Append(Front(got), Quote))
    ELSE IF IsOctal(t, i)
    THEN LET s == ParseOctals(t, i)
         IN  RestOfString(t, i + 2 * Len(s), Last(s), got \o s)
    ELSE RestOfString(t, i + 1, t[i], Append(got, t[i]))

(* The first character is read by code of its own, which after an octal    *)
(* escape still holds the escape to be what it read.                       *)
ParseCStringBody(t, i) ==
    IF UnitAt(t, i) = Quote THEN Parsed(i, <<>>)
    ELSE IF UnitAt(t, i) \in Foreign \union {"end"} THEN Failed(i)
    ELSE IF IsOctal(t, i)
    THEN LET s == ParseOctals(t, i) IN RestOfString(t, i + 2 * Len(s), Escape, s)
    ELSE RestOfString(t, i + 1, t[i], <<t[i]>>)

ParseCString(t, i) ==
    LET body == ParseCStringBody(t, i + 1)
    IN  IF UnitAt(t, i) = Quote /\ Succeeds(body) THEN Parsed(body.at + 1, body.val) ELSE Failed(i)

(***************************************************************************)
(* Values.  A tuple that is not closed is taken for one that is, and a     *)
(* list may end with a comma.  In the mode of the engine a result may be a *)
(* string, and may have no value.                                          *)
(***************************************************************************)
RECURSIVE ParseValue(_, _), ParseResult(_, _), MoreResults(_, _, _), MoreValues(_, _, _)

ParseTuple(t, i) ==
    IF UnitAt(t, i) # "{" THEN Failed(i)
    ELSE IF UnitAt(t, i + 1) = "}" THEN Parsed(i + 2, TupleValue(<<>>))
    ELSE LET first == ParseResult(t, i + 1)
             all == MoreResults(t, first.at, <<first.val>>)
         IN  IF ~Succeeds(first) \/ UnitAt(t, all.at - 1) = "," THEN Failed(i)
             ELSE Parsed(IF UnitAt(t, all.at) = "}" THEN all.at + 1 ELSE all.at, TupleValue(all.val))

ParseList(t, i) ==
    IF UnitAt(t, i) # "[" THEN Failed(i)
    ELSE IF UnitAt(t, i + 1) = "]" THEN Parsed(i + 2, ListValue("", <<>>))
    ELSE LET result == ParseResult(t, i + 1)
             value == ParseValue(t, i + 1)
             results == MoreResults(t, result.at, <<result.val>>)
             values == MoreValues(t, value.at, <<value.val>>)
             Close(all, of) == IF UnitAt(t, all.at) = "]" THEN Parsed(all.at + 1, ListValue(of, all.val))
                               ELSE Failed(i)
         IN  IF UnitAt(t, i + 1) \notin Signs /\ Succeeds(result) THEN Close(results, "results")
             ELSE IF Succeeds(value) THEN Close(values, "values")
             ELSE Failed(i)

MoreResults(t, i, got) ==
    LET next == ParseResult(t, i + 1)
    IN  IF UnitAt(t, i) # "," THEN Parsed(i, got)
        ELSE IF Succeeds(next) THEN MoreResults(t, next.at, Append(got, next.val))
        ELSE Parsed(i + 1, got)

MoreValues(t, i, got) ==
    LET next == ParseValue(t, i + 1)
    IN  IF UnitAt(t, i) # "," THEN Parsed(i, got)
        ELSE IF Succeeds(next) THEN MoreValues(t, next.at, Append(got, next.val))
        ELSE Parsed(i + 1, got)

ParseValue(t, i) ==
    LET string == ParseCString(t, i)
    IN  CASE UnitAt(t, i) = Quote -> IF Succeeds(string) THEN Parsed(string.at, StringValue(string.val))
                                     ELSE Failed(i)
          [] UnitAt(t, i) = "{" -> ParseTuple(t, i)
          [] UnitAt(t, i) = "[" -> ParseList(t, i)
          [] OTHER -> Failed(i)

ParseResult(t, i) ==
    LET name == IF UnitAt(t, i) = Quote THEN ParseCString(t, i) ELSE ParseString(t, i)
        value == ParseValue(t, name.at + 1)
    IN  IF ~Succeeds(name) THEN Failed(i)
        ELSE IF UnitAt(t, name.at) # "=" THEN Parsed(name.at, GDBMIResult(name.val, NoValue))
        ELSE IF Succeeds(value) THEN Parsed(value.at, GDBMIResult(name.val, value.val))
        ELSE Failed(i)

(* parse_attribute: a result with a name and a value; one without a value  *)
(* is passed all the same.                                                 *)
ParseAttribute(t, i) ==
    LET result == ParseResult(t, i)
    IN  IF UnitAt(t, i) \in Signs \/ ~Succeeds(result) THEN Failed(i)
        ELSE IF result.val.v = NoValue THEN Failed(result.at)
        ELSE result

(* parse_gdbmi_string_result: a result whose value is a string with a      *)
(* character at least.                                                     *)
ParseStringResult(t, i) ==
    LET result == ParseResult(t, i)
    IN  IF Succeeds(result) /\ IsString(result.val.v) /\ result.val.v.s # <<>> THEN result ELSE Failed(i)

(***************************************************************************)
(* gdbmi_value_to_string: the text of a value, without the quotes.         *)
(***************************************************************************)
Commas(parts) == FoldLeft(LAMBDA all, p : IF all = <<>> THEN p ELSE all \o <<",">> \o p, <<>>, parts)

RECURSIVE ValueText(_)
ResultText(r) == r.n \o <<"=">> \o ValueText(r.v)
ValueText(v) ==
    LET texts == [k \in DOMAIN v.c |-> IF v.t = "tuple" \/ HasResults(v) THEN ResultText(v.c[k])
                                       ELSE ValueText(v.c[k])]
    IN  CASE IsString(v) -> v.s
          [] IsTuple(v) -> <<"{">> \o Commas(texts) \o <<"}">>
          [] IsEmptyList(v) -> <<"[", "undefined", "]">>
          [] v.t = "list" -> <<"[">> \o Commas(texts) \o <<"]">>
          [] OTHER -> <<>>

(***************************************************************************)
(* The other end: how GDB writes a string, a value and a result.           *)
(***************************************************************************)
Escaped(u) == CASE u \in {Quote, Escape} -> <<Escape, u>>
                [] u = "\n" -> <<Escape, "n">>
                [] u \in Foreign -> <<Escape, CHOOSE o \in DOMAIN Decoded : Decoded[o] = u>>
                [] OTHER -> <<u>>
PrintString(s) == <<Quote>> \o FlattenSeq([k \in DOMAIN s |-> Escaped(s[k])]) \o <<Quote>>
RECURSIVE PrintValue(_)
PrintResult(r) == r.n \o <<"=">> \o PrintValue(r.v)
PrintValue(v) ==
    LET texts == [k \in DOMAIN v.c |-> IF v.t = "tuple" \/ HasResults(v) THEN PrintResult(v.c[k])
                                       ELSE PrintValue(v.c[k])]
    IN  CASE IsString(v) -> PrintString(v.s)
          [] v.t = "list" -> <<"[">> \o Commas(texts) \o <<"]">>
          [] OTHER -> <<"{">> \o Commas(texts) \o <<"}">>

(* What is shown of a string that was read: its quotes, its backslashes as *)
(* GDB wrote them.                                                         *)
Shown(s) == FlattenSeq([k \in DOMAIN s |-> IF s[k] = Escape THEN <<Escape, Escape>> ELSE <<s[k]>>])
=============================================================================
