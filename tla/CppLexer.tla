------------------------------ MODULE CppLexer ------------------------------
(***************************************************************************)
(* The lexer of the C++ parser.  A text is a sequence of units: the words, *)
(* and the signs, blanks and quotes between them, one by one.  The lexer   *)
(* scans a token when the parser first looks at it and keeps it in a queue *)
(* for the times the parser comes back, so what a text is made of does not *)
(* depend on who reads it.                                                 *)
(***************************************************************************)
EXTENDS Integers, Sequences, SequencesExt

Operators ==
    {<<"+">>, <<"+", "=">>, <<"+", "+">>, <<"-">>, <<"-", "=">>, <<"-", "-">>, <<"-", ">">>, <<"-", ">", "*">>,
     <<"*">>, <<"*", "=">>, <<"/">>, <<"/", "=">>, <<"%">>, <<"%", "=">>, <<"^">>, <<"^", "=">>,
     <<"&">>, <<"&", "=">>, <<"&", "&">>, <<"|">>, <<"|", "=">>, <<"|", "|">>, <<"~">>, <<"!">>, <<"!", "=">>,
     <<"=">>, <<"=", "=">>, <<"<">>, <<"<", "=">>, <<"<", "<">>, <<"<", "<", "=">>,
     <<">">>, <<">", "=">>, <<">", ">">>, <<">", ">", "=">>,
     <<",">>, <<"(", ")">>, <<"[", "]">>, <<".">>, <<".", "*">>, <<":", ":">>}
Punctuators == {":", ";", "{", "}", "[", "]", "(", ")", "?"}

(* The signs the lexer looks for an operator at: "!" is not among them.    *)
OperatorStarts == {Head(o) : o \in Operators} \ {"!"}

Keywords ==
    {"auto", "bool", "char", "class", "const", "delete", "double", "extern", "false", "float", "friend", "int",
     "long", "mutable", "new", "operator", "register", "short", "signed", "static", "struct", "template", "this",
     "true", "typedef", "typename", "union", "unsigned", "void", "volatile", "wchar_t"}
Integer == {"0", "1", "2", "10", "0x1f"}
Quotes == {"'", "\""}
Backslash == "\\"
Blank == " "
NoWords == Keywords \union Integer \union Quotes \union Punctuators \union OperatorStarts \union {"!", Backslash, Blank}

Token(kind, str) == [kind |-> kind, str |-> str]
NoToken == Token("none", <<>>)
IsLiteral(k) == k.kind \in {"integer", "character", "string", "boolean"}

Scanned(token, rest) == [token |-> token, rest |-> rest]
NotScanned(s) == Scanned(NoToken, s)
Skip(n, s) == SubSeq(s, n + 1, Len(s))

RECURSIVE SkipBlanks(_)
SkipBlanks(s) == IF s # <<>> /\ Head(s) = Blank THEN SkipBlanks(Tail(s)) ELSE s

(* The longest operator there.  Behind "new" and "delete" one character    *)
(* more is skipped than they have, a blank as a rule.                      *)
ScanNewOrDelete(s) ==
    LET rest == SkipBlanks(Skip(2, s))
        vect == IsPrefix(<<"[", "]">>, rest)
    IN  Scanned(Token("operator", IF vect THEN <<Head(s), "[", "]">> ELSE <<Head(s)>>), IF vect THEN Skip(3, rest) ELSE rest)
ScanOperator(s) ==
    LET there == {o \in Operators : IsPrefix(o, s)}
        longest == CHOOSE o \in there : \A p \in there : Len(p) <= Len(o)
    IN  IF Head(s) \in {"new", "delete"} THEN ScanNewOrDelete(s)
        ELSE IF there = {} THEN NotScanned(s) ELSE Scanned(Token("operator", longest), Skip(Len(longest), s))
ScanPunctuator(s) ==
    IF IsPrefix(<<":", ":">>, s) THEN NotScanned(s) ELSE Scanned(Token("punctuator", <<Head(s)>>), Tail(s))

(* A suffix of one letter is not seen at the end of the text.              *)
ScanIntegerSuffix(s) ==
    IF s # <<>> /\ ((Head(s) \in {"u", "L"} /\ Len(s) > 1) \/ Head(s) \in {"ul", "Lu"}) THEN <<Head(s)>> ELSE <<>>
ScanIntegerLiteral(s) ==
    LET suffix == ScanIntegerSuffix(Tail(s))
    IN  Scanned(Token("integer", <<Head(s)>> \o suffix), Skip(1 + Len(suffix), s))

(* What is escaped loses its backslash, but for "\'", which loses its      *)
(* quote.                                                                  *)
ScanSimpleEscapeSequence(s) == IF Head(s) = "'" THEN Backslash ELSE Head(s)
RECURSIVE ScanSCharSequence(_, _, _)
ScanSCharSequence(s, quote, str) ==
    IF s = <<>> THEN NotScanned(s)
    ELSE IF Head(s) = quote THEN (IF str = <<>> THEN NotScanned(s) ELSE Scanned(Token("string", str), Tail(s)))
    ELSE IF Head(s) = Backslash
    THEN (IF Len(s) = 1 THEN NotScanned(s) ELSE ScanSCharSequence(Skip(2, s), quote, Append(str, ScanSimpleEscapeSequence(Tail(s)))))
    ELSE ScanSCharSequence(Tail(s), quote, Append(str, Head(s)))
ScanStringLiteral(s) == ScanSCharSequence(Tail(s), "\"", <<>>)
ScanCharacterLiteral(s) ==
    LET r == ScanSCharSequence(Tail(s), "'", <<>>)
    IN  IF r.token = NoToken THEN NotScanned(s) ELSE [r EXCEPT !.token.kind = "character"]

(* "true" and "false" are literals without a text, and leave their last    *)
(* letter behind.                                                          *)
ScanBooleanLiteral(s) == Scanned(Token("boolean", <<>>), <<"e">> \o Tail(s))

ScanLiteral(s) ==
    LET bare == IF Head(s) = "L" THEN Tail(s) ELSE s
    IN  IF Head(s) \in Integer THEN ScanIntegerLiteral(s)
        ELSE IF bare # <<>> /\ Head(bare) = "'" THEN ScanCharacterLiteral(bare)
        ELSE IF bare # <<>> /\ Head(bare) = "\"" THEN ScanStringLiteral(bare)
        ELSE IF Head(s) \in {"true", "false"} THEN ScanBooleanLiteral(s)
        ELSE NotScanned(s)
ScanKeyword(s) == Scanned(Token("keyword", <<Head(s)>>), Tail(s))
ScanIdentifier(s) == Scanned(Token("identifier", <<Head(s)>>), Tail(s))

(* What is tried first wins: operators, punctuators, literals, words.      *)
ScanNextToken(text) ==
    LET s == SkipBlanks(text)
        Try(first, r) == IF first THEN r ELSE NotScanned(s)
        Or(r, q) == IF r.token = NoToken THEN q ELSE r
    IN  IF s = <<>> THEN NotScanned(s)
        ELSE Or(Try(Head(s) \in OperatorStarts \union {"new", "delete"}, ScanOperator(s)),
             Or(Try(Head(s) \in Punctuators, ScanPunctuator(s)),
             Or(ScanLiteral(s),
             Or(Try(Head(s) \in Keywords, ScanKeyword(s)),
                Try(Head(s) \notin NoWords, ScanIdentifier(s))))))

(* The tokens of a text, up to the first it cannot scan.                   *)
RECURSIVE Tokens(_)
Tokens(s) ==
    LET r == ScanNextToken(s) IN IF r.token = NoToken THEN <<>> ELSE <<r.token>> \o Tokens(r.rest)

PeekNextToken(t, i) == IF i <= Len(t) THEN t[i] ELSE NoToken
=============================================================================
