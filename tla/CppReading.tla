----------------------------- MODULE CppReading -----------------------------
(***************************************************************************)
(* A text of C++ read by the parser: as a declaration, as a debugger is    *)
(* given a variable, or as an expression.                                  *)
(***************************************************************************)
EXTENDS CppParser

CONSTANT ReadText(_)        \* Parse, or another reader of texts
CONSTANT Sources            \* how a text is read, the text, the tree it stands for and the name it gives

VARIABLES
    source,     \* the text to read
    reading     \* what the parser made of it, once it did
cppVars == <<source, reading>>

NoName == <<>>
Source(as, text, tree, name) == [as |-> as, text |-> text, tree |-> tree, name |-> name]
NoSource == Source("expression", <<>>, NoDeclaration, NoName)

SourceInit == source \in Sources /\ reading = <<>>

Parse(s) ==
    LET t == Tokens(s.text)
    IN  [tokens |-> Len(t), got |-> IF s.as = "expression" THEN ParseExpr(t, 1, "plain") ELSE ParseSimpleDeclaration(t, 1)]
ReadSource ==
    /\ source # NoSource /\ reading = <<>>
    /\ reading' = <<ReadText(source)>>
    /\ UNCHANGED source

(* What the parser reads is what was written: the operators grouped as C++ *)
(* groups them, the ">" of a comparison told from that of a template, the  *)
(* declared name from the words before it, and nothing of the text left    *)
(* over.  Since the texts are those the trees are written as, what is      *)
(* written can be read again.                                              *)
ReadsBack ==
    \A r \in Range(reading) :
        /\ r.got = Read(r.tokens + 1, source.tree)
        /\ source.name # NoName => GetDeclaratorIdAsString(r.got.node.parts[2].parts[1]) = source.name
=============================================================================
