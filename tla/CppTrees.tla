------------------------------ MODULE CppTrees ------------------------------
(***************************************************************************)
(* The trees the C++ parser makes, and the text each is written as by its  *)
(* to_string.  The classes that only hold another expression (a cast       *)
(* expression without a cast, a sum of one term) are that expression.      *)
(***************************************************************************)
EXTENDS CppLexer

Node(of, text, parts) == [of |-> of, text |-> text, parts |-> parts]
RECURSIVE JoinedBy(_, _)
JoinedBy(ns, between) ==
    IF ns = <<>> THEN <<>> ELSE IF Len(ns) = 1 THEN ns[1].text ELSE ns[1].text \o between \o JoinedBy(Tail(ns), between)
Spaced(of, ns) == Node(of, JoinedBy(ns, <<Blank>>), ns)

(***************************************************************************)
(* Names.                                                                  *)
(***************************************************************************)
UnqualifiedID(name) == Node("UnqualifiedID", name, <<>>)
(* "/=" is written "/+", and "delete []" as "delete".                      *)
UnqualifiedOpFuncID(k) ==
    LET op == k.str
        shown == CASE op = <<"/", "=">> -> <<"/", "+">> [] op = <<"delete", "[", "]">> -> <<"delete">>
                   [] op = <<"new", "[", "]">> -> <<"new", Blank, "[", "]">> [] OTHER -> op
    IN  Node("UnqualifiedOpFuncID", <<"operator", Blank>> \o shown, <<>>)
DestructorID(class) == Node("DestructorID", <<"~">> \o class.text, <<class>>)
TemplateID(name, args) ==
    LET inner == name \o <<"<">> \o JoinedBy(args, <<",", Blank>>)
    IN  Node("TemplateID", inner \o (IF Last(inner) = ">" THEN <<Blank, ">">> ELSE <<">">>), args)
QName(names) == Node("QName", JoinedBy(names, <<":", ":">>), names)
QualifiedIDExpr(scope, id) ==
    Node("QualifiedIDExpr", (IF scope = <<>> THEN <<>> ELSE scope[1].text) \o <<":", ":">> \o id.text, Append(scope, id))

(***************************************************************************)
(* Expressions.                                                            *)
(***************************************************************************)
LiteralPrimaryExpr(k) == Node("LiteralPrimaryExpr", k.str, <<>>)
ParenthesisPrimaryExpr(e) == Node("ParenthesisPrimaryExpr", <<"(">> \o e.text \o <<")">>, <<e>>)
CStyleCastExpr(type, e) == Node("CStyleCastExpr", <<"(">> \o type.text \o <<")">> \o e.text, <<type, e>>)

Infix(of, l, op, r) == Node(of, l.text \o op \o r.text, <<l, r>>)
PMExpr(l, op, r) == Infix(IF op = <<".", "*">> THEN "DotStarPMExpr" ELSE "ArrowStarPMExpr", l, op, r)
MultExpr(l, op, r) == Infix("MultExpr", l, op, r)
AddExpr(l, op, r) == Infix("AddExpr", l, op, r)
ShiftExpr(l, op, r) == Infix("ShiftExpr", l, op, r)
RelExpr(l, op, r) == Infix("RelExpr", l, op, r)
EqExpr(l, op, r) == Infix("EqExpr", l, op, r)
AndExpr(l, r) == Infix("AndExpr", l, <<"&">>, r)
XORExpr(l, r) == Infix("XORExpr", l, <<"^">>, r)
ORExpr(l, r) == Infix("ORExpr", l, <<"|">>, r)
LogAndExpr(l, r) == Infix("LogAndExpr", l, <<"&", "&">>, r)
LogOrExpr(l, r) == Infix("LogOrExpr", l, <<"|", "|">>, r)
FullAssignExpr(l, op, r) == Infix("FullAssignExpr", l, op, r)
CondExpr(c, then, else) ==
    Node("CondExpr", c.text \o <<"?">> \o then.text \o <<":">> \o else.text, <<c, then, else>>)
Expr(es) == IF Len(es) = 1 THEN es[1] ELSE Node("Expr", JoinedBy(es, <<",", Blank>>), es)

(***************************************************************************)
(* Declarations.                                                           *)
(***************************************************************************)
StorageSpecifier(word) == Node("StorageSpecifier", <<word>>, <<>>)
CVTypeSpec(word) == Node("CVTypeSpec", <<word>>, <<>>)
SimpleTypeSpec(scope, name) ==
    Node("SimpleTypeSpec", (IF scope = <<>> THEN <<>> ELSE scope[1].text \o <<":", ":">>) \o name.text, Append(scope, name))
ElaboratedTypeSpec(elems) == Spaced("ElaboratedTypeSpec", elems)
TypeID(specs) == Spaced("TypeID", specs)

(* No blank behind a star.                                                 *)
PtrOperator(elems) ==
    LET text[k \in 1 .. Len(elems)] ==
            IF k = 1 THEN elems[1].text
            ELSE text[k - 1] \o (IF elems[k - 1].text = <<"*">> THEN <<>> ELSE <<Blank>>) \o elems[k].text
    IN  Node("PtrOperator", text[Len(elems)], elems)
IDDeclarator(id) == Node("IDDeclarator", id.text, <<id>>)
ArrayDeclarator(d, size) ==
    Node("ArrayDeclarator", d.text \o <<"[">> \o (IF size = <<>> THEN <<>> ELSE size[1].text) \o <<"]">>, <<d>> \o size)
(* What is behind a star or nothing needs no blank.                        *)
AfterBlank(before, text) ==
    (IF before = <<>> \/ Last(before) \in {"*", Blank} THEN before ELSE Append(before, Blank)) \o text
Declarator(ptr, d) ==
    Node("Declarator", AfterBlank(IF ptr = <<>> THEN <<>> ELSE ptr[1].text, d.text), Append(ptr, d))
(* From the third on, a declarator without pointer is written behind the   *)
(* one before it, which thus shows twice.                                  *)
InitDeclarators(inits) ==
    LET said[k \in 1 .. Len(inits)] ==
            IF k <= 2 \/ Len(inits[k].parts) = 2 THEN inits[k].text ELSE AfterBlank(said[k - 1], inits[k].text)
    IN  Node("InitDeclarators", JoinedBy([k \in 1 .. Len(inits) |-> [text |-> said[k]]], <<Blank>>), inits)
SimpleDeclaration(specs, inits) ==
    LET parts == <<Spaced("DeclSpecifiers", specs), InitDeclarators(inits)>>
    IN  Node("SimpleDeclaration", parts[1].text \o <<Blank>> \o parts[2].text, parts)

(* The name a declarator gives, whatever points to it.                     *)
RECURSIVE GetDeclaratorIdAsString(_)
GetDeclaratorIdAsString(d) ==
    CASE d.of = "Declarator" -> GetDeclaratorIdAsString(Last(d.parts))
      [] d.of = "ArrayDeclarator" -> d.parts[1].text
      [] OTHER -> d.text
=============================================================================
