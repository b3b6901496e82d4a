----------------------------- MODULE CppParser -----------------------------
(***************************************************************************)
(* The C++ parser: recursive descent over the tokens of a text.  A parsing *)
(* function is given the tokens and where it stands, and says what it read *)
(* and where it stopped; one that fails leaves the parser where it was.    *)
(* What it reads inside "<" and ">" it is told by its place: "plain"; an   *)
(* argument of a template; inside parentheses, which an argument of a      *)
(* template in them does not leave.                                        *)
(***************************************************************************)
EXTENDS CppTrees

Read(at, node) == [is |-> "read", at |-> at, node |-> node]
NotRead == [is |-> "failed"]
(* A function that calls itself where it stands never returns.             *)
Endless == [is |-> "endless"]

Then(r, Goes(_, _)) == IF r.is = "read" THEN Goes(r.at, r.node) ELSE r
OrElse(r, other) == IF r.is = "failed" THEN other ELSE r

IsOp(t, i, op) == PeekNextToken(t, i) = Token("operator", op)
IsSign(t, i, sign) == PeekNextToken(t, i) = Token("punctuator", <<sign>>)
IsWord(t, i, words) == PeekNextToken(t, i).kind = "keyword" /\ PeekNextToken(t, i).str[1] \in words
IsName(t, i) == PeekNextToken(t, i).kind = "identifier"
Scope == <<":", ":">>
After(t, i, op) == IF IsOp(t, i, op) THEN i + 1 ELSE i

RECURSIVE ParseExpr(_, _, _), ParseAssignExpr(_, _, _), ParseCastExpr(_, _, _), ParseTypeID(_, _, _),
          ParseTemplateArgument(_, _, _), ParseTemplateArgumentList(_, _, _), ParseNestedNameSpecifier(_, _, _)

(***************************************************************************)
(* Names.                                                                  *)
(***************************************************************************)
ParseTemplateID(t, i, x) ==
    IF ~IsName(t, i) \/ ~IsOp(t, i + 1, <<"<">>) THEN NotRead
    ELSE Then(ParseTemplateArgumentList(t, i + 2, x),
              LAMBDA at, args : IF IsOp(t, at, <<">">>) THEN Read(at + 1, TemplateID(t[i].str, args)) ELSE NotRead)
ParseTypeName(t, i, x) ==
    IF ~IsName(t, i) THEN NotRead
    ELSE OrElse(ParseTemplateID(t, i, x), Read(i + 1, UnqualifiedID(t[i].str)))
ParseClassOrNamespaceName(t, i, x) == ParseTypeName(t, i, x)

(* The names before each "::", as a sequence.                              *)
ParseNestedNameSpecifier(t, i, x) ==
    Then(ParseClassOrNamespaceName(t, i, x), LAMBDA at, n :
        LET Longer(r) == Then(r, LAMBDA b, q : Read(b, QName(<<n>> \o q.parts)))
        IN  IF ~IsOp(t, at, Scope) THEN NotRead
            ELSE OrElse(Longer(ParseNestedNameSpecifier(t, at + 1, x)),
                        IF IsWord(t, at + 1, {"template"}) THEN Longer(ParseNestedNameSpecifier(t, at + 2, x))
                        ELSE Read(at + 1, QName(<<n>>))))

(* Any keyword is taken for a name.                                        *)
ParseUnqualifiedID(t, i, x) ==
    LET next == PeekNextToken(t, i + 1)
    IN  CASE IsName(t, i) -> ParseTypeName(t, i, x)
          [] IsWord(t, i, {"operator"}) -> IF next.kind = "operator" THEN Read(i + 2, UnqualifiedOpFuncID(next)) ELSE NotRead
          [] IsWord(t, i, Keywords \ {"operator"}) -> Read(i + 1, UnqualifiedID(t[i].str))
          [] IsOp(t, i, <<"~">>) -> Then(ParseTypeName(t, i + 1, x), LAMBDA at, n : Read(at, DestructorID(n)))
          [] OTHER -> NotRead
(* Behind a "::" that nothing nested follows, a token is lost.             *)
ParseQualifiedID(t, i, x) ==
    LET j == After(t, i, Scope)
        nested == Then(ParseNestedNameSpecifier(t, j, x), LAMBDA at, scope :
                      LET id == ParseUnqualifiedID(t, IF IsWord(t, at, {"template"}) THEN at + 1 ELSE at, x)
                      IN  IF id.is = "failed" THEN [is |-> "error"]
                          ELSE Then(id, LAMBDA b, n : Read(b, QualifiedIDExpr(<<scope>>, n))))
    IN  IF nested.is = "error" \/ (nested.is = "failed" /\ (j = i \/ j > Len(t))) THEN NotRead
        ELSE OrElse(nested, Then(ParseUnqualifiedID(t, j + 1, x), LAMBDA at, n : Read(at, QualifiedIDExpr(<<>>, n))))
ParseIDExpr(t, i, x) ==
    CASE IsOp(t, i, Scope) -> ParseQualifiedID(t, i, x)
      [] IsName(t, i) -> OrElse(ParseQualifiedID(t, i, x), ParseUnqualifiedID(t, i, x))
      [] OTHER -> ParseUnqualifiedID(t, i, x)

(***************************************************************************)
(* Types.                                                                  *)
(***************************************************************************)
Builtins == {"char", "wchar_t", "bool", "short", "int", "long", "signed", "unsigned", "float", "double", "void"}
ParseSimpleTypeSpecifier(t, i, x) ==
    LET j == After(t, i, Scope)
        nested == ParseNestedNameSpecifier(t, j, x)
        Named(at, scope) ==
            Then(ParseTypeName(t, at, x), LAMBDA b, n : Read(b, SimpleTypeSpec(scope, UnqualifiedID(n.text))))
    IN  IF IsWord(t, i, Builtins) THEN Read(i + 1, SimpleTypeSpec(<<>>, UnqualifiedID(t[i].str)))
        ELSE IF nested.is = "failed" THEN Named(j, <<>>)
        ELSE Then(nested, LAMBDA at, scope :
                 IF IsWord(t, at, {"template"})
                 THEN Then(ParseTemplateID(t, at + 1, x), LAMBDA b, n : Read(b, SimpleTypeSpec(<<scope>>, n)))
                 ELSE Named(at, <<scope>>))
(* "enum" and "typename" are tested for where they cannot be.              *)
ParseElaboratedTypeSpecifier(t, i, x) ==
    LET j == After(t, i + 1, Scope)
        nested == ParseNestedNameSpecifier(t, j, x)
        Named(at, elems) ==
            IF IsName(t, at) THEN Read(at + 1, ElaboratedTypeSpec(elems \o <<UnqualifiedID(t[at].str)>>)) ELSE NotRead
        key == UnqualifiedID(t[i].str)
    IN  IF ~IsWord(t, i, {"class", "struct", "union"}) THEN NotRead
        ELSE IF nested.is = "failed" THEN Named(j, <<key>>)
        ELSE Then(nested, LAMBDA at, scope : Named(at, <<key, scope>>))
ParseTypeSpecifier(t, i, x) ==
    OrElse(ParseSimpleTypeSpecifier(t, i, x),
    OrElse(ParseElaboratedTypeSpecifier(t, i, x),
           IF IsWord(t, i, {"const", "volatile"}) THEN Read(i + 1, CVTypeSpec(t[i].str[1])) ELSE NotRead))
RECURSIVE ParseTypeSpecifierSeq(_, _, _)
ParseTypeSpecifierSeq(t, i, x) ==
    Then(ParseTypeSpecifier(t, i, x), LAMBDA at, n :
        OrElse(Then(ParseTypeSpecifierSeq(t, at, x), LAMBDA b, ns : Read(b, <<n>> \o ns)), Read(at, <<n>>)))
ParseTypeID(t, i, x) == Then(ParseTypeSpecifierSeq(t, i, x), LAMBDA at, specs : Read(at, TypeID(specs)))

(* An argument is an expression whenever it can be read as one.            *)
ParseTemplateArgument(t, i, x) ==
    LET y == IF x = "plain" THEN "argument" ELSE x
    IN  OrElse(ParseAssignExpr(t, i, y), OrElse(ParseTypeID(t, i, y), ParseIDExpr(t, i, y)))
ParseTemplateArgumentList(t, i, x) ==
    Then(ParseTemplateArgument(t, i, x), LAMBDA at, n :
        IF IsOp(t, at, <<",">>) THEN Then(ParseTemplateArgumentList(t, at + 1, x), LAMBDA b, ns : Read(b, <<n>> \o ns))
        ELSE Read(at, <<n>>))

(***************************************************************************)
(* Expressions.                                                            *)
(***************************************************************************)
ParsePrimaryExpr(t, i, x) ==
    CASE IsWord(t, i, {"this"}) -> NotRead
      [] IsSign(t, i, "(") ->
            Then(ParseExpr(t, i + 1, "parentheses"), LAMBDA at, e :
                IF IsSign(t, at, ")") THEN Read(at + 1, ParenthesisPrimaryExpr(e)) ELSE NotRead)
      [] IsLiteral(PeekNextToken(t, i)) -> Read(i + 1, LiteralPrimaryExpr(t[i]))
      [] OTHER -> ParseIDExpr(t, i, x)
(* Without a primary expression it looks for a postfix expression, which   *)
(* starts with a primary expression.                                       *)
ParsePostfixExpr(t, i, x) == OrElse(ParsePrimaryExpr(t, i, x), Endless)
ParseUnaryExpr(t, i, x) == ParsePostfixExpr(t, i, x)
ParseCastExpr(t, i, x) ==
    LET cast == Then(ParseTypeID(t, i + 1, x), LAMBDA at, type :
                    IF IsSign(t, at, ")") THEN Then(ParseCastExpr(t, at + 1, x), LAMBDA b, e : Read(b, CStyleCastExpr(type, e)))
                    ELSE NotRead)
    IN  IF PeekNextToken(t, i) = NoToken THEN NotRead
        ELSE IF IsSign(t, i, "(") THEN OrElse(cast, ParseUnaryExpr(t, i, x))
        ELSE ParseUnaryExpr(t, i, x)

(* Operands read by one function with operators of one kind between them,  *)
(* grouped from the left.                                                  *)
Chain(Operand(_, _, _), operators, Made(_, _, _), t, i, x) ==
    LET RECURSIVE More(_, _)
        More(at, lhs) ==
            LET op == PeekNextToken(t, at)
            IN  IF op.kind # "operator" \/ op.str \notin operators THEN Read(at, lhs)
                ELSE Then(Operand(t, at + 1, x), LAMBDA b, rhs : More(b, Made(lhs, op.str, rhs)))
    IN  Then(Operand(t, i, x), More)

ParsePMExpr(t, i, x) == Chain(ParseCastExpr, {<<".", "*">>, <<"-", ">", "*">>}, PMExpr, t, i, x)
ParseMultExpr(t, i, x) == Chain(ParsePMExpr, {<<"*">>, <<"/">>, <<"%">>}, MultExpr, t, i, x)
ParseAddExpr(t, i, x) == Chain(ParseMultExpr, {<<"+">>, <<"-">>}, AddExpr, t, i, x)
ParseShiftExpr(t, i, x) == Chain(ParseAddExpr, {<<"<", "<">>, <<">", ">">>}, ShiftExpr, t, i, x)
(* In an argument of a template ">" and ">=" end a comparison.             *)
RelOperators(x) == {<<"<">>, <<"<", "=">>} \union (IF x = "argument" THEN {} ELSE {<<">">>, <<">", "=">>})
(* Variant: they compare there too.                                        *)
ParseRelExprAnywhere(t, i, x) == Chain(ParseShiftExpr, RelOperators("plain"), RelExpr, t, i, x)
ParseRelExpr(t, i, x) == Chain(ParseShiftExpr, RelOperators(x), RelExpr, t, i, x)
ParseEqExpr(t, i, x) == Chain(ParseRelExpr, {<<"=", "=">>, <<"!", "=">>}, EqExpr, t, i, x)
ParseAndExpr(t, i, x) == Chain(ParseEqExpr, {<<"&">>}, LAMBDA l, op, r : AndExpr(l, r), t, i, x)
ParseXORExpr(t, i, x) == Chain(ParseAndExpr, {<<"^">>}, LAMBDA l, op, r : XORExpr(l, r), t, i, x)
ParseORExpr(t, i, x) == Chain(ParseXORExpr, {<<"|">>}, LAMBDA l, op, r : ORExpr(l, r), t, i, x)
ParseLogAndExpr(t, i, x) == Chain(ParseORExpr, {<<"&", "&">>}, LAMBDA l, op, r : LogAndExpr(l, r), t, i, x)
ParseLogOrExpr(t, i, x) == Chain(ParseLogAndExpr, {<<"|", "|">>}, LAMBDA l, op, r : LogOrExpr(l, r), t, i, x)

ParseCondExpr(t, i, x) ==
    Then(ParseLogOrExpr(t, i, x), LAMBDA at, c :
        IF ~IsSign(t, at, "?") THEN Read(at, c)
        ELSE Then(ParseExpr(t, at + 1, x), LAMBDA b, yes :
                 IF ~IsSign(t, b, ":") THEN NotRead
                 ELSE Then(ParseAssignExpr(t, b + 1, x), LAMBDA e, no : Read(e, CondExpr(c, yes, no)))))

(* ">>" and "<<" stand for the assignments, which are not among them.      *)
AssignOperators == {<<"=">>} \union {Append(o, "=") : o \in {<<"*">>, <<"/">>, <<"%">>, <<"+">>, <<"-">>, <<"&">>, <<"^">>, <<"|">>}}
Shifting == {<<">", ">">>, <<"<", "<">>}
ParseAssignExpr(t, i, x) ==
    LET assign == Then(ParseLogOrExpr(t, i, x), LAMBDA at, lhs :
                      LET op == PeekNextToken(t, at)
                          named == IF op.str \in Shifting THEN Append(op.str, "=") ELSE op.str
                      IN  IF op.kind # "operator" \/ op.str \notin AssignOperators \union Shifting THEN NotRead
                          ELSE Then(ParseAssignExpr(t, at + 1, x), LAMBDA b, rhs : Read(b, FullAssignExpr(lhs, named, rhs))))
    IN  OrElse(assign, ParseCondExpr(t, i, x))

RECURSIVE ParseExprs(_, _, _)
ParseExprs(t, i, x) ==
    Then(ParseAssignExpr(t, i, x), LAMBDA at, n :
        IF IsOp(t, at, <<",">>) THEN Then(ParseExprs(t, at + 1, x), LAMBDA b, ns : Read(b, <<n>> \o ns)) ELSE Read(at, <<n>>))
ParseExpr(t, i, x) == Then(ParseExprs(t, i, x), LAMBDA at, ns : Read(at, Expr(ns)))
ParseConstExpr(t, i, x) == ParseCondExpr(t, i, x)

(***************************************************************************)
(* Declarations.                                                           *)
(***************************************************************************)
StorageWords == {"auto", "register", "static", "extern", "mutable", "friend", "typedef"}
ParseDeclSpecifier(t, i) ==
    IF IsWord(t, i, StorageWords) THEN Read(i + 1, StorageSpecifier(t[i].str[1])) ELSE ParseTypeSpecifier(t, i, "plain")

(* What a simple type may have behind it, and whether that closes the type:*)
(* "long unsigned" may go on.                                              *)
Combines(name) ==
    CASE name \in {<<"signed">>, <<"unsigned">>} -> {"char", "long", "short", "int"}
      [] name = <<"short">> -> {"int", "unsigned", "signed"}
      [] name = <<"long">> -> {"int", "unsigned", "signed", "double"}
      [] OTHER -> {}
Closes(name, second) == IF second = <<>> THEN name \notin {<<"signed">>, <<"unsigned">>} ELSE second[1] \notin {"unsigned", "signed"}
SimpleName(n) == Last(n.parts).text
RECURSIVE DeclSpecifiers(_, _, _, _)
DeclSpecifiers(t, i, typed, specs) ==
    LET r == ParseDeclSpecifier(t, i)
        n == r.node
        same == n.of = "CVTypeSpec" /\ IsWord(t, r.at, {n.text[1]})
        second == IF IsWord(t, r.at, Combines(SimpleName(n))) THEN t[r.at].str ELSE <<>>
    IN  IF r.is = "endless" THEN r
        ELSE IF r.is = "failed" \/ (n.of # "StorageSpecifier" /\ typed)
        THEN (IF specs = <<>> THEN NotRead ELSE Read(i, specs))
        ELSE CASE n.of = "StorageSpecifier" -> DeclSpecifiers(t, r.at, typed, Append(specs, n))
               [] n.of = "CVTypeSpec" -> IF same THEN NotRead ELSE DeclSpecifiers(t, r.at, typed, Append(specs, n))
               [] n.of = "ElaboratedTypeSpec" -> DeclSpecifiers(t, r.at, TRUE, Append(specs, n))
               [] n.of = "SimpleTypeSpec" ->
                     DeclSpecifiers(t, r.at + Len(second), Closes(SimpleName(n), second),
                                    Append(specs, n) \o (IF second = <<>> THEN <<>> ELSE <<SimpleTypeSpec(<<>>, UnqualifiedID(second))>>))
ParseDeclSpecifierSeq(t, i) == DeclSpecifiers(t, i, FALSE, <<>>)

ParseDeclaratorID(t, i) ==
    LET j == After(t, i, Scope)
        nested == ParseNestedNameSpecifier(t, j, "plain")
        Named(at, scope) == Then(ParseTypeName(t, at, "plain"), LAMBDA b, n : Read(b, IDDeclarator(QualifiedIDExpr(scope, n))))
    IN  OrElse(Then(ParseIDExpr(t, i, "plain"), LAMBDA at, id : Read(at, IDDeclarator(id))),
               IF nested.is = "failed" THEN Named(j, <<>>) ELSE Then(nested, LAMBDA at, scope : Named(at, <<scope>>)))
ParseDirectDeclarator(t, i) ==
    Then(ParseDeclaratorID(t, i), LAMBDA at, d :
        IF ~IsSign(t, at, "[") THEN Read(at, d)
        ELSE IF IsSign(t, at + 1, "]") THEN Read(at + 2, ArrayDeclarator(d, <<>>))
        ELSE Then(ParseConstExpr(t, at + 1, "plain"), LAMBDA b, size :
                 IF IsSign(t, b, "]") THEN Read(b + 1, ArrayDeclarator(d, <<size>>)) ELSE NotRead))

ParseCVQualifier(t, i) == IF IsWord(t, i, {"const", "volatile"}) THEN Read(i + 1, UnqualifiedID(t[i].str)) ELSE NotRead
RECURSIVE ParseCVQualifierSeq(_, _)
ParseCVQualifierSeq(t, i) ==
    Then(ParseCVQualifier(t, i), LAMBDA at, q :
        OrElse(Then(ParseCVQualifierSeq(t, at), LAMBDA b, qs : Read(b, <<q>> \o qs)), Read(at, <<q>>)))
(* A scope is read and not kept, and so is the token before it.            *)
RECURSIVE ParsePtrOperator(_, _)
ParsePtrOperator(t, i) ==
    LET star == UnqualifiedID(<<"*">>)
        cvs == ParseCVQualifierSeq(t, i + 1)
    IN  CASE IsOp(t, i, <<"&">>) -> Read(i + 1, PtrOperator(<<UnqualifiedID(<<"&">>)>>))
          [] IsOp(t, i, <<"*">>) -> IF cvs.is = "read" THEN Read(cvs.at, PtrOperator(<<star>> \o cvs.node))
                                    ELSE Read(i + 1, PtrOperator(<<star>>))
          [] OTHER -> Then(ParseNestedNameSpecifier(t, i + 1, "plain"), LAMBDA at, scope : ParsePtrOperator(t, at))
RECURSIVE ParseDeclarator(_, _)
ParseDeclarator(t, i) ==
    OrElse(Then(ParseDirectDeclarator(t, i), LAMBDA at, d : Read(at, Declarator(<<>>, d))),
           Then(ParsePtrOperator(t, i), LAMBDA at, p :
               Then(ParseDeclarator(t, at), LAMBDA b, d : Read(b, Declarator(<<p>>, d)))))
ParseInitDeclarator(t, i) == ParseDeclarator(t, i)
(* The comma between two declarators is looked at and not consumed.        *)
RECURSIVE ParseInitDeclaratorList(_, _)
ParseInitDeclaratorList(t, i) ==
    Then(ParseInitDeclarator(t, i), LAMBDA at, d :
        IF ~IsOp(t, at, <<",">>) THEN Read(at, <<d>>)
        ELSE OrElse(Then(ParseInitDeclaratorList(t, at), LAMBDA b, ds : Read(b, <<d>> \o ds)), Read(at, <<d>>)))
NoDeclaration == Node("none", <<>>, <<>>)
ParseSimpleDeclaration(t, i) ==
    LET specs == ParseDeclSpecifierSeq(t, i)
        inits == ParseInitDeclaratorList(t, specs.at)
    IN  IF specs.is = "failed" THEN Read(i, NoDeclaration)
        ELSE IF specs.is = "endless" THEN specs
        ELSE CASE inits.is = "endless" -> inits
               [] inits.is = "failed" -> Read(specs.at, SimpleDeclaration(specs.node, <<>>))
               [] inits.is = "read" -> Read(inits.at, SimpleDeclaration(specs.node, inits.node))
=============================================================================
