------------------------------- MODULE AstBuilder -------------------------------
(***************************************************************************)
(* BuildAstVisitor: the syntax tree of a text, and what it refuses in a text *)
(* that follows the grammar.  Line marks say which file and line a line      *)
(* comes from; between mstart and mstop all lines come from the line of the   *)
(* macro call.                                                               *)
(***************************************************************************)
EXTENDS AsmParser

\* The line marks above line seen; the one that counts is the last.
Marks(t, seen) == {m \in 1 .. seen - 1 : line_mark(LineAt(t, m))}
Info(t, m) == IF Len(t[m]) = 4 THEN t[m][4].text ELSE ""

visitLine_mark(t, m) == CodeLocation(t[m][3].text, t[m][2].n)

\* The location of line i when the lines up to seen have been visited.
_ctx_location(t, i, seen) ==
    LET marks == Marks(t, seen)
        bounds == {m \in marks : Info(t, m) \in {"mstart", "mstop"}}
        last == Max(marks)
        in_macro == bounds # {} /\ Info(t, Max(bounds)) = "mstart"
    IN IF in_macro THEN visitLine_mark(t, Max(bounds))
       ELSE [visitLine_mark(t, last) EXCEPT !.line = @ + i - last - 1]

Here(t, i) == _ctx_location(t, i, i)

--------------------------------------------------------------------------------
(* Parts of a line.                                                             *)

visitNumber(l, i) == l[i].n
visitName(l, i) == l[i].text

\* Of a string only its bytes count; a size below 0 is a malformed escape.
visitString(l, i) == StringLiteralNode(l[i].n)
visitCharacter(l, i) == StringLiteralNode(l[i].n)
visitRegister(l, i) == RegisterNode(l[i].n)

visitAddr_expr(l, i, byte) ==
    LET Minus(j) == Has(l, j - 1, "-") /\ j > i
        Is(minus, num) == Ordered({j \in Terms(l, i) : Minus(j) = minus /\ number(l, j) = num})
        names(minus) == Sequence([n \in DOMAIN Is(minus, FALSE) |-> visitName(l, Is(minus, FALSE)[n])])
        total(minus) == FoldLeft(LAMBDA sum, j : sum + visitNumber(l, j), 0, Is(minus, TRUE))
    IN RelocatableExpressionNode(byte, names(FALSE), names(TRUE), total(FALSE) - total(TRUE))

visitByte_expr(l, i) == visitAddr_expr(l, i + 2, l[i].text)

visitArgument(l, i) ==
    CASE character(l, i) -> visitCharacter(l, i)
      [] string(l, i) -> visitString(l, i)
      [] register(l, i) -> visitRegister(l, i)
      [] byte_expr(l, i) # 0 -> visitByte_expr(l, i)
      [] OTHER -> visitAddr_expr(l, i, "")

visitArguments(l, i) ==
    LET args[j \in 0 .. Len(l)] ==
            <<visitArgument(l, j)>> \o
            IF Has(l, argument(l, j), ",") THEN args[argument(l, j) + 1] ELSE <<>>
    IN IF i > Len(l) THEN <<>> ELSE args[i]

visitLabels_declaration(l, external, loc) ==
    LET colon == labels_declaration(l, 1) - 1
    IN IF colon < 1 THEN <<>>
       ELSE Sequence([n \in 1 .. colon \div 2 |->
                LabelDeclarationNode(visitName(l, 2 * n - 1), Has(l, colon, ">"), external, loc)])

visitStandaloneLabels(t, i) ==
    visitLabels_declaration(t[i], Has(t[i], Len(t[i]), "ext"), Here(t, i))

visitInstructionLine(t, i) ==
    LET op == Operation(t[i])
    IN Append(visitLabels_declaration(t[i], FALSE, Here(t, i)),
              InstructionNode(t[i][op].text, visitArguments(t[i], op + 1), Here(t, i)))

--------------------------------------------------------------------------------
(* Blocks.                                                                      *)

RECURSIVE visitCode_block(_, _)

visitCondition(t, c) ==
    ConditionNode(visitCode_block(t, c.block.items), t[c.at][2].text, "", Here(t, c.at))

visitConnective_condition(t, c) == [visitCondition(t, c) EXCEPT !.conjunction = t[c.at][4].text]

visitConditions(t, list) ==
    Sequence([n \in DOMAIN list |-> IF n < Len(list) THEN visitConnective_condition(t, list[n])
                                    ELSE visitCondition(t, list[n])])

visitElse_clause(t, tree) == visitCode_block(t, tree.else.items)

\* Mutant: the lines of an else are lost.
visitThen(t, tree) ==
    ConditionalStatementNode(visitConditions(t, tree.conditions), visitCode_block(t, tree.then.items),
                             <<>>, NoLocation)

\* The location of else is taken after the marks inside its lines.
visitConditional(t, tree) ==
    ConditionalStatementNode(
        visitConditions(t, tree.conditions), visitCode_block(t, tree.then.items),
        visitElse_clause(t, tree),
        IF tree.hasElse THEN _ctx_location(t, tree.then.end, tree.else.end) ELSE NoLocation)

visitWhile_condition(t, tree) == visitCode_block(t, tree.condition.items)

visitWhile_loop(t, tree) ==
    WhileLoopNode(visitWhile_condition(t, tree), t[tree.condition.end][2].text,
                  visitCode_block(t, tree.body.items), Here(t, tree.at), Here(t, tree.condition.end))

visitUntil_loop(t, tree) ==
    UntilLoopNode(visitCode_block(t, tree.body.items), t[tree.body.end][2].text, Here(t, tree.body.end))

visitStatement(t, s) ==
    CASE s.rule = "standaloneLabels" -> visitStandaloneLabels(t, s.at)
      [] s.rule = "instructionLine" -> visitInstructionLine(t, s.at)
      [] s.rule = "conditional" -> <<visitConditional(t, s)>>
      [] s.rule = "while_loop" -> <<visitWhile_loop(t, s)>>
      [] s.rule = "until_loop" -> <<visitUntil_loop(t, s)>>
      [] s.rule = "break_statement" -> <<BreakStatementNode(Here(t, s.at))>>
      [] s.rule = "continue_statement" -> <<ContinueStatementNode(Here(t, s.at))>>
      [] s.rule = "line_mark" -> <<>>

visitCode_block(t, items) == Flat([n \in DOMAIN items |-> visitStatement(t, items[n])])

--------------------------------------------------------------------------------
(* Programs.                                                                    *)

visitSection_body(t, s) == visitCode_block(t, s.body.items)

visitAbsoluteSection(t, s) == AbsoluteSectionNode(visitSection_body(t, s), visitNumber(t[s.at], 2))
visitRelocatableSection(t, s) == RelocatableSectionNode(visitSection_body(t, s), visitName(t[s.at], 2))
visitTemplateSection(t, s) == TemplateSectionNode(visitSection_body(t, s), visitName(t[s.at], 2))

visitTop_line(t, i) ==
    {decl.name : decl \in ToSet(visitLabels_declaration(t[i], TRUE, Here(t, i)))}

visitProgram(t, tree) ==
    LET Of(kind, s) == s.rule = kind
        sects(kind) == SelectSeq(tree.sections, LAMBDA s : Of(kind, s))
    IN [asects |-> Sequence([n \in DOMAIN sects("asect") |-> visitAbsoluteSection(t, sects("asect")[n])]),
        rsects |-> Sequence([n \in DOMAIN sects("rsect") |-> visitRelocatableSection(t, sects("rsect")[n])]),
        templates |-> Sequence([n \in DOMAIN sects("tplate") |-> visitTemplateSection(t, sects("tplate")[n])]),
        externals |-> UNION {visitTop_line(t, i) : i \in tree.top}]

\* What the visitor refuses.  No target allows an instruction at the top of a file.
BadTopLine(l) == ~(StandaloneLabels(l) /\ Has(l, Len(l), "ext"))
BadName(l) == Has(l, 1, "tplate") /\ l[2].text \in DOMAIN Dotted
BadLabels(l) == Has(l, Len(l), "ext") /\ Has(l, Len(l) - 1, ">")
BadConjunction(l) == Has(l, 1, "is") /\ Len(l) = 4 /\ l[4].text \notin {"and", "or"}
BadToken(token) == \/ token.type = "WORD_WITH_DOTS" /\ token.text = "."
                   \/ token.type = "STRING" /\ token.n < 0
                   \/ token.type = "CHAR" /\ token.n # 1

Refused(t, tree) ==
    \/ \E i \in tree.top : BadTopLine(t[i])
    \/ \E i \in 1 .. tree.end - 1 :
          \/ BadName(t[i]) \/ BadLabels(t[i]) \/ BadConjunction(t[i])
          \/ \E j \in DOMAIN t[i] : BadToken(t[i][j])

\* build_ast: the program, or the kind of exception.
build_ast(t) ==
    LET tree == program(t) IN
    IF tree.end = 0 THEN [error |-> "syntax error"]
    ELSE IF Refused(t, tree) THEN [error |-> "refused"]
    ELSE [error |-> "", program |-> visitProgram(t, tree)]

================================================================================
