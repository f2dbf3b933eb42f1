-------------------------------- MODULE AstNodes --------------------------------
(***************************************************************************)
(* The nodes of the assembler's syntax tree.  A name of an expression is a    *)
(* label; add and sub are sequences of them, fields the fields of templates   *)
(* among the added terms.  Of a string only the number of its bytes is kept.  *)
(***************************************************************************)
EXTENDS Integers, SequencesExt, FiniteSetsExt

CONSTANT Dotted     \* names with dots: [template |-> first part, field |-> the rest]

\* A function of 1 .. n as the sequence it is, and the joined sequences of such a function.
Sequence(f) == f \o <<>>
Flat(f) == FlattenSeq(Sequence(f))

\* The numbers of a set in order.
Ordered(S) == LET In(i) == i \in S IN SelectSeq([i \in 1 .. Max(S \cup {0}) |-> i], In)

CodeLocation(file, line) == [file |-> file, line |-> line]
NoLocation == CodeLocation("", 0)

RegisterNode(n) == [arg |-> "register", n |-> n]
StringLiteralNode(size) == [arg |-> "string", n |-> size]
RelocatableExpressionNode(byte, add, sub, const) ==
    [arg |-> "expr", byte |-> byte, add |-> add, sub |-> sub, const |-> const, fields |-> <<>>]

LabelDeclarationNode(w, entry, external, loc) ==
    [node |-> "label", name |-> w, entry |-> entry, external |-> external, loc |-> loc]
InstructionNode(mnemonic, args, loc) ==
    [node |-> "instruction", mnemonic |-> mnemonic, args |-> args, loc |-> loc]

ConditionNode(lines, mnemonic, conjunction, loc) ==
    [lines |-> lines, mnemonic |-> mnemonic, conjunction |-> conjunction, loc |-> loc]
ConditionalStatementNode(conditions, then, else, loc) ==
    [node |-> "if", conditions |-> conditions, then |-> then, else |-> else, loc |-> loc]
WhileLoopNode(condition, mnemonic, lines, loc, stays) ==
    [node |-> "while", condition |-> condition, mnemonic |-> mnemonic, lines |-> lines,
     loc |-> loc, stays |-> stays]
UntilLoopNode(lines, mnemonic, loc) ==
    [node |-> "until", lines |-> lines, mnemonic |-> mnemonic, loc |-> loc]
BreakStatementNode(loc) == [node |-> "break", loc |-> loc]
ContinueStatementNode(loc) == [node |-> "continue", loc |-> loc]

AbsoluteSectionNode(lines, address) == [lines |-> lines, address |-> address]
RelocatableSectionNode(lines, name) == [lines |-> lines, name |-> name]
TemplateSectionNode(lines, name) == [lines |-> lines, name |-> name]

================================================================================
