------------------------------- MODULE AsmParser -------------------------------
(***************************************************************************)
(* The grammar of the assembler (AsmParser.g4): whether a text follows it    *)
(* and the tree of its rules.                                                *)
(*                                                                          *)
(* A blank line has no tokens.  A rule within a line leads from a token to   *)
(* the one behind, a rule of several lines from a line to a tree whose end   *)
(* is the line behind; 0 is a syntax error.  The error listener raises on    *)
(* the first one.                                                            *)
(***************************************************************************)
EXTENDS AsmLexer

\* A line is made of the tokens of a rule and nothing else.
Whole(l, next) == next = Len(l) + 1

--------------------------------------------------------------------------------
(* Rules within a line.                                                         *)

name(l, i) == i \in DOMAIN l /\ l[i].type \in Keywords \cup {"WORD", "WORD_WITH_DOTS"}
label(l, i) == name(l, i)
instruction(l, i) == Has(l, i, "WORD")
branch_mnemonic(l, i) == Has(l, i, "WORD")
conjunction(l, i) == Has(l, i, "WORD")
number(l, i) == Has(l, i, "NUMBER")
line_number(l, i) == number(l, i)
filepath(l, i) == Has(l, i, "BASE64")
byte_specifier(l, i) == Has(l, i, "WORD")
character(l, i) == Has(l, i, "CHAR")
string(l, i) == Has(l, i, "STRING")
register(l, i) == Has(l, i, "REGISTER")
term(l, i) == number(l, i) \/ label(l, i)
Sign(l, i) == Has(l, i, "+") \/ Has(l, i, "-")

\* The token behind rule(i) (rule(i))* with a separator that Joins(i).
Many(l, first, Rule(_), Joins(_)) ==
    LET after[i \in 0 .. Len(l) + 1] ==
            IF i = 0 \/ Rule(i) = 0 THEN 0
            ELSE IF Joins(Rule(i)) THEN after[Rule(i) + 1] ELSE Rule(i)
    IN after[first]

labels(l, i) == LET Label(j) == IF label(l, j) THEN j + 1 ELSE 0
                    Comma(j) == Has(l, j, ",")
                IN Many(l, i, Label, Comma)

labels_declaration(l, i) ==
    LET j == labels(l, i) IN IF j # 0 /\ (Has(l, j, ":") \/ Has(l, j, ">")) THEN j + 1 ELSE 0

\* The places of the terms: a sign goes before each but the first, which may have one.
first_term(l, i) == IF Sign(l, i) THEN i + 1 ELSE i
add_term(l, i) == IF Sign(l, i) /\ term(l, i + 1) THEN i + 1 ELSE 0

Terms(l, i) ==
    LET terms[j \in 0 .. Len(l) + 1] == IF j = 0 THEN {} ELSE {j} \cup terms[add_term(l, j + 1)]
    IN IF term(l, first_term(l, i)) THEN terms[first_term(l, i)] ELSE {}

addr_expr(l, i) == IF Terms(l, i) = {} THEN 0 ELSE Max(Terms(l, i)) + 1

byte_expr(l, i) ==
    LET close == addr_expr(l, i + 2)
    IN IF byte_specifier(l, i) /\ Has(l, i + 1, "(") /\ close # 0 /\ Has(l, close, ")")
       THEN close + 1 ELSE 0

argument(l, i) ==
    IF character(l, i) \/ string(l, i) \/ register(l, i) THEN i + 1
    ELSE IF byte_expr(l, i) # 0 THEN byte_expr(l, i) ELSE addr_expr(l, i)

arguments(l, i) == LET Argument(j) == argument(l, j)
                       Comma(j) == Has(l, j, ",")
                   IN Many(l, i, Argument, Comma)

\* Where the instruction of a line is, behind its labels.
Operation(l) == IF labels_declaration(l, 1) = 0 THEN 1 ELSE labels_declaration(l, 1)

StandaloneLabels(l) ==
    LET j == labels_declaration(l, 1)
    IN j # 0 /\ (Whole(l, j) \/ (Has(l, j, "ext") /\ Whole(l, j + 1)))
InstructionLine(l) ==
    LET j == Operation(l)
    IN instruction(l, j) /\ (Whole(l, j + 1) \/ Whole(l, arguments(l, j + 1)))
line(l) == StandaloneLabels(l) \/ InstructionLine(l)
top_line(l) == line(l)

asect_header(l) == Has(l, 1, "asect") /\ number(l, 2) /\ Len(l) = 2
rsect_header(l) == Has(l, 1, "rsect") /\ name(l, 2) /\ Len(l) = 2
tplate_header(l) == Has(l, 1, "tplate") /\ name(l, 2) /\ Len(l) = 2
break_statement(l) == Has(l, 1, "break") /\ Len(l) = 1
continue_statement(l) == Has(l, 1, "continue") /\ Len(l) = 1
line_mark(l) == /\ Has(l, 1, "-|") /\ line_number(l, 2) /\ filepath(l, 3)
                /\ Len(l) = 3 \/ (Len(l) = 4 /\ Has(l, 4, "WORD"))

\* Lines that are one keyword, and one that is a keyword and a branch mnemonic.
Only(l, keyword) == Has(l, 1, keyword) /\ Len(l) = 1
Tested(l, keyword) == Has(l, 1, keyword) /\ branch_mnemonic(l, 2)

--------------------------------------------------------------------------------
(* Rules of several lines of a text t.  A blank line is part of the line break   *)
(* before it.                                                                    *)

LineAt(t, i) == IF i \in DOMAIN t THEN t[i] ELSE <<>>
After(t, i) == IF i = 0 THEN 0
               ELSE Min({j \in i + 1 .. Len(t) : t[j] # <<>>} \cup {Len(t) + 1})
FirstLine(t) == Min({j \in DOMAIN t : t[j] # <<>>} \cup {Len(t) + 1})
If(test, i) == IF test THEN i ELSE 0

RECURSIVE code_block(_, _)

condition(t, i) ==
    LET block == code_block(t, i)
    IN [block |-> block, at |-> If(Tested(LineAt(t, block.end), "is"), block.end)]

connective_condition(t, i) ==
    LET c == condition(t, i) l == LineAt(t, c.at)
    IN c.at # 0 /\ Has(l, 3, ",") /\ conjunction(l, 4) /\ Len(l) = 4

RECURSIVE conditions(_, _)
conditions(t, i) ==
    LET c == condition(t, i)
        more == conditions(t, After(t, c.at))
        next == After(t, c.at)
    IN IF connective_condition(t, i) THEN [list |-> <<c>> \o more.list, end |-> more.end]
       ELSE [list |-> <<c>>,
             end |-> IF Len(LineAt(t, c.at)) # 2 THEN 0
                     ELSE IF Only(LineAt(t, next), "then") THEN After(t, next) ELSE next]

else_clause(t, i) == code_block(t, After(t, i))

conditional(t, i) ==
    LET conds == conditions(t, After(t, i))
        then == code_block(t, conds.end)
        hasElse == Only(LineAt(t, then.end), "else")
        else == IF hasElse THEN else_clause(t, then.end) ELSE [end |-> then.end, items |-> <<>>]
    IN [rule |-> "conditional", at |-> i, conditions |-> conds.list, then |-> then,
        hasElse |-> hasElse, else |-> else,
        end |-> If(Only(LineAt(t, else.end), "fi"), After(t, else.end))]

while_condition(t, i) == code_block(t, i)

while_loop(t, i) ==
    LET cond == while_condition(t, After(t, i))
        stays == LineAt(t, cond.end)
        body == code_block(t, If(Tested(stays, "stays") /\ Len(stays) = 2, After(t, cond.end)))
    IN [rule |-> "while_loop", at |-> i, condition |-> cond, body |-> body,
        end |-> If(Only(LineAt(t, body.end), "wend"), After(t, body.end))]

until_loop(t, i) ==
    LET body == code_block(t, After(t, i))
        until == LineAt(t, body.end)
    IN [rule |-> "until_loop", at |-> i, body |-> body,
        end |-> If(Tested(until, "until") /\ Len(until) = 2, After(t, body.end))]

Statement(t, i) ==
    LET l == LineAt(t, i)
        Plain(rule) == [rule |-> rule, at |-> i, end |-> After(t, i)]
    IN CASE Only(l, "if") -> conditional(t, i)
         [] Only(l, "while") -> while_loop(t, i)
         [] Only(l, "do") -> until_loop(t, i)
         [] break_statement(l) -> Plain("break_statement")
         [] continue_statement(l) -> Plain("continue_statement")
         [] line_mark(l) -> Plain("line_mark")
         [] StandaloneLabels(l) -> Plain("standaloneLabels")
         [] InstructionLine(l) -> Plain("instructionLine")
         [] OTHER -> Plain("none")

\* As many statements as there are.
code_block(t, i) ==
    LET s == Statement(t, i)
        rest == code_block(t, s.end)
    IN IF s.rule = "none" THEN [end |-> i, items |-> <<>>]
       ELSE IF s.end = 0 THEN [end |-> 0, items |-> <<>>]
       ELSE [end |-> rest.end, items |-> <<s>> \o rest.items]

section_body(t, i) == code_block(t, i)

Header(l) == asect_header(l) \/ rsect_header(l) \/ tplate_header(l)
section(t, i) == LET body == section_body(t, After(t, i))
                 IN [rule |-> t[i][1].type, at |-> i, body |-> body, end |-> body.end]

RECURSIVE Sections(_, _)
Sections(t, i) ==
    IF ~Header(LineAt(t, i)) THEN [list |-> <<>>, end |-> i]
    ELSE LET s == section(t, i) rest == Sections(t, s.end)
         IN [list |-> <<s>> \o rest.list, end |-> rest.end]

\* The first line from i on that is neither blank nor one of lines.
Past(t, i, lines) == Min({j \in i .. Len(t) : t[j] # <<>> /\ j \notin lines} \cup {Len(t) + 1})

\* Whatever follows end is not read.
program(t) ==
    LET first == Past(t, 1, {j \in DOMAIN t : line_mark(t[j])})
        top == Past(t, first, {j \in DOMAIN t : top_line(t[j])})
        sections == Sections(t, top)
    IN [top |-> {i \in first .. top - 1 : t[i] # <<>>}, sections |-> sections.list,
        end |-> If(line_mark(LineAt(t, FirstLine(t))) /\ Has(LineAt(t, sections.end), 1, "end"),
                   sections.end)]

================================================================================
