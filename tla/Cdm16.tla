--------------------------------- MODULE Cdm16 ---------------------------------
(***************************************************************************)
(* The assembler's target CdM-16: the segments that the instructions of a    *)
(* line become, how those of varying length choose it, and what each fills    *)
(* into its section.  Encodings are left out but for the distance of a short  *)
(* branch; a value that goes into the code as a word or an immediate is kept. *)
(***************************************************************************)
EXTENDS ObjectModule, AstNodes

NoExpression == RelocatableExpressionNode("", <<>>, <<>>, 0)
Segment(kind, size, loc) ==
    [kind |-> kind, size |-> size, loc |-> loc, alignment |-> 1, expr |-> NoExpression,
     code |-> 0, negative |-> FALSE, locked |-> FALSE, pos |-> 0]

BytesSegment(size, loc) == Segment("bytes", size, loc)
InstructionSegment(kind, size, loc) == [Segment(kind, size, loc) EXCEPT !.alignment = 2]
InstructionBytesSegment(loc) == InstructionSegment("instruction", 2, loc)
ExpressionSegment(expr, loc) == [Segment("expression", 2, loc) EXCEPT !.expr = expr]
AlignmentPaddingSegment(alignment, loc) ==
    [Segment("padding", alignment, loc) EXCEPT !.alignment = alignment]
LdiSegment(expr, loc) == [InstructionSegment("ldi", 2, loc) EXCEPT !.expr = expr]
Branch(loc, code, expr, operation) ==
    [InstructionSegment(operation, 2, loc) EXCEPT !.expr = expr, !.code = code]
Imm6(loc, negative, expr, kind) ==
    [InstructionSegment(kind, 2, loc) EXCEPT !.expr = expr, !.negative = negative]
Imm9(loc, expr) == [InstructionSegment("imm9", 2, loc) EXCEPT !.expr = expr]

Varying(seg) == seg.kind \in {"padding", "ldi", "branch", "jsr"}
Instruction(seg) == seg.kind \notin {"bytes", "expression", "padding"}
Grows(seg) == seg.kind \in {"ldi", "branch", "jsr"}

Kinds == {"bytes", "instruction", "expression", "padding", "ldi", "branch", "jsr", "imm6", "imm6_word", "imm9"}

\* What segments are: one of a growing kind has two bytes until it is locked.
IsSequence(s) == s \in Seq(Range(s))
IsExpression(expr) ==
    /\ IsSequence(expr.add) /\ IsSequence(expr.sub) /\ IsSequence(expr.fields)
    /\ Range(expr.fields) \subseteq DOMAIN Dotted /\ expr.const \in Int
IsSegment(seg) ==
    /\ DOMAIN seg = DOMAIN Segment("bytes", 0, NoLocation)
    /\ seg.kind \in Kinds /\ seg.size \in Nat /\ seg.alignment \in Nat \ {0} /\ seg.pos \in Int
    /\ IsExpression(seg.expr) /\ {seg.locked, seg.negative} \subseteq BOOLEAN
    /\ Grows(seg) => seg.size = IF seg.locked THEN 4 ELSE 2
    /\ seg.kind # "padding" => seg.alignment = IF Instruction(seg) THEN 2 ELSE 1
    /\ seg.negative => seg.kind = "imm6"

--------------------------------------------------------------------------------
(* From a line to its segments.                                                 *)

Fails == [error |-> TRUE, segments |-> <<>>, saves |-> 0]
Gives(segments, saves) == [error |-> FALSE, segments |-> segments, saves |-> saves]

\* The codes of the conditions; those of a pair are each other's inverse.
branch_codes ==
    [eq |-> 0, z |-> 0, ne |-> 1, nz |-> 1, hs |-> 2, cs |-> 2, lo |-> 3, cc |-> 3,
     mi |-> 4, pl |-> 5, vs |-> 6, vc |-> 7, hi |-> 8, ls |-> 9, ge |-> 10, lt |-> 11,
     gt |-> 12, le |-> 13, anything |-> 14, true |-> 14, r |-> 14, false |-> 15]
Inverse_code(c) == IF c % 2 = 0 THEN c + 1 ELSE c - 1

\* The mnemonics that are b and a condition.
BranchMnemonics ==
    [beq |-> "eq", bz |-> "z", bne |-> "ne", bnz |-> "nz", bhs |-> "hs", bcs |-> "cs",
     blo |-> "lo", bcc |-> "cc", bmi |-> "mi", bpl |-> "pl", bvs |-> "vs", bvc |-> "vc",
     bhi |-> "hi", bls |-> "ls", bge |-> "ge", blt |-> "lt", bgt |-> "gt", ble |-> "le",
     banything |-> "anything", btrue |-> "true", br |-> "r", bfalse |-> "false"]

make_branch_instruction(loc, mnemonic, w, inverse) ==
    LET code == branch_codes[mnemonic]
    IN Branch(loc, IF inverse THEN Inverse_code(code) ELSE code,
              RelocatableExpressionNode("", <<w>>, <<>>, 0), "branch")

IsConst(arg) == arg.arg = "expr" /\ arg.add = <<>> /\ arg.sub = <<>> /\ arg.fields = <<>>
FramePointer == RelocatableExpressionNode("", <<"fp">>, <<>>, 0)
handle_frame_pointer(args) ==
    Sequence([i \in DOMAIN args |-> IF args[i] = FramePointer THEN RegisterNode(7) ELSE args[i]])

\* The kinds of the arguments, where every register is one.
assert_args(args, kinds) ==
    /\ [i \in DOMAIN args |-> args[i].arg] \in kinds
    /\ \A i \in DOMAIN args : args[i].arg = "register" => args[i].n \in 0 .. 7

R == "register"
E == "expr"

\* The instructions of one word and the arguments they take.
op0 == {"halt", "wait", "ei", "di", "rti", "pupc", "popc", "pusp", "posp", "pups", "pops"}
op1 == {"pop", "jsrr", "ldsp", "stsp", "ldps", "stps", "ldpc", "stpc"}
op2 == {"move", "bit"}
mem == {"ldw", "ldb", "ldsb", "lcw", "lcb", "lcsb", "stw", "stb"}
alu2 == {"neg", "not", "sxt", "scl"}
alu3 == {"and", "or", "xor", "bic", "addc", "subc"}
OneWord(m) ==
    CASE m \in op0 -> {<<>>}
      [] m \in op1 -> {<<R>>}
      [] m \in op2 \cup {"cmp"} -> {<<R, R>>}
      [] m \in mem -> {<<R, R>>, <<R, R, R>>}
      [] m \in alu2 -> {<<R>>, <<R, R>>}
      [] m \in alu3 \cup {"add", "sub"} -> {<<R, R>>, <<R, R, R>>}
      [] m \in {"push", "addsp"} -> {<<R>>}
      [] OTHER -> {}

ds(args, loc) ==
    IF assert_args(args, {<<E>>}) /\ IsConst(args[1]) /\ args[1].const >= 0
    THEN <<BytesSegment(args[1].const, loc)>> ELSE Null

DatumFits(m, arg) ==
    CASE arg.arg = E -> m = "db" => IsConst(arg) /\ -128 < arg.const /\ arg.const < 256
      [] arg.arg = R -> FALSE
      [] OTHER -> m # "dw"
dc(m, args, loc) ==
    IF args # <<>> /\ \A i \in DOMAIN args : DatumFits(m, args[i])
    THEN Sequence([i \in DOMAIN args |->
            IF args[i].arg # E THEN BytesSegment(args[i].n, loc)
            ELSE IF m = "db" THEN BytesSegment(1, loc) ELSE ExpressionSegment(args[i], loc)])
    ELSE Null

align(args, loc) ==
    IF args = <<>> THEN <<AlignmentPaddingSegment(2, loc)>>
    ELSE IF ~(assert_args(args, {<<E>>}) /\ IsConst(args[1]) /\ args[1].const > 0) THEN Null
    ELSE IF args[1].const = 1 THEN <<>> ELSE <<AlignmentPaddingSegment(args[1].const, loc)>>

shifts(args, loc) ==
    LET last == args[Len(args)]
        val == IF last.arg = E THEN last.const ELSE 1
    IN IF ~(/\ assert_args(args, {<<R>>, <<R, R>>, <<R, E>>, <<R, R, E>>})
            /\ last.arg = E => IsConst(last)
            /\ 0 <= val /\ val <= 8) THEN Null
       ELSE IF val = 0 THEN <<>> ELSE <<InstructionBytesSegment(loc)>>

\* Immediate forms of the instructions that have one.
immediate(m, args, loc) ==
    CASE m \in {"lsb", "lssb", "ssb", "add", "cmp"} -> Imm6(loc, FALSE, args[2], "imm6")
      [] m \in {"lsw", "ssw"} -> Imm6(loc, FALSE, args[2], "imm6_word")
      [] m = "sub" -> Imm6(loc, TRUE, args[2], "imm6")

\* int and reset take a number, addsp an even one that it halves.
numbered(m, args, loc) ==
    LET n == IF args = <<>> THEN 0 ELSE args[1].const IN
    IF ~(m = "reset" /\ args = <<>>) /\ ~(assert_args(args, {<<E>>}) /\ IsConst(args[1])) THEN Null
    ELSE IF m # "addsp" THEN (IF n \in 0 .. 511 THEN <<InstructionBytesSegment(loc)>> ELSE Null)
    ELSE IF n % 2 = 1 THEN Null
    ELSE <<Imm9(loc, [args[1] EXCEPT !.const = n \div 2])>>

Segments(m, args, loc) ==
    IF assert_args(args, OneWord(m)) THEN <<InstructionBytesSegment(loc)>>
    ELSE CASE m = "ds" -> ds(args, loc)
           [] m \in {"dc", "db", "dw"} -> dc(m, args, loc)
           [] m = "align" -> align(args, loc)
           [] m = "ldi" -> IF assert_args(args, {<<R, E>>}) THEN <<LdiSegment(args[2], loc)>> ELSE Null
           [] m \in {"shl", "shr", "shra", "rol", "ror", "rcl", "rcr"} ->
                IF args = <<>> THEN Null ELSE shifts(args, loc)
           [] m = "jsr" -> IF assert_args(args, {<<R>>}) THEN <<InstructionBytesSegment(loc)>>
                           ELSE IF assert_args(args, {<<E>>}) THEN <<Branch(loc, 0, args[1], "jsr")>> ELSE Null
           [] m \in {"lsb", "lssb", "ssb", "add", "cmp", "lsw", "ssw", "sub"} ->
                IF assert_args(args, {<<R, E>>}) THEN <<immediate(m, args, loc)>> ELSE Null
           [] m = "push" -> IF assert_args(args, {<<E>>}) THEN <<Imm9(loc, args[1])>> ELSE Null
           [] m \in {"int", "reset", "addsp"} -> numbered(m, args, loc)
           [] m \in DOMAIN BranchMnemonics ->
                IF assert_args(args, {<<E>>})
                THEN <<Branch(loc, branch_codes[BranchMnemonics[m]], args[1], "branch")>> ELSE Null
           [] OTHER -> Null

\* save and restore keep the number of registers saved for the lines that follow.
save(args, loc, saves) ==
    IF assert_args(args, {<<R>>}) THEN Gives(Segments("push", args, loc), saves + 1) ELSE Fails
restore(args, loc, saves) ==
    IF assert_args(args, {<<>>, <<R>>}) /\ saves > 0
    THEN Gives(<<InstructionBytesSegment(loc)>>, saves - 1) ELSE Fails

assemble_instruction(line, saves) ==
    LET args == handle_frame_pointer(line.args) IN
    CASE line.mnemonic = "save" -> save(args, line.loc, saves)
      [] line.mnemonic = "restore" -> restore(args, line.loc, saves)
      [] OTHER -> LET segments == Segments(line.mnemonic, args, line.loc)
                  IN IF segments = Null THEN Fails ELSE Gives(segments, saves)

assembly_directives == {"ds", "dc", "db", "dw"}

--------------------------------------------------------------------------------
(* Expressions.  sect is the section of the segment, labels are those of all      *)
(* absolute sections.                                                            *)

TermsOf(expr) == ToSet(expr.add) \cup ToSet(expr.sub)
Times(expr, w) == Cardinality({i \in DOMAIN expr.add : expr.add[i] = w})
                  - Cardinality({i \in DOMAIN expr.sub : expr.sub[i] = w})

FieldKnown(d, templates) ==
    d.template \in DOMAIN templates /\ d.field \in DOMAIN templates[d.template]

parse_expression(expr, sect, labels, templates) ==
    LET own == DOMAIN sect.labels \ sect.exts
        used == {w \in TermsOf(expr) : Times(expr, w) # 0}
        fields == {i \in DOMAIN expr.fields : FieldKnown(Dotted[expr.fields[i]], templates)}
        Size == [i \in fields |-> templates[Dotted[expr.fields[i]].template][Dotted[expr.fields[i]].field]]
        rel == IF sect.name = Abs THEN {} ELSE used \cap own
    IN [error |-> \/ expr.byte # "" \/ fields # DOMAIN expr.fields
                  \/ ~(TermsOf(expr) \subseteq sect.exts \cup own \cup DOMAIN labels),
        value |-> expr.const + SumFunctionOnSet(Size, fields),
        relocate_additions |-> SumFunctionOnSet([w \in rel |-> Times(expr, w)], rel),
        ext |-> used \cap sect.exts, rel |-> rel, asect |-> used \ (sect.exts \cup rel)]

LabelValue(w, sect, labels) == IF w \in DOMAIN sect.labels THEN sect.labels[w] ELSE labels[w]

calculate_expression(expr, parsed, sect, labels) ==
    LET known == parsed.asect \cup parsed.rel
    IN parsed.value + SumFunctionOnSet([w \in known |-> Times(expr, w) * LabelValue(w, sect, labels)], known)

forbid_multilabel_expressions(expr, parsed) ==
    IF parsed.ext # {}
    THEN \/ Cardinality(parsed.ext) > 1 \/ \E w \in parsed.ext : Times(expr, w) # 1
         \/ parsed.relocate_additions # 0
    ELSE parsed.relocate_additions \notin {0, 1}

--------------------------------------------------------------------------------
(* Varying length: what a segment at pos asks for.                                *)

Unchanged(seg) == [error |-> FALSE, seg |-> seg, shift |-> 0]
Invalid(seg) == [error |-> TRUE, seg |-> seg, shift |-> 0]
Grown(seg) == [error |-> FALSE, seg |-> [seg EXCEPT !.size = 4, !.locked = TRUE], shift |-> 2]

\* Mutant: the size instead of the difference.
PaddingSize(seg) ==
    LET size == (-seg.pos) % seg.alignment
    IN [error |-> FALSE, seg |-> [seg EXCEPT !.size = size], shift |-> size]

PaddingLength(seg) ==
    LET size == (-seg.pos) % seg.alignment
    IN [error |-> FALSE, seg |-> [seg EXCEPT !.size = size], shift |-> size - seg.size]

\* Mutant: only an external label is not known before linking.
ExternalUnknown(parsed) == parsed.ext # {}

\* A value is not known before linking.
Unknown(parsed) == parsed.ext # {} \/ parsed.relocate_additions # 0

LdiLength(seg, sect, labels, templates) ==
    LET parsed == parse_expression(seg.expr, sect, labels, templates)
        value == calculate_expression(seg.expr, parsed, sect, labels)
    IN IF seg.locked THEN Unchanged(seg)
       ELSE IF parsed.error \/ forbid_multilabel_expressions(seg.expr, parsed) THEN Invalid(seg)
       ELSE IF Unknown(parsed) \/ ~(-64 <= value /\ value < 64) THEN Grown(seg) ELSE Unchanged(seg)

InReach(dist) == -1024 <= dist /\ dist < 1024

BranchLength(seg, sect, labels, templates) ==
    LET parsed == parse_expression(seg.expr, sect, labels, templates)
        bad == parsed.ext # {} \/ ((parsed.asect # {} \/ IsConst(seg.expr)) /\ sect.name # Abs)
        dist == calculate_expression(seg.expr, parsed, sect, labels) - seg.pos - 2
    IN IF seg.locked THEN Unchanged(seg)
       ELSE IF parsed.error \/ seg.expr.sub # <<>> \/ Len(seg.expr.add) + Len(seg.expr.fields) > 1
       THEN Invalid(seg)
       ELSE IF bad \/ ~InReach(dist) THEN Grown(seg) ELSE Unchanged(seg)

update_length(seg, sect, labels, templates) ==
    CASE seg.kind = "padding" -> PaddingLength(seg)
      [] seg.kind = "ldi" -> LdiLength(seg, sect, labels, templates)
      [] OTHER -> BranchLength(seg, sect, labels, templates)

--------------------------------------------------------------------------------
(* Filling a section.  at is the address of the segment in its section.           *)

Immediate(value, negative) == [error |-> FALSE, fields |-> <<>>, value |-> value, negative |-> negative]
NoCode == Immediate(0, FALSE)
Refuses == [NoCode EXCEPT !.error = TRUE]

Entry16(w, at, value) ==
    [label |-> w, offset |-> at, start |-> 0, stop |-> 2, data |-> value % Power(2), lower |-> 0,
     full |-> TRUE, const |-> value % Power(2)]

FillExpression(expr, at, sect, labels, templates) ==
    LET parsed == parse_expression(expr, sect, labels, templates)
        value == calculate_expression(expr, parsed, sect, labels)
    IN IF \/ parsed.error \/ forbid_multilabel_expressions(expr, parsed)
          \/ ~(-32768 <= value /\ value < 65536) THEN Refuses
       ELSE [error |-> FALSE, value |-> value % Power(2), negative |-> FALSE,
             fields |-> [n \in 1 .. Cardinality(parsed.ext) |->
                            Entry16(CHOOSE w \in parsed.ext : TRUE, at, value)] \o
                        [n \in 1 .. parsed.relocate_additions |-> Entry16(Null, at, value)]]

\* The distance of a short branch as its bits say it: the sign is one of them, or the
\* first of ten.
ShortBranch(seg, dist) ==
    Immediate((dist \div 2) % (IF seg.kind = "jsr" THEN 1024 ELSE 512), dist < 0)

FillBranch(seg, at, sect, labels, templates) ==
    LET parsed == parse_expression(seg.expr, sect, labels, templates)
        value == calculate_expression(seg.expr, parsed, sect, labels)
    IN IF value % 2 # 0 THEN Refuses
       ELSE IF seg.size = 4 THEN FillExpression(seg.expr, at + 2, sect, labels, templates)
       ELSE ShortBranch(seg, value - (at + 2))

FillLdi(seg, at, sect, labels, templates) ==
    LET parsed == parse_expression(seg.expr, sect, labels, templates)
    IN IF seg.size = 4 THEN FillExpression(seg.expr, at + 2, sect, labels, templates)
       ELSE Immediate(calculate_expression(seg.expr, parsed, sect, labels), FALSE)

FillImmediate(seg, sect, labels, templates) ==
    LET parsed == parse_expression(seg.expr, sect, labels, templates)
        value == calculate_expression(seg.expr, parsed, sect, labels) * (IF seg.negative THEN -1 ELSE 1)
        limit == IF seg.kind = "imm9" THEN 512 ELSE 64
        scaled == IF seg.kind = "imm6_word" THEN value \div 2 ELSE value
    IN IF \/ parsed.error \/ Unknown(parsed)
          \/ (seg.kind = "imm6_word" /\ value % 2 # 0)
          \/ ~(-limit <= scaled /\ scaled < limit) THEN Refuses
       ELSE Immediate(scaled, FALSE)

fill(seg, at, sect, labels, templates) ==
    IF Instruction(seg) /\ at % seg.alignment # 0 THEN Refuses
    ELSE CASE seg.kind = "expression" -> FillExpression(seg.expr, at, sect, labels, templates)
           [] seg.kind = "ldi" -> FillLdi(seg, at, sect, labels, templates)
           [] seg.kind \in {"branch", "jsr"} -> FillBranch(seg, at, sect, labels, templates)
           [] seg.kind \in {"imm6", "imm6_word", "imm9"} -> FillImmediate(seg, sect, labels, templates)
           [] OTHER -> NoCode

================================================================================
