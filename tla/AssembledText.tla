----------------------------- MODULE AssembledText -----------------------------
(***************************************************************************)
(* What the assembler makes of a text, up to the branches of its statements:   *)
(* the macros, the syntax tree and the sections, against what the text says.   *)
(***************************************************************************)
EXTENDS Assembler, AsmText, CodeBlock

CONSTANT MaxDepth       \* calls of macros in macros

Macros == INSTANCE MacroText

Said == SelectSeq([i \in DOMAIN text |-> i], LAMBDA i : text[i] # <<>> /\ ~line_mark(text[i]))
Meant == SelectSeq(Macros!Meant(source.lines, source.libraries), LAMBDA next : Lexed(next.line) # <<>>)

\* Expanding a macro is replacing the call by the text of the macro (expand_macro), for
\* parameters of one word each and libraries that do not hide each other's macros.
AsRewritten ==
    (/\ ~Macros!Hides(source.libraries)
     /\ \A t \in {source.lines} \cup ToSet(source.libraries) : Macros!Simple(t)) =>
        LET said == Said meant == Meant
        IN [n \in DOMAIN said |-> text[said[n]]] = [n \in DOMAIN meant |-> Lexed(meant[n].line)]

\* Every line is known to come from its line of the source, what a call expands to from
\* the line of the call, unless the mark before a call was put behind it
\* (_generate_location_line, visitLine_mark).
MarkedInOrder ==
    \A i \in DOMAIN text : (line_mark(text[i]) /\ Info(text, i) = "mstop") =>
        ~(line_mark(LineAt(text, i + 1)) /\ text[i + 1][2].n < text[i][2].n)
LinesOfCalls ==
    MarkedInOrder =>
        LET said == Said meant == Meant
        IN Len(said) = Len(meant) =>
            \A n \in DOMAIN said : Here(text, said[n]) = CodeLocation("main", meant[n].at)

\* Both: macros are replaced by their text, and every line of it knows the call.
MacrosExpanded == [][stage = "read" => AsRewritten /\ LinesOfCalls]_vars

\* What was written is what is read: the tree of an accepted text, written down again, is
\* the text, and a well-formed text is not taken for a syntax error.
ReadsAsWritten ==
    [][stage = "read" =>
        LET ast == SyntaxTree(text) IN
        /\ ast.error = "" /\ ByKind(text) => WrittenSections(ast.program) = Plain(text)
        /\ sound => ast.error # "syntax error"]_vars

\* The instruction or test that is executed when segment i is reached; branches made by a
\* statement without a test only lead on.
MadeBranch(sect, seg) == seg.kind = "branch" /\ ToSet(seg.expr.add) \ Labels # {}
Jump(sect, seg) == MadeBranch(sect, seg) /\ seg.code = branch_codes["anything"]
TargetOf(sect, seg) == sect.declared[seg.expr.add[1]]

RECURSIVE Reached(_, _, _)
Reached(sect, i, fuel) ==
    IF i > Len(sect.segments) \/ fuel = 0 THEN End
    ELSE LET seg == sect.segments[i] IN
         IF Jump(sect, seg) THEN Reached(sect, TargetOf(sect, seg), fuel - 1)
         ELSE IF Instruction(seg) THEN Point(seg.loc) ELSE Reached(sect, i + 1, fuel)

StepsOf(sect, i) ==
    LET seg == sect.segments[i]
        To(j) == Reached(sect, j, Len(sect.segments))
        mnemonic == text[seg.loc.line + 1][2].text
        taken == IF seg.code = branch_codes[mnemonic] THEN "true" ELSE "false"
        other == IF taken = "true" THEN "false" ELSE "true"
    IN IF ~Instruction(seg) \/ Jump(sect, seg) THEN {}
       ELSE IF ~MadeBranch(sect, seg) THEN {Step(Point(seg.loc), "next", To(i + 1))}
       ELSE {Step(Point(seg.loc), taken, To(TargetOf(sect, seg))), Step(Point(seg.loc), other, To(i + 1))}

\* The code of conditionals, loops, breaks and continues executes its instructions and
\* tests in the order the statements say, unless two statements begin at one place: they
\* then make the same labels.  A place is known by its line, so the text has one line mark.
InOrder(pn) ==
    UNION {UNION {StepsOf(sects[s], i) : i \in DOMAIN sects[s].segments} : s \in DOMAIN sects} =
    UNION {Steps(node.lines, End, End, End) : node \in ToSet(pn.asects) \cup ToSet(pn.rsects)}
JumpsAsStructured ==
    [][stage = "absolute" /\ group = {} =>
        /\ \A s \in DOMAIN sects : sects[s].loops = <<>>
        /\ (/\ \A i \in 2 .. Len(text) : ~line_mark(text[i])
            /\ \A s \in DOMAIN sects : ~sects[s].shared) => InOrder(SyntaxTree(text).program)]_vars

================================================================================
