------------------------------- MODULE CodeBlock -------------------------------
(***************************************************************************)
(* The assembler's code blocks: the lines of a section become segments and    *)
(* labels, a conditional or a loop branches to labels made for it.  Such a     *)
(* label is called after the place where its statement begins.                *)
(***************************************************************************)
EXTENDS CodeSection, TLC

Made(nonce, kind) == "$" \o ToString(nonce) \o "_" \o kind

RECURSIVE assemble_lines(_, _)

\* Mutant: after an and the whole condition fails, whatever an or leaves to try.
assemble_last_condition(s, c, nonce) ==
    [s EXCEPT !.block = append_branch_instruction(assemble_lines(@, c.lines), c.loc, c.mnemonic,
                                                  Made(nonce, "else"), TRUE)]

\* s is the block and the number of labels made for the conditions after an or.
assemble_condition(s, c, nonce) ==
    LET b == assemble_lines(s.block, c.lines)
        next_or == Made(nonce, "or" \o ToString(s.next_or))
    IN CASE c.conjunction = "" ->
            [s EXCEPT !.block = append_branch_instruction(b, c.loc, c.mnemonic, Made(nonce, "else"), TRUE)]
         [] c.conjunction = "or" ->
            [block |-> append_label(append_branch_instruction(b, c.loc, c.mnemonic, Made(nonce, "then"), FALSE),
                                    next_or),
             next_or |-> s.next_or + 1]
         [] c.conjunction = "and" ->
            [s EXCEPT !.block = append_branch_instruction(b, c.loc, c.mnemonic, next_or, TRUE)]

assemble_conditional_statement(b, line) ==
    LET nonce == b.address + b.size
        Condition(s, c) == assemble_condition(s, c, nonce)
        s == FoldLeft(Condition, [block |-> b, next_or |-> 0], line.conditions)
        next_or == Made(nonce, "or" \o ToString(s.next_or))
        then == assemble_lines(append_label(s.block, Made(nonce, "then")), line.then)
        end(block) == append_label(append_label(block, next_or), Made(nonce, "else"))
        skip == append_branch_instruction(then, line.loc, "anything", Made(nonce, "finally"), FALSE)
    IN IF line.else = <<>> THEN end(then)
       ELSE append_label(assemble_lines(end(skip), line.else), Made(nonce, "finally"))

InLoop(b, cond, finally) == [b EXCEPT !.loops = Append(@, [cond |-> cond, finally |-> finally])]
OutOfLoop(b) == [b EXCEPT !.loops = Front(@)]

assemble_while_loop(b, line) ==
    LET nonce == b.address + b.size
        cond == Made(nonce, "cond")
        finally == Made(nonce, "finally")
        tests == assemble_lines(append_label(InLoop(b, cond, finally), cond), line.condition)
        body == assemble_lines(append_branch_instruction(tests, line.stays, line.mnemonic, finally, TRUE),
                               line.lines)
    IN OutOfLoop(append_label(append_branch_instruction(body, line.loc, "anything", cond, FALSE), finally))

assemble_until_loop(b, line) ==
    LET nonce == b.address + b.size
        loop_body == Made(nonce, "loop_body")
        cond == Made(nonce, "cond")
        finally == Made(nonce, "finally")
        body == assemble_lines(append_label(InLoop(b, cond, finally), loop_body), line.lines)
        until == append_branch_instruction(append_label(body, cond), line.loc, line.mnemonic, loop_body, TRUE)
    IN OutOfLoop(append_label(until, finally))

assemble_break_statement(b, line) ==
    IF b.loops = <<>> THEN Failed(b)
    ELSE append_branch_instruction(b, line.loc, "anything", Last(b.loops).finally, FALSE)

assemble_continue_statement(b, line) ==
    IF b.loops = <<>> THEN Failed(b)
    ELSE append_branch_instruction(b, line.loc, "anything", Last(b.loops).cond, FALSE)

assemble_line(b, line) ==
    IF b.error THEN b
    ELSE CASE line.node = "label" -> assemble_label_declaration(b, line)
           [] line.node = "instruction" -> AssembleInstruction(b, line)
           [] line.node = "if" -> assemble_conditional_statement(b, line)
           [] line.node = "while" -> assemble_while_loop(b, line)
           [] line.node = "until" -> assemble_until_loop(b, line)
           [] line.node = "break" -> assemble_break_statement(b, line)
           [] line.node = "continue" -> assemble_continue_statement(b, line)

assemble_lines(b, lines) == FoldLeft(assemble_line, b, lines)

AbsoluteSection(node) == finish(assemble_lines(NewBlock(Abs, node.address), node.lines))
RelocatableSection(node) == finish(assemble_lines(NewBlock(node.name, 0), node.lines))

--------------------------------------------------------------------------------
(* Templates: the places of their labels, and _ for the size.                    *)

\* s is the size so far, the labels and the saved registers.
TemplateLine(s, line) ==
    LET r == assemble_instruction(line, 0) IN
    IF s.error THEN s
    ELSE CASE line.node = "label" ->
                IF line.name \in DOMAIN s.labels \/ line.external \/ line.entry THEN Failed(s)
                ELSE [s EXCEPT !.labels = Overlay(@, line.name :> s.size)]
           [] line.node = "instruction" ->
                IF line.mnemonic \notin assembly_directives \/ r.error THEN Failed(s)
                ELSE [s EXCEPT !.size = Places(r.segments, @)[Len(r.segments) + 1]]
           [] OTHER -> s

Template(node) ==
    LET s == FoldLeft(TemplateLine, [error |-> FALSE, size |-> 0, labels |-> <<>>], node.lines)
    IN [error |-> s.error, labels |-> Overlay(s.labels, "_" :> s.size)]

--------------------------------------------------------------------------------
(* generate_object_module, from the syntax tree to the sections.                *)

ByAddress(a, b) == a.address < b.address

\* Template fields are looked for in the added terms of the lines of a section itself,
\* not of those inside its statements.
label_or_template(arg, fields) ==
    LET IsField(w) == w \in DOMAIN Dotted /\ Dotted[w].template \in DOMAIN fields
        IsLabel(w) == ~IsField(w)
    IN IF arg.arg # "expr" THEN arg
       ELSE [arg EXCEPT !.fields = SelectSeq(arg.add, IsField), !.add = SelectSeq(arg.add, IsLabel)]

WithTemplates(node, fields) ==
    [node EXCEPT !.lines = Sequence([n \in DOMAIN @ |->
        IF @[n].node # "instruction" THEN @[n]
        ELSE [@[n] EXCEPT !.args = Sequence([i \in DOMAIN @ |-> label_or_template(@[i], fields)])]])]

\* A label of a section itself that looks like the field of a template.
Conflicts(node, fields) ==
    \E n \in DOMAIN node.lines :
        /\ node.lines[n].node = "label" /\ node.lines[n].name \in DOMAIN Dotted
        /\ Dotted[node.lines[n].name].template \in DOMAIN fields

generate_sections(pn) ==
    LET made == Sequence([n \in DOMAIN pn.templates |-> Template(pn.templates[n])])
        LastOf(w) == Max({n \in DOMAIN made : pn.templates[n].name = w})
        fields == [w \in {pn.templates[n].name : n \in DOMAIN made} |-> made[LastOf(w)].labels]
        asects == Sequence([n \in DOMAIN pn.asects |-> AbsoluteSection(WithTemplates(pn.asects[n], fields))])
        rsects == Sequence([n \in DOMAIN pn.rsects |-> RelocatableSection(WithTemplates(pn.rsects[n], fields))])
        Shared(sect) == [sect EXCEPT !.exts = @ \cup pn.externals]
        all == SortSeq(asects, ByAddress) \o rsects
    IN [error |-> \/ \E n \in DOMAIN made : made[n].error
                  \/ \E node \in ToSet(pn.asects \o pn.rsects) : Conflicts(node, fields)
                  \/ \E n \in DOMAIN all : all[n].error,
        fields |-> fields, sects |-> [n \in DOMAIN all |-> Shared(all[n])]]

================================================================================
