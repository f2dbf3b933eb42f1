------------------------------ MODULE CodeSection ------------------------------
(***************************************************************************)
(* A section under assembly: its segments, its labels, where the code of each  *)
(* line begins; the steps by which it is built, and the record it becomes.     *)
(***************************************************************************)
EXTENDS Cdm16

\* A section under assembly.  History: declared says before which segment a label
\* stands, shared that a made label was made twice, regrown that an empty padding grew.
NewBlock(name, address) ==
    [name |-> name, address |-> address, size |-> 0, segments |-> <<>>, labels |-> <<>>,
     ents |-> {}, exts |-> {}, locations |-> <<>>, loops |-> <<>>, saves |-> 0, error |-> FALSE,
     declared |-> <<>>, shared |-> FALSE, regrown |-> FALSE]

\* Where each of the segments begins, the first one at n, and where the last ends.
Places(segments, n) ==
    LET at[i \in 1 .. Len(segments) + 1] == IF i = 1 THEN n ELSE at[i - 1] + segments[i - 1].size
    IN at

Start(sect, i) == Places(sect.segments, sect.address)[i]

\* What sections are: a label has its value and its place, and a code location is known by
\* where its code begins.
IsSection(sect) ==
    /\ DOMAIN sect = DOMAIN NewBlock(Abs, 0)
    /\ sect.name \in Names \cup {Abs} /\ sect.address \in Nat
    /\ IsSequence(sect.segments) /\ \A i \in DOMAIN sect.segments : IsSegment(sect.segments[i])
    /\ sect.ents \subseteq Labels \cap DOMAIN sect.labels /\ sect.exts \subseteq Labels
    /\ sect.labels \in [DOMAIN sect.declared -> Int]
    /\ sect.declared \in [DOMAIN sect.declared -> 1 .. Len(sect.segments) + 1]

\* Labels and code locations are where their code is.  Locations count from the beginning
\* of the section.
LabelsAtCode(sect) ==
    \A w \in DOMAIN sect.labels : sect.labels[w] = Start(sect, sect.declared[w])
FirstOfLine(sect, i) ==
    sect.segments[i].size > 0 /\ (i = 1 \/ sect.segments[i - 1].loc # sect.segments[i].loc)
LocationsAtCode(sect) ==
    \A i \in DOMAIN sect.segments : FirstOfLine(sect, i) =>
        LET at == Start(sect, i) - sect.address IN
        at \in DOMAIN sect.locations /\ sect.locations[at] = sect.segments[i].loc

Failed(b) == [b EXCEPT !.error = TRUE]
Located(b, loc) == [b EXCEPT !.locations = Overlay(@, [at \in {b.size} |-> loc])]
Emitted(b, segments) ==
    [b EXCEPT !.segments = @ \o segments, !.size = Places(segments, @)[Len(segments) + 1]]

append_label(b, w) ==
    [b EXCEPT !.labels = Overlay(@, [v \in {w} |-> b.address + b.size]),
              !.declared = Overlay(@, [v \in {w} |-> Len(b.segments) + 1]),
              !.shared = @ \/ (w \in DOMAIN b.labels)]

append_branch_instruction(b, loc, mnemonic, w, inverse) ==
    IF mnemonic \notin DOMAIN branch_codes THEN Failed(b)
    ELSE Emitted(Located(b, loc), <<make_branch_instruction(loc, mnemonic, w, inverse)>>)

assemble_label_declaration(b, line) ==
    IF line.name \in DOMAIN b.labels \cup b.ents \cup b.exts THEN Failed(b)
    ELSE IF line.external THEN [b EXCEPT !.exts = @ \cup {line.name}]
    ELSE [append_label(b, line.name) EXCEPT !.ents = IF line.entry THEN @ \cup {line.name} ELSE @]

AssembleInstruction(b, line) ==
    LET r == assemble_instruction(line, b.saves)
    IN IF r.error THEN Failed(b) ELSE [Emitted(Located(b, line.loc), r.segments) EXCEPT !.saves = r.saves]

\* Every register saved must be restored.
finish(b) == IF b.saves # 0 THEN Failed(b) ELSE b

--------------------------------------------------------------------------------
(* to_object_section_record                                                     *)

\* What segment i of a section fills in, and where.
Filled(sect, i, labels, templates) ==
    [at |-> Start(sect, i),
     code |-> fill(sect.segments[i], Start(sect, i), sect, labels, templates)]

Alignment(sect) ==
    LET upto[i \in 0 .. Len(sect.segments)] ==
            IF i = 0 THEN 1 ELSE Lcm(upto[i - 1], sect.segments[i].alignment)
    IN IF sect.name = Abs THEN 1 ELSE upto[Len(sect.segments)]

to_object_section_record(sect, filled) ==
    [name |-> sect.name, address |-> sect.address, alignment |-> Alignment(sect),
     size |-> Start(sect, Len(sect.segments) + 1) - sect.address,
     entries |-> [w \in sect.ents |-> sect.labels[w]],
     fields |-> Flat([i \in DOMAIN filled |-> filled[i].code.fields]),
     locations |-> sect.locations]

================================================================================
