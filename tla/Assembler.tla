------------------------------- MODULE Assembler -------------------------------
(***************************************************************************)
(* The assembler at work on one source: its macros, the syntax tree, the      *)
(* sections, the lengths of their segments and the object module.  The lengths *)
(* are found for all absolute sections together, then for each relocatable     *)
(* one: again and again every segment of varying length is asked, until none    *)
(* changes.                                                                   *)
(***************************************************************************)
EXTENDS CodeSection

CONSTANTS
    WellFormed, Damaged,    \* the sources to assemble: those that follow the grammar, others
    \* What expand_source, build_ast and generate_sections make of their argument.
    \* Constants, since what a text looks like is no matter of the actions below.
    ExpandedText(_), SyntaxTree(_), CodeSections(_)

VARIABLES
    source,     \* the lines of a source and those of the macro libraries
    sound,      \* whether they follow the grammar (history)
    text,       \* the text without macros
    stage,      \* what is done next, or "failed"
    templates,  \* the fields of the templates
    sects,      \* the absolute sections by address, then the relocatable ones
    group,      \* the sections whose lengths are found together
    entry,      \* var_len_entries not asked yet in this pass, as pairs of section and segment
    changed,    \* whether a segment has changed in this pass
    passes,     \* passes made for these sections (history)
    known,      \* the labels a segment may use besides those of its section
    filled,     \* what the segments of each section filled in
    objs        \* the object module: [asects, rsects]

vars == <<source, sound, text, stage, templates, sects, group, entry, changed, passes, known, filled, objs>>

\* Sections as they are made: nothing has moved or grown yet, and the absolute ones come
\* first.
IsProgram(made) ==
    /\ \A w \in DOMAIN made.fields : \A field \in DOMAIN made.fields[w] : made.fields[w][field] \in Nat
    /\ IsSequence(made.sects)
    /\ \A s \in DOMAIN made.sects :
        LET sect == made.sects[s] IN
        /\ IsSection(sect) /\ LabelsAtCode(sect) /\ LocationsAtCode(sect) /\ sect.regrown = FALSE
        /\ \A at \in DOMAIN sect.locations :
            \E i \in 1 .. Len(sect.segments) + 1 : at = Start(sect, i) - sect.address
        /\ \A i \in DOMAIN sect.segments : ~sect.segments[i].locked
        /\ \A r \in 1 .. s : sect.name = Abs => made.sects[r].name = Abs

\* So is what becomes of every source that is accepted so far.
ASSUME SectionsAssumption ==
    \A s \in WellFormed \cup Damaged :
        LET expanded == ExpandedText(s)
            ast == SyntaxTree(expanded.text)
            made == CodeSections(ast.program)
        IN (~expanded.error /\ ast.error = "" /\ ~made.error) => IsProgram(made)

IsAbsolute(s) == sects[s].name = Abs
Absolutes == {s \in DOMAIN sects : IsAbsolute(s)}
gather_local_labels(S) ==
    LET LastOf(w) == Max({s \in S : w \in DOMAIN sects[s].labels})
    IN [w \in Labels \cap UNION {DOMAIN sects[s].labels : s \in S} |-> sects[LastOf(w)].labels[w]]

Init ==
    /\ \/ source \in WellFormed /\ sound = TRUE
       \/ source \in Damaged /\ sound = FALSE
    /\ text = <<>> /\ stage = "macros" /\ templates = <<>> /\ sects = <<>> /\ group = {} /\ entry = {}
    /\ changed = FALSE /\ passes = 0 /\ known = <<>> /\ filled = <<>> /\ objs = [asects |-> <<>>, rsects |-> <<>>]

--------------------------------------------------------------------------------
(* From the source to its sections.                                             *)

Fail == stage' = "failed"

ProcessMacros ==
    /\ stage = "macros"
    /\ LET made == ExpandedText(source)
       IN IF made.error THEN Fail /\ UNCHANGED text ELSE stage' = "read" /\ text' = made.text
    /\ UNCHANGED <<source, sound, templates, sects, group, entry, changed, passes, known, filled, objs>>

BuildAst ==
    /\ stage = "read"
    /\ LET ast == SyntaxTree(text)
           made == CodeSections(ast.program)
       IN IF ast.error # "" \/ made.error
          THEN /\ Fail /\ UNCHANGED <<templates, sects>>
          ELSE /\ stage' = "absolute" /\ templates' = made.fields /\ sects' = made.sects
    /\ UNCHANGED <<source, sound, text, group, entry, changed, passes, known, filled, objs>>

--------------------------------------------------------------------------------
(* update_varying_length                                                        *)

\* The segments of varying length of the sections S.
VaryingOf(S) ==
    UNION {{s} \X {i \in DOMAIN sects[s].segments : Varying(sects[s].segments[i])} : s \in S}

\* Sections are asked in order, and so are the segments of a section.
Earliest(S) == CHOOSE e \in S : \A f \in S : e[1] < f[1] \/ (e[1] = f[1] /\ e[2] <= f[2])

Positioned(sect) ==
    [sect EXCEPT !.segments = [i \in DOMAIN @ |-> [@[i] EXCEPT !.pos = Start(sect, i)]]]

Begin(S) ==
    /\ group' = S /\ entry' = VaryingOf(S) /\ changed' = FALSE /\ passes' = 1
    /\ sects' = [s \in DOMAIN sects |-> IF s \in S THEN Positioned(sects[s]) ELSE sects[s]]
    /\ known' = Overlay(gather_local_labels(S), gather_local_labels(Absolutes \ S))

\* Mutant: only labels move.
update_labels(sect, pos, diff) ==
    [sect EXCEPT !.labels = [w \in DOMAIN @ |-> IF @[w] > pos THEN @[w] + diff ELSE @[w]]]

\* Mutant: labels that stay where they are get lost.
update_moved(sect, pos, diff) ==
    [sect EXCEPT !.labels = [w \in {v \in DOMAIN @ : @[v] > pos} |-> @[w] + diff]]

\* A segment at pos has become longer by diff: the labels and code locations behind it
\* move.  Locations of an absolute section count from its beginning, pos does not.
update_surroundings(sect, pos, diff) ==
    LET New(p) == IF p > pos THEN p + diff ELSE p
        From(q) == Max({p \in DOMAIN sect.locations : New(p) = q})
    IN [sect EXCEPT
        !.labels = [w \in DOMAIN @ |-> IF @[w] > pos THEN @[w] + diff ELSE @[w]],
        !.locations = [q \in {New(p) : p \in DOMAIN @} |-> @[From(q)]]]

MovedOthers(segments, pos, shift) ==
    [i \in DOMAIN segments |->
        IF Varying(segments[i]) /\ segments[i].pos > pos
        THEN [segments[i] EXCEPT !.pos = @ + shift] ELSE segments[i]]

\* The section when its segment i was asked with result r.
Asked(sect, i, r) ==
    LET pos == sect.segments[i].pos IN
    [update_surroundings(sect, pos, r.shift) EXCEPT
        !.segments = MovedOthers([@ EXCEPT ![i] = r.seg], pos, r.shift),
        !.regrown = @ \/ (sect.segments[i].size = 0 /\ r.shift # 0)]

UpdateLength ==
    /\ stage \in {"absolute", "relocatable"} /\ group # {} /\ entry # {}
    /\ LET s == Earliest(entry)[1] i == Earliest(entry)[2]
           sect == sects[s] seg == sect.segments[i]
           r == update_length(seg, sect, known, templates)
       IN IF r.error THEN /\ Fail /\ UNCHANGED <<sects, known, entry, changed>>
          ELSE /\ entry' = entry \ {<<s, i>>} /\ changed' = (changed \/ r.shift # 0)
               /\ sects' = [sects EXCEPT ![s] = Asked(sect, i, r)]
               /\ known' = [w \in DOMAIN known |->
                    IF w \in DOMAIN sect.labels /\ sect.labels[w] > seg.pos
                    THEN known[w] + r.shift ELSE known[w]]
               /\ UNCHANGED stage
    /\ UNCHANGED <<source, sound, text, templates, group, passes, filled, objs>>

\* Every segment was asked: once more if one has changed.
NextPass ==
    /\ stage \in {"absolute", "relocatable"} /\ group # {} /\ entry = {} /\ changed
    /\ changed' = FALSE /\ passes' = passes + 1 /\ entry' = VaryingOf(group)
    /\ UNCHANGED <<source, sound, text, stage, templates, sects, group, known, filled, objs>>

\* Nothing has changed: on to the next sections.
NextGroup ==
    /\ entry = {} /\ ~changed
    /\ \/ stage = "absolute" /\ group = {} /\ Absolutes # {}
          /\ Begin(Absolutes) /\ UNCHANGED stage
       \/ /\ stage = "absolute" /\ (group # {} \/ Absolutes = {})
          /\ stage' = "relocatable" /\ group' = {}
          /\ UNCHANGED <<sects, entry, changed, passes, known>>
       \/ /\ stage = "relocatable"
          /\ LET done == Absolutes \cup 1 .. (IF group = {} THEN 0 ELSE Max(group))
                 rest == DOMAIN sects \ done
             IN IF rest # {} THEN Begin({Min(rest)}) /\ UNCHANGED stage
                ELSE /\ stage' = "fill" /\ group' = {} /\ known' = gather_local_labels(Absolutes)
                     /\ UNCHANGED <<sects, entry, changed, passes>>
    /\ UNCHANGED <<source, sound, text, templates, filled, objs>>

--------------------------------------------------------------------------------
(* The object module.                                                           *)

Fill ==
    /\ stage = "fill" /\ Len(filled) < Len(sects)
    /\ LET sect == sects[Len(filled) + 1]
           f == Sequence([i \in DOMAIN sect.segments |-> Filled(sect, i, known, templates)])
       IN IF \E i \in DOMAIN f : f[i].code.error
          THEN Fail /\ UNCHANGED filled
          ELSE filled' = Append(filled, f) /\ UNCHANGED stage
    /\ UNCHANGED <<source, sound, text, templates, sects, group, entry, changed, passes, known, objs>>

\* concat_rsects joins the sections of a name, which may not declare an entry twice.
SameName(s) == {r \in DOMAIN sects : sects[r].name = sects[s].name}
EntryTwice(s) ==
    \E r, q \in SameName(s) : r # q /\ sects[r].ents \cap sects[q].ents # {}
Records == [s \in DOMAIN sects |-> to_object_section_record(sects[s], filled[s])]

\* A section joins those of its name that were before it.
WithSection(before, s) ==
    LET same == {n \in DOMAIN before : before[n].name = s.name}
    IN IF same = {} THEN Append(before, First(s))
       ELSE [before EXCEPT ![CHOOSE n \in same : TRUE] = Joined(@, s)]
concat_rsects ==
    LET upto[n \in 0 .. Len(sects)] ==
            IF n = 0 THEN <<>>
            ELSE IF IsAbsolute(n) THEN upto[n - 1] ELSE WithSection(upto[n - 1], Records[n])
    IN upto[Len(sects)]

generate_object_module ==
    /\ stage = "fill" /\ Len(filled) = Len(sects)
    /\ IF \E s \in DOMAIN sects \ Absolutes : EntryTwice(s)
       THEN Fail /\ UNCHANGED objs
       ELSE /\ stage' = "done"
            /\ objs' = [asects |-> [n \in 1 .. Cardinality(Absolutes) |-> Records[n]],
                        rsects |-> concat_rsects]
    /\ UNCHANGED <<source, sound, text, templates, sects, group, entry, changed, passes, known, filled>>

Next == ProcessMacros \/ BuildAst \/ UpdateLength \/ NextPass \/ NextGroup \/ Fill \/ generate_object_module

Spec == Init /\ [][Next]_vars

--------------------------------------------------------------------------------
(* Properties.                                                                  *)

Settled == stage \in {"fill", "done"}

\* Every variable keeps its type; sections keep one record per declared label.
TypeOK ==
    /\ stage \in {"macros", "read", "absolute", "relocatable", "fill", "done", "failed"}
    /\ changed \in BOOLEAN /\ group \subseteq DOMAIN sects
    /\ entry \subseteq VaryingOf(group)
    /\ \A s \in DOMAIN sects : DOMAIN sects[s].labels = DOMAIN sects[s].declared
    /\ \A n \in DOMAIN objs.asects : IsAbs(objs.asects[n])
    /\ \A n \in DOMAIN objs.rsects : IsJoined(objs.rsects[n])

\* Where a label really is, in its section and for all.
TrueAddress(s, w) == Start(sects[s], sects[s].declared[w])
Home(s, w) == IF w \in DOMAIN sects[s].labels THEN s
              ELSE CHOOSE a \in Absolutes : w \in DOMAIN sects[a].labels
\* No empty padding grew, and no label stands in two absolute sections.
Regular ==
    /\ \A s \in DOMAIN sects : ~sects[s].regrown
    /\ \A r, s \in Absolutes : DOMAIN sects[r].labels \cap DOMAIN sects[s].labels \cap Labels # {} => r = s

\* When the lengths are settled every label stands where it was declared, whatever grew or
\* shrank before it, unless a padding became empty and grew again.
LabelsExact ==
    Settled => \A s \in DOMAIN sects : sects[s].regrown \/ LabelsAtCode(sects[s])

\* A branch or call to a label leads there, with the bits it was given.
ToLabel(s, seg) ==
    /\ seg.kind \in {"branch", "jsr"} /\ Len(seg.expr.add) = 1
    /\ seg.expr.const = 0 /\ seg.expr.fields = <<>> /\ seg.expr.add[1] \notin sects[s].exts
Signed(seg, c) == IF seg.kind = "branch" THEN (IF c.negative THEN c.value - 512 ELSE c.value)
                  ELSE IF c.value >= 512 THEN c.value - 1024 ELSE c.value
BranchesArrive ==
    stage = "done" /\ Regular => \A s \in DOMAIN sects : \A i \in DOMAIN sects[s].segments :
        LET seg == sects[s].segments[i] c == filled[s][i].code w == seg.expr.add[1] IN
        ToLabel(s, seg) =>
            TrueAddress(Home(s, w), w) =
                IF seg.size = 4 THEN c.value ELSE filled[s][i].at + 2 + 2 * Signed(seg, c)

\* A word or an immediate holds the value of its expression wherever its section is put
\* and whatever the address of an external label turns out to be.
Base == 4096
External == 512
Meaning(s, expr) ==
    LET fields == DOMAIN expr.fields
        Size == [n \in fields |-> templates[Dotted[expr.fields[n]].template][Dotted[expr.fields[n]].field]]
        Address(w) == IF w \in sects[s].exts THEN External
                      ELSE TrueAddress(Home(s, w), w) + IF IsAbsolute(Home(s, w)) THEN 0 ELSE Base
        terms == TermsOf(expr)
    IN expr.const + SumFunctionOnSet(Size, fields)
       + SumFunctionOnSet([w \in terms |-> Times(expr, w) * Address(w)], terms)
Relocated(c) ==
    LET own == {n \in DOMAIN c.fields : c.fields[n].label = Null}
    IN c.value + Base * Cardinality(own) + External * Cardinality(DOMAIN c.fields \ own)
InWord(seg) == seg.kind = "expression" \/ (Grows(seg) /\ seg.size = 4)
ValuesExact ==
    stage = "done" /\ Regular => \A s \in DOMAIN sects : \A i \in DOMAIN sects[s].segments :
        LET seg == sects[s].segments[i] c == filled[s][i].code value == Meaning(s, seg.expr) IN
        /\ InWord(seg) => Relocated(c) % Power(2) = value % Power(2)
        /\ seg.kind = "imm9" \/ (seg.kind = "ldi" /\ ~InWord(seg)) => c.value = value
        /\ seg.kind = "imm6" => c.value = IF seg.negative THEN -value ELSE value
        /\ seg.kind = "imm6_word" => 2 * c.value = value

\* What follows an align is aligned in the section of the module, and so is every
\* instruction, after sections of one name were joined.
AlignedAsAsked ==
    stage = "done" /\ Regular => \A s \in DOMAIN sects : \A i \in DOMAIN sects[s].segments :
        LET seg == sects[s].segments[i]
            behind == filled[s][i].at + IF seg.kind = "padding" THEN seg.size ELSE 0
            sect == objs.rsects[CHOOSE n \in DOMAIN objs.rsects : objs.rsects[n].name = sects[s].name]
            part == Cardinality({r \in SameName(s) : r < s}) + 1
        IN IF IsAbsolute(s) THEN behind % seg.alignment = 0
           ELSE /\ (behind + sect.parts[part].offset) % seg.alignment = 0
                /\ sect.alignment % seg.alignment = 0

\* The address at which the code of a line begins is listed with that line, and not with
\* another.  An absolute section must begin at 0.
LocationsExact ==
    Settled => \A s \in DOMAIN sects :
        sects[s].regrown \/ sects[s].address # 0 \/ LocationsAtCode(sects[s])

\* Both: labels and code locations move with the code (update_surroundings).
PlacesExact == LabelsExact /\ LocationsExact

\* All three: the object module holds what the text says (object_generator.py).
CodeExact == BranchesArrive /\ ValuesExact /\ AlignedAsAsked

GrowableOf(S) ==
    UNION {{s} \X {i \in DOMAIN sects[s].segments : Grows(sects[s].segments[i])} : s \in S}

\* The search for the lengths ends: in every pass but the last two a segment grows that
\* never shrinks again.
FewPasses ==
    group # {} => passes <= 2 + Cardinality(GrowableOf(group))

================================================================================
