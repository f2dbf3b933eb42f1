------------------------------- MODULE ObjectFile -------------------------------
(***************************************************************************)
(* Object files of cocas: what object_export writes for a list of object     *)
(* modules, the grammar a file must follow, and what object_import makes of  *)
(* one that does.                                                            *)
(*                                                                          *)
(* A file is a sequence of lines and a line a sequence of tokens.  A rule of *)
(* the grammar that is one line holds or not for a line; a rule that is many *)
(* lines leads from the first of them to the line behind the last one, 0 if  *)
(* there is a syntax error.  The parser takes as many lines as it can and    *)
(* its error listener raises on the first error.                             *)
(***************************************************************************)
EXTENDS ObjectModule, FiniteSetsExt

\* The word a line begins with, which is a token of its own wherever it stands.
Keywords == {"TARG", "FILE", "ABS", "LOC", "NTRY", "NAME", "ALIG", "DATA", "REL", "XTRN"}

\* targets/*.json; header is Null for a target that has none.
TargetParams == [
    cdm16  |-> [header |-> "CDM16",  default_alignment |-> 2, max_entry_size |-> 2],
    cdm16e |-> [header |-> "CDM16E", default_alignment |-> 2, max_entry_size |-> 2],
    cdm8   |-> [header |-> Null,     default_alignment |-> 1, max_entry_size |-> 1],
    cdm8e  |-> [header |-> "CDM8E",  default_alignment |-> 1, max_entry_size |-> 2]]

--------------------------------------------------------------------------------
(* Tokens.                                                                      *)

Token(type, text) == [type |-> type, text |-> text]
Word(w) == Token(IF w \in Keywords THEN w ELSE IF w = Abs THEN "ABS_SECTION" ELSE "WORD", w)
Number(n) == Token("WORD", n)
Line(keyword, tokens) == <<Token(keyword, keyword)>> \o tokens
Colon == Token("COLON", ":")
Plus == Token("PLUS", "+")

Listed(f) == SetToSeq({<<x, f[x]>> : x \in DOMAIN f})

--------------------------------------------------------------------------------
(* object_export                                                                *)

\* The bytes of a section: only the fields are told apart.
Bytes(s, base) ==
    [size |-> s.size, cells |-> {[at |-> f.offset - base, data |-> f.data] : f \in Range(s.fields)}]

\* Mutant: the bytes below those of a field are forgotten.
EntryNoLower(f) ==
    <<Number(f.offset)>> \o IF f.full THEN <<>> ELSE <<Colon, Number(f.start), Colon, Number(f.stop)>>

Entry(f) ==
    <<Number(f.offset)>> \o
    IF f.full THEN <<>>
    ELSE <<Colon, Number(f.start), Colon, Number(f.stop)>> \o
         IF f.lower = 0 THEN <<>> ELSE <<Plus, Number(f.lower)>>

Location(at, loc) == <<Number(at), Colon, Number(loc.line), Colon, Number(loc.column)>>

export_code_locations(cl) ==
    IF DOMAIN cl = {} THEN <<>>
    ELSE <<Line("LOC", FlattenSeq([i \in DOMAIN Listed(cl) |-> Location(Listed(cl)[i][1], Listed(cl)[i][2])]))>>

asect_useful(s) ==
    s.size > 0 \/ s.fields # <<>> \/ DOMAIN s.entries # {} \/ DOMAIN s.locations # {}

Entries(s) == [i \in DOMAIN Listed(s.entries) |->
                  Line("NTRY", <<Word(Listed(s.entries)[i][1]), Number(Listed(s.entries)[i][2])>>)]

ExportAbs(s, debug) ==
    <<Line("ABS", <<Token("WORD_ABS", s.address), Token("COLON_ABS", ":"),
                    Token("BYTES", Bytes(s, s.address))>>)>> \o
    IF debug THEN export_code_locations(s.locations) ELSE <<>>

IsOwnField(f) == f.label = Null

ExportRel(s, params, debug) ==
    <<Line("NAME", <<Word(s.name)>>)>> \o
    (IF s.alignment = params.default_alignment THEN <<>> ELSE <<Line("ALIG", <<Number(s.alignment)>>)>>) \o
    <<Line("DATA", <<Token("BYTES", Bytes(s, 0))>>)>> \o
    (IF debug THEN export_code_locations(s.locations) ELSE <<>>) \o
    <<Line("REL", LET own == SelectSeq(s.fields, IsOwnField)
                  IN FlattenSeq([i \in DOMAIN own |-> Entry(own[i])]))>> \o
    Entries(s)

\* The fields that wait for a label, with their sections.
Externals(sects) ==
    LET Of(s) == [i \in DOMAIN s.fields |-> [sect |-> s.name, field |-> s.fields[i]]]
        IsExternalUse(use) == use.field.label # Null
    IN SelectSeq(FlattenSeq([n \in DOMAIN sects |-> Of(sects[n])]), IsExternalUse)

ExportLabel(label, uses) ==
    LET OfLabel(use) == use.field.label = label
        own == SelectSeq(uses, OfLabel)
    IN Line("XTRN", <<Word(label), Colon>> \o
            FlattenSeq([i \in DOMAIN own |-> <<Word(own[i].sect)>> \o Entry(own[i].field)]))

ExportModule(obj, params, debug) ==
    LET useful == SelectSeq(obj.asects, asect_useful)
        named == [n \in DOMAIN obj.asects |-> [name |-> Abs, fields |-> obj.asects[n].fields]]
        uses == Externals((IF useful = <<>> THEN <<>> ELSE named) \o obj.rsects)
        labels == SetToSeq({use.field.label : use \in Range(uses)})
    IN (IF debug /\ obj.file # Null THEN <<Line("FILE", <<Token("FILEPATH", obj.file)>>)>> ELSE <<>>) \o
       FlattenSeq([n \in DOMAIN useful |-> ExportAbs(useful[n], debug)]) \o
       (IF useful = <<>> THEN <<>> ELSE FlattenSeq([n \in DOMAIN obj.asects |-> Entries(obj.asects[n])])) \o
       FlattenSeq([n \in DOMAIN obj.rsects |-> ExportRel(obj.rsects[n], params, debug)]) \o
       [n \in DOMAIN labels |-> ExportLabel(labels[n], uses)]

\* Empty lines between the modules are part of the line break before them.
export_object(objs, target, debug) ==
    LET params == TargetParams[target] IN
    (IF params.header = Null THEN <<>> ELSE <<Line("TARG", <<Word(params.header)>>)>>) \o
    FlattenSeq([n \in DOMAIN objs |-> ExportModule(objs[n], params, debug)])

--------------------------------------------------------------------------------
(* ObjectFileParser, the rules of one line.                                     *)

Has(l, i, type) == i \in DOMAIN l /\ l[i].type = type
number(l, i) == Has(l, i, "WORD")
label(l, i) == Has(l, i, "WORD")
section(l, i) == Has(l, i, "WORD") \/ Has(l, i, "ABS_SECTION")
data(l, i) == Has(l, i, "BYTES")
filepath(l, i) == Has(l, i, "FILEPATH")
abs_address(l, i) == Has(l, i, "WORD_ABS")
range(l, i) == number(l, i) /\ Has(l, i + 1, "COLON") /\ number(l, i + 2)
lower_part(l, i) == Has(l, i, "PLUS") /\ number(l, i + 1)
location(l, i) == range(l, i) /\ Has(l, i + 3, "COLON") /\ number(l, i + 4)

\* The token behind an entry_usage.
entry_usage(l, i) ==
    IF ~number(l, i) THEN 0
    ELSE IF ~Has(l, i + 1, "COLON") THEN i + 1
    ELSE IF ~range(l, i + 2) THEN 0
    ELSE IF Has(l, i + 5, "PLUS") THEN (IF lower_part(l, i + 5) THEN i + 7 ELSE 0)
    ELSE i + 5

targ_record(l) == Has(l, 1, "TARG") /\ label(l, 2) /\ Len(l) = 2
source_record(l) == Has(l, 1, "FILE") /\ filepath(l, 2) /\ Len(l) = 2
abs_record(l) == Has(l, 1, "ABS") /\ abs_address(l, 2) /\ Has(l, 3, "COLON_ABS") /\ data(l, 4) /\ Len(l) = 4
ntry_record(l) == Has(l, 1, "NTRY") /\ label(l, 2) /\ number(l, 3) /\ Len(l) = 3
name_record(l) == Has(l, 1, "NAME") /\ section(l, 2) /\ Len(l) = 2
alig_record(l) == Has(l, 1, "ALIG") /\ number(l, 2) /\ Len(l) = 2
data_record(l) == Has(l, 1, "DATA") /\ data(l, 2) /\ Len(l) = 2

\* Where the locations of a line begin, and where its entry usages do.
Locations(l) == {i \in DOMAIN l : i % 5 = 2}
loc_record(l) == /\ Has(l, 1, "LOC") /\ Len(l) % 5 = 1
                 /\ \A i \in Locations(l) : location(l, i)

\* The starts of the groups that follow each other up to the end of the line, with
\* 0 among them when one is broken.
Groups(l, first, After(_, _)) ==
    LET starts[i \in 0 .. Len(l) + 1] ==
            IF i = 0 THEN {0} ELSE IF i > Len(l) THEN {}
            ELSE {i} \cup LET j == After(l, i) IN starts[IF j > i THEN j ELSE 0]
    IN starts[first]

UsageIn(l, i) == IF section(l, i) THEN entry_usage(l, i + 1) ELSE 0
Relocations(l) == Groups(l, 2, entry_usage)
Usages(l) == Groups(l, 4, UsageIn)

rel_record(l) == Has(l, 1, "REL") /\ 0 \notin Relocations(l)
xtrn_record(l) == Has(l, 1, "XTRN") /\ label(l, 2) /\ Has(l, 3, "COLON") /\ 0 \notin Usages(l)

Record(l) ==
    IF \/ targ_record(l) \/ source_record(l) \/ abs_record(l) \/ loc_record(l) \/ ntry_record(l)
       \/ name_record(l) \/ alig_record(l) \/ data_record(l) \/ rel_record(l) \/ xtrn_record(l)
    THEN l[1].type ELSE "error"

--------------------------------------------------------------------------------
(* ObjectFileParser, the rules of several lines: from the kinds of the lines and *)
(* the first line to the line behind.                                            *)

Kinds(text) == [i \in DOMAIN text |-> Record(text[i])]
Kind(k, i) == IF i \in DOMAIN k THEN k[i] ELSE "EOF"

Star(k, kind, i) == Min({j \in i .. Len(k) + 1 : Kind(k, j) # kind})
Option(k, kind, i) == IF Kind(k, i) = kind THEN i + 1 ELSE i

abs_block(k, i) == Star(k, "LOC", i + 1)

asect_block(k, i) ==
    LET after[j \in i .. Len(k) + 1] ==
            CASE Kind(k, j) = "ABS" -> after[abs_block(k, j)]
              [] Kind(k, j) = "NTRY" -> after[j + 1]
              [] OTHER -> j
    IN after[i]

rsect_block(k, i) ==
    LET data_at == Option(k, "ALIG", i + 1) IN
    IF Kind(k, data_at) # "DATA" THEN 0
    ELSE Star(k, "NTRY", Option(k, "REL", Star(k, "LOC", data_at + 1)))

\* The relocatable blocks that follow each other from line i; 0 among the ends is an error.
rsect_blocks(k, i) ==
    LET blocks[j \in 0 .. Len(k) + 1] ==
            IF j = 0 \/ Kind(k, j) # "NAME" THEN <<>>
            ELSE <<[first |-> j, end |-> rsect_block(k, j)]>> \o blocks[rsect_block(k, j)]
    IN blocks[i]

\* Where the parts of the block that begins with line i begin.
object_block(k, i) ==
    LET asects == Option(k, "FILE", i)
        rsects == asect_block(k, asects)
        blocks == rsect_blocks(k, rsects)
        xtrns == IF blocks = <<>> THEN rsects ELSE Last(blocks).end
    IN [first |-> i, asects |-> asects, rsects |-> rsects, blocks |-> blocks, xtrns |-> xtrns,
        end |-> IF xtrns \in {0, asects} THEN 0 ELSE Star(k, "XTRN", xtrns)]

\* The blocks of the file; syntax errors are ends of 0 and lines that are left.
object_file(k) ==
    LET blocks[i \in 0 .. Len(k) + 1] ==
            IF i = 0 THEN <<>>
            ELSE LET block == object_block(k, i) IN
                 <<block>> \o IF Kind(k, block.end) \in {"FILE", "ABS", "NTRY", "NAME"}
                              THEN blocks[block.end] ELSE <<>>
    IN blocks[Option(k, "TARG", 1)]

Parses(k) == LET blocks == object_file(k) IN
    (\A n \in DOMAIN blocks : blocks[n].end # 0) /\ Last(blocks).end = Len(k) + 1

--------------------------------------------------------------------------------
(* ImportObjectFileVisitor.  text[i] is the line i of the file, k its kind.      *)

In(k, kind, first, end) == {i \in first .. end - 1 : k[i] = kind}
NoEntries == [x \in {} |-> 0]

visitNtry_records(text, lines) ==
    LET LastOf(w) == Max({i \in lines : text[i][2].text = w})
    IN [w \in {text[i][2].text : i \in lines} |-> text[LastOf(w)][3].text]

\* An address stands in the location records of a section once.
visitLoc_records(text, lines) ==
    LET all == UNION {{<<i, j>> : j \in Locations(text[i])} : i \in lines}
        Address(ij) == text[ij[1]][ij[2]].text
        Of(n) == CHOOSE ij \in all : Address(ij) = n
    IN [n \in {Address(ij) : ij \in all} |->
            [file |-> Null, line |-> text[Of(n)[1]][Of(n)[2] + 2].text,
             column |-> text[Of(n)[1]][Of(n)[2] + 4].text]]

\* The field whose entry usage is at token j of line l, over bytes.
visitEntry_usage(l, j, w, bytes, base, params) ==
    LET offset == l[j].text
        ranged == Has(l, j + 1, "COLON")
        start == IF ranged THEN l[j + 2].text ELSE 0
        lower == IF ranged /\ Has(l, j + 5, "PLUS") THEN l[j + 6].text ELSE 0
        cells == {c \in bytes.cells : c.at = offset - base}
        value == IF cells = {} THEN 0 ELSE (CHOOSE c \in cells : TRUE).data
    IN [label |-> w, offset |-> offset, start |-> start,
        stop |-> IF ranged THEN l[j + 4].text ELSE params.max_entry_size,
        data |-> value, lower |-> lower, full |-> ~ranged,
        const |-> value * Power(start) + lower]

visitRel_record(text, lines, bytes, params) ==
    FlattenSeq([n \in 1 .. Cardinality(lines) |->
        LET l == text[Min(lines)]
            starts == SetToSortSeq(Relocations(l), <)
        IN [i \in DOMAIN starts |-> visitEntry_usage(l, starts[i], Null, bytes, 0, params)]])

\* The uses of labels in the records XTRN: the section's name, line and token.
visitXtrn_records(text, lines) ==
    LET order == SetToSortSeq(lines, <)
        InLine(i) == LET starts == SetToSortSeq(Usages(text[i]), <)
                     IN [n \in DOMAIN starts |-> [sect |-> text[i][starts[n]].text, line |-> i, token |-> starts[n] + 1]]
    IN FlattenSeq([n \in DOMAIN order |-> InLine(order[n])])

UsesOf(text, uses, name, bytes, base, params) ==
    LET Here(use) == use.sect = name
        own == SelectSeq(uses, Here)
    IN [n \in DOMAIN own |-> visitEntry_usage(text[own[n].line], own[n].token, text[own[n].line][2].text,
                                              bytes, base, params)]

visitRsect_block(text, k, block, uses, params) ==
    LET Lines(kind) == In(k, kind, block.first, block.end)
        One(kind) == text[Min(Lines(kind))][2].text
        bytes == One("DATA")
    IN [name |-> One("NAME"), size |-> bytes.size,
        alignment |-> IF Lines("ALIG") = {} THEN params.default_alignment ELSE One("ALIG"),
        entries |-> visitNtry_records(text, Lines("NTRY")),
        fields |-> visitRel_record(text, Lines("REL"), bytes, params) \o
                   UsesOf(text, uses, One("NAME"), bytes, 0, params),
        locations |-> visitLoc_records(text, Lines("LOC"))]

\* The section of address a that an entry or a use at n goes to.
Owner(addresses, n) ==
    LET below == {a \in addresses : a <= n} IN IF below = {} THEN Min(addresses) ELSE Max(below)

\* The absolute sections by address: of two with the same address the later stays.
\* link sorts them; here they are sorted already.
visitAsect_block(text, k, first, end, uses, params) ==
    LET abs == In(k, "ABS", first, end)
        ntries == In(k, "NTRY", first, end)
        AddressOfLine(i) == text[i][2].text
        addresses == IF abs = {} /\ ntries # {} THEN {0} ELSE {AddressOfLine(i) : i \in abs}
        LineOf(a) == Max({i \in abs : AddressOfLine(i) = a})
        bytes(a) == IF abs = {} THEN [size |-> 0, cells |-> {}] ELSE text[LineOf(a)][4].text
        all == [size |-> 0, cells |-> UNION {{[at |-> c.at + a, data |-> c.data] : c \in bytes(a).cells} : a \in addresses}]
        fields == UsesOf(text, uses, Abs, all, 0, params)
        Asect(a) ==
            LET Mine(f) == Owner(addresses, f.offset) = a
            IN [address |-> a, size |-> bytes(a).size,
                entries |-> visitNtry_records(text, {i \in ntries : Owner(addresses, text[i][3].text) = a}),
                fields |-> SelectSeq(fields, Mine),
                locations |-> IF abs = {} THEN NoEntries
                              ELSE visitLoc_records(text, LineOf(a) + 1 .. abs_block(k, LineOf(a)) - 1)]
        order == SetToSortSeq(addresses, <)
    IN [n \in DOMAIN order |-> Asect(order[n])]

\* The locations of sections without a source file are dropped.
Located(sects, file) ==
    [n \in DOMAIN sects |-> [sects[n] EXCEPT !.locations =
        IF file = Null THEN NoEntries ELSE [at \in DOMAIN @ |-> [@[at] EXCEPT !.file = file]]]]

visitObject_block(text, k, block, params) ==
    LET file == IF k[block.first] = "FILE" THEN text[block.first][2].text ELSE Null
        uses == visitXtrn_records(text, block.xtrns .. block.end - 1)
        asects == visitAsect_block(text, k, block.asects, block.rsects, uses, params)
        rsects == [n \in DOMAIN block.blocks |-> visitRsect_block(text, k, block.blocks[n], uses, params)]
        names == {rsects[n].name : n \in DOMAIN rsects}
    IN [error |-> \/ Cardinality(names) # Len(rsects)
                  \/ \E use \in Range(uses) :
                        use.sect \notin names /\ (use.sect # Abs \/ asects = <<>>),
        file |-> file, asects |-> Located(asects, file), rsects |-> Located(rsects, file)]

\* import_object: the modules of a file, or an exception.
visitObject_file(text, params) ==
    LET k == Kinds(text)
        header == IF Kind(k, 1) = "TARG" THEN text[1][2].text ELSE Null
        blocks == object_file(k)
    IN IF ~Parses(k) THEN [error |-> "syntax error", objs |-> <<>>]
       ELSE IF header # params.header THEN [error |-> "wrong target", objs |-> <<>>]
       ELSE LET objs == [n \in DOMAIN blocks |-> visitObject_block(text, k, blocks[n], params)]
            IN [error |-> IF \E n \in DOMAIN objs : objs[n].error THEN "object error" ELSE "",
                objs |-> objs]

--------------------------------------------------------------------------------
(* read_object_files: the paths of the sources.  A path is relative or absolute,  *)
(* with links and dots or canonical; sources are inside the base directory.       *)

resolve(p) == [p EXCEPT !.absolute = TRUE, !.canonical = TRUE]
RelativeTo(p) == [p EXCEPT !.absolute = FALSE]
Under(p) == IF p.absolute THEN p ELSE [p EXCEPT !.absolute = TRUE, !.canonical = FALSE]

\* Of the options --relative-path and --absolute-path at most one is given; either and
\* --realpath need a module that has a source file.
NeedsFile(options) == options.base # "none" \/ options.realpath

ConvertedPath(p, options, isLocation) ==
    LET real == IF options.realpath THEN resolve(p) ELSE p IN
    CASE options.base = "relative" -> RelativeTo(real)
      [] options.base = "absolute" -> Under(real)
      [] OTHER -> real

ConvertPaths(obj, options) ==
    LET Convert(sects) == [n \in DOMAIN sects |-> [sects[n] EXCEPT !.locations =
            [at \in DOMAIN @ |-> [@[at] EXCEPT !.file = ConvertedPath(@, options, TRUE)]]]]
    IN [file |-> IF obj.file = Null THEN Null ELSE ConvertedPath(obj.file, options, FALSE),
        asects |-> Convert(obj.asects), rsects |-> Convert(obj.rsects)]

================================================================================
