--------------------------------- MODULE Linker ---------------------------------
(***************************************************************************)
(* The linker of cocas: relocatable sections of the same name are joined,   *)
(* those that the absolute ones need are placed into the gaps between them, *)
(* and the addresses are added to the fields that wait for one.             *)
(*                                                                          *)
(* Linking is sequential; its loops are actions, one iteration each.  Of    *)
(* the contents of a section only the fields are kept, which no other       *)
(* section overwrites: what the linker does to overlapping ones is not      *)
(* modelled beyond their addresses.                                         *)
(***************************************************************************)
EXTENDS ObjectModule

CONSTANTS
    Programs,       \* the inputs: absolute sections and relocatable pieces
    ImageSize       \* the target's image size, never None

\* A list of sections.
IsList(s) == s \in Seq(Range(s)) /\ \A i \in DOMAIN s : \A f \in Range(s[i].fields) : HoldsConstant(f)

ASSUME LinkerAssumption ==
    /\ ImageSize \in Nat
    /\ \A program \in Programs :
        /\ IsList(program.asects) /\ \A s \in Range(program.asects) : IsAbs(s)
        /\ IsList(program.pieces) /\ \A p \in Range(program.pieces) : IsRel(p)

VARIABLES
    stage,          \* the function of link that runs, "linked" or an exception
    asects, pieces, \* input, pieces not yet joined
    rsects,         \* the sections made of the others
    used, todo,     \* used_sects, and those in used_sects_queue not yet visited
    binned,         \* asects[1 .. binned] have been passed by init_bins
    lastBinBegin, bins,
    addresses,      \* sect_addresses of rsects[1 .. Len(addresses)]
    jobs,           \* fields not yet relocated
    lowerParts, image

vars == <<stage, asects, pieces, rsects, used, todo, binned, lastBinBegin, bins, addresses,
          jobs, lowerParts, image>>

--------------------------------------------------------------------------------
Init ==
    /\ \E program \in Programs : asects = program.asects /\ pieces = program.pieces
    /\ stage = "concat" /\ rsects = <<>>
    /\ used = {Abs} /\ todo = {Abs} /\ binned = 0 /\ lastBinBegin = 0 /\ bins = <<>>
    /\ addresses = <<>> /\ jobs = {} /\ lowerParts = [pos \in {} |-> 0] /\ image = <<>>

placeVars == <<binned, lastBinBegin, bins, addresses>>
fieldVars == <<jobs, lowerParts, image>>

--------------------------------------------------------------------------------
(* concat_rsects, and the references between the sections.                      *)

Concat ==
    /\ stage = "concat" /\ pieces # <<>> /\ pieces' = Tail(pieces)
    /\ LET p == Head(pieces)
           same == {k \in DOMAIN rsects : rsects[k].name = p.name}
       IN IF same = {}
          THEN rsects' = Append(rsects, First(p)) /\ UNCHANGED stage
          ELSE \E k \in same :
               IF DOMAIN rsects[k].entries \cap DOMAIN p.entries # {}
               THEN stage' = "same label" /\ UNCHANGED rsects
               ELSE rsects' = [rsects EXCEPT ![k] = Joined(@, p)] /\ UNCHANGED stage
    /\ UNCHANGED <<asects, used, todo, placeVars, fieldVars>>

\* Sections by name: all absolute ones are $abs.
Called(name) == IF name = Abs THEN Range(asects) ELSE {s \in Range(rsects) : s.name = name}
Defines(name) == UNION {DOMAIN s.entries : s \in Called(name)}
Exts(name) == (UNION {{f.label : f \in Range(s.fields)} : s \in Called(name)}) \ {Null}
Sects == {Abs} \cup {s.name : s \in Range(rsects)}

DuplicateEntry ==
    \/ \E i, j \in DOMAIN asects : i # j /\ DOMAIN asects[i].entries \cap DOMAIN asects[j].entries # {}
    \/ \E n, m \in Sects : n # m /\ Defines(n) \cap Defines(m) # {}

\* find_sect_by_ent
Collect ==
    /\ stage = "concat" /\ pieces = <<>>
    /\ stage' = IF DuplicateEntry THEN "duplicate entry" ELSE "references"
    /\ UNCHANGED <<asects, pieces, rsects, used, todo, placeVars, fieldVars>>

\* Mutant: what a visited section needs is not visited itself.
VisitShallow ==
    /\ stage = "references"
    /\ \E name \in todo :
        LET needed == {n \in Sects : Defines(n) \cap Exts(name) # {}} IN
        /\ used' = used \cup needed /\ todo' = todo \ {name}
    /\ UNCHANGED <<stage, asects, pieces, rsects, placeVars, fieldVars>>

\* find_referenced_sects, one section of the queue; labels come in any order.
Visit ==
    /\ stage = "references"
    /\ \E name \in todo :
        LET needed == {n \in Sects : Defines(n) \cap Exts(name) # {}} IN
        IF Exts(name) \subseteq UNION {Defines(n) : n \in Sects}
        THEN used' = used \cup needed /\ todo' = (todo \cup (needed \ used)) \ {name}
             /\ UNCHANGED stage
        ELSE stage' = "unresolved ext" /\ UNCHANGED <<used, todo>>
    /\ UNCHANGED <<asects, pieces, rsects, placeVars, fieldVars>>

\* The elements of s with index in I by rising key; the sorts of Python are stable.
Before(I, key, i) == {j \in I : key[j] < key[i] \/ (key[j] = key[i] /\ j < i)}
OrderedBy(s, I, key) ==
    [n \in 1 .. Cardinality(I) |-> s[CHOOSE i \in I : Cardinality(Before(I, key, i)) = n - 1]]

Referenced ==
    /\ stage = "references" /\ todo = {} /\ stage' = "bins"
    /\ rsects' = LET needed == {i \in DOMAIN rsects : rsects[i].name \in used}
                 IN OrderedBy(rsects, needed, [i \in needed |-> -rsects[i].size])
    /\ asects' = OrderedBy(asects, DOMAIN asects, [i \in DOMAIN asects |-> asects[i].address])
    /\ UNCHANGED <<pieces, used, todo, placeVars, fieldVars>>

--------------------------------------------------------------------------------
(* init_bins and place_sects.                                                   *)

Bin(begin, size) == [begin |-> begin, size |-> size]

\* Mutant: overlapping absolute sections are not noticed.
InitBinUnchecked ==
    /\ stage = "bins" /\ binned < Len(asects) /\ binned' = binned + 1
    /\ LET s == asects[binned'] IN
        /\ bins' = IF s.address # lastBinBegin THEN Append(bins, Bin(lastBinBegin, s.address - lastBinBegin))
                   ELSE bins
        /\ lastBinBegin' = s.address + s.size
    /\ UNCHANGED <<stage, asects, pieces, rsects, used, todo, addresses, fieldVars>>

\* The gap before an absolute section; empty sections are passed over.
InitBin ==
    /\ stage = "bins" /\ binned < Len(asects) /\ binned' = binned + 1
    /\ LET s == asects[binned']
           gap == s.address - lastBinBegin
       IN IF s.size = 0 THEN UNCHANGED <<stage, bins, lastBinBegin>>
          ELSE IF gap < 0 THEN stage' = "overlapping" /\ UNCHANGED <<bins, lastBinBegin>>
          ELSE /\ bins' = IF gap > 0 THEN Append(bins, Bin(lastBinBegin, gap)) ELSE bins
               /\ lastBinBegin' = s.address + s.size
               /\ stage' = IF lastBinBegin' > ImageSize THEN "exceeds image" ELSE stage
    /\ UNCHANGED <<asects, pieces, rsects, used, todo, addresses, fieldVars>>

LastBin ==
    /\ stage = "bins" /\ binned = Len(asects) /\ stage' = "place"
    /\ bins' = IF lastBinBegin < ImageSize
               THEN Append(bins, Bin(lastBinBegin, ImageSize - lastBinBegin)) ELSE bins
    /\ UNCHANGED <<asects, pieces, rsects, used, todo, binned, lastBinBegin, addresses, fieldVars>>

Fits(s, bin) ==
    s.size <= bin.size /\ RoundUp(bin.begin, s.alignment) + s.size <= bin.begin + bin.size

\* Mutant: the bin keeps its beginning.
PlaceAtBegin ==
    /\ stage = "place" /\ Len(addresses) < Len(rsects)
    /\ LET s == rsects[Len(addresses) + 1]
           fitting == {i \in DOMAIN bins : Fits(s, bins[i])}
       IN \E i \in fitting :
            LET address == RoundUp(bins[i].begin, s.alignment) IN
            /\ \A j \in fitting : i <= j
            /\ addresses' = Append(addresses, address)
            /\ bins' = [bins EXCEPT ![i].size = @ - s.size]
    /\ UNCHANGED <<stage, asects, pieces, rsects, used, todo, binned, lastBinBegin, fieldVars>>

\* The first bin that fits.  What is left of it begins behind the section, and is
\* as much shorter as the section is long: padding does not count.
Place ==
    /\ stage = "place" /\ Len(addresses) < Len(rsects)
    /\ LET s == rsects[Len(addresses) + 1]
           fitting == {i \in DOMAIN bins : Fits(s, bins[i])}
       IN IF fitting = {} THEN stage' = "no room" /\ UNCHANGED <<addresses, bins>>
          ELSE \E i \in fitting :
            LET address == RoundUp(bins[i].begin, s.alignment) IN
            /\ \A j \in fitting : i <= j
            /\ addresses' = Append(addresses, address) /\ UNCHANGED stage
            /\ bins' = [bins EXCEPT ![i] = Bin(address + s.size, @.size - s.size)]
    /\ UNCHANGED <<asects, pieces, rsects, used, todo, binned, lastBinBegin, fieldVars>>

--------------------------------------------------------------------------------
(* The fields.                                                                  *)

\* gather_ents
AddressOf(label) ==
    IF \E s \in Range(asects) : label \in DOMAIN s.entries
    THEN (CHOOSE s \in Range(asects) : label \in DOMAIN s.entries).entries[label]
    ELSE LET n == CHOOSE n \in DOMAIN rsects : label \in DOMAIN rsects[n].entries
         IN rsects[n].entries[label] + addresses[n]

\* What is at the n-th section, absolute ones first, and where the image has it.
Sect(n) == IF n <= Len(asects) THEN asects[n] ELSE rsects[n - Len(asects)]
Begin(n) == IF n <= Len(asects) THEN 0 ELSE addresses[n - Len(asects)]

\* A job is the number of a section and that of a field of it.
FieldOf(job) == Sect(job[1]).fields[job[2]]
IsOwn(job) == FieldOf(job).label = Null
Position(job) == Begin(job[1]) + FieldOf(job).offset
Addend(job) == IF IsOwn(job) THEN Begin(job[1]) ELSE AddressOf(FieldOf(job).label)

\* A section's fields are label by label, as they are in its dictionary external.
FirstUse(job) ==
    CHOOSE i \in DOMAIN Sect(job[1]).fields :
        /\ FieldOf(<<job[1], i>>).label = FieldOf(job).label
        /\ \A j \in 1 .. i - 1 : FieldOf(<<job[1], j>>).label # FieldOf(job).label

\* First the addresses of the sections themselves are added, then those of the labels.
Earlier(a, b) ==
    IF IsOwn(a) # IsOwn(b) THEN IsOwn(a)
    ELSE IF a[1] # b[1] THEN a[1] < b[1]
    ELSE IF FirstUse(a) # FirstUse(b) THEN FirstUse(a) < FirstUse(b)
    ELSE a[2] < b[2]

Relocate ==
    {job \in UNION {{n} \X DOMAIN Sect(n).fields : n \in 1 .. Len(asects) + Len(rsects)} :
        job[1] <= Len(asects) => ~IsOwn(job)}

Placed ==
    /\ stage = "place" /\ Len(addresses) = Len(rsects) /\ stage' = "fields" /\ jobs' = Relocate
    /\ UNCHANGED <<asects, pieces, rsects, used, todo, placeVars, lowerParts, image>>

\* A lower part is kept under the address of its field and looked for under the
\* offset of a field in its section.
AddAddress ==
    /\ stage = "fields"
    /\ \E job \in jobs :
        LET f == FieldOf(job)
            extra == IF f.offset \in DOMAIN lowerParts THEN lowerParts[f.offset] ELSE 0
            new == Added(f, Addend(job) + extra)
        IN /\ \A other \in jobs \ {job} : Earlier(job, other)
           /\ jobs' = jobs \ {job}
           /\ lowerParts' = IF f.start > 0 /\ new.lower # 0
                            THEN Overlay(lowerParts, [pos \in {Position(job)} |-> new.lower])
                            ELSE lowerParts
           /\ image' = Append(image, [field |-> f, addend |-> Addend(job), data |-> new.data])
    /\ UNCHANGED <<stage, asects, pieces, rsects, used, todo, placeVars>>

Linked ==
    /\ stage = "fields" /\ jobs = {} /\ stage' = "linked"
    /\ UNCHANGED <<asects, pieces, rsects, used, todo, placeVars, fieldVars>>

Next ==
    \/ Concat \/ Collect \/ Visit \/ Referenced
    \/ InitBin \/ LastBin \/ Place
    \/ Placed \/ AddAddress \/ Linked

Spec == Init /\ [][Next]_vars

--------------------------------------------------------------------------------
(* Properties.                                                                  *)

Exceptions == {"same label", "duplicate entry", "unresolved ext", "overlapping",
               "exceeds image", "no room"}

LinkStages == {"concat", "references", "bins", "place", "fields", "linked"} \cup Exceptions

\* The records of object_module and the lists that link works on; a bin has a size.
LinkTypeOK ==
    /\ \A s \in Range(asects) : IsAbs(s)
    /\ \A s \in Range(pieces) : IsRel(s)
    /\ \A s \in Range(rsects) : IsJoined(s)
    /\ used \subseteq Sects \cup {Abs} /\ todo \subseteq used
    /\ lastBinBegin \in Nat /\ bins \in Seq([begin: Nat, size: Nat])
    /\ binned \in 0 .. Len(asects)
    /\ addresses \in Seq(Nat) /\ Len(addresses) <= Len(rsects)

Interval(begin, size) == begin .. begin + size - 1
AbsSpace == UNION {Interval(s.address, s.size) : s \in Range(asects)}
Space(n) == Interval(addresses[n], rsects[n].size)
Free == (0 .. ImageSize - 1) \ (AbsSpace \cup UNION {Space(n) : n \in DOMAIN addresses})

\* Every piece of a relocatable section is at a multiple of its own alignment, in
\* the section and in the image, and behind the piece before it (concat_rsects
\* "with proper alignment", place_sects).
PiecesAligned ==
    \A n \in DOMAIN addresses :
        LET parts == rsects[n].parts IN
        /\ \A i \in DOMAIN parts : (addresses[n] + parts[i].offset) % parts[i].alignment = 0
        /\ \A i \in 2 .. Len(parts) : parts[i].offset >= parts[i - 1].offset + parts[i - 1].size

\* What is linked is what the absolute sections need, directly or not, and no more
\* (find_referenced_sects).
Closed(S) == Abs \in S /\ \A n \in S, m \in Sects : Defines(m) \cap Exts(n) # {} => m \in S
NeededIsUsed ==
    stage = "references" /\ todo = {} =>
        Closed(used) /\ \A S \in SUBSET Sects : Closed(S) => used \subseteq S

Unaligned == \A s \in Range(rsects) : s.alignment = 1

\* Nothing is placed over anything else or outside the image.
SectionsApart ==
    /\ \A n \in DOMAIN addresses :
        Space(n) \subseteq 0 .. ImageSize - 1 /\ Space(n) \cap AbsSpace = {}
    /\ \A n, m \in DOMAIN addresses : n # m => Space(n) \cap Space(m) = {}
    /\ stage \notin Exceptions => \A i, j \in 1 .. binned :
        i # j => Interval(asects[i].address, asects[i].size) \cap Interval(asects[j].address, asects[j].size) = {}

\* So it is when no section asks for an alignment (place_sects).
UnalignedApart == Unaligned => SectionsApart

\* Then linking fails for want of room only when no gap is long enough, wherever
\* the sections before it were placed (place_sects); an empty one also needs a gap.
NoRoomIsNoRoom ==
    stage = "no room" /\ Unaligned /\ rsects[Len(addresses) + 1].size > 0 =>
        \A a \in 0 .. ImageSize : ~(Interval(a, rsects[Len(addresses) + 1].size) \subseteq Free)

\* Together: no section lies over another, none is refused a place that there is, and
\* every piece of a section keeps its own alignment in it.
PlacedRight == UnalignedApart /\ NoRoomIsNoRoom /\ PiecesAligned

\* A field ends up with the bytes it asked for of its constant and the address.
IsExact(written) ==
    LET f == written.field IN
    written.data = ((f.const + written.addend) % Power(f.stop)) \div Power(f.start)

\* external_entry.py:7, "adds the value": so do all fields, wherever their sections
\* were joined and placed.
FieldsExact == \A i \in DOMAIN image : IsExact(image[i])

\* So they do when no field keeps a lower part, as for CdM-8 and CdM-16 (link,
\* concat_rsects): one field of a high byte is enough to spoil others.
WholeFieldsExact == (\A i \in DOMAIN image : image[i].field.start = 0) => FieldsExact

================================================================================
