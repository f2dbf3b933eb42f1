------------------------------ MODULE ObjectModule ------------------------------
(***************************************************************************)
(* The object code that assembler, object files and linker of cocas hand to  *)
(* one another, and the joining of relocatable sections of the same name.    *)
(* Of the contents of a section only its fields are kept, the places where   *)
(* an address is added.                                                      *)
(***************************************************************************)
EXTENDS Integers, SequencesExt

CONSTANTS
    Names, Labels,  \* names of relocatable sections, labels
    Byte,           \* values of a byte, 256 in the code
    Null            \* nothing: the field waits for its own section's address

Abs == "$abs"

\* An ExternalEntry: bytes start .. stop - 1 of an address, all its bytes if full, are
\* added at offset to data and the lower bytes kept beside it.  const is the whole
\* constant (history).
Field == [label: Labels \cup {Null}, offset: Nat, start: {0, 1}, stop: {1, 2},
          data: Nat, lower: Nat, full: BOOLEAN, const: Nat]

\* ObjectSectionRecord, of which an absolute section has an address and a relocatable
\* one a name and an alignment.  parts is history: where each joined piece went.
IsRecord(s) ==
    /\ s.size \in Nat /\ s.fields \in Seq(Field)
    /\ DOMAIN s.entries \subseteq Labels /\ s.entries \in [DOMAIN s.entries -> Nat]
IsAbs(s) == IsRecord(s) /\ s.address \in Nat
IsRel(s) == IsRecord(s) /\ s.name \in Names /\ s.alignment \in Nat \ {0}
IsJoined(s) == IsRel(s) /\ s.parts \in Seq([offset: Nat, size: Nat, alignment: Nat \ {0}])

ASSUME ModuleAssumption ==
    Byte \in Nat \ {0, 1} /\ Abs \notin Names /\ Null \notin Labels

--------------------------------------------------------------------------------
RoundUp(n, a) == ((n + a - 1) \div a) * a

Lcm(a, b) == CHOOSE m \in 1 .. a * b :
    /\ m % a = 0 /\ m % b = 0
    /\ \A k \in 1 .. m - 1 : k % a # 0 \/ k % b # 0

Power(start) == IF start = 0 THEN 1 ELSE IF start = 1 THEN Byte ELSE Byte * Byte

\* A field without lower bytes holds its constant, whoever made it.
HoldsConstant(f) ==
    f.start = 0 => f.lower = 0 /\ f.data % Power(f.stop) = f.const % Power(f.stop)

\* What a field holds when addend is added to it, with its new lower part.
Added(f, addend) ==
    LET val == (f.data * Power(f.start) + f.lower + addend) % Power(f.stop) IN
    [data |-> val \div Power(f.start), lower |-> val % Power(f.start)]

Overlay(f, g) == [x \in DOMAIN f \cup DOMAIN g |-> IF x \in DOMAIN g THEN g[x] ELSE f[x]]
Shifted(entries, n) == [l \in DOMAIN entries |-> entries[l] + n]

\* Mutant: only labels of other sections move with the piece.
MovedData(f, n) == [f EXCEPT !.offset = @ + n, !.const = IF f.label = Null THEN @ + n ELSE @]

\* A field that moves with its piece.  The new lower part is assigned to the
\* original entry, not to the copy that goes into the section.
Moved(f, n) ==
    LET g == [f EXCEPT !.offset = @ + n]
        own == [g EXCEPT !.data = Added(f, n).data]
    IN IF f.label # Null THEN g ELSE [own EXCEPT !.const = @ + n]

Joined(s, p) ==
    LET prev == RoundUp(s.size, p.alignment) IN
    [name |-> s.name, size |-> prev + p.size, alignment |-> Lcm(s.alignment, p.alignment),
     entries |-> Overlay(s.entries, Shifted(p.entries, prev)),
     fields |-> s.fields \o [i \in DOMAIN p.fields |-> Moved(p.fields[i], prev)],
     parts |-> Append(s.parts, [offset |-> prev, size |-> p.size, alignment |-> p.alignment])]

First(p) ==
    [name |-> p.name, size |-> p.size, alignment |-> p.alignment, entries |-> p.entries,
     fields |-> p.fields, parts |-> <<[offset |-> 0, size |-> p.size, alignment |-> p.alignment]>>]

================================================================================
