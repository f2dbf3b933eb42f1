---------------------------- MODULE AssemblerProof ----------------------------
(***************************************************************************)
(* The search for the lengths: it is short, and labels and code locations    *)
(* are where the code is when it ends.  What the object module holds then is  *)
(* what the text says.                                                      *)
(*                                                                          *)
(* While a section is asked its positions, labels and locations are not where *)
(* the segments will be found: what was asked has moved what is behind it, by   *)
(* a comparison with its position, and an alignment has not been asked yet.     *)
(* Placing says that there are places, the ones the update has in mind, that    *)
(* fit all of them and that every segment of varying length is at.  When        *)
(* nothing changes in a pass these places are those of the code.               *)
(*                                                                          *)
(* Chosen says that a segment found no reason to change, and AskedInv that     *)
(* this is so for what was asked in a pass in which nothing has changed yet:    *)
(* what is known of labels is then what it was at the beginning of the pass.    *)
(* SettledIn keeps it for the sections that are done, whose labels stay, and    *)
(* FillInv says what was filled in: from there on it is arithmetic.             *)
(***************************************************************************)
EXTENDS Assembler, ObjectModuleProof

--------------------------------------------------------------------------------
(* Sequences, and where segments begin.                                         *)

\* What sequences are as functions.
LEMMA SequenceFacts ==
    ASSUME NEW s, IsSequence(s)
    PROVE  Len(s) \in Nat /\ DOMAIN s = 1 .. Len(s) /\ s = [i \in 1 .. Len(s) |-> s[i]]
<1>1. s \in Seq(Range(s))
  BY DEF IsSequence
<1> QED
  BY <1>1, LenProperties

\* A function of 1 .. n is a sequence.
LEMMA FunctionIsSequence ==
    ASSUME NEW n \in Nat, NEW s, s = [i \in 1 .. n |-> s[i]]
    PROVE  IsSequence(s) /\ Len(s) = n /\ DOMAIN s = 1 .. n
<1>1. s \in [1 .. n -> Range(s)]
  BY DEF Range
<1>2. s \in Seq(Range(s))
  BY <1>1, SeqDef
<1>3. DOMAIN s = 1 .. n
  OBVIOUS
<1>4. Len(s) \in Nat /\ DOMAIN s = 1 .. Len(s)
  BY <1>2, LenProperties
<1>5. Len(s) = n
  <2>1. CASE n = 0
    BY <1>3, <1>4, <2>1
  <2>2. CASE n # 0
    <3>1. n \in 1 .. Len(s) /\ Len(s) + 1 \notin 1 .. n
      BY <1>3, <1>4, <2>2
    <3> QED
      BY <3>1, <1>4
  <2> QED
    BY <2>1, <2>2
<1> QED
  BY <1>2, <1>3, <1>5 DEF IsSequence

Sized(segments) == IsSequence(segments) /\ \A i \in DOMAIN segments : segments[i].size \in Nat

\* The functions that say where segments begin.
AtPlaces(segments, n, m, at) ==
    at = [i \in 1 .. m |-> IF i = 1 THEN n ELSE at[i - 1] + segments[i - 1].size]

\* Segments begin one after the other.
LEMMA PlacesFacts ==
    ASSUME NEW segments, Sized(segments), NEW n \in Int
    PROVE  /\ Places(segments, n) \in [1 .. Len(segments) + 1 -> Int]
           /\ Places(segments, n)[1] = n
           /\ \A i \in 1 .. Len(segments) :
                Places(segments, n)[i + 1] = Places(segments, n)[i] + segments[i].size
<1>1. Len(segments) \in Nat /\ DOMAIN segments = 1 .. Len(segments)
  BY SequenceFacts DEF Sized
<1> DEFINE Lengths == {m \in Nat : m <= Len(segments) + 1 /\ ~ \E at : AtPlaces(segments, n, m, at)}
<1>2. ASSUME Lengths # {} PROVE FALSE
  <2>1. PICK m \in Lengths : \A k \in Lengths : m <= k
    BY <1>2, LeastNumber
  <2>2. m # 0
    <3> DEFINE at == [i \in 1 .. 0 |-> n]
    <3>1. AtPlaces(segments, n, 0, at)
      BY DEF AtPlaces
    <3> QED
      BY <3>1
  <2>3. m - 1 \in Nat /\ m - 1 \notin Lengths /\ m - 1 <= Len(segments) + 1
    BY <2>1, <2>2, <1>1
  <2>4. PICK at : AtPlaces(segments, n, m - 1, at)
    BY <2>3
  <2> DEFINE more == [i \in 1 .. m |-> IF i = 1 THEN n ELSE at[i - 1] + segments[i - 1].size]
  <2>5. \A i \in 1 .. m - 1 : more[i] = at[i]
    BY <2>3, <2>4 DEF AtPlaces
  <2>6. \A i \in 1 .. m : i # 1 => i - 1 \in 1 .. m - 1
    BY <2>3
  <2>7. AtPlaces(segments, n, m, more)
    BY <2>5, <2>6 DEF AtPlaces
  <2> QED
    BY <2>7
<1>3. \E at : AtPlaces(segments, n, Len(segments) + 1, at)
  <2>1. Len(segments) + 1 \notin Lengths
    BY <1>2
  <2> QED
    BY <2>1, <1>1
<1>4. AtPlaces(segments, n, Len(segments) + 1, Places(segments, n))
  <2>1. Places(segments, n) = CHOOSE at : AtPlaces(segments, n, Len(segments) + 1, at)
    BY DEF Places, AtPlaces
  <2> QED
    BY <2>1, <1>3
<1> DEFINE at == Places(segments, n)
           No == {i \in Nat : i \in 1 .. Len(segments) + 1 /\ at[i] \notin Int}
<1>5. at[1] = n /\ \A i \in 1 .. Len(segments) : at[i + 1] = at[i] + segments[i].size
  BY <1>1, <1>4 DEF AtPlaces
<1>6. DOMAIN at = 1 .. Len(segments) + 1
  BY <1>4 DEF AtPlaces
<1>7. at = [i \in 1 .. Len(segments) + 1 |-> at[i]]
  BY <1>4 DEF AtPlaces
<1> HIDE DEF at
<1>8. ASSUME No # {} PROVE FALSE
  <2>1. PICK i \in No : \A k \in No : i <= k
    BY <1>8, LeastNumber
  <2>2. i # 1 /\ i \in 1 .. Len(segments) + 1 /\ at[i] \notin Int
    BY <1>5, <2>1
  <2>3. i - 1 \in 1 .. Len(segments) /\ i - 1 \notin No /\ (i - 1) + 1 = i
    BY <2>1, <2>2, <1>1
  <2>4. at[i - 1] \in Int /\ segments[i - 1].size \in Int
    BY <2>3, <1>1 DEF Sized
  <2> QED
    BY <2>2, <2>3, <2>4, <1>5
<1>9. \A i \in 1 .. Len(segments) + 1 : at[i] \in Int
  BY <1>8, <1>1
<1> QED
  BY <1>5, <1>7, <1>9 DEF at

\* A segment begins behind those before it.
LEMMA PlacesOrdered ==
    ASSUME NEW segments, Sized(segments), NEW n \in Int
    PROVE  \A i, j \in 1 .. Len(segments) + 1 : i < j =>
                Places(segments, n)[i] + segments[i].size <= Places(segments, n)[j]
<1>1. Len(segments) \in Nat /\ DOMAIN segments = 1 .. Len(segments)
  BY SequenceFacts DEF Sized
<1> DEFINE at == Places(segments, n)
<1>2. /\ at \in [1 .. Len(segments) + 1 -> Int]
      /\ \A i \in 1 .. Len(segments) : at[i + 1] = at[i] + segments[i].size
  BY PlacesFacts
<1> HIDE DEF at
<1> SUFFICES ASSUME NEW i \in 1 .. Len(segments) + 1
             PROVE  \A j \in 1 .. Len(segments) + 1 : i < j => at[i] + segments[i].size <= at[j]
  BY DEF at
<1> DEFINE No == {j \in Nat : j \in 1 .. Len(segments) + 1 /\ i < j /\ ~ (at[i] + segments[i].size <= at[j])}
<1>3. ASSUME No # {} PROVE FALSE
  <2>1. PICK j \in No : \A k \in No : j <= k
    BY <1>3, LeastNumber
  <2>2. j \in 1 .. Len(segments) + 1 /\ i < j /\ ~ (at[i] + segments[i].size <= at[j])
    BY <2>1
  <2>3. j - 1 \in 1 .. Len(segments) /\ (j - 1) + 1 = j /\ i \in 1 .. Len(segments)
    BY <1>1, <2>2
  <2>4. at[j] = at[j - 1] + segments[j - 1].size /\ at[j - 1] \in Int /\ at[i] \in Int
    <3>1. j - 1 \in 1 .. Len(segments) + 1
      BY <1>1, <2>3
    <3>2. at[j - 1 + 1] = at[j - 1] + segments[j - 1].size
      BY <1>2, <2>3
    <3> QED
      BY <1>2, <2>3, <3>1, <3>2
  <2>5. segments[j - 1].size \in Nat /\ segments[i].size \in Nat
    BY <1>1, <2>3 DEF Sized
  <2>6. CASE i = j - 1
    BY <2>2, <2>3, <2>4, <2>5, <2>6, <1>1
  <2>7. CASE i < j - 1
    <3>1. j - 1 \notin No /\ j - 1 \in 1 .. Len(segments) + 1 /\ j - 1 \in Nat
      BY <1>1, <2>1, <2>3
    <3>2. at[i] + segments[i].size <= at[j - 1]
      BY <2>7, <3>1
    <3> QED
      BY <2>2, <2>4, <2>5, <3>2
  <2> QED
    BY <2>2, <2>3, <2>6, <2>7
<1> QED
  BY <1>1, <1>3

\* When one segment becomes longer, those behind it move.
LEMMA PlacesMoved ==
    ASSUME NEW segments, Sized(segments), NEW others, Sized(others), NEW n \in Int,
           Len(others) = Len(segments), NEW a \in 1 .. Len(segments), NEW d \in Int,
           others[a].size = segments[a].size + d,
           \A i \in 1 .. Len(segments) : i # a => others[i].size = segments[i].size
    PROVE  \A j \in 1 .. Len(segments) + 1 :
                Places(others, n)[j] = Places(segments, n)[j] + IF j > a THEN d ELSE 0
<1>1. Len(segments) \in Nat /\ DOMAIN segments = 1 .. Len(segments)
  BY SequenceFacts DEF Sized
<1> DEFINE at == Places(segments, n)
           to == Places(others, n)
<1>2. /\ at \in [1 .. Len(segments) + 1 -> Int] /\ at[1] = n
      /\ \A i \in 1 .. Len(segments) : at[i + 1] = at[i] + segments[i].size
  BY PlacesFacts
<1>3. /\ to \in [1 .. Len(segments) + 1 -> Int] /\ to[1] = n
      /\ \A i \in 1 .. Len(segments) : to[i + 1] = to[i] + others[i].size
  BY PlacesFacts
<1> HIDE DEF at, to
<1> SUFFICES \A j \in 1 .. Len(segments) + 1 : to[j] = at[j] + IF j > a THEN d ELSE 0
  BY DEF at, to
<1> DEFINE No == {j \in Nat : j \in 1 .. Len(segments) + 1 /\ ~ (to[j] = at[j] + IF j > a THEN d ELSE 0)}
<1>4. ASSUME No # {} PROVE FALSE
  <2>1. PICK j \in No : \A k \in No : j <= k
    BY <1>4, LeastNumber
  <2>2. j \in 1 .. Len(segments) + 1 /\ ~ (to[j] = at[j] + IF j > a THEN d ELSE 0)
    BY <2>1
  <2>3. j # 1
    BY <1>2, <1>3, <2>2
  <2>4. j - 1 \in 1 .. Len(segments) /\ (j - 1) + 1 = j /\ j - 1 \notin No /\ j - 1 \in Nat
    BY <1>1, <2>1, <2>2, <2>3
  <2>5. to[j - 1] = at[j - 1] + IF j - 1 > a THEN d ELSE 0
    BY <2>4, <1>1
  <2>6. at[j] = at[j - 1] + segments[j - 1].size /\ to[j] = to[j - 1] + others[j - 1].size
    BY <1>2, <1>3, <2>4
  <2>7. segments[j - 1].size \in Nat /\ at[j - 1] \in Int
    BY <1>1, <1>2, <2>4 DEF Sized
  <2>8. CASE j - 1 = a
    BY <2>2, <2>5, <2>6, <2>7, <2>8
  <2>9. CASE j - 1 # a
    <3>1. others[j - 1].size = segments[j - 1].size
      BY <2>4, <2>9
    <3>2. j - 1 > a <=> j > a
      BY <2>9, <2>4
    <3> QED
      BY <2>2, <2>5, <2>6, <2>7, <3>1, <3>2
  <2> QED
    BY <2>8, <2>9
<1> QED
  BY <1>1, <1>4

\* Only the sizes say where segments begin.
LEMMA PlacesSame ==
    ASSUME NEW segments, Sized(segments), NEW others, Sized(others), NEW n \in Int,
           Len(others) = Len(segments),
           \A i \in 1 .. Len(segments) : others[i].size = segments[i].size
    PROVE  Places(others, n) = Places(segments, n)
<1>1. Len(segments) \in Nat
  BY SequenceFacts DEF Sized
<1>2. /\ Places(segments, n) \in [1 .. Len(segments) + 1 -> Int] /\ Places(segments, n)[1] = n
      /\ Places(others, n) \in [1 .. Len(segments) + 1 -> Int] /\ Places(others, n)[1] = n
  BY PlacesFacts
<1>3. CASE Len(segments) = 0
  BY <1>2, <1>3
<1>4. CASE Len(segments) # 0
  <2>1. 1 \in 1 .. Len(segments) /\ segments[1].size \in Int
    BY <1>1, <1>4, SequenceFacts DEF Sized
  <2>2. others[1].size = segments[1].size + 0
    BY <2>1
  <2>3. \A j \in 1 .. Len(segments) + 1 :
          Places(others, n)[j] = Places(segments, n)[j] + IF j > 1 THEN 0 ELSE 0
    BY <2>1, <2>2, PlacesMoved
  <2> QED
    BY <1>2, <2>3
<1> QED
  BY <1>3, <1>4

--------------------------------------------------------------------------------
(* Sections.                                                                    *)

\* Where the code of a section begins.
LEMMA StartFacts ==
    ASSUME NEW sect, IsSection(sect)
    PROVE  /\ Len(sect.segments) \in Nat /\ DOMAIN sect.segments = 1 .. Len(sect.segments)
           /\ Sized(sect.segments)
           /\ \A i \in 1 .. Len(sect.segments) : IsSegment(sect.segments[i])
           /\ \A i \in 1 .. Len(sect.segments) + 1 : Start(sect, i) \in Nat
           /\ Start(sect, 1) = sect.address
           /\ \A i, j \in 1 .. Len(sect.segments) + 1 : i < j =>
                Start(sect, i) + sect.segments[i].size <= Start(sect, j)
           /\ \A i, j \in 1 .. Len(sect.segments) + 1 : i <= j => Start(sect, i) <= Start(sect, j)
<1>1. Len(sect.segments) \in Nat /\ DOMAIN sect.segments = 1 .. Len(sect.segments)
  BY SequenceFacts DEF IsSection
<1>2. \A i \in 1 .. Len(sect.segments) : IsSegment(sect.segments[i])
  BY <1>1 DEF IsSection
<1>3. Sized(sect.segments) /\ sect.address \in Nat
  BY <1>1, <1>2 DEF IsSection, Sized, IsSegment
<1>4. /\ \A i \in 1 .. Len(sect.segments) + 1 : Start(sect, i) \in Int
      /\ Start(sect, 1) = sect.address
  BY <1>3, <1>1, PlacesFacts DEF Start
<1>5. \A i, j \in 1 .. Len(sect.segments) + 1 : i < j =>
        Start(sect, i) + sect.segments[i].size <= Start(sect, j)
  BY <1>3, PlacesOrdered DEF Start
<1>6. \A i, j \in 1 .. Len(sect.segments) + 1 : i <= j => Start(sect, i) <= Start(sect, j)
  <2> SUFFICES ASSUME NEW i \in 1 .. Len(sect.segments) + 1, NEW j \in 1 .. Len(sect.segments) + 1, i <= j
               PROVE  Start(sect, i) <= Start(sect, j)
    OBVIOUS
  <2>1. CASE i = j
    BY <1>4, <2>1
  <2>2. CASE i < j
    <3>1. i \in 1 .. Len(sect.segments)
      BY <1>1, <2>2
    <3>2. sect.segments[i].size \in Nat /\ Start(sect, i) \in Int /\ Start(sect, j) \in Int
      BY <1>1, <1>3, <1>4, <3>1 DEF Sized
    <3> QED
      BY <1>5, <2>2, <3>2
  <2> QED
    BY <1>1, <2>1, <2>2
<1>7. \A i \in 1 .. Len(sect.segments) + 1 : Start(sect, i) \in Nat
  <2> SUFFICES ASSUME NEW i \in 1 .. Len(sect.segments) + 1 PROVE Start(sect, i) >= 0
    BY <1>4
  <2>1. Start(sect, 1) <= Start(sect, i) /\ Start(sect, i) \in Int
    BY <1>1, <1>4, <1>6
  <2> QED
    BY <1>3, <1>4, <2>1
<1> QED
  BY <1>1, <1>2, <1>3, <1>4, <1>5, <1>6, <1>7

\* Segments that differ in their lengths only.
Alike(seg, new) ==
    /\ new.kind = seg.kind /\ new.loc = seg.loc /\ new.alignment = seg.alignment /\ new.expr = seg.expr
    /\ new.negative = seg.negative /\ new.pos = seg.pos

\* What a segment that is asked for its length answers: what it becomes and by how much
\* it grows.
Answers(seg, r) ==
    /\ Alike(seg, r.seg)
    /\ IsSegment(r.seg) /\ r.shift \in Int /\ r.seg.size = seg.size + r.shift
    /\ seg.locked => r.seg.locked
    /\ seg.kind = "padding" => r.seg.size = (-seg.pos) % seg.alignment
    /\ seg.kind # "padding" /\ r.shift # 0 => ~seg.locked /\ r.seg.locked

\* A segment of varying length answers so if it does not refuse.
LEMMA LengthAnswers ==
    ASSUME NEW seg, IsSegment(seg), Varying(seg), NEW sect, NEW labels, NEW fields,
           ~update_length(seg, sect, labels, fields).error
    PROVE  Answers(seg, update_length(seg, sect, labels, fields))
<1> DEFINE r == update_length(seg, sect, labels, fields)
<1>1. DOMAIN seg = {"kind", "size", "loc", "alignment", "expr", "code", "negative", "locked", "pos"}
  BY DEF IsSegment, Segment
<1>2. seg.size \in Nat /\ seg.pos \in Int /\ seg.alignment \in Nat \ {0} /\ seg.locked \in BOOLEAN
  BY DEF IsSegment
<1>3. CASE seg.kind = "padding"
  <2> DEFINE size == (-seg.pos) % seg.alignment
  <2>1. r = [error |-> FALSE, seg |-> [seg EXCEPT !.size = size], shift |-> size - seg.size]
    BY <1>3 DEF update_length, PaddingLength
  <2>2. size \in Nat
    BY <1>2
  <2> HIDE DEF size, r
  <2>3. r.seg = [seg EXCEPT !.size = size] /\ r.shift = size - seg.size
    BY <2>1
  <2>4. r.seg.size = size /\ r.seg.locked = seg.locked /\ DOMAIN r.seg = DOMAIN seg /\ Alike(seg, r.seg)
    BY <1>1, <2>3 DEF Alike
  <2>5. IsSegment(r.seg)
    BY <2>2, <2>4, <1>3 DEF IsSegment, Grows, Alike
  <2> QED
    BY <1>2, <1>3, <2>2, <2>3, <2>4, <2>5 DEF Answers, size, r
<1>4. CASE seg.kind # "padding"
  <2>1. r = Unchanged(seg) \/ (r = Grown(seg) /\ ~seg.locked)
    <3>1. r = LdiLength(seg, sect, labels, fields) \/ r = BranchLength(seg, sect, labels, fields)
      BY <1>4 DEF update_length
    <3>2. ~r.error
      OBVIOUS
    <3>3. Invalid(seg).error
      BY Zenon DEF Invalid
    <3> HIDE DEF r
    <3> DEFINE parsed == parse_expression(seg.expr, sect, labels, fields)
               value == calculate_expression(seg.expr, parsed, sect, labels)
    <3>4. CASE r = LdiLength(seg, sect, labels, fields)
      <4> DEFINE refused == parsed.error \/ forbid_multilabel_expressions(seg.expr, parsed)
                 far == Unknown(parsed) \/ ~(-64 <= value /\ value < 64)
      <4>1. r = IF seg.locked THEN Unchanged(seg) ELSE IF refused THEN Invalid(seg)
                ELSE IF far THEN Grown(seg) ELSE Unchanged(seg)
        BY <3>4, Zenon DEF LdiLength
      <4> HIDE DEF refused, far
      <4> QED
        BY <3>2, <3>3, <4>1, Zenon
    <3>5. CASE r = BranchLength(seg, sect, labels, fields)
      <4> DEFINE refused == parsed.error \/ seg.expr.sub # <<>> \/ Len(seg.expr.add) + Len(seg.expr.fields) > 1
                 bad == parsed.ext # {} \/ ((parsed.asect # {} \/ IsConst(seg.expr)) /\ sect.name # Abs)
                 far == bad \/ ~InReach(value - seg.pos - 2)
      <4>1. r = IF seg.locked THEN Unchanged(seg) ELSE IF refused THEN Invalid(seg)
                ELSE IF far THEN Grown(seg) ELSE Unchanged(seg)
        BY <3>5, Zenon DEF BranchLength
      <4> HIDE DEF refused, far
      <4> QED
        BY <3>2, <3>3, <4>1, Zenon
    <3> QED
      BY <3>1, <3>4, <3>5
  <2>2. Grows(seg)
    BY <1>4 DEF Varying, Grows
  <2> HIDE DEF r
  <2>3. CASE r = Unchanged(seg)
    <3>1. r.seg = seg
      BY <2>3, Zenon DEF Unchanged
    <3>2. r.shift = 0
      BY <2>3 DEF Unchanged
    <3> QED
      BY <1>2, <1>4, <3>1, <3>2 DEF Answers, Alike, r
  <2>4. CASE r = Grown(seg) /\ ~seg.locked
    <3> DEFINE yes == ~seg.locked
               new == [seg EXCEPT !.size = 4, !.locked = yes]
    <3>1. yes = TRUE
      BY <2>4
    <3> DEFINE long == [seg EXCEPT !.size = 4, !.locked = TRUE]
               no == seg.locked
    <3>2. r = [error |-> no, seg |-> long, shift |-> 2]
      <4>1. no = FALSE
        BY <2>4
      <4>2. r = [error |-> FALSE, seg |-> long, shift |-> 2]
        BY <2>4, Zenon DEF Grown
      <4> HIDE DEF no, long
      <4> QED
        BY <4>1, <4>2, Zenon
    <3>3. r.seg = long /\ r.shift = 2
      <4> HIDE DEF no, long
      <4> QED
        BY <3>2
    <3>4. r.seg = new
      BY <3>1, <3>3, Zenon
    <3>5. seg.size = 2
      BY <2>2, <2>4 DEF IsSegment
    <3> HIDE DEF yes
    <3>6. new.size = 4 /\ new.locked = yes /\ DOMAIN new = DOMAIN seg /\ Alike(seg, new)
      BY <1>1 DEF Alike
    <3> HIDE DEF new
    <3>7. new.locked
      BY <3>1, <3>6, Zenon
    <3>8. new.locked \in BOOLEAN
      BY <3>1, <3>6
    <3>9. IsSegment(new)
      BY <3>6, <3>7, <3>8 DEF IsSegment, Grows, Alike, Instruction
    <3> QED
      BY <1>2, <1>4, <2>4, <3>3, <3>4, <3>5, <3>6, <3>7, <3>9 DEF Answers, r
  <2> QED
    BY <2>1, <2>3, <2>4
<1> QED
  BY <1>3, <1>4

\* How far a position moves when a segment at pos grows by d.
MovedTo(p, pos, d) == IF p > pos THEN p + d ELSE p

\* What becomes of a section whose segment a was asked with result r.
AskedFrom(sect, a, r, new) ==
    /\ IsSection(new)
    /\ new.name = sect.name /\ new.address = sect.address /\ new.ents = sect.ents
    /\ new.exts = sect.exts /\ new.declared = sect.declared
    /\ new.regrown = (sect.regrown \/ (sect.segments[a].size = 0 /\ r.shift # 0))
    /\ Len(new.segments) = Len(sect.segments) /\ DOMAIN new.segments = DOMAIN sect.segments
    /\ DOMAIN new.labels = DOMAIN sect.labels
    /\ \A w \in DOMAIN sect.labels : new.labels[w] = MovedTo(sect.labels[w], sect.segments[a].pos, r.shift)
    /\ \A i \in DOMAIN sect.segments :
         /\ new.segments[i].kind = sect.segments[i].kind /\ new.segments[i].loc = sect.segments[i].loc
         /\ new.segments[i].alignment = sect.segments[i].alignment
         /\ new.segments[i].expr = sect.segments[i].expr
         /\ i # a => new.segments[i].size = sect.segments[i].size
         /\ i # a => new.segments[i].locked = sect.segments[i].locked
         /\ Varying(sect.segments[i]) =>
              new.segments[i].pos = MovedTo(sect.segments[i].pos, sect.segments[a].pos, r.shift)
    /\ new.segments[a].size = r.seg.size /\ new.segments[a].locked = r.seg.locked
    /\ DOMAIN new.locations = {MovedTo(p, sect.segments[a].pos, r.shift) : p \in DOMAIN sect.locations}
    /\ \A q \in DOMAIN new.locations : new.locations[q] =
         sect.locations[Max({p \in DOMAIN sect.locations : MovedTo(p, sect.segments[a].pos, r.shift) = q})]

\* So it does.
LEMMA AskedFacts ==
    ASSUME NEW sect, IsSection(sect), NEW a \in DOMAIN sect.segments, NEW r, Answers(sect.segments[a], r)
    PROVE  AskedFrom(sect, a, r, Asked(sect, a, r))
<1> DEFINE new == Asked(sect, a, r)
           segments == sect.segments
           pos == sect.segments[a].pos
           d == r.shift
           one == [segments EXCEPT ![a] = r.seg]
           moved == MovedOthers(one, pos, d)
           labels == [w \in DOMAIN sect.labels |-> MovedTo(sect.labels[w], pos, d)]
           locations == [q \in {MovedTo(p, pos, d) : p \in DOMAIN sect.locations} |->
                sect.locations[Max({p \in DOMAIN sect.locations : MovedTo(p, pos, d) = q})]]
           regrown == sect.regrown \/ (segments[a].size = 0 /\ d # 0)
<1>1. DOMAIN sect = {"name", "address", "size", "segments", "labels", "ents", "exts", "locations",
                     "loops", "saves", "error", "declared", "shared", "regrown"}
  BY DEF IsSection, NewBlock
<1>2. new = [[sect EXCEPT !.labels = labels, !.locations = locations] EXCEPT !.segments = moved, !.regrown = regrown]
  <2>1. update_surroundings(sect, pos, d) = [sect EXCEPT !.labels = labels, !.locations = locations]
    BY <1>1, Zenon DEF update_surroundings, MovedTo
  <2> DEFINE u == update_surroundings(sect, pos, d)
  <2>2. new = [u EXCEPT !.segments = MovedOthers([u.segments EXCEPT ![a] = r.seg], pos, d),
                        !.regrown = u.regrown \/ (segments[a].size = 0 /\ d # 0)]
    BY DEF Asked
  <2>3. u.segments = segments /\ u.regrown = sect.regrown
    <3> HIDE DEF labels, locations, u
    <3> QED
      BY <1>1, <2>1 DEF u
  <2> QED
    BY <2>1, <2>2, <2>3, Zenon
<1> HIDE DEF new, labels, locations, regrown
<1>3. /\ new.name = sect.name /\ new.address = sect.address /\ new.ents = sect.ents
      /\ new.exts = sect.exts /\ new.declared = sect.declared /\ new.regrown = regrown
      /\ new.labels = labels /\ new.locations = locations /\ new.segments = moved
      /\ DOMAIN new = DOMAIN sect
  <2> HIDE DEF moved
  <2> QED
    BY <1>1, <1>2
<1>4. /\ Len(segments) \in Nat /\ DOMAIN segments = 1 .. Len(segments)
      /\ \A i \in 1 .. Len(segments) : IsSegment(segments[i])
  BY StartFacts
<1>5. DOMAIN one = DOMAIN segments /\ one[a] = r.seg /\ \A i \in DOMAIN segments : i # a => one[i] = segments[i]
  BY <1>4
<1>6. Alike(segments[a], r.seg) /\ IsSegment(r.seg) /\ d \in Int /\ pos \in Int
  BY <1>4 DEF Answers, IsSegment
<1> HIDE DEF one
<1>7. \A i \in DOMAIN segments : IsSegment(one[i]) /\ Alike(segments[i], one[i])
  BY <1>4, <1>5, <1>6 DEF Alike
<1>8. moved = [i \in DOMAIN segments |-> IF Varying(one[i]) /\ one[i].pos > pos
                THEN [one[i] EXCEPT !.pos = @ + d] ELSE one[i]]
  BY <1>5 DEF MovedOthers
<1>9. ASSUME NEW i \in DOMAIN segments
      PROVE  /\ moved[i].kind = one[i].kind /\ moved[i].loc = one[i].loc
             /\ moved[i].alignment = one[i].alignment /\ moved[i].expr = one[i].expr
             /\ moved[i].size = one[i].size /\ moved[i].locked = one[i].locked
             /\ Varying(one[i]) => moved[i].pos = MovedTo(one[i].pos, pos, d)
             /\ IsSegment(moved[i])
  <2> DEFINE old == one[i]
  <2>1. /\ DOMAIN old = {"kind", "size", "loc", "alignment", "expr", "code", "negative", "locked", "pos"}
        /\ old.pos \in Int /\ IsSegment(old)
    BY <1>7 DEF IsSegment, Segment
  <2>2. moved[i] = IF Varying(old) /\ old.pos > pos THEN [old EXCEPT !.pos = @ + d] ELSE old
    BY <1>8
  <2> HIDE DEF old, moved
  <2>3. CASE Varying(old) /\ old.pos > pos
    <3>1. moved[i] = [old EXCEPT !.pos = old.pos + d]
      BY <2>2, <2>3
    <3>2. /\ moved[i].kind = old.kind /\ moved[i].loc = old.loc /\ moved[i].alignment = old.alignment
          /\ moved[i].expr = old.expr /\ moved[i].size = old.size /\ moved[i].locked = old.locked
          /\ moved[i].negative = old.negative /\ moved[i].pos = old.pos + d /\ DOMAIN moved[i] = DOMAIN old
      BY <2>1, <3>1
    <3>3. IsSegment(moved[i])
      BY <2>1, <3>2, <1>6 DEF IsSegment, Grows, Instruction
    <3> QED
      BY <2>3, <3>2, <3>3 DEF old, MovedTo
  <2>4. CASE ~(Varying(old) /\ old.pos > pos)
    <3>1. moved[i] = old
      BY <2>2, <2>4
    <3> QED
      BY <2>1, <2>4, <3>1 DEF old, MovedTo
  <2> QED
    BY <2>3, <2>4
<1>10. moved = [i \in 1 .. Len(segments) |-> moved[i]]
  BY <1>4, <1>8
<1> HIDE DEF moved
<1>11. IsSequence(moved) /\ Len(moved) = Len(segments) /\ DOMAIN moved = DOMAIN segments
  BY <1>4, <1>10, FunctionIsSequence
<1>12. DOMAIN labels = DOMAIN sect.labels /\ \A w \in DOMAIN sect.labels : labels[w] = MovedTo(sect.labels[w], pos, d)
  BY DEF labels
<1>13. labels \in [DOMAIN sect.declared -> Int]
  <2>1. sect.labels \in [DOMAIN sect.declared -> Int]
    BY DEF IsSection
  <2>2. \A w \in DOMAIN sect.declared : sect.labels[w] \in Int
    BY <2>1
  <2> QED
    BY <1>6, <2>1, <2>2 DEF labels, MovedTo
<1>14. IsSection(new)
  <2>1. /\ new.name \in Names \cup {Abs} /\ new.address \in Nat /\ DOMAIN new = DOMAIN NewBlock(Abs, 0)
        /\ new.ents \subseteq Labels \cap DOMAIN new.labels /\ new.exts \subseteq Labels
    BY <1>3, <1>12 DEF IsSection
  <2>2. IsSequence(new.segments) /\ \A i \in DOMAIN new.segments : IsSegment(new.segments[i])
    BY <1>3, <1>9, <1>11
  <2>3. new.declared \in [DOMAIN new.declared -> 1 .. Len(new.segments) + 1]
    BY <1>3, <1>11 DEF IsSection
  <2>4. new.labels \in [DOMAIN new.declared -> Int]
    BY <1>3, <1>13
  <2> QED
    BY <2>1, <2>2, <2>3, <2>4 DEF IsSection
<1>15. \A i \in DOMAIN segments : Varying(segments[i]) => Varying(one[i]) /\ one[i].pos = segments[i].pos
  BY <1>7 DEF Alike, Varying
<1>16. \A i \in DOMAIN segments :
         /\ moved[i].kind = segments[i].kind /\ moved[i].loc = segments[i].loc
         /\ moved[i].alignment = segments[i].alignment /\ moved[i].expr = segments[i].expr
         /\ i # a => moved[i].size = segments[i].size /\ moved[i].locked = segments[i].locked
         /\ Varying(segments[i]) => moved[i].pos = MovedTo(segments[i].pos, pos, d)
  BY <1>5, <1>7, <1>9, <1>15 DEF Alike
<1>17. moved[a].size = r.seg.size /\ moved[a].locked = r.seg.locked
  BY <1>5, <1>9
<1>18. /\ DOMAIN locations = {MovedTo(p, pos, d) : p \in DOMAIN sect.locations}
       /\ \A q \in DOMAIN locations : locations[q] =
                sect.locations[Max({p \in DOMAIN sect.locations : MovedTo(p, pos, d) = q})]
  BY DEF locations
<1> QED
  BY <1>3, <1>11, <1>12, <1>14, <1>16, <1>17, <1>18, Zenon DEF AskedFrom, new, regrown

\* Where the update takes the segments of a section to be: everyone where it or one before
\* it begins, so that no code is between them.
Placing(sect, place) ==
    /\ place \in [1 .. Len(sect.segments) + 1 -> Int]
    /\ \A j \in DOMAIN place : \E h \in 1 .. j :
            place[j] = Start(sect, h) /\ \A k \in h .. j : place[k] = place[j]
    /\ \A w \in DOMAIN sect.labels : sect.labels[w] = place[sect.declared[w]]
    /\ sect.regrown \/ \A j \in DOMAIN place : place[j] = Start(sect, j)
PosAt(sect, place) ==
    \A i \in DOMAIN sect.segments : Varying(sect.segments[i]) => sect.segments[i].pos = place[i]

\* Places are in order.
LEMMA PlacingOrdered ==
    ASSUME NEW sect, IsSection(sect), NEW place, Placing(sect, place)
    PROVE  \A j, k \in DOMAIN place : j <= k => place[j] <= place[k]
<1> SUFFICES ASSUME NEW j \in DOMAIN place, NEW k \in DOMAIN place, j <= k PROVE place[j] <= place[k]
  OBVIOUS
<1> DEFINE n == Len(sect.segments) + 1
<1>1. n \in Nat /\ DOMAIN place = 1 .. n /\ j \in 1 .. n /\ k \in 1 .. n
  BY StartFacts DEF Placing
<1>2. PICK h \in 1 .. j : place[j] = Start(sect, h)
  BY DEF Placing
<1>3. PICK g \in 1 .. k : place[k] = Start(sect, g) /\ \A i \in g .. k : place[i] = place[k]
  BY DEF Placing
<1>4. h \in 1 .. n /\ g \in 1 .. n
  BY <1>1
<1>5. CASE h <= g
  BY <1>1, <1>2, <1>3, <1>4, <1>5, StartFacts
<1>6. CASE g < h
  <2>1. j \in g .. k
    BY <1>1, <1>4, <1>6
  <2>2. place[j] = place[k] /\ place[j] \in Int
    BY <1>1, <1>3, <2>1 DEF Placing
  <2> QED
    BY <2>2
<1> QED
  BY <1>4, <1>5, <1>6

\* Where the segments are taken to be when segment a was asked.
NewPlace(place, a, d) == [j \in DOMAIN place |-> MovedTo(place[j], place[a], d)]

\* The segments after one was asked are at their new places.
LEMMA PlacingAsked ==
    ASSUME NEW sect, IsSection(sect), NEW a \in DOMAIN sect.segments, Varying(sect.segments[a]),
           NEW r, Answers(sect.segments[a], r),
           NEW place, Placing(sect, place), PosAt(sect, place)
    PROVE  /\ Placing(Asked(sect, a, r), NewPlace(place, a, r.shift))
           /\ PosAt(Asked(sect, a, r), NewPlace(place, a, r.shift))
           /\ ~Asked(sect, a, r).regrown => \A j \in 1 .. Len(sect.segments) + 1 :
                Start(Asked(sect, a, r), j) = MovedTo(Start(sect, j), Start(sect, a), r.shift)
<1> DEFINE new == Asked(sect, a, r)
           d == r.shift
           n == Len(sect.segments) + 1
           to == NewPlace(place, a, d)
           size == sect.segments[a].size
<1>1. /\ Len(sect.segments) \in Nat /\ DOMAIN sect.segments = 1 .. Len(sect.segments)
      /\ Sized(sect.segments) /\ sect.address \in Nat /\ n \in Nat /\ a \in 1 .. n /\ a + 1 \in 1 .. n
  BY StartFacts DEF IsSection
<1>2. /\ IsSection(new) /\ new.address = sect.address /\ new.declared = sect.declared
      /\ new.regrown = (sect.regrown \/ (size = 0 /\ d # 0))
      /\ Len(new.segments) = Len(sect.segments) /\ DOMAIN new.segments = DOMAIN sect.segments
      /\ DOMAIN new.labels = DOMAIN sect.labels
      /\ \A w \in DOMAIN sect.labels : new.labels[w] = MovedTo(sect.labels[w], sect.segments[a].pos, d)
      /\ \A i \in DOMAIN sect.segments : new.segments[i].kind = sect.segments[i].kind
      /\ \A i \in DOMAIN sect.segments : i # a => new.segments[i].size = sect.segments[i].size
      /\ \A i \in DOMAIN sect.segments : Varying(sect.segments[i]) =>
            new.segments[i].pos = MovedTo(sect.segments[i].pos, sect.segments[a].pos, d)
      /\ new.segments[a].size = r.seg.size
  <2> HIDE DEF new
  <2>1. AskedFrom(sect, a, r, new)
    BY AskedFacts DEF new
  <2> QED
    BY <2>1 DEF AskedFrom
<1> HIDE DEF new
<1>3. d \in Int /\ r.seg.size = size + d /\ size \in Nat
  BY <1>1 DEF Answers, Sized
<1> HIDE DEF size, d
<1>4. Sized(new.segments)
  <2>1. IsSection(new)
    BY <1>2
  <2> QED
    BY <2>1, StartFacts
<1>5. \A j \in 1 .. n : Start(new, j) = Start(sect, j) + IF j > a THEN d ELSE 0
  <2>1. a \in 1 .. Len(sect.segments) /\ sect.address \in Int
    BY <1>1
  <2>2. new.segments[a].size = sect.segments[a].size + d
    BY <1>2, <1>3 DEF size
  <2>3. \A i \in 1 .. Len(sect.segments) : i # a => new.segments[i].size = sect.segments[i].size
    BY <1>1, <1>2
  <2>4. Len(new.segments) = Len(sect.segments) /\ new.address = sect.address
    BY <1>2
  <2> QED
    <3> DEFINE old == sect.segments
               others == new.segments
               base == sect.address
    <3>1. Sized(old) /\ Sized(others) /\ Len(others) = Len(old) /\ a \in 1 .. Len(old) /\ base \in Int
      BY <1>1, <1>4, <2>1, <2>4
    <3>2. others[a].size = old[a].size + d /\ \A i \in 1 .. Len(old) : i # a => others[i].size = old[i].size
      BY <2>2, <2>3
    <3> HIDE DEF old, others, base
    <3>3. \A j \in 1 .. Len(old) + 1 : Places(others, base)[j] = Places(old, base)[j] + IF j > a THEN d ELSE 0
      BY <1>3, <3>1, <3>2, PlacesMoved
    <3> QED
      BY <2>4, <3>3 DEF Start, old, others, base
<1>6. /\ \A j \in 1 .. n : Start(sect, j) \in Nat
      /\ \A i, j \in 1 .. n : i <= j => Start(sect, i) <= Start(sect, j)
      /\ Start(sect, a) + size <= Start(sect, a + 1)
  BY <1>1, StartFacts DEF size
<1>7. DOMAIN place = 1 .. n /\ \A j \in 1 .. n : place[j] \in Int
  BY DEF Placing
<1>8. \A j, k \in 1 .. n : j <= k => place[j] <= place[k]
  BY <1>7, PlacingOrdered
<1>9. sect.segments[a].pos = place[a]
  BY DEF PosAt
<1>10. to \in [1 .. n -> Int] /\ \A j \in 1 .. n : to[j] = MovedTo(place[j], place[a], d)
  BY <1>1, <1>3, <1>7 DEF NewPlace, MovedTo
<1>11. ASSUME NEW j \in 1 .. n
       PROVE  \E h \in 1 .. j : to[j] = Start(new, h) /\ \A k \in h .. j : to[k] = to[j]
  <2>1. PICK h \in 1 .. j : place[j] = Start(sect, h) /\ \A k \in h .. j : place[k] = place[j]
    BY <1>7 DEF Placing
  <2>2. j \in Int /\ h \in 1 .. n /\ \A k \in h .. j : k \in 1 .. n
    BY <1>1
  <2>3. CASE j <= a
    <3>1. to[j] = place[j]
      BY <1>1, <1>7, <1>8, <1>10, <2>3 DEF MovedTo
    <3>2. Start(new, h) = Start(sect, h)
      BY <1>1, <1>5, <1>6, <2>2, <2>3
    <3>3. \A k \in h .. j : to[k] = to[j]
      BY <1>10, <2>1, <2>2
    <3> QED
      BY <2>1, <3>1, <3>2, <3>3
  <2>4. CASE j > a /\ place[j] = place[a]
    <3>1. PICK g \in 1 .. a : place[a] = Start(sect, g) /\ \A k \in g .. a : place[k] = place[a]
      BY <1>1, <1>7 DEF Placing
    <3>2. g \in 1 .. j /\ g \in 1 .. n /\ ~ (g > a)
      BY <1>1, <2>2, <2>4
    <3>3. to[j] = place[a] /\ Start(new, g) = Start(sect, g)
      BY <1>1, <1>5, <1>6, <1>7, <1>10, <2>4, <3>2 DEF MovedTo
    <3>4. ASSUME NEW k \in g .. j PROVE to[k] = to[j]
      <4>1. k \in 1 .. n /\ k \in Int
        BY <1>1, <2>2, <3>2
      <4>2. place[k] = place[a]
        <5>1. CASE k <= a
          <6>1. k \in g .. a
            BY <1>1, <3>2, <4>1, <5>1
          <6> QED
            BY <3>1, <6>1
        <5>2. CASE k > a
          <6>1. place[a] <= place[k] /\ place[k] <= place[j]
            BY <1>1, <1>8, <2>2, <4>1, <5>2
          <6> QED
            BY <1>1, <1>7, <2>4, <4>1, <6>1
        <5> QED
          BY <1>1, <4>1, <5>1, <5>2
      <4> QED
        BY <1>10, <2>4, <4>1, <4>2
    <3> QED
      BY <3>1, <3>2, <3>3, <3>4
  <2>5. CASE j > a /\ place[j] # place[a]
    <3>1. place[j] > place[a]
      BY <1>1, <1>7, <1>8, <2>2, <2>5
    <3>2. h > a
      <4>1. ASSUME h <= a PROVE FALSE
        <5>1. a \in h .. j
          BY <1>1, <2>2, <2>5, <4>1
        <5> QED
          BY <2>1, <2>5, <5>1
      <4> QED
        BY <1>1, <2>2, <4>1
    <3>3. to[j] = place[j] + d /\ Start(new, h) = Start(sect, h) + d
      BY <1>5, <1>10, <2>2, <3>1, <3>2 DEF MovedTo
    <3>4. \A k \in h .. j : to[k] = to[j]
      BY <1>10, <2>1, <2>2
    <3> QED
      BY <2>1, <3>3, <3>4
  <2> QED
    BY <1>1, <2>2, <2>3, <2>4, <2>5
<1>12. ASSUME ~new.regrown, NEW j \in 1 .. n
       PROVE  Start(new, j) = MovedTo(Start(sect, j), Start(sect, a), d) /\ place[j] = Start(sect, j)
              /\ place[a] = Start(sect, a)
  <2>1. ~sect.regrown /\ (size = 0 => d = 0)
    BY <1>2, <1>12
  <2>2. place[j] = Start(sect, j) /\ place[a] = Start(sect, a)
    BY <1>1, <1>7, <2>1 DEF Placing
  <2>5. Start(sect, j) \in Nat /\ Start(sect, a) \in Nat /\ j \in Int /\ a \in Int
    BY <1>1, <1>6
  <2>6. Start(new, j) = Start(sect, j) + IF j > a THEN d ELSE 0
    BY <1>5
  <2>3. CASE j <= a
    <3>1. Start(sect, j) <= Start(sect, a)
      BY <1>1, <1>6, <2>3
    <3> QED
      BY <2>2, <2>3, <2>5, <2>6, <3>1 DEF MovedTo
  <2>4. CASE j > a
    <3>1. Start(sect, a + 1) <= Start(sect, j)
      BY <1>1, <1>6, <2>4, <2>5
    <3>2. CASE size = 0
      BY <2>2, <2>1, <2>4, <2>5, <2>6, <3>2 DEF MovedTo
    <3>3. CASE size # 0
      <4>1. Start(sect, j) > Start(sect, a)
        BY <1>1, <1>3, <1>6, <3>1, <3>3
      <4> QED
        BY <2>2, <1>3, <2>5, <2>6, <2>4, <4>1 DEF MovedTo
    <3> QED
      BY <3>2, <3>3
  <2> QED
    BY <1>1, <2>2, <2>3, <2>4
<1>13. Placing(new, to)
  <2>1. \A w \in DOMAIN new.labels : new.labels[w] = to[new.declared[w]]
    <3> SUFFICES ASSUME NEW w \in DOMAIN new.labels PROVE new.labels[w] = to[new.declared[w]]
      OBVIOUS
    <3>1. w \in DOMAIN sect.labels /\ sect.declared[w] \in 1 .. n
      BY <1>2 DEF IsSection
    <3>2. sect.labels[w] = place[sect.declared[w]]
      BY <3>1 DEF Placing
    <3> QED
      BY <1>2, <1>9, <1>10, <3>1, <3>2
  <2>2. new.regrown \/ \A j \in 1 .. n : to[j] = Start(new, j)
    BY <1>1, <1>10, <1>12
  <2>3. DOMAIN to = 1 .. n /\ 1 .. Len(new.segments) + 1 = 1 .. n
    BY <1>2, <1>10
  <2> HIDE DEF to, n
  <2> QED
    BY <1>10, <1>11, <2>1, <2>2, <2>3 DEF Placing
<1>14. PosAt(new, to)
  <2> SUFFICES ASSUME NEW i \in DOMAIN new.segments, Varying(new.segments[i])
               PROVE  new.segments[i].pos = to[i]
    BY DEF PosAt
  <2>1. i \in DOMAIN sect.segments /\ i \in 1 .. n /\ Varying(sect.segments[i])
    BY <1>1, <1>2 DEF Varying
  <2>2. sect.segments[i].pos = place[i]
    BY <2>1 DEF PosAt
  <2> QED
    BY <1>2, <1>9, <1>10, <2>1, <2>2
<1> QED
  BY <1>12, <1>13, <1>14, Zenon DEF new, d

--------------------------------------------------------------------------------
(* Code locations.                                                              *)

\* Every code location is where a segment begins.
KeysAtCode(sect) ==
    \A at \in DOMAIN sect.locations :
        \E i \in 1 .. Len(sect.segments) + 1 : at = Start(sect, i) - sect.address

\* Of a section that begins at 0 they are kept where they belong.
LEMMA LocationsAsked ==
    ASSUME NEW sect, IsSection(sect), NEW a \in DOMAIN sect.segments, Varying(sect.segments[a]),
           NEW r, Answers(sect.segments[a], r),
           NEW place, Placing(sect, place), PosAt(sect, place),
           sect.address = 0, KeysAtCode(sect), LocationsAtCode(sect), ~Asked(sect, a, r).regrown
    PROVE  KeysAtCode(Asked(sect, a, r)) /\ LocationsAtCode(Asked(sect, a, r))
<1> DEFINE new == Asked(sect, a, r)
           d == r.shift
           n == Len(sect.segments) + 1
           keys == DOMAIN sect.locations
           pos == Start(sect, a)
<1>1. /\ Len(sect.segments) \in Nat /\ DOMAIN sect.segments = 1 .. Len(sect.segments)
      /\ n \in Nat /\ a \in 1 .. n
      /\ \A j \in 1 .. n : Start(sect, j) \in Nat
      /\ \A i, j \in 1 .. n : i <= j => Start(sect, i) <= Start(sect, j)
  BY StartFacts
<1>2. /\ IsSection(new) /\ new.address = 0 /\ Len(new.segments) = Len(sect.segments)
      /\ new.regrown = (sect.regrown \/ (sect.segments[a].size = 0 /\ d # 0))
      /\ DOMAIN new.segments = DOMAIN sect.segments
      /\ \A i \in DOMAIN sect.segments : new.segments[i].loc = sect.segments[i].loc
      /\ \A i \in DOMAIN sect.segments : i # a => new.segments[i].size = sect.segments[i].size
      /\ new.segments[a].size = r.seg.size
      /\ DOMAIN new.locations = {MovedTo(p, sect.segments[a].pos, d) : p \in keys}
      /\ \A q \in DOMAIN new.locations :
            new.locations[q] = sect.locations[Max({p \in keys : MovedTo(p, sect.segments[a].pos, d) = q})]
  <2> HIDE DEF new
  <2>1. AskedFrom(sect, a, r, new)
    BY AskedFacts DEF new
  <2> QED
    BY <2>1 DEF AskedFrom
<1>3. \A j \in 1 .. n : Start(new, j) = MovedTo(Start(sect, j), pos, d)
  BY PlacingAsked
<1>4. ~sect.regrown /\ (sect.segments[a].size = 0 => d = 0)
  BY <1>2
<1>5. sect.segments[a].pos = pos
  BY <1>1, <1>4 DEF PosAt, Placing
<1>6. r.seg.size = sect.segments[a].size + d /\ d \in Int /\ sect.segments[a].size \in Nat
  BY <1>1, StartFacts DEF Answers, IsSegment
<1> HIDE DEF new, d, pos
<1>7. \A p \in keys : \E j \in 1 .. n : p = Start(sect, j)
  BY <1>1 DEF KeysAtCode
<1>8. KeysAtCode(new)
  <2> SUFFICES ASSUME NEW q \in DOMAIN new.locations
               PROVE  \E i \in 1 .. n : q = Start(new, i)
    <3>1. \A i \in 1 .. n : Start(new, i) - new.address = Start(new, i)
      BY <1>2, StartFacts
    <3> QED
      BY <1>2, <3>1 DEF KeysAtCode
  <2>1. PICK p \in keys : q = MovedTo(p, pos, d)
    BY <1>2, <1>5
  <2>2. PICK j \in 1 .. n : p = Start(sect, j)
    BY <1>7
  <2> QED
    BY <1>3, <2>1, <2>2
<1>9. ASSUME NEW i \in DOMAIN new.segments, FirstOfLine(new, i)
      PROVE  Start(new, i) \in DOMAIN new.locations /\ new.locations[Start(new, i)] = new.segments[i].loc
  <2> DEFINE q == Start(new, i)
             P == {p \in keys : MovedTo(p, pos, d) = q}
  <2>1. i \in 1 .. n /\ i \in 1 .. Len(sect.segments) /\ i + 1 \in 1 .. n
    BY <1>1, <1>2
  <2>2. new.segments[i].size > 0 /\ new.segments[i].size \in Nat
    BY <1>2, <1>9, <2>1, StartFacts DEF FirstOfLine, IsSegment
  <2>3. sect.segments[i].size > 0
    <3>1. CASE i # a
      BY <1>1, <1>2, <2>1, <2>2, <3>1
    <3>2. CASE i = a
      BY <1>2, <1>4, <1>6, <2>2, <3>2
    <3> QED
      BY <3>1, <3>2
  <2>4. FirstOfLine(sect, i)
    <3>1. CASE i = 1
      BY <2>3, <3>1 DEF FirstOfLine
    <3>2. CASE i # 1
      <4>1. i - 1 \in DOMAIN sect.segments
        BY <1>1, <2>1, <3>2
      <4>2. new.segments[i].loc = sect.segments[i].loc /\ new.segments[i - 1].loc = sect.segments[i - 1].loc
        BY <1>1, <1>2, <2>1, <4>1
      <4> QED
        BY <1>9, <2>3, <3>2, <4>2 DEF FirstOfLine
    <3> QED
      BY <3>1, <3>2
  <2>5. Start(sect, i) \in keys /\ sect.locations[Start(sect, i)] = sect.segments[i].loc
    <3>1. Start(sect, i) - sect.address = Start(sect, i)
      BY <1>1, <2>1
    <3> QED
      BY <1>1, <2>1, <2>4, <3>1 DEF LocationsAtCode
  <2>6. Start(sect, i) \in P
    BY <1>3, <2>1, <2>5
  <2>7. ASSUME NEW p \in P PROVE p <= Start(sect, i) /\ p \in Int
    <3>1. PICK j \in 1 .. n : p = Start(sect, j)
      BY <1>7
    <3>2. Start(new, j) = Start(new, i)
      BY <1>3, <3>1
    <3>3. j <= i
      <4>1. ASSUME j > i PROVE FALSE
        <5>1. Start(new, i) + new.segments[i].size <= Start(new, j) /\ Start(new, i) \in Nat
          BY <1>2, <2>1, <4>1, StartFacts
        <5> QED
          BY <2>2, <3>2, <5>1
      <4> QED
        BY <2>1, <4>1
    <3> QED
      BY <1>1, <2>1, <3>1, <3>3
  <2>8. Max(P) = Start(sect, i)
    <3>1. Start(sect, i) \in Int
      BY <1>1, <2>1
    <3> HIDE DEF P
    <3>2. \A y \in P : Start(sect, i) >= y
      BY <2>7, <3>1
    <3>3. Max(P) \in P /\ \A y \in P : Max(P) >= y
      BY <2>6, <3>2 DEF Max
    <3>4. Max(P) \in Int /\ Max(P) <= Start(sect, i) /\ Max(P) >= Start(sect, i)
      BY <2>6, <2>7, <3>3
    <3> QED
      BY <3>1, <3>4
  <2>9. q \in DOMAIN new.locations
    BY <1>2, <1>5, <2>6
  <2>10. new.locations[q] = sect.locations[Max(P)]
    BY <1>2, <1>5, <2>9
  <2> QED
    BY <1>1, <1>2, <2>1, <2>5, <2>8, <2>9, <2>10
<1>10. LocationsAtCode(new)
  <2> SUFFICES ASSUME NEW i \in DOMAIN new.segments, FirstOfLine(new, i)
               PROVE  LET at == Start(new, i) - new.address IN
                      at \in DOMAIN new.locations /\ new.locations[at] = new.segments[i].loc
    BY DEF LocationsAtCode
  <2>1. i \in 1 .. Len(new.segments) + 1
    BY <1>1, <1>2
  <2>2. Start(new, i) - new.address = Start(new, i)
    BY <1>2, <2>1, StartFacts
  <2> QED
    BY <1>9, <2>2
<1> QED
  BY <1>8, <1>10 DEF new

\* The update begins with everything at its place.
LEMMA PositionedFacts ==
    ASSUME NEW sect, IsSection(sect)
    PROVE  /\ IsSection(Positioned(sect))
           /\ Positioned(sect).name = sect.name /\ Positioned(sect).address = sect.address
           /\ Positioned(sect).regrown = sect.regrown /\ Positioned(sect).labels = sect.labels
           /\ Positioned(sect).declared = sect.declared /\ Positioned(sect).locations = sect.locations
           /\ Positioned(sect).exts = sect.exts /\ Positioned(sect).ents = sect.ents
           /\ Len(Positioned(sect).segments) = Len(sect.segments)
           /\ DOMAIN Positioned(sect).segments = DOMAIN sect.segments
           /\ \A i \in DOMAIN sect.segments :
                /\ Positioned(sect).segments[i].kind = sect.segments[i].kind
                /\ Positioned(sect).segments[i].loc = sect.segments[i].loc
                /\ Positioned(sect).segments[i].size = sect.segments[i].size
                /\ Positioned(sect).segments[i].locked = sect.segments[i].locked
                /\ Positioned(sect).segments[i].alignment = sect.segments[i].alignment
                /\ Positioned(sect).segments[i].expr = sect.segments[i].expr
                /\ Positioned(sect).segments[i].pos = Start(sect, i)
           /\ \A j \in 1 .. Len(sect.segments) + 1 : Start(Positioned(sect), j) = Start(sect, j)
<1> DEFINE new == Positioned(sect)
           segments == sect.segments
           moved == [i \in DOMAIN segments |-> [segments[i] EXCEPT !.pos = Start(sect, i)]]
<1>1. DOMAIN sect = {"name", "address", "size", "segments", "labels", "ents", "exts", "locations",
                     "loops", "saves", "error", "declared", "shared", "regrown"}
  BY DEF IsSection, NewBlock
<1>2. new = [sect EXCEPT !.segments = moved]
  BY DEF Positioned
<1> HIDE DEF new
<1>3. /\ new.name = sect.name /\ new.address = sect.address /\ new.regrown = sect.regrown
      /\ new.labels = sect.labels /\ new.declared = sect.declared /\ new.locations = sect.locations
      /\ new.ents = sect.ents /\ new.exts = sect.exts
      /\ new.segments = moved /\ DOMAIN new = DOMAIN sect
  <2> HIDE DEF moved
  <2> QED
    BY <1>1, <1>2
<1>4. /\ Len(segments) \in Nat /\ DOMAIN segments = 1 .. Len(segments) /\ Sized(segments)
      /\ \A i \in 1 .. Len(segments) : IsSegment(segments[i])
      /\ \A i \in 1 .. Len(segments) + 1 : Start(sect, i) \in Nat
  BY StartFacts
<1>5. ASSUME NEW i \in DOMAIN segments
      PROVE  /\ moved[i].kind = segments[i].kind /\ moved[i].loc = segments[i].loc
             /\ moved[i].size = segments[i].size /\ moved[i].locked = segments[i].locked
             /\ moved[i].alignment = segments[i].alignment /\ moved[i].expr = segments[i].expr
             /\ moved[i].pos = Start(sect, i) /\ IsSegment(moved[i])
  <2> DEFINE old == segments[i]
             at == Start(sect, i)
  <2>1. /\ DOMAIN old = {"kind", "size", "loc", "alignment", "expr", "code", "negative", "locked", "pos"}
        /\ IsSegment(old) /\ at \in Int
    BY <1>4 DEF IsSegment, Segment
  <2>2. moved[i] = [old EXCEPT !.pos = at]
    OBVIOUS
  <2> HIDE DEF old, moved, at
  <2>3. /\ moved[i].kind = old.kind /\ moved[i].loc = old.loc /\ moved[i].alignment = old.alignment
        /\ moved[i].expr = old.expr /\ moved[i].size = old.size /\ moved[i].locked = old.locked
        /\ moved[i].negative = old.negative /\ moved[i].pos = at /\ DOMAIN moved[i] = DOMAIN old
    BY <2>1, <2>2
  <2>4. IsSegment(moved[i])
    BY <2>1, <2>3 DEF IsSegment, Grows, Instruction
  <2> QED
    BY <2>3, <2>4 DEF old, at
<1>6. moved = [i \in 1 .. Len(segments) |-> moved[i]]
  BY <1>4
<1> HIDE DEF moved
<1>7. IsSequence(moved) /\ Len(moved) = Len(segments) /\ DOMAIN moved = DOMAIN segments
  BY <1>4, <1>6, FunctionIsSequence
<1>8. IsSection(new)
  BY <1>3, <1>5, <1>7 DEF IsSection
<1>9. \A j \in 1 .. Len(segments) + 1 : Start(new, j) = Start(sect, j)
  <2>1. Sized(moved) /\ sect.address \in Int
    <3>1. \A i \in DOMAIN segments : moved[i].size = segments[i].size
      BY <1>5
    <3>2. \A i \in DOMAIN moved : moved[i].size \in Nat
      BY <1>4, <1>7, <3>1 DEF Sized
    <3> QED
      BY <1>7, <3>2 DEF Sized, IsSection
  <2>2. Places(moved, sect.address) = Places(segments, sect.address)
    BY <1>4, <1>5, <1>7, <2>1, PlacesSame
  <2> QED
    BY <1>3, <2>2 DEF Start
<1>10. \A i \in DOMAIN segments :
         /\ new.segments[i].kind = segments[i].kind /\ new.segments[i].loc = segments[i].loc
         /\ new.segments[i].size = segments[i].size /\ new.segments[i].locked = segments[i].locked
         /\ new.segments[i].alignment = segments[i].alignment /\ new.segments[i].expr = segments[i].expr
         /\ new.segments[i].pos = Start(sect, i)
  BY <1>3, <1>5
<1>11. Len(new.segments) = Len(segments) /\ DOMAIN new.segments = DOMAIN segments
  BY <1>3, <1>7
<1> QED
  BY <1>3, <1>8, <1>9, <1>10, <1>11, Zenon DEF new

--------------------------------------------------------------------------------
(* Invariants of a section.                                                     *)

\* A section in the group whose lengths are found, or not: its labels and its segments are
\* where the update takes the code to be, and so are the code locations of one that
\* begins at 0.
SectionInv(sect, within) ==
    /\ IsSection(sect)
    /\ \E place : Placing(sect, place) /\ (within => PosAt(sect, place))
    /\ sect.regrown \/ sect.address # 0 \/ (KeysAtCode(sect) /\ LocationsAtCode(sect))

\* A section as it was made.
LEMMA SectionMade ==
    ASSUME NEW sect, IsSection(sect), LabelsAtCode(sect), LocationsAtCode(sect), KeysAtCode(sect)
    PROVE  SectionInv(sect, FALSE)
<1> DEFINE n == Len(sect.segments) + 1
           place == [j \in 1 .. n |-> Start(sect, j)]
<1>1. \A j \in 1 .. n : Start(sect, j) \in Int
  BY StartFacts
<1>2. place \in [1 .. n -> Int] /\ \A j \in 1 .. n : place[j] = Start(sect, j)
  BY <1>1
<1> HIDE DEF place
<1>3. \A w \in DOMAIN sect.labels : sect.labels[w] = place[sect.declared[w]]
  <2> SUFFICES ASSUME NEW w \in DOMAIN sect.labels PROVE sect.labels[w] = place[sect.declared[w]]
    OBVIOUS
  <2>1. sect.declared[w] \in 1 .. n
    BY DEF IsSection
  <2> QED
    BY <1>2, <2>1 DEF LabelsAtCode
<1>4. \A j \in 1 .. n : \E h \in 1 .. j : place[j] = Start(sect, h) /\ \A k \in h .. j : place[k] = place[j]
  <2> SUFFICES ASSUME NEW j \in 1 .. n
               PROVE  \E h \in 1 .. j : place[j] = Start(sect, h) /\ \A k \in h .. j : place[k] = place[j]
    OBVIOUS
  <2>1. n \in Nat /\ j \in 1 .. j /\ \A k \in j .. j : k = j
    BY StartFacts
  <2> QED
    BY <1>2, <2>1
<1>5. DOMAIN place = 1 .. n
  BY <1>2
<1>6. Placing(sect, place)
  BY <1>2, <1>3, <1>4, <1>5 DEF Placing
<1> QED
  BY <1>6 DEF SectionInv

\* A section whose lengths are found next.
LEMMA SectionBegins ==
    ASSUME NEW sect, SectionInv(sect, FALSE), ~sect.regrown
    PROVE  SectionInv(Positioned(sect), TRUE)
<1> DEFINE new == Positioned(sect)
           n == Len(sect.segments) + 1
<1>1. IsSection(sect)
  BY DEF SectionInv
<1>2. /\ Len(sect.segments) \in Nat /\ DOMAIN sect.segments = 1 .. Len(sect.segments)
      /\ \A j \in 1 .. n : Start(sect, j) \in Nat
  BY <1>1, StartFacts
<1>3. /\ IsSection(new) /\ new.address = sect.address /\ new.regrown = sect.regrown
      /\ new.labels = sect.labels /\ new.declared = sect.declared /\ new.locations = sect.locations
      /\ Len(new.segments) = Len(sect.segments) /\ DOMAIN new.segments = DOMAIN sect.segments
      /\ \A i \in DOMAIN sect.segments :
            /\ new.segments[i].kind = sect.segments[i].kind /\ new.segments[i].loc = sect.segments[i].loc
            /\ new.segments[i].size = sect.segments[i].size /\ new.segments[i].pos = Start(sect, i)
      /\ \A j \in 1 .. n : Start(new, j) = Start(sect, j)
  BY <1>1, PositionedFacts
<1> HIDE DEF new
<1>4. PICK place : Placing(sect, place)
  BY DEF SectionInv
<1>5. DOMAIN place = 1 .. n /\ \A j \in 1 .. n : place[j] = Start(sect, j)
  BY <1>4 DEF Placing
<1>6. Placing(new, place)
  <2>1. place \in [1 .. Len(new.segments) + 1 -> Int]
    BY <1>3, <1>4 DEF Placing
  <2>2. ASSUME NEW j \in DOMAIN place
        PROVE  \E h \in 1 .. j : place[j] = Start(new, h) /\ \A k \in h .. j : place[k] = place[j]
    <3>1. PICK h \in 1 .. j : place[j] = Start(sect, h) /\ \A k \in h .. j : place[k] = place[j]
      BY <1>4 DEF Placing
    <3>2. h \in 1 .. n
      BY <1>2, <1>5
    <3> QED
      BY <1>3, <3>1, <3>2
  <2>3. \A w \in DOMAIN new.labels : new.labels[w] = place[new.declared[w]]
    BY <1>3, <1>4 DEF Placing
  <2>4. \A j \in DOMAIN place : place[j] = Start(new, j)
    BY <1>3, <1>5
  <2> QED
    BY <2>1, <2>2, <2>3, <2>4 DEF Placing
<1>7. PosAt(new, place)
  <2> SUFFICES ASSUME NEW i \in DOMAIN new.segments PROVE new.segments[i].pos = place[i]
    BY DEF PosAt
  <2>1. i \in 1 .. n /\ i \in DOMAIN sect.segments
    BY <1>2, <1>3
  <2> QED
    BY <1>3, <1>5, <2>1
<1>8. new.regrown \/ new.address # 0 \/ (KeysAtCode(new) /\ LocationsAtCode(new))
  <2> SUFFICES ASSUME sect.address = 0 PROVE KeysAtCode(new) /\ LocationsAtCode(new)
    BY <1>3
  <2>1. KeysAtCode(sect) /\ LocationsAtCode(sect)
    BY DEF SectionInv
  <2>2. KeysAtCode(new)
    BY <1>3, <2>1 DEF KeysAtCode
  <2>3. ASSUME NEW i \in DOMAIN new.segments, FirstOfLine(new, i) PROVE FirstOfLine(sect, i)
    <3>1. i \in DOMAIN sect.segments /\ (i # 1 => i - 1 \in DOMAIN sect.segments)
      BY <1>2, <1>3
    <3> QED
      BY <1>3, <2>3, <3>1 DEF FirstOfLine
  <2>4. \A i \in DOMAIN new.segments : i \in 1 .. n
    BY <1>2, <1>3
  <2>5. LocationsAtCode(new)
    BY <1>3, <2>1, <2>3, <2>4 DEF LocationsAtCode
  <2> QED
    BY <2>2, <2>5
<1> QED
  BY <1>3, <1>6, <1>7, <1>8 DEF SectionInv, new

\* A section whose segment a was asked.
LEMMA SectionAsked ==
    ASSUME NEW sect, SectionInv(sect, TRUE), NEW a \in DOMAIN sect.segments, Varying(sect.segments[a]),
           NEW r, Answers(sect.segments[a], r)
    PROVE  SectionInv(Asked(sect, a, r), TRUE)
<1> DEFINE new == Asked(sect, a, r)
<1>1. IsSection(sect)
  BY DEF SectionInv
<1>2. PICK place : Placing(sect, place) /\ PosAt(sect, place)
  BY DEF SectionInv
<1>3. Placing(new, NewPlace(place, a, r.shift)) /\ PosAt(new, NewPlace(place, a, r.shift))
  BY <1>1, <1>2, PlacingAsked
<1>4. AskedFrom(sect, a, r, new)
  BY <1>1, AskedFacts
<1>5. IsSection(new) /\ new.address = sect.address /\ (sect.regrown => new.regrown)
  BY <1>4 DEF AskedFrom
<1>6. new.regrown \/ new.address # 0 \/ (KeysAtCode(new) /\ LocationsAtCode(new))
  <2> SUFFICES ASSUME ~new.regrown, sect.address = 0 PROVE KeysAtCode(new) /\ LocationsAtCode(new)
    BY <1>5
  <2>1. KeysAtCode(sect) /\ LocationsAtCode(sect)
    BY <1>5 DEF SectionInv
  <2> QED
    BY <1>1, <1>2, <2>1, LocationsAsked
<1> QED
  BY <1>3, <1>5, <1>6 DEF SectionInv

\* A section whose lengths are found, or that is not changed.
LEMMA SectionLeft ==
    ASSUME NEW sect, NEW within \in BOOLEAN, NEW now \in BOOLEAN, SectionInv(sect, within), now => within
    PROVE  SectionInv(sect, now)
BY DEF SectionInv

--------------------------------------------------------------------------------
(* The segments that are asked.                                                 *)

Pairs == Nat \X Nat
NotAfter(e, f) == e[1] < f[1] \/ (e[1] = f[1] /\ e[2] <= f[2])

\* There is an earliest one.
LEMMA EarliestFacts ==
    ASSUME NEW S, S \subseteq Pairs, S # {}
    PROVE  Earliest(S) \in S /\ \A f \in S : NotAfter(Earliest(S), f)
<1> DEFINE firsts == {n \in Nat : \E f \in S : f[1] = n}
<1>1. firsts # {}
  BY DEF Pairs
<1>2. PICK n \in firsts : \A m \in firsts : n <= m
  BY <1>1, LeastNumber
<1> DEFINE seconds == {k \in Nat : <<n, k>> \in S}
<1>3. seconds # {}
  <2>1. PICK f \in S : f[1] = n
    OBVIOUS
  <2>2. f = <<f[1], f[2]>> /\ f[2] \in Nat
    BY DEF Pairs
  <2> QED
    BY <2>1, <2>2
<1>4. PICK k \in seconds : \A m \in seconds : k <= m
  BY <1>3, LeastNumber
<1>5. ASSUME NEW f \in S PROVE NotAfter(<<n, k>>, f)
  <2>1. f = <<f[1], f[2]>> /\ f[1] \in Nat /\ f[2] \in Nat
    BY DEF Pairs
  <2>2. f[1] \in firsts
    BY <2>1
  <2>3. n <= f[1]
    BY <1>2, <2>2
  <2>4. CASE f[1] = n
    <3>1. f[2] \in seconds
      BY <2>1, <2>4
    <3> QED
      BY <1>4, <2>4, <3>1 DEF NotAfter
  <2>5. CASE f[1] # n
    BY <2>1, <2>3, <2>5 DEF NotAfter
  <2> QED
    BY <2>4, <2>5
<1>6. \E e \in S : \A f \in S : NotAfter(e, f)
  BY <1>5
<1> QED
  BY <1>6 DEF Earliest, NotAfter

\* VaryingOf and GrowableOf of given sections.
VaryIn(z, S) == UNION {{s} \X {i \in DOMAIN z[s].segments : Varying(z[s].segments[i])} : s \in S}
GrowIn(z, S) == UNION {{s} \X {i \in DOMAIN z[s].segments : Grows(z[s].segments[i])} : s \in S}

\* They are these pairs.
LEMMA VaryInFacts ==
    ASSUME NEW z, NEW S
    PROVE  /\ \A s, i : <<s, i>> \in VaryIn(z, S) <=>
                s \in S /\ i \in DOMAIN z[s].segments /\ Varying(z[s].segments[i])
           /\ \A e \in VaryIn(z, S) : e = <<e[1], e[2]>>
           /\ \A s, i : <<s, i>> \in GrowIn(z, S) <=>
                s \in S /\ i \in DOMAIN z[s].segments /\ Grows(z[s].segments[i])
           /\ \A e \in GrowIn(z, S) : e = <<e[1], e[2]>>
BY DEF VaryIn, GrowIn

\* They stay the same as long as the kinds of the segments do.
LEMMA VaryInSame ==
    ASSUME NEW z, NEW y, NEW S,
           \A s \in S : DOMAIN y[s].segments = DOMAIN z[s].segments
                /\ \A i \in DOMAIN z[s].segments : y[s].segments[i].kind = z[s].segments[i].kind
    PROVE  VaryIn(y, S) = VaryIn(z, S) /\ GrowIn(y, S) = GrowIn(z, S)
<1>1. ASSUME NEW s \in S
      PROVE  /\ {i \in DOMAIN y[s].segments : Varying(y[s].segments[i])} =
                    {i \in DOMAIN z[s].segments : Varying(z[s].segments[i])}
             /\ {i \in DOMAIN y[s].segments : Grows(y[s].segments[i])} =
                    {i \in DOMAIN z[s].segments : Grows(z[s].segments[i])}
  BY DEF Varying, Grows
<1> DEFINE V(x, s) == {i \in DOMAIN x[s].segments : Varying(x[s].segments[i])}
           G(x, s) == {i \in DOMAIN x[s].segments : Grows(x[s].segments[i])}
<1>2. \A s \in S : V(y, s) = V(z, s) /\ G(y, s) = G(z, s)
  BY <1>1
<1>3. /\ VaryIn(y, S) = UNION {{s} \X V(y, s) : s \in S} /\ VaryIn(z, S) = UNION {{s} \X V(z, s) : s \in S}
      /\ GrowIn(y, S) = UNION {{s} \X G(y, s) : s \in S} /\ GrowIn(z, S) = UNION {{s} \X G(z, s) : s \in S}
  BY DEF VaryIn, GrowIn
<1> HIDE DEF V, G
<1> QED
  BY <1>2, <1>3

\* Of finitely many sections there are finitely many.
LEMMA GrowInFinite ==
    ASSUME NEW z, NEW S, IsFiniteSet(S), \A s \in S : IsSection(z[s])
    PROVE  IsFiniteSet(GrowIn(z, S))
<1> DEFINE D(s) == {i \in DOMAIN z[s].segments : Grows(z[s].segments[i])}
           P(s) == {s} \X D(s)
           T == {P(s) : s \in S}
<1>1. ASSUME NEW s \in S PROVE IsFiniteSet(P(s))
  <2>1. Len(z[s].segments) \in Nat /\ DOMAIN z[s].segments = 1 .. Len(z[s].segments)
    BY StartFacts
  <2>2. IsFiniteSet(DOMAIN z[s].segments)
    BY <2>1, FS_Interval
  <2>3. IsFiniteSet(D(s))
    BY <2>2, FS_Subset
  <2>4. IsFiniteSet({s})
    BY FS_Singleton
  <2> HIDE DEF D
  <2> QED
    BY <2>3, <2>4, FS_Product
<1>2. IsFiniteSet(T)
  <2> DEFINE f == [s \in S |-> P(s)]
  <2>1. f \in Surjection(S, T)
    <3> HIDE DEF P
    <3> QED
      BY DEF Surjection
  <2> HIDE DEF f, T
  <2> QED
    BY <2>1, FS_Surjection
<1>3. IsFiniteSet(UNION T)
  <2>1. \A t \in T : IsFiniteSet(t)
    BY <1>1
  <2> HIDE DEF T
  <2> QED
    BY <1>2, <2>1, FS_UNION
<1> QED
  BY <1>3 DEF GrowIn

--------------------------------------------------------------------------------
(* The invariants of the update.                                                *)

\* The sections before the lengths are found, and before them everything else.
EarlyInv ==
    /\ source \in WellFormed \cup Damaged
    /\ stage = "read" => ~ExpandedText(source).error /\ text = ExpandedText(source).text
    /\ stage \in {"macros", "read"} => sects = <<>> /\ group = {} /\ entry = {} /\ ~changed

\* Every section has its invariant; the segments to be asked are of this group.
SectsInv ==
    /\ IsSequence(sects) /\ group \subseteq DOMAIN sects
    /\ \A s \in DOMAIN sects : SectionInv(sects[s], s \in group)
    /\ entry \subseteq VaryIn(sects, group)
    /\ changed \in BOOLEAN

\* The sections whose lengths were found or are being found: no other is changed.
Top == IF group = {} THEN 0 ELSE Max(group)
Begun ==
    IF stage = "absolute" THEN group
    ELSE IF stage = "relocatable" THEN Absolutes \cup 1 .. Top ELSE DOMAIN sects
GroupInv ==
    /\ stage \in {"macros", "read", "absolute", "relocatable", "fill", "done", "failed"}
    /\ \A s \in DOMAIN sects \ Begun : ~sects[s].regrown
    /\ stage = "absolute" => group \in {{}, Absolutes}
    /\ stage = "relocatable" => group = {} \/ \E g \in DOMAIN sects : group = {g}
    /\ stage \in {"fill", "done"} => group = {}

\* A pass: the segments that were asked come first; a padding that was asked fits; and what
\* a pass that is not the last can do is make a segment grow that never shrinks again.
SegmentAt(z, e) == z[e[1]].segments[e[2]]
Fits(seg) == seg.size = (-seg.pos) % seg.alignment
LockedIn(z, S) == {e \in GrowIn(z, S) : SegmentAt(z, e).locked}
PassInv ==
    /\ \A f \in VaryIn(sects, group) \ entry : \A e \in entry : ~NotAfter(e, f)
    /\ \A f \in VaryIn(sects, group) :
        SegmentAt(sects, f).kind = "padding" /\ (f \notin entry \/ (passes # 1 /\ ~changed)) =>
            Fits(SegmentAt(sects, f))
    /\ passes \in Nat
    /\ \/ group = {} \/ passes = 1
       \/ passes <= (IF changed THEN 1 ELSE 2) + Cardinality(LockedIn(sects, group))

\* A set of numbers has a minimum and, if it is finite, a maximum.
LEMMA MinFacts ==
    ASSUME NEW S, S \subseteq Nat, S # {}
    PROVE  Min(S) \in S /\ \A n \in S : Min(S) <= n
BY LeastNumber DEF Min

\* What is made of a text that is accepted.
LEMMA MadeFacts ==
    ASSUME EarlyInv, BuildAst, stage' # "failed"
    PROVE  /\ stage' = "absolute" /\ IsSequence(sects')
           /\ \A s \in DOMAIN sects' : SectionInv(sects'[s], FALSE) /\ ~sects'[s].regrown
           /\ \A s \in DOMAIN sects' : \A r \in 1 .. s : sects'[s].name = Abs => sects'[r].name = Abs
           /\ \A s \in DOMAIN sects' : \A i \in DOMAIN sects'[s].segments : ~sects'[s].segments[i].locked
           /\ \A w \in DOMAIN templates' : \A field \in DOMAIN templates'[w] : templates'[w][field] \in Nat
<1> DEFINE expanded == ExpandedText(source)
           ast == SyntaxTree(expanded.text)
           made == CodeSections(ast.program)
<1>1. ~expanded.error /\ ast.error = "" /\ ~made.error /\ stage' = "absolute"
      /\ templates' = made.fields /\ sects' = made.sects
  BY DEF EarlyInv, BuildAst, Fail
<1>2. source \in WellFormed \cup Damaged
  BY DEF EarlyInv
<1>3. IsProgram(made)
  BY <1>1, <1>2, SectionsAssumption
<1> HIDE DEF made
<1>4. IsSequence(sects')
  BY <1>1, <1>3 DEF IsProgram
<1>5. ASSUME NEW s \in DOMAIN sects'
      PROVE  /\ SectionInv(sects'[s], FALSE) /\ ~sects'[s].regrown
             /\ \A i \in DOMAIN sects'[s].segments : ~sects'[s].segments[i].locked
             /\ \A r \in 1 .. s : sects'[s].name = Abs => sects'[r].name = Abs
  <2> DEFINE sect == sects'[s]
  <2>1. /\ IsSection(sect) /\ LabelsAtCode(sect) /\ LocationsAtCode(sect) /\ sect.regrown = FALSE
        /\ \A at \in DOMAIN sect.locations :
              \E i \in 1 .. Len(sect.segments) + 1 : at = Start(sect, i) - sect.address
        /\ \A i \in DOMAIN sect.segments : ~sect.segments[i].locked
        /\ \A r \in 1 .. s : sect.name = Abs => sects'[r].name = Abs
    BY <1>1, <1>3 DEF IsProgram
  <2> QED
    BY <2>1, SectionMade DEF KeysAtCode
<1> QED
  BY <1>1, <1>3, <1>4, <1>5 DEF IsProgram

\* What the segment answers, and what becomes of the labels known besides.
AnswerOf(s, a, r) ==
    /\ r = update_length(sects[s].segments[a], sects[s], known, templates) /\ ~r.error
    /\ known' = [w \in DOMAIN known |->
         IF w \in DOMAIN sects[s].labels /\ sects[s].labels[w] > sects[s].segments[a].pos
         THEN known[w] + r.shift ELSE known[w]]
    /\ UNCHANGED <<templates, filled, objs>>

\* A segment is asked, the earliest of those to be asked.
AskedNow(s, a, r) ==
    /\ s \in group /\ s \in DOMAIN sects /\ a \in DOMAIN sects[s].segments
    /\ Varying(sects[s].segments[a]) /\ Answers(sects[s].segments[a], r)
    /\ <<s, a>> \in entry /\ (\A f \in entry : NotAfter(<<s, a>>, f))
    /\ entry' = entry \ {<<s, a>>} /\ changed' = (changed \/ r.shift # 0)
    /\ sects' = [sects EXCEPT ![s] = Asked(sects[s], a, r)]
    /\ AskedFrom(sects[s], a, r, sects'[s])
    /\ UNCHANGED <<stage, group, passes>> /\ AnswerOf(s, a, r)

\* Asking a segment that does not refuse.
LEMMA UpdateFacts ==
    ASSUME SectsInv, UpdateLength, stage' # "failed"
    PROVE  \E s, a, r : AskedNow(s, a, r)
<1> DEFINE s == Earliest(entry)[1]
           a == Earliest(entry)[2]
           r == update_length(sects[s].segments[a], sects[s], known, templates)
<1>1. /\ entry # {} /\ ~r.error /\ entry' = entry \ {<<s, a>>} /\ changed' = (changed \/ r.shift # 0)
      /\ sects' = [sects EXCEPT ![s] = Asked(sects[s], a, r)] /\ UNCHANGED <<stage, group, passes>>
  BY DEF UpdateLength, Fail
<1>14. AnswerOf(s, a, r)
  BY DEF UpdateLength, Fail, AnswerOf
<1>2. Len(sects) \in Nat /\ DOMAIN sects = 1 .. Len(sects)
  BY SequenceFacts DEF SectsInv
<1>3. \A e \in entry : /\ e = <<e[1], e[2]>> /\ e[1] \in group /\ e[1] \in DOMAIN sects
                       /\ e[2] \in DOMAIN sects[e[1]].segments /\ Varying(SegmentAt(sects, e))
  <2> SUFFICES ASSUME NEW e \in entry
               PROVE  /\ e = <<e[1], e[2]>> /\ e[1] \in group /\ e[1] \in DOMAIN sects
                      /\ e[2] \in DOMAIN sects[e[1]].segments /\ Varying(SegmentAt(sects, e))
    OBVIOUS
  <2>1. e \in VaryIn(sects, group) /\ group \subseteq DOMAIN sects
    BY DEF SectsInv
  <2>2. e = <<e[1], e[2]>>
    BY <2>1, VaryInFacts
  <2>3. <<e[1], e[2]>> \in VaryIn(sects, group)
    BY <2>1, <2>2
  <2>4. e[1] \in group /\ e[2] \in DOMAIN sects[e[1]].segments /\ Varying(sects[e[1]].segments[e[2]])
    BY <2>3, VaryInFacts
  <2> QED
    BY <2>1, <2>2, <2>4 DEF SegmentAt
<1>4. \A e \in entry : e \in Pairs
  <2> SUFFICES ASSUME NEW e \in entry PROVE e[1] \in Nat /\ e[2] \in Nat
    BY <1>3 DEF Pairs
  <2>1. e[1] \in DOMAIN sects /\ e[2] \in DOMAIN sects[e[1]].segments
    BY <1>3
  <2>2. IsSection(sects[e[1]])
    BY <2>1 DEF SectsInv, SectionInv
  <2>3. DOMAIN sects[e[1]].segments = 1 .. Len(sects[e[1]].segments) /\ Len(sects[e[1]].segments) \in Nat
    BY <2>2, StartFacts
  <2> QED
    BY <1>2, <2>1, <2>3
<1>5. Earliest(entry) \in entry /\ \A f \in entry : NotAfter(Earliest(entry), f)
  BY <1>1, <1>4, EarliestFacts
<1>6. Earliest(entry) = <<s, a>>
  BY <1>3, <1>5
<1>7. s \in group /\ s \in DOMAIN sects /\ a \in DOMAIN sects[s].segments /\ Varying(sects[s].segments[a])
  BY <1>3, <1>5 DEF SegmentAt
<1>8. IsSection(sects[s])
  BY <1>7 DEF SectsInv, SectionInv
<1>9. IsSegment(sects[s].segments[a])
  BY <1>7, <1>8, StartFacts
<1>10. Answers(sects[s].segments[a], r)
  BY <1>1, <1>7, <1>9, LengthAnswers
<1> HIDE DEF r
<1>11. sects'[s] = Asked(sects[s], a, r)
  BY <1>1, <1>7
<1>12. AskedFrom(sects[s], a, r, sects'[s])
  BY <1>7, <1>8, <1>10, <1>11, AskedFacts
<1>13. <<s, a>> \in entry /\ \A f \in entry : NotAfter(<<s, a>>, f)
  BY <1>5, <1>6
<1> HIDE DEF s, a
<1> QED
  BY <1>1, <1>7, <1>10, <1>12, <1>13, <1>14, Zenon DEF AskedNow

UpdateInv == EarlyInv /\ SectsInv /\ GroupInv

\* At the beginning there are no sections.
LEMMA UpdateInit == Init => UpdateInv /\ PassInv
<1> SUFFICES ASSUME Init PROVE UpdateInv /\ PassInv
  OBVIOUS
<1>1. /\ source \in WellFormed \cup Damaged /\ stage = "macros" /\ sects = <<>> /\ group = {}
      /\ entry = {} /\ ~changed /\ changed \in BOOLEAN /\ passes = 0
  BY DEF Init
<1>2. DOMAIN sects = {} /\ IsSequence(sects)
  <2>1. sects = [i \in 1 .. 0 |-> sects[i]]
    BY <1>1
  <2>2. DOMAIN sects = 1 .. 0 /\ 0 \in Nat
    BY <2>1
  <2>3. IsSequence(sects)
    BY <2>1, <2>2, FunctionIsSequence
  <2> QED
    BY <2>2, <2>3
<1>3. VaryIn(sects, group) = {}
  BY <1>1 DEF VaryIn
<1> QED
  BY <1>1, <1>2, <1>3 DEF UpdateInv, EarlyInv, SectsInv, GroupInv, PassInv

\* The search for the lengths of the sections S begins.
LEMMA BeginFacts ==
    ASSUME SectsInv, NEW S, S \subseteq DOMAIN sects, \A s \in S : ~sects[s].regrown, Begin(S)
    PROVE  /\ SectsInv' /\ group' = S /\ entry' = VaryIn(sects, S)' /\ passes' = 1 /\ ~changed'
           /\ DOMAIN sects' = DOMAIN sects
           /\ \A s \in DOMAIN sects : sects'[s].name = sects[s].name /\ sects'[s].regrown = sects[s].regrown
<1>1. /\ group' = S /\ entry' = VaryIn(sects, S) /\ changed' = FALSE /\ passes' = 1
      /\ sects' = [s \in DOMAIN sects |-> IF s \in S THEN Positioned(sects[s]) ELSE sects[s]]
  BY DEF Begin, VaryingOf, VaryIn
<1>2. Len(sects) \in Nat /\ DOMAIN sects = 1 .. Len(sects)
  BY SequenceFacts DEF SectsInv
<1>3. ASSUME NEW s \in DOMAIN sects
      PROVE  /\ SectionInv(sects'[s], s \in S) /\ sects'[s].name = sects[s].name
             /\ sects'[s].regrown = sects[s].regrown
             /\ DOMAIN sects'[s].segments = DOMAIN sects[s].segments
             /\ \A i \in DOMAIN sects[s].segments : sects'[s].segments[i].kind = sects[s].segments[i].kind
  <2>1. SectionInv(sects[s], FALSE) /\ IsSection(sects[s])
    <3>1. SectionInv(sects[s], s \in group)
      BY DEF SectsInv
    <3> QED
      BY <3>1 DEF SectionInv
  <2>2. CASE s \in S
    <3>1. sects'[s] = Positioned(sects[s])
      BY <1>1, <2>2
    <3>2. SectionInv(sects'[s], TRUE)
      BY <2>1, <2>2, <3>1, SectionBegins
    <3>3. SectionInv(sects'[s], s \in S)
      BY <2>2, <3>2 DEF SectionInv
    <3>4. /\ Positioned(sects[s]).name = sects[s].name /\ Positioned(sects[s]).regrown = sects[s].regrown
          /\ DOMAIN Positioned(sects[s]).segments = DOMAIN sects[s].segments
          /\ \A i \in DOMAIN sects[s].segments :
                Positioned(sects[s]).segments[i].kind = sects[s].segments[i].kind
      BY <2>1, PositionedFacts
    <3> QED
      BY <3>1, <3>3, <3>4
  <2>3. CASE s \notin S
    <3>1. sects'[s] = sects[s]
      BY <1>1, <2>3
    <3>2. SectionInv(sects[s], s \in S)
      BY <2>1, <2>3 DEF SectionInv
    <3> QED
      BY <3>1, <3>2
  <2> QED
    BY <2>2, <2>3
<1>4. IsSequence(sects') /\ DOMAIN sects' = DOMAIN sects
  <2>1. sects' = [i \in 1 .. Len(sects) |-> sects'[i]]
    BY <1>1, <1>2
  <2> QED
    BY <1>2, <2>1, FunctionIsSequence
<1>5. VaryIn(sects, S)' = VaryIn(sects, S)
  BY <1>1, <1>3, VaryInSame
<1> QED
  BY <1>1, <1>3, <1>4, <1>5 DEF SectsInv

\* Asking a segment keeps the sections.
LEMMA AskedSects ==
    ASSUME SectsInv, NEW s, NEW a, NEW r, AskedNow(s, a, r)
    PROVE  /\ SectsInv' /\ DOMAIN sects' = DOMAIN sects
           /\ \A q \in DOMAIN sects : sects'[q].name = sects[q].name /\ (q # s => sects'[q] = sects[q])
           /\ VaryIn(sects, group)' = VaryIn(sects, group) /\ GrowIn(sects, group)' = GrowIn(sects, group)
<1>1. /\ s \in group /\ s \in DOMAIN sects /\ a \in DOMAIN sects[s].segments
      /\ Varying(sects[s].segments[a]) /\ Answers(sects[s].segments[a], r)
      /\ entry' = entry \ {<<s, a>>} /\ changed' = (changed \/ r.shift # 0)
      /\ sects' = [sects EXCEPT ![s] = Asked(sects[s], a, r)]
      /\ AskedFrom(sects[s], a, r, sects'[s]) /\ group' = group
  BY DEF AskedNow
<1>2. Len(sects) \in Nat /\ DOMAIN sects = 1 .. Len(sects) /\ DOMAIN sects' = DOMAIN sects
  BY <1>1, SequenceFacts DEF SectsInv
<1>3. sects'[s] = Asked(sects[s], a, r) /\ \A q \in DOMAIN sects : q # s => sects'[q] = sects[q]
  BY <1>1
<1>4. SectionInv(sects'[s], TRUE)
  <2>1. SectionInv(sects[s], TRUE)
    BY <1>1 DEF SectsInv
  <2> QED
    BY <1>1, <1>3, <2>1, SectionAsked
<1>5. \A q \in DOMAIN sects : SectionInv(sects'[q], q \in group)
  BY <1>1, <1>3, <1>4 DEF SectsInv
<1>6. IsSequence(sects')
  <2>1. sects' = [i \in 1 .. Len(sects) |-> sects'[i]]
    BY <1>1, <1>2
  <2> QED
    BY <1>2, <2>1, FunctionIsSequence
<1>7. \A q \in DOMAIN sects : /\ sects'[q].name = sects[q].name
                              /\ DOMAIN sects'[q].segments = DOMAIN sects[q].segments
                              /\ \A i \in DOMAIN sects[q].segments :
                                    sects'[q].segments[i].kind = sects[q].segments[i].kind
  BY <1>1, <1>3 DEF AskedFrom
<1>8. group \subseteq DOMAIN sects
  BY DEF SectsInv
<1>9. VaryIn(sects', group) = VaryIn(sects, group) /\ GrowIn(sects', group) = GrowIn(sects, group)
  BY <1>7, <1>8, VaryInSame
<1>10. VaryIn(sects, group)' = VaryIn(sects, group) /\ GrowIn(sects, group)' = GrowIn(sects, group)
  BY <1>1, <1>9 DEF VaryIn, GrowIn
<1>11. entry' \subseteq VaryIn(sects', group') /\ changed' \in BOOLEAN
  BY <1>1, <1>9 DEF SectsInv
<1> QED
  BY <1>1, <1>2, <1>3, <1>5, <1>6, <1>7, <1>8, <1>10, <1>11 DEF SectsInv

\* The parts of a step that goes on to other sections.
BeginsAbsolute == stage = "absolute" /\ group = {} /\ Absolutes # {} /\ Begin(Absolutes) /\ UNCHANGED stage
LeavesAbsolute ==
    /\ stage = "absolute" /\ (group # {} \/ Absolutes = {}) /\ stage' = "relocatable" /\ group' = {}
    /\ UNCHANGED <<sects, entry, changed, passes>>
Rest == DOMAIN sects \ (Absolutes \cup 1 .. Top)
BeginsRelocatable == stage = "relocatable" /\ Rest # {} /\ Begin({Min(Rest)}) /\ UNCHANGED stage
LeavesRelocatable ==
    /\ stage = "relocatable" /\ stage' = "fill" /\ group' = {} /\ known' = gather_local_labels(Absolutes)
    /\ Rest = {} /\ UNCHANGED <<sects, entry, changed, passes>>

\* It is one of them.
LEMMA NextGroupIs ==
    ASSUME NextGroup
    PROVE  /\ entry = {} /\ ~changed /\ UNCHANGED <<source, sound, text, templates, filled, objs>>
           /\ BeginsAbsolute \/ LeavesAbsolute \/ BeginsRelocatable \/ LeavesRelocatable
BY DEF NextGroup, BeginsAbsolute, LeavesAbsolute, BeginsRelocatable, LeavesRelocatable, Rest, Top

\* The invariants are kept by every step.
LEMMA UpdateStep ==
    ASSUME UpdateInv, [Next]_vars
    PROVE  UpdateInv'
<1> USE DEF UpdateInv
<1>1. CASE UNCHANGED vars
  <2>1. /\ source' = source /\ text' = text /\ stage' = stage /\ sects' = sects /\ group' = group
        /\ entry' = entry /\ changed' = changed
    BY <1>1 DEF vars
  <2> QED
    BY <2>1 DEF EarlyInv, SectsInv, GroupInv, Begun, Top, Absolutes, IsAbsolute, VaryIn
<1>2. CASE stage' = "failed" /\ UNCHANGED <<source, sects, group, entry, changed>>
  BY <1>2 DEF EarlyInv, SectsInv, GroupInv, Begun, VaryIn
<1>3. CASE UNCHANGED <<source, sects, group, entry, changed>> /\ group = {} /\ stage' \in {"read", "fill", "done"}
           /\ (stage' = "read" => stage = "macros" /\ ~ExpandedText(source).error /\ text' = ExpandedText(source).text)
  <2>1. DOMAIN sects' \ Begun' = {}
    BY <1>3 DEF Begun, EarlyInv
  <2> QED
    BY <1>3, <2>1 DEF EarlyInv, SectsInv, GroupInv, VaryIn
<1>4. CASE ProcessMacros
  BY <1>2, <1>3, <1>4 DEF ProcessMacros, Fail, EarlyInv
<1>5. CASE BuildAst
  <2>1. CASE stage' = "failed"
    BY <1>2, <1>5, <2>1 DEF BuildAst
  <2>2. CASE stage' # "failed"
    <3>1. /\ stage' = "absolute" /\ IsSequence(sects')
          /\ \A s \in DOMAIN sects' : SectionInv(sects'[s], FALSE) /\ ~sects'[s].regrown
      BY <1>5, <2>2, MadeFacts
    <3>2. group' = {} /\ entry' = {} /\ ~changed' /\ changed' \in BOOLEAN /\ source' = source
      BY <1>5 DEF BuildAst, EarlyInv, SectsInv
    <3>3. \A s \in DOMAIN sects' : SectionInv(sects'[s], s \in group')
      BY <3>1, <3>2 DEF SectionInv
    <3>4. EarlyInv'
      BY <3>1, <3>2 DEF EarlyInv
    <3>5. SectsInv'
      BY <3>1, <3>2, <3>3 DEF SectsInv
    <3>6. GroupInv'
      BY <3>1, <3>2 DEF GroupInv
    <3> QED
      BY <3>4, <3>5, <3>6
  <2> QED
    BY <2>1, <2>2
<1>6. CASE UpdateLength
  <2>1. CASE stage' = "failed"
    BY <1>2, <1>6, <2>1 DEF UpdateLength, Fail
  <2>2. CASE stage' # "failed"
    <3>1. PICK s, a, r : AskedNow(s, a, r)
      BY <1>6, <2>2, UpdateFacts
    <3>2. /\ SectsInv' /\ DOMAIN sects' = DOMAIN sects
          /\ \A q \in DOMAIN sects : sects'[q].name = sects[q].name /\ (q # s => sects'[q] = sects[q])
      BY <3>1, AskedSects
    <3>3. stage' = stage /\ group' = group /\ s \in group /\ stage \in {"absolute", "relocatable"} /\ source' = source
      BY <1>6, <3>1 DEF AskedNow, UpdateLength
    <3>4. Absolutes' = Absolutes /\ Top' = Top
      BY <3>2, <3>3 DEF Absolutes, IsAbsolute, Top
    <3>5. Begun' = Begun
      BY <3>2, <3>3, <3>4 DEF Begun
    <3>6. s \in Begun
      <4>1. CASE stage = "absolute"
        BY <3>3, <4>1 DEF Begun
      <4>2. CASE stage = "relocatable"
        <5>1. PICK g \in DOMAIN sects : group = {g}
          BY <3>3, <4>2 DEF GroupInv
        <5>2. g \in Nat /\ g >= 1 /\ s = g
          BY <3>3, <5>1, SequenceFacts DEF SectsInv
        <5>3. Max(group) = g
          BY <5>1, <5>2 DEF Max
        <5> QED
          BY <4>2, <5>1, <5>2, <5>3 DEF Begun, Top
      <4> QED
        BY <3>3, <4>1, <4>2
    <3>7. \A q \in DOMAIN sects' \ Begun' : ~sects'[q].regrown
      BY <3>2, <3>5, <3>6 DEF GroupInv
    <3> QED
      BY <3>2, <3>3, <3>4, <3>7 DEF EarlyInv, GroupInv
  <2> QED
    BY <2>1, <2>2
<1>7. CASE NextPass
  <2>1. /\ entry' = VaryIn(sects, group) /\ changed' = FALSE /\ UNCHANGED <<source, text, stage, sects, group>>
        /\ stage \notin {"macros", "read"}
    BY <1>7 DEF NextPass, VaryingOf, VaryIn
  <2>2. EarlyInv' /\ SectsInv'
    <3>1. EarlyInv'
      BY <2>1 DEF EarlyInv
    <3>2. \A s \in DOMAIN sects' : SectionInv(sects'[s], s \in group')
      BY <2>1 DEF SectsInv
    <3>3. entry' = VaryIn(sects', group')
      BY <2>1
    <3>4. SectsInv'
      BY <2>1, <3>2, <3>3 DEF SectsInv
    <3> QED
      BY <3>1, <3>4
  <2>3. Begun' = Begun /\ Absolutes' = Absolutes
    BY <2>1 DEF Begun, Top, Absolutes, IsAbsolute
  <2>4. GroupInv'
    BY <2>1, <2>3 DEF GroupInv
  <2> QED
    BY <2>2, <2>4
<1>8. CASE NextGroup
  <2>1. /\ entry = {} /\ ~changed /\ source' = source
        /\ BeginsAbsolute \/ LeavesAbsolute \/ BeginsRelocatable \/ LeavesRelocatable
    BY <1>8, NextGroupIs
  <2>2. \A s \in Absolutes : s \in DOMAIN sects
    BY DEF Absolutes
  <2>3. Len(sects) \in Nat /\ DOMAIN sects = 1 .. Len(sects)
    BY SequenceFacts DEF SectsInv
  <2>4. CASE BeginsAbsolute
    <3>1. stage = "absolute" /\ stage' = stage /\ group = {} /\ Begin(Absolutes)
      BY <2>4 DEF BeginsAbsolute
    <3>2. \A s \in DOMAIN sects : ~sects[s].regrown
      BY <3>1 DEF GroupInv, Begun
    <3>3. /\ SectsInv' /\ group' = Absolutes /\ DOMAIN sects' = DOMAIN sects /\ ~changed'
          /\ \A s \in DOMAIN sects : sects'[s].name = sects[s].name /\ sects'[s].regrown = sects[s].regrown
      BY <2>2, <3>1, <3>2, BeginFacts
    <3>4. Absolutes' = Absolutes
      BY <3>3 DEF Absolutes, IsAbsolute
    <3> QED
      BY <2>1, <3>1, <3>2, <3>3, <3>4 DEF EarlyInv, GroupInv, Begun
  <2>5. CASE LeavesAbsolute
    <3>1. /\ stage = "absolute" /\ stage' = "relocatable" /\ group' = {} /\ sects' = sects /\ entry' = {}
          /\ changed' = changed /\ (group = {} => Absolutes = {})
      BY <2>1, <2>5 DEF LeavesAbsolute
    <3>2. \A s \in DOMAIN sects \ Absolutes : ~sects[s].regrown
      BY <3>1 DEF GroupInv, Begun
    <3>3. Absolutes' = Absolutes
      BY <3>1 DEF Absolutes, IsAbsolute
    <3>4. SectsInv'
      <4>1. \A s \in DOMAIN sects : SectionInv(sects[s], s \in group')
        BY <3>1 DEF SectsInv, SectionInv
      <4> QED
        BY <3>1, <4>1 DEF SectsInv
    <3> QED
      BY <2>1, <3>1, <3>2, <3>3, <3>4 DEF EarlyInv, GroupInv, Begun
  <2>6. CASE BeginsRelocatable
    <3>1. stage = "relocatable" /\ stage' = stage /\ Rest # {} /\ Begin({Min(Rest)})
      BY <2>6 DEF BeginsRelocatable
    <3> DEFINE g == Min(Rest)
    <3>2. g \in Rest /\ (\A n \in Rest : g <= n) /\ g \in DOMAIN sects /\ g \in Nat \ {0}
      <4>1. Rest \subseteq Nat
        BY <2>3 DEF Rest
      <4>2. g \in Rest /\ \A n \in Rest : g <= n
        <5> HIDE DEF Rest
        <5> QED
          BY <3>1, <4>1, MinFacts
      <4>3. Rest \subseteq DOMAIN sects /\ \A n \in Rest : n \in Nat \ {0}
        BY <2>3 DEF Rest
      <4> HIDE DEF g
      <4> QED
        BY <4>2, <4>3
    <3>3. \A s \in Rest : s \in DOMAIN sects /\ ~sects[s].regrown
      BY <3>1 DEF GroupInv, Begun, Rest
    <3>4. /\ SectsInv' /\ group' = {g} /\ DOMAIN sects' = DOMAIN sects /\ ~changed'
          /\ \A s \in DOMAIN sects : sects'[s].name = sects[s].name /\ sects'[s].regrown = sects[s].regrown
      BY <3>1, <3>2, <3>3, BeginFacts
    <3>5. Absolutes' = Absolutes
      BY <3>4 DEF Absolutes, IsAbsolute
    <3>6. Top' = g
      <4>1. Max({g}) = g
        BY <3>2 DEF Max
      <4> QED
        BY <3>4, <4>1 DEF Top
    <3> HIDE DEF g
    <3>7. \A s \in DOMAIN sects \ (Absolutes \cup 1 .. g) : s \in Rest
      <4> SUFFICES ASSUME NEW s \in DOMAIN sects \ (Absolutes \cup 1 .. g), s \notin Rest PROVE FALSE
        OBVIOUS
      <4>1. s \in 1 .. Top /\ g \notin 1 .. Top
        BY <3>2 DEF Rest
      <4>2. s \in Nat /\ s > g
        BY <2>3, <3>2
      <4>3. Top \in Int
        <5>1. CASE group = {}
          BY <5>1 DEF Top
        <5>2. CASE group # {}
          <6>1. PICK h \in DOMAIN sects : group = {h}
            BY <3>1, <5>2 DEF GroupInv
          <6>2. h \in Int
            BY <2>3
          <6>3. Max({h}) = h
            BY <6>2 DEF Max
          <6> QED
            BY <6>1, <6>2, <6>3 DEF Top
        <5> QED
          BY <5>1, <5>2
      <4> QED
        BY <3>2, <4>1, <4>2, <4>3
    <3>8. \A s \in DOMAIN sects' \ Begun' : ~sects'[s].regrown
      BY <3>1, <3>3, <3>4, <3>5, <3>6, <3>7 DEF Begun
    <3> QED
      BY <2>1, <3>1, <3>2, <3>4, <3>5, <3>8 DEF EarlyInv, GroupInv
  <2>7. CASE LeavesRelocatable
    <3>1. stage' = "fill" /\ group' = {} /\ sects' = sects /\ entry' = {} /\ changed' = changed
      BY <2>1, <2>7 DEF LeavesRelocatable
    <3>2. SectsInv'
      <4>1. \A s \in DOMAIN sects : SectionInv(sects[s], s \in group')
        BY <3>1 DEF SectsInv, SectionInv
      <4> QED
        BY <3>1, <4>1 DEF SectsInv
    <3> QED
      BY <2>1, <3>1, <3>2 DEF EarlyInv, GroupInv, Begun
  <2> QED
    BY <2>1, <2>4, <2>5, <2>6, <2>7
<1>9. CASE Fill
  <2>1. group = {}
    BY <1>9 DEF Fill, GroupInv
  <2> QED
    BY <1>2, <1>3, <1>9, <2>1 DEF Fill, Fail
<1>10. CASE generate_object_module
  <2>1. group = {}
    BY <1>10 DEF generate_object_module, GroupInv
  <2> QED
    BY <1>2, <1>3, <1>10, <2>1 DEF generate_object_module, Fail
<1> QED
  BY <1>1, <1>4, <1>5, <1>6, <1>7, <1>8, <1>9, <1>10 DEF Next

\* Segments of varying length are in order.
LEMMA PosOrdered ==
    ASSUME NEW sect, SectionInv(sect, TRUE),
           NEW i \in DOMAIN sect.segments, Varying(sect.segments[i]),
           NEW j \in DOMAIN sect.segments, Varying(sect.segments[j]), i <= j
    PROVE  sect.segments[i].pos <= sect.segments[j].pos
<1>1. PICK place : Placing(sect, place) /\ PosAt(sect, place)
  BY DEF SectionInv
<1>2. IsSection(sect)
  BY DEF SectionInv
<1>3. i \in 1 .. Len(sect.segments) + 1 /\ j \in 1 .. Len(sect.segments) + 1
  BY <1>2, StartFacts
<1>4. DOMAIN place = 1 .. Len(sect.segments) + 1
  BY <1>1 DEF Placing
<1>5. place[i] <= place[j]
  BY <1>1, <1>2, <1>3, <1>4, PlacingOrdered
<1> QED
  BY <1>1, <1>5 DEF PosAt

\* The segments of varying length of the sections in the group.
LEMMA VaryFacts ==
    ASSUME SectsInv, NEW f \in VaryIn(sects, group)
    PROVE  /\ f = <<f[1], f[2]>> /\ f[1] \in group /\ f[1] \in DOMAIN sects /\ f[2] \in DOMAIN sects[f[1]].segments
           /\ f[1] \in Nat /\ f[2] \in Nat /\ Varying(SegmentAt(sects, f)) /\ IsSegment(SegmentAt(sects, f))
           /\ SectionInv(sects[f[1]], TRUE)
<1>1. f = <<f[1], f[2]>>
  BY VaryInFacts
<1>2. <<f[1], f[2]>> \in VaryIn(sects, group)
  BY <1>1
<1>3. f[1] \in group /\ f[2] \in DOMAIN sects[f[1]].segments /\ Varying(sects[f[1]].segments[f[2]])
  BY <1>2, VaryInFacts
<1>4. f[1] \in DOMAIN sects /\ f[1] \in Nat
  BY <1>3, SequenceFacts DEF SectsInv
<1>5. SectionInv(sects[f[1]], TRUE) /\ IsSection(sects[f[1]])
  BY <1>3, <1>4 DEF SectsInv, SectionInv
<1>6. f[2] \in Nat /\ IsSegment(sects[f[1]].segments[f[2]])
  BY <1>3, <1>5, StartFacts
<1> QED
  BY <1>1, <1>3, <1>4, <1>5, <1>6 DEF SegmentAt

\* The locked segments of the group are finitely many.
LEMMA LockedFinite ==
    ASSUME SectsInv
    PROVE  /\ IsFiniteSet(GrowIn(sects, group)) /\ IsFiniteSet(LockedIn(sects, group))
           /\ Cardinality(GrowIn(sects, group)) \in Nat /\ Cardinality(LockedIn(sects, group)) \in Nat
           /\ Cardinality(LockedIn(sects, group)) <= Cardinality(GrowIn(sects, group))
<1>1. IsFiniteSet(DOMAIN sects)
  <2>1. Len(sects) \in Nat /\ DOMAIN sects = 1 .. Len(sects)
    BY SequenceFacts DEF SectsInv
  <2> QED
    BY <2>1, FS_Interval
<1>2. IsFiniteSet(group)
  BY <1>1, FS_Subset DEF SectsInv
<1>3. \A s \in group : IsSection(sects[s])
  BY DEF SectsInv, SectionInv
<1>4. IsFiniteSet(GrowIn(sects, group))
  BY <1>2, <1>3, GrowInFinite
<1>5. LockedIn(sects, group) \in SUBSET GrowIn(sects, group)
  BY DEF LockedIn
<1> QED
  BY <1>4, <1>5, FS_Subset, FS_CardinalityType

\* A segment that was asked fits, and so do those before it.
LEMMA FitsStep ==
    ASSUME SectsInv, PassInv, NEW s, NEW a, NEW r, AskedNow(s, a, r),
           NEW f \in VaryIn(sects, group), SegmentAt(sects', f).kind = "padding",
           f \notin entry' \/ (passes # 1 /\ ~changed')
    PROVE  Fits(SegmentAt(sects', f))
<1> DEFINE old == SegmentAt(sects, f)
           new == SegmentAt(sects', f)
<1>1. /\ s \in group /\ s \in DOMAIN sects /\ a \in DOMAIN sects[s].segments
      /\ Varying(sects[s].segments[a]) /\ Answers(sects[s].segments[a], r) /\ <<s, a>> \in entry
      /\ entry' = entry \ {<<s, a>>} /\ changed' = (changed \/ r.shift # 0)
      /\ AskedFrom(sects[s], a, r, sects'[s])
  BY DEF AskedNow
<1>2. \A q \in DOMAIN sects : q # s => sects'[q] = sects[q]
  BY AskedSects
<1>3. /\ f = <<f[1], f[2]>> /\ f[1] \in DOMAIN sects /\ f[2] \in DOMAIN sects[f[1]].segments
      /\ f[1] \in Nat /\ f[2] \in Nat /\ Varying(old) /\ IsSegment(old) /\ SectionInv(sects[f[1]], TRUE)
  BY VaryFacts
<1>4. CASE f[1] # s
  <2>1. new = old
    BY <1>2, <1>3, <1>4 DEF SegmentAt
  <2>2. f \notin entry \/ (passes # 1 /\ ~changed)
    <3>1. f # <<s, a>>
      BY <1>4
    <3> QED
      BY <1>1, <3>1
  <2> QED
    BY <2>1, <2>2 DEF PassInv
<1>5. CASE f[1] = s
  <2>1. /\ new.kind = old.kind /\ new.alignment = old.alignment
        /\ f[2] # a => new.size = old.size
        /\ new.pos = MovedTo(old.pos, sects[s].segments[a].pos, r.shift)
        /\ sects'[s].segments[a].size = r.seg.size
    BY <1>1, <1>3, <1>5 DEF AskedFrom, SegmentAt
  <2>2. old.pos \in Int /\ r.shift \in Int /\ sects[s].segments[a].pos \in Int
    <3>1. IsSegment(sects[s].segments[a])
      BY <1>1, <1>3, <1>5, StartFacts DEF SectionInv
    <3> QED
      BY <1>1, <1>3, <3>1 DEF IsSegment, Answers
  <2>3. CASE f[2] = a
    <3>1. new.pos = old.pos
      BY <1>5, <2>1, <2>2, <2>3 DEF MovedTo, SegmentAt
    <3>2. new.size = (-old.pos) % old.alignment
      BY <1>1, <1>5, <2>1, <2>3 DEF Answers, SegmentAt
    <3> QED
      BY <2>1, <3>1, <3>2 DEF Fits
  <2>4. CASE f[2] # a /\ f \notin entry
    <3>1. Fits(old)
      BY <2>1, <2>4 DEF PassInv
    <3>2. ~NotAfter(<<s, a>>, f)
      BY <1>1, <2>4 DEF PassInv
    <3>3. a \in Nat
      BY <1>1, <1>3, <1>5, StartFacts DEF SectionInv
    <3>4. f[2] <= a
      BY <1>3, <1>5, <3>2, <3>3 DEF NotAfter
    <3>5. old.pos <= sects[s].segments[a].pos
      BY <1>1, <1>3, <1>5, <3>4, PosOrdered DEF SegmentAt
    <3>6. new.pos = old.pos
      BY <2>1, <2>2, <3>5 DEF MovedTo
    <3> QED
      BY <2>1, <2>4, <3>1, <3>6 DEF Fits
  <2>5. CASE f[2] # a /\ f \in entry
    <3>1. passes # 1 /\ ~changed /\ r.shift = 0
      <4>1. f # <<s, a>>
        BY <2>5
      <4> QED
        BY <1>1, <2>5, <4>1
    <3>2. Fits(old)
      BY <2>1, <3>1 DEF PassInv
    <3>3. new.pos = old.pos
      BY <2>1, <2>2, <3>1 DEF MovedTo
    <3> QED
      BY <2>1, <2>5, <3>2, <3>3 DEF Fits
  <2> QED
    BY <2>3, <2>4, <2>5
<1> QED
  BY <1>4, <1>5

\* In a pass that is not the first one the first change is a segment that grows for good.
LEMMA LockedStep ==
    ASSUME SectsInv, PassInv, NEW s, NEW a, NEW r, AskedNow(s, a, r), SectsInv'
    PROVE  /\ LockedIn(sects, group) \subseteq LockedIn(sects, group)'
           /\ passes = 1 \/ changed \/ r.shift = 0 \/
                (<<s, a>> \notin LockedIn(sects, group) /\ <<s, a>> \in LockedIn(sects, group)')
<1>1. /\ s \in group /\ s \in DOMAIN sects /\ a \in DOMAIN sects[s].segments
      /\ Varying(sects[s].segments[a]) /\ Answers(sects[s].segments[a], r) /\ <<s, a>> \in entry
      /\ AskedFrom(sects[s], a, r, sects'[s])
  BY DEF AskedNow
<1>2. /\ \A q \in DOMAIN sects : q # s => sects'[q] = sects[q]
      /\ GrowIn(sects, group)' = GrowIn(sects, group)
  BY AskedSects
<1>3. LockedIn(sects, group)' = {e \in GrowIn(sects, group) : SegmentAt(sects', e).locked}
  BY <1>2 DEF LockedIn
<1>4. ASSUME NEW e \in LockedIn(sects, group) PROVE SegmentAt(sects', e).locked
  <2>1. e \in GrowIn(sects, group) /\ SegmentAt(sects, e).locked /\ e = <<e[1], e[2]>>
    BY VaryInFacts DEF LockedIn
  <2>2. <<e[1], e[2]>> \in GrowIn(sects, group)
    BY <2>1
  <2>3. e[1] \in group /\ e[2] \in DOMAIN sects[e[1]].segments
    BY <2>2, VaryInFacts
  <2>4. CASE e[1] # s
    BY <1>2, <2>1, <2>3, <2>4 DEF SegmentAt, SectsInv
  <2>5. CASE e[1] = s /\ e[2] # a
    BY <1>1, <2>1, <2>3, <2>5 DEF SegmentAt, AskedFrom
  <2>6. CASE e[1] = s /\ e[2] = a
    BY <1>1, <2>1, <2>6 DEF SegmentAt, AskedFrom, Answers
  <2> QED
    BY <2>4, <2>5, <2>6
<1>5. LockedIn(sects, group) \subseteq LockedIn(sects, group)'
  BY <1>3, <1>4 DEF LockedIn
<1>6. ASSUME passes # 1, ~changed, r.shift # 0
      PROVE  <<s, a>> \notin LockedIn(sects, group) /\ <<s, a>> \in LockedIn(sects, group)'
  <2> DEFINE seg == sects[s].segments[a]
  <2>1. <<s, a>> \in VaryIn(sects, group) /\ SegmentAt(sects, <<s, a>>) = seg
    BY <1>1 DEF SectsInv, SegmentAt
  <2>2. IsSegment(seg) /\ seg.size \in Nat
    BY <2>1, VaryFacts DEF IsSegment
  <2>3. seg.kind # "padding"
    <3>1. ASSUME seg.kind = "padding" PROVE FALSE
      <4>1. seg.size = (-seg.pos) % seg.alignment
        BY <1>6, <2>1, <3>1 DEF PassInv, Fits
      <4> QED
        BY <1>1, <1>6, <2>2, <3>1, <4>1 DEF Answers
    <3> QED
      BY <3>1
  <2>4. ~seg.locked /\ r.seg.locked
    BY <1>1, <1>6, <2>3 DEF Answers
  <2>5. <<s, a>> \in GrowIn(sects, group)
    BY <1>1, <2>3, VaryInFacts DEF Varying, Grows
  <2>6. SegmentAt(sects', <<s, a>>).locked
    BY <1>1, <2>4 DEF SegmentAt, AskedFrom
  <2> QED
    BY <1>3, <2>1, <2>4, <2>5, <2>6 DEF LockedIn
<1> QED
  BY <1>5, <1>6

\* Every step keeps the invariant of the passes.
LEMMA PassStep ==
    ASSUME UpdateInv, UpdateInv', PassInv, [Next]_vars
    PROVE  PassInv'
<1> USE DEF UpdateInv
<1>1. CASE UNCHANGED <<sects, group, entry, changed, passes>>
  <2>1. VaryIn(sects', group') = VaryIn(sects, group) /\ LockedIn(sects', group') = LockedIn(sects, group)
    BY <1>1
  <2> QED
    BY <1>1, <2>1 DEF PassInv
<1>2. CASE group' = {} /\ passes' = passes
  <2>1. VaryIn(sects', group') = {}
    BY <1>2 DEF VaryIn
  <2> QED
    BY <1>2, <2>1 DEF PassInv
<1>3. ASSUME NEW S, S \subseteq DOMAIN sects, \A s \in S : ~sects[s].regrown, Begin(S) PROVE PassInv'
  <2>1. group' = S /\ entry' = VaryIn(sects', S) /\ passes' = 1
    BY <1>3, BeginFacts
  <2> QED
    BY <2>1 DEF PassInv
<1>4. CASE ProcessMacros
  BY <1>1, <1>4 DEF ProcessMacros
<1>5. CASE BuildAst
  BY <1>2, <1>5 DEF BuildAst, EarlyInv
<1>6. CASE UpdateLength
  <2>1. CASE stage' = "failed"
    BY <1>1, <1>6, <2>1 DEF UpdateLength, Fail
  <2>2. CASE stage' # "failed"
    <3>1. PICK s, a, r : AskedNow(s, a, r)
      BY <1>6, <2>2, UpdateFacts
    <3>2. /\ <<s, a>> \in entry /\ (\A f \in entry : NotAfter(<<s, a>>, f)) /\ group' = group /\ passes' = passes
          /\ entry' = entry \ {<<s, a>>} /\ changed' = (changed \/ r.shift # 0)
      BY <3>1 DEF AskedNow
    <3>3. VaryIn(sects', group') = VaryIn(sects, group)
      BY <3>1, AskedSects
    <3>4. ASSUME NEW f \in VaryIn(sects, group) \ entry', NEW e \in entry' PROVE ~NotAfter(e, f)
      <4>1. CASE f \notin entry
        BY <3>2, <4>1 DEF PassInv
      <4>2. CASE f \in entry
        <5>1. f = <<s, a>> /\ NotAfter(f, e) /\ e # f
          BY <3>2, <4>2
        <5>2. e \in VaryIn(sects, group)
          BY <3>2 DEF SectsInv
        <5>3. /\ f = <<f[1], f[2]>> /\ f[1] \in Nat /\ f[2] \in Nat
              /\ e = <<e[1], e[2]>> /\ e[1] \in Nat /\ e[2] \in Nat
          BY <5>2, VaryFacts
        <5> QED
          BY <5>1, <5>3 DEF NotAfter
      <4> QED
        BY <4>1, <4>2
    <3>5. \A f \in VaryIn(sects, group) :
            SegmentAt(sects', f).kind = "padding" /\ (f \notin entry' \/ (passes' # 1 /\ ~changed')) =>
                Fits(SegmentAt(sects', f))
      BY <3>1, <3>2, FitsStep
    <3>6. \/ group' = {} \/ passes' = 1
          \/ passes' <= (IF changed' THEN 1 ELSE 2) + Cardinality(LockedIn(sects', group'))
      <4> DEFINE L == LockedIn(sects, group)
                 M == LockedIn(sects, group)'
      <4>1. IsFiniteSet(L) /\ IsFiniteSet(M) /\ Cardinality(L) \in Nat /\ Cardinality(M) \in Nat
        <5>1. IsFiniteSet(L) /\ Cardinality(L) \in Nat
          BY LockedFinite
        <5>2. M \in SUBSET GrowIn(sects, group)
          BY <3>1, AskedSects DEF LockedIn
        <5>3. IsFiniteSet(M) /\ Cardinality(M) \in Nat
          BY <5>2, LockedFinite, FS_Subset, FS_CardinalityType
        <5> QED
          BY <5>1, <5>3
      <4>2. L \subseteq M /\ (passes = 1 \/ changed \/ r.shift = 0 \/ (<<s, a>> \notin L /\ <<s, a>> \in M))
        BY <3>1, LockedStep
      <4> HIDE DEF L, M
      <4>3. Cardinality(L) <= Cardinality(M)
        BY <4>1, <4>2, FS_Subset
      <4>4. <<s, a>> \notin L /\ <<s, a>> \in M => Cardinality(L) + 1 <= Cardinality(M)
        <5> SUFFICES ASSUME <<s, a>> \notin L, <<s, a>> \in M PROVE Cardinality(L) + 1 <= Cardinality(M)
          OBVIOUS
        <5>1. Cardinality(L \cup {<<s, a>>}) = Cardinality(L) + 1
          BY <4>1, FS_AddElement
        <5>2. L \cup {<<s, a>>} \in SUBSET M
          BY <4>2
        <5> QED
          BY <4>1, <5>1, <5>2, FS_Subset
      <4>5. group = {} \/ passes = 1 \/ passes <= (IF changed THEN 1 ELSE 2) + Cardinality(L)
        BY DEF PassInv, L
      <4>6. \/ group = {} \/ passes = 1
            \/ passes <= (IF changed' THEN 1 ELSE 2) + Cardinality(M)
        <5>1. passes \in Nat /\ changed \in BOOLEAN /\ changed' \in BOOLEAN
          BY DEF PassInv, SectsInv
        <5>2. CASE changed
          BY <3>2, <4>1, <4>3, <4>5, <5>1, <5>2
        <5>3. CASE ~changed /\ r.shift = 0
          BY <3>2, <4>1, <4>3, <4>5, <5>1, <5>3
        <5>4. CASE ~changed /\ r.shift # 0
          BY <3>2, <4>1, <4>2, <4>4, <4>5, <5>1, <5>4
        <5> QED
          BY <5>2, <5>3, <5>4
      <4> QED
        BY <3>2, <4>6 DEF M
    <3> QED
      BY <3>2, <3>3, <3>4, <3>5, <3>6 DEF PassInv
  <2> QED
    BY <2>1, <2>2
<1>7. CASE NextPass
  <2>1. /\ entry = {} /\ changed /\ ~changed' /\ passes' = passes + 1 /\ entry' = VaryIn(sects, group)
        /\ sects' = sects /\ group' = group
    BY <1>7 DEF NextPass, VaryingOf, VaryIn
  <2>2. VaryIn(sects', group') = VaryIn(sects, group) /\ LockedIn(sects', group') = LockedIn(sects, group)
    BY <2>1
  <2>3. \A f \in VaryIn(sects, group) : SegmentAt(sects, f).kind = "padding" => Fits(SegmentAt(sects, f))
    BY <2>1 DEF PassInv
  <2>4. Cardinality(LockedIn(sects, group)) \in Nat /\ passes \in Nat
    BY LockedFinite DEF PassInv
  <2>5. group = {} \/ passes' <= 2 + Cardinality(LockedIn(sects, group))
    BY <2>1, <2>4 DEF PassInv
  <2> QED
    BY <2>1, <2>2, <2>3, <2>4, <2>5 DEF PassInv
<1>8. CASE NextGroup
  <2>1. BeginsAbsolute \/ LeavesAbsolute \/ BeginsRelocatable \/ LeavesRelocatable
    BY <1>8, NextGroupIs
  <2>2. CASE BeginsAbsolute
    <3>1. Begin(Absolutes) /\ \A s \in Absolutes : s \in DOMAIN sects /\ ~sects[s].regrown
      BY <2>2 DEF BeginsAbsolute, GroupInv, Begun, Absolutes
    <3> QED
      BY <1>3, <3>1
  <2>3. CASE BeginsRelocatable
    <3>1. Rest \subseteq Nat /\ Rest # {} /\ Begin({Min(Rest)})
      BY <2>3, SequenceFacts DEF BeginsRelocatable, Rest, SectsInv
    <3>2. \A s \in Rest : s \in DOMAIN sects /\ ~sects[s].regrown
      BY <2>3 DEF BeginsRelocatable, GroupInv, Begun, Rest
    <3>3. Min(Rest) \in Rest
      BY <3>1, MinFacts
    <3> QED
      BY <1>3, <3>1, <3>2, <3>3
  <2> QED
    BY <1>2, <2>1, <2>2, <2>3 DEF LeavesAbsolute, LeavesRelocatable
<1>9. CASE Fill \/ generate_object_module
  BY <1>1, <1>9 DEF Fill, generate_object_module
<1>10. CASE UNCHANGED vars
  BY <1>1, <1>10 DEF vars
<1> QED
  BY <1>4, <1>5, <1>6, <1>7, <1>8, <1>9, <1>10 DEF Next

\* All of them are invariants.
LEMMA SpecUpdateInv == Spec => [](UpdateInv /\ PassInv)
<1>1. Init => UpdateInv /\ PassInv
  BY UpdateInit
<1>2. UpdateInv /\ PassInv /\ [Next]_vars => (UpdateInv /\ PassInv)'
  BY UpdateStep, PassStep
<1> QED
  BY <1>1, <1>2, PTL DEF Spec

\* The search for the lengths ends: its passes are bounded by the segments that can grow.
THEOREM PassesAreFew == Spec => []FewPasses
<1>1. UpdateInv /\ PassInv => FewPasses
  <2> SUFFICES ASSUME UpdateInv, PassInv, group # {} PROVE passes <= 2 + Cardinality(GrowableOf(group))
    BY DEF FewPasses
  <2>1. GrowableOf(group) = GrowIn(sects, group)
    BY DEF GrowableOf, GrowIn
  <2>2. /\ Cardinality(GrowIn(sects, group)) \in Nat /\ Cardinality(LockedIn(sects, group)) \in Nat
        /\ Cardinality(LockedIn(sects, group)) <= Cardinality(GrowIn(sects, group))
    BY LockedFinite DEF UpdateInv
  <2>3. passes \in Nat /\ (passes = 1 \/ passes <= (IF changed THEN 1 ELSE 2) + Cardinality(LockedIn(sects, group)))
    BY DEF PassInv
  <2> QED
    BY <2>1, <2>2, <2>3
<1> QED
  BY <1>1, SpecUpdateInv, PTL

\* Labels and code locations are where the code is, whatever grew or shrank before it.
THEOREM PlacesAreExact == Spec => []PlacesExact
<1>1. UpdateInv => PlacesExact
  <2> SUFFICES ASSUME UpdateInv, Settled PROVE PlacesExact
    BY DEF PlacesExact, LabelsExact, LocationsExact
  <2>1. ASSUME NEW s \in DOMAIN sects, ~sects[s].regrown
        PROVE  LabelsAtCode(sects[s]) /\ (sects[s].address = 0 => LocationsAtCode(sects[s]))
    <3>1. SectionInv(sects[s], FALSE)
      BY DEF UpdateInv, SectsInv, SectionInv
    <3>2. PICK place : Placing(sects[s], place)
      BY <3>1 DEF SectionInv
    <3>3. IsSection(sects[s])
      BY <3>1 DEF SectionInv
    <3>4. LabelsAtCode(sects[s])
      <4> SUFFICES ASSUME NEW w \in DOMAIN sects[s].labels
                   PROVE  sects[s].labels[w] = Start(sects[s], sects[s].declared[w])
        BY DEF LabelsAtCode
      <4>1. sects[s].declared[w] \in 1 .. Len(sects[s].segments) + 1
        BY <3>3 DEF IsSection
      <4> QED
        BY <2>1, <3>2, <4>1 DEF Placing
    <3> QED
      BY <2>1, <3>1, <3>4 DEF SectionInv
  <2> QED
    BY <2>1 DEF PlacesExact, LabelsExact, LocationsExact
<1> QED
  BY <1>1, SpecUpdateInv, PTL

--------------------------------------------------------------------------------
(* Sums over finite sets.                                                       *)

SomeOf(S) == CHOOSE x \in S : TRUE
Iterates(f, S, g) ==
    g = [s \in SUBSET S |-> IF s = {} THEN 0 ELSE f[SomeOf(s)] + g[s \ {SomeOf(s)}]]

\* A sum is computed so.
LEMMA SumIs ==
    ASSUME NEW f, NEW S
    PROVE  SumFunctionOnSet(f, S) = (CHOOSE g : Iterates(f, S, g))[S]
BY Zenon DEF SumFunctionOnSet, FoldFunctionOnSet, MapThenFoldSet, Iterates, SomeOf

\* A set without one of its elements.
LEMMA Fewer ==
    ASSUME NEW S, IsFiniteSet(S), NEW x \in S
    PROVE  /\ IsFiniteSet(S \ {x}) /\ Cardinality(S) \in Nat /\ Cardinality(S) # 0
           /\ Cardinality(S \ {x}) \in Nat /\ Cardinality(S \ {x}) = Cardinality(S) - 1
           /\ Cardinality(S \ {x}) < Cardinality(S)
<1>1. IsFiniteSet(S \ {x}) /\ Cardinality(S \ {x}) = Cardinality(S) - 1
  BY FS_RemoveElement
<1>2. Cardinality(S) \in Nat /\ Cardinality(S \ {x}) \in Nat
  BY <1>1, FS_CardinalityType
<1> QED
  BY <1>1, <1>2

\* It can be computed for every finite set.
LEMMA SumExists ==
    ASSUME NEW f, NEW S, IsFiniteSet(S)
    PROVE  \E g : Iterates(f, S, g)
<1> DEFINE Upto(n) == {s \in SUBSET S : Cardinality(s) <= n}
           Partial(n, g) == g = [s \in Upto(n) |-> IF s = {} THEN 0 ELSE f[SomeOf(s)] + g[s \ {SomeOf(s)}]]
           No == {n \in Nat : ~ \E g : Partial(n, g)}
<1>1. \A s \in SUBSET S : IsFiniteSet(s) /\ Cardinality(s) \in Nat /\ Cardinality(s) <= Cardinality(S)
  BY FS_Subset, FS_CardinalityType
<1>2. \A s \in SUBSET S : s # {} =>
        /\ SomeOf(s) \in s /\ s \ {SomeOf(s)} \in SUBSET S
        /\ Cardinality(s) # 0 /\ Cardinality(s \ {SomeOf(s)}) = Cardinality(s) - 1
  <2> SUFFICES ASSUME NEW s \in SUBSET S, s # {}
               PROVE  /\ SomeOf(s) \in s /\ s \ {SomeOf(s)} \in SUBSET S
                      /\ Cardinality(s) # 0 /\ Cardinality(s \ {SomeOf(s)}) = Cardinality(s) - 1
    OBVIOUS
  <2>1. SomeOf(s) \in s
    BY DEF SomeOf
  <2> QED
    BY <1>1, <2>1, Fewer
<1>3. ASSUME No # {} PROVE FALSE
  <2>1. PICK n \in No : \A m \in No : n <= m
    BY <1>3, LeastNumber
  <2>2. CASE n = 0
    <3> DEFINE g == [s \in Upto(0) |-> 0]
    <3>1. \A s \in Upto(0) : s = {}
      <4> SUFFICES ASSUME NEW s \in SUBSET S, Cardinality(s) <= 0, s # {} PROVE FALSE
        OBVIOUS
      <4>1. Cardinality(s) \in Nat /\ Cardinality(s) # 0
        BY <1>1, <1>2
      <4> QED
        BY <4>1
    <3>2. g = [s \in Upto(0) |-> IF s = {} THEN 0 ELSE f[SomeOf(s)] + g[s \ {SomeOf(s)}]]
      <4> HIDE DEF Upto
      <4> QED
        BY <3>1
    <3>3. Partial(0, g)
      BY <3>2
    <3>4. ~ \E k : Partial(n, k)
      <4> HIDE DEF Partial
      <4> QED
        BY <2>1
    <3> HIDE DEF g, Partial
    <3> QED
      BY <2>2, <3>3, <3>4
  <2>3. CASE n # 0
    <3>1. n - 1 \in Nat /\ n - 1 \notin No
      <4> HIDE DEF Partial
      <4>1. n \in Nat
        OBVIOUS
      <4>2. n - 1 \in Nat /\ ~ (n <= n - 1)
        BY <2>3, <4>1
      <4> HIDE DEF No
      <4> QED
        BY <2>1, <4>2
    <3>2. PICK g : Partial(n - 1, g)
      BY <3>1
    <3> DEFINE h == [s \in Upto(n) |-> IF s = {} THEN 0 ELSE f[SomeOf(s)] + g[s \ {SomeOf(s)}]]
    <3>3. \A s \in Upto(n - 1) : s \in Upto(n) /\ h[s] = g[s]
      <4> SUFFICES ASSUME NEW s \in Upto(n - 1) PROVE s \in Upto(n) /\ h[s] = g[s]
        OBVIOUS
      <4>1. s \in Upto(n)
        BY <1>1, <3>1
      <4>2. g[s] = IF s = {} THEN 0 ELSE f[SomeOf(s)] + g[s \ {SomeOf(s)}]
        <5> HIDE DEF Upto
        <5> QED
          BY <3>2
      <4> HIDE DEF Upto
      <4> QED
        BY <4>1, <4>2
    <3>4. \A s \in Upto(n) : s # {} => s \ {SomeOf(s)} \in Upto(n - 1)
      BY <1>1, <1>2, <3>1
    <3>5. Partial(n, h)
      <4> HIDE DEF Upto
      <4> QED
        BY <3>3, <3>4
    <3> HIDE DEF h, Partial
    <3> QED
      BY <2>1, <3>5
  <2> QED
    BY <2>2, <2>3
<1>4. Cardinality(S) \in Nat /\ Upto(Cardinality(S)) = SUBSET S
  BY <1>1
<1>5. \E g : Partial(Cardinality(S), g)
  <2> HIDE DEF Partial
  <2> QED
    BY <1>3, <1>4
<1> HIDE DEF Upto
<1> QED
  BY <1>4, <1>5 DEF Iterates

\* And in one way only.
LEMMA SumUnique ==
    ASSUME NEW f, NEW S, NEW T, NEW g, NEW h, Iterates(f, S, g), Iterates(f, T, h)
    PROVE  \A U \in (SUBSET S) \cap (SUBSET T) : IsFiniteSet(U) => g[U] = h[U]
<1> DEFINE No == {n \in Nat : \E U \in (SUBSET S) \cap (SUBSET T) :
                    IsFiniteSet(U) /\ Cardinality(U) = n /\ g[U] # h[U]}
<1>1. ASSUME No # {} PROVE FALSE
  <2>1. PICK n \in No : \A m \in No : n <= m
    BY <1>1, LeastNumber
  <2>2. PICK U \in (SUBSET S) \cap (SUBSET T) : IsFiniteSet(U) /\ Cardinality(U) = n /\ g[U] # h[U]
    BY <2>1
  <2>3. /\ g[U] = IF U = {} THEN 0 ELSE f[SomeOf(U)] + g[U \ {SomeOf(U)}]
        /\ h[U] = IF U = {} THEN 0 ELSE f[SomeOf(U)] + h[U \ {SomeOf(U)}]
    BY DEF Iterates
  <2>4. U # {}
    BY <2>2, <2>3
  <2>5. SomeOf(U) \in U
    BY <2>4 DEF SomeOf
  <2> DEFINE V == U \ {SomeOf(U)}
  <2>6. IsFiniteSet(V) /\ Cardinality(V) \in Nat /\ Cardinality(V) < n /\ V \in (SUBSET S) \cap (SUBSET T)
    BY <2>2, <2>5, Fewer
  <2>7. g[V] # h[V]
    BY <2>2, <2>3, <2>4
  <2> HIDE DEF V
  <2>8. Cardinality(V) \in No
    BY <2>6, <2>7
  <2>9. n \in Nat
    OBVIOUS
  <2> QED
    BY <2>1, <2>6, <2>8, <2>9
<1>2. ASSUME NEW U \in (SUBSET S) \cap (SUBSET T), IsFiniteSet(U) PROVE g[U] = h[U]
  <2>1. Cardinality(U) \in Nat /\ Cardinality(U) \notin No
    BY <1>1, <1>2, FS_CardinalityType
  <2> QED
    BY <1>2, <2>1
<1> QED
  BY <1>2

\* The sum over no elements, and over those without the chosen one.
LEMMA SumChosen ==
    ASSUME NEW f
    PROVE  /\ SumFunctionOnSet(f, {}) = 0
           /\ \A S : IsFiniteSet(S) /\ S # {} =>
                SumFunctionOnSet(f, S) = f[SomeOf(S)] + SumFunctionOnSet(f, S \ {SomeOf(S)})
<1> DEFINE G(S) == CHOOSE g : Iterates(f, S, g)
<1>1. \A S : IsFiniteSet(S) => Iterates(f, S, G(S))
  BY SumExists
<1>2. \A S : SumFunctionOnSet(f, S) = G(S)[S]
  BY SumIs
<1> HIDE DEF G
<1>3. SumFunctionOnSet(f, {}) = 0
  <2>1. Iterates(f, {}, G({}))
    BY <1>1, FS_EmptySet
  <2>2. {} \in SUBSET {}
    OBVIOUS
  <2>3. G({})[{}] = 0
    BY <2>1, <2>2 DEF Iterates
  <2> QED
    BY <1>2, <2>3
<1>4. ASSUME NEW S, IsFiniteSet(S), S # {}
      PROVE  SumFunctionOnSet(f, S) = f[SomeOf(S)] + SumFunctionOnSet(f, S \ {SomeOf(S)})
  <2> DEFINE T == S \ {SomeOf(S)}
  <2>1. IsFiniteSet(T)
    BY <1>4, FS_Subset
  <2>2. Iterates(f, S, G(S)) /\ Iterates(f, T, G(T))
    BY <1>1, <1>4, <2>1
  <2>3. S \in SUBSET S /\ T \in SUBSET S /\ T \in SUBSET T
    OBVIOUS
  <2>4. G(S)[T] = G(T)[T]
    <3> HIDE DEF T
    <3> QED
      BY <2>1, <2>2, <2>3, SumUnique
  <2>5. G(S)[S] = f[SomeOf(S)] + G(S)[T]
    <3>1. G(S) = [s \in SUBSET S |-> IF s = {} THEN 0 ELSE f[SomeOf(s)] + G(S)[s \ {SomeOf(s)}]]
      BY <2>2 DEF Iterates
    <3> QED
      BY <1>4, <2>3, <3>1
  <2> QED
    BY <1>2, <2>4, <2>5
<1> QED
  BY <1>3, <1>4

\* A sum of numbers is a number, and one may begin with any element.
LEMMA SumFacts ==
    ASSUME NEW f, NEW S, IsFiniteSet(S), \A x \in S : f[x] \in Int
    PROVE  /\ SumFunctionOnSet(f, S) \in Int
           /\ \A x \in S : SumFunctionOnSet(f, S) = f[x] + SumFunctionOnSet(f, S \ {x})
<1> DEFINE Holds(T) == /\ SumFunctionOnSet(f, T) \in Int
                       /\ \A x \in T : SumFunctionOnSet(f, T) = f[x] + SumFunctionOnSet(f, T \ {x})
           No == {n \in Nat : \E T \in SUBSET S : Cardinality(T) = n /\ ~Holds(T)}
<1>1. \A T \in SUBSET S : IsFiniteSet(T) /\ Cardinality(T) \in Nat
  BY FS_Subset, FS_CardinalityType
<1>2. ASSUME No # {} PROVE FALSE
  <2>1. PICK n \in No : \A m \in No : n <= m
    BY <1>2, LeastNumber
  <2>2. PICK T \in SUBSET S : Cardinality(T) = n /\ ~Holds(T)
    BY <2>1
  <2>3. \A U \in SUBSET T : Cardinality(U) < n => Holds(U)
    <3> SUFFICES ASSUME NEW U \in SUBSET T, Cardinality(U) < n, ~Holds(U) PROVE FALSE
      OBVIOUS
    <3> HIDE DEF Holds
    <3>1. U \in SUBSET S /\ Cardinality(U) \in Nat /\ n \in Nat
      BY <1>1
    <3>2. Cardinality(U) \in No
      BY <3>1
    <3> QED
      BY <2>1, <3>1, <3>2
  <2>4. T # {}
    BY <2>2, SumChosen
  <2> DEFINE y == SomeOf(T)
  <2>5. y \in T
    BY <2>4 DEF SomeOf
  <2>6. SumFunctionOnSet(f, T) = f[y] + SumFunctionOnSet(f, T \ {y})
    BY <1>1, <2>4, SumChosen
  <2> HIDE DEF y
  <2>7. \A x \in T : Cardinality(T \ {x}) < n
    BY <1>1, <2>2, Fewer
  <2>8. \A x \in T : SumFunctionOnSet(f, T \ {x}) \in Int /\ f[x] \in Int
    BY <2>3, <2>7
  <2>9. SumFunctionOnSet(f, T) \in Int
    BY <2>5, <2>6, <2>8
  <2>10. ASSUME NEW x \in T PROVE SumFunctionOnSet(f, T) = f[x] + SumFunctionOnSet(f, T \ {x})
    <3>1. CASE x = y
      BY <2>6, <3>1
    <3>2. CASE x # y
      <4> DEFINE V == T \ {x, y}
      <4>1. T \ {y} \in SUBSET T /\ x \in T \ {y} /\ (T \ {y}) \ {x} = V
        BY <3>2
      <4>2. T \ {x} \in SUBSET T /\ y \in T \ {x} /\ (T \ {x}) \ {y} = V
        BY <2>5, <3>2
      <4>3. SumFunctionOnSet(f, T \ {y}) = f[x] + SumFunctionOnSet(f, V)
        BY <2>3, <2>5, <2>7, <4>1
      <4>4. SumFunctionOnSet(f, T \ {x}) = f[y] + SumFunctionOnSet(f, V)
        BY <2>3, <2>7, <4>2
      <4>5. SumFunctionOnSet(f, V) \in Int
        <5>1. V \in SUBSET T /\ Cardinality(V) < n
          <6>1. IsFiniteSet(T \ {y}) /\ Cardinality(T \ {y}) < n
            BY <1>1, <2>5, <2>7
          <6>2. Cardinality((T \ {y}) \ {x}) < Cardinality(T \ {y})
            BY <4>1, <6>1, Fewer
          <6>3. Cardinality((T \ {y}) \ {x}) \in Nat /\ Cardinality(T \ {y}) \in Nat
            BY <1>1
          <6> QED
            BY <4>1, <6>1, <6>2, <6>3
        <5> QED
          BY <2>3, <5>1
      <4> HIDE DEF V
      <4>6. f[x] \in Int /\ f[y] \in Int
        BY <2>5, <2>8
      <4> QED
        BY <2>6, <4>3, <4>4, <4>5, <4>6
    <3> QED
      BY <3>1, <3>2
  <2> QED
    BY <2>2, <2>9, <2>10
<1> HIDE DEF Holds
<1>3. Holds(S)
  BY <1>1, <1>2
<1> QED
  BY <1>3 DEF Holds

--------------------------------------------------------------------------------
(* What recursive functions over a sequence compute.                            *)

\* A function of 1 .. n is its own sequence.
LEMMA SequenceIs ==
    ASSUME NEW n \in Nat, NEW s, s = [i \in 1 .. n |-> s[i]]
    PROVE  Sequence(s) = s
<1>1. s \in Seq(Range(s))
  BY FunctionIsSequence DEF IsSequence
<1> QED
  BY <1>1, ConcatEmptySeq DEF Sequence

\* Sequences of a set are joined to one of it.
LEMMA FlatFacts ==
    ASSUME NEW S, NEW n \in Nat, NEW seqs, seqs = [i \in 1 .. n |-> seqs[i]],
           \A i \in 1 .. n : seqs[i] \in Seq(S)
    PROVE  Flat(seqs) \in Seq(S)
<1>1. Sequence(seqs) = seqs
  BY SequenceIs
<1>2. seqs \in Seq(Seq(S))
  <2>1. seqs \in [1 .. n -> Seq(S)]
    OBVIOUS
  <2> QED
    BY <2>1, SeqDef
<1>3. FlattenSeq(seqs) \in Seq(S)
  BY <1>2, FlattenFacts
<1> QED
  BY <1>1, <1>3 DEF Flat

\* The alignment of the first segments.
AlignedInto(segments, m, upto) ==
    upto = [i \in 0 .. m |-> IF i = 0 THEN 1 ELSE Lcm(upto[i - 1], segments[i].alignment)]

\* A relocatable section has a multiple of the alignment of each of its segments.
LEMMA AlignmentFacts ==
    ASSUME NEW sect, IsSection(sect)
    PROVE  /\ Alignment(sect) \in Nat \ {0}
           /\ sect.name # Abs =>
                \A i \in DOMAIN sect.segments : Alignment(sect) % sect.segments[i].alignment = 0
<1> DEFINE segments == sect.segments
           n == Len(segments)
<1>1. n \in Nat /\ DOMAIN segments = 1 .. n /\ \A i \in 1 .. n : segments[i].alignment \in Nat \ {0}
  BY StartFacts DEF IsSegment
<1> HIDE DEF segments, n
<1> DEFINE No == {m \in Nat : m <= n /\ ~ \E g : AlignedInto(segments, m, g)}
<1>2. ASSUME No # {} PROVE FALSE
  <2>1. PICK m \in No : \A k \in No : m <= k
    BY <1>2, LeastNumber
  <2>2. m # 0
    <3> DEFINE g == [i \in 0 .. 0 |-> 1]
    <3>1. AlignedInto(segments, 0, g)
      BY DEF AlignedInto
    <3> QED
      BY <3>1
  <2>3. m \in Nat /\ m <= n
    OBVIOUS
  <2>4. m - 1 \in Nat /\ m - 1 <= n /\ ~ (m <= m - 1)
    BY <1>1, <2>2, <2>3
  <2>5. m - 1 \notin No
    <3> HIDE DEF No
    <3> QED
      BY <2>1, <2>4
  <2>6. PICK g : AlignedInto(segments, m - 1, g)
    BY <2>4, <2>5
  <2> DEFINE h == [i \in 0 .. m |-> IF i = 0 THEN 1 ELSE Lcm(g[i - 1], segments[i].alignment)]
  <2>7. \A i \in 0 .. m - 1 : h[i] = g[i]
    <3>1. \A i \in 0 .. m - 1 : g[i] = IF i = 0 THEN 1 ELSE Lcm(g[i - 1], segments[i].alignment)
      <4> HIDE DEF h, No
      <4> QED
        BY <2>6 DEF AlignedInto
    <3>2. \A i \in 0 .. m - 1 : i \in 0 .. m
      BY <2>3
    <3>3. \A i \in 0 .. m : h[i] = IF i = 0 THEN 1 ELSE Lcm(g[i - 1], segments[i].alignment)
      OBVIOUS
    <3> HIDE DEF h, No
    <3> QED
      BY <3>1, <3>2, <3>3
  <2>8. \A i \in 0 .. m : i # 0 => i - 1 \in 0 .. m - 1
    BY <2>3
  <2>9. AlignedInto(segments, m, h)
    BY <2>7, <2>8 DEF AlignedInto
  <2>10. ~ \E k : AlignedInto(segments, m, k)
    OBVIOUS
  <2> HIDE DEF h, No
  <2> QED
    BY <2>9, <2>10
<1>3. \E g : AlignedInto(segments, n, g)
  <2>1. n \in Nat /\ n <= n /\ n \notin No
    <3> HIDE DEF No
    <3> QED
      BY <1>1, <1>2
  <2> QED
    BY <2>1
<1> DEFINE g == CHOOSE f : AlignedInto(segments, n, f)
<1>4. AlignedInto(segments, n, g)
  BY <1>3
<1>5. Alignment(sect) = IF sect.name = Abs THEN 1 ELSE g[n]
  BY Zenon DEF Alignment, AlignedInto, segments, n
<1> HIDE DEF g
<1>6. \A i \in 0 .. n : g[i] = IF i = 0 THEN 1 ELSE Lcm(g[i - 1], segments[i].alignment)
  BY <1>4 DEF AlignedInto
<1> DEFINE Good(i) == g[i] \in Nat \ {0} /\ \A j \in 1 .. i : g[i] % segments[j].alignment = 0
           Bad == {i \in Nat : i \in 0 .. n /\ ~Good(i)}
<1>7. ASSUME Bad # {} PROVE FALSE
  <2>1. PICK i \in Bad : \A k \in Bad : i <= k
    BY <1>7, LeastNumber
  <2>2. i \in 0 .. n /\ ~Good(i)
    OBVIOUS
  <2>3. i # 0
    <3>1. 0 \in 0 .. n
      BY <1>1
    <3>2. g[0] = 1
      BY <1>6, <3>1
    <3> QED
      BY <2>2, <3>2
  <2>4. i - 1 \in 0 .. n /\ i - 1 \in Nat /\ ~ (i <= i - 1) /\ i \in 1 .. n
    BY <1>1, <2>2, <2>3
  <2>5. Good(i - 1)
    <3>1. i - 1 \notin Bad
      <4> HIDE DEF Bad
      <4> QED
        BY <2>1, <2>4
    <3>2. \A k \in Nat : k \in 0 .. n /\ k \notin Bad => Good(k)
      <4> HIDE DEF Good
      <4> QED
        OBVIOUS
    <3> HIDE DEF Good, Bad
    <3> QED
      BY <2>4, <3>1, <3>2
  <2> DEFINE a == g[i - 1]
             b == segments[i].alignment
             m == Lcm(a, b)
  <2>6. a \in Nat \ {0} /\ b \in Nat \ {0} /\ g[i] = m
    BY <1>1, <1>6, <2>2, <2>3, <2>4, <2>5
  <2> HIDE DEF a, b
  <2>7. m \in Nat \ {0} /\ m % a = 0 /\ m % b = 0
    BY <2>6, LcmProperties
  <2> HIDE DEF m
  <2>8. ASSUME NEW j \in 1 .. i PROVE m % segments[j].alignment = 0
    <3>1. CASE j = i
      BY <2>7, <3>1 DEF b
    <3>2. CASE j # i
      <4>1. j \in 1 .. i - 1 /\ j \in 1 .. n
        <5> HIDE DEF Good, Bad
        <5> QED
          BY <1>1, <2>4, <3>2
      <4> DEFINE c == segments[j].alignment
      <4>2. c \in Nat \ {0} /\ a % c = 0
        BY <1>1, <2>5, <4>1 DEF a
      <4> HIDE DEF c
      <4>3. m % c = 0
        <5>1. m \in Int
          BY <2>7
        <5> QED
          BY <2>6, <2>7, <4>2, <5>1, MultipleOfMultiple
      <4> QED
        BY <4>3 DEF c
    <3> QED
      BY <3>1, <3>2
  <2> QED
    BY <2>2, <2>6, <2>7, <2>8
<1> HIDE DEF Good
<1>8. Good(n)
  BY <1>1, <1>7
<1> QED
  BY <1>1, <1>5, <1>8 DEF Good, segments

\* Among subsets of a finite set there is one that no smaller one is among.
LEMMA Descent ==
    ASSUME NEW S, IsFiniteSet(S), NEW Bad, Bad \subseteq SUBSET S, Bad # {}
    PROVE  \E T \in Bad : IsFiniteSet(T) /\ \A x \in T : T \ {x} \notin Bad
<1> DEFINE No == {Cardinality(T) : T \in Bad}
<1>1. \A T \in Bad : IsFiniteSet(T) /\ Cardinality(T) \in Nat
  BY FS_Subset, FS_CardinalityType
<1>2. No \subseteq Nat /\ No # {}
  BY <1>1
<1>3. PICK n \in No : \A m \in No : n <= m
  <2> HIDE DEF No
  <2> QED
    BY <1>2, LeastNumber
<1>4. PICK T \in Bad : n = Cardinality(T)
  OBVIOUS
<1>5. ASSUME NEW x \in T, T \ {x} \in Bad PROVE FALSE
  <2>1. Cardinality(T \ {x}) \in Nat /\ Cardinality(T \ {x}) < n /\ n \in Nat
    BY <1>1, <1>4, Fewer
  <2>2. Cardinality(T \ {x}) \in No
    BY <1>5
  <2> HIDE DEF No
  <2>3. n <= Cardinality(T \ {x})
    BY <1>3, <2>2
  <2> QED
    BY <2>1, <2>3
<1> QED
  BY <1>1, <1>4, <1>5

\* Sums are linear.
LEMMA SumLinear ==
    ASSUME NEW S, IsFiniteSet(S), NEW f, NEW g, NEW h, NEW k \in Int,
           \A x \in S : f[x] \in Int /\ g[x] \in Int /\ h[x] = f[x] + k * g[x]
    PROVE  SumFunctionOnSet(h, S) = SumFunctionOnSet(f, S) + k * SumFunctionOnSet(g, S)
<1> DEFINE Good(T) == SumFunctionOnSet(h, T) = SumFunctionOnSet(f, T) + k * SumFunctionOnSet(g, T)
           Bad == {T \in SUBSET S : ~Good(T)}
<1>1. ASSUME Bad # {} PROVE FALSE
  <2>1. PICK T \in Bad : IsFiniteSet(T) /\ \A x \in T : T \ {x} \notin Bad
    <3>1. Bad \subseteq SUBSET S
      OBVIOUS
    <3> HIDE DEF Bad
    <3> QED
      BY <1>1, <3>1, Descent
  <2>2. T \in SUBSET S /\ ~Good(T)
    OBVIOUS
  <2>3. T # {}
    <3> SUFFICES ASSUME T = {} PROVE FALSE
      OBVIOUS
    <3>1. SumFunctionOnSet(f, T) = 0 /\ SumFunctionOnSet(g, T) = 0 /\ SumFunctionOnSet(h, T) = 0
      BY SumChosen
    <3>2. k * 0 = 0
      OBVIOUS
    <3> QED
      BY <2>2, <3>1, <3>2
  <2>4. PICK x \in T : TRUE
    BY <2>3
  <2> DEFINE U == T \ {x}
  <2>5. U \in SUBSET S /\ IsFiniteSet(U)
    BY <2>1, <2>2, FS_Subset
  <2>6. Good(U)
    BY <2>1, <2>4, <2>5
  <2>7. /\ SumFunctionOnSet(f, T) = f[x] + SumFunctionOnSet(f, U)
        /\ SumFunctionOnSet(g, T) = g[x] + SumFunctionOnSet(g, U)
        /\ SumFunctionOnSet(h, T) = h[x] + SumFunctionOnSet(h, U)
    <3>1. \A y \in T : f[y] \in Int /\ g[y] \in Int /\ h[y] \in Int
      BY <2>2
    <3> QED
      BY <2>1, <2>4, <3>1, SumFacts
  <2>8. SumFunctionOnSet(f, U) \in Int /\ SumFunctionOnSet(g, U) \in Int
    <3>1. \A y \in U : f[y] \in Int /\ g[y] \in Int
      BY <2>2
    <3> QED
      BY <2>5, <3>1, SumFacts
  <2> DEFINE F == SumFunctionOnSet(f, U)
             G == SumFunctionOnSet(g, U)
             H == SumFunctionOnSet(h, U)
  <2>9. H = F + k * G /\ F \in Int /\ G \in Int /\ f[x] \in Int /\ g[x] \in Int /\ h[x] = f[x] + k * g[x]
    BY <2>2, <2>6, <2>8
  <2>10. h[x] + H = (f[x] + F) + k * (g[x] + G)
    <3> HIDE DEF F, G, H
    <3>1. k * (g[x] + G) = k * g[x] + k * G
      BY <2>9
    <3>2. k * g[x] \in Int /\ k * G \in Int
      BY <2>9
    <3> QED
      BY <2>9, <3>1, <3>2
  <2> QED
    BY <2>2, <2>7, <2>10
<1>2. S \in SUBSET S /\ S \notin Bad
  BY <1>1
<1> QED
  BY <1>2

\* Equal summands have equal sums.
LEMMA SumEqual ==
    ASSUME NEW S, IsFiniteSet(S), NEW f, NEW g, \A x \in S : f[x] \in Int /\ g[x] = f[x]
    PROVE  SumFunctionOnSet(g, S) = SumFunctionOnSet(f, S)
<1>1. \A x \in S : f[x] \in Int /\ f[x] \in Int /\ g[x] = f[x] + 0 * f[x]
  OBVIOUS
<1>2. SumFunctionOnSet(g, S) = SumFunctionOnSet(f, S) + 0 * SumFunctionOnSet(f, S)
  BY <1>1, SumLinear
<1>3. SumFunctionOnSet(f, S) \in Int
  BY SumFacts
<1> QED
  BY <1>2, <1>3

\* A sum falls into parts.
LEMMA SumSplit ==
    ASSUME NEW S, IsFiniteSet(S), NEW f, \A x \in S : f[x] \in Int, NEW A, A \subseteq S
    PROVE  SumFunctionOnSet(f, S) = SumFunctionOnSet(f, A) + SumFunctionOnSet(f, S \ A)
<1> DEFINE Good(T) == SumFunctionOnSet(f, S \ (A \ T)) = SumFunctionOnSet(f, T) + SumFunctionOnSet(f, S \ A)
           Bad == {T \in SUBSET A : ~Good(T)}
<1>1. ASSUME Bad # {} PROVE FALSE
  <2>1. PICK T \in Bad : IsFiniteSet(T) /\ \A x \in T : T \ {x} \notin Bad
    <3>1. Bad \subseteq SUBSET A /\ IsFiniteSet(A)
      BY FS_Subset
    <3> HIDE DEF Bad
    <3> QED
      BY <1>1, <3>1, Descent
  <2>2. T \in SUBSET A /\ ~Good(T)
    OBVIOUS
  <2>3. T # {}
    <3> SUFFICES ASSUME T = {} PROVE FALSE
      OBVIOUS
    <3>1. S \ (A \ T) = S \ A
      OBVIOUS
    <3>2. IsFiniteSet(S \ A) /\ \A y \in S \ A : f[y] \in Int
      BY FS_Subset
    <3>3. SumFunctionOnSet(f, S \ A) \in Int
      BY <3>2, SumFacts
    <3>4. SumFunctionOnSet(f, T) = 0
      BY SumChosen
    <3> QED
      BY <2>2, <3>1, <3>3, <3>4
  <2>4. PICK x \in T : TRUE
    BY <2>3
  <2> DEFINE U == T \ {x}
             P == S \ (A \ T)
             Q == S \ (A \ U)
  <2>5. U \in SUBSET A /\ IsFiniteSet(U) /\ IsFiniteSet(P) /\ x \in P /\ Q = P \ {x}
    BY <2>1, <2>2, FS_Subset
  <2>6. Good(U)
    BY <2>1, <2>4, <2>5
  <2>7. SumFunctionOnSet(f, T) = f[x] + SumFunctionOnSet(f, U)
    <3>1. \A y \in T : f[y] \in Int
      BY <2>2
    <3> QED
      BY <2>1, <2>4, <3>1, SumFacts
  <2>8. SumFunctionOnSet(f, P) = f[x] + SumFunctionOnSet(f, Q)
    <3>1. \A y \in P : f[y] \in Int
      OBVIOUS
    <3> HIDE DEF P, Q
    <3> QED
      BY <2>5, <3>1, SumFacts
  <2>9. SumFunctionOnSet(f, U) \in Int /\ SumFunctionOnSet(f, S \ A) \in Int /\ f[x] \in Int
    <3>1. \A y \in U : f[y] \in Int
      BY <2>2
    <3>2. IsFiniteSet(S \ A) /\ \A y \in S \ A : f[y] \in Int
      BY FS_Subset
    <3> QED
      BY <2>2, <2>5, <3>1, <3>2, SumFacts
  <2> HIDE DEF U
  <2> QED
    BY <2>2, <2>6, <2>7, <2>8, <2>9
<1>2. A \in SUBSET A /\ A \notin Bad
  BY <1>1
<1>3. S \ (A \ A) = S
  OBVIOUS
<1> QED
  BY <1>2, <1>3

\* Summands that are 0 may be left away.
LEMMA SumZero ==
    ASSUME NEW S, IsFiniteSet(S), NEW f, \A x \in S : f[x] \in Int,
           NEW A, A \subseteq S, \A x \in S \ A : f[x] = 0
    PROVE  SumFunctionOnSet(f, S) = SumFunctionOnSet(f, A)
<1> DEFINE B == S \ A
<1>1. IsFiniteSet(B) /\ IsFiniteSet(A) /\ \A x \in A : f[x] \in Int
  BY FS_Subset
<1>2. \A x \in B : f[x] = 0
  OBVIOUS
<1>3. SumFunctionOnSet(f, S) = SumFunctionOnSet(f, A) + SumFunctionOnSet(f, B)
  BY SumSplit
<1> HIDE DEF B
<1>4. SumFunctionOnSet(f, A) \in Int /\ SumFunctionOnSet(f, B) \in Int
  BY <1>1, <1>2, SumFacts
<1>5. \A x \in B : f[x] \in Int /\ f[x] \in Int /\ f[x] = f[x] + (-1) * f[x]
  BY <1>2
<1>6. SumFunctionOnSet(f, B) = SumFunctionOnSet(f, B) + (-1) * SumFunctionOnSet(f, B)
  BY <1>1, <1>5, SumLinear
<1> QED
  BY <1>3, <1>4, <1>6

--------------------------------------------------------------------------------
(* What a segment fills into its section.                                       *)

HeldField == {f \in Field : HoldsConstant(f)}
FieldsFit(fields) == \A w \in DOMAIN fields : \A field \in DOMAIN fields[w] : fields[w][field] \in Nat
ValuesFit(labels) == \A w \in DOMAIN labels : labels[w] \in Int

UsedIn(expr) == {w \in TermsOf(expr) : Times(expr, w) # 0}
OwnOf(sect) == DOMAIN sect.labels \ sect.exts
SizesOf(expr, fields) ==
    [i \in DOMAIN expr.fields |-> fields[Dotted[expr.fields[i]].template][Dotted[expr.fields[i]].field]]
ValuesOf(expr, sect, labels, S) == [w \in S |-> Times(expr, w) * LabelValue(w, sect, labels)]
TimesOf(expr, S) == [w \in S |-> Times(expr, w)]

\* A sequence has finitely many elements.
LEMMA ElementsFinite ==
    ASSUME NEW s, IsSequence(s)
    PROVE  /\ IsFiniteSet(DOMAIN s) /\ IsFiniteSet(ToSet(s))
           /\ \A S \in SUBSET DOMAIN s : IsFiniteSet(S) /\ Cardinality(S) \in Nat
<1>1. DOMAIN s = 1 .. Len(s) /\ Len(s) \in Nat /\ s = [i \in DOMAIN s |-> s[i]]
  BY SequenceFacts
<1>2. IsFiniteSet(DOMAIN s)
  BY <1>1, FS_Interval
<1>3. s \in Surjection(DOMAIN s, ToSet(s))
  BY <1>1 DEF Surjection, ToSet
<1> QED
  BY <1>2, <1>3, FS_Surjection, FS_Subset, FS_CardinalityType

\* The terms of an expression are finitely many.
LEMMA TermFacts ==
    ASSUME NEW expr, IsExpression(expr)
    PROVE  /\ IsFiniteSet(TermsOf(expr)) /\ IsFiniteSet(DOMAIN expr.fields)
           /\ \A w : Times(expr, w) \in Int
<1>1. IsSequence(expr.add) /\ IsSequence(expr.sub) /\ IsSequence(expr.fields)
  BY DEF IsExpression
<1>2. IsFiniteSet(TermsOf(expr)) /\ IsFiniteSet(DOMAIN expr.fields)
  BY <1>1, ElementsFinite, FS_Union DEF TermsOf
<1>3. ASSUME NEW w PROVE Times(expr, w) \in Int
  <2> DEFINE A == {i \in DOMAIN expr.add : expr.add[i] = w}
             B == {i \in DOMAIN expr.sub : expr.sub[i] = w}
  <2>1. A \in SUBSET DOMAIN expr.add /\ B \in SUBSET DOMAIN expr.sub
    OBVIOUS
  <2>2. Cardinality(A) \in Nat /\ Cardinality(B) \in Nat
    <3> HIDE DEF A, B
    <3> QED
      BY <1>1, <2>1, ElementsFinite
  <2>3. Times(expr, w) = Cardinality(A) - Cardinality(B)
    BY DEF Times
  <2> QED
    BY <2>2, <2>3
<1> QED
  BY <1>2, <1>3

\* What parsing tells of an expression.
Parsed(expr, sect, labels, fields, p) ==
    /\ p.ext = UsedIn(expr) \cap sect.exts
    /\ p.rel = IF sect.name = Abs THEN {} ELSE UsedIn(expr) \cap OwnOf(sect)
    /\ p.asect = UsedIn(expr) \ (sect.exts \cup p.rel)
    /\ p.relocate_additions = SumFunctionOnSet(TimesOf(expr, p.rel), p.rel)
    /\ IsFiniteSet(p.ext) /\ IsFiniteSet(p.rel) /\ IsFiniteSet(p.asect)
    /\ p.relocate_additions \in Int
    /\ ~p.error => /\ TermsOf(expr) \subseteq sect.exts \cup OwnOf(sect) \cup DOMAIN labels
                   /\ p.value = expr.const + SumFunctionOnSet(SizesOf(expr, fields), DOMAIN expr.fields)
                   /\ p.value \in Int
                   /\ \A i \in DOMAIN expr.fields : SizesOf(expr, fields)[i] \in Int

\* What the parser of expressions finds out.
LEMMA ParsedFacts ==
    ASSUME NEW expr, IsExpression(expr), NEW sect, NEW labels, NEW fields, FieldsFit(fields)
    PROVE  Parsed(expr, sect, labels, fields, parse_expression(expr, sect, labels, fields))
<1> DEFINE p == parse_expression(expr, sect, labels, fields)
           rel == IF sect.name = Abs THEN {} ELSE UsedIn(expr) \cap OwnOf(sect)
           found == {i \in DOMAIN expr.fields : FieldKnown(Dotted[expr.fields[i]], fields)}
           Size == [i \in found |-> fields[Dotted[expr.fields[i]].template][Dotted[expr.fields[i]].field]]
<1>1. /\ p.ext = UsedIn(expr) \cap sect.exts /\ p.rel = rel
      /\ p.asect = UsedIn(expr) \ (sect.exts \cup rel)
      /\ p.relocate_additions = SumFunctionOnSet([w \in rel |-> Times(expr, w)], rel)
      /\ p.value = expr.const + SumFunctionOnSet(Size, found)
      /\ ~p.error => found = DOMAIN expr.fields
                     /\ TermsOf(expr) \subseteq sect.exts \cup OwnOf(sect) \cup DOMAIN labels
  BY DEF parse_expression, UsedIn, OwnOf
<1> HIDE DEF p, rel
<1>2. UsedIn(expr) \in SUBSET TermsOf(expr) /\ IsFiniteSet(TermsOf(expr)) /\ IsFiniteSet(UsedIn(expr))
  <2>1. UsedIn(expr) \in SUBSET TermsOf(expr)
    BY DEF UsedIn
  <2> QED
    BY <2>1, TermFacts, FS_Subset
<1>3. rel \in SUBSET UsedIn(expr)
  BY DEF rel
<1>4. IsFiniteSet(p.ext) /\ IsFiniteSet(p.rel) /\ IsFiniteSet(p.asect)
  BY <1>1, <1>2, <1>3, FS_Subset
<1>5. p.relocate_additions = SumFunctionOnSet(TimesOf(expr, p.rel), p.rel) /\ p.relocate_additions \in Int
  <2>1. p.relocate_additions = SumFunctionOnSet(TimesOf(expr, rel), rel)
    BY <1>1 DEF TimesOf
  <2>2. \A w \in rel : TimesOf(expr, rel)[w] \in Int
    BY TermFacts DEF TimesOf
  <2> QED
    BY <1>1, <1>4, <2>1, <2>2, SumFacts
<1>6. ASSUME ~p.error
      PROVE  /\ p.value = expr.const + SumFunctionOnSet(SizesOf(expr, fields), DOMAIN expr.fields)
             /\ p.value \in Int
             /\ \A i \in DOMAIN expr.fields : SizesOf(expr, fields)[i] \in Int
  <2>1. found = DOMAIN expr.fields
    BY <1>1, <1>6
  <2>2. Size = SizesOf(expr, fields)
    BY <2>1 DEF SizesOf
  <2>3. \A i \in DOMAIN expr.fields : SizesOf(expr, fields)[i] \in Int
    <3> SUFFICES ASSUME NEW i \in DOMAIN expr.fields PROVE SizesOf(expr, fields)[i] \in Int
      OBVIOUS
    <3>1. FieldKnown(Dotted[expr.fields[i]], fields)
      BY <2>1
    <3> QED
      BY <3>1 DEF FieldKnown, FieldsFit, SizesOf
  <2>4. SumFunctionOnSet(SizesOf(expr, fields), DOMAIN expr.fields) \in Int
    BY <2>3, TermFacts, SumFacts
  <2>5. expr.const \in Int
    BY DEF IsExpression
  <2>6. p.value = expr.const + SumFunctionOnSet(SizesOf(expr, fields), DOMAIN expr.fields)
    <3> HIDE DEF found, Size
    <3> QED
      BY <1>1, <2>1, <2>2
  <2> QED
    BY <2>3, <2>4, <2>5, <2>6
<1> QED
  BY <1>1, <1>4, <1>5, <1>6 DEF Parsed, p, rel

\* An expression that is accepted has a number as value.
LEMMA CalculatedFacts ==
    ASSUME NEW expr, IsExpression(expr), NEW sect, ValuesFit(sect.labels), NEW labels, ValuesFit(labels),
           NEW fields, NEW p, Parsed(expr, sect, labels, fields, p), ~p.error
    PROVE  /\ \A w \in p.asect \cup p.rel : LabelValue(w, sect, labels) \in Int
           /\ IsFiniteSet(p.asect \cup p.rel)
           /\ \A w \in p.asect \cup p.rel : ValuesOf(expr, sect, labels, p.asect \cup p.rel)[w] \in Int
           /\ calculate_expression(expr, p, sect, labels) \in Int
           /\ calculate_expression(expr, p, sect, labels) = p.value
                + SumFunctionOnSet(ValuesOf(expr, sect, labels, p.asect \cup p.rel), p.asect \cup p.rel)
<1> DEFINE S == p.asect \cup p.rel
<1>1. IsFiniteSet(S)
  BY FS_Union DEF Parsed
<1>2. ASSUME NEW w \in S PROVE LabelValue(w, sect, labels) \in Int
  <2>1. w \in DOMAIN sect.labels \/ w \in DOMAIN labels
    BY DEF Parsed, UsedIn, OwnOf
  <2> QED
    BY <2>1 DEF LabelValue, ValuesFit
<1> DEFINE F == ValuesOf(expr, sect, labels, S)
<1>3. \A w \in S : F[w] \in Int
  <2> SUFFICES ASSUME NEW w \in S PROVE F[w] \in Int
    OBVIOUS
  <2>1. F[w] = Times(expr, w) * LabelValue(w, sect, labels)
    BY DEF ValuesOf
  <2>2. Times(expr, w) \in Int
    BY TermFacts
  <2> QED
    BY <1>2, <2>1, <2>2
<1>4. calculate_expression(expr, p, sect, labels) = p.value + SumFunctionOnSet(F, S)
  BY DEF calculate_expression, ValuesOf
<1>5. SumFunctionOnSet(F, S) \in Int
  <2> HIDE DEF F, S
  <2> QED
    BY <1>1, <1>3, SumFacts
<1>6. p.value \in Int
  BY DEF Parsed
<1>7. calculate_expression(expr, p, sect, labels) \in Int
  <2> HIDE DEF F, S
  <2> QED
    BY <1>4, <1>5, <1>6
<1> QED
  BY <1>1, <1>2, <1>3, <1>4, <1>7

\* Of an expression that is not refused at most one address waits to be added.
LEMMA PermittedFacts ==
    ASSUME NEW expr, NEW sect, NEW labels, NEW fields, NEW p, Parsed(expr, sect, labels, fields, p),
           ~forbid_multilabel_expressions(expr, p)
    PROVE  \/ p.ext = {} /\ p.relocate_additions \in {0, 1}
           \/ \E w \in p.ext : p.ext = {w} /\ Times(expr, w) = 1 /\ p.relocate_additions = 0
<1>1. CASE p.ext = {}
  BY <1>1 DEF forbid_multilabel_expressions
<1>2. CASE p.ext # {}
  <2>1. Cardinality(p.ext) <= 1 /\ (\A w \in p.ext : Times(expr, w) = 1) /\ p.relocate_additions = 0
    <3>1. IsFiniteSet(p.ext) /\ Cardinality(p.ext) \in Nat
      BY FS_CardinalityType DEF Parsed
    <3> QED
      BY <1>2, <3>1 DEF forbid_multilabel_expressions
  <2>2. PICK w \in p.ext : TRUE
    BY <1>2
  <2>3. p.ext = {w}
    <3>1. IsFiniteSet(p.ext) /\ {w} \in SUBSET p.ext /\ Cardinality({w}) = 1 /\ Cardinality(p.ext) \in Nat
      BY FS_Singleton, FS_CardinalityType DEF Parsed
    <3>2. Cardinality({w}) <= Cardinality(p.ext) /\ (Cardinality({w}) = Cardinality(p.ext) => {w} = p.ext)
      BY <3>1, FS_Subset
    <3> QED
      BY <2>1, <3>1, <3>2
  <2> QED
    BY <2>1, <2>3
<1> QED
  BY <1>1, <1>2

\* How the value of an expression goes into the code.
Expressed(code, expr, at, p, value) ==
    /\ ~p.error /\ -32768 <= value /\ value < 65536 /\ code.value = value % Power(2)
    /\ \/ p.ext = {} /\ p.relocate_additions = 0 /\ code.fields = <<>>
       \/ p.ext = {} /\ p.relocate_additions = 1 /\ code.fields = <<Entry16(Null, at, value)>>
       \/ \E w \in p.ext : /\ p.ext = {w} /\ Times(expr, w) = 1 /\ p.relocate_additions = 0
                           /\ code.fields = <<Entry16(w, at, value)>>

\* What is refused, and what is not.
LEMMA ImmediateFacts ==
    ASSUME NEW v, NEW b
    PROVE  /\ ~Immediate(v, b).error /\ Immediate(v, b).fields = <<>> /\ Immediate(v, b).value = v
           /\ Immediate(v, b).negative = b /\ Refuses.error /\ ~NoCode.error /\ NoCode.fields = <<>>
<1>1. ~Immediate(v, b).error /\ ~NoCode.error
  BY Zenon DEF Immediate, NoCode
<1>2. Immediate(v, b).fields = <<>> /\ Immediate(v, b).value = v /\ Immediate(v, b).negative = b /\ NoCode.fields = <<>>
  BY Zenon DEF Immediate, NoCode
<1>3. Refuses.error
  <2>1. "error" \in DOMAIN NoCode
    BY DEF NoCode, Immediate
  <2> QED
    BY <2>1, Zenon DEF Refuses
<1> QED
  BY <1>1, <1>2, <1>3

\* And what has no sign.
LEMMA PlainFacts ==
    ASSUME NEW v
    PROVE  Immediate(v, FALSE).fields = <<>> /\ Immediate(v, FALSE).value = v
BY Zenon DEF Immediate

\* Lists of no and of one element.
LEMMA ShortLists ==
    ASSUME NEW e
    PROVE  /\ [n \in 1 .. 0 |-> e] = <<>> /\ [n \in 1 .. 1 |-> e] = <<e>>
           /\ <<>> \o <<>> = <<>> /\ <<e>> \o <<>> = <<e>> /\ <<>> \o <<e>> = <<e>>
<1>1. [n \in 1 .. 0 |-> e] = <<>>
  OBVIOUS
<1>2. [n \in 1 .. 1 |-> e] = <<e>>
  OBVIOUS
<1>3. <<e>> \in Seq({e}) /\ <<>> \in Seq({e})
  OBVIOUS
<1> QED
  BY <1>1, <1>2, <1>3, ConcatEmptySeq

\* What an expression becomes, with what was parsed and its value.
ExpressionFields(p, at, value) ==
    [n \in 1 .. Cardinality(p.ext) |-> Entry16(CHOOSE w \in p.ext : TRUE, at, value)] \o
    [n \in 1 .. p.relocate_additions |-> Entry16(Null, at, value)]
ExpressionCode(expr, at, p, value) ==
    IF p.error \/ forbid_multilabel_expressions(expr, p) \/ ~(-32768 <= value /\ value < 65536) THEN Refuses
    ELSE [error |-> FALSE, value |-> value % Power(2), negative |-> FALSE, fields |-> ExpressionFields(p, at, value)]

\* A word is filled with these.
LEMMA ExpressionIs ==
    ASSUME NEW expr, NEW at, NEW sect, NEW labels, NEW fields
    PROVE  FillExpression(expr, at, sect, labels, fields) =
                ExpressionCode(expr, at, parse_expression(expr, sect, labels, fields),
                    calculate_expression(expr, parse_expression(expr, sect, labels, fields), sect, labels))
BY DEF FillExpression, ExpressionCode, ExpressionFields

\* It goes so into the code.
LEMMA ExpressedFacts ==
    ASSUME NEW expr, NEW sect, NEW labels, NEW fields, NEW p, p = parse_expression(expr, sect, labels, fields),
           Parsed(expr, sect, labels, fields, p),
           NEW value, value = calculate_expression(expr, p, sect, labels),
           NEW at, NEW code, code = FillExpression(expr, at, sect, labels, fields), ~code.error
    PROVE  Expressed(code, expr, at, p, value)
<1> DEFINE refused == p.error \/ forbid_multilabel_expressions(expr, p) \/ ~(-32768 <= value /\ value < 65536)
           listed == ExpressionFields(p, at, value)
           whole == [error |-> FALSE, value |-> value % Power(2), negative |-> FALSE, fields |-> listed]
<1>0. code = ExpressionCode(expr, at, p, value)
  BY ExpressionIs
<1>1. code = IF refused THEN Refuses ELSE whole
  BY <1>0 DEF ExpressionCode
<1>2. whole.value = value % Power(2) /\ whole.fields = listed
  BY Zenon
<1> HIDE DEF refused, whole
<1>3. ~refused
  BY <1>1, ImmediateFacts, Zenon
<1>4. code.value = value % Power(2) /\ code.fields = listed
  BY <1>1, <1>2, <1>3, Zenon
<1>5. ~p.error /\ ~forbid_multilabel_expressions(expr, p) /\ -32768 <= value /\ value < 65536
  BY <1>3 DEF refused
<1>6. CASE p.ext = {} /\ p.relocate_additions = 0
  <2>1. Cardinality(p.ext) = 0
    BY <1>6, FS_EmptySet
  <2>2. listed = <<>>
    BY <1>6, <2>1, ShortLists DEF ExpressionFields
  <2> QED
    BY <1>4, <1>5, <1>6, <2>2 DEF Expressed
<1>7. CASE p.ext = {} /\ p.relocate_additions = 1
  <2>1. Cardinality(p.ext) = 0
    BY <1>7, FS_EmptySet
  <2>2. listed = [n \in 1 .. 0 |-> Entry16(CHOOSE w \in p.ext : TRUE, at, value)] \o [n \in 1 .. 1 |-> Entry16(Null, at, value)]
    BY <1>7, <2>1 DEF ExpressionFields
  <2>3. listed = <<Entry16(Null, at, value)>>
    BY <2>2, ShortLists
  <2> HIDE DEF listed
  <2> QED
    BY <1>4, <1>5, <1>7, <2>3 DEF Expressed
<1>8. ASSUME NEW w \in p.ext, p.ext = {w}, Times(expr, w) = 1, p.relocate_additions = 0
      PROVE  Expressed(code, expr, at, p, value)
  <2>1. Cardinality(p.ext) = 1 /\ (CHOOSE v \in p.ext : TRUE) = w
    BY <1>8, FS_Singleton
  <2>2. listed = [n \in 1 .. 1 |-> Entry16(w, at, value)] \o [n \in 1 .. 0 |-> Entry16(Null, at, value)]
    BY <1>8, <2>1 DEF ExpressionFields
  <2>3. listed = <<Entry16(w, at, value)>>
    BY <2>2, ShortLists
  <2> HIDE DEF listed
  <2> QED
    BY <1>4, <1>5, <1>8, <2>3 DEF Expressed
<1>9. \/ p.ext = {} /\ p.relocate_additions \in {0, 1}
      \/ \E w \in p.ext : p.ext = {w} /\ Times(expr, w) = 1 /\ p.relocate_additions = 0
  BY <1>5, PermittedFacts
<1> QED
  BY <1>6, <1>7, <1>8, <1>9

\* An entry of two bytes holds its constant.
LEMMA Entry16Facts ==
    ASSUME NEW w \in Labels \cup {Null}, NEW at \in Nat, NEW value \in Int
    PROVE  Entry16(w, at, value) \in HeldField /\ Entry16(w, at, value).label = w
<1>1. Power(2) \in Nat \ {0}
  BY PowerType
<1>2. value % Power(2) \in Nat
  BY <1>1
<1> DEFINE d == value % Power(2)
           full == TRUE
<1>3. full \in BOOLEAN
  OBVIOUS
<1>4. Entry16(w, at, value) = [label |-> w, offset |-> at, start |-> 0, stop |-> 2, data |-> d, lower |-> 0,
                               full |-> full, const |-> d]
  BY Zenon DEF Entry16
<1>5. d \in Nat
  BY <1>2
<1> HIDE DEF d, full
<1>6. Entry16(w, at, value) \in Field
  BY <1>3, <1>4, <1>5 DEF Field
<1>7. HoldsConstant(Entry16(w, at, value)) /\ Entry16(w, at, value).label = w
  BY <1>4 DEF HoldsConstant
<1> QED
  BY <1>6, <1>7 DEF HeldField

\* What a segment that is not refused fills in: with what was parsed and its value.
Factor(seg) == IF seg.negative THEN -1 ELSE 1
FilledSo(code, seg, at, p, value) ==
    /\ Instruction(seg) => at % seg.alignment = 0
    /\ seg.kind = "expression" => Expressed(code, seg.expr, at, p, value)
    /\ Grows(seg) /\ seg.size = 4 => Expressed(code, seg.expr, at + 2, p, value)
    /\ seg.kind = "ldi" /\ seg.size # 4 => code.value = value /\ code.fields = <<>>
    /\ seg.kind \in {"branch", "jsr"} => value % 2 = 0
    /\ seg.kind \in {"branch", "jsr"} /\ seg.size # 4 =>
        /\ code.fields = <<>> /\ code.negative = (value - (at + 2) < 0)
        /\ code.value = ((value - (at + 2)) \div 2) % (IF seg.kind = "jsr" THEN 1024 ELSE 512)
    /\ seg.kind \in {"imm6", "imm6_word", "imm9"} =>
        /\ ~p.error /\ ~Unknown(p) /\ code.fields = <<>>
        /\ seg.kind = "imm6_word" => (value * Factor(seg)) % 2 = 0 /\ code.value = (value * Factor(seg)) \div 2
        /\ seg.kind # "imm6_word" => code.value = value * Factor(seg)
    /\ seg.kind \in {"bytes", "instruction", "padding"} => code.fields = <<>>

\* That it does.
LEMMA FillFacts ==
    ASSUME NEW seg, IsSegment(seg), NEW sect, NEW labels, NEW fields,
           NEW p, p = parse_expression(seg.expr, sect, labels, fields),
           Parsed(seg.expr, sect, labels, fields, p),
           NEW value, value = calculate_expression(seg.expr, p, sect, labels),
           NEW at, NEW code, code = fill(seg, at, sect, labels, fields), ~code.error
    PROVE  FilledSo(code, seg, at, p, value)
<1>1. Instruction(seg) => at % seg.alignment = 0
  <2> SUFFICES ASSUME Instruction(seg) /\ at % seg.alignment # 0 PROVE FALSE
    OBVIOUS
  <2>1. code = Refuses
    BY DEF fill
  <2> QED
    BY <2>1, ImmediateFacts
<1>2. CASE seg.kind = "expression"
  <2>1. code = FillExpression(seg.expr, at, sect, labels, fields)
    BY <1>1, <1>2 DEF fill
  <2>2. Expressed(code, seg.expr, at, p, value)
    BY <2>1, ExpressedFacts
  <2> QED
    BY <1>1, <1>2, <2>2 DEF FilledSo, Grows
<1>3. CASE seg.kind = "ldi"
  <2>1. code = FillLdi(seg, at, sect, labels, fields)
    BY <1>1, <1>3 DEF fill
  <2>2. CASE seg.size = 4
    <3>1. code = FillExpression(seg.expr, at + 2, sect, labels, fields)
      BY <2>1, <2>2 DEF FillLdi
    <3>2. Expressed(code, seg.expr, at + 2, p, value)
      BY <3>1, ExpressedFacts
    <3> QED
      BY <1>1, <1>3, <2>2, <3>2 DEF FilledSo, Grows
  <2>3. CASE seg.size # 4
    <3>1. FillLdi(seg, at, sect, labels, fields) =
            Immediate(calculate_expression(seg.expr, parse_expression(seg.expr, sect, labels, fields), sect, labels), FALSE)
      BY <2>3 DEF FillLdi
    <3>2. code.value = value /\ code.fields = <<>>
      BY <2>1, <3>1, PlainFacts, Zenon
    <3> QED
      BY <1>1, <1>3, <2>3, <3>2 DEF FilledSo, Grows
  <2> QED
    BY <2>2, <2>3
<1>4. CASE seg.kind \in {"branch", "jsr"}
  <2>1. code = FillBranch(seg, at, sect, labels, fields)
    BY <1>1, <1>4 DEF fill
  <2>2. code = IF value % 2 # 0 THEN Refuses
               ELSE IF seg.size = 4 THEN FillExpression(seg.expr, at + 2, sect, labels, fields)
               ELSE ShortBranch(seg, value - (at + 2))
    BY <2>1 DEF FillBranch
  <2>3. value % 2 = 0
    BY <2>2, ImmediateFacts
  <2>4. CASE seg.size = 4
    <3>1. code = FillExpression(seg.expr, at + 2, sect, labels, fields)
      BY <2>2, <2>3, <2>4
    <3>2. Expressed(code, seg.expr, at + 2, p, value)
      BY <3>1, ExpressedFacts
    <3> QED
      BY <1>1, <1>4, <2>3, <2>4, <3>2 DEF FilledSo, Grows
  <2>5. CASE seg.size # 4
    <3>1. code = ShortBranch(seg, value - (at + 2))
      BY <2>2, <2>3, <2>5
    <3> DEFINE v == ((value - (at + 2)) \div 2) % (IF seg.kind = "jsr" THEN 1024 ELSE 512)
               b == value - (at + 2) < 0
    <3>2. code = Immediate(v, b)
      BY <3>1 DEF ShortBranch
    <3> HIDE DEF v, b
    <3>3. code.value = v /\ code.fields = <<>> /\ code.negative = b
      BY <3>2, ImmediateFacts
    <3> QED
      BY <1>1, <1>4, <2>3, <2>5, <3>3 DEF FilledSo, Grows, v, b
  <2> QED
    BY <2>4, <2>5
<1>5. CASE seg.kind \in {"imm6", "imm6_word", "imm9"}
  <2>1. code = FillImmediate(seg, sect, labels, fields)
    BY <1>1, <1>5 DEF fill
  <2> DEFINE v == value * Factor(seg)
             limit == IF seg.kind = "imm9" THEN 512 ELSE 64
             scaled == IF seg.kind = "imm6_word" THEN v \div 2 ELSE v
             refused == \/ p.error \/ Unknown(p)
                        \/ (seg.kind = "imm6_word" /\ v % 2 # 0)
                        \/ ~(-limit <= scaled /\ scaled < limit)
  <2>2. code = IF refused THEN Refuses ELSE Immediate(scaled, FALSE)
    BY <2>1 DEF FillImmediate, Factor
  <2>3. ~refused
    <3> HIDE DEF refused
    <3> QED
      BY <2>2, ImmediateFacts
  <2>4. code = Immediate(scaled, FALSE)
    <3> HIDE DEF refused, scaled
    <3> QED
      BY <2>2, <2>3
  <2>5. code.value = scaled /\ code.fields = <<>>
    <3> HIDE DEF scaled
    <3> QED
      BY <2>4, PlainFacts, Zenon
  <2> HIDE DEF v
  <2> QED
    BY <1>1, <1>5, <2>3, <2>5 DEF FilledSo, Grows, v
<1>6. CASE seg.kind \in {"bytes", "instruction", "padding"}
  <2>1. code = NoCode
    BY <1>1, <1>6 DEF fill
  <2>2. code.fields = <<>>
    BY <2>1, ImmediateFacts
  <2> QED
    BY <1>1, <1>6, <2>2 DEF FilledSo, Grows
<1>7. seg.kind \in Kinds
  BY DEF IsSegment
<1> QED
  BY <1>2, <1>3, <1>4, <1>5, <1>6, <1>7 DEF Kinds

\* Its fields are fields that hold their constants.
LEMMA FieldsFilled ==
    ASSUME NEW seg, IsSegment(seg), NEW sect, sect.exts \subseteq Labels, ValuesFit(sect.labels),
           NEW labels, ValuesFit(labels), NEW fields, FieldsFit(fields),
           NEW at \in Nat, NEW code, code = fill(seg, at, sect, labels, fields), ~code.error
    PROVE  code.fields \in Seq(HeldField)
<1> DEFINE p == parse_expression(seg.expr, sect, labels, fields)
           value == calculate_expression(seg.expr, p, sect, labels)
<1>1. Parsed(seg.expr, sect, labels, fields, p)
  BY ParsedFacts DEF IsSegment
<1>2. FilledSo(code, seg, at, p, value)
  BY <1>1, FillFacts
<1>3. ~p.error => value \in Int
  <2> HIDE DEF p
  <2> QED
    BY <1>1, CalculatedFacts DEF IsSegment
<1> HIDE DEF p, value
<1>4. ASSUME NEW a \in Nat, Expressed(code, seg.expr, a, p, value) PROVE code.fields \in Seq(HeldField)
  <2>1. value \in Int
    BY <1>3, <1>4 DEF Expressed
  <2>2. ASSUME NEW w \in Labels \cup {Null}, code.fields = <<Entry16(w, a, value)>>
        PROVE  code.fields \in Seq(HeldField)
    <3>1. Entry16(w, a, value) \in HeldField
      BY <2>1, Entry16Facts
    <3> HIDE DEF HeldField
    <3> QED
      BY <2>2, <3>1
  <2>3. CASE code.fields = <<>>
    BY <2>3
  <2>4. p.ext \subseteq Labels
    BY <1>1 DEF Parsed
  <2> QED
    BY <1>4, <2>2, <2>3, <2>4 DEF Expressed
<1>5. CASE seg.kind = "expression"
  BY <1>2, <1>4, <1>5 DEF FilledSo
<1>6. CASE Grows(seg) /\ seg.size = 4
  <2>1. at + 2 \in Nat
    OBVIOUS
  <2> QED
    BY <1>2, <1>4, <1>6, <2>1 DEF FilledSo
<1>7. CASE seg.kind # "expression" /\ ~(Grows(seg) /\ seg.size = 4)
  <2>1. seg.kind \in Kinds
    BY DEF IsSegment
  <2>2. code.fields = <<>>
    BY <1>2, <1>7, <2>1 DEF FilledSo, Kinds, Grows
  <2> QED
    BY <2>2
<1> QED
  BY <1>5, <1>6, <1>7

--------------------------------------------------------------------------------
(* The record of a section.                                                     *)

FilledOf(sect, labels, fields) == [i \in 1 .. Len(sect.segments) |-> Filled(sect, i, labels, fields)]

\* Labels are at places of their section.
LEMMA LabelValues ==
    ASSUME NEW sect, SectionInv(sect, FALSE)
    PROVE  ValuesFit(sect.labels) /\ \A w \in DOMAIN sect.labels : sect.labels[w] \in Nat
<1>1. PICK place : Placing(sect, place)
  BY DEF SectionInv
<1>2. IsSection(sect)
  BY DEF SectionInv
<1>3. ASSUME NEW w \in DOMAIN sect.labels PROVE sect.labels[w] \in Nat
  <2>1. sect.labels[w] = place[sect.declared[w]]
    BY <1>1 DEF Placing
  <2>2. sect.declared[w] \in 1 .. Len(sect.segments) + 1
    BY <1>2 DEF IsSection
  <2>3. DOMAIN place = 1 .. Len(sect.segments) + 1
    BY <1>1 DEF Placing
  <2>4. PICK h \in 1 .. sect.declared[w] : place[sect.declared[w]] = Start(sect, h)
    BY <1>1, <2>2, <2>3 DEF Placing
  <2>5. h \in 1 .. Len(sect.segments) + 1
    BY <1>2, <2>2, StartFacts
  <2> QED
    BY <1>2, <2>1, <2>4, <2>5, StartFacts
<1> QED
  BY <1>3 DEF ValuesFit

\* The record of a section that was filled.
LEMMA RecordFacts ==
    ASSUME NEW sect, SectionInv(sect, FALSE), NEW labels, ValuesFit(labels), NEW fields, FieldsFit(fields),
           NEW f, f = FilledOf(sect, labels, fields), \A i \in DOMAIN f : ~f[i].code.error,
           NEW r, r = to_object_section_record(sect, f)
    PROVE  /\ IsAbs(r) /\ Fine(r) /\ r.name = sect.name /\ r.alignment = Alignment(sect)
           /\ sect.name # Abs => IsRel(r)
<1>1. IsSection(sect)
  BY DEF SectionInv
<1>2. /\ Len(sect.segments) \in Nat /\ DOMAIN sect.segments = 1 .. Len(sect.segments)
      /\ \A i \in 1 .. Len(sect.segments) : IsSegment(sect.segments[i])
      /\ \A i \in 1 .. Len(sect.segments) + 1 : Start(sect, i) \in Nat
      /\ Start(sect, 1) = sect.address
      /\ \A i, j \in 1 .. Len(sect.segments) + 1 : i <= j => Start(sect, i) <= Start(sect, j)
  BY <1>1, StartFacts
<1> DEFINE n == Len(sect.segments)
           seqs == [i \in DOMAIN f |-> f[i].code.fields]
<1>3. DOMAIN f = 1 .. n /\ \A i \in 1 .. n : f[i] = Filled(sect, i, labels, fields)
  BY DEF FilledOf
<1>4. sect.exts \subseteq Labels /\ ValuesFit(sect.labels)
  BY <1>1, LabelValues DEF IsSection
<1>5. ASSUME NEW i \in 1 .. n PROVE f[i].code.fields \in Seq(HeldField)
  <2> DEFINE code == fill(sect.segments[i], Start(sect, i), sect, labels, fields)
  <2>1. f[i].code = code
    <3>1. Filled(sect, i, labels, fields).code = code
      BY Zenon DEF Filled
    <3> HIDE DEF code
    <3> QED
      BY <1>3, <3>1, Zenon
  <2>2. ~code.error
    BY <1>3, <2>1
  <2>3. Start(sect, i) \in Nat /\ IsSegment(sect.segments[i])
    BY <1>2
  <2>4. code.fields \in Seq(HeldField)
    BY <1>4, <2>2, <2>3, FieldsFilled
  <2> QED
    BY <2>1, <2>4
<1>6. Flat(seqs) \in Seq(HeldField)
  <2>1. seqs = [i \in 1 .. n |-> seqs[i]] /\ \A i \in 1 .. n : seqs[i] = f[i].code.fields
    BY <1>3
  <2> HIDE DEF seqs
  <2> QED
    BY <1>2, <1>5, <2>1, FlatFacts
<1>7. /\ r.name = sect.name /\ r.address = sect.address /\ r.alignment = Alignment(sect)
      /\ r.size = Start(sect, Len(sect.segments) + 1) - sect.address
      /\ r.entries = [w \in sect.ents |-> sect.labels[w]]
      /\ r.fields = Flat(seqs)
  BY DEF to_object_section_record
<1> HIDE DEF seqs
<1>8. r.size \in Nat
  <2>1. 1 \in 1 .. n + 1 /\ n + 1 \in 1 .. n + 1 /\ 1 <= n + 1
    BY <1>2
  <2> QED
    BY <1>2, <1>7, <2>1
<1>9. r.fields \in Seq(Field) /\ Fine(r)
  <2>1. Len(r.fields) \in Nat /\ DOMAIN r.fields = 1 .. Len(r.fields)
        /\ \A i \in 1 .. Len(r.fields) : r.fields[i] \in HeldField
    <3> HIDE DEF HeldField
    <3> QED
      BY <1>6, <1>7
  <2>2. r.fields \in Seq(Field)
    <3>1. HeldField \subseteq Field
      BY DEF HeldField
    <3> HIDE DEF HeldField
    <3> QED
      BY <1>6, <1>7, <3>1
  <2> QED
    BY <2>1, <2>2 DEF Fine, Range, HeldField
<1>10. DOMAIN r.entries \subseteq Labels /\ r.entries \in [DOMAIN r.entries -> Nat]
  <2>1. sect.ents \subseteq Labels \cap DOMAIN sect.labels
    BY <1>1 DEF IsSection
  <2>2. \A w \in sect.ents : sect.labels[w] \in Nat
    BY <2>1, LabelValues
  <2> QED
    BY <1>7, <2>1, <2>2
<1>11. IsAbs(r)
  <2>1. r.address \in Nat
    BY <1>1, <1>7 DEF IsSection
  <2> QED
    BY <1>8, <1>9, <1>10, <2>1 DEF IsAbs, IsRecord
<1>12. sect.name # Abs => IsRel(r)
  <2>1. r.alignment \in Nat \ {0}
    BY <1>1, <1>7, AlignmentFacts
  <2>2. sect.name # Abs => r.name \in Names
    BY <1>1, <1>7 DEF IsSection
  <2> QED
    BY <1>11, <2>1, <2>2 DEF IsAbs, IsRel
<1> QED
  BY <1>7, <1>9, <1>11, <1>12

--------------------------------------------------------------------------------
(* The relocatable sections of the module.                                      *)

\* The sections before n of the same name.
Before(z, s, n) == {r \in 1 .. n : z[r].name = z[s].name}

\* What the sections up to m are joined to.
JoinedUpto(z, recs, m, list) ==
    /\ IsSequence(list)
    /\ \A n \in DOMAIN list : /\ RelSect(list[n])
                              /\ \E s \in 1 .. m : z[s].name # Abs /\ list[n].name = z[s].name
    /\ \A n, k \in DOMAIN list : list[n].name = list[k].name => n = k
    /\ \A s \in 1 .. m : z[s].name # Abs => \E n \in DOMAIN list :
        /\ list[n].name = z[s].name /\ Len(list[n].parts) = Cardinality(Before(z, s, m))
        /\ list[n].parts[Cardinality(Before(z, s, s - 1)) + 1].alignment = recs[s].alignment

\* Sections before one are finitely many, and one more with the next of the name.
LEMMA BeforeFacts ==
    ASSUME NEW z, NEW s, NEW n \in Nat
    PROVE  /\ IsFiniteSet(Before(z, s, n)) /\ Cardinality(Before(z, s, n)) \in Nat
           /\ z[n + 1].name = z[s].name => Cardinality(Before(z, s, n + 1)) = Cardinality(Before(z, s, n)) + 1
           /\ z[n + 1].name # z[s].name => Before(z, s, n + 1) = Before(z, s, n)
<1>1. IsFiniteSet(1 .. n) /\ Before(z, s, n) \in SUBSET (1 .. n)
  BY FS_Interval DEF Before
<1>2. IsFiniteSet(Before(z, s, n)) /\ Cardinality(Before(z, s, n)) \in Nat
  BY <1>1, FS_Subset, FS_CardinalityType
<1>3. \A r : r \in 1 .. n + 1 <=> r \in 1 .. n \/ r = n + 1
  OBVIOUS
<1>4. ASSUME z[n + 1].name = z[s].name
      PROVE  Cardinality(Before(z, s, n + 1)) = Cardinality(Before(z, s, n)) + 1
  <2>1. Before(z, s, n + 1) = Before(z, s, n) \cup {n + 1}
    BY <1>3, <1>4 DEF Before
  <2>2. n + 1 \notin Before(z, s, n)
    BY DEF Before
  <2> QED
    BY <1>2, <2>1, <2>2, FS_AddElement
<1>5. z[n + 1].name # z[s].name => Before(z, s, n + 1) = Before(z, s, n)
  BY <1>3 DEF Before
<1> QED
  BY <1>2, <1>4, <1>5

\* A section joins those before it.
LEMMA JoinedWith ==
    ASSUME NEW z, NEW recs, NEW m \in Nat, NEW list, JoinedUpto(z, recs, m, list),
           z[m + 1].name # Abs => IsRel(recs[m + 1]) /\ Fine(recs[m + 1]),
           recs[m + 1].name = z[m + 1].name
    PROVE  JoinedUpto(z, recs, m + 1, IF z[m + 1].name = Abs THEN list ELSE WithSection(list, recs[m + 1]))
<1> DEFINE p == recs[m + 1]
           w == z[m + 1].name
<1>1. \A s : s \in 1 .. m + 1 <=> s \in 1 .. m \/ s = m + 1
  OBVIOUS
<1>2. \A n \in DOMAIN list : \E s \in 1 .. m : z[s].name # Abs /\ list[n].name = z[s].name
  BY DEF JoinedUpto
<1>3. CASE w = Abs
  <2>1. \A s \in 1 .. m : z[s].name # Abs => Before(z, s, m + 1) = Before(z, s, m)
    BY <1>3, BeforeFacts
  <2>2. \A s \in 1 .. m + 1 : z[s].name # Abs => s \in 1 .. m
    BY <1>1, <1>3
  <2>3. \A n \in DOMAIN list : RelSect(list[n]) /\ \E s \in 1 .. m + 1 : z[s].name # Abs /\ list[n].name = z[s].name
    BY <1>1 DEF JoinedUpto
  <2>4. JoinedUpto(z, recs, m + 1, list)
    BY <2>1, <2>2, <2>3 DEF JoinedUpto
  <2> QED
    BY <1>3, <2>4
<1>4. CASE w # Abs
  <2> DEFINE same == {n \in DOMAIN list : list[n].name = p.name}
             new == WithSection(list, p)
             b == Before(z, m + 1, m)
  <2>1. IsRel(p) /\ Fine(p) /\ p.name = w /\ p.alignment \in Nat \ {0}
    BY <1>4 DEF IsRel
  <2>2. /\ Len(list) \in Nat /\ DOMAIN list = 1 .. Len(list) /\ IsSequence(list)
        /\ list = [n \in 1 .. Len(list) |-> list[n]] /\ list \in Seq(Range(list))
    BY SequenceFacts DEF JoinedUpto, IsSequence
  <2>3. IsFiniteSet(b) /\ Cardinality(b) \in Nat /\ Cardinality(Before(z, m + 1, m + 1)) = Cardinality(b) + 1
    BY BeforeFacts
  <2>4. ASSUME NEW k \in Nat, IsSequence(new), k \in DOMAIN new, \A n \in DOMAIN list : n \in DOMAIN new,
               \A n \in DOMAIN new : n # k => n \in DOMAIN list /\ new[n] = list[n],
               RelSect(new[k]), new[k].name = w, Len(new[k].parts) = Cardinality(b) + 1,
               new[k].parts[Cardinality(b) + 1].alignment = p.alignment,
               k \in DOMAIN list => /\ list[k].name = w /\ Len(list[k].parts) = Cardinality(b)
                                    /\ \A i \in 1 .. Cardinality(b) : new[k].parts[i] = list[k].parts[i],
               \A n \in DOMAIN list : n # k => list[n].name # w,
               k \notin DOMAIN list => \A s \in 1 .. m : z[s].name # w
        PROVE  JoinedUpto(z, recs, m + 1, new)
    <3> HIDE DEF new, b
    <3>1. \A n \in DOMAIN new : RelSect(new[n]) /\ \E s \in 1 .. m + 1 : z[s].name # Abs /\ new[n].name = z[s].name
      <4> SUFFICES ASSUME NEW n \in DOMAIN new
                   PROVE  RelSect(new[n]) /\ \E s \in 1 .. m + 1 : z[s].name # Abs /\ new[n].name = z[s].name
        OBVIOUS
      <4>1. CASE n = k
        BY <1>1, <1>4, <2>4, <4>1
      <4>2. CASE n # k
        BY <1>1, <2>4, <4>2 DEF JoinedUpto
      <4> QED
        BY <4>1, <4>2
    <3>2. \A n, j \in DOMAIN new : new[n].name = new[j].name => n = j
      <4> SUFFICES ASSUME NEW n \in DOMAIN new, NEW j \in DOMAIN new, new[n].name = new[j].name, n # j PROVE FALSE
        OBVIOUS
      <4>1. CASE n # k /\ j # k
        BY <2>4, <4>1 DEF JoinedUpto
      <4>2. CASE n = k \/ j = k
        BY <2>4, <4>2
      <4> QED
        BY <4>1, <4>2
    <3>3. ASSUME NEW s \in 1 .. m + 1, z[s].name # Abs
          PROVE  \E n \in DOMAIN new :
                    /\ new[n].name = z[s].name /\ Len(new[n].parts) = Cardinality(Before(z, s, m + 1))
                    /\ new[n].parts[Cardinality(Before(z, s, s - 1)) + 1].alignment = recs[s].alignment
      <4>1. CASE s = m + 1
        <5>1. (m + 1) - 1 = m
          OBVIOUS
        <5>2. Before(z, s, s - 1) = b
          BY <4>1, <5>1 DEF b
        <5> QED
          BY <2>3, <2>4, <4>1, <5>2
      <4>2. CASE s \in 1 .. m
        <5>1. PICK n \in DOMAIN list :
                /\ list[n].name = z[s].name /\ Len(list[n].parts) = Cardinality(Before(z, s, m))
                /\ list[n].parts[Cardinality(Before(z, s, s - 1)) + 1].alignment = recs[s].alignment
          BY <3>3, <4>2 DEF JoinedUpto
        <5>2. CASE n = k
          <6>1. z[s].name = w
            BY <2>4, <5>1, <5>2
          <6>2. Before(z, s, m) = b /\ Before(z, s, m + 1) = Before(z, m + 1, m + 1)
            BY <6>1 DEF Before, b
          <6>3. Cardinality(Before(z, s, s - 1)) + 1 \in 1 .. Cardinality(b)
            <7>1. s - 1 \in Nat /\ s - 1 + 1 = s /\ z[s - 1 + 1].name = z[s].name
              BY <4>2
            <7>2. /\ Cardinality(Before(z, s, s - 1)) \in Nat
                  /\ Cardinality(Before(z, s, s)) = Cardinality(Before(z, s, s - 1)) + 1
              BY <7>1, BeforeFacts
            <7>3. Before(z, s, s) \in SUBSET b
              BY <4>2, <6>1 DEF Before, b
            <7>4. Cardinality(Before(z, s, s)) <= Cardinality(b)
              BY <2>3, <7>3, FS_Subset
            <7> QED
              BY <2>3, <7>2, <7>4
          <6>4. new[k].parts[Cardinality(Before(z, s, s - 1)) + 1].alignment = recs[s].alignment
            BY <2>4, <5>1, <5>2, <6>3
          <6> QED
            BY <2>3, <2>4, <6>1, <6>2, <6>4
        <5>3. CASE n # k
          <6>1. z[s].name # w
            BY <2>4, <5>1, <5>3
          <6>2. Before(z, s, m + 1) = Before(z, s, m)
            BY <6>1, BeforeFacts
          <6> QED
            BY <2>4, <5>1, <5>3, <6>2
        <5> QED
          BY <5>2, <5>3
      <4> QED
        BY <1>1, <3>3, <4>1, <4>2
    <3> QED
      BY <2>4, <3>1, <3>2, <3>3 DEF JoinedUpto
  <2>5. CASE same = {}
    <3>1. new = Append(list, First(p))
      BY <2>5 DEF WithSection
    <3>2. \A n \in DOMAIN list : list[n].name # w
      BY <2>1, <2>5
    <3>3. \A s \in 1 .. m : z[s].name # w
      BY <1>4, <3>2 DEF JoinedUpto
    <3>4. b = {} /\ Cardinality(b) = 0
      BY <3>3, FS_EmptySet DEF Before
    <3>5. RelSect(First(p)) /\ First(p).name = w
      BY <2>1, FirstProperties
    <3>6. Len(First(p).parts) = 1 /\ First(p).parts[1].alignment = p.alignment
      BY DEF First
    <3> DEFINE k == Len(list) + 1
    <3>7. IsSequence(new) /\ DOMAIN new = 1 .. k /\ new[k] = First(p) /\ \A n \in DOMAIN list : new[n] = list[n]
      <4>1. IsSequence(Append(list, First(p)))
        BY <2>2, ListAppend DEF IsSequence
      <4>2. list \in Seq(Range(list) \cup {First(p)})
        BY <2>2
      <4>3. /\ Len(Append(list, First(p))) = Len(list) + 1
            /\ Append(list, First(p))[Len(list) + 1] = First(p)
            /\ \A n \in 1 .. Len(list) : Append(list, First(p))[n] = list[n]
        BY <2>2
      <4> QED
        BY <2>2, <3>1, <4>1, <4>3, SequenceFacts
    <3>8. k \in Nat /\ k \in 1 .. k /\ k \notin DOMAIN list /\ \A n \in 1 .. k : n # k => n \in DOMAIN list
      BY <2>2
    <3> HIDE DEF new, b, p
    <3>9. JoinedUpto(z, recs, m + 1, new)
      <4> HIDE DEF k
      <4>1. /\ IsSequence(new) /\ k \in DOMAIN new /\ \A n \in DOMAIN list : n \in DOMAIN new
            /\ \A n \in DOMAIN new : n # k => n \in DOMAIN list /\ new[n] = list[n]
        <5>1. \A n \in DOMAIN list : n \in 1 .. k
          BY <2>2 DEF k
        <5> QED
          BY <3>7, <3>8, <5>1
      <4>2. /\ RelSect(new[k]) /\ new[k].name = w /\ Len(new[k].parts) = Cardinality(b) + 1
            /\ new[k].parts[Cardinality(b) + 1].alignment = p.alignment
        <5>1. new[k] = First(p) /\ Cardinality(b) + 1 = 1
          BY <3>4, <3>7
        <5> QED
          BY <3>5, <3>6, <5>1
      <4> QED
        BY <2>4, <3>2, <3>3, <3>8, <4>1, <4>2
    <3> QED
      BY <1>4, <3>9 DEF new, p
  <2>6. CASE same # {}
    <3> DEFINE k == CHOOSE n \in same : TRUE
    <3>1. k \in same
      BY <2>6
    <3>2. new = [list EXCEPT ![k] = Joined(list[k], p)]
      BY <2>6 DEF WithSection
    <3>3. k \in DOMAIN list /\ list[k].name = w /\ RelSect(list[k])
      BY <2>1, <3>1 DEF JoinedUpto
    <3> HIDE DEF k
    <3>4. \A n \in DOMAIN list : n # k => list[n].name # w
      BY <3>3 DEF JoinedUpto
    <3>5. RelSect(Joined(list[k], p)) /\ Joined(list[k], p).name = w
      BY <2>1, <3>3, JoinedProperties
    <3>6. PICK s \in 1 .. m : z[s].name # Abs /\ list[k].name = z[s].name
      BY <1>2, <3>3
    <3>7. Len(list[k].parts) = Cardinality(b)
      <4>1. PICK n \in DOMAIN list : list[n].name = z[s].name /\ Len(list[n].parts) = Cardinality(Before(z, s, m))
        BY <3>6 DEF JoinedUpto
      <4>2. n = k
        BY <3>3, <3>4, <3>6, <4>1
      <4>3. Before(z, s, m) = b
        BY <3>3, <3>6 DEF Before
      <4> QED
        BY <4>1, <4>2, <4>3
    <3>8. /\ Len(Joined(list[k], p).parts) = Cardinality(b) + 1
          /\ Joined(list[k], p).parts[Cardinality(b) + 1].alignment = p.alignment
          /\ \A i \in 1 .. Cardinality(b) : Joined(list[k], p).parts[i] = list[k].parts[i]
      <4> DEFINE part == [offset |-> RoundUp(list[k].size, p.alignment), size |-> p.size, alignment |-> p.alignment]
                 parts == list[k].parts
      <4>1. Joined(list[k], p).parts = Append(parts, part) /\ part.alignment = p.alignment
        BY DEF Joined
      <4>2. parts \in Seq(Part)
        BY <3>3 DEF RelSect, IsJoined, Part
      <4>3. Len(parts) = Cardinality(b)
        BY <3>7
      <4> HIDE DEF part, parts, b
      <4>4. /\ Len(Append(parts, part)) = Len(parts) + 1 /\ Append(parts, part)[Len(parts) + 1] = part
            /\ \A i \in 1 .. Len(parts) : Append(parts, part)[i] = parts[i]
        BY <4>2
      <4> QED
        BY <4>1, <4>3, <4>4 DEF parts
    <3>9. IsSequence(new) /\ DOMAIN new = DOMAIN list /\ new[k] = Joined(list[k], p)
          /\ \A n \in DOMAIN list : n # k => new[n] = list[n]
      <4>1. new = [n \in 1 .. Len(list) |-> new[n]]
        BY <2>2, <3>2
      <4>2. IsSequence(new)
        BY <2>2, <4>1, FunctionIsSequence
      <4> QED
        BY <3>2, <3>3, <4>2
    <3>10. k \in Nat
      BY <2>2, <3>3
    <3> HIDE DEF new, b, p
    <3>11. JoinedUpto(z, recs, m + 1, new)
      <4>1. /\ IsSequence(new) /\ k \in DOMAIN new /\ \A n \in DOMAIN list : n \in DOMAIN new
            /\ \A n \in DOMAIN new : n # k => n \in DOMAIN list /\ new[n] = list[n]
        BY <3>3, <3>9
      <4>2. /\ RelSect(new[k]) /\ new[k].name = w /\ Len(new[k].parts) = Cardinality(b) + 1
            /\ new[k].parts[Cardinality(b) + 1].alignment = p.alignment
        BY <3>5, <3>8, <3>9
      <4>3. \A i \in 1 .. Cardinality(b) : new[k].parts[i] = list[k].parts[i]
        BY <3>8, <3>9
      <4> QED
        BY <2>4, <3>3, <3>4, <3>7, <3>10, <4>1, <4>2, <4>3
    <3> QED
      BY <1>4, <3>11 DEF new, p
  <2> QED
    BY <2>5, <2>6
<1> QED
  BY <1>3, <1>4

\* The joined sections after each of the sections.
Joining(z, recs, m, g) ==
    g = [n \in 0 .. m |-> IF n = 0 THEN <<>> ELSE IF z[n].name = Abs THEN g[n - 1]
                                                  ELSE WithSection(g[n - 1], recs[n])]

\* Before any section nothing is joined.
LEMMA JoinedNone ==
    ASSUME NEW z, NEW recs
    PROVE  JoinedUpto(z, recs, 0, <<>>)
<1>1. IsSequence(<<>>) /\ DOMAIN <<>> = {} /\ 1 .. 0 = {}
  BY EmptySeq DEF IsSequence
<1> QED
  BY <1>1 DEF JoinedUpto

\* All sections of a name are joined, each piece with the alignment of its section.
LEMMA JoiningFacts ==
    ASSUME NEW z, NEW recs, NEW n \in Nat,
           \A s \in 1 .. n : recs[s].name = z[s].name /\ (z[s].name # Abs => IsRel(recs[s]) /\ Fine(recs[s]))
    PROVE  JoinedUpto(z, recs, n, (CHOOSE g : Joining(z, recs, n, g))[n])
<1> DEFINE No == {m \in Nat : m <= n /\ ~ \E g : Joining(z, recs, m, g)}
<1>1. ASSUME No # {} PROVE FALSE
  <2>1. PICK m \in No : \A k \in No : m <= k
    BY <1>1, LeastNumber
  <2>2. m # 0
    <3> DEFINE g == [i \in 0 .. 0 |-> <<>>]
    <3>1. Joining(z, recs, 0, g)
      BY DEF Joining
    <3> QED
      BY <3>1
  <2>3. m \in Nat /\ m <= n
    OBVIOUS
  <2>4. m - 1 \in Nat /\ m - 1 <= n /\ ~ (m <= m - 1)
    BY <2>2, <2>3
  <2>5. m - 1 \notin No
    <3> HIDE DEF No
    <3> QED
      BY <2>1, <2>4
  <2>6. PICK g : Joining(z, recs, m - 1, g)
    BY <2>4, <2>5
  <2> DEFINE Body(f, i) == IF i = 0 THEN <<>> ELSE IF z[i].name = Abs THEN f[i - 1] ELSE WithSection(f[i - 1], recs[i])
             h == [i \in 0 .. m |-> Body(g, i)]
  <2>7. \A i \in 0 .. m - 1 : h[i] = g[i]
    <3>1. \A i \in 0 .. m - 1 : g[i] = Body(g, i)
      <4> HIDE DEF h, No
      <4> QED
        BY <2>6 DEF Joining
    <3>2. \A i \in 0 .. m - 1 : i \in 0 .. m
      BY <2>3
    <3>3. \A i \in 0 .. m : h[i] = Body(g, i)
      OBVIOUS
    <3> HIDE DEF h, No, Body
    <3> QED
      BY <3>1, <3>2, <3>3
  <2>8. \A i \in 0 .. m : i # 0 => i - 1 \in 0 .. m - 1
    BY <2>3
  <2>9. Joining(z, recs, m, h)
    <3>1. \A i \in 0 .. m : Body(h, i) = Body(g, i)
      <4> HIDE DEF h
      <4> QED
        BY <2>7, <2>8
    <3>2. h = [i \in 0 .. m |-> Body(h, i)]
      <4>1. h = [i \in 0 .. m |-> Body(g, i)]
        OBVIOUS
      <4> HIDE DEF h, Body
      <4> QED
        BY <3>1, <4>1
    <3> HIDE DEF h
    <3> QED
      BY <3>2 DEF Joining
  <2>10. ~ \E k : Joining(z, recs, m, k)
    OBVIOUS
  <2> HIDE DEF h, No
  <2> QED
    BY <2>9, <2>10
<1>2. \E g : Joining(z, recs, n, g)
  <2>1. n \in Nat /\ n <= n /\ n \notin No
    <3> HIDE DEF No
    <3> QED
      BY <1>1
  <2> QED
    BY <2>1
<1> DEFINE g == CHOOSE f : Joining(z, recs, n, f)
<1>3. Joining(z, recs, n, g)
  BY <1>2
<1> HIDE DEF g
<1>4. \A i \in 0 .. n : g[i] = IF i = 0 THEN <<>> ELSE IF z[i].name = Abs THEN g[i - 1]
                                                       ELSE WithSection(g[i - 1], recs[i])
  BY <1>3 DEF Joining
<1> DEFINE Bad == {i \in Nat : i \in 0 .. n /\ ~JoinedUpto(z, recs, i, g[i])}
<1>5. ASSUME Bad # {} PROVE FALSE
  <2>1. PICK i \in Bad : \A k \in Bad : i <= k
    BY <1>5, LeastNumber
  <2>2. i \in 0 .. n /\ ~JoinedUpto(z, recs, i, g[i])
    OBVIOUS
  <2>3. i # 0
    <3>1. 0 \in 0 .. n
      OBVIOUS
    <3>2. g[0] = <<>>
      BY <1>4, <3>1
    <3> QED
      BY <2>2, <3>2, JoinedNone
  <2>4. i - 1 \in Nat /\ i - 1 \in 0 .. n /\ ~ (i <= i - 1) /\ i \in 1 .. n /\ (i - 1) + 1 = i
    BY <2>2, <2>3
  <2>5. i - 1 \notin Bad
    <3> HIDE DEF Bad
    <3> QED
      BY <2>1, <2>4
  <2>6. JoinedUpto(z, recs, i - 1, g[i - 1])
    BY <2>4, <2>5
  <2>7. JoinedUpto(z, recs, i, IF z[i].name = Abs THEN g[i - 1] ELSE WithSection(g[i - 1], recs[i]))
    <3>1. recs[i].name = z[i].name /\ (z[i].name # Abs => IsRel(recs[i]) /\ Fine(recs[i]))
      BY <2>4
    <3> DEFINE k == i - 1
    <3>2. k \in Nat /\ k + 1 = i
      BY <2>4
    <3>3. JoinedUpto(z, recs, k, g[k])
      BY <2>6
    <3> HIDE DEF k
    <3>4. JoinedUpto(z, recs, k + 1, IF z[k + 1].name = Abs THEN g[k] ELSE WithSection(g[k], recs[k + 1]))
      BY <3>1, <3>2, <3>3, JoinedWith
    <3>5. k = i - 1
      BY DEF k
    <3> QED
      BY <3>2, <3>4, <3>5
  <2>8. g[i] = IF z[i].name = Abs THEN g[i - 1] ELSE WithSection(g[i - 1], recs[i])
    BY <1>4, <2>2, <2>3
  <2> QED
    BY <2>2, <2>7, <2>8
<1>6. n \in 0 .. n
  OBVIOUS
<1>7. JoinedUpto(z, recs, n, g[n])
  BY <1>5, <1>6
<1> QED
  BY <1>7 DEF g

\* What the module's sections are.
LEMMA ConcatIs ==
    concat_rsects = (CHOOSE g : Joining(sects, Records, Len(sects), g))[Len(sects)]
BY Zenon DEF concat_rsects, Joining, IsAbsolute

--------------------------------------------------------------------------------
(* The labels of all absolute sections.                                         *)

\* A set of indices has a greatest.
LEMMA MaxFacts ==
    ASSUME NEW n \in Nat, NEW S, S \subseteq 1 .. n, S # {}
    PROVE  Max(S) \in S /\ \A i \in S : i <= Max(S)
<1> DEFINE T == {n - i : i \in S}
<1>1. T \subseteq Nat /\ T # {}
  <2>1. \A i \in S : i \in Nat /\ n - i \in Nat
    OBVIOUS
  <2>2. PICK i \in S : TRUE
    OBVIOUS
  <2>3. n - i \in T
    OBVIOUS
  <2> QED
    BY <2>1, <2>3
<1>2. PICK m \in T : \A k \in T : m <= k
  <2> HIDE DEF T
  <2> QED
    BY <1>1, LeastNumber
<1>3. PICK i \in S : m = n - i
  OBVIOUS
<1>4. \A k \in S : i >= k
  <2> SUFFICES ASSUME NEW k \in S PROVE i >= k
    OBVIOUS
  <2>1. n - k \in T
    OBVIOUS
  <2>2. m <= n - k
    BY <1>2, <2>1
  <2> QED
    BY <1>3, <2>2
<1>5. \E j \in S : \A k \in S : j >= k
  BY <1>4
<1>6. Max(S) \in S /\ \A k \in S : Max(S) >= k
  BY <1>5 DEF Max
<1> QED
  BY <1>6

AbsIn(z) == {s \in DOMAIN z : z[s].name = Abs}
HoldersOf(z, S, w) == {s \in S : w \in DOMAIN z[s].labels}
GatherIn(z, S) ==
    [w \in Labels \cap UNION {DOMAIN z[s].labels : s \in S} |-> z[Max(HoldersOf(z, S, w))].labels[w]]

\* So does gather_local_labels.
LEMMA GatherIs ==
    ASSUME NEW S
    PROVE  gather_local_labels(S) = GatherIn(sects, S) /\ Absolutes = AbsIn(sects)
<1>1. gather_local_labels(S) = GatherIn(sects, S)
  BY Zenon DEF gather_local_labels, GatherIn, HoldersOf
<1> QED
  BY <1>1, Zenon DEF Absolutes, AbsIn, IsAbsolute

\* A label has its place in one of the sections.
PlacedIn(z, S, w, s) == w \in DOMAIN z[s].labels /\ GatherIn(z, S)[w] = z[s].labels[w]

\* The labels of the sections of a set.
LEMMA GatherFacts ==
    ASSUME NEW z, NEW n \in Nat, NEW S, S \subseteq 1 .. n
    PROVE  /\ \A w : w \in DOMAIN GatherIn(z, S) <=> w \in Labels /\ \E s \in S : w \in DOMAIN z[s].labels
           /\ \A w \in DOMAIN GatherIn(z, S) : \E s \in S : PlacedIn(z, S, w, s)
<1>1. \A w : w \in DOMAIN GatherIn(z, S) <=> w \in Labels /\ \E s \in S : w \in DOMAIN z[s].labels
  BY DEF GatherIn
<1>2. ASSUME NEW w \in DOMAIN GatherIn(z, S)
      PROVE  \E s \in S : PlacedIn(z, S, w, s)
  <2> DEFINE H == HoldersOf(z, S, w)
  <2>1. H # {} /\ H \subseteq 1 .. n
    BY <1>1 DEF HoldersOf
  <2>2. Max(H) \in H
    BY <2>1, MaxFacts
  <2>3. GatherIn(z, S)[w] = z[Max(H)].labels[w]
    BY DEF GatherIn
  <2>4. Max(H) \in S /\ w \in DOMAIN z[Max(H)].labels
    BY <2>2 DEF HoldersOf
  <2> QED
    BY <2>3, <2>4 DEF PlacedIn
<1> QED
  BY <1>1, <1>2

\* Labels that are numbers stay so.
LEMMA GatherFits ==
    ASSUME NEW z, NEW n \in Nat, NEW S, S \subseteq 1 .. n, \A s \in S : ValuesFit(z[s].labels)
    PROVE  ValuesFit(GatherIn(z, S))
<1> SUFFICES ASSUME NEW w \in DOMAIN GatherIn(z, S) PROVE GatherIn(z, S)[w] \in Int
  BY DEF ValuesFit
<1>1. PICK s \in S : PlacedIn(z, S, w, s)
  BY GatherFacts
<1> QED
  BY <1>1 DEF PlacedIn, ValuesFit

\* Nothing else of the sections matters.
LEMMA GatherSame ==
    ASSUME NEW z, NEW y, NEW n \in Nat, NEW S, S \subseteq 1 .. n, \A s \in S : y[s].labels = z[s].labels
    PROVE  GatherIn(y, S) = GatherIn(z, S)
<1>1. Labels \cap UNION {DOMAIN y[s].labels : s \in S} = Labels \cap UNION {DOMAIN z[s].labels : s \in S}
  OBVIOUS
<1>2. \A w : HoldersOf(y, S, w) = HoldersOf(z, S, w)
  BY DEF HoldersOf
<1>3. ASSUME NEW w \in Labels \cap UNION {DOMAIN z[s].labels : s \in S}
      PROVE  y[Max(HoldersOf(y, S, w))].labels[w] = z[Max(HoldersOf(z, S, w))].labels[w]
  <2>1. HoldersOf(z, S, w) # {} /\ HoldersOf(z, S, w) \subseteq 1 .. n
    BY DEF HoldersOf
  <2>2. Max(HoldersOf(z, S, w)) \in HoldersOf(z, S, w)
    BY <2>1, MaxFacts
  <2>3. Max(HoldersOf(z, S, w)) \in S
    BY <2>2 DEF HoldersOf
  <2> QED
    BY <1>2, <2>3
<1> QED
  BY <1>1, <1>3, Zenon DEF GatherIn

\* No label stands in two absolute sections.
OnceIn(z) ==
    \A r, s \in AbsIn(z) : DOMAIN z[r].labels \cap DOMAIN z[s].labels \cap Labels # {} => r = s

\* Then the gathered labels are those of the sections.
LEMMA GatherOnce ==
    ASSUME NEW z, NEW n \in Nat, AbsIn(z) \subseteq 1 .. n, OnceIn(z), NEW labels,
           labels = [w \in DOMAIN GatherIn(z, AbsIn(z)) |-> labels[w]]
    PROVE  labels = GatherIn(z, AbsIn(z)) <=>
                \A s \in AbsIn(z) : \A w \in Labels \cap DOMAIN z[s].labels : labels[w] = z[s].labels[w]
<1> DEFINE G == GatherIn(z, AbsIn(z))
           S == AbsIn(z)
<1>1. \A s \in S : \A w \in Labels \cap DOMAIN z[s].labels : w \in DOMAIN G /\ G[w] = z[s].labels[w]
  <2> SUFFICES ASSUME NEW s \in S, NEW w \in Labels \cap DOMAIN z[s].labels
               PROVE  w \in DOMAIN G /\ G[w] = z[s].labels[w]
    OBVIOUS
  <2>1. w \in DOMAIN G
    BY GatherFacts
  <2>2. PICK r \in S : w \in DOMAIN z[r].labels /\ G[w] = z[r].labels[w]
    BY <2>1, GatherFacts DEF PlacedIn
  <2>3. r = s
    BY <2>2 DEF OnceIn
  <2> QED
    BY <2>1, <2>2, <2>3
<1>2. G = [w \in DOMAIN G |-> G[w]]
  BY DEF GatherIn
<1>3. \A w \in DOMAIN G : \E s \in S : w \in Labels \cap DOMAIN z[s].labels /\ G[w] = z[s].labels[w]
  <2> SUFFICES ASSUME NEW w \in DOMAIN G
               PROVE  \E s \in S : w \in Labels \cap DOMAIN z[s].labels /\ G[w] = z[s].labels[w]
    OBVIOUS
  <2>1. PICK s \in S : PlacedIn(z, S, w, s)
    BY GatherFacts
  <2>2. w \in Labels
    BY DEF GatherIn
  <2> QED
    BY <2>1, <2>2 DEF PlacedIn
<1> HIDE DEF G, S
<1>4. ASSUME labels = G, NEW s \in S, NEW w \in Labels \cap DOMAIN z[s].labels
      PROVE  labels[w] = z[s].labels[w]
  BY <1>1, <1>4
<1>5. ASSUME \A s \in S : \A w \in Labels \cap DOMAIN z[s].labels : labels[w] = z[s].labels[w]
      PROVE  labels = G
  <2>1. \A w \in DOMAIN G : labels[w] = G[w]
    BY <1>1, <1>3, <1>5
  <2>2. labels = [w \in DOMAIN G |-> labels[w]]
    BY DEF G, S
  <2> QED
    BY <1>2, <2>1, <2>2, Zenon
<1> QED
  BY <1>4, <1>5 DEF G, S

--------------------------------------------------------------------------------
(* What a segment that did not grow has found out.                              *)

ParsedIn(seg, sect, labels, fields) == parse_expression(seg.expr, sect, labels, fields)
ValueIn(seg, sect, labels, fields) ==
    calculate_expression(seg.expr, ParsedIn(seg, sect, labels, fields), sect, labels)

ToOne(seg) == seg.expr.sub = <<>> /\ Len(seg.expr.add) + Len(seg.expr.fields) <= 1
ShortLdi(seg, sect, labels, fields) ==
    ~ParsedIn(seg, sect, labels, fields).error /\ ~Unknown(ParsedIn(seg, sect, labels, fields))
ShortBranchTo(seg, sect, labels, fields) ==
    /\ ~ParsedIn(seg, sect, labels, fields).error /\ ParsedIn(seg, sect, labels, fields).ext = {}
    /\ sect.name # Abs => ParsedIn(seg, sect, labels, fields).asect = {}
Reaches(seg, sect, labels, fields) == InReach(ValueIn(seg, sect, labels, fields) - seg.pos - 2)

BranchOrCall(seg) == seg.kind \in {"branch", "jsr"}
Chosen(seg, sect, labels, fields) ==
    /\ seg.kind = "ldi" /\ ~seg.locked => ShortLdi(seg, sect, labels, fields)
    /\ BranchOrCall(seg) => ToOne(seg)
    /\ BranchOrCall(seg) /\ ~seg.locked =>
        ShortBranchTo(seg, sect, labels, fields) /\ Reaches(seg, sect, labels, fields)

\* The results of an update tell them apart.
LEMMA ResultFacts ==
    ASSUME NEW seg
    PROVE  /\ Invalid(seg).error /\ Grown(seg).shift = 2 /\ Unchanged(seg).shift = 0
           /\ Unchanged(seg).seg = seg
<1>1. Invalid(seg).error
  BY Zenon DEF Invalid
<1>2. Grown(seg).shift = 2 /\ Unchanged(seg).shift = 0
  BY DEF Grown, Unchanged
<1>3. Unchanged(seg).seg = seg
  BY Zenon DEF Unchanged
<1> QED
  BY <1>1, <1>2, <1>3

\* A branch or call that is asked and not refused names one label at most.
LEMMA ToOneAsked ==
    ASSUME NEW seg, IsSegment(seg), BranchOrCall(seg), NEW sect, NEW labels, NEW fields, ~seg.locked,
           ~update_length(seg, sect, labels, fields).error
    PROVE  ToOne(seg)
<1> DEFINE r == update_length(seg, sect, labels, fields)
           parsed == parse_expression(seg.expr, sect, labels, fields)
           value == calculate_expression(seg.expr, parsed, sect, labels)
           refused == parsed.error \/ seg.expr.sub # <<>> \/ Len(seg.expr.add) + Len(seg.expr.fields) > 1
           bad == parsed.ext # {} \/ ((parsed.asect # {} \/ IsConst(seg.expr)) /\ sect.name # Abs)
           far == bad \/ ~InReach(value - seg.pos - 2)
<1>1. r = BranchLength(seg, sect, labels, fields)
  BY DEF update_length, BranchOrCall
<1>2. BranchLength(seg, sect, labels, fields) =
        IF seg.locked THEN Unchanged(seg) ELSE IF refused THEN Invalid(seg)
        ELSE IF far THEN Grown(seg) ELSE Unchanged(seg)
  BY Zenon DEF BranchLength
<1>3. ~r.error /\ Invalid(seg).error
  BY ResultFacts
<1>4. ~refused
  <2> HIDE DEF r, refused, far
  <2> QED
    BY <1>1, <1>2, <1>3, Zenon
<1>5. seg.expr.sub = <<>> /\ ~(Len(seg.expr.add) + Len(seg.expr.fields) > 1)
  BY <1>4
<1>6. Len(seg.expr.add) \in Nat /\ Len(seg.expr.fields) \in Nat
  BY SequenceFacts DEF IsSegment, IsExpression
<1>7. Len(seg.expr.add) + Len(seg.expr.fields) <= 1
  <2> DEFINE a == Len(seg.expr.add)
             b == Len(seg.expr.fields)
  <2>1. ~(a + b > 1) /\ a \in Nat /\ b \in Nat
    BY <1>5, <1>6
  <2> HIDE DEF a, b
  <2>2. a + b <= 1
    BY <2>1
  <2> QED
    BY <2>2 DEF a, b
<1> QED
  BY <1>5, <1>7, Zenon DEF ToOne

\* A segment that is asked and stays as it is, does so for this reason.
LEMMA ChosenAnswer ==
    ASSUME NEW seg, IsSegment(seg), Varying(seg), NEW sect, NEW labels, NEW fields,
           BranchOrCall(seg) /\ seg.locked => ToOne(seg),
           ~update_length(seg, sect, labels, fields).error, update_length(seg, sect, labels, fields).shift = 0
    PROVE  Chosen(seg, sect, labels, fields)
<1> DEFINE r == update_length(seg, sect, labels, fields)
           parsed == ParsedIn(seg, sect, labels, fields)
           value == ValueIn(seg, sect, labels, fields)
<1>1. ~r.error /\ r.shift = 0 /\ Invalid(seg).error /\ Grown(seg).shift = 2
  BY ResultFacts
<1>2. ASSUME seg.kind = "ldi", ~seg.locked
      PROVE  ShortLdi(seg, sect, labels, fields)
  <2> DEFINE refused == parsed.error \/ forbid_multilabel_expressions(seg.expr, parsed)
             far == Unknown(parsed) \/ ~(-64 <= value /\ value < 64)
  <2>1. r = LdiLength(seg, sect, labels, fields)
    BY <1>2 DEF update_length
  <2>2. LdiLength(seg, sect, labels, fields) =
          IF seg.locked THEN Unchanged(seg) ELSE IF refused THEN Invalid(seg)
          ELSE IF far THEN Grown(seg) ELSE Unchanged(seg)
    BY Zenon DEF LdiLength, ParsedIn, ValueIn
  <2>3. 2 # 0
    OBVIOUS
  <2>4. ~refused /\ ~far
    <3> HIDE DEF r, refused, far
    <3> QED
      BY <1>1, <1>2, <2>1, <2>2, <2>3, Zenon
  <2> QED
    BY <2>4 DEF ShortLdi
<1>3. ASSUME BranchOrCall(seg), ~seg.locked
      PROVE  ShortBranchTo(seg, sect, labels, fields) /\ Reaches(seg, sect, labels, fields)
  <2> DEFINE refused == parsed.error \/ seg.expr.sub # <<>> \/ Len(seg.expr.add) + Len(seg.expr.fields) > 1
             bad == parsed.ext # {} \/ ((parsed.asect # {} \/ IsConst(seg.expr)) /\ sect.name # Abs)
             far == bad \/ ~InReach(value - seg.pos - 2)
  <2>1. r = BranchLength(seg, sect, labels, fields)
    BY <1>3 DEF update_length, BranchOrCall
  <2>2. BranchLength(seg, sect, labels, fields) =
          IF seg.locked THEN Unchanged(seg) ELSE IF refused THEN Invalid(seg)
          ELSE IF far THEN Grown(seg) ELSE Unchanged(seg)
    BY Zenon DEF BranchLength, ParsedIn, ValueIn
  <2>3. 2 # 0
    OBVIOUS
  <2>4. ~refused /\ ~far
    <3> HIDE DEF r, refused, far
    <3> QED
      BY <1>1, <1>3, <2>1, <2>2, <2>3, Zenon
  <2> HIDE DEF parsed, value
  <2>5. ~parsed.error /\ parsed.ext = {} /\ (sect.name # Abs => parsed.asect = {}) /\ InReach(value - seg.pos - 2)
    BY <2>4
  <2> QED
    BY <2>5 DEF ShortBranchTo, Reaches, parsed, value
<1>4. ASSUME BranchOrCall(seg) PROVE ToOne(seg)
  BY <1>1, <1>4, ToOneAsked
<1> QED
  BY <1>2, <1>3, <1>4 DEF Chosen

\* Only the labels, the external names and the kind of the section matter, and of the
\* segment what it is to say and where it is.
LEMMA ChosenSame ==
    ASSUME NEW sect, NEW new, new.labels = sect.labels, new.exts = sect.exts, new.name = sect.name,
           NEW seg, NEW now, now.kind = seg.kind, now.expr = seg.expr, now.locked = seg.locked,
           now.pos = seg.pos, NEW labels, NEW fields, Chosen(seg, sect, labels, fields)
    PROVE  Chosen(now, new, labels, fields)
<1>1. \A expr : parse_expression(expr, new, labels, fields) = parse_expression(expr, sect, labels, fields)
  BY Zenon DEF parse_expression
<1>2. \A w : LabelValue(w, new, labels) = LabelValue(w, sect, labels)
  BY DEF LabelValue
<1>3. \A expr, p : calculate_expression(expr, p, new, labels) = calculate_expression(expr, p, sect, labels)
  BY <1>2 DEF calculate_expression
<1>4. ParsedIn(now, new, labels, fields) = ParsedIn(seg, sect, labels, fields)
  BY <1>1 DEF ParsedIn
<1>5. ValueIn(now, new, labels, fields) = ValueIn(seg, sect, labels, fields)
  BY <1>3, <1>4 DEF ValueIn
<1>6. ShortLdi(now, new, labels, fields) <=> ShortLdi(seg, sect, labels, fields)
  BY <1>4 DEF ShortLdi
<1>7. ShortBranchTo(now, new, labels, fields) <=> ShortBranchTo(seg, sect, labels, fields)
  BY <1>4 DEF ShortBranchTo
<1>8. Reaches(now, new, labels, fields) <=> Reaches(seg, sect, labels, fields)
  BY <1>5 DEF Reaches
<1>9. ToOne(now) <=> ToOne(seg)
  BY DEF ToOne
<1> QED
  BY <1>6, <1>7, <1>8, <1>9 DEF Chosen, BranchOrCall

\* A segment that stays as it is leaves its section as it is.
LEMMA AskedSame ==
    ASSUME NEW sect, IsSection(sect), NEW a \in DOMAIN sect.segments, NEW r, Answers(sect.segments[a], r),
           r.shift = 0, NEW new, AskedFrom(sect, a, r, new)
    PROVE  /\ new.labels = sect.labels /\ new.exts = sect.exts /\ new.name = sect.name
           /\ \A i \in DOMAIN sect.segments :
                /\ new.segments[i].kind = sect.segments[i].kind /\ new.segments[i].expr = sect.segments[i].expr
                /\ Varying(sect.segments[i]) => new.segments[i].pos = sect.segments[i].pos
                /\ Grows(sect.segments[i]) => new.segments[i].locked = sect.segments[i].locked
<1>1. IsSection(new) /\ DOMAIN new.labels = DOMAIN sect.labels /\ new.exts = sect.exts /\ new.name = sect.name
  BY DEF AskedFrom
<1>2. /\ sect.labels = [w \in DOMAIN sect.labels |-> sect.labels[w]]
      /\ new.labels = [w \in DOMAIN new.labels |-> new.labels[w]]
      /\ \A w \in DOMAIN sect.labels : sect.labels[w] \in Int
  BY <1>1 DEF IsSection
<1>3. \A w \in DOMAIN sect.labels : new.labels[w] = sect.labels[w]
  BY <1>2 DEF AskedFrom, MovedTo
<1>4. new.labels = sect.labels
  BY <1>1, <1>2, <1>3, Zenon
<1>5. ASSUME NEW i \in DOMAIN sect.segments
      PROVE  /\ new.segments[i].kind = sect.segments[i].kind /\ new.segments[i].expr = sect.segments[i].expr
             /\ Varying(sect.segments[i]) => new.segments[i].pos = sect.segments[i].pos
             /\ Grows(sect.segments[i]) => new.segments[i].locked = sect.segments[i].locked
  <2>1. /\ new.segments[i].kind = sect.segments[i].kind /\ new.segments[i].expr = sect.segments[i].expr
        /\ Varying(sect.segments[i]) =>
             new.segments[i].pos = MovedTo(sect.segments[i].pos, sect.segments[a].pos, r.shift)
        /\ i # a => new.segments[i].locked = sect.segments[i].locked
        /\ new.segments[a].locked = r.seg.locked
    BY DEF AskedFrom
  <2>2. IsSegment(sect.segments[i]) /\ IsSegment(sect.segments[a])
    BY StartFacts
  <2>3. Varying(sect.segments[i]) => new.segments[i].pos = sect.segments[i].pos
    BY <2>1, <2>2 DEF MovedTo, IsSegment
  <2>4. ASSUME Grows(sect.segments[a]) PROVE r.seg.locked = sect.segments[a].locked
    <3> DEFINE seg == sect.segments[a]
               new_seg == r.seg
    <3>1. IsSegment(new_seg) /\ IsSegment(seg) /\ new_seg.size = seg.size + 0 /\ new_seg.kind = seg.kind
      BY <2>2 DEF Answers, Alike
    <3> HIDE DEF seg, new_seg
    <3>2. seg.size = IF seg.locked THEN 4 ELSE 2
      BY <2>4, <3>1 DEF IsSegment, Grows, seg
    <3>3. new_seg.size = IF new_seg.locked THEN 4 ELSE 2
      BY <2>4, <3>1 DEF IsSegment, Grows, seg
    <3>4. new_seg.locked \in BOOLEAN /\ seg.locked \in BOOLEAN
      BY <3>1 DEF IsSegment
    <3>5. new_seg.size = seg.size
      BY <3>1 DEF IsSegment
    <3>6. new_seg.locked <=> seg.locked
      BY <3>2, <3>3, <3>5
    <3> QED
      BY <3>4, <3>6, Zenon DEF seg, new_seg
  <2>5. CASE i = a
    BY <2>1, <2>3, <2>4, <2>5
  <2>6. CASE i # a
    BY <2>1, <2>3, <2>6
  <2> QED
    BY <2>5, <2>6
<1> QED
  BY <1>1, <1>4, <1>5

\* What is known besides stays too.
KnownAfter(labels, sect, pos, d) ==
    [w \in DOMAIN labels |-> IF w \in DOMAIN sect.labels /\ sect.labels[w] > pos THEN labels[w] + d ELSE labels[w]]

\* Nothing moves by nothing.
LEMMA KnownSame ==
    ASSUME NEW labels, ValuesFit(labels), labels = [w \in DOMAIN labels |-> labels[w]], NEW sect, NEW pos
    PROVE  KnownAfter(labels, sect, pos, 0) = labels
<1>1. \A w \in DOMAIN labels : labels[w] + 0 = labels[w]
  BY DEF ValuesFit
<1>2. KnownAfter(labels, sect, pos, 0) = [w \in DOMAIN labels |-> labels[w]]
  BY <1>1 DEF KnownAfter
<1> QED
  BY <1>2

\* What is known stays what it is.
LEMMA KnownFits ==
    ASSUME NEW labels, ValuesFit(labels), NEW sect, NEW pos, NEW d \in Int,
           NEW after, after = KnownAfter(labels, sect, pos, d)
    PROVE  /\ ValuesFit(after) /\ DOMAIN after = DOMAIN labels
           /\ after = [w \in DOMAIN after |-> after[w]]
<1>1. \A w \in DOMAIN labels : after[w] = labels[w] \/ after[w] = labels[w] + d
  BY DEF KnownAfter
<1> QED
  BY <1>1 DEF ValuesFit, KnownAfter

FinalLabels(z) == GatherIn(z, AbsIn(z))
KnownExact(labels, z) == labels = FinalLabels(z)

\* The labels of the absolute sections are known exactly while they are updated, if none
\* of them stands in two.
LEMMA KnownAsked ==
    ASSUME NEW z, NEW n \in Nat, DOMAIN z = 1 .. n, OnceIn(z), NEW s \in AbsIn(z), IsSection(z[s]),
           NEW a, NEW r, NEW y, AskedFrom(z[s], a, r, y[s]),
           DOMAIN y = DOMAIN z, \A q \in DOMAIN z : q # s => y[q] = z[q],
           NEW labels, KnownExact(labels, z),
           NEW after, after = KnownAfter(labels, z[s], z[s].segments[a].pos, r.shift)
    PROVE  KnownExact(after, y) /\ OnceIn(y)
<1>0. labels = GatherIn(z, AbsIn(z))
  BY DEF KnownExact, FinalLabels
<1>2. s \in DOMAIN z
  BY DEF AbsIn
<1>1. DOMAIN y = DOMAIN z /\ \A q \in DOMAIN z : q # s => y[q] = z[q]
  OBVIOUS
<1>3. \A q \in DOMAIN z : y[q].name = z[q].name /\ DOMAIN y[q].labels = DOMAIN z[q].labels
  BY <1>1 DEF AskedFrom
<1>4. AbsIn(y) = AbsIn(z)
  BY <1>1, <1>3 DEF AbsIn
<1>5. AbsIn(z) \subseteq 1 .. n
  BY DEF AbsIn
<1>6. OnceIn(y)
  BY <1>3, <1>4 DEF OnceIn, AbsIn
<1>7. DOMAIN GatherIn(y, AbsIn(y)) = DOMAIN GatherIn(z, AbsIn(z))
  <2> DEFINE S == AbsIn(z)
  <2>1. \A q \in S : DOMAIN y[q].labels = DOMAIN z[q].labels
    BY <1>3 DEF AbsIn
  <2> HIDE DEF S
  <2>2. UNION {DOMAIN y[q].labels : q \in S} = UNION {DOMAIN z[q].labels : q \in S}
    BY <2>1
  <2>3. /\ DOMAIN GatherIn(y, S) = Labels \cap UNION {DOMAIN y[q].labels : q \in S}
        /\ DOMAIN GatherIn(z, S) = Labels \cap UNION {DOMAIN z[q].labels : q \in S}
    BY DEF GatherIn
  <2> QED
    BY <1>4, <2>2, <2>3 DEF S
<1>8. after = [w \in DOMAIN GatherIn(y, AbsIn(y)) |-> after[w]]
  BY <1>0, <1>7 DEF KnownAfter
<1>9. \A q \in AbsIn(z) : \A w \in Labels \cap DOMAIN z[q].labels : labels[w] = z[q].labels[w] /\ w \in DOMAIN labels
  <2> DEFINE S == AbsIn(z)
             G == GatherIn(z, S)
  <2>1. G = [w \in DOMAIN G |-> G[w]]
    BY DEF GatherIn
  <2>2. \A q \in S : \A w \in Labels \cap DOMAIN z[q].labels : G[w] = z[q].labels[w]
    BY <1>5, <2>1, GatherOnce
  <2>3. \A q \in S : \A w \in Labels \cap DOMAIN z[q].labels : w \in DOMAIN G
    BY DEF GatherIn
  <2>4. labels = G
    BY <1>0
  <2> HIDE DEF G, S
  <2> QED
    BY <2>2, <2>3, <2>4 DEF S
<1>10. ASSUME NEW q \in AbsIn(y), NEW w \in Labels \cap DOMAIN y[q].labels
       PROVE  after[w] = y[q].labels[w]
  <2>1. q \in AbsIn(z) /\ w \in Labels \cap DOMAIN z[q].labels /\ q \in DOMAIN z
    BY <1>3, <1>4, <1>10 DEF AbsIn
  <2>2. labels[w] = z[q].labels[w] /\ w \in DOMAIN labels
    BY <1>9, <2>1
  <2>3. after[w] = IF w \in DOMAIN z[s].labels /\ z[s].labels[w] > z[s].segments[a].pos
                   THEN labels[w] + r.shift ELSE labels[w]
    BY <2>2 DEF KnownAfter
  <2>4. CASE q = s
    <3>1. y[s].labels[w] = MovedTo(z[s].labels[w], z[s].segments[a].pos, r.shift)
      BY <2>1, <2>4 DEF AskedFrom
    <3> QED
      BY <1>1, <1>2, <2>1, <2>2, <2>3, <2>4, <3>1 DEF MovedTo
  <2>5. CASE q # s
    <3>1. w \notin DOMAIN z[s].labels
      BY <2>1, <2>5 DEF OnceIn
    <3> QED
      BY <1>1, <2>1, <2>2, <2>3, <2>5, <3>1
  <2> QED
    BY <2>4, <2>5
<1>11. after = GatherIn(y, AbsIn(y))
  <2>1. AbsIn(y) \subseteq 1 .. n
    BY <1>4, <1>5
  <2>2. after = GatherIn(y, AbsIn(y)) <=>
          \A q \in AbsIn(y) : \A w \in Labels \cap DOMAIN y[q].labels : after[w] = y[q].labels[w]
    BY <1>6, <1>8, <2>1, GatherOnce
  <2> QED
    BY <1>10, <2>2, Zenon
<1> QED
  BY <1>6, <1>11 DEF KnownExact, FinalLabels

\* What a segment of a relocatable section has found out holds whatever the labels of
\* other sections are, as long as they are there.
LEMMA ChosenElsewhere ==
    ASSUME NEW seg, NEW sect, sect.name # Abs, NEW labels, NEW others, NEW fields,
           DOMAIN labels \subseteq DOMAIN sect.labels \cup DOMAIN others,
           Chosen(seg, sect, labels, fields)
    PROVE  Chosen(seg, sect, others, fields)
<1> DEFINE expr == seg.expr
           p == parse_expression(expr, sect, labels, fields)
           q == parse_expression(expr, sect, others, fields)
           found == {i \in DOMAIN expr.fields : FieldKnown(Dotted[expr.fields[i]], fields)}
           Size == [i \in found |-> fields[Dotted[expr.fields[i]].template][Dotted[expr.fields[i]].field]]
           rel == IF sect.name = Abs THEN {} ELSE UsedIn(expr) \cap OwnOf(sect)
           additions == SumFunctionOnSet([w \in rel |-> Times(expr, w)], rel)
           wrong == expr.byte # "" \/ found # DOMAIN expr.fields
<1>1. /\ p.value = expr.const + SumFunctionOnSet(Size, found)
      /\ p.ext = UsedIn(expr) \cap sect.exts /\ p.rel = rel /\ p.relocate_additions = additions
      /\ p.asect = UsedIn(expr) \ (sect.exts \cup rel)
      /\ p.error <=> (wrong \/ ~(TermsOf(expr) \subseteq sect.exts \cup OwnOf(sect) \cup DOMAIN labels))
  BY DEF parse_expression, UsedIn, OwnOf
<1>2. /\ q.value = expr.const + SumFunctionOnSet(Size, found)
      /\ q.ext = UsedIn(expr) \cap sect.exts /\ q.rel = rel /\ q.relocate_additions = additions
      /\ q.asect = UsedIn(expr) \ (sect.exts \cup rel)
      /\ q.error <=> (wrong \/ ~(TermsOf(expr) \subseteq sect.exts \cup OwnOf(sect) \cup DOMAIN others))
  BY DEF parse_expression, UsedIn, OwnOf
<1>3. rel \subseteq DOMAIN sect.labels
  BY DEF OwnOf
<1>4. p = ParsedIn(seg, sect, labels, fields) /\ q = ParsedIn(seg, sect, others, fields)
  BY Zenon DEF ParsedIn
<1> HIDE DEF p, q, found, Size, rel, additions, wrong
<1>5. q.value = p.value /\ q.ext = p.ext /\ q.rel = p.rel /\ q.asect = p.asect
      /\ q.relocate_additions = p.relocate_additions
  BY <1>1, <1>2
<1>6. ~p.error => ~q.error
  BY <1>1, <1>2 DEF OwnOf
<1>7. Unknown(q) <=> Unknown(p)
  BY <1>5 DEF Unknown
<1>8. ASSUME p.asect = {}
      PROVE  calculate_expression(expr, q, sect, others) = calculate_expression(expr, p, sect, labels)
  <2> DEFINE S == p.asect \cup p.rel
             F == [w \in S |-> Times(expr, w) * LabelValue(w, sect, labels)]
             H == [w \in S |-> Times(expr, w) * LabelValue(w, sect, others)]
  <2>1. \A w \in S : LabelValue(w, sect, others) = LabelValue(w, sect, labels)
    BY <1>1, <1>3, <1>8 DEF LabelValue
  <2>2. F = H
    BY <2>1
  <2>3. calculate_expression(expr, p, sect, labels) = p.value + SumFunctionOnSet(F, S)
    BY Zenon DEF calculate_expression
  <2>4. calculate_expression(expr, q, sect, others) = p.value + SumFunctionOnSet(H, S)
    BY <1>5, Zenon DEF calculate_expression
  <2> QED
    BY <2>2, <2>3, <2>4, Zenon
<1>9. ShortLdi(seg, sect, labels, fields) => ShortLdi(seg, sect, others, fields)
  BY <1>4, <1>6, <1>7 DEF ShortLdi
<1>10. ShortBranchTo(seg, sect, labels, fields) => ShortBranchTo(seg, sect, others, fields)
  BY <1>4, <1>5, <1>6 DEF ShortBranchTo
<1>11. ShortBranchTo(seg, sect, labels, fields) /\ Reaches(seg, sect, labels, fields) => Reaches(seg, sect, others, fields)
  <2> SUFFICES ASSUME ShortBranchTo(seg, sect, labels, fields), Reaches(seg, sect, labels, fields)
               PROVE  Reaches(seg, sect, others, fields)
    OBVIOUS
  <2>1. p.asect = {}
    BY <1>4 DEF ShortBranchTo
  <2>2. ValueIn(seg, sect, others, fields) = ValueIn(seg, sect, labels, fields)
    BY <1>4, <1>8, <2>1, Zenon DEF ValueIn, expr
  <2> QED
    BY <2>2 DEF Reaches
<1> QED
  BY <1>9, <1>10, <1>11 DEF Chosen

--------------------------------------------------------------------------------
(* Sections whose lengths are found.                                            *)

\* Its segments of varying length know where they are, paddings fit, and what has not
\* grown had no reason to.
SettledIn(z, s, fields) ==
    /\ z[s].regrown \/ \A i \in DOMAIN z[s].segments :
            Varying(z[s].segments[i]) => z[s].segments[i].pos = Start(z[s], i)
    /\ \A i \in DOMAIN z[s].segments : z[s].segments[i].kind = "padding" => Fits(z[s].segments[i])
    /\ OnceIn(z) => \A i \in DOMAIN z[s].segments :
            Varying(z[s].segments[i]) => Chosen(z[s].segments[i], z[s], FinalLabels(z), fields)

\* While the labels of absolute sections stay, the final labels are the same.
LEMMA FinalSame ==
    ASSUME NEW z, NEW y, NEW n \in Nat, DOMAIN z = 1 .. n, DOMAIN y = DOMAIN z,
           \A q \in DOMAIN z : y[q].name = z[q].name,
           \A q \in AbsIn(z) : y[q].labels = z[q].labels
    PROVE  AbsIn(y) = AbsIn(z) /\ FinalLabels(y) = FinalLabels(z) /\ (OnceIn(y) <=> OnceIn(z))
<1>1. AbsIn(y) = AbsIn(z) /\ AbsIn(z) \subseteq 1 .. n
  BY DEF AbsIn
<1>2. GatherIn(y, AbsIn(z)) = GatherIn(z, AbsIn(z))
  <2> DEFINE S == AbsIn(z)
  <2>1. S \subseteq 1 .. n /\ \A q \in S : y[q].labels = z[q].labels
    BY <1>1
  <2> HIDE DEF S
  <2>2. GatherIn(y, S) = GatherIn(z, S)
    BY <2>1, GatherSame
  <2> QED
    BY <2>2 DEF S
<1>3. OnceIn(y) <=> OnceIn(z)
  BY <1>1 DEF OnceIn
<1> QED
  BY <1>1, <1>2, <1>3 DEF FinalLabels

\* A section that is left alone remains settled.
LEMMA SettledKept ==
    ASSUME NEW z, NEW y, NEW s, NEW fields, y[s] = z[s], FinalLabels(y) = FinalLabels(z),
           OnceIn(y) <=> OnceIn(z), SettledIn(z, s, fields)
    PROVE  SettledIn(y, s, fields)
BY Zenon DEF SettledIn

\* A section under update is settled when every segment found no reason to change.
LEMMA SettledNow ==
    ASSUME NEW z, NEW s, SectionInv(z[s], TRUE), NEW labels, NEW fields,
           \A i \in DOMAIN z[s].segments : z[s].segments[i].kind = "padding" => Fits(z[s].segments[i]),
           \A i \in DOMAIN z[s].segments :
                Varying(z[s].segments[i]) => Chosen(z[s].segments[i], z[s], labels, fields),
           OnceIn(z) => labels = FinalLabels(z) \/
                (z[s].name # Abs /\ DOMAIN labels \subseteq DOMAIN z[s].labels \cup DOMAIN FinalLabels(z))
    PROVE  SettledIn(z, s, fields)
<1>1. ASSUME ~z[s].regrown, NEW i \in DOMAIN z[s].segments, Varying(z[s].segments[i])
      PROVE  z[s].segments[i].pos = Start(z[s], i)
  <2>1. PICK place : Placing(z[s], place) /\ PosAt(z[s], place)
    BY DEF SectionInv
  <2>2. z[s].segments[i].pos = place[i]
    BY <1>1, <2>1 DEF PosAt
  <2>3. IsSection(z[s])
    BY DEF SectionInv
  <2>4. i \in 1 .. Len(z[s].segments) + 1
    BY <2>3, StartFacts
  <2>5. place[i] = Start(z[s], i)
    BY <1>1, <2>1, <2>4 DEF Placing
  <2> QED
    BY <2>2, <2>5
<1>2. ASSUME OnceIn(z), NEW i \in DOMAIN z[s].segments, Varying(z[s].segments[i])
      PROVE  Chosen(z[s].segments[i], z[s], FinalLabels(z), fields)
  <2>1. Chosen(z[s].segments[i], z[s], labels, fields)
    BY <1>2
  <2>2. CASE labels = FinalLabels(z)
    BY <2>1, <2>2
  <2>3. CASE z[s].name # Abs /\ DOMAIN labels \subseteq DOMAIN z[s].labels \cup DOMAIN FinalLabels(z)
    BY <2>1, <2>3, ChosenElsewhere
  <2> QED
    BY <1>2, <2>2, <2>3
<1> QED
  BY <1>1, <1>2 DEF SettledIn

\* The search begins: labels, names and what the segments say stay.
LEMMA BeginMore ==
    ASSUME SectsInv, NEW S, S \subseteq DOMAIN sects, Begin(S)
    PROVE  /\ known' = Overlay(GatherIn(sects, S), GatherIn(sects, AbsIn(sects) \ S))
           /\ DOMAIN sects' = DOMAIN sects
           /\ \A s \in DOMAIN sects :
                /\ sects'[s].name = sects[s].name /\ sects'[s].labels = sects[s].labels
                /\ sects'[s].exts = sects[s].exts /\ DOMAIN sects'[s].segments = DOMAIN sects[s].segments
                /\ \A i \in DOMAIN sects[s].segments :
                     /\ sects'[s].segments[i].kind = sects[s].segments[i].kind
                     /\ sects'[s].segments[i].locked = sects[s].segments[i].locked
                     /\ sects'[s].segments[i].expr = sects[s].segments[i].expr
                /\ s \notin S => sects'[s] = sects[s]
<1>1. /\ sects' = [s \in DOMAIN sects |-> IF s \in S THEN Positioned(sects[s]) ELSE sects[s]]
      /\ known' = Overlay(gather_local_labels(S), gather_local_labels(Absolutes \ S))
  BY DEF Begin
<1>2. known' = Overlay(GatherIn(sects, S), GatherIn(sects, AbsIn(sects) \ S))
  <2>1. /\ gather_local_labels(S) = GatherIn(sects, S) /\ Absolutes = AbsIn(sects)
        /\ gather_local_labels(Absolutes \ S) = GatherIn(sects, Absolutes \ S)
    BY GatherIs
  <2> QED
    BY <1>1, <2>1, Zenon
<1>3. ASSUME NEW s \in DOMAIN sects
      PROVE  /\ sects'[s].name = sects[s].name /\ sects'[s].labels = sects[s].labels
             /\ sects'[s].exts = sects[s].exts /\ DOMAIN sects'[s].segments = DOMAIN sects[s].segments
             /\ \A i \in DOMAIN sects[s].segments :
                  /\ sects'[s].segments[i].kind = sects[s].segments[i].kind
                  /\ sects'[s].segments[i].locked = sects[s].segments[i].locked
                  /\ sects'[s].segments[i].expr = sects[s].segments[i].expr
             /\ s \notin S => sects'[s] = sects[s]
  <2>1. CASE s \in S
    <3>1. sects'[s] = Positioned(sects[s])
      BY <1>1, <2>1
    <3>2. IsSection(sects[s])
      BY DEF SectsInv, SectionInv
    <3>3. /\ Positioned(sects[s]).name = sects[s].name /\ Positioned(sects[s]).labels = sects[s].labels
          /\ Positioned(sects[s]).exts = sects[s].exts
          /\ DOMAIN Positioned(sects[s]).segments = DOMAIN sects[s].segments
          /\ \A i \in DOMAIN sects[s].segments :
               /\ Positioned(sects[s]).segments[i].kind = sects[s].segments[i].kind
               /\ Positioned(sects[s]).segments[i].locked = sects[s].segments[i].locked
               /\ Positioned(sects[s]).segments[i].expr = sects[s].segments[i].expr
      BY <3>2, PositionedFacts
    <3> QED
      BY <2>1, <3>1, <3>3
  <2>2. CASE s \notin S
    BY <1>1, <2>2
  <2> QED
    BY <2>1, <2>2
<1>4. DOMAIN sects' = DOMAIN sects
  BY <1>1
<1> QED
  BY <1>2, <1>3, <1>4

--------------------------------------------------------------------------------
(* What the update has found out.                                               *)

\* A locked branch or call names one label at most.
ToOneInv ==
    \A s \in DOMAIN sects : \A i \in DOMAIN sects[s].segments :
        BranchOrCall(sects[s].segments[i]) /\ sects[s].segments[i].locked => ToOne(sects[s].segments[i])

\* What is known of the labels of other sections.
KnownInv ==
    /\ group # {} => ValuesFit(known) /\ known = [w \in DOMAIN known |-> known[w]]
    /\ stage = "absolute" /\ group # {} /\ OnceIn(sects) => known = FinalLabels(sects)
    /\ stage = "relocatable" => \A s \in group :
        /\ sects[s].name # Abs
        /\ DOMAIN known \subseteq DOMAIN sects[s].labels \cup DOMAIN FinalLabels(sects)

\* While nothing has changed in this pass, what was asked had no reason to.
AskedInv ==
    ~changed => \A f \in VaryIn(sects, group) \ entry :
        Chosen(SegmentAt(sects, f), sects[f[1]], known, templates)

\* The sections whose lengths are found.
Finished ==
    IF stage \in {"fill", "done"} THEN DOMAIN sects
    ELSE IF stage = "relocatable" THEN (Absolutes \cup 1 .. Top) \ group ELSE {}
DoneInv == \A s \in Finished : s \in DOMAIN sects => SettledIn(sects, s, templates)

ChooseInv == FieldsFit(templates) /\ ToOneInv /\ KnownInv /\ AskedInv /\ DoneInv

\* At the beginning there is nothing to know.
LEMMA ChooseInit == Init => ChooseInv
<1> SUFFICES ASSUME Init PROVE ChooseInv
  OBVIOUS
<1>1. sects = <<>> /\ group = {} /\ entry = {} /\ stage = "macros" /\ templates = <<>>
  BY DEF Init
<1>2. DOMAIN sects = {} /\ DOMAIN templates = {}
  BY <1>1
<1>3. VaryIn(sects, group) = {}
  BY <1>1 DEF VaryIn
<1>4. Finished = {}
  BY <1>1 DEF Finished
<1> QED
  BY <1>1, <1>2, <1>3, <1>4 DEF ChooseInv, FieldsFit, ToOneInv, KnownInv, AskedInv, DoneInv

\* A section that the update leaves is settled.
LEMMA LeftSettled ==
    ASSUME UpdateInv, PassInv, ChooseInv, entry = {}, ~changed, stage \in {"absolute", "relocatable"},
           NEW s \in group
    PROVE  s \in DOMAIN sects /\ SettledIn(sects, s, templates)
<1>1. s \in DOMAIN sects /\ SectionInv(sects[s], TRUE)
  BY DEF UpdateInv, SectsInv
<1>2. ASSUME NEW i \in DOMAIN sects[s].segments, Varying(sects[s].segments[i])
      PROVE  /\ <<s, i>> \in VaryIn(sects, group)
             /\ SegmentAt(sects, <<s, i>>) = sects[s].segments[i] /\ <<s, i>>[1] = s
  BY <1>2, VaryInFacts DEF SegmentAt
<1>3. \A i \in DOMAIN sects[s].segments :
        sects[s].segments[i].kind = "padding" => Fits(sects[s].segments[i])
  <2> SUFFICES ASSUME NEW i \in DOMAIN sects[s].segments, sects[s].segments[i].kind = "padding"
               PROVE  Fits(sects[s].segments[i])
    OBVIOUS
  <2>1. Varying(sects[s].segments[i])
    BY DEF Varying
  <2>2. <<s, i>> \in VaryIn(sects, group) /\ SegmentAt(sects, <<s, i>>) = sects[s].segments[i]
    BY <1>2, <2>1
  <2>3. <<s, i>> \notin entry
    OBVIOUS
  <2> QED
    BY <2>2, <2>3 DEF PassInv
<1>4. \A i \in DOMAIN sects[s].segments : Varying(sects[s].segments[i]) =>
        Chosen(sects[s].segments[i], sects[s], known, templates)
  <2> SUFFICES ASSUME NEW i \in DOMAIN sects[s].segments, Varying(sects[s].segments[i])
               PROVE  Chosen(sects[s].segments[i], sects[s], known, templates)
    OBVIOUS
  <2>1. <<s, i>> \in VaryIn(sects, group) \ entry /\ SegmentAt(sects, <<s, i>>) = sects[s].segments[i]
        /\ <<s, i>>[1] = s
    BY <1>2
  <2>2. Chosen(SegmentAt(sects, <<s, i>>), sects[<<s, i>>[1]], known, templates)
    BY <2>1 DEF ChooseInv, AskedInv
  <2> QED
    BY <2>1, <2>2
<1>5. OnceIn(sects) => known = FinalLabels(sects) \/
        (sects[s].name # Abs /\ DOMAIN known \subseteq DOMAIN sects[s].labels \cup DOMAIN FinalLabels(sects))
  BY DEF ChooseInv, KnownInv
<1> QED
  BY <1>1, <1>3, <1>4, <1>5, SettledNow

\* Asking a segment.
LEMMA ChooseAsked ==
    ASSUME UpdateInv, ChooseInv, UpdateLength, NEW s, NEW a, NEW r, AskedNow(s, a, r)
    PROVE  ChooseInv'
<1> DEFINE sect == sects[s]
           seg == sects[s].segments[a]
           new == sects'[s]
           d == r.shift
<1>1. /\ s \in group /\ s \in DOMAIN sects /\ a \in DOMAIN sect.segments /\ Varying(seg) /\ Answers(seg, r)
      /\ entry' = entry \ {<<s, a>>} /\ changed' = (changed \/ d # 0) /\ AskedFrom(sect, a, r, new)
      /\ stage' = stage /\ group' = group
      /\ r = update_length(seg, sect, known, templates) /\ ~r.error
      /\ known' = KnownAfter(known, sect, seg.pos, d) /\ templates' = templates
  BY Zenon DEF AskedNow, AnswerOf, KnownAfter
<1>2. /\ SectsInv' /\ DOMAIN sects' = DOMAIN sects
      /\ \A q \in DOMAIN sects : sects'[q].name = sects[q].name /\ (q # s => sects'[q] = sects[q])
      /\ VaryIn(sects, group)' = VaryIn(sects, group)
  BY AskedSects DEF UpdateInv
<1>3. stage \in {"absolute", "relocatable"} /\ group # {} /\ changed \in BOOLEAN
  BY <1>1 DEF UpdateLength, UpdateInv, SectsInv
<1>4. IsSection(sect) /\ IsSegment(seg) /\ d \in Int
  <2>1. IsSection(sect)
    BY <1>1 DEF UpdateInv, SectsInv, SectionInv
  <2> QED
    BY <1>1, <2>1, StartFacts DEF Answers
<1>5. Len(sects) \in Nat /\ DOMAIN sects = 1 .. Len(sects)
  BY SequenceFacts DEF UpdateInv, SectsInv
<1>6. ToOneInv'
  <2> SUFFICES ASSUME NEW q \in DOMAIN sects', NEW i \in DOMAIN sects'[q].segments,
                      BranchOrCall(sects'[q].segments[i]), sects'[q].segments[i].locked
               PROVE  ToOne(sects'[q].segments[i])
    BY DEF ToOneInv
  <2>1. CASE q # s
    BY <1>2, <2>1 DEF ChooseInv, ToOneInv
  <2>2. CASE q = s
    <3>1. /\ i \in DOMAIN sect.segments /\ new.segments[i].kind = sect.segments[i].kind
          /\ new.segments[i].expr = sect.segments[i].expr
          /\ i # a => new.segments[i].locked = sect.segments[i].locked
      BY <1>1, <2>2 DEF AskedFrom
    <3>2. BranchOrCall(sect.segments[i])
      BY <2>2, <3>1 DEF BranchOrCall
    <3>3. ToOne(sect.segments[i])
      <4>1. CASE sect.segments[i].locked
        BY <1>1, <3>1, <3>2, <4>1 DEF ChooseInv, ToOneInv
      <4>2. CASE ~sect.segments[i].locked
        <5>1. i = a
          BY <2>2, <3>1, <4>2
        <5> QED
          BY <1>1, <1>4, <3>2, <4>2, <5>1, ToOneAsked
      <4> QED
        BY <4>1, <4>2
    <3> QED
      BY <2>2, <3>1, <3>3 DEF ToOne
  <2> QED
    BY <2>1, <2>2
<1>7. ValuesFit(known) /\ known = [w \in DOMAIN known |-> known[w]]
  BY <1>3 DEF ChooseInv, KnownInv
<1>8. ValuesFit(known') /\ DOMAIN known' = DOMAIN known /\ known' = [w \in DOMAIN known' |-> known'[w]]
  BY <1>1, <1>4, <1>7, KnownFits
<1>9. DOMAIN new.labels = DOMAIN sect.labels
  BY <1>1 DEF AskedFrom
<1>10. AbsIn(sects') = AbsIn(sects) /\ (OnceIn(sects') <=> OnceIn(sects))
  <2>1. \A q \in DOMAIN sects : DOMAIN sects'[q].labels = DOMAIN sects[q].labels
    BY <1>2, <1>9
  <2>2. AbsIn(sects') = AbsIn(sects)
    BY <1>2 DEF AbsIn
  <2> QED
    BY <2>1, <2>2 DEF OnceIn, AbsIn
<1>11. ASSUME stage = "relocatable"
       PROVE  FinalLabels(sects') = FinalLabels(sects)
  <2>1. s \notin AbsIn(sects)
    BY <1>1, <1>11 DEF ChooseInv, KnownInv, AbsIn
  <2>2. \A q \in AbsIn(sects) : q \in DOMAIN sects /\ q # s
    BY <2>1 DEF AbsIn
  <2>3. \A q \in AbsIn(sects) : sects'[q].labels = sects[q].labels
    BY <1>2, <2>2
  <2> QED
    BY <1>2, <1>5, <2>3, FinalSame
<1>12. KnownInv'
  <2>1. ASSUME stage = "absolute", OnceIn(sects')
        PROVE  known' = FinalLabels(sects')
    <3>1. OnceIn(sects) /\ known = FinalLabels(sects)
      BY <1>3, <1>10, <2>1 DEF ChooseInv, KnownInv
    <3>2. s \in AbsIn(sects)
      <4>1. group = Absolutes
        BY <1>3, <2>1 DEF UpdateInv, GroupInv
      <4> QED
        BY <1>1, <4>1, GatherIs
    <3>3. known = GatherIn(sects, AbsIn(sects)) /\ \A q \in DOMAIN sects : q # s => sects'[q] = sects[q]
      BY <1>2, <3>1 DEF FinalLabels
    <3>4. KnownAfter(known, sects[s], sects[s].segments[a].pos, r.shift) = GatherIn(sects', AbsIn(sects'))
      <4>1. AskedFrom(sects[s], a, r, sects'[s]) /\ DOMAIN sects' = DOMAIN sects /\ IsSection(sects[s])
        BY <1>1, <1>2, <1>4
      <4> DEFINE z == sects
                 y == sects'
                 n == Len(sects)
                 pos == sects[s].segments[a].pos
      <4>2. /\ n \in Nat /\ DOMAIN z = 1 .. n /\ OnceIn(z) /\ s \in AbsIn(z) /\ IsSection(z[s])
            /\ AskedFrom(z[s], a, r, y[s]) /\ DOMAIN y = DOMAIN z
            /\ (\A q \in DOMAIN z : q # s => y[q] = z[q]) /\ KnownExact(known, z)
        BY <1>5, <3>1, <3>2, <3>3, <4>1 DEF KnownExact, FinalLabels
      <4> HIDE DEF z, y, n, pos
      <4>3. \A after : after = KnownAfter(known, z[s], z[s].segments[a].pos, r.shift) => KnownExact(after, y)
        BY <4>2, KnownAsked
      <4>4. KnownAfter(known, z[s], z[s].segments[a].pos, r.shift) = GatherIn(y, AbsIn(y))
        BY <4>3 DEF KnownExact, FinalLabels
      <4> QED
        BY <4>2, <4>4 DEF z, y
    <3> QED
      BY <1>1, <3>4 DEF FinalLabels
  <2>2. ASSUME stage = "relocatable", NEW q \in group
        PROVE  /\ sects'[q].name # Abs
               /\ DOMAIN known' \subseteq DOMAIN sects'[q].labels \cup DOMAIN FinalLabels(sects')
    <3>1. q \in DOMAIN sects
      BY DEF UpdateInv, SectsInv
    <3>2. DOMAIN sects'[q].labels = DOMAIN sects[q].labels /\ sects'[q].name = sects[q].name
      BY <1>2, <1>9, <3>1
    <3> QED
      BY <1>8, <1>11, <2>2, <3>2 DEF ChooseInv, KnownInv
  <2> QED
    BY <1>1, <1>8, <2>1, <2>2 DEF KnownInv
<1>13. AskedInv'
  <2> SUFFICES ASSUME ~changed', NEW f \in VaryIn(sects', group') \ entry'
               PROVE  Chosen(SegmentAt(sects', f), sects'[f[1]], known', templates')
    BY DEF AskedInv
  <2>1. ~changed /\ d = 0
    BY <1>1, <1>3, <1>4
  <2>2. f \in VaryIn(sects, group)
    BY <1>2
  <2>3. /\ f = <<f[1], f[2]>> /\ f[1] \in DOMAIN sects /\ f[2] \in DOMAIN sects[f[1]].segments
        /\ Varying(SegmentAt(sects, f))
    BY <2>2, VaryFacts DEF UpdateInv
  <2>4. Chosen(SegmentAt(sects, f), sects[f[1]], known, templates)
    <3>1. CASE f \notin entry
      BY <2>1, <2>2, <3>1 DEF ChooseInv, AskedInv
    <3>2. CASE f \in entry
      <4>1. f = <<s, a>>
        BY <1>1, <3>2
      <4>2. SegmentAt(sects, f) = seg /\ sects[f[1]] = sect
        BY <4>1 DEF SegmentAt
      <4>3. BranchOrCall(seg) /\ seg.locked => ToOne(seg)
        BY <1>1 DEF ChooseInv, ToOneInv
      <4>4. Chosen(seg, sect, known, templates)
        BY <1>1, <1>4, <2>1, <4>3, ChosenAnswer
      <4> QED
        BY <4>2, <4>4
    <3> QED
      BY <3>1, <3>2
  <2>5. known' = known
    BY <1>1, <1>7, <2>1, KnownSame
  <2>6. CASE f[1] # s
    BY <1>1, <1>2, <2>3, <2>4, <2>5, <2>6 DEF SegmentAt
  <2>7. CASE f[1] = s
    <3> DEFINE old == sect.segments[f[2]]
               now == new.segments[f[2]]
    <3>1. /\ new.labels = sect.labels /\ new.exts = sect.exts /\ new.name = sect.name
          /\ now.kind = old.kind /\ now.expr = old.expr
          /\ Varying(old) => now.pos = old.pos
          /\ Grows(old) => now.locked = old.locked
      BY <1>1, <1>4, <2>1, <2>3, <2>7, AskedSame
    <3>2. old = SegmentAt(sects, f) /\ now = SegmentAt(sects', f) /\ Varying(old)
      BY <2>3, <2>7 DEF SegmentAt
    <3>3. Chosen(old, sect, known, templates)
      BY <2>4, <2>7, <3>2
    <3> HIDE DEF old, now
    <3>4. CASE Grows(old)
      <4>1. Chosen(now, new, known, templates)
        <5> HIDE DEF sect, new
        <5> QED
          BY <3>1, <3>2, <3>3, <3>4, ChosenSame
      <4> QED
        BY <1>1, <2>5, <2>7, <3>2, <4>1
    <3>5. CASE ~Grows(old)
      <4>1. Chosen(now, new, known, templates)
        BY <3>1, <3>5 DEF Chosen, BranchOrCall, Grows
      <4> QED
        BY <1>1, <2>5, <2>7, <3>2, <4>1
    <3> QED
      BY <3>4, <3>5
  <2> QED
    BY <2>6, <2>7
<1>14. DoneInv'
  <2>1. CASE stage = "absolute"
    <3>1. Finished' = {}
      BY <1>1, <2>1 DEF Finished
    <3> QED
      BY <3>1 DEF DoneInv
  <2>2. CASE stage = "relocatable"
    <3>1. Absolutes' = Absolutes /\ Top' = Top
      BY <1>1, <1>2 DEF Absolutes, IsAbsolute, Top
    <3>2. Finished' = Finished /\ s \notin Finished
      BY <1>1, <2>2, <3>1 DEF Finished
    <3> SUFFICES ASSUME NEW q \in Finished', q \in DOMAIN sects' PROVE SettledIn(sects', q, templates')
      BY DEF DoneInv
    <3>3. q \in Finished /\ q \in DOMAIN sects /\ q # s
      BY <1>2, <3>2
    <3>4. SettledIn(sects, q, templates)
      BY <3>3 DEF ChooseInv, DoneInv
    <3>5. sects'[q] = sects[q]
      BY <1>2, <3>3
    <3>6. SettledIn(sects', q, templates)
      BY <1>10, <1>11, <2>2, <3>4, <3>5, SettledKept
    <3> QED
      BY <1>1, <3>6
  <2> QED
    BY <1>3, <2>1, <2>2
<1>15. FieldsFit(templates')
  BY <1>1 DEF ChooseInv
<1> QED
  BY <1>6, <1>12, <1>13, <1>14, <1>15 DEF ChooseInv

\* What stays as it is keeps what was found out.
LEMMA ChooseKept ==
    ASSUME ChooseInv, UNCHANGED <<templates, sects, group, entry, changed, known>>,
           stage' \in {"read", "failed"} \/ stage' = stage \/ (stage = "fill" /\ stage' = "done")
    PROVE  ChooseInv'
<1>1. /\ templates' = templates /\ sects' = sects /\ group' = group /\ entry' = entry
      /\ changed' = changed /\ known' = known
  OBVIOUS
<1>2. FieldsFit(templates') /\ ToOneInv'
  BY <1>1 DEF ChooseInv, ToOneInv
<1>3. KnownInv'
  <2>1. stage' = "absolute" => stage = "absolute"
    OBVIOUS
  <2>2. stage' = "relocatable" => stage = "relocatable"
    OBVIOUS
  <2> QED
    BY <1>1, <2>1, <2>2 DEF ChooseInv, KnownInv
<1>4. AskedInv'
  BY <1>1 DEF ChooseInv, AskedInv
<1>5. Absolutes' = Absolutes /\ Top' = Top
  BY <1>1 DEF Absolutes, IsAbsolute, Top
<1>6. \A s \in Finished' : s \in Finished
  BY <1>1, <1>5 DEF Finished
<1>7. DoneInv'
  BY <1>1, <1>6 DEF ChooseInv, DoneInv
<1> QED
  BY <1>2, <1>3, <1>4, <1>7 DEF ChooseInv

\* Sections that are made have not found anything out yet.
LEMMA ChooseMade ==
    ASSUME EarlyInv, BuildAst, stage' # "failed"
    PROVE  ChooseInv'
<1>1. /\ stage' = "absolute" /\ group' = {} /\ entry' = {}
      /\ \A s \in DOMAIN sects' : \A i \in DOMAIN sects'[s].segments : ~sects'[s].segments[i].locked
      /\ \A w \in DOMAIN templates' : \A field \in DOMAIN templates'[w] : templates'[w][field] \in Nat
  BY MadeFacts DEF BuildAst, EarlyInv
<1>2. VaryIn(sects', group') = {}
  BY <1>1 DEF VaryIn
<1>3. FieldsFit(templates') /\ ToOneInv'
  BY <1>1 DEF FieldsFit, ToOneInv
<1>4. KnownInv'
  BY <1>1 DEF KnownInv
<1>5. AskedInv'
  BY <1>2 DEF AskedInv
<1>6. DoneInv'
  BY <1>1 DEF DoneInv, Finished
<1> QED
  BY <1>3, <1>4, <1>5, <1>6 DEF ChooseInv

\* Relocatable sections up to the one that is left are settled.
LEMMA LeftBefore ==
    ASSUME UpdateInv, PassInv, ChooseInv, entry = {}, ~changed, stage = "relocatable",
           NEW s \in DOMAIN sects, s \in Absolutes \cup 1 .. Top
    PROVE  SettledIn(sects, s, templates)
<1>1. CASE s \in group
  BY <1>1, LeftSettled
<1>2. CASE s \notin group
  <2>1. s \in Finished
    BY <1>2 DEF Finished
  <2> QED
    BY <2>1 DEF ChooseInv, DoneInv
<1> QED
  BY <1>1, <1>2

\* The labels of other sections, when the search begins.
LEMMA BeginKnown ==
    ASSUME SectsInv, NEW S, S \subseteq DOMAIN sects, NEW k,
           k = Overlay(GatherIn(sects, S), GatherIn(sects, AbsIn(sects) \ S))
    PROVE  /\ ValuesFit(k) /\ k = [w \in DOMAIN k |-> k[w]]
           /\ S = AbsIn(sects) => k = FinalLabels(sects)
           /\ \A s \in S : S = {s} => DOMAIN k \subseteq DOMAIN sects[s].labels \cup DOMAIN FinalLabels(sects)
<1> DEFINE T == AbsIn(sects) \ S
           G == GatherIn(sects, S)
           H == GatherIn(sects, T)
           n == Len(sects)
<1>1. n \in Nat /\ DOMAIN sects = 1 .. n
  BY SequenceFacts DEF SectsInv
<1>2. S \subseteq 1 .. n /\ T \subseteq 1 .. n /\ AbsIn(sects) \subseteq 1 .. n
  BY <1>1 DEF AbsIn
<1>3. \A s \in DOMAIN sects : ValuesFit(sects[s].labels)
  BY DEF SectsInv, SectionInv, IsSection, ValuesFit
<1>4. ValuesFit(G) /\ ValuesFit(H)
  <2> HIDE DEF n, T
  <2> QED
    BY <1>1, <1>2, <1>3, GatherFits
<1>5. /\ DOMAIN k = DOMAIN G \cup DOMAIN H
      /\ \A w \in DOMAIN k : k[w] = IF w \in DOMAIN H THEN H[w] ELSE G[w]
      /\ k = [w \in DOMAIN k |-> k[w]]
  BY DEF Overlay
<1>6. ValuesFit(k)
  <2> HIDE DEF G, H
  <2> QED
    BY <1>4, <1>5 DEF ValuesFit
<1>7. ASSUME S = AbsIn(sects) PROVE k = FinalLabels(sects)
  <2>1. T = {} /\ DOMAIN H = {}
    <3>1. T = {}
      BY <1>7
    <3>2. DOMAIN GatherIn(sects, {}) = {}
      BY DEF GatherIn
    <3> QED
      BY <3>1, <3>2
  <2>2. DOMAIN k = DOMAIN G /\ \A w \in DOMAIN k : k[w] = G[w]
    <3> HIDE DEF G, H, T
    <3> QED
      BY <1>5, <2>1
  <2>3. G = [w \in DOMAIN G |-> G[w]]
    BY DEF GatherIn
  <2>4. k = G
    <3> HIDE DEF G, H, T
    <3> QED
      BY <1>5, <2>2, <2>3
  <2> QED
    BY <1>7, <2>4 DEF FinalLabels
<1>8. ASSUME NEW s \in S, S = {s}
      PROVE  DOMAIN k \subseteq DOMAIN sects[s].labels \cup DOMAIN FinalLabels(sects)
  <2> SUFFICES ASSUME NEW w \in DOMAIN k, w \notin DOMAIN sects[s].labels PROVE w \in DOMAIN FinalLabels(sects)
    OBVIOUS
  <2>1. \A v : v \in DOMAIN G <=> v \in Labels /\ \E q \in S : v \in DOMAIN sects[q].labels
    <3> HIDE DEF n, T
    <3> QED
      BY <1>1, <1>2, GatherFacts
  <2>2. \A v : v \in DOMAIN H <=> v \in Labels /\ \E q \in T : v \in DOMAIN sects[q].labels
    <3> HIDE DEF n, T
    <3> QED
      BY <1>1, <1>2, GatherFacts
  <2>3. \A v : v \in DOMAIN FinalLabels(sects) <=>
            v \in Labels /\ \E q \in AbsIn(sects) : v \in DOMAIN sects[q].labels
    <3> HIDE DEF n, T
    <3> QED
      BY <1>1, <1>2, GatherFacts DEF FinalLabels
  <2>4. w \notin DOMAIN G
    BY <1>8, <2>1
  <2>5. w \in DOMAIN H
    BY <1>5, <2>4
  <2>6. w \in Labels /\ \E q \in AbsIn(sects) : w \in DOMAIN sects[q].labels
    BY <2>2, <2>5
  <2> QED
    BY <2>3, <2>6
<1> QED
  BY <1>5, <1>6, <1>7, <1>8

\* The search begins for some sections.
LEMMA ChooseBegins ==
    ASSUME SectsInv, ChooseInv, NEW S, S \subseteq DOMAIN sects, Begin(S), UNCHANGED <<stage, templates>>,
           \A s \in S : ~sects[s].regrown,
           \/ stage = "absolute" /\ S = AbsIn(sects)
           \/ stage = "relocatable" /\ \E g \in DOMAIN sects : S = {g} /\ g \notin AbsIn(sects),
           stage = "relocatable" => \A s \in Finished' : s \in DOMAIN sects =>
                s \notin S /\ SettledIn(sects, s, templates)
    PROVE  ChooseInv'
<1>1. group' = S /\ entry' = VaryIn(sects, S)' /\ DOMAIN sects' = DOMAIN sects
  BY BeginFacts
<1>2. /\ known' = Overlay(GatherIn(sects, S), GatherIn(sects, AbsIn(sects) \ S))
      /\ \A s \in DOMAIN sects :
           /\ sects'[s].name = sects[s].name /\ sects'[s].labels = sects[s].labels
           /\ DOMAIN sects'[s].segments = DOMAIN sects[s].segments
           /\ \A i \in DOMAIN sects[s].segments :
                /\ sects'[s].segments[i].kind = sects[s].segments[i].kind
                /\ sects'[s].segments[i].locked = sects[s].segments[i].locked
                /\ sects'[s].segments[i].expr = sects[s].segments[i].expr
           /\ s \notin S => sects'[s] = sects[s]
  BY BeginMore
<1>3. Len(sects) \in Nat /\ DOMAIN sects = 1 .. Len(sects)
  BY SequenceFacts DEF SectsInv
<1>4. AbsIn(sects') = AbsIn(sects) /\ FinalLabels(sects') = FinalLabels(sects)
      /\ (OnceIn(sects') <=> OnceIn(sects))
  <2>1. \A q \in AbsIn(sects) : sects'[q].labels = sects[q].labels
    BY <1>2 DEF AbsIn
  <2> QED
    BY <1>1, <1>2, <1>3, <2>1, FinalSame
<1>5. /\ ValuesFit(known') /\ known' = [w \in DOMAIN known' |-> known'[w]]
      /\ S = AbsIn(sects) => known' = FinalLabels(sects)
      /\ \A s \in S : S = {s} => DOMAIN known' \subseteq DOMAIN sects[s].labels \cup DOMAIN FinalLabels(sects)
  <2> DEFINE k == known'
             G == GatherIn(sects, S)
             H == GatherIn(sects, AbsIn(sects) \ S)
  <2>1. k = Overlay(G, H)
    BY <1>2
  <2> HIDE DEF k
  <2>2. /\ ValuesFit(k) /\ k = [w \in DOMAIN k |-> k[w]]
        /\ S = AbsIn(sects) => k = FinalLabels(sects)
        /\ \A s \in S : S = {s} => DOMAIN k \subseteq DOMAIN sects[s].labels \cup DOMAIN FinalLabels(sects)
    BY <2>1, BeginKnown
  <2> QED
    BY <2>2 DEF k
<1>6. FieldsFit(templates')
  BY DEF ChooseInv
<1>7. ToOneInv'
  <2> SUFFICES ASSUME NEW s \in DOMAIN sects', NEW i \in DOMAIN sects'[s].segments,
                      BranchOrCall(sects'[s].segments[i]), sects'[s].segments[i].locked
               PROVE  ToOne(sects'[s].segments[i])
    BY DEF ToOneInv
  <2>1. s \in DOMAIN sects /\ i \in DOMAIN sects[s].segments
    BY <1>1, <1>2
  <2>2. /\ sects'[s].segments[i].kind = sects[s].segments[i].kind
        /\ sects'[s].segments[i].locked = sects[s].segments[i].locked
        /\ sects'[s].segments[i].expr = sects[s].segments[i].expr
    BY <1>2, <2>1
  <2>3. ToOne(sects[s].segments[i])
    BY <2>1, <2>2 DEF BranchOrCall, ChooseInv, ToOneInv
  <2> QED
    BY <2>2, <2>3 DEF ToOne
<1>8. KnownInv'
  <2>1. stage' = "absolute" => known' = FinalLabels(sects')
    BY <1>4, <1>5
  <2>2. ASSUME stage' = "relocatable", NEW s \in group'
        PROVE  /\ sects'[s].name # Abs
               /\ DOMAIN known' \subseteq DOMAIN sects'[s].labels \cup DOMAIN FinalLabels(sects')
    <3>1. S = {s} /\ s \in DOMAIN sects /\ s \notin AbsIn(sects)
      BY <1>1, <2>2
    <3>2. sects'[s].name = sects[s].name /\ sects'[s].labels = sects[s].labels
      BY <1>2, <3>1
    <3>3. DOMAIN known' \subseteq DOMAIN sects[s].labels \cup DOMAIN FinalLabels(sects)
      BY <1>5, <3>1
    <3> QED
      BY <1>4, <3>1, <3>2, <3>3 DEF AbsIn
  <2> QED
    BY <1>5, <2>1, <2>2 DEF KnownInv
<1>9. AskedInv'
  BY <1>1 DEF AskedInv
<1>10. DoneInv'
  <2> SUFFICES ASSUME NEW s \in Finished', s \in DOMAIN sects' PROVE SettledIn(sects', s, templates')
    BY DEF DoneInv
  <2>1. stage = "relocatable" /\ s \in DOMAIN sects
    BY <1>1 DEF Finished
  <2>2. s \notin S /\ SettledIn(sects, s, templates)
    BY <2>1
  <2>3. sects'[s] = sects[s]
    BY <1>2, <2>1, <2>2
  <2>4. SettledIn(sects', s, templates)
    BY <1>4, <2>2, <2>3, SettledKept
  <2> QED
    BY <2>4
<1> QED
  BY <1>6, <1>7, <1>8, <1>9, <1>10 DEF ChooseInv

\* The invariant of the search for the forms of segments.
LEMMA ChooseStep ==
    ASSUME UpdateInv, UpdateInv', PassInv, ChooseInv, [Next]_vars
    PROVE  ChooseInv'
<1>0. SectsInv /\ EarlyInv /\ GroupInv
  BY DEF UpdateInv
<1>1. CASE UNCHANGED vars
  BY <1>1, ChooseKept DEF vars
<1>2. CASE ProcessMacros
  <2>1. stage' \in {"read", "failed"} /\ UNCHANGED <<templates, sects, group, entry, changed, known>>
    BY <1>2 DEF ProcessMacros, Fail
  <2> QED
    BY <2>1, ChooseKept
<1>3. CASE BuildAst
  <2>1. CASE stage' = "failed"
    <3>1. UNCHANGED <<templates, sects, group, entry, changed, known>>
      BY <1>3, <2>1 DEF BuildAst
    <3> QED
      BY <2>1, <3>1, ChooseKept
  <2>2. CASE stage' # "failed"
    BY <1>0, <1>3, <2>2, ChooseMade
  <2> QED
    BY <2>1, <2>2
<1>4. CASE UpdateLength
  <2>1. CASE stage' = "failed"
    <3>1. UNCHANGED <<templates, sects, group, entry, changed, known>>
      BY <1>4, <2>1 DEF UpdateLength, Fail
    <3> QED
      BY <2>1, <3>1, ChooseKept
  <2>2. CASE stage' # "failed"
    <3>1. PICK s, a, r : AskedNow(s, a, r)
      BY <1>0, <1>4, <2>2, UpdateFacts
    <3> QED
      BY <1>4, <3>1, ChooseAsked
  <2> QED
    BY <2>1, <2>2
<1>5. CASE NextPass
  <2>1. /\ entry' = VaryIn(sects, group) /\ UNCHANGED <<stage, templates, sects, group, known>>
    BY <1>5 DEF NextPass, VaryingOf, VaryIn
  <2>2. FieldsFit(templates') /\ ToOneInv' /\ KnownInv'
    BY <2>1 DEF ChooseInv, ToOneInv, KnownInv
  <2>3. AskedInv'
    BY <2>1 DEF AskedInv
  <2>4. Finished' = Finished
    BY <2>1 DEF Finished, Absolutes, IsAbsolute, Top
  <2>5. DoneInv'
    BY <2>1, <2>4 DEF ChooseInv, DoneInv
  <2> QED
    BY <2>2, <2>3, <2>5 DEF ChooseInv
<1>6. CASE NextGroup
  <2>1. /\ entry = {} /\ ~changed /\ UNCHANGED templates
        /\ BeginsAbsolute \/ LeavesAbsolute \/ BeginsRelocatable \/ LeavesRelocatable
    BY <1>6, NextGroupIs
  <2>2. Absolutes = AbsIn(sects) /\ Absolutes \subseteq DOMAIN sects
    BY GatherIs DEF Absolutes
  <2>3. Len(sects) \in Nat /\ DOMAIN sects = 1 .. Len(sects)
    BY <1>0, SequenceFacts DEF SectsInv
  <2>4. CASE BeginsAbsolute
    <3>1. stage = "absolute" /\ stage' = stage /\ group = {} /\ Begin(Absolutes)
      BY <2>4 DEF BeginsAbsolute
    <3>2. \A s \in Absolutes : ~sects[s].regrown
      BY <1>0, <2>2, <3>1 DEF GroupInv, Begun
    <3> QED
      BY <1>0, <2>1, <2>2, <3>1, <3>2, ChooseBegins
  <2>5. CASE LeavesAbsolute
    <3>1. /\ stage = "absolute" /\ stage' = "relocatable" /\ group' = {} /\ sects' = sects /\ entry' = {}
          /\ changed' = changed /\ (group = {} => Absolutes = {})
      BY <2>1, <2>5 DEF LeavesAbsolute
    <3>2. FieldsFit(templates') /\ ToOneInv' /\ KnownInv'
      BY <2>1, <3>1 DEF ChooseInv, ToOneInv, KnownInv
    <3>3. VaryIn(sects', group') = {}
      BY <3>1 DEF VaryIn
    <3>4. AskedInv'
      BY <3>3 DEF AskedInv
    <3>5. DoneInv'
      <4> SUFFICES ASSUME NEW s \in Finished', s \in DOMAIN sects' PROVE SettledIn(sects', s, templates')
        BY DEF DoneInv
      <4>1. Absolutes' = Absolutes /\ Top' = 0
        BY <3>1 DEF Absolutes, IsAbsolute, Top
      <4>2. s \in Absolutes
        BY <3>1, <4>1 DEF Finished
      <4>3. s \in group
        BY <1>0, <3>1, <4>2 DEF GroupInv
      <4>4. SettledIn(sects, s, templates)
        BY <2>1, <3>1, <4>3, LeftSettled
      <4> QED
        BY <2>1, <3>1, <4>4
    <3> QED
      BY <3>2, <3>4, <3>5 DEF ChooseInv
  <2>6. CASE BeginsRelocatable
    <3>1. stage = "relocatable" /\ stage' = stage /\ Rest # {} /\ Begin({Min(Rest)})
      BY <2>6 DEF BeginsRelocatable
    <3> DEFINE g == Min(Rest)
    <3>2. g \in Rest /\ (\A n \in Rest : g <= n) /\ g \in DOMAIN sects /\ g \in Nat \ {0}
      <4>1. Rest \subseteq Nat
        BY <2>3 DEF Rest
      <4>2. g \in Rest /\ \A n \in Rest : g <= n
        <5> HIDE DEF Rest
        <5> QED
          BY <3>1, <4>1, MinFacts
      <4>3. Rest \subseteq DOMAIN sects /\ \A n \in Rest : n \in Nat \ {0}
        BY <2>3 DEF Rest
      <4> HIDE DEF g
      <4> QED
        BY <4>2, <4>3
    <3> HIDE DEF g
    <3>3. g \notin AbsIn(sects) /\ ~sects[g].regrown
      BY <1>0, <2>2, <3>1, <3>2 DEF GroupInv, Begun, Rest
    <3>4. group' = {g} /\ DOMAIN sects' = DOMAIN sects
          /\ \A s \in DOMAIN sects : sects'[s].name = sects[s].name
      <4>1. Begin({g}) /\ {g} \subseteq DOMAIN sects /\ \A s \in {g} : ~sects[s].regrown
        BY <3>1, <3>2, <3>3 DEF g
      <4> QED
        BY <1>0, <4>1, BeginFacts
    <3>5. Absolutes' = Absolutes
      BY <3>4 DEF Absolutes, IsAbsolute
    <3>6. Top' = g
      <4>1. Max({g}) = g
        BY <3>2 DEF Max
      <4> QED
        BY <3>4, <4>1 DEF Top
    <3>7. ASSUME NEW s \in Finished', s \in DOMAIN sects
          PROVE  s \notin {g} /\ SettledIn(sects, s, templates)
      <4>1. s \in (Absolutes \cup 1 .. g) /\ s # g
        BY <3>1, <3>4, <3>5, <3>6, <3>7 DEF Finished
      <4>2. s \notin Rest
        <5>1. CASE s \in Absolutes
          BY <5>1 DEF Rest
        <5>2. CASE s \in 1 .. g
          BY <3>2, <4>1, <5>2
        <5> QED
          BY <4>1, <5>1, <5>2
      <4>3. s \in Absolutes \cup 1 .. Top
        BY <3>7, <4>2 DEF Rest
      <4> QED
        BY <2>1, <3>1, <3>7, <4>1, <4>3, LeftBefore
    <3>8. Begin({g}) /\ {g} \subseteq DOMAIN sects
      BY <3>1, <3>2 DEF g
    <3> QED
      BY <1>0, <2>1, <3>1, <3>2, <3>3, <3>7, <3>8, ChooseBegins
  <2>7. CASE LeavesRelocatable
    <3>1. /\ stage = "relocatable" /\ stage' = "fill" /\ group' = {} /\ sects' = sects /\ entry' = {}
          /\ changed' = changed /\ Rest = {}
      BY <2>1, <2>7 DEF LeavesRelocatable
    <3>2. FieldsFit(templates') /\ ToOneInv' /\ KnownInv'
      BY <2>1, <3>1 DEF ChooseInv, ToOneInv, KnownInv
    <3>3. VaryIn(sects', group') = {}
      BY <3>1 DEF VaryIn
    <3>4. AskedInv'
      BY <3>3 DEF AskedInv
    <3>5. DoneInv'
      <4> SUFFICES ASSUME NEW s \in Finished', s \in DOMAIN sects' PROVE SettledIn(sects', s, templates')
        BY DEF DoneInv
      <4>1. s \in DOMAIN sects /\ s \in Absolutes \cup 1 .. Top
        BY <3>1 DEF Rest
      <4>2. SettledIn(sects, s, templates)
        BY <2>1, <3>1, <4>1, LeftBefore
      <4> QED
        BY <2>1, <3>1, <4>2
    <3> QED
      BY <3>2, <3>4, <3>5 DEF ChooseInv
  <2> QED
    BY <2>1, <2>4, <2>5, <2>6, <2>7
<1>7. CASE Fill
  <2>1. UNCHANGED <<templates, sects, group, entry, changed, known>> /\ stage' \in {"failed", stage}
    BY <1>7 DEF Fill, Fail
  <2> QED
    BY <2>1, ChooseKept
<1>8. CASE generate_object_module
  <2>1. /\ UNCHANGED <<templates, sects, group, entry, changed, known>>
        /\ stage = "fill" /\ stage' \in {"failed", "done"}
    BY <1>8 DEF generate_object_module, Fail
  <2> QED
    BY <2>1, ChooseKept
<1> QED
  BY <1>1, <1>2, <1>3, <1>4, <1>5, <1>6, <1>7, <1>8 DEF Next

--------------------------------------------------------------------------------
(* The contents of the sections.                                                *)

FilledInv ==
    /\ IsSequence(filled) /\ Len(filled) <= Len(sects)
    /\ \A n \in DOMAIN filled : /\ filled[n] = FilledOf(sects[n], known, templates)
                                /\ \A i \in DOMAIN filled[n] : ~filled[n][i].code.error
MadeInv ==
    /\ Len(filled) = Len(sects)
    /\ objs = [asects |-> [n \in 1 .. Cardinality(Absolutes) |-> Records[n]], rsects |-> concat_rsects]
FillInv ==
    /\ stage \in {"fill", "done"} => known = FinalLabels(sects) /\ FilledInv
    /\ stage \in {"macros", "read", "absolute", "relocatable"} => filled = <<>>
    /\ stage = "done" => MadeInv
    /\ stage # "done" => objs = [asects |-> <<>>, rsects |-> <<>>]

\* At the beginning nothing is filled.
LEMMA FillInit == Init => FillInv
BY DEF Init, FillInv

\* While nothing is filled the contents stay.
LEMMA FillKept ==
    ASSUME FillInv, UNCHANGED <<filled, objs>>,
           \/ stage' \in {"macros", "read", "absolute", "relocatable"}
                /\ stage \in {"macros", "read", "absolute", "relocatable"}
           \/ stage' = "failed" /\ stage # "done"
    PROVE  FillInv'
BY DEF FillInv

\* Another section is filled.
LEMMA FillMore ==
    ASSUME SectsInv, FillInv, Fill, stage' # "failed"
    PROVE  FillInv'
<1> DEFINE n == Len(filled) + 1
           sect == sects[n]
           f == Sequence([i \in DOMAIN sect.segments |-> Filled(sect, i, known, templates)])
<1>1. /\ stage = "fill" /\ Len(filled) < Len(sects) /\ stage' = stage /\ filled' = Append(filled, f)
      /\ ~(\E i \in DOMAIN f : f[i].code.error)
      /\ UNCHANGED <<templates, sects, known, objs>>
  BY DEF Fill, Fail
<1>2. known = FinalLabels(sects) /\ FilledInv /\ objs = [asects |-> <<>>, rsects |-> <<>>]
  BY <1>1 DEF FillInv
<1>3. /\ Len(sects) \in Nat /\ DOMAIN sects = 1 .. Len(sects) /\ Len(filled) \in Nat
      /\ DOMAIN filled = 1 .. Len(filled)
  BY <1>2, SequenceFacts DEF SectsInv, FilledInv
<1>4. IsSection(sect)
  BY <1>1, <1>3 DEF SectsInv, SectionInv
<1>5. f = FilledOf(sect, known, templates)
  <2> DEFINE g == FilledOf(sect, known, templates)
             m == Len(sect.segments)
  <2>1. DOMAIN sect.segments = 1 .. m /\ m \in Nat
    BY <1>4, StartFacts
  <2>2. [i \in DOMAIN sect.segments |-> Filled(sect, i, known, templates)] = g
    BY <2>1 DEF FilledOf
  <2>3. g = [i \in 1 .. m |-> g[i]]
    BY DEF FilledOf
  <2> HIDE DEF g, m
  <2>4. Sequence(g) = g
    BY <2>1, <2>3, SequenceIs
  <2> QED
    BY <2>2, <2>4 DEF g
<1> HIDE DEF f
<1>6. IsSequence(filled') /\ Len(filled') = n /\ DOMAIN filled' = 1 .. n
      /\ filled'[n] = f /\ \A k \in 1 .. Len(filled) : filled'[k] = filled[k]
  <2>1. IsSequence(filled)
    BY <1>2 DEF FilledInv
  <2>2. IsSequence(Append(filled, f))
    BY <2>1, ListAppend DEF IsSequence
  <2>3. Len(Append(filled, f)) = n /\ DOMAIN Append(filled, f) = 1 .. n
        /\ Append(filled, f)[n] = f /\ \A k \in 1 .. Len(filled) : Append(filled, f)[k] = filled[k]
    BY <1>3, <2>1 DEF IsSequence
  <2> QED
    BY <1>1, <2>2, <2>3
<1>7. FilledInv'
  <2>1. Len(filled') <= Len(sects')
    BY <1>1, <1>3, <1>6
  <2>2. ASSUME NEW k \in DOMAIN filled'
        PROVE  /\ filled'[k] = FilledOf(sects'[k], known', templates')
               /\ \A i \in DOMAIN filled'[k] : ~filled'[k][i].code.error
    <3>1. CASE k = n
      BY <1>1, <1>5, <1>6, <3>1
    <3>2. CASE k # n
      <4>1. k \in DOMAIN filled /\ filled'[k] = filled[k]
        BY <1>3, <1>6, <3>2
      <4> QED
        BY <1>1, <1>2, <4>1 DEF FilledInv
    <3> QED
      BY <3>1, <3>2
  <2> QED
    BY <1>6, <2>1, <2>2 DEF FilledInv
<1>8. known' = FinalLabels(sects')
  BY <1>1, <1>2
<1> QED
  BY <1>1, <1>2, <1>7, <1>8 DEF FillInv

\* The invariant of the contents.
LEMMA FillStep ==
    ASSUME UpdateInv, FillInv, [Next]_vars
    PROVE  FillInv'
<1>0. SectsInv
  BY DEF UpdateInv
<1>1. CASE UNCHANGED vars
  <2>1. /\ stage' = stage /\ known' = known /\ sects' = sects /\ filled' = filled /\ templates' = templates
        /\ objs' = objs
    BY <1>1 DEF vars
  <2>2. Absolutes' = Absolutes /\ Records' = Records /\ concat_rsects' = concat_rsects
    BY <2>1 DEF Absolutes, IsAbsolute, Records, concat_rsects
  <2> QED
    BY <2>1, <2>2 DEF FillInv, FilledInv, MadeInv
<1>2. CASE ProcessMacros
  BY <1>2, FillKept DEF ProcessMacros, Fail
<1>3. CASE BuildAst
  BY <1>3, FillKept DEF BuildAst, Fail
<1>4. CASE UpdateLength
  <2>1. /\ stage \in {"absolute", "relocatable"} /\ (stage' = "failed" \/ stage' = stage)
        /\ UNCHANGED <<filled, objs>>
    BY <1>4 DEF UpdateLength, Fail
  <2> QED
    BY <2>1, FillKept
<1>5. CASE NextPass
  BY <1>5, FillKept DEF NextPass
<1>6. CASE NextGroup
  <2>1. /\ UNCHANGED <<templates, filled, objs>>
        /\ BeginsAbsolute \/ LeavesAbsolute \/ BeginsRelocatable \/ LeavesRelocatable
    BY <1>6, NextGroupIs
  <2>2. CASE BeginsAbsolute \/ LeavesAbsolute \/ BeginsRelocatable
    <3>1. stage \in {"absolute", "relocatable"} /\ stage' \in {"absolute", "relocatable"}
      BY <2>2 DEF BeginsAbsolute, LeavesAbsolute, BeginsRelocatable
    <3> QED
      BY <2>1, <3>1, FillKept
  <2>3. CASE LeavesRelocatable
    <3>1. stage = "relocatable" /\ stage' = "fill" /\ known' = gather_local_labels(Absolutes) /\ sects' = sects
      BY <2>3 DEF LeavesRelocatable
    <3>2. known' = FinalLabels(sects')
      <4>1. gather_local_labels(Absolutes) = GatherIn(sects, Absolutes) /\ Absolutes = AbsIn(sects)
        BY GatherIs
      <4> QED
        BY <3>1, <4>1, Zenon DEF FinalLabels
    <3>3. filled' = <<>> /\ objs' = [asects |-> <<>>, rsects |-> <<>>]
      BY <2>1, <3>1 DEF FillInv
    <3>4. FilledInv'
      <4>1. Len(sects) \in Nat
        BY <1>0, SequenceFacts DEF SectsInv
      <4>2. IsSequence(<<>>) /\ Len(<<>>) = 0 /\ DOMAIN <<>> = {}
        BY DEF IsSequence
      <4> QED
        BY <3>1, <3>3, <4>1, <4>2 DEF FilledInv
    <3> QED
      BY <3>1, <3>2, <3>3, <3>4 DEF FillInv
  <2> QED
    BY <2>1, <2>2, <2>3
<1>7. CASE Fill
  <2>1. CASE stage' = "failed"
    <3>1. stage = "fill" /\ UNCHANGED objs
      BY <1>7 DEF Fill
    <3> QED
      BY <2>1, <3>1 DEF FillInv
  <2>2. CASE stage' # "failed"
    BY <1>0, <1>7, <2>2, FillMore
  <2> QED
    BY <2>1, <2>2
<1>8. CASE generate_object_module
  <2>1. /\ stage = "fill" /\ Len(filled) = Len(sects)
        /\ UNCHANGED <<templates, sects, known, filled>>
        /\ \/ stage' = "failed" /\ objs' = objs
           \/ stage' = "done" /\ objs' = [asects |-> [n \in 1 .. Cardinality(Absolutes) |-> Records[n]],
                                          rsects |-> concat_rsects]
    BY <1>8 DEF generate_object_module, Fail
  <2>2. CASE stage' = "failed"
    BY <2>1, <2>2 DEF FillInv
  <2>3. CASE stage' = "done"
    <3>1. Absolutes' = Absolutes /\ Records' = Records /\ concat_rsects' = concat_rsects
      BY <2>1 DEF Absolutes, IsAbsolute, Records, concat_rsects
    <3>2. MadeInv'
      BY <2>1, <2>3, <3>1 DEF MadeInv
    <3>3. FilledInv' /\ known' = FinalLabels(sects')
      BY <2>1 DEF FillInv, FilledInv
    <3> QED
      BY <2>3, <3>2, <3>3 DEF FillInv
  <2> QED
    BY <2>1, <2>2, <2>3
<1> QED
  BY <1>1, <1>2, <1>3, <1>4, <1>5, <1>6, <1>7, <1>8 DEF Next

\* All four hold.
LEMMA SpecFillInv == Spec => [](UpdateInv /\ PassInv /\ ChooseInv /\ FillInv)
<1>1. Init => UpdateInv /\ PassInv /\ ChooseInv /\ FillInv
  BY UpdateInit, ChooseInit, FillInit
<1>2. (UpdateInv /\ PassInv /\ ChooseInv /\ FillInv) /\ [Next]_vars =>
        (UpdateInv /\ PassInv /\ ChooseInv /\ FillInv)'
  <2> SUFFICES ASSUME UpdateInv, PassInv, ChooseInv, FillInv, [Next]_vars
               PROVE  (UpdateInv /\ PassInv /\ ChooseInv /\ FillInv)'
    OBVIOUS
  <2>1. UpdateInv'
    BY UpdateStep
  <2>2. PassInv'
    BY <2>1, PassStep
  <2>3. ChooseInv'
    BY <2>1, ChooseStep
  <2>4. FillInv'
    BY FillStep
  <2> QED
    BY <2>1, <2>2, <2>3, <2>4
<1> QED
  BY <1>1, <1>2, PTL DEF Spec

--------------------------------------------------------------------------------
(* The object module.                                                           *)

\* What is known when sections are filled.
LEMMA KnownValues ==
    ASSUME SectsInv
    PROVE  ValuesFit(FinalLabels(sects))
<1>1. Len(sects) \in Nat /\ DOMAIN sects = 1 .. Len(sects)
  BY SequenceFacts DEF SectsInv
<1>2. AbsIn(sects) \subseteq 1 .. Len(sects)
  BY <1>1 DEF AbsIn
<1>3. \A s \in AbsIn(sects) : ValuesFit(sects[s].labels)
  BY DEF SectsInv, SectionInv, IsSection, ValuesFit, AbsIn
<1> QED
  BY <1>1, <1>2, <1>3, GatherFits DEF FinalLabels

\* The records of all sections.
LEMMA RecordsAre ==
    ASSUME UpdateInv, ChooseInv, FillInv, stage = "done", NEW s \in DOMAIN sects
    PROVE  /\ IsAbs(Records[s]) /\ Fine(Records[s]) /\ Records[s].name = sects[s].name
           /\ Records[s].alignment = Alignment(sects[s])
           /\ sects[s].name # Abs => IsRel(Records[s])
<1>1. SectsInv /\ GroupInv /\ FieldsFit(templates)
  BY DEF UpdateInv, ChooseInv
<1>2. known = FinalLabels(sects) /\ FilledInv /\ Len(filled) = Len(sects)
  BY DEF FillInv, MadeInv
<1>3. s \in DOMAIN filled
  BY <1>1, <1>2, SequenceFacts DEF SectsInv, FilledInv
<1>4. SectionInv(sects[s], FALSE)
  BY <1>1 DEF SectsInv, GroupInv, SectionInv
<1>5. ValuesFit(known)
  BY <1>1, <1>2, KnownValues
<1>6. filled[s] = FilledOf(sects[s], known, templates) /\ \A i \in DOMAIN filled[s] : ~filled[s][i].code.error
  BY <1>2, <1>3 DEF FilledInv
<1>7. Records[s] = to_object_section_record(sects[s], filled[s])
  BY DEF Records
<1> DEFINE sect == sects[s]
           f == filled[s]
           r == Records[s]
<1> HIDE DEF sect, f, r
<1>8. IsAbs(r) /\ Fine(r) /\ (sect.name # Abs => IsRel(r))
  <2> DEFINE labels == known
             fields == templates
  <2>1. /\ SectionInv(sect, FALSE) /\ ValuesFit(labels) /\ FieldsFit(fields)
        /\ f = FilledOf(sect, labels, fields) /\ (\A i \in DOMAIN f : ~f[i].code.error)
        /\ r = to_object_section_record(sect, f)
    BY <1>1, <1>4, <1>5, <1>6, <1>7 DEF sect, f, r
  <2> HIDE DEF labels, fields
  <2> QED
    BY <2>1, RecordFacts
<1>9. r.name = sect.name /\ r.alignment = Alignment(sect)
  BY <1>7 DEF sect, r, to_object_section_record
<1> QED
  BY <1>8, <1>9 DEF sect, r

\* The relocatable sections of the module.
LEMMA ModuleJoined ==
    ASSUME UpdateInv, ChooseInv, FillInv, stage = "done"
    PROVE  JoinedUpto(sects, Records, Len(sects), objs.rsects)
<1>1. Len(sects) \in Nat /\ DOMAIN sects = 1 .. Len(sects)
  BY SequenceFacts DEF UpdateInv, SectsInv
<1>2. \A s \in 1 .. Len(sects) : Records[s].name = sects[s].name /\
            (sects[s].name # Abs => IsRel(Records[s]) /\ Fine(Records[s]))
  BY <1>1, RecordsAre
<1>3. objs.rsects = concat_rsects
  BY DEF FillInv, MadeInv
<1>4. JoinedUpto(sects, Records, Len(sects), (CHOOSE g : Joining(sects, Records, Len(sects), g))[Len(sects)])
  BY <1>1, <1>2, JoiningFacts
<1> QED
  BY <1>3, <1>4, ConcatIs

\* The absolute sections are some of all.
LEMMA AbsolutesCounted ==
    ASSUME SectsInv
    PROVE  Cardinality(Absolutes) \in Nat /\ Cardinality(Absolutes) <= Len(sects)
<1>1. Len(sects) \in Nat /\ DOMAIN sects = 1 .. Len(sects)
  BY SequenceFacts DEF SectsInv
<1>2. IsFiniteSet(1 .. Len(sects)) /\ Cardinality(1 .. Len(sects)) = Len(sects)
  <2> DEFINE n == Len(sects)
  <2>1. n \in Int /\ n \in Nat
    BY <1>1
  <2> HIDE DEF n
  <2>2. IsFiniteSet(1 .. n) /\ Cardinality(1 .. n) = IF 1 > n THEN 0 ELSE n - 1 + 1
    BY <2>1, FS_Interval
  <2> QED
    BY <2>1, <2>2 DEF n
<1>3. Absolutes \subseteq 1 .. Len(sects)
  BY <1>1 DEF Absolutes
<1>4. IsFiniteSet(Absolutes) /\ Cardinality(Absolutes) <= Cardinality(1 .. Len(sects))
  BY <1>2, <1>3, FS_Subset
<1> QED
  BY <1>2, <1>4, FS_CardinalityType

\* Every variable keeps its type, and what the module holds are sections as the linker
\* expects them (to_object_section_record, concat_rsects).
THEOREM TypesKept == Spec => []TypeOK
<1>1. UpdateInv /\ ChooseInv /\ FillInv => TypeOK
  <2> SUFFICES ASSUME UpdateInv, ChooseInv, FillInv PROVE TypeOK
    OBVIOUS
  <2>1. SectsInv /\ GroupInv
    BY DEF UpdateInv
  <2>2. /\ stage \in {"macros", "read", "absolute", "relocatable", "fill", "done", "failed"}
        /\ changed \in BOOLEAN /\ group \subseteq DOMAIN sects
    BY <2>1 DEF SectsInv, GroupInv
  <2>3. entry \subseteq VaryingOf(group)
    BY <2>1 DEF SectsInv, VaryIn, VaryingOf
  <2>4. \A s \in DOMAIN sects : DOMAIN sects[s].labels = DOMAIN sects[s].declared
    BY <2>1 DEF SectsInv, SectionInv, IsSection
  <2>5. CASE stage # "done"
    <3>1. DOMAIN objs.asects = {} /\ DOMAIN objs.rsects = {}
      BY <2>5 DEF FillInv
    <3> QED
      BY <2>2, <2>3, <2>4, <3>1 DEF TypeOK
  <2>6. CASE stage = "done"
    <3>1. objs.asects = [n \in 1 .. Cardinality(Absolutes) |-> Records[n]]
      BY <2>6 DEF FillInv, MadeInv
    <3>2. \A n \in DOMAIN objs.asects : n \in DOMAIN sects /\ objs.asects[n] = Records[n]
      <4>1. Len(sects) \in Nat /\ DOMAIN sects = 1 .. Len(sects)
        BY <2>1, SequenceFacts DEF SectsInv
      <4>2. Cardinality(Absolutes) \in Nat /\ Cardinality(Absolutes) <= Len(sects)
        BY <2>1, AbsolutesCounted
      <4> QED
        BY <3>1, <4>1, <4>2
    <3>3. \A n \in DOMAIN objs.asects : IsAbs(objs.asects[n])
      BY <2>6, <3>2, RecordsAre
    <3>4. \A n \in DOMAIN objs.rsects : IsJoined(objs.rsects[n])
      BY <2>6, ModuleJoined DEF JoinedUpto, RelSect
    <3> QED
      BY <2>2, <2>3, <2>4, <3>3, <3>4 DEF TypeOK
  <2> QED
    BY <2>5, <2>6
<1> QED
  BY <1>1, SpecFillInv, PTL

--------------------------------------------------------------------------------
(* What the segments filled in.                                                 *)

\* Segment i of section s, with what its expression was found to be.
FilledAt(s, i, p, value) ==
    /\ p = parse_expression(sects[s].segments[i].expr, sects[s], FinalLabels(sects), templates)
    /\ value = calculate_expression(sects[s].segments[i].expr, p, sects[s], FinalLabels(sects))
    /\ Parsed(sects[s].segments[i].expr, sects[s], FinalLabels(sects), templates, p)
    /\ filled[s][i].at = Start(sects[s], i)
    /\ FilledSo(filled[s][i].code, sects[s].segments[i], Start(sects[s], i), p, value)

\* All have filled in what they should.
LEMMA FilledWell ==
    ASSUME UpdateInv, ChooseInv, FillInv, stage = "done",
           NEW s \in DOMAIN sects, NEW i \in DOMAIN sects[s].segments
    PROVE  /\ IsSection(sects[s]) /\ IsSegment(sects[s].segments[i]) /\ Start(sects[s], i) \in Nat
           /\ \E p, value : FilledAt(s, i, p, value)
<1>1. SectsInv /\ FieldsFit(templates)
  BY DEF UpdateInv, ChooseInv
<1>2. known = FinalLabels(sects) /\ FilledInv /\ Len(filled) = Len(sects)
  BY DEF FillInv, MadeInv
<1>3. s \in DOMAIN filled
  BY <1>1, <1>2, SequenceFacts DEF SectsInv, FilledInv
<1>4. IsSection(sects[s])
  BY <1>1 DEF SectsInv, SectionInv
<1>5. /\ DOMAIN sects[s].segments = 1 .. Len(sects[s].segments) /\ IsSegment(sects[s].segments[i])
      /\ Start(sects[s], i) \in Nat
  BY <1>4, StartFacts
<1>6. filled[s] = FilledOf(sects[s], known, templates) /\ \A k \in DOMAIN filled[s] : ~filled[s][k].code.error
  BY <1>2, <1>3 DEF FilledInv
<1> DEFINE sect == sects[s]
           seg == sects[s].segments[i]
           labels == FinalLabels(sects)
           fields == templates
           p == parse_expression(seg.expr, sect, labels, fields)
           value == calculate_expression(seg.expr, p, sect, labels)
           at == Start(sect, i)
           code == filled[s][i].code
<1>7. filled[s][i] = Filled(sect, i, labels, fields) /\ i \in DOMAIN filled[s]
  BY <1>2, <1>5, <1>6 DEF FilledOf
<1>8. filled[s][i].at = at /\ code = fill(seg, at, sect, labels, fields) /\ ~code.error
  BY <1>6, <1>7 DEF Filled
<1>9. Parsed(seg.expr, sect, labels, fields, p)
  <2>1. IsExpression(seg.expr)
    BY <1>5 DEF IsSegment
  <2> DEFINE expr == seg.expr
  <2> HIDE DEF expr
  <2>2. Parsed(expr, sect, labels, fields, parse_expression(expr, sect, labels, fields))
    BY <1>1, <2>1, ParsedFacts DEF expr
  <2> QED
    BY <2>2 DEF expr
<1>10. IsSegment(seg)
  BY <1>5
<1>11. p = parse_expression(seg.expr, sect, labels, fields) /\ value = calculate_expression(seg.expr, p, sect, labels)
  OBVIOUS
<1>12. FilledSo(code, seg, at, p, value)
  <2> HIDE DEF sect, seg, labels, fields, p, value, at, code
  <2> QED
    BY <1>8, <1>9, <1>10, <1>11, FillFacts
<1>13. FilledAt(s, i, p, value)
  <2>1. at = Start(sects[s], i) /\ sect = sects[s] /\ seg = sects[s].segments[i] /\ labels = FinalLabels(sects)
        /\ fields = templates /\ code = filled[s][i].code
    OBVIOUS
  <2> HIDE DEF sect, seg, labels, fields, p, value, at, code
  <2> QED
    BY <1>8, <1>9, <1>11, <1>12, <2>1 DEF FilledAt
<1> QED
  BY <1>4, <1>5, <1>13

--------------------------------------------------------------------------------
(* Alignment.                                                                   *)

\* What follows a padding that fits is aligned.
LEMMA PaddingAligned ==
    ASSUME NEW n \in Nat, NEW a \in Nat \ {0}
    PROVE  (n + ((-n) % a)) % a = 0
<1> DEFINE x == -n
           rest == x % a
<1>1. x \in Int /\ n \in Int /\ rest \in Int
  BY Division
<1>2. (rest + n) % a = (x + n) % a
  BY <1>1, Congruence
<1>3. x + n = 0 /\ n + rest = rest + n
  BY <1>1
<1>4. 0 % a = 0
  <2>1. 0 = a * 0
    OBVIOUS
  <2> QED
    BY <2>1, Multiple
<1> HIDE DEF rest
<1>5. (n + rest) % a = 0
  BY <1>2, <1>3, <1>4
<1> QED
  BY <1>5 DEF rest

\* Where the code that a segment aligns begins.
BehindOf(s, i) ==
    filled[s][i].at + IF sects[s].segments[i].kind = "padding" THEN sects[s].segments[i].size ELSE 0

\* It is aligned as its segment asks.
LEMMA BehindAligned ==
    ASSUME UpdateInv, ChooseInv, FillInv, stage = "done", Regular,
           NEW s \in DOMAIN sects, NEW i \in DOMAIN sects[s].segments
    PROVE  /\ BehindOf(s, i) \in Nat /\ sects[s].segments[i].alignment \in Nat \ {0}
           /\ BehindOf(s, i) % sects[s].segments[i].alignment = 0
<1> DEFINE seg == sects[s].segments[i]
           at == Start(sects[s], i)
           b == BehindOf(s, i)
<1>1. IsSection(sects[s]) /\ IsSegment(seg) /\ at \in Nat /\ \E p, value : FilledAt(s, i, p, value)
  BY FilledWell
<1>2. PICK p, value : FilledAt(s, i, p, value)
  BY <1>1
<1>3. filled[s][i].at = at /\ FilledSo(filled[s][i].code, seg, at, p, value)
  BY <1>2 DEF FilledAt
<1>4. /\ seg.kind \in Kinds /\ seg.size \in Nat /\ seg.alignment \in Nat \ {0}
      /\ seg.kind # "padding" => seg.alignment = IF Instruction(seg) THEN 2 ELSE 1
  BY <1>1 DEF IsSegment
<1>5. CASE seg.kind = "padding"
  <2>1. SettledIn(sects, s, templates) /\ ~sects[s].regrown
    BY DEF ChooseInv, DoneInv, Finished, Regular
  <2>2. Varying(seg)
    BY <1>5 DEF Varying
  <2>3. seg.pos = at /\ Fits(seg)
    BY <1>5, <2>1, <2>2 DEF SettledIn
  <2>4. b = at + ((-at) % seg.alignment)
    <3>1. b = at + seg.size
      BY <1>3, <1>5 DEF BehindOf
    <3>2. seg.size = (-seg.pos) % seg.alignment
      BY <2>3 DEF Fits
    <3>3. seg.pos = at
      BY <2>3
    <3> HIDE DEF seg, at, b
    <3>4. (-seg.pos) % seg.alignment = (-at) % seg.alignment
      BY <3>3
    <3> QED
      BY <3>1, <3>2, <3>4
  <2>5. b \in Nat
    BY <1>1, <1>3, <1>4, <1>5 DEF BehindOf
  <2> HIDE DEF seg, at, b
  <2>6. b % seg.alignment = 0
    BY <1>1, <1>4, <2>4, PaddingAligned
  <2> QED
    BY <1>4, <2>5, <2>6 DEF seg, b
<1>6. CASE seg.kind # "padding"
  <2>1. b = at
    BY <1>1, <1>3, <1>6 DEF BehindOf
  <2>2. CASE Instruction(seg)
    <3>1. at % seg.alignment = 0
      BY <1>3, <2>2 DEF FilledSo
    <3> QED
      BY <1>1, <1>4, <2>1, <3>1
  <2>3. CASE ~Instruction(seg)
    <3>1. seg.alignment = 1
      BY <1>4, <1>6, <2>3
    <3> HIDE DEF seg, at, b
    <3>2. b % 1 = 0
      <4>1. b = 1 * b /\ b \in Int
        BY <1>1, <2>1
      <4> QED
        BY <4>1, Multiple
    <3> QED
      BY <1>1, <2>1, <3>1, <3>2 DEF seg, at, b
  <2> QED
    BY <2>2, <2>3
<1> QED
  BY <1>5, <1>6

\* Those of a name that come before it, in the section they are joined to.
LEMMA PartOfSection ==
    ASSUME NEW z, NEW m \in Nat, NEW recs, NEW list, JoinedUpto(z, recs, m, list),
           NEW s \in 1 .. m, z[s].name # Abs
    PROVE  \E n \in DOMAIN list :
             /\ list[n].name = z[s].name /\ RelSect(list[n])
             /\ Cardinality(Before(z, s, s - 1)) + 1 \in DOMAIN list[n].parts
             /\ list[n].parts[Cardinality(Before(z, s, s - 1)) + 1].alignment = recs[s].alignment
<1> DEFINE c == Cardinality(Before(z, s, s - 1))
<1>1. PICK n \in DOMAIN list :
        /\ list[n].name = z[s].name /\ Len(list[n].parts) = Cardinality(Before(z, s, m))
        /\ list[n].parts[c + 1].alignment = recs[s].alignment
  BY DEF JoinedUpto
<1>2. RelSect(list[n])
  BY DEF JoinedUpto
<1>3. c \in Nat /\ Cardinality(Before(z, s, s)) = c + 1
  <2> DEFINE k == s - 1
  <2>1. k \in Nat /\ k + 1 = s
    OBVIOUS
  <2> HIDE DEF k
  <2>2. /\ Cardinality(Before(z, s, k)) \in Nat
        /\ z[k + 1].name = z[s].name => Cardinality(Before(z, s, k + 1)) = Cardinality(Before(z, s, k)) + 1
    BY <2>1, BeforeFacts
  <2> QED
    BY <2>1, <2>2 DEF k
<1>4. Cardinality(Before(z, s, s)) <= Cardinality(Before(z, s, m)) /\ Cardinality(Before(z, s, m)) \in Nat
  <2>1. Before(z, s, s) \subseteq Before(z, s, m)
    BY DEF Before
  <2>2. IsFiniteSet(Before(z, s, m)) /\ Cardinality(Before(z, s, m)) \in Nat
    BY BeforeFacts
  <2> QED
    BY <2>1, <2>2, FS_Subset
<1>5. DOMAIN list[n].parts = 1 .. Len(list[n].parts)
  BY <1>2 DEF RelSect, IsJoined
<1> HIDE DEF c
<1>6. c + 1 \in DOMAIN list[n].parts
  BY <1>1, <1>3, <1>4, <1>5
<1> QED
  BY <1>1, <1>2, <1>6 DEF c

\* The code is aligned as it was asked to be.
LEMMA Aligned ==
    ASSUME UpdateInv, ChooseInv, FillInv
    PROVE  AlignedAsAsked
<1> SUFFICES ASSUME stage = "done", Regular, NEW s \in DOMAIN sects, NEW i \in DOMAIN sects[s].segments
             PROVE  LET seg == sects[s].segments[i]
                        behind == filled[s][i].at + IF seg.kind = "padding" THEN seg.size ELSE 0
                        sect == objs.rsects[CHOOSE n \in DOMAIN objs.rsects : objs.rsects[n].name = sects[s].name]
                        part == Cardinality({r \in SameName(s) : r < s}) + 1
                    IN IF IsAbsolute(s) THEN behind % seg.alignment = 0
                       ELSE /\ (behind + sect.parts[part].offset) % seg.alignment = 0
                            /\ sect.alignment % seg.alignment = 0
  BY Zenon DEF AlignedAsAsked
<1> DEFINE list == objs.rsects
           b == BehindOf(s, i)
           a == sects[s].segments[i].alignment
           at == CHOOSE n \in DOMAIN list : list[n].name = sects[s].name
           sect == list[at]
           part == Cardinality({r \in SameName(s) : r < s}) + 1
<1>1. b \in Nat /\ a \in Nat \ {0} /\ b % a = 0
  BY BehindAligned
<1>2. ASSUME ~IsAbsolute(s)
      PROVE  (b + sect.parts[part].offset) % a = 0 /\ sect.alignment % a = 0
  <2>1. sects[s].name # Abs
    BY <1>2 DEF IsAbsolute
  <2>2. Len(sects) \in Nat /\ DOMAIN sects = 1 .. Len(sects) /\ s \in 1 .. Len(sects)
    BY SequenceFacts DEF UpdateInv, SectsInv
  <2>3. JoinedUpto(sects, Records, Len(sects), list)
    BY ModuleJoined
  <2>4. PICK n \in DOMAIN list :
             /\ list[n].name = sects[s].name /\ RelSect(list[n])
             /\ Cardinality(Before(sects, s, s - 1)) + 1 \in DOMAIN list[n].parts
             /\ list[n].parts[Cardinality(Before(sects, s, s - 1)) + 1].alignment = Records[s].alignment
    <3> HIDE DEF list
    <3> QED
      BY <2>1, <2>2, <2>3, PartOfSection
  <2>5. at = n
    BY <2>3, <2>4 DEF JoinedUpto
  <2>6. part = Cardinality(Before(sects, s, s - 1)) + 1
    <3>1. {r \in SameName(s) : r < s} = Before(sects, s, s - 1)
      BY <2>2 DEF SameName, Before
    <3> QED
      BY <3>1
  <2>7. Records[s].alignment = Alignment(sects[s])
    BY RecordsAre
  <2>8. IsSection(sects[s])
    BY FilledWell
  <2>9. Alignment(sects[s]) \in Nat \ {0} /\ Alignment(sects[s]) % a = 0
    BY <2>1, <2>8, AlignmentFacts
  <2> HIDE DEF list, at, part, a, b
  <2>10. /\ part \in DOMAIN sect.parts /\ sect.parts[part].alignment = Alignment(sects[s]) /\ RelSect(sect)
    BY <2>4, <2>5, <2>6, <2>7
  <2> HIDE DEF sect
  <2>11. /\ sect.parts[part].offset % Alignment(sects[s]) = 0 /\ sect.alignment % Alignment(sects[s]) = 0
         /\ sect.parts[part].offset \in Nat /\ sect.alignment \in Nat
    <3>1. PiecesOf(sect) /\ sect.parts \in Seq(Part) /\ sect.alignment \in Nat
      BY <2>10 DEF RelSect, IsJoined, IsRel, Part
    <3>2. sect.parts[part] \in Part
      BY <2>10, <3>1
    <3>3. sect.parts[part].offset \in Nat
      BY <3>2 DEF Part
    <3>4. /\ sect.parts[part].offset % sect.parts[part].alignment = 0
          /\ sect.alignment % sect.parts[part].alignment = 0
      BY <2>10, <3>1 DEF PiecesOf
    <3> QED
      BY <2>10, <3>1, <3>3, <3>4
  <2>12. sect.parts[part].offset % a = 0 /\ sect.alignment % a = 0
    <3>1. sect.parts[part].offset \in Int /\ sect.alignment \in Int
      BY <2>11
    <3> QED
      BY <1>1, <2>9, <2>11, <3>1, MultipleOfMultiple
  <2>13. (b + sect.parts[part].offset) % a = 0
    <3> DEFINE o == sect.parts[part].offset
    <3>1. b \in Int /\ o \in Int /\ o % a = 0
      BY <1>1, <2>11, <2>12
    <3> HIDE DEF o
    <3> QED
      BY <1>1, <3>1, SumOfMultiples DEF o
  <2> QED
    BY <2>12, <2>13
<1> QED
  BY <1>1, <1>2 DEF BehindOf

--------------------------------------------------------------------------------
(* Labels and what expressions mean.                                            *)

\* Labels of absolute sections, known to those that are no sections of their own.
Elsewhere(s, w) == w \in DOMAIN FinalLabels(sects) /\ w \notin DOMAIN sects[s].labels

\* A label of a section is where it is declared.
LEMMA LabelTrue ==
    ASSUME UpdateInv, NEW s \in DOMAIN sects, ~sects[s].regrown, NEW w \in DOMAIN sects[s].labels
    PROVE  sects[s].labels[w] = TrueAddress(s, w) /\ TrueAddress(s, w) \in Nat
<1>1. SectionInv(sects[s], FALSE)
  BY DEF UpdateInv, SectsInv, SectionInv
<1>2. PICK place : Placing(sects[s], place)
  BY <1>1 DEF SectionInv
<1>3. IsSection(sects[s]) /\ sects[s].labels[w] \in Nat
  BY <1>1, LabelValues DEF SectionInv
<1>4. sects[s].declared[w] \in 1 .. Len(sects[s].segments) + 1
  BY <1>3 DEF IsSection
<1>5. sects[s].labels[w] = Start(sects[s], sects[s].declared[w])
  BY <1>2, <1>4 DEF Placing
<1> QED
  BY <1>3, <1>5 DEF TrueAddress

\* Of a label that stands in one absolute section only, its place there is known.
StandsIn(z, w, h) == w \in Labels /\ FinalLabels(z)[w] = z[h].labels[w]

\* Where a label that is known of absolute sections stands.
LEMMA HomeKnown ==
    ASSUME NEW z, NEW n \in Nat, AbsIn(z) \subseteq 1 .. n, OnceIn(z), NEW w \in DOMAIN FinalLabels(z)
    PROVE  /\ w \in Labels /\ \E h \in AbsIn(z) : w \in DOMAIN z[h].labels
           /\ \A h \in AbsIn(z) : w \in DOMAIN z[h].labels => StandsIn(z, w, h)
<1> DEFINE S == AbsIn(z)
           G == GatherIn(z, S)
<1>1. S \subseteq 1 .. n /\ w \in DOMAIN G /\ G = FinalLabels(z)
  BY DEF FinalLabels
<1> HIDE DEF S
<1>0. S \subseteq 1 .. n /\ w \in DOMAIN GatherIn(z, S)
  BY <1>1
<1>2. PICK a \in S : PlacedIn(z, S, w, a)
  BY <1>0, GatherFacts
<1>3. w \in Labels
  BY <1>1 DEF GatherIn
<1> HIDE DEF G
<1>4. \A h \in S : w \in DOMAIN z[h].labels => h = a
  BY <1>2, <1>3 DEF OnceIn, PlacedIn, S
<1>5. \A h \in S : w \in DOMAIN z[h].labels => StandsIn(z, w, h)
  BY <1>1, <1>2, <1>3, <1>4 DEF StandsIn, PlacedIn, G
<1> QED
  BY <1>2, <1>3, <1>5 DEF PlacedIn, S

\* What a segment takes a label to be is where it is, in the one section that has it.
LEMMA LabelHome ==
    ASSUME UpdateInv, Regular, NEW s \in DOMAIN sects, NEW w,
           w \in DOMAIN sects[s].labels \/ Elsewhere(s, w)
    PROVE  /\ LabelValue(w, sects[s], FinalLabels(sects)) = TrueAddress(Home(s, w), w)
           /\ TrueAddress(Home(s, w), w) \in Nat
           /\ w \in DOMAIN sects[s].labels => Home(s, w) = s
           /\ w \notin DOMAIN sects[s].labels => IsAbsolute(Home(s, w))
<1>1. CASE w \in DOMAIN sects[s].labels
  <2>1. Home(s, w) = s
    BY <1>1 DEF Home
  <2>2. LabelValue(w, sects[s], FinalLabels(sects)) = sects[s].labels[w]
    BY <1>1 DEF LabelValue
  <2>3. sects[s].labels[w] = TrueAddress(s, w) /\ TrueAddress(s, w) \in Nat
    BY <1>1, LabelTrue DEF Regular
  <2> QED
    BY <1>1, <2>1, <2>2, <2>3
<1>2. CASE w \notin DOMAIN sects[s].labels
  <2> DEFINE S == AbsIn(sects)
             n == Len(sects)
             h == Home(s, w)
  <2>1. Elsewhere(s, w) /\ n \in Nat /\ S \subseteq 1 .. n
    BY <1>2, SequenceFacts DEF UpdateInv, SectsInv, AbsIn
  <2>2. Absolutes = S
    BY GatherIs
  <2>3. OnceIn(sects)
    BY <2>2 DEF Regular, OnceIn
  <2>4. /\ \E b \in S : w \in DOMAIN sects[b].labels
        /\ \A b \in S : w \in DOMAIN sects[b].labels => StandsIn(sects, w, b)
    <3>1. w \in DOMAIN FinalLabels(sects)
      BY <2>1 DEF Elsewhere
    <3> HIDE DEF n
    <3> QED
      BY <2>1, <2>3, <3>1, HomeKnown
  <2>6. h = CHOOSE b \in Absolutes : w \in DOMAIN sects[b].labels
    BY <1>2 DEF Home
  <2>7. h \in S /\ w \in DOMAIN sects[h].labels
    <3> HIDE DEF h, S
    <3> QED
      BY <2>2, <2>4, <2>6
  <2>9. LabelValue(w, sects[s], FinalLabels(sects)) = sects[h].labels[w]
    <3>1. LabelValue(w, sects[s], FinalLabels(sects)) = FinalLabels(sects)[w]
      BY <1>2 DEF LabelValue
    <3>2. StandsIn(sects, w, h)
      <4> HIDE DEF h, S
      <4> QED
        BY <2>4, <2>7
    <3> HIDE DEF h
    <3> QED
      BY <3>1, <3>2 DEF StandsIn
  <2>10. h \in DOMAIN sects /\ ~sects[h].regrown /\ IsAbsolute(h)
    BY <2>7 DEF AbsIn, Regular, IsAbsolute
  <2>11. sects[h].labels[w] = TrueAddress(h, w) /\ TrueAddress(h, w) \in Nat
    <3> HIDE DEF h, S
    <3> QED
      BY <2>7, <2>10, LabelTrue
  <2> QED
    BY <1>2, <2>9, <2>10, <2>11
<1> QED
  BY <1>1, <1>2

\* The address a term stands for, as Meaning has it.
AddressOf(s, w) ==
    IF w \in sects[s].exts THEN External
    ELSE TrueAddress(Home(s, w), w) + IF IsAbsolute(Home(s, w)) THEN 0 ELSE Base
MeantOf(s, expr) ==
    expr.const + SumFunctionOnSet(SizesOf(expr, templates), DOMAIN expr.fields)
    + SumFunctionOnSet([w \in TermsOf(expr) |-> Times(expr, w) * AddressOf(s, w)], TermsOf(expr))

\* The meaning of an expression in these words.
LEMMA MeaningMeant ==
    ASSUME NEW s, NEW expr
    PROVE  Meaning(s, expr) = MeantOf(s, expr)
BY Zenon DEF Meaning, MeantOf, SizesOf, AddressOf

\* The terms of an expression: external labels, those of its section and those of others.
LEMMA TermsAre ==
    ASSUME UpdateInv, Regular, NEW s \in DOMAIN sects, NEW expr, NEW p,
           Parsed(expr, sects[s], FinalLabels(sects), templates, p), ~p.error
    PROVE  /\ UsedIn(expr) \subseteq TermsOf(expr)
           /\ p.ext \subseteq UsedIn(expr) /\ p.ext \subseteq sects[s].exts
           /\ UsedIn(expr) \ p.ext = p.asect \cup p.rel /\ p.rel \subseteq UsedIn(expr) \ p.ext
           /\ \A w \in UsedIn(expr) \ p.ext :
                /\ w \notin sects[s].exts /\ LabelValue(w, sects[s], FinalLabels(sects)) \in Nat
                /\ AddressOf(s, w) =
                     LabelValue(w, sects[s], FinalLabels(sects)) + IF w \in p.rel THEN Base ELSE 0
           /\ \A w \in TermsOf(expr) : AddressOf(s, w) \in Int
<1> DEFINE sect == sects[s]
           labels == FinalLabels(sects)
<1>1. /\ p.ext = UsedIn(expr) \cap sect.exts
      /\ p.rel = IF sect.name = Abs THEN {} ELSE UsedIn(expr) \cap OwnOf(sect)
      /\ p.asect = UsedIn(expr) \ (sect.exts \cup p.rel)
      /\ TermsOf(expr) \subseteq sect.exts \cup OwnOf(sect) \cup DOMAIN labels
  BY DEF Parsed
<1>2. UsedIn(expr) \subseteq TermsOf(expr)
  BY DEF UsedIn
<1>3. ASSUME NEW w \in TermsOf(expr), w \notin sect.exts
      PROVE  /\ LabelValue(w, sect, labels) \in Nat
             /\ AddressOf(s, w) = LabelValue(w, sect, labels) +
                    IF sect.name # Abs /\ w \in OwnOf(sect) THEN Base ELSE 0
  <2>1. w \in DOMAIN sect.labels \/ Elsewhere(s, w)
    BY <1>1, <1>3 DEF OwnOf, Elsewhere
  <2>2. /\ LabelValue(w, sect, labels) = TrueAddress(Home(s, w), w)
        /\ TrueAddress(Home(s, w), w) \in Nat
        /\ w \in DOMAIN sect.labels => Home(s, w) = s
        /\ w \notin DOMAIN sect.labels => IsAbsolute(Home(s, w))
    BY <2>1, LabelHome
  <2>3. AddressOf(s, w) = TrueAddress(Home(s, w), w) + IF IsAbsolute(Home(s, w)) THEN 0 ELSE Base
    BY <1>3 DEF AddressOf
  <2>4. IsAbsolute(Home(s, w)) <=> ~(sect.name # Abs /\ w \in OwnOf(sect))
    <3>1. CASE w \in DOMAIN sect.labels
      BY <1>3, <2>2, <3>1 DEF OwnOf, IsAbsolute
    <3>2. CASE w \notin DOMAIN sect.labels
      BY <2>2, <3>2 DEF OwnOf
    <3> QED
      BY <3>1, <3>2
  <2> QED
    BY <2>2, <2>3, <2>4
<1>4. ASSUME NEW w \in UsedIn(expr) \ p.ext
      PROVE  /\ w \notin sect.exts /\ LabelValue(w, sect, labels) \in Nat
             /\ AddressOf(s, w) = LabelValue(w, sect, labels) + IF w \in p.rel THEN Base ELSE 0
  <2>1. w \notin sect.exts /\ w \in TermsOf(expr)
    BY <1>1, <1>2
  <2>2. w \in p.rel <=> sect.name # Abs /\ w \in OwnOf(sect)
    BY <1>1
  <2> QED
    BY <1>3, <2>1, <2>2
<1>5. \A w \in TermsOf(expr) : AddressOf(s, w) \in Int
  <2> SUFFICES ASSUME NEW w \in TermsOf(expr) PROVE AddressOf(s, w) \in Int
    OBVIOUS
  <2>1. CASE w \in sect.exts
    BY <2>1 DEF AddressOf, External
  <2>2. CASE w \notin sect.exts
    BY <1>3, <2>2 DEF Base
  <2> QED
    BY <2>1, <2>2
<1>6. p.ext \subseteq UsedIn(expr) /\ p.ext \subseteq sect.exts
      /\ UsedIn(expr) \ p.ext = p.asect \cup p.rel /\ p.rel \subseteq UsedIn(expr) \ p.ext
  BY <1>1 DEF OwnOf
<1> QED
  BY <1>2, <1>4, <1>5, <1>6

\* What a multiple of a sum is.
LEMMA Distributed ==
    ASSUME NEW t \in Int, NEW l \in Int, NEW b \in Int
    PROVE  t * (l + b) = t * l + b * t /\ t * l \in Int /\ b * t \in Int /\ t * (l + 0) = t * l + b * 0
OBVIOUS

\* That a function is the sum of another and of a multiple of a third, and so its sum.
Combines(h, f, k, g, S) == \A x \in S : f[x] \in Int /\ g[x] \in Int /\ h[x] = f[x] + k * g[x]
SumCombines(h, f, k, g, S) == SumFunctionOnSet(h, S) = SumFunctionOnSet(f, S) + k * SumFunctionOnSet(g, S)

\* What SumLinear says, in these words.
LEMMA SumCombined ==
    ASSUME NEW S, IsFiniteSet(S), NEW f, NEW g, NEW h, NEW k \in Int, Combines(h, f, k, g, S)
    PROVE  SumCombines(h, f, k, g, S)
BY SumLinear DEF Combines, SumCombines

\* The sum over the terms that are no external labels.
LEMMA SumOwn ==
    ASSUME NEW K, IsFiniteSet(K), NEW rel, rel \subseteq K, NEW F, NEW V, NEW t, NEW b \in Int,
           \A w \in K : V[w] \in Int /\ t[w] \in Int /\ F[w] = V[w] + IF w \in rel THEN b * t[w] ELSE 0
    PROVE  /\ SumFunctionOnSet(V, K) \in Int /\ SumFunctionOnSet(t, rel) \in Int
           /\ SumFunctionOnSet(F, K) = SumFunctionOnSet(V, K) + b * SumFunctionOnSet(t, rel)
<1> DEFINE g == [w \in K |-> IF w \in rel THEN t[w] ELSE 0]
<1>1. \A w \in K : V[w] \in Int /\ g[w] \in Int /\ F[w] = V[w] + b * g[w]
  <2> SUFFICES ASSUME NEW w \in K PROVE V[w] \in Int /\ g[w] \in Int /\ F[w] = V[w] + b * g[w]
    OBVIOUS
  <2>1. g[w] = IF w \in rel THEN t[w] ELSE 0
    OBVIOUS
  <2> HIDE DEF g
  <2>2. CASE w \in rel
    BY <2>1, <2>2
  <2>3. CASE w \notin rel
    <3>1. b * 0 = 0
      OBVIOUS
    <3> QED
      BY <2>1, <2>3, <3>1
  <2> QED
    BY <2>2, <2>3
<1>2. \A w \in K \ rel : g[w] = 0
  OBVIOUS
<1>3. \A w \in rel : t[w] \in Int /\ g[w] = t[w]
  OBVIOUS
<1>4. IsFiniteSet(rel)
  BY FS_Subset
<1> HIDE DEF g
<1>5. SumFunctionOnSet(F, K) = SumFunctionOnSet(V, K) + b * SumFunctionOnSet(g, K)
  <2>1. Combines(F, V, b, g, K)
    BY <1>1 DEF Combines
  <2>2. SumCombines(F, V, b, g, K)
    BY <2>1, SumCombined
  <2> QED
    BY <2>2 DEF SumCombines
<1>6. SumFunctionOnSet(g, K) = SumFunctionOnSet(g, rel)
  BY <1>1, <1>2, SumZero
<1>7. SumFunctionOnSet(g, rel) = SumFunctionOnSet(t, rel)
  BY <1>3, <1>4, SumEqual
<1>8. SumFunctionOnSet(V, K) \in Int /\ SumFunctionOnSet(t, rel) \in Int
  BY <1>1, <1>3, <1>4, SumFacts
<1> QED
  BY <1>5, <1>6, <1>7, <1>8

\* The sum over external labels is the address of the one there may be.
LEMMA SumExternal ==
    ASSUME NEW F, NEW S
    PROVE  /\ S = {} => SumFunctionOnSet(F, S) = 0
           /\ \A w : S = {w} /\ F[w] \in Int => SumFunctionOnSet(F, S) = F[w]
<1>1. SumFunctionOnSet(F, {}) = 0
  BY SumChosen
<1>2. ASSUME NEW w, S = {w}, F[w] \in Int PROVE SumFunctionOnSet(F, S) = F[w]
  <2>1. IsFiniteSet({w})
    BY FS_Singleton
  <2> DEFINE T == {w}
  <2>2. T \ {w} = {} /\ w \in T /\ (\A x \in T : F[x] \in Int) /\ IsFiniteSet(T) /\ T = S
    BY <1>2, <2>1
  <2> HIDE DEF T
  <2>3. SumFunctionOnSet(F, T) = F[w] + SumFunctionOnSet(F, T \ {w})
    BY <2>2, SumFacts
  <2> QED
    BY <1>1, <1>2, <2>2, <2>3
<1> QED
  BY <1>1, <1>2

\* What an expression means is its value, and the address of its section and of external
\* labels besides, as often as it says.
Means(m, value, p, expr) ==
    \E e \in Int : /\ m = value + (Base * p.relocate_additions) + e
                   /\ p.ext = {} => e = 0
                   /\ \A w : p.ext = {w} /\ Times(expr, w) = 1 => e = External

\* What an expression that is accepted means.
LEMMA MeaningIs ==
    ASSUME UpdateInv, ChooseInv, Regular, NEW s \in DOMAIN sects, NEW expr, IsExpression(expr), NEW p,
           Parsed(expr, sects[s], FinalLabels(sects), templates, p), ~p.error,
           NEW value, value = calculate_expression(expr, p, sects[s], FinalLabels(sects))
    PROVE  value \in Int /\ Means(Meaning(s, expr), value, p, expr)
<1> DEFINE sect == sects[s]
           labels == FinalLabels(sects)
           T == TermsOf(expr)
           U == UsedIn(expr)
           K == p.asect \cup p.rel
           F == [w \in T |-> Times(expr, w) * AddressOf(s, w)]
           V == ValuesOf(expr, sect, labels, K)
           sizes == SumFunctionOnSet(SizesOf(expr, templates), DOMAIN expr.fields)
           e == SumFunctionOnSet(F, p.ext)
<1>1. ValuesFit(sect.labels) /\ ValuesFit(labels)
  <2>1. SectionInv(sect, FALSE)
    BY DEF UpdateInv, SectsInv, SectionInv
  <2>2. ValuesFit(sect.labels)
    <3> HIDE DEF sect
    <3> QED
      BY <2>1, LabelValues
  <2> QED
    BY <2>2, KnownValues DEF UpdateInv
<1>2. IsFiniteSet(T) /\ \A w : Times(expr, w) \in Int
  BY TermFacts
<1>3. /\ U \subseteq T /\ p.ext \subseteq U /\ p.ext \subseteq sect.exts /\ U \ p.ext = K /\ p.rel \subseteq K
      /\ \A w \in K :
           /\ w \notin sect.exts /\ LabelValue(w, sect, labels) \in Nat
           /\ AddressOf(s, w) = LabelValue(w, sect, labels) + IF w \in p.rel THEN Base ELSE 0
      /\ \A w \in T : AddressOf(s, w) \in Int
  BY TermsAre
<1>4. \A w \in T : F[w] = Times(expr, w) * AddressOf(s, w) /\ F[w] \in Int
  BY <1>2, <1>3
<1>5. p.value = expr.const + sizes /\ p.value \in Int /\ expr.const \in Int
      /\ p.relocate_additions = SumFunctionOnSet(TimesOf(expr, p.rel), p.rel) /\ p.relocate_additions \in Int
  BY DEF Parsed, IsExpression
<1>6. sizes \in Int
  <2>1. IsFiniteSet(DOMAIN expr.fields) /\ \A i \in DOMAIN expr.fields : SizesOf(expr, templates)[i] \in Int
    BY TermFacts DEF Parsed
  <2> QED
    BY <2>1, SumFacts
<1>7. value = p.value + SumFunctionOnSet(V, K)
  <2> HIDE DEF sect, labels
  <2> QED
    BY <1>1, CalculatedFacts DEF sect, labels
<1>8. Meaning(s, expr) = expr.const + sizes + SumFunctionOnSet(F, T)
  BY MeaningMeant, Zenon DEF MeantOf
<1>9. IsFiniteSet(U) /\ IsFiniteSet(K) /\ IsFiniteSet(p.ext)
  BY <1>2, <1>3, FS_Subset
<1>10. \A w \in K : V[w] \in Int /\ TimesOf(expr, K)[w] \in Int /\ V[w] = Times(expr, w) * LabelValue(w, sect, labels)
                    /\ TimesOf(expr, K)[w] = Times(expr, w)
  BY <1>2, <1>3 DEF ValuesOf, TimesOf
<1>11. \A w \in K : F[w] = V[w] + IF w \in p.rel THEN Base * TimesOf(expr, K)[w] ELSE 0
  <2> SUFFICES ASSUME NEW w \in K PROVE F[w] = V[w] + IF w \in p.rel THEN Base * TimesOf(expr, K)[w] ELSE 0
    OBVIOUS
  <2> DEFINE t == Times(expr, w)
             l == LabelValue(w, sect, labels)
             b == Base
  <2>1. t \in Int /\ l \in Int /\ b \in Int
    BY <1>2, <1>3 DEF Base
  <2>2. V[w] = t * l /\ TimesOf(expr, K)[w] = t /\ w \in T
    BY <1>3, <1>10
  <2>3. F[w] = t * (l + IF w \in p.rel THEN b ELSE 0)
    BY <1>3, <1>4, <2>2
  <2> HIDE DEF t, l, b
  <2>4. t * (l + b) = t * l + b * t /\ t * (l + 0) = t * l + b * 0 /\ t * l \in Int
    BY <2>1, Distributed
  <2>5. CASE w \in p.rel
    <3>1. F[w] = V[w] + b * t
      BY <2>2, <2>3, <2>4, <2>5
    <3> QED
      BY <2>2, <2>5, <3>1 DEF b
  <2>6. CASE w \notin p.rel
    <3>1. F[w] = t * (l + 0) /\ l + 0 = l
      BY <2>1, <2>3, <2>6
    <3>2. F[w] = V[w] + 0
      BY <2>2, <2>4, <3>1
    <3> QED
      BY <2>6, <3>2
  <2> QED
    BY <2>5, <2>6
<1>12. SumFunctionOnSet(TimesOf(expr, K), p.rel) = p.relocate_additions
  <2>1. IsFiniteSet(p.rel)
    BY <1>3, <1>9, FS_Subset
  <2>2. \A w \in p.rel : TimesOf(expr, p.rel)[w] \in Int /\ TimesOf(expr, K)[w] = TimesOf(expr, p.rel)[w]
    BY <1>2, <1>3 DEF TimesOf
  <2>3. SumFunctionOnSet(TimesOf(expr, K), p.rel) = SumFunctionOnSet(TimesOf(expr, p.rel), p.rel)
    BY <2>1, <2>2, SumEqual
  <2> QED
    BY <1>5, <2>3
<1> HIDE DEF F, V, K, T, U, sizes, e
<1>13. SumFunctionOnSet(F, T) = SumFunctionOnSet(F, U)
  <2>1. \A w \in T \ U : F[w] = 0
    <3> SUFFICES ASSUME NEW w \in T \ U PROVE F[w] = 0
      OBVIOUS
    <3>1. Times(expr, w) = 0 /\ AddressOf(s, w) \in Int
      BY <1>3 DEF U, T, UsedIn
    <3> QED
      BY <1>4, <3>1
  <2> QED
    BY <1>2, <1>3, <1>4, <2>1, SumZero
<1>14. SumFunctionOnSet(F, U) = SumFunctionOnSet(F, p.ext) + SumFunctionOnSet(F, K)
  <2>1. \A w \in U : F[w] \in Int
    BY <1>3, <1>4
  <2>2. SumFunctionOnSet(F, U) = SumFunctionOnSet(F, p.ext) + SumFunctionOnSet(F, U \ p.ext)
    BY <1>3, <1>9, <2>1, SumSplit
  <2> QED
    BY <1>3, <2>2
<1>15. /\ SumFunctionOnSet(V, K) \in Int
       /\ SumFunctionOnSet(F, K) = SumFunctionOnSet(V, K) + Base * SumFunctionOnSet(TimesOf(expr, K), p.rel)
  <2>1. Base \in Int
    BY DEF Base
  <2> QED
    BY <1>3, <1>9, <1>10, <1>11, <2>1, SumOwn
<1>16. e \in Int /\ e = SumFunctionOnSet(F, p.ext)
  <2>1. \A w \in p.ext : F[w] \in Int
    BY <1>3, <1>4
  <2> QED
    BY <1>9, <2>1, SumFacts DEF e
<1>17. p.ext = {} => e = 0
  BY <1>16, SumExternal
<1>18. ASSUME NEW w, p.ext = {w}, Times(expr, w) = 1 PROVE e = External
  <2>1. w \in T /\ w \in sect.exts
    BY <1>3, <1>18
  <2>2. F[w] = 1 * External /\ External \in Int
    BY <1>4, <1>18, <2>1 DEF AddressOf, External
  <2>3. F[w] = External /\ F[w] \in Int
    BY <2>2
  <2> QED
    BY <1>16, <1>18, <2>3, SumExternal
<1> DEFINE v == SumFunctionOnSet(V, K)
           c == Base * p.relocate_additions
           m == Meaning(s, expr)
<1>19. c \in Int
  BY <1>5 DEF Base
<1>20. m = expr.const + sizes + (e + (v + c)) /\ value = expr.const + sizes + v
  BY <1>5, <1>7, <1>8, <1>12, <1>13, <1>14, <1>15, <1>16
<1>21. v \in Int /\ e \in Int /\ sizes \in Int /\ expr.const \in Int
  BY <1>5, <1>6, <1>15, <1>16
<1> HIDE DEF v, c, m
<1>22. value \in Int /\ m = value + c + e
  BY <1>19, <1>20, <1>21
<1>23. Means(m, value, p, expr)
  BY <1>16, <1>17, <1>18, <1>22 DEF Means, c
<1> QED
  BY <1>22, <1>23 DEF m

--------------------------------------------------------------------------------
(* Values.                                                                      *)

\* What becomes of the value of code when its section and external labels get their
\* places.
LEMMA RelocatedIs ==
    ASSUME NEW code, code.value \in Int
    PROVE  /\ code.fields = <<>> => Relocated(code) = code.value
           /\ \A e : code.fields = <<e>> /\ e.label = Null => Relocated(code) = code.value + Base
           /\ \A e : code.fields = <<e>> /\ e.label # Null => Relocated(code) = code.value + External
<1> DEFINE D == DOMAIN code.fields
           own == {n \in D : code.fields[n].label = Null}
<1>1. Relocated(code) = code.value + Base * Cardinality(own) + External * Cardinality(D \ own)
  BY Zenon DEF Relocated
<1>2. Cardinality({}) = 0 /\ Cardinality({1}) = 1
  BY FS_EmptySet, FS_Singleton
<1>3. ASSUME code.fields = <<>> PROVE Relocated(code) = code.value
  <2>1. D = {} /\ own = {} /\ D \ own = {}
    BY <1>3
  <2> HIDE DEF D, own
  <2> QED
    BY <1>1, <1>2, <2>1 DEF Base, External
<1>4. ASSUME NEW e, code.fields = <<e>>, e.label = Null PROVE Relocated(code) = code.value + Base
  <2>1. D = {1} /\ code.fields[1] = e
    BY <1>4
  <2>2. own = {1} /\ D \ own = {}
    BY <1>4, <2>1
  <2> HIDE DEF D, own
  <2>3. Cardinality(own) = 1 /\ Cardinality(D \ own) = 0
    BY <1>2, <2>2
  <2> QED
    BY <1>1, <2>3 DEF Base, External
<1>5. ASSUME NEW e, code.fields = <<e>>, e.label # Null PROVE Relocated(code) = code.value + External
  <2>1. D = {1} /\ code.fields[1] = e
    BY <1>5
  <2>2. own = {} /\ D \ own = {1}
    BY <1>5, <2>1
  <2> HIDE DEF D, own
  <2> QED
    BY <1>1, <1>2, <2>2 DEF Base, External
<1> QED
  BY <1>3, <1>4, <1>5

\* A word holds what its expression means.
LEMMA WordExact ==
    ASSUME NEW code, NEW expr, NEW at, NEW p, p.ext \subseteq Labels, NEW value \in Int,
           Expressed(code, expr, at, p, value), NEW m, Means(m, value, p, expr)
    PROVE  Relocated(code) % Power(2) = m % Power(2)
<1> DEFINE M == Power(2)
<1>1. M \in Nat \ {0}
  BY PowerType
<1>2. code.value = value % M
  BY DEF Expressed
<1> HIDE DEF M
<1>3. code.value \in Int
  BY <1>1, <1>2, Division
<1>4. PICK e \in Int : /\ m = value + (Base * p.relocate_additions) + e
                       /\ p.ext = {} => e = 0
                       /\ \A w : p.ext = {w} /\ Times(expr, w) = 1 => e = External
  BY DEF Means
<1>5. CASE p.ext = {} /\ p.relocate_additions = 0 /\ code.fields = <<>>
  <2>1. m = value
    BY <1>4, <1>5 DEF Base
  <2>2. Relocated(code) = value % M
    BY <1>2, <1>3, <1>5, RelocatedIs
  <2> QED
    BY <1>1, <2>1, <2>2, Remainder DEF M
<1>6. CASE p.ext = {} /\ p.relocate_additions = 1 /\ code.fields = <<Entry16(Null, at, value)>>
  <2>1. m = value + Base /\ Base \in Int
    BY <1>4, <1>6 DEF Base
  <2>2. Entry16(Null, at, value).label = Null
    BY DEF Entry16
  <2>3. Relocated(code) = (value % M) + Base
    BY <1>2, <1>3, <1>6, <2>2, RelocatedIs
  <2>4. ((value % M) + Base) % M = (value + Base) % M
    BY <1>1, <2>1, Congruence
  <2> QED
    BY <2>1, <2>3, <2>4 DEF M
<1>7. CASE \E w \in p.ext : /\ p.ext = {w} /\ Times(expr, w) = 1 /\ p.relocate_additions = 0
                            /\ code.fields = <<Entry16(w, at, value)>>
  <2>1. PICK w \in p.ext : /\ p.ext = {w} /\ Times(expr, w) = 1 /\ p.relocate_additions = 0
                           /\ code.fields = <<Entry16(w, at, value)>>
    BY <1>7
  <2>2. m = value + External /\ External \in Int
    BY <1>4, <2>1 DEF Base, External
  <2>3. Entry16(w, at, value).label = w /\ w # Null
    BY <2>1, ModuleAssumption DEF Entry16
  <2>4. Relocated(code) = (value % M) + External
    BY <1>2, <1>3, <2>1, <2>3, RelocatedIs
  <2>5. ((value % M) + External) % M = (value + External) % M
    BY <1>1, <2>2, Congruence
  <2> QED
    BY <2>2, <2>4, <2>5 DEF M
<1> QED
  BY <1>5, <1>6, <1>7 DEF Expressed

\* An immediate has a value that no place changes.
LEMMA PlainMeaning ==
    ASSUME NEW m, NEW value \in Int, NEW p, NEW expr, ~Unknown(p), Means(m, value, p, expr)
    PROVE  m = value
BY DEF Means, Unknown, Base

\* What the lengths of a section were chosen for holds to the end.
LEMMA SegmentSettled ==
    ASSUME ChooseInv, stage = "done", Regular, NEW s \in DOMAIN sects,
           NEW i \in DOMAIN sects[s].segments, Varying(sects[s].segments[i])
    PROVE  /\ sects[s].segments[i].pos = Start(sects[s], i)
           /\ Chosen(sects[s].segments[i], sects[s], FinalLabels(sects), templates)
<1>1. SettledIn(sects, s, templates)
  BY DEF ChooseInv, DoneInv, Finished
<1>2. Absolutes = AbsIn(sects)
  BY GatherIs
<1>3. OnceIn(sects) /\ ~sects[s].regrown
  BY <1>2 DEF Regular, OnceIn
<1> QED
  BY <1>1, <1>3 DEF SettledIn

\* What segment i of section s says of a value.
ValueExact(s, i) ==
    LET seg == sects[s].segments[i] c == filled[s][i].code value == Meaning(s, seg.expr) IN
    /\ InWord(seg) => Relocated(c) % Power(2) = value % Power(2)
    /\ seg.kind = "imm9" \/ (seg.kind = "ldi" /\ ~InWord(seg)) => c.value = value
    /\ seg.kind = "imm6" => c.value = IF seg.negative THEN -value ELSE value
    /\ seg.kind = "imm6_word" => 2 * c.value = value

\* The value of an immediate is what it means.
LEMMA ImmediateExact ==
    ASSUME NEW seg, IsSegment(seg), NEW code, NEW at, NEW p, NEW value \in Int,
           FilledSo(code, seg, at, p, value), NEW m, Means(m, value, p, seg.expr)
    PROVE  /\ seg.kind = "imm9" => code.value = m
           /\ seg.kind = "imm6" => code.value = IF seg.negative THEN -m ELSE m
           /\ seg.kind = "imm6_word" => 2 * code.value = m
<1> SUFFICES ASSUME seg.kind \in {"imm6", "imm6_word", "imm9"}
             PROVE  /\ seg.kind = "imm9" => code.value = m
                    /\ seg.kind = "imm6" => code.value = IF seg.negative THEN -m ELSE m
                    /\ seg.kind = "imm6_word" => 2 * code.value = m
  OBVIOUS
<1>1. /\ ~Unknown(p)
      /\ seg.kind = "imm6_word" => (value * Factor(seg)) % 2 = 0 /\ code.value = (value * Factor(seg)) \div 2
      /\ seg.kind # "imm6_word" => code.value = value * Factor(seg)
  BY DEF FilledSo
<1>2. m = value
  BY <1>1, PlainMeaning
<1>3. seg.negative \in BOOLEAN /\ (seg.negative => seg.kind = "imm6")
  BY DEF IsSegment
<1>4. value * Factor(seg) = IF seg.negative THEN -value ELSE value
  <2>1. CASE seg.negative
    <3>1. Factor(seg) = -1
      BY <2>1 DEF Factor
    <3>2. value * (-1) = -value
      OBVIOUS
    <3> QED
      BY <2>1, <3>1, <3>2
  <2>2. CASE ~seg.negative
    <3>1. Factor(seg) = 1
      BY <2>2 DEF Factor
    <3>2. value * 1 = value
      OBVIOUS
    <3> QED
      BY <2>2, <3>1, <3>2
  <2> QED
    BY <2>1, <2>2
<1>5. seg.kind # "imm6" => value * Factor(seg) = value
  BY <1>3, <1>4
<1>6. ASSUME seg.kind = "imm6_word" PROVE 2 * code.value = m
  <2>1. value % 2 = 0 /\ code.value = value \div 2
    BY <1>1, <1>5, <1>6
  <2> QED
    BY <1>2, <2>1
<1> QED
  BY <1>1, <1>2, <1>4, <1>5, <1>6

\* Every segment holds the value it should.
LEMMA ValueIsExact ==
    ASSUME UpdateInv, ChooseInv, FillInv, stage = "done", Regular,
           NEW s \in DOMAIN sects, NEW i \in DOMAIN sects[s].segments
    PROVE  ValueExact(s, i)
<1> DEFINE sect == sects[s]
           seg == sects[s].segments[i]
           code == filled[s][i].code
           at == Start(sects[s], i)
           m == Meaning(s, seg.expr)
           labels == FinalLabels(sects)
<1>1. PICK p, value : FilledAt(s, i, p, value)
  BY FilledWell
<1>2. IsSegment(seg) /\ IsSection(sect)
  BY FilledWell
<1>3. FilledSo(code, seg, at, p, value) /\ Parsed(seg.expr, sect, labels, templates, p)
      /\ p = parse_expression(seg.expr, sect, labels, templates)
      /\ value = calculate_expression(seg.expr, p, sect, labels)
  BY <1>1 DEF FilledAt
<1>4. IsExpression(seg.expr)
  BY <1>2 DEF IsSegment
<1> DEFINE expr == seg.expr
<1>5. ASSUME ~p.error PROVE value \in Int /\ Means(m, value, p, expr)
  <2>1. IsExpression(expr) /\ Parsed(expr, sects[s], FinalLabels(sects), templates, p)
        /\ value = calculate_expression(expr, p, sects[s], FinalLabels(sects))
    BY <1>3, <1>4
  <2> HIDE DEF expr
  <2>2. value \in Int /\ Means(Meaning(s, expr), value, p, expr)
    BY <1>5, <2>1, MeaningIs
  <2> QED
    BY <2>2 DEF expr
<1>6. p.ext \subseteq Labels
  BY <1>2, <1>3 DEF Parsed, IsSection
<1> HIDE DEF sect, seg, code, at, m, labels, expr
<1>7. ASSUME InWord(seg) PROVE Relocated(code) % Power(2) = m % Power(2)
  <2>1. \E a : Expressed(code, expr, a, p, value)
    <3>1. CASE seg.kind = "expression"
      BY <1>3, <3>1 DEF FilledSo, expr, seg
    <3>2. CASE Grows(seg) /\ seg.size = 4
      BY <1>3, <3>2 DEF FilledSo, expr, seg
    <3> QED
      BY <1>7, <3>1, <3>2 DEF InWord
  <2>2. PICK a : Expressed(code, expr, a, p, value)
    BY <2>1
  <2>3. ~p.error
    BY <2>2 DEF Expressed
  <2> QED
    BY <1>5, <1>6, <2>2, <2>3, WordExact
<1>8. ASSUME seg.kind = "ldi", ~InWord(seg) PROVE code.value = m
  <2>1. Grows(seg) /\ Varying(seg) /\ seg.size # 4
    BY <1>8 DEF InWord, Grows, Varying
  <2>2. ~seg.locked
    BY <1>2, <2>1 DEF IsSegment
  <2>3. Chosen(seg, sect, labels, templates)
    BY <2>1, SegmentSettled DEF seg, sect, labels
  <2>4. ~p.error /\ ~Unknown(p)
    BY <1>3, <1>8, <2>2, <2>3 DEF Chosen, ShortLdi, ParsedIn
  <2>5. code.value = value
    BY <1>3, <1>8, <2>1 DEF FilledSo
  <2> QED
    BY <1>5, <2>4, <2>5, PlainMeaning
<1>9. ASSUME seg.kind \in {"imm6", "imm6_word", "imm9"}
      PROVE  /\ seg.kind = "imm9" => code.value = m
             /\ seg.kind = "imm6" => code.value = IF seg.negative THEN -m ELSE m
             /\ seg.kind = "imm6_word" => 2 * code.value = m
  <2>1. ~p.error
    BY <1>3, <1>9 DEF FilledSo
  <2>2. value \in Int /\ Means(m, value, p, seg.expr)
    BY <1>5, <2>1 DEF expr, seg
  <2> QED
    BY <1>2, <1>3, <2>2, ImmediateExact
<1>10. /\ InWord(seg) => Relocated(code) % Power(2) = m % Power(2)
       /\ seg.kind = "imm9" \/ (seg.kind = "ldi" /\ ~InWord(seg)) => code.value = m
       /\ seg.kind = "imm6" => code.value = IF seg.negative THEN -m ELSE m
       /\ seg.kind = "imm6_word" => 2 * code.value = m
  BY <1>7, <1>8, <1>9
<1> QED
  BY <1>10 DEF ValueExact, seg, code, m

\* So the values are exact.
LEMMA Exact ==
    ASSUME UpdateInv, ChooseInv, FillInv
    PROVE  ValuesExact
<1>1. ASSUME stage = "done", Regular, NEW s \in DOMAIN sects, NEW i \in DOMAIN sects[s].segments
      PROVE  ValueExact(s, i)
  BY <1>1, ValueIsExact
<1> QED
  BY <1>1, Zenon DEF ValuesExact, ValueExact

--------------------------------------------------------------------------------
(* Branches.                                                                    *)

\* The expression of a branch that names one label, with what it was found to be.
NamesLabel(expr, w, p, sect, labels) ==
    /\ TermsOf(expr) = {w} /\ p.ext = {} /\ p.asect \cup p.rel = {w}
    /\ calculate_expression(expr, p, sect, labels) = LabelValue(w, sect, labels)
    /\ w \in DOMAIN sect.labels \/ w \in DOMAIN labels

\* An expression that names one label has its value.
LEMMA LabelNamed ==
    ASSUME NEW expr, IsExpression(expr), expr.sub = <<>>, Len(expr.add) = 1, expr.const = 0,
           expr.fields = <<>>, NEW sect, ValuesFit(sect.labels), NEW labels, ValuesFit(labels), NEW fields,
           NEW p, Parsed(expr, sect, labels, fields, p), ~p.error, expr.add[1] \notin sect.exts
    PROVE  NamesLabel(expr, expr.add[1], p, sect, labels)
<1> DEFINE w == expr.add[1]
           K == p.asect \cup p.rel
           V == ValuesOf(expr, sect, labels, K)
<1>1. IsSequence(expr.add) /\ DOMAIN expr.add = 1 .. 1 /\ DOMAIN expr.sub = {}
  BY SequenceFacts DEF IsExpression
<1>2. DOMAIN expr.add = {1}
  BY <1>1
<1>3. ToSet(expr.add) = {w} /\ ToSet(expr.sub) = {}
  BY <1>1, <1>2 DEF ToSet
<1>4. TermsOf(expr) = {w}
  BY <1>3 DEF TermsOf
<1>5. Times(expr, w) = 1
  <2>1. {i \in DOMAIN expr.add : expr.add[i] = w} = {1} /\ {i \in DOMAIN expr.sub : expr.sub[i] = w} = {}
    BY <1>1, <1>2
  <2>2. Cardinality({}) = 0 /\ Cardinality({1}) = 1
    BY FS_EmptySet, FS_Singleton
  <2>3. Times(expr, w) = 1 - 0
    BY <2>1, <2>2 DEF Times
  <2> QED
    BY <2>3
<1> HIDE DEF w
<1>6. UsedIn(expr) = {w}
  BY <1>4, <1>5 DEF UsedIn
<1>7. w \notin sect.exts
  BY DEF w
<1>8. p.ext = {} /\ K = {w}
  BY <1>6, <1>7 DEF Parsed
<1>9. p.value = 0
  <2> DEFINE Z == SizesOf(expr, fields)
  <2>1. p.value = expr.const + SumFunctionOnSet(Z, DOMAIN expr.fields)
    BY DEF Parsed
  <2>2. DOMAIN expr.fields = {}
    OBVIOUS
  <2> HIDE DEF Z
  <2>3. SumFunctionOnSet(Z, {}) = 0
    BY SumExternal
  <2> QED
    BY <2>1, <2>2, <2>3
<1>10. calculate_expression(expr, p, sect, labels) = p.value + SumFunctionOnSet(V, K)
       /\ \A x \in K : V[x] \in Int /\ LabelValue(x, sect, labels) \in Int
  <2>1. /\ \A x \in p.asect \cup p.rel : LabelValue(x, sect, labels) \in Int
        /\ \A x \in p.asect \cup p.rel : ValuesOf(expr, sect, labels, p.asect \cup p.rel)[x] \in Int
        /\ calculate_expression(expr, p, sect, labels) = p.value
             + SumFunctionOnSet(ValuesOf(expr, sect, labels, p.asect \cup p.rel), p.asect \cup p.rel)
    BY CalculatedFacts
  <2> QED
    BY <2>1
<1>11. V[w] = LabelValue(w, sect, labels) /\ V[w] \in Int
  <2>1. w \in K
    BY <1>8
  <2>2. V[w] = Times(expr, w) * LabelValue(w, sect, labels) /\ LabelValue(w, sect, labels) \in Int
    BY <1>10, <2>1 DEF ValuesOf
  <2> HIDE DEF V
  <2>3. 1 * LabelValue(w, sect, labels) = LabelValue(w, sect, labels)
    BY <2>2
  <2> QED
    BY <1>5, <2>2, <2>3
<1> HIDE DEF V, K
<1>12. SumFunctionOnSet(V, K) = V[w]
  BY <1>8, <1>11, SumExternal
<1>13. calculate_expression(expr, p, sect, labels) = LabelValue(w, sect, labels)
  BY <1>9, <1>10, <1>11, <1>12
<1>14. w \in DOMAIN sect.labels \/ w \in DOMAIN labels
  BY <1>4, <1>7 DEF Parsed, OwnOf
<1> QED
  BY <1>4, <1>8, <1>13, <1>14 DEF NamesLabel, w, K

\* The bits of a short distance say what it is.
Distance(seg, c, v, at) ==
    /\ seg.kind \in {"branch", "jsr"} /\ c.negative = (v - (at + 2) < 0)
    /\ c.value = ((v - (at + 2)) \div 2) % (IF seg.kind = "jsr" THEN 1024 ELSE 512)
Leads(seg, c, v, at) == at + 2 + 2 * Signed(seg, c) = v

\* They lead as far as the distance said.
LEMMA ShortDistance ==
    ASSUME NEW v \in Int, NEW at \in Int, v % 2 = 0, at % 2 = 0, InReach(v - at - 2),
           NEW seg, NEW c, Distance(seg, c, v, at)
    PROVE  Leads(seg, c, v, at)
<1> DEFINE d == (v - (at + 2)) \div 2
           neg == c.negative
           x == c.value
<1>0. /\ seg.kind \in {"branch", "jsr"} /\ neg = (v - (at + 2) < 0)
      /\ x = d % (IF seg.kind = "jsr" THEN 1024 ELSE 512)
  BY DEF Distance
<1>1. d \in Int /\ v - (at + 2) = 2 * d /\ -512 <= d /\ d < 512
  BY DEF InReach
<1>2. neg <=> d < 0
  <2>1. neg = (v - (at + 2) < 0)
    BY <1>0
  <2> HIDE DEF d, neg
  <2>2. (v - (at + 2) < 0) <=> d < 0
    BY <1>1
  <2> QED
    BY <2>1, <2>2, Zenon
<1>3. CASE seg.kind = "jsr"
  <2>1. x = d % 1024
    BY <1>0, <1>3
  <2> HIDE DEF d, x
  <2>2. d = IF x >= 512 THEN x - 1024 ELSE x
    BY <1>1, <2>1
  <2>3. Signed(seg, c) = d
    BY <1>3, <2>2 DEF Signed, x
  <2>4. v - (at + 2) = 2 * d /\ d \in Int
    BY <1>1
  <2> HIDE DEF d
  <2> QED
    BY <2>3, <2>4 DEF Leads
<1>4. CASE seg.kind = "branch"
  <2>1. x = d % 512
    BY <1>0, <1>4
  <2> HIDE DEF d, x, neg
  <2>2. d = IF d < 0 THEN x - 512 ELSE x
    BY <1>1, <2>1
  <2>3. d = IF neg THEN x - 512 ELSE x
    BY <1>2, <2>2
  <2>4. Signed(seg, c) = d
    BY <1>4, <2>3 DEF Signed, x, neg
  <2>5. v - (at + 2) = 2 * d /\ d \in Int
    BY <1>1
  <2> QED
    BY <2>4, <2>5 DEF Leads
<1> QED
  BY <1>0, <1>3, <1>4 DEF Leads

\* Where the branch of segment i of section s leads.
ArrivesAt(s, i) ==
    LET seg == sects[s].segments[i] c == filled[s][i].code w == seg.expr.add[1] IN
    ToLabel(s, seg) =>
        TrueAddress(Home(s, w), w) =
            IF seg.size = 4 THEN c.value ELSE filled[s][i].at + 2 + 2 * Signed(seg, c)

\* Every branch leads to its label.
LEMMA BranchArrives ==
    ASSUME Byte = 256, UpdateInv, ChooseInv, FillInv, stage = "done", Regular,
           NEW s \in DOMAIN sects, NEW i \in DOMAIN sects[s].segments
    PROVE  ArrivesAt(s, i)
<1> DEFINE sect == sects[s]
           seg == sects[s].segments[i]
           code == filled[s][i].code
           at == Start(sects[s], i)
           labels == FinalLabels(sects)
           expr == seg.expr
           w == expr.add[1]
           home == TrueAddress(Home(s, w), w)
<1>0. SUFFICES ASSUME ToLabel(s, seg)
               PROVE  home = IF seg.size = 4 THEN code.value ELSE filled[s][i].at + 2 + 2 * Signed(seg, code)
  BY DEF ArrivesAt
<1>1. PICK p, value : FilledAt(s, i, p, value)
  BY FilledWell
<1>2. IsSegment(seg) /\ IsSection(sect) /\ at \in Nat
  BY FilledWell
<1>3. FilledSo(code, seg, at, p, value) /\ Parsed(expr, sect, labels, templates, p)
      /\ p = parse_expression(expr, sect, labels, templates)
      /\ value = calculate_expression(expr, p, sect, labels) /\ filled[s][i].at = at
  BY <1>1 DEF FilledAt
<1>4. IsExpression(expr) /\ (seg.size # 4 => ~seg.locked) /\ seg.alignment = 2
  BY <1>0, <1>2 DEF IsSegment, ToLabel, Grows, Instruction
<1>5. /\ seg.kind \in {"branch", "jsr"} /\ Len(expr.add) = 1
      /\ expr.const = 0 /\ expr.fields = <<>> /\ w \notin sect.exts
  BY <1>0 DEF ToLabel
<1>6. seg.pos = at /\ Chosen(seg, sect, labels, templates)
  BY <1>5, SegmentSettled DEF Varying
<1>7. expr.sub = <<>>
  BY <1>5, <1>6 DEF Chosen, BranchOrCall, ToOne
<1>8. ValuesFit(sect.labels) /\ ValuesFit(labels)
  <2>1. SectionInv(sect, FALSE)
    BY DEF UpdateInv, SectsInv, SectionInv
  <2>2. ValuesFit(sect.labels)
    <3> HIDE DEF sect
    <3> QED
      BY <2>1, LabelValues
  <2> QED
    BY <2>2, KnownValues DEF UpdateInv
<1> HIDE DEF sect, seg, code, at, labels, expr, w, home
<1>9. ASSUME ~p.error PROVE value = home /\ home \in Nat
  <2>1. NamesLabel(expr, w, p, sect, labels)
    BY <1>3, <1>4, <1>5, <1>7, <1>8, <1>9, LabelNamed DEF w
  <2>2. w \in DOMAIN sects[s].labels \/ Elsewhere(s, w)
    BY <2>1 DEF NamesLabel, Elsewhere, sect, labels
  <2>3. LabelValue(w, sects[s], FinalLabels(sects)) = TrueAddress(Home(s, w), w)
        /\ TrueAddress(Home(s, w), w) \in Nat
    BY <2>2, LabelHome
  <2> QED
    BY <1>3, <2>1, <2>3 DEF NamesLabel, sect, labels, home
<1>10. CASE seg.size = 4
  <2>1. Expressed(code, expr, at + 2, p, value)
    BY <1>3, <1>5, <1>10 DEF FilledSo, Grows, expr
  <2>2. ~p.error /\ value < 65536 /\ code.value = value % Power(2)
    BY <2>1 DEF Expressed
  <2>3. Power(2) = 65536
    BY DEF Power
  <2>4. value \in Nat /\ value = home
    BY <1>9, <2>2
  <2>5. code.value = value
    BY <2>2, <2>3, <2>4
  <2> QED
    BY <1>10, <2>4, <2>5
<1>11. CASE seg.size # 4
  <2>1. ~p.error /\ InReach(value - seg.pos - 2)
    BY <1>3, <1>4, <1>5, <1>6, <1>11 DEF Chosen, BranchOrCall, ShortBranchTo, Reaches, ValueIn, ParsedIn, expr
  <2>2. value % 2 = 0 /\ Distance(seg, code, value, at)
    BY <1>3, <1>5, <1>11, Zenon DEF FilledSo, Distance
  <2>3. at % 2 = 0
    <3>1. Instruction(seg)
      BY <1>5 DEF Instruction
    <3> QED
      BY <1>3, <1>4, <3>1 DEF FilledSo
  <2>4. value \in Nat /\ value = home
    BY <1>9, <2>1
  <2>5. InReach(value - at - 2)
    BY <1>6, <2>1
  <2>6. at + 2 + 2 * Signed(seg, code) = value
    <3>1. value \in Int /\ at \in Int
      BY <1>2, <2>4
    <3>2. Leads(seg, code, value, at)
      BY <2>2, <2>3, <2>5, <3>1, ShortDistance
    <3> QED
      BY <3>2 DEF Leads
  <2>7. filled[s][i].at = at
    BY <1>3
  <2>8. filled[s][i].at + 2 + 2 * Signed(seg, code) = home
    BY <2>4, <2>6, <2>7
  <2> QED
    BY <1>11, <2>8
<1> QED
  BY <1>10, <1>11 DEF seg, code

\* So the branches arrive.
LEMMA Arrive ==
    ASSUME Byte = 256, UpdateInv, ChooseInv, FillInv
    PROVE  BranchesArrive
<1>1. ASSUME stage = "done", Regular, NEW s \in DOMAIN sects, NEW i \in DOMAIN sects[s].segments
      PROVE  ArrivesAt(s, i)
  BY <1>1, BranchArrives
<1> QED
  BY <1>1, Zenon DEF BranchesArrive, ArrivesAt

\* When an object module was made, every branch or call to a label leads to where the label
\* is, every word and immediate holds the value of its expression wherever the linker puts
\* the section, and what asks for an alignment has it in the joined section (code_segments.py,
\* object_generator.py).  Bytes are those of the code.
THEOREM CodeIsExact ==
    ASSUME Byte = 256
    PROVE  Spec => []CodeExact
<1>1. UpdateInv /\ ChooseInv /\ FillInv => CodeExact
  BY Arrive, Exact, Aligned DEF CodeExact
<1> QED
  BY <1>1, SpecFillInv, PTL

================================================================================
