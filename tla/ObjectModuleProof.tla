--------------------------- MODULE ObjectModuleProof ---------------------------
(***************************************************************************)
(* Lemmas about object code that assembler and linker share: alignments, the   *)
(* fields of sections that move, sections that are joined, lists.             *)
(***************************************************************************)
EXTENDS ObjectModule, FiniteSetTheorems, SequenceTheorems, TLAPS

--------------------------------------------------------------------------------
(* Division, alignments.                                                        *)

\* A number is what its division leaves and its quotient times the divisor.
LEMMA Division ==
    ASSUME NEW x \in Int, NEW a \in Nat \ {0}
    PROVE  /\ x \div a \in Int /\ x % a \in Int /\ 0 <= x % a /\ x % a < a
           /\ x = a * (x \div a) + (x % a)
<1>1. x \div a \in Int /\ x % a \in Int /\ 0 <= x % a /\ x % a < a
  OBVIOUS
<1>2. x = a * (x \div a) + (x % a)
  OBVIOUS
<1> QED
  BY <1>1, <1>2

\* What is added to a multiple is what its division leaves.
LEMMA Quotient ==
    ASSUME NEW a \in Nat \ {0}, NEW k \in Int, NEW r \in Nat, r < a
    PROVE  (a * k + r) % a = r
OBVIOUS

\* Dividing again leaves the same.
LEMMA Remainder ==
    ASSUME NEW a \in Nat \ {0}, NEW x \in Int
    PROVE  (x % a) % a = x % a
<1> DEFINE r == x % a
<1>1. r \in Nat /\ r < a
  BY Division
<1> HIDE DEF r
<1>2. (a * 0 + r) % a = r
  BY <1>1, Quotient
<1>3. a * 0 + r = r
  BY <1>1
<1>4. r % a = r
  BY <1>2, <1>3
<1> QED
  BY <1>4 DEF r

\* RoundUp gives a multiple that is not smaller.
LEMMA RoundUpProperties ==
    ASSUME NEW n \in Nat, NEW a \in Nat \ {0}
    PROVE  /\ RoundUp(n, a) \in Nat /\ RoundUp(n, a) >= n
           /\ RoundUp(n, a) % a = 0
           /\ a = 1 => RoundUp(n, a) = n
<1> DEFINE q == (n + a - 1) \div a
<1>1. /\ n + a - 1 \in Int /\ q \in Int /\ (n + a - 1) % a \in Int
      /\ (n + a - 1) % a < a /\ n + a - 1 = a * q + ((n + a - 1) % a)
  BY Division
<1>2. RoundUp(n, a) = a * q
  BY <1>1 DEF RoundUp
<1> HIDE DEF q
<1>3. a * q \in Int /\ a * q >= n
  BY <1>1
<1>4. (a * q) % a = 0
  BY <1>1, Quotient
<1>5. a = 1 => a * q = n
  BY <1>1
<1> QED
  BY <1>2, <1>3, <1>4, <1>5

\* What is divided without rest is a multiple.
LEMMA Multiple ==
    ASSUME NEW a \in Nat \ {0}, NEW x \in Int
    PROVE  x % a = 0 <=> \E k \in Int : x = a * k
<1>1. ASSUME x % a = 0 PROVE x = a * (x \div a) /\ x \div a \in Int
  <2>1. x = a * (x \div a) + (x % a) /\ x \div a \in Int
    BY Division
  <2> DEFINE k == x \div a
  <2>2. k \in Int /\ a * k \in Int
    BY <2>1
  <2> HIDE DEF k
  <2> QED
    BY <1>1, <2>1, <2>2 DEF k
<1>2. ASSUME NEW k \in Int, x = a * k PROVE x % a = 0
  <2>1. (a * k + 0) % a = 0 /\ a * k \in Int
    BY Quotient
  <2> QED
    BY <1>2, <2>1
<1> QED
  BY <1>1, <1>2

\* A multiple of a multiple is one.
LEMMA MultipleOfMultiple ==
    ASSUME NEW a \in Nat \ {0}, NEW b \in Nat \ {0}, NEW x \in Int, x % b = 0, b % a = 0
    PROVE  x % a = 0
<1>1. PICK k \in Int : x = b * k
  BY Multiple
<1>2. PICK j \in Int : b = a * j
  BY Multiple
<1>3. x = a * (j * k) /\ j * k \in Int
  BY <1>1, <1>2
<1> QED
  BY <1>3, Multiple

\* A sum of multiples is one.
LEMMA SumOfMultiples ==
    ASSUME NEW a \in Nat \ {0}, NEW x \in Int, NEW y \in Int, x % a = 0, y % a = 0
    PROVE  (x + y) % a = 0
<1>1. PICK k \in Int : x = a * k
  BY Multiple
<1>2. PICK j \in Int : y = a * j
  BY Multiple
<1>3. x + y = a * (k + j) /\ k + j \in Int
  BY <1>1, <1>2
<1> QED
  BY <1>3, Multiple

\* What division leaves of a sum depends on what it leaves of its parts.
LEMMA Congruence ==
    ASSUME NEW a \in Nat \ {0}, NEW x \in Int, NEW y \in Int, NEW z \in Int, x % a = y % a
    PROVE  (x + z) % a = (y + z) % a /\ ((x % a) + z) % a = (x + z) % a
<1> DEFINE r == x % a
           s == (r + z) % a
           k == x \div a
           j == y \div a
           i == (r + z) \div a
<1>1. r \in Nat /\ k \in Int /\ x = a * k + r
  BY Division
<1>2. j \in Int /\ y = a * j + r
  BY Division
<1>3. i \in Int /\ s \in Nat /\ s < a /\ r + z = a * i + s
  BY <1>1, Division
<1> HIDE DEF r, s, k, j, i
<1>4. /\ x + z = a * (k + i) + s /\ k + i \in Int
      /\ y + z = a * (j + i) + s /\ j + i \in Int
  BY <1>1, <1>2, <1>3
<1>5. (x + z) % a = s /\ (y + z) % a = s
  BY <1>3, <1>4, Quotient
<1> QED
  BY <1>5 DEF r, s

--------------------------------------------------------------------------------
(* Minima, least common multiples.                                             *)

\* A set of numbers has a least element.
LEMMA LeastNumber ==
    ASSUME NEW S, S \subseteq Nat, S # {}
    PROVE  \E n \in S : \A m \in S : n <= m
<1>1. PICK n \in S : \A m \in S : ~ (<<m, n>> \in OpToRel(<, Nat))
  BY NatLessThanWellFounded, WFMin
<1>2. \A m \in S : ~ (m < n)
  BY <1>1 DEF OpToRel
<1> QED
  BY <1>2

\* Lcm gives a common multiple.
LEMMA LcmProperties ==
    ASSUME NEW a \in Nat \ {0}, NEW b \in Nat \ {0}
    PROVE  Lcm(a, b) \in Nat \ {0} /\ Lcm(a, b) % a = 0 /\ Lcm(a, b) % b = 0
<1> DEFINE S == {m \in 1 .. a * b : m % a = 0 /\ m % b = 0}
<1>1. a * b \in Nat \ {0} /\ (a * b) % a = 0 /\ (a * b) % b = 0
  <2>1. a * b \in Nat \ {0} /\ a * b = b * a
    OBVIOUS
  <2> QED
    BY <2>1, Multiple
<1>2. a * b \in S /\ S \subseteq Nat
  BY <1>1
<1>3. \E m \in S : \A k \in S : m <= k
  <2> HIDE DEF S
  <2> QED
    BY <1>2, LeastNumber
<1>4. PICK m \in 1 .. a * b :
        m % a = 0 /\ m % b = 0 /\ \A k \in 1 .. m - 1 : k % a # 0 \/ k % b # 0
  <2>1. PICK m \in S : \A k \in S : m <= k
    BY <1>3
  <2>2. m \in 1 .. a * b /\ m % a = 0 /\ m % b = 0
    OBVIOUS
  <2>3. ASSUME NEW k \in 1 .. m - 1, k % a = 0, k % b = 0 PROVE FALSE
    <3>1. k \in 1 .. a * b /\ k < m
      BY <1>1, <2>2
    <3>2. k \in S
      BY <2>3, <3>1
    <3>3. k \in Int /\ m \in Int
      OBVIOUS
    <3> HIDE DEF S
    <3>4. m <= k
      BY <2>1, <3>2
    <3> QED
      BY <3>1, <3>3, <3>4
  <2> QED
    BY <2>2, <2>3
<1> HIDE DEF S
<1>5. Lcm(a, b) \in 1 .. a * b /\ Lcm(a, b) % a = 0 /\ Lcm(a, b) % b = 0
  BY <1>4 DEF Lcm
<1> QED
  BY <1>1, <1>5

--------------------------------------------------------------------------------
(* Fields.                                                                     *)

\* The values of n bytes are finitely many, and one for no byte.
LEMMA PowerType ==
    ASSUME NEW n \in {0, 1, 2}
    PROVE  Power(n) \in Nat \ {0} /\ Power(0) = 1
<1>1. Byte \in Nat \ {0} /\ Byte * Byte \in Nat \ {0}
  BY ModuleAssumption
<1> QED
  BY <1>1 DEF Power

\* A field without lower bytes that holds its constant gets constant and address.
LEMMA AddedProperties ==
    ASSUME NEW f \in Field, NEW n \in Nat
    PROVE  /\ Added(f, n).data \in Nat /\ Added(f, n).lower \in Nat
           /\ f.start = 0 /\ HoldsConstant(f) =>
                Added(f, n).data = (f.const + n) % Power(f.stop) /\ Added(f, n).lower = 0
<1> DEFINE P == Power(f.start)
           Q == Power(f.stop)
           val == (f.data * P + f.lower + n) % Q
<1>1. f.data \in Nat /\ f.lower \in Nat /\ f.const \in Nat /\ f.start \in {0, 1} /\ f.stop \in {1, 2}
  BY DEF Field
<1>2. P \in Nat \ {0} /\ Q \in Nat \ {0} /\ (f.start = 0 => P = 1)
  BY <1>1, PowerType
<1> HIDE DEF P, Q
<1>3. f.data * P + f.lower + n \in Int
  BY <1>1, <1>2
<1>4. val \in Nat
  BY <1>2, <1>3, Division
<1>5. Added(f, n) = [data |-> val \div P, lower |-> val % P]
  BY DEF Added, P, Q
<1> HIDE DEF val
<1>6. val \div P \in Nat /\ val % P \in Nat
  BY <1>2, <1>4
<1>7. ASSUME f.start = 0, HoldsConstant(f)
      PROVE  val \div P = (f.const + n) % Q /\ val % P = 0
  <2>1. P = 1 /\ f.lower = 0 /\ f.data % Q = f.const % Q
    BY <1>2, <1>7 DEF HoldsConstant, Q
  <2>2. val \div 1 = val /\ val % 1 = 0
    BY <1>4
  <2>3. f.data * 1 + 0 + n = f.data + n
    BY <1>1
  <2>4. val = (f.data + n) % Q
    BY <2>1, <2>3 DEF val
  <2>5. (f.data + n) % Q = (f.const + n) % Q
    BY <1>1, <1>2, <2>1, Congruence
  <2> QED
    BY <2>1, <2>2, <2>4, <2>5
<1> QED
  BY <1>5, <1>6, <1>7 DEF Q

\* A field that moves with its section still holds its constant.
LEMMA MovedProperties ==
    ASSUME NEW f \in Field, NEW n \in Nat
    PROVE  Moved(f, n) \in Field /\ (HoldsConstant(f) => HoldsConstant(Moved(f, n)))
<1> DEFINE g == [f EXCEPT !.offset = @ + n]
           own == [g EXCEPT !.data = Added(f, n).data]
           h == [own EXCEPT !.const = @ + n]
<1>1. g \in Field /\ g.const = f.const /\ g.start = f.start /\ g.stop = f.stop /\ g.lower = f.lower
      /\ g.data = f.data
  BY DEF Field
<1>2. own \in Field /\ own.const = f.const /\ own.start = f.start /\ own.stop = f.stop
      /\ own.lower = f.lower /\ own.data = Added(f, n).data
  <2>1. Added(f, n).data \in Nat
    BY AddedProperties
  <2> HIDE DEF g
  <2> QED
    BY <1>1, <2>1 DEF Field
<1>3. h \in Field /\ h.const = f.const + n /\ h.start = f.start /\ h.stop = f.stop
      /\ h.lower = f.lower /\ h.data = Added(f, n).data
  <2> HIDE DEF own
  <2> QED
    BY <1>2 DEF Field
<1>4. Moved(f, n) = IF f.label # Null THEN g ELSE h
  BY Zenon DEF Moved
<1> HIDE DEF g, h
<1>5. HoldsConstant(f) => HoldsConstant(g)
  BY <1>1 DEF HoldsConstant
<1>6. ASSUME HoldsConstant(f) PROVE HoldsConstant(h)
  <2> SUFFICES ASSUME f.start = 0
               PROVE  f.lower = 0 /\ h.data % Power(f.stop) = (f.const + n) % Power(f.stop)
    BY <1>3 DEF HoldsConstant
  <2>1. h.data = (f.const + n) % Power(f.stop) /\ f.lower = 0
    BY <1>3, <1>6, AddedProperties DEF HoldsConstant
  <2>2. Power(f.stop) \in Nat \ {0} /\ f.const + n \in Int
    <3>1. f.stop \in {0, 1, 2} /\ f.const \in Nat
      BY DEF Field
    <3> QED
      BY <3>1, PowerType
  <2>3. ((f.const + n) % Power(f.stop)) % Power(f.stop) = (f.const + n) % Power(f.stop)
    BY <2>2, Remainder
  <2> QED
    BY <2>1, <2>3
<1> QED
  BY <1>1, <1>3, <1>4, <1>5, <1>6

--------------------------------------------------------------------------------
(* Joined sections.                                                            *)

\* Where its pieces are in a section, and that it keeps the alignment of each.
PiecesOf(s) ==
    LET parts == s.parts IN
    /\ \A i \in DOMAIN parts : /\ parts[i].offset % parts[i].alignment = 0
                               /\ s.alignment % parts[i].alignment = 0
                               /\ parts[i].offset + parts[i].size <= s.size
    /\ \A i \in 2 .. Len(parts) : parts[i].offset >= parts[i - 1].offset + parts[i - 1].size

Fine(s) == \A f \in Range(s.fields) : HoldsConstant(f)
RelSect(s) == IsJoined(s) /\ Fine(s) /\ PiecesOf(s)

Part == [offset: Nat, size: Nat, alignment: Nat \ {0}]

\* A section begins with a single piece.
LEMMA FirstProperties ==
    ASSUME NEW p, IsRel(p), Fine(p)
    PROVE  RelSect(First(p)) /\ First(p).name = p.name
<1> DEFINE part == [offset |-> 0, size |-> p.size, alignment |-> p.alignment]
           s == First(p)
<1>1. p.size \in Nat /\ p.alignment \in Nat \ {0}
  BY DEF IsRel, IsRecord
<1>2. /\ s.name = p.name /\ s.size = p.size /\ s.alignment = p.alignment
      /\ s.entries = p.entries /\ s.fields = p.fields /\ s.parts = <<part>>
  BY DEF First
<1>3. part \in Part
  BY <1>1 DEF Part
<1> HIDE DEF part, s
<1>4. <<part>> \in Seq(Part) /\ Len(<<part>>) = 1 /\ <<part>>[1] = part /\ DOMAIN <<part>> = {1}
  BY <1>3
<1>5. IsJoined(s)
  BY <1>2, <1>4 DEF IsJoined, IsRel, IsRecord, Part
<1>6. Fine(s)
  BY <1>2 DEF Fine
<1>7. PiecesOf(s)
  <2>1. part.offset % part.alignment = 0 /\ p.alignment % part.alignment = 0
        /\ part.offset + part.size <= p.size
    <3>1. (p.alignment * 0) % p.alignment = 0 /\ (p.alignment * 1) % p.alignment = 0
      BY <1>1, Multiple
    <3> QED
      BY <1>1, <3>1 DEF part
  <2> QED
    BY <1>2, <1>4, <2>1 DEF PiecesOf
<1> QED
  BY <1>2, <1>5, <1>6, <1>7 DEF RelSect, s

\* A further piece lies behind the others, at a multiple of its alignment.
LEMMA JoinedProperties ==
    ASSUME NEW s, RelSect(s), NEW p, IsRel(p), Fine(p)
    PROVE  RelSect(Joined(s, p)) /\ Joined(s, p).name = s.name
<1> DEFINE prev == RoundUp(s.size, p.alignment)
           moved == [i \in DOMAIN p.fields |-> Moved(p.fields[i], prev)]
           part == [offset |-> prev, size |-> p.size, alignment |-> p.alignment]
           t == Joined(s, p)
<1>1. /\ s.size \in Nat /\ s.alignment \in Nat \ {0} /\ s.fields \in Seq(Field)
      /\ DOMAIN s.entries \subseteq Labels /\ s.entries \in [DOMAIN s.entries -> Nat]
      /\ s.name \in Names /\ s.parts \in Seq(Part)
  BY DEF RelSect, IsJoined, IsRel, IsRecord, Part
<1>2. /\ p.size \in Nat /\ p.alignment \in Nat \ {0} /\ p.fields \in Seq(Field)
      /\ DOMAIN p.entries \subseteq Labels /\ p.entries \in [DOMAIN p.entries -> Nat]
  BY DEF IsRel, IsRecord
<1>3. prev \in Nat /\ prev >= s.size /\ prev % p.alignment = 0
  BY <1>1, <1>2, RoundUpProperties
<1>4. /\ t.name = s.name /\ t.size = prev + p.size /\ t.alignment = Lcm(s.alignment, p.alignment)
      /\ t.entries = Overlay(s.entries, Shifted(p.entries, prev))
      /\ t.fields = s.fields \o moved /\ t.parts = Append(s.parts, part)
  BY DEF Joined
<1> HIDE DEF prev, t
<1>5. part \in Part
  BY <1>2, <1>3 DEF Part
<1>6. t.size \in Nat /\ t.size >= s.size /\ t.size >= prev + p.size
  BY <1>1, <1>2, <1>3, <1>4
<1>7. t.alignment \in Nat \ {0} /\ t.alignment % s.alignment = 0 /\ t.alignment % p.alignment = 0
  <2>1. s.alignment \in Nat \ {0} /\ p.alignment \in Nat \ {0}
    BY <1>1, <1>2
  <2>2. LET m == Lcm(s.alignment, p.alignment)
        IN m \in Nat \ {0} /\ m % s.alignment = 0 /\ m % p.alignment = 0
    BY <2>1, LcmProperties
  <2> QED
    BY <1>4, <2>2
<1>8. DOMAIN t.entries \subseteq Labels /\ t.entries \in [DOMAIN t.entries -> Nat]
  BY <1>1, <1>2, <1>3, <1>4 DEF Overlay, Shifted
<1>9. t.fields \in Seq(Field) /\ Fine(t)
  <2>1. Len(p.fields) \in Nat /\ DOMAIN p.fields = 1 .. Len(p.fields)
        /\ \A i \in DOMAIN p.fields : p.fields[i] \in Field /\ HoldsConstant(p.fields[i])
    <3>1. Len(p.fields) \in Nat /\ DOMAIN p.fields = 1 .. Len(p.fields)
          /\ \A i \in DOMAIN p.fields : p.fields[i] \in Field
      BY <1>2, LenProperties, ElementOfSeq
    <3> QED
      BY <3>1 DEF Fine, Range
  <2>2. \A i \in DOMAIN p.fields : moved[i] \in Field /\ HoldsConstant(moved[i])
    BY <1>3, <2>1, MovedProperties
  <2>3. moved \in Seq(Field) /\ DOMAIN moved = DOMAIN p.fields
    <3>1. moved \in [1 .. Len(p.fields) -> Field]
      BY <2>1, <2>2
    <3> QED
      BY <2>1, <3>1, SeqDef
  <2> HIDE DEF moved
  <2>4. /\ t.fields \in Seq(Field)
        /\ Len(t.fields) = Len(s.fields) + Len(moved)
        /\ \A i \in 1 .. Len(s.fields) + Len(moved) :
              t.fields[i] = IF i <= Len(s.fields) THEN s.fields[i] ELSE moved[i - Len(s.fields)]
    BY <1>1, <1>4, <2>3, ConcatProperties
  <2>5. /\ Len(s.fields) \in Nat /\ DOMAIN s.fields = 1 .. Len(s.fields)
        /\ Len(moved) \in Nat /\ DOMAIN moved = 1 .. Len(moved)
        /\ DOMAIN t.fields = 1 .. Len(t.fields)
    BY <1>1, <2>3, <2>4, LenProperties
  <2>6. ASSUME NEW i \in DOMAIN t.fields PROVE HoldsConstant(t.fields[i])
    <3>1. CASE i <= Len(s.fields)
      <4>1. i \in DOMAIN s.fields /\ t.fields[i] = s.fields[i]
        BY <2>4, <2>5, <3>1
      <4> QED
        BY <4>1 DEF RelSect, Fine, Range
    <3>2. CASE i > Len(s.fields)
      <4>1. i - Len(s.fields) \in DOMAIN moved /\ t.fields[i] = moved[i - Len(s.fields)]
        BY <2>4, <2>5, <3>2
      <4> QED
        BY <2>2, <2>3, <4>1
    <3> QED
      BY <2>4, <2>5, <3>1, <3>2
  <2> QED
    BY <2>4, <2>6 DEF Fine, Range
<1>10. /\ t.parts \in Seq(Part) /\ Len(t.parts) = Len(s.parts) + 1 /\ Len(s.parts) \in Nat
       /\ DOMAIN t.parts = 1 .. Len(s.parts) + 1 /\ DOMAIN s.parts = 1 .. Len(s.parts)
       /\ \A i \in 1 .. Len(s.parts) : t.parts[i] = s.parts[i] /\ s.parts[i] \in Part
       /\ t.parts[Len(s.parts) + 1] = part
  <2> HIDE DEF part
  <2> QED
    BY <1>1, <1>4, <1>5, AppendProperties, LenProperties, ElementOfSeq
<1>11. PiecesOf(t)
  <2>1. PiecesOf(s)
    BY DEF RelSect
  <2>2. ASSUME NEW i \in DOMAIN t.parts
        PROVE  /\ t.parts[i].offset % t.parts[i].alignment = 0
               /\ t.alignment % t.parts[i].alignment = 0
               /\ t.parts[i].offset + t.parts[i].size <= t.size
    <3>1. CASE i \in DOMAIN s.parts
      <4>1. /\ t.parts[i] = s.parts[i] /\ s.parts[i] \in Part
            /\ s.parts[i].offset % s.parts[i].alignment = 0
            /\ s.alignment % s.parts[i].alignment = 0
            /\ s.parts[i].offset + s.parts[i].size <= s.size
        BY <1>10, <2>1, <3>1 DEF PiecesOf
      <4>2. s.parts[i].alignment \in Nat \ {0} /\ s.parts[i].offset + s.parts[i].size \in Nat
        BY <4>1 DEF Part
      <4>3. t.alignment % s.parts[i].alignment = 0
        <5> DEFINE a == s.parts[i].alignment
                   b == s.alignment
                   x == t.alignment
        <5>1. a \in Nat \ {0} /\ b \in Nat \ {0} /\ x \in Int /\ x % b = 0 /\ b % a = 0
          BY <1>1, <1>7, <4>1, <4>2
        <5> HIDE DEF a, b, x
        <5>2. x % a = 0
          BY <5>1, MultipleOfMultiple
        <5> QED
          BY <5>2 DEF a, x
      <4> QED
        BY <1>1, <1>6, <4>1, <4>2, <4>3
    <3>2. CASE i = Len(s.parts) + 1
      BY <1>3, <1>6, <1>7, <1>10, <3>2
    <3> QED
      BY <1>10, <3>1, <3>2
  <2>3. ASSUME NEW i \in 2 .. Len(t.parts)
        PROVE  t.parts[i].offset >= t.parts[i - 1].offset + t.parts[i - 1].size
    <3>1. CASE i <= Len(s.parts)
      <4>1. i \in 2 .. Len(s.parts) /\ t.parts[i] = s.parts[i] /\ t.parts[i - 1] = s.parts[i - 1]
        BY <1>10, <3>1
      <4> QED
        BY <2>1, <4>1 DEF PiecesOf
    <3>2. CASE i = Len(s.parts) + 1
      <4>1. /\ i - 1 \in DOMAIN s.parts /\ t.parts[i] = part /\ t.parts[i - 1] = s.parts[i - 1]
            /\ s.parts[i - 1] \in Part
        BY <1>10, <3>2
      <4>2. s.parts[i - 1].offset + s.parts[i - 1].size <= s.size
        BY <2>1, <4>1 DEF PiecesOf
      <4>3. s.parts[i - 1].offset \in Nat /\ s.parts[i - 1].size \in Nat
        BY <4>1 DEF Part
      <4> QED
        BY <1>1, <1>3, <4>1, <4>2, <4>3
    <3> QED
      BY <1>10, <3>1, <3>2
  <2> QED
    BY <1>10, <2>2, <2>3 DEF PiecesOf
<1>12. IsJoined(t)
  BY <1>1, <1>4, <1>6, <1>7, <1>8, <1>9, <1>10 DEF IsJoined, IsRel, IsRecord, Part
<1> QED
  BY <1>4, <1>9, <1>11, <1>12 DEF RelSect, t

--------------------------------------------------------------------------------
(* Lists of sections.                                                          *)

\* Lists of sections are sequences over their own elements.
LEMMA ListOf ==
    ASSUME NEW T, NEW s \in Seq(T)
    PROVE  s \in Seq(Range(s)) /\ Range(s) \subseteq T
<1>1. Len(s) \in Nat /\ DOMAIN s = 1 .. Len(s) /\ \A i \in DOMAIN s : s[i] \in T
  BY LenProperties, ElementOfSeq
<1>2. s \in [1 .. Len(s) -> Range(s)]
  <2>1. s = [i \in 1 .. Len(s) |-> s[i]]
    BY LenProperties
  <2> QED
    BY <1>1, <2>1 DEF Range
<1>3. s \in Seq(Range(s))
  BY <1>1, <1>2, SeqDef
<1> QED
  BY <1>1, <1>3 DEF Range

\* The positions and elements of a list.
LEMMA ListFacts ==
    ASSUME NEW s, s \in Seq(Range(s))
    PROVE  /\ Len(s) \in Nat /\ DOMAIN s = 1 .. Len(s)
           /\ \A i \in DOMAIN s : s[i] \in Range(s)
           /\ \A x \in Range(s) : \E i \in DOMAIN s : x = s[i]
<1>1. Len(s) \in Nat /\ DOMAIN s = 1 .. Len(s)
  BY LenProperties
<1> QED
  BY <1>1 DEF Range

\* The first of a list, and the others.
LEMMA ListFront ==
    ASSUME NEW s, s \in Seq(Range(s)), s # <<>>
    PROVE  /\ Head(s) \in Range(s)
           /\ Tail(s) \in Seq(Range(Tail(s))) /\ Range(Tail(s)) \subseteq Range(s)
<1>1. Tail(s) \in Seq(Range(s)) /\ Head(s) \in Range(s)
  BY HeadTailProperties
<1> QED
  BY <1>1, ListOf

\* A list with one more element.
LEMMA ListAppend ==
    ASSUME NEW s, s \in Seq(Range(s)), NEW x
    PROVE  /\ Append(s, x) \in Seq(Range(Append(s, x)))
           /\ Range(Append(s, x)) \subseteq Range(s) \cup {x}
<1> DEFINE T == Range(s) \cup {x}
<1>1. s \in Seq(T) /\ x \in T
  <2>1. s \in [1 .. Len(s) -> T] /\ Len(s) \in Nat
    <3>1. s = [i \in 1 .. Len(s) |-> s[i]] /\ DOMAIN s = 1 .. Len(s) /\ Len(s) \in Nat
      BY LenProperties
    <3> QED
      BY <3>1 DEF Range
  <2> QED
    BY <2>1, SeqDef
<1> HIDE DEF T
<1>2. Append(s, x) \in Seq(T)
  BY <1>1, AppendProperties
<1> QED
  BY <1>2, ListOf DEF T

\* A list with one element replaced.
LEMMA ListReplace ==
    ASSUME NEW s, s \in Seq(Range(s)), NEW x, NEW k \in DOMAIN s
    PROVE  LET t == [s EXCEPT ![k] = x] IN
           /\ t \in Seq(Range(t)) /\ Range(t) \subseteq Range(s) \cup {x}
<1> DEFINE T == Range(s) \cup {x}
           t == [s EXCEPT ![k] = x]
<1>1. Len(s) \in Nat /\ DOMAIN s = 1 .. Len(s) /\ s = [i \in 1 .. Len(s) |-> s[i]]
  BY LenProperties
<1>2. t \in [1 .. Len(s) -> T]
  BY <1>1 DEF Range
<1> HIDE DEF T, t
<1>3. t \in Seq(T)
  BY <1>1, <1>2, SeqDef
<1> QED
  BY <1>3, ListOf DEF T, t

\* Sequences joined one after another.
FlatInto(seqs, m, g) == g = [i \in 1 .. m |-> IF i = 1 THEN seqs[i] ELSE g[i - 1] \o seqs[i]]

\* Sequences of a set are joined to one of it.
LEMMA FlattenFacts ==
    ASSUME NEW S, NEW seqs \in Seq(Seq(S))
    PROVE  FlattenSeq(seqs) \in Seq(S)
<1> DEFINE n == Len(seqs)
<1>1. n \in Nat /\ DOMAIN seqs = 1 .. n /\ \A i \in 1 .. n : seqs[i] \in Seq(S)
  BY LenProperties, ElementOfSeq
<1>2. CASE n = 0
  <2>1. seqs = <<>>
    BY <1>2, EmptySeq
  <2>2. FlattenSeq(seqs) = seqs
    BY <1>2 DEF FlattenSeq
  <2> QED
    BY <2>1, <2>2, EmptySeq
<1>3. CASE n # 0
  <2> DEFINE No == {m \in Nat : m <= n /\ ~ \E g : FlatInto(seqs, m, g)}
  <2>1. ASSUME No # {} PROVE FALSE
    <3>1. PICK m \in No : \A k \in No : m <= k
      BY <2>1, LeastNumber
    <3>2. m # 0
      <4> DEFINE g == [i \in 1 .. 0 |-> seqs]
      <4>1. FlatInto(seqs, 0, g)
        BY DEF FlatInto
      <4> QED
        BY <4>1
    <3>3. m \in Nat /\ m <= n
      OBVIOUS
    <3>4. m - 1 \in Nat /\ m - 1 <= n /\ ~ (m <= m - 1)
      BY <3>2, <3>3
    <3>5. m - 1 \notin No
      <4> HIDE DEF No
      <4> QED
        BY <3>1, <3>4
    <3>6. PICK g : FlatInto(seqs, m - 1, g)
      BY <3>4, <3>5
    <3> DEFINE h == [i \in 1 .. m |-> IF i = 1 THEN seqs[i] ELSE g[i - 1] \o seqs[i]]
    <3>7. \A i \in 1 .. m - 1 : h[i] = g[i]
      <4>1. \A i \in 1 .. m - 1 : g[i] = IF i = 1 THEN seqs[i] ELSE g[i - 1] \o seqs[i]
        <5> HIDE DEF h, No
        <5> QED
          BY <3>6 DEF FlatInto
      <4>2. \A i \in 1 .. m - 1 : i \in 1 .. m
        BY <3>3
      <4>3. \A i \in 1 .. m : h[i] = IF i = 1 THEN seqs[i] ELSE g[i - 1] \o seqs[i]
        OBVIOUS
      <4> HIDE DEF h, No
      <4> QED
        BY <4>1, <4>2, <4>3
    <3>8. \A i \in 1 .. m : i # 1 => i - 1 \in 1 .. m - 1
      BY <3>3
    <3>9. FlatInto(seqs, m, h)
      BY <3>7, <3>8 DEF FlatInto
    <3>10. ~ \E k : FlatInto(seqs, m, k)
      OBVIOUS
    <3> HIDE DEF h, No
    <3> QED
      BY <3>9, <3>10
  <2>2. \E g : FlatInto(seqs, n, g)
    <3> SUFFICES ASSUME ~ \E g : FlatInto(seqs, n, g) PROVE FALSE
      OBVIOUS
    <3>1. n \in Nat /\ n <= n
      BY <1>1
    <3>2. n \in No
      BY <3>1, Zenon
    <3> QED
      BY <2>1, <3>2, Zenon
  <2> DEFINE g == CHOOSE f : FlatInto(seqs, n, f)
  <2>3. FlatInto(seqs, n, g)
    BY <2>2
  <2>4. FlattenSeq(seqs) = g[n]
    <3>1. Len(seqs) # 0 /\ n = Len(seqs)
      BY <1>3
    <3> QED
      BY <3>1, Zenon DEF FlattenSeq, FlatInto
  <2> HIDE DEF g
  <2>5. \A i \in 1 .. n : g[i] = IF i = 1 THEN seqs[i] ELSE g[i - 1] \o seqs[i]
    BY <2>3 DEF FlatInto
  <2> DEFINE Bad == {i \in Nat : i \in 1 .. n /\ g[i] \notin Seq(S)}
  <2>6. ASSUME Bad # {} PROVE FALSE
    <3>1. PICK i \in Bad : \A k \in Bad : i <= k
      BY <2>6, LeastNumber
    <3>2. i \in 1 .. n /\ g[i] \notin Seq(S) /\ seqs[i] \in Seq(S)
      OBVIOUS
    <3>3. i # 1
      BY <2>5, <3>2
    <3>4. i - 1 \in 1 .. n /\ i - 1 \in Nat /\ ~ (i <= i - 1)
      BY <3>2, <3>3
    <3>5. i - 1 \notin Bad
      <4> HIDE DEF Bad
      <4> QED
        BY <3>1, <3>4
    <3>6. g[i - 1] \in Seq(S)
      BY <3>4, <3>5
    <3>7. g[i - 1] \o seqs[i] \in Seq(S)
      BY <3>2, <3>6, ConcatProperties
    <3> QED
      BY <2>5, <3>2, <3>3, <3>7
  <2>7. n \in 1 .. n
    BY <1>3
  <2> QED
    BY <2>4, <2>6, <2>7
<1> QED
  BY <1>2, <1>3

================================================================================
