------------------------------ MODULE LinkerProof ------------------------------
(***************************************************************************)
(* Theorems about the linker, for all sections, alignments, fields and image *)
(* sizes.  What happens to the lists of sections is in TypeInv, with where    *)
(* the pieces of a joined section are (PiecesOf) and what its fields hold     *)
(* (Fine).  On top of it stand                                                *)
(*   - Needed, the closure that find_referenced_sects computes, and Resolved,  *)
(*     which follows from it: every label has its section;                     *)
(*   - PassedApart and Gaps, what init_bins has seen so far, and Placement,    *)
(*     that the gaps are exactly what is free of the image;                    *)
(*   - Written, that no lower part is kept as long as addresses are whole.     *)
(* Together they are LinkInv.  It begins with any typed lists (Begun), so also  *)
(* with those that were read from object files: ReadInv says whose these are.   *)
(***************************************************************************)
EXTENDS Cocas, ObjectModuleProof

--------------------------------------------------------------------------------
(* The sorts.                                                                   *)

\* In an order by keys every position has one element.
LEMMA Rank ==
    ASSUME NEW I, IsFiniteSet(I), I \subseteq Nat, NEW key \in [I -> Int]
    PROVE  /\ Cardinality(I) \in Nat
           /\ \A i \in I : Cardinality(Before(I, key, i)) \in 0 .. Cardinality(I) - 1
           /\ \A i, j \in I : Cardinality(Before(I, key, i)) = Cardinality(Before(I, key, j)) => i = j
           /\ \A n \in 1 .. Cardinality(I) : \E i \in I : Cardinality(Before(I, key, i)) = n - 1
<1> DEFINE rank == [i \in I |-> Cardinality(Before(I, key, i))]
           size == Cardinality(I)
<1>1. size \in Nat
  BY FS_CardinalityType
<1> USE DEF Before
<1>2. ASSUME NEW i \in I
      PROVE  /\ IsFiniteSet(Before(I, key, i)) /\ Cardinality(Before(I, key, i)) \in 0 .. size - 1
             /\ i \notin Before(I, key, i)
  <2>1. i \in Int /\ key[i] \in Int
    OBVIOUS
  <2>2. i \notin Before(I, key, i)
    BY <2>1
  <2>3. Before(I, key, i) \in SUBSET I
    OBVIOUS
  <2> HIDE DEF Before
  <2>4. IsFiniteSet(Before(I, key, i)) /\ Cardinality(Before(I, key, i)) <= size /\ Cardinality(Before(I, key, i)) # size
    BY <2>2, <2>3, FS_Subset
  <2>5. Cardinality(Before(I, key, i)) \in Nat
    BY <2>4, FS_CardinalityType
  <2> QED
    BY <1>1, <2>2, <2>4, <2>5
<1>3. ASSUME NEW i \in I, NEW j \in I, i \in Before(I, key, j)
      PROVE  Cardinality(Before(I, key, i)) # Cardinality(Before(I, key, j))
  <2>1. Before(I, key, i) \in SUBSET Before(I, key, j)
    <3>1. i \in Int /\ j \in Int /\ key[i] \in Int /\ key[j] \in Int
      OBVIOUS
    <3>2. key[i] < key[j] \/ (key[i] = key[j] /\ i < j)
      BY <1>3
    <3>3. ASSUME NEW k \in Before(I, key, i) PROVE k \in Before(I, key, j)
      <4>1. k \in I /\ k \in Int /\ key[k] \in Int /\ (key[k] < key[i] \/ (key[k] = key[i] /\ k < i))
        OBVIOUS
      <4> QED
        BY <3>1, <3>2, <4>1
    <3> QED
      BY <3>3
  <2> HIDE DEF Before
  <2>2. IsFiniteSet(Before(I, key, j)) /\ i \in Before(I, key, j) /\ i \notin Before(I, key, i)
    BY <1>2, <1>3
  <2> QED
    BY <2>1, <2>2, FS_Subset
<1>4. ASSUME NEW i \in I, NEW j \in I, Cardinality(Before(I, key, i)) = Cardinality(Before(I, key, j))
      PROVE  i = j
  <2>1. i \notin Before(I, key, j) /\ j \notin Before(I, key, i)
    BY <1>3, <1>4
  <2>2. i \in Int /\ j \in Int /\ key[i] \in Int /\ key[j] \in Int
    OBVIOUS
  <2> QED
    BY <2>1, <2>2
<1> HIDE DEF Before
<1>5. rank \in Injection(I, 0 .. size - 1)
  BY <1>2, <1>4 DEF Injection, IsInjective
<1>6. IsFiniteSet(0 .. size - 1) /\ Cardinality(0 .. size - 1) = size
  BY <1>1, FS_Interval
<1>7. rank \in Surjection(I, 0 .. size - 1)
  BY <1>5, <1>6, FS_Injection
<1>8. ASSUME NEW n \in 1 .. size PROVE \E i \in I : Cardinality(Before(I, key, i)) = n - 1
  <2>1. n - 1 \in 0 .. size - 1
    BY <1>1
  <2> QED
    BY <1>7, <2>1 DEF Surjection
<1> QED
  BY <1>1, <1>2, <1>4, <1>8

\* OrderedBy is a list of the chosen elements and of no other.
LEMMA OrderedByProperties ==
    ASSUME NEW s, s \in Seq(Range(s)), NEW I, I \subseteq DOMAIN s, NEW key \in [I -> Int]
    PROVE  /\ OrderedBy(s, I, key) \in Seq(Range(s))
           /\ Range(OrderedBy(s, I, key)) = {s[i] : i \in I}
<1> DEFINE size == Cardinality(I)
           at == [n \in 1 .. size |-> CHOOSE i \in I : Cardinality(Before(I, key, i)) = n - 1]
           o == OrderedBy(s, I, key)
<1>1. Len(s) \in Nat /\ DOMAIN s = 1 .. Len(s) /\ IsFiniteSet(DOMAIN s) /\ I \subseteq Nat
  <2>1. Len(s) \in Nat /\ DOMAIN s = 1 .. Len(s)
    BY LenProperties
  <2> QED
    BY <2>1, FS_Interval
<1>2. IsFiniteSet(I)
  BY <1>1, FS_Subset
<1>3. /\ size \in Nat
      /\ \A i \in I : Cardinality(Before(I, key, i)) \in 0 .. size - 1
      /\ \A i, j \in I : Cardinality(Before(I, key, i)) = Cardinality(Before(I, key, j)) => i = j
      /\ \A n \in 1 .. size : \E i \in I : Cardinality(Before(I, key, i)) = n - 1
  BY <1>1, <1>2, Rank, Zenon
<1>4. o = [n \in 1 .. size |-> s[at[n]]]
  BY DEF OrderedBy
<1> HIDE DEF size, o
<1>5. \A n \in 1 .. size : at[n] \in I /\ Cardinality(Before(I, key, at[n])) = n - 1
  BY <1>3
<1>6. \A i \in I : \E n \in 1 .. size : at[n] = i
  <2> SUFFICES ASSUME NEW i \in I PROVE \E n \in 1 .. size : at[n] = i
    OBVIOUS
  <2> DEFINE n == Cardinality(Before(I, key, i)) + 1
  <2>1. n \in 1 .. size /\ n - 1 = Cardinality(Before(I, key, i))
    BY <1>3
  <2> HIDE DEF n, at
  <2>2. at[n] = i
    BY <1>3, <1>5, <2>1
  <2> QED
    BY <2>1, <2>2
<1> HIDE DEF at
<1>7. DOMAIN o = 1 .. size /\ \A n \in 1 .. size : o[n] = s[at[n]] /\ o[n] \in Range(s)
  BY <1>4, <1>5 DEF Range
<1>8. o = [n \in 1 .. size |-> o[n]]
  BY <1>4, <1>7
<1>9. o \in Seq(Range(s))
  BY <1>3, <1>7, <1>8, SeqDef
<1>10. \A n \in DOMAIN o : \E i \in I : o[n] = s[i]
  BY <1>5, <1>7, Zenon
<1>11. ASSUME NEW i \in I PROVE \E n \in DOMAIN o : o[n] = s[i]
  <2>1. PICK n \in 1 .. size : at[n] = i
    BY <1>6
  <2> QED
    BY <1>7, <2>1
<1>12. Range(o) = {s[i] : i \in I}
  BY <1>10, <1>11 DEF Range
<1> QED
  BY <1>9, <1>12, Zenon DEF o

--------------------------------------------------------------------------------
(* The types of the variables.                                                  *)

Early == {"concat", "references"}

\* The lists that link works on.
TypeInv ==
    /\ stage \in LinkStages
    /\ asects \in Seq(Range(asects)) /\ \A s \in Range(asects) : IsAbs(s) /\ Fine(s)
    /\ pieces \in Seq(Range(pieces)) /\ \A p \in Range(pieces) : IsRel(p) /\ Fine(p)
    /\ rsects \in Seq(Range(rsects)) /\ \A s \in Range(rsects) : RelSect(s)
    /\ binned \in 0 .. Len(asects) /\ lastBinBegin \in Nat
    /\ bins \in Seq([begin: Nat, size: Nat])
    /\ addresses \in Seq(Nat) /\ Len(addresses) <= Len(rsects)
    /\ stage \in Early => binned = 0 /\ lastBinBegin = 0 /\ bins = <<>> /\ addresses = <<>>

\* What the sections in the lists of link are.
LEMMA SectionFacts ==
    ASSUME TypeInv
    PROVE  /\ Len(asects) \in Nat /\ DOMAIN asects = 1 .. Len(asects)
           /\ \A i \in DOMAIN asects : /\ asects[i] \in Range(asects) /\ IsAbs(asects[i]) /\ Fine(asects[i])
                                       /\ asects[i].address \in Nat /\ asects[i].size \in Nat
           /\ Len(rsects) \in Nat /\ DOMAIN rsects = 1 .. Len(rsects)
           /\ \A n \in DOMAIN rsects : /\ rsects[n] \in Range(rsects) /\ RelSect(rsects[n])
                                       /\ rsects[n].size \in Nat /\ rsects[n].alignment \in Nat \ {0}
                                       /\ rsects[n].name \in Names
<1>1. \A s \in Range(asects) : IsAbs(s) /\ Fine(s) /\ s.address \in Nat /\ s.size \in Nat
  BY DEF TypeInv, IsAbs, IsRecord
<1>2. \A s \in Range(rsects) : /\ RelSect(s) /\ s.size \in Nat /\ s.alignment \in Nat \ {0}
                               /\ s.name \in Names
  BY DEF TypeInv, RelSect, IsJoined, IsRel, IsRecord
<1>3. asects \in Seq(Range(asects)) /\ rsects \in Seq(Range(rsects))
  BY DEF TypeInv
<1> QED
  BY <1>1, <1>2, <1>3, ListFacts

BinType == [begin: Nat, size: Nat]

\* What the gaps and addresses are.
LEMMA PlaceFacts ==
    ASSUME TypeInv
    PROVE  /\ bins \in Seq(BinType) /\ Len(bins) \in Nat /\ DOMAIN bins = 1 .. Len(bins)
           /\ \A i \in DOMAIN bins : bins[i] \in BinType /\ bins[i].begin \in Nat /\ bins[i].size \in Nat
           /\ addresses \in Seq(Nat) /\ Len(addresses) \in Nat /\ DOMAIN addresses = 1 .. Len(addresses)
           /\ \A n \in DOMAIN addresses : addresses[n] \in Nat
           /\ DOMAIN addresses \subseteq DOMAIN rsects
           /\ binned \in Nat /\ binned <= Len(asects) /\ lastBinBegin \in Nat
<1>1. /\ bins \in Seq(BinType) /\ addresses \in Seq(Nat) /\ Len(addresses) <= Len(rsects)
      /\ binned \in 0 .. Len(asects) /\ lastBinBegin \in Nat
  BY DEF TypeInv, BinType
<1>2. /\ Len(bins) \in Nat /\ DOMAIN bins = 1 .. Len(bins) /\ \A i \in DOMAIN bins : bins[i] \in BinType
      /\ Len(addresses) \in Nat /\ DOMAIN addresses = 1 .. Len(addresses)
      /\ \A n \in DOMAIN addresses : addresses[n] \in Nat
  BY <1>1, LenProperties, ElementOfSeq
<1>3. \A bin \in BinType : bin.begin \in Nat /\ bin.size \in Nat
  BY DEF BinType
<1>4. Len(asects) \in Nat /\ Len(rsects) \in Nat /\ DOMAIN rsects = 1 .. Len(rsects)
  BY SectionFacts
<1>5. DOMAIN addresses \subseteq DOMAIN rsects /\ binned \in Nat /\ binned <= Len(asects)
  BY <1>1, <1>2, <1>4
<1> QED
  BY <1>1, <1>2, <1>3, <1>5

\* The section that init_bins passes, and its gap.
LEMMA InitBinFacts ==
    ASSUME TypeInv, InitBin
    PROVE  LET s == asects[binned + 1]
               gap == s.address - lastBinBegin
           IN /\ binned + 1 \in DOMAIN asects /\ binned' = binned + 1
              /\ s.address \in Nat /\ s.size \in Nat
              /\ \/ /\ s.size = 0 /\ UNCHANGED <<stage, bins, lastBinBegin>>
                 \/ /\ gap < 0 /\ stage' = "overlapping" /\ UNCHANGED <<bins, lastBinBegin>>
                 \/ /\ s.size > 0 /\ lastBinBegin' = s.address + s.size
                    /\ \/ gap = 0 /\ bins' = bins
                       \/ /\ gap > 0 /\ bins' = Append(bins, Bin(lastBinBegin, gap))
                          /\ Bin(lastBinBegin, gap) \in BinType
                    /\ IF lastBinBegin' > ImageSize THEN stage' = "exceeds image" ELSE stage' = stage
              /\ stage = "bins" /\ UNCHANGED <<asects, pieces, rsects, used, todo, addresses, fieldVars>>
<1> DEFINE s == asects[binned + 1]
           gap == s.address - lastBinBegin
<1>1. binned \in Nat /\ lastBinBegin \in Nat /\ binned + 1 \in DOMAIN asects /\ binned' = binned + 1
  <2>1. binned \in Nat /\ lastBinBegin \in Nat /\ Len(asects) \in Nat /\ DOMAIN asects = 1 .. Len(asects)
    BY SectionFacts, PlaceFacts
  <2>2. binned < Len(asects) /\ binned' = binned + 1
    BY DEF InitBin
  <2> QED
    BY <2>1, <2>2
<1>2. s.address \in Nat /\ s.size \in Nat
  BY <1>1, SectionFacts
<1>3. /\ stage = "bins" /\ UNCHANGED <<asects, pieces, rsects, used, todo, addresses, fieldVars>>
      /\ \/ s.size = 0 /\ UNCHANGED <<stage, bins, lastBinBegin>>
         \/ s.size # 0 /\ gap < 0 /\ stage' = "overlapping" /\ UNCHANGED <<bins, lastBinBegin>>
         \/ /\ s.size # 0 /\ ~(gap < 0) /\ lastBinBegin' = s.address + s.size
            /\ bins' = IF gap > 0 THEN Append(bins, Bin(lastBinBegin, gap)) ELSE bins
            /\ stage' = IF lastBinBegin' > ImageSize THEN "exceeds image" ELSE stage
  BY <1>1 DEF InitBin
<1>4. gap \in Int /\ (gap > 0 => Bin(lastBinBegin, gap) \in BinType)
  <2>1. gap \in Int
    BY <1>1, <1>2
  <2> HIDE DEF gap
  <2> QED
    BY <1>1, <2>1 DEF Bin, BinType
<1> HIDE DEF s
<1>5. s.size # 0 => s.size > 0
  BY <1>2
<1>6. ~(gap < 0) => gap = 0 \/ gap > 0
  <2> HIDE DEF gap
  <2> QED
    BY <1>4
<1> HIDE DEF gap
<1>7. /\ \/ s.size = 0 /\ UNCHANGED <<stage, bins, lastBinBegin>>
         \/ gap < 0 /\ stage' = "overlapping" /\ UNCHANGED <<bins, lastBinBegin>>
         \/ /\ s.size > 0 /\ lastBinBegin' = s.address + s.size
            /\ \/ gap = 0 /\ bins' = bins
               \/ /\ gap > 0 /\ bins' = Append(bins, Bin(lastBinBegin, gap))
                  /\ Bin(lastBinBegin, gap) \in BinType
            /\ IF lastBinBegin' > ImageSize THEN stage' = "exceeds image" ELSE stage' = stage
  BY <1>3, <1>4, <1>5, <1>6, Zenon
<1> QED
  BY <1>1, <1>2, <1>3, <1>7, Zenon DEF s, gap

\* The gap behind the last absolute section.
LEMMA LastBinFacts ==
    ASSUME TypeInv, LastBin
    PROVE  LET rest == Bin(lastBinBegin, ImageSize - lastBinBegin)
           IN /\ stage = "bins" /\ stage' = "place" /\ binned = Len(asects)
              /\ \/ lastBinBegin >= ImageSize /\ bins' = bins
                 \/ lastBinBegin < ImageSize /\ bins' = Append(bins, rest) /\ rest \in BinType
              /\ UNCHANGED <<asects, pieces, rsects, used, todo, binned, lastBinBegin, addresses, fieldVars>>
<1>1. ImageSize \in Nat /\ lastBinBegin \in Nat
  BY LinkerAssumption, PlaceFacts
<1>2. lastBinBegin < ImageSize => Bin(lastBinBegin, ImageSize - lastBinBegin) \in BinType
  BY <1>1 DEF Bin, BinType
<1> QED
  BY <1>1, <1>2 DEF LastBin

\* A section is placed into the first bin that it fits.
Placing(i) ==
    LET s == rsects[Len(addresses) + 1]
        address == RoundUp(bins[i].begin, s.alignment)
        rest == Bin(address + s.size, bins[i].size - s.size)
    IN /\ i \in DOMAIN bins /\ s.size <= bins[i].size
       /\ address + s.size <= bins[i].begin + bins[i].size
       /\ address \in Nat /\ address >= bins[i].begin /\ address % s.alignment = 0
       /\ (s.alignment = 1 => address = bins[i].begin)
       /\ addresses' = Append(addresses, address)
       /\ addresses' \in Seq(Nat) /\ Len(addresses') = Len(addresses) + 1
       /\ \A n \in DOMAIN addresses : addresses'[n] = addresses[n]
       /\ addresses'[Len(addresses) + 1] = address
       /\ rest \in BinType /\ bins' = [bins EXCEPT ![i] = rest] /\ bins' \in Seq(BinType)
       /\ stage' = "place"

\* A step of place_sects either finds no gap or places the section in one.
LEMMA PlacingFacts ==
    ASSUME TypeInv, Place
    PROVE  /\ Len(addresses) + 1 \in DOMAIN rsects /\ Len(addresses) < Len(rsects) /\ stage = "place"
           /\ UNCHANGED <<asects, pieces, rsects, used, todo, binned, lastBinBegin, fieldVars>>
           /\ \/ /\ \A i \in DOMAIN bins : ~Fits(rsects[Len(addresses) + 1], bins[i])
                 /\ stage' = "no room" /\ UNCHANGED <<addresses, bins>>
              \/ \E i \in DOMAIN bins : Placing(i)
<1> DEFINE s == rsects[Len(addresses) + 1]
<1>1. Len(addresses) + 1 \in DOMAIN rsects /\ Len(addresses) < Len(rsects)
  <2>1. Len(addresses) \in Nat /\ Len(rsects) \in Nat /\ DOMAIN rsects = 1 .. Len(rsects)
    BY SectionFacts, PlaceFacts
  <2>2. Len(addresses) < Len(rsects)
    BY DEF Place
  <2> QED
    BY <2>1, <2>2
<1>2. s.size \in Nat /\ s.alignment \in Nat \ {0}
  BY <1>1, SectionFacts
<1>3. /\ stage = "place"
      /\ UNCHANGED <<asects, pieces, rsects, used, todo, binned, lastBinBegin, fieldVars>>
      /\ \/ /\ \A i \in DOMAIN bins : ~Fits(s, bins[i])
            /\ stage' = "no room" /\ UNCHANGED <<addresses, bins>>
         \/ \E i \in DOMAIN bins :
                /\ Fits(s, bins[i]) /\ stage' = stage
                /\ addresses' = Append(addresses, RoundUp(bins[i].begin, s.alignment))
                /\ bins' = [bins EXCEPT ![i] =
                                Bin(RoundUp(bins[i].begin, s.alignment) + s.size, bins[i].size - s.size)]
  BY DEF Place
<1>4. ASSUME NEW i \in DOMAIN bins, Fits(s, bins[i]), stage' = stage,
             addresses' = Append(addresses, RoundUp(bins[i].begin, s.alignment)),
             bins' = [bins EXCEPT ![i] =
                        Bin(RoundUp(bins[i].begin, s.alignment) + s.size, bins[i].size - s.size)]
      PROVE  Placing(i)
  <2> DEFINE address == RoundUp(bins[i].begin, s.alignment)
             rest == Bin(address + s.size, bins[i].size - s.size)
  <2>1. bins[i].begin \in Nat /\ bins[i].size \in Nat /\ i \in 1 .. Len(bins)
        /\ bins \in Seq(BinType) /\ addresses \in Seq(Nat) /\ Len(addresses) \in Nat
        /\ DOMAIN addresses = 1 .. Len(addresses)
    BY PlaceFacts
  <2>2. address \in Nat /\ address >= bins[i].begin /\ address % s.alignment = 0
        /\ (s.alignment = 1 => address = bins[i].begin)
    BY <1>2, <2>1, RoundUpProperties
  <2>3. s.size <= bins[i].size /\ address + s.size <= bins[i].begin + bins[i].size
    BY <1>4 DEF Fits
  <2>4. addresses' = Append(addresses, address) /\ bins' = [bins EXCEPT ![i] = rest]
    BY <1>4
  <2> HIDE DEF address
  <2>5. rest \in BinType
    <3>1. address + s.size \in Nat /\ bins[i].size - s.size \in Nat
      BY <1>2, <2>1, <2>2, <2>3
    <3> QED
      BY <3>1 DEF Bin, BinType
  <2> HIDE DEF rest, s
  <2>6. bins' \in Seq(BinType)
    BY <2>1, <2>4, <2>5, ExceptSeq
  <2>7. /\ addresses' \in Seq(Nat) /\ Len(addresses') = Len(addresses) + 1
        /\ \A n \in DOMAIN addresses : addresses'[n] = addresses[n]
        /\ addresses'[Len(addresses) + 1] = address
    BY <2>1, <2>2, <2>4, AppendProperties
  <2> QED
    BY <1>3, <1>4, <2>1, <2>2, <2>3, <2>4, <2>5, <2>6, <2>7 DEF Placing, address, rest, s
<1> HIDE DEF s
<1>5. (\E i \in DOMAIN bins :
                /\ Fits(s, bins[i]) /\ stage' = stage
                /\ addresses' = Append(addresses, RoundUp(bins[i].begin, s.alignment))
                /\ bins' = [bins EXCEPT ![i] =
                                Bin(RoundUp(bins[i].begin, s.alignment) + s.size, bins[i].size - s.size)])
      => \E i \in DOMAIN bins : Placing(i)
  BY <1>4
<1> QED
  BY <1>1, <1>3, <1>5 DEF s

\* The linker before its first step has typed lists, and nothing else yet.
Begun ==
    /\ IsList(asects) /\ \A s \in Range(asects) : IsAbs(s)
    /\ IsList(pieces) /\ \A p \in Range(pieces) : IsRel(p)
    /\ stage = "concat" /\ rsects = <<>> /\ used = {Abs} /\ todo = {Abs}
    /\ binned = 0 /\ lastBinBegin = 0 /\ bins = <<>> /\ addresses = <<>>
    /\ jobs = {} /\ lowerParts = [pos \in {} |-> 0] /\ image = <<>>

\* So it is with modules that are linked directly.
LEMMA InitBegun == Init => Begun
<1> SUFFICES ASSUME Init PROVE Begun
  OBVIOUS
<1>1. PICK program \in Programs : asects = program.asects /\ pieces = program.pieces
  BY DEF Init
<1>2. /\ IsList(asects) /\ \A s \in Range(asects) : IsAbs(s)
      /\ IsList(pieces) /\ \A p \in Range(pieces) : IsRel(p)
  BY <1>1, LinkerAssumption
<1> QED
  BY <1>2 DEF Init, Begun

\* The lists are typed at the beginning ...
LEMMA TypeInit == Begun => TypeInv
<1> SUFFICES ASSUME Begun PROVE TypeInv
  OBVIOUS
<1>1. /\ IsList(asects) /\ \A s \in Range(asects) : IsAbs(s)
      /\ IsList(pieces) /\ \A p \in Range(pieces) : IsRel(p)
  BY DEF Begun
<1>2. ASSUME NEW s, IsList(s) PROVE s \in Seq(Range(s)) /\ \A x \in Range(s) : Fine(x)
  BY <1>2, ListFacts DEF IsList, Fine
<1>3. /\ asects \in Seq(Range(asects)) /\ \A s \in Range(asects) : IsAbs(s) /\ Fine(s)
      /\ pieces \in Seq(Range(pieces)) /\ \A p \in Range(pieces) : IsRel(p) /\ Fine(p)
  BY <1>1, <1>2
<1>4. <<>> \in Seq(Range(<<>>)) /\ \A s \in Range(<<>>) : RelSect(s)
  BY DEF Range
<1>5. Len(asects) \in Nat
  BY <1>3, LenProperties
<1> QED
  BY <1>3, <1>4, <1>5 DEF Begun, TypeInv, LinkStages

\* ... and every step keeps them so.
LEMMA TypeStep ==
    ASSUME TypeInv, [Next]_vars
    PROVE  TypeInv'
<1>1. CASE Concat
  <2> DEFINE p == Head(pieces)
             same == {k \in DOMAIN rsects : rsects[k].name = p.name}
  <2>1. /\ IsRel(p) /\ Fine(p)
        /\ pieces' \in Seq(Range(pieces')) /\ \A q \in Range(pieces') : IsRel(q) /\ Fine(q)
    BY <1>1, ListFront DEF Concat, TypeInv
  <2>2. rsects \in Seq(Range(rsects)) /\ \A s \in Range(rsects) : RelSect(s)
    BY DEF TypeInv
  <2>3. rsects' \in Seq(Range(rsects')) /\ \A s \in Range(rsects') : RelSect(s)
    <3> HIDE DEF p
    <3>1. CASE rsects' = Append(rsects, First(p))
      <4>1. RelSect(First(p))
        BY <2>1, FirstProperties
      <4> QED
        BY <2>2, <3>1, <4>1, ListAppend
    <3>2. ASSUME NEW k \in DOMAIN rsects, rsects' = [rsects EXCEPT ![k] = Joined(rsects[k], p)]
          PROVE  rsects' \in Seq(Range(rsects')) /\ \A s \in Range(rsects') : RelSect(s)
      <4> DEFINE joined == Joined(rsects[k], p)
      <4>1. RelSect(joined)
        BY <2>1, JoinedProperties, SectionFacts
      <4>2. rsects' = [rsects EXCEPT ![k] = joined]
        BY <3>2
      <4> HIDE DEF joined
      <4>3. rsects' \in Seq(Range(rsects')) /\ Range(rsects') \subseteq Range(rsects) \cup {joined}
        BY <2>2, <4>2, ListReplace
      <4> QED
        BY <2>2, <4>1, <4>3
    <3>3. CASE UNCHANGED rsects
      BY <2>2, <3>3
    <3> QED
      BY <1>1, <3>1, <3>2, <3>3 DEF Concat, p
  <2>4. stage' \in LinkStages /\ stage \in Early
    BY <1>1 DEF Concat, LinkStages, Early, Exceptions
  <2>5. addresses' \in Seq(Nat) /\ Len(addresses') <= Len(rsects')
    <3>1. Len(rsects') \in Nat
      BY <2>3, LenProperties
    <3>2. addresses' = <<>>
      BY <1>1, <2>4 DEF Concat, TypeInv, placeVars
    <3> QED
      BY <3>1, <3>2
  <2> QED
    BY <1>1, <2>1, <2>3, <2>4, <2>5 DEF Concat, placeVars, TypeInv
<1>2. CASE Collect
  BY <1>2 DEF TypeInv, Collect, Early, LinkStages, Exceptions, placeVars
<1>3. CASE Visit
  BY <1>3 DEF TypeInv, Visit, Early, LinkStages, Exceptions, placeVars
<1>4. CASE Referenced
  <2> DEFINE needed == {i \in DOMAIN rsects : rsects[i].name \in used}
             size == [i \in needed |-> -rsects[i].size]
             address == [i \in DOMAIN asects |-> asects[i].address]
  <2>1. size \in [needed -> Int] /\ address \in [DOMAIN asects -> Int] /\ needed \subseteq DOMAIN rsects
        /\ rsects \in Seq(Range(rsects)) /\ asects \in Seq(Range(asects))
    BY SectionFacts DEF TypeInv
  <2>2. rsects' = OrderedBy(rsects, needed, size) /\ asects' = OrderedBy(asects, DOMAIN asects, address)
    BY <1>4 DEF Referenced
  <2> HIDE DEF needed, size, address
  <2>3. rsects' \in Seq(Range(rsects)) /\ asects' \in Seq(Range(asects))
    BY <2>1, <2>2, OrderedByProperties
  <2>4. /\ rsects' \in Seq(Range(rsects')) /\ Range(rsects') \subseteq Range(rsects)
        /\ asects' \in Seq(Range(asects')) /\ Range(asects') \subseteq Range(asects)
    BY <2>3, ListOf
  <2>5. /\ \A s \in Range(rsects') : RelSect(s)
        /\ \A s \in Range(asects') : IsAbs(s) /\ Fine(s)
    BY <2>4 DEF TypeInv
  <2>6. /\ addresses' \in Seq(Nat) /\ Len(addresses') <= Len(rsects') /\ binned' \in 0 .. Len(asects')
    <3>1. Len(rsects') \in Nat /\ Len(asects') \in Nat
      BY <2>4, LenProperties
    <3>2. addresses' = <<>> /\ binned' = 0
      BY <1>4 DEF Referenced, Early, TypeInv, placeVars
    <3> QED
      BY <3>1, <3>2
  <2>7. stage' \in LinkStages /\ stage' \notin Early
    BY <1>4 DEF Referenced, LinkStages, Early
  <2> QED
    BY <1>4, <2>4, <2>5, <2>6, <2>7 DEF Referenced, placeVars, TypeInv
<1>5. CASE InitBin
  <2> DEFINE s == asects[binned + 1]
             gap == s.address - lastBinBegin
  <2>1. /\ binned + 1 \in DOMAIN asects /\ binned' = binned + 1
        /\ s.address \in Nat /\ s.size \in Nat
        /\ \/ UNCHANGED <<bins, lastBinBegin>>
           \/ /\ lastBinBegin' = s.address + s.size
              /\ \/ bins' = bins
                 \/ bins' = Append(bins, Bin(lastBinBegin, gap)) /\ Bin(lastBinBegin, gap) \in BinType
        /\ stage' \in {"bins", "overlapping", "exceeds image"}
        /\ stage = "bins" /\ UNCHANGED <<asects, pieces, rsects, used, todo, addresses, fieldVars>>
    BY <1>5, InitBinFacts
  <2>f. bins \in Seq(BinType) /\ lastBinBegin \in Nat /\ DOMAIN asects = 1 .. Len(asects)
        /\ Len(asects) \in Nat /\ binned \in Nat
    BY PlaceFacts, SectionFacts
  <2> HIDE DEF s, gap
  <2>2. lastBinBegin' \in Nat
    <3>0. s.address \in Nat /\ s.size \in Nat
      BY <2>1
    <3>1. s.address + s.size \in Nat
      BY <3>0
    <3>2. lastBinBegin' = lastBinBegin \/ lastBinBegin' = s.address + s.size
      BY <2>1
    <3> QED
      BY <2>f, <3>1, <3>2
  <2>3. bins' \in Seq(BinType)
    <3> DEFINE bin == Bin(lastBinBegin, gap)
    <3>1. bins' = bins \/ (bins' = Append(bins, bin) /\ bin \in BinType)
      BY <2>1
    <3> HIDE DEF bin
    <3> QED
      BY <2>f, <3>1, AppendProperties
  <2>4. stage' \in LinkStages /\ stage' \notin Early
    BY <2>1 DEF LinkStages, Early, Exceptions
  <2>5. binned' \in 0 .. Len(asects)
    <3>1. binned' = binned + 1 /\ binned + 1 \in DOMAIN asects
      BY <2>1
    <3> QED
      BY <2>f, <3>1
  <2> QED
    BY <2>1, <2>2, <2>3, <2>4, <2>5 DEF TypeInv, BinType
<1>6. CASE LastBin
  <2>1. bins' \in Seq(BinType)
    <3> DEFINE rest == Bin(lastBinBegin, ImageSize - lastBinBegin)
    <3>1. bins' = bins \/ (bins' = Append(bins, rest) /\ rest \in BinType)
      BY <1>6, LastBinFacts
    <3>2. bins \in Seq(BinType)
      BY PlaceFacts
    <3> HIDE DEF rest
    <3> QED
      BY <3>1, <3>2, AppendProperties
  <2> QED
    BY <1>6, <2>1 DEF LastBin, LinkStages, Early, TypeInv, BinType
<1>7. CASE Place
  <2>1. /\ Len(addresses) < Len(rsects) /\ Len(addresses) \in Nat /\ Len(rsects) \in Nat
        /\ UNCHANGED <<asects, pieces, rsects, used, todo, binned, lastBinBegin, fieldVars>>
    BY <1>7, PlacingFacts, PlaceFacts, SectionFacts
  <2>2. CASE stage' = "no room" /\ UNCHANGED <<addresses, bins>>
    BY <2>1, <2>2 DEF LinkStages, Early, Exceptions, TypeInv
  <2>3. ASSUME NEW i \in DOMAIN bins, Placing(i) PROVE TypeInv'
    <3>1. /\ addresses' \in Seq(Nat) /\ Len(addresses') = Len(addresses) + 1
          /\ bins' \in Seq(BinType) /\ stage' = "place"
      BY <2>3 DEF Placing
    <3>2. Len(addresses') <= Len(rsects)
      BY <2>1, <3>1
    <3> QED
      BY <2>1, <3>1, <3>2 DEF LinkStages, Early, TypeInv, BinType
  <2> QED
    BY <1>7, <2>2, <2>3, PlacingFacts
<1>8. CASE Placed \/ AddAddress \/ Linked
  BY <1>8 DEF TypeInv, Placed, AddAddress, Linked, placeVars, fieldVars, LinkStages, Early
<1>9. CASE UNCHANGED vars
  BY <1>9 DEF vars, TypeInv
<1> QED
  BY <1>1, <1>2, <1>3, <1>4, <1>5, <1>6, <1>7, <1>8, <1>9 DEF Next

--------------------------------------------------------------------------------
(* What is needed.                                                             *)

\* find_referenced_sects: what the visited sections need is used, and all that is
\* used is needed.
Needs(n) == {m \in Sects : Defines(m) \cap Exts(n) # {}}

Needed ==
    /\ Abs \in used /\ todo \subseteq used /\ used \subseteq Sects
    /\ stage = "concat" => used = {Abs} /\ todo = {Abs}
    /\ stage = "references" =>
        /\ \A n \in used \ todo : /\ Needs(n) \subseteq used
                                  /\ Exts(n) \subseteq UNION {Defines(m) : m \in Sects}
        /\ \A S \in SUBSET Sects : Closed(S) => used \subseteq S

\* A set is closed if it has what each of its sections needs.
LEMMA ClosedIs == \A S : Closed(S) <=> Abs \in S /\ \A n \in S : Needs(n) \subseteq S
BY DEF Closed, Needs

\* At first only the absolute sections are used.
LEMMA NeededInit == Begun => Needed
BY DEF Begun, Needed, Sects

\* What the sorts keep.
LEMMA ReferencedFacts ==
    ASSUME TypeInv, Referenced
    PROVE  /\ Range(asects') = Range(asects)
           /\ Range(rsects') = {s \in Range(rsects) : s.name \in used}
<1> DEFINE needed == {i \in DOMAIN rsects : rsects[i].name \in used}
           size == [i \in needed |-> -rsects[i].size]
           address == [i \in DOMAIN asects |-> asects[i].address]
<1>1. size \in [needed -> Int] /\ address \in [DOMAIN asects -> Int] /\ needed \subseteq DOMAIN rsects
      /\ rsects \in Seq(Range(rsects)) /\ asects \in Seq(Range(asects))
  BY SectionFacts DEF TypeInv
<1>2. rsects' = OrderedBy(rsects, needed, size) /\ asects' = OrderedBy(asects, DOMAIN asects, address)
  BY DEF Referenced
<1> HIDE DEF size, address, needed
<1>3. Range(rsects') = {rsects[i] : i \in needed}
  BY <1>1, <1>2, OrderedByProperties
<1>4. Range(asects') = {asects[i] : i \in DOMAIN asects}
  BY <1>1, <1>2, OrderedByProperties
<1>5. Range(asects') = Range(asects)
  BY <1>4 DEF Range
<1>6. {rsects[i] : i \in needed} = {s \in Range(rsects) : s.name \in used}
  BY DEF Range, needed
<1> QED
  BY <1>3, <1>5, <1>6

\* Every step keeps Needed.
LEMMA NeededStep ==
    ASSUME TypeInv, Needed, [Next]_vars
    PROVE  Needed'
<1>1. CASE Concat
  <2>1. stage = "concat" /\ UNCHANGED <<used, todo>> /\ stage' # "references"
    BY <1>1 DEF Concat
  <2>2. Abs \in Sects'
    BY DEF Sects
  <2> QED
    BY <2>1, <2>2 DEF Needed
<1>2. CASE Collect
  <2>1. used' = used /\ todo' = todo /\ used = {Abs} /\ todo = {Abs}
    BY <1>2 DEF Collect, Needed
  <2>2. stage' = "duplicate entry" \/ stage' = "references"
    BY <1>2 DEF Collect
  <2>0. Abs \in Sects'
    BY DEF Sects
  <2>3. CASE stage' = "references"
    <3>2. \A S : Closed(S)' => Abs \in S
      BY DEF Closed
    <3> QED
      BY <2>0, <2>1, <2>3, <3>2 DEF Needed
  <2> QED
    BY <2>0, <2>1, <2>2, <2>3 DEF Needed
<1>3. CASE Visit
  <2>1. PICK name \in todo : 
            \/ /\ Exts(name) \subseteq UNION {Defines(n) : n \in Sects}
               /\ used' = used \cup Needs(name)
               /\ todo' = (todo \cup (Needs(name) \ used)) \ {name} /\ stage' = stage
            \/ stage' = "unresolved ext" /\ used' = used /\ todo' = todo
    BY <1>3 DEF Visit, Needs
  <2>2. stage = "references" /\ asects' = asects /\ rsects' = rsects
    BY <1>3 DEF Visit
  <2>3. CASE stage' = "unresolved ext" /\ used' = used /\ todo' = todo
    <3>1. Sects' = Sects
      BY <2>2 DEF Sects
    <3> QED
      BY <2>2, <2>3, <3>1 DEF Needed
  <2>4. CASE /\ Exts(name) \subseteq UNION {Defines(n) : n \in Sects}
             /\ used' = used \cup Needs(name)
             /\ todo' = (todo \cup (Needs(name) \ used)) \ {name} /\ stage' = stage
    <3>1. /\ \A n : Called(n)' = Called(n)
          /\ Sects' = Sects
      BY <2>2 DEF Called, Sects
    <3>2. \A n : Defines(n)' = Defines(n) /\ Exts(n)' = Exts(n)
      BY <3>1 DEF Defines, Exts
    <3>3. \A n : Needs(n)' = Needs(n)
      BY <3>1, <3>2 DEF Needs
    <3>4. \A S : Closed(S)' = Closed(S)
      BY <3>1, <3>2 DEF Closed
    <3>5. Needs(name) \subseteq Sects
      BY DEF Needs
    <3>6. ASSUME NEW n \in used' \ todo'
          PROVE  /\ Needs(n)' \subseteq used'
                 /\ Exts(n)' \subseteq UNION {Defines(m)' : m \in Sects'}
      <4>1. Needs(n) \subseteq used' /\ Exts(n) \subseteq UNION {Defines(m) : m \in Sects}
        BY <2>2, <2>4, <3>6 DEF Needed
      <4> QED
        BY <3>1, <3>2, <3>3, <4>1
    <3>7. ASSUME NEW S \in SUBSET Sects, Closed(S) PROVE used' \subseteq S
      BY <2>2, <2>4, <3>7, ClosedIs DEF Needed
    <3> QED
      BY <2>2, <2>4, <3>1, <3>4, <3>5, <3>6, <3>7 DEF Needed
  <2> QED
    BY <2>1, <2>3, <2>4
<1>4. CASE Referenced \/ InitBin \/ LastBin \/ Place \/ Placed \/ AddAddress \/ Linked
  <2>1. stage' \notin {"concat", "references"} /\ UNCHANGED <<used, todo>>
    BY <1>4 DEF Referenced, InitBin, LastBin, Place, Placed, AddAddress, Linked
  <2>2. used \subseteq Sects'
    <3>1. CASE Referenced
      <4>1. Range(rsects') = {s \in Range(rsects) : s.name \in used}
        BY <3>1, ReferencedFacts
      <4> QED
        BY <4>1 DEF Needed, Sects
    <3>2. CASE InitBin \/ LastBin \/ Place \/ Placed \/ AddAddress \/ Linked
      <4>1. rsects' = rsects
        BY <3>2 DEF InitBin, LastBin, Place, Placed, AddAddress, Linked, placeVars
      <4> QED
        BY <4>1 DEF Needed, Sects
    <3> QED
      BY <1>4, <3>1, <3>2
  <2> QED
    BY <2>1, <2>2 DEF Needed
<1>5. CASE UNCHANGED vars
  <2>1. UNCHANGED <<stage, asects, rsects, used, todo>>
    BY <1>5 DEF vars
  <2>2. \A n : Called(n)' = Called(n) /\ Sects' = Sects
    BY <2>1 DEF Called, Sects
  <2>3. \A n : Defines(n)' = Defines(n) /\ Exts(n)' = Exts(n)
    BY <2>2 DEF Defines, Exts
  <2>4. /\ \A n : Needs(n)' = Needs(n)
        /\ \A S : Closed(S)' = Closed(S)
    BY <2>2, <2>3 DEF Needs, Closed
  <2> QED
    BY <2>1, <2>2, <2>3, <2>4 DEF Needed
<1> QED
  BY <1>1, <1>2, <1>3, <1>4, <1>5 DEF Next

\* What is used is needed, at all times.
LEMMA SpecNeeded == Spec => [](TypeInv /\ Needed)
<1> DEFINE Inv == TypeInv /\ Needed
<1>1. Init => Inv
  BY InitBegun, TypeInit, NeededInit
<1>2. Inv /\ [Next]_vars => Inv'
  BY TypeStep, NeededStep
<1> QED
  BY <1>1, <1>2, PTL DEF Spec

\* The type invariant of the linker is part of it.
LEMMA LinkTyped == TypeInv /\ Needed => LinkTypeOK
<1> SUFFICES ASSUME TypeInv, Needed PROVE LinkTypeOK
  OBVIOUS
<1>1. \A s \in Range(rsects) : IsJoined(s)
  BY DEF TypeInv, RelSect
<1>2. used \subseteq Sects \cup {Abs} /\ todo \subseteq used
  BY DEF Needed
<1> QED
  BY <1>1, <1>2 DEF LinkTypeOK, TypeInv

\* The lists of link hold sections of object_module, the gaps have a size, and what is
\* used or waits to be visited is a section.
THEOREM LinkTypesCorrect == Spec => []LinkTypeOK
<1>1. TypeInv /\ Needed => LinkTypeOK
  BY LinkTyped
<1> QED
  BY <1>1, SpecNeeded, PTL

\* When nothing is left to visit, what is used is closed.
LEMMA NeededAreUsed == Needed => NeededIsUsed
BY ClosedIs DEF Needed, NeededIsUsed

\* find_referenced_sects: what is linked is what the absolute sections need, directly or
\* not, and no more.
THEOREM LinksWhatIsNeeded == Spec => []NeededIsUsed
<1>1. Needed => NeededIsUsed
  BY NeededAreUsed
<1> QED
  BY <1>1, SpecNeeded, PTL

--------------------------------------------------------------------------------
\* Every label that a linked section waits for is in one of them.
Found(l) == \E t \in Range(asects) \cup Range(rsects) : l \in DOMAIN t.entries

Resolved ==
    stage \in {"bins", "place", "fields"} =>
        \A s \in Range(asects) \cup Range(rsects) : \A f \in Range(s.fields) :
            f.label = Null \/ Found(f.label)

\* Every step keeps Resolved.
LEMMA ResolvedStep ==
    ASSUME TypeInv, Needed, Resolved, [Next]_vars
    PROVE  Resolved'
<1>1. CASE Referenced
  <2> SUFFICES ASSUME NEW s \in Range(asects') \cup Range(rsects'), NEW f \in Range(s.fields),
                      f.label # Null
               PROVE  \E t \in Range(asects') \cup Range(rsects') : f.label \in DOMAIN t.entries
    BY DEF Resolved, Found
  <2>1. stage = "references" /\ todo = {}
    BY <1>1 DEF Referenced
  <2>2. /\ Range(asects') = Range(asects)
        /\ Range(rsects') = {r \in Range(rsects) : r.name \in used}
        /\ \A r \in Range(rsects) : r.name # Abs
    <3>1. \A r \in Range(rsects) : r.name \in Names
      BY DEF TypeInv, RelSect, IsJoined, IsRel
    <3> QED
      BY <1>1, <3>1, ReferencedFacts, ModuleAssumption
  <2>3. PICK n \in used : s \in Called(n)
    <3>1. CASE s \in Range(asects')
      BY <2>2, <3>1 DEF Called, Needed
    <3>2. CASE s \in Range(rsects')
      BY <2>2, <3>2 DEF Called
    <3> QED
      BY <3>1, <3>2
  <2>4. f.label \in Exts(n)
    <3>1. f.label \in {g.label : g \in Range(s.fields)} /\ f.label \notin {Null}
      BY Zenon
    <3> QED
      BY <2>3, <3>1, Zenon DEF Exts
  <2>5. Needs(n) \subseteq used /\ Exts(n) \subseteq UNION {Defines(m) : m \in Sects}
    BY <2>1 DEF Needed
  <2>6. PICK m \in Sects : f.label \in Defines(m)
    BY <2>4, <2>5
  <2>7. m \in used
    BY <2>4, <2>5, <2>6 DEF Needs
  <2>8. PICK t \in Called(m) : f.label \in DOMAIN t.entries
    BY <2>6 DEF Defines
  <2>9. t \in Range(asects') \cup Range(rsects')
    BY <2>2, <2>7, <2>8 DEF Called
  <2> QED
    BY <2>8, <2>9
<1>2. CASE InitBin \/ LastBin \/ Place \/ Placed \/ AddAddress \/ Linked \/ UNCHANGED vars
  <2>1. UNCHANGED <<asects, rsects>>
    BY <1>2 DEF InitBin, LastBin, Place, Placed, AddAddress, Linked, vars
  <2>2. stage' \in {"bins", "place", "fields"} => stage \in {"bins", "place", "fields"}
    BY <1>2 DEF InitBin, LastBin, Place, Placed, AddAddress, Linked, vars
  <2>3. \A l : Found(l)' = Found(l)
    BY <2>1 DEF Found
  <2> QED
    BY <2>1, <2>2, <2>3 DEF Resolved
<1>3. CASE Concat \/ Collect \/ Visit
  <2>1. stage' \notin {"bins", "place", "fields"}
    BY <1>3 DEF Concat, Collect, Visit
  <2> QED
    BY <2>1 DEF Resolved
<1> QED
  BY <1>1, <1>2, <1>3 DEF Next

--------------------------------------------------------------------------------
(* Gaps.                                                                       *)

\* The gaps: where sections can go.
End(bin) == bin.begin + bin.size
Within(x, bin) == bin.begin <= x /\ x < End(bin)
InOne(x, bs) == \E i \in DOMAIN bs : Within(x, bs[i])
BinsApart(bs) == \A i, j \in DOMAIN bs : i < j => End(bs[i]) < bs[j].begin

AbsEnd(i) == asects[i].address + asects[i].size
AbsAt(i, x) == asects[i].address <= x /\ x < AbsEnd(i)

\* A gap of given beginning and size.
LEMMA BinFacts ==
    ASSUME NEW b \in Nat, NEW s \in Nat
    PROVE  /\ Bin(b, s) \in BinType /\ Bin(b, s).begin = b /\ Bin(b, s).size = s
           /\ End(Bin(b, s)) = b + s
BY DEF Bin, BinType, End

\* The gaps of a list, and their ends.
LEMMA BinsFacts ==
    ASSUME NEW bs \in Seq(BinType)
    PROVE  /\ Len(bs) \in Nat /\ DOMAIN bs = 1 .. Len(bs)
           /\ \A i \in DOMAIN bs : /\ bs[i] \in BinType /\ bs[i].begin \in Nat /\ bs[i].size \in Nat
                                  /\ End(bs[i]) \in Nat /\ End(bs[i]) = bs[i].begin + bs[i].size
<1>1. Len(bs) \in Nat /\ DOMAIN bs = 1 .. Len(bs) /\ \A i \in DOMAIN bs : bs[i] \in BinType
  BY LenProperties, ElementOfSeq
<1>2. \A bin \in BinType : bin.begin \in Nat /\ bin.size \in Nat /\ End(bin) \in Nat
                             /\ End(bin) = bin.begin + bin.size
  BY DEF BinType, End
<1> QED
  BY <1>1, <1>2

\* A bin behind all others.
LEMMA MoreBins ==
    ASSUME NEW bs \in Seq(BinType), BinsApart(bs), NEW bin \in BinType,
           \A i \in DOMAIN bs : End(bs[i]) < bin.begin
    PROVE  LET t == Append(bs, bin) IN
           /\ BinsApart(t)
           /\ \A i \in DOMAIN t : End(t[i]) <= End(bin)
           /\ \A x : InOne(x, t) <=> InOne(x, bs) \/ Within(x, bin)
<1> DEFINE t == Append(bs, bin)
           k == Len(bs) + 1
<1>1. /\ k \in Nat /\ DOMAIN bs = 1 .. k - 1 /\ DOMAIN t = 1 .. k
      /\ \A i \in DOMAIN bs : t[i] = bs[i]
      /\ t[k] = bin
  BY AppendProperties, BinsFacts
<1>2. /\ \A i \in DOMAIN bs : End(bs[i]) \in Nat /\ i < k /\ i \in Nat
      /\ bin.begin \in Nat /\ End(bin) \in Nat /\ bin.begin <= End(bin)
  <2>1. bin.begin \in Nat /\ bin.size \in Nat
    BY DEF BinType
  <2> QED
    BY <1>1, <2>1, BinsFacts DEF End
<1> HIDE DEF t, k
<1>3. \A i \in DOMAIN t : i \in DOMAIN bs \/ i = k
  BY <1>1
<1>4. k \in DOMAIN t /\ DOMAIN bs \subseteq DOMAIN t
  <2>1. k \in Nat /\ k >= 1
    <3>1. Len(bs) \in Nat
      BY BinsFacts
    <3> QED
      BY <3>1 DEF k
  <2>2. \A i \in 1 .. k - 1 : i \in 1 .. k
    BY <2>1
  <2> QED
    BY <1>1, <2>1, <2>2
<1>5. BinsApart(t)
  <2> SUFFICES ASSUME NEW i \in DOMAIN t, NEW j \in DOMAIN t, i < j PROVE End(t[i]) < t[j].begin
    BY DEF BinsApart
  <2>1. CASE j = k
    BY <1>1, <1>2, <1>3, <2>1
  <2>2. CASE j \in DOMAIN bs
    BY <1>1, <1>2, <1>3, <2>2 DEF BinsApart
  <2> QED
    BY <1>3, <2>1, <2>2
<1>6. \A i \in DOMAIN t : End(t[i]) <= End(bin)
  BY <1>1, <1>2, <1>3
<1>7. \A x : InOne(x, t) <=> InOne(x, bs) \/ Within(x, bin)
  BY <1>1, <1>3, <1>4, Zenon DEF InOne
<1> QED
  BY <1>5, <1>6, <1>7 DEF t

\* A bin that has lost its beginning.
LEMMA LessOfBin ==
    ASSUME NEW bs \in Seq(BinType), BinsApart(bs), NEW i \in DOMAIN bs,
           NEW size \in Nat, size <= bs[i].size
    PROVE  LET t == [bs EXCEPT ![i] = Bin(bs[i].begin + size, bs[i].size - size)] IN
           /\ BinsApart(t) /\ DOMAIN t = DOMAIN bs
           /\ \A j \in DOMAIN bs : End(t[j]) = End(bs[j])
           /\ \A x \in Nat : InOne(x, t) <=>
                InOne(x, bs) /\ ~(bs[i].begin <= x /\ x < bs[i].begin + size)
<1> DEFINE rest == Bin(bs[i].begin + size, bs[i].size - size)
           t == [bs EXCEPT ![i] = rest]
<1>0. rest.begin = bs[i].begin + size /\ rest.size = bs[i].size - size
  BY DEF Bin
<1> HIDE DEF rest
<1>1. DOMAIN t = DOMAIN bs /\ t[i] = rest /\ \A j \in DOMAIN bs : j # i => t[j] = bs[j]
  OBVIOUS
<1>2. /\ DOMAIN bs = 1 .. Len(bs) /\ Len(bs) \in Nat
      /\ \A j \in DOMAIN bs : /\ bs[j].begin \in Nat /\ bs[j].size \in Nat
                             /\ End(bs[j]) \in Nat /\ End(bs[j]) = bs[j].begin + bs[j].size
  BY BinsFacts
<1>3. bs[i].begin \in Nat /\ bs[i].size \in Nat /\ End(bs[i]) = bs[i].begin + bs[i].size
  BY <1>2
<1>4. End(rest) = End(bs[i]) /\ rest.begin >= bs[i].begin /\ rest.begin \in Nat
  <2>1. End(rest) = rest.begin + rest.size
    BY DEF End
  <2> QED
    BY <1>0, <1>3, <2>1
<1>5. \A j \in DOMAIN bs : End(t[j]) = End(bs[j]) /\ t[j].begin >= bs[j].begin /\ t[j].begin \in Nat
  BY <1>1, <1>2, <1>3, <1>4
<1> HIDE DEF t
<1>6. BinsApart(t)
  <2> SUFFICES ASSUME NEW j \in DOMAIN bs, NEW k \in DOMAIN bs, j < k PROVE End(t[j]) < t[k].begin
    BY <1>1 DEF BinsApart
  <2>1. End(bs[j]) < bs[k].begin
    BY DEF BinsApart
  <2> QED
    BY <1>2, <1>5, <2>1
<1>7. ASSUME NEW x \in Nat
      PROVE  InOne(x, t) <=> InOne(x, bs) /\ ~(bs[i].begin <= x /\ x < bs[i].begin + size)
  <2>1. Within(x, rest) <=> Within(x, bs[i]) /\ ~(bs[i].begin <= x /\ x < bs[i].begin + size)
    BY <1>0, <1>3, <1>4 DEF Within
  <2>2. \A j \in DOMAIN bs : j # i /\ Within(x, bs[j]) => ~Within(x, bs[i])
    <3> SUFFICES ASSUME NEW j \in DOMAIN bs, j # i, Within(x, bs[j]), Within(x, bs[i]) PROVE FALSE
      OBVIOUS
    <3>1. j < i \/ i < j
      BY <1>2
    <3>2. CASE j < i
      <4>1. End(bs[j]) < bs[i].begin
        BY <3>2 DEF BinsApart
      <4> QED
        BY <1>2, <4>1 DEF Within
    <3>3. CASE i < j
      <4>1. End(bs[i]) < bs[j].begin
        BY <3>3 DEF BinsApart
      <4> QED
        BY <1>2, <4>1 DEF Within
    <3> QED
      BY <3>1, <3>2, <3>3
  <2>3. bs[i].begin <= x /\ x < bs[i].begin + size => Within(x, bs[i])
    BY <1>3 DEF Within
  <2> QED
    BY <1>1, <2>1, <2>2, <2>3 DEF InOne
<1> QED
  BY <1>1, <1>5, <1>6, <1>7 DEF rest, t

\* Between two bins there is something: what is free of it lies in one of them.
LEMMA OneGap ==
    ASSUME NEW bs \in Seq(BinType), BinsApart(bs), NEW a \in Nat, NEW size \in Nat, size > 0,
           \A x \in Nat : a <= x /\ x < a + size => InOne(x, bs)
    PROVE  \E i \in DOMAIN bs : bs[i].begin <= a /\ a + size <= End(bs[i])
<1>1. /\ DOMAIN bs = 1 .. Len(bs) /\ Len(bs) \in Nat
      /\ \A j \in DOMAIN bs : /\ bs[j].begin \in Nat /\ bs[j].size \in Nat
                             /\ End(bs[j]) \in Nat /\ End(bs[j]) = bs[j].begin + bs[j].size
  BY BinsFacts
<1>2. PICK i \in DOMAIN bs : Within(a, bs[i])
  BY DEF InOne
<1>3. bs[i].begin \in Nat /\ bs[i].begin <= a /\ a < End(bs[i]) /\ End(bs[i]) \in Nat
  BY <1>1, <1>2 DEF Within
<1>4. ASSUME ~(a + size <= End(bs[i])) PROVE FALSE
  <2>1. PICK j \in DOMAIN bs : Within(End(bs[i]), bs[j])
    BY <1>3, <1>4 DEF InOne
  <2>2. bs[j].begin \in Nat /\ bs[j].begin <= End(bs[i]) /\ End(bs[i]) < End(bs[j]) /\ End(bs[j]) \in Nat
    BY <1>1, <2>1 DEF Within
  <2>3. j < i \/ i < j
    BY <1>1, <2>2
  <2>4. CASE j < i
    <3>1. End(bs[j]) < bs[i].begin
      BY <2>4 DEF BinsApart
    <3> QED
      BY <1>3, <2>2, <3>1
  <2>5. CASE i < j
    <3>1. End(bs[i]) < bs[j].begin
      BY <2>5 DEF BinsApart
    <3> QED
      BY <1>3, <2>2, <3>1
  <2> QED
    BY <2>3, <2>4, <2>5
<1> QED
  BY <1>3, <1>4

\* The addresses of an interval.
LEMMA IntervalFacts ==
    ASSUME NEW b \in Nat, NEW s \in Nat
    PROVE  \A x : x \in Interval(b, s) <=> x \in Nat /\ b <= x /\ x < b + s
BY DEF Interval

--------------------------------------------------------------------------------
\* No two of the absolute sections passed by init_bins overlap.
PassedApart ==
    stage \in {"bins", "place", "fields", "linked", "no room"} =>
        /\ \A i \in 1 .. binned : asects[i].size > 0 => AbsEnd(i) <= lastBinBegin
        /\ \A i, j \in 1 .. binned, x \in Nat : AbsAt(i, x) /\ AbsAt(j, x) => i = j

\* Every step keeps PassedApart.
LEMMA PassedApartStep ==
    ASSUME TypeInv, PassedApart, [Next]_vars
    PROVE  PassedApart'
<1>f. /\ Len(asects) \in Nat /\ DOMAIN asects = 1 .. Len(asects)
      /\ \A i \in DOMAIN asects : asects[i].address \in Nat /\ asects[i].size \in Nat
      /\ binned \in Nat /\ binned <= Len(asects) /\ lastBinBegin \in Nat
  BY SectionFacts, PlaceFacts
<1>1. CASE InitBin
  <2> DEFINE k == binned + 1
             s == asects[k]
             gap == s.address - lastBinBegin
  <2>1. /\ binned + 1 \in DOMAIN asects /\ binned' = binned + 1 /\ asects' = asects /\ stage = "bins"
        /\ \/ s.size = 0 /\ lastBinBegin' = lastBinBegin
           \/ stage' = "overlapping"
           \/ s.size > 0 /\ lastBinBegin' = s.address + s.size /\ gap >= 0
    <3>1. gap \in Int
      <4>1. s.address \in Nat
        BY <1>1, InitBinFacts
      <4> HIDE DEF s
      <4> QED
        BY <1>f, <4>1
    <3>2. /\ binned + 1 \in DOMAIN asects /\ binned' = binned + 1 /\ asects' = asects /\ stage = "bins"
          /\ \/ s.size = 0 /\ lastBinBegin' = lastBinBegin
             \/ stage' = "overlapping"
             \/ s.size > 0 /\ lastBinBegin' = s.address + s.size /\ (gap = 0 \/ gap > 0)
      BY <1>1, InitBinFacts
    <3> HIDE DEF gap, s
    <3> QED
      BY <3>1, <3>2
  <2>2. /\ \A i : AbsEnd(i)' = AbsEnd(i)
        /\ \A i, x : AbsAt(i, x)' <=> AbsAt(i, x)
    BY <2>1 DEF AbsEnd, AbsAt
  <2>3. \A i \in 1 .. binned' : i \in 1 .. binned \/ i = k
    BY <1>f, <2>1
  <2>4. \A i \in 1 .. binned : i \in DOMAIN asects
    BY <1>f
  <2>5. CASE stage' = "overlapping"
    BY <2>5 DEF PassedApart
  <2>6. CASE s.size = 0 /\ lastBinBegin' = lastBinBegin
    <3>1. \A x \in Nat : ~AbsAt(k, x)
      BY <1>f, <2>1, <2>6 DEF AbsAt, AbsEnd
    <3>2. /\ \A i \in 1 .. binned : asects[i].size > 0 => AbsEnd(i) <= lastBinBegin
          /\ \A i, j \in 1 .. binned, x \in Nat : AbsAt(i, x) /\ AbsAt(j, x) => i = j
      BY <2>1 DEF PassedApart
    <3>3. ASSUME NEW i \in 1 .. binned', asects[i].size > 0
          PROVE  AbsEnd(i) <= lastBinBegin
      BY <2>3, <2>6, <3>2, <3>3
    <3>4. ASSUME NEW i \in 1 .. binned', NEW j \in 1 .. binned', NEW x \in Nat, AbsAt(i, x), AbsAt(j, x)
          PROVE  i = j
      BY <2>3, <3>1, <3>2, <3>4
    <3> QED
      BY <2>1, <2>2, <2>6, <3>3, <3>4 DEF PassedApart
  <2>7. CASE s.size > 0 /\ lastBinBegin' = s.address + s.size /\ gap >= 0
    <3>1. s.address \in Nat /\ s.size \in Nat /\ s.address >= lastBinBegin
      BY <1>f, <2>1, <2>7
    <3>2. /\ \A i \in 1 .. binned : asects[i].size > 0 => AbsEnd(i) <= lastBinBegin
          /\ \A i, j \in 1 .. binned, x \in Nat : AbsAt(i, x) /\ AbsAt(j, x) => i = j
      BY <2>1 DEF PassedApart
    <3>3. AbsEnd(k) = s.address + s.size
      BY DEF AbsEnd
    <3>4. ASSUME NEW i \in 1 .. binned, asects[i].size > 0 PROVE AbsEnd(i) <= s.address + s.size
      <4>1. AbsEnd(i) \in Nat /\ AbsEnd(i) <= lastBinBegin
        BY <1>f, <2>4, <3>2, <3>4 DEF AbsEnd
      <4> HIDE DEF s
      <4> QED
        BY <1>f, <3>1, <4>1
    <3>5. ASSUME NEW i \in 1 .. binned, NEW x \in Nat, AbsAt(i, x), AbsAt(k, x) PROVE FALSE
      <4>1. asects[i].address \in Nat /\ asects[i].size \in Nat
        BY <1>f, <2>4
      <4>2. x < AbsEnd(i) /\ asects[i].address <= x /\ s.address <= x
        BY <3>5 DEF AbsAt
      <4>3. AbsEnd(i) = asects[i].address + asects[i].size
        BY DEF AbsEnd
      <4>4. asects[i].size > 0
        BY <4>1, <4>2, <4>3
      <4>5. AbsEnd(i) <= lastBinBegin /\ AbsEnd(i) \in Nat
        BY <3>2, <4>1, <4>3, <4>4
      <4> HIDE DEF s
      <4> QED
        BY <1>f, <3>1, <4>2, <4>5
    <3>6. ASSUME NEW i \in 1 .. binned', asects[i].size > 0
          PROVE  AbsEnd(i) <= s.address + s.size
      <4>1. CASE i \in 1 .. binned
        BY <3>4, <3>6, <4>1
      <4>2. CASE i = k
        BY <3>1, <3>3, <4>2
      <4> QED
        BY <2>3, <4>1, <4>2
    <3>7. ASSUME NEW i \in 1 .. binned', NEW j \in 1 .. binned', NEW x \in Nat, AbsAt(i, x), AbsAt(j, x)
          PROVE  i = j
      BY <2>3, <3>2, <3>5, <3>7
    <3> QED
      BY <2>1, <2>2, <2>7, <3>6, <3>7 DEF PassedApart
  <2> QED
    BY <2>1, <2>5, <2>6, <2>7
<1>2. CASE Referenced
  <2>1. binned' = 0
    BY <1>2 DEF Referenced, placeVars, TypeInv, Early
  <2>2. 1 .. binned' = {}
    BY <2>1
  <2> QED
    BY <2>2 DEF PassedApart
<1>3. CASE Concat \/ Collect \/ Visit
  BY <1>3 DEF Concat, Collect, Visit, PassedApart
<1>4. CASE LastBin \/ Place \/ Placed \/ AddAddress \/ Linked \/ UNCHANGED vars
  <2>1. UNCHANGED <<asects, binned, lastBinBegin>>
    BY <1>4 DEF LastBin, Place, Placed, AddAddress, Linked, vars, placeVars
  <2>2. stage' \in {"bins", "place", "fields", "linked", "no room"} =>
            stage \in {"bins", "place", "fields", "linked", "no room"}
    BY <1>4 DEF LastBin, Place, Placed, AddAddress, Linked, vars
  <2>3. /\ \A i : AbsEnd(i)' = AbsEnd(i)
        /\ \A i, x : AbsAt(i, x)' <=> AbsAt(i, x)
    BY <2>1 DEF AbsEnd, AbsAt
  <2> QED
    BY <2>1, <2>2, <2>3 DEF PassedApart
<1> QED
  BY <1>1, <1>2, <1>3, <1>4 DEF Next

--------------------------------------------------------------------------------

\* init_bins: every address before lastBinBegin is in a gap or in a section, and
\* between two gaps there is a section.
Gaps ==
    stage = "bins" =>
        /\ addresses = <<>> /\ lastBinBegin <= ImageSize
        /\ BinsApart(bins) /\ \A i \in DOMAIN bins : End(bins[i]) < lastBinBegin
        /\ \A x \in Nat : x < lastBinBegin =>
            (InOne(x, bins) <=> \A i \in 1 .. binned : ~AbsAt(i, x))

\* Without gaps nothing is in one.
LEMMA NoBins == BinsApart(<<>>) /\ \A x : ~InOne(x, <<>>)
BY DEF BinsApart, InOne

\* Every step keeps Gaps.
LEMMA GapsStep ==
    ASSUME TypeInv, PassedApart, Gaps, [Next]_vars
    PROVE  Gaps'
<1>1. CASE InitBin /\ stage' = "bins"
  <2> DEFINE k == binned + 1
             s == asects[k]
             gap == s.address - lastBinBegin
  <2>1. /\ k \in DOMAIN asects /\ binned' = k /\ s.address \in Nat /\ s.size \in Nat
        /\ stage = "bins" /\ asects' = asects /\ addresses' = addresses
        /\ \/ s.size = 0 /\ UNCHANGED <<bins, lastBinBegin>>
           \/ /\ s.size > 0 /\ lastBinBegin' = s.address + s.size
              /\ \/ gap = 0 /\ bins' = bins
                 \/ gap > 0 /\ bins' = Append(bins, Bin(lastBinBegin, gap))
              /\ ~(lastBinBegin' > ImageSize)
    BY <1>1, InitBinFacts
  <2>2. /\ binned \in Nat /\ lastBinBegin \in Nat /\ ImageSize \in Nat /\ bins \in Seq(BinType)
        /\ Len(asects) \in Nat /\ DOMAIN asects = 1 .. Len(asects) /\ binned <= Len(asects)
        /\ \A i \in DOMAIN asects : asects[i].address \in Nat /\ asects[i].size \in Nat
    BY SectionFacts, PlaceFacts, LinkerAssumption
  <2>3. /\ addresses = <<>> /\ lastBinBegin <= ImageSize
        /\ BinsApart(bins) /\ \A i \in DOMAIN bins : End(bins[i]) < lastBinBegin
        /\ \A x \in Nat : x < lastBinBegin =>
            (InOne(x, bins) <=> \A i \in 1 .. binned : ~AbsAt(i, x))
    BY <2>1 DEF Gaps
  <2>4. \A i, x : AbsAt(i, x)' <=> AbsAt(i, x)
    BY <2>1 DEF AbsEnd, AbsAt
  <2>5. \A i \in 1 .. k : i \in 1 .. binned \/ i = k
    BY <2>2
  <2>6. k \in 1 .. k /\ \A i \in 1 .. binned : i \in 1 .. k
    BY <2>2
  <2>7. CASE s.size = 0 /\ UNCHANGED <<bins, lastBinBegin>>
    <3>1. \A x \in Nat : ~AbsAt(k, x)
      <4>1. s.address + s.size = s.address
        BY <2>1, <2>7
      <4> QED
        BY <2>1, <4>1 DEF AbsAt, AbsEnd
    <3>2. \A x \in Nat : (\A i \in 1 .. k : ~AbsAt(i, x)) <=> \A i \in 1 .. binned : ~AbsAt(i, x)
      BY <2>5, <2>6, <3>1
    <3> HIDE DEF k, s, gap
    <3> QED
      BY <2>1, <2>3, <2>4, <2>7, <3>2 DEF Gaps
  <2>8. CASE /\ s.size > 0 /\ lastBinBegin' = s.address + s.size
             /\ \/ gap = 0 /\ bins' = bins
                \/ gap > 0 /\ bins' = Append(bins, Bin(lastBinBegin, gap))
             /\ ~(lastBinBegin' > ImageSize)
    <3> DEFINE next == s.address + s.size
    <3>1. next \in Nat /\ s.address < next /\ s.address \in Nat
      BY <2>1, <2>8
    <3>2. gap = s.address - lastBinBegin /\ gap \in Int
      BY <2>1, <2>2
    <3>3. \A x : AbsAt(k, x) <=> s.address <= x /\ x < next
      BY DEF AbsAt, AbsEnd
    <3>4. \A i \in 1 .. binned, x \in Nat : AbsAt(i, x) => x < lastBinBegin
      <4> SUFFICES ASSUME NEW i \in 1 .. binned, NEW x \in Nat, AbsAt(i, x) PROVE x < lastBinBegin
        OBVIOUS
      <4>1. i \in DOMAIN asects
        BY <2>2
      <4>2. asects[i].address \in Nat /\ asects[i].size \in Nat
        BY <2>2, <4>1
      <4>3. /\ AbsEnd(i) = asects[i].address + asects[i].size
            /\ asects[i].address <= x /\ x < AbsEnd(i)
        BY DEF AbsAt, AbsEnd
      <4>4. asects[i].size > 0 /\ AbsEnd(i) \in Nat
        BY <4>2, <4>3
      <4>5. AbsEnd(i) <= lastBinBegin
        BY <2>1, <4>4 DEF PassedApart
      <4> QED
        BY <2>2, <4>3, <4>4, <4>5
    <3>5. lastBinBegin' = next /\ next <= ImageSize
      BY <2>2, <2>8, <3>1
    <3>6. /\ BinsApart(bins') /\ \A i \in DOMAIN bins' : End(bins'[i]) < next
          /\ \A x \in Nat : InOne(x, bins') <=>
                InOne(x, bins) \/ (lastBinBegin <= x /\ x < s.address)
      <4>1. CASE gap = 0 /\ bins' = bins
        <5>1. s.address = lastBinBegin
          BY <2>2, <3>1, <3>2, <4>1
        <5>2. \A i \in DOMAIN bins : End(bins[i]) < next
          <6>1. \A i \in DOMAIN bins : End(bins[i]) \in Nat
            BY <2>2, BinsFacts
          <6> HIDE DEF s, next
          <6> QED
            BY <2>2, <2>3, <3>1, <5>1, <6>1
        <5>3. \A x \in Nat : ~(lastBinBegin <= x /\ x < s.address)
          BY <2>2, <5>1
        <5> HIDE DEF s, next, gap
        <5> QED
          BY <2>3, <4>1, <5>2, <5>3
      <4>2. CASE gap > 0 /\ bins' = Append(bins, Bin(lastBinBegin, gap))
        <5> DEFINE bin == Bin(lastBinBegin, gap)
        <5>1. /\ bin \in BinType /\ bin.begin = lastBinBegin
              /\ End(bin) = s.address /\ End(bin) = lastBinBegin + gap
          <6>1. gap \in Nat
            BY <3>2, <4>2
          <6>2. bin \in BinType /\ bin.begin = lastBinBegin /\ End(bin) = lastBinBegin + gap
            BY <2>2, <6>1, BinFacts
          <6>3. lastBinBegin + gap = s.address
            BY <2>2, <3>1, <3>2
          <6> QED
            BY <6>2, <6>3
        <5> HIDE DEF bin
        <5>2. /\ BinsApart(bins') /\ \A i \in DOMAIN bins' : End(bins'[i]) <= End(bin)
              /\ \A x : InOne(x, bins') <=> InOne(x, bins) \/ Within(x, bin)
          <6>1. bins' = Append(bins, bin)
            BY <4>2 DEF bin
          <6> QED
            BY <2>2, <2>3, <5>1, <6>1, MoreBins
        <5>3. \A i \in DOMAIN bins' : End(bins'[i]) < next
          <6>1. bins' \in Seq(BinType)
            <7>1. bins' = Append(bins, bin)
              BY <4>2 DEF bin
            <7> QED
              BY <2>2, <5>1, <7>1, AppendProperties
          <6>2. \A i \in DOMAIN bins' : End(bins'[i]) \in Nat
            BY <6>1, BinsFacts
          <6> HIDE DEF s, next, gap
          <6> QED
            BY <3>1, <5>1, <5>2, <6>2
        <5>4. \A x : Within(x, bin) <=> lastBinBegin <= x /\ x < s.address
          BY <5>1 DEF Within
        <5> HIDE DEF s, next, gap
        <5> QED
          BY <5>2, <5>3, <5>4
      <4> QED
        BY <2>8, <4>1, <4>2
    <3>7. lastBinBegin <= s.address
      BY <2>2, <2>8, <3>1, <3>2
    <3>8. ASSUME NEW x \in Nat, x < next
          PROVE  InOne(x, bins') <=> \A i \in 1 .. k : ~AbsAt(i, x)
      <4>1. (\A i \in 1 .. k : ~AbsAt(i, x)) <=> (\A i \in 1 .. binned : ~AbsAt(i, x)) /\ ~AbsAt(k, x)
        BY <2>5, <2>6
      <4>2. InOne(x, bins) => x < lastBinBegin
        <5>1. \A i \in DOMAIN bins : /\ bins[i].begin \in Nat /\ bins[i].size \in Nat
                                     /\ End(bins[i]) \in Nat
          BY <2>2, BinsFacts
        <5> QED
          BY <2>2, <2>3, <5>1 DEF InOne, Within
      <4>3. CASE x < lastBinBegin
        <5>1. ~AbsAt(k, x) /\ ~(lastBinBegin <= x)
          <6> HIDE DEF s, next, k
          <6> QED
            BY <2>2, <3>1, <3>3, <3>7, <4>3
        <5> QED
          BY <2>3, <3>6, <4>1, <4>3, <5>1
      <4>4. CASE ~(x < lastBinBegin)
        <5>1. lastBinBegin <= x /\ ~InOne(x, bins) /\ \A i \in 1 .. binned : ~AbsAt(i, x)
          BY <2>2, <3>4, <4>2, <4>4
        <5>2. AbsAt(k, x) <=> ~(x < s.address)
          <6> HIDE DEF s, next, k
          <6> QED
            BY <3>1, <3>3, <3>8
        <5> QED
          BY <3>6, <4>1, <5>1, <5>2
      <4> QED
        BY <4>3, <4>4
    <3> HIDE DEF k, s, gap, next
    <3> QED
      BY <2>1, <2>3, <2>4, <3>5, <3>6, <3>8 DEF Gaps
  <2> QED
    BY <2>1, <2>7, <2>8
<1>2. CASE Referenced
  <2>1. binned' = 0 /\ lastBinBegin' = 0 /\ bins' = <<>> /\ addresses' = <<>>
    BY <1>2 DEF Referenced, placeVars, TypeInv, Early
  <2>2. ImageSize \in Nat
    BY LinkerAssumption
  <2>3. \A x \in Nat : ~(x < 0)
    OBVIOUS
  <2>4. 0 <= ImageSize /\ DOMAIN <<>> = {}
    BY <2>2
  <2> QED
    BY <2>1, <2>3, <2>4, NoBins DEF Gaps
<1>3. CASE Concat \/ Collect \/ Visit \/ LastBin \/ Place \/ Placed \/ AddAddress \/ Linked
  <2>1. stage' # "bins"
    <3>1. CASE Place
      BY <3>1, PlacingFacts DEF Placing
    <3>2. CASE Concat \/ Collect \/ Visit \/ LastBin \/ Placed \/ AddAddress \/ Linked
      BY <3>2 DEF Concat, Collect, Visit, LastBin, Placed, AddAddress, Linked
    <3> QED
      BY <1>3, <3>1, <3>2
  <2> QED
    BY <2>1 DEF Gaps
<1>4. CASE UNCHANGED vars
  <2>1. UNCHANGED <<stage, asects, binned, lastBinBegin, bins, addresses>>
    BY <1>4 DEF vars
  <2>2. \A i, x : AbsAt(i, x)' <=> AbsAt(i, x)
    BY <2>1 DEF AbsEnd, AbsAt
  <2> QED
    BY <2>1, <2>2 DEF Gaps
<1>5. CASE InitBin /\ stage' # "bins"
  BY <1>5 DEF Gaps
<1> QED
  BY <1>1, <1>2, <1>3, <1>4, <1>5 DEF Next

--------------------------------------------------------------------------------

SpaceAt(n, x) == addresses[n] <= x /\ x < addresses[n] + rsects[n].size

\* place_sects without alignments: the gaps are what neither the absolute sections nor
\* the placed ones have of the image.
Placement ==
    stage \in {"place", "fields", "linked", "no room"} /\ Unaligned =>
        /\ binned = Len(asects)
        /\ BinsApart(bins) /\ \A i \in DOMAIN bins : End(bins[i]) <= ImageSize
        /\ \A x \in Nat : x < ImageSize =>
            (InOne(x, bins) <=> /\ \A i \in DOMAIN asects : ~AbsAt(i, x)
                                /\ \A n \in DOMAIN addresses : ~SpaceAt(n, x))
        /\ \A n \in DOMAIN addresses, x \in Nat :
            SpaceAt(n, x) => x < ImageSize /\ \A i \in DOMAIN asects : ~AbsAt(i, x)
        /\ \A n, m \in DOMAIN addresses, x \in Nat : SpaceAt(n, x) /\ SpaceAt(m, x) => n = m
        /\ stage = "no room" =>
            /\ Len(addresses) + 1 \in DOMAIN rsects
            /\ \A i \in DOMAIN bins : ~Fits(rsects[Len(addresses) + 1], bins[i])

\* After the last absolute section the rest of the image is a gap.
LEMMA PlacementBegins ==
    ASSUME TypeInv, PassedApart, Gaps, LastBin
    PROVE  Placement'
<1>1. /\ stage = "bins" /\ stage' = "place" /\ binned = Len(asects)
      /\ \/ lastBinBegin >= ImageSize /\ bins' = bins
         \/ /\ lastBinBegin < ImageSize /\ Bin(lastBinBegin, ImageSize - lastBinBegin) \in BinType
            /\ bins' = Append(bins, Bin(lastBinBegin, ImageSize - lastBinBegin))
      /\ UNCHANGED <<asects, binned, addresses>>
  BY LastBinFacts
<1>2. /\ lastBinBegin \in Nat /\ ImageSize \in Nat /\ bins \in Seq(BinType)
      /\ Len(asects) \in Nat /\ DOMAIN asects = 1 .. Len(asects)
      /\ \A i \in DOMAIN asects : asects[i].address \in Nat /\ asects[i].size \in Nat
  BY SectionFacts, PlaceFacts, LinkerAssumption
<1>3. /\ addresses = <<>> /\ lastBinBegin <= ImageSize
      /\ BinsApart(bins) /\ \A i \in DOMAIN bins : End(bins[i]) < lastBinBegin
      /\ \A x \in Nat : x < lastBinBegin =>
          (InOne(x, bins) <=> \A i \in DOMAIN asects : ~AbsAt(i, x))
  BY <1>1, <1>2 DEF Gaps
<1>4. \A i \in DOMAIN asects, x \in Nat : AbsAt(i, x) => x < lastBinBegin
  <2> SUFFICES ASSUME NEW i \in DOMAIN asects, NEW x \in Nat, AbsAt(i, x) PROVE x < lastBinBegin
    OBVIOUS
  <2>1. asects[i].address \in Nat /\ asects[i].size \in Nat
    BY <1>2
  <2>2. AbsEnd(i) = asects[i].address + asects[i].size /\ asects[i].address <= x /\ x < AbsEnd(i)
    BY DEF AbsAt, AbsEnd
  <2>3. asects[i].size > 0 /\ AbsEnd(i) \in Nat
    BY <2>1, <2>2
  <2>4. AbsEnd(i) <= lastBinBegin
    BY <1>1, <1>2, <2>3 DEF PassedApart
  <2> QED
    BY <1>2, <2>2, <2>3, <2>4
<1>5. \A i \in DOMAIN bins : End(bins[i]) \in Nat /\ bins[i].begin \in Nat
  BY <1>2, BinsFacts
<1>6. /\ BinsApart(bins') /\ \A i \in DOMAIN bins' : End(bins'[i]) <= ImageSize
      /\ \A x \in Nat : x < ImageSize => (InOne(x, bins') <=> InOne(x, bins) \/ lastBinBegin <= x)
  <2>1. CASE lastBinBegin >= ImageSize /\ bins' = bins
    <3>1. \A i \in DOMAIN bins : End(bins[i]) <= ImageSize
      BY <1>2, <1>3, <1>5
    <3>2. \A x \in Nat : x < ImageSize => ~(lastBinBegin <= x)
      BY <1>2, <2>1
    <3> QED
      BY <1>3, <2>1, <3>1, <3>2
  <2>2. CASE /\ lastBinBegin < ImageSize /\ Bin(lastBinBegin, ImageSize - lastBinBegin) \in BinType
             /\ bins' = Append(bins, Bin(lastBinBegin, ImageSize - lastBinBegin))
    <3> DEFINE size == ImageSize - lastBinBegin
               rest == Bin(lastBinBegin, size)
    <3>1. size \in Nat /\ lastBinBegin + size = ImageSize
      BY <1>2, <2>2
    <3>2. rest \in BinType /\ rest.begin = lastBinBegin /\ End(rest) = ImageSize
      <4> HIDE DEF size
      <4> QED
        BY <1>2, <3>1, BinFacts
    <3>3. bins' = Append(bins, rest)
      BY <2>2
    <3> HIDE DEF rest
    <3>4. /\ BinsApart(bins') /\ \A i \in DOMAIN bins' : End(bins'[i]) <= End(rest)
          /\ \A x : InOne(x, bins') <=> InOne(x, bins) \/ Within(x, rest)
      BY <1>2, <1>3, <3>2, <3>3, MoreBins
    <3>5. \A x \in Nat : x < ImageSize => (Within(x, rest) <=> lastBinBegin <= x)
      BY <3>2 DEF Within
    <3> QED
      BY <3>2, <3>4, <3>5
  <2> QED
    BY <1>1, <2>1, <2>2
<1>7. ASSUME NEW x \in Nat, x < ImageSize
      PROVE  InOne(x, bins') <=> \A i \in DOMAIN asects : ~AbsAt(i, x)
  <2>1. CASE x < lastBinBegin
    <3>1. ~(lastBinBegin <= x)
      BY <1>2, <2>1
    <3> QED
      BY <1>3, <1>6, <1>7, <2>1, <3>1
  <2>2. CASE ~(x < lastBinBegin)
    <3>1. lastBinBegin <= x
      BY <1>2, <2>2
    <3>2. \A i \in DOMAIN asects : ~AbsAt(i, x)
      BY <1>4, <2>2
    <3> QED
      BY <1>6, <1>7, <3>1, <3>2
  <2> QED
    BY <2>1, <2>2
<1>8. \A i, x : AbsAt(i, x)' <=> AbsAt(i, x)
  BY <1>1 DEF AbsEnd, AbsAt
<1>9. DOMAIN addresses' = {}
  BY <1>1, <1>3
<1> QED
  BY <1>1, <1>6, <1>7, <1>8, <1>9 DEF Placement

\* One section is placed at the beginning of a gap.
LEMMA PlacementGoesOn ==
    ASSUME TypeInv, Placement, Place
    PROVE  Placement'
<1>1. /\ Len(addresses) + 1 \in DOMAIN rsects /\ Len(addresses) < Len(rsects) /\ stage = "place"
      /\ UNCHANGED <<asects, pieces, rsects, used, todo, binned, lastBinBegin, fieldVars>>
      /\ \/ /\ \A i \in DOMAIN bins : ~Fits(rsects[Len(addresses) + 1], bins[i])
            /\ stage' = "no room" /\ UNCHANGED <<addresses, bins>>
         \/ \E i \in DOMAIN bins : Placing(i)
  BY PlacingFacts
<1>2. UNCHANGED <<asects, rsects, binned>>
  BY <1>1
<1>3. SUFFICES ASSUME Unaligned PROVE Placement'
  <2>1. Unaligned' <=> Unaligned
    BY <1>2 DEF Unaligned
  <2> QED
    BY <2>1 DEF Placement
<1>4. /\ binned = Len(asects)
      /\ BinsApart(bins) /\ \A i \in DOMAIN bins : End(bins[i]) <= ImageSize
      /\ \A x \in Nat : x < ImageSize =>
          (InOne(x, bins) <=> /\ \A i \in DOMAIN asects : ~AbsAt(i, x)
                              /\ \A n \in DOMAIN addresses : ~SpaceAt(n, x))
      /\ \A n \in DOMAIN addresses, x \in Nat :
          SpaceAt(n, x) => x < ImageSize /\ \A i \in DOMAIN asects : ~AbsAt(i, x)
      /\ \A n, m \in DOMAIN addresses, x \in Nat : SpaceAt(n, x) /\ SpaceAt(m, x) => n = m
  BY <1>1, <1>3 DEF Placement
<1>5. \A i, x : AbsAt(i, x)' <=> AbsAt(i, x)
  BY <1>2 DEF AbsEnd, AbsAt
<1>6. CASE /\ \A i \in DOMAIN bins : ~Fits(rsects[Len(addresses) + 1], bins[i])
           /\ stage' = "no room" /\ UNCHANGED <<addresses, bins>>
  <2>1. \A n, x : SpaceAt(n, x)' <=> SpaceAt(n, x)
    BY <1>2, <1>6 DEF SpaceAt
  <2> QED
    BY <1>1, <1>2, <1>4, <1>5, <1>6, <2>1 DEF Placement
<1>7. ASSUME NEW i \in DOMAIN bins, Placing(i) PROVE Placement'
  <2> PICK k : k = Len(addresses) + 1
    OBVIOUS
  <2> DEFINE size == rsects[k].size
             address == bins[i].begin
             rest == Bin(address + size, bins[i].size - size)
  <2>1. /\ bins \in Seq(BinType) /\ address \in Nat /\ bins[i].size \in Nat /\ ImageSize \in Nat
        /\ Len(addresses) \in Nat /\ DOMAIN addresses = 1 .. Len(addresses)
        /\ \A n \in DOMAIN addresses : addresses[n] \in Nat
        /\ addresses \in Seq(Nat)
    BY PlaceFacts, LinkerAssumption
  <2>2. size \in Nat /\ rsects[k].alignment = 1
    <3>1. rsects[k] \in Range(rsects) /\ size \in Nat
      BY <1>1, SectionFacts
    <3> QED
      BY <1>3, <3>1 DEF Unaligned
  <2>3. /\ RoundUp(bins[i].begin, rsects[k].alignment) = address
        /\ size <= bins[i].size
        /\ addresses' = Append(addresses, address)
        /\ addresses' \in Seq(Nat) /\ Len(addresses') = k
        /\ \A n \in DOMAIN addresses : addresses'[n] = addresses[n]
        /\ addresses'[k] = address
        /\ rest \in BinType /\ bins' = [bins EXCEPT ![i] = rest]
        /\ stage' = "place"
    <3>1. RoundUp(bins[i].begin, rsects[k].alignment) = address
      BY <1>7, <2>2 DEF Placing
    <3> QED
      BY <1>7, <3>1 DEF Placing
  <2>4. rest.begin = address + size /\ rest.size = bins[i].size - size
    BY DEF Bin
  <2>5. End(bins[i]) \in Nat /\ End(bins[i]) <= ImageSize /\ address + size <= End(bins[i])
        /\ End(bins[i]) = address + bins[i].size
    <3>1. End(bins[i]) = address + bins[i].size
      BY DEF End
    <3>2. End(bins[i]) <= ImageSize
      BY <1>4
    <3> HIDE DEF address, size
    <3> QED
      BY <2>1, <2>2, <2>3, <3>1, <3>2
  <2>6. DOMAIN addresses' = 1 .. k /\ k \in Nat
    BY <2>1, <2>3, LenProperties
  <2>7. \A n \in 1 .. k : n \in DOMAIN addresses \/ n = k
    BY <2>1, <2>6
  <2>8. k \in 1 .. k /\ \A n \in DOMAIN addresses : n \in 1 .. k
    BY <2>1, <2>6
  <2>9. /\ \A n \in DOMAIN addresses, x \in Nat : SpaceAt(n, x)' <=> SpaceAt(n, x)
        /\ \A x : SpaceAt(k, x)' <=> address <= x /\ x < address + size
    <3>1. \A n \in DOMAIN addresses, x \in Nat : SpaceAt(n, x)' <=> SpaceAt(n, x)
      BY <1>2, <2>3 DEF SpaceAt
    <3>2. rsects' = rsects /\ addresses'[k] = address
      BY <1>2, <2>3
    <3>3. \A x : SpaceAt(k, x)' <=> address <= x /\ x < address + size
      BY <3>2 DEF SpaceAt
    <3> QED
      BY <3>1, <3>3
  <2> HIDE DEF rest, size
  <2>10. /\ BinsApart(bins') /\ DOMAIN bins' = DOMAIN bins
         /\ \A j \in DOMAIN bins : End(bins'[j]) = End(bins[j])
         /\ \A x \in Nat : InOne(x, bins') <=>
                InOne(x, bins) /\ ~(address <= x /\ x < address + size)
    <3>1. /\ bins \in Seq(BinType) /\ BinsApart(bins) /\ size \in Nat /\ size <= bins[i].size
          /\ rest \in BinType /\ rest.begin = bins[i].begin + size
          /\ rest.size = bins[i].size - size /\ bins' = [bins EXCEPT ![i] = rest]
      BY <1>4, <2>1, <2>2, <2>3, <2>4
    <3>2. i \in DOMAIN bins
      OBVIOUS
    <3> QED
      BY <3>1, <3>2, LessOfBin DEF rest
  <2> HIDE DEF address
  <2>11. ASSUME NEW x \in Nat, address <= x, x < address + size
         PROVE  InOne(x, bins) /\ x < ImageSize
    <3>1. x < End(bins[i])
      BY <2>1, <2>2, <2>5, <2>11
    <3>2. Within(x, bins[i])
      BY <2>11, <3>1 DEF Within, address
    <3>3. x < ImageSize
      BY <2>1, <2>5, <3>1
    <3> QED
      BY <3>2, <3>3 DEF InOne
  <2>12. ASSUME NEW x \in Nat, address <= x, x < address + size
         PROVE  /\ \A j \in DOMAIN asects : ~AbsAt(j, x)
                /\ \A n \in DOMAIN addresses : ~SpaceAt(n, x)
    BY <1>4, <2>11, <2>12
  <2>13. ASSUME NEW x \in Nat, x < ImageSize
         PROVE  InOne(x, bins') <=> /\ \A j \in DOMAIN asects' : ~AbsAt(j, x)'
                                    /\ \A n \in DOMAIN addresses' : ~SpaceAt(n, x)'
    <3>1. (\A n \in DOMAIN addresses' : ~SpaceAt(n, x)') <=>
              (\A n \in DOMAIN addresses : ~SpaceAt(n, x)) /\ ~(address <= x /\ x < address + size)
      BY <2>6, <2>7, <2>8, <2>9
    <3>2. (\A j \in DOMAIN asects' : ~AbsAt(j, x)') <=> \A j \in DOMAIN asects : ~AbsAt(j, x)
      BY <1>2, <1>5
    <3> QED
      BY <1>4, <2>10, <2>13, <3>1, <3>2
  <2>14. ASSUME NEW n \in DOMAIN addresses', NEW x \in Nat, SpaceAt(n, x)'
         PROVE  x < ImageSize /\ \A j \in DOMAIN asects' : ~AbsAt(j, x)'
    <3>1. CASE n = k
      BY <1>2, <1>5, <2>9, <2>11, <2>12, <2>14, <3>1
    <3>2. CASE n \in DOMAIN addresses
      BY <1>2, <1>4, <1>5, <2>9, <2>14, <3>2
    <3> QED
      BY <2>6, <2>7, <3>1, <3>2
  <2>15. ASSUME NEW n \in DOMAIN addresses', NEW m \in DOMAIN addresses', NEW x \in Nat,
                SpaceAt(n, x)', SpaceAt(m, x)'
         PROVE  n = m
    <3>1. (n = k \/ n \in DOMAIN addresses) /\ (m = k \/ m \in DOMAIN addresses)
      BY <2>6, <2>7
    <3>2. CASE n = k /\ m \in DOMAIN addresses
      BY <2>9, <2>12, <2>15, <3>2
    <3>3. CASE m = k /\ n \in DOMAIN addresses
      BY <2>9, <2>12, <2>15, <3>3
    <3>4. CASE n \in DOMAIN addresses /\ m \in DOMAIN addresses
      BY <1>4, <2>9, <2>15, <3>4
    <3> QED
      BY <3>1, <3>2, <3>3, <3>4
  <2>16. \A j \in DOMAIN bins' : End(bins'[j]) <= ImageSize
    BY <1>4, <2>10
  <2>17. stage' = "place" /\ binned' = Len(asects')
    BY <1>2, <1>4, <2>3
  <2> QED
    BY <2>10, <2>13, <2>14, <2>15, <2>16, <2>17, Zenon DEF Placement
<1> QED
  BY <1>1, <1>6, <1>7

\* Every step keeps Placement.
LEMMA PlacementStep ==
    ASSUME TypeInv, PassedApart, Gaps, Placement, [Next]_vars
    PROVE  Placement'
<1>1. CASE LastBin
  BY <1>1, PlacementBegins
<1>2. CASE Place
  BY <1>2, PlacementGoesOn
<1>3. CASE Placed \/ AddAddress \/ Linked \/ UNCHANGED vars
  <2>1. UNCHANGED <<asects, rsects, binned, bins, addresses>>
    BY <1>3 DEF Placed, AddAddress, Linked, vars, placeVars
  <2>2. /\ stage' \in {"place", "fields", "linked", "no room"} =>
                stage \in {"place", "fields", "linked", "no room"}
        /\ stage' = "no room" => stage = "no room"
    BY <1>3 DEF Placed, AddAddress, Linked, vars
  <2>3. /\ \A i, x : AbsAt(i, x)' <=> AbsAt(i, x)
        /\ \A n, x : SpaceAt(n, x)' <=> SpaceAt(n, x)
        /\ Unaligned' <=> Unaligned
    BY <2>1 DEF AbsEnd, AbsAt, SpaceAt, Unaligned
  <2> QED
    BY <2>1, <2>2, <2>3 DEF Placement
<1>4. CASE Concat \/ Collect \/ Visit \/ Referenced \/ InitBin
  <2>1. stage' \notin {"place", "fields", "linked", "no room"}
    BY <1>4 DEF Concat, Collect, Visit, Referenced, InitBin
  <2> QED
    BY <2>1 DEF Placement
<1> QED
  BY <1>1, <1>2, <1>3, <1>4 DEF Next

--------------------------------------------------------------------------------

\* Addresses are given by place_sects, and are multiples of the section's alignment.
Addressed ==
    /\ stage \notin {"place", "fields", "linked", "no room"} => addresses = <<>>
    /\ \A n \in DOMAIN addresses : addresses[n] % rsects[n].alignment = 0

\* Every step keeps Addressed.
LEMMA AddressedStep ==
    ASSUME TypeInv, Addressed, [Next]_vars
    PROVE  Addressed'
<1>1. CASE Place
  <2>1. /\ stage = "place" /\ rsects' = rsects
        /\ \/ stage' = "no room" /\ UNCHANGED <<addresses, bins>>
           \/ \E i \in DOMAIN bins : Placing(i)
    BY <1>1, PlacingFacts
  <2>2. CASE stage' = "no room" /\ UNCHANGED <<addresses, bins>>
    BY <2>1, <2>2 DEF Addressed
  <2>3. ASSUME NEW i \in DOMAIN bins, Placing(i) PROVE Addressed'
    <3> PICK k : k = Len(addresses) + 1
      OBVIOUS
    <3>1. /\ Len(addresses) \in Nat /\ DOMAIN addresses = 1 .. Len(addresses)
          /\ addresses' \in Seq(Nat) /\ Len(addresses') = k /\ stage' = "place"
          /\ \A n \in DOMAIN addresses : addresses'[n] = addresses[n]
          /\ addresses'[k] % rsects[k].alignment = 0
      BY <2>3, PlaceFacts DEF Placing
    <3>2. DOMAIN addresses' = 1 .. k
      BY <3>1, LenProperties
    <3>3. \A n \in 1 .. k : n = k \/ n \in DOMAIN addresses
      BY <3>1
    <3>4. ASSUME NEW n \in 1 .. k PROVE addresses'[n] % rsects'[n].alignment = 0
      BY <2>1, <3>1, <3>3 DEF Addressed
    <3> QED
      BY <3>1, <3>2, <3>4 DEF Addressed
  <2> QED
    BY <2>1, <2>2, <2>3
<1>2. CASE Concat \/ Collect \/ Visit \/ Referenced
  <2>1. stage \in Early /\ addresses' = addresses
    BY <1>2 DEF Concat, Collect, Visit, Referenced, placeVars, Early
  <2>2. addresses' = <<>>
    BY <2>1 DEF TypeInv
  <2>3. DOMAIN <<>> = {}
    OBVIOUS
  <2> QED
    BY <2>2, <2>3 DEF Addressed
<1>3. CASE InitBin \/ LastBin \/ Placed \/ AddAddress \/ Linked \/ UNCHANGED vars
  <2>1. UNCHANGED <<addresses, rsects>>
    BY <1>3 DEF InitBin, LastBin, Placed, AddAddress, Linked, vars, placeVars
  <2>2. stage' \notin {"place", "fields", "linked", "no room"} =>
            stage \notin {"place", "fields", "linked", "no room"}
    BY <1>3 DEF InitBin, LastBin, Placed, AddAddress, Linked, vars
  <2> QED
    BY <2>1, <2>2 DEF Addressed
<1> QED
  BY <1>1, <1>2, <1>3 DEF Next

PlaceInv == TypeInv /\ PassedApart /\ Gaps /\ Placement /\ Addressed

\* Nothing is placed at first.
LEMMA PlaceInit == Begun => PlaceInv
<1> SUFFICES ASSUME Begun PROVE PlaceInv
  OBVIOUS
<1>1. TypeInv
  BY TypeInit
<1>2. stage = "concat" /\ addresses = <<>>
  BY DEF Begun
<1> QED
  BY <1>1, <1>2 DEF PlaceInv, PassedApart, Gaps, Placement, Addressed

\* The invariant of placement holds at all times.
LEMMA SpecPlaceInv == Spec => []PlaceInv
<1>1. Init => PlaceInv
  BY InitBegun, PlaceInit
<1>2. PlaceInv /\ [Next]_vars => PlaceInv'
  BY TypeStep, PassedApartStep, GapsStep, PlacementStep, AddressedStep DEF PlaceInv
<1> QED
  BY <1>1, <1>2, PTL DEF Spec

--------------------------------------------------------------------------------
\* The addresses of a placed section.
LEMMA SpaceFacts ==
    ASSUME TypeInv, NEW n \in DOMAIN addresses
    PROVE  \A x : x \in Space(n) <=> x \in Nat /\ SpaceAt(n, x)
<1>1. addresses[n] \in Nat /\ rsects[n].size \in Nat
  BY SectionFacts, PlaceFacts
<1> QED
  BY <1>1, IntervalFacts DEF Space, SpaceAt

\* The addresses of an absolute section.
LEMMA AbsFacts ==
    ASSUME TypeInv, NEW i \in DOMAIN asects
    PROVE  \A x : x \in Interval(asects[i].address, asects[i].size) <=> x \in Nat /\ AbsAt(i, x)
<1>1. asects[i].address \in Nat /\ asects[i].size \in Nat
  BY SectionFacts
<1> QED
  BY <1>1, IntervalFacts DEF AbsAt, AbsEnd

\* The addresses of all absolute sections.
LEMMA AbsSpaceFacts ==
    ASSUME TypeInv
    PROVE  \A x : x \in AbsSpace <=> x \in Nat /\ \E i \in DOMAIN asects : AbsAt(i, x)
<1>1. AbsSpace = UNION {Interval(asects[i].address, asects[i].size) : i \in DOMAIN asects}
  BY DEF AbsSpace, Range
<1> QED
  BY <1>1, AbsFacts

\* Without alignments, nothing lies over anything else or outside the image.
LEMMA PlacedApart == PlaceInv => UnalignedApart
<1> SUFFICES ASSUME PlaceInv, Unaligned PROVE SectionsApart
  BY DEF UnalignedApart
<1>0. TypeInv /\ PassedApart /\ Placement /\ Addressed
  BY DEF PlaceInv
<1>1. ASSUME NEW n \in DOMAIN addresses
      PROVE  /\ stage \in {"place", "fields", "linked", "no room"}
             /\ Space(n) \subseteq 0 .. ImageSize - 1 /\ Space(n) \cap AbsSpace = {}
             /\ \A m \in DOMAIN addresses : n # m => Space(n) \cap Space(m) = {}
  <2>1. stage \in {"place", "fields", "linked", "no room"}
    <3>1. addresses # <<>>
      OBVIOUS
    <3> QED
      BY <1>0, <3>1 DEF Addressed
  <2>2. /\ \A x \in Nat : SpaceAt(n, x) => x < ImageSize /\ \A i \in DOMAIN asects : ~AbsAt(i, x)
        /\ \A m \in DOMAIN addresses, x \in Nat : SpaceAt(n, x) /\ SpaceAt(m, x) => n = m
    BY <1>0, <2>1 DEF Placement
  <2>3. \A x \in Nat : x < ImageSize => x \in 0 .. ImageSize - 1
    BY LinkerAssumption
  <2>4. Space(n) \subseteq 0 .. ImageSize - 1
    BY <1>0, <2>2, <2>3, SpaceFacts
  <2>5. Space(n) \cap AbsSpace = {}
    BY <1>0, <2>2, SpaceFacts, AbsSpaceFacts
  <2>6. \A m \in DOMAIN addresses : n # m => Space(n) \cap Space(m) = {}
    BY <1>0, <2>2, SpaceFacts
  <2> QED
    BY <2>1, <2>4, <2>5, <2>6
<1>2. ASSUME stage \notin Exceptions, NEW i \in 1 .. binned, NEW j \in 1 .. binned, i # j
      PROVE  Interval(asects[i].address, asects[i].size)
                \cap Interval(asects[j].address, asects[j].size) = {}
  <2>1. i \in DOMAIN asects /\ j \in DOMAIN asects
    BY <1>0, SectionFacts, PlaceFacts
  <2>2. stage \in {"bins", "place", "fields", "linked"}
    <3>1. stage \in LinkStages /\ (stage \in Early => binned = 0)
      BY <1>0 DEF TypeInv
    <3>2. binned # 0
      BY <1>2
    <3> QED
      BY <1>2, <3>1, <3>2 DEF LinkStages, Early
  <2>3. \A x \in Nat : ~(AbsAt(i, x) /\ AbsAt(j, x))
    BY <1>0, <1>2, <2>2 DEF PassedApart
  <2> QED
    BY <1>0, <2>1, <2>3, AbsFacts
<1> QED
  BY <1>1, <1>2 DEF SectionsApart

\* And a section that found no room fits between no two others.
LEMMA RefusedHasNoRoom == PlaceInv => NoRoomIsNoRoom
<1> DEFINE s == rsects[Len(addresses) + 1]
<1>s. SUFFICES ASSUME PlaceInv, stage = "no room", Unaligned, s.size > 0,
                      NEW a, a \in 0 .. ImageSize, Interval(a, s.size) \subseteq Free
               PROVE  FALSE
  BY DEF NoRoomIsNoRoom
<1>0. TypeInv /\ Placement
  BY <1>s DEF PlaceInv
<1>1. /\ BinsApart(bins)
      /\ \A x \in Nat : x < ImageSize =>
          (InOne(x, bins) <=> /\ \A i \in DOMAIN asects : ~AbsAt(i, x)
                              /\ \A n \in DOMAIN addresses : ~SpaceAt(n, x))
      /\ Len(addresses) + 1 \in DOMAIN rsects
      /\ \A i \in DOMAIN bins : ~Fits(s, bins[i])
  BY <1>0, <1>s DEF Placement
<1>2. s.size \in Nat /\ s.alignment = 1 /\ a \in Nat /\ bins \in Seq(BinType) /\ ImageSize \in Nat
  <2>1. s \in Range(rsects) /\ s.size \in Nat
    BY <1>0, <1>1, SectionFacts
  <2>2. s.alignment = 1
    BY <1>s, <2>1 DEF Unaligned
  <2>3. bins \in Seq(BinType) /\ ImageSize \in Nat
    BY <1>0, PlaceFacts, LinkerAssumption
  <2>4. a \in Nat
    <3>1. a \in 0 .. ImageSize
      BY <1>s
    <3> QED
      BY <2>3, <3>1
  <2> HIDE DEF s
  <2> QED
    BY <2>1, <2>2, <2>3, <2>4
<1> HIDE DEF s
<1>3. ASSUME NEW x \in Nat, a <= x, x < a + s.size PROVE InOne(x, bins)
  <2>1. x \in Free
    BY <1>2, <1>3, <1>s, IntervalFacts
  <2>2. x \in 0 .. ImageSize - 1 /\ x \notin AbsSpace /\ \A n \in DOMAIN addresses : x \notin Space(n)
    BY <2>1 DEF Free
  <2>3. x < ImageSize
    <3>1. ImageSize \in Nat /\ x \in 0 .. ImageSize - 1
      BY <1>2, <2>2
    <3> QED
      BY <3>1
  <2>4. \A i \in DOMAIN asects : ~AbsAt(i, x)
    BY <1>0, <2>2, AbsSpaceFacts
  <2>5. \A n \in DOMAIN addresses : ~SpaceAt(n, x)
    BY <1>0, <2>2, SpaceFacts
  <2> QED
    BY <1>1, <2>3, <2>4, <2>5
<1>4. PICK i \in DOMAIN bins : bins[i].begin <= a /\ a + s.size <= End(bins[i])
  <2>1. s.size > 0 /\ \A x \in Nat : a <= x /\ x < a + s.size => InOne(x, bins)
    BY <1>3, <1>s
  <2> QED
    BY <1>1, <1>2, <2>1, OneGap
<1>5. bins[i].begin \in Nat /\ bins[i].size \in Nat /\ End(bins[i]) = bins[i].begin + bins[i].size
  BY <1>2, BinsFacts
<1>6. RoundUp(bins[i].begin, s.alignment) = bins[i].begin
  <2>1. bins[i].begin \in Nat /\ 1 \in Nat \ {0}
    BY <1>5
  <2>2. RoundUp(bins[i].begin, 1) = bins[i].begin
    BY <2>1, RoundUpProperties
  <2> QED
    BY <1>2, <2>2
<1>7. s.size <= bins[i].size /\ bins[i].begin + s.size <= bins[i].begin + bins[i].size
  <2>1. s.size \in Nat /\ a \in Nat
    BY <1>2
  <2>2. bins[i].begin <= a /\ a + s.size <= bins[i].begin + bins[i].size
    BY <1>4, <1>5
  <2>3. bins[i].begin \in Nat /\ bins[i].size \in Nat
    BY <1>5
  <2> QED
    BY <2>1, <2>2, <2>3
<1>8. Fits(s, bins[i])
  BY <1>6, <1>7 DEF Fits
<1> QED
  BY <1>1, <1>8

\* Every piece keeps its own alignment.
LEMMA PiecesKeepAlignment == PlaceInv => PiecesAligned
<1> SUFFICES ASSUME PlaceInv, NEW n \in DOMAIN addresses
             PROVE  LET parts == rsects[n].parts IN
                    /\ \A i \in DOMAIN parts : (addresses[n] + parts[i].offset) % parts[i].alignment = 0
                    /\ \A i \in 2 .. Len(parts) : parts[i].offset >= parts[i - 1].offset + parts[i - 1].size
  BY DEF PiecesAligned
<1>0. TypeInv /\ Addressed
  BY DEF PlaceInv
<1> DEFINE s == rsects[n]
           parts == s.parts
<1>1. /\ addresses[n] \in Nat /\ s.alignment \in Nat \ {0} /\ RelSect(s)
      /\ addresses[n] % s.alignment = 0
  BY <1>0, SectionFacts, PlaceFacts DEF Addressed
<1> HIDE DEF s
<1>2. PiecesOf(s) /\ parts \in Seq(Part)
  BY <1>1 DEF RelSect, IsJoined, Part
<1>3. ASSUME NEW i \in DOMAIN parts
      PROVE  (addresses[n] + parts[i].offset) % parts[i].alignment = 0
  <2>1. parts[i].offset % parts[i].alignment = 0 /\ s.alignment % parts[i].alignment = 0
    BY <1>2 DEF PiecesOf
  <2>2. parts[i].offset \in Nat /\ parts[i].alignment \in Nat \ {0}
    <3>1. parts[i] \in Part
      BY <1>2, LenProperties, ElementOfSeq
    <3> QED
      BY <3>1 DEF Part
  <2>3. addresses[n] % parts[i].alignment = 0
    BY <1>1, <2>1, <2>2, MultipleOfMultiple
  <2> QED
    BY <1>1, <2>1, <2>2, <2>3, SumOfMultiples
<1>4. \A i \in 2 .. Len(parts) : parts[i].offset >= parts[i - 1].offset + parts[i - 1].size
  BY <1>2 DEF PiecesOf
<1> QED
  BY <1>3, <1>4 DEF s

\* concat_rsects and place_sects: no section lies over another or outside the image and
\* none is refused a place that there is, if no section asks for an alignment; and every
\* piece of a section is at a multiple of the alignment it asked for.
THEOREM SectionsPlacedRight == Spec => []PlacedRight
<1>1. PlaceInv => PlacedRight
  BY PlacedApart, RefusedHasNoRoom, PiecesKeepAlignment DEF PlacedRight
<1> QED
  BY <1>1, SpecPlaceInv, PTL

--------------------------------------------------------------------------------
(* Fields of the image.                                                        *)

\* Every section has its address when the fields are written, and every label.
Settled ==
    /\ Len(addresses) = Len(rsects)
    /\ \A s \in Range(asects) \cup Range(rsects) : \A f \in Range(s.fields) :
            f.label = Null \/ Found(f.label)

\* Entries are offsets, and fields hold their constants.
LEMMA EntryFacts ==
    ASSUME TypeInv
    PROVE  \A s \in Range(asects) \cup Range(rsects) :
                /\ \A l \in DOMAIN s.entries : s.entries[l] \in Nat
                /\ s.fields \in Seq(Field) /\ Fine(s)
<1>1. \A s \in Range(asects) \cup Range(rsects) : IsRecord(s) /\ Fine(s)
  BY DEF TypeInv, RelSect, IsAbs, IsJoined, IsRel
<1> QED
  BY <1>1 DEF IsRecord

\* A label of a linked section has an address.
LEMMA AddressOfType ==
    ASSUME TypeInv, Len(addresses) = Len(rsects), NEW l, Found(l)
    PROVE  AddressOf(l) \in Nat
<1>1. CASE \E s \in Range(asects) : l \in DOMAIN s.entries
  <2> DEFINE s == CHOOSE s \in Range(asects) : l \in DOMAIN s.entries
  <2>1. s \in Range(asects) /\ l \in DOMAIN s.entries
    BY <1>1
  <2>2. AddressOf(l) = s.entries[l]
    BY <1>1 DEF AddressOf
  <2> HIDE DEF s
  <2> QED
    BY <2>1, <2>2, EntryFacts
<1>2. CASE ~\E s \in Range(asects) : l \in DOMAIN s.entries
  <2> DEFINE n == CHOOSE n \in DOMAIN rsects : l \in DOMAIN rsects[n].entries
  <2>1. \E m \in DOMAIN rsects : l \in DOMAIN rsects[m].entries
    BY <1>2 DEF Found, Range
  <2>2. n \in DOMAIN rsects /\ l \in DOMAIN rsects[n].entries
    BY <2>1
  <2>3. AddressOf(l) = rsects[n].entries[l] + addresses[n]
    BY <1>2 DEF AddressOf
  <2> HIDE DEF n
  <2>4. rsects[n].entries[l] \in Nat
    BY <2>2, SectionFacts, EntryFacts
  <2>5. addresses[n] \in Nat
    BY <2>2, SectionFacts, PlaceFacts
  <2> QED
    BY <2>3, <2>4, <2>5
<1> QED
  BY <1>1, <1>2

\* The field and the address of a job.
LEMMA JobFacts ==
    ASSUME TypeInv, Settled, NEW job \in Relocate
    PROVE  FieldOf(job) \in Field /\ HoldsConstant(FieldOf(job)) /\ Addend(job) \in Nat
<1>1. PICK n \in 1 .. Len(asects) + Len(rsects) : job \in {n} \X DOMAIN Sect(n).fields
  BY DEF Relocate
<1>2. job[1] = n /\ job[2] \in DOMAIN Sect(n).fields
  BY <1>1
<1>3. /\ Len(asects) \in Nat /\ DOMAIN asects = 1 .. Len(asects)
      /\ Len(rsects) \in Nat /\ DOMAIN rsects = 1 .. Len(rsects)
      /\ \A i \in DOMAIN asects : asects[i] \in Range(asects)
      /\ \A i \in DOMAIN rsects : rsects[i] \in Range(rsects)
  BY SectionFacts
<1>4. /\ n \in Nat /\ (n <= Len(asects) => n \in DOMAIN asects)
      /\ (~(n <= Len(asects)) => n - Len(asects) \in DOMAIN rsects)
  BY <1>3
<1>5. Sect(n) \in Range(asects) \cup Range(rsects)
  <2>1. CASE n <= Len(asects)
    BY <1>3, <1>4, <2>1 DEF Sect
  <2>2. CASE ~(n <= Len(asects))
    BY <1>3, <1>4, <2>2 DEF Sect
  <2> QED
    BY <2>1, <2>2
<1>6. FieldOf(job) \in Field /\ HoldsConstant(FieldOf(job)) /\ FieldOf(job) \in Range(Sect(n).fields)
  <2>1. Sect(n).fields \in Seq(Field) /\ Fine(Sect(n))
    BY <1>5, EntryFacts
  <2>2. FieldOf(job) = Sect(n).fields[job[2]]
    BY <1>2 DEF FieldOf
  <2>3. FieldOf(job) \in Range(Sect(n).fields)
    BY <1>2, <2>2 DEF Range
  <2>4. FieldOf(job) \in Field
    BY <1>2, <2>1, <2>2, LenProperties, ElementOfSeq
  <2> QED
    BY <2>1, <2>3, <2>4 DEF Fine
<1>7. Begin(n) \in Nat
  <2>1. CASE n <= Len(asects)
    BY <2>1 DEF Begin
  <2>2. CASE ~(n <= Len(asects))
    <3>1. n - Len(asects) \in DOMAIN addresses
      BY <1>3, <1>4, <2>2, PlaceFacts DEF Settled
    <3> QED
      BY <2>2, <3>1, PlaceFacts DEF Begin
  <2> QED
    BY <2>1, <2>2
<1>8. CASE IsOwn(job)
  BY <1>2, <1>6, <1>7, <1>8 DEF Addend
<1>9. CASE ~IsOwn(job)
  <2>1. Found(FieldOf(job).label)
    BY <1>5, <1>6, <1>9 DEF Settled, IsOwn
  <2>2. AddressOf(FieldOf(job).label) \in Nat
    BY <2>1, AddressOfType DEF Settled
  <2> QED
    BY <1>6, <1>9, <2>2 DEF Addend
<1> QED
  BY <1>8, <1>9

--------------------------------------------------------------------------------
\* link, the loop that writes the fields: as long as only whole addresses were written
\* no lower part is kept.
Written ==
    /\ image \in Seq(Range(image))
    /\ stage \notin {"fields", "linked"} => image = <<>> /\ DOMAIN lowerParts = {}
    /\ stage = "fields" => Len(addresses) = Len(rsects) /\ jobs \subseteq Relocate
    /\ (\A i \in DOMAIN image : image[i].field.start = 0) =>
            DOMAIN lowerParts = {} /\ \A i \in DOMAIN image : IsExact(image[i])

\* Nothing is written at first.
LEMMA WrittenInit == Begun => Written
<1>1. DOMAIN [pos \in {} |-> 0] = {} /\ DOMAIN <<>> = {} /\ <<>> \in Seq(Range(<<>>))
  OBVIOUS
<1> QED
  BY <1>1 DEF Begun, Written

\* Every step keeps Written.
LEMMA WrittenStep ==
    ASSUME TypeInv, Resolved, Written, [Next]_vars
    PROVE  Written'
<1>1. CASE AddAddress
  <2>1. PICK job \in jobs :
            LET f == FieldOf(job)
                extra == IF f.offset \in DOMAIN lowerParts THEN lowerParts[f.offset] ELSE 0
                new == Added(f, Addend(job) + extra)
            IN /\ jobs' = jobs \ {job}
               /\ lowerParts' = IF f.start > 0 /\ new.lower # 0
                                THEN Overlay(lowerParts, [pos \in {Position(job)} |-> new.lower])
                                ELSE lowerParts
               /\ image' = Append(image, [field |-> f, addend |-> Addend(job), data |-> new.data])
    BY <1>1 DEF AddAddress
  <2>2. stage = "fields" /\ UNCHANGED <<stage, asects, rsects, addresses>>
    BY <1>1 DEF AddAddress, placeVars
  <2>3. /\ image \in Seq(Range(image)) /\ Len(addresses) = Len(rsects) /\ jobs \subseteq Relocate
        /\ (\A i \in DOMAIN image : image[i].field.start = 0) =>
                DOMAIN lowerParts = {} /\ \A i \in DOMAIN image : IsExact(image[i])
    BY <2>2 DEF Written
  <2>4. Settled
    BY <2>2, <2>3 DEF Settled, Resolved
  <2> DEFINE f == FieldOf(job)
             addend == Addend(job)
             extra == IF f.offset \in DOMAIN lowerParts THEN lowerParts[f.offset] ELSE 0
             new == Added(f, addend + extra)
             entry == [field |-> f, addend |-> addend, data |-> new.data]
  <2>5. f \in Field /\ HoldsConstant(f) /\ addend \in Nat
    BY <2>1, <2>3, <2>4, JobFacts
  <2>6. /\ jobs' = jobs \ {job} /\ image' = Append(image, entry)
        /\ f.start = 0 => lowerParts' = lowerParts
    BY <2>1
  <2>7. Relocate' = Relocate
    <3>1. \A n : Sect(n)' = Sect(n)
      BY <2>2 DEF Sect
    <3>2. \A j : FieldOf(j)' = FieldOf(j)
      BY <3>1 DEF FieldOf
    <3>3. \A j : IsOwn(j)' = IsOwn(j)
      BY <3>2 DEF IsOwn
    <3> QED
      BY <2>2, <3>1, <3>3 DEF Relocate
  <2>8. entry.field = f /\ entry.addend = addend /\ entry.data = new.data
    OBVIOUS
  <2>9. ASSUME f.start = 0, DOMAIN lowerParts = {} PROVE IsExact(entry)
    <3>1. extra = 0
      BY <2>9
    <3>2. new = Added(f, addend)
      <4>1. addend + extra = addend
        BY <2>5, <3>1
      <4> QED
        BY <4>1
    <3>3. new.data = (f.const + addend) % Power(f.stop)
      BY <2>5, <2>9, <3>2, AddedProperties
    <3>4. Power(f.start) = 1 /\ Power(f.stop) \in Nat \ {0} /\ f.const + addend \in Int
      <4>1. f.stop \in {0, 1, 2} /\ f.const \in Nat
        BY <2>5 DEF Field
      <4>2. Power(f.stop) \in Nat \ {0} /\ Power(0) = 1
        BY <4>1, PowerType
      <4> QED
        BY <2>5, <2>9, <4>1, <4>2
    <3>5. \A x \in Int : x \div 1 = x
      OBVIOUS
    <3>6. (f.const + addend) % Power(f.stop) \in Int
      BY <3>4, Division
    <3> HIDE DEF f, addend, new, entry
    <3> QED
      BY <2>8, <3>3, <3>4, <3>5, <3>6 DEF IsExact
  <2> HIDE DEF f, addend, extra, new, entry
  <2>10. image' \in Seq(Range(image'))
    BY <2>3, <2>6, ListAppend
  <2>11. /\ DOMAIN image' = 1 .. Len(image) + 1 /\ Len(image) \in Nat /\ DOMAIN image = 1 .. Len(image)
         /\ \A i \in DOMAIN image : image'[i] = image[i]
         /\ image'[Len(image) + 1] = entry
    <3>1. Len(image) \in Nat /\ DOMAIN image = 1 .. Len(image)
      BY <2>3, ListFacts
    <3>2. /\ Len(image') = Len(image) + 1 /\ image'[Len(image) + 1] = entry
          /\ \A i \in 1 .. Len(image) : image'[i] = image[i]
      <4> DEFINE S == Range(image) \cup {entry}
      <4>1. image \in Seq(S) /\ entry \in S
        <5>1. image \in [1 .. Len(image) -> S]
          <6>1. image = [i \in 1 .. Len(image) |-> image[i]]
            BY <2>3, LenProperties
          <6> QED
            BY <3>1, <6>1 DEF Range
        <5> QED
          BY <3>1, <5>1, SeqDef
      <4> HIDE DEF S
      <4> QED
        BY <2>6, <4>1, AppendProperties
    <3>3. DOMAIN image' = 1 .. Len(image')
      BY <2>10, LenProperties
    <3> QED
      BY <3>1, <3>2, <3>3
  <2>12. ASSUME \A i \in DOMAIN image' : image'[i].field.start = 0
         PROVE  DOMAIN lowerParts' = {} /\ \A i \in DOMAIN image' : IsExact(image'[i])
    <3>1. Len(image) + 1 \in DOMAIN image' /\ \A i \in DOMAIN image : i \in DOMAIN image'
      BY <2>11
    <3>2. f.start = 0
      BY <2>8, <2>11, <2>12, <3>1
    <3>3. \A i \in DOMAIN image : image[i].field.start = 0
      BY <2>11, <2>12, <3>1
    <3>4. DOMAIN lowerParts = {} /\ \A i \in DOMAIN image : IsExact(image[i])
      BY <2>3, <3>3
    <3>5. IsExact(entry)
      BY <2>9, <3>2, <3>4
    <3>6. \A i \in DOMAIN image' : i \in DOMAIN image \/ i = Len(image) + 1
      BY <2>11
    <3> QED
      BY <2>6, <2>11, <3>2, <3>4, <3>5, <3>6
  <2>13. (\A i \in DOMAIN image' : image'[i].field.start = 0) =>
            DOMAIN lowerParts' = {} /\ \A i \in DOMAIN image' : IsExact(image'[i])
    BY <2>12
  <2> QED
    BY <2>2, <2>3, <2>6, <2>7, <2>10, <2>13 DEF Written
<1>2. CASE Placed
  <2>1. /\ stage = "place" /\ stage' = "fields" /\ Len(addresses) = Len(rsects) /\ jobs' = Relocate
        /\ UNCHANGED <<asects, rsects, addresses, lowerParts, image>>
    BY <1>2 DEF Placed, placeVars
  <2>2. Relocate' = Relocate
    BY <2>1 DEF Relocate, Sect, FieldOf, IsOwn
  <2> QED
    BY <2>1, <2>2 DEF Written
<1>3. CASE Linked
  BY <1>3 DEF Linked, fieldVars, Written
<1>4. CASE Concat \/ Collect \/ Visit \/ Referenced \/ InitBin \/ LastBin \/ Place
  <2>1. stage \notin {"fields", "linked"} /\ stage' \notin {"fields", "linked"}
        /\ UNCHANGED <<image, lowerParts>>
    <3>1. CASE Place
      BY <3>1, PlacingFacts DEF Placing, fieldVars
    <3>2. CASE Concat \/ Collect \/ Visit \/ Referenced \/ InitBin \/ LastBin
      BY <3>2 DEF Concat, Collect, Visit, Referenced, InitBin, LastBin, fieldVars
    <3> QED
      BY <1>4, <3>1, <3>2
  <2> QED
    BY <2>1 DEF Written
<1>5. CASE UNCHANGED vars
  <2>1. UNCHANGED <<stage, asects, rsects, addresses, jobs, lowerParts, image>>
    BY <1>5 DEF vars
  <2>2. \A n : Sect(n)' = Sect(n)
    BY <2>1 DEF Sect
  <2>3. \A j : IsOwn(j)' = IsOwn(j)
    BY <2>2 DEF FieldOf, IsOwn
  <2>4. Relocate' = Relocate
    BY <2>1, <2>2, <2>3 DEF Relocate
  <2> QED
    BY <2>1, <2>4 DEF Written
<1> QED
  BY <1>1, <1>2, <1>3, <1>4, <1>5 DEF Next

\* link: a field without lower bytes gets exactly the constant and the address it asked
\* for, wherever its section was joined and placed, as long as no field keeps a lower part.
THEOREM WholeFieldsAreExact == Spec => []WholeFieldsExact
<1> DEFINE Inv == TypeInv /\ Needed /\ Resolved /\ Written
<1>1. Init => Inv
  <2>1. Begun => Resolved
    BY DEF Begun, Resolved
  <2> QED
    BY <2>1, InitBegun, TypeInit, NeededInit, WrittenInit
<1>2. Inv /\ [Next]_vars => Inv'
  BY TypeStep, NeededStep, ResolvedStep, WrittenStep
<1>3. Inv => WholeFieldsExact
  BY DEF Written, WholeFieldsExact, FieldsExact
<1> QED
  BY <1>1, <1>2, <1>3, PTL DEF Spec

--------------------------------------------------------------------------------
(* Linking behind object files.                                                 *)

\* Everything that is kept while linking.
LinkInv == PlaceInv /\ Needed /\ Resolved /\ Written

\* It holds of typed lists ...
LEMMA LinkBegins == Begun => LinkInv
<1>1. Begun => Resolved
  BY DEF Begun, Resolved
<1> QED
  BY <1>1, PlaceInit, NeededInit, WrittenInit DEF LinkInv

\* ... and every step keeps it.
LEMMA LinkGoesOn ==
    ASSUME LinkInv, [Next]_vars
    PROVE  LinkInv'
<1>1. TypeInv /\ PassedApart /\ Gaps /\ Placement /\ Addressed /\ Needed /\ Resolved /\ Written
  BY DEF LinkInv, PlaceInv
<1>2. TypeInv' /\ PassedApart' /\ Gaps' /\ Placement' /\ Addressed'
  BY <1>1, TypeStep, PassedApartStep, GapsStep, PlacementStep, AddressedStep
<1>3. Needed' /\ Resolved' /\ Written'
  BY <1>1, NeededStep, ResolvedStep, WrittenStep
<1> QED
  BY <1>2, <1>3 DEF LinkInv, PlaceInv

\* It says of the lists what the runs check.
LEMMA LinkInvGives == LinkInv => LinkTypeOK /\ NeededIsUsed /\ PlacedRight /\ WholeFieldsExact
<1> SUFFICES ASSUME LinkInv PROVE LinkTypeOK /\ NeededIsUsed /\ PlacedRight /\ WholeFieldsExact
  OBVIOUS
<1>1. PlaceInv /\ TypeInv /\ Needed /\ Written
  BY DEF LinkInv, PlaceInv
<1>2. LinkTypeOK /\ NeededIsUsed
  BY <1>1, LinkTyped, NeededAreUsed
<1>3. PlacedRight
  BY <1>1, PlacedApart, RefusedHasNoRoom, PiecesKeepAlignment DEF PlacedRight
<1>4. WholeFieldsExact
  BY <1>1 DEF Written, WholeFieldsExact, FieldsExact
<1> QED
  BY <1>2, <1>3, <1>4

\* Lists of modules are joined to one.
LEMMA ModulesJoined ==
    ASSUME NEW a, Modules(a), NEW b, Modules(b)
    PROVE  Modules(a \o b)
<1> DEFINE T == Range(a) \cup Range(b)
<1>1. a \in Seq(T) /\ b \in Seq(T)
  <2>1. ASSUME NEW s, s \in Seq(Range(s)), Range(s) \subseteq T PROVE s \in Seq(T)
    BY <2>1, SeqMonotonic
  <2> QED
    BY <2>1 DEF Modules
<1>2. a \o b \in Seq(T)
  BY <1>1, ConcatProperties
<1>3. a \o b \in Seq(Range(a \o b)) /\ Range(a \o b) \subseteq T
  BY <1>2, ListOf
<1>4. \A obj \in T : IsModule(obj)
  BY DEF Modules
<1> QED
  BY <1>3, <1>4 DEF Modules

\* No modules are a list of them.
LEMMA NoModules == Modules(<<>>)
<1>1. <<>> \in Seq(Range(<<>>)) /\ Range(<<>>) = {}
  BY DEF Range
<1> QED
  BY <1>1 DEF Modules

\* The sections of a list of modules are a list of sections.
LEMMA SectionsOfModules ==
    ASSUME NEW n \in Nat, NEW lists, lists = [i \in 1 .. n |-> lists[i]],
           \A i \in 1 .. n : IsList(lists[i])
    PROVE  /\ IsList(FlattenSeq(lists))
           /\ \A s \in Range(FlattenSeq(lists)) : \E i \in 1 .. n : s \in Range(lists[i])
<1> DEFINE T == UNION {Range(lists[i]) : i \in 1 .. n}
           flat == FlattenSeq(lists)
<1>1. ASSUME NEW i \in 1 .. n PROVE lists[i] \in Seq(T)
  <2>1. lists[i] \in Seq(Range(lists[i])) /\ Range(lists[i]) \subseteq T
    BY DEF IsList
  <2> QED
    BY <2>1, SeqMonotonic
<1>2. lists \in Seq(Seq(T))
  <2> HIDE DEF T
  <2>1. lists \in [1 .. n -> Seq(T)]
    BY <1>1
  <2> QED
    BY <2>1, SeqDef
<1>3. flat \in Seq(T)
  BY <1>2, FlattenFacts
<1>4. flat \in Seq(Range(flat)) /\ Range(flat) \subseteq T
  BY <1>3, ListOf
<1>5. ASSUME NEW i \in 1 .. n, NEW s \in Range(lists[i]), NEW f \in Range(s.fields)
      PROVE  HoldsConstant(f)
  BY ListFacts DEF IsList
<1>6. \A i \in DOMAIN flat : flat[i] \in T
  BY <1>4, ListFacts
<1> HIDE DEF flat
<1>7. IsList(flat)
  BY <1>4, <1>5, <1>6 DEF IsList
<1> QED
  BY <1>4, <1>7 DEF flat

\* What is kept of the files up to each.
KeptInto(b, m, g) ==
    g = [n \in 0 .. m |-> IF n = 0 THEN <<>> ELSE g[n - 1] \o Kept(b, ReadOf(b, n))]

\* What is kept of the first files, one after another.
LEMMA KeptFacts ==
    ASSUME NEW b, Len(b.objs) \in Nat
    PROVE  /\ KeptOfFirst(b)[0] = <<>>
           /\ \A n \in 1 .. Len(b.objs) :
                KeptOfFirst(b)[n] = KeptOfFirst(b)[n - 1] \o Kept(b, ReadOf(b, n))
<1> DEFINE m == Len(b.objs)
           No == {n \in Nat : n <= m /\ ~ \E g : KeptInto(b, n, g)}
<1>1. ASSUME No # {} PROVE FALSE
  <2>1. PICK n \in No : \A k \in No : n <= k
    BY <1>1, LeastNumber
  <2>2. n # 0
    <3> DEFINE g == [i \in 0 .. 0 |-> <<>>]
    <3>1. KeptInto(b, 0, g)
      BY DEF KeptInto
    <3> QED
      BY <3>1
  <2>3. n \in Nat /\ n <= m /\ n - 1 \in Nat /\ n - 1 <= m /\ ~ (n <= n - 1)
    BY <2>2
  <2>4. n - 1 \notin No
    <3> HIDE DEF No
    <3> QED
      BY <2>1, <2>3
  <2>5. PICK g : KeptInto(b, n - 1, g)
    BY <2>3, <2>4
  <2> DEFINE h == [i \in 0 .. n |-> IF i = 0 THEN <<>> ELSE g[i - 1] \o Kept(b, ReadOf(b, i))]
  <2>6. \A i \in 0 .. n - 1 : h[i] = g[i]
    <3>1. \A i \in 0 .. n - 1 : g[i] = IF i = 0 THEN <<>> ELSE g[i - 1] \o Kept(b, ReadOf(b, i))
      <4> HIDE DEF h, No
      <4> QED
        BY <2>5 DEF KeptInto
    <3>2. \A i \in 0 .. n - 1 : i \in 0 .. n
      BY <2>3
    <3>3. \A i \in 0 .. n : h[i] = IF i = 0 THEN <<>> ELSE g[i - 1] \o Kept(b, ReadOf(b, i))
      OBVIOUS
    <3> HIDE DEF h, No
    <3> QED
      BY <3>1, <3>2, <3>3
  <2>7. \A i \in 0 .. n : i # 0 => i - 1 \in 0 .. n - 1
    BY <2>3
  <2>8. KeptInto(b, n, h)
    BY <2>6, <2>7 DEF KeptInto
  <2>9. ~ \E k : KeptInto(b, n, k)
    OBVIOUS
  <2> HIDE DEF h, No
  <2> QED
    BY <2>8, <2>9
<1>2. \E g : KeptInto(b, m, g)
  BY <1>1
<1> DEFINE g == KeptOfFirst(b)
<1>3. g = CHOOSE f : KeptInto(b, m, f)
  BY DEF KeptOfFirst, KeptInto
<1>4. KeptInto(b, m, g)
  BY <1>2, <1>3
<1> HIDE DEF g
<1>5. \A i \in 0 .. m : g[i] = IF i = 0 THEN <<>> ELSE g[i - 1] \o Kept(b, ReadOf(b, i))
  BY <1>4 DEF KeptInto
<1>6. g[0] = <<>>
  BY <1>5
<1>7. ASSUME NEW i \in 1 .. m PROVE g[i] = g[i - 1] \o Kept(b, ReadOf(b, i))
  <2>1. i \in 0 .. m /\ i # 0
    OBVIOUS
  <2> QED
    BY <1>5, <2>1
<1> QED
  BY <1>6, <1>7 DEF g

\* Files are read one by one, so that what is read of a build for a library are its modules
\* in order.
InOrder ==
    \E k \in 0 .. written :
        /\ k > 0 => written = Len(build.objs)
        /\ loaded = KeptOfFirst(build)[k] /\ Len(files) = written - k
        /\ \A i \in DOMAIN files : files[i] = FileOf(build, k + i)
        /\ \A i \in 1 .. k : Readable(build, ReadOf(build, i))

\* The lists of main.py: the files are of the build, and what is read are modules.
ReadInv ==
    /\ build \in Builds /\ written \in 0 .. Len(build.objs) /\ merged \in BOOLEAN
    /\ files \in Seq(FilesOf(build)) /\ Modules(loaded)
    /\ merged \/ Len(files) <= written
    /\ merged => Len(files) <= 1 /\ written = Len(build.objs)
    /\ stage = Reading /\ build.way = "library" /\ ~merged => InOrder

\* Before it is linked nothing is.
Unlinked ==
    /\ stage \in {Reading} \cup FileExceptions
    /\ asects = <<>> /\ pieces = <<>> /\ rsects = <<>> /\ used = {Abs} /\ todo = {Abs}
    /\ binned = 0 /\ lastBinBegin = 0 /\ bins = <<>> /\ addresses = <<>>
    /\ jobs = {} /\ lowerParts = [pos \in {} |-> 0] /\ image = <<>>

\* What FilesAssumption says of the build.
LEMMA BuildFacts ==
    ASSUME build \in Builds
    PROVE  /\ build.way \in Ways /\ Modules(build.objs)
           /\ Len(build.objs) \in Nat \ {0} /\ DOMAIN build.objs = 1 .. Len(build.objs)
           /\ \A file \in FilesOf(build) :
                /\ Opened(build, file).error \in FileExceptions \cup {""}
                /\ Readable(build, Opened(build, file)) => Modules(Kept(build, Opened(build, file)))
<1>1. /\ build.way \in Ways /\ Modules(build.objs) /\ build.objs # <<>>
      /\ \A file \in FilesOf(build) :
            /\ Opened(build, file).error \in FileExceptions \cup {""}
            /\ Readable(build, Opened(build, file)) => Modules(Kept(build, Opened(build, file)))
  BY FilesAssumption
<1>2. build.objs \in Seq(Range(build.objs))
  BY <1>1 DEF Modules
<1>3. Len(build.objs) \in Nat \ {0} /\ DOMAIN build.objs = 1 .. Len(build.objs)
  BY <1>1, <1>2, EmptySeq, LenProperties
<1> QED
  BY <1>1, <1>3

\* Each file that is written is one of them.
LEMMA FileFacts ==
    /\ build.way \in {"separate", "library"} => \A n \in DOMAIN build.objs : FileOf(build, n) \in FilesOf(build)
    /\ build.way = "together" => object_export(build.objs, build.target, build.debug) \in FilesOf(build)
    /\ build.way = "library" /\ (\A n \in DOMAIN build.objs : Readable(build, ReadOf(build, n))) =>
            Library(build) \in FilesOf(build)
    /\ build.way = "direct" => FilesOf(build) = {}
<1>1. build.way \in {"separate", "library"} => \A n \in DOMAIN build.objs : FileOf(build, n) \in FilesOf(build)
  BY DEF FilesOf
<1>2. build.way = "together" => object_export(build.objs, build.target, build.debug) \in FilesOf(build)
  BY DEF FilesOf
<1>3. build.way = "library" /\ (\A n \in DOMAIN build.objs : Readable(build, ReadOf(build, n))) =>
            Library(build) \in FilesOf(build)
  BY DEF FilesOf
<1>4. build.way = "direct" => FilesOf(build) = {}
  BY DEF FilesOf
<1> QED
  BY <1>1, <1>2, <1>3, <1>4

\* At the beginning nothing is written or read.
LEMMA ReadInit == CocasInit => ReadInv /\ Unlinked
<1> SUFFICES ASSUME CocasInit PROVE ReadInv /\ Unlinked
  OBVIOUS
<1>1. /\ build \in Builds /\ stage = Reading /\ files = <<>> /\ written = 0 /\ merged = FALSE
      /\ loaded = IF build.way = "direct" THEN build.objs ELSE <<>>
  BY DEF CocasInit
<1>2. Len(build.objs) \in Nat /\ Modules(build.objs)
  BY <1>1, BuildFacts
<1>3. Modules(loaded) /\ files \in Seq(FilesOf(build)) /\ Len(files) = 0 /\ DOMAIN files = {}
  BY <1>1, <1>2, NoModules, EmptySeq
<1>4. build.way = "library" => InOrder
  <2>1. KeptOfFirst(build)[0] = <<>>
    BY <1>2, KeptFacts
  <2>2. 0 \in 0 .. written /\ ~ (0 > 0) /\ Len(files) = written - 0 /\ 1 .. 0 = {}
    BY <1>1, <1>3
  <2> QED
    BY <1>1, <1>3, <2>1, <2>2 DEF InOrder
<1>5. ReadInv
  <2>1. written \in 0 .. Len(build.objs) /\ Len(files) <= written
    BY <1>1, <1>2, <1>3
  <2> QED
    BY <1>1, <1>3, <1>4, <2>1 DEF ReadInv
<1>6. Unlinked
  BY DEF CocasInit, Unlinked
<1> QED
  BY <1>5, <1>6

\* While nothing is read or written they stay as they are.
LEMMA ReadKept ==
    ASSUME ReadInv, UNCHANGED fileVars, stage' = stage \/ stage' # Reading
    PROVE  ReadInv'
<1>1. UNCHANGED <<build, files, written, loaded, merged>>
  BY DEF fileVars
<1>2. InOrder' <=> InOrder
  BY <1>1 DEF InOrder
<1>3. FilesOf(build)' = FilesOf(build)
  BY <1>1
<1> QED
  BY <1>1, <1>2, <1>3 DEF ReadInv

\* cocas -c.
LEMMA CompileKeeps ==
    ASSUME ReadInv, Compile
    PROVE  ReadInv'
<1>1. /\ stage = Reading /\ build.way \in {"separate", "library"} /\ written # Len(build.objs)
      /\ written' = written + 1 /\ files' = Append(files, FileOf(build, written + 1))
      /\ UNCHANGED <<stage, build, loaded, merged>>
  BY DEF Compile, AllWritten
<1>2. /\ build \in Builds /\ written \in Nat /\ written <= Len(build.objs) /\ merged = FALSE
      /\ files \in Seq(FilesOf(build)) /\ Modules(loaded) /\ Len(files) <= written
  <2>1. Len(build.objs) \in Nat
    BY BuildFacts DEF ReadInv
  <2> QED
    BY <1>1, <2>1 DEF ReadInv
<1>3. Len(build.objs) \in Nat /\ DOMAIN build.objs = 1 .. Len(build.objs)
  BY <1>2, BuildFacts
<1>4. written + 1 \in DOMAIN build.objs /\ written' \in 0 .. Len(build.objs)
  BY <1>1, <1>2, <1>3
<1>5. FileOf(build, written + 1) \in FilesOf(build)
  BY <1>1, <1>4, FileFacts
<1>6. /\ files' \in Seq(FilesOf(build)) /\ Len(files') = Len(files) + 1 /\ Len(files) \in Nat
      /\ DOMAIN files = 1 .. Len(files) /\ DOMAIN files' = 1 .. Len(files')
      /\ \A i \in 1 .. Len(files) : files'[i] = files[i]
      /\ files'[Len(files) + 1] = FileOf(build, written + 1)
  BY <1>1, <1>2, <1>5, AppendProperties, LenProperties
<1>7. ASSUME build.way = "library" PROVE InOrder'
  <2>1. PICK k \in 0 .. written :
            /\ k > 0 => written = Len(build.objs)
            /\ loaded = KeptOfFirst(build)[k] /\ Len(files) = written - k
            /\ \A i \in DOMAIN files : files[i] = FileOf(build, k + i)
    BY <1>1, <1>2, <1>7 DEF ReadInv, InOrder
  <2>2. k = 0 /\ Len(files) = written /\ \A i \in DOMAIN files : files[i] = FileOf(build, 0 + i)
    BY <1>1, <1>2, <2>1
  <2>3. \A i \in DOMAIN files' : files'[i] = FileOf(build, 0 + i)
    <3> SUFFICES ASSUME NEW i \in DOMAIN files' PROVE files'[i] = FileOf(build, 0 + i)
      OBVIOUS
    <3>1. CASE i \in DOMAIN files
      BY <1>6, <2>2, <3>1
    <3>2. CASE i \notin DOMAIN files
      <4>1. i = Len(files) + 1 /\ i = written + 1 /\ 0 + i = written + 1
        BY <1>2, <1>6, <2>2, <3>2
      <4> QED
        BY <1>6, <4>1
    <3> QED
      BY <3>1, <3>2
  <2>4. /\ 0 \in 0 .. written' /\ ~ (0 > 0) /\ Len(files') = written' - 0 /\ 1 .. 0 = {}
        /\ loaded' = KeptOfFirst(build')[0] /\ build' = build
    BY <1>1, <1>2, <1>6, <2>1, <2>2
  <2> QED
    BY <2>3, <2>4 DEF InOrder
<1>8. Len(files') <= written'
  BY <1>1, <1>2, <1>6
<1> QED
  BY <1>1, <1>2, <1>4, <1>6, <1>7, <1>8 DEF ReadInv

\* cocas -c -o.
LEMMA CompileTogetherKeeps ==
    ASSUME ReadInv, CompileTogether
    PROVE  ReadInv'
<1> DEFINE file == object_export(build.objs, build.target, build.debug)
<1>1. /\ stage = Reading /\ build.way = "together" /\ written # Len(build.objs)
      /\ written' = Len(build.objs) /\ files' = <<file>>
      /\ UNCHANGED <<stage, build, loaded, merged>>
  BY DEF CompileTogether, AllWritten
<1>2. build \in Builds /\ merged = FALSE /\ Modules(loaded)
  BY <1>1 DEF ReadInv
<1>3. Len(build.objs) \in Nat \ {0}
  BY <1>2, BuildFacts
<1>4. file \in FilesOf(build)
  BY <1>1, FileFacts
<1> HIDE DEF file
<1>5. files' \in Seq(FilesOf(build)) /\ Len(files') = 1
  BY <1>1, <1>4
<1> QED
  BY <1>1, <1>2, <1>3, <1>5 DEF ReadInv

\* read_object_files.
LEMMA ReadKeeps ==
    ASSUME ReadInv, Unlinked, Read
    PROVE  ReadInv' /\ Unlinked'
<1> DEFINE file == Head(files)
<1>1. /\ stage = Reading /\ AllWritten /\ files # <<>> /\ files' = Tail(files)
      /\ UNCHANGED <<build, written, merged, linkVars>>
      /\ \/ stage' = Opened(build, file).error /\ Opened(build, file).error # "" /\ UNCHANGED loaded
         \/ stage' = "no source file" /\ UNCHANGED loaded
         \/ Readable(build, Opened(build, file)) /\ loaded' = loaded \o Kept(build, Opened(build, file)) /\ UNCHANGED stage
  BY DEF Read, Readable
<1>2. /\ build \in Builds /\ written \in 0 .. Len(build.objs) /\ merged \in BOOLEAN
      /\ files \in Seq(FilesOf(build)) /\ Modules(loaded)
      /\ merged \/ Len(files) <= written
      /\ merged => Len(files) <= 1 /\ written = Len(build.objs)
  BY DEF ReadInv
<1>3. /\ Len(files) \in Nat \ {0} /\ file \in FilesOf(build) /\ file = files[1]
      /\ files' \in Seq(FilesOf(build)) /\ Len(files') = Len(files) - 1
      /\ DOMAIN files = 1 .. Len(files) /\ DOMAIN files' = 1 .. Len(files')
      /\ \A i \in 1 .. Len(files') : files'[i] = files[i + 1]
  <2>1. files' = Tail(files) /\ files # <<>> /\ files \in Seq(FilesOf(build))
    BY <1>1, <1>2
  <2>2. Len(files) \in Nat \ {0} /\ DOMAIN files = 1 .. Len(files)
    BY <2>1, EmptySeq, LenProperties
  <2>3. /\ Head(files) \in FilesOf(build) /\ Tail(files) \in Seq(FilesOf(build))
        /\ Len(Tail(files)) = Len(files) - 1
        /\ \A i \in 1 .. Len(Tail(files)) : Tail(files)[i] = files[i + 1]
    BY <2>1, HeadTailProperties
  <2>4. Head(files) = files[1]
    BY <2>1
  <2>5. DOMAIN Tail(files) = 1 .. Len(Tail(files))
    BY <2>3, LenProperties
  <2> QED
    BY <2>1, <2>2, <2>3, <2>4, <2>5
<1>4. /\ Opened(build, file).error \in FileExceptions \cup {""}
      /\ Readable(build, Opened(build, file)) => Modules(Kept(build, Opened(build, file)))
      /\ Len(build.objs) \in Nat
  BY <1>2, <1>3, BuildFacts
<1> HIDE DEF file
<1>a. Len(files) \in Nat \ {0} /\ Len(files') = Len(files) - 1
  BY <1>3
<1>b. written \in Nat /\ written <= Len(build.objs)
  <2>1. written \in 0 .. Len(build.objs) /\ Len(build.objs) \in Nat
    BY <1>2, <1>4
  <2> QED
    BY <2>1
<1>5. Modules(loaded')
  <2>1. ASSUME Readable(build, Opened(build, file)) PROVE Modules(loaded \o Kept(build, Opened(build, file)))
    BY <1>2, <1>4, <2>1, ModulesJoined
  <2>2. loaded' = loaded \/ (Readable(build, Opened(build, file)) /\ loaded' = loaded \o Kept(build, Opened(build, file)))
    BY <1>1
  <2> QED
    BY <1>2, <2>1, <2>2, Zenon
<1>6. stage' = Reading => Readable(build, Opened(build, file)) /\ loaded' = loaded \o Kept(build, Opened(build, file))
  BY <1>1, <1>4 DEF Reading, FileExceptions
<1>7. stage' \in {Reading} \cup FileExceptions
  BY <1>1, <1>4 DEF FileExceptions
<1>8. ASSUME stage' = Reading, build.way = "library", merged = FALSE PROVE InOrder'
  <2>1. PICK k \in 0 .. written :
            /\ loaded = KeptOfFirst(build)[k] /\ Len(files) = written - k
            /\ \A i \in DOMAIN files : files[i] = FileOf(build, k + i)
            /\ \A i \in 1 .. k : Readable(build, ReadOf(build, i))
    BY <1>1, <1>8 DEF ReadInv, InOrder
  <2>2. written = Len(build.objs) /\ written' = written /\ build' = build
    BY <1>1, <1>8 DEF AllWritten
  <2>3. k \in Nat /\ k + 1 \in 0 .. written /\ k + 1 \in 1 .. Len(build.objs) /\ (k + 1) - 1 = k
    <3>1. written \in Nat /\ k \in Nat /\ k <= written /\ written - k >= 1
      <4>1. k \in 0 .. written /\ Len(files) = written - k
        BY <2>1
      <4> QED
        BY <1>a, <1>b, <4>1
    <3>2. k + 1 \in 0 .. written /\ k + 1 \in 1 .. written /\ (k + 1) - 1 = k
      BY <3>1
    <3> QED
      BY <2>2, <3>1, <3>2
  <2>4. Opened(build, file) = ReadOf(build, k + 1)
    BY <1>3, <2>1 DEF ReadOf
  <2>5. loaded' = KeptOfFirst(build)[k + 1]
    <3>1. KeptOfFirst(build)[k + 1] = KeptOfFirst(build)[(k + 1) - 1] \o Kept(build, ReadOf(build, k + 1))
      BY <1>4, <2>3, KeptFacts
    <3> QED
      BY <1>6, <1>8, <2>1, <2>3, <2>4, <3>1
  <2>6. \A i \in DOMAIN files' : files'[i] = FileOf(build, (k + 1) + i)
    <3> SUFFICES ASSUME NEW i \in DOMAIN files' PROVE files'[i] = FileOf(build, (k + 1) + i)
      OBVIOUS
    <3>1. i \in 1 .. Len(files') /\ i \in Nat /\ files'[i] = files[i + 1]
      BY <1>3
    <3>2. i + 1 \in DOMAIN files /\ k + (i + 1) = (k + 1) + i
      <4>1. DOMAIN files = 1 .. Len(files) /\ i \in 1 .. Len(files')
        BY <1>3, <3>1
      <4>2. k \in Nat
        BY <2>3
      <4> QED
        BY <1>a, <3>1, <4>1, <4>2
    <3> QED
      BY <2>1, <3>1, <3>2
  <2>7. \A i \in 1 .. k + 1 : Readable(build, ReadOf(build, i))
    <3> SUFFICES ASSUME NEW i \in 1 .. k + 1 PROVE Readable(build, ReadOf(build, i))
      OBVIOUS
    <3>1. i \in 1 .. k \/ i = k + 1
      BY <2>3
    <3> QED
      BY <1>6, <1>8, <2>1, <2>4, <3>1
  <2>8. Len(files') = written' - (k + 1) /\ written' = Len(build'.objs) /\ k + 1 \in 0 .. written'
    BY <1>a, <1>b, <2>1, <2>2, <2>3
  <2> QED
    BY <2>2, <2>5, <2>6, <2>7, <2>8 DEF InOrder
<1>9. (merged' \/ Len(files') <= written') /\ (merged' => Len(files') <= 1 /\ written' = Len(build'.objs))
  <2>1. merged' = merged /\ written' = written /\ build' = build
    BY <1>1
  <2>2. written \in Nat /\ Len(files') \in Nat /\ Len(files') <= Len(files)
    BY <1>a, <1>b
  <2>3. CASE merged = TRUE
    <3>1. Len(files') <= 1 /\ written = Len(build.objs)
      <4>1. Len(files) <= 1 /\ written = Len(build.objs)
        BY <1>2, <2>3
      <4> QED
        BY <1>a, <2>2, <4>1
    <3> QED
      BY <2>1, <2>3, <3>1
  <2>4. CASE merged = FALSE
    <3>1. Len(files') <= written
      <4>1. Len(files) <= written
        BY <1>2, <2>4
      <4> QED
        BY <1>a, <2>2, <4>1
    <3> QED
      BY <2>1, <2>4, <3>1
  <2> QED
    BY <1>2, <2>3, <2>4
<1>10. /\ build' \in Builds /\ written' \in 0 .. Len(build'.objs) /\ merged' \in BOOLEAN
       /\ files' \in Seq(FilesOf(build)')
  BY <1>1, <1>2, <1>3
<1>11. ReadInv'
  <2>1. stage' = Reading /\ build'.way = "library" /\ ~merged' => InOrder'
    BY <1>1, <1>2, <1>8
  <2> QED
    BY <1>5, <1>9, <1>10, <2>1 DEF ReadInv
<1>12. Unlinked'
  BY <1>1, <1>7 DEF Unlinked, linkVars, placeVars, fieldVars
<1> QED
  BY <1>11, <1>12

\* cocas -m.
LEMMA MergeKeeps ==
    ASSUME ReadInv, Merge
    PROVE  ReadInv'
<1>1. /\ stage = Reading /\ AllWritten /\ files = <<>> /\ build.way = "library" /\ merged = FALSE
      /\ merged' = TRUE /\ files' = <<object_export(loaded, build.target, TRUE)>> /\ loaded' = <<>>
      /\ UNCHANGED <<stage, build, written>>
  <2>1. merged \in BOOLEAN
    BY DEF ReadInv
  <2> QED
    BY <2>1 DEF Merge, AllRead
<1>2. build \in Builds /\ written = Len(build.objs)
  BY <1>1 DEF ReadInv, AllWritten
<1>3. Len(build.objs) \in Nat \ {0} /\ DOMAIN build.objs = 1 .. Len(build.objs)
  BY <1>2, BuildFacts
<1>4. PICK k \in 0 .. written :
            /\ loaded = KeptOfFirst(build)[k] /\ Len(files) = written - k
            /\ \A i \in 1 .. k : Readable(build, ReadOf(build, i))
  BY <1>1 DEF ReadInv, InOrder
<1>5. k = Len(build.objs)
  <2>1. Len(files) = 0
    BY <1>1
  <2> QED
    BY <1>2, <1>3, <1>4, <2>1
<1>6. object_export(loaded, build.target, TRUE) = Library(build) /\ Library(build) \in FilesOf(build)
  BY <1>1, <1>3, <1>4, <1>5, FileFacts DEF Library
<1>7. files' \in Seq(FilesOf(build)') /\ Len(files') = 1
  <2>1. ASSUME NEW S, NEW x \in S PROVE <<x>> \in Seq(S) /\ Len(<<x>>) = 1
    OBVIOUS
  <2>2. files' = <<Library(build)>> /\ FilesOf(build)' = FilesOf(build)
    BY <1>1, <1>6
  <2> QED
    BY <1>6, <2>1, <2>2
<1>8. Modules(loaded')
  BY <1>1, NoModules
<1>9. /\ build' \in Builds /\ written' = Len(build'.objs) /\ written' \in 0 .. Len(build'.objs)
      /\ merged' = TRUE /\ Len(files') <= 1
  BY <1>1, <1>2, <1>3, <1>7
<1> QED
  BY <1>7, <1>8, <1>9 DEF ReadInv

\* target_link: what the linker gets are typed lists.
LEMMA LinkBegun ==
    ASSUME ReadInv, Unlinked, Link
    PROVE  Begun'
<1> DEFINE n == Len(loaded)
           abs == [i \in DOMAIN loaded |-> loaded[i].asects]
           rel == [i \in DOMAIN loaded |-> loaded[i].rsects]
<1>1. /\ stage' = "concat" /\ asects' = FlattenSeq(abs) /\ pieces' = FlattenSeq(rel)
      /\ UNCHANGED <<rsects, used, todo, placeVars, fieldVars>>
  BY DEF Link
<1>2. loaded \in Seq(Range(loaded)) /\ \A obj \in Range(loaded) : IsModule(obj)
  BY DEF ReadInv, Modules
<1>3. n \in Nat /\ DOMAIN loaded = 1 .. n /\ \A i \in DOMAIN loaded : loaded[i] \in Range(loaded)
  BY <1>2, ListFacts
<1>4. \A i \in 1 .. n : IsModule(loaded[i])
  BY <1>2, <1>3
<1> HIDE DEF n
<1>5. abs = [i \in 1 .. n |-> abs[i]] /\ rel = [i \in 1 .. n |-> rel[i]]
  BY <1>3
<1>6. \A i \in 1 .. n : /\ abs[i] = loaded[i].asects /\ rel[i] = loaded[i].rsects
                        /\ IsList(abs[i]) /\ IsList(rel[i])
                        /\ \A s \in Range(abs[i]) : IsAbs(s)
                        /\ \A s \in Range(rel[i]) : IsRel(s)
  BY <1>3, <1>4 DEF IsModule
<1> HIDE DEF abs, rel
<1>7. /\ IsList(FlattenSeq(abs)) /\ \A s \in Range(FlattenSeq(abs)) : \E i \in 1 .. n : s \in Range(abs[i])
      /\ IsList(FlattenSeq(rel)) /\ \A s \in Range(FlattenSeq(rel)) : \E i \in 1 .. n : s \in Range(rel[i])
  BY <1>3, <1>5, <1>6, SectionsOfModules
<1>8. /\ IsList(asects') /\ \A s \in Range(asects') : IsAbs(s)
      /\ IsList(pieces') /\ \A s \in Range(pieces') : IsRel(s)
  BY <1>1, <1>6, <1>7
<1> QED
  BY <1>1, <1>8 DEF Unlinked, Begun, placeVars, fieldVars

CocasInv == ReadInv /\ (Unlinked \/ LinkInv)

\* Every step keeps it, or begins to link.
LEMMA CocasStep ==
    ASSUME CocasInv, [CocasNext]_cocasVars
    PROVE  ReadInv' /\ (Unlinked' \/ LinkInv' \/ Begun')
<1>1. ReadInv /\ (Unlinked \/ LinkInv)
  BY DEF CocasInv
<1>2. LinkInv => stage \in LinkStages
  BY DEF LinkInv, PlaceInv, TypeInv
<1>3. stage = Reading => Unlinked
  BY <1>1, <1>2 DEF Reading, LinkStages, Exceptions
<1>4. CASE Compile \/ CompileTogether \/ Merge
  <2>1. UNCHANGED <<stage, linkVars>> /\ stage = Reading
    BY <1>4 DEF Compile, CompileTogether, Merge
  <2>2. Unlinked'
    BY <1>3, <2>1 DEF Unlinked, linkVars, placeVars, fieldVars
  <2>3. ReadInv'
    BY <1>1, <1>4, CompileKeeps, CompileTogetherKeeps, MergeKeeps
  <2> QED
    BY <2>2, <2>3
<1>5. CASE Read
  <2>1. stage = Reading
    BY <1>5 DEF Read
  <2> QED
    BY <1>1, <1>3, <1>5, <2>1, ReadKeeps
<1>6. CASE Link
  <2>1. stage = Reading /\ stage' = "concat" /\ UNCHANGED fileVars
    BY <1>6 DEF Link
  <2>2. ReadInv'
    BY <1>1, <2>1, ReadKept DEF Reading
  <2> QED
    BY <1>1, <1>3, <1>6, <2>1, <2>2, LinkBegun
<1>7. CASE Next /\ UNCHANGED fileVars
  <2>1. stage \in {"concat", "references", "bins", "place", "fields"}
    BY <1>7 DEF Next, Concat, Collect, Visit, Referenced, InitBin, LastBin, Place, Placed, AddAddress, Linked
  <2>2. ~Unlinked
    BY <2>1 DEF Unlinked, Reading, FileExceptions
  <2>3. LinkInv'
    BY <1>1, <1>7, <2>2, LinkGoesOn
  <2>4. stage' # Reading
    BY <2>3 DEF LinkInv, PlaceInv, TypeInv, LinkStages, Exceptions, Reading
  <2>5. ReadInv'
    BY <1>1, <1>7, <2>4, ReadKept
  <2> QED
    BY <2>3, <2>5
<1>8. CASE UNCHANGED cocasVars
  <2>1. UNCHANGED vars /\ UNCHANGED fileVars
    BY <1>8 DEF cocasVars
  <2>2. stage' = stage
    BY <2>1 DEF vars
  <2>3. ReadInv'
    BY <1>1, <2>1, <2>2, ReadKept
  <2>4. Unlinked => Unlinked'
    BY <2>1 DEF Unlinked, vars
  <2>5. LinkInv => LinkInv'
    BY <2>1, LinkGoesOn
  <2> QED
    BY <1>1, <2>3, <2>4, <2>5
<1> QED
  BY <1>4, <1>5, <1>6, <1>7, <1>8 DEF CocasNext

\* It holds at all times.
LEMMA SpecCocasInv == CocasSpec => []CocasInv
<1>1. CocasInit => CocasInv
  BY ReadInit DEF CocasInv
<1>2. CocasInv /\ [CocasNext]_cocasVars => ReadInv' /\ (Unlinked' \/ LinkInv' \/ Begun')
  BY CocasStep
<1>3. Begun => LinkInv
  BY LinkBegins
<1>4. ReadInv /\ (Unlinked \/ LinkInv) => CocasInv
  BY DEF CocasInv
<1> QED
  BY <1>1, <1>2, <1>3, <1>4, PTL DEF CocasSpec

\* What was not linked yet has nothing that could be wrong.
LEMMA UnlinkedGives == Unlinked => LinkTypeOK /\ NeededIsUsed /\ PlacedRight /\ WholeFieldsExact
<1> SUFFICES ASSUME Unlinked PROVE LinkTypeOK /\ NeededIsUsed /\ PlacedRight /\ WholeFieldsExact
  OBVIOUS
<1>1. /\ stage \in {Reading} \cup FileExceptions
      /\ asects = <<>> /\ pieces = <<>> /\ rsects = <<>> /\ used = {Abs} /\ todo = {Abs}
      /\ binned = 0 /\ lastBinBegin = 0 /\ bins = <<>> /\ addresses = <<>> /\ image = <<>>
  BY DEF Unlinked
<1>2. stage # "references" /\ stage # "no room"
  BY <1>1 DEF Reading, FileExceptions
<1>3. /\ Range(<<>>) = {} /\ DOMAIN <<>> = {} /\ Len(<<>>) = 0 /\ 0 \in 0 .. 0
      /\ <<>> \in Seq([begin: Nat, size: Nat]) /\ <<>> \in Seq(Nat) /\ 1 .. 0 = {}
  BY DEF Range
<1>4. LinkTypeOK
  BY <1>1, <1>3 DEF LinkTypeOK, Sects
<1>5. NeededIsUsed
  BY <1>2 DEF NeededIsUsed
<1>6. PlacedRight
  <2>1. SectionsApart
    BY <1>1, <1>3 DEF SectionsApart
  <2>2. PiecesAligned
    BY <1>1, <1>3 DEF PiecesAligned
  <2> QED
    BY <1>2, <2>1, <2>2 DEF PlacedRight, UnalignedApart, NoRoomIsNoRoom
<1>7. WholeFieldsExact
  BY <1>1, <1>3 DEF WholeFieldsExact, FieldsExact
<1> QED
  BY <1>4, <1>5, <1>6, <1>7

\* main.py: the lists of files and modules, and those of the linker behind them, hold what
\* they should whichever files the modules went through.
THEOREM CocasTypesCorrect == CocasSpec => []TypeOK
<1>1. CocasInv => TypeOK
  <2> SUFFICES ASSUME CocasInv PROVE TypeOK
    OBVIOUS
  <2>1. /\ build \in Builds /\ written \in 0 .. Len(build.objs) /\ merged \in BOOLEAN
        /\ Modules(loaded) /\ files \in Seq(FilesOf(build))
        /\ merged \/ Len(files) <= written
        /\ merged => Len(files) <= 1
    BY DEF CocasInv, ReadInv
  <2>2. build.way \in Ways /\ Len(build.objs) \in Nat \ {0}
    BY <2>1, BuildFacts
  <2>3. Len(files) <= Len(build.objs)
    <3>1. Len(files) \in Nat
      BY <2>1, LenProperties
    <3> QED
      BY <2>1, <2>2, <3>1
  <2>4. \A obj \in Range(loaded) : \A s \in Range(obj.asects) \cup Range(obj.rsects) : IsRecord(s)
    BY <2>1 DEF Modules, IsModule, IsAbs, IsRel
  <2>5. LinkTypeOK
    BY UnlinkedGives, LinkInvGives DEF CocasInv
  <2>6. stage \in {Reading} \cup LinkStages \cup FileExceptions
    BY DEF CocasInv, Unlinked, LinkInv, PlaceInv, TypeInv
  <2> QED
    BY <2>1, <2>2, <2>3, <2>4, <2>5, <2>6 DEF TypeOK
<1> QED
  BY <1>1, SpecCocasInv, PTL

\* What is linked behind object files and libraries is needed, placed and relocated as what
\* is linked directly.
THEOREM CocasLinksRight == CocasSpec => [](NeededIsUsed /\ PlacedRight /\ WholeFieldsExact)
<1>1. CocasInv => NeededIsUsed /\ PlacedRight /\ WholeFieldsExact
  BY UnlinkedGives, LinkInvGives DEF CocasInv
<1> QED
  BY <1>1, SpecCocasInv, PTL

================================================================================
