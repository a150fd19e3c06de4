---------------------------- MODULE SSTable_proofs ----------------------------
(***************************************************************************)
(* Proofs about the SSTable module: the layout of the file; that what the  *)
(* fetchers return and cache of a block is what was written to it; the     *)
(* order of the entries and the filters; and from these that point reads   *)
(* and scans return what was written.                                      *)
(***************************************************************************)
EXTENDS SSTable, FiniteSetTheorems, SequenceTheorems, WellFoundedInduction, TLAPS

-----------------------------------------------------------------------------
(* Numbers *)

\* A non-empty set of numbers has a least element.
LEMMA LeastNumber ==
    ASSUME NEW S, S \subseteq Nat, S # {}
    PROVE  \E x \in S : \A y \in S : x <= y
<1> DEFINE Lower == OpToRel(<, Nat)
<1>1. PICK x \in S : \A y \in S : <<y, x>> \notin Lower
  BY NatLessThanWellFounded, WFMin
<1>2. Lower = {p \in Nat \X Nat : p[1] < p[2]}
  BY Zenon DEF OpToRel
<1> HIDE DEF Lower
<1>3. \A y \in S : ~(y < x)
  BY <1>1, <1>2
<1> QED BY <1>3

\* Min of a set of numbers.
LEMMA MinOf ==
    ASSUME NEW S, S \subseteq Nat, S # {}
    PROVE  Min(S) \in S /\ \A y \in S : Min(S) <= y
<1>1. \E x \in S : \A y \in S : x <= y
  BY LeastNumber
<1> QED BY <1>1 DEF Min

\* Max of a set of numbers that has a bound.
LEMMA MaxOf ==
    ASSUME NEW n \in Nat, NEW S, S \subseteq 0..n, S # {}
    PROVE  Max(S) \in S /\ \A y \in S : y <= Max(S)
<1> DEFINE T == {n - x : x \in S}
<1>1. T \subseteq Nat /\ T # {}
  <2>1. \A x \in S : n - x \in Nat
    OBVIOUS
  <2>2. PICK x \in S : TRUE
    OBVIOUS
  <2>3. n - x \in T
    BY <2>2
  <2> QED BY <2>1, <2>3
<1>2. PICK t \in T : \A y \in T : t <= y
  BY <1>1, LeastNumber
<1>3. PICK x \in S : t = n - x
  BY <1>2
<1>4. \A y \in S : n - y \in T
  OBVIOUS
<1>5. \A y \in S : n - x <= n - y
  BY <1>2, <1>3, <1>4
<1> HIDE DEF T
<1>6. \A y \in S : x >= y
  BY <1>5
<1>7. \E z \in S : \A y \in S : z >= y
  BY <1>6
<1>8. Max(S) \in S /\ \A y \in S : Max(S) >= y
  BY <1>7 DEF Max
<1>9. \A y \in S : y \in Int
  OBVIOUS
<1> QED BY <1>8, <1>9

-----------------------------------------------------------------------------
(* Keys *)

\* The two parts of a composite key.
LEMMA KeyParts ==
    ASSUME NEW r \in Records, NEW i \in Seq(0..255)
    PROVE  /\ encode(r, i) \in Seq(0..255)
           /\ Len(r) \in Nat \ {0} /\ Len(i) \in Nat
           /\ Len(encode(r, i)) = Len(r) + 1 + Len(i)
           /\ \A j \in 1..Len(r) : encode(r, i)[j] = r[j]
           /\ encode(r, i)[Len(r) + 1] = 0
           /\ \A j \in 1..Len(i) : encode(r, i)[Len(r) + 1 + j] = i[j]
           /\ SeparatorPos(encode(r, i)) = Len(r) + 1
           /\ record_id(encode(r, i)) = r /\ item_key(encode(r, i)) = i
<1> DEFINE B == 0..255
           z == <<SEPARATOR>>
           k == encode(r, i)
<1>1. r \in Seq(B) /\ i \in Seq(B) /\ r # <<>> /\ \A j \in 1..Len(r) : r[j] # 0
  BY SSTableAssumption DEF valid_record_id, SEPARATOR
<1>2. z \in Seq(B) /\ Len(z) = 1 /\ z[1] = 0
  BY DEF SEPARATOR
<1>3. k = (r \o z) \o i
  BY DEF encode
<1> HIDE DEF B, z, k
<1>4. Len(r) \in Nat \ {0} /\ Len(i) \in Nat
  BY <1>1, EmptySeq, LenProperties
<1>5. /\ r \o z \in Seq(B) /\ Len(r \o z) = Len(r) + 1
      /\ \A j \in 1..Len(r) + 1 : (r \o z)[j] = IF j <= Len(r) THEN r[j] ELSE z[j - Len(r)]
  <2>1. /\ r \o z \in Seq(B) /\ Len(r \o z) = Len(r) + Len(z)
        /\ \A j \in 1..Len(r) + Len(z) :
              (r \o z)[j] = IF j <= Len(r) THEN r[j] ELSE z[j - Len(r)]
    <3>1. r \in Seq(B) /\ z \in Seq(B)
      BY <1>1, <1>2
    <3> QED BY ONLY <3>1, ConcatProperties
  <2> QED BY <1>2, <2>1
<1>6. /\ k \in Seq(B) /\ Len(k) = Len(r) + 1 + Len(i)
      /\ \A j \in 1..Len(r) + 1 + Len(i) :
            k[j] = IF j <= Len(r) + 1 THEN (r \o z)[j] ELSE i[j - (Len(r) + 1)]
  <2> DEFINE a == r \o z
  <2> HIDE DEF a
  <2>1. a \in Seq(B) /\ Len(a) = Len(r) + 1 /\ k = a \o i
    BY <1>3, <1>5 DEF a
  <2>2. /\ a \o i \in Seq(B) /\ Len(a \o i) = Len(a) + Len(i)
        /\ \A j \in 1..Len(a) + Len(i) :
              (a \o i)[j] = IF j <= Len(a) THEN a[j] ELSE i[j - Len(a)]
    <3>1. a \in Seq(B) /\ i \in Seq(B)
      BY <1>1, <2>1
    <3> QED BY ONLY <3>1, ConcatProperties
  <2> QED BY <2>1, <2>2 DEF a
<1>7. \A j \in 1..Len(r) : k[j] = r[j]
  <2> TAKE j \in 1..Len(r)
  <2>1. j \in 1..Len(r) + 1 /\ j \in 1..Len(r) + 1 + Len(i) /\ j <= Len(r) + 1 /\ j <= Len(r)
    BY <1>4
  <2> QED BY <1>5, <1>6, <2>1
<1>8. k[Len(r) + 1] = 0
  <2> DEFINE j == Len(r) + 1
  <2>1. j \in 1..Len(r) + 1 /\ j \in 1..Len(r) + 1 + Len(i) /\ j <= Len(r) + 1 /\ ~(j <= Len(r))
        /\ j - Len(r) = 1
    BY <1>4
  <2> HIDE DEF j
  <2>2. k[j] = z[1]
    BY <1>5, <1>6, <2>1
  <2> QED BY <1>2, <2>2 DEF j
<1>9. ASSUME NEW j \in 1..Len(i) PROVE k[Len(r) + 1 + j] = i[j]
  <2> DEFINE q == Len(r) + 1 + j
  <2>1. q \in 1..Len(r) + 1 + Len(i) /\ ~(q <= Len(r) + 1) /\ q - (Len(r) + 1) = j
    BY <1>4
  <2> HIDE DEF q
  <2>2. k[q] = i[j]
    BY <1>6, <2>1
  <2> QED BY <2>2 DEF q
<1>10. SeparatorPos(k) = Len(r) + 1
  <2> DEFINE Is(q) == q \in 1..Len(k) /\ k[q] = 0 /\ \A j \in 1..(q - 1) : k[j] # 0
  <2>1. Is(Len(r) + 1)
    <3>1. Len(r) + 1 \in 1..Len(k) /\ (Len(r) + 1) - 1 = Len(r)
      BY <1>4, <1>6
    <3> QED BY <1>1, <1>7, <1>8, <3>1
  <2>2. ASSUME NEW q, Is(q) PROVE q = Len(r) + 1
    <3>1. q \in Nat /\ q >= 1
      BY <1>4, <1>6, <2>2
    <3>2. ~(q < Len(r) + 1)
      <4> SUFFICES ASSUME q < Len(r) + 1 PROVE FALSE
        OBVIOUS
      <4>1. q \in 1..Len(r)
        BY <1>4, <3>1
      <4> QED BY <1>1, <1>7, <2>2, <4>1
    <3>3. ~(Len(r) + 1 < q)
      <4> SUFFICES ASSUME Len(r) + 1 < q PROVE FALSE
        OBVIOUS
      <4>1. Len(r) + 1 \in 1..(q - 1)
        BY <1>4, <3>1
      <4> QED BY <1>8, <2>2, <4>1
    <3> QED BY <1>4, <3>1, <3>2, <3>3
  <2>3. SeparatorPos(k) = CHOOSE q \in 1..Len(k) :
                              k[q] = 0 /\ \A j \in 1..(q - 1) : k[j] # 0
    BY DEF SeparatorPos, SEPARATOR
  <2>4. Is(SeparatorPos(k))
    BY <2>1, <2>3
  <2> HIDE DEF Is
  <2> QED BY <2>2, <2>4
<1>11. record_id(k) = r
  <2> DEFINE m == Len(r)
  <2>1. record_id(k) = SubSeq(k, 1, m)
    BY <1>4, <1>10 DEF record_id
  <2>2. \A j \in 1..m : k[j] \in B
    BY <1>1, <1>7, ElementOfSeq
  <2>3. m \in Nat /\ m >= 1
    BY <1>4
  <2>4. /\ SubSeq(k, 1, m) \in Seq(B) /\ Len(SubSeq(k, 1, m)) = m - 1 + 1
        /\ \A j \in 1..m - 1 + 1 : SubSeq(k, 1, m)[j] = k[1 + j - 1]
    BY <2>2, <2>3, SubSeqProperties
  <2>5. Len(SubSeq(k, 1, m)) = m /\ \A j \in 1..m : SubSeq(k, 1, m)[j] = r[j]
    BY <1>7, <2>3, <2>4
  <2> QED BY <1>1, <2>1, <2>4, <2>5, SeqEqual
<1>12. item_key(k) = i
  <2> DEFINE m == Len(r) + 2
             n == Len(k)
             s == SubSeq(k, m, n)
  <2>1. item_key(k) = s
    BY <1>4, <1>10 DEF item_key
  <2>2. m \in Int /\ n \in Int /\ n - m + 1 = Len(i) /\ (IF m <= n THEN n - m + 1 ELSE 0) = Len(i)
        /\ n = Len(r) + 1 + Len(i)
    BY <1>4, <1>6
  <2>3. ASSUME NEW j \in m..n PROVE k[j] \in B
    <3>1. j \in 1..Len(k)
      BY <1>4, <2>2
    <3> QED BY <1>6, <3>1, ElementOfSeq
  <2>4. /\ s \in Seq(B) /\ Len(s) = IF m <= n THEN n - m + 1 ELSE 0
        /\ \A j \in 1..n - m + 1 : s[j] = k[m + j - 1]
    BY <2>2, <2>3, SubSeqProperties
  <2> HIDE DEF s
  <2>5. s \in Seq(B) /\ Len(s) = Len(i)
    BY <2>2, <2>4
  <2>6. ASSUME NEW j \in 1..Len(i) PROVE s[j] = i[j]
    <3>1. s[j] = k[m + j - 1] /\ m + j - 1 = Len(r) + 1 + j
      BY <1>4, <2>2, <2>4
    <3> QED BY <1>9, <3>1
  <2>7. s = i
    BY <1>1, <2>5, <2>6, SeqEqual
  <2> QED BY <2>1, <2>7
<1> QED BY <1>4, <1>6, <1>7, <1>8, <1>9, <1>10, <1>11, <1>12 DEF B, k

\* A key and its two parts.
LEMMA KeyOf ==
    ASSUME NEW k \in Keys
    PROVE  /\ k \in Seq(0..255) /\ record_id(k) \in Records /\ item_key(k) \in Items
           /\ encode(record_id(k), item_key(k)) = k /\ record_id(k) # <<>>
<1>1. PICK r \in Records, i \in Items : k = encode(r, i)
  BY DEF Keys
<1>2. k \in Seq(0..255) /\ record_id(k) = r /\ item_key(k) = i
  <2>1. i \in Seq(0..255)
    BY SSTableAssumption
  <2> QED BY <1>1, <2>1, KeyParts
<1>3. r # <<>>
  BY SSTableAssumption DEF valid_record_id
<1> QED BY <1>1, <1>2, <1>3

-----------------------------------------------------------------------------
(* Blocks *)

\* The parts of an entry that was written.
LEMMA WrittenEntry ==
    ASSUME NEW w \in Seq(WrittenEntries), NEW p \in 1..Len(w)
    PROVE  /\ w[p] \in WrittenEntries
           /\ w[p].key \in Keys /\ w[p].seq \in Seqs
           /\ Record(w, p) \in Records /\ Record(w, p) # <<>> /\ item_key(w[p].key) \in Items
           /\ encode(Record(w, p), item_key(w[p].key)) = w[p].key
<1>1. w[p] \in WrittenEntries
  <2>1. w \in Seq(WrittenEntries)
    OBVIOUS
  <2> QED BY <2>1, ElementOfSeq
<1>2. w[p].key \in Keys /\ w[p].seq \in Seqs
  BY <1>1 DEF WrittenEntries
<1> QED BY <1>1, <1>2, KeyOf DEF Record

\* A damaged cell is neither an entry nor a checksum.
LEMMA GarbageIsNoCell ==
    /\ \A c \in Cell : c # Garbage
    /\ \A c : [crc |-> c] # Garbage
<1>1. DOMAIN Garbage = {"garbage"}
  BY DEF Garbage
<1>2. ASSUME NEW c \in Cell PROVE c # Garbage
  <2>1. "rid" \in DOMAIN c
    BY DEF Cell
  <2> QED BY <1>1, <2>1
<1>3. ASSUME NEW c PROVE [crc |-> c] # Garbage
  <2>1. "crc" \in DOMAIN [crc |-> c]
    OBVIOUS
  <2> QED BY <1>1, <2>1
<1> QED BY <1>2, <1>3

\* The n entries from the p-th on are among the written ones.
Within(w, p, n) == p \in Nat /\ n \in Nat /\ p >= 1 /\ p + n <= Len(w) + 1

\* The cells of a block.
LEMMA BlockCells ==
    ASSUME NEW w \in Seq(WrittenEntries), NEW p, NEW n, Within(w, p, n)
    PROVE  /\ CellsFrom(w, p, n) \in Seq(Cell) /\ Len(CellsFrom(w, p, n)) = n
           /\ \A i \in 1..n : /\ CellsFrom(w, p, n)[i] = CellOf(w, p + i - 1, i = 1)
                              /\ CellsFrom(w, p, n)[i] \in Cell
           /\ Block(w, p, n) \in Seq(Bytes) /\ Len(Block(w, p, n)) = n + 1
           /\ \A i \in 1..n : Block(w, p, n)[i] = CellsFrom(w, p, n)[i]
           /\ Block(w, p, n)[n + 1] = [crc |-> CellsFrom(w, p, n)]
<1>0. p \in Nat /\ n \in Nat /\ Len(w) \in Nat
  <2>1. w \in Seq(WrittenEntries)
    OBVIOUS
  <2> QED BY <2>1, LenProperties DEF Within
<1>1. ASSUME NEW i \in 1..n PROVE CellOf(w, p + i - 1, i = 1) \in Cell
  <2> DEFINE q == p + i - 1
  <2>1. q \in 1..Len(w)
    BY <1>0 DEF Within
  <2> HIDE DEF q
  <2>2. Record(w, q) \in Records /\ item_key(w[q].key) \in Items /\ w[q].seq \in Seqs
    BY <2>1, WrittenEntry
  <2>3. (IF ~(i = 1) /\ Record(w, q - 1) = Record(w, q) THEN <<>> ELSE Record(w, q))
            \in Records \cup {<<>>}
    BY <2>2
  <2>4. CellOf(w, q, i = 1) \in Cell
    BY <2>2, <2>3 DEF CellOf, Cell
  <2> QED BY <2>4 DEF q
<1>2. /\ CellsFrom(w, p, n) \in Seq(Cell) /\ Len(CellsFrom(w, p, n)) = n
      /\ \A i \in 1..n : CellsFrom(w, p, n)[i] = CellOf(w, p + i - 1, i = 1)
  <2> DEFINE f == [i \in 1..n |-> CellOf(w, p + i - 1, i = 1)]
  <2>1. f \in [1..n -> Cell]
    BY <1>1
  <2>2. f \in Seq(Cell) /\ Len(f) = n
    <3>1. DOMAIN f = 1..n
      OBVIOUS
    <3> HIDE DEF f
    <3> QED BY <1>0, <2>1, <3>1
  <2>3. \A i \in 1..n : f[i] = CellOf(w, p + i - 1, i = 1)
    OBVIOUS
  <2> QED BY <2>2, <2>3 DEF CellsFrom
<1> DEFINE cs == CellsFrom(w, p, n)
           crc == [crc |-> cs]
<1>3. \A i \in 1..n : cs[i] \in Cell
  BY <1>1, <1>2
<1>4. cs \in Seq(Bytes) /\ crc \in Bytes /\ Len(cs) = n
  <2>1. Cell \subseteq Bytes
    BY DEF Bytes
  <2>2. cs \in Seq(Bytes)
    BY <1>2, <2>1, SeqMonotonic
  <2>3. crc \in Bytes
    BY <1>2 DEF Bytes
  <2> QED BY <1>2, <2>2, <2>3
<1>5. Block(w, p, n) = Append(cs, crc)
  BY DEF Block
<1> HIDE DEF cs, crc
<1>6. /\ Append(cs, crc) \in Seq(Bytes) /\ Len(Append(cs, crc)) = n + 1
      /\ \A i \in 1..n : Append(cs, crc)[i] = cs[i]
      /\ Append(cs, crc)[n + 1] = crc
  BY <1>0, <1>4
<1> QED BY <1>2, <1>3, <1>5, <1>6 DEF cs, crc

\* The cells alone.
LEMMA CellsType ==
    ASSUME NEW w \in Seq(WrittenEntries), NEW p, NEW n, Within(w, p, n)
    PROVE  /\ CellsFrom(w, p, n) \in Seq(Cell) /\ Len(CellsFrom(w, p, n)) = n
           /\ \A i \in 1..n : /\ CellsFrom(w, p, n)[i] = CellOf(w, p + i - 1, i = 1)
                              /\ CellsFrom(w, p, n)[i] \in Cell
<1>1. /\ CellsFrom(w, p, n) \in Seq(Cell) /\ Len(CellsFrom(w, p, n)) = n
      /\ \A i \in 1..n : /\ CellsFrom(w, p, n)[i] = CellOf(w, p + i - 1, i = 1)
                         /\ CellsFrom(w, p, n)[i] \in Cell
      /\ Block(w, p, n) \in Seq(Bytes) /\ Len(Block(w, p, n)) = n + 1
      /\ \A i \in 1..n : Block(w, p, n)[i] = CellsFrom(w, p, n)[i]
      /\ Block(w, p, n)[n + 1] = [crc |-> CellsFrom(w, p, n)]
  BY BlockCells
<1> QED BY <1>1

\* The block alone.
LEMMA BlockType ==
    ASSUME NEW w \in Seq(WrittenEntries), NEW p, NEW n, Within(w, p, n)
    PROVE  Block(w, p, n) \in Seq(Bytes) /\ Len(Block(w, p, n)) = n + 1
<1>1. /\ CellsFrom(w, p, n) \in Seq(Cell) /\ Len(CellsFrom(w, p, n)) = n
      /\ \A i \in 1..n : /\ CellsFrom(w, p, n)[i] = CellOf(w, p + i - 1, i = 1)
                         /\ CellsFrom(w, p, n)[i] \in Cell
      /\ Block(w, p, n) \in Seq(Bytes) /\ Len(Block(w, p, n)) = n + 1
      /\ \A i \in 1..n : Block(w, p, n)[i] = CellsFrom(w, p, n)[i]
      /\ Block(w, p, n)[n + 1] = [crc |-> CellsFrom(w, p, n)]
  BY BlockCells
<1> QED BY <1>1

\* The record id an entry was written with is found again: the last one at or
\* before it.
LEMMA RecordFound ==
    ASSUME NEW w \in Seq(WrittenEntries), NEW p, NEW n, Within(w, p, n), NEW i \in 1..n
    PROVE  CellsFrom(w, p, n)[Max({j \in 1..i : CellsFrom(w, p, n)[j].rid # <<>>})].rid
               = Record(w, p + i - 1)
<1> DEFINE cs == CellsFrom(w, p, n)
           P == {j \in 1..i : cs[j].rid # <<>>}
           m == Max(P)
<1>0. p \in Nat /\ n \in Nat /\ Len(w) \in Nat /\ i \in Nat
  <2>1. w \in Seq(WrittenEntries)
    OBVIOUS
  <2> QED BY <2>1, LenProperties DEF Within
<1>1. \A j \in 1..n : /\ cs[j] = CellOf(w, p + j - 1, j = 1)
                       /\ cs[j] \in Cell
  <2> HIDE DEF P, m
  <2> QED BY BlockCells
<1>2. ASSUME NEW j \in 1..n
      PROVE  /\ Record(w, p + j - 1) # <<>>
             /\ cs[j].rid = IF ~(j = 1) /\ Record(w, p + j - 2) = Record(w, p + j - 1)
                            THEN <<>> ELSE Record(w, p + j - 1)
  <2> DEFINE q == p + j - 1
  <2>1. q \in 1..Len(w) /\ q - 1 = p + j - 2
    BY <1>0 DEF Within
  <2> HIDE DEF q
  <2>2. Record(w, q) # <<>>
    BY <2>1, WrittenEntry
  <2>3. cs[j] = CellOf(w, q, j = 1)
    BY <1>1 DEF q
  <2> HIDE DEF cs
  <2>4. cs[j].rid = IF ~(j = 1) /\ Record(w, q - 1) = Record(w, q) THEN <<>> ELSE Record(w, q)
    BY <2>3 DEF CellOf
  <2> QED BY <2>1, <2>2, <2>4 DEF q
<1> HIDE DEF cs
<1>3. 1 \in P
  <2>1. 1 \in 1..n /\ 1 \in 1..i
    BY <1>0
  <2> QED BY <1>2, <2>1
<1>4. m \in P /\ \A j \in P : j <= m
  <2>1. P \subseteq 0..i /\ P # {}
    BY <1>0, <1>3
  <2> HIDE DEF P
  <2> QED BY <1>0, <2>1, MaxOf
<1>5. m \in 1..i /\ m \in 1..n /\ cs[m].rid # <<>>
  <2>1. m \in 1..i /\ cs[m].rid # <<>>
    BY <1>4
  <2> HIDE DEF m
  <2> QED BY <1>0, <2>1
<1>6. \A j \in 1..i : m < j => cs[j].rid = <<>>
  <2> SUFFICES ASSUME NEW j \in 1..i, m < j, cs[j].rid # <<>> PROVE FALSE
    OBVIOUS
  <2>1. j <= m
    BY <1>4
  <2> HIDE DEF m
  <2> QED BY <1>0, <1>5, <2>1
<1> HIDE DEF m, P
<1> DEFINE Bad == {j \in m..i : Record(w, p + j - 1) # Record(w, p + m - 1)}
<1>7. Bad = {}
  <2> SUFFICES ASSUME Bad # {} PROVE FALSE
    OBVIOUS
  <2>1. Bad \subseteq Nat
    BY <1>5
  <2>2. PICK j \in Bad : \A x \in Bad : j <= x
    BY <2>1, LeastNumber
  <2>3. j \in m..i /\ Record(w, p + j - 1) # Record(w, p + m - 1) /\ j # m
    BY <2>2
  <2>4. j \in 1..n /\ j \in 1..i /\ m < j /\ j - 1 \in m..i /\ ~(j <= j - 1)
        /\ p + (j - 1) - 1 = p + j - 2 /\ j # 1
    BY <1>0, <1>5, <2>3
  <2>5. j - 1 \notin Bad
    BY <2>2, <2>4
  <2>6. Record(w, p + j - 2) = Record(w, p + m - 1)
    BY <2>4, <2>5
  <2>7. cs[j].rid = <<>>
    BY <1>6, <2>4
  <2>8. Record(w, p + j - 2) = Record(w, p + j - 1)
    BY <1>2, <2>4, <2>7
  <2> QED BY <2>3, <2>6, <2>8
<1>8. Record(w, p + i - 1) = Record(w, p + m - 1)
  <2>1. i \in m..i
    BY <1>0, <1>5
  <2> QED BY <1>7, <2>1
<1>9. cs[m].rid = Record(w, p + m - 1)
  BY <1>2, <1>5
<1> QED BY <1>8, <1>9 DEF m, P, cs

\* decode_block gives back the entries a block was written with.
LEMMA DecodeWhole ==
    ASSUME NEW w \in Seq(WrittenEntries), NEW p, NEW n, Within(w, p, n), n >= 1
    PROVE  decode_block(Block(w, p, n)) = EntriesFrom(w, p, n)
<1> DEFINE cs == CellsFrom(w, p, n)
           bytes == Block(w, p, n)
<1>0. p \in Nat /\ n \in Nat /\ Len(w) \in Nat
  <2>1. w \in Seq(WrittenEntries)
    OBVIOUS
  <2> QED BY <2>1, LenProperties DEF Within
<1>1. /\ cs \in Seq(Cell) /\ Len(cs) = n
      /\ \A i \in 1..n : cs[i] = CellOf(w, p + i - 1, i = 1) /\ cs[i] \in Cell
      /\ bytes \in Seq(Bytes) /\ Len(bytes) = n + 1
      /\ \A i \in 1..n : bytes[i] = cs[i]
      /\ bytes[n + 1] = [crc |-> cs]
  BY BlockCells
<1>r. \A i \in 1..n : cs[Max({j \in 1..i : cs[j].rid # <<>>})].rid = Record(w, p + i - 1)
  BY RecordFound
<1> HIDE DEF cs, bytes
<1>2. Len(bytes) - 1 = n /\ ~(n < 0)
  BY <1>0, <1>1
<1>3. SubSeq(bytes, 1, n) = cs
  <2> DEFINE s == SubSeq(bytes, 1, n)
  <2>1. \A i \in 1..n : bytes[i] \in Cell
    BY <1>1
  <2>2. /\ s \in Seq(Cell) /\ Len(s) = IF 1 <= n THEN n - 1 + 1 ELSE 0
        /\ \A i \in 1..n - 1 + 1 : s[i] = bytes[1 + i - 1]
    BY <1>0, <2>1, SubSeqProperties
  <2> HIDE DEF s
  <2>3. Len(s) = n /\ \A i \in 1..n : s[i] = cs[i]
    BY <1>0, <1>1, <2>2
  <2>4. s = cs
    <3>1. s \in Seq(Cell) /\ cs \in Seq(Cell) /\ Len(s) = Len(cs)
          /\ \A i \in 1..Len(s) : s[i] = cs[i]
      BY <1>1, <2>2, <2>3
    <3> QED BY ONLY <3>1, SeqEqual
  <2> QED BY <2>4 DEF s
<1>4. cs[1].rid # <<>>
  <2>0. 1 \in 1..n /\ p + 1 - 1 = p /\ p \in 1..Len(w)
    BY <1>0 DEF Within
  <2>1. cs[1] = CellOf(w, p + 1 - 1, 1 = 1)
    BY <1>1, <2>0
  <2>2. cs[1] = CellOf(w, p, TRUE)
    BY <2>0, <2>1 DEF CellOf
  <2>3. cs[1].rid = Record(w, p)
    BY <2>2 DEF CellOf
  <2> QED BY <2>0, <2>3, WrittenEntry
<1> DEFINE Rid(i) == cs[Max({j \in 1..i : cs[j].rid # <<>>})].rid
<1>5. decode_block(bytes) = [i \in 1..n |-> [key |-> encode(Rid(i), cs[i].item),
                                             seq |-> cs[i].seq]]
  <2>1. ~(n < 0 \/ bytes[n + 1] # [crc |-> cs] \/ cs[1].rid = <<>>)
    BY <1>1, <1>2, <1>4
  <2> QED BY <1>2, <1>3, <2>1 DEF decode_block
<1>6. ASSUME NEW i \in 1..n
      PROVE  [key |-> encode(Rid(i), cs[i].item), seq |-> cs[i].seq] =
                 Entry(w[p + i - 1])
  <2> DEFINE q == p + i - 1
  <2>1. q \in 1..Len(w)
    BY <1>0 DEF Within
  <2>2. Rid(i) = Record(w, q)
    BY <1>r
  <2>3. cs[i] = CellOf(w, q, i = 1)
    BY <1>1
  <2> HIDE DEF q, Rid
  <2>4. cs[i].item = item_key(w[q].key) /\ cs[i].seq = w[q].seq
    BY <2>3 DEF CellOf
  <2>5. encode(Record(w, q), item_key(w[q].key)) = w[q].key
    BY <2>1, WrittenEntry
  <2>6. [key |-> encode(Rid(i), cs[i].item), seq |-> cs[i].seq] = Entry(w[q])
    BY <2>2, <2>4, <2>5 DEF Entry
  <2> QED BY <2>6 DEF q
<1> HIDE DEF Rid
<1>7. decode_block(bytes) = [i \in 1..n |-> Entry(w[p + i - 1])]
  BY <1>5, <1>6
<1> QED BY <1>7 DEF bytes, EntriesFrom

\* Damage of any cell of a block is told by its checksum.
LEMMA DecodeDamaged ==
    ASSUME NEW w \in Seq(WrittenEntries), NEW p, NEW n, Within(w, p, n), n >= 1, NEW i \in 1..(n + 1)
    PROVE  decode_block([Block(w, p, n) EXCEPT ![i] = Garbage]) = Error
<1> DEFINE cs == CellsFrom(w, p, n)
           bytes == [Block(w, p, n) EXCEPT ![i] = Garbage]
<1>0. n \in Nat
  BY DEF Within
<1>1. /\ cs \in Seq(Cell) /\ Len(cs) = n
      /\ \A j \in 1..n : cs[j] \in Cell
      /\ Block(w, p, n) \in Seq(Bytes) /\ Len(Block(w, p, n)) = n + 1
      /\ \A j \in 1..n : Block(w, p, n)[j] = cs[j]
      /\ Block(w, p, n)[n + 1] = [crc |-> cs]
  BY BlockCells
<1> HIDE DEF cs
<1>2. Garbage \in Bytes
  BY DEF Bytes
<1>3. /\ bytes \in Seq(Bytes) /\ Len(bytes) = n + 1
      /\ \A j \in 1..n + 1 : bytes[j] = IF j = i THEN Garbage ELSE Block(w, p, n)[j]
  BY <1>1, <1>2, ExceptSeq
<1> HIDE DEF bytes
<1>4. Len(bytes) - 1 = n
  BY <1>0, <1>3
<1>5. bytes[n + 1] # [crc |-> SubSeq(bytes, 1, n)]
  <2>1. CASE i = n + 1
    <3>1. bytes[n + 1] = Garbage
      BY <1>0, <1>3, <2>1
    <3> QED BY <3>1, GarbageIsNoCell
  <2>2. CASE i # n + 1
    <3>1. i \in 1..n /\ n + 1 \in 1..n + 1 /\ i \in 1..n + 1
      BY <1>0, <2>2
    <3>2. bytes[n + 1] = [crc |-> cs] /\ bytes[i] = Garbage
      BY <1>1, <1>3, <2>2, <3>1
    <3> DEFINE s == SubSeq(bytes, 1, n)
    <3>3. s[i] = bytes[i]
      <4>1. \A j \in 1..n : bytes[j] \in Bytes
        <5> TAKE j \in 1..n
        <5>1. j \in 1..Len(bytes)
          BY <1>0, <1>3
        <5> QED BY <1>3, <5>1, ElementOfSeq
      <4>2. \A j \in 1..n - 1 + 1 : s[j] = bytes[1 + j - 1]
        BY <1>0, <4>1, SubSeqProperties
      <4> HIDE DEF s
      <4> QED BY <1>0, <3>1, <4>2
    <3>4. cs[i] # Garbage
      BY <1>1, <3>1, GarbageIsNoCell
    <3>5. s # cs
      BY <3>2, <3>3, <3>4
    <3> HIDE DEF s
    <3>6. [crc |-> cs] # [crc |-> s]
      <4>1. [crc |-> cs].crc = cs /\ [crc |-> s].crc = s
        OBVIOUS
      <4> QED BY <3>5, <4>1
    <3> QED BY <3>2, <3>6 DEF s
  <2> QED BY <2>1, <2>2
<1> QED BY <1>4, <1>5 DEF decode_block, bytes

-----------------------------------------------------------------------------
(* The layout *)

\* An entry of the index.
LEMMA IndexEntryType ==
    ASSUME NEW index \in Seq(IndexEntries), NEW b \in 1..Len(index)
    PROVE  /\ index[b] \in IndexEntries /\ Len(index) \in Nat /\ b \in Nat
           /\ index[b].offset \in Nat /\ index[b].size \in Nat
           /\ index[b].first_key \in Keys
<1>1. index[b] \in IndexEntries
  BY ElementOfSeq
<1>2. Len(index) \in Nat
  BY LenProperties
<1>3. b \in Nat
  BY <1>2
<1> QED BY <1>1, <1>2, <1>3 DEF IndexEntries

\* What IndexInv says of one block.
LEMMA IndexInvBlock ==
    ASSUME NEW w, NEW index, NEW end, IndexInv(w, index, end), NEW b \in 1..Len(index)
    PROVE  /\ index[b].size >= 2
           /\ b = 1 => index[b].offset = 1
           /\ b # 1 => index[b].offset = index[b - 1].offset + index[b - 1].size
           /\ FirstOf(index, b) \in 1..Len(w)
           /\ index[b].first_key = w[FirstOf(index, b)].key
  BY DEF IndexInv

\* The blocks lie in the order of the index and do not overlap.
LEMMA BlocksInOrder ==
    ASSUME NEW w, NEW index \in Seq(IndexEntries), NEW end, IndexInv(w, index, end),
           NEW b \in 1..Len(index), NEW c \in 1..Len(index), b < c
    PROVE  index[b].offset + index[b].size <= index[c].offset
<1> DEFINE Bad == {d \in 1..Len(index) :
                      b < d /\ ~(index[b].offset + index[b].size <= index[d].offset)}
<1> SUFFICES ASSUME Bad # {} PROVE FALSE
  OBVIOUS
<1>0. /\ Len(index) \in Nat
      /\ \A d \in 1..Len(index) : index[d].offset \in Nat /\ index[d].size \in Nat
  BY IndexEntryType
<1>1. Bad \subseteq Nat
  BY <1>0
<1>2. PICK d \in Bad : \A x \in Bad : d <= x
  BY <1>1, LeastNumber
<1>3. d \in 1..Len(index) /\ b < d /\ ~(index[b].offset + index[b].size <= index[d].offset)
  BY <1>2
<1>4. d # 1 /\ d - 1 \in 1..Len(index) /\ ~(d <= d - 1)
  BY <1>0, <1>3
<1>5. index[d].offset = index[d - 1].offset + index[d - 1].size
  BY <1>3, <1>4, IndexInvBlock
<1>6. d - 1 \notin Bad
  BY <1>2, <1>4
<1>7. CASE d - 1 = b
  BY <1>0, <1>3, <1>5, <1>7
<1>8. CASE b < d - 1
  <2>1. index[b].offset + index[b].size <= index[d - 1].offset
    BY <1>4, <1>6, <1>8
  <2> HIDE DEF Bad
  <2>2. /\ index[b].offset \in Nat /\ index[b].size \in Nat /\ index[d].offset \in Nat
        /\ index[d - 1].offset \in Nat /\ index[d - 1].size \in Nat
    BY <1>0, <1>3, <1>4
  <2> DEFINE x == index[b].offset
             m == index[b].size
             y == index[d - 1].offset
             n == index[d - 1].size
             z == index[d].offset
  <2>3. x \in Nat /\ m \in Nat /\ y \in Nat /\ n \in Nat
    BY ONLY <2>2 DEF x, m, y, n
  <2>4. x + m <= y /\ z = y + n /\ ~(x + m <= z)
    BY <1>3, <1>5, <2>1
  <2> HIDE DEF x, m, y, n, z
  <2> QED BY <2>3, <2>4
<1> QED BY <1>0, <1>3, <1>7, <1>8

\* Every block lies behind the header and before the end, and holds entries
\* that were written.
LEMMA BlockPlace ==
    ASSUME NEW w \in Seq(WrittenEntries), NEW index \in Seq(IndexEntries), NEW end \in Nat,
           IndexInv(w, index, end), end - Len(index) <= Len(w) + 1,
           NEW b \in 1..Len(index)
    PROVE  /\ index[b].offset \in Nat /\ index[b].size \in Nat
           /\ index[b].offset >= 1 /\ index[b].size >= 2
           /\ index[b].offset + index[b].size <= end
           /\ Within(w, FirstOf(index, b), index[b].size - 1)
           /\ index[b].size - 1 >= 1
<1>0. /\ Len(index) \in Nat /\ Len(w) \in Nat /\ b \in Nat /\ b >= 1 /\ b <= Len(index)
      /\ index[b].offset \in Nat /\ index[b].size \in Nat /\ index[b].size >= 2
      /\ FirstOf(index, b) \in 1..Len(w)
  BY IndexEntryType, IndexInvBlock, LenProperties
<1>1. Len(index) \in 1..Len(index) /\ 1 \in 1..Len(index) /\ index # <<>>
  BY <1>0
<1>2. end = index[Len(index)].offset + index[Len(index)].size
  BY <1>1 DEF IndexInv
<1>3. /\ index[Len(index)].offset \in Nat /\ index[Len(index)].size \in Nat
      /\ index[1].offset = 1 /\ index[1].size \in Nat
  BY <1>1, IndexEntryType, IndexInvBlock
<1>4. index[b].offset + index[b].size <= end
  <2>1. CASE b = Len(index)
    BY <1>0, <1>2, <2>1
  <2>2. CASE b < Len(index)
    <3>1. index[b].offset + index[b].size <= index[Len(index)].offset
      BY <1>1, <2>2, BlocksInOrder
    <3> DEFINE x == index[b].offset
               m == index[b].size
               y == index[Len(index)].offset
               n == index[Len(index)].size
    <3>2. x \in Nat /\ m \in Nat /\ y \in Nat /\ n \in Nat
      BY <1>0, <1>3
    <3>3. x + m <= y /\ end = y + n
      BY <1>2, <3>1
    <3>4. x + m <= end
      <4> HIDE DEF x, m, y, n
      <4> QED BY <3>2, <3>3
    <3> QED BY <3>4
  <2> QED BY <1>0, <2>1, <2>2
<1>5. index[b].offset >= 1
  <2>1. CASE b = 1
    BY <1>3, <2>1
  <2>2. CASE 1 < b
    <3>1. index[1].offset + index[1].size <= index[b].offset
      BY <1>1, <2>2, BlocksInOrder
    <3> QED BY <1>0, <1>3, <3>1
  <2> QED BY <1>0, <2>1, <2>2
<1>6. FirstOf(index, b) = index[b].offset - b + 1
  BY DEF FirstOf
<1> DEFINE o == index[b].offset
           n == index[b].size
           l == Len(w)
<1>7. FirstOf(index, b) + (index[b].size - 1) <= Len(w) + 1
  <2>0. o \in Nat /\ n \in Nat /\ l \in Nat
    BY <1>0
  <2>1. CASE b = Len(index)
    <3>1. end = o + n /\ end - b <= l + 1
      BY <1>2, <2>1
    <3>2. (o - b + 1) + (n - 1) <= l + 1
      <4> HIDE DEF o, n, l
      <4> QED BY <1>0, <2>0, <3>1
    <3> QED BY <1>6, <3>2
  <2>2. CASE b < Len(index)
    <3>1. b + 1 \in 1..Len(index) /\ b + 1 # 1 /\ (b + 1) - 1 = b
      BY <1>0, <2>2
    <3>2. /\ index[b + 1].offset = index[b].offset + index[b].size
          /\ FirstOf(index, b + 1) \in 1..Len(w)
      <4> DEFINE c == b + 1
      <4>1. c \in 1..Len(index) /\ c # 1 /\ c - 1 = b
        BY <3>1
      <4> HIDE DEF c
      <4>2. index[c].offset = index[c - 1].offset + index[c - 1].size /\ FirstOf(index, c) \in 1..Len(w)
        BY <4>1, IndexInvBlock
      <4> QED BY <4>1, <4>2 DEF c
    <3>3. FirstOf(index, b + 1) = index[b + 1].offset - (b + 1) + 1
      BY DEF FirstOf
    <3>4. (o + n) - (b + 1) + 1 \in 1..l
      BY <3>2, <3>3
    <3>5. (o - b + 1) + (n - 1) <= l + 1
      <4> HIDE DEF o, n, l
      <4> QED BY <1>0, <2>0, <3>4
    <3> QED BY <1>6, <3>5
  <2> QED BY <1>0, <2>1, <2>2
<1>8. Within(w, FirstOf(index, b), index[b].size - 1) /\ index[b].size - 1 >= 1
  <2> DEFINE p == FirstOf(index, b)
  <2>1. p \in Nat /\ p >= 1
    BY <1>0
  <2>2. n - 1 \in Nat /\ n - 1 >= 1
    <3>1. n \in Nat /\ n >= 2
      BY <1>0
    <3> HIDE DEF n
    <3> QED BY ONLY <3>1
  <2>3. p + (n - 1) <= Len(w) + 1
    BY <1>7
  <2> HIDE DEF p, n
  <2>4. Within(w, p, n - 1)
    BY ONLY <2>1, <2>2, <2>3 DEF Within
  <2> QED BY <2>2, <2>4 DEF p, n
<1> HIDE DEF o, n, l
<1> QED BY <1>0, <1>4, <1>5, <1>8

\* Where the entries of a block begin.
LEMMA FirstNext ==
    ASSUME NEW w, NEW x \in Seq(IndexEntries), NEW end, IndexInv(w, x, end), NEW b \in 1..Len(x)
    PROVE  FirstOf(x, b) = IF b = 1 THEN 1 ELSE FirstOf(x, b - 1) + x[b - 1].size - 1
<1>1. b \in 1..Len(x) /\ b \in Nat /\ Len(x) \in Nat
  BY IndexEntryType
<1>2. CASE b = 1
  <2>1. x[b].offset = 1
    BY <1>1, <1>2, IndexInvBlock
  <2> QED BY <1>2, <2>1 DEF FirstOf
<1>3. CASE b # 1
  <2> DEFINE c == b - 1
  <2>1. c \in 1..Len(x) /\ c \in Nat /\ b = c + 1
    BY <1>1, <1>3
  <2>2. x[b].offset = x[c].offset + x[c].size
    BY <1>1, <1>3, IndexInvBlock
  <2>3. x[c].offset \in Nat /\ x[c].size \in Nat
    BY <2>1, IndexEntryType
  <2> DEFINE o == x[c].offset
             s == x[c].size
  <2>4. (o + s) - b + 1 = (o - c + 1) + s - 1
    <3> HIDE DEF o, s, c
    <3>1. o \in Nat /\ s \in Nat
      BY <2>3 DEF o, s
    <3> QED BY <1>1, <2>1, <3>1
  <2>5. FirstOf(x, b) = (o + s) - b + 1 /\ FirstOf(x, c) = o - c + 1
    BY <2>2 DEF FirstOf
  <2>6. FirstOf(x, b) = FirstOf(x, c) + s - 1
    <3> HIDE DEF o, s, c
    <3> QED BY <2>4, <2>5
  <2> QED BY <1>3, <2>6
<1> QED BY <1>2, <1>3

\* Two blocks do not begin at the same place.
LEMMA OffsetsDiffer ==
    ASSUME NEW w, NEW index \in Seq(IndexEntries), NEW end, IndexInv(w, index, end),
           NEW b \in 1..Len(index), NEW c \in 1..Len(index),
           index[b].offset = index[c].offset
    PROVE  b = c
<1>1. /\ b \in Nat /\ c \in Nat
      /\ index[b].offset \in Nat /\ index[b].size \in Nat /\ index[b].size >= 2
      /\ index[c].offset \in Nat /\ index[c].size \in Nat /\ index[c].size >= 2
  BY IndexEntryType, IndexInvBlock
<1>2. b < c => index[b].offset + index[b].size <= index[c].offset
  BY BlocksInOrder
<1>3. c < b => index[c].offset + index[c].size <= index[b].offset
  BY BlocksInOrder
<1> QED BY <1>1, <1>2, <1>3

\* A piece of a sequence.
LEMMA Piece ==
    ASSUME NEW S, NEW data \in Seq(S), NEW o \in Nat, NEW n \in Nat, o + n <= Len(data)
    PROVE  /\ SubSeq(data, o + 1, o + n) \in Seq(S)
           /\ Len(SubSeq(data, o + 1, o + n)) = n
           /\ \A j \in 1..n : SubSeq(data, o + 1, o + n)[j] = data[o + j]
<1> DEFINE l == o + 1
           h == o + n
           s == SubSeq(data, l, h)
<1>0. Len(data) \in Nat
  BY LenProperties
<1>1. l \in Int /\ h \in Int /\ h - l + 1 = n /\ (IF l <= h THEN h - l + 1 ELSE 0) = n
      /\ \A j \in 1..n : l + j - 1 = o + j
  OBVIOUS
<1>2. ASSUME NEW j \in l..h PROVE data[j] \in S
  <2>1. j \in 1..Len(data)
    BY <1>0
  <2> QED BY <2>1, ElementOfSeq
<1>3. /\ s \in Seq(S) /\ Len(s) = IF l <= h THEN h - l + 1 ELSE 0
      /\ \A j \in 1..h - l + 1 : s[j] = data[l + j - 1]
  <2> HIDE DEF l, h
  <2> QED BY <1>1, <1>2, SubSeqProperties
<1> HIDE DEF s
<1>4. Len(s) = n /\ \A j \in 1..n : s[j] = data[o + j]
  BY <1>1, <1>3
<1> QED BY <1>3, <1>4 DEF s

\* A piece of a piece.
LEMMA PieceOfPiece ==
    ASSUME NEW S, NEW data \in Seq(S), NEW base \in Nat, NEW m \in Nat,
           NEW o \in Nat, NEW n \in Nat, base + m <= Len(data),
           base <= o, o + n <= base + m
    PROVE  SubSeq(SubSeq(data, base + 1, base + m), (o - base) + 1, (o - base) + n)
               = SubSeq(data, o + 1, o + n)
<1> DEFINE raw == SubSeq(data, base + 1, base + m)
           local == o - base
<1>0. Len(data) \in Nat
  BY LenProperties
<1>1. raw \in Seq(S) /\ Len(raw) = m /\ \A j \in 1..m : raw[j] = data[base + j]
  BY Piece
<1>2. local \in Nat /\ local + n <= m /\ o + n <= Len(data) /\ base + local = o
  BY <1>0
<1>3. /\ SubSeq(data, o + 1, o + n) \in Seq(S)
      /\ Len(SubSeq(data, o + 1, o + n)) = n
      /\ \A j \in 1..n : SubSeq(data, o + 1, o + n)[j] = data[o + j]
  BY <1>2, Piece
<1> HIDE DEF raw, local
<1>4. /\ SubSeq(raw, local + 1, local + n) \in Seq(S)
      /\ Len(SubSeq(raw, local + 1, local + n)) = n
      /\ \A j \in 1..n : SubSeq(raw, local + 1, local + n)[j] = raw[local + j]
  BY <1>1, <1>2, Piece
<1>5. ASSUME NEW j \in 1..n PROVE raw[local + j] = data[o + j]
  <2>1. local + j \in 1..m /\ base + (local + j) = o + j
    BY <1>2
  <2> QED BY <1>1, <2>1
<1>6. SubSeq(raw, local + 1, local + n) = SubSeq(data, o + 1, o + n)
  <2> DEFINE x == SubSeq(raw, local + 1, local + n)
             y == SubSeq(data, o + 1, o + n)
  <2>1. x \in Seq(S) /\ y \in Seq(S) /\ Len(x) = Len(y) /\ Len(x) = n
        /\ \A j \in 1..n : x[j] = y[j]
    BY <1>3, <1>4, <1>5
  <2> HIDE DEF x, y
  <2>2. x = y
    BY <2>1, SeqEqual
  <2> QED BY <2>2 DEF x, y
<1> QED BY <1>6 DEF raw, local

-----------------------------------------------------------------------------
(* The writer *)

\* A later entry changes none of the cells before it.
LEMMA SameCells ==
    ASSUME NEW w \in Seq(WrittenEntries), NEW e \in WrittenEntries,
           NEW p, NEW n, Within(w, p, n)
    PROVE  /\ CellsFrom(Append(w, e), p, n) = CellsFrom(w, p, n)
           /\ Block(Append(w, e), p, n) = Block(w, p, n)
<1> DEFINE v == Append(w, e)
<1>0. p \in Nat /\ p >= 1 /\ n \in Nat /\ Len(w) \in Nat /\ p + n <= Len(w) + 1
  BY LenProperties DEF Within
<1>1. \A q \in 1..Len(w) : v[q] = w[q]
  BY AppendProperties
<1> HIDE DEF v
<1>2. ASSUME NEW i \in 1..n
      PROVE  CellOf(v, p + i - 1, i = 1) = CellOf(w, p + i - 1, i = 1)
  <2> DEFINE q == p + i - 1
  <2>1. q \in 1..Len(w) /\ (i # 1 => q - 1 \in 1..Len(w))
    BY <1>0
  <2> HIDE DEF q
  <2>2. v[q] = w[q] /\ Record(v, q) = Record(w, q)
        /\ (i # 1 => Record(v, q - 1) = Record(w, q - 1))
    BY <1>1, <2>1 DEF Record
  <2>3. CellOf(v, q, i = 1) = CellOf(w, q, i = 1)
    <3>1. CASE i = 1
      BY <2>2, <3>1 DEF CellOf
    <3>2. CASE i # 1
      BY <2>2, <3>2 DEF CellOf
    <3> QED BY <3>1, <3>2
  <2> QED BY <2>3 DEF q
<1>3. CellsFrom(v, p, n) = CellsFrom(w, p, n)
  BY <1>2 DEF CellsFrom
<1> QED BY <1>3 DEF v, Block

\* The next cell of a block.
LEMMA NextCell ==
    ASSUME NEW w \in Seq(WrittenEntries), NEW p, NEW n \in Nat, Within(w, p, n + 1)
    PROVE  CellsFrom(w, p, n + 1) = Append(CellsFrom(w, p, n), CellOf(w, p + n, n = 0))
<1> DEFINE x == CellsFrom(w, p, n)
           y == CellsFrom(w, p, n + 1)
           c == CellOf(w, p + n, n = 0)
           m == n + 1
<1>0. p \in Nat /\ p >= 1 /\ Len(w) \in Nat /\ p + (n + 1) <= Len(w) + 1 /\ n + 1 \in Nat
  BY LenProperties DEF Within
<1>1. Within(w, p, n)
  BY <1>0 DEF Within
<1>2. /\ x \in Seq(Cell) /\ Len(x) = n
      /\ \A i \in 1..n : /\ x[i] = CellOf(w, p + i - 1, i = 1)
                         /\ x[i] \in Cell
  <2> HIDE DEF y, c, m
  <2> QED BY <1>1, CellsType
<1>3. /\ y \in Seq(Cell) /\ Len(y) = m
      /\ \A i \in 1..m : /\ y[i] = CellOf(w, p + i - 1, i = 1)
                         /\ y[i] \in Cell
  <2>1. Within(w, p, m) /\ y = CellsFrom(w, p, m)
    OBVIOUS
  <2> HIDE DEF x, y, c, m
  <2> QED BY <2>1, CellsType
<1>4. m \in 1..m /\ p + m - 1 = p + n /\ ((m = 1) <=> (n = 0))
      /\ (\A i \in 1..n : i \in 1..m) /\ (\A i \in 1..m : i # m => i \in 1..n)
  BY <1>0
<1>5. y[m] = c
  <2>1. y[m] = CellOf(w, p + n, m = 1)
    BY <1>3, <1>4
  <2> QED BY <1>4, <2>1 DEF CellOf
<1>6. c \in Cell
  BY <1>3, <1>4, <1>5
<1> HIDE DEF x, y, c
<1>7. /\ Append(x, c) \in Seq(Cell) /\ Len(Append(x, c)) = n + 1
      /\ \A i \in 1..n : Append(x, c)[i] = x[i]
      /\ Append(x, c)[n + 1] = c
  <2>1. /\ Append(x, c) \in Seq(Cell) /\ Len(Append(x, c)) = Len(x) + 1
        /\ \A i \in 1..Len(x) : Append(x, c)[i] = x[i]
        /\ Append(x, c)[Len(x) + 1] = c
    BY <1>2, <1>6, AppendProperties
  <2> QED BY <1>2, <2>1
<1>8. ASSUME NEW i \in 1..m PROVE y[i] = Append(x, c)[i]
  <2>1. CASE i = m
    BY <1>5, <1>7, <2>1
  <2>2. CASE i # m
    <3>1. i \in 1..n /\ i \in 1..m
      BY <1>4, <2>2
    <3> QED BY <1>2, <1>3, <1>7, <3>1
  <2> QED BY <2>1, <2>2
<1>9. y = Append(x, c)
  <2> DEFINE z == Append(x, c)
  <2>1. z \in Seq(Cell) /\ y \in Seq(Cell) /\ Len(y) = Len(z) /\ \A i \in 1..Len(y) : y[i] = z[i]
    BY <1>3, <1>7, <1>8
  <2> HIDE DEF z
  <2>2. y = z
    BY <2>1, SeqEqual
  <2> QED BY <2>2 DEF z
<1> QED BY <1>9 DEF x, y, c

\* A later entry leaves the finished blocks as they are.
LEMMA LaidEntry ==
    ASSUME NEW w \in Seq(WrittenEntries), NEW e \in WrittenEntries,
           NEW data \in Seq(Bytes), NEW index \in Seq(IndexEntries),
           Laid(w, data, index), Len(data) - Len(index) <= Len(w) + 1
    PROVE  Laid(Append(w, e), data, index)
<1> DEFINE v == Append(w, e)
<1>0. Len(w) \in Nat /\ Len(data) \in Nat /\ Len(index) \in Nat
  BY LenProperties
<1>1. Len(v) = Len(w) + 1 /\ \A q \in 1..Len(w) : v[q] = w[q]
  BY AppendProperties
<1>2. IndexInv(w, index, Len(data))
  BY DEF Laid
<1>3. ASSUME NEW b \in 1..Len(index)
      PROVE  /\ index[b].size >= 2
             /\ index[b].offset = IF b = 1 THEN 1 ELSE index[b - 1].offset + index[b - 1].size
             /\ FirstOf(index, b) \in 1..Len(v)
             /\ index[b].first_key = v[FirstOf(index, b)].key
             /\ BytesOf(data, index, b) = BlockOf(v, index, b)
  <2>1. /\ index[b].size >= 2
        /\ index[b].offset = IF b = 1 THEN 1 ELSE index[b - 1].offset + index[b - 1].size
        /\ FirstOf(index, b) \in 1..Len(w)
        /\ index[b].first_key = w[FirstOf(index, b)].key
    <3>1. b \in 1..Len(index)
      OBVIOUS
    <3>2. /\ index[b].size >= 2
          /\ b = 1 => index[b].offset = 1
          /\ b # 1 => index[b].offset = index[b - 1].offset + index[b - 1].size
          /\ FirstOf(index, b) \in 1..Len(w)
          /\ index[b].first_key = w[FirstOf(index, b)].key
      BY ONLY <1>2, <3>1, IndexInvBlock
    <3> QED BY ONLY <3>2
  <2>2. Within(w, FirstOf(index, b), index[b].size - 1)
    BY <1>0, <1>2, BlockPlace
  <2>3. BlockOf(v, index, b) = BlockOf(w, index, b)
    BY <2>2, SameCells DEF BlockOf
  <2>4. BytesOf(data, index, b) = BlockOf(w, index, b)
    BY DEF Laid
  <2> HIDE DEF v
  <2>5. FirstOf(index, b) \in 1..Len(v)
    BY <1>0, <1>1, <2>1
  <2> QED BY <1>1, <2>1, <2>3, <2>4, <2>5
<1>4. Len(data) = IF index = <<>> THEN 1
                  ELSE index[Len(index)].offset + index[Len(index)].size
  BY <1>2 DEF IndexInv
<1> HIDE DEF v
<1>5. IndexInv(v, index, Len(data))
  BY <1>3, <1>4 DEF IndexInv
<1>6. Laid(v, data, index)
  BY <1>3, <1>5 DEF Laid
<1> QED BY <1>6 DEF v

\* flush_block: the entries that are not in a block yet become the next one.
LEMMA LaidFlush ==
    ASSUME NEW w \in Seq(WrittenEntries), NEW data \in Seq(Bytes),
           NEW index \in Seq(IndexEntries), Laid(w, data, index),
           NEW p, NEW n, p = Len(data) - Len(index), Within(w, p, n), n >= 1,
           NEW x, x = [first_key |-> w[p].key, offset |-> Len(data), size |-> n + 1]
    PROVE  /\ data \o Block(w, p, n) \in Seq(Bytes)
           /\ Len(data \o Block(w, p, n)) = Len(data) + n + 1
           /\ Append(index, x) \in Seq(IndexEntries)
           /\ Len(Append(index, x)) = Len(index) + 1
           /\ Laid(w, data \o Block(w, p, n), Append(index, x))
<1> DEFINE bl == Block(w, p, n)
           d2 == data \o bl
           i2 == Append(index, x)
           k == Len(index)
           l == Len(data)
<1>0. k \in Nat /\ l \in Nat /\ Len(w) \in Nat /\ n \in Nat /\ p \in 1..Len(w) /\ p = l - k
      /\ l - k <= Len(w) + 1
  BY LenProperties DEF Within
<1>1. bl \in Seq(Bytes) /\ Len(bl) = n + 1
  <2> HIDE DEF d2, i2, k, l
  <2> QED BY BlockType
<1>2. IndexInv(w, index, l)
  BY DEF Laid
<1>3. /\ x \in IndexEntries /\ x.first_key = w[p].key /\ x.offset = l /\ x.size = n + 1
  <2>1. w[p].key \in Keys
    BY <1>0, WrittenEntry
  <2> QED BY <1>0, <2>1 DEF IndexEntries
<1> HIDE DEF bl, k, l
<1>4. /\ d2 \in Seq(Bytes) /\ Len(d2) = l + (n + 1)
      /\ \A j \in 1..l + (n + 1) : d2[j] = IF j <= l THEN data[j] ELSE bl[j - l]
  <2>1. /\ data \o bl \in Seq(Bytes) /\ Len(data \o bl) = Len(data) + Len(bl)
        /\ \A j \in 1..Len(data) + Len(bl) :
              (data \o bl)[j] = IF j <= Len(data) THEN data[j] ELSE bl[j - Len(data)]
    BY <1>1, ConcatProperties
  <2> QED BY <1>1, <2>1 DEF l
<1>5. /\ i2 \in Seq(IndexEntries) /\ Len(i2) = k + 1
      /\ \A b \in 1..k : i2[b] = index[b]
      /\ i2[k + 1] = x
  <2>1. /\ Append(index, x) \in Seq(IndexEntries) /\ Len(Append(index, x)) = Len(index) + 1
        /\ \A b \in 1..Len(index) : Append(index, x)[b] = index[b]
        /\ Append(index, x)[Len(index) + 1] = x
    BY <1>3, AppendProperties
  <2> QED BY <2>1 DEF k
<1> HIDE DEF d2, i2
<1>6. ASSUME NEW b \in 1..k
      PROVE  /\ i2[b].size >= 2
             /\ i2[b].offset = IF b = 1 THEN 1 ELSE i2[b - 1].offset + i2[b - 1].size
             /\ FirstOf(i2, b) \in 1..Len(w)
             /\ i2[b].first_key = w[FirstOf(i2, b)].key
             /\ BytesOf(d2, i2, b) = BlockOf(w, i2, b)
  <2>1. b # 1 => b - 1 \in 1..k
    BY <1>0
  <2>2. i2[b] = index[b] /\ FirstOf(i2, b) = FirstOf(index, b)
        /\ (b # 1 => i2[b - 1] = index[b - 1])
    BY <1>5, <2>1 DEF FirstOf
  <2>3. /\ index[b].size >= 2
        /\ index[b].offset = IF b = 1 THEN 1 ELSE index[b - 1].offset + index[b - 1].size
        /\ FirstOf(index, b) \in 1..Len(w)
        /\ index[b].first_key = w[FirstOf(index, b)].key
    BY <1>2, IndexInvBlock DEF k
  <2>4. BytesOf(d2, i2, b) = BlockOf(w, i2, b)
    <3> DEFINE o == index[b].offset
               s == index[b].size
    <3>1. o \in Nat /\ s \in Nat /\ o + s <= l
      BY <1>0, <1>2, BlockPlace DEF k, l
    <3>2. BytesOf(data, index, b) = BlockOf(w, index, b)
      BY DEF Laid, k
    <3>3. BytesOf(data, index, b) = SubSeq(data, o + 1, o + s)
          /\ BytesOf(d2, i2, b) = SubSeq(d2, o + 1, o + s)
      BY <2>2 DEF BytesOf
    <3>4. BlockOf(w, i2, b) = BlockOf(w, index, b)
      BY <2>2 DEF BlockOf
    <3> HIDE DEF o, s
    <3>5. SubSeq(data, o + 1, o + s) = SubSeq(d2, o + 1, o + s)
      <4> DEFINE y == SubSeq(data, o + 1, o + s)
                 z == SubSeq(d2, o + 1, o + s)
      <4>1. o + s <= Len(data) /\ o + s <= Len(d2)
        BY <1>0, <1>4, <3>1 DEF l
      <4>2. y \in Seq(Bytes) /\ Len(y) = s /\ \A j \in 1..s : y[j] = data[o + j]
        BY <3>1, <4>1, Piece
      <4>3. z \in Seq(Bytes) /\ Len(z) = s /\ \A j \in 1..s : z[j] = d2[o + j]
        <5>1. d2 \in Seq(Bytes) /\ o \in Nat /\ s \in Nat /\ o + s <= Len(d2)
          BY <1>4, <3>1, <4>1
        <5> QED BY <5>1, Piece
      <4>4. ASSUME NEW j \in 1..s PROVE data[o + j] = d2[o + j]
        <5>1. o + j \in 1..l + (n + 1) /\ o + j <= l
          BY <1>0, <3>1
        <5> QED BY <1>4, <5>1
      <4> HIDE DEF y, z
      <4>5. y = z
        BY <4>2, <4>3, <4>4, SeqEqual
      <4> QED BY <4>5 DEF y, z
    <3> QED BY <3>2, <3>3, <3>4, <3>5
  <2> QED BY <2>2, <2>3, <2>4
<1> DEFINE c == k + 1
<1>7. /\ i2[c].size >= 2
      /\ i2[c].offset = IF c = 1 THEN 1 ELSE i2[c - 1].offset + i2[c - 1].size
      /\ FirstOf(i2, c) \in 1..Len(w)
      /\ i2[c].first_key = w[FirstOf(i2, c)].key
      /\ BytesOf(d2, i2, c) = BlockOf(w, i2, c)
  <2>1. i2[c].size = n + 1 /\ i2[c].offset = l /\ i2[c].first_key = w[p].key
    BY <1>3, <1>5
  <2>2. l - c + 1 = p /\ (n + 1) - 1 = n /\ n + 1 >= 2 /\ c - 1 = k
    <3>1. k \in Nat /\ l \in Nat /\ n \in Nat /\ p = l - k /\ n >= 1
      BY <1>0
    <3> QED BY ONLY <3>1 DEF c
  <2>3. FirstOf(i2, c) = p
    BY <2>1, <2>2 DEF FirstOf
  <2>4. l = IF k = 0 THEN 1 ELSE index[k].offset + index[k].size
    <3>1. l = IF index = <<>> THEN 1 ELSE index[Len(index)].offset + index[Len(index)].size
      BY <1>2 DEF IndexInv
    <3>2. (index = <<>>) <=> (k = 0)
      BY EmptySeq DEF k
    <3> QED BY <3>1, <3>2 DEF k
  <2>5. l = IF c = 1 THEN 1 ELSE i2[c - 1].offset + i2[c - 1].size
    <3>1. CASE k = 0
      BY <2>4, <3>1
    <3>2. CASE k # 0
      <4>1. k \in 1..k /\ c # 1
        BY <1>0, <3>2
      <4>2. i2[k] = index[k]
        BY <1>5, <4>1
      <4> HIDE DEF c
      <4> QED BY <2>2, <2>4, <3>2, <4>1, <4>2
    <3> QED BY <3>1, <3>2
  <2>6. BytesOf(d2, i2, c) = bl
    <3> DEFINE s == n + 1
               y == SubSeq(d2, l + 1, l + s)
    <3>1. s \in Nat /\ l + s <= Len(d2)
      BY <1>0, <1>4
    <3>2. BytesOf(d2, i2, c) = y
      BY <2>1 DEF BytesOf
    <3>3. y \in Seq(Bytes) /\ Len(y) = s /\ \A j \in 1..s : y[j] = d2[l + j]
      <4>1. d2 \in Seq(Bytes) /\ l \in Nat /\ s \in Nat /\ l + s <= Len(d2)
        BY <1>0, <1>4, <3>1
      <4> HIDE DEF s
      <4> QED BY ONLY <4>1, Piece
    <3>4. \A j \in 1..s : d2[l + j] = bl[j]
      <4> TAKE j \in 1..s
      <4>1. l + j \in 1..l + (n + 1) /\ ~(l + j <= l) /\ (l + j) - l = j
        BY <1>0
      <4> QED BY <1>4, <4>1
    <3> HIDE DEF y
    <3>5. y = bl
      BY <1>1, <3>3, <3>4, SeqEqual
    <3> QED BY <3>2, <3>5
  <2>7. BlockOf(w, i2, c) = bl
    BY <2>1, <2>2, <2>3 DEF BlockOf, bl
  <2> HIDE DEF c
  <2> QED BY <1>0, <2>1, <2>2, <2>3, <2>5, <2>6, <2>7
<1>8. ASSUME NEW b \in 1..Len(i2)
      PROVE  /\ i2[b].size >= 2
             /\ i2[b].offset = IF b = 1 THEN 1 ELSE i2[b - 1].offset + i2[b - 1].size
             /\ FirstOf(i2, b) \in 1..Len(w)
             /\ i2[b].first_key = w[FirstOf(i2, b)].key
             /\ BytesOf(d2, i2, b) = BlockOf(w, i2, b)
  <2>1. b \in 1..k \/ b = c
    BY <1>0, <1>5
  <2> HIDE DEF c
  <2> QED BY <1>6, <1>7, <2>1
<1>9. IndexInv(w, i2, Len(d2))
  <2>1. i2 # <<>> /\ i2[Len(i2)] = x
    <3>1. k + 1 # 0
      BY <1>0
    <3> QED BY <1>5, <3>1, EmptySeq
  <2>2. Len(d2) = IF i2 = <<>> THEN 1 ELSE i2[Len(i2)].offset + i2[Len(i2)].size
    BY <1>3, <1>4, <2>1
  <2> HIDE DEF c
  <2> QED BY <1>8, <2>2 DEF IndexInv
<1>10. Laid(w, d2, i2)
  BY <1>8, <1>9 DEF Laid
<1>11. l + (n + 1) = l + n + 1
  BY <1>0
<1> QED BY <1>4, <1>5, <1>10, <1>11 DEF d2, i2, bl, k, l

-----------------------------------------------------------------------------
(* The readers *)

\* What LayoutInv says of the file.
LEMMA FileFacts ==
    ASSUME LayoutInv, pc = "written"
    PROVE  /\ written \in Seq(WrittenEntries) /\ file.data \in Seq(Bytes)
           /\ file.index \in Seq(IndexEntries)
           /\ Len(written) \in Nat /\ Len(file.data) \in Nat /\ Len(file.index) \in Nat
           /\ block_count = Len(file.index)
           /\ IndexInv(written, file.index, Len(file.data))
           /\ Len(file.data) - Len(file.index) = Len(written) + 1
           /\ Len(file.data) - Len(file.index) <= Len(written) + 1
<1>1. /\ written \in Seq(WrittenEntries) /\ file.data \in Seq(Bytes)
      /\ file.index \in Seq(IndexEntries)
  BY DEF LayoutInv, TypeOK
<1>2. Len(written) \in Nat /\ Len(file.data) \in Nat /\ Len(file.index) \in Nat
  BY <1>1, LenProperties
<1>3. /\ block_count = Len(file.index)
      /\ IndexInv(written, file.index, Len(file.data))
      /\ Len(file.data) - Len(file.index) = Len(written) + 1
  BY DEF LayoutInv, FileInv, block_count
<1> DEFINE l == Len(written) + 1
           x == Len(file.data) - Len(file.index)
<1>4. x <= l
  <2>1. x = l
    BY <1>3
  <2>2. l \in Int
    BY <1>2
  <2> HIDE DEF x, l
  <2> QED BY <2>1, <2>2
<1> QED BY <1>1, <1>2, <1>3, <1>4

\* Where a block of the file is.
LEMMA FileBlock ==
    ASSUME LayoutInv, pc = "written", NEW b \in 1..Len(file.index)
    PROVE  /\ file.index[b].offset \in Nat /\ file.index[b].size \in Nat
           /\ file.index[b].offset >= 1 /\ file.index[b].size >= 2
           /\ file.index[b].offset + file.index[b].size <= Len(file.data)
           /\ Within(written, FirstOf(file.index, b), file.index[b].size - 1)
           /\ file.index[b].size - 1 >= 1
  BY FileFacts, BlockPlace

\* A block read back is what was written to it, or an error.
LEMMA StoredBlock ==
    ASSUME LayoutInv, pc = "written", NEW b \in 1..Len(file.index)
    PROVE  /\ \/ Stored(b) = OwnEntries(b)
              \/ Stored(b) = Error
           /\ BytesOf(file.data, file.index, b) = BlockOf(written, file.index, b) =>
                  Stored(b) = OwnEntries(b)
<1> DEFINE p == FirstOf(file.index, b)
           n == file.index[b].size - 1
           bytes == BytesOf(file.data, file.index, b)
<1>1. Within(written, p, n) /\ n >= 1 /\ file.index[b].size \in Nat
  BY FileBlock
<1>2. written \in Seq(WrittenEntries) /\ block_count = Len(file.index)
  BY FileFacts
<1>3. BlockOf(written, file.index, b) = Block(written, p, n) /\ OwnEntries(b) = EntriesFrom(written, p, n)
  BY DEF BlockOf, OwnEntries
<1>4. Stored(b) = decode_block(bytes)
  BY DEF Stored, get_range, BytesOf
<1>5. \/ bytes = Block(written, p, n)
      \/ \E i \in 1..file.index[b].size : bytes = [Block(written, p, n) EXCEPT ![i] = Garbage]
  <2>1. \/ BytesOf(file.data, file.index, b) = BlockOf(written, file.index, b)
        \/ \E i \in 1..file.index[b].size :
              BytesOf(file.data, file.index, b) = [BlockOf(written, file.index, b) EXCEPT ![i] = Garbage]
    BY <1>2 DEF LayoutInv, FileInv
  <2> HIDE DEF p, n
  <2> QED BY <1>3, <2>1
<1>6. 1..file.index[b].size = 1..(n + 1)
  BY <1>1
<1> HIDE DEF p, n, bytes
<1>7. bytes = Block(written, p, n) => Stored(b) = OwnEntries(b)
  <2>1. decode_block(Block(written, p, n)) = EntriesFrom(written, p, n)
    BY <1>1, <1>2, DecodeWhole
  <2> QED BY <1>3, <1>4, <2>1
<1>8. ASSUME NEW i \in 1..file.index[b].size, bytes = [Block(written, p, n) EXCEPT ![i] = Garbage]
      PROVE  Stored(b) = Error
  <2>1. i \in 1..(n + 1)
    BY <1>6
  <2>2. decode_block([Block(written, p, n) EXCEPT ![i] = Garbage]) = Error
    BY <1>1, <1>2, <2>1, DecodeDamaged
  <2> QED BY <1>4, <1>8, <2>2
<1> QED BY <1>3, <1>5, <1>7, <1>8 DEF bytes

\* A list of blocks in the order of the file has each of them once.
LEMMA SortedBlocks ==
    ASSUME NEW m \in Nat, NEW S \in SUBSET (1..m), NEW u \in Sorted(S)
    PROVE  /\ Len(u) \in Nat /\ DOMAIN u = 1..Len(u)
           /\ \A i \in 1..Len(u) : u[i] \in S /\ u[i] \in 1..m
           /\ \A i, j \in 1..Len(u) : i < j => u[i] < u[j]
           /\ \A b \in S : \E i \in 1..Len(u) : u[i] = b
<1> DEFINE k == Cardinality(S)
<1>1. IsFiniteSet(S) /\ k \in Nat
  <2>1. IsFiniteSet(1..m)
    BY FS_Interval
  <2>2. IsFiniteSet(S)
    BY <2>1, FS_Subset
  <2> QED BY <2>2, FS_CardinalityType
<1>2. u \in [1..k -> S] /\ \A i, j \in DOMAIN u : i < j => u[i] < u[j]
  BY DEF Sorted
<1> HIDE DEF k
<1>3. DOMAIN u = 1..k /\ Len(u) = k
  BY <1>1, <1>2
<1>4. \A i \in 1..k : u[i] \in S /\ u[i] \in 1..m
  BY <1>2
<1>5. \A i, j \in 1..k : i < j => u[i] < u[j]
  BY <1>2, <1>3
<1>6. u \in Injection(1..k, S)
  <2>1. ASSUME NEW i \in 1..k, NEW j \in 1..k, u[i] = u[j] PROVE i = j
    <3>1. u[i] \in Int /\ i \in Int /\ j \in Int
      BY <1>1, <1>4
    <3>2. ~(u[i] < u[j]) /\ ~(u[j] < u[i])
      BY <2>1, <3>1
    <3> QED BY <1>5, <3>1, <3>2
  <2> QED BY <1>2, <2>1 DEF Injection, IsInjective
<1>7. u \in Surjection(1..k, S)
  <2>1. IsFiniteSet(1..k) /\ Cardinality(1..k) = k
    <3>1. Cardinality(1..k) = IF 1 > k THEN 0 ELSE k - 1 + 1
      BY <1>1, FS_Interval
    <3> QED BY <1>1, <3>1, FS_Interval
  <2> QED BY <1>1, <1>6, <2>1, FS_Injection DEF k
<1>8. \A b \in S : \E i \in 1..k : u[i] = b
  BY <1>7 DEF Surjection
<1> QED BY <1>1, <1>3, <1>4, <1>5, <1>8

\* A block cut out of a joint request is the block read by itself.
LEMMA CoalescedIsStored ==
    ASSUME LayoutInv, pc = "written", NEW S \in SUBSET (1..Len(file.index)),
           NEW u \in Sorted(S), NEW i \in 1..Len(u)
    PROVE  Coalesced(u, i) = Stored(u[i])
<1> DEFINE Joined(j, k) == \A n \in (j + 1)..k : is_adjacent(u[n - 1], u[n])
           L == {j \in 1..i : Joined(j, i)}
           H == {j \in i..Len(u) : Joined(i, j)}
           low == Min(L)
           high == Max(H)
           base == file.index[u[low]].offset
           m == file.index[u[high]].offset + file.index[u[high]].size - base
           o == file.index[u[i]].offset
           s == file.index[u[i]].size
<1>1. /\ Len(u) \in Nat /\ i \in Nat
      /\ \A j \in 1..Len(u) : u[j] \in 1..Len(file.index)
      /\ \A j, k \in 1..Len(u) : j < k => u[j] < u[k]
  <2>1. Len(file.index) \in Nat
    BY FileFacts
  <2>2. /\ Len(u) \in Nat
        /\ \A j \in 1..Len(u) : u[j] \in S /\ u[j] \in 1..Len(file.index)
        /\ \A j, k \in 1..Len(u) : j < k => u[j] < u[k]
    <3> HIDE DEF Joined, L, H, low, high, base, m, o, s
    <3> QED BY <2>1, SortedBlocks
  <2> QED BY <2>2
<1>2. L \subseteq 1..i /\ H \subseteq i..Len(u) /\ i \in L /\ i \in H
  <2>1. (i + 1)..i = {} /\ i \in 1..i /\ i \in i..Len(u)
    BY <1>1
  <2> QED BY <2>1
<1>3. low \in 1..i
  <2> HIDE DEF L, H
  <2>1. L \subseteq Nat /\ L # {}
    BY <1>1, <1>2
  <2>2. low \in L
    BY <2>1, MinOf
  <2> QED BY <1>2, <2>2
<1>4. high \in i..Len(u)
  <2> HIDE DEF L, H
  <2>1. H \subseteq 0..Len(u) /\ H # {}
    BY <1>1, <1>2
  <2>2. high \in H
    BY <1>1, <2>1, MaxOf
  <2> QED BY <1>2, <2>2
<1>5. Coalesced(u, i) = decode_block(SubSeq(get_range(base, m), (o - base) + 1, (o - base) + s))
  BY DEF Coalesced
<1> HIDE DEF Joined, L, H, low, high
<1>6. low \in 1..Len(u) /\ high \in 1..Len(u) /\ low <= i /\ i <= high /\ low \in Nat /\ high \in Nat
  BY <1>1, <1>3, <1>4
<1> DEFINE a == u[low]
           b == u[i]
           c == u[high]
<1>7. /\ a \in 1..Len(file.index) /\ b \in 1..Len(file.index) /\ c \in 1..Len(file.index)
      /\ (a = b \/ a < b) /\ (b = c \/ b < c)
  <2>1. a \in 1..Len(file.index) /\ b \in 1..Len(file.index) /\ c \in 1..Len(file.index)
    BY <1>1, <1>6
  <2>2. (low = i \/ low < i) /\ (i = high \/ i < high)
    BY <1>1, <1>6
  <2> QED BY <1>1, <1>6, <2>1, <2>2
<1> DEFINE ho == file.index[c].offset
           hs == file.index[c].size
           bs == file.index[a].size
<1>8. /\ base \in Nat /\ bs \in Nat /\ o \in Nat /\ s \in Nat /\ ho \in Nat /\ hs \in Nat
      /\ ho + hs <= Len(file.data)
  <2> HIDE DEF a, b, c
  <2> QED BY <1>7, FileBlock DEF a, b, c
<1>9. base <= o
  <2>1. CASE a = b
    BY <1>8, <2>1
  <2>2. CASE a < b
    <3>1. base + bs <= o
      BY <1>7, <2>2, FileFacts, BlocksInOrder
    <3> HIDE DEF base, bs, o
    <3> QED BY <1>8, <3>1
  <2> QED BY <1>7, <2>1, <2>2
<1>10. o + s <= ho + hs
  <2>1. CASE b = c
    BY <1>8, <2>1
  <2>2. CASE b < c
    <3>1. o + s <= ho
      BY <1>7, <2>2, FileFacts, BlocksInOrder
    <3> HIDE DEF o, s, ho, hs
    <3> QED BY <1>8, <3>1
  <2> QED BY <1>7, <2>1, <2>2
<1>11. m = ho + hs - base
  OBVIOUS
<1>12. get_range(base, m) = SubSeq(file.data, base + 1, base + m)
       /\ Stored(b) = decode_block(SubSeq(file.data, o + 1, o + s))
  BY DEF get_range, Stored
<1> HIDE DEF base, m, o, s, ho, hs, bs, a, b, c
<1>13. /\ m \in Nat /\ base + m <= Len(file.data) /\ o + s <= base + m
       /\ base \in Nat /\ o \in Nat /\ s \in Nat /\ base <= o
       /\ file.data \in Seq(Bytes)
  <2>0. Len(file.data) \in Nat /\ file.data \in Seq(Bytes)
    BY FileFacts
  <2>1. base + m = ho + hs /\ m \in Int
    BY <1>8, <1>11
  <2>2. m >= 0
    BY <1>8, <1>9, <1>10, <1>11
  <2> QED BY <1>8, <1>9, <1>10, <2>0, <2>1, <2>2
<1>14. SubSeq(SubSeq(file.data, base + 1, base + m), (o - base) + 1, (o - base) + s)
           = SubSeq(file.data, o + 1, o + s)
  BY <1>13, PieceOfPiece
<1> QED BY <1>5, <1>12, <1>14 DEF b

-----------------------------------------------------------------------------
(* Init and the steps *)

\* LayoutInv holds initially.
LEMMA InitLayout ==
    ASSUME Init
    PROVE  LayoutInv
<1>1. TypeOK
  <2>1. <<Garbage>> \in Seq(Bytes)
    BY DEF Bytes
  <2> QED BY <2>1 DEF Init, TypeOK, EmptyBlock
<1>2. WriterInv
  <2>1. /\ out.data = <<Garbage>> /\ out.index = <<>> /\ written = <<>>
        /\ builder.cells = <<>>
    BY DEF Init, EmptyBlock
  <2>2. Laid(written, out.data, out.index)
    <3>1. Len(out.index) = 0 /\ Len(out.data) = 1
      BY <2>1
    <3>2. 1..Len(out.index) = {}
      BY <3>1
    <3> QED BY <2>1, <3>1, <3>2 DEF Laid, IndexInv
  <2>3. CellsFrom(written, Open, Len(builder.cells)) = builder.cells
    <3>1. Len(builder.cells) = 0 /\ 1..0 = {}
      BY <2>1
    <3> QED BY <2>1, <3>1 DEF CellsFrom
  <2>4. Open = Len(out.data) - Len(out.index)
    <3>1. Len(written) = 0 /\ Len(builder.cells) = 0 /\ Len(out.data) = 1 /\ Len(out.index) = 0
      BY <2>1
    <3> QED BY <3>1 DEF Open
  <2> QED BY <2>1, <2>2, <2>3, <2>4 DEF WriterInv
<1>3. FileInv /\ CacheInv
  BY DEF Init, FileInv, CacheInv
<1> QED BY <1>1, <1>2, <1>3 DEF LayoutInv

\* The entry AddEntry is given.
LEMMA NewEntry ==
    ASSUME NEW k \in Keys, NEW s \in Seqs
    PROVE  [key |-> k, seq |-> s, token |-> Token(k, s)] \in WrittenEntries
<1>1. Token(k, s) \in Tokens
  BY DEF Token, Tokens
<1> QED BY <1>1 DEF WrittenEntries

\* Where the entries begin that are not in a finished block.
LEMMA OpenPlace ==
    ASSUME LayoutInv, pc = "writing"
    PROVE  /\ Open \in Nat /\ Open >= 1 /\ Len(builder.cells) \in Nat
           /\ Open + Len(builder.cells) = Len(written) + 1
           /\ Within(written, Open, Len(builder.cells))
           /\ Open <= Len(written) + 1
<1> DEFINE p == Open
           w == written
           l == Len(written)
           n == Len(builder.cells)
<1>0. /\ w \in Seq(WrittenEntries) /\ builder.cells \in Seq(Cell)
      /\ out.data \in Seq(Bytes) /\ out.index \in Seq(IndexEntries)
  BY DEF LayoutInv, TypeOK
<1>1. Laid(w, out.data, out.index) /\ p = Len(out.data) - Len(out.index)
  BY DEF LayoutInv, WriterInv
<1>2. l \in Nat /\ n \in Nat /\ Len(out.data) \in Nat /\ Len(out.index) \in Nat
  BY <1>0, LenProperties
<1>3. p = l - n + 1
  BY DEF Open
<1>4. p >= 1
  <2>1. CASE Len(out.index) = 0
    <3>1. Len(out.data) = 1
      <4>1. out.index = <<>>
        BY <1>0, <2>1, EmptySeq
      <4> QED BY <1>1, <4>1 DEF Laid, IndexInv
    <3> QED BY <1>1, <2>1, <3>1
  <2>2. CASE Len(out.index) # 0
    <3> DEFINE k == Len(out.index)
               o == out.index[k].offset
               s == out.index[k].size
    <3>1. k \in 1..Len(out.index) /\ out.index # <<>> /\ k \in Nat
      BY <1>2, <2>2
    <3>2. Len(out.data) = o + s
      BY <1>1, <3>1 DEF Laid, IndexInv
    <3>3. FirstOf(out.index, k) \in 1..l /\ s >= 2 /\ o \in Nat /\ s \in Nat
      BY <1>0, <1>1, <3>1, IndexInvBlock, IndexEntryType DEF Laid
    <3>4. o - k + 1 >= 1
      BY <1>2, <3>3 DEF FirstOf
    <3>5. p = (o + s) - k
      BY <1>1, <3>2
    <3> HIDE DEF o, s, k
    <3> QED BY <3>1, <3>3, <3>4, <3>5
  <2> QED BY <2>1, <2>2
<1> HIDE DEF p, l, n
<1>5. p \in Nat /\ p >= 1 /\ n \in Nat /\ p + n = l + 1 /\ p + n <= l + 1 /\ p <= l + 1
  BY <1>2, <1>3, <1>4
<1> QED BY <1>5 DEF Within, p, l, n

\* The block that add_entry leaves holds the entries since the last finished
\* block, the new one included.
LEMMA AddedEntry ==
    ASSUME LayoutInv, pc = "writing", NEW e \in WrittenEntries,
           NEW v, v = Append(written, e), NEW b, b = add_entry(builder, e),
           NEW p, p = Open, NEW n, n = Len(builder.cells)
    PROVE  /\ v \in Seq(WrittenEntries) /\ Len(v) = Len(written) + 1
           /\ n \in Nat /\ p = Len(v) - n /\ p = Len(out.data) - Len(out.index)
           /\ Within(v, p, n + 1) /\ p + (n + 1) = Len(v) + 1
           /\ b.cells = CellsFrom(v, p, n + 1)
           /\ b.cells \in Seq(Cell) /\ Len(b.cells) = n + 1
           /\ b.first = v[p].key /\ b.last = Record(v, Len(v))
           /\ Laid(v, out.data, out.index)
<1> DEFINE w == written
           l == Len(written)
           cs == builder.cells
<1>0. /\ w \in Seq(WrittenEntries) /\ cs \in Seq(Cell)
      /\ out.data \in Seq(Bytes) /\ out.index \in Seq(IndexEntries)
  BY DEF LayoutInv, TypeOK
<1>1. /\ Laid(w, out.data, out.index) /\ Open = Len(out.data) - Len(out.index)
      /\ cs = CellsFrom(w, p, n)
      /\ cs # <<>> => builder.first = w[p].key /\ builder.last = Record(w, l)
  BY DEF LayoutInv, WriterInv
<1>2. l \in Nat /\ n \in Nat /\ Len(out.data) \in Nat /\ Len(out.index) \in Nat
  BY <1>0, LenProperties
<1>3. v \in Seq(WrittenEntries) /\ Len(v) = l + 1 /\ v[l + 1] = e
      /\ \A q \in 1..l : v[q] = w[q]
  BY <1>0, AppendProperties
<1>4. p = l - n + 1
  BY DEF Open
<1>5. p >= 1
  BY OpenPlace
<1>6. /\ p \in Nat /\ Within(w, p, n) /\ Within(v, p, n + 1) /\ p + (n + 1) = Len(v) + 1
      /\ p + n = l + 1 /\ p = Len(v) - n /\ p = Len(out.data) - Len(out.index)
      /\ Len(out.data) - Len(out.index) <= l + 1
  <2>1. p \in Nat /\ p + n = l + 1 /\ p + (n + 1) = (l + 1) + 1 /\ p = (l + 1) - n
        /\ p <= l + 1 /\ n + 1 \in Nat
    <3> HIDE DEF l
    <3> QED BY ONLY <1>2, <1>4, <1>5
  <2>2. p = Len(out.data) - Len(out.index)
    BY <1>1
  <2> HIDE DEF w, l, cs
  <2>3. p + n <= Len(w) + 1 /\ p + (n + 1) <= Len(v) + 1
    <3>1. Len(w) = l
      BY DEF w, l
    <3>2. p + n <= l + 1 /\ p + (n + 1) <= (l + 1) + 1
      BY ONLY <1>2, <2>1
    <3> QED BY <1>3, <3>1, <3>2
  <2> QED BY <1>2, <1>3, <1>5, <2>1, <2>2, <2>3 DEF Within
<1>7. Laid(v, out.data, out.index)
  BY <1>0, <1>1, <1>6, LaidEntry
<1>8. CellsFrom(v, p, n) = cs
  BY <1>0, <1>1, <1>6, SameCells
<1>9. cs = <<>> <=> n = 0
  BY <1>0, EmptySeq
<1> DEFINE rid == record_id(e.key)
           dedup == cs # <<>> /\ builder.last = rid
           cell == [rid |-> IF dedup THEN <<>> ELSE rid, item |-> item_key(e.key), seq |-> e.seq]
<1>10. /\ b.cells = Append(cs, cell) /\ b.last = rid
       /\ b.first = IF cs = <<>> THEN e.key ELSE builder.first
  BY DEF add_entry
<1> DEFINE q == p + n
<1>q. q = l + 1 /\ q - 1 = l /\ Len(v) = q
  BY <1>2, <1>3, <1>6
<1> HIDE DEF q
<1>11. v[q] = e /\ Record(v, q) = rid /\ Record(v, Len(v)) = rid
  <2>1. v[q] = e /\ v[Len(v)] = e
    BY <1>3, <1>q
  <2> QED BY <2>1 DEF Record
<1>12. n # 0 => v[p] = w[p] /\ Record(v, q - 1) = Record(w, l)
  <2> SUFFICES ASSUME n # 0 PROVE v[p] = w[p] /\ Record(v, q - 1) = Record(w, l)
    OBVIOUS
  <2>1. p \in 1..l /\ l \in 1..l
    BY <1>2, <1>5, <1>6
  <2>2. v[p] = w[p] /\ v[l] = w[l]
    BY <1>3, <2>1
  <2> QED BY <1>q, <2>1, <2>2 DEF Record
<1>13. cell = CellOf(v, q, n = 0)
  <2>1. (~(n = 0) /\ Record(v, q - 1) = Record(v, q)) <=> dedup
    <3>1. Record(v, q) = rid /\ (n # 0 => Record(v, q - 1) = Record(w, l))
      BY <1>11, <1>12
    <3>2. n # 0 => builder.last = Record(w, l)
      BY <1>1, <1>9
    <3> HIDE DEF rid, w, l, cs
    <3> QED BY ONLY <1>9, <3>1, <3>2 DEF dedup
  <2>2. v[q] = e /\ Record(v, q) = rid
    BY <1>11
  <2> HIDE DEF rid, dedup
  <2>3. CASE dedup
    <3>1. ~(n = 0) /\ Record(v, q - 1) = Record(v, q)
      BY <2>1, <2>3
    <3>2. CellOf(v, q, n = 0) =
              [rid |-> <<>>, item |-> item_key(v[q].key), seq |-> v[q].seq]
      BY ONLY <3>1 DEF CellOf
    <3> QED BY <2>2, <2>3, <3>2
  <2>4. CASE ~dedup
    <3>1. ~(~(n = 0) /\ Record(v, q - 1) = Record(v, q))
      BY <2>1, <2>4
    <3>2. CellOf(v, q, n = 0) =
              [rid |-> Record(v, q), item |-> item_key(v[q].key), seq |-> v[q].seq]
      BY ONLY <3>1 DEF CellOf
    <3> QED BY <2>2, <2>4, <3>2
  <2> QED BY <2>3, <2>4
<1>14. b.cells = CellsFrom(v, p, n + 1)
  <2>1. CellsFrom(v, p, n + 1) = Append(CellsFrom(v, p, n), CellOf(v, q, n = 0))
    <3>1. v \in Seq(WrittenEntries) /\ n \in Nat /\ Within(v, p, n + 1)
      BY <1>2, <1>3, <1>6
    <3>2. CellsFrom(v, p, n + 1) = Append(CellsFrom(v, p, n), CellOf(v, p + n, n = 0))
      BY ONLY <3>1, NextCell
    <3> QED BY <3>2 DEF q
  <2> HIDE DEF cell, cs
  <2> QED BY <1>8, <1>10, <1>13, <2>1
<1>15. b.cells \in Seq(Cell) /\ Len(b.cells) = n + 1
  <2>1. CellsFrom(v, p, n + 1) \in Seq(Cell) /\ Len(CellsFrom(v, p, n + 1)) = n + 1
    <3> DEFINE m == n + 1
    <3>1. Within(v, p, m)
      BY <1>6
    <3> HIDE DEF m
    <3>2. CellsFrom(v, p, m) \in Seq(Cell) /\ Len(CellsFrom(v, p, m)) = m
      BY ONLY <1>3, <3>1, CellsType
    <3> QED BY <3>2 DEF m
  <2> QED BY <1>14, <2>1
<1>16. b.first = v[p].key
  <2>1. CASE n = 0
    <3>1. q = p
      BY <1>6, <2>1 DEF q
    <3> QED BY <1>9, <1>10, <1>11, <2>1, <3>1
  <2>2. CASE n # 0
    BY <1>1, <1>9, <1>10, <1>12, <2>2
  <2> QED BY <2>1, <2>2
<1> HIDE DEF rid, dedup, cell
<1> QED BY <1>2, <1>3, <1>6, <1>7, <1>10, <1>11, <1>14, <1>15, <1>16

\* The block b holds the n entries of v that are not in a finished block.
Holds(b, v, p, n) ==
    /\ v \in Seq(WrittenEntries) /\ Within(v, p, n) /\ n >= 1
    /\ out.data \in Seq(Bytes) /\ out.index \in Seq(IndexEntries)
    /\ Laid(v, out.data, out.index) /\ p = Len(out.data) - Len(out.index)
    /\ b.cells = CellsFrom(v, p, n) /\ b.first = v[p].key

\* flush_block appends such a block.
LEMMA Flushed ==
    ASSUME NEW b, NEW v, NEW p, NEW n, Holds(b, v, p, n), NEW f, f = flush_block(out, b)
    PROVE  /\ f.data \in Seq(Bytes) /\ f.index \in Seq(IndexEntries)
           /\ Laid(v, f.data, f.index)
           /\ Len(f.data) = p + n + Len(f.index)
<1> DEFINE x == [first_key |-> v[p].key, offset |-> Len(out.data), size |-> n + 1]
           d == out.data \o Block(v, p, n)
           i == Append(out.index, x)
<1>0. /\ v \in Seq(WrittenEntries) /\ Within(v, p, n) /\ n >= 1
      /\ out.data \in Seq(Bytes) /\ out.index \in Seq(IndexEntries)
      /\ Laid(v, out.data, out.index) /\ p = Len(out.data) - Len(out.index)
      /\ b.cells = CellsFrom(v, p, n) /\ b.first = v[p].key
  BY DEF Holds
<1>1. finish(b) = Block(v, p, n)
  BY <1>0 DEF finish, Block
<1>2. Len(finish(b)) = n + 1
  BY <1>0, <1>1, BlockType
<1>3. IndexEntry(b, Len(out.data)) = x
  BY <1>0, <1>2 DEF IndexEntry
<1>4. f.data = d /\ f.index = i
  BY <1>1, <1>3 DEF flush_block
<1>5. /\ d \in Seq(Bytes) /\ Len(d) = Len(out.data) + n + 1
      /\ i \in Seq(IndexEntries) /\ Len(i) = Len(out.index) + 1
      /\ Laid(v, d, i)
  <2> DEFINE dd == out.data
             ii == out.index
  <2>1. /\ dd \in Seq(Bytes) /\ ii \in Seq(IndexEntries) /\ Laid(v, dd, ii)
        /\ p = Len(dd) - Len(ii) /\ Within(v, p, n) /\ n >= 1
        /\ x = [first_key |-> v[p].key, offset |-> Len(dd), size |-> n + 1]
        /\ v \in Seq(WrittenEntries)
    BY <1>0
  <2> HIDE DEF dd, ii, x
  <2>2. /\ dd \o Block(v, p, n) \in Seq(Bytes)
        /\ Len(dd \o Block(v, p, n)) = Len(dd) + n + 1
        /\ Append(ii, x) \in Seq(IndexEntries)
        /\ Len(Append(ii, x)) = Len(ii) + 1
        /\ Laid(v, dd \o Block(v, p, n), Append(ii, x))
    BY ONLY <2>1, LaidFlush
  <2> QED BY <2>2 DEF dd, ii
<1> HIDE DEF x, d, i
<1>6. Len(out.data) \in Nat /\ Len(out.index) \in Nat /\ n \in Nat
  BY <1>0, LenProperties DEF Within
<1> DEFINE y == Len(out.data)
           z == Len(out.index)
<1>7. y + n + 1 = p + n + (z + 1)
  <2>1. y \in Nat /\ z \in Nat /\ n \in Nat /\ p = y - z
    BY <1>0, <1>6
  <2> HIDE DEF y, z
  <2> QED BY ONLY <2>1
<1> QED BY <1>0, <1>4, <1>5, <1>7

\* AddEntry keeps LayoutInv.
LEMMA AddEntryLayout ==
    ASSUME LayoutInv, NEW e \in WrittenEntries, AddEntry(e)
    PROVE  LayoutInv'
<1> DEFINE v == Append(written, e)
           b == add_entry(builder, e)
           p == Open
           n == Len(builder.cells)
<1>0. /\ pc = "writing" /\ pc' = "writing" /\ written' = v
      /\ config' = config /\ file' = file /\ cache' = cache /\ fetched' = fetched
  BY DEF AddEntry
<1>1. /\ v \in Seq(WrittenEntries) /\ Len(v) = Len(written) + 1
      /\ n \in Nat /\ p = Len(v) - n /\ p = Len(out.data) - Len(out.index)
      /\ Within(v, p, n + 1) /\ p + (n + 1) = Len(v) + 1
      /\ b.cells = CellsFrom(v, p, n + 1)
      /\ b.cells \in Seq(Cell) /\ Len(b.cells) = n + 1
      /\ b.first = v[p].key /\ b.last = Record(v, Len(v))
      /\ Laid(v, out.data, out.index)
  BY <1>0, AddedEntry
<1>2. out.data \in Seq(Bytes) /\ out.index \in Seq(IndexEntries)
  BY DEF LayoutInv, TypeOK
<1>3. FileInv' /\ CacheInv'
  BY <1>0 DEF LayoutInv, FileInv, CacheInv
<1>4. \/ builder' = EmptyBlock /\ out' = flush_block(out, b)
      \/ builder' = b /\ out' = out
  BY DEF AddEntry
<1> DEFINE m == n + 1
           l == Len(v)
<1>5. m \in Nat /\ m >= 1 /\ p + m = l + 1 /\ l \in Nat
  <2>1. l \in Nat
    BY <1>1, LenProperties
  <2>2. n \in Nat /\ p + (n + 1) = l + 1
    BY <1>1
  <2> HIDE DEF v, b, p, n, l
  <2> QED BY <2>1, <2>2
<1> HIDE DEF v, b, p, n
<1>6. CASE builder' = b /\ out' = out
  <2>1. TypeOK'
    BY <1>0, <1>1, <1>2, <1>6 DEF LayoutInv, TypeOK
  <2>2. Open' = p
    <3>1. Open' = Len(v) - Len(b.cells) + 1
      BY <1>0, <1>6 DEF Open
    <3>2. Len(v) - (n + 1) + 1 = Len(v) - n
      BY <1>1, <1>5
    <3> QED BY <1>1, <3>1, <3>2
  <2>3. WriterInv'
    BY <1>0, <1>1, <1>6, <2>2 DEF WriterInv
  <2> QED BY <1>3, <2>1, <2>3 DEF LayoutInv
<1>7. CASE builder' = EmptyBlock /\ out' = flush_block(out, b)
  <2> DEFINE o == flush_block(out, b)
  <2>1. /\ o.data \in Seq(Bytes) /\ o.index \in Seq(IndexEntries)
        /\ Laid(v, o.data, o.index)
        /\ Len(o.data) = p + m + Len(o.index)
    <3> HIDE DEF m, l
    <3>1. Within(v, p, m) /\ b.cells = CellsFrom(v, p, m)
      BY <1>1 DEF m
    <3>2. Holds(b, v, p, m)
      BY <1>1, <1>2, <1>5, <3>1 DEF Holds
    <3>3. o = flush_block(out, b)
      OBVIOUS
    <3> HIDE DEF o
    <3> QED BY ONLY <3>2, <3>3, Flushed
  <2> HIDE DEF o, m, l
  <2>2. builder'.cells = <<>> /\ out' = o
    BY <1>7 DEF EmptyBlock, o
  <2>3. TypeOK'
    BY <1>0, <1>1, <2>1, <2>2 DEF LayoutInv, TypeOK
  <2>4. Open' = Len(o.data) - Len(o.index)
    <3>1. Open' = l - 0 + 1
      BY <1>0, <2>2 DEF Open, l
    <3> DEFINE y == Len(o.data)
               z == Len(o.index)
    <3>2. y \in Nat /\ z \in Nat /\ y = p + m + z /\ p + m = l + 1 /\ l \in Nat
      BY <1>5, <2>1, LenProperties
    <3>3. l - 0 + 1 = y - z
      <4>1. p + m \in Nat
        BY <3>2
      <4> HIDE DEF y, z
      <4> QED BY ONLY <3>2, <4>1
    <3> QED BY <3>1, <3>3
  <2>5. builder'.cells = CellsFrom(written', Open', Len(builder'.cells))
    <3>1. Len(builder'.cells) = 0 /\ 1..0 = {}
      BY <2>2
    <3> QED BY <2>2, <3>1 DEF CellsFrom
  <2>6. WriterInv'
    BY <1>0, <2>1, <2>2, <2>4, <2>5 DEF WriterInv
  <2> QED BY <1>3, <2>3, <2>6 DEF LayoutInv
<1> QED BY <1>4, <1>6, <1>7

\* Finish keeps LayoutInv.
LEMMA FinishLayout ==
    ASSUME LayoutInv, Finish
    PROVE  LayoutInv'
<1> DEFINE o == IF builder.cells = <<>> THEN out ELSE flush_block(out, builder)
           p == Open
           n == Len(builder.cells)
<1>0. /\ pc = "writing" /\ pc' = "written" /\ written' = written
      /\ config' = config /\ out' = out /\ cache' = cache /\ fetched' = fetched
      /\ builder'.cells = <<>>
      /\ file'.data = o.data /\ file'.index = o.index
      /\ {"data", "index"} \subseteq DOMAIN file'
  BY DEF Finish, Finished, EmptyBlock
<1>1. /\ written \in Seq(WrittenEntries) /\ builder.cells \in Seq(Cell)
      /\ out.data \in Seq(Bytes) /\ out.index \in Seq(IndexEntries)
  BY DEF LayoutInv, TypeOK
<1>2. /\ Laid(written, out.data, out.index)
      /\ p = Len(out.data) - Len(out.index)
      /\ builder.cells = CellsFrom(written, p, n)
      /\ builder.cells # <<>> => builder.first = written[p].key
  BY <1>0 DEF LayoutInv, WriterInv
<1>3. p \in Nat /\ n \in Nat /\ p + n = Len(written) + 1 /\ Within(written, p, n)
  BY <1>0, OpenPlace
<1> HIDE DEF p, n
<1>4. /\ o.data \in Seq(Bytes) /\ o.index \in Seq(IndexEntries)
      /\ Laid(written, o.data, o.index)
      /\ Len(written) + 1 = Len(o.data) - Len(o.index)
  <2>1. CASE builder.cells = <<>>
    <3>1. n = 0
      BY <1>1, <2>1, EmptySeq DEF n
    <3>2. p + 0 = p
      BY <1>3
    <3> QED BY <1>1, <1>2, <1>3, <2>1, <3>1, <3>2
  <2>2. CASE builder.cells # <<>>
    <3>1. n >= 1
      <4>1. n # 0
        BY <1>1, <2>2, EmptySeq DEF n
      <4> QED BY <1>3, <4>1
    <3> DEFINE f == flush_block(out, builder)
    <3>2. o = f
      BY <2>2
    <3>3. /\ f.data \in Seq(Bytes) /\ f.index \in Seq(IndexEntries)
          /\ Laid(written, f.data, f.index)
          /\ Len(f.data) = p + n + Len(f.index)
      <4>1. Holds(builder, written, p, n)
        BY <1>1, <1>2, <1>3, <2>2, <3>1 DEF Holds
      <4>2. f = flush_block(out, builder)
        OBVIOUS
      <4> HIDE DEF f
      <4> QED BY ONLY <4>1, <4>2, Flushed
    <3> DEFINE y == Len(f.data)
               z == Len(f.index)
               l == Len(written)
    <3>4. y \in Nat /\ z \in Nat /\ y = p + n + z /\ p + n = l + 1
      BY <1>3, <3>3, LenProperties
    <3>5. l + 1 = y - z
      <4>1. l \in Nat
        BY <1>1, LenProperties
      <4> HIDE DEF y, z, l
      <4> QED BY ONLY <1>3, <3>4, <4>1
    <3> HIDE DEF f, o
    <3> QED BY <3>2, <3>3, <3>5
  <2> QED BY <2>1, <2>2
<1> HIDE DEF o
<1>5. TypeOK'
  <2>1. builder'.cells \in Seq(Cell)
    BY <1>0
  <2> QED BY <1>0, <1>1, <1>4, <2>1 DEF LayoutInv, TypeOK
<1>6. WriterInv'
  BY <1>0 DEF WriterInv
<1>7. FileInv'
  <2>1. IndexInv(written, o.index, Len(o.data))
        /\ \A b \in 1..Len(o.index) : BytesOf(o.data, o.index, b) = BlockOf(written, o.index, b)
    BY <1>4 DEF Laid
  <2> QED BY <1>0, <1>4, <2>1 DEF FileInv, block_count
<1>8. CacheInv'
  <2>1. cache' = <<>> /\ fetched' = <<>>
    BY <1>0 DEF LayoutInv, CacheInv
  <2>2. DOMAIN cache' = {} /\ DOMAIN fetched' = {}
    BY <2>1
  <2> QED BY <1>0, <2>2 DEF CacheInv, Cached
<1> QED BY <1>5, <1>6, <1>7, <1>8 DEF LayoutInv

\* FinishError keeps LayoutInv.
LEMMA FinishErrorLayout ==
    ASSUME LayoutInv, FinishError
    PROVE  LayoutInv'
<1>1. /\ pc = "writing" /\ pc' = "failed" /\ written' = written /\ builder' = builder
      /\ config' = config /\ out' = out /\ cache' = cache /\ fetched' = fetched
      /\ file' = file
  BY DEF FinishError
<1>2. TypeOK'
  BY <1>1 DEF LayoutInv, TypeOK
<1>3. WriterInv' /\ FileInv' /\ CacheInv'
  BY <1>1 DEF LayoutInv, WriterInv, FileInv, CacheInv
<1> QED BY <1>2, <1>3 DEF LayoutInv

\* Damage keeps LayoutInv: one cell of one block is not what was written.
LEMMA DamageLayout ==
    ASSUME LayoutInv, NEW i \in 2..Len(file.data), Damage(i)
    PROVE  LayoutInv'
<1> DEFINE d == file.data
           d2 == [file.data EXCEPT ![i] = Garbage]
           x == file.index
<1>0. /\ pc = "written" /\ pc' = "written" /\ written' = written /\ builder' = builder
      /\ config' = config /\ out' = out /\ cache' = cache /\ fetched' = fetched
      /\ \A j \in 2..Len(d) : d[j] # Garbage
  BY DEF Damage
<1>1. /\ file'.data = d2 /\ file'.index = x /\ {"data", "index"} \subseteq DOMAIN file'
  <2>1. {"data", "index"} \subseteq DOMAIN file
    BY DEF LayoutInv, TypeOK
  <2>2. file' = [file EXCEPT !.data[i] = Garbage]
    BY DEF Damage
  <2>3. DOMAIN file' = DOMAIN file
    BY <2>2
  <2> QED BY <2>1, <2>2, <2>3
<1>2. /\ written \in Seq(WrittenEntries) /\ d \in Seq(Bytes) /\ x \in Seq(IndexEntries)
      /\ Len(written) \in Nat /\ Len(d) \in Nat /\ Len(x) \in Nat
      /\ IndexInv(written, x, Len(d))
      /\ Len(d) - Len(x) = Len(written) + 1
  BY <1>0, FileFacts
<1>3. i \in 1..Len(d) /\ Garbage \in Bytes
  BY <1>2 DEF Bytes
<1>4. /\ d2 \in Seq(Bytes) /\ Len(d2) = Len(d)
      /\ \A j \in 1..Len(d) : d2[j] = IF j = i THEN Garbage ELSE d[j]
  BY <1>2, <1>3, ExceptSeq
<1> HIDE DEF d, d2, x
<1>5. ASSUME NEW b \in 1..Len(x)
      PROVE  \/ BytesOf(d2, x, b) = BlockOf(written, x, b)
             \/ \E j \in 1..x[b].size :
                   BytesOf(d2, x, b) = [BlockOf(written, x, b) EXCEPT ![j] = Garbage]
  <2> DEFINE o == x[b].offset
             s == x[b].size
             p == FirstOf(x, b)
             bl == BlockOf(written, x, b)
             y == SubSeq(d, o + 1, o + s)
             z == SubSeq(d2, o + 1, o + s)
  <2>1. /\ o \in Nat /\ s \in Nat /\ o >= 1 /\ s >= 2 /\ o + s <= Len(d)
        /\ Within(written, p, s - 1)
    BY <1>0, FileBlock DEF d, x
  <2>2. BytesOf(d, x, b) = y /\ BytesOf(d2, x, b) = z
    BY DEF BytesOf
  <2>3. bl \in Seq(Bytes) /\ Len(bl) = s
    <3> DEFINE m == s - 1
    <3>1. m \in Nat /\ m + 1 = s
      BY <2>1
    <3>2. bl = Block(written, p, m) /\ Within(written, p, m)
      BY <2>1 DEF BlockOf
    <3> HIDE DEF bl, m, s, p
    <3>3. bl \in Seq(Bytes) /\ Len(bl) = m + 1
      BY <1>2, <3>2, BlockType
    <3> QED BY <3>1, <3>3
  <2>4. \/ y = bl
        \/ \E j \in 1..s : y = [bl EXCEPT ![j] = Garbage]
    <3>1. \/ BytesOf(d, x, b) = bl
          \/ \E j \in 1..s : BytesOf(d, x, b) = [bl EXCEPT ![j] = Garbage]
      BY <1>0 DEF LayoutInv, FileInv, d, x, block_count
    <3> QED BY <2>2, <3>1
  <2> HIDE DEF o, s, bl
  <2>5. y \in Seq(Bytes) /\ Len(y) = s /\ \A j \in 1..s : y[j] = d[o + j]
    BY <1>2, <2>1, Piece
  <2>6. z \in Seq(Bytes) /\ Len(z) = s /\ \A j \in 1..s : z[j] = d2[o + j]
    <3>1. o + s <= Len(d2) /\ d2 \in Seq(Bytes) /\ o \in Nat /\ s \in Nat
      BY <1>4, <2>1
    <3> QED BY ONLY <3>1, Piece
  <2>7. \A j \in 1..s : o + j \in 1..Len(d) /\ o + j \in 2..Len(d)
    BY <1>2, <2>1
  <2> HIDE DEF y, z
  <2>8. y = bl
    <3> SUFFICES ASSUME NEW j \in 1..s, y = [bl EXCEPT ![j] = Garbage] PROVE FALSE
      BY <2>4
    <3>1. j \in 1..Len(bl) /\ Garbage \in Bytes
      BY <1>3, <2>3
    <3>2. y[j] = Garbage
      BY <2>3, <3>1, ExceptSeq
    <3> QED BY <1>0, <2>5, <2>7, <3>2
  <2>9. CASE \E k \in 1..s : i = o + k
    <3>1. PICK k \in 1..s : i = o + k
      BY <2>9
    <3> DEFINE e == [bl EXCEPT ![k] = Garbage]
    <3>2. e \in Seq(Bytes) /\ Len(e) = s /\ \A j \in 1..s : e[j] = IF j = k THEN Garbage ELSE bl[j]
      <4>1. k \in 1..Len(bl)
        BY <2>3
      <4>2. e \in Seq(Bytes) /\ Len(e) = Len(bl)
            /\ \A j \in 1..Len(bl) : e[j] = IF j = k THEN Garbage ELSE bl[j]
        BY <1>3, <2>3, <4>1, ExceptSeq
      <4> QED BY <2>3, <4>2
    <3> HIDE DEF e
    <3>3. ASSUME NEW j \in 1..s PROVE z[j] = e[j]
      <4>1. (o + j = i) <=> (j = k)
        BY <2>1, <3>1
      <4>2. z[j] = IF j = k THEN Garbage ELSE d[o + j]
        BY <1>4, <2>6, <2>7, <4>1
      <4> QED BY <2>5, <2>8, <3>2, <4>2
    <3>4. z = e
      BY <2>6, <3>2, <3>3, SeqEqual
    <3> QED BY <2>2, <3>4 DEF e, bl, s, z
  <2>10. CASE ~ \E k \in 1..s : i = o + k
    <3>1. \A j \in 1..s : z[j] = y[j]
      BY <1>4, <2>5, <2>6, <2>7, <2>10
    <3>2. z = y
      BY <2>5, <2>6, <3>1, SeqEqual
    <3> QED BY <2>2, <2>8, <3>2 DEF bl, y, z
  <2> QED BY <2>9, <2>10
<1>6. TypeOK'
  BY <1>0, <1>1, <1>2, <1>4 DEF LayoutInv, TypeOK
<1>7. WriterInv'
  BY <1>0 DEF WriterInv
<1>8. FileInv'
  BY <1>0, <1>1, <1>2, <1>4, <1>5 DEF FileInv, block_count
<1>9. CacheInv'
  <2>1. CacheInv
    BY DEF LayoutInv
  <2> QED BY <1>0, <1>1, <2>1 DEF CacheInv, Cached, OwnEntries, block_count, x
<1> QED BY <1>6, <1>7, <1>8, <1>9 DEF LayoutInv

\* FetchBlocks keeps LayoutInv.
LEMMA FetchBlocksLayout ==
    ASSUME LayoutInv, NEW asked \in SUBSET (1..block_count), FetchBlocks(asked)
    PROVE  LayoutInv'
<1> DEFINE x == file.index
           S == {b \in asked : ~Cached(b)}
<1>0. /\ pc = "written" /\ pc' = "written" /\ written' = written /\ builder' = builder
      /\ config' = config /\ out' = out /\ file' = file
  BY DEF FetchBlocks
<1>1. PICK u \in Sorted(S) :
        LET bad == {i \in 1..Len(u) : Coalesced(u, i) = Error}
            good == {i \in 1..Len(u) : \A j \in bad : i < j}
            Offset(i) == file.index[u[i]].offset
            IndexOf(o) == CHOOSE i \in good : Offset(i) = o
        IN  /\ cache' = [o \in DOMAIN cache \cup {Offset(i) : i \in good} |->
                            IF o \in DOMAIN cache THEN cache[o]
                            ELSE Coalesced(u, IndexOf(o))]
            /\ fetched' = IF bad # {} THEN <<>>
                          ELSE [b \in asked |-> cache'[file.index[b].offset]]
  BY DEF FetchBlocks
<1> DEFINE bad == {i \in 1..Len(u) : Coalesced(u, i) = Error}
           good == {i \in 1..Len(u) : \A j \in bad : i < j}
           Offset(i) == file.index[u[i]].offset
           IndexOf(o) == CHOOSE i \in good : Offset(i) = o
           O == {Offset(i) : i \in good}
<1>2. /\ cache' = [o \in DOMAIN cache \cup O |->
                      IF o \in DOMAIN cache THEN cache[o] ELSE Coalesced(u, IndexOf(o))]
      /\ fetched' = IF bad # {} THEN <<>>
                    ELSE [b \in asked |-> cache'[file.index[b].offset]]
  BY <1>1
<1>3. /\ block_count = Len(x) /\ Len(x) \in Nat /\ x \in Seq(IndexEntries)
      /\ IndexInv(written, x, Len(file.data))
  BY <1>0, FileFacts
<1>4. S \in SUBSET (1..Len(x)) /\ asked \subseteq 1..Len(x)
  BY <1>3
<1>5. /\ Len(u) \in Nat
      /\ \A i \in 1..Len(u) : u[i] \in S /\ u[i] \in 1..Len(x)
      /\ \A b \in S : \E i \in 1..Len(u) : u[i] = b
  <2> HIDE DEF S, x, bad, good, Offset, IndexOf, O
  <2>1. /\ Len(u) \in Nat /\ DOMAIN u = 1..Len(u)
        /\ \A i \in 1..Len(u) : u[i] \in S /\ u[i] \in 1..Len(x)
        /\ \A i, j \in 1..Len(u) : i < j => u[i] < u[j]
        /\ \A b \in S : \E i \in 1..Len(u) : u[i] = b
    BY ONLY <1>1, <1>3, <1>4, SortedBlocks
  <2> QED BY <2>1
<1>6. \A i \in good : i \in 1..Len(u) /\ Coalesced(u, i) = OwnEntries(u[i])
  <2> SUFFICES ASSUME NEW i \in good PROVE i \in 1..Len(u) /\ Coalesced(u, i) = OwnEntries(u[i])
    OBVIOUS
  <2>1. i \in 1..Len(u) /\ \A j \in bad : i < j
    OBVIOUS
  <2>2. i \notin bad
    <3>1. ~(i < i)
      BY <1>5, <2>1
    <3> QED BY <2>1, <3>1
  <2>3. Coalesced(u, i) # Error
    BY <2>1, <2>2
  <2> HIDE DEF S, bad, good, Offset, IndexOf, O
  <2>4. Coalesced(u, i) = Stored(u[i])
    BY <1>0, <1>4, <2>1, CoalescedIsStored DEF x
  <2>5. Stored(u[i]) = OwnEntries(u[i]) \/ Stored(u[i]) = Error
    BY <1>0, <1>5, <2>1, StoredBlock DEF x
  <2> QED BY <2>1, <2>3, <2>4, <2>5
<1> HIDE DEF S
<1>7. ASSUME NEW b \in 1..Len(x), x[b].offset \in DOMAIN cache'
      PROVE  cache'[x[b].offset] = OwnEntries(b)
  <2> DEFINE o == x[b].offset
  <2>1. o \in DOMAIN cache \cup O
    BY <1>2, <1>7
  <2>2. CASE o \in DOMAIN cache
    <3>1. cache'[o] = cache[o]
      BY <1>2, <2>1, <2>2
    <3>2. cache[o] = OwnEntries(b)
      BY <1>0, <1>3, <2>2 DEF LayoutInv, CacheInv, Cached
    <3> QED BY <3>1, <3>2
  <2>3. CASE o \notin DOMAIN cache
    <3>1. cache'[o] = Coalesced(u, IndexOf(o))
      BY <1>2, <2>1, <2>3
    <3>2. \E i \in good : Offset(i) = o
      BY <2>1, <2>3
    <3>3. IndexOf(o) \in good /\ Offset(IndexOf(o)) = o
      BY <3>2
    <3> DEFINE i == IndexOf(o)
    <3> HIDE DEF i, good
    <3>4. i \in 1..Len(u) /\ Coalesced(u, i) = OwnEntries(u[i]) /\ x[u[i]].offset = x[b].offset
      BY <1>6, <3>3 DEF i
    <3>5. u[i] \in 1..Len(x)
      BY <1>5, <3>4
    <3>6. u[i] = b
      <4> HIDE DEF x
      <4> QED BY <1>3, <1>7, <3>4, <3>5, OffsetsDiffer
    <3> QED BY <3>1, <3>4, <3>6 DEF i
  <2> QED BY <2>2, <2>3
<1>8. DOMAIN cache' \subseteq {x[b].offset : b \in 1..Len(x)}
  <2>1. DOMAIN cache \subseteq {x[b].offset : b \in 1..Len(x)}
    BY <1>0, <1>3 DEF LayoutInv, CacheInv
  <2>2. O \subseteq {x[b].offset : b \in 1..Len(x)}
    BY <1>5
  <2> HIDE DEF O
  <2> QED BY <1>2, <2>1, <2>2
<1>9. DOMAIN fetched' \subseteq 1..Len(x) /\ \A b \in DOMAIN fetched' : fetched'[b] = OwnEntries(b)
  <2>1. CASE bad # {}
    <3>1. fetched' = <<>>
      BY <1>2, <2>1
    <3> QED BY <3>1
  <2>2. CASE bad = {}
    <3>1. fetched' = [b \in asked |-> cache'[x[b].offset]]
      BY <1>2, <2>2
    <3>2. good = 1..Len(u)
      BY <2>2
    <3>3. ASSUME NEW b \in asked PROVE x[b].offset \in DOMAIN cache'
      <4>1. CASE Cached(b)
        BY <1>2, <4>1 DEF Cached
      <4>2. CASE ~Cached(b)
        <5>1. b \in S
          BY <4>2 DEF S
        <5>2. PICK i \in 1..Len(u) : u[i] = b
          BY <1>5, <5>1
        <5>3. Offset(i) \in O
          BY <3>2
        <5> HIDE DEF O
        <5> QED BY <1>2, <5>2, <5>3
      <4> QED BY <4>1, <4>2
    <3> HIDE DEF x
    <3>4. \A b \in asked : b \in 1..Len(x) /\ cache'[x[b].offset] = OwnEntries(b)
      BY <1>4, <1>7, <3>3
    <3> QED BY <1>4, <3>1, <3>4
  <2> QED BY <2>1, <2>2
<1> HIDE DEF bad, good, Offset, IndexOf, O
<1>10. TypeOK'
  BY <1>0 DEF LayoutInv, TypeOK
<1>11. WriterInv'
  BY <1>0 DEF WriterInv
<1>12. FileInv'
  BY <1>0 DEF LayoutInv, FileInv, block_count
<1>13. CacheInv'
  BY <1>0, <1>3, <1>7, <1>8, <1>9 DEF CacheInv, Cached, OwnEntries, block_count
<1> QED BY <1>10, <1>11, <1>12, <1>13 DEF LayoutInv

-----------------------------------------------------------------------------
(* The theorems *)

\* Every step keeps LayoutInv.
LEMMA NextLayout ==
    ASSUME LayoutInv, [Next]_vars
    PROVE  LayoutInv'
<1>1. CASE \E k \in Keys, s \in Seqs : AddEntry([key |-> k, seq |-> s, token |-> Token(k, s)])
  <2>1. PICK k \in Keys, s \in Seqs : AddEntry([key |-> k, seq |-> s, token |-> Token(k, s)])
    BY <1>1
  <2> DEFINE e == [key |-> k, seq |-> s, token |-> Token(k, s)]
  <2>2. e \in WrittenEntries
    BY NewEntry
  <2>3. AddEntry(e)
    BY <2>1
  <2> HIDE DEF e
  <2> QED BY <2>2, <2>3, AddEntryLayout
<1>2. CASE Finish
  BY <1>2, FinishLayout
<1>3. CASE FinishError
  BY <1>3, FinishErrorLayout
<1>4. CASE \E i \in 2..Len(file.data) : Damage(i)
  BY <1>4, DamageLayout
<1>5. CASE \E asked \in SUBSET (1..block_count) : FetchBlocks(asked)
  BY <1>5, FetchBlocksLayout
<1>6. CASE UNCHANGED vars
  <2>1. /\ config' = config /\ written' = written /\ builder' = builder /\ out' = out
        /\ pc' = pc /\ file' = file /\ cache' = cache /\ fetched' = fetched
    BY <1>6 DEF vars
  <2>2. TypeOK'
    BY <2>1 DEF LayoutInv, TypeOK
  <2>3. WriterInv'
    BY <2>1 DEF LayoutInv, WriterInv, Open
  <2>4. FileInv'
    BY <2>1 DEF LayoutInv, FileInv, block_count
  <2>5. CacheInv'
    BY <2>1 DEF LayoutInv, CacheInv, Cached, OwnEntries, block_count
  <2> QED BY <2>2, <2>3, <2>4, <2>5 DEF LayoutInv
<1> QED BY <1>1, <1>2, <1>3, <1>4, <1>5, <1>6 DEF Next

\* The blocks of the file lie one after the other as the index says, whole
\* except perhaps for one damaged cell, and what the cache and the last fetch
\* hold of a block are the entries written to it.
THEOREM LayoutInvariant == Spec => []LayoutInv
<1>1. Init => LayoutInv
  BY InitLayout
<1>2. LayoutInv /\ [Next]_vars => LayoutInv'
  BY NextLayout
<1> QED BY <1>1, <1>2, PTL DEF Spec

\* LayoutInv places the entries of a block where FetchedAsWritten counts them.
LEMMA LayoutFetched ==
    ASSUME LayoutInv
    PROVE  FetchedAsWritten
<1> SUFFICES ASSUME pc = "written" PROVE FetchedAsWritten
  BY DEF FetchedAsWritten
<1> DEFINE x == file.index
           D == 1..block_count
           F(g) == [b \in D |-> IF b = 1 THEN 1 ELSE g[b - 1] + x[b - 1].size - 1]
           starts == CHOOSE g : g = F(g)
           Own(b) == SubSeq(Entries, starts[b], starts[b] + x[b].size - 2)
           h == [b \in D |-> FirstOf(x, b)]
<1>1. /\ block_count = Len(x) /\ Len(x) \in Nat /\ x \in Seq(IndexEntries)
      /\ IndexInv(written, x, Len(file.data))
      /\ written \in Seq(WrittenEntries) /\ Len(written) \in Nat
  BY FileFacts
<1>2. ASSUME NEW b \in D
      PROVE  FirstOf(x, b) = IF b = 1 THEN 1 ELSE FirstOf(x, b - 1) + x[b - 1].size - 1
  BY <1>1, FirstNext
<1>3. ASSUME NEW b \in D, b # 1 PROVE b - 1 \in D /\ b - 1 < b /\ b \in Nat
  BY <1>1, <1>3
<1>4. h = F(h)
  <2>1. ASSUME NEW b \in D
        PROVE  FirstOf(x, b) = IF b = 1 THEN 1 ELSE h[b - 1] + x[b - 1].size - 1
    <3>1. CASE b = 1
      BY <1>2, <3>1
    <3>2. CASE b # 1
      <4>1. b - 1 \in D
        BY <1>3, <3>2
      <4>2. h[b - 1] = FirstOf(x, b - 1)
        BY <4>1
      <4> HIDE DEF h, D
      <4> QED BY <1>2, <3>2, <4>2
    <3> QED BY <3>1, <3>2
  <2>2. h = [b \in D |-> IF b = 1 THEN 1 ELSE h[b - 1] + x[b - 1].size - 1]
    <3> DEFINE G(b) == IF b = 1 THEN 1 ELSE h[b - 1] + x[b - 1].size - 1
    <3>1. \A b \in D : FirstOf(x, b) = G(b)
      BY <2>1
    <3> HIDE DEF G
    <3>2. h = [b \in D |-> G(b)]
      BY <3>1
    <3> QED BY <3>2 DEF G
  <2> QED BY <2>2
<1>5. starts = F(starts)
  <2>1. \E g : g = F(g)
    BY <1>4
  <2> HIDE DEF F
  <2> QED BY <2>1
<1>6. \A b \in D : starts[b] = IF b = 1 THEN 1 ELSE starts[b - 1] + x[b - 1].size - 1
  <2> HIDE DEF starts
  <2> QED BY <1>5
<1> HIDE DEF starts, h, F
<1>7. \A b \in D : starts[b] = FirstOf(x, b)
  <2> DEFINE Bad == {b \in D : starts[b] # FirstOf(x, b)}
  <2> SUFFICES ASSUME Bad # {} PROVE FALSE
    OBVIOUS
  <2>1. Bad \subseteq Nat
    BY <1>1
  <2>2. PICK b \in Bad : \A c \in Bad : b <= c
    BY <2>1, LeastNumber
  <2>3. b \in D /\ starts[b] # FirstOf(x, b)
    BY <2>2
  <2>4. b # 1
    BY <1>2, <1>6, <2>3
  <2>5. b - 1 \in D /\ b \in Nat /\ ~(b <= b - 1)
    BY <1>3, <2>3, <2>4
  <2>6. b - 1 \notin Bad
    BY <2>2, <2>5
  <2>7. starts[b - 1] = FirstOf(x, b - 1)
    BY <2>5, <2>6
  <2> HIDE DEF D, Bad
  <2> QED BY <1>2, <1>6, <2>3, <2>4, <2>7
<1>8. ASSUME NEW b \in D PROVE Own(b) = OwnEntries(b)
  <2> DEFINE p == FirstOf(x, b)
             s == x[b].size
             n == s - 1
             T == [key : Keys, seq : Seqs]
             y == EntriesFrom(written, p, n)
  <2>1. Within(written, p, n) /\ s \in Nat /\ n >= 1
    BY <1>1, FileBlock
  <2>2. Own(b) = SubSeq(Entries, p, p + s - 2) /\ OwnEntries(b) = y
    BY <1>7 DEF OwnEntries
  <2> HIDE DEF p, s
  <2>3. p \in Nat /\ p >= 1 /\ n \in Nat /\ p + n <= Len(written) + 1
    BY <2>1 DEF Within
  <2> DEFINE q == p - 1
  <2>4. q \in Nat /\ q + 1 = p /\ q + n = p + s - 2 /\ q + n <= Len(written)
    BY <1>1, <2>1, <2>3
  <2> HIDE DEF n, q
  <2>5. Entries \in Seq(T) /\ Len(Entries) = Len(written)
        /\ \A j \in 1..Len(written) : Entries[j] = Entry(written[j])
    <3>1. \A j \in 1..Len(written) : Entry(written[j]) \in T
      BY <1>1, WrittenEntry DEF Entry
    <3>2. Entries \in [1..Len(written) -> T]
      BY <3>1 DEF Entries
    <3>3. Entries \in Seq(T) /\ Len(Entries) = Len(written)
      <4> HIDE DEF T
      <4> QED BY ONLY <1>1, <3>2
    <3> QED BY <3>3 DEF Entries
  <2>6. y \in Seq(T) /\ Len(y) = n /\ \A j \in 1..n : y[j] = Entry(written[p + j - 1])
    <3>1. ASSUME NEW j \in 1..n PROVE Entry(written[p + j - 1]) \in T
      <4>1. p + j - 1 \in 1..Len(written)
        BY <1>1, <2>3
      <4> HIDE DEF T
      <4>2. Entries[p + j - 1] \in T
        BY ONLY <2>5, <4>1, ElementOfSeq
      <4> QED BY ONLY <2>5, <4>1, <4>2
    <3>2. y \in [1..n -> T]
      BY <3>1 DEF EntriesFrom
    <3>3. y \in Seq(T) /\ Len(y) = n
      <4> HIDE DEF T, y
      <4> QED BY ONLY <2>3, <3>2
    <3> QED BY <3>3 DEF EntriesFrom
  <2> DEFINE z == SubSeq(Entries, q + 1, q + n)
  <2> HIDE DEF T
  <2>7. z \in Seq(T) /\ Len(z) = n /\ \A j \in 1..n : z[j] = Entries[q + j]
    <3>1. Entries \in Seq(T) /\ q \in Nat /\ n \in Nat /\ q + n <= Len(Entries)
      BY <2>3, <2>4, <2>5
    <3> QED BY ONLY <3>1, Piece
  <2>8. ASSUME NEW j \in 1..n PROVE z[j] = y[j]
    <3>1. q + j \in 1..Len(written) /\ q + j = p + j - 1
      BY <1>1, <2>3, <2>4
    <3> HIDE DEF y, z
    <3> QED BY <2>5, <2>6, <2>7, <3>1
  <2>9. z = y
    <3> HIDE DEF y, z
    <3> QED BY <2>6, <2>7, <2>8, SeqEqual
  <2> HIDE DEF Own
  <2>10. SubSeq(Entries, p, p + s - 2) = z
    BY <2>4
  <2> QED BY <2>2, <2>9, <2>10
<1>9. /\ \A b \in 1..block_count : file.index[b].offset \in DOMAIN cache =>
            cache[file.index[b].offset] = Own(b)
      /\ \A b \in DOMAIN fetched : fetched[b] = Own(b)
  <2>1. /\ DOMAIN fetched \subseteq D
        /\ \A b \in D : file.index[b].offset \in DOMAIN cache =>
              cache[file.index[b].offset] = OwnEntries(b)
        /\ \A b \in DOMAIN fetched : fetched[b] = OwnEntries(b)
    BY DEF LayoutInv, CacheInv, Cached
  <2> HIDE DEF Own
  <2> QED BY <1>8, <2>1
<1> QED BY <1>9 DEF FetchedAsWritten, starts, F

\* What a coalesced fetch returns, and what any fetch leaves in the cache, are
\* the block's own entries as they were written, or an error: never another
\* block's, and never what damage left.
THEOREM FetchesReturnWhatWasWritten == Spec => []FetchedAsWritten
<1>1. LayoutInv => FetchedAsWritten
  BY LayoutFetched
<1> QED BY <1>1, LayoutInvariant, PTL

-----------------------------------------------------------------------------
(* The order of byte strings *)

Strings == Seq(0..255)

\* The bytes of a string.
LEMMA ByteAt ==
    ASSUME NEW a \in Strings, NEW i \in 1..Len(a)
    PROVE  a[i] \in 0..255 /\ a[i] \in Int /\ a[i] >= 0 /\ Len(a) \in Nat
<1>1. a[i] \in 0..255
  BY ElementOfSeq DEF Strings
<1>2. Len(a) \in Nat
  BY LenProperties DEF Strings
<1> DEFINE x == a[i]
<1>3. x \in Int /\ x >= 0
  <2>1. x \in 0..255
    BY <1>1
  <2> HIDE DEF x
  <2> QED BY ONLY <2>1
<1> QED BY <1>1, <1>2, <1>3

\* Where one string is below another.
LEMMA BelowAt ==
    ASSUME NEW a \in Strings, NEW b \in Strings, Below(a, b)
    PROVE  \E i \in 1..Len(b) : /\ i <= Len(a) + 1
                                /\ \A j \in 1..(i - 1) : a[j] = b[j]
                                /\ i <= Len(a) => a[i] < b[i]
  BY DEF Below

\* No string is below itself.
LEMMA BelowIrreflexive ==
    ASSUME NEW a \in Strings
    PROVE  ~Below(a, a)
<1> SUFFICES ASSUME Below(a, a) PROVE FALSE
  OBVIOUS
<1>1. PICK i \in 1..Len(a) : i <= Len(a) => a[i] < a[i]
  BY DEF Below
<1>2. a[i] \in Int /\ Len(a) \in Nat
  BY ByteAt
<1>3. a[i] < a[i]
  BY <1>1, <1>2
<1> DEFINE x == a[i]
<1>4. x \in Int /\ x < x
  BY <1>2, <1>3
<1> HIDE DEF x
<1> QED BY <1>4

\* The order of strings is transitive.
LEMMA BelowTransitive ==
    ASSUME NEW a \in Strings, NEW b \in Strings, NEW c \in Strings, Below(a, b), Below(b, c)
    PROVE  Below(a, c)
<1>0. Len(a) \in Nat /\ Len(b) \in Nat /\ Len(c) \in Nat
  BY LenProperties DEF Strings
<1>1. PICK i \in 1..Len(b) : /\ i <= Len(a) + 1
                             /\ \A j \in 1..(i - 1) : a[j] = b[j]
                             /\ i <= Len(a) => a[i] < b[i]
  BY BelowAt
<1>2. PICK k \in 1..Len(c) : /\ k <= Len(b) + 1
                             /\ \A j \in 1..(k - 1) : b[j] = c[j]
                             /\ k <= Len(b) => b[k] < c[k]
  BY BelowAt
<1>3. i \in Nat /\ k \in Nat /\ i >= 1 /\ k >= 1 /\ i <= Len(b) /\ k <= Len(c)
  BY <1>0
<1> DEFINE At(n) == /\ n \in 1..Len(c) /\ n <= Len(a) + 1
                    /\ \A j \in 1..(n - 1) : a[j] = c[j]
                    /\ n <= Len(a) => a[n] < c[n]
<1>4. CASE i < k
  <2>1. i \in 1..(k - 1) /\ i \in 1..Len(c)
    BY <1>0, <1>3, <1>4
  <2>2. \A j \in 1..(i - 1) : a[j] = c[j]
    <3> TAKE j \in 1..(i - 1)
    <3>1. j \in 1..(k - 1)
      BY <1>3, <1>4
    <3> QED BY <1>1, <1>2, <3>1
  <2>3. i <= Len(a) => a[i] < c[i]
    <3>1. b[i] = c[i]
      BY <1>2, <2>1
    <3> QED BY <1>1, <3>1
  <2>4. At(i)
    BY <1>1, <2>1, <2>2, <2>3
  <2> QED BY <2>4 DEF Below
<1>5. CASE k < i
  <2>1. k \in 1..(i - 1) /\ k <= Len(a) + 1 /\ k <= Len(b)
    BY <1>0, <1>1, <1>3, <1>5
  <2>2. \A j \in 1..(k - 1) : a[j] = c[j]
    <3> TAKE j \in 1..(k - 1)
    <3>1. j \in 1..(i - 1)
      BY <1>3, <1>5
    <3> QED BY <1>1, <1>2, <3>1
  <2>3. a[k] < c[k]
    <3>1. a[k] = b[k]
      BY <1>1, <2>1
    <3> QED BY <1>2, <2>1, <3>1
  <2>4. At(k)
    BY <2>1, <2>2, <2>3
  <2> QED BY <2>4 DEF Below
<1>6. CASE i = k
  <2>1. \A j \in 1..(i - 1) : a[j] = c[j]
    <3> TAKE j \in 1..(i - 1)
    <3>1. j \in 1..(k - 1)
      BY <1>6
    <3> QED BY <1>1, <1>2, <3>1
  <2>2. i <= Len(a) => a[i] < c[i]
    <3> SUFFICES ASSUME i <= Len(a) PROVE a[i] < c[i]
      OBVIOUS
    <3>1. i \in 1..Len(a) /\ i \in 1..Len(b) /\ i \in 1..Len(c)
      BY <1>0, <1>3, <1>6
    <3> DEFINE x == a[i]
               y == b[i]
               z == c[i]
    <3>2. x \in Int /\ y \in Int /\ z \in Int
      BY <3>1, ByteAt
    <3>3. x < y /\ y < z
      BY <1>1, <1>2, <1>3, <1>6
    <3>4. x < z
      <4> HIDE DEF x, y, z
      <4> QED BY <3>2, <3>3
    <3> QED BY <3>4
  <2>3. At(i)
    BY <1>1, <1>3, <1>6, <2>1, <2>2
  <2> QED BY <2>3 DEF Below
<1> QED BY <1>3, <1>4, <1>5, <1>6

\* A key and its successor are not in the opposite order.
LEMMA BelowAsymmetric ==
    ASSUME NEW a \in Strings, NEW b \in Strings, Below(a, b)
    PROVE  ~AtMost(b, a)
<1> SUFFICES ASSUME AtMost(b, a) PROVE FALSE
  OBVIOUS
<1>1. CASE b = a
  BY <1>1, BelowIrreflexive
<1>2. CASE Below(b, a)
  BY <1>2, BelowTransitive, BelowIrreflexive
<1> QED BY <1>1, <1>2 DEF AtMost

\* Truncating two keys keeps their order.
LEMMA TruncateOrder ==
    ASSUME NEW a \in Strings, NEW b \in Strings, AtMost(a, b)
    PROVE  AtMost(truncate_key(a), truncate_key(b))
<1> DEFINE s == truncate_key(a)
           t == truncate_key(b)
           K == KeyPrefix
           Bad == {j \in 1..K : s[j] # t[j]}
<1>0. Len(a) \in Nat /\ Len(b) \in Nat /\ K \in Nat
  BY LenProperties, SSTableAssumption DEF Strings
<1>1. \A j \in 1..K : /\ s[j] = IF j <= Len(a) THEN a[j] ELSE 0
                      /\ t[j] = IF j <= Len(b) THEN b[j] ELSE 0
  BY DEF truncate_key
<1>2. ASSUME NEW j \in 1..K PROVE s[j] \in Int /\ t[j] \in Int /\ s[j] >= 0 /\ t[j] >= 0
  <2>1. j <= Len(a) => a[j] \in Int /\ a[j] >= 0
    <3>1. j <= Len(a) => j \in 1..Len(a)
      BY <1>0
    <3> QED BY <3>1, ByteAt
  <2>2. j <= Len(b) => b[j] \in Int /\ b[j] >= 0
    <3>1. j <= Len(b) => j \in 1..Len(b)
      BY <1>0
    <3> QED BY <3>1, ByteAt
  <2>3. s[j] \in Int /\ s[j] >= 0
    <3>1. CASE j <= Len(a)
      <4>1. s[j] = a[j]
        BY <1>1, <3>1
      <4> HIDE DEF s
      <4> QED BY <2>1, <3>1, <4>1
    <3>2. CASE ~(j <= Len(a))
      <4>1. s[j] = 0
        BY <1>1, <3>2
      <4> HIDE DEF s
      <4> QED BY <4>1
    <3> QED BY <3>1, <3>2
  <2>4. t[j] \in Int /\ t[j] >= 0
    <3>1. CASE j <= Len(b)
      <4>1. t[j] = b[j]
        BY <1>1, <3>1
      <4> HIDE DEF t
      <4> QED BY <2>2, <3>1, <4>1
    <3>2. CASE ~(j <= Len(b))
      <4>1. t[j] = 0
        BY <1>1, <3>2
      <4> HIDE DEF t
      <4> QED BY <4>1
    <3> QED BY <3>1, <3>2
  <2> QED BY <2>3, <2>4
<1>3. CASE Bad = {}
  <2>1. s = t
    BY <1>3 DEF truncate_key
  <2> QED BY <2>1 DEF AtMost
<1>4. CASE Bad # {}
  <2>1. a # b
    BY <1>4
  <2>2. PICK i \in 1..Len(b) : /\ i <= Len(a) + 1
                               /\ \A j \in 1..(i - 1) : a[j] = b[j]
                               /\ i <= Len(a) => a[i] < b[i]
    BY <2>1, BelowAt DEF AtMost
  <2>3. Bad \subseteq Nat
    BY <1>0
  <2>4. PICK j \in Bad : \A x \in Bad : j <= x
    BY <1>4, <2>3, LeastNumber
  <2>5. j \in 1..K /\ s[j] # t[j]
    BY <2>4
  <2>6. \A x \in 1..(j - 1) : s[x] = t[x]
    <3> SUFFICES ASSUME NEW x \in 1..(j - 1), s[x] # t[x] PROVE FALSE
      OBVIOUS
    <3>1. x \in 1..K /\ ~(j <= x)
      BY <1>0, <2>5
    <3> QED BY <2>4, <3>1
  <2> HIDE DEF Bad, s, t
  <2>7. i \in Nat /\ j \in Nat /\ i >= 1 /\ j >= 1 /\ i <= Len(b) /\ j <= K
    BY <1>0, <2>5
  <2>8. s[j] < t[j]
    <3>1. CASE j < i
      <4>1. j \in 1..(i - 1) /\ j <= Len(a) /\ j <= Len(b)
        BY <1>0, <2>2, <2>7, <3>1
      <4>2. s[j] = a[j] /\ t[j] = b[j] /\ a[j] = b[j]
        BY <1>1, <2>2, <2>5, <4>1
      <4> QED BY <2>5, <4>2
    <3>2. CASE j >= i /\ i <= Len(a)
      <4>1. i \in 1..K /\ i <= Len(b) /\ i \in 1..Len(a) /\ i \in 1..Len(b)
        BY <1>0, <2>7, <3>2
      <4>2. s[i] = a[i] /\ t[i] = b[i] /\ a[i] < b[i]
        BY <1>1, <2>2, <3>2, <4>1
      <4>3. a[i] \in Int /\ b[i] \in Int
        BY <4>1, ByteAt
      <4>4. s[i] # t[i]
        <5> DEFINE x == a[i]
                   y == b[i]
        <5>1. x \in Int /\ y \in Int /\ x < y
          BY <4>2, <4>3
        <5>2. x # y
          <6> HIDE DEF x, y
          <6> QED BY <5>1
        <5> QED BY <4>2, <5>2
      <4>5. j = i
        <5>1. ~(i \in 1..(j - 1))
          BY <2>6, <4>4
        <5> QED BY <2>7, <3>2, <5>1
      <4> QED BY <4>2, <4>5
    <3>3. CASE j >= i /\ ~(i <= Len(a))
      <4>1. ~(j <= Len(a))
        BY <1>0, <2>2, <2>7, <3>3
      <4>2. s[j] = 0
        BY <1>1, <2>5, <4>1
      <4>3. t[j] \in Int /\ t[j] >= 0 /\ t[j] # 0
        BY <1>2, <2>5, <4>2
      <4> QED BY <4>2, <4>3
    <3> QED BY <2>7, <3>1, <3>2, <3>3
  <2>9. Len(s) = K /\ Len(t) = K
    BY <1>0 DEF s, t, truncate_key
  <2>10. /\ j \in 1..Len(t) /\ j <= Len(s) + 1
         /\ \A x \in 1..(j - 1) : s[x] = t[x]
         /\ j <= Len(s) => s[j] < t[j]
    BY <1>0, <2>5, <2>6, <2>7, <2>8, <2>9
  <2>11. Below(s, t)
    BY <2>10 DEF Below
  <2> QED BY <2>11 DEF AtMost, s, t
<1> QED BY <1>3, <1>4

-----------------------------------------------------------------------------
(* The order of the entries, and the filters *)

\* The keys that were written are byte strings.
LEMMA WrittenKey ==
    ASSUME NEW w \in Seq(WrittenEntries), NEW p \in 1..Len(w)
    PROVE  w[p].key \in Strings /\ w[p].key \in Keys /\ w[p].seq \in Nat
<1>1. w[p].key \in Keys /\ w[p].seq \in Seqs
  BY WrittenEntry
<1> QED BY <1>1, KeyOf, SSTableAssumption DEF Strings

\* An entry that follows the last one leaves the entries in order.
LEMMA OrderedEntry ==
    ASSUME NEW w \in Seq(WrittenEntries), NEW e \in WrittenEntries, InOrder(w),
           w # <<>> => \/ Below(Last(w).key, e.key)
                       \/ Last(w).key = e.key /\ e.seq < Last(w).seq
    PROVE  InOrder(Append(w, e))
<1> DEFINE v == Append(w, e)
           l == Len(w)
           Ord(x, y) == Below(x.key, y.key) \/ (x.key = y.key /\ y.seq < x.seq)
<1>0. l \in Nat
  BY LenProperties
<1>1. v \in Seq(WrittenEntries) /\ Len(v) = l + 1 /\ v[l + 1] = e /\ \A q \in 1..l : v[q] = w[q]
  BY AppendProperties
<1>2. \A i, j \in 1..l : i < j => Ord(w[i], w[j])
  <2>1. InOrder(w)
    OBVIOUS
  <2> QED BY ONLY <2>1 DEF InOrder, Ord, l
<1> HIDE DEF v
<1>3. ASSUME NEW i \in 1..l PROVE Ord(w[i], e)
  <2>1. w # <<>> /\ l \in 1..l
    BY <1>0
  <2>2. Ord(w[l], e)
    <3>1. Last(w) = w[l]
      BY ONLY DEF Last, l
    <3>2. Ord(Last(w), e)
      BY <2>1
    <3> QED BY ONLY <3>1, <3>2
  <2>3. CASE i = l
    BY <2>2, <2>3
  <2>4. CASE i < l
    <3>1. Ord(w[i], w[l])
      BY <1>2, <2>1, <2>4
    <3> DEFINE a == w[i].key
               b == w[l].key
               c == e.key
               x == w[i].seq
               y == w[l].seq
               z == e.seq
    <3>2. a \in Strings /\ b \in Strings /\ c \in Strings /\ x \in Nat /\ y \in Nat /\ z \in Nat
      <4>1. l + 1 \in 1..Len(v)
        BY <1>0, <1>1
      <4> QED BY <1>1, <2>1, <4>1, WrittenKey
    <3>3. (Below(a, b) \/ (a = b /\ y < x)) /\ (Below(b, c) \/ (b = c /\ z < y))
      BY <2>2, <3>1
    <3>4. Below(a, c) \/ (a = c /\ z < x)
      <4> HIDE DEF a, b, c, x, y, z
      <4>1. CASE Below(a, b) /\ Below(b, c)
        BY ONLY <3>2, <4>1, BelowTransitive
      <4>2. CASE ~(Below(a, b) /\ Below(b, c))
        BY <3>2, <3>3, <4>2
      <4> QED BY <4>1, <4>2
    <3> QED BY <3>4
  <2> QED BY <1>0, <2>3, <2>4
<1>4. ASSUME NEW i \in 1..Len(v), NEW j \in 1..Len(v), i < j PROVE Ord(v[i], v[j])
  <2>1. i \in 1..l /\ (j \in 1..l \/ j = l + 1)
    BY <1>0, <1>1, <1>4
  <2>2. CASE j \in 1..l
    <3>1. v[i] = w[i] /\ v[j] = w[j]
      BY <1>1, <2>1, <2>2
    <3> HIDE DEF Ord
    <3> QED BY <1>2, <1>4, <2>1, <2>2, <3>1
  <2>3. CASE j = l + 1
    <3>1. v[i] = w[i] /\ v[j] = e
      BY <1>1, <2>1, <2>3
    <3> HIDE DEF Ord
    <3> QED BY <1>3, <2>1, <3>1
  <2> QED BY <2>1, <2>2, <2>3
<1>5. InOrder(v)
  BY <1>4 DEF InOrder
<1> QED BY <1>5 DEF v

\* What one more entry adds to the filters.
LEMMA FilterEntry ==
    ASSUME NEW w \in Seq(WrittenEntries), NEW e \in WrittenEntries
    PROVE  /\ RecordsOf(Append(w, e)) = RecordsOf(w) \cup {record_id(e.key)}
           /\ TokensOf(Append(w, e)) = TokensOf(w) \cup ({e.token} \ {NoToken})
<1> DEFINE v == Append(w, e)
           l == Len(w)
<1>0. l \in Nat
  BY LenProperties
<1>1. Len(v) = l + 1 /\ v[l + 1] = e /\ \A q \in 1..l : v[q] = w[q]
  BY AppendProperties
<1> HIDE DEF v
<1>2. 1..Len(v) = 1..l \cup {l + 1}
  BY <1>0, <1>1
<1>3. Record(v, l + 1) = record_id(e.key) /\ \A q \in 1..l : Record(v, q) = Record(w, q)
  BY <1>1 DEF Record
<1>4. RecordsOf(v) = RecordsOf(w) \cup {record_id(e.key)}
  <2>1. RecordsOf(v) = {Record(v, q) : q \in 1..l \cup {l + 1}}
    BY <1>2 DEF RecordsOf
  <2>2. {Record(v, q) : q \in 1..l \cup {l + 1}} = {Record(v, q) : q \in 1..l} \cup {Record(v, l + 1)}
    OBVIOUS
  <2>3. {Record(v, q) : q \in 1..l} = {Record(w, q) : q \in 1..l}
    BY <1>3
  <2> QED BY <1>3, <2>1, <2>2, <2>3 DEF RecordsOf
<1>5. TokensOf(v) = TokensOf(w) \cup ({e.token} \ {NoToken})
  <2>1. {v[q].token : q \in 1..Len(v)} = {v[q].token : q \in 1..l \cup {l + 1}}
    BY <1>2
  <2>2. {v[q].token : q \in 1..l \cup {l + 1}} = {v[q].token : q \in 1..l} \cup {v[l + 1].token}
    OBVIOUS
  <2>3. {v[q].token : q \in 1..l} = {w[q].token : q \in 1..l}
    BY <1>1
  <2>4. {v[q].token : q \in 1..Len(v)} = {w[q].token : q \in 1..l} \cup {e.token}
    BY <1>1, <2>1, <2>2, <2>3
  <2> QED BY <2>4 DEF TokensOf
<1> QED BY <1>4, <1>5 DEF v

\* The records of a table are finitely many.
LEMMA RecordsFinite ==
    ASSUME NEW w \in Seq(WrittenEntries)
    PROVE  IsFiniteSet(RecordsOf(w)) /\ Cardinality(RecordsOf(w)) \in Nat
<1> DEFINE D == 1..Len(w)
           f == [p \in D |-> Record(w, p)]
<1>1. IsFiniteSet(D)
  <2>1. Len(w) \in Nat
    BY LenProperties
  <2> QED BY <2>1, FS_Interval
<1>2. f \in Surjection(D, RecordsOf(w))
  <2>1. f \in [D -> RecordsOf(w)]
    BY DEF RecordsOf
  <2>2. \A r \in RecordsOf(w) : \E p \in D : f[p] = r
    BY DEF RecordsOf
  <2> QED BY <2>1, <2>2 DEF Surjection
<1> HIDE DEF f, D
<1>3. IsFiniteSet(RecordsOf(w))
  BY <1>1, <1>2, FS_Surjection
<1> QED BY <1>3, FS_CardinalityType

\* ContentInv holds initially.
LEMMA InitContent ==
    ASSUME Init
    PROVE  ContentInv
<1>1. written = <<>> /\ pc = "writing" /\ builder = EmptyBlock /\ out.records = {} /\ out.tokens = {}
  BY DEF Init
<1>2. 1..Len(written) = {}
  BY <1>1
<1>3. InOrder(written) /\ RecordsOf(written) = {} /\ TokensOf(written) = {}
  BY <1>2 DEF InOrder, RecordsOf, TokensOf
<1> QED BY <1>1, <1>3 DEF ContentInv, EmptyBlock

\* AddEntry keeps ContentInv.
LEMMA AddEntryContent ==
    ASSUME TypeOK, ContentInv, NEW e \in WrittenEntries, AddEntry(e)
    PROVE  ContentInv'
<1> DEFINE v == Append(written, e)
           b == add_entry(builder, e)
<1>0. pc = "writing" /\ pc' = "writing" /\ written' = v /\ written \in Seq(WrittenEntries)
  BY DEF AddEntry, TypeOK
<1>1. InOrder(v)
  <2>1. written # <<>> => \/ Below(Last(written).key, e.key)
                          \/ Last(written).key = e.key /\ e.seq < Last(written).seq
    BY DEF AddEntry, Follows
  <2> QED BY <1>0, <2>1, OrderedEntry DEF ContentInv
<1>2. /\ RecordsOf(v) = RecordsOf(written) \cup {record_id(e.key)}
      /\ TokensOf(v) = TokensOf(written) \cup ({e.token} \ {NoToken})
  BY <1>0, FilterEntry
<1>3. /\ out.records \cup builder.records = RecordsOf(written)
      /\ out.tokens \cup builder.tokens = TokensOf(written)
  BY <1>0 DEF ContentInv
<1>4. /\ b.records = builder.records \cup {record_id(e.key)}
      /\ b.tokens = builder.tokens \cup ({e.token} \ {NoToken})
      /\ b.cells # <<>>
  <2>1. builder.cells \in Seq(Cell)
    BY DEF TypeOK
  <2>2. /\ b.records = builder.records \cup {record_id(e.key)}
        /\ b.tokens = builder.tokens \cup ({e.token} \ {NoToken})
    BY DEF add_entry
  <2> DEFINE c == [rid |-> IF builder.cells # <<>> /\ builder.last = record_id(e.key)
                           THEN <<>> ELSE record_id(e.key),
                   item |-> item_key(e.key), seq |-> e.seq]
             cs == builder.cells
  <2>3. b.cells = Append(cs, c)
    BY DEF add_entry
  <2>4. Append(cs, c) # <<>>
    <3> HIDE DEF c, cs
    <3>1. cs \in Seq(Cell \cup {c}) /\ c \in Cell \cup {c}
      BY <2>1, SeqMonotonic DEF cs
    <3> QED BY ONLY <3>1, AppendProperties
  <2> QED BY <2>2, <2>3, <2>4
<1>5. \/ builder' = EmptyBlock /\ out' = flush_block(out, b)
      \/ builder' = b /\ out' = out
  BY DEF AddEntry
<1> HIDE DEF v, b
<1>6. CASE builder' = b /\ out' = out
  <2>1. /\ out'.records \cup builder'.records = RecordsOf(v)
        /\ out'.tokens \cup builder'.tokens = TokensOf(v)
    BY <1>2, <1>3, <1>4, <1>6
  <2> QED BY <1>0, <1>1, <1>4, <1>6, <2>1 DEF ContentInv
<1>7. CASE builder' = EmptyBlock /\ out' = flush_block(out, b)
  <2>1. /\ out'.records = out.records \cup b.records /\ builder'.records = {}
        /\ out'.tokens = out.tokens \cup b.tokens /\ builder'.tokens = {}
    BY <1>7 DEF flush_block, EmptyBlock
  <2>2. /\ out'.records \cup builder'.records = RecordsOf(v)
        /\ out'.tokens \cup builder'.tokens = TokensOf(v)
    BY <1>2, <1>3, <1>4, <2>1
  <2> QED BY <1>0, <1>1, <2>1, <2>2 DEF ContentInv
<1> QED BY <1>5, <1>6, <1>7

\* Finish keeps ContentInv.
LEMMA FinishContent ==
    ASSUME ContentInv, Finish
    PROVE  ContentInv'
<1> DEFINE o == IF builder.cells = <<>> THEN out ELSE flush_block(out, builder)
<1>0. pc = "writing" /\ pc' = "written" /\ written' = written /\ written # <<>>
  BY DEF Finish
<1>1. file' = [data |-> o.data, index |-> o.index, filter |-> bloom(o.records),
               dedup |-> o.tokens,
               footer |-> [min_key |-> truncate_key(written[1].key),
                           max_key |-> truncate_key(Last(written).key)]]
  BY DEF Finish, Finished
<1>2. o.records = RecordsOf(written) /\ o.tokens = TokensOf(written)
  <2>1. /\ out.records \cup builder.records = RecordsOf(written)
        /\ out.tokens \cup builder.tokens = TokensOf(written)
        /\ builder.cells = <<>> => builder.records = {} /\ builder.tokens = {}
    BY <1>0 DEF ContentInv
  <2>2. CASE builder.cells = <<>>
    BY <2>1, <2>2
  <2>3. CASE builder.cells # <<>>
    BY <2>1, <2>3 DEF flush_block
  <2> QED BY <2>2, <2>3
<1>3. InOrder(written)
  BY DEF ContentInv
<1> HIDE DEF o
<1>4. file'.data = o.data /\ file'.index = o.index
  BY <1>1
<1> QED BY <1>0, <1>1, <1>2, <1>3, <1>4 DEF ContentInv

\* Damage keeps ContentInv.
LEMMA DamageContent ==
    ASSUME ContentInv, NEW i \in 2..Len(file.data), Damage(i)
    PROVE  ContentInv'
<1> DEFINE f == bloom(RecordsOf(written))
           t == TokensOf(written)
           m == [min_key |-> truncate_key(written[1].key),
                 max_key |-> truncate_key(Last(written).key)]
<1>0. pc = "written" /\ pc' = "written" /\ written' = written
      /\ file' = [file EXCEPT !.data[i] = Garbage]
  BY DEF Damage
<1>1. /\ InOrder(written) /\ written # <<>>
      /\ file = [data |-> file.data, index |-> file.index, filter |-> f, dedup |-> t, footer |-> m]
  BY <1>0 DEF ContentInv
<1>2. file' = [data |-> file'.data, index |-> file'.index, filter |-> f, dedup |-> t, footer |-> m]
  <2> HIDE DEF f, t, m
  <2> DEFINE d == [file.data EXCEPT ![i] = Garbage]
             x == file.index
  <2>1. file' = [file EXCEPT !.data = d]
    BY <1>0
  <2>2. file = [data |-> file.data, index |-> x, filter |-> f, dedup |-> t, footer |-> m]
    BY <1>1
  <2> HIDE DEF d, x
  <2>3. file' = [data |-> d, index |-> x, filter |-> f, dedup |-> t, footer |-> m]
    BY <2>1, <2>2
  <2> QED BY <2>3
<1> QED BY <1>0, <1>1, <1>2 DEF ContentInv

\* Every step keeps ContentInv.
LEMMA NextContent ==
    ASSUME TypeOK, ContentInv, [Next]_vars
    PROVE  ContentInv'
<1>1. CASE \E k \in Keys, s \in Seqs : AddEntry([key |-> k, seq |-> s, token |-> Token(k, s)])
  <2>1. PICK k \in Keys, s \in Seqs : AddEntry([key |-> k, seq |-> s, token |-> Token(k, s)])
    BY <1>1
  <2> DEFINE e == [key |-> k, seq |-> s, token |-> Token(k, s)]
  <2>2. e \in WrittenEntries
    BY NewEntry
  <2>3. AddEntry(e)
    BY <2>1
  <2> HIDE DEF e
  <2> QED BY <2>2, <2>3, AddEntryContent
<1>2. CASE Finish
  BY <1>2, FinishContent
<1>3. CASE FinishError
  BY <1>3 DEF FinishError, ContentInv
<1>4. CASE \E i \in 2..Len(file.data) : Damage(i)
  BY <1>4, DamageContent
<1>5. CASE \E asked \in SUBSET (1..block_count) : FetchBlocks(asked)
  BY <1>5 DEF FetchBlocks, ContentInv
<1>6. CASE UNCHANGED vars
  BY <1>6 DEF vars, ContentInv
<1> QED BY <1>1, <1>2, <1>3, <1>4, <1>5, <1>6 DEF Next

\* The entries of a table are in the order of their keys, the newest version of
\* a key first, and its filters and its footer are about all of them.
THEOREM ContentInvariant == Spec => []ContentInv
<1>1. Init => ContentInv
  BY InitContent
<1>2. TypeOK /\ ContentInv /\ [Next]_vars => ContentInv'
  BY NextContent
<1>3. LayoutInv => TypeOK
  BY DEF LayoutInv
<1> QED BY <1>1, <1>2, <1>3, LayoutInvariant, PTL DEF Spec

-----------------------------------------------------------------------------
(* Point reads *)

\* The entries in the order they were written.
LEMMA EntriesType ==
    ASSUME NEW w \in Seq(WrittenEntries), w = written
    PROVE  /\ Len(Entries) = Len(w) /\ DOMAIN Entries = 1..Len(w)
           /\ \A i \in 1..Len(w) : /\ Entries[i] = [key |-> w[i].key, seq |-> w[i].seq]
                                   /\ Entries[i].key = w[i].key /\ Entries[i].seq = w[i].seq
<1>1. Entries = [i \in 1..Len(w) |-> [key |-> w[i].key, seq |-> w[i].seq]]
  BY DEF Entries, Entry
<1>2. Len(w) \in Nat
  BY LenProperties
<1> QED BY ONLY <1>1, <1>2

\* A block's entries are n of the written ones, from the f-th on.
Spans(b, f, n) ==
    /\ f \in Nat /\ n \in Nat /\ f >= 1 /\ n >= 1 /\ f + n <= Len(written) + 1
    /\ Len(OwnEntries(b)) = n /\ DOMAIN OwnEntries(b) = 1..n
    /\ \A j \in 1..n : /\ f + j - 1 \in 1..Len(written)
                       /\ OwnEntries(b)[j] = Entries[f + j - 1]

\* A block spans its entries.
LEMMA OwnSpan ==
    ASSUME LayoutInv, pc = "written", NEW b \in 1..Len(file.index),
           NEW f, f = FirstOf(file.index, b), NEW n, n = file.index[b].size - 1
    PROVE  Spans(b, f, n)
<1>0. written \in Seq(WrittenEntries) /\ Len(written) \in Nat
  BY FileFacts
<1>1. f \in Nat /\ n \in Nat /\ f >= 1 /\ n >= 1 /\ f + n <= Len(written) + 1
  <2>1. Within(written, f, n) /\ n >= 1
    BY FileBlock
  <2> QED BY ONLY <2>1 DEF Within
<1>2. OwnEntries(b) = [j \in 1..n |-> Entry(written[f + j - 1])]
  BY DEF OwnEntries, EntriesFrom
<1>3. ASSUME NEW j \in 1..n PROVE f + j - 1 \in 1..Len(written)
  <2> DEFINE l == Len(written)
  <2>1. l \in Nat /\ f \in Nat /\ n \in Nat /\ f >= 1 /\ f + n <= l + 1 /\ j \in 1..n
    BY <1>0, <1>1
  <2> HIDE DEF l
  <2>2. f + j - 1 \in 1..l
    BY ONLY <2>1
  <2> QED BY <2>2 DEF l
<1>4. \A i \in 1..Len(written) : Entries[i] = Entry(written[i])
  BY DEF Entries
<1>5. Len(OwnEntries(b)) = n /\ DOMAIN OwnEntries(b) = 1..n
  BY ONLY <1>1, <1>2
<1>6. \A j \in 1..n : OwnEntries(b)[j] = Entry(written[f + j - 1])
  BY ONLY <1>2
<1>7. \A j \in 1..n : OwnEntries(b)[j] = Entries[f + j - 1]
  BY ONLY <1>3, <1>4, <1>6
<1> QED BY ONLY <1>1, <1>3, <1>5, <1>7 DEF Spans

\* The entries of a block, by their place among the written ones.
LEMMA OwnEntry ==
    ASSUME LayoutInv, pc = "written", NEW b \in 1..Len(file.index),
           NEW f, f = FirstOf(file.index, b), NEW n, n = file.index[b].size - 1
    PROVE  /\ f \in Nat /\ n \in Nat /\ f >= 1 /\ n >= 1 /\ f + n <= Len(written) + 1
           /\ Len(OwnEntries(b)) = n /\ DOMAIN OwnEntries(b) = 1..n
           /\ \A j \in 1..n : /\ f + j - 1 \in 1..Len(written)
                              /\ OwnEntries(b)[j] = Entries[f + j - 1]
<1>1. Spans(b, f, n)
  BY OwnSpan
<1> QED BY ONLY <1>1 DEF Spans

\* In an undamaged table every block is whole.
LEMMA WholeBlock ==
    ASSUME LayoutInv, Sound, NEW b \in 1..Len(file.index)
    PROVE  /\ Stored(b) = OwnEntries(b) /\ fetch_block(b) = OwnEntries(b)
           /\ OwnEntries(b) # Error
<1> DEFINE d == file.data
           x == file.index
           o == x[b].offset
           s == x[b].size
           p == FirstOf(x, b)
           bl == BlockOf(written, x, b)
           y == SubSeq(d, o + 1, o + s)
<1>0. pc = "written" /\ \A j \in 2..Len(d) : d[j] # Garbage
  BY DEF Sound
<1>1. /\ o \in Nat /\ s \in Nat /\ o >= 1 /\ s >= 2 /\ o + s <= Len(d)
      /\ Within(written, p, s - 1)
  BY <1>0, FileBlock
<1>2. d \in Seq(Bytes) /\ Len(d) \in Nat /\ written \in Seq(WrittenEntries) /\ block_count = Len(x)
  BY <1>0, FileFacts
<1>3. BytesOf(d, x, b) = y
  BY DEF BytesOf
<1>4. bl \in Seq(Bytes) /\ Len(bl) = s
  <2> DEFINE m == s - 1
  <2>1. m \in Nat /\ m + 1 = s
    BY <1>1
  <2>2. bl = Block(written, p, m) /\ Within(written, p, m)
    BY <1>1 DEF BlockOf
  <2> HIDE DEF bl, m, s, p
  <2>3. bl \in Seq(Bytes) /\ Len(bl) = m + 1
    BY <1>2, <2>2, BlockType
  <2> QED BY <2>1, <2>3
<1>5. \/ y = bl
      \/ \E j \in 1..s : y = [bl EXCEPT ![j] = Garbage]
  <2>1. \/ BytesOf(d, x, b) = bl
        \/ \E j \in 1..s : BytesOf(d, x, b) = [bl EXCEPT ![j] = Garbage]
    BY <1>0 DEF LayoutInv, FileInv, block_count
  <2> QED BY <1>3, <2>1
<1>6. y = bl
  <2> HIDE DEF o, s, bl, d
  <2> SUFFICES ASSUME NEW j \in 1..s, y = [bl EXCEPT ![j] = Garbage] PROVE FALSE
    BY <1>5
  <2>1. \A i \in 1..s : y[i] = d[o + i]
    <3>1. d \in Seq(Bytes) /\ o \in Nat /\ s \in Nat /\ o + s <= Len(d)
      BY <1>1, <1>2
    <3>2. /\ SubSeq(d, o + 1, o + s) \in Seq(Bytes)
          /\ Len(SubSeq(d, o + 1, o + s)) = s
          /\ \A i \in 1..s : SubSeq(d, o + 1, o + s)[i] = d[o + i]
      BY ONLY <3>1, Piece
    <3> QED BY <3>2
  <2> HIDE DEF y
  <2>2. j \in 1..Len(bl) /\ Garbage \in Bytes
    BY <1>4 DEF Bytes
  <2>3. y[j] = Garbage
    BY <1>4, <2>2, ExceptSeq
  <2>4. o + j \in 2..Len(d)
    BY <1>1, <1>2
  <2> QED BY <1>0, <2>1, <2>3, <2>4
<1>7. Stored(b) = OwnEntries(b)
  BY <1>0, <1>3, <1>6, StoredBlock
<1>8. fetch_block(b) = OwnEntries(b)
  <2>1. Cached(b) => cache[file.index[b].offset] = OwnEntries(b)
    BY <1>0, <1>2 DEF LayoutInv, CacheInv
  <2> QED BY <1>7, <2>1 DEF fetch_block
<1>9. OwnEntries(b) # Error
  <2> DEFINE f == FirstOf(file.index, b)
             n == file.index[b].size - 1
  <2>1. /\ n \in Nat /\ n >= 1
        /\ \A j \in 1..n : /\ f + j - 1 \in 1..Len(written)
                           /\ OwnEntries(b)[j] = Entries[f + j - 1]
    <3>1. /\ f \in Nat /\ n \in Nat /\ f >= 1 /\ n >= 1 /\ f + n <= Len(written) + 1
          /\ Len(OwnEntries(b)) = n /\ DOMAIN OwnEntries(b) = 1..n
          /\ \A j \in 1..n : /\ f + j - 1 \in 1..Len(written)
                             /\ OwnEntries(b)[j] = Entries[f + j - 1]
      <4>1. /\ LayoutInv /\ pc = "written" /\ b \in 1..Len(file.index)
            /\ f = FirstOf(file.index, b) /\ n = file.index[b].size - 1
        BY <1>0
      <4> HIDE DEF f, n
      <4>2. Spans(b, f, n)
        BY ONLY <4>1, OwnSpan
      <4> QED BY ONLY <4>2 DEF Spans
    <3> QED BY <3>1
  <2> HIDE DEF f, n
  <2>2. 1 \in 1..n
    BY <2>1
  <2> DEFINE i == f + 1 - 1
             e == OwnEntries(b)[1]
  <2>3. e = Entries[i] /\ i \in 1..Len(written)
    BY ONLY <2>1, <2>2
  <2> HIDE DEF i
  <2>4. Entries[i] = [key |-> written[i].key, seq |-> written[i].seq]
    BY <1>2, <2>3, EntriesType
  <2>5. DOMAIN e = {"key", "seq"}
    BY <2>3, <2>4
  <2>6. DOMAIN Garbage = {"garbage"} /\ Error[1] = Garbage
    BY DEF Garbage, Error
  <2>7. e # Garbage
    BY <2>5, <2>6
  <2> QED BY <2>6, <2>7
<1> QED BY <1>7, <1>8, <1>9

\* The entries of a block come before those of a later one.
LEMMA FirstInOrder ==
    ASSUME LayoutInv, pc = "written", NEW b \in 1..Len(file.index),
           NEW c \in 1..Len(file.index), b < c
    PROVE  FirstOf(file.index, b) + (file.index[b].size - 1) <= FirstOf(file.index, c)
<1> DEFINE x == file.index
           F(d) == FirstOf(x, d)
           m == F(b) + (x[b].size - 1)
           Bad == {d \in 1..Len(x) : b < d /\ ~(m <= F(d))}
<1> SUFFICES ASSUME Bad # {} PROVE FALSE
  OBVIOUS
<1>0. /\ Len(x) \in Nat /\ x \in Seq(IndexEntries)
      /\ IndexInv(written, x, Len(file.data))
  BY FileFacts
<1>1. ASSUME NEW d \in 1..Len(x) PROVE F(d) \in Nat /\ x[d].size \in Nat /\ x[d].size >= 2
  <2>1. Within(written, F(d), x[d].size - 1) /\ x[d].size \in Nat /\ x[d].size >= 2
    BY FileBlock
  <2> QED BY <2>1 DEF Within
<1>2. Bad \subseteq Nat
  BY <1>0
<1>3. PICK d \in Bad : \A z \in Bad : d <= z
  BY <1>2, LeastNumber
<1>4. d \in 1..Len(x) /\ b < d /\ ~(m <= F(d))
  BY <1>3
<1>5. d # 1 /\ d - 1 \in 1..Len(x) /\ ~(d <= d - 1)
  BY <1>0, <1>4
<1>6. F(d) = F(d - 1) + x[d - 1].size - 1
  BY <1>0, <1>4, <1>5, FirstNext
<1>7. d - 1 \notin Bad
  BY <1>3, <1>5
<1>8. m \in Int /\ F(d - 1) \in Nat /\ x[d - 1].size \in Nat /\ x[d - 1].size >= 2
  <2> DEFINE e == d - 1
             g == F(b)
             s == x[b].size
  <2>1. e \in 1..Len(x)
    BY <1>5
  <2>2. g \in Nat /\ s \in Nat
    BY <1>1
  <2>3. m = g + (s - 1)
    OBVIOUS
  <2> HIDE DEF e, g, s, m
  <2>4. m \in Int
    BY ONLY <2>2, <2>3
  <2>5. F(e) \in Nat /\ x[e].size \in Nat /\ x[e].size >= 2
    BY <1>1, <2>1
  <2> QED BY <2>4, <2>5 DEF e
<1>9. CASE d - 1 = b
  <2> DEFINE g == F(b)
             s == x[b].size
  <2>1. g \in Nat /\ s \in Nat
    BY <1>1
  <2>2. ~(g + (s - 1) <= g + s - 1)
    BY <1>4, <1>6, <1>9
  <2> HIDE DEF g, s
  <2> QED BY ONLY <2>1, <2>2
<1>10. CASE b < d - 1
  <2>1. m <= F(d - 1)
    BY <1>5, <1>7, <1>10
  <2> DEFINE g == F(d - 1)
             s == x[d - 1].size
  <2>2. g \in Nat /\ s \in Nat /\ s >= 2 /\ m \in Int /\ m <= g /\ ~(m <= g + s - 1)
    BY <1>4, <1>6, <1>8, <2>1
  <2> HIDE DEF g, s, m
  <2> QED BY ONLY <2>2
<1> QED BY <1>0, <1>4, <1>9, <1>10

\* Every entry lies in a block.
LEMMA InSomeBlock ==
    ASSUME LayoutInv, pc = "written", NEW p \in 1..Len(written)
    PROVE  \E c \in 1..Len(file.index) :
               /\ FirstOf(file.index, c) <= p
               /\ p < FirstOf(file.index, c) + (file.index[c].size - 1)
<1> DEFINE x == file.index
           F(d) == FirstOf(x, d)
           S(d) == x[d].size
           k == Len(x)
           l == Len(written)
           C == {d \in 1..k : F(d) <= p}
           c == Max(C)
<1>0. /\ k \in Nat /\ x \in Seq(IndexEntries) /\ l \in Nat /\ Len(file.data) \in Nat
      /\ IndexInv(written, x, Len(file.data)) /\ Len(file.data) - k = l + 1 /\ p \in Nat /\ p >= 1
  <2>1. /\ k \in Nat /\ x \in Seq(IndexEntries) /\ l \in Nat /\ Len(file.data) \in Nat
        /\ IndexInv(written, x, Len(file.data)) /\ Len(file.data) - k = l + 1
    BY FileFacts
  <2>2. p \in 1..l
    OBVIOUS
  <2>3. p \in Nat /\ p >= 1
    <3> HIDE DEF l
    <3> QED BY ONLY <2>1, <2>2
  <2> QED BY <2>1, <2>3
<1>1. ASSUME NEW d \in 1..k PROVE F(d) \in Nat /\ S(d) \in Nat /\ S(d) >= 2
  <2>1. Within(written, F(d), S(d) - 1) /\ S(d) \in Nat /\ S(d) >= 2
    BY FileBlock
  <2> QED BY <2>1 DEF Within
<1>2. k # 0
  <2> SUFFICES ASSUME k = 0 PROVE FALSE
    OBVIOUS
  <2>1. x = <<>>
    BY <1>0, EmptySeq
  <2>2. Len(file.data) = 1
    BY <1>0, <2>1 DEF IndexInv
  <2>3. 1 - 0 = l + 1 /\ p \in 1..l
    BY <1>0, <2>2
  <2> HIDE DEF l
  <2> QED BY ONLY <1>0, <2>3
<1>3. 1 \in C
  <2>1. 1 \in 1..k
    BY <1>0, <1>2
  <2>2. F(1) = 1
    BY <1>0, <2>1, FirstNext
  <2> QED BY <1>0, <2>1, <2>2
<1>4. c \in C /\ \A d \in C : d <= c
  <2>1. C \subseteq 0..k /\ C # {}
    BY <1>0, <1>3
  <2> HIDE DEF C
  <2> QED BY <1>0, <2>1, MaxOf
<1> HIDE DEF c
<1>5. c \in 1..k /\ F(c) <= p
  BY <1>4
<1>6. p < F(c) + (S(c) - 1)
  <2>1. CASE c < k
    <3>1. c + 1 \in 1..k /\ c + 1 # 1 /\ (c + 1) - 1 = c /\ ~(c + 1 <= c)
      BY <1>0, <1>5, <2>1
    <3>2. F(c + 1) = F(c) + S(c) - 1
      <4> DEFINE e == c + 1
      <4>1. e \in 1..Len(x) /\ e # 1 /\ e - 1 = c
        BY <3>1
      <4> HIDE DEF e
      <4>2. F(e) = F(e - 1) + x[e - 1].size - 1
        BY <1>0, <4>1, FirstNext
      <4> QED BY <4>1, <4>2 DEF e
    <3>3. c + 1 \notin C
      BY <1>4, <3>1
    <3>4. ~(F(c + 1) <= p)
      BY <3>1, <3>3
    <3> DEFINE g == F(c)
               s == S(c)
    <3>5. g \in Nat /\ s \in Nat /\ ~(g + s - 1 <= p)
      BY <1>1, <1>5, <3>2, <3>4
    <3>6. p < g + (s - 1)
      <4> HIDE DEF g, s
      <4> QED BY ONLY <1>0, <3>5
    <3> QED BY <3>6
  <2>2. CASE c = k
    <3>1. Len(file.data) = x[k].offset + x[k].size
      <4>1. x # <<>>
        BY <1>0, <1>2
      <4> QED BY <1>0, <4>1 DEF IndexInv
    <3>2. F(k) = x[k].offset - k + 1 /\ x[k].offset \in Nat /\ x[k].size \in Nat
      <4>1. k \in 1..Len(x)
        BY <1>5, <2>2
      <4> QED BY <1>0, <4>1, IndexEntryType DEF FirstOf
    <3> DEFINE o == x[k].offset
               s == x[k].size
    <3>3. o \in Nat /\ s \in Nat /\ (o + s) - k = l + 1 /\ F(k) = o - k + 1 /\ p \in 1..l
      BY <1>0, <3>1, <3>2
    <3>4. p < (o - k + 1) + (s - 1)
      <4> HIDE DEF o, s, l, k
      <4> QED BY ONLY <1>0, <3>3
    <3> QED BY <2>2, <3>3, <3>4
  <2> QED BY <1>0, <1>5, <2>1, <2>2
<1> QED BY <1>5, <1>6

\* Of two entries the later one has the greater key, or an older version of
\* the same.
LEMMA Ordered ==
    ASSUME NEW w \in Seq(WrittenEntries), InOrder(w), NEW i \in 1..Len(w), NEW j \in 1..Len(w), i < j
    PROVE  /\ AtMost(w[i].key, w[j].key)
           /\ w[i].key = w[j].key => w[j].seq < w[i].seq
<1>1. \/ Below(w[i].key, w[j].key)
      \/ w[i].key = w[j].key /\ w[j].seq < w[i].seq
  BY DEF InOrder
<1>2. w[i].key \in Strings
  BY WrittenKey
<1>3. w[i].key = w[j].key => ~Below(w[i].key, w[j].key)
  <2> DEFINE x == w[i].key
             y == w[j].key
  <2>1. x \in Strings
    BY <1>2
  <2> HIDE DEF x, y
  <2>2. x = y => ~Below(x, y)
    BY <2>1, BelowIrreflexive
  <2> QED BY <2>2 DEF x, y
<1> QED BY <1>1, <1>3 DEF AtMost

\* What the index says of a block: where it begins, and the key there.
LEMMA BlockStart ==
    ASSUME LayoutInv, pc = "written", NEW b \in 1..Len(file.index), NEW f, f = FirstOf(file.index, b)
    PROVE  f \in 1..Len(written) /\ file.index[b].first_key = written[f].key
<1>1. IndexInv(written, file.index, Len(file.data))
  BY FileFacts
<1>2. /\ FirstOf(file.index, b) \in 1..Len(written)
      /\ file.index[b].first_key = written[FirstOf(file.index, b)].key
  BY <1>1 DEF IndexInv
<1> QED BY <1>2

\* The search of the index finds the block of the last version of a key.
LEMMA KeyBlock ==
    ASSUME LayoutInv, ContentInv, pc = "written", NEW p \in 1..Len(written), NEW k, k = written[p].key,
           \A q \in 1..Len(written) : written[q].key = k => q <= p,
           NEW c \in 1..Len(file.index), FirstOf(file.index, c) <= p,
           p < FirstOf(file.index, c) + (file.index[c].size - 1)
    PROVE  find_block_index(k) = c
<1> DEFINE x == file.index
           w == written
           S == {b \in 1..block_count : AtMost(x[b].first_key, k)}
<1>0. w \in Seq(WrittenEntries) /\ InOrder(w) /\ block_count = Len(x) /\ Len(x) \in Nat /\ Len(w) \in Nat
  BY FileFacts DEF ContentInv
<1>1. k \in Strings
  BY <1>0, WrittenKey
<1>2. ASSUME NEW b \in 1..Len(x), b <= c PROVE AtMost(x[b].first_key, k)
  <2> DEFINE f == FirstOf(x, b)
             g == FirstOf(x, c)
             n == x[b].size - 1
  <2>1. f \in 1..Len(w) /\ x[b].first_key = w[f].key
    BY BlockStart
  <2>2. g \in 1..Len(w) /\ g <= p
    BY BlockStart
  <2>3. f <= p
    <3>1. CASE b = c
      BY <2>2, <3>1
    <3>2. CASE b < c
      <4>1. f + n <= g
        BY <3>2, FirstInOrder
      <4>2. f \in Nat /\ n \in Nat
        BY OwnEntry
      <4> HIDE DEF f, g, n
      <4> QED BY <1>0, <2>1, <2>2, <4>1, <4>2
    <3> QED BY <1>0, <1>2, <3>1, <3>2
  <2> HIDE DEF f
  <2>4. CASE f = p
    BY <2>1, <2>4 DEF AtMost
  <2>5. CASE f < p
    <3>1. AtMost(w[f].key, w[p].key)
      BY <1>0, <2>1, <2>5, Ordered
    <3> QED BY <2>1, <3>1
  <2> QED BY <1>0, <2>1, <2>3, <2>4, <2>5
<1>3. ASSUME NEW b \in 1..Len(x), ~(b <= c) PROVE ~AtMost(x[b].first_key, k)
  <2> DEFINE f == FirstOf(x, b)
             g == FirstOf(x, c)
             n == x[c].size - 1
  <2>1. f \in 1..Len(w) /\ x[b].first_key = w[f].key
    BY BlockStart
  <2>2. p < f
    <3>1. c < b
      BY <1>0, <1>3
    <3>2. g + n <= f
      BY <3>1, FirstInOrder
    <3>3. g \in Nat /\ n \in Nat /\ p < g + n
      BY OwnEntry
    <3> HIDE DEF f, g, n
    <3> QED BY <1>0, <2>1, <3>2, <3>3
  <2> HIDE DEF f
  <2>3. AtMost(w[p].key, w[f].key)
    BY <1>0, <2>1, <2>2, Ordered
  <2>4. w[f].key # k
    <3>1. ~(f <= p)
      BY <1>0, <2>1, <2>2
    <3> QED BY <2>1, <3>1
  <2>5. Below(k, w[f].key) /\ w[f].key \in Strings
    BY <1>0, <2>1, <2>3, <2>4, WrittenKey DEF AtMost
  <2> DEFINE y == w[f].key
  <2>6. Below(k, y) /\ y \in Strings
    BY <2>5
  <2>7. ~AtMost(y, k)
    <3> HIDE DEF y
    <3> QED BY <1>1, <2>6, BelowAsymmetric
  <2> QED BY <2>1, <2>7
<1>4. S = 1..c
  <2>1. \A b \in 1..Len(x) : AtMost(x[b].first_key, k) <=> b <= c
    BY <1>2, <1>3
  <2>2. S = {b \in 1..Len(x) : b <= c}
    BY <1>0, <2>1
  <2> QED BY <1>0, <2>2
<1>5. c \in Nat /\ c >= 1
  BY <1>0
<1>6. Cardinality(1..c) = c
  BY <1>5, FS_Interval
<1> QED BY <1>4, <1>6 DEF find_block_index

\* The search of the index yields a block, or none.
LEMMA BlockFound ==
    ASSUME LayoutInv, pc = "written", NEW k
    PROVE  find_block_index(k) = 0 \/ find_block_index(k) \in 1..Len(file.index)
<1> DEFINE S == {b \in 1..block_count : AtMost(file.index[b].first_key, k)}
           l == Len(file.index)
<1>0. l \in Nat /\ block_count = l
  BY FileFacts
<1>1. IsFiniteSet(1..l) /\ Cardinality(1..l) = l
  <2>0. 1 \in Int /\ l \in Int
    BY <1>0
  <2> HIDE DEF l
  <2>1. IsFiniteSet(1..l) /\ Cardinality(1..l) = IF 1 > l THEN 0 ELSE l - 1 + 1
    BY ONLY <2>0, FS_Interval
  <2> QED BY ONLY <1>0, <2>1
<1>2. S \subseteq 1..l
  BY <1>0
<1>3. find_block_index(k) = Cardinality(S)
  BY DEF find_block_index
<1> HIDE DEF S, l
<1>4. IsFiniteSet(S) /\ Cardinality(S) <= l /\ Cardinality(S) \in Nat
  BY <1>1, <1>2, FS_Subset, FS_CardinalityType
<1>5. Cardinality(S) = 0 \/ Cardinality(S) \in 1..l
  BY <1>0, <1>4
<1> QED BY <1>3, <1>5 DEF l

\* Neither filter denies a key of the table.
LEMMA FilterAdmits ==
    ASSUME LayoutInv, ContentInv, pc = "written", NEW p \in 1..Len(written)
    PROVE  maybe_contains(record_id(written[p].key)) /\ may_contain_key(written[p].key)
<1> DEFINE w == written
           R == RecordsOf(w)
           n == Cardinality(R)
           r == record_id(w[p].key)
<1>0. w \in Seq(WrittenEntries) /\ InOrder(w) /\ Len(w) \in Nat /\ w # <<>>
  BY FileFacts DEF ContentInv
<1>1. /\ file.filter = bloom(R)
      /\ file.footer = [min_key |-> truncate_key(w[1].key), max_key |-> truncate_key(Last(w).key)]
  <2> DEFINE f == bloom(R)
             t == TokensOf(w)
             m == [min_key |-> truncate_key(w[1].key), max_key |-> truncate_key(Last(w).key)]
  <2>1. file = [data |-> file.data, index |-> file.index, filter |-> f, dedup |-> t, footer |-> m]
    BY DEF ContentInv
  <2> HIDE DEF f, t, m
  <2>2. file.filter = f /\ file.footer = m
    BY <2>1
  <2> QED BY <2>2 DEF f, m
<1>2. r \in R
  BY DEF RecordsOf, Record
<1>3. file.filter.num_keys = n /\ file.filter.bits = UNION {BitsOf(q, n) : q \in R}
  BY <1>1 DEF bloom
<1>4. n # 0
  <2>1. IsFiniteSet(R)
    BY <1>0, RecordsFinite
  <2> HIDE DEF R
  <2> QED BY <1>2, <2>1, FS_EmptySet
<1>5. maybe_contains(r)
  <2> HIDE DEF r, n, R
  <2>1. BitsOf(r, n) \subseteq UNION {BitsOf(q, n) : q \in R}
    BY <1>2
  <2> QED BY <1>3, <1>4, <2>1 DEF maybe_contains
<1>6. may_contain_key(w[p].key)
  <2> DEFINE k == w[p].key
             a == w[1].key
             z == Last(w).key
             l == Len(w)
  <2>1. 1 \in 1..l /\ l \in 1..l /\ p \in 1..l
    BY <1>0
  <2>2. z = w[l].key
    BY DEF Last
  <2>3. k \in Strings /\ a \in Strings /\ z \in Strings
    BY <1>0, <2>1, <2>2, WrittenKey
  <2>4. AtMost(a, k)
    <3>1. CASE p = 1
      BY <3>1 DEF AtMost
    <3>2. CASE 1 < p
      BY <1>0, <2>1, <3>2, Ordered
    <3> QED BY <1>0, <2>1, <3>1, <3>2
  <2>5. AtMost(k, z)
    <3>1. CASE p = l
      BY <2>2, <3>1 DEF AtMost
    <3>2. CASE p < l
      <4>1. AtMost(w[p].key, w[l].key)
        BY <1>0, <2>1, <3>2, Ordered
      <4> QED BY <2>2, <4>1
    <3> QED BY <1>0, <2>1, <3>1, <3>2
  <2>6. file.footer.min_key = truncate_key(a) /\ file.footer.max_key = truncate_key(z)
    BY <1>1
  <2> HIDE DEF k, a, z
  <2>7. AtMost(truncate_key(a), truncate_key(k)) /\ AtMost(truncate_key(k), truncate_key(z))
    BY <2>3, <2>4, <2>5, TruncateOrder
  <2>8. may_contain_key(k)
    BY <2>6, <2>7 DEF may_contain_key
  <2> QED BY <2>8 DEF k
<1> QED BY <1>5, <1>6

\* Within a block, the newest version of a key is the first one.
LEMMA NewestInBlock ==
    ASSUME LayoutInv, ContentInv, pc = "written", NEW b \in 1..Len(file.index), NEW k,
           NEW V, V = Versions(OwnEntries(b), k), V # {},
           NEW found, found = {OwnEntries(b)[i] : i \in V}
    PROVE  /\ Min(V) \in V /\ \A j \in V : Min(V) <= j
           /\ (CHOOSE e \in found : \A g \in found : g.seq <= e.seq) = OwnEntries(b)[Min(V)]
           /\ found # {}
<1> DEFINE O == OwnEntries(b)
           f == FirstOf(file.index, b)
           n == file.index[b].size - 1
           m == Min(V)
           Newer(e) == \A g \in found : g.seq <= e.seq
<1>0. written \in Seq(WrittenEntries) /\ InOrder(written)
  BY FileFacts DEF ContentInv
<1>1. /\ f \in Nat /\ n \in Nat /\ Len(O) = n
      /\ \A j \in 1..n : /\ f + j - 1 \in 1..Len(written)
                         /\ O[j] = Entries[f + j - 1]
  <2>1. /\ f \in Nat /\ n \in Nat /\ f >= 1 /\ n >= 1 /\ f + n <= Len(written) + 1
        /\ Len(O) = n /\ DOMAIN O = 1..n
        /\ \A j \in 1..n : /\ f + j - 1 \in 1..Len(written)
                           /\ O[j] = Entries[f + j - 1]
    <3>1. /\ LayoutInv /\ pc = "written" /\ b \in 1..Len(file.index)
          /\ f = FirstOf(file.index, b) /\ n = file.index[b].size - 1
      OBVIOUS
    <3> HIDE DEF f, n
    <3>2. Spans(b, f, n)
      BY ONLY <3>1, OwnSpan
    <3> QED BY ONLY <3>2 DEF Spans
  <2> QED BY <2>1
<1>2. V = {j \in 1..n : O[j].key = k}
  BY <1>1 DEF Versions
<1>3. m \in V /\ \A j \in V : m <= j
  <2>1. V \subseteq Nat
    BY <1>1, <1>2
  <2> QED BY <2>1, MinOf
<1> HIDE DEF O, f, n, m
<1>4. ASSUME NEW j \in V PROVE O[j].seq \in Nat /\ (j # m => O[j].seq < O[m].seq)
  <2> DEFINE i == f + m - 1
             h == f + j - 1
  <2>1. j \in 1..n /\ m \in 1..n /\ m <= j /\ O[j].key = k /\ O[m].key = k
    BY <1>2, <1>3
  <2>2. i \in 1..Len(written) /\ h \in 1..Len(written) /\ O[m] = Entries[i] /\ O[j] = Entries[h]
    BY <1>1, <2>1
  <2>3. j # m => i < h
    BY <1>1, <2>1
  <2> HIDE DEF i, h
  <2>4. /\ O[m].key = written[i].key /\ O[m].seq = written[i].seq
        /\ O[j].key = written[h].key /\ O[j].seq = written[h].seq
    <3>1. \A x \in 1..Len(written) : Entries[x].key = written[x].key /\ Entries[x].seq = written[x].seq
      BY <1>0, EntriesType
    <3> QED BY ONLY <2>2, <3>1
  <2>5. written[h].seq \in Nat
    BY <1>0, <2>2, WrittenKey
  <2>6. j # m => written[h].seq < written[i].seq
    <3>1. written[i].key = written[h].key
      BY <2>1, <2>4
    <3> QED BY <1>0, <2>2, <2>3, <3>1, Ordered
  <2> QED BY <2>4, <2>5, <2>6
<1>5. found = {O[i] : i \in V}
  BY DEF O
<1>6. O[m] \in found /\ Newer(O[m])
  <2>1. O[m] \in found
    BY <1>3, <1>5
  <2>2. ASSUME NEW g \in found PROVE g.seq <= O[m].seq
    <3>1. PICK j \in V : g = O[j]
      BY <1>5
    <3>2. O[j].seq \in Nat /\ O[m].seq \in Nat /\ (j # m => O[j].seq < O[m].seq)
      BY <1>3, <1>4
    <3> DEFINE s == O[j].seq
               t == O[m].seq
    <3>3. s \in Nat /\ t \in Nat /\ (j # m => s < t) /\ (j = m => s = t)
      BY <3>2
    <3>4. s <= t
      <4> HIDE DEF s, t
      <4> QED BY ONLY <3>3
    <3> QED BY <3>1, <3>4
  <2> QED BY <2>1, <2>2
<1>7. ASSUME NEW e \in found, Newer(e) PROVE e = O[m]
  <2>1. PICK j \in V : e = O[j]
    BY <1>5
  <2>2. O[j].seq \in Nat /\ O[m].seq \in Nat /\ (j # m => O[j].seq < O[m].seq)
    BY <1>3, <1>4
  <2>3. O[m].seq <= O[j].seq
    BY <1>6, <1>7, <2>1
  <2> DEFINE s == O[j].seq
             t == O[m].seq
  <2>4. s \in Nat /\ t \in Nat /\ (j # m => s < t) /\ t <= s
    BY <2>2, <2>3
  <2>5. j = m
    <3> HIDE DEF s, t
    <3> QED BY ONLY <2>4
  <2> QED BY <2>1, <2>5
<1>8. (CHOOSE e \in found : Newer(e)) = O[m]
  <2> HIDE DEF Newer
  <2> QED BY <1>6, <1>7
<1> QED BY <1>3, <1>6, <1>8 DEF O, m

\* Where the versions of a key are, and that they have the key.
LEMMA VersionsWritten ==
    ASSUME LayoutInv, pc = "written", NEW k
    PROVE  /\ Versions(Entries, k) = {q \in 1..Len(written) : written[q].key = k}
           /\ Versions(Entries, k) \subseteq 0..Len(written)
<1>0. written \in Seq(WrittenEntries) /\ Len(written) \in Nat
  BY FileFacts
<1>1. Len(Entries) = Len(written) /\ \A i \in 1..Len(written) : Entries[i].key = written[i].key
  BY <1>0, EntriesType
<1>2. Versions(Entries, k) = {q \in 1..Len(written) : written[q].key = k}
  BY <1>1 DEF Versions
<1> QED BY <1>0, <1>2

\* The versions of a key in a block are versions of it in the table, and the
\* other way round.
LEMMA VersionsInBlock ==
    ASSUME LayoutInv, pc = "written", NEW k, NEW b \in 1..Len(file.index),
           NEW f, f = FirstOf(file.index, b), NEW n, n = file.index[b].size - 1
    PROVE  /\ \A j \in Versions(OwnEntries(b), k) :
                 /\ j \in Nat /\ f + j - 1 \in Versions(Entries, k)
                 /\ OwnEntries(b)[j] = Entries[f + j - 1]
           /\ \A q \in Versions(Entries, k) : f <= q /\ q < f + n =>
                 q - f + 1 \in Versions(OwnEntries(b), k)
<1> DEFINE O == OwnEntries(b)
<1>0. written \in Seq(WrittenEntries) /\ Len(written) \in Nat /\ Len(Entries) = Len(written)
  BY FileFacts, EntriesType
<1>1. /\ f \in Nat /\ n \in Nat /\ f >= 1 /\ n >= 1 /\ f + n <= Len(written) + 1
      /\ Len(O) = n /\ DOMAIN O = 1..n
      /\ \A j \in 1..n : /\ f + j - 1 \in 1..Len(written)
                         /\ O[j] = Entries[f + j - 1]
  <2>1. /\ LayoutInv /\ pc = "written" /\ b \in 1..Len(file.index)
        /\ f = FirstOf(file.index, b) /\ n = file.index[b].size - 1
    OBVIOUS
  <2>2. Spans(b, f, n)
    BY ONLY <2>1, OwnSpan
  <2> QED BY ONLY <2>2 DEF Spans
<1> HIDE DEF O
<1>2. Versions(O, k) = {j \in 1..n : O[j].key = k}
  BY <1>1 DEF Versions
<1>3. Versions(Entries, k) = {i \in 1..Len(written) : Entries[i].key = k}
  BY <1>0 DEF Versions
<1>4. ASSUME NEW j \in Versions(O, k)
      PROVE  j \in Nat /\ f + j - 1 \in Versions(Entries, k) /\ O[j] = Entries[f + j - 1]
  <2>1. j \in 1..n /\ O[j].key = k
    BY <1>2
  <2>2. f + j - 1 \in 1..Len(written) /\ O[j] = Entries[f + j - 1]
    BY <1>1, <2>1
  <2>3. j \in Nat
    BY <1>1, <2>1
  <2> QED BY <1>3, <2>1, <2>2, <2>3
<1>5. ASSUME NEW q \in Versions(Entries, k), f <= q /\ q < f + n PROVE q - f + 1 \in Versions(O, k)
  <2> DEFINE j == q - f + 1
  <2>1. q \in 1..Len(written) /\ Entries[q].key = k
    BY <1>3
  <2>2. j \in 1..n /\ f + j - 1 = q
    <3> DEFINE l == Len(written)
    <3>1. l \in Nat /\ f \in Nat /\ n \in Nat /\ q \in 1..l /\ f <= q /\ q < f + n
      BY <1>0, <1>1, <1>5, <2>1
    <3> HIDE DEF l
    <3> QED BY ONLY <3>1
  <2> HIDE DEF j
  <2>3. O[j].key = k
    BY <1>1, <2>1, <2>2
  <2>4. j \in Versions(O, k)
    BY <1>2, <2>2, <2>3
  <2> QED BY <2>4 DEF j
<1> QED BY <1>4, <1>5 DEF O

\* A key with versions in two blocks straddles them.
LEMMA TwoBlocks ==
    ASSUME LayoutInv, Sound, NEW k, NEW c \in 1..Len(file.index), NEW d \in 1..Len(file.index), c # d,
           Versions(OwnEntries(c), k) # {}, Versions(OwnEntries(d), k) # {}
    PROVE  Straddles(k)
<1> DEFINE B == {b \in 1..block_count : \E e \in Range(Stored(b)) : e.key = k}
           l == Len(file.index)
<1>0. pc = "written" /\ l \in Nat /\ block_count = l
  BY FileFacts DEF Sound
<1>1. ASSUME NEW b \in 1..l, Versions(OwnEntries(b), k) # {} PROVE b \in B
  <2> DEFINE O == OwnEntries(b)
  <2>1. PICK j \in Versions(O, k) : TRUE
    BY <1>1
  <2>2. j \in 1..Len(O) /\ O[j].key = k
    BY <2>1 DEF Versions
  <2>3. Len(O) = file.index[b].size - 1 /\ DOMAIN O = 1..(file.index[b].size - 1)
    BY <1>0, OwnEntry
  <2>4. Stored(b) = O
    BY WholeBlock
  <2> HIDE DEF O
  <2>5. O[j] \in Range(O)
    BY <2>2, <2>3 DEF Range
  <2> QED BY <1>0, <2>2, <2>4, <2>5
<1>2. c \in B /\ d \in B
  BY <1>1
<1>3. IsFiniteSet(B)
  <2>1. B \subseteq 1..l
    BY <1>0
  <2>2. 1 \in Int /\ l \in Int
    BY <1>0
  <2> HIDE DEF B, l
  <2>3. IsFiniteSet(1..l)
    BY ONLY <2>2, FS_Interval
  <2> QED BY <2>1, <2>3, FS_Subset
<1>4. Cardinality(B) # 0 /\ Cardinality(B) # 1 /\ Cardinality(B) \in Nat
  <2> HIDE DEF B
  <2>1. Cardinality(B) \in Nat
    BY <1>3, FS_CardinalityType
  <2>2. B # {}
    BY <1>2
  <2>3. ~\E x : B = {x}
    BY <1>2
  <2>4. Cardinality(B) # 0
    BY <1>3, <2>2, FS_EmptySet
  <2>5. Cardinality(B) # 1
    BY <1>3, <2>3, FS_Singleton
  <2> QED BY <2>1, <2>4, <2>5
<1> DEFINE N == Cardinality(B)
<1>5. N > 1
  <2>1. N # 0 /\ N # 1 /\ N \in Nat
    BY <1>4
  <2> HIDE DEF N
  <2> QED BY <2>1
<1> QED BY <1>5 DEF Straddles

\* A point read of a key the table does not hold finds nothing.
LEMMA AbsentKey ==
    ASSUME LayoutInv, Sound, NEW k, Versions(Entries, k) = {}
    PROVE  handle_get(k) = NoEntry /\ reader_get(k) = NoEntry /\ ~Straddles(k)
<1> DEFINE c == find_block_index(k)
<1>0. pc = "written"
  BY DEF Sound
<1>1. ASSUME NEW b \in 1..Len(file.index) PROVE Versions(OwnEntries(b), k) = {}
  <2> DEFINE f == FirstOf(file.index, b)
  <2>1. \A j \in Versions(OwnEntries(b), k) : f + j - 1 \in Versions(Entries, k)
    BY <1>0, VersionsInBlock
  <2> QED BY <2>1
<1>2. ASSUME NEW b \in 1..Len(file.index)
      PROVE  Stored(b) = OwnEntries(b) /\ fetch_block(b) = OwnEntries(b) /\ OwnEntries(b) # Error
  BY WholeBlock
<1>3. c = 0 \/ c \in 1..Len(file.index)
  BY <1>0, BlockFound
<1>4. ~Straddles(k)
  <2> DEFINE B == {b \in 1..block_count : \E e \in Range(Stored(b)) : e.key = k}
  <2>1. ASSUME NEW b \in 1..block_count, NEW e \in Range(Stored(b)), e.key = k PROVE FALSE
    <3>1. b \in 1..Len(file.index)
      BY <1>0, FileFacts
    <3> DEFINE O == OwnEntries(b)
    <3>2. Stored(b) = O /\ Versions(O, k) = {}
      BY <1>1, <1>2, <3>1
    <3>3. Len(O) = file.index[b].size - 1 /\ DOMAIN O = 1..(file.index[b].size - 1)
      BY <1>0, <3>1, OwnEntry
    <3> HIDE DEF O
    <3>4. PICK j \in DOMAIN O : e = O[j]
      BY <3>2 DEF Range
    <3>5. j \in Versions(O, k)
      BY <2>1, <3>3, <3>4 DEF Versions
    <3> QED BY <3>2, <3>5
  <2>2. B = {}
    BY <2>1
  <2>3. Cardinality(B) = 0
    BY <2>2, FS_EmptySet
  <2> QED BY <2>3 DEF Straddles
<1>5. CASE c = 0
  BY <1>4, <1>5 DEF handle_get, reader_get
<1>6. CASE c \in 1..Len(file.index)
  <2> HIDE DEF c
  <2>1. Stored(c) = OwnEntries(c) /\ fetch_block(c) = OwnEntries(c) /\ OwnEntries(c) # Error
    BY <1>2, <1>6
  <2>2. Versions(Stored(c), k) = {} /\ {fetch_block(c)[i] : i \in Versions(fetch_block(c), k)} = {}
    BY <1>1, <1>6, <2>1
  <2>3. handle_get(k) = NoEntry
    BY <2>1, <2>2 DEF handle_get, c
  <2>4. reader_get(k) = NoEntry
    BY <2>1, <2>2 DEF reader_get, c
  <2> QED BY <1>4, <2>3, <2>4
<1> QED BY <1>3, <1>5, <1>6

\* A point read of a key the table holds finds its newest version; if the
\* versions straddle blocks, one of them.
LEMMA PresentKey ==
    ASSUME LayoutInv, ContentInv, Sound, NEW k, Versions(Entries, k) # {}
    PROVE  /\ handle_get(k) = reader_get(k)
           /\ handle_get(k) \in {Entries[i] : i \in Versions(Entries, k)}
           /\ ~Straddles(k) => handle_get(k) = Newest(k)
<1> DEFINE E == Versions(Entries, k)
           p == Max(E)
           q == Min(E)
<1>0. pc = "written" /\ Len(written) \in Nat
  BY FileFacts DEF Sound
<1>1. E = {i \in 1..Len(written) : written[i].key = k} /\ E \subseteq 0..Len(written)
  BY <1>0, VersionsWritten
<1>2. p \in E /\ \A i \in E : i <= p
  <2> HIDE DEF E
  <2> QED BY <1>0, <1>1, MaxOf DEF E
<1>3. q \in E /\ \A i \in E : q <= i
  <2>1. E \subseteq Nat
    BY <1>1
  <2> HIDE DEF E
  <2> QED BY <2>1, MinOf DEF E
<1> HIDE DEF p, q
<1>4. p \in 1..Len(written) /\ k = written[p].key /\ \A i \in 1..Len(written) : written[i].key = k => i <= p
  BY <1>1, <1>2
<1>5. PICK c \in 1..Len(file.index) :
          /\ FirstOf(file.index, c) <= p
          /\ p < FirstOf(file.index, c) + (file.index[c].size - 1)
  BY <1>0, <1>4, InSomeBlock
<1>6. find_block_index(k) = c
  BY <1>0, <1>4, <1>5, KeyBlock
<1>7. maybe_contains(record_id(k)) /\ may_contain_key(k)
  BY <1>0, <1>4, FilterAdmits
<1> DEFINE f == FirstOf(file.index, c)
           n == file.index[c].size - 1
           O == OwnEntries(c)
           V == Versions(O, k)
           found == {O[i] : i \in V}
           m == Min(V)
<1>8. Stored(c) = O /\ fetch_block(c) = O /\ O # Error
  BY WholeBlock
<1>9. /\ \A j \in V : j \in Nat /\ f + j - 1 \in E /\ O[j] = Entries[f + j - 1]
      /\ \A i \in E : f <= i /\ i < f + n => i - f + 1 \in V
  BY <1>0, VersionsInBlock
<1>10. V # {}
  BY <1>2, <1>5, <1>9
<1>11. /\ m \in V /\ \A j \in V : m <= j
       /\ (CHOOSE e \in found : \A g \in found : g.seq <= e.seq) = O[m]
       /\ found # {}
  BY <1>0, <1>10, NewestInBlock
<1>12. f \in Nat /\ n \in Nat
  BY <1>0, OwnEntry
<1> HIDE DEF O, V, m, f, n
<1>13. handle_get(k) = O[m]
  <2>1. handle_get(k) = CHOOSE e \in found : \A g \in found : g.seq <= e.seq
    <3> DEFINE b == find_block_index(k)
               fd == {fetch_block(b)[i] : i \in Versions(fetch_block(b), k)}
    <3>1. b = c /\ fetch_block(b) = O /\ fd = found
      BY <1>6, <1>8 DEF V
    <3>2. b # 0
      BY <1>5, <3>1
    <3>3. handle_get(k) = IF ~maybe_contains(record_id(k)) \/ b = 0 THEN NoEntry
                          ELSE IF fetch_block(b) = Error THEN Garbage
                          ELSE IF fd = {} THEN NoEntry
                          ELSE CHOOSE e \in fd : \A g \in fd : g.seq <= e.seq
      BY DEF handle_get
    <3> HIDE DEF b, fd, found
    <3> QED BY <1>7, <1>8, <1>11, <3>1, <3>2, <3>3
  <2> QED BY <1>11, <2>1
<1>14. reader_get(k) = O[m]
  <2> DEFINE b == find_block_index(k)
             fd == Versions(Stored(b), k)
  <2>1. b = c /\ Stored(b) = O /\ fd = V
    BY <1>6, <1>8 DEF V
  <2>2. b # 0
    BY <1>5, <2>1
  <2>3. reader_get(k) = IF ~may_contain_key(k) \/ ~maybe_contains(record_id(k)) \/ b = 0 THEN NoEntry
                        ELSE IF Stored(b) = Error THEN Garbage
                        ELSE IF fd = {} THEN NoEntry ELSE Stored(b)[Min(fd)]
    BY DEF reader_get
  <2> HIDE DEF b, fd
  <2> QED BY <1>7, <1>8, <1>10, <2>1, <2>2, <2>3 DEF m
<1>15. O[m] = Entries[f + m - 1] /\ f + m - 1 \in E /\ m \in Nat
  BY <1>9, <1>11
<1>16. ASSUME ~Straddles(k) PROVE O[m] = Newest(k)
  <2>1. q \in 1..Len(written)
    BY <1>1, <1>3
  <2>2. PICK d \in 1..Len(file.index) :
            /\ FirstOf(file.index, d) <= q
            /\ q < FirstOf(file.index, d) + (file.index[d].size - 1)
    BY <1>0, <2>1, InSomeBlock
  <2>3. Versions(OwnEntries(d), k) # {}
    <3> DEFINE g == FirstOf(file.index, d)
               s == file.index[d].size - 1
    <3>1. \A i \in E : g <= i /\ i < g + s => i - g + 1 \in Versions(OwnEntries(d), k)
      BY <1>0, VersionsInBlock
    <3> QED BY <1>3, <2>2, <3>1
  <2>4. d = c
    BY <1>10, <1>16, <2>3, TwoBlocks DEF V, O
  <2>5. f <= q /\ q < f + n
    BY <2>2, <2>4 DEF f, n
  <2>6. q - f + 1 \in V
    BY <1>3, <1>9, <2>5
  <2>7. m <= q - f + 1 /\ q <= f + m - 1
    BY <1>3, <1>11, <1>15, <2>6
  <2>8. q \in Nat
    BY <1>0, <2>1
  <2>9. q = f + m - 1
    BY ONLY <1>12, <1>15, <2>7, <2>8
  <2>10. Newest(k) = Entries[q]
    BY DEF Newest, q
  <2> QED BY <1>15, <2>9, <2>10
<1> QED BY <1>13, <1>14, <1>15, <1>16

\* The token of every write is found.
LEMMA TokensFound ==
    ASSUME LayoutInv, ContentInv, pc = "written", NEW e \in Range(written), e.token # NoToken
    PROVE  check_dedup(e.token)
<1>1. written \in Seq(WrittenEntries)
  BY FileFacts
<1>2. PICK p \in 1..Len(written) : e = written[p]
  BY <1>1 DEF Range
<1>3. e.token \in TokensOf(written)
  BY <1>2 DEF TokensOf
<1>4. file.dedup = TokensOf(written)
  <2> DEFINE f == bloom(RecordsOf(written))
             t == TokensOf(written)
             m == [min_key |-> truncate_key(written[1].key), max_key |-> truncate_key(Last(written).key)]
  <2>1. file = [data |-> file.data, index |-> file.index, filter |-> f, dedup |-> t, footer |-> m]
    BY DEF ContentInv
  <2> HIDE DEF f, t, m
  <2>2. file.dedup = t
    BY <2>1
  <2> QED BY <2>2 DEF t
<1> QED BY <1>3, <1>4 DEF check_dedup

\* SSTableHandle::get and SSTableReader::get of an undamaged table agree: they
\* find every key the table holds, in its newest version unless its versions
\* straddle blocks, and nothing for a key it does not hold;
\* check_dedup finds the token of every write.
THEOREM PointReadsFindKeys == Spec => []GetFindsKey
<1>1. LayoutInv /\ ContentInv => GetFindsKey
  <2> SUFFICES ASSUME LayoutInv, ContentInv, Sound PROVE GetFindsKey
    BY DEF GetFindsKey
  <2>1. ASSUME NEW k \in Keys
        PROVE  /\ handle_get(k) = reader_get(k)
               /\ IF Straddles(k) THEN handle_get(k) \in {Entries[i] : i \in Versions(Entries, k)}
                                  ELSE handle_get(k) = Newest(k)
    <3>1. CASE Versions(Entries, k) = {}
      <4>1. Newest(k) = NoEntry
        BY <3>1 DEF Newest
      <4> QED BY <3>1, <4>1, AbsentKey
    <3>2. CASE Versions(Entries, k) # {}
      BY <3>2, PresentKey
    <3> QED BY <3>1, <3>2
  <2>2. ASSUME NEW e \in Range(written), e.token # NoToken PROVE check_dedup(e.token)
    BY <2>2, TokensFound DEF Sound
  <2> QED BY <2>1, <2>2 DEF GetFindsKey
<1> QED BY <1>1, LayoutInvariant, ContentInvariant, PTL

-----------------------------------------------------------------------------
(* Scans *)

\* The last block that begins at or before a key, and every block before it.
LEMMA BlocksUpTo ==
    ASSUME LayoutInv, ContentInv, pc = "written", NEW k \in Strings, NEW b \in 1..Len(file.index)
    PROVE  AtMost(file.index[b].first_key, k) <=> b <= find_block_index(k)
<1> DEFINE x == file.index
           w == written
           l == Len(x)
           S == {c \in 1..block_count : AtMost(x[c].first_key, k)}
           m == Max(S)
<1>0. w \in Seq(WrittenEntries) /\ InOrder(w) /\ block_count = l /\ l \in Nat /\ Len(w) \in Nat
  BY FileFacts DEF ContentInv
<1>1. S = {c \in 1..l : AtMost(x[c].first_key, k)} /\ find_block_index(k) = Cardinality(S)
  BY <1>0 DEF find_block_index
<1>2. ASSUME NEW c \in 1..l, NEW d \in 1..l, c < d, AtMost(x[d].first_key, k)
      PROVE  AtMost(x[c].first_key, k)
  <2> DEFINE f == FirstOf(x, c)
             g == FirstOf(x, d)
             n == x[c].size - 1
  <2>1. f \in 1..Len(w) /\ x[c].first_key = w[f].key
    BY BlockStart
  <2>2. g \in 1..Len(w) /\ x[d].first_key = w[g].key
    BY BlockStart
  <2>3. f + n <= g
    BY <1>2, FirstInOrder
  <2>4. f \in Nat /\ n \in Nat /\ n >= 1
    BY OwnEntry
  <2> HIDE DEF f, g, n
  <2>5. f < g
    BY <1>0, <2>2, <2>3, <2>4
  <2>6. AtMost(w[f].key, w[g].key) /\ w[f].key \in Strings /\ w[g].key \in Strings
    BY <1>0, <2>1, <2>2, <2>5, Ordered, WrittenKey
  <2>7. AtMost(w[g].key, k)
    BY <1>2, <2>2
  <2> DEFINE y == w[f].key
             z == w[g].key
  <2>8. AtMost(y, z) /\ AtMost(z, k) /\ y \in Strings /\ z \in Strings
    BY <2>6, <2>7
  <2>9. AtMost(y, k)
    <3> HIDE DEF y, z
    <3> QED BY <2>8, BelowTransitive DEF AtMost
  <2> QED BY <2>1, <2>9
<1>3. b \in S <=> AtMost(x[b].first_key, k)
  BY <1>1
<1> HIDE DEF S, l
<1>4. CASE S = {}
  <2>1. find_block_index(k) = 0
    BY <1>1, <1>4, FS_EmptySet
  <2>2. ~(b <= 0)
    BY <1>0 DEF l
  <2> QED BY <1>3, <1>4, <2>1, <2>2
<1>5. CASE S # {}
  <2>1. S \subseteq 0..l
    BY <1>0, <1>1
  <2>2. m \in S /\ \A c \in S : c <= m
    BY <1>0, <1>5, <2>1, MaxOf
  <2> HIDE DEF m
  <2>3. m \in 1..l /\ AtMost(x[m].first_key, k) /\ m \in Int /\ m >= 1
    BY <1>0, <1>1, <2>2
  <2>4. ASSUME NEW c \in 1..l PROVE c \in S <=> c <= m
    <3>1. c = m \/ c < m \/ ~(c <= m)
      BY <1>0, <2>3
    <3>2. CASE c = m
      BY <2>2, <2>3, <3>2
    <3>3. CASE c < m
      <4>1. AtMost(x[c].first_key, k)
        BY <1>2, <2>3, <3>3
      <4> QED BY <1>0, <1>1, <2>3, <3>3, <4>1
    <3>4. CASE ~(c <= m)
      BY <2>2, <3>4
    <3> QED BY <3>1, <3>2, <3>3, <3>4
  <2>5. S = 1..m
    <3>1. S = {c \in 1..l : c <= m}
      BY <1>1, <2>4
    <3>2. {c \in 1..l : c <= m} = 1..m
      BY ONLY <1>0, <2>3
    <3> QED BY <3>1, <3>2
  <2>6. Cardinality(1..m) = m
    <3>1. 1 \in Int /\ m \in Int
      BY <2>3
    <3>2. Cardinality(1..m) = IF 1 > m THEN 0 ELSE m - 1 + 1
      BY ONLY <3>1, FS_Interval
    <3> QED BY <2>3, <3>2
  <2>7. find_block_index(k) = m
    BY <1>1, <2>5, <2>6
  <2> QED BY <1>3, <2>4, <2>7 DEF l
<1> QED BY <1>4, <1>5

\* The places of an undamaged table, as positions among the written entries.
Position(p) == FirstOf(file.index, p[1]) + p[2] - 1

\* The entry at a place.
LEMMA EntryAt ==
    ASSUME LayoutInv, pc = "written", NEW blocks, blocks \subseteq 1..Len(file.index),
           NEW content, \A b \in blocks : content[b] = OwnEntries(b),
           NEW p \in Places(blocks, content)
    PROVE  /\ p = <<p[1], p[2]>> /\ p[1] \in blocks /\ p[1] \in 1..Len(file.index)
           /\ p[2] \in 1..(file.index[p[1]].size - 1)
           /\ Position(p) \in 1..Len(written)
           /\ content[p[1]][p[2]] = Entries[Position(p)]
<1>1. PICK b \in blocks : p \in {b} \X (1..Len(content[b]))
  BY DEF Places
<1>2. p = <<p[1], p[2]>> /\ p[1] = b /\ p[2] \in 1..Len(content[b])
  BY <1>1
<1> DEFINE f == FirstOf(file.index, b)
           n == file.index[b].size - 1
           j == p[2]
<1>3. b \in 1..Len(file.index) /\ content[b] = OwnEntries(b)
  BY <1>1
<1>4. /\ f \in Nat /\ n \in Nat /\ f >= 1 /\ n >= 1 /\ f + n <= Len(written) + 1
      /\ Len(OwnEntries(b)) = n /\ DOMAIN OwnEntries(b) = 1..n
      /\ \A i \in 1..n : /\ f + i - 1 \in 1..Len(written)
                         /\ OwnEntries(b)[i] = Entries[f + i - 1]
  <2>1. /\ LayoutInv /\ pc = "written" /\ b \in 1..Len(file.index)
        /\ f = FirstOf(file.index, b) /\ n = file.index[b].size - 1
    BY <1>3
  <2> HIDE DEF f, n
  <2>2. Spans(b, f, n)
    BY ONLY <2>1, OwnSpan
  <2> QED BY ONLY <2>2 DEF Spans
<1>5. j \in 1..n
  BY <1>2, <1>3, <1>4
<1>6. Position(p) = f + j - 1
  BY <1>2 DEF Position
<1>7. content[b][j] = Entries[f + j - 1] /\ f + j - 1 \in 1..Len(written)
  BY <1>3, <1>4, <1>5
<1> QED BY <1>1, <1>2, <1>3, <1>5, <1>6, <1>7

\* Places come in the order of the written entries.
LEMMA PlacesOrdered ==
    ASSUME LayoutInv, pc = "written",
           NEW b \in 1..Len(file.index), NEW c \in 1..Len(file.index),
           NEW i \in 1..(file.index[b].size - 1), NEW j \in 1..(file.index[c].size - 1),
           b < c \/ (b = c /\ i < j)
    PROVE  FirstOf(file.index, b) + i - 1 < FirstOf(file.index, c) + j - 1
<1> DEFINE f == FirstOf(file.index, b)
           g == FirstOf(file.index, c)
           n == file.index[b].size - 1
           m == file.index[c].size - 1
<1>1. f \in Nat /\ n \in Nat
  BY OwnEntry
<1>2. g \in Nat /\ m \in Nat
  BY OwnEntry
<1>3. b < c => f + n <= g
  BY FirstInOrder
<1>4. b = c => f = g
  OBVIOUS
<1>5. i \in 1..n /\ j \in 1..m
  OBVIOUS
<1> HIDE DEF f, g, n, m
<1>6. f + i - 1 < g + j - 1
  <2>1. CASE b < c
    BY <1>1, <1>2, <1>3, <1>5, <2>1
  <2>2. CASE b = c /\ i < j
    BY <1>1, <1>2, <1>4, <1>5, <2>2
  <2> QED BY <2>1, <2>2
<1> QED BY <1>6 DEF f, g

\* Every entry of a block has a place.
LEMMA PlaceOf ==
    ASSUME LayoutInv, pc = "written", NEW d \in 1..Len(file.index), NEW i \in 1..Len(written),
           NEW blocks, d \in blocks, NEW content, content[d] = OwnEntries(d),
           NEW f, f = FirstOf(file.index, d), NEW n, n = file.index[d].size - 1, f <= i, i < f + n
    PROVE  \E p \in Places(blocks, content) : Position(p) = i
<1> DEFINE j == i - f + 1
           p == <<d, j>>
<1>0. Len(written) \in Nat /\ f \in Nat /\ n \in Nat /\ Len(OwnEntries(d)) = n
  BY FileFacts, OwnEntry
<1>1. f <= i /\ i < f + n /\ i \in 1..Len(written)
  OBVIOUS
<1>2. j \in 1..n /\ f + j - 1 = i
  BY ONLY <1>0, <1>1
<1> HIDE DEF j
<1>3. j \in 1..Len(content[d])
  BY <1>0, <1>2
<1>4. p \in Places(blocks, content)
  BY <1>3 DEF Places
<1>5. Position(p) = i
  BY <1>2 DEF Position
<1> QED BY <1>4, <1>5

\* Listing the hits among the places of blocks lists the written entries that
\* are hits, if each of them lies in one of the blocks.
LEMMA ListsHits ==
    ASSUME LayoutInv, ContentInv, pc = "written",
           NEW blocks, blocks \subseteq 1..Len(file.index),
           NEW content, \A b \in blocks : content[b] = OwnEntries(b),
           NEW hits, hits \subseteq 1..Len(written),
           NEW P, P = {p \in Places(blocks, content) : Position(p) \in hits},
           \A i \in hits : \E d \in blocks :
               /\ FirstOf(file.index, d) <= i
               /\ i < FirstOf(file.index, d) + (file.index[d].size - 1),
           NEW answer, answer = [p \in P |-> content[p[1]][p[2]]]
    PROVE  Lists(answer, hits)
<1>0. written \in Seq(WrittenEntries) /\ InOrder(written)
  BY FileFacts DEF ContentInv
<1>1. ASSUME NEW p \in P
      PROVE  /\ answer[p] = Entries[Position(p)] /\ Position(p) \in hits /\ Position(p) \in 1..Len(written)
             /\ p[1] \in 1..Len(file.index) /\ p[2] \in 1..(file.index[p[1]].size - 1)
  <2>1. p \in Places(blocks, content) /\ Position(p) \in hits
    OBVIOUS
  <2> QED BY <2>1, EntryAt
<1>2. ASSUME NEW i \in hits PROVE \E p \in P : Position(p) = i
  <2>1. PICK d \in blocks : /\ FirstOf(file.index, d) <= i
                            /\ i < FirstOf(file.index, d) + (file.index[d].size - 1)
    OBVIOUS
  <2>2. i \in 1..Len(written)
    OBVIOUS
  <2>3. \E p \in Places(blocks, content) : Position(p) = i
    <3>1. LayoutInv /\ pc = "written" /\ d \in 1..Len(file.index) /\ content[d] = OwnEntries(d)
      OBVIOUS
    <3> DEFINE f == FirstOf(file.index, d)
               n == file.index[d].size - 1
    <3>2. d \in blocks /\ f = FirstOf(file.index, d) /\ n = file.index[d].size - 1 /\ f <= i /\ i < f + n
      BY <2>1
    <3> HIDE DEF f, n
    <3> QED BY ONLY <2>2, <3>1, <3>2, PlaceOf
  <2> QED BY <2>3
<1>3. DOMAIN answer = P
  OBVIOUS
<1>4. Range(answer) = {Entries[i] : i \in hits}
  <2>1. Range(answer) = {answer[p] : p \in P}
    BY <1>3 DEF Range
  <2>2. ASSUME NEW p \in P PROVE answer[p] \in {Entries[i] : i \in hits}
    BY <1>1
  <2>3. ASSUME NEW i \in hits PROVE Entries[i] \in {answer[p] : p \in P}
    <3>1. PICK p \in P : Position(p) = i
      BY <1>2
    <3>2. answer[p] = Entries[i]
      BY <1>1, <3>1
    <3> QED BY <3>2
  <2> QED BY ONLY <2>1, <2>2, <2>3
<1>5. ASSUME NEW p \in P, NEW q \in P, p[1] < q[1] \/ (p[1] = q[1] /\ p[2] < q[2])
      PROVE  Precedes(answer[p], answer[q])
  <2> DEFINE i == Position(p)
             j == Position(q)
  <2>1. i < j
    <3>1. FirstOf(file.index, p[1]) + p[2] - 1 < FirstOf(file.index, q[1]) + q[2] - 1
      BY <1>1, <1>5, PlacesOrdered
    <3> QED BY <3>1 DEF Position
  <2>2. i \in 1..Len(written) /\ j \in 1..Len(written) /\ answer[p] = Entries[i] /\ answer[q] = Entries[j]
    BY <1>1
  <2> HIDE DEF i, j
  <2>3. /\ answer[p].key = written[i].key /\ answer[p].seq = written[i].seq
        /\ answer[q].key = written[j].key /\ answer[q].seq = written[j].seq
    <3>1. \A h \in 1..Len(written) : Entries[h].key = written[h].key /\ Entries[h].seq = written[h].seq
      BY <1>0, EntriesType
    <3> QED BY ONLY <2>2, <3>1
  <2>4. \/ Below(written[i].key, written[j].key)
        \/ written[i].key = written[j].key /\ written[j].seq < written[i].seq
    BY <1>0, <2>1, <2>2 DEF InOrder
  <2> QED BY <2>3, <2>4 DEF Precedes
<1> QED BY <1>3, <1>4, <1>5 DEF Lists

\* A written entry in the range of a scan lies in a block that is scanned.
LEMMA HitScanned ==
    ASSUME LayoutInv, ContentInv, Sound, NEW start \in Strings, NEW end \in Strings, ~Straddles(start),
           NEW i \in 1..Len(written), AtMost(start, written[i].key), Below(written[i].key, end),
           NEW d \in 1..Len(file.index), FirstOf(file.index, d) <= i,
           i < FirstOf(file.index, d) + (file.index[d].size - 1)
    PROVE  d \in Scanned(start, end)
<1> DEFINE x == file.index
           w == written
           g == find_block_index(start)
           from == Max({g, 1})
<1>0. /\ w \in Seq(WrittenEntries) /\ InOrder(w) /\ block_count = Len(x) /\ Len(x) \in Nat
      /\ Len(w) \in Nat /\ pc = "written" /\ w[i].key \in Strings
  BY FileFacts, WrittenKey DEF ContentInv, Sound
<1>1. g = 0 \/ g \in 1..Len(x)
  BY <1>0, BlockFound
<1>2. g \in Nat /\ d \in Nat /\ d >= 1 /\ d <= Len(x)
  BY <1>0, <1>1
<1>3. from \in {g, 1} /\ g <= from /\ 1 <= from /\ from \in Nat
  <2> HIDE DEF g
  <2> DEFINE T == {g, 1}
             n == g + 1
  <2>1. T \subseteq 0..n /\ T # {} /\ n \in Nat
    BY <1>2
  <2>2. from = Max(T) /\ g \in T /\ 1 \in T
    OBVIOUS
  <2> HIDE DEF T, n, from
  <2>3. from \in T /\ g <= from /\ 1 <= from
    BY <2>1, <2>2, MaxOf
  <2> QED BY <1>2, <2>3 DEF T
<1>4. g <= d
  <2> SUFFICES ASSUME ~(g <= d) PROVE FALSE
    OBVIOUS
  <2>1. g \in 1..Len(x) /\ d < g /\ g <= g
    BY <1>1, <1>2
  <2>2. AtMost(x[g].first_key, start)
    <3> DEFINE h == g
    <3>1. h \in 1..Len(x) /\ h <= find_block_index(start)
      BY <2>1
    <3> HIDE DEF h
    <3>2. AtMost(file.index[h].first_key, start)
      BY <1>0, <3>1, BlocksUpTo
    <3> QED BY <3>2 DEF h
  <2> HIDE DEF g
  <2> DEFINE f == FirstOf(x, g)
             e == FirstOf(x, d)
             n == x[d].size - 1
  <2>3. f \in 1..Len(w) /\ x[g].first_key = w[f].key
    BY <1>0, <2>1, BlockStart
  <2>4. e + n <= f /\ e \in Nat /\ n \in Nat /\ e <= i /\ i < e + n
    BY <1>0, <2>1, FirstInOrder, OwnEntry
  <2>5. i < f
    <3> HIDE DEF f, e, n
    <3> QED BY <1>0, <2>3, <2>4
  <2>6. f < f + (x[g].size - 1)
    <3> DEFINE s == x[g].size - 1
    <3>1. f \in Nat /\ s \in Nat /\ s >= 1
      BY <1>0, <2>1, OwnEntry
    <3> HIDE DEF f, s
    <3>2. f < f + s
      BY <3>1
    <3> QED BY <3>2 DEF s
  <2>7. w[f].key = start /\ w[i].key = start
    <3> HIDE DEF f
    <3>1. AtMost(w[i].key, w[f].key) /\ w[f].key \in Strings
      BY <1>0, <2>3, <2>5, Ordered, WrittenKey
    <3> DEFINE y == w[i].key
               z == w[f].key
    <3>2. AtMost(start, y) /\ AtMost(y, z) /\ AtMost(z, start) /\ y \in Strings /\ z \in Strings
      BY <1>0, <2>2, <2>3, <3>1
    <3> HIDE DEF y, z
    <3>3. z = start
      <4> SUFFICES ASSUME Below(z, start) PROVE FALSE
        BY <3>2 DEF AtMost
      <4>1. ~AtMost(start, z)
        BY <3>2, BelowAsymmetric
      <4>2. AtMost(start, z)
        BY <3>2, BelowTransitive DEF AtMost
      <4> QED BY <4>1, <4>2
    <3>4. y = start
      <4> SUFFICES ASSUME Below(start, y) PROVE FALSE
        BY <3>2 DEF AtMost
      <4>1. ~AtMost(y, start)
        BY <3>2, BelowAsymmetric
      <4> QED BY <3>2, <3>3, <4>1
    <3> QED BY <3>3, <3>4 DEF y, z
  <2>8. i \in Versions(Entries, start) /\ f \in Versions(Entries, start)
    <3>1. Versions(Entries, start) = {q \in 1..Len(written) : written[q].key = start}
      BY <1>0, VersionsWritten
    <3> QED BY <2>3, <2>7, <3>1
  <2>9. Versions(OwnEntries(d), start) # {}
    <3>1. \A q \in Versions(Entries, start) : e <= q /\ q < e + n =>
              q - e + 1 \in Versions(OwnEntries(d), start)
      BY <1>0, VersionsInBlock
    <3> QED BY <2>4, <2>8, <3>1
  <2>10. Versions(OwnEntries(g), start) # {}
    <3> DEFINE s == x[g].size - 1
    <3>1. \A q \in Versions(Entries, start) : f <= q /\ q < f + s =>
              q - f + 1 \in Versions(OwnEntries(g), start)
      BY <1>0, <2>1, VersionsInBlock
    <3>2. f <= f
      BY <1>0, <2>3
    <3> QED BY <2>6, <2>8, <3>1, <3>2
  <2>11. d # g
    BY <1>2, <2>1
  <2> QED BY <2>1, <2>9, <2>10, <2>11, TwoBlocks
<1> HIDE DEF g, from
<1>5. d \in from..block_count
  BY <1>0, <1>2, <1>3, <1>4
<1>6. ASSUME NEW c \in (from + 1)..d PROVE Below(x[c].first_key, end)
  <2>1. c \in 1..Len(x) /\ (c = d \/ c < d)
    BY <1>0, <1>2, <1>3
  <2> DEFINE f == FirstOf(x, c)
             e == FirstOf(x, d)
             n == x[c].size - 1
  <2>2. f \in 1..Len(w) /\ x[c].first_key = w[f].key
    BY <1>0, <2>1, BlockStart
  <2>3. f <= i
    <3>1. CASE c = d
      BY <3>1
    <3>2. CASE c < d
      <4>1. f + n <= e /\ f \in Nat /\ n \in Nat /\ e \in Nat /\ e <= i
        <5>1. f + n <= e
          BY <1>0, <2>1, <3>2, FirstInOrder
        <5>2. f \in Nat /\ n \in Nat
          BY <1>0, <2>1, OwnEntry
        <5>3. e \in Nat
          BY <1>0, OwnEntry
        <5> QED BY <5>1, <5>2, <5>3
      <4> HIDE DEF f, e, n
      <4> QED BY <1>0, <4>1
    <3> QED BY <2>1, <3>1, <3>2
  <2> HIDE DEF f
  <2>4. AtMost(w[f].key, w[i].key) /\ w[f].key \in Strings
    <3>1. w[f].key \in Strings
      BY <1>0, <2>2, WrittenKey
    <3>2. CASE f = i
      BY <3>1, <3>2 DEF AtMost
    <3>3. CASE f < i
      BY <1>0, <2>2, <3>1, <3>3, Ordered
    <3> QED BY <1>0, <2>2, <2>3, <3>2, <3>3
  <2> DEFINE y == w[f].key
             z == w[i].key
  <2>5. AtMost(y, z) /\ Below(z, end) /\ y \in Strings /\ z \in Strings
    BY <1>0, <2>4
  <2>6. Below(y, end)
    <3> HIDE DEF y, z
    <3> QED BY <2>5, BelowTransitive DEF AtMost
  <2> QED BY <2>2, <2>6
<1>7. Scanned(start, end) = {b \in from..block_count :
                               \A c \in (from + 1)..b : Below(x[c].first_key, end)}
  BY DEF Scanned, from, g
<1> QED BY <1>5, <1>6, <1>7

\* A scan of an undamaged table lists what was written in its range.
LEMMA ScanLists ==
    ASSUME LayoutInv, ContentInv, Sound, NEW start \in Strings, NEW end \in Strings, ~Straddles(start)
    PROVE  Lists(scan(start, end), InRange(start, end)) /\ reader_scan(start, end) = scan(start, end)
<1> DEFINE blocks == Scanned(start, end)
           content == [b \in 1..block_count |-> fetch_block(b)]
           stored == [b \in 1..block_count |-> Stored(b)]
           hits == InRange(start, end)
           At(p) == content[p[1]][p[2]]
           Hit(p) == AtMost(start, At(p).key) /\ Below(At(p).key, end)
           Q == {q \in Places(blocks, content) : Hit(q)}
           P == {q \in Places(blocks, content) : Position(q) \in hits}
           answer == [p \in Q |-> content[p[1]][p[2]]]
<1>0. /\ written \in Seq(WrittenEntries) /\ block_count = Len(file.index) /\ Len(file.index) \in Nat
      /\ Len(written) \in Nat /\ pc = "written"
  BY FileFacts DEF Sound
<1>1. \A b \in 1..Len(file.index) :
          Stored(b) = OwnEntries(b) /\ fetch_block(b) = OwnEntries(b) /\ OwnEntries(b) # Error
  BY WholeBlock
<1>2. stored = content
  BY <1>0, <1>1
<1>3. reader_scan(start, end) = scan(start, end)
  <2>1. reader_scan(start, end) = Collected(start, end, stored)
    BY DEF reader_scan
  <2>2. scan(start, end) = Collected(start, end, content)
    BY DEF scan
  <2> HIDE DEF stored, content
  <2> QED BY <1>2, <2>1, <2>2
<1>4. blocks \subseteq 1..Len(file.index)
  <2> DEFINE g == find_block_index(start)
             from == Max({g, 1})
  <2>1. blocks \subseteq from..block_count
    BY DEF Scanned
  <2>2. from \in {g, 1} /\ 1 <= from /\ from \in Nat
    <3>1. g \in Nat
      <4>1. g = 0 \/ g \in 1..Len(file.index)
        BY <1>0, BlockFound
      <4> QED BY <1>0, <4>1
    <3> HIDE DEF g
    <3> DEFINE T == {g, 1}
               n == g + 1
    <3>2. T \subseteq 0..n /\ T # {} /\ n \in Nat
      BY <3>1
    <3>3. from = Max(T) /\ 1 \in T
      OBVIOUS
    <3> HIDE DEF T, n, from
    <3>4. from \in T /\ 1 <= from
      BY <3>2, <3>3, MaxOf
    <3> QED BY <3>1, <3>4 DEF T
  <2> HIDE DEF g, from, blocks
  <2> QED BY <1>0, <2>1, <2>2
<1>5. \A b \in blocks : content[b] = OwnEntries(b) /\ content[b] # Error
  BY <1>0, <1>1, <1>4
<1>6. scan(start, end) = answer
  <2>1. ~\E b \in blocks : content[b] = Error
    BY <1>5
  <2>2. scan(start, end) = Collected(start, end, content)
    BY DEF scan
  <2> HIDE DEF content
  <2>3. Collected(start, end, content) = IF \E b \in blocks : content[b] = Error THEN Error ELSE answer
    BY DEF Collected
  <2> QED BY <2>1, <2>2, <2>3
<1> HIDE DEF blocks, content
<1>7. ASSUME NEW q \in Places(blocks, content) PROVE Hit(q) <=> Position(q) \in hits
  <2> DEFINE i == Position(q)
  <2>1. i \in 1..Len(written) /\ At(q) = Entries[i]
    BY <1>0, <1>4, <1>5, EntryAt
  <2> HIDE DEF i
  <2>2. \A h \in 1..Len(written) : Entries[h].key = written[h].key
    BY <1>0, EntriesType
  <2>3. At(q).key = written[i].key
    BY <2>1, <2>2
  <2> HIDE DEF At
  <2>4. Hit(q) <=> i \in hits
    BY <2>1, <2>3 DEF InRange
  <2> QED BY <2>4 DEF i
<1>8. Q = P
  <2> HIDE DEF Hit, hits
  <2> QED BY <1>7
<1>9. ASSUME NEW i \in hits
      PROVE  \E d \in blocks : /\ FirstOf(file.index, d) <= i
                               /\ i < FirstOf(file.index, d) + (file.index[d].size - 1)
  <2>1. i \in 1..Len(written) /\ AtMost(start, written[i].key) /\ Below(written[i].key, end)
    BY DEF InRange
  <2>2. PICK d \in 1..Len(file.index) :
            /\ FirstOf(file.index, d) <= i
            /\ i < FirstOf(file.index, d) + (file.index[d].size - 1)
    BY <1>0, <2>1, InSomeBlock
  <2>3. d \in blocks
    BY <2>1, <2>2, HitScanned DEF blocks
  <2> QED BY <2>2, <2>3
<1>10. hits \subseteq 1..Len(written)
  BY DEF InRange
<1>11. Lists(answer, hits)
  <2>1. answer = [p \in P |-> content[p[1]][p[2]]]
    BY <1>8
  <2>2. \A b \in blocks : content[b] = OwnEntries(b)
    BY <1>5
  <2>3. P = {p \in Places(blocks, content) : Position(p) \in hits}
    OBVIOUS
  <2> HIDE DEF hits, P, answer
  <2> QED BY <1>0, <1>4, <1>9, <1>10, <2>1, <2>2, <2>3, ListsHits
<1> QED BY <1>3, <1>6, <1>11

\* Reading an undamaged table block after block lists every written entry.
LEMMA IterateLists ==
    ASSUME LayoutInv, ContentInv, Sound
    PROVE  Lists(IterateAll, 1..Len(written))
<1> DEFINE blocks == 1..block_count
           content == [b \in 1..block_count |-> Stored(b)]
           hits == 1..Len(written)
           P == {q \in Places(blocks, content) : Position(q) \in hits}
           answer == [p \in P |-> content[p[1]][p[2]]]
<1>0. block_count = Len(file.index) /\ pc = "written"
  BY FileFacts DEF Sound
<1>1. blocks \subseteq 1..Len(file.index) /\ \A b \in blocks : content[b] = OwnEntries(b)
  <2>1. \A b \in 1..Len(file.index) : Stored(b) = OwnEntries(b)
    BY WholeBlock
  <2> QED BY <1>0, <2>1
<1>2. ASSUME NEW p \in Places(blocks, content)
      PROVE  Position(p) \in hits /\ content[p[1]][p[2]] = Stored(p[1])[p[2]]
  <2> HIDE DEF blocks, content
  <2>1. Position(p) \in 1..Len(written) /\ p[1] \in blocks
    BY <1>0, <1>1, EntryAt
  <2> QED BY <2>1 DEF blocks, content
<1>3. IterateAll = answer
  <2>1. IterateAll = [p \in Places(blocks, content) |-> Stored(p[1])[p[2]]]
    BY DEF IterateAll
  <2> HIDE DEF blocks, content, hits
  <2>2. P = Places(blocks, content)
    BY <1>2
  <2> HIDE DEF P
  <2> QED BY <1>2, <2>1, <2>2
<1>4. ASSUME NEW i \in hits
      PROVE  \E d \in blocks : /\ FirstOf(file.index, d) <= i
                               /\ i < FirstOf(file.index, d) + (file.index[d].size - 1)
  BY <1>0, InSomeBlock
<1>5. Lists(answer, hits)
  <2>1. hits \subseteq 1..Len(written) /\ P = {p \in Places(blocks, content) : Position(p) \in hits}
        /\ answer = [p \in P |-> content[p[1]][p[2]]]
    OBVIOUS
  <2> HIDE DEF blocks, content, hits, P, answer
  <2> QED BY <1>0, <1>1, <1>4, <2>1, ListsHits
<1> QED BY <1>3, <1>5

\* SSTableHandle::scan, SSTableReader::scan and the iterator of an undamaged
\* table return what was written in the range, in order and nothing else,
\* however the blocks were cut, unless the start has versions in two blocks.
THEOREM ScansAreExact == Spec => []ScanExact
<1>1. LayoutInv /\ ContentInv => ScanExact
  <2> SUFFICES ASSUME LayoutInv, ContentInv, Sound PROVE ScanExact
    BY DEF ScanExact
  <2>1. \A k \in Keys : k \in Strings
    BY KeyOf DEF Strings
  <2> QED BY <2>1, IterateLists, ScanLists DEF ScanExact
<1> QED BY <1>1, LayoutInvariant, ContentInvariant, PTL

\* The parts of a key, once it has a name.
LEMMA KeyBytes ==
    ASSUME NEW r \in Records, NEW i \in Strings, NEW k, k = encode(r, i)
    PROVE  /\ k \in Strings /\ Len(r) \in Nat /\ Len(r) >= 1 /\ Len(k) = Len(r) + 1 + Len(i)
           /\ \A j \in 1..Len(r) : k[j] = r[j]
           /\ k[Len(r) + 1] = 0
           /\ \A j \in 1..Len(i) : k[Len(r) + 1 + j] = i[j]
           /\ record_id(k) = r /\ item_key(k) = i
<1>1. i \in Seq(0..255)
  BY DEF Strings
<1>2. /\ encode(r, i) \in Seq(0..255)
      /\ Len(r) \in Nat \ {0} /\ Len(i) \in Nat
      /\ Len(encode(r, i)) = Len(r) + 1 + Len(i)
      /\ \A j \in 1..Len(r) : encode(r, i)[j] = r[j]
      /\ encode(r, i)[Len(r) + 1] = 0
      /\ \A j \in 1..Len(i) : encode(r, i)[Len(r) + 1 + j] = i[j]
      /\ SeparatorPos(encode(r, i)) = Len(r) + 1
      /\ record_id(encode(r, i)) = r /\ item_key(encode(r, i)) = i
  BY ONLY <1>1, r \in Records, KeyParts
<1>3. Len(r) \in Nat /\ Len(r) >= 1
  BY ONLY <1>2
<1> QED BY <1>2, <1>3 DEF Strings

\* Between the smallest and the largest key of a record lie the keys of that
\* record, but for the range tombstones.
LEMMA RecordBounds ==
    ASSUME NEW r \in Records, NEW k \in Keys
    PROVE  /\ min_key_for_record(r) \in Strings /\ max_key_for_record(r) \in Strings
           /\ AtMost(min_key_for_record(r), k) /\ Below(k, max_key_for_record(r))
                <=> record_id(k) = r /\ ~is_range_tombstone(k)
<1> DEFINE s == min_key_for_record(r)
           e == max_key_for_record(r)
           t == <<255>>
           n == Len(r)
<1>0. t \in Strings /\ Len(t) = 1 /\ t[1] = 255 /\ <<>> \in Strings /\ Len(<<>>) = 0
  BY DEF Strings
<1>1. /\ s \in Strings /\ n \in Nat /\ n >= 1 /\ Len(s) = n + 1
      /\ \A j \in 1..n : s[j] = r[j]
      /\ s[n + 1] = 0
  <2>1. s = encode(r, <<>>)
    BY DEF min_key_for_record
  <2> HIDE DEF s
  <2>2. /\ s \in Strings /\ Len(r) \in Nat /\ Len(r) >= 1 /\ Len(s) = Len(r) + 1 + Len(<<>>)
        /\ \A j \in 1..Len(r) : s[j] = r[j]
        /\ s[Len(r) + 1] = 0
    BY <1>0, <2>1, KeyBytes
  <2> QED BY <1>0, <2>2
<1>2. /\ e \in Strings /\ Len(e) = n + 2
      /\ \A j \in 1..n : e[j] = r[j]
      /\ e[n + 1] = 0 /\ e[n + 2] = 255
  <2>1. e = encode(r, t)
    BY DEF max_key_for_record, RANGE_TOMBSTONE_PREFIX
  <2> HIDE DEF t, e
  <2>2. /\ e \in Strings /\ Len(e) = n + 1 + Len(t)
        /\ \A j \in 1..n : e[j] = r[j]
        /\ e[n + 1] = 0
        /\ \A j \in 1..Len(t) : e[n + 1 + j] = t[j]
    <3>1. r \in Records /\ t \in Strings /\ e = encode(r, t)
      BY <1>0, <2>1
    <3>2. /\ e \in Strings /\ Len(r) \in Nat /\ Len(r) >= 1 /\ Len(e) = Len(r) + 1 + Len(t)
          /\ \A j \in 1..Len(r) : e[j] = r[j]
          /\ e[Len(r) + 1] = 0
          /\ \A j \in 1..Len(t) : e[Len(r) + 1 + j] = t[j]
          /\ record_id(e) = r /\ item_key(e) = t
      BY ONLY <3>1, KeyBytes
    <3> QED BY <3>2
  <2>3. e[n + 1 + 1] = 255
    BY <1>0, <2>2
  <2> QED BY <1>0, <1>1, <2>2, <2>3
<1>3. PICK q \in Records, i \in Items : k = encode(q, i)
  BY DEF Keys
<1>4. i \in Seq(0..255) /\ i \in Strings /\ Len(i) \in Nat
  BY SSTableAssumption, LenProperties DEF Strings
<1>5. /\ k \in Strings /\ Len(k) = Len(q) + 1 + Len(i)
      /\ \A j \in 1..Len(q) : k[j] = q[j]
      /\ k[Len(q) + 1] = 0
      /\ \A j \in 1..Len(i) : k[Len(q) + 1 + j] = i[j]
      /\ record_id(k) = q /\ item_key(k) = i /\ Len(q) \in Nat
  <2>1. q \in Records /\ i \in Seq(0..255) /\ k = encode(q, i)
    BY <1>3, <1>4
  <2> HIDE DEF s, e, t, n
  <2>2. /\ encode(q, i) \in Seq(0..255)
        /\ Len(q) \in Nat \ {0} /\ Len(i) \in Nat
        /\ Len(encode(q, i)) = Len(q) + 1 + Len(i)
        /\ \A j \in 1..Len(q) : encode(q, i)[j] = q[j]
        /\ encode(q, i)[Len(q) + 1] = 0
        /\ \A j \in 1..Len(i) : encode(q, i)[Len(q) + 1 + j] = i[j]
        /\ SeparatorPos(encode(q, i)) = Len(q) + 1
        /\ record_id(encode(q, i)) = q /\ item_key(encode(q, i)) = i
    BY ONLY <2>1, KeyParts
  <2> QED BY <2>1, <2>2 DEF Strings
<1> HIDE DEF s, e, n
<1>6. is_range_tombstone(k) <=> Len(i) # 0 /\ i[1] = 255
  <2>1. i # <<>> <=> Len(i) # 0
    BY <1>4, EmptySeq
  <2> QED BY <1>5, <2>1 DEF is_range_tombstone, RANGE_TOMBSTONE_PREFIX
<1>7. ASSUME q = r, ~is_range_tombstone(k) PROVE AtMost(s, k) /\ Below(k, e)
  <2>1. /\ Len(k) = n + 1 + Len(i) /\ k[n + 1] = 0 /\ \A j \in 1..n : k[j] = r[j]
        /\ \A j \in 1..Len(i) : k[n + 1 + j] = i[j]
    BY <1>5, <1>7 DEF n
  <2>2. \A j \in 1..(n + 1) : k[j] = s[j] /\ k[j] = e[j]
    <3> TAKE j \in 1..(n + 1)
    <3>1. j \in 1..n \/ j = n + 1
      BY <1>1
    <3> QED BY <1>1, <1>2, <2>1, <3>1
  <2>3. CASE Len(i) = 0
    <3>1. k = s
      <4>1. Len(k) = n + 1
        BY <1>1, <2>1, <2>3
      <4> QED BY <1>1, <1>5, <2>2, <4>1, SeqEqual DEF Strings
    <3>2. /\ n + 2 \in 1..Len(e) /\ n + 2 <= Len(k) + 1 /\ ~(n + 2 <= Len(k)) /\ (n + 2) - 1 = n + 1
      BY <1>1, <1>2, <2>1, <2>3
    <3>3. Below(k, e)
      BY <2>2, <3>2 DEF Below
    <3> QED BY <3>1, <3>3 DEF AtMost
  <2>4. CASE Len(i) # 0
    <3>1. 1 \in 1..Len(i)
      BY <1>4, <2>4
    <3>2. k[n + 2] = i[1] /\ i[1] # 255
      <4>1. n + 1 + 1 = n + 2
        BY <1>1
      <4>2. k[n + 1 + 1] = i[1]
        BY <2>1, <3>1
      <4> QED BY <1>6, <1>7, <2>4, <4>1, <4>2
    <3>3. k[n + 2] < e[n + 2]
      <4>1. i[1] \in 0..255
        BY <1>4, <3>1, ByteAt
      <4> DEFINE y == i[1]
      <4>2. y < 255
        <5>1. y \in 0..255 /\ y # 255
          BY <3>2, <4>1
        <5> HIDE DEF y
        <5> QED BY <5>1
      <4> QED BY <1>2, <3>2, <4>2
    <3>4. /\ n + 2 \in 1..Len(e) /\ n + 2 \in 1..Len(k) /\ n + 2 <= Len(k) + 1 /\ (n + 2) - 1 = n + 1
          /\ n + 2 <= Len(s) + 1 /\ ~(n + 2 <= Len(s))
      BY <1>1, <1>2, <1>4, <2>1, <2>4
    <3>5. Below(k, e)
      BY <2>2, <3>3, <3>4 DEF Below
    <3>6. Below(s, k)
      BY <2>2, <3>4 DEF Below
    <3> QED BY <3>5, <3>6 DEF AtMost
  <2> QED BY <2>3, <2>4
<1>8. ASSUME AtMost(s, k), Below(k, e) PROVE q = r /\ ~is_range_tombstone(k)
  <2>1. PICK h \in 1..Len(e) : /\ h <= Len(k) + 1
                               /\ \A j \in 1..(h - 1) : k[j] = e[j]
                               /\ h <= Len(k) => k[h] < e[h]
    BY <1>2, <1>5, <1>8, BelowAt
  <2>2. h = n + 2
    <3> SUFFICES ASSUME h # n + 2 PROVE FALSE
      OBVIOUS
    <3>1. h \in 1..(n + 1) /\ h \in 1..Len(s) /\ h \in Nat
      BY <1>1, <1>2
    <3>2. \A j \in 1..(n + 1) : s[j] = e[j]
      <4> TAKE j \in 1..(n + 1)
      <4>1. j \in 1..n \/ j = n + 1
        BY <1>1
      <4> QED BY <1>1, <1>2, <4>1
    <3>3. \A j \in 1..(h - 1) : k[j] = s[j]
      <4> TAKE j \in 1..(h - 1)
      <4>1. j \in 1..(n + 1)
        BY <1>1, <3>1
      <4> QED BY <2>1, <3>2, <4>1
    <3>4. h <= Len(k) => k[h] < s[h]
      BY <2>1, <3>1, <3>2
    <3>5. Below(k, s)
      BY <2>1, <3>1, <3>3, <3>4 DEF Below
    <3> QED BY <1>1, <1>5, <1>8, <3>5, BelowAsymmetric
  <2>3. \A j \in 1..(n + 1) : k[j] = e[j]
    <3>1. h - 1 = n + 1
      BY <1>1, <2>2
    <3> QED BY <2>1, <3>1
  <2>4. Len(q) = n
    <3>1. \A j \in 1..n : k[j] # 0
      <4> TAKE j \in 1..n
      <4>1. j \in 1..(n + 1)
        BY <1>1
      <4>2. r[j] # 0
        BY SSTableAssumption DEF valid_record_id, SEPARATOR, n
      <4> QED BY <1>2, <2>3, <4>1, <4>2
    <3>2. k[n + 1] = 0
      BY <1>1, <1>2, <2>3
    <3>3. \A j \in 1..Len(q) : k[j] # 0
      <4>1. \A j \in 1..Len(q) : q[j] # 0
        BY SSTableAssumption DEF valid_record_id, SEPARATOR
      <4> QED BY ONLY <1>5, <4>1
    <3>4. ~(Len(q) + 1 \in 1..n) /\ ~(n + 1 \in 1..Len(q))
      BY <1>5, <3>1, <3>2, <3>3
    <3> DEFINE m == Len(q)
    <3>5. m \in Nat /\ n \in Nat /\ ~(m + 1 \in 1..n) /\ ~(n + 1 \in 1..m)
      BY <1>1, <1>5, <3>4
    <3> HIDE DEF m
    <3>6. m = n
      BY <3>5
    <3> QED BY <3>6 DEF m
  <2>5. q = r
    <3>1. \A j \in 1..n : q[j] = r[j]
      <4> TAKE j \in 1..n
      <4>1. j \in 1..(n + 1) /\ j \in 1..Len(q)
        BY <1>1, <2>4
      <4> QED BY <1>2, <1>5, <2>3, <4>1
    <3>2. q \in Seq(0..255) /\ r \in Seq(0..255)
      BY SSTableAssumption
    <3> QED BY <2>4, <3>1, <3>2, SeqEqual DEF n
  <2>6. ~is_range_tombstone(k)
    <3> SUFFICES ASSUME Len(i) # 0, i[1] = 255 PROVE FALSE
      BY <1>6
    <3>1. 1 \in 1..Len(i)
      BY <1>4
    <3>2. k[n + 1 + 1] = 255
      BY <1>5, <2>4, <3>1
    <3>3. n + 1 + 1 = h /\ h <= Len(k)
      BY <1>1, <1>4, <1>5, <2>2, <2>4
    <3>4. k[h] = 255 /\ e[h] = 255
      BY <1>2, <2>2, <3>2, <3>3
    <3>5. k[h] < e[h]
      BY <2>1, <3>3
    <3>6. 255 < 255
      BY <3>4, <3>5
    <3> QED BY <3>6
  <2> QED BY <2>5, <2>6
<1> QED BY <1>1, <1>2, <1>5, <1>7, <1>8 DEF s, e

\* The scan of a record between min_key_for_record and max_key_for_record
\* returns the entries of that record alone, and none of its range tombstones.
THEOREM RecordScansAreExact == Spec => []RecordScan
<1>1. LayoutInv /\ ContentInv => RecordScan
  <2> SUFFICES ASSUME LayoutInv, ContentInv, Sound, NEW r \in Records,
                      ~Straddles(min_key_for_record(r))
               PROVE  Lists(scan(min_key_for_record(r), max_key_for_record(r)),
                            {i \in 1..Len(written) :
                                /\ record_id(written[i].key) = r
                                /\ ~is_range_tombstone(written[i].key)})
    BY DEF RecordScan
  <2> DEFINE s == min_key_for_record(r)
             e == max_key_for_record(r)
             hits == {i \in 1..Len(written) :
                         /\ record_id(written[i].key) = r
                         /\ ~is_range_tombstone(written[i].key)}
  <2>1. written \in Seq(WrittenEntries) /\ written # <<>> /\ Len(written) \in Nat
    BY FileFacts DEF Sound, ContentInv
  <2>2. \A i \in 1..Len(written) : written[i].key \in Keys
    BY <2>1, WrittenKey
  <2>3. s \in Strings /\ e \in Strings
    <3>1. 1 \in 1..Len(written)
      BY <2>1, EmptySeq
    <3> QED BY <2>2, <3>1, RecordBounds
  <2>4. InRange(s, e) = hits
    <3>1. \A i \in 1..Len(written) :
              AtMost(s, written[i].key) /\ Below(written[i].key, e)
                <=> record_id(written[i].key) = r /\ ~is_range_tombstone(written[i].key)
      BY <2>2, RecordBounds
    <3> HIDE DEF s, e
    <3> QED BY <3>1 DEF InRange
  <2>5. Lists(scan(s, e), InRange(s, e))
    BY <2>3, ScanLists
  <2> QED BY <2>4, <2>5
<1> QED BY <1>1, LayoutInvariant, ContentInvariant, PTL

=============================================================================
