--------------------------- MODULE Namespaces_proofs ---------------------------
(***************************************************************************)
(* Proofs about the server process: one writer per partition directory,    *)
(* acknowledged writes kept and served, and a shutdown that loses nothing. *)
(***************************************************************************)
EXTENDS Namespaces, FiniteSetTheorems, SequenceTheorems, WellFoundedInduction, TLAPS

-----------------------------------------------------------------------------
(* Sequences *)

\* A non-empty set of numbers has a least element.
LEMMA LeastNumber ==
    ASSUME NEW S, S \subseteq Nat, S # {}
    PROVE  \E x \in S : \A y \in S : x <= y
<1> DEFINE Lower == OpToRel(<, Nat)
<1>1. PICK x \in S : \A y \in S : <<y, x>> \notin Lower
  BY NatLessThanWellFounded, WFMin
<1>2. Lower = {p \in Nat \X Nat : p[1] < p[2]}
  BY Zenon DEF OpToRel
<1> HIDE DEF Lower
<1>3. \A y \in S : ~(y < x)
  BY <1>1, <1>2
<1> QED BY <1>3

\* A set as a sequence: each element of the set, and nothing else.
LEMMA SetToSeqElements ==
    ASSUME NEW S, IsFiniteSet(S)
    PROVE  /\ Cardinality(S) \in Nat
           /\ SetToSeq(S) \in [1 .. Cardinality(S) -> S]
           /\ \A x \in S : \E k \in 1 .. Cardinality(S) : SetToSeq(S)[k] = x
<1> DEFINE D == 1 .. Cardinality(S)
<1>1. Cardinality(S) \in Nat /\ ExistsBijection(D, S)
  BY FS_CardinalityType
<1>2. IsFiniteSet(D) /\ Cardinality(D) = Cardinality(S)
  BY <1>1, FS_Interval
<1> HIDE DEF D
<1>3. \E f \in [D -> S] : IsInjective(f)
  BY <1>1 DEF ExistsBijection, Bijection, Injection
<1>4. SetToSeq(S) \in [D -> S] /\ IsInjective(SetToSeq(S))
  BY <1>3 DEF SetToSeq, D
<1>5. SetToSeq(S) \in Injection(D, S)
  BY <1>4 DEF Injection
<1>6. SetToSeq(S) \in Surjection(D, S)
  BY <1>2, <1>5, FS_Injection
<1>7. \A x \in S : \E k \in D : SetToSeq(S)[k] = x
  BY <1>6 DEF Surjection
<1> QED BY <1>1, <1>4, <1>7 DEF D

\* The function FlattenSeq computes exists: the sequences up to the i-th, one
\* after the other.
LEMMA FlattenExists ==
    ASSUME NEW seqs, NEW m \in Nat
    PROVE  \E f : f = [i \in 1 .. m |->
                          IF i = 1 THEN seqs[i] ELSE f[i-1] \o seqs[i]]
<1> DEFINE Good(n) == \E f : f = [i \in 1 .. n |->
                                     IF i = 1 THEN seqs[i] ELSE f[i-1] \o seqs[i]]
           Bad == {n \in Nat : ~Good(n)}
<1>1. Good(0)
  <2> DEFINE f == [i \in 1 .. 0 |-> seqs[i]]
  <2>1. f = [i \in 1 .. 0 |-> IF i = 1 THEN seqs[i] ELSE f[i-1] \o seqs[i]]
    OBVIOUS
  <2> QED BY <2>1
<1>2. ASSUME NEW n \in Nat, Good(n) PROVE Good(n + 1)
  <2>1. PICK f : f = [i \in 1 .. n |-> IF i = 1 THEN seqs[i] ELSE f[i-1] \o seqs[i]]
    BY <1>2
  <2> DEFINE last == IF n + 1 = 1 THEN seqs[n + 1] ELSE f[n] \o seqs[n + 1]
             g == [i \in 1 .. n + 1 |-> IF i = n + 1 THEN last ELSE f[i]]
  <2>2. ASSUME NEW i \in 1 .. n + 1
        PROVE  g[i] = IF i = 1 THEN seqs[i] ELSE g[i-1] \o seqs[i]
    <3>1. CASE i = n + 1
      <4>1. g[i] = last
        BY <3>1
      <4>2. i # 1 => g[i - 1] = f[n] /\ i - 1 = n
        BY <3>1
      <4> HIDE DEF g
      <4> QED BY <3>1, <4>1, <4>2
    <3>2. CASE i # n + 1
      <4>1. i \in 1 .. n
        BY <3>2
      <4>2. f[i] = IF i = 1 THEN seqs[i] ELSE f[i-1] \o seqs[i]
        BY <2>1, <4>1
      <4>3. g[i] = f[i] /\ (i # 1 => g[i - 1] = f[i - 1])
        BY <4>1
      <4> HIDE DEF g
      <4> QED BY <4>2, <4>3
    <3> QED BY <3>1, <3>2
  <2>3. g = [i \in 1 .. n + 1 |-> g[i]]
    OBVIOUS
  <2> HIDE DEF g
  <2>4. g = [i \in 1 .. n + 1 |-> IF i = 1 THEN seqs[i] ELSE g[i-1] \o seqs[i]]
    BY <2>2, <2>3
  <2> QED BY <2>4
<1> HIDE DEF Good
<1>3. Bad = {}
  <2> SUFFICES ASSUME Bad # {} PROVE FALSE
    OBVIOUS
  <2>1. PICK n \in Bad : \A k \in Bad : n <= k
    BY LeastNumber
  <2>2. n # 0
    BY <1>1
  <2>3. n - 1 \in Nat /\ n - 1 \notin Bad
    BY <2>1, <2>2
  <2>4. Good(n - 1) /\ (n - 1) + 1 = n
    BY <2>3
  <2> QED BY <1>2, <2>1, <2>3, <2>4
<1> QED BY <1>3 DEF Good

\* What FlattenSeq returns: the elements of the sequences, and nothing else.
LEMMA FlattenElements ==
    ASSUME NEW S, NEW seqs \in Seq(Seq(S))
    PROVE  /\ FlattenSeq(seqs) \in Seq(S)
           /\ \A x : Among(x, FlattenSeq(seqs)) <=>
                  \E k \in 1 .. Len(seqs) : Among(x, seqs[k])
<1>0. Len(seqs) \in Nat /\ \A k \in 1 .. Len(seqs) : seqs[k] \in Seq(S)
  BY LenProperties, ElementOfSeq
<1>1. CASE Len(seqs) = 0
  <2>1. seqs = <<>> /\ FlattenSeq(seqs) = <<>>
    BY <1>1, EmptySeq DEF FlattenSeq
  <2>2. FlattenSeq(seqs) \in Seq(S) /\ Len(FlattenSeq(seqs)) = 0
    BY <2>1, EmptySeq
  <2>3. 1 .. 0 = {}
    OBVIOUS
  <2> QED BY <1>1, <2>2, <2>3, Zenon DEF Among
<1>2. CASE Len(seqs) # 0
  <2> DEFINE Rec(f) == [i \in 1 .. Len(seqs) |->
                           IF i = 1 THEN seqs[i] ELSE f[i-1] \o seqs[i]]
             flat == CHOOSE f : f = Rec(f)
  <2>1. \E f : f = Rec(f)
    BY <1>0, FlattenExists
  <2>2. flat = Rec(flat)
    BY <2>1
  <2>3. FlattenSeq(seqs) = flat[Len(seqs)]
    BY <1>2 DEF FlattenSeq
  <2> HIDE DEF flat
  <2>4. \A i \in 1 .. Len(seqs) : flat[i] = IF i = 1 THEN seqs[i] ELSE flat[i-1] \o seqs[i]
    BY <2>2
  <2> HIDE DEF Rec
  <2> DEFINE Good(i) == /\ flat[i] \in Seq(S)
                        /\ \A x : Among(x, flat[i]) <=> \E k \in 1 .. i : Among(x, seqs[k])
             Bad == {i \in 1 .. Len(seqs) : ~Good(i)}
  <2>5. Good(1)
    <3>1. flat[1] = seqs[1]
      BY <1>0, <1>2, <2>4
    <3> QED BY <1>0, <1>2, <3>1
  <2>6. ASSUME NEW i \in 1 .. Len(seqs), i # 1, Good(i - 1) PROVE Good(i)
    <3>1. flat[i] = flat[i-1] \o seqs[i]
      BY <2>4, <2>6
    <3>2. flat[i-1] \in Seq(S) /\ seqs[i] \in Seq(S)
      BY <1>0, <2>6
    <3>3. flat[i] \in Seq(S)
      BY <3>1, <3>2, ConcatProperties
    <3>4. \A x : Among(x, flat[i]) <=> Among(x, flat[i-1]) \/ Among(x, seqs[i])
      <4> DEFINE s == flat[i-1]
                 t == seqs[i]
      <4>1. /\ Len(s) \in Nat /\ Len(t) \in Nat /\ Len(s \o t) = Len(s) + Len(t)
            /\ \A k \in 1 .. Len(s) + Len(t) :
                  (s \o t)[k] = IF k <= Len(s) THEN s[k] ELSE t[k - Len(s)]
        BY <3>2, ConcatProperties, LenProperties
      <4> HIDE DEF s, t
      <4>2. \A x : Among(x, s) => Among(x, s \o t)
        BY <4>1 DEF Among
      <4>3. \A x : Among(x, t) => Among(x, s \o t)
        <5> SUFFICES ASSUME NEW x, NEW k \in 1 .. Len(t), t[k] = x
                     PROVE  Among(x, s \o t)
          BY DEF Among
        <5>1. Len(s) + k \in 1 .. Len(s) + Len(t) /\ (s \o t)[Len(s) + k] = x
          BY <4>1
        <5> QED BY <4>1, <5>1 DEF Among
      <4>4. \A x : Among(x, s \o t) => Among(x, s) \/ Among(x, t)
        <5> SUFFICES ASSUME NEW x, NEW k \in 1 .. Len(s) + Len(t), (s \o t)[k] = x
                     PROVE  Among(x, s) \/ Among(x, t)
          BY <4>1 DEF Among
        <5>1. CASE k <= Len(s)
          BY <4>1, <5>1 DEF Among
        <5>2. CASE ~(k <= Len(s))
          <6>1. k - Len(s) \in 1 .. Len(t) /\ t[k - Len(s)] = x
            BY <4>1, <5>2
          <6> QED BY <6>1 DEF Among
        <5> QED BY <5>1, <5>2
      <4>5. flat[i] = s \o t
        BY <3>1 DEF s, t
      <4> QED BY <4>2, <4>3, <4>4, <4>5 DEF s, t
    <3>5. \A x : (\E k \in 1 .. i : Among(x, seqs[k])) <=>
                 (\E k \in 1 .. i - 1 : Among(x, seqs[k])) \/ Among(x, seqs[i])
      <4>1. 1 .. i = (1 .. i - 1) \cup {i}
        OBVIOUS
      <4> QED BY <4>1
    <3> QED BY <2>6, <3>3, <3>4, <3>5
  <2>7. Bad = {}
    <3> HIDE DEF Good
    <3> SUFFICES ASSUME Bad # {} PROVE FALSE
      OBVIOUS
    <3>0. Bad \subseteq Nat
      BY <1>0
    <3>1. PICK i \in Bad : \A k \in Bad : i <= k
      BY <3>0, LeastNumber
    <3>2. i # 1 /\ i \in 1 .. Len(seqs) /\ ~Good(i)
      BY <2>5
    <3>3. i - 1 \in 1 .. Len(seqs) /\ i - 1 \notin Bad
      BY <1>0, <3>1, <3>2
    <3> QED BY <2>6, <3>2, <3>3
  <2>8. Good(Len(seqs))
    <3> HIDE DEF Good
    <3>1. Len(seqs) \in 1 .. Len(seqs)
      BY <1>0, <1>2
    <3> QED BY <2>7, <3>1
  <2> QED BY <2>3, <2>8
<1> QED BY <1>1, <1>2

-----------------------------------------------------------------------------
(* The map and the partitions *)

\* The vector that maintenance and stop_all go through holds the partitions of
\* the map.
LEMMA PartitionsOfMap ==
    ASSUME TypeOK, RoutingInv
    PROVE  /\ AllPartitions \in Seq(1 .. Len(insts))
           /\ \A i : Among(i, AllPartitions) <=> Registered(i)
<1> DEFINE groups == {namespaces[n] : n \in Names}
           entries == UNION {namespaces[n] : n \in Names}
           order == SetToSeq(entries)
           seqs == [k \in 1 .. Cardinality(entries) |-> order[k].partitions]
<1>1. \A n \in Names : IsFiniteSet(namespaces[n])
  <2> SUFFICES ASSUME NEW n \in Names PROVE IsFiniteSet(namespaces[n])
    OBVIOUS
  <2>1. \A e, f \in namespaces[n] : e = f
    BY DEF RoutingInv
  <2>2. namespaces[n] = {} \/ \E e : namespaces[n] = {e}
    BY <2>1, Zenon
  <2> QED BY <2>2, FS_EmptySet, FS_Singleton, ZenonT(40)
<1>2. IsFiniteSet(groups)
  <2> DEFINE f == [n \in Names |-> namespaces[n]]
  <2>1. f \in Surjection(Names, groups)
    BY DEF Surjection
  <2>2. IsFiniteSet(Names)
    BY NamespacesAssumption
  <2> HIDE DEF f, groups
  <2> QED BY <2>1, <2>2, FS_Surjection
<1>3. IsFiniteSet(entries)
  BY <1>1, <1>2, FS_UNION
<1>4. \A e \in entries : e.partitions \in Seq(1 .. Len(insts))
  BY DEF TypeOK
<1>5. /\ Cardinality(entries) \in Nat
      /\ order \in [1 .. Cardinality(entries) -> entries]
      /\ \A e \in entries : \E k \in 1 .. Cardinality(entries) : order[k] = e
  <2> HIDE DEF entries
  <2> QED BY <1>3, SetToSeqElements
<1>6. \A i : Registered(i) <=> \E e \in entries : Among(i, e.partitions)
  BY Zenon DEF Registered, Among
<1>7. AllPartitions = FlattenSeq(seqs)
  BY Zenon DEF AllPartitions
<1> HIDE DEF entries, order
<1>8. seqs \in Seq(Seq(1 .. Len(insts))) /\ Len(seqs) = Cardinality(entries)
  BY <1>4, <1>5, SMTT(30)
<1>9. \A i : (\E k \in 1 .. Len(seqs) : Among(i, seqs[k])) <=>
             \E e \in entries : Among(i, e.partitions)
  <2>1. \A k \in 1 .. Len(seqs) : seqs[k] = order[k].partitions /\ order[k] \in entries
    BY <1>5, <1>8
  <2> HIDE DEF seqs
  <2> QED BY <1>5, <1>8, <2>1, ZenonT(40)
<1> HIDE DEF seqs
<1> QED BY <1>6, <1>7, <1>8, <1>9, FlattenElements

\* A later process position allows what an earlier one allowed.
LEMMA WritesGrow ==
    ASSUME NEW n \in Nat \ {0}
    PROVE  /\ n + 1 \in Nat \ {0}
           /\ WritesBefore(n) \subseteq WritesBefore(n + 1)
           /\ Instances(n) \subseteq Instances(n + 1)
<1>1. 1 .. n - 1 \subseteq 1 .. (n + 1) - 1
  OBVIOUS
<1>2. WritesBefore(n) \subseteq WritesBefore(n + 1)
  BY <1>1 DEF WritesBefore
<1> QED BY <1>2 DEF Instances

\* What is known of a partition that has been opened.
LEMMA InstTypes ==
    ASSUME TypeOK
    PROVE  /\ Len(insts) \in Nat
           /\ \A i \in 1 .. Len(insts) :
                 /\ insts[i] \in Instances(nextWrite)
                 /\ insts[i].dir \in Dirs
                 /\ insts[i].mem \subseteq WritesBefore(nextWrite)
                 /\ insts[i].handles \subseteq WritesBefore(nextWrite)
                 /\ insts[i].state \in {"Active", "Frozen", "Draining", "Stopped"}
<1>1. insts \in Seq(Instances(nextWrite))
  BY DEF TypeOK
<1>2. Len(insts) \in Nat /\ \A i \in 1 .. Len(insts) : insts[i] \in Instances(nextWrite)
  BY <1>1, LenProperties, ElementOfSeq
<1> QED BY <1>2 DEF Instances

\* Partition i with another state, memtable and handles, and the others as
\* they are.
Changed(i, state, mem, handles) ==
    /\ Len(insts') = Len(insts)
    /\ \A j \in 1 .. Len(insts) : j # i => insts'[j] = insts[j]
    /\ insts'[i].dir = insts[i].dir
    /\ insts'[i].state = state
    /\ insts'[i].mem = mem
    /\ insts'[i].handles = handles

\* The forms in which actions change a partition.
LEMMA InstChanged ==
    ASSUME TypeOK, NEW n \in {nextWrite, nextWrite + 1}, NEW i \in 1 .. Len(insts),
           NEW mem \in SUBSET WritesBefore(n), NEW handles \in SUBSET WritesBefore(n),
           NEW state \in {"Active", "Frozen", "Draining", "Stopped"},
           \/ insts' = [insts EXCEPT ![i].mem = mem, ![i].handles = handles, ![i].state = state]
           \/ /\ insts' = [insts EXCEPT ![i].mem = mem, ![i].handles = handles]
              /\ state = insts[i].state
           \/ /\ insts' = [insts EXCEPT ![i].mem = mem, ![i].state = state]
              /\ handles = insts[i].handles
           \/ /\ insts' = [insts EXCEPT ![i].mem = mem]
              /\ handles = insts[i].handles /\ state = insts[i].state
           \/ /\ insts' = [insts EXCEPT ![i].state = state]
              /\ handles = insts[i].handles /\ mem = insts[i].mem
    PROVE  /\ insts' \in Seq(Instances(n))
           /\ Changed(i, state, mem, handles)
<1>1. /\ Len(insts) \in Nat /\ insts \in Seq(Instances(n))
      /\ insts \in [1 .. Len(insts) -> Instances(n)]
  <2>1. insts \in Seq(Instances(nextWrite)) /\ nextWrite \in Nat \ {0}
    BY DEF TypeOK
  <2>2. Instances(nextWrite) \subseteq Instances(n)
    BY <2>1, WritesGrow
  <2>3. insts \in Seq(Instances(n))
    BY <2>1, <2>2, SeqMonotonic
  <2> QED BY <2>3, LenProperties
<1>2. insts[i] \in Instances(n)
  BY <1>1
<1>3. PICK x \in Instances(n) : /\ insts' = [insts EXCEPT ![i] = x]
                                /\ x.dir = insts[i].dir /\ x.state = state
                                /\ x.mem = mem /\ x.handles = handles
  <2>1. CASE insts' = [insts EXCEPT ![i].mem = mem, ![i].handles = handles, ![i].state = state]
    <3> DEFINE y == [insts[i] EXCEPT !.mem = mem, !.handles = handles, !.state = state]
    <3>1. y \in Instances(n) /\ y.dir = insts[i].dir /\ y.state = state
          /\ y.mem = mem /\ y.handles = handles
      BY <1>2, <2>1 DEF Instances
    <3>2. insts' = [insts EXCEPT ![i] = y]
      BY <1>1, <2>1
    <3> HIDE DEF y
    <3> QED BY <3>1, <3>2
  <2>2. CASE insts' = [insts EXCEPT ![i].mem = mem, ![i].handles = handles]
            /\ state = insts[i].state
    <3> DEFINE y == [insts[i] EXCEPT !.mem = mem, !.handles = handles]
    <3>1. y \in Instances(n) /\ y.dir = insts[i].dir /\ y.state = state
          /\ y.mem = mem /\ y.handles = handles
      BY <1>2, <2>2 DEF Instances
    <3>2. insts' = [insts EXCEPT ![i] = y]
      BY <1>1, <2>2
    <3> HIDE DEF y
    <3> QED BY <3>1, <3>2
  <2>3. CASE insts' = [insts EXCEPT ![i].mem = mem, ![i].state = state]
            /\ handles = insts[i].handles
    <3> DEFINE y == [insts[i] EXCEPT !.mem = mem, !.state = state]
    <3>1. y \in Instances(n) /\ y.dir = insts[i].dir /\ y.state = state
          /\ y.mem = mem /\ y.handles = handles
      BY <1>2, <2>3 DEF Instances
    <3>2. insts' = [insts EXCEPT ![i] = y]
      BY <1>1, <2>3
    <3> HIDE DEF y
    <3> QED BY <3>1, <3>2
  <2>4. CASE insts' = [insts EXCEPT ![i].mem = mem]
            /\ handles = insts[i].handles
            /\ state = insts[i].state
    <3> DEFINE y == [insts[i] EXCEPT !.mem = mem]
    <3>1. y \in Instances(n) /\ y.dir = insts[i].dir /\ y.state = state
          /\ y.mem = mem /\ y.handles = handles
      BY <1>2, <2>4 DEF Instances
    <3>2. insts' = [insts EXCEPT ![i] = y]
      BY <1>1, <2>4
    <3> HIDE DEF y
    <3> QED BY <3>1, <3>2
  <2>5. CASE insts' = [insts EXCEPT ![i].state = state]
            /\ handles = insts[i].handles
            /\ mem = insts[i].mem
    <3> DEFINE y == [insts[i] EXCEPT !.state = state]
    <3>1. y \in Instances(n) /\ y.dir = insts[i].dir /\ y.state = state
          /\ y.mem = mem /\ y.handles = handles
      BY <1>2, <2>5 DEF Instances
    <3>2. insts' = [insts EXCEPT ![i] = y]
      BY <1>1, <2>5
    <3> HIDE DEF y
    <3> QED BY <3>1, <3>2
  <2> QED BY <2>1, <2>2, <2>3, <2>4, <2>5
<1> QED BY <1>1, <1>3, ExceptSeq DEF Changed
\* Numbers of partitions are what the types say.
LEMMA HandleTypes ==
    ASSUME TypeOK
    PROVE  /\ \A i : Registered(i) => i \in 1 .. Len(insts)
           /\ \A i : Opening(i) => i \in 1 .. Len(insts)
           /\ \A n \in Names : \A entry \in namespaces[n] :
                 /\ Len(entry.partitions) \in Nat
                 /\ entry.count \in Nat
                 /\ \A k \in 1 .. Len(entry.partitions) :
                       entry.partitions[k] \in 1 .. Len(insts)
<1>1. \A n \in Names : \A entry \in namespaces[n] :
          entry.partitions \in Seq(1 .. Len(insts)) /\ entry.count \in Nat
  <2> SUFFICES ASSUME NEW n \in Names, NEW entry \in namespaces[n]
               PROVE  entry.partitions \in Seq(1 .. Len(insts)) /\ entry.count \in Nat
    OBVIOUS
  <2> DEFINE count == Counts \cup {DefaultCount}
  <2>1. namespaces \in [Names -> SUBSET [count : count, router : count,
                                        partitions : Seq(1 .. Len(insts))]]
    BY DEF TypeOK
  <2>2. count \subseteq Nat
    BY NamespacesAssumption
  <2> HIDE DEF count
  <2>3. entry \in [count : count, router : count, partitions : Seq(1 .. Len(insts))]
    BY <2>1
  <2> QED BY <2>2, <2>3
<1>2. \A n \in Names : \A entry \in namespaces[n] :
          /\ Len(entry.partitions) \in Nat
          /\ \A k \in 1 .. Len(entry.partitions) : entry.partitions[k] \in 1 .. Len(insts)
  BY <1>1, ElementOfSeq, LenProperties
<1>3. \A i : Opening(i) => i \in 1 .. Len(insts)
  <2> SUFFICES ASSUME admin.op = "create", NEW k \in 1 .. Len(admin.opened)
               PROVE  admin.opened[k] \in 1 .. Len(insts)
    BY DEF Opening
  <2>1. admin.opened \in Seq(1 .. Len(insts))
    BY DEF TypeOK, NoCall
  <2> QED BY <2>1, ElementOfSeq
<1> QED BY <1>1, <1>2, <1>3 DEF Registered

\* No two partitions that are in the map, or about to be, share a directory.
LEMMA DirsApart ==
    ASSUME TypeOK, RoutingInv, NEW i, NEW j, Registered(i) \/ Opening(i),
           Registered(j) \/ Opening(j), insts[i].dir = insts[j].dir
    PROVE  i = j
<1>0. admin.op = "create" => Len(admin.opened) \in Nat
  <2> SUFFICES ASSUME admin.op = "create" PROVE Len(admin.opened) \in Nat
    OBVIOUS
  <2>1. admin.opened \in Seq(1 .. Len(insts))
    BY DEF TypeOK, NoCall
  <2> QED BY <2>1, LenProperties
<1>1. CASE Registered(i) /\ Registered(j)
  <2>1. PICK n \in Names : \E entry \in namespaces[n] : \E k \in 1 .. Len(entry.partitions) :
            entry.partitions[k] = i
    BY <1>1 DEF Registered
  <2>2. PICK e \in namespaces[n] : \E k \in 1 .. Len(e.partitions) : e.partitions[k] = i
    BY <2>1
  <2>3. PICK k \in 1 .. Len(e.partitions) : e.partitions[k] = i
    BY <2>2
  <2>4. PICK m \in Names : \E entry \in namespaces[m] : \E l \in 1 .. Len(entry.partitions) :
            entry.partitions[l] = j
    BY <1>1 DEF Registered
  <2>5. PICK f \in namespaces[m] : \E l \in 1 .. Len(f.partitions) : f.partitions[l] = j
    BY <2>4
  <2>6. PICK l \in 1 .. Len(f.partitions) : f.partitions[l] = j
    BY <2>5
  <2>7. <<n, k - 1>> = <<m, l - 1>>
    <3>1. insts[e.partitions[k]].dir = <<n, k - 1>>
      BY DEF RoutingInv
    <3>2. insts[f.partitions[l]].dir = <<m, l - 1>>
      BY DEF RoutingInv
    <3> QED BY <2>3, <2>6, <3>1, <3>2
  <2>8. n = m /\ k = l
    BY <2>7, HandleTypes
  <2>9. e = f
    BY <2>8 DEF RoutingInv
  <2> QED BY <2>3, <2>6, <2>8, <2>9
<1>2. ASSUME NEW x, NEW y, Registered(x), Opening(y), insts[x].dir = insts[y].dir
      PROVE  FALSE
  <2>1. PICK n \in Names : \E entry \in namespaces[n] : \E k \in 1 .. Len(entry.partitions) :
            entry.partitions[k] = x
    BY <1>2 DEF Registered
  <2>2. PICK e \in namespaces[n] : \E k \in 1 .. Len(e.partitions) : e.partitions[k] = x
    BY <2>1
  <2>3. PICK k \in 1 .. Len(e.partitions) : e.partitions[k] = x
    BY <2>2
  <2>4. admin.op = "create" /\ \E l \in 1 .. Len(admin.opened) : admin.opened[l] = y
    BY <1>2 DEF Opening
  <2>5. PICK l \in 1 .. Len(admin.opened) : admin.opened[l] = y
    BY <2>4
  <2>6. <<n, k - 1>> = <<admin.name, l - 1>>
    BY <1>2, <2>3, <2>4, <2>5, ZenonT(40) DEF RoutingInv
  <2>7. namespaces[n] = {}
    BY <2>4, <2>6 DEF RoutingInv
  <2> QED BY <2>7
<1>3. CASE Opening(i) /\ Opening(j)
  <2>1. admin.op = "create"
    BY <1>3 DEF Opening
  <2>2. PICK k \in 1 .. Len(admin.opened) : admin.opened[k] = i
    BY <1>3 DEF Opening
  <2>3. PICK l \in 1 .. Len(admin.opened) : admin.opened[l] = j
    BY <1>3 DEF Opening
  <2>4. <<admin.name, k - 1>> = <<admin.name, l - 1>>
    BY <2>1, <2>2, <2>3 DEF RoutingInv
  <2>5. k = l
    BY <1>0, <2>1, <2>4
  <2> QED BY <2>2, <2>3, <2>5
<1> QED BY <1>1, <1>2, <1>3

\* Partitions change their memtables and their states, but no one that is not
\* writable becomes writable and no one outside the map gets new writes.
Steady ==
    /\ Len(insts') = Len(insts)
    /\ \A j \in 1 .. Len(insts) :
          /\ insts'[j].dir = insts[j].dir
          /\ insts[j].state = "Stopped" => insts'[j].state = "Stopped"
          /\ insts'[j].state = "Active" => insts[j].state = "Active"
          /\ insts[j].mem = {} /\ ~Registered(j) => insts'[j].mem = {}

\* A step of a request, of maintenance or of one partition does not disturb
\* the order of creation, deletion and shutdown.
LEMMA ControlKept ==
    ASSUME TypeOK, ControlInv, Steady, namespaces' = namespaces,
           admin' \in {admin, NoCall},
           \A c \in Clients : req'[c] \in {req[c], Idle},
           \A k \in 1 .. Len(maint'.queue) : Among(maint'.queue[k], maint.queue),
           server' = server, stopping' = stopping
    PROVE  ControlInv'
<1>0. \A i : Registered(i)' <=> Registered(i)
  BY DEF Registered
<1>1. RoutingInv'
  <2>1. \A n \in Names : \A entry \in namespaces[n] : \A k \in 1 .. Len(entry.partitions) :
            insts'[entry.partitions[k]].dir = insts[entry.partitions[k]].dir
    BY HandleTypes DEF Steady
  <2>2. \A i : Opening(i) => insts'[i].dir = insts[i].dir
    BY HandleTypes DEF Steady
  <2>3. admin'.op = "create" => admin' = admin
    BY DEF NoCall
  <2>4. ControlInv => RoutingInv
    BY DEF ControlInv
  <2>5. \A n \in Names : \A entry \in namespaces'[n] :
            /\ \A other \in namespaces'[n] : other = entry
            /\ entry.count = Len(entry.partitions) /\ entry.router = entry.count
            /\ entry.count > 0
            /\ \A k \in 1 .. Len(entry.partitions) :
                   insts'[entry.partitions[k]].dir = <<n, k - 1>>
    <3> SUFFICES ASSUME NEW n \in Names, NEW entry \in namespaces[n]
                 PROVE  /\ \A other \in namespaces[n] : other = entry
                        /\ entry.count = Len(entry.partitions) /\ entry.router = entry.count
                        /\ entry.count > 0
                        /\ \A k \in 1 .. Len(entry.partitions) :
                               insts'[entry.partitions[k]].dir = <<n, k - 1>>
      BY Zenon
    <3>1. /\ \A other \in namespaces[n] : other = entry
          /\ entry.count = Len(entry.partitions) /\ entry.router = entry.count
          /\ entry.count > 0
          /\ \A k \in 1 .. Len(entry.partitions) :
                 insts[entry.partitions[k]].dir = <<n, k - 1>>
      BY <2>4, Zenon DEF RoutingInv
    <3> QED BY <2>1, <3>1, Zenon
  <2>6. ASSUME admin'.op = "create"
        PROVE  /\ namespaces'[admin'.name] = {}
               /\ admin'.count > 0 /\ Len(admin'.opened) <= admin'.count
               /\ \A k \in 1 .. Len(admin'.opened) :
                      insts'[admin'.opened[k]].dir = <<admin'.name, k - 1>>
    <3>1. admin' = admin /\ admin.op = "create"
      BY <2>3, <2>6
    <3>2. \A k \in 1 .. Len(admin.opened) : Opening(admin.opened[k])
      BY <3>1 DEF Opening
    <3> QED BY <2>2, <2>4, <3>1, <3>2 DEF RoutingInv
  <2> QED BY <2>5, <2>6 DEF RoutingInv
<1>2. RequestsInv'
  <2> SUFFICES ASSUME NEW c \in Clients, req'[c] # Idle, insts'[req'[c].inst].state = "Active"
               PROVE  Registered(req'[c].inst)
    BY <1>0 DEF RequestsInv, is_writable
  <2>1. req'[c] = req[c]
    OBVIOUS
  <2>2. req[c].inst \in 1 .. Len(insts)
    BY <2>1 DEF TypeOK
  <2> QED BY <2>1, <2>2 DEF Steady, ControlInv, RequestsInv, is_writable
<1>3. DeleteInv'
  <2> SUFFICES ASSUME admin'.op = "delete" PROVE DeleteInv'
    BY DEF DeleteInv
  <2>1. admin' = admin /\ admin.op = "delete"
    BY DEF NoCall
  <2>2. admin.name \in Names
    BY <2>1 DEF TypeOK, NoCall
  <2>3. \A entry \in namespaces[admin.name] : \A k \in 1 .. Len(entry.partitions) :
            insts[entry.partitions[k]].state = "Stopped"
                => insts'[entry.partitions[k]].state = "Stopped"
    BY <2>2, HandleTypes DEF Steady
  <2> QED BY <1>0, <2>1, <2>3 DEF ControlInv, DeleteInv
<1>4. MaintInv'
  <2> SUFFICES ASSUME NEW k \in 1 .. Len(maint'.queue)
               PROVE  Registered(maint'.queue[k]) \/ insts'[maint'.queue[k]].mem = {}
    BY <1>0 DEF MaintInv
  <2>1. PICK l \in 1 .. Len(maint.queue) : maint.queue[l] = maint'.queue[k]
    BY DEF Among
  <2>2. maint.queue[l] \in 1 .. Len(insts)
    BY ElementOfSeq DEF TypeOK
  <2>3. Registered(maint.queue[l]) \/ insts[maint.queue[l]].mem = {}
    BY DEF ControlInv, MaintInv
  <2> QED BY <2>1, <2>2, <2>3 DEF Steady
<1>5. ShutdownInv'
  <2>1. ShutdownInv
    BY DEF ControlInv
  <2>2. \A i \in 1 .. Len(insts) :
            insts[i].state = "Stopped" => insts'[i].state = "Stopped"
    BY DEF Steady
  <2>3. Len(insts') = Len(insts)
    BY DEF Steady
  <2> QED BY <1>0, <2>1, <2>2, <2>3 DEF ShutdownInv
<1> QED BY <1>1, <1>2, <1>3, <1>4, <1>5 DEF ControlInv
-----------------------------------------------------------------------------
(* What is durable and what is served *)

\* A change of one directory through its partition keeps the others as they
\* are: the partition is the only one of the directory, or nothing durable
\* changes.
LEMMA DataKept ==
    ASSUME TypeOK, RoutingInv, DataInv, NEW i \in 1 .. Len(insts), NEW d \in Dirs,
           d = insts[i].dir,
           Len(insts') = Len(insts),
           \A j \in 1 .. Len(insts) : j # i => insts'[j] = insts[j],
           insts'[i].dir = d,
           \A e \in Dirs : e # d => /\ wal'[e] = wal[e] /\ tables'[e] = tables[e]
                                    /\ acked'[e] = acked[e],
           lost \subseteq lost', skipped \subseteq skipped',
           \A j : Registered(j)' \/ Opening(j)' => Registered(j) \/ Opening(j),
           Registered(i) \/ (wal' = wal /\ tables' = tables /\ acked' = acked),
           DirInv(d)', Registered(i) \/ Opening(i) => ServeInv(i)',
           insts'[i].state = "Stopped" => insts'[i].mem = {}
    PROVE  DataInv'
<1>1. \A e \in Dirs : DirInv(e)'
  <2> SUFFICES ASSUME NEW e \in Dirs, e # d PROVE DirInv(e)'
    OBVIOUS
  <2>1. DirInv(e)
    BY DEF DataInv
  <2> QED BY <2>1 DEF DirInv
<1>2. ASSUME NEW j \in 1 .. Len(insts), Registered(j)' \/ Opening(j)'
      PROVE  ServeInv(j)'
  <2>1. Registered(j) \/ Opening(j)
    BY <1>2
  <2>2. CASE j = i
    BY <2>1, <2>2
  <2>3. CASE j # i
    <3>1. insts'[j] = insts[j] /\ ServeInv(j)
      BY <2>1, <2>3 DEF DataInv
    <3>2. insts[j].dir \in Dirs
      BY InstTypes
    <3>3. /\ wal'[insts[j].dir] = wal[insts[j].dir]
          /\ tables'[insts[j].dir] = tables[insts[j].dir]
          /\ acked'[insts[j].dir] = acked[insts[j].dir]
      BY <2>1, <2>3, <3>2, DirsApart
    <3> QED BY <3>1, <3>3 DEF ServeInv
  <2> QED BY <2>2, <2>3
<1>3. \A j \in 1 .. Len(insts) : insts'[j].state = "Stopped" => insts'[j].mem = {}
  BY DEF DataInv
<1> QED BY <1>1, <1>2, <1>3 DEF DataInv

\* How a partition may change its state in a step that is not its opening.
StateStep(i, state) ==
    /\ state \in {"Active", "Frozen", "Draining", "Stopped"}
    /\ insts[i].state = "Stopped" => state = "Stopped"
    /\ state = "Active" => insts[i].state = "Active"

\* A flush, and a close that flushes.
LEMMA FlushKept ==
    ASSUME TypeOK, RoutingInv, DataInv, NEW i \in 1 .. Len(insts), NEW state,
           StateStep(i, state),
           Registered(i) \/ insts[i].mem = {}, Flushed(i, state),
           \A j : Registered(j)' \/ Opening(j)' => Registered(j) \/ Opening(j),
           acked' = acked, skipped' = skipped
    PROVE  /\ DataInv' /\ Steady
           /\ insts' \in Seq(Instances(nextWrite)) /\ insts'[i].state = state
           /\ wal' \in [Dirs -> SUBSET WritesBefore(nextWrite)]
           /\ tables' \in [Dirs -> SUBSET WritesBefore(nextWrite)]
           /\ lost' = lost
<1>0. PICK d, mem, writes : d = insts[i].dir /\ mem = insts[i].mem
                            /\ writes = WritesBefore(nextWrite)
  OBVIOUS
<1>1. /\ d \in Dirs /\ mem \subseteq writes /\ insts[i].handles \subseteq writes
      /\ wal \in [Dirs -> SUBSET writes] /\ tables \in [Dirs -> SUBSET writes]
      /\ acked \in [Dirs -> SUBSET writes]
  BY <1>0, InstTypes DEF TypeOK
<1>2. /\ insts' \in Seq(Instances(nextWrite))
      /\ Changed(i, state, {}, insts[i].handles \cup mem)
  <2>1. insts' = [insts EXCEPT ![i].mem = {}, ![i].handles = @ \cup mem, ![i].state = state]
    BY <1>0 DEF Flushed
  <2>2. insts \in Seq(Instances(nextWrite))
    BY <1>0 DEF TypeOK
  <2>3. insts' = [insts EXCEPT ![i].mem = {}, ![i].handles = insts[i].handles \cup mem,
                               ![i].state = state]
    BY <2>1, <2>2
  <2>4. insts[i].handles \cup mem \in SUBSET writes /\ {} \in SUBSET writes
    BY <1>0, <1>1
  <2> QED BY <1>0, <2>3, <2>4, InstChanged DEF StateStep
<1>3. /\ tables' = [tables EXCEPT ![d] = @ \cup mem] /\ wal' = [wal EXCEPT ![d] = @ \ mem]
      /\ lost' = lost /\ skipped' = skipped
  BY <1>0 DEF Flushed
<1>4. /\ wal' \in [Dirs -> SUBSET writes] /\ tables' \in [Dirs -> SUBSET writes]
      /\ wal'[d] = wal[d] \ mem /\ tables'[d] = tables[d] \cup mem
      /\ \A e \in Dirs : e # d => wal'[e] = wal[e] /\ tables'[e] = tables[e]
  BY <1>0, <1>1, <1>3
<1>5. Steady
  BY <1>0, <1>2, InstTypes DEF Changed, Steady, StateStep
<1>6. DirInv(d)
  BY <1>0, <1>1 DEF DataInv
<1>7. Registered(i) \/ Opening(i) => ServeInv(i)
  BY <1>0 DEF DataInv
<1>8. mem = {} \/ /\ wal[d] \ (tables[d] \cup lost \cup skipped) \subseteq mem
                  /\ mem \subseteq acked[d] \cup lost
  BY <1>0, <1>7 DEF ServeInv
<1>9. DirInv(d)'
  BY <1>0, <1>3, <1>4, <1>6, <1>8 DEF DirInv
<1>10. Registered(i) \/ Opening(i) => ServeInv(i)'
  <2> SUFFICES ASSUME ServeInv(i) PROVE ServeInv(i)'
    BY <1>0, <1>7
  <2>1. /\ acked[d] \ (lost \cup skipped) \subseteq mem \cup insts[i].handles
        /\ mem \cup insts[i].handles \subseteq acked[d] \cup lost
        /\ wal[d] \ (tables[d] \cup lost \cup skipped) \subseteq mem
    BY <1>0 DEF ServeInv
  <2>2. insts'[i].dir = d /\ insts'[i].mem = {} /\ insts'[i].handles = insts[i].handles \cup mem
    BY <1>0, <1>2 DEF Changed
  <2> QED BY <1>0, <1>3, <1>4, <2>1, <2>2 DEF ServeInv
<1>11. Registered(i) \/ (wal' = wal /\ tables' = tables /\ acked' = acked)
  <2> SUFFICES ASSUME mem = {} PROVE wal' = wal /\ tables' = tables
    BY <1>0
  <2> QED BY <1>0, <1>1, <1>3
<1>12. /\ Len(insts') = Len(insts) /\ \A j \in 1 .. Len(insts) : j # i => insts'[j] = insts[j]
       /\ insts'[i].dir = d /\ insts'[i].mem = {} /\ insts'[i].state = state
  BY <1>0, <1>2 DEF Changed
<1>13. DataInv'
  BY <1>0, <1>1, <1>3, <1>4, <1>9, <1>10, <1>11, <1>12, DataKept
<1> QED BY <1>0, <1>2, <1>3, <1>4, <1>5, <1>12, <1>13

\* A flush that fails or is dropped.
LEMMA CutKept ==
    ASSUME TypeOK, RoutingInv, DataInv, NEW i \in 1 .. Len(insts), NEW state,
           StateStep(i, state),
           Registered(i) \/ insts[i].mem = {}, FlushCut(i, insts[i].mem, state),
           \A j : Registered(j)' \/ Opening(j)' => Registered(j) \/ Opening(j),
           acked' = acked, wal' = wal, skipped' = skipped
    PROVE  /\ DataInv' /\ Steady
           /\ insts' \in Seq(Instances(nextWrite))
           /\ tables' \in [Dirs -> SUBSET WritesBefore(nextWrite)]
           /\ lost' \subseteq WritesBefore(nextWrite)
<1>0. PICK d, mem, writes : d = insts[i].dir /\ mem = insts[i].mem
                            /\ writes = WritesBefore(nextWrite)
  OBVIOUS
<1>1. /\ d \in Dirs /\ mem \subseteq writes /\ insts[i].handles \subseteq writes
      /\ wal \in [Dirs -> SUBSET writes] /\ tables \in [Dirs -> SUBSET writes]
      /\ acked \in [Dirs -> SUBSET writes] /\ lost \subseteq writes
  BY <1>0, InstTypes DEF TypeOK
<1>2. /\ insts' \in Seq(Instances(nextWrite))
      /\ Changed(i, state, {}, insts[i].handles)
  <2>1. insts' = [insts EXCEPT ![i].mem = {}, ![i].state = state]
    BY <1>0 DEF FlushCut
  <2>2. insts[i].handles \in SUBSET writes /\ {} \in SUBSET writes
    BY <1>0, <1>1
  <2> QED BY <1>0, <2>1, <2>2, InstChanged DEF StateStep
<1>3. /\ tables' \in {tables, [tables EXCEPT ![d] = @ \cup mem]}
      /\ lost' = lost \cup mem /\ skipped' = skipped
  BY <1>0 DEF FlushCut
<1>4. /\ tables' \in [Dirs -> SUBSET writes] /\ lost' \subseteq writes
      /\ tables'[d] = tables[d] \/ tables'[d] = tables[d] \cup mem
      /\ \A e \in Dirs : e # d => tables'[e] = tables[e]
  BY <1>0, <1>1, <1>3
<1>5. Steady
  BY <1>0, <1>2, InstTypes DEF Changed, Steady, StateStep
<1>6. DirInv(d)
  BY <1>0, <1>1 DEF DataInv
<1>7. Registered(i) \/ Opening(i) => ServeInv(i)
  BY <1>0 DEF DataInv
<1>8. mem = {} \/ /\ wal[d] \ (tables[d] \cup lost \cup skipped) \subseteq mem
                  /\ mem \subseteq acked[d] \cup lost
  BY <1>0, <1>7 DEF ServeInv
<1>9. DirInv(d)'
  BY <1>0, <1>3, <1>4, <1>6, <1>8 DEF DirInv
<1>10. Registered(i) \/ Opening(i) => ServeInv(i)'
  <2> SUFFICES ASSUME ServeInv(i) PROVE ServeInv(i)'
    BY <1>0, <1>7
  <2>1. /\ acked[d] \ (lost \cup skipped) \subseteq mem \cup insts[i].handles
        /\ mem \cup insts[i].handles \subseteq acked[d] \cup lost
        /\ wal[d] \ (tables[d] \cup lost \cup skipped) \subseteq mem
    BY <1>0 DEF ServeInv
  <2>2. insts'[i].dir = d /\ insts'[i].mem = {} /\ insts'[i].handles = insts[i].handles
    BY <1>0, <1>2 DEF Changed
  <2> QED BY <1>0, <1>3, <1>4, <2>1, <2>2 DEF ServeInv
<1>11. Registered(i) \/ (wal' = wal /\ tables' = tables /\ acked' = acked)
  <2> SUFFICES ASSUME mem = {} PROVE tables' = tables
    BY <1>0
  <2> QED BY <1>0, <1>1, <1>3
<1>12. /\ Len(insts') = Len(insts) /\ \A j \in 1 .. Len(insts) : j # i => insts'[j] = insts[j]
       /\ insts'[i].dir = d /\ insts'[i].mem = {}
  BY <1>0, <1>2 DEF Changed
<1>13. DataInv'
  BY <1>0, <1>1, <1>3, <1>4, <1>9, <1>10, <1>11, <1>12, DataKept
<1> QED BY <1>0, <1>2, <1>3, <1>4, <1>5, <1>13
\* A write, with the flush it may trigger.
LEMMA WriteKept ==
    ASSUME NamespacesInv, NEW c \in Clients, Write(c)
    PROVE  NamespacesInv'
<1>a. TypeOK /\ ControlInv /\ RoutingInv /\ DataInv
  BY DEF NamespacesInv, ControlInv
<1>0. PICK i, d, mem, w, n, writes :
          /\ i = req[c].inst /\ d = insts[i].dir /\ mem = insts[i].mem
          /\ w = [record |-> req[c].record, num |-> nextWrite]
          /\ n = nextWrite + 1 /\ writes = WritesBefore(n)
  OBVIOUS
<1>1. req[c] \in [op : {"put", "get"}, record : Records, inst : 1 .. Len(insts)]
  <2>1. req[c].op = "put"
    BY DEF Write
  <2>2. req[c] # Idle
    BY <2>1 DEF Idle
  <2> QED BY <1>a, <2>2 DEF TypeOK
<1>2. i \in 1 .. Len(insts) /\ Registered(i) /\ insts[i].state = "Active" /\ req[c] # Idle
  <2>1. is_writable(req[c].inst) /\ req[c].op = "put"
    BY DEF Write
  <2>2. req[c] # Idle
    BY <2>1 DEF Idle
  <2> QED BY <1>a, <1>0, <1>1, <2>1, <2>2 DEF ControlInv, RequestsInv, is_writable
<1>3. /\ nextWrite \in Nat \ {0} /\ n \in Nat \ {0} /\ nextWrite' = n
      /\ WritesBefore(nextWrite) \subseteq writes
      /\ w \in writes
  <2>1. nextWrite \in Nat \ {0} /\ nextWrite' = nextWrite + 1
    BY <1>a DEF TypeOK, Write
  <2> QED BY <1>0, <1>1, <2>1, WritesGrow DEF WritesBefore
<1>4. /\ d \in Dirs /\ mem \subseteq WritesBefore(nextWrite)
      /\ insts[i].handles \subseteq WritesBefore(nextWrite)
      /\ wal \in [Dirs -> SUBSET WritesBefore(nextWrite)]
      /\ tables \in [Dirs -> SUBSET WritesBefore(nextWrite)]
      /\ acked \in [Dirs -> SUBSET WritesBefore(nextWrite)]
      /\ lost \subseteq WritesBefore(nextWrite) /\ skipped \subseteq WritesBefore(nextWrite)
      /\ insts \in Seq(Instances(nextWrite))
  BY <1>a, <1>0, <1>2, InstTypes DEF TypeOK
<1>5. /\ mem \subseteq writes /\ insts[i].handles \subseteq writes /\ lost \subseteq writes
      /\ skipped \subseteq writes
      /\ wal \in [Dirs -> SUBSET writes] /\ tables \in [Dirs -> SUBSET writes]
      /\ acked \in [Dirs -> SUBSET writes]
  BY <1>3, <1>4
<1>7. /\ DirInv(d) /\ ServeInv(i)
      /\ acked[d] \ (lost \cup skipped) \subseteq mem \cup insts[i].handles
      /\ mem \cup insts[i].handles \subseteq acked[d] \cup lost
      /\ wal[d] \ (tables[d] \cup lost \cup skipped) \subseteq mem
  <2>1. DirInv(d) /\ ServeInv(i)
    BY <1>a, <1>2, <1>4 DEF DataInv
  <2> QED BY <1>0, <2>1 DEF ServeInv
<1>8. /\ namespaces' = namespaces /\ admin' = admin /\ server' = server /\ maint' = maint
      /\ stopping' = stopping /\ defaults' = defaults /\ life' = life /\ scenario' = scenario
      /\ skipped' = skipped
      /\ req' = [req EXCEPT ![c] = Idle]
      /\ \/ /\ wal' = [wal EXCEPT ![d] = @ \cup {w}]
            /\ insts' = [insts EXCEPT ![i].mem = mem \cup {w}]
            /\ acked' = [acked EXCEPT ![d] = @ \cup {w}]
            /\ tables' = tables /\ lost' = lost /\ faults' = faults
         \/ /\ wal' = [wal EXCEPT ![d] = @ \ mem]
            /\ tables' = [tables EXCEPT ![d] = @ \cup (mem \cup {w})]
            /\ insts' = [insts EXCEPT ![i].mem = {}, ![i].handles = @ \cup (mem \cup {w})]
            /\ acked' = [acked EXCEPT ![d] = @ \cup {w}]
            /\ lost' = lost /\ faults' = faults
         \/ /\ wal' = [wal EXCEPT ![d] = @ \cup {w}]
            /\ Fault
            /\ FlushCut(i, mem \cup {w}, insts[i].state)
            /\ acked' = acked
  BY <1>0 DEF Write, Done
<1>6. skipped' = skipped
  BY <1>8
<1>9. \A j : (Registered(j)' <=> Registered(j)) /\ (Opening(j)' <=> Opening(j))
  BY <1>8 DEF Registered, Opening
<1> DEFINE Kept == /\ DataInv' /\ Steady /\ insts' \in Seq(Instances(n))
                   /\ wal' \in [Dirs -> SUBSET writes] /\ tables' \in [Dirs -> SUBSET writes]
                   /\ acked' \in [Dirs -> SUBSET writes] /\ lost' \subseteq writes
                   /\ faults' \in Nat
<1>10. ASSUME NEW m, NEW h, Changed(i, insts[i].state, m, h),
              \A e \in Dirs : e # d => /\ wal'[e] = wal[e] /\ tables'[e] = tables[e]
                                       /\ acked'[e] = acked[e],
              lost \subseteq lost',
              DirInv(d)',
              /\ acked'[d] \ (lost' \cup skipped') \subseteq m \cup h
              /\ m \cup h \subseteq acked'[d] \cup lost'
              /\ wal'[d] \ (tables'[d] \cup lost' \cup skipped') \subseteq m
       PROVE  DataInv' /\ Steady
  <2>1. /\ Len(insts') = Len(insts) /\ \A j \in 1 .. Len(insts) : j # i => insts'[j] = insts[j]
        /\ insts'[i].dir = d /\ insts'[i].mem = m /\ insts'[i].handles = h
        /\ insts'[i].state = "Active"
    BY <1>0, <1>2, <1>10 DEF Changed
  <2>2. Steady
    BY <1>0, <1>2, <2>1 DEF Steady
  <2>3. ServeInv(i)'
    BY <1>10, <2>1 DEF ServeInv
  <2> QED BY <1>a, <1>0, <1>2, <1>4, <1>6, <1>9, <1>10, <2>1, <2>2, <2>3, DataKept
<1>11. faults \in Nat
  BY <1>a DEF TypeOK
<1>12. ASSUME /\ wal' = [wal EXCEPT ![d] = @ \cup {w}]
              /\ insts' = [insts EXCEPT ![i].mem = mem \cup {w}]
              /\ acked' = [acked EXCEPT ![d] = @ \cup {w}]
              /\ tables' = tables /\ lost' = lost /\ faults' = faults
       PROVE  Kept
  <2>1. insts' \in Seq(Instances(n)) /\ Changed(i, insts[i].state, mem \cup {w}, insts[i].handles)
    <3>1. mem \cup {w} \in SUBSET WritesBefore(n) /\ insts[i].handles \in SUBSET WritesBefore(n)
      BY <1>0, <1>3, <1>5
    <3> QED BY <1>a, <1>0, <1>2, <1>12, <3>1, InstChanged
  <2>2. /\ wal' \in [Dirs -> SUBSET writes] /\ acked' \in [Dirs -> SUBSET writes]
        /\ wal'[d] = wal[d] \cup {w} /\ acked'[d] = acked[d] \cup {w}
        /\ \A e \in Dirs : e # d => wal'[e] = wal[e] /\ acked'[e] = acked[e]
    BY <1>3, <1>4, <1>5, <1>12
  <2>3. DirInv(d)'
    BY <1>7, <1>12, <2>2 DEF DirInv
  <2>4. DataInv' /\ Steady
    BY <1>6, <1>7, <1>10, <1>12, <2>1, <2>2, <2>3
  <2> QED BY <1>5, <1>11, <1>12, <2>1, <2>2, <2>4
<1>13. ASSUME /\ wal' = [wal EXCEPT ![d] = @ \ mem]
              /\ tables' = [tables EXCEPT ![d] = @ \cup (mem \cup {w})]
              /\ insts' = [insts EXCEPT ![i].mem = {}, ![i].handles = @ \cup (mem \cup {w})]
              /\ acked' = [acked EXCEPT ![d] = @ \cup {w}]
              /\ lost' = lost /\ faults' = faults
       PROVE  Kept
  <2> DEFINE h == insts[i].handles \cup (mem \cup {w})
  <2>1. insts' \in Seq(Instances(n)) /\ Changed(i, insts[i].state, {}, h)
    <3>1. h \in SUBSET WritesBefore(n) /\ {} \in SUBSET WritesBefore(n)
      BY <1>0, <1>3, <1>5
    <3>2. insts' = [insts EXCEPT ![i].mem = {}, ![i].handles = h]
      BY <1>4, <1>13
    <3>3. insts[i].state \in {"Active", "Frozen", "Draining", "Stopped"}
      BY <1>2
    <3> HIDE DEF h
    <3> QED BY <1>a, <1>0, <1>2, <3>1, <3>2, <3>3, InstChanged
  <2>2. /\ wal' \in [Dirs -> SUBSET writes] /\ acked' \in [Dirs -> SUBSET writes]
        /\ tables' \in [Dirs -> SUBSET writes]
        /\ wal'[d] = wal[d] \ mem /\ acked'[d] = acked[d] \cup {w}
        /\ tables'[d] = tables[d] \cup (mem \cup {w})
        /\ \A e \in Dirs : e # d => wal'[e] = wal[e] /\ acked'[e] = acked[e]
                                    /\ tables'[e] = tables[e]
    BY <1>3, <1>4, <1>5, <1>13
  <2>3. DirInv(d)'
    BY <1>7, <1>13, <2>2 DEF DirInv
  <2>4. DataInv' /\ Steady
    BY <1>6, <1>7, <1>10, <1>13, <2>1, <2>2, <2>3
  <2> QED BY <1>5, <1>11, <1>13, <2>1, <2>2, <2>4
<1>14. ASSUME /\ wal' = [wal EXCEPT ![d] = @ \cup {w}]
              /\ Fault
              /\ FlushCut(i, mem \cup {w}, insts[i].state)
              /\ acked' = acked
       PROVE  Kept
  <2>1. insts' \in Seq(Instances(n)) /\ Changed(i, insts[i].state, {}, insts[i].handles)
    <3>1. insts[i].handles \in SUBSET WritesBefore(n) /\ {} \in SUBSET WritesBefore(n)
      BY <1>0, <1>5
    <3>2. insts' = [insts EXCEPT ![i].mem = {}, ![i].state = insts[i].state]
      BY <1>14 DEF FlushCut
    <3>3. insts[i].state \in {"Active", "Frozen", "Draining", "Stopped"}
      BY <1>2
    <3> QED BY <1>a, <1>0, <1>2, <3>1, <3>2, <3>3, InstChanged
  <2>2. /\ tables' \in {tables, [tables EXCEPT ![d] = @ \cup (mem \cup {w})]}
        /\ lost' = lost \cup (mem \cup {w}) /\ faults' = faults + 1
    BY <1>0, <1>14 DEF FlushCut, Fault
  <2>3. /\ wal' \in [Dirs -> SUBSET writes] /\ tables' \in [Dirs -> SUBSET writes]
        /\ lost' \subseteq writes /\ faults' \in Nat
        /\ wal'[d] = wal[d] \cup {w}
        /\ tables'[d] = tables[d] \/ tables'[d] = tables[d] \cup (mem \cup {w})
        /\ \A e \in Dirs : e # d => wal'[e] = wal[e] /\ tables'[e] = tables[e]
    BY <1>3, <1>4, <1>5, <1>11, <1>14, <2>2
  <2>4. DirInv(d)'
    BY <1>7, <1>14, <2>2, <2>3 DEF DirInv
  <2>5. DataInv' /\ Steady
    BY <1>6, <1>7, <1>10, <1>14, <2>1, <2>2, <2>3, <2>4
  <2> QED BY <1>5, <1>14, <2>1, <2>3, <2>5
<1>15. Kept
  BY <1>8, <1>12, <1>13, <1>14
<1> HIDE DEF Kept
<1>16. DataInv' /\ Steady
  BY <1>15 DEF Kept
<1>17. \A e \in Clients : req'[e] \in {req[e], Idle}
  BY <1>a, <1>8 DEF TypeOK
<1>18. \A k \in 1 .. Len(maint'.queue) : Among(maint'.queue[k], maint.queue)
  BY <1>8 DEF Among
<1>19. ControlInv'
  BY <1>a, <1>8, <1>16, <1>17, <1>18, ControlKept
<1>20. TypeOK'
  <2>1. Len(insts') = Len(insts)
    BY <1>16 DEF Steady
  <2>2. req' \in [Clients -> {Idle} \cup [op : {"put", "get"}, record : Records,
                                         inst : 1 .. Len(insts)]]
    BY <1>a, <1>8 DEF TypeOK
  <2> QED BY <1>a, <1>0, <1>3, <1>8, <1>15, <2>1, <2>2 DEF TypeOK, Kept
<1> QED BY <1>16, <1>19, <1>20 DEF NamespacesInv
\* The rest of a queue.
LEMMA TailAmong ==
    ASSUME NEW S, NEW s \in Seq(S), s # <<>>
    PROVE  /\ Tail(s) \in Seq(S) /\ s[1] \in S /\ Among(s[1], s)
           /\ Len(s) = 1 => Tail(s) = <<>>
           /\ Len(s) # 1 => Tail(s) # <<>>
           /\ \A k \in 1 .. Len(Tail(s)) : Among(Tail(s)[k], s)
           /\ \A x : Among(x, s) => x = s[1] \/ Among(x, Tail(s))
<1>1. /\ Tail(s) \in Seq(S) /\ Len(Tail(s)) = Len(s) - 1 /\ Len(s) \in Nat \ {0}
      /\ \A k \in 1 .. Len(Tail(s)) : Tail(s)[k] = s[k + 1]
  BY HeadTailProperties, EmptySeq
<1>2. s[1] \in S /\ Among(s[1], s)
  BY <1>1, ElementOfSeq DEF Among
<1>3. (Len(s) = 1 => Tail(s) = <<>>) /\ (Len(s) # 1 => Tail(s) # <<>>)
  <2>1. Len(s) = 1 => Len(Tail(s)) = 0
    BY <1>1
  <2>2. Len(s) # 1 => Len(Tail(s)) # 0
    BY <1>1
  <2>3. Tail(s) = <<>> <=> Len(Tail(s)) = 0
    BY <1>1, EmptySeq
  <2> QED BY <2>1, <2>2, <2>3
<1>4. \A k \in 1 .. Len(Tail(s)) : Among(Tail(s)[k], s)
  <2> SUFFICES ASSUME NEW k \in 1 .. Len(Tail(s)) PROVE Among(Tail(s)[k], s)
    OBVIOUS
  <2>1. k + 1 \in 1 .. Len(s) /\ s[k + 1] = Tail(s)[k]
    BY <1>1
  <2> QED BY <2>1 DEF Among
<1>5. \A x : Among(x, s) => x = s[1] \/ Among(x, Tail(s))
  <2> SUFFICES ASSUME NEW x, NEW k \in 1 .. Len(s), s[k] = x, k # 1
               PROVE  Among(x, Tail(s))
    BY DEF Among
  <2>1. k - 1 \in 1 .. Len(Tail(s)) /\ Tail(s)[k - 1] = x
    BY <1>1
  <2> QED BY <2>1 DEF Among
<1> QED BY <1>1, <1>2, <1>3, <1>4, <1>5

\* Steps that change neither partitions nor what is durable.
LEMMA DataSame ==
    ASSUME DataInv, UNCHANGED <<insts, wal, tables, acked, lost, skipped>>,
           \A j : Registered(j)' \/ Opening(j)' => Registered(j) \/ Opening(j)
    PROVE  DataInv'
<1>1. \A d \in Dirs : DirInv(d)'
  BY DEF DataInv, DirInv
<1>2. \A i \in 1 .. Len(insts) : ServeInv(i) => ServeInv(i)'
  BY DEF ServeInv
<1> QED BY <1>1, <1>2 DEF DataInv

\* Opened partitions do not change by themselves.
LEMMA SteadySame == ASSUME UNCHANGED insts PROVE Steady
BY DEF Steady

\* A maintenance pass goes on to the next partition.
LEMMA NextInPassKept ==
    ASSUME TypeOK, maint.pc \in {"running", "flushing"}, NextInPass
    PROVE  /\ maint' \in [pc : {"asleep", "running", "flushing", "ended"},
                          queue : Seq(1 .. Len(insts))]
           /\ maint'.pc \in {"running", "flushing"} => maint'.queue # <<>>
           /\ \A k \in 1 .. Len(maint'.queue) : Among(maint'.queue[k], maint.queue)
<1>1. maint.queue \in Seq(1 .. Len(insts)) /\ maint.queue # <<>>
  BY DEF TypeOK
<1>2. CASE Len(maint.queue) = 1
  <2>1. maint' = [pc |-> "asleep", queue |-> <<>>]
    BY <1>2 DEF NextInPass, Asleep
  <2>2. <<>> \in Seq(1 .. Len(insts)) /\ Len(<<>>) = 0
    BY EmptySeq
  <2> QED BY <2>1, <2>2
<1>3. CASE Len(maint.queue) # 1
  <2>1. maint' = [pc |-> "running", queue |-> Tail(maint.queue)]
    BY <1>3 DEF NextInPass
  <2> QED BY <1>1, <1>3, <2>1, TailAmong
<1> QED BY <1>2, <1>3

\* The partition a maintenance pass is at.
LEMMA MaintHead ==
    ASSUME TypeOK, ControlInv, maint.pc \in {"running", "flushing"}
    PROVE  /\ maint.queue[1] \in 1 .. Len(insts)
           /\ Registered(maint.queue[1]) \/ insts[maint.queue[1]].mem = {}
<1>1. maint.queue \in Seq(1 .. Len(insts)) /\ maint.queue # <<>>
  BY DEF TypeOK
<1>2. 1 \in 1 .. Len(maint.queue)
  BY <1>1, EmptySeq
<1> QED BY <1>1, <1>2, TailAmong DEF ControlInv, MaintInv

\* A partition keeps its state in a flush.
LEMMA StateKept ==
    ASSUME TypeOK, NEW i \in 1 .. Len(insts)
    PROVE  StateStep(i, insts[i].state) /\ StateStep(i, "Stopped")
BY InstTypes DEF StateStep

\* Steps of requests and maintenance that change no partition.
LEMMA QuietKept ==
    ASSUME NamespacesInv,
           \/ OpenFails \/ MaintSkip \/ MaintFlush
           \/ \E c \in Clients : Answer(c) \/ Disconnect(c)
    PROVE  NamespacesInv'
<1>0. TypeOK /\ ControlInv /\ DataInv
  BY DEF NamespacesInv
<1>1. /\ UNCHANGED <<insts, wal, tables, acked, lost, skipped, nextWrite, scenario, life>>
      /\ UNCHANGED <<namespaces, server, stopping, defaults>>
      /\ admin' \in {admin, NoCall}
  BY DEF OpenFails, MaintSkip, MaintFlush, Answer, Disconnect, durable, history
<1>2. /\ \A c \in Clients : req'[c] \in {req[c], Idle}
      /\ req' \in [Clients -> {Idle} \cup [op : {"put", "get"}, record : Records,
                                          inst : 1 .. Len(insts)]]
  <2>1. req' = req \/ \E c \in Clients : req' = [req EXCEPT ![c] = Idle]
    BY DEF OpenFails, MaintSkip, MaintFlush, Answer, Disconnect, Done
  <2>2. req \in [Clients -> {Idle} \cup [op : {"put", "get"}, record : Records,
                                        inst : 1 .. Len(insts)]]
    BY <1>0 DEF TypeOK
  <2> QED BY <2>1, <2>2
<1>3. /\ \A k \in 1 .. Len(maint'.queue) : Among(maint'.queue[k], maint.queue)
      /\ maint' \in [pc : {"asleep", "running", "flushing", "ended"},
                     queue : Seq(1 .. Len(insts))]
      /\ maint'.pc \in {"running", "flushing"} => maint'.queue # <<>>
  <2>1. CASE MaintSkip
    BY <1>0, <2>1, NextInPassKept DEF MaintSkip
  <2>2. CASE MaintFlush
    <3>1. maint.pc = "running" /\ maint' = [maint EXCEPT !.pc = "flushing"]
      BY <2>2 DEF MaintFlush
    <3> QED BY <1>0, <3>1 DEF TypeOK, Among
  <2>3. CASE maint' = maint
    BY <1>0, <2>3 DEF TypeOK, Among
  <2> QED BY <2>1, <2>2, <2>3 DEF OpenFails, Answer, Disconnect
<1>4. ControlInv'
  BY <1>0, <1>1, <1>2, <1>3, SteadySame, ControlKept
<1>5. \A j : Registered(j)' \/ Opening(j)' => Registered(j) \/ Opening(j)
  BY <1>1 DEF Registered, Opening, NoCall
<1>6. DataInv'
  BY <1>0, <1>1, <1>5, DataSame
<1>7. faults' \in Nat
  BY <1>0 DEF TypeOK, OpenFails, MaintSkip, MaintFlush, Answer, Disconnect, history, Fault
<1>8. TypeOK'
  BY <1>0, <1>1, <1>2, <1>3, <1>7 DEF TypeOK
<1> QED BY <1>4, <1>6, <1>8 DEF NamespacesInv
\* Steps of one partition: freezing, draining, and the flushes of maintenance.
LEMMA PartitionKept ==
    ASSUME NamespacesInv,
           \/ \E i \in 1 .. Len(insts) : Freeze(i) \/ Drain(i)
           \/ MaintFlushed \/ MaintFails \/ MaintAborted
    PROVE  NamespacesInv'
<1>0. TypeOK /\ ControlInv /\ RoutingInv /\ DataInv
  BY DEF NamespacesInv, ControlInv
<1>1. /\ UNCHANGED <<acked, skipped, nextWrite, scenario, life>>
      /\ UNCHANGED <<namespaces, server, req, admin, stopping, defaults>>
  BY DEF Freeze, Drain, MaintFlushed, MaintFails, MaintAborted, history
<1>2. \A j : (Registered(j)' <=> Registered(j)) /\ (Opening(j)' <=> Opening(j))
  BY <1>1 DEF Registered, Opening
<1>3. /\ \A k \in 1 .. Len(maint'.queue) : Among(maint'.queue[k], maint.queue)
      /\ maint' \in [pc : {"asleep", "running", "flushing", "ended"},
                     queue : Seq(1 .. Len(insts))]
      /\ maint'.pc \in {"running", "flushing"} => maint'.queue # <<>>
  <2>1. CASE MaintFlushed
    BY <1>0, <2>1, NextInPassKept DEF MaintFlushed
  <2>2. CASE maint' \in {Asleep, Ended}
    <3>1. <<>> \in Seq(1 .. Len(insts)) /\ Len(<<>>) = 0
      BY EmptySeq
    <3>2. PICK pc \in {"asleep", "ended"} : maint' = [pc |-> pc, queue |-> <<>>]
      BY <2>2 DEF Asleep, Ended
    <3>3. maint'.queue = <<>> /\ maint'.pc = pc
      BY <3>2
    <3> QED BY <3>1, <3>2, <3>3
  <2>3. CASE maint' = maint
    BY <1>0, <2>3 DEF TypeOK, Among
  <2> QED BY <2>1, <2>2, <2>3 DEF Freeze, Drain, MaintFails, MaintAborted
<1> DEFINE writes == WritesBefore(nextWrite)
           Kept == /\ DataInv' /\ Steady /\ insts' \in Seq(Instances(nextWrite))
                   /\ wal' \in [Dirs -> SUBSET writes] /\ tables' \in [Dirs -> SUBSET writes]
                   /\ lost' \subseteq writes /\ faults' \in Nat
<1>4. /\ faults \in Nat /\ lost \subseteq writes /\ insts \in Seq(Instances(nextWrite))
      /\ wal \in [Dirs -> SUBSET writes] /\ tables \in [Dirs -> SUBSET writes]
  BY <1>0 DEF TypeOK
<1> HIDE DEF writes
<1>5. ASSUME NEW i \in 1 .. Len(insts), NEW state, StateStep(i, state),
             Registered(i) \/ insts[i].mem = {}, Flushed(i, state), faults' = faults
      PROVE  Kept
  BY <1>0, <1>1, <1>2, <1>4, <1>5, FlushKept DEF writes
<1>6. ASSUME NEW i \in 1 .. Len(insts), NEW state, StateStep(i, state),
             Registered(i) \/ insts[i].mem = {}, FlushCut(i, insts[i].mem, state),
             wal' = wal, faults' \in Nat
      PROVE  Kept
  BY <1>0, <1>1, <1>2, <1>4, <1>6, CutKept DEF writes
<1>7. ASSUME NEW i \in 1 .. Len(insts), Freeze(i) PROVE Kept
  <2>1. /\ insts[i].state = "Active" /\ insts' = [insts EXCEPT ![i].state = "Frozen"]
        /\ UNCHANGED <<wal, tables, lost, faults>>
    BY <1>7 DEF Freeze, durable, history
  <2>2. insts[i].mem \in SUBSET writes /\ insts[i].handles \in SUBSET writes
        /\ insts[i].dir \in Dirs
    BY <1>0, InstTypes DEF writes
  <2>3. /\ insts' \in Seq(Instances(nextWrite))
        /\ Changed(i, "Frozen", insts[i].mem, insts[i].handles)
    BY <1>0, <2>1, <2>2, InstChanged DEF writes
  <2>4. Steady
    BY <2>1, <2>3 DEF Changed, Steady
  <2>5. DirInv(insts[i].dir) /\ (Registered(i) \/ Opening(i) => ServeInv(i))
    BY <1>0, <2>2 DEF DataInv
  <2>6. Registered(i) \/ Opening(i) => ServeInv(i)'
    BY <1>1, <2>1, <2>3, <2>5 DEF Changed, ServeInv
  <2>7. PICK d : d = insts[i].dir
    OBVIOUS
  <2>8. DirInv(d)'
    BY <1>1, <2>1, <2>5, <2>7 DEF DirInv
  <2>9. /\ Len(insts') = Len(insts) /\ insts'[i].dir = d /\ insts'[i].state = "Frozen"
        /\ \A j \in 1 .. Len(insts) : j # i => insts'[j] = insts[j]
    BY <2>3, <2>7 DEF Changed
  <2>10. DataInv'
    BY <1>0, <1>1, <1>2, <2>1, <2>2, <2>6, <2>7, <2>8, <2>9, DataKept
  <2> QED BY <1>4, <2>1, <2>3, <2>4, <2>10
<1>8. ASSUME NEW i \in 1 .. Len(insts), Drain(i) PROVE Kept
  <2>1. insts[i].state = "Frozen" /\ Registered(i)
    BY <1>8 DEF Drain
  <2>2. StateStep(i, "Draining")
    BY <2>1 DEF StateStep
  <2>3. CASE Flushed(i, "Draining") /\ faults' = faults
    BY <1>5, <2>1, <2>2, <2>3
  <2>4. CASE CloseFails(i, "Draining")
    BY <1>4, <1>6, <2>1, <2>2, <2>4 DEF CloseFails, Fault
  <2> QED BY <1>8, <2>3, <2>4 DEF Drain
<1>9. ASSUME MaintFlushed PROVE Kept
  <2>1. maint.pc = "flushing" /\ faults' = faults
        /\ Flushed(maint.queue[1], insts[maint.queue[1]].state)
    BY <1>9 DEF MaintFlushed
  <2> QED BY <1>0, <1>5, <2>1, MaintHead, StateKept
<1>10. ASSUME MaintFails PROVE Kept
  <2>1. maint.pc = "flushing" /\ faults' = faults + 1 /\ wal' = wal
        /\ FlushCut(maint.queue[1], insts[maint.queue[1]].mem, insts[maint.queue[1]].state)
    BY <1>10 DEF MaintFails, Fault
  <2> QED BY <1>0, <1>4, <1>6, <2>1, MaintHead, StateKept
<1>11. ASSUME MaintAborted PROVE Kept
  <2>1. faults' = faults
    BY <1>11 DEF MaintAborted
  <2>2. CASE maint.pc = "flushing"
    <3>1. wal' = wal
          /\ FlushCut(maint.queue[1], insts[maint.queue[1]].mem, insts[maint.queue[1]].state)
      BY <1>11, <2>2 DEF MaintAborted
    <3> QED BY <1>0, <1>4, <1>6, <2>1, <2>2, <3>1, MaintHead, StateKept
  <2>3. CASE maint.pc # "flushing"
    <3>1. UNCHANGED <<insts, wal, tables, lost>>
      BY <1>11, <2>3 DEF MaintAborted, durable
    <3>2. DataInv'
      BY <1>0, <1>1, <1>2, <3>1, DataSame
    <3> QED BY <1>4, <2>1, <3>1, <3>2, SteadySame
  <2> QED BY <2>2, <2>3
<1>12. Kept
  BY <1>7, <1>8, <1>9, <1>10, <1>11
<1> HIDE DEF Kept
<1>13. ControlInv'
  <2>1. \A c \in Clients : req'[c] \in {req[c], Idle}
    BY <1>1
  <2>2. Steady
    BY <1>12 DEF Kept
  <2> QED BY <1>0, <1>1, <1>3, <2>1, <2>2, ControlKept
<1>14. TypeOK'
  <2>1. Len(insts') = Len(insts)
    BY <1>12 DEF Kept, Steady
  <2> QED BY <1>0, <1>1, <1>3, <1>12, <2>1 DEF TypeOK, Kept, writes
<1> QED BY <1>12, <1>13, <1>14 DEF NamespacesInv, Kept
\* One partition is stopped: by delete_namespace or by stop_all.
LEMMA StopKept ==
    ASSUME NamespacesInv, DeleteStops \/ StopNext
    PROVE  NamespacesInv'
<1>0. TypeOK /\ ControlInv /\ RoutingInv /\ DataInv
  BY DEF NamespacesInv, ControlInv
<1>1. /\ UNCHANGED <<acked, skipped, nextWrite, scenario, life, namespaces, req, maint, defaults>>
  BY DEF DeleteStops, StopNext
<1>2. \A j : Registered(j)' <=> Registered(j)
  BY <1>1 DEF Registered
<1> DEFINE writes == WritesBefore(nextWrite)
           Kept == /\ DataInv' /\ Steady /\ insts' \in Seq(Instances(nextWrite))
                   /\ wal' \in [Dirs -> SUBSET writes] /\ tables' \in [Dirs -> SUBSET writes]
                   /\ lost' \subseteq writes /\ faults' \in Nat
<1>3. /\ faults \in Nat /\ lost \subseteq writes /\ insts \in Seq(Instances(nextWrite))
      /\ wal \in [Dirs -> SUBSET writes] /\ tables \in [Dirs -> SUBSET writes]
  BY <1>0 DEF TypeOK
<1> HIDE DEF writes
<1>4. ASSUME NEW i \in 1 .. Len(insts), Registered(i), stop(i), faults' = faults,
             \A j : Opening(j)' => Opening(j)
      PROVE  Kept /\ insts'[i].state = "Stopped"
  BY <1>0, <1>1, <1>2, <1>3, <1>4, StateKept, FlushKept DEF writes, stop
<1>5. ASSUME NEW i \in 1 .. Len(insts), Registered(i), stop_fails(i),
             \A j : Opening(j)' => Opening(j)
      PROVE  Kept
  <2>1. /\ FlushCut(i, insts[i].mem, insts[i].state) /\ wal' = wal /\ faults' = faults + 1
    BY <1>5 DEF stop_fails, CloseFails, Fault
  <2> QED BY <1>0, <1>1, <1>2, <1>3, <1>5, <2>1, StateKept, CutKept DEF writes
<1>6. \A c \in Clients : req'[c] \in {req[c], Idle}
  BY <1>1
<1>7. \A k \in 1 .. Len(maint'.queue) : Among(maint'.queue[k], maint.queue)
  BY <1>1 DEF Among
<1>8. CASE DeleteStops
  <2> DEFINE i == admin.queue[1]
  <2>1. admin.op = "delete" /\ admin.queue # <<>> /\ server' = server /\ stopping' = stopping
    BY <1>8 DEF DeleteStops
  <2>2. admin \in [op : {"delete"}, name : Names, queue : Seq(1 .. Len(insts))]
    BY <1>0, <2>1 DEF TypeOK, NoCall
  <2>3. admin.queue \in Seq(1 .. Len(insts)) /\ i \in 1 .. Len(insts) /\ Registered(i)
    <3>1. admin.queue \in Seq(1 .. Len(insts)) /\ 1 \in 1 .. Len(admin.queue)
      BY <2>1, <2>2, EmptySeq
    <3> QED BY <1>0, <2>1, <3>1, ElementOfSeq DEF ControlInv, DeleteInv
  <2>4. CASE stop(i) /\ admin' = [admin EXCEPT !.queue = Tail(@)] /\ faults' = faults
    <3>1. /\ admin' \in [op : {"delete"}, name : Names, queue : Seq(1 .. Len(insts))]
          /\ admin'.op = "delete" /\ admin'.name = admin.name /\ admin'.queue = Tail(admin.queue)
      BY <2>1, <2>2, <2>3, <2>4, TailAmong
    <3>2. \A j : Opening(j)' => Opening(j)
      BY <3>1 DEF Opening
    <3>3. Kept /\ insts'[i].state = "Stopped"
      BY <1>4, <2>3, <2>4, <3>2
    <3> HIDE DEF Kept, i
    <3>4. Steady
      BY <3>3 DEF Kept
    <3>5. RoutingInv'
      <4>1. \A n \in Names : \A entry \in namespaces[n] : \A k \in 1 .. Len(entry.partitions) :
                insts'[entry.partitions[k]].dir = insts[entry.partitions[k]].dir
        BY <1>0, <3>4, HandleTypes DEF Steady
      <4> SUFFICES ASSUME NEW n \in Names, NEW entry \in namespaces[n]
                   PROVE  /\ \A other \in namespaces[n] : other = entry
                          /\ entry.count = Len(entry.partitions) /\ entry.router = entry.count
                          /\ entry.count > 0
                          /\ \A k \in 1 .. Len(entry.partitions) :
                                 insts'[entry.partitions[k]].dir = <<n, k - 1>>
        BY <1>1, <3>1 DEF RoutingInv
      <4>2. /\ \A other \in namespaces[n] : other = entry
            /\ entry.count = Len(entry.partitions) /\ entry.router = entry.count
            /\ entry.count > 0
            /\ \A k \in 1 .. Len(entry.partitions) :
                   insts[entry.partitions[k]].dir = <<n, k - 1>>
        BY <1>0, Zenon DEF RoutingInv
      <4> QED BY <4>1, <4>2, Zenon
    <3>6. RequestsInv'
      <4> SUFFICES ASSUME NEW c \in Clients, req[c] # Idle, insts'[req[c].inst].state = "Active"
                   PROVE  Registered(req[c].inst)
        BY <1>1, <1>2 DEF RequestsInv, is_writable
      <4>1. req[c].inst \in 1 .. Len(insts)
        BY <1>0 DEF TypeOK
      <4> QED BY <1>0, <3>4, <4>1 DEF Steady, ControlInv, RequestsInv, is_writable
    <3>7. DeleteInv'
      <4>1. \A k \in 1 .. Len(admin'.queue) : Registered(admin'.queue[k])
        <5>1. \A k \in 1 .. Len(Tail(admin.queue)) : Among(Tail(admin.queue)[k], admin.queue)
          BY <2>1, <2>3, TailAmong
        <5> QED BY <1>0, <2>1, <3>1, <5>1 DEF ControlInv, DeleteInv, Among
      <4>2. ASSUME NEW entry \in namespaces[admin.name], NEW k \in 1 .. Len(entry.partitions)
            PROVE  \/ insts'[entry.partitions[k]].state = "Stopped"
                   \/ Among(entry.partitions[k], admin'.queue)
        <5>1. \/ insts[entry.partitions[k]].state = "Stopped"
              \/ Among(entry.partitions[k], admin.queue)
          BY <1>0, <2>1 DEF ControlInv, DeleteInv
        <5>2. entry.partitions[k] \in 1 .. Len(insts)
          BY <1>0, <2>2, HandleTypes
        <5>3. CASE insts[entry.partitions[k]].state = "Stopped"
          BY <3>4, <5>2, <5>3 DEF Steady
        <5>4. CASE Among(entry.partitions[k], admin.queue)
          <6>1. entry.partitions[k] = i \/ Among(entry.partitions[k], Tail(admin.queue))
            BY <2>1, <2>3, <5>4, TailAmong DEF i
          <6> QED BY <3>1, <3>3, <6>1
        <5> QED BY <5>1, <5>3, <5>4
      <4> QED BY <1>1, <1>2, <3>1, <4>1, <4>2 DEF DeleteInv
    <3>8. MaintInv'
      <4> SUFFICES ASSUME NEW k \in 1 .. Len(maint.queue)
                   PROVE  Registered(maint.queue[k]) \/ insts'[maint.queue[k]].mem = {}
        BY <1>1, <1>2 DEF MaintInv
      <4>1. maint.queue[k] \in 1 .. Len(insts)
        BY <1>0, ElementOfSeq DEF TypeOK
      <4> QED BY <1>0, <3>4, <4>1 DEF Steady, ControlInv, MaintInv
    <3>9. ShutdownInv'
      <4>1. server \notin {"stopping", "stopped"}
        BY <1>0, <2>1 DEF ControlInv, ShutdownInv, NoCall
      <4> QED BY <1>0, <1>2, <2>1, <4>1 DEF ControlInv, ShutdownInv
    <3>10. TypeOK'
      <4>1. Len(insts') = Len(insts)
        BY <3>4 DEF Steady
      <4> QED BY <1>0, <1>1, <2>1, <3>1, <3>3, <4>1 DEF TypeOK, Kept, writes
    <3> QED BY <3>3, <3>5, <3>6, <3>7, <3>8, <3>9, <3>10 DEF NamespacesInv, ControlInv, Kept
  <2>5. CASE stop_fails(i) /\ admin' = NoCall
    <3>1. \A j : Opening(j)' => Opening(j)
      BY <2>5 DEF Opening, NoCall
    <3>2. Kept
      BY <1>5, <2>3, <2>5, <3>1
    <3> HIDE DEF Kept
    <3>3. ControlInv'
      BY <1>0, <1>1, <1>6, <1>7, <2>1, <2>5, <3>2, ControlKept DEF Kept
    <3>4. TypeOK'
      <4>1. Len(insts') = Len(insts)
        BY <3>2 DEF Steady, Kept
      <4> QED BY <1>0, <1>1, <2>1, <2>5, <3>2, <4>1 DEF TypeOK, Kept, writes
    <3> QED BY <3>2, <3>3, <3>4 DEF NamespacesInv, Kept
  <2> QED BY <1>8, <2>4, <2>5 DEF DeleteStops
<1>9. CASE StopNext
  <2> DEFINE i == stopping[1]
  <2>1. server = "stopping" /\ stopping # <<>> /\ admin' = admin
    BY <1>9 DEF StopNext
  <2>2. stopping \in Seq(1 .. Len(insts)) /\ i \in 1 .. Len(insts) /\ Registered(i)
    <3>1. stopping \in Seq(1 .. Len(insts))
      BY <1>0 DEF TypeOK
    <3>2. 1 \in 1 .. Len(stopping)
      BY <2>1, <3>1, EmptySeq
    <3> QED BY <1>0, <3>1, <3>2, ElementOfSeq DEF ControlInv, ShutdownInv
  <2>3. \A j : Opening(j)' => Opening(j)
    BY <2>1 DEF Opening
  <2>4. /\ Kept /\ stopping' \in Seq(1 .. Len(insts))
        /\ \/ insts'[i].state = "Stopped" /\ stopping' = Tail(stopping) /\ server' = server
           \/ server' = "failed" /\ stopping' = <<>>
    <3>1. CASE stop(i) /\ stopping' = Tail(stopping) /\ UNCHANGED <<server, faults>>
      <4>1. Kept /\ insts'[i].state = "Stopped"
        BY <1>4, <2>2, <2>3, <3>1
      <4>2. Tail(stopping) \in Seq(1 .. Len(insts))
        BY <2>1, <2>2, TailAmong
      <4> QED BY <3>1, <4>1, <4>2
    <3>2. CASE stop_fails(i) /\ server' = "failed" /\ stopping' = <<>>
      <4>1. Kept
        BY <1>5, <2>2, <2>3, <3>2
      <4> QED BY <3>2, <4>1, EmptySeq
    <3> QED BY <1>9, <3>1, <3>2 DEF StopNext
  <2> HIDE DEF Kept, i
  <2>5. Steady /\ Len(insts') = Len(insts)
    BY <2>4 DEF Kept, Steady
  <2>6. RoutingInv' /\ RequestsInv' /\ DeleteInv' /\ MaintInv'
    <3>1. admin = NoCall /\ \A c \in Clients : req[c] = Idle
      BY <1>0, <2>1 DEF ControlInv, ShutdownInv
    <3>2. RequestsInv' /\ DeleteInv'
      BY <1>1, <2>1, <3>1 DEF RequestsInv, DeleteInv, NoCall
    <3>3. RoutingInv'
      <4>1. \A n \in Names : \A entry \in namespaces[n] : \A k \in 1 .. Len(entry.partitions) :
                insts'[entry.partitions[k]].dir = insts[entry.partitions[k]].dir
        BY <1>0, <2>5, HandleTypes DEF Steady
      <4> SUFFICES ASSUME NEW n \in Names, NEW entry \in namespaces[n]
                   PROVE  /\ \A other \in namespaces[n] : other = entry
                          /\ entry.count = Len(entry.partitions) /\ entry.router = entry.count
                          /\ entry.count > 0
                          /\ \A k \in 1 .. Len(entry.partitions) :
                                 insts'[entry.partitions[k]].dir = <<n, k - 1>>
        BY <1>1, <2>1, <3>1 DEF RoutingInv, NoCall
      <4>2. /\ \A other \in namespaces[n] : other = entry
            /\ entry.count = Len(entry.partitions) /\ entry.router = entry.count
            /\ entry.count > 0
            /\ \A k \in 1 .. Len(entry.partitions) :
                   insts[entry.partitions[k]].dir = <<n, k - 1>>
        BY <1>0, Zenon DEF RoutingInv
      <4> QED BY <4>1, <4>2, Zenon
    <3>4. MaintInv'
      <4> SUFFICES ASSUME NEW k \in 1 .. Len(maint.queue)
                   PROVE  Registered(maint.queue[k]) \/ insts'[maint.queue[k]].mem = {}
        BY <1>1, <1>2 DEF MaintInv
      <4>1. maint.queue[k] \in 1 .. Len(insts)
        BY <1>0, ElementOfSeq DEF TypeOK
      <4> QED BY <1>0, <2>5, <4>1 DEF Steady, ControlInv, MaintInv
    <3> QED BY <3>2, <3>3, <3>4
  <2>7. ShutdownInv'
    <3>1. ShutdownInv
      BY <1>0 DEF ControlInv
    <3>2. CASE server' = "failed" /\ stopping' = <<>>
      <4>1. Len(stopping') = 0
        BY <3>2, EmptySeq
      <4> QED BY <3>2, <4>1 DEF ShutdownInv
    <3>3. CASE insts'[i].state = "Stopped" /\ stopping' = Tail(stopping) /\ server' = server
      <4>1. /\ \A k \in 1 .. Len(stopping') : Among(stopping'[k], stopping)
            /\ \A x : Among(x, stopping) => x = i \/ Among(x, stopping')
        BY <2>1, <2>2, <3>3, TailAmong DEF i
      <4>2. \A k \in 1 .. Len(stopping') : Registered(stopping'[k])
        BY <3>1, <4>1 DEF ShutdownInv, Among
      <4>3. \A j \in 1 .. Len(insts) :
                Registered(j) => insts'[j].state = "Stopped" \/ Among(j, stopping')
        BY <2>1, <2>5, <3>1, <3>3, <4>1 DEF ShutdownInv, Steady
      <4> QED BY <1>1, <1>2, <2>1, <2>5, <3>1, <3>3, <4>2, <4>3 DEF ShutdownInv, Among
    <3> QED BY <2>4, <3>2, <3>3
  <2>8. TypeOK'
    <3>1. server' \in {"stopping", "failed"}
      BY <2>1, <2>4
    <3> QED BY <1>0, <1>1, <2>1, <2>4, <2>5, <3>1 DEF TypeOK, Kept, writes
  <2> QED BY <2>4, <2>6, <2>7, <2>8 DEF NamespacesInv, ControlInv, Kept
<1> QED BY <1>8, <1>9
\* A call or the process moves on while the partitions stay as they are.
LEMMA CallKept ==
    ASSUME NamespacesInv,
           \/ \E n \in Names, count \in Counts : CreateNamespace(n, count)
           \/ CreateDefault
           \/ \E n \in Names : DeleteNamespace(n)
           \/ \E c \in Clients, op \in {"put", "get"}, n \in Names, r \in Records :
                  Resolve(c, op, n, r)
           \/ MaintStart \/ Start \/ Shutdown \/ Drained \/ Stopped
    PROVE  NamespacesInv'
<1>0. TypeOK /\ ControlInv /\ RoutingInv /\ DataInv
  BY DEF NamespacesInv, ControlInv
<1>1. /\ UNCHANGED <<namespaces, insts, wal, tables>>
      /\ UNCHANGED <<nextWrite, acked, lost, skipped, faults, life, scenario>>
  BY DEF CreateNamespace, CreateDefault, DeleteNamespace, Resolve, MaintStart, Start,
         Shutdown, Drained, Stopped, durable, history
<1>2. \A j : Registered(j)' <=> Registered(j)
  BY <1>1 DEF Registered
<1>3. ASSUME \A j : Opening(j)' => Opening(j) PROVE DataInv'
  BY <1>0, <1>1, <1>2, <1>3, DataSame
<1>4. RoutingInv /\ RequestsInv /\ DeleteInv /\ MaintInv /\ ShutdownInv
  BY <1>0 DEF ControlInv
<1>5. ASSUME admin' = admin PROVE RoutingInv' /\ DeleteInv' /\ DataInv'
  <2>1. RoutingInv' /\ DeleteInv'
    BY <1>1, <1>2, <1>4, <1>5 DEF RoutingInv, DeleteInv
  <2> QED BY <1>3, <1>5, <2>1 DEF Opening
<1>6. (req' = req => RequestsInv') /\ (maint' = maint => MaintInv')
  BY <1>1, <1>2, <1>4 DEF RequestsInv, MaintInv, is_writable
<1>7. ASSUME NEW n \in Names, NEW count \in Counts \cup {DefaultCount}, MayCreate(n),
             validate(count), admin' = CreateCall(n, count), defaults' \in Seq(Names),
             UNCHANGED <<server, req, maint, stopping>>, server \notin {"stopping", "stopped"}
      PROVE  NamespacesInv'
  <2>0. /\ admin'.op = "create" /\ admin'.name = n /\ admin'.count = count
        /\ admin'.opened = <<>>
        /\ <<>> \in Seq(1 .. Len(insts)) /\ Len(<<>>) = 0
    BY <1>7, EmptySeq DEF CreateCall
  <2>1. RoutingInv'
    <3>1. namespaces[n] = {} /\ count > 0
      BY <1>7 DEF MayCreate, validate
    <3>2. count \in Nat
      BY NamespacesAssumption
    <3>3. \A m \in Names : \A entry \in namespaces[m] :
             /\ \A other \in namespaces[m] : other = entry
             /\ entry.count = Len(entry.partitions) /\ entry.router = entry.count
             /\ entry.count > 0
             /\ \A k \in 1 .. Len(entry.partitions) :
                    insts[entry.partitions[k]].dir = <<m, k - 1>>
      BY <1>4, Zenon DEF RoutingInv
    <3>4. 0 <= count
      BY <3>2
    <3> QED BY <1>1, <2>0, <3>1, <3>3, <3>4 DEF RoutingInv
  <2>2. \A j : Opening(j)' => Opening(j)
    BY <2>0 DEF Opening
  <2>3. DeleteInv'
    BY <2>0 DEF DeleteInv
  <2>4. ShutdownInv'
    BY <1>1, <1>2, <1>4, <1>7 DEF ShutdownInv
  <2>5. TypeOK'
    <3>1. admin' \in [op : {"create"}, name : Names, count : Counts \cup {DefaultCount},
                      opened : Seq(1 .. Len(insts))]
      BY <1>7, <2>0 DEF CreateCall
    <3> QED BY <1>0, <1>1, <1>7, <3>1 DEF TypeOK
  <2> QED BY <1>3, <1>6, <1>7, <2>1, <2>2, <2>3, <2>4, <2>5 DEF NamespacesInv, ControlInv
<1>8. ASSUME NEW n \in Names, NEW count \in Counts, CreateNamespace(n, count)
      PROVE  NamespacesInv'
  <2>1. /\ MayCreate(n) /\ validate(count) /\ admin' = CreateCall(n, count)
        /\ UNCHANGED <<server, req, maint, stopping, defaults>> /\ server = "serving"
    BY <1>8 DEF CreateNamespace, MayCall
  <2>2. defaults' \in Seq(Names)
    BY <1>0, <2>1 DEF TypeOK
  <2> QED BY <1>7, <2>1, <2>2
<1>9. ASSUME CreateDefault PROVE NamespacesInv'
  <2>1. /\ defaults # <<>> /\ defaults' = Tail(defaults) /\ server = "starting"
        /\ UNCHANGED <<server, req, maint, stopping>> /\ admin = NoCall
        /\ admin' = IF MayCreate(defaults[1]) /\ validate(DefaultCount)
                    THEN CreateCall(defaults[1], DefaultCount) ELSE NoCall
    BY <1>9 DEF CreateDefault
  <2>2. defaults' \in Seq(Names) /\ defaults[1] \in Names
    BY <1>0, <2>1, TailAmong DEF TypeOK
  <2>3. CASE MayCreate(defaults[1]) /\ validate(DefaultCount)
    BY <1>7, <2>1, <2>2, <2>3
  <2>4. CASE ~(MayCreate(defaults[1]) /\ validate(DefaultCount))
    <3>1. admin' = admin
      BY <2>1, <2>4
    <3>2. ShutdownInv'
      BY <1>1, <1>2, <1>4, <2>1 DEF ShutdownInv
    <3>3. TypeOK'
      BY <1>0, <1>1, <2>1, <2>2, <3>1 DEF TypeOK
    <3> QED BY <1>5, <1>6, <2>1, <3>1, <3>2, <3>3 DEF NamespacesInv, ControlInv
  <2> QED BY <2>3, <2>4
<1>10. ASSUME NEW n \in Names, DeleteNamespace(n) PROVE NamespacesInv'
  <2>1. /\ server = "serving" /\ UNCHANGED <<server, req, maint, stopping, defaults>>
        /\ \E entry \in namespaces[n] :
               admin' = [op |-> "delete", name |-> n, queue |-> entry.partitions]
    BY <1>10 DEF DeleteNamespace, MayCall
  <2>2. PICK entry \in namespaces[n] :
            admin' = [op |-> "delete", name |-> n, queue |-> entry.partitions]
    BY <2>1
  <2>3. admin'.op = "delete" /\ admin'.name = n /\ admin'.queue = entry.partitions
    BY <2>2
  <2>4. entry.partitions \in Seq(1 .. Len(insts))
    BY <1>0 DEF TypeOK
  <2>5. RoutingInv'
    <3>1. \A m \in Names : \A e \in namespaces[m] :
             /\ \A other \in namespaces[m] : other = e
             /\ e.count = Len(e.partitions) /\ e.router = e.count
             /\ e.count > 0
             /\ \A k \in 1 .. Len(e.partitions) :
                    insts[e.partitions[k]].dir = <<m, k - 1>>
      BY <1>4, Zenon DEF RoutingInv
    <3> QED BY <1>1, <2>3, <3>1 DEF RoutingInv
  <2>6. DeleteInv'
    <3>1. \A e \in namespaces[n] : e = entry
      BY <1>4 DEF RoutingInv
    <3>2. \A k \in 1 .. Len(entry.partitions) : /\ Registered(entry.partitions[k])
                                                /\ Among(entry.partitions[k], entry.partitions)
      BY DEF Registered, Among
    <3> QED BY <1>1, <1>2, <2>3, <3>1, <3>2 DEF DeleteInv
  <2>7. \A j : Opening(j)' => Opening(j)
    BY <2>3 DEF Opening
  <2>8. ShutdownInv'
    BY <1>1, <1>2, <1>4, <2>1 DEF ShutdownInv
  <2>9. TypeOK'
    <3>1. admin' \in [op : {"delete"}, name : Names, queue : Seq(1 .. Len(insts))]
      BY <2>2, <2>4
    <3> QED BY <1>0, <1>1, <2>1, <3>1 DEF TypeOK
  <2> QED BY <1>3, <1>6, <2>1, <2>5, <2>6, <2>7, <2>8, <2>9 DEF NamespacesInv, ControlInv
<1>11. ASSUME NEW c \in Clients, NEW op \in {"put", "get"}, NEW n \in Names, NEW r \in Records,
              Resolve(c, op, n, r)
       PROVE  NamespacesInv'
  <2>1. /\ server = "serving" /\ UNCHANGED <<server, admin, maint, stopping, defaults>>
        /\ Hash[r] # NoKey
        /\ \E entry \in namespaces[n] :
               req' = [req EXCEPT ![c] = [op |-> op, record |-> r,
                                          inst |-> entry.partitions[route(entry, r) + 1]]]
    BY <1>11 DEF Resolve
  <2>2. PICK entry \in namespaces[n] :
            req' = [req EXCEPT ![c] = [op |-> op, record |-> r,
                                       inst |-> entry.partitions[route(entry, r) + 1]]]
    BY <2>1
  <2>3. /\ entry.partitions[route(entry, r) + 1] \in 1 .. Len(insts)
        /\ Registered(entry.partitions[route(entry, r) + 1])
    <3>1. /\ entry.router = Len(entry.partitions) /\ Len(entry.partitions) > 0
          /\ Len(entry.partitions) \in Nat
      BY <1>0, HandleTypes DEF RoutingInv
    <3>2. Hash[r] \in Nat
      BY <2>1, NamespacesAssumption
    <3>3. route(entry, r) + 1 \in 1 .. Len(entry.partitions)
      BY <3>1, <3>2 DEF route
    <3> QED BY <1>0, <3>3, HandleTypes DEF Registered
  <2>4. RequestsInv'
    <3> SUFFICES ASSUME NEW e \in Clients, req'[e] # Idle, is_writable(req'[e].inst)
                 PROVE  Registered(req'[e].inst)
      BY <1>1, <1>2 DEF RequestsInv, is_writable
    <3>1. req \in [Clients -> {Idle} \cup [op : {"put", "get"}, record : Records,
                                          inst : 1 .. Len(insts)]]
      BY <1>0 DEF TypeOK
    <3>2. CASE e = c
      BY <2>2, <2>3, <3>1, <3>2
    <3>3. CASE e # c
      BY <1>4, <2>2, <3>1, <3>3 DEF RequestsInv
    <3> QED BY <3>2, <3>3
  <2>5. ShutdownInv'
    BY <1>1, <1>2, <1>4, <2>1 DEF ShutdownInv
  <2>6. TypeOK'
    <3>1. req \in [Clients -> {Idle} \cup [op : {"put", "get"}, record : Records,
                                          inst : 1 .. Len(insts)]]
      BY <1>0 DEF TypeOK
    <3>2. req' \in [Clients -> {Idle} \cup [op : {"put", "get"}, record : Records,
                                           inst : 1 .. Len(insts)]]
      BY <2>2, <2>3, <3>1
    <3> QED BY <1>0, <1>1, <2>1, <3>2 DEF TypeOK
  <2> QED BY <1>5, <1>6, <2>1, <2>4, <2>5, <2>6 DEF NamespacesInv, ControlInv
<1>12. ASSUME MaintStart PROVE NamespacesInv'
  <2>1. /\ AllPartitions # <<>> /\ maint' = [pc |-> "running", queue |-> AllPartitions]
        /\ UNCHANGED <<server, req, admin, stopping, defaults>> /\ server = "serving"
    BY <1>12 DEF MaintStart
  <2>2. /\ AllPartitions \in Seq(1 .. Len(insts))
        /\ \A k \in 1 .. Len(AllPartitions) : Registered(AllPartitions[k])
    BY <1>0, PartitionsOfMap DEF Among
  <2>3. maint'.pc = "running" /\ maint'.queue = AllPartitions
    BY <2>1
  <2>4. MaintInv'
    BY <1>2, <2>2, <2>3 DEF MaintInv
  <2>5. ShutdownInv'
    BY <1>1, <1>2, <1>4, <2>1 DEF ShutdownInv
  <2>6. TypeOK'
    <3>1. maint' \in [pc : {"asleep", "running", "flushing", "ended"},
                      queue : Seq(1 .. Len(insts))]
      BY <2>1, <2>2
    <3> QED BY <1>0, <1>1, <2>1, <2>3, <3>1 DEF TypeOK
  <2> QED BY <1>5, <1>6, <2>1, <2>4, <2>5, <2>6 DEF NamespacesInv, ControlInv
<1>13. ASSUME Start \/ Shutdown \/ Drained \/ Stopped PROVE NamespacesInv'
  <2>1. UNCHANGED <<req, admin, maint, defaults>>
    BY <1>13 DEF Start, Shutdown, Drained, Stopped
  <2>2. AllPartitions \in Seq(1 .. Len(insts)) /\ \A i : Among(i, AllPartitions) <=> Registered(i)
    BY <1>0, PartitionsOfMap
  <2>3. ShutdownInv' /\ stopping' \in Seq(1 .. Len(insts))
        /\ server' \in {"serving", "draining", "stopping", "stopped"}
    <3>0. stopping \in Seq(1 .. Len(insts))
      BY <1>0 DEF TypeOK
    <3>1. CASE Start \/ Shutdown
      <4>1. /\ stopping' = stopping /\ server \in {"starting", "serving"}
            /\ server' \in {"serving", "draining"}
        BY <3>1 DEF Start, Shutdown
      <4>2. stopping = <<>>
        BY <1>4, <4>1 DEF ShutdownInv
      <4> QED BY <1>2, <1>4, <3>0, <4>1, <4>2 DEF ShutdownInv
    <3>2. CASE Drained
      <4>1. /\ server' = "stopping" /\ stopping' = AllPartitions /\ admin = NoCall
            /\ \A c \in Clients : req[c] = Idle
        BY <3>2 DEF Drained
      <4>2. \A k \in 1 .. Len(stopping') : Registered(stopping'[k])
        BY <2>2, <4>1 DEF Among
      <4>3. \A i : Registered(i) => \E k \in 1 .. Len(stopping') : stopping'[k] = i
        BY <2>2, <4>1 DEF Among
      <4> QED BY <1>1, <1>2, <2>1, <2>2, <4>1, <4>2, <4>3 DEF ShutdownInv, Among
    <3>3. CASE Stopped
      <4>1. server = "stopping" /\ server' = "stopped" /\ stopping = <<>> /\ stopping' = stopping
        BY <3>3 DEF Stopped
      <4> QED BY <1>1, <1>2, <1>4, <2>1, <3>0, <4>1 DEF ShutdownInv, Among
    <3> QED BY <1>13, <3>1, <3>2, <3>3
  <2>4. TypeOK'
    BY <1>0, <1>1, <2>1, <2>3 DEF TypeOK
  <2> QED BY <1>5, <1>6, <2>1, <2>3, <2>4 DEF NamespacesInv, ControlInv
<1> QED BY <1>8, <1>9, <1>10, <1>11, <1>12, <1>13
\* A partition is opened: recovery brings back part of the log.
LEMMA OpenKept == ASSUME NamespacesInv, OpenPartition PROVE NamespacesInv'
<1>0. TypeOK /\ ControlInv /\ RoutingInv /\ DataInv
  BY DEF NamespacesInv, ControlInv
<1> DEFINE dir == <<admin.name, Len(admin.opened)>>
<1>18. PICK replayed \in SUBSET wal[dir] :
         /\ insts' = Append(insts, Opened(dir, replayed))
         /\ skipped' = skipped \cup (wal[dir] \ (tables[dir] \cup replayed))
  BY Zenon DEF OpenPartition
<1>1. /\ UNCHANGED <<server, namespaces, wal, tables, req, maint, stopping, defaults>>
      /\ UNCHANGED <<nextWrite, acked, lost, faults, life, scenario>>
      /\ admin.op = "create" /\ Len(admin.opened) < admin.count
      /\ insts' = Append(insts, Opened(dir, replayed))
      /\ admin' = [admin EXCEPT !.opened = Append(@, Len(insts'))]
  BY <1>18 DEF OpenPartition, durable
<1>2. admin \in [op : {"create"}, name : Names, count : Counts \cup {DefaultCount},
                 opened : Seq(1 .. Len(insts))]
  BY <1>0, <1>1 DEF TypeOK, NoCall
<1>3. PICK d, new, last, x :
         /\ d = <<admin.name, Len(admin.opened)>> /\ new = Len(insts) + 1
         /\ last = Len(admin.opened) + 1 /\ x = Opened(d, replayed)
  OBVIOUS
<1>4. Len(insts) \in Nat /\ Len(admin.opened) \in Nat /\ admin.count \in Nat
  <2>1. admin.count \in Nat
    BY <1>2, NamespacesAssumption
  <2> QED BY <1>0, <1>2, <2>1, InstTypes, LenProperties
<1>5. d \in Dirs
  <2>1. Len(admin.opened) \in 0 .. admin.count - 1
    BY <1>1, <1>4
  <2> QED BY <1>2, <1>3, <2>1 DEF Dirs
<1>19. /\ replayed \subseteq wal[d]
       /\ skipped' = skipped \cup (wal[d] \ (tables[d] \cup replayed))
  BY <1>3, <1>18
<1>6. /\ x \in Instances(nextWrite) /\ x.dir = d /\ x.mem = replayed
      /\ x.handles = tables[d] /\ x.state = "Active"
      /\ skipped' \subseteq WritesBefore(nextWrite)
  <2>1. /\ tables[d] \in SUBSET WritesBefore(nextWrite)
        /\ wal[d] \in SUBSET WritesBefore(nextWrite)
        /\ skipped \subseteq WritesBefore(nextWrite)
    BY <1>0, <1>5 DEF TypeOK
  <2> QED BY <1>3, <1>5, <1>19, <2>1 DEF Opened, Instances
<1>7. /\ insts' \in Seq(Instances(nextWrite)) /\ Len(insts') = new /\ insts'[new] = x
      /\ \A i \in 1 .. Len(insts) : insts'[i] = insts[i]
  <2>1. insts \in Seq(Instances(nextWrite))
    BY <1>0 DEF TypeOK
  <2> QED BY <1>1, <1>3, <1>6, <2>1, AppendProperties
<1>8. /\ admin'.op = "create" /\ admin'.name = admin.name /\ admin'.count = admin.count
      /\ admin' \in [op : {"create"}, name : Names, count : Counts \cup {DefaultCount},
                     opened : Seq(1 .. new)]
      /\ Len(admin'.opened) = last /\ admin'.opened[last] = new
      /\ \A k \in 1 .. Len(admin.opened) : admin'.opened[k] = admin.opened[k]
  <2>1. admin.opened \in Seq(1 .. new) /\ new \in 1 .. new
    BY <1>2, <1>3, <1>4, SeqMonotonic
  <2>2. admin' = [admin EXCEPT !.opened = Append(admin.opened, new)]
    BY <1>1, <1>2, <1>7
  <2>3. /\ Append(admin.opened, new) \in Seq(1 .. new)
        /\ Len(Append(admin.opened, new)) = last /\ Append(admin.opened, new)[last] = new
        /\ \A k \in 1 .. Len(admin.opened) : Append(admin.opened, new)[k] = admin.opened[k]
    BY <1>3, <2>1, AppendProperties
  <2>4. /\ admin'.opened = Append(admin.opened, new) /\ admin'.op = "create"
        /\ admin'.name = admin.name /\ admin'.count = admin.count
    BY <1>2, <2>2
  <2>5. admin' \in [op : {"create"}, name : Names, count : Counts \cup {DefaultCount},
                    opened : Seq(1 .. new)]
    BY <1>2, <2>2, <2>3
  <2> QED BY <2>3, <2>4, <2>5
<1>9. \A j : Registered(j)' <=> Registered(j)
  BY <1>1 DEF Registered
<1>10. \A j : Opening(j)' => Opening(j) \/ j = new
  <2> SUFFICES ASSUME NEW k \in 1 .. Len(admin'.opened)
               PROVE  Opening(admin'.opened[k]) \/ admin'.opened[k] = new
    BY DEF Opening
  <2>1. k = last \/ k \in 1 .. Len(admin.opened)
    BY <1>3, <1>4, <1>8
  <2> QED BY <1>1, <1>8, <2>1 DEF Opening
<1>11. RoutingInv'
  <2>1. ASSUME NEW n \in Names, NEW entry \in namespaces[n]
        PROVE  /\ \A other \in namespaces[n] : other = entry
               /\ entry.count = Len(entry.partitions) /\ entry.router = entry.count
               /\ entry.count > 0
               /\ \A k \in 1 .. Len(entry.partitions) :
                      insts'[entry.partitions[k]].dir = <<n, k - 1>>
    <3>1. /\ \A other \in namespaces[n] : other = entry
          /\ entry.count = Len(entry.partitions) /\ entry.router = entry.count
          /\ entry.count > 0
          /\ \A k \in 1 .. Len(entry.partitions) :
                 insts[entry.partitions[k]].dir = <<n, k - 1>>
      BY <1>0, Zenon DEF RoutingInv
    <3>2. \A k \in 1 .. Len(entry.partitions) :
              insts'[entry.partitions[k]] = insts[entry.partitions[k]]
      BY <1>0, <1>7, HandleTypes
    <3> QED BY <3>1, <3>2, Zenon
  <2>2. namespaces[admin.name] = {} /\ admin.count > 0
    BY <1>0, <1>1 DEF RoutingInv
  <2>3. last <= admin.count
    BY <1>1, <1>3, <1>4
  <2>4. ASSUME NEW k \in 1 .. last PROVE insts'[admin'.opened[k]].dir = <<admin.name, k - 1>>
    <3>1. CASE k = last
      <4>1. k - 1 = Len(admin.opened)
        BY <1>3, <1>4, <3>1
      <4> QED BY <1>3, <1>6, <1>7, <1>8, <3>1, <4>1
    <3>2. CASE k # last
      <4>1. k \in 1 .. Len(admin.opened)
        BY <1>3, <1>4, <3>2
      <4>2. insts[admin.opened[k]].dir = <<admin.name, k - 1>>
        BY <1>0, <1>1, <4>1 DEF RoutingInv
      <4>3. admin.opened[k] \in 1 .. Len(insts)
        BY <1>2, <4>1, ElementOfSeq
      <4> QED BY <1>7, <1>8, <4>1, <4>2, <4>3
    <3> QED BY <3>1, <3>2
  <2>5. /\ namespaces'[admin'.name] = {} /\ admin'.count > 0
        /\ Len(admin'.opened) <= admin'.count
        /\ \A k \in 1 .. Len(admin'.opened) :
               insts'[admin'.opened[k]].dir = <<admin'.name, k - 1>>
    BY <1>1, <1>8, <2>2, <2>3, <2>4
  <2> QED BY <1>1, <2>1, <2>5, Zenon DEF RoutingInv
<1>12. RequestsInv'
  <2> SUFFICES ASSUME NEW c \in Clients, req[c] # Idle, insts'[req[c].inst].state = "Active"
               PROVE  Registered(req[c].inst)
    BY <1>1, <1>9 DEF RequestsInv, is_writable
  <2>1. req[c].inst \in 1 .. Len(insts)
    BY <1>0 DEF TypeOK
  <2> QED BY <1>0, <1>7, <2>1 DEF ControlInv, RequestsInv, is_writable
<1>13. DeleteInv'
  BY <1>8 DEF DeleteInv
<1>14. MaintInv'
  <2> SUFFICES ASSUME NEW k \in 1 .. Len(maint.queue)
               PROVE  Registered(maint.queue[k]) \/ insts'[maint.queue[k]].mem = {}
    BY <1>1, <1>9 DEF MaintInv
  <2>1. maint.queue[k] \in 1 .. Len(insts)
    BY <1>0, ElementOfSeq DEF TypeOK
  <2> QED BY <1>0, <1>7, <2>1 DEF ControlInv, MaintInv
<1>15. ShutdownInv'
  <2>1. server \notin {"stopping", "stopped"}
    BY <1>0, <1>1 DEF ControlInv, ShutdownInv, NoCall
  <2> QED BY <1>0, <1>1, <1>9, <2>1 DEF ControlInv, ShutdownInv
<1>16. DataInv'
  <2>1. \A e \in Dirs : DirInv(e)'
    BY <1>0, <1>1 DEF DataInv, DirInv
  <2>2. ASSUME NEW j \in 1 .. Len(insts), Registered(j)' \/ Opening(j)' PROVE ServeInv(j)'
    <3>1. j # new
      BY <1>3, <1>4
    <3>2. ServeInv(j)
      BY <1>0, <1>9, <1>10, <2>2, <3>1 DEF DataInv
    <3> QED BY <1>1, <1>7, <1>19, <3>2 DEF ServeInv
  <2>3. ServeInv(new)'
    <3>1. DirInv(d)
      BY <1>0, <1>5 DEF DataInv
    <3>2. insts'[new].dir = d /\ insts'[new].mem = replayed /\ insts'[new].handles = tables[d]
      BY <1>6, <1>7
    <3>3. acked' = acked /\ lost' = lost /\ wal' = wal /\ tables' = tables
      BY <1>1
    <3>4. /\ acked[d] \ (lost \cup skipped') \subseteq replayed \cup tables[d]
          /\ replayed \cup tables[d] \subseteq acked[d] \cup lost
          /\ wal[d] \ (tables[d] \cup lost \cup skipped') \subseteq replayed
      BY <1>19, <3>1 DEF DirInv
    <3>5. PICK m, h : m = replayed /\ h = tables[d]
      OBVIOUS
    <3>6. /\ acked'[d] \ (lost' \cup skipped') \subseteq m \cup h
          /\ m \cup h \subseteq acked'[d] \cup lost'
          /\ wal'[d] \ (tables'[d] \cup lost' \cup skipped') \subseteq m
          /\ insts'[new].dir = d /\ insts'[new].mem = m /\ insts'[new].handles = h
      BY <3>2, <3>3, <3>4, <3>5
    <3> QED BY <3>6 DEF ServeInv
  <2>4. \A j \in 1 .. new : insts'[j].state = "Stopped" => insts'[j].mem = {}
    <3>1. \A j \in 1 .. new : j = new \/ j \in 1 .. Len(insts)
      BY <1>3, <1>4
    <3> QED BY <1>0, <1>6, <1>7, <3>1 DEF DataInv
  <2>5. \A j \in 1 .. new : Registered(j)' \/ Opening(j)' => ServeInv(j)'
    <3>1. \A j \in 1 .. new : j = new \/ j \in 1 .. Len(insts)
      BY <1>3, <1>4
    <3> QED BY <2>2, <2>3, <3>1
  <2> QED BY <1>7, <2>1, <2>4, <2>5 DEF DataInv
<1>17. TypeOK'
  <2> DEFINE count == Counts \cup {DefaultCount}
  <2>1. 1 .. Len(insts) \subseteq 1 .. new
    BY <1>3, <1>4
  <2>2. \A s \in Seq(1 .. Len(insts)) : s \in Seq(1 .. new)
    BY <2>1, SeqMonotonic
  <2>3. namespaces \in [Names -> SUBSET [count : count, router : count, partitions : Seq(1 .. new)]]
    <3>1. namespaces \in [Names -> SUBSET [count : count, router : count,
                                          partitions : Seq(1 .. Len(insts))]]
      BY <1>0 DEF TypeOK
    <3> HIDE DEF count
    <3> QED BY <2>2, <3>1
  <2>4. req \in [Clients -> {Idle} \cup [op : {"put", "get"}, record : Records, inst : 1 .. new]]
    <3>1. req \in [Clients -> {Idle} \cup [op : {"put", "get"}, record : Records,
                                          inst : 1 .. Len(insts)]]
      BY <1>0 DEF TypeOK
    <3> QED BY <2>1, <3>1
  <2>5. /\ maint \in [pc : {"asleep", "running", "flushing", "ended"}, queue : Seq(1 .. new)]
        /\ stopping \in Seq(1 .. new)
    BY <1>0, <2>2 DEF TypeOK
  <2> QED BY <1>0, <1>1, <1>6, <1>7, <1>8, <2>3, <2>4, <2>5 DEF TypeOK
<1> QED BY <1>11, <1>12, <1>13, <1>14, <1>15, <1>16, <1>17 DEF NamespacesInv, ControlInv
\* A namespace enters the map, leaves it, or gets another configuration.
LEMMA MapKept ==
    ASSUME NamespacesInv,
           \/ InsertNamespace \/ RemoveNamespace
           \/ \E n \in Names, count \in Counts : UpdateConfig(n, count)
    PROVE  NamespacesInv'
<1>0. TypeOK /\ ControlInv /\ RoutingInv /\ DataInv
  BY DEF NamespacesInv, ControlInv
<1>1. /\ UNCHANGED <<server, insts, wal, tables, req, maint, stopping, defaults>>
      /\ UNCHANGED <<nextWrite, acked, lost, skipped, faults, life, scenario>>
  BY DEF InsertNamespace, RemoveNamespace, UpdateConfig, durable, history
<1>2. /\ RequestsInv /\ DeleteInv /\ MaintInv /\ ShutdownInv
  BY <1>0 DEF ControlInv
<1> DEFINE count == Counts \cup {DefaultCount}
           entries == [count : count, router : count, partitions : Seq(1 .. Len(insts))]
           Routed(n, entry) ==
               /\ entry.count = Len(entry.partitions) /\ entry.router = entry.count
               /\ entry.count > 0
               /\ \A k \in 1 .. Len(entry.partitions) :
                      insts[entry.partitions[k]].dir = <<n, k - 1>>
<1>3. namespaces \in [Names -> SUBSET entries]
  BY <1>0 DEF TypeOK
<1>4. \A n \in Names : \A entry \in namespaces[n] :
          Routed(n, entry) /\ \A other \in namespaces[n] : other = entry
  BY <1>0, Zenon DEF RoutingInv
<1> HIDE DEF count, entries, Routed
<1>5. ASSUME admin' = NoCall, NEW m \in Names, NEW new \in SUBSET entries,
             namespaces' = [namespaces EXCEPT ![m] = new],
             \A entry \in new : Routed(m, entry) /\ \A other \in new : other = entry
      PROVE  RoutingInv' /\ DeleteInv' /\ TypeOK'
  <2>1. \A n \in Names : namespaces'[n] = IF n = m THEN new ELSE namespaces[n]
    BY <1>3, <1>5
  <2>2. \A n \in Names : \A entry \in namespaces'[n] :
            Routed(n, entry) /\ \A other \in namespaces'[n] : other = entry
    BY <1>4, <1>5, <2>1
  <2>3. admin'.op # "create" /\ admin'.op # "delete"
    BY <1>5 DEF NoCall
  <2>4. RoutingInv'
    <3>1. \A n \in Names : \A entry \in namespaces'[n] :
             /\ \A other \in namespaces'[n] : other = entry
             /\ entry.count = Len(entry.partitions) /\ entry.router = entry.count
             /\ entry.count > 0
             /\ \A k \in 1 .. Len(entry.partitions) :
                    insts[entry.partitions[k]].dir = <<n, k - 1>>
      BY <2>2, Zenon DEF Routed
    <3>2. insts' = insts
      BY <1>1
    <3> QED BY <2>3, <3>1, <3>2, ZenonT(40) DEF RoutingInv
  <2>5. DeleteInv'
    BY <2>3 DEF DeleteInv
  <2>6. namespaces' \in [Names -> SUBSET entries]
    BY <1>3, <1>5
  <2>7. TypeOK'
    BY <1>0, <1>1, <1>5, <2>6 DEF TypeOK, entries, count
  <2> QED BY <2>4, <2>5, <2>7
<1>6. ASSUME \A j : Registered(j) => Registered(j)' PROVE RequestsInv' /\ MaintInv'
  BY <1>1, <1>2, <1>6 DEF RequestsInv, MaintInv, is_writable
<1>7. ASSUME server \notin {"stopping", "stopped"} PROVE ShutdownInv'
  <2>1. stopping = <<>>
    BY <1>2, <1>7 DEF ShutdownInv
  <2> QED BY <1>1, <1>7, <2>1 DEF ShutdownInv
<1>8. CASE InsertNamespace
  <2>1. /\ admin.op = "create" /\ Len(admin.opened) = admin.count /\ admin' = NoCall
        /\ namespaces' = [namespaces EXCEPT ![admin.name] = Entry(admin)]
    BY <1>8 DEF InsertNamespace
  <2>2. admin \in [op : {"create"}, name : Names, count : count, opened : Seq(1 .. Len(insts))]
    BY <1>0, <2>1 DEF TypeOK, NoCall, count
  <2>3. PICK e : e = [count |-> admin.count, router |-> admin.count,
                      partitions |-> admin.opened]
    OBVIOUS
  <2>4. Entry(admin) = {e} /\ e \in entries
    BY <2>2, <2>3 DEF Entry, entries
  <2>5. Routed(admin.name, e)
    <3>1. /\ admin.count > 0
          /\ \A k \in 1 .. Len(admin.opened) :
                 insts[admin.opened[k]].dir = <<admin.name, k - 1>>
      BY <1>0, <2>1 DEF RoutingInv
    <3> QED BY <2>1, <2>3, <3>1 DEF Routed
  <2>6. RoutingInv' /\ DeleteInv' /\ TypeOK'
    <3>1. PICK m \in Names : m = admin.name
      BY <2>2
    <3>2. {e} \in SUBSET entries /\ namespaces' = [namespaces EXCEPT ![m] = {e}]
      BY <2>1, <2>4, <3>1
    <3>3. \A entry \in {e} : Routed(m, entry) /\ \A other \in {e} : other = entry
      BY <2>5, <3>1
    <3>4. admin' = NoCall
      BY <2>1
    <3> QED BY <1>5, <3>2, <3>3, <3>4
  <2>7. namespaces[admin.name] = {} /\ admin.name \in Names
    BY <1>0, <2>1, <2>2 DEF RoutingInv
  <2>8. \A n \in Names : namespaces'[n] = IF n = admin.name THEN {e} ELSE namespaces[n]
    BY <1>3, <2>1, <2>4
  <2>9. \A j : Registered(j) => Registered(j)'
    BY <2>7, <2>8 DEF Registered
  <2>10. \A j : Registered(j)' \/ Opening(j)' => Registered(j) \/ Opening(j)
    <3>1. \A j : Opening(j)' => FALSE
      BY <2>1 DEF Opening, NoCall
    <3>2. e.partitions = admin.opened
      BY <2>3
    <3>3. ASSUME NEW j, Registered(j)' PROVE Registered(j) \/ Opening(j)
      <4>1. PICK n \in Names : \E entry \in namespaces'[n] :
                \E k \in 1 .. Len(entry.partitions) : entry.partitions[k] = j
        BY <3>3 DEF Registered
      <4>2. CASE n = admin.name
        BY <2>1, <2>8, <3>2, <4>1, <4>2 DEF Opening
      <4>3. CASE n # admin.name
        BY <2>8, <4>1, <4>3 DEF Registered
      <4> QED BY <4>2, <4>3
    <3> QED BY <3>1, <3>3
  <2>11. DataInv'
    BY <1>0, <1>1, <2>10, DataSame
  <2>12. ShutdownInv'
    BY <1>2, <1>7, <2>1 DEF ShutdownInv, NoCall
  <2> QED BY <1>6, <2>6, <2>9, <2>11, <2>12 DEF NamespacesInv, ControlInv
<1>9. CASE RemoveNamespace
  <2>1. /\ admin.op = "delete" /\ admin.queue = <<>> /\ admin' = NoCall
        /\ namespaces' = [namespaces EXCEPT ![admin.name] = {}]
    BY <1>9 DEF RemoveNamespace
  <2>2. admin \in [op : {"delete"}, name : Names, queue : Seq(1 .. Len(insts))]
    BY <1>0, <2>1 DEF TypeOK, NoCall
  <2>3. RoutingInv' /\ DeleteInv' /\ TypeOK'
    <3>1. PICK m \in Names : m = admin.name
      BY <2>2
    <3>2. {} \in SUBSET entries /\ namespaces' = [namespaces EXCEPT ![m] = {}]
      BY <2>1, <3>1
    <3>3. admin' = NoCall
      BY <2>1
    <3> QED BY <1>5, <3>2, <3>3
  <2>4. \A n \in Names : namespaces'[n] = IF n = admin.name THEN {} ELSE namespaces[n]
    BY <1>3, <2>1
  <2>5. \A j : Registered(j)' => Registered(j)
    BY <2>4 DEF Registered
  <2>6. \A j : Registered(j) => Registered(j)' \/ (insts[j].state = "Stopped" /\ insts[j].mem = {})
    <3> SUFFICES ASSUME NEW j, Registered(j), ~Registered(j)'
                 PROVE  insts[j].state = "Stopped" /\ insts[j].mem = {}
      OBVIOUS
    <3>1. PICK n \in Names : \E entry \in namespaces[n] : \E k \in 1 .. Len(entry.partitions) :
              entry.partitions[k] = j
      BY DEF Registered
    <3>2. n = admin.name
      BY <2>4, <3>1 DEF Registered
    <3>3. PICK entry \in namespaces[admin.name] : \E k \in 1 .. Len(entry.partitions) :
              entry.partitions[k] = j
      BY <3>1, <3>2
    <3>4. ~Among(j, admin.queue)
      BY <2>1, EmptySeq DEF Among
    <3>5. insts[j].state = "Stopped"
      BY <1>2, <2>1, <3>3, <3>4 DEF DeleteInv
    <3>6. j \in 1 .. Len(insts)
      BY <1>0, HandleTypes
    <3> QED BY <1>0, <3>5, <3>6 DEF DataInv
  <2>7. RequestsInv' /\ MaintInv'
    <3>1. RequestsInv'
      BY <1>1, <1>2, <2>6 DEF RequestsInv, is_writable
    <3>2. MaintInv'
      BY <1>1, <1>2, <2>6 DEF MaintInv
    <3> QED BY <3>1, <3>2
  <2>8. DataInv'
    <3>1. \A j : Opening(j)' => Opening(j)
      BY <2>1 DEF Opening, NoCall
    <3> QED BY <1>0, <1>1, <2>5, <3>1, DataSame
  <2>9. ShutdownInv'
    BY <1>2, <1>7, <2>1 DEF ShutdownInv, NoCall
  <2> QED BY <2>3, <2>7, <2>8, <2>9 DEF NamespacesInv, ControlInv
<1>10. ASSUME NEW n \in Names, NEW c \in Counts, UpdateConfig(n, c) PROVE NamespacesInv'
  <2>1. /\ server = "serving" /\ admin = NoCall /\ admin' = admin
        /\ \E entry \in namespaces[n] :
              /\ entry.count = c
              /\ namespaces' = [namespaces EXCEPT ![n] = {[entry EXCEPT !.count = c]}]
    BY <1>10 DEF UpdateConfig, MayCall, can_update_from
  <2>2. PICK entry \in namespaces[n] :
              /\ entry.count = c
              /\ namespaces' = [namespaces EXCEPT ![n] = {[entry EXCEPT !.count = c]}]
    BY <2>1
  <2>3. entry \in entries
    BY <1>3
  <2>4. [entry EXCEPT !.count = c] = entry
    BY <2>2, <2>3 DEF entries
  <2>5. namespaces[n] = {entry}
    BY <1>4
  <2>6. namespaces' = namespaces
    BY <1>3, <2>2, <2>4, <2>5
  <2>7. RoutingInv' /\ DeleteInv' /\ TypeOK'
    <3>1. insts' = insts /\ admin' = admin /\ namespaces' = namespaces
      BY <1>1, <2>1, <2>6
    <3>2. RoutingInv'
      BY <1>0, <3>1 DEF RoutingInv
    <3>3. DeleteInv'
      BY <2>1 DEF DeleteInv, NoCall
    <3>4. TypeOK'
      BY <1>0, <1>1, <3>1 DEF TypeOK
    <3> QED BY <3>2, <3>3, <3>4
  <2>8. \A j : (Registered(j)' <=> Registered(j)) /\ (Opening(j)' <=> Opening(j))
    BY <2>1, <2>6 DEF Registered, Opening
  <2>9. DataInv'
    BY <1>0, <1>1, <2>8, DataSame
  <2>10. ShutdownInv'
    BY <1>7, <2>1
  <2> QED BY <1>6, <2>7, <2>8, <2>9, <2>10 DEF NamespacesInv, ControlInv
<1> QED BY <1>8, <1>9, <1>10
\* A process that has just started, over what earlier ones left.
Fresh ==
    /\ insts = <<>> /\ namespaces = [n \in Names |-> {}] /\ admin = NoCall /\ maint = Asleep
    /\ req = [c \in Clients |-> Idle] /\ stopping = <<>> /\ server = "starting"
    /\ defaults = DefaultNames /\ scenario \in Scenarios /\ faults \in Nat /\ life \in Nat
    /\ nextWrite \in Nat \ {0} /\ lost \subseteq WritesBefore(nextWrite)
    /\ skipped \subseteq WritesBefore(nextWrite)
    /\ wal \in [Dirs -> SUBSET WritesBefore(nextWrite)]
    /\ tables \in [Dirs -> SUBSET WritesBefore(nextWrite)]
    /\ acked \in [Dirs -> SUBSET WritesBefore(nextWrite)]
    /\ \A d \in Dirs : DirInv(d)

\* Such a process has nothing open, so that only the directories matter.
LEMMA FreshProcess == Fresh => NamespacesInv
<1> SUFFICES ASSUME Fresh PROVE NamespacesInv
  OBVIOUS
<1> USE DEF Fresh
<1>1. /\ Len(insts) = 0 /\ Len(stopping) = 0 /\ Len(maint.queue) = 0 /\ maint.queue = <<>>
      /\ maint.pc = "asleep" /\ admin.op = "none"
      /\ \A S : <<>> \in Seq(S)
  BY EmptySeq DEF Asleep, NoCall
<1>2. \A j : ~Registered(j) /\ ~Opening(j)
  BY <1>1 DEF Registered, Opening
<1>3. DefaultNames \in Seq(Names)
  BY NamespacesAssumption
<1>4. TypeOK
  <2>1. maint \in [pc : {"asleep", "running", "flushing", "ended"}, queue : Seq(1 .. Len(insts))]
    BY <1>1 DEF Asleep
  <2>2. insts \in Seq(Instances(nextWrite)) /\ stopping \in Seq(1 .. Len(insts))
    BY <1>1
  <2> QED BY <1>1, <1>3, <2>1, <2>2 DEF TypeOK
<1>5. RoutingInv /\ RequestsInv /\ DeleteInv
  BY <1>1 DEF RoutingInv, RequestsInv, DeleteInv
<1>6. MaintInv /\ ShutdownInv
  BY <1>1 DEF MaintInv, ShutdownInv
<1>7. DataInv
  BY <1>1, <1>2 DEF DataInv
<1> QED BY <1>4, <1>5, <1>6, <1>7 DEF NamespacesInv, ControlInv

\* The process starts again, perhaps in the middle of a flush.
LEMMA RestartKept == ASSUME NamespacesInv, Restart PROVE NamespacesInv'
<1>0. TypeOK /\ ControlInv /\ RoutingInv /\ DataInv
  BY DEF NamespacesInv, ControlInv
<1>1. /\ UNCHANGED <<wal, nextWrite, acked, lost, skipped, faults, scenario>> /\ life' = life + 1
      /\ server' = "starting" /\ defaults' = DefaultNames
      /\ namespaces' = [n \in Names |-> {}] /\ insts' = <<>>
      /\ req' = [c \in Clients |-> Idle] /\ admin' = NoCall /\ maint' = Asleep
      /\ stopping' = <<>>
  BY DEF Restart
<1>2. /\ nextWrite \in Nat \ {0} /\ lost \subseteq WritesBefore(nextWrite)
      /\ skipped \subseteq WritesBefore(nextWrite)
      /\ wal \in [Dirs -> SUBSET WritesBefore(nextWrite)]
      /\ tables \in [Dirs -> SUBSET WritesBefore(nextWrite)]
      /\ acked \in [Dirs -> SUBSET WritesBefore(nextWrite)]
      /\ scenario \in Scenarios /\ faults \in Nat /\ life \in Nat
  BY <1>0 DEF TypeOK
<1>3. /\ tables' \in [Dirs -> SUBSET WritesBefore(nextWrite)]
      /\ \A d \in Dirs : DirInv(d)'
  <2>1. CASE tables' = tables
    BY <1>0, <1>1, <1>2, <2>1 DEF DataInv, DirInv
  <2>2. CASE /\ maint.pc = "flushing"
             /\ tables' = [tables EXCEPT ![insts[maint.queue[1]].dir]
                                 = @ \cup insts[maint.queue[1]].mem]
    <3>1. PICK i : i = maint.queue[1]
      OBVIOUS
    <3>2. i \in 1 .. Len(insts) /\ (Registered(i) \/ insts[i].mem = {})
      BY <1>0, <2>2, <3>1, MaintHead
    <3>3. PICK d, mem : d = insts[i].dir /\ mem = insts[i].mem
      OBVIOUS
    <3>4. d \in Dirs /\ mem \subseteq WritesBefore(nextWrite)
      BY <1>0, <3>2, <3>3, InstTypes
    <3>5. /\ tables' \in [Dirs -> SUBSET WritesBefore(nextWrite)]
          /\ tables'[d] = tables[d] \cup mem
          /\ \A e \in Dirs : e # d => tables'[e] = tables[e]
      BY <1>2, <2>2, <3>1, <3>3, <3>4
    <3>6. mem = {} \/ /\ wal[d] \ (tables[d] \cup lost \cup skipped) \subseteq mem
                      /\ mem \subseteq acked[d] \cup lost
      BY <1>0, <3>2, <3>3 DEF DataInv, ServeInv
    <3>7. ASSUME NEW e \in Dirs PROVE DirInv(e)'
      <4>1. DirInv(e)
        BY <1>0 DEF DataInv
      <4>2. CASE e = d
        BY <1>1, <3>5, <3>6, <4>1, <4>2 DEF DirInv
      <4>3. CASE e # d
        BY <1>1, <3>5, <4>1, <4>3 DEF DirInv
      <4> QED BY <4>2, <4>3
    <3> QED BY <3>5, <3>7
  <2> QED BY <2>1, <2>2 DEF Restart
<1>4. life' \in Nat
  BY <1>1, <1>2
<1>5. Fresh'
  BY <1>1, <1>2, <1>3, <1>4 DEF Fresh
<1> QED BY <1>5, FreshProcess, PTL
\* The first process starts over empty directories.
LEMMA InitKept == ASSUME Init PROVE NamespacesInv
<1>1. \A d \in Dirs : DirInv(d)
  BY DEF Init, DirInv
<1>2. Fresh
  BY <1>1 DEF Init, Fresh
<1> QED BY <1>2, FreshProcess

\* Every step keeps the invariant.
LEMMA StepKept == ASSUME NamespacesInv, [Next]_vars PROVE NamespacesInv'
<1>1. CASE Administration
  BY <1>1, CallKept, OpenKept, QuietKept, MapKept, StopKept, PartitionKept DEF Administration
<1>2. ASSUME NEW c \in Clients, NEW op \in {"put", "get"}, NEW n \in Names, NEW r \in Records,
             Resolve(c, op, n, r)
      PROVE  NamespacesInv'
  BY <1>2, CallKept
<1>3. ASSUME NEW c \in Clients, Serve(c) \/ Disconnect(c) PROVE NamespacesInv'
  BY <1>3, WriteKept, QuietKept DEF Serve
<1>4. CASE Maintenance
  BY <1>4, CallKept, QuietKept, PartitionKept DEF Maintenance
<1>5. CASE Process
  BY <1>5, CallKept, StopKept DEF Process
<1>6. CASE Restart
  BY <1>6, RestartKept
<1>7. CASE UNCHANGED vars
  <2>1. /\ UNCHANGED <<server, namespaces, insts, wal, tables, req, admin, maint, stopping>>
        /\ UNCHANGED <<defaults, nextWrite, acked, lost, skipped, faults, life, scenario>>
    BY <1>7 DEF vars, durable, history
  <2>2. \A j : (Registered(j)' <=> Registered(j)) /\ (Opening(j)' <=> Opening(j))
    BY <2>1 DEF Registered, Opening
  <2>3. TypeOK /\ ControlInv /\ DataInv
    BY DEF NamespacesInv
  <2>4. DataInv'
    BY <2>1, <2>2, <2>3, DataSame
  <2>5. ControlInv'
    <3>1. \A c \in Clients : req'[c] \in {req[c], Idle}
      BY <2>1
    <3>2. \A k \in 1 .. Len(maint'.queue) : Among(maint'.queue[k], maint.queue)
      BY <2>1 DEF Among
    <3> QED BY <2>1, <2>3, <3>1, <3>2, SteadySame, ControlKept
  <2>6. TypeOK'
    BY <2>1, <2>3 DEF TypeOK
  <2> QED BY <2>4, <2>5, <2>6 DEF NamespacesInv
<1> QED BY <1>1, <1>2, <1>3, <1>4, <1>5, <1>6, <1>7 DEF Next

-----------------------------------------------------------------------------
(* The theorems *)

\* The server process keeps its invariant: partitions are where the router
\* looks for them, what leaves the map is stopped, and the log, the tables and
\* the open engines of a directory agree on the acknowledged writes.
THEOREM NamespacesInvariant == Spec => []NamespacesInv
<1>1. Init => NamespacesInv
  BY InitKept
<1>2. NamespacesInv /\ [Next]_vars => NamespacesInv'
  BY StepKept
<1> QED BY <1>1, <1>2, PTL DEF Spec

\* No two engines that accept writes and can still be reached share a
\* partition directory.
THEOREM OneWriterPerDirectory == Spec => []OneWriter
<1>1. ASSUME NamespacesInv PROVE OneWriter
  <2>0. TypeOK /\ RoutingInv /\ RequestsInv
    BY <1>1 DEF NamespacesInv, ControlInv
  <2>1. \A i : is_writable(i) /\ Reachable(i) => Registered(i) \/ Opening(i)
    BY <2>0 DEF Reachable, RequestsInv
  <2> QED BY <2>0, <2>1, DirsApart DEF OneWriter
<1> QED BY <1>1, NamespacesInvariant, PTL

\* An acknowledged write stays in the log or in a table of its directory,
\* unless a flush of its memtable failed or was dropped.
THEOREM AckedStayDurable == Spec => []AckedDurable
<1>1. ASSUME NamespacesInv PROVE AckedDurable
  BY <1>1 DEF NamespacesInv, DataInv, DirInv, AckedDurable
<1> QED BY <1>1, NamespacesInvariant, PTL

\* The partition a request is routed to has every acknowledged write of the
\* record, across deletion, creation, maintenance and restarts, except those of
\* dropped memtables and those a recovery left in the log.
THEOREM AckedAlwaysServed == Spec => []ServesAcked
<1>1. ASSUME NamespacesInv PROVE ServesAcked
  <2>0. TypeOK /\ RoutingInv /\ DataInv
    BY <1>1 DEF NamespacesInv, ControlInv
  <2> SUFFICES ASSUME NEW n \in Names, NEW r \in Records, NEW entry \in namespaces[n]
               PROVE  /\ entry.count = Len(entry.partitions) /\ entry.router = entry.count
                      /\ Hash[r] # NoKey =>
                            LET i == entry.partitions[route(entry, r) + 1]
                                dir == <<n, route(entry, r)>>
                            IN  OfRecord(acked[dir], r) \ (lost \cup skipped)
                                    \subseteq insts[i].mem \cup insts[i].handles
    BY DEF ServesAcked
  <2>1. /\ entry.count = Len(entry.partitions) /\ entry.router = entry.count
        /\ entry.count > 0 /\ entry.count \in Nat
    BY <2>0, HandleTypes DEF RoutingInv
  <2>2. ASSUME Hash[r] # NoKey, NEW k, k = route(entry, r) + 1,
               NEW i, i = entry.partitions[k], NEW d, d = <<n, route(entry, r)>>
        PROVE  OfRecord(acked[d], r) \ (lost \cup skipped)
                   \subseteq insts[i].mem \cup insts[i].handles
    <3>1. Hash[r] \in Nat
      BY <2>2, NamespacesAssumption
    <3>2. k \in 1 .. Len(entry.partitions) /\ k - 1 = route(entry, r)
      BY <2>1, <2>2, <3>1 DEF route
    <3>3. insts[i].dir = d
      BY <2>0, <2>2, <3>2 DEF RoutingInv
    <3>4. Registered(i) /\ i \in 1 .. Len(insts)
      BY <2>0, <2>2, <3>2, HandleTypes DEF Registered
    <3>5. acked[d] \ (lost \cup skipped) \subseteq insts[i].mem \cup insts[i].handles
      BY <2>0, <3>3, <3>4 DEF DataInv, ServeInv
    <3> QED BY <2>2, <3>5 DEF OfRecord
  <2> QED BY <2>1, <2>2
<1> QED BY <1>1, NamespacesInvariant, PTL

\* A shutdown that reports success has stopped every registered partition and
\* left in tables the acknowledged writes it had in memory.
THEOREM ShutdownKeepsAcked == Spec => []CleanStop
<1>1. ASSUME NamespacesInv PROVE CleanStop
  <2>0. TypeOK /\ RoutingInv /\ ShutdownInv /\ DataInv
    BY <1>1 DEF NamespacesInv, ControlInv
  <2> SUFFICES ASSUME server = "stopped", NEW n \in Names, NEW entry \in namespaces[n],
                      NEW k \in 1 .. Len(entry.partitions)
               PROVE  /\ insts[entry.partitions[k]].state = "Stopped"
                      /\ acked[<<n, k - 1>>] \ (lost \cup skipped) \subseteq tables[<<n, k - 1>>]
    BY DEF CleanStop
  <2>1. PICK i, d : i = entry.partitions[k] /\ d = <<n, k - 1>>
    OBVIOUS
  <2>2. Registered(i) /\ i \in 1 .. Len(insts) /\ insts[i].dir = d
    BY <2>0, <2>1, HandleTypes DEF Registered, RoutingInv
  <2>3. ~Among(i, stopping)
    <3>1. stopping = <<>>
      BY <2>0 DEF ShutdownInv
    <3> QED BY <3>1, EmptySeq DEF Among
  <2>4. insts[i].state = "Stopped"
    BY <2>0, <2>2, <2>3 DEF ShutdownInv
  <2>5. insts[i].mem = {} /\ ServeInv(i)
    BY <2>0, <2>2, <2>4 DEF DataInv
  <2>6. wal[d] \ (tables[d] \cup lost \cup skipped) \subseteq {}
    BY <2>2, <2>5 DEF ServeInv
  <2>7. acked[d] \ lost \subseteq wal[d] \cup tables[d]
    <3>1. d \in Dirs
      BY <2>0, <2>2, InstTypes
    <3> QED BY <2>0, <3>1 DEF DataInv, DirInv
  <2> QED BY <2>1, <2>4, <2>6, <2>7
<1> QED BY <1>1, NamespacesInvariant, PTL
=============================================================================
