--------------------------- MODULE Compaction_proofs ---------------------------
(***************************************************************************)
(* Proofs about leveled compaction for every set of keys, number of levels *)
(* and trigger, and for any number of writes, failures and restarts: the   *)
(* files of the tables first, then what the tables hold.                   *)
(***************************************************************************)
EXTENDS Compaction, FiniteSetTheorems, SequenceTheorems, WellFoundedInduction, TLAPS

-----------------------------------------------------------------------------
(* Numbers *)

\* A set of natural numbers has a least element.
LEMMA LeastNat ==
    ASSUME NEW S, S \subseteq Nat, S # {}
    PROVE  \E x \in S : \A y \in S : x <= y
<1> DEFINE R == OpToRel(<, Nat)
<1>1. \E x \in S : \A y \in S : <<y, x>> \notin R
  BY NatLessThanWellFounded, WFMin
<1>2. R = {ss \in Nat \X Nat : ss[1] < ss[2]}
  BY Zenon DEF OpToRel
<1> HIDE DEF R
<1>3. \A x, y \in Nat : <<y, x>> \notin R => x <= y
  BY <1>2
<1> QED BY <1>1, <1>3

\* A bounded one has a greatest element.
LEMMA GreatestNat ==
    ASSUME NEW top \in Nat, NEW S, S \subseteq 0 .. top, S # {}
    PROVE  \E x \in S : \A y \in S : y <= x
<1> DEFINE D == {top - x : x \in S}
<1>1. D \subseteq Nat /\ D # {}
  <2>1. \A x \in S : x \in Nat /\ x <= top
    OBVIOUS
  <2>2. \A x \in S : top - x \in Nat
    BY <2>1
  <2> QED BY <2>2
<1> HIDE DEF D
<1>2. PICK d \in D : \A e \in D : d <= e
  BY <1>1, LeastNat
<1>3. PICK x \in S : d = top - x
  BY DEF D
<1>4. \A y \in S : top - y \in D
  BY DEF D
<1> QED BY <1>2, <1>3, <1>4

\* A finite set of natural numbers is bounded: otherwise a smallest unbounded
\* subset would stay unbounded without one of its elements.
LEMMA FiniteIsBounded ==
    ASSUME NEW S, S \subseteq Nat, IsFiniteSet(S)
    PROVE  \E top \in Nat : S \subseteq 0 .. top
<1> DEFINE Bounded(T) == \E top \in Nat : T \subseteq 0 .. top
           W == {T \in FiniteSubsetsOf(S) : ~Bounded(T)}
           R == StrictSubsetOrdering(S)
<1> SUFFICES ASSUME ~Bounded(S) PROVE FALSE
  OBVIOUS
<1>1. S \in FiniteSubsetsOf(S)
  BY DEF FiniteSubsetsOf
<1>2. W \subseteq FiniteSubsetsOf(S) /\ W # {}
  BY <1>1
<1>3. IsWellFoundedOn(R, FiniteSubsetsOf(S))
  BY FS_StrictSubsetOrderingWellFounded
<1>4. \E T \in W : \A U \in W : <<U, T>> \notin R
  <2> HIDE DEF W, R
  <2> QED BY <1>2, <1>3, WFMin
<1>5. PICK T \in W : \A U \in W : <<U, T>> \notin R
  BY <1>4
<1>6. T \in SUBSET S /\ IsFiniteSet(T) /\ ~Bounded(T)
  BY <1>5 DEF FiniteSubsetsOf
<1>7. PICK x \in T : TRUE
  BY <1>6
<1>8. T \ {x} \in FiniteSubsetsOf(S)
  BY <1>6, FS_RemoveElement DEF FiniteSubsetsOf
<1>9. <<T \ {x}, T>> \in R
  BY <1>6, <1>7 DEF StrictSubsetOrdering
<1>10. Bounded(T \ {x})
  BY <1>5, <1>8, <1>9
<1>11. PICK n \in Nat : T \ {x} \subseteq 0 .. n
  BY <1>10
<1>12. x \in Nat /\ n + x \in Nat
  BY <1>6, <1>7
<1>13. T \subseteq 0 .. (n + x)
  <2> SUFFICES ASSUME NEW y \in T PROVE y \in 0 .. (n + x)
    OBVIOUS
  <2>1. CASE y = x
    BY <1>12, <2>1
  <2>2. CASE y \in 0 .. n
    BY <1>12, <2>2
  <2> QED BY <1>11, <2>1, <2>2
<1> QED BY <1>6, <1>12, <1>13

\* Division by a fragment size is monotone.
LEMMA DivMonotone ==
    ASSUME NEW a \in Nat, NEW b \in Nat, a <= b, NEW d \in Nat \ {0}
    PROVE  a \div d \in Nat /\ a \div d <= b \div d
OBVIOUS

-----------------------------------------------------------------------------
(* Tables *)

\* A set of keys has a first and a last one.
LEMMA FirstAndLast ==
    ASSUME NEW S, S \subseteq Keys, S # {}
    PROVE  /\ \E x \in S : \A y \in S : x <= y
           /\ \E x \in S : \A y \in S : y <= x
<1>1. Keys \subseteq Nat /\ IsFiniteSet(Keys)
  BY ConstantsAssumption
<1>2. PICK top \in Nat : Keys \subseteq 0 .. top
  BY <1>1, FiniteIsBounded
<1>3. S \subseteq Nat /\ S \subseteq 0 .. top
  BY <1>1, <1>2
<1> QED BY <1>3, LeastNat, GreatestNat

\* So has a table: every table spans a range of keys.
LEMMA KeyRange ==
    ASSUME NEW n, NEW t \in Tables(n)
    PROVE  /\ KeysOf(t) \subseteq Keys /\ KeysOf(t) # {}
           /\ MinKey(t) \in KeysOf(t) /\ MaxKey(t) \in KeysOf(t)
           /\ \A k \in KeysOf(t) : MinKey(t) <= k /\ k <= MaxKey(t)
           /\ MinKey(t) \in Nat /\ MaxKey(t) \in Nat
           /\ MinKey(t) <= MaxKey(t)
<1>1. t.entries # {} /\ \A e \in t.entries : e.key \in Keys
  BY DEF Tables, Entries
<1>2. KeysOf(t) \subseteq Keys /\ KeysOf(t) # {}
  BY <1>1 DEF KeysOf
<1>3. /\ MinKey(t) \in KeysOf(t)
      /\ \A k \in KeysOf(t) : MinKey(t) <= k
  BY <1>2, FirstAndLast DEF MinKey
<1>4. /\ MaxKey(t) \in KeysOf(t)
      /\ \A k \in KeysOf(t) : k <= MaxKey(t)
  BY <1>2, FirstAndLast DEF MaxKey
<1>5. Keys \subseteq Nat
  BY ConstantsAssumption
<1> QED BY <1>2, <1>3, <1>4, <1>5

\* Two tables are apart when one ends before the other starts.
LEMMA ApartTables ==
    ASSUME NEW n, NEW t \in Tables(n), NEW u \in Tables(n)
    PROVE  /\ Apart(t, u) <=> \/ MaxKey(t) < MinKey(u)
                              \/ MaxKey(u) < MinKey(t)
           /\ Apart(t, u) => KeysOf(t) \cap KeysOf(u) = {}
<1>1. /\ MinKey(t) \in Nat /\ MaxKey(t) \in Nat
      /\ MinKey(u) \in Nat /\ MaxKey(u) \in Nat
      /\ KeysOf(t) \subseteq Nat
      /\ \A k \in KeysOf(t) : MinKey(t) <= k /\ k <= MaxKey(t)
      /\ \A k \in KeysOf(u) : MinKey(u) <= k /\ k <= MaxKey(u)
  BY KeyRange, ConstantsAssumption
<1>2. Apart(t, u) <=> MaxKey(t) < MinKey(u) \/ MaxKey(u) < MinKey(t)
  BY <1>1 DEF Apart, overlaps_range
<1> QED BY <1>1, <1>2

\* What exists before one number is drawn exists before the next.
LEMMA TablesGrow ==
    ASSUME NEW n \in Nat \ {0}
    PROVE  /\ n + 1 \in Nat \ {0}
           /\ Entries(n) \subseteq Entries(n + 1)
           /\ Tables(n) \subseteq Tables(n + 1)
           /\ Tasks(n) \subseteq Tasks(n + 1)
           /\ Blocks(n) \subseteq Blocks(n + 1)
           /\ Seq(Tasks(n)) \subseteq Seq(Tasks(n + 1))
<1>1. 1 .. n - 1 \subseteq 1 .. (n + 1) - 1
  OBVIOUS
<1>2. Entries(n) \subseteq Entries(n + 1)
  BY <1>1 DEF Entries
<1>3. (SUBSET Entries(n)) \ {{}} \subseteq (SUBSET Entries(n + 1)) \ {{}}
  BY <1>2
<1>4. Tables(n) \subseteq Tables(n + 1)
  BY <1>1, <1>3 DEF Tables
<1>5. SUBSET Tables(n) \subseteq SUBSET Tables(n + 1)
  BY <1>4
<1>6. Tasks(n) \subseteq Tasks(n + 1)
  BY <1>5 DEF Tasks
<1>7. Blocks(n) \subseteq Blocks(n + 1)
  BY <1>3 DEF Blocks
<1>8. Seq(Tasks(n)) \subseteq Seq(Tasks(n + 1))
  BY <1>6
<1> QED BY <1>2, <1>4, <1>6, <1>7, <1>8

\* There are finitely many entries.
LEMMA FiniteEntries ==
    ASSUME NEW n \in Nat \ {0}
    PROVE  IsFiniteSet(Entries(n))
<1> DEFINE S == (Keys \X (1 .. n - 1)) \X BOOLEAN
           f == [p \in S |-> [key |-> p[1][1], seq |-> p[1][2], del |-> p[2]]]
<1>1. IsFiniteSet(Keys) /\ IsFiniteSet(1 .. n - 1) /\ IsFiniteSet(BOOLEAN)
  <2>1. IsFiniteSet(1 .. n - 1)
    BY FS_Interval
  <2>2. BOOLEAN = {TRUE} \cup {FALSE}
    OBVIOUS
  <2>3. IsFiniteSet({TRUE}) /\ IsFiniteSet({FALSE})
    BY FS_Singleton
  <2>4. IsFiniteSet({TRUE} \cup {FALSE})
    BY <2>3, FS_Union
  <2> QED BY <2>1, <2>2, <2>4, ConstantsAssumption
<1>2. IsFiniteSet(Keys \X (1 .. n - 1))
  BY <1>1, FS_Product
<1>3. IsFiniteSet(S)
  BY <1>1, <1>2, FS_Product
<1>4. f \in [S -> Entries(n)]
  BY DEF Entries
<1>5. \A e \in Entries(n) : \E p \in S : f[p] = e
  <2> SUFFICES ASSUME NEW e \in Entries(n) PROVE \E p \in S : f[p] = e
    OBVIOUS
  <2>1. <<<<e.key, e.seq>>, e.del>> \in S
    BY DEF Entries
  <2>2. f[<<<<e.key, e.seq>>, e.del>>] = e
    BY <2>1 DEF Entries
  <2> QED BY <2>1, <2>2
<1>6. f \in Surjection(S, Entries(n))
  <2> HIDE DEF f, S
  <2> QED BY <1>4, <1>5 DEF Surjection
<1> HIDE DEF f, S
<1> QED BY <1>3, <1>6, FS_Surjection

-----------------------------------------------------------------------------
(* Fragments *)

\* The number of the fragment an entry of E goes to.
FragmentOf(E, e) ==
    IF Cardinality(E) < config.fragSize THEN 0
    ELSE Cardinality({o \in E : o.key < e.key}) \div config.fragSize + 1

\* The output is cut into tables by these numbers.
LEMMA FragmentTables ==
    ASSUME NEW E
    PROVE  Fragments(E) =
             {[id |-> fresh, frag |-> FragmentOf(E, e), level |-> Target,
               created |-> fresh,
               entries |-> {o \in E : FragmentOf(E, o) = FragmentOf(E, e)}]
                 : e \in E}
BY Zenon DEF Fragments, FragmentOf

\* The numbers follow the order of the keys.
LEMMA FragmentNumbers ==
    ASSUME TypeOK, NEW E, E \subseteq Entries(fresh)
    PROVE  /\ \A e \in E : FragmentOf(E, e) \in Nat
           /\ \A e, f \in E : e.key <= f.key =>
                 FragmentOf(E, e) <= FragmentOf(E, f)
<1>1. IsFiniteSet(E) /\ E \subseteq [key : Nat, seq : Nat, del : BOOLEAN]
  <2>1. IsFiniteSet(Entries(fresh))
    BY FiniteEntries DEF TypeOK
  <2>2. IsFiniteSet(E)
    BY <2>1, FS_Subset
  <2>3. Entries(fresh) \subseteq [key : Nat, seq : Nat, del : BOOLEAN]
    <3>1. 1 .. fresh - 1 \subseteq Nat /\ Keys \subseteq Nat
      BY ConstantsAssumption DEF TypeOK
    <3> QED BY <3>1 DEF Entries
  <2> QED BY <2>2, <2>3
<1>2. config.fragSize \in Nat \ {0}
  BY ConstantsAssumption DEF TypeOK
<1> DEFINE Below(e) == {o \in E : o.key < e.key}
<1>3. \A e \in E : IsFiniteSet(Below(e)) /\ Cardinality(Below(e)) \in Nat
  BY <1>1, FS_Subset, FS_CardinalityType
<1>4. \A e \in E : FragmentOf(E, e) \in Nat
  <2> SUFFICES ASSUME NEW e \in E PROVE FragmentOf(E, e) \in Nat
    OBVIOUS
  <2>1. Cardinality(Below(e)) \div config.fragSize \in Nat
    <3> DEFINE c == Cardinality(Below(e))
    <3>1. c \in Nat
      BY <1>3
    <3> HIDE DEF c
    <3>2. c \div config.fragSize \in Nat
      BY <1>2, <3>1, DivMonotone
    <3> QED BY <3>2 DEF c
  <2> QED BY <2>1 DEF FragmentOf
<1>5. ASSUME NEW e \in E, NEW f \in E, e.key <= f.key
      PROVE  FragmentOf(E, e) <= FragmentOf(E, f)
  <2>1. Below(e) \subseteq Below(f)
    BY <1>1, <1>5
  <2> DEFINE b == Cardinality(Below(e))
             c == Cardinality(Below(f))
  <2>2. b \in Nat /\ c \in Nat /\ b <= c
    BY <1>3, <2>1, FS_Subset
  <2>3. FragmentOf(E, e) = IF Cardinality(E) < config.fragSize THEN 0
                           ELSE b \div config.fragSize + 1
    BY DEF FragmentOf
  <2>4. FragmentOf(E, f) = IF Cardinality(E) < config.fragSize THEN 0
                           ELSE c \div config.fragSize + 1
    BY DEF FragmentOf
  <2> HIDE DEF b, c
  <2>5. /\ b \div config.fragSize \in Nat /\ c \div config.fragSize \in Nat
        /\ b \div config.fragSize <= c \div config.fragSize
    BY <1>2, <2>2, DivMonotone
  <2> QED BY <2>3, <2>4, <2>5
<1> QED BY <1>4, <1>5

\* What the tables of an output are and hold.
LEMMA FragmentTypes ==
    ASSUME TypeOK, NEW E, E \subseteq Entries(fresh), Target \in 0 .. Bottom
    PROVE  /\ Fragments(E) \subseteq Tables(fresh + 1)
           /\ \A o \in Fragments(E) : o.id = fresh /\ o.level = Target
           /\ \A o, p \in Fragments(E) : SameTable(o, p) => o = p
           /\ Versions(Fragments(E)) = E
<1> DEFINE Part(e) == {o \in E : FragmentOf(E, o) = FragmentOf(E, e)}
           Tab(e) == [id |-> fresh, frag |-> FragmentOf(E, e), level |-> Target,
                      created |-> fresh, entries |-> Part(e)]
<1>1. Fragments(E) = {Tab(e) : e \in E}
  BY FragmentTables
<1>2. fresh \in 1 .. (fresh + 1) - 1 /\ fresh \in Nat \ {0}
  BY DEF TypeOK
<1>3. Entries(fresh) \subseteq Entries(fresh + 1)
  BY <1>2, TablesGrow
<1>4. \A e \in E : FragmentOf(E, e) \in Nat
  BY FragmentNumbers
<1>5. \A e \in E : e \in Part(e) /\ Part(e) \subseteq E
  OBVIOUS
<1>6. \A e \in E : Part(e) \in (SUBSET Entries(fresh + 1)) \ {{}}
  BY <1>3, <1>5
<1> HIDE DEF Part
<1>7. \A e \in E : Tab(e) \in Tables(fresh + 1)
  BY <1>2, <1>4, <1>6 DEF Tables
<1>8. ASSUME NEW e \in E, NEW f \in E, SameTable(Tab(e), Tab(f))
      PROVE  Tab(e) = Tab(f)
  <2>1. FragmentOf(E, e) = FragmentOf(E, f)
    BY <1>8 DEF SameTable
  <2>2. Part(e) = Part(f)
    BY <2>1 DEF Part
  <2> QED BY <2>1, <2>2
<1>9. \A e \in E : /\ Tab(e).entries = Part(e) /\ Tab(e).id = fresh
                   /\ Tab(e).level = Target
  OBVIOUS
<1> HIDE DEF Tab
<1>10. Versions({Tab(e) : e \in E}) = E
  BY <1>5, <1>9 DEF Versions
<1>11. /\ Fragments(E) \subseteq Tables(fresh + 1)
       /\ \A o \in Fragments(E) : o.id = fresh /\ o.level = Target
  BY <1>1, <1>7, <1>9
<1>12. \A o, p \in Fragments(E) : SameTable(o, p) => o = p
  BY <1>1, <1>8
<1> QED BY <1>1, <1>10, <1>11, <1>12

-----------------------------------------------------------------------------
(* The block cache *)

\* Of some tables one starts first.
LEMMA FirstTable ==
    ASSUME NEW n, NEW G, G \subseteq Tables(n), G # {}
    PROVE  \E t \in G : \A u \in G : MinKey(t) <= MinKey(u)
<1> DEFINE M == {MinKey(t) : t \in G}
<1>1. M \subseteq Nat /\ M # {}
  BY KeyRange
<1>2. PICK m \in M : \A k \in M : m <= k
  <2> HIDE DEF M
  <2> QED BY <1>1, LeastNat
<1> QED BY <1>2

\* Reading tables caches their blocks and nothing else.
LEMMA CachedBlocks ==
    ASSUME TypeOK, NEW first, NEW ts, first \subseteq ts, ts \subseteq Tables(fresh)
    PROVE  /\ CachedAfter(first, ts) \subseteq Blocks(fresh)
           /\ cache \subseteq CachedAfter(first, ts)
           /\ \A c \in CachedAfter(first, ts) :
                 \/ c \in cache
                 \/ \E t \in ts : c.key = CacheKey(t) /\ c.entries = t.entries
<1> DEFINE keys == {CacheKey(t) : t \in ts} \ {c.key : c \in cache}
           Group(k) == LET one == {t \in first : CacheKey(t) = k}
                       IN  IF one # {} THEN one ELSE {t \in ts : CacheKey(t) = k}
           Reader(k) == CHOOSE t \in Group(k) :
                          \A u \in Group(k) : MinKey(t) <= MinKey(u)
           block(k) == [key |-> k, entries |-> Reader(k).entries]
<1>1. CachedAfter(first, ts) =
        IF config.caching THEN cache \cup {block(k) : k \in keys} ELSE cache
  BY Zenon DEF CachedAfter
<1>2. ASSUME NEW k \in keys PROVE Reader(k) \in ts /\ CacheKey(Reader(k)) = k
  <2>1. Group(k) # {} /\ Group(k) \subseteq {t \in ts : CacheKey(t) = k}
    OBVIOUS
  <2> HIDE DEF Group
  <2>2. \E t \in Group(k) : \A u \in Group(k) : MinKey(t) <= MinKey(u)
    <3>1. Group(k) \subseteq Tables(fresh)
      BY <2>1
    <3> QED BY <2>1, <3>1, FirstTable
  <2>3. Reader(k) \in Group(k)
    BY <2>2
  <2> QED BY <2>1, <2>3
<1>3. \A t \in ts : /\ CacheKey(t) \in Nat \X Nat
                    /\ t.entries \in (SUBSET Entries(fresh)) \ {{}}
  <2> SUFFICES ASSUME NEW t \in ts
               PROVE  /\ CacheKey(t) \in Nat \X Nat
                      /\ t.entries \in (SUBSET Entries(fresh)) \ {{}}
    OBVIOUS
  <2>1. /\ t.id \in Nat /\ t.frag \in Nat
        /\ t.entries \in (SUBSET Entries(fresh)) \ {{}}
    BY DEF Tables, TypeOK
  <2> QED BY <2>1 DEF CacheKey
<1> HIDE DEF Reader
<1>4. \A k \in keys : block(k) \in Blocks(fresh)
  BY <1>2, <1>3 DEF Blocks
<1>5. \A k \in keys :
        \E t \in ts : block(k).key = CacheKey(t) /\ block(k).entries = t.entries
  BY <1>2
<1>6. cache \subseteq Blocks(fresh)
  BY DEF TypeOK
<1> HIDE DEF block, keys
<1> QED BY <1>1, <1>4, <1>5, <1>6

\* What is fetched is the table's own block or a cached one.
LEMMA ContentsTypes ==
    ASSUME NEW n, NEW t \in Tables(n), cache \subseteq Blocks(n)
    PROVE  Contents(t) \subseteq Entries(n)
<1>1. t.entries \subseteq Entries(n)
  BY DEF Tables
<1>2. \A c \in cache : c.entries \subseteq Entries(n)
  BY DEF Blocks
<1> QED BY <1>1, <1>2 DEF Contents

-----------------------------------------------------------------------------
(* The scheduler *)

\* A task that check_triggers may return for the tables of level l.
Fresh(task) ==
    /\ task \in Tasks(fresh) /\ Derived(task)
    /\ task.inputs \subseteq live /\ task.targets \subseteq live

\* A round.
Round(s) ==
    /\ s \in Seq(Tasks(fresh))
    /\ \A i \in 1 .. Len(s) : Fresh(s[i])
    /\ \A i, j \in 1 .. Len(s) : i < j => s[i].src < s[j].src

\* A task for some tables of a level, all of them in L0.
LEMMA FreshTask ==
    ASSUME TypeOK, NEW l \in 0 .. Bottom - 1, NEW inputs, inputs # {},
           inputs \subseteq AtLevel(live, l), l = 0 => inputs = AtLevel(live, 0)
    PROVE  Fresh(Task(l, inputs)) /\ Task(l, inputs).src = l
<1>1. /\ Task(l, inputs).src = l /\ Task(l, inputs).inputs = inputs
      /\ Task(l, inputs).targets = Overlapping(l + 1, inputs)
  BY DEF Task
<1>2. inputs \subseteq live /\ \A t \in inputs : t.level = l
  BY DEF AtLevel
<1>3. Overlapping(l + 1, inputs) \subseteq live
  BY DEF Overlapping, AtLevel
<1>4. live \subseteq Tables(fresh)
  BY DEF TypeOK
<1>5. Task(l, inputs) \in Tasks(fresh)
  BY <1>2, <1>3, <1>4 DEF Task, Tasks
<1>6. Derived(Task(l, inputs))
  BY <1>1, <1>2 DEF Derived
<1> QED BY <1>1, <1>2, <1>3, <1>5, <1>6 DEF Fresh

\* One of the tables of a level is the oldest.
LEMMA OldestTable ==
    ASSUME TypeOK, NEW ts, ts \subseteq live, ts # {}
    PROVE  \E t \in ts : \A u \in ts :
              \/ t.created < u.created
              \/ t.created = u.created /\ MinKey(t) <= MinKey(u)
<1>1. ts \subseteq Tables(fresh) /\ \A t \in ts : t.created \in Nat
  BY DEF TypeOK, Tables
<1> DEFINE C == {t.created : t \in ts}
<1>2. C \subseteq Nat /\ C # {}
  BY <1>1
<1>3. PICK c \in C : \A d \in C : c <= d
  <2> HIDE DEF C
  <2> QED BY <1>2, LeastNat
<1> DEFINE G == {t \in ts : t.created = c}
<1>4. G \subseteq Tables(fresh) /\ G # {}
  BY <1>1, <1>3
<1>5. PICK t \in G : \A u \in G : MinKey(t) <= MinKey(u)
  <2> HIDE DEF G
  <2> QED BY <1>4, FirstTable
<1>6. t \in ts /\ t.created = c
  BY <1>5
<1>7. ASSUME NEW u \in ts
      PROVE  \/ t.created < u.created
             \/ t.created = u.created /\ MinKey(t) <= MinKey(u)
  <2>1. CASE u.created = c
    BY <1>5, <1>6, <2>1
  <2>2. CASE u.created # c
    <3>1. c <= u.created /\ c \in Nat /\ u.created \in Nat
      BY <1>1, <1>2, <1>3
    <3> QED BY <1>6, <2>2, <3>1
  <2> QED BY <2>1, <2>2
<1> QED BY <1>6, <1>7

\* check_l0_trigger returns no task or one for all of L0.
LEMMA L0Trigger_task ==
    ASSUME TypeOK
    PROVE  \/ check_l0_trigger = <<>>
           \/ \E task : check_l0_trigger = <<task>> /\ Fresh(task) /\ task.src = 0
<1> SUFFICES ASSUME check_l0_trigger # <<>>
             PROVE  \E task : /\ check_l0_trigger = <<task>>
                              /\ Fresh(task) /\ task.src = 0
  OBVIOUS
<1>1. /\ Cardinality(AtLevel(live, 0)) > L0Trigger
      /\ check_l0_trigger = <<Task(0, AtLevel(live, 0))>>
  BY DEF check_l0_trigger
<1>2. AtLevel(live, 0) # {}
  BY <1>1, FS_EmptySet, ConstantsAssumption
<1>3. 0 \in 0 .. Bottom - 1
  BY ConstantsAssumption
<1>4. Fresh(Task(0, AtLevel(live, 0))) /\ Task(0, AtLevel(live, 0)).src = 0
  BY <1>2, <1>3, FreshTask
<1> QED BY <1>1, <1>4

\* check_level_trigger returns no task or one for a table of the level.
LEMMA LevelTrigger_task ==
    ASSUME TypeOK, NEW l \in Nat
    PROVE  \/ check_level_trigger(l) = <<>>
           \/ \E task : check_level_trigger(l) = <<task>> /\ Fresh(task) /\ task.src = l
<1> DEFINE ts == AtLevel(live, l)
           Before(t, u) == \/ t.created < u.created
                           \/ t.created = u.created /\ MinKey(t) <= MinKey(u)
           oldest == CHOOSE t \in ts : \A u \in ts : Before(t, u)
<1>1. check_level_trigger(l) =
        IF l \in 1 .. Bottom - 1 /\ level_size(l) > MaxSize
        THEN <<Task(l, {oldest})>> ELSE <<>>
  BY Zenon DEF check_level_trigger
<1> SUFFICES ASSUME l \in 1 .. Bottom - 1, level_size(l) > MaxSize
             PROVE  Fresh(Task(l, {oldest})) /\ Task(l, {oldest}).src = l
  BY <1>1
<1>2. ts # {} /\ ts \subseteq live
  <2>1. ASSUME ts = {} PROVE FALSE
    <3>1. UNION {{<<Path(t), e>> : e \in t.entries} : t \in AtLevel(live, l)} = {}
      BY <2>1
    <3>2. level_size(l) = 0
      BY <3>1, FS_EmptySet DEF level_size
    <3> QED BY <3>2, ConstantsAssumption
  <2> QED BY <2>1 DEF AtLevel
<1>3. oldest \in ts
  <2>1. \E t \in ts : \A u \in ts : Before(t, u)
    BY <1>2, OldestTable
  <2> QED BY <2>1
<1>4. l \in 0 .. Bottom - 1 /\ l # 0
  BY ConstantsAssumption
<1> HIDE DEF oldest
<1> QED BY <1>3, <1>4, FreshTask

\* No task, or one.
LEMMA SmallRound ==
    ASSUME NEW s, NEW l, s = <<>> \/ \E task : s = <<task>> /\ Fresh(task) /\ task.src = l
    PROVE  Round(s) /\ \A i \in 1 .. Len(s) : s[i].src = l
<1>1. CASE s = <<>>
  <2>1. s \in Seq(Tasks(fresh)) /\ Len(s) = 0 /\ 1 .. 0 = {}
    BY <1>1
  <2> QED BY <2>1 DEF Round
<1>2. CASE \E task : s = <<task>> /\ Fresh(task) /\ task.src = l
  <2>1. PICK task : s = <<task>> /\ Fresh(task) /\ task.src = l
    BY <1>2
  <2>2. task \in Tasks(fresh)
    BY <2>1 DEF Fresh
  <2>3. s \in Seq(Tasks(fresh)) /\ Len(s) = 1 /\ s[1] = task
    BY <2>1, <2>2
  <2>4. \A i \in 1 .. Len(s) : i = 1
    BY <2>3
  <2> QED BY <2>1, <2>3, <2>4 DEF Round
<1> QED BY <1>1, <1>2

\* Tasks of lower levels before tasks of deeper ones.
LEMMA RoundConcat ==
    ASSUME NEW s, NEW t, Round(s), Round(t),
           \A i \in 1 .. Len(s), j \in 1 .. Len(t) : s[i].src < t[j].src
    PROVE  /\ Round(s \o t)
           /\ \A i \in 1 .. Len(s \o t) :
                \/ \E j \in 1 .. Len(s) : (s \o t)[i] = s[j]
                \/ \E j \in 1 .. Len(t) : (s \o t)[i] = t[j]
<1> DEFINE u == s \o t
<1>1. /\ s \in Seq(Tasks(fresh)) /\ t \in Seq(Tasks(fresh))
      /\ Len(s) \in Nat /\ Len(t) \in Nat
  BY LenProperties DEF Round
<1>2. /\ u \in Seq(Tasks(fresh)) /\ Len(u) = Len(s) + Len(t)
      /\ \A i \in 1 .. Len(s) + Len(t) :
            u[i] = IF i <= Len(s) THEN s[i] ELSE t[i - Len(s)]
  BY <1>1, ConcatProperties
<1> HIDE DEF u
<1>3. ASSUME NEW i \in 1 .. Len(u)
      PROVE  \/ i \in 1 .. Len(s) /\ u[i] = s[i]
             \/ /\ i > Len(s) /\ i - Len(s) \in 1 .. Len(t)
                /\ u[i] = t[i - Len(s)]
  <2>1. i \in 1 .. Len(s) + Len(t)
    BY <1>2
  <2>2. CASE i <= Len(s)
    <3>1. i \in 1 .. Len(s)
      BY <1>1, <2>2
    <3> QED BY <1>2, <2>1, <2>2, <3>1
  <2>3. CASE ~(i <= Len(s))
    <3>1. i > Len(s) /\ i - Len(s) \in 1 .. Len(t)
      BY <1>1, <2>1, <2>3
    <3> QED BY <1>2, <2>1, <2>3, <3>1
  <2> QED BY <2>2, <2>3
<1>4. \A i \in 1 .. Len(u) : Fresh(u[i])
  BY <1>3 DEF Round
<1>5. ASSUME NEW i \in 1 .. Len(u), NEW j \in 1 .. Len(u), i < j
      PROVE  u[i].src < u[j].src
  <2>1. CASE i \in 1 .. Len(s) /\ u[i] = s[i] /\ j \in 1 .. Len(s) /\ u[j] = s[j]
    BY <1>5, <2>1 DEF Round
  <2>2. CASE /\ i \in 1 .. Len(s) /\ u[i] = s[i]
             /\ j - Len(s) \in 1 .. Len(t) /\ u[j] = t[j - Len(s)]
    BY <2>2
  <2>3. CASE /\ i - Len(s) \in 1 .. Len(t) /\ u[i] = t[i - Len(s)]
             /\ j - Len(s) \in 1 .. Len(t) /\ u[j] = t[j - Len(s)]
    <3>1. i - Len(s) < j - Len(s)
      BY <1>1, <1>2, <1>5
    <3> QED BY <2>3, <3>1 DEF Round
  <2>4. CASE i > Len(s) /\ j \in 1 .. Len(s)
    BY <1>1, <1>2, <1>5, <2>4
  <2> QED BY <1>3, <2>1, <2>2, <2>3, <2>4
<1>6. Round(u)
  BY <1>2, <1>4, <1>5 DEF Round
<1>7. \A i \in 1 .. Len(u) : \/ \E j \in 1 .. Len(s) : u[i] = s[j]
                             \/ \E j \in 1 .. Len(t) : u[i] = t[j]
  BY <1>3
<1> QED BY <1>6, <1>7 DEF u

\* What check_triggers returns is a round.
LEMMA TriggersRound == ASSUME TypeOK PROVE Round(check_triggers)
<1> DEFINE a == check_l0_trigger
           b == check_level_trigger(1)
           c == check_level_trigger(2)
<1>1. Round(a) /\ \A i \in 1 .. Len(a) : a[i].src = 0
  BY L0Trigger_task, SmallRound
<1>2. Round(b) /\ \A i \in 1 .. Len(b) : b[i].src = 1
  BY LevelTrigger_task, SmallRound
<1>3. Round(c) /\ \A i \in 1 .. Len(c) : c[i].src = 2
  BY LevelTrigger_task, SmallRound
<1>4. check_triggers = (a \o b) \o c
  BY DEF check_triggers
<1> HIDE DEF a, b, c
<1>5. /\ Round(a \o b)
      /\ \A i \in 1 .. Len(a \o b) :
            \/ \E j \in 1 .. Len(a) : (a \o b)[i] = a[j]
            \/ \E j \in 1 .. Len(b) : (a \o b)[i] = b[j]
  <2>1. \A i \in 1 .. Len(a), j \in 1 .. Len(b) : a[i].src < b[j].src
    BY <1>1, <1>2
  <2> QED BY <1>1, <1>2, <2>1, RoundConcat
<1> DEFINE ab == a \o b
<1>6. Round(ab) /\ \A i \in 1 .. Len(ab) : ab[i].src < 2
  <2>1. /\ Round(ab)
        /\ \A i \in 1 .. Len(ab) :
            \/ \E j \in 1 .. Len(a) : ab[i] = a[j]
            \/ \E j \in 1 .. Len(b) : ab[i] = b[j]
    BY <1>5
  <2> HIDE DEF ab
  <2> QED BY <1>1, <1>2, <2>1
<1>7. check_triggers = ab \o c
  BY <1>4
<1> HIDE DEF ab
<1>8. \A i \in 1 .. Len(ab), j \in 1 .. Len(c) : ab[i].src < c[j].src
  BY <1>3, <1>6
<1>9. Round(ab \o c)
  BY <1>3, <1>6, <1>8, RoundConcat
<1> QED BY <1>7, <1>9

-----------------------------------------------------------------------------
(* Types, tasks and files *)

\* The task being executed.
LEMMA CurrentTask ==
    ASSUME TypeOK, TasksInv, pc \notin {"idle", "triggers"}
    PROVE  /\ tasks # <<>> /\ Len(tasks) \in Nat /\ 1 \in 1 .. Len(tasks)
           /\ Current = tasks[1] /\ Current \in Tasks(fresh)
           /\ Target = Current.src + 1 /\ Target \in 1 .. Bottom
           /\ Current.src \in 0 .. Bottom - 1
           /\ Current.inputs \subseteq Inputs /\ Current.targets \subseteq Inputs
           /\ Inputs \subseteq Tables(fresh)
           /\ pc \in {"compact", "commit"} => Derived(Current)
<1>1. tasks \in Seq(Tasks(fresh)) /\ tasks # <<>>
  BY DEF TypeOK, TasksInv
<1>2. Len(tasks) \in Nat /\ 1 \in 1 .. Len(tasks)
  BY <1>1, LenProperties, EmptySeq
<1>3. Current = tasks[1] /\ Current \in Tasks(fresh)
  <2>1. Head(tasks) = tasks[1]
    BY <1>1
  <2> QED BY <1>1, <1>2, <2>1, ElementOfSeq DEF Current
<1>4. /\ Current.src \in 0 .. Bottom - 1
      /\ Current.inputs \subseteq Tables(fresh) /\ Current.targets \subseteq Tables(fresh)
  BY <1>3 DEF Tasks
<1>5. Target \in 1 .. Bottom
  BY <1>4, ConstantsAssumption DEF Target
<1>6. pc \in {"compact", "commit"} => Derived(Current)
  BY <1>2, <1>3 DEF TasksInv
<1> QED BY <1>1, <1>2, <1>3, <1>4, <1>5, <1>6 DEF Target, Inputs

\* Steps that leave the tasks and the manifest alone.
LEMMA TasksKept ==
    ASSUME TasksInv, UNCHANGED <<live, tasks>>,
           pc' \in {"idle", "triggers"} <=> pc \in {"idle", "triggers"},
           pc' \in {"compact", "commit"} => pc \in {"compact", "commit"}
    PROVE  TasksInv'
<1>1. \A i \in 1 .. Len(tasks) :
        i > 1 \/ pc \in {"compact", "commit"} => Derived(tasks[i])
  BY DEF TasksInv
<1>2. \A task : Derived(task) => Derived(task)'
  BY DEF Derived, Overlapping, AtLevel
<1>3. \A i \in 1 .. Len(tasks) :
        i > 1 \/ pc' \in {"compact", "commit"} => Derived(tasks[i])'
  BY <1>1, <1>2
<1> QED BY <1>3 DEF TasksInv

\* A round that ends.
LEMMA TasksEnded ==
    ASSUME tasks' = <<>>, pc' \in {"idle", "triggers"}
    PROVE  TasksInv'
<1>1. Len(tasks') = 0 /\ 1 .. 0 = {}
  BY DEF TasksInv
<1> QED BY <1>1 DEF TasksInv

\* Outside of a commit only the manifest's tables matter.
LEMMA FilesQuiet ==
    ASSUME FilesExist', (\A t, u \in live : SameTable(t, u) => t = u)',
           pc' \in {"idle", "triggers", "compact"},
           ~torn' => handles' = live'
    PROVE  FilesInv'
BY DEF FilesInv

\* The steps that change neither the manifest nor the round.
LEMMA WriteTypes == ASSUME StorageInv, Write PROVE StorageInv'
<1>0. TypeOK /\ TasksInv /\ FilesInv
  BY DEF StorageInv
<1>1. fresh \in Nat \ {0} /\ fresh + 1 \in Nat \ {0} /\ fresh' = fresh + 1
  BY <1>0, TablesGrow DEF TypeOK, Write
<1>2. PICK ks \in (SUBSET Keys) \ {{}} : \E dels \in SUBSET ks :
         /\ mem' = {[key |-> k, seq |-> fresh, del |-> k \in dels] : k \in ks}
         /\ truth' = [k \in Keys |->
                IF k \in ks THEN [seq |-> fresh, del |-> k \in dels]
                            ELSE truth[k]]
  BY DEF Write
<1>3. UNCHANGED <<config, live, files, handles, cache, pc, tasks, output, torn>>
  BY DEF Write
<1>4. mem' \subseteq Entries(fresh')
  <2>1. fresh \in 1 .. (fresh + 1) - 1
    BY <1>1
  <2>2. PICK dels \in SUBSET ks :
           mem' = {[key |-> k, seq |-> fresh, del |-> k \in dels] : k \in ks}
    BY <1>2
  <2>3. \A k \in ks : [key |-> k, seq |-> fresh, del |-> k \in dels] \in Entries(fresh')
    <3>1. \A k \in ks, b \in BOOLEAN :
            [key |-> k, seq |-> fresh, del |-> b] \in Entries(fresh')
      BY <1>1, <2>1 DEF Entries
    <3>2. \A k \in ks : (k \in dels) \in BOOLEAN
      OBVIOUS
    <3> QED BY <3>1, <3>2, Zenon
  <2> QED BY <2>2, <2>3
<1>5. truth' \in [Keys -> [seq : 0 .. fresh' - 1, del : BOOLEAN]]
  <2>1. truth \in [Keys -> [seq : 0 .. fresh - 1, del : BOOLEAN]]
    BY <1>0 DEF TypeOK
  <2>2. fresh \in 0 .. fresh' - 1 /\ 0 .. fresh - 1 \subseteq 0 .. fresh' - 1
    BY <1>1
  <2>3. \A k \in Keys : truth[k] \in [seq : 0 .. fresh' - 1, del : BOOLEAN]
    BY <2>1, <2>2
  <2> QED BY <1>2, <2>2, <2>3
<1>6. TypeOK'
  BY <1>0, <1>1, <1>3, <1>4, <1>5, TablesGrow DEF TypeOK
<1>7. TasksInv'
  BY <1>0, <1>3, TasksKept
<1>8. FilesInv'
  BY <1>0, <1>3 DEF FilesInv, FilesExist, Inputs, Target, Current
<1> QED BY <1>6, <1>7, <1>8 DEF StorageInv

\* A read only caches.
LEMMA ReadTypes == ASSUME StorageInv, Read PROVE StorageInv'
<1>0. TypeOK /\ TasksInv /\ FilesInv
  BY DEF StorageInv
<1>1. PICK t \in handles : cache' = CachedAfter({}, {t})
  BY DEF Read
<1>2. UNCHANGED <<config, live, files, handles, mem, pc, tasks, output, fresh,
                  truth, torn>>
  BY DEF Read
<1>3. cache' \subseteq Blocks(fresh)
  <2>1. {} \subseteq {t} /\ {t} \subseteq Tables(fresh)
    BY <1>0 DEF TypeOK
  <2> QED BY <1>0, <1>1, <2>1, CachedBlocks
<1>4. TypeOK'
  BY <1>0, <1>2, <1>3 DEF TypeOK
<1>5. TasksInv'
  BY <1>0, <1>2, TasksKept
<1>6. FilesInv'
  BY <1>0, <1>2 DEF FilesInv, FilesExist, Inputs, Target, Current
<1> QED BY <1>4, <1>5, <1>6 DEF StorageInv

\* A flush adds a table with a new id to L0.
LEMMA FlushTypes == ASSUME StorageInv, Flush PROVE StorageInv'
<1>0. TypeOK /\ TasksInv /\ FilesInv
  BY DEF StorageInv
<1> DEFINE t == [id |-> fresh, frag |-> 0, level |-> 0, created |-> fresh,
                 entries |-> mem]
<1>1. /\ pc = "idle" /\ mem # {} /\ mem' = {} /\ fresh' = fresh + 1
      /\ live' = live \cup {t} /\ files' = files \cup {Path(t)}
      /\ handles' = handles \cup {t} /\ pc' = "triggers"
      /\ UNCHANGED <<config, cache, tasks, output, truth, torn>>
  BY DEF Flush
<1>2. fresh \in Nat \ {0} /\ fresh + 1 \in Nat \ {0}
  BY <1>0, TablesGrow DEF TypeOK
<1>3. t \in Tables(fresh + 1)
  <2>1. mem \in (SUBSET Entries(fresh + 1)) \ {{}}
    BY <1>0, <1>1, <1>2, TablesGrow DEF TypeOK
  <2>2. fresh \in 1 .. (fresh + 1) - 1 /\ 0 \in 0 .. Bottom
    BY <1>2, ConstantsAssumption
  <2> QED BY <2>1, <2>2 DEF Tables
<1>4. t.id = fresh
  OBVIOUS
<1> HIDE DEF t
<1>5. truth' \in [Keys -> [seq : 0 .. fresh' - 1, del : BOOLEAN]]
  <2>1. truth \in [Keys -> [seq : 0 .. fresh - 1, del : BOOLEAN]]
    BY <1>0 DEF TypeOK
  <2>2. 0 .. fresh - 1 \subseteq 0 .. fresh' - 1
    BY <1>1, <1>2
  <2> QED BY <1>1, <2>1, <2>2
<1>6. TypeOK'
  BY <1>0, <1>1, <1>2, <1>3, <1>5, TablesGrow DEF TypeOK
<1>7. TasksInv'
  BY <1>0, <1>1, TasksEnded DEF TasksInv
<1>8. \A u \in live : u.id # fresh
  BY <1>0, <1>2 DEF TypeOK, Tables
<1>9. FilesInv'
  <2>1. FilesExist'
    BY <1>0, <1>1 DEF FilesInv, FilesExist
  <2>2. (\A u, v \in live : SameTable(u, v) => u = v)'
    BY <1>0, <1>1, <1>4, <1>8 DEF FilesInv, SameTable
  <2>3. ~torn' => handles' = live'
    BY <1>0, <1>1 DEF FilesInv
  <2> QED BY <1>1, <2>1, <2>2, <2>3, FilesQuiet
<1> QED BY <1>6, <1>7, <1>9 DEF StorageInv

\* maybe_compact starts a round, if there is one to start.
LEMMA TriggerTypes == ASSUME StorageInv, Maintain \/ CheckTriggers PROVE StorageInv'
<1>0. TypeOK /\ TasksInv /\ FilesInv
  BY DEF StorageInv
<1>1. UNCHANGED <<config, live, files, handles, cache, mem, output, fresh, truth, torn>>
  BY DEF Maintain, CheckTriggers
<1>2. pc' \in {"idle", "triggers", "compact"} /\ pc \in {"idle", "triggers"}
  BY DEF Maintain, CheckTriggers
<1>3. FilesInv'
  <2>1. FilesExist'
    BY <1>0, <1>1 DEF FilesInv, FilesExist
  <2>2. (\A u, v \in live : SameTable(u, v) => u = v)'
    BY <1>0, <1>1 DEF FilesInv
  <2>3. ~torn' => handles' = live'
    BY <1>0, <1>1, <1>2 DEF FilesInv
  <2> QED BY <1>2, <2>1, <2>2, <2>3, FilesQuiet
<1>4. CASE Maintain
  <2>1. UNCHANGED tasks /\ pc' = "triggers"
    BY <1>4 DEF Maintain
  <2>2. TypeOK'
    BY <1>0, <1>1, <2>1 DEF TypeOK
  <2>3. TasksInv'
    BY <1>0, <1>1, <1>2, <2>1, TasksKept
  <2> QED BY <1>3, <2>2, <2>3 DEF StorageInv
<1>5. CASE CheckTriggers
  <2>1. /\ tasks' = check_triggers
        /\ pc' = IF check_triggers = <<>> THEN "idle" ELSE "compact"
    BY <1>5 DEF CheckTriggers
  <2>2. Round(check_triggers)
    BY <1>0, TriggersRound
  <2>3. /\ tasks' \in Seq(Tasks(fresh))
        /\ \A i \in 1 .. Len(tasks') : Derived(tasks'[i])
        /\ \A i, j \in 1 .. Len(tasks') : i < j => tasks'[i].src < tasks'[j].src
    BY <2>1, <2>2 DEF Round, Fresh
  <2>4. TypeOK'
    BY <1>0, <1>1, <1>2, <2>3 DEF TypeOK
  <2>5. TasksInv'
    <3>1. \A task : Derived(task) => Derived(task)'
      BY <1>1 DEF Derived, Overlapping, AtLevel
    <3>2. \A i \in 1 .. Len(tasks') : Derived(tasks[i])'
      BY <2>3, <3>1
    <3>3. pc' \in {"idle", "triggers"} <=> tasks' = <<>>
      BY <2>1
    <3> QED BY <2>3, <3>2, <3>3 DEF TasksInv
  <2> QED BY <1>3, <2>4, <2>5 DEF StorageInv
<1> QED BY <1>4, <1>5

\* The files of the current task's output stand where the commit expects them.
LEMMA OutputFiles ==
    ASSUME FilesInv, pc' = "commit", UNCHANGED <<live, tasks, handles, torn>>,
           pc = "compact", files \subseteq files',
           \A o \in output' : o.level = Target /\ Path(o) \in files',
           Inputs \subseteq live =>
             /\ \A o, p \in output' : SameTable(o, p) => o = p
             /\ \A o \in output', t \in live : SameTable(o, t) => t \in Inputs
    PROVE  FilesInv'
<1>1. Inputs' = Inputs /\ Target' = Target
  BY DEF Inputs, Target, Current
<1>2. FilesExist'
  BY DEF FilesInv, FilesExist
<1>3. \A o \in output' : o.level = Target' /\ (Path(o) \in files)'
  BY <1>1 DEF Path
<1> QED BY <1>1, <1>2, <1>3 DEF FilesInv

\* A trivial move copies the table's file to the next level.
LEMMA CopyTypes == ASSUME StorageInv, CopyTrivial PROVE StorageInv'
<1>0. TypeOK /\ TasksInv /\ FilesInv /\ pc = "compact" /\ IsTrivial
  BY DEF StorageInv, CopyTrivial
<1> DEFINE moved(t) == [t EXCEPT !.level = Target, !.created = fresh]
<1>1. /\ output' = {moved(t) : t \in Inputs}
      /\ files' = files \cup {Path(t) : t \in output'}
      /\ fresh' = fresh + 1 /\ pc' = "commit"
      /\ UNCHANGED <<config, live, handles, cache, mem, tasks, truth, torn>>
  BY DEF CopyTrivial
<1>2. /\ Target \in 1 .. Bottom /\ Target = Current.src + 1
      /\ Inputs \subseteq Tables(fresh)
  BY <1>0, CurrentTask
<1>3. fresh \in Nat \ {0} /\ fresh + 1 \in Nat \ {0}
  BY <1>0, TablesGrow DEF TypeOK
<1>4. ASSUME NEW t \in Inputs
      PROVE  /\ moved(t) \in Tables(fresh + 1) /\ moved(t).level = Target
             /\ moved(t).id = t.id /\ moved(t).frag = t.frag
             /\ moved(t).entries = t.entries
  <2>1. t \in Tables(fresh + 1)
    BY <1>2, <1>3, TablesGrow
  <2>2. Target \in 0 .. Bottom /\ fresh \in 1 .. (fresh + 1) - 1
    BY <1>2, <1>3, ConstantsAssumption
  <2> QED BY <2>1, <2>2 DEF Tables
<1> HIDE DEF moved
<1>5. truth' \in [Keys -> [seq : 0 .. fresh' - 1, del : BOOLEAN]]
  <2>1. truth \in [Keys -> [seq : 0 .. fresh - 1, del : BOOLEAN]]
    BY <1>0 DEF TypeOK
  <2>2. 0 .. fresh - 1 \subseteq 0 .. fresh' - 1
    BY <1>1, <1>3
  <2> QED BY <1>1, <2>1, <2>2
<1>6. TypeOK'
  BY <1>0, <1>1, <1>3, <1>4, <1>5, TablesGrow DEF TypeOK
<1>7. TasksInv'
  BY <1>0, <1>1, TasksKept
<1>8. FilesInv'
  <2>1. \A o \in output' : o.level = Target /\ Path(o) \in files'
    BY <1>1, <1>4
  <2>2. ASSUME Inputs \subseteq live
        PROVE  /\ \A o, p \in output' : SameTable(o, p) => o = p
               /\ \A o \in output', t \in live : SameTable(o, t) => t \in Inputs
    <3>1. \A t, u \in live : SameTable(t, u) => t = u
      BY <1>0 DEF FilesInv
    <3>2. \A o \in output' : \E t \in Inputs :
             o = moved(t) /\ o.id = t.id /\ o.frag = t.frag
      BY <1>1, <1>4
    <3> QED BY <2>2, <3>1, <3>2 DEF SameTable
  <2> QED BY <1>0, <1>1, <2>1, <2>2, OutputFiles
<1> QED BY <1>6, <1>7, <1>8 DEF StorageInv

\* A merge reads through the cache and writes tables with a new id.
LEMMA MergeTypes ==
    ASSUME StorageInv, Merge
    PROVE  /\ StorageInv'
           /\ cache' \subseteq Blocks(fresh)
           /\ UNION {Contents(t)' : t \in Inputs} \subseteq Entries(fresh)
           /\ Survivors(UNION {Contents(t)' : t \in Inputs}) \subseteq Entries(fresh)
<1>0. TypeOK /\ TasksInv /\ FilesInv /\ pc = "compact"
  BY DEF StorageInv, Merge
<1> DEFINE E == UNION {Contents(t)' : t \in Inputs}
<1>1. /\ cache' = CachedAfter(Current.inputs, Inputs)
      /\ output' = Fragments(Survivors(E))
      /\ files' = files \cup {Path(t) : t \in output'}
      /\ fresh' = fresh + 1 /\ pc' = "commit"
      /\ UNCHANGED <<config, live, handles, mem, tasks, truth, torn>>
  BY DEF Merge
<1>2. /\ Target \in 1 .. Bottom /\ Inputs \subseteq Tables(fresh)
      /\ Current.inputs \subseteq Inputs
  BY <1>0, CurrentTask
<1>3. fresh \in Nat \ {0} /\ fresh + 1 \in Nat \ {0}
  BY <1>0, TablesGrow DEF TypeOK
<1>4. cache' \subseteq Blocks(fresh)
  BY <1>0, <1>1, <1>2, CachedBlocks
<1>5. E \subseteq Entries(fresh)
  <2>1. ASSUME NEW t \in Inputs PROVE Contents(t)' \subseteq Entries(fresh)
    <3>1. t.entries \subseteq Entries(fresh)
      BY <1>2 DEF Tables
    <3>2. \A c \in cache' : c.entries \subseteq Entries(fresh)
      BY <1>4 DEF Blocks
    <3> QED BY <3>1, <3>2 DEF Contents, CacheKey
  <2> QED BY <2>1
<1>6. Survivors(E) \subseteq Entries(fresh)
  BY <1>5 DEF Survivors, Merged
<1> DEFINE S == Survivors(E)
<1>7. output' = Fragments(S) /\ S \subseteq Entries(fresh)
  BY <1>1, <1>6
<1> HIDE DEF S, E
<1>8. /\ output' \subseteq Tables(fresh + 1)
      /\ \A o \in output' : o.id = fresh /\ o.level = Target
      /\ \A o, p \in output' : SameTable(o, p) => o = p
  <2>1. Target \in 0 .. Bottom
    BY <1>2
  <2> QED BY <1>0, <1>7, <2>1, FragmentTypes
<1>9. truth' \in [Keys -> [seq : 0 .. fresh' - 1, del : BOOLEAN]]
  <2>1. truth \in [Keys -> [seq : 0 .. fresh - 1, del : BOOLEAN]]
    BY <1>0 DEF TypeOK
  <2>2. 0 .. fresh - 1 \subseteq 0 .. fresh' - 1
    BY <1>1, <1>3
  <2> QED BY <1>1, <2>1, <2>2
<1>10. TypeOK'
  BY <1>0, <1>1, <1>3, <1>4, <1>8, <1>9, TablesGrow DEF TypeOK
<1>11. TasksInv'
  BY <1>0, <1>1, TasksKept
<1>12. FilesInv'
  <2>1. \A o \in output' : o.level = Target /\ Path(o) \in files'
    BY <1>1, <1>8
  <2>2. \A t \in live : t.id # fresh
    BY <1>0, <1>3 DEF TypeOK, Tables
  <2>3. \A o \in output', t \in live : ~SameTable(o, t)
    BY <1>8, <2>2 DEF SameTable
  <2> QED BY <1>0, <1>1, <1>8, <2>1, <2>3, OutputFiles
<1> QED BY <1>4, <1>5, <1>6, <1>10, <1>11, <1>12 DEF StorageInv, E

\* The manifest update replaces the inputs by the output, or the round ends.
LEMMA CommitTypes == ASSUME StorageInv, Commit PROVE StorageInv'
<1>0. TypeOK /\ TasksInv /\ FilesInv /\ pc = "commit"
  BY DEF StorageInv, Commit
<1>1. UNCHANGED <<config, files, handles, cache, mem, fresh, truth, torn>>
  BY DEF Commit
<1>2. /\ Target \in 1 .. Bottom /\ Target = Current.src + 1
      /\ Current.src \in 0 .. Bottom - 1
      /\ Current = tasks[1] /\ 1 \in 1 .. Len(tasks)
      /\ Derived(Current)
  BY <1>0, CurrentTask
<1>3. CASE Inputs \subseteq live
  <2>1. /\ live' = (live \ Inputs) \cup output
        /\ pc' = IF IsTrivial THEN "delete" ELSE "rebuild"
        /\ UNCHANGED <<tasks, output>>
    BY <1>3 DEF Commit
  <2>2. TypeOK'
    BY <1>0, <1>1, <2>1 DEF TypeOK
  <2>3. /\ \A o \in output : o.level = Target /\ Path(o) \in files
        /\ \A o, p \in output : SameTable(o, p) => o = p
        /\ \A o \in output, t \in live : SameTable(o, t) => t \in Inputs
        /\ \A t, u \in live : SameTable(t, u) => t = u
    BY <1>0, <1>3 DEF FilesInv
  <2>4. \A t \in Inputs : t.level \in {Current.src, Target}
    BY <1>2 DEF Inputs, Derived, Overlapping, AtLevel
  <2>5. TasksInv'
    <3>1. ASSUME NEW i \in 1 .. Len(tasks), i > 1 PROVE Derived(tasks[i])'
      <4>1. Current.src < tasks[i].src
        BY <1>0, <1>2, <3>1 DEF TasksInv
      <4>2. tasks[i].src \in Nat
        <5>1. tasks[i] \in Tasks(fresh)
          BY <1>0, ElementOfSeq DEF TypeOK
        <5> QED BY <5>1, ConstantsAssumption DEF Tasks
      <4>3. /\ tasks[i].src + 1 # Current.src /\ tasks[i].src + 1 # Target
            /\ tasks[i].src # 0
        BY <1>2, <4>1, <4>2
      <4>4. AtLevel(live, tasks[i].src + 1) = AtLevel(live', tasks[i].src + 1)
        BY <2>1, <2>3, <2>4, <4>3 DEF AtLevel
      <4>5. Derived(tasks[i])
        BY <1>0, <3>1 DEF TasksInv
      <4> DEFINE task == tasks[i]
      <4>6. Overlapping(task.src + 1, task.inputs)
              = {t \in AtLevel(live', task.src + 1) :
                  \E lo, hi \in UNION {KeysOf(u) : u \in task.inputs} :
                    /\ \A u \in task.inputs : lo <= MinKey(u) /\ MaxKey(u) <= hi
                    /\ overlaps_range(t, lo, hi)}
        BY <4>4 DEF Overlapping
      <4>7. tasks'[i] = tasks[i]
        BY <2>1
      <4> QED BY <4>3, <4>5, <4>6, <4>7 DEF Derived, Overlapping
    <3>2. /\ pc' \notin {"idle", "triggers", "compact", "commit"}
          /\ tasks' # <<>> /\ tasks' = tasks
      BY <1>0, <2>1 DEF TasksInv
    <3>3. \A i, j \in 1 .. Len(tasks) : i < j => tasks[i].src < tasks[j].src
      BY <1>0 DEF TasksInv
    <3> QED BY <3>1, <3>2, <3>3 DEF TasksInv
  <2>6. FilesExist'
    BY <1>0, <1>1, <2>1, <2>3 DEF FilesInv, FilesExist
  <2>7. (\A t, u \in live : SameTable(t, u) => t = u)'
    BY <2>1, <2>3 DEF SameTable
  <2>8. ASSUME IsTrivial, NEW t \in Inputs, NEW u \in live' PROVE Path(t) # Path(u)
    <3>1. t \in live /\ t.level = Current.src
      BY <1>2, <1>3, <2>8 DEF IsTrivial, Inputs, Derived
    <3>2. CASE u \in output
      <4>1. Target # Current.src
        BY <1>2
      <4> QED BY <2>3, <3>1, <3>2, <4>1 DEF Path
    <3>3. CASE u \in live \ Inputs
      BY <2>3, <2>8, <3>1, <3>3 DEF Path, SameTable
    <3> QED BY <2>1, <3>2, <3>3
  <2>9. FilesInv'
    <3>1. Inputs' = Inputs /\ pc' \notin {"commit", "idle", "triggers", "compact"}
      BY <2>1 DEF Inputs, Current
    <3>2. pc' = "delete" => \A t \in Inputs, u \in live' : Path(t) # Path(u)
      BY <2>1, <2>8
    <3>3. pc' \in {"delete", "rebuild"}
      BY <2>1
    <3> QED BY <2>6, <2>7, <3>1, <3>2, <3>3 DEF FilesInv
  <2> QED BY <2>2, <2>5, <2>9 DEF StorageInv
<1>4. CASE ~(Inputs \subseteq live)
  <2>1. tasks' = <<>> /\ output' = {} /\ pc' = "idle" /\ UNCHANGED live
    BY <1>4 DEF Commit, EndRound
  <2>2. TypeOK'
    BY <1>0, <1>1, <2>1 DEF TypeOK
  <2>3. FilesExist' /\ (\A t, u \in live : SameTable(t, u) => t = u)'
    BY <1>0, <1>1, <2>1 DEF FilesInv, FilesExist
  <2>4. ~torn' => handles' = live'
    BY <1>0, <1>1, <2>1 DEF FilesInv
  <2> QED BY <2>1, <2>2, <2>3, <2>4, TasksEnded, FilesQuiet DEF StorageInv
<1> QED BY <1>3, <1>4

\* The source file of a move is deleted.
LEMMA DeleteTypes == ASSUME StorageInv, DeleteSource PROVE StorageInv'
<1>0. TypeOK /\ TasksInv /\ FilesInv /\ pc = "delete"
  BY DEF StorageInv, DeleteSource
<1>1. /\ files' = files \ {Path(t) : t \in Inputs} /\ pc' = "rebuild"
      /\ UNCHANGED <<config, live, handles, cache, mem, tasks, output, fresh,
                     truth, torn>>
  BY DEF DeleteSource
<1>2. TypeOK'
  BY <1>0, <1>1 DEF TypeOK
<1>3. TasksInv'
  BY <1>0, <1>1, TasksKept
<1>4. FilesExist'
  BY <1>0, <1>1 DEF FilesInv, FilesExist, Path
<1>5. FilesInv'
  BY <1>0, <1>1, <1>4 DEF FilesInv
<1> QED BY <1>2, <1>3, <1>5 DEF StorageInv

\* rebuild_levels opens what the manifest names; then the next task.
LEMMA RebuildTypes == ASSUME StorageInv, Rebuild PROVE StorageInv'
<1>0. TypeOK /\ TasksInv /\ FilesInv /\ pc = "rebuild"
  BY DEF StorageInv, Rebuild
<1>1. /\ handles' = live /\ torn' = FALSE /\ cache' \subseteq cache
      /\ tasks' = Tail(tasks) /\ output' = {}
      /\ pc' = IF Tail(tasks) = <<>> THEN "idle" ELSE "compact"
      /\ UNCHANGED <<config, live, files, mem, fresh, truth>>
  BY DEF Rebuild
<1>2. tasks # <<>> /\ Len(tasks) \in Nat /\ tasks \in Seq(Tasks(fresh))
  BY <1>0, CurrentTask DEF TypeOK
<1>3. /\ tasks' \in Seq(Tasks(fresh)) /\ Len(tasks') = Len(tasks) - 1
      /\ \A i \in 1 .. Len(tasks') : tasks'[i] = tasks[i + 1]
  BY <1>1, <1>2, HeadTailProperties
<1>4. TypeOK'
  BY <1>0, <1>1, <1>3 DEF TypeOK
<1>5. TasksInv'
  <2>1. \A i \in 1 .. Len(tasks') : i + 1 \in 1 .. Len(tasks) /\ i + 1 > 1
    BY <1>2, <1>3
  <2>2. \A i \in 1 .. Len(tasks') : Derived(tasks'[i])
    BY <1>0, <1>3, <2>1 DEF TasksInv
  <2>3. \A task : Derived(task) => Derived(task)'
    BY <1>1 DEF Derived, Overlapping, AtLevel
  <2>4. \A i \in 1 .. Len(tasks') : Derived(tasks[i])'
    BY <2>2, <2>3
  <2>5. ASSUME NEW i \in 1 .. Len(tasks'), NEW j \in 1 .. Len(tasks'), i < j
        PROVE  tasks'[i].src < tasks'[j].src
    <3>1. /\ i + 1 \in 1 .. Len(tasks) /\ j + 1 \in 1 .. Len(tasks)
          /\ i + 1 < j + 1
      BY <1>2, <1>3, <2>1, <2>5
    <3>2. tasks[i + 1].src < tasks[j + 1].src
      BY <1>0, <3>1 DEF TasksInv
    <3> QED BY <1>3, <3>2
  <2>6. pc' \in {"idle", "triggers"} <=> tasks' = <<>>
    BY <1>1
  <2> QED BY <2>4, <2>5, <2>6 DEF TasksInv
<1>6. FilesInv'
  <2>1. FilesExist' /\ (\A t, u \in live : SameTable(t, u) => t = u)'
    BY <1>0, <1>1 DEF FilesInv, FilesExist
  <2>2. pc' \in {"idle", "triggers", "compact"} /\ (~torn' => handles' = live')
    BY <1>1
  <2> QED BY <2>1, <2>2, FilesQuiet
<1> QED BY <1>4, <1>5, <1>6 DEF StorageInv

\* A failing round ends; a restart opens the manifest's tables.
LEMMA EndTypes == ASSUME StorageInv, Fail \/ Restart PROVE StorageInv'
<1>0. TypeOK /\ TasksInv /\ FilesInv
  BY DEF StorageInv
<1>1. /\ tasks' = <<>> /\ output' = {} /\ pc' = "idle"
      /\ UNCHANGED <<config, live, mem, fresh, truth>>
      /\ cache' \subseteq cache
  BY DEF Fail, Restart, EndRound
<1>2. torn' \in BOOLEAN /\ handles' \subseteq Tables(fresh)
  BY <1>0 DEF Fail, Restart, TypeOK
<1>3. TypeOK'
  BY <1>0, <1>1, <1>2 DEF TypeOK
<1>4. FilesExist'
  <2>1. \/ files' = files
        \/ pc = "delete" /\ files' = files \ {Path(t) : t \in Inputs}
    BY DEF Fail, Restart
  <2> QED BY <1>0, <1>1, <2>1 DEF FilesInv, FilesExist, Path
<1>5. (\A t, u \in live : SameTable(t, u) => t = u)'
  BY <1>0, <1>1 DEF FilesInv
<1>6. ~torn' => handles' = live'
  <2>1. CASE Restart
    BY <2>1 DEF Restart
  <2>2. CASE Fail
    BY <1>0, <1>1, <2>2 DEF Fail, FilesInv
  <2> QED BY <2>1, <2>2
<1> QED BY <1>1, <1>3, <1>4, <1>5, <1>6, TasksEnded, FilesQuiet DEF StorageInv

\* An empty partition.
LEMMA StorageInit == Init => StorageInv
<1> SUFFICES ASSUME Init PROVE StorageInv
  OBVIOUS
<1>1. tasks \in Seq(Tasks(fresh)) /\ Len(tasks) = 0 /\ 1 .. 0 = {}
  BY DEF Init
<1>2. truth \in [Keys -> [seq : 0 .. fresh - 1, del : BOOLEAN]]
  BY DEF Init
<1>3. TypeOK
  <2>1. /\ config \in Configs /\ fresh \in Nat \ {0}
        /\ live = {} /\ handles = {} /\ output = {} /\ mem = {} /\ cache = {}
        /\ pc = "idle"
    BY DEF Init
  <2>2. torn \in BOOLEAN
    BY Zenon DEF Init
  <2> QED BY <1>1, <1>2, <2>1, <2>2 DEF TypeOK
<1>4. TasksInv /\ FilesInv
  BY <1>1 DEF Init, TasksInv, FilesInv, FilesExist
<1> QED BY <1>3, <1>4 DEF StorageInv

\* Every step keeps types, tasks and files in order.
LEMMA StorageStep == StorageInv /\ [Next]_vars => StorageInv'
<1> SUFFICES ASSUME StorageInv, [Next]_vars PROVE StorageInv'
  OBVIOUS
<1>1. CASE Write
  BY <1>1, WriteTypes
<1>2. CASE Flush
  BY <1>2, FlushTypes
<1>3. CASE Maintain \/ CheckTriggers
  BY <1>3, TriggerTypes
<1>4. CASE CopyTrivial
  BY <1>4, CopyTypes
<1>5. CASE Merge
  BY <1>5, MergeTypes
<1>6. CASE Commit
  BY <1>6, CommitTypes
<1>7. CASE DeleteSource
  BY <1>7, DeleteTypes
<1>8. CASE Rebuild
  BY <1>8, RebuildTypes
<1>9. CASE Fail \/ Restart
  BY <1>9, EndTypes
<1>10. CASE Read
  BY <1>10, ReadTypes
<1>11. CASE UNCHANGED vars
  <2>1. TypeOK'
    BY <1>11 DEF StorageInv, TypeOK, vars
  <2>2. TasksInv'
    BY <1>11, TasksKept DEF StorageInv, vars
  <2>3. FilesInv'
    BY <1>11 DEF StorageInv, FilesInv, FilesExist, Inputs, Target, Current, vars
  <2> QED BY <2>1, <2>2, <2>3 DEF StorageInv
<1> QED BY <1>1, <1>2, <1>3, <1>4, <1>5, <1>6, <1>7, <1>8, <1>9, <1>10, <1>11
        DEF Next, Progress

\* Types, tasks and files are in order in every run, whatever the deployment.
THEOREM StorageInvariant == Spec => []StorageInv
BY StorageInit, StorageStep, PTL DEF Spec

\* Every table the manifest names has its file, through merges, moves, stale
\* tasks, failed rounds and restarts: the partition can always be opened.
THEOREM FilesAlwaysExist == Spec => []FilesExist
<1>1. StorageInv => FilesExist
  BY DEF StorageInv, FilesInv
<1> QED BY <1>1, StorageInvariant, PTL

\* Every table open for reading has its file, unless a round was torn between
\* its commit and the end of rebuild_levels.
THEOREM HandlesAlwaysReadable == Spec => []HandlesReadable
<1>1. StorageInv => HandlesReadable
  BY DEF StorageInv, FilesInv, FilesExist, HandlesReadable
<1> QED BY <1>1, StorageInvariant, PTL

-----------------------------------------------------------------------------
(* Known tables and their blocks *)

\* Every table somebody may read is well formed.
LEMMA KnownTypes ==
    ASSUME TypeOK
    PROVE  /\ Known \subseteq Tables(fresh)
           /\ live \subseteq Known /\ handles \subseteq Known /\ output \subseteq Known
<1>1. \A i \in 1 .. Len(tasks) : tasks[i] \in Tasks(fresh)
  BY ElementOfSeq DEF TypeOK
<1>2. \A i \in 1 .. Len(tasks) :
        tasks[i].inputs \subseteq Tables(fresh) /\ tasks[i].targets \subseteq Tables(fresh)
  BY <1>1 DEF Tasks
<1> QED BY <1>2 DEF TypeOK, Known

\* The tables of the current task are known.
LEMMA InputsKnown ==
    ASSUME TypeOK, TasksInv, pc \notin {"idle", "triggers"}
    PROVE  Inputs \subseteq Known
<1>1. Current = tasks[1] /\ 1 \in 1 .. Len(tasks)
  BY CurrentTask
<1> QED BY <1>1 DEF Known, Inputs

\* Names and versions stay unique when tables that are known get new names for
\* the same entries and new tables get a new id.
LEMMA NamesKept ==
    ASSUME TypeOK, NamesInv,
           (\A e, f \in mem \cup Versions(Known) :
               e.key = f.key /\ e.seq = f.seq => e = f)',
           NEW N,
           \A t \in N : t.id = fresh,
           \A t, u \in N : SameTable(t, u) => t.entries = u.entries,
           \A t \in Known' :
              \/ t \in N
              \/ \E u \in Known : SameTable(t, u) /\ t.entries = u.entries
    PROVE  NamesInv'
<1>1. \A t \in Known : t.id \in Nat /\ t.id < fresh
  BY KnownTypes DEF Tables, TypeOK
<1>2. fresh \in Nat
  BY DEF TypeOK
<1>3. ASSUME NEW t \in Known', NEW u \in Known', SameTable(t, u)
      PROVE  t.entries = u.entries
  <2>1. CASE t \in N /\ u \in N
    BY <1>3, <2>1
  <2>2. CASE t \in N /\ u \notin N
    BY <1>1, <1>2, <1>3, <2>2 DEF SameTable
  <2>3. CASE t \notin N /\ u \in N
    BY <1>1, <1>2, <1>3, <2>3 DEF SameTable
  <2>4. CASE t \notin N /\ u \notin N
    BY <1>3, <2>4 DEF SameTable, NamesInv
  <2> QED BY <2>1, <2>2, <2>3, <2>4
<1> QED BY <1>3 DEF NamesInv, SameTable

-----------------------------------------------------------------------------
(* The output of a merge *)

\* Fragments span disjoint ranges of keys.
LEMMA FragmentsApart ==
    ASSUME TypeOK, NEW E, E \subseteq Entries(fresh), Target \in 0 .. Bottom
    PROVE  \A o, p \in Fragments(E) : o # p => Apart(o, p)
<1> SUFFICES ASSUME NEW o \in Fragments(E), NEW p \in Fragments(E), o # p
             PROVE  Apart(o, p)
  OBVIOUS
<1>1. /\ o \in Tables(fresh + 1) /\ p \in Tables(fresh + 1)
      /\ ~SameTable(o, p) /\ o.id = fresh /\ p.id = fresh
  BY FragmentTypes
<1>2. /\ \A e \in o.entries : e \in E /\ FragmentOf(E, e) = o.frag
      /\ \A e \in p.entries : e \in E /\ FragmentOf(E, e) = p.frag
  BY FragmentTables
<1>3. o.frag \in Nat /\ p.frag \in Nat /\ o.frag # p.frag
  BY <1>1 DEF SameTable, Tables
<1>4. \A e \in E : e.key \in Nat
  BY ConstantsAssumption DEF Entries
<1>5. \A e, f \in E : FragmentOf(E, e) < FragmentOf(E, f) => e.key < f.key
  <2> SUFFICES ASSUME NEW e \in E, NEW f \in E,
                      FragmentOf(E, e) < FragmentOf(E, f), ~(e.key < f.key)
               PROVE  FALSE
    OBVIOUS
  <2>1. f.key <= e.key
    BY <1>4
  <2>2. /\ FragmentOf(E, f) <= FragmentOf(E, e)
        /\ FragmentOf(E, f) \in Nat /\ FragmentOf(E, e) \in Nat
    BY <2>1, FragmentNumbers
  <2> QED BY <2>2
<1>6. /\ MinKey(o) \in KeysOf(o) /\ MaxKey(o) \in KeysOf(o)
      /\ MinKey(p) \in KeysOf(p) /\ MaxKey(p) \in KeysOf(p)
  BY <1>1, KeyRange
<1>7. CASE o.frag < p.frag
  <2>1. \A j \in KeysOf(o), k \in KeysOf(p) : j < k
    BY <1>2, <1>5, <1>7 DEF KeysOf
  <2>2. MaxKey(o) < MinKey(p)
    BY <1>6, <2>1
  <2> QED BY <1>1, <2>2, ApartTables
<1>8. CASE p.frag < o.frag
  <2>1. \A j \in KeysOf(p), k \in KeysOf(o) : j < k
    BY <1>2, <1>5, <1>8 DEF KeysOf
  <2>2. MaxKey(p) < MinKey(o)
    BY <1>6, <2>1
  <2> QED BY <1>1, <2>2, ApartTables
<1> QED BY <1>3, <1>7, <1>8

\* A merge that reads what its inputs hold writes their newest versions.
LEMMA MergeOutput ==
    ASSUME StorageInv, Merge, ~mixed'
    PROVE  /\ \A o \in output' : o.id = fresh
           /\ \A o, p \in output' : SameTable(o, p) => o = p
           /\ \A o, p \in output' : o # p => Apart(o, p)
           /\ Versions(output') \subseteq Merged(Versions(Inputs))
           /\ \A e \in Merged(Versions(Inputs)) :
                 e \in Versions(output') \/ (e.del /\ Target = Bottom)
<1>0. TypeOK /\ TasksInv /\ pc = "compact"
  BY DEF StorageInv, Merge
<1> DEFINE E == UNION {Contents(t)' : t \in Inputs}
<1>1. /\ output' = Fragments(Survivors(E))
      /\ mixed' = (mixed \/ \E t \in Inputs : Contents(t)' # t.entries)
  BY DEF Merge
<1>2. Target \in 0 .. Bottom
  BY <1>0, CurrentTask
<1>3. \A t \in Inputs : Contents(t)' = t.entries
  BY <1>1
<1>4. E = Versions(Inputs)
  BY <1>3 DEF Versions
<1>5. Survivors(E) \subseteq Entries(fresh)
  BY MergeTypes
<1> DEFINE S == Survivors(E)
<1>6. /\ output' = Fragments(S) /\ S \subseteq Entries(fresh)
      /\ S \subseteq Merged(Versions(Inputs))
      /\ \A e \in Merged(Versions(Inputs)) : e \in S \/ (e.del /\ Target = Bottom)
  <2>1. S = {e \in Merged(E) : ~(e.del /\ Target = Bottom)}
    BY DEF Survivors
  <2> QED BY <1>1, <1>4, <1>5, <2>1
<1> HIDE DEF S, E
<1>7. /\ \A o \in output' : o.id = fresh
      /\ \A o, p \in output' : SameTable(o, p) => o = p
      /\ Versions(output') = S
  BY <1>0, <1>2, <1>6, FragmentTypes
<1>8. \A o, p \in output' : o # p => Apart(o, p)
  BY <1>0, <1>2, <1>6, FragmentsApart
<1> QED BY <1>6, <1>7, <1>8

-----------------------------------------------------------------------------
(* The tables a task leaves alone *)

\* What Overlapping looks for is the overlap with one range, from the first
\* to the last key of the inputs.
LEMMA InputRange ==
    ASSUME TypeOK, NEW l, NEW inputs, inputs \subseteq Tables(fresh), inputs # {}
    PROVE  \E lo, hi \in Nat :
             /\ lo <= hi
             /\ \A u \in inputs : lo <= MinKey(u) /\ MaxKey(u) <= hi
             /\ Overlapping(l, inputs) =
                  {t \in AtLevel(live, l) : MaxKey(t) >= lo /\ MinKey(t) <= hi}
<1> DEFINE K == UNION {KeysOf(u) : u \in inputs}
<1>1. K \subseteq Keys /\ K # {}
  BY KeyRange
<1>2. K \subseteq Nat
  BY <1>1, ConstantsAssumption
<1>3. \E x \in K : \A y \in K : x <= y
  <2> HIDE DEF K
  <2> QED BY <1>1, FirstAndLast
<1>4. \E x \in K : \A y \in K : y <= x
  <2> HIDE DEF K
  <2> QED BY <1>1, FirstAndLast
<1>5. PICK lo \in K : \A y \in K : lo <= y
  BY <1>3
<1>6. PICK hi \in K : \A y \in K : y <= hi
  BY <1>4
<1>7. \A u \in inputs : MinKey(u) \in K /\ MaxKey(u) \in K
  BY KeyRange
<1>8. \A u \in inputs : lo <= MinKey(u) /\ MaxKey(u) <= hi
  BY <1>5, <1>6, <1>7
<1>9. ASSUME NEW a \in K, NEW b \in K,
             \A u \in inputs : a <= MinKey(u) /\ MaxKey(u) <= b
      PROVE  a = lo /\ b = hi
  <2>1. PICK u \in inputs : lo \in KeysOf(u)
    OBVIOUS
  <2>2. PICK v \in inputs : hi \in KeysOf(v)
    OBVIOUS
  <2>3. /\ MinKey(u) <= lo /\ MinKey(u) \in Nat
        /\ hi <= MaxKey(v) /\ MaxKey(v) \in Nat
    BY <2>1, <2>2, KeyRange
  <2>4. a <= MinKey(u) /\ MaxKey(v) <= b
    BY <1>9
  <2>5. lo <= a /\ b <= hi /\ a \in Nat /\ b \in Nat /\ lo \in Nat /\ hi \in Nat
    BY <1>2, <1>5, <1>6
  <2> QED BY <2>3, <2>4, <2>5
<1>10. \A t \in AtLevel(live, l) : MinKey(t) \in Nat /\ MaxKey(t) \in Nat
  BY KeyRange DEF AtLevel, TypeOK
<1>11. lo \in Nat /\ hi \in Nat /\ lo <= hi
  BY <1>2, <1>5, <1>6
<1>12. Overlapping(l, inputs) = {t \in AtLevel(live, l) : overlaps_range(t, lo, hi)}
  <2>1. Overlapping(l, inputs) =
          {t \in AtLevel(live, l) : \E a, b \in K :
              /\ \A u \in inputs : a <= MinKey(u) /\ MaxKey(u) <= b
              /\ overlaps_range(t, a, b)}
    BY DEF Overlapping
  <2> HIDE DEF K
  <2> QED BY <1>5, <1>6, <1>8, <1>9, <2>1
<1>13. \A t \in AtLevel(live, l) :
         overlaps_range(t, lo, hi) <=> MaxKey(t) >= lo /\ MinKey(t) <= hi
  BY <1>10, <1>11 DEF overlaps_range
<1>14. Overlapping(l, inputs) =
         {t \in AtLevel(live, l) : MaxKey(t) >= lo /\ MinKey(t) <= hi}
  BY <1>12, <1>13
<1> QED BY <1>8, <1>11, <1>14

\* A table of the target level that is not merged ends before all inputs
\* begin, or begins after all of them end.
LEMMA OutsideInputs ==
    ASSUME StorageInv, LevelsInv, pc = "commit", Inputs \subseteq live,
           NEW u \in live \ Inputs, u.level = Target
    PROVE  \/ \A t \in Inputs : MaxKey(u) < MinKey(t)
           \/ \A t \in Inputs : MaxKey(t) < MinKey(u)
<1>0. TypeOK /\ TasksInv
  BY DEF StorageInv
<1>1. /\ Derived(Current) /\ Target = Current.src + 1 /\ Target \in 1 .. Bottom
      /\ Current.inputs \subseteq Inputs /\ Inputs \subseteq Tables(fresh)
      /\ Current.targets \subseteq Inputs
  BY <1>0, CurrentTask
<1>2. /\ Current.inputs # {} /\ Current.inputs \subseteq Tables(fresh)
      /\ Current.targets = Overlapping(Target, Current.inputs)
  BY <1>1 DEF Derived
<1>3. PICK lo, hi \in Nat :
        /\ lo <= hi
        /\ \A t \in Current.inputs : lo <= MinKey(t) /\ MaxKey(t) <= hi
        /\ Current.targets =
             {t \in AtLevel(live, Target) : MaxKey(t) >= lo /\ MinKey(t) <= hi}
  BY <1>0, <1>2, InputRange
<1>4. u \in Tables(fresh) /\ u \in AtLevel(live, Target) /\ u \notin Current.targets
  BY <1>0, <1>1 DEF TypeOK, AtLevel
<1>5. /\ \A t \in Inputs : /\ MinKey(t) \in Nat /\ MaxKey(t) \in Nat
                           /\ MinKey(t) <= MaxKey(t)
      /\ MinKey(u) \in Nat /\ MaxKey(u) \in Nat /\ MinKey(u) <= MaxKey(u)
  BY <1>1, <1>4, KeyRange
<1>6. MaxKey(u) < lo \/ hi < MinKey(u)
  BY <1>3, <1>4, <1>5
<1>7. \A t \in Current.targets : MaxKey(u) < MinKey(t) \/ MaxKey(t) < MinKey(u)
  <2> SUFFICES ASSUME NEW t \in Current.targets
               PROVE  MaxKey(u) < MinKey(t) \/ MaxKey(t) < MinKey(u)
    OBVIOUS
  <2>1. t \in live /\ t # u /\ t.level = Target /\ t \in Tables(fresh)
    BY <1>1, <1>3, <1>4 DEF AtLevel
  <2>2. u.level > 0
    BY <1>1
  <2>3. Apart(u, t)
    BY <2>1, <2>2 DEF LevelsInv
  <2> QED BY <1>4, <2>1, <2>3, ApartTables
<1>8. Inputs = Current.inputs \cup Current.targets
  BY DEF Inputs
<1>9. CASE MaxKey(u) < lo
  <2>1. \A t \in Current.inputs : MaxKey(u) < MinKey(t)
    BY <1>1, <1>3, <1>5, <1>9
  <2>2. \A t \in Current.targets : MaxKey(u) < MinKey(t)
    BY <1>1, <1>3, <1>5, <1>7, <1>9
  <2> QED BY <1>8, <2>1, <2>2
<1>10. CASE hi < MinKey(u)
  <2>1. \A t \in Current.inputs : MaxKey(t) < MinKey(u)
    BY <1>1, <1>3, <1>5, <1>10
  <2>2. \A t \in Current.targets : MaxKey(t) < MinKey(u)
    BY <1>1, <1>3, <1>5, <1>7, <1>10
  <2> QED BY <1>8, <2>1, <2>2
<1> QED BY <1>6, <1>9, <1>10

\* The tables that are left alone: those of the target level share no key with
\* the inputs, those above hold newer versions, those below older ones.
LEMMA AroundInputs ==
    ASSUME StorageInv, LevelsInv, pc = "commit", Inputs \subseteq live,
           NEW u \in live \ Inputs, NEW g \in u.entries,
           NEW t \in Inputs, NEW e \in t.entries, e.key = g.key
    PROVE  /\ u.level # Target
           /\ u.level < Target => e.seq < g.seq
           /\ u.level > Target => g.seq < e.seq
<1>0. TypeOK /\ TasksInv
  BY DEF StorageInv
<1>1. /\ Derived(Current) /\ Target = Current.src + 1 /\ Target \in 1 .. Bottom
      /\ Current.src \in 0 .. Bottom - 1
      /\ Inputs \subseteq Tables(fresh) /\ Current.inputs \subseteq Inputs
  BY <1>0, CurrentTask
<1>2. /\ u \in Tables(fresh) /\ t \in Tables(fresh) /\ t \in live /\ u \in live /\ t # u
      /\ u.level \in Nat /\ t.level \in Nat
  <2>1. u \in Tables(fresh) /\ t \in Tables(fresh) /\ t \in live /\ t # u
    BY <1>0, <1>1 DEF TypeOK
  <2>2. \A v \in Tables(fresh) : v.level \in 0 .. Bottom
    BY DEF Tables
  <2> QED BY <2>1, <2>2
<1>3. /\ g.key \in KeysOf(u) /\ e.key \in KeysOf(t)
      /\ KeysOf(u) \cap KeysOf(t) # {}
  BY DEF KeysOf
<1>4. t.level \in {Current.src, Target}
  BY <1>1 DEF Inputs, Derived, Overlapping, AtLevel
<1>5. u.level # Target
  <2> SUFFICES ASSUME u.level = Target PROVE FALSE
    OBVIOUS
  <2>1. MaxKey(u) < MinKey(t) \/ MaxKey(t) < MinKey(u)
    BY OutsideInputs
  <2>2. Apart(u, t)
    BY <1>2, <2>1, ApartTables
  <2> QED BY <1>2, <1>3, <2>2, ApartTables
<1>6. ASSUME u.level = Current.src PROVE t.level = Target
  <2>1. CASE Current.src = 0
    <3>1. u \in AtLevel(live, 0)
      BY <1>2, <1>6, <2>1 DEF AtLevel
    <3>2. u \in Current.inputs
      BY <1>1, <2>1, <3>1 DEF Derived
    <3> QED BY <1>1, <3>2
  <2>2. CASE Current.src # 0
    <3> SUFFICES ASSUME t.level = Current.src PROVE FALSE
      BY <1>4
    <3>1. Apart(u, t)
      BY <1>1, <1>2, <1>6, <2>2 DEF LevelsInv
    <3> QED BY <1>2, <1>3, <3>1, ApartTables
  <2> QED BY <2>1, <2>2
<1>7. u.level < Target => u.level < t.level
  BY <1>1, <1>2, <1>4, <1>6
<1>8. u.level > Target => t.level < u.level
  BY <1>1, <1>2, <1>4
<1>9. u.level < Target => e.seq < g.seq
  BY <1>2, <1>7 DEF LevelsInv
<1>10. u.level > Target => g.seq < e.seq
  BY <1>2, <1>8 DEF LevelsInv
<1> QED BY <1>5, <1>9, <1>10

-----------------------------------------------------------------------------
(* Steps *)

\* Where the manifest, the memtable and the history stay, so does what they
\* hold.
LEMMA LevelsTruthKept ==
    ASSUME LevelsInv, TruthInv, UNCHANGED <<live, mem, truth>>
    PROVE  LevelsInv' /\ TruthInv'
<1>1. /\ \A t, u \in live : Apart(t, u)' <=> Apart(t, u)
      /\ Stored' = Stored /\ Versions(live)' = Versions(live)
  BY DEF Apart, overlaps_range, MinKey, MaxKey, KeysOf, Stored, Versions
<1>2. LevelsInv'
  BY <1>1 DEF LevelsInv
<1>3. TruthInv'
  BY <1>1 DEF TruthInv
<1> QED BY <1>2, <1>3

\* A memtable's entries are newer than everything there is.
LEMMA WriteContents ==
    ASSUME StorageInv, ContentsInv, Write PROVE ContentsInv'
<1>0. TypeOK /\ NamesInv /\ LevelsInv /\ TruthInv
  BY DEF StorageInv, ContentsInv
<1>1. /\ pc = "idle" /\ mem = {} /\ fresh' = fresh + 1
      /\ UNCHANGED <<config, live, files, handles, cache, pc, tasks, output, torn>>
  BY DEF Write
<1>2. PICK ks \in (SUBSET Keys) \ {{}}, dels \in SUBSET Keys :
         /\ mem' = {[key |-> k, seq |-> fresh, del |-> k \in dels] : k \in ks}
         /\ truth' = [k \in Keys |->
                IF k \in ks THEN [seq |-> fresh, del |-> k \in dels]
                            ELSE truth[k]]
  BY DEF Write
<1>3. fresh \in Nat \ {0}
  BY <1>0 DEF TypeOK
<1>4. \A t \in Known : \A e \in t.entries : e.key \in Keys /\ e.seq \in Nat /\ e.seq < fresh
  <2>1. Known \subseteq Tables(fresh)
    BY <1>0, KnownTypes
  <2> QED BY <1>3, <2>1 DEF Tables, Entries
<1>5. \A e \in mem' : /\ e.key \in ks /\ e.seq = fresh /\ e.del = (e.key \in dels)
                      /\ e = [key |-> e.key, seq |-> fresh, del |-> e.key \in dels]
  <2> SUFFICES ASSUME NEW e \in mem'
               PROVE  /\ e.key \in ks /\ e.seq = fresh /\ e.del = (e.key \in dels)
                      /\ e = [key |-> e.key, seq |-> fresh, del |-> e.key \in dels]
    OBVIOUS
  <2>1. PICK k \in ks : e = [key |-> k, seq |-> fresh, del |-> k \in dels]
    BY <1>2, Zenon
  <2>2. e.key = k /\ e.seq = fresh /\ e.del = (k \in dels)
    BY <2>1, Zenon
  <2> QED BY <2>1, <2>2, Zenon
<1>6. \A k \in ks : \E e \in mem' : e.key = k /\ e.seq = fresh
  <2> SUFFICES ASSUME NEW k \in ks PROVE \E e \in mem' : e.key = k /\ e.seq = fresh
    OBVIOUS
  <2> DEFINE e == [key |-> k, seq |-> fresh, del |-> k \in dels]
  <2>1. e \in mem'
    BY <1>2, Zenon
  <2>2. e.key = k /\ e.seq = fresh
    BY Zenon
  <2> QED BY <2>1, <2>2, Zenon
<1>7. /\ \A k \in ks : truth'[k].seq = fresh /\ truth'[k].del = (k \in dels)
      /\ \A k \in Keys \ ks : truth'[k] = truth[k]
  BY <1>2
<1>8. Known' = Known /\ Versions(live)' = Versions(live)
  BY <1>1 DEF Known, Versions
<1>9. \A e \in Versions(Known) : e.seq \in Nat /\ e.seq < fresh
  BY <1>4 DEF Versions
<1>10. NamesInv'
  <2>1. (\A e, f \in mem \cup Versions(Known) : e.key = f.key /\ e.seq = f.seq => e = f)'
    <3>1. Versions(Known)' = Versions(Known)
      BY <1>8 DEF Versions
    <3>2. \A e, f \in mem' : e.key = f.key => e = f
      <4> SUFFICES ASSUME NEW e \in mem', NEW f \in mem', e.key = f.key PROVE e = f
        OBVIOUS
      <4>1. /\ e = [key |-> e.key, seq |-> fresh, del |-> e.key \in dels]
            /\ f = [key |-> f.key, seq |-> fresh, del |-> f.key \in dels]
        BY <1>5
      <4> QED BY <4>1
    <3>3. \A e \in mem', f \in Versions(Known) : e.seq # f.seq
      BY <1>3, <1>5, <1>9
    <3>4. \A e, f \in Versions(Known) : e.key = f.key /\ e.seq = f.seq => e = f
      BY <1>0 DEF NamesInv
    <3> QED BY <3>1, <3>2, <3>3, <3>4
  <2>2. \A t \in Known' : \E u \in Known : SameTable(t, u) /\ t.entries = u.entries
    BY <1>8 DEF SameTable
  <2> DEFINE N == {}
  <2>3. \A t \in N : FALSE
    OBVIOUS
  <2> HIDE DEF N
  <2> QED BY <1>0, <2>1, <2>2, <2>3, NamesKept
<1>11. LevelsInv'
  BY <1>0, <1>1 DEF LevelsInv, Apart, overlaps_range, MinKey, MaxKey, KeysOf
<1>12. Stored = Versions(live) /\ Stored' = mem' \cup Versions(live)
  BY <1>1, <1>8 DEF Stored
<1>13. \A e \in Versions(live) : e.key \in Keys /\ e.seq \in Nat /\ e.seq < fresh
  <2>1. live \subseteq Known
    BY <1>0, KnownTypes
  <2> QED BY <1>4, <2>1 DEF Versions
<1>14. TruthInv'
  <2>1. ASSUME NEW e \in Stored'
        PROVE  /\ e.seq <= truth'[e.key].seq
               /\ e.seq = truth'[e.key].seq => e.del = truth'[e.key].del
    <3>1. CASE e \in mem'
      BY <1>3, <1>5, <1>7, <3>1
    <3>2. CASE e \in Versions(live) /\ e.key \in ks
      BY <1>3, <1>7, <1>13, <3>2
    <3>3. CASE e \in Versions(live) /\ e.key \notin ks
      BY <1>0, <1>7, <1>12, <1>13, <3>3 DEF TruthInv
    <3> QED BY <1>12, <3>1, <3>2, <3>3
  <2>2. ASSUME NEW e \in mem'
        PROVE  /\ e.seq = truth'[e.key].seq
               /\ \A f \in Versions(live)' : f.key = e.key => f.seq < e.seq
    BY <1>5, <1>7, <1>8, <1>13
  <2>3. ASSUME NEW k \in Keys
        PROVE  \/ \E e \in Stored' : e.key = k /\ e.seq = truth'[k].seq
               \/ truth'[k].del /\ \A e \in Stored' : e.key # k
    <3>1. CASE k \in ks
      BY <1>6, <1>7, <1>12, <3>1
    <3>2. CASE k \notin ks
      <4>1. \/ \E e \in Stored : e.key = k /\ e.seq = truth[k].seq
            \/ truth[k].del /\ \A e \in Stored : e.key # k
        BY <1>0 DEF TruthInv
      <4>2. truth'[k] = truth[k] /\ \A e \in mem' : e.key # k
        BY <1>5, <1>7, <3>2
      <4> QED BY <1>12, <4>1, <4>2
    <3> QED BY <3>1, <3>2
  <2> QED BY <2>1, <2>2, <2>3 DEF TruthInv
<1>15. OutputInv'
  BY <1>1 DEF OutputInv
<1> QED BY <1>10, <1>11, <1>14, <1>15 DEF ContentsInv

\* Steps that leave the stored entries alone, learn of no new table and end
\* outside of a commit.
LEMMA QuietContents ==
    ASSUME TypeOK, ContentsInv, UNCHANGED <<live, mem, truth>>,
           pc' # "commit", Known' \subseteq Known
    PROVE  ContentsInv'
<1>0. NamesInv /\ LevelsInv /\ TruthInv
  BY DEF ContentsInv
<1>1. NamesInv'
  <2>1. (\A e, f \in mem \cup Versions(Known) : e.key = f.key /\ e.seq = f.seq => e = f)'
    <3>1. Versions(Known)' \subseteq Versions(Known) /\ mem' = mem
      BY DEF Versions
    <3>2. \A e, f \in mem \cup Versions(Known) : e.key = f.key /\ e.seq = f.seq => e = f
      BY <1>0 DEF NamesInv
    <3> QED BY <3>1, <3>2
  <2>2. \A t \in Known' : \E u \in Known : SameTable(t, u) /\ t.entries = u.entries
    BY DEF SameTable
  <2> DEFINE N == {}
  <2>3. \A t \in N : FALSE
    OBVIOUS
  <2> HIDE DEF N
  <2> QED BY <1>0, <2>1, <2>2, <2>3, NamesKept
<1>2. LevelsInv' /\ TruthInv'
  BY <1>0, LevelsTruthKept
<1>3. OutputInv'
  BY DEF OutputInv
<1> QED BY <1>1, <1>2, <1>3 DEF ContentsInv

\* A round that ends forgets its tables.
LEMMA EndContents ==
    ASSUME StorageInv, ContentsInv, Fail \/ Restart PROVE ContentsInv'
<1>0. TypeOK
  BY DEF StorageInv
<1>1. /\ tasks' = <<>> /\ output' = {} /\ pc' = "idle"
      /\ UNCHANGED <<live, mem, truth>>
      /\ handles' \subseteq live \/ handles' = handles
  BY DEF Fail, Restart, EndRound
<1>2. Known' \subseteq live' \cup handles'
  BY <1>1 DEF Known
<1>3. live \subseteq Known /\ handles \subseteq Known
  BY DEF Known
<1>4. Known' \subseteq Known
  BY <1>1, <1>2, <1>3
<1>5. pc' # "commit"
  BY <1>1
<1> QED BY <1>0, <1>1, <1>4, <1>5, QuietContents

\* A read caches the block of an open table.
LEMMA ReadContents ==
    ASSUME StorageInv, ContentsInv, Read PROVE ContentsInv'
<1>0. TypeOK
  BY DEF StorageInv
<1>1. /\ pc = "idle"
      /\ UNCHANGED <<live, handles, mem, pc, tasks, output, truth>>
  BY DEF Read
<1>2. Known' \subseteq Known
  BY <1>1 DEF Known
<1>3. pc' # "commit"
  BY <1>1
<1> QED BY <1>0, <1>1, <1>2, <1>3, QuietContents

\* A new round works on the manifest's tables.
LEMMA TriggerContents ==
    ASSUME StorageInv, ContentsInv, Maintain \/ CheckTriggers PROVE ContentsInv'
<1>0. TypeOK
  BY DEF StorageInv
<1>1. UNCHANGED <<config, live, handles, cache, mem, output, fresh, truth>>
  BY DEF Maintain, CheckTriggers
<1>2. pc' # "commit"
  BY DEF Maintain, CheckTriggers
<1>3. \A i \in 1 .. Len(tasks') : \/ tasks' = tasks
                                  \/ tasks'[i].inputs \cup tasks'[i].targets \subseteq live
  <2>1. CASE Maintain
    BY <2>1 DEF Maintain
  <2>2. CASE CheckTriggers
    <3>1. tasks' = check_triggers
      BY <2>2 DEF CheckTriggers
    <3>2. Round(tasks')
      BY <1>0, <3>1, TriggersRound
    <3> QED BY <3>2 DEF Round, Fresh
  <2> QED BY <2>1, <2>2
<1>4. Known' \subseteq Known
  BY <1>1, <1>3 DEF Known
<1> QED BY <1>0, <1>1, <1>2, <1>4, QuietContents

\* Deleting the source of a move, and opening the manifest's tables.
LEMMA DeleteContents ==
    ASSUME StorageInv, ContentsInv, DeleteSource PROVE ContentsInv'
<1>0. TypeOK
  BY DEF StorageInv
<1>1. /\ pc' = "rebuild"
      /\ UNCHANGED <<config, live, handles, cache, mem, tasks, output, fresh, truth>>
  BY DEF DeleteSource
<1>2. Known' \subseteq Known
  BY <1>1 DEF Known
<1>3. pc' # "commit"
  BY <1>1
<1> QED BY <1>0, <1>1, <1>2, <1>3, QuietContents

\* Rebuilding forgets the task that has ended.
LEMMA RebuildContents ==
    ASSUME StorageInv, ContentsInv, Rebuild PROVE ContentsInv'
<1>0. TypeOK /\ TasksInv /\ pc = "rebuild"
  BY DEF StorageInv, Rebuild
<1>1. /\ handles' = live /\ tasks' = Tail(tasks)
      /\ output' = {} /\ UNCHANGED <<live, mem, truth>>
      /\ pc' # "commit"
  BY DEF Rebuild
<1>2. /\ Len(tasks') = Len(tasks) - 1 /\ Len(tasks) \in Nat
      /\ \A i \in 1 .. Len(tasks') : tasks'[i] = tasks[i + 1]
  <2>1. tasks \in Seq(Tasks(fresh)) /\ tasks # <<>>
    BY <1>0, CurrentTask DEF TypeOK
  <2> QED BY <1>1, <2>1, HeadTailProperties, LenProperties
<1>3. \A i \in 1 .. Len(tasks') : i + 1 \in 1 .. Len(tasks) /\ tasks'[i] = tasks[i + 1]
  BY <1>2
<1>4. Known' \subseteq Known
  BY <1>1, <1>3 DEF Known
<1> QED BY <1>0, <1>1, <1>4, QuietContents

\* A flush moves the memtable's entries above all other tables.
LEMMA FlushContents ==
    ASSUME StorageInv, ContentsInv, Flush PROVE ContentsInv'
<1>0. TypeOK /\ TasksInv /\ NamesInv /\ LevelsInv /\ TruthInv
  BY DEF StorageInv, ContentsInv
<1> DEFINE t == [id |-> fresh, frag |-> 0, level |-> 0, created |-> fresh,
                 entries |-> mem]
<1>1. /\ live' = live \cup {t} /\ handles' = handles \cup {t}
      /\ mem' = {} /\ fresh' = fresh + 1 /\ pc' = "triggers"
      /\ UNCHANGED <<config, cache, tasks, output, truth>>
  BY DEF Flush
<1>2. t.id = fresh /\ t.frag = 0 /\ t.level = 0 /\ t.entries = mem
  OBVIOUS
<1> HIDE DEF t
<1>3. fresh \in Nat /\ \A u \in live : u.level \in Nat
  BY <1>0 DEF TypeOK, Tables
<1>4. Known' = Known \cup {t}
  BY <1>1 DEF Known
<1>5. /\ Versions(live)' = Versions(live) \cup mem
      /\ Versions(Known)' = Versions(Known) \cup mem
  BY <1>1, <1>2, <1>4 DEF Versions
<1>6. NamesInv'
  <2>1. (\A e, f \in mem \cup Versions(Known) : e.key = f.key /\ e.seq = f.seq => e = f)'
    <3>1. (mem \cup Versions(Known))' = mem \cup Versions(Known)
      BY <1>1, <1>5
    <3>2. \A e, f \in mem \cup Versions(Known) : e.key = f.key /\ e.seq = f.seq => e = f
      BY <1>0 DEF NamesInv
    <3> QED BY <3>1, <3>2
  <2> DEFINE N == {t}
  <2>2. \A u \in N : u = t
    OBVIOUS
  <2>3. \A u \in Known' : \/ u \in N
                          \/ \E v \in Known : SameTable(u, v) /\ u.entries = v.entries
    BY <1>4 DEF SameTable
  <2> HIDE DEF N
  <2>4. \A u \in N : u.id = fresh
    BY <1>2, <2>2
  <2>5. \A u, v \in N : SameTable(u, v) => u.entries = v.entries
    BY <2>2
  <2> QED BY <1>0, <2>1, <2>3, <2>4, <2>5, NamesKept
<1>7. LevelsInv'
  <2>1. \A e \in mem, f \in Versions(live) : f.key = e.key => f.seq < e.seq
    BY <1>0 DEF TruthInv
  <2>2. ASSUME NEW u \in live', NEW v \in live', u # v, u.level = v.level, u.level > 0
        PROVE  Apart(u, v)'
    <3>1. u \in live /\ v \in live
      BY <1>1, <1>2, <2>2
    <3>2. Apart(u, v)
      BY <1>0, <2>2, <3>1 DEF LevelsInv
    <3> QED BY <3>2 DEF Apart, overlaps_range, MinKey, MaxKey, KeysOf
  <2>3. ASSUME NEW u \in live', NEW v \in live', u.level < v.level,
               NEW e \in u.entries, NEW f \in v.entries, e.key = f.key
        PROVE  f.seq < e.seq
    <3>1. v \in live
      BY <1>1, <1>2, <1>3, <2>3
    <3>2. f \in Versions(live)
      BY <3>1 DEF Versions
    <3>3. CASE u = t
      BY <1>2, <2>1, <2>3, <3>2, <3>3
    <3>4. CASE u \in live
      BY <1>0, <2>3, <3>1, <3>4 DEF LevelsInv
    <3> QED BY <1>1, <3>3, <3>4
  <2> QED BY <2>2, <2>3 DEF LevelsInv
<1>8. TruthInv'
  <2>1. Stored' = Stored
    BY <1>1, <1>5 DEF Stored
  <2>2. /\ \A e \in Stored : /\ e.seq <= truth[e.key].seq
                             /\ e.seq = truth[e.key].seq => e.del = truth[e.key].del
        /\ \A k \in Keys :
              \/ \E e \in Stored : e.key = k /\ e.seq = truth[k].seq
              \/ truth[k].del /\ \A e \in Stored : e.key # k
    BY <1>0 DEF TruthInv
  <2> QED BY <1>1, <2>1, <2>2 DEF TruthInv
<1>9. OutputInv'
  BY <1>1 DEF OutputInv
<1> QED BY <1>6, <1>7, <1>8, <1>9 DEF ContentsInv

\* A move renames its inputs.
LEMMA CopyContents ==
    ASSUME StorageInv, ContentsInv, CopyTrivial PROVE ContentsInv'
<1>0. TypeOK /\ TasksInv /\ NamesInv /\ LevelsInv /\ TruthInv /\ pc = "compact" /\ IsTrivial
  BY DEF StorageInv, ContentsInv, CopyTrivial
<1> DEFINE Moved(t) == [t EXCEPT !.level = Target, !.created = fresh]
<1>1. /\ output' = {Moved(t) : t \in Inputs} /\ fresh' = fresh + 1 /\ pc' = "commit"
      /\ UNCHANGED <<config, live, handles, cache, mem, tasks, truth>>
  BY DEF CopyTrivial
<1>2. /\ Inputs \subseteq Tables(fresh) /\ Current.src \in 0 .. Bottom - 1
      /\ Derived(Current) /\ Current.inputs = Inputs /\ Current.src > 0
  BY <1>0, CurrentTask DEF IsTrivial, Inputs
<1>3. Inputs \subseteq Known
  BY <1>0, InputsKnown
<1>a. \A t \in Inputs : /\ Moved(t).id = t.id /\ Moved(t).frag = t.frag
                        /\ Moved(t).entries = t.entries
  BY <1>2 DEF Tables
<1> HIDE DEF Moved
<1>4. \A o \in output' : \E t \in Inputs :
        /\ o = Moved(t)
        /\ o.id = t.id /\ o.frag = t.frag /\ o.entries = t.entries
  BY <1>1, <1>a
<1>5. \A t \in Inputs : \E o \in output' : o.entries = t.entries
  BY <1>1, <1>a
<1>6. Known' \subseteq Known \cup output' /\ Inputs' = Inputs /\ Target' = Target
  BY <1>1 DEF Known, Inputs, Current, Target
<1>7. Versions(output)' = Versions(Inputs)
  BY <1>4, <1>5 DEF Versions
<1>9. NamesInv'
  <2>1. (\A e, f \in mem \cup Versions(Known) : e.key = f.key /\ e.seq = f.seq => e = f)'
    <3>1. Versions(Known)' \subseteq Versions(Known)
      BY <1>3, <1>4, <1>6 DEF Versions
    <3>2. \A e, f \in mem \cup Versions(Known) : e.key = f.key /\ e.seq = f.seq => e = f
      BY <1>0 DEF NamesInv
    <3> QED BY <1>1, <3>1, <3>2
  <2>2. \A t \in Known' : \E u \in Known : SameTable(t, u) /\ t.entries = u.entries
    BY <1>3, <1>4, <1>6 DEF SameTable
  <2> DEFINE N == {}
  <2>3. \A t \in N : FALSE
    OBVIOUS
  <2> HIDE DEF N
  <2> QED BY <1>0, <2>1, <2>2, <2>3, NamesKept
<1>10. LevelsInv' /\ TruthInv'
  <2>1. UNCHANGED <<live, mem, truth>>
    BY <1>1
  <2> QED BY <1>0, <2>1, LevelsTruthKept
<1>11. OutputInv'
  <2> SUFFICES ASSUME Inputs \subseteq live
               PROVE  /\ Versions(output)' \subseteq Versions(Inputs)'
                      /\ \A o, p \in output' : o # p => Apart(o, p)'
                      /\ \A e \in Merged(Versions(Inputs))' : e \in Versions(output)'
    BY <1>1, <1>6 DEF OutputInv
  <2>1. Versions(Inputs)' = Versions(Inputs)
    BY <1>6 DEF Versions
  <2>2. ASSUME NEW e \in Merged(Versions(Inputs))' PROVE e \in Versions(output)'
    BY <1>7, <2>1, <2>2 DEF Merged
  <2>3. ASSUME NEW o \in output', NEW p \in output', o # p PROVE Apart(o, p)'
    <3>1. PICK t \in Inputs : /\ o = Moved(t) /\ o.entries = t.entries
      BY <1>4
    <3>2. PICK u \in Inputs : /\ p = Moved(u) /\ p.entries = u.entries
      BY <1>4
    <3>3. t # u
      BY <2>3, <3>1, <3>2
    <3>4. t \in live /\ u \in live /\ t.level = u.level /\ t.level > 0
      BY <1>2 DEF Derived
    <3>5. Apart(t, u)
      BY <1>0, <3>3, <3>4 DEF LevelsInv
    <3>6. KeysOf(o) = KeysOf(t) /\ KeysOf(p) = KeysOf(u)
      BY <3>1, <3>2 DEF KeysOf
    <3>7. /\ MinKey(o) = MinKey(t) /\ MaxKey(o) = MaxKey(t)
          /\ MinKey(p) = MinKey(u) /\ MaxKey(p) = MaxKey(u)
      BY <3>6 DEF MinKey, MaxKey
    <3> QED BY <3>5, <3>7 DEF Apart, overlaps_range
  <2> QED BY <1>7, <2>1, <2>2, <2>3
<1> QED BY <1>9, <1>10, <1>11 DEF ContentsInv

\* A merge writes the newest versions of its inputs.
LEMMA MergeContents ==
    ASSUME StorageInv, ContentsInv, Merge, ~mixed' PROVE ContentsInv'
<1>0. TypeOK /\ TasksInv /\ NamesInv /\ LevelsInv /\ TruthInv /\ pc = "compact"
  BY DEF StorageInv, ContentsInv, Merge
<1>1. /\ fresh' = fresh + 1 /\ pc' = "commit"
      /\ UNCHANGED <<config, live, handles, mem, tasks, truth>>
  BY DEF Merge
<1>2. Inputs \subseteq Known /\ Inputs \subseteq Tables(fresh)
  BY <1>0, InputsKnown, CurrentTask
<1>3. /\ \A o \in output' : o.id = fresh
      /\ \A o, p \in output' : SameTable(o, p) => o = p
      /\ \A o, p \in output' : o # p => Apart(o, p)
      /\ Versions(output') \subseteq Merged(Versions(Inputs))
      /\ \A e \in Merged(Versions(Inputs)) :
            e \in Versions(output') \/ (e.del /\ Target = Bottom)
  BY <1>0, MergeOutput
<1>4. Known' \subseteq Known \cup output' /\ Inputs' = Inputs /\ Target' = Target
  BY <1>1 DEF Known, Inputs, Current, Target
<1>5. Versions(output)' \subseteq Versions(Inputs)
  BY <1>3 DEF Merged, Versions
<1>6. \A e, f \in mem \cup Versions(Known) : e.key = f.key /\ e.seq = f.seq => e = f
  BY <1>0 DEF NamesInv
<1>7. Versions(Inputs) \subseteq Versions(Known)
  BY <1>2 DEF Versions
<1>8. NamesInv'
  <2>1. (\A e, f \in mem \cup Versions(Known) : e.key = f.key /\ e.seq = f.seq => e = f)'
    <3>1. Versions(Known)' \subseteq Versions(Known) \cup Versions(output)'
      BY <1>4 DEF Versions
    <3>2. Versions(Known)' \subseteq Versions(Known)
      BY <1>5, <1>7, <3>1
    <3> QED BY <1>1, <1>6, <3>2
  <2>2. \A t \in Known' : \/ t \in output'
                          \/ \E u \in Known : SameTable(t, u) /\ t.entries = u.entries
    BY <1>4 DEF SameTable
  <2>3. \A t, u \in output' : SameTable(t, u) => t.entries = u.entries
    BY <1>3
  <2> DEFINE N == output'
  <2>4. /\ \A t \in N : t.id = fresh
        /\ \A t, u \in N : SameTable(t, u) => t.entries = u.entries
        /\ \A t \in Known' : \/ t \in N
                             \/ \E u \in Known : SameTable(t, u) /\ t.entries = u.entries
    BY <1>3, <2>2, <2>3
  <2> HIDE DEF N
  <2> QED BY <1>0, <2>1, <2>4, NamesKept
<1>9. LevelsInv' /\ TruthInv'
  <2>1. UNCHANGED <<live, mem, truth>>
    BY <1>1
  <2> QED BY <1>0, <2>1, LevelsTruthKept
<1>10. OutputInv'
  <2>1. Merged(Versions(Inputs))' = Merged(Versions(Inputs))
        /\ Versions(Inputs)' = Versions(Inputs)
    BY <1>4 DEF Versions, Merged
  <2>2. \A o, p \in output' : o # p => Apart(o, p)'
    BY <1>3 DEF Apart, overlaps_range, MinKey, MaxKey, KeysOf
  <2>3. Versions(output)' = Versions(output')
    BY DEF Versions
  <2>4. ASSUME NEW e \in Merged(Versions(Inputs))
        PROVE  \/ e \in Versions(output')
               \/ /\ e.del /\ Target = Bottom
                  /\ \A f \in Versions(output') : f.key # e.key
    <3>1. CASE e \in Versions(output')
      BY <3>1
    <3>2. CASE e \notin Versions(output')
      <4>1. e.del /\ Target = Bottom
        BY <1>3, <3>2
      <4>2. ASSUME NEW f \in Versions(output'), f.key = e.key PROVE FALSE
        <5>1. f \in Merged(Versions(Inputs))
          BY <1>3
        <5>2. /\ e \in Versions(Inputs) /\ f \in Versions(Inputs)
              /\ e.seq <= f.seq /\ f.seq <= e.seq
          BY <4>2, <5>1 DEF Merged
        <5>3. \A g \in Versions(Inputs) : g.seq \in Nat
          BY <1>0, <1>2 DEF Versions, Tables, Entries, TypeOK
        <5>4. e.seq = f.seq
          BY <5>2, <5>3
        <5>5. e = f
          BY <1>6, <1>7, <4>2, <5>2, <5>4
        <5> QED BY <3>2, <5>5
      <4> QED BY <4>1, <4>2
    <3> QED BY <3>1, <3>2
  <2> QED BY <1>4, <1>5, <2>1, <2>2, <2>3, <2>4 DEF OutputInv
<1> QED BY <1>8, <1>9, <1>10 DEF ContentsInv

\* An accepted commit replaces the inputs by the output: the levels stay
\* disjoint and in order.
LEMMA CommittedLevels ==
    ASSUME StorageInv, LevelsInv, OutputInv, pc = "commit", Inputs \subseteq live,
           live' = (live \ Inputs) \cup output
    PROVE  LevelsInv'
<1>0. TypeOK /\ TasksInv /\ FilesInv
  BY DEF StorageInv
<1>1. /\ Target \in 1 .. Bottom /\ Inputs \subseteq Tables(fresh)
      /\ live \subseteq Tables(fresh) /\ output \subseteq Tables(fresh)
  BY <1>0, CurrentTask DEF TypeOK
<1>2. /\ Versions(output) \subseteq Versions(Inputs)
      /\ \A o, p \in output : o # p => Apart(o, p)
  BY DEF OutputInv
<1>3. \A o \in output : o.level = Target
  BY <1>0 DEF FilesInv
<1>4. \A t \in live : t.level \in Nat
  BY <1>1 DEF Tables
<1>5. \A o \in output : \A e \in o.entries : \E t \in Inputs : e \in t.entries
  BY <1>2 DEF Versions
<1>6. ASSUME NEW u \in live \ Inputs, u.level = Target, NEW o \in output
      PROVE  Apart(o, u) /\ Apart(u, o)
  <2>1. \/ \A t \in Inputs : MaxKey(u) < MinKey(t)
        \/ \A t \in Inputs : MaxKey(t) < MinKey(u)
    BY <1>6, OutsideInputs
  <2>2. \A k \in KeysOf(o) : \E t \in Inputs : k \in KeysOf(t)
    BY <1>5 DEF KeysOf
  <2>3. MinKey(o) \in KeysOf(o) /\ MaxKey(o) \in KeysOf(o)
    BY <1>1, KeyRange
  <2>4. PICK t \in Inputs : MinKey(o) \in KeysOf(t)
    BY <2>2, <2>3
  <2>5. PICK v \in Inputs : MaxKey(o) \in KeysOf(v)
    BY <2>2, <2>3
  <2>6. /\ MinKey(t) <= MinKey(o) /\ MaxKey(o) <= MaxKey(v)
        /\ MinKey(t) \in Nat /\ MaxKey(v) \in Nat
        /\ MinKey(o) \in Nat /\ MaxKey(o) \in Nat
        /\ MinKey(u) \in Nat /\ MaxKey(u) \in Nat
    BY <1>1, <2>4, <2>5, KeyRange
  <2>7. MaxKey(u) < MinKey(o) \/ MaxKey(o) < MinKey(u)
    BY <2>1, <2>6
  <2> QED BY <1>1, <2>7, ApartTables
<1>7. ASSUME NEW t \in live', NEW u \in live', t # u, t.level = u.level, t.level > 0
      PROVE  Apart(t, u)'
  <2>1. Apart(t, u)
    <3>1. CASE t \in live \ Inputs /\ u \in live \ Inputs
      BY <1>7, <3>1 DEF LevelsInv
    <3>2. CASE t \in output /\ u \in output
      BY <1>2, <1>7, <3>2
    <3>3. CASE t \in output /\ u \in live \ Inputs
      BY <1>3, <1>6, <1>7, <3>3
    <3>4. CASE t \in live \ Inputs /\ u \in output
      BY <1>3, <1>6, <1>7, <3>4
    <3> QED BY <3>1, <3>2, <3>3, <3>4
  <2> QED BY <2>1 DEF Apart, overlaps_range, MinKey, MaxKey, KeysOf
<1>8. ASSUME NEW t \in live', NEW u \in live', t.level < u.level,
             NEW e \in t.entries, NEW f \in u.entries, e.key = f.key
      PROVE  f.seq < e.seq
  <2>1. CASE t \in live \ Inputs /\ u \in live \ Inputs
    BY <1>8, <2>1 DEF LevelsInv
  <2>2. CASE t \in output /\ u \in output
    BY <1>1, <1>3, <1>8, <2>2
  <2>3. CASE t \in output /\ u \in live \ Inputs
    <3>1. PICK v \in Inputs : e \in v.entries
      BY <1>5, <2>3
    <3>2. u.level > Target
      BY <1>1, <1>3, <1>4, <1>8, <2>3
    <3> QED BY <1>8, <2>3, <3>1, <3>2, AroundInputs
  <2>4. CASE t \in live \ Inputs /\ u \in output
    <3>1. PICK v \in Inputs : f \in v.entries
      BY <1>5, <2>4
    <3>2. t.level < Target
      BY <1>1, <1>3, <1>4, <1>8, <2>4
    <3> QED BY <1>8, <2>4, <3>1, <3>2, AroundInputs
  <2> QED BY <2>1, <2>2, <2>3, <2>4
<1> QED BY <1>7, <1>8 DEF LevelsInv

\* No newest version is lost, and a tombstone that was dropped has hidden
\* nothing.
LEMMA CommittedTruth ==
    ASSUME StorageInv, LevelsInv, TruthInv, OutputInv, pc = "commit",
           Inputs \subseteq live, live' = (live \ Inputs) \cup output,
           UNCHANGED <<mem, truth>>
    PROVE  TruthInv'
<1>0. TypeOK /\ TasksInv
  BY DEF StorageInv
<1>1. /\ Versions(output) \subseteq Versions(Inputs)
      /\ \A e \in Merged(Versions(Inputs)) :
            \/ e \in Versions(output)
            \/ /\ e.del /\ Target = Bottom
               /\ \A f \in Versions(output) : f.key # e.key
  BY DEF OutputInv
<1>2. /\ Versions(live)' = Versions(live \ Inputs) \cup Versions(output)
      /\ Versions(live) = Versions(live \ Inputs) \cup Versions(Inputs)
  BY DEF Versions
<1>3. Stored' = mem \cup Versions(live \ Inputs) \cup Versions(output)
  BY <1>2 DEF Stored
<1>4. Stored = mem \cup Versions(live \ Inputs) \cup Versions(Inputs)
  BY <1>2 DEF Stored
<1>5. Stored' \subseteq Stored /\ Versions(live)' \subseteq Versions(live)
  BY <1>1, <1>2, <1>3, <1>4
<1>6. \A e \in Stored : e.seq \in Nat /\ e.key \in Keys
  BY <1>0 DEF Stored, Versions, Tables, Entries, TypeOK
<1>7. \A e \in Stored : /\ e.seq <= truth[e.key].seq
                        /\ e.seq = truth[e.key].seq => e.del = truth[e.key].del
  BY DEF TruthInv
<1>8. \A e \in mem : /\ e.seq = truth[e.key].seq
                     /\ \A f \in Versions(live) : f.key = e.key => f.seq < e.seq
  BY DEF TruthInv
<1>9. ASSUME NEW k \in Keys
      PROVE  \/ \E e \in Stored' : e.key = k /\ e.seq = truth[k].seq
             \/ truth[k].del /\ \A e \in Stored' : e.key # k
  <2>1. CASE truth[k].del /\ \A e \in Stored : e.key # k
    BY <1>5, <2>1
  <2>2. ASSUME NEW e \in Stored, e.key = k, e.seq = truth[k].seq, e \notin Stored'
        PROVE  truth[k].del /\ \A g \in Stored' : g.key # k
    <3>1. e \in Versions(Inputs)
      BY <1>3, <1>4, <2>2
    <3>2. e \in Merged(Versions(Inputs))
      <4>1. \A o \in Versions(Inputs) : o.key = e.key => o.seq <= e.seq
        BY <1>4, <1>7, <2>2
      <4> QED BY <3>1, <4>1 DEF Merged
    <3>3. /\ e.del /\ Target = Bottom
          /\ \A f \in Versions(output) : f.key # e.key
      BY <1>1, <1>3, <2>2, <3>2
    <3>4. truth[k].del
      BY <1>7, <2>2, <3>3
    <3>5. ASSUME NEW g \in mem, g.key = k PROVE FALSE
      <4>1. g.seq = truth[k].seq /\ e.seq < g.seq
        BY <1>2, <1>8, <2>2, <3>1, <3>5
      <4>2. e.seq \in Nat
        BY <1>6, <2>2
      <4> QED BY <2>2, <4>1, <4>2
    <3>6. ASSUME NEW g \in Versions(live \ Inputs), g.key = k PROVE FALSE
      <4>1. PICK u \in live \ Inputs : g \in u.entries
        BY DEF Versions
      <4>2. PICK t \in Inputs : e \in t.entries
        BY <3>1 DEF Versions
      <4>3. /\ u.level # Target
            /\ u.level < Target => e.seq < g.seq
        BY <2>2, <3>6, <4>1, <4>2, AroundInputs
      <4>4. u.level \in 0 .. Bottom /\ Bottom \in Nat
        BY <1>0, ConstantsAssumption DEF TypeOK, Tables
      <4>5. u.level < Target
        BY <3>3, <4>3, <4>4
      <4>6. g \in Stored
        BY <1>4
      <4>7. g.seq <= e.seq /\ g.seq \in Nat /\ e.seq \in Nat
        BY <1>6, <1>7, <2>2, <3>6, <4>6
      <4> QED BY <4>3, <4>5, <4>7
    <3> QED BY <1>3, <2>2, <3>3, <3>4, <3>5, <3>6
  <2>3. \/ \E e \in Stored : e.key = k /\ e.seq = truth[k].seq
        \/ truth[k].del /\ \A e \in Stored : e.key # k
    BY DEF TruthInv
  <2> QED BY <2>1, <2>2, <2>3
<1> QED BY <1>5, <1>7, <1>8, <1>9 DEF TruthInv

\* A commit, accepted or refused.
LEMMA CommitContents ==
    ASSUME StorageInv, ContentsInv, Commit PROVE ContentsInv'
<1>0. TypeOK /\ NamesInv /\ LevelsInv /\ TruthInv /\ OutputInv /\ pc = "commit"
  BY DEF StorageInv, ContentsInv, Commit
<1>1. UNCHANGED <<config, handles, cache, mem, fresh, truth>>
  BY DEF Commit
<1>3. CASE Inputs \subseteq live
  <2>1. /\ live' = (live \ Inputs) \cup output
        /\ pc' \in {"delete", "rebuild"} /\ UNCHANGED <<tasks, output>>
    BY <1>3 DEF Commit
  <2>2. Known' \subseteq Known
    BY <1>1, <2>1 DEF Known
  <2>3. NamesInv'
    <3>1. (\A e, f \in mem \cup Versions(Known) :
              e.key = f.key /\ e.seq = f.seq => e = f)'
      <4>1. Versions(Known)' \subseteq Versions(Known)
        BY <2>2 DEF Versions
      <4>2. \A e, f \in mem \cup Versions(Known) :
              e.key = f.key /\ e.seq = f.seq => e = f
        BY <1>0 DEF NamesInv
      <4> QED BY <1>1, <4>1, <4>2
    <3>2. \A t \in Known' : \E u \in Known : SameTable(t, u) /\ t.entries = u.entries
      BY <2>2 DEF SameTable
    <3> DEFINE N == {}
    <3>3. \A t \in N : FALSE
      OBVIOUS
    <3> HIDE DEF N
    <3> QED BY <1>0, <3>1, <3>2, <3>3, NamesKept
  <2>4. LevelsInv'
    BY <1>0, <1>3, <2>1, CommittedLevels
  <2>5. TruthInv'
    BY <1>0, <1>1, <1>3, <2>1, CommittedTruth
  <2>6. OutputInv'
    BY <2>1 DEF OutputInv
  <2> QED BY <2>3, <2>4, <2>5, <2>6 DEF ContentsInv
<1>4. CASE ~(Inputs \subseteq live)
  <2>1. tasks' = <<>> /\ output' = {} /\ pc' = "idle" /\ UNCHANGED live
    BY <1>4 DEF Commit, EndRound
  <2>2. Known' \subseteq Known
    BY <1>1, <2>1 DEF Known
  <2>3. UNCHANGED <<live, mem, truth>> /\ pc' # "commit"
    BY <1>1, <2>1
  <2> QED BY <1>0, <2>2, <2>3, QuietContents
<1> QED BY <1>3, <1>4

-----------------------------------------------------------------------------
(* The invariant *)

\* An empty partition.
LEMMA ContentsInit == ASSUME Init PROVE ContentsInv
<1>1. /\ live = {} /\ handles = {} /\ cache = {} /\ mem = {} /\ pc = "idle"
      /\ tasks = <<>> /\ output = {}
      /\ truth = [k \in Keys |-> [seq |-> 0, del |-> TRUE]]
  BY DEF Init
<1>2. Known = {}
  BY <1>1 DEF Known
<1>3. Stored = {} /\ mem \cup Versions(Known) = {} /\ Versions(live) = {}
  BY <1>1, <1>2 DEF Stored, Versions
<1>4. NamesInv
  BY <1>1, <1>2, <1>3 DEF NamesInv
<1>5. LevelsInv
  BY <1>1 DEF LevelsInv
<1>6. \A k \in Keys : truth[k].del
  BY <1>1
<1>7. TruthInv
  BY <1>1, <1>3, <1>6 DEF TruthInv
<1>8. OutputInv
  BY <1>1 DEF OutputInv
<1> QED BY <1>4, <1>5, <1>7, <1>8 DEF ContentsInv

\* One case per action.
LEMMA ContentsStep ==
    ASSUME StorageInv, ContentsInv, [Next]_vars, ~mixed' PROVE ContentsInv'
<1>1. CASE Write
  BY <1>1, WriteContents
<1>2. CASE Flush
  BY <1>2, FlushContents
<1>3. CASE Maintain \/ CheckTriggers
  BY <1>3, TriggerContents
<1>4. CASE CopyTrivial
  BY <1>4, CopyContents
<1>5. CASE Merge
  BY <1>5, MergeContents
<1>6. CASE Commit
  BY <1>6, CommitContents
<1>7. CASE DeleteSource
  BY <1>7, DeleteContents
<1>8. CASE Rebuild
  BY <1>8, RebuildContents
<1>9. CASE Fail \/ Restart
  BY <1>9, EndContents
<1>10. CASE Read
  BY <1>10, ReadContents
<1>11. CASE UNCHANGED vars
  <2>1. UNCHANGED <<config, live, handles, cache, mem, pc, tasks, output, fresh, truth>>
    BY <1>11 DEF vars
  <2>2. LevelsInv' /\ TruthInv'
    BY <2>1, LevelsTruthKept DEF ContentsInv
  <2>3. NamesInv'
    BY <2>1 DEF ContentsInv, NamesInv, Known, Versions, SameTable
  <2>4. OutputInv'
    BY <2>1 DEF ContentsInv, OutputInv, Inputs, Target, Current, Versions, Merged,
                Apart, overlaps_range, MinKey, MaxKey, KeysOf
  <2> QED BY <2>2, <2>3, <2>4 DEF ContentsInv
<1> QED BY <1>1, <1>2, <1>3, <1>4, <1>5, <1>6, <1>7, <1>8, <1>9, <1>10, <1>11
        DEF Next, Progress

\* A merge that was given a wrong block is not forgotten.
LEMMA MixedStays == [Next]_vars /\ mixed => mixed'
BY DEF Next, Progress, Write, Flush, Maintain, CheckTriggers, CopyTrivial, Merge,
       Commit, DeleteSource, Rebuild, Fail, Read, Restart, vars

\* What the tables hold stays consistent through every interleaving of writes,
\* rounds, failures and restarts, in every deployment, until a merge is given
\* the cached block of another table.
THEOREM ContentsInvariant == Spec => [](~mixed => ContentsInv)
<1>1. Init => ContentsInv
  BY ContentsInit
<1>2. StorageInv /\ (~mixed => ContentsInv) /\ [Next]_vars => (~mixed => ContentsInv)'
  <2> SUFFICES ASSUME StorageInv, ~mixed => ContentsInv, [Next]_vars, ~mixed'
               PROVE  ContentsInv'
    OBVIOUS
  <2>1. ~mixed
    BY MixedStays
  <2> QED BY <2>1, ContentsStep
<1> QED BY <1>1, <1>2, StorageInvariant, PTL DEF Spec

-----------------------------------------------------------------------------
(* What follows from it *)

\* Until a merge is given the cached block of another table, no two tables of
\* a level below L0 overlap and the manifest names each table once, whatever
\* stale tasks, failed rounds and restarts come between.
THEOREM LevelsStayDisjoint == Spec => [](~mixed => LevelsDisjoint)
<1>1. StorageInv /\ ContentsInv => LevelsDisjoint
  <2> SUFFICES ASSUME StorageInv, ContentsInv PROVE LevelsDisjoint
    OBVIOUS
  <2>1. \A t, u \in live : SameTable(t, u) => t = u
    BY DEF StorageInv, FilesInv
  <2>2. \A t, u \in live : <<t.id, t.frag>> = <<u.id, u.frag>> => t = u
    BY <2>1 DEF SameTable
  <2>3. \A t, u \in live : t # u /\ t.level = u.level /\ t.level > 0 =>
           ~overlaps_range(t, MinKey(u), MaxKey(u))
    BY DEF ContentsInv, LevelsInv, Apart
  <2> QED BY <2>2, <2>3 DEF LevelsDisjoint
<1> QED BY <1>1, StorageInvariant, ContentsInvariant, PTL

\* Every table of the manifest that holds a version of a key is a candidate.
LEMMA CandidatesFound ==
    ASSUME TypeOK, LevelsInv, handles = live, NEW t \in live, NEW e \in t.entries
    PROVE  t \in Candidates(e.key)
<1>1. live \subseteq Tables(fresh) /\ t.level \in Nat
  BY DEF TypeOK, Tables
<1>2. e.key \in KeysOf(t)
  BY DEF KeysOf
<1>3. /\ MinKey(t) <= e.key /\ e.key <= MaxKey(t) /\ e.key \in Nat
      /\ MinKey(t) \in Nat /\ MaxKey(t) \in Nat
  BY <1>1, <1>2, KeyRange, ConstantsAssumption
<1>4. ASSUME t.level # 0, NEW u \in AtLevel(handles, t.level), MaxKey(u) >= e.key
      PROVE  MinKey(t) <= MinKey(u)
  <2>1. u \in live /\ u.level = t.level /\ t.level > 0 /\ u \in Tables(fresh)
    BY <1>1, <1>4 DEF AtLevel
  <2>2. MinKey(u) \in Nat /\ MaxKey(u) \in Nat /\ MinKey(u) <= MaxKey(u)
    BY <2>1, KeyRange
  <2>3. CASE u = t
    BY <1>3, <2>3
  <2>4. CASE u # t
    <3>1. Apart(t, u)
      BY <2>1, <2>4 DEF LevelsInv
    <3>2. MaxKey(t) < MinKey(u) \/ MaxKey(u) < MinKey(t)
      BY <1>1, <2>1, <3>1, ApartTables
    <3> QED BY <1>3, <1>4, <2>2, <3>2
  <2> QED BY <2>3, <2>4
<1> QED BY <1>3, <1>4 DEF Candidates

\* What a point read finds: versions that are stored, the newest among them.
LEMMA GetNewest ==
    ASSUME StorageInv, ContentsInv, BlocksOwn, pc = "idle", ~torn, NEW k \in Keys
    PROVE  Get(k) = IF truth[k].del THEN 0 ELSE truth[k].seq
<1>0. TypeOK /\ NamesInv /\ LevelsInv /\ TruthInv
  BY DEF StorageInv, ContentsInv
<1>1. handles = live
  BY DEF StorageInv, FilesInv
<1> DEFINE Of(entries) == {e \in entries : e.key = k}
           read == UNION {Contents(t) : t \in Candidates(k)}
           found == IF Of(mem) # {} THEN Of(mem) ELSE Of(read)
<1>2. Get(k) = IF \E e \in Merged(found) : ~e.del
               THEN (CHOOSE e \in Merged(found) : ~e.del).seq ELSE 0
  BY Zenon DEF Get
<1>3. read \subseteq Versions(live) /\ \A e \in Versions(live) : e.key = k => e \in read
  <2>1. Candidates(k) \subseteq live
    BY <1>1 DEF Candidates
  <2>2. \A t \in Candidates(k) : Contents(t) = t.entries
    BY <1>1, <2>1 DEF BlocksOwn
  <2>3. \A t \in live : \A e \in t.entries : e.key = k => t \in Candidates(k)
    BY <1>0, <1>1, CandidatesFound
  <2>4. read = UNION {t.entries : t \in Candidates(k)}
    BY <2>2
  <2> QED BY <2>1, <2>3, <2>4 DEF Versions
<1> HIDE DEF read
<1>4. \A e \in found : e \in Stored /\ e.key = k
  BY <1>3 DEF Stored
<1>5. /\ \A e \in Stored : /\ e.seq <= truth[e.key].seq
                           /\ e.seq = truth[e.key].seq => e.del = truth[e.key].del
      /\ \A e \in mem : e.seq = truth[e.key].seq
      /\ \/ \E e \in Stored : e.key = k /\ e.seq = truth[k].seq
         \/ truth[k].del /\ \A e \in Stored : e.key # k
  BY <1>0 DEF TruthInv
<1>6. \A e \in Stored : e.seq \in Nat
  BY <1>0 DEF Stored, Versions, Tables, Entries, TypeOK
<1>7. truth[k].seq \in Nat
  BY <1>0 DEF TypeOK
<1>8. CASE \E e \in Stored : e.key = k /\ e.seq = truth[k].seq
  <2>1. PICK e \in found : e.seq = truth[k].seq
    <3>1. CASE Of(mem) # {}
      BY <1>5, <3>1
    <3>2. CASE Of(mem) = {}
      <4>1. PICK e \in Stored : e.key = k /\ e.seq = truth[k].seq
        BY <1>8
      <4>2. e \in Versions(live)
        BY <3>2, <4>1 DEF Stored
      <4> QED BY <1>3, <3>2, <4>1, <4>2
    <3> QED BY <3>1, <3>2
  <2> HIDE DEF found
  <2>2. \A f \in Merged(found) : f.seq = truth[k].seq /\ f.del = truth[k].del
    <3> SUFFICES ASSUME NEW f \in Merged(found)
                 PROVE  f.seq = truth[k].seq /\ f.del = truth[k].del
      OBVIOUS
    <3>1. f \in found /\ e.seq <= f.seq /\ f \in Stored /\ f.key = k
      BY <1>4, <2>1 DEF Merged
    <3>2. f.seq = truth[k].seq
      BY <1>5, <1>6, <1>7, <2>1, <3>1
    <3>3. f.del = truth[k].del
      BY <1>5, <3>1, <3>2, Zenon
    <3> QED BY <3>2, <3>3, Zenon
  <2>3. e \in Merged(found)
    BY <1>4, <1>5, <2>1 DEF Merged
  <2>4. CASE truth[k].del
    BY <1>2, <2>2, <2>4
  <2>5. CASE ~truth[k].del
    <3>1. ~e.del
      BY <2>2, <2>3, <2>5
    <3>2. Get(k) = (CHOOSE f \in Merged(found) : ~f.del).seq
      BY <1>2, <2>3, <3>1
    <3>3. (CHOOSE f \in Merged(found) : ~f.del) \in Merged(found)
      BY <2>3, <3>1, Zenon
    <3> QED BY <2>2, <2>5, <3>2, <3>3
  <2> QED BY <2>4, <2>5
<1>9. CASE truth[k].del /\ \A e \in Stored : e.key # k
  <2> HIDE DEF found
  <2>1. found = {}
    BY <1>4, <1>9
  <2>2. Merged(found) = {}
    BY <2>1 DEF Merged
  <2> QED BY <1>2, <1>9, <2>2
<1> QED BY <1>5, <1>8, <1>9

\* A point read returns the newest write of its key and nothing for a deleted
\* key, wherever flushes, merges, moves, dropped tombstones, failed rounds and
\* restarts have put its versions, in every deployment: the only way to lose
\* one is a cached block of another table, given to a merge before or to this
\* read.
THEOREM ReadsAlwaysNewest == Spec => [](~mixed /\ BlocksOwn => ReadsNewest)
<1>1. StorageInv /\ ContentsInv /\ BlocksOwn => ReadsNewest
  BY GetNewest DEF ReadsNewest
<1> QED BY <1>1, StorageInvariant, ContentsInvariant, PTL

=============================================================================
