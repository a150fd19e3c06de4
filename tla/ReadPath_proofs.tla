---------------------------- MODULE ReadPath_proofs ----------------------------
(***************************************************************************)
(* Proofs about the read path: point reads see the last write, and scans   *)
(* that go on from page to page between writes and flushes send each item  *)
(* once, as it is in the store, and leave none out.                        *)
(***************************************************************************)
EXTENDS ReadPath, FiniteSetTheorems, SequenceTheorems, WellFoundedInduction, TLAPS

\* A non-empty set of numbers has a least element.
LEMMA LeastNumber ==
    ASSUME NEW S, S \subseteq Nat, S # {}
    PROVE  \E x \in S : \A y \in S : x <= y
<1> DEFINE Lower == OpToRel(<, Nat)
<1>1. PICK x \in S : \A y \in S : <<y, x>> \notin Lower
  BY NatLessThanWellFounded, WFMin
<1>2. Lower = {p \in Nat \X Nat : p[1] < p[2]}
  BY Zenon DEF OpToRel
<1> HIDE DEF Lower
<1>3. \A y \in S : ~(y < x)
  BY <1>1, <1>2
<1> QED BY <1>3

-----------------------------------------------------------------------------
(* Entries *)

\* What is known of an entry that is stored.
LEMMA EntryTypes ==
    ASSUME TypeOK
    PROVE  /\ \A n \in 1 .. Len(tables) : tables[n] \subseteq EntriesBefore(nextSeq)
           /\ Written \subseteq EntriesBefore(nextSeq)
           /\ \A e \in Written : /\ e.seq \in Nat /\ 0 < e.seq /\ e.seq < nextSeq
                                 /\ e.item \in Nat /\ e.end \in Nat
                                 /\ e.type \in {"put", "delete", "range"}
           /\ nextSeq \in Nat
<1>1. \A n \in 1 .. Len(tables) : tables[n] \in SUBSET EntriesBefore(nextSeq)
  BY ElementOfSeq DEF TypeOK
<1>2. Written \subseteq EntriesBefore(nextSeq)
  BY <1>1 DEF Written, InTables, TypeOK
<1>3. nextSeq \in Nat
  BY DEF TypeOK
<1>4. \A e \in EntriesBefore(nextSeq) : /\ e.seq \in Nat /\ 0 < e.seq /\ e.seq < nextSeq
                                        /\ e.item \in Nat /\ e.end \in Nat
                                        /\ e.type \in {"put", "delete", "range"}
  BY <1>3 DEF EntriesBefore
<1> QED BY <1>1, <1>2, <1>3, <1>4

\* The next write may use what earlier ones used.
LEMMA EntriesGrow ==
    ASSUME NEW n \in Nat \ {0}
    PROVE  /\ n + 1 \in Nat \ {0}
           /\ EntriesBefore(n) \subseteq EntriesBefore(n + 1)
           /\ 0 .. n - 1 \subseteq 0 .. (n + 1) - 1
<1>1. 1 .. n - 1 \subseteq 1 .. (n + 1) - 1
  OBVIOUS
<1> QED BY <1>1 DEF EntriesBefore

\* A memtable stays or becomes the last table.
LEMMA FlushedTables ==
    ASSUME TypeOK, NEW es, Flushed(es) \/ Flush(es),
           es \subseteq EntriesBefore(nextSeq + 1), reapplied \subseteq reapplied'
    PROVE  /\ tables' \in Seq(SUBSET EntriesBefore(nextSeq + 1))
           /\ mem' \subseteq EntriesBefore(nextSeq + 1)
           /\ \/ mem' = es /\ InTables' = InTables
              \/ mem' = {} /\ InTables' = InTables \cup es
           /\ Written' = es \cup InTables
           /\ Sure' \subseteq Sure
           /\ \A i \in Sure', s \in Nat : covers(mem', i, s) <=> covers(es, i, s)
<1>0. nextSeq \in Nat \ {0} /\ tables \in Seq(SUBSET EntriesBefore(nextSeq))
  BY DEF TypeOK
<1>1. tables \in Seq(SUBSET EntriesBefore(nextSeq + 1))
  <2>1. SUBSET EntriesBefore(nextSeq) \subseteq SUBSET EntriesBefore(nextSeq + 1)
    BY <1>0, EntriesGrow
  <2> QED BY <1>0, <2>1, SeqMonotonic
<1>2. CASE mem' = es /\ tables' = tables
  <2>1. InTables' = InTables /\ Unhidden' = Unhidden
    BY <1>2 DEF InTables, Unhidden, covers
  <2> QED BY <1>1, <1>2, <2>1 DEF Written, Sure
<1>3. CASE mem' = {} /\ tables' = Append(tables, es)
  <2>1. /\ tables' \in Seq(SUBSET EntriesBefore(nextSeq + 1))
        /\ Len(tables') = Len(tables) + 1 /\ Len(tables) \in Nat
        /\ tables'[Len(tables) + 1] = es
        /\ \A n \in 1 .. Len(tables) : tables'[n] = tables[n]
    BY <1>1, <1>3, AppendProperties, LenProperties
  <2>2. 1 .. Len(tables') = 1 .. Len(tables) \cup {Len(tables) + 1}
    BY <2>1
  <2>3. InTables' = InTables \cup es
    BY <2>1, <2>2 DEF InTables
  <2>4. Unhidden' = Unhidden \cup {i \in Items : covers(es, i, 0)}
    BY <2>1, <2>2 DEF Unhidden, covers
  <2>5. Sure' \subseteq Sure /\ \A i \in Sure' : ~covers(es, i, 0)
    BY <2>4 DEF Sure
  <2>6. \A t \in es : t.seq \in Nat
    BY <1>0 DEF EntriesBefore
  <2>7. \A i \in Sure', s \in Nat : ~covers(es, i, s)
    BY <2>5, <2>6 DEF covers
  <2>8. \A i \in Sure', s \in Nat : ~covers(mem', i, s)
    BY <1>3 DEF covers
  <2>9. mem' \subseteq EntriesBefore(nextSeq + 1)
    BY <1>3
  <2> QED BY <1>3, <2>1, <2>3, <2>5, <2>7, <2>8, <2>9 DEF Written
<1> QED BY <1>2, <1>3 DEF Flushed, Flush

-----------------------------------------------------------------------------
(* Writes and flushes *)

\* The entries after a write or a flush.
LEMMA EntriesKept ==
    ASSUME TypeOK, EntriesInv, NEW es, es = mem \/ \E e : es = mem \cup {e},
           Flushed(es) \/ Flush(es),
           \A e \in es \ mem : /\ e \in EntriesBefore(nextSeq + 1) /\ e.seq = nextSeq
                               /\ e.type # "range" => e.item \in Items,
           \A e, f \in es \ mem : e = f,
           reapplied \subseteq reapplied'
    PROVE  EntriesInv'
<1>1. nextSeq \in Nat \ {0} /\ mem \subseteq EntriesBefore(nextSeq)
  BY DEF TypeOK
<1>2. es \subseteq EntriesBefore(nextSeq + 1)
  BY <1>1, EntriesGrow
<1>3. /\ \/ mem' = es /\ InTables' = InTables
         \/ mem' = {} /\ InTables' = InTables \cup es
      /\ Written' = es \cup InTables
  BY <1>2, FlushedTables
<1>4. \A e \in Written : e.seq \in Nat /\ e.seq < nextSeq
  BY EntryTypes
<1>5. mem \subseteq Written /\ InTables \subseteq Written /\ Written' = Written \cup es
  BY <1>3 DEF Written
<1>6. IsFiniteSet(Written')
  <2>1. IsFiniteSet(Written)
    BY DEF EntriesInv
  <2>2. CASE es = mem
    BY <1>5, <2>1, <2>2
  <2>3. CASE \E e : es = mem \cup {e}
    <3>1. PICK e : es = mem \cup {e}
      BY <2>3
    <3>2. Written' = Written \cup {e}
      BY <1>5, <3>1
    <3> QED BY <2>1, <3>2, FS_AddElement
  <2> QED BY <2>2, <2>3
<1>7. ASSUME NEW e \in Written', NEW f \in Written', e.seq = f.seq PROVE e = f
  <2>1. CASE e \in Written /\ f \in Written
    BY <1>7, <2>1 DEF EntriesInv
  <2>2. CASE e \notin Written /\ f \notin Written
    BY <1>5, <2>2
  <2>3. CASE e \in Written /\ f \notin Written
    BY <1>1, <1>4, <1>5, <1>7, <2>3
  <2>4. CASE e \notin Written /\ f \in Written
    BY <1>1, <1>4, <1>5, <1>7, <2>4
  <2> QED BY <2>1, <2>2, <2>3, <2>4
<1>8. ASSUME NEW e \in InTables', NEW f \in mem' PROVE e.seq < f.seq
  <2>1. mem' = es /\ InTables' = InTables
    BY <1>3, <1>8
  <2>2. CASE f \in mem
    BY <1>8, <2>1, <2>2 DEF EntriesInv
  <2>3. CASE f \notin mem
    BY <1>4, <1>5, <1>8, <2>1, <2>3
  <2> QED BY <2>2, <2>3
<1>9. \A e \in Written' : e.type # "range" => e.item \in Items
  BY <1>5 DEF EntriesInv
<1> QED BY <1>6, <1>7, <1>8, <1>9 DEF EntriesInv

\* What a write makes of the store, item by item.
LEMMA WriteKept ==
    ASSUME TypeOK, EntriesInv, StoreInv, NEW e \in EntriesBefore(nextSeq + 1),
           e.seq = nextSeq, e.type # "range" => e.item \in Items,
           Flushed(mem \cup {e}), reapplied \subseteq reapplied',
           \A i \in Sure' :
              store'[i] =
                IF e.type # "range" /\ e.item = i
                THEN IF is_tombstone(e) THEN Absent ELSE nextSeq
                ELSE IF covers({e}, i, 0) THEN Absent ELSE store[i]
    PROVE  StoreInv'
<1> DEFINE es == mem \cup {e}
<1>0. nextSeq \in Nat \ {0} /\ es \subseteq EntriesBefore(nextSeq + 1)
  BY EntriesGrow DEF TypeOK
<1>1. /\ Written' = Written \cup {e}
      /\ Sure' \subseteq Sure
      /\ \A i \in Sure', s \in Nat : covers(mem', i, s) <=> covers(es, i, s)
  <2>1. Flushed(es) \/ Flush(es)
    OBVIOUS
  <2>2. Written' = es \cup InTables
    BY <1>0, <2>1, FlushedTables
  <2> HIDE DEF es
  <2>3. Sure' \subseteq Sure
        /\ \A i \in Sure', s \in Nat : covers(mem', i, s) <=> covers(es, i, s)
    BY <1>0, <2>1, FlushedTables
  <2> USE DEF es
  <2>4. Written' = Written \cup {e}
    BY <2>2 DEF Written
  <2> QED BY <2>3, <2>4
<1>2. \A f \in Written : f.seq \in Nat /\ f.seq < nextSeq
  BY EntryTypes
<1>3. \A i \in Sure', s \in Nat : covers(es, i, s) <=> covers(mem, i, s) \/ covers({e}, i, s)
  BY DEF covers
<1>4. \A i, s \in Nat : s < nextSeq => (covers({e}, i, s) <=> covers({e}, i, 0))
  BY <1>0 DEF covers
<1>5. Sure' \subseteq Items /\ Items \subseteq Nat
  BY ReadPathAssumption DEF Sure
<1> SUFFICES ASSUME NEW i \in Sure'
             PROVE  \/ Versions(Written', i) = {} /\ store'[i] = Absent
                    \/ \E f \in NewestOf(Versions(Written', i)) :
                         store'[i] = IF is_tombstone(f) \/ covers(mem', i, f.seq)
                                     THEN Absent ELSE f.seq
  BY DEF StoreInv, Versions, NewestOf, is_tombstone, covers
<1>6. CASE e.type # "range" /\ e.item = i
  <2>1. e \in Versions(Written', i) /\ Versions(Written', i) \subseteq Written \cup {e}
    BY <1>1, <1>6 DEF Versions
  <2>2. e \in NewestOf(Versions(Written', i))
    BY <1>0, <1>2, <2>1 DEF NewestOf
  <2>3. ~covers(mem', i, e.seq)
    <3>1. \A t \in es : t.seq \in Nat /\ t.seq <= nextSeq
      BY <1>0, <1>2 DEF Written
    <3>2. ~covers(es, i, nextSeq)
      <4> HIDE DEF es
      <4> QED BY <1>0, <3>1 DEF covers
    <3> QED BY <1>0, <1>1, <3>2
  <2>4. store'[i] = IF is_tombstone(e) THEN Absent ELSE e.seq
    BY <1>6
  <2> QED BY <2>2, <2>3, <2>4
<1>7. CASE ~(e.type # "range" /\ e.item = i)
  <2>1. Versions(Written', i) = Versions(Written, i)
    BY <1>1, <1>7 DEF Versions
  <2>2. store'[i] = IF covers({e}, i, 0) THEN Absent ELSE store[i]
    BY <1>7
  <2>3. CASE Versions(Written, i) = {} /\ store[i] = Absent
    BY <2>1, <2>2, <2>3
  <2>4. ASSUME NEW f \in NewestOf(Versions(Written, i)),
               store[i] = IF is_tombstone(f) \/ covers(mem, i, f.seq)
                          THEN Absent ELSE f.seq
        PROVE  store'[i] = IF is_tombstone(f) \/ covers(mem', i, f.seq)
                           THEN Absent ELSE f.seq
    <3>1. f.seq \in Nat /\ f.seq < nextSeq
      BY <1>2 DEF NewestOf, Versions
    <3>2. covers(mem', i, f.seq) <=> covers(mem, i, f.seq) \/ covers({e}, i, 0)
      BY <1>1, <1>3, <1>4, <1>5, <3>1
    <3> QED BY <2>2, <2>4, <3>2
  <2>5. \/ Versions(Written, i) = {} /\ store[i] = Absent
        \/ \E f \in NewestOf(Versions(Written, i)) :
             store[i] = IF is_tombstone(f) \/ covers(mem, i, f.seq)
                        THEN Absent ELSE f.seq
    BY <1>1 DEF StoreInv
  <2> QED BY <2>1, <2>3, <2>4, <2>5
<1> QED BY <1>6, <1>7

\* A scan in progress while something is written.
LEMMA ScanKept ==
    ASSUME TypeOK, ScanInv, Sure' \subseteq Sure,
           scan' = [scan EXCEPT !.always = @ \cap Present(store')]
    PROVE  ScanInv' /\ scan' \in [on : BOOLEAN, lo : Nat, hi : Nat, resume : Nat,
                                  sent : SUBSET Items, always : SUBSET Items]
<1>1. scan \in [on : BOOLEAN, lo : Nat, hi : Nat, resume : Nat,
                sent : SUBSET Items, always : SUBSET Items]
  BY DEF TypeOK
<1>2. /\ scan'.lo = scan.lo /\ scan'.hi = scan.hi /\ scan'.resume = scan.resume
      /\ scan'.sent = scan.sent /\ scan'.always = scan.always \cap Present(store')
  BY <1>1
<1>3. Present(store)' = Present(store')
  BY DEF Present
<1>4. ScanInv'
  BY <1>2, <1>3 DEF ScanInv
<1>5. scan' \in [on : BOOLEAN, lo : Nat, hi : Nat, resume : Nat,
                 sent : SUBSET Items, always : SUBSET Items]
  BY <1>1
<1> QED BY <1>4, <1>5

\* A write, with the flush it may bring about.
LEMMA ApplyKept ==
    ASSUME ReadInv, NEW e \in EntriesBefore(nextSeq + 1), NEW newStore,
           Apply(e, newStore), e.seq = nextSeq, e.type # "range" => e.item \in Items,
           newStore \in [Items -> 0 .. nextSeq], deleting' \subseteq Items,
           reapplied \subseteq reapplied',
           \A i \in Sure' :
              newStore[i] =
                IF e.type # "range" /\ e.item = i
                THEN IF is_tombstone(e) THEN Absent ELSE nextSeq
                ELSE IF covers({e}, i, 0) THEN Absent ELSE store[i]
    PROVE  ReadInv'
<1>0. TypeOK /\ EntriesInv /\ StoreInv /\ ScanInv /\ ScanSound /\ ScanComplete
  BY DEF ReadInv
<1>1. /\ nextSeq' = nextSeq + 1 /\ Flushed(mem \cup {e}) /\ store' = newStore
      /\ scan' = [scan EXCEPT !.always = @ \cap Present(newStore)]
      /\ outcome' = outcome
  BY DEF Apply
<1> DEFINE es == mem \cup {e}
<1>2. /\ nextSeq \in Nat \ {0} /\ nextSeq' \in Nat \ {0}
      /\ es \subseteq EntriesBefore(nextSeq + 1)
      /\ 0 .. nextSeq = 0 .. nextSeq' - 1
  BY <1>0, <1>1, EntriesGrow DEF TypeOK
<1>3. /\ Flushed(es) \/ Flush(es)
      /\ es = mem \/ \E f : es = mem \cup {f}
      /\ \A f \in es \ mem : /\ f \in EntriesBefore(nextSeq + 1) /\ f.seq = nextSeq
                             /\ f.type # "range" => f.item \in Items
      /\ \A f, g \in es \ mem : f = g
  BY <1>1
<1> HIDE DEF es
<1>4. /\ tables' \in Seq(SUBSET EntriesBefore(nextSeq'))
      /\ mem' \subseteq EntriesBefore(nextSeq') /\ Sure' \subseteq Sure
  BY <1>0, <1>1, <1>2, <1>3, FlushedTables
<1>5. EntriesInv'
  BY <1>0, <1>3, EntriesKept
<1>6. StoreInv'
  BY <1>0, <1>1, WriteKept
<1>7. ScanInv' /\ scan' \in [on : BOOLEAN, lo : Nat, hi : Nat, resume : Nat,
                             sent : SUBSET Items, always : SUBSET Items]
  BY <1>0, <1>1, <1>4, ScanKept
<1>8. TypeOK'
  BY <1>1, <1>2, <1>4, <1>7 DEF TypeOK
<1>9. ScanSound' /\ ScanComplete'
  BY <1>0, <1>1 DEF ScanSound, ScanComplete
<1> QED BY <1>5, <1>6, <1>7, <1>8, <1>9 DEF ReadInv

\* A put, applied for the first time or again.
LEMMA PutKept ==
    ASSUME ReadInv, NEW item \in Items, NEW token \in Tokens \cup {NoToken},
           Put(item, token)
    PROVE  ReadInv'
<1>0. TypeOK
  BY DEF ReadInv
<1> DEFINE e == Entry(item, "put", Unbounded, token)
           retry == token # NoToken /\ token_of[token] # Absent
           newStore == IF retry THEN store ELSE [store EXCEPT ![item] = nextSeq]
<1>1. /\ ~Known(token)
      /\ Apply(e, newStore)
      /\ reapplied' = IF retry /\ ~Known(token) THEN reapplied \cup {item} ELSE reapplied
      /\ deleting' = deleting
  BY DEF Put, check_dedup
<1>2. e.type = "put" /\ e.item = item /\ e.seq = nextSeq
  BY DEF Entry
<1>3. nextSeq \in Nat \ {0} /\ item \in Nat
  BY <1>0, ReadPathAssumption DEF TypeOK
<1>4. e \in EntriesBefore(nextSeq + 1)
  BY <1>3 DEF Entry, EntriesBefore, Unbounded
<1>5. store \in [Items -> 0 .. nextSeq - 1] /\ deleting' \subseteq Items
  BY <1>0, <1>1 DEF TypeOK
<1>6. newStore \in [Items -> 0 .. nextSeq]
  BY <1>3, <1>5
<1>7. reapplied \subseteq reapplied' /\ (retry => item \in reapplied')
  BY <1>1
<1>8. \A i \in Sure' : newStore[i] = IF i = item THEN nextSeq ELSE store[i]
  BY <1>5, <1>7 DEF Sure
<1> HIDE DEF e, newStore, retry
<1>9. \A i \in Sure' :
        newStore[i] =
          IF e.type # "range" /\ e.item = i
          THEN IF is_tombstone(e) THEN Absent ELSE nextSeq
          ELSE IF covers({e}, i, 0) THEN Absent ELSE store[i]
  BY <1>2, <1>8 DEF is_tombstone, covers
<1> QED BY <1>1, <1>2, <1>4, <1>5, <1>6, <1>7, <1>9, ApplyKept

\* The deletion of one key.
LEMMA DeleteNextKept ==
    ASSUME ReadInv, DeleteNext
    PROVE  ReadInv'
<1>0. TypeOK
  BY DEF ReadInv
<1>1. PICK item \in deleting : Delete(item) /\ deleting' = deleting \ {item}
  BY DEF DeleteNext
<1> DEFINE e == Entry(item, "delete", Unbounded, NoToken)
           newStore == [store EXCEPT ![item] = Absent]
<1>2. Apply(e, newStore) /\ reapplied' = reapplied
  BY <1>1 DEF Delete, DeleteNext
<1>3. e.type = "delete" /\ e.item = item /\ e.seq = nextSeq
  BY DEF Entry
<1>4. nextSeq \in Nat \ {0} /\ item \in Items /\ item \in Nat /\ deleting' \subseteq Items
  BY <1>0, <1>1, ReadPathAssumption DEF TypeOK
<1>5. e \in EntriesBefore(nextSeq + 1)
  BY <1>4 DEF Entry, EntriesBefore, Unbounded
<1>6. store \in [Items -> 0 .. nextSeq - 1]
  BY <1>0 DEF TypeOK
<1>7. newStore \in [Items -> 0 .. nextSeq]
  BY <1>4, <1>6 DEF Absent
<1>8. \A i \in Sure' : newStore[i] = IF i = item THEN Absent ELSE store[i]
  BY <1>6 DEF Sure
<1> HIDE DEF e, newStore
<1>9. \A i \in Sure' :
        newStore[i] =
          IF e.type # "range" /\ e.item = i
          THEN IF is_tombstone(e) THEN Absent ELSE nextSeq
          ELSE IF covers({e}, i, 0) THEN Absent ELSE store[i]
  BY <1>3, <1>8 DEF is_tombstone, covers
<1> QED BY <1>2, <1>3, <1>4, <1>5, <1>7, <1>9, ApplyKept

\* The deletion of a range.
LEMMA DeleteRangeKept ==
    ASSUME ReadInv, NEW start \in Nat, NEW end \in Nat, DeleteRange(start, end)
    PROVE  ReadInv'
<1>0. TypeOK
  BY DEF ReadInv
<1> DEFINE e == Entry(start, "range", end, NoToken)
           newStore == [i \in Items |-> IF start <= i /\ (end = Unbounded \/ i < end)
                                        THEN Absent ELSE store[i]]
<1>1. Apply(e, newStore) /\ deleting' = deleting /\ reapplied' = reapplied
  BY DEF DeleteRange
<1>2. e.type = "range" /\ e.item = start /\ e.end = end /\ e.seq = nextSeq
  BY DEF Entry
<1>3. nextSeq \in Nat \ {0} /\ deleting' \subseteq Items
  BY <1>0, <1>1 DEF TypeOK
<1>4. e \in EntriesBefore(nextSeq + 1)
  BY <1>3 DEF Entry, EntriesBefore
<1>5. store \in [Items -> 0 .. nextSeq - 1]
  BY <1>0 DEF TypeOK
<1>6. newStore \in [Items -> 0 .. nextSeq]
  BY <1>3, <1>5 DEF Absent
<1>7. \A i \in Sure' : newStore[i] = IF start <= i /\ (end = Unbounded \/ i < end)
                                     THEN Absent ELSE store[i]
  BY DEF Sure
<1> HIDE DEF e, newStore
<1>8. \A i \in Sure' :
        newStore[i] =
          IF e.type # "range" /\ e.item = i
          THEN IF is_tombstone(e) THEN Absent ELSE nextSeq
          ELSE IF covers({e}, i, 0) THEN Absent ELSE store[i]
  BY <1>2, <1>3, <1>7 DEF covers
<1> QED BY <1>1, <1>2, <1>3, <1>4, <1>6, <1>8, ApplyKept

\* A flush without a write.
LEMMA MaintenanceKept ==
    ASSUME ReadInv, Maintenance
    PROVE  ReadInv'
<1>0. TypeOK /\ EntriesInv /\ StoreInv /\ ScanInv /\ ScanSound /\ ScanComplete
  BY DEF ReadInv
<1>1. /\ mem' = {} /\ tables' = Append(tables, mem) /\ Flush(mem)
      /\ UNCHANGED <<nextSeq, deleting, scan, outcome, store, reapplied>>
  BY DEF Maintenance, Flush
<1>2. mem \subseteq EntriesBefore(nextSeq + 1) /\ nextSeq \in Nat \ {0}
  BY <1>0, EntriesGrow DEF TypeOK
<1>3. /\ Written' = mem \cup InTables /\ Sure' \subseteq Sure
      /\ \A i \in Sure', s \in Nat : covers(mem', i, s) <=> covers(mem, i, s)
  BY <1>0, <1>1, <1>2, FlushedTables
<1>4. EntriesInv'
  <2> DEFINE es == mem
  <2>1. es = mem /\ \A e \in es \ mem : FALSE
    OBVIOUS
  <2> QED BY <1>0, <1>1, <2>1, EntriesKept
<1>5. Written' = Written
  BY <1>3 DEF Written
<1>6. StoreInv'
  <2> SUFFICES ASSUME NEW i \in Sure'
               PROVE  \/ Versions(Written, i) = {} /\ store[i] = Absent
                      \/ \E f \in NewestOf(Versions(Written, i)) :
                           store[i] = IF is_tombstone(f) \/ covers(mem', i, f.seq)
                                      THEN Absent ELSE f.seq
    BY <1>1, <1>5 DEF StoreInv, Versions, NewestOf, is_tombstone, covers
  <2>1. \A f \in NewestOf(Versions(Written, i)) : f.seq \in Nat
    BY <1>0, EntryTypes DEF NewestOf, Versions
  <2>2. i \in Sure
    BY <1>3
  <2> QED BY <1>0, <1>3, <2>1, <2>2 DEF StoreInv
<1>7. ScanInv'
  BY <1>0, <1>1, <1>3 DEF ScanInv, Present
<1>8. TypeOK'
  <2>1. tables' \in Seq(SUBSET EntriesBefore(nextSeq))
    <3>1. tables \in Seq(SUBSET EntriesBefore(nextSeq)) /\ mem \in SUBSET EntriesBefore(nextSeq)
      BY <1>0 DEF TypeOK
    <3> QED BY <1>1, <3>1, AppendProperties
  <2> QED BY <1>0, <1>1, <2>1 DEF TypeOK
<1>9. ScanSound' /\ ScanComplete'
  BY <1>0, <1>1 DEF ScanSound, ScanComplete
<1> QED BY <1>4, <1>6, <1>7, <1>8, <1>9 DEF ReadInv

-----------------------------------------------------------------------------
(* Reads *)

\* What the sources of a read hold of an item, but for what the blocks it does
\* not look into have.
InTablesOf(i, h) == Versions(InTables, i) \ h
FoundOf(i, h) == mem_get(i) \cup InTablesOf(i, h)

\* The memtable's answer is newer than every table's.
LEMMA NewestFound ==
    ASSUME TypeOK, EntriesInv, NEW i \in Items, NEW h
    PROVE  /\ NewestOf(FoundOf(i, h)) =
                IF mem_get(i) # {} THEN mem_get(i) ELSE NewestOf(InTablesOf(i, h))
           /\ FoundOf(i, h) \subseteq Written
           /\ \A e \in FoundOf(i, h) : e.item = i /\ e.type # "range"
           /\ \A e, f \in NewestOf(FoundOf(i, h)) : e = f
<1>1. /\ mem_get(i) \subseteq mem /\ InTablesOf(i, h) \subseteq InTables
      /\ \A e \in FoundOf(i, h) : e.item = i /\ e.type # "range"
  BY DEF mem_get, NewestOf, Versions, FoundOf, InTablesOf
<1>2. FoundOf(i, h) \subseteq Written
  BY <1>1 DEF FoundOf, Written
<1>3. /\ \A e \in InTables, f \in mem : e.seq < f.seq
      /\ \A e, f \in Written : e.seq = f.seq => e = f
  BY DEF EntriesInv
<1>4. \A e \in Written : e.seq \in Nat
  BY EntryTypes
<1>5. \A e, f \in NewestOf(FoundOf(i, h)) : e = f
  <2> SUFFICES ASSUME NEW e \in NewestOf(FoundOf(i, h)), NEW f \in NewestOf(FoundOf(i, h))
               PROVE  e = f
    OBVIOUS
  <2>1. e \in Written /\ f \in Written /\ e.seq <= f.seq /\ f.seq <= e.seq
    BY <1>2 DEF NewestOf
  <2>2. e.seq = f.seq
    BY <1>4, <2>1
  <2> QED BY <1>3, <2>1, <2>2
<1>6. CASE mem_get(i) = {}
  BY <1>1, <1>2, <1>5, <1>6 DEF FoundOf
<1>7. CASE mem_get(i) # {}
  <2>1. \A e, f \in mem_get(i) : e.seq <= f.seq
    BY DEF mem_get, NewestOf
  <2>2. mem_get(i) \subseteq NewestOf(FoundOf(i, h))
    <3> SUFFICES ASSUME NEW e \in mem_get(i), NEW f \in FoundOf(i, h) PROVE f.seq <= e.seq
      BY DEF NewestOf, FoundOf
    <3>1. CASE f \in mem_get(i)
      BY <2>1, <3>1
    <3>2. CASE f \in InTablesOf(i, h)
      <4>1. f.seq < e.seq /\ f \in Written /\ e \in Written
        BY <1>1, <1>2, <1>3, <3>2 DEF FoundOf
      <4> QED BY <1>4, <4>1
    <3> QED BY <3>1, <3>2 DEF FoundOf
  <2>3. NewestOf(FoundOf(i, h)) = mem_get(i)
    BY <1>5, <1>7, <2>2
  <2> QED BY <1>1, <1>2, <1>5, <1>7, <2>3
<1> QED BY <1>6, <1>7

\* What a read sees of an item it can be sure of, in the blocks that have the
\* newest version, is what the store holds.
LEMMA View ==
    ASSUME TypeOK, EntriesInv, StoreInv, NEW i \in Sure, NEW h,
           NewestOf(Versions(Written, i)) \cap h = {}
    PROVE  /\ \A e \in NewestOf(FoundOf(i, h)) : Visible(e) => store[i] = e.seq
           /\ store[i] # Absent => \E e \in NewestOf(FoundOf(i, h)) : Visible(e)
<1>0. i \in Items
  BY DEF Sure
<1>1. \A e \in Written : e.seq \in Nat /\ 0 < e.seq
  BY EntryTypes
<1>2. /\ \A e \in InTables, f \in mem : e.seq < f.seq
      /\ \A e, f \in Written : e.seq = f.seq => e = f
  BY DEF EntriesInv
<1>3. /\ mem \subseteq Written /\ InTables \subseteq Written
      /\ Versions(Written, i) \ h \subseteq Versions(mem, i) \cup InTablesOf(i, h)
      /\ Versions(mem, i) \subseteq Versions(Written, i)
      /\ InTablesOf(i, h) \subseteq Versions(Written, i)
      /\ Versions(mem, i) \subseteq mem /\ InTablesOf(i, h) \subseteq InTables
      /\ Versions(Written, i) \subseteq Written
  BY DEF Written, Versions, InTablesOf
<1>4. /\ FoundOf(i, h) \subseteq Versions(Written, i)
      /\ \A e \in FoundOf(i, h) : e.item = i
  BY <1>3 DEF FoundOf, mem_get, NewestOf, Versions, InTablesOf
<1>5. \A e \in FoundOf(i, h) : Visible(e) <=> ~is_tombstone(e) /\ ~covers(mem, i, e.seq)
  BY <1>4 DEF Visible, collector_covers
<1>6. CASE Versions(Written, i) = {} /\ store[i] = Absent
  BY <1>4, <1>6 DEF NewestOf
<1>7. ASSUME NEW v \in NewestOf(Versions(Written, i)),
             store[i] = IF is_tombstone(v) \/ covers(mem, i, v.seq) THEN Absent ELSE v.seq
      PROVE  /\ \A e \in NewestOf(FoundOf(i, h)) : Visible(e) => store[i] = e.seq
             /\ store[i] # Absent => \E e \in NewestOf(FoundOf(i, h)) : Visible(e)
  <2>1. v \in Versions(Written, i) /\ v \in Written
        /\ \A f \in Versions(Written, i) : f.seq <= v.seq
    BY <1>3, <1>7 DEF NewestOf
  <2>2. CASE v \in FoundOf(i, h)
    <3>1. v \in NewestOf(FoundOf(i, h))
      BY <1>4, <2>1, <2>2 DEF NewestOf
    <3>2. \A e \in NewestOf(FoundOf(i, h)) : e = v
      BY <1>0, <3>1, NewestFound
    <3> QED BY <1>5, <1>7, <2>2, <3>1, <3>2
  <2>3. CASE v \notin FoundOf(i, h)
    <3>1. v \in Versions(mem, i)
      BY <1>3, <1>7, <2>1, <2>3 DEF FoundOf
    <3>2. v \in NewestOf(Versions(mem, i))
      BY <1>3, <2>1, <3>1 DEF NewestOf
    <3>3. covers(mem, i, v.seq)
      BY <2>3, <3>2 DEF FoundOf, mem_get
    <3>4. store[i] = Absent
      BY <1>7, <3>3
    <3>5. PICK t \in mem : /\ t.type = "range" /\ t.item <= i
                           /\ t.end = Unbounded \/ i < t.end
                           /\ t.seq > v.seq
      BY <3>3 DEF covers
    <3>6. ASSUME NEW e \in FoundOf(i, h) PROVE covers(mem, i, e.seq)
      <4>1. e.seq <= v.seq /\ e \in Written /\ t \in Written
        BY <1>3, <1>4, <2>1
      <4>2. t.seq > e.seq
        BY <1>1, <2>1, <3>5, <4>1
      <4> QED BY <3>5, <4>2 DEF covers
    <3> QED BY <1>5, <3>4, <3>6 DEF NewestOf
  <2> QED BY <2>2, <2>3
<1> QED BY <1>6, <1>7 DEF StoreInv

\* The answer of a point read that has searched all tables.
LEMMA AnswerFresh ==
    ASSUME TypeOK, EntriesInv, StoreInv, NEW i \in Sure, NEW h,
           NewestOf(Versions(Written, i)) \cap h = {},
           NEW found, found = InTablesOf(i, h)
    PROVE  Answer(i, found) = store[i]
<1>0. i \in Items
  BY DEF Sure
<1> DEFINE best == IF mem_get(i) # {} THEN mem_get(i) ELSE NewestOf(found)
<1>1. best = NewestOf(FoundOf(i, h))
  BY <1>0, NewestFound
<1>2. Answer(i, found) =
        IF \E e \in best : ~is_tombstone(e) /\ ~range_tombstone_covers(i, e.seq)
        THEN (CHOOSE e \in best : TRUE).seq ELSE Absent
  BY Zenon DEF Answer
<1> HIDE DEF best
<1>3. \A e \in best : Visible(e) <=> ~is_tombstone(e) /\ ~range_tombstone_covers(i, e.seq)
  <2>1. \A e \in best : e.item = i
    BY <1>0, <1>1, NewestFound DEF NewestOf
  <2> QED BY <2>1 DEF Visible, collector_covers, range_tombstone_covers
<1>4. CASE \E e \in best : Visible(e)
  <2>1. PICK e \in best : Visible(e)
    BY <1>4
  <2>2. (CHOOSE f \in best : TRUE) \in best
    BY <2>1, Zenon
  <2>3. (CHOOSE f \in best : TRUE) = e
    BY <1>0, <1>1, <2>1, <2>2, NewestFound
  <2>4. store[i] = e.seq
    BY <1>1, <2>1, View
  <2> QED BY <1>2, <1>3, <2>1, <2>3, <2>4
<1>5. CASE ~\E e \in best : Visible(e)
  BY <1>1, <1>2, <1>3, <1>5, View
<1> QED BY <1>4, <1>5

\* Point reads see the last write.
LEMMA PointReads == ASSUME ReadInv PROVE PointReadsFresh
<1>0. TypeOK /\ EntriesInv /\ StoreInv
  BY DEF ReadInv
<1> SUFFICES ASSUME NEW i \in Sure \ Buried
             PROVE  /\ multi_get(Sure)[i] = store[i]
                    /\ Cardinality(Fetched(Len(tables))) <= Budget => get(i) = store[i]
  BY DEF PointReadsFresh
<1>1. InTablesOf(i, split) = UNION {handle_get(n, i) : n \in 1 .. Len(tables)}
  BY DEF InTablesOf, InTables, Versions, handle_get
<1>2. NewestOf(Versions(Written, i)) \cap split = {}
  BY DEF Buried, Written, InTables, Sure
<1>3. point_read(i) = store[i]
  BY <1>0, <1>1, <1>2, AnswerFresh DEF point_read
<1>4. ASSUME Cardinality(Fetched(Len(tables))) <= Budget PROVE get(i) = store[i]
  <2>0. Len(tables) \in Nat /\ Budget \in Nat
    BY <1>0, LenProperties, ReadPathAssumption DEF TypeOK
  <2>1. IsFiniteSet(Fetched(Len(tables)))
    <3>1. IsFiniteSet(1 .. Len(tables)) /\ Fetched(Len(tables)) \subseteq 1 .. Len(tables)
      BY <2>0, FS_Interval DEF Fetched
    <3> QED BY <3>1, FS_Subset
  <2>2. ASSUME NEW n \in 1 .. Len(tables), NEW j \in Fetched(n)
        PROVE  Cardinality(Fetched(j - 1)) < Budget
    <3>1. j \in Nat /\ 1 <= j /\ j <= Len(tables) /\ j \notin cached
      BY <2>0 DEF Fetched
    <3>2. /\ Fetched(j - 1) \subseteq Fetched(Len(tables))
          /\ j \in Fetched(Len(tables)) /\ j \notin Fetched(j - 1)
      BY <2>0, <3>1 DEF Fetched
    <3>3. /\ Cardinality(Fetched(j - 1)) < Cardinality(Fetched(Len(tables)))
          /\ Cardinality(Fetched(j - 1)) \in Nat
          /\ Cardinality(Fetched(Len(tables))) \in Nat
      <4>1. Fetched(j - 1) # Fetched(Len(tables))
        BY <3>2
      <4> QED BY <2>1, <3>2, <4>1, FS_Subset, FS_CardinalityType
    <3> QED BY <1>4, <2>0, <3>3
  <2>3. Reached = 1 .. Len(tables)
    BY <2>2 DEF Reached, try_spend
  <2> QED BY <1>0, <1>1, <1>2, <2>3, AnswerFresh DEF get
<1> QED BY <1>3, <1>4 DEF multi_get

-----------------------------------------------------------------------------
(* Scans *)

\* What the blocks a scan skips have of an item.
SkippedOf(i, lo) == IF i = lo THEN split ELSE {}

\* The merge iterator yields for every item of the range what a point read
\* finds first, and of the first item what a search for it finds.
LEMMA MergedItems ==
    ASSUME TypeOK, EntriesInv, NEW lo \in Nat, NEW hi \in Nat
    PROVE  \A e : e \in Merged(lo, hi) <=>
                    /\ e.item \in Items /\ lo <= e.item /\ e.item < hi
                    /\ e \in NewestOf(FoundOf(e.item, SkippedOf(e.item, lo)))
<1> DEFINE R == {j \in Items : lo <= j /\ j < hi}
           all == scan_with_tombstones(lo, hi) \cup
                  UNION {handle_scan(n, lo, hi) : n \in 1..Len(tables)}
<1>1. Merged(lo, hi) = {e \in all : \A f \in all : f.item = e.item => f.seq <= e.seq}
  BY Zenon DEF Merged
<1>2. \A e \in InTables : e.type # "range" => e.item \in Items
  BY DEF EntriesInv, Written
<1>3. \A i \in R : \A e \in FoundOf(i, SkippedOf(i, lo)) : e.item = i
  BY NewestFound
<1>4. \A e : e \in all <=> e.item \in R /\ e \in FoundOf(e.item, SkippedOf(e.item, lo))
  <2>1. \A e : e \in scan_with_tombstones(lo, hi) <=> \E i \in R : e \in mem_get(i)
    BY DEF scan_with_tombstones
  <2>2. \A e : e \in UNION {handle_scan(n, lo, hi) : n \in 1..Len(tables)}
               <=> /\ e \in InTables /\ e.type # "range" /\ lo <= e.item /\ e.item < hi
                   /\ e \notin SkippedOf(e.item, lo)
    BY DEF InTables, handle_scan, SkippedOf
  <2>3. \A e : /\ e \in InTables /\ e.type # "range" /\ lo <= e.item /\ e.item < hi
               /\ e \notin SkippedOf(e.item, lo)
               <=> e.item \in R /\ e \in InTablesOf(e.item, SkippedOf(e.item, lo))
    BY <1>2 DEF InTablesOf, Versions
  <2>4. \A e : (\E i \in R : e \in mem_get(i)) <=> e.item \in R /\ e \in mem_get(e.item)
    BY <1>3 DEF FoundOf
  <2>5. \A e : e \in all <=> \/ e.item \in R /\ e \in mem_get(e.item)
                             \/ e.item \in R /\ e \in InTablesOf(e.item, SkippedOf(e.item, lo))
    BY <2>1, <2>2, <2>3, <2>4
  <2> HIDE DEF all, R
  <2> QED BY <2>5 DEF FoundOf
<1> HIDE DEF all
<1>5. \A e : e \in Merged(lo, hi) <=> e.item \in R /\ e \in NewestOf(FoundOf(e.item, SkippedOf(e.item, lo)))
  <2> HIDE DEF R
  <2> QED BY <1>1, <1>3, <1>4 DEF NewestOf
<1> QED BY <1>5

\* The first entries of a set: a page.
PageOf(V) == {e \in V : Cardinality({f \in V : f.item < e.item}) < PageSize}

\* A page of a finite set holds the first entries without a gap, all of them
\* when it is short, and has a last one.
LEMMA FirstPage ==
    ASSUME NEW V, IsFiniteSet(V), \A e \in V : e.item \in Nat
    PROVE  /\ IsFiniteSet(PageOf(V))
           /\ \A e \in PageOf(V), f \in V : f.item <= e.item => f \in PageOf(V)
           /\ Cardinality(PageOf(V)) < PageSize => PageOf(V) = V
           /\ PageOf(V) # {} =>
                \E e \in PageOf(V) : \A f \in PageOf(V) : f.item <= e.item
<1> DEFINE Before(e) == {f \in V : f.item < e.item}
           rank(e) == Cardinality(Before(e))
<1>0. PageSize \in Nat \ {0}
  BY ReadPathAssumption
<1>1. \A e \in V : IsFiniteSet(Before(e)) /\ rank(e) \in Nat
  <2> SUFFICES ASSUME NEW e \in V PROVE IsFiniteSet(Before(e)) /\ rank(e) \in Nat
    OBVIOUS
  <2>1. Before(e) \subseteq V
    OBVIOUS
  <2> HIDE DEF Before
  <2> QED BY <2>1, FS_Subset, FS_CardinalityType
<1>2. PageOf(V) = {e \in V : rank(e) < PageSize}
  BY DEF PageOf
<1>3. PageOf(V) \subseteq V /\ IsFiniteSet(PageOf(V)) /\ Cardinality(PageOf(V)) \in Nat
  <2>1. PageOf(V) \subseteq V
    BY DEF PageOf
  <2> QED BY <2>1, FS_Subset, FS_CardinalityType
<1>4. ASSUME NEW e \in V, NEW f \in V, f.item <= e.item PROVE rank(f) <= rank(e)
  <2>1. Before(f) \subseteq Before(e)
    BY <1>4
  <2>2. IsFiniteSet(Before(e))
    BY <1>1
  <2> HIDE DEF Before
  <2> QED BY <2>1, <2>2, FS_Subset
<1>5. ASSUME NEW e \in V, NEW f \in V, e.item < f.item PROVE rank(e) < rank(f)
  <2>1. Before(e) \subseteq Before(f) /\ e \in Before(f) /\ e \notin Before(e)
    BY <1>5
  <2>2. IsFiniteSet(Before(f)) /\ rank(e) \in Nat /\ rank(f) \in Nat
    BY <1>1
  <2>3. Before(e) # Before(f)
    BY <2>1
  <2> HIDE DEF Before
  <2> QED BY <2>1, <2>2, <2>3, FS_Subset
<1> HIDE DEF rank, Before
<1>6. ASSUME NEW e \in PageOf(V), NEW f \in V, f.item <= e.item PROVE f \in PageOf(V)
  BY <1>0, <1>1, <1>2, <1>4, <1>6
<1>7. ASSUME Cardinality(PageOf(V)) < PageSize, PageOf(V) # V PROVE FALSE
  <2> DEFINE Rest == {e.item : e \in V \ PageOf(V)}
  <2>1. Rest \subseteq Nat /\ Rest # {}
    BY <1>3, <1>7
  <2>2. PICK x \in Rest : \A y \in Rest : x <= y
    <3> HIDE DEF Rest
    <3> QED BY <2>1, LeastNumber
  <2>3. PICK e \in V \ PageOf(V) : e.item = x
    OBVIOUS
  <2>4. \A f \in V : f.item < e.item => f \in PageOf(V)
    BY <2>2, <2>3
  <2>5. Before(e) \subseteq PageOf(V)
    BY <2>4 DEF Before
  <2>6. rank(e) <= Cardinality(PageOf(V))
    BY <1>3, <2>5, FS_Subset DEF rank
  <2>7. ~(rank(e) < PageSize)
    BY <1>2, <2>3
  <2>8. rank(e) \in Nat
    BY <1>1, <2>3
  <2> QED BY <1>0, <1>3, <1>7, <2>6, <2>7, <2>8
<1>8. ASSUME PageOf(V) # {}
      PROVE  \E e \in PageOf(V) : \A f \in PageOf(V) : f.item <= e.item
  <2> DEFINE Left == {PageSize - rank(e) : e \in PageOf(V)}
  <2>1. \A e \in PageOf(V) : rank(e) \in Nat /\ PageSize - rank(e) \in Nat
    BY <1>0, <1>1, <1>2
  <2>2. Left \subseteq Nat /\ Left # {}
    BY <1>8, <2>1
  <2>3. PICK x \in Left : \A y \in Left : x <= y
    <3> HIDE DEF Left
    <3> QED BY <2>2, LeastNumber
  <2>4. PICK e \in PageOf(V) : x = PageSize - rank(e)
    OBVIOUS
  <2>5. ASSUME NEW f \in PageOf(V) PROVE rank(f) <= rank(e)
    <3>1. PageSize - rank(e) <= PageSize - rank(f)
      BY <2>3, <2>4
    <3>2. rank(e) \in Nat /\ rank(f) \in Nat
      BY <2>1
    <3> QED BY <1>0, <3>1, <3>2
  <2>6. ASSUME NEW f \in PageOf(V) PROVE f.item <= e.item
    <3> SUFFICES ASSUME e.item < f.item PROVE FALSE
      BY <1>3
    <3>1. rank(e) < rank(f)
      BY <1>3, <1>5
    <3> QED BY <2>1, <2>5, <3>1
  <2> QED BY <2>6
<1> QED BY <1>3, <1>6, <1>7, <1>8

\* A page of what is left of a range, and the last item of the page unless
\* nothing comes after it; h is what the blocks skipped have of the first item.
PageIs(r, lo, hi, resume, h) ==
    /\ \A e \in r.page : /\ e.item \in Items /\ resume < e.item /\ Visible(e)
                         /\ e \in NewestOf(FoundOf(e.item, IF e.item = lo THEN h ELSE {}))
    /\ r.next # Absent =>
         /\ r.next \in Items /\ resume < r.next
         /\ \A e \in r.page : e.item <= r.next
    /\ \A i \in Items : \A e :
         /\ lo <= i /\ i < hi /\ resume < i /\ (r.next # Absent => i <= r.next)
         /\ e \in NewestOf(FoundOf(i, IF i = lo THEN h ELSE {})) /\ Visible(e)
         => e \in r.page

\* What range_read returns.
LEMMA PageRead ==
    ASSUME TypeOK, EntriesInv, NEW lo \in Nat, NEW hi \in Nat, NEW resume \in Nat,
           NEW r, r = range_read(lo, hi, resume), NEW h,
           h = IF resume = Absent THEN split ELSE {}
    PROVE  PageIs(r, lo, hi, resume, h)
<1> DEFINE from == IF resume = Absent THEN lo ELSE resume
           merged == Merged(from, hi)
           visible == {e \in NotYetRead(merged, resume) : Visible(e)}
           page == PageOf(visible)
           exhausted == \/ Cardinality(page) < PageSize
                        \/ \A e \in merged : e.item <= LastItem(page)
<1>1. r = [page |-> page, next |-> IF exhausted THEN Absent ELSE LastItem(page)]
  BY Zenon DEF range_read, PageOf, NextToken
<1>2. from \in Nat /\ from <= IF resume < lo THEN lo ELSE resume
  BY DEF Absent
<1>16. \A i : i \in Nat /\ resume < i => SkippedOf(i, from) = IF i = lo THEN h ELSE {}
  BY DEF SkippedOf
<1> HIDE DEF from
<1>3. \A e : e \in merged <=> /\ e.item \in Items /\ from <= e.item /\ e.item < hi
                              /\ e \in NewestOf(FoundOf(e.item, SkippedOf(e.item, from)))
  BY <1>2, MergedItems
<1> HIDE DEF merged
<1>4. \A e : e \in visible <=> e \in merged /\ e.item > resume /\ Visible(e)
  BY DEF NotYetRead
<1> HIDE DEF visible
<1>5. \A e \in visible : e.item \in Nat /\ e.item \in Items /\ e.item # Absent
  BY <1>3, <1>4, ReadPathAssumption DEF Absent
<1>6. IsFiniteSet(visible)
  <2>1. visible \subseteq Written
    BY <1>3, <1>4, NewestFound DEF NewestOf
  <2>2. IsFiniteSet(Written)
    BY DEF EntriesInv
  <2> QED BY <2>1, <2>2, FS_Subset
<1>7. /\ page \subseteq visible /\ IsFiniteSet(page)
      /\ \A e \in page, f \in visible : f.item <= e.item => f \in page
      /\ Cardinality(page) < PageSize => page = visible
      /\ page # {} => \E e \in page : \A f \in page : f.item <= e.item
  <2>1. page \subseteq visible
    BY DEF PageOf
  <2> QED BY <1>5, <1>6, <2>1, FirstPage
<1> HIDE DEF page
<1>8. ASSUME page # {}
      PROVE  \E e \in page : e.item = LastItem(page) /\ \A f \in page : f.item <= e.item
  <2>1. PICK e \in page : \A f \in page : f.item <= e.item
    BY <1>7, <1>8
  <2> DEFINE Top(i) == \E g \in page : g.item = i /\ \A f \in page : f.item <= i
  <2>2. e.item \in Items /\ Top(e.item)
    BY <1>5, <1>7, <2>1
  <2>3. LastItem(page) = CHOOSE i \in Items : Top(i)
    BY Zenon DEF LastItem
  <2>4. Top(LastItem(page))
    <3> HIDE DEF Top
    <3> QED BY <2>2, <2>3
  <2> QED BY <2>4
<1>9. ~(Cardinality(page) < PageSize) => page # {}
  <2> SUFFICES ASSUME page = {} PROVE Cardinality(page) < PageSize
    OBVIOUS
  <2>1. Cardinality(page) = 0 /\ PageSize \in Nat \ {0}
    BY FS_EmptySet, ReadPathAssumption
  <2> QED BY <2>1
<1>10. /\ r.page = page
       /\ r.next = IF exhausted THEN Absent ELSE LastItem(page)
  BY <1>1
<1>11. r.next # Absent => ~exhausted /\ r.next = LastItem(page)
  BY <1>10
<1>12. r.next = Absent => exhausted
  <2> SUFFICES ASSUME ~exhausted, LastItem(page) = Absent PROVE FALSE
    BY <1>10
  <2>1. PICK e \in page : e.item = LastItem(page)
    BY <1>8, <1>9
  <2> QED BY <1>5, <1>7, <2>1
<1>13. \A e \in page : /\ e.item \in Items /\ resume < e.item /\ Visible(e)
                       /\ e \in NewestOf(FoundOf(e.item, IF e.item = lo THEN h ELSE {}))
  <2> SUFFICES ASSUME NEW e \in page
               PROVE  /\ e.item \in Items /\ resume < e.item /\ Visible(e)
                      /\ e \in NewestOf(FoundOf(e.item, IF e.item = lo THEN h ELSE {}))
    OBVIOUS
  <2>1. /\ e.item \in Items /\ e.item \in Nat /\ resume < e.item /\ Visible(e)
        /\ e \in NewestOf(FoundOf(e.item, SkippedOf(e.item, from)))
    BY <1>3, <1>4, <1>5, <1>7
  <2>2. SkippedOf(e.item, from) = IF e.item = lo THEN h ELSE {}
    BY <1>16, <2>1
  <2> QED BY <2>1, <2>2
<1>14. ASSUME r.next # Absent
       PROVE  /\ r.next \in Items /\ resume < r.next
              /\ \A e \in page : e.item <= r.next
  <2>1. PICK e \in page : e.item = LastItem(page) /\ \A f \in page : f.item <= e.item
    BY <1>8, <1>9, <1>11, <1>14
  <2> QED BY <1>11, <1>13, <1>14, <2>1
<1>15. ASSUME NEW i \in Items, NEW e,
              lo <= i, i < hi, resume < i, r.next # Absent => i <= r.next,
              e \in NewestOf(FoundOf(i, IF i = lo THEN h ELSE {})), Visible(e)
       PROVE  e \in page
  <2>1. i \in Nat /\ e.item = i
    BY <1>15, NewestFound, ReadPathAssumption DEF NewestOf
  <2>2. from <= i
    BY <1>2, <1>15, <2>1
  <2>3. e \in merged
    <3>1. SkippedOf(i, from) = IF i = lo THEN h ELSE {}
      BY <1>15, <1>16, <2>1
    <3> QED BY <1>3, <1>15, <2>1, <2>2, <3>1
  <2>4. e \in visible
    BY <1>4, <1>15, <2>1, <2>3
  <2>5. CASE Cardinality(page) < PageSize
    BY <1>7, <2>4, <2>5
  <2>6. CASE ~(Cardinality(page) < PageSize)
    <3>1. PICK g \in page : g.item = LastItem(page) /\ \A f \in page : f.item <= g.item
      BY <1>8, <1>9, <2>6
    <3>2. i <= LastItem(page)
      BY <1>11, <1>12, <1>15, <2>1, <2>3, <2>6
    <3> QED BY <1>7, <2>1, <2>4, <3>1, <3>2
  <2> QED BY <2>5, <2>6
<1> QED BY <1>10, <1>13, <1>14, <1>15 DEF PageIs

\* A page continues the scan: nothing it sends was sent before or is stale,
\* and the scan has left out nothing up to the point where it goes on.
LEMMA ScanPageKept ==
    ASSUME ReadInv, ScanPage
    PROVE  ReadInv'
<1>0. TypeOK /\ EntriesInv /\ StoreInv /\ ScanInv /\ ScanSound /\ ScanComplete
  BY DEF ReadInv
<1>1. UNCHANGED <<mem, tables, split, nextSeq, deleting, store, reapplied>>
  BY DEF ScanPage
<1>2. PICK r : r = range_read(scan.lo, scan.hi, scan.resume)
  OBVIOUS
<1>3. /\ scan' = IF r.next = Absent THEN NoScan
                 ELSE [scan EXCEPT !.sent = @ \cup Sent(r.page), !.resume = r.next,
                                   !.always = @ \ Beyond]
      /\ outcome'.again = outcome.again \cup
             {e \in r.page : \E i \in scan.sent : e.item <= i}
      /\ outcome'.stale = outcome.stale \cup
             {e \in r.page : e.item \in Sure \ Beyond /\ e.seq # store[e.item]}
      /\ outcome'.missed = outcome.missed \cup
             IF r.next # Absent THEN {}
             ELSE {i \in (scan.always \cap Sure) \ (Beyond \cup scan.sent \cup Sent(r.page)) :
                      scan.lo <= i /\ i < scan.hi}
  BY <1>2 DEF ScanPage
<1>4. scan \in [on : BOOLEAN, lo : Nat, hi : Nat, resume : Nat,
                sent : SUBSET Items, always : SUBSET Items]
  BY <1>0 DEF TypeOK
<1>5. /\ scan.lo \in Nat /\ scan.hi \in Nat /\ scan.resume \in Nat
      /\ scan.sent \subseteq Items /\ scan.always \subseteq Items /\ Items \subseteq Nat
  BY <1>4, ReadPathAssumption
<1> DEFINE h == IF scan.resume = Absent THEN split ELSE {}
           Skipped(i) == IF i = scan.lo THEN h ELSE {}
<1>6. /\ \A e \in r.page : /\ e.item \in Items /\ scan.resume < e.item /\ Visible(e)
                           /\ e \in NewestOf(FoundOf(e.item, Skipped(e.item)))
      /\ r.next # Absent =>
           /\ r.next \in Items /\ scan.resume < r.next
           /\ \A e \in r.page : e.item <= r.next
      /\ \A i \in Items : \A e :
           /\ scan.lo <= i /\ i < scan.hi /\ scan.resume < i
           /\ (r.next # Absent => i <= r.next)
           /\ e \in NewestOf(FoundOf(i, Skipped(i))) /\ Visible(e)
           => e \in r.page
  <2> HIDE DEF h
  <2>1. h = IF scan.resume = Absent THEN split ELSE {}
    BY DEF h
  <2>2. PageIs(r, scan.lo, scan.hi, scan.resume, h)
    BY <1>0, <1>2, <1>5, <2>1, PageRead
  <2> QED BY <2>2 DEF PageIs
<1>17. \A i \in Sure \ Beyond : NewestOf(Versions(Written, i)) \cap Skipped(i) = {}
  BY DEF Beyond, Buried, Written, InTables, Sure
<1> HIDE DEF Skipped, h
<1>7. /\ \A i \in scan.sent : i <= scan.resume
      /\ \A i \in scan.always \cap Sure :
           scan.lo <= i /\ i < scan.hi /\ i <= scan.resume => i \in scan.sent
      /\ scan.always \subseteq Present(store)
  BY <1>0 DEF ScanInv
<1>8. ASSUME NEW i \in (scan.always \cap Sure) \ Beyond, scan.lo <= i, i < scan.hi,
             r.next # Absent => i <= r.next
      PROVE  i \in scan.sent \cup Sent(r.page)
  <2>1. CASE i <= scan.resume
    BY <1>7, <1>8, <2>1
  <2>2. CASE scan.resume < i
    <3>1. i \in Items /\ store[i] # Absent
      BY <1>5, <1>7 DEF Present
    <3>2. PICK e \in NewestOf(FoundOf(i, Skipped(i))) : Visible(e)
      BY <1>0, <1>17, <3>1, View
    <3>3. e \in r.page
      BY <1>6, <1>8, <2>2, <3>1, <3>2
    <3>4. e.item = i
      BY <1>0, <3>1, <3>2, NewestFound DEF NewestOf
    <3> QED BY <3>3, <3>4 DEF Sent
  <2>3. i \in Nat /\ scan.resume \in Nat
    BY <1>5
  <2> QED BY <2>1, <2>2, <2>3
<1>9. outcome'.again = {}
  <2>1. ASSUME NEW e \in r.page, NEW i \in scan.sent PROVE ~(e.item <= i)
    <3>1. e.item \in Nat /\ i \in Nat /\ scan.resume \in Nat
      BY <1>5, <1>6
    <3>2. scan.resume < e.item /\ i <= scan.resume
      BY <1>6, <1>7
    <3> QED BY <3>1, <3>2
  <2> QED BY <1>0, <1>3, <2>1 DEF ScanSound
<1>10. outcome'.stale = {}
  <2>1. ASSUME NEW e \in r.page, e.item \in Sure \ Beyond PROVE e.seq = store[e.item]
    BY <1>0, <1>6, <1>17, <2>1, View
  <2> QED BY <1>0, <1>3, <2>1 DEF ScanSound
<1>11. outcome'.missed = {}
  BY <1>0, <1>3, <1>8 DEF ScanComplete
<1>12. Sent(r.page) \subseteq Items
  BY <1>6 DEF Sent
<1>13. Sure' = Sure /\ Written' = Written /\ InTables' = InTables
  BY <1>1 DEF Sure, Unhidden, covers, Written, InTables
<1>14. EntriesInv' /\ StoreInv'
  <2>1. EntriesInv'
    BY <1>0, <1>1, <1>13 DEF EntriesInv
  <2>2. StoreInv'
    BY <1>0, <1>1, <1>13 DEF StoreInv, Versions, NewestOf, is_tombstone, covers
  <2> QED BY <2>1, <2>2
<1>15. ScanInv' /\ scan' \in [on : BOOLEAN, lo : Nat, hi : Nat, resume : Nat,
                              sent : SUBSET Items, always : SUBSET Items]
  <2>1. CASE r.next = Absent
    <3>1. scan' = NoScan
      BY <1>3, <2>1
    <3>2. scan'.always = {} /\ scan'.sent = {}
      BY <3>1 DEF NoScan
    <3>3. ScanInv'
      BY <3>2 DEF ScanInv
    <3> QED BY <3>1, <3>3 DEF NoScan, Absent
  <2>2. CASE r.next # Absent
    <3>1. scan' = [scan EXCEPT !.sent = @ \cup Sent(r.page), !.resume = r.next,
                               !.always = @ \ Beyond]
      BY <1>3, <2>2
    <3>2. /\ scan'.lo = scan.lo /\ scan'.hi = scan.hi /\ scan'.resume = r.next
          /\ scan'.sent = scan.sent \cup Sent(r.page) /\ scan'.always = scan.always \ Beyond
      BY <1>4, <3>1
    <3>3. r.next \in Nat
      BY <1>5, <1>6, <2>2
    <3>4. scan' \in [on : BOOLEAN, lo : Nat, hi : Nat, resume : Nat,
                     sent : SUBSET Items, always : SUBSET Items]
      <4>1. /\ scan.sent \cup Sent(r.page) \in SUBSET Items
            /\ scan.always \ Beyond \in SUBSET Items
        BY <1>5, <1>12
      <4> QED BY <1>4, <3>1, <3>3, <4>1
    <3>5. \A i \in scan.sent \cup Sent(r.page) : i <= r.next
      <4>1. \A i \in Sent(r.page) : i <= r.next
        BY <1>6, <2>2 DEF Sent
      <4>2. ASSUME NEW i \in scan.sent PROVE i <= r.next
        <5>1. i \in Nat /\ scan.resume \in Nat
          BY <1>5
        <5>2. i <= scan.resume /\ scan.resume < r.next
          BY <1>6, <1>7, <2>2
        <5> QED BY <3>3, <5>1, <5>2
      <4> QED BY <4>1, <4>2
    <3>6. \A i \in (scan.always \ Beyond) \cap Sure :
            scan.lo <= i /\ i < scan.hi /\ i <= r.next => i \in scan.sent \cup Sent(r.page)
      BY <1>8
    <3>7. ScanInv'
      BY <1>1, <1>7, <1>13, <3>2, <3>5, <3>6 DEF ScanInv, Present
    <3> QED BY <3>4, <3>7
  <2> QED BY <2>1, <2>2
<1>16. TypeOK'
  BY <1>0, <1>1, <1>15 DEF TypeOK
<1> QED BY <1>9, <1>10, <1>11, <1>14, <1>15, <1>16 DEF ReadInv, ScanSound, ScanComplete

-----------------------------------------------------------------------------
(* The invariant *)

\* Steps that read or bring a request under way leave the data alone.
LEMMA DataKept ==
    ASSUME ReadInv, UNCHANGED <<mem, tables, nextSeq, outcome, store, reapplied>>,
           deleting' \subseteq Items, ScanInv',
           scan' \in [on : BOOLEAN, lo : Nat, hi : Nat, resume : Nat,
                      sent : SUBSET Items, always : SUBSET Items]
    PROVE  ReadInv'
<1>0. TypeOK /\ EntriesInv /\ StoreInv /\ ScanSound /\ ScanComplete
  BY DEF ReadInv
<1>1. Sure' = Sure /\ Written' = Written /\ InTables' = InTables
  BY DEF Sure, Unhidden, covers, Written, InTables
<1>2. EntriesInv'
  BY <1>0, <1>1 DEF EntriesInv
<1>3. StoreInv'
  BY <1>0, <1>1 DEF StoreInv, Versions, NewestOf, is_tombstone, covers
<1>4. TypeOK'
  BY <1>0 DEF TypeOK
<1>5. ScanSound' /\ ScanComplete'
  BY <1>0 DEF ScanSound, ScanComplete
<1> QED BY <1>2, <1>3, <1>4, <1>5 DEF ReadInv

\* A scan in progress that is left alone.
LEMMA ScanUntouched ==
    ASSUME ReadInv, UNCHANGED <<tables, store, reapplied, scan>>
    PROVE  /\ ScanInv'
           /\ scan' \in [on : BOOLEAN, lo : Nat, hi : Nat, resume : Nat,
                         sent : SUBSET Items, always : SUBSET Items]
<1>1. Sure' = Sure
  BY DEF Sure, Unhidden, covers
<1> QED BY <1>1 DEF ReadInv, TypeOK, ScanInv, Present

\* A scan begins.
LEMMA StartScanKept ==
    ASSUME ReadInv, NEW lo \in Nat, NEW hi \in Nat, StartScan(lo, hi)
    PROVE  ReadInv'
<1>1. /\ scan' = [NoScan EXCEPT !.on = TRUE, !.lo = lo, !.hi = hi,
                                !.always = Present(store)]
      /\ UNCHANGED <<mem, tables, nextSeq, outcome, store, reapplied, deleting>>
  BY DEF StartScan
<1>2. /\ scan' = [on |-> TRUE, lo |-> lo, hi |-> hi, resume |-> Absent, sent |-> {},
                  always |-> Present(store)]
  BY <1>1 DEF NoScan
<1>3. Present(store) \subseteq Items
  BY DEF Present
<1>4. scan' \in [on : BOOLEAN, lo : Nat, hi : Nat, resume : Nat,
                 sent : SUBSET Items, always : SUBSET Items]
  BY <1>2, <1>3 DEF Absent
<1>5. ScanInv'
  <2>1. scan'.sent = {} /\ scan'.always = Present(store) /\ scan'.resume = 0
    BY <1>2 DEF Absent
  <2>2. \A i \in Items : ~(i <= 0)
    BY ReadPathAssumption
  <2> QED BY <1>1, <1>3, <2>1, <2>2 DEF ScanInv, Present
<1>6. deleting' \subseteq Items
  BY <1>1 DEF ReadInv, TypeOK
<1> QED BY <1>1, <1>4, <1>5, <1>6, DataKept

\* One case per action.
LEMMA ReadStep == ASSUME ReadInv, [Next]_vars PROVE ReadInv'
<1>0. deleting \subseteq Items
  BY DEF ReadInv, TypeOK
<1>1. CASE \/ \E i \in Items : Get(i)
           \/ \E i \in 1..MaxTables : Evict(i)
           \/ UNCHANGED vars
  <2>1. UNCHANGED <<mem, tables, nextSeq, outcome, store, reapplied, deleting, scan>>
    BY <1>1 DEF Get, Evict, vars
  <2> QED BY <1>0, <2>1, ScanUntouched, DataKept
<1>2. CASE \E r \in Ranges : StartScan(r[1], r[2])
  <2>1. PICK r \in Ranges : StartScan(r[1], r[2])
    BY <1>2
  <2>2. r[1] \in Nat /\ r[2] \in Nat
    BY ReadPathAssumption
  <2> QED BY <2>1, <2>2, StartScanKept
<1>3. CASE ScanPage
  BY <1>3, ScanPageKept
<1>4. CASE \E i \in Items, t \in Tokens \cup {NoToken} : Put(i, t)
  BY <1>4, PutKept
<1>5. CASE (\E keys \in KeySets : StartDelete(keys)) \/ DeleteError
  <2>1. /\ UNCHANGED <<mem, tables, nextSeq, outcome, store, reapplied, scan>>
        /\ deleting' \subseteq Items
    BY <1>5, ReadPathAssumption DEF StartDelete, DeleteError
  <2> QED BY <2>1, ScanUntouched, DataKept
<1>6. CASE DeleteNext
  BY <1>6, DeleteNextKept
<1>7. CASE \E c \in Cuts : DeleteRange(c[1], c[2])
  <2>1. PICK c \in Cuts : DeleteRange(c[1], c[2])
    BY <1>7
  <2>2. c[1] \in Nat /\ c[2] \in Nat
    BY ReadPathAssumption
  <2> QED BY <2>1, <2>2, DeleteRangeKept
<1>8. CASE Maintenance
  BY <1>8, MaintenanceKept
<1> QED BY <1>1, <1>2, <1>3, <1>4, <1>5, <1>6, <1>7, <1>8 DEF Next

\* An empty engine.
LEMMA ReadInit == ASSUME Init PROVE ReadInv
<1>1. /\ mem = {} /\ tables = <<>> /\ nextSeq = 1 /\ deleting = {} /\ scan = NoScan
      /\ outcome = [again |-> {}, stale |-> {}, missed |-> {}]
      /\ store = [i \in Items |-> Absent]
  BY DEF Init
<1>2. Written = {} /\ InTables = {}
  BY <1>1 DEF Written, InTables
<1>3. TypeOK
  <2>1. tables \in Seq(SUBSET EntriesBefore(nextSeq))
    BY <1>1
  <2>2. store \in [Items -> 0 .. nextSeq - 1]
    BY <1>1 DEF Absent
  <2>3. scan \in [on : BOOLEAN, lo : Nat, hi : Nat, resume : Nat,
                  sent : SUBSET Items, always : SUBSET Items]
    BY <1>1 DEF NoScan, Absent
  <2> QED BY <1>1, <2>1, <2>2, <2>3 DEF TypeOK
<1>4. EntriesInv
  BY <1>1, <1>2, FS_EmptySet DEF EntriesInv
<1>5. StoreInv
  <2>1. \A i \in Sure : Versions(Written, i) = {} /\ store[i] = Absent
    BY <1>1, <1>2 DEF Versions, Sure
  <2> QED BY <2>1 DEF StoreInv
<1>6. ScanInv
  BY <1>1 DEF ScanInv, NoScan
<1>7. ScanSound /\ ScanComplete
  BY <1>1 DEF ScanSound, ScanComplete
<1> QED BY <1>3, <1>4, <1>5, <1>6, <1>7 DEF ReadInv

\* The invariant of the read path, for any items, ranges, page size and
\* budget.
THEOREM ReadInvariant == Spec => []ReadInv
<1>1. Init => ReadInv
  BY ReadInit
<1>2. ReadInv /\ [Next]_vars => ReadInv'
  BY ReadStep
<1> QED BY <1>1, <1>2, PTL DEF Spec

\* Point reads see the last write: puts, deletions and range deletions in
\* memtable and tables together, unless the newest version is buried in an
\* earlier block, and a get as long as its budget allows to fetch the tables
\* that are not cached.
THEOREM PointReadsAlwaysFresh == Spec => []PointReadsFresh
BY ReadInvariant, PointReads, PTL

\* Scans send items in order and each once, and as the store has them, but for
\* an item they start at whose newest version is buried in an earlier block.
THEOREM ScansSound == Spec => []ScanSound
<1>1. ReadInv => ScanSound
  BY DEF ReadInv
<1> QED BY <1>1, ReadInvariant, PTL

\* A scan that has ended has left out no item that was there throughout, but
\* for one it started at whose newest version was buried in an earlier block.
THEOREM ScansComplete == Spec => []ScanComplete
<1>1. ReadInv => ScanComplete
  BY DEF ReadInv
<1> QED BY <1>1, ReadInvariant, PTL

=============================================================================
