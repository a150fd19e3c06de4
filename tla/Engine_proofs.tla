---------------------------- MODULE Engine_proofs ----------------------------
(***************************************************************************)
(* Proofs about the write path and its recovery, for every set of keys,    *)
(* every workload and any number of writes, flushes and crashes: an        *)
(* acknowledged write is never destroyed, reads between writes are fresh,  *)
(* and a recovery brings acknowledged writes back.                         *)
(***************************************************************************)
EXTENDS Engine, FiniteSetTheorems, SequenceTheorems, WellFoundedInduction, TLAPS

-----------------------------------------------------------------------------
(* Numbers *)

\* A set of natural numbers has a least element.
LEMMA LeastNat ==
    ASSUME NEW S, S \subseteq Nat, S # {}
    PROVE  \E x \in S : \A y \in S : x <= y
<1> DEFINE R == OpToRel(<, Nat)
<1>1. \E x \in S : \A y \in S : <<y, x>> \notin R
  BY NatLessThanWellFounded, WFMin
<1>2. R = {ss \in Nat \X Nat : ss[1] < ss[2]}
  BY Zenon DEF OpToRel
<1> HIDE DEF R
<1>3. \A x, y \in Nat : <<y, x>> \notin R => x <= y
  BY <1>2
<1> QED BY <1>1, <1>3

\* A bounded one has a greatest element.
LEMMA GreatestNat ==
    ASSUME NEW top \in Nat, NEW S, S \subseteq 0 .. top, S # {}
    PROVE  \E x \in S : \A y \in S : y <= x
<1> DEFINE D == {top - x : x \in S}
<1>1. D \subseteq Nat /\ D # {}
  <2>1. \A x \in S : x \in Nat /\ x <= top
    OBVIOUS
  <2>2. \A x \in S : top - x \in Nat
    BY <2>1
  <2> QED BY <2>2
<1> HIDE DEF D
<1>2. PICK d \in D : \A e \in D : d <= e
  BY <1>1, LeastNat
<1>3. PICK x \in S : d = top - x
  BY DEF D
<1>4. \A y \in S : top - y \in D
  BY DEF D
<1> QED BY <1>2, <1>3, <1>4

\* A finite set of natural numbers is bounded: otherwise a smallest unbounded
\* subset would stay unbounded without one of its elements.
LEMMA FiniteIsBounded ==
    ASSUME NEW S, S \subseteq Nat, IsFiniteSet(S)
    PROVE  \E top \in Nat : S \subseteq 0 .. top
<1> DEFINE Bounded(T) == \E top \in Nat : T \subseteq 0 .. top
           W == {T \in FiniteSubsetsOf(S) : ~Bounded(T)}
           R == StrictSubsetOrdering(S)
<1> SUFFICES ASSUME ~Bounded(S) PROVE FALSE
  OBVIOUS
<1>1. S \in FiniteSubsetsOf(S)
  BY DEF FiniteSubsetsOf
<1>2. W \subseteq FiniteSubsetsOf(S) /\ W # {}
  BY <1>1
<1>3. IsWellFoundedOn(R, FiniteSubsetsOf(S))
  BY FS_StrictSubsetOrderingWellFounded
<1>4. \E T \in W : \A U \in W : <<U, T>> \notin R
  <2> HIDE DEF W, R
  <2> QED BY <1>2, <1>3, WFMin
<1>5. PICK T \in W : \A U \in W : <<U, T>> \notin R
  BY <1>4
<1>6. T \in SUBSET S /\ IsFiniteSet(T) /\ ~Bounded(T)
  BY <1>5 DEF FiniteSubsetsOf
<1>7. PICK x \in T : TRUE
  BY <1>6
<1>8. T \ {x} \in FiniteSubsetsOf(S)
  BY <1>6, FS_RemoveElement DEF FiniteSubsetsOf
<1>9. <<T \ {x}, T>> \in R
  BY <1>6, <1>7 DEF StrictSubsetOrdering
<1>10. Bounded(T \ {x})
  BY <1>5, <1>8, <1>9
<1>11. PICK n \in Nat : T \ {x} \subseteq 0 .. n
  BY <1>10
<1>12. x \in Nat /\ n + x \in Nat
  BY <1>6, <1>7
<1>13. T \subseteq 0 .. (n + x)
  <2> SUFFICES ASSUME NEW y \in T PROVE y \in 0 .. (n + x)
    OBVIOUS
  <2>1. CASE y = x
    BY <1>12, <2>1
  <2>2. CASE y \in 0 .. n
    BY <1>12, <2>2
  <2> QED BY <1>11, <2>1, <2>2
<1> QED BY <1>6, <1>12, <1>13

\* Highest: the greatest element of a finite set of numbers, 0 if it has none.
LEMMA HighestIs ==
    ASSUME NEW S, S \subseteq Nat, IsFiniteSet(S)
    PROVE  /\ Highest(S) \in Nat
           /\ S = {} => Highest(S) = 0
           /\ S # {} => Highest(S) \in S
           /\ \A y \in S : y <= Highest(S)
<1>1. CASE S = {}
  BY <1>1 DEF Highest
<1>2. CASE S # {}
  <2>1. PICK top \in Nat : S \subseteq 0 .. top
    BY FiniteIsBounded
  <2>2. \E x \in S : \A y \in S : y <= x
    BY <1>2, <2>1, GreatestNat
  <2>3. Highest(S) = CHOOSE x \in S : \A y \in S : y <= x
    BY <1>2 DEF Highest
  <2>4. Highest(S) \in S /\ \A y \in S : y <= Highest(S)
    BY <2>2, <2>3, Zenon
  <2> QED BY <1>2, <2>4
<1> QED BY <1>1, <1>2

\* An element that bounds the set is its highest.
LEMMA HighestAt ==
    ASSUME NEW S, S \subseteq Nat, NEW x \in S, \A y \in S : y <= x
    PROVE  Highest(S) = x
<1>1. \A z \in S : (\A y \in S : y <= z) => z = x
  OBVIOUS
<1>2. Highest(S) = CHOOSE z \in S : \A y \in S : y <= z
  BY DEF Highest
<1>3. Highest(S) \in S /\ \A y \in S : y <= Highest(S)
  BY <1>2, Zenon
<1> QED BY <1>1, <1>3

\* A function takes a finite set to a finite set.
LEMMA FiniteImage ==
    ASSUME NEW S, IsFiniteSet(S), NEW f, f = [x \in S |-> f[x]]
    PROVE  IsFiniteSet({f[x] : x \in S})
<1> DEFINE T == {f[x] : x \in S}
<1>1. f \in [S -> T] /\ \A t \in T : \E x \in S : f[x] = t
  OBVIOUS
<1>2. f \in Surjection(S, T)
  BY <1>1 DEF Surjection
<1> QED BY <1>2, FS_Surjection

\* The numbers of a finite set of entries are finitely many.
LEMMA SeqsFinite ==
    ASSUME NEW es, IsFiniteSet(es), \A e \in es : e.seq \in Nat
    PROVE  SeqsOf(es) \subseteq Nat /\ IsFiniteSet(SeqsOf(es))
<1> DEFINE f == [e \in es |-> e.seq]
<1>1. IsFiniteSet({f[e] : e \in es})
  <2>1. f = [e \in es |-> f[e]]
    OBVIOUS
  <2> HIDE DEF f
  <2> QED BY <2>1, FiniteImage
<1>2. {f[e] : e \in es} = {e.seq : e \in es}
  OBVIOUS
<1> QED BY <1>1, <1>2 DEF SeqsOf

\* MaxSeqOf a table: the highest number it holds.
LEMMA MaxSeqIs ==
    ASSUME NEW t, IsFiniteSet(t), \A e \in t : e.seq \in Nat
    PROVE  /\ Highest(SeqsOf(t)) \in Nat
           /\ t = {} => Highest(SeqsOf(t)) = 0
           /\ t # {} => \E e \in t : Highest(SeqsOf(t)) = e.seq
           /\ \A e \in t : e.seq <= Highest(SeqsOf(t))
<1>1. SeqsOf(t) \subseteq Nat /\ IsFiniteSet(SeqsOf(t))
  BY SeqsFinite
<1>2. (t = {} <=> SeqsOf(t) = {}) /\ \A e \in t : e.seq \in SeqsOf(t)
  BY DEF SeqsOf
<1>3. \A n \in SeqsOf(t) : \E e \in t : n = e.seq
  BY DEF SeqsOf
<1> QED BY <1>1, <1>2, <1>3, HighestIs
-----------------------------------------------------------------------------
(* What the helpers return *)

\* replay_from returns entries of the log.
LEMMA ReplayType ==
    ASSUME TypeOK
    PROVE  /\ replay_from(lastFlushed) \subseteq wal
           /\ IsFiniteSet(replay_from(lastFlushed))
           /\ Cardinality(replay_from(lastFlushed)) \in Nat
<1>1. replay_from(lastFlushed) \subseteq wal
  BY DEF replay_from
<1>2. IsFiniteSet(wal)
  BY DEF TypeOK
<1> QED BY <1>1, <1>2, FS_Subset, FS_CardinalityType

\* A place is between the first and the last.
LEMMA PlaceType ==
    ASSUME NEW es, IsFiniteSet(es), \A x \in es : x.w \in Nat, NEW e \in es
    PROVE  /\ Place(e, es) \in Nat
           /\ 1 <= Place(e, es)
           /\ Place(e, es) <= Cardinality(es)
<1> DEFINE below == {x \in es : x.w <= e.w}
<1>1. below \in SUBSET es /\ e \in below
  OBVIOUS
<1> HIDE DEF below
<1>2. IsFiniteSet(below) /\ Cardinality(below) <= Cardinality(es)
  BY <1>1, FS_Subset
<1>3. Cardinality(below) \in Nat /\ Cardinality(below) # 0
  BY <1>1, <1>2, FS_CardinalityType, FS_EmptySet
<1>4. Place(e, es) = Cardinality(below)
  BY DEF Place, below
<1> QED BY <1>2, <1>3, <1>4

\* The entries a recovery puts into the first memtable.
LEMMA ReplayedType ==
    ASSUME TypeOK
    PROVE  /\ Replayed \in Tables
           /\ \A e \in Replayed : \E x \in replay_from(lastFlushed) :
                 /\ e.w = x.w /\ e.key = x.key
                 /\ e.seq = lastFlushed + Place(x, replay_from(lastFlushed))
           /\ \A x \in replay_from(lastFlushed) : \E e \in Replayed :
                 /\ e.w = x.w /\ e.key = x.key
                 /\ e.seq = lastFlushed + Place(x, replay_from(lastFlushed))
           /\ \A e \in Replayed :
                 /\ lastFlushed < e.seq
                 /\ e.seq < starting_seq + Cardinality(replay_from(lastFlushed))
<1> DEFINE es == replay_from(lastFlushed)
           f == [x \in es |-> [key |-> x.key, w |-> x.w,
                               seq |-> starting_seq + Place(x, es) - 1]]
<1>1. es \subseteq wal /\ IsFiniteSet(es) /\ Cardinality(es) \in Nat
  BY ReplayType
<1>2. \A x \in es : x.key \in Keys /\ x.w \in Nat \ {0}
  BY <1>1 DEF TypeOK
<1>3. lastFlushed \in Nat
  BY DEF TypeOK
<1>4. Replayed = {f[x] : x \in es}
  BY DEF Replayed
<1> HIDE DEF es
<1>5. \A x \in es : Place(x, es) \in Nat /\ 1 <= Place(x, es)
                    /\ Place(x, es) <= Cardinality(es)
  BY <1>1, <1>2, PlaceType
<1>6. \A x \in es : starting_seq + Place(x, es) - 1 = lastFlushed + Place(x, es)
                    /\ lastFlushed + Place(x, es) \in Nat
  BY <1>3, <1>5 DEF starting_seq
<1>7. \A x \in es : f[x] = [key |-> x.key, w |-> x.w,
                            seq |-> lastFlushed + Place(x, es)]
  BY <1>6
<1>8. \A x \in es : f[x] \in Entries
  BY <1>2, <1>6, <1>7 DEF Entries
<1>9. IsFiniteSet({f[x] : x \in es})
  <2>1. f = [x \in es |-> f[x]]
    OBVIOUS
  <2> HIDE DEF f
  <2> QED BY <1>1, <2>1, FiniteImage
<1> HIDE DEF f
<1>10. Replayed \in Tables
  BY <1>4, <1>8, <1>9 DEF Tables
<1>. DEFINE Same(e, x) ==
          e.w = x.w /\ e.key = x.key /\ e.seq = lastFlushed + Place(x, es)
<1>14. \A x \in es : Same(f[x], x)
  <2> TAKE x \in es
  <2> DEFINE n == lastFlushed + Place(x, es)
  <2> HIDE DEF n
  <2>1. f[x] = [key |-> x.key, w |-> x.w, seq |-> n]
    BY <1>7 DEF n
  <2>2. f[x].key = x.key /\ f[x].w = x.w /\ f[x].seq = n
    BY <2>1
  <2> QED BY <2>2 DEF n
<1> HIDE DEF Same
<1>15. \A e \in Replayed : \E x \in es : Same(e, x)
  BY <1>4, <1>14
<1>16. \A x \in es : \E e \in Replayed : Same(e, x)
  BY <1>4, <1>14
<1>11. \A e \in Replayed : \E x \in es :
          /\ e.w = x.w /\ e.key = x.key /\ e.seq = lastFlushed + Place(x, es)
  BY <1>15 DEF Same
<1>12. \A x \in es : \E e \in Replayed :
          /\ e.w = x.w /\ e.key = x.key /\ e.seq = lastFlushed + Place(x, es)
  BY <1>16 DEF Same
<1>13. \A e \in Replayed : lastFlushed < e.seq /\ e.seq < starting_seq + Cardinality(es)
  BY <1>1, <1>3, <1>5, <1>11 DEF starting_seq
<1> QED BY <1>10, <1>11, <1>12, <1>13 DEF es

\* WalWriter::open finds a number.
LEMMA HighestInWalType ==
    ASSUME TypeOK
    PROVE  HighestInWal \in Nat
<1> DEFINE last == Highest({e.seg : e \in wal})
           part == {e \in wal : e.seg = last}
<1>1. IsFiniteSet(part)
  <2>1. IsFiniteSet(wal) /\ part \in SUBSET wal
    BY DEF TypeOK
  <2> QED BY <2>1, FS_Subset
<1>2. \A e \in part : e.seq \in Nat
  BY DEF TypeOK
<1>3. HighestInWal = Highest(SeqsOf(part))
  BY DEF HighestInWal
<1> HIDE DEF part
<1> QED BY <1>1, <1>2, <1>3, MaxSeqIs

\* The segment a recovery opens is above all retained ones.
LEMMA NewSegment ==
    ASSUME TypeOK
    PROVE  /\ Highest(DOMAIN starts) + 1 \in Nat
           /\ \A s \in DOMAIN starts : s < Highest(DOMAIN starts) + 1
<1>1. DOMAIN starts \subseteq Nat /\ IsFiniteSet(DOMAIN starts)
  BY DEF TypeOK
<1>2. /\ Highest(DOMAIN starts) \in Nat
      /\ \A s \in DOMAIN starts : s <= Highest(DOMAIN starts)
  BY <1>1, HighestIs
<1> QED BY <1>1, <1>2
-----------------------------------------------------------------------------
(* Types *)

\* Entries of the log and of the group commit channel.
WalEntries == [key : Keys, w : Nat \ {0}, seq : Nat, seg : Nat]
Submissions == [key : Keys, w : Nat \ {0}, last : BOOLEAN]

\* A write is submitted: the engine numbers its entries, which go to the end of
\* the queue.
LEMMA SubmitIs ==
    ASSUME TypeOK, NEW keys \in Seq(Keys), NEW isBatch \in BOOLEAN, Submit(keys, isBatch)
    PROVE  /\ pending' \in Seq(Entries) /\ Len(pending') = Len(keys)
           /\ \A i \in 1 .. Len(keys) :
                 /\ pending'[i].key = keys[i] /\ pending'[i].w = nextWrite + i - 1
                 /\ pending'[i].seq = nextSeq + i - 1
           /\ queue' \in Seq(Submissions) /\ Len(queue') = Len(queue) + Len(keys)
           /\ \A j \in 1 .. Len(queue) : queue'[j] = queue[j]
           /\ \A i \in 1 .. Len(keys) : /\ queue'[Len(queue) + i].key = keys[i]
                                        /\ queue'[Len(queue) + i].w = nextWrite + i - 1
<1>1. nextWrite \in Nat \ {0} /\ nextSeq \in Nat /\ queue \in Seq(Submissions)
  BY DEF TypeOK, Submissions
<1>2. DOMAIN keys = 1 .. Len(keys) /\ Len(keys) \in Nat
  OBVIOUS
<1> DEFINE n == Len(keys)
           p == [i \in 1 .. n |-> [key |-> keys[i], w |-> nextWrite + i - 1,
                                   seq |-> nextSeq + i - 1]]
           q == [i \in 1 .. n |-> [key |-> keys[i], w |-> nextWrite + i - 1,
                                   last |-> i = n]]
<1>3. pending' = p /\ queue' = queue \o q
  BY <1>2 DEF Submit
<1>4. \A i \in 1 .. n :
        /\ p[i] \in Entries /\ p[i].key = keys[i] /\ p[i].w = nextWrite + i - 1
        /\ p[i].seq = nextSeq + i - 1
        /\ q[i] \in Submissions /\ q[i].key = keys[i] /\ q[i].w = nextWrite + i - 1
  <2> TAKE i \in 1 .. n
  <2>1. keys[i] \in Keys /\ nextWrite + i - 1 \in Nat \ {0} /\ nextSeq + i - 1 \in Nat
    BY <1>1
  <2> QED BY <2>1 DEF Entries, Submissions
<1>5. p \in [1 .. n -> Entries] /\ q \in [1 .. n -> Submissions]
  BY <1>4
<1> HIDE DEF p, q, n
<1>6. n \in Nat
  BY DEF n
<1>7. p \in Seq(Entries) /\ Len(p) = n /\ q \in Seq(Submissions) /\ Len(q) = n
  BY <1>5, <1>6
<1>8. /\ queue \o q \in Seq(Submissions) /\ Len(queue \o q) = Len(queue) + n
      /\ \A j \in 1 .. Len(queue) : (queue \o q)[j] = queue[j]
      /\ \A i \in 1 .. n : (queue \o q)[Len(queue) + i] = q[i]
  BY <1>1, <1>7
<1>9. /\ queue' \in Seq(Submissions) /\ Len(queue') = Len(queue) + n
      /\ \A j \in 1 .. Len(queue) : queue'[j] = queue[j]
      /\ \A i \in 1 .. n : queue'[Len(queue) + i] = q[i]
  BY <1>3, <1>8
<1>10. \A i \in 1 .. n : /\ queue'[Len(queue) + i].key = keys[i]
                         /\ queue'[Len(queue) + i].w = nextWrite + i - 1
  BY <1>4, <1>9
<1> QED BY <1>3, <1>4, <1>7, <1>9, <1>10 DEF n

\* put and put_batch.
LEMMA TypeSubmit ==
    ASSUME TypeOK, NEW keys \in Seq(Keys), Len(keys) > 0, NEW isBatch \in BOOLEAN,
           Submit(keys, isBatch)
    PROVE  TypeOK'
<1>1. /\ pending' \in Seq(Entries) /\ Len(pending') = Len(keys)
      /\ queue' \in Seq(Submissions)
  BY SubmitIs
<1>2. nextWrite' \in Nat \ {0}
  BY DEF TypeOK, Submit
<1>3. UNCHANGED <<disk, s3, segment, walNext, dirty, memVars, acked, numbering, misfiled,
                  restarts, scenario>>
  BY DEF Submit
<1>4. pc = "idle" /\ pc' = "wal" /\ at' = 0 /\ batch' = isBatch /\ recorded' = FALSE
  BY DEF Submit
<1> QED BY <1>1, <1>2, <1>3, <1>4 DEF TypeOK, Submissions, disk, s3, memVars

\* A submission of some keys, by put or put_batch.
LEMMA SubmitSome ==
    ASSUME TypeOK, Put \/ PutBatch
    PROVE  \E keys \in Seq(Keys) : \E isBatch \in BOOLEAN :
              Len(keys) > 0 /\ Submit(keys, isBatch)
<1>1. CASE Put
  <2>1. PICK k \in Keys : Submit(<<k>>, FALSE)
    BY <1>1 DEF Put
  <2>2. <<k>> \in Seq(Keys) /\ Len(<<k>>) > 0
    OBVIOUS
  <2> QED BY <2>1, <2>2
<1>2. CASE PutBatch
  <2>1. PICK n \in 1 .. scenario.maxBatch : \E keys \in [1 .. n -> Keys] :
                Submit(keys, TRUE)
    BY <1>2 DEF PutBatch
  <2>2. PICK keys \in [1 .. n -> Keys] : Submit(keys, TRUE)
    BY <2>1
  <2>3. scenario.maxBatch \in Nat
    BY ConstantsAssumption DEF TypeOK
  <2>4. n \in Nat /\ n > 0
    BY <2>3
  <2>5. keys \in Seq(Keys) /\ Len(keys) = n
    BY <2>4
  <2> QED BY <2>2, <2>4, <2>5
<1> QED BY <1>1, <1>2

\* The entry a commit appends to the log.
Appended == [key |-> Head(queue).key, w |-> Head(queue).w, seq |-> walNext, seg |-> segment]

\* The commit loop takes the first of the queue.
LEMMA CommitIs ==
    ASSUME TypeOK, Commit
    PROVE  /\ wal' = wal \cup {Appended} /\ Appended \in WalEntries
           /\ Appended.key = queue[1].key /\ Appended.w = queue[1].w
           /\ Appended.seq = walNext /\ Appended.seg = segment
           /\ walNext' = walNext + 1 /\ Len(queue) > 0 /\ 1 \in DOMAIN queue
           /\ queue' \in Seq(Submissions) /\ Len(queue') = Len(queue) - 1
           /\ \A j \in DOMAIN queue' : j + 1 \in DOMAIN queue /\ queue'[j] = queue[j + 1]
           /\ pc # "down"
           /\ \/ UNCHANGED <<segment, starts>>
              \/ /\ scenario.rotation
                 /\ segment' = segment + 1
                 /\ DOMAIN starts' = DOMAIN starts \cup {segment + 1}
                 /\ starts' = [s \in DOMAIN starts \cup {segment + 1} |->
                                  IF s = segment + 1 THEN walNext' ELSE starts[s]]
           /\ UNCHANGED <<s3, dirty, memVars, opVars, ghosts>>
<1>1. queue \in Seq(Submissions) /\ queue # <<>> /\ walNext \in Nat /\ segment \in Nat
      /\ pc # "down"
  BY DEF TypeOK, Commit, Submissions
<1>2. Head(queue) = queue[1] /\ Len(queue) > 0 /\ queue[1] \in Submissions
  BY <1>1
<1>3. Appended \in WalEntries
  BY <1>1, <1>2 DEF Appended, WalEntries, Submissions
<1>4. /\ Tail(queue) \in Seq(Submissions) /\ Len(Tail(queue)) = Len(queue) - 1
      /\ \A j \in 1 .. Len(queue) - 1 : Tail(queue)[j] = queue[j + 1]
  BY <1>1
<1>5. queue' = Tail(queue) /\ Len(queue) \in Nat
  BY <1>1 DEF Commit
<1>6. DOMAIN queue' = 1 .. Len(queue) - 1 /\ DOMAIN queue = 1 .. Len(queue)
  BY <1>1, <1>4, <1>5
<1>7. \A j \in DOMAIN queue' : j + 1 \in DOMAIN queue /\ queue'[j] = queue[j + 1]
  BY <1>4, <1>5, <1>6
<1>8. 1 \in DOMAIN queue
  BY <1>2, <1>5, <1>6
<1> QED BY <1>1, <1>2, <1>3, <1>4, <1>5, <1>7, <1>8 DEF Commit, Appended

\* The commit loop.
LEMMA TypeCommit ==
    ASSUME TypeOK, Commit
    PROVE  TypeOK'
<1>0. wal' = wal \cup {Appended} /\ Appended \in WalEntries /\ walNext' = walNext + 1
  BY CommitIs
<1>1. wal' \subseteq WalEntries /\ IsFiniteSet(wal')
  <2>1. wal \subseteq WalEntries /\ IsFiniteSet(wal)
    BY DEF TypeOK, WalEntries
  <2> QED BY <1>0, <2>1, FS_AddElement
<1>2. walNext' \in Nat
  <2>1. walNext \in Nat
    BY DEF TypeOK
  <2> QED BY <1>0, <2>1
<1>3. /\ segment' \in Nat /\ starts' \in [DOMAIN starts' -> Nat]
      /\ DOMAIN starts' \subseteq Nat /\ IsFiniteSet(DOMAIN starts')
  <2>1. CASE UNCHANGED <<segment, starts>>
    BY <2>1 DEF TypeOK
  <2>2. CASE /\ segment' = segment + 1
             /\ starts' = [s \in DOMAIN starts \cup {segment + 1} |->
                              IF s = segment + 1 THEN walNext' ELSE starts[s]]
    <3>1. segment \in Nat /\ DOMAIN starts \subseteq Nat /\ IsFiniteSet(DOMAIN starts)
          /\ \A s \in DOMAIN starts : starts[s] \in Nat
      BY DEF TypeOK
    <3>2. IsFiniteSet(DOMAIN starts \cup {segment + 1})
      BY <3>1, FS_AddElement
    <3> QED BY <1>2, <2>2, <3>1, <3>2
  <2> QED BY <2>1, <2>2, CommitIs
<1>4. UNCHANGED <<s3, dirty, memVars, opVars, ghosts>> /\ queue' \in Seq(Submissions)
      /\ pc # "down" /\ queue # <<>>
  BY CommitIs DEF Commit
<1>5. ~(pc \in {"insert", "flush"} /\ pending # <<>>)
  BY <1>4 DEF TypeOK
<1> QED BY <1>1, <1>2, <1>3, <1>4, <1>5 DEF TypeOK, WalEntries, Submissions, s3, memVars, opVars,
           ghosts

\* WalManager::append, the notification, a dropped request.
LEMMA TypeWal ==
    ASSUME TypeOK, RecordWrite \/ Durable \/ Cancel
    PROVE  TypeOK'
<1>1. CASE RecordWrite
  <2>1. UNCHANGED <<disk, s3, queue, segment, walNext, memVars, pc, pending, at, batch, ghosts>>
        /\ pc = "wal" /\ recorded' = TRUE /\ dirty' = dirty \cup {<<segment, generation>>}
    BY <1>1 DEF RecordWrite
  <2>2. dirty' \subseteq Nat \X Nat
    <3>1. segment \in Nat /\ generation \in Nat /\ dirty \subseteq Nat \X Nat
      BY DEF TypeOK
    <3> QED BY <2>1, <3>1
  <2> QED BY <2>1, <2>2 DEF TypeOK, disk, s3, memVars, ghosts
<1>2. CASE Durable
  <2>1. UNCHANGED <<disk, s3, walVars, memNext, generation, active, frozen,
                    handles, pending, at, batch, recorded, ghosts>>
        /\ pc = "wal" /\ pc' = "insert" /\ nextSeq' = nextSeq + Len(pending) /\ queue = <<>>
    BY <1>2 DEF Durable
  <2>2. recorded'
    BY <1>2, Zenon DEF Durable
  <2>3. nextSeq' \in Nat
    BY <2>1 DEF TypeOK
  <2> QED BY <2>1, <2>2, <2>3 DEF TypeOK, disk, s3, walVars, ghosts
<1>3. CASE Cancel
  <2>1. UNCHANGED <<disk, s3, walVars, memVars, at, batch, recorded, acked, nextWrite, misfiled,
                    restarts, scenario>>
        /\ pc = "wal" /\ pc' = "idle" /\ pending' = <<>>
        /\ numbering' = IF numbering = "inStep" THEN "apart" ELSE numbering
    BY <1>3 DEF Cancel
  <2>2. pending' \in Seq(Entries) /\ (frozen = <<>> <=> pc # "flush")
        /\ numbering' \in {"inStep", "apart", "broken"}
    BY <2>1 DEF TypeOK
  <2> QED BY <2>1, <2>2 DEF TypeOK, disk, s3, walVars, memVars
<1> QED BY <1>1, <1>2, <1>3
\* SkipInsert adds one entry to a table.
LEMMA SkipInsertType ==
    ASSUME NEW t \in Tables, NEW e \in Entries
    PROVE  SkipInsert(t, e) \in Tables
<1> DEFINE kept == {o \in t : ~(o.key = e.key /\ o.seq = e.seq)}
<1>1. t \subseteq Entries /\ IsFiniteSet(t) /\ kept \in SUBSET t
  BY DEF Tables
<1>2. SkipInsert(t, e) = kept \cup {e}
  BY DEF SkipInsert
<1> HIDE DEF kept
<1>3. IsFiniteSet(kept \cup {e})
  BY <1>1, FS_Subset, FS_AddElement
<1> QED BY <1>1, <1>2, <1>3 DEF Tables

\* The entry a memtable insert stores.
MemEntry == [pending[at + 1] EXCEPT !.seq = MemSeq(@)]

\* It is the submitted entry, renumbered.
LEMMA MemEntryIs ==
    ASSUME TypeOK, pc = "insert"
    PROVE  /\ MemEntry \in Entries
           /\ MemEntry.w = pending[at + 1].w
           /\ MemEntry.key = pending[at + 1].key
           /\ MemEntry.seq = IF batch THEN pending[at + 1].seq ELSE memNext
           /\ at + 1 \in DOMAIN pending
<1>0. pending \in Seq(Entries) /\ at \in Nat /\ at < Len(pending)
  BY DEF TypeOK
<1>1. pending[at + 1] \in Entries /\ at + 1 \in DOMAIN pending
  BY <1>0
<1>2. pending[at + 1].seq \in Nat /\ memNext \in Nat
  BY <1>1 DEF TypeOK, Entries
<1>3. MemSeq(pending[at + 1].seq) \in Nat
      /\ MemSeq(pending[at + 1].seq) = IF batch THEN pending[at + 1].seq ELSE memNext
  BY <1>2 DEF MemSeq
<1> QED BY <1>1, <1>3 DEF MemEntry, Entries

\* Continue acknowledges with the highest write of each key.
LEMMA AckedType ==
    ASSUME TypeOK, NEW k \in Keys
    PROVE  LET new == {e.w : e \in {x \in Elems(pending) : x.key = k}}
           IN  /\ Highest({acked[k]} \cup new) \in Nat
               /\ Highest({acked[k]} \cup new) \in {acked[k]} \cup new
               /\ \A y \in {acked[k]} \cup new : y <= Highest({acked[k]} \cup new)
<1> DEFINE new == {e.w : e \in {x \in Elems(pending) : x.key = k}}
           all == {acked[k]} \cup new
           D == {i \in 1 .. Len(pending) : pending[i].key = k}
           f == [i \in D |-> pending[i].w]
<1>1. pending \in Seq(Entries) /\ acked[k] \in Nat
  BY DEF TypeOK
<1>2. Elems(pending) = {pending[i] : i \in 1 .. Len(pending)}
  BY <1>1 DEF Elems
<1>3. new = {f[i] : i \in D}
  BY <1>2
<1>4. IsFiniteSet(D)
  <2>1. IsFiniteSet(1 .. Len(pending)) /\ D \in SUBSET (1 .. Len(pending))
    BY <1>1, FS_Interval
  <2> QED BY <2>1, FS_Subset
<1>5. new \subseteq Nat
  <2>1. \A i \in 1 .. Len(pending) : pending[i].w \in Nat
    <3> HIDE DEF new, D, f, all
    <3> TAKE i \in 1 .. Len(pending)
    <3>1. pending[i] \in Entries
      BY <1>1
    <3> QED BY <3>1 DEF Entries
  <2> QED BY <1>3, <2>1
<1>6. IsFiniteSet(new)
  <2>1. f = [i \in D |-> f[i]]
    OBVIOUS
  <2> HIDE DEF f, D
  <2>2. IsFiniteSet({f[i] : i \in D})
    BY <1>4, <2>1, FiniteImage
  <2> QED BY <1>3, <2>2
<1> HIDE DEF new
<1>7. IsFiniteSet(new \cup {acked[k]}) /\ new \cup {acked[k]} = all
  BY <1>6, FS_AddElement
<1>8. all \subseteq Nat /\ all # {}
  BY <1>1, <1>5
<1> HIDE DEF all
<1>9. Highest(all) \in Nat /\ Highest(all) \in all /\ \A y \in all : y <= Highest(all)
  BY <1>7, <1>8, HighestIs
<1> QED BY <1>9 DEF all, new

\* A write returns, or goes on.
LEMMA TypeContinue ==
    ASSUME TypeOK, NEW n \in Nat, Continue(n)
    PROVE  /\ pending' \in Seq(Entries) /\ acked' \in [Keys -> Nat]
           /\ \/ pc' = "insert" /\ n < Len(pending') /\ UNCHANGED <<pending, acked>>
              \/ pc' = "idle" /\ pending' = <<>> /\ Len(pending) <= n
<1>1. CASE n < Len(pending)
  BY <1>1 DEF Continue, TypeOK
<1>2. CASE ~(n < Len(pending))
  <2>1. pc' = "idle" /\ pending' = <<>>
        /\ acked' = [k \in Keys |->
               Highest({acked[k]} \cup
                       {e.w : e \in {x \in Elems(pending) : x.key = k}})]
    BY <1>2 DEF Continue
  <2>2. \A k \in Keys : Highest({acked[k]} \cup
                       {e.w : e \in {x \in Elems(pending) : x.key = k}}) \in Nat
    BY AckedType
  <2>3. acked' \in [Keys -> Nat]
    BY <2>1, <2>2
  <2>4. Len(pending) \in Nat
    BY DEF TypeOK
  <2> QED BY <1>2, <2>1, <2>3, <2>4
<1> QED BY <1>1, <1>2

\* A memtable insert.
LEMMA TypeInsert ==
    ASSUME TypeOK, Insert
    PROVE  TypeOK'
<1>1. pc = "insert" /\ MemEntry \in Entries
  BY MemEntryIs DEF Insert
<1>2. SkipInsert(active, MemEntry) \in Tables
  BY <1>1, SkipInsertType DEF TypeOK
<1>3. memNext' \in Nat
  <2>1. memNext' = IF MemEntry.seq >= memNext THEN MemEntry.seq + 1 ELSE memNext
    BY DEF Insert, MemEntry
  <2>2. MemEntry.seq \in Nat /\ memNext \in Nat
    BY <1>1 DEF TypeOK, Entries
  <2> QED BY <2>1, <2>2
<1>4. at' = at + 1 /\ at + 1 \in Nat
  BY DEF Insert, TypeOK
<1>5. UNCHANGED <<disk, s3, walVars, nextSeq, handles, batch, recorded, nextWrite, misfiled,
                  restarts, scenario>>
      /\ numbering' \in {"inStep", "apart", "broken"}
  BY DEF Insert, TypeOK
<1>6. pending # <<>> /\ queue = <<>> /\ recorded
  <2>1. pending # <<>>
    BY <1>1 DEF TypeOK
  <2> QED BY <1>1, <2>1 DEF TypeOK
<1>7. queue' = <<>> /\ recorded'
  BY <1>5, <1>6, Zenon DEF walVars
<1>8. CASE active' = SkipInsert(active, MemEntry) /\ UNCHANGED <<frozen, generation>>
           /\ Continue(at + 1)
  <2>1. /\ pending' \in Seq(Entries) /\ acked' \in [Keys -> Nat]
        /\ \/ pc' = "insert" /\ at + 1 < Len(pending') /\ UNCHANGED <<pending, acked>>
           \/ pc' = "idle" /\ pending' = <<>> /\ Len(pending) <= at + 1
    BY <1>4, <1>8, TypeContinue
  <2> QED BY <1>1, <1>2, <1>3, <1>4, <1>5, <1>7, <1>8, <2>1
             DEF TypeOK, disk, s3, walVars
<1>9. CASE /\ frozen' = <<[gen |-> generation, entries |-> SkipInsert(active, MemEntry)]>>
           /\ active' = {} /\ generation' = generation + 1
           /\ pc' = "flush" /\ UNCHANGED <<acked, pending>>
  <2>1. {} \in Tables
    BY FS_EmptySet DEF Tables
  <2>2. frozen' \in Seq([gen : Nat, entries : Tables]) /\ Len(frozen') = 1
        /\ frozen' # <<>>
    BY <1>2, <1>9 DEF TypeOK
  <2>3. generation' \in Nat
    <3>1. generation \in Nat
      BY DEF TypeOK
    <3> QED BY <1>9, <3>1
  <2> QED BY <1>1, <1>3, <1>4, <1>5, <1>7, <1>9, <2>1, <2>2, <2>3
             DEF TypeOK, disk, s3, walVars
<1> QED BY <1>8, <1>9 DEF Insert, MemEntry

\* run_maintenance.
LEMMA TypeMaintain ==
    ASSUME TypeOK, Maintain
    PROVE  TypeOK'
<1>1. {} \in Tables
  BY FS_EmptySet DEF Tables
<1>2. frozen' \in Seq([gen : Nat, entries : Tables]) /\ Len(frozen') = 1
      /\ frozen' # <<>>
  BY DEF TypeOK, Maintain
<1>3. UNCHANGED <<disk, s3, walVars, nextSeq, memNext, handles, pending,
                  at, batch, recorded, ghosts>>
      /\ active' = {} /\ generation' = generation + 1 /\ pc = "idle" /\ pc' = "flush"
  BY DEF Maintain
<1>4. generation' \in Nat
  BY <1>3 DEF TypeOK
<1> QED BY <1>1, <1>2, <1>3, <1>4 DEF TypeOK, disk, s3, walVars, ghosts
\* No memtable, table or entry.
LEMMA NoneType ==
    /\ <<>> \in Seq([gen : Nat, entries : Tables])
    /\ <<>> \in Seq(Tables) /\ <<>> \in Seq(Entries)
    /\ {} \in Tables
<1>1. \A S : <<>> \in Seq(S)
  OBVIOUS
<1>2. {} \in Tables
  BY FS_EmptySet DEF Tables
<1> QED BY <1>1, <1>2

\* The memtable being flushed.
LEMMA FrozenType ==
    ASSUME TypeOK, pc = "flush"
    PROVE  /\ Frozen.gen \in Nat /\ Frozen.entries \in Tables
           /\ Frozen.entries \subseteq Entries /\ IsFiniteSet(Frozen.entries)
           /\ MaxSeqOf(Frozen.entries) \in Nat
<1> DEFINE R == [gen : Nat, entries : Tables]
<1>1. frozen[1] \in R
  <2>1. frozen \in Seq(R) /\ Len(frozen) = 1
    BY DEF TypeOK
  <2> HIDE DEF R
  <2> QED BY <2>1
<1>2. Frozen.gen \in Nat /\ Frozen.entries \in Tables
  BY <1>1 DEF Frozen
<1>3. Frozen.entries \subseteq Entries /\ IsFiniteSet(Frozen.entries)
  BY <1>2 DEF Tables
<1>4. \A e \in Frozen.entries : e.seq \in Nat
  BY <1>3 DEF Entries
<1>5. MaxSeqOf(Frozen.entries) \in Nat
  BY <1>3, <1>4, MaxSeqIs DEF MaxSeqOf
<1> QED BY <1>2, <1>3, <1>5

\* Segments that are deleted leave a smaller log.
LEMMA CleanupType ==
    ASSUME TypeOK, NEW gen, NEW limit, Cleanup(gen, limit)
    PROVE  /\ wal' \subseteq wal /\ IsFiniteSet(wal')
           /\ starts' \in [DOMAIN starts' -> Nat]
           /\ DOMAIN starts' \subseteq DOMAIN starts /\ IsFiniteSet(DOMAIN starts')
           /\ dirty' \subseteq dirty
<1> DEFINE gone == {s \in Cleaned(gen) : s < limit}
<1>1. /\ dirty' = {d \in dirty : d[2] # gen}
      /\ starts' = [s \in DOMAIN starts \ gone |-> starts[s]]
      /\ wal' = {e \in wal : e.seg \notin gone}
  BY DEF Cleanup
<1> HIDE DEF gone
<1>2. wal' \in SUBSET wal /\ DOMAIN starts' \in SUBSET DOMAIN starts /\ dirty' \subseteq dirty
  BY <1>1
<1>3. IsFiniteSet(wal) /\ IsFiniteSet(DOMAIN starts) /\ starts \in [DOMAIN starts -> Nat]
  BY DEF TypeOK
<1>4. IsFiniteSet(wal') /\ IsFiniteSet(DOMAIN starts')
  BY <1>2, <1>3, FS_Subset
<1>5. starts' \in [DOMAIN starts' -> Nat]
  BY <1>1, <1>3
<1> QED BY <1>2, <1>4, <1>5

\* The manifest update.
LEMMA CommitTableType ==
    ASSUME TypeOK, pc = "flush", CommitTable
    PROVE  ssts' \in Seq(Tables) /\ lastFlushed' \in Nat
<1>1. ssts \in Seq(Tables)
  BY DEF TypeOK
<1> QED BY <1>1, FrozenType DEF CommitTable

\* What a flush may have done to the disk and to object storage.
Persisted ==
    /\ wal' \subseteq [key : Keys, w : Nat \ {0}, seq : Nat, seg : Nat]
    /\ IsFiniteSet(wal')
    /\ starts' \in [DOMAIN starts' -> Nat]
    /\ DOMAIN starts' \subseteq Nat /\ IsFiniteSet(DOMAIN starts')
    /\ ssts' \in Seq(Tables) /\ lastFlushed' \in Nat
    /\ dirty' \subseteq Nat \X Nat

\* All of a flush keeps the types.
LEMMA FlushedType ==
    ASSUME TypeOK, pc = "flush", NEW limit, CommitTable, Cleanup(Frozen.gen, limit)
    PROVE  Persisted
<1>1. ssts' \in Seq(Tables) /\ lastFlushed' \in Nat
  BY CommitTableType
<1>2. /\ wal' \subseteq wal /\ IsFiniteSet(wal')
      /\ starts' \in [DOMAIN starts' -> Nat]
      /\ DOMAIN starts' \subseteq DOMAIN starts /\ IsFiniteSet(DOMAIN starts')
      /\ dirty' \subseteq dirty
  BY CleanupType
<1>3. /\ wal \subseteq [key : Keys, w : Nat \ {0}, seq : Nat, seg : Nat]
      /\ DOMAIN starts \subseteq Nat /\ dirty \subseteq Nat \X Nat
  BY DEF TypeOK
<1> QED BY <1>1, <1>2, <1>3 DEF Persisted

\* Part of a flush keeps the types.
LEMMA PartOfFlushType ==
    ASSUME TypeOK, pc = "flush", PartOfFlush
    PROVE  Persisted
<1>1. CASE UNCHANGED <<s3, disk, dirty>>
  BY <1>1 DEF TypeOK, Persisted, s3, disk
<1>2. CASE CommitTable /\ UNCHANGED <<disk, dirty>>
  BY <1>2, CommitTableType DEF TypeOK, Persisted, disk
<1>3. CASE CommitTable /\ \E limit \in 0 .. segment : Cleanup(Frozen.gen, limit)
  BY <1>3, FlushedType
<1> QED BY <1>1, <1>2, <1>3 DEF PartOfFlush

\* A flush that completes.
LEMMA TypeFlush ==
    ASSUME TypeOK, Flush
    PROVE  TypeOK'
<1>1. pc = "flush" /\ CommitTable /\ Cleanup(Frozen.gen, segment) /\ Continue(at)
      /\ handles' = Append(handles, Frozen.entries) /\ frozen' = <<>>
      /\ UNCHANGED <<queue, segment, walNext, nextSeq, memNext, generation, active,
                     at, batch, recorded, nextWrite, numbering, restarts, scenario>>
      /\ misfiled' = misfiled \cup {pending[i].w : i \in at + 1 .. Len(pending)}
  BY DEF Flush
<1>2. Persisted
  BY <1>1, FlushedType
<1>3. at \in Nat
  BY DEF TypeOK
<1>4. /\ pending' \in Seq(Entries) /\ acked' \in [Keys -> Nat]
      /\ \/ pc' = "insert" /\ at < Len(pending') /\ UNCHANGED <<pending, acked>>
         \/ pc' = "idle" /\ pending' = <<>> /\ Len(pending) <= at
  BY <1>1, <1>3, TypeContinue
<1>5. handles' \in Seq(Tables)
  <2>1. handles \in Seq(Tables)
    BY DEF TypeOK
  <2> QED BY <1>1, <2>1, FrozenType
<1>6. pc' = "insert" /\ pending' # <<>> => queue' = <<>> /\ recorded'
  <2>1. pc' = "insert" /\ pending' # <<>> => queue = <<>> /\ recorded
    BY <1>1, <1>4 DEF TypeOK
  <2> QED BY <1>1, <2>1, Zenon
<1>8. misfiled' \subseteq Nat
  <2>1. pending \in Seq(Entries) /\ misfiled \subseteq Nat
    BY DEF TypeOK
  <2>2. \A i \in at + 1 .. Len(pending) : pending[i].w \in Nat
    <3> TAKE i \in at + 1 .. Len(pending)
    <3>1. pending[i] \in Entries
      BY <1>3, <2>1
    <3> QED BY <3>1 DEF Entries
  <2> QED BY <1>1, <2>1, <2>2
<1>7. frozen' \in Seq([gen : Nat, entries : Tables])
  BY <1>1, NoneType
<1> QED BY <1>1, <1>2, <1>3, <1>4, <1>5, <1>6, <1>7, <1>8 DEF TypeOK, Persisted

\* One that fails.
LEMMA TypeFlushFails ==
    ASSUME TypeOK, FlushFails
    PROVE  TypeOK'
<1>1. pc = "flush" /\ frozen' = <<>> /\ pending' = <<>> /\ pc' = "idle"
      /\ UNCHANGED <<queue, segment, walNext, nextSeq, memNext, generation, active, at, batch,
                     recorded, acked, nextWrite, numbering, restarts, scenario>>
      /\ misfiled' = misfiled \cup {e.w : e \in Uncharged}
  BY DEF FlushFails
<1>2. Persisted /\ handles' \in Seq(Tables)
  <2>1. CASE PartOfFlush /\ UNCHANGED handles
    BY <1>1, <2>1, PartOfFlushType DEF TypeOK
  <2>2. CASE CommitTable /\ Cleanup(Frozen.gen, segment)
             /\ handles' = Append(handles, Frozen.entries)
    <3>1. handles \in Seq(Tables)
      BY DEF TypeOK
    <3> QED BY <1>1, <2>2, <3>1, FlushedType, FrozenType
  <2> QED BY <2>1, <2>2 DEF FlushFails
<1>3. frozen' \in Seq([gen : Nat, entries : Tables]) /\ pending' \in Seq(Entries)
  BY <1>1, NoneType
<1>4. misfiled' \subseteq Nat
  <2>1. \A e \in Uncharged : e.w \in Nat
    BY DEF TypeOK, Uncharged
  <2> QED BY <1>1, <2>1 DEF TypeOK
<1> QED BY <1>1, <1>2, <1>3, <1>4 DEF TypeOK, Persisted

\* A crash.
LEMMA TypeCrash ==
    ASSUME TypeOK, Crash
    PROVE  TypeOK'
<1>1. Persisted
  <2>1. CASE pc = "flush" /\ PartOfFlush
    BY <2>1, PartOfFlushType
  <2>2. CASE UNCHANGED <<disk, s3, dirty>>
    BY <2>2 DEF TypeOK, Persisted, s3, disk
  <2> QED BY <2>1, <2>2 DEF Crash, Interrupted
<1>3. restarts' = restarts + 1 /\ pc' = "down" /\ active' = {} /\ frozen' = <<>>
      /\ handles' = <<>> /\ pending' = <<>> /\ queue' = <<>>
      /\ UNCHANGED <<segment, walNext, nextSeq, memNext, generation, at, batch, recorded, acked,
                     nextWrite, numbering, misfiled, scenario>>
  BY DEF Crash
<1>2. frozen' \in Seq([gen : Nat, entries : Tables]) /\ pending' \in Seq(Entries)
      /\ handles' \in Seq(Tables) /\ active' \in Tables
  BY <1>3, NoneType
<1>4. restarts' \in Nat /\ recorded' \in BOOLEAN /\ batch' \in BOOLEAN
  <2>1. restarts \in Nat /\ recorded \in BOOLEAN /\ batch \in BOOLEAN
    BY DEF TypeOK
  <2> QED BY <1>3, <2>1
<1>5. /\ segment' \in Nat /\ walNext' \in Nat /\ nextSeq' \in Nat /\ memNext' \in Nat
      /\ generation' \in Nat /\ at' \in Nat /\ acked' \in [Keys -> Nat]
      /\ nextWrite' \in Nat \ {0} /\ scenario' \in Scenarios
      /\ numbering' \in {"inStep", "apart", "broken"} /\ misfiled' \subseteq Nat
  BY <1>3 DEF TypeOK
<1>6. frozen' = <<>> /\ pc' = "down" /\ pending' = <<>> /\ queue' = <<>>
      /\ queue' \in Seq([key : Keys, w : Nat \ {0}, last : BOOLEAN])
  BY <1>3
<1> QED BY <1>1, <1>2, <1>4, <1>5, <1>6 DEF TypeOK, Persisted

\* A recovery.
LEMMA TypeOpen ==
    ASSUME TypeOK, Open
    PROVE  TypeOK'
<1>1. active' \in Tables
  BY ReplayedType DEF Open
<1>2. memNext' \in Nat
  <2>1. lastFlushed \in Nat /\ Cardinality(replay_from(lastFlushed)) \in Nat
    BY ReplayType DEF TypeOK
  <2> QED BY <2>1 DEF Open, starting_seq
<1>3. nextSeq' \in Nat
  <2> DEFINE S == SeqsOf(replay_from(lastFlushed))
  <2>1. S \subseteq Nat /\ IsFiniteSet(S)
    <3>1. \A e \in replay_from(lastFlushed) : e.seq \in Nat
      BY ReplayType DEF TypeOK
    <3> QED BY <3>1, ReplayType, SeqsFinite
  <2>2. nextSeq' = 1 + Highest({lastFlushed} \cup S)
    BY DEF Open
  <2> HIDE DEF S
  <2>3. IsFiniteSet(S \cup {lastFlushed}) /\ lastFlushed \in Nat
        /\ S \cup {lastFlushed} = {lastFlushed} \cup S
    BY <2>1, FS_AddElement DEF TypeOK
  <2>4. Highest({lastFlushed} \cup S) \in Nat
    BY <2>1, <2>3, HighestIs
  <2> QED BY <2>2, <2>4
<1>4. walNext' \in Nat /\ segment' \in Nat
  BY HighestInWalType, NewSegment DEF Open
<1>5. /\ starts' \in [DOMAIN starts' -> Nat]
      /\ DOMAIN starts' \subseteq Nat /\ IsFiniteSet(DOMAIN starts')
  <2>1. starts' = [s \in DOMAIN starts \cup {segment'} |->
                      IF s = segment' THEN walNext' ELSE starts[s]]
    BY DEF Open
  <2>2. DOMAIN starts \subseteq Nat /\ IsFiniteSet(DOMAIN starts)
        /\ \A s \in DOMAIN starts : starts[s] \in Nat
    BY DEF TypeOK
  <2>3. IsFiniteSet(DOMAIN starts \cup {segment'})
    BY <2>2, FS_AddElement
  <2> QED BY <1>4, <2>1, <2>2, <2>3
<1>6. handles' = ssts /\ dirty' = {} /\ generation' = 0 /\ pc' = "idle" /\ pc = "down"
      /\ UNCHANGED <<wal, s3, queue, frozen, pending, at, batch, recorded, acked, nextWrite,
                     misfiled, restarts, scenario>>
  BY DEF Open
<1>7. numbering' \in {"inStep", "apart", "broken"}
  <2>1. numbering \in {"inStep", "apart", "broken"}
    BY DEF TypeOK
  <2> QED BY <2>1 DEF Open
<1> QED BY <1>1, <1>2, <1>3, <1>4, <1>5, <1>6, <1>7 DEF TypeOK, s3

\* Every step keeps the types.
LEMMA TypeStep ==
    ASSUME TypeOK, Next
    PROVE  TypeOK'
<1>1. CASE Put \/ PutBatch
  <2>1. PICK keys \in Seq(Keys), isBatch \in BOOLEAN : Len(keys) > 0 /\ Submit(keys, isBatch)
    BY <1>1, SubmitSome
  <2> QED BY <2>1, TypeSubmit
<1> QED BY <1>1, TypeCommit, TypeWal, TypeInsert, TypeMaintain, TypeFlush,
           TypeFlushFails, TypeCrash, TypeOpen DEF Next, Progress
-----------------------------------------------------------------------------
(* Segments *)

\* What a cleanup deletes: segments other than the current one, whose charges
\* were all of the flushed generation, with their entries.
LEMMA CleanupIs ==
    ASSUME TypeOK, NEW gen, NEW limit, Cleanup(gen, limit)
    PROVE  /\ \A s \in DOMAIN starts \ DOMAIN starts' :
                 s # segment /\ <<s, gen>> \in dirty /\ \A d \in dirty : d[1] = s => d[2] = gen
           /\ \A s \in DOMAIN starts' : starts'[s] = starts[s]
           /\ \A e \in wal : e.seg \in DOMAIN starts' => e \in wal'
           /\ \A e \in wal' : e.seg \in DOMAIN starts => e.seg \in DOMAIN starts'
           /\ dirty' = {d \in dirty : d[2] # gen}
<1> DEFINE gone == {s \in Cleaned(gen) : s < limit}
<1>1. /\ dirty' = {d \in dirty : d[2] # gen}
      /\ starts' = [s \in DOMAIN starts \ gone |-> starts[s]]
      /\ wal' = {e \in wal : e.seg \notin gone}
  BY DEF Cleanup
<1>2. \A s \in gone : s # segment /\ <<s, gen>> \in dirty
                      /\ \A d \in dirty : d[1] = s => d[2] = gen
  BY DEF Cleaned
<1> HIDE DEF gone
<1> QED BY <1>1, <1>2

\* What a flush or a part of it does to the segments: the current one stays.
LEMMA PartOfFlushSegments ==
    ASSUME TypeOK, SegmentsInv, pc = "flush",
           PartOfFlush \/ (CommitTable /\ Cleanup(Frozen.gen, segment))
    PROVE  /\ \A x \in wal' : x.seg \in DOMAIN starts'
           /\ segment \in DOMAIN starts' /\ DOMAIN starts' \subseteq DOMAIN starts
           /\ dirty' \subseteq dirty
<1>1. CASE \E limit : Cleanup(Frozen.gen, limit)
  <2>1. PICK limit : Cleanup(Frozen.gen, limit)
    BY <1>1
  <2>2. wal' \subseteq wal /\ DOMAIN starts' \subseteq DOMAIN starts /\ dirty' \subseteq dirty
    BY <2>1, CleanupType
  <2>3. /\ \A s \in DOMAIN starts \ DOMAIN starts' : s # segment
        /\ \A e \in wal' : e.seg \in DOMAIN starts => e.seg \in DOMAIN starts'
    BY <2>1, CleanupIs
  <2> QED BY <2>2, <2>3 DEF SegmentsInv
<1>2. CASE UNCHANGED <<disk, dirty>>
  BY <1>2 DEF SegmentsInv, disk
<1> QED BY <1>1, <1>2 DEF PartOfFlush

\* Every step keeps the entries in retained segments.
LEMMA SegmentsStep ==
    ASSUME TypeOK, TypeOK', SegmentsInv, Next
    PROVE  SegmentsInv'
<1> USE DEF SegmentsInv
<1>1. CASE Put \/ PutBatch
  <2>1. pc = "idle" /\ pc' = "wal" /\ UNCHANGED <<disk, segment, dirty, memVars>>
    BY <1>1, SubmitSome DEF Submit
  <2> QED BY <2>1 DEF disk, memVars
<1>2. CASE Commit
  <2>1. pc # "down" /\ UNCHANGED <<pc, dirty, generation, frozen>>
    BY <1>2, CommitIs DEF opVars, memVars
  <2>2. wal' = wal \cup {Appended} /\ Appended.seg = segment
    BY <1>2, CommitIs
  <2>3. CASE UNCHANGED <<segment, starts>>
    BY <2>1, <2>2, <2>3 DEF Frozen
  <2>4. CASE segment' = segment + 1 /\ DOMAIN starts' = DOMAIN starts \cup {segment + 1}
    <3>1. segment \in Nat /\ DOMAIN starts \subseteq Nat
      BY DEF TypeOK
    <3>2. \A x \in wal' : x.seg \in DOMAIN starts'
      BY <2>1, <2>2, <2>4
    <3>3. segment' \in DOMAIN starts' /\ \A s \in DOMAIN starts' : s <= segment'
      BY <2>1, <2>4, <3>1
    <3> QED BY <2>1, <3>2, <3>3 DEF Frozen
  <2> QED BY <1>2, <2>3, <2>4, CommitIs
<1>3. CASE RecordWrite
  <2>1. pc = "wal" /\ pc' = "wal" /\ UNCHANGED <<disk, segment, generation>>
        /\ dirty' = dirty \cup {<<segment, generation>>}
    BY <1>3 DEF RecordWrite, memVars
  <2>2. generation \in Nat /\ <<segment, generation>>[2] = generation
    BY DEF TypeOK
  <2>3. \A d \in dirty' : d[2] <= generation
    BY <2>1, <2>2
  <2> QED BY <2>1, <2>3 DEF disk
<1>4. CASE Durable \/ Cancel
  <2>1. pc = "wal" /\ pc' \in {"insert", "idle"} /\ UNCHANGED <<disk, walVars, generation>>
    BY <1>4 DEF Durable, Cancel, memVars
  <2> QED BY <2>1 DEF disk, walVars
<1>5. CASE (Insert /\ pc' # "flush") 
  <2>1. pc = "insert" /\ UNCHANGED <<disk, walVars, generation>> /\ pc' # "flush"
    BY <1>5 DEF Insert
  <2> QED BY <2>1 DEF disk, walVars
<1>6. CASE (Insert /\ pc' = "flush") \/ Maintain
  <2>1. pc # "down" /\ pc # "flush" /\ UNCHANGED <<disk, walVars>>
    BY <1>6 DEF Insert, Maintain
  <2>2. generation' = generation + 1 /\ \E t : frozen' = <<[gen |-> generation, entries |-> t]>>
    <3>1. CASE Maintain
      BY <3>1 DEF Maintain
    <3>2. CASE Insert /\ pc' = "flush"
      BY <3>2 DEF Insert, Continue
    <3> QED BY <1>6, <3>1, <3>2
  <2>3. frozen'[1].gen = generation /\ generation \in Nat
    BY <2>2 DEF TypeOK
  <2>4. dirty \subseteq Nat \X Nat /\ \A d \in dirty : d[2] <= generation
    BY <2>1 DEF TypeOK
  <2>5. \A d \in dirty : d[2] \in Nat
    BY <2>4
  <2> QED BY <2>1, <2>2, <2>3, <2>4, <2>5 DEF disk, walVars, Frozen
<1>7. CASE Flush \/ FlushFails
  <2>1. pc = "flush" /\ pc' \in {"insert", "idle"} /\ UNCHANGED <<segment, generation>>
        /\ (PartOfFlush \/ (CommitTable /\ Cleanup(Frozen.gen, segment)))
    BY <1>7 DEF Flush, FlushFails, Continue
  <2> QED BY <2>1, PartOfFlushSegments
<1>8. CASE Crash
  <2>1. pc' = "down"
    BY <1>8 DEF Crash
  <2>2. \A e \in wal' : e.seg \in DOMAIN starts'
    <3>1. CASE pc = "flush" /\ PartOfFlush
      BY <3>1, PartOfFlushSegments
    <3>2. CASE UNCHANGED <<disk, s3, dirty>>
      BY <3>2 DEF disk
    <3> QED BY <1>8, <3>1, <3>2 DEF Crash, Interrupted
  <2> QED BY <2>1, <2>2
<1>9. CASE Open
  <2>1. /\ segment' = Highest(DOMAIN starts) + 1
        /\ DOMAIN starts' = DOMAIN starts \cup {segment'}
        /\ dirty' = {} /\ pc' = "idle" /\ wal' = wal
    BY <1>9 DEF Open
  <2>2. DOMAIN starts \subseteq Nat /\ segment' \in Nat /\ \A s \in DOMAIN starts : s < segment'
    BY <2>1, NewSegment DEF TypeOK
  <2>3. \A s \in DOMAIN starts' : s <= segment'
    BY <2>1, <2>2
  <2> QED BY <2>1, <2>3
<1> QED BY <1>1, <1>2, <1>3, <1>4, <1>5, <1>6, <1>7, <1>8, <1>9
           DEF Next, Progress
-----------------------------------------------------------------------------
(* The log *)

\* The highest number in the log.
LEMMA TopIs ==
    ASSUME TypeOK
    PROVE  /\ Top \in Nat /\ \A e \in wal : e.seq \in Nat /\ e.seq <= Top
           /\ wal = {} => Top = 0
           /\ wal # {} => \E e \in wal : e.seq = Top
<1>1. IsFiniteSet(wal) /\ \A e \in wal : e.seq \in Nat
  BY DEF TypeOK
<1> QED BY <1>1, MaxSeqIs DEF Top

\* The order of the log: by number, by write and by segment.
LEMMA LogOrder ==
    ASSUME TypeOK, LogInv, NEW e \in wal, NEW f \in wal
    PROVE  /\ e.seq \in Nat /\ e.w \in Nat /\ e.seg \in Nat
           /\ e.w <= f.w <=> e.seq <= f.seq
           /\ e.w = f.w => e = f
           /\ e.seq = f.seq => e = f
<1>1. \A x \in wal : x.seq \in Nat /\ x.w \in Nat /\ x.seg \in Nat
  BY DEF TypeOK
<1>2. \A x, y \in wal : x.seq = y.seq => x = y
  BY DEF LogInv
<1>3. \A x, y \in wal : x.seq < y.seq => x.w < y.w
  BY DEF LogInv
<1> QED BY <1>1, <1>2, <1>3

\* No segment with entries at or above the minimum is skipped.
LEMMA ReplayIs ==
    ASSUME TypeOK, LogInv
    PROVE  replay_from(lastFlushed) = {e \in wal : e.seq >= lastFlushed}
<1>1. ASSUME NEW e \in wal, e.seq >= lastFlushed
      PROVE  ~Skipped(e.seg, lastFlushed)
  <2> SUFFICES ASSUME NEW t \in DOMAIN starts, t > e.seg, starts[t] <= lastFlushed
               PROVE  FALSE
    BY DEF Skipped
  <2>1. starts[t] \in Nat /\ lastFlushed \in Nat /\ e.seq \in Nat /\ t \in Nat /\ e.seg \in Nat
    BY DEF TypeOK
  <2>2. e.seq < starts[t]
    BY <2>1 DEF LogInv
  <2> QED BY <1>1, <2>1, <2>2
<1> QED BY <1>1 DEF replay_from

\* WalWriter::open goes on after the highest number there is.
LEMMA HighestInWalIs ==
    ASSUME TypeOK, LogInv
    PROVE  HighestInWal = Top
<1> DEFINE segs == {e.seg : e \in wal}
           last == Highest(segs)
           part == {e \in wal : e.seg = last}
<1>0. HighestInWal = Highest(SeqsOf(part))
  BY DEF HighestInWal
<1>1. CASE wal = {}
  <2>1. SeqsOf(part) = {}
    BY <1>1 DEF SeqsOf
  <2>2. Highest(SeqsOf(part)) = 0
    BY <2>1 DEF Highest
  <2> QED BY <1>0, <1>1, <2>2, TopIs
<1>2. CASE wal # {}
  <2>1. PICK e \in wal : e.seq = Top
    BY <1>2, TopIs
  <2>2. \A f \in wal : f.seg \in Nat /\ f.seg <= e.seg
    <3> TAKE f \in wal
    <3>1. f.seq <= e.seq /\ f.seq \in Nat /\ e.seq \in Nat /\ f.seg \in Nat /\ e.seg \in Nat
      BY <2>1, TopIs DEF TypeOK
    <3>2. CASE f.seq < e.seq
      BY <3>1, <3>2 DEF LogInv
    <3>3. CASE f.seq = e.seq
      <4>1. f = e
        BY <3>3, LogOrder
      <4> QED BY <3>1, <4>1
    <3> QED BY <3>1, <3>2, <3>3
  <2>3. last = e.seg
    <3>1. segs \subseteq Nat /\ e.seg \in segs /\ \A s \in segs : s <= e.seg
      BY <2>2
    <3> HIDE DEF segs
    <3> QED BY <3>1, HighestAt
  <2> HIDE DEF last
  <2>4. SeqsOf(part) \subseteq Nat /\ Top \in SeqsOf(part) /\ \A n \in SeqsOf(part) : n <= Top
    BY <2>1, <2>3, TopIs DEF SeqsOf
  <2> QED BY <1>0, <2>4, HighestAt
<1> QED BY <1>1, <1>2

\* What a recovery finds is no older than what was acknowledged: the log decides

\* What a flush, or a part of it, does to disk and object storage.
LEMMA FlushDisk ==
    ASSUME TypeOK, pc = "flush", PartOfFlush \/ (CommitTable /\ Cleanup(Frozen.gen, segment))
    PROVE  /\ wal' \subseteq wal /\ DOMAIN starts' \subseteq DOMAIN starts
           /\ \A s \in DOMAIN starts' : starts'[s] = starts[s]
           /\ CommitTable \/ UNCHANGED <<wal, ssts, lastFlushed, dirty>>
<1>1. CASE CommitTable /\ \E limit : Cleanup(Frozen.gen, limit)
  <2>1. PICK limit : Cleanup(Frozen.gen, limit)
    BY <1>1
  <2> QED BY <1>1, <2>1, CleanupType, CleanupIs
<1>2. CASE UNCHANGED <<s3, disk, dirty>>
  BY <1>2 DEF s3, disk
<1>3. CASE CommitTable /\ UNCHANGED <<disk, dirty>>
  BY <1>3 DEF disk
<1> QED BY <1>1, <1>2, <1>3 DEF PartOfFlush

\* A crash leaves disk and object storage as they are, or with a part of a flush.
LEMMA CrashIs ==
    ASSUME TypeOK, Crash
    PROVE  /\ pc # "down" /\ pc' = "down"
           /\ wal' \subseteq wal /\ DOMAIN starts' \subseteq DOMAIN starts
           /\ \A s \in DOMAIN starts' : starts'[s] = starts[s]
           /\ (pc = "flush" /\ CommitTable) \/ UNCHANGED <<wal, ssts, lastFlushed>>
           /\ active' = {} /\ frozen' = <<>> /\ pending' = <<>> /\ queue' = <<>>
           /\ UNCHANGED <<segment, walNext, nextSeq, memNext, at, batch, acked, nextWrite,
                          numbering, misfiled, scenario>>
<1>1. CASE pc = "flush" /\ PartOfFlush
  BY <1>1, FlushDisk DEF Crash
<1>2. CASE UNCHANGED <<disk, s3, dirty>>
  BY <1>2 DEF Crash, disk, s3
<1> QED BY <1>1, <1>2 DEF Crash, Interrupted

\* The steps that touch neither disk nor object storage nor the log's numbers.
LEMMA QuietIs ==
    ASSUME TypeOK, Put \/ PutBatch \/ RecordWrite \/ Durable \/ Cancel \/ Insert \/ Maintain
    PROVE  /\ UNCHANGED <<wal, starts, ssts, lastFlushed, segment, walNext, handles>>
           /\ pc # "down" /\ pc' # "down" /\ nextWrite' \in Nat /\ nextWrite <= nextWrite'
           /\ scenario' = scenario /\ misfiled' = misfiled
<1>1. CASE Put \/ PutBatch
  <2>1. PICK keys \in Seq(Keys), isBatch \in BOOLEAN : Len(keys) > 0 /\ Submit(keys, isBatch)
    BY <1>1, SubmitSome
  <2>2. Len(keys) \in Nat /\ nextWrite \in Nat
    BY DEF TypeOK
  <2> QED BY <2>1, <2>2 DEF Submit, disk, s3, memVars
<1>2. CASE RecordWrite \/ Durable \/ Cancel \/ Insert \/ Maintain
  <2>1. nextWrite \in Nat /\ nextWrite' = nextWrite
    BY <1>2 DEF TypeOK, RecordWrite, Durable, Cancel, Insert, Maintain, ghosts
  <2> QED BY <1>2, <2>1 DEF RecordWrite, Durable, Cancel, Insert, Continue, Maintain, disk, s3,
             walVars, memVars, ghosts
<1> QED BY <1>1, <1>2

\* Every step keeps the log in order.
LEMMA LogStep ==
    ASSUME TypeOK, TypeOK', SegmentsInv, LogInv, QueueInv, Next
    PROVE  LogInv'
<1>0. \A x \in wal : x.seq \in Nat /\ x.w \in Nat /\ x.seg \in Nat
  BY DEF TypeOK
<1>1. CASE Put \/ PutBatch \/ RecordWrite \/ Durable \/ Cancel \/ Insert \/ Maintain
  <2>1. UNCHANGED <<wal, starts, walNext>> /\ pc # "down"
    BY <1>1, QuietIs
  <2> QED BY <2>1 DEF LogInv
<1>2. CASE Commit
  <2>1. /\ wal' = wal \cup {Appended} /\ Appended.w = queue[1].w
        /\ Appended.seq = walNext /\ Appended.seg = segment /\ walNext' = walNext + 1
        /\ 1 \in DOMAIN queue /\ pc # "down" /\ pc' = pc
    BY <1>2, CommitIs DEF opVars
  <2>2. walNext \in Nat /\ segment \in Nat
    BY DEF TypeOK
  <2>3. \A x \in wal : x.seq < walNext /\ x.w < queue[1].w /\ x.seg <= segment
    BY <2>1 DEF LogInv, QueueInv, SegmentsInv
  <2>4. \A x, y \in wal' : x.seq = y.seq => x = y
    BY <1>0, <2>1, <2>2, <2>3 DEF LogInv
  <2>5. \A x, y \in wal' : x.seq < y.seq => x.w < y.w /\ x.seg <= y.seg
    <3> SUFFICES ASSUME NEW x \in wal', NEW y \in wal', x.seq < y.seq
                 PROVE  x.w < y.w /\ x.seg <= y.seg
      OBVIOUS
    <3>1. CASE y = Appended
      <4>1. x # Appended
        BY <2>1, <2>2, <3>1
      <4> QED BY <2>1, <2>3, <3>1, <4>1
    <3>2. CASE y # Appended /\ x # Appended
      BY <2>1, <3>2 DEF LogInv
    <3>3. CASE y # Appended /\ x = Appended
      <4>1. y.seq < walNext /\ y.seq \in Nat
        BY <1>0, <2>1, <2>3, <3>3
      <4> QED BY <2>1, <2>2, <3>3, <4>1
    <3> QED BY <3>1, <3>2, <3>3
  <2>6. \A x \in wal' : x.seq < walNext'
    BY <1>0, <2>1, <2>2, <2>3
  <2>7. \A x \in wal' : \A s \in DOMAIN starts' : x.seg < s => x.seq < starts'[s]
    <3> SUFFICES ASSUME NEW x \in wal', NEW s \in DOMAIN starts', x.seg < s
                 PROVE  x.seq < starts'[s]
      OBVIOUS
    <3>1. CASE s \in DOMAIN starts /\ starts'[s] = starts[s]
      <4>1. s <= segment /\ s \in Nat
        BY <2>1, <3>1 DEF SegmentsInv, TypeOK
      <4>2. x \in wal
        BY <2>1, <2>2, <4>1
      <4> QED BY <3>1, <4>2 DEF LogInv
    <3>2. CASE starts'[s] = walNext'
      BY <2>6, <3>2
    <3>3. \/ s \in DOMAIN starts /\ starts'[s] = starts[s]
          \/ starts'[s] = walNext'
      <4>1. CASE UNCHANGED starts
        BY <4>1
      <4>2. CASE starts' = [t \in DOMAIN starts \cup {segment + 1} |->
                               IF t = segment + 1 THEN walNext' ELSE starts[t]]
        BY <4>2
      <4> QED BY <1>2, <4>1, <4>2, CommitIs
    <3> QED BY <3>1, <3>2, <3>3
  <2> QED BY <2>4, <2>5, <2>6, <2>7 DEF LogInv
<1>3. CASE Flush \/ FlushFails
  <2>1. pc = "flush" /\ pc' # "down" /\ walNext' = walNext
        /\ (PartOfFlush \/ (CommitTable /\ Cleanup(Frozen.gen, segment)))
    BY <1>3 DEF Flush, FlushFails, Continue
  <2>2. /\ wal' \subseteq wal /\ DOMAIN starts' \subseteq DOMAIN starts
        /\ \A s \in DOMAIN starts' : starts'[s] = starts[s]
    BY <2>1, FlushDisk
  <2> QED BY <2>1, <2>2 DEF LogInv
<1>4. CASE Crash
  <2>1. /\ pc' = "down" /\ wal' \subseteq wal /\ DOMAIN starts' \subseteq DOMAIN starts
        /\ \A s \in DOMAIN starts' : starts'[s] = starts[s]
    BY <1>4, CrashIs
  <2> QED BY <2>1 DEF LogInv
<1>5. CASE Open
  <2>1. /\ wal' = wal /\ walNext' = HighestInWal + 1
        /\ starts' = [s \in DOMAIN starts \cup {segment'} |->
                         IF s = segment' THEN walNext' ELSE starts[s]]
    BY <1>5 DEF Open
  <2>2. \A x \in wal : x.seq < walNext'
    BY <2>1, HighestInWalIs, TopIs
  <2>3. \A x \in wal' : \A s \in DOMAIN starts' : x.seg < s => x.seq < starts'[s]
    BY <2>1, <2>2 DEF LogInv
  <2> QED BY <2>1, <2>2, <2>3 DEF LogInv
<1> QED BY <1>1, <1>2, <1>3, <1>4, <1>5 DEF Next, Progress
-----------------------------------------------------------------------------
(* Memory and acknowledgements *)

\* Without a frozen memtable memory is the active one.
LEMMA MemoryIs ==
    ASSUME TypeOK, pc # "flush"
    PROVE  InMemory = active /\ frozen = <<>>
BY DEF TypeOK, InMemory

\* What is in memory are entries.
LEMMA MemoryType ==
    ASSUME TypeOK
    PROVE  InMemory \subseteq Entries /\ \A e \in InMemory : e.w \in Nat \ {0} /\ e.seq \in Nat
<1>1. active \subseteq Entries
  BY DEF TypeOK, Tables
<1>2. CASE pc = "flush"
  <2>1. Frozen.entries \subseteq Entries
    BY <1>2, FrozenType
  <2> QED BY <1>1, <2>1 DEF InMemory, Entries
<1>3. CASE pc # "flush"
  BY <1>1, <1>3, MemoryIs DEF Entries
<1> QED BY <1>2, <1>3

\* So are the tables.
LEMMA SavedType ==
    ASSUME TypeOK, NEW t \in DOMAIN ssts, NEW e \in ssts[t]
    PROVE  e \in Entries /\ e.w \in Nat \ {0} /\ e.seq \in Nat
<1>1. ssts[t] \in Tables
  BY DEF TypeOK
<1> QED BY <1>1 DEF Tables, Entries

\* SkipInsert keeps the entries with another number.
LEMMA SkipInsertIs ==
    ASSUME NEW t, NEW e
    PROVE  /\ e \in SkipInsert(t, e)
           /\ \A o \in SkipInsert(t, e) : o \in t \/ o = e
           /\ \A o \in t : o.seq # e.seq => o \in SkipInsert(t, e)
           /\ \A o \in t : o.key # e.key => o \in SkipInsert(t, e)
BY DEF SkipInsert

\* What a write that goes on acknowledges.
LEMMA AckIs ==
    ASSUME TypeOK, NEW n \in Nat, Continue(n)
    PROVE  \/ pc' = "insert" /\ UNCHANGED <<pending, acked>> /\ n < Len(pending)
           \/ /\ pc' = "idle" /\ pending' = <<>> /\ Len(pending) <= n
              /\ \A k \in Keys :
                    /\ acked[k] <= acked'[k]
                    /\ \/ acked'[k] = acked[k]
                       \/ \E i \in DOMAIN pending :
                             acked'[k] = pending[i].w /\ pending[i].key = k
<1>1. pending \in Seq(Entries) /\ Len(pending) \in Nat
  BY DEF TypeOK
<1>2. CASE n < Len(pending)
  BY <1>2 DEF Continue
<1>3. CASE ~(n < Len(pending))
  <2>1. pc' = "idle" /\ pending' = <<>>
        /\ acked' = [k \in Keys |->
               Highest({acked[k]} \cup
                       {e.w : e \in {x \in Elems(pending) : x.key = k}})]
    BY <1>3 DEF Continue
  <2>2. ASSUME NEW k \in Keys
        PROVE  /\ acked[k] <= acked'[k]
               /\ \/ acked'[k] = acked[k]
                  \/ \E i \in DOMAIN pending : acked'[k] = pending[i].w /\ pending[i].key = k
    <3> DEFINE new == {e.w : e \in {x \in Elems(pending) : x.key = k}}
    <3>1. acked'[k] = Highest({acked[k]} \cup new)
      BY <2>1
    <3>2. /\ Highest({acked[k]} \cup new) \in {acked[k]} \cup new
          /\ acked[k] <= Highest({acked[k]} \cup new)
      BY AckedType
    <3>3. \A y \in new : \E i \in DOMAIN pending : y = pending[i].w /\ pending[i].key = k
      BY DEF Elems
    <3> HIDE DEF new
    <3> QED BY <3>1, <3>2, <3>3
  <2>3. Len(pending) <= n
    BY <1>1, <1>3
  <2>4. pc' = "idle" /\ pending' = <<>>
    BY <2>1
  <2> QED BY <2>2, <2>3, <2>4
<1> QED BY <1>2, <1>3

\* A memtable insert.
LEMMA InsertIs ==
    ASSUME TypeOK, Insert
    PROVE  /\ pc = "insert" /\ at' = at + 1 /\ at \in Nat /\ at + 1 \in DOMAIN pending
           /\ memNext' = IF MemEntry.seq >= memNext THEN MemEntry.seq + 1 ELSE memNext
           /\ numbering' = IF MemEntry.seq < memNext THEN "broken" ELSE numbering
           /\ MemEntry \in Entries /\ MemEntry.w = pending[at + 1].w
           /\ MemEntry.key = pending[at + 1].key
           /\ MemEntry.seq = IF batch THEN pending[at + 1].seq ELSE memNext
           /\ queue = <<>> /\ queue' = <<>> /\ nextWrite' = nextWrite
           /\ InMemory = active /\ frozen = <<>>
           /\ InMemory' = SkipInsert(active, MemEntry)
           /\ \/ /\ active' = SkipInsert(active, MemEntry) /\ frozen' = <<>>
                 /\ pc' # "flush" /\ UNCHANGED generation
                 /\ Continue(at + 1)
              \/ /\ frozen' = <<[gen |-> generation, entries |-> SkipInsert(active, MemEntry)]>>
                 /\ frozen' # <<>> /\ Frozen'.entries = SkipInsert(active, MemEntry)
                 /\ Frozen'.gen = generation
                 /\ active' = {} /\ generation' = generation + 1
                 /\ pc' = "flush" /\ UNCHANGED <<acked, pending>>
           /\ UNCHANGED <<disk, s3, walVars, nextSeq, handles, batch, recorded, nextWrite,
                          misfiled, restarts, scenario>>
<1>1. pc = "insert" /\ at' = at + 1 /\ at \in Nat
      /\ numbering' = (IF MemEntry.seq < memNext THEN "broken" ELSE numbering)
      /\ memNext' = (IF MemEntry.seq >= memNext THEN MemEntry.seq + 1 ELSE memNext)
      /\ UNCHANGED <<disk, s3, walVars, nextSeq, handles, batch, recorded, nextWrite, misfiled,
                     restarts, scenario>>
  BY DEF Insert, MemEntry, TypeOK
<1>2. MemEntry \in Entries /\ MemEntry.w = pending[at + 1].w
      /\ MemEntry.key = pending[at + 1].key /\ at + 1 \in DOMAIN pending
      /\ MemEntry.seq = IF batch THEN pending[at + 1].seq ELSE memNext
  BY <1>1, MemEntryIs
<1>3. frozen = <<>> /\ InMemory = active
  BY <1>1, MemoryIs
<1>4. queue = <<>>
  <2>1. pending # <<>>
    BY <1>1 DEF TypeOK
  <2> QED BY <1>1, <2>1 DEF TypeOK
<1>5. CASE active' = SkipInsert(active, MemEntry) /\ UNCHANGED <<frozen, generation>>
           /\ Continue(at + 1)
  <2>1. frozen' = <<>> /\ pc' # "flush"
    BY <1>3, <1>5 DEF Continue
  <2>2. InMemory' = active'
    BY <2>1 DEF InMemory
  <2> QED BY <1>1, <1>2, <1>3, <1>4, <1>5, <2>1, <2>2 DEF walVars
<1>6. CASE /\ frozen' = <<[gen |-> generation, entries |-> SkipInsert(active, MemEntry)]>>
           /\ active' = {} /\ generation' = generation + 1
           /\ pc' = "flush" /\ UNCHANGED <<acked, pending>>
  <2>1. frozen' # <<>> /\ Frozen'.entries = SkipInsert(active, MemEntry)
        /\ Frozen'.gen = generation
    BY <1>6 DEF Frozen
  <2>2. InMemory' = SkipInsert(active, MemEntry)
    BY <1>6, <2>1 DEF InMemory
  <2> QED BY <1>1, <1>2, <1>3, <1>4, <1>6, <2>1, <2>2 DEF walVars
<1> QED BY <1>5, <1>6 DEF Insert, MemEntry

\* The freeze of what is in memory.
LEMMA MaintainIs ==
    ASSUME TypeOK, Maintain
    PROVE  /\ pc = "idle" /\ pc' = "flush" /\ InMemory' = InMemory /\ InMemory = active
           /\ Frozen'.entries = active /\ Frozen'.gen = generation /\ active # {}
           /\ active' = {} /\ frozen' # <<>> /\ frozen = <<>>
           /\ generation' = generation + 1 /\ pending = <<>>
           /\ UNCHANGED <<disk, s3, walVars, nextSeq, memNext, handles, pending, at, batch,
                          recorded, ghosts>>
<1>1. /\ pc = "idle" /\ pc' = "flush" /\ active # {} /\ active' = {}
      /\ frozen' = <<[gen |-> generation, entries |-> active]>>
      /\ generation' = generation + 1
      /\ UNCHANGED <<disk, s3, walVars, nextSeq, memNext, handles, pending, at, batch, recorded,
                     ghosts>>
  BY DEF Maintain
<1>2. frozen' # <<>> /\ Frozen'.entries = active /\ Frozen'.gen = generation
  BY <1>1 DEF Frozen
<1>3. InMemory' = active
  BY <1>1, <1>2 DEF InMemory
<1>4. pending = <<>> /\ frozen = <<>> /\ InMemory = active
  BY <1>1, MemoryIs DEF TypeOK
<1> QED BY <1>1, <1>2, <1>3, <1>4

\* The steps of a write before it enters the memtable leave memory alone.
LEMMA WaitIs ==
    ASSUME TypeOK, Put \/ PutBatch \/ Commit \/ RecordWrite \/ Durable \/ Cancel
    PROVE  /\ InMemory' = InMemory /\ pc # "down" /\ pc' # "down"
           /\ UNCHANGED <<memNext, generation, active, frozen, handles, ssts, lastFlushed, acked,
                          misfiled, scenario>>
           /\ (Commit /\ pc = "flush") \/ (Commit /\ pc = "insert") \/ pc \in {"idle", "wal"}
<1>1. CASE Put \/ PutBatch
  <2>1. PICK keys \in Seq(Keys), isBatch \in BOOLEAN : Len(keys) > 0 /\ Submit(keys, isBatch)
    BY <1>1, SubmitSome
  <2>2. UNCHANGED <<memVars, s3>> /\ pc = "idle" /\ pc' = "wal"
        /\ UNCHANGED <<acked, misfiled, scenario>>
    BY <2>1 DEF Submit
  <2> QED BY <2>2 DEF memVars, s3, InMemory, Frozen
<1>2. CASE Commit
  <2>1. UNCHANGED <<s3, memVars, opVars, ghosts>> /\ pc # "down"
    BY <1>2, CommitIs
  <2>2. pc \in {"idle", "wal", "insert", "flush"}
    BY <2>1 DEF TypeOK
  <2> QED BY <1>2, <2>1, <2>2 DEF memVars, s3, opVars, ghosts, InMemory, Frozen
<1>3. CASE RecordWrite \/ Durable \/ Cancel
  BY <1>3 DEF RecordWrite, Durable, Cancel, memVars, s3, ghosts, InMemory, Frozen
<1> QED BY <1>1, <1>2, <1>3

\* A flush, completed or not, empties memory.
LEMMA FlushIs ==
    ASSUME TypeOK, PendingInv, Flush \/ FlushFails
    PROVE  /\ pc = "flush" /\ pc' # "down" /\ InMemory = Frozen.entries /\ InMemory' = {}
           /\ active = {} /\ active' = {} /\ frozen # <<>> /\ frozen' = <<>>
           /\ PartOfFlush \/ (CommitTable /\ Cleanup(Frozen.gen, segment))
           /\ UNCHANGED <<queue, segment, walNext, nextSeq, memNext, generation, at, batch,
                          recorded, nextWrite, numbering, scenario>>
<1>1. /\ pc = "flush" /\ pc' # "down" /\ frozen' = <<>> /\ active' = active
      /\ PartOfFlush \/ (CommitTable /\ Cleanup(Frozen.gen, segment))
      /\ UNCHANGED <<queue, segment, walNext, nextSeq, memNext, generation, at, batch, recorded,
                     nextWrite, numbering, scenario>>
  BY DEF Flush, FlushFails, Continue
<1>2. active = {} /\ frozen # <<>>
  BY <1>1 DEF PendingInv, TypeOK
<1> QED BY <1>1, <1>2 DEF InMemory
-----------------------------------------------------------------------------
(* The order of the writes *)

\* What is in tables after a flush was in tables or in memory.
LEMMA SavedNext ==
    ASSUME TypeOK, pc = "flush", CommitTable \/ UNCHANGED ssts
    PROVE  \A t \in DOMAIN ssts' : \A e \in ssts'[t] :
              (t \in DOMAIN ssts /\ e \in ssts[t]) \/ e \in InMemory
<1>1. CASE UNCHANGED ssts
  BY <1>1
<1>2. CASE CommitTable
  <2>1. ssts' = Append(ssts, Frozen.entries) /\ ssts \in Seq(Tables)
    BY <1>2 DEF CommitTable, TypeOK
  <2>2. \A t \in DOMAIN ssts' : \/ t \in DOMAIN ssts /\ ssts'[t] = ssts[t]
                                \/ ssts'[t] = Frozen.entries
    BY <2>1
  <2>3. Frozen.entries \subseteq InMemory
    BY DEF InMemory, TypeOK
  <2> QED BY <2>2, <2>3
<1> QED BY <1>1, <1>2

\* Every step keeps the queue newer than what the log, memory and tables hold.
LEMMA QueueStep ==
    ASSUME TypeOK, TypeOK', SegmentsInv, LogInv, QueueInv, PendingInv, Next
    PROVE  QueueInv'
<1>0. /\ nextWrite \in Nat \ {0} /\ queue \in Seq(Submissions)
      /\ \A x \in wal : x.w \in Nat
      /\ \A j \in DOMAIN queue : queue[j].w \in Nat
      /\ \A k \in Keys : acked[k] \in Nat
  <2>1. queue \in Seq(Submissions)
    BY DEF TypeOK, Submissions
  <2>2. \A j \in DOMAIN queue : queue[j].w \in Nat
    <3> TAKE j \in DOMAIN queue
    <3>1. queue[j] \in Submissions
      BY <2>1
    <3> QED BY <3>1 DEF Submissions
  <2> QED BY <2>1, <2>2 DEF TypeOK
<1>00. /\ \A e \in InMemory : e.w \in Nat
       /\ \A t \in DOMAIN ssts : \A e \in ssts[t] : e.w \in Nat
  BY MemoryType, SavedType
<1>1. CASE Put \/ PutBatch
  <2>1. PICK keys \in Seq(Keys), isBatch \in BOOLEAN : Len(keys) > 0 /\ Submit(keys, isBatch)
    BY <1>1, SubmitSome
  <2>2. /\ queue' \in Seq(Submissions) /\ Len(queue') = Len(queue) + Len(keys)
        /\ \A j \in 1 .. Len(queue) : queue'[j] = queue[j]
        /\ \A i \in 1 .. Len(keys) : queue'[Len(queue) + i].w = nextWrite + i - 1
    BY <2>1, SubmitIs
  <2>3. nextWrite' = nextWrite + Len(keys) /\ Len(keys) \in Nat
    BY <2>1 DEF Submit
  <2>4. UNCHANGED <<wal, ssts, acked>> /\ InMemory' = InMemory
    BY <1>1, QuietIs, WaitIs
  <2>5. Len(queue) \in Nat /\ DOMAIN queue = 1 .. Len(queue)
        /\ DOMAIN queue' = 1 .. Len(queue) + Len(keys)
    BY <1>0, <2>2
  <2>6. \A j \in DOMAIN queue' :
          \/ j \in DOMAIN queue /\ queue'[j] = queue[j]
          \/ j > Len(queue) /\ queue'[j].w = nextWrite + (j - Len(queue)) - 1
                            /\ j - Len(queue) <= Len(keys)
    <3> TAKE j \in DOMAIN queue'
    <3>1. CASE j <= Len(queue)
      BY <2>2, <2>5, <3>1
    <3>2. CASE j > Len(queue)
      <4>1. j - Len(queue) \in 1 .. Len(keys) /\ Len(queue) + (j - Len(queue)) = j
        BY <2>3, <2>5, <3>2
      <4> QED BY <2>2, <2>5, <3>2, <4>1
    <3> QED BY <2>5, <3>1, <3>2
  <2>7. \A j \in DOMAIN queue' :
          \/ j \in DOMAIN queue /\ queue'[j].w = queue[j].w
          \/ nextWrite <= queue'[j].w /\ queue'[j].w < nextWrite'
             /\ j > Len(queue) /\ queue'[j].w = nextWrite + (j - Len(queue)) - 1
    BY <1>0, <2>3, <2>5, <2>6
  <2>8. \A i, j \in DOMAIN queue' : i < j => queue'[i].w < queue'[j].w
    <3> SUFFICES ASSUME NEW i \in DOMAIN queue', NEW j \in DOMAIN queue', i < j
                 PROVE  queue'[i].w < queue'[j].w
      OBVIOUS
    <3>1. CASE i \in DOMAIN queue /\ queue'[i].w = queue[i].w
               /\ j \in DOMAIN queue /\ queue'[j].w = queue[j].w
      BY <3>1 DEF QueueInv
    <3>2. CASE i \in DOMAIN queue /\ queue'[i].w = queue[i].w /\ nextWrite <= queue'[j].w
               /\ j > Len(queue) /\ queue'[j].w = nextWrite + (j - Len(queue)) - 1
      <4>1. queue[i].w < nextWrite
        BY <3>2 DEF QueueInv
      <4> QED BY <1>0, <2>5, <3>2, <4>1
    <3>3. CASE i > Len(queue) /\ queue'[i].w = nextWrite + (i - Len(queue)) - 1
      <4>1. j > Len(queue)
        BY <2>5, <3>3
      <4>2. queue'[j].w = nextWrite + (j - Len(queue)) - 1
        BY <2>5, <2>7, <4>1
      <4> QED BY <1>0, <2>5, <3>3, <4>2
    <3> QED BY <2>7, <3>1, <3>2, <3>3
  <2>9. \A j \in DOMAIN queue' :
          /\ queue'[j].w < nextWrite'
          /\ \A x \in wal : x.w < queue'[j].w
          /\ \A e \in InMemory : e.w < queue'[j].w
          /\ \A t \in DOMAIN ssts : \A e \in ssts[t] : e.w < queue'[j].w
    <3> TAKE j \in DOMAIN queue'
    <3>1. CASE j \in DOMAIN queue /\ queue'[j].w = queue[j].w
      <4>1. queue[j].w < nextWrite
        BY <3>1 DEF QueueInv
      <4> QED BY <1>0, <2>3, <3>1, <4>1 DEF QueueInv
    <3>2. CASE nextWrite <= queue'[j].w /\ queue'[j].w < nextWrite'
               /\ j > Len(queue) /\ queue'[j].w = nextWrite + (j - Len(queue)) - 1
      <4>1. queue'[j].w \in Nat
        BY <1>0, <2>5, <3>2
      <4>2. /\ \A x \in wal : x.w < nextWrite
            /\ \A e \in InMemory : e.w < nextWrite
            /\ \A t \in DOMAIN ssts : \A e \in ssts[t] : e.w < nextWrite
        BY DEF QueueInv
      <4> QED BY <1>0, <1>00, <3>2, <4>1, <4>2
    <3> QED BY <2>7, <3>1, <3>2
  <2>10. nextWrite <= nextWrite' /\ nextWrite' \in Nat
    BY <1>0, <2>3
  <2>11. /\ \A x \in wal : x.w < nextWrite'
         /\ \A e \in InMemory : e.w < nextWrite'
         /\ \A t \in DOMAIN ssts : \A e \in ssts[t] : e.w < nextWrite'
         /\ \A k \in Keys : acked[k] < nextWrite'
    BY <1>0, <1>00, <2>10 DEF QueueInv
  <2> QED BY <2>4, <2>8, <2>9, <2>11 DEF QueueInv
<1>2. CASE Commit
  <2>1. /\ wal' = wal \cup {Appended} /\ Appended.w = queue[1].w /\ 1 \in DOMAIN queue
        /\ \A j \in DOMAIN queue' : j + 1 \in DOMAIN queue /\ queue'[j] = queue[j + 1]
        /\ queue' \in Seq(Submissions)
        /\ UNCHANGED <<s3, opVars, ghosts>>
    BY <1>2, CommitIs
  <2>2. InMemory' = InMemory /\ UNCHANGED <<ssts, acked, nextWrite>>
    BY <1>2, <2>1, WaitIs DEF s3, ghosts
  <2>3. \A j \in DOMAIN queue' : j \in Nat /\ j > 0
    BY <2>1
  <2>4. \A i, j \in DOMAIN queue' : i < j => queue'[i].w < queue'[j].w
    <3> TAKE i, j \in DOMAIN queue'
    <3>1. i < j => i + 1 < j + 1
      BY <2>3
    <3> QED BY <2>1, <3>1 DEF QueueInv
  <2>5. \A j \in DOMAIN queue' : queue[1].w < queue'[j].w
    <3> TAKE j \in DOMAIN queue'
    <3>1. 1 < j + 1
      BY <2>3
    <3> QED BY <2>1, <3>1 DEF QueueInv
  <2>6. \A j \in DOMAIN queue' :
          /\ queue'[j].w < nextWrite
          /\ \A x \in wal' : x.w < queue'[j].w
          /\ \A e \in InMemory : e.w < queue'[j].w
          /\ \A t \in DOMAIN ssts : \A e \in ssts[t] : e.w < queue'[j].w
    BY <2>1, <2>5 DEF QueueInv
  <2>7. \A x \in wal' : x.w < nextWrite
    BY <2>1 DEF QueueInv
  <2> QED BY <2>2, <2>4, <2>6, <2>7 DEF QueueInv
<1>3. CASE RecordWrite \/ Durable \/ Cancel \/ Maintain
  <2>1. UNCHANGED <<wal, ssts, acked, queue, nextWrite>> /\ InMemory' = InMemory
    <3>1. CASE RecordWrite \/ Durable \/ Cancel
      BY <3>1, QuietIs, WaitIs DEF RecordWrite, Durable, Cancel, walVars, ghosts
    <3>2. CASE Maintain
      BY <3>2, MaintainIs DEF disk, s3, walVars, ghosts
    <3> QED BY <1>3, <3>1, <3>2
  <2> QED BY <2>1 DEF QueueInv
<1>4. CASE Insert
  <2>1. /\ InMemory' = SkipInsert(active, MemEntry) /\ InMemory = active
        /\ MemEntry.w = pending[at + 1].w /\ at + 1 \in DOMAIN pending /\ at \in Nat
        /\ queue' = <<>> /\ nextWrite' = nextWrite
    BY <1>4, InsertIs
  <2>2. UNCHANGED <<wal, ssts>>
    BY <1>4, QuietIs
  <2>3. \A i \in DOMAIN pending : pending[i].w < nextWrite
    BY DEF PendingInv
  <2>4. \A e \in InMemory' : e.w < nextWrite
    <3> TAKE e \in InMemory'
    <3>1. e \in InMemory \/ e = MemEntry
      BY <2>1, SkipInsertIs
    <3> QED BY <2>1, <2>3, <3>1 DEF QueueInv
  <2>5. \A k \in Keys : acked'[k] < nextWrite
    <3>1. CASE Continue(at + 1)
      <4>1. at + 1 \in Nat
        BY <2>1
      <4> QED BY <2>3, <3>1, <4>1, AckIs DEF QueueInv
    <3>2. CASE UNCHANGED acked
      BY <3>2 DEF QueueInv
    <3> QED BY <1>4, <3>1, <3>2, InsertIs
  <2>6. DOMAIN queue' = {}
    BY <2>1
  <2> QED BY <2>1, <2>2, <2>4, <2>5, <2>6 DEF QueueInv
<1>5. CASE Flush \/ FlushFails
  <2>1. /\ pc = "flush" /\ InMemory' = {} /\ queue' = queue /\ nextWrite' = nextWrite
        /\ PartOfFlush \/ (CommitTable /\ Cleanup(Frozen.gen, segment))
    BY <1>5, FlushIs
  <2>2. wal' \subseteq wal /\ (CommitTable \/ UNCHANGED ssts)
    BY <2>1, FlushDisk
  <2>3. \A t \in DOMAIN ssts' : \A e \in ssts'[t] :
          (t \in DOMAIN ssts /\ e \in ssts[t]) \/ e \in InMemory
    BY <2>1, <2>2, SavedNext
  <2>4. \A k \in Keys : acked'[k] < nextWrite
    <3>1. CASE Flush
      <4>1. Continue(at) /\ at \in Nat
        BY <3>1 DEF Flush, TypeOK
      <4> QED BY <4>1, AckIs DEF QueueInv, PendingInv
    <3>2. CASE FlushFails
      BY <3>2 DEF FlushFails, QueueInv
    <3> QED BY <1>5, <3>1, <3>2
  <2> QED BY <2>1, <2>2, <2>3, <2>4 DEF QueueInv
<1>6. CASE Crash
  <2>1. /\ wal' \subseteq wal /\ active' = {} /\ frozen' = <<>> /\ queue' = <<>>
        /\ (pc = "flush" /\ CommitTable) \/ UNCHANGED ssts
        /\ UNCHANGED <<acked, nextWrite>>
    BY <1>6, CrashIs
  <2>2. InMemory' = {} /\ DOMAIN queue' = {}
    BY <2>1 DEF InMemory
  <2>3. \A t \in DOMAIN ssts' : \A e \in ssts'[t] :
          (t \in DOMAIN ssts /\ e \in ssts[t]) \/ e \in InMemory
    BY <2>1, SavedNext
  <2> QED BY <2>1, <2>2, <2>3 DEF QueueInv
<1>7. CASE Open
  <2>1. active' = Replayed /\ UNCHANGED <<wal, ssts, queue, frozen, acked, nextWrite>>
        /\ pc = "down" /\ pc' # "flush"
    BY <1>7 DEF Open, s3
  <2>2. InMemory' = Replayed /\ DOMAIN queue' = {}
    BY <2>1, MemoryIs DEF InMemory, TypeOK
  <2>3. \A e \in Replayed : \E x \in wal : e.w = x.w
    BY ReplayedType, ReplayType
  <2> QED BY <2>1, <2>2, <2>3 DEF QueueInv
<1> QED BY <1>1, <1>2, <1>3, <1>4, <1>5, <1>6, <1>7 DEF Next, Progress

\* Every step keeps what is not inserted yet newer than memory.
LEMMA PendingStep ==
    ASSUME TypeOK, TypeOK', SegmentsInv, LogInv, QueueInv, PendingInv, Next
    PROVE  PendingInv'
<1>0. /\ nextWrite \in Nat \ {0} /\ at \in Nat
      /\ \A k \in Keys : acked[k] \in Nat
      /\ pending \in Seq(Entries) /\ \A i \in DOMAIN pending : pending[i].w \in Nat
  <2>1. pending \in Seq(Entries)
    BY DEF TypeOK
  <2>2. \A i \in DOMAIN pending : pending[i].w \in Nat
    <3> TAKE i \in DOMAIN pending
    <3>1. pending[i] \in Entries
      BY <2>1
    <3> QED BY <3>1 DEF Entries
  <2> QED BY <2>1, <2>2 DEF TypeOK
<1>1. CASE Put \/ PutBatch
  <2>1. PICK keys \in Seq(Keys), isBatch \in BOOLEAN : Len(keys) > 0 /\ Submit(keys, isBatch)
    BY <1>1, SubmitSome
  <2>2. /\ pending' \in Seq(Entries) /\ Len(pending') = Len(keys)
        /\ \A i \in 1 .. Len(keys) : pending'[i].w = nextWrite + i - 1
    BY <2>1, SubmitIs
  <2>10. DOMAIN pending' = 1 .. Len(keys)
    BY <2>2
  <2>11. nextWrite' = nextWrite + Len(keys) /\ pc' = "wal"
    BY <2>1 DEF Submit
  <2>12. Len(keys) \in Nat
    OBVIOUS
  <2>3. nextWrite' = nextWrite + Len(keys) /\ Len(keys) \in Nat /\ pc' = "wal"
        /\ DOMAIN pending' = 1 .. Len(keys)
    BY <2>10, <2>11, <2>12
  <2>4. InMemory' = InMemory /\ acked' = acked
    BY <1>1, WaitIs
  <2>5. \A k \in Keys : acked[k] < nextWrite
    BY DEF QueueInv
  <2>6. \A e \in InMemory : e.w < nextWrite /\ e.w \in Nat
    BY MemoryType DEF QueueInv
  <2>7. \A i \in DOMAIN pending' : /\ pending'[i].w \in Nat /\ nextWrite <= pending'[i].w
                                   /\ pending'[i].w < nextWrite'
    BY <1>0, <2>2, <2>3
  <2>8. \A i, j \in DOMAIN pending' : i < j => pending'[i].w < pending'[j].w
    BY <1>0, <2>2, <2>3
  <2>9. \A i \in DOMAIN pending' : /\ \A k \in Keys : acked[k] < pending'[i].w
                                   /\ \A e \in InMemory : e.w < pending'[i].w
    BY <1>0, <2>5, <2>6, <2>7
  <2> QED BY <2>3, <2>4, <2>7, <2>8, <2>9 DEF PendingInv
<1>2. CASE Commit \/ RecordWrite \/ Durable \/ Cancel
  <2>1. InMemory' = InMemory /\ active' = active /\ acked' = acked
    BY <1>2, WaitIs
  <2>2. at' = at /\ nextWrite' = nextWrite /\ (pending' = pending \/ pending' = <<>>)
        /\ (pc' = "flush" => pc = "flush")
    <3>1. CASE Commit
      BY <3>1, CommitIs DEF opVars, ghosts
    <3>2. CASE RecordWrite \/ Durable \/ Cancel
      BY <3>2 DEF RecordWrite, Durable, Cancel, ghosts
    <3> QED BY <1>2, <3>1, <3>2
  <2>3. CASE pending' = pending
    BY <2>1, <2>2, <2>3 DEF PendingInv
  <2>4. CASE pending' = <<>>
    <3>1. DOMAIN pending' = {}
      BY <2>4
    <3> QED BY <2>1, <2>2, <3>1 DEF PendingInv
  <2> QED BY <2>2, <2>3, <2>4
<1>3. CASE Maintain
  <2>1. active' = {} /\ pending = <<>> /\ pending' = pending
    BY <1>3, MaintainIs
  <2>2. DOMAIN pending' = {}
    BY <2>1
  <2> QED BY <2>1, <2>2 DEF PendingInv
<1>4. CASE Insert
  <2>1. /\ InMemory' = SkipInsert(active, MemEntry) /\ InMemory = active
        /\ MemEntry.w = pending[at + 1].w /\ at + 1 \in DOMAIN pending
        /\ nextWrite' = nextWrite /\ at' = at + 1
        /\ (pc' = "flush" => active' = {})
    BY <1>4, InsertIs
  <2>2. \/ pending' = pending /\ acked' = acked
        \/ pending' = <<>>
    <3>1. CASE Continue(at + 1)
      <4>1. at + 1 \in Nat
        BY <1>0
      <4> QED BY <3>1, <4>1, AckIs
    <3>2. CASE UNCHANGED <<acked, pending>>
      BY <3>2
    <3> QED BY <1>4, <3>1, <3>2, InsertIs
  <2>3. CASE pending' = <<>>
    <3>1. DOMAIN pending' = {}
      BY <2>3
    <3> QED BY <2>1, <3>1 DEF PendingInv
  <2>4. CASE pending' = pending /\ acked' = acked
    <3>1. ASSUME NEW i \in DOMAIN pending, at + 1 < i, NEW e \in InMemory'
          PROVE  e.w < pending[i].w
      <4>1. e \in InMemory \/ e = MemEntry
        BY <2>1, SkipInsertIs
      <4>2. at < i
        BY <1>0, <3>1
      <4>3. pending[at + 1].w < pending[i].w
        BY <2>1, <3>1 DEF PendingInv
      <4> QED BY <2>1, <4>1, <4>2, <4>3 DEF PendingInv
    <3> QED BY <2>1, <2>4, <3>1 DEF PendingInv
  <2> QED BY <2>2, <2>3, <2>4
<1>5. CASE Flush \/ FlushFails
  <2>1. /\ active' = {} /\ InMemory' = {} /\ at' = at /\ nextWrite' = nextWrite
    BY <1>5, FlushIs
  <2>2. \/ pending' = pending /\ acked' = acked
        \/ pending' = <<>>
    <3>1. CASE Flush
      <4>1. Continue(at)
        BY <3>1 DEF Flush
      <4> QED BY <1>0, <4>1, AckIs
    <3>2. CASE FlushFails
      BY <3>2 DEF FlushFails
    <3> QED BY <1>5, <3>1, <3>2
  <2>3. CASE pending' = <<>>
    <3>1. DOMAIN pending' = {}
      BY <2>3
    <3> QED BY <2>1, <3>1 DEF PendingInv
  <2>4. CASE pending' = pending /\ acked' = acked
    BY <2>1, <2>4 DEF PendingInv
  <2> QED BY <2>2, <2>3, <2>4
<1>6. CASE Crash \/ Open
  <2>1. pending' = <<>> /\ pc' # "flush"
    BY <1>6 DEF Crash, Open, TypeOK
  <2>2. DOMAIN pending' = {}
    BY <2>1
  <2> QED BY <2>1, <2>2 DEF PendingInv
<1> QED BY <1>1, <1>2, <1>3, <1>4, <1>5, <1>6 DEF Next, Progress
-----------------------------------------------------------------------------
(* What is acknowledged is kept *)

\* What is in a table stays there.
LEMMA SavedStays ==
    ASSUME TypeOK, Next, NEW k, NEW w, SavedFor(k, w)
    PROVE  SavedFor(k, w)'
<1>1. CommitTable \/ UNCHANGED ssts
  <2>1. CASE Flush \/ FlushFails \/ Crash
    BY <2>1, CrashIs DEF Flush, FlushFails, PartOfFlush, s3
  <2>2. CASE Put \/ PutBatch \/ Commit \/ RecordWrite \/ Durable \/ Cancel \/ Insert \/ Maintain
    BY <2>2, QuietIs, WaitIs
  <2>3. CASE Open
    BY <2>3 DEF Open, s3
  <2> QED BY <2>1, <2>2, <2>3 DEF Next, Progress
<1>2. CASE UNCHANGED ssts
  BY <1>2 DEF SavedFor
<1>3. CASE CommitTable
  <2>1. ssts' = Append(ssts, Frozen.entries) /\ ssts \in Seq(Tables)
    BY <1>3 DEF CommitTable, TypeOK
  <2>2. \A i \in DOMAIN ssts : i \in DOMAIN ssts' /\ ssts'[i] = ssts[i]
    BY <2>1
  <2> QED BY <2>2 DEF SavedFor
<1> QED BY <1>1, <1>2, <1>3

\* A flushed memtable is in a table.
LEMMA FlushSaves ==
    ASSUME TypeOK, PendingInv, pc = "flush", CommitTable, NEW k, NEW w, Covered(k, w)
    PROVE  SavedFor(k, w)'
<1>1. InMemory = Frozen.entries
  BY DEF PendingInv, InMemory, TypeOK
<1>2. ssts' = Append(ssts, Frozen.entries) /\ ssts \in Seq(Tables)
  BY DEF CommitTable, TypeOK
<1>3. Len(ssts) + 1 \in DOMAIN ssts' /\ ssts'[Len(ssts) + 1] = Frozen.entries
  BY <1>2
<1> QED BY <1>1, <1>3 DEF SavedFor, Covered

\* A cleanup does not delete a segment that no flush makes clean.
LEMMA CleanupKeeps ==
    ASSUME TypeOK, pc = "flush", PartOfFlush \/ (CommitTable /\ Cleanup(Frozen.gen, segment)),
           SegmentsInv, NEW x \in wal, Uncleanable(x.seg)
    PROVE  /\ x \in wal'
           /\ \/ x.seg < segment /\ ~Charged(x.seg)'
              \/ \E d \in dirty' : d[1] = x.seg /\ d[2] < Frozen.gen
<1>0. ToFlush = Frozen.gen /\ Frozen.gen \in Nat /\ \A d \in dirty : d[2] \in Nat
  BY FrozenType DEF ToFlush, TypeOK
<1>1. CASE UNCHANGED <<disk, dirty>>
  BY <1>0, <1>1 DEF disk, Uncleanable, Charged
<1>2. CASE \E limit : Cleanup(Frozen.gen, limit)
  <2>1. PICK limit : Cleanup(Frozen.gen, limit)
    BY <1>2
  <2>2. /\ \A s \in DOMAIN starts \ DOMAIN starts' :
              <<s, Frozen.gen>> \in dirty /\ \A d \in dirty : d[1] = s => d[2] = Frozen.gen
        /\ \A e \in wal : e.seg \in DOMAIN starts' => e \in wal'
        /\ dirty' = {d \in dirty : d[2] # Frozen.gen}
    BY <2>1, CleanupIs
  <2>3. x.seg \in DOMAIN starts
    BY DEF SegmentsInv
  <2>4. CASE x.seg < segment /\ ~Charged(x.seg)
    <3>1. <<x.seg, Frozen.gen>> \notin dirty
      <4>1. <<x.seg, Frozen.gen>>[1] = x.seg
        OBVIOUS
      <4> QED BY <2>4, <4>1 DEF Charged
    <3> QED BY <2>2, <2>3, <2>4, <3>1 DEF Charged
  <2>5. CASE \E d \in dirty : d[1] = x.seg /\ d[2] < Frozen.gen
    <3>1. PICK d \in dirty : d[1] = x.seg /\ d[2] < Frozen.gen
      BY <2>5
    <3>2. d[2] # Frozen.gen
      BY <1>0, <3>1
    <3> QED BY <2>2, <2>3, <3>1, <3>2
  <2> QED BY <1>0, <2>4, <2>5 DEF Uncleanable
<1> QED BY <1>1, <1>2 DEF PartOfFlush

\* Such a segment stays so as long as the process runs.
LEMMA KeptStays ==
    ASSUME TypeOK, TypeOK', SegmentsInv, SegmentsInv', PendingInv, Next,
           pc # "down", pc' # "down", NEW k, NEW w, KeptForGood(k, w)
    PROVE  KeptForGood(k, w)'
<1>1. PICK x \in wal : x.key = k /\ x.w = w /\ Uncleanable(x.seg)
  BY DEF KeptForGood
<1>2. SUFFICES x \in wal' /\ Uncleanable(x.seg)'
  BY <1>1 DEF KeptForGood
<1>0. /\ segment \in Nat /\ segment' \in Nat /\ generation \in Nat /\ generation' \in Nat
      /\ x.seg \in Nat
      /\ \A d \in dirty : d[2] \in Nat
  BY DEF TypeOK
<1>3. CASE Put \/ PutBatch \/ Durable \/ Cancel \/ Commit
  <2>1. wal \subseteq wal' /\ dirty' = dirty /\ segment <= segment'
    <3>1. CASE Put \/ PutBatch
      <4>1. UNCHANGED <<disk, dirty, segment>>
        BY <3>1, SubmitSome DEF Submit
      <4> QED BY <1>0, <4>1 DEF disk
    <3>2. CASE Durable \/ Cancel
      BY <1>0, <3>2 DEF Durable, Cancel, disk, walVars
    <3>3. CASE Commit
      BY <1>0, <3>3, CommitIs
    <3> QED BY <1>3, <3>1, <3>2, <3>3
  <2>2. ToFlush' = ToFlush
    BY <1>3, WaitIs DEF ToFlush, Frozen
  <2> QED BY <1>0, <1>1, <2>1, <2>2 DEF Uncleanable, Charged
<1>4. CASE RecordWrite
  <2>1. UNCHANGED <<wal, segment>> /\ dirty' = dirty \cup {<<segment, generation>>}
    BY <1>4 DEF RecordWrite, disk
  <2>2. ToFlush' = ToFlush
    BY <1>4, WaitIs DEF ToFlush, Frozen
  <2>3. x.seg < segment => (Charged(x.seg)' <=> Charged(x.seg))
    <3>1. <<segment, generation>>[1] = segment
      OBVIOUS
    <3> QED BY <1>0, <2>1, <3>1 DEF Charged
  <2> QED BY <1>1, <2>1, <2>2, <2>3 DEF Uncleanable
<1>5. CASE Insert \/ Maintain
  <2>1. UNCHANGED <<wal, segment, dirty>>
    BY <1>5 DEF Insert, Maintain, disk, walVars
  <2>2. ToFlush' = ToFlush
    <3>1. frozen = <<>>
      BY <1>5, InsertIs, MaintainIs
    <3>2. (frozen' = <<>> /\ generation' = generation)
          \/ (frozen' # <<>> /\ Frozen'.gen = generation)
      BY <1>5, InsertIs, MaintainIs
    <3> QED BY <3>1, <3>2 DEF ToFlush
  <2> QED BY <1>1, <2>1, <2>2 DEF Uncleanable, Charged
<1>6. CASE Flush \/ FlushFails
  <2>1. /\ pc = "flush" /\ frozen' = <<>> /\ generation' = generation /\ segment' = segment
        /\ PartOfFlush \/ (CommitTable /\ Cleanup(Frozen.gen, segment))
    BY <1>6, FlushIs
  <2>2. /\ x \in wal'
        /\ \/ x.seg < segment /\ ~Charged(x.seg)'
           \/ \E d \in dirty' : d[1] = x.seg /\ d[2] < Frozen.gen
    BY <1>1, <2>1, CleanupKeeps
  <2>3. Frozen.gen < generation /\ Frozen.gen \in Nat /\ ToFlush' = generation
    BY <2>1, FrozenType DEF SegmentsInv, ToFlush
  <2>4. \A d \in dirty' : d[2] \in Nat
    BY <2>1, PartOfFlushSegments, <1>0
  <2> QED BY <1>0, <2>1, <2>2, <2>3, <2>4 DEF Uncleanable
<1>7. CASE Crash \/ Open
  BY <1>7 DEF Crash, Open
<1> QED BY <1>3, <1>4, <1>5, <1>6, <1>7 DEF Next, Progress

\* Only a flush or a crash takes entries from the log or from memory, and a
\* newer version may replace one in memory.
LEMMA SteadyStep ==
    ASSUME TypeOK, TypeOK', PendingInv, Next, ~Flush, ~FlushFails, ~Crash, pc # "down",
           NEW k, NEW w \in Nat
    PROVE  /\ Logged(k, w) => Logged(k, w)'
           /\ Covered(k, w) => Covered(k, w)'
           /\ UNCHANGED <<ssts, misfiled>> /\ pc' # "down"
<1>1. CASE Put \/ PutBatch \/ RecordWrite \/ Durable \/ Cancel
  <2>1. InMemory' = InMemory /\ UNCHANGED <<wal, ssts, misfiled>> /\ pc' # "down"
    BY <1>1, WaitIs, QuietIs
  <2> QED BY <2>1 DEF Logged, Covered
<1>2. CASE Commit
  <2>1. InMemory' = InMemory /\ wal \subseteq wal' /\ UNCHANGED <<ssts, misfiled>>
        /\ pc' # "down"
    BY <1>2, WaitIs, CommitIs
  <2> QED BY <2>1 DEF Logged, Covered
<1>3. CASE Maintain
  <2>1. InMemory' = InMemory /\ UNCHANGED <<wal, ssts, misfiled>> /\ pc' # "down"
    BY <1>3, MaintainIs, QuietIs
  <2> QED BY <2>1 DEF Logged, Covered
<1>4. CASE Insert
  <2>1. /\ InMemory' = SkipInsert(active, MemEntry) /\ InMemory = active
        /\ MemEntry.w = pending[at + 1].w /\ at + 1 \in DOMAIN pending /\ at \in Nat
        /\ MemEntry \in Entries
    BY <1>4, InsertIs
  <2>2. UNCHANGED <<wal, ssts, misfiled>> /\ pc' # "down"
    BY <1>4, QuietIs
  <2>3. ASSUME NEW e \in InMemory, e.key = k, e.w >= w
        PROVE  Covered(k, w)'
    <3>1. CASE e \in InMemory'
      BY <2>3, <3>1 DEF Covered
    <3>2. CASE e \notin InMemory'
      <4>1. MemEntry.key = k
        BY <2>1, <2>3, <3>2, SkipInsertIs
      <4>2. e.w < pending[at + 1].w /\ e.w \in Nat /\ MemEntry.w \in Nat
        BY <2>1, MemoryType DEF PendingInv, Entries
      <4>3. MemEntry.w >= w /\ MemEntry \in InMemory'
        BY <2>1, <2>3, <4>2, SkipInsertIs
      <4> QED BY <4>1, <4>3 DEF Covered
    <3> QED BY <3>1, <3>2
  <2> QED BY <2>2, <2>3 DEF Logged, Covered
<1>5. CASE Open
  BY <1>5 DEF Open
<1> QED BY <1>1, <1>2, <1>3, <1>4, <1>5 DEF Next, Progress

\* A flush that fails keeps what was both in memory and in the log: it is in a
\* table, or its segment is charged with a generation that is gone.
LEMMA FailedFlushKeeps ==
    ASSUME TypeOK, TypeOK', SegmentsInv, PendingInv, FlushFails, NEW k, NEW w,
           Covered(k, w), Logged(k, w)
    PROVE  SavedFor(k, w)' \/ KeptForGood(k, w)' \/ w \in misfiled'
<1>1. /\ pc = "flush" /\ frozen' = <<>> /\ generation' = generation /\ segment' = segment
      /\ misfiled' = misfiled \cup {e.w : e \in Uncharged}
      /\ PartOfFlush \/ (CommitTable /\ Cleanup(Frozen.gen, segment))
  BY FlushIs DEF FlushFails
<1>2. CASE CommitTable
  BY <1>1, <1>2, FlushSaves
<1>3. CASE UNCHANGED <<wal, dirty>>
  <2>1. PICK x \in wal : x.key = k /\ x.w = w
    BY DEF Logged
  <2>2. x.seg <= segment /\ x.seg \in Nat /\ segment \in Nat
    BY <1>1 DEF SegmentsInv, TypeOK
  <2>3. CASE Charged(x.seg)
    <3>1. PICK d \in dirty : d[1] = x.seg
      BY <2>3 DEF Charged
    <3>2. d[2] \in Nat /\ generation \in Nat /\ Frozen.gen \in Nat
      BY <1>1, FrozenType DEF TypeOK
    <3>3. d[2] < generation /\ ToFlush' = generation
      BY <1>1, <3>2 DEF SegmentsInv, ToFlush
    <3>4. Uncleanable(x.seg)'
      BY <1>3, <3>1, <3>3 DEF Uncleanable
    <3> QED BY <1>3, <2>1, <3>4 DEF KeptForGood
  <2>4. CASE ~Charged(x.seg) /\ x.seg < segment
    <3>1. Uncleanable(x.seg)'
      BY <1>1, <1>3, <2>4 DEF Uncleanable, Charged
    <3> QED BY <1>3, <2>1, <3>1 DEF KeptForGood
  <2>5. CASE ~Charged(x.seg) /\ x.seg = segment
    <3>1. x \in Uncharged
      BY <2>5 DEF Uncharged, Charged
    <3> QED BY <1>1, <2>1, <3>1
  <2> QED BY <2>2, <2>3, <2>4, <2>5
<1> QED BY <1>1, <1>2, <1>3, FlushDisk

\* The write in progress stays submitted, logged, in memory or in a table.
LEMMA WriteKeptStep ==
    ASSUME TypeOK, TypeOK', SegmentsInv, QueueInv, PendingInv, WriteKept, Next
    PROVE  WriteKept'
<1>0. /\ pending \in Seq(Entries) /\ at \in Nat
      /\ \A i \in DOMAIN pending : pending[i].w \in Nat /\ i \in Nat /\ i > 0
  <2>1. pending \in Seq(Entries) /\ at \in Nat
    BY DEF TypeOK
  <2>2. ASSUME NEW i \in DOMAIN pending
        PROVE  pending[i].w \in Nat /\ i \in Nat /\ i > 0
    <3>1. pending[i] \in Entries
      BY <2>1
    <3> QED BY <2>1, <3>1 DEF Entries
  <2> QED BY <2>1, <2>2
<1>1. CASE Put \/ PutBatch
  <2>1. PICK keys \in Seq(Keys), isBatch \in BOOLEAN : Len(keys) > 0 /\ Submit(keys, isBatch)
    BY <1>1, SubmitSome
  <2>2. /\ pending' \in Seq(Entries) /\ Len(pending') = Len(keys)
        /\ \A i \in 1 .. Len(keys) :
              /\ pending'[i].key = keys[i] /\ pending'[i].w = nextWrite + i - 1
        /\ queue' \in Seq(Submissions) /\ Len(queue') = Len(queue) + Len(keys)
        /\ \A i \in 1 .. Len(keys) : /\ queue'[Len(queue) + i].key = keys[i]
                                     /\ queue'[Len(queue) + i].w = nextWrite + i - 1
    BY <2>1, SubmitIs
  <2>3. queue \in Seq(Submissions)
    BY DEF TypeOK, Submissions
  <2>4. \A i \in DOMAIN pending' : \E j \in DOMAIN queue' :
           queue'[j].key = pending'[i].key /\ queue'[j].w = pending'[i].w
    <3> TAKE i \in DOMAIN pending'
    <3>1. i \in 1 .. Len(keys) /\ Len(queue) + i \in DOMAIN queue'
      BY <2>2, <2>3
    <3> QED BY <2>2, <3>1
  <2>5. pc' = "wal"
    BY <2>1 DEF Submit
  <2> QED BY <2>4, <2>5 DEF WriteKept
<1>2. CASE Commit
  <2>1. /\ wal' = wal \cup {Appended} /\ Appended.key = queue[1].key /\ Appended.w = queue[1].w
        /\ \A j \in DOMAIN queue' : j + 1 \in DOMAIN queue /\ queue'[j] = queue[j + 1]
        /\ queue' \in Seq(Submissions) /\ Len(queue') = Len(queue) - 1 /\ Len(queue) > 0
        /\ pc # "down" /\ UNCHANGED <<pc, pending, at>>
    BY <1>2, CommitIs DEF opVars
  <2>3. CASE pc = "wal"
    <3> SUFFICES ASSUME NEW i \in DOMAIN pending
                 PROVE  \/ Logged(pending[i].key, pending[i].w)'
                        \/ \E j \in DOMAIN queue' : /\ queue'[j].key = pending[i].key
                                                   /\ queue'[j].w = pending[i].w
      BY <2>1, <2>3 DEF WriteKept
    <3>1. CASE Logged(pending[i].key, pending[i].w)
      BY <2>1, <3>1 DEF Logged
    <3>2. CASE \E j \in DOMAIN queue : /\ queue[j].key = pending[i].key
                                      /\ queue[j].w = pending[i].w
      <4>1. PICK j \in DOMAIN queue : queue[j].key = pending[i].key /\ queue[j].w = pending[i].w
        BY <3>2
      <4>2. CASE j = 1
        BY <2>1, <4>1, <4>2 DEF Logged
      <4>3. CASE j # 1
        <5>1. queue \in Seq(Submissions)
          BY DEF TypeOK, Submissions
        <5>2. j - 1 \in DOMAIN queue' /\ (j - 1) + 1 = j
          BY <2>1, <4>3, <5>1
        <5> QED BY <2>1, <4>1, <5>2
      <4> QED BY <4>2, <4>3
    <3> QED BY <2>3, <3>1, <3>2 DEF WriteKept
  <2>4. CASE pc # "wal"
    <3>1. InMemory' = InMemory /\ UNCHANGED <<ssts, misfiled>>
      BY <1>2, WaitIs
    <3> QED BY <2>1, <2>4, <3>1 DEF WriteKept, Logged, Covered, SavedFor
  <2> QED BY <2>3, <2>4
<1>3. CASE RecordWrite
  <2>1. pc = "wal" /\ UNCHANGED <<wal, queue, pc, pending>>
    BY <1>3 DEF RecordWrite, disk
  <2> QED BY <2>1 DEF WriteKept, Logged
<1>4. CASE Durable
  <2>1. pc = "wal" /\ queue = <<>> /\ pc' = "insert" /\ at = 0 /\ UNCHANGED <<wal, pending, at>>
    BY <1>4 DEF Durable, disk, TypeOK
  <2>2. DOMAIN queue = {}
    BY <2>1
  <2> QED BY <1>0, <2>1, <2>2 DEF WriteKept, Logged
<1>5. CASE Cancel \/ Maintain \/ FlushFails \/ Crash \/ Open
  <2>1. pc' \in {"idle", "down"} \/ (pc' = "flush" /\ pending' = <<>>)
    BY <1>5, MaintainIs DEF Cancel, FlushFails, Crash, Open
  <2>2. pending' = <<>> => DOMAIN pending' = {}
    OBVIOUS
  <2> QED BY <2>1, <2>2 DEF WriteKept
<1>6. CASE Insert
  <2>1. /\ pc = "insert" /\ at' = at + 1 /\ InMemory' = SkipInsert(active, MemEntry)
        /\ MemEntry.w = pending[at + 1].w /\ MemEntry.key = pending[at + 1].key
        /\ MemEntry \in Entries /\ at + 1 \in DOMAIN pending
    BY <1>6, InsertIs
  <2>2. (pending' = pending /\ pc' \in {"insert", "flush"}) \/ pc' = "idle"
    <3>1. CASE Continue(at + 1)
      <4>1. at + 1 \in Nat
        BY <1>0
      <4> QED BY <3>1, <4>1, AckIs
    <3>2. CASE pending' = pending /\ pc' = "flush"
      BY <3>2
    <3> QED BY <1>6, <3>1, <3>2, InsertIs
  <2>3. ~Flush /\ ~FlushFails /\ ~Crash
    BY <1>6, <2>1, <2>2 DEF Flush, FlushFails, Crash
  <2>4. CASE pc' = "idle"
    BY <2>4 DEF WriteKept
  <2>5. ASSUME NEW i \in DOMAIN pending, NEW k \in Keys, NEW w \in Nat,
               k = pending[i].key, w = pending[i].w
        PROVE  /\ w \in misfiled' \/ Logged(k, w)' \/ SavedFor(k, w)'
               /\ i <= at + 1 => SavedFor(k, w)' \/ Covered(k, w)'
    <3>1. /\ Logged(k, w) => Logged(k, w)'
          /\ Covered(k, w) => Covered(k, w)'
          /\ misfiled' = misfiled
      BY <2>1, <2>3, SteadyStep
    <3>2. SavedFor(k, w) => SavedFor(k, w)'
      BY SavedStays
    <3>3. /\ w \in misfiled \/ Logged(k, w) \/ SavedFor(k, w)
          /\ i <= at => SavedFor(k, w) \/ Covered(k, w)
      BY <2>1, <2>5 DEF WriteKept
    <3>4. CASE i = at + 1
      <4>1. MemEntry.w >= w /\ MemEntry.key = k
        BY <1>0, <2>1, <2>5, <3>4
      <4>2. Covered(k, w)'
        BY <2>1, <4>1, SkipInsertIs DEF Covered
      <4> QED BY <3>1, <3>2, <3>3, <4>2
    <3>5. CASE i # at + 1
      <4>1. i <= at + 1 => i <= at
        BY <1>0, <3>5
      <4> QED BY <3>1, <3>2, <3>3, <4>1
    <3> QED BY <3>4, <3>5
  <2>6. ASSUME pending' = pending, pc' \in {"insert", "flush"}
        PROVE  WriteKept'
    <3> SUFFICES ASSUME NEW i \in DOMAIN pending
                 PROVE  /\ \/ pending[i].w \in misfiled'
                           \/ \E x \in wal' : x.key = pending[i].key /\ x.w = pending[i].w
                           \/ \E t \in DOMAIN ssts' : \E e \in ssts'[t] :
                                 e.key = pending[i].key /\ e.w >= pending[i].w
                        /\ i <= at + 1 =>
                              \/ \E t \in DOMAIN ssts' : \E e \in ssts'[t] :
                                    e.key = pending[i].key /\ e.w >= pending[i].w
                              \/ \E e \in InMemory' :
                                    e.key = pending[i].key /\ e.w >= pending[i].w
      BY <2>1, <2>6 DEF WriteKept, Logged, SavedFor, Covered
    <3>1. pending[i].key \in Keys /\ pending[i].w \in Nat
      <4>1. pending[i] \in Entries
        BY <1>0
      <4> QED BY <1>0, <4>1 DEF Entries
    <3>2. PICK k \in Keys, w \in Nat : k = pending[i].key /\ w = pending[i].w
      BY <3>1
    <3> QED BY <2>5, <3>2 DEF Logged, SavedFor, Covered
  <2> QED BY <2>2, <2>4, <2>6
<1>7. CASE Flush
  <2>1. pc = "flush" /\ CommitTable /\ Continue(at) /\ at' = at
        /\ misfiled' = misfiled \cup {pending[i].w : i \in at + 1 .. Len(pending)}
    BY <1>7 DEF Flush
  <2>2. CASE pc' = "idle"
    BY <2>2 DEF WriteKept
  <2>3. ASSUME NEW i \in DOMAIN pending, NEW k, NEW w, k = pending[i].key, w = pending[i].w
        PROVE  /\ w \in misfiled' \/ SavedFor(k, w)'
               /\ i <= at => SavedFor(k, w)'
    <3>1. CASE i <= at
      <4>1. SavedFor(k, w) \/ Covered(k, w)
        BY <2>1, <2>3, <3>1 DEF WriteKept
      <4> QED BY <2>1, <4>1, FlushSaves, SavedStays
    <3>2. CASE i > at
      <4>1. i \in at + 1 .. Len(pending)
        BY <1>0, <3>2
      <4> QED BY <1>0, <2>1, <2>3, <3>2, <4>1
    <3> QED BY <1>0, <3>1, <3>2
  <2>4. ASSUME pending' = pending, pc' = "insert"
        PROVE  WriteKept'
    <3> SUFFICES ASSUME NEW i \in DOMAIN pending
                 PROVE  /\ \/ pending[i].w \in misfiled'
                           \/ \E t \in DOMAIN ssts' : \E e \in ssts'[t] :
                                 e.key = pending[i].key /\ e.w >= pending[i].w
                        /\ i <= at => \E t \in DOMAIN ssts' : \E e \in ssts'[t] :
                                          e.key = pending[i].key /\ e.w >= pending[i].w
      BY <2>1, <2>4 DEF WriteKept, SavedFor
    <3>1. PICK k, w : k = pending[i].key /\ w = pending[i].w
      OBVIOUS
    <3> QED BY <2>3, <3>1 DEF SavedFor
  <2> QED BY <1>0, <2>1, <2>2, <2>4, AckIs
<1> QED BY <1>1, <1>2, <1>3, <1>4, <1>5, <1>6, <1>7 DEF Next, Progress

\* What is acknowledged stays in a table, in memory and the log, or in a segment
\* no flush deletes.
LEMMA AckedKeptStep ==
    ASSUME TypeOK, TypeOK', SegmentsInv, SegmentsInv', QueueInv, PendingInv, WriteKept,
           AckedRetained, pc # "down" => AckedKept, Next
    PROVE  pc' # "down" => AckedKept'
<1> DEFINE Kept(k, w) == \/ SavedFor(k, w)
                         \/ Covered(k, w) /\ Logged(k, w)
                         \/ KeptForGood(k, w)
<1> SUFFICES ASSUME pc' # "down", NEW k \in Keys, NEW w \in Nat, w = acked'[k], w # 0,
                    w \notin misfiled'
             PROVE  Kept(k, w)'
  <2>1. \A k \in Keys : acked'[k] \in Nat
    BY DEF TypeOK
  <2> QED BY <2>1 DEF AckedKept, SavedFor, Covered, Logged, KeptForGood
<1>0. /\ SavedFor(k, w) => SavedFor(k, w)'
      /\ pc # "down" /\ KeptForGood(k, w) => KeptForGood(k, w)'
  BY SavedStays, KeptStays
<1>00. /\ at \in Nat /\ at + 1 \in Nat /\ Len(pending) \in Nat
       /\ \A i \in DOMAIN pending : i \in Nat /\ i <= Len(pending)
  <2>1. at \in Nat /\ pending \in Seq(Entries)
    BY DEF TypeOK
  <2> QED BY <2>1
<1>1. CASE ~Flush /\ ~FlushFails /\ ~Open
  <2>1. ~Crash /\ pc # "down"
    <3>1. ~Crash
      BY DEF Crash
    <3> QED BY <1>1, <3>1, WaitIs, QuietIs DEF Next, Progress
  <2>2. /\ Logged(k, w) => Logged(k, w)'
        /\ Covered(k, w) => Covered(k, w)'
        /\ misfiled' = misfiled
    BY <1>1, <2>1, SteadyStep
  <2>3. CASE w = acked[k]
    <3>1. Kept(k, w)
      BY <2>1, <2>2, <2>3 DEF AckedKept
    <3> QED BY <1>0, <2>1, <2>2, <3>1
  <2>4. CASE w # acked[k]
    <3>1. Insert
      BY <1>1, <2>1, <2>4, WaitIs, MaintainIs DEF Next, Progress, ghosts
    <3>2. Continue(at + 1)
      BY <2>4, <3>1, InsertIs
    <3>3. Len(pending) <= at + 1 /\ \E i \in DOMAIN pending : w = pending[i].w /\ pending[i].key = k
      BY <1>00, <2>4, <3>2, AckIs
    <3>4. PICK i \in DOMAIN pending : w = pending[i].w /\ pending[i].key = k
      BY <3>3
    <3>5. /\ pc = "insert" /\ MemEntry.w = pending[at + 1].w /\ MemEntry.key = pending[at + 1].key
          /\ InMemory' = SkipInsert(active, MemEntry)
      BY <3>1, InsertIs
    <3>6. Logged(k, w) \/ SavedFor(k, w)
      BY <2>2, <3>4, <3>5 DEF WriteKept
    <3>7. CASE i = at + 1
      <4>1. MemEntry.w >= w /\ MemEntry.key = k
        BY <3>4, <3>5, <3>7
      <4>2. Covered(k, w)'
        BY <3>5, <4>1, SkipInsertIs DEF Covered
      <4> QED BY <1>0, <2>2, <3>6, <4>2
    <3>8. CASE i # at + 1
      <4>1. i <= at
        BY <1>00, <3>3, <3>8
      <4>2. SavedFor(k, w) \/ Covered(k, w)
        BY <3>4, <3>5, <4>1 DEF WriteKept
      <4> QED BY <1>0, <2>2, <3>6, <4>2
    <3> QED BY <3>7, <3>8
  <2> QED BY <2>3, <2>4
<1>2. CASE Flush
  <2>1. pc = "flush" /\ CommitTable /\ Continue(at) /\ w \notin misfiled
    BY <1>2 DEF Flush
  <2>2. Covered(k, w) => SavedFor(k, w)'
    BY <2>1, FlushSaves
  <2>3. CASE w = acked[k]
    <3>1. Kept(k, w)
      BY <2>1, <2>3 DEF AckedKept
    <3> QED BY <1>0, <2>1, <2>2, <3>1
  <2>4. CASE w # acked[k]
    <3>1. Len(pending) <= at /\ \E i \in DOMAIN pending : w = pending[i].w /\ pending[i].key = k
      BY <1>00, <2>1, <2>4, AckIs
    <3>2. PICK i \in DOMAIN pending : w = pending[i].w /\ pending[i].key = k
      BY <3>1
    <3>3. i <= at
      BY <1>00, <3>1
    <3>4. SavedFor(k, w) \/ Covered(k, w)
      BY <2>1, <3>2, <3>3 DEF WriteKept
    <3> QED BY <1>0, <2>2, <3>4
  <2> QED BY <2>3, <2>4
<1>3. CASE FlushFails
  <2>1. pc = "flush" /\ acked' = acked /\ w \notin misfiled
    BY <1>3 DEF FlushFails
  <2>2. Kept(k, w)
    BY <2>1 DEF AckedKept
  <2>3. CASE Covered(k, w) /\ Logged(k, w)
    BY <1>3, <2>3, FailedFlushKeeps
  <2> QED BY <1>0, <2>1, <2>2, <2>3
<1>4. CASE Open
  <2>1. /\ acked' = acked /\ misfiled' = misfiled /\ wal' = wal /\ dirty' = {}
        /\ segment' = Highest(DOMAIN starts) + 1
    BY <1>4 DEF Open
  <2>2. Logged(k, w) \/ SavedFor(k, w)
    BY <2>1 DEF AckedRetained
  <2>3. ASSUME NEW x \in wal, x.key = k, x.w = w
        PROVE  KeptForGood(k, w)'
    <3>1. x.seg < segment'
      BY <2>1, NewSegment DEF SegmentsInv
    <3>2. Uncleanable(x.seg)'
      BY <2>1, <3>1 DEF Uncleanable, Charged
    <3> QED BY <2>1, <2>3, <3>2 DEF KeptForGood
  <2> QED BY <1>0, <2>2, <2>3 DEF Logged
<1> QED BY <1>1, <1>2, <1>3, <1>4

\* No step destroys an acknowledged write.
LEMMA AckedRetainedStep ==
    ASSUME TypeOK, TypeOK', SegmentsInv, QueueInv, PendingInv, pc # "down" => AckedKept,
           pc' # "down" => AckedKept', AckedRetained, Next
    PROVE  AckedRetained'
<1>1. CASE pc' # "down"
  BY <1>1 DEF AckedRetained, AckedKept, KeptForGood, Logged
<1>2. CASE pc' = "down"
  <2>1. Crash
    <3>1. ~(Put \/ PutBatch \/ Commit \/ RecordWrite \/ Durable \/ Cancel \/ Insert \/ Maintain)
      BY <1>2, WaitIs, QuietIs
    <3>2. ~Flush /\ ~FlushFails /\ ~Open
      BY <1>2, FlushIs DEF Open
    <3> QED BY <3>1, <3>2 DEF Next, Progress
  <2>2. pc # "down" /\ acked' = acked /\ misfiled' = misfiled
        /\ ((pc = "flush" /\ CommitTable) \/ UNCHANGED <<wal, ssts>>)
    BY <2>1, CrashIs
  <2> SUFFICES ASSUME NEW k \in Keys, NEW w \in Nat, w = acked[k], w # 0, w \notin misfiled
               PROVE  Logged(k, w)' \/ SavedFor(k, w)'
    <3>1. \A k \in Keys : acked[k] \in Nat
      BY DEF TypeOK
    <3> QED BY <2>2, <3>1 DEF AckedRetained, Logged, SavedFor
  <2>3. \/ SavedFor(k, w)
        \/ Covered(k, w) /\ Logged(k, w)
        \/ KeptForGood(k, w)
    BY <2>2 DEF AckedKept
  <2>4. CASE SavedFor(k, w)
    BY <2>4, SavedStays
  <2>5. CASE Covered(k, w) /\ Logged(k, w)
    <3>1. CASE pc = "flush" /\ CommitTable
      BY <2>5, <3>1, FlushSaves
    <3>2. CASE UNCHANGED wal
      BY <2>5, <3>2 DEF Logged
    <3> QED BY <2>2, <3>1, <3>2
  <2>6. CASE KeptForGood(k, w)
    <3>1. PICK x \in wal : x.key = k /\ x.w = w /\ Uncleanable(x.seg)
      BY <2>6 DEF KeptForGood
    <3>2. CASE pc = "flush" /\ PartOfFlush
      BY <3>1, <3>2, CleanupKeeps DEF Logged
    <3>3. CASE UNCHANGED disk
      BY <3>1, <3>3 DEF disk, Logged
    <3> QED BY <2>1, <3>2, <3>3 DEF Crash, Interrupted
  <2> QED BY <2>3, <2>4, <2>5, <2>6
<1> QED BY <1>1, <1>2

\* A node starts with nothing acknowledged.
LEMMA WriteInit ==
    ASSUME Init
    PROVE  WriteInv
<1>1. TypeOK
  <2>1. IsFiniteSet({}) /\ {} \in Tables
    BY FS_EmptySet, NoneType
  <2>2. wal = {} /\ starts = <<>> /\ pc = "down" /\ pending = <<>> /\ queue = <<>> /\ frozen = <<>>
        /\ active = {} /\ ssts = <<>> /\ handles = <<>>
    BY DEF Init
  <2>3. starts \in [DOMAIN starts -> Nat] /\ DOMAIN starts = {}
    BY <2>2
  <2>4. /\ ssts \in Seq(Tables) /\ handles \in Seq(Tables) /\ pending \in Seq(Entries)
        /\ frozen \in Seq([gen : Nat, entries : Tables])
        /\ queue \in Seq([key : Keys, w : Nat \ {0}, last : BOOLEAN])
    BY <2>2
  <2>5. acked \in [Keys -> Nat]
    BY DEF Init
  <2>6. /\ lastFlushed \in Nat /\ segment \in Nat /\ walNext \in Nat /\ nextSeq \in Nat
        /\ memNext \in Nat /\ generation \in Nat /\ at \in Nat /\ nextWrite \in Nat \ {0}
        /\ restarts \in Nat /\ numbering \in {"inStep", "apart", "broken"}
        /\ misfiled \subseteq Nat /\ scenario \in Scenarios
    BY DEF Init
  <2>7. batch \in BOOLEAN /\ recorded \in BOOLEAN
    BY Zenon DEF Init
  <2>8. /\ wal \subseteq [key : Keys, w : Nat \ {0}, seq : Nat, seg : Nat]
        /\ dirty \subseteq Nat \X Nat
    BY DEF Init
  <2> QED BY <2>1, <2>2, <2>3, <2>4, <2>5, <2>6, <2>7, <2>8 DEF TypeOK
<1>2. /\ wal = {} /\ pc = "down" /\ DOMAIN pending = {} /\ DOMAIN queue = {} /\ InMemory = {}
      /\ DOMAIN ssts = {} /\ \A k \in Keys : acked[k] = 0
      /\ nextWrite = 1
  BY DEF Init, InMemory
<1>3. SegmentsInv /\ LogInv /\ PendingInv
  BY <1>2 DEF SegmentsInv, LogInv, PendingInv
<1>4. QueueInv /\ WriteKept /\ AckedRetained
  BY <1>2 DEF QueueInv, WriteKept, AckedRetained
<1> QED BY <1>1, <1>2, <1>3, <1>4 DEF WriteInv

\* Every step keeps what the retention of writes rests on.
LEMMA WriteStep ==
    ASSUME WriteInv, [Next]_vars
    PROVE  WriteInv'
<1> USE DEF WriteInv
<1>1. CASE Next
  <2>1. TypeOK'
    BY <1>1, TypeStep
  <2>2. SegmentsInv' /\ LogInv' /\ QueueInv' /\ PendingInv' /\ WriteKept'
    BY <1>1, <2>1, SegmentsStep, LogStep, QueueStep, PendingStep, WriteKeptStep
  <2>3. pc' # "down" => AckedKept'
    BY <1>1, <2>1, <2>2, AckedKeptStep
  <2>4. AckedRetained'
    BY <1>1, <2>1, <2>3, AckedRetainedStep
  <2> QED BY <2>1, <2>2, <2>3, <2>4
<1>2. CASE UNCHANGED vars
  <2>1. UNCHANGED <<wal, starts, ssts, lastFlushed, queue, segment, walNext, dirty>>
        /\ UNCHANGED <<nextSeq, memNext, generation, active, frozen, handles, pc, pending, at>>
        /\ UNCHANGED <<batch, recorded, acked, nextWrite, numbering, misfiled, restarts, scenario>>
    BY <1>2 DEF vars, disk, s3, walVars, memVars, opVars, ghosts
  <2>2. InMemory' = InMemory /\ UNCHANGED Frozen
    BY <2>1 DEF InMemory, Frozen
  <2>3. TypeOK'
    BY <2>1 DEF TypeOK
  <2>4. SegmentsInv' /\ LogInv' /\ QueueInv' /\ PendingInv'
    BY <2>1, <2>2 DEF SegmentsInv, LogInv, QueueInv, PendingInv
  <2>5. WriteKept' /\ AckedRetained'
    BY <2>1, <2>2 DEF WriteKept, AckedRetained, Logged, SavedFor, Covered
  <2>6. AckedKept' <=> AckedKept
    BY <2>1, <2>2 DEF AckedKept, SavedFor, Covered, Logged, KeptForGood, Uncleanable,
              Charged, ToFlush
  <2> QED BY <2>1, <2>3, <2>4, <2>5, <2>6
<1> QED BY <1>1, <1>2

\* In every scenario (single writes and batches, segments that rotate, failing
\* flushes, dropped requests and restarts) the state is well formed, the log is
\* in order and every acknowledged write is accounted for: in a table, in
\* memory and the log, or in a segment no flush makes clean (wal_manager.rs).
THEOREM WriteInvariant == Spec => []WriteInv
<1>1. Init => WriteInv
  BY WriteInit
<1>2. WriteInv /\ [Next]_vars => WriteInv'
  BY WriteStep
<1> QED BY <1>1, <1>2, PTL DEF Spec

\* An acknowledged write is never destroyed: the segment cleanup after a flush
\* (engine.rs, flush_frozen) never deletes the last copy of it, whatever was
\* dropped, failed or restarted before, except for the rest of a batch that a
\* flush cut in two and a write in an uncharged segment when a flush failed.
THEOREM AckedWritesAreRetained == Spec => []AckedRetained
<1>1. WriteInv => AckedRetained
  BY DEF WriteInv
<1> QED BY <1>1, WriteInvariant, PTL
-----------------------------------------------------------------------------
(* What a read finds *)

\* A table without the key.
LEMMA NewestNone ==
    ASSUME NEW t, NEW k, \A e \in t : e.key # k
    PROVE  Newest(t, k).w = 0
<1>1. {e \in t : e.key = k} = {}
  OBVIOUS
<1>2. Newest(t, k) = [seq |-> 0, w |-> 0]
  BY <1>1 DEF Newest
<1> QED BY <1>2

\* A table with the key: the entry with the highest number.
LEMMA NewestSome ==
    ASSUME NEW t \in Tables, NEW k, NEW x \in t, x.key = k
    PROVE  \E top \in t : /\ top.key = k /\ top \in Entries
                          /\ Newest(t, k).seq = top.seq /\ Newest(t, k).w = top.w
                          /\ \A f \in t : f.key = k => f.seq <= top.seq
<1> DEFINE vs == {e \in t : e.key = k}
           high == Highest(SeqsOf(vs))
<1>1. t \subseteq Entries /\ IsFiniteSet(t) /\ vs \in SUBSET t /\ vs # {}
  BY DEF Tables
<1>2. IsFiniteSet(vs) /\ \A e \in vs : e.seq \in Nat
  BY <1>1, FS_Subset DEF Entries
<1>3. /\ \E e \in vs : high = e.seq
      /\ \A e \in vs : e.seq <= high
  <2> HIDE DEF vs
  <2> QED BY <1>1, <1>2, MaxSeqIs
<1> DEFINE top == CHOOSE e \in vs : e.seq = high
<1>4. top \in vs /\ top.seq = high
  <2> HIDE DEF vs, high
  <2> QED BY <1>3, Zenon
<1>5. Newest(t, k) = [seq |-> top.seq, w |-> top.w]
  BY <1>1 DEF Newest
<1> HIDE DEF top
<1>6. Newest(t, k).seq = top.seq /\ Newest(t, k).w = top.w
  BY <1>5
<1>7. top \in t /\ top.key = k /\ top \in Entries
  BY <1>1, <1>4
<1>8. \A f \in t : f.key = k => f.seq <= top.seq
  BY <1>3, <1>4
<1> QED BY <1>6, <1>7, <1>8

\* The entry above all others of its key is the newest.
LEMMA NewestIs ==
    ASSUME NEW t \in Tables, NEW x \in t,
           \A f \in t : f.key = x.key => f.seq < x.seq \/ f = x
    PROVE  Newest(t, x.key).w = x.w
<1>1. PICK top \in t : /\ top.key = x.key /\ top \in Entries
                       /\ Newest(t, x.key).w = top.w
                       /\ \A f \in t : f.key = x.key => f.seq <= top.seq
  BY NewestSome
<1>2. x.seq \in Nat /\ top.seq \in Nat
  BY DEF Tables, Entries
<1>3. top = x
  BY <1>1, <1>2
<1> QED BY <1>1, <1>3

\* What a table holds of a key is a write, or nothing.
LEMMA NewestType ==
    ASSUME NEW t \in Tables, NEW k
    PROVE  /\ Newest(t, k).w \in Nat
           /\ Newest(t, k).w # 0 <=> \E e \in t : e.key = k
<1>1. CASE \E e \in t : e.key = k
  <2>1. PICK top \in t : top.key = k /\ top \in Entries /\ Newest(t, k).w = top.w
    BY <1>1, NewestSome
  <2>2. top.w \in Nat \ {0}
    BY <2>1 DEF Entries
  <2> QED BY <1>1, <2>1, <2>2
<1>2. CASE \A e \in t : e.key # k
  BY <1>2, NewestNone
<1> QED BY <1>1, <1>2

\* Tables with increasing numbers: the last one that has the key decides.
LEMMA BestOfLast ==
    ASSUME NEW T \in Seq(Tables), Increasing(T), NEW k, NEW i \in DOMAIN T,
           Newest(T[i], k).w # 0,
           \A j \in DOMAIN T : i < j => Newest(T[j], k).w = 0
    PROVE  BestOf(T, k) = Newest(T[i], k).w
<1> DEFINE found == {j \in DOMAIN T : Newest(T[j], k).w # 0}
           seqs == {Newest(T[j], k).seq : j \in found}
           n == Newest(T[i], k).seq
           First(j) == /\ Newest(T[j], k).seq = Highest(seqs)
                       /\ \A l \in found : l < j => Newest(T[l], k).seq # Highest(seqs)
<1>0. DOMAIN T = 1 .. Len(T) /\ Len(T) \in Nat /\ \A j \in DOMAIN T : T[j] \in Tables
  OBVIOUS
<1>1. i \in found /\ \A j \in found : j <= i
  BY <1>0
<1>2. \A j \in found : \E top \in T[j] : Newest(T[j], k).seq = top.seq /\ top.seq \in Nat
  <2> TAKE j \in found
  <2>1. j \in DOMAIN T /\ T[j] \in Tables /\ \E e \in T[j] : e.key = k
    BY <1>0, NewestType
  <2>2. PICK top \in T[j] : top \in Entries /\ Newest(T[j], k).seq = top.seq
    BY <2>1, NewestSome
  <2> QED BY <2>2 DEF Entries
<1>3. \A j \in found : Newest(T[j], k).seq \in Nat
  BY <1>2
<1>4. \A j \in found : j # i => Newest(T[j], k).seq < n
  <2> SUFFICES ASSUME NEW j \in found, j # i
               PROVE  Newest(T[j], k).seq < n
    OBVIOUS
  <2>1. j < i /\ j \in DOMAIN T
    BY <1>0, <1>1
  <2>2. PICK low \in T[j] : Newest(T[j], k).seq = low.seq
    BY <1>2
  <2>3. PICK top \in T[i] : n = top.seq
    BY <1>1, <1>2
  <2> QED BY <2>1, <2>2, <2>3 DEF Increasing
<1>5. Highest(seqs) = n
  <2>1. seqs \subseteq Nat /\ n \in seqs
    BY <1>1, <1>3
  <2>2. \A y \in seqs : y <= n
    BY <1>1, <1>3, <1>4
  <2> HIDE DEF seqs, n
  <2> QED BY <2>1, <2>2, HighestAt
<1>6. First(i)
  <2> DEFINE h == Highest(seqs)
  <2>1. h = n /\ n \in Nat /\ \A j \in found : j # i => Newest(T[j], k).seq < h
    BY <1>1, <1>3, <1>4, <1>5
  <2> HIDE DEF h
  <2>2. \A l \in found : l < i => Newest(T[l], k).seq # h
    BY <1>0, <1>3, <2>1
  <2> QED BY <2>1, <2>2 DEF h
<1>7. \A j \in found : First(j) => j = i
  <2> SUFFICES ASSUME NEW j \in found, Newest(T[j], k).seq = n, j # i
               PROVE  FALSE
    BY <1>5
  <2> QED BY <1>1, <1>3, <1>4
<1> DEFINE first == CHOOSE j \in found : First(j)
<1>8. first = i
  <2> HIDE DEF First, found
  <2> QED BY <1>1, <1>6, <1>7
<1>9. BestOf(T, k) = Newest(T[first], k).w
  <2>1. found # {}
    BY <1>1
  <2> QED BY <2>1 DEF BestOf
<1> QED BY <1>8, <1>9

\* Tables none of which has the key.
LEMMA BestOfNone ==
    ASSUME NEW T \in Seq(Tables), NEW k, \A j \in DOMAIN T : Newest(T[j], k).w = 0
    PROVE  BestOf(T, k) = 0
<1>1. {j \in DOMAIN T : Newest(T[j], k).w # 0} = {}
  OBVIOUS
<1> QED BY <1>1 DEF BestOf

\* There is a last table with the key, or none.
LEMMA LastFound ==
    ASSUME NEW T \in Seq(Tables), NEW k
    PROVE  \/ \A j \in DOMAIN T : Newest(T[j], k).w = 0
           \/ \E i \in DOMAIN T : /\ Newest(T[i], k).w # 0
                                  /\ \A j \in DOMAIN T : i < j => Newest(T[j], k).w = 0
<1> DEFINE found == {j \in DOMAIN T : Newest(T[j], k).w # 0}
<1>1. DOMAIN T = 1 .. Len(T) /\ Len(T) \in Nat
  OBVIOUS
<1>2. found \subseteq 0 .. Len(T)
  BY <1>1
<1>3. CASE found = {}
  BY <1>3
<1>4. CASE found # {}
  <2>1. PICK i \in found : \A j \in found : j <= i
    <3> HIDE DEF found
    <3> QED BY <1>1, <1>2, <1>4, GreatestNat
  <2>2. \A j \in DOMAIN T : i < j => j \notin found
    BY <1>1, <2>1
  <2> QED BY <2>1, <2>2
<1> QED BY <1>3, <1>4

\* A table added behind the others decides for the keys it has.
LEMMA BestOfAppend ==
    ASSUME NEW T \in Seq(Tables), NEW t \in Tables, Increasing(T), Increasing(Append(T, t)),
           NEW k
    PROVE  BestOf(Append(T, t), k) =
              IF Newest(t, k).w # 0 THEN Newest(t, k).w ELSE BestOf(T, k)
<1> DEFINE U == Append(T, t)
           n == Len(T)
<1>1. U \in Seq(Tables) /\ DOMAIN U = 1 .. n + 1 /\ U[n + 1] = t /\ n \in Nat
      /\ DOMAIN T = 1 .. n /\ \A j \in 1 .. n : U[j] = T[j]
  OBVIOUS
<1>2. Increasing(U)
  OBVIOUS
<1> HIDE DEF U, n
<1>3. CASE Newest(t, k).w # 0
  <2>1. n + 1 \in DOMAIN U /\ \A j \in DOMAIN U : ~(n + 1 < j)
    BY <1>1
  <2>2. BestOf(U, k) = Newest(U[n + 1], k).w
    BY <1>1, <1>2, <1>3, <2>1, BestOfLast
  <2> QED BY <1>1, <1>3, <2>2 DEF U
<1>4. CASE Newest(t, k).w = 0
  <2>1. CASE \A j \in DOMAIN T : Newest(T[j], k).w = 0
    <3>1. \A j \in DOMAIN U : Newest(U[j], k).w = 0
      <4> TAKE j \in DOMAIN U
      <4>1. j = n + 1 \/ j \in 1 .. n
        BY <1>1
      <4> QED BY <1>1, <1>4, <2>1, <4>1
    <3> QED BY <1>1, <1>4, <2>1, <3>1, BestOfNone DEF U
  <2>2. CASE \E i \in DOMAIN T : /\ Newest(T[i], k).w # 0
                                 /\ \A j \in DOMAIN T : i < j => Newest(T[j], k).w = 0
    <3>1. PICK i \in DOMAIN T : /\ Newest(T[i], k).w # 0
                                /\ \A j \in DOMAIN T : i < j => Newest(T[j], k).w = 0
      BY <2>2
    <3>2. i \in DOMAIN U /\ U[i] = T[i]
      BY <1>1
    <3>3. \A j \in DOMAIN U : i < j => Newest(U[j], k).w = 0
      <4> TAKE j \in DOMAIN U
      <4>1. j = n + 1 \/ j \in 1 .. n
        BY <1>1
      <4> QED BY <1>1, <1>4, <3>1, <4>1
    <3>4. BestOf(T, k) = Newest(T[i], k).w
      BY <3>1, BestOfLast
    <3>5. BestOf(U, k) = Newest(U[i], k).w
      BY <1>1, <1>2, <3>1, <3>2, <3>3, BestOfLast
    <3> QED BY <1>4, <3>2, <3>4, <3>5 DEF U
  <2> QED BY <2>1, <2>2, LastFound
<1> QED BY <1>3, <1>4

\* What the tables hold of a key is a write, or nothing.
LEMMA BestOfType ==
    ASSUME NEW T \in Seq(Tables), Increasing(T), NEW k
    PROVE  BestOf(T, k) \in Nat
<1>1. CASE \A j \in DOMAIN T : Newest(T[j], k).w = 0
  BY <1>1, BestOfNone
<1>2. CASE \E i \in DOMAIN T : /\ Newest(T[i], k).w # 0
                               /\ \A j \in DOMAIN T : i < j => Newest(T[j], k).w = 0
  <2>1. PICK i \in DOMAIN T : /\ Newest(T[i], k).w # 0
                              /\ \A j \in DOMAIN T : i < j => Newest(T[j], k).w = 0
    BY <1>2
  <2>2. BestOf(T, k) = Newest(T[i], k).w /\ T[i] \in Tables
    BY <2>1, BestOfLast
  <2> QED BY <2>2, NewestType
<1> QED BY <1>1, <1>2, LastFound
-----------------------------------------------------------------------------
(* Reads are fresh *)

\* A committed table goes behind the others, and has higher numbers.
LEMMA AppendedTable ==
    ASSUME TypeOK, TypeOK', PendingInv, MemoryInv, TablesInv, pc = "flush", CommitTable
    PROVE  /\ TablesInv' /\ ssts' = Append(ssts, Frozen.entries) /\ ssts' \in Seq(Tables)
           /\ lastFlushed <= lastFlushed' /\ lastFlushed' < memNext
           /\ \E e \in Frozen.entries : e.seq = lastFlushed'
           /\ \A k : BestOf(ssts', k) = IF Newest(Frozen.entries, k).w # 0
                                        THEN Newest(Frozen.entries, k).w ELSE BestOf(ssts, k)
<1>1. ssts \in Seq(Tables) /\ Frozen.entries \in Tables /\ lastFlushed \in Nat
      /\ lastFlushed' \in Nat /\ ssts' \in Seq(Tables)
  BY FrozenType DEF TypeOK
<1>2. ssts' = Append(ssts, Frozen.entries) /\ lastFlushed' = MaxSeqOf(Frozen.entries)
  BY DEF CommitTable
<1>3. Frozen.entries \subseteq InMemory
  BY DEF InMemory, TypeOK
<1>4. \A e \in Frozen.entries : e.seq \in Nat /\ lastFlushed < e.seq /\ e.seq < memNext
  BY <1>3, MemoryType DEF MemoryInv
<1>5. \A e \in Frozen.entries : e.seq <= lastFlushed'
  BY <1>2, <1>4, FrozenType, MaxSeqIs DEF MaxSeqOf
<1>6. \E e \in Frozen.entries : e.seq = lastFlushed'
  <2>1. Frozen.entries # {}
    BY DEF MemoryInv
  <2> QED BY <1>2, <1>4, <2>1, FrozenType, MaxSeqIs DEF MaxSeqOf
<1>7. lastFlushed <= lastFlushed' /\ lastFlushed' < memNext
  BY <1>1, <1>4, <1>6
<1> DEFINE n == Len(ssts)
           U == Append(ssts, Frozen.entries)
<1>8. n \in Nat /\ DOMAIN ssts = 1 .. n /\ DOMAIN U = 1 .. n + 1 /\ U[n + 1] = Frozen.entries
      /\ \A i \in 1 .. n : U[i] = ssts[i]
  BY <1>1
<1> HIDE DEF n, U
<1>9. \A i \in 1 .. n : \A e \in ssts[i] : e.seq \in Nat /\ e.seq <= lastFlushed
  <2> TAKE i \in 1 .. n
  <2>1. ssts[i] \in Tables /\ i \in DOMAIN ssts
    BY <1>1, <1>8
  <2> QED BY <2>1 DEF TablesInv, Tables, Entries
<1>10. \A i \in DOMAIN U : \A e \in U[i] : e.seq <= lastFlushed'
  <2> TAKE i \in DOMAIN U
  <2>1. CASE i = n + 1
    BY <1>5, <1>8, <2>1
  <2>2. CASE i \in 1 .. n
    BY <1>1, <1>7, <1>8, <1>9, <2>2
  <2> QED BY <1>8, <2>1, <2>2
<1>11. Increasing(U)
  <2> SUFFICES ASSUME NEW i \in DOMAIN U, NEW j \in DOMAIN U, i < j,
                      NEW e \in U[i], NEW f \in U[j]
               PROVE  e.seq < f.seq
    BY DEF Increasing
  <2>1. i \in 1 .. n /\ e \in ssts[i]
    BY <1>8
  <2>2. CASE j = n + 1
    BY <1>1, <1>4, <1>8, <1>9, <2>1, <2>2
  <2>3. CASE j \in 1 .. n
    BY <1>8, <2>1, <2>3 DEF TablesInv, Increasing
  <2> QED BY <1>8, <2>2, <2>3
<1>12. TablesInv'
  BY <1>2, <1>10, <1>11 DEF TablesInv, U
<1>13. \A k : BestOf(ssts', k) = IF Newest(Frozen.entries, k).w # 0
                                 THEN Newest(Frozen.entries, k).w ELSE BestOf(ssts, k)
  <2> TAKE k
  <2>1. Increasing(ssts) /\ Increasing(Append(ssts, Frozen.entries))
    BY <1>11 DEF TablesInv, U
  <2> QED BY <1>1, <1>2, <2>1, BestOfAppend
<1> QED BY <1>1, <1>2, <1>6, <1>7, <1>12, <1>13

\* What a read finds when nothing is frozen, and while a flush is on.
LEMMA GetIs ==
    ASSUME NEW k
    PROVE  /\ frozen = <<>> => Get(k) = IF Newest(active, k).w # 0 THEN Newest(active, k).w
                                        ELSE BestOf(handles, k)
           /\ frozen # <<>> /\ active = {} =>
                 Get(k) = IF Newest(Frozen.entries, k).w # 0 THEN Newest(Frozen.entries, k).w
                          ELSE BestOf(handles, k)
<1>1. Newest({}, k).w = 0
  BY NewestNone
<1> QED BY <1>1 DEF Get, Frozen

\* The same after a step.
LEMMA GetNext ==
    ASSUME NEW k
    PROVE  /\ frozen' = <<>> => Get(k)' = IF Newest(active', k).w # 0 THEN Newest(active', k).w
                                          ELSE BestOf(handles', k)
           /\ frozen' # <<>> /\ active' = {} =>
                 Get(k)' = IF Newest(Frozen'.entries, k).w # 0
                           THEN Newest(Frozen'.entries, k).w ELSE BestOf(handles', k)
<1>1. Newest({}, k).w = 0
  BY NewestNone
<1> QED BY <1>1 DEF Get, Frozen

\* An entry numbered from the memtable's counter on hides the others of its key.
LEMMA NewestInsert ==
    ASSUME NEW t \in Tables, NEW e \in Entries, \A o \in t : o.seq < e.seq, NEW k
    PROVE  Newest(SkipInsert(t, e), k).w = IF k = e.key THEN e.w ELSE Newest(t, k).w
<1> DEFINE u == SkipInsert(t, e)
<1>1. u \in Tables /\ e \in u /\ \A o \in u : o \in t \/ o = e
  BY SkipInsertType, SkipInsertIs
<1>2. CASE k = e.key
  <2>1. \A o \in u : o.key = e.key => o.seq < e.seq \/ o = e
    BY <1>1
  <2> HIDE DEF u
  <2>2. Newest(u, e.key).w = e.w
    BY <1>1, <2>1, NewestIs
  <2> QED BY <1>2, <2>2 DEF u
<1>3. CASE k # e.key
  <2>1. {o \in u : o.key = k} = {o \in t : o.key = k}
    BY <1>1, <1>3, SkipInsertIs
  <2> HIDE DEF u
  <2>2. Newest(u, k) = Newest(t, k)
    BY <2>1, Zenon DEF Newest
  <2> QED BY <1>3, <2>2 DEF u
<1> QED BY <1>2, <1>3

\* A read after an insert that is not numbered below the memtable's counter.
LEMMA InsertReads ==
    ASSUME TypeOK, TypeOK', PendingInv, MemoryInv, Insert, numbering' # "broken"
    PROVE  /\ MemoryInv' /\ MemEntry.seq >= memNext /\ memNext' = MemEntry.seq + 1
           /\ \A k : Get(k)' = IF k = MemEntry.key THEN MemEntry.w ELSE Get(k)
<1>1. /\ pc = "insert" /\ at' = at + 1 /\ at \in Nat /\ at + 1 \in DOMAIN pending
      /\ memNext' = IF MemEntry.seq >= memNext THEN MemEntry.seq + 1 ELSE memNext
      /\ numbering' = IF MemEntry.seq < memNext THEN "broken" ELSE numbering
      /\ MemEntry \in Entries /\ MemEntry.w = pending[at + 1].w
      /\ MemEntry.key = pending[at + 1].key
      /\ InMemory = active /\ frozen = <<>> /\ InMemory' = SkipInsert(active, MemEntry)
      /\ \/ /\ active' = SkipInsert(active, MemEntry) /\ frozen' = <<>>
            /\ pc' # "flush" /\ Continue(at + 1)
         \/ /\ frozen' # <<>> /\ Frozen'.entries = SkipInsert(active, MemEntry)
            /\ active' = {} /\ pc' = "flush" /\ UNCHANGED <<acked, pending>>
      /\ UNCHANGED <<s3, handles>>
  BY InsertIs
<1>2. /\ active \in Tables /\ memNext \in Nat /\ lastFlushed \in Nat
      /\ MemEntry.seq \in Nat /\ MemEntry.w \in Nat \ {0}
      /\ \A o \in active : o.seq \in Nat
      /\ pending \in Seq(Entries)
  BY <1>1, MemoryType DEF TypeOK, Entries
<1>3. MemEntry.seq >= memNext /\ memNext' = MemEntry.seq + 1
  BY <1>1, <1>2
<1>4. \A o \in active : lastFlushed < o.seq /\ o.seq < MemEntry.seq
  BY <1>1, <1>2, <1>3 DEF MemoryInv
<1>5. \A k : Newest(SkipInsert(active, MemEntry), k).w =
                IF k = MemEntry.key THEN MemEntry.w ELSE Newest(active, k).w
  BY <1>1, <1>2, <1>4, NewestInsert
<1>6. \A k : Get(k)' = IF k = MemEntry.key THEN MemEntry.w ELSE Get(k)
  <2> TAKE k
  <2>1. Get(k) = IF Newest(active, k).w # 0 THEN Newest(active, k).w ELSE BestOf(handles, k)
    BY <1>1, GetIs
  <2>2. Get(k)' = IF Newest(SkipInsert(active, MemEntry), k).w # 0
                  THEN Newest(SkipInsert(active, MemEntry), k).w ELSE BestOf(handles', k)
    BY <1>1, GetNext
  <2>3. handles' = handles
    BY <1>1
  <2> QED BY <1>2, <1>5, <2>1, <2>2, <2>3
<1>7. \A i \in DOMAIN pending : /\ pending[i].w \in Nat /\ pending[i].key \in Keys
                                /\ i \in Nat /\ i <= Len(pending) /\ Len(pending) \in Nat
  <2> TAKE i \in DOMAIN pending
  <2>1. pending[i] \in Entries
    BY <1>2
  <2> QED BY <1>2, <2>1 DEF Entries
<1>8. \A i \in DOMAIN pending : \A k \in Keys :
         i <= at + 1 /\ pending[i].key = k => Get(k)' >= pending[i].w
  <2> SUFFICES ASSUME NEW i \in DOMAIN pending, NEW k \in Keys, i <= at + 1, pending[i].key = k
               PROVE  Get(k)' >= pending[i].w
    OBVIOUS
  <2>1. CASE i = at + 1
    BY <1>1, <1>6, <1>7, <2>1
  <2>2. CASE i # at + 1
    <3>1. i <= at /\ i < at + 1
      BY <1>1, <1>7, <2>2
    <3>2. Get(k) >= pending[i].w
      BY <1>1, <3>1 DEF MemoryInv
    <3>3. pending[i].w < pending[at + 1].w
      BY <1>1, <3>1 DEF PendingInv
    <3> QED BY <1>1, <1>6, <1>7, <3>2, <3>3
  <2> QED BY <2>1, <2>2
<1>9. \A k \in Keys : acked[k] \in Nat /\ Get(k)' >= acked[k]
  <2> TAKE k \in Keys
  <2>1. acked[k] \in Nat
    BY DEF TypeOK
  <2>2. Get(k) >= acked[k] /\ acked[k] < pending[at + 1].w
    BY <1>1 DEF MemoryInv, PendingInv
  <2> QED BY <1>1, <1>6, <1>7, <2>1, <2>2
<1>10. \A k \in Keys : Get(k)' >= acked'[k]
  <2>1. CASE acked' = acked
    BY <1>9, <2>1
  <2>2. CASE Continue(at + 1)
    <3> TAKE k \in Keys
    <3>1. at + 1 \in Nat
      BY <1>1
    <3>2. \/ acked'[k] = acked[k]
          \/ \E i \in DOMAIN pending : i <= at + 1 /\ acked'[k] = pending[i].w /\ pending[i].key = k
      <4>1. \/ UNCHANGED <<pending, acked>>
            \/ /\ Len(pending) <= at + 1
               /\ \/ acked'[k] = acked[k]
                  \/ \E i \in DOMAIN pending : acked'[k] = pending[i].w /\ pending[i].key = k
        BY <2>2, <3>1, AckIs
      <4> QED BY <1>7, <3>1, <4>1
    <3>3. ASSUME NEW i \in DOMAIN pending, i <= at + 1, acked'[k] = pending[i].w,
                 pending[i].key = k
          PROVE  Get(k)' >= acked'[k]
      BY <1>8, <3>3
    <3> QED BY <1>9, <3>2, <3>3
  <2> QED BY <1>1, <2>1, <2>2
<1>11. pc' \in {"insert", "flush"} => pending' = pending
  <2>1. CASE Continue(at + 1)
    <3>1. at + 1 \in Nat
      BY <1>1
    <3> QED BY <2>1, <3>1, AckIs
  <2> QED BY <1>1, <2>1
<1>12. \A e \in InMemory' : lastFlushed < e.seq /\ e.seq < memNext'
  <2> TAKE e \in InMemory'
  <2>1. e \in active \/ e = MemEntry
    BY <1>1, SkipInsertIs
  <2>2. lastFlushed < memNext
    BY DEF MemoryInv
  <2> QED BY <1>2, <1>3, <1>4, <2>1, <2>2
<1>13. handles' = ssts' /\ lastFlushed' = lastFlushed /\ lastFlushed < memNext'
  BY <1>1, <1>2, <1>3 DEF MemoryInv, s3
<1>14. pc' = "flush" => Frozen'.entries # {}
  BY <1>1, SkipInsertIs
<1>15. pc' \in {"insert", "flush"} => \A i \in DOMAIN pending' : \A k \in Keys :
          i <= at' /\ pending'[i].key = k => Get(k)' >= pending'[i].w
  BY <1>1, <1>8, <1>11
<1> QED BY <1>3, <1>6, <1>10, <1>12, <1>13, <1>14, <1>15 DEF MemoryInv

\* The numbering, once broken, stays so.
LEMMA NumberingNext ==
    ASSUME TypeOK, Next
    PROVE  /\ scenario' = scenario
           /\ numbering' # "broken" => numbering # "broken"
           /\ numbering' = "inStep" => numbering = "inStep"
<1>1. CASE Put \/ PutBatch
  <2>1. PICK keys \in Seq(Keys), isBatch \in BOOLEAN : Len(keys) > 0 /\ Submit(keys, isBatch)
    BY <1>1, SubmitSome
  <2> QED BY <2>1 DEF Submit
<1>2. CASE Insert
  BY <1>2, InsertIs
<1>3. CASE Open
  <2>1. scenario' = scenario /\ numbering' \in {"broken", "apart", numbering}
        /\ (numbering' = "apart" => numbering = "inStep" \/ numbering = "apart")
    BY <1>3 DEF Open
  <2> QED BY <2>1
<1>4. CASE Crash
  BY <1>4, CrashIs
<1> QED BY <1>1, <1>2, <1>3, <1>4
        DEF Next, Progress, Commit, RecordWrite, Durable, Cancel, Maintain, Flush, FlushFails, ghosts

\* While the numbers of memory are above the tables', a flush does not fail.
LEMMA FlushesSucceed ==
    ASSUME TypeOK, MemoryInv, Reliable, pc = "flush"
    PROVE  ~FlushFails
<1>1. MaxSeqOf(Frozen.entries) < lastFlushed => FALSE
  <2>1. PICK e \in Frozen.entries : TRUE
    BY DEF MemoryInv
  <2>2. e \in InMemory /\ lastFlushed < e.seq
    BY <2>1 DEF InMemory, TypeOK, MemoryInv
  <2>3. e.seq \in Nat /\ lastFlushed \in Nat /\ MaxSeqOf(Frozen.entries) \in Nat
    BY <2>2, MemoryType, FrozenType DEF TypeOK
  <2>4. e.seq <= MaxSeqOf(Frozen.entries)
    <3>1. \A f \in Frozen.entries : f.seq \in Nat
      BY FrozenType DEF Entries
    <3> QED BY <2>1, <3>1, FrozenType, MaxSeqIs DEF MaxSeqOf
  <2> QED BY <2>2, <2>3, <2>4
<1> QED BY <1>1 DEF FlushFails, Reliable

\* Every step keeps reads fresh while the numbering is not broken.
LEMMA FreshStep ==
    ASSUME WriteInv, WriteInv', FreshInv, Next
    PROVE  FreshInv'
<1> SUFFICES ASSUME Reliable', numbering' # "broken"
             PROVE  TablesInv' /\ (pc' # "down" => MemoryInv')
  BY DEF FreshInv
<1>1. Reliable /\ TablesInv /\ (pc # "down" => MemoryInv)
  BY NumberingNext DEF FreshInv, Reliable, WriteInv
<1>2. TypeOK /\ TypeOK' /\ PendingInv
  BY DEF WriteInv
<1>3. CASE Put \/ PutBatch \/ Commit \/ RecordWrite \/ Durable \/ Cancel
  <2>1. /\ InMemory' = InMemory /\ pc # "down"
        /\ UNCHANGED <<memNext, active, frozen, handles, ssts, lastFlushed, acked>>
    BY <1>2, <1>3, WaitIs
  <2>2. TablesInv'
    BY <1>1, <2>1 DEF TablesInv, Increasing
  <2>3. \A k : Get(k)' = Get(k)
    BY <2>1 DEF Get
  <2>4. /\ pc' = "flush" => pc = "flush"
        /\ pc' \in {"insert", "flush"} =>
              UNCHANGED <<pending, at>> /\ (pc \in {"insert", "flush"} \/ at = 0)
    <3>1. CASE Put \/ PutBatch
      <4>1. pc' = "wal"
        BY <1>2, <3>1, SubmitSome DEF Submit
      <4> QED BY <4>1
    <3>2. CASE Commit
      BY <1>2, <3>2, CommitIs DEF opVars
    <3>3. CASE RecordWrite \/ Durable \/ Cancel
      BY <1>2, <3>3 DEF RecordWrite, Durable, Cancel, TypeOK
    <3> QED BY <1>3, <3>1, <3>2, <3>3
  <2>5. \A i \in DOMAIN pending : i \in Nat /\ i > 0
    <3>1. pending \in Seq(Entries)
      BY <1>2 DEF TypeOK
    <3> QED BY <3>1
  <2>6. pc' \in {"insert", "flush"} => \A i \in DOMAIN pending' : \A k \in Keys :
           i <= at' /\ pending'[i].key = k => Get(k)' >= pending'[i].w
    <3> SUFFICES ASSUME pc' \in {"insert", "flush"}, NEW i \in DOMAIN pending, NEW k \in Keys,
                        i <= at, pending[i].key = k
                 PROVE  Get(k)' >= pending[i].w
      BY <2>4
    <3>1. pc \in {"insert", "flush"}
      BY <2>4, <2>5
    <3> QED BY <1>1, <2>1, <2>3, <3>1 DEF MemoryInv
  <2>7. MemoryInv'
    BY <1>1, <2>1, <2>3, <2>4, <2>6 DEF MemoryInv, Frozen
  <2> QED BY <2>2, <2>7
<1>4. CASE Insert
  <2>1. pc # "down" /\ UNCHANGED <<ssts, lastFlushed>>
    BY <1>2, <1>4, QuietIs
  <2>2. TablesInv'
    BY <1>1, <2>1 DEF TablesInv, Increasing
  <2> QED BY <1>1, <1>2, <1>4, <2>1, <2>2, InsertReads
<1>5. CASE Maintain
  <2>1. /\ pc = "idle" /\ InMemory' = InMemory /\ Frozen'.entries = active /\ active # {}
        /\ active' = {} /\ frozen' # <<>> /\ frozen = <<>> /\ pending' = <<>>
        /\ UNCHANGED <<ssts, lastFlushed, memNext, handles, acked>>
    BY <1>2, <1>5, MaintainIs DEF s3, ghosts
  <2>2. TablesInv'
    BY <1>1, <2>1 DEF TablesInv, Increasing
  <2>3. \A k : Get(k)' = Get(k)
    BY <2>1, GetIs, GetNext
  <2>4. DOMAIN pending' = {}
    BY <2>1
  <2>5. MemoryInv'
    BY <1>1, <2>1, <2>3, <2>4 DEF MemoryInv
  <2> QED BY <2>2, <2>5
<1>6. CASE Flush
  <2>1. /\ pc = "flush" /\ CommitTable /\ handles' = Append(handles, Frozen.entries)
        /\ Continue(at) /\ at' = at /\ frozen' = <<>> /\ memNext' = memNext
        /\ active = {} /\ active' = {} /\ frozen # <<>> /\ InMemory' = {} /\ pc' # "flush"
    BY <1>2, <1>6, FlushIs DEF Flush, Continue
  <2>2. /\ TablesInv' /\ ssts' = Append(ssts, Frozen.entries) /\ lastFlushed' < memNext
        /\ \A k : BestOf(ssts', k) = IF Newest(Frozen.entries, k).w # 0
                                     THEN Newest(Frozen.entries, k).w ELSE BestOf(ssts, k)
    BY <1>1, <1>2, <2>1, AppendedTable
  <2>3. handles = ssts /\ handles' = ssts'
    BY <1>1, <2>1, <2>2 DEF MemoryInv
  <2>4. \A k : Get(k)' = Get(k)
    <3> TAKE k
    <3>1. Get(k) = IF Newest(Frozen.entries, k).w # 0 THEN Newest(Frozen.entries, k).w
                   ELSE BestOf(ssts, k)
      BY <2>1, <2>3, GetIs
    <3>2. Newest(active', k).w = 0
      BY <2>1, NewestNone
    <3>3. Get(k)' = BestOf(ssts', k)
      BY <2>1, <2>3, <3>2, GetNext
    <3> QED BY <2>2, <3>1, <3>3
  <2>5. at \in Nat /\ pending \in Seq(Entries)
    BY <1>2 DEF TypeOK
  <2>6. \A k \in Keys : Get(k)' >= acked'[k]
    <3> TAKE k \in Keys
    <3>1. \/ acked'[k] = acked[k]
          \/ \E i \in DOMAIN pending : i <= at /\ acked'[k] = pending[i].w /\ pending[i].key = k
      <4>1. \/ UNCHANGED <<pending, acked>>
            \/ /\ Len(pending) <= at
               /\ \/ acked'[k] = acked[k]
                  \/ \E i \in DOMAIN pending : acked'[k] = pending[i].w /\ pending[i].key = k
        BY <1>2, <2>1, <2>5, AckIs
      <4> QED BY <2>5, <4>1
    <3> QED BY <1>1, <2>1, <2>4, <3>1 DEF MemoryInv
  <2>7. pc' = "insert" => pending' = pending
    BY <1>2, <2>1, <2>5, AckIs
  <2>8. MemoryInv'
    BY <1>1, <2>1, <2>2, <2>3, <2>4, <2>6, <2>7 DEF MemoryInv
  <2> QED BY <2>2, <2>8
<1>7. CASE FlushFails
  <2>1. pc = "flush"
    BY <1>7 DEF FlushFails
  <2> QED BY <1>1, <1>2, <1>7, <2>1, FlushesSucceed
<1>8. CASE Crash
  <2>1. /\ pc # "down" /\ pc' = "down"
        /\ (pc = "flush" /\ CommitTable) \/ UNCHANGED <<ssts, lastFlushed>>
    BY <1>2, <1>8, CrashIs
  <2>2. CASE pc = "flush" /\ CommitTable
    BY <1>1, <1>2, <2>1, <2>2, AppendedTable
  <2>3. CASE UNCHANGED <<ssts, lastFlushed>>
    BY <1>1, <2>1, <2>3 DEF TablesInv, Increasing
  <2> QED BY <2>1, <2>2, <2>3
<1>9. CASE Open
  <2>1. /\ pc = "down" /\ active' = Replayed /\ handles' = ssts /\ pc' = "idle"
        /\ memNext' = starting_seq + Cardinality(replay_from(lastFlushed))
        /\ UNCHANGED <<ssts, lastFlushed, frozen, acked, pending>>
        /\ numbering' = (IF \E k \in Keys : GetAfterRecovery(k) < acked[k] THEN "broken"
                         ELSE IF numbering = "inStep" /\ ~(/\ KeepsNumbers
                                                           /\ memNext' = nextSeq'
                                                           /\ walNext' = nextSeq')
                              THEN "apart" ELSE numbering)
    BY <1>9 DEF Open, s3
  <2>2. frozen = <<>> /\ InMemory' = Replayed
    <3>1. frozen = <<>>
      BY <1>2, <2>1, MemoryIs
    <3> QED BY <2>1, <3>1 DEF InMemory
  <2>3. TablesInv'
    BY <1>1, <2>1 DEF TablesInv, Increasing
  <2>4. /\ \A e \in Replayed : lastFlushed < e.seq /\ e.seq < memNext'
        /\ lastFlushed < memNext'
    <3>1. lastFlushed \in Nat /\ Cardinality(replay_from(lastFlushed)) \in Nat
      BY <1>2, ReplayType DEF TypeOK
    <3> QED BY <1>2, <2>1, <3>1, ReplayedType DEF starting_seq
  <2>5. \A k : Get(k)' = GetAfterRecovery(k)
    BY <2>1, <2>2, GetNext DEF GetAfterRecovery
  <2>6. \A k \in Keys : GetAfterRecovery(k) >= acked[k]
    <3> TAKE k \in Keys
    <3>1. ~(GetAfterRecovery(k) < acked[k])
      BY <2>1
    <3>2. acked[k] \in Nat /\ GetAfterRecovery(k) \in Nat
      <4>1. Newest(Replayed, k).w \in Nat
        BY <1>2, ReplayedType, NewestType
      <4>2. BestOf(ssts, k) \in Nat
        BY <1>1, <1>2, BestOfType DEF TablesInv, TypeOK
      <4> QED BY <1>2, <4>1, <4>2 DEF TypeOK, GetAfterRecovery
    <3> QED BY <3>1, <3>2
  <2>7. MemoryInv'
    BY <2>1, <2>2, <2>4, <2>5, <2>6 DEF MemoryInv
  <2> QED BY <2>3, <2>7
<1> QED BY <1>3, <1>4, <1>5, <1>6, <1>7, <1>8, <1>9 DEF Next, Progress

\* What reads rest on: while no flush fails and the numbering is not broken,
\* tables have increasing numbers, memory is above them, and a read finds what
\* is acknowledged and what of the write in progress is inserted.
THEOREM FreshInvariant == Spec => []FreshInv
<1>1. Init => FreshInv
  <2> SUFFICES ASSUME Init PROVE FreshInv
    OBVIOUS
  <2>1. DOMAIN ssts = {} /\ pc = "down"
    BY DEF Init
  <2> QED BY <2>1 DEF FreshInv, TablesInv, Increasing
<1>2. WriteInv /\ WriteInv' /\ FreshInv /\ [Next]_vars => FreshInv'
  <2>1. CASE Next
    BY <2>1, FreshStep
  <2>2. CASE UNCHANGED vars
    <3>1. UNCHANGED <<ssts, lastFlushed, memNext, active, frozen, handles, pc, pending, at, acked,
                      numbering, scenario>>
      BY <2>2 DEF vars, s3, memVars, opVars, ghosts
    <3>2. InMemory' = InMemory /\ UNCHANGED Frozen /\ \A k : Get(k)' = Get(k)
      BY <3>1 DEF InMemory, Frozen, Get
    <3>3. TablesInv' <=> TablesInv
      BY <3>1 DEF TablesInv, Increasing
    <3>4. MemoryInv' <=> MemoryInv
      BY <3>1, <3>2 DEF MemoryInv
    <3> QED BY <3>1, <3>3, <3>4 DEF FreshInv, Reliable
  <2> QED BY <2>1, <2>2
<1> QED BY <1>1, <1>2, WriteInvariant, PTL DEF Spec

\* Engine::get between writes returns nothing older than what was acknowledged,
\* through single writes, batches, rotation, flushes, dropped requests, crashes
\* and renumbering recoveries, until the numbering breaks or a flush fails.
THEOREM ReadsAreFresh == Spec => []FreshReads
<1>1. WriteInv /\ FreshInv => FreshReads
  BY DEF FreshInv, Reliable, MemoryInv, FreshReads
<1> QED BY <1>1, WriteInvariant, FreshInvariant, PTL
-----------------------------------------------------------------------------
(* What a recovery reads *)

\* What the tables hold of a key is in one of them.
LEMMA BestOfIn ==
    ASSUME NEW T \in Seq(Tables), Increasing(T), NEW k
    PROVE  \/ BestOf(T, k) = 0
           \/ \E i \in DOMAIN T : \E e \in T[i] : e.key = k /\ e.w = BestOf(T, k)
<1>1. CASE \A j \in DOMAIN T : Newest(T[j], k).w = 0
  BY <1>1, BestOfNone
<1>2. CASE \E i \in DOMAIN T : /\ Newest(T[i], k).w # 0
                               /\ \A j \in DOMAIN T : i < j => Newest(T[j], k).w = 0
  <2>1. PICK i \in DOMAIN T : /\ Newest(T[i], k).w # 0
                              /\ \A j \in DOMAIN T : i < j => Newest(T[j], k).w = 0
    BY <1>2
  <2>2. BestOf(T, k) = Newest(T[i], k).w /\ T[i] \in Tables
    BY <2>1, BestOfLast
  <2>3. \E e \in T[i] : e.key = k
    BY <2>1, <2>2, NewestType
  <2>4. \E top \in T[i] : top.key = k /\ Newest(T[i], k).w = top.w
    BY <2>2, <2>3, NewestSome
  <2> QED BY <2>2, <2>4
<1> QED BY <1>1, <1>2, LastFound

\* A later write has a later place.
LEMMA PlaceIncreases ==
    ASSUME TypeOK, NEW x \in replay_from(lastFlushed), NEW y \in replay_from(lastFlushed),
           x.w < y.w
    PROVE  /\ Place(x, replay_from(lastFlushed)) \in Nat
           /\ Place(y, replay_from(lastFlushed)) \in Nat
           /\ Place(x, replay_from(lastFlushed)) < Place(y, replay_from(lastFlushed))
<1> DEFINE es == replay_from(lastFlushed)
           Below(z) == {v \in es : v.w <= z.w}
<1>1. es \subseteq wal /\ IsFiniteSet(es) /\ \A z \in es : z.w \in Nat
  BY ReplayType DEF TypeOK
<1>2. Below(x) \in SUBSET Below(y) /\ y \in Below(y) /\ y \notin Below(x)
  BY <1>1
<1>3. Below(y) \in SUBSET es
  OBVIOUS
<1>4. Place(x, es) = Cardinality(Below(x)) /\ Place(y, es) = Cardinality(Below(y))
  BY DEF Place
<1> HIDE DEF es, Below
<1>5. IsFiniteSet(Below(y)) /\ IsFiniteSet(Below(x))
  BY <1>1, <1>2, <1>3, FS_Subset
<1>6. /\ Cardinality(Below(x)) <= Cardinality(Below(y))
      /\ Cardinality(Below(x)) # Cardinality(Below(y))
  BY <1>2, <1>5, FS_Subset
<1>7. Cardinality(Below(x)) \in Nat /\ Cardinality(Below(y)) \in Nat
  BY <1>5, FS_CardinalityType
<1> QED BY <1>4, <1>6, <1>7 DEF es

\* There are at most as many entries to replay as numbers from the minimum on.
LEMMA ReplayBound ==
    ASSUME TypeOK, LogInv, lastFlushed <= Top + 1
    PROVE  lastFlushed + Cardinality(replay_from(lastFlushed)) <= Top + 1
<1> DEFINE es == replay_from(lastFlushed)
           f == [y \in es |-> y.seq]
<1>1. es = {e \in wal : e.seq >= lastFlushed}
  BY ReplayIs
<1>2. lastFlushed \in Nat /\ Top \in Nat /\ \A e \in wal : e.seq \in Nat /\ e.seq <= Top
  BY TopIs DEF TypeOK
<1>3. CASE lastFlushed = Top + 1
  <2>1. es = {}
    BY <1>1, <1>2, <1>3
  <2>2. Cardinality(es) = 0
    BY <2>1, FS_EmptySet
  <2> QED BY <1>2, <1>3, <2>2
<1>4. CASE lastFlushed <= Top
  <2>1. f \in [es -> lastFlushed .. Top]
    BY <1>1, <1>2
  <2>2. \A y, z \in es : f[y] = f[z] => y = z
    BY <1>1, LogOrder
  <2>3. f \in Injection(es, lastFlushed .. Top)
    <3> HIDE DEF f, es
    <3> QED BY <2>1, <2>2 DEF Injection, IsInjective
  <2>4. lastFlushed \in Int /\ Top \in Int /\ ~(lastFlushed > Top)
    BY <1>2, <1>4
  <2>5. /\ IsFiniteSet(lastFlushed .. Top)
        /\ Cardinality(lastFlushed .. Top) = IF lastFlushed > Top THEN 0 ELSE Top - lastFlushed + 1
    BY <2>4, FS_Interval
  <2>6. Cardinality(lastFlushed .. Top) = Top - lastFlushed + 1
    BY <2>4, <2>5
  <2> HIDE DEF f, es
  <2>7. IsFiniteSet(es) /\ Cardinality(es) <= Cardinality(lastFlushed .. Top)
    BY <2>3, <2>5, FS_Injection
  <2>8. Cardinality(es) \in Nat
    BY <2>7, FS_CardinalityType
  <2> QED BY <1>2, <2>6, <2>7, <2>8 DEF es
<1> QED BY <1>2, <1>3, <1>4

\* A recovery finds the newest replayed version of a key, or what the tables
\* have when none is replayed.
LEMMA RecoveryReads ==
    ASSUME TypeOK, LogInv, NEW k \in Keys, NEW w \in Nat, Recoverable(k, w),
           Replays(k) # {} => \E a \in Replays(k) : a.w >= w
    PROVE  GetAfterRecovery(k) >= w
<1> DEFINE es == replay_from(lastFlushed)
           hit == Newest(Replayed, k).w
<1>0. lastFlushed \in Nat
  BY DEF TypeOK
<1>1. es = {e \in wal : e.seq >= lastFlushed} /\ Replays(k) = {e \in es : e.key = k}
  BY ReplayIs DEF Replays
<1>2. GetAfterRecovery(k) = IF hit # 0 THEN hit ELSE BestOf(ssts, k)
  BY DEF GetAfterRecovery
<1>3. Replayed \in Tables
  BY ReplayedType
<1>4. CASE \A e \in Replayed : e.key # k
  <2>1. hit = 0
    BY <1>4, NewestNone
  <2>2. \A x \in es : x.key # k
    BY <1>4, ReplayedType
  <2>3. BestOf(ssts, k) >= w
    BY <1>1, <2>2 DEF Recoverable
  <2> QED BY <1>2, <2>1, <2>3
<1>5. CASE \E e \in Replayed : e.key = k
  <2>1. PICK top \in Replayed : /\ top.key = k /\ top \in Entries /\ hit = top.w
                                /\ \A f \in Replayed : f.key = k => f.seq <= top.seq
    BY <1>3, <1>5, NewestSome
  <2>2. top.w \in Nat \ {0}
    BY <2>1 DEF Entries
  <2>3. PICK x \in es : top.w = x.w /\ x.key = k /\ top.seq = lastFlushed + Place(x, es)
    BY <2>1, ReplayedType
  <2>4. PICK a \in es : a.key = k /\ a.w >= w
    BY <1>1, <2>3
  <2>5. a.w \in Nat /\ x.w \in Nat
    BY <1>1, <2>3, <2>4 DEF TypeOK
  <2>6. ~(x.w < a.w)
    <3> SUFFICES ASSUME x.w < a.w
                 PROVE  FALSE
      OBVIOUS
    <3>1. PICK f \in Replayed : f.key = k /\ f.seq = lastFlushed + Place(a, es)
      BY <2>4, ReplayedType
    <3>2. Place(x, es) \in Nat /\ Place(a, es) \in Nat /\ Place(x, es) < Place(a, es)
      BY PlaceIncreases
    <3>3. f.seq <= top.seq
      BY <2>1, <3>1
    <3> QED BY <1>0, <2>3, <3>1, <3>2, <3>3
  <2> QED BY <1>2, <2>1, <2>2, <2>3, <2>4, <2>5, <2>6
<1> QED BY <1>4, <1>5

\* After a flush whose manifest update was applied, the tables alone give what a
\* read gave before.
LEMMA FlushedReads ==
    ASSUME TypeOK, TypeOK', PendingInv, MemoryInv, TablesInv, pc = "flush", CommitTable, NEW k
    PROVE  BestOf(ssts', k) = Get(k)
<1>1. BestOf(ssts', k) = IF Newest(Frozen.entries, k).w # 0
                         THEN Newest(Frozen.entries, k).w ELSE BestOf(ssts, k)
  BY AppendedTable
<1>2. frozen # <<>> /\ active = {} /\ handles = ssts
  BY DEF TypeOK, PendingInv, MemoryInv
<1> QED BY <1>1, <1>2, GetIs

\* What a recovery would find is still found while nothing is flushed.
LEMMA RecoverableStays ==
    ASSUME NEW k, NEW w, Recoverable(k, w), wal \subseteq wal', UNCHANGED <<ssts, lastFlushed>>
    PROVE  Recoverable(k, w)'
BY DEF Recoverable, Replays
-----------------------------------------------------------------------------
(* While the counters are in step *)

\* The running process's numbers, after a step that changes none of the tables.
LEMMA PendingType ==
    ASSUME TypeOK
    PROVE  /\ pending \in Seq(Entries) /\ Len(pending) \in Nat /\ at \in Nat
           /\ DOMAIN pending = 1 .. Len(pending)
           /\ \A i \in DOMAIN pending :
                 /\ pending[i].w \in Nat \ {0} /\ pending[i].seq \in Nat
                 /\ pending[i].key \in Keys
                 /\ i \in Nat /\ i > 0 /\ i <= Len(pending)
<1>1. pending \in Seq(Entries) /\ at \in Nat
  BY DEF TypeOK
<1>2. ASSUME NEW i \in DOMAIN pending
      PROVE  /\ pending[i].w \in Nat \ {0} /\ pending[i].seq \in Nat /\ pending[i].key \in Keys
             /\ i \in Nat /\ i > 0 /\ i <= Len(pending)
  <2>1. pending[i] \in Entries
    BY <1>1
  <2> QED BY <1>1, <2>1 DEF Entries
<1> QED BY <1>1, <1>2

\* In step, a memtable insert keeps the number the log has.
LEMMA InStepInsert ==
    ASSUME TypeOK, CountersInv, Insert
    PROVE  MemEntry.seq = memNext /\ MemEntry.seq = pending[at + 1].seq
<1>1. /\ pc = "insert" /\ at + 1 \in DOMAIN pending
      /\ MemEntry.seq = IF batch THEN pending[at + 1].seq ELSE memNext
  BY InsertIs
<1>2. memNext + Len(pending) = nextSeq + at
  <2>1. pending # <<>>
    BY <1>1
  <2> QED BY <1>1, <2>1 DEF CountersInv
<1>3. pending[at + 1].seq + Len(pending) = nextSeq + (at + 1) - 1
  BY <1>1 DEF CountersInv
<1>4. memNext \in Nat /\ nextSeq \in Nat /\ at \in Nat /\ Len(pending) \in Nat
      /\ pending[at + 1].seq \in Nat
  BY <1>1, PendingType DEF TypeOK
<1> QED BY <1>1, <1>2, <1>3, <1>4

\* Only a write that waits has entries in the queue.
LEMMA InStepCommit ==
    ASSUME TypeOK, CountersInv, Commit
    PROVE  /\ pc = "wal" /\ Len(queue) <= Len(pending) /\ Len(queue) > 0 /\ Len(queue) \in Nat
           /\ Len(pending) - Len(queue) + 1 \in DOMAIN pending
           /\ Appended.key = pending[Len(pending) - Len(queue) + 1].key
           /\ Appended.w = pending[Len(pending) - Len(queue) + 1].w
           /\ Appended.seq = pending[Len(pending) - Len(queue) + 1].seq
<1>1. /\ Appended.key = queue[1].key /\ Appended.w = queue[1].w /\ Appended.seq = walNext
      /\ Len(queue) > 0 /\ 1 \in DOMAIN queue /\ pc # "down"
  BY CommitIs
<1>2. queue # <<>> /\ Len(queue) \in Nat
  <2>1. queue \in Seq(Submissions)
    BY DEF TypeOK, Submissions
  <2> QED BY <1>1, <2>1
<1>3. pc = "wal"
  BY <1>1, <1>2 DEF TypeOK, CountersInv
<1>4. /\ Len(queue) <= Len(pending) /\ walNext = nextSeq + (Len(pending) - Len(queue))
      /\ \A i \in DOMAIN pending : pending[i].seq = nextSeq + i - 1
      /\ queue[1].key = pending[Len(pending) - Len(queue) + 1].key
      /\ queue[1].w = pending[Len(pending) - Len(queue) + 1].w
  BY <1>1, <1>3 DEF CountersInv
<1>5. Len(pending) \in Nat /\ DOMAIN pending = 1 .. Len(pending) /\ nextSeq \in Nat
  BY PendingType DEF TypeOK
<1>6. Len(pending) - Len(queue) + 1 \in DOMAIN pending
  BY <1>1, <1>2, <1>4, <1>5
<1>7. walNext = pending[Len(pending) - Len(queue) + 1].seq
  BY <1>2, <1>4, <1>5, <1>6
<1> QED BY <1>1, <1>2, <1>3, <1>4, <1>6, <1>7

\* In step, a later number is a later write.
LEMMA StepOrderStep ==
    ASSUME WriteInv, WriteInv', TablesInv, pc # "down" => MemoryInv, Reliable, StepOrderInv,
           pc # "down" => CountersInv, Next, numbering' = "inStep"
    PROVE  StepOrderInv'
<1>0. TypeOK /\ TypeOK' /\ LogInv /\ QueueInv /\ PendingInv /\ SegmentsInv
  BY DEF WriteInv
<1>00. /\ \A x \in wal : x.w \in Nat /\ x.seq \in Nat
       /\ \A e \in InMemory : e.w \in Nat /\ e.seq \in Nat
       /\ \A t \in DOMAIN ssts : \A e \in ssts[t] : e.w \in Nat /\ e.seq \in Nat
       /\ lastFlushed \in Nat /\ lastFlushed' \in Nat
  BY <1>0, MemoryType, SavedType DEF TypeOK
<1>1. CASE Put \/ PutBatch
  <2>1. PICK keys \in Seq(Keys), isBatch \in BOOLEAN : Len(keys) > 0 /\ Submit(keys, isBatch)
    BY <1>0, <1>1, SubmitSome
  <2>2. /\ pending' \in Seq(Entries) /\ Len(pending') = Len(keys)
        /\ \A i \in 1 .. Len(keys) : pending'[i].seq = nextSeq + i - 1
    BY <1>0, <2>1, SubmitIs
  <2>3. /\ InMemory' = InMemory /\ UNCHANGED <<wal, ssts, lastFlushed>>
    BY <1>0, <1>1, WaitIs, QuietIs
  <2>4. pc = "idle" /\ walNext = nextSeq /\ walNext \in Nat /\ Len(keys) \in Nat
    <3>1. pc = "idle"
      BY <2>1 DEF Submit
    <3> QED BY <1>0, <3>1 DEF CountersInv, TypeOK
  <2>5. \A x \in wal : \A i \in DOMAIN pending' : ~(pending'[i].seq <= x.seq)
    <3> TAKE x \in wal
    <3> TAKE i \in DOMAIN pending'
    <3>1. i \in 1 .. Len(keys)
      BY <2>2
    <3>2. x.seq < walNext
      BY <1>0, <2>4 DEF LogInv
    <3>3. pending'[i].seq = nextSeq + i - 1
      BY <2>2, <3>1
    <3> QED BY <1>00, <2>4, <3>1, <3>2, <3>3
  <2> QED BY <2>3, <2>4, <2>5 DEF StepOrderInv
<1>2. CASE Commit
  <2>1. /\ wal' = wal \cup {Appended} /\ Appended.w = queue[1].w /\ 1 \in DOMAIN queue
        /\ InMemory' = InMemory /\ UNCHANGED <<ssts, lastFlushed, pc, pending>> /\ pc # "down"
    BY <1>0, <1>2, CommitIs, WaitIs DEF opVars
  <2> DEFINE n == Len(pending) - Len(queue) + 1
  <2>2. pc = "wal" /\ n \in DOMAIN pending /\ Appended.w = pending[n].w
        /\ Appended.seq = pending[n].seq /\ n \in Nat
    BY <1>0, <1>2, <2>1, InStepCommit
  <2> HIDE DEF n
  <2>3. \A i \in DOMAIN pending : pending[i].seq <= Appended.seq => pending[i].w <= Appended.w
    <3> SUFFICES ASSUME NEW i \in DOMAIN pending, pending[i].seq <= pending[n].seq
                 PROVE  pending[i].w <= pending[n].w
      BY <2>2
    <3>1. pending[i].seq = nextSeq + i - 1 /\ pending[n].seq = nextSeq + n - 1 /\ nextSeq \in Nat
      BY <1>0, <2>1, <2>2 DEF CountersInv, TypeOK
    <3>2. i \in Nat /\ pending[i].w \in Nat /\ pending[n].w \in Nat
      BY <1>0, <2>2, PendingType
    <3>3. i <= n
      BY <2>2, <3>1, <3>2
    <3>4. i = n \/ pending[i].w < pending[n].w
      BY <1>0, <2>2, <3>2, <3>3 DEF PendingInv
    <3> QED BY <3>2, <3>4
  <2>4. /\ \A e \in InMemory : e.w < Appended.w
        /\ \A t \in DOMAIN ssts : \A e \in ssts[t] : e.w < Appended.w
    BY <1>0, <2>1 DEF QueueInv
  <2>5. Appended.w \in Nat
    BY <1>0, <2>2, PendingType
  <2> QED BY <1>00, <2>1, <2>3, <2>4, <2>5 DEF StepOrderInv
<1>3. CASE RecordWrite \/ Durable
  <2>1. InMemory' = InMemory /\ UNCHANGED <<wal, ssts, lastFlushed, pending>> /\ pc # "down"
    BY <1>0, <1>3, WaitIs, QuietIs DEF RecordWrite, Durable
  <2> QED BY <2>1 DEF StepOrderInv
<1>4. CASE Cancel
  BY <1>4 DEF Cancel
<1>5. CASE Insert
  <2>1. /\ InMemory' = SkipInsert(active, MemEntry) /\ InMemory = active /\ pc # "down"
        /\ MemEntry.w = pending[at + 1].w /\ at + 1 \in DOMAIN pending
        /\ UNCHANGED <<wal, ssts, lastFlushed>>
    BY <1>0, <1>5, InsertIs, QuietIs
  <2>2. MemEntry.seq = pending[at + 1].seq
    BY <1>0, <1>5, <2>1, InStepInsert
  <2>3. pending' = pending \/ DOMAIN pending' = {}
    <3>1. CASE Continue(at + 1)
      <4>1. at + 1 \in Nat
        BY <1>0, PendingType
      <4> QED BY <1>0, <3>1, <4>1, AckIs
    <3> QED BY <1>0, <1>5, <3>1, InsertIs
  <2>4. \A e \in InMemory' : e \in InMemory \/ e = MemEntry
    BY <2>1, SkipInsertIs
  <2> QED BY <2>1, <2>2, <2>3, <2>4 DEF StepOrderInv
<1>6. CASE Maintain
  <2>1. InMemory' = InMemory /\ UNCHANGED <<wal, ssts, lastFlushed, pending>> /\ pc # "down"
    BY <1>0, <1>6, MaintainIs DEF disk, s3
  <2> QED BY <2>1 DEF StepOrderInv
<1>7. CASE pc = "flush" /\ CommitTable /\ wal' \subseteq wal /\ InMemory' = {}
           /\ (pending' = pending \/ DOMAIN pending' = {})
  <2>1. /\ lastFlushed <= lastFlushed' /\ lastFlushed' = MaxSeqOf(Frozen.entries)
    BY <1>0, <1>7, AppendedTable DEF CommitTable
  <2>2. \A e \in Frozen.entries : e \in InMemory /\ e.seq <= lastFlushed'
    <3>1. \A e \in Frozen.entries : e.seq \in Nat
      BY <1>0, <1>7, FrozenType DEF Entries
    <3>2. IsFiniteSet(Frozen.entries)
      BY <1>0, <1>7, FrozenType
    <3>3. Frozen.entries \subseteq InMemory
      BY <1>0, <1>7 DEF InMemory, TypeOK
    <3> QED BY <2>1, <3>1, <3>2, <3>3, MaxSeqIs DEF MaxSeqOf
  <2>3. ASSUME NEW x \in wal, x.seq >= lastFlushed', NEW t \in DOMAIN ssts', NEW e \in ssts'[t]
        PROVE  e.w <= x.w
    <3>1. (t \in DOMAIN ssts /\ e \in ssts[t]) \/ e \in Frozen.entries
      <4>1. ssts' = Append(ssts, Frozen.entries) /\ ssts \in Seq(Tables)
        BY <1>0, <1>7 DEF CommitTable, TypeOK
      <4>2. (t \in DOMAIN ssts /\ ssts'[t] = ssts[t]) \/ ssts'[t] = Frozen.entries
        BY <4>1
      <4> QED BY <4>2
    <3>2. CASE t \in DOMAIN ssts /\ e \in ssts[t]
      <4>1. x.seq >= lastFlushed
        BY <1>00, <2>1, <2>3
      <4> QED BY <3>2, <4>1 DEF StepOrderInv
    <3>3. CASE e \in Frozen.entries
      <4>1. e \in InMemory /\ e.seq <= x.seq
        BY <1>00, <2>2, <2>3, <3>3
      <4> QED BY <1>7, <4>1 DEF StepOrderInv
    <3> QED BY <3>1, <3>2, <3>3
  <2> QED BY <1>7, <2>3 DEF StepOrderInv
<1>8. CASE Flush
  <2>1. pc = "flush" /\ CommitTable /\ Continue(at)
    BY <1>8 DEF Flush
  <2>2. wal' \subseteq wal /\ InMemory' = {}
    BY <1>0, <1>8, FlushIs, FlushDisk
  <2>3. pending' = pending \/ DOMAIN pending' = {}
    BY <1>0, <2>1, AckIs, PendingType
  <2> QED BY <1>7, <2>1, <2>2, <2>3
<1>9. CASE FlushFails
  <2>1. pc = "flush"
    BY <1>9 DEF FlushFails
  <2> QED BY <1>0, <1>9, <2>1, FlushesSucceed
<1>10. CASE Crash
  <2>1. /\ pc # "down" /\ pc' = "down" /\ wal' \subseteq wal
        /\ (pc = "flush" /\ CommitTable) \/ UNCHANGED <<wal, ssts, lastFlushed>>
        /\ InMemory' = {} /\ DOMAIN pending' = {}
    BY <1>0, <1>10, CrashIs DEF InMemory
  <2>2. CASE UNCHANGED <<wal, ssts, lastFlushed>>
    BY <2>1, <2>2 DEF StepOrderInv
  <2> QED BY <1>7, <2>1, <2>2
<1>11. CASE Open
  <2>1. /\ UNCHANGED <<wal, ssts, lastFlushed, frozen, pending>> /\ active' = Replayed /\ pc = "down"
        /\ KeepsNumbers
    BY <1>11 DEF Open, s3
  <2>2. InMemory' = Replayed /\ DOMAIN pending' = {}
    <3>1. frozen = <<>> /\ pending = <<>>
      BY <1>0, <2>1, MemoryIs DEF TypeOK
    <3> QED BY <2>1, <3>1 DEF InMemory
  <2>3. \A e \in Replayed : \E y \in wal : e.seq = y.seq /\ e.w = y.w
    <3>1. replay_from(lastFlushed) \subseteq wal
      BY <1>0, ReplayType
    <3> QED BY <2>1, <3>1 DEF KeepsNumbers
  <2>4. \A x \in wal : \A e \in Replayed : e.seq <= x.seq => e.w <= x.w
    <3> TAKE x \in wal
    <3> TAKE e \in Replayed
    <3>1. PICK y \in wal : e.seq = y.seq /\ e.w = y.w
      BY <2>3
    <3> QED BY <1>0, <3>1, LogOrder
  <2> QED BY <2>1, <2>2, <2>4 DEF StepOrderInv
<1> QED BY <1>1, <1>2, <1>3, <1>4, <1>5, <1>6, <1>8, <1>9, <1>10, <1>11 DEF Next, Progress

\* In step, the three counters agree, and what is inserted has its number in
\* the log.
LEMMA CountersStep ==
    ASSUME WriteInv, WriteInv', FreshInv, FreshInv', Reliable, StepOrderInv,
           pc # "down" => CountersInv, Next, numbering' = "inStep", pc' # "down"
    PROVE  CountersInv'
<1>0. TypeOK /\ TypeOK' /\ LogInv /\ QueueInv /\ PendingInv /\ PendingInv'
  BY DEF WriteInv
<1>00. /\ numbering = "inStep" /\ TablesInv /\ TablesInv'
       /\ (pc # "down" => MemoryInv) /\ MemoryInv'
  <2>1. numbering = "inStep" /\ Reliable'
    BY <1>0, NumberingNext DEF Reliable
  <2> QED BY <2>1 DEF FreshInv
<1>000. /\ nextSeq \in Nat /\ memNext \in Nat /\ walNext \in Nat /\ lastFlushed \in Nat
        /\ nextSeq' \in Nat /\ memNext' \in Nat /\ walNext' \in Nat /\ nextWrite \in Nat
  BY <1>0 DEF TypeOK
<1>1. CASE Put \/ PutBatch
  <2>1. PICK keys \in Seq(Keys), isBatch \in BOOLEAN : Len(keys) > 0 /\ Submit(keys, isBatch)
    BY <1>0, <1>1, SubmitSome
  <2>2. /\ pending' \in Seq(Entries) /\ Len(pending') = Len(keys)
        /\ \A i \in 1 .. Len(keys) :
              /\ pending'[i].key = keys[i] /\ pending'[i].w = nextWrite + i - 1
              /\ pending'[i].seq = nextSeq + i - 1
        /\ queue' \in Seq(Submissions) /\ Len(queue') = Len(queue) + Len(keys)
        /\ \A i \in 1 .. Len(keys) : /\ queue'[Len(queue) + i].key = keys[i]
                                     /\ queue'[Len(queue) + i].w = nextWrite + i - 1
    BY <1>0, <2>1, SubmitIs
  <2>3. pc = "idle" /\ pc' = "wal" /\ UNCHANGED <<walNext, memVars>>
    BY <2>1 DEF Submit
  <2>4. queue = <<>> /\ walNext = nextSeq /\ memNext = nextSeq
    BY <2>3 DEF CountersInv
  <2>5. Len(queue) = 0 /\ Len(keys) \in Nat
    BY <2>4
  <2>6. Len(queue') = Len(keys) /\ Len(pending') - Len(queue') = 0
    BY <2>2, <2>5
  <2>7. /\ \A i \in DOMAIN pending' : pending'[i].seq = nextSeq + i - 1
        /\ \A j \in DOMAIN queue' : j = 0 + j /\ queue'[j].key = pending'[j].key
                                    /\ queue'[j].w = pending'[j].w
    <3>1. DOMAIN pending' = 1 .. Len(keys) /\ DOMAIN queue' = 1 .. Len(keys)
      BY <2>2, <2>6
    <3>2. \A j \in 1 .. Len(keys) : 0 + j = j
      OBVIOUS
    <3> QED BY <2>2, <2>5, <3>1, <3>2
  <2>8. 1 .. Len(pending') - Len(queue') = {}
    BY <2>6
  <2>9. nextSeq' = nextSeq /\ memNext' = memNext
    BY <2>3 DEF memVars
  <2>10. /\ memNext' = nextSeq' /\ Len(queue') <= Len(pending')
         /\ walNext' = nextSeq' + (Len(pending') - Len(queue'))
    BY <1>000, <2>2, <2>3, <2>4, <2>5, <2>6, <2>9
  <2>11. \A j \in DOMAIN queue' :
            /\ queue'[j].key = pending'[Len(pending') - Len(queue') + j].key
            /\ queue'[j].w = pending'[Len(pending') - Len(queue') + j].w
    BY <2>6, <2>7
  <2> QED BY <2>3, <2>7, <2>8, <2>9, <2>10, <2>11 DEF CountersInv
<1>2. CASE Commit
  <2> DEFINE m == Len(pending) - Len(queue)
  <2>1. /\ wal' = wal \cup {Appended} /\ walNext' = walNext + 1 /\ pc # "down"
        /\ Len(queue') = Len(queue) - 1
        /\ \A j \in DOMAIN queue' : j + 1 \in DOMAIN queue /\ queue'[j] = queue[j + 1]
        /\ queue' \in Seq(Submissions)
        /\ UNCHANGED <<pc, pending, nextSeq, memNext>>
    BY <1>0, <1>2, CommitIs DEF opVars, memVars
  <2>2. /\ pc = "wal" /\ Len(queue) <= Len(pending) /\ Len(queue) > 0 /\ Len(queue) \in Nat
        /\ m + 1 \in DOMAIN pending
        /\ Appended.key = pending[m + 1].key /\ Appended.w = pending[m + 1].w
        /\ Appended.seq = pending[m + 1].seq
    BY <1>0, <1>2, <2>1, InStepCommit
  <2>3. /\ memNext = nextSeq /\ walNext = nextSeq + m
        /\ \A i \in DOMAIN pending : pending[i].seq = nextSeq + i - 1
        /\ \A j \in DOMAIN queue : queue[j].key = pending[m + j].key /\ queue[j].w = pending[m + j].w
        /\ \A i \in 1 .. m : \E x \in wal : Alike(pending[i], x)
    BY <2>1, <2>2 DEF CountersInv
  <2>4. Len(pending) \in Nat /\ m \in Nat /\ Len(pending') - Len(queue') = m + 1
        /\ Len(queue') <= Len(pending')
    BY <1>0, <2>1, <2>2, PendingType
  <2> HIDE DEF m
  <2>5. \A j \in DOMAIN queue' : /\ queue'[j].key = pending[(m + 1) + j].key
                                 /\ queue'[j].w = pending[(m + 1) + j].w
    <3> TAKE j \in DOMAIN queue'
    <3>1. j + 1 \in DOMAIN queue /\ queue'[j] = queue[j + 1] /\ m + (j + 1) = (m + 1) + j
      BY <2>1, <2>4
    <3> QED BY <2>3, <3>1
  <2>6. \A i \in 1 .. m + 1 : \E x \in wal' : Alike(pending[i], x)
    <3> TAKE i \in 1 .. m + 1
    <3>1. CASE i = m + 1
      BY <2>1, <2>2, <3>1 DEF Alike
    <3>2. CASE i \in 1 .. m
      BY <2>1, <2>3, <3>2
    <3> QED BY <2>4, <3>1, <3>2
  <2>7. walNext' = nextSeq' + (Len(pending') - Len(queue'))
    <3>1. nextSeq' = nextSeq
      BY <2>1
    <3>2. (nextSeq + m) + 1 = nextSeq + (m + 1)
      BY <1>000, <2>4
    <3>3. walNext' = nextSeq + (m + 1)
      BY <2>1, <2>3, <3>2
    <3> QED BY <2>4, <3>1, <3>3
  <2>8. \A i \in 1 .. Len(pending') - Len(queue') : \E x \in wal' : Alike(pending'[i], x)
    BY <2>1, <2>4, <2>6
  <2>9. \A j \in DOMAIN queue' :
            /\ queue'[j].key = pending'[Len(pending') - Len(queue') + j].key
            /\ queue'[j].w = pending'[Len(pending') - Len(queue') + j].w
    BY <2>1, <2>4, <2>5
  <2> QED BY <2>1, <2>2, <2>3, <2>4, <2>7, <2>8, <2>9 DEF CountersInv, Alike
<1>3. CASE RecordWrite
  <2>1. UNCHANGED <<pc, queue, pending, walNext, nextSeq, memNext, wal>> /\ pc = "wal"
    BY <1>3 DEF RecordWrite, disk, memVars
  <2> QED BY <2>1 DEF CountersInv, Alike
<1>4. CASE Durable
  <2>1. /\ pc = "wal" /\ pc' = "insert" /\ queue = <<>> /\ queue' = <<>>
        /\ nextSeq' = nextSeq + Len(pending) /\ at = 0 /\ at' = at
        /\ UNCHANGED <<wal, walNext, memNext, pending, ssts, lastFlushed, misfiled>>
    BY <1>0, <1>4 DEF Durable, disk, s3, walVars, ghosts, TypeOK
  <2>2. Len(queue) = 0
    BY <2>1
  <2>3. /\ memNext = nextSeq /\ walNext = nextSeq + (Len(pending) - 0)
        /\ \A i \in DOMAIN pending : pending[i].seq = nextSeq + i - 1
        /\ \A i \in 1 .. Len(pending) - 0 : \E x \in wal : Alike(pending[i], x)
    BY <2>1, <2>2 DEF CountersInv
  <2>4. lastFlushed < memNext
    BY <1>00, <2>1 DEF MemoryInv
  <2>5. Len(pending) \in Nat /\ Len(pending) - 0 = Len(pending)
    BY <1>0, PendingType
  <2>6. \A i \in DOMAIN pending :
           /\ pending[i].seq + Len(pending) = nextSeq' + i - 1
           /\ \E x \in wal : Alike(pending[i], x) /\ x.seq >= lastFlushed
    <3> TAKE i \in DOMAIN pending
    <3>1. i \in Nat /\ i > 0 /\ i \in 1 .. Len(pending) - 0
      BY <1>0, <2>5, PendingType
    <3>2. PICK x \in wal : Alike(pending[i], x)
      BY <2>3, <3>1
    <3>3. x.seq = nextSeq + i - 1
      BY <2>3, <3>2 DEF Alike
    <3>4. x.seq >= lastFlushed
      BY <1>000, <2>3, <2>4, <3>1, <3>3
    <3> QED BY <1>000, <2>1, <2>3, <2>5, <3>1, <3>2, <3>4
  <2>7. memNext' + Len(pending') = nextSeq' + at' /\ walNext' = nextSeq' /\ at' <= Len(pending')
    BY <1>000, <2>1, <2>3, <2>5
  <2>8. \A i \in DOMAIN pending' :
           /\ pending'[i].seq + Len(pending') = nextSeq' + i - 1
           /\ \E x \in wal' : Alike(pending'[i], x) /\ x.seq >= lastFlushed'
    BY <2>1, <2>6
  <2>9. pending = <<>> => memNext' = nextSeq'
    <3>1. pending = <<>> => Len(pending) = 0
      OBVIOUS
    <3> QED BY <1>000, <2>1, <2>3, <3>1
  <2> QED BY <2>1, <2>7, <2>8, <2>9 DEF CountersInv, Alike
<1>5. CASE Cancel
  BY <1>5, <1>00 DEF Cancel
<1>6. CASE Insert
  <2>1. /\ pc = "insert" /\ at' = at + 1 /\ at \in Nat /\ at + 1 \in DOMAIN pending
        /\ queue' = <<>> /\ UNCHANGED <<wal, walNext, nextSeq, ssts, lastFlushed, misfiled>>
    BY <1>0, <1>6, InsertIs DEF disk, s3, walVars
  <2>2. memNext' = memNext + 1
    <3>1. MemEntry.seq = memNext
      BY <1>0, <1>6, <2>1, InStepInsert
    <3>2. memNext' = MemEntry.seq + 1
      BY <1>0, <1>00, <1>6, <2>1, InsertReads
    <3> QED BY <3>1, <3>2
  <2>3. /\ walNext = nextSeq /\ memNext + Len(pending) = nextSeq + at
        /\ \A i \in DOMAIN pending :
              /\ pending[i].seq + Len(pending) = nextSeq + i - 1
              /\ \/ pending[i].w \in misfiled
                 \/ i <= at /\ pending[i].w <= BestOf(ssts, pending[i].key)
                 \/ \E x \in wal : Alike(pending[i], x) /\ x.seq >= lastFlushed
    <3>1. pending # <<>>
      BY <2>1
    <3> QED BY <2>1, <3>1 DEF CountersInv
  <2>4. Len(pending) \in Nat /\ at + 1 <= Len(pending)
    BY <1>0, <2>1, PendingType
  <2>5. CASE pending' = pending /\ pc' \in {"insert", "flush"}
    <3>1. memNext' + Len(pending') = nextSeq' + at' /\ at' <= Len(pending')
      BY <1>000, <2>1, <2>2, <2>3, <2>4, <2>5
    <3>2. \A i \in DOMAIN pending : i <= at => i <= at'
      BY <1>0, <2>1, PendingType
    <3>3. \A i \in DOMAIN pending :
              /\ pending[i].seq + Len(pending) = nextSeq + i - 1
              /\ \/ pending[i].w \in misfiled
                 \/ i <= at' /\ pending[i].w <= BestOf(ssts, pending[i].key)
                 \/ \E x \in wal : Alike(pending[i], x) /\ x.seq >= lastFlushed
      BY <2>3, <3>2
    <3>4. pending' # <<>>
      BY <2>1, <2>5
    <3> QED BY <2>1, <2>3, <2>5, <3>1, <3>3, <3>4 DEF CountersInv, Alike
  <2>6. CASE pc' = "idle" /\ Len(pending) <= at + 1
    <3>1. memNext' = nextSeq
      BY <1>000, <2>1, <2>2, <2>3, <2>4, <2>6
    <3> QED BY <2>1, <2>3, <2>6, <3>1 DEF CountersInv
  <2>7. \/ pending' = pending /\ pc' \in {"insert", "flush"}
        \/ pc' = "idle" /\ Len(pending) <= at + 1
    <3>1. CASE Continue(at + 1)
      <4>1. at + 1 \in Nat
        BY <2>1
      <4> QED BY <1>0, <3>1, <4>1, AckIs
    <3> QED BY <1>0, <1>6, <3>1, InsertIs
  <2> QED BY <2>5, <2>6, <2>7
<1>7. CASE Maintain
  <2>1. /\ pc = "idle" /\ pc' = "flush" /\ pending = <<>>
        /\ UNCHANGED <<pending, queue, walNext, nextSeq, memNext>>
    BY <1>0, <1>7, MaintainIs DEF walVars
  <2>2. queue = <<>> /\ walNext = nextSeq /\ memNext = nextSeq /\ DOMAIN pending' = {}
    BY <2>1 DEF CountersInv
  <2> QED BY <2>1, <2>2 DEF CountersInv
<1>8. CASE Flush
  <2>1. /\ pc = "flush" /\ CommitTable /\ Continue(at) /\ at' = at /\ frozen' = <<>> /\ active' = {}
        /\ misfiled' = misfiled \cup {pending[i].w : i \in at + 1 .. Len(pending)}
        /\ UNCHANGED <<queue, walNext, nextSeq, memNext>>
    BY <1>0, <1>8, FlushIs DEF Flush
  <2>2. /\ queue = <<>> /\ walNext = nextSeq
        /\ pending = <<>> => memNext = nextSeq
        /\ pending # <<>> => /\ at <= Len(pending)
                             /\ memNext + Len(pending) = nextSeq + at
        /\ \A i \in DOMAIN pending : pending[i].seq + Len(pending) = nextSeq + i - 1
    BY <2>1 DEF CountersInv
  <2>3. Len(pending) \in Nat /\ at \in Nat /\ DOMAIN pending = 1 .. Len(pending)
    BY <1>0, PendingType
  <2>4. CASE pc' = "idle" /\ Len(pending) <= at
    <3>1. memNext = nextSeq
      <4>1. CASE pending = <<>>
        BY <2>2, <4>1
      <4>2. CASE pending # <<>>
        <5>1. at <= Len(pending) /\ memNext + Len(pending) = nextSeq + at
          BY <2>2, <4>2
        <5>2. at = Len(pending)
          <6>1. Len(pending) <= at /\ at <= Len(pending)
            BY <2>4, <5>1
          <6>2. \A a, b \in Nat : a <= b /\ b <= a => a = b
            OBVIOUS
          <6> QED BY <2>3, <6>1, <6>2
        <5>3. memNext + at = nextSeq + at
          BY <5>1, <5>2
        <5> QED BY <1>000, <2>3, <5>3
      <4> QED BY <4>1, <4>2
    <3> QED BY <2>1, <2>2, <2>4, <3>1 DEF CountersInv
  <2>5. CASE pc' = "insert" /\ pending' = pending
    <3>1. ASSUME NEW i \in DOMAIN pending, i <= at, NEW k \in Keys, pending[i].key = k
          PROVE  pending[i].w <= BestOf(ssts', k)
      <4>1. Get(k)' >= pending[i].w
        BY <1>00, <2>1, <2>5, <3>1 DEF MemoryInv
      <4>2. Newest(active', k).w = 0
        BY <2>1, NewestNone
      <4>3. Get(k)' = BestOf(ssts', k)
        BY <1>00, <2>1, <4>2, GetNext DEF MemoryInv
      <4>4. BestOf(ssts', k) \in Nat /\ pending[i].w \in Nat
        <5>1. ssts' \in Seq(Tables) /\ Increasing(ssts')
          BY <1>0, <1>00 DEF TypeOK, TablesInv
        <5> QED BY <1>0, <5>1, BestOfType, PendingType
      <4> QED BY <4>1, <4>3, <4>4
    <3>2. \A i \in DOMAIN pending :
             \/ pending[i].w \in misfiled'
             \/ i <= at /\ pending[i].w <= BestOf(ssts', pending[i].key)
      <4> TAKE i \in DOMAIN pending
      <4>1. CASE i <= at
        <5>1. pending[i].key \in Keys
          BY <1>0, PendingType
        <5> QED BY <3>1, <4>1, <5>1
      <4>2. CASE i > at
        <5>1. i \in at + 1 .. Len(pending)
          BY <2>3, <4>2
        <5> QED BY <2>1, <5>1
      <4> QED BY <2>3, <4>1, <4>2
    <3>3. pending # <<>>
      <4>1. at < Len(pending)
        BY <1>0, <2>1, <2>3, <2>5, AckIs
      <4> QED BY <2>3, <4>1
    <3> QED BY <2>1, <2>2, <2>5, <3>2, <3>3 DEF CountersInv
  <2> QED BY <1>0, <2>1, <2>3, <2>4, <2>5, AckIs
<1>9. CASE FlushFails
  <2>1. pc = "flush"
    BY <1>9 DEF FlushFails
  <2> QED BY <1>0, <1>00, <1>9, <2>1, FlushesSucceed
<1>10. CASE Open
  <2>1. /\ pc = "down" /\ pc' = "idle" /\ queue' = queue
        /\ memNext' = nextSeq' /\ walNext' = nextSeq'
    BY <1>00, <1>10 DEF Open
  <2>2. queue = <<>>
    BY <1>0, <2>1 DEF TypeOK
  <2> QED BY <2>1, <2>2 DEF CountersInv
<1>11. CASE Crash
  BY <1>11 DEF Crash
<1> QED BY <1>1, <1>2, <1>3, <1>4, <1>5, <1>6, <1>7, <1>8, <1>9, <1>10, <1>11 DEF Next, Progress

\* After a flush the tables have what is acknowledged: memory is empty.
LEMMA FlushRecovers ==
    ASSUME TypeOK, TypeOK', PendingInv, TablesInv, TablesInv', MemoryInv, MemoryInv', Flush,
           NEW k \in Keys
    PROVE  BestOf(ssts', k) >= acked'[k]
<1>1. frozen' = <<>> /\ active' = {}
  BY FlushIs
<1>2. Newest(active', k).w = 0
  BY <1>1, NewestNone
<1>3. Get(k)' = BestOf(ssts', k)
  BY <1>1, <1>2, GetNext DEF MemoryInv
<1>4. Get(k)' >= acked'[k]
  BY DEF MemoryInv
<1> QED BY <1>3, <1>4

\* And so does an interrupted flush whose manifest update was applied.
LEMMA CrashRecovers ==
    ASSUME TypeOK, TypeOK', PendingInv, TablesInv, MemoryInv, pc = "flush", CommitTable,
           Crash, NEW k \in Keys
    PROVE  BestOf(ssts', k) >= acked'[k]
<1>1. BestOf(ssts', k) = Get(k)
  BY FlushedReads
<1>2. acked' = acked
  BY CrashIs
<1> QED BY <1>1, <1>2 DEF MemoryInv

\* Steps that neither flush, nor acknowledge, nor crash.
LEMMA WaitRecovers ==
    ASSUME TypeOK, Put \/ PutBatch \/ Commit \/ RecordWrite \/ Durable \/ Cancel \/ Maintain \/ Open
    PROVE  /\ wal \subseteq wal'
           /\ UNCHANGED <<ssts, lastFlushed, acked, misfiled>>
<1>1. CASE Put \/ PutBatch \/ RecordWrite \/ Durable \/ Cancel
  BY <1>1, WaitIs, QuietIs
<1>2. CASE Commit
  BY <1>2, CommitIs, WaitIs
<1>3. CASE Maintain
  BY <1>3, MaintainIs DEF disk, s3, ghosts
<1>4. CASE Open
  BY <1>4 DEF Open, s3
<1> QED BY <1>1, <1>2, <1>3, <1>4

\* In step, an acknowledged write is in a table or above what is flushed.
LEMMA RecoverableStep ==
    ASSUME WriteInv, WriteInv', FreshInv, FreshInv', Reliable, pc # "down" => CountersInv, Next,
           numbering' = "inStep",
           \A k \in Keys : acked[k] \notin misfiled => Recoverable(k, acked[k])
    PROVE  \A k \in Keys : acked'[k] \notin misfiled' => Recoverable(k, acked[k])'
<1>0. TypeOK /\ TypeOK' /\ PendingInv
  BY DEF WriteInv
<1>00. /\ TablesInv /\ TablesInv' /\ (pc # "down" => MemoryInv) /\ (pc' # "down" => MemoryInv')
  <2>1. numbering = "inStep" /\ Reliable'
    BY <1>0, NumberingNext DEF Reliable
  <2> QED BY <2>1 DEF FreshInv
<1>1. CASE UNCHANGED <<ssts, lastFlushed, acked, misfiled>> /\ wal \subseteq wal'
  BY <1>1 DEF Recoverable, Replays
<1>2. CASE Insert
  <2>1. /\ UNCHANGED <<wal, ssts, lastFlushed, misfiled>> /\ pc = "insert"
        /\ at + 1 \in DOMAIN pending
    BY <1>0, <1>2, InsertIs, QuietIs
  <2>2. \A k \in Keys : \/ acked'[k] = acked[k]
                        \/ \E i \in DOMAIN pending : acked'[k] = pending[i].w /\ pending[i].key = k
    <3>1. CASE Continue(at + 1)
      <4>1. at + 1 \in Nat
        BY <1>0, PendingType
      <4> QED BY <1>0, <3>1, <4>1, AckIs
    <3> QED BY <1>0, <1>2, <3>1, InsertIs
  <2>3. \A i \in DOMAIN pending :
           \/ pending[i].w \in misfiled
           \/ pending[i].w <= BestOf(ssts, pending[i].key)
           \/ \E x \in wal : Alike(pending[i], x) /\ x.seq >= lastFlushed
    BY <2>1 DEF CountersInv
  <2>4. ASSUME NEW k \in Keys, acked'[k] \notin misfiled
        PROVE  \/ acked'[k] <= BestOf(ssts, k)
               \/ \E x \in wal : x.key = k /\ x.seq >= lastFlushed /\ x.w >= acked'[k]
    <3>1. CASE acked'[k] = acked[k]
      BY <2>4, <3>1 DEF Recoverable, Replays
    <3>2. CASE \E i \in DOMAIN pending : acked'[k] = pending[i].w /\ pending[i].key = k
      <4>1. PICK i \in DOMAIN pending : acked'[k] = pending[i].w /\ pending[i].key = k
        BY <3>2
      <4>2. pending[i].w \in Nat
        BY <1>0, PendingType
      <4> QED BY <2>3, <2>4, <4>1, <4>2 DEF Alike
    <3> QED BY <2>2, <3>1, <3>2
  <2> QED BY <2>1, <2>4 DEF Recoverable, Replays
<1>3. CASE Flush
  <2>1. \A k \in Keys : BestOf(ssts', k) >= acked'[k]
    <3>1. pc # "down" /\ pc' # "down"
      BY <1>0, <1>3, FlushIs
    <3> QED BY <1>0, <1>00, <1>3, <3>1, FlushRecovers
  <2>2. \A k \in Keys : BestOf(ssts', k) \in Nat /\ acked'[k] \in Nat
    BY <1>0, <1>00, BestOfType DEF TypeOK, TablesInv
  <2>3. \A k \in Keys : acked'[k] <= BestOf(ssts', k)
    BY <2>1, <2>2
  <2> QED BY <2>3 DEF Recoverable
<1>4. CASE FlushFails
  <2>1. pc = "flush"
    BY <1>4 DEF FlushFails
  <2> QED BY <1>0, <1>00, <1>4, <2>1, FlushesSucceed
<1>5. CASE Crash
  <2>1. /\ pc # "down" /\ UNCHANGED <<acked, misfiled>>
        /\ (pc = "flush" /\ CommitTable) \/ UNCHANGED <<wal, ssts, lastFlushed>>
    BY <1>0, <1>5, CrashIs
  <2>2. CASE pc = "flush" /\ CommitTable
    <3>1. \A k \in Keys : BestOf(ssts', k) >= acked'[k]
      BY <1>0, <1>00, <1>5, <2>1, <2>2, CrashRecovers
    <3>2. \A k \in Keys : BestOf(ssts', k) \in Nat /\ acked'[k] \in Nat
      BY <1>0, <1>00, BestOfType DEF TypeOK, TablesInv
    <3>3. \A k \in Keys : acked'[k] <= BestOf(ssts', k)
      BY <3>1, <3>2
    <3> QED BY <3>3 DEF Recoverable
  <2> QED BY <1>1, <2>1, <2>2
<1>6. CASE Put \/ PutBatch \/ Commit \/ RecordWrite \/ Durable \/ Cancel \/ Maintain \/ Open
  BY <1>0, <1>1, <1>6, WaitRecovers
<1> QED BY <1>2, <1>3, <1>4, <1>5, <1>6 DEF Next, Progress

\* The in-step invariant, over a step of any action.
LEMMA InStepStep ==
    ASSUME WriteInv, WriteInv', FreshInv, FreshInv', InStepInv, Next
    PROVE  InStepInv'
<1> SUFFICES ASSUME Reliable', numbering' = "inStep"
             PROVE  /\ StepOrderInv' /\ (pc' # "down" => CountersInv')
                    /\ \A k \in Keys : acked'[k] \notin misfiled' => Recoverable(k, acked[k])'
  BY DEF InStepInv
<1>1. TypeOK
  BY DEF WriteInv
<1>2. Reliable /\ numbering = "inStep"
  BY <1>1, NumberingNext DEF Reliable
<1>3. /\ StepOrderInv /\ (pc # "down" => CountersInv)
      /\ \A k \in Keys : acked[k] \notin misfiled => Recoverable(k, acked[k])
  BY <1>2 DEF InStepInv
<1>4. TablesInv /\ (pc # "down" => MemoryInv)
  BY <1>2 DEF FreshInv
<1>5. StepOrderInv'
  BY <1>2, <1>3, <1>4, StepOrderStep
<1>6. pc' # "down" => CountersInv'
  BY <1>2, <1>3, CountersStep
<1> QED BY <1>2, <1>3, <1>5, <1>6, RecoverableStep

\* In step, a recovery brings back what is acknowledged.
LEMMA InStepRecovery ==
    ASSUME WriteInv, FreshInv, InStepInv, Reliable, numbering = "inStep", NEW k \in Keys,
           acked[k] \notin misfiled
    PROVE  GetAfterRecovery(k) >= acked[k]
<1>0. /\ TypeOK /\ LogInv /\ StepOrderInv /\ TablesInv /\ Recoverable(k, acked[k])
      /\ acked[k] \in Nat /\ ssts \in Seq(Tables) /\ Increasing(ssts)
  BY DEF WriteInv, FreshInv, InStepInv, TypeOK, TablesInv
<1>1. ASSUME NEW x \in Replays(k), acked[k] <= BestOf(ssts, k)
      PROVE  x.w >= acked[k]
  <2>1. x \in wal /\ x.seq >= lastFlushed /\ x.w \in Nat /\ BestOf(ssts, k) \in Nat
    BY <1>0, BestOfType DEF Replays, TypeOK
  <2>2. CASE BestOf(ssts, k) = 0
    BY <1>0, <1>1, <2>1, <2>2
  <2>3. CASE \E i \in DOMAIN ssts : \E e \in ssts[i] : e.key = k /\ e.w = BestOf(ssts, k)
    <3>1. PICK i \in DOMAIN ssts : \E e \in ssts[i] : e.key = k /\ e.w = BestOf(ssts, k)
      BY <2>3
    <3>3. PICK e \in ssts[i] : e.w = BestOf(ssts, k)
      BY <3>1
    <3>2. e.w <= x.w
      BY <1>0, <2>1, <3>1 DEF StepOrderInv
    <3> QED BY <1>0, <1>1, <2>1, <3>2, <3>3
  <2> QED BY <1>0, <2>2, <2>3, BestOfIn
<1>2. Replays(k) # {} => \E a \in Replays(k) : a.w >= acked[k]
  BY <1>0, <1>1 DEF Recoverable
<1> QED BY <1>0, <1>2, RecoveryReads

-----------------------------------------------------------------------------
(* Single writes in one segment *)

\* A plain process deletes nothing from its log.
LEMMA PlainDisk ==
    ASSUME TypeOK, \A d \in dirty : d[1] = segment, pc = "flush",
           PartOfFlush \/ (CommitTable /\ Cleanup(Frozen.gen, segment))
    PROVE  wal' = wal /\ dirty' \subseteq dirty
<1>1. ASSUME NEW limit, Cleanup(Frozen.gen, limit)
      PROVE  wal' = wal /\ dirty' \subseteq dirty
  <2>1. Cleaned(Frozen.gen) = {}
    BY DEF Cleaned
  <2>2. /\ wal' = {e \in wal : e.seg \notin {s \in Cleaned(Frozen.gen) : s < limit}}
        /\ dirty' = {d \in dirty : d[2] # Frozen.gen}
    BY <1>1 DEF Cleanup
  <2> QED BY <2>1, <2>2
<1>2. CASE UNCHANGED <<s3, disk, dirty>>
  BY <1>2 DEF disk
<1>3. CASE UNCHANGED <<disk, dirty>>
  BY <1>3 DEF disk
<1> QED BY <1>1, <1>2, <1>3 DEF PartOfFlush

\* A recovery of a plain log brings back what is acknowledged.
LEMMA PlainRecovery ==
    ASSUME TypeOK, LogInv, Plain, PlainInv, NEW k \in Keys
    PROVE  GetAfterRecovery(k) >= acked[k]
<1>1. acked[k] \in Nat /\ Recoverable(k, acked[k]) /\ (acked[k] # 0 => Logged(k, acked[k]))
  BY DEF TypeOK, PlainInv
<1>2. ASSUME NEW x \in Replays(k)
      PROVE  \E a \in Replays(k) : a.w >= acked[k]
  <2>1. x \in wal /\ x.seq \in Nat /\ x.w \in Nat /\ x.seq >= lastFlushed /\ lastFlushed \in Nat
    BY DEF Replays, TypeOK
  <2>2. CASE x.w >= acked[k]
    BY <2>2
  <2>3. CASE x.w < acked[k]
    <3>1. acked[k] # 0
      BY <1>1, <2>1, <2>3
    <3>2. PICK a \in wal : a.key = k /\ a.w = acked[k]
      BY <1>1, <3>1 DEF Logged
    <3>3. x.seq <= a.seq /\ a.seq \in Nat
      BY <1>1, <2>1, <2>3, <3>2, LogOrder
    <3>4. a \in Replays(k)
      BY <2>1, <3>2, <3>3 DEF Replays
    <3> QED BY <1>1, <3>2, <3>4
  <2> QED BY <1>1, <2>1, <2>2, <2>3
<1> QED BY <1>1, <1>2, RecoveryReads

\* The steps that leave object storage, what is acknowledged and the memtable's
\* counter alone, and only extend the log.
LEMMA PlainKept ==
    ASSUME wal \subseteq wal', UNCHANGED <<ssts, lastFlushed, acked>>,
           \A k \in Keys : acked[k] # 0 => Logged(k, acked[k]),
           \A k \in Keys : Recoverable(k, acked[k])
    PROVE  /\ \A k \in Keys : acked'[k] # 0 => Logged(k, acked[k])'
           /\ \A k \in Keys : Recoverable(k, acked[k])'
BY DEF Logged, Recoverable, Replays

\* A plain write.
LEMMA PlainSubmit ==
    ASSUME TypeOK, TypeOK', Plain, PlainInv, Put \/ PutBatch
    PROVE  PlainInv'
<1>1. PICK k \in Keys : Submit(<<k>>, FALSE)
  <2>1. 1 .. scenario.maxBatch = {}
    BY DEF Plain
  <2> QED BY <2>1 DEF Put, PutBatch
<1>2. <<k>> \in Seq(Keys) /\ Len(<<k>>) = 1
  OBVIOUS
<1>3. /\ pending' \in Seq(Entries) /\ Len(pending') = 1
      /\ queue' \in Seq(Submissions) /\ Len(queue') = Len(queue) + 1
      /\ pending'[1].key = k /\ pending'[1].w = nextWrite + 1 - 1
      /\ queue'[Len(queue) + 1].key = k /\ queue'[Len(queue) + 1].w = nextWrite + 1 - 1
  <2>1. 1 \in 1 .. Len(<<k>>) /\ <<k>>[1] = k
    OBVIOUS
  <2> QED BY <1>1, <1>2, <2>1, SubmitIs
<1>4. /\ UNCHANGED <<disk, s3, segment, walNext, dirty, memVars, acked, numbering, misfiled,
                     restarts, scenario>>
      /\ pc = "idle" /\ pc' = "wal" /\ batch' = FALSE
  BY <1>1 DEF Submit
<1>5. queue' # <<>>
  <2>1. Len(queue) \in Nat /\ Len(queue') > 0
    <3>1. queue \in Seq(Submissions)
      BY DEF TypeOK, Submissions
    <3>2. Len(queue) \in Nat
      BY <3>1
    <3> QED BY <1>3, <3>2
  <2> QED BY <2>1
<1>6. /\ \A j \in Keys : acked'[j] # 0 => Logged(j, acked[j])'
      /\ \A j \in Keys : Recoverable(j, acked[j])'
  <2>1. wal \subseteq wal' /\ UNCHANGED <<ssts, lastFlushed, acked>>
    BY <1>4 DEF disk, s3
  <2> QED BY <2>1, PlainKept DEF PlainInv
<1>7. Top' = Top /\ UNCHANGED <<wal, lastFlushed, memNext>>
  BY <1>4 DEF Top, disk, s3, memVars
<1>8. Len(pending') <= 1
  BY <1>3
<1> QED BY <1>3, <1>4, <1>5, <1>6, <1>7, <1>8 DEF PlainInv

\* The commit loop: the log grows by its new highest number, which the write has
\* when the queue is empty.
LEMMA PlainCommit ==
    ASSUME TypeOK, TypeOK', LogInv, Plain, PlainInv, Commit
    PROVE  PlainInv'
<1>1. /\ wal' = wal \cup {Appended} /\ Appended \in WalEntries
      /\ Appended.key = queue[1].key /\ Appended.w = queue[1].w
      /\ Appended.seq = walNext
      /\ walNext' = walNext + 1 /\ Len(queue) > 0 /\ 1 \in DOMAIN queue
      /\ queue' \in Seq(Submissions) /\ Len(queue') = Len(queue) - 1
      /\ \A j \in DOMAIN queue' : j + 1 \in DOMAIN queue /\ queue'[j] = queue[j + 1]
      /\ pc # "down"
  BY CommitIs
<1>2. UNCHANGED <<s3, dirty, memVars, opVars, ghosts, segment>>
  BY DEF Commit, Plain
<1>3. /\ walNext = Top + 1 /\ memNext <= walNext + 1 /\ lastFlushed <= Top + 1
  BY <1>1 DEF PlainInv
<1>4. Top \in Nat /\ walNext \in Nat /\ memNext \in Nat /\ lastFlushed \in Nat
  BY TopIs DEF TypeOK
<1>5. Top' = walNext
  <2>1. SeqsOf(wal') \subseteq Nat /\ walNext \in SeqsOf(wal')
    BY <1>1, <1>4 DEF SeqsOf, TypeOK, WalEntries
  <2>2. \A y \in SeqsOf(wal') : y <= walNext
    <3>1. \A x \in wal : x.seq \in Nat /\ x.seq < walNext
      BY <1>1 DEF LogInv, TypeOK
    <3> QED BY <1>1, <1>4, <3>1 DEF SeqsOf
  <2> QED BY <2>1, <2>2, HighestAt DEF Top
<1>6. /\ \A j \in Keys : acked'[j] # 0 => Logged(j, acked[j])'
      /\ \A j \in Keys : Recoverable(j, acked[j])'
  <2>1. wal \subseteq wal' /\ UNCHANGED <<ssts, lastFlushed, acked>>
    BY <1>1, <1>2 DEF s3, ghosts
  <2> QED BY <2>1, PlainKept DEF PlainInv
<1>7. Len(queue) \in Nat /\ queue # <<>>
  <2>1. queue \in Seq(Submissions)
    BY DEF TypeOK, Submissions
  <2> QED BY <1>1, <2>1
<1>8. UNCHANGED <<pc, pending, memNext, lastFlushed, batch, numbering, at>>
  BY <1>2 DEF opVars, memVars, s3, ghosts
<1>9. pc = "wal" /\ queue' # <<>> =>
         /\ queue'[Len(queue')].key = pending'[1].key
         /\ queue'[Len(queue')].w = pending'[1].w
  <2> SUFFICES ASSUME pc = "wal", queue' # <<>>
               PROVE  queue'[Len(queue')] = queue[Len(queue)]
    BY <1>7, <1>8 DEF PlainInv
  <2>1. Len(queue') \in DOMAIN queue'
    BY <1>1
  <2>2. Len(queue') + 1 = Len(queue)
    BY <1>1, <1>7
  <2> QED BY <1>1, <2>1, <2>2
<1>10. pc \in {"wal", "insert"} /\ queue' = <<>> =>
         /\ memNext' <= walNext'
         /\ \E x \in wal' : /\ x.key = pending'[1].key /\ x.w = pending'[1].w /\ x.seq = Top'
  <2> SUFFICES ASSUME pc \in {"wal", "insert"}, queue' = <<>>
               PROVE  /\ memNext <= walNext + 1
                      /\ Appended.key = pending[1].key /\ Appended.w = pending[1].w
    BY <1>1, <1>5, <1>8
  <2>1. pc = "wal"
    <3>1. pc = "insert" => pending # <<>>
      <4>1. pc = "insert" => at < Len(pending)
        BY DEF TypeOK
      <4>2. pending = <<>> => Len(pending) = 0
        OBVIOUS
      <4> QED BY <4>1, <4>2, PendingType
    <3> QED BY <1>7, <3>1 DEF TypeOK
  <2>2. Len(queue') = 0 /\ Len(queue) = 1
    BY <1>1, <1>7
  <2> QED BY <1>1, <1>3, <1>7, <2>1, <2>2 DEF PlainInv
<1>11. \A i \in DOMAIN pending : Logged(pending[i].key, pending[i].w)
                                   => Logged(pending[i].key, pending[i].w)'
  BY <1>1, <1>8 DEF Logged
<1>12. lastFlushed' <= Top' + 1 /\ walNext' = Top' + 1 /\ memNext' <= walNext' + 1
  BY <1>1, <1>3, <1>4, <1>5, <1>8
<1>13. /\ numbering' # "broken" /\ (\A d \in dirty' : d[1] = segment')
       /\ batch' = FALSE /\ Len(pending') <= 1
       /\ (pc = "flush" => \A i \in DOMAIN pending : i <= at /\ Logged(pending[i].key, pending[i].w))
  BY <1>2, <1>8 DEF PlainInv
<1> QED BY <1>6, <1>8, <1>9, <1>10, <1>11, <1>12, <1>13 DEF PlainInv

\* Waiting: the charge goes to the current segment, the engine's number moves,
\* a dropped request leaves the counters apart.
LEMMA PlainWait ==
    ASSUME TypeOK, TypeOK', Plain, PlainInv, RecordWrite \/ Durable \/ Cancel
    PROVE  PlainInv'
<1>1. /\ UNCHANGED <<wal, ssts, lastFlushed, acked, queue, walNext, memNext, at, batch, segment>>
      /\ pc = "wal" /\ Top' = Top
      /\ dirty' \subseteq dirty \cup {<<segment, generation>>}
  BY DEF RecordWrite, Durable, Cancel, disk, s3, walVars, memVars, ghosts, Top
<1>2. /\ \A j \in Keys : acked'[j] # 0 => Logged(j, acked[j])'
      /\ \A j \in Keys : Recoverable(j, acked[j])'
  BY <1>1, PlainKept DEF PlainInv
<1>3. \A d \in dirty' : d[1] = segment'
  BY <1>1 DEF PlainInv
<1>4. CASE RecordWrite
  <2>1. UNCHANGED <<pc, pending, numbering>>
    BY <1>4 DEF RecordWrite, ghosts
  <2> QED BY <1>1, <1>2, <1>3, <2>1 DEF PlainInv
<1>5. CASE Durable
  <2>1. pc' = "insert" /\ queue = <<>> /\ UNCHANGED <<pending, numbering>>
    BY <1>5 DEF Durable, ghosts
  <2> QED BY <1>1, <1>2, <1>3, <2>1 DEF PlainInv
<1>6. CASE Cancel
  <2>1. pc' = "idle" /\ pending' = <<>> /\ (numbering' = numbering \/ numbering' = "apart")
    BY <1>6 DEF Cancel
  <2>2. Len(pending') <= 1
    BY <2>1
  <2> QED BY <1>1, <1>2, <1>3, <2>1, <2>2 DEF PlainInv
<1> QED BY <1>4, <1>5, <1>6

\* The memtable takes its own number, at most the log's: the write's entry is
\* above what is flushed.
LEMMA PlainInsert ==
    ASSUME TypeOK, TypeOK', PendingInv, Plain, PlainInv, MemoryInv, Insert
    PROVE  PlainInv'
<1>1. /\ pc = "insert" /\ at' = at + 1 /\ at + 1 \in DOMAIN pending
      /\ memNext' = IF MemEntry.seq >= memNext THEN MemEntry.seq + 1 ELSE memNext
      /\ numbering' = IF MemEntry.seq < memNext THEN "broken" ELSE numbering
      /\ MemEntry.seq = IF batch THEN pending[at + 1].seq ELSE memNext
      /\ queue = <<>> /\ queue' = <<>>
      /\ UNCHANGED <<disk, s3, walVars, batch>>
  BY InsertIs
<1>2. /\ batch = FALSE /\ Len(pending) <= 1 /\ memNext <= walNext /\ walNext = Top + 1
      /\ numbering # "broken" /\ lastFlushed <= Top + 1
      /\ \A d \in dirty : d[1] = segment
  BY <1>1 DEF PlainInv
<1>3. PICK x \in wal : x.key = pending[1].key /\ x.w = pending[1].w /\ x.seq = Top
  BY <1>1 DEF PlainInv
<1>4. Top \in Nat /\ memNext \in Nat /\ lastFlushed \in Nat /\ walNext \in Nat
  BY TopIs DEF TypeOK
<1>5. memNext' = memNext + 1 /\ numbering' = numbering
  BY <1>1, <1>2, <1>4
<1>6. x.seq >= lastFlushed
  <2>1. lastFlushed < memNext
    BY DEF MemoryInv
  <2> QED BY <1>2, <1>3, <1>4, <2>1
<1>7. at = 0 /\ Len(pending) = 1 /\ DOMAIN pending = {1}
  BY <1>1, <1>2, PendingType
<1>8. \/ pc' = "flush" /\ UNCHANGED <<acked, pending>>
      \/ /\ pc' = "idle" /\ pending' = <<>>
         /\ \A k \in Keys : \/ acked'[k] = acked[k]
                            \/ acked'[k] = pending[1].w /\ pending[1].key = k
  <2>1. CASE Continue(at + 1)
    <3>1. at + 1 \in Nat /\ ~(at + 1 < Len(pending))
      BY <1>7
    <3> QED BY <1>7, <2>1, <3>1, AckIs
  <2> QED BY <2>1, InsertIs
<1>9. UNCHANGED <<wal, ssts, lastFlushed, walNext, segment, dirty, batch>> /\ Top' = Top
  BY <1>1 DEF disk, s3, walVars, Top
<1>10. ASSUME NEW k \in Keys
       PROVE  /\ acked'[k] # 0 => \E y \in wal : y.key = k /\ y.w = acked'[k]
              /\ \/ acked'[k] <= BestOf(ssts, k)
                 \/ \E y \in wal : y.key = k /\ y.seq >= lastFlushed /\ y.w >= acked'[k]
  <2>1. CASE acked'[k] = acked[k]
    BY <2>1 DEF PlainInv, Logged, Recoverable, Replays
  <2>2. CASE acked'[k] = pending[1].w /\ pending[1].key = k
    <3>1. x.w \in Nat
      BY DEF TypeOK
    <3> QED BY <1>3, <1>6, <2>2, <3>1
  <2> QED BY <1>8, <2>1, <2>2
<1>11. /\ \A k \in Keys : acked'[k] # 0 => Logged(k, acked[k])'
       /\ \A k \in Keys : Recoverable(k, acked[k])'
  BY <1>9, <1>10 DEF Logged, Recoverable, Replays
<1>12. pc' = "flush" =>
          \A i \in DOMAIN pending' : i <= at' /\ Logged(pending[i].key, pending[i].w)'
  <2> SUFFICES ASSUME pc' = "flush", NEW i \in DOMAIN pending'
               PROVE  i <= at' /\ \E y \in wal' : y.key = pending'[i].key /\ y.w = pending'[i].w
    BY DEF Logged
  <2>1. pending' = pending /\ i = 1
    BY <1>7, <1>8
  <2> QED BY <1>1, <1>3, <1>7, <1>9, <2>1
<1>13. lastFlushed' <= Top' + 1 /\ walNext' = Top' + 1 /\ memNext' <= walNext' + 1
  BY <1>2, <1>4, <1>5, <1>9
<1>14. pc' \notin {"wal", "insert"} /\ Len(pending') <= 1
  <2>1. Len(<<>>) <= 1
    OBVIOUS
  <2> QED BY <1>2, <1>8, <2>1
<1> QED BY <1>2, <1>5, <1>9, <1>11, <1>12, <1>13, <1>14 DEF PlainInv

\* A flush raises last_flushed_sequence to at most one above the log.
LEMMA PlainFlush ==
    ASSUME TypeOK, TypeOK', PendingInv, Plain, PlainInv, TablesInv, TablesInv', MemoryInv,
           MemoryInv', Flush
    PROVE  PlainInv'
<1>1. /\ pc = "flush" /\ CommitTable /\ Continue(at) /\ Cleanup(Frozen.gen, segment)
  BY DEF Flush
<1>2. /\ UNCHANGED <<queue, segment, walNext, memNext, at, batch, numbering>> /\ at \in Nat
  BY FlushIs DEF TypeOK
<1>3. /\ numbering # "broken" /\ (\A d \in dirty : d[1] = segment) /\ batch = FALSE
      /\ walNext = Top + 1 /\ memNext <= walNext + 1
      /\ \A i \in DOMAIN pending : i <= at /\ Logged(pending[i].key, pending[i].w)
  BY <1>1 DEF PlainInv
<1>4. wal' = wal /\ dirty' \subseteq dirty
  BY <1>1, <1>3, PlainDisk
<1>5. lastFlushed' < memNext
  BY <1>1, AppendedTable
<1>6. Top \in Nat /\ memNext \in Nat /\ lastFlushed' \in Nat /\ walNext \in Nat /\ Top' = Top
  BY <1>4, TopIs DEF TypeOK, Top
<1>7. ~(at < Len(pending))
  <2> SUFFICES ASSUME at < Len(pending)
               PROVE  FALSE
    OBVIOUS
  <2>1. Len(pending) \in DOMAIN pending
    BY <1>2, PendingType
  <2> QED BY <1>2, <1>3, <2>1, PendingType
<1>8. /\ pc' = "idle" /\ pending' = <<>>
      /\ \A k \in Keys : \/ acked'[k] = acked[k]
                         \/ \E i \in DOMAIN pending : acked'[k] = pending[i].w /\ pending[i].key = k
  BY <1>1, <1>2, <1>7, AckIs
<1>9. \A k \in Keys : acked'[k] # 0 => Logged(k, acked[k])'
  <2> SUFFICES ASSUME NEW k \in Keys, acked'[k] # 0
               PROVE  \E x \in wal : x.key = k /\ x.w = acked'[k]
    BY <1>4 DEF Logged
  <2> QED BY <1>3, <1>8 DEF PlainInv, Logged
<1>10. \A k \in Keys : Recoverable(k, acked[k])'
  <2>1. \A k \in Keys : BestOf(ssts', k) >= acked'[k]
    BY FlushRecovers
  <2>2. \A k \in Keys : BestOf(ssts', k) \in Nat /\ acked'[k] \in Nat
    BY BestOfType DEF TypeOK, TablesInv
  <2>3. \A k \in Keys : acked'[k] <= BestOf(ssts', k)
    BY <2>1, <2>2
  <2> QED BY <2>3 DEF Recoverable
<1>11. lastFlushed' <= Top' + 1 /\ walNext' = Top' + 1 /\ memNext' <= walNext' + 1
  BY <1>2, <1>3, <1>5, <1>6
<1>12. Len(pending') <= 1
  BY <1>8
<1> QED BY <1>2, <1>3, <1>4, <1>8, <1>9, <1>10, <1>11, <1>12 DEF PlainInv

\* A crash leaves the log, and any part of a flush.
LEMMA PlainCrash ==
    ASSUME TypeOK, TypeOK', PendingInv, Plain, PlainInv, TablesInv, TablesInv', MemoryInv, Crash
    PROVE  PlainInv'
<1>1. /\ pc # "down" /\ pc' = "down" /\ pending' = <<>>
      /\ (pc = "flush" /\ CommitTable) \/ UNCHANGED <<wal, ssts, lastFlushed>>
      /\ UNCHANGED <<segment, batch, acked, numbering, walNext, memNext>>
  BY CrashIs
<1>2. /\ numbering # "broken" /\ (\A d \in dirty : d[1] = segment) /\ batch = FALSE
      /\ walNext = Top + 1 /\ memNext <= walNext + 1 /\ lastFlushed <= Top + 1
  BY <1>1 DEF PlainInv
<1>3. wal' = wal /\ dirty' \subseteq dirty
  <2>1. CASE pc = "flush" /\ PartOfFlush
    BY <1>2, <2>1, PlainDisk
  <2>2. CASE UNCHANGED <<disk, dirty>>
    BY <2>2 DEF disk
  <2> QED BY <2>1, <2>2 DEF Crash, Interrupted
<1>4. Top \in Nat /\ memNext \in Nat /\ lastFlushed' \in Nat /\ walNext \in Nat /\ Top' = Top
  BY <1>3, TopIs DEF TypeOK, Top
<1>5. \A k \in Keys : acked'[k] # 0 => Logged(k, acked[k])'
  BY <1>1, <1>3 DEF PlainInv, Logged
<1>6. lastFlushed' <= Top' + 1 /\ \A k \in Keys : Recoverable(k, acked[k])'
  <2>1. CASE pc = "flush" /\ CommitTable
    <3>1. \A k \in Keys : BestOf(ssts', k) >= acked'[k]
      BY <2>1, CrashRecovers
    <3>2. \A k \in Keys : BestOf(ssts', k) \in Nat /\ acked'[k] \in Nat
      BY BestOfType DEF TypeOK, TablesInv
    <3>3. \A k \in Keys : acked'[k] <= BestOf(ssts', k)
      BY <3>1, <3>2
    <3>4. lastFlushed' < memNext
      BY <2>1, AppendedTable
    <3>5. lastFlushed' <= Top' + 1
      BY <1>2, <1>4, <3>4
    <3> QED BY <3>3, <3>5 DEF Recoverable
  <2>2. CASE UNCHANGED <<wal, ssts, lastFlushed>>
    <3>1. \A k \in Keys : Recoverable(k, acked[k])'
      BY <1>1, <2>2 DEF PlainInv, Recoverable, Replays
    <3> QED BY <1>2, <1>4, <2>2, <3>1
  <2> QED BY <1>1, <2>1, <2>2
<1>7. Len(pending') <= 1
  BY <1>1
<1> QED BY <1>1, <1>2, <1>3, <1>5, <1>6, <1>7 DEF PlainInv

\* What a recovery reads is a write or 0.
LEMMA ReadsType ==
    ASSUME TypeOK, TablesInv, NEW k
    PROVE  GetAfterRecovery(k) \in Nat
<1>1. Newest(Replayed, k).w \in Nat
  BY ReplayedType, NewestType
<1>2. BestOf(ssts, k) \in Nat
  BY BestOfType DEF TypeOK, TablesInv
<1> QED BY <1>1, <1>2 DEF GetAfterRecovery

\* The process opens: every acknowledged write is read, the numbers go on after
\* the log's, and the memtable's at most one above them.
LEMMA PlainOpen ==
    ASSUME TypeOK, TypeOK', LogInv, TablesInv, Plain, PlainInv, Open
    PROVE  PlainInv'
<1>1. /\ pc = "down" /\ pc' = "idle" /\ dirty' = {}
      /\ walNext' = HighestInWal + 1
      /\ memNext' = starting_seq + Cardinality(replay_from(lastFlushed))
      /\ UNCHANGED <<wal, s3, pending, at, batch, acked>>
      /\ numbering' = IF \E k \in Keys : GetAfterRecovery(k) < acked[k] THEN "broken"
                      ELSE IF numbering = "inStep" /\ ~(/\ KeepsNumbers
                                                        /\ memNext' = nextSeq'
                                                        /\ walNext' = nextSeq')
                           THEN "apart" ELSE numbering
  BY DEF Open
<1>2. \A k \in Keys : ~(GetAfterRecovery(k) < acked[k])
  <2> TAKE k \in Keys
  <2>1. GetAfterRecovery(k) >= acked[k]
    BY PlainRecovery
  <2>2. acked[k] \in Nat /\ GetAfterRecovery(k) \in Nat
    BY ReadsType DEF TypeOK
  <2> QED BY <2>1, <2>2
<1>3. numbering' # "broken"
  BY <1>1, <1>2 DEF PlainInv
<1>4. /\ lastFlushed <= Top + 1 /\ Top \in Nat /\ lastFlushed \in Nat /\ HighestInWal = Top
      /\ Cardinality(replay_from(lastFlushed)) \in Nat
  BY TopIs, HighestInWalIs, ReplayType DEF PlainInv, TypeOK
<1>5. lastFlushed + Cardinality(replay_from(lastFlushed)) <= Top + 1
  BY <1>4, ReplayBound
<1>6. Top' = Top /\ UNCHANGED <<wal, ssts, lastFlushed, acked>>
  BY <1>1 DEF Top, s3
<1>7. walNext' = Top' + 1 /\ memNext' <= walNext' + 1 /\ lastFlushed' <= Top' + 1
  BY <1>1, <1>4, <1>5, <1>6 DEF starting_seq
<1>8. /\ \A j \in Keys : acked'[j] # 0 => Logged(j, acked[j])'
      /\ \A j \in Keys : Recoverable(j, acked[j])'
  BY <1>6, PlainKept DEF PlainInv
<1> QED BY <1>1, <1>3, <1>6, <1>7, <1>8 DEF PlainInv

\* The plain invariant, over a step of any action.
LEMMA PlainStep ==
    ASSUME WriteInv, WriteInv', FreshInv, FreshInv', PlainInv, Next
    PROVE  PlainInv'
<1>0. TypeOK /\ TypeOK' /\ LogInv /\ PendingInv
  BY DEF WriteInv
<1>1. CASE ~Plain
  <2>1. scenario' = scenario
    BY <1>0, NumberingNext
  <2> QED BY <1>1, <2>1 DEF PlainInv, Plain, Reliable
<1>2. CASE Plain
  <2>1. TablesInv /\ (pc # "down" => MemoryInv)
    BY <1>2 DEF FreshInv, PlainInv, Plain
  <2>2. CASE Put \/ PutBatch
    BY <1>0, <1>2, <2>2, PlainSubmit
  <2>3. CASE Commit
    BY <1>0, <1>2, <2>3, PlainCommit
  <2>4. CASE RecordWrite \/ Durable \/ Cancel
    BY <1>0, <1>2, <2>4, PlainWait
  <2>5. CASE Insert
    <3>1. pc # "down"
      BY <2>5 DEF Insert
    <3> QED BY <1>0, <1>2, <2>1, <2>5, <3>1, PlainInsert
  <2>6. CASE Maintain
    <3>1. /\ pc = "idle" /\ pc' = "flush" /\ pending = <<>>
          /\ UNCHANGED <<disk, s3, walVars, memNext, pending, at, batch, ghosts>>
      BY <1>0, <2>6, MaintainIs
    <3>2. /\ \A j \in Keys : acked'[j] # 0 => Logged(j, acked[j])'
          /\ \A j \in Keys : Recoverable(j, acked[j])'
      <4>1. wal \subseteq wal' /\ UNCHANGED <<ssts, lastFlushed, acked>>
        BY <3>1 DEF disk, s3, ghosts
      <4> QED BY <1>2, <4>1, PlainKept DEF PlainInv
    <3>3. Top' = Top /\ UNCHANGED <<lastFlushed, dirty, segment, walNext, numbering>>
      BY <3>1 DEF Top, disk, s3, walVars, ghosts
    <3> QED BY <1>2, <3>1, <3>2, <3>3 DEF PlainInv
  <2>7. CASE Flush
    <3>1. pc # "down" /\ pc' # "down" /\ numbering' = numbering /\ scenario' = scenario
      BY <1>0, <2>7, FlushIs
    <3>2. Reliable' /\ numbering' # "broken"
      BY <1>2, <3>1 DEF PlainInv, Plain, Reliable
    <3>3. TablesInv' /\ MemoryInv'
      BY <3>1, <3>2 DEF FreshInv
    <3> QED BY <1>0, <1>2, <2>1, <2>7, <3>1, <3>3, PlainFlush
  <2>8. CASE FlushFails
    <3>1. pc = "flush"
      BY <2>8 DEF FlushFails
    <3> QED BY <1>0, <1>2, <2>1, <2>8, <3>1, FlushesSucceed DEF Plain
  <2>9. CASE Open
    BY <1>0, <1>2, <2>1, <2>9, PlainOpen
  <2>10. CASE Crash
    <3>1. pc # "down" /\ numbering' = numbering /\ scenario' = scenario
      BY <1>0, <2>10, CrashIs
    <3>2. Reliable' /\ numbering' # "broken"
      BY <1>2, <3>1 DEF PlainInv, Plain, Reliable
    <3>3. TablesInv'
      BY <3>2 DEF FreshInv
    <3> QED BY <1>0, <1>2, <2>1, <2>10, <3>1, <3>3, PlainCrash
  <2> QED BY <2>2, <2>3, <2>4, <2>5, <2>6, <2>7, <2>8, <2>9, <2>10 DEF Next, Progress
<1> QED BY <1>1, <1>2

-----------------------------------------------------------------------------
(* Recovery *)

\* While the engine, the log and the memtable count alike, each acknowledged
\* write is in a table or among the entries a recovery would replay, and a
\* later number is a later write; without batches and rotation the whole log is
\* kept and the memtable is at most one number ahead of it.
THEOREM RecoveryInvariant == Spec => [](InStepInv /\ PlainInv)
<1>1. Init => InStepInv /\ PlainInv
  <2> SUFFICES ASSUME Init
               PROVE  InStepInv /\ PlainInv
    OBVIOUS
  <2>1. /\ wal = {} /\ ssts = <<>> /\ lastFlushed = 0 /\ dirty = {} /\ batch = FALSE
        /\ pending = <<>> /\ pc = "down" /\ numbering = "inStep"
        /\ acked = [k \in Keys |-> 0]
    BY DEF Init
  <2>2. TypeOK
    BY WriteInit DEF WriteInv
  <2>3. Top = 0
    BY <2>1, <2>2, TopIs
  <2>4. \A k \in Keys : BestOf(ssts, k) = 0
    <3>1. ssts \in Seq(Tables) /\ DOMAIN ssts = {}
      BY <2>1, <2>2 DEF TypeOK
    <3> QED BY <3>1, BestOfNone
  <2>5. \A k \in Keys : Recoverable(k, acked[k])
    BY <2>1, <2>4 DEF Recoverable
  <2>6. StepOrderInv
    BY <2>1 DEF StepOrderInv
  <2>7. Len(pending) <= 1 /\ lastFlushed <= Top + 1
    BY <2>1, <2>3
  <2>8. InStepInv
    BY <2>1, <2>5, <2>6 DEF InStepInv
  <2> QED BY <2>1, <2>5, <2>7, <2>8 DEF PlainInv
<1>2. WriteInv /\ WriteInv' /\ FreshInv /\ FreshInv' /\ (InStepInv /\ PlainInv) /\ [Next]_vars
        => (InStepInv /\ PlainInv)'
  <2> SUFFICES ASSUME WriteInv, WriteInv', FreshInv, FreshInv', InStepInv, PlainInv, [Next]_vars
               PROVE  InStepInv' /\ PlainInv'
    OBVIOUS
  <2>1. CASE Next
    BY <2>1, InStepStep, PlainStep
  <2>2. CASE UNCHANGED vars
    <3>1. UNCHANGED <<wal, ssts, lastFlushed, queue, segment, walNext, dirty, nextSeq, memNext,
                      active, frozen, handles, pc, pending, at, batch, acked, numbering,
                      misfiled, scenario>>
      BY <2>2 DEF vars, disk, s3, walVars, memVars, opVars, ghosts
    <3>2. InStepInv'
      BY <3>1 DEF InStepInv, Reliable, StepOrderInv, CountersInv, Recoverable, Replays, Alike,
                  InMemory, Frozen
    <3>3. PlainInv'
      BY <3>1 DEF PlainInv, Plain, Reliable, Top, Logged, Recoverable, Replays
    <3> QED BY <3>2, <3>3
  <2> QED BY <2>1, <2>2
<1> QED BY <1>1, <1>2, WriteInvariant, FreshInvariant, PTL DEF Spec

\* Zero data loss, where it holds: Engine::open (engine.rs) would read every
\* acknowledged write or a newer one, for any number of keys, writes, batches,
\* segments and, up to the first recovery that moves a counter, crashes.
THEOREM AckedWritesSurvive == Spec => []AckedSurviveCrash
<1>1. WriteInv /\ FreshInv /\ InStepInv /\ PlainInv => AckedSurviveCrash
  <2> SUFFICES ASSUME WriteInv, FreshInv, InStepInv, PlainInv, Reliable,
                      numbering = "inStep" \/ Plain,
                      NEW k \in Keys, acked[k] \notin misfiled
               PROVE  GetAfterRecovery(k) >= acked[k]
    BY DEF AckedSurviveCrash, Reliable, Plain
  <2>1. CASE numbering = "inStep"
    BY <2>1, InStepRecovery
  <2>2. CASE Plain
    BY <2>2, PlainRecovery DEF WriteInv
  <2> QED BY <2>1, <2>2
<1> QED BY <1>1, WriteInvariant, FreshInvariant, RecoveryInvariant, PTL
=============================================================================
