--------------------------- MODULE Manifest_proofs ---------------------------
(***************************************************************************)
(* Proofs about Manifest for every set of nodes and every bound: types,    *)
(* pruning, the history, epochs, and that the object store with its caches *)
(* and CAS loops implements AtomicManifest.                                *)
(***************************************************************************)
EXTENDS Manifest, FiniteSetTheorems, TLAPS

-----------------------------------------------------------------------------
(* Data *)

\* The manifest ManifestManager::new starts from is well formed.
LEMMA EmptyTyped == new_empty \in Manifests
BY DEF new_empty, Manifests

\* So is the update that stands for "none in progress".
LEMMA NoUpdateTyped == NoUpdate \in Updates
BY DEF NoUpdate, Updates, NoSeq

\* The update of an epoch acquisition is well formed.
LEMMA AcquireTyped ==
    ASSUME NEW m \in Manifests, NEW what
    PROVE  AcquireUpdate(what, m) \in Updates
BY DEF AcquireUpdate, Manifests, Updates, NoSeq

\* Applying an update, and what update() writes, yields a manifest whose id is
\* the next one.
LEMMA ApplyTyped ==
    ASSUME NEW m \in Manifests, NEW u \in Updates
    PROVE  /\ apply(u, m) \in Manifests
           /\ apply(u, m).id = m.id + 1
           /\ to_write(u, m) \in Manifests
           /\ to_write(u, m).id = m.id + 1
<1> DEFINE new == apply(u, m)
<1>1. new \in Manifests /\ new.id = m.id + 1
  BY DEF apply, Manifests, Updates, NoSeq
<1>2. [new EXCEPT !.snapshot = TRUE] \in Manifests
      /\ [new EXCEPT !.snapshot = TRUE].id = m.id + 1
  <2> HIDE DEF new
  <2> QED BY <1>1 DEF Manifests
<1> QED BY <1>1, <1>2 DEF to_write

\* What a node is about to put is a well formed manifest.
LEMMA CandidateTyped ==
    ASSUME TypeOK, NEW n \in Nodes
    PROVE  Candidate(n) \in Manifests /\ Candidate(n).id = current[n].id + 1
BY ApplyTyped DEF Candidate, TypeOK

\* A created object leaves a well formed store.
LEMMA CreatedTyped ==
    ASSUME TypeOK, NEW m \in Manifests, Created(m)
    PROVE  /\ DOMAIN store' \subseteq Nat
           /\ \A i \in DOMAIN store' : store'[i] \in Manifests /\ store'[i].id = i
BY DEF TypeOK, Created, Manifests

\* Ending an operation keeps the locals well formed.
LEMMA ReturnTyped ==
    ASSUME TypeOK, NEW n \in Nodes, Return(n)
    PROVE  /\ pc' \in [Nodes -> {"idle", "list", "init", "get", "put", "delete"}]
           /\ op' \in [Nodes -> AllOperations]
           /\ upd' \in [Nodes -> Updates]
           /\ attempt' \in [Nodes -> Nat]
BY NoUpdateTyped DEF TypeOK, Return, AllOperations

\* Taking over a refreshed manifest keeps the types, for every operation.
LEMMA AfterRefreshTyped ==
    ASSUME TypeOK, NEW n \in Nodes, NEW m \in Manifests, AfterRefresh(n, m)
    PROVE  /\ current' \in [Nodes -> Manifests]
           /\ pc' \in [Nodes -> {"idle", "list", "init", "get", "put", "delete"}]
           /\ op' \in [Nodes -> AllOperations]
           /\ upd' \in [Nodes -> Updates]
           /\ attempt' \in [Nodes -> Nat]
<1>1. current' \in [Nodes -> Manifests]
  BY DEF AfterRefresh, TypeOK
<1>2. CASE Return(n)
  BY <1>1, <1>2, ReturnTyped
<1>3. CASE ~Return(n)
  BY <1>1, <1>3, AcquireTyped DEF AfterRefresh, TypeOK
<1> QED BY <1>2, <1>3

\* Starting an operation keeps the types.
LEMMA StartTyped ==
    ASSUME TypeOK, NEW n \in Nodes, NEW what \in AllOperations,
           NEW call \in {"list", "put", "delete"}, Start(n, what, call)
    PROVE  /\ pc' \in [Nodes -> {"idle", "list", "init", "get", "put", "delete"}]
           /\ op' \in [Nodes -> AllOperations]
           /\ fresh' \in Nat
BY DEF TypeOK, Start

-----------------------------------------------------------------------------
(* Type correctness *)

\* Every step of every node keeps the type invariant.
LEMMA TypeStep == TypeOK /\ [Next]_vars => TypeOK'
<1> SUFFICES ASSUME TypeOK, [Next]_vars PROVE TypeOK'
  OBVIOUS
<1> USE ConstantsAssumption
<1>1. CASE UNCHANGED vars
  BY <1>1 DEF vars, TypeOK
<1>2. ASSUME NEW n \in Nodes, Step(n) PROVE TypeOK'
  <2>1. ASSUME NEW what \in {"load", "acquireW", "acquireC"},
               BeginRefresh(n, what)
        PROVE  TypeOK'
    BY <2>1, StartTyped DEF BeginRefresh, TypeOK, AllOperations
  <2>2. ASSUME NEW u \in Updates, NEW what \in {"flush", "compact"},
               BeginUpdate(n, what, u)
        PROVE  TypeOK'
    BY <2>2, StartTyped DEF BeginUpdate, TypeOK, AllOperations
  <2>3. CASE BeginFlush(n)
    <3>1. PICK seq \in 1 .. MaxSeq :
            BeginUpdate(n, "flush",
              [trigger |-> "Flush", remove |-> {}, seq |-> seq,
               add |-> {[id |-> fresh, level |-> 0, flushes |-> {fresh}]},
               wEpoch |-> wEpoch[n], cEpoch |-> cEpoch[n]])
      BY <2>3 DEF BeginFlush
    <3>2. {[id |-> fresh, level |-> 0, flushes |-> {fresh}]} \subseteq SSTs
      BY DEF TypeOK, SSTs
    <3> DEFINE u == [trigger |-> "Flush", remove |-> {}, seq |-> seq,
                     add |-> {[id |-> fresh, level |-> 0, flushes |-> {fresh}]},
                     wEpoch |-> wEpoch[n], cEpoch |-> cEpoch[n]]
    <3>3. u \in Updates
      BY <3>2 DEF TypeOK, Updates
    <3> QED BY <3>1, <3>3, <2>2
  <2>4. CASE BeginCompact(n)
    <3>1. PICK inputs \in (SUBSET current[n].ssts) \ {{}} :
            BeginUpdate(n, "compact",
              [trigger |-> "Compaction", remove |-> inputs, seq |-> NoSeq,
               add |-> {[id |-> fresh, level |-> 1,
                         flushes |-> UNION {t.flushes : t \in inputs}]},
               wEpoch |-> wEpoch[n], cEpoch |-> cEpoch[n]])
      BY <2>4 DEF BeginCompact
    <3>2. inputs \subseteq SSTs
      BY DEF TypeOK, Manifests
    <3>3. UNION {t.flushes : t \in inputs} \subseteq Nat
      BY <3>2 DEF SSTs
    <3>4. {[id |-> fresh, level |-> 1,
            flushes |-> UNION {t.flushes : t \in inputs}]} \subseteq SSTs
      BY <3>3 DEF TypeOK, SSTs
    <3> QED BY <3>1, <3>2, <3>4, <2>2 DEF TypeOK, Updates
  <2>5. CASE ListLatest(n)
    BY <2>5, ZenonT(40) DEF ListLatest, TypeOK
  <2>6. CASE PutInitial(n)
    <3>1. CASE Created(new_empty) /\ AfterRefresh(n, new_empty) /\ UNCHANGED target
      <4>1. new_empty.id \in Nat
        BY DEF new_empty
      <4> QED BY <2>6, <3>1, <4>1, EmptyTyped, CreatedTyped, AfterRefreshTyped
              DEF PutInitial, TypeOK
    <3>2. CASE /\ UNCHANGED <<store, current, op, upd, attempt>>
               /\ target' = [target EXCEPT ![n] = 0]
               /\ pc' = [pc EXCEPT ![n] = "get"]
      BY <2>6, <3>2 DEF PutInitial, TypeOK
    <3> QED BY <2>6, <3>1, <3>2 DEF PutInitial
  <2>7. CASE GetLatest(n)
    <3>1. target' \in [Nodes -> Nat]
      BY <2>7 DEF GetLatest, TypeOK
    <3>2. CASE target[n] \in DOMAIN store
      <4>1. store[target[n]] \in Manifests /\ AfterRefresh(n, store[target[n]])
        BY <2>7, <3>2 DEF GetLatest, TypeOK
      <4> QED BY <2>7, <3>1, <4>1, AfterRefreshTyped DEF GetLatest, TypeOK
    <3>3. CASE target[n] \notin DOMAIN store
      BY <2>7, <3>1, <3>3, ReturnTyped DEF GetLatest, TypeOK
    <3> QED BY <3>2, <3>3
  <2>8. CASE PutOk(n)
    <3>1. Candidate(n) \in Manifests
      BY CandidateTyped
    <3>2. upd[n] \in Updates /\ upd[n].wEpoch \in Nat /\ upd[n].cEpoch \in Nat
          /\ \A t \in upd[n].add : t.id \in Nat
      BY DEF TypeOK, Updates, SSTs
    <3>3. current' \in [Nodes -> Manifests]
      BY <2>8, <3>1 DEF PutOk, TypeOK
    <3>4. wEpoch' \in [Nodes -> Nat] /\ cEpoch' \in [Nodes -> Nat]
      BY <2>8, <3>2 DEF PutOk, TypeOK
    <3>5. acked' \subseteq Nat
      <4>1. {t.id : t \in upd[n].add} \subseteq Nat
        BY <3>2
      <4>2. acked' = acked \/ acked' = acked \cup {t.id : t \in upd[n].add}
        BY <2>8 DEF PutOk
      <4> QED BY <4>1, <4>2 DEF TypeOK
    <3> QED BY <2>8, <3>1, <3>3, <3>4, <3>5, CreatedTyped, ReturnTyped
            DEF PutOk, TypeOK
  <2>9. CASE PutPreconditionFailed(n)
    <3>1. CASE Return(n)
      BY <2>9, <3>1, ReturnTyped DEF PutPreconditionFailed, TypeOK
    <3>2. CASE ~Return(n)
      BY <2>9, <3>2 DEF PutPreconditionFailed, TypeOK
    <3> QED BY <3>1, <3>2
  <2>10. CASE PutError(n)
    BY <2>10, CandidateTyped, CreatedTyped, ReturnTyped DEF PutError, TypeOK
  <2>11. CASE PruneList(n)
    <3>1. doomed' \in [Nodes -> SUBSET Nat]
      BY <2>11 DEF PruneList, TypeOK
    <3> QED BY <2>11, <3>1, StartTyped DEF PruneList, TypeOK, AllOperations
  <2>12. CASE PruneDelete(n)
    <3>1. CASE Return(n) /\ UNCHANGED <<store, doomed>>
      BY <2>12, <3>1, ReturnTyped DEF PruneDelete, TypeOK
    <3>2. ASSUME NEW i \in doomed[n],
                 store' = [j \in DOMAIN store \ {i} |-> store[j]],
                 doomed' = [doomed EXCEPT ![n] = @ \ {i}],
                 UNCHANGED <<pc, op, upd, attempt>>
          PROVE  TypeOK'
      BY <2>12, <3>2 DEF PruneDelete, TypeOK
    <3> QED BY <2>12, <3>1, <3>2 DEF PruneDelete
  <2>13. CASE Crash(n)
    BY <2>13, EmptyTyped, NoUpdateTyped DEF Crash, TypeOK, AllOperations
  <2>14. CASE StorageError(n)
    BY <2>14, ReturnTyped DEF StorageError, TypeOK
  <2> QED BY <1>2, <2>1, <2>3, <2>4, <2>5, <2>6, <2>7, <2>8, <2>9, <2>10,
             <2>11, <2>12, <2>13, <2>14 DEF Step
<1> QED BY <1>1, <1>2 DEF Next

\* The state of every ManifestManager, and every object it ever writes, stays
\* well formed: in particular each object is stored under its own id.
THEOREM TypeCorrect == Spec => []TypeOK
<1>1. Init => TypeOK
  BY EmptyTyped, NoUpdateTyped DEF Init, TypeOK, AllOperations
<1> QED BY <1>1, TypeStep, PTL DEF Spec

-----------------------------------------------------------------------------
(* Pruning *)

\* A conditional put overwrites nothing: no snapshot is lost by it.
LEMMA CreatedKeepsSnapshots ==
    ASSUME NEW m, Created(m), IsFiniteSet(DOMAIN store)
    PROVE  Snapshots \subseteq Snapshots' /\ IsFiniteSet(DOMAIN store')
<1>1. DOMAIN store' = DOMAIN store \cup {m.id}
      /\ \A i \in DOMAIN store : store'[i] = store[i]
  BY DEF Created
<1>2. IsFiniteSet(DOMAIN store')
  BY <1>1, FS_AddElement
<1> QED BY <1>1, <1>2 DEF Snapshots

\* What a step may do to the snapshots and to the ids that are to be deleted:
\* add to the snapshots, list what is older than a cutoff, or delete one id.
PruneStep ==
    \/ /\ Snapshots \subseteq Snapshots'
       /\ \A q \in Nodes : doomed'[q] \subseteq doomed[q]
    \/ /\ Snapshots' = Snapshots
       /\ \E n \in Nodes : \E c \in DOMAIN store :
            /\ IsCutoff(c)
            /\ \A i \in doomed'[n] : i < c
            /\ \A q \in Nodes : q # n => doomed'[q] = doomed[q]
    \/ /\ \E n \in Nodes : \E i \in doomed[n] : Snapshots' = Snapshots \ {i}
       /\ \A q \in Nodes : doomed'[q] \subseteq doomed[q]

\* Every step is of one of these kinds.
LEMMA PruneSteps ==
    ASSUME TypeOK, IsFiniteSet(DOMAIN store), [Next]_vars
    PROVE  PruneStep /\ IsFiniteSet(DOMAIN store')
<1>1. ASSUME UNCHANGED store, \A q \in Nodes : doomed'[q] \subseteq doomed[q]
      PROVE  PruneStep /\ IsFiniteSet(DOMAIN store')
  BY <1>1 DEF PruneStep, Snapshots
<1>2. ASSUME NEW n \in Nodes, Step(n)
      PROVE  PruneStep /\ IsFiniteSet(DOMAIN store')
  <2>1. CASE UNCHANGED <<store, doomed>>
    BY <1>1, <2>1
  <2>2. CASE StorageError(n) \/ Crash(n)
    BY <1>1, <2>2 DEF StorageError, Crash, TypeOK
  <2>3. CASE PutInitial(n)
    <3>1. UNCHANGED doomed /\ (Created(new_empty) \/ UNCHANGED store)
      BY <2>3 DEF PutInitial
    <3> QED BY <1>1, <3>1, CreatedKeepsSnapshots DEF PruneStep
  <2>4. CASE PutOk(n) \/ PutError(n)
    <3>1. UNCHANGED doomed /\ (Created(Candidate(n)) \/ UNCHANGED store)
      BY <2>4 DEF PutOk, PutError
    <3> QED BY <1>1, <3>1, CreatedKeepsSnapshots DEF PruneStep
  <2>5. CASE PruneList(n)
    <3>1. PICK c \in DOMAIN store :
            /\ IsCutoff(c)
            /\ doomed' = [doomed EXCEPT ![n] =
                 {i \in DOMAIN store : i < c /\ i # current[n].id}]
      BY <2>5 DEF PruneList
    <3>2. UNCHANGED store /\ Snapshots' = Snapshots
      BY <2>5 DEF PruneList, Snapshots
    <3>3. /\ \A i \in doomed'[n] : i < c
          /\ \A q \in Nodes : q # n => doomed'[q] = doomed[q]
      BY <3>1 DEF TypeOK
    <3> QED BY <3>1, <3>2, <3>3 DEF PruneStep
  <2>6. ASSUME NEW i \in doomed[n],
               store' = [j \in DOMAIN store \ {i} |-> store[j]],
               doomed' = [doomed EXCEPT ![n] = @ \ {i}]
        PROVE  PruneStep /\ IsFiniteSet(DOMAIN store')
    <3>1. Snapshots' = Snapshots \ {i}
      BY <2>6 DEF Snapshots
    <3>2. \A q \in Nodes : doomed'[q] \subseteq doomed[q]
      BY <2>6 DEF TypeOK
    <3>3. IsFiniteSet(DOMAIN store')
      BY <2>6, FS_RemoveElement
    <3> QED BY <3>1, <3>2, <3>3 DEF PruneStep
  <2> QED BY <1>2, <2>1, <2>2, <2>3, <2>4, <2>5, <2>6
          DEF Step, BeginRefresh, BeginFlush, BeginCompact, BeginUpdate,
              ListLatest, GetLatest, PutPreconditionFailed, PruneDelete
<1>3. CASE UNCHANGED vars
  BY <1>1, <1>3 DEF vars
<1> QED BY <1>2, <1>3 DEF Next

\* Listing, deleting and putting in any order keep two snapshots above all
\* that is to be deleted: a later cutoff is never below an earlier one.
LEMMA TwoAboveDoomedStep == TypeOK /\ TwoAboveDoomed /\ [Next]_vars => TwoAboveDoomed'
<1> SUFFICES ASSUME TypeOK, TwoAboveDoomed, [Next]_vars PROVE TwoAboveDoomed'
  OBVIOUS
<1>0. PruneStep /\ IsFiniteSet(DOMAIN store')
  BY PruneSteps DEF TwoAboveDoomed
<1>1. Snapshots \subseteq Nat
  BY DEF Snapshots, TypeOK
<1>2. \A q \in Nodes : doomed[q] \subseteq Nat
  BY DEF TypeOK
<1> DEFINE Witnesses == \E c, s \in Snapshots' :
                c < s /\ \A n \in Nodes : \A i \in doomed'[n] : i < c
<1>3. ASSUME NEW q \in Nodes, doomed'[q] # {} PROVE Witnesses
  <2>1. CASE /\ Snapshots \subseteq Snapshots'
             /\ \A n \in Nodes : doomed'[n] \subseteq doomed[n]
    BY <1>3, <2>1 DEF TwoAboveDoomed
  <2>2. ASSUME Snapshots' = Snapshots,
               NEW n \in Nodes, NEW c \in DOMAIN store, IsCutoff(c),
               \A i \in doomed'[n] : i < c,
               \A r \in Nodes : r # n => doomed'[r] = doomed[r]
        PROVE  Witnesses
    <3>1. PICK s \in Snapshots :
            c \in Snapshots /\ s > c /\ \A i \in Snapshots : i > c => i = s
      BY <2>2 DEF IsCutoff
    <3>2. ASSUME NEW r \in Nodes, r # n, NEW i \in doomed[r] PROVE i < c
      <4>1. PICK c0, s0 \in Snapshots : c0 < s0 /\ i < c0
        BY <3>2 DEF TwoAboveDoomed
      <4>2. i \in Nat /\ c0 \in Nat /\ s0 \in Nat /\ c \in Nat
        BY <1>1, <1>2, <3>1, <3>2
      <4>3. c0 > c => c0 = s
        BY <3>1
      <4>4. s0 > c => s0 = s
        BY <3>1
      <4> QED BY <4>1, <4>2, <4>3, <4>4
    <3>3. \A r \in Nodes : \A i \in doomed'[r] : i < c
      BY <2>2, <3>2
    <3> QED BY <1>1, <2>2, <3>1, <3>3
  <2>3. ASSUME NEW n \in Nodes, NEW i \in doomed[n],
               Snapshots' = Snapshots \ {i},
               \A r \in Nodes : doomed'[r] \subseteq doomed[r]
        PROVE  Witnesses
    <3>1. PICK c, s \in Snapshots :
            c < s /\ \A r \in Nodes : \A j \in doomed[r] : j < c
      BY <2>3 DEF TwoAboveDoomed
    <3>2. c # i /\ s # i
      BY <1>1, <1>2, <3>1
    <3> QED BY <2>3, <3>1, <3>2
  <2> QED BY <1>0, <2>1, <2>2, <2>3 DEF PruneStep
<1> QED BY <1>0, <1>3 DEF TwoAboveDoomed

\* Pruning on any number of nodes, each with the listing it took, interleaved
\* with commits that create more snapshots, and interrupted anywhere, always
\* leaves two snapshots to roll back to once there are two.
THEOREM SnapshotsRetained == Spec => TwoSnapshotsRetained
<1>1. Init => TwoAboveDoomed
  <2> SUFFICES ASSUME Init PROVE TwoAboveDoomed
    OBVIOUS
  <2>1. DOMAIN store = {} /\ \A n \in Nodes : doomed[n] = {}
    BY DEF Init
  <2> QED BY <2>1, FS_EmptySet DEF TwoAboveDoomed
<1>2. ASSUME TypeOK, TwoAboveDoomed, [Next]_vars, Cardinality(Snapshots) >= 2
      PROVE  Cardinality(Snapshots') >= 2
  <2>0. PruneStep /\ IsFiniteSet(DOMAIN store')
    BY <1>2, PruneSteps DEF TwoAboveDoomed
  <2>1. IsFiniteSet(Snapshots) /\ IsFiniteSet(Snapshots')
    BY <1>2, <2>0, FS_Subset DEF TwoAboveDoomed, Snapshots
  <2>2. CASE Snapshots \subseteq Snapshots'
    <3>1. Cardinality(Snapshots) <= Cardinality(Snapshots')
      BY <2>1, <2>2, FS_Subset
    <3>2. Cardinality(Snapshots) \in Nat /\ Cardinality(Snapshots') \in Nat
      BY <2>1, FS_CardinalityType
    <3> QED BY <1>2, <3>1, <3>2
  <2>3. ASSUME NEW n \in Nodes, NEW i \in doomed[n], Snapshots' = Snapshots \ {i}
        PROVE  Cardinality(Snapshots') >= 2
    <3>1. PICK c, s \in Snapshots :
            c < s /\ \A r \in Nodes : \A j \in doomed[r] : j < c
      BY <1>2, <2>3 DEF TwoAboveDoomed
    <3>2. c \in Nat /\ s \in Nat /\ i \in Nat
      BY <1>2, <2>3 DEF Snapshots, TypeOK
    <3>3. c # s /\ {c, s} \subseteq Snapshots'
      BY <2>3, <3>1, <3>2
    <3>4. Cardinality({c, s}) = 2
      <4>1. IsFiniteSet({c}) /\ Cardinality({c}) = 1
        BY FS_Singleton
      <4>2. Cardinality({c} \cup {s}) = Cardinality({c}) + 1
        BY <3>3, <4>1, FS_AddElement
      <4>3. {c, s} = {c} \cup {s}
        OBVIOUS
      <4> QED BY <4>1, <4>2, <4>3
    <3>5. Cardinality({c, s}) <= Cardinality(Snapshots')
      BY <2>1, <3>3, FS_Subset
    <3>6. Cardinality(Snapshots') \in Nat
      BY <2>1, FS_CardinalityType
    <3> QED BY <3>4, <3>5, <3>6
  <2> QED BY <2>0, <2>2, <2>3 DEF PruneStep
<1>3. TypeOK /\ TwoAboveDoomed /\ [Next]_vars =>
        [Cardinality(Snapshots) >= 2 => Cardinality(Snapshots') >= 2]_vars
  BY <1>2
<1> QED BY <1>1, <1>3, TwoAboveDoomedStep, TypeCorrect, PTL
        DEF Spec, TwoSnapshotsRetained

-----------------------------------------------------------------------------
(* The latest version, with pruning *)

\* The manifest put next never has a lower last_flushed_sequence.
LEMMA CandidateMonotone ==
    ASSUME TypeOK, PutIsApplicable, NEW n \in Nodes, pc[n] = "put"
    PROVE  /\ Candidate(n).lastFlushed >= current[n].lastFlushed
           /\ Candidate(n).wEpoch = upd[n].wEpoch
<1> DEFINE m == current[n]
           u == upd[n]
<1>1. m \in Manifests /\ u \in Updates /\ apply_ok(u, m)
  BY DEF TypeOK, PutIsApplicable
<1>2. apply(u, m).lastFlushed >= m.lastFlushed /\ apply(u, m).wEpoch = u.wEpoch
  BY <1>1 DEF apply, apply_ok, Manifests, Updates, NoSeq
<1>3. to_write(u, m).lastFlushed = apply(u, m).lastFlushed
      /\ to_write(u, m).wEpoch = apply(u, m).wEpoch
  BY DEF to_write, apply
<1> QED BY <1>2, <1>3 DEF Candidate

\* What is about to be put stays applicable to what it was read from.
LEMMA ApplicableStep == TypeOK /\ PutIsApplicable /\ [Next]_vars => PutIsApplicable'
<1> SUFFICES ASSUME TypeOK, PutIsApplicable, [Next]_vars,
                    NEW q \in Nodes, pc'[q] = "put"
             PROVE  apply_ok(upd'[q], current'[q])
  BY DEF PutIsApplicable, apply_ok
<1>1. CASE pc[q] = "put" /\ upd'[q] = upd[q] /\ current'[q] = current[q]
  BY <1>1 DEF PutIsApplicable
<1>2. CASE UNCHANGED vars
  BY <1>1, <1>2 DEF vars
<1>3. ASSUME NEW n \in Nodes, Step(n), q # n
      PROVE  pc[q] = "put" /\ upd'[q] = upd[q] /\ current'[q] = current[q]
  BY <1>3, ZenonT(40) DEF TypeOK, Step, BeginRefresh, BeginFlush, BeginCompact,
         BeginUpdate, Start, ListLatest, GetLatest, PutInitial, AfterRefresh,
         PutOk, PutPreconditionFailed, PutError, StorageError, PruneList,
         PruneDelete, Crash, Return
<1>4. ASSUME Step(q) PROVE apply_ok(upd'[q], current'[q])
  <2>1. ASSUME NEW what, NEW u, BeginUpdate(q, what, u)
        PROVE  apply_ok(upd'[q], current'[q])
    BY <2>1 DEF BeginUpdate, validate_update, TypeOK
  <2>2. CASE BeginFlush(q) \/ BeginCompact(q)
    BY <2>1, <2>2 DEF BeginFlush, BeginCompact
  <2>3. ASSUME NEW m, AfterRefresh(q, m) PROVE apply_ok(upd'[q], current'[q])
    <3>1. current'[q] = m
      BY <2>3 DEF AfterRefresh, TypeOK
    <3>2. \/ upd'[q] = AcquireUpdate(op[q], m)
          \/ upd'[q] = upd[q] /\ apply_ok(upd[q], m)
      BY <2>3 DEF AfterRefresh, Return, TypeOK
    <3>3. apply_ok(AcquireUpdate(op[q], m), m)
      BY DEF apply_ok, AcquireUpdate
    <3> QED BY <3>1, <3>2, <3>3
  <2>4. CASE PutInitial(q) \/ GetLatest(q)
    BY <2>3, <2>4 DEF PutInitial, GetLatest, Return, TypeOK
  <2>5. CASE /\ ~BeginFlush(q) /\ ~BeginCompact(q)
             /\ ~PutInitial(q) /\ ~GetLatest(q)
    <3>1. pc'[q] # "put"
      BY <1>4, <2>5
         DEF TypeOK, Step, BeginRefresh, Start, ListLatest, PutOk,
             PutPreconditionFailed, PutError, StorageError, PruneList,
             PruneDelete, Crash, Return
    <3> QED BY <3>1
  <2> QED BY <2>2, <2>4, <2>5
<1> QED BY <1>1, <1>2, <1>3, <1>4 DEF Next

\* What a step of node n may do to the versions: nothing, while n caches one
\* of them or restarts; create the first one; create the one n has built; or
\* delete one that pruning has listed.
VersionStep(n) ==
    /\ \A q \in Nodes : q # n => /\ current'[q] = current[q]
                                 /\ pc'[q] = pc[q] /\ wEpoch'[q] = wEpoch[q]
    /\ \/ /\ UNCHANGED store
          /\ \/ /\ current'[n] = current[n]
                /\ pc'[n] = "put" \/ wEpoch'[n] > 0 =>
                      pc[n] = "put" \/ wEpoch[n] > 0
             \/ current'[n] = new_empty /\ pc'[n] # "put" /\ ~(wEpoch'[n] > 0)
             \/ \E i \in DOMAIN store : current'[n] = store[i]
       \/ Created(new_empty) /\ current'[n] = new_empty
       \/ /\ pc[n] = "put" /\ Created(Candidate(n))
          /\ current'[n] = current[n] \/ current'[n] = Candidate(n)
       \/ \E i \in doomed[n] :
            /\ store' = [j \in DOMAIN store \ {i} |-> store[j]]
            /\ current'[n] = current[n]

\* Every step of a node is of one of these kinds.
LEMMA VersionSteps ==
    ASSUME TypeOK, NEW n \in Nodes, Step(n)
    PROVE  VersionStep(n)
<1>1. \A q \in Nodes : q # n => /\ current'[q] = current[q]
                                /\ pc'[q] = pc[q] /\ wEpoch'[q] = wEpoch[q]
  BY ZenonT(40) DEF TypeOK, Step, BeginRefresh, BeginFlush, BeginCompact,
         BeginUpdate, Start, ListLatest, GetLatest, PutInitial, AfterRefresh,
         PutOk, PutPreconditionFailed, PutError, StorageError, PruneList,
         PruneDelete, Crash, Return
<1>2. CASE \/ \E what \in {"load", "acquireW", "acquireC"} : BeginRefresh(n, what)
           \/ ListLatest(n) \/ PutPreconditionFailed(n) \/ StorageError(n)
           \/ PruneList(n)
  <2>1. UNCHANGED <<store, current, wEpoch>> /\ pc'[n] # "put"
    BY <1>2 DEF TypeOK, BeginRefresh, Start, ListLatest, PruneList,
                PutPreconditionFailed, StorageError, Return
  <2> QED BY <1>1, <2>1 DEF VersionStep
<1>3. CASE BeginFlush(n) \/ BeginCompact(n)
  <2>1. UNCHANGED <<store, current, wEpoch>> /\ wEpoch[n] > 0
    BY <1>3 DEF BeginFlush, BeginCompact, BeginUpdate, Opened
  <2> QED BY <1>1, <2>1 DEF VersionStep
<1>4. CASE PutInitial(n)
  <2>1. CASE Created(new_empty) /\ AfterRefresh(n, new_empty)
    <3>1. current'[n] = new_empty
      BY <2>1 DEF AfterRefresh, TypeOK
    <3> QED BY <1>1, <2>1, <3>1 DEF VersionStep
  <2>2. CASE UNCHANGED <<store, current>> /\ pc' = [pc EXCEPT ![n] = "get"]
    <3>1. pc'[n] # "put" /\ UNCHANGED wEpoch
      BY <1>4, <2>2 DEF PutInitial, TypeOK
    <3> QED BY <1>1, <2>2, <3>1 DEF VersionStep
  <2> QED BY <1>4, <2>1, <2>2 DEF PutInitial
<1>5. CASE GetLatest(n)
  <2>1. UNCHANGED <<store, wEpoch>>
    BY <1>5 DEF GetLatest
  <2>2. CASE target[n] \in DOMAIN store
    <3>1. current'[n] = store[target[n]]
      BY <1>5, <2>2 DEF GetLatest, AfterRefresh, TypeOK
    <3> QED BY <1>1, <2>1, <2>2, <3>1 DEF VersionStep
  <2>3. CASE target[n] \notin DOMAIN store
    <3>1. UNCHANGED current /\ pc'[n] = "idle"
      BY <1>5, <2>3 DEF GetLatest, Return, TypeOK
    <3> QED BY <1>1, <2>1, <3>1 DEF VersionStep
  <2> QED BY <2>2, <2>3
<1>6. CASE PutOk(n)
  <2>1. pc[n] = "put" /\ Created(Candidate(n)) /\ current'[n] = Candidate(n)
    BY <1>6 DEF PutOk, TypeOK
  <2> QED BY <1>1, <2>1 DEF VersionStep
<1>7. CASE PutError(n)
  <2>1. /\ pc[n] = "put" /\ UNCHANGED <<current, wEpoch>>
        /\ Created(Candidate(n)) \/ UNCHANGED store
    BY <1>7 DEF PutError
  <2> QED BY <1>1, <2>1 DEF VersionStep
<1>8. CASE PruneDelete(n)
  <2>1. UNCHANGED <<current, wEpoch>> /\ pc'[n] # "put"
    BY <1>8 DEF PruneDelete, Return, TypeOK
  <2>2. \/ UNCHANGED store
        \/ \E i \in doomed[n] : store' = [j \in DOMAIN store \ {i} |-> store[j]]
    BY <1>8 DEF PruneDelete
  <2> QED BY <1>1, <2>1, <2>2 DEF VersionStep
<1>9. CASE Crash(n)
  <2>1. /\ UNCHANGED store /\ current'[n] = new_empty
        /\ pc'[n] # "put" /\ ~(wEpoch'[n] > 0)
    BY <1>9 DEF Crash, TypeOK
  <2> QED BY <1>1, <2>1 DEF VersionStep
<1> QED BY <1>2, <1>3, <1>4, <1>5, <1>6, <1>7, <1>8, <1>9 DEF Step

\* The latest version is never to be deleted.
LEMMA LatestNotDoomed ==
    ASSUME TypeOK, TwoAboveDoomed, NEW h \in DOMAIN store, IsLatest(h),
           NEW n \in Nodes
    PROVE  h \notin doomed[n]
<1> SUFFICES ASSUME h \in doomed[n] PROVE FALSE
  OBVIOUS
<1>1. PICK c, s \in Snapshots :
        c < s /\ \A q \in Nodes : \A i \in doomed[q] : i < c
  BY DEF TwoAboveDoomed
<1>2. h < c /\ c < s /\ s <= h /\ h \in Nat /\ c \in Nat /\ s \in Nat
  BY <1>1 DEF IsLatest, Snapshots, TypeOK
<1> QED BY <1>2

\* Where the latest version is after a step: a created version is the latest
\* only if it follows the one that was; otherwise nothing changes at the top.
LEMMA LatestStep ==
    ASSUME TypeOK, TwoAboveDoomed, LatestKnown, NEW h \in DOMAIN store,
           IsLatest(h), NEW n \in Nodes, VersionStep(n)
    PROVE  \/ h \in DOMAIN store' /\ IsLatest(h)' /\ store'[h] = store[h]
           \/ /\ pc[n] = "put" /\ Created(Candidate(n))
              /\ current[n] = store[h]
              /\ Candidate(n).id = h + 1 /\ h + 1 \in DOMAIN store'
              /\ IsLatest(h + 1)' /\ store'[h + 1] = Candidate(n)
<1>1. h \in Nat /\ DOMAIN store \subseteq Nat /\ \A i \in DOMAIN store : i <= h
  BY DEF IsLatest, TypeOK
<1>2. CASE UNCHANGED store
  BY <1>2 DEF IsLatest
<1>3. CASE Created(new_empty)
  BY <1>1, <1>3 DEF Created, new_empty, IsLatest
<1>4. CASE \E i \in doomed[n] : store' = [j \in DOMAIN store \ {i} |-> store[j]]
  BY <1>4, LatestNotDoomed DEF IsLatest
<1>5. CASE pc[n] = "put" /\ Created(Candidate(n))
  <2> DEFINE m == Candidate(n)
  <2>1. m.id = current[n].id + 1 /\ current[n].id \in Nat
    BY CandidateTyped DEF TypeOK, Manifests
  <2>2. current[n].id <= h /\ (current[n].id = h => current[n] = store[h])
    BY DEF LatestKnown
  <2>3. /\ DOMAIN store' = DOMAIN store \cup {m.id} /\ store'[m.id] = m
        /\ m.id \notin DOMAIN store
        /\ \A i \in DOMAIN store : store'[i] = store[i]
    BY <1>5 DEF Created
  <2> HIDE DEF m
  <2>4. CASE m.id <= h
    BY <1>1, <2>3, <2>4 DEF IsLatest
  <2>5. CASE m.id = h + 1
    <3>1. current[n] = store[h]
      BY <1>1, <2>1, <2>2, <2>5
    <3>2. \A i \in DOMAIN store' : i <= h + 1
      BY <1>1, <2>3, <2>5
    <3> QED BY <1>5, <2>3, <2>5, <3>1, <3>2 DEF IsLatest, m
  <2> QED BY <1>1, <2>1, <2>2, <2>4, <2>5
<1> QED BY <1>2, <1>3, <1>4, <1>5 DEF VersionStep

\* There is one latest version.
LEMMA LatestUniqueNext ==
    ASSUME TypeOK', NEW g \in DOMAIN store', NEW h \in DOMAIN store',
           IsLatest(g)', IsLatest(h)'
    PROVE  g = h
<1>1. g \in Nat /\ h \in Nat /\ g <= h /\ h <= g
  BY DEF IsLatest, TypeOK
<1> QED BY <1>1

\* Every step keeps the caches at or below the latest version.
LEMMA LatestKnownStep ==
    TypeOK /\ TwoAboveDoomed /\ LatestKnown /\ [Next]_vars => LatestKnown'
<1> SUFFICES ASSUME TypeOK, TwoAboveDoomed, LatestKnown, [Next]_vars
             PROVE  LatestKnown'
  OBVIOUS
<1>0. TypeOK' /\ new_empty.id = 0
  BY TypeStep DEF new_empty
<1>1. CASE UNCHANGED vars
  BY <1>1 DEF vars, LatestKnown, IsLatest, Opened
<1>2. ASSUME NEW n \in Nodes, Step(n) PROVE LatestKnown'
  <2>1. VersionStep(n)
    BY <1>2, VersionSteps
  <2>2. 0 \in DOMAIN store' => store'[0] = new_empty
    <3>1. Candidate(n).id # 0
      BY CandidateTyped DEF TypeOK, Manifests
    <3> QED BY <2>1, <3>1 DEF VersionStep, Created, LatestKnown, new_empty
  \* Before the first version.
  <2>3. CASE DOMAIN store = {}
    <3>1. \A q \in Nodes : pc[q] # "put" /\ ~(wEpoch[q] > 0)
                           /\ current[q] = new_empty
      BY <2>3 DEF LatestKnown, Opened
    <3>2. doomed[n] = {}
      BY <2>3 DEF TwoAboveDoomed, Snapshots
    <3>3. \A q \in Nodes : current'[q] = new_empty
      BY <2>1, <2>3, <3>1 DEF VersionStep
    <3>4. CASE UNCHANGED store
      <4>1. \A q \in Nodes : pc'[q] # "put" /\ ~(wEpoch'[q] > 0)
        BY <2>1, <2>3, <3>1, <3>2, <3>4 DEF VersionStep, Created
      <4>2. DOMAIN store' = {}
        BY <2>3, <3>4
      <4> QED BY <3>3, <4>1, <4>2 DEF LatestKnown, Opened
    <3>5. CASE Created(new_empty)
      <4>1. DOMAIN store' = {0}
        BY <2>3, <3>5 DEF Created, new_empty
      <4>2. IsLatest(0)'
        BY <4>1 DEF IsLatest
      <4> QED BY <1>0, <2>2, <3>3, <4>1, <4>2 DEF LatestKnown
    <3> QED BY <2>1, <3>1, <3>4, <3>5, <3>2 DEF VersionStep
  <2>4. CASE DOMAIN store # {}
    <3>1. PICK h \in DOMAIN store : IsLatest(h)
      BY <2>4 DEF LatestKnown
    <3>2. /\ h \in Nat
          /\ \A q \in Nodes : /\ current[q].id \in Nat
                              /\ current[q].id <= h
                              /\ current[q].id = h => current[q] = store[h]
          /\ \A i \in DOMAIN store : store[i].id = i /\ i <= h /\ i \in Nat
      BY <3>1 DEF LatestKnown, TypeOK, Manifests, IsLatest
    \* What n may have cached.
    <3>3. /\ \A q \in Nodes : q # n => current'[q] = current[q]
          /\ \/ current'[n] = current[n] \/ current'[n] = new_empty
             \/ \E i \in DOMAIN store : current'[n] = store[i]
             \/ current'[n] = Candidate(n) /\ Created(Candidate(n))
      BY <2>1 DEF VersionStep
    <3>4. CASE h \in DOMAIN store' /\ IsLatest(h)' /\ store'[h] = store[h]
      <4>1. ASSUME NEW q \in Nodes
            PROVE  current'[q].id <= h /\ (current'[q].id = h => current'[q] = store'[h])
        <5>1. CASE current'[q] = current[q]
          BY <3>2, <3>4, <5>1
        <5>2. CASE current'[q] = new_empty
          BY <1>0, <2>2, <3>2, <3>4, <5>2
        <5>3. CASE \E i \in DOMAIN store : current'[q] = store[i]
          BY <3>2, <3>4, <5>3
        <5>4. CASE current'[q] = Candidate(n) /\ Created(Candidate(n))
          <6>1. Candidate(n).id \in DOMAIN store' /\ Candidate(n).id # h
                /\ Candidate(n).id \in Nat
            BY <5>4, CandidateTyped DEF Created, Manifests
          <6>2. Candidate(n).id <= h
            BY <3>4, <6>1 DEF IsLatest
          <6> QED BY <5>4, <6>1, <6>2
        <5> QED BY <3>3, <5>1, <5>2, <5>3, <5>4
      <4>2. \A g \in DOMAIN store' : IsLatest(g)' => g = h
        BY <1>0, <3>4, LatestUniqueNext
      <4> QED BY <2>2, <3>4, <4>1, <4>2 DEF LatestKnown
    <3>5. CASE /\ Created(Candidate(n))
               /\ Candidate(n).id = h + 1 /\ h + 1 \in DOMAIN store'
               /\ IsLatest(h + 1)' /\ store'[h + 1] = Candidate(n)
      <4>1. ASSUME NEW q \in Nodes
            PROVE  current'[q].id <= h + 1
                   /\ (current'[q].id = h + 1 => current'[q] = store'[h + 1])
        <5>1. CASE current'[q] = Candidate(n)
          BY <3>2, <3>5, <5>1
        <5>2. CASE \/ current'[q] = current[q] \/ current'[q] = new_empty
                   \/ \E i \in DOMAIN store : current'[q] = store[i]
          <6>1. current'[q].id \in Nat /\ current'[q].id <= h
            BY <1>0, <3>2, <5>2
          <6> QED BY <3>2, <6>1
        <5> QED BY <3>3, <5>1, <5>2
      <4>2. \A g \in DOMAIN store' : IsLatest(g)' => g = h + 1
        BY <1>0, <3>5, LatestUniqueNext
      <4> QED BY <2>2, <3>5, <4>1, <4>2 DEF LatestKnown
    <3> QED BY <2>1, <3>1, <3>4, <3>5, LatestStep
  <2> QED BY <2>3, <2>4
<1> QED BY <1>1, <1>2 DEF Next

\* What is known of the latest version holds throughout.
LEMMA LatestHolds == Spec => [](TwoAboveDoomed /\ LatestKnown /\ PutIsApplicable)
<1>1. Init => TwoAboveDoomed /\ LatestKnown /\ PutIsApplicable
  <2> SUFFICES ASSUME Init PROVE TwoAboveDoomed /\ LatestKnown /\ PutIsApplicable
    OBVIOUS
  <2>1. DOMAIN store = {} /\ \A n \in Nodes : doomed[n] = {}
    BY DEF Init
  <2>2. \A n \in Nodes : /\ pc[n] = "idle" /\ current[n] = new_empty
                         /\ wEpoch[n] = 0
    BY DEF Init
  <2> QED BY <2>1, <2>2, FS_EmptySet
          DEF TwoAboveDoomed, LatestKnown, PutIsApplicable, Opened
<1> QED BY <1>1, TypeCorrect, TwoAboveDoomedStep, LatestKnownStep,
           ApplicableStep, PTL DEF Spec

\* LatestNeverRegresses for every number of nodes and operations, pruning
\* included: commits and retries of any number of writers and compactors, lost
\* put responses, crashes, and pruning on any number of nodes never bring back
\* an older version or a lower last_flushed_sequence.
THEOREM VersionsMonotone == Spec => LatestNeverRegresses
<1>2. ASSUME TypeOK, TwoAboveDoomed, LatestKnown, PutIsApplicable, [Next]_vars,
             NEW h \in DOMAIN store, NEW g \in DOMAIN store',
             IsLatest(h), IsLatest(g)'
      PROVE  h <= g /\ store[h].lastFlushed <= store'[g].lastFlushed
  <2>0. TypeOK'
    BY <1>2, TypeStep
  <2>1. h \in Nat /\ store[h].lastFlushed \in Nat
    BY <1>2 DEF TypeOK, Manifests
  <2>2. CASE h \in DOMAIN store' /\ IsLatest(h)' /\ store'[h] = store[h]
    <3>1. g = h
      BY <1>2, <2>0, <2>2, LatestUniqueNext
    <3> QED BY <2>1, <2>2, <3>1
  <2>3. CASE UNCHANGED vars
    BY <1>2, <2>2, <2>3 DEF vars, IsLatest
  <2>4. ASSUME NEW n \in Nodes, pc[n] = "put", current[n] = store[h],
               h + 1 \in DOMAIN store', IsLatest(h + 1)',
               store'[h + 1] = Candidate(n)
        PROVE  h <= g /\ store[h].lastFlushed <= store'[g].lastFlushed
    <3>1. g = h + 1
      BY <1>2, <2>0, <2>4, LatestUniqueNext
    <3>2. Candidate(n).lastFlushed >= store[h].lastFlushed
      BY <1>2, <2>4, CandidateMonotone
    <3>3. Candidate(n).lastFlushed \in Nat
      BY <1>2, CandidateTyped DEF Manifests
    <3> QED BY <2>1, <2>4, <3>1, <3>2, <3>3
  <2>5. ASSUME NEW n \in Nodes, Step(n)
        PROVE  h <= g /\ store[h].lastFlushed <= store'[g].lastFlushed
    <3>1. VersionStep(n)
      BY <1>2, <2>5, VersionSteps
    <3> QED BY <1>2, <2>2, <2>4, <3>1, LatestStep
  <2> QED BY <1>2, <2>3, <2>5 DEF Next
<1>3. TypeOK /\ TwoAboveDoomed /\ LatestKnown /\ PutIsApplicable /\ [Next]_vars =>
        [\A h \in DOMAIN store, g \in DOMAIN store' :
            IsLatest(h) /\ IsLatest(g)' =>
              /\ h <= g
              /\ store[h].lastFlushed <= store'[g].lastFlushed]_vars
  BY <1>2
<1> QED BY <1>3, TypeCorrect, LatestHolds, PTL DEF Spec, LatestNeverRegresses

-----------------------------------------------------------------------------
(* The history without pruning *)

\* The workload is chosen once and for all.
LEMMA OpsFixed == [Next]_vars => UNCHANGED ops
BY DEF Next, vars, Step, BeginRefresh, BeginFlush, BeginCompact, BeginUpdate,
       ListLatest, GetLatest, PutInitial, PutOk, PutPreconditionFailed,
       PutError, StorageError, PruneList, PruneDelete, Crash

\* A successful conditional put extends the history at its end: with no gaps,
\* a free slot right after the cached version means nothing follows it.
LEMMA CreatedAtEnd ==
    ASSUME TypeOK, HistoryInv, NEW n \in Nodes, pc[n] = "put",
           Created(Candidate(n))
    PROVE  /\ current[n].id \in Nat
           /\ current[n].id \in DOMAIN store
           /\ store[current[n].id] = current[n]
           /\ DOMAIN store = 0 .. current[n].id
           /\ DOMAIN store' = 0 .. (current[n].id + 1)
           /\ \A i \in 0 .. current[n].id : store'[i] = store[i]
           /\ store'[current[n].id + 1] = Candidate(n)
<1> DEFINE c == current[n].id
<1>1. c \in Nat /\ c \in DOMAIN store /\ store[c] = current[n]
  BY DEF HistoryInv, CachedIsStored, TypeOK, Manifests
<1>2. Candidate(n).id = c + 1
  BY CandidateTyped
<1>3. c + 1 \notin DOMAIN store
  BY <1>2 DEF Created
<1>4. DOMAIN store \subseteq 0 .. c
  <2> SUFFICES ASSUME NEW i \in DOMAIN store, i > c PROVE FALSE
    BY <1>1 DEF TypeOK
  <2>1. c + 1 \in 0 .. i
    BY <1>1 DEF TypeOK
  <2> QED BY <2>1, <1>3 DEF HistoryInv, NoGaps
<1>5. 0 .. c \subseteq DOMAIN store
  BY <1>1 DEF HistoryInv, NoGaps
<1>6. store' = [i \in DOMAIN store \cup {c + 1} |->
                  IF i = c + 1 THEN Candidate(n) ELSE store[i]]
  BY <1>2 DEF Created
<1>7. DOMAIN store = 0 .. c
  BY <1>4, <1>5
<1>8. (0 .. c) \cup {c + 1} = 0 .. (c + 1)
  BY <1>1
<1> QED BY <1>1, <1>6, <1>7, <1>8

\* The cached manifests stay versions of a history that is extended at its end.
LEMMA CreatedHistory ==
    ASSUME TypeOK, HistoryInv, NEW n \in Nodes, pc[n] = "put",
           Created(Candidate(n)), Return(n),
           \/ UNCHANGED <<current, wEpoch>>
           \/ /\ current' = [current EXCEPT ![n] = Candidate(n)]
              /\ \A q \in Nodes : q # n => wEpoch'[q] = wEpoch[q]
    PROVE  HistoryInv'
<1> DEFINE c == current[n].id
<1>1. /\ c \in Nat /\ DOMAIN store = 0 .. c /\ DOMAIN store' = 0 .. (c + 1)
      /\ \A i \in 0 .. c : store'[i] = store[i]
      /\ store'[c + 1] = Candidate(n)
      /\ Candidate(n).id = c + 1
  BY CreatedAtEnd, CandidateTyped
<1>2. pc' = [pc EXCEPT ![n] = "idle"] /\ upd' = [upd EXCEPT ![n] = NoUpdate]
  BY DEF Return
<1>3. NoGaps'
  <2>1. 0 \in DOMAIN store /\ store'[0] = store[0]
    BY <1>1
  <2> QED BY <1>1, <1>2, <2>1 DEF NoGaps, HistoryInv, TypeOK
<1>4. CachedIsStored'
  <2> SUFFICES ASSUME NEW q \in Nodes
               PROVE  /\ current'[q] = new_empty \/ current'[q].id \in DOMAIN store'
                      /\ current'[q].id \in DOMAIN store'
                            => store'[current'[q].id] = current'[q]
                      /\ pc'[q] = "put" \/ wEpoch'[q] > 0
                            => current'[q].id \in DOMAIN store'
    BY DEF CachedIsStored, Opened
  <2>1. CASE current'[q] = Candidate(n)
    BY <1>1, <2>1
  <2>2. CASE current'[q] = current[q] /\ wEpoch'[q] = wEpoch[q]
    <3>1. pc'[q] = "put" => pc[q] = "put"
      BY <1>2 DEF TypeOK
    <3>2. /\ current[q] = new_empty \/ current[q].id \in DOMAIN store
          /\ current[q].id \in DOMAIN store => store[current[q].id] = current[q]
          /\ pc[q] = "put" \/ wEpoch[q] > 0 => current[q].id \in DOMAIN store
      BY DEF HistoryInv, CachedIsStored, Opened
    <3>3. new_empty.id = 0 /\ 0 \in DOMAIN store
      BY <1>1 DEF new_empty
    <3> QED BY <1>1, <2>2, <3>1, <3>2, <3>3
  <2> QED BY <2>1, <2>2 DEF TypeOK
<1>5. PutIsApplicable'
  <2> SUFFICES ASSUME NEW q \in Nodes, pc'[q] = "put"
               PROVE  apply_ok(upd'[q], current'[q])
    BY DEF PutIsApplicable, apply_ok
  <2>1. q # n /\ pc[q] = "put" /\ upd'[q] = upd[q] /\ current'[q] = current[q]
    BY <1>2 DEF TypeOK
  <2> QED BY <2>1 DEF HistoryInv, PutIsApplicable
<1> QED BY <1>3, <1>4, <1>5 DEF HistoryInv

\* A refresh caches a version of the history, and what it goes on to put is
\* applicable to that version.
LEMMA RefreshedHistory ==
    ASSUME TypeOK, HistoryInv, NEW n \in Nodes, NEW i \in DOMAIN store',
           AfterRefresh(n, store'[i]), UNCHANGED wEpoch, NoGaps',
           store'[i] \in Manifests, store'[i].id = i,
           DOMAIN store \subseteq DOMAIN store',
           \A j \in DOMAIN store : store'[j] = store[j],
           \A j \in DOMAIN store' : j \in DOMAIN store \/ store'[j] = new_empty,
           \A j \in DOMAIN store' : j \in DOMAIN store \/ j = 0
    PROVE  HistoryInv'
<1> DEFINE m == store'[i]
<1>1. current' = [current EXCEPT ![n] = m]
  BY DEF AfterRefresh
<1>2. \A q \in Nodes : q # n => /\ pc'[q] = pc[q]
                                /\ upd'[q] = upd[q]
                                /\ current'[q] = current[q]
  BY <1>1 DEF AfterRefresh, Return, TypeOK
<1>3. current'[n] = m
  BY <1>1 DEF TypeOK
<1>4. CachedIsStored'
  <2> SUFFICES ASSUME NEW q \in Nodes
               PROVE  /\ current'[q] = new_empty \/ current'[q].id \in DOMAIN store'
                      /\ current'[q].id \in DOMAIN store'
                            => store'[current'[q].id] = current'[q]
                      /\ pc'[q] = "put" \/ wEpoch'[q] > 0
                            => current'[q].id \in DOMAIN store'
    BY DEF CachedIsStored, Opened
  <2>1. CASE q = n
    BY <1>3, <2>1
  <2>2. CASE q # n
    <3>1. /\ current[q] = new_empty \/ current[q].id \in DOMAIN store
          /\ current[q].id \in DOMAIN store => store[current[q].id] = current[q]
          /\ pc[q] = "put" \/ wEpoch[q] > 0 => current[q].id \in DOMAIN store
      BY DEF HistoryInv, CachedIsStored, Opened
    <3> QED BY <1>2, <2>2, <3>1
  <2> QED BY <2>1, <2>2
<1>5. PutIsApplicable'
  <2> SUFFICES ASSUME NEW q \in Nodes, pc'[q] = "put"
               PROVE  apply_ok(upd'[q], current'[q])
    BY DEF PutIsApplicable, apply_ok
  <2>1. CASE q # n
    BY <1>2, <2>1 DEF HistoryInv, PutIsApplicable
  <2>2. CASE q = n
    <3>1. \/ upd'[n] = AcquireUpdate(op[n], m)
          \/ upd'[n] = upd[n] /\ apply_ok(upd[n], m)
      BY <2>2 DEF AfterRefresh, Return, TypeOK
    <3>2. apply_ok(AcquireUpdate(op[n], m), m)
      BY DEF apply_ok, AcquireUpdate
    <3> QED BY <1>3, <2>2, <3>1, <3>2
  <2> QED BY <2>1, <2>2
<1> QED BY <1>4, <1>5 DEF HistoryInv

\* Steps that leave the store and the cached manifests alone.
LEMMA QuietHistory ==
    ASSUME TypeOK, HistoryInv, UNCHANGED <<store, current, wEpoch>>,
           \A q \in Nodes : /\ pc'[q] # "delete"
                            /\ pc'[q] = "put" =>
                                 /\ current[q].id \in DOMAIN store
                                 /\ apply_ok(upd'[q], current[q])
    PROVE  HistoryInv'
<1>1. NoGaps'
  BY DEF HistoryInv, NoGaps
<1>2. CachedIsStored'
  BY DEF HistoryInv, CachedIsStored, Opened
<1>3. PutIsApplicable'
  BY DEF PutIsApplicable, apply_ok
<1> QED BY <1>1, <1>2, <1>3 DEF HistoryInv

\* Every step keeps the history free of gaps and the caches consistent with it.
LEMMA HistoryStep ==
    ASSUME "prune" \notin ops
    PROVE  TypeOK /\ HistoryInv /\ [Next]_vars => HistoryInv'
<1> SUFFICES ASSUME TypeOK, HistoryInv, [Next]_vars PROVE HistoryInv'
  OBVIOUS
<1>1. CASE UNCHANGED vars
  <2>1. UNCHANGED <<store, current, wEpoch, pc, upd>>
    BY <1>1 DEF vars
  <2>2. NoGaps'
    BY <2>1 DEF HistoryInv, NoGaps
  <2>3. CachedIsStored'
    BY <2>1 DEF HistoryInv, CachedIsStored, Opened
  <2>4. PutIsApplicable'
    BY <2>1 DEF HistoryInv, PutIsApplicable, apply_ok
  <2> QED BY <2>2, <2>3, <2>4 DEF HistoryInv
<1>2. ASSUME NEW n \in Nodes, Step(n) PROVE HistoryInv'
  <2>0. \A q \in Nodes : /\ pc[q] # "delete"
                         /\ pc[q] = "put" => /\ current[q].id \in DOMAIN store
                                             /\ apply_ok(upd[q], current[q])
    BY DEF HistoryInv, NoGaps, CachedIsStored, PutIsApplicable
  <2>1. ASSUME NEW what, BeginRefresh(n, what) PROVE HistoryInv'
    <3>1. \A q \in Nodes : pc'[q] = pc[q] \/ pc'[q] = "list"
      BY <2>1 DEF BeginRefresh, Start, TypeOK
    <3> QED BY <2>0, <2>1, <3>1, QuietHistory DEF BeginRefresh
  <2>2. ASSUME NEW what, NEW u, BeginUpdate(n, what, u), Opened(n)
        PROVE  HistoryInv'
    <3>1. apply_ok(u, current[n]) /\ current[n].id \in DOMAIN store
      BY <2>2 DEF BeginUpdate, validate_update, HistoryInv, CachedIsStored
    <3>2. upd'[n] = u /\ \A q \in Nodes : q # n => /\ pc'[q] = pc[q]
                                                  /\ upd'[q] = upd[q]
      BY <2>2 DEF BeginUpdate, Start, TypeOK
    <3>3. pc'[n] = "put"
      BY <2>2 DEF BeginUpdate, Start, TypeOK
    <3>4. \A q \in Nodes : /\ pc'[q] # "delete"
                           /\ pc'[q] = "put" =>
                                /\ current[q].id \in DOMAIN store
                                /\ apply_ok(upd'[q], current[q])
      BY <2>0, <3>1, <3>2, <3>3
    <3> QED BY <2>2, <3>4, QuietHistory DEF BeginUpdate
  <2>3. CASE BeginFlush(n)
    BY <2>2, <2>3 DEF BeginFlush
  <2>4. CASE BeginCompact(n)
    BY <2>2, <2>4 DEF BeginCompact
  <2>5. CASE ListLatest(n)
    <3>1. \A q \in Nodes : pc'[q] = pc[q] \/ pc'[q] \in {"init", "get"}
      BY <2>5 DEF ListLatest, TypeOK
    <3> QED BY <2>0, <2>5, <3>1, QuietHistory DEF ListLatest
  <2>6. CASE PutInitial(n)
    <3>1. CASE Created(new_empty) /\ AfterRefresh(n, new_empty)
      <4>1. /\ DOMAIN store' = DOMAIN store \cup {0}
            /\ \A j \in DOMAIN store : store'[j] = store[j]
            /\ store'[0] = new_empty
        BY <3>1 DEF Created, new_empty
      <4>2. store'[0] \in Manifests /\ store'[0].id = 0
        BY <4>1, EmptyTyped DEF new_empty
      <4>3. UNCHANGED wEpoch
        BY <2>6 DEF PutInitial
      <4>4. \A q \in Nodes : pc'[q] # "delete"
        BY <2>0, <3>1 DEF AfterRefresh, Return, TypeOK
      <4>5. \A i \in DOMAIN store' : 0 .. i \subseteq DOMAIN store'
        BY <4>1 DEF HistoryInv, NoGaps, TypeOK
      <4>6. NoGaps'
        BY <4>1, <4>4, <4>5 DEF NoGaps
      <4>7. \A j \in DOMAIN store' :
              j \in DOMAIN store \/ (j = 0 /\ store'[j] = new_empty)
        BY <4>1
      <4> QED BY <3>1, <4>1, <4>2, <4>3, <4>6, <4>7, RefreshedHistory
    <3>2. CASE /\ UNCHANGED <<store, current, upd>>
               /\ pc' = [pc EXCEPT ![n] = "get"]
      <4>1. /\ UNCHANGED wEpoch
            /\ \A q \in Nodes : pc'[q] = pc[q] \/ pc'[q] = "get"
        BY <2>6, <3>2 DEF PutInitial, TypeOK
      <4> QED BY <2>0, <3>2, <4>1, QuietHistory
    <3> QED BY <2>6, <3>1, <3>2 DEF PutInitial
  <2>7. CASE GetLatest(n)
    <3>1. CASE target[n] \in DOMAIN store
      <4>1. AfterRefresh(n, store'[target[n]]) /\ UNCHANGED <<store, wEpoch>>
        BY <2>7, <3>1 DEF GetLatest
      <4>2. \A q \in Nodes : pc'[q] # "delete"
        BY <2>0, <4>1 DEF AfterRefresh, Return, TypeOK
      <4>3. NoGaps'
        BY <4>1, <4>2 DEF HistoryInv, NoGaps
      <4>4. store'[target[n]] \in Manifests /\ store'[target[n]].id = target[n]
        BY <3>1, <4>1 DEF TypeOK
      <4> QED BY <3>1, <4>1, <4>3, <4>4, RefreshedHistory
    <3>2. CASE target[n] \notin DOMAIN store
      <4>1. /\ UNCHANGED <<store, current, wEpoch>>
            /\ \A q \in Nodes : \/ pc'[q] = "idle"
                                \/ pc'[q] = pc[q] /\ upd'[q] = upd[q]
        BY <2>7, <3>2 DEF GetLatest, Return, TypeOK
      <4> QED BY <2>0, <4>1, QuietHistory
    <3> QED BY <3>1, <3>2
  <2>8. CASE PutOk(n)
    <3>1. \A q \in Nodes : q # n => wEpoch'[q] = wEpoch[q]
      BY <2>8 DEF PutOk, TypeOK
    <3> QED BY <2>8, <3>1, CreatedHistory DEF PutOk
  <2>9. CASE PutPreconditionFailed(n)
    <3>1. /\ UNCHANGED <<store, current, wEpoch>>
          /\ \A q \in Nodes : \/ pc'[q] \in {"idle", "list"}
                              \/ pc'[q] = pc[q] /\ upd'[q] = upd[q]
      BY <2>9 DEF PutPreconditionFailed, Return, TypeOK
    <3> QED BY <2>0, <3>1, QuietHistory
  <2>10. CASE PutError(n)
    <3>1. CASE Created(Candidate(n))
      BY <2>10, <3>1, CreatedHistory DEF PutError
    <3>2. CASE UNCHANGED store
      <4>1. /\ UNCHANGED <<store, current, wEpoch>>
            /\ \A q \in Nodes : \/ pc'[q] = "idle"
                                \/ pc'[q] = pc[q] /\ upd'[q] = upd[q]
        BY <2>10, <3>2 DEF PutError, Return, TypeOK
      <4> QED BY <2>0, <4>1, QuietHistory
    <3> QED BY <2>10, <3>1, <3>2 DEF PutError
  <2>11. CASE Crash(n)
    <3>1. /\ UNCHANGED store
          /\ pc'[n] = "idle" /\ current'[n] = new_empty /\ wEpoch'[n] = 0
          /\ \A q \in Nodes : q # n => /\ pc'[q] = pc[q] /\ upd'[q] = upd[q]
                                       /\ current'[q] = current[q]
                                       /\ wEpoch'[q] = wEpoch[q]
      BY <2>11 DEF Crash, TypeOK
    <3>2. NoGaps'
      BY <2>0, <3>1 DEF HistoryInv, NoGaps
    <3>3. CachedIsStored'
      <4>1. new_empty.id = 0
        BY DEF new_empty
      <4> QED BY <3>1, <4>1 DEF HistoryInv, CachedIsStored, NoGaps, Opened
    <3>4. PutIsApplicable'
      BY <3>1 DEF HistoryInv, PutIsApplicable, apply_ok
    <3> QED BY <3>2, <3>3, <3>4 DEF HistoryInv
  <2>12. ~PruneList(n) /\ ~PruneDelete(n)
    BY <2>0 DEF PruneList, PruneDelete
  <2>13. CASE StorageError(n)
    <3>1. /\ UNCHANGED <<store, current, wEpoch>>
          /\ \A q \in Nodes : \/ pc'[q] = "idle"
                              \/ pc'[q] = pc[q] /\ upd'[q] = upd[q]
      BY <2>13 DEF StorageError, Return, TypeOK
    <3> QED BY <2>0, <3>1, QuietHistory
  <2> QED BY <1>2, <2>1, <2>3, <2>4, <2>5, <2>6, <2>7, <2>8, <2>9, <2>10,
             <2>11, <2>12, <2>13 DEF Step
<1> QED BY <1>1, <1>2 DEF Next

\* The history invariant holds of the empty store.
LEMMA HistoryInit == Init => HistoryInv
BY DEF Init, HistoryInv, NoGaps, CachedIsStored, PutIsApplicable, Opened

\* Without pruning the store only changes by gaining a version at its end.
LEMMA StoreStep ==
    ASSUME "prune" \notin ops, TypeOK, HistoryInv, [Next]_vars
    PROVE  \/ UNCHANGED store
           \/ 0 \notin DOMAIN store
           \/ \E n \in Nodes : pc[n] = "put" /\ Created(Candidate(n))
<1>1. CASE UNCHANGED vars
  BY <1>1 DEF vars
<1>2. ASSUME NEW n \in Nodes, Step(n),
             ~(pc[n] = "put" /\ Created(Candidate(n))), 0 \in DOMAIN store
      PROVE  UNCHANGED store
  <2>1. ~PruneDelete(n)
    BY DEF HistoryInv, NoGaps, PruneDelete
  <2>2. PutInitial(n) => UNCHANGED store
    BY <1>2 DEF PutInitial, Created, new_empty
  <2>3. ~PutOk(n) /\ (PutError(n) => UNCHANGED store)
    BY <1>2 DEF PutOk, PutError
  <2> QED BY <1>2, <2>1, <2>2, <2>3
          DEF Step, BeginRefresh, BeginFlush, BeginCompact, BeginUpdate,
              ListLatest, GetLatest, PutPreconditionFailed, StorageError,
              PruneList, Crash
<1> QED BY <1>1, <1>2 DEF Next

-----------------------------------------------------------------------------
(* What a put writes *)

\* UpdateAsBuilt for one node.
AsBuilt(n) ==
    /\ pc[n] = "idle" => op[n] = "load"
    /\ pc[n] = "put" => Commits(n) \/ op[n] \in {"acquireW", "acquireC"}
    /\ pc[n] = "put" /\ ~Commits(n) =>
          upd[n] = AcquireUpdate(op[n], current[n])
    /\ pc[n] = "put" /\ op[n] = "flush" => check_writer_epoch(n, current[n])
    /\ op[n] = "flush" =>
          /\ upd[n].trigger = "Flush" /\ upd[n].wEpoch = wEpoch[n]
          /\ upd[n].remove = {}
          /\ \E t \in upd[n].add :
               upd[n].add = {t} /\ t.flushes = {t.id}
    /\ op[n] = "compact" =>
          /\ upd[n].remove # {} /\ upd[n].seq = NoSeq
          /\ \E t \in upd[n].add :
               /\ upd[n].add = {t} /\ t.level = 1
               /\ t.flushes = UNION {u.flushes : u \in upd[n].remove}

\* UpdateAsBuilt is the conjunction of its per-node instances.
LEMMA AsBuiltSplit == UpdateAsBuilt <=> \A n \in Nodes : AsBuilt(n)
BY DEF UpdateAsBuilt, AsBuilt

\* The tables and epochs of the manifest a node is about to put.
LEMMA CandidateContents ==
    ASSUME TypeOK, NEW n \in Nodes
    PROVE  /\ Candidate(n).ssts =
                (current[n].ssts \ upd[n].remove) \cup upd[n].add
           /\ Candidate(n).wEpoch = upd[n].wEpoch
           /\ Candidate(n).cEpoch = upd[n].cEpoch
           /\ upd[n].seq = NoSeq =>
                Candidate(n).lastFlushed = current[n].lastFlushed
<1> DEFINE m == current[n]
           u == upd[n]
<1>1. /\ apply(u, m).ssts = (m.ssts \ u.remove) \cup u.add
      /\ apply(u, m).wEpoch = u.wEpoch
      /\ apply(u, m).cEpoch = u.cEpoch
      /\ u.seq = NoSeq => apply(u, m).lastFlushed = m.lastFlushed
  BY DEF apply
<1>2. /\ to_write(u, m).ssts = apply(u, m).ssts
      /\ to_write(u, m).wEpoch = apply(u, m).wEpoch
      /\ to_write(u, m).cEpoch = apply(u, m).cEpoch
      /\ to_write(u, m).lastFlushed = apply(u, m).lastFlushed
  BY DEF to_write, apply
<1> QED BY <1>1, <1>2 DEF Candidate

\* What the tables a put removes and adds are: a flush adds one table of an
\* unused flush, a compaction replaces some of the tables it read by one that
\* holds their flushes, an acquisition touches none.
LEMMA PutShapes ==
    ASSUME TypeOK, PutIsApplicable, UpdateAsBuilt, NEW n \in Nodes, pc[n] = "put"
    PROVE  /\ upd[n].remove \subseteq current[n].ssts
           /\ \/ /\ op[n] = "flush" /\ upd[n].remove = {}
                 /\ \E t \in upd[n].add :
                      upd[n].add = {t} /\ t.flushes = {t.id}
              \/ /\ op[n] = "compact" /\ upd[n].remove # {}
                 /\ upd[n].seq = NoSeq
                 /\ \E t \in upd[n].add :
                      /\ upd[n].add = {t} /\ t.level = 1
                      /\ t.flushes = UNION {u.flushes : u \in upd[n].remove}
              \/ /\ op[n] \in {"acquireW", "acquireC"}
                 /\ upd[n] = AcquireUpdate(op[n], current[n])
                 /\ upd[n].remove = {} /\ upd[n].add = {}
                 /\ upd[n].seq = NoSeq
<1>1. AsBuilt(n)
  BY AsBuiltSplit
<1>2. apply_ok(upd[n], current[n])
  BY DEF PutIsApplicable
<1> QED BY <1>1, <1>2 DEF AsBuilt, Commits, apply_ok, AcquireUpdate

-----------------------------------------------------------------------------
(* What is about to be put *)

\* A node that returned or restarted has nothing to commit.
LEMMA IdleAsBuilt ==
    ASSUME NEW n \in Nodes, pc'[n] = "idle", op'[n] = "load"
    PROVE  AsBuilt(n)' /\ ~Commits(n)'
BY DEF AsBuilt, Commits

\* A step of node n leaves the other nodes' updates as they were built.
LEMMA OthersAsBuilt ==
    ASSUME UpdateAsBuilt, NEW n \in Nodes, AsBuilt(n)',
           \A q \in Nodes : q # n =>
              /\ pc'[q] = pc[q] /\ op'[q] = op[q] /\ upd'[q] = upd[q]
              /\ current'[q] = current[q] /\ wEpoch'[q] = wEpoch[q]
    PROVE  UpdateAsBuilt'
<1>1. \A q \in Nodes : AsBuilt(q)
  BY AsBuiltSplit
<1>2. ASSUME NEW q \in Nodes, q # n PROVE AsBuilt(q)'
  BY <1>1, <1>2 DEF AsBuilt, Commits, check_writer_epoch
<1>3. \A q \in Nodes : AsBuilt(q)'
  BY <1>2
<1> QED BY <1>3 DEF UpdateAsBuilt, AsBuilt, check_writer_epoch

\* What a step of node n does to the pending updates: n has none left, or
\* keeps its own and creates no version, or has just built one whose tables
\* are numbered by fresh.
PendingStep(n) ==
    /\ \A q \in Nodes : q # n =>
          pc'[q] = pc[q] /\ op'[q] = op[q] /\ upd'[q] = upd[q]
    /\ fresh' \in {fresh, fresh + 1}
    /\ AsBuilt(n)'
    /\ \/ ~Commits(n)'
       \/ /\ ~(pc[n] = "put" /\ Created(Candidate(n)))
          /\ \/ Commits(n) /\ upd'[n] = upd[n]
             \/ fresh' = fresh + 1 /\ \A u \in upd'[n].add : u.id = fresh

\* A refresh ends the operation, builds an acquisition or goes on with the
\* update it had, once that is validated again.
LEMMA RefreshPending ==
    ASSUME TypeOK, NEW n \in Nodes, AsBuilt(n), NEW m, AfterRefresh(n, m),
           UNCHANGED <<wEpoch, fresh>>, pc[n] # "put"
    PROVE  PendingStep(n)
<1>1. \A q \in Nodes : q # n =>
            pc'[q] = pc[q] /\ op'[q] = op[q] /\ upd'[q] = upd[q]
  BY DEF AfterRefresh, Return, TypeOK
<1>2. current'[n] = m
  BY DEF AfterRefresh, TypeOK
<1>3. CASE Return(n)
  <2>1. pc'[n] = "idle" /\ op'[n] = "load"
    BY <1>3 DEF Return, TypeOK
  <2> QED BY <1>1, <2>1, IdleAsBuilt DEF PendingStep
<1>4. CASE /\ op[n] \in {"acquireW", "acquireC"} /\ pc'[n] = "put"
           /\ upd'[n] = AcquireUpdate(op[n], m)
           /\ op' = op
  <2>1. AsBuilt(n)' /\ ~Commits(n)'
    BY <1>2, <1>4 DEF AsBuilt, Commits
  <2> QED BY <1>1, <2>1 DEF PendingStep
<1>5. CASE /\ Commits(n) /\ op' = op /\ upd' = upd /\ pc'[n] = "put"
           /\ validate_epoch(n, upd[n], m)
  <2>1. op[n] = "flush" => check_writer_epoch(n, m)
    BY <1>5 DEF validate_epoch, AsBuilt
  <2>2. AsBuilt(n)'
    BY <1>2, <1>5, <2>1 DEF AsBuilt, Commits, check_writer_epoch
  <2> QED BY <1>1, <1>5, <2>2 DEF PendingStep
<1> QED BY <1>3, <1>4, <1>5 DEF AfterRefresh, TypeOK, Commits

\* The operation ends or starts over without an update.
LEMMA EndPending ==
    ASSUME TypeOK, NEW n \in Nodes, fresh' \in {fresh, fresh + 1},
           \A q \in Nodes : q # n =>
              pc'[q] = pc[q] /\ op'[q] = op[q] /\ upd'[q] = upd[q],
           \/ pc'[n] = "idle" /\ op'[n] = "load"
           \/ /\ pc'[n] \notin {"idle", "put"}
              /\ op'[n] \in {"load", "acquireW", "acquireC", "prune"}
    PROVE  PendingStep(n)
BY DEF PendingStep, AsBuilt, Commits

\* The operation goes on with its next storage call.
LEMMA KeepPending ==
    ASSUME TypeOK, NEW n \in Nodes, AsBuilt(n), pc'[n] \notin {"idle", "put"},
           \A q \in Nodes : q # n => pc'[q] = pc[q],
           UNCHANGED <<op, upd, fresh, wEpoch>>,
           ~(pc[n] = "put" /\ Created(Candidate(n)))
    PROVE  PendingStep(n)
<1>1. AsBuilt(n)'
  BY DEF AsBuilt
<1>2. ~Commits(n)' \/ Commits(n)
  BY DEF Commits
<1> QED BY <1>1, <1>2 DEF PendingStep

\* update() has been called: the update is built as its caller builds it.
LEMMA BeginPending ==
    ASSUME TypeOK, NEW n \in Nodes, NEW what \in {"flush", "compact"}, NEW u,
           BeginUpdate(n, what, u), \A t \in u.add : t.id = fresh,
           what = "flush" =>
             /\ u.trigger = "Flush" /\ u.wEpoch = wEpoch[n]
             /\ u.remove = {}
             /\ \E t \in u.add : u.add = {t} /\ t.flushes = {t.id},
           what = "compact" =>
             /\ u.remove # {} /\ u.seq = NoSeq
             /\ \E t \in u.add :
                  /\ u.add = {t} /\ t.level = 1
                  /\ t.flushes = UNION {v.flushes : v \in u.remove}
    PROVE  PendingStep(n)
<1>1. /\ pc[n] = "idle" /\ pc'[n] = "put" /\ op'[n] = what /\ upd'[n] = u
      /\ UNCHANGED <<current, wEpoch>> /\ fresh' = fresh + 1
      /\ \A q \in Nodes : q # n =>
           pc'[q] = pc[q] /\ op'[q] = op[q] /\ upd'[q] = upd[q]
  BY DEF BeginUpdate, Start, Idle, TypeOK
<1>2. what = "flush" => check_writer_epoch(n, current[n])
  BY DEF BeginUpdate, validate_epoch
<1>3. AsBuilt(n)'
  BY <1>1, <1>2 DEF AsBuilt, Commits, check_writer_epoch
<1> QED BY <1>1, <1>3 DEF PendingStep

\* Every step of a node is of one of these kinds.
LEMMA PendingSteps ==
    ASSUME TypeOK, NEW n \in Nodes, AsBuilt(n), Step(n)
    PROVE  PendingStep(n)
<1>1. ASSUME Return(n), fresh' = fresh PROVE PendingStep(n)
  <2>1. /\ pc'[n] = "idle" /\ op'[n] = "load"
        /\ \A q \in Nodes : q # n =>
             pc'[q] = pc[q] /\ op'[q] = op[q] /\ upd'[q] = upd[q]
    BY <1>1 DEF Return, TypeOK
  <2> QED BY <1>1, <2>1, EndPending
<1>2. CASE \/ \E what \in {"load", "acquireW", "acquireC"} : BeginRefresh(n, what)
           \/ PruneList(n)
  <2>1. /\ pc'[n] \in {"list", "delete"} /\ fresh' = fresh + 1
        /\ op'[n] \in {"load", "acquireW", "acquireC", "prune"}
        /\ \A q \in Nodes : q # n =>
             pc'[q] = pc[q] /\ op'[q] = op[q] /\ upd'[q] = upd[q]
    BY <1>2 DEF BeginRefresh, PruneList, Start, TypeOK
  <2> QED BY <2>1, EndPending
<1>3. CASE BeginFlush(n)
  <2>1. PICK seq \in 1 .. MaxSeq :
          BeginUpdate(n, "flush",
            [trigger |-> "Flush", remove |-> {}, seq |-> seq,
             add |-> {[id |-> fresh, level |-> 0, flushes |-> {fresh}]},
             wEpoch |-> wEpoch[n], cEpoch |-> cEpoch[n]])
    BY <1>3 DEF BeginFlush
  <2> DEFINE t == [id |-> fresh, level |-> 0, flushes |-> {fresh}]
             u == [trigger |-> "Flush", remove |-> {}, seq |-> seq,
                   add |-> {t}, wEpoch |-> wEpoch[n], cEpoch |-> cEpoch[n]]
  <2>2. /\ BeginUpdate(n, "flush", u)
        /\ u.trigger = "Flush" /\ u.wEpoch = wEpoch[n]
        /\ u.remove = {} /\ u.add = {t} /\ t.id = fresh /\ t.flushes = {t.id}
    BY <2>1
  <2> HIDE DEF t, u
  <2> QED BY <2>2, BeginPending
<1>4. CASE BeginCompact(n)
  <2>1. PICK inputs \in (SUBSET current[n].ssts) \ {{}} :
          BeginUpdate(n, "compact",
            [trigger |-> "Compaction", remove |-> inputs, seq |-> NoSeq,
             add |-> {[id |-> fresh, level |-> 1,
                       flushes |-> UNION {t.flushes : t \in inputs}]},
             wEpoch |-> wEpoch[n], cEpoch |-> cEpoch[n]])
    BY <1>4 DEF BeginCompact
  <2> DEFINE t == [id |-> fresh, level |-> 1,
                   flushes |-> UNION {v.flushes : v \in inputs}]
             u == [trigger |-> "Compaction", remove |-> inputs, seq |-> NoSeq,
                   add |-> {t}, wEpoch |-> wEpoch[n], cEpoch |-> cEpoch[n]]
  <2>2. /\ BeginUpdate(n, "compact", u)
        /\ u.remove # {} /\ u.seq = NoSeq /\ u.add = {t} /\ t.id = fresh
        /\ t.level = 1 /\ t.flushes = UNION {v.flushes : v \in u.remove}
    BY <2>1
  <2> HIDE DEF t, u
  <2> QED BY <2>2, BeginPending
<1>5. CASE ListLatest(n)
  <2>1. /\ pc'[n] \in {"init", "get"} /\ pc[n] # "put"
        /\ UNCHANGED <<op, upd, fresh, wEpoch>>
        /\ \A q \in Nodes : q # n => pc'[q] = pc[q]
    BY <1>5 DEF ListLatest, TypeOK
  <2> QED BY <2>1, KeepPending
<1>6. CASE PutInitial(n)
  <2>0. UNCHANGED <<wEpoch, fresh>> /\ pc[n] # "put"
    BY <1>6 DEF PutInitial
  <2>1. CASE AfterRefresh(n, new_empty)
    BY <2>0, <2>1, RefreshPending
  <2>2. CASE pc' = [pc EXCEPT ![n] = "get"] /\ UNCHANGED <<op, upd>>
    <3>1. pc'[n] = "get" /\ \A q \in Nodes : q # n => pc'[q] = pc[q]
      BY <2>2 DEF TypeOK
    <3> QED BY <2>0, <2>2, <3>1, KeepPending
  <2> QED BY <1>6, <2>1, <2>2 DEF PutInitial
<1>7. CASE GetLatest(n)
  <2>1. UNCHANGED <<wEpoch, fresh>> /\ pc[n] # "put"
    BY <1>7 DEF GetLatest
  <2> QED BY <1>1, <1>7, <2>1, RefreshPending DEF GetLatest
<1>8. CASE PutOk(n)
  BY <1>1, <1>8 DEF PutOk
<1>9. CASE PutPreconditionFailed(n)
  <2>1. ~Created(Candidate(n)) /\ UNCHANGED <<wEpoch, fresh>>
    BY <1>9 DEF PutPreconditionFailed, Created
  <2>2. CASE Return(n)
    BY <1>1, <2>1, <2>2
  <2>3. CASE pc' = [pc EXCEPT ![n] = "list"] /\ UNCHANGED <<op, upd>>
    <3>1. pc'[n] = "list" /\ \A q \in Nodes : q # n => pc'[q] = pc[q]
      BY <2>3 DEF TypeOK
    <3> QED BY <2>1, <2>3, <3>1, KeepPending
  <2> QED BY <1>9, <2>2, <2>3 DEF PutPreconditionFailed
<1>10. CASE PutError(n) \/ StorageError(n)
  BY <1>1, <1>10 DEF PutError, StorageError
<1>11. CASE PruneDelete(n)
  <2>1. UNCHANGED <<fresh, wEpoch>> /\ pc[n] = "delete"
    BY <1>11 DEF PruneDelete
  <2>2. CASE UNCHANGED <<pc, op, upd>>
    BY <2>1, <2>2, KeepPending
  <2> QED BY <1>1, <1>11, <2>1, <2>2 DEF PruneDelete
<1>12. CASE Crash(n)
  <2>1. /\ pc'[n] = "idle" /\ op'[n] = "load" /\ fresh' = fresh + 1
        /\ \A q \in Nodes : q # n =>
             pc'[q] = pc[q] /\ op'[q] = op[q] /\ upd'[q] = upd[q]
    BY <1>12 DEF Crash, TypeOK
  <2> QED BY <2>1, EndPending
<1> QED BY <1>2, <1>3, <1>4, <1>5, <1>6, <1>7, <1>8, <1>9, <1>10, <1>11, <1>12
        DEF Step

\* Every step keeps the pending updates as they were built.
LEMMA AsBuiltStep == TypeOK /\ UpdateAsBuilt /\ [Next]_vars => UpdateAsBuilt'
<1> SUFFICES ASSUME TypeOK, UpdateAsBuilt, [Next]_vars PROVE UpdateAsBuilt'
  OBVIOUS
<1>1. CASE UNCHANGED vars
  BY <1>1 DEF vars, UpdateAsBuilt, Commits, check_writer_epoch
<1>2. ASSUME NEW n \in Nodes, Step(n) PROVE UpdateAsBuilt'
  <2>1. PendingStep(n)
    BY <1>2, AsBuiltSplit, PendingSteps
  <2>2. VersionStep(n)
    BY <1>2, VersionSteps
  <2> QED BY <2>1, <2>2, OthersAsBuilt DEF PendingStep, VersionStep
<1> QED BY <1>1, <1>2 DEF Next

\* A version after a step was one before, is empty, or is the one just created.
LEMMA VersionsNext ==
    ASSUME NEW n \in Nodes, VersionStep(n), NEW v \in Versions'
    PROVE  \/ v \in Versions \/ v = new_empty
           \/ pc[n] = "put" /\ Created(Candidate(n)) /\ v = Candidate(n)
<1>1. ASSUME NEW q \in Nodes, v = current'[q]
      PROVE  \/ v \in Versions \/ v = new_empty
             \/ pc[n] = "put" /\ Created(Candidate(n)) /\ v = Candidate(n)
  BY <1>1 DEF VersionStep, Versions
<1>2. ASSUME NEW i \in DOMAIN store', v = store'[i]
      PROVE  \/ v \in Versions \/ v = new_empty
             \/ pc[n] = "put" /\ Created(Candidate(n)) /\ v = Candidate(n)
  BY <1>2 DEF VersionStep, Versions, Created
<1> QED BY <1>1, <1>2 DEF Versions

\* The tables of a version just created are those of the cached one it was
\* built from or just added, and so are its flushes.
LEMMA CandidateFlushes ==
    ASSUME TypeOK, PutIsApplicable, UpdateAsBuilt, NEW n \in Nodes,
           pc[n] = "put", NEW t \in Candidate(n).ssts
    PROVE  \/ t \in current[n].ssts
           \/ /\ t \in upd[n].add /\ Commits(n)
              /\ \A f \in t.flushes :
                   f = t.id \/ \E u \in current[n].ssts : f \in u.flushes
<1>1. t \in current[n].ssts \/ t \in upd[n].add
  BY CandidateContents
<1>2. CASE t \in upd[n].add
  <2>1. \A f \in t.flushes :
            f = t.id \/ \E u \in current[n].ssts : f \in u.flushes
    BY <1>2, PutShapes
  <2>2. Commits(n)
    BY <1>2, PutShapes DEF Commits
  <2> QED BY <1>2, <2>1, <2>2
<1> QED BY <1>1, <1>2

\* Every step keeps the pending tables new.
LEMMA PendingAreNewStep ==
    TypeOK /\ PutIsApplicable /\ UpdateAsBuilt /\ PendingAreNew /\ [Next]_vars
      => PendingAreNew'
<1> SUFFICES ASSUME TypeOK, PutIsApplicable, UpdateAsBuilt, PendingAreNew,
                    [Next]_vars
             PROVE  PendingAreNew'
  OBVIOUS
<1>1. CASE UNCHANGED vars
  BY <1>1 DEF vars, PendingAreNew, Commits, Versions
<1>2. ASSUME NEW n \in Nodes, Step(n) PROVE PendingAreNew'
  <2>1. VersionStep(n) /\ PendingStep(n)
    BY <1>2, VersionSteps, PendingSteps, AsBuiltSplit
  <2>2. /\ fresh \in Nat /\ fresh' \in {fresh, fresh + 1}
        /\ \A v \in Versions : \A t \in v.ssts :
              t.id \in Nat /\ t.flushes \subseteq Nat
        /\ \A q \in Nodes : \A u \in upd[q].add : u.id \in Nat
    BY <2>1 DEF PendingStep, Versions, TypeOK, Manifests, SSTs, Updates
  <2>3. \A q \in Nodes : current[q] \in Versions
    BY DEF Versions
  \* Versions have ids below fresh.
  <2>4. ASSUME NEW v \in Versions', NEW t \in v.ssts
        PROVE  t.id < fresh' /\ \A f \in t.flushes : f < fresh'
    <3>1. CASE v \in Versions
      BY <2>2, <2>4, <3>1 DEF PendingAreNew
    <3>2. CASE v = new_empty
      BY <2>4, <3>2 DEF new_empty
    <3>3. CASE pc[n] = "put" /\ v = Candidate(n)
      <4>1. \/ t \in current[n].ssts
            \/ /\ t \in upd[n].add /\ Commits(n)
               /\ \A f \in t.flushes :
                    f = t.id \/ \E u \in current[n].ssts : f \in u.flushes
        BY <2>4, <3>3, CandidateFlushes
      <4>2. t.id < fresh /\ \A f \in t.flushes : f < fresh
        BY <2>3, <4>1 DEF PendingAreNew
      <4>3. t.id \in Nat /\ t.flushes \subseteq Nat
        BY <2>2, <2>3, <4>1
      <4> QED BY <2>2, <4>2, <4>3
    <3> QED BY <2>1, <3>1, <3>2, <3>3, VersionsNext
  \* The pending tables: those of before, or of n and numbered by fresh.
  <2>5. ASSUME NEW q \in Nodes, Commits(q)', NEW u \in upd'[q].add
        PROVE  \/ /\ Commits(q) /\ u \in upd[q].add /\ u.id < fresh
                  /\ q = n => ~(pc[n] = "put" /\ Created(Candidate(n)))
               \/ /\ q = n /\ u.id = fresh /\ fresh' = fresh + 1
                  /\ ~(pc[n] = "put" /\ Created(Candidate(n)))
    <3>1. CASE q # n
      BY <2>1, <2>5, <3>1 DEF PendingStep, Commits, PendingAreNew
    <3>2. CASE q = n
      BY <2>1, <2>5, <3>2 DEF PendingStep, PendingAreNew
    <3> QED BY <3>1, <3>2
  <2>6. ASSUME NEW q \in Nodes, Commits(q)', NEW u \in upd'[q].add,
               NEW v \in Versions', NEW t \in v.ssts
        PROVE  t.id # u.id /\ u.id \notin t.flushes
    <3>1. CASE v \in Versions
      <4>1. CASE Commits(q) /\ u \in upd[q].add
        BY <2>6, <3>1, <4>1 DEF PendingAreNew
      <4>2. CASE u.id = fresh
        BY <2>2, <2>6, <3>1, <4>2 DEF PendingAreNew
      <4> QED BY <2>5, <2>6, <4>1, <4>2
    <3>2. CASE v = new_empty
      BY <2>6, <3>2 DEF new_empty
    <3>3. CASE pc[n] = "put" /\ Created(Candidate(n)) /\ v = Candidate(n)
      <4>1. q # n /\ Commits(q) /\ u \in upd[q].add
        BY <2>5, <2>6, <3>3
      <4>2. \A w \in current[n].ssts : w.id # u.id /\ u.id \notin w.flushes
        BY <2>3, <4>1 DEF PendingAreNew
      <4>3. Commits(n) => \A w \in upd[n].add : w.id # u.id
        BY <4>1 DEF PendingAreNew
      <4>4. \/ t \in current[n].ssts
            \/ /\ t \in upd[n].add /\ Commits(n)
               /\ \A f \in t.flushes :
                    f = t.id \/ \E w \in current[n].ssts : f \in w.flushes
        BY <2>6, <3>3, CandidateFlushes
      <4> QED BY <4>2, <4>3, <4>4
    <3> QED BY <2>1, <3>1, <3>2, <3>3, VersionsNext
  <2>7. ASSUME NEW q \in Nodes, Commits(q)', NEW u \in upd'[q].add,
               NEW m \in Nodes, Commits(m)', m # q, NEW v \in upd'[m].add
        PROVE  v.id # u.id
    <3>1. \/ Commits(q) /\ u \in upd[q].add /\ u.id < fresh
          \/ q = n /\ u.id = fresh
      BY <2>5, <2>7
    <3>2. \/ Commits(m) /\ v \in upd[m].add /\ v.id < fresh
          \/ m = n /\ v.id = fresh
      BY <2>5, <2>7
    <3> QED BY <2>2, <2>7, <3>1, <3>2 DEF PendingAreNew
  <2>8. \A q \in Nodes : Commits(q)' => \A u \in upd'[q].add : u.id < fresh'
    BY <2>2, <2>5
  <2> QED BY <2>4, <2>6, <2>7, <2>8 DEF PendingAreNew
<1> QED BY <1>1, <1>2 DEF Next

\* Nothing is pending at first.
LEMMA PendingInit == Init => UpdateAsBuilt /\ PendingAreNew
BY DEF Init, UpdateAsBuilt, PendingAreNew, Versions, Commits, new_empty

\* The pending updates stay as built and their tables new.
LEMMA PendingHolds == Spec => [](UpdateAsBuilt /\ PendingAreNew)
BY PendingInit, AsBuiltStep, PendingAreNewStep, TypeCorrect, LatestHolds, PTL
   DEF Spec

-----------------------------------------------------------------------------
(* Acknowledged flushes, without pruning *)

\* The created version has distinct ids and no flush twice.
LEMMA CreatedExclusive ==
    ASSUME TypeOK, HistoryInv, UpdateAsBuilt, PendingAreNew,
           VersionsExclusive, NEW n \in Nodes, pc[n] = "put",
           Created(Candidate(n))
    PROVE  VersionsExclusive'
<1> DEFINE c == current[n].id
           old == current[n].ssts
           new == Candidate(n).ssts
<1>1. /\ c \in Nat /\ c \in DOMAIN store /\ store[c] = current[n]
      /\ DOMAIN store = 0 .. c /\ DOMAIN store' = 0 .. (c + 1)
      /\ \A i \in 0 .. c : store'[i] = store[i]
      /\ store'[c + 1] = Candidate(n)
  BY CreatedAtEnd
<1>2. new = (old \ upd[n].remove) \cup upd[n].add
  BY CandidateContents
<1>3. \A t, u \in old : t.id = u.id \/ t.flushes \cap u.flushes # {} => t = u
  BY <1>1 DEF VersionsExclusive
<1>4. Commits(n) => \A u \in upd[n].add : \A t \in old :
          t.id # u.id /\ u.id \notin t.flushes
  BY DEF PendingAreNew, Versions
<1> DEFINE Exclusive == \A t, u \in new :
              t.id = u.id \/ t.flushes \cap u.flushes # {} => t = u
<1>5. Exclusive
  <2>1. CASE upd[n].add = {}
    BY <1>2, <1>3, <2>1
  <2>2. ASSUME NEW a, upd[n].add = {a}, Commits(n),
               \A t \in old \ upd[n].remove : t.flushes \cap a.flushes = {}
        PROVE  Exclusive
    <3>1. \A t \in old : t.id # a.id
      BY <1>4, <2>2
    <3> QED BY <1>2, <1>3, <2>2, <3>1
  <2>3. ASSUME NEW a \in upd[n].add, upd[n].add = {a}, op[n] = "flush",
               a.flushes = {a.id}
        PROVE  Exclusive
    <3>1. \A t \in old : t.flushes \cap a.flushes = {}
      BY <1>4, <2>3 DEF Commits
    <3> QED BY <2>2, <2>3, <3>1 DEF Commits
  <2>4. ASSUME NEW a \in upd[n].add, upd[n].add = {a}, op[n] = "compact",
               a.flushes = UNION {u.flushes : u \in upd[n].remove},
               upd[n].remove \subseteq old
        PROVE  Exclusive
    <3>1. \A t \in old \ upd[n].remove : \A u \in upd[n].remove :
            t.flushes \cap u.flushes = {}
      BY <1>3, <2>4
    <3>2. \A t \in old \ upd[n].remove : t.flushes \cap a.flushes = {}
      BY <2>4, <3>1
    <3> QED BY <2>2, <2>4, <3>2 DEF Commits
  <2> QED BY <2>1, <2>3, <2>4, PutShapes DEF HistoryInv
<1> SUFFICES ASSUME NEW i \in DOMAIN store', NEW t \in store'[i].ssts,
                    NEW u \in store'[i].ssts,
                    t.id = u.id \/ t.flushes \cap u.flushes # {}
             PROVE  t = u
  BY DEF VersionsExclusive
<1>6. CASE i = c + 1
  BY <1>1, <1>5, <1>6
<1>7. CASE i \in 0 .. c
  BY <1>1, <1>7 DEF VersionsExclusive
<1> QED BY <1>1, <1>6, <1>7

\* Whatever the latest version held it still holds after the put: a flush that
\* was in a removed table is in the table that replaces it.
LEMMA CreatedKeepsFlushes ==
    ASSUME TypeOK, PutIsApplicable, UpdateAsBuilt, NEW n \in Nodes, pc[n] = "put",
           NEW f, \E t \in current[n].ssts : f \in t.flushes
    PROVE  \E t \in Candidate(n).ssts : f \in t.flushes
<1>1. Candidate(n).ssts = (current[n].ssts \ upd[n].remove) \cup upd[n].add
  BY CandidateContents
<1>2. PICK t \in current[n].ssts : f \in t.flushes
  OBVIOUS
<1>3. CASE t \notin upd[n].remove
  BY <1>1, <1>2, <1>3
<1>4. CASE t \in upd[n].remove
  <2>1. PICK a \in upd[n].add :
          a.flushes = UNION {u.flushes : u \in upd[n].remove}
    BY <1>4, PutShapes
  <2> QED BY <1>1, <1>2, <1>4, <2>1
<1> QED BY <1>3, <1>4

\* Acknowledged flushes survive the creation of a version, also the one that
\* this put acknowledges.
LEMMA CreatedAcked ==
    ASSUME TypeOK, HistoryInv, UpdateAsBuilt, PendingAreNew, ContentsInv,
           "prune" \notin ops, NEW n \in Nodes, pc[n] = "put",
           Created(Candidate(n)),
           \/ UNCHANGED acked
           \/ op[n] = "flush" /\ acked' = acked \cup {t.id : t \in upd[n].add}
    PROVE  AckedFlushesLive' /\ AckedAreStored'
<1> DEFINE c == current[n].id
<1>1. /\ c \in Nat /\ c \in DOMAIN store /\ store[c] = current[n]
      /\ DOMAIN store = 0 .. c /\ DOMAIN store' = 0 .. (c + 1)
      /\ store'[c + 1] = Candidate(n)
  BY CreatedAtEnd
<1>2. IsLatest(c)
  BY <1>1 DEF IsLatest
<1>3. \A f \in acked : \E t \in Candidate(n).ssts : f \in t.flushes
  <2> SUFFICES ASSUME NEW f \in acked
               PROVE  \E t \in Candidate(n).ssts : f \in t.flushes
    OBVIOUS
  <2>1. \E t \in current[n].ssts : f \in t.flushes
    BY <1>1, <1>2 DEF ContentsInv, AckedFlushesLive, HoldsOnce
  <2> QED BY <2>1, CreatedKeepsFlushes DEF HistoryInv
<1>4. op[n] = "flush" => \A t \in upd[n].add :
          t \in Candidate(n).ssts /\ t.id \in t.flushes
  BY CandidateContents, PutShapes DEF HistoryInv
<1>5. \A f \in acked' : \E t \in Candidate(n).ssts : f \in t.flushes
  BY <1>3, <1>4
<1>6. \A t, u \in Candidate(n).ssts : t.flushes \cap u.flushes # {} => t = u
  <2>1. c + 1 \in DOMAIN store'
    BY <1>1
  <2> QED BY <1>1, <2>1, CreatedExclusive DEF ContentsInv, VersionsExclusive
<1>7. ASSUME NEW h \in DOMAIN store', IsLatest(h)', NEW f \in acked'
      PROVE  HoldsOnce(store'[h], f)
  <2>1. h = c + 1
    BY <1>1, <1>7 DEF IsLatest
  <2>2. PICK t \in Candidate(n).ssts : f \in t.flushes
    BY <1>5
  <2>3. \A t2 \in Candidate(n).ssts : f \in t2.flushes => t2 = t
    BY <1>6, <2>2
  <2> QED BY <1>1, <2>1, <2>2, <2>3 DEF HoldsOnce
<1>8. AckedFlushesLive'
  BY <1>7 DEF AckedFlushesLive, HoldsOnce
<1>9. 0 \in DOMAIN store'
  BY <1>1
<1> QED BY <1>8, <1>9 DEF AckedAreStored

\* Only a put that created a version, and the very first one, touch what
\* ContentsInv is about.
LEMMA ContentsTouched ==
    ASSUME "prune" \notin ops, TypeOK, HistoryInv, NEW n \in Nodes, Step(n)
    PROVE  \/ UNCHANGED <<store, acked>>
           \/ Created(new_empty) /\ UNCHANGED acked
           \/ /\ pc[n] = "put" /\ Created(Candidate(n))
              /\ \/ UNCHANGED acked
                 \/ /\ op[n] = "flush"
                    /\ acked' = acked \cup {t.id : t \in upd[n].add}
<1>1. ~PruneDelete(n)
  BY DEF HistoryInv, NoGaps, PruneDelete
<1>2. CASE PutOk(n) \/ PutError(n)
  BY <1>2 DEF PutOk, PutError
<1> QED BY <1>1, <1>2
        DEF Step, BeginRefresh, BeginFlush, BeginCompact, BeginUpdate,
            ListLatest, PutInitial, GetLatest, PutPreconditionFailed,
            StorageError, PruneList, Crash

\* Every step keeps what the versions hold.
LEMMA ContentsStep ==
    ASSUME "prune" \notin ops, TypeOK, HistoryInv, UpdateAsBuilt,
           PendingAreNew, ContentsInv, [Next]_vars
    PROVE  ContentsInv'
<1>1. CASE UNCHANGED <<store, acked, ops>>
  BY <1>1 DEF ContentsInv, VersionsExclusive, AckedAreStored,
              AckedFlushesLive, IsLatest, HoldsOnce
<1>2. ASSUME NEW n \in Nodes, Step(n), UNCHANGED ops PROVE ContentsInv'
  <2>1. CASE Created(new_empty) /\ UNCHANGED acked
    <3>1. 0 \notin DOMAIN store /\ DOMAIN store' = DOMAIN store \cup {0}
          /\ store'[0] = new_empty
      BY <2>1 DEF Created, new_empty
    <3>2. acked = {} /\ store = <<>>
      BY <3>1 DEF ContentsInv, AckedAreStored
    <3>3. DOMAIN store' = {0} /\ \A i \in DOMAIN store' : store'[i].ssts = {}
      BY <3>1, <3>2 DEF new_empty
    <3> QED BY <2>1, <3>2, <3>3 DEF ContentsInv, VersionsExclusive,
                                    AckedAreStored, AckedFlushesLive
  <2>2. CASE /\ pc[n] = "put" /\ Created(Candidate(n))
             /\ \/ UNCHANGED acked
                \/ /\ op[n] = "flush"
                   /\ acked' = acked \cup {t.id : t \in upd[n].add}
    <3>1. VersionsExclusive'
      BY <2>2, CreatedExclusive DEF ContentsInv
    <3>2. AckedFlushesLive' /\ AckedAreStored'
      BY <1>2, <2>2, CreatedAcked
    <3> QED BY <3>1, <3>2 DEF ContentsInv
  <2> QED BY <1>1, <1>2, <2>1, <2>2, ContentsTouched
<1>3. UNCHANGED ops
  BY OpsFixed
<1> QED BY <1>1, <1>2, <1>3 DEF Next, vars

\* Nothing is stored or acknowledged at first.
LEMMA ContentsInit == Init => ContentsInv
BY DEF Init, ContentsInv, VersionsExclusive, AckedAreStored, AckedFlushesLive

\* AckedFlushesLive for every number of nodes and operations, while no manifest
\* is deleted: a flush that update() acknowledged stays in exactly one table
\* of the latest version, whatever commits, retries, lost responses, crashes
\* and compactions of the same tables interleave.
THEOREM AckedNeverLost == Spec => []AckedFlushesLive
<1> DEFINE Inv == "prune" \notin ops => HistoryInv /\ ContentsInv
<1>1. Init => Inv
  BY HistoryInit, ContentsInit
<1>2. TypeOK /\ UpdateAsBuilt /\ PendingAreNew /\ Inv /\ [Next]_vars => Inv'
  BY HistoryStep, ContentsStep, OpsFixed
<1>3. Inv => AckedFlushesLive
  BY DEF ContentsInv, AckedFlushesLive
<1> HIDE DEF Inv
<1> QED BY <1>1, <1>2, <1>3, PendingHolds, TypeCorrect, PTL DEF Spec

-----------------------------------------------------------------------------
(* Epochs and refinement, with pruning *)

\* FlushKeepsEpoch for every number of nodes and operations: with retries,
\* lost answers, crashes, compactions and pruning, a version that brings in a
\* flushed table never has a lower writer epoch than the one it follows.
THEOREM FlushesKeepEpoch == Spec => FlushKeepsEpoch
<1> DEFINE P == \A h \in DOMAIN store, g \in DOMAIN store' :
                  /\ IsLatest(h) /\ IsLatest(g)'
                  /\ \E t \in store'[g].ssts \ store[h].ssts : t.level = 0
                  => store[h].wEpoch <= store'[g].wEpoch
<1>1. ASSUME TypeOK, TwoAboveDoomed, LatestKnown, PutIsApplicable,
             UpdateAsBuilt, [Next]_vars
      PROVE  [P]_vars
  <2> SUFFICES ASSUME NEW n \in Nodes, Step(n),
                      NEW h \in DOMAIN store, NEW g \in DOMAIN store',
                      IsLatest(h), IsLatest(g)',
                      NEW t \in store'[g].ssts \ store[h].ssts, t.level = 0
               PROVE  store[h].wEpoch <= store'[g].wEpoch
    BY <1>1 DEF Next
  <2>0. TypeOK'
    BY <1>1, TypeStep
  <2>1. VersionStep(n)
    BY <1>1, VersionSteps
  <2>2. CASE h \in DOMAIN store' /\ IsLatest(h)' /\ store'[h] = store[h]
    <3>1. g = h
      BY <2>0, <2>2, LatestUniqueNext
    <3> QED BY <2>2, <3>1
  <2>3. CASE /\ pc[n] = "put" /\ current[n] = store[h]
             /\ h + 1 \in DOMAIN store' /\ IsLatest(h + 1)'
             /\ store'[h + 1] = Candidate(n)
    <3>1. g = h + 1
      BY <2>0, <2>3, LatestUniqueNext
    <3>2. t \in upd[n].add
      BY <1>1, <2>3, <3>1, CandidateContents
    <3>3. op[n] = "flush"
      BY <1>1, <2>3, <3>2, PutShapes
    <3>4. /\ upd[n].wEpoch = wEpoch[n] /\ check_writer_epoch(n, current[n])
          /\ Candidate(n).wEpoch = upd[n].wEpoch
      BY <1>1, <2>3, <3>3, AsBuiltSplit, CandidateContents DEF AsBuilt
    <3> QED BY <2>3, <3>1, <3>4 DEF check_writer_epoch
  <2> QED BY <1>1, <2>1, <2>2, <2>3, LatestStep
<1> HIDE DEF P
<1>2. TypeOK /\ TwoAboveDoomed /\ LatestKnown /\ PutIsApplicable
        /\ UpdateAsBuilt /\ [Next]_vars => [P]_vars
  BY <1>1
<1>3. [][P]_vars => FlushKeepsEpoch
  BY PTL DEF P, FlushKeepsEpoch
<1> QED BY <1>2, <1>3, LatestHolds, PendingHolds, TypeCorrect, PTL DEF Spec

\* The version the refinement sees is the latest one.
LEMMA LiveIsLatest ==
    ASSUME TypeOK, NEW h \in DOMAIN store, IsLatest(h)
    PROVE  Live = store[h]
<1>1. DOMAIN store # {}
  OBVIOUS
<1>2. \A i \in DOMAIN store : IsLatest(i) => i = h
  BY DEF IsLatest, TypeOK
<1>3. (CHOOSE i \in DOMAIN store : IsLatest(i)) = h
  BY <1>2
<1> QED BY <1>1, <1>3 DEF Live

\* The same of the store after a step.
LEMMA LiveIsLatestNext ==
    ASSUME TypeOK', NEW h \in DOMAIN store', IsLatest(h)'
    PROVE  Live' = store'[h]
<1> DEFINE Last(i) == i \in DOMAIN store' /\ \A j \in DOMAIN store' : j <= i
<1>1. DOMAIN store' # {} /\ Last(h)
  BY DEF IsLatest
<1>2. \A i \in DOMAIN store' : Last(i) => i = h
  BY <1>1 DEF TypeOK
<1>3. (CHOOSE i \in DOMAIN store' : Last(i)) = h
  <2> HIDE DEF Last
  <2> QED BY <1>1, <1>2
<1> QED BY <1>1, <1>3 DEF Live, IsLatest

\* Creating the next version is one atomic flush, compaction or acquisition.
LEMMA CreatedIsAtomic ==
    ASSUME TypeOK, PutIsApplicable, UpdateAsBuilt, PendingAreNew,
           NEW n \in Nodes, pc[n] = "put",
           Live = current[n], Live' = Candidate(n)
    PROVE  Atomic!Next
<1>3. /\ Candidate(n).ssts = (current[n].ssts \ upd[n].remove) \cup upd[n].add
      /\ Candidate(n).wEpoch = upd[n].wEpoch
      /\ Candidate(n).cEpoch = upd[n].cEpoch
      /\ Candidate(n).lastFlushed >= current[n].lastFlushed
      /\ upd[n].seq = NoSeq =>
                Candidate(n).lastFlushed = current[n].lastFlushed
  BY CandidateContents, CandidateMonotone
<1>4. Commits(n) => \A u \in upd[n].add : \A t \in current[n].ssts :
          t.id # u.id /\ u.id \notin t.flushes
  BY DEF PendingAreNew, Versions
<1>5. ASSUME op[n] = "flush", upd[n].remove = {}, NEW a \in upd[n].add,
             upd[n].add = {a}, a.flushes = {a.id}
      PROVE  Atomic!Flush
  <2>1. /\ Candidate(n).ssts = current[n].ssts \cup {a}
        /\ a \in Candidate(n).ssts
        /\ \A u \in current[n].ssts : u.id # a.id /\ a.flushes \cap u.flushes = {}
    BY <1>3, <1>4, <1>5 DEF Commits
  <2> QED BY <1>3, <2>1 DEF Atomic!Flush
<1>6. ASSUME op[n] = "compact", upd[n].remove # {}, upd[n].seq = NoSeq,
             upd[n].remove \subseteq current[n].ssts,
             NEW a \in upd[n].add, upd[n].add = {a},
             a.flushes = UNION {u.flushes : u \in upd[n].remove}
      PROVE  Atomic!Compact
  <2>1. \A u \in current[n].ssts : u.id # a.id
    BY <1>4, <1>6 DEF Commits
  <2>2. a \notin current[n].ssts
    BY <2>1
  <2>3. current[n].ssts \ Candidate(n).ssts = upd[n].remove
    BY <1>3, <1>6, <2>2
  <2>4. Candidate(n).ssts = (current[n].ssts \ upd[n].remove) \cup {a}
        /\ a \in Candidate(n).ssts
    BY <1>3, <1>6
  <2> QED BY <1>3, <1>6, <2>1, <2>3, <2>4 DEF Atomic!Compact
<1>7. ASSUME op[n] \in {"acquireW", "acquireC"},
             upd[n] = AcquireUpdate(op[n], current[n])
      PROVE  Atomic!AcquireEpoch
  <2>1. /\ upd[n].remove = {} /\ upd[n].add = {} /\ upd[n].seq = NoSeq
        /\ \/ /\ upd[n].wEpoch = current[n].wEpoch + 1
              /\ upd[n].cEpoch = current[n].cEpoch
           \/ /\ upd[n].cEpoch = current[n].cEpoch + 1
              /\ upd[n].wEpoch = current[n].wEpoch
    BY <1>7 DEF AcquireUpdate
  <2> QED BY <1>3, <2>1 DEF Atomic!AcquireEpoch
<1> QED BY <1>5, <1>6, <1>7, PutShapes DEF Atomic!Next

\* The cached manifests, the CAS loops and their retries, lost responses,
\* crashes and pruning on any number of nodes together behave as one manifest
\* with atomic updates: a version that a slow node creates under an id that
\* pruning had freed is never the latest one.
THEOREM AtomicUpdates == Spec => ImplementsAtomicManifest
<1>1. Init => Atomic!Init
  BY DEF Init, Atomic!Init, Live, new_empty
<1>2. TypeOK /\ TwoAboveDoomed /\ LatestKnown /\ PutIsApplicable
        /\ UpdateAsBuilt /\ PendingAreNew /\ [Next]_vars
        => [Atomic!Next]_(Atomic!avars)
  <2> SUFFICES ASSUME TypeOK, TwoAboveDoomed, LatestKnown, PutIsApplicable,
                      UpdateAsBuilt, PendingAreNew, [Next]_vars
               PROVE  Atomic!Next \/ UNCHANGED Atomic!avars
    OBVIOUS
  <2>0. TypeOK'
    BY TypeStep
  <2>1. CASE UNCHANGED store
    <3>1. Live' = Live
      BY <2>1 DEF Live, IsLatest
    <3> QED BY <3>1 DEF Atomic!avars
  <2>2. ASSUME NEW n \in Nodes, VersionStep(n)
        PROVE  Atomic!Next \/ UNCHANGED Atomic!avars
    <3>1. CASE DOMAIN store = {}
      <4>1. pc[n] # "put" /\ doomed[n] = {}
        BY <3>1 DEF LatestKnown, TwoAboveDoomed, Snapshots
      <4>2. CASE Created(new_empty)
        <5>1. DOMAIN store' = {0} /\ store'[0] = new_empty
          BY <3>1, <4>2 DEF Created, new_empty
        <5>2. IsLatest(0)'
          BY <5>1 DEF IsLatest
        <5>3. Live' = new_empty
          BY <2>0, <5>1, <5>2, LiveIsLatestNext
        <5>4. Live = new_empty
          BY <3>1 DEF Live
        <5> QED BY <5>3, <5>4 DEF Atomic!avars
      <4> QED BY <2>1, <2>2, <4>1, <4>2 DEF VersionStep
    <3>2. CASE DOMAIN store # {}
      <4>1. PICK h \in DOMAIN store : IsLatest(h)
        BY <3>2 DEF LatestKnown
      <4>2. Live = store[h]
        BY <4>1, LiveIsLatest
      <4>3. CASE h \in DOMAIN store' /\ IsLatest(h)' /\ store'[h] = store[h]
        <5>1. Live' = Live
          BY <2>0, <4>2, <4>3, LiveIsLatestNext
        <5> QED BY <5>1 DEF Atomic!avars
      <4>4. CASE /\ pc[n] = "put" /\ current[n] = store[h]
                 /\ h + 1 \in DOMAIN store' /\ IsLatest(h + 1)'
                 /\ store'[h + 1] = Candidate(n)
        <5>1. Live' = Candidate(n)
          BY <2>0, <4>4, LiveIsLatestNext
        <5> QED BY <4>2, <4>4, <5>1, CreatedIsAtomic
      <4> QED BY <2>2, <4>1, <4>3, <4>4, LatestStep
    <3> QED BY <3>1, <3>2
  <2> QED BY <2>1, <2>2, VersionSteps DEF Next, vars
<1> QED BY <1>1, <1>2, LatestHolds, PendingHolds, TypeCorrect, PTL
        DEF Spec, ImplementsAtomicManifest, Atomic!Spec

=============================================================================
