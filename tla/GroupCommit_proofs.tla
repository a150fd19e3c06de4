-------------------------- MODULE GroupCommit_proofs --------------------------
(***************************************************************************)
(* Proofs about the group commit loop for every set of requests of every   *)
(* size, and for every capacity and window.                                *)
(***************************************************************************)
EXTENDS GroupCommit, SequenceTheorems, WellFoundedInduction, TLAPS

-----------------------------------------------------------------------------
(* Entries *)

\* The entries of a request are numbered from 1 to its size.
LEMMA EntriesOfRequest ==
    ASSUME NEW r \in Requests
    PROVE  /\ EntriesOf(r) \in Seq(Requests \X Nat)
           /\ Size(r) \in Nat
           /\ Len(EntriesOf(r)) = Size(r)
           /\ \A k \in 1 .. Size(r) : EntriesOf(r)[k] = <<r, k>>
<1>1. Size(r) \in Nat
  BY ConstantsAssumption
<1>2. EntriesOf(r) \in [1 .. Size(r) -> Requests \X Nat]
  BY <1>1 DEF EntriesOf
<1>3. EntriesOf(r) \in Seq(Requests \X Nat) /\ Len(EntriesOf(r)) = Size(r)
  BY <1>1, <1>2
<1> QED BY <1>1, <1>3 DEF EntriesOf

\* They follow each other.
LEMMA EntriesConsecutive ==
    ASSUME NEW r \in Requests PROVE Consecutive(EntriesOf(r))
<1>1. /\ Len(EntriesOf(r)) = Size(r) /\ Size(r) \in Nat
      /\ \A k \in 1 .. Size(r) : EntriesOf(r)[k] = <<r, k>>
  BY EntriesOfRequest
<1>2. ASSUME NEW i \in 1 .. Size(r) - 1
      PROVE  Follows(EntriesOf(r)[i], EntriesOf(r)[i + 1])
  <2>1. EntriesOf(r)[i] = <<r, i>> /\ EntriesOf(r)[i + 1] = <<r, i + 1>>
    BY <1>1
  <2> QED BY <1>1, <2>1 DEF Follows
<1> QED BY <1>1, <1>2 DEF Consecutive

\* Two consecutive sequences that meet at consecutive entries.
LEMMA ConsecutiveConcat ==
    ASSUME NEW s \in Seq(Requests \X Nat), NEW t \in Seq(Requests \X Nat),
           Consecutive(s), Consecutive(t),
           s # <<>> /\ t # <<>> => Follows(s[Len(s)], t[1])
    PROVE  Consecutive(s \o t)
<1> DEFINE u == s \o t
<1>1. /\ Len(s) \in Nat /\ Len(t) \in Nat
      /\ Len(u) = Len(s) + Len(t)
      /\ \A i \in 1 .. Len(s) + Len(t) :
            u[i] = IF i <= Len(s) THEN s[i] ELSE t[i - Len(s)]
  <2>1. Len(s) \in Nat /\ Len(t) \in Nat
    BY LenProperties
  <2> QED BY <2>1, ConcatProperties
<1> HIDE DEF u
<1>2. ASSUME NEW i \in 1 .. Len(s) + Len(t) - 1
      PROVE  Follows(u[i], u[i + 1])
  <2>1. CASE i + 1 <= Len(s)
    <3>1. /\ i \in 1 .. Len(s) + Len(t) /\ i <= Len(s)
          /\ i + 1 \in 1 .. Len(s) + Len(t) /\ i + 1 <= Len(s)
          /\ i \in 1 .. Len(s) - 1
      BY <1>1, <2>1
    <3>2. u[i] = s[i] /\ u[i + 1] = s[i + 1]
      BY <1>1, <3>1
    <3> QED BY <3>1, <3>2 DEF Consecutive
  <2>2. CASE i = Len(s)
    <3>1. /\ i \in 1 .. Len(s) + Len(t) /\ i <= Len(s)
          /\ i + 1 \in 1 .. Len(s) + Len(t) /\ ~(i + 1 <= Len(s))
          /\ (i + 1) - Len(s) = 1 /\ Len(s) > 0 /\ Len(t) > 0
      BY <1>1, <2>2
    <3>2. u[i] = s[i] /\ u[i + 1] = t[(i + 1) - Len(s)]
      BY <1>1, <3>1
    <3>3. s # <<>> /\ t # <<>>
      BY <3>1
    <3> QED BY <2>2, <3>1, <3>2, <3>3
  <2>3. CASE i > Len(s)
    <3> DEFINE k == i - Len(s)
    <3>1. k \in 1 .. Len(t) - 1 /\ (i + 1) - Len(s) = k + 1
      BY <1>1, <2>3
    <3>2. /\ i \in 1 .. Len(s) + Len(t) /\ ~(i <= Len(s))
          /\ i + 1 \in 1 .. Len(s) + Len(t) /\ ~(i + 1 <= Len(s))
      BY <1>1, <2>3, SMTT(30)
    <3>3. u[i] = t[k] /\ u[i + 1] = t[(i + 1) - Len(s)]
      BY <1>1, <3>2
    <3> QED BY <3>1, <3>3 DEF Consecutive
  <2> QED BY <1>1, <2>1, <2>2, <2>3
<1>3. Consecutive(u)
  BY <1>1, <1>2 DEF Consecutive
<1> QED BY <1>3 DEF u

\* The facts about u = s \o t that the proofs use: what it holds, where it
\* starts and where it ends.
Joins(u, s, t) ==
    /\ u \in Seq(Requests \X Nat)
    /\ Len(s) \in Nat /\ Len(t) \in Nat /\ Len(u) = Len(s) + Len(t)
    /\ \A j \in 1 .. Len(s) : j \in 1 .. Len(u) /\ u[j] = s[j]
    /\ \A j \in 1 .. Len(t) : \E i \in 1 .. Len(u) : u[i] = t[j]
    /\ s # <<>> => u # <<>> /\ u[1] = s[1]
    /\ s = <<>> => u = t
    /\ t # <<>> => u # <<>> /\ u[Len(u)] = t[Len(t)]

\* Writing the window appends it to the log.
LEMMA ConcatJoins ==
    ASSUME NEW s \in Seq(Requests \X Nat), NEW t \in Seq(Requests \X Nat)
    PROVE  Joins(s \o t, s, t)
<1> DEFINE u == s \o t
<1>1. Len(s) \in Nat /\ Len(t) \in Nat
  BY LenProperties
<1>2. /\ u \in Seq(Requests \X Nat)
      /\ Len(u) = Len(s) + Len(t)
      /\ \A i \in 1 .. Len(s) + Len(t) :
            u[i] = IF i <= Len(s) THEN s[i] ELSE t[i - Len(s)]
  BY <1>1, ConcatProperties
<1>3. s = <<>> => u = t
  BY ConcatEmptySeq
<1> HIDE DEF u
<1>4. ASSUME NEW j \in 1 .. Len(s) PROVE j \in 1 .. Len(u) /\ u[j] = s[j]
  <2>1. j \in 1 .. Len(s) + Len(t) /\ j <= Len(s)
    BY <1>1
  <2> QED BY <1>2, <2>1
<1>5. ASSUME NEW j \in 1 .. Len(t)
      PROVE  Len(s) + j \in 1 .. Len(u) /\ u[Len(s) + j] = t[j]
  <2>1. /\ Len(s) + j \in 1 .. Len(s) + Len(t) /\ ~(Len(s) + j <= Len(s))
        /\ (Len(s) + j) - Len(s) = j
    BY <1>1
  <2>2. u[Len(s) + j] = t[(Len(s) + j) - Len(s)]
    BY <1>2, <2>1
  <2> QED BY <1>2, <2>1, <2>2
<1>6. s # <<>> => 1 \in 1 .. Len(s)
  BY <1>1, EmptySeq
<1>7. t # <<>> => Len(t) \in 1 .. Len(t)
  BY <1>1, EmptySeq
<1>8. t # <<>> => u # <<>> /\ u[Len(u)] = t[Len(t)]
  <2> SUFFICES ASSUME t # <<>> PROVE u # <<>> /\ u[Len(u)] = t[Len(t)]
    OBVIOUS
  <2>1. u[Len(s) + Len(t)] = t[Len(t)] /\ Len(t) > 0
    BY <1>5, <1>7
  <2>2. u # <<>>
    BY <1>1, <1>2, <2>1, EmptySeq
  <2> QED BY <1>2, <2>1, <2>2
<1>9. s # <<>> => u # <<>> /\ u[1] = s[1]
  <2> SUFFICES ASSUME s # <<>> PROVE u # <<>> /\ u[1] = s[1]
    OBVIOUS
  <2>1. 1 \in 1 .. Len(u) /\ u[1] = s[1]
    BY <1>4, <1>6
  <2> QED BY <1>2, <2>1, EmptySeq
<1>10. \A j \in 1 .. Len(t) : \E i \in 1 .. Len(u) : u[i] = t[j]
  BY <1>5
<1>11. Joins(u, s, t)
  BY <1>1, <1>2, <1>3, <1>4, <1>8, <1>9, <1>10 DEF Joins
<1> QED BY <1>11 DEF u

\* A first part of a consecutive sequence.
LEMMA ConsecutivePrefix ==
    ASSUME NEW s \in Seq(Requests \X Nat), Consecutive(s), NEW n \in 0 .. Len(s)
    PROVE  /\ SubSeq(s, 1, n) \in Seq(Requests \X Nat)
           /\ Len(SubSeq(s, 1, n)) = n
           /\ n > 0 => SubSeq(s, 1, n)[1] = s[1]
           /\ Consecutive(SubSeq(s, 1, n))
<1>1. /\ SubSeq(s, 1, n) \in Seq(Requests \X Nat)
      /\ Len(SubSeq(s, 1, n)) = n
      /\ \A i \in 1 .. n : SubSeq(s, 1, n)[i] = s[i]
  <2>1. \A i \in 1 .. n : s[i] \in Requests \X Nat
    BY ElementOfSeq
  <2> QED BY <2>1, SubSeqProperties
<1>2. Consecutive(SubSeq(s, 1, n))
  BY <1>1 DEF Consecutive
<1> QED BY <1>1, <1>2

\* The window's entries come right after the log.
LEMMA WindowFollowsLog ==
    ASSUME LoopInv, pc = "collect"
    PROVE  log # <<>> => Follows(log[Len(log)], entries[1])
<1>1. /\ EndsWith(log, Answered) /\ Waiting /\ TypeOK
      /\ Taken > Answered /\ entries[1] = <<order[Answered + 1], 1>>
  BY DEF LoopInv, LogInv
<1>2. /\ Len(order) \in Nat /\ Len(queue) \in Nat /\ Len(notifiers) \in Nat
      /\ Answered \in Nat /\ Taken \in Nat /\ Taken <= Len(order)
  BY <1>1, LenProperties, SMTT(30) DEF TypeOK, Waiting, Answered, Taken
<1> SUFFICES ASSUME log # <<>> PROVE Follows(log[Len(log)], entries[1])
  OBVIOUS
<1>3. Answered # 0 /\ log[Len(log)] = <<order[Answered], Size(order[Answered])>>
  BY <1>1 DEF EndsWith
<1>4. Answered \in 1 .. Len(order) - 1
  BY <1>1, <1>2, <1>3
<1> QED BY <1>1, <1>3, <1>4 DEF Follows

-----------------------------------------------------------------------------
(* What steps leave alone *)

\* The counters of the running loop.
LEMMA Counts ==
    ASSUME TypeOK, Waiting
    PROVE  /\ Len(order) \in Nat /\ Len(queue) \in Nat /\ Len(notifiers) \in Nat
           /\ Answered \in Nat /\ Taken \in Nat
           /\ Answered <= Taken /\ Taken <= Len(order)
           /\ Taken = Len(order) - Len(queue)
           /\ Taken = Answered + Len(notifiers)
<1>1. Len(order) \in Nat /\ Len(queue) \in Nat /\ Len(notifiers) \in Nat
  BY LenProperties DEF TypeOK
<1> QED BY <1>1 DEF Waiting, Answered, Taken

\* Acknowledged writes stay fsynced while the log only grows, the fsynced part
\* of it too, and whoever is newly acknowledged has its entries in that part.
LEMMA AckedStaySynced ==
    ASSUME TypeOK, AckedAreSynced, UNCHANGED mode,
           synced' \in Nat, synced <= synced',
           \A i \in 1 .. synced : log'[i] = log[i],
           \A r \in Requests : answers'[r] = "ok" /\ mode = "Sync" =>
              \/ answers[r] = "ok"
              \/ \A k \in 1 .. Size(r) :
                    \E j \in 1 .. synced' : log'[j] = <<r, k>>
    PROVE  AckedAreSynced'
<1> SUFFICES ASSUME mode = "Sync", NEW r \in Requests, answers'[r] = "ok"
             PROVE  ToSet(EntriesOf(r)) \subseteq {log'[i] : i \in 1 .. synced'}
  BY DEF AckedAreSynced
<1>1. ToSet(EntriesOf(r)) = {<<r, k>> : k \in 1 .. Size(r)}
  BY EntriesOfRequest DEF ToSet, EntriesOf
<1>2. synced \in Nat /\ 1 .. synced \subseteq 1 .. synced'
  BY DEF TypeOK
<1>3. CASE answers[r] = "ok"
  <2>1. ToSet(EntriesOf(r)) \subseteq {log[i] : i \in 1 .. synced}
    BY <1>3 DEF AckedAreSynced
  <2>2. {log[i] : i \in 1 .. synced} \subseteq {log'[i] : i \in 1 .. synced'}
    BY <1>2
  <2> QED BY <2>1, <2>2
<1>4. CASE \A k \in 1 .. Size(r) : \E j \in 1 .. synced' : log'[j] = <<r, k>>
  BY <1>1, <1>4
<1> QED BY <1>3, <1>4

\* The log and the order stay.
LEMMA LogUnchanged ==
    ASSUME LogInSubmissionOrder, UNCHANGED <<log, order>>
    PROVE  LogInSubmissionOrder'
<1>1. Consecutive(log)'
  BY DEF LogInSubmissionOrder, Consecutive, Follows
<1> QED BY <1>1 DEF LogInSubmissionOrder

\* The loop stays where it is.
LEMMA LogInvUnchanged ==
    ASSUME LogInv, UNCHANGED <<mode, queue, pc, entries, notifiers, log,
                               synced, order>>
    PROVE  LogInv'
<1>1. Taken' = Taken /\ Answered' = Answered
  BY DEF Taken, Answered
<1>2. /\ EndsWith(log, Taken)' <=> EndsWith(log, Taken)
      /\ EndsWith(log, Answered)' <=> EndsWith(log, Answered)
      /\ EndsWith(entries, Taken)' <=> EndsWith(entries, Taken)
  BY <1>1 DEF EndsWith
<1>3. /\ Holds(log, 0, Taken)' <=> Holds(log, 0, Taken)
      /\ Holds(log, 0, Answered)' <=> Holds(log, 0, Answered)
      /\ Holds(entries, Answered, Taken)' <=> Holds(entries, Answered, Taken)
  BY <1>1 DEF Holds
<1>4. Consecutive(entries)' <=> Consecutive(entries)
  BY DEF Consecutive, Follows
<1> QED BY <1>1, <1>2, <1>3, <1>4 DEF LogInv

-----------------------------------------------------------------------------
(* Submissions *)

\* A new request joins the end of the channel and of the order.
LEMMA SubmitStep ==
    ASSUME LoopInv, NEW r \in Requests, Submit(r)
    PROVE  LoopInv'
<1> DEFINE N == Len(order)
           Q == Len(queue)
<1>0. TypeOK /\ OrderInv /\ Waiting
  BY DEF LoopInv, Submit
<1>1. /\ answers[r] = "none" /\ Size(r) > 0 /\ pc \notin {"dead", "crashed"}
      /\ queue' = Append(queue, r) /\ order' = Append(order, r)
      /\ answers' = [q \in Requests |-> IF q \in {r} THEN "wait" ELSE answers[q]]
      /\ UNCHANGED <<mode, pc, entries, notifiers, log, synced>>
  BY DEF Submit, Answer, loop
<1>2. /\ N \in Nat /\ Q \in Nat /\ Len(notifiers) \in Nat
      /\ Answered \in Nat /\ Taken \in Nat
      /\ Answered <= Taken /\ Taken <= N /\ Taken = N - Q
  BY <1>0, Counts
<1>3. /\ order' \in Seq(Requests) /\ Len(order') = N + 1
      /\ \A i \in 1 .. N : order'[i] = order[i]
      /\ order'[N + 1] = r
      /\ queue' \in Seq(Requests) /\ Len(queue') = Q + 1
      /\ \A i \in 1 .. Q : queue'[i] = queue[i]
      /\ queue'[Q + 1] = r
  BY <1>0, <1>1, AppendProperties DEF TypeOK
<1>4. Taken' = Taken /\ Answered' = Answered
  BY <1>1, <1>2, <1>3 DEF Taken, Answered
<1>5. TypeOK'
  BY <1>0, <1>1, <1>3 DEF TypeOK
<1>6. \A i \in 1 .. N : /\ order[i] \in Requests /\ order[i] # r
                        /\ answers'[order[i]] = answers[order[i]]
  BY <1>0, <1>1, ElementOfSeq DEF OrderInv, TypeOK
<1>7. OrderInv'
  <2>1. \A i \in 1 .. N + 1 : i \in 1 .. N \/ i = N + 1
    BY <1>2
  <2>2. \A i, j \in 1 .. N + 1 : order'[i] = order'[j] => i = j
    BY <1>0, <1>3, <1>6, <2>1 DEF OrderInv
  <2>3. \A q \in Requests : answers'[q] = "none" =>
            \A i \in 1 .. N + 1 : order'[i] # q
    BY <1>0, <1>1, <1>3, <2>1 DEF OrderInv
  <2>4. \A i \in 1 .. N + 1 : Size(order'[i]) > 0
    BY <1>0, <1>1, <1>3, <2>1 DEF OrderInv
  <2>5. \A q \in Requests : answers'[q] = "ok" /\ Size(q) > 0 =>
            \E i \in 1 .. N + 1 : order'[i] = q
    <3> SUFFICES ASSUME NEW q \in Requests, answers'[q] = "ok", Size(q) > 0
                 PROVE  \E i \in 1 .. N + 1 : order'[i] = q
      OBVIOUS
    <3>1. PICK i \in 1 .. N : order[i] = q
      BY <1>0, <1>1 DEF OrderInv
    <3> QED BY <1>2, <1>3, <3>1
  <2> QED BY <1>3, <2>2, <2>3, <2>4, <2>5 DEF OrderInv
<1>8. Waiting'
  <2>1. \A i \in 1 .. Q + 1 : queue'[i] = order'[Taken + i]
    <3> SUFFICES ASSUME NEW i \in 1 .. Q + 1 PROVE queue'[i] = order'[Taken + i]
      OBVIOUS
    <3>1. CASE i = Q + 1
      <4>1. Taken + i = N + 1
        BY <1>2, <3>1
      <4> QED BY <1>3, <3>1, <4>1
    <3>2. CASE i \in 1 .. Q
      <4>1. Taken + i \in 1 .. N
        BY <1>2, <3>2
      <4> QED BY <1>0, <1>3, <3>2, <4>1 DEF Waiting
    <3> QED BY <1>2, <3>1, <3>2
  <2>2. \A i \in 1 .. Len(notifiers) : notifiers[i] = order'[Answered + i]
    <3> SUFFICES ASSUME NEW i \in 1 .. Len(notifiers)
                 PROVE  notifiers[i] = order'[Answered + i]
      OBVIOUS
    <3>1. Answered + i \in 1 .. N
      BY <1>0, <1>2, Counts
    <3> QED BY <1>0, <1>3, <3>1 DEF Waiting
  <2>3. \A i \in 1 .. N + 1 : answers'[order'[i]] = "ok" <=> i <= Answered
    <3> SUFFICES ASSUME NEW i \in 1 .. N + 1
                 PROVE  answers'[order'[i]] = "ok" <=> i <= Answered
      OBVIOUS
    <3>1. CASE i = N + 1
      BY <1>1, <1>2, <1>3, <3>1
    <3>2. CASE i \in 1 .. N
      BY <1>0, <1>3, <1>6, <3>2, SMTT(30) DEF Waiting
    <3> QED BY <1>2, <3>1, <3>2
  <2> QED BY <1>0, <1>1, <1>3, <1>4, <2>1, <2>2, <2>3 DEF Waiting
<1>9. AckedFirst'
  <2>1. Answered \in 0 .. N + 1
    BY <1>2
  <2> QED BY <1>3, <1>4, <1>8, <2>1 DEF AckedFirst, Waiting
\* The order has grown at its end only.
<1>10. ASSUME NEW e, NEW f, Follows(e, f) PROVE Follows(e, f)'
  <2>1. CASE e[2] < Size(e[1]) /\ f = <<e[1], e[2] + 1>>
    BY <2>1 DEF Follows
  <2>2. ASSUME e[2] = Size(e[1]), NEW i \in 1 .. N - 1,
               order[i] = e[1], f = <<order[i + 1], 1>>
        PROVE  Follows(e, f)'
    <3>1. i \in 1 .. N /\ i + 1 \in 1 .. N /\ i \in 1 .. (N + 1) - 1
      BY <1>2
    <3>2. order'[i] = e[1] /\ f = <<order'[i + 1], 1>>
      BY <1>3, <2>2, <3>1
    <3> QED BY <1>3, <2>2, <3>1, <3>2 DEF Follows
  <2> QED BY <1>10, <2>1, <2>2 DEF Follows
<1>11. LogInSubmissionOrder'
  <2>1. ASSUME log # <<>> PROVE order' # <<>> /\ log[1] = <<order'[1], 1>>
    <3>1. order # <<>> /\ log[1] = <<order[1], 1>>
      BY <2>1 DEF LoopInv, LogInSubmissionOrder
    <3>2. 1 \in 1 .. N
      BY <1>0, <3>1, EmptySeq DEF TypeOK
    <3> QED BY <1>1, <1>2, <1>3, <3>1, <3>2
  <2>2. Consecutive(log)'
    BY <1>1, <1>10 DEF LoopInv, LogInSubmissionOrder, Consecutive
  <2> QED BY <1>1, <2>1, <2>2 DEF LogInSubmissionOrder
<1>12. ASSUME NEW s, NEW n \in 0 .. N
       PROVE  /\ EndsWith(s, n) => EndsWith(s, n)'
              /\ \A m \in Nat : Holds(s, m, n) => Holds(s, m, n)'
  <2>1. \A i \in 1 .. n : order'[i] = order[i]
    BY <1>2, <1>3
  <2>2. n # 0 => n \in 1 .. n
    BY <1>2
  <2>3. EndsWith(s, n) => EndsWith(s, n)'
    BY <2>1, <2>2 DEF EndsWith
  <2>4. \A m \in Nat : \A i \in m + 1 .. n : i \in 1 .. n
    BY <1>2
  <2>5. \A m \in Nat : Holds(s, m, n) => Holds(s, m, n)'
    BY <2>1, <2>4 DEF Holds
  <2> QED BY <2>3, <2>5
<1>13. LogInv'
  <2>1. Taken \in 0 .. N /\ Answered \in 0 .. N /\ 0 \in Nat
    BY <1>2
  <2>2. pc \in {"recv", "sync", "notify", "drained"} =>
          (EndsWith(log, Taken) /\ Holds(log, 0, Taken))'
    <3>1. pc \in {"recv", "sync", "notify", "drained"} =>
            EndsWith(log, Taken) /\ Holds(log, 0, Taken)
      BY DEF LoopInv, LogInv
    <3> QED BY <1>1, <1>4, <1>12, <2>1, <3>1
  <2>3. pc = "collect" =>
          (/\ EndsWith(log, Answered) /\ Holds(log, 0, Answered)
           /\ EndsWith(entries, Taken) /\ Holds(entries, Answered, Taken))'
    <3>1. pc = "collect" =>
            /\ EndsWith(log, Answered) /\ Holds(log, 0, Answered)
            /\ EndsWith(entries, Taken) /\ Holds(entries, Answered, Taken)
      BY DEF LoopInv, LogInv
    <3> QED BY <1>1, <1>2, <1>4, <1>12, <2>1, <3>1
  <2>4. pc = "collect" =>
          (/\ Consecutive(entries)
           /\ Taken > Answered /\ entries[1] = <<order[Answered + 1], 1>>)'
    <3> SUFFICES ASSUME pc = "collect"
                 PROVE  (/\ Consecutive(entries)
                         /\ Taken > Answered
                         /\ entries[1] = <<order[Answered + 1], 1>>)'
      OBVIOUS
    <3>1. /\ Consecutive(entries)
          /\ Taken > Answered /\ entries[1] = <<order[Answered + 1], 1>>
      BY DEF LoopInv, LogInv
    <3>2. Answered + 1 \in 1 .. N
      BY <1>2, <3>1
    <3>3. Consecutive(entries)'
      BY <1>1, <1>10, <3>1 DEF Consecutive
    <3> QED BY <1>1, <1>3, <1>4, <3>1, <3>2, <3>3
  <2>5. /\ pc \in {"recv", "drained"} => notifiers = <<>>
        /\ mode = "Sync" /\ pc = "notify" => synced = Len(log)
    BY DEF LoopInv, LogInv
  <2> QED BY <1>1, <2>2, <2>3, <2>4, <2>5 DEF LogInv
<1>14. AckedAreSynced'
  <2>1. synced \in Nat /\ synced <= synced
    BY <1>0 DEF TypeOK
  <2>2. \A q \in Requests : answers'[q] = "ok" => answers[q] = "ok"
    BY <1>1
  <2> QED BY <1>0, <1>1, <2>1, <2>2, AckedStaySynced DEF LoopInv
<1> QED BY <1>5, <1>7, <1>8, <1>9, <1>11, <1>13, <1>14 DEF LoopInv

\* A request answered without the loop is not in the order.
LEMMA AnsweredAtOnce ==
    ASSUME LoopInv, NEW r \in Requests, SubmitEmpty(r) \/ SubmitRefused(r)
    PROVE  LoopInv'
<1>0. TypeOK /\ OrderInv
  BY DEF LoopInv
<1>1. /\ answers[r] = "none"
      /\ \E a \in {"ok", "err"} :
           /\ answers' = [q \in Requests |-> IF q \in {r} THEN a ELSE answers[q]]
           /\ a = "ok" => Size(r) = 0
      /\ UNCHANGED <<mode, queue, pc, entries, notifiers, log, synced, order>>
  BY DEF SubmitEmpty, SubmitRefused, Answer, loop
<1>2. \A i \in 1 .. Len(order) : /\ order[i] \in Requests /\ order[i] # r
                                 /\ answers'[order[i]] = answers[order[i]]
  BY <1>0, <1>1, ElementOfSeq DEF OrderInv, TypeOK
<1>3. TypeOK'
  BY <1>0, <1>1 DEF TypeOK
<1>4. OrderInv'
  <2>1. \A q \in Requests : answers'[q] = "none" => answers[q] = "none"
    BY <1>1
  <2>2. \A q \in Requests : answers'[q] = "ok" /\ Size(q) > 0 => answers[q] = "ok"
    BY <1>1
  <2> QED BY <1>0, <1>1, <2>1, <2>2 DEF OrderInv
<1>5. Waiting => Waiting'
  BY <1>1, <1>2 DEF Waiting, Taken, Answered
<1>6. AckedFirst'
  BY <1>1, <1>2, ZenonT(40) DEF LoopInv, AckedFirst
<1>7. LogInv' /\ LogInSubmissionOrder'
  BY <1>1, LogUnchanged, LogInvUnchanged DEF LoopInv
<1>8. AckedAreSynced'
  <2>1. synced \in Nat /\ synced <= synced
    BY <1>0 DEF TypeOK
  <2>2. \A q \in Requests : answers'[q] = "ok" => answers[q] = "ok" \/ Size(q) = 0
    BY <1>1
  <2>3. \A q \in Requests : Size(q) = 0 => 1 .. Size(q) = {}
    OBVIOUS
  <2> QED BY <1>0, <1>1, <2>1, <2>2, <2>3, AckedStaySynced DEF LoopInv
<1> QED BY <1>1, <1>3, <1>4, <1>5, <1>6, <1>7, <1>8 DEF LoopInv

\* Closing the channel, time passing and stuttering change nothing of this.
LEMMA StutterStep ==
    ASSUME LoopInv, UNCHANGED <<mode, queue, pc, entries, notifiers, log,
                                synced, order, answers>>
    PROVE  LoopInv'
<1>1. TypeOK' /\ OrderInv' /\ AckedFirst' /\ (Waiting => Waiting')
  BY DEF LoopInv, TypeOK, OrderInv, AckedFirst, Waiting, Taken, Answered
<1>2. LogInv' /\ LogInSubmissionOrder'
  BY LogUnchanged, LogInvUnchanged DEF LoopInv
<1>3. AckedAreSynced'
  BY DEF LoopInv, AckedAreSynced
<1> QED BY <1>1, <1>2, <1>3 DEF LoopInv

-----------------------------------------------------------------------------
(* The loop *)

\* The first request of the channel is the next one in the order.
LEMMA HeadOfQueue ==
    ASSUME TypeOK, Waiting, queue # <<>>
    PROVE  /\ Head(queue) \in Requests /\ Head(queue) = order[Taken + 1]
           /\ Tail(queue) \in Seq(Requests)
           /\ Len(Tail(queue)) = Len(queue) - 1
           /\ \A i \in 1 .. Len(queue) - 1 :
                Tail(queue)[i] = order[Taken + 1 + i]
           /\ Taken + 1 <= Len(order) /\ Taken + 1 \in Nat
<1>1. /\ Len(order) \in Nat /\ Len(queue) \in Nat /\ Taken \in Nat
      /\ Taken = Len(order) - Len(queue)
  BY Counts
<1>2. Len(queue) > 0
  BY EmptySeq DEF TypeOK
<1>3. /\ Head(queue) \in Requests /\ Tail(queue) \in Seq(Requests)
      /\ Len(Tail(queue)) = Len(queue) - 1
      /\ \A i \in 1 .. Len(Tail(queue)) : Tail(queue)[i] = queue[i + 1]
  BY HeadTailProperties DEF TypeOK
<1>4. Head(queue) = queue[1]
  BY DEF TypeOK
<1>5. \A i \in 1 .. Len(queue) : queue[i] = order[Taken + i]
  BY DEF Waiting
<1>6. ASSUME NEW i \in 1 .. Len(queue) - 1
      PROVE  Tail(queue)[i] = order[Taken + 1 + i]
  <2>1. i + 1 \in 1 .. Len(queue) /\ Taken + (i + 1) = Taken + 1 + i
    BY <1>1
  <2>2. Tail(queue)[i] = queue[i + 1]
    BY <1>3
  <2>3. queue[i + 1] = order[Taken + (i + 1)]
    BY <1>5, <2>1
  <2> QED BY <2>1, <2>2, <2>3
<1>7. 1 \in 1 .. Len(queue)
  BY <1>1, <1>2
<1> QED BY <1>1, <1>2, <1>3, <1>4, <1>5, <1>6, <1>7

\* The entries of the n-th request alone are a window of one request.
LEMMA OneRequest ==
    ASSUME TypeOK, OrderInv, NEW n \in 1 .. Len(order)
    PROVE  /\ order[n] \in Requests /\ Size(order[n]) \in Nat \ {0}
           /\ EndsWith(EntriesOf(order[n]), n)
           /\ EntriesOf(order[n]) # <<>>
           /\ EntriesOf(order[n])[1] = <<order[n], 1>>
           /\ \A k \in 1 .. Size(order[n]) :
                \E j \in 1 .. Len(EntriesOf(order[n])) :
                    EntriesOf(order[n])[j] = <<order[n], k>>
<1> DEFINE r == order[n]
<1>1. r \in Requests /\ Size(r) > 0 /\ n # 0
  BY ElementOfSeq DEF TypeOK, OrderInv
<1> HIDE DEF r
<1>2. /\ EntriesOf(r) \in Seq(Requests \X Nat) /\ Size(r) \in Nat
      /\ Len(EntriesOf(r)) = Size(r)
      /\ \A k \in 1 .. Size(r) : EntriesOf(r)[k] = <<r, k>>
  BY <1>1, EntriesOfRequest
<1>3. EntriesOf(r) # <<>>
  BY <1>1, <1>2
<1>4. EntriesOf(r)[1] = <<r, 1>> /\ EntriesOf(r)[Size(r)] = <<r, Size(r)>>
  BY <1>1, <1>2
<1>5. EndsWith(EntriesOf(r), n)
  BY <1>1, <1>2, <1>3, <1>4 DEF EndsWith, r
<1> QED BY <1>1, <1>2, <1>3, <1>4, <1>5 DEF r

\* recv takes the next request: its entries are the window.
LEMMA RecvStep == ASSUME LoopInv, Recv PROVE LoopInv'
<1>0. TypeOK /\ OrderInv /\ Waiting /\ pc = "recv"
  BY DEF LoopInv, Recv
<1> DEFINE n == Taken + 1
           r == order[n]
<1>1. /\ Head(queue) = r /\ r \in Requests
      /\ queue' \in Seq(Requests) /\ Len(queue') = Len(queue) - 1
      /\ \A i \in 1 .. Len(queue) - 1 : queue'[i] = order[n + i]
      /\ n <= Len(order) /\ n \in Nat
  BY <1>0, HeadOfQueue DEF Recv
<1>2. /\ entries' = EntriesOf(r) /\ notifiers' = <<r>> /\ pc' = "collect"
      /\ UNCHANGED <<mode, log, synced, answers, order>>
  BY <1>1 DEF Recv
<1>3. /\ Len(order) \in Nat /\ Len(queue) \in Nat /\ Taken \in Nat
      /\ notifiers = <<>> /\ Answered = Taken /\ Taken = Len(order) - Len(queue)
  <2>1. notifiers = <<>>
    BY <1>0 DEF LoopInv, LogInv
  <2> QED BY <1>0, <2>1, Counts
<1>4. notifiers' \in Seq(Requests) /\ Len(notifiers') = 1 /\ notifiers'[1] = r
  BY <1>1, <1>2
<1>5. Taken' = n /\ Answered' = Taken /\ Answered = Taken
  BY <1>1, <1>2, <1>3, <1>4 DEF Taken, Answered
<1>6. n \in 1 .. Len(order)
  BY <1>1, <1>3
<1>7. /\ EndsWith(EntriesOf(r), n) /\ EntriesOf(r) # <<>>
      /\ EntriesOf(r)[1] = <<r, 1>>
      /\ \A k \in 1 .. Size(r) :
            \E j \in 1 .. Len(EntriesOf(r)) : EntriesOf(r)[j] = <<r, k>>
  BY <1>0, <1>6, OneRequest
<1> HIDE DEF r
<1>8. TypeOK'
  BY <1>0, <1>1, <1>2, <1>4, EntriesOfRequest DEF TypeOK
<1>9. OrderInv' /\ AckedFirst' /\ LogInSubmissionOrder' /\ AckedAreSynced'
  BY <1>2, LogUnchanged DEF LoopInv, OrderInv, AckedFirst, AckedAreSynced
<1>10. Waiting'
  <2>1. \A i \in 1 .. Len(queue') : queue'[i] = order[n + i]
    BY <1>1
  <2>2. \A i \in 1 .. 1 : notifiers'[i] = order[Taken + i]
    BY <1>4 DEF r
  <2>3. \A i \in 1 .. Len(order) : answers[order[i]] = "ok" <=> i <= Taken
    BY <1>0, <1>5 DEF Waiting
  <2>4. Answered' >= 0
    BY <1>3, <1>5
  <2> HIDE DEF n
  <2> QED BY <1>2, <1>4, <1>5, <2>1, <2>2, <2>3, <2>4 DEF Waiting
<1>11. LogInv'
  <2>1. (EndsWith(log, Answered) /\ Holds(log, 0, Answered))'
    <3>1. EndsWith(log, Taken) /\ Holds(log, 0, Taken)
      BY <1>0 DEF LoopInv, LogInv
    <3> QED BY <1>2, <1>5, <3>1 DEF EndsWith, Holds
  <2>2. EndsWith(entries, Taken)'
    BY <1>2, <1>5, <1>7 DEF EndsWith
  <2>3. Holds(entries, Answered, Taken)'
    <3>1. \A i \in Taken + 1 .. n : i = n
      BY <1>3
    <3> QED BY <1>2, <1>5, <1>7, <3>1 DEF Holds, r
  <2>4. Consecutive(entries)'
    <3>1. Consecutive(EntriesOf(r))
      BY <1>1, EntriesConsecutive
    <3> QED BY <1>2, <3>1 DEF Consecutive, Follows
  <2>5. (Taken > Answered /\ entries[1] = <<order[Answered + 1], 1>>)'
    BY <1>2, <1>3, <1>5, <1>7 DEF r
  <2> QED BY <1>2, <2>1, <2>2, <2>3, <2>4, <2>5 DEF LogInv
<1> QED BY <1>8, <1>9, <1>10, <1>11 DEF LoopInv

\* try_recv adds the next request to the window.
LEMMA CollectStep == ASSUME LoopInv, Collect PROVE LoopInv'
<1>0. TypeOK /\ OrderInv /\ Waiting /\ pc = "collect"
  BY DEF LoopInv, Collect
<1> DEFINE n == Taken + 1
           r == order[n]
<1>1. /\ Head(queue) = r /\ r \in Requests
      /\ queue' \in Seq(Requests) /\ Len(queue') = Len(queue) - 1
      /\ \A i \in 1 .. Len(queue) - 1 : queue'[i] = order[n + i]
      /\ n <= Len(order) /\ n \in Nat
  BY <1>0, HeadOfQueue DEF Collect
<1>2. /\ entries' = entries \o EntriesOf(r) /\ notifiers' = Append(notifiers, r)
      /\ UNCHANGED <<mode, pc, log, synced, answers, order>>
  BY <1>1 DEF Collect
<1>3. /\ Len(order) \in Nat /\ Len(queue) \in Nat /\ Taken \in Nat
      /\ Len(notifiers) \in Nat /\ Answered \in Nat
      /\ Taken = Answered + Len(notifiers) /\ Taken = Len(order) - Len(queue)
  BY <1>0, Counts
<1>4. /\ notifiers' \in Seq(Requests) /\ Len(notifiers') = Len(notifiers) + 1
      /\ \A i \in 1 .. Len(notifiers) : notifiers'[i] = notifiers[i]
      /\ notifiers'[Len(notifiers) + 1] = r
  BY <1>0, <1>1, <1>2, AppendProperties DEF TypeOK
<1>5. Taken' = n /\ Answered' = Answered
  BY <1>1, <1>2, <1>3, <1>4 DEF Taken, Answered
<1>6. n \in 1 .. Len(order)
  BY <1>1, <1>3
<1>7. /\ EndsWith(EntriesOf(r), n) /\ EntriesOf(r) # <<>>
      /\ EntriesOf(r)[1] = <<r, 1>>
      /\ \A k \in 1 .. Size(r) :
            \E j \in 1 .. Len(EntriesOf(r)) : EntriesOf(r)[j] = <<r, k>>
  BY <1>0, <1>6, OneRequest
<1>8. /\ EndsWith(log, Answered) /\ Holds(log, 0, Answered)
      /\ EndsWith(entries, Taken) /\ Holds(entries, Answered, Taken)
      /\ Consecutive(entries)
      /\ Taken > Answered /\ entries[1] = <<order[Answered + 1], 1>>
  BY <1>0 DEF LoopInv, LogInv
<1>9. /\ entries \in Seq(Requests \X Nat) /\ EntriesOf(r) \in Seq(Requests \X Nat)
      /\ entries # <<>>
      /\ entries[Len(entries)] = <<order[Taken], Size(order[Taken])>>
  <2>1. entries \in Seq(Requests \X Nat)
    BY <1>0 DEF TypeOK
  <2>2. EntriesOf(r) \in Seq(Requests \X Nat)
    BY <1>1, EntriesOfRequest
  <2>3. Taken # 0
    BY <1>3, <1>8
  <2> QED BY <1>8, <2>1, <2>2, <2>3 DEF EndsWith
<1>10. /\ entries' \in Seq(Requests \X Nat) /\ entries' # <<>>
       /\ \A j \in 1 .. Len(entries) :
            j \in 1 .. Len(entries') /\ entries'[j] = entries[j]
       /\ \A j \in 1 .. Len(EntriesOf(r)) :
            \E i \in 1 .. Len(entries') : entries'[i] = EntriesOf(r)[j]
       /\ entries'[1] = entries[1]
       /\ entries'[Len(entries')] = EntriesOf(r)[Len(EntriesOf(r))]
  <2>1. Joins(entries', entries, EntriesOf(r))
    BY <1>2, <1>9, ConcatJoins
  <2> QED BY <1>7, <1>9, <2>1 DEF Joins
<1>11. Consecutive(entries \o EntriesOf(r))
  <2>1. Taken \in 1 .. Len(order) - 1
    BY <1>3, <1>6, <1>8
  <2>2. Follows(entries[Len(entries)], EntriesOf(r)[1])
    BY <1>7, <1>9, <2>1 DEF Follows
  <2>3. Consecutive(EntriesOf(r))
    BY <1>1, EntriesConsecutive
  <2> QED BY <1>8, <1>9, <2>2, <2>3, ConsecutiveConcat
<1> HIDE DEF r
<1>12. TypeOK'
  BY <1>0, <1>1, <1>2, <1>4, <1>10 DEF TypeOK
<1>13. OrderInv' /\ AckedFirst' /\ LogInSubmissionOrder' /\ AckedAreSynced'
  BY <1>2, LogUnchanged DEF LoopInv, OrderInv, AckedFirst, AckedAreSynced
<1>14. Waiting'
  <2>1. \A i \in 1 .. Len(queue') : queue'[i] = order[n + i]
    BY <1>1
  <2>2. \A i \in 1 .. Len(notifiers') : notifiers'[i] = order[Answered + i]
    <3> SUFFICES ASSUME NEW i \in 1 .. Len(notifiers) + 1
                 PROVE  notifiers'[i] = order[Answered + i]
      BY <1>4
    <3>1. CASE i \in 1 .. Len(notifiers)
      BY <1>0, <1>4, <3>1 DEF Waiting
    <3>2. CASE i = Len(notifiers) + 1
      <4>1. Answered + i = n
        BY <1>3, <3>2
      <4> QED BY <1>4, <3>2, <4>1 DEF r
    <3> QED BY <1>3, <3>1, <3>2
  <2>3. \A i \in 1 .. Len(order) : answers[order[i]] = "ok" <=> i <= Answered
    BY <1>0 DEF Waiting
  <2>4. Answered' >= 0
    BY <1>3, <1>5
  <2> HIDE DEF n
  <2> QED BY <1>2, <1>5, <2>1, <2>2, <2>3, <2>4 DEF Waiting
<1>15. LogInv'
  <2>1. (EndsWith(log, Answered) /\ Holds(log, 0, Answered))'
    BY <1>2, <1>5, <1>8 DEF EndsWith, Holds
  <2>2. EndsWith(entries, Taken)'
    <3>1. EntriesOf(r)[Len(EntriesOf(r))] = <<order[n], Size(order[n])>> /\ n # 0
      BY <1>6, <1>7 DEF EndsWith
    <3> QED BY <1>2, <1>5, <1>10, <3>1 DEF EndsWith
  <2>3. Holds(entries, Answered, Taken)'
    <3>1. ASSUME NEW i \in Answered + 1 .. n, NEW k \in 1 .. Size(order[i])
          PROVE  \E j \in 1 .. Len(entries') : entries'[j] = <<order[i], k>>
      <4>1. CASE i = n
        BY <1>7, <1>10, <3>1, <4>1, ZenonT(40) DEF r
      <4>2. CASE i \in Answered + 1 .. Taken
        <5>1. PICK j \in 1 .. Len(entries) : entries[j] = <<order[i], k>>
          BY <1>8, <3>1, <4>2 DEF Holds
        <5> QED BY <1>10, <5>1
      <4> QED BY <1>3, <4>1, <4>2, SMTT(30)
    <3> QED BY <1>2, <1>5, <3>1 DEF Holds
  <2>4. Consecutive(entries)'
    BY <1>2, <1>11 DEF Consecutive, Follows
  <2>5. (Taken > Answered /\ entries[1] = <<order[Answered + 1], 1>>)'
    BY <1>2, <1>3, <1>5, <1>8, <1>10, SMTT(30)
  <2> QED BY <1>0, <1>2, <2>1, <2>2, <2>3, <2>4, <2>5 DEF LogInv
<1> QED BY <1>12, <1>13, <1>14, <1>15 DEF LoopInv

\* The log after a write of the whole window or of a first part of it.
LEMMA Appended ==
    ASSUME LoopInv, pc = "collect", NEW t \in Seq(Requests \X Nat),
           Consecutive(t), t # <<>> => t[1] = entries[1], log' = log \o t,
           synced' = synced \/ synced' = Len(log'),
           UNCHANGED <<mode, order, answers>>
    PROVE  /\ log' \in Seq(Requests \X Nat) /\ synced' \in 0 .. Len(log')
           /\ LogInSubmissionOrder' /\ AckedAreSynced'
<1>0. /\ TypeOK /\ Waiting
      /\ EndsWith(log, Answered) /\ Taken > Answered
      /\ entries[1] = <<order[Answered + 1], 1>>
      /\ LogInSubmissionOrder
  BY DEF LoopInv, LogInv
<1>1. /\ log' \in Seq(Requests \X Nat) /\ Len(log) \in Nat /\ Len(t) \in Nat
      /\ Len(log') = Len(log) + Len(t)
      /\ \A j \in 1 .. Len(log) : log'[j] = log[j]
      /\ log # <<>> => log'[1] = log[1]
      /\ log = <<>> => log' = t
  <2>1. log \in Seq(Requests \X Nat)
    BY <1>0 DEF TypeOK
  <2>2. Joins(log', log, t)
    BY <2>1, ConcatJoins
  <2> QED BY <2>2 DEF Joins
<1>2. /\ Len(order) \in Nat /\ Answered \in Nat /\ Answered < Len(order)
      /\ order # <<>>
  <2>1. Len(order) \in Nat /\ Answered \in Nat /\ Taken \in Nat /\ Taken <= Len(order)
    BY <1>0, Counts
  <2>2. Answered < Len(order) /\ Len(order) > 0
    BY <1>0, <2>1
  <2>3. order # <<>>
    BY <1>0, <2>2, EmptySeq DEF TypeOK
  <2> QED BY <2>1, <2>2, <2>3
<1>3. synced \in Nat /\ synced' \in Nat /\ synced <= synced' /\ synced <= Len(log)
      /\ synced' <= Len(log')
  <2>1. synced \in 0 .. Len(log)
    BY <1>0 DEF TypeOK
  <2> HIDE DEF TypeOK
  <2> QED BY <1>1, <2>1
<1>4. Consecutive(log \o t)
  <2>1. log # <<>> /\ t # <<>> => Follows(log[Len(log)], t[1])
    BY WindowFollowsLog
  <2>2. log \in Seq(Requests \X Nat) /\ Consecutive(log)
    BY <1>0 DEF TypeOK, LogInSubmissionOrder
  <2> QED BY <2>1, <2>2, ConsecutiveConcat
<1>5. LogInSubmissionOrder'
  <2>1. Consecutive(log)'
    BY <1>4 DEF Consecutive, Follows
  <2>2. log' # <<>> => log'[1] = <<order[1], 1>>
    <3>1. CASE log # <<>>
      BY <1>0, <1>1, <3>1 DEF LogInSubmissionOrder
    <3>2. CASE log = <<>>
      <4>1. Answered = 0
        BY <1>0, <3>2 DEF EndsWith
      <4> QED BY <1>0, <1>1, <3>2, <4>1
    <3> QED BY <3>1, <3>2
  <2> QED BY <1>2, <2>1, <2>2 DEF LogInSubmissionOrder
<1>6. AckedAreSynced'
  <2>1. \A i \in 1 .. synced : log'[i] = log[i]
    BY <1>1, <1>3
  <2> QED BY <1>0, <1>3, <2>1, AckedStaySynced DEF LoopInv
<1> QED BY <1>1, <1>3, <1>5, <1>6

\* append_batch: the whole window is in the log.
LEMMA WriteStep == ASSUME LoopInv, Write PROVE LoopInv'
<1>0. TypeOK /\ OrderInv /\ Waiting /\ pc = "collect"
  BY DEF LoopInv, Write
<1>1. /\ log' = log \o entries /\ entries' = <<>>
      /\ synced' = synced \/ synced' = Len(log')
      /\ pc' = IF mode = "Sync" THEN "sync" ELSE "notify"
      /\ UNCHANGED <<mode, queue, notifiers, order, answers>>
  BY DEF Write, AfterWrite
<1>2. /\ EndsWith(log, Answered) /\ Holds(log, 0, Answered)
      /\ EndsWith(entries, Taken) /\ Holds(entries, Answered, Taken)
      /\ Consecutive(entries)
      /\ Taken > Answered
  BY <1>0 DEF LoopInv, LogInv
<1>3. /\ log' \in Seq(Requests \X Nat) /\ synced' \in 0 .. Len(log')
      /\ LogInSubmissionOrder' /\ AckedAreSynced'
  BY <1>0, <1>1, <1>2, Appended DEF TypeOK
<1>4. Taken \in Nat /\ Answered \in Nat /\ Taken # 0
  BY <1>0, <1>2, Counts
<1>5. entries # <<>> /\ entries[Len(entries)] = <<order[Taken], Size(order[Taken])>>
  BY <1>2, <1>4 DEF EndsWith
<1>6. /\ \A j \in 1 .. Len(log) : j \in 1 .. Len(log') /\ log'[j] = log[j]
      /\ \A j \in 1 .. Len(entries) :
            \E i \in 1 .. Len(log') : log'[i] = entries[j]
      /\ log' # <<>> /\ log'[Len(log')] = entries[Len(entries)]
  <2>1. log \in Seq(Requests \X Nat) /\ entries \in Seq(Requests \X Nat)
    BY <1>0 DEF TypeOK
  <2>2. Joins(log', log, entries)
    BY <1>1, <2>1, ConcatJoins
  <2> QED BY <1>5, <2>2 DEF Joins
<1>7. TypeOK'
  BY <1>0, <1>1, <1>3 DEF TypeOK
<1>8. OrderInv' /\ AckedFirst' /\ Waiting' /\ Taken' = Taken
  BY <1>0, <1>1 DEF LoopInv, OrderInv, AckedFirst, Waiting, Taken, Answered
<1>9. LogInv'
  <2>1. EndsWith(log, Taken)'
    BY <1>1, <1>4, <1>5, <1>6, <1>8 DEF EndsWith
  <2>2. Holds(log, 0, Taken)'
    <3>1. ASSUME NEW i \in 0 + 1 .. Taken, NEW k \in 1 .. Size(order[i])
          PROVE  \E j \in 1 .. Len(log') : log'[j] = <<order[i], k>>
      <4>1. CASE i \in 0 + 1 .. Answered
        <5>1. PICK j \in 1 .. Len(log) : log[j] = <<order[i], k>>
          BY <1>2, <3>1, <4>1 DEF Holds
        <5> QED BY <1>6, <5>1
      <4>2. CASE i \in Answered + 1 .. Taken
        BY <1>2, <1>6, <3>1, <4>2 DEF Holds
      <4> QED BY <1>4, <4>1, <4>2
    <3> QED BY <1>1, <1>8, <3>1 DEF Holds
  <2> QED BY <1>1, <2>1, <2>2 DEF LogInv
<1> QED BY <1>1, <1>3, <1>7, <1>8, <1>9 DEF LoopInv

\* A failing write leaves a first part of the window, and ends the loop's work.
LEMMA WriteFailsStep == ASSUME LoopInv, WriteFails PROVE LoopInv'
<1>0. TypeOK /\ Waiting /\ pc = "collect" /\ Consecutive(entries)
  BY DEF LoopInv, WriteFails, LogInv
<1>1. /\ entries' = <<>> /\ pc' = "fail"
      /\ UNCHANGED <<mode, queue, notifiers, order, answers>>
  BY DEF WriteFails
<1> DEFINE Kept ==
        /\ log' \in Seq(Requests \X Nat) /\ synced' \in 0 .. Len(log')
        /\ LogInSubmissionOrder' /\ AckedAreSynced'
<1>2. Kept
  <2>1. ASSUME NEW n \in 0 .. Len(entries), log' = log \o SubSeq(entries, 1, n),
               UNCHANGED synced
        PROVE  Kept
    <3> DEFINE t == SubSeq(entries, 1, n)
    <3>1. /\ t \in Seq(Requests \X Nat) /\ Consecutive(t)
          /\ Len(t) = n /\ (n > 0 => t[1] = entries[1])
      BY <1>0, ConsecutivePrefix DEF TypeOK
    <3>2. t # <<>> => t[1] = entries[1]
      BY <3>1, EmptySeq
    <3>3. log' = log \o t
      BY <2>1
    <3> HIDE DEF t
    <3> QED BY <1>0, <1>1, <2>1, <3>1, <3>2, <3>3, Appended
  <2>2. CASE log' = log \o entries /\ synced' = Len(log')
    BY <1>0, <1>1, <2>2, Appended DEF TypeOK
  <2> QED BY <2>1, <2>2 DEF WriteFails
<1>3. TypeOK'
  BY <1>0, <1>1, <1>2 DEF TypeOK
<1>4. OrderInv' /\ AckedFirst' /\ Waiting'
  BY <1>0, <1>1 DEF LoopInv, OrderInv, AckedFirst, Waiting, Taken, Answered
<1>5. LogInv'
  BY <1>1 DEF LogInv
<1> QED BY <1>1, <1>2, <1>3, <1>4, <1>5 DEF LoopInv

\* fsync: everything in the log is on disk.
LEMMA SyncStep == ASSUME LoopInv, Sync PROVE LoopInv'
<1>0. TypeOK /\ OrderInv /\ Waiting /\ pc = "sync"
  BY DEF LoopInv, Sync
<1>1. /\ synced' = Len(log) /\ pc' = "notify"
      /\ UNCHANGED <<mode, queue, entries, notifiers, log, order, answers>>
  BY DEF Sync
<1>2. Len(log) \in Nat /\ synced \in 0 .. Len(log)
  BY <1>0, LenProperties DEF TypeOK
<1>3. TypeOK'
  BY <1>0, <1>1, <1>2 DEF TypeOK
<1>4. OrderInv' /\ AckedFirst' /\ Waiting' /\ Taken' = Taken
  BY <1>0, <1>1 DEF LoopInv, OrderInv, AckedFirst, Waiting, Taken, Answered
<1>5. LogInSubmissionOrder'
  BY <1>1, LogUnchanged DEF LoopInv
<1>6. AckedAreSynced'
  BY <1>0, <1>1, <1>2, AckedStaySynced DEF LoopInv
<1>7. LogInv'
  <2>1. EndsWith(log, Taken) /\ Holds(log, 0, Taken)
    BY <1>0 DEF LoopInv, LogInv
  <2>2. (EndsWith(log, Taken) /\ Holds(log, 0, Taken))'
    BY <1>1, <1>4, <2>1 DEF EndsWith, Holds
  <2> QED BY <1>1, <2>2 DEF LogInv
<1> QED BY <1>3, <1>4, <1>5, <1>6, <1>7 DEF LoopInv

\* A failing fsync leaves the window unanswered.
LEMMA SyncFailsStep == ASSUME LoopInv, SyncFails PROVE LoopInv'
<1>0. TypeOK /\ OrderInv /\ Waiting
  BY DEF LoopInv, SyncFails
<1>1. /\ pc' = "fail"
      /\ UNCHANGED <<mode, queue, entries, notifiers, log, synced, order, answers>>
  BY DEF SyncFails
<1>2. TypeOK' /\ OrderInv' /\ AckedFirst' /\ Waiting'
  BY <1>0, <1>1 DEF LoopInv, TypeOK, OrderInv, AckedFirst, Waiting, Taken, Answered
<1>3. LogInSubmissionOrder' /\ AckedAreSynced'
  BY <1>1, LogUnchanged DEF LoopInv, AckedAreSynced
<1>4. LogInv'
  BY <1>1 DEF LogInv
<1> QED BY <1>2, <1>3, <1>4 DEF LoopInv

\* The first of the waiters is the oldest request that has no answer.
LEMMA NotifyStep == ASSUME LoopInv, Notify PROVE LoopInv'
<1>0. /\ TypeOK /\ OrderInv /\ Waiting /\ pc = "notify"
      /\ EndsWith(log, Taken) /\ Holds(log, 0, Taken)
      /\ mode = "Sync" => synced = Len(log)
  BY DEF LoopInv, LogInv, Notify
<1>1. UNCHANGED <<mode, queue, entries, log, synced, order>>
  BY DEF Notify
<1>2. /\ Len(order) \in Nat /\ Len(queue) \in Nat /\ Len(notifiers) \in Nat
      /\ Answered \in Nat /\ Taken \in Nat
      /\ Answered <= Taken /\ Taken <= Len(order)
      /\ Taken = Answered + Len(notifiers)
  BY <1>0, Counts
<1>3. LogInSubmissionOrder'
  BY <1>1, LogUnchanged DEF LoopInv
<1>4. Taken' = Taken
  BY <1>1 DEF Taken
<1>5. (EndsWith(log, Taken) /\ Holds(log, 0, Taken))'
  BY <1>0, <1>1, <1>4 DEF EndsWith, Holds
<1>6. CASE notifiers = <<>>
  <2>1. pc' = "recv" /\ UNCHANGED <<notifiers, answers>>
    BY <1>6 DEF Notify
  <2>2. TypeOK' /\ OrderInv' /\ AckedFirst' /\ Waiting'
    BY <1>0, <1>1, <2>1 DEF LoopInv, TypeOK, OrderInv, AckedFirst, Waiting, Taken,
                            Answered
  <2>3. AckedAreSynced'
    BY <1>1, <2>1 DEF LoopInv, AckedAreSynced
  <2>4. LogInv'
    BY <1>5, <1>6, <2>1 DEF LogInv
  <2> QED BY <1>3, <2>2, <2>3, <2>4 DEF LoopInv
<1>7. CASE notifiers # <<>>
  <2> DEFINE n == Answered + 1
             r == order[n]
  <2>1. /\ answers' = [q \in Requests |->
                         IF q \in {Head(notifiers)} THEN "ok" ELSE answers[q]]
        /\ notifiers' = Tail(notifiers) /\ pc' = "notify"
    BY <1>0, <1>7 DEF Notify, Answer
  <2>2. Len(notifiers) > 0
    BY <1>0, <1>7, EmptySeq DEF TypeOK
  <2>3. /\ notifiers' \in Seq(Requests) /\ Len(notifiers') = Len(notifiers) - 1
        /\ \A i \in 1 .. Len(notifiers') : notifiers'[i] = notifiers[i + 1]
    BY <1>0, <1>7, <2>1, HeadTailProperties DEF TypeOK
  <2>4. Head(notifiers) = r
    <3>1. Head(notifiers) = notifiers[1] /\ 1 \in 1 .. Len(notifiers)
      BY <1>0, <1>2, <2>2 DEF TypeOK
    <3> QED BY <1>0, <3>1 DEF Waiting
  <2>5. n \in 1 .. Len(order) /\ n \in 1 .. Taken
    BY <1>2, <2>2
  <2>6. /\ r \in Requests
        /\ \A i \in 1 .. Len(order) : order[i] \in Requests
        /\ \A i \in 1 .. Len(order) : order[i] = r => i = n
    BY <1>0, <2>5, ElementOfSeq DEF TypeOK, OrderInv
  <2>7. Answered' = n
    BY <1>2, <1>4, <2>3 DEF Answered
  <2>8. \A q \in Requests : answers'[q] = IF q = r THEN "ok" ELSE answers[q]
    BY <2>1, <2>4
  <2>9. \A i \in 1 .. Len(order) : answers[order[i]] = "ok" <=> i <= Answered
    BY <1>0 DEF Waiting
  <2>10. \A i \in 1 .. Len(order) : answers'[order[i]] = "ok" <=> i <= n
    <3> SUFFICES ASSUME NEW i \in 1 .. Len(order)
                 PROVE  answers'[order[i]] = "ok" <=> i <= n
      OBVIOUS
    <3>1. CASE i = n
      BY <2>6, <2>8, <3>1
    <3>2. CASE i # n
      <4>1. answers'[order[i]] = answers[order[i]]
        BY <2>6, <2>8, <3>2
      <4>2. i <= n <=> i <= Answered
        BY <1>2, <3>2
      <4> QED BY <2>9, <4>1, <4>2
    <3> QED BY <3>1, <3>2
  <2>11. TypeOK'
    <3>1. answers' \in [Requests -> {"none", "wait", "ok", "err"}]
      BY <1>0, <2>1 DEF TypeOK
    <3> QED BY <1>0, <1>1, <2>1, <2>3, <3>1 DEF TypeOK
  <2>12. OrderInv'
    <3>1. \A q \in Requests : answers'[q] = "none" => answers[q] = "none"
      BY <2>8
    <3>2. \A q \in Requests : answers'[q] = "ok" => answers[q] = "ok" \/ q = order[n]
      BY <2>8
    <3> HIDE DEF n
    <3> QED BY <1>0, <1>1, <2>5, <3>1, <3>2 DEF OrderInv
  <2>13. Waiting'
    <3>1. \A i \in 1 .. Len(notifiers') : notifiers'[i] = order[n + i]
      <4> SUFFICES ASSUME NEW i \in 1 .. Len(notifiers) - 1
                   PROVE  notifiers'[i] = order[n + i]
        BY <2>3
      <4>1. i + 1 \in 1 .. Len(notifiers) /\ Answered + (i + 1) = n + i
        BY <1>2
      <4>2. notifiers'[i] = notifiers[i + 1]
        BY <2>3
      <4>3. notifiers[i + 1] = order[Answered + (i + 1)]
        BY <1>0, <4>1 DEF Waiting
      <4> QED BY <4>1, <4>2, <4>3
    <3>2. \A i \in 1 .. Len(queue) : queue[i] = order[Taken + i]
      BY <1>0 DEF Waiting
    <3>3. n >= 0
      BY <1>2
    <3> HIDE DEF n
    <3> QED BY <1>1, <1>4, <2>7, <2>10, <3>1, <3>2, <3>3 DEF Waiting
  <2>14. AckedFirst'
    <3>1. n \in 0 .. Len(order)
      BY <2>5
    <3> QED BY <1>1, <2>10, <3>1 DEF AckedFirst
  <2>15. AckedAreSynced'
    <3>1. mode = "Sync" => \A k \in 1 .. Size(r) :
                \E j \in 1 .. synced : log[j] = <<r, k>>
      <4>1. n \in 0 + 1 .. Taken
        BY <2>5
      <4>2. \A k \in 1 .. Size(order[n]) :
                \E j \in 1 .. Len(log) : log[j] = <<order[n], k>>
        BY <1>0, <4>1 DEF Holds
      <4> QED BY <1>0, <4>2
    <3>2. synced \in Nat /\ synced <= synced
      BY <1>0 DEF TypeOK
    <3> HIDE DEF r
    <3> QED BY <1>0, <1>1, <2>8, <3>1, <3>2, AckedStaySynced DEF LoopInv
  <2>16. LogInv'
    BY <1>0, <1>1, <1>5, <2>1 DEF LogInv
  <2> QED BY <1>3, <2>11, <2>12, <2>13, <2>14, <2>15, <2>16 DEF LoopInv
<1> QED BY <1>6, <1>7

\* The task ends: whoever has no answer gets an error, nobody else does.
LEMMA DieStep ==
    ASSUME LoopInv, pc \notin {"dead", "crashed"}, Die(ToSet(notifiers)),
           UNCHANGED <<mode, entries, log, synced, order>>
    PROVE  LoopInv'
<1>0. TypeOK /\ OrderInv /\ Waiting
  BY DEF LoopInv
<1> DEFINE failed == ToSet(queue) \cup ToSet(notifiers)
<1>1. /\ pc' = "dead" /\ queue' = <<>> /\ notifiers' = <<>>
      /\ answers' = [q \in Requests |-> IF q \in failed THEN "err" ELSE answers[q]]
  BY DEF Die, Answer
<1>2. /\ Len(order) \in Nat /\ Len(queue) \in Nat /\ Len(notifiers) \in Nat
      /\ Answered \in Nat /\ Taken \in Nat
      /\ Answered <= Taken /\ Taken <= Len(order)
      /\ Taken = Len(order) - Len(queue)
      /\ Taken = Answered + Len(notifiers)
  BY <1>0, Counts
<1>3. \A q \in failed : \E i \in 1 .. Len(order) : i > Answered /\ q = order[i]
  <2> SUFFICES ASSUME NEW q \in failed
               PROVE  \E i \in 1 .. Len(order) : i > Answered /\ q = order[i]
    OBVIOUS
  <2>1. CASE q \in ToSet(queue)
    <3>1. PICK k \in 1 .. Len(queue) : q = queue[k]
      BY <1>0, <2>1 DEF ToSet, TypeOK
    <3>2. Taken + k \in 1 .. Len(order) /\ Taken + k > Answered
      BY <1>2
    <3>3. q = order[Taken + k]
      BY <1>0, <3>1 DEF Waiting
    <3> QED BY <3>2, <3>3
  <2>2. CASE q \in ToSet(notifiers)
    <3>1. PICK k \in 1 .. Len(notifiers) : q = notifiers[k]
      BY <1>0, <2>2 DEF ToSet, TypeOK
    <3>2. Answered + k \in 1 .. Len(order) /\ Answered + k > Answered
      BY <1>2
    <3>3. q = order[Answered + k]
      BY <1>0, <3>1 DEF Waiting
    <3> QED BY <3>2, <3>3
  <2> QED BY <2>1, <2>2
<1> HIDE DEF failed
<1>4. \A i \in 1 .. Len(order) : order[i] \in Requests
  BY <1>0, ElementOfSeq DEF TypeOK
<1>5. \A i \in 1 .. Len(order) : i <= Answered => order[i] \notin failed
  <2> SUFFICES ASSUME NEW i \in 1 .. Len(order), i <= Answered, order[i] \in failed
               PROVE  FALSE
    OBVIOUS
  <2>1. PICK j \in 1 .. Len(order) : j > Answered /\ order[i] = order[j]
    BY <1>3
  <2>2. i = j
    BY <1>0, <2>1 DEF OrderInv
  <2> QED BY <1>2, <2>1, <2>2
<1>6. \A i \in 1 .. Len(order) : answers'[order[i]] = "ok" <=> i <= Answered
  <2>1. \A i \in 1 .. Len(order) : answers[order[i]] = "ok" <=> i <= Answered
    BY <1>0 DEF Waiting
  <2> QED BY <1>1, <1>4, <1>5, <2>1
<1>7. AckedFirst'
  <2>1. Answered \in 0 .. Len(order)
    BY <1>2
  <2> QED BY <1>6, <2>1 DEF AckedFirst
<1>8. /\ \A q \in Requests : answers'[q] = "none" => answers[q] = "none"
      /\ \A q \in Requests : answers'[q] = "ok" => answers[q] = "ok"
      /\ answers' \in [Requests -> {"none", "wait", "ok", "err"}]
  BY <1>0, <1>1 DEF TypeOK
<1>9. TypeOK'
  BY <1>0, <1>1, <1>8 DEF TypeOK
<1>10. OrderInv'
  BY <1>0, <1>8 DEF OrderInv
<1>11. LogInSubmissionOrder'
  BY LogUnchanged DEF LoopInv
<1>12. AckedAreSynced'
  BY <1>8 DEF LoopInv, AckedAreSynced
<1>13. LogInv'
  BY <1>1 DEF LogInv
<1> QED BY <1>1, <1>7, <1>9, <1>10, <1>11, <1>12, <1>13 DEF LoopInv

\* The three errors that end the task.
LEMMA FailureSteps ==
    ASSUME LoopInv, NotifyFailure \/ TimerSyncFails \/ DrainFails
    PROVE  LoopInv'
<1>1. CASE NotifyFailure
  <2>1. /\ Die(ToSet(notifiers)) /\ pc = "fail"
        /\ UNCHANGED <<mode, entries, log, synced, order>>
    BY <1>1 DEF NotifyFailure
  <2> QED BY <2>1, DieStep
<1>2. CASE TimerSyncFails \/ DrainFails
  <2>1. /\ Die({}) /\ pc = "recv"
        /\ UNCHANGED <<mode, entries, log, synced, order>>
    BY <1>2 DEF TimerSyncFails, DrainFails
  <2>2. notifiers = <<>>
    BY <2>1 DEF LoopInv, LogInv
  <2>3. ToSet(notifiers) = {}
    BY <2>2 DEF ToSet
  <2> QED BY <2>1, <2>3, DieStep
<1> QED BY <1>1, <1>2

\* The batch timer, and the end of a drained channel.
LEMMA IdleSteps == ASSUME LoopInv, TimerSync \/ Drain PROVE LoopInv'
<1>0. TypeOK /\ OrderInv /\ Waiting /\ pc = "recv"
  BY DEF LoopInv, TimerSync, Drain
<1>1. /\ synced' \in {synced, Len(log)} /\ pc' \in {"recv", "drained"}
      /\ UNCHANGED <<mode, queue, entries, notifiers, log, order, answers>>
  BY <1>0 DEF TimerSync, Drain
<1>2. Len(log) \in Nat /\ synced \in 0 .. Len(log)
  BY <1>0, LenProperties DEF TypeOK
<1>3. TypeOK'
  BY <1>0, <1>1, <1>2 DEF TypeOK
<1>4. OrderInv' /\ AckedFirst' /\ Waiting' /\ Taken' = Taken
  BY <1>0, <1>1 DEF LoopInv, OrderInv, AckedFirst, Waiting, Taken, Answered
<1>5. LogInSubmissionOrder'
  BY <1>1, LogUnchanged DEF LoopInv
<1>6. AckedAreSynced'
  BY <1>0, <1>1, <1>2, AckedStaySynced DEF LoopInv
<1>7. LogInv'
  <2>1. EndsWith(log, Taken) /\ Holds(log, 0, Taken) /\ notifiers = <<>>
    BY <1>0 DEF LoopInv, LogInv
  <2>2. (EndsWith(log, Taken) /\ Holds(log, 0, Taken))'
    BY <1>1, <1>4, <2>1 DEF EndsWith, Holds
  <2> QED BY <1>1, <2>1, <2>2 DEF LogInv
<1> QED BY <1>3, <1>4, <1>5, <1>6, <1>7 DEF LoopInv

\* A crash ends everything and changes no answer.
LEMMA CrashStep ==
    ASSUME LoopInv, Kill \/ PowerLoss PROVE LoopInv'
<1>1. /\ pc' = "crashed"
      /\ UNCHANGED <<mode, queue, entries, notifiers, log, synced, order, answers>>
  BY DEF Kill, PowerLoss, Crashed
<1>2. TypeOK' /\ OrderInv' /\ AckedFirst'
  BY <1>1 DEF LoopInv, TypeOK, OrderInv, AckedFirst
<1>3. LogInSubmissionOrder' /\ AckedAreSynced'
  BY <1>1, LogUnchanged DEF LoopInv, AckedAreSynced
<1>4. LogInv'
  BY <1>1 DEF LogInv
<1> QED BY <1>1, <1>2, <1>3, <1>4 DEF LoopInv

-----------------------------------------------------------------------------
(* The invariant and what follows from it *)

\* Nothing has been submitted and the log is empty.
LEMMA LoopInit == Init => LoopInv
<1> SUFFICES ASSUME Init PROVE LoopInv
  OBVIOUS
<1>0. /\ mode \in Modes /\ queue = <<>> /\ pc = "recv" /\ entries = <<>>
      /\ notifiers = <<>> /\ log = <<>> /\ synced = 0 /\ order = <<>>
      /\ answers = [r \in Requests |-> "none"]
  BY DEF Init
<1>1. /\ Len(order) = 0 /\ Len(queue) = 0 /\ Len(notifiers) = 0 /\ Len(log) = 0
      /\ 1 .. 0 = {}
  BY <1>0
<1>2. Taken = 0 /\ Answered = 0
  BY <1>1 DEF Taken, Answered
<1>3. TypeOK
  BY <1>0, <1>1 DEF TypeOK
<1>4. OrderInv
  BY <1>0, <1>1 DEF OrderInv
<1>5. Waiting /\ AckedFirst
  BY <1>1, <1>2 DEF Waiting, AckedFirst
<1>6. LogInv
  <2>1. 0 + 1 .. 0 = {}
    OBVIOUS
  <2> QED BY <1>0, <1>2, <2>1 DEF LogInv, EndsWith, Holds
<1>7. LogInSubmissionOrder
  <2>1. 1 .. 0 - 1 = {}
    OBVIOUS
  <2> QED BY <1>0, <1>1, <2>1 DEF LogInSubmissionOrder, Consecutive
<1>8. AckedAreSynced
  BY <1>0 DEF AckedAreSynced
<1> QED BY <1>3, <1>4, <1>5, <1>6, <1>7, <1>8 DEF LoopInv

\* Every step keeps it.
LEMMA LoopStepInv == LoopInv /\ [Next]_vars => LoopInv'
<1> SUFFICES ASSUME LoopInv, [Next]_vars PROVE LoopInv'
  OBVIOUS
<1>1. ASSUME NEW r \in Requests, Submit(r) PROVE LoopInv'
  BY <1>1, SubmitStep
<1>2. ASSUME NEW r \in Requests, SubmitEmpty(r) \/ SubmitRefused(r) PROVE LoopInv'
  BY <1>2, AnsweredAtOnce
<1>3. CASE Close \/ Tick
  <2>1. UNCHANGED <<mode, queue, pc, entries, notifiers, log, synced, order, answers>>
    BY <1>3 DEF Close, Tick, loop
  <2> QED BY <2>1, StutterStep
<1>4. CASE Recv
  BY <1>4, RecvStep
<1>5. CASE Collect
  BY <1>5, CollectStep
<1>6. CASE Write
  BY <1>6, WriteStep
<1>7. CASE WriteFails
  BY <1>7, WriteFailsStep
<1>8. CASE Sync
  BY <1>8, SyncStep
<1>9. CASE SyncFails
  BY <1>9, SyncFailsStep
<1>10. CASE Notify
  BY <1>10, NotifyStep
<1>11. CASE NotifyFailure \/ TimerSyncFails \/ DrainFails
  BY <1>11, FailureSteps
<1>12. CASE TimerSync \/ Drain
  BY <1>12, IdleSteps
<1>13. CASE Kill \/ PowerLoss
  BY <1>13, CrashStep
<1>14. CASE UNCHANGED vars
  <2>1. UNCHANGED <<mode, queue, pc, entries, notifiers, log, synced, order, answers>>
    BY <1>14 DEF vars
  <2> QED BY <2>1, StutterStep
<1> QED BY <1>1, <1>2, <1>3, <1>4, <1>5, <1>6, <1>7, <1>8, <1>9, <1>10, <1>11,
           <1>12, <1>13, <1>14 DEF Next, LoopStep

\* The loop's invariant holds of every run.
THEOREM LoopInvariant == Spec => []LoopInv
BY LoopInit, LoopStepInv, PTL DEF Spec

\* In SYNC mode commit_loop acknowledges a write only when all its entries
\* have been fsynced, whatever the windows, rotations and failures around it.
THEOREM AcksAreDurable == Spec => []AckedAreSynced
<1>1. LoopInv => AckedAreSynced
  BY DEF LoopInv
<1> QED BY <1>1, LoopInvariant, PTL

\* append_batch writes the entries in the order the channel took the requests,
\* and nothing after a window that failed.
THEOREM LogOrdered == Spec => []LogInSubmissionOrder
<1>1. LoopInv => LogInSubmissionOrder
  BY DEF LoopInv
<1> QED BY <1>1, LoopInvariant, PTL

\* The waiters are answered in the order of submission, and once one of them
\* gets an error nobody behind it gets an acknowledgement.
THEOREM AcksAreFirst == Spec => []NoAckAfterFailure
<1>1. LoopInv => NoAckAfterFailure
  <2> SUFFICES ASSUME LoopInv, NEW i \in DOMAIN order, NEW j \in DOMAIN order,
                      i < j, answers[order[j]] = "ok"
               PROVE  answers[order[i]] = "ok"
    BY DEF NoAckAfterFailure
  <2>1. DOMAIN order = 1 .. Len(order) /\ Len(order) \in Nat
    BY LenProperties DEF LoopInv, TypeOK
  <2>2. PICK a \in 0 .. Len(order) : \A k \in 1 .. Len(order) :
            answers[order[k]] = "ok" <=> k <= a
    BY DEF LoopInv, AckedFirst
  <2> QED BY <2>1, <2>2
<1> QED BY <1>1, LoopInvariant, PTL

-----------------------------------------------------------------------------
(* Sequences *)

\* A non-empty set of numbers has a least element.
LEMMA LeastNumber ==
    ASSUME NEW S, S \subseteq Nat, S # {}
    PROVE  \E x \in S : \A y \in S : x <= y
<1> DEFINE Lower == OpToRel(<, Nat)
<1>1. PICK x \in S : \A y \in S : <<y, x>> \notin Lower
  BY NatLessThanWellFounded, WFMin
<1>2. Lower = {p \in Nat \X Nat : p[1] < p[2]}
  BY Zenon DEF OpToRel
<1> HIDE DEF Lower
<1>3. \A y \in S : ~(y < x)
  BY <1>1, <1>2
<1> QED BY <1>3

\* The function FlattenSeq computes exists: the sequences up to the i-th, one
\* after the other.
LEMMA FlattenExists ==
    ASSUME NEW seqs, NEW m \in Nat
    PROVE  \E f : f = [i \in 1 .. m |->
                          IF i = 1 THEN seqs[i] ELSE f[i-1] \o seqs[i]]
<1> DEFINE Good(n) == \E f : f = [i \in 1 .. n |->
                                     IF i = 1 THEN seqs[i] ELSE f[i-1] \o seqs[i]]
           Bad == {n \in Nat : ~Good(n)}
<1>1. Good(0)
  <2> DEFINE f == [i \in 1 .. 0 |-> seqs[i]]
  <2>1. f = [i \in 1 .. 0 |-> IF i = 1 THEN seqs[i] ELSE f[i-1] \o seqs[i]]
    OBVIOUS
  <2> QED BY <2>1
<1>2. ASSUME NEW n \in Nat, Good(n) PROVE Good(n + 1)
  <2>1. PICK f : f = [i \in 1 .. n |-> IF i = 1 THEN seqs[i] ELSE f[i-1] \o seqs[i]]
    BY <1>2
  <2> DEFINE last == IF n + 1 = 1 THEN seqs[n + 1] ELSE f[n] \o seqs[n + 1]
             g == [i \in 1 .. n + 1 |-> IF i = n + 1 THEN last ELSE f[i]]
  <2>2. ASSUME NEW i \in 1 .. n + 1
        PROVE  g[i] = IF i = 1 THEN seqs[i] ELSE g[i-1] \o seqs[i]
    <3>1. CASE i = n + 1
      <4>1. g[i] = last
        BY <3>1
      <4>2. i # 1 => g[i - 1] = f[n] /\ i - 1 = n
        BY <3>1
      <4> HIDE DEF g
      <4> QED BY <3>1, <4>1, <4>2
    <3>2. CASE i # n + 1
      <4>1. i \in 1 .. n
        BY <3>2
      <4>2. f[i] = IF i = 1 THEN seqs[i] ELSE f[i-1] \o seqs[i]
        BY <2>1, <4>1
      <4>3. g[i] = f[i] /\ (i # 1 => g[i - 1] = f[i - 1])
        BY <4>1
      <4> HIDE DEF g
      <4> QED BY <4>2, <4>3
    <3> QED BY <3>1, <3>2
  <2>3. g = [i \in 1 .. n + 1 |-> g[i]]
    OBVIOUS
  <2> HIDE DEF g
  <2>4. g = [i \in 1 .. n + 1 |-> IF i = 1 THEN seqs[i] ELSE g[i-1] \o seqs[i]]
    BY <2>2, <2>3
  <2> QED BY <2>4
<1> HIDE DEF Good
<1>3. Bad = {}
  <2> SUFFICES ASSUME Bad # {} PROVE FALSE
    OBVIOUS
  <2>1. PICK n \in Bad : \A k \in Bad : n <= k
    BY LeastNumber
  <2>2. n # 0
    BY <1>1
  <2>3. n - 1 \in Nat /\ n - 1 \notin Bad
    BY <2>1, <2>2
  <2>4. Good(n - 1) /\ (n - 1) + 1 = n
    BY <2>3
  <2> QED BY <1>2, <2>1, <2>3, <2>4
<1> QED BY <1>3 DEF Good

\* Two sequences flattened are one after the other.
LEMMA FlattenTwo ==
    ASSUME NEW seqs, Len(seqs) = 2
    PROVE  FlattenSeq(seqs) = seqs[1] \o seqs[2]
<1> DEFINE Rec(f) == [i \in 1 .. Len(seqs) |->
                         IF i = 1 THEN seqs[i] ELSE f[i-1] \o seqs[i]]
           flat == CHOOSE f : f = Rec(f)
<1>0. Len(seqs) \in Nat
  OBVIOUS
<1>1. \E f : f = Rec(f)
  BY <1>0, FlattenExists
<1>2. flat = Rec(flat)
  BY <1>1
<1>3. FlattenSeq(seqs) = flat[2]
  BY DEF FlattenSeq
<1> HIDE DEF flat
<1>4. flat[1] = seqs[1] /\ flat[2] = flat[1] \o seqs[2]
  BY <1>2
<1> QED BY <1>3, <1>4

-----------------------------------------------------------------------------
(* Segments *)

\* The cells a segment of entries from S may hold.
CellsOf(S) == [cell : {"length", "body", "crc"}, of : S]

\* An entry is encoded in three cells.
LEMMA EncodedEntry ==
    ASSUME NEW S, NEW e \in S
    PROVE  /\ encode(e) \in Seq(CellsOf(S)) /\ Len(encode(e)) = 3
           /\ encode(e)[1] = [cell |-> "length", of |-> e]
           /\ encode(e)[2] = [cell |-> "body", of |-> e]
           /\ encode(e)[3] = [cell |-> "crc", of |-> e]
BY DEF encode, CellsOf

\* Flattening sequences of three elements: the j-th of them takes the places
\* up to 3 * j.
LEMMA FlattenTriples ==
    ASSUME NEW S, NEW seqs \in Seq(Seq(S)),
           \A j \in 1 .. Len(seqs) : Len(seqs[j]) = 3
    PROVE  /\ FlattenSeq(seqs) \in Seq(S)
           /\ Len(FlattenSeq(seqs)) = 3 * Len(seqs)
           /\ \A j \in 1 .. Len(seqs) : \A c \in 1 .. 3 :
                 FlattenSeq(seqs)[3 * (j - 1) + c] = seqs[j][c]
<1>0. Len(seqs) \in Nat /\ \A k \in 1 .. Len(seqs) : seqs[k] \in Seq(S)
  BY LenProperties, ElementOfSeq
<1>1. CASE Len(seqs) = 0
  <2>1. seqs = <<>> /\ FlattenSeq(seqs) = <<>>
    BY <1>1, EmptySeq DEF FlattenSeq
  <2>2. FlattenSeq(seqs) \in Seq(S) /\ Len(FlattenSeq(seqs)) = 0
    BY <2>1, EmptySeq
  <2>3. 3 * Len(seqs) = 0 /\ 1 .. Len(seqs) = {}
    BY <1>1
  <2> QED BY <2>2, <2>3
<1>2. CASE Len(seqs) # 0
  <2> DEFINE Rec(f) == [i \in 1 .. Len(seqs) |->
                           IF i = 1 THEN seqs[i] ELSE f[i-1] \o seqs[i]]
             flat == CHOOSE f : f = Rec(f)
  <2>1. \E f : f = Rec(f)
    BY <1>0, FlattenExists
  <2>2. flat = Rec(flat)
    BY <2>1
  <2>3. FlattenSeq(seqs) = flat[Len(seqs)]
    BY <1>2 DEF FlattenSeq
  <2> HIDE DEF flat
  <2>4. \A i \in 1 .. Len(seqs) :
            flat[i] = IF i = 1 THEN seqs[i] ELSE flat[i-1] \o seqs[i]
    BY <2>2
  <2> HIDE DEF Rec
  <2> DEFINE Good(i) == /\ flat[i] \in Seq(S) /\ Len(flat[i]) = 3 * i
                        /\ \A j \in 1 .. i : \A c \in 1 .. 3 :
                              flat[i][3 * (j - 1) + c] = seqs[j][c]
             Bad == {i \in 1 .. Len(seqs) : ~Good(i)}
  <2>5. Good(1)
    <3>1. flat[1] = seqs[1] /\ seqs[1] \in Seq(S) /\ Len(seqs[1]) = 3
      BY <1>0, <1>2, <2>4
    <3>2. ASSUME NEW j \in 1 .. 1, NEW c \in 1 .. 3
          PROVE  3 * (j - 1) + c = c /\ j = 1
      OBVIOUS
    <3> QED BY <3>1, <3>2
  <2>6. ASSUME NEW i \in 1 .. Len(seqs), i # 1, Good(i - 1) PROVE Good(i)
    <3> DEFINE s == flat[i-1]
               t == seqs[i]
    <3>1. /\ s \in Seq(S) /\ t \in Seq(S) /\ Len(s) = 3 * (i - 1) /\ Len(t) = 3
          /\ flat[i] = s \o t /\ i \in Nat
          /\ \A j \in 1 .. i - 1 : \A c \in 1 .. 3 : s[3 * (j - 1) + c] = seqs[j][c]
      <4>1. i \in Nat /\ t \in Seq(S) /\ Len(t) = 3
        BY <1>0
      <4>2. flat[i] = s \o t
        BY <2>4, <2>6
      <4> QED BY <2>6, <4>1, <4>2
    <3> HIDE DEF s, t
    <3>2. /\ s \o t \in Seq(S) /\ Len(s \o t) = 3 * i
          /\ \A k \in 1 .. 3 * i :
                (s \o t)[k] = IF k <= 3 * (i - 1) THEN s[k] ELSE t[k - 3 * (i - 1)]
      <4>1. Len(s) + Len(t) = 3 * i
        BY <3>1
      <4>2. /\ s \o t \in Seq(S) /\ Len(s \o t) = Len(s) + Len(t)
            /\ \A k \in 1 .. Len(s) + Len(t) :
                  (s \o t)[k] = IF k <= Len(s) THEN s[k] ELSE t[k - Len(s)]
        BY <3>1, ConcatProperties
      <4> QED BY <3>1, <4>1, <4>2
    <3>3. ASSUME NEW j \in 1 .. i, NEW c \in 1 .. 3
          PROVE  (s \o t)[3 * (j - 1) + c] = seqs[j][c]
      <4> DEFINE k == 3 * (j - 1) + c
      <4>1. CASE j = i
        <5>1. k \in 1 .. 3 * i /\ ~(k <= 3 * (i - 1)) /\ k - 3 * (i - 1) = c
          BY <3>1, <4>1
        <5> HIDE DEF k
        <5>2. (s \o t)[k] = t[k - 3 * (i - 1)]
          BY <3>2, <5>1
        <5> QED BY <4>1, <5>1, <5>2 DEF t, k
      <4>2. CASE j # i
        <5>1. k \in 1 .. 3 * i /\ k <= 3 * (i - 1) /\ j \in 1 .. i - 1
          BY <3>1, <4>2
        <5> HIDE DEF k
        <5>2. (s \o t)[k] = s[k]
          BY <3>2, <5>1
        <5> QED BY <3>1, <5>1, <5>2 DEF k
      <4> QED BY <4>1, <4>2
    <3>4. flat[i] = s \o t
      BY <3>1
    <3>5. flat[i] \in Seq(S) /\ Len(flat[i]) = 3 * i
      BY <3>2, <3>4
    <3>6. \A j \in 1 .. i : \A c \in 1 .. 3 : flat[i][3 * (j - 1) + c] = seqs[j][c]
      BY <3>3, <3>4
    <3> QED BY <3>5, <3>6
  <2> HIDE DEF Good
  <2>7. Bad = {}
    <3> SUFFICES ASSUME Bad # {} PROVE FALSE
      OBVIOUS
    <3>0. Bad \subseteq Nat
      BY <1>0
    <3>1. PICK i \in Bad : \A k \in Bad : i <= k
      BY <3>0, LeastNumber
    <3>2. i # 1 /\ i \in 1 .. Len(seqs) /\ ~Good(i)
      BY <2>5
    <3>3. i - 1 \in 1 .. Len(seqs) /\ i - 1 \notin Bad
      BY <1>0, <3>1, <3>2
    <3> QED BY <2>6, <3>2, <3>3
  <2>8. Good(Len(seqs))
    <3>1. Len(seqs) \in 1 .. Len(seqs)
      BY <1>0, <1>2
    <3> QED BY <2>7, <3>1
  <2> QED BY <2>3, <2>8 DEF Good
<1> QED BY <1>1, <1>2

\* What a segment holds when all of its entries have been written.
LEMMA CellsShape ==
    ASSUME NEW S, NEW L \in Seq(S)
    PROVE  /\ Cells(L) \in Seq(CellsOf(S)) /\ Len(Cells(L)) = 3 * Len(L)
           /\ \A j \in 1 .. Len(L) :
                 /\ Cells(L)[3 * (j - 1) + 1] = [cell |-> "length", of |-> L[j]]
                 /\ Cells(L)[3 * (j - 1) + 2] = [cell |-> "body", of |-> L[j]]
                 /\ Cells(L)[3 * (j - 1) + 3] = [cell |-> "crc", of |-> L[j]]
<1> DEFINE seqs == [i \in DOMAIN L |-> encode(L[i])]
<1>1. Len(L) \in Nat /\ DOMAIN L = 1 .. Len(L) /\ \A i \in 1 .. Len(L) : L[i] \in S
  BY LenProperties, ElementOfSeq
<1>2. \A i \in 1 .. Len(L) : encode(L[i]) \in Seq(CellsOf(S))
  BY <1>1, EncodedEntry
<1>3. /\ seqs \in Seq(Seq(CellsOf(S))) /\ Len(seqs) = Len(L)
      /\ \A i \in 1 .. Len(L) : seqs[i] = encode(L[i])
  BY <1>1, <1>2
<1>4. Cells(L) = FlattenSeq(seqs)
  BY DEF Cells
<1> HIDE DEF seqs
<1>5. \A i \in 1 .. Len(L) : Len(seqs[i]) = 3
  <2> TAKE i \in 1 .. Len(L)
  <2>1. L[i] \in S /\ seqs[i] = encode(L[i])
    BY <1>1, <1>3
  <2> QED BY <2>1, EncodedEntry
<1> DEFINE CS == CellsOf(S)
<1> HIDE DEF CS
<1>6. /\ Cells(L) \in Seq(CellsOf(S)) /\ Len(Cells(L)) = 3 * Len(L)
      /\ \A j \in 1 .. Len(L) : \A c \in 1 .. 3 :
            Cells(L)[3 * (j - 1) + c] = seqs[j][c]
  <2>1. seqs \in Seq(Seq(CS))
    BY <1>3 DEF CS
  <2>2. /\ FlattenSeq(seqs) \in Seq(CS) /\ Len(FlattenSeq(seqs)) = 3 * Len(seqs)
        /\ \A j \in 1 .. Len(seqs) : \A c \in 1 .. 3 :
              FlattenSeq(seqs)[3 * (j - 1) + c] = seqs[j][c]
    BY <1>3, <1>5, <2>1, FlattenTriples
  <2> QED BY <1>3, <1>4, <2>2 DEF CS
<1>7. ASSUME NEW j \in 1 .. Len(L)
      PROVE  /\ Cells(L)[3 * (j - 1) + 1] = encode(L[j])[1]
             /\ Cells(L)[3 * (j - 1) + 2] = encode(L[j])[2]
             /\ Cells(L)[3 * (j - 1) + 3] = encode(L[j])[3]
  <2>1. \A c \in 1 .. 3 : Cells(L)[3 * (j - 1) + c] = encode(L[j])[c]
    BY <1>3, <1>6
  <2>2. 1 \in 1 .. 3 /\ 2 \in 1 .. 3 /\ 3 \in 1 .. 3
    OBVIOUS
  <2> QED BY <2>1, <2>2
<1> QED BY <1>1, <1>6, <1>7, EncodedEntry

\* The reader finds an entry only where all three cells of it are there.
LEMMA EntryIsWhole ==
    ASSUME NEW image, NEW pos, next_entry(image, pos) = "entry"
    PROVE  /\ ~(pos > Len(image)) /\ ~(pos + 2 > Len(image)) /\ image[pos] # Zero
           /\ validate_crc(image[pos + 1], image[pos + 2])
BY DEF next_entry, Damaged

\* The function entries_of computes exists: what is read from each position on.
LEMMA ReadExists ==
    ASSUME NEW image, Len(image) \in Nat
    PROVE  \E f : f = [pos \in 1 .. Len(image) + 1 |->
               IF next_entry(image, pos) = "entry"
               THEN [f[pos + 3] EXCEPT !.entries = <<decode_body(image[pos + 1])>> \o @]
               ELSE [ok |-> next_entry(image, pos) = "end", entries |-> <<>>]]
<1> DEFINE N == Len(image)
           At(p) == next_entry(image, p) = "entry"
           More(x, p) == [x EXCEPT !.entries = <<decode_body(image[p + 1])>> \o @]
           Done(p) == [ok |-> next_entry(image, p) = "end", entries |-> <<>>]
           From(n) == (N + 2) - n .. N + 1
           Good(n) == \E f : f = [pos \in From(n) |->
                                     IF At(pos) THEN More(f[pos + 3], pos) ELSE Done(pos)]
           Bad == {n \in Nat : ~Good(n)}
<1>0. \A p \in Int : At(p) => p + 3 <= N + 1
  <2> SUFFICES ASSUME NEW p \in Int, At(p) PROVE p + 3 <= N + 1
    OBVIOUS
  <2>1. ~(p + 2 > N)
    BY EntryIsWhole
  <2> HIDE DEF N
  <2>2. N \in Nat
    BY DEF N
  <2> QED BY <2>1, <2>2
<1>n. N \in Nat
  OBVIOUS
<1> HIDE DEF N, At, More, Done
<1>1. Good(0)
  <2> DEFINE f == [i \in From(0) |-> Done(i)]
  <2>1. From(0) = {}
    BY <1>n
  <2>2. f = [pos \in From(0) |-> IF At(pos) THEN More(f[pos + 3], pos) ELSE Done(pos)]
    BY <2>1
  <2> QED BY <2>2
<1>2. ASSUME NEW n \in Nat, Good(n) PROVE Good(n + 1)
  <2>1. PICK f : f = [pos \in From(n) |->
                         IF At(pos) THEN More(f[pos + 3], pos) ELSE Done(pos)]
    BY <1>2
  <2> DEFINE new == N + 1 - n
             g == [i \in From(n + 1) |->
                     IF i = new THEN IF At(new) THEN More(f[new + 3], new) ELSE Done(new)
                     ELSE f[i]]
  <2>2. /\ new \in Int /\ new \in From(n + 1)
        /\ \A i \in From(n + 1) : i \in Int /\ (i # new => i \in From(n))
        /\ \A i \in From(n + 1) : i + 3 <= N + 1 =>
              i + 3 \in From(n + 1) /\ i + 3 # new
    BY <1>n
  <2> HIDE DEF From, new
  <2>3. ASSUME NEW i \in From(n + 1)
        PROVE  g[i] = IF At(i) THEN More(g[i + 3], i) ELSE Done(i)
    <3>1. At(i) => g[i + 3] = f[i + 3]
      BY <1>0, <2>2
    <3>2. CASE i = new
      <4>1. g[i] = IF At(i) THEN More(f[i + 3], i) ELSE Done(i)
        BY <2>2, <3>2
      <4> HIDE DEF g
      <4> QED BY <3>1, <4>1
    <3>3. CASE i # new
      <4>1. g[i] = f[i] /\ i \in From(n)
        BY <2>2, <3>3
      <4>2. f[i] = IF At(i) THEN More(f[i + 3], i) ELSE Done(i)
        BY <2>1, <4>1
      <4> HIDE DEF g
      <4> QED BY <3>1, <4>1, <4>2
    <3> QED BY <3>2, <3>3
  <2>4. g = [i \in From(n + 1) |-> g[i]]
    OBVIOUS
  <2> HIDE DEF g
  <2>5. g = [i \in From(n + 1) |-> IF At(i) THEN More(g[i + 3], i) ELSE Done(i)]
    BY <2>3, <2>4
  <2> QED BY <2>5
<1> HIDE DEF Good
<1>3. Bad = {}
  <2> SUFFICES ASSUME Bad # {} PROVE FALSE
    OBVIOUS
  <2>1. PICK n \in Bad : \A k \in Bad : n <= k
    BY LeastNumber
  <2>2. n # 0
    BY <1>1
  <2>3. n - 1 \in Nat /\ n - 1 \notin Bad
    BY <2>1, <2>2
  <2>4. Good(n - 1) /\ (n - 1) + 1 = n
    BY <2>3
  <2> QED BY <1>2, <2>1, <2>3, <2>4
<1>4. Good(N + 1)
  BY <1>n, <1>3
<1>5. From(N + 1) = 1 .. N + 1
  BY <1>n
<1>6. \E f : f = [pos \in 1 .. N + 1 |->
                     IF At(pos) THEN More(f[pos + 3], pos) ELSE Done(pos)]
  BY <1>4, <1>5 DEF Good
<1> QED BY <1>6 DEF N, At, More, Done

\* read[pos] is what SegmentReader reads of the image from pos on.
Reads(read, image) ==
    /\ entries_of(image) = read[1]
    /\ \A pos \in 1 .. Len(image) + 1 : read[pos] =
          IF next_entry(image, pos) = "entry"
          THEN [read[pos + 3] EXCEPT !.entries = <<decode_body(image[pos + 1])>> \o @]
          ELSE [ok |-> next_entry(image, pos) = "end", entries |-> <<>>]

\* A segment is read entry after entry.
LEMMA ReadOnce ==
    ASSUME NEW image, Len(image) \in Nat PROVE \E read : Reads(read, image)
<1> DEFINE Rec(f) == [pos \in 1 .. Len(image) + 1 |->
               IF next_entry(image, pos) = "entry"
               THEN [f[pos + 3] EXCEPT !.entries = <<decode_body(image[pos + 1])>> \o @]
               ELSE [ok |-> next_entry(image, pos) = "end", entries |-> <<>>]]
           read == CHOOSE f : f = Rec(f)
<1>1. \E f : f = Rec(f)
  BY ReadExists
<1>2. read = Rec(read)
  BY <1>1
<1>3. entries_of(image) = read[1]
  BY DEF entries_of
<1> HIDE DEF read
<1>4. \A pos \in 1 .. Len(image) + 1 : read[pos] =
          IF next_entry(image, pos) = "entry"
          THEN [read[pos + 3] EXCEPT !.entries = <<decode_body(image[pos + 1])>> \o @]
          ELSE [ok |-> next_entry(image, pos) = "end", entries |-> <<>>]
  BY <1>2
<1>5. Reads(read, image)
  BY <1>3, <1>4 DEF Reads
<1> QED BY <1>5

\* s is what L holds after its first m elements, or a first part of it.
PartFrom(s, L, m) ==
    /\ Len(s) <= Len(L) - m
    /\ \A i \in 1 .. Len(s) : s[i] = L[m + i]

\* An entry whose three cells are whole is read as it was written; one of
\* which a cell is missing is never taken for an entry.
LEMMA OneEntry ==
    ASSUME NEW S, NEW L \in Seq(S), NEW image, Len(image) \in Nat,
           NEW m \in 0 .. Len(L) - 1, 3 * m + 3 <= Len(image),
           \A i \in 1 .. Len(image) : image[i] \in {Cells(L)[i], Zero}
    PROVE  /\ next_entry(image, 3 * m + 1) = "entry" =>
                 decode_body(image[3 * m + 1 + 1]) = L[m + 1]
           /\ (\A i \in 3 * m + 1 .. 3 * m + 3 : image[i] = Cells(L)[i]) =>
                 next_entry(image, 3 * m + 1) = "entry"
<1> DEFINE pos == 3 * m + 1
<1>0. Len(L) \in Nat
  BY LenProperties
<1>1. /\ m \in Nat /\ m + 1 \in 1 .. Len(L)
      /\ 3 * ((m + 1) - 1) + 1 = pos /\ 3 * ((m + 1) - 1) + 2 = pos + 1
      /\ 3 * ((m + 1) - 1) + 3 = pos + 2
      /\ pos \in 1 .. Len(image) /\ pos + 1 \in 1 .. Len(image)
      /\ pos + 2 \in 1 .. Len(image) /\ ~(pos > Len(image)) /\ ~(pos + 2 > Len(image))
      /\ {pos, pos + 1, pos + 2} \subseteq 3 * m + 1 .. 3 * m + 3
  BY <1>0
<1> HIDE DEF pos
<1>2. /\ Cells(L)[pos] = [cell |-> "length", of |-> L[m + 1]]
      /\ Cells(L)[pos + 1] = [cell |-> "body", of |-> L[m + 1]]
      /\ Cells(L)[pos + 2] = [cell |-> "crc", of |-> L[m + 1]]
  <2>1. /\ Cells(L)[3 * ((m + 1) - 1) + 1] = [cell |-> "length", of |-> L[m + 1]]
        /\ Cells(L)[3 * ((m + 1) - 1) + 2] = [cell |-> "body", of |-> L[m + 1]]
        /\ Cells(L)[3 * ((m + 1) - 1) + 3] = [cell |-> "crc", of |-> L[m + 1]]
    BY <1>1, CellsShape
  <2> QED BY <1>1, <2>1
<1>3. ASSUME next_entry(image, pos) = "entry" PROVE decode_body(image[pos + 1]) = L[m + 1]
  <2>1. image[pos + 1].cell = "body"
    BY <1>3, EntryIsWhole DEF validate_crc
  <2>2. image[pos + 1] # Zero
    BY <2>1 DEF Zero
  <2>3. image[pos + 1] = Cells(L)[pos + 1]
    BY <1>1, <2>2
  <2> QED BY <1>2, <2>3 DEF decode_body
<1>4. ASSUME \A i \in 3 * m + 1 .. 3 * m + 3 : image[i] = Cells(L)[i]
      PROVE  next_entry(image, pos) = "entry"
  <2>1. /\ image[pos] = Cells(L)[pos] /\ image[pos + 1] = Cells(L)[pos + 1]
        /\ image[pos + 2] = Cells(L)[pos + 2]
    BY <1>1, <1>4
  <2>2. image[pos].cell = "length" /\ image[pos + 1].cell = "body"
        /\ image[pos + 2].cell = "crc"
    BY <1>2, <2>1
  <2>3. image[pos] # Zero
    BY <2>2 DEF Zero
  <2>4. validate_crc(image[pos + 1], image[pos + 2])
    BY <2>2 DEF validate_crc
  <2> QED BY <1>1, <2>3, <2>4 DEF next_entry
<1> QED BY <1>3, <1>4 DEF pos

\* An entry in front of a part of L.
LEMMA PartExtended ==
    ASSUME NEW S, NEW L \in Seq(S), NEW m \in 0 .. Len(L) - 1, NEW s \in Seq(S),
           PartFrom(s, L, m + 1)
    PROVE  /\ <<L[m + 1]>> \o s \in Seq(S)
           /\ Len(<<L[m + 1]>> \o s) = Len(s) + 1
           /\ PartFrom(<<L[m + 1]>> \o s, L, m)
<1> DEFINE h == <<L[m + 1]>>
<1>0. Len(L) \in Nat /\ Len(s) \in Nat
  BY LenProperties
<1>1. L[m + 1] \in S
  BY <1>0, ElementOfSeq
<1>2. h \in Seq(S) /\ Len(h) = 1 /\ h[1] = L[m + 1]
  BY <1>1
<1> HIDE DEF h
<1>3. /\ h \o s \in Seq(S) /\ Len(h \o s) = Len(s) + 1
      /\ \A i \in 1 .. Len(s) + 1 : (h \o s)[i] = IF i <= 1 THEN h[i] ELSE s[i - 1]
  <2>1. /\ h \o s \in Seq(S) /\ Len(h \o s) = Len(h) + Len(s)
        /\ \A i \in 1 .. Len(h) + Len(s) :
              (h \o s)[i] = IF i <= Len(h) THEN h[i] ELSE s[i - Len(h)]
    BY <1>2, ConcatProperties
  <2>2. Len(h) + Len(s) = Len(s) + 1
    BY <1>0, <1>2
  <2> QED BY <1>2, <2>1, <2>2
<1>4. ASSUME NEW i \in 1 .. Len(s) + 1 PROVE (h \o s)[i] = L[m + i]
  <2>1. CASE i = 1
    BY <1>2, <1>3, <2>1
  <2>2. CASE i # 1
    <3>1. i - 1 \in 1 .. Len(s) /\ ~(i <= 1) /\ (m + 1) + (i - 1) = m + i
      BY <1>0, <2>2
    <3>2. s[i - 1] = L[(m + 1) + (i - 1)]
      BY <3>1 DEF PartFrom
    <3> QED BY <1>3, <3>1, <3>2
  <2> QED BY <2>1, <2>2
<1>5. Len(s) + 1 <= Len(L) - m
  BY <1>0 DEF PartFrom
<1> QED BY <1>3, <1>4, <1>5 DEF PartFrom, h

\* An image of a segment that holds L, whose first k entries are undamaged.
SoundUpTo(image, L, k) ==
    /\ Len(image) \in Nat /\ 3 * k <= Len(image) /\ Len(image) <= 3 * Len(L)
    /\ \A i \in 1 .. Len(image) : image[i] \in {Cells(L)[i], Zero}
    /\ \A i \in 1 .. 3 * k : image[i] = Cells(L)[i]

\* What SegmentReader finds in a segment of which nothing before the k-th
\* entry's end was damaged: a first part of the entries, with the first k in it,
\* and no error when nothing was damaged at all.
LEMMA ReadSegment ==
    ASSUME NEW S, NEW L \in Seq(S), NEW image, NEW k \in Nat, SoundUpTo(image, L, k)
    PROVE  /\ entries_of(image) \in [ok : BOOLEAN, entries : Seq(S)]
           /\ PartFrom(entries_of(image).entries, L, 0)
           /\ Len(entries_of(image).entries) >= k
           /\ (\A i \in 1 .. Len(image) : image[i] = Cells(L)[i]) => entries_of(image).ok
<1> DEFINE n == Len(image)
           Intact == \A i \in 1 .. Len(image) : image[i] = Cells(L)[i]
           Next1(p) == next_entry(image, p)
<1>9. /\ Len(image) \in Nat /\ 3 * k <= Len(image) /\ Len(image) <= 3 * Len(L)
      /\ \A i \in 1 .. Len(image) : image[i] \in {Cells(L)[i], Zero}
      /\ \A i \in 1 .. 3 * k : image[i] = Cells(L)[i]
  BY DEF SoundUpTo
<1>0. Len(L) \in Nat /\ n \in Nat
  BY <1>9, LenProperties
<1>1. PICK read : Reads(read, image)
  BY <1>9, ReadOnce
<1> DEFINE Good(m) == /\ read[3 * m + 1] \in [ok : BOOLEAN, entries : Seq(S)]
                      /\ PartFrom(read[3 * m + 1].entries, L, m)
                      /\ Len(read[3 * m + 1].entries) >= k - m
                      /\ Intact => read[3 * m + 1].ok
<1>2. ASSUME NEW m \in Nat, 3 * m <= n, 3 * (m + 1) <= n => Good(m + 1)
      PROVE  Good(m)
  <2> DEFINE pos == 3 * m + 1
  <2>0. 3 * m <= n /\ 3 * k <= n /\ n <= 3 * Len(L)
    BY <1>9, <1>2
  <2>1. pos \in 1 .. n + 1 /\ m <= Len(L)
    BY <1>0, <2>0
  <2>2. CASE Next1(pos) = "entry"
    <3>1. ~(pos + 2 > n)
      BY <2>2, EntryIsWhole
    <3>2. /\ 3 * m + 3 <= n /\ 3 * (m + 1) <= n /\ m \in 0 .. Len(L) - 1
          /\ pos + 3 = 3 * (m + 1) + 1
      BY <1>0, <2>0, <3>1
    <3>3. decode_body(image[pos + 1]) = L[m + 1]
      BY <2>2, <3>2, <1>9, OneEntry
    <3> DEFINE r == read[3 * (m + 1) + 1]
               h == <<L[m + 1]>>
    <3>4. read[pos] = [r EXCEPT !.entries = h \o @]
      <4>1. read[pos] = [read[pos + 3] EXCEPT !.entries =
                            <<decode_body(image[pos + 1])>> \o @]
        BY <1>1, <2>1, <2>2 DEF Reads
      <4> QED BY <3>2, <3>3, <4>1
    <3>5. /\ r \in [ok : BOOLEAN, entries : Seq(S)] /\ PartFrom(r.entries, L, m + 1)
          /\ Len(r.entries) >= k - (m + 1) /\ (Intact => r.ok)
      BY <1>2, <3>2
    <3> HIDE DEF r, Intact
    <3>6. /\ h \o r.entries \in Seq(S) /\ Len(h \o r.entries) = Len(r.entries) + 1
          /\ PartFrom(h \o r.entries, L, m)
      <4> DEFINE es == r.entries
      <4>1. es \in Seq(S) /\ PartFrom(es, L, m + 1)
        BY <3>5
      <4> HIDE DEF es
      <4>2. /\ h \o es \in Seq(S) /\ Len(h \o es) = Len(es) + 1
            /\ PartFrom(h \o es, L, m)
        BY <3>2, <4>1, PartExtended, SMTT(30)
      <4> QED BY <4>2 DEF es
    <3>7. Len(r.entries) \in Nat
      BY <3>5, LenProperties
    <3> HIDE DEF h
    <3>8. /\ read[pos] = [ok |-> r.ok, entries |-> h \o r.entries]
      BY <3>4, <3>5
    <3>9. read[pos].ok = r.ok /\ read[pos].entries = h \o r.entries
          /\ read[pos] \in [ok : BOOLEAN, entries : Seq(S)]
      <4>1. r.ok \in BOOLEAN
        BY <3>5
      <4> DEFINE es == h \o r.entries
      <4>2. es \in Seq(S) /\ read[pos] = [ok |-> r.ok, entries |-> es]
        BY <3>6, <3>8
      <4> HIDE DEF es
      <4>3. read[pos].ok = r.ok /\ read[pos].entries = es
            /\ read[pos] \in [ok : BOOLEAN, entries : Seq(S)]
        BY <4>1, <4>2
      <4> QED BY <4>3 DEF es
    <3>10. Len(read[pos].entries) >= k - m
      BY <3>5, <3>6, <3>7, <3>9
    <3> QED BY <3>5, <3>6, <3>9, <3>10
  <2>3. CASE Next1(pos) # "entry"
    <3>1. read[pos] = [ok |-> Next1(pos) = "end", entries |-> <<>>]
      BY <1>1, <2>1, <2>3 DEF Reads
    <3>2. read[pos].ok = (Next1(pos) = "end") /\ read[pos].entries = <<>>
          /\ read[pos] \in [ok : BOOLEAN, entries : Seq(S)]
      BY <3>1, EmptySeq
    <3>3. PartFrom(<<>>, L, m) /\ Len(<<>>) = 0
      BY <1>0, <2>1 DEF PartFrom
    <3>4. ~(m < k)
      <4> SUFFICES ASSUME m < k PROVE FALSE
        OBVIOUS
      <4>1. /\ 3 * m + 3 <= n /\ m \in 0 .. Len(L) - 1
            /\ 3 * m + 1 .. 3 * m + 3 \subseteq 1 .. 3 * k
        BY <1>0, <2>0
      <4>2. \A i \in 3 * m + 1 .. 3 * m + 3 : image[i] = Cells(L)[i]
        BY <1>9, <4>1
      <4>3. next_entry(image, 3 * m + 1) = "entry"
        BY <4>1, <4>2, <1>9, OneEntry
      <4> QED BY <2>3, <4>3
    <3>5. Intact => Next1(pos) = "end"
      <4> SUFFICES ASSUME Intact PROVE Next1(pos) = "end"
        OBVIOUS
      <4>1. CASE pos + 2 > n
        BY <4>1 DEF next_entry
      <4>2. CASE ~(pos + 2 > n)
        <5>1. /\ 3 * m + 3 <= n /\ m \in 0 .. Len(L) - 1
              /\ 3 * m + 1 .. 3 * m + 3 \subseteq 1 .. n
          BY <1>0, <2>0, <4>2
        <5>2. \A i \in 3 * m + 1 .. 3 * m + 3 : image[i] = Cells(L)[i]
          BY <5>1
        <5>3. next_entry(image, 3 * m + 1) = "entry"
          BY <5>1, <5>2, <1>9, OneEntry
        <5> QED BY <2>3, <5>3
      <4> QED BY <4>1, <4>2
    <3> HIDE DEF Intact
    <3>6. 0 >= k - m
      BY <1>2, <3>4
    <3> QED BY <3>2, <3>3, <3>5, <3>6
  <2> QED BY <2>2, <2>3
<1> HIDE DEF Good, Next1, Intact
<1> DEFINE Bad == {j \in 0 .. n : 3 * (n - j) <= n /\ ~Good(n - j)}
<1>3. Bad = {}
  <2> SUFFICES ASSUME Bad # {} PROVE FALSE
    OBVIOUS
  <2>1. Bad \subseteq Nat
    BY <1>0
  <2>2. PICK j \in Bad : \A i \in Bad : j <= i
    BY <2>1, LeastNumber
  <2> DEFINE m == n - j
  <2>3. m \in Nat /\ 3 * m <= n /\ ~Good(m) /\ j \in 0 .. n
    BY <1>0, <2>2
  <2>4. 3 * (m + 1) <= n => Good(m + 1)
    <3> SUFFICES ASSUME 3 * (m + 1) <= n PROVE Good(m + 1)
      OBVIOUS
    <3>1. /\ j - 1 \in 0 .. n /\ n - (j - 1) = m + 1 /\ ~(j <= j - 1)
      BY <1>0, <2>3
    <3>2. j - 1 \notin Bad
      BY <2>2, <3>1
    <3> QED BY <3>1, <3>2
  <2> QED BY <1>2, <2>3, <2>4
<1>4. Good(0)
  <2>1. n \in 0 .. n /\ n - n = 0 /\ 3 * 0 <= n
    BY <1>0
  <2>2. n \notin Bad
    BY <1>3
  <2> QED BY <2>1, <2>2
<1>5. 3 * 0 + 1 = 1 /\ k - 0 = k
  OBVIOUS
<1>6. entries_of(image) = read[1]
  BY <1>1 DEF Reads
<1> QED BY <1>4, <1>5, <1>6 DEF Good, Intact

\* Replaying two segments: both must be readable, and their entries follow.
LEMMA ReplayTwo ==
    ASSUME NEW a, NEW b
    PROVE  LET r == replay_all(<<a, b>>)
           IN  /\ r.ok <=> /\ a.header /\ entries_of(a.cells).ok
                           /\ b.header /\ entries_of(b.cells).ok
               /\ r.entries = entries_of(a.cells).entries \o entries_of(b.cells).entries
<1> DEFINE segs == <<a, b>>
           seqs == [i \in DOMAIN segs |-> entries_of(segs[i].cells).entries]
           r == replay_all(segs)
<1>1. DOMAIN segs = 1 .. 2 /\ segs[1] = a /\ segs[2] = b
  OBVIOUS
<1>2. r.ok = \A i \in DOMAIN segs : open(segs[i]) /\ entries_of(segs[i].cells).ok
  BY DEF replay_all
<1>3. r.entries = FlattenSeq(seqs)
  BY DEF replay_all
<1> HIDE DEF segs, r
<1>4. seqs = [i \in 1 .. 2 |-> entries_of(segs[i].cells).entries]
  BY <1>1
<1>5. Len(seqs) = 2 /\ seqs[1] = entries_of(a.cells).entries
      /\ seqs[2] = entries_of(b.cells).entries
  BY <1>1, <1>4
<1> HIDE DEF seqs
<1>6. r.entries = entries_of(a.cells).entries \o entries_of(b.cells).entries
  BY <1>3, <1>5, FlattenTwo
<1>7. (\A i \in DOMAIN segs : open(segs[i]) /\ entries_of(segs[i].cells).ok) <=>
        /\ a.header /\ entries_of(a.cells).ok
        /\ b.header /\ entries_of(b.cells).ok
  <2>1. \A i \in DOMAIN segs : i = 1 \/ i = 2
    BY <1>1
  <2>2. 1 \in DOMAIN segs /\ 2 \in DOMAIN segs
    BY <1>1
  <2> QED BY <1>1, <2>1, <2>2 DEF open
<1> QED BY <1>2, <1>6, <1>7 DEF r, segs

-----------------------------------------------------------------------------
(* Crashes *)

\* An entry in the log, and one that is being written.
LogEntries == Requests \X Nat
Rotated == SubSeq(log, 1, base)
Written == SubSeq(log, base + 1, Len(log)) \o entries

\* The rotated segments and the current one hold the log, one after the other.
LEMMA LogSplit ==
    ASSUME TypeOK, SegmentsInv
    PROVE  /\ Rotated \in Seq(LogEntries) /\ Len(Rotated) = base
           /\ Written \in Seq(LogEntries) /\ base \in Nat /\ Len(log) \in Nat
           /\ synced \in Nat /\ base <= synced /\ synced <= Len(log)
           /\ log \o entries \in Seq(LogEntries)
           /\ Len(log \o entries) = base + Len(Written)
           /\ Len(Written) \in Nat /\ Len(log) - base <= Len(Written)
           /\ \A i \in 1 .. base : (log \o entries)[i] = Rotated[i]
           /\ \A i \in 1 .. Len(Written) : (log \o entries)[base + i] = Written[i]
           /\ \A i \in 1 .. Len(log) : (log \o entries)[i] = log[i]
<1> DEFINE E == LogEntries
<1>1. /\ log \in Seq(E) /\ entries \in Seq(E) /\ synced \in 0 .. Len(log)
      /\ base \in 0 .. synced
  BY DEF TypeOK, SegmentsInv, LogEntries
<1> HIDE DEF E
<1>2. /\ Len(log) \in Nat /\ Len(entries) \in Nat /\ base \in Nat /\ synced \in Nat
      /\ base <= synced /\ synced <= Len(log)
      /\ \A i \in 1 .. Len(log) : log[i] \in E
  BY <1>1, LenProperties, ElementOfSeq
<1>3. /\ Rotated \in Seq(E) /\ Len(Rotated) = base
      /\ \A i \in 1 .. base : Rotated[i] = log[i]
  <2>1. \A i \in 1 .. base : log[i] \in E
    BY <1>2
  <2>2. /\ SubSeq(log, 1, base) \in Seq(E)
        /\ Len(SubSeq(log, 1, base)) = IF 1 <= base THEN base - 1 + 1 ELSE 0
        /\ \A i \in 1 .. base - 1 + 1 : SubSeq(log, 1, base)[i] = log[1 + i - 1]
    BY <1>2, <2>1, SubSeqProperties
  <2> QED BY <1>2, <2>2 DEF Rotated
<1> DEFINE T == SubSeq(log, base + 1, Len(log))
           N == Len(log) - base
<1>4. /\ T \in Seq(E) /\ Len(T) = N /\ N \in Nat
      /\ \A i \in 1 .. N : T[i] = log[base + i]
  <2>1. \A i \in base + 1 .. Len(log) : log[i] \in E
    BY <1>2
  <2>2. /\ T \in Seq(E)
        /\ Len(T) = IF base + 1 <= Len(log) THEN Len(log) - (base + 1) + 1 ELSE 0
        /\ \A i \in 1 .. Len(log) - (base + 1) + 1 : T[i] = log[base + 1 + i - 1]
    BY <1>2, <2>1, SubSeqProperties
  <2> QED BY <1>2, <2>2
<1>5. Written = T \o entries
  BY DEF Written
<1> HIDE DEF T
<1>6. /\ Written \in Seq(E) /\ Len(Written) = N + Len(entries)
      /\ \A i \in 1 .. N + Len(entries) :
            Written[i] = IF i <= N THEN T[i] ELSE entries[i - N]
  <2> HIDE DEF N
  <2> QED BY <1>1, <1>4, <1>5, ConcatProperties
<1> DEFINE W == log \o entries
<1>7. /\ W \in Seq(E) /\ Len(W) = Len(log) + Len(entries)
      /\ \A i \in 1 .. Len(log) + Len(entries) :
            W[i] = IF i <= Len(log) THEN log[i] ELSE entries[i - Len(log)]
  BY <1>1, ConcatProperties
<1> HIDE DEF W
<1>8. \A i \in 1 .. base : W[i] = Rotated[i]
  BY <1>2, <1>3, <1>7
<1>9. ASSUME NEW i \in 1 .. Len(Written) PROVE W[base + i] = Written[i]
  <2>1. CASE i <= N
    <3>1. /\ base + i \in 1 .. Len(log) + Len(entries) /\ base + i <= Len(log)
          /\ i \in 1 .. N /\ i \in 1 .. N + Len(entries)
      BY <1>2, <1>4, <1>6, <2>1
    <3> QED BY <1>4, <1>6, <1>7, <2>1, <3>1
  <2>2. CASE ~(i <= N)
    <3>1. /\ base + i \in 1 .. Len(log) + Len(entries) /\ ~(base + i <= Len(log))
          /\ base + i - Len(log) = i - N /\ i \in 1 .. N + Len(entries)
      BY <1>2, <1>4, <1>6, <2>2
    <3>2. Written[i] = entries[i - N]
      BY <1>6, <2>2, <3>1
    <3> DEFINE j == base + i
    <3>3. j \in 1 .. Len(log) + Len(entries) /\ ~(j <= Len(log))
      BY <3>1
    <3> HIDE DEF j
    <3>4. W[j] = entries[j - Len(log)]
      BY <1>7, <3>3
    <3>5. j - Len(log) = i - N /\ base + i = j
      BY <1>2, <1>6, <3>1 DEF j
    <3> QED BY <3>2, <3>4, <3>5
  <2> QED BY <2>1, <2>2
<1>10. \A i \in 1 .. Len(log) : W[i] = log[i]
  BY <1>2, <1>7
<1>11. /\ Len(W) = base + Len(Written) /\ Len(Written) \in Nat
       /\ Len(log) - base <= Len(Written)
  BY <1>2, <1>4, <1>6, <1>7
<1> QED BY <1>2, <1>3, <1>6, <1>7, <1>8, <1>9, <1>10, <1>11 DEF E, W

\* A sequence that agrees with another as far as it goes is a prefix of it.
LEMMA PrefixOf ==
    ASSUME NEW S, NEW s \in Seq(S), NEW t \in Seq(S), Len(s) <= Len(t),
           \A i \in 1 .. Len(s) : s[i] = t[i]
    PROVE  IsPrefix(s, t)
<1>0. Len(s) \in Nat /\ Len(t) \in Nat
  BY LenProperties
<1>1. \A i \in 1 .. Len(s) : s[i] \in S /\ t[i] \in S
  BY <1>0, ElementOfSeq
<1> DEFINE u == SubSeq(s, 1, Len(s))
           v == SubSeq(t, 1, Len(s))
<1>2. /\ u \in Seq(S) /\ v \in Seq(S) /\ Len(u) = Len(s) /\ Len(v) = Len(s)
      /\ \A i \in 1 .. Len(s) : u[i] = s[i] /\ v[i] = t[i]
  <2>1. /\ u \in Seq(S) /\ Len(u) = IF 1 <= Len(s) THEN Len(s) - 1 + 1 ELSE 0
        /\ \A i \in 1 .. Len(s) - 1 + 1 : u[i] = s[1 + i - 1]
    BY <1>0, <1>1, SubSeqProperties
  <2>2. /\ v \in Seq(S) /\ Len(v) = IF 1 <= Len(s) THEN Len(s) - 1 + 1 ELSE 0
        /\ \A i \in 1 .. Len(s) - 1 + 1 : v[i] = t[1 + i - 1]
    BY <1>0, <1>1, SubSeqProperties
  <2> HIDE DEF u, v
  <2> QED BY <1>0, <2>1, <2>2
<1> HIDE DEF u, v
<1>3. u = v
  BY <1>2, SeqEqual
<1> QED BY <1>3 DEF IsPrefix, u, v

\* A part of a sequence from its start.
LEMMA PartFromStart ==
    ASSUME NEW S, NEW L \in Seq(S), NEW s \in Seq(S), PartFrom(s, L, 0)
    PROVE  Len(s) <= Len(L) /\ \A i \in 1 .. Len(s) : s[i] = L[i]
<1>1. Len(s) \in Nat /\ Len(L) \in Nat
  BY LenProperties
<1>2. Len(L) - 0 = Len(L) /\ \A i \in 1 .. Len(s) : 0 + i = i
  BY <1>1
<1> QED BY <1>2 DEF PartFrom

\* What the next process replays when the first k entries of the current
\* segment are undamaged.
LEMMA Replayed ==
    ASSUME TypeOK, SegmentsInv, NEW image, NEW k \in Nat, SoundUpTo(image, Written, k),
           NEW result,
           result = replay_all(<<Closed, [header |-> TRUE, cells |-> image]>>)
    PROVE  /\ result.entries \in Seq(LogEntries)
           /\ IsPrefix(result.entries, log \o entries)
           /\ Len(result.entries) >= base + k
           /\ \A i \in 1 .. Len(result.entries) : result.entries[i] = (log \o entries)[i]
           /\ (\A i \in 1 .. Len(image) : image[i] = Cells(Written)[i]) => result.ok
<1> DEFINE E == LogEntries
           W == log \o entries
           a == entries_of(Cells(Rotated))
           b == entries_of(image)
           Intact == \A i \in 1 .. Len(image) : image[i] = Cells(Written)[i]
<1>1. /\ Rotated \in Seq(E) /\ Len(Rotated) = base /\ base \in Nat
      /\ Written \in Seq(E) /\ Len(Written) \in Nat
      /\ W \in Seq(E) /\ Len(W) = base + Len(Written)
      /\ \A i \in 1 .. base : W[i] = Rotated[i]
      /\ \A i \in 1 .. Len(Written) : W[base + i] = Written[i]
  BY LogSplit
<1> HIDE DEF E, W
<1>2. Len(Cells(Rotated)) = 3 * base
  BY <1>1, CellsShape
<1>3. /\ a \in [ok : BOOLEAN, entries : Seq(E)] /\ PartFrom(a.entries, Rotated, 0)
      /\ Len(a.entries) >= base /\ a.ok
  <2>1. Len(Cells(Rotated)) \in Nat /\ 3 * base <= Len(Cells(Rotated))
        /\ Len(Cells(Rotated)) <= 3 * Len(Rotated)
    BY <1>1, <1>2
  <2> DEFINE c == Cells(Rotated)
  <2>2. \A i \in 1 .. Len(c) :
            c[i] \in {Cells(Rotated)[i], Zero} /\ c[i] = Cells(Rotated)[i]
    OBVIOUS
  <2>3. \A i \in 1 .. 3 * base : c[i] = Cells(Rotated)[i]
    OBVIOUS
  <2>4. SoundUpTo(c, Rotated, base)
    BY <1>1, <2>1, <2>2, <2>3 DEF SoundUpTo
  <2> HIDE DEF c
  <2>5. /\ entries_of(c) \in [ok : BOOLEAN, entries : Seq(E)]
        /\ PartFrom(entries_of(c).entries, Rotated, 0)
        /\ Len(entries_of(c).entries) >= base
        /\ (\A i \in 1 .. Len(c) : c[i] = Cells(Rotated)[i]) => entries_of(c).ok
    BY <1>1, <2>4, ReadSegment
  <2> QED BY <2>2, <2>5 DEF c
<1>4. /\ b \in [ok : BOOLEAN, entries : Seq(E)] /\ PartFrom(b.entries, Written, 0)
      /\ Len(b.entries) >= k /\ (Intact => b.ok)
  <2>1. /\ entries_of(image) \in [ok : BOOLEAN, entries : Seq(E)]
        /\ PartFrom(entries_of(image).entries, Written, 0)
        /\ Len(entries_of(image).entries) >= k
        /\ (\A i \in 1 .. Len(image) : image[i] = Cells(Written)[i]) =>
              entries_of(image).ok
    BY <1>1, ReadSegment
  <2> QED BY <2>1
<1>5. result.entries = a.entries \o b.entries /\ (a.ok /\ b.ok => result.ok)
  <2> DEFINE x == [header |-> TRUE, cells |-> Cells(Rotated)]
             y == [header |-> TRUE, cells |-> image]
  <2>1. Closed = x
    BY DEF Closed, Rotated
  <2>2. x.header /\ y.header /\ x.cells = Cells(Rotated) /\ y.cells = image
    OBVIOUS
  <2> HIDE DEF x
  <2>3. LET r == replay_all(<<x, y>>)
        IN  /\ r.ok <=> /\ x.header /\ entries_of(x.cells).ok
                        /\ y.header /\ entries_of(y.cells).ok
            /\ r.entries = entries_of(x.cells).entries \o entries_of(y.cells).entries
    BY ReplayTwo
  <2>4. result = replay_all(<<x, y>>)
    BY <2>1
  <2> HIDE DEF y
  <2> QED BY <2>2, <2>3, <2>4
<1> HIDE DEF a, b, Intact
<1> DEFINE s == a.entries
           t == b.entries
<1>6. /\ s \in Seq(E) /\ t \in Seq(E) /\ Len(s) \in Nat /\ Len(t) \in Nat
  <2>1. s \in Seq(E) /\ t \in Seq(E)
    BY <1>3, <1>4
  <2> QED BY <2>1, LenProperties
<1>7. /\ Len(s) = base /\ \A i \in 1 .. base : s[i] = Rotated[i]
  <2>1. Len(s) <= base /\ \A i \in 1 .. Len(s) : s[i] = Rotated[i]
    BY <1>1, <1>3, <1>6, PartFromStart
  <2>2. Len(s) >= base
    BY <1>3
  <2>3. Len(s) = base
    BY <1>1, <1>6, <2>1, <2>2
  <2> HIDE DEF s
  <2> QED BY <2>1, <2>3
<1>8. /\ Len(t) <= Len(Written) /\ Len(t) >= k
      /\ \A i \in 1 .. Len(t) : t[i] = Written[i]
  <2>1. Len(t) <= Len(Written) /\ \A i \in 1 .. Len(t) : t[i] = Written[i]
    BY <1>1, <1>4, <1>6, PartFromStart
  <2> QED BY <1>4, <2>1
<1> HIDE DEF s, t
<1>9. /\ s \o t \in Seq(E) /\ Len(s \o t) = base + Len(t)
      /\ \A i \in 1 .. base + Len(t) :
            (s \o t)[i] = IF i <= base THEN s[i] ELSE t[i - base]
  BY <1>6, <1>7, ConcatProperties
<1>10. ASSUME NEW i \in 1 .. base + Len(t) PROVE (s \o t)[i] = W[i]
  <2>1. CASE i <= base
    BY <1>1, <1>7, <1>9, <2>1
  <2>2. CASE ~(i <= base)
    <3>1. /\ i - base \in 1 .. Len(t) /\ i - base \in 1 .. Len(Written)
          /\ base + (i - base) = i
      BY <1>1, <1>6, <1>8, <2>2
    <3>2. (s \o t)[i] = t[i - base]
      BY <1>9, <2>2
    <3>3. t[i - base] = Written[i - base] /\ W[base + (i - base)] = Written[i - base]
      BY <1>1, <1>8, <3>1
    <3> QED BY <3>1, <3>2, <3>3
  <2> QED BY <2>1, <2>2
<1>11. Len(s \o t) <= Len(W) /\ base + Len(t) >= base + k
  BY <1>1, <1>6, <1>8, <1>9
<1>12. IsPrefix(s \o t, W)
  BY <1>1, <1>9, <1>10, <1>11, PrefixOf
<1>13. result.entries = s \o t
  BY <1>5 DEF s, t
<1> QED BY <1>3, <1>4, <1>5, <1>9, <1>10, <1>11, <1>12, <1>13 DEF E, W, Intact

\* A torn segment: what was written up to a point.
LEMMA TornImage ==
    ASSUME TypeOK, SegmentsInv, NEW k \in Nat, NEW image \in Torn(Current, 3 * k)
    PROVE  /\ Len(image) \in Nat /\ 3 * k <= Len(image) /\ Len(image) <= 3 * Len(Written)
           /\ DOMAIN image = 1 .. Len(image)
           /\ \A i \in 1 .. Len(image) : image[i] = Cells(Written)[i]
<1> DEFINE C == Cells(Written)
           S == CellsOf(LogEntries)
<1>1. C \in Seq(S) /\ Len(C) = 3 * Len(Written) /\ Len(C) \in Nat
  <2>1. Written \in Seq(LogEntries) /\ Len(Written) \in Nat
    BY LogSplit
  <2>2. C \in Seq(S) /\ Len(C) = 3 * Len(Written)
    BY <2>1, CellsShape
  <2> QED BY <2>1, <2>2
<1>2. Current = C
  BY DEF Current, Written
<1> HIDE DEF C, S
<1>3. PICK n \in 3 * k .. Len(C) : image = SubSeq(C, 1, n)
  BY <1>2 DEF Torn
<1>4. n \in Nat /\ \A i \in 1 .. n : C[i] \in S
  BY <1>1, <1>3, ElementOfSeq
<1>5. /\ SubSeq(C, 1, n) \in Seq(S)
      /\ Len(SubSeq(C, 1, n)) = IF 1 <= n THEN n - 1 + 1 ELSE 0
      /\ \A i \in 1 .. n - 1 + 1 : SubSeq(C, 1, n)[i] = C[1 + i - 1]
  BY <1>4, SubSeqProperties
<1>6. image \in Seq(S) /\ Len(image) = n /\ \A i \in 1 .. n : image[i] = C[i]
  BY <1>3, <1>4, <1>5
<1>7. DOMAIN image = 1 .. Len(image)
  BY <1>6, LenProperties
<1> QED BY <1>1, <1>3, <1>4, <1>6, <1>7 DEF C

\* A segment after a power loss: cells up to a point, some of them zeros, but
\* none of the first 3 * k.
LEMMA DamagedImage ==
    ASSUME TypeOK, SegmentsInv, NEW k \in Nat, NEW image \in Damage(Current, 3 * k)
    PROVE  SoundUpTo(image, Written, k)
<1>1. CASE image \in Torn(Current, 3 * k)
  <2>1. /\ Len(image) \in Nat /\ 3 * k <= Len(image) /\ Len(image) <= 3 * Len(Written)
        /\ \A i \in 1 .. Len(image) : image[i] = Cells(Written)[i]
    BY <1>1, TornImage
  <2> QED BY <2>1 DEF SoundUpTo
<1>2. CASE image \notin Torn(Current, 3 * k)
  <2> DEFINE From(t) == {Zeroed(t, a, b) : a \in (3 * k + 1) .. (Len(t) + 1),
                                           b \in (3 * k + 1) .. Len(t)}
  <2>0. image \in UNION {From(t) : t \in Torn(Current, 3 * k)}
    BY <1>2 DEF Damage
  <2>1. PICK t \in Torn(Current, 3 * k) : image \in From(t)
    <3> HIDE DEF From
    <3> QED BY <2>0
  <2>2. PICK a \in (3 * k + 1) .. (Len(t) + 1), b \in (3 * k + 1) .. Len(t) :
           image = Zeroed(t, a, b)
    BY <2>1
  <2>3. /\ Len(t) \in Nat /\ 3 * k <= Len(t) /\ Len(t) <= 3 * Len(Written)
        /\ DOMAIN t = 1 .. Len(t)
        /\ \A i \in 1 .. Len(t) : t[i] = Cells(Written)[i]
    BY TornImage
  <2>4. image = [i \in 1 .. Len(t) |-> IF a <= i /\ i <= b THEN Zero ELSE t[i]]
    BY <2>2, <2>3 DEF Zeroed
  <2>5. Len(image) = Len(t)
    BY <2>3, <2>4
  <2>6. \A i \in 1 .. Len(t) : image[i] = IF a <= i /\ i <= b THEN Zero ELSE t[i]
    BY <2>4
  <2>7. \A i \in 1 .. Len(t) : image[i] \in {Cells(Written)[i], Zero}
    BY <2>3, <2>6
  <2>8. ASSUME NEW i \in 1 .. 3 * k PROVE image[i] = Cells(Written)[i]
    <3>1. i \in 1 .. Len(t) /\ ~(a <= i)
      BY <2>3
    <3> QED BY <2>3, <2>6, <3>1
  <2> QED BY <2>3, <2>5, <2>7, <2>8 DEF SoundUpTo
<1> QED BY <1>1, <1>2

\* The cells of the current segment up to the n-th entry of the log.
LEMMA CellsUpToEntry ==
    ASSUME SegmentsInv, TypeOK, NEW n \in 0 .. Len(log)
    PROVE  \E k \in Nat : CellsUpTo(n) = 3 * k /\ base + k >= n
<1>1. base \in Nat /\ n \in Nat
  BY LogSplit
<1>2. CASE n > base
  <2>1. n - base \in Nat /\ CellsUpTo(n) = 3 * (n - base) /\ base + (n - base) >= n
    BY <1>1, <1>2 DEF CellsUpTo
  <2> QED BY <2>1
<1>3. CASE ~(n > base)
  <2>1. 0 \in Nat /\ CellsUpTo(n) = 3 * 0 /\ base + 0 >= n
    BY <1>1, <1>3 DEF CellsUpTo
  <2> QED BY <2>1
<1> QED BY <1>2, <1>3

\* What is in the log up to its n-th entry is in a prefix of at least that
\* length.
LEMMA FoundInPrefix ==
    ASSUME TypeOK, SegmentsInv, NEW n \in 0 .. Len(log), NEW s \in Seq(LogEntries),
           Len(s) >= n, \A i \in 1 .. Len(s) : s[i] = (log \o entries)[i],
           NEW r \in Requests,
           \A k \in 1 .. Size(r) : \E j \in 1 .. n : log[j] = <<r, k>>
    PROVE  ToSet(EntriesOf(r)) \subseteq ToSet(s)
<1>1. /\ DOMAIN EntriesOf(r) = 1 .. Size(r)
      /\ \A k \in 1 .. Size(r) : EntriesOf(r)[k] = <<r, k>>
  BY DEF EntriesOf
<1>2. /\ Len(log) \in Nat /\ \A i \in 1 .. Len(log) : (log \o entries)[i] = log[i]
  BY LogSplit
<1>3. Len(s) \in Nat /\ DOMAIN s = 1 .. Len(s)
  BY LenProperties
<1>4. ASSUME NEW k \in 1 .. Size(r) PROVE EntriesOf(r)[k] \in ToSet(s)
  <2>1. PICK j \in 1 .. n : log[j] = <<r, k>>
    OBVIOUS
  <2>2. j \in 1 .. Len(log) /\ j \in 1 .. Len(s)
    BY <1>2, <1>3
  <2>3. s[j] = <<r, k>> /\ j \in DOMAIN s
    BY <1>2, <1>3, <2>1, <2>2
  <2>4. s[j] \in ToSet(s)
    BY <2>3 DEF ToSet
  <2> QED BY <1>1, <2>3, <2>4
<1> QED BY <1>1, <1>4 DEF ToSet

\* A killed process leaves a log that is read back whole up to the write it was
\* in.
LEMMA KillStep ==
    ASSUME LoopInv, SegmentsInv, AckedLogged, Kill PROVE RecoversAcked'
<1>0. TypeOK
  BY DEF LoopInv
<1>1. CASE \E cells \in Torn(Current, CellsUpTo(Len(log))) : Crashed("kill", TRUE, cells)
  <2>1. PICK image \in Torn(Current, CellsUpTo(Len(log))) : Crashed("kill", TRUE, image)
    BY <1>1
  <2> DEFINE R == replay_all(<<Closed, [header |-> TRUE, cells |-> image]>>)
  <2>2. /\ recovered' = [cause |-> "kill", header |-> TRUE, result |-> R]
        /\ UNCHANGED <<mode, log, entries, answers>>
    BY <2>1 DEF Crashed
  <2>3. Len(log) \in Nat /\ Len(log) \in 0 .. Len(log)
    BY <1>0, LogSplit
  <2>4. PICK k \in Nat : CellsUpTo(Len(log)) = 3 * k /\ base + k >= Len(log)
    BY <1>0, <2>3, CellsUpToEntry
  <2>5. /\ Len(image) \in Nat /\ 3 * k <= Len(image) /\ Len(image) <= 3 * Len(Written)
        /\ \A i \in 1 .. Len(image) : image[i] = Cells(Written)[i]
    BY <1>0, <2>1, <2>4, TornImage
  <2>6. SoundUpTo(image, Written, k)
    BY <2>5 DEF SoundUpTo
  <2> HIDE DEF R
  <2>7. /\ R.entries \in Seq(LogEntries) /\ IsPrefix(R.entries, log \o entries)
        /\ Len(R.entries) >= base + k /\ R.ok
        /\ \A i \in 1 .. Len(R.entries) : R.entries[i] = (log \o entries)[i]
    <3>1. R = replay_all(<<Closed, [header |-> TRUE, cells |-> image]>>)
      BY DEF R
    <3>2. /\ R.entries \in Seq(LogEntries) /\ IsPrefix(R.entries, log \o entries)
          /\ Len(R.entries) >= base + k
          /\ \A i \in 1 .. Len(R.entries) : R.entries[i] = (log \o entries)[i]
          /\ (\A i \in 1 .. Len(image) : image[i] = Cells(Written)[i]) => R.ok
      BY <1>0, <2>6, <3>1, Replayed, ZenonT(40)
    <3> QED BY <2>5, <3>2
  <2>8. Len(R.entries) >= Len(log)
    <3>1. Len(R.entries) \in Nat /\ base \in Nat
      BY <1>0, <2>7, LenProperties, LogSplit
    <3> QED BY <2>3, <2>4, <2>7, <3>1
  <2>9. ASSUME NEW r \in Requests, answers[r] = "ok"
        PROVE  ToSet(EntriesOf(r)) \subseteq ToSet(R.entries)
    <3>1. \A i \in 1 .. Size(r) : \E j \in 1 .. Len(log) : log[j] = <<r, i>>
      BY <2>9 DEF AckedLogged
    <3> QED BY <1>0, <2>3, <2>7, <2>8, <3>1, FoundInPrefix
  <2>10. recovered'.result = R
    BY <2>2
  <2> QED BY <2>2, <2>7, <2>9, <2>10 DEF RecoversAcked
<1>2. CASE Crashed("kill", FALSE, <<>>)
  <2> DEFINE x == [header |-> FALSE, cells |-> <<>>]
             R == replay_all(<<Closed, x>>)
  <2>1. recovered' = [cause |-> "kill", header |-> FALSE, result |-> R]
    BY <1>2 DEF Crashed
  <2>2. ~x.header
    OBVIOUS
  <2> HIDE DEF x
  <2>3. ~R.ok
    BY <2>2, ReplayTwo
  <2> HIDE DEF R
  <2>4. recovered'.result = R /\ ~recovered'.header
    BY <2>1
  <2> QED BY <2>3, <2>4 DEF RecoversAcked
<1> QED BY <1>1, <1>2 DEF Kill

\* A power loss leaves at least what was fsynced: the log is read back up to
\* there, or refused.
LEMMA PowerLossStep ==
    ASSUME LoopInv, SegmentsInv, PowerLoss PROVE RecoversAcked'
<1>0. TypeOK /\ AckedAreSynced
  BY DEF LoopInv
<1>1. CASE \E cells \in Damage(Current, CellsUpTo(synced)) : Crashed("power", TRUE, cells)
  <2>1. PICK image \in Damage(Current, CellsUpTo(synced)) : Crashed("power", TRUE, image)
    BY <1>1
  <2> DEFINE R == replay_all(<<Closed, [header |-> TRUE, cells |-> image]>>)
  <2>2. /\ recovered' = [cause |-> "power", header |-> TRUE, result |-> R]
        /\ UNCHANGED <<mode, log, entries, answers>>
    BY <2>1 DEF Crashed
  <2>3. Len(log) \in Nat /\ synced \in 0 .. Len(log)
    BY <1>0, LogSplit
  <2>4. PICK k \in Nat : CellsUpTo(synced) = 3 * k /\ base + k >= synced
    BY <1>0, <2>3, CellsUpToEntry
  <2>5. SoundUpTo(image, Written, k)
    BY <1>0, <2>1, <2>4, DamagedImage
  <2> HIDE DEF R
  <2>6. /\ R.entries \in Seq(LogEntries) /\ IsPrefix(R.entries, log \o entries)
        /\ Len(R.entries) >= base + k
        /\ \A i \in 1 .. Len(R.entries) : R.entries[i] = (log \o entries)[i]
    <3>1. R = replay_all(<<Closed, [header |-> TRUE, cells |-> image]>>)
      BY DEF R
    <3> QED BY <1>0, <2>5, <3>1, Replayed, Zenon
  <2>7. Len(R.entries) >= synced
    <3>1. Len(R.entries) \in Nat /\ base \in Nat /\ synced \in Nat
      BY <1>0, <2>6, LenProperties, LogSplit
    <3> QED BY <2>4, <2>6, <3>1
  <2>8. ASSUME NEW r \in Requests, answers[r] = "ok", mode = "Sync"
        PROVE  ToSet(EntriesOf(r)) \subseteq ToSet(R.entries)
    <3>1. ToSet(EntriesOf(r)) \subseteq {log[i] : i \in 1 .. synced}
      BY <1>0, <2>8 DEF AckedAreSynced
    <3>2. ASSUME NEW i \in 1 .. Size(r) PROVE \E j \in 1 .. synced : log[j] = <<r, i>>
      <4>1. i \in DOMAIN EntriesOf(r) /\ EntriesOf(r)[i] = <<r, i>>
        BY DEF EntriesOf
      <4>2. <<r, i>> \in ToSet(EntriesOf(r))
        BY <4>1 DEF ToSet
      <4> QED BY <3>1, <4>2
    <3> QED BY <1>0, <2>3, <2>6, <2>7, <3>2, FoundInPrefix
  <2>9. recovered'.result = R /\ recovered'.cause = "power"
    BY <2>2
  <2> QED BY <2>2, <2>6, <2>8, <2>9 DEF RecoversAcked
<1>2. CASE Crashed("power", FALSE, <<>>)
  <2> DEFINE x == [header |-> FALSE, cells |-> <<>>]
             R == replay_all(<<Closed, x>>)
  <2>1. recovered' = [cause |-> "power", header |-> FALSE, result |-> R]
    BY <1>2 DEF Crashed
  <2>2. ~x.header
    OBVIOUS
  <2> HIDE DEF x
  <2>3. ~R.ok
    BY <2>2, ReplayTwo
  <2> HIDE DEF R
  <2>4. recovered'.result = R /\ ~recovered'.header
    BY <2>1
  <2> QED BY <2>3, <2>4 DEF RecoversAcked
<1> QED BY <1>1, <1>2 DEF PowerLoss

\* What a failed or a finished write adds to the log.
LEMMA LogGrows ==
    ASSUME TypeOK, Write \/ WriteFails
    PROVE  /\ Len(log) \in Nat /\ Len(log') \in Nat /\ Len(log) <= Len(log')
           /\ \A i \in 1 .. Len(log) : log'[i] = log[i]
<1> DEFINE E == Requests \X Nat
<1>1. log \in Seq(E) /\ entries \in Seq(E) /\ Len(log) \in Nat /\ Len(entries) \in Nat
  <2>1. log \in Seq(E) /\ entries \in Seq(E)
    BY DEF TypeOK
  <2> QED BY <2>1, LenProperties
<1> HIDE DEF E
<1>2. \E t \in Seq(E) : log' = log \o t
  <2>1. CASE log' = log \o entries
    BY <1>1, <2>1
  <2>2. ASSUME NEW n \in 0 .. Len(entries), log' = log \o SubSeq(entries, 1, n)
        PROVE  \E t \in Seq(E) : log' = log \o t
    <3>1. n \in Int /\ \A i \in 1 .. n : entries[i] \in E
      BY <1>1, ElementOfSeq
    <3>2. SubSeq(entries, 1, n) \in Seq(E)
      BY <3>1, SubSeqProperties
    <3> QED BY <2>2, <3>2
  <2> QED BY <2>1, <2>2 DEF Write, WriteFails
<1>3. PICK t \in Seq(E) : log' = log \o t
  BY <1>2
<1>4. /\ Len(t) \in Nat /\ Len(log \o t) = Len(log) + Len(t)
      /\ \A i \in 1 .. Len(log) + Len(t) :
            (log \o t)[i] = IF i <= Len(log) THEN log[i] ELSE t[i - Len(log)]
  BY <1>1, ConcatProperties, LenProperties
<1>5. Len(log') = Len(log) + Len(t) /\ Len(log') \in Nat /\ Len(log) <= Len(log')
  BY <1>1, <1>3, <1>4
<1>6. \A i \in 1 .. Len(log) : log'[i] = log[i]
  BY <1>1, <1>3, <1>4
<1> QED BY <1>1, <1>5, <1>6

\* append_batch writes a window behind the log: a rotation fsyncs first, and
\* what was acknowledged stays.
LEMMA WriteKeeps ==
    ASSUME TypeOK, SegmentsInv, AckedLogged, Write \/ WriteFails
    PROVE  SegmentsInv' /\ AckedLogged'
<1>1. /\ Len(log) \in Nat /\ Len(log') \in Nat /\ Len(log) <= Len(log')
      /\ \A i \in 1 .. Len(log) : log'[i] = log[i]
  BY LogGrows
<1>2. base \in 0 .. synced /\ synced \in 0 .. Len(log)
  BY DEF SegmentsInv, TypeOK
<1>3. answers' = answers
  BY DEF Write, WriteFails
<1>4. \/ synced' = synced /\ base' = base
      \/ synced' = Len(log') /\ base' = Len(log')
      \/ synced' = Len(log') /\ base' = base
  BY DEF Write, WriteFails, segments
<1>5. SegmentsInv'
  BY <1>1, <1>2, <1>4 DEF SegmentsInv
<1>6. ASSUME NEW r \in Requests, answers'[r] = "ok", NEW k \in 1 .. Size(r)
      PROVE  \E j \in 1 .. Len(log') : log'[j] = <<r, k>>
  <2>1. PICK j \in 1 .. Len(log) : log[j] = <<r, k>>
    BY <1>3, <1>6 DEF AckedLogged
  <2>2. j \in 1 .. Len(log') /\ log'[j] = <<r, k>>
    BY <1>1, <2>1
  <2> QED BY <2>2
<1> QED BY <1>5, <1>6 DEF AckedLogged

\* A waiter is notified when its entries are in the log.
LEMMA NotifyKeeps ==
    ASSUME LoopInv, AckedLogged, Notify PROVE AckedLogged'
<1>0. TypeOK /\ Waiting /\ Holds(log, 0, Taken) /\ pc = "notify"
  BY DEF LoopInv, LogInv, Notify
<1>1. log' = log
  BY DEF Notify
<1>2. CASE notifiers = <<>>
  <2>1. answers' = answers
    BY <1>2 DEF Notify
  <2> QED BY <1>1, <2>1 DEF AckedLogged
<1>3. CASE notifiers # <<>>
  <2>1. /\ Len(notifiers) \in Nat /\ Answered \in Nat /\ Taken \in Nat
        /\ Taken = Answered + Len(notifiers)
    BY <1>0, Counts
  <2>2. notifiers \in Seq(Requests) /\ Len(notifiers) > 0
    BY <1>0, <1>3, EmptySeq DEF TypeOK
  <2> DEFINE n == Answered + 1
  <2>3. Head(notifiers) = order[n]
    <3>1. Head(notifiers) = notifiers[1] /\ 1 \in 1 .. Len(notifiers)
      BY <2>1, <2>2
    <3> QED BY <1>0, <3>1 DEF Waiting
  <2>4. n \in 0 + 1 .. Taken
    BY <2>1, <2>2
  <2>5. \A k \in 1 .. Size(order[n]) : \E j \in 1 .. Len(log) : log[j] = <<order[n], k>>
    BY <1>0, <2>4 DEF Holds
  <2> HIDE DEF n
  <2>6. answers' = [q \in Requests |-> IF q \in {order[n]} THEN "ok" ELSE answers[q]]
    BY <1>3, <2>3 DEF Notify, Answer
  <2>7. \A r \in Requests : answers'[r] = "ok" => answers[r] = "ok" \/ r = order[n]
    BY <2>6
  <2> QED BY <1>1, <2>5, <2>7 DEF AckedLogged
<1> QED BY <1>2, <1>3

\* The steps that leave the log alone acknowledge nothing but empty batches.
LEMMA OthersKeep ==
    ASSUME TypeOK, AckedLogged, log' = log,
           \A r \in Requests : answers'[r] = "ok" => answers[r] = "ok" \/ Size(r) = 0
    PROVE  AckedLogged'
<1>1. ASSUME NEW r \in Requests, answers'[r] = "ok", NEW k \in 1 .. Size(r)
      PROVE  \E j \in 1 .. Len(log) : log[j] = <<r, k>>
  <2>1. Size(r) # 0
    <3> SUFFICES ASSUME Size(r) = 0 PROVE FALSE
      OBVIOUS
    <3>1. k \in 1 .. 0
      OBVIOUS
    <3> QED BY <3>1
  <2> QED BY <1>1, <2>1 DEF AckedLogged
<1> QED BY <1>1 DEF AckedLogged

\* Answers that are errors, or wait.
LEMMA AnswersOf ==
    ASSUME NEW rs, NEW a, answers' = Answer(rs, a),
           a # "ok" \/ \A r \in rs : Size(r) = 0
    PROVE  \A r \in Requests : answers'[r] = "ok" => answers[r] = "ok" \/ Size(r) = 0
BY DEF Answer

\* Every step of the system but a write, a notification and a crash: the
\* answers, the log and what is synced.
LEMMA OtherSteps ==
    ASSUME TypeOK, SegmentsInv, AckedLogged,
           \/ \E r \in Requests : Submit(r) \/ SubmitEmpty(r) \/ SubmitRefused(r)
           \/ Close \/ Recv \/ Collect \/ Sync \/ SyncFails \/ NotifyFailure
           \/ TimerSync \/ TimerSyncFails \/ Drain \/ DrainFails \/ Tick
    PROVE  /\ SegmentsInv' /\ AckedLogged' /\ pc' # "crashed"
<1>0. base \in 0 .. synced /\ synced \in 0 .. Len(log) /\ Len(log) \in Nat
  <2>1. log \in Seq(Requests \X Nat) /\ synced \in 0 .. Len(log) /\ base \in 0 .. synced
    BY DEF TypeOK, SegmentsInv
  <2> QED BY <2>1, LenProperties
<1> DEFINE Ok == \A r \in Requests :
                     answers'[r] = "ok" => answers[r] = "ok" \/ Size(r) = 0
           Facts == /\ log' = log /\ base' = base /\ synced' \in {synced, Len(log)}
                    /\ Ok /\ pc' # "crashed"
<1>1. ASSUME NEW r \in Requests, Submit(r) \/ SubmitEmpty(r) \/ SubmitRefused(r)
      PROVE  Facts
  <2>1. /\ UNCHANGED <<log, base, synced, pc>> /\ pc # "crashed"
    BY <1>1 DEF Submit, SubmitEmpty, SubmitRefused, loop, segments
  <2>2. \/ answers' = Answer({r}, "wait") \/ answers' = Answer({r}, "err")
        \/ answers' = Answer({r}, "ok") /\ Size(r) = 0
    BY <1>1 DEF Submit, SubmitEmpty, SubmitRefused
  <2>3. Ok
    <3>1. CASE answers' = Answer({r}, "wait")
      BY <3>1, AnswersOf
    <3>2. CASE answers' = Answer({r}, "err")
      BY <3>2, AnswersOf
    <3>3. CASE answers' = Answer({r}, "ok") /\ Size(r) = 0
      <4>1. \A q \in {r} : Size(q) = 0
        BY <3>3
      <4> QED BY <3>3, <4>1, AnswersOf
    <3> QED BY <2>2, <3>1, <3>2, <3>3
  <2> QED BY <2>1, <2>3
<1>2. ASSUME Close PROVE Facts
  BY <1>2 DEF Close, loop, segments
<1>3. ASSUME Recv \/ Collect PROVE Facts
  BY <1>3 DEF Recv, Collect, segments
<1>4. ASSUME Sync \/ SyncFails PROVE Facts
  BY <1>4 DEF Sync, SyncFails, segments
<1>5. ASSUME NotifyFailure \/ TimerSyncFails \/ DrainFails PROVE Facts
  <2>1. PICK failed : Die(failed)
    BY <1>5 DEF NotifyFailure, TimerSyncFails, DrainFails
  <2>2. answers' = Answer(ToSet(queue) \cup failed, "err") /\ pc' = "dead"
    BY <2>1 DEF Die
  <2>3. Ok
    BY <2>2, AnswersOf
  <2>4. UNCHANGED <<log, base, synced>>
    BY <1>5 DEF NotifyFailure, TimerSyncFails, DrainFails, segments
  <2> QED BY <2>2, <2>3, <2>4
<1>6. ASSUME TimerSync \/ Drain \/ Tick PROVE Facts
  BY <1>6 DEF TimerSync, Drain, Tick, segments
<1>7. Facts
  <2> HIDE DEF Facts
  <2> QED BY <1>1, <1>2, <1>3, <1>4, <1>5, <1>6
<1>8. SegmentsInv'
  BY <1>0, <1>7 DEF SegmentsInv
<1>9. AckedLogged'
  BY <1>7, OthersKeep
<1> QED BY <1>7, <1>8, <1>9

\* Every step keeps what a crash relies on, and a crash leaves what recovery
\* needs.
LEMMA CrashInvStep == LoopInv /\ CrashInv /\ [Next]_vars => CrashInv'
<1> SUFFICES ASSUME LoopInv, CrashInv, [Next]_vars PROVE CrashInv'
  OBVIOUS
<1>0. TypeOK /\ SegmentsInv /\ AckedLogged /\ RecoversAcked
  BY DEF LoopInv, CrashInv
<1>1. CASE Write \/ WriteFails
  <2>1. SegmentsInv' /\ AckedLogged'
    BY <1>0, <1>1, WriteKeeps
  <2>2. pc' # "crashed"
    BY <1>1 DEF Write, WriteFails, AfterWrite
  <2> QED BY <2>1, <2>2 DEF CrashInv, RecoversAcked
<1>2. CASE Notify
  <2>1. AckedLogged'
    BY <1>0, <1>2, NotifyKeeps
  <2>2. UNCHANGED <<base, synced>> /\ pc' # "crashed"
    BY <1>2 DEF Notify, segments
  <2>3. SegmentsInv'
    BY <1>0, <2>2 DEF SegmentsInv
  <2> QED BY <2>1, <2>2, <2>3 DEF CrashInv, RecoversAcked
<1>3. CASE Kill \/ PowerLoss
  <2>1. UNCHANGED <<base, synced, answers, log>>
    BY <1>3 DEF Kill, PowerLoss, Crashed
  <2>2. SegmentsInv' /\ AckedLogged'
    BY <1>0, <2>1 DEF SegmentsInv, AckedLogged
  <2>3. RecoversAcked'
    BY <1>0, <1>3, KillStep, PowerLossStep
  <2> QED BY <2>2, <2>3 DEF CrashInv
<1>4. CASE UNCHANGED vars
  <2>1. UNCHANGED <<base, synced, answers, log, pc, recovered, mode, entries>>
    BY <1>4 DEF vars, segments
  <2> QED BY <1>0, <2>1 DEF CrashInv, SegmentsInv, AckedLogged, RecoversAcked
<1>5. CASE \/ \E r \in Requests : Submit(r) \/ SubmitEmpty(r) \/ SubmitRefused(r)
           \/ Close \/ Recv \/ Collect \/ Sync \/ SyncFails \/ NotifyFailure
           \/ TimerSync \/ TimerSyncFails \/ Drain \/ DrainFails \/ Tick
  <2>1. SegmentsInv' /\ AckedLogged' /\ pc' # "crashed"
    BY <1>0, <1>5, OtherSteps
  <2> QED BY <2>1 DEF CrashInv, RecoversAcked
<1> QED BY <1>1, <1>2, <1>3, <1>4, <1>5 DEF Next, LoopStep

\* Nothing has been written yet.
LEMMA CrashInit == Init => CrashInv
<1> SUFFICES ASSUME Init PROVE CrashInv
  OBVIOUS
<1>1. base = 0 /\ synced = 0 /\ pc = "recv" /\ answers = [r \in Requests |-> "none"]
  BY DEF Init
<1> QED BY <1>1 DEF CrashInv, SegmentsInv, AckedLogged, RecoversAcked

\* After a kill or a power loss at any point, WalReader::replay_all returns a
\* gapless prefix of what was written with every acknowledged write in it (in
\* BATCH_SYNC: after a kill), or refuses; and it refuses after a kill only when
\* the segment that was being created has no header.
THEOREM CrashesRecover == Spec => []RecoversAcked
<1>1. CrashInv => RecoversAcked
  BY DEF CrashInv
<1> QED BY <1>1, CrashInit, CrashInvStep, LoopInvariant, PTL DEF Spec

=============================================================================
