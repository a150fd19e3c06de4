----------------------- MODULE VersionGenerator_proofs -----------------------
(***************************************************************************)
(* Proofs about VersionGenerator for any number of threads, any width of   *)
(* the sequence and any behaviour of the clock.                            *)
(***************************************************************************)
EXTENDS VersionGenerator, TLAPS

\* The order of the packed word.
LEMMA LessIsOrder ==
    ASSUME NEW a \in Words, NEW b \in Words, NEW c \in Words
    PROVE  /\ ~Less(a, a)
           /\ Less(a, b) /\ Less(b, c) => Less(a, c)
BY DEF Less, Words

\* What a compare-exchange returns is not below the word it replaces, and the
\* word it leaves is above both.
LEMMA ExchangeGrows ==
    ASSUME TypeOK, WordInv, NEW t \in Threads, pc[t] = "cas", state = seen[t]
    PROVE  /\ Version(t) \in Words
           /\ NewState(t) \in Words
           /\ Less(Version(t), NewState(t))
           /\ Less(state, NewState(t))
           /\ Version(t) = state \/ Less(state, Version(t))
<1>1. now[t] \in Nat /\ seen[t] \in Words /\ state = seen[t]
  BY DEF TypeOK
<1>2. now[t] > seen[t].ts \/ seen[t].seq < SeqMax
  BY DEF WordInv
<1> QED BY <1>1, <1>2, ConstantsAssumption DEF Version, NewState, Less, Words

\* The steps that only move one thread to its next program point.
LEMMA TypeStep == TypeOK /\ WordInv /\ [Next]_vars => TypeOK'
<1> SUFFICES ASSUME TypeOK, WordInv, [Next]_vars PROVE TypeOK'
  OBVIOUS
<1> USE DEF TypeOK
<1>1. CASE UNCHANGED vars
  BY <1>1 DEF vars
<1>2. ASSUME NEW t \in Threads, Call(t) \/ ThreadStep(t) PROVE TypeOK'
  <2>1. CASE Call(t)
    BY <2>1 DEF Call
  <2>2. CASE ReadClock(t)
    BY <2>2 DEF ReadClock
  <2>3. CASE Load(t)
    BY <2>3 DEF Load
  <2>4. CASE CompareExchange(t)
    <3>1. Version(t) \in Words /\ NewState(t) \in Words
      BY <2>4, ExchangeGrows DEF CompareExchange
    <3> QED BY <2>4, <3>1 DEF CompareExchange
  <2>5. CASE CompareFails(t)
    BY <2>5 DEF CompareFails
  <2>6. CASE Spin(t)
    BY <2>6 DEF Spin
  <2> QED BY <1>2, <2>1, <2>2, <2>3, <2>4, <2>5, <2>6 DEF ThreadStep
<1>3. CASE Advance
  BY <1>3 DEF Advance
<1>4. CASE SetBack
  BY <1>4 DEF SetBack
<1> QED BY <1>1, <1>2, <1>3, <1>4 DEF Next

\* The word stays above everything returned, and never overflows.
LEMMA WordStep == TypeOK /\ WordInv /\ [Next]_vars => WordInv'
<1> SUFFICES ASSUME TypeOK, WordInv, [Next]_vars PROVE WordInv'
  OBVIOUS
<1>1. CASE UNCHANGED vars
  BY <1>1 DEF vars, WordInv
<1>2. ASSUME NEW t \in Threads, Call(t) PROVE WordInv'
  BY <1>2 DEF Call, WordInv, TypeOK
<1>3. ASSUME NEW t \in Threads, ThreadStep(t) PROVE WordInv'
  <2>1. CASE ReadClock(t)
    BY <2>1 DEF ReadClock, WordInv, TypeOK
  <2>2. CASE Load(t)
    <3>1. \A v \in issued' : Less(v, state')
      BY <2>2 DEF Load, WordInv
    <3>2. \A u \in Threads : floor'[u] \subseteq issued'
      BY <2>2 DEF Load, WordInv
    <3>3. ASSUME NEW u \in Threads, pc'[u] = "cas"
          PROVE  now'[u] > seen'[u].ts \/ seen'[u].seq < SeqMax
      <4>1. CASE u # t
        BY <2>2, <3>3, <4>1 DEF Load, WordInv, TypeOK
      <4>2. CASE u = t
        <5>1. ~(now[t] <= state.ts /\ state.seq = SeqMax) /\ seen'[t] = state
              /\ now'[t] = now[t]
          BY <2>2, <3>3, <4>2 DEF Load, TypeOK
        <5>2. now[t] \in Nat /\ state.ts \in Nat /\ state.seq \in 0 .. SeqMax
          BY DEF TypeOK, Words
        <5> QED BY <4>2, <5>1, <5>2, ConstantsAssumption
      <4> QED BY <4>1, <4>2
    <3> QED BY <3>1, <3>2, <3>3 DEF WordInv
  <2>3. CASE CompareExchange(t)
    <3>1. /\ Version(t) \in Words /\ NewState(t) \in Words
          /\ Less(Version(t), NewState(t)) /\ Less(state, NewState(t))
      BY <2>3, ExchangeGrows DEF CompareExchange
    <3>2. \A v \in issued' : Less(v, state')
      <4> SUFFICES ASSUME NEW v \in issued' PROVE Less(v, state')
        OBVIOUS
      <4>1. CASE v = Version(t)
        BY <2>3, <3>1, <4>1 DEF CompareExchange
      <4>2. CASE v \in issued
        <5>1. Less(v, state) /\ v \in Words /\ state \in Words
          BY <4>2 DEF WordInv, TypeOK
        <5> QED BY <2>3, <3>1, <5>1, LessIsOrder DEF CompareExchange
      <4> QED BY <2>3, <4>1, <4>2 DEF CompareExchange
    <3>3. \A u \in Threads : floor'[u] \subseteq issued'
      BY <2>3 DEF CompareExchange, WordInv
    <3>4. \A u \in Threads : pc'[u] = "cas" =>
             now'[u] > seen'[u].ts \/ seen'[u].seq < SeqMax
      BY <2>3 DEF CompareExchange, WordInv, TypeOK
    <3> QED BY <3>2, <3>3, <3>4 DEF WordInv
  <2>4. CASE CompareFails(t)
    BY <2>4 DEF CompareFails, WordInv, TypeOK
  <2>5. CASE Spin(t)
    BY <2>5 DEF Spin, WordInv, TypeOK
  <2> QED BY <1>3, <2>1, <2>2, <2>3, <2>4, <2>5 DEF ThreadStep
<1>4. CASE Advance
  BY <1>4 DEF Advance, WordInv
<1>5. CASE SetBack
  BY <1>5 DEF SetBack, WordInv
<1> QED BY <1>1, <1>2, <1>3, <1>4, <1>5 DEF Next

\* The invariant holds before the first call.
LEMMA InitHolds == Init => TypeOK /\ WordInv
BY ConstantsAssumption DEF Init, TypeOK, WordInv, Words, NoWord

\* TypeOK and WordInv hold in every state: in particular the sequence field
\* of the word never exceeds u16::MAX.
THEOREM WordInvariant == Spec => [](TypeOK /\ WordInv)
BY InitHolds, TypeStep, WordStep, PTL DEF Spec

\* No version is ever returned twice by one generator, however many threads
\* race, however the clock moves.
THEOREM VersionsUnique == Spec => NeverReissued
<1>1. ASSUME TypeOK, WordInv, NEW t \in Threads, CompareExchange(t)
      PROVE  Version(t) \notin issued
  <2> SUFFICES ASSUME Version(t) \in issued PROVE FALSE
    OBVIOUS
  <2>1. Less(Version(t), state) /\ Version(t) \in Words /\ state \in Words
    BY <1>1 DEF WordInv, TypeOK
  <2>2. Version(t) = state \/ Less(state, Version(t))
    BY <1>1, ExchangeGrows DEF CompareExchange
  <2> QED BY <2>1, <2>2, LessIsOrder
<1>2. TypeOK /\ WordInv =>
        [\A t \in Threads : CompareExchange(t) => Version(t) \notin issued]_vars
  BY <1>1
<1> QED BY <1>2, WordInvariant, PTL DEF NeverReissued

\* A call returns a version above all versions returned before it began.
THEOREM VersionsOrdered == Spec => RealTimeOrder
<1>1. ASSUME TypeOK, WordInv, NEW t \in Threads, CompareExchange(t),
             NEW v \in floor[t]
      PROVE  Less(v, Version(t))
  <2>1. v \in issued /\ Less(v, state) /\ v \in Words /\ state \in Words
    BY <1>1 DEF WordInv, TypeOK
  <2>2. /\ Version(t) \in Words
        /\ Version(t) = state \/ Less(state, Version(t))
    BY <1>1, ExchangeGrows DEF CompareExchange
  <2> QED BY <2>1, <2>2, LessIsOrder
<1>2. TypeOK /\ WordInv =>
        [\A t \in Threads : CompareExchange(t) =>
            \A v \in floor[t] : Less(v, Version(t))]_vars
  BY <1>1
<1> QED BY <1>2, WordInvariant, PTL DEF RealTimeOrder

=============================================================================
