--------------------------- MODULE VersionGenerator ---------------------------
(***************************************************************************)
(* The generator of the versions that write responses carry, shared by all *)
(* request threads of a node.  One atomic word packs the last millisecond  *)
(* and the next sequence number of that millisecond; a call reads the      *)
(* clock, then the word, and replaces the word with a compare-exchange.    *)
(* The system clock may also be set back.                                  *)
(***************************************************************************)
EXTENDS Integers

CONSTANTS
    Threads,
    SeqMax,    \* u16::MAX
    MaxClock,  \* bound: the clock's range
    MaxCalls   \* bound: calls started

ASSUME ConstantsAssumption ==
    /\ SeqMax \in Nat \ {0}
    /\ MaxClock \in Nat
    /\ MaxCalls \in Nat

VARIABLES
    clock,    \* SystemTime::now, in milliseconds
    state,    \* the atomic word, unpacked: last timestamp and next sequence
    pc,       \* per thread: where its call is
    now,      \* per thread: current_ms
    seen,     \* per thread: the word it loaded
    floor,    \* history, per thread: the versions returned when its call began
    issued,   \* history: every version returned
    calls     \* calls started

vars == <<clock, state, pc, now, seen, floor, issued, calls>>

\* A version, and the packed word: ordered by timestamp, then sequence, which
\* is the order of the packed integer and of OrderedKey on one node.
Words == [ts : Nat, seq : 0 .. SeqMax]

Less(a, b) == a.ts < b.ts \/ (a.ts = b.ts /\ a.seq < b.seq)

NoWord == [ts |-> 0, seq |-> 0]

-----------------------------------------------------------------------------
(* next_version *)

Call(t) ==
    /\ pc[t] = "idle"
    /\ calls < MaxCalls
    /\ calls' = calls + 1
    /\ floor' = [floor EXCEPT ![t] = issued]
    /\ pc' = [pc EXCEPT ![t] = "clock"]
    /\ UNCHANGED <<clock, state, now, seen, issued>>

ReadClock(t) ==
    /\ pc[t] = "clock"
    /\ now' = [now EXCEPT ![t] = clock]
    /\ pc' = [pc EXCEPT ![t] = "load"]
    /\ UNCHANGED <<clock, state, seen, floor, issued, calls>>

\* Mutant of Load: the sequence is not checked for exhaustion.
Load_unchecked(t) ==
    /\ pc[t] = "load"
    /\ seen' = [seen EXCEPT ![t] = state]
    /\ pc' = [pc EXCEPT ![t] = "cas"]
    /\ UNCHANGED <<clock, state, now, floor, issued, calls>>

\* The loaded word decides between exchanging it and waiting for the clock.
Load(t) ==
    /\ pc[t] = "load"
    /\ seen' = [seen EXCEPT ![t] = state]
    /\ pc' = [pc EXCEPT ![t] =
                IF now[t] <= state.ts /\ state.seq = SeqMax THEN "spin" ELSE "cas"]
    /\ UNCHANGED <<clock, state, now, floor, issued, calls>>

\* Mutant of Version: any other millisecond counts as a new one.
Version_of_any_clock(t) ==
    IF now[t] # seen[t].ts THEN [ts |-> now[t], seq |-> 0] ELSE seen[t]

\* The version returned and the word that replaces the loaded one.
Version(t) ==
    IF now[t] > seen[t].ts THEN [ts |-> now[t], seq |-> 0] ELSE seen[t]

NewState(t) ==
    IF now[t] > seen[t].ts THEN [ts |-> now[t], seq |-> 1]
    ELSE [ts |-> seen[t].ts, seq |-> seen[t].seq + 1]

\* Mutant of CompareExchange: a plain store.
CompareExchange_storing(t) ==
    /\ pc[t] = "cas"
    /\ state' = NewState(t)
    /\ issued' = issued \cup {Version(t)}
    /\ pc' = [pc EXCEPT ![t] = "idle"]
    /\ UNCHANGED <<clock, now, seen, floor, calls>>

CompareExchange(t) ==
    /\ pc[t] = "cas"
    /\ state = seen[t]
    /\ state' = NewState(t)
    /\ issued' = issued \cup {Version(t)}
    /\ pc' = [pc EXCEPT ![t] = "idle"]
    /\ UNCHANGED <<clock, now, seen, floor, calls>>

CompareFails(t) ==
    /\ pc[t] = "cas"
    /\ state # seen[t]
    /\ pc' = [pc EXCEPT ![t] = "clock"]
    /\ UNCHANGED <<clock, state, now, seen, floor, issued, calls>>

\* Mutant of Spin: it waits for another thread instead of the clock.
Spin_on_word(t) ==
    /\ pc[t] = "spin"
    /\ state # seen[t]
    /\ pc' = [pc EXCEPT ![t] = "clock"]
    /\ UNCHANGED <<clock, state, now, seen, floor, issued, calls>>

\* spin_until_after_ms
Spin(t) ==
    /\ pc[t] = "spin"
    /\ clock > seen[t].ts
    /\ pc' = [pc EXCEPT ![t] = "clock"]
    /\ UNCHANGED <<clock, state, now, seen, floor, issued, calls>>

Advance ==
    /\ clock < MaxClock
    /\ clock' = clock + 1
    /\ UNCHANGED <<state, pc, now, seen, floor, issued, calls>>

\* The clock is set back, by NTP or an operator.
SetBack ==
    /\ \E c \in 0 .. clock : clock' = c
    /\ UNCHANGED <<state, pc, now, seen, floor, issued, calls>>

-----------------------------------------------------------------------------
Init ==
    /\ clock \in 0 .. MaxClock
    /\ state = NoWord
    /\ pc = [t \in Threads |-> "idle"]
    /\ now = [t \in Threads |-> 0]
    /\ seen = [t \in Threads |-> NoWord]
    /\ floor = [t \in Threads |-> {}]
    /\ issued = {}
    /\ calls = 0

ThreadStep(t) ==
    \/ ReadClock(t) \/ Load(t) \/ CompareExchange(t) \/ CompareFails(t)
    \/ Spin(t)

Next ==
    \/ \E t \in Threads : Call(t) \/ ThreadStep(t)
    \/ Advance
    \/ SetBack

Spec == Init /\ [][Next]_vars

\* Threads are scheduled and the clock, when it is not set back for ever,
\* passes every millisecond.
FairSpec ==
    /\ Spec
    /\ \A t \in Threads : WF_vars(ThreadStep(t))
    /\ WF_vars(Advance)
    /\ <>[][~SetBack]_vars

-----------------------------------------------------------------------------
(* Properties *)

\* Every variable has its type.
TypeOK ==
    /\ clock \in Nat
    /\ state \in Words
    /\ pc \in [Threads -> {"idle", "clock", "load", "cas", "spin"}]
    /\ now \in [Threads -> Nat]
    /\ seen \in [Threads -> Words]
    /\ floor \in [Threads -> SUBSET Words]
    /\ issued \subseteq Words
    /\ calls \in Nat

\* No version is returned twice: racing threads, an exhausted millisecond and
\* a clock set back included.
NeverReissued ==
    [][\A t \in Threads : CompareExchange(t) => Version(t) \notin issued]_vars

\* Versions respect real time: a call returns a version above every version
\* that had been returned when it began.
RealTimeOrder ==
    [][\A t \in Threads : CompareExchange(t) =>
          \A v \in floor[t] : Less(v, Version(t))]_vars

\* Every call returns once the clock stops being set back (unless the last
\* millisecond of the model's clock is exhausted).
CallsReturn ==
    \A t \in Threads : pc[t] # "idle" ~>
        pc[t] = "idle" \/ (state.ts = MaxClock /\ state.seq = SeqMax)

\* What was returned lies below the word, and a thread about to exchange the
\* word can do so without overflowing the sequence into the timestamp bits.
WordInv ==
    /\ \A v \in issued : Less(v, state)
    /\ \A t \in Threads : floor[t] \subseteq issued
    /\ \A t \in Threads : pc[t] = "cas" =>
          now[t] > seen[t].ts \/ seen[t].seq < SeqMax

=============================================================================
