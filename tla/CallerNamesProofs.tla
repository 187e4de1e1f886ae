-------------------------- MODULE CallerNamesProofs --------------------------
(***************************************************************************)
(* For any threads, uids and names, and however often the directory changes *)
(* or fails: the memo holds only what the directory once said, and asks it  *)
(* about a uid at most once per thread.                                     *)
(***************************************************************************)
EXTENDS CallerNames, FiniteSetTheorems, TLAPS

LEMMA TypeInitially == Init => TypeOK
BY CallerNamesAssumption DEF CallerNamesAssumption, Init, TypeOK, Places

LEMMA TypeStep == TypeOK /\ [Next]_vars => TypeOK'
<1> SUFFICES ASSUME TypeOK, [Next]_vars PROVE TypeOK'
  OBVIOUS
<1> USE CallerNamesAssumption
    DEF CallerNamesAssumption, TypeOK, Places, Goto, Return, nss, history
<1>1. CASE UNCHANGED vars
  BY <1>1 DEF vars
<1>2. ASSUME NEW t \in Thread, NEW u \in Uid, Call(t, u) PROVE TypeOK'
  BY <1>2 DEF Call
<1>3. ASSUME NEW t \in Thread, Lock(t, "locking", "reading")
      PROVE  TypeOK'
  BY <1>3 DEF Lock
<1>4. ASSUME NEW t \in Thread, Lock(t, "storing", "inserting")
      PROVE  TypeOK'
  BY <1>4 DEF Lock
<1>5. ASSUME NEW t \in Thread, ReadCache(t) PROVE TypeOK'
  BY <1>5 DEF ReadCache
<1>6. ASSUME NEW t \in Thread, Insert(t) PROVE TypeOK'
  BY <1>6 DEF Insert
<1>7. ASSUME NEW t \in Thread, Lookup(t) PROVE TypeOK'
  BY <1>7 DEF Lookup, Answer
<1>8. ASSUME NEW u \in Uid, NEW answer \in Answer, ChangeAccount(u, answer)
      PROVE  TypeOK'
  BY <1>8 DEF ChangeAccount
<1>9. CASE ChangeReachability
  BY <1>9 DEF ChangeReachability
<1>10. QED
  BY <1>1, <1>2, <1>3, <1>4, <1>5, <1>6, <1>7, <1>8, <1>9 DEF Next, MemoStep

\* Every variable keeps its type; in particular what is stored is an answer.
THEOREM TypeCorrect == Spec => []TypeOK
<1>1. QED
  BY TypeInitially, TypeStep, PTL DEF Spec

-----------------------------------------------------------------------------
(***************************************************************************)
(* A failed lookup stores nothing: whoever is about to store holds an      *)
(* answer the directory gave about the uid it stores it under.             *)
(***************************************************************************)
StoresWhatWasGiven ==
  \A t \in Thread :
    at[t] \in {"storing", "inserting"} => looked_up[t] \in given[uid[t]]

MemoInv == TypeOK /\ StoresWhatWasGiven /\ FailureIsNotCached

LEMMA MemoInitially == Init => MemoInv
<1> SUFFICES ASSUME Init PROVE MemoInv
  OBVIOUS
<1>1. TypeOK
  BY TypeInitially
<1>2. StoresWhatWasGiven /\ FailureIsNotCached
  BY DEF Init, StoresWhatWasGiven, FailureIsNotCached
<1>3. QED
  BY <1>1, <1>2 DEF MemoInv

LEMMA MemoStepKeeps == MemoInv /\ [Next]_vars => MemoInv'
<1> SUFFICES ASSUME MemoInv, [Next]_vars PROVE MemoInv'
  OBVIOUS
<1>1. TypeOK'
  BY TypeStep DEF MemoInv
<1> DEFINE Kept == StoresWhatWasGiven' /\ FailureIsNotCached'
<1>2. Kept
  <2> USE DEF MemoInv, StoresWhatWasGiven, FailureIsNotCached, TypeOK, Places,
              Goto, Return, nss, history
  <2>1. CASE UNCHANGED vars
    BY <2>1 DEF vars
  <2>2. ASSUME NEW t \in Thread, NEW u \in Uid, Call(t, u) PROVE Kept
    BY <2>2 DEF Call
  <2>3. ASSUME NEW t \in Thread, Lock(t, "locking", "reading") PROVE Kept
    BY <2>3 DEF Lock
  <2>4. ASSUME NEW t \in Thread, Lock(t, "storing", "inserting") PROVE Kept
    BY <2>4 DEF Lock
  <2>5. ASSUME NEW t \in Thread, ReadCache(t) PROVE Kept
    BY <2>5 DEF ReadCache
  <2>6. ASSUME NEW t \in Thread, Insert(t) PROVE Kept
    BY <2>6 DEF Insert
  <2>7. ASSUME NEW t \in Thread, Lookup(t) PROVE Kept
    BY <2>7 DEF Lookup
  <2>8. ASSUME NEW u \in Uid, NEW answer \in Answer, ChangeAccount(u, answer)
        PROVE  Kept
    BY <2>8 DEF ChangeAccount
  <2>9. CASE ChangeReachability
    BY <2>9 DEF ChangeReachability
  <2>10. QED
    BY <2>1, <2>2, <2>3, <2>4, <2>5, <2>6, <2>7, <2>8, <2>9 DEF Next, MemoStep
<1>3. QED
  BY <1>1, <1>2 DEF MemoInv

\* What the memo remembers about a uid, the directory once said: a lookup
\* that failed leaves no trace in it.
THEOREM FailuresForgotten == Spec => []FailureIsNotCached
<1>1. MemoInv => FailureIsNotCached
  BY DEF MemoInv
<1>2. QED
  BY MemoInitially, MemoStepKeeps, <1>1, PTL DEF Spec

-----------------------------------------------------------------------------
(***************************************************************************)
(* Until a uid is in the memo, whoever has an answer about it still holds  *)
(* it; once it is, only those already in the lookup can ask once more.     *)
(***************************************************************************)
Pending(u) == {t \in Thread : at[t] = "lookup" /\ uid[t] = u}
Answering(u) == {t \in Thread : at[t] \in {"storing", "inserting"} /\ uid[t] = u}

AskersCounted ==
  \A u \in Uid :
    /\ asked[u] + Cardinality(Pending(u)) <= Cardinality(Thread)
    /\ cache[u] = Unknown => asked[u] = Cardinality(Answering(u))

LEMMA Counts ==
  ASSUME NEW S \in SUBSET Thread
  PROVE  /\ IsFiniteSet(S)
         /\ Cardinality(S) \in Nat
         /\ Cardinality(S) <= Cardinality(Thread)
<1>1. IsFiniteSet(Thread)
  BY CallerNamesAssumption DEF CallerNamesAssumption
<1>2. QED
  BY <1>1, FS_Subset, FS_CardinalityType

LEMMA OneThreadLess ==
  ASSUME NEW S \in SUBSET Thread, NEW t \in S
  PROVE  Cardinality(S \ {t}) = Cardinality(S) - 1
BY Counts, FS_RemoveElement

LEMMA OneThreadMore ==
  ASSUME NEW S \in SUBSET Thread, NEW t \in Thread \ S
  PROVE  Cardinality(S \cup {t}) = Cardinality(S) + 1
BY Counts, FS_AddElement

\* Two sets of threads without a thread in common are together no more than
\* the threads there are.
LEMMA DisjointCounts ==
  ASSUME NEW S \in SUBSET Thread, NEW R \in SUBSET Thread, S \cap R = {}
  PROVE  Cardinality(S) + Cardinality(R) <= Cardinality(Thread)
<1>1. IsFiniteSet(S) /\ IsFiniteSet(R)
  BY Counts
<1>2. Cardinality(S \cap R) = 0
  BY FS_EmptySet
<1>3. Cardinality(S \cup R) = Cardinality(S) + Cardinality(R) - Cardinality(S \cap R)
  BY <1>1, FS_Union
<1>4. Cardinality(S \cup R) <= Cardinality(Thread)
  <2>1. S \cup R \in SUBSET Thread
    OBVIOUS
  <2>2. QED
    BY <2>1, Counts
<1>5. Cardinality(S) \in Nat /\ Cardinality(R) \in Nat
  BY Counts
<1>6. QED
  BY <1>2, <1>3, <1>4, <1>5

\* A step that moves nobody into or out of the lookup or past it, and stores
\* nothing, leaves the count as it was.
LEMMA NobodyMoved ==
  ASSUME AskersCounted, UNCHANGED <<asked, cache>>,
         \A u \in Uid : Pending(u)' = Pending(u) /\ Answering(u)' = Answering(u)
  PROVE  AskersCounted'
BY DEF AskersCounted

LEMMA CountedInitially == Init => AskersCounted
<1> SUFFICES ASSUME Init, NEW u \in Uid
             PROVE  /\ asked[u] + Cardinality(Pending(u)) <= Cardinality(Thread)
                    /\ cache[u] = Unknown => asked[u] = Cardinality(Answering(u))
  BY DEF AskersCounted
<1>1. asked[u] = 0 /\ Pending(u) = {} /\ Answering(u) = {}
  BY DEF Init, Pending, Answering
<1>2. Cardinality(Thread) \in Nat
  BY Counts
<1>3. QED
  BY <1>1, <1>2, FS_EmptySet

\* A thread that misses the memo joins those that ask.
LEMMA CountedThroughRead ==
  ASSUME MemoInv, AskersCounted, NEW t \in Thread, ReadCache(t)
  PROVE  AskersCounted'
<1> USE DEF MemoInv, TypeOK, Goto, Return
<1>1. UNCHANGED <<asked, cache, uid>>
  BY DEF ReadCache
<1>2. CASE cache[uid[t]] # Unknown
  <2>1. at[t] = "reading" /\ at' = [at EXCEPT ![t] = "idle"]
    BY <1>2 DEF ReadCache
  <2>2. \A u \in Uid : Pending(u)' = Pending(u) /\ Answering(u)' = Answering(u)
    BY <1>1, <2>1 DEF Pending, Answering
  <2>3. QED
    BY <1>1, <2>2, NobodyMoved
<1>3. CASE cache[uid[t]] = Unknown
  <2>1. at[t] = "reading" /\ at' = [at EXCEPT ![t] = "lookup"]
    BY <1>3 DEF ReadCache
  <2>2. ASSUME NEW u \in Uid
        PROVE  Answering(u)' = Answering(u) /\ Pending(u)' \cap Answering(u) = {}
    BY <1>1, <2>1 DEF Pending, Answering
  <2>3. ASSUME NEW u \in Uid, u # uid[t]
        PROVE  Pending(u)' = Pending(u)
    BY <1>1, <2>1, <2>3 DEF Pending
  <2>4. ASSUME NEW u \in Uid, u = uid[t]
        PROVE  asked[u] + Cardinality(Pending(u)') <= Cardinality(Thread)
    <3>1. asked[u] = Cardinality(Answering(u))
      BY <1>3, <2>4 DEF AskersCounted
    <3>2. Answering(u) \in SUBSET Thread /\ Pending(u)' \in SUBSET Thread
      BY DEF Answering, Pending
    <3>3. Cardinality(Answering(u)) + Cardinality(Pending(u)') <= Cardinality(Thread)
      BY <2>2, <3>2, DisjointCounts
    <3>4. QED
      BY <3>1, <3>3
  <2>5. ASSUME NEW u \in Uid
        PROVE  /\ asked'[u] + Cardinality(Pending(u)') <= Cardinality(Thread)
               /\ cache'[u] = Unknown => asked'[u] = Cardinality(Answering(u)')
    BY <1>1, <2>2, <2>3, <2>4 DEF AskersCounted
  <2>6. QED
    BY <2>5 DEF AskersCounted
<1>4. QED
  BY <1>2, <1>3

\* A thread NSS answers stops asking and starts to store; one it does not
\* answer stops asking.
LEMMA CountedThroughLookup ==
  ASSUME MemoInv, AskersCounted, NEW t \in Thread, Lookup(t)
  PROVE  AskersCounted'
<1> USE DEF MemoInv, TypeOK, Goto, Return
<1>1. at[t] = "lookup" /\ UNCHANGED <<cache, uid>>
  BY DEF Lookup
<1>2. at'[t] \in {"storing", "idle"} /\ \A s \in Thread \ {t} : at'[s] = at[s]
  BY DEF Lookup, Places
<1>3. ASSUME NEW u \in Uid, u # uid[t]
      PROVE  /\ Pending(u)' = Pending(u)
             /\ Answering(u)' = Answering(u)
             /\ asked'[u] = asked[u]
  <2>1. Pending(u)' = Pending(u) /\ Answering(u)' = Answering(u)
    BY <1>1, <1>2, <1>3 DEF Pending, Answering
  <2>2. asked'[u] = asked[u]
    BY <1>3 DEF Lookup
  <2>3. QED
    BY <2>1, <2>2
<1>4. Cardinality(Pending(uid[t])') = Cardinality(Pending(uid[t])) - 1
  <2>1. Pending(uid[t])' = Pending(uid[t]) \ {t} /\ t \in Pending(uid[t])
    BY <1>1, <1>2 DEF Pending
  <2>2. Pending(uid[t]) \in SUBSET Thread
    BY DEF Pending
  <2>3. Cardinality(Pending(uid[t]) \ {t}) = Cardinality(Pending(uid[t])) - 1
    BY <2>1, <2>2, OneThreadLess
  <2>4. QED
    BY <2>1, <2>3
<1>5. CASE ~reachable
  <2>1. at'[t] = "idle" /\ asked' = asked
    BY <1>5 DEF Lookup, Places
  <2>2. Answering(uid[t])' = Answering(uid[t])
    BY <1>1, <1>2, <2>1 DEF Answering
  <2>3. Cardinality(Pending(uid[t])) \in Nat /\ Cardinality(Thread) \in Nat
    BY Counts DEF Pending
  <2>4. QED
    BY <1>1, <1>3, <1>4, <2>1, <2>2, <2>3 DEF AskersCounted
<1>6. CASE reachable
  <2>1. at'[t] = "storing" /\ asked' = [asked EXCEPT ![uid[t]] = @ + 1]
    BY <1>6 DEF Lookup, Places
  <2>2. Answering(uid[t])' = Answering(uid[t]) \cup {t} /\ t \notin Answering(uid[t])
    BY <1>1, <1>2, <2>1 DEF Answering
  <2>3. Answering(uid[t]) \in SUBSET Thread
    BY DEF Answering
  <2>4. Cardinality(Answering(uid[t])') = Cardinality(Answering(uid[t])) + 1
    <3>1. Cardinality(Answering(uid[t]) \cup {t}) = Cardinality(Answering(uid[t])) + 1
      BY <2>2, <2>3, OneThreadMore
    <3>2. QED
      BY <2>2, <3>1
  <2>5. Cardinality(Pending(uid[t])) \in Nat /\ Cardinality(Thread) \in Nat
    BY Counts DEF Pending
  <2>6. asked'[uid[t]] = asked[uid[t]] + 1 /\ asked[uid[t]] \in Nat
    BY <2>1
  <2>7. asked'[uid[t]] + Cardinality(Pending(uid[t])') <= Cardinality(Thread)
    BY <1>4, <2>5, <2>6 DEF AskersCounted
  <2>8. cache'[uid[t]] = Unknown => asked'[uid[t]] = Cardinality(Answering(uid[t])')
    BY <1>1, <2>4, <2>6 DEF AskersCounted
  <2>9. QED
    BY <1>1, <1>3, <2>7, <2>8 DEF AskersCounted
<1>7. QED
  BY <1>5, <1>6

\* A thread that stores leaves the uid in the memo for good.
LEMMA CountedThroughInsert ==
  ASSUME MemoInv, AskersCounted, NEW t \in Thread, Insert(t)
  PROVE  AskersCounted'
<1> USE DEF MemoInv, TypeOK, Goto, Return
<1>1. at[t] = "inserting" /\ at' = [at EXCEPT ![t] = "idle"] /\ UNCHANGED <<uid, asked>>
  BY DEF Insert, history
<1>2. \A u \in Uid : Pending(u)' = Pending(u)
  BY <1>1 DEF Pending
<1>3. \A u \in Uid : u # uid[t] => Answering(u)' = Answering(u) /\ cache'[u] = cache[u]
  BY <1>1 DEF Answering, Insert
<1>4. looked_up[t] \in Answer
  BY <1>1 DEF StoresWhatWasGiven
<1>5. cache'[uid[t]] # Unknown
  BY <1>4, CallerNamesAssumption DEF Insert, CallerNamesAssumption
<1>6. QED
  BY <1>1, <1>2, <1>3, <1>5 DEF AskersCounted

LEMMA CountedStep ==
  MemoInv /\ AskersCounted /\ [Next]_vars => AskersCounted'
<1> SUFFICES ASSUME MemoInv, AskersCounted, [Next]_vars PROVE AskersCounted'
  OBVIOUS
<1> DEFINE Still == /\ UNCHANGED <<asked, cache>>
                    /\ \A u \in Uid : Pending(u)' = Pending(u) /\ Answering(u)' = Answering(u)
<1> USE DEF MemoInv, TypeOK, Goto, nss, history, Pending, Answering
<1>1. CASE UNCHANGED vars
  <2>1. Still
    BY <1>1 DEF vars
  <2>2. QED
    BY <2>1, NobodyMoved
<1>2. ASSUME NEW t \in Thread, NEW u \in Uid, Call(t, u) PROVE AskersCounted'
  <2>1. Still
    BY <1>2 DEF Call
  <2>2. QED
    BY <2>1, NobodyMoved
<1>3. ASSUME NEW t \in Thread, Lock(t, "locking", "reading") PROVE AskersCounted'
  <2>1. Still
    BY <1>3 DEF Lock
  <2>2. QED
    BY <2>1, NobodyMoved
<1>4. ASSUME NEW t \in Thread, Lock(t, "storing", "inserting") PROVE AskersCounted'
  <2>1. Still
    BY <1>4 DEF Lock
  <2>2. QED
    BY <2>1, NobodyMoved
<1>5. ASSUME NEW u \in Uid, NEW answer \in Answer, ChangeAccount(u, answer)
      PROVE  AskersCounted'
  <2>1. Still
    BY <1>5 DEF ChangeAccount
  <2>2. QED
    BY <2>1, NobodyMoved
<1>6. CASE ChangeReachability
  <2>1. Still
    BY <1>6 DEF ChangeReachability
  <2>2. QED
    BY <2>1, NobodyMoved
<1>7. QED
  BY <1>1, <1>2, <1>3, <1>4, <1>5, <1>6, CountedThroughRead, CountedThroughLookup,
     CountedThroughInsert DEF Next, MemoStep

\* However often a uid is met, and whatever becomes of its account in the
\* meantime, NSS answers about it at most once per thread.
THEOREM LookupsBounded == Spec => []LookupsAreBounded
<1>1. MemoInv /\ AskersCounted => LookupsAreBounded
  <2> SUFFICES ASSUME MemoInv, AskersCounted, NEW u \in Uid
               PROVE  asked[u] <= Cardinality(Thread)
    BY DEF LookupsAreBounded
  <2>1. asked[u] \in Nat /\ Cardinality(Pending(u)) \in Nat /\ Cardinality(Thread) \in Nat
    BY Counts DEF Pending, MemoInv, TypeOK
  <2>2. QED
    BY <2>1 DEF AskersCounted
<1>2. QED
  BY MemoInitially, MemoStepKeeps, CountedInitially, CountedStep, <1>1, PTL DEF Spec

-----------------------------------------------------------------------------
(***************************************************************************)
(* How long an entry may change.                                           *)
(***************************************************************************)

LEMMA SettledStep ==
  ASSUME TypeOK, [Next]_vars, NEW u \in Uid, Settled(u)
  PROVE  Settled(u)' /\ cache'[u] = cache[u]
<1> DEFINE Kept == Settled(u)' /\ cache'[u] = cache[u]
<1> USE DEF TypeOK, Places, Settled, Goto, Return, nss, history
<1>1. CASE UNCHANGED vars
  BY <1>1 DEF vars
<1>2. ASSUME NEW t \in Thread, NEW v \in Uid, Call(t, v) PROVE Kept
  BY <1>2 DEF Call
<1>3. ASSUME NEW t \in Thread, Lock(t, "locking", "reading") PROVE Kept
  BY <1>3 DEF Lock
<1>4. ASSUME NEW t \in Thread, Lock(t, "storing", "inserting") PROVE Kept
  BY <1>4 DEF Lock
<1>5. ASSUME NEW t \in Thread, ReadCache(t) PROVE Kept
  <2>1. at[t] = "reading" /\ UNCHANGED <<cache, uid>>
    BY <1>5 DEF ReadCache
  <2>2. CASE uid[t] = u
    <3>1. at' = [at EXCEPT ![t] = "idle"]
      BY <1>5, <2>2 DEF ReadCache
    <3>2. QED
      BY <2>1, <3>1
  <2>3. CASE uid[t] # u
    <3>1. \A s \in Thread \ {t} : at'[s] = at[s]
      BY <1>5 DEF ReadCache
    <3>2. QED
      BY <2>1, <2>3, <3>1
  <2>4. QED
    BY <2>2, <2>3
<1>6. ASSUME NEW t \in Thread, Lookup(t) PROVE Kept
  <2>1. at[t] = "lookup" /\ UNCHANGED <<cache, uid>>
    BY <1>6 DEF Lookup
  <2>2. \A s \in Thread \ {t} : at'[s] = at[s]
    BY <1>6 DEF Lookup
  <2>3. QED
    BY <2>1, <2>2
<1>7. ASSUME NEW t \in Thread, Insert(t) PROVE Kept
  BY <1>7 DEF Insert
<1>8. ASSUME NEW v \in Uid, NEW answer \in Answer, ChangeAccount(v, answer) PROVE Kept
  BY <1>8 DEF ChangeAccount
<1>9. CASE ChangeReachability
  BY <1>9 DEF ChangeReachability
<1>10. QED
  BY <1>1, <1>2, <1>3, <1>4, <1>5, <1>6, <1>7, <1>8, <1>9 DEF Next, MemoStep

\* Once an entry is there and nobody is on the way to store another, it stays
\* what it is, whatever becomes of the account.
THEOREM EntriesSettle == Spec => SettledForGood
<1>1. TypeOK /\ [Next]_vars
        => [\A u \in Uid : Settled(u) => Settled(u)' /\ cache'[u] = cache[u]]_vars
  BY SettledStep
<1>2. QED
  BY <1>1, TypeInitially, TypeStep, PTL DEF Spec, SettledForGood

-----------------------------------------------------------------------------
(***************************************************************************)
(* When racers agree.                                                      *)
(***************************************************************************)

\* Where a thread is between a miss and the end of its call, and after that.
Racing == {"lookup", "storing", "inserting", "idle"}

\* A race is one both take part in, about one uid, until either calls again.
RacersMeet ==
  \A t, s \in Thread :
    s \in raced[t] => t \in raced[s] /\ uid[s] = uid[t] /\ at[t] \in Racing

\* What the directory has to say about a uid, or that it does not answer.
Verdict(u) == IF reachable THEN directory[u] ELSE Unknown

\* While the directory is what it was, whatever is known of it is the same.
OneVerdict ==
  changes = 0 =>
    /\ \A u \in Uid : cache[u] # Unknown => cache[u] = Verdict(u)
    /\ \A t \in Thread :
         at[t] \in {"storing", "inserting"} => looked_up[t] = Verdict(uid[t])
    /\ \A t \in Thread :
         at[t] = "idle" /\ raced[t] # {} => result[t] = Verdict(uid[t])

LEMMA RacersMeetStep ==
  ASSUME TypeOK, RacersMeet, [Next]_vars
  PROVE  RacersMeet'
<1> USE DEF TypeOK, Places, Racing, RacersMeet, Goto, Return, nss, history
<1>1. CASE UNCHANGED vars
  BY <1>1 DEF vars
<1>2. ASSUME NEW t \in Thread, NEW u \in Uid, Call(t, u) PROVE RacersMeet'
  BY <1>2 DEF Call
<1>3. ASSUME NEW t \in Thread, Lock(t, "locking", "reading") PROVE RacersMeet'
  BY <1>3 DEF Lock
<1>4. ASSUME NEW t \in Thread, Lock(t, "storing", "inserting") PROVE RacersMeet'
  BY <1>4 DEF Lock
<1>5. ASSUME NEW t \in Thread, ReadCache(t) PROVE RacersMeet'
  BY <1>5 DEF ReadCache
<1>6. ASSUME NEW t \in Thread, Lookup(t) PROVE RacersMeet'
  BY <1>6 DEF Lookup
<1>7. ASSUME NEW t \in Thread, Insert(t) PROVE RacersMeet'
  BY <1>7 DEF Insert
<1>8. ASSUME NEW u \in Uid, NEW answer \in Answer, ChangeAccount(u, answer)
      PROVE  RacersMeet'
  BY <1>8 DEF ChangeAccount
<1>9. CASE ChangeReachability
  BY <1>9 DEF ChangeReachability
<1>10. QED
  BY <1>1, <1>2, <1>3, <1>4, <1>5, <1>6, <1>7, <1>8, <1>9 DEF Next, MemoStep

LEMMA OneVerdictStep ==
  ASSUME TypeOK, RacersMeet, OneVerdict, [Next]_vars
  PROVE  OneVerdict'
<1> USE DEF TypeOK, Places, OneVerdict, Verdict, Goto, Return, nss, history
<1>1. CASE UNCHANGED vars
  BY <1>1 DEF vars
<1>2. ASSUME NEW t \in Thread, NEW u \in Uid, Call(t, u) PROVE OneVerdict'
  BY <1>2 DEF Call
<1>3. ASSUME NEW t \in Thread, Lock(t, "locking", "reading") PROVE OneVerdict'
  BY <1>3 DEF Lock
<1>4. ASSUME NEW t \in Thread, Lock(t, "storing", "inserting") PROVE OneVerdict'
  BY <1>4 DEF Lock
<1>5. ASSUME NEW t \in Thread, ReadCache(t) PROVE OneVerdict'
  BY <1>5 DEF ReadCache
<1>6. ASSUME NEW t \in Thread, Lookup(t) PROVE OneVerdict'
  BY <1>6 DEF Lookup
<1>7. ASSUME NEW t \in Thread, Insert(t) PROVE OneVerdict'
  BY <1>7 DEF Insert
<1>8. CASE changes' = changes + 1
  BY <1>8
<1>9. QED
  BY <1>1, <1>2, <1>3, <1>4, <1>5, <1>6, <1>7, <1>8
     DEF Next, MemoStep, ChangeAccount, ChangeReachability

\* "Two callers racing to resolve the same uid simply both resolve it, and agree
\* on the answer": as long as the directory neither changes nor comes or goes.
THEOREM QuietRacersDoAgree == Spec => []QuietRacersAgree
<1>1. Init => TypeOK /\ RacersMeet /\ OneVerdict
  BY TypeInitially DEF Init, RacersMeet, OneVerdict
<1>2. TypeOK /\ RacersMeet /\ OneVerdict /\ [Next]_vars
        => (TypeOK /\ RacersMeet /\ OneVerdict)'
  BY TypeStep, RacersMeetStep, OneVerdictStep
<1>3. TypeOK /\ RacersMeet /\ OneVerdict => QuietRacersAgree
  <2> SUFFICES ASSUME TypeOK, RacersMeet, OneVerdict, changes = 0,
                      NEW t \in Thread, NEW s \in raced[t],
                      at[t] = "idle", at[s] = "idle"
               PROVE  result[t] = result[s]
    BY DEF QuietRacersAgree, RacersAgree
  <2>1. s \in Thread
    BY DEF TypeOK
  <2>2. t \in raced[s] /\ uid[s] = uid[t]
    BY <2>1 DEF RacersMeet
  <2>3. QED
    BY <2>1, <2>2 DEF OneVerdict
<1>4. QED
  BY <1>1, <1>2, <1>3, PTL DEF Spec

=============================================================================
