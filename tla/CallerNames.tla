----------------------------- MODULE CallerNames -----------------------------
(***************************************************************************)
(* The memo of name_for_uid in src/src/caller.rs, asked by several threads *)
(* at once about uids whose accounts live in a directory service.  The     *)
(* memo's mutex is taken twice, to look the uid up in the map and to store *)
(* the answer, and is free while NSS is asked in between.                  *)
(***************************************************************************)
EXTENDS Naturals, FiniteSets

CONSTANTS
  Thread,     \* the threads that render a Caller
  Uid,        \* the uids they meet
  Name,       \* account names, as sanitize leaves them
  Absent,     \* no account owns the uid: Some(None) in the memo
  Unknown,    \* the memo has no entry, or name_for_uid has no answer
  Free,       \* nobody holds the mutex
  MaxCalls,   \* bound on the calls of a thread
  MaxChanges  \* bound on changes of the directory: renames and outages

Answer == Name \cup {Absent}

ASSUME CallerNamesAssumption ==
  /\ Unknown \notin Answer
  /\ Free \notin Thread
  /\ IsFiniteSet(Thread)
  /\ MaxCalls \in Nat
  /\ MaxChanges \in Nat

VARIABLES
  directory,  \* directory[u]: the account that owns u
  reachable,  \* NSS answers
  changes,
  cache,      \* CACHE
  holder,     \* who holds its mutex
  at,         \* at[t]: where t is in name_for_uid
  uid,        \* uid[t]: its argument
  looked_up,  \* looked_up[t]: the answer it got from NSS
  result,     \* result[t]: what its latest call returned; None is Unknown when
              \* the lookup failed, and Absent when no account owns the uid
  calls,      \* calls[t]: how often it has called
  given,      \* history: given[u] are the answers NSS has given for u
  asked,      \* history: asked[u] counts them
  raced       \* history: raced[t] were in NSS for t's uid when t was

nss == <<directory, reachable, changes>>
history == <<given, asked, raced>>
vars == <<nss, cache, holder, at, uid, looked_up, result, calls, history>>

Places == {"idle", "locking", "reading", "lookup", "storing", "inserting"}

TypeOK ==
  /\ directory \in [Uid -> Answer]
  /\ reachable \in BOOLEAN
  /\ cache \in [Uid -> Answer \cup {Unknown}]
  /\ holder \in Thread \cup {Free}
  /\ at \in [Thread -> Places]
  /\ uid \in [Thread -> Uid]
  /\ looked_up \in [Thread -> Answer \cup {Unknown}]
  /\ result \in [Thread -> Answer \cup {Unknown}]
  /\ calls \in [Thread -> 0 .. MaxCalls]
  /\ changes \in 0 .. MaxChanges
  /\ given \in [Uid -> SUBSET Answer]
  /\ asked \in [Uid -> Nat]
  /\ raced \in [Thread -> SUBSET Thread]

Init ==
  /\ directory \in [Uid -> Answer]
  /\ reachable \in BOOLEAN
  /\ changes = 0
  /\ cache = [u \in Uid |-> Unknown]
  /\ holder = Free
  /\ at = [t \in Thread |-> "idle"]
  /\ uid \in [Thread -> Uid]
  /\ looked_up = [t \in Thread |-> Unknown]
  /\ result = [t \in Thread |-> Unknown]
  /\ calls = [t \in Thread |-> 0]
  /\ given = [u \in Uid |-> {}]
  /\ asked = [u \in Uid |-> 0]
  /\ raced = [t \in Thread |-> {}]

Goto(t, place) == at' = [at EXCEPT ![t] = place]

Return(t, answer) ==
  /\ Goto(t, "idle")
  /\ result' = [result EXCEPT ![t] = answer]

-----------------------------------------------------------------------------
(***************************************************************************)
(* Mistakes the properties must notice, each the mutant of one action.     *)
(***************************************************************************)

\* The first block's lock is held through the lookup.
LockHeldThroughLookup(t, from, to) ==
  /\ at[t] = from
  /\ holder = Free
  /\ from = "locking" => \A s \in Thread : at[s] \notin {"lookup", "storing"}
  /\ holder' = t
  /\ Goto(t, to)
  /\ UNCHANGED <<nss, cache, uid, looked_up, result, calls, history>>

\* A lookup that failed is remembered as an absence.
LookupRemembersFailure(t) ==
  /\ at[t] = "lookup"
  /\ looked_up' = [looked_up EXCEPT ![t] = IF reachable THEN directory[uid[t]] ELSE Absent]
  /\ Goto(t, "storing")
  /\ UNCHANGED <<nss, cache, holder, uid, result, calls, history>>

\* Only names are remembered, so absence is looked up every time.
InsertNamesOnly(t) ==
  /\ at[t] = "inserting"
  /\ cache' = IF looked_up[t] \in Name
                THEN [cache EXCEPT ![uid[t]] = looked_up[t]]
                ELSE cache
  /\ holder' = Free
  /\ Return(t, looked_up[t])
  /\ UNCHANGED <<nss, uid, looked_up, calls, history>>

\* What is stored for a uid nothing owns is its rendering, the number.
InsertNumber(t) ==
  /\ at[t] = "inserting"
  /\ cache' = [cache EXCEPT ![uid[t]] = IF looked_up[t] = Absent THEN uid[t] ELSE looked_up[t]]
  /\ holder' = Free
  /\ Return(t, looked_up[t])
  /\ UNCHANGED <<nss, uid, looked_up, calls, history>>

\* What insert returns is returned: the entry there was before.
InsertReturnsPrevious(t) ==
  /\ at[t] = "inserting"
  /\ cache' = [cache EXCEPT ![uid[t]] = looked_up[t]]
  /\ holder' = Free
  /\ Return(t, cache[uid[t]])
  /\ UNCHANGED <<nss, uid, looked_up, calls, history>>

\* A remembered absence is no hit.
ReadCacheNamesOnly(t) ==
  /\ at[t] = "reading"
  /\ holder' = Free
  /\ \/ cache[uid[t]] \in Name /\ Return(t, cache[uid[t]])
     \/ cache[uid[t]] \notin Name /\ Goto(t, "lookup") /\ UNCHANGED result
  /\ UNCHANGED <<nss, cache, uid, looked_up, calls, history>>

-----------------------------------------------------------------------------

\* A thread renders a Caller::Peer.
Call(t, u) ==
  /\ at[t] = "idle"
  /\ calls[t] < MaxCalls
  /\ calls' = [calls EXCEPT ![t] = @ + 1]
  /\ uid' = [uid EXCEPT ![t] = u]
  /\ looked_up' = [looked_up EXCEPT ![t] = Unknown]
  /\ raced' = [s \in Thread |-> IF s = t THEN {} ELSE raced[s] \ {t}]
  /\ Goto(t, "locking")
  /\ UNCHANGED <<nss, cache, holder, result, given, asked>>

\* cache.lock(): a poisoned lock is taken like any other.
Lock(t, from, to) ==
  /\ at[t] = from
  /\ holder = Free
  /\ holder' = t
  /\ Goto(t, to)
  /\ UNCHANGED <<nss, cache, uid, looked_up, result, calls, history>>

\* The first block: a hit is the answer, and the guard is dropped either way.
ReadCache(t) ==
  /\ at[t] = "reading"
  /\ holder' = Free
  /\ \/ /\ cache[uid[t]] # Unknown
        /\ Return(t, cache[uid[t]])
        /\ UNCHANGED raced
     \/ /\ cache[uid[t]] = Unknown
        /\ Goto(t, "lookup")
        /\ LET rivals == {s \in Thread \ {t} : at[s] = "lookup" /\ uid[s] = uid[t]}
           IN  raced' = [s \in Thread |-> IF s = t THEN rivals
                                          ELSE IF s \in rivals THEN raced[s] \cup {t}
                                          ELSE raced[s]]
        /\ UNCHANGED result
  /\ UNCHANGED <<nss, cache, uid, looked_up, calls, given, asked>>

\* User::from_uid: a failure is the answer None, and is not stored.
Lookup(t) ==
  /\ at[t] = "lookup"
  /\ \/ /\ reachable
        /\ looked_up' = [looked_up EXCEPT ![t] = directory[uid[t]]]
        /\ given' = [given EXCEPT ![uid[t]] = @ \cup {directory[uid[t]]}]
        /\ asked' = [asked EXCEPT ![uid[t]] = @ + 1]
        /\ Goto(t, "storing")
        /\ UNCHANGED result
     \/ /\ ~reachable
        /\ Return(t, Unknown)
        /\ UNCHANGED <<looked_up, given, asked>>
  /\ UNCHANGED <<nss, cache, holder, uid, calls, raced>>

\* The second block: absence is stored like a name.
Insert(t) ==
  /\ at[t] = "inserting"
  /\ cache' = [cache EXCEPT ![uid[t]] = looked_up[t]]
  /\ holder' = Free
  /\ Return(t, looked_up[t])
  /\ UNCHANGED <<nss, uid, looked_up, calls, history>>

\* The directory, external: an account is renamed, made or removed, and the
\* service comes and goes.
ChangeAccount(u, answer) ==
  /\ changes < MaxChanges
  /\ changes' = changes + 1
  /\ directory' = [directory EXCEPT ![u] = answer]
  /\ UNCHANGED <<reachable, cache, holder, at, uid, looked_up, result, calls, history>>

ChangeReachability ==
  /\ changes < MaxChanges
  /\ changes' = changes + 1
  /\ reachable' = ~reachable
  /\ UNCHANGED <<directory, cache, holder, at, uid, looked_up, result, calls, history>>

\* What a thread does on its own; only Lookup waits for somebody else.
MemoStep(t) ==
  \/ Lock(t, "locking", "reading")
  \/ ReadCache(t)
  \/ Lock(t, "storing", "inserting")
  \/ Insert(t)

Next ==
  \/ \E t \in Thread : (\E u \in Uid : Call(t, u)) \/ MemoStep(t) \/ Lookup(t)
  \/ \E u \in Uid, answer \in Answer : ChangeAccount(u, answer)
  \/ ChangeReachability

Spec == Init /\ [][Next]_vars

\* Threads run; NSS need never answer.
FairSpec == Spec /\ \A t \in Thread : WF_vars(MemoStep(t))

-----------------------------------------------------------------------------

\* What is remembered is what the directory once said: "a failed lookup is
\* deliberately not cached", so one bad moment never becomes permanent.
FailureIsNotCached ==
  \A u \in Uid : cache[u] # Unknown => cache[u] \in given[u]

\* The memo keeps NSS out of the way: absence is remembered too, so however
\* often a uid is met, each thread gets at most one answer about it from NSS.
LookupsAreBounded == \A u \in Uid : asked[u] <= Cardinality(Thread)

\* A uid whose entry is there and which nobody is still looking up or storing.
Settled(u) ==
  /\ cache[u] # Unknown
  /\ \A t \in Thread :
       uid[t] = u => at[t] \notin {"lookup", "storing", "inserting"}

\* An older answer is stored over a newer one only by who was already in the
\* lookup when the newer one came; once they are through, the entry is what it
\* is for the life of the process, and every caller is rendered alike.
SettledForGood ==
  [][\A u \in Uid : Settled(u) => Settled(u)' /\ cache'[u] = cache[u]]_vars

\* One slow lookup is not everyone's problem: a thread whose uid is in the
\* memo gets its answer even if NSS never answers anybody again.
CachedNeverWaits ==
  \A t \in Thread :
    at[t] = "locking" /\ cache[uid[t]] # Unknown ~> at[t] = "idle"

\* "Two callers racing to resolve the same uid simply both resolve it, and
\* agree on the answer."
RacersAgree ==
  \A t \in Thread :
    \A s \in raced[t] :
      at[t] = "idle" /\ at[s] = "idle" => result[t] = result[s]

\* That is so while the directory neither changes nor fails nor recovers.
QuietRacersAgree == changes = 0 => RacersAgree

=============================================================================
