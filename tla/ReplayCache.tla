----------------------------- MODULE ReplayCache -----------------------------
(***************************************************************************)
(* identity/replaycache.go: the process-wide cache behind identity.Replay. *)
(*                                                                         *)
(* Threads call Replay; the process may install another cache, or none,    *)
(* at any time.  A thread that misses gives the lock up while it replays   *)
(* and takes it again to store the answer, so any number of lookups,       *)
(* stores, evictions and swaps fall in between, a store of the very same   *)
(* KEL among them.  A KEL stands for its encoding (the code keys entries   *)
(* by its SHA-256) and Cost[k] for the estimate compactStates makes of     *)
(* its states plus the fixed 256 bytes.                                    *)
(***************************************************************************)
EXTENDS Integers, FiniteSets, Sequences, SequencesExt, Functions

CONSTANTS
  None,          \* no cache installed
  Threads,       \* callers of Replay
  KELs,          \* the KELs they pass
  Replayable,    \* those that replay
  Encodable,     \* those MarshalKEL encodes
  Cost,          \* the estimate for each
  Caches,        \* the caches the process ever makes
  MaxBytes,      \* MaxBytes[c]: what c was made with
  MaxLookups     \* bound: lookups in all caches

ASSUME CacheAssumption ==
  /\ Replayable \subseteq KELs /\ Encodable \subseteq KELs
  /\ Cost \in [KELs -> Nat \ {0}]
  /\ MaxBytes \in [Caches -> Nat]
  /\ None \notin Caches

VARIABLES
  installed,  \* installedReplayCache
  cache,      \* cache[c]: the ReplayCache c
  call,       \* call[h]: the Replay thread h is in
  used        \* history: used[c] is every KEL c ever answered or stored, last used first

vars == <<installed, cache, call, used>>

\* What replay makes of a KEL: its key states, or the reason it has none.
replay(k) == [ok |-> k \in Replayable, of |-> k]

\* replayEntry.
Entry == [states : [ok : BOOLEAN, of : KELs], cost : Nat]

NewReplayCache == [byKEL |-> <<>>, lru |-> <<>>, bytes |-> 0, hits |-> 0, misses |-> 0]

Idle == [pc |-> "idle"]

Init ==
  /\ installed \in Caches \cup {None}
  /\ cache = [c \in Caches |-> NewReplayCache]
  /\ call = [h \in Threads |-> Idle]
  /\ used = [c \in Caches |-> <<>>]

Returned(k, answer) == [pc |-> "returned", kel |-> k, answer |-> answer]

\* list.MoveToFront for a member, list.PushFront for any other.
ToFront(s, k) == <<k>> \o RemoveFirst(s, k)

\* What the entries of keys cost together: how many bytes there are, each a member.
Size(C, keys) == Cardinality(UNION {{k} \X (1..C.byKEL[k].cost) : k \in keys})

lookups == SumFunction([c \in Caches |-> cache[c].hits + cache[c].misses])

-----------------------------------------------------------------------------
(* Under the lock. *)

\* The hit path: the cache after it, and the answer it gives.
hit(C, k) ==
  [C EXCEPT !.lru = ToFront(@, k), !.hits = @ + 1]

\* Mutant: an entry's error is not looked at.
cached_NoError(e) == [e.states EXCEPT !.ok = TRUE]

cached(e) == e.states

\* Mutant: the map is not looked at again.
skips_NoRecheck(C, k, cost, max) == cost > max

\* The answer is not stored: another thread stored it meanwhile, or it is larger than the
\* whole cache.
skips(C, k, cost, max) == k \in DOMAIN C.byKEL \/ cost > max

\* What c.lru keeps when entries are dropped from the back until one of cost more fits:
\* the lengths of the fronts that leave room for it.  The loop stops at the longest.
fits(C, cost, max) ==
  {n \in 0..Len(C.lru) :
     C.bytes - Size(C, ToSet(SubSeq(C.lru, n + 1, Len(C.lru)))) + cost <= max}

Longest(S) == CHOOSE n \in S : \A m \in S : m <= n

\* The eviction loop and the store after it.
evictAndStore(C, k, e, max) ==
  LET n == Longest(fits(C, e.cost, max))
      kept == SubSeq(C.lru, 1, n)
      gone == ToSet(SubSeq(C.lru, n + 1, Len(C.lru)))
  IN  [C EXCEPT !.byKEL = [x \in (DOMAIN @ \ gone) \cup {k} |-> IF x = k THEN e ELSE @[x]],
                !.lru = <<k>> \o kept,
                !.bytes = @ - Size(C, gone) + e.cost]

-----------------------------------------------------------------------------
(* The steps of Replay. *)

\* SetReplayCache.
SetReplayCache(c) ==
  /\ installed # c
  /\ installed' = c
  /\ UNCHANGED <<cache, call, used>>

\* Replay reads the pointer once; without a cache, or for a KEL that does not encode, it
\* replays.
Replay(h, k) ==
  /\ call[h].pc = "idle"
  /\ call' = [call EXCEPT ![h] =
       IF installed = None \/ k \notin Encodable THEN Returned(k, replay(k))
       ELSE [pc |-> "lookup", kel |-> k, c |-> installed]]
  /\ UNCHANGED <<installed, cache, used>>

\* The first critical section: answered from the cache, or a miss.
Lookup(h) ==
  LET k == call[h].kel
      c == call[h].c
      C == cache[c]
  IN  /\ call[h].pc = "lookup"
      /\ lookups < MaxLookups
      /\ IF k \in DOMAIN C.byKEL
         THEN /\ cache' = [cache EXCEPT ![c] = hit(C, k)]
              /\ used' = [used EXCEPT ![c] = ToFront(@, k)]
              /\ call' = [call EXCEPT ![h] = Returned(k, cached(C.byKEL[k]))]
         ELSE /\ cache' = [cache EXCEPT ![c].misses = @ + 1]
              /\ call' = [call EXCEPT ![h].pc = "replaying"]
              /\ UNCHANGED used
      /\ UNCHANGED installed

\* The replay, made without the lock, and the second critical section.
Store(h) ==
  LET k == call[h].kel
      c == call[h].c
      C == cache[c]
      e == [states |-> replay(k), cost |-> Cost[k]]
  IN  /\ call[h].pc = "replaying"
      /\ IF skips(C, k, e.cost, MaxBytes[c])
         THEN /\ call' = [call EXCEPT ![h] = Returned(k, replay(k))]
              /\ UNCHANGED <<cache, used>>
         ELSE IF fits(C, e.cost, MaxBytes[c]) = {}
         THEN \* c.lru.Back() is nil
              /\ call' = [call EXCEPT ![h] = [pc |-> "panicked"]]
              /\ UNCHANGED <<cache, used>>
         ELSE /\ cache' = [cache EXCEPT ![c] = evictAndStore(C, k, e, MaxBytes[c])]
              /\ used' = [used EXCEPT ![c] = ToFront(@, k)]
              /\ call' = [call EXCEPT ![h] = Returned(k, replay(k))]
      /\ UNCHANGED installed

\* The caller has its answer.
Return(h) ==
  /\ call[h].pc = "returned"
  /\ call' = [call EXCEPT ![h] = Idle]
  /\ UNCHANGED <<installed, cache, used>>

Next ==
  \/ \E c \in Caches \cup {None} : SetReplayCache(c)
  \/ \E h \in Threads :
       \/ \E k \in KELs : Replay(h, k)
       \/ Lookup(h) \/ Store(h) \/ Return(h)

Spec == Init /\ [][Next]_vars

-----------------------------------------------------------------------------
(* Properties. *)

Calls ==
  {Idle, [pc |-> "panicked"]}
    \cup [pc : {"lookup", "replaying"}, kel : KELs, c : Caches]
    \cup [pc : {"returned"}, kel : KELs, answer : [ok : BOOLEAN, of : KELs]]

TypeOK ==
  /\ installed \in Caches \cup {None}
  /\ call \in [Threads -> Calls]
  /\ \A c \in Caches :
       /\ DOMAIN cache[c].byKEL \subseteq KELs
       /\ \A k \in DOMAIN cache[c].byKEL : cache[c].byKEL[k] \in Entry
       /\ cache[c].lru \in Seq(KELs)
       /\ cache[c].bytes \in Int /\ cache[c].hits \in Nat /\ cache[c].misses \in Nat

\* The map and the recency list hold the same KELs, each once, however many threads raced
\* to store one KEL (ReplayCache.replay).
MapMatchesList ==
  \A c \in Caches :
    /\ IsInjective(cache[c].lru)
    /\ ToSet(cache[c].lru) = DOMAIN cache[c].byKEL

\* bytes is what the entries held cost, and never more than the cache was made for.
BytesBounded ==
  \A c \in Caches :
    /\ cache[c].bytes = Size(cache[c], DOMAIN cache[c].byKEL)
    /\ cache[c].bytes <= MaxBytes[c]

\* The eviction loop never runs out of entries to drop: c.lru.Back() is never nil.
NeverPanics == \A h \in Threads : call[h].pc # "panicked"

\* What Replay returns for a KEL is what replaying it gives, whichever cache, thread or
\* earlier caller the answer came from.
AnswerIsReplay ==
  \A h \in Threads : call[h].pc = "returned" => call[h].answer = replay(call[h].kel)

\* What a cache holds is what was used last, in that order, and nothing else: it never dropped
\* an entry and kept one that had not been used since.
RecencyOrder == \A c \in Caches : IsPrefix(cache[c].lru, used[c])

\* The cache is sound under any race: map and list agree, bytes are what the entries cost and
\* within the limit, eviction drops the least recently used and never runs out of entries.
CacheSound == TypeOK /\ MapMatchesList /\ BytesBounded /\ NeverPanics /\ RecencyOrder
=============================================================================
