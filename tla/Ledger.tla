------------------------------- MODULE Ledger -------------------------------
(***************************************************************************)
(* The Agent Event Ledger, ael/ael.go and ael/witness.go: per-DID hash     *)
(* chains that store verified records only, stage records that arrive      *)
(* ahead of their predecessor, and quarantine a chain for good when two    *)
(* distinct records claim one seq.                                         *)
(*                                                                         *)
(* Several replicas hold a Ledger each.  Records reach a replica one by    *)
(* one, in any order and any number of times (Append), or as a run of      *)
(* another replica's events (ImportBatch over Events).  Witnesses attest   *)
(* the heads they see.  A Ledger has no lock: its owner calls it from one  *)
(* thread, so a replica in an import does nothing else.                    *)
(***************************************************************************)
EXTENDS Integers, Sequences, FiniteSets

CONSTANTS
  None,            \* an absent value: no error, no import
  Replicas,
  Chains,          \* chain DIDs
  Witnesses,       \* the AIDs that sign head attestations, owners of a chain among them
  Records,         \* the records that may be delivered
  GenesisPrev,     \* the prev_id of every genesis record
  ImportBufferCap, \* the bound on a chain's staging buffer
  MaxAttestations  \* bound: how many attestations are made

\* A record is its id, the preimage fields the ledger reads, and whether Verify accepts
\* it; the id commits to the preimage (and not to the signature).
ASSUME RecordsAssumption ==
  /\ \A r \in Records :
       /\ r.chain \in Chains /\ r.seq \in Nat /\ r.id # None
       /\ r.version \in Nat /\ r.type \in STRING /\ r.ok \in BOOLEAN
  /\ \A r, s \in Records : r.id = s.id => r = [s EXCEPT !.ok = r.ok]

ASSUME CapAssumption == ImportBufferCap \in Nat /\ MaxAttestations \in Nat

\* The absence of an error is none of Append's error codes.
ASSUME NoneAssumption ==
  None \notin {"CHAIN_QUARANTINED", "VERSION_UNSUPPORTED", "UNVERIFIED", "BAD_GENESIS_PREV",
               "EQUIVOCATION", "PREV_LINK_BROKEN", "IMPORT_BUFFER_FULL"}

VARIABLES
  led,   \* led[p][did]: replica p's chain of did
  imp,   \* imp[p]: the import p is in the middle of, or None
  att    \* the head attestations witnesses hold

vars == <<led, imp, att>>

VersionMajor2    == 2
ChainActive      == "ACTIVE"
ChainQuarantined == "QUARANTINED"
EvForkDetected   == "converge.fork_detected"

\* A chain the ledger has never stored a record of.
NoChain == [events |-> <<>>, state |-> "", staged |-> {}]

lastOf(s) == s[Len(s)]

-----------------------------------------------------------------------------
(* Append. *)

Verify(r) == r.ok

\* The staged record at seq n, where there is one.
stagedAt(ch, n) == CHOOSE x \in ch.staged : x.seq = n

\* Mutant: staged records are spliced whatever they link to.
splices_AnyPrev(ch, n) ==
  \A j \in 1..n : \E x \in ch.staged : x.seq = lastOf(ch.events).seq + j

\* The n staged records after the head are held and each links to its predecessor.
splices(ch, n) ==
  LET head == lastOf(ch.events)
  IN  \A j \in 1..n :
        /\ \E x \in ch.staged : x.seq = head.seq + j
        /\ stagedAt(ch, head.seq + j).prev =
             IF j = 1 THEN head.id ELSE stagedAt(ch, head.seq + (j - 1)).id

\* How many records the drain loop splices before it stops.
spliced(ch) ==
  CHOOSE n \in {0} \cup {x.seq - lastOf(ch.events).seq : x \in ch.staged} :
    n >= 0 /\ splices(ch, n) /\ ~splices(ch, n + 1)

\* The loop ends at a gap, or by dropping a staged record that does not link.
drainStaged(ch) ==
  LET head == lastOf(ch.events)
      n    == spliced(ch)
  IN  [ch EXCEPT !.events = @ \o [j \in 1..n |-> stagedAt(ch, head.seq + j)],
                 !.staged = {x \in @ : x.seq \notin head.seq + 1 .. head.seq + n + 1}]

\* The unsigned anchor of a fork; it has no id.
forkAnchor(existing, incoming) ==
  [id |-> "", chain |-> incoming.chain, seq |-> existing.seq, prev |-> "",
   type |-> EvForkDetected, version |-> VersionMajor2, ok |-> FALSE]

\* Mutants: the competing record takes the existing one's place; it is refused and forgotten.
quarantine_Replaces(ch, existing, incoming) ==
  [ch EXCEPT !.events = [@ EXCEPT ![existing.seq + 1] = incoming]
                          \o <<existing, forkAnchor(existing, incoming)>>,
             !.state = ChainQuarantined]

quarantine_Forgets(ch, existing, incoming) == ch

quarantine(ch, existing, incoming) ==
  [ch EXCEPT !.events = @ \o <<incoming, forkAnchor(existing, incoming)>>,
             !.state = ChainQuarantined]

Result(ch, err) == [chain |-> ch, err |-> err]

\* A verified record on an ACTIVE chain.
appendToChain(ch, r) ==
  LET head == lastOf(ch.events)
  IN  IF r.seq <= head.seq THEN
        LET existing == ch.events[r.seq + 1]
        IN  IF existing.id # r.id THEN Result(quarantine(ch, existing, r), "EQUIVOCATION")
                                  ELSE Result(ch, None)
      ELSE IF r.seq = head.seq + 1 THEN
        IF r.prev # head.id THEN Result(ch, "PREV_LINK_BROKEN")
        ELSE Result(drainStaged([ch EXCEPT !.events = Append(@, r)]), None)
      ELSE IF \E x \in ch.staged : x.seq = r.seq /\ x.id = r.id THEN Result(ch, None)
      ELSE IF Cardinality(ch.staged) >= ImportBufferCap THEN Result(ch, "IMPORT_BUFFER_FULL")
      ELSE Result([ch EXCEPT !.staged = {x \in @ : x.seq # r.seq} \cup {r}], None)

\* Mutant: the quarantine guard is dropped.
appendRecord_NotSticky(ch, r) ==
  IF r.version # VersionMajor2 THEN Result(ch, "VERSION_UNSUPPORTED")
  ELSE IF ~Verify(r) THEN Result(ch, "UNVERIFIED")
  ELSE IF ch.events # <<>> THEN appendToChain(ch, r)
  ELSE IF r.seq # 0 \/ r.prev # GenesisPrev THEN Result(ch, "BAD_GENESIS_PREV")
  ELSE Result([events |-> <<r>>, state |-> ChainActive, staged |-> {}], None)

appendRecord(ch, r) ==
  IF ch.state = ChainQuarantined THEN Result(ch, "CHAIN_QUARANTINED")
  ELSE IF r.version # VersionMajor2 THEN Result(ch, "VERSION_UNSUPPORTED")
  ELSE IF ~Verify(r) THEN Result(ch, "UNVERIFIED")
  ELSE IF ch.events # <<>> THEN appendToChain(ch, r)
  ELSE IF r.seq # 0 \/ r.prev # GenesisPrev THEN Result(ch, "BAD_GENESIS_PREV")
  ELSE Result([events |-> <<r>>, state |-> ChainActive, staged |-> {}], None)

-----------------------------------------------------------------------------
(* Readers. *)

\* The record Head reports, for a chain that has one.
HeadOf(ch) ==
  LET plain == {i \in 1..Len(ch.events) : ch.events[i].type # EvForkDetected}
  IN  IF ch.state = ChainQuarantined /\ plain # {}
      THEN ch.events[CHOOSE i \in plain : \A j \in plain : j <= i]
      ELSE lastOf(ch.events)

ContradictedBy(a, r) == r.chain = a.chain /\ r.seq = a.seq /\ r.id # a.id

\* The events of a chain in its linear order: on a quarantined chain, those before the
\* competing record and the anchor.
linear(ch) ==
  IF ch.state = ChainQuarantined THEN SubSeq(ch.events, 1, Len(ch.events) - 2) ELSE ch.events

-----------------------------------------------------------------------------
(* ImportBatch, one loop iteration at a time. *)

\* recs are the source's events from position k on; start is the length of the chain.
Import(did, recs, k, start) ==
  [did |-> did, recs |-> recs, from |-> k, i |-> 1, err |-> None, start |-> start,
   res |-> [applied |-> 0, staged |-> 0, dups |-> 0]]

\* Mutant: drained records are not counted.
disposition_One(res, before, after) ==
  IF Cardinality(after.staged) > Cardinality(before.staged) THEN [res EXCEPT !.staged = @ + 1]
  ELSE IF Len(after.events) > Len(before.events) THEN [res EXCEPT !.applied = @ + 1]
  ELSE [res EXCEPT !.dups = @ + 1]

\* The disposition of one record, from the chain before and after it.
disposition(res, before, after) ==
  IF Cardinality(after.staged) > Cardinality(before.staged)
  THEN [res EXCEPT !.staged = @ + 1]
  ELSE IF Len(after.events) > Len(before.events)
  THEN [res EXCEPT !.applied = @ + (Len(after.events) - Len(before.events))]
  ELSE [res EXCEPT !.dups = @ + 1]

Ended(im) == im.err # None \/ im.i > Len(im.recs)

-----------------------------------------------------------------------------
(* The system. *)

Init ==
  /\ led = [p \in Replicas |-> [did \in Chains |-> NoChain]]
  /\ imp = [p \in Replicas |-> None]
  /\ att = {}

Deliver(p, r) ==
  /\ imp[p] = None
  /\ led' = [led EXCEPT ![p][r.chain] = appendRecord(@, r).chain]
  /\ UNCHANGED <<imp, att>>

\* p asks q for its events of did from position k on.
ImportBegin(p, q, did) ==
  \E k \in 1..Len(led[q][did].events) :
    /\ imp[p] = None
    /\ imp' = [imp EXCEPT ![p] =
                 Import(did, SubSeq(led[q][did].events, k, Len(led[q][did].events)), k,
                        Len(led[p][did].events))]
    /\ UNCHANGED <<led, att>>

ImportStep(p) ==
  /\ imp[p] # None
  /\ ~Ended(imp[p])
  /\ LET im == imp[p]
         ch == led[p][im.did]
         a  == appendRecord(ch, im.recs[im.i])
     IN  /\ led' = [led EXCEPT ![p][im.did] = a.chain]
         /\ imp' = [imp EXCEPT ![p] =
                      IF a.err # None THEN [im EXCEPT !.err = a.err]
                      ELSE [im EXCEPT !.i = @ + 1, !.res = disposition(@, ch, a.chain)]]
  /\ UNCHANGED att

ImportReturn(p) ==
  /\ imp[p] # None
  /\ Ended(imp[p])
  /\ imp' = [imp EXCEPT ![p] = None]
  /\ UNCHANGED <<led, att>>

\* A witness reads p's head of did and signs what it saw; a chain cannot witness itself.
Attest(p, did, w) ==
  /\ Cardinality(att) < MaxAttestations
  /\ did # w
  /\ led[p][did].events # <<>>
  /\ HeadOf(led[p][did]).id # ""
  /\ att' = att \cup {[of |-> p, by |-> w, chain |-> did, seq |-> HeadOf(led[p][did]).seq,
                       id |-> HeadOf(led[p][did]).id, state |-> led[p][did].state]}
  /\ UNCHANGED <<led, imp>>

Next ==
  \E p \in Replicas :
    \/ \E r \in Records : Deliver(p, r)
    \/ \E q \in Replicas \ {p}, did \in Chains : ImportBegin(p, q, did)
    \/ ImportStep(p)
    \/ ImportReturn(p)
    \/ \E did \in Chains, w \in Witnesses : Attest(p, did, w)

Spec == Init /\ [][Next]_vars
-----------------------------------------------------------------------------
(* Properties. *)

\* Types: a chain that holds no event is one the ledger has never seen.
TypeOK ==
  \A p \in Replicas :
    /\ \A did \in Chains :
         LET ch == led[p][did]
         IN  IF ch.events = <<>> THEN ch = NoChain
             ELSE ch.state \in {ChainActive, ChainQuarantined}
    /\ imp[p] # None => imp[p].did \in Chains /\ imp[p].i \in 1..Len(imp[p].recs) + 1

\* Whatever the order of deliveries, drains and imports, the linear part of every chain
\* is one hash chain from genesis: record i has seq i - 1, verified, of this chain, and
\* names its predecessor's id (appendToChain, drainStaged).
ChainLinked ==
  \A p \in Replicas, did \in Chains :
    LET ev == linear(led[p][did])
    IN  \A i \in 1..Len(ev) :
          /\ ev[i].seq = i - 1 /\ ev[i].chain = did /\ ev[i].ok
          /\ ev[i].prev = IF i = 1 THEN GenesisPrev ELSE ev[i - 1].id

\* On an ACTIVE chain the drain leaves nothing behind that the head could take: every
\* staged record is verified and at least two ahead of the head, one per seq, and the
\* buffer is within its cap.
StagedAhead ==
  \A p \in Replicas, did \in Chains :
    LET ch == led[p][did]
    IN  /\ Cardinality(ch.staged) <= ImportBufferCap
        /\ \A x, y \in ch.staged : x.seq = y.seq => x = y
        /\ ch.state = ChainActive =>
             \A x \in ch.staged : x.ok /\ x.chain = did /\ x.seq > lastOf(ch.events).seq + 1

\* A quarantined chain carries its evidence: the linear chain still holds the existing
\* record, the competing record with another id at the same seq follows it, both
\* verified, and the anchor closes the chain (quarantine).
QuarantineProven ==
  \A p \in Replicas, did \in Chains :
    LET ch == led[p][did]
        n  == Len(ch.events)
    IN  ch.state = ChainQuarantined =>
          /\ n >= 3
          /\ ch.events[n].type = EvForkDetected /\ ch.events[n].seq = ch.events[n - 1].seq
          /\ ch.events[n - 1].ok /\ ch.events[n - 1].seq \in 0..n - 3
          /\ LET existing == ch.events[ch.events[n - 1].seq + 1]
             IN  existing.ok /\ existing.seq = ch.events[n - 1].seq
                 /\ existing.id # ch.events[n - 1].id

\* No step removes or replaces a stored record, and no step at all moves a chain once
\* it is QUARANTINED (the guard that runs first in Append).
AppendOnly ==
  [][ \A p \in Replicas, did \in Chains :
        LET old == led[p][did]
            new == led'[p][did]
        IN  /\ Len(new.events) >= Len(old.events)
            /\ \A i \in 1..Len(old.events) : new.events[i] = old.events[i]
            /\ old.state = ChainQuarantined => new = old ]_vars

\* A record is on the chain, by id.
holds(ch, r) == r.seq < Len(linear(ch)) /\ linear(ch)[r.seq + 1].id = r.id

\* Two replicas that disagree find out by comparing: when an import of another replica's
\* chain has ended, either this chain is QUARANTINED, or it holds (or stages) every
\* record of the batch, or the import reported an error; and a batch that starts at
\* genesis can report no error but the fork.
ImportForkEvident ==
  \A p \in Replicas :
    imp[p] # None /\ Ended(imp[p]) =>
      LET im == imp[p]
          ch == led[p][im.did]
      IN  \/ ch.state = ChainQuarantined
          \/ \A k \in 1..Len(im.recs) :
               holds(ch, im.recs[k]) \/ \E x \in ch.staged : x.id = im.recs[k].id
          \/ im.err # None /\ im.from # 1

\* The summary of an import is exact while the chain is ACTIVE: Applied is the number
\* of records by which the chain grew, drained ones included (ImportBatch).
AppliedExact ==
  \A p \in Replicas :
    imp[p] # None /\ led[p][imp[p].did].state # ChainQuarantined =>
      Len(led[p][imp[p].did].events) = imp[p].start + imp[p].res.applied

\* An attestation of an ACTIVE chain's head is never contradicted by what that replica
\* shows later as its linear chain (ContradictedBy).
AttestedHeadHolds ==
  \A a \in att :
    a.state = ChainActive =>
      LET ev == linear(led[a.of][a.chain])
      IN  \A i \in 1..Len(ev) : ~ContradictedBy(a, ev[i])

\* "two distinct ids at one (chain_did, seq) => EquivocationProof + sticky
\* CHAIN_QUARANTINED (NOT INSERT-OR-IGNORE)", for records that are still staged.
StagedForkTrapped ==
  [][ \A p \in Replicas, did \in Chains :
        \A x \in led[p][did].staged, y \in led'[p][did].staged :
          x.seq = y.seq /\ x.id # y.id => led'[p][did].state = ChainQuarantined ]_vars

\* What a ledger holds is well formed after any order of arrivals: every chain linked, the
\* staging buffer ahead of its head, and a quarantine with its evidence.
ChainSound == TypeOK /\ ChainLinked /\ StagedAhead /\ QuarantineProven
=============================================================================
