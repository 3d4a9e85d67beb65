# A verification project for ANetCore

ANetCore is the protocol kernel of the ANet agent network: a Go module with no
I/O, whose callers (the ANet daemon and the hub) pass in the time and carry the
messages.  What it gets wrong is therefore seldom visible in one call.  It shows
when several calls, of several parties, fall in an order nobody wrote a test for:
a crash between a key rotation and the file that records it, a hub that answers
late, a record that arrives before its predecessor, a capability used after its
epoch, two threads in a cache.  The modules here model the parts of the kernel that
keep state across calls and the objects that pass between parties, TLC checks them
on small instances, and TLAPS proves what matters most for every instance.

## 1. The system

| part (package) | state it keeps | operations | talks to |
|---|---|---|---|
| key event logs (`identity/identity.go`, `extend.go`) | none; a KEL is a value | `Replay`, `VerifyObject`, `ExtendsKEL`, `CheckNewEvents` | everything that checks a signature |
| controller (`identity/controller.go`, `signer.go`) | accepted KEL, current key, hot key, pending event, state, under one lock | `Incept*`, `Build*`, `Restamp`, `Adopt`, `DiscardPending`, `SetState`, `Snapshot`, `Sign` | its owner persists `Export` and publishes the pending event |
| identity file (`identity/idfile.go`, `recovery.go`) | what `Export` wrote | `Export`, `Restore`, the file of a recover | the controller |
| publication | the KELs hubs and peers hold, messages in flight | push, answer, merge | controllers, `ExtendsKEL`, `CheckNewEvents` |
| notices (`identity/notice.go`) | none | `SignNotice`, `VerifyNotice`, `MergedEmergency` | sealed messages |
| replay cache (`identity/replaycache.go`) | map, recency list, byte count, under a lock it gives up while it replays | `SetReplayCache`, `Replay` | every verification |
| event ledger (`ael/ael.go`) | per chain: events, state, staging buffer; no lock | `Append`, `ImportBatch`, `Head`, `Events`, `State` | other replicas' events |
| head attestations (`ael/witness.go`) | none | `Sign`, `Verify`, `ContradictedBy` | ledger heads |
| supply epochs (`ael/supply.go`) | none; the hub's chain of records | write and parse an epoch record, the identity of its counters | ledger, liability tree |
| liability tree (`liabtree`) | one tree per epoch, `nonces` | `Build`, `Rebuild`, `Proof`, `Verify` | supply epochs, auditing agents |
| request clock (`relayauth/monoclock.go`) | last timestamp per target, under a lock | `Next`, `Raise` | hubs that refuse stale requests |
| request signatures, sessions (`relayauth/relayauth.go`, `session.go`) | one-time keys, session keys (held by the callers) | `PreimageV2`, `SealSessionKey`, `OpenSessionKey`, `SessionMAC`, `VerifySessionMAC` | hub requests |
| key sets (`seal/enckeys.go`, `highwater.go`) | the consumer's high-water mark, key rings (held by the caller) | `SignEncKeySet`, `VerifyEncKeySet`, `SelectKey`, `DecideHighWater` | KELs, envelopes |
| envelopes (`seal/envelope.go`, `fields.go`, `ixkey.go`) | epoch and interaction keys (held by the caller) | `Seal`, `ParseOuter`, `SetAccess`, `Open`, `CheckTime`, `CheckNotice`, `VerifyInnerSig` | KELs, notices, hubs |
| delivery tokens (`seal/dack.go`) | ack keys (held by the caller) | `MakeDAck`, `VerifyDAck` | the two ends of an envelope |
| capabilities (`seal/access.go`, `grant.go`) | capabilities held, mailbox key and epoch | `SignCap`, `Grant.Marshal`, `CheckGrant`, `SignAccess`, `VerifyAccess` | envelopes, key sets |
| receipts and reviews (`evidence`), tasks (`delegation`) | none | sign, verify, `CheckV2`, `VerifyResultForRequest` | KELs, the hub's reviews |
| x402 objects (`payment`) | none; nonces and balances are the hub's | sign and verify authorizations and receipts, requirements, amounts | KELs, the hub's ledger |
| agent cards (`a2acard`), task predicates (`tsir`), registration proof of work (`regpow`), directory entries (`dirbox`) | none, or a value | sign, verify, evaluate | KELs |
| encodings (`coredet`, `anetcid`, `aobj`, `effect`, `agenturi`, `wire`) | static tables | encode, decode, scan | all |

What is hard in it:

- *Crashes.*  The controller is in memory, the file on disk; the owner writes the
  file after each transition.  A restart may fall between any two steps.
- *Several parties with one history.*  The node, its witness hub, the next witness
  hub after a switch, peers, and a second node the identity is recovered on all
  hold copies of a KEL.  Answers get lost, clocks are off, and an event whose time
  is refused is rebuilt under another id.
- *Signing while keys rotate.*  A signer takes a snapshot and signs later; a message
  is drafted under one key state and sealed under the next; a receipt or an
  authorization is judged at a time its signer's key may no longer be current.
- *Objects used out of their place.*  A grant of an earlier epoch, an access on
  another envelope, an answer of another session, a receipt of another interaction,
  a token of another version, all of which are well-formed.
- *Order of records.*  The ledger takes records in any order, several times, from
  several replicas, with an owner that may equivocate.
- *Locks given up half way.*  The replay cache drops its lock between a miss and
  the store; the request clock is read before its lock is taken.
- *Limits.*  The staging buffer at its cap, the cache at its last byte, the clock
  at the last int64, sums at the last uint64, lengths at which a CBOR head grows,
  windows that are inclusive on both sides.

What makes the parts correct: a verifier never meets an event it refuses from an
honest controller; a restart loses nothing that was published; two parties never
hold diverging histories; what was signed is never disowned; what was sealed opens,
and its sender learns what became of it; a raised epoch revokes; a session, a
receipt, a review, a payment are of exactly the parties and the interaction they
were made for, and once; an honest hub's accounts find their balance counted, and a
dishonest one cannot hide what an audit found; a ledger chain is one hash chain, and
a fork found on it is kept with its evidence; timestamps to a hub strictly increase;
the cache answers as a replay would.

## 2. Modules

| module | models | kind |
|---|---|---|
| `KEL` | replay rules R-1 to R-6, key states, `VerifyObject`, `ExtendsKEL`, `CheckNewEvents` | operators |
| `Controller` | the controller's methods, `Export`, `Restore` | operators: one function and one guard per method |
| `Identity` | one controller, its file, restarts, a recover, signing threads | state machine over `Controller` |
| `Publication` | nodes, witness hubs, peers, messages, clocks | state machine that composes `Controller` and `KEL` |
| `Notice` | `SignNotice`, `VerifyNotice`, `RetiredUsableAt`, `SenderKeyUsable` | operators over `Controller` |
| `Receive` | receive steps 5 to 7 of `seal` while sender and witness hub replace their keys | state machine over `Notice` |
| `EncKeys` | key sets, their verification, the high-water rule, key choice and deletion | state machine over `Controller` |
| `Envelope` | `Seal`, `Open` (receive steps 1 to 4), delivery tokens, capabilities, grants | operators |
| `Mail` | what a mailbox promises the sender of a message | abstract specification |
| `Delivery`, `MCDelivery` | a message from draft to token; implements `Mail` | state machine over `Envelope`; `MCDelivery` gives drafts and options |
| `Admission` | grants issued, kept and used while the mailbox key is replaced | state machine over `Envelope` |
| `Session` | signed requests, session keys, session MACs between daemons and hubs | state machine |
| `Evidence` | receipts, reviews, attestations, task bindings, requests and results | operators over `Controller` |
| `Task` | a delegated task from request to attested review | state machine over `Evidence` |
| `Payment` | authorizations, settlement, receipts, retries of both ends | state machine over `Controller` |
| `Liability` | supply epochs and the liability tree, honest and dishonest hubs, audits | state machine |
| `Padding` | the pad of a Wrap and its Padme length, at the real lengths | the loop of `applyPad`, step by step |
| `MCServices` | runs `Admission`, `Session`, `Task`, `Payment`, `Liability`, `Padding` side by side | instance |
| `Ledger`, `MCLedger` | replicas of `ael.Ledger`, imports, head attestations | state machine; `MCLedger` gives the records of the runs |
| `MonoClock` | `relayauth.MonoClock` and the clients around it | state machine |
| `ReplayCache` | `identity.ReplayCache` and its callers | state machine |
| `MCShared` | runs `ReplayCache` and `MonoClock`, what the threads of a process share, side by side | instance |
| `IdentityProofs`, `PublicationProofs`, `EncKeysProofs` | theorems about the module each is named for | proofs; the first two begin with the same lemmas on what a `Controller` builds |
| `DeliveryProofs`, `LedgerProofs`, `ReceiveProofs` | theorems about the module each is named for | proofs |
| `SharedProofs` | theorems about `ReplayCache` and `MonoClock` | proofs over `MCShared` |
| `ServicesProofs` | theorems about `Session`, `Admission`, `Task`, `Payment`, `Liability` and `Padding` | proofs over `MCServices` |

`PROJECT.json` maps each definition to the lines it stands for.  Definitions whose
name has an underscore and a second part (`Adopt_KeepsHot`) are deliberately wrong
variants of the definition after them, one plausible slip each; every property
checked below is violated when its variant is put in place, which shows that the
property depends on the code.

### Data

A KEL is a sequence of signed events with the fields of `KeyEvent`.  A key is
symbolic, a digest is `<<"sha256", key>>`, an event id `<<"cid", event>>`, a
signature the key that made it, with what it covers: equal ids mean equal preimages,
which is collision resistance and unforgeability.  A ciphertext names the HPKE
context it was made in, and opens in that context only.  `None` is nil, the empty
string and an omitted map key; `Bad` is a field of another type, size or encoding
than its decoder wants; `Nul` is a text with U+0000 in it.  A CBOR map is its named
fields and the set of keys its decoder has no name for.  Times are small naturals
and the windows constants.  In the ledger a record is its id, the preimage fields
the code reads, and whether `Verify` accepts it.

### Correspondence

*Controller.*  Every method holds `c.mu` throughout, so a method is one function of
the record `[kel, cur, hot, pending, state]` and its guard is the conjunction of
the method's error returns.  `buildEventAccepts` is the replay `buildEvent` ends
with.  Fields no transition reads (hub URL, since, push list, local_commit) are
left out.

*Identity.*  One action per public transition; `Persist` writes `Export`; `Restart`
is `Restore` of the file at any moment; `Recover` replaces the data directory by
the file a recover writes, from either KEL the witness may hold.  The owner calls a
transition only once the previous one is on disk, as the documentation of the
controller asks.  `SnapshotOf` and `SignObject` are two steps, so that everything
else may happen in between.

*Publication.*  `Push` sends the KEL with the pending event to the hub that
witnesses it; `Serve` is the hub: `ExtendsKEL`, then `CheckNewEvents` with its own
clock; `Receive` acts on the answer with `Adopt`, `Restamp`, `DiscardPending` or
`SetState`.  What the daemon and the hub do around these calls is not in this
repository and is modelled from what the methods are documented to be called for
(`React`, `Push`, `Receive`, `Serve` are marked external).  Peers merge accepted
KELs only: a daemon holds messages back while a rotation is pending
(docs/wire-keys.md, `rotation_pending`).

*Receive.*  A message is what the checks read: the carried KEL and notice, the key
state and the key that signed, ts, exp and the arrival.  `CheckTime`, `CheckNotice`
and `VerifyInnerSig` are translated; the order in which the daemon calls them, its
merge of the carried KEL (step 6, with `ExtendsKEL` and `CheckNewEvents`) and its
retry are external and follow the numbering in the comments of `seal/envelope.go`.
A message whose refusal is not `Permanent` stays in the mailbox.  The sender's
event is built, witnessed and adopted in one step; its clock is off by up to
`SenderSkew` and does not step back.  Nothing in the code bounds a sender's clock, so
`SenderSkew` may be larger than the skew recipients tolerate, and is in the runs.  A copy of the sender restored from a backup
may send too, with an old key, any notice and any time.

*EncKeys.*  A public key is its kid, made of its epoch and the key file it came from.
`NextSeq`, `SignEncKeySet`, `VerifyEncKeySet`, `SelectKey` and `DecideHighWater` are
translated; a consumer decides by the high-water rule and then verifies, as the
comments of `Decision` say.  Sets may reach it in any order and any number of times.
The daemon's and the hub's parts (when a set is made, how long an envelope is taken
and kept, when a private key goes) follow `limits.go`; `RetentionAssumption` is the
inequality its comments argue with.  A key has a suite, the implemented one or the
reserved one (the owner's build may be newer than the consumer's): `check` admits both
and `SelectKey` passes over what is not `Supported`.  The key file may be lost at any
moment, also right after a publication, and the owner's clock may then be behind the last
seq.  The mailbox key is left out.

*Envelope.*  `Seal` and `Open` are functions; `Open` is cut where the code's failures
change kind: `ParseOuter` and the first layer (no ack key yet), `OpenWrap` (the
second layer and the caller's key store), `OpenInner` (the checks on the inner).
Each returns the reason of the first check that fails, in the order of the code, and
the ack key if the first layer opened.  `checkForSeal` has the checks of the sending
side, so that the two sides can be compared.  `VerifyDAck` returns the first hit in
the order of its loop.

*Delivery and Mail.*  `Delivery` is one message with several versions: drafted under a
key state, sealed (with hooks that stand for the keys another implementation adds),
submitted until its outcome is known, opened or refused by the recipient, answered by
tokens that may be lost.  A sealed version is kept with the form it was made of, so that
what was asked for and what came out can be compared.  Either side's keys change in between.  The table of
message ids a daemon keeps (`acts`) and the hub's queue are external.  `Mail` is
what this amounts to for the sender: a version is processed or refused, never
processed once refused, the message is acted on at most once, and the sender believes
only what the recipient decided.  `Mailbox == INSTANCE Mail WITH Unknown <- 0` is the
refinement; the three variables of `Mail` are variables of `Delivery`.  `Mail` lets a
processed version be refused later: a duplicate that arrives after the interaction's
key was deleted gets a refusal, as the code has no other answer for it.

*Admission.*  The issuer's `Issue` calls `Grant.Marshal`'s checks, or is another
implementation's grant that breaks them; `TakeGrant` is `CheckGrant` against the key
set that came in the same message; `Attempt` signs an access, `Move` puts it on
another envelope, `Admit` is the hub's `ParseOuter` and `VerifyAccess` with the
mailbox key it knows, which may lag behind the issuer's.

*Session.*  Openings, requests, answers and sends are sets on a network that repeats,
delays, mixes and rewrites.  A send's texts are sequences of characters, so that the
separators in the MAC input are as ambiguous as they are in the code; the two halves
of an answer may come from two answers.  The hub's session table is external.

*Evidence and Task.*  `Evidence` has the checks of both packages, `Task` a requester, an
honest provider with its own clock, a second provider `r` that signs what it likes, may
date its receipt a day ahead, and passes on what it sees, and the hub that stores and
attests reviews.  Both providers and the hub rotate their keys through `Controller`, `r`
once an answer of it was accepted, and with an event it may date back (`Shifts`).  Receipts are judged at `DayStart` of
their day and results at the time of their envelope, as the callers the comments name
do.

*Payment.*  The int64 is a word of 4 bits, `-8..7`, and the arithmetic of the windows
wraps as the code's does, so that overflow is in reach.  `Verdict` is the hub's order
of checks, from the reasons `payment.go` names; the ledger of settlements by
authorization id and by guard is external.

*Liability.*  `Build` takes any shuffle and any padding; levels are functions from
index to node, and a proof is the path the code walks.  uint64 is `0..WordMax` and
wraps.  The honest half closes epochs, restarts and rebuilds trees.  In the other half
a hub publishes one epoch of a tree of any depth (`ForgedTree`): any accounts with any
balances at any places, and any sum it likes at any node; an audit is handed the path of
that tree or one with other sums in it (`WithSums`).

*Padding.*  The loop of `applyPad` with the real constants and lengths.

*Ledger.*  `appendRecord` and `appendToChain` are `Append` in the order of its
checks.  An attestation is of another witness than the chain's owner, as `Sign` asks.  The drain loop of `drainStaged` is given by its result: the longest run of
staged records that link, and the one record after it that is dropped when it does
not.  An import is one step per record, so that a fork or an error stops it half
way; the ledger has no lock, and a replica in an import does nothing else.

*MonoClock.*  `Next` is `Stamp`, `Raise` is `RaiseFloor`; the clock reading is any
value at each call, so it may stand still or go back, and threads may reach the
lock in another order than they read it.  Arithmetic saturates at `MaxInt64` where
the code does.

*ReplayCache.*  `Lookup` is the first critical section, `Store` the replay and the
second.  The eviction loop is given by its result, the longest front of the recency
list that leaves room; if there is none the loop would read `c.lru.Back()` of an
empty list, which is the state "panicked".

## 3. Runs

| run | states | what it shows |
|---|---|---|
| `identity` | 330 k | `HandedOutVerifies`, `RestartSafe`, `SignedNeverDisowned`: whatever the order of builds, restamps, adoptions, crashes and a recover, the controller hands out no KEL and no snapshot a verifier refuses, every file restores to exactly the controller that wrote it, and a signature made under a seq is never shown as a stranger's later |
| `publication` | 214 k | two hubs, wrong clocks, losses and crashes: `PeerTimesWitnessed`, `PendingForksNothing`, and under fairness `PublicationCompletes` |
| `publication_recover` | 272 k | a second node recovers the identity while the first still publishes: `OneHistory`, `AdoptedIsWitnessed`, the witness lets one win |
| `ledger` | 687 k | two replicas, a chain of four with two forks, a bad copy and another version: `ChainSound` (linked, staged ahead, quarantine proven), `ImportForkEvident`, `AppliedExact`, `AttestedHeadHolds`, `AppendOnly` |
| `shared` | 4.9 M | the replay cache: `CacheSound` (map and list agree, bytes bounded, what was used last is what is held, no panic), `AnswerIsReplay`; the request clock: `StampsSound` (no collision, retries above the floor, skew bounded), `StrictlyIncreasing`, with the last timestamp in reach |
| `receive` | 787 k | sender and witness hub replace their keys by a planned rot, an emergency rot or (the sender) a dip, twice in all, and the sender's clock is further ahead than recipients tolerate: `PlannedRotationLosesNothing`, `PermanentIsFinal`, `OldKeysStop` |
| `enckeys` | 494 k | `SetsOrdered`, `ConsumerNeverGoesBack`, `VerifiedIsUsable`, `SealedIsOpenable` through epochs, a rotation, a key file lost at any moment, keys of a reserved suite and clocks that are off |
| `delivery` | 78 k | `SealedOpens`: what the sending checks let through, the receiving ones do; `ClosedStaysClosed`: an interaction that was closed takes nothing in; `DeliveredAsDecided`: `Delivery` implements `Mail`; `SenderLearns` under fairness |
| `services` | 526 k | six components side by side, below |
| `publication_late`, `ledger_staged_fork`, `receive_from_future` | | disagreements between comments and code, section 5 |

`MCServices` has six state machines that share no state: the variable `part` is chosen
in the first state, among the run's `Parts`, and only that component moves, so the states
are the sum of the components' and not their product, and each property is checked
exactly as in a run of its own.  What the run `services` shows, by component:

- grants: `GrantsWork`, what `Grant.Marshal` wrote `CheckGrant` keeps, and what was
  kept delivers; `RevocationHolds`, a raised mailbox epoch revokes all that was issued
  before, and the hub lets in only envelopes the holder signed for;
- sessions: `SessionAgrees`, `SendAccounted`;
- tasks: `EvidenceBelongs`, a receipt is for one interaction and a stored review the
  requester's; `ResultAccepted`, an honest provider's work is accepted across clock
  skew, midnight and rotations; `ReceiptReviewable`, an accepted receipt can be reviewed
  later, with the exceptions that section 5 names;
- payments: `PaidOnce`, one debit per nonce and interaction, one credit per debit, none
  stranded; `WindowHolds`, the window is the integers' window though int64 wraps;
- epochs: `HonestProves`, `NothingHidden`;
- padding: `PadIsExact`, for every length to 700 and around each change of the head.

### Bounds, and why they are enough

- `identity`: three events after the icp reach every kind of event, a rot after a
  rot and a dip after either; two recovery seeds make a wrong key possible; four
  clock values let each event be restamped, and an event be refused for a time that
  is not greater than the last.  One signer is enough, as signers do not meet.
- `publication`: two events after the icp (a designation and a rot to either hub, or
  a dip), a window of 1 and clocks off on both sides of it; a fault loses a push, its
  answer, or the process.  `publication_recover` takes a third event, so that both
  nodes still have one to publish after the recover, and one hub.  With two hubs a
  recover that races a switch of witness may be accepted by one hub and the switch
  by the other; the code has no rule that prevents it, so `OneHistory` is claimed
  for a recover with one witness only.
- `ledger`: four records with a buffer of two reach a drain of two records, a drain
  that stops at a record that does not link, and a full buffer; forks at seq 1 and
  at seq 3 are found on the chain and in the buffer.  The replicas are symmetric.
- `shared`: costs 1 to 5 in caches of 4 and 2 make every number of evictions from zero
  to two and a KEL larger than the cache; five lookups bound the run.  `MaxInt64` is 3,
  so that saturation is within two requests; two threads and two hubs.  `part` chooses
  one of the two components, as in `services`.
- `receive`: the constants keep the order of the code's (clock window 5 min, grace
  1 h, notice age 6 h, lifetime 15 d; here 1, 1, 2 and 3), and time runs past each of
  them after a rotation.  The checks look at one message at a time, so one message
  with one notice is enough; `Learn` gives the recipient what other messages would
  have carried.  Two replacements are two of the sender, or one of the sender and one of
  the hub; the hub, which has no hot key, replaces its key once.  `SenderSkew` is one more
  than `ClockSkew`, so that a message can be refused as being from the future and be
  looked at again when it no longer is.
- `enckeys`: epochs of two ticks and clocks off by one put every epoch boundary
  between two clocks; two sets are one before and one after a rotation, a lost file
  or an epoch; time runs until keys of the first set are deleted.  The keys of the two
  epochs in `Later` are of the reserved suite, so that there are sets of supported keys
  only, of both kinds and of reserved keys only, and the change of suite falls in a set.
- `delivery`: eleven drafts, one good and one per rule of `checkForSeal`; twelve
  options, among them a key of another suite, one of small order, an outer exp that
  differs and unknown keys in each of the three maps.  Two versions tell a token of
  one from a token of the other; one lost token and one deleted key are enough to
  separate what was decided from what was learned.
- `services`: two mailbox epochs with a hub that lags; two daemons and two hubs, two
  openings and two sessions, so that answers can be exchanged, and texts that join to
  the same string once a separator is allowed in them; two tasks
  around a midnight, with the honest provider's clock ahead or behind by one tick, so that
  its day is another for some of the time; the other provider's receipt is of today or of
  tomorrow (`Leads`), the last day the check lets through; one rotation, of either
  provider or of the hub, the other provider's once something of it was accepted, as
  nothing depends on it before; two authorizations, of the same
  terms under two keys, of one interaction or of neither, and a word in which the last
  time is four steps away; three accounts, so that an honest hub's trees are of depth 1
  and 2 (with `MaxDepth` 3 the deepest is never needed).
  A dishonest hub has trees of depth 1 to 3 with one or two accounts (`Holders`) at any
  leaves, of which it makes up any 3 sums at depth 1, any 2 at depth 2 and any one at depth
  3 (`MaxLies`), each 0 or the largest sum that is let through (`ClaimedSums`), of which
  two exceed `MaxSum` and three wrap.  Two
  accounts are what it takes for one to be hidden behind the other.  Deeper trees, the
  code's of 4 and more among them, are left to the theorems `Proves` and `Hidden`, which
  hold for every `MinDepth` and `MaxDepth`.

Deadlock is checked except in the publication, receive, enckeys, delivery and services
runs, where time or the number of calls is bounded and a stopped or deactivated
identity, a message whose outcome is known or a finished component rests.

### Fairness

Two runs use fairness.  In `publication` it is weak: the node writes its file,
pushes again until it is answered and acts on the answer (the daemon's retry loop,
which the pending state on disk exists for); a hub serves a push that was not lost;
a hub's clock is set right in the end.  Nothing is assumed of building events, of
recovers, of peers or of time, and losses and crashes are finite.  A rot that
switches to a hub that refuses the agent for good stays pending for ever by design
(`DiscardPending` drops a designation only), so the property leaves it out.

In `delivery` the sender submits again while it does not know the outcome, fetches
tokens, and the recipient's key store comes back after an outage (weak); the
recipient works through its queue even when the store fails again and again between
(strong: it is asked again whenever the store is up, and a version that is always
met by an outage would never be decided).  Nobody has to draft, seal, rotate or
delete.  `SenderLearns` leaves out a version whose epoch key was deleted: without it
there is no ack key and nothing to answer with.

## 4. Proofs

A theorem is about every value of the constants that the
named ASSUMEs of its modules allow; TLC evaluates those on the runs' values.  Some
theorems have one hypothesis more, that `None` (and `Bad`) are no value of the model.
The modules use them as model values for nil, which TLC takes to differ from
everything; a proof has to say from what.  `NoneIsNil`, `NilIsNil`, `NilIsNoValue` and
`NilIsNoObject` say it for the records, tuples and names those proofs meet, and nothing
else.

| property of a run | theorem | for every |
|---|---|---|
| `HandedOutVerifies`, `RestartSafe`, `SignedNeverDisowned` | `IdentityProofs` `Verifies`, `Restartable`, `NeverDisowned` | number of events, times, seeds, signers |
| `AdoptedIsWitnessed`, `PeerTimesWitnessed` | `PublicationProofs` `Adopted`, `TimesWitnessed` | nodes, hubs, peers, skews, faults |
| `PendingForksNothing`, `OneHistory` | `ForksNothing`, `OneNodeOneHistory` | hubs and peers, with one node and no late copies |
| `OneHistory` | `OneHubOneHistory` | nodes and peers, with one hub |
| `SetsOrdered`, `VerifiedIsUsable`, `SealedIsOpenable`, `ConsumerNeverGoesBack` | `EncKeysProofs` `Ordered`, `Usable`, `Openable`, `NeverBack` | limits within the retention inequality |
| `DeliveredAsDecided`, `ClosedStaysClosed`, `SealedOpens` | `DeliveryProofs` `Delivered`, `Closed`, `SealedIsOpened` | drafts, options, keys, versions, losses |
| `OldKeysStop`, `PlannedRotationLosesNothing`, `PermanentIsFinal` | `ReceiveProofs` `OldKeys`, `NothingLost`, `RefusalIsFinal` | messages, notices, rotations, lifetimes, any skew of the senders' clocks |
| `GrantsWork`, `RevocationHolds` | `ServicesProofs` `Usable`, `Revoked` | envelopes, mailbox epochs, grants, accesses |
| `SessionAgrees`, `SendAccounted` | `ServicesProofs` `Agreed`, `Accounted` | daemons, hubs, texts, openings, sessions, sends |
| `EvidenceBelongs` | `ServicesProofs` `Belongs` | requests, deliverables, forged results, clocks, rotations |
| `ResultAccepted`, `ReceiptReviewable` | `ServicesProofs` `Taken`, `Reviewable` | the same, with skews of up to a day |
| `PaidOnce`, `WindowHolds` | `ServicesProofs` `Paid`, `Windowed` | authorizations, requirements, retries, rotations, word sizes |
| `ChainSound`, `ImportForkEvident`, `AppliedExact`, `AttestedHeadHolds`, `AppendOnly` | `LedgerProofs` `Sound`, `ForkEvident`, `Applied`, `Attested`, `NothingRemoved` | replicas, chains, records, buffer sizes |
| `StampsSound`, `StrictlyIncreasing` | `SharedProofs` `ClockSound`, `Increases` | threads, hubs, windows, integer widths |
| `CacheSound`, `AnswerIsReplay` | `SharedProofs` `CacheIsSound`, `Answers` | threads, KELs, estimates, caches, limits |

### Identity

`NoneIsNil` is the hypothesis.  The invariant has four parts.  `Good(ctl)`: the KEL is
well made (it replays, its events are numbered and signed by their own key), the
current key is the head's, the hot key is there only before the first event after the
icp and matches what the icp commits, and a pending event extends the KEL and passes
what `restorePending` checks.  `FileOK` and `FileBehind`: the file is the export of some
good controller, with the controller's KEL or lacking the one event adopted since.
`SignedOK`: a key that signed under a seq is `Owned` by the KELs of both, which is either
the key the KEL shows at that seq or, while the event with that seq is not there yet,
the one its predecessor commits.  `SnapsOK` says as much of snapshots not yet used.
Both KELs are needed, since a restart may fall back to the file.  `RestartSafe` then
rests on `ExportFacts`: what a good controller exports is accepted, and restores to it.

### Publication

The invariant `Inv` holds with any number of nodes, hubs and faults.  Every controller
and file is over a KEL of the one identity; a pending event is what `buildEvent` made of
it; each event after the icp of whatever a node, hub or peer has accepted is held by its
witness, which took it within the window (`Witnessed`); and an answer that accepts
comes from the hub that witnesses the event and holds it (`AnswersOK`).
`AdoptedIsWitnessed` and `PeerTimesWitnessed` are read from it, and so is `OneHistory`
with one hub: whatever is accepted anywhere is a beginning of what that hub holds.

With several hubs more is needed, and it is true of one node only.  `Alone` says that no
hub is ahead of the node or its file, that only the witness of the pending event may
already hold that event, and that while a push or its answer is under way the node keeps
what it pushed.  The last part is what makes an answer meant for one event harmless to
the next.  Two nodes on two hubs may fork the history (a recover that races a switch of
witness, section 3), and a late copy of a push does contradict the statement (section 5),
so the theorems name both exclusions.

### Encryption keys

`RetentionAssumption` is the inequality of the comments in `limits.go`; `LimitsAssumption`
and `SeqAssumption` give the limits their types and keep the clock away from the last
64-bit seq, where `NextSeq` stops counting.  The invariant relates the sets to the key
files: a set's keys are of consecutive epochs and of one file (`SetsMade`), seqs of the
current file count up to `lastSeq` (`SeqsBehind`, `FileOrdered`), a seq runs ahead of the
clock readings of its file by at most one for each set of the file (`SeqsReached`, by
cardinality), a key of the current file is in the ring until its time
has come (`KeysKept`), and an envelope at the hub was taken within the deadline of its
key (`MailOK`).  `SealedIsOpenable` is inductive with these.

`SetsOrdered` says of a lost key file what `NextSeq` can promise, that its seqs "keep the
value meaningful": the sets of the new file are above those of the lost one as soon as the
owner's clock is past the last time it showed for that file, by as much as seqs had run
ahead of it (`ClockCaughtUp`).  Before that nothing orders them, and no guard of the
model rules that case out.  `VerifiedIsUsable` says that a key is found whenever one that
is in force a clock skew ahead is of a suite the build implements; a verified set of
reserved suites alone has no usable key, as the repository's own tests show.

### Delivery

`KeysAssumption` says a kid is made of suite and key and an interaction key is found by
them; `DraftsAssumption` that drafts and options are well-typed Go values, sealed to keys
the recipient announced or to keys `Seal` refuses.  The invariant: a version sent is what
`Seal` made of a form it let through, with randomness of its own (`SentOK`); a version
that was refused cannot be opened with the keys that are left, whether the store answers
or not (`RefusedForGood`); a token is of a decided outcome of the version whose ack key
made it (`TokensOK`).  `RefusedForGood` rests on two facts about `Open`: it depends on the
store only where it says so (`OpenNoStore`), and deleting keys turns no refusal into an
opening.  `StepDecides` is the refinement: a step of `Delivery` is a step of `Mail` or
leaves the three variables alone.

`SealedIsOpened` is the longest argument.  `checkForSeal` and `Open` are two lists of
checks written apart, and the lemmas follow the receiver's, layer by layer: the outer
parses, the first layer opens with the ack key the sender has, the Wrap passes and names
the key `Seal` put there, the inner decodes, agrees with the outer and carries a
signature that verifies under the declared seq, although the key may have rotated
between draft and seal.

### Receive

`NoneIsNil` is the hypothesis.  The invariant has three layers.  The first is about KELs:
whatever KEL anyone holds or a message carries is a first part of the one its owner has
(`Begins`; `HeldOK`, `GoodMessage`), the witness took each event of the sender within the
window (`WitnessedOK`), and a notice is about the sender's tip of its time and signed with
the hub's key of its time (`NoticesOK`).  The second is about messages: what a sender bound
(`GoodMessage`), that a message the sender sealed itself is older than the event that
replaced its key (`Current`), and that an accepted one had a notice of its own key state no
older than `NoticeMaxAge` (`AcceptedOK`).  `OldKeyBounded` follows from these two, since the
notice was signed before the witness took the replacement.  The third is about refusals.
`Dead` names why a refusal is final: the lifetime is over, or the notice or the signature
fails against what the recipient holds of the witness or of the sender.  That does not go
away as KELs grow, because both checks read only the message's event, the one after it and
their times, and a KEL never loses an event (`NoticeBefore`, `InnerBefore`, `DeadKept`).  `Excused` is what
`PlannedRotationLosesNothing` allows a refusal for, and each of its cases stays true too.

`ReceiveAssumption` has what these theorems need and the code has: `RotationGrace` (1 h)
is at most `NoticeMaxAge` (6 h), and the two windows of 5 minutes are one.  Of the senders'
clocks it says nothing.  A message that a sender dated too far ahead is refused as from the
future, for good, and that refusal is not final: `PermanentIsFinal` leaves out the two
reasons that compare a time with the recipient's clock, and the run `receive_from_future`
shows why (section 5).  `PlannedRotationLosesNothing` excuses such a message for its date.
TLC checked `Inv` on the values of the run `receive` before it was proved.

### Sessions and grants

`TextsAreSequences` is the one assumption about sessions.  The invariant `Inv` says where
everything on the network came from: a request was signed by an opening, and one with
the action "session" covers that opening's one-time key; a row of the hub's table was
made for such a request; an answer seals a row's key in the context of that row; a
session of a daemon is a row; a send carries the MAC of a row.  One-time keys, session
ids and session keys are numbered, so that equal ones have one origin, and that needs
the cardinality of the finite sets they are counted by.  Two lemmas carry the weight.
`AuthenticOpening`: a request whose signature verifies, whatever was rewritten around
it, has the action, the AID, the hub and the key that were signed.  `JoinedOnce`: two
texts without the separator can be read back from `target NUL home NUL`, so a MAC binds
both (`MACBinds`).  Without the check of `SessionMACAccepts` the second fails, as the
mutant of `SendAccounted` shows.

Grants are proved in the composition, of `ServicesSpec`, where they share the run with
the sessions; `EnvelopesAssumption` says the envelopes an access is put on are complete
and the issuer's.  `GrantsInv` says of a mailbox epoch that equal epochs have equal keys,
at the issuer, at the hub, and under the signature of every capability (`BoxesOK`,
`IssuedOK`, `LettersOK`); of a kept grant that it is the issuer's whoever passed it on
(`KeptOK`); of an access under way that it was made with a kept grant for an envelope
the holder signed for (`AttemptsOK`).  Since the hub's epoch is never ahead of the
issuer's, a capability that verifies at the hub is of the hub's epoch.

### Tasks and payments

Both are proved in the composition too.  `TasksInv` follows a task backwards from what the
client kept.  Requests are numbered (`AsksNumbered`), and the client's to the provider are
under ids of their own (`AsksOK`).  A job of the provider is a request it was sent, and what
it completed is a result for that job (`JobsOK`, `DoneOK`).  A result on the network is one
of those or comes with the KEL of the other party (`ResultsOK`).  An accepted receipt commits to the
interaction, the requester and the review key (`AcceptedOK`).  The lemmas carry the weight:
`OthersKEL`, a KEL of the other party is not one of the provider asked; `CheckedResult`, a
result that `VerifyResultForRequest` lets through comes with a KEL of that provider, and its
receipt is for this request; `Binding`, what `ReadTaskBinding` reads from the client's
TaskDoc among the other contexts in it.

`ResultAccepted` and `ReceiptReviewable` are about time, and need `SignedInv` besides.  What
the provider or the hub signed it signed under a key that no event replaced before the day
the object names (`SignedOn`); that day has begun on the signer's clock, so a later rotation
has a time on the day or after it (`DoneOn`, `StoredOn`).  A result comes with a beginning
of the provider's KEL (`Begins`), on which the receipt's key is still the last.  The days of
two clocks are at most one apart (`DaysFollow`), which is what `VerifyResultForRequest`
allows.  At `DayStart` the key is then in force unless it was replaced in that very
millisecond (`SignedOnVerifies`), the exception the property names.  `DaysAssumption` says
that clocks differ by at most a day and that `DayStart` has a time for the days they show.
Of the other provider nothing is known but that its receipts are signed under some event of
its KEL (`SignedByR`), so for it `Unreviewable` excepts every key replaced by the start of
the receipt's day.
TLC checked `SignedInv` on the bounds of the run `services` before it was proved.  `Task` and
`Payment` use one `Controller`: the lemmas from `TaskReplays` to `TaskRotationKept` carry
the KEL lemmas over from one instance to the other.

`PaymentsInv` says that wallet and bank are `Kept`: KELs that replay, numbered, whose last
key is the current one.  An authorization is signed under some event of the payer's KEL
(`AuthsOK`).  A settlement's receipt is signed under a bank key that no later event
replaced before its `settle_at`, and the ledger has one settlement for each id (`LedgerOK`).
Every debit has its settlement, with the guard it was debited under (`MovedOK`); credits
are receipts, one for each authorization (`CreditsOK`).  `PaidOnce` needs the cardinality of
the ledger to keep up with the debits, and that a KEL whose later events are after a moment
shows the signer's key at that moment (`SignedVerifies`).  `WindowHolds` is arithmetic on
words: the difference of two words, taken modulo the word, is the difference whenever the
smaller was compared first, since it then fits the unsigned word.  `NoncesAssumption` says
that a nonce is made for one authorization, `WordsAssumption` that times are words.

### Supply epochs

`EpochsInv` has one form for each kind of hub.  `HonestInv` says that the n-th epoch of an
honest hub (`EpochOK`) has entries whose balances are those owed at its close, that `build`
makes a tree of them, and that the record is of that tree's root, outstanding and depth;
that a loaded tree is the one `build` makes of some epoch's entries; and that every finding
is "ok" and names an account and its balance at the close (`FindingOK`).  With it `Rebuild`
returns what `Build` returned, so `Reload` may serve proofs of any past epoch.

That an audit of such a tree passes (`FindingFacts`) needs the fold of a proof to follow the
tree: after k steps it stands at the hash and the sum of the node above its leaf at level k.
The fold and the levels are recursive functions, and an induction on their levels needs no
theorem with an operator parameter: the levels where a fact holds are a set, and a set of
naturals that has 0 and with each level the next has all of them (`UpTo`, from the least
member of a set).  The same gives the powers of two that `MinDepth..MaxDepth` ranges over.

`NothingHidden` counts units of balance as pairs.  For an honest hub the units under a node
are a set with as many members as the node's sum (`LevelUnits`): two children's units are
apart, and `addSum` having been ok their sum did not wrap (`NoWrap`).  Findings map into the
units under the root without meeting (`HonestCount`).

For a hub that makes up its sums, `ForgedEpoch` says that there is a tree of which its record
and its proofs are made.  `IsForged` says of that tree only what hashes bind: a leaf's hash
covers its entry, and a node's the hashes and the sums of its two children; its depth, its
entries and every sum are the hub's choice.  `ForgedAudit` follows a passing audit down
from the root: what the fold reaches at level k is the node the tree has there, hash and
sum, since `NodeHash` covers both child sums (`ClimbFacts`), so each node on the path has the
sum of its two children and the leaf the balance of its entry (`SumsUp`), whatever sums
the hub put into the proof (`WithSums`).  `GoodUnits` goes up again: of the leaves whose paths
add up, those under a node have together at most its sum, by induction on the level, as
a node above such a leaf has the sum of its children and above none has nothing to count.
At the root that is `NothingHidden` (`ForgedCount`).  The theorem `Hidden` therefore speaks of trees of
every depth from `MinDepth` to `MaxDepth`, with the code's `MinDepth` of 4 as with the run's of 1.

`SumsAssumption` is what the constants of the code satisfy: depths are positive and in
order, a word is twice the largest sum and one, and the empty AID is no account.
`NilIsNoHash`, the hypothesis of these theorems, says that `None` is none of the hashes,
salts, proofs and records the code compares with nil.

### Padding

`PadInv` says that the length aimed at is the first Padme length from the base on, or the
one after it when no pad reaches the first.  That there is never a third turn of the loop is
arithmetic.  A pad adds any number of bytes but 24, 257, 65538 and 65539 (`PadLenFacts`), so
the unit that Padme rounded to is larger than 24 when the first length fails; the next
length is one unit of it, or of the unit above, further on (`NextLength`), and that unit is a
multiple of four (`UnitFacts`), which none of the other three numbers is from the one that
failed.  `FirstLength` says that Padme leaves its results alone and that none is skipped.

### Ledger

The inductive invariant describes a single chain: its linear
part is a verified hash chain in which record i has seq i - 1; the staged records are
a finite set within the cap, verified, one per seq and beyond the head's successor; a
quarantined chain has its two last entries in place.  The link between position and
seq is needed because `appendToChain` finds the existing record by position; one per
seq because `drainStaged` picks a staged record by its seq.  The argument goes
through lemmas on `spliced` (the drain always has a number of records to splice),
`drainStaged`, `quarantine`, `appendToChain` and `appendRecord`, then one step per
action.  The module assumes that record fields have their types, that an id commits to a
preimage and that `None` is none of the error codes.

`ImportForkEvident` is about a whole batch and needs a second invariant, `Batches`.  Its
`BatchShape` says what a batch is: a stretch of another replica's linear chain, whose
records are numbered and link, and, when that replica is quarantined, the competing
record and the anchor after it.  Its `BatchDone` says what became of it so far: the chain
is quarantined, or a batch that did not start at genesis ended with an error, or the chain
holds or stages each record it has passed.  In a batch that starts at genesis every
record comes when its predecessor is on the chain, so that no error but the fork can arise.

### Request clock

`ClockAssumption` is the clamp of `Raise` and the range of timestamps.  The invariant adds to `TypeOK` that the timestamps handed out for a hub are
a finite set no larger than its counter, that a request in flight carries one of them,
that two requests in flight differ below the last timestamp, and that a raised floor
is below the counter.  `SkewBounded` rests on the cardinality of that set growing by
one with each stamp below the last.

### Replay cache

The invariant says of each cache (`Sound`): its list and the list of everything it ever
answered or stored, last used first, each name a KEL once; the first is a prefix of the
second; the map holds exactly the KELs of the list, each with its own replay and
estimate; and `bytes` is what they cost, at most the limit.  Of each call it says that an
answer is the replay of the KEL it was asked for.  The lock is given up between the two
critical sections, and nothing in the invariant mentions a call that waits there: what a
store needs it finds out again under the lock (`skips`), which is why any number of
lookups, stores, evictions and swaps in between do no harm.  `StoreOK` is the step that
carries the weight.  The list may always be dropped whole, since the estimate is within
the limit, so the eviction loop ends before the list does; the longest front that leaves
room exists (`LongestFacts`); and what is dropped is subtracted exactly, for `Size` counts
a union of disjoint sets of bytes, one for each KEL (`HeldFacts`).

### Only model-checked

- `PublicationCompletes` and `SenderLearns`: liveness under fairness is out of the
  prover's reach, and so is ENABLED.
- `BasesAssumption` ends the proof of `PadIsExact` at Wraps of 2^29 bytes, and the model at
  heads of four-byte lengths; the code goes on to lengths of 63 bits.

## 5. Where comments and code disagree

Each of these has a run that shows the state.

1. `ledger_staged_fork`: the package comment of `ael` says that two ids at one seq
   are trapped, "NOT INSERT-OR-IGNORE"; two records that are both still staged
   replace one another and the chain stays ACTIVE.
2. `publication_late`: `Restamp` says a witness that refused bytes for their time
   "never accepted them"; a refusal as being from the future is not final, and a
   late copy of the same bytes is accepted once the hub's clock has caught up.
3. `receive_from_future`: the comment of `Error.Permanent` (`seal/errors.go:98-105`) says
   that every reason but two describes the bytes presented, "so the same bytes fail the same
   way on every attempt"; from-future compares them with the recipient's clock, is
   permanent all the same, and a message that was dropped for it would pass once that
   clock has advanced.

A comment in `Head` says a quarantined chain reports "the forked seq's existing
node"; the loop under it returns the competing record, which is the one before the
anchor, and `Ledger` follows the loop (`HeadOf`).

### What the passing properties leave out

The exceptions and preconditions that the statements needed, each of which a caller
should know:

- `Identity`'s owner never passes the hot key itself to `BuildRotation`: the method
  would take it (it matches the committed digest), an agent's first rot would be
  pending as kind rot, and `restorePending` refuses the file written of that.
- `PermanentIsFinal` leaves out the two refusals that find a time ahead of the recipient's
  clock, from-future and that of a merged event; the first is item 3 above.
  `PlannedRotationLosesNothing` leaves out messages dated beyond the skew at their arrival.
- `SetsOrdered` orders the sets of two key files only once the owner's clock has passed
  what it showed before the first was lost.
- `VerifiedIsUsable` says nothing of a set in which every key in force is of a reserved suite.
- `OldKeysStop` speaks of the event that replaced a key state.  A key state that a
  planned rot replaced keeps its grace although the next rot is an emergency:
  `retiredUrgently` looks at one event.
- `ReceiptReviewable` leaves out a key replaced in the first millisecond of the day
  (`ReplacedAtMidnight`): a receipt is judged at `DayStart`, and that moment counts as
  after the rotation.  And a party that signs what it likes can make a receipt that is accepted and
  cannot be reviewed: `VerifyResultForRequest` lets the day after today pass
  (`delegation/delegation.go:582`), and a key replaced before that day begins is not in force
  at its start (`evidence/interlock_test.go:93-101` expects that refusal).  For such a party
  the property leaves out every key replaced by the start of the receipt's day.
- `ResultAccepted` is about results sent before the receipt's key was replaced.  Sent
  again after a rotation, the same receipt is refused at the later time of its
  envelope; the provider has to sign a receipt anew.
- `PaidOnce` asks for receipts to be judged at their own `settle_at`, not at the time
  they arrive, and leaves out a bank key replaced in that very millisecond.
- An authorization signed before a rotation of the payer is refused after it
  (`WindowHolds`); signing it again keeps its id, so it cannot be paid twice.
- `SealedOpens` has one way to fail at the recipient, an interaction key of another
  interaction, which `Seal` cannot see.

## 6. Plan

Done, in this order: `KEL`, `Controller`, `Identity`, `Publication`, `Ledger`,
`MonoClock`, `ReplayCache`, `Notice`, `Receive`, `EncKeys`; the proofs of `Ledger` and
`MonoClock`; `Envelope`, `Mail`, `Delivery`, `Admission`, `Session`, `Evidence`, `Task`,
`Payment`, `Liability`, `Padding`; the proofs of `Session`, then of `EncKeys`,
`Publication`, `Identity`, `Delivery` with its refinement of `Mail`, `Admission`, the
import property of `Ledger`, `Payment`, `Task`, `ReplayCache`, and `Receive`.

`Liability` and `Padding` came last.  Left of the proofs: nothing but what "Only
model-checked" lists.

### Not modelled, and why

- `wire/scan`, `wire/registry.go`, the generator: a static table and development tools
  over source text, with no run-time state.
- `coredet` (with its null rules), `anetcid`, `aobj`, `effect`, `agenturi`, canonical
  JSON: byte and character encodings, functions of their input with golden vectors.
- `dirbox`, HPKE, sealing of recovery files: cryptographic constructions; where a
  component uses one it is symbolic.
- `tsir`: an evaluator over JSON documents and numbers as text; its difficulty is in
  the data, which a model would have to leave out.
- `a2acard`: canonical JSON and shape checks of one document.
- `regpow`: a search loop over a hash, whose only property is the hash's difficulty.
- `identity.MergedEmergency`: a predicate on two KELs for which the caller's reaction,
  dropping a peer's capabilities, lies outside the repository.
- the chat, preview, quote and card payloads of `delegation`: records without rules
  between them; `seal.RetryBucket`, a rounding of a delay; the base64 and header
  spellings of `relayauth` and `payment`.
