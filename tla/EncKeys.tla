------------------------------ MODULE EncKeys ------------------------------
(***************************************************************************)
(* Encryption key sets, seal/enckeys.go, seal/highwater.go and             *)
(* seal/limits.go: an owner publishes signed sets of epoch keys through    *)
(* its hub, replaces its identity key, loses its state; a consumer keeps   *)
(* the set with the highest seq and seals to one of its keys; envelopes    *)
(* wait at the hub; the owner deletes private keys by their age.           *)
(*                                                                         *)
(* A public key is its kid: the epoch it is for and the key file it was    *)
(* generated into.  An owner whose build is later than the consumer's has  *)
(* keys of the reserved suite for some epochs.  The mailbox key of a set   *)
(* is left out.  What the daemon and the hub do around the seal package is *)
(* external.                                                               *)
(***************************************************************************)
EXTENDS Controller, FiniteSets

CONSTANTS
  ClockSkew,            \* tolerance for a peer's clock running ahead
  Epoch,                \* length of an encryption epoch
  EpochsAhead,          \* PublishAhead / Epoch: epochs a set holds keys for after the current one
  DeliveryDeadline,     \* a hub takes an envelope until its key's not_after plus this
  MaxKeyValidity, MaxKeysPerSet,
  MaxMessageLifetime,   \* also the age past not_after at which a private key is deleted
  MaxUint64,
  MailboxLifetime,      \* how long a hub keeps an envelope
  Later,                \* the epochs for which the owner's keys are of the reserved suite
  Hub,                  \* the AID of the owner's witness hub
  Skew,                 \* how far the owner's and the consumer's clocks are off, at most
  StartTime, MaxTime, MaxSets, MaxEvents   \* bounds of the model

\* limits.go: a hub has dropped every envelope for a key before the key's private half goes.
ASSUME RetentionAssumption == DeliveryDeadline + MailboxLifetime + Skew < MaxMessageLifetime

\* Times and lengths are whole seconds, and an epoch has a length.
ASSUME LimitsAssumption ==
  /\ {ClockSkew, EpochsAhead, DeliveryDeadline, MaxKeyValidity, MaxKeysPerSet, MaxMessageLifetime,
      MailboxLifetime, Skew, StartTime, MaxTime, MaxSets, MaxUint64} \subseteq Nat
  /\ Epoch \in Nat \ {0}
  /\ Skew < StartTime /\ StartTime <= MaxTime

\* The clock is far from the 64 bits of a seq, where NextSeq stops counting.
ASSUME SeqAssumption == MaxTime + Skew + MaxSets < MaxUint64

\* nil is not a key.
ASSUME NoneAssumption == None \notin [kid : Int \X Int, suite : Int, notBefore : Int, notAfter : Int]

VARIABLES
  now,        \* the hub's clock
  agent,      \* the owner, a Controller whose KEL its hub holds
  ring,       \* the private keys in the owner's key file
  lastSeq,    \* the seq of the last set, as the owner's key file has it
  gen,        \* how many key files the owner has lost
  published,  \* every set the owner has signed
  seen,       \* the set the consumer holds, or None
  held,       \* the consumer's copy of the owner's KEL
  mail,       \* the envelope under way or in the mailbox, or None
  unknown     \* kids of delivered envelopes that the key ring did not have

vars == <<now, agent, ring, lastSeq, gen, published, seen, held, mail, unknown>>

-----------------------------------------------------------------------------
(* Key sets. *)

\* The suite this build implements, and the one it only knows the number of.
SuiteX25519 == 1
SuiteXWing == 2

Supported(s) == s = SuiteX25519

EncKey(e, g) ==
  [ kid |-> <<e, g>>, suite |-> IF e \in Later THEN SuiteXWing ELSE SuiteX25519,
    notBefore |-> e * Epoch, notAfter |-> (e + 1) * Epoch ]

ValidAt(k, t) == k.notBefore <= t /\ t < k.notAfter

\* A key of a reserved suite passes.
check(k) ==
  k.suite # 0 /\ k.notAfter > k.notBefore /\ k.notAfter - k.notBefore <= MaxKeyValidity

\* Mutant: the seq is a counter, without the clock.
NextSeq_Counter(t, prev) == prev + 1

NextSeq(t, prev) ==
  IF prev = MaxUint64 THEN prev ELSE IF t > prev + 1 THEN t ELSE prev + 1

checkStructure(s) ==
  /\ s.aid # None
  /\ Len(s.keys) \in 1..MaxKeysPerSet
  /\ \A i \in 1..Len(s.keys) : check(s.keys[i])
  /\ \A i, j \in 1..Len(s.keys) : i < j => /\ s.keys[i].kid # s.keys[j].kid
                                           /\ s.keys[i].notBefore <= s.keys[j].notBefore

checkValidAt(s, t) == \E i \in 1..Len(s.keys) : ValidAt(s.keys[i], t + ClockSkew)

SignEncKeySetAccepts(s) == checkStructure(s) /\ checkValidAt(s, s.issuedAt)

SignEncKeySet(s, c) == [set |-> s, keySeq |-> signingLocked(c).seq, sig |-> signingLocked(c).key]

VerifyEncKeySet(x, aid, kel, t) ==
  IF ~Replays(kel) THEN "bad-kel"
  ELSE IF AIDOf(kel) # aid \/ x.set.aid # aid THEN "aid-mismatch"
  ELSE IF x.keySeq >= Len(kel) THEN "bad-key-state"
  ELSE IF Tip(kel).status = "deactivated" THEN "revoked-key"
  ELSE IF KeyState(kel, x.keySeq + 1).status # "active" THEN "bad-key-state"
  ELSE IF VerifyObject(kel, aid, x.keySeq, t, x.sig) # "ok" THEN "bad-sig"
  ELSE IF ~checkStructure(x.set) \/ ~checkValidAt(x.set, t) THEN "bad-keyset" ELSE "ok"

\* Mutant: no key that is about to become valid is chosen.
SelectKey_NoFallback(s, t) ==
  LET valid == {i \in 1..Len(s.keys) : Supported(s.keys[i].suite) /\ ValidAt(s.keys[i], t)}
  IN  IF valid = {} THEN None
      ELSE s.keys[CHOOSE i \in valid : \A j \in valid : s.keys[j].notBefore <= s.keys[i].notBefore]

\* The key a sender seals to at t, of a suite its build implements; of two keys with one
\* not_before the later or the earlier.
SelectKey(s, t) ==
  LET mine  == {i \in 1..Len(s.keys) : Supported(s.keys[i].suite)}
      valid == {i \in mine : ValidAt(s.keys[i], t)}
      soon  == {i \in mine : ValidAt(s.keys[i], t + ClockSkew)}
  IN  IF valid # {}
      THEN s.keys[CHOOSE i \in valid : \A j \in valid :
                    \/ s.keys[j].notBefore < s.keys[i].notBefore
                    \/ s.keys[j].notBefore = s.keys[i].notBefore /\ j <= i]
      ELSE IF soon # {}
      THEN s.keys[CHOOSE i \in soon : \A j \in soon :
                    \/ s.keys[j].notBefore > s.keys[i].notBefore
                    \/ s.keys[j].notBefore = s.keys[i].notBefore /\ j >= i]
      ELSE None

\* Mutant: an older set replaces the stored one.
DecideHighWater_NoIgnore(s, x) ==
  IF s = None \/ x.set.seq # s.set.seq THEN "replace" ELSE IF x.set = s.set THEN "same" ELSE "fork"

\* s is what is stored, None for nothing.
DecideHighWater(s, x) ==
  IF s = None \/ x.set.seq > s.set.seq THEN "replace"
  ELSE IF x.set.seq < s.set.seq THEN "ignore"
  ELSE IF x.set = s.set THEN "same" ELSE "fork"

-----------------------------------------------------------------------------

Seed == "seed"
Self == AIDOf(agent.kel)

Designated ==
  LET c == BuildWitnessDesignation(incept(1, ToadAgent), Hub, NextDigest(Seed, 2), 2)
  IN  Adopt(c, c.pending.event)

Init ==
  /\ now = StartTime
  /\ agent = Designated
  /\ ring = {} /\ lastSeq = 0 /\ gen = 0 /\ published = {}
  /\ seen = None /\ held = agent.kel
  /\ mail = None /\ unknown = {}

Tick ==
  /\ now < MaxTime
  /\ now' = now + 1
  /\ UNCHANGED <<agent, ring, lastSeq, gen, published, seen, held, mail, unknown>>

\* What a clock of the owner or the consumer can show now.
Readings == now - Skew .. now + Skew

\* The owner signs a set with a key for its epoch and the ones after it.
Publish(t) ==
  LET e == t \div Epoch
      s == [ aid |-> Self, seq |-> NextSeq(t, lastSeq), issuedAt |-> t,
             keys |-> [i \in 1 .. EpochsAhead + 1 |-> EncKey(e + i - 1, gen)] ]
  IN  /\ Cardinality(published) < MaxSets
      /\ last(agent.kel).type # "dip"
      /\ SignEncKeySetAccepts(s)
      /\ published' = published \cup {SignEncKeySet(s, agent)}
      /\ ring' = ring \cup {s.keys[i] : i \in 1..Len(s.keys)}
      /\ lastSeq' = s.seq
      /\ UNCHANGED <<now, agent, gen, seen, held, mail, unknown>>

\* The key file is lost and a new one started, which has no last seq.
LoseKeyFile ==
  /\ gen = 0 /\ lastSeq > 0
  /\ gen' = gen + 1
  /\ ring' = {} /\ lastSeq' = 0
  /\ UNCHANGED <<now, agent, published, seen, held, mail, unknown>>

\* Mutant: a private key goes as soon as its epoch is over.
Deletable_AtEnd(k, t) == t >= k.notAfter

\* A private key goes once no honest hub can still hold an envelope for it.
Deletable(k, t) == t >= k.notAfter + MaxMessageLifetime

Delete(t) ==
  /\ \E k \in ring : Deletable(k, t)
  /\ ring' = {k \in ring : ~Deletable(k, t)}
  /\ UNCHANGED <<now, agent, lastSeq, gen, published, seen, held, mail, unknown>>

\* A planned or an emergency rot, witnessed and adopted at once.
Rotate(emergency) ==
  LET n   == Len(agent.kel)
      key == RecoverySeed(Seed, n)
      nxt == NextDigest(Seed, n + 1)
      c   == BuildRotation(agent, key, nxt, Hub, emergency, now)
  IN  /\ n < MaxEvents
      /\ BuildRotationAccepts(agent, key, nxt, Hub, emergency, now)
      /\ agent' = Adopt(c, c.pending.event)
      /\ UNCHANGED <<now, ring, lastSeq, gen, published, seen, held, mail, unknown>>

\* The consumer gets a set from the hub, a message or an old cache.
Consume(x, t) ==
  /\ DecideHighWater(seen, x) \in {"replace", "same"}
  /\ VerifyEncKeySet(x, Self, held, t) = "ok"
  /\ seen' = x
  /\ UNCHANGED <<now, agent, ring, lastSeq, gen, published, held, mail, unknown>>

Learn ==
  /\ held # agent.kel
  /\ held' = agent.kel
  /\ UNCHANGED <<now, agent, ring, lastSeq, gen, published, seen, mail, unknown>>

\* The consumer seals to a key of the set it holds, however long it has held it.
Seal(t) ==
  /\ mail = None /\ seen # None
  /\ SelectKey(seen.set, t) # None
  /\ mail' = [key |-> SelectKey(seen.set, t), at |-> None]
  /\ UNCHANGED <<now, agent, ring, lastSeq, gen, published, seen, held, unknown>>

\* The hub takes the envelope, or refuses it as too late for its key.
Deposit ==
  /\ mail # None /\ mail.at = None
  /\ mail' = IF now <= mail.key.notAfter + DeliveryDeadline THEN [mail EXCEPT !.at = now] ELSE None
  /\ UNCHANGED <<now, agent, ring, lastSeq, gen, published, seen, held, unknown>>

\* The owner opens the envelope, or the hub has dropped it.
Collect ==
  /\ mail # None /\ mail.at # None
  /\ mail' = None
  /\ unknown' = IF now <= mail.at + MailboxLifetime /\ mail.key \notin ring
                THEN unknown \cup {mail.key.kid} ELSE unknown
  /\ UNCHANGED <<now, agent, ring, lastSeq, gen, published, seen, held>>

Next ==
  \/ Tick
  \/ \E t \in Readings : Publish(t)
  \/ LoseKeyFile
  \/ \E t \in Readings : Delete(t)
  \/ \E e \in BOOLEAN : Rotate(e)
  \/ \E x \in published, t \in Readings : Consume(x, t)
  \/ Learn
  \/ \E t \in Readings : Seal(t)
  \/ Deposit
  \/ Collect

Spec == Init /\ [][Next]_vars
-----------------------------------------------------------------------------
(* Properties. *)

TypeOK ==
  /\ now \in Nat /\ lastSeq \in Nat /\ gen \in 0..1
  /\ \A x \in published : SignEncKeySetAccepts(x.set)
  /\ \A k \in ring : check(k) /\ k.kid[2] = gen
  /\ seen \in published \cup {None}

\* The key file a set was made from.
FileOf(x) == x.set.keys[1].kid[2]

\* The sets of the files that were lost before x was made.
OlderThan(x) == {y \in published : FileOf(y) < FileOf(x)}

\* When x was made the owner's clock was past all it had shown for the lost file, and by as much
\* as seqs may have run ahead of it: one for each set.
ClockCaughtUp(x) ==
  \A y \in OlderThan(x) : x.set.issuedAt >= y.set.issuedAt + Cardinality(OlderThan(x))

\* The seq of a set names it within its key file, and there a set signed under a newer key state
\* has the higher seq.  After the file is lost its seqs still order the sets (NextSeq "keeps the
\* value meaningful after a lost state file"), once the clock has caught up with the old file:
\* until then a new set may be ignored, or taken for a fork.
SeqOrdersSets ==
  \A x, y \in published :
    /\ FileOf(x) = FileOf(y) => (x.set.seq = y.set.seq => x = y)
    /\ FileOf(x) = FileOf(y) => (x.keySeq < y.keySeq => x.set.seq < y.set.seq)
    /\ x \in OlderThan(y) /\ ClockCaughtUp(y) => x.set.seq < y.set.seq

\* A consumer never goes back: not to an earlier set, and not to an earlier key state of the
\* owner, whatever the transport shows it.  Not even when a lost key file made a later key state
\* sign the lower seq: then the older set is refused for its signature.
ConsumerNeverGoesBack ==
  [][seen # None => seen'.set.seq >= seen.set.seq /\ seen'.keySeq >= seen.keySeq]_vars

\* A set the consumer may take at some time has a key it can seal to at that time, unless all
\* that makes the set valid then is of suites the consumer's build does not implement: the next
\* epoch's key will do (SelectKey's fallback).  And the consumer never gets a key it cannot use.
VerifiedIsUsable ==
  \A x \in published, t \in Readings :
    VerifyEncKeySet(x, Self, held, t) = "ok" =>
      LET inForce == {i \in 1..Len(x.set.keys) : ValidAt(x.set.keys[i], t + ClockSkew)}
          k       == SelectKey(x.set, t)
      IN  /\ (\E i \in inForce : Supported(x.set.keys[i].suite)) => k # None
          /\ k # None => Supported(k.suite)

\* An envelope that the hub took and still holds finds its private key, unless the owner lost
\* the file with it: a key outlives the last envelope for it.
SealedIsOpenable == \A kid \in unknown : kid[2] < gen

\* The sets an owner has published are well formed and, one key file lost or not, ordered by
\* their seqs as far as its clock allows.
SetsOrdered == TypeOK /\ SeqOrdersSets
=============================================================================
