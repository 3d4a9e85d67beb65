------------------------------ MODULE Delivery ------------------------------
(***************************************************************************)
(* One message from agent a to agent b through b's hub.  a drafts it,      *)
(* seals it (seal.Seal), possibly again for another key of b, and submits  *)
(* the versions until it learns what became of them; b opens what its hub  *)
(* holds (seal.Open) and answers with a delivery token (MakeDAck), which a *)
(* checks against the ack_keys of the versions it sent (VerifyDAck).  b    *)
(* deletes its keys in between, a rotates its signing key, b's key store   *)
(* is down for a while, and the hub loses tokens.                          *)
(*                                                                         *)
(* The hub's queue and b's replay table are outside src/ (seal/doc.go      *)
(* steps 9 and 10) and modelled as seal is used by them.                   *)
(***************************************************************************)
EXTENDS Envelope, FiniteSets

CONSTANTS
  Drafts,        \* Seq: the inners a may want to send, without seq and sig
  EpochKeys,     \* Seq: b's epoch keys
  IXKeys,        \* Seq: b's interaction keys, announced to a
  Options,       \* Seq: what a seal may be called with, [key, rk, exp, hooks]
  OptionsOf,     \* the options each version may be sealed with
  MaxVersions, MaxKeySeq, MaxLosses,
  MaxDeletions   \* bound on the keys b deletes

VARIABLES
  seq,      \* a: the key state its controller signs under
  msg,      \* a: the drafted inner, [draft, seq], or None
  sent,     \* a: the sealed versions, [form, env, ack]; forms are below
  belief,   \* a: what it learned of each version
  ring,     \* b: the epoch keys it still holds
  ixkeys,   \* b: the interaction keys it still holds
  up,       \* b: whether the store of the interaction keys answers
  acted,    \* b: what it acted on, and the interactions open then; None before
  acts,     \* b: how often it acted on the message
  decided,  \* b: the outcomes it decided of each version
  queue,    \* hub: the versions it holds for b
  dacks,    \* hub: the tokens it holds for a
  losses    \* tokens lost so far

senderVars == <<seq, msg, sent, belief>>
keyVars    == <<ring, ixkeys, up>>
replayVars == <<acted, acts, decided>>
hubVars    == <<queue, dacks, losses>>
vars       == <<senderVars, keyVars, replayVars, hubVars>>

\* A kid names one epoch key, and interactions do not share a key pair.
ASSUME KeysAssumption ==
  /\ MaxVersions \in Nat /\ MaxKeySeq \in Nat
  /\ \A i \in DOMAIN EpochKeys : EpochKeys[i].kid = KID(EpochKeys[i].suite, EpochKeys[i].pub)
  /\ \A i, j \in DOMAIN IXKeys :
       IXKeys[i].suite = IXKeys[j].suite /\ IXKeys[i].pub = IXKeys[j].pub => IXKeys[i] = IXKeys[j]

InnerFields ==
  {"from", "seq", "to", "type", "ix", "mid", "ts", "exp", "body", "kel", "notices", "keys", "grant", "rk", "ext", "sig"}

\* What a may draft and ask for: an inner of its own to b, sealed to keys b announced unless they
\* are of a kind Seal refuses.  Texts, bodies and times are Go values, present and well-formed.
ASSUME DraftsAssumption ==
  /\ \A i \in DOMAIN Drafts : LET in == Drafts[i] IN
       /\ in = [x \in InnerFields |-> in[x]]
       /\ in.from = "a" /\ in.to = "b" /\ in.sig = None
       /\ Present(in.type) /\ Present(in.ix) /\ Present(in.body) /\ in.mid # None
       /\ in.ext \subseteq Int
  /\ \A i \in DOMAIN Options : LET o == Options[i] IN
       /\ o.exp # Bad
       /\ o.key.suite = SuiteX25519 => \E k \in DOMAIN EpochKeys : o.key = EpochKeys[k]
       /\ o.rk # None => o.rk.pub = SmallOrder \/ \E k \in DOMAIN IXKeys :
            IXKeys[k].suite = o.rk.suite /\ IXKeys[k].pub = o.rk.pub

Versions == 1..MaxVersions

SigningKey(aid, s) == <<"key", aid, s>>

FirstContact == [kind |-> 0, cap |-> None, proof |-> None]

Image(f, S) == {f[i] : i \in S}

\* Receive steps 1 to 4 and the signature.
Received(env, keys, ixs, answers) ==
  LET r == Open(env, "b", Image(EpochKeys, keys), Image(IXKeys, ixs), answers)
  IN  IF r.reason = "ok" /\ ~Verifies(r.inner.sig, SigningKey(r.inner.from, r.inner.seq), r.pre)
      THEN Fails("bad-sig", r.ack) ELSE r

KeySeqs == 0..MaxKeySeq

Signer(s) == [seq |-> s, key |-> SigningKey("a", s)]

\* A form is a draft, the key state it declares, the options it is sealed with and the key state
\* that signs it.
InnerOf(f) == [Drafts[f[1]] EXCEPT !.seq = f[2]]

OptsOf(f) == [peerRK |-> Options[f[3]].rk, exp |-> Options[f[3]].exp]

\* Version v of the message, sealed in the form f, with the access its submissions set.
SealedAs(f, v) ==
  LET sealed == Seal(InnerOf(f), Options[f[3]].key, Signer(f[4]), OptsOf(f), v, Options[f[3]].hooks)
  IN  [form |-> f, env |-> WithAccess(sealed.env, FirstContact), ack |-> sealed.ack]

Init ==
  /\ seq = 0 /\ msg = None /\ sent = <<>> /\ belief = [v \in Versions |-> 0]
  /\ ring = DOMAIN EpochKeys /\ ixkeys = DOMAIN IXKeys /\ up = TRUE
  /\ acted = None /\ acts = 0 /\ decided = [v \in Versions |-> {}]
  /\ queue = {} /\ dacks = {} /\ losses = 0

-----------------------------------------------------------------------------
(* The sender. *)

\* in.KeyStateSeq is Controller.CurrentSeq() when the draft is made.
Draft(d) ==
  /\ msg = None
  /\ msg' = [draft |-> d, seq |-> seq]
  /\ UNCHANGED <<seq, sent, belief, keyVars, replayVars, hubVars>>

\* Before the last seal: a later rotation changes nothing below (Receive has the grace rules).
RotateKey ==
  /\ seq < MaxKeySeq /\ Len(sent) < MaxVersions
  /\ seq' = seq + 1
  /\ UNCHANGED <<msg, sent, belief, keyVars, replayVars, hubVars>>

\* The signer is the controller's current key; a refused Seal drops the draft.
SealVersion(o) ==
  /\ msg # None
  /\ Len(sent) < MaxVersions /\ o \in OptionsOf[Len(sent) + 1]
  /\ LET f == <<msg.draft, msg.seq, o, seq>>
     IN  IF SealAccepts(InnerOf(f), Options[o].key, Signer(seq), OptsOf(f))
         THEN sent' = Append(sent, SealedAs(f, Len(sent) + 1)) /\ UNCHANGED msg
         ELSE sent = <<>> /\ msg' = None /\ UNCHANGED sent
  /\ UNCHANGED <<seq, belief, keyVars, replayVars, hubVars>>

\* An attempt: a fresh credential is set and the hub checks the outer.  The answer may be lost,
\* and what was already taken is submitted again, until a knows the outcome.
Submit(v) ==
  /\ v \in DOMAIN sent \ queue /\ belief[v] = 0
  /\ SetAccessAccepts(sent[v].env, FirstContact)
  /\ queue' = queue \cup {v}
  /\ UNCHANGED <<senderVars, keyVars, replayVars, dacks, losses>>

\* A token is matched against the ack_keys of all the versions a sent.
Learn(d) ==
  /\ d \in dacks
  /\ dacks' = dacks \ {d}
  /\ \E got \in {VerifyDAck([v \in DOMAIN sent |-> sent[v].ack], d)} :
       belief' = IF got.idx # 0 /\ belief[got.idx] = 0
                 THEN [belief EXCEPT ![got.idx] = got.outcome] ELSE belief
  /\ UNCHANGED <<seq, msg, sent, keyVars, replayVars, queue, losses>>

-----------------------------------------------------------------------------
(* The recipient. *)

Result(v) == Received(sent[v].env, ring, ixkeys, up)

\* A token that can be made waits at the hub; without an ack_key there is none.
Answer(r, o, note) ==
  dacks' = IF MakeDAckAccepts(r.ack, o, note) THEN dacks \cup {MakeDAck(r.ack, o, note)} ELSE dacks

\* The message is acted on once; a duplicate is answered like the first.
TakeMessage(v) ==
  /\ v \in queue
  /\ queue' = queue \ {v}
  /\ UNCHANGED <<senderVars, keyVars, losses>>
  /\ \E r \in {Result(v)} :
       /\ r.reason = "ok"
       /\ decided' = [decided EXCEPT ![v] = @ \cup {Processed}]
       /\ IF acts = 0
          THEN /\ acts' = 1
               /\ acted' = [inner |-> r.inner, key |-> r.key, open |-> {IXKeys[k].ix : k \in ixkeys}]
          ELSE UNCHANGED <<acts, acted>>
       /\ Answer(r, Processed, EmptyNote)

\* A permanent error is answered, when the envelope gave an ack_key, and forgotten.
RefuseMessage(v) ==
  /\ v \in queue
  /\ queue' = queue \ {v}
  /\ UNCHANGED <<senderVars, keyVars, acted, acts, losses>>
  /\ \E r \in {Result(v)} :
       /\ r.reason # "ok" /\ Permanent(r.reason)
       /\ decided' = [decided EXCEPT ![v] = @ \cup {Refused}]
       /\ Answer(r, Refused, [reason |-> r.reason, retryAfter |-> 0])

Deleted == Len(EpochKeys) - Cardinality(ring) + Len(IXKeys) - Cardinality(ixkeys)

DropEpochKey(k) ==
  /\ Deleted < MaxDeletions
  /\ k \in ring
  /\ ring' = ring \ {k}
  /\ UNCHANGED <<senderVars, ixkeys, up, replayVars, hubVars>>

CloseInteraction(k) ==
  /\ Deleted < MaxDeletions
  /\ k \in ixkeys
  /\ ixkeys' = ixkeys \ {k}
  /\ UNCHANGED <<senderVars, ring, up, replayVars, hubVars>>

StoreDown ==
  /\ up
  /\ up' = FALSE
  /\ UNCHANGED <<senderVars, ring, ixkeys, replayVars, hubVars>>

StoreUp ==
  /\ ~up
  /\ up' = TRUE
  /\ UNCHANGED <<senderVars, ring, ixkeys, replayVars, hubVars>>

LoseDAck(d) ==
  /\ losses < MaxLosses
  /\ d \in dacks
  /\ dacks' = dacks \ {d} /\ losses' = losses + 1
  /\ UNCHANGED <<senderVars, keyVars, replayVars, queue>>

-----------------------------------------------------------------------------
Next ==
  \/ \E d \in DOMAIN Drafts : Draft(d)
  \/ \E o \in DOMAIN Options : SealVersion(o)
  \/ RotateKey
  \/ \E v \in Versions : Submit(v) \/ TakeMessage(v) \/ RefuseMessage(v)
  \/ \E d \in dacks : Learn(d) \/ LoseDAck(d)
  \/ \E k \in DOMAIN EpochKeys : DropEpochKey(k)
  \/ \E k \in DOMAIN IXKeys : CloseInteraction(k)
  \/ StoreDown \/ StoreUp

Spec == Init /\ [][Next]_vars

\* a retries, b works through its queue, tokens are fetched, and an outage of the store leaves
\* room between two outages.
Fairness ==
  /\ \A v \in Versions : WF_vars(Submit(v)) /\ SF_vars(TakeMessage(v) \/ RefuseMessage(v))
  /\ WF_vars(\E d \in dacks : Learn(d))
  /\ WF_vars(StoreUp)

FairSpec == Spec /\ Fairness

-----------------------------------------------------------------------------
TypeOK ==
  /\ seq \in 0..MaxKeySeq /\ Len(sent) <= MaxVersions /\ belief \in [Versions -> 0..2]
  /\ ring \subseteq DOMAIN EpochKeys /\ ixkeys \subseteq DOMAIN IXKeys /\ up \in BOOLEAN
  /\ acts \in 0..1 /\ decided \in [Versions -> SUBSET {Processed, Refused}]
  /\ queue \subseteq DOMAIN sent /\ losses \in 0..MaxLosses

\* What Seal produced, its receiver opens while it holds the keys: checkForSeal keeps out
\* whatever Open would refuse for a reason in the bytes, the signature verifies under the
\* declared key state even when the key rotated between draft and seal, and both ends have the
\* same ack_key.  Only an interaction key of another interaction, which Seal cannot see, is
\* found by Open.
SealedOpens ==
  \A v \in DOMAIN sent :
    LET opt == Options[sent[v].form[3]]
        in  == InnerOf(sent[v].form)
        r   == Received(sent[v].env, DOMAIN EpochKeys, DOMAIN IXKeys, TRUE)
    IN  opt.hooks = [inner |-> {}, wrap |-> {}, outer |-> {}] =>
          /\ r.ack = sent[v].ack
          /\ \/ r.reason = "ok" /\ [r.inner EXCEPT !.sig = None] = in
             \/ /\ r.reason = "ikey-mismatch"
                /\ \E k \in Image(IXKeys, DOMAIN IXKeys) : k.pub = opt.rk.pub /\ (k.ix # in.ix \/ k.peer # in.from)

\* A message with a second layer is acted on only while the interaction it belongs to is open:
\* closing one (deleting its key) also shuts out what was sealed to the key of another.
ClosedStaysClosed ==
  acted # None /\ acted.key # None => acted.inner.ix \in acted.open

\* What the sender believes is what the recipient decided, refusals are final and the message is
\* acted on at most once: the abstract specification of Mail.
Mailbox == INSTANCE Mail WITH Unknown <- 0
DeliveredAsDecided == Mailbox!Spec

\* A sender that keeps submitting a version learns its outcome, unless the recipient deleted
\* the epoch key before (it cannot answer then): Open hands out the ack_key with every error
\* after the first layer, a lost token is made again, and an outage of the store only delays.
SenderLearns ==
  \A v \in Versions :
    v \in queue ~> \/ belief[v] # 0
                   \/ v \in DOMAIN sent /\ Options[sent[v].form[3]].key \notin Image(EpochKeys, ring)
=============================================================================
