------------------------------ MODULE Envelope ------------------------------
(***************************************************************************)
(* Envelopes and what goes with them: seal/envelope.go (Seal, ParseOuter,  *)
(* EnvDigest, SetAccess, Open), seal/fields.go (the signature preimage),   *)
(* seal/ixkey.go (the second layer), seal/access.go and seal/grant.go      *)
(* (capabilities) and seal/dack.go (delivery tokens).                      *)
(*                                                                         *)
(* Every object is a record of its fields.  None is an absent field and    *)
(* Bad one of another CBOR type, length or encoding than the decoder       *)
(* wants.  Cryptography is symbolic: a ciphertext names the context it was *)
(* made in, a signature is <<public key, message>>, a hash or a MAC a      *)
(* tuple of its inputs.                                                    *)
(***************************************************************************)
EXTENDS Integers, Sequences

CONSTANTS
  None, Bad,
  Nul,                 \* a text that contains U+0000
  SmallOrder,          \* a public key of small order
  MaxMessageLifetime,  \* exp - ts of a message
  CapExpGrace, CapExpMaxAhead,   \* the window a capability's expiry is accepted in
  MaxRetryAfter                  \* bound of a note's retry_after

ASSUME EnvelopeAssumption ==
  /\ MaxMessageLifetime \in Nat /\ CapExpGrace \in Nat /\ CapExpMaxAhead \in Nat
  /\ MaxRetryAfter \in Nat /\ None # Bad

EnvelopeVersion   == 2
SuiteX25519       == 1
FirstIgnorableKey == 64
CapType           == "anet.cap/1"
Classes           == {1, 2}   \* contact and stranger
Processed         == 1
Refused           == 2

\* others are the keys of a map that its decoder has no name for.
UnknownCritical(others) == \E k \in others : k < FirstIgnorableKey

Present(x) == x \notin {None, Bad}

Verifies(sig, pub, m) == sig = <<pub, m>>

-----------------------------------------------------------------------------
(* HPKE (crypto/hpke): a context is the ephemeral enc, the key and the info. *)

KID(suite, pub) == <<"kid", suite, pub>>

HPKEInfo(to, suite, kid) == <<"anet-seal/v2", to, suite, kid>>

IXInfo(to, suite, ikid) == <<"anet-ix/v2", to, suite, ikid>>

HPKESeal(enc, pub, info, pt) == [enc |-> enc, pub |-> pub, info |-> info, pt |-> pt]

HPKEOpens(ct, enc, pub, info) == ct.enc = enc /\ ct.pub = pub /\ ct.info = info

Export(enc, pub, info) == <<"ack", enc, pub, info>>

-----------------------------------------------------------------------------
(* The outer envelope. *)

decodeAccess(a) ==
  /\ Present(a)
  /\ \/ a.kind = 0 /\ a.cap = None /\ a.proof = None
     \/ a.kind = 1 /\ Present(a.cap) /\ a.cap.sig # Bad /\ Present(a.proof)

ParseOuter(e) ==
  IF ~Present(e.v) THEN "bad-outer"
  ELSE IF e.v # EnvelopeVersion THEN "bad-version"
  ELSE IF UnknownCritical(e.others) THEN "unknown-critical-field"
  ELSE IF ~decodeAccess(e.access) THEN "access-invalid"
  ELSE IF e.exp = Bad \/ ~Present(e.to) \/ ~Present(e.suite) THEN "bad-outer"
  ELSE IF e.suite # SuiteX25519 THEN "unknown-suite"
  ELSE IF e.to = "" \/ ~Present(e.kid) \/ ~Present(e.enc) \/ ~Present(e.ct) THEN "bad-outer" ELSE "ok"

EnvDigest(e) == <<"anet-env/v2", [e EXCEPT !.access = None]>>

WithAccess(e, a) == [e EXCEPT !.access = a]

SetAccessAccepts(e, a) == decodeAccess(a) /\ ParseOuter(WithAccess(e, a)) = "ok"

-----------------------------------------------------------------------------
(* Inner messages and their signature. *)

ParseKEL(k) == CASE k = "large" -> "kel-too-large" [] k = Bad -> "bad-kel" [] OTHER -> "ok"

checkRK(rk) == rk # Bad /\ rk.suite = SuiteX25519 /\ rk.pub # Bad

\* o has the peer's interaction key or None, and the outer exp or 0.
checkForSeal(in, o) ==
  /\ "" \notin {in.from, in.to, in.type}
  /\ Nul \notin {in.from, in.to, in.ix}
  /\ in.mid # Bad /\ in.ts # 0
  /\ in.exp >= in.ts /\ in.exp - in.ts <= MaxMessageLifetime
  /\ o.exp # 0 => o.exp = in.exp
  /\ (in.kel # None) <=> (in.notices # <<>>)
  /\ in.kel # None => Len(in.notices) = 1 /\ ParseKEL(in.kel) = "ok"
  /\ \A i \in 1..Len(in.notices) : in.notices[i] # Bad
  /\ in.grant # Bad
  /\ in.rk # None => checkRK(in.rk)
  /\ \A k \in in.ext : k >= FirstIgnorableKey

\* The inner as received, without its sig and with the body's digest, and what it is bound to.
sigPreimage(in, enc, kid, suite, ikid, enc2) ==
  <<"anet-relay-sig/v2", [in EXCEPT !.sig = None, !.body = <<"sha256", in.body>>],
    enc, kid, suite, ikid, enc2>>

decodeInner(in) ==
  IF in = Bad THEN "bad-inner"
  ELSE IF UnknownCritical(in.ext) THEN "unknown-critical-field"
  ELSE IF \/ \E x \in {in.from, in.to, in.type, in.ix} : ~Present(x)
          \/ ~Present(in.mid) \/ ~Present(in.body) \/ ~Present(in.sig)
          \/ \E i \in 1..Len(in.notices) : in.notices[i] = Bad
          \/ Len(in.notices) # IF in.kel = None THEN 0 ELSE 1
          \/ Nul \in {in.from, in.to, in.ix}
  THEN "bad-inner"
  ELSE IF in.rk # None /\ ~checkRK(in.rk) THEN "bad-rk" ELSE "ok"

-----------------------------------------------------------------------------
(* Seal.  r is the recipient's epoch key, signer the key state sign uses, n *)
(* the randomness of this call; hooks are keys another implementation adds. *)

\* Mutant: the seq the signer used is not compared.
SealAccepts_AnySeq(in, r, signer, o) ==
  /\ checkForSeal(in, o)
  /\ r.suite = SuiteX25519 /\ r.kid = KID(r.suite, r.pub)
  /\ o.peerRK # None => checkRK(o.peerRK) /\ o.peerRK.pub # SmallOrder

SealAccepts(in, r, signer, o) ==
  /\ checkForSeal(in, o)
  /\ r.suite = SuiteX25519 /\ r.kid = KID(r.suite, r.pub)
  /\ o.peerRK # None => checkRK(o.peerRK) /\ o.peerRK.pub # SmallOrder
  /\ signer.seq = in.seq

Wrap(ikid, enc2, body, hooks) ==
  [ikid |-> ikid, enc2 |-> enc2, body |-> body, pad |-> "zero", others |-> hooks.wrap]

Seal(in, r, signer, o, n, hooks) ==
  LET enc   == <<"enc", n>>
      info  == HPKEInfo(in.to, r.suite, r.kid)
      two   == o.peerRK # None
      ikid  == IF two THEN KID(o.peerRK.suite, o.peerRK.pub) ELSE None
      enc2  == IF two THEN <<"enc2", n>> ELSE None
      sig   == <<signer.key, sigPreimage(in, enc, r.kid, r.suite, ikid, enc2)>>
      inner == [in EXCEPT !.sig = sig, !.ext = @ \cup hooks.inner]
      body  == IF two
               THEN HPKESeal(enc2, o.peerRK.pub, IXInfo(in.to, o.peerRK.suite, ikid), inner)
               ELSE inner
  IN  [ env |-> [ v |-> EnvelopeVersion, to |-> in.to, suite |-> r.suite, kid |-> r.kid, enc |-> enc,
                  ct |-> HPKESeal(enc, r.pub, info, Wrap(ikid, enc2, body, hooks)),
                  access |-> None, exp |-> IF o.exp # 0 THEN o.exp ELSE None, others |-> hooks.outer ],
        ack |-> Export(enc, r.pub, info) ]

-----------------------------------------------------------------------------
(* Open, receive steps 1 to 4.  ack is None exactly for a failure before layer 1 opened. *)

Fails(reason, ack) == [reason |-> reason, ack |-> ack, inner |-> None, pre |-> None, key |-> None]

decodeWrap(w) ==
  /\ ~UnknownCritical(w.others)
  /\ Present(w.body)
  /\ w.pad = "zero"
  /\ (w.ikid = None) <=> (w.enc2 = None)
  /\ Bad \notin {w.ikid, w.enc2}

\* Mutant: whose interaction the key is of is not compared.
OpenInner_AnyInteraction(e, w, in, key, ack) ==
  IF decodeInner(in) # "ok" THEN Fails(decodeInner(in), ack)
  ELSE [ reason |-> "ok", ack |-> ack, inner |-> in, key |-> key,
         pre |-> sigPreimage(in, e.enc, e.kid, e.suite, w.ikid, w.enc2) ]

\* key is the interaction key that opened the second layer, or None.
OpenInner(e, w, in, key, ack) ==
  IF decodeInner(in) # "ok" THEN Fails(decodeInner(in), ack)
  ELSE IF key # None /\ (in.ix # key.ix \/ in.from # key.peer) THEN Fails("ikey-mismatch", ack)
  ELSE IF in.to # e.to THEN Fails("to-mismatch", ack)
  ELSE IF e.exp # None /\ e.exp # in.exp THEN Fails("exp-mismatch", ack)
  ELSE IF in.kel # None /\ ParseKEL(in.kel) # "ok" THEN Fails(ParseKEL(in.kel), ack)
  ELSE [ reason |-> "ok", ack |-> ack, inner |-> in, key |-> key,
         pre |-> sigPreimage(in, e.enc, e.kid, e.suite, w.ikid, w.enc2) ]

\* Mutant: a failure inside the Wrap does not carry the ack_key.
OpenWrap_NoAck(e, w, ixs, answers, ack) ==
  LET keys == {k \in ixs : KID(k.suite, k.pub) = w.ikid}
  IN  IF ~decodeWrap(w) THEN Fails("bad-wrap", None)
      ELSE IF w.ikid # None /\ keys = {} THEN Fails("sealed-to-closed-interaction", None)
      ELSE OpenInner(e, w, IF w.ikid = None THEN w.body ELSE w.body.pt,
                     IF w.ikid = None THEN None ELSE CHOOSE k \in keys : TRUE, ack)

\* The second layer under an interaction key this node holds; answers is whether its store answers.
OpenWrap(e, w, ixs, answers, ack) ==
  LET keys == {k \in ixs : KID(k.suite, k.pub) = w.ikid}
      key  == CHOOSE k \in keys : TRUE
  IN  IF ~decodeWrap(w) THEN Fails("bad-wrap", ack)
      ELSE IF w.ikid = None THEN OpenInner(e, w, w.body, None, ack)
      ELSE IF ~answers THEN Fails("lookup-error", ack)
      ELSE IF keys = {} THEN Fails("sealed-to-closed-interaction", ack)
      ELSE IF ~HPKEOpens(w.body, w.enc2, key.pub, IXInfo(e.to, key.suite, w.ikid))
      THEN Fails("decrypt-failed", ack)
      ELSE OpenInner(e, w, w.body.pt, key, ack)

Open(e, self, held, ixs, answers) ==
  LET keys == {k \in held : k.suite = e.suite /\ k.kid = e.kid}
      key  == CHOOSE k \in keys : TRUE
      info == HPKEInfo(e.to, e.suite, e.kid)
  IN  IF ParseOuter(e) # "ok" THEN Fails(ParseOuter(e), None)
      ELSE IF e.to # self THEN Fails("wrong-recipient", None)
      ELSE IF keys = {} THEN Fails("sealed-to-unknown-key", None)
      ELSE IF ~HPKEOpens(e.ct, e.enc, key.pub, info) THEN Fails("decrypt-failed", None)
      ELSE OpenWrap(e, e.ct.pt, ixs, answers, Export(e.enc, key.pub, info))

\* The reasons of an Error; those of receive steps 5 to 7 are Receive's.
Reasons ==
  { "bad-outer", "bad-version", "unknown-suite", "wrong-recipient", "access-invalid", "sealed-to-unknown-key",
    "decrypt-failed", "bad-inner", "unknown-critical-field", "to-mismatch", "exp-mismatch", "kel-too-large",
    "bad-kel", "from-mismatch", "expired", "from-future", "bad-lifetime", "bad-sig", "bad-key-state",
    "revoked-key", "rotation-grace-expired", "aid-mismatch", "bad-keyset", "no-usable-key", "invalid-input",
    "internal", "bad-wrap", "bad-rk", "sealed-to-closed-interaction", "ikey-mismatch", "witness-missing",
    "witness-stale", "witness-mismatch", "witness-invalid", "witness-unknown", "kel-from-future" }

\* IsPermanent: what the caller's store answers is no Error at all.
Permanent(reason) == reason \in Reasons \ {"internal", "witness-unknown"}

-----------------------------------------------------------------------------
(* Delivery tokens: what the two ends derive from an ack_key. *)

token(k, o) == <<"anet-dack-tok/v1", k, o>>

noteKey(k) == <<"anet-dack-note/v1", k>>

\* A note has a reason, None for the empty one or Bad for one that is no code, and a retry_after.
EmptyNote == [reason |-> None, retryAfter |-> 0]

CapRetry(s) == IF s > MaxRetryAfter THEN MaxRetryAfter ELSE s

encodeNotePT(n) == [n EXCEPT !.retryAfter = CapRetry(@)]

validNoteReason(reason) == reason # Bad

MakeDAckAccepts(k, o, n) ==
  /\ o \in {Processed, Refused}
  /\ validNoteReason(n.reason)
  /\ o = Processed => n = EmptyNote
  /\ k # None

\* Mutant: the token does not say which outcome it stands for.
MakeDAck_OneToken(k, o, n) ==
  [tok |-> token(k, Processed), note |-> [key |-> noteKey(k), aad |-> token(k, Processed), pt |-> encodeNotePT(n)]]

MakeDAck(k, o, n) ==
  [tok |-> token(k, o), note |-> [key |-> noteKey(k), aad |-> token(k, o), pt |-> encodeNotePT(n)]]

\* The note of a dack, None when it does not open or read.
openNote(k, o, note) ==
  IF note # Bad /\ note.key = noteKey(k) /\ note.aad = token(k, o) /\ validNoteReason(note.pt.reason)
  THEN encodeNotePT(note.pt) ELSE None

\* The first of the keys that dack is a token of: its index, the outcome and the note; index 0
\* when there is none.  An absent key is the zero key.
VerifyDAck(keys, dack) ==
  LET hits  == {h \in (1..Len(keys)) \X {Processed, Refused} :
                  keys[h[1]] # None /\ dack.tok = token(keys[h[1]], h[2])}
      found == {[idx |-> h[1], outcome |-> h[2], note |-> openNote(keys[h[1]], h[2], dack.note)] : h \in hits}
  IN  IF found = {} THEN [idx |-> 0, outcome |-> 0, note |-> None]
      ELSE CHOOSE f \in found : \A g \in found : f.idx < g.idx \/ (f.idx = g.idx /\ f.outcome <= g.outcome)

-----------------------------------------------------------------------------
(* Capabilities.  strict: the bytes are the canonical encoding of exactly the keys of a CapBody. *)

PublicOf(seed) == <<"pub", seed>>

decodeCapBody(b) == b.strict /\ b.holder # SmallOrder

checkIssue(b) ==
  /\ b.t = CapType /\ b.owner \notin {"", Nul} /\ b.epoch # 0
  /\ b.class \in Classes /\ b.exp # 0
  /\ b.holder # SmallOrder

\* key is the issuer's mailbox key.
SignCap(key, b) == [body |-> b, sig |-> <<key, b>>]

accessInput(id, digest) == <<"anet-access/v2", id, digest>>

SignAccess(seed, id, digest) == <<PublicOf(seed), accessInput(id, digest)>>

capExpInWindow(exp, t) ==
  /\ IF t > CapExpGrace THEN t - CapExpGrace <= exp ELSE TRUE
  /\ exp <= t + CapExpMaxAhead

\* Mutant: the mailbox epoch is not compared.
VerifyAccess_AnyEpoch(a, digest, mbox, owner, t) ==
  IF ~Verifies(a.cap.sig, mbox.pub, a.cap.body) THEN "sig"
  ELSE IF ~capExpInWindow(a.cap.body.exp, t) THEN "exp"
  ELSE IF ~Verifies(a.proof, a.cap.body.holder, accessInput(a.cap.body.id, digest)) THEN "proof" ELSE "ok"

\* The step that fails, or "ok".
VerifyAccess(a, digest, mbox, owner, t) ==
  IF ~decodeAccess(a) \/ a.kind # 1 THEN "parse"
  ELSE LET b == a.cap.body
       IN  IF ~decodeCapBody(b) \/ b.class \notin Classes THEN "decode"
           ELSE IF b.t # CapType THEN "type"
           ELSE IF owner = "" \/ b.owner # owner THEN "owner"
           ELSE IF mbox.epoch = 0 \/ b.epoch # mbox.epoch THEN "epoch"
           ELSE IF mbox.pub \in {Bad, SmallOrder} \/ ~Verifies(a.cap.sig, mbox.pub, b) THEN "sig"
           ELSE IF ~capExpInWindow(b.exp, t) THEN "exp"
           ELSE IF ~Verifies(a.proof, b.holder, accessInput(b.id, digest)) THEN "proof" ELSE "ok"

-----------------------------------------------------------------------------
(* Grants. *)

decodeGrant(g) ==
  /\ Present(g) /\ Present(g.cap) /\ g.cap.sig # Bad
  /\ Present(g.seed) /\ Present(g.home)
  /\ g.ix # Bad /\ g.p2p # Bad /\ g.pay # Bad

grantPlacement(g) ==
  IF g.p2p # None /\ (g.cap.body.class # 1 \/ g.ix # None) THEN "p2p"
  ELSE IF g.pay # None /\ g.ix # None THEN "pay" ELSE "ok"

\* Mutant: where p2p and pay may appear is not looked at.
MarshalGrantAccepts_AnyPlacement(g) ==
  /\ decodeGrant(g) /\ decodeCapBody(g.cap.body) /\ checkIssue(g.cap.body)
  /\ PublicOf(g.seed) = g.cap.body.holder

\* Grant.Marshal, on the issuer's side.
MarshalGrantAccepts(g) ==
  /\ decodeGrant(g) /\ decodeCapBody(g.cap.body) /\ checkIssue(g.cap.body)
  /\ PublicOf(g.seed) = g.cap.body.holder
  /\ grantPlacement(g) = "ok"

\* Mutant: the seed is not compared with the capability's holder.
CheckGrant_AnySeed(in, keys, t) ==
  LET b == in.grant.cap.body
  IN  IF b.owner # in.from THEN "owner" ELSE IF b.epoch # keys.mbox.epoch THEN "epoch"
      ELSE IF ~Verifies(in.grant.cap.sig, keys.mbox.pub, b) THEN "sig" ELSE "ok"

\* The step that fails, or "ok": in is a verified message, keys the key set verified with it.
CheckGrant(in, keys, t) ==
  LET g == in.grant
      b == g.cap.body
  IN  IF ~decodeGrant(g) THEN "decode"
      ELSE IF ~decodeCapBody(b) THEN "body"
      ELSE IF b.t # CapType THEN "type"
      ELSE IF b.owner # in.from THEN "owner"
      ELSE IF keys = None \/ keys.aid # in.from THEN "keys"
      ELSE IF keys.mbox.epoch = 0 \/ b.epoch # keys.mbox.epoch THEN "epoch"
      ELSE IF keys.mbox.pub \in {Bad, SmallOrder} \/ ~Verifies(g.cap.sig, keys.mbox.pub, b) THEN "sig"
      ELSE IF PublicOf(g.seed) # b.holder THEN "holder"
      ELSE IF b.class \notin Classes THEN "class"
      ELSE IF ~capExpInWindow(b.exp, t) THEN "exp"
      ELSE IF g.ix # None /\ g.ix # in.ix THEN "ix" ELSE grantPlacement(g)
=============================================================================
