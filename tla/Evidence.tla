------------------------------ MODULE Evidence ------------------------------
(***************************************************************************)
(* The objects of a task: evidence/ (receipts, reviews, attestations and   *)
(* the commitments in them) and delegation/ (the task binding, requests    *)
(* and results), with the checks each side makes.                          *)
(*                                                                         *)
(* An object is the record of its fields, which is what the strict         *)
(* decoders leave: one object has one byte form.  None is an absent field  *)
(* or an empty text, Bad a value of another size or encoding.  A hash is a *)
(* tuple of its inputs, a signature <<key, bytes>>.                        *)
(***************************************************************************)
EXTENDS Controller

CONSTANTS
  Bad,
  Nul,       \* a text that contains U+0000
  DayMS,     \* length of a day, at least 1
  MaxDay     \* the last day DayStart has a time for

ReceiptType   == "anet.receipt/2"
ReviewType    == "anet.review/2"
ReviewAttType == "anet.review-att/1"
Ratings       == 1..5
StatusDone    == "done"
StatusFailed  == "failed"

textField(v) == v \notin {None, Nul}

sizedField(b) == b \notin {None, Bad}

Day(ms) == ms \div DayMS

\* Mutant: an object is judged at the end of its day.
DayStart_End(day) == day * DayMS + DayMS - 1

DayStart(day) == day * DayMS

-----------------------------------------------------------------------------
(* Signed bodies: {1: body, 2: aobj.Envelope}. *)

PublicKey(sk) == <<"ed25519", sk>>

\* identity.Signer of the controller c.
Signed(c, body) ==
  [ body |-> body,
    env  |-> [aid |-> AIDOf(c.kel), seq |-> signingLocked(c).seq, sig |-> <<signingLocked(c).key, body>>, ref |-> None] ]

envelopeOf(env) == env \notin {None, Bad} /\ textField(env.aid) /\ env.ref = None

\* identity.VerifyObject of the bytes body.
VerifyBody(kel, env, at, body) ==
  VerifyObject(kel, env.aid, env.seq, at, IF env.sig[2] = body THEN env.sig[1] ELSE None) = "ok"

-----------------------------------------------------------------------------
(* Commitments: evidence/commit.go. *)

commitText(v) == v \notin {None, Nul}

IXCommit(ix, nonce) == IF commitText(ix) /\ commitText(nonce) THEN <<"anet-receipt-ix/v2", ix, nonce>> ELSE Bad

RequesterCommit(aid, rsalt) ==
  IF commitText(aid) /\ sizedField(rsalt) THEN <<"anet-receipt-requester/v2", aid, rsalt>> ELSE Bad

ReviewTag(tagKey, reviewer, subject) == <<"anet-review-tag/v1", tagKey, reviewer, subject>>

SettleGuard(payer, payBind) ==
  IF commitText(payer) /\ commitText(payBind) THEN <<"anet-settle-guard/v1", payer, payBind>> ELSE Bad

-----------------------------------------------------------------------------
(* Receipts. *)

checkReceipt(b) ==
  /\ b.type = ReceiptType
  /\ sizedField(b.ixc) /\ sizedField(b.rqc) /\ sizedField(b.rk)
  /\ textField(b.provider) /\ textField(b.request) /\ textField(b.result)

SignReceiptAccepts(b, c) == b.provider = AIDOf(c.kel) /\ checkReceipt(b)

UnmarshalReceiptWire(w) == w # Bad /\ w.body # Bad /\ checkReceipt(w.body) /\ envelopeOf(w.env)

VerifyReceipt(w, kel, at) ==
  /\ UnmarshalReceiptWire(w)
  /\ w.env.aid = w.body.provider
  /\ VerifyBody(kel, w.env, at, w.body)

-----------------------------------------------------------------------------
(* Reviews and the hub's attestations of them. *)

checkReview(b) ==
  /\ b.type = ReviewType
  /\ textField(b.receipt) /\ textField(b.subject)
  /\ b.rating \in Ratings
  /\ b.comment # "long"

SignReview(sk, b) == [body |-> b, pub |-> PublicKey(sk), sig |-> <<PublicKey(sk), b>>]

VerifyReview(w, rk) == sizedField(rk) /\ checkReview(w.body) /\ w.pub = rk /\ w.sig = <<w.pub, w.body>>

checkReviewAtt(b) ==
  /\ b.type = ReviewAttType
  /\ textField(b.review) /\ textField(b.receipt) /\ textField(b.subject)
  /\ sizedField(b.tag) /\ textField(b.hub)

SignReviewAttAccepts(b, c) == b.hub = AIDOf(c.kel) /\ checkReviewAtt(b)

VerifyReviewAtt(w, kel, at) ==
  /\ checkReviewAtt(w.body) /\ envelopeOf(w.env)
  /\ w.env.aid = w.body.hub
  /\ VerifyBody(kel, w.env, at, w.body)

\* Mutant: the review may be of another receipt.
CheckV2_AnyReceipt(receipt, review, kel) ==
  /\ UnmarshalReceiptWire(receipt)
  /\ receipt.body.day <= MaxDay
  /\ VerifyReceipt(receipt, kel, DayStart(receipt.body.day))
  /\ VerifyReview(review, receipt.body.rk)
  /\ review.body.subject = receipt.body.provider

CheckV2(receipt, review, kel) ==
  /\ UnmarshalReceiptWire(receipt)
  /\ receipt.body.day <= MaxDay
  /\ VerifyReceipt(receipt, kel, DayStart(receipt.body.day))
  /\ VerifyReview(review, receipt.body.rk)
  /\ review.body.receipt = CID(receipt.body)
  /\ review.body.subject = receipt.body.provider

-----------------------------------------------------------------------------
(* The task binding: three contexts of the first task. *)

BindingKeys == {"anet.nonce", "anet.requester_commit", "anet.review_key"}

Context(key, value) == [key |-> key, value |-> value, format |-> "text", visibility |-> "private", src |-> None]

ContextsAccepts(b) == commitText(b.nonce) /\ sizedField(b.rqc) /\ sizedField(b.rk)

Contexts(b) ==
  << Context("anet.nonce", b.nonce), Context("anet.requester_commit", b.rqc), Context("anet.review_key", b.rk) >>

ContextValue(td, key) == (CHOOSE c \in {td.contexts[i] : i \in DOMAIN td.contexts} : c.key = key).value

ReadTaskBindingAccepts(td) ==
  /\ \A k \in BindingKeys :
       \E i \in DOMAIN td.contexts :
         /\ td.contexts[i].key = k
         /\ td.contexts[i].visibility = "private"
         /\ td.contexts[i].format \in {None, "text"}
         /\ td.contexts[i].src = None
         /\ \A j \in DOMAIN td.contexts : td.contexts[j].key = k => j = i
  /\ commitText(ContextValue(td, "anet.nonce"))
  /\ sizedField(ContextValue(td, "anet.requester_commit"))
  /\ sizedField(ContextValue(td, "anet.review_key"))

ReadTaskBinding(td) ==
  [ nonce |-> ContextValue(td, "anet.nonce"), rqc |-> ContextValue(td, "anet.requester_commit"),
    rk |-> ContextValue(td, "anet.review_key") ]

-----------------------------------------------------------------------------
(* Requests and results: delegation/delegation.go.  A TaskDoc is its contexts and the rest. *)

decodeTaskDoc(td) == td \notin {None, Bad} /\ td.tasks > 0

UnmarshalDelegateReq(r) == r # Bad /\ r.env # None /\ r.ix # None /\ decodeTaskDoc(r.doc)

\* The verified signer is the requester.
VerifyDelegateReqWithKEL(r, kel, at) ==
  /\ r.env # None /\ r.ix # None /\ decodeTaskDoc(r.doc)
  /\ kel # <<>>
  /\ VerifyBody(kel, r.env, at, r.doc)

ValidateReply(r) == r.kind = "text" /\ r.mid # None /\ r.body # Bad

UnmarshalResultResp(r) ==
  /\ r # Bad
  /\ r.status \in {StatusDone, StatusFailed}
  /\ r.reply # None => r.status = StatusDone /\ ValidateReply(r.reply)

\* Mutant: the interaction is not looked at.
ReceiptIsFor_AnyInteraction(rc, binding, want, deliverable) ==
  IF rc.provider # want.provider \/ rc.rqc # binding.rqc \/ rc.rk # binding.rk THEN "receipt-mismatch"
  ELSE IF rc.request # CID(want.doc) THEN "request-mismatch"
  ELSE IF rc.result # CID(deliverable) THEN "receipt-mismatch" ELSE "ok"

\* What the receipt has to say for the request want, [ix, provider, doc, day].
ReceiptIsFor(rc, binding, want, deliverable) ==
  IF \/ rc.provider # want.provider
     \/ rc.ixc # IXCommit(want.ix, binding.nonce) \/ rc.rqc # binding.rqc \/ rc.rk # binding.rk
  THEN "receipt-mismatch"
  ELSE IF rc.request # CID(want.doc) THEN "request-mismatch"
  ELSE IF rc.result # CID(deliverable) THEN "receipt-mismatch" ELSE "ok"

\* Mutant: the provider's day may not be ahead of the requester's.
DayFits_NoSkew(day, delegated, today) == day + 1 >= delegated /\ day <= today

DayFits(day, delegated, today) == day + 1 >= delegated /\ day <= today + 1

VerifyResultForRequest(r, kel, want, today, at) ==
  IF r.receipt = None \/ want.ix = None \/ want.provider = None \/ want.doc = None THEN "no-receipt"
  ELSE IF kel = <<>> THEN "unverifiable"
  ELSE IF ~VerifyReceipt(r.receipt, kel, at) THEN "signature"
  ELSE IF ~ReadTaskBindingAccepts(want.doc) THEN "no-binding"
  ELSE LET verdict == ReceiptIsFor(r.receipt.body, ReadTaskBinding(want.doc), want, r.deliverable)
       IN  IF verdict # "ok" THEN verdict
           ELSE IF ~DayFits(r.receipt.body.day, want.day, today) THEN "receipt-mismatch" ELSE "ok"
=============================================================================
