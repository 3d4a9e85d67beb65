------------------------------- MODULE Payment -------------------------------
(***************************************************************************)
(* Payments on the anet-credit rail: payment/payment.go.  A payer signs    *)
(* authorizations, the hub that holds its balance settles them and signs a *)
(* receipt, and the payee's hub credits the payee on that receipt.  Every  *)
(* step is retried: an authorization is presented again, signed again      *)
(* after the payer replaced its key, or replaced by one with another       *)
(* nonce, and answers are lost.                                            *)
(*                                                                         *)
(* The hubs are outside src/; what they check and in which terms they      *)
(* refuse is modelled from the reasons payment.go names.  An int64 is an   *)
(* integer of WordMin..WordMax, as small a word as the boundary needs.     *)
(***************************************************************************)
EXTENDS Evidence, FiniteSets

CONSTANTS
  WordMax,        \* math.MaxInt64
  ClockSkew,
  MaxAuthWindow,
  AuthTerms,          \* what authorizations say, [payTo, amount, network, nonce, issuedAt, notAfter, ix]
  Requirements,   \* what payees ask for, [scheme, network, amount, payTo]
  Balance,        \* the payer's balance at the start
  MaxRotated, MaxSigned   \* bounds of the model

VARIABLES
  wallet,     \* the payer's controller
  bank,       \* the controller of the hub that holds the balance
  at,         \* the time, an int64
  auths,      \* signed authorizations, on the network
  balance,
  ledger,     \* hub: settlements, [id, guard, receipt]
  moved,      \* history: the debits, in order, [payer, nonce, ix, amount]
  receipts,   \* receipts on their way to the payee's hub
  credits     \* payee's hub: what it credited, in order

vars == <<wallet, bank, at, auths, balance, ledger, moved, receipts, credits>>

Holder(name) ==
  LET c == inceptWith(<<name, 0>>, <<name, 1>>, 1, ToadAgent)
  IN  Adopt(BuildWitnessDesignation(c, "w", NextDigest(name, 2), 2), None)

HolderAID(name) == AIDOf(inceptWith(<<name, 0>>, <<name, 1>>, 1, ToadAgent).kel)

Payer == HolderAID("payer")
Bank  == HolderAID("bank")

CreditNetwork(aid) == <<"hub", aid>>

\* The network of the hub with this name.
NetworkOf(name) == CreditNetwork(HolderAID(name))

Rerolled(c, name) ==
  BuildRotation(c, RecoverySeed(name, Len(c.kel)), NextDigest(name, Len(c.kel) + 1), "w", FALSE, at)

RerollAccepts(c, name) ==
  /\ Len(c.kel) < MaxRotated + 2
  /\ BuildRotationAccepts(c, RecoverySeed(name, Len(c.kel)), NextDigest(name, Len(c.kel) + 1), "w", FALSE, at)

-----------------------------------------------------------------------------
(* Authorizations. *)

\* The unsigned difference of two int64 values.
Minus(x, y) == (x - y) % (2 * (WordMax + 1))

\* Mutant: the skew is added to the signer's time, as an int64.
pastWithSkew_Adds(now, t) ==
  now > ((t + ClockSkew + WordMax + 1) % (2 * (WordMax + 1))) - WordMax - 1

pastWithSkew(now, t) == now > t /\ Minus(now, t) > ClockSkew

beforeWithSkew(now, t) == now < t /\ Minus(t, now) > ClockSkew

Authorization(t) ==
  [ payer |-> Payer, payTo |-> t.payTo, amount |-> t.amount, network |-> NetworkOf(t.network), nonce |-> t.nonce,
    issuedAt |-> t.issuedAt, notAfter |-> t.notAfter, ix |-> t.ix ]

\* Mutant: the id covers the signature too.
ID_Signed(w) == CID(w)

\* The content id of the terms; the detached envelope is no part of it.
ID(w) == CID(w.body)

VerifyAuthorization(w, kel, now) ==
  IF ~envelopeOf(w.env) THEN "unsigned"
  ELSE IF w.env.aid # w.body.payer THEN "wrong-payer"
  ELSE IF w.body.issuedAt <= 0 \/ w.body.notAfter <= w.body.issuedAt THEN "bad-window"
  ELSE IF beforeWithSkew(now, w.body.issuedAt) \/ pastWithSkew(now, w.body.notAfter) THEN "expired"
  ELSE IF ~VerifyBody(kel, w.env, now, w.body) THEN "signature" ELSE "ok"

\* An amount travels in decimal; ParseAmount takes one spelling of a number an int64 holds.
ParseAmountAccepts(s) == s.canonical /\ s.n <= WordMax

-----------------------------------------------------------------------------
(* Settlement receipts. *)

Receipt(w, now) ==
  [ authID |-> ID(w), payer |-> w.body.payer, payTo |-> w.body.payTo, amount |-> w.body.amount,
    network |-> w.body.network, settleAt |-> now ]

VerifyReceiptOf(r, kel, signer, now) ==
  /\ envelopeOf(r.env)
  /\ r.env.aid = signer
  /\ VerifyBody(kel, r.env, now, r.body)

-----------------------------------------------------------------------------
(* The hub's settlement, by the reasons payment.go names. *)

Terminal(w, req, now) ==
  IF req.scheme # "anet-credit" THEN "unsupported_scheme"
  ELSE IF ~ParseAmountAccepts(req.amount) THEN "invalid_amount"
  ELSE IF w.body.network # CreditNetwork(Bank) \/ NetworkOf(req.network) # w.body.network THEN "network_mismatch"
  ELSE IF w.body.payTo # req.payTo THEN "payee_mismatch"
  ELSE IF w.body.amount < req.amount.n THEN "invalid_amount"
  ELSE IF w.body.notAfter - w.body.issuedAt > MaxAuthWindow THEN "auth_window_too_long"
  ELSE LET v == VerifyAuthorization(w, wallet.kel, now)
       IN  IF v \in {"expired", "bad-window"} THEN "expired_payment" ELSE IF v # "ok" THEN "invalid_signature" ELSE "ok"

\* A task that names no interaction has no guard.
Guard(w) == IF w.body.ix = None THEN None ELSE SettleGuard(w.body.payer, w.body.ix)

Verdict(w, req, now) ==
  IF \E s \in ledger : s.id = ID(w) THEN "replayed"
  ELSE IF Terminal(w, req, now) # "ok" THEN Terminal(w, req, now)
  ELSE IF \E s \in ledger : s.guard # None /\ s.guard = Guard(w) THEN "duplicate_binding"
  ELSE IF w.body.amount > balance THEN "insufficient_funds" ELSE "ok"

-----------------------------------------------------------------------------
(* The steps. *)

Init ==
  /\ wallet = Holder("payer") /\ bank = Holder("bank")
  /\ at = 3
  /\ auths = {} /\ balance = Balance /\ ledger = {} /\ moved = <<>>
  /\ receipts = {} /\ credits = <<>>

Tick ==
  /\ at < WordMax
  /\ at' = at + 1
  /\ UNCHANGED <<wallet, bank, auths, balance, ledger, moved, receipts, credits>>

\* A new authorization, or the one of before with the key of now.
Sign(t) ==
  /\ Cardinality(auths) < MaxSigned
  /\ auths' = auths \cup {Signed(wallet, Authorization(t))}
  /\ UNCHANGED <<wallet, bank, at, balance, ledger, moved, receipts, credits>>

RotatePayer ==
  /\ RerollAccepts(wallet, "payer")
  /\ wallet' = Adopt(Rerolled(wallet, "payer"), None)
  /\ UNCHANGED <<bank, at, auths, balance, ledger, moved, receipts, credits>>

RotateBank ==
  /\ ledger # {}
  /\ RerollAccepts(bank, "bank")
  /\ bank' = Adopt(Rerolled(bank, "bank"), None)
  /\ UNCHANGED <<wallet, at, auths, balance, ledger, moved, receipts, credits>>

Settle(w, req) ==
  /\ Verdict(w, req, at) = "ok"
  /\ LET receipt == Signed(bank, Receipt(w, at))
     IN  /\ ledger' = ledger \cup {[id |-> ID(w), guard |-> Guard(w), receipt |-> receipt]}
         /\ receipts' \in {receipts, receipts \cup {receipt}}
  /\ balance' = balance - w.body.amount
  /\ moved' = Append(moved, [payer |-> w.body.payer, nonce |-> w.body.nonce, ix |-> w.body.ix, amount |-> w.body.amount])
  /\ UNCHANGED <<wallet, bank, at, auths, credits>>

\* A repeat is answered with the original receipt.
Replay(w, req) ==
  /\ Verdict(w, req, at) = "replayed"
  /\ receipts' = receipts \cup {s.receipt : s \in {x \in ledger : x.id = ID(w)}}
  /\ receipts' # receipts
  /\ UNCHANGED <<wallet, bank, at, auths, balance, ledger, moved, credits>>

\* The payee's hub: the receipt is judged at its own settle_at, and credited once.
Credit(r) ==
  /\ VerifyReceiptOf(r, bank.kel, Bank, r.body.settleAt)
  /\ r.body.network = CreditNetwork(Bank)
  /\ ~ \E i \in 1..Len(credits) : credits[i].authID = r.body.authID
  /\ credits' = Append(credits, r.body)
  /\ UNCHANGED <<wallet, bank, at, auths, balance, ledger, moved, receipts>>

Next ==
  \/ Tick \/ RotatePayer \/ RotateBank
  \/ \E t \in AuthTerms : Sign(t)
  \/ \E w \in auths, req \in Requirements : Settle(w, req) \/ Replay(w, req)
  \/ \E r \in receipts : Credit(r)

-----------------------------------------------------------------------------
(* Properties. *)

\* The payer pays once: no two debits are for one nonce, nor for one interaction, whichever
\* keys signed, however often the authorization came and whichever answers were lost.  The
\* payee's hub credits each debit once and nothing else; and no debit is stranded, its receipt
\* verifies at its settle_at though the bank replaced its key, unless in that very millisecond.
PaidOnce ==
  /\ \A i, j \in 1..Len(moved) :
       i # j => moved[i].nonce # moved[j].nonce /\ (moved[i].ix # None => moved[i].ix # moved[j].ix)
  /\ \A i \in 1..Len(credits) :
       /\ \A j \in 1..Len(credits) : i # j => credits[i].authID # credits[j].authID
       /\ \E s \in ledger : s.id = credits[i].authID /\ s.receipt.body = credits[i]
  /\ Cardinality(ledger) = Len(moved)
  /\ \A s \in ledger :
       \/ VerifyReceiptOf(s.receipt, bank.kel, Bank, s.receipt.body.settleAt)
       \/ \E i \in 1..Len(bank.kel) : bank.kel[i].event.ts = s.receipt.body.settleAt

\* The validity window is what the payer signed and ClockSkew on both ends, as integers, up to
\* the largest time: with the payer's current key the authorization verifies at exactly these
\* moments, however the int64 arithmetic wraps, and with a replaced key never again.
WindowHolds ==
  \A w \in auths, now \in at..WordMax :
    VerifyAuthorization(w, wallet.kel, now) = "ok" <=>
      /\ w.env.seq + 1 = Len(wallet.kel)
      /\ 0 < w.body.issuedAt /\ w.body.issuedAt < w.body.notAfter
      /\ w.body.issuedAt - ClockSkew <= now /\ now <= w.body.notAfter + ClockSkew
=============================================================================
