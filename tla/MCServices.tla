----------------------------- MODULE MCServices -----------------------------
(***************************************************************************)
(* The components a daemon and a hub run beside the identity and mail      *)
(* core: grants (Admission), sessions (Session), tasks (Task), payments    *)
(* (Payment), supply epochs (Liability) and the pad of a Wrap (Padding).   *)
(* They have no variable in common and each property speaks of one of      *)
(* them, so what is reachable of a component does not depend on the        *)
(* others: a behaviour takes the steps of one, part says of which, and the *)
(* others rest.  Parts are the components a run checks.  Session is        *)
(* extended, the others are instances.                                     *)
(***************************************************************************)
EXTENDS Session

CONSTANTS
  None, Nul, SmallOrder,
  Parts,   \* bound: the components that take steps
  \* Admission
  MaxMessageLifetime, CapExpGrace, CapExpMaxAhead, MaxRetryAfter,
  GrantTerms, Envelopes, MaxEpoch, MaxTime, MaxGrants, MaxAttempts,
  \* Task
  EventClockWindow, DayMS, MaxDay, MaxSkew, Deliverables, Leads, Shifts, MaxNow, MaxRotations, MaxAsks, MaxResults,
  \* Payment
  WordMax, ClockSkew, MaxAuthWindow, AuthTerms, Requirements, Balance, MaxRotated, MaxSigned,
  \* Liability
  Accounts, MinDepth, MaxDepth, MaxSum, Amounts, MaxPayments, MaxEpochs, MaxAudits,
  Holders, ClaimedSums, MaxLies,
  \* Padding
  Bases

VARIABLES
  part,
  time, box, hubBox, issued, letters, kept, proven, attempts, admitted,
  now, skew, prov, rival, hubc, asks, jobs, done, results, accepted, stored,
  wallet, bank, at, auths, balance, ledger, moved, receipts, credits,
  honest, owed, payments, epochs, tree, verdicts,
  base, target, pad

Grants   == INSTANCE Admission
Tasks    == INSTANCE Task
Payments == INSTANCE Payment
Epochs   == INSTANCE Liability
Pads     == INSTANCE Padding

\* The envelopes of Admission are b's, complete but for an access.
ASSUME EnvelopesAssumption ==
  \A e \in Envelopes :
    /\ e = [ v |-> e.v, to |-> "b", suite |-> e.suite, kid |-> e.kid, enc |-> e.enc, ct |-> e.ct,
             access |-> None, exp |-> e.exp, others |-> e.others ]
    /\ Grants!ParseOuter(Grants!WithAccess(e, [kind |-> 0, cap |-> None, proof |-> None])) = "ok"

\* A nonce is made for one authorization.
ASSUME NoncesAssumption == \A s, t \in AuthTerms : s.nonce = t.nonce => s = t

\* Times are int64 values.
ASSUME WordsAssumption ==
  /\ WordMax \in Nat /\ ClockSkew \in Nat
  /\ \A t \in AuthTerms : t.issuedAt \in -WordMax - 1 .. WordMax /\ t.notAfter \in -WordMax - 1 .. WordMax

\* Clocks differ by at most a day, and every day they show has a time.
ASSUME DaysAssumption ==
  /\ DayMS \in Nat \ {0} /\ MaxSkew \in 0..DayMS
  /\ MaxNow \in Nat /\ 3 * DayMS - 1 <= MaxNow
  /\ MaxDay \in Nat /\ (MaxNow + MaxSkew) \div DayMS < MaxDay
  /\ Leads \subseteq Int /\ Shifts \subseteq Int

\* A word of twice the largest sum and one; the depths and the sums fit it, and an AID is no "".
ASSUME SumsAssumption ==
  /\ MinDepth \in Nat \ {0} /\ MaxDepth \in Nat /\ MinDepth <= MaxDepth
  /\ MaxSum \in Nat /\ WordMax = 2 * MaxSum + 1
  /\ Amounts \subseteq Nat /\ ClaimedSums \subseteq 0..WordMax
  /\ Epochs!NoAID \notin Accounts
  /\ Holders \subseteq Seq(Accounts) /\ MaxLies \in [MinDepth..MaxDepth -> Nat]

\* A Wrap is not empty and is shorter than half a gigabyte.
ASSUME BasesAssumption == Bases \subseteq 1..2 ^ 29 - 1

grantVars   == <<time, box, hubBox, issued, letters, kept, proven, attempts, admitted>>
taskVars    == <<now, skew, prov, rival, hubc, asks, jobs, done, results, accepted, stored>>
paymentVars == <<wallet, bank, at, auths, balance, ledger, moved, receipts, credits>>
epochVars   == <<honest, owed, payments, epochs, tree, verdicts>>
padVars     == <<base, target, pad>>

allVars == <<part, grantVars, vars, taskVars, paymentVars, epochVars, padVars>>

-----------------------------------------------------------------------------
(* The instance. *)

Term == [class |-> 1, seed |-> TRUE, owner |-> "b", ix |-> None, p2p |-> None, pay |-> None, exp |-> 2]

MCGrantTerms ==
  { Term, [Term EXCEPT !.class = 2, !.ix = "i1"], [Term EXCEPT !.p2p = "addr", !.pay = TRUE],
    [Term EXCEPT !.seed = FALSE], [Term EXCEPT !.class = 3], [Term EXCEPT !.class = 2, !.p2p = "addr"],
    [Term EXCEPT !.ix = "i1", !.pay = FALSE], [Term EXCEPT !.owner = "c"], [Term EXCEPT !.exp = 1],
    [Term EXCEPT !.exp = 9] }

MCEnvelopes ==
  { [ v |-> 2, to |-> "b", suite |-> 1, kid |-> "kid",
      enc |-> <<"enc", n>>, ct |-> <<"ct", n>>, access |-> None, exp |-> None, others |-> {} ] : n \in {1, 2} }

MCHubs    == {<<"h">>, <<"j">>}
MCTargets == {<<"t">>, <<"t", "NUL", "h">>}
MCHomes   == {<<>>, <<"j">>, <<"h", "NUL", "j">>}

Auth ==
  [ payTo |-> "payee", amount |-> 1, network |-> "bank", nonce |-> "n1",
    issuedAt |-> 3, notAfter |-> 5, ix |-> None ]

MCAuthTerms ==
  { Auth, [Auth EXCEPT !.nonce = "n2", !.ix = "i1"], [Auth EXCEPT !.nonce = "n3", !.ix = "i1"],
    [Auth EXCEPT !.nonce = "n4", !.issuedAt = 5, !.notAfter = 7], [Auth EXCEPT !.nonce = "n5", !.issuedAt = 0, !.network = "payer"],
    [Auth EXCEPT !.nonce = "n6", !.amount = 3] }

Req ==
  [ scheme |-> "anet-credit", network |-> "bank", amount |-> [canonical |-> TRUE, n |-> 1],
    payTo |-> "payee" ]

MCRequirements ==
  { Req, [Req EXCEPT !.amount.n = 9], [Req EXCEPT !.amount.canonical = FALSE], [Req EXCEPT !.payTo = "other"],
    [Req EXCEPT !.scheme = "exact"] }

\* r dates its rotation a millisecond back.
MCShifts == {-1}

MCHolders == {<<"a">>, <<"a", "b">>}

MCMaxLies == <<3, 2, 1>>

\* Short messages, and the lengths at which the head of the pad grows.
MCBases == 1..700 \cup 8160..8170 \cup 8440..8450 \cup 4259835..4259840

-----------------------------------------------------------------------------
\* The controllers are only there in the part that uses them.
NoTasks ==
  /\ now = 0 /\ skew = 0 /\ prov = None /\ rival = None /\ hubc = None
  /\ asks = {} /\ jobs = {} /\ done = {} /\ results = {} /\ accepted = {} /\ stored = {}

NoPayments ==
  /\ wallet = None /\ bank = None /\ at = 0 /\ auths = {} /\ balance = 0
  /\ ledger = {} /\ moved = <<>> /\ receipts = {} /\ credits = <<>>

ServicesInit ==
  /\ part \in Parts
  /\ Grants!Init /\ Init /\ Epochs!Init /\ Pads!Init
  /\ IF part = "tasks" THEN Tasks!Init ELSE NoTasks
  /\ IF part = "payments" THEN Payments!Init ELSE NoPayments
  /\ part = "epochs" \/ honest
  /\ part = "pads" \/ base = 1

ServicesNext ==
  \/ part = "grants" /\ Grants!Next /\ UNCHANGED <<part, vars, taskVars, paymentVars, epochVars, padVars>>
  \/ part = "sessions" /\ Next /\ UNCHANGED <<part, grantVars, taskVars, paymentVars, epochVars, padVars>>
  \/ part = "tasks" /\ Tasks!Next /\ UNCHANGED <<part, grantVars, vars, paymentVars, epochVars, padVars>>
  \/ part = "payments" /\ Payments!Next /\ UNCHANGED <<part, grantVars, vars, taskVars, epochVars, padVars>>
  \/ part = "epochs" /\ Epochs!Next /\ UNCHANGED <<part, grantVars, vars, taskVars, paymentVars, padVars>>
  \/ part = "pads" /\ Pads!Next /\ UNCHANGED <<part, grantVars, vars, taskVars, paymentVars, epochVars>>

ServicesSpec == ServicesInit /\ [][ServicesNext]_allVars

-----------------------------------------------------------------------------
(* The properties of the instances, stated in their modules; Session's are its own. *)

\* seal: what Grant.Marshal wrote, CheckGrant keeps, and a grant it kept delivers as long as its
\* epoch and expiry hold.
GrantsWork == Grants!MarshalledIsKept /\ Grants!GrantUsable

\* seal: raising the mailbox epoch revokes every capability of the epochs before.
RevocationHolds == Grants!RevocationHolds

\* evidence and delegation: a receipt is for one interaction, and a stored review is the
\* requester's, of this receipt.
EvidenceBelongs == Tasks!ResultBelongs /\ Tasks!ReviewMeant

\* evidence and delegation: a completed task's result is accepted.
ResultAccepted == Tasks!ResultAccepted

\* evidence: an accepted receipt can be reviewed at any later time.
ReceiptReviewable == Tasks!ReceiptReviewable

\* payment: one debit per nonce and interaction, one credit per debit.
PaidOnce == Payments!PaidOnce

\* payment: an authorization verifies within its window and never outside it.
WindowHolds == Payments!WindowHolds

\* liabtree and ael: every account of an honest hub finds its balance counted.
HonestProves == Epochs!HonestProves

\* liabtree: no made-up sums hide a balance that an audit found counted.
NothingHidden == Epochs!NothingHidden

\* seal: a padded Wrap has a Padme length, the shortest it can have.
PadIsExact == Pads!PadIsExact
=============================================================================
