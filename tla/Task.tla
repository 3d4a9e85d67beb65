-------------------------------- MODULE Task --------------------------------
(***************************************************************************)
(* A delegated task from request to review: requester q sends TaskDocs to  *)
(* the providers p and r, p completes what it accepted and signs receipts, *)
(* q checks the results that arrive, and the hub takes reviews and attests *)
(* them.  All three replace their keys at any time, and p's clock differs  *)
(* from the others'.  r signs whatever it likes, for the day it likes,     *)
(* under its KEL or a beginning of it, passes on what it has seen and      *)
(* answers under any interaction.                                          *)
(*                                                                         *)
(* The daemons' stores and the hub are outside src/; the envelope that     *)
(* carries a request or a result authenticates its sender, its time and    *)
(* the sender's KEL (Envelope, Receive).                                   *)
(***************************************************************************)
EXTENDS Evidence, FiniteSets

CONSTANTS
  MaxSkew,       \* what p's clock may differ from the others'
  Deliverables,
  Leads,         \* how many days from the day r may date a receipt
  Shifts,        \* how far from the time r may date the event that replaces its key
  MaxRotations,  \* bound on the keys p, r and the hub replace
  MaxNow, MaxAsks, MaxResults   \* bounds of the model

VARIABLES
  now, skew,
  prov,       \* p's controller
  rival,      \* r's controller
  hubc,       \* the hub's controller
  asks,       \* requests sent, [from, to, ix, doc, env, day]
  jobs,       \* p: requests it accepted
  done,       \* p: completions, [job, resp]
  results,    \* results on their way, [from, kel, ts, ix, resp]
  accepted,   \* q: completions it accepted, [ask, resp]
  stored      \* hub: reviews it stored, [uploader, receipt, review, att]

vars == <<now, skew, prov, rival, hubc, asks, jobs, done, results, accepted, stored>>

\* A controller that designated its witness; the keys of later rotations come from the seed name.
Controlled(name) ==
  LET c == inceptWith(<<name, 0>>, <<name, 1>>, 1, ToadAgent)
  IN  Adopt(BuildWitnessDesignation(c, "w", NextDigest(name, 2), 2), None)

qc == Controlled("q")
rc == Controlled("r")

Aid(name) == AIDOf(inceptWith(<<name, 0>>, <<name, 1>>, 1, ToadAgent).kel)

rotated(c, name, ts) ==
  Adopt(BuildRotation(c, RecoverySeed(name, Len(c.kel)), NextDigest(name, Len(c.kel) + 1), "w", FALSE, ts), None)

Rotates(c, name, ts) ==
  /\ Len(prov.kel) + Len(rival.kel) + Len(hubc.kel) < MaxRotations + 6
  /\ BuildRotationAccepts(c, RecoverySeed(name, Len(c.kel)), NextDigest(name, Len(c.kel) + 1), "w", FALSE, ts)

\* q's TaskDoc for a piece of work; the binding is fresh for a doc.
RSalt == "rsalt"
ReviewKey == "review_sk"

Doc ==
  [ tasks |-> 1,
    contexts |-> Contexts([nonce |-> "nonce", rqc |-> RequesterCommit(Aid("q"), RSalt), rk |-> PublicKey(ReviewKey)]) ]

\* r's TaskDocs: without a task, well-formed, with two review keys, with one that is no key.
ForeignDocs ==
  LET own == Contexts([nonce |-> "nonce", rqc |-> RequesterCommit(Aid("r"), RSalt), rk |-> PublicKey("other_sk")])
  IN  { [tasks |-> 0, contexts |-> own], [tasks |-> 1, contexts |-> own],
        [tasks |-> 1, contexts |-> <<Context("anet.review_key", Bad)>> \o own],
        [tasks |-> 1, contexts |-> [own EXCEPT ![3].value = Bad]] }

Ask(c, from, to, ix, doc, day) ==
  [from |-> from, to |-> to, ix |-> ix, doc |-> doc, env |-> Signed(c, doc).env, day |-> day]

Init ==
  /\ now = 3 * DayMS - 1 /\ skew \in {-MaxSkew, MaxSkew}
  /\ prov = Controlled("p") /\ rival = rc /\ hubc = Controlled("hub")
  /\ asks = {} /\ jobs = {} /\ done = {} /\ results = {} /\ accepted = {} /\ stored = {}

Tick ==
  /\ now < MaxNow
  /\ now' = now + 1
  /\ UNCHANGED <<skew, prov, rival, hubc, asks, jobs, done, results, accepted, stored>>

-----------------------------------------------------------------------------
(* Requests. *)

\* Interaction ids are fresh.
NewIx == <<"ix", Cardinality({a.ix : a \in asks}) + 1>>

\* q may send one TaskDoc again, under another interaction or to another provider.
Delegate(to) ==
  /\ Cardinality(asks) < MaxAsks
  /\ asks' = asks \cup {Ask(qc, "q", to, NewIx, Doc, Day(now))}
  /\ UNCHANGED <<now, skew, prov, rival, hubc, jobs, done, results, accepted, stored>>

\* r sends p a doc of its own, or passes on one it got from q.
Foreign(doc) ==
  /\ Cardinality(asks) < MaxAsks
  /\ asks' = asks \cup {Ask(rc, "r", "p", NewIx, doc, Day(now))}
  /\ UNCHANGED <<now, skew, prov, rival, hubc, jobs, done, results, accepted, stored>>

PassOn(a) ==
  /\ Cardinality(asks) < MaxAsks
  /\ a.from = "q" /\ a.to = "r"
  /\ asks' = asks \cup {[a EXCEPT !.from = "r", !.to = "p"]}
  /\ UNCHANGED <<now, skew, prov, rival, hubc, jobs, done, results, accepted, stored>>

\* The KEL that came with a request; r makes its own under its first key.
KelOf(name) == IF name = "q" THEN qc.kel ELSE rc.kel

\* Receive step 9 at p.
TakeTask(a) ==
  /\ a.to = "p"
  /\ UnmarshalDelegateReq(a)
  /\ VerifyDelegateReqWithKEL(a, KelOf(a.from), now)
  /\ ReadTaskBindingAccepts(a.doc)
  /\ jobs' = jobs \cup {a}
  /\ UNCHANGED <<now, skew, prov, rival, hubc, asks, done, results, accepted, stored>>

-----------------------------------------------------------------------------
(* Completion at p, by p's clock. *)

Clock == now + skew

ReceiptFor(ix, doc, provider, deliverable, day) ==
  LET b == ReadTaskBinding(doc)
  IN  [ type |-> ReceiptType, ixc |-> IXCommit(ix, b.nonce), rqc |-> b.rqc, rk |-> b.rk, provider |-> provider,
        request |-> CID(doc), result |-> CID(deliverable), day |-> day ]

Result(receipt, deliverable) ==
  [status |-> StatusDone, deliverable |-> deliverable, receipt |-> receipt, reply |-> None]

Complete(j, d) ==
  /\ ~ \E x \in done : x.job = j
  /\ LET body == ReceiptFor(j.ix, j.doc, Aid("p"), d, Day(Clock))
     IN  /\ SignReceiptAccepts(body, prov)
         /\ done' = done \cup {[job |-> j, resp |-> Result(Signed(prov, body), d)]}
  /\ UNCHANGED <<now, skew, prov, rival, hubc, asks, jobs, results, accepted, stored>>

\* Each sending has the time and the KEL of its own.
SendResult(x) ==
  /\ Cardinality(results) < MaxResults
  /\ results' = results \cup {[from |-> "p", kel |-> prov.kel, ts |-> Clock, ix |-> x.job.ix, resp |-> x.resp]}
  /\ results' # results
  /\ UNCHANGED <<now, skew, prov, rival, hubc, asks, jobs, done, accepted, stored>>

Rotate ==
  /\ Rotates(prov, "p", Clock)
  /\ prov' = rotated(prov, "p", Clock)
  /\ UNCHANGED <<now, skew, rival, hubc, asks, jobs, done, results, accepted, stored>>

RotateHub ==
  /\ stored # {}
  /\ Rotates(hubc, "hub", now)
  /\ hubc' = rotated(hubc, "hub", now)
  /\ UNCHANGED <<now, skew, prov, rival, asks, jobs, done, results, accepted, stored>>

-----------------------------------------------------------------------------
(* What r signs. *)

\* r signs with the key of its n-th event; the key of the icp was given up for the witness.
SignedByEvent(n, body) ==
  [body |-> body, env |-> [aid |-> Aid("r"), seq |-> n - 1, sig |-> <<rival.kel[n].event.key, body>>, ref |-> None]]

\* A receipt for one interaction: of any day r likes, or with another field of its choice.
ForgedBodies ==
  UNION { LET b == ReceiptFor(a.ix, Doc, Aid("r"), CHOOSE d \in Deliverables : TRUE, Day(now))
          IN  { [b EXCEPT !.rk = PublicKey("other_sk")], [b EXCEPT !.rqc = RequesterCommit(Aid("r"), RSalt)],
                [b EXCEPT !.provider = Aid("p")] }
              \cup {[b EXCEPT !.day = @ + lead] : lead \in Leads} :
          a \in {x \in asks : x.to = "r"} }

\* A result under any interaction it knows of, with the first n events of its KEL and a receipt
\* it has seen or signs with the key of the n-th.
Forge(a) ==
  /\ Cardinality(results) < MaxResults
  /\ a.to = "r" \/ a.from = "q"
  /\ \E n \in 2..Len(rival.kel) :
       \E receipt \in {SignedByEvent(n, b) : b \in ForgedBodies} \cup {x.resp.receipt : x \in done},
          d \in Deliverables :
         results' = results \cup { [ from |-> "r", kel |-> SubSeq(rival.kel, 1, n), ts |-> now, ix |-> a.ix,
                                    resp |-> Result(receipt, d) ] }
  /\ UNCHANGED <<now, skew, prov, rival, hubc, asks, jobs, done, accepted, stored>>

\* r dates the event that replaces its key as it likes, as long as the witness takes it.  It may
\* do so earlier too, but q judges a result by the KEL that came with it, so until q accepted
\* one of r's nothing depends on it.
RotateRival ==
  /\ \E x \in accepted : x.ask.to = "r"
  /\ \E shift \in Shifts :
       /\ Rotates(rival, "r", now + shift)
       /\ rival' = rotated(rival, "r", now + shift)
  /\ UNCHANGED <<now, skew, prov, hubc, asks, jobs, done, results, accepted, stored>>

-----------------------------------------------------------------------------
(* q's check of a result, and reviews. *)

Want(a) == [ix |-> a.ix, provider |-> Aid(a.to), doc |-> a.doc, day |-> a.day]

TakeResult(m, a) ==
  /\ a.from = "q" /\ a.ix = m.ix
  /\ results' = results \ {m}
  /\ accepted' =
       IF /\ ~ \E x \in accepted : x.ask = a
          /\ UnmarshalResultResp(m.resp)
          /\ VerifyResultForRequest(m.resp, m.kel, Want(a), Day(now), m.ts) = "ok"
       THEN accepted \cup {[ask |-> a, resp |-> m.resp]} ELSE accepted
  /\ UNCHANGED <<now, skew, prov, rival, hubc, asks, jobs, done, stored>>

ReviewOf(receipt, sk) ==
  SignReview(sk, [ type |-> ReviewType, receipt |-> CID(receipt.body), subject |-> receipt.body.provider,
                   rating |-> 5, comment |-> None, day |-> Day(now) ])

ProviderKel(aid) == IF aid = Aid("p") THEN prov.kel ELSE rival.kel

\* PAY-V1: the uploader is the requester of the receipt.
Admissible(uploader, rsalt, receipt, review) ==
  /\ RequesterCommit(uploader, rsalt) = receipt.body.rqc
  /\ CheckV2(receipt, review, ProviderKel(receipt.body.provider))

AttBody(uploader, receipt, review) ==
  [ type |-> ReviewAttType, review |-> CID(review.body), receipt |-> CID(receipt.body), subject |-> review.body.subject,
    tag |-> ReviewTag("tag_key", uploader, review.body.subject), day |-> Day(now), hub |-> Aid("hub") ]

\* q reviews what it accepted; anyone may upload a review it has seen with a receipt it has seen.
Uploads ==
  { <<x.resp.receipt, ReviewOf(y.resp.receipt, sk)>> : x \in accepted, y \in accepted, sk \in {ReviewKey, "other_sk"} }

Store(uploader, rsalt) ==
  /\ stored = {}
  /\ \E x \in Uploads :
       LET receipt == x[1]  review == x[2]  body == AttBody(uploader, receipt, review)
       IN  /\ Admissible(uploader, rsalt, receipt, review)
           /\ SignReviewAttAccepts(body, hubc)
           /\ stored' = {[uploader |-> uploader, receipt |-> receipt, review |-> review, att |-> Signed(hubc, body)]}
  /\ UNCHANGED <<now, skew, prov, rival, hubc, asks, jobs, done, results, accepted>>

Next ==
  \/ Tick \/ Rotate \/ RotateRival \/ RotateHub
  \/ \E to \in {"p", "r"} : Delegate(to)
  \/ \E doc \in ForeignDocs : Foreign(doc)
  \/ \E a \in asks : PassOn(a) \/ TakeTask(a) \/ Forge(a)
  \/ \E j \in jobs, d \in Deliverables : Complete(j, d)
  \/ \E x \in done : SendResult(x)
  \/ \E m \in results, a \in asks : TakeResult(m, a)
  \/ \E u \in {Aid("q"), Aid("r")}, rsalt \in {RSalt, Bad} : Store(u, rsalt)

-----------------------------------------------------------------------------
(* Properties. *)

\* A receipt pays for one piece of work: q accepts no receipt for two interactions, though it
\* sent one TaskDoc in both and the provider signs what it likes; and what p is credited with,
\* p completed, in this interaction and with these bytes.
ResultBelongs ==
  /\ \A x, y \in accepted : x.resp.receipt.body = y.resp.receipt.body => x.ask.ix = y.ask.ix
  /\ \A x \in accepted : x.ask.to = "p" => \E z \in done : z.job = x.ask /\ z.resp = x.resp

\* p's work is not lost: what p accepted it can sign a receipt for, whatever the binding in the
\* TaskDoc, and a result sent before the receipt's key was replaced is accepted, though p's
\* clock is off across midnight, the result is late and p replaced its keys meanwhile.
ResultAccepted ==
  /\ \A j \in jobs, d \in Deliverables :
       SignReceiptAccepts(ReceiptFor(j.ix, j.doc, Aid("p"), d, Day(Clock)), prov)
  /\ \A m \in results, x \in done :
       m.from = "p" /\ m.resp = x.resp /\ x.job.from = "q" /\ m.resp.receipt.env.seq + 1 = Len(m.kel) =>
         VerifyResultForRequest(m.resp, m.kel, Want(x.job), Day(now), m.ts) = "ok"

\* The key of the envelope env was replaced by the time ms.
ReplacedBy(env, kel, ms) == env.seq + 1 < Len(kel) /\ kel[env.seq + 2].event.ts <= ms

\* It was replaced in the first millisecond of day: VerifyObject counts that millisecond as after
\* it, though the object may have been signed within it before.
ReplacedAtMidnight(env, kel, day) == env.seq + 1 < Len(kel) /\ kel[env.seq + 2].event.ts = day * DayMS

\* Why a review of an accepted receipt may fail.  A provider that dates its receipts by its clock
\* does nothing but replace its key at midnight sharp; one that signs what it likes may have
\* dated the receipt a day ahead, or its rotation back, so that the key is replaced by the
\* start of the receipt's day.
Unreviewable(x) ==
  LET receipt == x.resp.receipt
      kel     == ProviderKel(receipt.body.provider)
  IN  IF x.ask.to = "p" THEN ReplacedAtMidnight(receipt.env, kel, receipt.body.day)
      ELSE ReplacedBy(receipt.env, kel, DayStart(receipt.body.day))

\* A receipt q accepted is worth a review: q's review of it passes CheckV2 and the hub's check
\* of the uploader at any later time, however often the provider replaced its keys, on that day
\* too, but for what Unreviewable says; and the attestation the hub signed stays good when the
\* hub replaces its own key, but at midnight sharp.
ReceiptReviewable ==
  /\ \A x \in accepted :
       ~ Unreviewable(x) => Admissible(Aid("q"), RSalt, x.resp.receipt, ReviewOf(x.resp.receipt, ReviewKey))
  /\ \A s \in stored :
       ~ ReplacedAtMidnight(s.att.env, hubc.kel, s.att.body.day) =>
         VerifyReviewAtt(s.att, hubc.kel, DayStart(s.att.body.day))

\* Every review the hub stored was written by the requester for this very receipt: a review of
\* one interaction is not stored for another, and only q's upload is.
ReviewMeant ==
  \A s \in stored :
    /\ s.uploader = Aid("q")
    /\ s.review.body.receipt = CID(s.receipt.body) /\ s.review.pub = PublicKey(ReviewKey)
    /\ \E x \in accepted : x.resp.receipt = s.receipt
=============================================================================
