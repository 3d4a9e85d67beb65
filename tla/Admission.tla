------------------------------ MODULE Admission ------------------------------
(***************************************************************************)
(* Capabilities in use: agent b issues a grant (seal/grant.go), sends it   *)
(* to a in a message, a checks it and keeps it, and later signs accesses   *)
(* with it (seal/access.go) that b's hub checks against the mailbox key of *)
(* the key set b published last.  b replaces its mailbox key at any time,  *)
(* so what is under way or kept may be of an earlier epoch; grants of      *)
(* other implementations may break any rule; accesses are put on other     *)
(* envelopes on their way.                                                 *)
(*                                                                         *)
(* The messages, the stores of a and the queue of the hub are outside src/ *)
(* and modelled as seal is used by them.                                   *)
(***************************************************************************)
EXTENDS Envelope, FiniteSets

CONSTANTS
  GrantTerms,       \* what a grant may say, [class, seed, owner, ix, p2p, pay, exp]
  Envelopes,   \* the envelopes a may want to send b, without an access
  MaxEpoch, MaxTime, MaxGrants, MaxAttempts   \* bounds of the model

VARIABLES
  time,
  box,        \* b: its mailbox key, [epoch, pub]
  hubBox,     \* hub: the mailbox key of the key set it has of b
  issued,     \* b: the grants it made, [grant, marshalled]
  letters,    \* the message with a grant on its way to a, [grant, from, ix, keys, marshalled]
  kept,       \* a: the grants it keeps (caps_held)
  proven,     \* history: the capabilities and envelopes a signed proofs for
  attempts,   \* envelopes on their way to the hub
  admitted    \* history: what the hub let in, [env, cap, epoch]

vars == <<time, box, hubBox, issued, letters, kept, proven, attempts, admitted>>

HolderSeed(n) == <<"seed", n>>

\* The grant b makes under its current mailbox key; n numbers b's capabilities.
GrantOf(x, key, n) ==
  LET body == [ t |-> CapType, owner |-> x.owner, epoch |-> key.epoch, id |-> <<"id", n>>, class |-> x.class,
                exp |-> x.exp, holder |-> PublicOf(HolderSeed(n)), strict |-> TRUE ]
  IN  [ cap |-> SignCap(key.pub, body), seed |-> IF x.seed THEN HolderSeed(n) ELSE HolderSeed(0),
        home |-> "hub", ix |-> x.ix, p2p |-> x.p2p, pay |-> x.pay ]

Init ==
  /\ time = 1
  /\ box = [epoch |-> 1, pub |-> <<"mbox", 1>>] /\ hubBox = box
  /\ issued = {} /\ letters = {} /\ kept = {}
  /\ proven = {} /\ attempts = {} /\ admitted = {}

Tick ==
  /\ time < MaxTime
  /\ time' = time + 1
  /\ UNCHANGED <<box, hubBox, issued, letters, kept, proven, attempts, admitted>>

-----------------------------------------------------------------------------
(* The issuer. *)

\* An emergency rotation raises the epoch and replaces the key, or only the epoch is raised.
NewMbox(pub) ==
  /\ box.epoch < MaxEpoch
  /\ box' = [epoch |-> box.epoch + 1, pub |-> pub]
  /\ UNCHANGED <<time, hubBox, issued, letters, kept, proven, attempts, admitted>>

PublishKeys ==
  /\ hubBox # box
  /\ hubBox' = box
  /\ UNCHANGED <<time, box, issued, letters, kept, proven, attempts, admitted>>

\* marshalled: by this implementation, which calls Grant.Marshal.
Issue(x, marshalled) ==
  /\ Cardinality(issued) < MaxGrants
  /\ \E g \in {GrantOf(x, box, Cardinality(issued) + 1)} :
       /\ marshalled => MarshalGrantAccepts(g)
       /\ issued' = issued \cup {[grant |-> g, marshalled |-> marshalled]}
  /\ UNCHANGED <<time, box, hubBox, letters, kept, proven, attempts, admitted>>

\* The message has the sender's key set of the moment; another agent may pass a grant on.
SendGrant(i, from, ix) ==
  /\ letters = {}
  /\ letters' =
       {[grant |-> i.grant, from |-> from, ix |-> ix, marshalled |-> i.marshalled,
         keys |-> [aid |-> from, mbox |-> IF from = "b" THEN box ELSE [epoch |-> 1, pub |-> <<"mbox", 0>>]]]}
  /\ UNCHANGED <<time, box, hubBox, issued, kept, proven, attempts, admitted>>

-----------------------------------------------------------------------------
(* The holder. *)

\* Receive step 8: a grant that fails is ignored, the message goes on.
TakeGrant(l) ==
  /\ letters' = letters \ {l}
  /\ kept' = IF CheckGrant(l, l.keys, time) = "ok" THEN kept \cup {l.grant} ELSE kept
  /\ UNCHANGED <<time, box, hubBox, issued, proven, attempts, admitted>>

AccessOf(g, e) ==
  [kind |-> 1, cap |-> g.cap, proof |-> SignAccess(g.seed, g.cap.body.id, EnvDigest(e))]

Attempt(g, e) ==
  /\ Cardinality(proven) < MaxAttempts
  /\ SetAccessAccepts(e, AccessOf(g, e))
  /\ proven' = proven \cup {<<g.cap, e>>}
  /\ attempts' = attempts \cup {WithAccess(e, AccessOf(g, e))}
  /\ UNCHANGED <<time, box, hubBox, issued, letters, kept, admitted>>

\* On the way an access is put on another envelope.
Move(x, e) ==
  /\ attempts' = (attempts \ {x}) \cup {WithAccess(e, x.access)}
  /\ attempts' # attempts
  /\ UNCHANGED <<time, box, hubBox, issued, letters, kept, proven, admitted>>

-----------------------------------------------------------------------------
(* The hub; a copy may arrive again. *)

Admit(x) ==
  /\ ParseOuter(x) = "ok"
  /\ IF VerifyAccess(x.access, EnvDigest(x), hubBox, x.to, time) = "ok"
     THEN admitted' = admitted \cup {[env |-> WithAccess(x, None), cap |-> x.access.cap, epoch |-> hubBox.epoch]}
     ELSE UNCHANGED admitted
  /\ attempts' \in {attempts, attempts \ {x}}
  /\ UNCHANGED <<time, box, hubBox, issued, letters, kept, proven>>

Next ==
  \/ Tick \/ PublishKeys
  \/ \E pub \in {box.pub, <<"mbox", box.epoch + 1>>} : NewMbox(pub)
  \/ \E x \in GrantTerms, marshalled \in BOOLEAN : Issue(x, marshalled)
  \/ \E i \in issued, from \in {"b", "c"}, ix \in {"i1", "i2"} : SendGrant(i, from, ix)
  \/ \E l \in letters : TakeGrant(l)
  \/ \E g \in kept, e \in Envelopes : Attempt(g, e)
  \/ \E x \in attempts, e \in Envelopes : Move(x, e)
  \/ \E x \in attempts : Admit(x)

-----------------------------------------------------------------------------
(* Properties. *)

\* A grant CheckGrant let a keep delivers: while the hub has the mailbox key of the epoch it was
\* issued in and cap_exp is in the window, an access made with it passes VerifyAccess, for
\* every envelope.
GrantUsable ==
  \A g \in kept, e \in Envelopes :
    g.cap.body.epoch = hubBox.epoch /\ capExpInWindow(g.cap.body.exp, time) =>
      /\ SetAccessAccepts(e, AccessOf(g, e))
      /\ VerifyAccess(AccessOf(g, e), EnvDigest(e), hubBox, e.to, time) = "ok"

\* What Grant.Marshal wrote, its recipient keeps, unless the mailbox key was replaced or the
\* expiry is out of its window by then, or it came in a message of another interaction.
MarshalledIsKept ==
  \A l \in letters :
    l.marshalled /\ l.from = "b" /\ l.grant.cap.body.owner = "b" =>
      CheckGrant(l, l.keys, time) \in {"ok", "epoch", "exp", "ix"}

\* Raising the mailbox epoch revokes: the hub lets nothing in on a capability of another epoch
\* than the one it has of b, whether the key was replaced or kept, and whenever the grant, the
\* key set and the envelope arrive.  What it lets in is an envelope the holder signed a proof
\* for, however often it comes and whatever was put on it on the way.
RevocationHolds ==
  \A d \in admitted :
    /\ \E i \in issued : i.grant.cap = d.cap
    /\ d.cap.body.epoch = d.epoch
    /\ <<d.cap, d.env>> \in proven
=============================================================================
