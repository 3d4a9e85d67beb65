------------------------------- MODULE Notice -------------------------------
(***************************************************************************)
(* Witness notices, identity/notice.go, and the use of retired key states, *)
(* identity/identity.go: what a hub states about the tip of a KEL that it  *)
(* witnesses, and how a recipient judges that statement and a signature    *)
(* made under a key that has been replaced.                                *)
(***************************************************************************)
EXTENDS Controller

CONSTANTS
  RotationGrace,   \* how long a key a planned rot retired stays usable
  NoticeMaxAge     \* how old a notice may be when its message arrives

ASSUME NoticeAssumption == RotationGrace \in Nat /\ NoticeMaxAge \in Nat

RetiredUsableAt(ks, arrival) ==
  \/ ks.status = "active"
  \/ /\ ks.status = "rotated"
     /\ arrival <= ks.supersededAt + (IF ks.retiredUrgently THEN 0 ELSE RotationGrace)

\* Mutant: an arrival dated before an emergency rot is believed.
SenderKeyUsable_Dated(ks, arrival) == RetiredUsableAt(ks, arrival)

SenderKeyUsable(ks, arrival) == ~ks.retiredUrgently /\ RetiredUsableAt(ks, arrival)

\* The notice the hub identity s signs, at its time observedAt, about a KEL it holds.
SignNotice(s, kel, observedAt) ==
  [ aid |-> AIDOf(kel), seq |-> Tip(kel).seq, head |-> Tip(kel).lastEventID,
    observedAt |-> observedAt, witness |-> AIDOf(s.kel),
    signer |-> AIDOf(s.kel), keySeq |-> Snapshot(s).seq, sig |-> Snapshot(s).key ]

\* Mutant: a key state of the hub that is not held is refused for good.
VerifyNotice_NoUnknown(n, kel, wkel, arrival) ==
  IF ~Replays(kel) THEN "bad-kel"
  ELSE LET tip == Tip(kel)
  IN IF tip.toad # ToadAgent \/ tip.witness = None THEN "witness-missing"
     ELSE IF n.aid # AIDOf(kel) \/ n.seq # tip.seq \/ n.head # tip.lastEventID THEN "witness-mismatch"
     ELSE IF n.witness # tip.witness \/ n.signer # n.witness THEN "witness-invalid"
     ELSE IF n.keySeq >= Len(wkel) THEN "witness-invalid"
     ELSE IF \/ ~Replays(wkel) \/ toadLocked(wkel) # ToadHub
             \/ VerifyObject(wkel, n.witness, n.keySeq, n.observedAt, n.sig) # "ok"
             \/ ~RetiredUsableAt(KeyState(wkel, n.keySeq + 1), arrival)
          THEN "witness-invalid"
     ELSE IF n.observedAt > arrival + EventClockWindow \/ arrival > n.observedAt + NoticeMaxAge
          THEN "witness-stale" ELSE "ok"

\* wkel is what hubKELs holds of the notice's witness, <<>> for nothing.
VerifyNotice(n, kel, wkel, arrival) ==
  IF ~Replays(kel) THEN "bad-kel"
  ELSE LET tip == Tip(kel)
  IN IF tip.toad # ToadAgent \/ tip.witness = None THEN "witness-missing"
     ELSE IF n.aid # AIDOf(kel) \/ n.seq # tip.seq \/ n.head # tip.lastEventID THEN "witness-mismatch"
     ELSE IF n.witness # tip.witness \/ n.signer # n.witness THEN "witness-invalid"
     ELSE IF n.keySeq >= Len(wkel) THEN "witness-unknown"
     ELSE IF \/ ~Replays(wkel) \/ toadLocked(wkel) # ToadHub
             \/ VerifyObject(wkel, n.witness, n.keySeq, n.observedAt, n.sig) # "ok"
             \/ ~RetiredUsableAt(KeyState(wkel, n.keySeq + 1), arrival)
          THEN "witness-invalid"
     ELSE IF n.observedAt > arrival + EventClockWindow \/ arrival > n.observedAt + NoticeMaxAge
          THEN "witness-stale" ELSE "ok"
=============================================================================
