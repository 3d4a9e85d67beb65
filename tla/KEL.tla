-------------------------------- MODULE KEL --------------------------------
(***************************************************************************)
(* Key event logs: what identity/identity.go accepts as a KEL, the key     *)
(* states it derives from one, how it judges a signed object against them, *)
(* and how identity/extend.go compares two KELs of one AID.                *)
(*                                                                         *)
(* A KEL is a sequence of signed events; kel[i] has seq i - 1.  Data the   *)
(* rules only compare is kept symbolic: a digest is <<"sha256", key>>, an  *)
(* event id <<"cid", event>>, so equal ids mean equal preimages (collision *)
(* resistance), and a signature is the key that made it.                   *)
(***************************************************************************)
EXTENDS Integers, Sequences

CONSTANTS
  None,              \* an absent optional field: nil, "" or an omitted map key
  EventClockWindow   \* how far an accepting party's clock may be from a new event's ts

ASSUME WindowAssumption == EventClockWindow \in Nat

ToadHub   == 0
ToadAgent == 1

nextDigest(pub) == <<"sha256", pub>>

CID(event) == <<"cid", event>>

\* A SignedEvent; EventID is CID(event) and signer is the key its signature verifies under.
SignedEvent(e, key) == [event |-> e, signer |-> key]

AIDOf(kel) == CID(kel[1].event)

-----------------------------------------------------------------------------
(* Replay: the rules R-1 to R-6 of a single event.  One 32-byte key that is *)
(* not of small order, and a threshold of 1, are the one symbolic key.      *)

checkShape(e) == e.key # None /\ e.ts > 0

checkInception(e) ==
  /\ e.type = "icp" /\ e.seq = 0
  /\ e.aid = None /\ e.prev = None
  /\ checkShape(e)
  /\ e.next # None
  /\ e.toad \in {ToadHub, ToadAgent}
  /\ e.witness = None
  /\ ~e.emergency

\* aid and toad are those of the state before e.
checkRotation(e, aid, toad) ==
  /\ e.next # None
  /\ e.toad = toad
  /\ IF toad = ToadHub THEN e.witness = None ELSE e.witness \notin {None, aid}

checkDeactivation(e) ==
  e.next = None /\ e.witness = None /\ e.toad = None /\ ~e.emergency

\* e after p, in the KEL that icp starts (the loop body of replay for i > 0).
Follows(icp, p, e) ==
  /\ e.aid = CID(icp)
  /\ e.seq = p.seq + 1
  /\ e.prev = CID(p)
  /\ p.type # "dip"
  /\ e.type \in {"rot", "dip"}
  /\ checkShape(e)
  /\ e.ts > p.ts
  /\ e.type = "rot" => checkRotation(e, CID(icp), icp.toad)
  /\ e.type = "dip" => checkDeactivation(e)
  /\ nextDigest(e.key) = p.next

Replays(kel) ==
  /\ Len(kel) > 0
  /\ checkInception(kel[1].event)
  /\ \A i \in 2..Len(kel) : Follows(kel[1].event, kel[i - 1].event, kel[i].event)
  /\ \A i \in 1..Len(kel) : kel[i].signer = kel[i].event.key

\* The digest the next event has to reveal a key for; a dip commits none, and
\* nothing follows it.
committedNextDigest(kel) ==
  LET e == kel[Len(kel)].event
  IN  IF e.type = "dip" THEN kel[Len(kel) - 1].event.next ELSE e.next

-----------------------------------------------------------------------------
(* The KeyState after kel[i], with markSuperseded's post-pass. *)

KeyState(kel, i) ==
  LET e    == kel[i].event
      last == i = Len(kel)
      dip  == e.type = "dip"
  IN  [ key    |-> IF dip THEN None ELSE e.key,
        seq    |-> e.seq,
        status |-> IF dip THEN "deactivated" ELSE IF last THEN "active" ELSE "rotated",
        toad   |-> kel[1].event.toad,
        witness |-> IF dip THEN kel[i - 1].event.witness ELSE e.witness,
        lastEventID  |-> CID(e),
        supersededAt |-> IF last THEN 0 ELSE kel[i + 1].event.ts,
        retiredUrgently |-> /\ ~last
                            /\ \/ kel[i + 1].event.type = "dip"
                               \/ kel[i + 1].event.emergency ]

Tip(kel) == KeyState(kel, Len(kel))

\* The verdict on an object signed by key sig and naming seq and msgTime.
VerifyObject(kel, aid, seq, msgTime, sig) ==
  IF ~Replays(kel) \/ AIDOf(kel) # aid THEN "UNKNOWN_AID"
  ELSE IF seq >= Len(kel) THEN "KEY_STATE_DOWNGRADE"
  ELSE LET ks == KeyState(kel, seq + 1)
       IN  CASE ks.status = "deactivated" -> "REVOKED_KEY"
             [] ks.status # "deactivated" /\ sig # ks.key -> "INVALID_SIGNATURE"
             [] ks.status = "active" /\ sig = ks.key -> "ok"
             [] OTHER -> IF msgTime = 0 \/ msgTime >= ks.supersededAt
                         THEN "REVOKED_KEY" ELSE "ok"

-----------------------------------------------------------------------------
(* Two KELs of one AID: identity/extend.go. *)

\* Mutant: a diverging event is not looked for.
ExtendsKEL_NoFork(old, next) ==
  IF ~Replays(next) THEN "invalid" ELSE IF Len(next) < Len(old) THEN "rollback" ELSE "ok"

ExtendsKEL(old, next) ==
  LET n == IF Len(next) < Len(old) THEN Len(next) ELSE Len(old)
  IN  IF ~Replays(next) THEN "invalid"
      ELSE IF \E i \in 1..n : old[i].event # next[i].event THEN "fork"
      ELSE IF Len(next) < Len(old) THEN "rollback" ELSE "ok"

\* hub is the hub that judges, None for a party that is never a first witness.
isFirstWitness(kel, i, hub) ==
  /\ hub # None
  /\ hub = IF kel[i].event.type = "dip" THEN kel[i - 1].event.witness ELSE kel[i].event.witness

\* Mutant: a witness takes events however old.
CheckNewEvents_AnyAge(old, next, now, hub) ==
  \A i \in Len(old) + 1 .. Len(next) : next[i].event.ts <= now + EventClockWindow

CheckNewEvents(old, next, now, hub) ==
  \A i \in Len(old) + 1 .. Len(next) :
    /\ next[i].event.ts <= now + EventClockWindow
    /\ isFirstWitness(next, i, hub) => next[i].event.ts >= now - EventClockWindow
=============================================================================
