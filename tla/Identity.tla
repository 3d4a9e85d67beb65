------------------------------ MODULE Identity ------------------------------
(***************************************************************************)
(* One identity over its life: a Controller, the identity file its owner   *)
(* writes, the process restarts in between, a recover into a new data      *)
(* directory, and threads that sign objects through snapshots while the    *)
(* keys rotate.                                                            *)
(*                                                                         *)
(* The owner persists Export after each transition, before the next one,   *)
(* as the Controller's documentation asks, but may crash before it does.   *)
(* Whether the witness accepted an event is the environment's choice here. *)
(***************************************************************************)
EXTENDS Controller

CONSTANTS
  Hubs,        \* AIDs of hubs an owner may name as witness
  Seeds,       \* recovery seeds the owner may derive keys from
  Signers,     \* threads that sign objects
  MaxSeq,      \* bound: no event beyond this seq is built
  MaxTime      \* bound: the owner's clock stops here

ASSUME BoundsAssumption == MaxSeq \in Nat /\ MaxTime \in Nat \ {0}

\* A recovery seed is not the source of the two inception keys.
ASSUME SeedsAssumption == "random" \notin Seeds

\* Absence is neither a key nor a digest.
ASSUME NoneAssumption == None \notin {k0, nextDigest(k1)}

VARIABLES
  ctl,     \* the Controller
  file,    \* the identity file as last written
  now,     \* the owner's clock
  snap,    \* snap[s]: the snapshot signer s holds, or None
  signed   \* every object signed so far: its key_state_seq and the key that signed

vars == <<ctl, file, now, snap, signed>>

Init ==
  /\ \E toad \in {ToadHub, ToadAgent} : ctl = incept(1, toad)
  /\ file = Export(ctl)
  /\ now = 1
  /\ snap = [s \in Signers |-> None]
  /\ signed = {}

-----------------------------------------------------------------------------
(* The owner's calls.  Each one finds the previous one on disk. *)

Persisted == file = Export(ctl)

\* The owner reveals recovery keys, or leaves the hot key to the controller.
OwnerKeys == {None} \cup {RecoverySeed(rs, Len(ctl.kel)) : rs \in Seeds}

OwnerNext == {NextDigest(rs, Len(ctl.kel) + 1) : rs \in Seeds}

OwnerWitness == Hubs \cup {None, AIDOf(ctl.kel)}

DesignateWitness ==
  \E witness \in OwnerWitness, next \in OwnerNext :
    /\ Persisted /\ Len(ctl.kel) <= MaxSeq
    /\ BuildWitnessDesignationAccepts(ctl, witness, next, now)
    /\ ctl' = BuildWitnessDesignation(ctl, witness, next, now)
    /\ UNCHANGED <<file, now, snap, signed>>

Rotate ==
  \E revealed \in OwnerKeys, next \in OwnerNext, witness \in OwnerWitness, emergency \in BOOLEAN :
    /\ Persisted /\ Len(ctl.kel) <= MaxSeq
    /\ BuildRotationAccepts(ctl, revealed, next, witness, emergency, now)
    /\ ctl' = BuildRotation(ctl, revealed, next, witness, emergency, now)
    /\ UNCHANGED <<file, now, snap, signed>>

Deactivate ==
  \E revealed \in OwnerKeys :
    /\ Persisted /\ Len(ctl.kel) <= MaxSeq
    /\ BuildDeactivationAccepts(ctl, revealed, now)
    /\ ctl' = BuildDeactivation(ctl, revealed, now)
    /\ UNCHANGED <<file, now, snap, signed>>

RestampPending ==
  /\ Persisted /\ RestampAccepts(ctl, now)
  /\ ctl' = Restamp(ctl, now)
  /\ UNCHANGED <<file, now, snap, signed>>

\* The witness accepted the pending event.
AdoptPending ==
  /\ Persisted /\ Built(ctl) /\ AdoptAccepts(ctl, ctl.pending.event)
  /\ ctl' = Adopt(ctl, ctl.pending.event)
  /\ UNCHANGED <<file, now, snap, signed>>

\* The hub refused the designation for good.
DropDesignation ==
  /\ Persisted /\ DiscardPendingAccepts(ctl)
  /\ ctl' = DiscardPending(ctl)
  /\ UNCHANGED <<file, now, snap, signed>>

ChangeState ==
  \E state \in States :
    /\ Persisted
    /\ ctl' = SetState(ctl, state)
    /\ UNCHANGED <<file, now, snap, signed>>

-----------------------------------------------------------------------------
(* The file, restarts and time. *)

Persist ==
  /\ file' = Export(ctl)
  /\ UNCHANGED <<ctl, now, snap, signed>>

\* The process ends and starts again from the file.
Restart ==
  /\ RestoreAccepts(file)
  /\ ctl' = Restore(file)
  /\ snap' = [s \in Signers |-> None]
  /\ UNCHANGED <<file, now, signed>>

\* A new data directory, from the KEL the witness holds and a recovery seed; the
\* witness may or may not have accepted the event that was being published.
Recover ==
  \E rs \in Seeds, kel \in {ctl.kel, kelLocked(ctl)} :
    /\ Len(kel) <= MaxSeq
    /\ RestoreAccepts(RecoverFile(kel, rs))
    /\ file' = RecoverFile(kel, rs)
    /\ ctl' = Restore(RecoverFile(kel, rs))
    /\ snap' = [s \in Signers |-> None]
    /\ UNCHANGED <<now, signed>>

Tick ==
  /\ now < MaxTime
  /\ now' = now + 1
  /\ UNCHANGED <<ctl, file, snap, signed>>

-----------------------------------------------------------------------------
(* Signing: SnapshotOf, then the object is stamped with SeqOf and signed. *)

SnapshotOf(s) ==
  /\ snap[s] = None
  /\ snap' = [snap EXCEPT ![s] = Snapshot(ctl)]
  /\ UNCHANGED <<ctl, file, now, signed>>

\* SeqOf of a snapshot: the seq of the last event of its KEL.
SeqOf(sn) == sn.kel[Len(sn.kel)].event.seq

\* A nil signature (a recovered identity whose rot is not built) signs nothing.
SignObject(s) ==
  /\ snap[s] # None
  /\ signed' = IF snap[s].key = None \/ SeqOf(snap[s]) # snap[s].seq THEN signed
               ELSE signed \cup {[seq |-> SeqOf(snap[s]), key |-> snap[s].key]}
  /\ snap' = [snap EXCEPT ![s] = None]
  /\ UNCHANGED <<ctl, file, now>>

Next ==
  \/ DesignateWitness \/ Rotate \/ Deactivate
  \/ RestampPending \/ AdoptPending \/ DropDesignation \/ ChangeState
  \/ Persist \/ Restart \/ Recover \/ Tick
  \/ \E s \in Signers : SnapshotOf(s) \/ SignObject(s)

Spec == Init /\ [][Next]_vars

-----------------------------------------------------------------------------
(* Properties. *)

Key    == ({"random"} \cup Seeds) \X Nat
OptKey == Key \cup {None}

\* Type invariant of the scalar parts; KELs are described by Replays.
TypeOK ==
  /\ ctl.cur \in OptKey /\ ctl.hot \in OptKey
  /\ ctl.state \in States
  /\ ctl.pending # None => ctl.pending.kind \in {"witness", "rot", "dip"}
  /\ now \in 1..MaxTime
  /\ \A o \in signed : o.seq \in Nat /\ o.key \in Key

\* The KEL the controller signs under, pending event included, always replays: a
\* controller never hands out an event that a verifier refuses (buildEvent).
HandedOutReplays == Replays(kelLocked(ctl))

\* A crash at any point is survived: the file on disk restores, and the file the
\* controller would write now restores to exactly the controller (Export, Restore).
RestartSafe ==
  /\ RestoreAccepts(file)
  /\ RestoreAccepts(Export(ctl))
  /\ Restore(Export(ctl)) = ctl

\* What the identity signed stays signed: however it restamps, discards, restarts,
\* recovers or rotates afterwards, its KEL never shows another key at the seq an
\* object names, so VerifyObject never finds the signature of a stranger.
SignedNeverDisowned ==
  \A o \in signed :
    VerifyObject(kelLocked(ctl), AIDOf(ctl.kel), o.seq, 0, o.key)
      \notin {"INVALID_SIGNATURE", "UNKNOWN_AID"}

\* A snapshot's KEL, seq and key belong together, whatever the controller did since:
\* what it signs verifies against the KEL it carries, unless that KEL ends in a dip.
SnapshotVerifies ==
  \A s \in Signers :
    snap[s] # None /\ snap[s].key # None /\ Tip(snap[s].kel).status # "deactivated" =>
      VerifyObject(snap[s].kel, AIDOf(ctl.kel), SeqOf(snap[s]), 0, snap[s].key) = "ok"

\* Whatever the controller hands out, a KEL with its pending event or a snapshot to sign with,
\* is well formed and verifies.
HandedOutVerifies == TypeOK /\ HandedOutReplays /\ SnapshotVerifies
=============================================================================
