----------------------------- MODULE Controller -----------------------------
(***************************************************************************)
(* identity/controller.go and identity/idfile.go: the signing side of an   *)
(* identity.  A controller is a record                                     *)
(*                                                                         *)
(*   kel      the events the witness accepted                              *)
(*   cur      the key of the accepted head; None while a recover waits     *)
(*   hot      the key the icp committed, while the KEL is the icp alone    *)
(*   pending  the event being published and its material, or None          *)
(*   state    "ok", "stopped" or "deactivated"                             *)
(*                                                                         *)
(* Every method holds the controller's lock for its whole body, so each is *)
(* one function of the record.  A transition Op has a guard OpAccepts, the *)
(* conditions under which the method returns no error; a method that       *)
(* returns an error leaves the record alone.  Fields no transition reads   *)
(* (hub URL, since, the push list, local_commit) are left out.             *)
(***************************************************************************)
EXTENDS KEL

\* The key RecoverySeed derives for seq from the recovery seed rs.
RecoverySeed(rs, seq) == <<rs, seq>>

NextDigest(rs, seq) == nextDigest(RecoverySeed(rs, seq))

\* The two random keys an inception makes: k0 signs the icp, k1 is the hot key.
k0 == <<"random", 0>>
k1 == <<"random", 1>>

\* The controller whose icp at ts commits the key hot under the key key.
inceptWith(key, hot, ts, toad) ==
  LET icp == [ type |-> "icp", aid |-> None, seq |-> 0, prev |-> None, key |-> key,
               next |-> nextDigest(hot), toad |-> toad, witness |-> None,
               emergency |-> FALSE, ts |-> ts ]
  IN  [ kel |-> << SignedEvent(icp, key) >>, cur |-> key, hot |-> hot,
        pending |-> None, state |-> "ok" ]

incept(ts, toad) == inceptWith(k0, k1, ts, toad)

-----------------------------------------------------------------------------
(* Readers. *)

toadLocked(kel) == kel[1].event.toad

last(kel) == kel[Len(kel)].event

Built(c) == c.pending # None /\ c.pending.event # None

kelLocked(c) == IF c.pending # None /\ c.pending.event # None
                THEN Append(c.kel, c.pending.event) ELSE c.kel

signingLocked(c) ==
  IF c.pending # None /\ c.pending.event # None
  THEN [key |-> c.pending.revealed, seq |-> c.pending.event.event.seq]
  ELSE [key |-> c.cur, seq |-> last(c.kel).seq]

Snapshot(c) == [kel |-> kelLocked(c), key |-> signingLocked(c).key, seq |-> signingLocked(c).seq]

-----------------------------------------------------------------------------
(* Building an event. *)

canBuildLocked(c) == c.state = "ok" /\ last(c.kel).type # "dip" /\ c.pending = None

\* revealed is a key handed in, or None for the icp's hot key.
revealedLockedAccepts(c, revealed) ==
  IF revealed = None THEN c.hot # None /\ Len(c.kel) = 1
  ELSE nextDigest(revealed) = committedNextDigest(c.kel)

revealedLocked(c, revealed) == IF revealed = None THEN c.hot ELSE revealed

\* A material without its event: what IdentityFile key 4 holds before it is built.
Material(kind, revealed, next, emergency) ==
  [kind |-> kind, revealed |-> revealed, next |-> next, emergency |-> emergency, event |-> None]

buildEvent(kel, p, witness, ts) ==
  LET rot == p.kind # "dip"
  IN  SignedEvent(
        [ type |-> IF rot THEN "rot" ELSE "dip",
          aid |-> AIDOf(kel), seq |-> last(kel).seq + 1, prev |-> CID(last(kel)),
          key |-> p.revealed,
          next |-> IF rot THEN p.next ELSE None,
          toad |-> IF rot THEN toadLocked(kel) ELSE None,
          witness |-> IF rot THEN witness ELSE None,
          emergency |-> rot /\ p.emergency,
          ts |-> ts ],
        p.revealed)

\* Mutant: the KEL with the event is not replayed.
buildEventAccepts_Unchecked(kel, p, witness, ts) == TRUE

\* buildEvent ends by replaying the KEL with the event.
buildEventAccepts(kel, p, witness, ts) == Replays(Append(kel, buildEvent(kel, p, witness, ts)))

buildLocked(c, p, witness, ts) ==
  [c EXCEPT !.pending = [p EXCEPT !.event = buildEvent(c.kel, p, witness, ts)]]

-----------------------------------------------------------------------------
(* The transitions. *)

BuildWitnessDesignationAccepts(c, witness, next, ts) ==
  /\ canBuildLocked(c)
  /\ toadLocked(c.kel) = ToadAgent
  /\ Len(c.kel) = 1
  /\ c.hot # None
  /\ witness # None
  /\ buildEventAccepts(c.kel, Material("witness", c.hot, next, FALSE), witness, ts)

BuildWitnessDesignation(c, witness, next, ts) ==
  buildLocked(c, Material("witness", c.hot, next, FALSE), witness, ts)

BuildRotationAccepts(c, revealed, next, witness, emergency, ts) ==
  /\ canBuildLocked(c)
  /\ ~(revealed = None /\ toadLocked(c.kel) = ToadAgent)
  /\ revealedLockedAccepts(c, revealed)
  /\ ~(toadLocked(c.kel) = ToadHub /\ witness # None)
  /\ buildEventAccepts(c.kel, Material("rot", revealedLocked(c, revealed), next, emergency), witness, ts)

BuildRotation(c, revealed, next, witness, emergency, ts) ==
  buildLocked(c, Material("rot", revealedLocked(c, revealed), next, emergency), witness, ts)

BuildDeactivationAccepts(c, revealed, ts) ==
  /\ canBuildLocked(c)
  /\ revealedLockedAccepts(c, revealed)
  /\ buildEventAccepts(c.kel, Material("dip", revealedLocked(c, revealed), None, FALSE), None, ts)

BuildDeactivation(c, revealed, ts) ==
  buildLocked(c, Material("dip", revealedLocked(c, revealed), None, FALSE), None, ts)

\* The witness a rebuilt event names: the built event's, else the KEL head's.
restampWitness(c) ==
  CASE Built(c) -> c.pending.event.event.witness
    [] ~Built(c) /\ c.pending.kind # "dip" /\ toadLocked(c.kel) = ToadAgent -> Tip(c.kel).witness
    [] OTHER -> None

RestampAccepts(c, ts) ==
  /\ c.pending # None
  /\ c.state = "ok"
  /\ buildEventAccepts(c.kel, c.pending, restampWitness(c), ts)

\* Mutant: the event keeps its time.
Restamp_KeepsTime(c, ts) ==
  [c EXCEPT !.pending = [@ EXCEPT !.event =
     buildEvent(c.kel, c.pending, restampWitness(c), IF Built(c) THEN c.pending.event.event.ts ELSE ts)]]

Restamp(c, ts) ==
  [c EXCEPT !.pending = [@ EXCEPT !.event = buildEvent(c.kel, c.pending, restampWitness(c), ts)]]

AdoptAccepts(c, ev) == Built(c) /\ ev = c.pending.event

\* Mutants: the hot key is kept; the old key stays current.
Adopt_KeepsHot(c, ev) ==
  [c EXCEPT !.kel = Append(@, c.pending.event), !.cur = c.pending.revealed, !.pending = None]

Adopt_KeepsCur(c, ev) ==
  [c EXCEPT !.kel = Append(@, c.pending.event), !.hot = None, !.pending = None]

Adopt(c, ev) ==
  [c EXCEPT !.kel = Append(@, c.pending.event), !.cur = c.pending.revealed,
            !.hot = None, !.pending = None]

DiscardPendingAccepts(c) ==
  /\ Built(c) /\ c.pending.kind = "witness"
  /\ c.hot # None /\ Len(c.kel) = 1
  /\ c.pending.event.event.seq = last(c.kel).seq + 1
  /\ c.pending.event.event.prev = CID(last(c.kel))

DiscardPending(c) == [c EXCEPT !.pending = None]

SetState(c, state) == [c EXCEPT !.state = state]

-----------------------------------------------------------------------------
(* The identity file. *)

\* Mutant: the pending event is not written.
Export_NoPending(c) == [ kel |-> c.kel, cur |-> c.cur,
                         hotNext |-> IF Len(c.kel) = 1 THEN c.hot ELSE None,
                         pending |-> None, state |-> c.state ]

Export(c) == [ kel |-> c.kel, cur |-> c.cur,
               hotNext |-> IF Len(c.kel) = 1 THEN c.hot ELSE None,
               pending |-> c.pending, state |-> c.state ]

\* The pending material of a file against its KEL.
restorePendingAccepts(kel, p) ==
  LET witness == p.event.event.witness
      ts      == p.event.event.ts
  IN  /\ last(kel).type # "dip"
      /\ nextDigest(p.revealed) = committedNextDigest(kel)
      /\ p.kind = "witness" => /\ toadLocked(kel) = ToadAgent /\ Len(kel) = 1
                               /\ ~p.emergency /\ p.event # None
      /\ p.kind = "rot" => ~(toadLocked(kel) = ToadAgent /\ Len(kel) = 1)
      /\ IF p.kind = "dip" THEN p.next = None /\ ~p.emergency ELSE p.next # None
      /\ p.event # None => /\ buildEventAccepts(kel, p, witness, ts)
                           /\ p.event = buildEvent(kel, p, witness, ts)

States == {"ok", "stopped", "deactivated"}

RestoreAccepts(f) ==
  /\ f.state \in States
  /\ Replays(f.kel)
  /\ f.hotNext # None => Len(f.kel) = 1 /\ nextDigest(f.hotNext) = f.kel[1].event.next
  /\ f.pending # None => restorePendingAccepts(f.kel, f.pending)
  /\ IF f.cur = None THEN f.pending # None
     ELSE \/ f.cur = last(f.kel).key
          \/ f.pending # None /\ f.pending.event # None /\ f.cur = f.pending.event.event.key

\* Mutant: the pending event is taken for accepted.
Restore_AdoptsPending(f) ==
  LET built == f.pending # None /\ f.pending.event # None
      kel   == IF built THEN Append(f.kel, f.pending.event) ELSE f.kel
  IN  [ kel |-> kel, hot |-> IF built THEN None ELSE f.hotNext,
        pending |-> IF built THEN None ELSE f.pending, state |-> f.state,
        cur |-> IF built THEN f.pending.revealed ELSE f.cur ]

Restore(f) ==
  [ kel |-> f.kel, hot |-> f.hotNext, pending |-> f.pending, state |-> f.state,
    cur |-> IF f.cur = last(f.kel).key THEN f.cur ELSE None ]

\* The file `anet identity recover` writes into a new data directory: the KEL the
\* witness holds, no current key, and the material of an emergency rot.
RecoverFile(kel, rs) ==
  [ kel |-> kel, cur |-> None, hotNext |-> None, state |-> "ok",
    pending |-> Material("rot", RecoverySeed(rs, Len(kel)), NextDigest(rs, Len(kel) + 1), TRUE) ]
=============================================================================
