--------------------------- MODULE IdentityProofs ---------------------------
(***************************************************************************)
(* Theorems about Identity, for any hubs, seeds and signing threads, any   *)
(* number of events and any interleaving of the owner's calls, writes of   *)
(* the file, restarts, recovers and signatures.                            *)
(***************************************************************************)
EXTENDS Identity, TLAPS

-----------------------------------------------------------------------------
(* KELs and the events a Controller builds over them. *)

IsSeq(s) == s \in Seq({s[i] : i \in DOMAIN s})

\* A KEL replays, its events are numbered, timed and signed by their own key.
WellMade(kel) ==
  /\ IsSeq(kel)
  /\ Replays(kel)
  /\ \A i \in 1..Len(kel) : /\ kel[i].event.seq = i - 1 /\ kel[i].event.ts \in Int
                            /\ kel[i] = SignedEvent(kel[i].event, kel[i].event.key)

\* p has the fields of a pending event's material.
IsPending(p) ==
  p = [ kind |-> p.kind, revealed |-> p.revealed, next |-> p.next,
        emergency |-> p.emergency, event |-> p.event ]

\* c has the fields of a controller.
Fields(c) == c = [kel |-> c.kel, cur |-> c.cur, hot |-> c.hot, pending |-> c.pending, state |-> c.state]

\* The event buildEvent makes is signed by the key it reveals and follows the KEL's last one.
LEMMA BuildFacts ==
  ASSUME NEW kel, NEW p, NEW w, NEW ts
  PROVE  LET ev == buildEvent(kel, p, w, ts)
         IN  /\ ev = SignedEvent(ev.event, ev.event.key)
             /\ ev.event.seq = last(kel).seq + 1 /\ ev.event.ts = ts
             /\ p.kind # "dip" => ev.event.type = "rot" /\ ev.event.witness = w
             /\ p.kind = "dip" => ev.event.type = "dip"
<1> DEFINE rot == p.kind # "dip"
           urgent == rot /\ p.emergency
<1> HIDE DEF urgent
<1> DEFINE event ==
             [ type |-> IF rot THEN "rot" ELSE "dip",
               aid |-> AIDOf(kel), seq |-> last(kel).seq + 1, prev |-> CID(last(kel)),
               key |-> p.revealed,
               next |-> IF rot THEN p.next ELSE None,
               toad |-> IF rot THEN toadLocked(kel) ELSE None,
               witness |-> IF rot THEN w ELSE None,
               emergency |-> urgent, ts |-> ts ]
<1>1. buildEvent(kel, p, w, ts) = SignedEvent(event, p.revealed)
  BY DEF buildEvent, urgent
<1>2. /\ event.key = p.revealed /\ event.seq = last(kel).seq + 1 /\ event.ts = ts
      /\ rot => event.type = "rot" /\ event.witness = w
      /\ ~rot => event.type = "dip"
  OBVIOUS
<1> HIDE DEF event
<1>3. SignedEvent(event, p.revealed).event = event
  BY DEF SignedEvent
<1> QED
  BY <1>1, <1>2, <1>3

\* A KEL grows by an event at its end.
LEMMA AppendFacts ==
  ASSUME NEW kel, WellMade(kel), NEW ev
  PROVE  /\ Len(kel) \in Nat /\ Len(kel) >= 1
         /\ IsSeq(Append(kel, ev))
         /\ Len(Append(kel, ev)) = Len(kel) + 1
         /\ Append(kel, ev)[Len(kel) + 1] = ev
         /\ \A i \in 1..Len(kel) : Append(kel, ev)[i] = kel[i]
<1> DEFINE S == {kel[i] : i \in DOMAIN kel}
           a == Append(kel, ev)
<1>1. kel \in Seq(S \cup {ev}) /\ kel \in Seq(S) /\ Len(kel) \in Nat /\ Len(kel) >= 1
  BY DEF WellMade, Replays, IsSeq
<1> HIDE DEF S
<1>2. /\ a \in Seq(S \cup {ev}) /\ Len(a) = Len(kel) + 1 /\ a[Len(kel) + 1] = ev
      /\ DOMAIN a = 1 .. Len(kel) + 1
      /\ \A i \in 1..Len(kel) : a[i] = kel[i]
  BY <1>1
<1> HIDE DEF a
<1>3. IsSeq(a)
  <2>1. a \in [1 .. Len(a) -> {a[i] : i \in DOMAIN a}]
    BY <1>1, <1>2
  <2>2. Len(a) \in Nat
    BY <1>1, <1>2
  <2> QED
    BY <2>1, <2>2 DEF IsSeq
<1> QED
  BY <1>1, <1>2, <1>3 DEF a

\* What is built over a well-made KEL and replays is a well-made KEL.
LEMMA BuiltIsWellMade ==
  ASSUME NEW kel, WellMade(kel), NEW p, NEW w, NEW ts \in Int,
         Replays(Append(kel, buildEvent(kel, p, w, ts)))
  PROVE  WellMade(Append(kel, buildEvent(kel, p, w, ts)))
<1> DEFINE ev == buildEvent(kel, p, w, ts)
           a == Append(kel, ev)
           n == Len(kel)
<1>1. ev = SignedEvent(ev.event, ev.event.key) /\ ev.event.seq = last(kel).seq + 1 /\ ev.event.ts \in Int
  BY BuildFacts
<1> HIDE DEF ev
<1>2. /\ n \in Nat /\ n >= 1 /\ IsSeq(a) /\ Len(a) = n + 1 /\ a[n + 1] = ev
      /\ \A i \in 1..n : a[i] = kel[i]
  BY AppendFacts
<1>3. last(kel).seq = n - 1
  BY <1>2 DEF WellMade, last
<1>4. Replays(a)
  BY DEF ev
<1> HIDE DEF a, n
<1>6. ASSUME NEW i \in 1..Len(a)
      PROVE  /\ a[i].event.seq = i - 1 /\ a[i].event.ts \in Int
             /\ a[i] = SignedEvent(a[i].event, a[i].event.key)
  <2>1. CASE i = n + 1
    <3>1. a[i].event.seq = n - 1 + 1
      BY <1>1, <1>2, <1>3, <2>1
    <3> QED
      BY <1>1, <1>2, <2>1, <3>1
  <2>2. CASE i \in 1..n
    BY <1>2, <2>2 DEF WellMade, n
  <2> QED
    BY <1>2, <2>1, <2>2
<1>7. WellMade(a)
  BY <1>2, <1>4, <1>6 DEF WellMade
<1> QED
  BY <1>7 DEF a, ev

\* A Material is a pending record without an event.
LEMMA MaterialFacts ==
  ASSUME NEW kind, NEW revealed, NEW next, NEW emergency
  PROVE  LET p == Material(kind, revealed, next, emergency)
         IN  /\ IsPending(p)
             /\ p.kind = kind /\ p.event = None
BY DEF Material, IsPending

-----------------------------------------------------------------------------
(* The inductive invariant. *)

\* None, which stands for nil, is no event and no material of one.
NoneIsNil ==
  /\ \A e, key : SignedEvent(e, key) # None
  /\ \A p : IsPending(p) => p # None

\* The KEL of an identity this program made.
FirstOK(kel) == \E toad \in {ToadHub, ToadAgent} : kel[1] = incept(1, toad).kel[1]

\* What the Build methods see to before buildEvent, and a file's reader after it.
MaterialOK(kel, p) ==
  /\ IsPending(p) /\ p.kind \in {"witness", "rot", "dip"} /\ p.revealed \in Key
  /\ p.kind = "witness" => toadLocked(kel) = ToadAgent /\ Len(kel) = 1 /\ ~p.emergency
  /\ p.kind = "rot" => ~(toadLocked(kel) = ToadAgent /\ Len(kel) = 1)
  /\ p.kind = "dip" => p.next = None /\ ~p.emergency

PendingOK(kel, p) ==
  p # None =>
    /\ MaterialOK(kel, p) /\ restorePendingAccepts(kel, p)
    /\ p.event # None => WellMade(Append(kel, p.event)) /\ p.event.event.key = p.revealed

\* A controller has the head's key, or none while the rot of a recover is pending, and the hot
\* key only before the first event after the icp.
KeysOK(c) ==
  /\ c.cur \in OptKey /\ c.hot \in OptKey
  /\ c.cur \in {None, last(c.kel).key}
  /\ c.cur = None => c.pending # None /\ c.hot = None
  /\ c.hot # None => Len(c.kel) = 1 /\ nextDigest(c.hot) = c.kel[1].event.next

Good(c) ==
  /\ Fields(c) /\ WellMade(c.kel) /\ FirstOK(c.kel)
  /\ c.state \in States
  /\ KeysOK(c)
  /\ PendingOK(c.kel, c.pending)

FileOK == \E c : Good(c) /\ file = Export(c)

\* The file has the controller's KEL, or lacks the one event that was adopted since.
FileBehind ==
  \/ file.kel = ctl.kel
  \/ /\ file.pending # None /\ file.pending.event # None
     /\ ctl.kel = Append(file.kel, file.pending.event) /\ ctl.pending = None

\* kel shows key at seq, or commits it for the event with that seq.
Owns(kel, seq, key) ==
  /\ seq \in 0..Len(kel)
  /\ seq < Len(kel) => kel[seq + 1].event.key = key
  /\ seq = Len(kel) => nextDigest(key) = last(kel).next

SignedOK ==
  \A o \in signed : o.key \in Key /\ Owns(ctl.kel, o.seq, o.key) /\ Owns(file.kel, o.seq, o.key)

GoodSnap(sn) ==
  /\ WellMade(sn.kel) /\ sn.kel[1] = ctl.kel[1] /\ sn.key \in OptKey
  /\ sn.key # None =>
       /\ sn.key = last(sn.kel).key
       /\ Owns(ctl.kel, Len(sn.kel) - 1, sn.key) /\ Owns(file.kel, Len(sn.kel) - 1, sn.key)

SnapsOK == \A s \in Signers : snap[s] # None => GoodSnap(snap[s])

Inv ==
  /\ now \in 1..MaxTime /\ DOMAIN snap = Signers
  /\ Good(ctl) /\ FileOK /\ FileBehind /\ SignedOK /\ SnapsOK

-----------------------------------------------------------------------------
(* Lemmas. *)

\* Two keys with one digest are one key.
LEMMA OneKey == ASSUME NEW k, NEW l, nextDigest(k) = nextDigest(l) PROVE k = l
<1>1. ASSUME NEW a, NEW b, <<"sha256", a>> = <<"sha256", b>> PROVE a = b
  BY <1>1
<1> QED
  BY <1>1, Zenon DEF nextDigest

\* What an event that buildEvent accepted says of its material.
LEMMA AcceptedFacts ==
  ASSUME NEW kel, WellMade(kel), NEW p, NEW w, NEW ts \in Int, buildEventAccepts(kel, p, w, ts)
  PROVE  LET ev == buildEvent(kel, p, w, ts)
         IN  /\ WellMade(Append(kel, ev)) /\ ev.event.key = p.revealed
             /\ last(kel).type # "dip"
             /\ nextDigest(p.revealed) = last(kel).next
             /\ committedNextDigest(kel) = last(kel).next
             /\ p.kind # "dip" => p.next # None
             /\ ev = buildEvent(kel, p, ev.event.witness, ev.event.ts)
<1> DEFINE ev == buildEvent(kel, p, w, ts)
           a == Append(kel, ev)
           n == Len(kel)
<1>1. WellMade(a)
  BY BuiltIsWellMade DEF buildEventAccepts
<1>2. ev.event.key = p.revealed /\ (p.kind # "dip" => ev.event.next = p.next /\ ev.event.type = "rot")
  BY DEF buildEvent, SignedEvent
<1>3. ev.event.ts = ts /\ (p.kind # "dip" => ev.event.witness = w)
  BY BuildFacts
<1>4. ev = buildEvent(kel, p, ev.event.witness, ev.event.ts)
  <2>1. CASE p.kind # "dip"
    BY <1>3, <2>1
  <2>2. CASE p.kind = "dip"
    <3>1. ASSUME NEW u PROVE buildEvent(kel, p, u, ts) = buildEvent(kel, p, w, ts)
      BY <2>2 DEF buildEvent
    <3> HIDE DEF ev
    <3>2. buildEvent(kel, p, ev.event.witness, ts) = buildEvent(kel, p, w, ts)
      BY <3>1
    <3> QED
      BY <1>3, <3>2 DEF ev
  <2> QED
    BY <2>1, <2>2
<1> HIDE DEF ev
<1>5. n \in Nat /\ n >= 1 /\ Len(a) = n + 1 /\ a[n + 1] = ev /\ \A i \in 1..n : a[i] = kel[i]
  BY AppendFacts
<1>6. \A i \in 2..Len(a) : Follows(a[1].event, a[i - 1].event, a[i].event)
  BY <1>1 DEF WellMade, Replays
<1> HIDE DEF a, n
<1>7. n + 1 \in 2..Len(a) /\ (n + 1) - 1 = n /\ n \in 1..n
  BY <1>5
<1>8. Follows(a[1].event, last(kel), ev.event)
  BY <1>5, <1>6, <1>7 DEF last, n
<1>9. last(kel).type # "dip" /\ nextDigest(p.revealed) = last(kel).next
  BY <1>2, <1>8 DEF Follows
<1>10. p.kind # "dip" => p.next # None
  BY <1>2, <1>8 DEF Follows, checkRotation
<1>11. committedNextDigest(kel) = last(kel).next
  BY <1>9 DEF committedNextDigest, last
<1> QED
  BY <1>1, <1>2, <1>4, <1>9, <1>10, <1>11 DEF a, ev

\* Building an event keeps a controller good.
LEMMA BuildGood ==
  ASSUME NoneIsNil, NEW c, Good(c), NEW p, MaterialOK(c.kel, p), NEW w, NEW ts \in Int,
         buildEventAccepts(c.kel, p, w, ts)
  PROVE  Good(buildLocked(c, p, w, ts)) /\ buildLocked(c, p, w, ts).kel = c.kel
<1> DEFINE kel == c.kel
           ev == buildEvent(kel, p, w, ts)
           q == [ kind |-> p.kind, revealed |-> p.revealed, next |-> p.next,
                  emergency |-> p.emergency, event |-> ev ]
           d == buildLocked(c, p, w, ts)
<1>1. /\ Fields(c) /\ WellMade(kel) /\ FirstOK(kel) /\ c.state \in States /\ KeysOK(c)
  BY DEF Good
<1>2. /\ WellMade(Append(kel, ev)) /\ ev.event.key = p.revealed
      /\ last(kel).type # "dip"
      /\ nextDigest(p.revealed) = last(kel).next
      /\ committedNextDigest(kel) = last(kel).next
      /\ p.kind # "dip" => p.next # None
      /\ ev = buildEvent(kel, p, ev.event.witness, ev.event.ts)
  BY <1>1, AcceptedFacts
<1>3. ev # None
  BY DEF buildEvent, NoneIsNil
<1>4. \A u, t : buildEvent(kel, q, u, t) = buildEvent(kel, p, u, t)
  BY DEF buildEvent
<1>5. [p EXCEPT !.event = ev] = q
  <2> HIDE DEF ev
  <2> QED
    BY DEF IsPending, MaterialOK
<1>6. d = [c EXCEPT !.pending = q]
  BY <1>5 DEF buildLocked
<1> HIDE DEF ev
<1>7. /\ q.kind = p.kind /\ q.revealed = p.revealed /\ q.next = p.next /\ q.event = ev
      /\ q.emergency = p.emergency /\ IsPending(q)
  BY DEF IsPending
<1> HIDE DEF q, d
<1>8. d = [kel |-> c.kel, cur |-> c.cur, hot |-> c.hot, pending |-> q, state |-> c.state]
  BY <1>1, <1>6 DEF Fields
<1>9. /\ d.kel = kel /\ d.cur = c.cur /\ d.hot = c.hot /\ d.pending = q /\ d.state = c.state /\ Fields(d)
  BY <1>8 DEF Fields
<1>10. MaterialOK(kel, q)
  BY <1>7 DEF MaterialOK
<1>11. restorePendingAccepts(kel, q)
  <2>1. /\ buildEventAccepts(kel, q, ev.event.witness, ev.event.ts)
        /\ ev = buildEvent(kel, q, ev.event.witness, ev.event.ts)
    BY <1>2, <1>4 DEF buildEventAccepts, WellMade
  <2>2. IF q.kind = "dip" THEN q.next = None /\ ~q.emergency ELSE q.next # None
    BY <1>2, <1>7, <1>10 DEF MaterialOK
  <2> QED
    BY <1>2, <1>3, <1>7, <1>10, <2>1, <2>2 DEF restorePendingAccepts, MaterialOK
<1>12. PendingOK(kel, q)
  BY <1>2, <1>7, <1>10, <1>11 DEF PendingOK
<1>13. KeysOK(d)
  <2>1. q # None
    BY <1>7 DEF NoneIsNil
  <2> QED
    BY <1>1, <1>9, <2>1 DEF KeysOK
<1> QED
  BY <1>1, <1>9, <1>12, <1>13 DEF Good, d

\* The file of a good controller restores, and to exactly that controller.
LEMMA ExportFacts ==
  ASSUME NEW c, Good(c)
  PROVE  /\ RestoreAccepts(Export(c)) /\ Restore(Export(c)) = c
         /\ Export(c).kel = c.kel /\ Export(c).pending = c.pending
<1> DEFINE f == Export(c)
<1>1. /\ f.kel = c.kel /\ f.cur = c.cur /\ f.pending = c.pending /\ f.state = c.state
      /\ f.hotNext = IF Len(c.kel) = 1 THEN c.hot ELSE None
  BY DEF Export
<1>2. /\ Fields(c) /\ Replays(c.kel) /\ c.state \in States /\ KeysOK(c) /\ PendingOK(c.kel, c.pending)
  BY DEF Good, WellMade
<1> HIDE DEF f
<1>3. f.hotNext = c.hot
  BY <1>1, <1>2 DEF KeysOK
<1>4. RestoreAccepts(f)
  <2>1. f.hotNext # None => Len(f.kel) = 1 /\ nextDigest(f.hotNext) = f.kel[1].event.next
    BY <1>1, <1>2, <1>3 DEF KeysOK
  <2>2. f.pending # None => restorePendingAccepts(f.kel, f.pending)
    BY <1>1, <1>2 DEF PendingOK
  <2>3. IF f.cur = None THEN f.pending # None
        ELSE \/ f.cur = last(f.kel).key
             \/ f.pending # None /\ f.pending.event # None /\ f.cur = f.pending.event.event.key
    BY <1>1, <1>2 DEF KeysOK
  <2> QED
    BY <1>1, <1>2, <2>1, <2>2, <2>3 DEF RestoreAccepts
<1>5. Restore(f) = c
  <2>1. (IF f.cur = last(f.kel).key THEN f.cur ELSE None) = c.cur
    BY <1>1, <1>2 DEF KeysOK
  <2>2. Restore(f) = [kel |-> c.kel, hot |-> c.hot, pending |-> c.pending, state |-> c.state, cur |-> c.cur]
    BY <1>1, <1>3, <2>1 DEF Restore
  <2> QED
    BY <1>2, <2>2 DEF Fields
<1> QED
  BY <1>1, <1>4, <1>5 DEF f

\* The KEL a good controller signs under.
LEMMA LockedFacts ==
  ASSUME NEW c, Good(c)
  PROVE  /\ WellMade(kelLocked(c)) /\ FirstOK(kelLocked(c)) /\ kelLocked(c)[1] = c.kel[1]
         /\ Len(c.kel) \in Nat /\ Len(c.kel) >= 1
         /\ ~Built(c) => kelLocked(c) = c.kel
         /\ Built(c) =>
              /\ kelLocked(c) = Append(c.kel, c.pending.event)
              /\ Len(kelLocked(c)) = Len(c.kel) + 1
              /\ \A i \in 1..Len(c.kel) : kelLocked(c)[i] = c.kel[i]
              /\ last(kelLocked(c)).key = c.pending.revealed
              /\ nextDigest(c.pending.revealed) = last(c.kel).next
              /\ c.pending.revealed \in Key /\ IsPending(c.pending)
<1> DEFINE a == Append(c.kel, c.pending.event)
           n == Len(c.kel)
<1>1. WellMade(c.kel) /\ FirstOK(c.kel) /\ PendingOK(c.kel, c.pending)
  BY DEF Good
<1>2. n \in Nat /\ n >= 1 /\ Len(a) = n + 1 /\ a[n + 1] = c.pending.event /\ \A i \in 1..n : a[i] = c.kel[i]
  BY <1>1, AppendFacts
<1>3. CASE ~Built(c)
  <2>1. kelLocked(c) = c.kel
    BY <1>3 DEF kelLocked, Built
  <2> QED
    BY <1>1, <1>2, <1>3, <2>1
<1>4. CASE Built(c)
  <2>1. kelLocked(c) = a
    BY <1>4 DEF kelLocked, Built
  <2>2. /\ WellMade(a) /\ c.pending.event.event.key = c.pending.revealed
        /\ c.pending.revealed \in Key /\ IsPending(c.pending)
        /\ nextDigest(c.pending.revealed) = committedNextDigest(c.kel) /\ last(c.kel).type # "dip"
    BY <1>1, <1>4 DEF PendingOK, MaterialOK, restorePendingAccepts, Built
  <2>3. committedNextDigest(c.kel) = last(c.kel).next
    BY <2>2 DEF committedNextDigest, last
  <2> HIDE DEF a, n
  <2>4. last(a).key = c.pending.revealed
    BY <1>2, <2>2 DEF last
  <2>5. a[1] = c.kel[1] /\ FirstOK(a)
    BY <1>1, <1>2 DEF FirstOK
  <2> QED
    BY <1>2, <1>4, <2>1, <2>2, <2>3, <2>4, <2>5 DEF a, n
<1> QED
  BY <1>3, <1>4

\* An adopted event's key is the one the KEL had committed.
LEMMA OwnsLocked ==
  ASSUME NEW c, Good(c), NEW seq, NEW key, Owns(c.kel, seq, key)
  PROVE  Owns(kelLocked(c), seq, key)
<1> DEFINE k == kelLocked(c)
           n == Len(c.kel)
<1>1. n \in Nat /\ n >= 1 /\ (~Built(c) => k = c.kel)
  BY LockedFacts
<1>2. CASE Built(c)
  <2>1. /\ Len(k) = n + 1 /\ \A i \in 1..n : k[i] = c.kel[i]
        /\ last(k).key = c.pending.revealed /\ nextDigest(c.pending.revealed) = last(c.kel).next
    BY <1>2, LockedFacts
  <2>2. seq \in 0..n /\ (seq < n => c.kel[seq + 1].event.key = key) /\ (seq = n => nextDigest(key) = last(c.kel).next)
    BY DEF Owns
  <2>3. seq = n => key = last(k).key
    BY <2>1, <2>2, OneKey
  <2> HIDE DEF k, n
  <2>4. seq = n => k[seq + 1].event.key = key
    BY <2>1, <2>3 DEF last
  <2>5. seq < n => k[seq + 1].event.key = key
    BY <1>1, <2>1, <2>2
  <2> QED
    BY <1>1, <2>1, <2>2, <2>4, <2>5 DEF Owns, k
<1> QED
  BY <1>1, <1>2

\* The key a controller signs with is the one its KEL shows or commits.
LEMMA SnapshotFacts ==
  ASSUME NEW c, Good(c), Snapshot(c).key # None
  PROVE  /\ Snapshot(c).key = last(kelLocked(c)).key
         /\ Owns(c.kel, Len(kelLocked(c)) - 1, Snapshot(c).key)
<1> DEFINE k == kelLocked(c)
           n == Len(c.kel)
           key == Snapshot(c).key
<1>1. n \in Nat /\ n >= 1 /\ (~Built(c) => k = c.kel)
  BY LockedFacts
<1>2. CASE Built(c)
  <2>1. /\ Len(k) = n + 1
        /\ last(k).key = c.pending.revealed /\ nextDigest(c.pending.revealed) = last(c.kel).next
    BY <1>2, LockedFacts
  <2>2. key = c.pending.revealed
    BY <1>2 DEF Snapshot, signingLocked, Built
  <2> HIDE DEF k, n, key
  <2>3. Len(k) - 1 = n
    BY <1>1, <2>1
  <2> QED
    BY <1>1, <2>1, <2>2, <2>3 DEF Owns, k, n, key
<1>3. CASE ~Built(c)
  <2>1. key = c.cur
    BY <1>3 DEF Snapshot, signingLocked, Built
  <2>2. key = last(c.kel).key
    BY <2>1 DEF Good, KeysOK
  <2> HIDE DEF k, key
  <2>3. n - 1 \in 0..n /\ n - 1 # n /\ (n - 1) + 1 = n
    BY <1>1
  <2>4. Owns(c.kel, n - 1, key)
    BY <2>2, <2>3 DEF Owns, last
  <2> QED
    BY <1>1, <1>3, <2>2, <2>4 DEF k, key
<1> QED
  BY <1>2, <1>3

-----------------------------------------------------------------------------
(* The steps. *)

\* A call of the owner that leaves the accepted events alone.
LEMMA OwnerStep ==
  ASSUME Inv, Persisted, NEW d, Good(d), d.kel = ctl.kel, ctl' = d, UNCHANGED <<file, now, snap, signed>>
  PROVE  Inv'
<1>1. file.kel = ctl.kel
  BY ExportFacts DEF Inv, Persisted
<1>2. FileBehind'
  BY <1>1 DEF FileBehind
<1>3. Good(ctl)' /\ FileOK'
  BY DEF Inv, FileOK
<1>4. SignedOK' /\ SnapsOK'
  BY DEF Inv, SignedOK, SnapsOK, GoodSnap
<1> QED
  BY <1>2, <1>3, <1>4 DEF Inv

\* The hot key or a recovery key, as the Build methods take it.
LEMMA RevealedFacts ==
  ASSUME NEW c, Good(c), NEW revealed, revealed = None \/ revealed \in {RecoverySeed(rs, Len(c.kel)) : rs \in Seeds},
         revealedLockedAccepts(c, revealed)
  PROVE  revealedLocked(c, revealed) \in Key
<1>1. Len(c.kel) \in Nat
  BY LockedFacts
<1>2. CASE revealed = None
  BY <1>2 DEF revealedLockedAccepts, revealedLocked, Good, KeysOK, OptKey
<1>3. CASE revealed # None
  BY <1>1, <1>3 DEF revealedLocked, RecoverySeed, Key
<1> QED
  BY <1>2, <1>3

\* A planned designation of the first witness.
LEMMA DesignateInv == ASSUME NoneIsNil, Inv, DesignateWitness PROVE Inv'
<1>1. PICK witness \in OwnerWitness, next \in OwnerNext :
        /\ Persisted /\ BuildWitnessDesignationAccepts(ctl, witness, next, now)
        /\ ctl' = BuildWitnessDesignation(ctl, witness, next, now)
        /\ UNCHANGED <<file, now, snap, signed>>
  BY DEF DesignateWitness
<1> DEFINE planned == FALSE
           p == Material("witness", ctl.hot, next, planned)
<1>2. /\ buildEventAccepts(ctl.kel, p, witness, now) /\ ctl' = buildLocked(ctl, p, witness, now)
      /\ toadLocked(ctl.kel) = ToadAgent /\ Len(ctl.kel) = 1 /\ ctl.hot # None
  BY <1>1 DEF BuildWitnessDesignationAccepts, BuildWitnessDesignation
<1>3. p.revealed = ctl.hot /\ ~p.emergency
  BY DEF Material
<1> HIDE DEF planned
<1>4. IsPending(p) /\ p.kind = "witness"
  BY MaterialFacts
<1>5. Good(ctl) /\ now \in Int
  BY DEF Inv
<1> HIDE DEF p
<1>6. MaterialOK(ctl.kel, p)
  BY <1>2, <1>3, <1>4, <1>5 DEF MaterialOK, Good, KeysOK, OptKey
<1>7. Good(buildLocked(ctl, p, witness, now)) /\ buildLocked(ctl, p, witness, now).kel = ctl.kel
  BY <1>2, <1>5, <1>6, BuildGood
<1> QED
  BY <1>1, <1>2, <1>7, OwnerStep

\* A rot: an agent's first event is a designation, because no recovery key is the hot key.
LEMMA RotateInv == ASSUME NoneIsNil, Inv, Rotate PROVE Inv'
<1>1. PICK revealed \in OwnerKeys, next \in OwnerNext, witness \in OwnerWitness, emergency \in BOOLEAN :
        /\ Persisted /\ BuildRotationAccepts(ctl, revealed, next, witness, emergency, now)
        /\ ctl' = BuildRotation(ctl, revealed, next, witness, emergency, now)
        /\ UNCHANGED <<file, now, snap, signed>>
  BY DEF Rotate
<1> DEFINE p == Material("rot", revealedLocked(ctl, revealed), next, emergency)
<1>2. /\ buildEventAccepts(ctl.kel, p, witness, now) /\ ctl' = buildLocked(ctl, p, witness, now)
      /\ revealedLockedAccepts(ctl, revealed)
      /\ ~(revealed = None /\ toadLocked(ctl.kel) = ToadAgent)
  BY <1>1 DEF BuildRotationAccepts, BuildRotation
<1>3. Good(ctl) /\ now \in Int
  BY DEF Inv
<1>4. p.revealed \in Key
  <2>1. revealedLocked(ctl, revealed) \in Key
    BY <1>2, <1>3, RevealedFacts DEF OwnerKeys
  <2> QED
    BY <2>1 DEF Material
<1>5. IsPending(p) /\ p.kind = "rot"
  BY MaterialFacts
<1>6. ASSUME toadLocked(ctl.kel) = ToadAgent, Len(ctl.kel) = 1 PROVE FALSE
  <2>1. revealed # None
    BY <1>2, <1>6
  <2>2. PICK rs \in Seeds : revealed = RecoverySeed(rs, 1)
    BY <1>6, <2>1 DEF OwnerKeys
  <2>3. ctl.kel[1].event.next = nextDigest(k1) /\ ctl.kel[1].event.type = "icp"
    BY <1>3 DEF Good, FirstOK, incept, inceptWith, SignedEvent
  <2>4. nextDigest(revealed) = nextDigest(k1)
    BY <1>2, <1>6, <2>1, <2>3 DEF revealedLockedAccepts, committedNextDigest
  <2>5. revealed = k1
    BY <2>4, OneKey
  <2>6. <<rs, 1>> = <<"random", 1>>
    BY <2>2, <2>5 DEF RecoverySeed, k1
  <2>7. rs = "random"
    BY <2>6
  <2> QED
    BY <2>7, SeedsAssumption
<1> HIDE DEF p
<1>7. MaterialOK(ctl.kel, p)
  BY <1>4, <1>5, <1>6 DEF MaterialOK
<1>8. Good(buildLocked(ctl, p, witness, now)) /\ buildLocked(ctl, p, witness, now).kel = ctl.kel
  BY <1>2, <1>3, <1>7, BuildGood
<1> QED
  BY <1>1, <1>2, <1>8, OwnerStep

\* A dip.
LEMMA DeactivateInv == ASSUME NoneIsNil, Inv, Deactivate PROVE Inv'
<1>1. PICK revealed \in OwnerKeys :
        /\ Persisted /\ BuildDeactivationAccepts(ctl, revealed, now)
        /\ ctl' = BuildDeactivation(ctl, revealed, now)
        /\ UNCHANGED <<file, now, snap, signed>>
  BY DEF Deactivate
<1> DEFINE planned == FALSE
           p == Material("dip", revealedLocked(ctl, revealed), None, planned)
<1>2. /\ buildEventAccepts(ctl.kel, p, None, now) /\ ctl' = buildLocked(ctl, p, None, now)
      /\ revealedLockedAccepts(ctl, revealed)
  BY <1>1 DEF BuildDeactivationAccepts, BuildDeactivation
<1>3. Good(ctl) /\ now \in Int
  BY DEF Inv
<1>4. p.revealed \in Key /\ ~p.emergency /\ p.next = None
  <2>1. revealedLocked(ctl, revealed) \in Key
    BY <1>2, <1>3, RevealedFacts DEF OwnerKeys
  <2> QED
    BY <2>1 DEF Material
<1> HIDE DEF planned
<1>5. IsPending(p) /\ p.kind = "dip"
  BY MaterialFacts
<1> HIDE DEF p
<1>6. MaterialOK(ctl.kel, p)
  BY <1>4, <1>5 DEF MaterialOK
<1>7. Good(buildLocked(ctl, p, None, now)) /\ buildLocked(ctl, p, None, now).kel = ctl.kel
  BY <1>2, <1>3, <1>6, BuildGood
<1> QED
  BY <1>1, <1>2, <1>7, OwnerStep

\* The pending event is built again.
LEMMA RestampInv == ASSUME NoneIsNil, Inv, RestampPending PROVE Inv'
<1> DEFINE p == ctl.pending
           w == restampWitness(ctl)
<1>1. /\ Persisted /\ p # None /\ buildEventAccepts(ctl.kel, p, w, now)
      /\ ctl' = Restamp(ctl, now) /\ UNCHANGED <<file, now, snap, signed>>
  BY DEF RestampPending, RestampAccepts
<1>2. Good(ctl) /\ now \in Int
  BY DEF Inv
<1>3. Restamp(ctl, now) = buildLocked(ctl, p, w, now)
  BY <1>2 DEF Restamp, buildLocked, Good, Fields
<1>4. MaterialOK(ctl.kel, p)
  BY <1>1, <1>2 DEF Good, PendingOK
<1> HIDE DEF p, w
<1>5. Good(buildLocked(ctl, p, w, now)) /\ buildLocked(ctl, p, w, now).kel = ctl.kel
  BY <1>1, <1>2, <1>4, BuildGood
<1> QED
  BY <1>1, <1>3, <1>5, OwnerStep

\* A designation is dropped, the state set.
LEMMA DropInv == ASSUME Inv, DropDesignation \/ ChangeState PROVE Inv'
<1>1. Good(ctl) /\ Fields(ctl)
  BY DEF Inv, Good
<1>2. ctl = [kel |-> ctl.kel, cur |-> ctl.cur, hot |-> ctl.hot, pending |-> ctl.pending, state |-> ctl.state]
  BY <1>1 DEF Fields
<1>3. CASE DropDesignation
  <2> DEFINE d == DiscardPending(ctl)
  <2>1. Persisted /\ ctl.hot # None /\ ctl' = d /\ UNCHANGED <<file, now, snap, signed>>
    BY <1>3 DEF DropDesignation, DiscardPendingAccepts
  <2>2. d = [kel |-> ctl.kel, cur |-> ctl.cur, hot |-> ctl.hot, pending |-> None, state |-> ctl.state]
    BY <1>2 DEF DiscardPending
  <2> HIDE DEF d
  <2>3. /\ Fields(d) /\ d.kel = ctl.kel /\ d.cur = ctl.cur /\ d.hot = ctl.hot /\ d.pending = None
        /\ d.state = ctl.state
    BY <2>2 DEF Fields
  <2>4. KeysOK(d)
    BY <1>1, <2>1, <2>3 DEF Good, KeysOK
  <2>5. Good(d)
    BY <1>1, <2>3, <2>4 DEF Good, PendingOK
  <2> QED
    BY <2>1, <2>3, <2>5, OwnerStep
<1>4. CASE ChangeState
  <2>1. PICK state \in States : Persisted /\ ctl' = SetState(ctl, state) /\ UNCHANGED <<file, now, snap, signed>>
    BY <1>4 DEF ChangeState
  <2> DEFINE d == SetState(ctl, state)
  <2>2. d = [kel |-> ctl.kel, cur |-> ctl.cur, hot |-> ctl.hot, pending |-> ctl.pending, state |-> state]
    BY <1>2 DEF SetState
  <2> HIDE DEF d
  <2>3. /\ Fields(d) /\ d.kel = ctl.kel /\ d.cur = ctl.cur /\ d.hot = ctl.hot /\ d.pending = ctl.pending
        /\ d.state \in States
    BY <2>2 DEF Fields
  <2>4. Good(d)
    BY <1>1, <2>3 DEF Good, KeysOK
  <2> QED
    BY <2>1, <2>3, <2>4, OwnerStep DEF d
<1> QED
  BY <1>3, <1>4

\* The pending event is adopted.
LEMMA AdoptInv == ASSUME Inv, AdoptPending PROVE Inv'
<1> DEFINE c == ctl
           d == Adopt(ctl, ctl.pending.event)
           k == kelLocked(ctl)
<1>1. /\ Persisted /\ Built(c) /\ ctl' = d /\ UNCHANGED <<file, now, snap, signed>> /\ Good(c)
  BY DEF AdoptPending, Inv
<1>2. /\ WellMade(k) /\ FirstOK(k) /\ k[1] = c.kel[1]
      /\ k = Append(c.kel, c.pending.event) /\ last(k).key = c.pending.revealed /\ c.pending.revealed \in Key
      /\ Len(k) = Len(c.kel) + 1
  BY <1>1, LockedFacts
<1>3. d = [kel |-> k, cur |-> c.pending.revealed, hot |-> None, pending |-> None, state |-> c.state]
  <2>1. c = [kel |-> c.kel, cur |-> c.cur, hot |-> c.hot, pending |-> c.pending, state |-> c.state]
    BY <1>1 DEF Good, Fields
  <2>2. d = [c EXCEPT !.kel = k, !.cur = c.pending.revealed, !.hot = None, !.pending = None]
    BY <1>2 DEF Adopt
  <2> HIDE DEF c, d, k
  <2> QED
    BY <2>1, <2>2
<1> HIDE DEF d
<1>4. /\ Fields(d) /\ d.kel = k /\ d.cur = c.pending.revealed /\ d.hot = None /\ d.pending = None
      /\ d.state = c.state
  BY <1>3 DEF Fields
<1>5. Good(d)
  <2>1. c.pending.revealed # None
    <3>1. checkShape(last(k))
      <4>1. Len(c.kel) \in Nat /\ Len(c.kel) >= 1
        BY <1>1, LockedFacts
      <4>2. \A i \in 2..Len(k) : Follows(k[1].event, k[i - 1].event, k[i].event)
        BY <1>2 DEF WellMade, Replays
      <4> HIDE DEF k, c
      <4>3. Len(k) \in 2..Len(k)
        BY <1>2, <4>1
      <4> QED
        BY <4>2, <4>3 DEF Follows, last
    <3> QED
      BY <1>2, <3>1 DEF checkShape
  <2>2. KeysOK(d)
    BY <1>2, <1>4, <2>1 DEF KeysOK, OptKey
  <2> QED
    BY <1>1, <1>2, <1>4, <2>2 DEF Good, PendingOK
<1>6. file.kel = c.kel /\ file.pending = c.pending
  BY <1>1, ExportFacts DEF Persisted
<1>7. FileBehind'
  BY <1>1, <1>2, <1>4, <1>6 DEF FileBehind, Built
<1>8. ASSUME NEW seq, NEW key, Owns(ctl.kel, seq, key) PROVE Owns(ctl'.kel, seq, key)
  <2>1. Owns(k, seq, key)
    BY <1>1, <1>8, OwnsLocked
  <2> QED
    BY <1>1, <1>4, <2>1 DEF Owns
<1>9. SignedOK'
  <2> SUFFICES ASSUME NEW o \in signed
               PROVE  o.key \in Key /\ Owns(ctl'.kel, o.seq, o.key) /\ Owns(file.kel, o.seq, o.key)
    BY <1>1 DEF SignedOK
  <2>1. o.key \in Key /\ Owns(ctl.kel, o.seq, o.key) /\ Owns(file.kel, o.seq, o.key)
    BY DEF Inv, SignedOK
  <2> QED
    BY <1>8, <2>1
<1>10. SnapsOK'
  <2> SUFFICES ASSUME NEW s \in Signers, snap[s] # None PROVE GoodSnap(snap[s])'
    BY <1>1 DEF SnapsOK
  <2> DEFINE sn == snap[s]
  <2>1. GoodSnap(sn)
    BY DEF Inv, SnapsOK
  <2>2. sn.kel[1] = ctl'.kel[1]
    BY <1>1, <1>2, <1>4, <2>1 DEF GoodSnap
  <2>3. sn.key # None => Owns(ctl'.kel, Len(sn.kel) - 1, sn.key)
    BY <1>8, <2>1 DEF GoodSnap
  <2> QED
    BY <1>1, <2>1, <2>2, <2>3 DEF GoodSnap
<1> QED
  BY <1>1, <1>5, <1>7, <1>9, <1>10 DEF Inv, FileOK

\* The file is written.
LEMMA PersistInv == ASSUME Inv, Persist PROVE Inv'
<1>1. file' = Export(ctl) /\ UNCHANGED <<ctl, now, snap, signed>> /\ Good(ctl)
  BY DEF Persist, Inv
<1>2. file'.kel = ctl.kel
  BY <1>1, ExportFacts
<1>3. FileOK' /\ FileBehind'
  BY <1>1, <1>2 DEF FileOK, FileBehind
<1>4. SignedOK' /\ SnapsOK'
  BY <1>1, <1>2 DEF Inv, SignedOK, SnapsOK, GoodSnap
<1> QED
  BY <1>1, <1>3, <1>4 DEF Inv

\* The process starts again from the file.
LEMMA RestartInv == ASSUME Inv, Restart PROVE Inv'
<1>1. ctl' = Restore(file) /\ snap' = [s \in Signers |-> None] /\ UNCHANGED <<file, now, signed>>
  BY DEF Restart
<1>2. PICK c : Good(c) /\ file = Export(c)
  BY DEF Inv, FileOK
<1>3. ctl' = c /\ file.kel = c.kel
  BY <1>1, <1>2, ExportFacts
<1>4. Good(ctl)' /\ FileOK' /\ FileBehind'
  BY <1>1, <1>2, <1>3 DEF FileOK, FileBehind
<1>5. SignedOK' /\ SnapsOK'
  BY <1>1, <1>3 DEF Inv, SignedOK, SnapsOK
<1> QED
  BY <1>1, <1>4, <1>5 DEF Inv

\* A recover starts from the accepted events, or these and the pending one.
LEMMA RecoverInv == ASSUME Inv, Recover PROVE Inv'
<1>1. PICK rs \in Seeds, kel \in {ctl.kel, kelLocked(ctl)} :
        /\ RestoreAccepts(RecoverFile(kel, rs))
        /\ file' = RecoverFile(kel, rs) /\ ctl' = Restore(RecoverFile(kel, rs))
        /\ snap' = [s \in Signers |-> None] /\ UNCHANGED <<now, signed>>
  BY DEF Recover
<1> DEFINE f == RecoverFile(kel, rs)
           d == Restore(f)
           urgent == TRUE
           p == Material("rot", RecoverySeed(rs, Len(kel)), NextDigest(rs, Len(kel) + 1), urgent)
<1>2. WellMade(kel) /\ FirstOK(kel) /\ Len(kel) \in Nat
  <2>1. Good(ctl)
    BY DEF Inv
  <2>2. WellMade(kel) /\ FirstOK(kel)
    BY <2>1, LockedFacts DEF Good
  <2> QED
    BY <2>2 DEF WellMade, IsSeq
<1>3. f.kel = kel /\ f.cur = None /\ f.hotNext = None /\ f.state = "ok" /\ f.pending = p
  BY DEF RecoverFile
<1>4. f = [kel |-> kel, cur |-> None, hotNext |-> None, state |-> "ok", pending |-> p]
  BY DEF RecoverFile
<1>5. p.revealed = RecoverySeed(rs, Len(kel))
  BY DEF Material
<1> HIDE DEF urgent
<1>6. IsPending(p) /\ p.kind = "rot" /\ p.event = None
  BY MaterialFacts
<1> HIDE DEF f, p
<1>7. d = [kel |-> kel, cur |-> None, hot |-> None, pending |-> p, state |-> "ok"]
  BY <1>3 DEF Restore
<1> HIDE DEF d
<1>8. /\ Fields(d) /\ d.kel = kel /\ d.cur = None /\ d.hot = None /\ d.pending = p /\ d.state = "ok"
  BY <1>7 DEF Fields
<1>9. Export(d) = f
  BY <1>4, <1>8 DEF Export
<1>10. restorePendingAccepts(kel, p) /\ p # None
  BY <1>1, <1>3 DEF RestoreAccepts, f
<1>11. MaterialOK(kel, p)
  BY <1>2, <1>5, <1>6, <1>10 DEF MaterialOK, restorePendingAccepts, RecoverySeed, Key
<1>12. Good(d)
  <2>1. PendingOK(kel, p)
    BY <1>6, <1>10, <1>11 DEF PendingOK
  <2>2. KeysOK(d)
    BY <1>8, <1>10 DEF KeysOK, OptKey
  <2> QED
    BY <1>2, <1>8, <2>1, <2>2 DEF Good, States
<1>13. ctl' = d /\ file' = f
  BY <1>1 DEF d, f
<1>14. Good(ctl)' /\ FileOK' /\ FileBehind'
  BY <1>3, <1>8, <1>9, <1>12, <1>13 DEF FileOK, FileBehind
<1>15. SignedOK'
  <2> SUFFICES ASSUME NEW o \in signed PROVE o.key \in Key /\ Owns(kel, o.seq, o.key)
    BY <1>1, <1>3, <1>8, <1>13 DEF SignedOK
  <2>1. o.key \in Key /\ Owns(ctl.kel, o.seq, o.key) /\ Good(ctl)
    BY DEF Inv, SignedOK
  <2>2. Owns(kelLocked(ctl), o.seq, o.key)
    BY <2>1, OwnsLocked
  <2> QED
    BY <2>1, <2>2
<1>16. SnapsOK'
  BY <1>1 DEF SnapsOK
<1> QED
  BY <1>1, <1>14, <1>15, <1>16 DEF Inv

\* The clock.
LEMMA TickInv == ASSUME Inv, Tick PROVE Inv'
<1>1. now' \in 1..MaxTime /\ UNCHANGED <<ctl, file, snap, signed>>
  BY BoundsAssumption DEF Tick, Inv
<1> QED
  BY <1>1 DEF Inv, FileOK, FileBehind, SignedOK, SnapsOK, GoodSnap

\* A snapshot belongs to the KEL the controller signs under, which the file's owner can restore.
LEMMA SnapshotInv == ASSUME Inv, NEW s \in Signers, SnapshotOf(s) PROVE Inv'
<1> DEFINE sn == Snapshot(ctl)
           k == kelLocked(ctl)
           n == Len(k) - 1
<1>1. snap' = [snap EXCEPT ![s] = sn] /\ UNCHANGED <<ctl, file, now, signed>> /\ Good(ctl) /\ DOMAIN snap = Signers
  BY DEF SnapshotOf, Inv
<1>2. WellMade(k) /\ k[1] = ctl.kel[1]
  BY <1>1, LockedFacts
<1>3. sn.kel = k
  BY DEF Snapshot
<1>4. sn.key \in OptKey
  <2>1. sn.key = signingLocked(ctl).key
    BY DEF Snapshot
  <2>2. CASE Built(ctl)
    <3>1. sn.key = ctl.pending.revealed
      BY <2>1, <2>2 DEF signingLocked, Built
    <3> QED
      BY <1>1, <2>2, <3>1, LockedFacts DEF OptKey
  <2>3. CASE ~Built(ctl)
    <3>1. sn.key = ctl.cur
      BY <2>1, <2>3 DEF signingLocked, Built
    <3> QED
      BY <1>1, <3>1 DEF Good, KeysOK
  <2> QED
    BY <2>2, <2>3
<1>5. sn.key # None => sn.key = last(k).key /\ Owns(ctl.kel, n, sn.key)
  BY <1>1, SnapshotFacts
<1>6. sn.key # None => Owns(file.kel, n, sn.key)
  <2> SUFFICES ASSUME sn.key # None PROVE Owns(file.kel, n, sn.key)
    OBVIOUS
  <2>1. CASE file.kel = ctl.kel
    BY <1>5, <2>1
  <2>2. CASE /\ file.pending # None /\ file.pending.event # None
             /\ ctl.kel = Append(file.kel, file.pending.event) /\ ctl.pending = None
    <3> DEFINE m == Len(file.kel)
    <3>1. k = ctl.kel
      BY <2>2 DEF kelLocked
    <3>2. WellMade(file.kel)
      <4>1. PICK c : Good(c) /\ file = Export(c)
        BY DEF Inv, FileOK
      <4>2. file.kel = c.kel
        BY <4>1, ExportFacts
      <4> QED
        BY <4>1, <4>2 DEF Good
    <3>3. m \in Nat /\ m >= 1 /\ Len(ctl.kel) = m + 1 /\ \A i \in 1..m : ctl.kel[i] = file.kel[i]
      BY <2>2, <3>2, AppendFacts
    <3>4. \A i \in 2..Len(k) : Follows(k[1].event, k[i - 1].event, k[i].event)
      BY <1>2 DEF WellMade, Replays
    <3> HIDE DEF k, sn, m, n
    <3>5. Len(k) \in 2..Len(k) /\ Len(k) - 1 = m /\ m \in 1..m /\ m \in 0..m /\ n = m
      BY <3>1, <3>3 DEF n
    <3>6. Follows(k[1].event, k[m].event, last(k))
      BY <3>4, <3>5 DEF last
    <3>7. nextDigest(sn.key) = last(file.kel).next
      BY <1>5, <3>1, <3>3, <3>5, <3>6 DEF Follows, last, m
    <3> QED
      BY <3>5, <3>7 DEF Owns, m
  <2> QED
    BY <2>1, <2>2 DEF Inv, FileBehind
<1> HIDE DEF sn, k
<1>7. GoodSnap(sn)
  BY <1>2, <1>3, <1>4, <1>5, <1>6 DEF GoodSnap
<1>8. SnapsOK'
  <2> SUFFICES ASSUME NEW t \in Signers, snap'[t] # None PROVE GoodSnap(snap[t])'
    BY DEF SnapsOK
  <2>1. snap'[t] = sn \/ (snap'[t] = snap[t] /\ snap[t] # None)
    BY <1>1
  <2>2. GoodSnap(snap'[t])
    BY <1>7, <2>1 DEF Inv, SnapsOK
  <2> QED
    BY <1>1, <2>2 DEF GoodSnap
<1>9. DOMAIN snap' = Signers
  BY <1>1
<1> QED
  BY <1>1, <1>8, <1>9 DEF Inv, FileOK, FileBehind, SignedOK

\* An object is signed.
LEMMA SignInv == ASSUME Inv, NEW s \in Signers, SignObject(s) PROVE Inv'
<1> DEFINE sn == snap[s]
           o == [seq |-> SeqOf(sn), key |-> sn.key]
<1>1. /\ sn # None /\ snap' = [snap EXCEPT ![s] = None] /\ UNCHANGED <<ctl, file, now>>
      /\ signed' = signed \/ (sn.key # None /\ signed' = signed \cup {o})
      /\ DOMAIN snap = Signers
  BY DEF SignObject, Inv
<1>2. GoodSnap(sn)
  BY <1>1 DEF Inv, SnapsOK
<1>3. SeqOf(sn) = Len(sn.kel) - 1
  <2>1. Len(sn.kel) \in Nat /\ Len(sn.kel) > 0
    BY <1>2 DEF GoodSnap, WellMade, IsSeq, Replays
  <2> QED
    BY <1>2, <2>1 DEF GoodSnap, WellMade, SeqOf
<1>4. o.seq = Len(sn.kel) - 1 /\ o.key = sn.key
  BY <1>3
<1> HIDE DEF o
<1>5. SignedOK'
  <2> SUFFICES ASSUME NEW q \in signed'
               PROVE  q.key \in Key /\ Owns(ctl.kel, q.seq, q.key) /\ Owns(file.kel, q.seq, q.key)
    BY <1>1 DEF SignedOK
  <2>1. CASE q \in signed
    BY <2>1 DEF Inv, SignedOK
  <2>2. CASE q = o /\ sn.key # None
    <3>1. sn.key \in Key
      BY <1>2, <2>2 DEF GoodSnap, OptKey
    <3> QED
      BY <1>2, <1>4, <2>2, <3>1 DEF GoodSnap
  <2> QED
    BY <1>1, <2>1, <2>2
<1>6. SnapsOK'
  BY <1>1 DEF Inv, SnapsOK, GoodSnap
<1>7. DOMAIN snap' = Signers
  BY <1>1
<1> QED
  BY <1>1, <1>5, <1>6, <1>7 DEF Inv, FileOK, FileBehind

\* The first state.
LEMMA InitInv == Init => Inv
<1> SUFFICES ASSUME Init PROVE Inv
  OBVIOUS
<1>1. PICK toad \in {ToadHub, ToadAgent} : ctl = incept(1, toad)
  BY DEF Init
<1> DEFINE icp == ctl.kel[1]
<1>2. /\ Fields(ctl) /\ ctl.kel = <<icp>> /\ ctl.cur = k0 /\ ctl.hot = k1 /\ ctl.pending = None /\ ctl.state = "ok"
  <2>1. ctl.kel = <<ctl.kel[1]>>
    BY <1>1 DEF incept, inceptWith
  <2> QED
    BY <1>1, <2>1 DEF incept, inceptWith, Fields
<1>3. /\ icp.event.seq = 0 /\ icp.event.ts = 1 /\ icp.signer = icp.event.key
      /\ icp = SignedEvent(icp.event, icp.event.key)
      /\ icp.event.key = k0 /\ icp.event.next = nextDigest(k1)
  BY <1>1 DEF incept, inceptWith, SignedEvent
<1>4. checkInception(icp.event)
  BY <1>1, NoneAssumption DEF incept, inceptWith, SignedEvent, checkInception, checkShape, ToadAgent, ToadHub
<1>5. FirstOK(ctl.kel)
  BY <1>1 DEF FirstOK
<1> HIDE DEF icp
<1>6. Len(ctl.kel) = 1 /\ ctl.kel[1] = icp /\ DOMAIN ctl.kel = 1..1 /\ IsSeq(ctl.kel)
  <2> DEFINE q == <<icp>>
  <2>1. Len(q) = 1 /\ q[1] = icp /\ DOMAIN q = 1..1 /\ IsSeq(q)
    BY DEF IsSeq
  <2> QED
    BY <1>2, <2>1
<1>7. Replays(ctl.kel)
  BY <1>3, <1>4, <1>6 DEF Replays
<1>8. WellMade(ctl.kel)
  BY <1>3, <1>6, <1>7 DEF WellMade
<1>9. KeysOK(ctl)
  <2>1. k0 \in Key /\ k1 \in Key
    BY DEF k0, k1, Key
  <2>2. last(ctl.kel).key = k0 /\ k0 # None
    BY <1>3, <1>6, NoneAssumption DEF last
  <2> QED
    BY <1>2, <1>3, <1>6, <2>1, <2>2 DEF KeysOK, OptKey
<1>10. Good(ctl)
  BY <1>2, <1>5, <1>8, <1>9 DEF Good, PendingOK, States
<1>11. file = Export(ctl) /\ file.kel = ctl.kel
  BY <1>10, ExportFacts DEF Init
<1>12. FileOK /\ FileBehind
  BY <1>10, <1>11 DEF FileOK, FileBehind
<1>13. now \in 1..MaxTime /\ DOMAIN snap = Signers /\ SignedOK /\ SnapsOK
  BY BoundsAssumption DEF Init, SignedOK, SnapsOK
<1> QED
  BY <1>10, <1>12, <1>13 DEF Inv

\* Every step keeps the invariant.
LEMMA NextInv == ASSUME NoneIsNil, Inv, [Next]_vars PROVE Inv'
<1>1. CASE UNCHANGED vars
  BY <1>1 DEF vars, Inv, FileOK, FileBehind, SignedOK, SnapsOK, GoodSnap
<1>2. CASE DesignateWitness
  BY <1>2, DesignateInv
<1>3. CASE Rotate
  BY <1>3, RotateInv
<1>4. CASE Deactivate
  BY <1>4, DeactivateInv
<1>5. CASE RestampPending
  BY <1>5, RestampInv
<1>6. CASE AdoptPending
  BY <1>6, AdoptInv
<1>7. CASE DropDesignation \/ ChangeState
  BY <1>7, DropInv
<1>8. CASE Persist
  BY <1>8, PersistInv
<1>9. CASE Restart
  BY <1>9, RestartInv
<1>10. CASE Recover
  BY <1>10, RecoverInv
<1>11. CASE Tick
  BY <1>11, TickInv
<1>12. ASSUME NEW s \in Signers, SnapshotOf(s) \/ SignObject(s) PROVE Inv'
  BY <1>12, SnapshotInv, SignInv
<1> QED
  BY <1>1, <1>2, <1>3, <1>4, <1>5, <1>6, <1>7, <1>8, <1>9, <1>10, <1>11, <1>12 DEF Next

-----------------------------------------------------------------------------
(* The theorems. *)

\* The inductive invariant holds of every life of an identity.
THEOREM Invariance == ASSUME NoneIsNil PROVE Spec => []Inv
<1>1. Inv /\ [Next]_vars => Inv'
  BY NextInv
<1> QED
  BY <1>1, InitInv, PTL DEF Spec

\* A crash at any point is survived: the file on disk restores, and what the controller would
\* write now restores to exactly the controller (Export, Restore).
THEOREM Restartable == ASSUME NoneIsNil PROVE Spec => []RestartSafe
<1>1. Inv => RestartSafe
  <2> SUFFICES ASSUME Inv PROVE RestartSafe
    OBVIOUS
  <2>1. RestoreAccepts(Export(ctl)) /\ Restore(Export(ctl)) = ctl
    BY ExportFacts DEF Inv
  <2>2. RestoreAccepts(file)
    <3>1. PICK c : Good(c) /\ file = Export(c)
      BY DEF Inv, FileOK
    <3> QED
      BY <3>1, ExportFacts
  <2> QED
    BY <2>1, <2>2 DEF RestartSafe
<1> QED
  BY <1>1, Invariance, PTL

\* However the identity restamps, discards, restarts, recovers or rotates, its KEL never shows
\* another key at the seq that an object it signed names (SnapshotOf, Restamp, DiscardPending).
THEOREM NeverDisowned == ASSUME NoneIsNil PROVE Spec => []SignedNeverDisowned
<1>1. Inv => SignedNeverDisowned
  <2> SUFFICES ASSUME Inv, NEW o \in signed
               PROVE  VerifyObject(kelLocked(ctl), AIDOf(ctl.kel), o.seq, 0, o.key)
                        \notin {"INVALID_SIGNATURE", "UNKNOWN_AID"}
    BY DEF SignedNeverDisowned
  <2> DEFINE k == kelLocked(ctl)
             ks == KeyState(k, o.seq + 1)
  <2>1. Replays(k) /\ AIDOf(k) = AIDOf(ctl.kel) /\ Len(k) \in Nat
    <3>1. WellMade(k) /\ k[1] = ctl.kel[1]
      BY LockedFacts DEF Inv
    <3> HIDE DEF k
    <3> QED
      BY <3>1 DEF WellMade, AIDOf, IsSeq
  <2>2. Owns(k, o.seq, o.key)
    BY OwnsLocked DEF Inv, SignedOK
  <2> SUFFICES VerifyObject(k, AIDOf(ctl.kel), o.seq, 0, o.key) \notin {"INVALID_SIGNATURE", "UNKNOWN_AID"}
    OBVIOUS
  <2> HIDE DEF k
  <2>3. CASE o.seq >= Len(k)
    BY <2>1, <2>3 DEF VerifyObject
  <2>4. CASE o.seq < Len(k)
    <3>1. k[o.seq + 1].event.key = o.key
      BY <2>2, <2>4 DEF Owns
    <3>2. ks.status # "deactivated" => ks.key = o.key
      BY <3>1 DEF KeyState
    <3> HIDE DEF ks
    <3>3. ~(o.seq >= Len(k))
      BY <2>1, <2>2, <2>4 DEF Owns
    <3>4. VerifyObject(k, AIDOf(ctl.kel), o.seq, 0, o.key) \in {"REVOKED_KEY", "ok"}
      <4>1. CASE ks.status = "deactivated"
        BY <2>1, <3>3, <4>1 DEF VerifyObject, ks
      <4>2. CASE ks.status = "active"
        BY <2>1, <3>2, <3>3, <4>2 DEF VerifyObject, ks
      <4>3. CASE ks.status \notin {"deactivated", "active"}
        BY <2>1, <3>2, <3>3, <4>3 DEF VerifyObject, ks
      <4> QED
        BY <4>1, <4>2, <4>3
    <3> QED
      BY <3>4
  <2> QED
    BY <2>1, <2>2, <2>3, <2>4 DEF Owns
<1> QED
  BY <1>1, Invariance, PTL

\* What a snapshot signs verifies against the KEL it carries, whatever the controller did since,
\* and that KEL and the controller's own replay (buildEvent, SnapshotOf).
THEOREM Verifies == ASSUME NoneIsNil PROVE Spec => []HandedOutVerifies
<1>1. Inv => HandedOutVerifies
  <2> SUFFICES ASSUME Inv PROVE TypeOK /\ HandedOutReplays /\ SnapshotVerifies
    BY DEF HandedOutVerifies
  <2>1. TypeOK
    <3>1. \A o \in signed : o.seq \in Nat /\ o.key \in Key
      <4>1. Len(ctl.kel) \in Nat
        BY LockedFacts DEF Inv
      <4> QED
        BY <4>1 DEF Inv, SignedOK, Owns
    <3> QED
      BY <3>1 DEF Inv, Good, KeysOK, PendingOK, MaterialOK, TypeOK
  <2>2. HandedOutReplays
    BY LockedFacts DEF Inv, HandedOutReplays, WellMade
  <2>3. SnapshotVerifies
    <3> SUFFICES ASSUME NEW s \in Signers, snap[s] # None, snap[s].key # None, Tip(snap[s].kel).status # "deactivated"
                 PROVE  VerifyObject(snap[s].kel, AIDOf(ctl.kel), SeqOf(snap[s]), 0, snap[s].key) = "ok"
      BY DEF SnapshotVerifies
    <3> DEFINE k == snap[s].kel
               ks == KeyState(k, Len(k))
    <3>1. WellMade(k) /\ k[1] = ctl.kel[1] /\ snap[s].key = last(k).key
      BY DEF Inv, SnapsOK, GoodSnap
    <3>2. Replays(k) /\ AIDOf(k) = AIDOf(ctl.kel) /\ Len(k) \in Nat /\ Len(k) > 0
      BY <3>1 DEF WellMade, AIDOf, IsSeq, Replays
    <3>3. SeqOf(snap[s]) = Len(k) - 1
      BY <3>1, <3>2 DEF WellMade, SeqOf
    <3>4. ks.status # "deactivated"
      BY DEF Tip
    <3>5. ks.status = "active" /\ ks.key = last(k).key
      BY <3>4 DEF KeyState, last
    <3> HIDE DEF k, ks
    <3>6. ~(Len(k) - 1 >= Len(k)) /\ (Len(k) - 1) + 1 = Len(k)
      BY <3>2
    <3>7. VerifyObject(k, AIDOf(ctl.kel), Len(k) - 1, 0, last(k).key) = "ok"
      BY <3>2, <3>5, <3>6 DEF VerifyObject, ks
    <3> QED
      BY <3>1, <3>3, <3>7 DEF k
  <2> QED
    BY <2>1, <2>2, <2>3
<1> QED
  BY <1>1, Invariance, PTL
=============================================================================
