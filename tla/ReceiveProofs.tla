---------------------------- MODULE ReceiveProofs ----------------------------
(***************************************************************************)
(* Theorems about Receive for any lifetime, skews, grace and ages within   *)
(* ReceiveAssumption, and any number of messages in flight.                *)
(*                                                                         *)
(* Inv relates the KELs its parties keep: the hub's, the receiver's and    *)
(* the one a message carries are each a first part of the agent's, and so  *)
(* for the witness's KEL and notices.  Of every message it keeps what      *)
(* decides its fate: what a sender bound it to (GoodMessage), that a final *)
(* refusal has a cause no later state removes (Dead), and that a planned   *)
(* rotation alone is never that cause (Excused).                           *)
(***************************************************************************)
EXTENDS Receive, TLAPS

-----------------------------------------------------------------------------
(* KELs. *)

IsSeq(s) == s \in Seq({s[i] : i \in DOMAIN s})

\* a is the first part of b.
Begins(a, b) ==
  IsSeq(a) /\ IsSeq(b) /\ Len(a) <= Len(b) /\ \A i \in 1..Len(a) : a[i] = b[i]

\* A KEL replays, and its events are numbered and timed.
WellMade(kel) ==
  /\ IsSeq(kel) /\ Replays(kel)
  /\ \A i \in 1..Len(kel) : kel[i].event.seq = i - 1 /\ kel[i].event.ts \in Int

\* The first part of a well-made KEL is one.
LEMMA BeginsWellMade ==
  ASSUME NEW b, WellMade(b), NEW a, Begins(a, b), Len(a) >= 1
  PROVE  WellMade(a) /\ AIDOf(a) = AIDOf(b) /\ toadLocked(a) = toadLocked(b)
<1>1. Len(a) \in Nat /\ Len(b) \in Nat /\ Len(a) <= Len(b) /\ IsSeq(a)
  BY DEF Begins, WellMade, IsSeq
<1>2. \A i \in 1..Len(a) : a[i] = b[i] /\ i \in 1..Len(b)
  BY <1>1 DEF Begins
<1>3. 1 \in 1..Len(a)
  BY <1>1
<1>4. Replays(a)
  <2>1. \A i \in 2..Len(a) : i \in 1..Len(a) /\ i - 1 \in 1..Len(a) /\ i \in 2..Len(b)
    BY <1>1
  <2>2. a[1].event = b[1].event
    BY <1>2, <1>3
  <2>3. checkInception(a[1].event)
    BY <2>2 DEF WellMade, Replays
  <2>4. ASSUME NEW i \in 2..Len(a) PROVE Follows(a[1].event, a[i - 1].event, a[i].event)
    <3>1. Follows(b[1].event, b[i - 1].event, b[i].event)
      BY <2>1 DEF WellMade, Replays
    <3>2. a[i] = b[i] /\ a[i - 1] = b[i - 1]
      BY <1>2, <2>1
    <3> QED
      BY <2>2, <3>1, <3>2
  <2>5. ASSUME NEW i \in 1..Len(a) PROVE a[i].signer = a[i].event.key
    BY <1>2 DEF WellMade, Replays
  <2> QED
    BY <1>1, <2>3, <2>4, <2>5 DEF Replays
<1> QED
  BY <1>1, <1>2, <1>3, <1>4 DEF WellMade, AIDOf, toadLocked

\* The state after an event that was not the last is the same in any longer KEL; the last one's
\* is not yet superseded.
LEMMA StateOf ==
  ASSUME NEW b, WellMade(b), NEW a, Begins(a, b), NEW i \in 1..Len(a)
  PROVE  /\ KeyState(a, i).key = KeyState(b, i).key /\ KeyState(b, i).seq = i - 1
         /\ KeyState(a, i).status = "deactivated" <=> KeyState(b, i).status = "deactivated"
         /\ KeyState(a, i).witness = KeyState(b, i).witness
         /\ KeyState(a, i).toad = KeyState(b, i).toad
         /\ KeyState(a, i).lastEventID = KeyState(b, i).lastEventID
         /\ i < Len(a) \/ Len(a) = Len(b) => KeyState(a, i) = KeyState(b, i)
         /\ i = Len(a) => /\ KeyState(a, i).status \in {"active", "deactivated"}
                          /\ ~KeyState(a, i).retiredUrgently
         /\ i < Len(b) => /\ KeyState(b, i).status \in {"rotated", "deactivated"}
                          /\ KeyState(b, i).supersededAt = b[i + 1].event.ts
                          /\ KeyState(b, i).retiredUrgently
                               <=> b[i + 1].event.type = "dip" \/ b[i + 1].event.emergency
<1>1. Len(a) \in Nat /\ Len(b) \in Nat /\ Len(a) <= Len(b)
  BY DEF Begins, WellMade, IsSeq
<1>2. \A j \in 1..Len(a) : a[j] = b[j]
  BY DEF Begins
<1>3. 1 \in 1..Len(a) /\ i \in 1..Len(b)
  BY <1>1
<1>4. b[i].event.seq = i - 1
  BY <1>3 DEF WellMade
<1>5. a[i] = b[i] /\ a[1] = b[1]
  BY <1>2, <1>3
<1>6. b[i].event.type = "dip" => i - 1 \in 1..Len(a)
  <2>1. i = 1 => b[i].event.type = "icp"
    BY DEF WellMade, Replays, checkInception
  <2>2. i # 1 => i - 1 \in 1..Len(a)
    BY <1>1
  <2> QED
    BY <2>1, <2>2
<1>7. b[i].event.type = "dip" => a[i - 1] = b[i - 1]
  BY <1>2, <1>6
<1>8. i < Len(a) => a[i + 1] = b[i + 1]
  BY <1>1, <1>2
<1>9. i < Len(a) \/ Len(a) = Len(b) => (i = Len(a) <=> i = Len(b)) /\ (i # Len(a) => a[i + 1] = b[i + 1])
  BY <1>1, <1>8
<1>10. i < Len(b) => i # Len(b)
  BY <1>1
<1> QED
  BY <1>3, <1>4, <1>5, <1>7, <1>9, <1>10 DEF KeyState

\* What a longer KEL lets a key do, a shorter one did.
LEMMA UsableBefore ==
  ASSUME NEW b, WellMade(b), NEW a, Begins(a, b), NEW seq \in Nat, seq < Len(a), NEW at,
         RetiredUsableAt(KeyState(b, seq + 1), at)
  PROVE  RetiredUsableAt(KeyState(a, seq + 1), at)
<1>1. Len(a) \in Nat /\ Len(b) \in Nat /\ Len(a) <= Len(b)
  BY DEF Begins, WellMade, IsSeq
<1>2. seq + 1 \in 1..Len(a)
  BY <1>1
<1>3. CASE seq + 1 < Len(a)
  BY <1>2, <1>3, StateOf
<1>4. CASE seq + 1 = Len(a)
  <2>1. KeyState(b, seq + 1).status # "deactivated"
    BY DEF RetiredUsableAt
  <2>2. KeyState(a, seq + 1).status = "active"
    BY <1>2, <1>4, <2>1, StateOf
  <2> QED
    BY <2>2 DEF RetiredUsableAt
<1> QED
  BY <1>1, <1>2, <1>3, <1>4

LEMMA ObjectBefore ==
  ASSUME NEW b, WellMade(b), NEW a, Begins(a, b), NEW seq \in Nat, seq < Len(a), NEW aid, NEW t, NEW sig,
         VerifyObject(b, aid, seq, t, sig) = "ok"
  PROVE  VerifyObject(a, aid, seq, t, sig) = "ok"
<1>1. Len(a) \in Nat /\ Len(b) \in Nat /\ Len(a) <= Len(b) /\ Len(a) >= 1
  BY DEF Begins, WellMade, IsSeq
<1>2. seq + 1 \in 1..Len(a) /\ ~(seq >= Len(a)) /\ ~(seq >= Len(b))
  BY <1>1
<1>3. WellMade(a) /\ AIDOf(a) = AIDOf(b)
  BY <1>1, BeginsWellMade
<1>4. Replays(a) /\ Replays(b)
  BY <1>3 DEF WellMade
<1> DEFINE ka == KeyState(a, seq + 1)
           kb == KeyState(b, seq + 1)
           judge(ks) == CASE ks.status = "deactivated" -> "REVOKED_KEY"
                          [] ks.status # "deactivated" /\ sig # ks.key -> "INVALID_SIGNATURE"
                          [] ks.status = "active" /\ sig = ks.key -> "ok"
                          [] OTHER -> IF t = 0 \/ t >= ks.supersededAt THEN "REVOKED_KEY" ELSE "ok"
<1>5. AIDOf(b) = aid /\ VerifyObject(b, aid, seq, t, sig) = judge(kb)
  BY <1>2, <1>4 DEF VerifyObject
<1>6. VerifyObject(a, aid, seq, t, sig) = judge(ka)
  BY <1>2, <1>3, <1>4, <1>5 DEF VerifyObject
<1>7. ka = kb \/ (ka.key = kb.key /\ (ka.status = "deactivated" <=> kb.status = "deactivated")
                  /\ ka.status \in {"active", "deactivated"})
  BY <1>1, <1>2, StateOf
<1> HIDE DEF ka, kb
<1>8. judge(kb) = "ok" => judge(ka) = "ok"
  <2>1. judge(kb) = "ok" => kb.status # "deactivated" /\ sig = kb.key
    OBVIOUS
  <2> QED
    BY <1>7, <2>1
<1> QED
  BY <1>5, <1>6, <1>8

\* Begins is an order, and a KEL begins what is appended to it.
LEMMA BeginsTrans ==
  ASSUME NEW a, NEW b, NEW c, Begins(a, b), Begins(b, c)
  PROVE  Begins(a, c)
<1>1. /\ IsSeq(a) /\ IsSeq(c) /\ Len(a) \in Nat /\ Len(b) \in Nat /\ Len(c) \in Nat
      /\ Len(a) <= Len(b) /\ Len(b) <= Len(c)
  BY DEF Begins, IsSeq
<1>2. \A i \in 1..Len(a) : i \in 1..Len(b) /\ a[i] = b[i]
  BY <1>1 DEF Begins
<1>3. \A i \in 1..Len(b) : b[i] = c[i]
  BY DEF Begins
<1> QED
  BY <1>1, <1>2, <1>3 DEF Begins

LEMMA BeginsSelf == ASSUME NEW a, IsSeq(a) PROVE Begins(a, a)
BY DEF Begins, IsSeq

LEMMA BeginsNothing == ASSUME NEW b, IsSeq(b) PROVE Begins(<<>>, b)
<1>1. IsSeq(<<>>) /\ Len(<<>>) = 0
  BY DEF IsSeq
<1>2. Len(b) \in Nat
  BY DEF IsSeq
<1> QED
  BY <1>1, <1>2 DEF Begins

\* Begins of one KEL are comparable, and equally long ones are one.
LEMMA BeginsOf ==
  ASSUME NEW a, NEW b, NEW c, Begins(a, c), Begins(b, c), Len(a) <= Len(b)
  PROVE  Begins(a, b) /\ (Len(a) = Len(b) => a = b)
<1>1. IsSeq(a) /\ IsSeq(b) /\ Len(a) \in Nat /\ Len(b) \in Nat
  BY DEF Begins, IsSeq
<1>2. \A i \in 1..Len(a) : i \in 1..Len(b)
  BY <1>1
<1>3. \A i \in 1..Len(a) : a[i] = b[i]
  BY <1>2 DEF Begins
<1>4. ASSUME Len(a) = Len(b) PROVE a = b
  <2>1. DOMAIN a = 1..Len(a) /\ DOMAIN b = 1..Len(b) /\ a = [i \in DOMAIN a |-> a[i]] /\ b = [i \in DOMAIN b |-> b[i]]
    BY <1>1 DEF IsSeq
  <2> QED
    BY <1>3, <1>4, <2>1
<1> QED
  BY <1>1, <1>3, <1>4 DEF Begins

\* The first i events of a KEL begin it.
LEMMA BeginsSub ==
  ASSUME NEW s, IsSeq(s), NEW i \in 1..Len(s)
  PROVE  /\ Begins(SubSeq(s, 1, i), s) /\ Len(SubSeq(s, 1, i)) = i
         /\ \A j \in 1..i : SubSeq(s, 1, i)[j] = s[j]
<1> DEFINE S == {s[j] : j \in DOMAIN s}
           t == SubSeq(s, 1, i)
<1>1. s \in Seq(S) /\ Len(s) \in Nat
  BY DEF IsSeq
<1> HIDE DEF S
<1>2. t \in Seq(S) /\ Len(t) = i /\ DOMAIN t = 1..i /\ \A j \in 1..i : t[j] = s[j]
  BY <1>1
<1> HIDE DEF t
<1>3. t \in [1..Len(t) -> {t[j] : j \in DOMAIN t}] /\ Len(t) \in Nat
  BY <1>1, <1>2
<1>4. IsSeq(t)
  BY <1>3 DEF IsSeq
<1> QED
  BY <1>1, <1>2, <1>4 DEF Begins, t

-----------------------------------------------------------------------------
(* What a KEL that grows keeps of a verdict. *)

\* A message's inner signature that a longer KEL still bears out was borne out by the shorter one.
LEMMA InnerBefore ==
  ASSUME NEW b, WellMade(b), NEW a, Begins(a, b), NEW m, m.seq \in Nat, m.seq < Len(a),
         VerifyInnerSig(m, b) = "ok"
  PROVE  VerifyInnerSig(m, a) = "ok"
<1>1. Len(a) \in Nat /\ Len(b) \in Nat /\ Len(a) >= 1 /\ Len(a) <= Len(b)
  BY DEF Begins, IsSeq
<1>2. WellMade(a) /\ AIDOf(a) = AIDOf(b)
  BY <1>1, BeginsWellMade
<1> DEFINE kb == KeyState(b, m.seq + 1)
           ka == KeyState(a, m.seq + 1)
           vb == VerifyObject(b, m.from, m.seq, m.ts, m.sig)
           va == VerifyObject(a, m.from, m.seq, m.ts, m.sig)
<1>3. /\ AIDOf(b) = m.from
      /\ (IF vb # "ok" THEN fromVErr(vb)
          ELSE IF SenderKeyUsable(kb, m.at) THEN "ok"
          ELSE IF kb.retiredUrgently THEN "revoked-key" ELSE "rotation-grace-expired") = "ok"
  BY <1>1 DEF VerifyInnerSig, WellMade
<1> HIDE DEF kb, ka, vb, va
<1>4. vb = "ok" /\ SenderKeyUsable(kb, m.at)
  BY <1>3 DEF fromVErr
<1>5. va = "ok"
  BY <1>4, ObjectBefore DEF va, vb
<1>6. RetiredUsableAt(ka, m.at)
  BY <1>4, UsableBefore DEF SenderKeyUsable, ka, kb
<1>7. m.seq + 1 \in 1..Len(a)
  BY <1>1
<1>8. ~ka.retiredUrgently
  <2>1. CASE m.seq + 1 < Len(a)
    <3>1. ka = kb
      BY <1>7, <2>1, StateOf DEF ka, kb
    <3> QED
      BY <1>4, <3>1 DEF SenderKeyUsable
  <2>2. CASE m.seq + 1 = Len(a)
    BY <1>7, <2>2, StateOf DEF ka
  <2> QED
    BY <1>1, <2>1, <2>2
<1> QED
  BY <1>1, <1>2, <1>3, <1>5, <1>6, <1>8 DEF VerifyInnerSig, WellMade, SenderKeyUsable, va, ka

\* A notice that fails against what is held of its witness, other than for want of it, fails
\* against any longer KEL of the witness.
LEMMA NoticeBefore ==
  ASSUME NEW b, WellMade(b), NEW a, Begins(a, b), NEW n, n.keySeq \in Nat, NEW kel, NEW at,
         VerifyNotice(n, kel, b, at) = "ok", n.keySeq < Len(a)
  PROVE  VerifyNotice(n, kel, a, at) = "ok"
<1>1. Len(a) \in Nat /\ Len(b) \in Nat /\ Len(a) >= 1 /\ Len(a) <= Len(b)
  BY DEF Begins, IsSeq
<1>2. WellMade(a) /\ AIDOf(a) = AIDOf(b) /\ toadLocked(a) = toadLocked(b)
  BY <1>1, BeginsWellMade
<1> DEFINE tip == Tip(kel)
<1> HIDE DEF tip
<1>3. /\ Replays(kel)
      /\ ~(tip.toad # ToadAgent \/ tip.witness = None)
      /\ ~(n.aid # AIDOf(kel) \/ n.seq # tip.seq \/ n.head # tip.lastEventID)
      /\ ~(n.witness # tip.witness \/ n.signer # n.witness)
      /\ toadLocked(b) = ToadHub
      /\ VerifyObject(b, n.witness, n.keySeq, n.observedAt, n.sig) = "ok"
      /\ RetiredUsableAt(KeyState(b, n.keySeq + 1), at)
      /\ ~(n.observedAt > at + EventClockWindow \/ at > n.observedAt + NoticeMaxAge)
  BY Zenon DEF VerifyNotice, tip
<1>4. /\ VerifyObject(a, n.witness, n.keySeq, n.observedAt, n.sig) = "ok"
      /\ RetiredUsableAt(KeyState(a, n.keySeq + 1), at)
  BY <1>3, ObjectBefore, UsableBefore
<1>5. ~(n.keySeq >= Len(a)) /\ Replays(a)
  BY <1>1, <1>2 DEF WellMade
<1> QED
  BY <1>2, <1>3, <1>4, <1>5 DEF VerifyNotice, tip


\* A notice that names a key state of its witness which is not held is judged by what it says
\* of the KEL alone.
LEMMA UnknownOrSame ==
  ASSUME NEW a, NEW b, NEW n, NEW kel, NEW at, n.keySeq >= Len(a),
         VerifyNotice(n, kel, a, at) # "witness-unknown"
  PROVE  VerifyNotice(n, kel, b, at) = VerifyNotice(n, kel, a, at) /\ VerifyNotice(n, kel, a, at) # "ok"
<1> DEFINE tip == Tip(kel)
<1> HIDE DEF tip
<1>1. \/ ~Replays(kel)
      \/ tip.toad # ToadAgent \/ tip.witness = None
      \/ n.aid # AIDOf(kel) \/ n.seq # tip.seq \/ n.head # tip.lastEventID
      \/ n.witness # tip.witness \/ n.signer # n.witness
  BY DEF VerifyNotice, tip
<1> QED
  BY <1>1 DEF VerifyNotice, tip

LEMMA UnknownMeans ==
  ASSUME NEW a, NEW n, NEW kel, NEW at, VerifyNotice(n, kel, a, at) = "witness-unknown"
  PROVE  n.keySeq >= Len(a)
BY DEF VerifyNotice

-----------------------------------------------------------------------------
(* Controllers and the events they build. *)

\* p has the fields of a pending event's material.
IsPending(p) ==
  p = [ kind |-> p.kind, revealed |-> p.revealed, next |-> p.next,
        emergency |-> p.emergency, event |-> p.event ]

\* c has the fields of a controller.
Fields(c) == c = [kel |-> c.kel, cur |-> c.cur, hot |-> c.hot, pending |-> c.pending, state |-> c.state]

\* The event buildEvent makes is signed by the key it reveals and follows the KEL's last one.
LEMMA BuildFacts ==
  ASSUME NEW kel, NEW p, NEW w, NEW ts
  PROVE  LET ev == buildEvent(kel, p, w, ts)
         IN  /\ ev = SignedEvent(ev.event, p.revealed) /\ ev.event.key = p.revealed
             /\ ev.event.seq = last(kel).seq + 1 /\ ev.event.ts = ts
             /\ ev.event.aid = AIDOf(kel) /\ ev.event.prev = CID(last(kel))
             /\ p.kind # "dip" => /\ ev.event.type = "rot" /\ ev.event.witness = w
                                  /\ ev.event.next = p.next /\ ev.event.toad = toadLocked(kel)
             /\ p.kind = "dip" => ev.event.type = "dip"
<1> DEFINE rot == p.kind # "dip"
           urgent == rot /\ p.emergency
<1> HIDE DEF urgent
<1> DEFINE event ==
             [ type |-> IF rot THEN "rot" ELSE "dip",
               aid |-> AIDOf(kel), seq |-> last(kel).seq + 1, prev |-> CID(last(kel)),
               key |-> p.revealed,
               next |-> IF rot THEN p.next ELSE None,
               toad |-> IF rot THEN toadLocked(kel) ELSE None,
               witness |-> IF rot THEN w ELSE None,
               emergency |-> urgent, ts |-> ts ]
<1>1. buildEvent(kel, p, w, ts) = SignedEvent(event, p.revealed)
  BY DEF buildEvent, urgent
<1>2. /\ event.key = p.revealed /\ event.seq = last(kel).seq + 1 /\ event.ts = ts
      /\ event.aid = AIDOf(kel) /\ event.prev = CID(last(kel))
      /\ rot => /\ event.type = "rot" /\ event.witness = w
                /\ event.next = p.next /\ event.toad = toadLocked(kel)
      /\ ~rot => event.type = "dip"
  OBVIOUS
<1> HIDE DEF event
<1>3. SignedEvent(event, p.revealed).event = event
  BY DEF SignedEvent
<1> QED
  BY <1>1, <1>2, <1>3

\* A KEL grows by an event at its end.
LEMMA AppendFacts ==
  ASSUME NEW kel, WellMade(kel), NEW ev
  PROVE  /\ Len(kel) \in Nat /\ Len(kel) >= 1
         /\ IsSeq(Append(kel, ev)) /\ Begins(kel, Append(kel, ev))
         /\ Len(Append(kel, ev)) = Len(kel) + 1
         /\ Append(kel, ev)[Len(kel) + 1] = ev
         /\ \A i \in 1..Len(kel) : Append(kel, ev)[i] = kel[i]
<1> DEFINE S == {kel[i] : i \in DOMAIN kel}
           a == Append(kel, ev)
<1>1. kel \in Seq(S \cup {ev}) /\ kel \in Seq(S) /\ Len(kel) \in Nat /\ Len(kel) >= 1
  BY DEF WellMade, Replays, IsSeq
<1> HIDE DEF S
<1>2. /\ a \in Seq(S \cup {ev}) /\ Len(a) = Len(kel) + 1 /\ a[Len(kel) + 1] = ev
      /\ DOMAIN a = 1 .. Len(kel) + 1
      /\ \A i \in 1..Len(kel) : a[i] = kel[i]
  BY <1>1
<1> HIDE DEF a
<1>3. IsSeq(a)
  <2>1. a \in [1 .. Len(a) -> {a[i] : i \in DOMAIN a}]
    BY <1>1, <1>2
  <2>2. Len(a) \in Nat
    BY <1>1, <1>2
  <2> QED
    BY <2>1, <2>2 DEF IsSeq
<1>4. Begins(kel, a)
  BY <1>1, <1>2, <1>3 DEF Begins, WellMade
<1> QED
  BY <1>1, <1>2, <1>3, <1>4 DEF a

\* What is built over a well-made KEL and replays is a well-made KEL.
LEMMA BuiltIsWellMade ==
  ASSUME NEW kel, WellMade(kel), NEW p, NEW w, NEW ts \in Int,
         Replays(Append(kel, buildEvent(kel, p, w, ts)))
  PROVE  WellMade(Append(kel, buildEvent(kel, p, w, ts)))
<1> DEFINE ev == buildEvent(kel, p, w, ts)
           a == Append(kel, ev)
           n == Len(kel)
<1>1. ev.event.seq = last(kel).seq + 1 /\ ev.event.ts \in Int
  BY BuildFacts
<1> HIDE DEF ev
<1>2. /\ n \in Nat /\ n >= 1 /\ IsSeq(a) /\ Len(a) = n + 1 /\ a[n + 1] = ev
      /\ \A i \in 1..n : a[i] = kel[i]
  BY AppendFacts
<1>3. last(kel).seq = n - 1
  BY <1>2 DEF WellMade, last
<1>4. Replays(a)
  BY DEF ev
<1> HIDE DEF a, n
<1>6. ASSUME NEW i \in 1..Len(a)
      PROVE  a[i].event.seq = i - 1 /\ a[i].event.ts \in Int
  <2>1. CASE i = n + 1
    <3>1. a[i].event.seq = n - 1 + 1
      BY <1>1, <1>2, <1>3, <2>1
    <3> QED
      BY <1>1, <1>2, <2>1, <3>1
  <2>2. CASE i \in 1..n
    BY <1>2, <2>2 DEF WellMade, n
  <2> QED
    BY <1>2, <2>1, <2>2
<1>7. WellMade(a)
  BY <1>2, <1>4, <1>6 DEF WellMade
<1> QED
  BY <1>7 DEF a, ev

\* A Material is a pending record without an event.
LEMMA MaterialFacts ==
  ASSUME NEW kind, NEW revealed, NEW next, NEW emergency
  PROVE  LET p == Material(kind, revealed, next, emergency)
         IN  /\ IsPending(p)
             /\ p.kind = kind /\ p.event = None
BY DEF Material, IsPending

-----------------------------------------------------------------------------
(* The inductive invariant. *)

\* None, which stands for nil, is no key, no digest, no event and no material of one.
NoneIsNil ==
  /\ \A a, b : <<a, b>> # None
  /\ \A e, key : SignedEvent(e, key) # None
  /\ \A p : IsPending(p) => p # None

ClocksOK == now \in Int /\ clock \in Int /\ 2 <= now /\ 2 <= clock

\* The sender's events are its hub's to witness; its second is the rot that names the hub.
AgentOK ==
  LET kel == agent.kel
  IN  /\ Fields(agent) /\ agent.pending = None /\ agent.cur = last(kel).key
      /\ WellMade(kel) /\ Len(kel) >= 2 /\ toadLocked(kel) = ToadAgent
      /\ kel[2].event.type = "rot"
      /\ \A i \in 2..Len(kel) : kel[i].event.type = "rot" => kel[i].event.witness = hubAID

WitnessedOK ==
  /\ witnessed \in Seq(Int) /\ Len(witnessed) = Len(agent.kel)
  /\ \A i \in 1..Len(agent.kel) :
       witnessed[i] <= now /\ agent.kel[i].event.ts <= witnessed[i] + EventClockWindow

\* A hub's key is replaced once, by the hot key of its icp.
HubOK ==
  LET kel == hub.kel
  IN  /\ Fields(hub) /\ hub.pending = None /\ hub.cur = last(kel).key
      /\ WellMade(kel) /\ Len(kel) \in {1, 2} /\ toadLocked(kel) = ToadHub /\ AIDOf(kel) = hubAID
      /\ Len(kel) = 2 => kel[2].event.type = "rot"

HeldOK == Begins(held, agent.kel) /\ Begins(hubHeld, hub.kel) /\ Len(hubHeld) >= 1

\* A notice is about the sender's tip of its time, and signed with the hub's key of its time.
NoticesOK ==
  \A n \in notices :
    /\ n.observedAt \in 2..now
    /\ n.aid = AIDOf(agent.kel) /\ n.witness = hubAID /\ n.signer = hubAID
    /\ n.seq \in 1 .. Len(agent.kel) - 1 /\ n.head = CID(agent.kel[n.seq + 1].event)
    /\ n.seq + 2 <= Len(agent.kel) => n.observedAt <= witnessed[n.seq + 2]
    /\ n.keySeq \in 0 .. Len(hub.kel) - 1 /\ n.sig = hub.kel[n.keySeq + 1].event.key
    /\ n.keySeq + 2 <= Len(hub.kel) => n.observedAt <= hub.kel[n.keySeq + 2].event.ts

IsMessage(m) ==
  m = [ from |-> m.from, kel |-> m.kel, seq |-> m.seq, sig |-> m.sig, notice |-> m.notice,
        ts |-> m.ts, exp |-> m.exp, at |-> m.at, current |-> m.current ]

\* A message that the sender itself sealed: under its key state of then, before it replaced it.
Current(m) ==
  /\ m.notice.seq = m.seq /\ last(m.kel).type # "dip"
  /\ 2 <= m.ts /\ m.ts <= clock
  /\ \A i \in m.seq + 2 .. Len(agent.kel) : m.ts <= agent.kel[i].event.ts

GoodMessage(m) ==
  /\ IsMessage(m)
  /\ m.ts \in Int /\ m.exp = m.ts + MaxMessageLifetime /\ m.ts <= now + SenderSkew
  /\ Begins(m.kel, agent.kel) /\ Len(m.kel) >= 2 /\ m.seq = Len(m.kel) - 1
  /\ m.from = AIDOf(agent.kel) /\ m.sig = last(m.kel).key
  /\ m.notice \in notices
  /\ m.current => Current(m)

Arrived(m) == m.at \in Int /\ m.at <= now /\ m.notice.observedAt <= m.at

\* The notice was about the message's key state and no older than NoticeMaxAge.
Fresh(m) == m.notice.seq = m.seq /\ m.at <= m.notice.observedAt + NoticeMaxAge

\* Why a refusal is final: a time that has passed, a notice that fails against what is held of the
\* witness, or a signature that fails against what is held of the sender.
Dead(m) ==
  \/ now > m.exp
  \/ VerifyNotice(m.notice, m.kel, hubHeld, m.at) \notin {"ok", "witness-unknown"}
  \/ Len(held) >= Len(m.kel) /\ VerifyInnerSig(m, held) # "ok"

\* What PlannedRotationLosesNothing allows a refusal for.
Excused(m) ==
  \/ now > m.exp
  \/ m.ts > m.at + ClockSkew
  \/ m.at > m.ts + RotationGrace
  \/ m.at > m.notice.observedAt + RotationGrace
  \/ \E i \in m.seq + 2 .. Len(agent.kel) : agent.kel[i].event.emergency \/ agent.kel[i].event.type = "dip"
  \/ \E i \in m.seq + 2 .. Len(agent.kel) : agent.kel[i].event.ts = m.ts
  \/ Len(hub.kel) > 1 /\ (hub.kel[2].event.emergency \/ hub.kel[2].event.ts = m.notice.observedAt)

TransitOK  == \A m \in transit : GoodMessage(m)
InboxOK    == \A m \in inbox : GoodMessage(m) /\ Arrived(m)
AcceptedOK == \A m \in accepted : GoodMessage(m) /\ Arrived(m) /\ Fresh(m)

RefusedOK ==
  \A r \in refused :
    /\ GoodMessage(r.msg) /\ Arrived(r.msg)
    /\ r.reason \notin AheadOfClock => Dead(r.msg)
    /\ r.msg.current => Excused(r.msg)

Inv ==
  /\ ClocksOK /\ AgentOK /\ WitnessedOK /\ HubOK /\ HeldOK /\ NoticesOK
  /\ TransitOK /\ InboxOK /\ AcceptedOK /\ RefusedOK

-----------------------------------------------------------------------------
(* What every step keeps. *)

\* Clocks go on, KELs only grow, and a new event of the sender is no earlier than its clock.
Steady ==
  /\ now' \in Int /\ now <= now' /\ clock' \in Int /\ clock <= clock'
  /\ Begins(agent.kel, agent.kel') /\ Begins(hub.kel, hub.kel')
  /\ Begins(held, held') /\ Begins(hubHeld, hubHeld')
  /\ notices \subseteq notices'
  /\ \A i \in Len(agent.kel) + 1 .. Len(agent.kel') : clock <= agent.kel'[i].event.ts

\* The lengths the proofs count with.
LEMMA Lengths ==
  ASSUME Inv
  PROVE  /\ Len(agent.kel) \in Nat /\ Len(agent.kel) >= 2 /\ IsSeq(agent.kel) /\ WellMade(agent.kel)
         /\ Len(hub.kel) \in {1, 2} /\ IsSeq(hub.kel) /\ WellMade(hub.kel)
         /\ IsSeq(held) /\ Len(held) \in Nat /\ IsSeq(hubHeld) /\ Len(hubHeld) \in Nat
<1>1. AgentOK /\ HubOK /\ HeldOK
  BY DEF Inv
<1>2. WellMade(agent.kel) /\ Len(agent.kel) >= 2
  BY <1>1 DEF AgentOK
<1>3. WellMade(hub.kel) /\ Len(hub.kel) \in {1, 2}
  BY <1>1 DEF HubOK
<1>4. IsSeq(agent.kel) /\ IsSeq(hub.kel)
  BY <1>2, <1>3 DEF WellMade
<1>5. IsSeq(held) /\ IsSeq(hubHeld)
  BY <1>1 DEF HeldOK, Begins
<1>6. Len(agent.kel) \in Nat /\ Len(held) \in Nat /\ Len(hubHeld) \in Nat
  BY <1>4, <1>5 DEF IsSeq
<1> QED
  BY <1>2, <1>3, <1>4, <1>5, <1>6

LEMMA MessageLengths ==
  ASSUME Inv, NEW m, GoodMessage(m)
  PROVE  /\ Len(m.kel) \in Nat /\ Len(m.kel) >= 2 /\ m.seq \in Nat /\ m.seq = Len(m.kel) - 1
         /\ Len(m.kel) <= Len(agent.kel) /\ IsSeq(m.kel) /\ Begins(m.kel, agent.kel)
<1>1. Begins(m.kel, agent.kel) /\ Len(m.kel) >= 2 /\ m.seq = Len(m.kel) - 1
  BY DEF GoodMessage
<1>2. IsSeq(m.kel) /\ Len(m.kel) <= Len(agent.kel)
  BY <1>1 DEF Begins
<1>3. Len(m.kel) \in Nat
  BY <1>2 DEF IsSeq
<1> QED
  BY <1>1, <1>2, <1>3

\* A step of Steady leaves a good message good, an arrived one arrived.
LEMMA MessageKept ==
  ASSUME Inv, Steady, AgentOK', SenderSkew \in Int, NEW m, GoodMessage(m)
  PROVE  GoodMessage(m)' /\ (Arrived(m) => Arrived(m)')
<1>1. /\ Len(agent.kel) \in Nat /\ Len(agent.kel) >= 2 /\ Len(m.kel) \in Nat /\ Len(m.kel) <= Len(agent.kel)
      /\ m.seq = Len(m.kel) - 1
  BY Lengths, MessageLengths
<1>2. Begins(m.kel, agent.kel')
  BY MessageLengths, BeginsTrans DEF Steady
<1>3. AIDOf(agent.kel') = AIDOf(agent.kel)
  <2>1. 1 \in 1..Len(agent.kel)
    BY <1>1
  <2> QED
    BY <2>1 DEF AIDOf, Steady, Begins
<1>4. now \in Int /\ clock \in Int /\ now' \in Int /\ clock' \in Int /\ now <= now' /\ clock <= clock'
  BY DEF Inv, ClocksOK, Steady
<1>5. m.ts \in Int /\ m.ts <= now' + SenderSkew
  BY <1>4 DEF GoodMessage
<1>6. ASSUME m.current PROVE Current(m)'
  <2>1. Current(m)
    BY <1>6 DEF GoodMessage
  <2>2. 2 <= m.ts /\ m.ts <= clock'
    BY <1>4, <1>5, <2>1 DEF Current
  <2>3. ASSUME NEW i \in m.seq + 2 .. Len(agent.kel') PROVE m.ts <= agent.kel'[i].event.ts
    <3>1. CASE i <= Len(agent.kel)
      <4>1. i \in 1..Len(agent.kel) /\ i \in m.seq + 2 .. Len(agent.kel)
        BY <1>1, <3>1
      <4>2. agent.kel'[i] = agent.kel[i]
        BY <4>1 DEF Steady, Begins
      <4> QED
        BY <2>1, <4>1, <4>2 DEF Current
    <3>2. CASE ~(i <= Len(agent.kel))
      <4>1. i \in Len(agent.kel) + 1 .. Len(agent.kel')
        BY <1>1, <3>2
      <4>2. clock <= agent.kel'[i].event.ts
        BY <4>1 DEF Steady
      <4>3. i \in 1..Len(agent.kel')
        BY <1>1, <4>1
      <4>4. agent.kel'[i].event.ts \in Int
        BY <4>3 DEF AgentOK, WellMade
      <4> QED
        BY <1>4, <1>5, <2>1, <4>2, <4>4 DEF Current
    <3> QED
      BY <3>1, <3>2
  <2> QED
    BY <2>1, <2>2, <2>3 DEF Current
<1>7. GoodMessage(m)'
  BY <1>2, <1>3, <1>5, <1>6 DEF GoodMessage, Steady
<1>8. Arrived(m) => Arrived(m)'
  BY <1>4 DEF Arrived
<1> QED
  BY <1>7, <1>8

\* What made a refusal final, and what excuses it, stays so.
LEMMA DeadKept ==
  ASSUME Inv, Steady, AgentOK', HubOK', HeldOK', NEW m, GoodMessage(m), Dead(m),
         MaxMessageLifetime \in Nat
  PROVE  Dead(m)'
<1>1. now \in Int /\ now' \in Int /\ now <= now' /\ m.exp \in Int
  BY DEF Inv, ClocksOK, Steady, GoodMessage
<1>2. /\ Len(m.kel) \in Nat /\ m.seq \in Nat /\ m.seq = Len(m.kel) - 1
      /\ Len(held) \in Nat /\ Len(hubHeld) \in Nat /\ Len(held) >= 0
  BY Lengths, MessageLengths
<1>3. CASE now > m.exp
  BY <1>1, <1>3 DEF Dead
<1>4. CASE VerifyNotice(m.notice, m.kel, hubHeld, m.at) \notin {"ok", "witness-unknown"}
  <2>1. VerifyNotice(m.notice, m.kel, hubHeld', m.at) # "ok"
    <3> SUFFICES ASSUME VerifyNotice(m.notice, m.kel, hubHeld', m.at) = "ok" PROVE FALSE
      OBVIOUS
    <3>1. m.notice.keySeq \in Nat
      BY DEF GoodMessage, Inv, NoticesOK
    <3>2. WellMade(hubHeld')
      <4>1. WellMade(hub.kel') /\ Begins(hubHeld', hub.kel') /\ Len(hubHeld') >= 1
        BY DEF HubOK, HeldOK
      <4> QED
        BY <4>1, BeginsWellMade
    <3>3. CASE m.notice.keySeq < Len(hubHeld)
      BY <1>4, <3>1, <3>2, <3>3, NoticeBefore DEF Steady
    <3>4. CASE ~(m.notice.keySeq < Len(hubHeld))
      <4>1. m.notice.keySeq >= Len(hubHeld)
        BY <1>2, <3>1, <3>4
      <4> QED
        BY <1>4, <4>1, UnknownOrSame
    <3> QED
      BY <3>3, <3>4
  <2>2. VerifyNotice(m.notice, m.kel, hubHeld', m.at) # "witness-unknown"
    <3> SUFFICES ASSUME VerifyNotice(m.notice, m.kel, hubHeld', m.at) = "witness-unknown" PROVE FALSE
      OBVIOUS
    <3>1. m.notice.keySeq \in Nat
      BY DEF GoodMessage, Inv, NoticesOK
    <3>2. m.notice.keySeq >= Len(hubHeld')
      BY UnknownMeans
    <3>3. Len(hubHeld) <= Len(hubHeld') /\ Len(hubHeld') \in Nat
      BY DEF Steady, Begins, IsSeq
    <3>4. m.notice.keySeq >= Len(hubHeld)
      BY <1>2, <3>1, <3>2, <3>3
    <3> QED
      BY <1>4, <3>2, <3>4, UnknownOrSame
  <2> QED
    BY <2>1, <2>2 DEF Dead
<1>5. CASE Len(held) >= Len(m.kel) /\ VerifyInnerSig(m, held) # "ok"
  <2>1. Len(held) <= Len(held') /\ Len(held') \in Nat
    BY DEF Steady, Begins, IsSeq
  <2>2. WellMade(held')
    <3>1. WellMade(agent.kel') /\ Begins(held', agent.kel') /\ Len(held') >= 1
      <4>1. Len(held') >= 1
        BY <1>2, <1>5, <2>1
      <4> QED
        BY <4>1 DEF AgentOK, HeldOK
    <3> QED
      BY <3>1, BeginsWellMade
  <2>3. m.seq < Len(held) /\ Len(held') >= Len(m.kel)
    BY <1>2, <1>5, <2>1
  <2>4. VerifyInnerSig(m, held') # "ok"
    BY <1>2, <1>5, <2>2, <2>3, InnerBefore DEF Steady
  <2> QED
    BY <2>3, <2>4 DEF Dead
<1> QED
  BY <1>3, <1>4, <1>5 DEF Dead

LEMMA ExcusedKept ==
  ASSUME Inv, Steady, NEW m, GoodMessage(m), Excused(m), MaxMessageLifetime \in Nat
  PROVE  Excused(m)'
<1>1. now \in Int /\ now' \in Int /\ now <= now' /\ m.exp \in Int
  BY DEF Inv, ClocksOK, Steady, GoodMessage
<1>2. /\ Len(m.kel) \in Nat /\ m.seq \in Nat
      /\ Len(agent.kel) \in Nat /\ Len(hub.kel) \in {1, 2}
  BY Lengths, MessageLengths
<1>3. Len(agent.kel') \in Nat /\ Len(agent.kel) <= Len(agent.kel') /\ Len(hub.kel') \in Nat /\ Len(hub.kel) <= Len(hub.kel')
  BY DEF Steady, Begins, IsSeq
<1>4. ASSUME NEW i \in m.seq + 2 .. Len(agent.kel)
      PROVE  i \in m.seq + 2 .. Len(agent.kel') /\ agent.kel'[i] = agent.kel[i]
  <2>1. i \in 1..Len(agent.kel)
    BY <1>2
  <2> QED
    BY <1>2, <1>3, <2>1 DEF Steady, Begins
<1>5. ASSUME Len(hub.kel) > 1 PROVE Len(hub.kel') > 1 /\ hub.kel'[2] = hub.kel[2]
  <2>1. 2 \in 1..Len(hub.kel)
    BY <1>2, <1>5
  <2> QED
    BY <1>2, <1>3, <1>5, <2>1 DEF Steady, Begins
<1>6. now > m.exp => now' > m.exp
  BY <1>1
<1> QED
  BY <1>4, <1>5, <1>6 DEF Excused
-----------------------------------------------------------------------------
(* The steps. *)

\* What a step that receives nothing keeps of the messages decided.
LEMMA DecidedKept ==
  ASSUME Inv, Steady, AgentOK', HubOK', HeldOK'
  PROVE  /\ accepted' = accepted => AcceptedOK'
         /\ refused' = refused => RefusedOK'
         /\ transit' = transit => TransitOK'
         /\ inbox' = inbox => InboxOK'
<1>1. SenderSkew \in Int /\ MaxMessageLifetime \in Nat
  BY ReceiveAssumption
<1>2. ASSUME NEW m, GoodMessage(m)
      PROVE  GoodMessage(m)' /\ (Arrived(m) => Arrived(m)')
             /\ (Dead(m) => Dead(m)') /\ (Excused(m) => Excused(m)')
  BY <1>1, <1>2, MessageKept, DeadKept, ExcusedKept
<1>3. accepted' = accepted => AcceptedOK'
  BY <1>2 DEF Inv, AcceptedOK, Fresh
<1>4. refused' = refused => RefusedOK'
  <2> SUFFICES ASSUME refused' = refused, NEW r \in refused
               PROVE  /\ GoodMessage(r.msg)' /\ Arrived(r.msg)'
                      /\ r.reason \notin AheadOfClock => Dead(r.msg)'
                      /\ r.msg.current => Excused(r.msg)'
    BY DEF RefusedOK
  <2>1. /\ GoodMessage(r.msg) /\ Arrived(r.msg)
        /\ r.reason \notin AheadOfClock => Dead(r.msg)
        /\ r.msg.current => Excused(r.msg)
    BY DEF Inv, RefusedOK
  <2> QED
    BY <1>2, <2>1
<1>5. transit' = transit => TransitOK'
  BY <1>2 DEF Inv, TransitOK
<1>6. inbox' = inbox => InboxOK'
  BY <1>2 DEF Inv, InboxOK
<1> QED
  BY <1>3, <1>4, <1>5, <1>6

\* A step that leaves clocks, KELs, copies and notices alone is steady.
LEMMA RestIsSteady ==
  ASSUME Inv, UNCHANGED <<now, agent, hub, held, hubHeld>>,
         clock' \in Int, clock <= clock', notices \subseteq notices'
  PROVE  Steady /\ AgentOK' /\ HubOK' /\ HeldOK'
<1>1. AgentOK /\ HubOK /\ HeldOK /\ ClocksOK
  BY DEF Inv
<1>2. AgentOK' /\ HubOK' /\ HeldOK'
  BY <1>1 DEF AgentOK, HubOK, HeldOK
<1>3. /\ Begins(agent.kel, agent.kel') /\ Begins(hub.kel, hub.kel')
      /\ Begins(held, held') /\ Begins(hubHeld, hubHeld')
  BY Lengths, BeginsSelf
<1>4. \A i \in Len(agent.kel) + 1 .. Len(agent.kel') : FALSE
  BY Lengths
<1> QED
  BY <1>1, <1>2, <1>3, <1>4 DEF Steady, ClocksOK

\* A KEL of an inception that replays.
LEMMA InceptionFacts ==
  ASSUME NoneIsNil, NEW key, key # None, NEW hot, NEW ts \in Nat \ {0}, NEW toad \in {ToadHub, ToadAgent}
  PROVE  LET c == inceptWith(key, hot, ts, toad)
         IN  /\ Fields(c) /\ c.pending = None /\ c.cur = key /\ c.hot = hot /\ Len(c.kel) = 1
             /\ WellMade(c.kel) /\ toadLocked(c.kel) = toad /\ last(c.kel) = c.kel[1].event
             /\ c.kel[1].event.key = key /\ c.kel[1].event.ts = ts
             /\ c.kel[1].event.next = nextDigest(hot)
<1> DEFINE icp == [ type |-> "icp", aid |-> None, seq |-> 0, prev |-> None, key |-> key,
                    next |-> nextDigest(hot), toad |-> toad, witness |-> None,
                    emergency |-> FALSE, ts |-> ts ]
           c == inceptWith(key, hot, ts, toad)
           kel == << SignedEvent(icp, key) >>
<1>1. c = [ kel |-> kel, cur |-> key, hot |-> hot, pending |-> None, state |-> "ok" ]
  BY DEF inceptWith
<1>2. /\ icp.type = "icp" /\ icp.seq = 0 /\ icp.aid = None /\ icp.prev = None /\ icp.key = key
      /\ icp.next = nextDigest(hot) /\ icp.toad = toad /\ icp.witness = None /\ icp.emergency = FALSE
      /\ icp.ts = ts
  OBVIOUS
<1> HIDE DEF icp
<1>3. SignedEvent(icp, key).event = icp /\ SignedEvent(icp, key).signer = key
  BY DEF SignedEvent
<1>4. kel[1].event = icp /\ kel[1].signer = key /\ Len(kel) = 1 /\ IsSeq(kel)
  <2> HIDE DEF icp
  <2>1. kel[1] = SignedEvent(icp, key) /\ Len(kel) = 1 /\ DOMAIN kel = {1}
    OBVIOUS
  <2>2. {kel[i] : i \in DOMAIN kel} = {SignedEvent(icp, key)}
    BY <2>1
  <2>3. kel \in Seq({SignedEvent(icp, key)})
    OBVIOUS
  <2> QED
    BY <1>3, <2>1, <2>2, <2>3 DEF IsSeq
<1> HIDE DEF kel
<1>5. nextDigest(hot) # None
  BY DEF nextDigest, NoneIsNil
<1>6. checkInception(icp)
  BY <1>2, <1>5 DEF checkInception, checkShape
<1>7. Replays(kel)
  BY <1>2, <1>4, <1>6 DEF Replays
<1>8. WellMade(kel)
  BY <1>2, <1>4, <1>7 DEF WellMade
<1> HIDE DEF c
<1>9. c.kel = kel /\ c.cur = key /\ c.hot = hot /\ c.pending = None /\ c.state = "ok"
  BY <1>1
<1>10. Fields(c)
  BY <1>1, <1>9 DEF Fields
<1> QED
  BY <1>2, <1>4, <1>8, <1>9, <1>10 DEF toadLocked, last, c

\* What a controller is once the event that was built over its KEL is adopted.
LEMMA AdoptFacts ==
  ASSUME NoneIsNil, NEW c, Fields(c), NEW p, IsPending(p), NEW w, NEW ts
  PROVE  LET d  == buildLocked(c, p, w, ts)
             ev == buildEvent(c.kel, p, w, ts)
             r  == Adopt(d, d.pending.event)
         IN  /\ kelLocked(d) = Append(c.kel, ev)
             /\ Fields(r) /\ r.kel = Append(c.kel, ev) /\ r.cur = p.revealed /\ r.pending = None
             /\ r.hot = None
<1> DEFINE ev == buildEvent(c.kel, p, w, ts)
           q == [ kind |-> p.kind, revealed |-> p.revealed, next |-> p.next,
                  emergency |-> p.emergency, event |-> ev ]
           d == buildLocked(c, p, w, ts)
           r == Adopt(d, d.pending.event)
<1>1. ev # None
  BY DEF buildEvent, NoneIsNil
<1> HIDE DEF ev
<1>2. [p EXCEPT !.event = ev] = q
  BY DEF IsPending
<1>3. d = [c EXCEPT !.pending = q]
  BY <1>2 DEF buildLocked, ev
<1>4. q.revealed = p.revealed /\ q.event = ev /\ IsPending(q)
  BY DEF IsPending
<1> HIDE DEF q, d
<1>5. d = [kel |-> c.kel, cur |-> c.cur, hot |-> c.hot, pending |-> q, state |-> c.state]
  BY <1>3 DEF Fields
<1>6. d.kel = c.kel /\ d.pending = q /\ q # None
  BY <1>4, <1>5 DEF NoneIsNil
<1>7. kelLocked(d) = Append(c.kel, ev)
  BY <1>1, <1>4, <1>6 DEF kelLocked
<1>8. r = [kel |-> Append(c.kel, ev), cur |-> p.revealed, hot |-> None, pending |-> None, state |-> c.state]
  <2>1. d.pending.event = ev /\ d.pending.revealed = p.revealed
    BY <1>4, <1>6
  <2>2. r = [d EXCEPT !.kel = Append(@, ev), !.cur = p.revealed, !.hot = None, !.pending = None]
    BY <2>1 DEF Adopt
  <2> HIDE DEF r
  <2> QED
    BY <1>5, <1>6, <2>2
<1> HIDE DEF r
<1>9. /\ r.kel = Append(c.kel, ev) /\ r.cur = p.revealed /\ r.pending = None /\ r.hot = None /\ r.state = c.state
  BY <1>8
<1>10. Fields(r)
  BY <1>8, <1>9 DEF Fields
<1> QED
  BY <1>7, <1>9, <1>10 DEF r, d, ev


LEMMA TickInv == ASSUME Inv, Tick PROVE Inv'
<1>1. ClocksOK /\ AgentOK /\ WitnessedOK /\ HubOK /\ HeldOK /\ NoticesOK
  BY DEF Inv
<1>2. /\ now' = now + 1 /\ now' \in Int /\ now <= now' /\ 2 <= now'
      /\ UNCHANGED <<clock, agent, witnessed, hub, notices, transit, inbox, held, hubHeld, accepted, refused>>
  BY <1>1 DEF Tick, ClocksOK
<1>3. AgentOK' /\ HubOK' /\ HeldOK' /\ ClocksOK'
  BY <1>1, <1>2 DEF AgentOK, HubOK, HeldOK, ClocksOK
<1>4. Steady
  <2>1. /\ Begins(agent.kel, agent.kel') /\ Begins(hub.kel, hub.kel')
        /\ Begins(held, held') /\ Begins(hubHeld, hubHeld')
    BY <1>2, Lengths, BeginsSelf
  <2>2. \A i \in Len(agent.kel) + 1 .. Len(agent.kel') : FALSE
    BY <1>2, Lengths
  <2> QED
    BY <1>1, <1>2, <2>1, <2>2 DEF Steady, ClocksOK
<1>5. WitnessedOK'
  <2>1. ASSUME NEW i \in 1..Len(agent.kel) PROVE witnessed[i] <= now'
    <3>1. witnessed[i] \in Int /\ witnessed[i] <= now /\ now \in Int
      BY <1>1 DEF WitnessedOK, ClocksOK
    <3> QED
      BY <1>2, <3>1
  <2> QED
    BY <1>1, <1>2, <2>1 DEF WitnessedOK
<1>6. NoticesOK'
  <2>1. \A t \in 2..now : t \in 2..now'
    BY <1>1, <1>2 DEF ClocksOK
  <2> QED
    BY <1>1, <1>2, <2>1 DEF NoticesOK
<1>7. TransitOK' /\ InboxOK' /\ AcceptedOK' /\ RefusedOK'
  BY <1>2, <1>3, <1>4, DecidedKept
<1> QED
  BY <1>3, <1>5, <1>6, <1>7 DEF Inv

\* Two hashes are equal only of equal values.
LEMMA OneEvent == ASSUME NEW e, NEW f, CID(e) = CID(f) PROVE e = f
<1>1. ASSUME NEW a, NEW b, <<"cid", a>> = <<"cid", b>> PROVE a = b
  BY <1>1
<1> QED
  BY <1>1, Zenon DEF CID

LEMMA InitInv == ASSUME NoneIsNil, Init PROVE Inv
<1> DEFINE ctl == incept(1, ToadAgent)
           p == Material("witness", ctl.hot, NextDigest(seed, 2), FALSE)
           ev == buildEvent(ctl.kel, p, hubAID, 2)
           kel == Append(ctl.kel, ev)
           h == inceptWith(hk0, hk1, 1, ToadHub)
<1>1. /\ Fields(ctl) /\ ctl.pending = None /\ ctl.hot = k1 /\ Len(ctl.kel) = 1
      /\ WellMade(ctl.kel) /\ toadLocked(ctl.kel) = ToadAgent /\ last(ctl.kel) = ctl.kel[1].event
      /\ ctl.kel[1].event.ts = 1 /\ ctl.kel[1].event.next = nextDigest(k1)
  <2>1. k0 # None
    BY DEF k0, NoneIsNil
  <2> QED
    BY <2>1, InceptionFacts DEF incept
<1>2. /\ Fields(h) /\ h.pending = None /\ h.cur = hk0 /\ Len(h.kel) = 1
      /\ WellMade(h.kel) /\ toadLocked(h.kel) = ToadHub /\ last(h.kel) = h.kel[1].event
      /\ h.kel[1].event.key = hk0
  <2>1. hk0 # None
    BY DEF hk0, NoneIsNil
  <2> QED
    BY <2>1, InceptionFacts
<1>3. agent = Adopt(buildLocked(ctl, p, hubAID, 2), buildLocked(ctl, p, hubAID, 2).pending.event)
  BY DEF Init, Designated, BuildWitnessDesignation
<1>4. h = hub /\ hubAID = AIDOf(h.kel)
  BY DEF Init, hubAID
<1>5. IsPending(p) /\ p.kind = "witness" /\ p.revealed = k1
  BY <1>1, MaterialFacts DEF Material
<1>6. p.next = NextDigest(seed, 2) /\ p.emergency = FALSE
  BY DEF Material
<1> HIDE DEF ctl, h, p
<1>7. Fields(agent) /\ agent.kel = kel /\ agent.cur = k1 /\ agent.pending = None
  BY <1>1, <1>3, <1>5, AdoptFacts
<1>8. /\ ev.event.type = "rot" /\ ev.event.witness = hubAID /\ ev.event.key = k1 /\ ev.signer = k1
      /\ ev.event.seq = 1 /\ ev.event.ts = 2 /\ ev.event.aid = AIDOf(ctl.kel)
      /\ ev.event.prev = CID(ctl.kel[1].event) /\ ev.event.next = NextDigest(seed, 2)
      /\ ev.event.toad = ToadAgent
  <2>1. last(ctl.kel).seq = 0
    BY <1>1 DEF WellMade
  <2> QED
    <3>1. SignedEvent(ev.event, k1).signer = k1
      BY DEF SignedEvent
    <3>2. /\ ev = SignedEvent(ev.event, p.revealed) /\ ev.event.key = p.revealed
          /\ ev.event.seq = last(ctl.kel).seq + 1 /\ ev.event.ts = 2
          /\ ev.event.aid = AIDOf(ctl.kel) /\ ev.event.prev = CID(last(ctl.kel))
          /\ ev.event.type = "rot" /\ ev.event.witness = hubAID
          /\ ev.event.next = p.next /\ ev.event.toad = toadLocked(ctl.kel)
      BY <1>5, BuildFacts
    <3> HIDE DEF ev
    <3> QED
      BY <1>1, <1>5, <1>6, <2>1, <3>1, <3>2
<1> HIDE DEF ev
<1>9. IsSeq(kel) /\ Len(kel) = 2 /\ kel[2] = ev /\ kel[1] = ctl.kel[1] /\ Begins(ctl.kel, kel)
  <2>1. /\ IsSeq(kel) /\ Begins(ctl.kel, kel) /\ Len(kel) = Len(ctl.kel) + 1
        /\ kel[Len(ctl.kel) + 1] = ev /\ \A i \in 1..Len(ctl.kel) : kel[i] = ctl.kel[i]
    BY <1>1, AppendFacts
  <2> HIDE DEF kel
  <2>2. 1 \in 1..1 /\ Len(ctl.kel) + 1 = 2
    BY <1>1
  <2> QED
    BY <1>1, <2>1, <2>2
<1>10. Replays(kel)
  <2>1. checkInception(kel[1].event) /\ kel[1].signer = kel[1].event.key
    BY <1>1, <1>9 DEF WellMade, Replays
  <2>2. NextDigest(seed, 2) # None
    BY DEF NextDigest, nextDigest, NoneIsNil
  <2>3. hubAID \notin {None, CID(kel[1].event)}
    <3>1. hubAID # None
      BY DEF hubAID, AIDOf, CID, NoneIsNil
    <3>2. h.kel[1].event # ctl.kel[1].event
      BY <1>1, <1>2 DEF toadLocked, ToadHub, ToadAgent
    <3>3. hubAID # CID(ctl.kel[1].event)
      BY <1>4, <3>2, OneEvent DEF AIDOf
    <3> QED
      BY <1>9, <3>1, <3>3
  <2>4. kel[1].event.toad = ToadAgent /\ kel[1].event.seq = 0 /\ kel[1].event.type # "dip"
    BY <1>1, <1>9, <2>1 DEF toadLocked, checkInception
  <2>5. k1 # None
    BY DEF k1, NoneIsNil
  <2>6. checkRotation(ev.event, CID(kel[1].event), kel[1].event.toad)
    BY <1>8, <2>2, <2>3, <2>4 DEF checkRotation, ToadAgent, ToadHub
  <2>7. Follows(kel[1].event, kel[1].event, ev.event)
    BY <1>1, <1>8, <1>9, <2>4, <2>5, <2>6 DEF Follows, checkShape, AIDOf
  <2>8. ev.signer = ev.event.key
    BY <1>8
  <2> QED
    BY <1>9, <2>1, <2>7, <2>8 DEF Replays
<1>11. kel[1].event.seq = 0 /\ kel[1].event.ts = 1
  BY <1>1, <1>9 DEF WellMade
<1>12. WellMade(kel)
  BY <1>8, <1>9, <1>10, <1>11 DEF WellMade
<1>13. toadLocked(kel) = ToadAgent /\ last(kel) = ev.event
  BY <1>1, <1>9 DEF toadLocked, last
<1> HIDE DEF kel
<1>14. /\ now = 2 /\ clock = 2 /\ witnessed = <<2, 2>> /\ notices = {} /\ transit = {} /\ inbox = {}
       /\ held = <<>> /\ hubHeld = hub.kel /\ accepted = {} /\ refused = {}
  BY DEF Init
<1>15. AgentOK
  BY <1>7, <1>8, <1>9, <1>12, <1>13 DEF AgentOK
<1>16. WitnessedOK
  <2>1. EventClockWindow \in Nat
    BY WindowAssumption
  <2>2. \A i \in 1..2 : witnessed[i] = 2
    BY <1>14
  <2> QED
    BY <1>7, <1>8, <1>9, <1>11, <1>14, <2>1, <2>2 DEF WitnessedOK
<1>17. HubOK
  BY <1>2, <1>4 DEF HubOK
<1>18. HeldOK
  <2>1. IsSeq(hub.kel) /\ IsSeq(agent.kel)
    BY <1>2, <1>4, <1>7, <1>9 DEF WellMade
  <2> QED
    BY <1>2, <1>4, <1>14, <2>1, BeginsSelf, BeginsNothing DEF HeldOK
<1> QED
  BY <1>14, <1>15, <1>16, <1>17, <1>18
     DEF Inv, ClocksOK, NoticesOK, TransitOK, InboxOK, AcceptedOK, RefusedOK

\* The sender's next event, built over its KEL, witnessed and adopted.
LEMMA WitnessInv ==
  ASSUME NoneIsNil, Inv, NEW p, IsPending(p), NEW w, p.kind # "dip" => w = hubAID,
         NEW ts \in Readings, buildEventAccepts(agent.kel, p, w, ts),
         Witness(buildLocked(agent, p, w, ts), ts)
  PROVE  Inv'
<1> DEFINE ev == buildEvent(agent.kel, p, w, ts)
           kel == Append(agent.kel, ev)
           n == Len(agent.kel)
<1>1. ClocksOK /\ AgentOK /\ WitnessedOK /\ HubOK /\ HeldOK /\ NoticesOK
  BY DEF Inv
<1>2. /\ Fields(agent) /\ WellMade(agent.kel) /\ n >= 2 /\ toadLocked(agent.kel) = ToadAgent
      /\ agent.kel[2].event.type = "rot"
      /\ \A i \in 2..n : agent.kel[i].event.type = "rot" => agent.kel[i].event.witness = hubAID
  BY <1>1 DEF AgentOK
<1>3. now \in Int /\ clock \in Int /\ 2 <= now /\ 2 <= clock /\ ts \in Int /\ clock <= ts
  BY <1>1, ReceiveAssumption DEF ClocksOK, Readings
<1>4. /\ kelLocked(buildLocked(agent, p, w, ts)) = kel
      /\ Fields(agent') /\ agent'.kel = kel /\ agent'.cur = p.revealed /\ agent'.pending = None
  BY <1>2, AdoptFacts DEF Witness
<1>5. /\ ev.event.key = p.revealed /\ ev.event.ts = ts
      /\ p.kind # "dip" => ev.event.type = "rot" /\ ev.event.witness = w
      /\ p.kind = "dip" => ev.event.type = "dip"
  BY BuildFacts
<1>6. WellMade(kel)
  BY <1>2, <1>3, BuiltIsWellMade DEF buildEventAccepts
<1> HIDE DEF ev
<1>7. /\ n \in Nat /\ IsSeq(kel) /\ Begins(agent.kel, kel) /\ Len(kel) = n + 1 /\ kel[n + 1] = ev
      /\ \A i \in 1..n : kel[i] = agent.kel[i]
  BY <1>2, AppendFacts
<1>8. /\ CheckNewEvents(agent.kel, kel, now, hubAID)
      /\ witnessed' = Append(witnessed, now) /\ clock' = ts
      /\ UNCHANGED <<now, hub, notices, transit, inbox, held, hubHeld, accepted, refused>>
  BY <1>4 DEF Witness
<1> HIDE DEF kel
<1>9. ts <= now + EventClockWindow
  <2>1. n + 1 \in n + 1 .. Len(kel)
    BY <1>7
  <2> QED
    BY <1>5, <1>7, <1>8, <2>1 DEF CheckNewEvents, n
<1>10. /\ witnessed' \in Seq(Int) /\ Len(witnessed') = n + 1 /\ witnessed'[n + 1] = now
       /\ \A i \in 1..n : witnessed'[i] = witnessed[i] /\ witnessed[i] <= now
                          /\ agent.kel[i].event.ts <= witnessed[i] + EventClockWindow
  BY <1>1, <1>3, <1>7, <1>8 DEF WitnessedOK
<1> HIDE DEF n
<1>11. n >= 2 /\ n = Len(agent.kel)
  BY <1>2 DEF n
<1>12. AgentOK'
  <2>1. toadLocked(kel) = ToadAgent /\ kel[2].event.type = "rot"
    <3>1. 1 \in 1..n /\ 2 \in 1..n
      BY <1>7, <1>11
    <3> QED
      BY <1>2, <1>7, <3>1 DEF toadLocked
  <2>2. last(kel).key = p.revealed
    BY <1>5, <1>7 DEF last
  <2>3. ASSUME NEW i \in 2 .. n + 1, kel[i].event.type = "rot" PROVE kel[i].event.witness = hubAID
    <3>1. CASE i = n + 1
      BY <1>5, <1>7, <2>3, <3>1
    <3>2. CASE i \in 2..n
      <4>1. i \in 1..n
        BY <1>7, <3>2
      <4> QED
        BY <1>2, <1>7, <1>11, <2>3, <3>2, <4>1
    <3> QED
      BY <1>7, <3>1, <3>2
  <2>4. Len(kel) >= 2
    BY <1>7, <1>11
  <2> QED
    BY <1>4, <1>6, <1>7, <2>1, <2>2, <2>3, <2>4 DEF AgentOK
<1>13. WitnessedOK'
  <2>1. ASSUME NEW i \in 1 .. n + 1
        PROVE witnessed'[i] <= now /\ kel[i].event.ts <= witnessed'[i] + EventClockWindow
    <3>1. CASE i = n + 1
      BY <1>3, <1>5, <1>7, <1>9, <1>10, <3>1
    <3>2. CASE i \in 1..n
      BY <1>7, <1>10, <3>2
    <3> QED
      BY <1>7, <3>1, <3>2
  <2> QED
    BY <1>4, <1>7, <1>8, <1>10, <2>1 DEF WitnessedOK
<1>14. HubOK' /\ ClocksOK'
  BY <1>1, <1>3, <1>8 DEF HubOK, ClocksOK
<1>15. HeldOK'
  BY <1>1, <1>4, <1>7, <1>8, BeginsTrans DEF HeldOK
<1>16. NoticesOK'
  <2> SUFFICES ASSUME NEW m \in notices
               PROVE  /\ m.aid = AIDOf(kel)
                      /\ m.seq \in 1 .. Len(kel) - 1 /\ m.head = CID(kel[m.seq + 1].event)
                      /\ m.seq + 2 <= Len(kel) => m.observedAt <= witnessed'[m.seq + 2]
    BY <1>1, <1>4, <1>8 DEF NoticesOK
  <2>1. /\ m.observedAt \in 2..now /\ m.aid = AIDOf(agent.kel)
        /\ m.seq \in 1 .. n - 1 /\ m.head = CID(agent.kel[m.seq + 1].event)
        /\ m.seq + 2 <= n => m.observedAt <= witnessed[m.seq + 2]
    BY <1>1, <1>11 DEF NoticesOK
  <2>2. 1 \in 1..n /\ m.seq + 1 \in 1..n
    BY <1>7, <1>11, <2>1
  <2>3. AIDOf(kel) = AIDOf(agent.kel) /\ kel[m.seq + 1] = agent.kel[m.seq + 1]
    BY <1>7, <2>2 DEF AIDOf
  <2>4. ASSUME m.seq + 2 <= Len(kel) PROVE m.observedAt <= witnessed'[m.seq + 2]
    <3>1. CASE m.seq + 2 = n + 1
      BY <1>3, <1>10, <2>1, <3>1
    <3>2. CASE m.seq + 2 \in 1..n
      BY <1>7, <1>10, <2>1, <3>2
    <3> QED
      BY <1>7, <2>1, <2>4, <3>1, <3>2
  <2> QED
    BY <1>7, <2>1, <2>3, <2>4
<1>17. Steady
  <2>1. Begins(hub.kel, hub.kel') /\ Begins(held, held') /\ Begins(hubHeld, hubHeld')
    BY <1>8, Lengths, BeginsSelf
  <2>2. \A i \in n + 1 .. Len(kel) : clock <= kel[i].event.ts
    BY <1>3, <1>5, <1>7
  <2> QED
    BY <1>3, <1>4, <1>7, <1>8, <1>11, <2>1, <2>2 DEF Steady
<1>18. TransitOK' /\ InboxOK' /\ AcceptedOK' /\ RefusedOK'
  BY <1>8, <1>12, <1>14, <1>15, <1>17, DecidedKept
<1> QED
  BY <1>12, <1>13, <1>14, <1>15, <1>16, <1>18 DEF Inv

LEMMA RotateInv ==
  ASSUME NoneIsNil, Inv, NEW emergency, NEW ts \in Readings, Rotate(emergency, ts)
  PROVE  Inv'
<1> DEFINE key == RecoverySeed(seed, Len(agent.kel))
           nxt == NextDigest(seed, Len(agent.kel) + 1)
           p == Material("rot", revealedLocked(agent, key), nxt, emergency)
<1>1. IsPending(p) /\ p.kind = "rot"
  BY MaterialFacts
<1>2. buildEventAccepts(agent.kel, p, hubAID, ts)
  BY DEF Rotate, BuildRotationAccepts
<1>3. Witness(buildLocked(agent, p, hubAID, ts), ts)
  BY DEF Rotate, BuildRotation
<1> HIDE DEF p
<1> QED
  BY <1>1, <1>2, <1>3, WitnessInv

LEMMA DeactivateInv ==
  ASSUME NoneIsNil, Inv, NEW ts \in Readings, Deactivate(ts)
  PROVE  Inv'
<1> DEFINE key == RecoverySeed(seed, Len(agent.kel))
           p == Material("dip", revealedLocked(agent, key), None, FALSE)
<1>1. IsPending(p) /\ p.kind = "dip"
  BY MaterialFacts
<1>2. buildEventAccepts(agent.kel, p, None, ts)
  BY DEF Deactivate, BuildDeactivationAccepts
<1>3. Witness(buildLocked(agent, p, None, ts), ts)
  BY DEF Deactivate, BuildDeactivation
<1> HIDE DEF p
<1> QED
  BY <1>1, <1>2, <1>3, WitnessInv

LEMMA HubRotateInv ==
  ASSUME NoneIsNil, Inv, NEW emergency, HubRotate(emergency)
  PROVE  Inv'
<1> DEFINE nxt == NextDigest(hubSeed, 2)
           p == Material("rot", revealedLocked(hub, None), nxt, emergency)
           d == buildLocked(hub, p, None, now)
           ev == buildEvent(hub.kel, p, None, now)
           kel == Append(hub.kel, ev)
<1>1. ClocksOK /\ AgentOK /\ WitnessedOK /\ HubOK /\ HeldOK /\ NoticesOK
  BY DEF Inv
<1>2. /\ Fields(hub) /\ WellMade(hub.kel) /\ toadLocked(hub.kel) = ToadHub /\ AIDOf(hub.kel) = hubAID
  BY <1>1 DEF HubOK
<1>3. IsPending(p) /\ p.kind = "rot"
  BY MaterialFacts
<1>4. /\ revealedLockedAccepts(hub, None) /\ buildEventAccepts(hub.kel, p, None, now)
      /\ hub' = Adopt(d, d.pending.event)
      /\ UNCHANGED <<now, clock, agent, witnessed, notices, transit, inbox, held, hubHeld, accepted, refused>>
  BY DEF HubRotate, BuildRotationAccepts, BuildRotation
<1>5. Len(hub.kel) = 1
  BY <1>4 DEF revealedLockedAccepts
<1> HIDE DEF p
<1>6. Fields(hub') /\ hub'.kel = kel /\ hub'.cur = p.revealed /\ hub'.pending = None
  BY <1>2, <1>3, <1>4, AdoptFacts
<1>7. ev.event.key = p.revealed /\ ev.event.ts = now /\ ev.event.type = "rot"
  BY <1>3, BuildFacts
<1>8. now \in Int /\ 2 <= now /\ clock \in Int /\ 2 <= clock
  BY <1>1 DEF ClocksOK
<1>9. WellMade(kel)
  BY <1>2, <1>4, <1>8, BuiltIsWellMade DEF buildEventAccepts
<1> HIDE DEF ev
<1>10. IsSeq(kel) /\ Begins(hub.kel, kel) /\ Len(kel) = 2 /\ kel[2] = ev /\ kel[1] = hub.kel[1]
  <2>1. /\ IsSeq(kel) /\ Begins(hub.kel, kel) /\ Len(kel) = Len(hub.kel) + 1
        /\ kel[Len(hub.kel) + 1] = ev /\ \A i \in 1..Len(hub.kel) : kel[i] = hub.kel[i]
    BY <1>2, AppendFacts
  <2> HIDE DEF kel
  <2>2. 1 \in 1..1 /\ Len(hub.kel) + 1 = 2
    BY <1>5
  <2> QED
    BY <1>5, <2>1, <2>2
<1> HIDE DEF kel
<1>11. HubOK'
  BY <1>2, <1>6, <1>7, <1>9, <1>10 DEF HubOK, toadLocked, AIDOf, last
<1>12. AgentOK' /\ WitnessedOK' /\ ClocksOK'
  BY <1>1, <1>4 DEF AgentOK, WitnessedOK, ClocksOK
<1>13. HeldOK'
  BY <1>1, <1>4, <1>6, <1>10, BeginsTrans DEF HeldOK
<1>14. NoticesOK'
  <2> SUFFICES ASSUME NEW m \in notices
               PROVE  /\ m.keySeq \in 0 .. Len(kel) - 1 /\ m.sig = kel[m.keySeq + 1].event.key
                      /\ m.keySeq + 2 <= Len(kel) => m.observedAt <= kel[m.keySeq + 2].event.ts
    BY <1>1, <1>4, <1>6 DEF NoticesOK
  <2>1. m.keySeq = 0 /\ m.sig = hub.kel[m.keySeq + 1].event.key /\ m.observedAt \in 2..now
    BY <1>1, <1>5 DEF NoticesOK
  <2> QED
    BY <1>7, <1>8, <1>10, <2>1
<1>15. Steady
  <2>1. Begins(agent.kel, agent.kel') /\ Begins(held, held') /\ Begins(hubHeld, hubHeld')
    BY <1>4, Lengths, BeginsSelf
  <2>2. \A i \in Len(agent.kel) + 1 .. Len(agent.kel') : FALSE
    BY <1>4, Lengths
  <2> QED
    BY <1>4, <1>6, <1>8, <1>10, <2>1, <2>2 DEF Steady
<1>16. TransitOK' /\ InboxOK' /\ AcceptedOK' /\ RefusedOK'
  BY <1>4, <1>11, <1>12, <1>13, <1>15, DecidedKept
<1> QED
  BY <1>11, <1>12, <1>13, <1>14, <1>16 DEF Inv

LEMMA NotifyInv == ASSUME NoneIsNil, Inv, Notify PROVE Inv'
<1> DEFINE note == SignNotice(hub, agent.kel, now)
<1>1. ClocksOK /\ AgentOK /\ WitnessedOK /\ HubOK /\ HeldOK /\ NoticesOK
  BY DEF Inv
<1>2. /\ notices' = notices \cup {note}
      /\ UNCHANGED <<now, clock, agent, witnessed, hub, transit, inbox, held, hubHeld, accepted, refused>>
  BY DEF Notify
<1>3. Len(agent.kel) \in Nat /\ Len(agent.kel) >= 2 /\ WellMade(agent.kel) /\ IsSeq(agent.kel)
      /\ Len(hub.kel) \in {1, 2} /\ WellMade(hub.kel)
  BY Lengths
<1>4. now \in Int /\ 2 <= now /\ clock \in Int
  BY <1>1 DEF ClocksOK
<1>5. Tip(agent.kel).seq = Len(agent.kel) - 1 /\ Tip(agent.kel).lastEventID = CID(agent.kel[Len(agent.kel)].event)
  <2>1. Len(agent.kel) \in 1..Len(agent.kel)
    BY <1>3
  <2> QED
    BY <1>3, <2>1 DEF Tip, KeyState, WellMade
<1>6. Snapshot(hub).seq = Len(hub.kel) - 1 /\ Snapshot(hub).key = hub.kel[Len(hub.kel)].event.key
  <2>1. hub.pending = None /\ hub.cur = last(hub.kel).key
    BY <1>1 DEF HubOK
  <2>2. last(hub.kel).seq = Len(hub.kel) - 1
    <3>1. Len(hub.kel) \in 1..Len(hub.kel)
      BY <1>3
    <3> QED
      BY <1>3, <3>1 DEF WellMade, last
  <2> QED
    BY <2>1, <2>2 DEF Snapshot, signingLocked, last
<1>7. /\ note.aid = AIDOf(agent.kel) /\ note.seq = Len(agent.kel) - 1
      /\ note.head = CID(agent.kel[Len(agent.kel)].event)
      /\ note.observedAt = now /\ note.witness = hubAID /\ note.signer = hubAID
      /\ note.keySeq = Len(hub.kel) - 1 /\ note.sig = hub.kel[Len(hub.kel)].event.key
  BY <1>1, <1>5, <1>6 DEF SignNotice, HubOK
<1> HIDE DEF note
<1>8. /\ note.observedAt \in 2..now
      /\ note.seq \in 1 .. Len(agent.kel) - 1 /\ note.seq + 1 = Len(agent.kel)
      /\ ~(note.seq + 2 <= Len(agent.kel))
      /\ note.keySeq \in 0 .. Len(hub.kel) - 1 /\ note.keySeq + 1 = Len(hub.kel)
      /\ ~(note.keySeq + 2 <= Len(hub.kel))
  <2>1. Len(hub.kel) \in Nat /\ Len(hub.kel) >= 1
    BY <1>3
  <2>2. /\ note.seq \in 1 .. Len(agent.kel) - 1 /\ note.seq + 1 = Len(agent.kel)
        /\ ~(note.seq + 2 <= Len(agent.kel))
    BY <1>3, <1>7
  <2>3. /\ note.keySeq \in 0 .. Len(hub.kel) - 1 /\ note.keySeq + 1 = Len(hub.kel)
        /\ ~(note.keySeq + 2 <= Len(hub.kel))
    BY <1>7, <2>1
  <2>4. note.observedAt \in 2..now
    BY <1>4, <1>7
  <2> QED
    BY <2>2, <2>3, <2>4
<1>9. NoticesOK'
  <2>1. ASSUME NEW m \in notices'
        PROVE  /\ m.observedAt \in 2..now
               /\ m.aid = AIDOf(agent.kel) /\ m.witness = hubAID /\ m.signer = hubAID
               /\ m.seq \in 1 .. Len(agent.kel) - 1 /\ m.head = CID(agent.kel[m.seq + 1].event)
               /\ m.seq + 2 <= Len(agent.kel) => m.observedAt <= witnessed[m.seq + 2]
               /\ m.keySeq \in 0 .. Len(hub.kel) - 1 /\ m.sig = hub.kel[m.keySeq + 1].event.key
               /\ m.keySeq + 2 <= Len(hub.kel) => m.observedAt <= hub.kel[m.keySeq + 2].event.ts
    <3>1. CASE m \in notices
      BY <1>1, <3>1 DEF NoticesOK
    <3>2. CASE m = note
      BY <1>7, <1>8, <3>2
    <3> QED
      BY <1>2, <3>1, <3>2
  <2> QED
    BY <1>2, <2>1 DEF NoticesOK
<1>10. Steady /\ AgentOK' /\ HubOK' /\ HeldOK'
  BY <1>2, <1>4, RestIsSteady
<1>11. TransitOK' /\ InboxOK' /\ AcceptedOK' /\ RefusedOK'
  BY <1>2, <1>10, DecidedKept
<1> QED
  BY <1>1, <1>2, <1>9, <1>10, <1>11 DEF Inv, WitnessedOK, ClocksOK

\* A new message of Send or SendFromBackup.
LEMMA PutInv ==
  ASSUME Inv, NEW m, NEW t, t \in Int, clock <= t, Put(m, t), GoodMessage(m)'
  PROVE  Inv'
<1>1. ClocksOK /\ AgentOK /\ WitnessedOK /\ HubOK /\ HeldOK /\ NoticesOK
  BY DEF Inv
<1>2. /\ transit' = transit \cup {m} /\ clock' = t
      /\ UNCHANGED <<now, agent, witnessed, hub, notices, inbox, held, hubHeld, accepted, refused>>
  BY DEF Put
<1>3. Steady /\ AgentOK' /\ HubOK' /\ HeldOK'
  BY <1>2, RestIsSteady
<1>4. InboxOK' /\ AcceptedOK' /\ RefusedOK'
  BY <1>2, <1>3, DecidedKept
<1>5. TransitOK'
  <2>1. SenderSkew \in Int
    BY ReceiveAssumption
  <2>2. \A x \in transit : GoodMessage(x)'
    BY <1>3, <2>1, MessageKept DEF Inv, TransitOK
  <2> QED
    BY <1>2, <2>2 DEF TransitOK
<1>6. ClocksOK' /\ WitnessedOK' /\ NoticesOK'
  <2>1. clock \in Int /\ 2 <= clock /\ 2 <= t
    BY <1>1 DEF ClocksOK
  <2> QED
    BY <1>1, <1>2, <2>1 DEF ClocksOK, WitnessedOK, NoticesOK
<1> QED
  BY <1>3, <1>4, <1>5, <1>6 DEF Inv

LEMMA SendInv ==
  ASSUME NoneIsNil, Inv, NEW n \in notices, NEW ts \in Readings, Send(n, ts)
  PROVE  Inv'
<1> DEFINE sn == Snapshot(agent)
<1>1. ClocksOK /\ AgentOK /\ NoticesOK
  BY DEF Inv
<1>11. PICK m : m = Sealed(sn.kel, sn.key, n, ts, TRUE)
  OBVIOUS
<1>2. Put(m, ts) /\ last(agent.kel).type # "dip" /\ n.seq = sn.seq
  BY <1>11 DEF Send
<1>3. sn.kel = agent.kel /\ sn.key = last(agent.kel).key /\ sn.seq = last(agent.kel).seq
  BY <1>1 DEF Snapshot, kelLocked, signingLocked, AgentOK
<1>4. last(agent.kel).seq = Len(agent.kel) - 1
  <2>1. Len(agent.kel) \in 1..Len(agent.kel)
    BY Lengths
  <2> QED
    BY <2>1, Lengths DEF WellMade, last
<1>5. ts \in Int /\ clock <= ts /\ ts <= now + SenderSkew /\ 2 <= ts
  BY <1>1, ReceiveAssumption DEF Readings, ClocksOK
<1> HIDE DEF sn
<1>6. /\ IsMessage(m) /\ m.from = AIDOf(agent.kel) /\ m.kel = agent.kel /\ m.seq = Len(agent.kel) - 1
      /\ m.sig = last(agent.kel).key
      /\ m.notice = n /\ m.ts = ts /\ m.exp = ts + MaxMessageLifetime /\ m.current = TRUE
  <2>1. /\ IsMessage(m) /\ m.from = AIDOf(sn.kel) /\ m.kel = sn.kel /\ m.seq = Len(sn.kel) - 1
        /\ m.sig = sn.key
        /\ m.notice = n /\ m.ts = ts /\ m.exp = ts + MaxMessageLifetime /\ m.current = TRUE
    BY <1>11 DEF Sealed, IsMessage
  <2> QED
    BY <1>3, <2>1
<1>7. /\ clock' = ts /\ UNCHANGED <<now, agent, notices>>
  BY <1>2 DEF Put
<1>8. Begins(m.kel, agent.kel) /\ Len(m.kel) >= 2
  BY <1>6, Lengths, BeginsSelf
<1>9. Current(m)'
  <2>1. \A i \in m.seq + 2 .. Len(agent.kel) : FALSE
    BY <1>6, Lengths
  <2> QED
    BY <1>2, <1>3, <1>4, <1>5, <1>6, <1>7, <2>1 DEF Current
<1>10. GoodMessage(m)'
  BY <1>5, <1>6, <1>7, <1>8, <1>9 DEF GoodMessage
<1> QED
  BY <1>2, <1>5, <1>10, PutInv

LEMMA SendFromBackupInv ==
  ASSUME NoneIsNil, Inv, NEW i \in 2..Len(agent.kel), NEW n \in notices,
         NEW ts \in 2 .. now + SenderSkew, SendFromBackup(i, n, ts)
  PROVE  Inv'
<1>1. ClocksOK
  BY DEF Inv
<1>10. PICK kel : kel = SubSeq(agent.kel, 1, i)
  OBVIOUS
<1>11. PICK m : m = Sealed(kel, agent.kel[i].event.key, n, ts, FALSE)
  OBVIOUS
<1>12. PICK t : t = clock
  OBVIOUS
<1>2. Put(m, t)
  BY <1>10, <1>11, <1>12 DEF SendFromBackup
<1>3. i \in 1..Len(agent.kel) /\ 1 \in 1..i /\ i \in 1..i /\ i >= 2
  BY Lengths
<1>4. Begins(kel, agent.kel) /\ Len(kel) = i /\ \A j \in 1..i : kel[j] = agent.kel[j]
  BY <1>3, <1>10, Lengths, BeginsSub
<1>5. AIDOf(kel) = AIDOf(agent.kel) /\ last(kel).key = agent.kel[i].event.key
  BY <1>3, <1>4 DEF AIDOf, last
<1>6. /\ IsMessage(m) /\ m.from = AIDOf(agent.kel) /\ m.kel = kel /\ m.seq = Len(kel) - 1
      /\ m.sig = last(kel).key
      /\ m.notice = n /\ m.ts = ts /\ m.exp = ts + MaxMessageLifetime /\ m.current = FALSE
  <2>1. /\ IsMessage(m) /\ m.from = AIDOf(kel) /\ m.kel = kel /\ m.seq = Len(kel) - 1
        /\ m.sig = agent.kel[i].event.key
        /\ m.notice = n /\ m.ts = ts /\ m.exp = ts + MaxMessageLifetime /\ m.current = FALSE
    BY <1>11 DEF Sealed, IsMessage
  <2> QED
    BY <1>5, <2>1
<1>7. UNCHANGED <<now, agent, notices>>
  BY <1>2 DEF Put
<1>8. ts \in Int /\ ts <= now + SenderSkew /\ t \in Int /\ clock <= t
  BY <1>1, <1>12, ReceiveAssumption DEF ClocksOK
<1>9. GoodMessage(m)'
  BY <1>3, <1>4, <1>6, <1>7, <1>8 DEF GoodMessage
<1> QED
  BY <1>2, <1>8, <1>9, PutInv

LEMMA DepositInv ==
  ASSUME Inv, NEW m \in transit, Deposit(m)
  PROVE  Inv'
<1>1. ClocksOK /\ AgentOK /\ WitnessedOK /\ HubOK /\ HeldOK /\ NoticesOK /\ TransitOK /\ InboxOK
  BY DEF Inv
<1>13. PICK d : d = [m EXCEPT !.at = now]
  OBVIOUS
<1>2. /\ transit' = transit \ {m} /\ inbox' = inbox \cup {d}
      /\ UNCHANGED <<now, clock, agent, witnessed, hub, notices, held, hubHeld, accepted, refused>>
  BY <1>13 DEF Deposit
<1>3. now \in Int /\ clock \in Int /\ clock <= clock
  BY <1>1 DEF ClocksOK
<1>4. Steady /\ AgentOK' /\ HubOK' /\ HeldOK'
  BY <1>2, <1>3, RestIsSteady
<1>5. AcceptedOK' /\ RefusedOK'
  BY <1>2, <1>4, DecidedKept
<1>6. SenderSkew \in Int
  BY ReceiveAssumption
<1>7. TransitOK'
  BY <1>1, <1>2, <1>4, <1>6, MessageKept DEF TransitOK
<1>8. GoodMessage(m)
  BY <1>1 DEF TransitOK
<1>9. /\ IsMessage(d) /\ d.from = m.from /\ d.kel = m.kel /\ d.seq = m.seq /\ d.sig = m.sig
      /\ d.notice = m.notice /\ d.ts = m.ts /\ d.exp = m.exp /\ d.at = now /\ d.current = m.current
  <2>1. d = [ from |-> m.from, kel |-> m.kel, seq |-> m.seq, sig |-> m.sig, notice |-> m.notice,
              ts |-> m.ts, exp |-> m.exp, at |-> now, current |-> m.current ]
    BY <1>8, <1>13 DEF GoodMessage, IsMessage
  <2> QED
    BY <2>1 DEF IsMessage
<1>10. GoodMessage(d)
  BY <1>8, <1>9 DEF GoodMessage, Current
<1>11. Arrived(d)
  <2>1. m.notice.observedAt \in 2..now
    BY <1>1, <1>8 DEF GoodMessage, NoticesOK
  <2> QED
    BY <1>3, <1>9, <2>1 DEF Arrived
<1>12. InboxOK'
  <2>1. GoodMessage(d)' /\ Arrived(d)'
    BY <1>4, <1>6, <1>10, <1>11, MessageKept
  <2>2. \A x \in inbox : GoodMessage(x)' /\ Arrived(x)'
    BY <1>1, <1>4, <1>6, MessageKept DEF InboxOK
  <2> QED
    BY <1>2, <2>1, <2>2 DEF InboxOK
<1> QED
  BY <1>1, <1>2, <1>4, <1>5, <1>7, <1>12 DEF Inv, WitnessedOK, ClocksOK, NoticesOK

LEMMA LearnInv == ASSUME Inv, Learn PROVE Inv'
<1>1. ClocksOK /\ AgentOK /\ WitnessedOK /\ HubOK /\ HeldOK /\ NoticesOK
  BY DEF Inv
<1>2. /\ held' = agent.kel
      /\ UNCHANGED <<now, clock, agent, witnessed, hub, notices, transit, inbox, hubHeld, accepted, refused>>
  BY DEF Learn
<1>3. Begins(held, held') /\ Begins(held', agent.kel)
  BY <1>1, <1>2, Lengths, BeginsSelf DEF HeldOK
<1>4. AgentOK' /\ HubOK' /\ HeldOK' /\ WitnessedOK' /\ NoticesOK' /\ ClocksOK'
  BY <1>1, <1>2, <1>3 DEF AgentOK, HubOK, HeldOK, WitnessedOK, NoticesOK, ClocksOK
<1>5. Steady
  <2>1. Begins(agent.kel, agent.kel') /\ Begins(hub.kel, hub.kel') /\ Begins(hubHeld, hubHeld')
    BY <1>2, Lengths, BeginsSelf
  <2>2. \A i \in Len(agent.kel) + 1 .. Len(agent.kel') : FALSE
    BY <1>2, Lengths
  <2> QED
    BY <1>1, <1>2, <1>3, <2>1, <2>2 DEF Steady, ClocksOK
<1>6. TransitOK' /\ InboxOK' /\ AcceptedOK' /\ RefusedOK'
  BY <1>2, <1>4, <1>5, DecidedKept
<1> QED
  BY <1>4, <1>6 DEF Inv

LEMMA RefreshHubKELInv == ASSUME Inv, RefreshHubKEL PROVE Inv'
<1>1. ClocksOK /\ AgentOK /\ WitnessedOK /\ HubOK /\ HeldOK /\ NoticesOK
  BY DEF Inv
<1>2. /\ hubHeld' = hub.kel
      /\ UNCHANGED <<now, clock, agent, witnessed, hub, notices, transit, inbox, held, accepted, refused>>
  BY DEF RefreshHubKEL
<1>3. Begins(hubHeld, hubHeld') /\ Begins(hubHeld', hub.kel) /\ Len(hubHeld') >= 1
  <2>1. Len(hub.kel) \in {1, 2}
    BY Lengths
  <2>2. Len(hub.kel) >= 1
    BY <2>1
  <2> QED
    BY <1>1, <1>2, <2>2, Lengths, BeginsSelf DEF HeldOK
<1>4. AgentOK' /\ HubOK' /\ HeldOK' /\ WitnessedOK' /\ NoticesOK' /\ ClocksOK'
  BY <1>1, <1>2, <1>3 DEF AgentOK, HubOK, HeldOK, WitnessedOK, NoticesOK, ClocksOK
<1>5. Steady
  <2>1. Begins(agent.kel, agent.kel') /\ Begins(hub.kel, hub.kel') /\ Begins(held, held')
    BY <1>2, Lengths, BeginsSelf
  <2>2. \A i \in Len(agent.kel) + 1 .. Len(agent.kel') : FALSE
    BY <1>2, Lengths
  <2> QED
    BY <1>1, <1>2, <1>3, <2>1, <2>2 DEF Steady, ClocksOK
<1>6. TransitOK' /\ InboxOK' /\ AcceptedOK' /\ RefusedOK'
  BY <1>2, <1>4, <1>5, DecidedKept
<1> QED
  BY <1>4, <1>6 DEF Inv

-----------------------------------------------------------------------------
(* The verdict on a message. *)

\* What the recipient holds of the sender and what the message carries are parts of one KEL: the
\* merge takes the longer.
LEMMA MergeFacts ==
  ASSUME Inv, NEW m, GoodMessage(m)
  PROVE  /\ MergeRefuses(m) = "ok"
         /\ Begins(Merged(m), agent.kel) /\ Begins(held, Merged(m)) /\ WellMade(Merged(m))
         /\ Len(Merged(m)) \in Nat /\ Len(m.kel) <= Len(Merged(m))
         /\ Len(held) >= Len(m.kel) => Merged(m) = held
<1>1. /\ Len(agent.kel) \in Nat /\ Len(agent.kel) >= 2 /\ WellMade(agent.kel)
      /\ IsSeq(held) /\ Len(held) \in Nat
      /\ Len(m.kel) \in Nat /\ Len(m.kel) >= 2 /\ Begins(m.kel, agent.kel)
  BY Lengths, MessageLengths
<1>2. Begins(held, agent.kel)
  BY DEF Inv, HeldOK
<1>3. WellMade(m.kel) /\ Replays(m.kel)
  <2>1. Len(m.kel) >= 1
    BY <1>1
  <2> QED
    BY <1>1, <2>1, BeginsWellMade DEF WellMade
<1>4. \A i \in 1..Len(held) : i \in 1..Len(agent.kel) /\ held[i] = agent.kel[i]
  BY <1>1, <1>2 DEF Begins
<1>5. \A i \in 1..Len(m.kel) : i \in 1..Len(agent.kel) /\ m.kel[i] = agent.kel[i]
  BY <1>1 DEF Begins
<1>6. held # <<>> => ExtendsKEL(held, m.kel) = IF Len(m.kel) < Len(held) THEN "rollback" ELSE "ok"
  <2> DEFINE n == IF Len(m.kel) < Len(held) THEN Len(m.kel) ELSE Len(held)
  <2>1. \A i \in 1..n : i \in 1..Len(held) /\ i \in 1..Len(m.kel)
    BY <1>1
  <2>2. \A i \in 1..n : held[i].event = m.kel[i].event
    BY <1>4, <1>5, <2>1
  <2> QED
    BY <1>3, <2>2 DEF ExtendsKEL
<1>7. held = <<>> => Len(held) = 0
  OBVIOUS
<1>8. Merged(m) = IF Len(m.kel) < Len(held) THEN held ELSE m.kel
  BY <1>1, <1>6, <1>7 DEF Merged
<1>9. Begins(Merged(m), agent.kel) /\ Len(Merged(m)) \in Nat /\ Len(m.kel) <= Len(Merged(m))
      /\ Len(held) <= Len(Merged(m))
  BY <1>1, <1>2, <1>8
<1>10. Begins(held, Merged(m))
  BY <1>2, <1>9, BeginsOf
<1>11. WellMade(Merged(m))
  <2>1. Len(Merged(m)) >= 1
    BY <1>1, <1>9
  <2> QED
    BY <1>1, <1>9, <2>1, BeginsWellMade
<1>12. Len(held) >= Len(m.kel) => Merged(m) = held
  <2>1. CASE Len(m.kel) < Len(held)
    BY <1>8, <2>1
  <2>2. CASE Len(held) = Len(m.kel)
    <3>1. held = m.kel
      BY <1>1, <1>2, <2>2, BeginsOf
    <3> QED
      BY <1>8, <3>1
  <2> QED
    BY <1>1, <2>1, <2>2
<1>13. CheckNewEvents(held, Merged(m), now, None)
  <2> SUFFICES ASSUME NEW i \in Len(held) + 1 .. Len(Merged(m))
               PROVE  Merged(m)[i].event.ts <= now + EventClockWindow
    BY DEF CheckNewEvents, isFirstWitness
  <2>1. i \in 1..Len(Merged(m)) /\ i \in 1..Len(agent.kel)
    BY <1>1, <1>9 DEF Begins
  <2>2. Merged(m)[i] = agent.kel[i]
    BY <1>9, <2>1 DEF Begins
  <2>3. /\ witnessed[i] <= now /\ agent.kel[i].event.ts <= witnessed[i] + EventClockWindow
        /\ witnessed[i] \in Int /\ now \in Int
    BY <2>1 DEF Inv, WitnessedOK, ClocksOK
  <2>4. agent.kel[i].event.ts \in Int
    BY <1>1, <2>1 DEF WellMade
  <2>5. EventClockWindow \in Nat
    BY WindowAssumption
  <2> QED
    BY <2>2, <2>3, <2>4, <2>5
<1>14. MergeRefuses(m) = "ok"
  BY <1>6, <1>13 DEF MergeRefuses
<1> QED
  BY <1>9, <1>10, <1>11, <1>12, <1>14

\* The four steps of a verdict, of which the merge never refuses.
LEMMA VerdictFacts ==
  ASSUME Inv, NEW m, GoodMessage(m)
  PROVE  LET v == VerifyNotice(m.notice, m.kel, hubHeld, m.at)
             s == VerifyInnerSig(m, Merged(m))
         IN  /\ CheckTime(m, now) = IF now > m.exp THEN "expired"
                                    ELSE IF m.ts > now + ClockSkew THEN "from-future" ELSE "ok"
             /\ Verdict(m) = IF now > m.exp THEN "expired"
                             ELSE IF m.ts > now + ClockSkew THEN "from-future"
                             ELSE IF v # "ok" THEN v ELSE s
<1>1. /\ m.ts \in Int /\ m.exp = m.ts + MaxMessageLifetime /\ MaxMessageLifetime \in Nat
  BY ReceiveAssumption DEF GoodMessage
<1>2. CheckTime(m, now) = IF now > m.exp THEN "expired"
                          ELSE IF m.ts > now + ClockSkew THEN "from-future" ELSE "ok"
  BY <1>1 DEF CheckTime
<1>3. MergeRefuses(m) = "ok"
  BY MergeFacts
<1> QED
  BY <1>2, <1>3 DEF Verdict, CheckNotice

\* What a notice that passes says: it is about the message's key state and fresh enough.
LEMMA NoticeFresh ==
  ASSUME Inv, NEW m, GoodMessage(m), NEW wkel, VerifyNotice(m.notice, m.kel, wkel, m.at) = "ok",
         m.at \in Int, NoticeMaxAge \in Int
  PROVE  Fresh(m)
<1>1. m.notice.seq = Tip(m.kel).seq
  BY DEF VerifyNotice
<1>2. Tip(m.kel).seq = m.seq
  <2>1. Len(m.kel) \in 1..Len(m.kel) /\ Len(m.kel) \in 1..Len(agent.kel) /\ m.seq = Len(m.kel) - 1
    BY Lengths, MessageLengths
  <2>2. m.kel[Len(m.kel)] = agent.kel[Len(m.kel)]
    BY <2>1, MessageLengths DEF Begins
  <2>3. agent.kel[Len(m.kel)].event.seq = Len(m.kel) - 1
    BY <2>1, Lengths DEF WellMade
  <2> QED
    BY <2>1, <2>2, <2>3 DEF Tip, KeyState
<1>3. ~(m.at > m.notice.observedAt + NoticeMaxAge)
  BY DEF VerifyNotice
<1>4. m.notice.observedAt \in Int
  <2>1. m.notice.observedAt \in 2..now /\ now \in Int
    BY DEF GoodMessage, Inv, NoticesOK, ClocksOK
  <2> QED
    BY <2>1
<1> QED
  BY <1>1, <1>2, <1>3, <1>4 DEF Fresh

\* What VerifyObject and the use of retired key states make of a signature by the key of an event
\* that is not a dip, for an object from before the key was replaced.
LEMMA SignatureHolds ==
  ASSUME NEW kel, WellMade(kel), NEW i \in 1..Len(kel), kel[i].event.type # "dip",
         NEW t, t # 0, NEW sig, sig = kel[i].event.key, NEW seq, seq = i - 1,
         i < Len(kel) => t \in Int /\ t < kel[i + 1].event.ts
  PROVE  /\ VerifyObject(kel, AIDOf(kel), seq, t, sig) = "ok"
         /\ i = Len(kel) => KeyState(kel, i).status = "active" /\ ~KeyState(kel, i).retiredUrgently
         /\ i < Len(kel) => /\ KeyState(kel, i).status = "rotated"
                            /\ KeyState(kel, i).supersededAt = kel[i + 1].event.ts
                            /\ KeyState(kel, i).retiredUrgently
                                 <=> kel[i + 1].event.type = "dip" \/ kel[i + 1].event.emergency
<1>1. Len(kel) \in Nat /\ Replays(kel)
  BY DEF WellMade, IsSeq
<1> DEFINE ks == KeyState(kel, i)
<1>2. ks.key = sig /\ (i = Len(kel) => ks.status = "active" /\ ~ks.retiredUrgently)
  BY DEF KeyState
<1>3. ASSUME i < Len(kel)
      PROVE  /\ ks.status = "rotated" /\ ks.supersededAt = kel[i + 1].event.ts
             /\ ks.retiredUrgently <=> kel[i + 1].event.type = "dip" \/ kel[i + 1].event.emergency
  <2>1. i # Len(kel)
    BY <1>1, <1>3
  <2> QED
    BY <2>1 DEF KeyState
<1>4. i < Len(kel) => kel[i + 1].event.ts \in Int
  <2>1. i < Len(kel) => i + 1 \in 1..Len(kel)
    BY <1>1
  <2> QED
    BY <2>1 DEF WellMade
<1>5. seq + 1 = i /\ ~(seq >= Len(kel))
  BY <1>1
<1>6. VerifyObject(kel, AIDOf(kel), seq, t, sig)
        = CASE ks.status = "deactivated" -> "REVOKED_KEY"
            [] ks.status # "deactivated" /\ sig # ks.key -> "INVALID_SIGNATURE"
            [] ks.status = "active" /\ sig = ks.key -> "ok"
            [] OTHER -> IF t = 0 \/ t >= ks.supersededAt THEN "REVOKED_KEY" ELSE "ok"
  BY <1>1, <1>5 DEF VerifyObject
<1> HIDE DEF ks
<1>7. CASE i = Len(kel)
  BY <1>1, <1>2, <1>6, <1>7 DEF ks
<1>8. CASE i < Len(kel)
  <2>1. ~(t = 0 \/ t >= ks.supersededAt)
    BY <1>3, <1>4, <1>8
  <2>2. VerifyObject(kel, AIDOf(kel), seq, t, sig) = "ok"
    BY <1>2, <1>3, <1>6, <1>8, <2>1
  <2>3. i # Len(kel)
    BY <1>1, <1>8
  <2> QED
    BY <1>3, <1>8, <2>2, <2>3 DEF ks
<1> QED
  BY <1>1, <1>7, <1>8

\* The signature of a message that its sender sealed, when nothing excuses a refusal.
LEMMA InnerSigHolds ==
  ASSUME Inv, NEW m, GoodMessage(m), Arrived(m), m.current, ~Excused(m)
  PROVE  VerifyInnerSig(m, Merged(m)) = "ok"
<1> DEFINE kel == Merged(m)
           i == m.seq + 1
<1>1. /\ Begins(kel, agent.kel) /\ WellMade(kel) /\ Len(kel) \in Nat /\ Len(m.kel) <= Len(kel)
  BY MergeFacts
<1> HIDE DEF kel
<1>2. /\ Len(agent.kel) \in Nat /\ WellMade(agent.kel) /\ Len(m.kel) \in Nat /\ Len(m.kel) >= 2
      /\ m.seq \in Nat /\ i = Len(m.kel) /\ Begins(m.kel, agent.kel) /\ Len(kel) <= Len(agent.kel)
  BY <1>1, Lengths, MessageLengths DEF Begins
<1> HIDE DEF i
<1>3. i \in 1..Len(kel) /\ i \in 1..Len(m.kel) /\ 1 \in 1..Len(kel) /\ m.seq = i - 1
  BY <1>1, <1>2 DEF i
<1>4. kel[i] = agent.kel[i] /\ m.kel[i] = agent.kel[i] /\ kel[1] = agent.kel[1]
  BY <1>1, <1>2, <1>3 DEF Begins
<1>5. /\ m.sig = kel[i].event.key /\ kel[i].event.type # "dip"
      /\ m.ts \in Int /\ m.ts # 0 /\ AIDOf(kel) = m.from
      /\ \A j \in m.seq + 2 .. Len(agent.kel) : m.ts <= agent.kel[j].event.ts
  BY <1>2, <1>4 DEF GoodMessage, Current, last, AIDOf
<1>6. ASSUME i < Len(kel)
      PROVE  /\ m.ts < kel[i + 1].event.ts
             /\ ~(kel[i + 1].event.type = "dip" \/ kel[i + 1].event.emergency)
             /\ m.at <= kel[i + 1].event.ts + RotationGrace
  <2>1. i + 1 \in m.seq + 2 .. Len(agent.kel) /\ i + 1 \in 1..Len(kel)
    BY <1>1, <1>2, <1>3, <1>6
  <2>2. kel[i + 1] = agent.kel[i + 1]
    BY <1>1, <2>1 DEF Begins
  <2>3. kel[i + 1].event.ts \in Int
    BY <1>1, <2>1 DEF WellMade
  <2>4. /\ m.ts <= kel[i + 1].event.ts /\ kel[i + 1].event.ts # m.ts
        /\ ~(kel[i + 1].event.emergency \/ kel[i + 1].event.type = "dip")
        /\ ~(m.at > m.ts + RotationGrace)
    BY <1>5, <2>1, <2>2 DEF Excused
  <2>5. m.at \in Int /\ RotationGrace \in Nat
    BY NoticeAssumption DEF Arrived
  <2> QED
    BY <1>5, <2>3, <2>4, <2>5
<1> DEFINE ks == KeyState(kel, i)
<1>7. /\ VerifyObject(kel, m.from, m.seq, m.ts, m.sig) = "ok"
      /\ i = Len(kel) => ks.status = "active" /\ ~ks.retiredUrgently
      /\ i < Len(kel) => /\ ks.status = "rotated" /\ ks.supersededAt = kel[i + 1].event.ts
                         /\ ks.retiredUrgently <=> kel[i + 1].event.type = "dip" \/ kel[i + 1].event.emergency
  BY <1>1, <1>3, <1>5, <1>6, SignatureHolds
<1> HIDE DEF ks
<1>8. SenderKeyUsable(ks, m.at)
  <2>1. CASE i = Len(kel)
    BY <1>7, <2>1 DEF SenderKeyUsable, RetiredUsableAt
  <2>2. CASE i < Len(kel)
    BY <1>6, <1>7, <2>2 DEF SenderKeyUsable, RetiredUsableAt
  <2> QED
    BY <1>1, <1>3, <2>1, <2>2
<1>9. VerifyInnerSig(m, kel) = "ok"
  <2>1. ~(m.seq >= Len(kel)) /\ Replays(kel)
    BY <1>1, <1>3 DEF WellMade
  <2>2. SenderKeyUsable(KeyState(kel, m.seq + 1), m.at)
    BY <1>8 DEF ks, i
  <2> QED
    BY <1>5, <1>7, <2>1, <2>2 DEF VerifyInnerSig
<1> QED
  BY <1>9 DEF kel

\* Its notice.
LEMMA NoticeHolds ==
  ASSUME NoneIsNil, Inv, NEW m, GoodMessage(m), Arrived(m), m.current, ~Excused(m)
  PROVE  VerifyNotice(m.notice, m.kel, hubHeld, m.at) \in {"ok", "witness-unknown"}
<1> DEFINE n == m.notice
           l == Len(m.kel)
           tip == Tip(m.kel)
           k == n.keySeq + 1
<1>1. AgentOK /\ HubOK /\ HeldOK /\ NoticesOK /\ ClocksOK
  BY DEF Inv
<1>2. /\ Len(agent.kel) \in Nat /\ WellMade(agent.kel) /\ l \in Nat /\ l >= 2 /\ l <= Len(agent.kel)
      /\ m.seq = l - 1 /\ Begins(m.kel, agent.kel) /\ IsSeq(m.kel)
  BY Lengths, MessageLengths
<1>3. /\ n.observedAt \in 2..now /\ n.aid = AIDOf(agent.kel) /\ n.witness = hubAID /\ n.signer = hubAID
      /\ n.seq = m.seq /\ n.head = CID(agent.kel[n.seq + 1].event)
      /\ n.keySeq \in 0 .. Len(hub.kel) - 1 /\ n.sig = hub.kel[n.keySeq + 1].event.key
      /\ n.keySeq + 2 <= Len(hub.kel) => n.observedAt <= hub.kel[n.keySeq + 2].event.ts
  BY <1>1 DEF GoodMessage, NoticesOK, Current
<1>4. WellMade(m.kel) /\ AIDOf(m.kel) = AIDOf(agent.kel) /\ toadLocked(m.kel) = ToadAgent
  <2>1. l >= 1
    BY <1>2
  <2> QED
    BY <1>1, <1>2, <2>1, BeginsWellMade DEF AgentOK
<1>5. l \in 1..l /\ l \in 2..Len(agent.kel) /\ m.kel[l] = agent.kel[l]
  <2>1. l \in 1..l /\ l \in 2..Len(agent.kel)
    BY <1>2
  <2> QED
    BY <1>2, <2>1 DEF Begins
<1>6. /\ tip.toad = ToadAgent /\ tip.witness = hubAID /\ tip.seq = m.seq
      /\ tip.lastEventID = CID(agent.kel[l].event)
  <2>1. m.kel[l].event.type # "dip"
    BY DEF GoodMessage, Current, last
  <2>2. Follows(agent.kel[1].event, agent.kel[l - 1].event, agent.kel[l].event)
    BY <1>2, <1>5 DEF WellMade, Replays
  <2>3. agent.kel[l].event.type = "rot"
    BY <1>5, <2>1, <2>2 DEF Follows
  <2>4. m.kel[l].event.witness = hubAID /\ m.kel[l].event.seq = l - 1
    BY <1>1, <1>4, <1>5, <2>3 DEF AgentOK, WellMade
  <2> QED
    BY <1>2, <1>4, <1>5, <2>1, <2>4 DEF Tip, KeyState, toadLocked
<1> HIDE DEF tip
<1>7. hubAID # None
  BY DEF hubAID, AIDOf, CID, NoneIsNil
<1>8. n.seq + 1 = l
  BY <1>2, <1>3
<1>9. ~(n.observedAt > m.at + EventClockWindow \/ m.at > n.observedAt + NoticeMaxAge)
  <2>1. n.observedAt <= m.at /\ ~(m.at > n.observedAt + RotationGrace) /\ m.at \in Int
    BY DEF Arrived, Excused
  <2>2. /\ RotationGrace \in Nat /\ NoticeMaxAge \in Nat /\ RotationGrace <= NoticeMaxAge
        /\ EventClockWindow \in Nat /\ n.observedAt \in Int
    BY <1>1, <1>3, NoticeAssumption, WindowAssumption, ReceiveAssumption DEF ClocksOK
  <2> QED
    BY <2>1, <2>2
<1>10. /\ WellMade(hubHeld) /\ AIDOf(hubHeld) = hubAID /\ toadLocked(hubHeld) = ToadHub
       /\ Begins(hubHeld, hub.kel) /\ Len(hubHeld) \in Nat /\ Len(hubHeld) <= Len(hub.kel)
       /\ Len(hub.kel) \in {1, 2}
  BY <1>1, Lengths, BeginsWellMade DEF HubOK, HeldOK, Begins
<1>15. /\ Len(hub.kel) \in Nat /\ Len(hub.kel) <= 2
       /\ n.keySeq \in Nat /\ n.keySeq + 1 <= Len(hub.kel)
  <2>1. Len(hub.kel) \in {1, 2}
    BY <1>10
  <2>2. \A h \in {1, 2} : h \in Nat /\ h <= 2
    OBVIOUS
  <2>3. Len(hub.kel) \in Nat /\ Len(hub.kel) <= 2
    BY <2>1, <2>2
  <2> QED
    BY <1>3, <2>3
<1>16. ASSUME NEW a \in Nat, NEW h \in Nat, NEW g \in Nat, a + 1 <= h, h <= 2, a < g, g <= h
       PROVE  /\ a + 1 = 1 \/ (a + 1 = 2 /\ h = 2)
              /\ a + 1 \in 1..g /\ a = (a + 1) - 1
              /\ a + 1 < g => a + 1 = 1 /\ g = 2 /\ h = 2 /\ a + 2 = 2
  BY <1>16
<1>17. Len(hubHeld) \in Nat /\ Len(hubHeld) <= Len(hub.kel)
  BY <1>10
<1>11. ASSUME ~(n.keySeq >= Len(hubHeld))
       PROVE  /\ VerifyObject(hubHeld, n.witness, n.keySeq, n.observedAt, n.sig) = "ok"
              /\ RetiredUsableAt(KeyState(hubHeld, k), m.at)
  <2>1. k \in 1..Len(hubHeld) /\ n.keySeq = k - 1 /\ n.keySeq \in Nat
    <3> HIDE DEF n
    <3>1. n.keySeq < Len(hubHeld)
      BY <1>11, <1>15, <1>17
    <3> QED
      BY <1>15, <1>16, <1>17, <3>1
  <2>2. hubHeld[k] = hub.kel[k]
    BY <1>10, <2>1 DEF Begins
  <2>3. k = 1 \/ (k = 2 /\ Len(hub.kel) = 2)
    <3> HIDE DEF n
    <3>1. n.keySeq < Len(hubHeld)
      BY <1>11, <1>15, <1>17
    <3> QED
      BY <1>15, <1>16, <1>17, <3>1
  <2>4. hubHeld[k].event.type # "dip"
    <3>1. hub.kel[1].event.type = "icp"
      BY <1>1 DEF HubOK, WellMade, Replays, checkInception
    <3>2. Len(hub.kel) = 2 => hub.kel[2].event.type = "rot"
      BY <1>1 DEF HubOK
    <3> HIDE DEF k
    <3>3. CASE k = 1
      BY <2>2, <3>1, <3>3
    <3>4. CASE k = 2 /\ Len(hub.kel) = 2
      BY <2>2, <3>2, <3>4
    <3> QED
      BY <2>3, <3>3, <3>4
  <2>5. n.observedAt \in Int /\ n.observedAt # 0 /\ m.at \in Int /\ RotationGrace \in Nat
    BY <1>1, <1>3, NoticeAssumption DEF ClocksOK, Arrived
  <2>6. ASSUME k < Len(hubHeld)
        PROVE  /\ n.observedAt < hubHeld[k + 1].event.ts
               /\ ~hubHeld[k + 1].event.emergency /\ hubHeld[k + 1].event.type # "dip"
               /\ m.at <= hubHeld[k + 1].event.ts + RotationGrace
    <3>1. k = 1 /\ Len(hubHeld) = 2 /\ Len(hub.kel) = 2 /\ n.keySeq + 2 = 2
      <4> HIDE DEF n
      <4>1. n.keySeq < Len(hubHeld)
        BY <1>11, <1>15, <1>17
      <4> QED
        BY <1>15, <1>16, <1>17, <2>6, <4>1
    <3>2. hubHeld[2] = hub.kel[2] /\ hub.kel[2].event.ts \in Int /\ hub.kel[2].event.type = "rot"
      <4>1. 2 \in 1..Len(hubHeld) /\ 2 \in 1..Len(hub.kel)
        BY <3>1
      <4> QED
        BY <1>1, <1>10, <3>1, <4>1 DEF Begins, HubOK, WellMade
    <3>3. n.observedAt <= hub.kel[2].event.ts
      BY <1>3, <3>1
    <3>4. /\ ~hub.kel[2].event.emergency /\ hub.kel[2].event.ts # n.observedAt
          /\ ~(m.at > n.observedAt + RotationGrace)
      BY <3>1 DEF Excused
    <3>5. k + 1 = 2
      BY <3>1
    <3> QED
      BY <2>5, <3>2, <3>3, <3>4, <3>5
  <2>7. n.sig = hubHeld[k].event.key /\ n.witness = AIDOf(hubHeld)
    BY <1>3, <1>10, <2>2
  <2> HIDE DEF k, n
  <2> DEFINE ks == KeyState(hubHeld, k)
  <2>8. /\ VerifyObject(hubHeld, n.witness, n.keySeq, n.observedAt, n.sig) = "ok"
        /\ k = Len(hubHeld) => ks.status = "active"
        /\ k < Len(hubHeld) => /\ ks.status = "rotated" /\ ks.supersededAt = hubHeld[k + 1].event.ts
                               /\ ~ks.retiredUrgently
    BY <1>10, <2>1, <2>4, <2>5, <2>6, <2>7, SignatureHolds
  <2> HIDE DEF ks
  <2>9. RetiredUsableAt(ks, m.at)
    <3>1. CASE k = Len(hubHeld)
      BY <2>8, <3>1 DEF RetiredUsableAt
    <3>2. CASE k < Len(hubHeld)
      BY <2>6, <2>8, <3>2 DEF RetiredUsableAt
    <3> QED
      BY <1>10, <2>1, <3>1, <3>2
  <2> QED
    BY <2>8, <2>9 DEF ks
<1>12. Replays(m.kel) /\ Replays(hubHeld)
  BY <1>4, <1>10 DEF WellMade
<1> HIDE DEF n
<1>13. /\ ~(tip.toad # ToadAgent \/ tip.witness = None)
       /\ ~(n.aid # AIDOf(m.kel) \/ n.seq # tip.seq \/ n.head # tip.lastEventID)
       /\ ~(n.witness # tip.witness \/ n.signer # n.witness)
  BY <1>3, <1>4, <1>6, <1>7, <1>8
<1>14. VerifyNotice(n, m.kel, hubHeld, m.at) \in {"ok", "witness-unknown"}
  <2>1. CASE n.keySeq >= Len(hubHeld)
    BY <1>12, <1>13, <2>1, Zenon DEF VerifyNotice, tip
  <2>2. CASE ~(n.keySeq >= Len(hubHeld))
    BY <1>9, <1>10, <1>11, <1>12, <1>13, <2>2 DEF VerifyNotice, tip
  <2> QED
    BY <2>1, <2>2
<1> QED
  BY <1>14 DEF n

LEMMA ReceiveMessageInv ==
  ASSUME NoneIsNil, Inv, NEW m \in inbox, ReceiveMessage(m)
  PROVE  Inv'
<1> DEFINE v == Verdict(m)
           notice == VerifyNotice(m.notice, m.kel, hubHeld, m.at)
           inner == VerifyInnerSig(m, Merged(m))
<1>1. ClocksOK /\ AgentOK /\ WitnessedOK /\ HubOK /\ HeldOK /\ NoticesOK /\ InboxOK
  BY DEF Inv
<1>2. GoodMessage(m) /\ Arrived(m)
  BY <1>1 DEF InboxOK
<1>3. /\ v = "ok" \/ Permanent(v)
      /\ inbox' = inbox \ {m}
      /\ held' = IF CheckTime(m, now) = "ok" /\ MergeRefuses(m) = "ok" THEN Merged(m) ELSE held
      /\ accepted' = IF v = "ok" THEN accepted \cup {m} ELSE accepted
      /\ refused' = IF v = "ok" THEN refused ELSE refused \cup {[msg |-> m, reason |-> v]}
      /\ UNCHANGED <<now, clock, agent, witnessed, hub, notices, transit, hubHeld>>
  BY DEF ReceiveMessage
<1>4. /\ MergeRefuses(m) = "ok"
      /\ Begins(Merged(m), agent.kel) /\ Begins(held, Merged(m)) /\ WellMade(Merged(m))
      /\ Len(Merged(m)) \in Nat /\ Len(m.kel) <= Len(Merged(m))
  BY <1>2, MergeFacts
<1>5. /\ CheckTime(m, now) = IF now > m.exp THEN "expired"
                             ELSE IF m.ts > now + ClockSkew THEN "from-future" ELSE "ok"
      /\ v = IF now > m.exp THEN "expired"
             ELSE IF m.ts > now + ClockSkew THEN "from-future"
             ELSE IF notice # "ok" THEN notice ELSE inner
  BY <1>2, VerdictFacts
<1> HIDE DEF v, notice, inner
<1>6. Begins(held, held') /\ Begins(held', agent.kel)
  BY <1>1, <1>3, <1>4, Lengths, BeginsSelf DEF HeldOK
<1>7. AgentOK' /\ HubOK' /\ HeldOK' /\ WitnessedOK' /\ NoticesOK' /\ ClocksOK'
  BY <1>1, <1>3, <1>6 DEF AgentOK, HubOK, HeldOK, WitnessedOK, NoticesOK, ClocksOK
<1>8. Steady
  <2>1. Begins(agent.kel, agent.kel') /\ Begins(hub.kel, hub.kel') /\ Begins(hubHeld, hubHeld')
    BY <1>3, Lengths, BeginsSelf
  <2>2. \A i \in Len(agent.kel) + 1 .. Len(agent.kel') : FALSE
    BY <1>3, Lengths
  <2> QED
    BY <1>1, <1>3, <1>6, <2>1, <2>2 DEF Steady, ClocksOK
<1>9. ASSUME NEW x, GoodMessage(x)
      PROVE  GoodMessage(x)' /\ (Arrived(x) => Arrived(x)')
             /\ (Dead(x) => Dead(x)') /\ (Excused(x) => Excused(x)')
  <2>1. SenderSkew \in Int /\ MaxMessageLifetime \in Nat
    BY ReceiveAssumption
  <2> QED
    BY <1>7, <1>8, <1>9, <2>1, MessageKept, DeadKept, ExcusedKept
<1>10. TransitOK'
  BY <1>3, <1>9 DEF Inv, TransitOK
<1>11. InboxOK'
  BY <1>1, <1>3, <1>9 DEF InboxOK
<1>12. AcceptedOK'
  <2>1. \A x \in accepted : GoodMessage(x)' /\ Arrived(x)' /\ Fresh(x)
    BY <1>9 DEF Inv, AcceptedOK
  <2>2. ASSUME v = "ok" PROVE Fresh(m)
    <3>1. notice = "ok" /\ m.at \in Int
      BY <1>2, <1>5, <2>2 DEF Arrived
    <3>2. NoticeMaxAge \in Int
      BY NoticeAssumption
    <3> QED
      BY <1>2, <3>1, <3>2, NoticeFresh DEF notice
  <2> QED
    BY <1>2, <1>3, <1>9, <2>1, <2>2 DEF AcceptedOK, Fresh
<1>13. RefusedOK'
  <2>1. \A r \in refused : /\ GoodMessage(r.msg)' /\ Arrived(r.msg)'
                           /\ r.reason \notin AheadOfClock => Dead(r.msg)'
                           /\ r.msg.current => Excused(r.msg)'
    BY <1>9 DEF Inv, RefusedOK
  <2>2. ASSUME v # "ok" PROVE (v \notin AheadOfClock => Dead(m)') /\ (m.current => Excused(m)')
    <3>1. v # "witness-unknown"
      BY <1>3, <2>2 DEF Permanent
    <3>2. CASE now > m.exp
      <4>1. Dead(m) /\ Excused(m)
        BY <3>2 DEF Dead, Excused
      <4> QED
        BY <1>2, <1>9, <4>1
    <3>5. CASE ~(now > m.exp) /\ m.ts > now + ClockSkew
      <4>1. v \in AheadOfClock
        BY <1>5, <3>5 DEF AheadOfClock
      <4>2. m.at \in Int /\ m.at <= now /\ m.ts \in Int /\ now \in Int /\ ClockSkew \in Nat
        BY <1>2, ReceiveAssumption DEF Arrived, GoodMessage, Inv, ClocksOK
      <4>3. Excused(m)
        BY <3>5, <4>2 DEF Excused
      <4> QED
        BY <1>2, <1>9, <4>1, <4>3
    <3>3. CASE ~(now > m.exp) /\ ~(m.ts > now + ClockSkew) /\ notice # "ok"
      <4>1. notice \notin {"ok", "witness-unknown"}
        BY <1>5, <3>1, <3>3
      <4>2. Dead(m)
        BY <4>1 DEF Dead, notice
      <4>3. m.current => Excused(m)
        BY <1>2, <4>1, NoticeHolds DEF notice
      <4> QED
        BY <1>2, <1>9, <4>2, <4>3
    <3>4. CASE ~(now > m.exp) /\ ~(m.ts > now + ClockSkew) /\ notice = "ok"
      <4>1. inner # "ok" /\ held' = Merged(m)
        BY <1>3, <1>4, <1>5, <2>2, <3>4
      <4>2. Dead(m)'
        <5>1. Len(held') >= Len(m.kel)
          BY <1>4, <4>1, MessageLengths, <1>2
        <5>2. VerifyInnerSig(m, held') # "ok"
          BY <4>1 DEF inner
        <5> QED
          BY <5>1, <5>2 DEF Dead
      <4>3. m.current => Excused(m)
        BY <1>2, <4>1, InnerSigHolds DEF inner
      <4> QED
        BY <1>2, <1>9, <4>2, <4>3
    <3> QED
      BY <3>2, <3>3, <3>4, <3>5
  <2>3. ASSUME NEW r \in refused'
        PROVE  /\ GoodMessage(r.msg)' /\ Arrived(r.msg)'
               /\ r.reason \notin AheadOfClock => Dead(r.msg)'
               /\ r.msg.current => Excused(r.msg)'
    <3>1. CASE r \in refused
      BY <2>1, <3>1
    <3>2. CASE r \notin refused
      <4>1. v # "ok" /\ r = [msg |-> m, reason |-> v]
        BY <1>3, <3>2
      <4>2. r.msg = m /\ r.reason = v
        BY <4>1
      <4> QED
        BY <1>2, <1>9, <2>2, <4>1, <4>2
    <3> QED
      BY <3>1, <3>2
  <2> QED
    BY <2>3 DEF RefusedOK
<1> QED
  BY <1>7, <1>10, <1>11, <1>12, <1>13 DEF Inv

LEMMA NextInv == ASSUME NoneIsNil, Inv, [Next]_vars PROVE Inv'
<1>1. CASE Tick
  BY <1>1, TickInv
<1>2. ASSUME NEW ts \in Readings, NEW e \in BOOLEAN, Rotate(e, ts) PROVE Inv'
  BY <1>2, RotateInv
<1>3. ASSUME NEW ts \in Readings, Deactivate(ts) PROVE Inv'
  BY <1>3, DeactivateInv
<1>4. ASSUME NEW e \in BOOLEAN, HubRotate(e) PROVE Inv'
  BY <1>4, HubRotateInv
<1>5. CASE Notify
  BY <1>5, NotifyInv
<1>6. ASSUME NEW n \in notices, NEW ts \in Readings, Send(n, ts) PROVE Inv'
  BY <1>6, SendInv
<1>7. ASSUME NEW i \in 2..Len(agent.kel), NEW n \in notices, NEW ts \in 2 .. now + SenderSkew,
             SendFromBackup(i, n, ts)
      PROVE  Inv'
  BY <1>7, SendFromBackupInv
<1>8. ASSUME NEW m \in transit, Deposit(m) PROVE Inv'
  BY <1>8, DepositInv
<1>9. CASE Learn
  BY <1>9, LearnInv
<1>10. CASE RefreshHubKEL
  BY <1>10, RefreshHubKELInv
<1>11. ASSUME NEW m \in inbox, ReceiveMessage(m) PROVE Inv'
  BY <1>11, ReceiveMessageInv
<1>12. CASE UNCHANGED vars
  BY <1>12 DEF vars, Inv, ClocksOK, AgentOK, WitnessedOK, HubOK, HeldOK, NoticesOK, TransitOK, InboxOK,
               AcceptedOK, RefusedOK, GoodMessage, Current, Arrived, Fresh, Dead, Excused
<1> QED
  BY <1>1, <1>2, <1>3, <1>4, <1>5, <1>6, <1>7, <1>8, <1>9, <1>10, <1>11, <1>12 DEF Next

-----------------------------------------------------------------------------
(* The theorems. *)

\* The inductive invariant.
THEOREM Invariance == ASSUME NoneIsNil PROVE Spec => []Inv
<1>1. Init => Inv
  BY InitInv
<1>2. Inv /\ [Next]_vars => Inv'
  BY NextInv
<1> QED
  BY <1>1, <1>2, PTL DEF Spec

\* What a notice is for: a key state that its witness has seen replaced signs no message that
\* arrives more than NoticeMaxAge later, and one that the recipient holds an emergency rot or a dip
\* after is accepted no more.
THEOREM OldKeys == ASSUME NoneIsNil PROVE Spec => OldKeysStop
<1>1. Inv => OldKeyBounded
  <2> SUFFICES ASSUME Inv, NEW m \in accepted, m.seq + 2 <= Len(agent.kel)
               PROVE  m.at <= witnessed[m.seq + 2] + NoticeMaxAge
    BY DEF OldKeyBounded
  <2>1. /\ GoodMessage(m) /\ m.at \in Int /\ m.notice.seq = m.seq
        /\ m.at <= m.notice.observedAt + NoticeMaxAge
    BY DEF Inv, AcceptedOK, Arrived, Fresh
  <2>2. m.notice \in notices /\ now \in Int
    BY <2>1 DEF GoodMessage, Inv, ClocksOK
  <2>3. m.notice.observedAt \in 2..now /\ m.notice.observedAt <= witnessed[m.seq + 2]
    BY <2>1, <2>2 DEF Inv, NoticesOK
  <2>4. witnessed[m.seq + 2] \in Int
    <3>1. m.seq + 2 \in 1..Len(agent.kel)
      BY <2>1, Lengths, MessageLengths
    <3> QED
      BY <3>1 DEF Inv, WitnessedOK
  <2> QED
    BY <2>1, <2>2, <2>3, <2>4, NoticeAssumption
<1>2. Inv /\ [Next]_vars =>
        [\A m \in accepted' \ accepted :
           m.seq + 2 <= Len(held) =>
             held[m.seq + 2].event.type # "dip" /\ ~held[m.seq + 2].event.emergency]_vars
  <2> SUFFICES ASSUME Inv, Next, NEW m \in accepted' \ accepted, m.seq + 2 <= Len(held)
               PROVE  held[m.seq + 2].event.type # "dip" /\ ~held[m.seq + 2].event.emergency
    OBVIOUS
  <2>1. m \in inbox /\ Verdict(m) = "ok"
    <3>1. accepted' # accepted
      OBVIOUS
    <3>2. PICK x \in inbox : ReceiveMessage(x)
      BY <3>1 DEF Next, Tick, Rotate, Deactivate, Witness, HubRotate, Notify, Send, SendFromBackup, Put,
                  Deposit, Learn, RefreshHubKEL
    <3> QED
      BY <3>2 DEF ReceiveMessage
  <2>2. GoodMessage(m)
    BY <2>1 DEF Inv, InboxOK
  <2>3. VerifyInnerSig(m, Merged(m)) = "ok"
    BY <2>1, <2>2, VerdictFacts
  <2>4. /\ m.seq \in Nat /\ Len(held) \in Nat /\ m.seq = Len(m.kel) - 1 /\ Len(m.kel) \in Nat
    BY <2>2, Lengths, MessageLengths
  <2>5. Len(held) >= Len(m.kel) /\ m.seq + 1 \in 1..Len(held) /\ m.seq + 1 < Len(held)
    BY <2>4
  <2>6. Merged(m) = held /\ WellMade(held)
    BY <2>2, <2>5, MergeFacts
  <2>7. ~KeyState(held, m.seq + 1).retiredUrgently
    BY <2>3, <2>4, <2>5, <2>6 DEF VerifyInnerSig, SenderKeyUsable, fromVErr
  <2>8. m.seq + 1 # Len(held) /\ (m.seq + 1) + 1 = m.seq + 2
    BY <2>4, <2>5
  <2> QED
    BY <2>7, <2>8 DEF KeyState
<1>3. Spec => []Inv
  BY Invariance
<1> QED
  BY <1>1, <1>2, <1>3, PTL DEF Spec, OldKeysStop, UrgentCutsOff

\* A planned rotation of the sender's key or of its witness's loses no message in flight.
THEOREM NothingLost == ASSUME NoneIsNil PROVE Spec => []PlannedRotationLosesNothing
<1>1. Inv => PlannedRotationLosesNothing
  BY DEF Inv, RefusedOK, Excused, PlannedRotationLosesNothing
<1> QED
  BY <1>1, Invariance, PTL

\* A reason that is called permanent is, unless it only says that a time is ahead of this node's
\* clock: no time, no KEL and no notice's signer that becomes known later makes a message acceptable
\* that was refused for it.
THEOREM RefusalIsFinal == ASSUME NoneIsNil PROVE Spec => []PermanentIsFinal
<1>1. Inv => PermanentIsFinal
  <2> SUFFICES ASSUME Inv, NEW r \in refused, r.reason \notin AheadOfClock PROVE Verdict(r.msg) # "ok"
    BY DEF PermanentIsFinal
  <2> DEFINE m == r.msg
             notice == VerifyNotice(m.notice, m.kel, hubHeld, m.at)
             inner == VerifyInnerSig(m, Merged(m))
  <2>1. GoodMessage(m) /\ Dead(m)
    BY DEF Inv, RefusedOK
  <2>2. Verdict(m) = IF now > m.exp THEN "expired"
                     ELSE IF m.ts > now + ClockSkew THEN "from-future"
                     ELSE IF notice # "ok" THEN notice ELSE inner
    BY <2>1, VerdictFacts
  <2>3. Len(held) >= Len(m.kel) => Merged(m) = held
    BY <2>1, MergeFacts
  <2> HIDE DEF m, inner
  <2>4. notice \notin {"ok", "witness-unknown"} => Verdict(m) # "ok"
    BY <2>2
  <2>5. Len(held) >= Len(m.kel) /\ VerifyInnerSig(m, held) # "ok" => inner # "ok"
    BY <2>3 DEF inner
  <2> HIDE DEF notice
  <2>6. Verdict(m) # "ok"
    BY <2>1, <2>2, <2>4, <2>5 DEF Dead, notice
  <2> QED
    BY <2>6 DEF m
<1> QED
  BY <1>1, Invariance, PTL
=============================================================================
