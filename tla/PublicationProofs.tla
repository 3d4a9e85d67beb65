-------------------------- MODULE PublicationProofs --------------------------
(***************************************************************************)
(* Theorems about Publication, for any nodes, hubs, peers, clocks and      *)
(* faults, and any number of events.                                       *)
(***************************************************************************)
EXTENDS Publication, TLAPS

-----------------------------------------------------------------------------
(* KELs and the events a Controller builds over them. *)

IsSeq(s) == s \in Seq({s[i] : i \in DOMAIN s})

\* A KEL replays, its events are numbered, timed and signed by their own key.
WellMade(kel) ==
  /\ IsSeq(kel)
  /\ Replays(kel)
  /\ \A i \in 1..Len(kel) : /\ kel[i].event.seq = i - 1 /\ kel[i].event.ts \in Int
                            /\ kel[i] = SignedEvent(kel[i].event, kel[i].event.key)

\* p has the fields of a pending event's material.
IsPending(p) ==
  p = [ kind |-> p.kind, revealed |-> p.revealed, next |-> p.next,
        emergency |-> p.emergency, event |-> p.event ]

\* c has the fields of a controller.
Fields(c) == c = [kel |-> c.kel, cur |-> c.cur, hot |-> c.hot, pending |-> c.pending, state |-> c.state]

\* The event buildEvent makes is signed by the key it reveals and follows the KEL's last one.
LEMMA BuildFacts ==
  ASSUME NEW kel, NEW p, NEW w, NEW ts
  PROVE  LET ev == buildEvent(kel, p, w, ts)
         IN  /\ ev = SignedEvent(ev.event, ev.event.key)
             /\ ev.event.seq = last(kel).seq + 1 /\ ev.event.ts = ts
             /\ p.kind # "dip" => ev.event.type = "rot" /\ ev.event.witness = w
             /\ p.kind = "dip" => ev.event.type = "dip"
<1> DEFINE rot == p.kind # "dip"
           urgent == rot /\ p.emergency
<1> HIDE DEF urgent
<1> DEFINE event ==
             [ type |-> IF rot THEN "rot" ELSE "dip",
               aid |-> AIDOf(kel), seq |-> last(kel).seq + 1, prev |-> CID(last(kel)),
               key |-> p.revealed,
               next |-> IF rot THEN p.next ELSE None,
               toad |-> IF rot THEN toadLocked(kel) ELSE None,
               witness |-> IF rot THEN w ELSE None,
               emergency |-> urgent, ts |-> ts ]
<1>1. buildEvent(kel, p, w, ts) = SignedEvent(event, p.revealed)
  BY DEF buildEvent, urgent
<1>2. /\ event.key = p.revealed /\ event.seq = last(kel).seq + 1 /\ event.ts = ts
      /\ rot => event.type = "rot" /\ event.witness = w
      /\ ~rot => event.type = "dip"
  OBVIOUS
<1> HIDE DEF event
<1>3. SignedEvent(event, p.revealed).event = event
  BY DEF SignedEvent
<1> QED
  BY <1>1, <1>2, <1>3

\* A KEL grows by an event at its end.
LEMMA AppendFacts ==
  ASSUME NEW kel, WellMade(kel), NEW ev
  PROVE  /\ Len(kel) \in Nat /\ Len(kel) >= 1
         /\ IsSeq(Append(kel, ev))
         /\ Len(Append(kel, ev)) = Len(kel) + 1
         /\ Append(kel, ev)[Len(kel) + 1] = ev
         /\ \A i \in 1..Len(kel) : Append(kel, ev)[i] = kel[i]
<1> DEFINE S == {kel[i] : i \in DOMAIN kel}
           a == Append(kel, ev)
<1>1. kel \in Seq(S \cup {ev}) /\ kel \in Seq(S) /\ Len(kel) \in Nat /\ Len(kel) >= 1
  BY DEF WellMade, Replays, IsSeq
<1> HIDE DEF S
<1>2. /\ a \in Seq(S \cup {ev}) /\ Len(a) = Len(kel) + 1 /\ a[Len(kel) + 1] = ev
      /\ DOMAIN a = 1 .. Len(kel) + 1
      /\ \A i \in 1..Len(kel) : a[i] = kel[i]
  BY <1>1
<1> HIDE DEF a
<1>3. IsSeq(a)
  <2>1. a \in [1 .. Len(a) -> {a[i] : i \in DOMAIN a}]
    BY <1>1, <1>2
  <2>2. Len(a) \in Nat
    BY <1>1, <1>2
  <2> QED
    BY <2>1, <2>2 DEF IsSeq
<1> QED
  BY <1>1, <1>2, <1>3 DEF a

\* What is built over a well-made KEL and replays is a well-made KEL.
LEMMA BuiltIsWellMade ==
  ASSUME NEW kel, WellMade(kel), NEW p, NEW w, NEW ts \in Int,
         Replays(Append(kel, buildEvent(kel, p, w, ts)))
  PROVE  WellMade(Append(kel, buildEvent(kel, p, w, ts)))
<1> DEFINE ev == buildEvent(kel, p, w, ts)
           a == Append(kel, ev)
           n == Len(kel)
<1>1. ev = SignedEvent(ev.event, ev.event.key) /\ ev.event.seq = last(kel).seq + 1 /\ ev.event.ts \in Int
  BY BuildFacts
<1> HIDE DEF ev
<1>2. /\ n \in Nat /\ n >= 1 /\ IsSeq(a) /\ Len(a) = n + 1 /\ a[n + 1] = ev
      /\ \A i \in 1..n : a[i] = kel[i]
  BY AppendFacts
<1>3. last(kel).seq = n - 1
  BY <1>2 DEF WellMade, last
<1>4. Replays(a)
  BY DEF ev
<1> HIDE DEF a, n
<1>6. ASSUME NEW i \in 1..Len(a)
      PROVE  /\ a[i].event.seq = i - 1 /\ a[i].event.ts \in Int
             /\ a[i] = SignedEvent(a[i].event, a[i].event.key)
  <2>1. CASE i = n + 1
    <3>1. a[i].event.seq = n - 1 + 1
      BY <1>1, <1>2, <1>3, <2>1
    <3> QED
      BY <1>1, <1>2, <2>1, <3>1
  <2>2. CASE i \in 1..n
    BY <1>2, <2>2 DEF WellMade, n
  <2> QED
    BY <1>2, <2>1, <2>2
<1>7. WellMade(a)
  BY <1>2, <1>4, <1>6 DEF WellMade
<1> QED
  BY <1>7 DEF a, ev

\* A Material is a pending record without an event.
LEMMA MaterialFacts ==
  ASSUME NEW kind, NEW revealed, NEW next, NEW emergency
  PROVE  LET p == Material(kind, revealed, next, emergency)
         IN  /\ IsPending(p)
             /\ p.kind = kind /\ p.event = None
BY DEF Material, IsPending

-----------------------------------------------------------------------------
(* The inductive invariant. *)

\* The inception all KELs of the identity start with.
Icp == incept(1, ToadAgent).kel[1]

\* A KEL of the identity.
GoodKEL(kel) == WellMade(kel) /\ kel[1] = Icp

\* Event i of kel is held by the hub that witnesses it, which accepted it close to its time.
InTime(event) == \E s \in seen : s.event = event /\ s.at - s.event.ts \in -EventClockWindow..EventClockWindow

Held(kel, i) ==
  LET w == witnessOf(kel, i)
  IN  w \in Hubs /\ Len(stored[w]) >= i /\ stored[w][i] = kel[i] /\ InTime(kel[i].event)

Witnessed(kel) == \A i \in 2..Len(kel) : Held(kel, i)

\* The pending material p over the KEL kel: what buildEvent made of it, naming a hub.
GoodPending(kel, p) ==
  p # None =>
    /\ IsPending(p)
    /\ p.kind = "dip" => Len(kel) >= 2
    /\ p.event # None =>
         /\ \E w : \E ts \in Int :
              p.event = buildEvent(kel, p, w, ts) /\ (p.kind # "dip" => w \in Hubs)
         /\ Replays(Append(kel, p.event))

\* A controller or an identity file.
GoodState(c) == GoodKEL(c.kel) /\ GoodPending(c.kel, c.pending) /\ Witnessed(c.kel)

TypeInv ==
  /\ DOMAIN node = Nodes /\ DOMAIN file = Nodes /\ DOMAIN answers = Nodes
  /\ stored = [h \in Hubs |-> stored[h]] /\ merged = [p \in Peers |-> merged[p]]
  /\ now \in Int /\ skew \in [Hubs -> Int]

NodesOK ==
  \A n \in Nodes :
    node[n] # None => Fields(node[n]) /\ GoodState(node[n]) /\ GoodState(file[n])

StoredOK == \A h \in Hubs : stored[h] = <<>> \/ (GoodKEL(stored[h]) /\ Witnessed(stored[h]))

\* A push goes to the hub that witnesses the last event, and all others are witnessed.
PushesOK ==
  \A r \in pushes :
    /\ r.from \in Nodes /\ r.hub \in Hubs
    /\ GoodKEL(r.kel) /\ Len(r.kel) >= 2
    /\ r.hub = witnessOf(r.kel, Len(r.kel))
    /\ \A i \in 2 .. Len(r.kel) - 1 : Held(r.kel, i)

\* An answer that accepts an event comes from the hub that witnesses it and holds it.
AnswersOK ==
  \A n \in Nodes :
    answers[n] # None /\ answers[n].verdict = "ok" =>
      \E h \in Hubs : \E i \in 2..Len(stored[h]) :
        stored[h][i] = answers[n].event /\ witnessOf(stored[h], i) = h

MergedOK == \A p \in Peers : merged[p] = <<>> \/ (GoodKEL(merged[p]) /\ Witnessed(merged[p]))

Inv == TypeInv /\ NodesOK /\ StoredOK /\ PushesOK /\ AnswersOK /\ MergedOK

-----------------------------------------------------------------------------
(* Lemmas on KELs and controllers. *)

\* What is built over a KEL of the identity and replays is one too.
LEMMA BuiltIsGood ==
  ASSUME NEW kel, GoodKEL(kel), NEW p, NEW w, NEW ts \in Int,
         Replays(Append(kel, buildEvent(kel, p, w, ts)))
  PROVE  GoodKEL(Append(kel, buildEvent(kel, p, w, ts)))
<1> DEFINE a == Append(kel, buildEvent(kel, p, w, ts))
<1>1. WellMade(a)
  BY BuiltIsWellMade DEF GoodKEL
<1>2. Len(kel) \in Nat /\ Len(kel) >= 1 /\ \A i \in 1..Len(kel) : a[i] = kel[i]
  BY AppendFacts DEF GoodKEL
<1>3. a[1] = Icp
  BY <1>2 DEF GoodKEL
<1> QED
  BY <1>1, <1>3 DEF GoodKEL

\* A pending event over a good KEL makes a good KEL with the witness buildEvent was given.
LEMMA PendingFacts ==
  ASSUME NEW kel, GoodKEL(kel), Witnessed(kel), NEW p, GoodPending(kel, p), p # None, p.event # None
  PROVE  /\ GoodKEL(Append(kel, p.event))
         /\ witnessOf(Append(kel, p.event), Len(kel) + 1) \in Hubs
<1>1. PICK w : \E ts \in Int :
         /\ p.event = buildEvent(kel, p, w, ts) /\ (p.kind # "dip" => w \in Hubs)
         /\ Replays(Append(kel, p.event))
  BY DEF GoodPending
<1>2. GoodKEL(Append(kel, p.event))
  BY <1>1, BuiltIsGood
<1> DEFINE a == Append(kel, p.event)
           n == Len(kel)
<1>3. n \in Nat /\ n >= 1 /\ Len(a) = n + 1 /\ a[n + 1] = p.event /\ \A i \in 1..n : a[i] = kel[i]
  BY AppendFacts DEF GoodKEL
<1>4. /\ p.kind # "dip" => p.event.event.type = "rot" /\ p.event.event.witness = w
      /\ p.kind = "dip" => p.event.event.type = "dip"
  BY <1>1, BuildFacts
<1>5. CASE p.kind # "dip"
  BY <1>1, <1>2, <1>3, <1>4, <1>5 DEF witnessOf
<1>6. CASE p.kind = "dip"
  <2>1. n >= 2
    BY <1>6 DEF GoodPending
  <2>2. witnessOf(kel, n) \in Hubs
    BY <1>3, <2>1 DEF Witnessed, Held
  <2>3. kel[n].event.type # "dip"
    <3>1. \A i \in 2..Len(a) : Follows(a[1].event, a[i - 1].event, a[i].event)
      BY <1>2 DEF GoodKEL, WellMade, Replays
    <3>2. n + 1 \in 2..Len(a) /\ (n + 1) - 1 = n
      BY <1>3, <2>1
    <3> HIDE DEF a, n
    <3>3. Follows(a[1].event, a[n].event, a[n + 1].event)
      BY <3>1, <3>2
    <3>4. a[n].event.type # "dip"
      BY <3>3 DEF Follows
    <3> QED
      BY <1>3, <2>1, <3>4 DEF n
  <2> QED
    BY <1>2, <1>3, <1>4, <1>6, <2>2, <2>3 DEF witnessOf
<1> QED
  BY <1>5, <1>6

\* One event in two KELs has one place and one witness: a dip names the event before it.
LEMMA OneWitnessOf ==
  ASSUME NEW k, NEW l, GoodKEL(k), GoodKEL(l), NEW i \in 2..Len(k), NEW j \in 1..Len(l), k[i] = l[j]
  PROVE  j = i /\ witnessOf(k, i) = witnessOf(l, i)
<1>1. Len(k) \in Nat /\ Len(l) \in Nat
  BY DEF GoodKEL, WellMade, IsSeq
<1>2. k[i].event.seq = i - 1 /\ l[j].event.seq = j - 1
  BY <1>1 DEF GoodKEL, WellMade
<1>3. j = i
  BY <1>1, <1>2
<1>4. Follows(k[1].event, k[i - 1].event, k[i].event) /\ Follows(l[1].event, l[i - 1].event, l[i].event)
  BY <1>1, <1>3 DEF GoodKEL, WellMade, Replays
<1>5. k[i].event.prev = <<"cid", k[i - 1].event>> /\ l[i].event.prev = <<"cid", l[i - 1].event>>
  BY <1>4, Zenon DEF Follows, CID
<1>6. k[i - 1].event = l[i - 1].event
  <2>1. ASSUME NEW a, NEW b, <<"cid", a>> = <<"cid", b>> PROVE a = b
    BY <2>1
  <2> QED
    BY <1>3, <1>5, <2>1, Zenon
<1> QED
  BY <1>3, <1>6 DEF witnessOf

\* What a KEL that extends another keeps (ExtendsKEL).
LEMMA ExtendsFacts ==
  ASSUME NEW old, NEW next, old = <<>> \/ GoodKEL(old), GoodKEL(next), ExtendsKEL(old, next) = "ok"
  PROVE  Len(old) <= Len(next) /\ \A i \in 1..Len(old) : next[i] = old[i]
<1>1. Len(old) \in Nat /\ Len(next) \in Nat
  BY DEF GoodKEL, WellMade, IsSeq
<1>2. Len(old) <= Len(next) /\ \A i \in 1..Len(old) : old[i].event = next[i].event
  BY <1>1 DEF ExtendsKEL
<1>3. ASSUME NEW i \in 1..Len(old) PROVE next[i] = old[i]
  <2>1. GoodKEL(old)
    OBVIOUS
  <2>2. old[i] = SignedEvent(old[i].event, old[i].event.key)
    BY <2>1 DEF GoodKEL, WellMade
  <2>3. next[i] = SignedEvent(next[i].event, next[i].event.key)
    BY <1>1, <1>2 DEF GoodKEL, WellMade
  <2>4. old[i].event = next[i].event
    BY <1>2
  <2> QED
    BY <2>2, <2>3, <2>4
<1> QED
  BY <1>2, <1>3

\* Building an event, again or for the first time, keeps a controller good (buildLocked).
LEMMA BuildLockedOK ==
  ASSUME NEW c, Fields(c), GoodState(c), NEW p, NEW w, NEW ts \in Int,
         IsPending(p),
         buildEventAccepts(c.kel, p, w, ts),
         p.kind # "dip" => w \in Hubs,
         p.kind = "dip" => Len(c.kel) >= 2
  PROVE  Fields(buildLocked(c, p, w, ts)) /\ GoodState(buildLocked(c, p, w, ts))
<1> DEFINE ev == buildEvent(c.kel, p, w, ts)
           q == [ kind |-> p.kind, revealed |-> p.revealed, next |-> p.next,
                  emergency |-> p.emergency, event |-> ev ]
           d == buildLocked(c, p, w, ts)
<1>1. ev = buildEvent(c.kel, q, w, ts)
  BY DEF buildEvent
<1>2. Replays(Append(c.kel, ev))
  BY DEF buildEventAccepts
<1> HIDE DEF ev
<1>3. [p EXCEPT !.event = ev] = q
  BY DEF IsPending
<1>4. d = [c EXCEPT !.pending = q]
  BY <1>3 DEF buildLocked, ev
<1>5. q.kind = p.kind /\ q.event = ev /\ IsPending(q)
  BY DEF IsPending
<1> HIDE DEF q, d
<1>6. d = [kel |-> c.kel, cur |-> c.cur, hot |-> c.hot, pending |-> q, state |-> c.state]
  BY <1>4 DEF Fields
<1>7. d.kel = c.kel /\ d.pending = q /\ Fields(d)
  BY <1>6 DEF Fields
<1>8. GoodPending(c.kel, q)
  BY <1>1, <1>2, <1>5 DEF GoodPending
<1>9. GoodState(d)
  BY <1>7, <1>8 DEF GoodState
<1> QED
  BY <1>7, <1>9 DEF d

\* Restamp keeps the witness of a built event and gives an unbuilt one that of the head.
LEMMA RestampOK ==
  ASSUME NEW c, Fields(c), GoodState(c), NEW ts \in Int, RestampAccepts(c, ts)
  PROVE  Fields(Restamp(c, ts)) /\ GoodState(Restamp(c, ts))
<1> DEFINE p == c.pending
           w == restampWitness(c)
           n == Len(c.kel)
<1>1. /\ p # None /\ buildEventAccepts(c.kel, p, w, ts)
      /\ IsPending(p)
      /\ p.kind = "dip" => n >= 2
  BY DEF RestampAccepts, GoodState, GoodPending
<1>2. Restamp(c, ts) = buildLocked(c, p, w, ts)
  BY DEF Restamp, buildLocked, Fields
<1>3. ASSUME p.kind # "dip" PROVE w \in Hubs
  <2>1. CASE p.event # None
    <3>1. PICK v : \E t \in Int : p.event = buildEvent(c.kel, p, v, t) /\ v \in Hubs
      BY <1>1, <1>3, <2>1 DEF GoodState, GoodPending
    <3>2. p.event.event.witness = v
      BY <1>3, <3>1, BuildFacts
    <3> QED
      BY <1>1, <2>1, <3>1, <3>2 DEF restampWitness, Built
  <2>2. CASE p.event = None
    <3> DEFINE ev == buildEvent(c.kel, p, w, ts)
               a == Append(c.kel, ev)
    <3>1. toadLocked(c.kel) = ToadAgent
      BY DEF GoodState, GoodKEL, WellMade, toadLocked, Icp, incept, inceptWith, SignedEvent, ToadAgent
    <3>2. w = Tip(c.kel).witness
      BY <1>1, <1>3, <2>2, <3>1 DEF restampWitness, Built
    <3>3. ev.event.type = "rot" /\ ev.event.witness = w
      BY <1>3, BuildFacts
    <3>4. /\ n \in Nat /\ n >= 1 /\ Len(a) = n + 1 /\ a[n + 1] = ev
          /\ \A i \in 1..n : a[i] = c.kel[i]
      BY AppendFacts DEF GoodState, GoodKEL
    <3>5. \A i \in 2..Len(a) : Follows(a[1].event, a[i - 1].event, a[i].event)
      BY <1>1 DEF buildEventAccepts, Replays
    <3> HIDE DEF ev, a, n
    <3>6. n + 1 \in 2..Len(a) /\ (n + 1) - 1 = n
      BY <3>4
    <3>7. Follows(a[1].event, a[n].event, ev.event)
      BY <3>4, <3>5, <3>6
    <3>8. c.kel[n].event.type # "dip"
      BY <3>4, <3>7 DEF Follows
    <3>9. w = c.kel[n].event.witness
      BY <3>2, <3>8 DEF Tip, KeyState, n
    <3>10. CASE n = 1
      <4>1. w = None
        BY <3>9, <3>10 DEF GoodState, GoodKEL, WellMade, Icp, incept, inceptWith, SignedEvent
      <4>2. ev.event.witness # None
        <5>1. checkRotation(ev.event, CID(a[1].event), a[1].event.toad)
          BY <3>3, <3>7 DEF Follows
        <5>2. a[1].event.toad = ToadAgent
          BY <3>1, <3>4 DEF toadLocked
        <5> QED
          BY <5>1, <5>2 DEF checkRotation, ToadAgent, ToadHub
      <4> QED
        BY <3>3, <4>1, <4>2
    <3>11. CASE n >= 2
      <4>1. witnessOf(c.kel, n) \in Hubs
        BY <3>4, <3>11 DEF GoodState, Witnessed, Held, n
      <4> QED
        BY <3>8, <3>9, <4>1 DEF witnessOf
    <3> QED
      BY <3>4, <3>10, <3>11
  <2> QED
    BY <2>1, <2>2
<1>4. Fields(buildLocked(c, p, w, ts)) /\ GoodState(buildLocked(c, p, w, ts))
  <2>1. /\ IsPending(p) /\ buildEventAccepts(c.kel, p, w, ts)
        /\ (p.kind # "dip" => w \in Hubs) /\ (p.kind = "dip" => Len(c.kel) >= 2)
    BY <1>1, <1>3
  <2> HIDE DEF p, w
  <2> QED
    BY <2>1, BuildLockedOK
<1> QED
  BY <1>2, <1>4

\* An event its witness holds may be adopted.
LEMMA AdoptOK ==
  ASSUME NEW c, Fields(c), GoodState(c), Built(c), NEW ev,
         Held(Append(c.kel, c.pending.event), Len(c.kel) + 1)
  PROVE  Fields(Adopt(c, ev)) /\ GoodState(Adopt(c, ev))
<1> DEFINE a == Append(c.kel, c.pending.event)
           d == Adopt(c, ev)
           n == Len(c.kel)
<1>0. d = [c EXCEPT !.kel = a, !.cur = c.pending.revealed, !.hot = None, !.pending = None]
  BY DEF Adopt
<1>a. c = [kel |-> c.kel, cur |-> c.cur, hot |-> c.hot, pending |-> c.pending, state |-> c.state]
  BY DEF Fields
<1>1. d = [kel |-> a, cur |-> c.pending.revealed, hot |-> None, pending |-> None, state |-> c.state]
  <2> HIDE DEF d, a
  <2> QED
    BY <1>0, <1>a
<1>2. d.kel = a /\ d.pending = None /\ Fields(d)
  BY <1>1 DEF Fields
<1>3. /\ n \in Nat /\ n >= 1 /\ Len(a) = n + 1 /\ \A i \in 1..n : a[i] = c.kel[i]
  BY AppendFacts DEF GoodState, GoodKEL
<1>4. GoodKEL(a)
  BY PendingFacts DEF GoodState, Built
<1> HIDE DEF a, d, n
<1>5. Witnessed(a)
  <2> SUFFICES ASSUME NEW i \in 2..Len(a) PROVE Held(a, i)
    BY DEF Witnessed
  <2>1. CASE i = n + 1
    BY <2>1 DEF a, n
  <2>2. CASE i \in 2..n
    <3>1. Held(c.kel, i)
      BY <2>2 DEF GoodState, Witnessed, n
    <3>2. a[i] = c.kel[i] /\ a[i - 1] = c.kel[i - 1]
      BY <1>3, <2>2
    <3>3. witnessOf(a, i) = witnessOf(c.kel, i)
      BY <3>2 DEF witnessOf
    <3> QED
      BY <3>1, <3>2, <3>3 DEF Held
  <2> QED
    BY <1>3, <2>1, <2>2
<1>6. GoodState(d)
  BY <1>2, <1>4, <1>5 DEF GoodState, GoodPending
<1> QED
  BY <1>2, <1>6 DEF d

\* Export and Restore carry the KEL and the pending material over.
LEMMA FileFacts ==
  /\ \A c : GoodState(c) => GoodState(Export(c))
  /\ \A f : GoodState(f) => Fields(Restore(f)) /\ GoodState(Restore(f))
BY DEF Export, Restore, GoodState, Fields

-----------------------------------------------------------------------------
(* The steps. *)

\* Hubs only ever add to what they hold.
Grows ==
  /\ \A h \in Hubs : /\ Len(stored[h]) \in Nat /\ Len(stored'[h]) \in Nat
                     /\ Len(stored[h]) <= Len(stored'[h])
                     /\ \A i \in 1..Len(stored[h]) : stored'[h][i] = stored[h][i]
  /\ seen \subseteq seen'

\* What a hub held and when it was seen stays true as hubs add events.
LEMMA HeldStays ==
  ASSUME Grows, NEW kel, NEW i \in Nat, i >= 1, Held(kel, i)
  PROVE  Held(kel, i)'
<1> DEFINE w == witnessOf(kel, i)
<1>1. w \in Hubs /\ Len(stored[w]) >= i /\ stored[w][i] = kel[i] /\ InTime(kel[i].event)
  BY DEF Held
<1>2. InTime(kel[i].event)'
  BY <1>1 DEF InTime, Grows
<1>3. Len(stored'[w]) >= i /\ stored'[w][i] = kel[i]
  <2>1. i \in 1..Len(stored[w]) /\ Len(stored[w]) \in Nat /\ Len(stored'[w]) \in Nat
        /\ Len(stored[w]) <= Len(stored'[w])
    BY <1>1 DEF Grows
  <2>2. stored'[w][i] = stored[w][i]
    BY <1>1, <2>1 DEF Grows
  <2> QED
    BY <1>1, <2>1, <2>2
<1> HIDE DEF w
<1>4. w \in Hubs /\ Len(stored'[w]) >= i /\ stored'[w][i] = kel[i] /\ InTime(kel[i].event)'
  BY <1>1, <1>2, <1>3
<1> QED
  BY <1>4 DEF w, Held

\* So a KEL whose events are witnessed, and a controller or a file with one, stay so.
LEMMA GoodStays ==
  ASSUME Grows
  PROVE  /\ \A kel : GoodKEL(kel) /\ Witnessed(kel) => Witnessed(kel)'
         /\ \A c : GoodState(c) => GoodState(c)'
<1>1. ASSUME NEW kel, GoodKEL(kel), Witnessed(kel) PROVE Witnessed(kel)'
  <2>1. Len(kel) \in Nat
    BY <1>1 DEF GoodKEL, WellMade, IsSeq
  <2>2. ASSUME NEW i \in 2..Len(kel) PROVE Held(kel, i)'
    BY <1>1, <2>1, HeldStays DEF Witnessed
  <2> QED
    BY <2>2 DEF Witnessed
<1>2. ASSUME NEW c, GoodState(c) PROVE GoodState(c)'
  <2>1. Witnessed(c.kel)'
    BY <1>1, <1>2 DEF GoodState
  <2> QED
    BY <1>2, <2>1 DEF GoodState
<1> QED
  BY <1>1, <1>2

\* A step that leaves the hubs alone.
LEMMA QuietGrows == ASSUME StoredOK, UNCHANGED <<stored, seen>> PROVE Grows
<1>1. ASSUME NEW h \in Hubs PROVE Len(stored[h]) \in Nat
  BY DEF StoredOK, GoodKEL, WellMade, IsSeq
<1> QED
  BY <1>1 DEF Grows

\* The parts of the invariant a step keeps that leaves the hubs, the peers and the pushes alone
\* and at most drops answers.
LEMMA QuietInv ==
  ASSUME Inv, UNCHANGED <<stored, seen, merged, pushes, now, skew>>,
         DOMAIN answers' = Nodes, \A n \in Nodes : answers'[n] \in {answers[n], None}
  PROVE  Grows /\ StoredOK' /\ MergedOK' /\ PushesOK' /\ AnswersOK'
<1>1. Grows
  BY QuietGrows DEF Inv
<1>2. StoredOK'
  <2> SUFFICES ASSUME NEW h \in Hubs, stored[h] # <<>> PROVE GoodKEL(stored[h]) /\ Witnessed(stored[h])'
    BY DEF StoredOK
  <2>1. GoodKEL(stored[h]) /\ Witnessed(stored[h])
    BY DEF Inv, StoredOK
  <2> QED
    BY <2>1 DEF Witnessed, Held, InTime
<1>3. MergedOK'
  <2> SUFFICES ASSUME NEW p \in Peers, merged[p] # <<>> PROVE GoodKEL(merged[p]) /\ Witnessed(merged[p])'
    BY DEF MergedOK
  <2>1. GoodKEL(merged[p]) /\ Witnessed(merged[p])
    BY DEF Inv, MergedOK
  <2> QED
    BY <2>1 DEF Witnessed, Held, InTime
<1>4. PushesOK'
  BY DEF Inv, PushesOK, Held, InTime
<1>5. AnswersOK'
  BY DEF Inv, AnswersOK
<1> QED
  BY <1>1, <1>2, <1>3, <1>4, <1>5

\* A step that replaces one node's controller by a good one.
LEMMA NodeStep ==
  ASSUME Inv, NEW n \in Nodes, NEW d, Fields(d), GoodState(d), GoodState(file[n]),
         node' = [node EXCEPT ![n] = d],
         UNCHANGED <<file, stored, seen, merged, pushes, now, skew>>,
         DOMAIN answers' = Nodes, \A m \in Nodes : answers'[m] \in {answers[m], None}
  PROVE  Inv'
<1>1. Grows /\ StoredOK' /\ MergedOK' /\ PushesOK' /\ AnswersOK'
  BY QuietInv
<1>2. TypeInv'
  BY DEF Inv, TypeInv
<1>3. NodesOK'
  <2> SUFFICES ASSUME NEW m \in Nodes, node'[m] # None
               PROVE  Fields(node[m])' /\ GoodState(node[m])' /\ GoodState(file[m])'
    BY DEF NodesOK
  <2>1. CASE m = n
    <3>1. node'[m] = d
      BY <2>1 DEF Inv, TypeInv
    <3>2. GoodState(d)' /\ GoodState(file[n])'
      BY <1>1, GoodStays
    <3> QED
      BY <2>1, <3>1, <3>2 DEF Fields
  <2>2. CASE m # n
    <3>1. node'[m] = node[m]
      BY <2>2 DEF Inv, TypeInv
    <3>2. Fields(node[m]) /\ GoodState(node[m]) /\ GoodState(file[m])
      BY <3>1 DEF Inv, NodesOK
    <3>3. GoodState(node[m])' /\ GoodState(file[m])'
      BY <1>1, <3>1, <3>2, GoodStays
    <3> QED
      BY <3>1, <3>2, <3>3 DEF Fields
  <2> QED
    BY <2>1, <2>2
<1> QED
  BY <1>1, <1>2, <1>3 DEF Inv

\* A node that has an identity.
LEMMA NodeFacts ==
  ASSUME Inv, NEW n \in Nodes, node[n] # None
  PROVE  Fields(node[n]) /\ GoodState(node[n]) /\ GoodState(file[n]) /\ now \in Int
BY DEF Inv, NodesOK, TypeInv

\* Building over the KEL of a node.
LEMMA NodeBuilds ==
  ASSUME Inv, NEW n \in Nodes, node[n] # None, NEW p, NEW w,
         IsPending(p), buildEventAccepts(node[n].kel, p, w, now),
         p.kind # "dip" => w \in Hubs,
         p.kind = "dip" => Len(node[n].kel) >= 2,
         node' = [node EXCEPT ![n] = buildLocked(node[n], p, w, now)],
         UNCHANGED <<file, stored, merged, pushes, answers, now, skew, faults, seen>>
  PROVE  Inv'
<1> DEFINE c == node[n]
           d == buildLocked(c, p, w, now)
<1>1. Fields(c) /\ GoodState(c) /\ GoodState(file[n]) /\ now \in Int
  BY NodeFacts
<1>2. Fields(d) /\ GoodState(d)
  <2> HIDE DEF c
  <2> QED
    BY <1>1, BuildLockedOK DEF c
<1>3. DOMAIN answers' = Nodes /\ \A m \in Nodes : answers'[m] \in {answers[m], None}
  BY DEF Inv, TypeInv
<1> QED
  BY <1>1, <1>2, <1>3, NodeStep

\* A designation names one of the hubs.
LEMMA DesignateInv == ASSUME Inv, NEW n \in Nodes, NEW h \in Hubs, Designate(n, h) PROVE Inv'
<1> DEFINE c == node[n]
           planned == FALSE
           p == Material("witness", c.hot, NextOf(c), planned)
<1>1. /\ node[n] # None /\ buildEventAccepts(c.kel, p, h, now)
      /\ node' = [node EXCEPT ![n] = buildLocked(c, p, h, now)]
      /\ UNCHANGED <<file, stored, merged, pushes, answers, now, skew, faults, seen>>
  BY DEF Designate, Persisted, BuildWitnessDesignationAccepts, BuildWitnessDesignation
<1> HIDE DEF planned
<1>2. IsPending(p) /\ p.kind = "witness"
  BY MaterialFacts
<1> HIDE DEF p
<1> QED
  BY <1>1, <1>2, NodeBuilds

\* So does a rot.
LEMMA RotateInv == ASSUME Inv, NEW n \in Nodes, NEW h \in Hubs, Rotate(n, h) PROVE Inv'
<1> DEFINE c == node[n]
           planned == FALSE
           p == Material("rot", revealedLocked(c, KeyOf(c)), NextOf(c), planned)
<1>1. /\ node[n] # None /\ buildEventAccepts(c.kel, p, h, now)
      /\ node' = [node EXCEPT ![n] = buildLocked(c, p, h, now)]
      /\ UNCHANGED <<file, stored, merged, pushes, answers, now, skew, faults, seen>>
  BY DEF Rotate, Persisted, BuildRotationAccepts, BuildRotation
<1> HIDE DEF planned
<1>2. IsPending(p) /\ p.kind = "rot"
  BY MaterialFacts
<1> HIDE DEF p
<1> QED
  BY <1>1, <1>2, NodeBuilds

\* A dip is witnessed by the hub before it.
LEMMA DeactivateInv == ASSUME Inv, NEW n \in Nodes, Deactivate(n) PROVE Inv'
<1> DEFINE c == node[n]
           planned == FALSE
           p == Material("dip", revealedLocked(c, KeyOf(c)), None, planned)
<1>1. /\ node[n] # None /\ buildEventAccepts(c.kel, p, None, now) /\ Len(c.kel) \in 2..MaxSeq
      /\ node' = [node EXCEPT ![n] = buildLocked(c, p, None, now)]
      /\ UNCHANGED <<file, stored, merged, pushes, answers, now, skew, faults, seen>>
  BY DEF Deactivate, Persisted, BuildDeactivationAccepts, BuildDeactivation
<1> HIDE DEF planned
<1>2. IsPending(p) /\ p.kind = "dip"
  BY MaterialFacts
<1>3. Len(c.kel) >= 2
  BY <1>1, PublicationAssumption
<1> HIDE DEF p
<1> QED
  BY <1>1, <1>2, <1>3, NodeBuilds

\* The rot of a recover names the witness the hub's copy ends with.
LEMMA BuildRecoveredInv == ASSUME Inv, NEW n \in Nodes, BuildRecovered(n) PROVE Inv'
<1>1. /\ node[n] # None /\ RestampAccepts(node[n], now)
      /\ node' = [node EXCEPT ![n] = Restamp(node[n], now)]
      /\ UNCHANGED <<file, stored, merged, pushes, answers, now, skew, faults, seen>>
  BY DEF BuildRecovered, Persisted
<1>2. Fields(node[n]) /\ GoodState(node[n]) /\ GoodState(file[n]) /\ now \in Int
  BY <1>1, NodeFacts
<1>3. Fields(Restamp(node[n], now)) /\ GoodState(Restamp(node[n], now))
  BY <1>1, <1>2, RestampOK
<1>4. DOMAIN answers' = Nodes /\ \A m \in Nodes : answers'[m] \in {answers[m], None}
  BY <1>1 DEF Inv, TypeInv
<1> QED
  BY <1>1, <1>2, <1>3, <1>4, NodeStep

\* Whatever the answer, the node stays good: it adopts only an event its witness holds.
LEMMA ReactOK ==
  ASSUME Inv, NEW n \in Nodes, node[n] # None, answers[n] # None
  PROVE  Fields(React(node[n], answers[n])) /\ GoodState(React(node[n], answers[n]))
<1> DEFINE c == node[n]
           a == answers[n]
<1>1. Fields(c) /\ GoodState(c) /\ now \in Int
  BY NodeFacts
<1>2. CASE ~AdoptAccepts(c, a.event)
  BY <1>1, <1>2 DEF React
<1>3. CASE AdoptAccepts(c, a.event) /\ a.verdict = "ok"
  <2> DEFINE k == Append(c.kel, c.pending.event)
             m == Len(c.kel) + 1
  <2>1. Built(c) /\ c.pending.event = a.event
    BY <1>3 DEF AdoptAccepts
  <2>2. GoodKEL(k)
    BY <1>1, <2>1, PendingFacts DEF GoodState, Built
  <2>3. Len(k) = m /\ m \in 2..Len(k) /\ k[m] = a.event
    BY <1>1, <2>1, AppendFacts DEF GoodState, GoodKEL
  <2>0. PICK h \in Hubs : \E i \in 2..Len(stored[h]) : stored[h][i] = a.event /\ witnessOf(stored[h], i) = h
    BY <1>3 DEF Inv, AnswersOK
  <2>4. PICK i \in 2..Len(stored[h]) : stored[h][i] = a.event /\ witnessOf(stored[h], i) = h
    BY <2>0
  <2>5. GoodKEL(stored[h]) /\ Witnessed(stored[h])
    <3>1. stored[h] # <<>>
      BY <2>4
    <3> QED
      BY <3>1 DEF Inv, StoredOK
  <2>6. i \in 1..Len(stored[h]) /\ Len(stored[h]) \in Nat
    BY <2>5 DEF GoodKEL, WellMade, IsSeq
  <2> HIDE DEF k, m
  <2>7. i = m /\ witnessOf(k, m) = h
    BY <2>2, <2>3, <2>4, <2>5, <2>6, OneWitnessOf
  <2>8. InTime(a.event.event)
    BY <2>4, <2>5 DEF Witnessed, Held
  <2>9. Held(k, m)
    BY <2>3, <2>4, <2>6, <2>7, <2>8 DEF Held
  <2>10. Fields(Adopt(c, a.event)) /\ GoodState(Adopt(c, a.event))
    BY <1>1, <2>1, <2>9, AdoptOK DEF k, m
  <2> QED
    BY <1>3, <2>10 DEF React
<1>4. CASE AdoptAccepts(c, a.event) /\ a.verdict = "kel_ts_out_of_window"
  <2>1. React(c, a) = IF RestampAccepts(c, now) THEN Restamp(c, now) ELSE c
    BY <1>4 DEF React
  <2> QED
    BY <1>1, <2>1, RestampOK
<1>5. CASE AdoptAccepts(c, a.event) /\ a.verdict = "refused"
  <2>1. React(c, a) = c \/ React(c, a) = DiscardPending(c)
    BY <1>5 DEF React
  <2>2. Fields(DiscardPending(c)) /\ GoodState(DiscardPending(c))
    BY <1>1 DEF DiscardPending, Fields, GoodState, GoodPending
  <2> QED
    BY <1>1, <2>1, <2>2
<1>6. CASE AdoptAccepts(c, a.event) /\ a.verdict \notin {"ok", "kel_ts_out_of_window", "refused"}
  <2>1. React(c, a) = SetState(c, "stopped")
    BY <1>6 DEF React
  <2>2. Fields(SetState(c, "stopped")) /\ GoodState(SetState(c, "stopped"))
    BY <1>1 DEF SetState, Fields, GoodState
  <2> QED
    BY <2>1, <2>2
<1> QED
  BY <1>2, <1>3, <1>4, <1>5, <1>6

\* The node acts on an answer.
LEMMA ReceiveInv == ASSUME Inv, NEW n \in Nodes, Receive(n) PROVE Inv'
<1>1. /\ node[n] # None /\ answers[n] # None
      /\ node' = [node EXCEPT ![n] = React(node[n], answers[n])]
      /\ answers' = [answers EXCEPT ![n] = None]
      /\ UNCHANGED <<file, stored, merged, pushes, now, skew, faults, seen>>
  BY DEF Receive, Persisted
<1>2. GoodState(file[n])
  BY <1>1, NodeFacts
<1>3. Fields(React(node[n], answers[n])) /\ GoodState(React(node[n], answers[n]))
  BY <1>1, ReactOK
<1>4. DOMAIN answers' = Nodes /\ \A m \in Nodes : answers'[m] \in {answers[m], None}
  BY <1>1 DEF Inv, TypeInv
<1> QED
  BY <1>1, <1>2, <1>3, <1>4, NodeStep

\* The node comes back with what its file holds.
LEMMA CrashInv == ASSUME Inv, NEW n \in Nodes, Crash(n) PROVE Inv'
<1>1. /\ node[n] # None
      /\ node' = [node EXCEPT ![n] = Restore(file[n])]
      /\ answers' = [answers EXCEPT ![n] = None]
      /\ UNCHANGED <<file, stored, merged, pushes, now, skew, seen>>
  BY DEF Crash
<1>2. GoodState(file[n])
  BY <1>1, NodeFacts
<1>3. Fields(Restore(file[n])) /\ GoodState(Restore(file[n]))
  BY <1>2, FileFacts
<1>4. DOMAIN answers' = Nodes /\ \A m \in Nodes : answers'[m] \in {answers[m], None}
  BY <1>1 DEF Inv, TypeInv
<1> QED
  BY <1>1, <1>2, <1>3, <1>4, NodeStep

\* The file takes over what the controller holds.
LEMMA PersistInv == ASSUME Inv, NEW n \in Nodes, Persist(n) PROVE Inv'
<1>1. /\ node[n] # None /\ file' = [file EXCEPT ![n] = Export(node[n])]
      /\ UNCHANGED <<node, stored, merged, pushes, answers, now, skew, faults, seen>>
  BY DEF Persist
<1>2. DOMAIN answers' = Nodes /\ \A m \in Nodes : answers'[m] \in {answers[m], None}
  BY <1>1 DEF Inv, TypeInv
<1>3. Grows /\ StoredOK' /\ MergedOK' /\ PushesOK' /\ AnswersOK'
  BY <1>1, <1>2, QuietInv
<1>4. TypeInv'
  BY <1>1 DEF Inv, TypeInv
<1>5. NodesOK'
  <2> SUFFICES ASSUME NEW m \in Nodes, node[m] # None
               PROVE  Fields(node[m])' /\ GoodState(node[m])' /\ GoodState(file[m])'
    BY <1>1 DEF NodesOK
  <2>1. Fields(node[m]) /\ GoodState(node[m]) /\ GoodState(file[m])
    BY NodeFacts
  <2>2. GoodState(Export(node[m]))
    BY <2>1, FileFacts
  <2>3. file'[m] = file[m] \/ file'[m] = Export(node[m])
    BY <1>1 DEF Inv, TypeInv
  <2>4. GoodState(node[m])' /\ GoodState(file[m])'
    <3>1. GoodState(node[m]) /\ GoodState(file'[m])
      BY <2>1, <2>2, <2>3
    <3>2. Grows /\ node' = node
      BY <1>1, <1>3
    <3> QED
      BY <3>1, <3>2, GoodStays
  <2> QED
    BY <1>1, <2>1, <2>4 DEF Fields
<1> QED
  BY <1>3, <1>4, <1>5 DEF Inv

\* A recover starts from a copy whose events are witnessed.
LEMMA RecoverInv == ASSUME Inv, NEW n \in Nodes, NEW h \in Hubs, Recover(n, h) PROVE Inv'
<1> DEFINE f == RecoverFile(stored[h], Seed)
           urgent == TRUE
           p == Material("rot", RecoverySeed(Seed, Len(stored[h])), NextDigest(Seed, Len(stored[h]) + 1), urgent)
<1>1. /\ stored[h] # <<>> /\ file' = [file EXCEPT ![n] = f]
      /\ node' = [node EXCEPT ![n] = Restore(f)]
      /\ UNCHANGED <<stored, merged, pushes, answers, now, skew, faults, seen>>
  BY DEF Recover
<1>2. DOMAIN answers' = Nodes /\ \A m \in Nodes : answers'[m] \in {answers[m], None}
  BY <1>1 DEF Inv, TypeInv
<1>3. Grows /\ StoredOK' /\ MergedOK' /\ PushesOK' /\ AnswersOK'
  BY <1>1, <1>2, QuietInv
<1>4. TypeInv'
  BY <1>1 DEF Inv, TypeInv
<1>5. GoodKEL(stored[h]) /\ Witnessed(stored[h])
  BY <1>1 DEF Inv, StoredOK
<1>6. f.kel = stored[h] /\ f.pending = p
  BY DEF RecoverFile
<1> HIDE DEF urgent
<1>7. IsPending(p) /\ p.kind = "rot" /\ p.event = None
  BY MaterialFacts
<1> HIDE DEF f, p
<1>8. GoodState(f)
  BY <1>5, <1>6, <1>7 DEF GoodState, GoodPending
<1>9. Fields(Restore(f)) /\ GoodState(Restore(f))
  BY <1>8, FileFacts
<1>10. NodesOK'
  <2> SUFFICES ASSUME NEW m \in Nodes, node'[m] # None
               PROVE  Fields(node[m])' /\ GoodState(node[m])' /\ GoodState(file[m])'
    BY DEF NodesOK
  <2>1. Fields(node'[m]) /\ GoodState(node'[m]) /\ GoodState(file'[m])
    <3>1. CASE m = n
      <4>1. node'[m] = Restore(f) /\ file'[m] = f
        BY <1>1, <3>1 DEF Inv, TypeInv
      <4> QED
        BY <1>8, <1>9, <4>1
    <3>2. CASE m # n
      <4>1. node'[m] = node[m] /\ file'[m] = file[m]
        BY <1>1, <3>2 DEF Inv, TypeInv
      <4>2. Fields(node[m]) /\ GoodState(node[m]) /\ GoodState(file[m])
        BY <4>1, NodeFacts
      <4> QED
        BY <4>1, <4>2
    <3> QED
      BY <3>1, <3>2
  <2>2. GoodState(node[m])' /\ GoodState(file[m])'
    BY <1>3, <2>1, GoodStays
  <2> QED
    BY <2>1, <2>2 DEF Fields
<1> QED
  BY <1>3, <1>4, <1>10 DEF Inv

\* The time, the clocks, the messages and the faults: steps that leave the nodes alone.
LEMMA OtherInv ==
  ASSUME Inv, UNCHANGED <<node, file, stored, merged, seen>>,
         now' \in Int, skew' \in [Hubs -> Int],
         DOMAIN answers' = Nodes, \A n \in Nodes : answers'[n] \in {answers[n], None},
         PushesOK'
  PROVE  Inv'
<1>1. TypeInv'
  BY DEF Inv, TypeInv
<1>2. Grows
  BY QuietGrows DEF Inv
<1>3. NodesOK'
  <2> SUFFICES ASSUME NEW m \in Nodes, node[m] # None
               PROVE  Fields(node[m]) /\ GoodState(node[m])' /\ GoodState(file[m])'
    BY DEF NodesOK, Fields
  <2>1. Fields(node[m]) /\ GoodState(node[m]) /\ GoodState(file[m])
    BY NodeFacts
  <2> QED
    BY <1>2, <2>1, GoodStays
<1>4. StoredOK' /\ MergedOK'
  <2>1. ASSUME NEW k, GoodKEL(k) /\ Witnessed(k) PROVE Witnessed(k)'
    BY <1>2, <2>1, GoodStays
  <2>2. ASSUME NEW h \in Hubs, stored[h] # <<>> PROVE GoodKEL(stored[h]) /\ Witnessed(stored[h])'
    BY <2>1, <2>2 DEF Inv, StoredOK
  <2>3. ASSUME NEW p \in Peers, merged[p] # <<>> PROVE GoodKEL(merged[p]) /\ Witnessed(merged[p])'
    BY <2>1, <2>3 DEF Inv, MergedOK
  <2> QED
    BY <2>2, <2>3 DEF StoredOK, MergedOK
<1>5. AnswersOK'
  BY DEF Inv, AnswersOK
<1> QED
  BY <1>1, <1>3, <1>4, <1>5 DEF Inv

\* A push carries the KEL the node signs under to the witness of its last event.
LEMMA PushInv == ASSUME Inv, NEW n \in Nodes, Push(n) PROVE Inv'
<1> DEFINE c == node[n]
           kel == kelLocked(c)
           r == [from |-> n, hub |-> witnessOf(kel, Len(kel)), kel |-> kel]
<1>1. /\ node[n] # None /\ Built(c) /\ pushes' = pushes \cup {r}
      /\ UNCHANGED <<node, file, stored, merged, answers, now, skew, faults, seen>>
  BY DEF Push, Persisted
<1>2. GoodState(c) /\ c.pending # None /\ c.pending.event # None
  BY <1>1, NodeFacts DEF Built
<1>3. kel = Append(c.kel, c.pending.event)
  BY <1>2 DEF kelLocked
<1>4. GoodKEL(kel) /\ witnessOf(kel, Len(c.kel) + 1) \in Hubs
  BY <1>2, <1>3, PendingFacts DEF GoodState
<1>5. /\ Len(c.kel) \in Nat /\ Len(c.kel) >= 1 /\ Len(kel) = Len(c.kel) + 1
      /\ \A i \in 1..Len(c.kel) : kel[i] = c.kel[i]
  BY <1>2, <1>3, AppendFacts DEF GoodState, GoodKEL
<1>6. Witnessed(c.kel)
  BY <1>2 DEF GoodState
<1> HIDE DEF kel, c
<1>7. \A i \in 2 .. Len(kel) - 1 : Held(kel, i)
  <2> SUFFICES ASSUME NEW i \in 2 .. Len(kel) - 1 PROVE Held(kel, i)
    OBVIOUS
  <2>1. i \in 2..Len(c.kel) /\ i \in 1..Len(c.kel) /\ i - 1 \in 1..Len(c.kel)
    BY <1>5
  <2>2. kel[i] = c.kel[i] /\ kel[i - 1] = c.kel[i - 1] /\ Held(c.kel, i)
    BY <1>5, <1>6, <2>1 DEF Witnessed
  <2>3. witnessOf(kel, i) = witnessOf(c.kel, i)
    BY <2>2 DEF witnessOf
  <2> QED
    BY <2>2, <2>3 DEF Held
<1>8. r.from = n /\ r.hub = witnessOf(kel, Len(kel)) /\ r.kel = kel
  OBVIOUS
<1> HIDE DEF r
<1>9. PushesOK'
  <2>1. ASSUME NEW q \in pushes'
        PROVE  /\ q.from \in Nodes /\ q.hub \in Hubs
               /\ GoodKEL(q.kel) /\ Len(q.kel) >= 2
               /\ q.hub = witnessOf(q.kel, Len(q.kel))
               /\ \A i \in 2 .. Len(q.kel) - 1 : Held(q.kel, i)
    <3>1. CASE q \in pushes
      BY <3>1 DEF Inv, PushesOK
    <3>2. CASE q = r
      BY <1>4, <1>5, <1>7, <1>8, <3>2
    <3> QED
      BY <1>1, <3>1, <3>2
  <2> QED
    BY <1>1, <2>1 DEF PushesOK, Held, InTime
<1>10. DOMAIN answers' = Nodes /\ \A m \in Nodes : answers'[m] \in {answers[m], None}
  BY <1>1 DEF Inv, TypeInv
<1>11. now' \in Int /\ skew' \in [Hubs -> Int]
  BY <1>1 DEF Inv, TypeInv
<1> QED
  BY <1>1, <1>9, <1>10, <1>11, OtherInv

\* The time passes, a clock is set right, a push or an answer is lost.
LEMMA EnvironmentInv ==
  ASSUME Inv, \/ Tick \/ (\E h \in Hubs : SetClock(h))
              \/ (\E r \in pushes : LosePush(r)) \/ (\E n \in Nodes : LoseAnswer(n))
  PROVE  Inv'
<1>1. DOMAIN answers = Nodes /\ now \in Int /\ skew \in [Hubs -> Int] /\ PushesOK
  BY DEF Inv, TypeInv
<1>2. UNCHANGED <<node, file, stored, merged, seen>>
  BY DEF Tick, SetClock, LosePush, LoseAnswer
<1>3. now' \in Int /\ skew' \in [Hubs -> Int]
  BY <1>1 DEF Tick, SetClock, LosePush, LoseAnswer
<1>4. DOMAIN answers' = Nodes /\ \A n \in Nodes : answers'[n] \in {answers[n], None}
  BY <1>1 DEF Tick, SetClock, LosePush, LoseAnswer
<1>5. pushes' \subseteq pushes
  BY DEF Tick, SetClock, LosePush, LoseAnswer
<1>6. PushesOK'
  BY <1>1, <1>2, <1>5 DEF PushesOK, Held, InTime
<1> QED
  BY <1>2, <1>3, <1>4, <1>6, OtherInv

\* A KEL is never empty, so what a node, a hub or a push holds can be merged.
LEMMA MergeInv == ASSUME Inv, NEW p \in Peers, Merge(p) PROVE Inv'
<1>1. PICK kel \in Known :
        /\ ExtendsKEL(merged[p], kel) = "ok"
        /\ merged' = [merged EXCEPT ![p] = kel]
        /\ UNCHANGED <<node, file, stored, pushes, answers, now, skew, faults, seen>>
  BY DEF Merge
<1>2. Replays(kel)
  BY <1>1 DEF ExtendsKEL
<1>3. kel # <<>>
  BY <1>2 DEF Replays
<1>4. GoodKEL(kel) /\ Witnessed(kel)
  <2>1. CASE kel \in {stored[h] : h \in Hubs}
    BY <1>3, <2>1 DEF Inv, StoredOK
  <2>2. CASE kel \in {node[n].kel : n \in {m \in Nodes : node[m] # None}}
    BY <2>2 DEF Inv, NodesOK, GoodState
  <2> QED
    BY <2>1, <2>2 DEF Known
<1>5. Grows
  BY <1>1, QuietGrows DEF Inv
<1>6. MergedOK'
  <2> SUFFICES ASSUME NEW q \in Peers PROVE merged'[q] = <<>> \/ (GoodKEL(merged'[q]) /\ Witnessed(merged[q])')
    BY DEF MergedOK
  <2>1. merged'[q] = kel \/ merged'[q] = merged[q]
    BY <1>1 DEF Inv, TypeInv
  <2>2. merged'[q] = <<>> \/ (GoodKEL(merged'[q]) /\ Witnessed(merged'[q]))
    BY <1>4, <2>1 DEF Inv, MergedOK
  <2>3. ASSUME NEW k, GoodKEL(k), Witnessed(k) PROVE Witnessed(k)'
    BY <1>5, <2>3, GoodStays
  <2> QED
    BY <2>2, <2>3
<1>7. TypeInv' /\ NodesOK' /\ StoredOK' /\ PushesOK' /\ AnswersOK'
  <2>1. TypeInv'
    BY <1>1 DEF Inv, TypeInv
  <2>2. StoredOK' /\ PushesOK' /\ AnswersOK'
    BY <1>1 DEF Inv, StoredOK, PushesOK, AnswersOK, Witnessed, Held, InTime
  <2>3. NodesOK'
    BY <1>1 DEF Inv, NodesOK, GoodState, Witnessed, Held, InTime
  <2> QED
    BY <2>1, <2>2, <2>3
<1> QED
  BY <1>6, <1>7 DEF Inv

\* What nodes, peers and pushes hold stays good as a hub adds events.
LEMMA GrownInv ==
  ASSUME Inv, Grows, UNCHANGED <<node, file, merged>>, pushes' \subseteq pushes
  PROVE  NodesOK' /\ MergedOK' /\ PushesOK'
<1>1. NodesOK'
  <2> SUFFICES ASSUME NEW m \in Nodes, node[m] # None
               PROVE  Fields(node[m]) /\ GoodState(node[m])' /\ GoodState(file[m])'
    BY DEF NodesOK, Fields
  <2>1. Fields(node[m]) /\ GoodState(node[m]) /\ GoodState(file[m])
    BY NodeFacts
  <2> QED
    BY <2>1, GoodStays
<1>2. MergedOK'
  <2>1. ASSUME NEW p \in Peers, merged[p] # <<>> PROVE GoodKEL(merged[p]) /\ Witnessed(merged[p])'
    <3>1. GoodKEL(merged[p]) /\ Witnessed(merged[p])
      BY <2>1 DEF Inv, MergedOK
    <3> QED
      BY <3>1, GoodStays
  <2> QED
    BY <2>1 DEF MergedOK
<1>3. PushesOK'
  <2> SUFFICES ASSUME NEW r \in pushes
               PROVE  /\ r.from \in Nodes /\ r.hub \in Hubs
                      /\ GoodKEL(r.kel) /\ Len(r.kel) >= 2
                      /\ r.hub = witnessOf(r.kel, Len(r.kel))
                      /\ \A i \in 2 .. Len(r.kel) - 1 : Held(r.kel, i)'
    BY DEF PushesOK
  <2>1. /\ r.from \in Nodes /\ r.hub \in Hubs
        /\ GoodKEL(r.kel) /\ Len(r.kel) >= 2
        /\ r.hub = witnessOf(r.kel, Len(r.kel))
        /\ \A i \in 2 .. Len(r.kel) - 1 : Held(r.kel, i)
    BY DEF Inv, PushesOK
  <2>2. Len(r.kel) \in Nat
    BY <2>1 DEF GoodKEL, WellMade, IsSeq
  <2>3. ASSUME NEW i \in 2 .. Len(r.kel) - 1 PROVE Held(r.kel, i)'
    BY <2>1, <2>2, HeldStays
  <2> QED
    BY <2>1, <2>3
<1> QED
  BY <1>1, <1>2, <1>3

\* What a hub answers.
LEMMA VerdictFacts ==
  ASSUME NEW h, NEW kel, Verdict(h, kel) = "ok"
  PROVE  h \notin Closed /\ ExtendsKEL(stored[h], kel) = "ok" /\ CheckNewEvents(stored[h], kel, clock(h), h)
<1>1. CASE h \in Closed
  BY <1>1 DEF Verdict
<1>2. CASE h \notin Closed /\ ExtendsKEL(stored[h], kel) # "ok"
  BY <1>2 DEF Verdict
<1>3. CASE h \notin Closed /\ ExtendsKEL(stored[h], kel) = "ok"
  BY <1>3 DEF Verdict
<1> QED
  BY <1>1, <1>2, <1>3

\* A hub that takes a pushed KEL adds to what it holds, and holds it by its own clock.
LEMMA TakenOK ==
  ASSUME Inv, NEW r \in pushes, Serve(r), Verdict(r.hub, r.kel) = "ok"
  PROVE  Grows /\ StoredOK' /\ stored' = [stored EXCEPT ![r.hub] = r.kel] /\ r.hub \in Hubs
<1> DEFINE h == r.hub
           kel == r.kel
           n == Len(r.kel)
           new == {i \in Len(stored[h]) + 1 .. n : i > 1 /\ witnessOf(kel, i) = h}
<1>1. /\ h \in Hubs /\ GoodKEL(kel) /\ n >= 2 /\ h = witnessOf(kel, n)
      /\ \A i \in 2 .. n - 1 : Held(kel, i)
  BY DEF Inv, PushesOK
<1>2. /\ stored' = [stored EXCEPT ![h] = kel]
      /\ seen' = seen \cup {[event |-> kel[i].event, at |-> clock(h)] : i \in new}
  BY DEF Serve
<1>3. ExtendsKEL(stored[h], kel) = "ok" /\ CheckNewEvents(stored[h], kel, clock(h), h)
  BY VerdictFacts
<1>4. stored[h] = <<>> \/ (GoodKEL(stored[h]) /\ Witnessed(stored[h]))
  BY <1>1 DEF Inv, StoredOK
<1> DEFINE m == Len(stored[h])
<1>5. m <= n /\ \A i \in 1..m : kel[i] = stored[h][i]
  BY <1>1, <1>3, <1>4, ExtendsFacts
<1>6. m \in Nat /\ n \in Nat
  BY <1>1, <1>4 DEF GoodKEL, WellMade, IsSeq
<1>7. \A g \in Hubs : stored'[g] = IF g = h THEN kel ELSE stored[g]
  BY <1>2 DEF Inv, TypeInv
<1>8. Grows
  <2>1. ASSUME NEW g \in Hubs
        PROVE  /\ Len(stored[g]) \in Nat /\ Len(stored'[g]) \in Nat
               /\ Len(stored[g]) <= Len(stored'[g])
               /\ \A i \in 1..Len(stored[g]) : stored'[g][i] = stored[g][i]
    <3>1. CASE g = h
      BY <1>5, <1>6, <1>7, <3>1
    <3>2. CASE g # h
      <4>1. stored'[g] = stored[g]
        BY <1>7, <3>2
      <4>2. Len(stored[g]) \in Nat
        BY DEF Inv, StoredOK, GoodKEL, WellMade, IsSeq
      <4> QED
        BY <4>1, <4>2
    <3> QED
      BY <3>1, <3>2
  <2> QED
    BY <1>2, <2>1 DEF Grows
<1>9. InTime(kel[n].event)'
  <2>1. CASE m = n
    <3>1. Held(stored[h], n) /\ stored[h][n] = kel[n]
      BY <1>1, <1>4, <1>5, <1>6, <2>1 DEF Witnessed
    <3> QED
      BY <1>8, <3>1 DEF Held, InTime, Grows
  <2>2. CASE m < n
    <3> DEFINE s == [event |-> kel[n].event, at |-> clock(h)]
    <3>1. n \in m + 1 .. n /\ n \in new
      BY <1>1, <1>6, <2>2
    <3>2. s \in seen'
      BY <1>2, <3>1
    <3>3. isFirstWitness(kel, n, h)
      BY <1>1, PublicationAssumption DEF isFirstWitness, witnessOf
    <3>4. kel[n].event.ts <= clock(h) + EventClockWindow /\ kel[n].event.ts >= clock(h) - EventClockWindow
      BY <1>3, <3>1, <3>3 DEF CheckNewEvents
    <3>5. kel[n].event.ts \in Int
      BY <1>1, <1>6 DEF GoodKEL, WellMade
    <3>6. clock(h) \in Int
      BY <1>1 DEF clock, Inv, TypeInv
    <3>7. clock(h) - kel[n].event.ts \in -EventClockWindow..EventClockWindow
      BY <3>4, <3>5, <3>6, WindowAssumption
    <3>8. s.event = kel[n].event /\ s.at = clock(h)
      OBVIOUS
    <3> HIDE DEF s
    <3> QED
      BY <3>2, <3>7, <3>8 DEF InTime
  <2> QED
    BY <1>5, <1>6, <2>1, <2>2
<1>10. Witnessed(kel)'
  <2> SUFFICES ASSUME NEW i \in 2..n PROVE Held(kel, i)'
    BY DEF Witnessed
  <2>1. CASE i = n
    <3>1. stored'[h] = kel /\ witnessOf(kel, n) = h
      BY <1>1, <1>7
    <3> QED
      BY <1>1, <1>6, <1>9, <2>1, <3>1 DEF Held
  <2>2. CASE i \in 2 .. n - 1
    BY <1>1, <1>8, <2>2, HeldStays
  <2> QED
    BY <1>6, <2>1, <2>2
<1>11. StoredOK'
  <2> SUFFICES ASSUME NEW g \in Hubs PROVE stored'[g] = <<>> \/ (GoodKEL(stored'[g]) /\ Witnessed(stored[g])')
    BY DEF StoredOK
  <2>1. CASE g = h
    <3>1. stored'[g] = kel
      BY <1>7, <2>1
    <3> QED
      BY <1>1, <1>10, <3>1
  <2>2. CASE g # h /\ stored[g] # <<>>
    <3>1. GoodKEL(stored[g]) /\ Witnessed(stored[g])
      BY <2>2 DEF Inv, StoredOK
    <3>2. Witnessed(stored[g])' /\ stored'[g] = stored[g]
      <4>1. stored'[g] = stored[g]
        BY <1>7, <2>2
      <4>2. Witnessed(stored'[g])
        BY <3>1, <4>1
      <4>3. GoodKEL(stored'[g])
        BY <3>1, <4>1
      <4> QED
        BY <1>8, <4>1, <4>2, <4>3, GoodStays
    <3> QED
      BY <3>1, <3>2
  <2>3. CASE g # h /\ stored[g] = <<>>
    BY <1>7, <2>3
  <2> QED
    BY <2>1, <2>2, <2>3
<1> QED
  BY <1>1, <1>2, <1>8, <1>11

\* A hub serves a push.
LEMMA ServeInv == ASSUME Inv, NEW r \in pushes, Serve(r) PROVE Inv'
<1> DEFINE h == r.hub
           kel == r.kel
           v == Verdict(h, kel)
           a == [event |-> kel[Len(kel)], verdict |-> v]
<1>1. /\ answers' = [answers EXCEPT ![r.from] = a]
      /\ pushes' \subseteq pushes
      /\ UNCHANGED <<node, file, merged, now, skew, faults>>
      /\ v # "ok" => UNCHANGED <<stored, seen>>
  BY DEF Serve
<1>2. r.from \in Nodes /\ h \in Hubs /\ GoodKEL(kel) /\ Len(kel) >= 2 /\ h = witnessOf(kel, Len(kel))
  BY DEF Inv, PushesOK
<1>3. Grows /\ StoredOK' /\ stored' = [g \in Hubs |-> IF v = "ok" /\ g = h THEN kel ELSE stored[g]]
  <2>1. CASE v = "ok"
    <3>1. Grows /\ StoredOK' /\ stored' = [stored EXCEPT ![h] = kel] /\ h \in Hubs
      BY <2>1, TakenOK
    <3>2. stored = [g \in Hubs |-> stored[g]]
      BY DEF Inv, TypeInv
    <3> HIDE DEF h, kel, v
    <3> QED
      BY <2>1, <3>1, <3>2
  <2>2. CASE v # "ok"
    <3>1. UNCHANGED <<stored, seen>> /\ Grows
      BY <1>1, <2>2, QuietGrows DEF Inv
    <3>2. StoredOK'
      BY <3>1 DEF Inv, StoredOK, Witnessed, Held, InTime
    <3>3. stored = [g \in Hubs |-> stored[g]]
      BY DEF Inv, TypeInv
    <3> HIDE DEF h, kel, v
    <3> QED
      BY <2>2, <3>1, <3>2, <3>3
  <2> QED
    BY <2>1, <2>2
<1>4. NodesOK' /\ MergedOK' /\ PushesOK'
  BY <1>1, <1>3, GrownInv
<1>5. TypeInv'
  <2>1. stored' = [g \in Hubs |-> stored'[g]]
    BY <1>3
  <2>2. DOMAIN answers' = Nodes
    BY <1>1 DEF Inv, TypeInv
  <2> QED
    BY <1>1, <2>1, <2>2 DEF Inv, TypeInv
<1>6. AnswersOK'
  <2> SUFFICES ASSUME NEW n \in Nodes, answers'[n] # None, answers'[n].verdict = "ok"
               PROVE  \E g \in Hubs : \E i \in 2..Len(stored'[g]) :
                        stored'[g][i] = answers'[n].event /\ witnessOf(stored'[g], i) = g
    <3>1. AnswersOK' = \A n \in Nodes :
             answers'[n] # None /\ answers'[n].verdict = "ok" =>
               \E g \in Hubs : \E i \in 2..Len(stored'[g]) :
                 stored'[g][i] = answers'[n].event /\ witnessOf(stored'[g], i) = g
      BY DEF AnswersOK, witnessOf
    <3> QED
      BY <3>1
  <2>1. CASE n = r.from
    <3>1. answers'[n] = a
      BY <1>1, <2>1 DEF Inv, TypeInv
    <3>2. v = "ok" /\ answers'[n].event = kel[Len(kel)]
      BY <3>1
    <3>3. stored'[h] = kel
      BY <1>2, <1>3, <3>2
    <3>4. Len(kel) \in 2..Len(kel)
      BY <1>2 DEF GoodKEL, WellMade, IsSeq
    <3> HIDE DEF h, kel, v, a
    <3> QED
      BY <1>2, <3>2, <3>3, <3>4
  <2>2. CASE n # r.from
    <3>1. answers'[n] = answers[n]
      BY <1>1, <2>2 DEF Inv, TypeInv
    <3>2. PICK g \in Hubs : \E i \in 2..Len(stored[g]) :
             stored[g][i] = answers[n].event /\ witnessOf(stored[g], i) = g
      BY <3>1 DEF Inv, AnswersOK
    <3>3. PICK i \in 2..Len(stored[g]) : stored[g][i] = answers[n].event /\ witnessOf(stored[g], i) = g
      BY <3>2
    <3>4. /\ Len(stored[g]) \in Nat /\ Len(stored'[g]) \in Nat /\ Len(stored[g]) <= Len(stored'[g])
          /\ \A j \in 1..Len(stored[g]) : stored'[g][j] = stored[g][j]
      BY <1>3 DEF Grows
    <3>5. stored'[g][i] = stored[g][i] /\ stored'[g][i - 1] = stored[g][i - 1] /\ i \in 2..Len(stored'[g])
      BY <3>4
    <3>6. witnessOf(stored'[g], i) = witnessOf(stored[g], i)
      BY <3>5 DEF witnessOf
    <3> QED
      BY <3>1, <3>3, <3>5, <3>6
  <2> QED
    BY <2>1, <2>2
<1> QED
  BY <1>3, <1>4, <1>5, <1>6 DEF Inv

\* The first state: the inception alone, on the node the identity was made on.
LEMMA InitInv == Init => Inv
<1> SUFFICES ASSUME Init PROVE Inv
  OBVIOUS
<1> DEFINE c == incept(1, ToadAgent)
<1>1. c.kel = <<Icp>> /\ c.pending = None /\ Fields(c)
  <2>1. c.kel = <<c.kel[1]>>
    BY DEF incept, inceptWith
  <2> QED
    BY <2>1 DEF Icp, incept, inceptWith, Fields
<1>2. GoodKEL(<<Icp>>)
  <2> DEFINE k == <<Icp>>
  <2>1. Len(k) = 1 /\ k[1] = Icp /\ DOMAIN k = 1..1 /\ IsSeq(k)
    BY DEF IsSeq
  <2>2. /\ Icp.event.seq = 0 /\ Icp.event.ts = 1 /\ Icp.signer = Icp.event.key
        /\ Icp = SignedEvent(Icp.event, Icp.event.key)
    BY DEF Icp, incept, inceptWith, SignedEvent
  <2>3. checkInception(Icp.event)
    BY PublicationAssumption
       DEF Icp, incept, inceptWith, SignedEvent, checkInception, checkShape, ToadAgent, ToadHub
  <2> HIDE DEF k
  <2>4. Replays(k)
    BY <2>1, <2>2, <2>3 DEF Replays
  <2> QED
    BY <2>1, <2>2, <2>4 DEF GoodKEL, WellMade, k
<1>3. GoodState(c)
  <2> HIDE DEF c
  <2>1. Len(c.kel) = 1
    BY <1>1
  <2>2. Witnessed(c.kel)
    BY <2>1 DEF Witnessed
  <2> QED
    BY <1>1, <1>2, <2>2 DEF GoodState, GoodPending
<1>4. GoodState(Export(c))
  BY <1>3, FileFacts
<1> HIDE DEF c
<1>5. NodesOK
  BY <1>1, <1>3, <1>4 DEF Init, NodesOK, c
<1>6. TypeInv
  BY PublicationAssumption DEF Init, TypeInv
<1>7. StoredOK /\ MergedOK /\ PushesOK /\ AnswersOK
  BY DEF Init, StoredOK, MergedOK, PushesOK, AnswersOK
<1> QED
  BY <1>5, <1>6, <1>7 DEF Inv

\* Every step keeps the invariant.
LEMMA NextInv == Inv /\ [Next]_vars => Inv'
<1> SUFFICES ASSUME Inv, [Next]_vars PROVE Inv'
  OBVIOUS
<1>1. CASE UNCHANGED vars
  <2>1. UNCHANGED <<node, file, stored, merged, pushes, answers, now, skew, seen>>
    BY <1>1 DEF vars
  <2>2. PushesOK'
    BY <2>1 DEF Inv, PushesOK, Held, InTime
  <2>3. /\ DOMAIN answers' = Nodes /\ now' \in Int /\ skew' \in [Hubs -> Int]
        /\ \A n \in Nodes : answers'[n] \in {answers[n], None}
    BY <2>1 DEF Inv, TypeInv
  <2> QED
    BY <2>1, <2>2, <2>3, OtherInv
<1>2. ASSUME NEW n \in Nodes, NEW h \in Hubs, Designate(n, h) \/ Rotate(n, h) \/ Recover(n, h) PROVE Inv'
  BY <1>2, DesignateInv, RotateInv, RecoverInv
<1>3. ASSUME NEW n \in Nodes,
             \/ Deactivate(n) \/ BuildRecovered(n) \/ Persist(n)
             \/ Push(n) \/ Receive(n) \/ Crash(n)
      PROVE  Inv'
  BY <1>3, DeactivateInv, BuildRecoveredInv, PersistInv, PushInv, ReceiveInv, CrashInv
<1>4. ASSUME NEW n \in Nodes, LoseAnswer(n) PROVE Inv'
  BY <1>4, EnvironmentInv
<1>5. ASSUME NEW r \in pushes, Serve(r) PROVE Inv'
  BY <1>5, ServeInv
<1>6. ASSUME NEW r \in pushes, LosePush(r) PROVE Inv'
  BY <1>6, EnvironmentInv
<1>7. ASSUME NEW p \in Peers, Merge(p) PROVE Inv'
  BY <1>7, MergeInv
<1>8. ASSUME NEW h \in Hubs, SetClock(h) PROVE Inv'
  BY <1>8, EnvironmentInv
<1>9. CASE Tick
  BY <1>9, EnvironmentInv
<1> QED
  BY <1>1, <1>2, <1>3, <1>4, <1>5, <1>6, <1>7, <1>8, <1>9 DEF Next

-----------------------------------------------------------------------------
(* The theorems. *)

\* The inductive invariant holds of every run of the nodes, hubs and peers.
THEOREM Invariance == Spec => []Inv
BY InitInv, NextInv, PTL DEF Spec

\* An event a node takes for accepted is one its witness holds: what Adopt's documentation asks
\* of its caller follows from a push going to the event's witness and from the answer naming
\* the event, however messages are lost, repeated or late and wherever nodes crash.
THEOREM Adopted == Spec => []AdoptedIsWitnessed
<1>1. Inv => AdoptedIsWitnessed
  BY DEF Inv, NodesOK, GoodState, Witnessed, Held, AdoptedIsWitnessed
<1> QED
  BY <1>1, Invariance, PTL

\* An event a peer holds carries a time within the window of the moment, by its own clock, at
\* which its witness accepted it (CheckNewEvents), whichever hub or node the peer has it from.
THEOREM TimesWitnessed == Spec => []PeerTimesWitnessed
<1>1. Inv => PeerTimesWitnessed
  BY DEF Inv, MergedOK, Witnessed, Held, InTime, PeerTimesWitnessed
<1> QED
  BY <1>1, Invariance, PTL

-----------------------------------------------------------------------------
(* One node that holds the identity, and no push that is delivered twice.   *)

\* s is the beginning of t.
Begins(s, t) == Len(s) <= Len(t) /\ \A i \in 1..Len(s) : s[i] = t[i]

\* No hub is ahead of the controller or file c, and only the witness of its pending event
\* may already hold that event.
Behind(c) ==
  \A h \in Hubs :
    /\ Begins(stored[h], kelLocked(c))
    /\ Len(stored[h]) > Len(c.kel) => Built(c) /\ h = witnessOf(kelLocked(c), Len(kelLocked(c)))

Request(n) ==
  LET kel == kelLocked(node[n])
  IN  [from |-> n, hub |-> witnessOf(kel, Len(kel)), kel |-> kel]

\* While a push or its answer is under way the node keeps the event it pushed, and an answer
\* that refuses it says that no hub holds it.
InFlight ==
  answers[Home] # None \/ pushes # {} =>
    /\ Built(node[Home])
    /\ file[Home].kel = node[Home].kel /\ file[Home].pending = node[Home].pending
    /\ pushes \subseteq {Request(Home)}
    /\ answers[Home] # None =>
         /\ pushes = {}
         /\ answers[Home].verdict # "ok" => \A h \in Hubs : Len(stored[h]) <= Len(node[Home].kel)

\* None, which stands for nil, is no controller.
NoneIsNil == \A c : Fields(c) => c # None

Alone ==
  /\ node[Home] # None /\ Behind(node[Home]) /\ Behind(file[Home])
  /\ \A h \in Closed : stored[h] = <<>>
  /\ InFlight

\* KELs that begin one KEL agree.
LEMMA BeginningsAgree ==
  ASSUME NEW k, NEW l, NEW m, IsSeq(k), IsSeq(l), Begins(k, m), Begins(l, m), Len(m) \in Nat
  PROVE  Agree(k, l)
<1>0. Len(k) \in Nat /\ Len(l) \in Nat
  BY DEF IsSeq
<1>1. ASSUME NEW s, NEW t, IsSeq(s), IsSeq(t), Begins(s, t) PROVE IsPrefix(s, t)
  <2> DEFINE S == {s[i] : i \in DOMAIN s} \cup {t[i] : i \in DOMAIN t}
             u == SubSeq(s, 1, Len(s))
             v == SubSeq(t, 1, Len(s))
  <2>1. s \in Seq(S) /\ t \in Seq(S)
    BY <1>1 DEF IsSeq
  <2> HIDE DEF S
  <2>2. Len(s) <= Len(t) /\ \A i \in 1..Len(s) : s[i] = t[i]
    BY <1>1 DEF Begins
  <2>3. Len(s) \in Nat /\ Len(t) \in Nat
    BY <2>1
  <2>4. u = [i \in 1..Len(s) |-> s[i]] /\ v = [i \in 1..Len(s) |-> t[i]]
    BY <2>1, <2>2, <2>3
  <2>5. u = v
    BY <2>2, <2>4
  <2> QED
    BY <2>2, <2>5 DEF IsPrefix
<1>2. CASE Len(k) <= Len(l)
  <2>1. Begins(k, l)
    BY <1>0, <1>2 DEF Begins
  <2> QED
    BY <1>1, <2>1 DEF Agree
<1>3. CASE Len(l) <= Len(k)
  <2>1. Begins(l, k)
    BY <1>0, <1>3 DEF Begins
  <2> QED
    BY <1>1, <2>1 DEF Agree
<1> QED
  BY <1>0, <1>2, <1>3

\* The KEL a controller signs under begins with the KEL of accepted events.
LEMMA LockedFacts ==
  ASSUME NEW c, GoodKEL(c.kel)
  PROVE  /\ IsSeq(kelLocked(c)) /\ Begins(c.kel, kelLocked(c))
         /\ Len(c.kel) \in Nat /\ Len(kelLocked(c)) \in Nat
         /\ Built(c) => Len(kelLocked(c)) = Len(c.kel) + 1
         /\ ~Built(c) => kelLocked(c) = c.kel
<1>1. Len(c.kel) \in Nat /\ IsSeq(c.kel)
  BY DEF GoodKEL, WellMade, IsSeq
<1>2. CASE ~Built(c)
  <2>1. kelLocked(c) = c.kel
    BY <1>2 DEF kelLocked, Built
  <2> QED
    BY <1>1, <1>2, <2>1 DEF Begins
<1>3. CASE Built(c)
  <2> DEFINE a == Append(c.kel, c.pending.event)
  <2>1. kelLocked(c) = a
    BY <1>3 DEF kelLocked, Built
  <2>2. IsSeq(a) /\ Len(a) = Len(c.kel) + 1 /\ \A i \in 1..Len(c.kel) : a[i] = c.kel[i]
    BY AppendFacts DEF GoodKEL
  <2> HIDE DEF a
  <2>3. Begins(c.kel, a)
    BY <1>1, <2>2 DEF Begins
  <2> QED
    BY <1>1, <1>3, <2>1, <2>2, <2>3
<1> QED
  BY <1>2, <1>3

\* Where no hub holds more than the accepted events, the pending event may be made, made again
\* or dropped.
LEMMA Rebased ==
  ASSUME NEW c, NEW d, GoodKEL(c.kel), d.kel = c.kel, Behind(c), UNCHANGED stored,
         \A h \in Hubs : Len(stored[h]) \in Nat /\ Len(stored[h]) <= Len(c.kel)
  PROVE  Behind(d)'
<1>1. /\ Begins(c.kel, kelLocked(c)) /\ Begins(c.kel, kelLocked(d))
      /\ Len(c.kel) \in Nat /\ Len(kelLocked(c)) \in Nat /\ Len(kelLocked(d)) \in Nat
  BY LockedFacts
<1> DEFINE k == kelLocked(c)
           l == kelLocked(d)
<1> HIDE DEF k, l
<1>2. ASSUME NEW h \in Hubs PROVE Begins(stored[h], l) /\ ~(Len(stored[h]) > Len(d.kel))
  <2>1. Len(stored[h]) \in Nat /\ Len(stored[h]) <= Len(c.kel) /\ Begins(stored[h], k)
    BY DEF Behind, k
  <2>2. Len(c.kel) <= Len(l) /\ \A i \in 1..Len(c.kel) : c.kel[i] = l[i]
    BY <1>1 DEF Begins, l
  <2>3. \A i \in 1..Len(c.kel) : c.kel[i] = k[i]
    BY <1>1 DEF Begins, k
  <2>4. \A i \in 1..Len(stored[h]) : stored[h][i] = k[i]
    BY <2>1 DEF Begins
  <2>5. Len(stored[h]) <= Len(l)
    BY <1>1, <2>1, <2>2 DEF l
  <2>6. ASSUME NEW i \in 1..Len(stored[h]) PROVE stored[h][i] = l[i]
    <3>1. i \in 1..Len(c.kel)
      BY <1>1, <2>1
    <3> QED
      BY <2>2, <2>3, <2>4, <3>1
  <2>7. ~(Len(stored[h]) > Len(d.kel))
    BY <1>1, <2>1
  <2> QED
    BY <2>5, <2>6, <2>7 DEF Begins
<1> QED
  BY <1>2 DEF Behind, l

\* The KEL and the pending material are all that matters to Behind.
LEMMA BehindSame ==
  ASSUME NEW c, NEW d, d.kel = c.kel, d.pending = c.pending, Behind(c), UNCHANGED stored
  PROVE  Behind(d)'
<1>1. kelLocked(d) = kelLocked(c) /\ (Built(c) => Built(d))
  BY DEF kelLocked, Built
<1> QED
  BY <1>1 DEF Behind

\* The lengths of what hubs hold.
LEMMA StoredLen == ASSUME Inv, NEW h \in Hubs PROVE Len(stored[h]) \in Nat /\ IsSeq(stored[h])
<1>1. CASE stored[h] = <<>>
  BY <1>1 DEF IsSeq
<1>2. CASE GoodKEL(stored[h])
  BY <1>2 DEF GoodKEL, WellMade, IsSeq
<1> QED
  BY <1>1, <1>2 DEF Inv, StoredOK

\* The node that holds the identity.
LEMMA HomeFacts ==
  ASSUME Inv, Alone
  PROVE  /\ DOMAIN node = Nodes /\ DOMAIN file = Nodes /\ DOMAIN answers = Nodes
         /\ node[Home] # None /\ Fields(node[Home])
         /\ GoodState(node[Home]) /\ GoodKEL(node[Home].kel) /\ GoodState(file[Home]) /\ GoodKEL(file[Home].kel)
         /\ Behind(node[Home]) /\ Behind(file[Home])
<1>1. node[Home] # None /\ Home \in Nodes
  BY PublicationAssumption DEF Alone
<1>2. Fields(node[Home]) /\ GoodState(node[Home]) /\ GoodState(file[Home])
  BY <1>1, NodeFacts
<1>3. GoodKEL(node[Home].kel) /\ GoodKEL(file[Home].kel)
  BY <1>2 DEF GoodState
<1> QED
  BY <1>1, <1>2, <1>3 DEF Alone, Inv, TypeInv

\* A step after which nothing is under way.
LEMMA AtRest ==
  ASSUME Alone, UNCHANGED stored, node'[Home] # None, Behind(node[Home])', Behind(file[Home])',
         answers'[Home] = None, pushes' = {}
  PROVE  Alone'
BY DEF Alone, InFlight

\* While the pending event is not built nothing is under way and no hub is ahead.
LEMMA UnbuiltFacts ==
  ASSUME Inv, Alone, ~Built(node[Home])
  PROVE  /\ answers[Home] = None /\ pushes = {}
         /\ \A h \in Hubs : Len(stored[h]) \in Nat /\ Len(stored[h]) <= Len(node[Home].kel)
<1>1. Len(node[Home].kel) \in Nat
  BY HomeFacts, LockedFacts
<1>2. \A h \in Hubs : ~(Len(stored[h]) > Len(node[Home].kel))
  BY DEF Alone, Behind
<1>3. \A h \in Hubs : Len(stored[h]) \in Nat
  BY StoredLen
<1> QED
  BY <1>1, <1>2, <1>3 DEF Alone, InFlight

\* An event is built where none is pending.
LEMMA BuildAlone ==
  ASSUME Inv, Alone, NEW n \in Nodes, Nodes = {Home}, NoneIsNil,
         \/ \E h \in Hubs : Designate(n, h) \/ Rotate(n, h)
         \/ Deactivate(n) \/ BuildRecovered(n)
  PROVE  Alone'
<1> DEFINE c == node[Home]
           d == node'[Home]
<1>1. n = Home /\ DOMAIN node = Nodes /\ Fields(c) /\ GoodKEL(c.kel) /\ Behind(c) /\ Behind(file[Home])
  BY HomeFacts
<1>2. UNCHANGED <<file, stored, pushes, answers>>
  BY DEF Designate, Rotate, Deactivate, BuildRecovered
<1>3. ~Built(c)
  BY <1>1 DEF Designate, Rotate, Deactivate, BuildRecovered, BuildWitnessDesignationAccepts,
              BuildRotationAccepts, BuildDeactivationAccepts, canBuildLocked, Built
<1>4. \E q : d = [c EXCEPT !.pending = q]
  <2>1. CASE \E h \in Hubs : Designate(n, h)
    BY <1>1, <2>1 DEF Designate, BuildWitnessDesignation, buildLocked
  <2>2. CASE \E h \in Hubs : Rotate(n, h)
    BY <1>1, <2>2 DEF Rotate, BuildRotation, buildLocked
  <2>3. CASE Deactivate(n)
    BY <1>1, <2>3 DEF Deactivate, BuildDeactivation, buildLocked
  <2>4. CASE BuildRecovered(n)
    BY <1>1, <2>4 DEF BuildRecovered, Restamp
  <2> QED
    BY <2>1, <2>2, <2>3, <2>4
<1>5. d.kel = c.kel /\ Fields(d)
  <2>1. PICK q : d = [c EXCEPT !.pending = q]
    BY <1>4
  <2>2. c = [kel |-> c.kel, cur |-> c.cur, hot |-> c.hot, pending |-> c.pending, state |-> c.state]
    BY <1>1 DEF Fields
  <2> HIDE DEF c, d
  <2>3. d = [kel |-> c.kel, cur |-> c.cur, hot |-> c.hot, pending |-> q, state |-> c.state]
    BY <2>1, <2>2
  <2> QED
    BY <2>3 DEF Fields
<1>6. d # None
  BY <1>5 DEF NoneIsNil
<1>7. /\ answers[Home] = None /\ pushes = {}
      /\ \A h \in Hubs : Len(stored[h]) \in Nat /\ Len(stored[h]) <= Len(c.kel)
  BY <1>3, UnbuiltFacts
<1>8. Behind(node[Home])'
  BY <1>1, <1>2, <1>5, <1>7, Rebased
<1>9. Behind(file[Home])'
  BY <1>1, <1>2 DEF Behind
<1> QED
  BY <1>2, <1>6, <1>7, <1>8, <1>9, AtRest

\* The file takes over what the node holds, the file is read back, or the time, a clock or a
\* lost message changes: the node and the file keep what they hold or take it from each other.
LEMMA QuietAlone ==
  ASSUME Inv, Alone, NEW n \in Nodes, Nodes = {Home}, NoneIsNil,
         \/ Persist(n) \/ Crash(n) \/ LoseAnswer(n) \/ Tick \/ UNCHANGED vars
         \/ (\E r \in pushes : LosePush(r)) \/ (\E p \in Peers : Merge(p)) \/ (\E h \in Hubs : SetClock(h))
  PROVE  Alone'
<1> DEFINE c == node[Home]
           d == node'[Home]
           f == file[Home]
           g == file'[Home]
<1>1. /\ n = Home /\ DOMAIN node = Nodes /\ DOMAIN file = Nodes /\ DOMAIN answers = Nodes
      /\ c # None /\ Behind(c) /\ Behind(f)
  BY HomeFacts
<1>2. UNCHANGED stored /\ pushes' \subseteq pushes /\ answers'[Home] \in {answers[Home], None}
  BY <1>1 DEF Persist, Crash, LoseAnswer, Tick, vars, LosePush, Merge, SetClock
<1>3. \/ d = c /\ g = f
      \/ d = c /\ g = Export(c)
      \/ d = Restore(f) /\ g = f
  BY <1>1 DEF Persist, Crash, LoseAnswer, Tick, vars, LosePush, Merge, SetClock
<1>4. /\ Restore(f).kel = f.kel /\ Restore(f).pending = f.pending /\ Fields(Restore(f))
      /\ Export(c).kel = c.kel /\ Export(c).pending = c.pending
  BY DEF Restore, Export, Fields
<1>5. d # None
  BY <1>1, <1>3, <1>4 DEF NoneIsNil
<1>6. \/ d.kel = c.kel /\ d.pending = c.pending
      \/ d.kel = f.kel /\ d.pending = f.pending
  BY <1>3, <1>4
<1>7. \/ g.kel = c.kel /\ g.pending = c.pending
      \/ g.kel = f.kel /\ g.pending = f.pending
  BY <1>3, <1>4
<1>8. Behind(node[Home])' /\ Behind(file[Home])'
  BY <1>1, <1>2, <1>6, <1>7, BehindSame
<1>9. InFlight'
  <2> SUFFICES ASSUME answers'[Home] # None \/ pushes' # {}
               PROVE  /\ Built(node[Home])'
                      /\ file'[Home].kel = node'[Home].kel /\ file'[Home].pending = node'[Home].pending
                      /\ pushes' \subseteq {Request(Home)'}
                      /\ answers'[Home] # None =>
                           /\ pushes' = {}
                           /\ answers'[Home].verdict # "ok" => \A h \in Hubs : Len(stored'[h]) <= Len(node'[Home].kel)
    BY DEF InFlight
  <2>1. answers[Home] # None \/ pushes # {}
    BY <1>2
  <2>2. /\ Built(c) /\ f.kel = c.kel /\ f.pending = c.pending /\ pushes \subseteq {Request(Home)}
        /\ answers[Home] # None =>
             /\ pushes = {}
             /\ answers[Home].verdict # "ok" => \A h \in Hubs : Len(stored[h]) <= Len(c.kel)
    BY <2>1 DEF Alone, InFlight
  <2>3. d.kel = c.kel /\ d.pending = c.pending /\ g.kel = c.kel /\ g.pending = c.pending
    BY <1>6, <1>7, <2>2
  <2>4. Built(d) /\ kelLocked(d) = kelLocked(c)
    BY <2>2, <2>3 DEF Built, kelLocked
  <2>5. Request(Home)' = Request(Home)
    BY <2>4 DEF Request, witnessOf
  <2>6. Built(node[Home])'
    BY <2>4 DEF Built
  <2>7. answers'[Home] # None => answers'[Home] = answers[Home]
    BY <1>2
  <2> QED
    BY <1>2, <2>2, <2>3, <2>5, <2>6, <2>7
<1>10. \A h \in Closed : stored'[h] = <<>>
  BY <1>2 DEF Alone
<1> QED
  BY <1>5, <1>8, <1>9, <1>10 DEF Alone

\* The push of the pending event.
LEMMA PushAlone ==
  ASSUME Inv, Alone, NEW n \in Nodes, Nodes = {Home}, Push(n)
  PROVE  Alone'
<1>1. /\ n = Home /\ Persisted(Home) /\ Built(node[Home]) /\ answers[Home] = None
      /\ pushes' = pushes \cup {Request(Home)}
      /\ UNCHANGED <<node, file, stored, answers>>
  BY DEF Push, Request
<1>2. file[Home].kel = node[Home].kel /\ file[Home].pending = node[Home].pending
  BY <1>1 DEF Persisted, Export
<1>3. Request(Home)' = Request(Home) /\ Built(node[Home])'
  BY <1>1 DEF Request, witnessOf, Built
<1>4. InFlight'
  <2>1. pushes' \subseteq {Request(Home)'}
    <3>1. pushes \subseteq {Request(Home)}
      BY DEF Alone, InFlight
    <3> QED
      BY <1>1, <1>3, <3>1
  <2> QED
    BY <1>1, <1>2, <1>3, <2>1 DEF InFlight
<1>5. Behind(node[Home])' /\ Behind(file[Home])'
  BY <1>1 DEF Alone, Behind
<1> QED
  BY <1>1, <1>4, <1>5 DEF Alone

\* The node acts on an answer: it drops or rebuilds an event only when no hub holds it.
LEMMA ReceiveAlone ==
  ASSUME Inv, Alone, NEW n \in Nodes, Nodes = {Home}, NoneIsNil, Receive(n)
  PROVE  Alone'
<1> DEFINE c == node[Home]
           a == answers[Home]
           d == node'[Home]
<1>1. /\ DOMAIN node = Nodes /\ DOMAIN file = Nodes /\ DOMAIN answers = Nodes
      /\ c # None /\ Fields(c) /\ GoodState(c) /\ GoodKEL(c.kel) /\ Behind(c) /\ Behind(file[Home])
  BY HomeFacts
<1>2. /\ n = Home /\ a # None /\ d = React(c, a) /\ answers'[Home] = None
      /\ UNCHANGED <<file, stored, pushes>>
  BY <1>1 DEF Receive
<1>3. /\ pushes = {} /\ Built(c)
      /\ a.verdict # "ok" => \A h \in Hubs : Len(stored[h]) <= Len(c.kel)
  BY <1>2 DEF Alone, InFlight
<1>4. Fields(d)
  BY <1>1, <1>2, ReactOK, PublicationAssumption
<1>5. d # None
  BY <1>4 DEF NoneIsNil
<1>6. Behind(node[Home])'
  <2>1. CASE a.verdict = "ok" /\ AdoptAccepts(c, a.event)
    <3>1. d = Adopt(c, a.event)
      BY <1>2, <2>1 DEF React
    <3>2. d = [c EXCEPT !.kel = kelLocked(c), !.cur = c.pending.revealed, !.hot = None, !.pending = None]
      BY <1>3, <3>1 DEF Adopt, kelLocked, Built
    <3>3. d.kel = kelLocked(c) /\ d.pending = None
      <4>1. c = [kel |-> c.kel, cur |-> c.cur, hot |-> c.hot, pending |-> c.pending, state |-> c.state]
        BY <1>1 DEF Fields
      <4> HIDE DEF c, d
      <4> QED
        BY <3>2, <4>1
    <3>4. kelLocked(d) = kelLocked(c)
      BY <3>3 DEF kelLocked
    <3>5. ASSUME NEW h \in Hubs PROVE Begins(stored[h], kelLocked(d)) /\ ~(Len(stored[h]) > Len(d.kel))
      <4>1. Begins(stored[h], kelLocked(c))
        BY <1>1 DEF Behind
      <4>2. Len(stored[h]) \in Nat /\ Len(kelLocked(c)) \in Nat
        BY <1>1, StoredLen, LockedFacts
      <4>3. Len(stored[h]) <= Len(kelLocked(c))
        BY <4>1 DEF Begins
      <4> HIDE DEF c, d
      <4> QED
        BY <3>3, <3>4, <4>1, <4>2, <4>3
    <3> QED
      BY <1>2, <3>5 DEF Behind
  <2>2. CASE ~(a.verdict = "ok" /\ AdoptAccepts(c, a.event))
    <3>1. \/ d.kel = c.kel /\ d.pending = c.pending
          \/ a.verdict # "ok" /\ d.kel = c.kel
      <4>1. c = [kel |-> c.kel, cur |-> c.cur, hot |-> c.hot, pending |-> c.pending, state |-> c.state]
        BY <1>1 DEF Fields
      <4>2. \/ d = c \/ (a.verdict # "ok" /\ d = Restamp(c, now))
            \/ (a.verdict # "ok" /\ d = DiscardPending(c)) \/ d = SetState(c, "stopped")
        BY <1>2, <2>2 DEF React
      <4>3. Restamp(c, now).kel = c.kel /\ DiscardPending(c).kel = c.kel
        <5> HIDE DEF c
        <5> QED
          BY <4>1 DEF Restamp, DiscardPending
      <4>4. SetState(c, "stopped").kel = c.kel /\ SetState(c, "stopped").pending = c.pending
        <5> HIDE DEF c
        <5> QED
          BY <4>1 DEF SetState
      <4> HIDE DEF c, d
      <4> QED
        BY <4>2, <4>3, <4>4
    <3>2. CASE d.kel = c.kel /\ d.pending = c.pending
      BY <1>1, <1>2, <3>2, BehindSame
    <3>3. CASE a.verdict # "ok" /\ d.kel = c.kel
      <4>1. \A h \in Hubs : Len(stored[h]) \in Nat /\ Len(stored[h]) <= Len(c.kel)
        BY <1>3, <3>3, StoredLen
      <4> QED
        BY <1>1, <1>2, <3>3, <4>1, Rebased
    <3> QED
      BY <3>1, <3>2, <3>3
  <2> QED
    BY <2>1, <2>2
<1>7. Behind(file[Home])'
  BY <1>1, <1>2 DEF Behind
<1> QED
  BY <1>2, <1>3, <1>5, <1>6, <1>7, AtRest

\* A hub that holds a KEL takes it again.
LEMMA TakenAgain ==
  ASSUME NEW h, NEW kel, GoodKEL(kel), h \notin Closed, Len(stored[h]) = Len(kel), Begins(stored[h], kel)
  PROVE  Verdict(h, kel) = "ok"
<1>1. Len(kel) \in Nat /\ Replays(kel)
  BY DEF GoodKEL, WellMade, IsSeq
<1>2. \A i \in 1..Len(kel) : stored[h][i] = kel[i]
  BY DEF Begins
<1>3. ExtendsKEL(stored[h], kel) = "ok"
  BY <1>1, <1>2 DEF ExtendsKEL
<1>4. CheckNewEvents(stored[h], kel, clock(h), h)
  BY <1>1 DEF CheckNewEvents
<1> QED
  BY <1>3, <1>4 DEF Verdict

\* A hub serves the one push under way; when it refuses it no hub holds the event.
LEMMA ServeAlone ==
  ASSUME Inv, Alone, Nodes = {Home}, LateCopies = FALSE, NEW r \in pushes, Serve(r)
  PROVE  Alone'
<1> DEFINE c == node[Home]
           f == file[Home]
           K == kelLocked(c)
           h == r.hub
           v == Verdict(h, K)
<1>1. /\ Built(c) /\ f.kel = c.kel /\ f.pending = c.pending /\ pushes \subseteq {Request(Home)}
      /\ c # None /\ Behind(c) /\ Behind(f)
  BY DEF Alone, InFlight
<1>2. r = Request(Home) /\ pushes = {r}
  BY <1>1
<1>3. r.kel = K /\ h = witnessOf(K, Len(K)) /\ r.from = Home
  BY <1>2 DEF Request
<1>4. h \in Hubs /\ GoodKEL(K) /\ DOMAIN answers = Nodes
  BY <1>3 DEF Inv, PushesOK, TypeInv
<1>5. /\ pushes' = {} /\ answers'[Home].verdict = v
      /\ UNCHANGED <<node, file>>
  BY <1>2, <1>3, <1>4 DEF Serve
<1>6. /\ Len(c.kel) \in Nat /\ Len(K) = Len(c.kel) + 1
  BY <1>1, HomeFacts, LockedFacts
<1>7. kelLocked(f) = K /\ Built(f) /\ Begins(K, K)
  BY <1>1, <1>6 DEF kelLocked, Built, Begins
<1>8. stored = [g \in Hubs |-> stored[g]]
  BY DEF Inv, TypeInv
<1>9. v = "ok" => stored' = [g \in Hubs |-> IF g = h THEN K ELSE stored[g]] /\ h \notin Closed
  <2> SUFFICES ASSUME v = "ok" PROVE stored' = [g \in Hubs |-> IF g = h THEN K ELSE stored[g]] /\ h \notin Closed
    OBVIOUS
  <2>1. stored' = [stored EXCEPT ![h] = K]
    BY <1>3 DEF Serve
  <2>2. h \notin Closed
    BY VerdictFacts
  <2> HIDE DEF h, K
  <2> QED
    BY <1>8, <2>1, <2>2
<1>10. v # "ok" => stored' = stored
  BY <1>3 DEF Serve
<1>11. v # "ok" => \A g \in Hubs : Len(stored[g]) <= Len(c.kel)
  <2> SUFFICES ASSUME v # "ok", NEW g \in Hubs PROVE Len(stored[g]) <= Len(c.kel)
    OBVIOUS
  <2>1. Len(stored[g]) \in Nat /\ Begins(stored[g], K)
    BY <1>1, StoredLen DEF Behind
  <2>2. CASE Len(stored[g]) > Len(c.kel)
    <3>1. g = h
      BY <1>1, <1>3, <2>2 DEF Behind
    <3>2. Len(stored[h]) = Len(K)
      BY <1>6, <2>1, <2>2, <3>1 DEF Begins
    <3>3. h \notin Closed
      <4>1. stored[h] # <<>>
        BY <1>6, <3>2
      <4> QED
        BY <4>1 DEF Alone
    <3> QED
      BY <1>4, <2>1, <3>1, <3>2, <3>3, TakenAgain
  <2> QED
    BY <1>6, <2>1, <2>2
<1> HIDE DEF v
<1>12. ASSUME NEW d, Behind(d), kelLocked(d) = K, Built(d) PROVE Behind(d)'
  <2>1. ASSUME NEW g \in Hubs
        PROVE  /\ Begins(stored'[g], K)
               /\ Len(stored'[g]) > Len(d.kel) => Built(d) /\ g = witnessOf(K, Len(K))
    <3>1. stored'[g] = stored[g] \/ (g = h /\ stored'[g] = K)
      BY <1>9, <1>10
    <3>2. /\ Begins(stored[g], K)
          /\ Len(stored[g]) > Len(d.kel) => Built(d) /\ g = witnessOf(K, Len(K))
      BY <1>12 DEF Behind
    <3> HIDE DEF h, K
    <3> QED
      BY <1>3, <1>7, <1>12, <3>1, <3>2
  <2> HIDE DEF K
  <2> QED
    BY <1>12, <2>1 DEF Behind
<1>13. Behind(node[Home])' /\ Behind(file[Home])'
  BY <1>1, <1>5, <1>7, <1>12
<1>14. InFlight'
  <2>1. Built(node[Home])' /\ file'[Home].kel = node'[Home].kel /\ file'[Home].pending = node'[Home].pending
    BY <1>1, <1>5
  <2>2. answers'[Home].verdict # "ok" => \A g \in Hubs : Len(stored'[g]) <= Len(node'[Home].kel)
    BY <1>5, <1>10, <1>11
  <2> QED
    BY <1>5, <2>1, <2>2 DEF InFlight
<1>15. \A g \in Closed : stored'[g] = <<>>
  BY <1>9, <1>10, PublicationAssumption DEF Alone
<1> QED
  BY <1>1, <1>5, <1>13, <1>14, <1>15 DEF Alone

\* The first state.
LEMMA InitAlone == ASSUME NoneIsNil, Init PROVE Alone
<1> DEFINE c == incept(1, ToadAgent)
<1>1. /\ node[Home] = c /\ file[Home] = Export(c) /\ answers[Home] = None /\ pushes = {}
      /\ stored = [h \in Hubs |-> <<>>]
  BY PublicationAssumption DEF Init
<1>2. Fields(c) /\ c.pending = None /\ c.kel = <<c.kel[1]>> /\ Export(c).kel = c.kel /\ Export(c).pending = c.pending
  BY DEF incept, inceptWith, Fields, Export
<1> HIDE DEF c
<1>3. c # None
  BY <1>2 DEF NoneIsNil
<1>4. Len(c.kel) = 1 /\ kelLocked(c) = c.kel /\ kelLocked(Export(c)) = c.kel
  BY <1>2 DEF kelLocked
<1>5. Behind(c) /\ Behind(Export(c))
  <2>1. ASSUME NEW h \in Hubs PROVE Len(stored[h]) = 0
    BY <1>1
  <2> QED
    BY <1>2, <1>4, <2>1 DEF Behind, Begins
<1> QED
  BY <1>1, <1>3, <1>5, PublicationAssumption DEF Alone, InFlight

\* Every step.
LEMMA NextAlone ==
  ASSUME Nodes = {Home}, LateCopies = FALSE, NoneIsNil, Inv, Alone, [Next]_vars
  PROVE  Alone'
<1>0. Home \in Nodes
  BY PublicationAssumption
<1>1. ASSUME NEW n \in Nodes, NEW h \in Hubs, Designate(n, h) \/ Rotate(n, h) PROVE Alone'
  BY <1>1, BuildAlone
<1>2. ASSUME NEW n \in Nodes, NEW h \in Hubs, Recover(n, h) PROVE Alone'
  BY <1>2 DEF Recover, Alone
<1>3. ASSUME NEW n \in Nodes, Deactivate(n) \/ BuildRecovered(n) PROVE Alone'
  BY <1>3, BuildAlone
<1>4. ASSUME NEW n \in Nodes, Persist(n) \/ LoseAnswer(n) \/ Crash(n) PROVE Alone'
  BY <1>4, QuietAlone
<1>5. ASSUME NEW n \in Nodes, Push(n) \/ Receive(n) PROVE Alone'
  BY <1>5, PushAlone, ReceiveAlone
<1>6. ASSUME NEW r \in pushes, Serve(r) PROVE Alone'
  BY <1>6, ServeAlone
<1>7. CASE \/ (\E r \in pushes : LosePush(r)) \/ (\E p \in Peers : Merge(p)) \/ (\E h \in Hubs : SetClock(h))
           \/ Tick \/ UNCHANGED vars
  BY <1>0, <1>7, QuietAlone
<1> QED
  BY <1>1, <1>2, <1>3, <1>4, <1>5, <1>6, <1>7 DEF Next

\* Every KEL that is held begins the KEL the one node signs under.
LEMMA AloneIsOneHistory ==
  ASSUME Nodes = {Home}, Inv, Alone PROVE PendingForksNothing /\ OneHistory
<1> DEFINE c == node[Home]
           K == kelLocked(c)
<1>1. GoodState(c) /\ GoodKEL(c.kel) /\ Behind(c)
  BY HomeFacts
<1>2. /\ IsSeq(K) /\ Len(K) \in Nat /\ Len(c.kel) \in Nat /\ Begins(c.kel, K) /\ Begins(K, K)
      /\ IsSeq(c.kel)
  <2>1. IsSeq(K) /\ Len(K) \in Nat /\ Len(c.kel) \in Nat /\ Begins(c.kel, K)
    BY <1>1, LockedFacts
  <2>2. Begins(K, K)
    BY <2>1 DEF Begins
  <2> QED
    BY <1>1, <2>1, <2>2 DEF GoodKEL, WellMade
<1>3. ASSUME NEW h \in Hubs PROVE IsSeq(stored[h]) /\ Begins(stored[h], K)
  BY <1>1, StoredLen DEF Behind
<1>4. ASSUME NEW p \in Peers PROVE IsSeq(merged[p]) /\ Begins(merged[p], K)
  <2>1. CASE merged[p] = <<>>
    BY <1>2, <2>1 DEF Begins, IsSeq
  <2>2. CASE GoodKEL(merged[p]) /\ Witnessed(merged[p])
    <3> DEFINE k == merged[p]
               n == Len(k)
    <3>1. IsSeq(k) /\ n \in Nat /\ k[1] = Icp
      BY <2>2 DEF GoodKEL, WellMade, IsSeq
    <3>2. K[1] = Icp /\ Len(K) >= 1
      <4>1. c.kel[1] = Icp /\ Len(c.kel) > 0
        BY <1>1 DEF GoodKEL, WellMade, Replays
      <4> HIDE DEF K
      <4> QED
        BY <1>2, <4>1 DEF Begins
    <3>3. ASSUME NEW i \in 2..n PROVE i <= Len(K) /\ k[i] = K[i]
      <4>1. PICK w \in Hubs : Len(stored[w]) >= i /\ stored[w][i] = k[i]
        BY <2>2 DEF Witnessed, Held
      <4>2. Begins(stored[w], K) /\ Len(stored[w]) \in Nat
        BY <1>3, StoredLen
      <4> HIDE DEF K, k, n
      <4> QED
        BY <1>2, <3>1, <4>1, <4>2 DEF Begins
    <3> HIDE DEF K, k, n
    <3>4. Begins(k, K)
      <4>1. n <= Len(K)
        <5>1. CASE n <= 1
          BY <1>2, <3>1, <3>2, <5>1
        <5>2. CASE n >= 2
          BY <3>1, <3>3, <5>2
        <5> QED
          BY <3>1, <5>1, <5>2
      <4>2. ASSUME NEW i \in 1..n PROVE k[i] = K[i]
        <5>1. CASE i = 1
          BY <3>1, <3>2, <5>1
        <5>2. CASE i \in 2..n
          BY <3>3, <5>2
        <5> QED
          BY <3>1, <5>1, <5>2
      <4> QED
        BY <4>1, <4>2 DEF Begins, n
    <3> QED
      BY <3>1, <3>4 DEF k
  <2> QED
    BY <2>1, <2>2 DEF Inv, MergedOK
<1> HIDE DEF K
<1>5. PendingForksNothing
  <2> SUFFICES ASSUME NEW h \in Hubs PROVE Agree(K, stored[h])
    BY DEF PendingForksNothing, K
  <2> QED
    BY <1>2, <1>3, BeginningsAgree
<1>6. OneHistory
  <2> DEFINE all == Known \cup {merged[p] : p \in Peers}
  <2>1. ASSUME NEW k \in all PROVE IsSeq(k) /\ Begins(k, K)
    BY <1>2, <1>3, <1>4 DEF Known
  <2> HIDE DEF all
  <2>2. ASSUME NEW k \in all, NEW l \in all PROVE Agree(k, l)
    BY <1>2, <2>1, BeginningsAgree
  <2> QED
    BY <2>2 DEF OneHistory, all
<1> QED
  BY <1>5, <1>6

\* "the rebuilt event forks nothing" (Restamp), "dropping it forks nothing" (DiscardPending):
\* where one node holds the identity and a push is not delivered again after it was answered,
\* what the node publishes never contradicts what any hub holds, for any number of hubs it
\* switches between, any clocks and any crashes and lost messages.
THEOREM ForksNothing ==
  ASSUME Nodes = {Home}, LateCopies = FALSE, NoneIsNil
  PROVE  Spec => []PendingForksNothing
<1>1. Inv /\ Alone => PendingForksNothing
  BY AloneIsOneHistory
<1>2. Init => Alone
  BY InitAlone
<1>3. Inv /\ Alone /\ [Next]_vars => Alone'
  BY NextAlone
<1> QED
  BY <1>1, <1>2, <1>3, Invariance, PTL DEF Spec

\* Then all that hubs, peers and the node hold is one history.
THEOREM OneNodeOneHistory ==
  ASSUME Nodes = {Home}, LateCopies = FALSE, NoneIsNil
  PROVE  Spec => []OneHistory
<1>1. Inv /\ Alone => OneHistory
  BY AloneIsOneHistory
<1>2. Init => Alone
  BY InitAlone
<1>3. Inv /\ Alone /\ [Next]_vars => Alone'
  BY NextAlone
<1> QED
  BY <1>1, <1>2, <1>3, Invariance, PTL DEF Spec

-----------------------------------------------------------------------------
(* One hub, and any number of nodes. *)

\* Where one hub witnesses all events there is one history, whatever nodes recover the identity
\* beside each other and however late a push arrives: the hub lets one event win each place, and
\* nobody takes an event for accepted that the hub does not hold.
THEOREM OneHubOneHistory ==
  ASSUME NEW h, Hubs = {h}
  PROVE  Spec => []OneHistory
<1>1. Inv => OneHistory
  <2> SUFFICES ASSUME Inv PROVE OneHistory
    OBVIOUS
  <2> DEFINE all == Known \cup {merged[p] : p \in Peers}
             S == stored[h]
             T == IF S = <<>> THEN <<Icp>> ELSE S
  <2>1. ASSUME NEW k \in all PROVE k = <<>> \/ (GoodKEL(k) /\ Witnessed(k))
    <3>1. CASE k \in {stored[g] : g \in Hubs}
      BY <3>1 DEF Inv, StoredOK
    <3>2. CASE k \in {node[n].kel : n \in {m \in Nodes : node[m] # None}}
      BY <3>2 DEF Inv, NodesOK, GoodState
    <3>3. CASE k \in {merged[p] : p \in Peers}
      BY <3>3 DEF Inv, MergedOK
    <3> QED
      BY <3>1, <3>2, <3>3 DEF Known
  <2>2. Len(S) \in Nat /\ IsSeq(S) /\ (S # <<>> => GoodKEL(S))
    BY StoredLen DEF Inv, StoredOK
  <2>3. Len(T) \in Nat /\ Len(T) >= 1 /\ T[1] = Icp /\ (Len(S) >= 1 => T = S)
    <3>1. CASE S = <<>>
      BY <3>1
    <3>2. CASE S # <<>>
      BY <2>2, <3>2 DEF GoodKEL, WellMade, Replays
    <3> QED
      BY <3>1, <3>2
  <2> HIDE DEF all, T
  <2>4. ASSUME NEW k \in all PROVE IsSeq(k) /\ Begins(k, T)
    <3>1. CASE k = <<>>
      BY <2>3, <3>1 DEF IsSeq, Begins
    <3>2. CASE GoodKEL(k) /\ Witnessed(k)
      <4>1. IsSeq(k) /\ Len(k) \in Nat /\ k[1] = Icp
        BY <3>2 DEF GoodKEL, WellMade, IsSeq
      <4>2. ASSUME NEW i \in 2..Len(k) PROVE Len(S) >= i /\ S[i] = k[i]
        BY <3>2 DEF Witnessed, Held
      <4> HIDE DEF S
      <4>3. ASSUME NEW i \in 2..Len(k) PROVE i <= Len(T) /\ k[i] = T[i]
        BY <2>2, <2>3, <4>1, <4>2
      <4>4. Len(k) <= Len(T)
        <5>1. CASE Len(k) <= 1
          BY <2>3, <4>1, <5>1
        <5>2. CASE Len(k) >= 2
          BY <4>1, <4>3, <5>2
        <5> QED
          BY <4>1, <5>1, <5>2
      <4>5. ASSUME NEW i \in 1..Len(k) PROVE k[i] = T[i]
        <5>1. CASE i = 1
          BY <2>3, <4>1, <5>1
        <5>2. CASE i \in 2..Len(k)
          BY <4>3, <5>2
        <5> QED
          BY <4>1, <5>1, <5>2
      <4> QED
        BY <4>1, <4>4, <4>5 DEF Begins
    <3> QED
      BY <2>1, <3>1, <3>2
  <2>5. ASSUME NEW k \in all, NEW l \in all PROVE Agree(k, l)
    BY <2>3, <2>4, BeginningsAgree
  <2> QED
    BY <2>5 DEF OneHistory, all
<1> QED
  BY <1>1, Invariance, PTL

=============================================================================
