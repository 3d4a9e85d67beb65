---------------------------- MODULE LedgerProofs ----------------------------
(***************************************************************************)
(* Proofs about Ledger for every set of replicas, chains and records and   *)
(* every buffer cap.                                                       *)
(*                                                                         *)
(* ChainOK is the inductive invariant of one chain: it adds to the checked *)
(* invariants that staged seqs are bounded (so the drain loop ends) and    *)
(* that what an import carries belongs to the chain it is imported to.     *)
(***************************************************************************)
EXTENDS Ledger, FiniteSetTheorems, SequenceTheorems, WellFoundedInduction, NaturalsInduction, TLAPS

Stored == Records \cup {forkAnchor(x, y) : x \in Records, y \in Records}

Chain == [events : Seq(Stored), state : {"", ChainActive, ChainQuarantined},
          staged : SUBSET Records]

\* Append let the record through: its version is known and it verified.
Passed(r) == r.version = VersionMajor2 /\ Verify(r)

Linear(did, ev) ==
  /\ ev \in Seq(Stored)
  /\ \A i \in 1..Len(ev) :
       /\ ev[i] \in Records
       /\ ev[i].seq = i - 1 /\ ev[i].chain = did /\ Passed(ev[i])
       /\ ev[i].prev = IF i = 1 THEN GenesisPrev ELSE ev[i - 1].id

StagedOK(did, st) ==
  /\ st \subseteq Records
  /\ IsFiniteSet(st) /\ Cardinality(st) <= ImportBufferCap
  /\ \A x, y \in st : x.seq = y.seq => x = y
  /\ \A x \in st : Passed(x) /\ x.chain = did
  /\ \E b \in Nat : \A x \in st : x.seq <= b

\* An ACTIVE chain whose staged records are at least gap ahead of the head.
ActiveOK(did, ch, gap) ==
  /\ ch \in Chain /\ ch.state = ChainActive
  /\ ch.events # <<>>
  /\ Linear(did, ch.events)
  /\ StagedOK(did, ch.staged)
  /\ \A x \in ch.staged : x.seq >= Len(ch.events) - 1 + gap

QuarantinedOK(did, ch) ==
  LET n == Len(ch.events)
  IN  /\ ch \in Chain /\ ch.state = ChainQuarantined
      /\ n >= 3
      /\ Linear(did, SubSeq(ch.events, 1, n - 2))
      /\ StagedOK(did, ch.staged)
      /\ ch.events[n - 1] \in Records /\ Passed(ch.events[n - 1]) /\ ch.events[n - 1].chain = did
      /\ ch.events[n - 1].seq \in 0..n - 3
      /\ ch.events[n].type = EvForkDetected /\ ch.events[n].seq = ch.events[n - 1].seq
      /\ ch.events[n].chain = did /\ ~ch.events[n].ok
      /\ ch.events[ch.events[n - 1].seq + 1].id # ch.events[n - 1].id

Prefix(s, t) == Len(s) <= Len(t) /\ \A i \in 1..Len(s) : t[i] = s[i]

ChainOK(did, ch) == ch = NoChain \/ ActiveOK(did, ch, 2) \/ QuarantinedOK(did, ch)

-----------------------------------------------------------------------------
(* The drain loop. *)

\* What the assumption on Records says of one.
LEMMA RecordFacts ==
  ASSUME NEW r \in Records
  PROVE  r.chain \in Chains /\ r.seq \in Nat /\ r.id # None
  BY RecordsAssumption

\* The loop stops: some number of records can be spliced and not one more.
LEMMA SplicedExists ==
  ASSUME NEW did, NEW ch, ActiveOK(did, ch, 1)
  PROVE  /\ spliced(ch) \in Nat
         /\ splices(ch, spliced(ch))
         /\ ~splices(ch, spliced(ch) + 1)
<1> DEFINE h == lastOf(ch.events).seq
           T == {m \in Nat : ~splices(ch, m + 1)}
           S == {0} \cup {x.seq - h : x \in ch.staged}
<1>1. h \in Nat /\ h = Len(ch.events) - 1
  BY DEF ActiveOK, Linear, lastOf
<1>2. PICK b \in Nat : \A x \in ch.staged : x.seq <= b
  BY DEF ActiveOK, StagedOK
<1>3. ~splices(ch, b + 1)
  <2>1. SUFFICES ASSUME splices(ch, b + 1) PROVE FALSE
    OBVIOUS
  <2>2. b + 1 \in 1..b + 1
    BY <1>2
  <2>3. PICK x \in ch.staged : x.seq = lastOf(ch.events).seq + (b + 1)
    BY <2>1, <2>2 DEF splices
  <2>4. x.seq \in Nat
    BY RecordFacts DEF ActiveOK, StagedOK
  <2>5. x.seq <= b
    BY <1>2
  <2>6. h \in Nat /\ x.seq = h + (b + 1)
    BY <1>1, <2>3
  <2> HIDE DEF h
  <2> QED
    BY <2>4, <2>5, <2>6
<1>a. b \in T
  BY <1>3
<1>4. PICK m \in T : \A k \in T : ~(<<k, m>> \in OpToRel(<, Nat))
  BY <1>a, NatLessThanWellFounded, WFMin
<1>5. \A k \in T : ~(k < m)
  BY <1>4 DEF OpToRel
<1>6. m \in Nat /\ ~splices(ch, m + 1)
  BY <1>4
<1>7. splices(ch, m)
  <2>1. CASE m = 0
    BY <2>1 DEF splices
  <2>2. CASE m # 0
    <3>1. m - 1 \in Nat /\ m - 1 < m /\ (m - 1) + 1 = m
      BY <1>6, <2>2
    <3> QED
      BY <1>5, <3>1
  <2> QED
    BY <2>1, <2>2
<1>8. m \in S
  <2>1. CASE m = 0
    BY <2>1
  <2>2. CASE m # 0
    <3>1. m \in 1..m
      BY <1>6, <2>2
    <3>2. PICK x \in ch.staged : x.seq = lastOf(ch.events).seq + m
      BY <1>7, <3>1 DEF splices
    <3>3. m = x.seq - h
      BY <1>1, <1>6, <3>2
    <3> QED
      BY <3>2, <3>3
  <2> QED
    BY <2>1, <2>2
<1> DEFINE Q(n) == n >= 0 /\ splices(ch, n) /\ ~splices(ch, n + 1)
<1>9. \E n \in S : Q(n)
  BY <1>6, <1>7, <1>8
<1>10. spliced(ch) = CHOOSE n \in S : Q(n)
  BY DEF spliced
<1>11. spliced(ch) \in S /\ Q(spliced(ch))
  BY <1>9, <1>10
<1>12. \A n \in S : n \in Int
  BY <1>1, RecordFacts DEF ActiveOK, StagedOK
<1>13. spliced(ch) \in Int
  <2> HIDE DEF S
  <2> QED
    BY <1>11, <1>12
<1>14. spliced(ch) \in Nat
  BY <1>11, <1>13
<1> QED
  BY <1>11, <1>14

\* Fewer staged records are still well staged.
LEMMA StagedSubset ==
  ASSUME NEW did, NEW st, StagedOK(did, st), NEW sub \in SUBSET st
  PROVE  StagedOK(did, sub)
<1>1. IsFiniteSet(sub) /\ Cardinality(sub) <= Cardinality(st)
  BY FS_Subset DEF StagedOK
<1>2. Cardinality(sub) \in Nat /\ Cardinality(st) \in Nat
  BY <1>1, FS_CardinalityType DEF StagedOK
<1>3. Cardinality(sub) <= ImportBufferCap
  BY <1>1, <1>2, CapAssumption DEF StagedOK
<1>4. \E b \in Nat : \A x \in sub : x.seq <= b
  BY DEF StagedOK
<1> QED
  BY <1>1, <1>3, <1>4 DEF StagedOK

\* The drain keeps the chain linked and leaves nothing behind that the head could take.
LEMMA DrainOK ==
  ASSUME NEW did, NEW ch, ActiveOK(did, ch, 1)
  PROVE  /\ ActiveOK(did, drainStaged(ch), 2)
         /\ Prefix(ch.events, drainStaged(ch).events)
<1> DEFINE ev == ch.events
           st == ch.staged
           L == Len(ev)
           n == spliced(ch)
           f == [j \in 1..n |-> stagedAt(ch, lastOf(ev).seq + j)]
           dr == drainStaged(ch)
           rest == {x \in st : x.seq \notin lastOf(ev).seq + 1 .. lastOf(ev).seq + n + 1}
<1>1. n \in Nat /\ splices(ch, n)
  BY SplicedExists
<1>2. ev \in Seq(Stored) /\ L \in Nat /\ L >= 1
  BY DEF ActiveOK, Linear
<1>3. lastOf(ev).seq = L - 1 /\ lastOf(ev) = ev[L] /\ L \in 1..L
  BY <1>2 DEF ActiveOK, Linear, lastOf
<1>4. \A j \in 1..n : f[j] \in st /\ f[j].seq = L - 1 + j
  <2>1. TAKE j \in 1..n
  <2>2. \E x \in st : x.seq = lastOf(ev).seq + j
    BY <1>1 DEF splices
  <2>3. stagedAt(ch, lastOf(ev).seq + j) \in st /\ stagedAt(ch, lastOf(ev).seq + j).seq = lastOf(ev).seq + j
    BY <2>2 DEF stagedAt
  <2> QED
    BY <1>3, <2>3
<1>5. \A j \in 1..n : f[j].prev = IF j = 1 THEN ev[L].id ELSE f[j - 1].id
  <2>1. TAKE j \in 1..n
  <2>2. stagedAt(ch, lastOf(ev).seq + j).prev =
          IF j = 1 THEN lastOf(ev).id ELSE stagedAt(ch, lastOf(ev).seq + (j - 1)).id
    BY <1>1 DEF splices
  <2>3. CASE j = 1
    BY <1>3, <2>2, <2>3
  <2>4. CASE j # 1
    <3>1. j - 1 \in 1..n
      BY <1>1, <2>4
    <3> QED
      BY <2>2, <2>4, <3>1
  <2> QED
    BY <2>3, <2>4
<1>6. \A j \in 1..n : f[j] \in Records
  BY <1>4 DEF ActiveOK, StagedOK
<1>7. f \in Seq(Stored) /\ Len(f) = n
  <2>1. \A j \in 1..n : stagedAt(ch, lastOf(ev).seq + j) \in Stored
    BY <1>6 DEF Stored
  <2> QED
    BY <1>1, <2>1
<1>8. dr.events = ev \o f /\ dr.state = ChainActive /\ dr.staged = rest
  BY DEF drainStaged, ActiveOK, Chain
<1> HIDE DEF f, n
<1>9. /\ ev \o f \in Seq(Stored) /\ Len(ev \o f) = L + n
      /\ \A i \in 1..L : (ev \o f)[i] = ev[i]
      /\ \A i \in L + 1 .. L + n : (ev \o f)[i] = f[i - L]
  BY <1>1, <1>2, <1>7
<1>a. \A i \in 1..L :
        /\ ev[i] \in Records /\ ev[i].seq = i - 1 /\ ev[i].chain = did /\ Passed(ev[i])
        /\ ev[i].prev = IF i = 1 THEN GenesisPrev ELSE ev[i - 1].id
  BY DEF ActiveOK, Linear
<1>b. dr \in Chain
  BY <1>9 DEF drainStaged, ActiveOK, Chain, f, n
<1>10. Linear(did, ev \o f)
  <2> SUFFICES ASSUME NEW i \in 1..L + n
               PROVE  LET r == (ev \o f)[i]
                      IN  /\ r \in Records /\ r.seq = i - 1 /\ r.chain = did /\ Passed(r)
                          /\ r.prev = IF i = 1 THEN GenesisPrev ELSE (ev \o f)[i - 1].id
    BY <1>9 DEF Linear
  <2>1. CASE i \in 1..L
    <3>a. i # 1 => i - 1 \in 1..L
      BY <1>2, <2>1
    <3>1. (ev \o f)[i] = ev[i] /\ (i # 1 => (ev \o f)[i - 1] = ev[i - 1])
      BY <1>9, <2>1, <3>a
    <3>2. CASE i = 1
      BY <1>a, <2>1, <3>1, <3>2
    <3>3. CASE i # 1
      BY <1>a, <2>1, <3>1, <3>3
    <3> QED
      BY <3>2, <3>3
  <2>2. CASE i \in L + 1 .. L + n
    <3>1. (ev \o f)[i] = f[i - L] /\ i - L \in 1..n /\ i # 1
      BY <1>1, <1>2, <1>9, <2>2
    <3>2. f[i - L] \in Records /\ Passed(f[i - L]) /\ f[i - L].chain = did
      BY <1>4, <1>6, <3>1 DEF ActiveOK, StagedOK
    <3>3. f[i - L].seq = i - 1
      BY <1>1, <1>2, <1>4, <2>2, <3>1
    <3>4. f[i - L].prev = (ev \o f)[i - 1].id
      <4>1. CASE i - L = 1
        <5>1. i - 1 = L /\ 1 \in 1..n /\ f[i - L] = f[1]
          BY <1>1, <1>2, <2>2, <3>1, <4>1
        <5>2. (ev \o f)[i - 1] = ev[L]
          BY <1>3, <1>9, <5>1
        <5> QED
          BY <1>5, <5>1, <5>2
      <4>2. CASE i - L # 1
        <5>1. i - 1 \in L + 1 .. L + n /\ (i - 1) - L = (i - L) - 1
          BY <1>1, <1>2, <2>2, <4>2
        <5> QED
          BY <1>5, <1>9, <3>1, <4>2, <5>1
      <4> QED
        BY <4>1, <4>2
    <3> QED
      BY <3>1, <3>2, <3>3, <3>4
  <2>3. i \in 1..L \/ i \in L + 1 .. L + n
    BY <1>1, <1>2
  <2> QED
    BY <2>1, <2>2, <2>3
<1>11. StagedOK(did, rest)
  BY StagedSubset DEF ActiveOK
<1>12. \A x \in rest : x.seq >= Len(ev \o f) - 1 + 2
  <2>1. TAKE x \in rest
  <2>2. x.seq \in Nat /\ x.seq >= L
    BY <1>2, RecordFacts DEF ActiveOK, StagedOK
  <2>3. x.seq \notin L .. L + n
    <3>1. lastOf(ev).seq + 1 = L /\ lastOf(ev).seq + n + 1 = L + n
      BY <1>1, <1>2, <1>3
    <3> QED
      BY <3>1
  <2> QED
    BY <1>1, <1>2, <1>9, <2>2, <2>3
<1>13. ev \o f # <<>>
  BY <1>1, <1>2, <1>9
<1>14. ActiveOK(did, dr, 2)
  BY <1>8, <1>b, <1>10, <1>11, <1>12, <1>13 DEF ActiveOK
<1> QED
  BY <1>1, <1>2, <1>8, <1>9, <1>14 DEF Prefix

-----------------------------------------------------------------------------
(* Append: one lemma per way it changes a chain. *)

\* The head of an active chain is its last event.
LEMMA HeadFacts ==
  ASSUME NEW did, NEW ch, NEW gap, ActiveOK(did, ch, gap)
  PROVE  /\ ch.events \in Seq(Stored) /\ Len(ch.events) \in Nat /\ Len(ch.events) >= 1
         /\ lastOf(ch.events) = ch.events[Len(ch.events)]
         /\ lastOf(ch.events).seq = Len(ch.events) - 1
<1>1. ch.events \in Seq(Stored) /\ Len(ch.events) \in Nat /\ Len(ch.events) >= 1
  BY DEF ActiveOK, Linear
<1>2. Len(ch.events) \in 1..Len(ch.events)
  BY <1>1
<1> QED
  BY <1>1, <1>2 DEF ActiveOK, Linear, lastOf

\* A record that links to the head.
LEMMA ExtendOK ==
  ASSUME NEW did, NEW ch, ActiveOK(did, ch, 2), NEW r \in Records, Passed(r), r.chain = did,
         r.seq = lastOf(ch.events).seq + 1, r.prev = lastOf(ch.events).id
  PROVE  LET new == [ch EXCEPT !.events = Append(@, r)]
         IN  ActiveOK(did, new, 1) /\ Prefix(ch.events, new.events)
<1> DEFINE ev == ch.events
           L == Len(ev)
           new == [ch EXCEPT !.events = Append(@, r)]
<1>1. ev \in Seq(Stored) /\ L \in Nat /\ L >= 1 /\ lastOf(ev) = ev[L] /\ lastOf(ev).seq = L - 1
  BY HeadFacts
<1>2. r \in Stored
  BY DEF Stored
<1>3. /\ Append(ev, r) \in Seq(Stored) /\ Len(Append(ev, r)) = L + 1
      /\ \A i \in 1..L : Append(ev, r)[i] = ev[i]
      /\ Append(ev, r)[L + 1] = r
  BY <1>1, <1>2
<1>4. new \in Chain /\ new.events = Append(ev, r) /\ new.state = ChainActive /\ new.staged = ch.staged
  BY <1>3 DEF ActiveOK, Chain
<1>5. r.seq = L
  BY <1>1
<1>6. \A i \in 1..L :
        /\ ev[i] \in Records /\ ev[i].seq = i - 1 /\ ev[i].chain = did /\ Passed(ev[i])
        /\ ev[i].prev = IF i = 1 THEN GenesisPrev ELSE ev[i - 1].id
  BY DEF ActiveOK, Linear
<1>7. Linear(did, Append(ev, r))
  <2> SUFFICES ASSUME NEW i \in 1..L + 1
               PROVE  LET x == Append(ev, r)[i]
                      IN  /\ x \in Records /\ x.seq = i - 1 /\ x.chain = did /\ Passed(x)
                          /\ x.prev = IF i = 1 THEN GenesisPrev ELSE Append(ev, r)[i - 1].id
    BY <1>3 DEF Linear
  <2>1. CASE i \in 1..L
    <3>1. i # 1 => i - 1 \in 1..L
      BY <1>1, <2>1
    <3>2. Append(ev, r)[i] = ev[i] /\ (i # 1 => Append(ev, r)[i - 1] = ev[i - 1])
      BY <1>3, <2>1, <3>1
    <3>3. CASE i = 1
      BY <1>6, <2>1, <3>2, <3>3
    <3>4. CASE i # 1
      BY <1>6, <2>1, <3>2, <3>4
    <3> QED
      BY <3>3, <3>4
  <2>2. CASE i = L + 1
    <3>1. i # 1 /\ i - 1 = L /\ L \in 1..L
      BY <1>1, <2>2
    <3> QED
      BY <1>1, <1>3, <1>5, <2>2, <3>1
  <2>3. i \in 1..L \/ i = L + 1
    BY <1>1
  <2> QED
    BY <2>1, <2>2, <2>3
<1>8. \A x \in ch.staged : x.seq >= (L + 1) - 1 + 1
  <2>1. TAKE x \in ch.staged
  <2>2. x.seq \in Nat /\ x.seq >= L - 1 + 2
    BY RecordFacts DEF ActiveOK, StagedOK
  <2> QED
    BY <1>1, <2>2
<1>9. Append(ev, r) # <<>>
  BY <1>1, <1>3
<1>10. ActiveOK(did, new, 1)
  BY <1>3, <1>4, <1>7, <1>8, <1>9 DEF ActiveOK
<1>11. Prefix(ev, Append(ev, r))
  BY <1>1, <1>3 DEF Prefix
<1> QED
  BY <1>4, <1>10, <1>11

\* A record ahead of the next seq, while there is room.
LEMMA StageOK ==
  ASSUME NEW did, NEW ch, ActiveOK(did, ch, 2), NEW r \in Records, Passed(r), r.chain = did,
         r.seq > lastOf(ch.events).seq + 1, ~(Cardinality(ch.staged) >= ImportBufferCap)
  PROVE  LET new == [ch EXCEPT !.staged = {x \in @ : x.seq # r.seq} \cup {r}]
         IN  ActiveOK(did, new, 2) /\ new.events = ch.events
<1> DEFINE st == ch.staged
           sub == {x \in st : x.seq # r.seq}
           new == [ch EXCEPT !.staged = {x \in @ : x.seq # r.seq} \cup {r}]
<1>1. StagedOK(did, st) /\ ch \in Chain
  BY DEF ActiveOK
<1>2. IsFiniteSet(sub) /\ Cardinality(sub) <= Cardinality(st) /\ IsFiniteSet(st)
  BY <1>1, FS_Subset DEF StagedOK
<1>3. Cardinality(sub) \in Nat /\ Cardinality(st) \in Nat
  BY <1>2, FS_CardinalityType
<1>4. IsFiniteSet(sub \cup {r}) /\ Cardinality(sub \cup {r}) <= Cardinality(sub) + 1
  <2>1. IsFiniteSet(sub \cup {r}) /\
        (Cardinality(sub \cup {r}) = IF r \in sub THEN Cardinality(sub) ELSE Cardinality(sub) + 1)
    BY <1>2, FS_AddElement
  <2> QED
    BY <1>3, <2>1
<1>5. Cardinality(sub \cup {r}) <= ImportBufferCap
  <2>1. Cardinality(sub \cup {r}) \in Nat
    BY <1>4, FS_CardinalityType
  <2> QED
    BY <1>2, <1>3, <1>4, <2>1, CapAssumption
<1>6. r.seq \in Nat /\ \A x \in st : x.seq \in Nat
  BY <1>1, RecordFacts DEF StagedOK
<1>7. \E b \in Nat : \A x \in sub \cup {r} : x.seq <= b
  <2>1. PICK b \in Nat : \A x \in st : x.seq <= b
    BY <1>1 DEF StagedOK
  <2>2. \A x \in sub \cup {r} : x.seq <= b + r.seq
    BY <1>6, <2>1
  <2>3. b + r.seq \in Nat
    BY <1>6
  <2> QED
    BY <2>2, <2>3
<1>8. \A x, y \in sub \cup {r} : x.seq = y.seq => x = y
  BY <1>1 DEF StagedOK
<1>9. StagedOK(did, sub \cup {r})
  BY <1>1, <1>4, <1>5, <1>7, <1>8 DEF StagedOK
<1>10. /\ new.events = ch.events /\ new.state = ChainActive /\ new.staged = sub \cup {r}
       /\ new \in Chain
  BY <1>1 DEF ActiveOK, Chain, StagedOK
<1>11. \A x \in sub \cup {r} : x.seq >= Len(ch.events) - 1 + 2
  <2>1. lastOf(ch.events).seq = Len(ch.events) - 1 /\ Len(ch.events) \in Nat
    BY HeadFacts
  <2>2. r.seq >= Len(ch.events) - 1 + 2
    BY <1>6, <2>1
  <2> QED
    BY <2>2 DEF ActiveOK
<1> QED
  BY <1>9, <1>10, <1>11 DEF ActiveOK

\* A second record at a seq the chain holds.
LEMMA QuarantineOK ==
  ASSUME NEW did, NEW ch, ActiveOK(did, ch, 2), NEW r \in Records, Passed(r), r.chain = did,
         r.seq <= lastOf(ch.events).seq, ch.events[r.seq + 1].id # r.id
  PROVE  LET new == quarantine(ch, ch.events[r.seq + 1], r)
         IN  /\ QuarantinedOK(did, new)
             /\ Prefix(ch.events, new.events)
             /\ SubSeq(new.events, 1, Len(new.events) - 2) = ch.events
             /\ new.staged = ch.staged
<1> DEFINE ev == ch.events
           L == Len(ev)
           ex == ev[r.seq + 1]
           an == forkAnchor(ex, r)
           new == quarantine(ch, ex, r)
<1>1. ev \in Seq(Stored) /\ L \in Nat /\ L >= 1 /\ lastOf(ev).seq = L - 1
  BY HeadFacts
<1>2. r.seq \in Nat /\ r.seq + 1 \in 1..L
  BY <1>1, RecordFacts
<1>3. ex \in Records /\ ex.seq = r.seq
  <2>1. ex.seq = (r.seq + 1) - 1
    BY <1>2 DEF ActiveOK, Linear
  <2> QED
    BY <1>2, <2>1 DEF ActiveOK, Linear
<1>4. r \in Stored /\ an \in Stored
  BY <1>3 DEF Stored
<1>5. an.type = EvForkDetected /\ an.seq = r.seq /\ an.chain = did /\ ~an.ok
  BY <1>3 DEF forkAnchor
<1> HIDE DEF an
<1> DEFINE two == <<r, an>>
<1>6. two \in Seq(Stored) /\ Len(two) = 2 /\ two[1] = r /\ two[2] = an
  BY <1>4
<1> HIDE DEF two
<1>7. /\ ev \o two \in Seq(Stored) /\ Len(ev \o two) = L + 2
      /\ \A i \in 1..L : (ev \o two)[i] = ev[i]
      /\ (ev \o two)[L + 1] = r /\ (ev \o two)[L + 2] = an
  <2>1. /\ ev \o two \in Seq(Stored) /\ Len(ev \o two) = L + Len(two)
        /\ \A i \in 1 .. L + Len(two) :
             (ev \o two)[i] = IF i <= L THEN ev[i] ELSE two[i - L]
    <3> HIDE DEF ev
    <3> QED
      BY <1>1, <1>6, ConcatProperties, Zenon
  <2>2. L + 1 \in 1 .. L + Len(two) /\ ~(L + 1 <= L) /\ (L + 1) - L = 1
    BY <1>1, <1>6
  <2>3. L + 2 \in 1 .. L + Len(two) /\ ~(L + 2 <= L) /\ (L + 2) - L = 2
    BY <1>1, <1>6
  <2>4. (ev \o two)[L + 1] = r
    BY <1>6, <2>1, <2>2
  <2>5. (ev \o two)[L + 2] = an
    BY <1>6, <2>1, <2>3
  <2>6. \A i \in 1..L : i \in 1 .. L + Len(two) /\ i <= L
    BY <1>1, <1>6
  <2> QED
    BY <1>6, <2>1, <2>4, <2>5, <2>6
<1>8. SubSeq(ev \o two, 1, L) = ev
  BY <1>1, <1>6, SubSeqOfConcat1, SubSeqFull
<1>9. new.events = ev \o two /\ new.state = ChainQuarantined /\ new.staged = ch.staged
      /\ new \in Chain
  BY <1>7 DEF quarantine, two, an, ActiveOK, Chain
<1>10. (ev \o two)[r.seq + 1] = ex
  BY <1>2, <1>7
<1>11. Prefix(ev, ev \o two)
  BY <1>1, <1>7 DEF Prefix
<1>12. Len(new.events) - 2 = L /\ Len(new.events) - 1 = L + 1 /\ Len(new.events) - 3 = L - 1
       /\ Len(new.events) = L + 2 /\ Len(new.events) >= 3 /\ r.seq \in 0..L - 1
  BY <1>1, <1>2, <1>7, <1>9
<1>13. Linear(did, ev) /\ StagedOK(did, ch.staged)
  BY DEF ActiveOK
<1> HIDE DEF new, ex, L
<1>14. QuarantinedOK(did, new)
  <2>1. Linear(did, SubSeq(new.events, 1, Len(new.events) - 2)) /\ StagedOK(did, new.staged)
    BY <1>8, <1>9, <1>12, <1>13
  <2>2. new.events[Len(new.events) - 1] = r /\ new.events[Len(new.events)] = an
    BY <1>7, <1>9, <1>12
  <2>3. new.events[r.seq + 1].id # r.id
    BY <1>9, <1>10 DEF ex
  <2>4. r.seq \in 0 .. Len(new.events) - 3
    BY <1>12
  <2> QED
    BY <1>5, <1>9, <1>12, <2>1, <2>2, <2>3, <2>4 DEF QuarantinedOK
<1>15. SubSeq(new.events, 1, Len(new.events) - 2) = ev
  BY <1>8, <1>9, <1>12
<1> QED
  BY <1>9, <1>11, <1>14, <1>15 DEF new, ex

\* What an Append may do to a chain, whatever its outcome a.
StepOK(did, ch, a) ==
  /\ ChainOK(did, a.chain)
  /\ Prefix(ch.events, a.chain.events)
  /\ Prefix(linear(ch), linear(a.chain))
  /\ ch.state = ChainQuarantined => a.chain = ch
  /\ a.err # None => a.chain = ch \/ a.chain.state = ChainQuarantined
  /\ Cardinality(a.chain.staged) > Cardinality(ch.staged) => a.chain.events = ch.events

\* A sequence extends itself.
LEMMA PrefixSelf ==
  ASSUME NEW S, NEW s \in Seq(S)
  PROVE  Prefix(s, s)
  BY DEF Prefix

\* A refused record, or one the chain already holds.
LEMMA StutterOK ==
  ASSUME NEW did, NEW ch, ChainOK(did, ch), NEW err
  PROVE  StepOK(did, ch, Result(ch, err))
<1>1. ch.events \in Seq(Stored) /\ linear(ch) \in Seq(Stored)
  <2>1. CASE ch = NoChain
    <3>1. ch.events = <<>> /\ ch.state # ChainQuarantined
      BY <2>1 DEF NoChain, ChainQuarantined
    <3> QED
      BY <3>1 DEF linear
  <2>2. CASE ActiveOK(did, ch, 2)
    BY <2>2 DEF ActiveOK, Linear, linear, ChainActive, ChainQuarantined
  <2>3. CASE QuarantinedOK(did, ch)
    <3>1. linear(ch) = SubSeq(ch.events, 1, Len(ch.events) - 2) /\ ch.events \in Seq(Stored)
      BY <2>3 DEF QuarantinedOK, linear, Chain
    <3>2. Linear(did, SubSeq(ch.events, 1, Len(ch.events) - 2))
      BY <2>3 DEF QuarantinedOK
    <3> QED
      BY <3>1, <3>2 DEF Linear
  <2> QED
    BY <2>1, <2>2, <2>3 DEF ChainOK
<1>2. Prefix(ch.events, ch.events) /\ Prefix(linear(ch), linear(ch))
  BY <1>1, PrefixSelf
<1> QED
  BY <1>2 DEF StepOK, Result

\* The first record of a chain.
LEMMA GenesisOK ==
  ASSUME NEW did, NEW r \in Records, Passed(r), r.chain = did, r.seq = 0, r.prev = GenesisPrev
  PROVE  StepOK(did, NoChain, Result([events |-> <<r>>, state |-> ChainActive, staged |-> {}], None))
<1> DEFINE ch == [events |-> <<r>>, state |-> ChainActive, staged |-> {}]
           one == <<r>>
<1>1. r \in Stored
  BY DEF Stored
<1>2. one \in Seq(Stored) /\ Len(one) = 1 /\ one[1] = r /\ one # <<>>
  BY <1>1
<1>3. Linear(did, one)
  <2>1. \A i \in 1..Len(one) : i = 1
    BY <1>2
  <2> HIDE DEF one
  <2> QED
    BY <1>2, <2>1 DEF Linear
<1>4. IsFiniteSet({}) /\ Cardinality({}) = 0
  BY FS_EmptySet
<1>5. StagedOK(did, {})
  BY <1>4, CapAssumption DEF StagedOK
<1>6. ActiveOK(did, ch, 2)
  BY <1>2, <1>3, <1>5 DEF ActiveOK, Chain
<1>7. NoChain.events = <<>> /\ linear(NoChain) = <<>> /\ NoChain.staged = {} /\ NoChain.state = ""
  BY DEF NoChain, linear, ChainQuarantined
<1>8. \A t \in Seq(Stored) : Prefix(<<>>, t)
  BY DEF Prefix
<1>9. linear(ch) = one
  BY DEF linear, ChainActive, ChainQuarantined
<1>10. Result(ch, None).chain = ch /\ Result(ch, None).err = None
  BY DEF Result
<1> HIDE DEF one
<1>11. ch.events = one /\ ch.staged = {}
  BY DEF one
<1> HIDE DEF ch
<1>12. ~(Cardinality(ch.staged) > Cardinality(NoChain.staged))
  <2>1. Cardinality(ch.staged) = 0 /\ Cardinality(NoChain.staged) = 0
    BY <1>4, <1>7, <1>11, Zenon
  <2> QED
    BY <2>1
<1>13. Prefix(NoChain.events, ch.events) /\ Prefix(linear(NoChain), linear(ch))
  BY <1>2, <1>7, <1>8, <1>9, <1>11
<1>14. NoChain.state # ChainQuarantined
  BY <1>7 DEF ChainQuarantined
<1>15. StepOK(did, NoChain, Result(ch, None))
  BY <1>6, <1>10, <1>12, <1>13, <1>14 DEF StepOK, ChainOK
<1> QED
  BY <1>15 DEF ch, one

\* A part of the staging buffer is no larger.
LEMMA StagedCard ==
  ASSUME NEW did, NEW st, StagedOK(did, st), NEW sub \in SUBSET st
  PROVE  ~(Cardinality(sub) > Cardinality(st))
<1>1. IsFiniteSet(sub) /\ Cardinality(sub) <= Cardinality(st)
  BY FS_Subset DEF StagedOK
<1>2. Cardinality(sub) \in Nat /\ Cardinality(st) \in Nat
  BY <1>1, FS_CardinalityType DEF StagedOK
<1> QED
  BY <1>1, <1>2

\* A verified record offered to an active chain (appendToChain).
LEMMA AppendToChainOK ==
  ASSUME NEW did, NEW ch, ActiveOK(did, ch, 2), NEW r \in Records, Passed(r), r.chain = did
  PROVE  StepOK(did, ch, appendToChain(ch, r))
<1> DEFINE head == lastOf(ch.events)
           a == appendToChain(ch, r)
<1>1. ChainOK(did, ch) /\ ch.state # ChainQuarantined /\ linear(ch) = ch.events
  BY DEF ChainOK, ActiveOK, linear, ChainActive, ChainQuarantined
<1>2. ch.events \in Seq(Stored) /\ Prefix(ch.events, ch.events)
  BY HeadFacts, PrefixSelf
<1>3. r.seq \in Nat /\ head.seq \in Nat
  BY RecordFacts, HeadFacts
<1>4. \A err : StepOK(did, ch, Result(ch, err))
  BY <1>1, StutterOK
<1>5. CASE r.seq <= head.seq
  <2> DEFINE ex == ch.events[r.seq + 1]
             new == quarantine(ch, ex, r)
  <2>1. CASE ex.id # r.id
    <3>1. a = Result(new, "EQUIVOCATION")
      BY <1>5, <2>1 DEF appendToChain
    <3>2. /\ QuarantinedOK(did, new) /\ Prefix(ch.events, new.events)
          /\ SubSeq(new.events, 1, Len(new.events) - 2) = ch.events
          /\ new.staged = ch.staged
      BY <1>5, <2>1, QuarantineOK
    <3>3. a.chain = new
      BY <3>1 DEF Result
    <3> HIDE DEF new, a
    <3>4. new.state = ChainQuarantined /\ linear(new) = ch.events
      BY <3>2 DEF QuarantinedOK, linear
    <3>5. ~(Cardinality(new.staged) > Cardinality(ch.staged))
      BY <3>2, StagedCard DEF ActiveOK
    <3>6. StepOK(did, ch, a)
      BY <1>1, <1>2, <3>2, <3>3, <3>4, <3>5 DEF StepOK, ChainOK
    <3> QED
      BY <3>6 DEF a
  <2>2. CASE ex.id = r.id
    BY <1>4, <1>5, <2>2 DEF appendToChain
  <2> QED
    BY <2>1, <2>2
<1>6. CASE r.seq = head.seq + 1
  <2>0. ~(r.seq <= head.seq)
    BY <1>3, <1>6
  <2>1. CASE r.prev # head.id
    BY <1>4, <1>6, <2>0, <2>1 DEF appendToChain
  <2>2. CASE r.prev = head.id
    <3> DEFINE mid == [ch EXCEPT !.events = Append(@, r)]
               new == drainStaged(mid)
    <3>1. a = Result(new, None)
      BY <1>6, <2>0, <2>2 DEF appendToChain
    <3>2. ActiveOK(did, mid, 1) /\ Prefix(ch.events, mid.events)
      BY <1>6, <2>2, ExtendOK
    <3>3. mid.staged = ch.staged
      BY DEF ActiveOK, Chain
    <3> HIDE DEF mid
    <3>4. ActiveOK(did, new, 2) /\ Prefix(mid.events, new.events)
      BY <3>2, DrainOK
    <3>5. new.staged \in SUBSET ch.staged
      <4>1. new.staged \in SUBSET mid.staged
        BY <3>2 DEF drainStaged, ActiveOK, Chain
      <4> QED
        BY <3>3, <4>1
    <3>6. ~(Cardinality(new.staged) > Cardinality(ch.staged))
      BY <3>5, StagedCard DEF ActiveOK
    <3>7. a.chain = new /\ a.err = None
      BY <3>1 DEF Result
    <3> HIDE DEF new, a
    <3>8. new.state # ChainQuarantined /\ linear(new) = new.events
      BY <3>4 DEF ActiveOK, linear, ChainActive, ChainQuarantined
    <3>9. Prefix(ch.events, new.events)
      <4>1. Len(ch.events) \in Nat /\ Len(mid.events) \in Nat /\ Len(new.events) \in Nat
        BY <3>2, <3>4, HeadFacts
      <4> QED
        BY <3>2, <3>4, <4>1 DEF Prefix
    <3>10. StepOK(did, ch, a)
      BY <1>1, <3>4, <3>6, <3>7, <3>8, <3>9 DEF StepOK, ChainOK
    <3> QED
      BY <3>10 DEF a
  <2> QED
    BY <2>1, <2>2
<1>7. CASE r.seq > head.seq + 1
  <2>0. ~(r.seq <= head.seq) /\ r.seq # head.seq + 1
    BY <1>3, <1>7
  <2>1. CASE \E x \in ch.staged : x.seq = r.seq /\ x.id = r.id
    BY <1>4, <2>0, <2>1 DEF appendToChain
  <2>2. CASE ~(\E x \in ch.staged : x.seq = r.seq /\ x.id = r.id)
    <3>1. CASE Cardinality(ch.staged) >= ImportBufferCap
      BY <1>4, <2>0, <2>2, <3>1 DEF appendToChain
    <3>2. CASE ~(Cardinality(ch.staged) >= ImportBufferCap)
      <4> DEFINE new == [ch EXCEPT !.staged = {x \in @ : x.seq # r.seq} \cup {r}]
      <4>1. a = Result(new, None)
        BY <2>0, <2>2, <3>2 DEF appendToChain
      <4>2. ActiveOK(did, new, 2) /\ new.events = ch.events
        BY <1>7, <3>2, StageOK
      <4>3. a.chain = new /\ a.err = None
        BY <4>1 DEF Result
      <4> HIDE DEF new, a
      <4>4. new.state # ChainQuarantined /\ linear(new) = new.events
        BY <4>2 DEF ActiveOK, linear, ChainActive, ChainQuarantined
      <4>5. StepOK(did, ch, a)
        BY <1>1, <1>2, <4>2, <4>3, <4>4 DEF StepOK, ChainOK
      <4> QED
        BY <4>5 DEF a
    <3> QED
      BY <3>1, <3>2
  <2> QED
    BY <2>1, <2>2
<1>8. r.seq <= head.seq \/ r.seq = head.seq + 1 \/ r.seq > head.seq + 1
  BY <1>3
<1> QED
  BY <1>5, <1>6, <1>7, <1>8

\* Append takes a well-formed chain to a well-formed chain that extends it.
LEMMA AppendOK ==
  ASSUME NEW did, NEW ch, ChainOK(did, ch), NEW r \in Stored, r.chain = did
  PROVE  StepOK(did, ch, appendRecord(ch, r))
<1>1. \A err : StepOK(did, ch, Result(ch, err))
  BY StutterOK
<1>2. CASE ch.state = ChainQuarantined \/ ~Passed(r)
  BY <1>1, <1>2 DEF appendRecord, Passed
<1>3. CASE ~(ch.state = ChainQuarantined \/ ~Passed(r))
  <2>1. r \in Records
    <3>1. \A x, y : forkAnchor(x, y).ok = FALSE
      BY DEF forkAnchor
    <3> QED
      BY <1>3, <3>1 DEF Stored, Passed, Verify
  <2>2. CASE ch = NoChain
    <3>1. ch.events = <<>>
      BY <2>2 DEF NoChain
    <3>2. CASE r.seq # 0 \/ r.prev # GenesisPrev
      BY <1>1, <1>3, <3>1, <3>2 DEF appendRecord, Passed
    <3>3. CASE r.seq = 0 /\ r.prev = GenesisPrev
      <4>1. appendRecord(ch, r) =
              Result([events |-> <<r>>, state |-> ChainActive, staged |-> {}], None)
        BY <1>3, <3>1, <3>3 DEF appendRecord, Passed
      <4> QED
        BY <1>3, <2>1, <2>2, <3>3, <4>1, GenesisOK
    <3> QED
      BY <3>2, <3>3
  <2>3. CASE ActiveOK(did, ch, 2)
    <3>1. appendRecord(ch, r) = appendToChain(ch, r)
      BY <1>3, <2>3 DEF appendRecord, Passed, ActiveOK
    <3> QED
      BY <1>3, <2>1, <2>3, <3>1, AppendToChainOK
  <2>4. ~QuarantinedOK(did, ch)
    BY <1>3 DEF QuarantinedOK
  <2> QED
    BY <2>2, <2>3, <2>4 DEF ChainOK
<1> QED
  BY <1>2, <1>3

-----------------------------------------------------------------------------
(* The inductive invariant. *)

ErrorCodes ==
  {None, "CHAIN_QUARANTINED", "VERSION_UNSUPPORTED", "UNVERIFIED", "BAD_GENESIS_PREV",
   "EQUIVOCATION", "PREV_LINK_BROKEN", "IMPORT_BUFFER_FULL"}

\* Append answers with one of its errors, or none.
LEMMA AppendErr ==
  ASSUME NEW ch, NEW r
  PROVE  appendRecord(ch, r).err \in ErrorCodes
<1>1. appendToChain(ch, r).err \in ErrorCodes
  BY DEF appendToChain, Result, ErrorCodes
<1> QED
  BY <1>1 DEF appendRecord, Result, ErrorCodes

ResultType == [applied : Nat, staged : Nat, dups : Nat]

ImportType ==
  [did : Chains, recs : Seq(Stored), from : Nat, i : Nat, err : ErrorCodes, start : Nat,
   res : ResultType]

ImportOK(im, ch) ==
  /\ im \in ImportType
  /\ im.i \in 1..Len(im.recs) + 1
  /\ \A k \in 1..Len(im.recs) : im.recs[k].chain = im.did
  /\ ch.state # ChainQuarantined => Len(ch.events) = im.start + im.res.applied

AttestationOK(a, ch) ==
  a.state = ChainActive =>
    /\ a.seq \in Nat /\ a.seq + 1 \in 1..Len(linear(ch))
    /\ linear(ch)[a.seq + 1].id = a.id

Inv ==
  /\ led \in [Replicas -> [Chains -> Chain]]
  /\ imp \in [Replicas -> ImportType \cup {None}]
  /\ \A p \in Replicas, did \in Chains : ChainOK(did, led[p][did])
  /\ \A p \in Replicas : imp[p] # None => ImportOK(imp[p], led[p][imp[p].did])
  /\ \A a \in att : /\ a.of \in Replicas /\ a.chain \in Chains
                    /\ AttestationOK(a, led[a.of][a.chain])

\* A chain as the invariant has it is well-typed.
LEMMA ChainType ==
  ASSUME NEW did, NEW ch, ChainOK(did, ch)
  PROVE  ch \in Chain
<1>1. NoChain \in Chain
  BY DEF NoChain, Chain
<1> QED
  BY <1>1 DEF ChainOK, ActiveOK, QuarantinedOK

\* The events of a chain are records of this chain.
LEMMA EventsOfChain ==
  ASSUME NEW did, NEW ch, ChainOK(did, ch)
  PROVE  /\ ch.events \in Seq(Stored)
         /\ \A i \in 1..Len(ch.events) : ch.events[i].chain = did
<1>1. CASE ch = NoChain
  <2>1. ch.events = <<>>
    BY <1>1 DEF NoChain
  <2> QED
    BY <2>1
<1>2. CASE ActiveOK(did, ch, 2)
  BY <1>2 DEF ActiveOK, Linear
<1>3. CASE QuarantinedOK(did, ch)
  <2> DEFINE n == Len(ch.events)
             ev == SubSeq(ch.events, 1, n - 2)
  <2>a. ch \in Chain /\ n >= 3
    BY <1>3 DEF QuarantinedOK
  <2>b. ch.events \in Seq(Stored)
    BY <2>a DEF Chain
  <2>1. ch.events \in Seq(Stored) /\ n \in Nat /\ n >= 3
    BY <2>a, <2>b, LenProperties
  <2>2. /\ ch.events[n - 1].chain = did
        /\ ch.events[n].chain = did
        /\ Linear(did, ev)
    BY <1>3 DEF QuarantinedOK
  <2>3. Len(ev) = n - 2 /\ \A i \in 1..n - 2 : ev[i] = ch.events[i]
    BY <2>1
  <2>4. \A i \in 1..n - 2 : ch.events[i].chain = did
    BY <2>2, <2>3 DEF Linear
  <2>5. \A i \in 1..n : i \in 1..n - 2 \/ i = n - 1 \/ i = n
    BY <2>1
  <2> QED
    BY <2>1, <2>2, <2>4, <2>5
<1> QED
  BY <1>1, <1>2, <1>3 DEF ChainOK

\* An attestation stays true of a chain that only grew.
LEMMA AttestationKept ==
  ASSUME NEW a, NEW ch, NEW new, AttestationOK(a, ch), Prefix(linear(ch), linear(new)),
         Len(linear(ch)) \in Nat, Len(linear(new)) \in Nat
  PROVE  AttestationOK(a, new)
  BY DEF AttestationOK, Prefix

\* The linear part of a chain is linear, quarantined or not.
LEMMA LinearSeq ==
  ASSUME NEW did, NEW ch, ChainOK(did, ch)
  PROVE  Linear(did, linear(ch))
<1>1. CASE ch = NoChain
  <2>1. linear(ch) = <<>>
    BY <1>1 DEF NoChain, linear, ChainQuarantined
  <2>2. linear(ch) \in Seq(Stored) /\ Len(linear(ch)) = 0
    BY <2>1
  <2> QED
    BY <2>2 DEF Linear
<1>2. CASE ActiveOK(did, ch, 2)
  BY <1>2 DEF ActiveOK, linear, ChainActive, ChainQuarantined
<1>3. CASE QuarantinedOK(did, ch)
  BY <1>3 DEF QuarantinedOK, linear
<1> QED
  BY <1>1, <1>2, <1>3 DEF ChainOK

\* The invariant holds at first.
LEMMA InitInv == Init => Inv
<1> SUFFICES ASSUME Init PROVE Inv
  OBVIOUS
<1>1. \A did : ChainOK(did, NoChain) /\ NoChain \in Chain
  BY ChainType DEF ChainOK
<1>2. \A p \in Replicas : imp[p] = None
  BY DEF Init
<1>3. \A p \in Replicas, did \in Chains : led[p][did] = NoChain
  BY DEF Init
<1> QED
  BY <1>1, <1>2, <1>3 DEF Init, Inv

\* One Append at p keeps the ledgers well formed and everything attested.
LEMMA LedStep ==
  ASSUME Inv, NEW p \in Replicas, NEW did \in Chains, NEW r \in Stored, r.chain = did,
         led' = [led EXCEPT ![p][did] = appendRecord(@, r).chain], att' = att
  PROVE  /\ led' \in [Replicas -> [Chains -> Chain]]
         /\ led'[p][did] = appendRecord(led[p][did], r).chain
         /\ StepOK(did, led[p][did], appendRecord(led[p][did], r))
         /\ \A q \in Replicas, d \in Chains : q # p \/ d # did => led'[q][d] = led[q][d]
         /\ \A q \in Replicas, d \in Chains : ChainOK(d, led'[q][d])
         /\ \A a \in att' : /\ a.of \in Replicas /\ a.chain \in Chains
                            /\ AttestationOK(a, led'[a.of][a.chain])
<1> DEFINE new == appendRecord(led[p][did], r).chain
<1>1. StepOK(did, led[p][did], appendRecord(led[p][did], r))
  BY AppendOK DEF Inv
<1>2. ChainOK(did, new) /\ new \in Chain
  BY <1>1, ChainType DEF StepOK
<1>3. led' = [led EXCEPT ![p][did] = new]
  OBVIOUS
<1>4. Prefix(linear(led[p][did]), linear(new))
  BY <1>1 DEF StepOK
<1> HIDE DEF new
<1>5. led' \in [Replicas -> [Chains -> Chain]] /\ led'[p][did] = new
  BY <1>2, <1>3 DEF Inv
<1>6. \A q \in Replicas, d \in Chains : q # p \/ d # did => led'[q][d] = led[q][d]
  BY <1>3 DEF Inv
<1>7. \A q \in Replicas, d \in Chains : ChainOK(d, led'[q][d])
  BY <1>2, <1>5, <1>6 DEF Inv
<1>8. \A a \in att' : a.of \in Replicas /\ a.chain \in Chains /\ AttestationOK(a, led'[a.of][a.chain])
  <2>1. SUFFICES ASSUME NEW a \in att
                 PROVE  a.of \in Replicas /\ a.chain \in Chains /\ AttestationOK(a, led'[a.of][a.chain])
    OBVIOUS
  <2>2. a.of \in Replicas /\ a.chain \in Chains /\ AttestationOK(a, led[a.of][a.chain])
    BY DEF Inv
  <2>3. CASE a.of = p /\ a.chain = did
    <3>1. Linear(did, linear(new)) /\ Linear(did, linear(led[p][did]))
      BY <1>2, LinearSeq DEF Inv
    <3>2. Len(linear(new)) \in Nat /\ Len(linear(led[p][did])) \in Nat
      BY <3>1 DEF Linear
    <3> QED
      BY <1>4, <1>5, <2>2, <2>3, <3>2, AttestationKept
  <2>4. CASE a.of # p \/ a.chain # did
    BY <1>6, <2>2, <2>4
  <2> QED
    BY <2>2, <2>3, <2>4
<1> QED
  BY <1>1, <1>5, <1>6, <1>7, <1>8 DEF new

\* A record arrives.
LEMMA DeliverInv ==
  ASSUME Inv, NEW p \in Replicas, NEW r \in Records, Deliver(p, r)
  PROVE  Inv'
<1>1. r \in Stored /\ r.chain \in Chains
  BY RecordFacts DEF Stored
<1>2. led' = [led EXCEPT ![p][r.chain] = appendRecord(@, r).chain] /\ att' = att /\ imp' = imp
      /\ imp[p] = None
  BY DEF Deliver
<1>3. /\ led' \in [Replicas -> [Chains -> Chain]]
      /\ \A q \in Replicas, d \in Chains : q # p \/ d # r.chain => led'[q][d] = led[q][d]
      /\ \A q \in Replicas, d \in Chains : ChainOK(d, led'[q][d])
      /\ \A a \in att' : /\ a.of \in Replicas /\ a.chain \in Chains
                         /\ AttestationOK(a, led'[a.of][a.chain])
  BY <1>1, <1>2, LedStep
<1>4. \A q \in Replicas : imp'[q] # None => ImportOK(imp'[q], led'[q][imp'[q].did])
  <2> SUFFICES ASSUME NEW q \in Replicas, imp[q] # None
               PROVE  ImportOK(imp[q], led'[q][imp[q].did])
    BY <1>2
  <2>1. ImportOK(imp[q], led[q][imp[q].did])
    BY DEF Inv
  <2>2. imp[q].did \in Chains
    BY <2>1 DEF ImportOK, ImportType
  <2> QED
    BY <1>2, <1>3, <2>1, <2>2
<1> QED
  BY <1>2, <1>3, <1>4 DEF Inv

\* An import starts.
LEMMA ImportBeginInv ==
  ASSUME Inv, NEW p \in Replicas, NEW q \in Replicas, NEW did \in Chains, ImportBegin(p, q, did)
  PROVE  Inv'
<1> DEFINE src == led[q][did].events
<1>1. PICK k \in 1..Len(src) :
        /\ imp[p] = None
        /\ imp' = [imp EXCEPT ![p] = Import(did, SubSeq(src, k, Len(src)), k, Len(led[p][did].events))]
        /\ led' = led /\ att' = att
  BY DEF ImportBegin
<1>2. src \in Seq(Stored) /\ \A i \in 1..Len(src) : src[i].chain = did
  BY EventsOfChain DEF Inv
<1>3. led[p][did].events \in Seq(Stored)
  BY EventsOfChain DEF Inv
<1> DEFINE recs == SubSeq(src, k, Len(src))
           im == Import(did, recs, k, Len(led[p][did].events))
<1> HIDE DEF src
<1>4. recs \in Seq(Stored) /\ Len(recs) = Len(src) - k + 1
      /\ \A i \in 1..Len(recs) : recs[i] = src[k + i - 1]
  BY <1>2
<1>5. \A i \in 1..Len(recs) : recs[i].chain = did
  <2> TAKE i \in 1..Len(recs)
  <2>1. k + i - 1 \in 1..Len(src)
    BY <1>2, <1>4
  <2> QED
    BY <1>2, <1>4, <2>1
<1> HIDE DEF recs
<1>6. Len(recs) \in Nat /\ 1 \in 1..Len(recs) + 1 /\ k \in Nat /\ Len(led[p][did].events) \in Nat
  BY <1>2, <1>3, <1>4
<1>7. im \in ImportType /\ im.did = did /\ im.recs = recs /\ im.i = 1
      /\ im.start = Len(led[p][did].events) /\ im.res.applied = 0
  BY <1>4, <1>6 DEF Import, ImportType, ErrorCodes, ResultType
<1> HIDE DEF im
<1>8. ImportOK(im, led[p][did])
  BY <1>5, <1>6, <1>7 DEF ImportOK
<1>9. imp' = [imp EXCEPT ![p] = im]
  BY <1>1 DEF im, recs
<1>10. imp' \in [Replicas -> ImportType \cup {None}]
  BY <1>7, <1>9 DEF Inv
<1>11. \A s \in Replicas : imp'[s] # None => ImportOK(imp'[s], led'[s][imp'[s].did])
  BY <1>1, <1>7, <1>8, <1>9 DEF Inv
<1> QED
  BY <1>1, <1>10, <1>11 DEF Inv

\* ImportBatch counts one record: what it reports of the batch so far.
LEMMA DispositionOK ==
  ASSUME NEW res \in ResultType, NEW before, NEW after,
         Len(before.events) \in Nat, Len(after.events) \in Nat,
         Len(after.events) >= Len(before.events),
         Cardinality(after.staged) > Cardinality(before.staged) => after.events = before.events
  PROVE  /\ disposition(res, before, after) \in ResultType
         /\ disposition(res, before, after).applied =
              res.applied + (Len(after.events) - Len(before.events))
<1> DEFINE d == disposition(res, before, after)
           more == Cardinality(after.staged) > Cardinality(before.staged)
           m == Len(after.events) - Len(before.events)
<1>1. m \in Nat /\ (m = 0 <=> ~(Len(after.events) > Len(before.events)))
  OBVIOUS
<1>2. more => m = 0
  <2>1. Len(after.events) = Len(before.events) => m = 0
    OBVIOUS
  <2> QED
    BY <2>1
<1>3. d = IF more THEN [res EXCEPT !.staged = res.staged + 1]
          ELSE IF Len(after.events) > Len(before.events)
          THEN [res EXCEPT !.applied = res.applied + m]
          ELSE [res EXCEPT !.dups = res.dups + 1]
  BY DEF disposition
<1> HIDE DEF d, m, more
<1>4. res.applied \in Nat /\ res.staged \in Nat /\ res.dups \in Nat
  BY DEF ResultType
<1>5. d \in ResultType
  BY <1>1, <1>3, <1>4 DEF ResultType
<1>6. d.applied = IF more \/ ~(Len(after.events) > Len(before.events))
                  THEN res.applied ELSE res.applied + m
  BY <1>3 DEF ResultType
<1>7. d.applied = res.applied + m
  BY <1>1, <1>2, <1>4, <1>6
<1> QED
  BY <1>5, <1>7 DEF d, m

\* An import takes one record.
LEMMA ImportStepInv ==
  ASSUME Inv, NEW p \in Replicas, ImportStep(p)
  PROVE  Inv'
<1> DEFINE im == imp[p]
           did == im.did
           ch == led[p][did]
           r == im.recs[im.i]
           a == appendRecord(ch, r)
           nx == IF a.err # None THEN [im EXCEPT !.err = a.err]
                 ELSE [im EXCEPT !.i = @ + 1, !.res = disposition(@, ch, a.chain)]
<1>1. /\ imp[p] # None /\ ~Ended(im)
      /\ led' = [led EXCEPT ![p][did] = appendRecord(@, r).chain]
      /\ imp' = [imp EXCEPT ![p] = nx]
      /\ att' = att
  BY DEF ImportStep, Inv
<1>2. ImportOK(im, ch) /\ im \in ImportType /\ did \in Chains
  BY <1>1 DEF Inv, ImportOK, ImportType
<1>3. im.recs \in Seq(Stored) /\ im.i \in 1..Len(im.recs)
  BY <1>1, <1>2 DEF ImportOK, ImportType, Ended
<1>4. r \in Stored /\ r.chain = did
  BY <1>2, <1>3 DEF ImportOK
<1>5. /\ led' \in [Replicas -> [Chains -> Chain]]
      /\ led'[p][did] = a.chain
      /\ StepOK(did, ch, a)
      /\ \A q \in Replicas, d \in Chains : q # p \/ d # did => led'[q][d] = led[q][d]
      /\ \A q \in Replicas, d \in Chains : ChainOK(d, led'[q][d])
      /\ \A b \in att' : /\ b.of \in Replicas /\ b.chain \in Chains
                         /\ AttestationOK(b, led'[b.of][b.chain])
  BY <1>1, <1>2, <1>4, LedStep
<1>6. a.err \in ErrorCodes
  BY AppendErr
<1>7. /\ Len(ch.events) \in Nat /\ Len(a.chain.events) \in Nat
      /\ Len(a.chain.events) >= Len(ch.events)
  <2>1. ch.events \in Seq(Stored) /\ a.chain.events \in Seq(Stored)
    BY <1>2, <1>5, EventsOfChain DEF Inv, StepOK
  <2>2. Prefix(ch.events, a.chain.events)
    BY <1>5 DEF StepOK
  <2> QED
    BY <2>1, <2>2, LenProperties DEF Prefix
<1>8. ch.state = ChainQuarantined => a.chain.state = ChainQuarantined
  BY <1>5 DEF StepOK
<1>9. im.i \in Nat /\ im.start \in Nat /\ im.res \in ResultType
  BY <1>2 DEF ImportType
<1>10. /\ nx \in ImportType /\ nx.did = did
       /\ ImportOK(nx, a.chain)
  <2>1. CASE a.err # None
    <3>1. nx = [im EXCEPT !.err = a.err]
      BY <2>1
    <3>2. a.chain = ch \/ a.chain.state = ChainQuarantined
      BY <1>5, <2>1 DEF StepOK
    <3> HIDE DEF nx, a
    <3>3. nx \in ImportType /\ nx.did = did /\ nx.i = im.i /\ nx.recs = im.recs
          /\ nx.start = im.start /\ nx.res = im.res
      BY <1>2, <1>6, <3>1 DEF ImportType
    <3> QED
      BY <1>2, <3>2, <3>3 DEF ImportOK
  <2>2. CASE a.err = None
    <3> DEFINE res == disposition(im.res, ch, a.chain)
    <3>1. nx = [im EXCEPT !.i = im.i + 1, !.res = res]
      BY <2>2
    <3>2. Cardinality(a.chain.staged) > Cardinality(ch.staged) => a.chain.events = ch.events
      BY <1>5 DEF StepOK
    <3>3. res \in ResultType
          /\ res.applied = im.res.applied + (Len(a.chain.events) - Len(ch.events))
      BY <1>7, <1>9, <3>2, DispositionOK
    <3> HIDE DEF nx, a, res, im, ch
    <3>a. im \in ImportType /\ im.i + 1 \in Nat /\ res \in ResultType
      BY <1>2, <1>9, <3>3
    <3>4. nx \in ImportType /\ nx.did = im.did /\ nx.i = im.i + 1 /\ nx.recs = im.recs
          /\ nx.start = im.start /\ nx.res = res
      BY <3>1, <3>a DEF ImportType
    <3>5. im.i + 1 \in 1..Len(im.recs) + 1
      BY <1>3
    <3>6. a.chain.state # ChainQuarantined => Len(a.chain.events) = im.start + res.applied
      <4>1. SUFFICES ASSUME a.chain.state # ChainQuarantined
                     PROVE  Len(a.chain.events) = im.start + res.applied
        OBVIOUS
      <4>2. Len(ch.events) = im.start + im.res.applied /\ im.res.applied \in Nat
        BY <1>2, <1>8, <1>9, <4>1 DEF ImportOK, ResultType
      <4> QED
        BY <1>7, <1>9, <3>3, <4>2
    <3>7. ImportOK(nx, a.chain)
      BY <1>2, <3>4, <3>5, <3>6 DEF ImportOK
    <3> QED
      BY <3>4, <3>7
  <2> QED
    BY <2>1, <2>2
<1> HIDE DEF nx, a
<1>11. imp' \in [Replicas -> ImportType \cup {None}] /\ imp'[p] = nx
       /\ \A q \in Replicas : q # p => imp'[q] = imp[q]
  BY <1>1, <1>10 DEF Inv
<1>12. \A q \in Replicas : imp'[q] # None => ImportOK(imp'[q], led'[q][imp'[q].did])
  <2> SUFFICES ASSUME NEW q \in Replicas, imp'[q] # None
               PROVE  ImportOK(imp'[q], led'[q][imp'[q].did])
    OBVIOUS
  <2>1. CASE q = p
    BY <1>5, <1>10, <1>11, <2>1
  <2>2. CASE q # p
    <3>1. imp'[q] = imp[q] /\ ImportOK(imp[q], led[q][imp[q].did])
      BY <1>11, <2>2 DEF Inv
    <3>2. imp[q].did \in Chains
      BY <3>1 DEF ImportOK, ImportType
    <3> QED
      BY <1>5, <2>2, <3>1, <3>2
  <2> QED
    BY <2>1, <2>2
<1> QED
  BY <1>5, <1>11, <1>12 DEF Inv

\* A head is attested.
LEMMA AttestInv ==
  ASSUME Inv, NEW p \in Replicas, NEW did \in Chains, NEW w \in Witnesses, Attest(p, did, w)
  PROVE  Inv'
<1> DEFINE ch == led[p][did]
           b == [of |-> p, by |-> w, chain |-> did, seq |-> HeadOf(ch).seq, id |-> HeadOf(ch).id,
                 state |-> ch.state]
<1>1. att' = att \cup {b} /\ led' = led /\ imp' = imp
  BY DEF Attest
<1>2. AttestationOK(b, ch)
  <2> SUFFICES ASSUME ch.state = ChainActive PROVE AttestationOK(b, ch)
    BY DEF AttestationOK
  <2>1. ActiveOK(did, ch, 2)
    <3>1. ChainOK(did, ch)
      BY DEF Inv
    <3>2. ch # NoChain
      <4>1. NoChain.state = "" /\ ChainActive # ""
        BY DEF NoChain, ChainActive
      <4> QED
        BY <4>1
    <3>3. ~QuarantinedOK(did, ch)
      BY DEF QuarantinedOK, ChainActive, ChainQuarantined
    <3> QED
      BY <3>1, <3>2, <3>3 DEF ChainOK
  <2>2. /\ Len(ch.events) \in Nat /\ Len(ch.events) >= 1
        /\ lastOf(ch.events) = ch.events[Len(ch.events)]
        /\ lastOf(ch.events).seq = Len(ch.events) - 1
    BY <2>1, HeadFacts
  <2>3. HeadOf(ch) = lastOf(ch.events) /\ linear(ch) = ch.events
    BY DEF HeadOf, linear, ChainActive, ChainQuarantined
  <2>4. b.seq = Len(ch.events) - 1 /\ b.id = ch.events[Len(ch.events)].id
    BY <2>2, <2>3
  <2> HIDE DEF b
  <2>5. b.seq \in Nat /\ b.seq + 1 = Len(ch.events) /\ b.seq + 1 \in 1..Len(ch.events)
    BY <2>2, <2>4
  <2> QED
    BY <2>3, <2>4, <2>5 DEF AttestationOK
<1>3. b.of = p /\ b.chain = did
  OBVIOUS
<1> HIDE DEF b
<1>4. \A a \in att' : a.of \in Replicas /\ a.chain \in Chains /\ AttestationOK(a, led'[a.of][a.chain])
  BY <1>1, <1>2, <1>3 DEF Inv
<1> QED
  BY <1>1, <1>4 DEF Inv

\* Every step.
LEMMA NextInv == Inv /\ [Next]_vars => Inv'
<1> SUFFICES ASSUME Inv, [Next]_vars PROVE Inv'
  OBVIOUS
<1>1. ASSUME NEW p \in Replicas, NEW r \in Records, Deliver(p, r) PROVE Inv'
  BY <1>1, DeliverInv
<1>2. ASSUME NEW p \in Replicas, NEW q \in Replicas \ {p}, NEW did \in Chains,
             ImportBegin(p, q, did) PROVE Inv'
  BY <1>2, ImportBeginInv
<1>3. ASSUME NEW p \in Replicas, ImportStep(p) PROVE Inv'
  BY <1>3, ImportStepInv
<1>4. ASSUME NEW p \in Replicas, ImportReturn(p) PROVE Inv'
  <2>1. led' = led /\ att' = att /\ imp' = [imp EXCEPT ![p] = None]
    BY <1>4 DEF ImportReturn
  <2>2. \A q \in Replicas : imp'[q] # None => imp'[q] = imp[q]
    BY <2>1 DEF Inv
  <2>3. imp' \in [Replicas -> ImportType \cup {None}]
    BY <2>1 DEF Inv
  <2> QED
    BY <2>1, <2>2, <2>3 DEF Inv
<1>5. ASSUME NEW p \in Replicas, NEW did \in Chains, NEW w \in Witnesses, Attest(p, did, w) PROVE Inv'
  BY <1>5, AttestInv
<1>6. CASE UNCHANGED vars
  BY <1>6 DEF Inv, vars
<1> QED
  BY <1>1, <1>2, <1>3, <1>4, <1>5, <1>6 DEF Next

\* The inductive invariant holds in every reachable state.
THEOREM Invariance == Spec => []Inv
  BY InitInv, NextInv, PTL DEF Spec

-----------------------------------------------------------------------------
(* The theorems. *)

\* A chain in state active is an active chain.
LEMMA ActiveCase ==
  ASSUME NEW did, NEW ch, ChainOK(did, ch), ch.state = ChainActive
  PROVE  ActiveOK(did, ch, 2)
<1>1. NoChain.state = "" /\ ChainActive # "" /\ ChainActive # ChainQuarantined
  BY DEF NoChain, ChainActive, ChainQuarantined
<1>2. ch # NoChain
  BY <1>1
<1>3. ~QuarantinedOK(did, ch)
  BY <1>1 DEF QuarantinedOK
<1> QED
  BY <1>2, <1>3 DEF ChainOK

\* The staging buffer of any chain is as the invariant has it.
LEMMA StagedOfChain ==
  ASSUME NEW did, NEW ch, ChainOK(did, ch)
  PROVE  StagedOK(did, ch.staged)
<1>1. CASE ch = NoChain
  <2>1. ch.staged = {}
    BY <1>1 DEF NoChain
  <2>2. IsFiniteSet({}) /\ Cardinality({}) = 0
    BY FS_EmptySet
  <2>3. StagedOK(did, {})
    BY <2>2, CapAssumption DEF StagedOK
  <2> QED
    BY <2>1, <2>3
<1>2. CASE ActiveOK(did, ch, 2)
  BY <1>2 DEF ActiveOK
<1>3. CASE QuarantinedOK(did, ch)
  BY <1>3 DEF QuarantinedOK
<1> QED
  BY <1>1, <1>2, <1>3 DEF ChainOK

\* Type correctness: a chain without events is one the ledger never saw, and an import
\* stays within its batch (TypeOK).
THEOREM Typing == Spec => []TypeOK
<1>1. Inv => TypeOK
  <2> SUFFICES ASSUME Inv, NEW p \in Replicas
               PROVE  /\ \A did \in Chains :
                           LET ch == led[p][did]
                           IN  IF ch.events = <<>> THEN ch = NoChain
                               ELSE ch.state \in {ChainActive, ChainQuarantined}
                      /\ imp[p] # None => imp[p].did \in Chains /\ imp[p].i \in 1..Len(imp[p].recs) + 1
    BY DEF TypeOK
  <2>1. ASSUME NEW did \in Chains
        PROVE  LET ch == led[p][did]
               IN  IF ch.events = <<>> THEN ch = NoChain
                   ELSE ch.state \in {ChainActive, ChainQuarantined}
    <3> DEFINE ch == led[p][did]
    <3>1. CASE ch = NoChain
      <4>1. NoChain.events = <<>>
        BY DEF NoChain
      <4> QED
        BY <3>1, <4>1
    <3>2. CASE ActiveOK(did, ch, 2)
      BY <3>2 DEF ActiveOK
    <3>3. CASE QuarantinedOK(did, ch)
      <4>1. ch.state = ChainQuarantined /\ Len(ch.events) >= 3
        BY <3>3 DEF QuarantinedOK
      <4>2. ch.events # <<>>
        BY <4>1
      <4> QED
        BY <4>1, <4>2
    <3> QED
      BY <3>1, <3>2, <3>3 DEF Inv, ChainOK
  <2>2. imp[p] # None => imp[p].did \in Chains /\ imp[p].i \in 1..Len(imp[p].recs) + 1
    BY DEF Inv, ImportOK, ImportType
  <2> QED
    BY <2>1, <2>2
<1> QED
  BY <1>1, Invariance, PTL

\* Every chain is one hash chain from genesis, in every order of deliveries, drains and
\* imports (ChainLinked).
THEOREM Linked == Spec => []ChainLinked
<1>1. Inv => ChainLinked
  <2> SUFFICES ASSUME Inv, NEW p \in Replicas, NEW did \in Chains
               PROVE  LET ev == linear(led[p][did])
                      IN  \A i \in 1..Len(ev) :
                            /\ ev[i].seq = i - 1 /\ ev[i].chain = did /\ ev[i].ok
                            /\ ev[i].prev = IF i = 1 THEN GenesisPrev ELSE ev[i - 1].id
    BY DEF ChainLinked
  <2>1. Linear(did, linear(led[p][did]))
    BY LinearSeq DEF Inv
  <2> QED
    BY <2>1 DEF Linear, Passed, Verify
<1> QED
  BY <1>1, Invariance, PTL

\* The drain leaves nothing behind and the buffer stays within its cap (StagedAhead).
THEOREM Staging == Spec => []StagedAhead
<1>1. Inv => StagedAhead
  <2> SUFFICES ASSUME Inv, NEW p \in Replicas, NEW did \in Chains
               PROVE  LET ch == led[p][did]
                      IN  /\ Cardinality(ch.staged) <= ImportBufferCap
                          /\ \A x, y \in ch.staged : x.seq = y.seq => x = y
                          /\ ch.state = ChainActive =>
                               \A x \in ch.staged :
                                 x.ok /\ x.chain = did /\ x.seq > lastOf(ch.events).seq + 1
    BY DEF StagedAhead
  <2> DEFINE ch == led[p][did]
  <2>1. ChainOK(did, ch) /\ StagedOK(did, ch.staged)
    BY StagedOfChain DEF Inv
  <2> HIDE DEF ch
  <2>2. ASSUME ch.state = ChainActive, NEW x \in ch.staged
        PROVE  x.seq > lastOf(ch.events).seq + 1
    <3>1. ActiveOK(did, ch, 2)
      BY <2>1, <2>2, ActiveCase
    <3>2. lastOf(ch.events).seq = Len(ch.events) - 1 /\ Len(ch.events) \in Nat
      BY <3>1, HeadFacts
    <3>3. x.seq \in Nat /\ x.seq >= Len(ch.events) - 1 + 2
      BY <2>2, <3>1, RecordFacts DEF ActiveOK, StagedOK
    <3> QED
      BY <3>2, <3>3
  <2>3. /\ Cardinality(ch.staged) <= ImportBufferCap
        /\ \A x, y \in ch.staged : x.seq = y.seq => x = y
        /\ \A x \in ch.staged : x.ok /\ x.chain = did
    BY <2>1 DEF StagedOK, Passed, Verify
  <2> QED
    BY <2>2, <2>3 DEF ch
<1> QED
  BY <1>1, Invariance, PTL

\* A quarantined chain carries both records of its fork (QuarantineProven).
THEOREM Quarantine == Spec => []QuarantineProven
<1>1. Inv => QuarantineProven
  <2> SUFFICES ASSUME Inv, NEW p \in Replicas, NEW did \in Chains,
                      led[p][did].state = ChainQuarantined
               PROVE  LET ch == led[p][did]
                          n  == Len(ch.events)
                      IN  /\ n >= 3
                          /\ ch.events[n].type = EvForkDetected /\ ch.events[n].seq = ch.events[n - 1].seq
                          /\ ch.events[n - 1].ok /\ ch.events[n - 1].seq \in 0..n - 3
                          /\ LET existing == ch.events[ch.events[n - 1].seq + 1]
                             IN  existing.ok /\ existing.seq = ch.events[n - 1].seq
                                 /\ existing.id # ch.events[n - 1].id
    BY DEF QuarantineProven
  <2> DEFINE ch == led[p][did]
             n == Len(ch.events)
             s == ch.events[n - 1].seq
             ev == SubSeq(ch.events, 1, n - 2)
  <2>1. QuarantinedOK(did, ch)
    <3>1. ChainOK(did, ch)
      BY DEF Inv
    <3>2. ch # NoChain /\ ~ActiveOK(did, ch, 2)
      <4>1. NoChain.state # ChainQuarantined /\ ChainActive # ChainQuarantined
        BY DEF NoChain, ChainActive, ChainQuarantined
      <4> QED
        BY <4>1 DEF ActiveOK
    <3> QED
      BY <3>1, <3>2 DEF ChainOK
  <2> HIDE DEF ch
  <2>2. ch \in Chain /\ n >= 3 /\ s \in 0..n - 3 /\ Linear(did, ev)
    BY <2>1 DEF QuarantinedOK
  <2>3. ch.events \in Seq(Stored)
    BY <2>2 DEF Chain
  <2>4. n \in Nat
    BY <2>3, LenProperties
  <2>5. Len(ev) = n - 2 /\ \A i \in 1..n - 2 : ev[i] = ch.events[i]
    BY <2>2, <2>3, <2>4
  <2> HIDE DEF ev, n
  <2>6. s + 1 \in 1..n - 2 /\ (s + 1) - 1 = s
    BY <2>2, <2>4
  <2>7. ch.events[s + 1].ok /\ ch.events[s + 1].seq = s
    <3> HIDE DEF s
    <3> QED
      BY <2>2, <2>5, <2>6 DEF Linear, Passed, Verify
  <2> QED
    BY <2>1, <2>7 DEF QuarantinedOK, Passed, Verify, ch, n
<1> QED
  BY <1>1, Invariance, PTL

\* The Applied count of an import is the growth of the chain (AppliedExact).
THEOREM Applied == Spec => []AppliedExact
<1>1. Inv => AppliedExact
  BY DEF Inv, ImportOK, AppliedExact
<1> QED
  BY <1>1, Invariance, PTL

\* An attested head is never contradicted by the chain it was read from (AttestedHeadHolds).
THEOREM Attested == Spec => []AttestedHeadHolds
<1>1. Inv => AttestedHeadHolds
  <2> SUFFICES ASSUME Inv, NEW a \in att, a.state = ChainActive,
                      NEW i \in 1..Len(linear(led[a.of][a.chain]))
               PROVE  ~ContradictedBy(a, linear(led[a.of][a.chain])[i])
    BY DEF AttestedHeadHolds
  <2> DEFINE ev == linear(led[a.of][a.chain])
  <2>1. Linear(a.chain, ev)
    BY LinearSeq DEF Inv
  <2>2. a.seq \in Nat /\ ev[a.seq + 1].id = a.id
    BY DEF Inv, AttestationOK
  <2> HIDE DEF ev
  <2>3. ev[i].seq = i - 1
    BY <2>1 DEF Linear, ev
  <2>4. ev[i].seq = a.seq => i = a.seq + 1
    BY <2>2, <2>3
  <2> QED
    BY <2>2, <2>4 DEF ContradictedBy, ev
<1> QED
  BY <1>1, Invariance, PTL

\* No step removes or replaces a stored record or moves a quarantined chain (AppendOnly).
THEOREM NothingRemoved == Spec => AppendOnly
<1> DEFINE Kept(old, new) == /\ Len(new.events) >= Len(old.events)
                             /\ \A i \in 1..Len(old.events) : new.events[i] = old.events[i]
                             /\ old.state = ChainQuarantined => new = old
           A == \A p \in Replicas, did \in Chains : Kept(led[p][did], led'[p][did])
<1>1. ASSUME Inv PROVE \A p \in Replicas, did \in Chains : Kept(led[p][did], led[p][did])
  <2>1. \A p \in Replicas, did \in Chains : led[p][did].events \in Seq(Stored)
    BY <1>1, EventsOfChain DEF Inv
  <2>2. \A p \in Replicas, did \in Chains : Len(led[p][did].events) \in Nat
    BY <2>1, LenProperties
  <2> QED
    BY <2>2
<1>2. ASSUME NEW did, NEW ch, ChainOK(did, ch), NEW a, StepOK(did, ch, a)
      PROVE  Kept(ch, a.chain)
  <2>1. ch.events \in Seq(Stored) /\ a.chain.events \in Seq(Stored)
    BY <1>2, EventsOfChain DEF StepOK
  <2>2. Len(ch.events) \in Nat /\ Len(a.chain.events) \in Nat
    BY <2>1, LenProperties
  <2> QED
    BY <1>2, <2>2 DEF StepOK, Prefix
<1>3. ASSUME Inv, NEW p \in Replicas, NEW did \in Chains, NEW r \in Stored, r.chain = did,
             led' = [led EXCEPT ![p][did] = appendRecord(@, r).chain], att' = att
      PROVE  A
  <2> HIDE DEF Kept, A
  <2>0. led'[p][did] = appendRecord(led[p][did], r).chain
    BY <1>3 DEF Inv
  <2>1. /\ StepOK(did, led[p][did], appendRecord(led[p][did], r))
        /\ \A q \in Replicas, d \in Chains : q # p \/ d # did => led'[q][d] = led[q][d]
    BY <1>3, AppendOK DEF Inv
  <2>2. Kept(led[p][did], led'[p][did])
    BY <1>2, <1>3, <2>0, <2>1 DEF Inv, Kept
  <2> QED
    BY <1>1, <1>3, <2>1, <2>2 DEF A
<1>4. Inv /\ [Next]_vars => [A]_vars
  <2> SUFFICES ASSUME Inv, Next PROVE A
    OBVIOUS
  <2>1. CASE \E p \in Replicas, r \in Records : Deliver(p, r)
    <3>1. PICK p \in Replicas, r \in Records : Deliver(p, r)
      BY <2>1
    <3>2. r \in Stored /\ r.chain \in Chains
      BY RecordFacts DEF Stored
    <3> QED
      BY <1>3, <3>1, <3>2 DEF Deliver
  <2>2. CASE \E p \in Replicas : ImportStep(p)
    <3>1. PICK p \in Replicas : ImportStep(p)
      BY <2>2
    <3> DEFINE im == imp[p]
    <3>2. /\ im # None /\ ~Ended(im)
          /\ led' = [led EXCEPT ![p][im.did] = appendRecord(@, im.recs[im.i]).chain]
          /\ att' = att
      BY <3>1 DEF ImportStep, Inv
    <3>3. ImportOK(im, led[p][im.did])
      BY <3>2 DEF Inv
    <3> HIDE DEF im
    <3>4. im.did \in Chains /\ im.recs \in Seq(Stored) /\ im.i \in 1..Len(im.recs)
      BY <3>2, <3>3 DEF ImportOK, ImportType, Ended
    <3>5. im.recs[im.i] \in Stored /\ im.recs[im.i].chain = im.did
      BY <3>3, <3>4 DEF ImportOK
    <3> QED
      BY <1>3, <3>2, <3>4, <3>5
  <2>3. CASE led' = led
    BY <1>1, <2>3
  <2> QED
    BY <2>1, <2>2, <2>3 DEF Next, ImportBegin, ImportReturn, Attest
<1> QED
  BY <1>4, Invariance, PTL DEF Spec, AppendOnly

\* All of ChainSound, for any number of replicas, chains and records.
THEOREM Sound == Spec => []ChainSound
<1>1. TypeOK /\ ChainLinked /\ StagedAhead /\ QuarantineProven => ChainSound
  BY DEF ChainSound
<1> QED
  BY <1>1, Typing, Linked, Staging, Quarantine, PTL

-----------------------------------------------------------------------------
(* Imports find forks: what a batch looks like, and what has become of it so far. *)

\* The first lin records of a batch are a run of a linear chain; after them come, at most, the
\* competing record and the anchor of a quarantined one.
BatchShape(im, lin) ==
  LET n == Len(im.recs)
  IN  /\ im.from \in Nat \ {0}
      /\ \A j \in 1..lin :
           /\ im.recs[j] \in Records /\ Passed(im.recs[j])
           /\ im.recs[j].seq = im.from + j - 2
           /\ j > 1 => im.recs[j].prev = im.recs[j - 1].id
           /\ im.from = 1 /\ j = 1 => im.recs[j].prev = GenesisPrev
      /\ n <= lin + 2
      /\ lin < n => ~im.recs[n].ok
      /\ lin < n /\ im.from = 1 =>
           /\ n = lin + 2
           /\ im.recs[lin + 1] \in Records /\ Passed(im.recs[lin + 1])
           /\ im.recs[lin + 1].seq \in 0..lin - 1
           /\ im.recs[im.recs[lin + 1].seq + 1].id # im.recs[lin + 1].id

StagedHere(ch, r) == \E x \in ch.staged : x.id = r.id /\ x.seq = r.seq

\* A batch from genesis never needs the staging buffer.
Taken(ch, from, r) == holds(ch, r) \/ (from # 1 /\ StagedHere(ch, r))

\* The fork is found, or an error ends a partial batch, or every record so far is taken, or the
\* anchor, which no chain accepts, is still to come.
BatchDone(im, lin, ch) ==
  \/ ch.state = ChainQuarantined
  \/ im.err # None /\ im.from # 1
  \/ im.err = None /\ im.i <= lin + 1 /\ \A k \in 1..im.i - 1 : Taken(ch, im.from, im.recs[k])
  \/ im.err = None /\ im.from # 1 /\ lin < im.i /\ im.i <= Len(im.recs)

BatchOK(im, ch) == \E lin \in 0..Len(im.recs) : BatchShape(im, lin) /\ BatchDone(im, lin, ch)

Batches == \A p \in Replicas : imp[p] # None => BatchOK(imp[p], led[p][imp[p].did])

\* What Append makes of a record an ACTIVE chain lets through.
LEMMA AppendTakes ==
  ASSUME NEW did, NEW ch, ActiveOK(did, ch, 2), NEW r \in Records, Passed(r), r.chain = did
  PROVE  LET a == appendRecord(ch, r)
             n == Len(ch.events)
         IN  \/ a.chain.state = ChainQuarantined
             \/ /\ a.err # None /\ a.chain = ch /\ r.seq >= n
                /\ r.seq = n => r.prev # ch.events[n].id
             \/ a.err = None /\ r.seq <= n /\ holds(a.chain, r)
             \/ /\ a.err = None /\ r.seq > n /\ linear(a.chain) = linear(ch)
                /\ StagedHere(a.chain, r)
                /\ \A x \in ch.staged : x.seq # r.seq => x \in a.chain.staged
<1> DEFINE head == lastOf(ch.events)
           n == Len(ch.events)
           a == appendRecord(ch, r)
<1> SUFFICES \/ a.chain.state = ChainQuarantined
             \/ /\ a.err # None /\ a.chain = ch /\ r.seq >= n
                /\ r.seq = n => r.prev # ch.events[n].id
             \/ a.err = None /\ r.seq <= n /\ holds(a.chain, r)
             \/ /\ a.err = None /\ r.seq > n /\ linear(a.chain) = linear(ch)
                /\ StagedHere(a.chain, r)
                /\ \A x \in ch.staged : x.seq # r.seq => x \in a.chain.staged
  OBVIOUS
<1>1. a = appendToChain(ch, r)
  BY DEF appendRecord, Passed, ActiveOK, ChainActive, ChainQuarantined
<1>2. n \in Nat /\ n >= 1 /\ head = ch.events[n] /\ head.seq = n - 1 /\ ch.events \in Seq(Stored)
  BY HeadFacts
<1>3. r.seq \in Nat /\ None \notin {"PREV_LINK_BROKEN", "IMPORT_BUFFER_FULL"}
  BY RecordFacts, NoneAssumption
<1>4. linear(ch) = ch.events
  BY DEF linear, ActiveOK, ChainActive, ChainQuarantined
<1>5. CASE r.seq <= head.seq
  <2> DEFINE ex == ch.events[r.seq + 1]
  <2>1. CASE ex.id # r.id
    <3>1. a = Result(quarantine(ch, ex, r), "EQUIVOCATION")
      BY <1>1, <1>5, <2>1 DEF appendToChain
    <3>2. QuarantinedOK(did, quarantine(ch, ex, r))
      BY <1>5, <2>1, QuarantineOK
    <3>3. a.chain.state = ChainQuarantined
      <4>1. a.chain = quarantine(ch, ex, r)
        BY <3>1 DEF Result
      <4> QED
        BY <3>2, <4>1 DEF QuarantinedOK
    <3> QED
      BY <3>3
  <2>2. CASE ex.id = r.id
    <3>1. a = Result(ch, None)
      BY <1>1, <1>5, <2>2 DEF appendToChain
    <3>2. a.chain = ch /\ a.err = None
      BY <3>1 DEF Result
    <3>3. r.seq < n /\ r.seq <= n
      BY <1>2, <1>3, <1>5
    <3> HIDE DEF a
    <3> QED
      BY <1>4, <2>2, <3>2, <3>3 DEF holds
  <2> QED
    BY <2>1, <2>2
<1>6. CASE r.seq = head.seq + 1
  <2>0. ~(r.seq <= head.seq) /\ r.seq = n /\ r.seq >= n /\ r.seq <= n
    BY <1>2, <1>3, <1>6
  <2>1. CASE r.prev # head.id
    <3>1. a = Result(ch, "PREV_LINK_BROKEN")
      BY <1>1, <1>6, <2>0, <2>1 DEF appendToChain
    <3>2. a.chain = ch /\ a.err # None
      BY <1>3, <3>1 DEF Result
    <3> HIDE DEF a
    <3> QED
      BY <1>2, <2>0, <2>1, <3>2
  <2>2. CASE r.prev = head.id
    <3> DEFINE mid == [ch EXCEPT !.events = Append(@, r)]
               new == drainStaged(mid)
    <3>1. a = Result(new, None)
      BY <1>1, <1>6, <2>0, <2>2 DEF appendToChain
    <3>2. ActiveOK(did, mid, 1)
      BY <1>6, <2>2, ExtendOK
    <3>3. mid.events = Append(ch.events, r)
      BY DEF ActiveOK, Chain
    <3>4. Len(mid.events) = n + 1 /\ mid.events[n + 1] = r
      BY <1>2, <3>3 DEF Stored
    <3> HIDE DEF mid
    <3>5. ActiveOK(did, new, 2) /\ Prefix(mid.events, new.events)
      BY <3>2, DrainOK
    <3>6. a.chain = new /\ a.err = None
      BY <3>1 DEF Result
    <3> HIDE DEF new, a
    <3>7. linear(new) = new.events /\ Len(new.events) \in Nat
      BY <3>5, HeadFacts DEF linear, ActiveOK, ChainActive, ChainQuarantined
    <3>8. n + 1 \in 1..n + 1 /\ r.seq < Len(new.events)
      BY <1>2, <2>0, <3>4, <3>5, <3>7 DEF Prefix
    <3>9. new.events[r.seq + 1] = r
      BY <2>0, <3>4, <3>5, <3>8 DEF Prefix
    <3>10. holds(a.chain, r)
      BY <3>6, <3>7, <3>8, <3>9 DEF holds
    <3> QED
      BY <2>0, <3>6, <3>10
  <2> QED
    BY <2>1, <2>2
<1>7. CASE r.seq > head.seq + 1
  <2>0. ~(r.seq <= head.seq) /\ r.seq # head.seq + 1 /\ r.seq > n /\ r.seq >= n /\ r.seq # n
    BY <1>2, <1>3, <1>7
  <2>1. CASE \E x \in ch.staged : x.seq = r.seq /\ x.id = r.id
    <3>1. a = Result(ch, None)
      BY <1>1, <2>0, <2>1 DEF appendToChain
    <3>2. a.chain = ch /\ a.err = None
      BY <3>1 DEF Result
    <3> HIDE DEF a
    <3>3. StagedHere(ch, r)
      BY <2>1 DEF StagedHere
    <3> QED
      BY <2>0, <3>2, <3>3
  <2>2. CASE ~(\E x \in ch.staged : x.seq = r.seq /\ x.id = r.id)
    <3>1. CASE Cardinality(ch.staged) >= ImportBufferCap
      <4>1. a = Result(ch, "IMPORT_BUFFER_FULL")
        BY <1>1, <2>0, <2>2, <3>1 DEF appendToChain
      <4>2. a.chain = ch /\ a.err # None
        BY <1>3, <4>1 DEF Result
      <4> HIDE DEF a
      <4> QED
        BY <2>0, <4>2
    <3>2. CASE ~(Cardinality(ch.staged) >= ImportBufferCap)
      <4> DEFINE rest == {x \in ch.staged : x.seq # r.seq}
                 new == [ch EXCEPT !.staged = rest \cup {r}]
      <4>1. a = Result(new, None)
        BY <1>1, <2>0, <2>2, <3>2 DEF appendToChain
      <4>2. new.staged = rest \cup {r} /\ new.events = ch.events /\ new.state = ch.state
        BY DEF ActiveOK, Chain
      <4>3. a.chain = new /\ a.err = None
        BY <4>1 DEF Result
      <4> HIDE DEF new, a
      <4>4. linear(a.chain) = linear(ch)
        BY <4>2, <4>3 DEF linear
      <4>5. StagedHere(a.chain, r)
        BY <4>2, <4>3 DEF StagedHere
      <4>6. \A x \in ch.staged : x.seq # r.seq => x \in a.chain.staged
        BY <4>2, <4>3
      <4> QED
        BY <2>0, <4>3, <4>4, <4>5, <4>6
    <3> QED
      BY <3>1, <3>2
  <2> QED
    BY <2>1, <2>2
<1>8. r.seq <= head.seq \/ r.seq = head.seq + 1 \/ r.seq > head.seq + 1
  BY <1>2, <1>3
<1> QED
  BY <1>5, <1>6, <1>7, <1>8

\* A record that is not let through is an error and leaves the chain as it is.
LEMMA AppendRefuses ==
  ASSUME NEW ch, NEW r, ~r.ok
  PROVE  appendRecord(ch, r).err # None
  BY NoneAssumption DEF appendRecord, Verify, Result

\* Nothing is taken by a chain nobody has seen.
LEMMA NothingTaken ==
  ASSUME NEW from, NEW r \in Records
  PROVE  ~Taken(NoChain, from, r)
<1>1. linear(NoChain) = <<>> /\ NoChain.staged = {}
  BY DEF NoChain, linear, ChainQuarantined
<1>2. r.seq \in Nat /\ Len(linear(NoChain)) = 0
  BY <1>1, RecordFacts
<1> QED
  BY <1>1, <1>2 DEF Taken, holds, StagedHere

\* One record of the linear part of a batch.
LEMMA LinearStep ==
  ASSUME NEW did, NEW ch, ChainOK(did, ch), ch.state # ChainQuarantined,
         NEW im \in ImportType, NEW lin \in 0..Len(im.recs), BatchShape(im, lin),
         im.i \in 1..lin, im.recs[im.i].chain = did,
         \A k \in 1..im.i - 1 : Taken(ch, im.from, im.recs[k])
  PROVE  LET a == appendRecord(ch, im.recs[im.i])
         IN  \/ a.chain.state = ChainQuarantined
             \/ a.err # None /\ im.from # 1
             \/ a.err = None /\ \A k \in 1..im.i : Taken(a.chain, im.from, im.recs[k])
<1> DEFINE r == im.recs[im.i]
           i == im.i
           from == im.from
           a == appendRecord(ch, r)
<1> SUFFICES \/ a.chain.state = ChainQuarantined
             \/ a.err # None /\ from # 1
             \/ a.err = None /\ \A k \in 1..i : Taken(a.chain, from, im.recs[k])
  OBVIOUS
<1>1. /\ r \in Records /\ Passed(r) /\ r.seq = from + i - 2
      /\ i > 1 => r.prev = im.recs[i - 1].id
      /\ from = 1 /\ i = 1 => r.prev = GenesisPrev
  BY DEF BatchShape
<1>2. i \in Nat /\ i >= 1 /\ from \in Nat /\ from >= 1 /\ lin \in Nat /\ i <= lin
  BY DEF ImportType, BatchShape
<1>3. \A k \in 1..i - 1 : im.recs[k] \in Records /\ im.recs[k].seq = from + k - 2
  BY <1>2 DEF BatchShape
<1>4. \A k \in 1..i - 1 : im.recs[k].seq \in Nat /\ im.recs[k].seq < r.seq
  <2> TAKE k \in 1..i - 1
  <2>1. im.recs[k].seq \in Nat /\ im.recs[k].seq = from + k - 2
    BY <1>3, RecordFacts
  <2>2. from + k - 2 < from + i - 2
    BY <1>2
  <2> QED
    BY <1>1, <2>1, <2>2
<1>5. ASSUME NEW new, Taken(new, from, r), \A k \in 1..i - 1 : Taken(new, from, im.recs[k])
      PROVE  \A k \in 1..i : Taken(new, from, im.recs[k])
  <2>1. \A k \in 1..i : k \in 1..i - 1 \/ k = i
    BY <1>2
  <2> QED
    BY <1>5, <2>1
<1>6. CASE ch = NoChain
  <2>1. i = 1
    <3> SUFFICES ASSUME i > 1 PROVE FALSE
      BY <1>2
    <3>1. 1 \in 1..i - 1
      BY <1>2
    <3> QED
      BY <1>3, <1>6, <3>1, NothingTaken
  <2>2. ch.events = <<>>
    BY <1>6 DEF NoChain
  <2>3. CASE r.seq # 0 \/ r.prev # GenesisPrev
    <3>1. a = Result(ch, "BAD_GENESIS_PREV")
      BY <1>1, <2>2, <2>3 DEF appendRecord, Passed
    <3>2. a.err # None
      BY <3>1, NoneAssumption DEF Result
    <3>3. from # 1
      BY <1>1, <1>2, <2>1, <2>3
    <3> QED
      BY <3>2, <3>3
  <2>4. CASE r.seq = 0 /\ r.prev = GenesisPrev
    <3> DEFINE new == [events |-> <<r>>, state |-> ChainActive, staged |-> {}]
    <3>1. a = Result(new, None)
      BY <1>1, <2>2, <2>4 DEF appendRecord, Passed
    <3>2. a.err = None /\ a.chain = new
      BY <3>1 DEF Result
    <3>3. linear(new) = <<r>>
      BY DEF linear, ChainActive, ChainQuarantined
    <3>4. holds(new, r)
      BY <2>4, <3>3 DEF holds
    <3> HIDE DEF new, a
    <3>5. \A k \in 1..i - 1 : Taken(a.chain, from, im.recs[k])
      BY <2>1
    <3>6. Taken(a.chain, from, r)
      BY <3>2, <3>4 DEF Taken
    <3> QED
      BY <1>5, <3>2, <3>5, <3>6
  <2> QED
    BY <2>3, <2>4
<1>7. CASE ActiveOK(did, ch, 2)
  <2> DEFINE n == Len(ch.events)
  <2>1. n \in Nat /\ n >= 1 /\ ch.events \in Seq(Stored)
    BY <1>7, HeadFacts
  <2>2. linear(ch) = ch.events
    BY <1>7 DEF linear, ActiveOK, ChainActive, ChainQuarantined
  <2>3. r.seq \in Nat
    BY <1>1, RecordFacts
  <2>4. StepOK(did, ch, a)
    <3>1. r \in Stored
      BY <1>1 DEF Stored
    <3> QED
      BY <3>1, AppendOK
  <2>5. \A k \in 1..i - 1 : holds(ch, im.recs[k]) => holds(a.chain, im.recs[k])
    <3>1. Prefix(linear(ch), linear(a.chain)) /\ ChainOK(did, a.chain)
      BY <2>4 DEF StepOK
    <3>2. Len(linear(a.chain)) \in Nat
      BY <3>1, LinearSeq DEF Linear
    <3> HIDE DEF a
    <3> SUFFICES ASSUME NEW k \in 1..i - 1, holds(ch, im.recs[k]) PROVE holds(a.chain, im.recs[k])
      OBVIOUS
    <3> DEFINE s == im.recs[k].seq
    <3>3. s \in Nat /\ s < Len(linear(ch)) /\ linear(ch)[s + 1].id = im.recs[k].id
      BY <1>4 DEF holds
    <3> HIDE DEF s
    <3>4. s < Len(linear(a.chain)) /\ s + 1 \in 1..Len(linear(ch))
      BY <2>1, <2>2, <3>1, <3>2, <3>3 DEF Prefix
    <3>5. linear(a.chain)[s + 1] = linear(ch)[s + 1]
      BY <3>1, <3>4 DEF Prefix
    <3> QED
      BY <3>3, <3>4, <3>5 DEF holds, s
  <2>6. \A k \in 1..i - 1 : StagedHere(ch, im.recs[k]) => im.recs[k].seq > n
    <3>1. \A x \in ch.staged : x.seq \in Nat /\ x.seq >= n - 1 + 2
      BY <1>7, RecordFacts DEF ActiveOK, StagedOK
    <3> QED
      BY <1>4, <2>1, <3>1 DEF StagedHere
  <2>7. from = 1 => r.seq <= n /\ (r.seq = n => r.prev = ch.events[n].id)
    <3> SUFFICES ASSUME from = 1 PROVE r.seq <= n /\ (r.seq = n => r.prev = ch.events[n].id)
      OBVIOUS
    <3>1. CASE i = 1
      BY <1>1, <2>1, <3>1
    <3>2. CASE i > 1
      <4>1. i - 1 \in 1..i - 1 /\ r.prev = im.recs[i - 1].id
        BY <1>1, <1>2, <3>2
      <4>2. im.recs[i - 1].seq = r.seq - 1
        BY <1>1, <1>2, <1>3, <4>1
      <4>3. holds(ch, im.recs[i - 1])
        BY <4>1 DEF Taken
      <4>4. r.seq - 1 < n /\ ch.events[(r.seq - 1) + 1].id = im.recs[i - 1].id
        BY <2>2, <4>2, <4>3 DEF holds
      <4>5. r.seq <= n /\ (r.seq - 1) + 1 = r.seq
        BY <2>1, <2>3, <4>4
      <4> QED
        BY <4>1, <4>4, <4>5
    <3> QED
      BY <1>2, <3>1, <3>2
  <2>8. \/ a.chain.state = ChainQuarantined
        \/ a.err # None /\ r.seq >= n /\ (r.seq = n => r.prev # ch.events[n].id)
        \/ a.err = None /\ r.seq <= n /\ holds(a.chain, r)
        \/ /\ a.err = None /\ r.seq > n
           /\ StagedHere(a.chain, r)
           /\ \A x \in ch.staged : x.seq # r.seq => x \in a.chain.staged
    <3>1. r \in Records /\ Passed(r) /\ r.chain = did
      BY <1>1
    <3> HIDE DEF r
    <3> QED
      BY <1>7, <3>1, AppendTakes
  <2> HIDE DEF a
  <2>9. CASE a.chain.state = ChainQuarantined
    BY <2>9
  <2>10. CASE a.err # None /\ r.seq >= n /\ (r.seq = n => r.prev # ch.events[n].id)
    <3>1. from # 1
      BY <2>1, <2>3, <2>7, <2>10
    <3> QED
      BY <2>10, <3>1
  <2>11. CASE a.err = None /\ r.seq <= n /\ holds(a.chain, r)
    <3>1. \A k \in 1..i - 1 : ~StagedHere(ch, im.recs[k])
      <4> TAKE k \in 1..i - 1
      <4>1. im.recs[k].seq \in Nat /\ im.recs[k].seq < r.seq
        BY <1>4
      <4>2. ~(im.recs[k].seq > n)
        BY <2>1, <2>3, <2>11, <4>1
      <4> QED
        BY <2>6, <4>2
    <3>2. \A k \in 1..i - 1 : Taken(a.chain, from, im.recs[k])
      BY <2>5, <3>1 DEF Taken
    <3>3. Taken(a.chain, from, r)
      BY <2>11 DEF Taken
    <3> QED
      BY <1>5, <2>11, <3>2, <3>3
  <2>12. CASE /\ a.err = None /\ r.seq > n
              /\ StagedHere(a.chain, r)
              /\ \A x \in ch.staged : x.seq # r.seq => x \in a.chain.staged
    <3>1. from # 1
      BY <2>1, <2>3, <2>7, <2>12
    <3>2. \A k \in 1..i - 1 : StagedHere(ch, im.recs[k]) => StagedHere(a.chain, im.recs[k])
      <4>1. \A k \in 1..i - 1 : im.recs[k].seq # r.seq
        BY <1>4, <2>3
      <4> QED
        BY <2>12, <4>1 DEF StagedHere
    <3>3. \A k \in 1..i - 1 : Taken(a.chain, from, im.recs[k])
      BY <2>5, <3>2 DEF Taken
    <3>4. Taken(a.chain, from, r)
      BY <2>12, <3>1 DEF Taken
    <3> QED
      BY <1>5, <2>12, <3>3, <3>4
  <2> QED
    BY <2>8, <2>9, <2>10, <2>11, <2>12
<1>8. ~QuarantinedOK(did, ch)
  BY DEF QuarantinedOK
<1> QED
  BY <1>6, <1>7, <1>8 DEF ChainOK

\* The record that competes with one of a batch from genesis finds that one on the chain.
LEMMA ForkStep ==
  ASSUME NEW did, NEW ch, ChainOK(did, ch), ch.state # ChainQuarantined,
         NEW im \in ImportType, NEW lin \in 0..Len(im.recs), BatchShape(im, lin),
         im.from = 1, lin < Len(im.recs), im.recs[lin + 1].chain = did,
         \A k \in 1..lin : Taken(ch, im.from, im.recs[k])
  PROVE  appendRecord(ch, im.recs[lin + 1]).chain.state = ChainQuarantined
<1> DEFINE r == im.recs[lin + 1]
           s == r.seq
           a == appendRecord(ch, r)
<1>1. /\ r \in Records /\ Passed(r) /\ s \in 0..lin - 1
      /\ im.recs[s + 1].id # r.id
  BY DEF BatchShape
<1>2. lin \in Nat /\ s \in Nat /\ s + 1 \in 1..lin
  BY <1>1
<1>3. im.recs[s + 1] \in Records /\ im.recs[s + 1].seq = 1 + (s + 1) - 2
  BY <1>2 DEF BatchShape
<1>4. Taken(ch, 1, im.recs[s + 1])
  BY <1>2
<1>5. holds(ch, im.recs[s + 1]) /\ im.recs[s + 1].seq = s
  BY <1>2, <1>3, <1>4 DEF Taken
<1>6. s < Len(linear(ch)) /\ linear(ch)[s + 1].id = im.recs[s + 1].id
  BY <1>5 DEF holds
<1>7. ActiveOK(did, ch, 2)
  <2>1. ch # NoChain
    BY <1>3, <1>4, NothingTaken
  <2>2. ~QuarantinedOK(did, ch)
    BY DEF QuarantinedOK
  <2> QED
    BY <2>1, <2>2 DEF ChainOK
<1>8. linear(ch) = ch.events
  BY DEF linear
<1>9. Len(ch.events) \in Nat /\ lastOf(ch.events).seq = Len(ch.events) - 1
  BY <1>7, HeadFacts
<1>10. r.seq <= lastOf(ch.events).seq /\ ch.events[r.seq + 1].id # r.id
  BY <1>1, <1>2, <1>6, <1>8, <1>9
<1>11. a = Result(quarantine(ch, ch.events[r.seq + 1], r), "EQUIVOCATION")
  BY <1>1, <1>7, <1>10 DEF appendRecord, Passed, appendToChain, ActiveOK
<1>12. QuarantinedOK(did, quarantine(ch, ch.events[r.seq + 1], r))
  BY <1>1, <1>7, <1>10, QuarantineOK
<1>13. a.chain = quarantine(ch, ch.events[r.seq + 1], r)
  BY <1>11 DEF Result
<1> QED
  BY <1>12, <1>13 DEF QuarantinedOK

\* One loop iteration of ImportBatch.
LEMMA BatchStep ==
  ASSUME NEW ch, NEW im \in ImportType, ChainOK(im.did, ch), ~Ended(im),
         im.i \in 1..Len(im.recs), \A k \in 1..Len(im.recs) : im.recs[k].chain = im.did,
         BatchOK(im, ch), NEW nx,
         nx.recs = im.recs, nx.from = im.from,
         appendRecord(ch, im.recs[im.i]).err # None =>
           nx.err = appendRecord(ch, im.recs[im.i]).err /\ nx.i = im.i,
         appendRecord(ch, im.recs[im.i]).err = None => nx.err = None /\ nx.i = im.i + 1
  PROVE  BatchOK(nx, appendRecord(ch, im.recs[im.i]).chain)
<1> DEFINE r == im.recs[im.i]
           a == appendRecord(ch, r)
<1>1. PICK lin \in 0..Len(im.recs) : BatchShape(im, lin) /\ BatchDone(im, lin, ch)
  BY DEF BatchOK
<1>2. BatchShape(nx, lin)
  BY <1>1 DEF BatchShape
<1>3. im.err = None /\ im.i \in Nat /\ lin \in Nat /\ Len(im.recs) \in Nat /\ r.chain = im.did
  BY <1>1 DEF Ended, ImportType
<1>4. r \in Stored
  BY DEF ImportType
<1> SUFFICES BatchDone(nx, lin, a.chain)
  BY <1>1, <1>2 DEF BatchOK
<1>5. CASE ch.state = ChainQuarantined
  <2>1. StepOK(im.did, ch, a)
    BY <1>3, <1>4, AppendOK
  <2> QED
    BY <1>5, <2>1 DEF StepOK, BatchDone
<1>6. CASE im.from # 1 /\ lin < im.i
  <2>1. CASE a.err # None
    BY <1>6, <2>1 DEF BatchDone
  <2>2. CASE a.err = None
    <3>1. im.i # Len(im.recs)
      BY <1>1, <1>3, <1>6, <2>2, AppendRefuses DEF BatchShape
    <3>2. lin < im.i + 1 /\ im.i + 1 <= Len(im.recs)
      BY <1>3, <1>6, <3>1
    <3> HIDE DEF a
    <3> QED
      BY <1>6, <2>2, <3>2 DEF BatchDone, a
  <2> QED
    BY <2>1, <2>2
<1>7. CASE /\ ch.state # ChainQuarantined /\ im.i <= lin + 1
           /\ \A k \in 1..im.i - 1 : Taken(ch, im.from, im.recs[k])
           /\ ~(im.from # 1 /\ lin < im.i)
  <2>1. CASE im.i <= lin
    <3>1. im.i \in 1..lin
      BY <1>3, <2>1
    <3>2. \/ a.chain.state = ChainQuarantined
          \/ a.err # None /\ im.from # 1
          \/ a.err = None /\ \A k \in 1..im.i : Taken(a.chain, im.from, im.recs[k])
      BY <1>1, <1>3, <1>7, <3>1, LinearStep
    <3>3. im.i + 1 <= lin + 1 /\ (im.i + 1) - 1 = im.i
      BY <1>3, <2>1
    <3>4. a.err # None => nx.err # None
      OBVIOUS
    <3>5. a.err = None => nx.err = None /\ nx.i = im.i + 1
      OBVIOUS
    <3> HIDE DEF a
    <3> QED
      BY <3>2, <3>3, <3>4, <3>5 DEF BatchDone
  <2>2. CASE ~(im.i <= lin)
    <3>a. lin < im.i /\ im.i = lin + 1 /\ im.i - 1 = lin
      BY <1>3, <1>7, <2>2
    <3>b. lin < Len(im.recs)
      BY <1>3, <3>a
    <3>1. im.i = lin + 1 /\ im.i - 1 = lin /\ im.from = 1 /\ lin < Len(im.recs)
      BY <1>7, <3>a, <3>b
    <3>2. a.chain.state = ChainQuarantined
      BY <1>1, <1>3, <1>7, <3>1, ForkStep
    <3> QED
      BY <3>2 DEF BatchDone
  <2> QED
    BY <2>1, <2>2
<1> QED
  BY <1>1, <1>3, <1>5, <1>6, <1>7 DEF BatchDone

\* What Events hands out has the shape of a batch.
LEMMA BatchBegin ==
  ASSUME NEW did, NEW src, ChainOK(did, src), NEW k \in 1..Len(src.events), NEW start, NEW ch
  PROVE  BatchOK(Import(did, SubSeq(src.events, k, Len(src.events)), k, start), ch)
<1> DEFINE n == Len(src.events)
           recs == SubSeq(src.events, k, n)
           im == Import(did, recs, k, start)
<1>1. src.events \in Seq(Stored) /\ n \in Nat
  BY EventsOfChain
<1>2. /\ Len(recs) = n - k + 1
      /\ \A j \in 1..n - k + 1 : recs[j] = src.events[k + j - 1]
  BY <1>1
<1>3. im.recs = recs /\ im.from = k /\ im.i = 1 /\ im.err = None
  BY DEF Import
<1> HIDE DEF recs, im
<1>4. ASSUME NEW lin \in 0..Len(recs) PROVE BatchDone(im, lin, ch)
  <2>1. 1 <= lin + 1 /\ 1..1 - 1 = {}
    BY <1>1, <1>2
  <2> QED
    BY <1>3, <2>1 DEF BatchDone
<1>5. ASSUME NEW m \in Nat, m <= n,
             \A i \in 1..m :
               /\ src.events[i] \in Records /\ Passed(src.events[i]) /\ src.events[i].seq = i - 1
               /\ src.events[i].prev = IF i = 1 THEN GenesisPrev ELSE src.events[i - 1].id,
             NEW lin \in 0..m, lin > 0 => lin = m - k + 1
      PROVE  \A j \in 1..lin :
               /\ recs[j] \in Records /\ Passed(recs[j])
               /\ recs[j].seq = k + j - 2
               /\ j > 1 => recs[j].prev = recs[j - 1].id
               /\ k = 1 /\ j = 1 => recs[j].prev = GenesisPrev
  <2> TAKE j \in 1..lin
  <2>1. k + j - 1 \in 1..m /\ j \in 1..n - k + 1 /\ (k + j - 1) - 1 = k + j - 2
    BY <1>1, <1>5
  <2>2. recs[j] = src.events[k + j - 1]
    BY <1>2, <2>1
  <2>3. j > 1 => recs[j - 1] = src.events[(k + j - 1) - 1] /\ k + j - 1 # 1
    <3> SUFFICES ASSUME j > 1 PROVE recs[j - 1] = src.events[(k + j - 1) - 1] /\ k + j - 1 # 1
      OBVIOUS
    <3>1. j - 1 \in 1..n - k + 1 /\ k + (j - 1) - 1 = (k + j - 1) - 1 /\ k + j - 1 # 1
      BY <1>1, <2>1
    <3> QED
      BY <1>2, <3>1
  <2>4. k = 1 /\ j = 1 => k + j - 1 = 1
    OBVIOUS
  <2> DEFINE i == k + j - 1
  <2>5. /\ src.events[i] \in Records /\ Passed(src.events[i]) /\ src.events[i].seq = i - 1
        /\ src.events[i].prev = IF i = 1 THEN GenesisPrev ELSE src.events[i - 1].id
    BY <1>5, <2>1
  <2> QED
    BY <2>1, <2>2, <2>3, <2>4, <2>5
<1>6. CASE src = NoChain
  <2>1. n = 0
    BY <1>6 DEF NoChain
  <2> QED
    BY <2>1
<1>7. CASE ActiveOK(did, src, 2)
  <2> DEFINE lin == n - k + 1
  <2>1. lin \in 0..Len(recs) /\ lin \in 0..n /\ ~(lin < Len(recs)) /\ Len(recs) <= lin + 2
    BY <1>1, <1>2
  <2>2. \A i \in 1..n :
          /\ src.events[i] \in Records /\ Passed(src.events[i]) /\ src.events[i].seq = i - 1
          /\ src.events[i].prev = IF i = 1 THEN GenesisPrev ELSE src.events[i - 1].id
    BY <1>7 DEF ActiveOK, Linear
  <2> HIDE DEF lin
  <2>3. n <= n /\ (lin > 0 => lin = n - k + 1)
    BY <1>1 DEF lin
  <2>4. \A j \in 1..lin :
          /\ recs[j] \in Records /\ Passed(recs[j])
          /\ recs[j].seq = k + j - 2
          /\ j > 1 => recs[j].prev = recs[j - 1].id
          /\ k = 1 /\ j = 1 => recs[j].prev = GenesisPrev
    BY <1>1, <1>5, <2>1, <2>2, <2>3
  <2>5. BatchShape(im, lin)
    BY <1>3, <2>1, <2>4 DEF BatchShape
  <2> QED
    BY <1>3, <1>4, <2>1, <2>5 DEF BatchOK, im, recs
<1>8. CASE QuarantinedOK(did, src)
  <2> DEFINE m == n - 2
             lin == IF k <= m THEN m - k + 1 ELSE 0
             ev == SubSeq(src.events, 1, m)
  <2>1. /\ n >= 3 /\ Linear(did, ev) /\ ~src.events[n].ok
        /\ src.events[n - 1] \in Records /\ Passed(src.events[n - 1])
        /\ src.events[n - 1].seq \in 0..n - 3
        /\ src.events[src.events[n - 1].seq + 1].id # src.events[n - 1].id
    BY <1>8 DEF QuarantinedOK
  <2>2. m \in Nat /\ m <= n /\ m >= 1
    BY <1>1, <2>1
  <2>3. Len(ev) = m /\ \A i \in 1..m : ev[i] = src.events[i]
    BY <1>1, <2>2
  <2> HIDE DEF ev
  <2>4. \A i \in 1..m :
          /\ src.events[i] \in Records /\ Passed(src.events[i]) /\ src.events[i].seq = i - 1
          /\ src.events[i].prev = IF i = 1 THEN GenesisPrev ELSE src.events[i - 1].id
    <3> TAKE i \in 1..m
    <3>1. i # 1 => i - 1 \in 1..m
      BY <2>2
    <3> QED
      BY <2>1, <2>3, <3>1 DEF Linear
  <2>5. /\ lin \in 0..Len(recs) /\ lin \in 0..m /\ (lin > 0 => lin = m - k + 1)
        /\ Len(recs) <= lin + 2 /\ lin < Len(recs) /\ (k = 1 => Len(recs) = lin + 2 /\ lin = m)
    BY <1>1, <1>2, <2>2
  <2> HIDE DEF lin, m
  <2>6. \A j \in 1..lin :
          /\ recs[j] \in Records /\ Passed(recs[j])
          /\ recs[j].seq = k + j - 2
          /\ j > 1 => recs[j].prev = recs[j - 1].id
          /\ k = 1 /\ j = 1 => recs[j].prev = GenesisPrev
    BY <1>5, <2>2, <2>4, <2>5
  <2>7. recs[Len(recs)] = src.events[n]
    <3>1. Len(recs) \in 1..n - k + 1 /\ k + Len(recs) - 1 = n
      BY <1>1, <1>2
    <3> QED
      BY <1>2, <3>1
  <2>8. k = 1 =>
          /\ recs[lin + 1] \in Records /\ Passed(recs[lin + 1])
          /\ recs[lin + 1].seq \in 0..lin - 1
          /\ recs[recs[lin + 1].seq + 1].id # recs[lin + 1].id
    <3> SUFFICES ASSUME k = 1
                 PROVE  /\ recs[lin + 1] \in Records /\ Passed(recs[lin + 1])
                        /\ recs[lin + 1].seq \in 0..lin - 1
                        /\ recs[recs[lin + 1].seq + 1].id # recs[lin + 1].id
      OBVIOUS
    <3>1. lin + 1 = n - 1 /\ lin - 1 = n - 3 /\ lin + 1 \in 1..n
      BY <1>1, <2>1, <2>5 DEF m
    <3>2. \A j \in 1..n : recs[j] = src.events[j]
      <4> TAKE j \in 1..n
      <4>1. j \in 1..n - k + 1 /\ k + j - 1 = j
        BY <1>1
      <4> QED
        BY <1>2, <4>1
    <3>3. recs[lin + 1] = src.events[n - 1]
      BY <3>1, <3>2
    <3> DEFINE s == src.events[n - 1].seq
    <3>4. s \in 0..n - 3
      BY <2>1
    <3> HIDE DEF s
    <3>5. s + 1 \in 1..n
      BY <1>1, <3>4
    <3>6. recs[s + 1] = src.events[s + 1]
      BY <3>2, <3>5
    <3> QED
      BY <2>1, <3>1, <3>3, <3>6 DEF s
  <2>9. BatchShape(im, lin)
    BY <1>3, <2>1, <2>5, <2>6, <2>7, <2>8 DEF BatchShape
  <2> QED
    BY <1>3, <1>4, <2>5, <2>9 DEF BatchOK, im, recs
<1> QED
  BY <1>6, <1>7, <1>8 DEF ChainOK

\* No batch is open at the start.
LEMMA InitBatches == Init => Batches
  BY DEF Init, Batches

\* A step of an import keeps what is known of its batch, and ends it as the batch decided.
LEMMA ImportStepBatches ==
  ASSUME Inv, Batches, NEW p \in Replicas, ImportStep(p)
  PROVE  Batches'
<1> DEFINE im == imp[p]
           did == im.did
           ch == led[p][did]
           r == im.recs[im.i]
           a == appendRecord(ch, r)
           nx == IF a.err # None THEN [im EXCEPT !.err = a.err]
                 ELSE [im EXCEPT !.i = @ + 1, !.res = disposition(@, ch, a.chain)]
<1>1. /\ imp[p] # None /\ ~Ended(im)
      /\ led' = [led EXCEPT ![p][did] = appendRecord(@, r).chain]
      /\ imp' = [imp EXCEPT ![p] = nx]
      /\ att' = att
  BY DEF ImportStep, Inv
<1>2. ImportOK(im, ch) /\ im \in ImportType /\ did \in Chains /\ BatchOK(im, ch)
  BY <1>1 DEF Inv, ImportOK, ImportType, Batches
<1>3. im.recs \in Seq(Stored) /\ im.i \in 1..Len(im.recs) /\ im.err = None /\ im.i \in Nat
  BY <1>1, <1>2 DEF ImportOK, ImportType, Ended
<1>4. r \in Stored /\ r.chain = did /\ \A k \in 1..Len(im.recs) : im.recs[k].chain = did
  BY <1>2, <1>3 DEF ImportOK
<1>5. /\ led' \in [Replicas -> [Chains -> Chain]]
      /\ led'[p][did] = a.chain
      /\ StepOK(did, ch, a)
      /\ \A q \in Replicas, d \in Chains : q # p \/ d # did => led'[q][d] = led[q][d]
      /\ \A q \in Replicas, d \in Chains : ChainOK(d, led'[q][d])
      /\ \A b \in att' : /\ b.of \in Replicas /\ b.chain \in Chains
                         /\ AttestationOK(b, led'[b.of][b.chain])
  BY <1>1, <1>2, <1>4, LedStep
<1>6. ChainOK(did, ch)
  BY <1>2 DEF Inv
<1>7. /\ nx.recs = im.recs /\ nx.from = im.from /\ nx.did = did
      /\ a.err # None => nx.err = a.err /\ nx.i = im.i
      /\ a.err = None => nx.err = None /\ nx.i = im.i + 1
  <2>1. CASE a.err # None
    <3>1. nx = [im EXCEPT !.err = a.err]
      BY <2>1
    <3> HIDE DEF nx, a
    <3> QED
      BY <1>2, <2>1, <3>1 DEF ImportType
  <2>2. CASE a.err = None
    <3> DEFINE res == disposition(im.res, ch, a.chain)
    <3>1. nx = [im EXCEPT !.i = im.i + 1, !.res = res]
      BY <2>2
    <3> HIDE DEF nx, a, res
    <3> QED
      BY <1>2, <1>3, <2>2, <3>1 DEF ImportType
  <2> QED
    BY <2>1, <2>2
<1>8. BatchOK(nx, a.chain)
  <2> HIDE DEF nx, im, ch
  <2> QED
    BY <1>1, <1>2, <1>3, <1>4, <1>6, <1>7, BatchStep
<1> HIDE DEF nx, a
<1>9. imp'[p] = nx /\ \A q \in Replicas : q # p => imp'[q] = imp[q]
  BY <1>1 DEF Inv
<1> SUFFICES ASSUME NEW q \in Replicas, imp'[q] # None
             PROVE  BatchOK(imp'[q], led'[q][imp'[q].did])
  BY DEF Batches
<1>10. CASE q = p
  BY <1>5, <1>7, <1>8, <1>9, <1>10
<1>11. CASE q # p
  <2>1. imp'[q] = imp[q] /\ BatchOK(imp[q], led[q][imp[q].did]) /\ imp[q].did \in Chains
    BY <1>9, <1>11 DEF Inv, Batches, ImportOK, ImportType
  <2> QED
    BY <1>5, <1>11, <2>1
<1> QED
  BY <1>10, <1>11

\* Every step.
LEMMA NextBatches ==
  ASSUME Inv, Batches, [Next]_vars
  PROVE  Batches'
<1>1. ASSUME NEW p \in Replicas, NEW r \in Records, Deliver(p, r) PROVE Batches'
  <2>1. r \in Stored /\ r.chain \in Chains
    BY RecordFacts DEF Stored
  <2>2. led' = [led EXCEPT ![p][r.chain] = appendRecord(@, r).chain] /\ att' = att /\ imp' = imp
        /\ imp[p] = None
    BY <1>1 DEF Deliver
  <2>3. \A q \in Replicas, d \in Chains : q # p \/ d # r.chain => led'[q][d] = led[q][d]
    BY <2>1, <2>2, LedStep
  <2> SUFFICES ASSUME NEW q \in Replicas, imp[q] # None
               PROVE  BatchOK(imp[q], led'[q][imp[q].did])
    BY <2>2 DEF Batches
  <2>4. BatchOK(imp[q], led[q][imp[q].did]) /\ imp[q].did \in Chains
    BY DEF Inv, Batches, ImportOK, ImportType
  <2> QED
    BY <2>2, <2>3, <2>4
<1>2. ASSUME NEW p \in Replicas, NEW q \in Replicas \ {p}, NEW did \in Chains,
             ImportBegin(p, q, did) PROVE Batches'
  <2> DEFINE src == led[q][did]
             start == Len(led[p][did].events)
  <2>1. PICK k \in 1..Len(src.events) :
          /\ imp' = [imp EXCEPT ![p] = Import(did, SubSeq(src.events, k, Len(src.events)), k, start)]
          /\ led' = led
    BY <1>2 DEF ImportBegin
  <2>2. ChainOK(did, src)
    BY DEF Inv
  <2> DEFINE im == Import(did, SubSeq(src.events, k, Len(src.events)), k, start)
  <2>3. \A ch : BatchOK(im, ch)
    <3> HIDE DEF src, start
    <3> QED
      BY <2>2, BatchBegin
  <2> HIDE DEF im
  <2>4. imp'[p] = im /\ \A s \in Replicas : s # p => imp'[s] = imp[s]
    BY <2>1 DEF Inv, im
  <2> QED
    BY <2>1, <2>3, <2>4 DEF Batches
<1>3. ASSUME NEW p \in Replicas, ImportStep(p) PROVE Batches'
  BY <1>3, ImportStepBatches
<1>4. ASSUME NEW p \in Replicas, ImportReturn(p) PROVE Batches'
  <2>1. led' = led /\ imp' = [imp EXCEPT ![p] = None]
    BY <1>4 DEF ImportReturn
  <2>2. \A q \in Replicas : imp'[q] # None => imp'[q] = imp[q]
    BY <2>1 DEF Inv
  <2> QED
    BY <2>1, <2>2 DEF Batches
<1>5. ASSUME NEW p \in Replicas, NEW did \in Chains, NEW w \in Witnesses, Attest(p, did, w) PROVE Batches'
  BY <1>5 DEF Attest, Batches
<1>6. CASE UNCHANGED vars
  BY <1>6 DEF Batches, vars
<1> QED
  BY <1>1, <1>2, <1>3, <1>4, <1>5, <1>6 DEF Next

\* What is taken is on the chain, by id, or staged.
LEMMA TakenFacts ==
  ASSUME NEW ch, NEW from, NEW r, Taken(ch, from, r)
  PROVE  holds(ch, r) \/ \E x \in ch.staged : x.id = r.id
  BY DEF Taken, StagedHere

\* Two replicas that disagree find out by comparing (ImportBatch, Append): an import that ended
\* quarantined the chain, took every record, or reported an error of a partial batch.
THEOREM ForkEvident == Spec => []ImportForkEvident
<1>1. Spec => []Batches
  <2>1. Inv /\ Batches /\ [Next]_vars => Batches'
    BY NextBatches
  <2> QED
    BY <2>1, InitBatches, Invariance, PTL DEF Spec
<1>2. Inv /\ Batches => ImportForkEvident
  <2> SUFFICES ASSUME Inv, Batches, NEW p \in Replicas, imp[p] # None, Ended(imp[p])
               PROVE  LET im == imp[p]
                          ch == led[p][im.did]
                      IN  \/ ch.state = ChainQuarantined
                          \/ \A k \in 1..Len(im.recs) :
                               holds(ch, im.recs[k]) \/ \E x \in ch.staged : x.id = im.recs[k].id
                          \/ im.err # None /\ im.from # 1
    BY DEF ImportForkEvident
  <2> DEFINE im == imp[p]
             ch == led[p][im.did]
  <2>1. PICK lin \in 0..Len(im.recs) : BatchDone(im, lin, ch)
    BY DEF Batches, BatchOK
  <2>2. im.i \in 1..Len(im.recs) + 1 /\ Len(im.recs) \in Nat
    BY DEF Inv, ImportOK, ImportType
  <2>3. im.err # None \/ im.i > Len(im.recs)
    BY DEF Ended
  <2> HIDE DEF im, ch
  <2>4. CASE im.err = None /\ im.i <= lin + 1 /\ \A k \in 1..im.i - 1 : Taken(ch, im.from, im.recs[k])
    <3>1. im.i - 1 = Len(im.recs)
      BY <2>2, <2>3, <2>4
    <3>2. \A k \in 1..Len(im.recs) : Taken(ch, im.from, im.recs[k])
      BY <2>4, <3>1
    <3>3. \A k \in 1..Len(im.recs) : holds(ch, im.recs[k]) \/ \E x \in ch.staged : x.id = im.recs[k].id
      BY <3>2, TakenFacts
    <3> QED
      BY <3>3 DEF im, ch
  <2>5. ~(im.err = None /\ im.from # 1 /\ lin < im.i /\ im.i <= Len(im.recs))
    BY <2>2, <2>3
  <2>6. CASE ch.state = ChainQuarantined
    BY <2>6 DEF im, ch
  <2>7. CASE im.err # None /\ im.from # 1
    BY <2>7 DEF im, ch
  <2> QED
    BY <2>1, <2>4, <2>5, <2>6, <2>7 DEF BatchDone
<1> QED
  BY <1>1, <1>2, Invariance, PTL
=============================================================================
