--------------------------- MODULE EncKeysProofs ---------------------------
(***************************************************************************)
(* Theorems about EncKeys, for any epoch, retention and clock skew, any    *)
(* number of sets and rotations.                                           *)
(***************************************************************************)
EXTENDS EncKeys, FiniteSetTheorems, SequenceTheorems, WellFoundedInduction, TLAPS

-----------------------------------------------------------------------------
(* The inductive invariant. *)

KeysOf(e, g) == [i \in 1 .. EpochsAhead + 1 |-> EncKey(e + i - 1, g)]

ClockOK == now \in Nat /\ StartTime <= now /\ now <= MaxTime /\ lastSeq \in Nat /\ gen \in 0..1

IsKEL(kel) == kel \in Seq({kel[i] : i \in DOMAIN kel}) /\ Len(kel) > 0

\* The owner has no event under way, so it signs with the key state of its KEL's head.
AgentOK ==
  /\ agent = [ kel |-> agent.kel, cur |-> agent.cur, hot |-> agent.hot,
               pending |-> None, state |-> agent.state ]
  /\ IsKEL(agent.kel)
  /\ last(agent.kel).seq \in Int

\* A set holds the keys of consecutive epochs, out of one key file, and was signed under a key
\* state the owner has reached.
SetsMade ==
  \A x \in published :
    /\ SignEncKeySetAccepts(x.set)
    /\ x.set.seq \in Nat /\ x.set.issuedAt \in Int /\ x.set.issuedAt <= x.set.seq
    /\ x.keySeq \in Int /\ x.keySeq <= last(agent.kel).seq
    /\ \E e \in Int, g \in 0..gen : x.set.keys = KeysOf(e, g)

\* The seqs of the current key file count up to lastSeq.
SeqsBehind == \A x \in published : FileOf(x) = gen => x.set.seq <= lastSeq

\* The sets made from the key file g.
SetsOf(g) == {x \in published : FileOf(x) = g}

\* A seq is ahead of some clock reading of the sets S by less than their number.
Reached(n, S) == \E z \in S : n < z.set.issuedAt + Cardinality(S)

SeqsReached ==
  /\ \A x \in published : Reached(x.set.seq, SetsOf(FileOf(x)))
  /\ lastSeq = 0 \/ Reached(lastSeq, SetsOf(gen))

\* Within a key file a seq names its set and follows the key states.
FileOrdered ==
  \A x, y \in published :
    FileOf(x) = FileOf(y) => /\ x.set.seq = y.set.seq => x = y
                             /\ x.keySeq < y.keySeq => x.set.seq < y.set.seq

\* A seq runs ahead of the clock by at most one for each set.
SeqsBounded ==
  /\ IsFiniteSet(published) /\ Cardinality(published) <= MaxSets
  /\ lastSeq <= MaxTime + Skew + Cardinality(published)

RingOK == \A k \in ring : check(k) /\ k.kid[2] = gen

\* A key of the current file is still there until its time has come.
KeysKept ==
  \A x \in published : \A i \in 1 .. EpochsAhead + 1 :
    FileOf(x) = gen =>
      \/ x.set.keys[i] \in ring
      \/ now + Skew >= x.set.keys[i].notAfter + MaxMessageLifetime

SeenOK == seen \in published \cup {None}

\* The consumer's KEL is one the owner had, and reaches the key state of the set it holds.
HeldOK ==
  /\ Len(held) \in Nat /\ Len(held) <= Len(agent.kel)
  /\ seen # None => seen.keySeq < Len(held)

\* An envelope is sealed to a key of a published set, and one at the hub was in time for it.
MailOK ==
  mail # None =>
    /\ mail = [key |-> mail.key, at |-> mail.at]
    /\ \E x \in published : \E i \in 1 .. EpochsAhead + 1 : mail.key = x.set.keys[i]
    /\ mail.at # None => mail.at \in Int /\ mail.at <= mail.key.notAfter + DeliveryDeadline

UnknownOK == \A kid \in unknown : kid[2] \in Int

Inv ==
  /\ ClockOK /\ AgentOK /\ SetsMade /\ SeqsBehind /\ SeqsReached /\ SeqsBounded /\ FileOrdered
  /\ RingOK /\ KeysKept /\ SeenOK /\ HeldOK /\ MailOK /\ UnknownOK /\ SealedIsOpenable

-----------------------------------------------------------------------------
(* Lemmas on keys. *)

\* A set of positions has a first and a last one.
LEMMA FirstAndLast ==
  ASSUME NEW n \in Nat, NEW S \in SUBSET (1..n), S # {}
  PROVE  /\ \E i \in S : \A j \in S : i <= j
         /\ \E i \in S : \A j \in S : j <= i
<1>1. ASSUME NEW T \in SUBSET Nat, T # {} PROVE \E i \in T : \A j \in T : i <= j
  <2> DEFINE R == OpToRel(<, Nat)
  <2>1. IsWellFoundedOn(R, Nat)
    BY NatLessThanWellFounded
  <2>2. \A i, j \in Nat : i < j => <<i, j>> \in R
    BY DEF OpToRel
  <2> HIDE DEF R
  <2>a. T \subseteq Nat /\ T # {}
    BY <1>1
  <2>b. \E m \in T : \A k \in T : ~(<<k, m>> \in R)
    BY <2>a, <2>1, WFMin, Zenon
  <2>3. PICK m \in T : \A k \in T : ~(<<k, m>> \in R)
    BY <2>b
  <2>c. \A j \in T : ~(j < m)
    BY <2>2, <2>3, <2>a, Zenon
  <2>4. \A j \in T : m <= j
    BY <2>c, <2>a
  <2> QED
    BY <2>4
<1>2. \E i \in S : \A j \in S : i <= j
  BY <1>1
<1> DEFINE T == {k \in 0..n : n - k \in S}
<1>3. T # {} /\ T \in SUBSET Nat
  <2>1. PICK i \in S : TRUE
    OBVIOUS
  <2>2. n - i \in 0..n /\ n - (n - i) = i
    OBVIOUS
  <2>3. n - i \in T
    BY <2>2
  <2>4. T \in SUBSET Nat
    OBVIOUS
  <2> QED
    BY <2>3, <2>4
<1>4. PICK k \in T : \A j \in T : k <= j
  BY <1>1, <1>3
<1>5. ASSUME NEW j \in S PROVE j <= n - k
  <2>1. n - j \in 0..n /\ n - (n - j) = j
    OBVIOUS
  <2>2. n - j \in T
    BY <2>1
  <2> QED
    BY <1>4, <2>2
<1> HIDE DEF T
<1>6. n - k \in S
  BY <1>4 DEF T
<1> QED
  BY <1>2, <1>5, <1>6

\* The keys of a set, written out (EncKeySet, EncKey).
LEMMA KeysFacts ==
  ASSUME NEW e \in Int, NEW g \in Int
  PROVE  /\ Len(KeysOf(e, g)) = EpochsAhead + 1
         /\ EpochsAhead + 1 \in Nat /\ 1 \in 1 .. EpochsAhead + 1
         /\ \A i \in 1 .. EpochsAhead + 1 :
              /\ KeysOf(e, g)[i].kid[2] = g
              /\ KeysOf(e, g)[i].notBefore \in Int /\ KeysOf(e, g)[i].notAfter \in Int
              /\ KeysOf(e, g)[i] # None
         /\ \A i, j \in 1 .. EpochsAhead + 1 :
              i < j => KeysOf(e, g)[i].notBefore < KeysOf(e, g)[j].notBefore
<1>0. EpochsAhead \in Nat /\ Epoch \in Nat /\ Epoch > 0
  BY LimitsAssumption
<1>2. Len(KeysOf(e, g)) = EpochsAhead + 1
  BY <1>0 DEF KeysOf
<1>3. ASSUME NEW i \in 1 .. EpochsAhead + 1
      PROVE  /\ KeysOf(e, g)[i].kid[2] = g
             /\ KeysOf(e, g)[i].notBefore \in Int /\ KeysOf(e, g)[i].notAfter \in Int
             /\ KeysOf(e, g)[i] # None
             /\ KeysOf(e, g)[i].notBefore = (e + i - 1) * Epoch
  <2> DEFINE su == IF e + i - 1 \in Later THEN SuiteXWing ELSE SuiteX25519
  <2>0. su \in Int
    BY DEF SuiteXWing, SuiteX25519
  <2>1. KeysOf(e, g)[i] = [ kid |-> <<e + i - 1, g>>, suite |-> su,
                            notBefore |-> (e + i - 1) * Epoch,
                            notAfter |-> (e + i - 1 + 1) * Epoch ]
    BY <1>0 DEF KeysOf, EncKey
  <2> HIDE DEF su
  <2>2. (e + i - 1) * Epoch \in Int /\ (e + i - 1 + 1) * Epoch \in Int /\ e + i - 1 \in Int
    BY <1>0
  <2>3. KeysOf(e, g)[i] \in [kid : Int \X Int, suite : Int, notBefore : Int, notAfter : Int]
    BY <2>0, <2>1, <2>2
  <2> QED
    BY <2>1, <2>2, <2>3, NoneAssumption
<1>4. ASSUME NEW i \in 1 .. EpochsAhead + 1, NEW j \in 1 .. EpochsAhead + 1, i < j
      PROVE  (e + i - 1) * Epoch < (e + j - 1) * Epoch
  <2> DEFINE a == e + i - 1
             d == j - i
  <2>1. a \in Int /\ d \in Int /\ d >= 1 /\ e + j - 1 = a + d
    BY <1>0, <1>4
  <2> HIDE DEF a, d
  <2>2. (a + d) * Epoch = a * Epoch + d * Epoch
    BY <2>1, <1>0
  <2>3. d * Epoch >= Epoch
    BY <2>1, <1>0
  <2>4. a * Epoch \in Int /\ d * Epoch \in Int
    BY <2>1, <1>0
  <2>5. a * Epoch < (e + j - 1) * Epoch
    BY <2>1, <2>2, <2>3, <2>4, <1>0
  <2> QED
    BY <2>5 DEF a
<1>5. \A i, j \in 1 .. EpochsAhead + 1 :
        i < j => KeysOf(e, g)[i].notBefore < KeysOf(e, g)[j].notBefore
  <2> SUFFICES ASSUME NEW i \in 1 .. EpochsAhead + 1, NEW j \in 1 .. EpochsAhead + 1, i < j
               PROVE  KeysOf(e, g)[i].notBefore < KeysOf(e, g)[j].notBefore
    OBVIOUS
  <2>1. /\ KeysOf(e, g)[i].notBefore = (e + i - 1) * Epoch
        /\ KeysOf(e, g)[j].notBefore = (e + j - 1) * Epoch
    BY <1>3
  <2> QED
    BY <2>1, <1>4
<1>6. EpochsAhead + 1 \in Nat /\ 1 \in 1 .. EpochsAhead + 1
  BY <1>0
<1> QED
  BY <1>2, <1>3, <1>5, <1>6

\* SelectKey gives a key of the set, of a supported suite, and does so whenever one of those
\* that make the set valid is of such a suite.
LEMMA SelectKeyFacts ==
  ASSUME NEW s, NEW e \in Int, NEW g \in Int, s.keys = KeysOf(e, g), NEW t \in Int
  PROVE  /\ SelectKey(s, t) # None =>
              \E i \in 1 .. EpochsAhead + 1 :
                SelectKey(s, t) = s.keys[i] /\ Supported(s.keys[i].suite)
         /\ \A i \in 1 .. Len(s.keys) :
              ValidAt(s.keys[i], t + ClockSkew) /\ Supported(s.keys[i].suite) =>
                SelectKey(s, t) # None
<1> DEFINE n     == EpochsAhead + 1
           nb(i) == s.keys[i].notBefore
           mine  == {i \in 1..Len(s.keys) : Supported(s.keys[i].suite)}
           valid == {i \in mine : ValidAt(s.keys[i], t)}
           soon  == {i \in mine : ValidAt(s.keys[i], t + ClockSkew)}
           v == CHOOSE i \in valid : \A j \in valid : nb(j) < nb(i) \/ (nb(j) = nb(i) /\ j <= i)
           w == CHOOSE i \in soon : \A j \in soon : nb(j) > nb(i) \/ (nb(j) = nb(i) /\ j >= i)
<1>0. /\ n \in Nat /\ Len(s.keys) = n
      /\ \A i \in 1..n : s.keys[i] # None /\ nb(i) \in Int
      /\ \A i, j \in 1..n : i < j => nb(i) < nb(j)
  <2>1. n \in Nat /\ Len(s.keys) = n
    BY KeysFacts
  <2>2. ASSUME NEW i \in 1..n PROVE s.keys[i] # None /\ nb(i) \in Int
    BY KeysFacts
  <2>3. ASSUME NEW i \in 1..n, NEW j \in 1..n, i < j PROVE nb(i) < nb(j)
    BY <2>3, KeysFacts
  <2> HIDE DEF n, nb
  <2> QED
    BY <2>1, <2>2, <2>3
<1>1. SelectKey(s, t) = IF valid # {} THEN s.keys[v] ELSE IF soon # {} THEN s.keys[w] ELSE None
  BY DEF SelectKey
<1>2. ASSUME NEW i \in 1 .. Len(s.keys), ValidAt(s.keys[i], t + ClockSkew), Supported(s.keys[i].suite)
      PROVE  soon # {}
  BY <1>2
<1> HIDE DEF n, nb
<1>3. ASSUME valid # {} PROVE v \in 1..n /\ Supported(s.keys[v].suite)
  <2>1. valid \in SUBSET (1..n)
    BY <1>0
  <2>2. PICK i \in valid : \A j \in valid : j <= i
    BY <1>0, <1>3, <2>1, FirstAndLast
  <2> HIDE DEF valid
  <2>3. \A j \in valid : nb(j) < nb(i) \/ (nb(j) = nb(i) /\ j <= i)
    BY <1>0, <2>1, <2>2
  <2>4. v \in valid
    BY <2>3
  <2>5. Supported(s.keys[v].suite)
    BY <2>4 DEF valid
  <2> QED
    BY <2>1, <2>4, <2>5
<1>4. ASSUME soon # {} PROVE w \in 1..n /\ Supported(s.keys[w].suite)
  <2>1. soon \in SUBSET (1..n)
    BY <1>0
  <2>2. PICK i \in soon : \A j \in soon : i <= j
    BY <1>0, <1>4, <2>1, FirstAndLast
  <2> HIDE DEF soon
  <2>3. \A j \in soon : nb(j) > nb(i) \/ (nb(j) = nb(i) /\ j >= i)
    BY <1>0, <2>1, <2>2
  <2>4. w \in soon
    BY <2>3
  <2>5. Supported(s.keys[w].suite)
    BY <2>4 DEF soon
  <2> QED
    BY <2>1, <2>4, <2>5
<1> HIDE DEF v, w, valid, soon
<1>5. SelectKey(s, t) # None =>
        \E i \in 1..n : SelectKey(s, t) = s.keys[i] /\ Supported(s.keys[i].suite)
  BY <1>1, <1>3, <1>4
<1>6. soon # {} => SelectKey(s, t) # None
  BY <1>0, <1>1, <1>3, <1>4
<1> QED
  BY <1>2, <1>5, <1>6 DEF n

-----------------------------------------------------------------------------
(* The owner's identity. *)

\* A KEL grows by an event at its end.
LEMMA AppendKEL ==
  ASSUME NEW kel, IsKEL(kel), NEW x
  PROVE  /\ IsKEL(Append(kel, x))
         /\ Len(Append(kel, x)) = Len(kel) + 1
         /\ last(Append(kel, x)) = x.event
<1> DEFINE S == {kel[i] : i \in DOMAIN kel}
           a == Append(kel, x)
<1>1. kel \in Seq(S \cup {x}) /\ kel \in Seq(S) /\ Len(kel) \in Nat
  BY DEF IsKEL
<1> HIDE DEF S
<1>2. /\ a \in Seq(S \cup {x}) /\ Len(a) = Len(kel) + 1 /\ a[Len(kel) + 1] = x
      /\ DOMAIN a = 1 .. Len(kel) + 1
  BY <1>1
<1> HIDE DEF a
<1>3. a \in Seq({a[i] : i \in DOMAIN a})
  <2>1. a \in [1 .. Len(a) -> {a[i] : i \in DOMAIN a}]
    BY <1>1, <1>2
  <2>2. Len(a) \in Nat
    BY <1>1, <1>2
  <2> QED
    BY <2>1, <2>2
<1>4. IsKEL(a) /\ last(a) = x.event
  BY <1>1, <1>2, <1>3 DEF IsKEL, last
<1> QED
  BY <1>2, <1>4 DEF a

BuiltBy(c, kind, revealed, next, emergency, witness, ts) ==
  buildLocked(c, Material(kind, revealed, next, emergency), witness, ts)

BuiltAndAdopted(c, kind, revealed, next, emergency, witness, ts) ==
  LET b == BuiltBy(c, kind, revealed, next, emergency, witness, ts)
  IN  Adopt(b, b.pending.event)

\* An event built and adopted at once is the new head, and leaves nothing under way
\* (buildLocked, Adopt).
LEMMA BuildAndAdopt ==
  ASSUME NEW c, c = [kel |-> c.kel, cur |-> c.cur, hot |-> c.hot, pending |-> None, state |-> c.state],
         IsKEL(c.kel), last(c.kel).seq \in Int,
         NEW kind, NEW revealed, NEW next, NEW emergency, NEW witness, NEW ts
  PROVE  LET r == BuiltAndAdopted(c, kind, revealed, next, emergency, witness, ts)
         IN  /\ r = [kel |-> r.kel, cur |-> r.cur, hot |-> r.hot, pending |-> None, state |-> r.state]
             /\ IsKEL(r.kel) /\ Len(r.kel) = Len(c.kel) + 1
             /\ last(r.kel).seq = last(c.kel).seq + 1
<1> DEFINE p == Material(kind, revealed, next, emergency)
           ev == buildEvent(c.kel, p, witness, ts)
           q == [kind |-> kind, revealed |-> revealed, next |-> next, emergency |-> emergency, event |-> ev]
           b == buildLocked(c, p, witness, ts)
           r == Adopt(b, b.pending.event)
<1>1. ev.event.seq = last(c.kel).seq + 1
  BY DEF buildEvent, SignedEvent
<1> HIDE DEF ev
<1>2. [p EXCEPT !.event = ev] = q
  BY DEF Material
<1>3. b = [c EXCEPT !.pending = q]
  BY <1>2 DEF buildLocked, ev
<1> HIDE DEF p, q
<1>4. b = [kel |-> c.kel, cur |-> c.cur, hot |-> c.hot, pending |-> q, state |-> c.state]
  BY <1>3
<1>5. q.event = ev
  BY DEF q
<1> HIDE DEF b
<1>6. r = [b EXCEPT !.kel = Append(@, b.pending.event), !.cur = b.pending.revealed,
                    !.hot = None, !.pending = None]
  BY DEF Adopt
<1>7. r = [ kel |-> Append(c.kel, ev), cur |-> q.revealed, hot |-> None, pending |-> None,
            state |-> c.state ]
  BY <1>4, <1>5, <1>6
<1> HIDE DEF r
<1>8. /\ r = [kel |-> r.kel, cur |-> r.cur, hot |-> r.hot, pending |-> None, state |-> r.state]
      /\ r.kel = Append(c.kel, ev)
  BY <1>7
<1>9. IsKEL(r.kel) /\ Len(r.kel) = Len(c.kel) + 1 /\ last(r.kel).seq = last(c.kel).seq + 1
  BY <1>1, <1>8, AppendKEL
<1> QED
  BY <1>8, <1>9 DEF r, b, p, BuiltAndAdopted, BuiltBy

\* The owner at the start: its icp and the rot that names its hub.
LEMMA DesignatedOK ==
  /\ Designated = [ kel |-> Designated.kel, cur |-> Designated.cur, hot |-> Designated.hot,
                    pending |-> None, state |-> Designated.state ]
  /\ IsKEL(Designated.kel) /\ last(Designated.kel).seq \in Int
<1> DEFINE c == incept(1, ToadAgent)
<1>1. /\ c = [kel |-> c.kel, cur |-> c.cur, hot |-> c.hot, pending |-> None, state |-> c.state]
      /\ \E x : c.kel = <<x>> /\ x.event.seq = 0
  BY DEF incept, inceptWith, SignedEvent
<1> HIDE DEF c
<1>2. IsKEL(c.kel) /\ last(c.kel).seq = 0
  BY <1>1 DEF IsKEL, last
<1> DEFINE planned == FALSE
           r == BuiltAndAdopted(c, "witness", c.hot, NextDigest(Seed, 2), planned, Hub, 2)
<1> HIDE DEF planned
<1>3. /\ r = [kel |-> r.kel, cur |-> r.cur, hot |-> r.hot, pending |-> None, state |-> r.state]
      /\ IsKEL(r.kel) /\ last(r.kel).seq = last(c.kel).seq + 1
  <2>1. last(c.kel).seq \in Int
    BY <1>2
  <2> QED
    BY <1>1, <1>2, <2>1, BuildAndAdopt
<1>4. Designated = r
  BY DEF Designated, BuildWitnessDesignation, c, BuiltAndAdopted, BuiltBy, planned
<1> HIDE DEF r
<1> QED
  BY <1>2, <1>3, <1>4

-----------------------------------------------------------------------------
(* The steps. *)

\* What the invariant says of one published set.
LEMMA SetFacts ==
  ASSUME ClockOK, SetsMade, NEW x \in published
  PROVE  /\ FileOf(x) \in 0..gen
         /\ Len(x.set.keys) = EpochsAhead + 1
         /\ \A i \in 1 .. EpochsAhead + 1 :
              /\ x.set.keys[i].kid[2] = FileOf(x)
              /\ x.set.keys[i].notAfter \in Int
              /\ x.set.keys[i] # None
<1>1. PICK e \in Int, g \in 0..gen : x.set.keys = KeysOf(e, g)
  BY DEF SetsMade
<1>2. g \in Int
  BY DEF ClockOK
<1>3. /\ Len(KeysOf(e, g)) = EpochsAhead + 1 /\ 1 \in 1 .. EpochsAhead + 1
      /\ \A i \in 1 .. EpochsAhead + 1 :
           /\ KeysOf(e, g)[i].kid[2] = g
           /\ KeysOf(e, g)[i].notAfter \in Int
           /\ KeysOf(e, g)[i] # None
  BY <1>2, KeysFacts
<1> QED
  BY <1>1, <1>3 DEF FileOf

\* At the start nothing is published.
LEMMA InitInv == Init => Inv
<1> SUFFICES ASSUME Init PROVE Inv
  OBVIOUS
<1>1. AgentOK
  BY DesignatedOK DEF Init, AgentOK
<1>2. ClockOK
  BY LimitsAssumption DEF Init, ClockOK
<1>3. SeqsBounded
  <2>1. IsFiniteSet({}) /\ Cardinality({}) = 0
    BY FS_EmptySet
  <2> QED
    BY <2>1, LimitsAssumption DEF Init, SeqsBounded
<1>4. SetsMade /\ SeqsBehind /\ SeqsReached /\ FileOrdered /\ KeysKept
  BY DEF Init, SetsMade, SeqsBehind, SeqsReached, FileOrdered, KeysKept
<1>5. RingOK /\ SeenOK /\ MailOK /\ UnknownOK /\ SealedIsOpenable
  BY DEF Init, RingOK, SeenOK, MailOK, UnknownOK, SealedIsOpenable
<1>6. HeldOK
  BY <1>1 DEF Init, HeldOK, AgentOK, IsKEL
<1> QED
  BY <1>1, <1>2, <1>3, <1>4, <1>5, <1>6 DEF Inv

\* A step of the consumer's or of the clock leaves what the seqs say alone.
LEMMA SeqsSame ==
  ASSUME Inv, UNCHANGED <<published, lastSeq, gen>>
  PROVE  SeqsBehind' /\ SeqsReached' /\ FileOrdered'
<1>1. SeqsBehind' /\ FileOrdered'
  BY DEF Inv, SeqsBehind, FileOrdered, FileOf
<1>2. SeqsReached'
  <2>1. \A g : SetsOf(g)' = SetsOf(g)
    BY DEF SetsOf, FileOf
  <2>2. \A x : FileOf(x)' = FileOf(x)
    BY DEF FileOf
  <2> QED
    BY <2>1, <2>2 DEF Inv, SeqsReached
<1> QED
  BY <1>1, <1>2

\* Time passes.
LEMMA TickInv == Inv /\ Tick => Inv'
<1> SUFFICES ASSUME Inv, Tick PROVE Inv'
  OBVIOUS
<1>1. /\ now \in Nat /\ now' = now + 1 /\ now' <= MaxTime /\ StartTime \in Nat
      /\ UNCHANGED <<agent, ring, lastSeq, gen, published, seen, held, mail, unknown>>
  BY LimitsAssumption DEF Inv, ClockOK, Tick
<1>2. ClockOK' /\ AgentOK' /\ SetsMade' /\ SeqsBounded' /\ RingOK' /\ SeenOK' /\ HeldOK'
        /\ MailOK' /\ UnknownOK' /\ SealedIsOpenable'
  BY <1>1 DEF Inv, ClockOK, AgentOK, SetsMade, SeqsBounded, RingOK, SeenOK, HeldOK,
              MailOK, UnknownOK, SealedIsOpenable, FileOf
<1>3. SeqsBehind' /\ SeqsReached' /\ FileOrdered'
  BY <1>1, SeqsSame
<1>4. KeysKept'
  <2> SUFFICES ASSUME NEW x \in published, NEW i \in 1 .. EpochsAhead + 1, FileOf(x) = gen
               PROVE  \/ x.set.keys[i] \in ring
                      \/ now' + Skew >= x.set.keys[i].notAfter + MaxMessageLifetime
    BY <1>1 DEF KeysKept, FileOf
  <2>1. x.set.keys[i].notAfter \in Int /\ Skew \in Nat /\ MaxMessageLifetime \in Nat
    BY SetFacts, LimitsAssumption DEF Inv
  <2> QED
    BY <1>1, <2>1 DEF Inv, KeysKept
<1> QED
  BY <1>2, <1>3, <1>4 DEF Inv

\* A new set has a seq above all others of its key file, and the file's seqs run ahead of its
\* clock readings by one more at most.
LEMMA PublishInv == ASSUME Inv, NEW t \in Readings, Publish(t) PROVE Inv'
<1> DEFINE e == t \div Epoch
           s == [ aid |-> Self, seq |-> NextSeq(t, lastSeq), issuedAt |-> t,
                  keys |-> [i \in 1 .. EpochsAhead + 1 |-> EncKey(e + i - 1, gen)] ]
           x == SignEncKeySet(s, agent)
<1>0. /\ {Skew, MaxTime, MaxSets, MaxUint64, EpochsAhead, MaxMessageLifetime} \subseteq Nat
      /\ Epoch \in Nat \ {0}
      /\ now \in Nat /\ now <= MaxTime /\ lastSeq \in Nat /\ gen \in 0..1
      /\ t \in Int /\ 1 <= t /\ t <= now + Skew
  BY LimitsAssumption DEF Inv, ClockOK, Readings
<1>1. /\ Cardinality(published) < MaxSets
      /\ SignEncKeySetAccepts(s)
      /\ published' = published \cup {x}
      /\ ring' = ring \cup {s.keys[i] : i \in 1..Len(s.keys)}
      /\ lastSeq' = s.seq
      /\ UNCHANGED <<now, agent, gen, seen, held, mail, unknown>>
  BY DEF Publish
<1>2. s.seq = NextSeq(t, lastSeq) /\ s.keys = KeysOf(e, gen)
  BY DEF KeysOf
<1>3. e \in Int /\ gen \in Int
  BY <1>0
<1>4. /\ Len(s.keys) = EpochsAhead + 1 /\ 1 \in 1 .. EpochsAhead + 1
      /\ \A i \in 1 .. EpochsAhead + 1 :
           s.keys[i].kid[2] = gen /\ s.keys[i].notAfter \in Int
  BY <1>2, <1>3, KeysFacts
<1>5. /\ x.set = s /\ x.keySeq = last(agent.kel).seq /\ x.set.issuedAt = t
  <2>1. agent.pending = None
    BY DEF Inv, AgentOK
  <2> QED
    BY <2>1 DEF SignEncKeySet, signingLocked
<1> HIDE DEF s, x, e
<1>6. FileOf(x) = gen
  BY <1>4, <1>5 DEF FileOf
<1>7. /\ s.seq \in Nat /\ s.seq > lastSeq /\ s.seq >= t
      /\ s.seq <= MaxTime + Skew \/ s.seq = lastSeq + 1
  <2>1. Cardinality(published) \in Nat /\ lastSeq <= MaxTime + Skew + Cardinality(published)
    BY FS_CardinalityType DEF Inv, SeqsBounded
  <2>2. lastSeq # MaxUint64
    BY <1>0, <1>1, <2>1, SeqAssumption
  <2> QED
    BY <1>0, <1>2, <2>2 DEF NextSeq
<1>8. ASSUME NEW y \in published
      PROVE  /\ FileOf(y) \in Int /\ FileOf(y) <= gen
             /\ y.set.seq \in Nat /\ (FileOf(y) = gen => y.set.seq < s.seq)
             /\ y.keySeq \in Int /\ y.keySeq <= x.keySeq
  <2>1. FileOf(y) \in 0..gen
    BY SetFacts DEF Inv
  <2>2. y.set.seq \in Nat /\ y.keySeq \in Int /\ y.keySeq <= x.keySeq
    BY <1>5 DEF Inv, SetsMade
  <2>3. FileOf(y) = gen => y.set.seq < s.seq
    BY <1>0, <1>7, <2>2 DEF Inv, SeqsBehind
  <2> QED
    BY <1>0, <2>1, <2>2, <2>3
<1>19. x \notin published
  BY <1>5, <1>6, <1>7, <1>8
<1>9. ClockOK' /\ AgentOK'
  BY <1>1, <1>7 DEF Inv, ClockOK, AgentOK
<1>10. SetsMade'
  <2>1. ASSUME NEW y \in published
        PROVE  /\ SignEncKeySetAccepts(y.set) /\ y.set.seq \in Nat
               /\ y.set.issuedAt \in Int /\ y.set.issuedAt <= y.set.seq
               /\ y.keySeq \in Int /\ y.keySeq <= last(agent.kel).seq
               /\ \E f \in Int, g \in 0..gen : y.set.keys = KeysOf(f, g)
    BY DEF Inv, SetsMade
  <2>2. /\ SignEncKeySetAccepts(x.set) /\ x.set.seq \in Nat
        /\ x.set.issuedAt \in Int /\ x.set.issuedAt <= x.set.seq
        /\ x.keySeq \in Int /\ x.keySeq <= last(agent.kel).seq
    BY <1>0, <1>1, <1>5, <1>7 DEF Inv, AgentOK
  <2>3. \E f \in Int, g \in 0..gen : x.set.keys = KeysOf(f, g)
    BY <1>0, <1>2, <1>3, <1>5
  <2> QED
    BY <1>1, <2>1, <2>2, <2>3 DEF SetsMade
<1>11. SeqsBehind'
  <2> SUFFICES ASSUME NEW y \in published \cup {x}, FileOf(y) = gen PROVE y.set.seq <= lastSeq'
    BY <1>1 DEF SeqsBehind, FileOf
  <2> QED
    BY <1>1, <1>5, <1>7, <1>8
<1>12. SeqsBounded'
  <2>1. x \notin published
    BY <1>19
  <2>2. IsFiniteSet(published) /\ Cardinality(published) \in Nat
    BY FS_CardinalityType DEF Inv, SeqsBounded
  <2>3. IsFiniteSet(published') /\ Cardinality(published') = Cardinality(published) + 1
    BY <1>1, <2>1, <2>2, FS_AddElement
  <2>4. lastSeq <= MaxTime + Skew + Cardinality(published)
    BY DEF Inv, SeqsBounded
  <2>5. lastSeq' <= MaxTime + Skew + Cardinality(published')
    BY <1>0, <1>1, <1>7, <2>2, <2>3, <2>4
  <2>6. Cardinality(published') <= MaxSets
    BY <1>0, <1>1, <2>2, <2>3
  <2> QED
    BY <2>3, <2>5, <2>6 DEF SeqsBounded
<1>13. FileOrdered'
  <2> SUFFICES ASSUME NEW y \in published \cup {x}, NEW z \in published \cup {x}, FileOf(y) = FileOf(z)
               PROVE  /\ y.set.seq = z.set.seq => y = z
                      /\ y.keySeq < z.keySeq => y.set.seq < z.set.seq
    BY <1>1 DEF FileOrdered, FileOf
  <2>1. CASE y \in published /\ z \in published
    BY <2>1 DEF Inv, FileOrdered
  <2>2. x.keySeq \in Int /\ x.set.seq \in Nat /\ FileOf(x) \in Int
    BY <1>0, <1>5, <1>6, <1>7 DEF Inv, AgentOK
  <2>3. CASE y \in published /\ z = x
    BY <1>5, <1>6, <1>7, <1>8, <2>2, <2>3
  <2>4. CASE y = x /\ z \in published
    <3>0. FileOf(z) = gen
      BY <1>6, <2>4
    <3>1. z.set.seq < x.set.seq /\ ~(x.keySeq < z.keySeq) /\ z.set.seq \in Nat
      BY <1>5, <1>8, <2>2, <2>4, <3>0
    <3> QED
      BY <2>2, <2>4, <3>1
  <2>5. CASE y = x /\ z = x
    BY <2>2, <2>5
  <2> QED
    BY <2>1, <2>3, <2>4, <2>5
<1>18. SeqsReached'
  <2> DEFINE mine == SetsOf(gen)
  <2>1. /\ SetsOf(gen)' = mine \cup {x}
        /\ \A g : g # gen => SetsOf(g)' = SetsOf(g)
    BY <1>1, <1>6 DEF SetsOf, FileOf
  <2>2. IsFiniteSet(mine) /\ x \notin mine
    BY <1>19, FS_Subset DEF Inv, SeqsBounded, SetsOf
  <2> HIDE DEF mine
  <2>3. Cardinality(mine) \in Nat /\ Cardinality(mine \cup {x}) = Cardinality(mine) + 1
    BY <2>2, FS_AddElement, FS_CardinalityType
  <2>4. \A z \in mine : z.set.issuedAt \in Int
    BY DEF mine, SetsOf, Inv, SetsMade
  <2> DEFINE now2 == mine \cup {x}
  <2>5. ASSUME NEW n \in Nat, Reached(n, mine) PROVE Reached(n, now2) /\ Reached(n + 1, now2)
    <3>1. PICK z \in mine : n < z.set.issuedAt + Cardinality(mine)
      BY <2>5 DEF Reached
    <3>2. z.set.issuedAt \in Int
      BY <2>4
    <3>3. n + 1 < z.set.issuedAt + Cardinality(now2)
      BY <2>3, <3>1, <3>2
    <3>4. n < z.set.issuedAt + Cardinality(now2)
      BY <2>3, <3>1, <3>2
    <3>5. z \in now2
      OBVIOUS
    <3> QED
      BY <3>3, <3>4, <3>5 DEF Reached
  <2>6. Reached(t, now2)
    <3>1. t < x.set.issuedAt + Cardinality(now2)
      BY <1>0, <1>5, <2>3
    <3>2. x \in now2
      OBVIOUS
    <3> QED
      BY <3>1, <3>2 DEF Reached
  <2> HIDE DEF now2
  <2>7. s.seq = t \/ (s.seq = lastSeq + 1 /\ lastSeq # 0)
    <3>1. Cardinality(published) \in Nat /\ lastSeq <= MaxTime + Skew + Cardinality(published)
      BY FS_CardinalityType DEF Inv, SeqsBounded
    <3>2. lastSeq # MaxUint64
      BY <1>0, <1>1, <3>1, SeqAssumption
    <3> QED
      BY <1>0, <1>2, <3>2 DEF NextSeq
  <2>8. Reached(s.seq, now2)
    <3>1. CASE s.seq = t
      BY <2>6, <3>1
    <3>2. CASE s.seq = lastSeq + 1 /\ lastSeq # 0
      <4>1. Reached(lastSeq, mine)
        BY <3>2 DEF Inv, SeqsReached, mine
      <4> QED
        BY <1>0, <2>5, <3>2, <4>1
    <3> QED
      BY <2>7, <3>1, <3>2
  <2>9. \A y : FileOf(y)' = FileOf(y)
    BY DEF FileOf
  <2>10. ASSUME NEW y \in published PROVE Reached(y.set.seq, SetsOf(FileOf(y))')
    <3>1. y.set.seq \in Nat /\ Reached(y.set.seq, SetsOf(FileOf(y)))
      BY DEF Inv, SetsMade, SeqsReached
    <3>2. CASE FileOf(y) = gen
      <4>1. Reached(y.set.seq, mine)
        BY <3>1, <3>2 DEF mine
      <4>2. SetsOf(FileOf(y))' = now2
        BY <1>1, <2>1, <2>9, <3>2 DEF now2
      <4> QED
        BY <2>5, <3>1, <4>1, <4>2
    <3>3. CASE FileOf(y) # gen
      <4>1. SetsOf(FileOf(y))' = SetsOf(FileOf(y))
        BY <2>1, <2>9, <3>3
      <4> QED
        BY <3>1, <4>1
    <3> QED
      BY <3>2, <3>3
  <2>11. SetsOf(gen)' = now2
    BY <2>1 DEF now2
  <2>12. ASSUME NEW y \in published' PROVE Reached(y.set.seq, SetsOf(FileOf(y))')
    <3>1. CASE y \in published
      BY <2>10, <3>1
    <3>2. CASE y = x
      <4>1. FileOf(y)' = gen'
        BY <1>1, <1>6, <2>9, <3>2
      <4>2. SetsOf(FileOf(y))' = now2
        BY <2>11, <4>1
      <4> QED
        BY <1>5, <2>8, <3>2, <4>2
    <3> QED
      BY <1>1, <3>1, <3>2
  <2> QED
    BY <1>1, <2>8, <2>11, <2>12 DEF SeqsReached
<1>14. RingOK'
  <2>1. ASSUME NEW i \in 1..Len(s.keys) PROVE check(s.keys[i]) /\ s.keys[i].kid[2] = gen
    BY <1>1, <1>4 DEF SignEncKeySetAccepts, checkStructure
  <2> QED
    BY <1>1, <2>1 DEF Inv, RingOK
<1>15. KeysKept'
  <2> SUFFICES ASSUME NEW y \in published \cup {x}, NEW i \in 1 .. EpochsAhead + 1, FileOf(y) = gen
               PROVE  \/ y.set.keys[i] \in ring'
                      \/ now + Skew >= y.set.keys[i].notAfter + MaxMessageLifetime
    BY <1>1 DEF KeysKept, FileOf
  <2>1. CASE y = x
    BY <1>1, <1>4, <1>5, <2>1
  <2>2. CASE y \in published
    BY <1>1, <2>2 DEF Inv, KeysKept
  <2> QED
    BY <2>1, <2>2
<1>16. SeenOK' /\ HeldOK' /\ UnknownOK' /\ SealedIsOpenable'
  BY <1>1 DEF Inv, SeenOK, HeldOK, UnknownOK, SealedIsOpenable
<1>17. MailOK'
  BY <1>1 DEF Inv, MailOK
<1> QED
  BY <1>9, <1>10, <1>11, <1>12, <1>13, <1>14, <1>15, <1>16, <1>17, <1>18 DEF Inv

\* What the old file reached stays, and the new one has no last seq.
LEMMA LoseKeyFileInv == Inv /\ LoseKeyFile => Inv'
<1> SUFFICES ASSUME Inv, LoseKeyFile PROVE Inv'
  OBVIOUS
<1>1. /\ gen = 0 /\ gen' = 1 /\ ring' = {} /\ lastSeq' = 0
      /\ UNCHANGED <<now, agent, published, seen, held, mail, unknown>>
  BY DEF LoseKeyFile
<1>2. Skew \in Nat /\ now \in Nat /\ lastSeq \in Nat /\ MaxTime \in Nat
  BY LimitsAssumption DEF Inv, ClockOK
<1>3. ASSUME NEW x \in published PROVE FileOf(x) = 0
  BY <1>1, SetFacts DEF Inv
<1>4. ClockOK' /\ AgentOK' /\ FileOrdered' /\ SeenOK' /\ HeldOK'
  BY <1>1 DEF Inv, ClockOK, AgentOK, FileOrdered, FileOf, SeenOK, HeldOK
<1>5. MailOK'
  BY <1>1 DEF Inv, MailOK
<1>6. SetsMade'
  <2> SUFFICES ASSUME NEW x \in published
               PROVE  /\ SignEncKeySetAccepts(x.set) /\ x.set.seq \in Nat
                      /\ x.set.issuedAt \in Int /\ x.set.issuedAt <= x.set.seq
                      /\ x.keySeq \in Int /\ x.keySeq <= last(agent.kel).seq
                      /\ \E e \in Int, g \in 0..1 : x.set.keys = KeysOf(e, g)
    BY <1>1 DEF SetsMade
  <2>1. PICK e \in Int, g \in 0..gen : x.set.keys = KeysOf(e, g)
    BY DEF Inv, SetsMade
  <2>2. g \in 0..1
    BY <1>1
  <2> QED
    BY <2>1, <2>2 DEF Inv, SetsMade
<1>7. SeqsBehind'
  BY <1>1, <1>3 DEF SeqsBehind, FileOf
<1>12. SeqsReached'
  BY <1>1, <1>3 DEF Inv, SeqsReached, Reached, SetsOf, FileOf
<1>8. SeqsBounded'
  <2>1. Cardinality(published) \in Nat
    BY FS_CardinalityType DEF Inv, SeqsBounded
  <2> QED
    BY <1>1, <1>2, <2>1 DEF Inv, SeqsBounded
<1>9. RingOK'
  BY <1>1 DEF RingOK
<1>10. KeysKept'
  BY <1>1, <1>3 DEF KeysKept, FileOf
<1>11. UnknownOK' /\ SealedIsOpenable'
  BY <1>1 DEF Inv, UnknownOK, SealedIsOpenable
<1> QED
  BY <1>4, <1>5, <1>6, <1>7, <1>8, <1>9, <1>10, <1>11, <1>12 DEF Inv

\* A private key goes only once its time has come.
LEMMA DeleteInv == ASSUME Inv, NEW t \in Readings, Delete(t) PROVE Inv'
<1>1. /\ ring' = {k \in ring : ~Deletable(k, t)}
      /\ UNCHANGED <<now, agent, lastSeq, gen, published, seen, held, mail, unknown>>
  BY DEF Delete
<1>2. /\ Skew \in Nat /\ MaxMessageLifetime \in Nat /\ now \in Nat
      /\ t \in Int /\ t <= now + Skew
  BY LimitsAssumption DEF Inv, ClockOK, Readings
<1>6. SeqsBehind' /\ SeqsReached' /\ FileOrdered'
  BY <1>1, SeqsSame
<1>3. ClockOK' /\ AgentOK' /\ SetsMade' /\ SeqsBounded'
        /\ SeenOK' /\ HeldOK' /\ MailOK' /\ UnknownOK' /\ SealedIsOpenable'
  BY <1>1 DEF Inv, ClockOK, AgentOK, SetsMade, SeqsBounded, SeenOK, HeldOK,
              MailOK, UnknownOK, SealedIsOpenable, FileOf
<1>4. RingOK'
  BY <1>1 DEF Inv, RingOK
<1>5. KeysKept'
  <2> SUFFICES ASSUME NEW x \in published, NEW i \in 1 .. EpochsAhead + 1, FileOf(x) = gen
               PROVE  \/ x.set.keys[i] \in ring'
                      \/ now + Skew >= x.set.keys[i].notAfter + MaxMessageLifetime
    BY <1>1 DEF KeysKept, FileOf
  <2>1. x.set.keys[i].notAfter \in Int
    BY SetFacts DEF Inv
  <2>2. CASE x.set.keys[i] \in ring /\ Deletable(x.set.keys[i], t)
    BY <1>2, <2>1, <2>2 DEF Deletable
  <2>3. CASE x.set.keys[i] \in ring /\ ~Deletable(x.set.keys[i], t)
    BY <1>1, <2>3
  <2>4. CASE x.set.keys[i] \notin ring
    BY <2>4 DEF Inv, KeysKept
  <2> QED
    BY <2>2, <2>3, <2>4
<1> QED
  BY <1>3, <1>4, <1>5, <1>6 DEF Inv

\* A rotation raises the key state the owner signs under.
LEMMA RotateInv == ASSUME Inv, NEW em \in BOOLEAN, Rotate(em) PROVE Inv'
<1> DEFINE n   == Len(agent.kel)
           key == RecoverySeed(Seed, n)
           nxt == NextDigest(Seed, n + 1)
           urgent == em
           r == BuiltAndAdopted(agent, "rot", revealedLocked(agent, key), nxt, urgent, Hub, now)
<1>1. /\ agent' = r
      /\ UNCHANGED <<now, ring, lastSeq, gen, published, seen, held, mail, unknown>>
  BY DEF Rotate, BuiltAndAdopted, BuiltBy, BuildRotation
<1> HIDE DEF urgent
<1>2. /\ r = [kel |-> r.kel, cur |-> r.cur, hot |-> r.hot, pending |-> None, state |-> r.state]
      /\ IsKEL(r.kel) /\ last(r.kel).seq = last(agent.kel).seq + 1
      /\ Len(r.kel) = Len(agent.kel) + 1
  <2>1. /\ agent = [kel |-> agent.kel, cur |-> agent.cur, hot |-> agent.hot, pending |-> None,
                    state |-> agent.state]
        /\ IsKEL(agent.kel) /\ last(agent.kel).seq \in Int
    BY DEF Inv, AgentOK
  <2> QED
    BY <2>1, BuildAndAdopt
<1> HIDE DEF r
<1>3. AgentOK'
  BY <1>1, <1>2 DEF Inv, AgentOK
<1>4. SetsMade'
  <2> SUFFICES ASSUME NEW x \in published
               PROVE  /\ SignEncKeySetAccepts(x.set) /\ x.set.seq \in Nat
                      /\ x.set.issuedAt \in Int /\ x.set.issuedAt <= x.set.seq
                      /\ x.keySeq \in Int /\ x.keySeq <= last(agent'.kel).seq
                      /\ \E e \in Int, g \in 0..gen : x.set.keys = KeysOf(e, g)
    BY <1>1 DEF SetsMade
  <2>1. x.keySeq \in Int /\ x.keySeq <= last(agent.kel).seq /\ last(agent.kel).seq \in Int
    BY DEF Inv, SetsMade, AgentOK
  <2>2. x.keySeq <= last(agent'.kel).seq
    BY <1>1, <1>2, <2>1
  <2> QED
    BY <2>2 DEF Inv, SetsMade
<1>5. ClockOK' /\ SeqsBounded' /\ RingOK' /\ KeysKept'
        /\ SeenOK' /\ MailOK' /\ UnknownOK' /\ SealedIsOpenable'
  BY <1>1 DEF Inv, ClockOK, SeqsBounded, RingOK, KeysKept, SeenOK,
              MailOK, UnknownOK, SealedIsOpenable, FileOf
<1>6. SeqsBehind' /\ SeqsReached' /\ FileOrdered'
  BY <1>1, SeqsSame
<1>7. HeldOK'
  <2>1. Len(agent.kel) \in Nat
    BY DEF Inv, AgentOK, IsKEL
  <2> QED
    BY <1>1, <1>2, <2>1 DEF Inv, HeldOK
<1> QED
  BY <1>3, <1>4, <1>5, <1>6, <1>7 DEF Inv

\* A set that verifies was signed under the last key state of the KEL it is verified with
\* (VerifyEncKeySet, rule 2).
LEMMA HeldFacts ==
  ASSUME Inv, NEW x \in published, NEW t, VerifyEncKeySet(x, Self, held, t) = "ok"
  PROVE  x.keySeq + 1 = Len(held)
<1>1. KeyState(held, x.keySeq + 1).status = "active"
  BY DEF VerifyEncKeySet
<1> QED
  BY <1>1 DEF KeyState

\* The consumer's own steps.
LEMMA ConsumeInv == ASSUME Inv, NEW x \in published, NEW t \in Readings, Consume(x, t) PROVE Inv'
<1>1. /\ seen' = x
      /\ UNCHANGED <<now, agent, ring, lastSeq, gen, published, held, mail, unknown>>
  BY DEF Consume
<1>2. SeenOK'
  BY <1>1 DEF SeenOK
<1>3. HeldOK'
  <2>1. x.keySeq + 1 = Len(held)
    BY HeldFacts DEF Consume
  <2>2. x.keySeq \in Int /\ Len(held) \in Nat
    BY DEF Inv, SetsMade, HeldOK
  <2> QED
    BY <1>1, <2>1, <2>2 DEF Inv, HeldOK
<1>4. ClockOK' /\ AgentOK' /\ SetsMade' /\ SeqsBounded' /\ RingOK'
        /\ KeysKept' /\ MailOK' /\ UnknownOK' /\ SealedIsOpenable'
  BY <1>1 DEF Inv, ClockOK, AgentOK, SetsMade, SeqsBounded, RingOK,
              KeysKept, MailOK, UnknownOK, SealedIsOpenable, FileOf
<1>5. SeqsBehind' /\ SeqsReached' /\ FileOrdered'
  BY <1>1, SeqsSame
<1> QED
  BY <1>2, <1>3, <1>4, <1>5 DEF Inv

\* The consumer's copy of the KEL, and a step that changes nothing, touch no other part of it.
LEMMA LearnInv == Inv /\ (Learn \/ UNCHANGED vars) => Inv'
<1> SUFFICES ASSUME Inv, Learn \/ UNCHANGED vars PROVE Inv'
  OBVIOUS
<1>1. /\ UNCHANGED <<now, agent, ring, lastSeq, gen, published, seen, mail, unknown>>
      /\ held' = held \/ held' = agent.kel
  BY DEF Learn, vars
<1>2. ClockOK' /\ AgentOK' /\ SetsMade' /\ SeqsBounded' /\ RingOK'
        /\ KeysKept' /\ SeenOK' /\ MailOK' /\ UnknownOK' /\ SealedIsOpenable'
  BY <1>1 DEF Inv, ClockOK, AgentOK, SetsMade, SeqsBounded, RingOK,
              KeysKept, SeenOK, MailOK, UnknownOK, SealedIsOpenable, FileOf
<1>3. SeqsBehind' /\ SeqsReached' /\ FileOrdered'
  BY <1>1, SeqsSame
<1>4. HeldOK'
  <2>1. Len(agent.kel) \in Nat
    BY DEF Inv, AgentOK, IsKEL
  <2>2. seen # None => seen.keySeq \in Int
    BY DEF Inv, SeenOK, SetsMade
  <2> QED
    BY <1>1, <2>1, <2>2 DEF Inv, HeldOK
<1> QED
  BY <1>2, <1>3, <1>4 DEF Inv

\* The envelope's steps change mail and, when it is collected, unknown.
LEMMA MailSteps ==
  ASSUME Inv, MailOK', UnknownOK', SealedIsOpenable',
         UNCHANGED <<now, agent, ring, lastSeq, gen, published, seen, held>>
  PROVE  Inv'
<1>1. SeqsBehind' /\ SeqsReached' /\ FileOrdered'
  BY SeqsSame
<1>2. ClockOK' /\ AgentOK' /\ SetsMade' /\ SeqsBounded' /\ RingOK' /\ KeysKept' /\ SeenOK' /\ HeldOK'
  BY DEF Inv, ClockOK, AgentOK, SetsMade, SeqsBounded, RingOK, KeysKept, SeenOK, HeldOK, FileOf
<1> QED
  BY <1>1, <1>2 DEF Inv

\* A sealed envelope names a key of a published set (SelectKey).
LEMMA SealInv == ASSUME Inv, NEW t \in Readings, Seal(t) PROVE Inv'
<1>1. /\ seen # None /\ SelectKey(seen.set, t) # None
      /\ mail' = [key |-> SelectKey(seen.set, t), at |-> None]
      /\ UNCHANGED <<now, agent, ring, lastSeq, gen, published, seen, held, unknown>>
  BY DEF Seal
<1>2. seen \in published
  BY <1>1 DEF Inv, SeenOK
<1>3. PICK e \in Int, g \in 0..gen : seen.set.keys = KeysOf(e, g)
  BY <1>2 DEF Inv, SetsMade
<1>4. g \in Int /\ t \in Int
  BY <1>3, LimitsAssumption DEF Inv, ClockOK, Readings
<1>5. \E i \in 1 .. EpochsAhead + 1 : SelectKey(seen.set, t) = seen.set.keys[i]
  BY <1>1, <1>3, <1>4, SelectKeyFacts
<1>6. MailOK' /\ UnknownOK' /\ SealedIsOpenable'
  BY <1>1, <1>2, <1>5 DEF Inv, MailOK, UnknownOK, SealedIsOpenable
<1> QED
  BY <1>1, <1>6, MailSteps

\* The hub takes an envelope in time for its key.
LEMMA DepositInv == Inv /\ Deposit => Inv'
<1> SUFFICES ASSUME Inv, Deposit PROVE Inv'
  OBVIOUS
<1>1. /\ mail # None
      /\ mail' = IF now <= mail.key.notAfter + DeliveryDeadline THEN [mail EXCEPT !.at = now] ELSE None
      /\ UNCHANGED <<now, agent, ring, lastSeq, gen, published, seen, held, unknown>>
  BY DEF Deposit
<1>2. mail = [key |-> mail.key, at |-> mail.at]
  BY <1>1 DEF Inv, MailOK
<1>3. now \in Int
  BY DEF Inv, ClockOK
<1>4. MailOK'
  <2>1. CASE now <= mail.key.notAfter + DeliveryDeadline
    <3>1. mail' = [key |-> mail.key, at |-> now]
      BY <1>1, <1>2, <2>1
    <3>2. mail'.key = mail.key /\ mail'.at = now
      BY <3>1
    <3>3. \E x \in published : \E i \in 1 .. EpochsAhead + 1 : mail.key = x.set.keys[i]
      BY <1>1 DEF Inv, MailOK
    <3> QED
      BY <1>1, <1>3, <2>1, <3>1, <3>2, <3>3 DEF MailOK
  <2>2. CASE ~(now <= mail.key.notAfter + DeliveryDeadline)
    BY <1>1, <2>2 DEF MailOK
  <2> QED
    BY <2>1, <2>2
<1>5. UnknownOK' /\ SealedIsOpenable'
  BY <1>1 DEF Inv, UnknownOK, SealedIsOpenable
<1> QED
  BY <1>1, <1>4, <1>5, MailSteps

\* An envelope the hub still holds is younger than any deletion of its key (RetentionAssumption).
LEMMA CollectInv == Inv /\ Collect => Inv'
<1> SUFFICES ASSUME Inv, Collect PROVE Inv'
  OBVIOUS
<1>1. /\ mail # None /\ mail.at # None /\ mail' = None
      /\ unknown' = IF now <= mail.at + MailboxLifetime /\ mail.key \notin ring
                    THEN unknown \cup {mail.key.kid} ELSE unknown
      /\ UNCHANGED <<now, agent, ring, lastSeq, gen, published, seen, held>>
  BY DEF Collect
<1>2. /\ {Skew, MailboxLifetime, DeliveryDeadline, MaxMessageLifetime} \subseteq Nat
      /\ now \in Nat /\ gen \in 0..1
  BY LimitsAssumption DEF Inv, ClockOK
<1>3. PICK x \in published, i \in 1 .. EpochsAhead + 1 : mail.key = x.set.keys[i]
  BY <1>1 DEF Inv, MailOK
<1>4. mail.at \in Int /\ mail.at <= mail.key.notAfter + DeliveryDeadline
  BY <1>1 DEF Inv, MailOK
<1>5. mail.key.kid[2] = FileOf(x) /\ FileOf(x) \in 0..gen /\ mail.key.notAfter \in Int
  BY <1>3, SetFacts DEF Inv
<1>6. ASSUME now <= mail.at + MailboxLifetime, mail.key \notin ring PROVE FileOf(x) < gen
  <2>1. FileOf(x) = gen => now + Skew >= mail.key.notAfter + MaxMessageLifetime
    BY <1>3, <1>6 DEF Inv, KeysKept
  <2>2. now + Skew < mail.key.notAfter + MaxMessageLifetime
    BY <1>2, <1>4, <1>5, <1>6, RetentionAssumption
  <2> QED
    BY <1>2, <1>5, <2>1, <2>2
<1>7. UnknownOK' /\ SealedIsOpenable'
  <2> SUFFICES ASSUME NEW kid \in unknown' PROVE kid[2] \in Int /\ kid[2] < gen
    BY <1>1 DEF UnknownOK, SealedIsOpenable
  <2>1. CASE kid \in unknown
    BY <2>1 DEF Inv, UnknownOK, SealedIsOpenable
  <2>2. CASE kid \notin unknown
    BY <1>1, <1>2, <1>5, <1>6, <2>2
  <2> QED
    BY <2>1, <2>2
<1>8. MailOK'
  BY <1>1 DEF MailOK
<1> QED
  BY <1>1, <1>7, <1>8, MailSteps

\* Every step keeps the invariant.
LEMMA NextInv == Inv /\ [Next]_vars => Inv'
<1> SUFFICES ASSUME Inv, [Next]_vars PROVE Inv'
  OBVIOUS
<1>1. CASE Tick
  BY <1>1, TickInv
<1>2. ASSUME NEW t \in Readings, Publish(t) PROVE Inv'
  BY <1>2, PublishInv
<1>3. CASE LoseKeyFile
  BY <1>3, LoseKeyFileInv
<1>4. ASSUME NEW t \in Readings, Delete(t) PROVE Inv'
  BY <1>4, DeleteInv
<1>5. ASSUME NEW e \in BOOLEAN, Rotate(e) PROVE Inv'
  BY <1>5, RotateInv
<1>6. ASSUME NEW x \in published, NEW t \in Readings, Consume(x, t) PROVE Inv'
  BY <1>6, ConsumeInv
<1>7. CASE Learn \/ UNCHANGED vars
  BY <1>7, LearnInv
<1>8. ASSUME NEW t \in Readings, Seal(t) PROVE Inv'
  BY <1>8, SealInv
<1>9. CASE Deposit
  BY <1>9, DepositInv
<1>10. CASE Collect
  BY <1>10, CollectInv
<1> QED
  BY <1>1, <1>2, <1>3, <1>4, <1>5, <1>6, <1>7, <1>8, <1>9, <1>10 DEF Next

-----------------------------------------------------------------------------
(* The theorems. *)

\* The inductive invariant holds.
THEOREM Invariance == Spec => []Inv
<1> QED
  BY InitInv, NextInv, PTL DEF Spec

\* The sets an owner signs are well formed, and their seqs order them: by key state within a key
\* file, and by key file once the clock has caught up with one that was lost (NextSeq).
THEOREM Ordered == Spec => []SetsOrdered
<1>1. Inv => TypeOK
  BY DEF Inv, ClockOK, SetsMade, RingOK, SeenOK, TypeOK
<1>2. Inv => SeqOrdersSets
  <2> SUFFICES ASSUME Inv, NEW x \in published, NEW y \in published
               PROVE  /\ FileOf(x) = FileOf(y) => (x.set.seq = y.set.seq => x = y)
                      /\ FileOf(x) = FileOf(y) => (x.keySeq < y.keySeq => x.set.seq < y.set.seq)
                      /\ x \in OlderThan(y) /\ ClockCaughtUp(y) => x.set.seq < y.set.seq
    BY DEF SeqOrdersSets
  <2>1. ASSUME x \in OlderThan(y), ClockCaughtUp(y) PROVE x.set.seq < y.set.seq
    <3> DEFINE n == Cardinality(SetsOf(0))
    <3>1. \A z \in published : FileOf(z) \in 0..1
      BY SetFacts DEF Inv, ClockOK
    <3>2. FileOf(x) = 0 /\ FileOf(y) = 1
      BY <2>1, <3>1 DEF OlderThan
    <3>3. OlderThan(y) = SetsOf(0)
      BY <3>1, <3>2 DEF OlderThan, SetsOf
    <3>4. PICK z \in SetsOf(0) : x.set.seq < z.set.issuedAt + n
      BY <3>2 DEF Inv, SeqsReached, Reached
    <3>5. y.set.issuedAt >= z.set.issuedAt + n
      BY <2>1, <3>3 DEF ClockCaughtUp
    <3>6. n \in Nat
      BY FS_Subset, FS_CardinalityType DEF Inv, SeqsBounded, SetsOf
    <3>7. /\ x.set.seq \in Nat /\ y.set.seq \in Nat
          /\ y.set.issuedAt \in Int /\ y.set.issuedAt <= y.set.seq /\ z.set.issuedAt \in Int
      BY DEF Inv, SetsMade, SetsOf
    <3> HIDE DEF n
    <3> QED
      BY <3>4, <3>5, <3>6, <3>7
  <2> QED
    BY <2>1 DEF Inv, FileOrdered
<1> QED
  BY <1>1, <1>2, Invariance, PTL DEF SetsOrdered

\* Whoever verifies a set can seal to one of its keys at the same clock reading, unless what made
\* the set valid is all of suites its build does not implement (VerifyEncKeySet, SelectKey).
THEOREM Usable == Spec => []VerifiedIsUsable
<1>1. Inv => VerifiedIsUsable
  <2> SUFFICES ASSUME Inv, NEW x \in published, NEW t \in Readings
               PROVE  /\ (\E i \in {j \in 1..Len(x.set.keys) : ValidAt(x.set.keys[j], t + ClockSkew)} :
                             Supported(x.set.keys[i].suite)) => SelectKey(x.set, t) # None
                      /\ SelectKey(x.set, t) # None => Supported(SelectKey(x.set, t).suite)
    BY DEF VerifiedIsUsable
  <2>1. PICK e \in Int, g \in 0..gen : x.set.keys = KeysOf(e, g)
    BY DEF Inv, SetsMade
  <2>2. g \in Int /\ t \in Int
    BY <2>1, LimitsAssumption DEF Inv, ClockOK, Readings
  <2> QED
    BY <2>1, <2>2, SelectKeyFacts
<1> QED
  BY <1>1, Invariance, PTL

\* An envelope the hub took and still holds finds its private key, unless the whole key file
\* was lost: what limits.go promises of the retention times.
THEOREM Openable == Spec => []SealedIsOpenable
<1>1. Inv => SealedIsOpenable
  BY DEF Inv
<1> QED
  BY <1>1, Invariance, PTL

\* A consumer never goes back: not to an older set by the high-water rule (DecideHighWater), and
\* not to an older key state of the owner by the signature's (VerifyEncKeySet).
THEOREM NeverBack == Spec => ConsumerNeverGoesBack
<1> DEFINE Step == seen # None => seen'.set.seq >= seen.set.seq /\ seen'.keySeq >= seen.keySeq
<1>1. Inv /\ [Next]_vars => [Step]_vars
  <2> SUFFICES ASSUME Inv, Next, seen # None
               PROVE  seen'.set.seq >= seen.set.seq /\ seen'.keySeq >= seen.keySeq
    OBVIOUS
  <2>1. /\ seen \in published
        /\ \A x \in published : x.set.seq \in Nat /\ x.keySeq \in Int
    BY DEF Inv, SeenOK, SetsMade
  <2>2. CASE UNCHANGED seen
    BY <2>1, <2>2
  <2>3. ASSUME NEW x \in published, NEW t \in Readings, Consume(x, t)
        PROVE  seen'.set.seq >= seen.set.seq /\ seen'.keySeq >= seen.keySeq
    <3>1. seen' = x /\ DecideHighWater(seen, x) \in {"replace", "same"}
      BY <2>3 DEF Consume
    <3>2. x.set.seq > seen.set.seq \/ x.set = seen.set
      BY <3>1 DEF DecideHighWater
    <3>3. x.keySeq + 1 = Len(held)
      BY <2>3, HeldFacts DEF Consume
    <3>4. seen.keySeq < Len(held) /\ Len(held) \in Nat
      BY DEF Inv, HeldOK
    <3> QED
      BY <2>1, <3>1, <3>2, <3>3, <3>4
  <2>4. UNCHANGED seen \/ \E x \in published, t \in Readings : Consume(x, t)
    BY DEF Next, Tick, Publish, LoseKeyFile, Delete, Rotate, Learn, Seal, Deposit, Collect
  <2> QED
    BY <2>2, <2>3, <2>4
<1> QED
  BY <1>1, Invariance, PTL DEF Spec, ConsumerNeverGoesBack
=============================================================================
