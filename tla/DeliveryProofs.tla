--------------------------- MODULE DeliveryProofs ---------------------------
(***************************************************************************)
(* Delivery implements Mail, an interaction that was closed takes nothing  *)
(* in, and what Seal let through Open does: for any drafts, keys, options  *)
(* and number of versions that the assumptions of Delivery admit.          *)
(***************************************************************************)
EXTENDS Delivery, TLAPS

-----------------------------------------------------------------------------
(* Open, layer by layer. *)

\* What OpenInner hands on, and when it takes a message in.
LEMMA OpenInnerFacts ==
  ASSUME NEW e, NEW w, NEW in, NEW key, NEW ack
  PROVE  /\ OpenInner(e, w, in, key, ack).ack = ack
         /\ OpenInner(e, w, in, key, ack).reason = "ok" =>
              /\ OpenInner(e, w, in, key, ack).inner = in
              /\ OpenInner(e, w, in, key, ack).key = key
              /\ key # None => in.ix = key.ix
BY DEF OpenInner, Fails

\* OpenWrap gives the ack_key of the first layer with every answer, and a message it took in
\* under a key is of that key's interaction.
LEMMA OpenWrapFacts ==
  ASSUME NEW e, NEW w, NEW ixs, NEW answers \in BOOLEAN, NEW ack
  PROVE  /\ OpenWrap(e, w, ixs, answers, ack).ack = ack
         /\ OpenWrap(e, w, ixs, answers, ack).reason = "ok" =>
              LET r == OpenWrap(e, w, ixs, answers, ack)
              IN  r.key # None => r.key \in ixs /\ r.inner.ix = r.key.ix
<1> DEFINE keys == {k \in ixs : KID(k.suite, k.pub) = w.ikid}
           key  == CHOOSE k \in keys : TRUE
           r    == OpenWrap(e, w, ixs, answers, ack)
<1>1. r = IF ~decodeWrap(w) THEN Fails("bad-wrap", ack)
          ELSE IF w.ikid = None THEN OpenInner(e, w, w.body, None, ack)
          ELSE IF ~answers THEN Fails("lookup-error", ack)
          ELSE IF keys = {} THEN Fails("sealed-to-closed-interaction", ack)
          ELSE IF ~HPKEOpens(w.body, w.enc2, key.pub, IXInfo(e.to, key.suite, w.ikid))
          THEN Fails("decrypt-failed", ack)
          ELSE OpenInner(e, w, w.body.pt, key, ack)
  BY DEF OpenWrap
<1>2. keys # {} => key \in ixs
  OBVIOUS
<1>3. \A x, k :
        /\ OpenInner(e, w, x, k, ack).ack = ack
        /\ OpenInner(e, w, x, k, ack).reason = "ok" =>
             /\ OpenInner(e, w, x, k, ack).inner = x
             /\ OpenInner(e, w, x, k, ack).key = k
             /\ k # None => x.ix = k.ix
  BY OpenInnerFacts
<1>4. \A reason : Fails(reason, ack).ack = ack /\ Fails(reason, ack).reason = reason
  BY DEF Fails
<1> SUFFICES /\ r.ack = ack
             /\ r.reason = "ok" => (r.key # None => r.key \in ixs /\ r.inner.ix = r.key.ix)
  OBVIOUS
<1> HIDE DEF keys, key, r
<1> QED
  BY <1>1, <1>2, <1>3, <1>4

\* The ack_key Open gives is the one the ciphertext was made with.
LEMMA OpenFacts ==
  ASSUME NEW e, NEW self, NEW held, NEW ixs, NEW answers \in BOOLEAN
  PROVE  LET r == Open(e, self, held, ixs, answers)
         IN  /\ r.ack = None \/ r.ack = Export(e.enc, e.ct.pub, e.ct.info)
             /\ r.reason = "ok" => (r.key # None => r.key \in ixs /\ r.inner.ix = r.key.ix)
<1> DEFINE keys == {k \in held : k.suite = e.suite /\ k.kid = e.kid}
           key  == CHOOSE k \in keys : TRUE
           info == HPKEInfo(e.to, e.suite, e.kid)
           ack  == Export(e.enc, key.pub, info)
           o    == OpenWrap(e, e.ct.pt, ixs, answers, ack)
           r    == Open(e, self, held, ixs, answers)
<1>1. r = IF ParseOuter(e) # "ok" THEN Fails(ParseOuter(e), None)
          ELSE IF e.to # self THEN Fails("wrong-recipient", None)
          ELSE IF keys = {} THEN Fails("sealed-to-unknown-key", None)
          ELSE IF ~HPKEOpens(e.ct, e.enc, key.pub, info) THEN Fails("decrypt-failed", None)
          ELSE o
  BY DEF Open
<1>2. /\ o.ack = ack
      /\ o.reason = "ok" => (o.key # None => o.key \in ixs /\ o.inner.ix = o.key.ix)
  BY OpenWrapFacts
<1>3. HPKEOpens(e.ct, e.enc, key.pub, info) => ack = Export(e.enc, e.ct.pub, e.ct.info)
  BY DEF HPKEOpens
<1>4. \A reason : Fails(reason, None).ack = None /\ Fails(reason, None).reason = reason
  BY DEF Fails
<1> SUFFICES /\ r.ack = None \/ r.ack = Export(e.enc, e.ct.pub, e.ct.info)
             /\ r.reason = "ok" => (r.key # None => r.key \in ixs /\ r.inner.ix = r.key.ix)
  OBVIOUS
<1> HIDE DEF keys, key, info, ack, o, r
<1> QED
  BY <1>1, <1>2, <1>3, <1>4

-----------------------------------------------------------------------------
(* What more keys and an answering store change: nothing of a message that opens. *)

\* Distinct keys do not share a kid.
OneOfEach(S) == \A k, l \in S : KID(k.suite, k.pub) = KID(l.suite, l.pub) => k = l

\* What the second layer opened under some interaction keys it opens the same under more.
LEMMA OpenWrapMore ==
  ASSUME NEW e, NEW w, NEW S, NEW T, S \subseteq T, OneOfEach(T), NEW ack,
         NEW a \in BOOLEAN, NEW b \in BOOLEAN, a => b,
         OpenWrap(e, w, S, a, ack).reason = "ok"
  PROVE  OpenWrap(e, w, T, b, ack) = OpenWrap(e, w, S, a, ack)
<1> DEFINE ofS == {k \in S : KID(k.suite, k.pub) = w.ikid}
           ofT == {k \in T : KID(k.suite, k.pub) = w.ikid}
           kS  == CHOOSE k \in ofS : TRUE
           kT  == CHOOSE k \in ofT : TRUE
<1>1. CASE ~decodeWrap(w)
  BY <1>1 DEF OpenWrap, Fails
<1>2. CASE decodeWrap(w) /\ w.ikid = None
  BY <1>2 DEF OpenWrap
<1>3. CASE decodeWrap(w) /\ w.ikid # None
  <2>1. a /\ ofS # {}
    BY <1>3 DEF OpenWrap, Fails
  <2>2. kS \in ofS /\ kT \in ofT /\ kS \in ofT
    BY <2>1
  <2>3. kS = kT
    <3>1. kS \in T /\ kT \in T /\ KID(kS.suite, kS.pub) = w.ikid /\ KID(kT.suite, kT.pub) = w.ikid
      BY <2>2
    <3> HIDE DEF kS, kT
    <3> QED
      BY <3>1 DEF OneOfEach
  <2>4. OpenWrap(e, w, S, a, ack) =
          IF ~decodeWrap(w) THEN Fails("bad-wrap", ack)
          ELSE IF w.ikid = None THEN OpenInner(e, w, w.body, None, ack)
          ELSE IF ~a THEN Fails("lookup-error", ack)
          ELSE IF ofS = {} THEN Fails("sealed-to-closed-interaction", ack)
          ELSE IF ~HPKEOpens(w.body, w.enc2, kS.pub, IXInfo(e.to, kS.suite, w.ikid))
          THEN Fails("decrypt-failed", ack)
          ELSE OpenInner(e, w, w.body.pt, kS, ack)
    BY DEF OpenWrap
  <2>5. OpenWrap(e, w, T, b, ack) =
          IF ~decodeWrap(w) THEN Fails("bad-wrap", ack)
          ELSE IF w.ikid = None THEN OpenInner(e, w, w.body, None, ack)
          ELSE IF ~b THEN Fails("lookup-error", ack)
          ELSE IF ofT = {} THEN Fails("sealed-to-closed-interaction", ack)
          ELSE IF ~HPKEOpens(w.body, w.enc2, kT.pub, IXInfo(e.to, kT.suite, w.ikid))
          THEN Fails("decrypt-failed", ack)
          ELSE OpenInner(e, w, w.body.pt, kT, ack)
    BY DEF OpenWrap
  <2>6. ofS # {} /\ ofT # {} /\ b
    BY <2>1, <2>2
  <2> HIDE DEF ofS, ofT, kS, kT
  <2> QED
    BY <1>3, <2>1, <2>3, <2>4, <2>5, <2>6
<1> QED
  BY <1>1, <1>2, <1>3

\* Without an answer from the store, what is no lookup error does not depend on the store.
LEMMA OpenWrapNoStore ==
  ASSUME NEW e, NEW w, NEW S, NEW ack, NEW a \in BOOLEAN, NEW b \in BOOLEAN, a => b,
         OpenWrap(e, w, S, a, ack).reason # "lookup-error"
  PROVE  OpenWrap(e, w, S, b, ack) = OpenWrap(e, w, S, a, ack)
<1>1. CASE ~decodeWrap(w)
  BY <1>1 DEF OpenWrap
<1>2. CASE decodeWrap(w) /\ w.ikid = None
  BY <1>2 DEF OpenWrap
<1>3. CASE decodeWrap(w) /\ w.ikid # None
  BY <1>3 DEF OpenWrap, Fails
<1> QED
  BY <1>1, <1>2, <1>3

\* A kid is of one key.
KidsOf(H) == \A k, l \in H : k.suite = l.suite /\ k.kid = l.kid => k.pub = l.pub

\* So does Open with more epoch keys, more interaction keys and a store that answers.
LEMMA OpenMore ==
  ASSUME NEW e, NEW self, NEW G, NEW H, G \subseteq H, KidsOf(H),
         NEW S, NEW T, S \subseteq T, OneOfEach(T),
         NEW a \in BOOLEAN, NEW b \in BOOLEAN, a => b,
         Open(e, self, G, S, a).reason = "ok"
  PROVE  Open(e, self, H, T, b) = Open(e, self, G, S, a)
<1> DEFINE ofG == {k \in G : k.suite = e.suite /\ k.kid = e.kid}
           ofH == {k \in H : k.suite = e.suite /\ k.kid = e.kid}
           kG  == CHOOSE k \in ofG : TRUE
           kH  == CHOOSE k \in ofH : TRUE
           info == HPKEInfo(e.to, e.suite, e.kid)
           oG  == OpenWrap(e, e.ct.pt, S, a, Export(e.enc, kG.pub, info))
           oH  == OpenWrap(e, e.ct.pt, T, b, Export(e.enc, kH.pub, info))
<1>1. Open(e, self, G, S, a) =
        IF ParseOuter(e) # "ok" THEN Fails(ParseOuter(e), None)
        ELSE IF e.to # self THEN Fails("wrong-recipient", None)
        ELSE IF ofG = {} THEN Fails("sealed-to-unknown-key", None)
        ELSE IF ~HPKEOpens(e.ct, e.enc, kG.pub, info) THEN Fails("decrypt-failed", None) ELSE oG
  BY DEF Open
<1>2. Open(e, self, H, T, b) =
        IF ParseOuter(e) # "ok" THEN Fails(ParseOuter(e), None)
        ELSE IF e.to # self THEN Fails("wrong-recipient", None)
        ELSE IF ofH = {} THEN Fails("sealed-to-unknown-key", None)
        ELSE IF ~HPKEOpens(e.ct, e.enc, kH.pub, info) THEN Fails("decrypt-failed", None) ELSE oH
  BY DEF Open
<1>3. \A reason : Fails(reason, None).reason = reason
  BY DEF Fails
<1>4. ofG # {} => ofH # {} /\ kG.pub = kH.pub
  <2> SUFFICES ASSUME ofG # {} PROVE ofH # {} /\ kG.pub = kH.pub
    OBVIOUS
  <2>1. kG \in ofG /\ kG \in ofH /\ kH \in ofH
    OBVIOUS
  <2> QED
    BY <2>1 DEF KidsOf
<1>5. oG.reason = "ok" /\ kG.pub = kH.pub => oH = oG
  BY OpenWrapMore
<1> HIDE DEF ofG, ofH, kG, kH, info, oG, oH
<1>6. ParseOuter(e) = "ok" /\ e.to = self /\ ofG # {} /\ HPKEOpens(e.ct, e.enc, kG.pub, info) /\ oG.reason = "ok"
  BY <1>1, <1>3
<1> QED
  BY <1>1, <1>2, <1>4, <1>5, <1>6

\* What Open says while the store is down, other than that the lookup failed, it says when it is up.
LEMMA OpenNoStore ==
  ASSUME NEW e, NEW self, NEW G, NEW S, NEW a \in BOOLEAN, NEW b \in BOOLEAN, a => b,
         Open(e, self, G, S, a).reason # "lookup-error"
  PROVE  Open(e, self, G, S, b) = Open(e, self, G, S, a)
<1> DEFINE ofG == {k \in G : k.suite = e.suite /\ k.kid = e.kid}
           kG  == CHOOSE k \in ofG : TRUE
           info == HPKEInfo(e.to, e.suite, e.kid)
           ack == Export(e.enc, kG.pub, info)
           oF  == OpenWrap(e, e.ct.pt, S, a, ack)
           oT  == OpenWrap(e, e.ct.pt, S, b, ack)
<1>1. Open(e, self, G, S, a) =
        IF ParseOuter(e) # "ok" THEN Fails(ParseOuter(e), None)
        ELSE IF e.to # self THEN Fails("wrong-recipient", None)
        ELSE IF ofG = {} THEN Fails("sealed-to-unknown-key", None)
        ELSE IF ~HPKEOpens(e.ct, e.enc, kG.pub, info) THEN Fails("decrypt-failed", None) ELSE oF
  BY DEF Open
<1>2. Open(e, self, G, S, b) =
        IF ParseOuter(e) # "ok" THEN Fails(ParseOuter(e), None)
        ELSE IF e.to # self THEN Fails("wrong-recipient", None)
        ELSE IF ofG = {} THEN Fails("sealed-to-unknown-key", None)
        ELSE IF ~HPKEOpens(e.ct, e.enc, kG.pub, info) THEN Fails("decrypt-failed", None) ELSE oT
  BY DEF Open
<1>3. oF.reason # "lookup-error" => oT = oF
  BY OpenWrapNoStore
<1> HIDE DEF ofG, kG, info, ack, oF, oT
<1> QED
  BY <1>1, <1>2, <1>3

-----------------------------------------------------------------------------
(* What the recipient makes of an envelope, with its keys of the moment. *)

\* The kids of the recipient's keys tell them apart.
LEMMA KeysFacts ==
  /\ \A keys \in SUBSET DOMAIN EpochKeys : KidsOf(Image(EpochKeys, keys))
  /\ \A ixs \in SUBSET DOMAIN IXKeys : OneOfEach(Image(IXKeys, ixs))
<1>1. ASSUME NEW keys \in SUBSET DOMAIN EpochKeys PROVE KidsOf(Image(EpochKeys, keys))
  <2> SUFFICES ASSUME NEW k \in Image(EpochKeys, keys), NEW l \in Image(EpochKeys, keys),
                      k.suite = l.suite /\ k.kid = l.kid
               PROVE  k.pub = l.pub
    BY DEF KidsOf
  <2>1. PICK i \in DOMAIN EpochKeys : k = EpochKeys[i]
    BY DEF Image
  <2>2. PICK j \in DOMAIN EpochKeys : l = EpochKeys[j]
    BY DEF Image
  <2>3. KID(k.suite, k.pub) = KID(l.suite, l.pub)
    BY <2>1, <2>2, KeysAssumption
  <2> QED
    BY <2>3 DEF KID
<1>2. ASSUME NEW ixs \in SUBSET DOMAIN IXKeys PROVE OneOfEach(Image(IXKeys, ixs))
  <2> SUFFICES ASSUME NEW k \in Image(IXKeys, ixs), NEW l \in Image(IXKeys, ixs),
                      KID(k.suite, k.pub) = KID(l.suite, l.pub)
               PROVE  k = l
    BY DEF OneOfEach
  <2>1. PICK i \in DOMAIN IXKeys : k = IXKeys[i]
    BY DEF Image
  <2>2. PICK j \in DOMAIN IXKeys : l = IXKeys[j]
    BY DEF Image
  <2>3. k.suite = l.suite /\ k.pub = l.pub
    BY DEF KID
  <2> QED
    BY <2>1, <2>2, <2>3, KeysAssumption
<1> QED
  BY <1>1, <1>2

\* The ack_key Received hands out is the one the envelope exports, or none, and an interaction key
\* it used is one of the node's, for the interaction of the inner.
LEMMA ReceivedFacts ==
  ASSUME NEW env, NEW keys, NEW ixs, NEW answers \in BOOLEAN
  PROVE  LET r == Received(env, keys, ixs, answers)
         IN  /\ r.ack = None \/ r.ack = Export(env.enc, env.ct.pub, env.ct.info)
             /\ r.reason = "ok" => (r.key # None => r.key \in Image(IXKeys, ixs) /\ r.inner.ix = r.key.ix)
<1> DEFINE o == Open(env, "b", Image(EpochKeys, keys), Image(IXKeys, ixs), answers)
           r == Received(env, keys, ixs, answers)
<1>1. /\ o.ack = None \/ o.ack = Export(env.enc, env.ct.pub, env.ct.info)
      /\ o.reason = "ok" => (o.key # None => o.key \in Image(IXKeys, ixs) /\ o.inner.ix = o.key.ix)
  BY OpenFacts
<1>2. r = IF o.reason = "ok" /\ ~Verifies(o.inner.sig, SigningKey(o.inner.from, o.inner.seq), o.pre)
          THEN Fails("bad-sig", o.ack) ELSE o
  BY DEF Received
<1>3. Fails("bad-sig", o.ack).ack = o.ack /\ Fails("bad-sig", o.ack).reason # "ok"
  BY DEF Fails
<1> SUFFICES /\ r.ack = None \/ r.ack = Export(env.enc, env.ct.pub, env.ct.info)
             /\ r.reason = "ok" => (r.key # None => r.key \in Image(IXKeys, ixs) /\ r.inner.ix = r.key.ix)
  OBVIOUS
<1> HIDE DEF o, r
<1> QED
  BY <1>1, <1>2, <1>3

\* With more keys and an answering store, what opened opens.
LEMMA ReceivedMore ==
  ASSUME NEW env, NEW keys, NEW more \in SUBSET DOMAIN EpochKeys, keys \subseteq more,
         NEW ixs, NEW morexs \in SUBSET DOMAIN IXKeys, ixs \subseteq morexs,
         NEW a \in BOOLEAN, NEW b \in BOOLEAN, a => b,
         Received(env, keys, ixs, a).reason = "ok"
  PROVE  Received(env, more, morexs, b).reason = "ok"
<1> DEFINE o == Open(env, "b", Image(EpochKeys, keys), Image(IXKeys, ixs), a)
           p == Open(env, "b", Image(EpochKeys, more), Image(IXKeys, morexs), b)
<1>1. Received(env, keys, ixs, a) =
        IF o.reason = "ok" /\ ~Verifies(o.inner.sig, SigningKey(o.inner.from, o.inner.seq), o.pre)
        THEN Fails("bad-sig", o.ack) ELSE o
  BY DEF Received
<1>2. Received(env, more, morexs, b) =
        IF p.reason = "ok" /\ ~Verifies(p.inner.sig, SigningKey(p.inner.from, p.inner.seq), p.pre)
        THEN Fails("bad-sig", p.ack) ELSE p
  BY DEF Received
<1>3. o.reason = "ok"
  <2> HIDE DEF o
  <2> QED
    BY <1>1 DEF Fails
<1>4. Image(EpochKeys, keys) \subseteq Image(EpochKeys, more) /\ Image(IXKeys, ixs) \subseteq Image(IXKeys, morexs)
  BY DEF Image
<1>5. KidsOf(Image(EpochKeys, more)) /\ OneOfEach(Image(IXKeys, morexs))
  BY KeysFacts
<1>6. p = o
  BY <1>3, <1>4, <1>5, OpenMore
<1> HIDE DEF o, p
<1> QED
  BY <1>1, <1>2, <1>6

\* A verdict other than a lookup error stands when the store answers.
LEMMA ReceivedNoStore ==
  ASSUME NEW env, NEW keys, NEW ixs, NEW a \in BOOLEAN, NEW b \in BOOLEAN, a => b,
         Received(env, keys, ixs, a).reason # "lookup-error"
  PROVE  Received(env, keys, ixs, b) = Received(env, keys, ixs, a)
<1> DEFINE o == Open(env, "b", Image(EpochKeys, keys), Image(IXKeys, ixs), a)
           p == Open(env, "b", Image(EpochKeys, keys), Image(IXKeys, ixs), b)
<1>1. Received(env, keys, ixs, a) =
        IF o.reason = "ok" /\ ~Verifies(o.inner.sig, SigningKey(o.inner.from, o.inner.seq), o.pre)
        THEN Fails("bad-sig", o.ack) ELSE o
  BY DEF Received
<1>2. Received(env, keys, ixs, b) =
        IF p.reason = "ok" /\ ~Verifies(p.inner.sig, SigningKey(p.inner.from, p.inner.seq), p.pre)
        THEN Fails("bad-sig", p.ack) ELSE p
  BY DEF Received
<1>3. o.reason # "lookup-error"
  <2> HIDE DEF o
  <2> QED
    BY <1>1
<1>4. p = o
  BY <1>3, OpenNoStore
<1> HIDE DEF o, p
<1> QED
  BY <1>1, <1>2, <1>4

-----------------------------------------------------------------------------
(* The inductive invariant. *)

Forms == (DOMAIN Drafts) \X KeySeqs \X (DOMAIN Options) \X KeySeqs

\* Seal let the form through.
Sealable(f) == SealAccepts(InnerOf(f), Options[f[3]].key, Signer(f[4]), OptsOf(f))

Sent == 1..Len(sent)

TypeInv ==
  /\ seq \in KeySeqs
  /\ msg # None => msg \in [draft : DOMAIN Drafts, seq : KeySeqs]
  /\ belief \in [Versions -> 0..2]
  /\ ring \in SUBSET DOMAIN EpochKeys /\ ixkeys \in SUBSET DOMAIN IXKeys /\ up \in BOOLEAN
  /\ acts \in {0, 1}
  /\ decided \in [Versions -> SUBSET {Processed, Refused}]
  /\ queue \subseteq Sent

\* The versions are what Seal made of forms it let through, each with the randomness of its own.
SentOK ==
  /\ sent \in Seq({SealedAs(f, v) : f \in Forms, v \in Versions})
  /\ Len(sent) <= MaxVersions
  /\ \A v \in Sent : \E f \in Forms : Sealable(f) /\ sent[v] = SealedAs(f, v)

\* What was refused cannot be opened any more, whether the store answers or not.
RefusedForGood ==
  \A v \in Versions : Refused \in decided[v] =>
    /\ v \in Sent
    /\ \A a \in BOOLEAN : Received(sent[v].env, ring, ixkeys, a).reason # "ok"

\* A token is of a version and of an outcome the recipient decided of it.
IsOf(d, v) == \E o \in decided[v] : d.tok = token(sent[v].ack, o)

TokensOK == \A d \in dacks : \E v \in Sent : IsOf(d, v)

Inv == TypeInv /\ SentOK /\ RefusedForGood /\ TokensOK /\ ClosedStaysClosed

-----------------------------------------------------------------------------
(* The versions a sent. *)

\* The ack_key of a version is the one its ciphertext was made with, and of no other version.
LEMMA SealedFacts ==
  ASSUME NEW f, NEW v
  PROVE  LET x == SealedAs(f, v)
         IN  /\ x.form = f
             /\ x.env.enc = <<"enc", v>>
             /\ x.ack = Export(x.env.enc, x.env.ct.pub, x.env.ct.info)
BY DEF SealedAs, Seal, HPKESeal, WithAccess, FirstContact

\* Equal tokens are of one version and one outcome.
LEMMA AcksDiffer ==
  ASSUME SentOK, NEW v \in Sent, NEW w \in Sent, NEW o, NEW p,
         token(sent[v].ack, o) = token(sent[w].ack, p)
  PROVE  v = w /\ o = p
<1>1. sent[v].ack = sent[w].ack /\ o = p
  BY DEF token
<1>2. /\ sent[v].env.enc = <<"enc", v>>
      /\ sent[v].ack = Export(sent[v].env.enc, sent[v].env.ct.pub, sent[v].env.ct.info)
  BY SealedFacts DEF SentOK
<1>3. /\ sent[w].env.enc = <<"enc", w>>
      /\ sent[w].ack = Export(sent[w].env.enc, sent[w].env.ct.pub, sent[w].env.ct.info)
  BY SealedFacts DEF SentOK
<1>4. Export(sent[v].env.enc, sent[v].env.ct.pub, sent[v].env.ct.info) =
        Export(sent[w].env.enc, sent[w].env.ct.pub, sent[w].env.ct.info)
  BY <1>1, <1>2, <1>3
<1>5. sent[v].env.enc = sent[w].env.enc
  BY <1>4 DEF Export
<1>6. <<"enc", v>> = <<"enc", w>>
  BY <1>2, <1>3, <1>5
<1> QED
  BY <1>1, <1>6

\* What the recipient has for the ack_key of a version is that version's, if it has one.
LEMMA ResultAck ==
  ASSUME TypeInv, SentOK, NEW v \in Sent
  PROVE  Result(v).ack = None \/ Result(v).ack = sent[v].ack
<1>1. sent[v].ack = Export(sent[v].env.enc, sent[v].env.ct.pub, sent[v].env.ct.info)
  BY SealedFacts DEF SentOK
<1>2. up \in BOOLEAN
  BY DEF TypeInv
<1> QED
  BY <1>1, <1>2, ReceivedFacts DEF Result

\* A token VerifyDAck finds is of a version a sent, and says what was decided of it.
LEMMA LearnFacts ==
  ASSUME TypeInv, SentOK, NEW d, NEW v \in Sent, IsOf(d, v)
  PROVE  LET got == VerifyDAck([x \in DOMAIN sent |-> sent[x].ack], d)
         IN  got.idx # 0 => got.idx \in Versions /\ got.outcome \in decided[got.idx] /\ got.outcome \in 0..2
<1> DEFINE keys  == [x \in DOMAIN sent |-> sent[x].ack]
           hits  == {h \in (1..Len(keys)) \X {Processed, Refused} :
                       keys[h[1]] # None /\ d.tok = token(keys[h[1]], h[2])}
           found == {[idx |-> h[1], outcome |-> h[2], note |-> openNote(keys[h[1]], h[2], d.note)] : h \in hits}
           got   == VerifyDAck(keys, d)
<1>1. sent \in Seq({SealedAs(f, x) : f \in Forms, x \in Versions}) /\ Len(sent) <= MaxVersions
  BY DEF SentOK
<1>2. DOMAIN sent = Sent /\ Len(keys) = Len(sent) /\ Len(sent) \in Nat
  BY <1>1 DEF Sent
<1>3. PICK o \in decided[v] : d.tok = token(sent[v].ack, o)
  BY DEF IsOf
<1>4. v \in Versions /\ o \in {Processed, Refused}
  BY <1>1, <1>2, KeysAssumption DEF TypeInv, Sent, Versions
<1>5. ASSUME NEW h \in hits PROVE h[1] = v /\ h[2] = o
  <2>1. h[1] \in Sent /\ d.tok = token(sent[h[1]].ack, h[2])
    BY <1>2 DEF Sent
  <2> QED
    BY <2>1, <1>3, AcksDiffer
<1>6. ASSUME NEW f \in found PROVE f.idx = v /\ f.outcome = o
  <2>1. PICK h \in hits : f = [idx |-> h[1], outcome |-> h[2], note |-> openNote(keys[h[1]], h[2], d.note)]
    OBVIOUS
  <2> HIDE DEF hits
  <2> QED
    BY <2>1, <1>5
<1>7. v \in Nat /\ o \in Nat
  BY <1>4 DEF Versions, Processed, Refused
<1>8. got = IF found = {} THEN [idx |-> 0, outcome |-> 0, note |-> None]
            ELSE CHOOSE f \in found : \A g \in found : f.idx < g.idx \/ (f.idx = g.idx /\ f.outcome <= g.outcome)
  BY DEF VerifyDAck
<1> SUFFICES got.idx # 0 => got.idx \in Versions /\ got.outcome \in decided[got.idx] /\ got.outcome \in 0..2
  OBVIOUS
<1> HIDE DEF keys, hits, found, got
<1>9. CASE found = {}
  BY <1>8, <1>9
<1>10. CASE found # {}
  <2>1. PICK f \in found : TRUE
    BY <1>10
  <2>2. \A g \in found : f.idx < g.idx \/ (f.idx = g.idx /\ f.outcome <= g.outcome)
    BY <2>1, <1>6, <1>7
  <2>3. got \in found
    BY <1>8, <1>10, <2>2
  <2> QED
    BY <2>3, <1>6, <1>3, <1>4 DEF Processed, Refused
<1> QED
  BY <1>9, <1>10

-----------------------------------------------------------------------------
(* The steps. *)

\* The initial state.
LEMMA InitInv == Init => Inv
<1> SUFFICES ASSUME Init PROVE Inv
  OBVIOUS
<1>1. TypeInv
  BY KeysAssumption DEF Init, TypeInv, KeySeqs, Sent
<1>2. SentOK
  BY KeysAssumption DEF Init, SentOK, Sent
<1>3. RefusedForGood /\ TokensOK /\ ClosedStaysClosed
  BY DEF Init, RefusedForGood, TokensOK, ClosedStaysClosed
<1> QED
  BY <1>1, <1>2, <1>3 DEF Inv

\* Fewer keys open nothing that was refused.
LEMMA FewerKeys ==
  ASSUME Inv, ring' \subseteq ring, ixkeys' \subseteq ixkeys, UNCHANGED <<sent, decided>>
  PROVE  RefusedForGood'
<1> SUFFICES ASSUME NEW v \in Versions, Refused \in decided'[v]
             PROVE  /\ v \in Sent'
                    /\ \A a \in BOOLEAN : Received(sent'[v].env, ring', ixkeys', a).reason # "ok"
  BY DEF RefusedForGood
<1>1. v \in Sent /\ \A a \in BOOLEAN : Received(sent[v].env, ring, ixkeys, a).reason # "ok"
  BY DEF Inv, RefusedForGood
<1>2. ring \in SUBSET DOMAIN EpochKeys /\ ixkeys \in SUBSET DOMAIN IXKeys
  BY DEF Inv, TypeInv
<1>3. ASSUME NEW a \in BOOLEAN, Received(sent[v].env, ring', ixkeys', a).reason = "ok" PROVE FALSE
  <2>1. Received(sent[v].env, ring, ixkeys, a).reason = "ok"
    BY <1>2, <1>3, ReceivedMore
  <2> QED
    BY <2>1, <1>1
<1> QED
  BY <1>1, <1>3 DEF Sent

\* The steps that change neither the versions nor what the recipient decided.
LEMMA QuietInv ==
  ASSUME Inv, UNCHANGED <<sent, decided, acted, acts>>, ring' \subseteq ring, ixkeys' \subseteq ixkeys,
         up' \in BOOLEAN, seq' \in KeySeqs, msg' # None => msg' \in [draft : DOMAIN Drafts, seq : KeySeqs],
         queue' \subseteq Sent, dacks' \subseteq dacks, belief' \in [Versions -> 0..2]
  PROVE  Inv'
<1>1. TypeInv'
  BY DEF Inv, TypeInv, Sent
<1>2. SentOK'
  BY DEF Inv, SentOK, Sent
<1>3. RefusedForGood'
  BY FewerKeys
<1>4. TokensOK'
  BY DEF Inv, TokensOK, IsOf, Sent
<1>5. ClosedStaysClosed'
  BY DEF Inv, ClosedStaysClosed
<1> QED
  BY <1>1, <1>2, <1>3, <1>4, <1>5 DEF Inv

\* Draft.
LEMMA DraftInv ==
  ASSUME Inv, NEW d \in DOMAIN Drafts, Draft(d)
  PROVE  Inv'
<1>1. msg' \in [draft : DOMAIN Drafts, seq : KeySeqs]
  BY DEF Draft, Inv, TypeInv
<1> QED
  BY <1>1, QuietInv DEF Draft, Inv, TypeInv, keyVars, replayVars, hubVars

\* RotateKey.
LEMMA RotateKeyInv ==
  ASSUME Inv, RotateKey
  PROVE  Inv'
<1>1. seq' \in KeySeqs
  BY KeysAssumption DEF RotateKey, Inv, TypeInv, KeySeqs
<1> QED
  BY <1>1, QuietInv DEF RotateKey, Inv, TypeInv, keyVars, replayVars, hubVars

\* Submit.
LEMMA SubmitInv ==
  ASSUME Inv, NEW v \in Versions, Submit(v)
  PROVE  Inv'
<1>1. DOMAIN sent = Sent
  BY DEF Inv, SentOK, Sent
<1>2. queue' = queue \cup {v} /\ v \in Sent /\ queue \subseteq Sent
  BY <1>1 DEF Submit, Inv, TypeInv
<1>3. queue' \subseteq Sent
  BY <1>2
<1> QED
  BY <1>3, QuietInv DEF Submit, Inv, TypeInv, senderVars, keyVars, replayVars

\* StoreDown and StoreUp.
LEMMA StoreInv ==
  ASSUME Inv, StoreDown \/ StoreUp
  PROVE  Inv'
BY QuietInv DEF StoreDown, StoreUp, Inv, TypeInv, senderVars, replayVars, hubVars

\* DropEpochKey and CloseInteraction: fewer keys open less.
LEMMA DropInv ==
  ASSUME Inv, (\E k \in DOMAIN EpochKeys : DropEpochKey(k)) \/ (\E k \in DOMAIN IXKeys : CloseInteraction(k))
  PROVE  Inv'
BY QuietInv DEF DropEpochKey, CloseInteraction, Inv, TypeInv, senderVars, replayVars, hubVars

\* LoseDAck.
LEMMA LoseDAckInv ==
  ASSUME Inv, NEW d, LoseDAck(d)
  PROVE  Inv'
BY QuietInv DEF LoseDAck, Inv, TypeInv, senderVars, keyVars, replayVars

\* What Learn writes down of a version, the recipient decided of it.
LEMMA LearnStep ==
  ASSUME Inv, NEW d, Learn(d)
  PROVE  /\ belief' \in [Versions -> 0..2]
         /\ \/ belief' = belief
            \/ \E v \in Versions : belief[v] = 0 /\ \E o \in decided[v] : belief' = [belief EXCEPT ![v] = o]
<1>1. PICK v \in Sent : IsOf(d, v)
  BY DEF Inv, TokensOK, Learn
<1> DEFINE got == VerifyDAck([x \in DOMAIN sent |-> sent[x].ack], d)
<1>2. got.idx # 0 => got.idx \in Versions /\ got.outcome \in decided[got.idx] /\ got.outcome \in 0..2
  BY <1>1, LearnFacts DEF Inv
<1>3. belief' = IF got.idx # 0 /\ belief[got.idx] = 0 THEN [belief EXCEPT ![got.idx] = got.outcome] ELSE belief
  BY DEF Learn
<1>4. belief \in [Versions -> 0..2]
  BY DEF Inv, TypeInv
<1> HIDE DEF got
<1>5. CASE ~(got.idx # 0 /\ belief[got.idx] = 0)
  BY <1>3, <1>4, <1>5
<1>6. CASE got.idx # 0 /\ belief[got.idx] = 0
  <2> DEFINE w == got.idx
             o == got.outcome
  <2>1. w \in Versions /\ o \in decided[w] /\ o \in 0..2 /\ belief[w] = 0
    BY <1>2, <1>6
  <2>2. belief' = [belief EXCEPT ![w] = o]
    BY <1>3, <1>6
  <2> HIDE DEF w, o
  <2> QED
    BY <2>1, <2>2, <1>4
<1> QED
  BY <1>5, <1>6

\* Learn: what it writes was decided.
LEMMA LearnInv ==
  ASSUME Inv, NEW d, Learn(d)
  PROVE  Inv'
<1>1. belief' \in [Versions -> 0..2]
  BY LearnStep
<1> QED
  BY <1>1, QuietInv DEF Learn, Inv, TypeInv, keyVars, replayVars

\* The tokens of before are of the versions of before.
LEMMA SealVersionInv ==
  ASSUME Inv, NEW o \in DOMAIN Options, SealVersion(o)
  PROVE  Inv'
<1> DEFINE f == <<msg.draft, msg.seq, o, seq>>
           n == Len(sent) + 1
<1>1. CASE ~SealAccepts(InnerOf(f), Options[o].key, Signer(seq), OptsOf(f))
  BY <1>1, QuietInv DEF SealVersion, Inv, TypeInv, keyVars, replayVars, hubVars
<1>2. CASE SealAccepts(InnerOf(f), Options[o].key, Signer(seq), OptsOf(f))
  <2>1. /\ msg # None /\ Len(sent) < MaxVersions
        /\ sent' = Append(sent, SealedAs(f, n))
        /\ UNCHANGED <<msg, seq, belief, ring, ixkeys, up, acted, acts, decided, queue, dacks>>
    BY <1>2 DEF SealVersion, keyVars, replayVars, hubVars
  <2>2. f \in Forms /\ Sealable(f)
    BY <1>2, <2>1 DEF Inv, TypeInv, Forms, Sealable
  <2>3. sent \in Seq({SealedAs(g, v) : g \in Forms, v \in Versions})
    BY DEF Inv, SentOK
  <2>4. n \in Versions /\ Len(sent) \in Nat
    BY <2>1, <2>3, KeysAssumption DEF Versions
  <2>5. SealedAs(f, n) \in {SealedAs(g, v) : g \in Forms, v \in Versions}
    BY <2>2, <2>4
  <2> DEFINE x == SealedAs(f, n)
             S == {SealedAs(g, v) : g \in Forms, v \in Versions}
  <2>6. x \in S /\ sent \in Seq(S) /\ sent' = Append(sent, x)
    BY <2>1, <2>3, <2>5
  <2>7. x = SealedAs(f, n)
    OBVIOUS
  <2> HIDE DEF x, S, f
  <2>8. /\ sent' \in Seq(S) /\ Len(sent') = n /\ sent'[n] = x
        /\ \A v \in Sent : sent'[v] = sent[v] /\ v \in Sent'
        /\ \A v \in Sent' : v \in Sent \/ v = n
    BY <2>4, <2>6 DEF Sent
  <2>9. SentOK'
    <3>1. Len(sent') <= MaxVersions
      BY <2>1, <2>4, <2>8, KeysAssumption
    <3>2. \A v \in Sent' : \E g \in Forms : Sealable(g) /\ sent'[v] = SealedAs(g, v)
      BY <2>2, <2>7, <2>8 DEF Inv, SentOK
    <3> QED
      BY <2>8, <3>1, <3>2 DEF SentOK, S
  <2>10. TypeInv'
    BY <2>1, <2>8 DEF Inv, TypeInv
  <2>11. RefusedForGood'
    BY <2>1, <2>8 DEF Inv, RefusedForGood
  <2>12. TokensOK'
    BY <2>1, <2>8 DEF Inv, TokensOK, IsOf
  <2>13. ClosedStaysClosed'
    BY <2>1 DEF Inv, ClosedStaysClosed
  <2> QED
    BY <2>9, <2>10, <2>11, <2>12, <2>13 DEF Inv
<1> QED
  BY <1>1, <1>2

\* An answer's token is of the version and of the outcome that was decided.
LEMMA AnswerFacts ==
  ASSUME Inv, NEW v \in Sent, NEW o, NEW note, Answer(Result(v), o, note), NEW d \in dacks'
  PROVE  d \in dacks \/ d.tok = token(sent[v].ack, o)
<1>1. d \in dacks \/ (Result(v).ack # None /\ d = MakeDAck(Result(v).ack, o, note))
  BY DEF Answer, MakeDAckAccepts
<1>2. Result(v).ack = None \/ Result(v).ack = sent[v].ack
  BY ResultAck DEF Inv
<1>3. MakeDAck(Result(v).ack, o, note).tok = token(Result(v).ack, o)
  BY DEF MakeDAck
<1> QED
  BY <1>1, <1>2, <1>3

\* The recipient's decision: one more outcome of a version in the queue, and a token that says it.
LEMMA DecideInv ==
  ASSUME Inv, NEW v \in Versions, v \in queue, NEW o \in {Processed, Refused}, NEW note,
         decided' = [decided EXCEPT ![v] = @ \cup {o}], Answer(Result(v), o, note),
         queue' = queue \ {v}, UNCHANGED <<senderVars, keyVars>>, acts' \in {0, 1},
         o = Refused => \A a \in BOOLEAN : Received(sent[v].env, ring, ixkeys, a).reason # "ok"
  PROVE  TypeInv' /\ SentOK' /\ RefusedForGood' /\ TokensOK'
<1> USE DEF senderVars, keyVars
<1>1. v \in Sent /\ Sent' = Sent
  BY DEF Inv, TypeInv, Sent
<1>2. decided \in [Versions -> SUBSET {Processed, Refused}]
  BY DEF Inv, TypeInv
<1>3. \A w \in Versions : decided'[w] = IF w = v THEN decided[w] \cup {o} ELSE decided[w]
  BY <1>2
<1>4. TypeInv'
  <2>1. decided' \in [Versions -> SUBSET {Processed, Refused}]
    BY <1>2
  <2> QED
    BY <1>1, <2>1 DEF Inv, TypeInv
<1>5. SentOK'
  BY <1>1 DEF Inv, SentOK
<1>6. RefusedForGood'
  <2> SUFFICES ASSUME NEW w \in Versions, Refused \in decided'[w]
               PROVE  /\ w \in Sent
                      /\ \A a \in BOOLEAN : Received(sent[w].env, ring, ixkeys, a).reason # "ok"
    BY <1>1 DEF RefusedForGood
  <2>1. CASE Refused \in decided[w]
    BY <2>1 DEF Inv, RefusedForGood
  <2>2. CASE Refused \notin decided[w]
    BY <2>2, <1>1, <1>3
  <2> QED
    BY <2>1, <2>2
<1>7. TokensOK'
  <2> SUFFICES ASSUME NEW d \in dacks' PROVE \E w \in Sent : \E p \in decided'[w] : d.tok = token(sent[w].ack, p)
    BY <1>1 DEF TokensOK, IsOf
  <2>0. Sent \subseteq Versions
    BY KeysAssumption DEF Inv, SentOK, Sent, Versions
  <2>1. CASE d \in dacks
    <3>1. PICK w \in Sent : \E p \in decided[w] : d.tok = token(sent[w].ack, p)
      BY <2>1 DEF Inv, TokensOK, IsOf
    <3>2. decided[w] \subseteq decided'[w]
      BY <1>3, <2>0
    <3> QED
      BY <3>1, <3>2
  <2>2. CASE d.tok = token(sent[v].ack, o)
    <3>1. o \in decided'[v]
      BY <1>3
    <3> QED
      BY <2>2, <3>1, <1>1
  <2> QED
    BY <1>1, <2>1, <2>2, AnswerFacts
<1> QED
  BY <1>4, <1>5, <1>6, <1>7

\* TakeMessage: what opens now had not been refused before.
LEMMA TakeMessageInv ==
  ASSUME Inv, NEW v \in Versions, TakeMessage(v)
  PROVE  Inv' /\ Refused \notin decided[v]
<1> DEFINE r == Result(v)
<1>1. /\ v \in queue /\ queue' = queue \ {v} /\ UNCHANGED <<senderVars, keyVars>>
      /\ r.reason = "ok"
      /\ decided' = [decided EXCEPT ![v] = @ \cup {Processed}]
      /\ IF acts = 0
         THEN /\ acts' = 1
              /\ acted' = [inner |-> r.inner, key |-> r.key, open |-> {IXKeys[k].ix : k \in ixkeys}]
         ELSE UNCHANGED <<acts, acted>>
      /\ Answer(r, Processed, EmptyNote)
  BY DEF TakeMessage
<1>2. TypeInv' /\ SentOK' /\ RefusedForGood' /\ TokensOK'
  <2>1. acts' \in {0, 1}
    BY <1>1 DEF Inv, TypeInv
  <2>2. Processed \in {Processed, Refused} /\ Processed # Refused
    BY DEF Processed, Refused
  <2>3. Answer(Result(v), Processed, EmptyNote)
    BY <1>1
  <2> HIDE DEF r
  <2> QED
    BY <1>1, <2>1, <2>2, <2>3, DecideInv
<1>3. up \in BOOLEAN
  BY DEF Inv, TypeInv
<1>4. ClosedStaysClosed'
  <2>1. r.key # None => r.key \in Image(IXKeys, ixkeys) /\ r.inner.ix = r.key.ix
    BY <1>1, <1>3, ReceivedFacts DEF Result
  <2>2. r.key \in Image(IXKeys, ixkeys) => r.key.ix \in {IXKeys[k].ix : k \in ixkeys}
    BY DEF Image
  <2> HIDE DEF r
  <2>3. CASE acts = 0
    BY <1>1, <2>1, <2>2, <2>3 DEF ClosedStaysClosed
  <2>4. CASE acts # 0
    BY <1>1, <2>4 DEF Inv, ClosedStaysClosed
  <2> QED
    BY <2>3, <2>4
<1>5. Refused \notin decided[v]
  BY <1>1, <1>3 DEF Inv, RefusedForGood, Result
<1> QED
  BY <1>2, <1>4, <1>5 DEF Inv

\* RefuseMessage: what is refused for good has not opened and will not.
LEMMA RefuseMessageInv ==
  ASSUME Inv, NEW v \in Versions, RefuseMessage(v)
  PROVE  Inv'
<1> DEFINE r == Result(v)
           note == [reason |-> r.reason, retryAfter |-> 0]
<1>1. /\ v \in queue /\ queue' = queue \ {v} /\ UNCHANGED <<senderVars, keyVars, acted, acts>>
      /\ r.reason # "ok" /\ Permanent(r.reason)
      /\ decided' = [decided EXCEPT ![v] = @ \cup {Refused}]
      /\ Answer(r, Refused, note)
  BY DEF RefuseMessage
<1>2. r.reason # "lookup-error"
  <2> HIDE DEF r
  <2> QED
    BY <1>1 DEF Permanent, Reasons
<1>3. \A a \in BOOLEAN : Received(sent[v].env, ring, ixkeys, a).reason # "ok"
  <2> SUFFICES ASSUME NEW a \in BOOLEAN, Received(sent[v].env, ring, ixkeys, a).reason = "ok" PROVE FALSE
    OBVIOUS
  <2>1. up \in BOOLEAN /\ ring \in SUBSET DOMAIN EpochKeys /\ ixkeys \in SUBSET DOMAIN IXKeys
    BY DEF Inv, TypeInv
  <2>2. CASE a => up
    BY <1>1, <2>1, <2>2, ReceivedMore DEF Result
  <2>3. CASE up => a
    BY <1>1, <1>2, <2>1, <2>3, ReceivedNoStore DEF Result
  <2> QED
    BY <2>2, <2>3
<1>4. acts' \in {0, 1}
  BY <1>1 DEF Inv, TypeInv
<1>5. TypeInv' /\ SentOK' /\ RefusedForGood' /\ TokensOK'
  <2> HIDE DEF note
  <2> QED
    BY <1>1, <1>3, <1>4, DecideInv
<1>6. ClosedStaysClosed'
  BY <1>1 DEF Inv, ClosedStaysClosed
<1> QED
  BY <1>5, <1>6 DEF Inv

\* Every step.
LEMMA NextInv == Inv /\ [Next]_vars => Inv'
<1> SUFFICES ASSUME Inv, [Next]_vars PROVE Inv'
  OBVIOUS
<1>1. ASSUME NEW d \in DOMAIN Drafts, Draft(d) PROVE Inv'
  BY <1>1, DraftInv
<1>2. ASSUME NEW o \in DOMAIN Options, SealVersion(o) PROVE Inv'
  BY <1>2, SealVersionInv
<1>3. CASE RotateKey
  BY <1>3, RotateKeyInv
<1>4. ASSUME NEW v \in Versions, Submit(v) \/ TakeMessage(v) \/ RefuseMessage(v) PROVE Inv'
  BY <1>4, SubmitInv, TakeMessageInv, RefuseMessageInv
<1>5. ASSUME NEW d \in dacks, Learn(d) \/ LoseDAck(d) PROVE Inv'
  BY <1>5, LearnInv, LoseDAckInv
<1>6. CASE (\E k \in DOMAIN EpochKeys : DropEpochKey(k)) \/ (\E k \in DOMAIN IXKeys : CloseInteraction(k))
  BY <1>6, DropInv
<1>7. CASE StoreDown \/ StoreUp
  BY <1>7, StoreInv
<1>8. CASE UNCHANGED vars
  <2>1. UNCHANGED <<seq, msg, sent, belief, ring, ixkeys, up, acted, acts, decided, queue, dacks>>
    BY <1>8 DEF vars, senderVars, keyVars, replayVars, hubVars
  <2>2. /\ up \in BOOLEAN /\ seq \in KeySeqs /\ (msg # None => msg \in [draft : DOMAIN Drafts, seq : KeySeqs])
        /\ queue \subseteq Sent /\ belief \in [Versions -> 0..2]
    BY DEF Inv, TypeInv
  <2> QED
    BY <2>1, <2>2, QuietInv
<1> QED
  BY <1>1, <1>2, <1>3, <1>4, <1>5, <1>6, <1>7, <1>8 DEF Next

-----------------------------------------------------------------------------
(* The theorems. *)

\* The inductive invariant holds.
THEOREM Invariance == Spec => []Inv
<1> QED
  BY InitInv, NextInv, PTL DEF Spec

\* An interaction that was closed takes nothing in, whatever was sealed to the key of another
\* and whenever it arrives (OpenInner, OpenWrap).
THEOREM Closed == Spec => []ClosedStaysClosed
<1>1. Inv => ClosedStaysClosed
  BY DEF Inv
<1> QED
  BY <1>1, Invariance, PTL

\* A step of Delivery is a step of Mail, or changes nothing Mail speaks of.
LEMMA StepDecides == Inv /\ [Next]_vars => [Mailbox!Next]_(Mailbox!vars)
<1> SUFFICES ASSUME Inv, [Next]_vars PROVE Mailbox!Next \/ UNCHANGED <<decided, acts, belief>>
  BY DEF Mailbox!vars
<1>1. ASSUME NEW v \in Versions, TakeMessage(v) PROVE Mailbox!Take(v)
  <2>1. Refused \notin decided[v]
    BY <1>1, TakeMessageInv
  <2>2. acts' = 1
    BY <1>1 DEF TakeMessage, Inv, TypeInv
  <2> QED
    BY <1>1, <2>1, <2>2 DEF TakeMessage, senderVars, Mailbox!Take
<1>2. ASSUME NEW v \in Versions, RefuseMessage(v) PROVE Mailbox!Refuse(v)
  BY <1>2 DEF RefuseMessage, senderVars, Mailbox!Refuse
<1>3. ASSUME NEW d \in dacks, Learn(d)
      PROVE  UNCHANGED <<decided, acts, belief>> \/ \E v \in Versions : Mailbox!Learn(v)
  BY <1>3, LearnStep DEF Learn, replayVars, Mailbox!Learn
<1>4. CASE \/ \E d \in DOMAIN Drafts : Draft(d)
           \/ \E o \in DOMAIN Options : SealVersion(o)
           \/ RotateKey \/ StoreDown \/ StoreUp
           \/ \E v \in Versions : Submit(v)
           \/ \E d \in dacks : LoseDAck(d)
           \/ \E k \in DOMAIN EpochKeys : DropEpochKey(k)
           \/ \E k \in DOMAIN IXKeys : CloseInteraction(k)
           \/ UNCHANGED vars
  <2>1. UNCHANGED <<decided, acts, belief>>
    BY <1>4 DEF Draft, SealVersion, RotateKey, StoreDown, StoreUp, Submit, LoseDAck, DropEpochKey,
                CloseInteraction, vars, senderVars, replayVars
  <2> QED
    BY <2>1
<1> QED
  BY <1>1, <1>2, <1>3, <1>4 DEF Next, Mailbox!Next

\* What the sender believes is what the recipient decided, refusals are final and the message is
\* acted on at most once: Delivery implements Mail, for any number of versions, under any keys
\* and options, however often versions are submitted and tokens are lost.
THEOREM Delivered == Spec => DeliveredAsDecided
<1>1. Init => Mailbox!Init
  BY DEF Init, Mailbox!Init
<1> QED
  BY <1>1, StepDecides, Invariance, PTL DEF Spec, DeliveredAsDecided, Mailbox!Spec

-----------------------------------------------------------------------------
(* What Seal let through, Open does. *)

\* None and Bad are no value the model builds: no tuple, no record of Seal and no name.
NilIsNil ==
  /\ Present(EnvelopeVersion) /\ Present(SuiteX25519) /\ Present("a") /\ Present("b") /\ Present(FirstContact)
  /\ \A a, b : Present(<<a, b>>)
  /\ \A a, b, c : Present(<<a, b, c>>)
  /\ \A enc, pub, info, pt : Present(HPKESeal(enc, pub, info, pt))
  /\ \A in : DOMAIN in = InnerFields => Present(in)

NoHooks == [inner |-> {}, wrap |-> {}, outer |-> {}]

IsInner(in) == in = [x \in InnerFields |-> in[x]]

\* An inner with its signature on; nobody added a key to its map.
Signed(in, sig) == [in EXCEPT !.sig = sig, !.ext = @ \cup {}]

\* It has the fields it had.
LEMMA SignedFields ==
  ASSUME NEW in, IsInner(in), NEW sig
  PROVE  /\ DOMAIN Signed(in, sig) = InnerFields
         /\ Signed(in, sig).sig = sig
         /\ \A x \in InnerFields \ {"sig"} : Signed(in, sig)[x] = in[x]
<1> DEFINE inner == Signed(in, sig)
<1>1. inner = [x \in InnerFields |-> IF x = "sig" THEN sig ELSE in[x]]
  BY DEF IsInner, InnerFields, Signed
<1> HIDE DEF inner
<1> SUFFICES /\ DOMAIN inner = InnerFields
             /\ inner.sig = sig
             /\ \A x \in InnerFields \ {"sig"} : inner[x] = in[x]
  BY DEF inner
<1> QED
  BY <1>1 DEF InnerFields

\* It is signed for the same bytes.
LEMMA SignedBytes ==
  ASSUME NEW in, IsInner(in), NEW sig
  PROVE  /\ in.sig = None => [Signed(in, sig) EXCEPT !.sig = None] = in
         /\ [Signed(in, sig) EXCEPT !.sig = None, !.body = <<"sha256", @>>] =
              [in EXCEPT !.sig = None, !.body = <<"sha256", @>>]
<1> DEFINE inner == Signed(in, sig)
<1>1. inner = [x \in InnerFields |-> IF x = "sig" THEN sig ELSE in[x]]
  BY DEF IsInner, InnerFields, Signed
<1> HIDE DEF inner
<1>2. in.sig = None => [inner EXCEPT !.sig = None] = in
  BY <1>1 DEF IsInner, InnerFields
<1>3. [inner EXCEPT !.sig = None, !.body = <<"sha256", @>>] = [in EXCEPT !.sig = None, !.body = <<"sha256", @>>]
  BY <1>1 DEF IsInner, InnerFields
<1> QED
  BY <1>2, <1>3 DEF inner

\* The draft of a form is an inner of a's.
LEMMA FormFacts ==
  ASSUME NEW f \in Forms
  PROVE  LET in == InnerOf(f)
         IN  /\ IsInner(in)
             /\ in.from = "a" /\ in.to = "b" /\ in.sig = None /\ in.seq = f[2]
             /\ Present(in.type) /\ Present(in.ix) /\ Present(in.body) /\ in.mid # None
             /\ in.ext \subseteq Int
<1> DEFINE d  == Drafts[f[1]]
           in == InnerOf(f)
<1>1. /\ IsInner(d)
      /\ d.from = "a" /\ d.to = "b" /\ d.sig = None
      /\ Present(d.type) /\ Present(d.ix) /\ Present(d.body) /\ d.mid # None
      /\ d.ext \subseteq Int
  BY DraftsAssumption DEF Forms, IsInner
<1>2. in = [d EXCEPT !.seq = f[2]]
  BY DEF InnerOf
<1> SUFFICES /\ IsInner(in)
             /\ in.from = "a" /\ in.to = "b" /\ in.sig = None /\ in.seq = f[2]
             /\ Present(in.type) /\ Present(in.ix) /\ Present(in.body) /\ in.mid # None
             /\ in.ext \subseteq Int
  OBVIOUS
<1> HIDE DEF d, in
<1> QED
  BY <1>1, <1>2 DEF IsInner, InnerFields

\* checkForSeal leaves decodeInner nothing to refuse.
LEMMA InnerReads ==
  ASSUME NilIsNil, NEW in, IsInner(in), in.from = "a", in.to = "b",
         Present(in.type), Present(in.ix), Present(in.body), in.mid # None, in.ext \subseteq Int,
         NEW o, checkForSeal(in, o), NEW sig, Present(sig)
  PROVE  decodeInner(Signed(in, sig)) = "ok"
<1> DEFINE inner == Signed(in, sig)
<1>1. /\ DOMAIN inner = InnerFields
      /\ inner.sig = sig
      /\ \A x \in InnerFields \ {"sig"} : inner[x] = in[x]
  BY SignedFields
<1> SUFFICES decodeInner(inner) = "ok"
  OBVIOUS
<1> HIDE DEF inner
<1>2. /\ inner.from = "a" /\ inner.to = "b" /\ inner.type = in.type /\ inner.ix = in.ix
      /\ inner.mid = in.mid /\ inner.body = in.body /\ inner.notices = in.notices
      /\ inner.kel = in.kel /\ inner.rk = in.rk /\ inner.ext = in.ext
  BY <1>1 DEF InnerFields
<1>3. inner # Bad
  BY <1>1 DEF NilIsNil, Present
<1>4. ~UnknownCritical(inner.ext)
  <2>1. \A k \in in.ext : k \in Int /\ k >= FirstIgnorableKey
    BY DEF checkForSeal
  <2> QED
    BY <1>2, <2>1 DEF UnknownCritical, FirstIgnorableKey
<1>5. /\ \A x \in {inner.from, inner.to, inner.type, inner.ix} : Present(x)
      /\ Present(inner.mid) /\ Present(inner.body) /\ Present(inner.sig)
  BY <1>1, <1>2 DEF checkForSeal, Present, NilIsNil
<1>6. /\ ~ \E i \in 1..Len(inner.notices) : inner.notices[i] = Bad
      /\ Nul \notin {inner.from, inner.to, inner.ix}
      /\ inner.rk # None => checkRK(inner.rk)
  BY <1>2 DEF checkForSeal
<1>7. Len(inner.notices) = IF inner.kel = None THEN 0 ELSE 1
  <2>1. (in.kel # None) <=> (in.notices # <<>>)
    BY DEF checkForSeal
  <2>2. in.kel # None => Len(in.notices) = 1
    BY DEF checkForSeal
  <2>3. CASE in.kel = None
    <3>1. in.notices = <<>>
      BY <2>1, <2>3
    <3> QED
      BY <1>2, <2>3, <3>1
  <2>4. CASE in.kel # None
    BY <1>2, <2>2, <2>4
  <2> QED
    BY <2>3, <2>4
<1> QED
  BY <1>3, <1>4, <1>5, <1>6, <1>7 DEF decodeInner

\* Nor does it leave OpenInner anything but the interaction of the key.
LEMMA InnerOpens ==
  ASSUME NilIsNil, NEW in, IsInner(in), in.from = "a", in.to = "b",
         Present(in.type), Present(in.ix), Present(in.body), in.mid # None, in.ext \subseteq Int,
         NEW o, checkForSeal(in, o), NEW sig, Present(sig),
         NEW e, e.to = "b", e.exp = None \/ e.exp = in.exp, NEW w, NEW key, NEW ack
  PROVE  LET inner == Signed(in, sig)
             r     == OpenInner(e, w, inner, key, ack)
         IN  \/ r = [ reason |-> "ok", ack |-> ack, inner |-> inner, key |-> key,
                      pre |-> sigPreimage(inner, e.enc, e.kid, e.suite, w.ikid, w.enc2) ]
             \/ /\ r.reason = "ikey-mismatch" /\ r.ack = ack
                /\ key # None /\ (in.ix # key.ix \/ in.from # key.peer)
<1> DEFINE inner == Signed(in, sig)
           r     == OpenInner(e, w, inner, key, ack)
<1>1. decodeInner(inner) = "ok"
  BY InnerReads
<1>2. /\ DOMAIN inner = InnerFields
      /\ inner.sig = sig
      /\ \A x \in InnerFields \ {"sig"} : inner[x] = in[x]
  BY SignedFields
<1>3. r = IF decodeInner(inner) # "ok" THEN Fails(decodeInner(inner), ack)
          ELSE IF key # None /\ (inner.ix # key.ix \/ inner.from # key.peer) THEN Fails("ikey-mismatch", ack)
          ELSE IF inner.to # e.to THEN Fails("to-mismatch", ack)
          ELSE IF e.exp # None /\ e.exp # inner.exp THEN Fails("exp-mismatch", ack)
          ELSE IF inner.kel # None /\ ParseKEL(inner.kel) # "ok" THEN Fails(ParseKEL(inner.kel), ack)
          ELSE [ reason |-> "ok", ack |-> ack, inner |-> inner, key |-> key,
                 pre |-> sigPreimage(inner, e.enc, e.kid, e.suite, w.ikid, w.enc2) ]
  BY DEF OpenInner
<1> SUFFICES \/ r = [ reason |-> "ok", ack |-> ack, inner |-> inner, key |-> key,
                      pre |-> sigPreimage(inner, e.enc, e.kid, e.suite, w.ikid, w.enc2) ]
             \/ /\ r.reason = "ikey-mismatch" /\ r.ack = ack
                /\ key # None /\ (in.ix # key.ix \/ in.from # key.peer)
  OBVIOUS
<1> HIDE DEF inner, r
<1>4. inner.ix = in.ix /\ inner.from = in.from /\ inner.to = in.to /\ inner.exp = in.exp /\ inner.kel = in.kel
  BY <1>2 DEF InnerFields
<1>5. in.kel # None => ParseKEL(in.kel) = "ok"
  BY DEF checkForSeal
<1>6. /\ Fails("ikey-mismatch", ack).reason = "ikey-mismatch" /\ Fails("ikey-mismatch", ack).ack = ack
  BY DEF Fails
<1> QED
  BY <1>1, <1>3, <1>4, <1>5, <1>6

-----------------------------------------------------------------------------

\* What SealedOpens says of version v of the form f.
Opens(f, v) ==
  LET x == SealedAs(f, v)
      r == Received(x.env, DOMAIN EpochKeys, DOMAIN IXKeys, TRUE)
  IN  /\ r.ack = x.ack
      /\ \/ r.reason = "ok" /\ [r.inner EXCEPT !.sig = None] = InnerOf(f)
         \/ /\ r.reason = "ikey-mismatch"
            /\ \E k \in Image(IXKeys, DOMAIN IXKeys) :
                 k.pub = Options[f[3]].rk.pub /\ (k.ix # InnerOf(f).ix \/ k.peer # InnerOf(f).from)

\* The envelope Seal made of the form f.
LEMMA SealedFields ==
  ASSUME NEW f, NEW v, NEW opt, opt = Options[f[3]], opt.hooks = NoHooks, NEW in, in = InnerOf(f),
         NEW ikid, ikid = (IF opt.rk # None THEN KID(opt.rk.suite, opt.rk.pub) ELSE None),
         NEW enc2, enc2 = (IF opt.rk # None THEN <<"enc2", v>> ELSE None),
         NEW sig, sig = <<SigningKey("a", f[4]), sigPreimage(in, <<"enc", v>>, opt.key.kid, opt.key.suite, ikid, enc2)>>,
         NEW body, body = (IF opt.rk # None
                           THEN HPKESeal(enc2, opt.rk.pub, IXInfo(in.to, opt.rk.suite, ikid), Signed(in, sig))
                           ELSE Signed(in, sig)),
         NEW info, info = HPKEInfo(in.to, opt.key.suite, opt.key.kid)
  PROVE  SealedAs(f, v) =
           [ form |-> f,
             env  |-> [ v |-> EnvelopeVersion, to |-> in.to, suite |-> opt.key.suite, kid |-> opt.key.kid,
                        enc |-> <<"enc", v>>,
                        ct |-> HPKESeal(<<"enc", v>>, opt.key.pub, info,
                                        [ikid |-> ikid, enc2 |-> enc2, body |-> body, pad |-> "zero", others |-> {}]),
                        access |-> FirstContact, exp |-> IF opt.exp # 0 THEN opt.exp ELSE None, others |-> {} ],
             ack  |-> Export(<<"enc", v>>, opt.key.pub, info) ]
<1>1. NoHooks.inner = {} /\ NoHooks.wrap = {} /\ NoHooks.outer = {}
  BY DEF NoHooks
<1>2. Seal(in, opt.key, Signer(f[4]), OptsOf(f), v, opt.hooks) =
        [ env |-> [ v |-> EnvelopeVersion, to |-> in.to, suite |-> opt.key.suite, kid |-> opt.key.kid,
                    enc |-> <<"enc", v>>,
                    ct |-> HPKESeal(<<"enc", v>>, opt.key.pub, info,
                                    [ikid |-> ikid, enc2 |-> enc2, body |-> body, pad |-> "zero", others |-> {}]),
                    access |-> None, exp |-> IF opt.exp # 0 THEN opt.exp ELSE None, others |-> {} ],
          ack |-> Export(<<"enc", v>>, opt.key.pub, info) ]
  BY <1>1 DEF Seal, Wrap, Signer, OptsOf, Signed
<1> DEFINE ct  == HPKESeal(<<"enc", v>>, opt.key.pub, info,
                          [ikid |-> ikid, enc2 |-> enc2, body |-> body, pad |-> "zero", others |-> {}])
           exp == IF opt.exp # 0 THEN opt.exp ELSE None
           ack == Export(<<"enc", v>>, opt.key.pub, info)
           env(access) == [ v |-> EnvelopeVersion, to |-> in.to, suite |-> opt.key.suite, kid |-> opt.key.kid,
                            enc |-> <<"enc", v>>, ct |-> ct, access |-> access, exp |-> exp, others |-> {} ]
           s   == Seal(in, opt.key, Signer(f[4]), OptsOf(f), v, opt.hooks)
<1>3. s = [env |-> env(None), ack |-> ack]
  BY <1>2
<1>4. SealedAs(f, v) = [form |-> f, env |-> WithAccess(s.env, FirstContact), ack |-> s.ack]
  BY DEF SealedAs
<1> SUFFICES SealedAs(f, v) = [form |-> f, env |-> env(FirstContact), ack |-> ack]
  OBVIOUS
<1> HIDE DEF ct, exp, ack, s
<1>5. WithAccess(env(None), FirstContact) = env(FirstContact)
  BY DEF WithAccess
<1> QED
  BY <1>3, <1>4, <1>5

\* Its outer reads, at the hub and at the recipient.
LEMMA OuterReads ==
  ASSUME NilIsNil, NEW to, to = "b", NEW suite, suite = SuiteX25519, NEW pub, NEW kid, kid = KID(suite, pub),
         NEW enc, Present(enc), NEW ct, Present(ct), NEW exp, exp # Bad,
         NEW e, e = [ v |-> EnvelopeVersion, to |-> to, suite |-> suite, kid |-> kid, enc |-> enc, ct |-> ct,
                      access |-> FirstContact, exp |-> exp, others |-> {} ]
  PROVE  ParseOuter(e) = "ok"
<1>1. /\ e.v = EnvelopeVersion /\ e.to = to /\ e.suite = suite /\ e.kid = kid /\ e.enc = enc /\ e.ct = ct
      /\ e.access = FirstContact /\ e.exp = exp /\ e.others = {}
  OBVIOUS
<1>2. /\ Present(e.v) /\ Present(e.to) /\ Present(e.suite) /\ Present(e.kid)
  BY <1>1 DEF NilIsNil, KID
<1>3. Present(e.enc) /\ Present(e.ct)
  BY <1>1
<1>4. decodeAccess(e.access)
  <2>1. Present(FirstContact)
    BY DEF NilIsNil
  <2>2. FirstContact.kind = 0 /\ FirstContact.cap = None /\ FirstContact.proof = None
    BY DEF FirstContact
  <2> QED
    BY <1>1, <2>1, <2>2 DEF decodeAccess
<1>5. ~UnknownCritical(e.others)
  BY <1>1 DEF UnknownCritical
<1>6. e.to # "" /\ e.exp # Bad /\ e.v = EnvelopeVersion /\ e.suite = SuiteX25519
  BY <1>1
<1> HIDE DEF NilIsNil
<1> QED
  BY <1>2, <1>3, <1>4, <1>5, <1>6 DEF ParseOuter

\* Its Wrap reads.
LEMMA WrapReads ==
  ASSUME NilIsNil, NEW ikid, NEW enc2, NEW body, Present(body),
         \/ ikid = None /\ enc2 = None
         \/ Present(ikid) /\ Present(enc2),
         NEW w, w = [ikid |-> ikid, enc2 |-> enc2, body |-> body, pad |-> "zero", others |-> {}]
  PROVE  decodeWrap(w)
<1>1. w.ikid = ikid /\ w.enc2 = enc2 /\ w.body = body /\ w.pad = "zero" /\ w.others = {}
  OBVIOUS
<1>2. ~UnknownCritical(w.others)
  BY <1>1 DEF UnknownCritical
<1>3. None # Bad
  BY EnvelopeAssumption
<1> QED
  BY <1>1, <1>2, <1>3 DEF decodeWrap, Present

\* The key of a kid is the one it was sealed to.
LEMMA KeyOfKid ==
  ASSUME NEW key, key.suite = SuiteX25519, key.kid = KID(key.suite, key.pub),
         NEW k \in DOMAIN EpochKeys, key = EpochKeys[k],
         NEW held, held = {h \in Image(EpochKeys, DOMAIN EpochKeys) : h.suite = key.suite /\ h.kid = key.kid}
  PROVE  held # {} /\ (CHOOSE h \in held : TRUE).pub = key.pub
<1>1. key \in held
  BY DEF Image
<1>2. \A h \in held : h.pub = key.pub
  BY KeysAssumption DEF Image, KID
<1> QED
  BY <1>1, <1>2

\* So is the interaction key of an ikid.
LEMMA KeyOfIkid ==
  ASSUME NEW rk, NEW k \in DOMAIN IXKeys, IXKeys[k].suite = rk.suite, IXKeys[k].pub = rk.pub,
         NEW held, held = {h \in Image(IXKeys, DOMAIN IXKeys) : KID(h.suite, h.pub) = KID(rk.suite, rk.pub)}
  PROVE  LET key == CHOOSE h \in held : TRUE
         IN  /\ held # {} /\ key \in Image(IXKeys, DOMAIN IXKeys)
             /\ key.suite = rk.suite /\ key.pub = rk.pub
<1>1. IXKeys[k] \in held
  BY DEF Image
<1>2. \A h \in held : h \in Image(IXKeys, DOMAIN IXKeys) /\ h.suite = rk.suite /\ h.pub = rk.pub
  BY DEF KID
<1> QED
  BY <1>1, <1>2

\* What OpenWrap returns of a Wrap made of the inner in, sig and the second layer's key rk: the
\* inner, or that the key is of another interaction.
LayersOK(r, in, sig, rk, e, ikid, enc2, ack) ==
  \/ /\ r.reason = "ok" /\ r.ack = ack /\ r.inner = Signed(in, sig)
     /\ r.pre = sigPreimage(Signed(in, sig), e.enc, e.kid, e.suite, ikid, enc2)
  \/ /\ r.reason = "ikey-mismatch" /\ r.ack = ack
     /\ \E k \in Image(IXKeys, DOMAIN IXKeys) : k.pub = rk.pub /\ (k.ix # in.ix \/ k.peer # in.from)

IKidOf(rk) == IF rk # None THEN KID(rk.suite, rk.pub) ELSE None

Enc2Of(rk, n) == IF rk # None THEN <<"enc2", n>> ELSE None

BodyOf(in, sig, rk, n) ==
  IF rk # None THEN HPKESeal(Enc2Of(rk, n), rk.pub, IXInfo(in.to, rk.suite, IKidOf(rk)), Signed(in, sig))
  ELSE Signed(in, sig)

WrapOf(in, sig, rk, n) ==
  [ikid |-> IKidOf(rk), enc2 |-> Enc2Of(rk, n), body |-> BodyOf(in, sig, rk, n), pad |-> "zero", others |-> {}]

\* The layers of an envelope open one after the other: Wrap and, unless rk is None, the second.
LEMMA LayersOpen ==
  ASSUME NilIsNil, NEW in, IsInner(in), in.from = "a", in.to = "b",
         Present(in.type), Present(in.ix), Present(in.body), in.mid # None, in.ext \subseteq Int,
         NEW o, checkForSeal(in, o), NEW sig, Present(sig),
         NEW rk, rk # None => \E k \in DOMAIN IXKeys : IXKeys[k].suite = rk.suite /\ IXKeys[k].pub = rk.pub,
         NEW n,
         NEW e, e.to = "b", e.exp = None \/ e.exp = in.exp, NEW ack, NEW yes \in BOOLEAN, yes
  PROVE  LayersOK(OpenWrap(e, WrapOf(in, sig, rk, n), Image(IXKeys, DOMAIN IXKeys), yes, ack),
                  in, sig, rk, e, IKidOf(rk), Enc2Of(rk, n), ack)
<1> DEFINE inner == Signed(in, sig)
           ikid  == IKidOf(rk)
           enc2  == Enc2Of(rk, n)
           body  == BodyOf(in, sig, rk, n)
           w     == WrapOf(in, sig, rk, n)
           ixs   == Image(IXKeys, DOMAIN IXKeys)
           r     == OpenWrap(e, w, ixs, yes, ack)
           keys  == {k \in ixs : KID(k.suite, k.pub) = w.ikid}
           key   == CHOOSE k \in keys : TRUE
<1>1. /\ w.ikid = ikid /\ w.enc2 = enc2 /\ w.body = body
      /\ w = [ikid |-> ikid, enc2 |-> enc2, body |-> body, pad |-> "zero", others |-> {}]
  BY DEF WrapOf
<1>2. r = IF ~decodeWrap(w) THEN Fails("bad-wrap", ack)
          ELSE IF w.ikid = None THEN OpenInner(e, w, w.body, None, ack)
          ELSE IF ~yes THEN Fails("lookup-error", ack)
          ELSE IF keys = {} THEN Fails("sealed-to-closed-interaction", ack)
          ELSE IF ~HPKEOpens(w.body, w.enc2, key.pub, IXInfo(e.to, key.suite, w.ikid))
          THEN Fails("decrypt-failed", ack)
          ELSE OpenInner(e, w, w.body.pt, key, ack)
  BY DEF OpenWrap
<1>3. Present(inner)
  BY SignedFields DEF NilIsNil
<1>4. CASE rk = None
  <2>1. ikid = None /\ enc2 = None /\ body = inner
    BY <1>4 DEF IKidOf, Enc2Of, BodyOf
  <2>2. decodeWrap(w)
    BY <1>1, <1>3, <2>1, WrapReads
  <2>3. r = OpenInner(e, w, inner, None, ack)
    <3> HIDE DEF r, keys, key, inner, ixs
    <3> QED
      BY <1>1, <1>2, <2>1, <2>2
  <2> DEFINE q == OpenInner(e, w, inner, None, ack)
  <2>4. q = [ reason |-> "ok", ack |-> ack, inner |-> inner, key |-> None,
              pre |-> sigPreimage(inner, e.enc, e.kid, e.suite, w.ikid, w.enc2) ]
    BY InnerOpens
  <2>5. r.reason = "ok" /\ r.ack = ack /\ r.inner = inner
        /\ r.pre = sigPreimage(inner, e.enc, e.kid, e.suite, ikid, enc2)
    <3> HIDE DEF r, keys, key, inner, ixs
    <3> QED
      BY <1>1, <2>3, <2>4
  <2> QED
    BY <2>5 DEF LayersOK
<1>5. CASE rk # None
  <2>1. /\ ikid = KID(rk.suite, rk.pub) /\ enc2 = <<"enc2", n>>
        /\ body = HPKESeal(enc2, rk.pub, IXInfo(in.to, rk.suite, ikid), inner)
    BY <1>5 DEF IKidOf, Enc2Of, BodyOf
  <2>2. Present(ikid) /\ Present(enc2) /\ Present(body)
    BY <2>1 DEF NilIsNil, KID
  <2>3. decodeWrap(w)
    BY <1>1, <2>2, WrapReads
  <2>4. PICK k \in DOMAIN IXKeys : IXKeys[k].suite = rk.suite /\ IXKeys[k].pub = rk.pub
    BY <1>5
  <2>5. /\ keys # {} /\ key \in ixs
        /\ key.suite = rk.suite /\ key.pub = rk.pub
    <3>1. keys = {h \in Image(IXKeys, DOMAIN IXKeys) : KID(h.suite, h.pub) = KID(rk.suite, rk.pub)}
      BY <1>1, <2>1
    <3> HIDE DEF keys
    <3> QED
      BY <2>4, <3>1, KeyOfIkid
  <2>6. HPKEOpens(w.body, w.enc2, key.pub, IXInfo(e.to, key.suite, w.ikid)) /\ w.body.pt = inner
    <3> HIDE DEF keys, key, inner, ixs
    <3> QED
      BY <1>1, <2>1, <2>5 DEF HPKEOpens, HPKESeal
  <2>7. r = OpenInner(e, w, inner, key, ack)
    <3>1. w.ikid # None
      BY <1>1, <2>2 DEF Present
    <3> HIDE DEF r, keys, key, inner, ixs
    <3> QED
      BY <1>2, <2>3, <2>5, <2>6, <3>1
  <2> DEFINE q == OpenInner(e, w, inner, key, ack)
  <2>8. \/ q = [ reason |-> "ok", ack |-> ack, inner |-> inner, key |-> key,
                 pre |-> sigPreimage(inner, e.enc, e.kid, e.suite, w.ikid, w.enc2) ]
        \/ /\ q.reason = "ikey-mismatch" /\ q.ack = ack
           /\ key # None /\ (in.ix # key.ix \/ in.from # key.peer)
    <3> HIDE DEF keys, key
    <3> QED
      BY InnerOpens
  <2>9. \/ /\ r.reason = "ok" /\ r.ack = ack /\ r.inner = inner
           /\ r.pre = sigPreimage(inner, e.enc, e.kid, e.suite, ikid, enc2)
        \/ /\ r.reason = "ikey-mismatch" /\ r.ack = ack
           /\ in.ix # key.ix \/ in.from # key.peer
    <3> HIDE DEF r, keys, key, inner, ixs
    <3> QED
      BY <1>1, <2>7, <2>8
  <2>10. in.ix # key.ix \/ in.from # key.peer =>
           \E h \in ixs : h.pub = rk.pub /\ (h.ix # in.ix \/ h.peer # in.from)
    <3> HIDE DEF keys, key, ixs
    <3> QED
      BY <2>5
  <2> QED
    <3> HIDE DEF keys, key
    <3> QED
      BY <2>9, <2>10 DEF LayersOK
<1> QED
  BY <1>4, <1>5

\* Under the keys an inner of a's declares its signature verifies, though Seal added it afterwards.
LEMMA SealedVerifies ==
  ASSUME NEW in, IsInner(in), in.from = "a", NEW enc, NEW kid, NEW suite, NEW ikid, NEW enc2,
         NEW sig, sig = <<SigningKey("a", in.seq), sigPreimage(in, enc, kid, suite, ikid, enc2)>>,
         NEW inner, inner = Signed(in, sig),
         NEW pre, pre = sigPreimage(inner, enc, kid, suite, ikid, enc2)
  PROVE  Verifies(inner.sig, SigningKey(inner.from, inner.seq), pre)
<1>1. inner.sig = sig /\ inner.from = "a" /\ inner.seq = in.seq
  BY SignedFields DEF InnerFields
<1>2. [inner EXCEPT !.sig = None, !.body = <<"sha256", @>>] = [in EXCEPT !.sig = None, !.body = <<"sha256", @>>]
  BY SignedBytes
<1>3. \A i : sigPreimage(i, enc, kid, suite, ikid, enc2) =
               <<"anet-relay-sig/v2", [i EXCEPT !.sig = None, !.body = <<"sha256", @>>], enc, kid, suite, ikid, enc2>>
  BY DEF sigPreimage
<1>4. pre = sigPreimage(in, enc, kid, suite, ikid, enc2)
  BY <1>2, <1>3
<1> QED
  BY <1>1, <1>4 DEF Verifies

\* What Seal makes of a form it accepts opens.
LEMMA FormOpens ==
  ASSUME NilIsNil, NEW f \in Forms, NEW v, Options[f[3]].hooks = NoHooks,
         Sealable(f)
  PROVE  Opens(f, v)
<1> DEFINE opt  == Options[f[3]]
           in   == InnerOf(f)
           o    == OptsOf(f)
           rk   == opt.rk
           enc  == <<"enc", v>>
           ikid == IKidOf(rk)
           enc2 == Enc2Of(rk, v)
           sig  == <<SigningKey("a", f[4]), sigPreimage(in, enc, opt.key.kid, opt.key.suite, ikid, enc2)>>
           info == HPKEInfo(in.to, opt.key.suite, opt.key.kid)
           w    == WrapOf(in, sig, rk, v)
           exp  == IF opt.exp # 0 THEN opt.exp ELSE None
           ct   == HPKESeal(enc, opt.key.pub, info, w)
           e    == [ v |-> EnvelopeVersion, to |-> in.to, suite |-> opt.key.suite, kid |-> opt.key.kid,
                     enc |-> enc, ct |-> ct, access |-> FirstContact, exp |-> exp, others |-> {} ]
           ack  == Export(enc, opt.key.pub, info)
           yes  == TRUE
           held == {k \in Image(EpochKeys, DOMAIN EpochKeys) : k.suite = e.suite /\ k.kid = e.kid}
           key  == CHOOSE k \in held : TRUE
           ixs  == Image(IXKeys, DOMAIN IXKeys)
           ow   == OpenWrap(e, w, ixs, yes, ack)
           x    == SealedAs(f, v)
           op   == Open(x.env, "b", Image(EpochKeys, DOMAIN EpochKeys), ixs, yes)
           r    == Received(x.env, DOMAIN EpochKeys, DOMAIN IXKeys, yes)
<1>1. /\ IsInner(in)
      /\ in.from = "a" /\ in.to = "b" /\ in.sig = None /\ in.seq = f[2]
      /\ Present(in.type) /\ Present(in.ix) /\ Present(in.body) /\ in.mid # None
      /\ in.ext \subseteq Int
  BY FormFacts
<1>2. /\ checkForSeal(in, o)
      /\ opt.key.suite = SuiteX25519 /\ opt.key.kid = KID(opt.key.suite, opt.key.pub)
      /\ rk # None => rk.pub # SmallOrder
      /\ f[4] = in.seq
  BY DEF Sealable, SealAccepts, OptsOf, Signer
<1>3. f[3] \in DOMAIN Options
  BY DEF Forms
<1>4. /\ opt.exp # Bad
      /\ \E k \in DOMAIN EpochKeys : opt.key = EpochKeys[k]
      /\ rk # None => \E k \in DOMAIN IXKeys : IXKeys[k].suite = rk.suite /\ IXKeys[k].pub = rk.pub
  BY <1>2, <1>3, DraftsAssumption
<1>5. x = [form |-> f, env |-> e, ack |-> ack]
  BY SealedFields DEF IKidOf, Enc2Of, BodyOf, WrapOf
<1>6. exp # Bad /\ (exp = None \/ exp = in.exp)
  <2>1. o.exp = opt.exp
    BY DEF OptsOf
  <2>2. o.exp # 0 => o.exp = in.exp
    BY <1>2 DEF checkForSeal
  <2> QED
    BY <1>4, <2>1, <2>2, EnvelopeAssumption
<1>7. Present(enc) /\ Present(ct) /\ Present(sig)
  BY DEF NilIsNil
<1>8. ParseOuter(e) = "ok"
  <2> HIDE DEF ct, exp, enc
  <2> QED
    BY <1>1, <1>2, <1>6, <1>7, OuterReads
<1>9. held # {} /\ key.pub = opt.key.pub
  <2>1. e.suite = opt.key.suite /\ e.kid = opt.key.kid
    OBVIOUS
  <2>2. PICK k \in DOMAIN EpochKeys : opt.key = EpochKeys[k]
    BY <1>4
  <2>3. held = {h \in Image(EpochKeys, DOMAIN EpochKeys) : h.suite = opt.key.suite /\ h.kid = opt.key.kid}
    BY <2>1
  <2> HIDE DEF e, opt, held
  <2> QED
    BY <1>2, <2>2, <2>3, KeyOfKid
<1>10. op = ow
  <2>1. op = IF ParseOuter(e) # "ok" THEN Fails(ParseOuter(e), None)
             ELSE IF e.to # "b" THEN Fails("wrong-recipient", None)
             ELSE IF held = {} THEN Fails("sealed-to-unknown-key", None)
             ELSE IF ~HPKEOpens(e.ct, e.enc, key.pub, HPKEInfo(e.to, e.suite, e.kid)) THEN Fails("decrypt-failed", None)
             ELSE OpenWrap(e, e.ct.pt, ixs, yes, Export(e.enc, key.pub, HPKEInfo(e.to, e.suite, e.kid)))
    <3>1. \A y : Open(y, "b", Image(EpochKeys, DOMAIN EpochKeys), ixs, yes) =
            LET ks == {k \in Image(EpochKeys, DOMAIN EpochKeys) : k.suite = y.suite /\ k.kid = y.kid}
                ky == CHOOSE k \in ks : TRUE
            IN  IF ParseOuter(y) # "ok" THEN Fails(ParseOuter(y), None)
                ELSE IF y.to # "b" THEN Fails("wrong-recipient", None)
                ELSE IF ks = {} THEN Fails("sealed-to-unknown-key", None)
                ELSE IF ~HPKEOpens(y.ct, y.enc, ky.pub, HPKEInfo(y.to, y.suite, y.kid)) THEN Fails("decrypt-failed", None)
                ELSE OpenWrap(y, y.ct.pt, ixs, yes, Export(y.enc, ky.pub, HPKEInfo(y.to, y.suite, y.kid)))
      BY DEF Open
    <3>2. x.env = e
      BY <1>5
    <3> HIDE DEF e, x
    <3> QED
      BY <3>1, <3>2
  <2>2. e.to = "b" /\ e.ct = ct /\ e.enc = enc /\ HPKEInfo(e.to, e.suite, e.kid) = info
    BY <1>1
  <2>3. ct.pt = w /\ HPKEOpens(ct, enc, opt.key.pub, info)
    BY DEF HPKEOpens, HPKESeal
  <2> HIDE DEF e, ct, held, key, op, w, enc, info, opt, ixs, yes
  <2> QED
    BY <1>8, <1>9, <2>1, <2>2, <2>3
<1>11. LayersOK(ow, in, sig, rk, e, ikid, enc2, ack)
  <2>1. e.to = "b" /\ (e.exp = None \/ e.exp = in.exp)
    BY <1>1, <1>6
  <2>2. yes \in BOOLEAN /\ yes
    OBVIOUS
  <2> HIDE DEF e, yes, sig, rk, in, o, ack
  <2> QED
    BY <1>1, <1>2, <1>4, <1>7, <2>1, <2>2, LayersOpen
<1>12. Verifies(Signed(in, sig).sig, SigningKey(Signed(in, sig).from, Signed(in, sig).seq),
                sigPreimage(Signed(in, sig), e.enc, e.kid, e.suite, ikid, enc2))
  <2>1. e.enc = enc /\ e.kid = opt.key.kid /\ e.suite = opt.key.suite
    OBVIOUS
  <2>2. sig = <<SigningKey("a", in.seq), sigPreimage(in, e.enc, e.kid, e.suite, ikid, enc2)>>
    BY <1>2, <2>1
  <2> HIDE DEF e, sig, in, ikid, enc2
  <2> QED
    BY <1>1, <2>2, SealedVerifies
<1>13. r = ow
  <2>1. r = IF op.reason = "ok" /\ ~Verifies(op.inner.sig, SigningKey(op.inner.from, op.inner.seq), op.pre)
            THEN Fails("bad-sig", op.ack) ELSE op
    BY DEF Received
  <2> HIDE DEF r, op, ow, e, sig, in, ikid, enc2
  <2> QED
    BY <1>10, <1>11, <1>12, <2>1 DEF LayersOK
<1>14. [Signed(in, sig) EXCEPT !.sig = None] = in
  BY <1>1, SignedBytes
<1>15. /\ r.ack = x.ack
       /\ \/ r.reason = "ok" /\ [r.inner EXCEPT !.sig = None] = in
          \/ /\ r.reason = "ikey-mismatch"
             /\ \E k \in ixs : k.pub = rk.pub /\ (k.ix # in.ix \/ k.peer # in.from)
  <2>1. x.ack = ack
    BY <1>5
  <2> HIDE DEF r, ow, sig, in, ack, x, e, rk
  <2> QED
    BY <1>11, <1>13, <1>14, <2>1 DEF LayersOK
<1> QED
  BY <1>15 DEF Opens

\* What Seal let through opens: whatever a drafts, seals it with and declares, whatever key signs, its
\* receiver opens the version while it holds the keys, and both ends have the same ack_key.
THEOREM SealedIsOpened == ASSUME NilIsNil PROVE Spec => []SealedOpens
<1>1. SentOK => SealedOpens
  <2> SUFFICES ASSUME SentOK, NEW v \in DOMAIN sent, Options[sent[v].form[3]].hooks = NoHooks
               PROVE  Opens(sent[v].form, v) /\ sent[v] = SealedAs(sent[v].form, v)
    <3>1. \A v \in DOMAIN sent : Options[sent[v].form[3]].hooks = NoHooks /\ sent[v] = SealedAs(sent[v].form, v) =>
            (Opens(sent[v].form, v) =>
               LET opt == Options[sent[v].form[3]]
                   in  == InnerOf(sent[v].form)
                   r   == Received(sent[v].env, DOMAIN EpochKeys, DOMAIN IXKeys, TRUE)
               IN  /\ r.ack = sent[v].ack
                   /\ \/ r.reason = "ok" /\ [r.inner EXCEPT !.sig = None] = in
                      \/ /\ r.reason = "ikey-mismatch"
                         /\ \E k \in Image(IXKeys, DOMAIN IXKeys) :
                              k.pub = opt.rk.pub /\ (k.ix # in.ix \/ k.peer # in.from))
      BY DEF Opens
    <3> QED
      BY <3>1 DEF SealedOpens, NoHooks
  <2>1. v \in Sent
    BY DEF SentOK, Sent
  <2>2. PICK f \in Forms : Sealable(f) /\ sent[v] = SealedAs(f, v)
    BY <2>1 DEF SentOK
  <2>3. sent[v].form = f
    BY <2>2, SealedFacts
  <2> QED
    BY <2>2, <2>3, FormOpens
<1> QED
  BY <1>1, Invariance, PTL DEF Inv
=============================================================================
