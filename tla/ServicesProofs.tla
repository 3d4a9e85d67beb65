--------------------------- MODULE ServicesProofs ---------------------------
(***************************************************************************)
(* Theorems about the services: of Session, for any daemons, hubs, texts,  *)
(* bodies, clocks and any number of sessions and sends; of Admission, for  *)
(* any grants, envelopes, windows and any number of mailbox epochs; of     *)
(* Task, for any deliverables, rotations, clocks and any number of tasks;  *)
(* of Payment, for any authorizations, requirements and any number of      *)
(* rotations and settlements; of Liability, for any accounts, balances,    *)
(* depths and word, and any number of payments, epochs and audits; of      *)
(* Padding, for a Wrap of any length below 2 ^ 29.                         *)
(***************************************************************************)
EXTENDS MCServices, FiniteSetTheorems, SequenceTheorems, WellFoundedInduction, TLAPS

-----------------------------------------------------------------------------
(* Session: the inductive invariant. *)

\* One-time keys are numbered, and one belongs to one opening.
OpensNumbered ==
  /\ IsFiniteSet(opens)
  /\ \A o \in opens : \E i \in 1..Cardinality(opens) : o.esk = <<"esk", i>>
  /\ \A o, p \in opens : o.esk = p.esk => o = p

\* A signature on the network was made by the daemon of an opening, to that opening's hub, and
\* one of a session request covers the opening's one-time key.
RequestsSigned ==
  \A r \in requests :
    \E o \in opens : \E action, ts, epk :
      /\ r = SignedRequest(action, o.daemon, o.hub, ts, epk)
      /\ action = ActionSession => epk = PublicKey(o.esk)

\* Session ids and session keys are numbered, and one belongs to one session.
TableNumbered ==
  /\ IsFiniteSet(table)
  /\ \A t \in table : \E i \in 1..Cardinality(table) : t.sid = <<"sid", i>> /\ t.key = <<"k_sess", i>>
  /\ \A t, u \in table : t.key = u.key => t = u
  /\ \A t, u \in table : t.sid = u.sid => t = u

TableOpened ==
  \A t \in table : \E o \in opens : o.daemon = t.aid /\ o.hub = t.hub /\ PublicKey(o.esk) = t.epk

AnswersSealed ==
  \A x \in answers :
    \E t \in table : x.sid = t.sid /\ x.sealed = SealSessionKey(t.epk, t.hub, t.sid, t.key)

SessionsKnown ==
  \A s \in sessions :
    \E t \in table : t.hub = s.hub /\ t.sid = s.sid /\ t.aid = s.daemon /\ t.key = s.key

\* The message a daemon sends under session t.
Message(t, ts, tgt, home, body) ==
  LET m == [sid |-> t.sid, ts |-> ts, target |-> tgt, home |-> home, body |-> body, mac |-> Bad]
  IN  [m EXCEPT !.mac = SessionMAC(t.key, m)]

SendsMade ==
  \A s \in sends :
    \E t \in table, tgt \in Targets, home \in Homes :
      /\ t.aid = s.daemon /\ t.hub = s.hub
      /\ ~HasNul(tgt) /\ ~HasNul(home)
      /\ \E ts, body : s.msg = Message(t, ts, tgt, home, body)

Inv ==
  /\ OpensNumbered /\ RequestsSigned /\ TableNumbered /\ TableOpened
  /\ AnswersSealed /\ SessionsKnown /\ SendsMade /\ SendAccounted

-----------------------------------------------------------------------------
(* Joined texts. *)

Joined(a, b) == a \o <<Sep>> \o b \o <<Sep>>

\* Two texts without the separator can be read back from their joined form (sessionMACInput).
LEMMA JoinedOnce ==
  ASSUME NEW a \in Seq(STRING), NEW b \in Seq(STRING), NEW c \in Seq(STRING), NEW d \in Seq(STRING),
         ~HasNul(a), ~HasNul(b), ~HasNul(c), ~HasNul(d), Joined(a, b) = Joined(c, d)
  PROVE  a = c /\ b = d
<1> DEFINE x == Joined(a, b)
           y == Joined(c, d)
<1>1. /\ Len(x) = Len(a) + Len(b) + 2
      /\ Len(y) = Len(c) + Len(d) + 2
      /\ x[Len(a) + 1] = Sep /\ y[Len(c) + 1] = Sep
      /\ \A i \in 1..Len(a) : x[i] = a[i]
      /\ \A i \in 1..Len(c) : y[i] = c[i]
      /\ \A i \in 1..Len(b) : x[Len(a) + 1 + i] = b[i]
      /\ \A i \in 1..Len(d) : y[Len(c) + 1 + i] = d[i]
  BY DEF Joined, Sep
<1>2. Len(a) = Len(c)
  <2>1. ~(Len(a) < Len(c))
    <3> SUFFICES ASSUME Len(a) < Len(c) PROVE FALSE
      OBVIOUS
    <3>1. Len(a) + 1 \in 1..Len(c)
      OBVIOUS
    <3>2. c[Len(a) + 1] = Sep
      BY <1>1, <3>1
    <3> QED
      BY <3>1, <3>2 DEF HasNul
  <2>2. ~(Len(c) < Len(a))
    <3> SUFFICES ASSUME Len(c) < Len(a) PROVE FALSE
      OBVIOUS
    <3>1. Len(c) + 1 \in 1..Len(a)
      OBVIOUS
    <3>2. a[Len(c) + 1] = Sep
      BY <1>1, <3>1
    <3> QED
      BY <3>1, <3>2 DEF HasNul
  <2> QED
    BY <2>1, <2>2
<1>3. Len(b) = Len(d)
  BY <1>1, <1>2
<1>4. \A i \in 1..Len(a) : a[i] = c[i]
  BY <1>1, <1>2
<1>5. \A i \in 1..Len(b) : b[i] = d[i]
  BY <1>1, <1>2, <1>3
<1> QED
  BY <1>2, <1>3, <1>4, <1>5, SeqEqual

\* The MAC of a message, written out (SessionMAC).
LEMMA MACOf ==
  ASSUME NEW t, NEW ts, NEW tgt, NEW home, NEW body
  PROVE  Message(t, ts, tgt, home, body)
           = [ sid |-> t.sid, ts |-> ts, target |-> tgt, home |-> home, body |-> body,
               mac |-> <<"hmac", t.key,
                         <<"anet-sess-mac/v1", t.sid, ts, Joined(tgt, home), <<"sha256", body>>>>>> ]
<1> DEFINE m == [sid |-> t.sid, ts |-> ts, target |-> tgt, home |-> home, body |-> body, mac |-> Bad]
<1>1. /\ m.sid = t.sid /\ m.ts = ts /\ m.target = tgt /\ m.home = home /\ m.body = body
      /\ \A x : [m EXCEPT !.mac = x] =
           [sid |-> t.sid, ts |-> ts, target |-> tgt, home |-> home, body |-> body, mac |-> x]
  OBVIOUS
<1>2. Message(t, ts, tgt, home, body) = [m EXCEPT !.mac = SessionMAC(t.key, m)]
  BY DEF Message
<1> HIDE DEF m
<1>3. SessionMAC(t.key, m)
        = <<"hmac", t.key, <<"anet-sess-mac/v1", m.sid, m.ts, Joined(m.target, m.home), <<"sha256", m.body>>>>>>
  BY Zenon DEF SessionMAC, sessionMACInput, Joined
<1> QED
  BY <1>1, <1>2, <1>3

\* What VerifySessionMAC binds: two messages with one MAC agree in every field and in the key.
LEMMA MACBinds ==
  ASSUME NEW t, NEW u, NEW ts, NEW us, NEW body, NEW bodyU,
         NEW tgt \in Targets, NEW home \in Homes, NEW targetU \in Targets, NEW homeU \in Homes,
         ~HasNul(tgt), ~HasNul(home), ~HasNul(targetU), ~HasNul(homeU),
         Message(t, ts, tgt, home, body).mac = Message(u, us, targetU, homeU, bodyU).mac
  PROVE  /\ t.key = u.key /\ t.sid = u.sid /\ ts = us /\ body = bodyU
         /\ tgt = targetU /\ home = homeU
<1> DEFINE j  == Joined(tgt, home)
           k  == Joined(targetU, homeU)
           X  == <<"anet-sess-mac/v1", t.sid, ts, j, <<"sha256", body>>>>
           Y  == <<"anet-sess-mac/v1", u.sid, us, k, <<"sha256", bodyU>>>>
<1>1. <<"hmac", t.key, X>> = <<"hmac", u.key, Y>>
  BY MACOf
<1>2. /\ t.key = u.key /\ t.sid = u.sid /\ ts = us /\ body = bodyU
      /\ Joined(tgt, home) = Joined(targetU, homeU)
  <2>1. t.key = u.key /\ X = Y
    <3> HIDE DEF X, Y
    <3> QED
      BY <1>1
  <2>2. t.sid = u.sid /\ ts = us /\ j = k /\ <<"sha256", body>> = <<"sha256", bodyU>>
    <3> HIDE DEF j, k
    <3>1. ASSUME NEW a1, NEW a2, NEW a3, NEW a4, NEW b1, NEW b2, NEW b3, NEW b4,
                 <<"anet-sess-mac/v1", a1, a2, a3, a4>> = <<"anet-sess-mac/v1", b1, b2, b3, b4>>
          PROVE  a1 = b1 /\ a2 = b2 /\ a3 = b3 /\ a4 = b4
      BY <3>1
    <3> QED
      BY <2>1, <3>1, Zenon
  <2> QED
    BY <2>1, <2>2
<1>3. /\ tgt \in Seq(STRING) /\ home \in Seq(STRING)
      /\ targetU \in Seq(STRING) /\ homeU \in Seq(STRING)
  BY TextsAreSequences
<1> QED
  BY <1>2, <1>3, JoinedOnce

-----------------------------------------------------------------------------
(* The initial state and the steps. *)

\* Nothing is on the network yet.
LEMMA InitInv == Init => Inv
  BY FS_EmptySet DEF Init, Inv, OpensNumbered, RequestsSigned, TableNumbered, TableOpened, AnswersSealed,
     SessionsKnown, SendsMade, SendAccounted

\* A set numbered up to its cardinality takes the next number.
LEMMA Numbered ==
  ASSUME NEW S, IsFiniteSet(S), NEW x, x \notin S
  PROVE  /\ IsFiniteSet(S \cup {x})
         /\ Cardinality(S) \in Nat
         /\ Cardinality(S \cup {x}) = Cardinality(S) + 1
  BY FS_AddElement, FS_CardinalityType

\* A new opening has a fresh one-time key and signs one request over it (NewSessionKey, SignRequest).
LEMMA OpenSessionInv ==
  ASSUME Inv, NEW d \in Daemons, NEW h \in Hubs, OpenSession(d, h)
  PROVE  Inv'
<1> DEFINE n   == Cardinality(opens)
           esk == <<"esk", n + 1>>
           new == [daemon |-> d, hub |-> h, esk |-> esk]
<1>0. /\ opens' = opens \cup {new}
      /\ requests' = requests \cup {SignedRequest(ActionSession, d, h, clock, PublicKey(esk))}
      /\ UNCHANGED <<table, answers, sessions, sends, counted>>
  BY DEF OpenSession
<1>1. OpensNumbered'
  <2>1. n \in Nat /\ IsFiniteSet(opens)
    BY FS_CardinalityType DEF Inv, OpensNumbered
  <2>2. \A o \in opens : o.esk # esk
    BY <2>1 DEF Inv, OpensNumbered
  <2>3. new.esk = esk /\ new \notin opens
    BY <2>2
  <2>4. IsFiniteSet(opens') /\ Cardinality(opens') = n + 1
    BY <1>0, <2>1, <2>3, Numbered
  <2>5. \A o \in opens' : \E i \in 1..(n + 1) : o.esk = <<"esk", i>>
    BY <1>0, <2>1, <2>3 DEF Inv, OpensNumbered
  <2>6. \A o, p \in opens' : o.esk = p.esk => o = p
    BY <1>0, <2>2, <2>3 DEF Inv, OpensNumbered
  <2> QED
    BY <2>4, <2>5, <2>6 DEF OpensNumbered
<1>2. RequestsSigned'
  <2> SUFFICES ASSUME NEW r \in requests'
               PROVE  \E o \in opens' : \E action, ts, epk :
                        /\ r = SignedRequest(action, o.daemon, o.hub, ts, epk)
                        /\ action = ActionSession => epk = PublicKey(o.esk)
    BY DEF RequestsSigned
  <2>1. CASE r \in requests
    BY <2>1, <1>0 DEF Inv, RequestsSigned
  <2>2. CASE r = SignedRequest(ActionSession, d, h, clock, PublicKey(esk))
    <3>1. new \in opens'
      BY <1>0
    <3> QED
      BY <2>2, <3>1 DEF SignedRequest
  <2> QED
    BY <1>0, <2>1, <2>2
<1>3. TableOpened'
  BY <1>0 DEF Inv, TableOpened
<1> QED
  BY <1>0, <1>1, <1>2, <1>3
     DEF Inv, TableNumbered, AnswersSealed, SessionsKnown, SendsMade, SendAccounted

\* Signing another request of an opening, as Retry and Poll do.
LEMMA RequestInv ==
  ASSUME Inv, NEW o \in opens, NEW action, NEW epk, action = ActionSession => epk = PublicKey(o.esk),
         requests' = requests \cup {SignedRequest(action, o.daemon, o.hub, clock, epk)},
         UNCHANGED <<opens, table, answers, sessions, sends, counted>>
  PROVE  Inv'
<1>1. RequestsSigned'
  <2> SUFFICES ASSUME NEW r \in requests'
               PROVE  \E p \in opens : \E a, ts, e :
                        /\ r = SignedRequest(a, p.daemon, p.hub, ts, e)
                        /\ a = ActionSession => e = PublicKey(p.esk)
    BY DEF RequestsSigned
  <2>1. CASE r \in requests
    BY <2>1 DEF Inv, RequestsSigned
  <2>2. CASE r = SignedRequest(action, o.daemon, o.hub, clock, epk)
    BY <2>2
  <2> QED
    BY <2>1, <2>2
<1> QED
  BY <1>1 DEF Inv, OpensNumbered, TableNumbered, TableOpened, AnswersSealed, SessionsKnown, SendsMade, SendAccounted

\* A signature the hub takes as a session request of aid was made by an opening of aid to that
\* hub, and covers its one-time key.
LEMMA AuthenticOpening ==
  ASSUME Inv, NEW h, NEW r \in RewrittenRequests, r.action = ActionSession, Authentic(r, h, clock)
  PROVE  \E o \in opens : o.daemon = r.aid /\ o.hub = h /\ r.epk = PublicKey(o.esk)
<1>1. PICK q \in requests, a \in {ActionSession, RetiredSend}, d \in Daemons, e \in opens :
        r = [action |-> a, aid |-> d, ts |-> q.ts, epk |-> PublicKey(e.esk), sig |-> q.sig]
  BY DEF RewrittenRequests
<1>2. PICK o \in opens : \E action, ts, epk :
        /\ q = SignedRequest(action, o.daemon, o.hub, ts, epk)
        /\ action = ActionSession => epk = PublicKey(o.esk)
  BY DEF Inv, RequestsSigned
<1>3. PICK action, ts, epk :
        /\ q = SignedRequest(action, o.daemon, o.hub, ts, epk)
        /\ action = ActionSession => epk = PublicKey(o.esk)
  BY <1>2
<1>4. r.sig = <<o.daemon, PreimageV2(action, o.daemon, o.hub, ts, epk)>>
  BY <1>1, <1>3 DEF SignedRequest
<1>5. r.sig = <<r.aid, PreimageV2(r.action, r.aid, h, r.ts, r.epk)>>
  BY DEF Authentic
<1>6. r.aid = o.daemon /\ PreimageV2(r.action, r.aid, h, r.ts, r.epk) = PreimageV2(action, o.daemon, o.hub, ts, epk)
  BY <1>4, <1>5
<1>7. action = r.action /\ h = o.hub /\ <<"sha256", r.action, r.epk>> = <<"sha256", action, epk>>
  <2>1. ASSUME NEW a1, NEW a2, NEW a3, NEW a4, NEW a5, NEW b1, NEW b2, NEW b3, NEW b4, NEW b5,
               <<"anet-relay/v2", a1, a2, a3, a4, a5>> = <<"anet-relay/v2", b1, b2, b3, b4, b5>>
        PROVE  a1 = b1 /\ a2 = b2 /\ a3 = b3 /\ a4 = b4 /\ a5 = b5
    BY <2>1
  <2> QED
    BY <1>6, <2>1, Zenon DEF PreimageV2
<1>8. r.epk = epk
  BY <1>7
<1> QED
  BY <1>3, <1>6, <1>7, <1>8

\* The hub numbers the session and seals its key to the one-time key the signature covers.
LEMMA ServeInv ==
  ASSUME Inv, NEW h \in Hubs, NEW r \in RewrittenRequests, Serve(h, r)
  PROVE  Inv'
<1> DEFINE n   == Cardinality(table)
           sid == <<"sid", n + 1>>
           k   == <<"k_sess", n + 1>>
           new == [hub |-> h, sid |-> sid, aid |-> r.aid, key |-> k, epk |-> r.epk]
           ans == [sid |-> sid, sealed |-> SealSessionKey(r.epk, h, sid, k)]
<1>0. /\ table' = table \cup {new} /\ answers' = answers \cup {ans}
      /\ r.action = ActionSession /\ Authentic(r, h, clock)
      /\ UNCHANGED <<opens, requests, sessions, sends, counted>>
  BY DEF Serve
<1>1. TableNumbered'
  <2>1. n \in Nat /\ IsFiniteSet(table)
    BY FS_CardinalityType DEF Inv, TableNumbered
  <2>2. \A t \in table : t.sid # sid /\ t.key # k
    BY <2>1 DEF Inv, TableNumbered
  <2>3. new.sid = sid /\ new.key = k /\ new \notin table
    BY <2>2
  <2>4. IsFiniteSet(table') /\ Cardinality(table') = n + 1
    BY <1>0, <2>1, <2>3, Numbered
  <2>5. \A t \in table' : \E i \in 1..(n + 1) : t.sid = <<"sid", i>> /\ t.key = <<"k_sess", i>>
    BY <1>0, <2>1, <2>3 DEF Inv, TableNumbered
  <2>6. \A t, u \in table' : (t.key = u.key \/ t.sid = u.sid) => t = u
    BY <1>0, <2>2, <2>3 DEF Inv, TableNumbered
  <2> QED
    BY <2>4, <2>5, <2>6 DEF TableNumbered
<1>2. TableOpened'
  <2>1. \E o \in opens : o.daemon = r.aid /\ o.hub = h /\ r.epk = PublicKey(o.esk)
    BY <1>0, AuthenticOpening
  <2> QED
    BY <1>0, <2>1 DEF Inv, TableOpened
<1>3. AnswersSealed'
  <2> SUFFICES ASSUME NEW x \in answers'
               PROVE  \E t \in table' : x.sid = t.sid /\ x.sealed = SealSessionKey(t.epk, t.hub, t.sid, t.key)
    BY DEF AnswersSealed
  <2>1. CASE x \in answers
    BY <1>0, <2>1 DEF Inv, AnswersSealed
  <2>2. CASE x = ans
    <3>1. new \in table'
      BY <1>0
    <3>2. new.epk = r.epk /\ new.hub = h /\ new.sid = sid /\ new.key = k
      OBVIOUS
    <3>3. ans.sid = sid /\ ans.sealed = SealSessionKey(r.epk, h, sid, k)
      OBVIOUS
    <3> HIDE DEF new, ans
    <3> QED
      BY <2>2, <3>1, <3>2, <3>3
  <2> QED
    BY <1>0, <2>1, <2>2
<1>4. SessionsKnown'
  BY <1>0 DEF Inv, SessionsKnown
<1>5. SendsMade'
  BY <1>0 DEF Inv, SendsMade
<1> QED
  BY <1>0, <1>1, <1>2, <1>3, <1>4, <1>5 DEF Inv, OpensNumbered, RequestsSigned, SendAccounted

\* OpenSessionKey opens a session id and a sealed key of two answers only when they are one answer.
LEMMA TakeAnswerInv ==
  ASSUME Inv, NEW o \in opens, NEW x \in answers, NEW y \in answers, TakeAnswer(o, x.sid, y.sealed)
  PROVE  Inv'
<1> DEFINE new == [daemon |-> o.daemon, hub |-> o.hub, sid |-> x.sid, key |-> y.sealed.k]
<1>0. /\ sessions' = sessions \cup {new}
      /\ y.sealed.epk = PublicKey(o.esk) /\ y.sealed.info = sessionKeyInfo(o.hub, x.sid)
      /\ UNCHANGED <<opens, requests, table, answers, sends, counted>>
  BY DEF TakeAnswer, OpenSessionKeyAccepts
<1>1. PICK t \in table : y.sid = t.sid /\ y.sealed = SealSessionKey(t.epk, t.hub, t.sid, t.key)
  BY DEF Inv, AnswersSealed
<1>2. /\ t.epk = PublicKey(o.esk) /\ t.key = y.sealed.k
      /\ sessionKeyInfo(o.hub, x.sid) = sessionKeyInfo(t.hub, t.sid)
  BY <1>0, <1>1 DEF SealSessionKey
<1>3. t.hub = o.hub /\ t.sid = x.sid
  BY <1>2 DEF sessionKeyInfo
<1>4. PICK p \in opens : p.daemon = t.aid /\ p.hub = t.hub /\ PublicKey(p.esk) = t.epk
  BY DEF Inv, TableOpened
<1>5. p = o
  BY <1>2, <1>4 DEF PublicKey, Inv, OpensNumbered
<1>6. SessionsKnown'
  BY <1>0, <1>2, <1>3, <1>4, <1>5 DEF Inv, SessionsKnown
<1> QED
  BY <1>0, <1>6 DEF Inv, OpensNumbered, RequestsSigned, TableNumbered, TableOpened, AnswersSealed, SendsMade,
     SendAccounted

\* A send carries the MAC of the session the hub knows.
LEMMA SendInv ==
  ASSUME Inv, NEW s \in sessions, NEW tgt \in Targets, NEW home \in Homes, NEW body \in Bodies,
         Send(s, tgt, home, body)
  PROVE  Inv'
<1> DEFINE m   == [sid |-> s.sid, ts |-> clock, target |-> tgt, home |-> home, body |-> body, mac |-> Bad]
           new == [daemon |-> s.daemon, hub |-> s.hub, msg |-> [m EXCEPT !.mac = SessionMAC(s.key, m)]]
<1>0. /\ sends' = sends \cup {new}
      /\ SessionMACAccepts(m)
      /\ UNCHANGED <<opens, requests, table, answers, sessions, counted>>
  BY DEF Send
<1>1. ~HasNul(tgt) /\ ~HasNul(home)
  BY <1>0 DEF SessionMACAccepts
<1>2. PICK t \in table : t.hub = s.hub /\ t.sid = s.sid /\ t.aid = s.daemon /\ t.key = s.key
  BY DEF Inv, SessionsKnown
<1>3. new.daemon = s.daemon /\ new.hub = s.hub /\ new.msg = Message(t, clock, tgt, home, body)
  BY <1>2 DEF Message
<1>4. SendsMade'
  <2> HIDE DEF new
  <2> SUFFICES ASSUME NEW x \in sends'
               PROVE  \E u \in table, tt \in Targets, hh \in Homes :
                        /\ u.aid = x.daemon /\ u.hub = x.hub
                        /\ ~HasNul(tt) /\ ~HasNul(hh)
                        /\ \E ts, b : x.msg = Message(u, ts, tt, hh, b)
    BY <1>0 DEF SendsMade
  <2>1. CASE x \in sends
    BY <2>1 DEF Inv, SendsMade
  <2>2. CASE x = new
    BY <2>2, <1>1, <1>2, <1>3
  <2> QED
    BY <1>0, <2>1, <2>2
<1>5. SendAccounted'
  BY <1>0 DEF Inv, SendAccounted
<1> QED
  BY <1>0, <1>4, <1>5
     DEF Inv, OpensNumbered, RequestsSigned, TableNumbered, TableOpened, AnswersSealed, SessionsKnown

\* A send with a MAC that verifies is, field for field, one a daemon made.
LEMMA CountInv ==
  ASSUME Inv, NEW s \in sends, NEW t \in table, NEW ts \in 1..clock,
         NEW tgt \in Targets, NEW home \in Homes, NEW body \in Bodies,
         Count(t, RewrittenSend(s, t.sid, ts, tgt, home, body))
  PROVE  Inv'
<1> DEFINE m   == RewrittenSend(s, t.sid, ts, tgt, home, body)
           new == [hub |-> t.hub, aid |-> t.aid, msg |-> m]
<1>0. /\ counted' = counted \cup {new}
      /\ SessionMACAccepts(m) /\ m.mac = SessionMAC(t.key, m)
      /\ UNCHANGED <<opens, requests, table, answers, sessions, sends>>
  BY DEF Count, VerifySessionMAC
<1>1. PICK u \in table, targetU \in Targets, homeU \in Homes :
        /\ u.aid = s.daemon /\ u.hub = s.hub
        /\ ~HasNul(targetU) /\ ~HasNul(homeU)
        /\ \E us, bodyU : s.msg = Message(u, us, targetU, homeU, bodyU)
  BY DEF Inv, SendsMade
<1>2. PICK us, bodyU : s.msg = Message(u, us, targetU, homeU, bodyU)
  BY <1>1
<1>3. m = [ sid |-> t.sid, ts |-> ts, target |-> tgt, home |-> home, body |-> body, mac |-> s.msg.mac ]
  BY DEF RewrittenSend
<1>4. ~HasNul(tgt) /\ ~HasNul(home)
  BY <1>0, <1>3 DEF SessionMACAccepts
<1>5. /\ SessionMAC(t.key, m) = Message(t, ts, tgt, home, body).mac
      /\ m = Message(t, ts, tgt, home, body)
  <2>1. SessionMAC(t.key, m)
          = <<"hmac", t.key, <<"anet-sess-mac/v1", m.sid, m.ts, Joined(m.target, m.home), <<"sha256", m.body>>>>>>
    BY Zenon DEF SessionMAC, sessionMACInput, Joined
  <2>2. m.sid = t.sid /\ m.ts = ts /\ m.target = tgt /\ m.home = home /\ m.body = body /\ m.mac = s.msg.mac
    BY <1>3
  <2>3. SessionMAC(t.key, m) = Message(t, ts, tgt, home, body).mac
    BY <2>1, <2>2, MACOf
  <2>4. s.msg.mac = Message(t, ts, tgt, home, body).mac
    BY <1>0, <2>2, <2>3
  <2>5. Message(t, ts, tgt, home, body)
          = [ sid |-> t.sid, ts |-> ts, target |-> tgt, home |-> home, body |-> body,
              mac |-> Message(t, ts, tgt, home, body).mac ]
    BY MACOf
  <2> QED
    BY <1>3, <2>3, <2>4, <2>5, Zenon
<1>6. Message(t, ts, tgt, home, body).mac = Message(u, us, targetU, homeU, bodyU).mac
  BY <1>0, <1>2, <1>3, <1>5
<1>7. /\ t.key = u.key /\ t.sid = u.sid /\ ts = us /\ body = bodyU
      /\ tgt = targetU /\ home = homeU
  BY <1>1, <1>4, <1>6, MACBinds
<1>8. t = u
  BY <1>7 DEF Inv, TableNumbered
<1>9. s.daemon = new.aid /\ s.hub = new.hub /\ s.msg = new.msg
  BY <1>1, <1>2, <1>5, <1>7, <1>8
<1>10. SendAccounted'
  <2> HIDE DEF new
  <2> QED
    BY <1>0, <1>9 DEF Inv, SendAccounted
<1> QED
  BY <1>0, <1>10
     DEF Inv, OpensNumbered, RequestsSigned, TableNumbered, TableOpened, AnswersSealed, SessionsKnown, SendsMade

\* Every step keeps the invariant.
LEMMA NextInv ==
  ASSUME Inv, [Next]_vars
  PROVE  Inv'
<1>1. CASE Tick
  BY <1>1 DEF Tick, Inv, OpensNumbered, RequestsSigned, TableNumbered, TableOpened, AnswersSealed,
              SessionsKnown, SendsMade, SendAccounted
<1>2. CASE \E d \in Daemons, h \in Hubs : OpenSession(d, h)
  BY <1>2, OpenSessionInv
<1>3. ASSUME NEW o \in opens, Retry(o)
      PROVE  Inv'
  BY <1>3, RequestInv DEF Retry
<1>4. ASSUME NEW o \in opens, Poll(o)
      PROVE  Inv'
  BY <1>4, RequestInv DEF Poll, ActionPoll, ActionSession
<1>5. CASE \E o \in opens, x, y \in answers : TakeAnswer(o, x.sid, y.sealed)
  BY <1>5, TakeAnswerInv
<1>6. CASE \E s \in sessions, tgt \in Targets, home \in Homes, body \in Bodies : Send(s, tgt, home, body)
  BY <1>6, SendInv
<1>7. CASE \E h \in Hubs, r \in RewrittenRequests : Serve(h, r)
  BY <1>7, ServeInv
<1>8. CASE \E s \in sends, t \in table, ts \in 1..clock, tgt \in Targets, home \in Homes, body \in Bodies :
             Count(t, RewrittenSend(s, t.sid, ts, tgt, home, body))
  BY <1>8, CountInv
<1>9. CASE UNCHANGED vars
  BY <1>9 DEF vars, Inv, OpensNumbered, RequestsSigned, TableNumbered, TableOpened, AnswersSealed,
              SessionsKnown, SendsMade, SendAccounted
<1> QED
  BY <1>1, <1>2, <1>3, <1>4, <1>5, <1>6, <1>7, <1>8, <1>9 DEF Next

-----------------------------------------------------------------------------
(* Session: the theorems. *)

\* Requests, sessions and sends stay in the relation the invariant states.
THEOREM Invariance == Spec => []Inv
<1>1. Init => Inv
  BY InitInv
<1>2. Inv /\ [Next]_vars => Inv'
  BY NextInv
<1> QED
  BY <1>1, <1>2, PTL DEF Spec

\* Whatever requests are repeated and answers mixed up, a daemon's session is the one the hub
\* made for it (OpenSessionKey, Authentic).
THEOREM Agreed == Spec => []SessionAgrees
<1>1. Inv => SessionAgrees
  BY DEF Inv, TableOpened, SessionsKnown, SessionAgrees
<1> QED
  BY <1>1, Invariance, PTL

\* A hub counts only what the daemon sent, exactly (VerifySessionMAC).
THEOREM Accounted == Spec => []SendAccounted
<1>1. Inv => SendAccounted
  BY DEF Inv
<1> QED
  BY <1>1, Invariance, PTL

-----------------------------------------------------------------------------
(* Admission: the inductive invariant. *)

\* The holder's key of a mailbox epoch: equal epochs, equal keys.
BoxesOK ==
  /\ box = [epoch |-> box.epoch, pub |-> box.pub] /\ box.epoch \in Nat \ {0}
  /\ hubBox = [epoch |-> hubBox.epoch, pub |-> hubBox.pub] /\ hubBox.epoch \in Nat \ {0}
  /\ hubBox.epoch <= box.epoch
  /\ hubBox.epoch = box.epoch => hubBox = box
  /\ \E n \in Nat \ {0} : box.pub = <<"mbox", n>>
  /\ \E n \in Nat \ {0} : hubBox.pub = <<"mbox", n>>

SignedUnder(cap, mbox) == cap.body.epoch = mbox.epoch => cap.sig = <<mbox.pub, cap.body>>

\* A capability is signed under the mailbox key of its epoch, b's and the one the hub has.
IssuedOK ==
  \A i \in issued :
    LET cap == i.grant.cap
    IN  /\ cap.body.epoch \in Nat /\ cap.body.epoch <= box.epoch
        /\ \E n \in Nat \ {0} : cap.sig = <<<<"mbox", n>>, cap.body>>
        /\ SignedUnder(cap, box) /\ SignedUnder(cap, hubBox)
        /\ i.marshalled => Grants!MarshalGrantAccepts(i.grant)

\* A message from b carries a key set in which the capability's epoch has its key.
LettersOK ==
  \A l \in letters :
    /\ \E i \in issued : i.grant = l.grant /\ i.marshalled = l.marshalled
    /\ l.keys = [aid |-> l.from, mbox |-> l.keys.mbox]
    /\ l.from = "b" =>
         /\ \E n \in Nat \ {0} : l.keys.mbox.pub = <<"mbox", n>>
         /\ l.keys.mbox.epoch # 0
         /\ SignedUnder(l.grant.cap, l.keys.mbox)
    /\ l.from # "b" => l.keys.mbox.pub = <<"mbox", 0>>

\* What CheckGrant saw to, whoever the grant came from: it is b's.
KeptOK ==
  \A g \in kept :
    /\ \E i \in issued : i.grant = g
    /\ Grants!decodeGrant(g) /\ Grants!decodeCapBody(g.cap.body)
    /\ g.cap.body.t = Grants!CapType /\ g.cap.body.owner = "b" /\ g.cap.body.class \in Grants!Classes
    /\ Grants!PublicOf(g.seed) = g.cap.body.holder

\* An access on its way was made with a kept grant for an envelope the holder signed for.
AttemptsOK ==
  \A x \in attempts :
    /\ \E e \in Envelopes : x = Grants!WithAccess(e, x.access)
    /\ \E g \in kept : \E e \in Envelopes : <<g.cap, e>> \in proven /\ x.access = Grants!AccessOf(g, e)

GrantsInv == BoxesOK /\ IssuedOK /\ LettersOK /\ KeptOK /\ AttemptsOK /\ Grants!RevocationHolds

-----------------------------------------------------------------------------
(* Admission: lemmas on what is checked. *)

\* None, Bad and SmallOrder are no value the model builds.
NilIsNoValue ==
  /\ \A x, y : <<x, y>> \notin {None, Bad, SmallOrder}
  /\ \A kind, cap, proof : [kind |-> kind, cap |-> cap, proof |-> proof] \notin {None, Bad}
  /\ \A aid, mbox : [aid |-> aid, mbox |-> mbox] # None

\* A grant that CheckGrant lets through.
LEMMA CheckedGrant ==
  ASSUME NEW l, NEW t, Grants!CheckGrant(l, l.keys, t) = "ok"
  PROVE  /\ Grants!decodeGrant(l.grant) /\ Grants!decodeCapBody(l.grant.cap.body)
         /\ l.grant.cap.body.t = Grants!CapType
         /\ l.grant.cap.body.owner = l.from
         /\ Grants!Verifies(l.grant.cap.sig, l.keys.mbox.pub, l.grant.cap.body)
         /\ Grants!PublicOf(l.grant.seed) = l.grant.cap.body.holder
         /\ l.grant.cap.body.class \in Grants!Classes
BY DEF Grants!CheckGrant

\* A capability that VerifyAccess lets through.
LEMMA VerifiedAccess ==
  ASSUME NEW a, NEW digest, NEW mbox, NEW owner, NEW t, Grants!VerifyAccess(a, digest, mbox, owner, t) = "ok"
  PROVE  /\ a.cap.body.epoch = mbox.epoch
         /\ Grants!Verifies(a.proof, a.cap.body.holder, Grants!accessInput(a.cap.body.id, digest))
BY DEF Grants!VerifyAccess

\* A proof is for one envelope.
LEMMA ProofIsForOne ==
  ASSUME NEW g, NEW e, NEW x, NEW pub, NEW id,
         Grants!Verifies(Grants!AccessOf(g, e).proof, pub, Grants!accessInput(id, Grants!EnvDigest(x)))
  PROVE  Grants!WithAccess(e, None) = Grants!WithAccess(x, None)
<1>1. Grants!AccessOf(g, e).proof = Grants!SignAccess(g.seed, g.cap.body.id, Grants!EnvDigest(e))
  BY DEF Grants!AccessOf
<1>2. Grants!accessInput(g.cap.body.id, Grants!EnvDigest(e)) = Grants!accessInput(id, Grants!EnvDigest(x))
  BY <1>1 DEF Grants!Verifies, Grants!SignAccess
<1>3. Grants!EnvDigest(e) = Grants!EnvDigest(x)
  BY <1>2 DEF Grants!accessInput
<1> QED
  BY <1>3 DEF Grants!EnvDigest, Grants!WithAccess

\* The envelope with an access on it.
LEMMA AccessIs ==
  ASSUME NEW e \in Envelopes, NEW a
  PROVE  LET x == Grants!WithAccess(e, a)
         IN  /\ x.access = a /\ x.to = "b"
             /\ Grants!WithAccess(x, None) = e
             /\ \A b : Grants!WithAccess(x, b) = Grants!WithAccess(e, b)
             /\ Grants!EnvDigest(x) = Grants!EnvDigest(e)
             /\ Grants!decodeAccess(a) => Grants!ParseOuter(x) = "ok"
<1> DEFINE first == [kind |-> 0, cap |-> None, proof |-> None]
           with(b) == [ v |-> e.v, to |-> "b", suite |-> e.suite, kid |-> e.kid, enc |-> e.enc, ct |-> e.ct,
                        access |-> b, exp |-> e.exp, others |-> e.others ]
           x == Grants!WithAccess(e, a)
           y == Grants!WithAccess(e, first)
<1>1. e = with(None) /\ Grants!ParseOuter(y) = "ok"
  BY EnvelopesAssumption
<1>2. \A b, c : Grants!WithAccess(with(b), c) = with(c)
  BY DEF Grants!WithAccess
<1>3. x = with(a) /\ y = with(first)
  <2> HIDE DEF with
  <2> QED
    BY <1>1, <1>2
<1>4. \A b : Grants!WithAccess(x, b) = Grants!WithAccess(e, b)
  <2> HIDE DEF with, x
  <2> QED
    BY <1>1, <1>2, <1>3
<1>5. Grants!WithAccess(x, None) = e /\ Grants!WithAccess(e, None) = e
  <2> HIDE DEF with, x
  <2> QED
    BY <1>1, <1>2, <1>3
<1>6. Grants!EnvDigest(x) = Grants!EnvDigest(e)
  <2>1. \A z : Grants!EnvDigest(z) = <<"anet-env/v2", Grants!WithAccess(z, None)>>
    BY DEF Grants!EnvDigest, Grants!WithAccess
  <2> HIDE DEF x
  <2> QED
    BY <1>5, <2>1
<1>7. x.access = a /\ x.to = "b"
  <2> HIDE DEF x
  <2> QED
    BY <1>3
<1>8. Grants!decodeAccess(a) => Grants!ParseOuter(x) = "ok"
  <2>1. /\ y.v = x.v /\ y.to = x.to /\ y.suite = x.suite /\ y.kid = x.kid /\ y.enc = x.enc /\ y.ct = x.ct
        /\ y.exp = x.exp /\ y.others = x.others /\ x.access = a
    <3> HIDE DEF x, y
    <3> QED
      BY <1>3
  <2> HIDE DEF x, y
  <2>2. /\ Grants!Present(y.v) /\ y.v = Grants!EnvelopeVersion /\ ~Grants!UnknownCritical(y.others)
        /\ ~(y.exp = Bad \/ ~Grants!Present(y.to) \/ ~Grants!Present(y.suite))
        /\ y.suite = Grants!SuiteX25519
        /\ ~(y.to = "" \/ ~Grants!Present(y.kid) \/ ~Grants!Present(y.enc) \/ ~Grants!Present(y.ct))
    BY <1>1 DEF Grants!ParseOuter
  <2> QED
    BY <2>1, <2>2 DEF Grants!ParseOuter
<1> QED
  BY <1>4, <1>5, <1>6, <1>7, <1>8, Zenon

-----------------------------------------------------------------------------
(* Admission: every step keeps the invariant. *)

\* The initial state.
LEMMA InitGrants == Grants!Init => GrantsInv
<1> SUFFICES ASSUME Grants!Init PROVE GrantsInv
  OBVIOUS
<1>1. box = [epoch |-> 1, pub |-> <<"mbox", 1>>] /\ hubBox = box
  BY DEF Grants!Init
<1>2. issued = {} /\ letters = {} /\ kept = {} /\ attempts = {} /\ admitted = {}
  BY DEF Grants!Init
<1>3. BoxesOK
  <2>1. box.epoch = 1 /\ box.pub = <<"mbox", 1>> /\ box = [epoch |-> box.epoch, pub |-> box.pub]
    BY <1>1
  <2> QED
    BY <1>1, <2>1 DEF BoxesOK
<1> QED
  BY <1>2, <1>3 DEF GrantsInv, IssuedOK, LettersOK, KeptOK, AttemptsOK, Grants!RevocationHolds

\* NewMbox: no capability is of the new epoch yet.
LEMMA NewMboxInv ==
  ASSUME GrantsInv, NEW pub \in {box.pub, <<"mbox", box.epoch + 1>>}, Grants!NewMbox(pub)
  PROVE  GrantsInv'
<1>1. /\ box' = [epoch |-> box.epoch + 1, pub |-> pub]
      /\ UNCHANGED <<hubBox, issued, letters, kept, proven, attempts, admitted>>
  BY DEF Grants!NewMbox
<1>2. box'.epoch = box.epoch + 1 /\ box'.pub = pub /\ box' = [epoch |-> box'.epoch, pub |-> box'.pub]
  BY <1>1
<1>3. box.epoch \in Nat \ {0} /\ hubBox.epoch \in Nat \ {0} /\ hubBox.epoch <= box.epoch
  BY DEF GrantsInv, BoxesOK
<1>4. box'.epoch \in Nat \ {0} /\ hubBox.epoch <= box'.epoch /\ hubBox.epoch # box'.epoch
  BY <1>2, <1>3
<1>5. \E n \in Nat \ {0} : pub = <<"mbox", n>>
  BY <1>3 DEF GrantsInv, BoxesOK
<1>6. BoxesOK'
  BY <1>1, <1>2, <1>4, <1>5 DEF GrantsInv, BoxesOK
<1>7. IssuedOK'
  <2> SUFFICES ASSUME NEW i \in issued
               PROVE  /\ i.grant.cap.body.epoch \in Nat /\ i.grant.cap.body.epoch <= box'.epoch
                      /\ \E n \in Nat \ {0} : i.grant.cap.sig = <<<<"mbox", n>>, i.grant.cap.body>>
                      /\ SignedUnder(i.grant.cap, box') /\ SignedUnder(i.grant.cap, hubBox)
                      /\ i.marshalled => Grants!MarshalGrantAccepts(i.grant)
    BY <1>1 DEF IssuedOK, SignedUnder
  <2> DEFINE cap == i.grant.cap
  <2>1. /\ cap.body.epoch \in Nat /\ cap.body.epoch <= box.epoch
        /\ \E n \in Nat \ {0} : cap.sig = <<<<"mbox", n>>, cap.body>>
        /\ SignedUnder(cap, hubBox)
        /\ i.marshalled => Grants!MarshalGrantAccepts(i.grant)
    BY DEF GrantsInv, IssuedOK
  <2>2. cap.body.epoch <= box'.epoch /\ cap.body.epoch # box'.epoch
    <3> HIDE DEF cap
    <3> QED
      BY <1>2, <1>3, <2>1
  <2> QED
    BY <2>1, <2>2 DEF SignedUnder
<1>8. LettersOK' /\ KeptOK' /\ AttemptsOK' /\ (Grants!RevocationHolds)'
  BY <1>1 DEF GrantsInv, LettersOK, KeptOK, AttemptsOK, Grants!RevocationHolds, SignedUnder
<1> QED
  BY <1>6, <1>7, <1>8 DEF GrantsInv

\* PublishKeys: what is of b's epoch is signed under b's key.
LEMMA PublishKeysInv ==
  ASSUME GrantsInv, Grants!PublishKeys
  PROVE  GrantsInv'
<1>1. hubBox' = box /\ UNCHANGED <<box, issued, letters, kept, proven, attempts, admitted>>
  BY DEF Grants!PublishKeys
<1>2. BoxesOK'
  BY <1>1 DEF GrantsInv, BoxesOK
<1>3. IssuedOK'
  BY <1>1 DEF GrantsInv, IssuedOK, SignedUnder
<1>4. LettersOK' /\ KeptOK' /\ AttemptsOK' /\ (Grants!RevocationHolds)'
  BY <1>1 DEF GrantsInv, LettersOK, KeptOK, AttemptsOK, Grants!RevocationHolds, SignedUnder
<1> QED
  BY <1>2, <1>3, <1>4 DEF GrantsInv

\* Issue: the grant is of b's key of the moment, and so of the hub's if that is of the same epoch.
LEMMA IssueInv ==
  ASSUME GrantsInv, NEW x, NEW marshalled \in BOOLEAN, Grants!Issue(x, marshalled)
  PROVE  GrantsInv'
<1> DEFINE n == Grants!Cardinality(issued) + 1
           g == Grants!GrantOf(x, box, n)
           i == [grant |-> g, marshalled |-> marshalled]
<1>1. /\ marshalled => Grants!MarshalGrantAccepts(g)
      /\ issued' = issued \cup {i}
      /\ UNCHANGED <<box, hubBox, letters, kept, proven, attempts, admitted>>
  <2>1. \E h \in {g} : /\ marshalled => Grants!MarshalGrantAccepts(h)
                       /\ issued' = issued \cup {[grant |-> h, marshalled |-> marshalled]}
    BY Zenon DEF Grants!Issue
  <2>2. UNCHANGED <<box, hubBox, letters, kept, proven, attempts, admitted>>
    BY DEF Grants!Issue
  <2> HIDE DEF g, n
  <2> QED
    BY <2>1, <2>2, Zenon
<1>2. g.cap.body.epoch = box.epoch /\ g.cap.sig = <<box.pub, g.cap.body>>
  BY DEF Grants!GrantOf, Grants!SignCap
<1>3. i.grant = g /\ i.marshalled = marshalled
  OBVIOUS
<1> HIDE DEF g, i
<1>4. IssuedOK'
  <2> DEFINE P(j) == /\ j.grant.cap.body.epoch \in Nat /\ j.grant.cap.body.epoch <= box.epoch
                     /\ \E m \in Nat \ {0} : j.grant.cap.sig = <<<<"mbox", m>>, j.grant.cap.body>>
                     /\ SignedUnder(j.grant.cap, box) /\ SignedUnder(j.grant.cap, hubBox)
                     /\ j.marshalled => Grants!MarshalGrantAccepts(j.grant)
  <2>1. \A j \in issued : P(j)
    BY DEF GrantsInv, IssuedOK
  <2>2. P(i)
    <3>1. box.epoch \in Nat /\ box.epoch <= box.epoch /\ (hubBox.epoch = box.epoch => hubBox = box)
      BY DEF GrantsInv, BoxesOK
    <3>2. \E m \in Nat \ {0} : g.cap.sig = <<<<"mbox", m>>, g.cap.body>>
      BY <1>2 DEF GrantsInv, BoxesOK
    <3>3. SignedUnder(g.cap, box) /\ SignedUnder(g.cap, hubBox)
      BY <1>2, <3>1 DEF SignedUnder
    <3> QED
      BY <1>1, <1>2, <1>3, <3>1, <3>2, <3>3
  <2>3. \A j \in issued' : P(j)
    <3> HIDE DEF P
    <3> QED
      BY <1>1, <2>1, <2>2
  <2> QED
    BY <1>1, <2>3 DEF IssuedOK, SignedUnder
<1>5. BoxesOK'
  BY <1>1 DEF GrantsInv, BoxesOK
<1>6. LettersOK' /\ KeptOK' /\ AttemptsOK'
  BY <1>1 DEF GrantsInv, LettersOK, KeptOK, AttemptsOK, SignedUnder
<1>7. (Grants!RevocationHolds)'
  BY <1>1 DEF GrantsInv, Grants!RevocationHolds
<1> QED
  BY <1>4, <1>5, <1>6, <1>7 DEF GrantsInv

\* SendGrant: b's letter has b's key of the moment.
LEMMA SendGrantInv ==
  ASSUME GrantsInv, NEW i \in issued, NEW from \in {"b", "c"}, NEW ix, Grants!SendGrant(i, from, ix)
  PROVE  GrantsInv'
<1> DEFINE mbox == IF from = "b" THEN box ELSE [epoch |-> 1, pub |-> <<"mbox", 0>>]
           l    == [ grant |-> i.grant, from |-> from, ix |-> ix, marshalled |-> i.marshalled,
                     keys |-> [aid |-> from, mbox |-> mbox] ]
<1>1. letters' = {l} /\ UNCHANGED <<box, hubBox, issued, kept, proven, attempts, admitted>>
  BY DEF Grants!SendGrant
<1>2. /\ l.grant = i.grant /\ l.from = from /\ l.marshalled = i.marshalled
      /\ l.keys = [aid |-> l.from, mbox |-> l.keys.mbox] /\ l.keys.mbox = mbox
  OBVIOUS
<1>3. mbox.pub = <<"mbox", 0>> \/ from = "b"
  OBVIOUS
<1>4. from = "b" => mbox = box
  OBVIOUS
<1>5. /\ \E n \in Nat \ {0} : box.pub = <<"mbox", n>>
      /\ box.epoch # 0 /\ SignedUnder(i.grant.cap, box)
  BY DEF GrantsInv, BoxesOK, IssuedOK
<1> HIDE DEF l, mbox
<1>6. LettersOK'
  <2>1. \A x \in {l} :
          /\ \E j \in issued : j.grant = x.grant /\ j.marshalled = x.marshalled
          /\ x.keys = [aid |-> x.from, mbox |-> x.keys.mbox]
          /\ x.from = "b" =>
               /\ \E n \in Nat \ {0} : x.keys.mbox.pub = <<"mbox", n>>
               /\ x.keys.mbox.epoch # 0
               /\ SignedUnder(x.grant.cap, x.keys.mbox)
          /\ x.from # "b" => x.keys.mbox.pub = <<"mbox", 0>>
    BY <1>2, <1>3, <1>4, <1>5
  <2> QED
    BY <1>1, <2>1 DEF LettersOK, SignedUnder
<1>7. BoxesOK' /\ IssuedOK' /\ KeptOK' /\ AttemptsOK' /\ (Grants!RevocationHolds)'
  BY <1>1 DEF GrantsInv, BoxesOK, IssuedOK, KeptOK, AttemptsOK, Grants!RevocationHolds, SignedUnder
<1> QED
  BY <1>6, <1>7 DEF GrantsInv

\* Equal keys have equal numbers.
LEMMA MboxKeys == ASSUME NEW m, NEW n, NEW b, NEW c, <<<<"mbox", m>>, b>> = <<<<"mbox", n>>, c>> PROVE m = n
<1>1. <<"mbox", m>> = <<"mbox", n>>
  OBVIOUS
<1> QED
  BY <1>1

\* TakeGrant: what another agent passed on is not signed under its key.
LEMMA TakeGrantInv ==
  ASSUME GrantsInv, NEW l \in letters, Grants!TakeGrant(l)
  PROVE  GrantsInv'
<1> DEFINE g == l.grant
<1>1. /\ letters' = letters \ {l}
      /\ kept' = IF Grants!CheckGrant(l, l.keys, time) = "ok" THEN kept \cup {g} ELSE kept
      /\ UNCHANGED <<box, hubBox, issued, proven, attempts, admitted>>
  BY DEF Grants!TakeGrant
<1>2. PICK i \in issued : i.grant = g
  BY DEF GrantsInv, LettersOK
<1>3. ASSUME Grants!CheckGrant(l, l.keys, time) = "ok"
      PROVE  /\ Grants!decodeGrant(g) /\ Grants!decodeCapBody(g.cap.body)
             /\ g.cap.body.t = Grants!CapType /\ g.cap.body.owner = "b"
             /\ g.cap.body.class \in Grants!Classes
             /\ Grants!PublicOf(g.seed) = g.cap.body.holder
  <2>1. /\ Grants!decodeGrant(g) /\ Grants!decodeCapBody(g.cap.body)
        /\ g.cap.body.t = Grants!CapType /\ g.cap.body.owner = l.from
        /\ Grants!Verifies(g.cap.sig, l.keys.mbox.pub, g.cap.body)
        /\ Grants!PublicOf(g.seed) = g.cap.body.holder
        /\ g.cap.body.class \in Grants!Classes
    BY <1>3, CheckedGrant
  <2>2. ASSUME l.from # "b" PROVE FALSE
    <3>1. g.cap.sig = <<<<"mbox", 0>>, g.cap.body>>
      BY <2>1, <2>2 DEF GrantsInv, LettersOK, Grants!Verifies
    <3>2. PICK n \in Nat \ {0} : g.cap.sig = <<<<"mbox", n>>, g.cap.body>>
      BY <1>2 DEF GrantsInv, IssuedOK
    <3>3. n = 0
      BY <3>1, <3>2, MboxKeys
    <3> QED
      BY <3>3
  <2> QED
    BY <2>1, <2>2
<1>4. KeptOK'
  BY <1>1, <1>2, <1>3 DEF GrantsInv, KeptOK
<1>5. LettersOK'
  BY <1>1 DEF GrantsInv, LettersOK, SignedUnder
<1>6. AttemptsOK'
  <2>1. kept \subseteq kept'
    BY <1>1
  <2> QED
    BY <1>1, <2>1 DEF GrantsInv, AttemptsOK
<1>7. BoxesOK' /\ IssuedOK' /\ (Grants!RevocationHolds)'
  BY <1>1 DEF GrantsInv, BoxesOK, IssuedOK, Grants!RevocationHolds, SignedUnder
<1> QED
  BY <1>4, <1>5, <1>6, <1>7 DEF GrantsInv

\* Attempt: the holder signs for the envelope it sends.
LEMMA AttemptInv ==
  ASSUME GrantsInv, NEW g \in kept, NEW e \in Envelopes, Grants!Attempt(g, e)
  PROVE  GrantsInv'
<1> DEFINE x == Grants!WithAccess(e, Grants!AccessOf(g, e))
<1>1. /\ proven' = proven \cup {<<g.cap, e>>} /\ attempts' = attempts \cup {x}
      /\ UNCHANGED <<box, hubBox, issued, letters, kept, admitted>>
  BY DEF Grants!Attempt
<1>2. x.access = Grants!AccessOf(g, e)
  BY AccessIs
<1>3. x = Grants!WithAccess(e, x.access)
  BY <1>2
<1> HIDE DEF x
<1>4. AttemptsOK'
  <2>1. \A y \in attempts :
          /\ \E f \in Envelopes : y = Grants!WithAccess(f, y.access)
          /\ \E h \in kept : \E f \in Envelopes : <<h.cap, f>> \in proven' /\ y.access = Grants!AccessOf(h, f)
    BY <1>1 DEF GrantsInv, AttemptsOK
  <2>2. \A y \in attempts' :
          /\ \E f \in Envelopes : y = Grants!WithAccess(f, y.access)
          /\ \E h \in kept : \E f \in Envelopes : <<h.cap, f>> \in proven' /\ y.access = Grants!AccessOf(h, f)
    BY <1>1, <1>2, <1>3, <2>1
  <2> QED
    BY <1>1, <2>2 DEF AttemptsOK
<1>5. (Grants!RevocationHolds)'
  BY <1>1 DEF GrantsInv, Grants!RevocationHolds
<1>6. BoxesOK' /\ IssuedOK' /\ LettersOK' /\ KeptOK'
  BY <1>1 DEF GrantsInv, BoxesOK, IssuedOK, LettersOK, KeptOK, SignedUnder
<1> QED
  BY <1>4, <1>5, <1>6 DEF GrantsInv

\* Move: the access keeps what it was made for.
LEMMA MoveInv ==
  ASSUME GrantsInv, NEW x \in attempts, NEW e \in Envelopes, Grants!Move(x, e)
  PROVE  GrantsInv'
<1> DEFINE y == Grants!WithAccess(e, x.access)
<1>1. /\ attempts' = (attempts \ {x}) \cup {y}
      /\ UNCHANGED <<box, hubBox, issued, letters, kept, proven, admitted>>
  BY DEF Grants!Move
<1>2. y.access = x.access
  BY AccessIs
<1>3. y = Grants!WithAccess(e, y.access)
  BY <1>2
<1> HIDE DEF y
<1>4. AttemptsOK'
  <2>1. \A z \in attempts :
          /\ \E f \in Envelopes : z = Grants!WithAccess(f, z.access)
          /\ \E h \in kept : \E f \in Envelopes : <<h.cap, f>> \in proven /\ z.access = Grants!AccessOf(h, f)
    BY DEF GrantsInv, AttemptsOK
  <2>2. \A z \in attempts' :
          /\ \E f \in Envelopes : z = Grants!WithAccess(f, z.access)
          /\ \E h \in kept : \E f \in Envelopes : <<h.cap, f>> \in proven /\ z.access = Grants!AccessOf(h, f)
    BY <1>1, <1>2, <1>3, <2>1
  <2> QED
    BY <1>1, <2>2 DEF AttemptsOK
<1>5. BoxesOK' /\ IssuedOK' /\ LettersOK' /\ KeptOK' /\ (Grants!RevocationHolds)'
  BY <1>1 DEF GrantsInv, BoxesOK, IssuedOK, LettersOK, KeptOK, Grants!RevocationHolds, SignedUnder
<1> QED
  BY <1>4, <1>5 DEF GrantsInv

\* Admit: what VerifyAccess lets in was proven for this envelope, under the epoch the hub knows.
LEMMA AdmitInv ==
  ASSUME GrantsInv, NEW x \in attempts, Grants!Admit(x)
  PROVE  GrantsInv'
<1> DEFINE ok == Grants!VerifyAccess(x.access, Grants!EnvDigest(x), hubBox, x.to, time) = "ok"
           d  == [env |-> Grants!WithAccess(x, None), cap |-> x.access.cap, epoch |-> hubBox.epoch]
<1>1. /\ ok => admitted' = admitted \cup {d}
      /\ ~ok => admitted' = admitted
      /\ attempts' \subseteq attempts
      /\ UNCHANGED <<box, hubBox, issued, letters, kept, proven>>
  BY DEF Grants!Admit
<1>2. PICK h \in Envelopes : x = Grants!WithAccess(h, x.access)
  BY DEF GrantsInv, AttemptsOK
<1>3. PICK g \in kept : \E e \in Envelopes : <<g.cap, e>> \in proven /\ x.access = Grants!AccessOf(g, e)
  BY DEF GrantsInv, AttemptsOK
<1>4. PICK e \in Envelopes : <<g.cap, e>> \in proven /\ x.access = Grants!AccessOf(g, e)
  BY <1>3
<1>5. x.access.cap = g.cap
  BY <1>4 DEF Grants!AccessOf
<1>6. ASSUME ok
      PROVE  /\ \E i \in issued : i.grant.cap = d.cap
             /\ d.cap.body.epoch = d.epoch
             /\ <<d.cap, d.env>> \in proven
  <2>1. /\ x.access.cap.body.epoch = hubBox.epoch
        /\ Grants!Verifies(x.access.proof, x.access.cap.body.holder,
                           Grants!accessInput(x.access.cap.body.id, Grants!EnvDigest(x)))
    BY <1>6, VerifiedAccess
  <2>2. Grants!WithAccess(e, None) = Grants!WithAccess(x, None)
    BY <1>4, <2>1, ProofIsForOne
  <2>3. Grants!WithAccess(e, None) = e
    <3>1. \A b : Grants!WithAccess(Grants!WithAccess(e, b), None) = e
      BY AccessIs
    <3>2. Grants!WithAccess(Grants!WithAccess(e, None), None) = Grants!WithAccess(e, None)
      BY AccessIs
    <3> QED
      BY <3>1, <3>2
  <2>4. \E i \in issued : i.grant = g
    BY DEF GrantsInv, KeptOK
  <2>5. d.cap = g.cap /\ d.epoch = hubBox.epoch /\ d.env = Grants!WithAccess(x, None)
    BY <1>5
  <2> HIDE DEF d
  <2> QED
    BY <1>4, <1>5, <2>1, <2>2, <2>3, <2>4, <2>5
<1> HIDE DEF d, ok
<1>7. (Grants!RevocationHolds)'
  <2>1. \A y \in admitted : /\ \E i \in issued : i.grant.cap = y.cap
                            /\ y.cap.body.epoch = y.epoch
                            /\ <<y.cap, y.env>> \in proven
    BY DEF GrantsInv, Grants!RevocationHolds
  <2>2. \A y \in admitted' : /\ \E i \in issued : i.grant.cap = y.cap
                             /\ y.cap.body.epoch = y.epoch
                             /\ <<y.cap, y.env>> \in proven
    BY <1>1, <1>6, <2>1
  <2> QED
    BY <1>1, <2>2 DEF Grants!RevocationHolds
<1>8. AttemptsOK'
  <2>1. \A y \in attempts :
          /\ \E f \in Envelopes : y = Grants!WithAccess(f, y.access)
          /\ \E k \in kept : \E f \in Envelopes : <<k.cap, f>> \in proven /\ y.access = Grants!AccessOf(k, f)
    BY DEF GrantsInv, AttemptsOK
  <2>2. \A y \in attempts' :
          /\ \E f \in Envelopes : y = Grants!WithAccess(f, y.access)
          /\ \E k \in kept : \E f \in Envelopes : <<k.cap, f>> \in proven /\ y.access = Grants!AccessOf(k, f)
    BY <1>1, <2>1
  <2> QED
    BY <1>1, <2>2 DEF AttemptsOK
<1>9. BoxesOK' /\ IssuedOK' /\ LettersOK' /\ KeptOK'
  BY <1>1 DEF GrantsInv, BoxesOK, IssuedOK, LettersOK, KeptOK, SignedUnder
<1> QED
  BY <1>7, <1>8, <1>9 DEF GrantsInv

\* Every step.
LEMMA NextGrants ==
  ASSUME GrantsInv, Grants!Next \/ UNCHANGED grantVars
  PROVE  GrantsInv'
<1>1. CASE Grants!Tick \/ UNCHANGED grantVars
  <2>1. UNCHANGED <<box, hubBox, issued, letters, kept, proven, attempts, admitted>>
    BY <1>1 DEF Grants!Tick, grantVars
  <2> QED
    BY <2>1 DEF GrantsInv, BoxesOK, IssuedOK, LettersOK, KeptOK, AttemptsOK, Grants!RevocationHolds, SignedUnder
<1>2. ASSUME NEW pub \in {box.pub, <<"mbox", box.epoch + 1>>}, Grants!NewMbox(pub) PROVE GrantsInv'
  BY <1>2, NewMboxInv
<1>3. ASSUME NEW x \in GrantTerms, NEW marshalled \in BOOLEAN, Grants!Issue(x, marshalled) PROVE GrantsInv'
  BY <1>3, IssueInv
<1>4. ASSUME NEW i \in issued, NEW from \in {"b", "c"}, NEW ix \in {"i1", "i2"}, Grants!SendGrant(i, from, ix)
      PROVE  GrantsInv'
  BY <1>4, SendGrantInv
<1>5. ASSUME NEW g \in kept, NEW e \in Envelopes, Grants!Attempt(g, e) PROVE GrantsInv'
  BY <1>5, AttemptInv
<1>6. ASSUME NEW x \in attempts, NEW e \in Envelopes, Grants!Move(x, e) PROVE GrantsInv'
  BY <1>6, MoveInv
<1>7. \/ Grants!Tick \/ Grants!PublishKeys \/ UNCHANGED grantVars
      \/ \E pub \in {box.pub, <<"mbox", box.epoch + 1>>} : Grants!NewMbox(pub)
      \/ \E x \in GrantTerms, marshalled \in BOOLEAN : Grants!Issue(x, marshalled)
      \/ \E i \in issued, from \in {"b", "c"}, ix \in {"i1", "i2"} : Grants!SendGrant(i, from, ix)
      \/ \E l \in letters : Grants!TakeGrant(l)
      \/ \E g \in kept, e \in Envelopes : Grants!Attempt(g, e)
      \/ \E x \in attempts, e \in Envelopes : Grants!Move(x, e)
      \/ \E x \in attempts : Grants!Admit(x)
  BY DEF Grants!Next
<1> QED
  BY <1>1, <1>2, <1>3, <1>4, <1>5, <1>6, <1>7, PublishKeysInv, TakeGrantInv, AdmitInv

-----------------------------------------------------------------------------
(* Admission: the theorems. *)

\* In every behaviour of the services the invariant of the grants holds.
THEOREM Granted == ServicesSpec => []GrantsInv
<1>1. ServicesInit => GrantsInv
  BY InitGrants DEF ServicesInit
<1>2. GrantsInv /\ [ServicesNext]_allVars => GrantsInv'
  <2>1. [ServicesNext]_allVars => Grants!Next \/ UNCHANGED grantVars
    BY DEF ServicesNext, allVars, grantVars
  <2> QED
    BY <2>1, NextGrants
<1> QED
  BY <1>1, <1>2, PTL DEF ServicesSpec

\* The hub lets in only envelopes the holder signed a proof for, with a capability b issued in the
\* epoch the hub knows, wherever an access was moved to (VerifyAccess).
THEOREM Revoked == ServicesSpec => []RevocationHolds
<1>1. GrantsInv => RevocationHolds
  BY DEF GrantsInv, RevocationHolds
<1> QED
  BY <1>1, Granted, PTL

\* A mailbox key is no value of the checks.
LEMMA KeysAreKeys ==
  ASSUME NilIsNoValue, NEW mbox, \E n \in Nat \ {0} : mbox.pub = <<"mbox", n>>
  PROVE  mbox.pub \notin {Bad, SmallOrder}
BY DEF NilIsNoValue

\* A kept grant delivers while the hub has the key of its epoch and its expiry is in the window.
LEMMA KeptDelivers ==
  ASSUME NilIsNoValue, GrantsInv, NEW g \in kept, NEW e \in Envelopes,
         g.cap.body.epoch = hubBox.epoch, Grants!capExpInWindow(g.cap.body.exp, time)
  PROVE  /\ Grants!SetAccessAccepts(e, Grants!AccessOf(g, e))
         /\ Grants!VerifyAccess(Grants!AccessOf(g, e), Grants!EnvDigest(e), hubBox, e.to, time) = "ok"
<1> DEFINE a == Grants!AccessOf(g, e)
           b == g.cap.body
<1>1. /\ Grants!decodeGrant(g) /\ Grants!decodeCapBody(b)
      /\ b.t = Grants!CapType /\ b.owner = "b" /\ b.class \in Grants!Classes
      /\ Grants!PublicOf(g.seed) = b.holder
  BY DEF GrantsInv, KeptOK
<1>2. a.kind = 1 /\ a.cap = g.cap /\ a.proof = <<b.holder, Grants!accessInput(b.id, Grants!EnvDigest(e))>>
  BY <1>1 DEF Grants!AccessOf, Grants!SignAccess
<1>3. Grants!Present(a) /\ Grants!Present(a.proof)
  <2>1. Grants!Present(a.proof)
    BY <1>2 DEF NilIsNoValue, Grants!Present
  <2>2. a = [kind |-> 1, cap |-> g.cap, proof |-> Grants!SignAccess(g.seed, b.id, Grants!EnvDigest(e))]
    BY DEF Grants!AccessOf
  <2> HIDE DEF a
  <2> QED
    BY <2>1, <2>2 DEF NilIsNoValue, Grants!Present
<1>4. Grants!decodeAccess(a)
  BY <1>1, <1>2, <1>3 DEF Grants!decodeAccess, Grants!decodeGrant
<1>5. Grants!SetAccessAccepts(e, a)
  BY <1>4, AccessIs DEF Grants!SetAccessAccepts
<1>6. g.cap.sig = <<hubBox.pub, b>> /\ hubBox.epoch # 0 /\ hubBox.pub \notin {Bad, SmallOrder}
  <2>1. \E i \in issued : i.grant = g
    BY DEF GrantsInv, KeptOK
  <2>2. g.cap.sig = <<hubBox.pub, b>>
    BY <2>1 DEF GrantsInv, IssuedOK, SignedUnder
  <2>3. hubBox.epoch # 0 /\ hubBox.pub \notin {Bad, SmallOrder}
    BY KeysAreKeys DEF GrantsInv, BoxesOK
  <2> QED
    BY <2>2, <2>3
<1>7. e.to = "b"
  BY EnvelopesAssumption
<1>8. /\ Grants!Verifies(g.cap.sig, hubBox.pub, b)
      /\ Grants!Verifies(a.proof, b.holder, Grants!accessInput(b.id, Grants!EnvDigest(e)))
  BY <1>2, <1>6 DEF Grants!Verifies
<1> HIDE DEF a
<1>9. Grants!VerifyAccess(a, Grants!EnvDigest(e), hubBox, e.to, time) = "ok"
  BY <1>1, <1>2, <1>4, <1>6, <1>7, <1>8 DEF Grants!VerifyAccess
<1> QED
  BY <1>5, <1>9 DEF a

\* What Grant.Marshal wrote passes CheckGrant but for the epoch, the expiry and the interaction.
LEMMA MarshalledPasses ==
  ASSUME NilIsNoValue, GrantsInv, NEW l \in letters, l.marshalled, l.from = "b", l.grant.cap.body.owner = "b"
  PROVE  Grants!CheckGrant(l, l.keys, time) \in {"ok", "epoch", "exp", "ix"}
<1> DEFINE g == l.grant
           b == g.cap.body
<1>1. PICK i \in issued : i.grant = g /\ i.marshalled = l.marshalled
  BY DEF GrantsInv, LettersOK
<1>2. Grants!MarshalGrantAccepts(g)
  BY <1>1 DEF GrantsInv, IssuedOK
<1>3. /\ Grants!decodeGrant(g) /\ Grants!decodeCapBody(b)
      /\ b.t = Grants!CapType /\ b.class \in Grants!Classes
      /\ Grants!PublicOf(g.seed) = b.holder /\ Grants!grantPlacement(g) = "ok"
  BY <1>2 DEF Grants!MarshalGrantAccepts, Grants!checkIssue
<1>4. /\ l.keys = [aid |-> "b", mbox |-> l.keys.mbox] /\ l.keys.mbox.epoch # 0
      /\ SignedUnder(g.cap, l.keys.mbox)
      /\ \E n \in Nat \ {0} : l.keys.mbox.pub = <<"mbox", n>>
  BY DEF GrantsInv, LettersOK
<1>5. l.keys # None /\ l.keys.aid = l.from /\ l.keys.mbox.pub \notin {Bad, SmallOrder}
  BY <1>4, KeysAreKeys DEF NilIsNoValue
<1>6. b.epoch = l.keys.mbox.epoch => Grants!Verifies(g.cap.sig, l.keys.mbox.pub, b)
  BY <1>4 DEF SignedUnder, Grants!Verifies
<1> HIDE DEF NilIsNoValue
<1> QED
  BY <1>3, <1>4, <1>5, <1>6 DEF Grants!CheckGrant

\* A grant that Grant.Marshal wrote is kept, and a kept grant lets its holder in, as long as its
\* mailbox epoch and its expiry hold (CheckGrant, SetAccess, VerifyAccess).
THEOREM Usable == ASSUME NilIsNoValue PROVE ServicesSpec => []GrantsWork
<1>1. GrantsInv => Grants!GrantUsable
  BY KeptDelivers DEF Grants!GrantUsable
<1>2. GrantsInv => Grants!MarshalledIsKept
  BY MarshalledPasses DEF Grants!MarshalledIsKept
<1>3. GrantsInv => GrantsWork
  BY <1>1, <1>2 DEF GrantsWork
<1> QED
  BY <1>3, Granted, PTL
-----------------------------------------------------------------------------
(* Task: the inductive invariant. *)

\* Interaction ids are numbered.
AsksNumbered ==
  LET ids == {a.ix : a \in asks}
  IN  IsFiniteSet(ids) /\ \A x \in ids : \E i \in 1..Cardinality(ids) : x = <<"ix", i>>

\* What q asks is its one TaskDoc, and what it asks p is under an id of its own.
AsksOK ==
  \A a \in asks :
    /\ a = [from |-> a.from, to |-> a.to, ix |-> a.ix, doc |-> a.doc, env |-> a.env, day |-> a.day]
    /\ a.from = "q" => a.doc = Tasks!Doc
    /\ a.from = "q" /\ a.to = "p" => \A b \in asks : b.ix = a.ix => b = a

\* p works for what it was asked, and what it completed is such a job.
JobsOK == \A j \in jobs : j \in asks /\ j.to = "p"

DoneOK == \A z \in done : z.job \in jobs

\* A result comes from p, which completed a job with it, or with a KEL of r.
ResultsOK ==
  \A m \in results :
    \/ m.from = "p" /\ \E z \in done : m.ix = z.job.ix /\ m.resp = z.resp
    \/ m.from = "r" /\ Tasks!AIDOf(m.kel) = Tasks!Aid("r")

\* The receipt rc commits to the interaction and the binding of the request ask.
IsFor(rc, ask) ==
  /\ rc.ixc # Bad /\ rc.ixc = Tasks!IXCommit(ask.ix, "nonce")
  /\ rc.rqc # Bad /\ rc.rqc = Tasks!RequesterCommit(Tasks!Aid("q"), Tasks!RSalt)
  /\ rc.rk = Tasks!PublicKey(Tasks!ReviewKey)

\* What q accepted it asked for, and p completed what is credited to p.
AcceptedOK ==
  \A x \in accepted :
    /\ x.ask \in asks /\ x.ask.from = "q" /\ IsFor(x.resp.receipt.body, x.ask)
    /\ x.ask.to = "p" => \E z \in done : z.job = x.ask /\ z.resp = x.resp

\* The inductive invariant.
TasksInv ==
  AsksNumbered /\ AsksOK /\ JobsOK /\ DoneOK /\ ResultsOK /\ AcceptedOK /\ Tasks!ReviewMeant

\* The modules use one Cardinality.
LEMMA OneCardinality == \A S : Tasks!Cardinality(S) = Cardinality(S)
BY Zenon DEF Tasks!Cardinality, Cardinality

-----------------------------------------------------------------------------
(* Task: lemmas on what is checked. *)

\* The names of the task are those of different identities.
LEMMA OthersKEL == Tasks!Aid("r") # Tasks!Aid("p") /\ Tasks!Aid("r") # Tasks!Aid("q")
<1> DEFINE icp(n) == Tasks!inceptWith(<<n, 0>>, <<n, 1>>, 1, Tasks!ToadAgent)
<1>1. \A n : /\ icp(n).kel[1].event.key = <<n, 0>>
             /\ Len(icp(n).kel) = 1
  BY DEF Tasks!inceptWith, Tasks!SignedEvent
<1>2. \A m, n : Tasks!Aid(m) = Tasks!Aid(n) => m = n
  <2>1. \A n : Tasks!Aid(n) = <<"cid", icp(n).kel[1].event>>
    BY DEF Tasks!Aid, Tasks!AIDOf, Tasks!CID
  <2> HIDE DEF icp
  <2>2. ASSUME NEW m, NEW n, Tasks!Aid(m) = Tasks!Aid(n) PROVE m = n
    <3>1. icp(m).kel[1].event = icp(n).kel[1].event
      BY <2>1, <2>2
    <3>2. <<m, 0>> = <<n, 0>>
      BY <3>1, <1>1
    <3> QED
      BY <3>2
  <2> QED
    BY <2>2
<1> QED
  BY <1>2

\* A controller of r, whatever it replaced.
RivalIs(c) ==
  /\ c = [kel |-> c.kel, cur |-> c.cur, hot |-> c.hot, pending |-> c.pending, state |-> c.state]
  /\ c.kel \in Seq({c.kel[i] : i \in DOMAIN c.kel}) /\ Len(c.kel) >= 1
  /\ Tasks!AIDOf(c.kel) = Tasks!Aid("r")

\* An event more leaves it one.
LEMMA RivalAdopts ==
  ASSUME NEW c, RivalIs(c), NEW p, NEW d, d = [c EXCEPT !.pending = p]
  PROVE  RivalIs(Tasks!Adopt(d, None))
<1> DEFINE k == Append(c.kel, p.event)
           e == Tasks!Adopt(d, None)
           S == {c.kel[i] : i \in DOMAIN c.kel} \cup {p.event}
<1>1. /\ d = [kel |-> c.kel, cur |-> c.cur, hot |-> c.hot, pending |-> p, state |-> c.state]
      /\ d.pending = p
  BY DEF RivalIs
<1>2. e = [d EXCEPT !.kel = Append(@, d.pending.event), !.cur = d.pending.revealed, !.hot = None, !.pending = None]
  BY DEF Tasks!Adopt
<1>3. c.kel \in Seq(S)
  BY DEF RivalIs
<1>4. /\ k \in Seq(S) /\ Len(k) = Len(c.kel) + 1 /\ Len(k) \in Nat /\ k[1] = c.kel[1]
      /\ DOMAIN k = 1..Len(k)
  BY <1>3 DEF RivalIs
<1> HIDE DEF k, e
<1>5. e.kel = k /\ e = [kel |-> e.kel, cur |-> e.cur, hot |-> e.hot, pending |-> e.pending, state |-> e.state]
  <2> DEFINE v == p.revealed
  <2>1. d.kel = c.kel /\ Append(c.kel, p.event) = k
    BY <1>1 DEF k
  <2>2. e = [d EXCEPT !.kel = k, !.cur = v, !.hot = None, !.pending = None]
    BY <1>1, <1>2, <2>1
  <2> HIDE DEF v
  <2> QED
    BY <1>1, <2>2
<1>6. k \in Seq({k[i] : i \in DOMAIN k}) /\ Len(k) >= 1
  BY <1>4 DEF RivalIs
<1>7. Tasks!AIDOf(k) = Tasks!AIDOf(c.kel)
  BY <1>4 DEF Tasks!AIDOf
<1> QED
  BY <1>5, <1>6, <1>7 DEF RivalIs, e

\* As r starts.
LEMMA RivalStarts == RivalIs(Tasks!rc)
<1> DEFINE c == Tasks!inceptWith(<<"r", 0>>, <<"r", 1>>, 1, Tasks!ToadAgent)
           d == Tasks!BuildWitnessDesignation(c, "w", Tasks!NextDigest("r", 2), 2)
<1>1. \E e : c.kel = <<e>>
  BY DEF Tasks!inceptWith
<1>2. c = [kel |-> c.kel, cur |-> c.cur, hot |-> c.hot, pending |-> c.pending, state |-> c.state]
  BY DEF Tasks!inceptWith
<1>3. Tasks!Aid("r") = Tasks!AIDOf(c.kel)
  BY DEF Tasks!Aid
<1>4. Tasks!rc = Tasks!Adopt(d, None)
  BY DEF Tasks!rc, Tasks!Controlled
<1> HIDE DEF c
<1>5. RivalIs(c)
  <2>1. c.kel \in Seq({c.kel[i] : i \in DOMAIN c.kel}) /\ Len(c.kel) >= 1
    BY <1>1
  <2> QED
    BY <1>2, <1>3, <2>1 DEF RivalIs
<1>6. \E x : d = [c EXCEPT !.pending = x]
  BY Zenon DEF Tasks!BuildWitnessDesignation, Tasks!buildLocked
<1> HIDE DEF d
<1> QED
  BY <1>4, <1>5, <1>6, RivalAdopts

\* What q's TaskDoc binds.
LEMMA Binding ==
  Tasks!ReadTaskBinding(Tasks!Doc)
    = [ nonce |-> "nonce", rqc |-> Tasks!RequesterCommit(Tasks!Aid("q"), Tasks!RSalt),
        rk |-> Tasks!PublicKey(Tasks!ReviewKey) ]
<1> DEFINE rqc == Tasks!RequesterCommit(Tasks!Aid("q"), Tasks!RSalt)
           rk  == Tasks!PublicKey(Tasks!ReviewKey)
           cs  == << Tasks!Context("anet.nonce", "nonce"), Tasks!Context("anet.requester_commit", rqc),
                     Tasks!Context("anet.review_key", rk) >>
           S   == {cs[i] : i \in DOMAIN cs}
<1>1. Tasks!Doc.contexts = cs
  BY DEF Tasks!Doc, Tasks!Contexts
<1> HIDE DEF rqc, rk
<1>2. /\ \A k, v : Tasks!Context(k, v).key = k /\ Tasks!Context(k, v).value = v
  BY DEF Tasks!Context
<1>3. S = { Tasks!Context("anet.nonce", "nonce"), Tasks!Context("anet.requester_commit", rqc),
            Tasks!Context("anet.review_key", rk) }
  OBVIOUS
<1>4. \A k : Tasks!ContextValue(Tasks!Doc, k) = (CHOOSE c \in S : c.key = k).value
  BY <1>1, Zenon DEF Tasks!ContextValue
<1> HIDE DEF S, cs
<1>5. ASSUME NEW k, NEW c \in S, c.key = k, \A d \in S : d.key = k => d = c
      PROVE  Tasks!ContextValue(Tasks!Doc, k) = c.value
  <2>1. (CHOOSE d \in S : d.key = k) = c
    BY <1>5
  <2> QED
    BY <2>1, <1>4
<1>6. Tasks!ContextValue(Tasks!Doc, "anet.nonce") = "nonce"
  BY <1>2, <1>3, <1>5
<1>7. Tasks!ContextValue(Tasks!Doc, "anet.requester_commit") = rqc
  BY <1>2, <1>3, <1>5
<1>8. Tasks!ContextValue(Tasks!Doc, "anet.review_key") = rk
  BY <1>2, <1>3, <1>5
<1> QED
  BY <1>6, <1>7, <1>8 DEF Tasks!ReadTaskBinding, rqc, rk

\* A result that q accepts for a request of its own is from the provider it asked, and is for
\* this request.
LEMMA CheckedResult ==
  ASSUME NEW a, a.doc = Tasks!Doc, NEW m, NEW today,
         Tasks!VerifyResultForRequest(m.resp, m.kel, Tasks!Want(a), today, m.ts) = "ok"
  PROVE  IsFor(m.resp.receipt.body, a) /\ Tasks!AIDOf(m.kel) = Tasks!Aid(a.to)
<1> DEFINE w  == m.resp.receipt
           rc == m.resp.receipt.body
           want == Tasks!Want(a)
           b  == Tasks!ReadTaskBinding(want.doc)
<1>1. Tasks!VerifyReceipt(w, m.kel, m.ts) /\ Tasks!ReceiptIsFor(rc, b, want, m.resp.deliverable) = "ok"
  BY DEF Tasks!VerifyResultForRequest
<1>2. want.doc = Tasks!Doc /\ want.ix = a.ix /\ want.provider = Tasks!Aid(a.to)
  BY DEF Tasks!Want
<1>3. b.nonce = "nonce" /\ b.rqc = Tasks!RequesterCommit(Tasks!Aid("q"), Tasks!RSalt)
      /\ b.rk = Tasks!PublicKey(Tasks!ReviewKey)
  BY <1>2, Binding
<1> HIDE DEF want, b
<1>4. /\ rc.provider = want.provider /\ rc.ixc = Tasks!IXCommit(want.ix, b.nonce)
      /\ rc.rqc = b.rqc /\ rc.rk = b.rk
  BY <1>1 DEF Tasks!ReceiptIsFor
<1>5. rc.ixc # Bad /\ rc.rqc # Bad /\ w.env.aid = rc.provider
  BY <1>1 DEF Tasks!VerifyReceipt, Tasks!UnmarshalReceiptWire, Tasks!checkReceipt, Tasks!sizedField
<1>6. Tasks!VerifyBody(m.kel, w.env, m.ts, rc)
  BY <1>1 DEF Tasks!VerifyReceipt
<1>7. Tasks!AIDOf(m.kel) = w.env.aid
  BY <1>6 DEF Tasks!VerifyBody, Tasks!VerifyObject
<1> QED
  BY <1>2, <1>3, <1>4, <1>5, <1>7 DEF IsFor
-----------------------------------------------------------------------------
(* Task: the steps. *)

\* Nothing is asked for at first.
LEMMA InitTasks == ServicesInit => TasksInv
<1> SUFFICES ASSUME ServicesInit PROVE TasksInv
  OBVIOUS
<1>1. asks = {} /\ jobs = {} /\ done = {} /\ results = {} /\ accepted = {} /\ stored = {}
  BY Zenon DEF ServicesInit, Tasks!Init, NoTasks
<1>2. {a.ix : a \in asks} = {}
  BY <1>1
<1>3. AsksNumbered
  BY <1>2, FS_EmptySet DEF AsksNumbered
<1> QED
  BY <1>1, <1>3 DEF TasksInv, AsksOK, JobsOK, DoneOK, ResultsOK, AcceptedOK, Tasks!ReviewMeant

\* A request under a new interaction id.
LEMMA NewAsk ==
  ASSUME TasksInv, NEW from, NEW to, NEW doc, NEW env, NEW day, from = "q" => doc = Tasks!Doc,
         asks' = asks \cup {[from |-> from, to |-> to, ix |-> Tasks!NewIx, doc |-> doc, env |-> env, day |-> day]},
         UNCHANGED <<jobs, done, results, accepted, stored>>
  PROVE  TasksInv'
<1> DEFINE ids == {a.ix : a \in asks}
           n   == Cardinality(ids)
           new == [from |-> from, to |-> to, ix |-> Tasks!NewIx, doc |-> doc, env |-> env, day |-> day]
           x   == <<"ix", n + 1>>
<1>1. Tasks!NewIx = x
  BY OneCardinality, Zenon DEF Tasks!NewIx
<1>2. /\ IsFiniteSet(ids) /\ n \in Nat
      /\ \A y \in ids : \E i \in 1..n : y = <<"ix", i>>
  BY FS_CardinalityType DEF TasksInv, AsksNumbered
<1> HIDE DEF n
<1>3. x \notin ids
  BY <1>2
<1>4. /\ new.ix = x /\ new.from = from /\ new.doc = doc /\ asks' = asks \cup {new}
      /\ new = [from |-> new.from, to |-> new.to, ix |-> new.ix, doc |-> new.doc, env |-> new.env, day |-> new.day]
  BY <1>1
<1> HIDE DEF new
<1>5. ids' = ids \cup {x}
  BY <1>4
<1>6. AsksNumbered'
  <2>1. IsFiniteSet(ids \cup {x}) /\ Cardinality(ids \cup {x}) = n + 1
    BY <1>2, <1>3, FS_AddElement DEF n
  <2>2. \A y \in ids \cup {x} : \E i \in 1 .. n + 1 : y = <<"ix", i>>
    BY <1>2
  <2> HIDE DEF ids, x
  <2> QED
    BY <1>5, <2>1, <2>2 DEF AsksNumbered, ids
<1>7. AsksOK'
  <2>1. \A a \in asks : a.ix \in ids
    OBVIOUS
  <2>2. \A a \in asks : a.ix # new.ix
    BY <1>3, <1>4, <2>1
  <2> QED
    BY <1>4, <2>2 DEF TasksInv, AsksOK
<1>8. JobsOK' /\ DoneOK' /\ ResultsOK' /\ AcceptedOK' /\ (Tasks!ReviewMeant)'
  BY <1>4 DEF TasksInv, JobsOK, DoneOK, ResultsOK, AcceptedOK, Tasks!ReviewMeant
<1> QED
  BY <1>6, <1>7, <1>8 DEF TasksInv

\* A request passed on keeps its interaction id; only one that went to r is.
LEMMA PassOnInv == ASSUME TasksInv, NEW a \in asks, Tasks!PassOn(a) PROVE TasksInv'
<1> DEFINE b   == [a EXCEPT !.from = "r", !.to = "p"]
           ids == {c.ix : c \in asks}
<1>1. asks' = asks \cup {b} /\ a.to = "r" /\ UNCHANGED <<jobs, done, results, accepted, stored>>
  BY DEF Tasks!PassOn
<1>2. /\ b.ix = a.ix /\ b.from = "r"
      /\ b = [from |-> b.from, to |-> b.to, ix |-> b.ix, doc |-> b.doc, env |-> b.env, day |-> b.day]
  <2>1. a = [from |-> a.from, to |-> a.to, ix |-> a.ix, doc |-> a.doc, env |-> a.env, day |-> a.day]
    BY DEF TasksInv, AsksOK
  <2>2. b = [a EXCEPT !.from = "r", !.to = "p"]
    OBVIOUS
  <2> HIDE DEF b
  <2> QED
    BY <2>1, <2>2
<1> HIDE DEF b
<1>3. AsksNumbered'
  <2>1. ids' = ids
    BY <1>1, <1>2
  <2> HIDE DEF ids
  <2> QED
    BY <2>1 DEF TasksInv, AsksNumbered, ids
<1>4. AsksOK'
  BY <1>1, <1>2 DEF TasksInv, AsksOK
<1>5. JobsOK' /\ DoneOK' /\ ResultsOK' /\ AcceptedOK' /\ (Tasks!ReviewMeant)'
  BY <1>1 DEF TasksInv, JobsOK, DoneOK, ResultsOK, AcceptedOK, Tasks!ReviewMeant
<1> QED
  BY <1>3, <1>4, <1>5 DEF TasksInv

\* p takes what it was asked (receive step 9).
LEMMA TakeTaskInv == ASSUME TasksInv, NEW a \in asks, Tasks!TakeTask(a) PROVE TasksInv'
<1>1. /\ a.to = "p" /\ jobs' = jobs \cup {a}
      /\ UNCHANGED <<asks, done, results, accepted, stored>>
  BY DEF Tasks!TakeTask
<1> QED
  BY <1>1 DEF TasksInv, AsksNumbered, AsksOK, JobsOK, DoneOK, ResultsOK, AcceptedOK, Tasks!ReviewMeant

\* A completion is of a job.
LEMMA CompleteInv == ASSUME TasksInv, NEW j \in jobs, NEW d, Tasks!Complete(j, d) PROVE TasksInv'
<1>1. /\ \E r : done' = done \cup {[job |-> j, resp |-> r]}
      /\ UNCHANGED <<asks, jobs, results, accepted, stored>>
  BY Zenon DEF Tasks!Complete
<1>2. PICK r : done' = done \cup {[job |-> j, resp |-> r]}
  BY <1>1
<1> DEFINE z == [job |-> j, resp |-> r]
<1>3. done' = done \cup {z} /\ z.job = j
  BY <1>2
<1> HIDE DEF z
<1>4. AsksNumbered' /\ AsksOK' /\ JobsOK' /\ DoneOK' /\ (Tasks!ReviewMeant)'
  BY <1>1, <1>3 DEF TasksInv, AsksNumbered, AsksOK, JobsOK, DoneOK, Tasks!ReviewMeant
<1>5. ResultsOK' /\ AcceptedOK'
  BY <1>1, <1>3 DEF TasksInv, ResultsOK, AcceptedOK
<1> QED
  BY <1>4, <1>5 DEF TasksInv

\* p sends what it completed.
LEMMA SendResultInv == ASSUME TasksInv, NEW z \in done, Tasks!SendResult(z) PROVE TasksInv'
<1>1. /\ \E m : results' = results \cup {m} /\ m.from = "p" /\ m.ix = z.job.ix /\ m.resp = z.resp
      /\ UNCHANGED <<asks, jobs, done, accepted, stored>>
  BY DEF Tasks!SendResult
<1>2. ResultsOK'
  BY <1>1 DEF TasksInv, ResultsOK
<1> QED
  BY <1>1, <1>2 DEF TasksInv, AsksNumbered, AsksOK, JobsOK, DoneOK, AcceptedOK, Tasks!ReviewMeant

\* What r sends comes with a KEL of r.
LEMMA ForgeInv == ASSUME TasksInv, RivalIs(rival), NEW a \in asks, Tasks!Forge(a) PROVE TasksInv'
<1>1. /\ \E n \in 2..Len(rival.kel) : \E resp : results' = results \cup
           {[from |-> "r", kel |-> SubSeq(rival.kel, 1, n), ts |-> now, ix |-> a.ix, resp |-> resp]}
      /\ UNCHANGED <<asks, jobs, done, accepted, stored>>
  BY Zenon DEF Tasks!Forge
<1>2. PICK n \in 2..Len(rival.kel) : \E resp : results' = results \cup
         {[from |-> "r", kel |-> SubSeq(rival.kel, 1, n), ts |-> now, ix |-> a.ix, resp |-> resp]}
  BY <1>1
<1>3. PICK resp : results' = results \cup
         {[from |-> "r", kel |-> SubSeq(rival.kel, 1, n), ts |-> now, ix |-> a.ix, resp |-> resp]}
  BY <1>2
<1> DEFINE m == [from |-> "r", kel |-> SubSeq(rival.kel, 1, n), ts |-> now, ix |-> a.ix, resp |-> resp]
<1>4. Tasks!AIDOf(SubSeq(rival.kel, 1, n)) = Tasks!Aid("r")
  <2>1. SubSeq(rival.kel, 1, n)[1] = rival.kel[1]
    BY DEF RivalIs
  <2> QED
    BY <2>1 DEF RivalIs, Tasks!AIDOf
<1>5. ResultsOK'
  <2>1. results' = results \cup {m} /\ m.from = "r" /\ Tasks!AIDOf(m.kel) = Tasks!Aid("r")
    BY <1>3, <1>4
  <2> HIDE DEF m
  <2> QED
    BY <1>1, <2>1 DEF TasksInv, ResultsOK
<1> QED
  BY <1>1, <1>5 DEF TasksInv, AsksNumbered, AsksOK, JobsOK, DoneOK, AcceptedOK, Tasks!ReviewMeant

\* q accepts what was asked for, and from p only what p completed for this request.
LEMMA TakeResultInv ==
  ASSUME TasksInv, NEW m \in results, NEW a \in asks, Tasks!TakeResult(m, a)
  PROVE  TasksInv'
<1> DEFINE good == Tasks!VerifyResultForRequest(m.resp, m.kel, Tasks!Want(a), Tasks!Day(now), m.ts) = "ok"
           new  == [ask |-> a, resp |-> m.resp]
<1>1. /\ a.from = "q" /\ a.ix = m.ix /\ results' = results \ {m}
      /\ accepted' = accepted \/ (good /\ accepted' = accepted \cup {new})
      /\ UNCHANGED <<asks, jobs, done, stored>>
  BY DEF Tasks!TakeResult
<1>2. ASSUME good
      PROVE  /\ IsFor(m.resp.receipt.body, a)
             /\ a.to = "p" => \E z \in done : z.job = a /\ z.resp = m.resp
  <2>1. a.doc = Tasks!Doc
    BY <1>1 DEF TasksInv, AsksOK
  <2>2. IsFor(m.resp.receipt.body, a) /\ Tasks!AIDOf(m.kel) = Tasks!Aid(a.to)
    BY <1>2, <2>1, CheckedResult
  <2>3. ASSUME a.to = "p" PROVE \E z \in done : z.job = a /\ z.resp = m.resp
    <3>1. ~(m.from = "r" /\ Tasks!AIDOf(m.kel) = Tasks!Aid("r"))
      BY <2>2, <2>3, OthersKEL
    <3>2. PICK z \in done : m.ix = z.job.ix /\ m.resp = z.resp
      BY <3>1 DEF TasksInv, ResultsOK
    <3>3. z.job \in asks
      BY DEF TasksInv, DoneOK, JobsOK
    <3>4. z.job = a
      BY <1>1, <2>3, <3>2, <3>3 DEF TasksInv, AsksOK
    <3> QED
      BY <3>2, <3>4
  <2> QED
    BY <2>2, <2>3
<1> HIDE DEF good
<1>3. AcceptedOK'
  <2>1. new.ask = a /\ new.resp = m.resp
    OBVIOUS
  <2> HIDE DEF new
  <2> QED
    BY <1>1, <1>2, <2>1 DEF TasksInv, AcceptedOK
<1>4. (Tasks!ReviewMeant)'
  BY <1>1 DEF TasksInv, Tasks!ReviewMeant
<1> QED
  BY <1>1, <1>3, <1>4 DEF TasksInv, AsksNumbered, AsksOK, JobsOK, DoneOK, ResultsOK

\* The hub stores a review of the requester for the receipt it came with, and of no other.
LEMMA StoreInv == ASSUME TasksInv, NEW u, NEW rsalt, Tasks!Store(u, rsalt) PROVE TasksInv'
<1>1. /\ \E p \in Tasks!Uploads : \E att :
           /\ Tasks!Admissible(u, rsalt, p[1], p[2])
           /\ stored' = {[uploader |-> u, receipt |-> p[1], review |-> p[2], att |-> att]}
      /\ UNCHANGED <<asks, jobs, done, results, accepted>>
  BY Zenon DEF Tasks!Store
<1>a. PICK up \in Tasks!Uploads : \E att :
        /\ Tasks!Admissible(u, rsalt, up[1], up[2])
        /\ stored' = {[uploader |-> u, receipt |-> up[1], review |-> up[2], att |-> att]}
  BY <1>1
<1> DEFINE receipt == up[1]
           review  == up[2]
<1>b. PICK x \in accepted : receipt = x.resp.receipt
  <2>1. \E x \in accepted : \E rev : up = <<x.resp.receipt, rev>>
    BY DEF Tasks!Uploads
  <2> QED
    BY <2>1
<1>2. /\ Tasks!Admissible(u, rsalt, receipt, review)
      /\ \E att : stored' = {[uploader |-> u, receipt |-> receipt, review |-> review, att |-> att]}
  BY <1>a
<1> HIDE DEF receipt, review
<1>3. /\ Tasks!CheckV2(receipt, review, Tasks!ProviderKel(receipt.body.provider))
      /\ Tasks!RequesterCommit(u, rsalt) = receipt.body.rqc
  BY <1>2, Zenon DEF Tasks!Admissible
<1>4. review.body.receipt = Tasks!CID(receipt.body) /\ review.pub = receipt.body.rk
  BY <1>3 DEF Tasks!CheckV2, Tasks!VerifyReview
<1>5. IsFor(receipt.body, x.ask)
  BY <1>b DEF TasksInv, AcceptedOK
<1>6. u = Tasks!Aid("q")
  BY <1>3, <1>5 DEF IsFor, Tasks!RequesterCommit
<1>7. (Tasks!ReviewMeant)'
  <2>1. PICK att : stored' = {[uploader |-> u, receipt |-> receipt, review |-> review, att |-> att]}
    BY <1>2
  <2>2. review.pub = Tasks!PublicKey(Tasks!ReviewKey)
    BY <1>4, <1>5 DEF IsFor
  <2>3. accepted' = accepted
    BY <1>1
  <2> QED
    BY <1>b, <1>4, <1>6, <2>1, <2>2, <2>3 DEF Tasks!ReviewMeant
<1>8. AcceptedOK' /\ ResultsOK'
  BY <1>1 DEF TasksInv, AcceptedOK, ResultsOK
<1> QED
  BY <1>1, <1>7, <1>8 DEF TasksInv, AsksNumbered, AsksOK, JobsOK, DoneOK

\* Every step.
LEMMA NextTasks ==
  ASSUME TasksInv, (RivalIs(rival) /\ Tasks!Next) \/ UNCHANGED taskVars
  PROVE  TasksInv'
<1>1. CASE Tasks!Tick \/ Tasks!Rotate \/ Tasks!RotateRival \/ Tasks!RotateHub \/ UNCHANGED taskVars
  <2>1. UNCHANGED <<asks, jobs, done, results, accepted, stored>>
    BY <1>1 DEF Tasks!Tick, Tasks!Rotate, Tasks!RotateRival, Tasks!RotateHub, taskVars
  <2>2. AsksNumbered' /\ AsksOK' /\ JobsOK' /\ DoneOK'
    BY <2>1 DEF TasksInv, AsksNumbered, AsksOK, JobsOK, DoneOK
  <2>3. ResultsOK' /\ AcceptedOK' /\ (Tasks!ReviewMeant)'
    BY <2>1 DEF TasksInv, ResultsOK, AcceptedOK, Tasks!ReviewMeant
  <2> QED
    BY <2>2, <2>3 DEF TasksInv
<1>2. ASSUME NEW to, Tasks!Delegate(to) PROVE TasksInv'
  <2>1. /\ \E env, day : asks' = asks \cup
             {[from |-> "q", to |-> to, ix |-> Tasks!NewIx, doc |-> Tasks!Doc, env |-> env, day |-> day]}
        /\ UNCHANGED <<jobs, done, results, accepted, stored>>
    BY <1>2, Zenon DEF Tasks!Delegate, Tasks!Ask
  <2> QED
    BY <2>1, NewAsk
<1>3. ASSUME NEW doc, Tasks!Foreign(doc) PROVE TasksInv'
  <2>1. /\ \E env, day : asks' = asks \cup
             {[from |-> "r", to |-> "p", ix |-> Tasks!NewIx, doc |-> doc, env |-> env, day |-> day]}
        /\ UNCHANGED <<jobs, done, results, accepted, stored>>
    BY <1>3, Zenon DEF Tasks!Foreign, Tasks!Ask
  <2> QED
    BY <2>1, NewAsk
<1>4. \/ Tasks!Tick \/ Tasks!Rotate \/ Tasks!RotateRival \/ Tasks!RotateHub \/ UNCHANGED taskVars
      \/ \E to : Tasks!Delegate(to)
      \/ \E doc : Tasks!Foreign(doc)
      \/ \E a \in asks : Tasks!PassOn(a) \/ Tasks!TakeTask(a) \/ Tasks!Forge(a)
      \/ \E j \in jobs : \E d : Tasks!Complete(j, d)
      \/ \E z \in done : Tasks!SendResult(z)
      \/ \E m \in results, a \in asks : Tasks!TakeResult(m, a)
      \/ \E u, rsalt : Tasks!Store(u, rsalt)
  BY Zenon DEF Tasks!Next
<1> QED
  BY <1>1, <1>2, <1>3, <1>4, PassOnInv, TakeTaskInv, ForgeInv, CompleteInv, SendResultInv, TakeResultInv, StoreInv

\* r is always one of its own controllers.
RivalOK == part = "tasks" => RivalIs(rival)

LEMMA NextRival == ASSUME RivalIs(rival), Tasks!Next PROVE RivalIs(rival')
<1>1. rival' = rival \/ Tasks!RotateRival
  <2>1. ASSUME Tasks!Tick \/ Tasks!Rotate \/ Tasks!RotateHub PROVE rival' = rival
    BY <2>1 DEF Tasks!Tick, Tasks!Rotate, Tasks!RotateHub
  <2>2. ASSUME NEW x, Tasks!Delegate(x) \/ Tasks!Foreign(x) \/ Tasks!PassOn(x) \/ Tasks!TakeTask(x) PROVE rival' = rival
    BY <2>2 DEF Tasks!Delegate, Tasks!Foreign, Tasks!PassOn, Tasks!TakeTask
  <2>3. ASSUME NEW x, Tasks!Forge(x) \/ Tasks!SendResult(x) PROVE rival' = rival
    BY <2>3 DEF Tasks!Forge, Tasks!SendResult
  <2>4. ASSUME NEW x, NEW y, Tasks!Complete(x, y) \/ Tasks!TakeResult(x, y) \/ Tasks!Store(x, y) PROVE rival' = rival
    BY <2>4 DEF Tasks!Complete, Tasks!TakeResult, Tasks!Store
  <2> QED
    BY <2>1, <2>2, <2>3, <2>4, Zenon DEF Tasks!Next
<1>2. ASSUME Tasks!RotateRival PROVE RivalIs(rival')
  <2>1. PICK ts : rival' = Tasks!rotated(rival, "r", ts)
    BY <1>2, Zenon DEF Tasks!RotateRival
  <2>2. \E d : rival' = Tasks!Adopt(d, None) /\ \E x : d = [rival EXCEPT !.pending = x]
    BY <2>1, Zenon DEF Tasks!rotated, Tasks!BuildRotation, Tasks!buildLocked
  <2> QED
    BY <2>2, RivalAdopts
<1> QED
  BY <1>1, <1>2

-----------------------------------------------------------------------------
(* Task: the theorems. *)

\* In every behaviour of the services the invariant of the tasks holds.
THEOREM Delegated == ServicesSpec => []TasksInv
<1>1. ServicesInit => RivalOK
  BY RivalStarts DEF ServicesInit, Tasks!Init, RivalOK
<1>2. [ServicesNext]_allVars => part' = part /\ ((part = "tasks" /\ Tasks!Next) \/ UNCHANGED taskVars)
  BY DEF ServicesNext, allVars, taskVars
<1>3. RivalOK /\ [ServicesNext]_allVars => RivalOK'
  BY <1>2, NextRival DEF RivalOK, taskVars
<1>4. TasksInv /\ RivalOK /\ [ServicesNext]_allVars => TasksInv'
  BY <1>2, NextTasks DEF RivalOK
<1> QED
  BY InitTasks, <1>1, <1>3, <1>4, PTL DEF ServicesSpec

\* A receipt pays for one piece of work, p is credited with what it completed only, and a stored
\* review is the requester's, of this receipt (VerifyResultForRequest, CheckV2).
THEOREM Belongs == ServicesSpec => []EvidenceBelongs
<1>1. TasksInv => EvidenceBelongs
  <2> SUFFICES ASSUME TasksInv PROVE Tasks!ResultBelongs
    BY DEF TasksInv, EvidenceBelongs
  <2>1. ASSUME NEW x \in accepted, NEW y \in accepted, x.resp.receipt.body = y.resp.receipt.body
        PROVE  x.ask.ix = y.ask.ix
    <3>1. IsFor(x.resp.receipt.body, x.ask) /\ IsFor(x.resp.receipt.body, y.ask)
      BY <2>1 DEF TasksInv, AcceptedOK
    <3> QED
      BY <3>1 DEF IsFor, Tasks!IXCommit
  <2>2. \A x \in accepted : x.ask.to = "p" => \E z \in done : z.job = x.ask /\ z.resp = x.resp
    BY DEF TasksInv, AcceptedOK
  <2> QED
    BY <2>1, <2>2 DEF Tasks!ResultBelongs
<1> QED
  BY <1>1, Delegated, PTL
-----------------------------------------------------------------------------
(* Task and Payment: lemmas on KELs and what is signed. *)

\* None, Bad and Nul are no value these parts build, and the witness's name is no id.
NilIsNoObject ==
  /\ Bad # None /\ None \notin {"w", "long"}
  /\ \A x, y : <<x, y>> \notin {None, Nul, Bad, "w"}
  /\ \A x, y, z : <<x, y, z>> \notin {None, Bad}
  /\ \A aid, seq, sig, ref : [aid |-> aid, seq |-> seq, sig |-> sig, ref |-> ref] \notin {None, Bad}
  /\ \A body, env : [body |-> body, env |-> env] \notin {None, Bad}
  /\ \A t, ixc, rqc, rk, prv, req, res, day :
       [ type |-> t, ixc |-> ixc, rqc |-> rqc, rk |-> rk, provider |-> prv, request |-> req, result |-> res,
         day |-> day ] # Bad

\* A KEL of aid, which aid goes on with.
IsKEL(kel, aid) ==
  /\ kel \in Seq({kel[i] : i \in DOMAIN kel})
  /\ Payments!Replays(kel) /\ Payments!AIDOf(kel) = aid
  /\ \A i \in 1..Len(kel) :
       kel[i].event.seq = i - 1 /\ kel[i].event.type # "dip" /\ kel[i].event.ts \in Int

\* A controller of aid whose every event was accepted.
Kept(c, aid) ==
  /\ c = [kel |-> c.kel, cur |-> c.cur, hot |-> c.hot, pending |-> c.pending, state |-> c.state]
  /\ c.pending = None
  /\ IsKEL(c.kel, aid)
  /\ c.cur = c.kel[Len(c.kel)].event.key

\* aid signed w under its n-th event.
SignedAt(w, n, kel, aid) ==
  w.env = [aid |-> aid, seq |-> n - 1, sig |-> <<kel[n].event.key, w.body>>, ref |-> None]

\* A holder's controller as it starts: the icp and the designation of its witness.
LEMMA HolderKept ==
  ASSUME NilIsNoObject, NEW name
  PROVE  LET c == Payments!Holder(name)
         IN  /\ Kept(c, Payments!HolderAID(name))
             /\ Len(c.kel) = 2 /\ \A i \in 1..Len(c.kel) : c.kel[i].event.ts <= 2
<1> DEFINE c == Payments!inceptWith(<<name, 0>>, <<name, 1>>, 1, Payments!ToadAgent)
           e1 == c.kel[1].event
           d  == Payments!BuildWitnessDesignation(c, "w", Payments!NextDigest(name, 2), 2)
           ev == d.pending.event
           h  == Payments!Holder(name)
<1>1. /\ c = [kel |-> c.kel, cur |-> c.cur, hot |-> c.hot, pending |-> c.pending, state |-> c.state]
      /\ c.kel = <<c.kel[1]>> /\ c.hot = <<name, 1>> /\ c.pending = None
      /\ c.kel[1] = Payments!SignedEvent(e1, e1.key)
  BY DEF Payments!inceptWith, Payments!SignedEvent
<1>2. /\ e1.type = "icp" /\ e1.aid = None /\ e1.seq = 0 /\ e1.prev = None /\ e1.key = <<name, 0>>
      /\ e1.next = Payments!nextDigest(<<name, 1>>) /\ e1.toad = Payments!ToadAgent /\ e1.witness = None
      /\ e1.emergency = FALSE /\ e1.ts = 1
  BY DEF Payments!inceptWith, Payments!SignedEvent
<1>3. Payments!HolderAID(name) = Payments!CID(e1)
  BY DEF Payments!HolderAID, Payments!AIDOf
<1>h. h = Payments!Adopt(d, None)
  BY DEF Payments!Holder
<1> HIDE DEF c, e1, h
<1>4. PICK m : m = Payments!Material("witness", c.hot, Payments!NextDigest(name, 2), FALSE)
  OBVIOUS
<1>5. d = [c EXCEPT !.pending = [m EXCEPT !.event = Payments!buildEvent(c.kel, m, "w", 2)]]
  BY <1>4, Zenon DEF Payments!BuildWitnessDesignation, Payments!buildLocked
<1>6. /\ m = [kind |-> "witness", revealed |-> c.hot, next |-> Payments!NextDigest(name, 2), emergency |-> FALSE, event |-> None]
  BY <1>4 DEF Payments!Material
<1> DEFINE be == Payments!buildEvent(c.kel, m, "w", 2)
<1>7. /\ be = Payments!SignedEvent(be.event, be.event.key)
      /\ be.event.type = "rot" /\ be.event.aid = Payments!CID(e1) /\ be.event.seq = 1
      /\ be.event.prev = Payments!CID(e1) /\ be.event.key = <<name, 1>>
      /\ be.event.next = Payments!NextDigest(name, 2) /\ be.event.toad = Payments!ToadAgent
      /\ be.event.witness = "w" /\ be.event.ts = 2
  <2>1. /\ m.kind = "witness" /\ m.revealed = <<name, 1>> /\ m.next = Payments!NextDigest(name, 2)
        /\ m.emergency = FALSE
    BY <1>1, <1>6
  <2>2. /\ Payments!last(c.kel) = e1 /\ Payments!AIDOf(c.kel) = Payments!CID(e1)
        /\ Payments!toadLocked(c.kel) = Payments!ToadAgent
    BY <1>1, <1>2 DEF Payments!last, Payments!AIDOf, Payments!toadLocked, e1
  <2>3. be = Payments!SignedEvent(
        [ type |-> "rot", aid |-> Payments!CID(e1), seq |-> 1, prev |-> Payments!CID(e1), key |-> <<name, 1>>,
          next |-> Payments!NextDigest(name, 2), toad |-> Payments!ToadAgent, witness |-> "w",
          emergency |-> TRUE /\ m.emergency, ts |-> 2 ], <<name, 1>>)
    BY <2>1, <2>2, <1>2 DEF Payments!buildEvent
  <2> HIDE DEF be
  <2> QED
    BY <2>3 DEF Payments!SignedEvent
<1> HIDE DEF be
<1>8. /\ d.kel = c.kel /\ d.pending.event = be /\ d.pending.revealed = <<name, 1>>
      /\ d = [kel |-> d.kel, cur |-> d.cur, hot |-> d.hot, pending |-> d.pending, state |-> d.state]
  <2> DEFINE p == [m EXCEPT !.event = be]
  <2>1. p.event = be /\ p.revealed = <<name, 1>>
    BY <1>1, <1>6
  <2>2. d = [c EXCEPT !.pending = p]
    BY <1>5 DEF be
  <2> HIDE DEF p, d
  <2> QED
    BY <1>1, <2>1, <2>2
<1> HIDE DEF d
<1>9. /\ h = [kel |-> h.kel, cur |-> h.cur, hot |-> h.hot, pending |-> h.pending, state |-> h.state]
      /\ h.kel = Append(c.kel, be) /\ h.cur = <<name, 1>> /\ h.pending = None
  <2>1. h = [d EXCEPT !.kel = Append(@, d.pending.event), !.cur = d.pending.revealed, !.hot = None, !.pending = None]
    BY <1>h DEF Payments!Adopt
  <2> QED
    BY <1>8, <2>1
<1>10. c.kel \in Seq({c.kel[1], be}) /\ Len(c.kel) = 1
  <2>1. \A x : <<x>> \in Seq({x, be}) /\ Len(<<x>>) = 1
    OBVIOUS
  <2>2. <<c.kel[1]>> \in Seq({c.kel[1], be}) /\ Len(<<c.kel[1]>>) = 1
    BY <2>1
  <2> QED
    BY <1>1, <2>2
<1>11. /\ Len(h.kel) = 2 /\ h.kel[1] = c.kel[1] /\ h.kel[2] = be /\ DOMAIN h.kel = 1..2
       /\ h.kel \in Seq({h.kel[i] : i \in DOMAIN h.kel})
  <2>1. /\ Len(h.kel) = 2 /\ h.kel[1] = c.kel[1] /\ h.kel[2] = be /\ DOMAIN h.kel = 1..2
        /\ h.kel \in Seq({c.kel[1], be})
    BY <1>9, <1>10
  <2>2. h.kel \in [1..2 -> {h.kel[i] : i \in DOMAIN h.kel}]
    BY <2>1
  <2> QED
    BY <2>1, <2>2
<1>12. Payments!Replays(h.kel)
  <2>1. Payments!checkInception(e1)
    BY <1>2 DEF NilIsNoObject, Payments!checkInception, Payments!checkShape, Payments!nextDigest,
                Payments!ToadAgent, Payments!ToadHub
  <2>2. Payments!checkShape(be.event)
    BY <1>7 DEF NilIsNoObject, Payments!checkShape
  <2>3. Payments!checkRotation(be.event, Payments!CID(e1), e1.toad)
    BY <1>2, <1>7 DEF NilIsNoObject, Payments!checkRotation, Payments!NextDigest, Payments!nextDigest, Payments!CID,
                      Payments!ToadAgent, Payments!ToadHub
  <2>4. Payments!Follows(e1, e1, be.event)
    BY <1>2, <1>7, <2>2, <2>3 DEF Payments!Follows
  <2>5. c.kel[1].signer = e1.key /\ be.signer = be.event.key
    BY <1>1, <1>7 DEF Payments!SignedEvent
  <2> QED
    BY <1>11, <2>1, <2>4, <2>5 DEF Payments!Replays, e1
<1>13. \A i \in 1..Len(h.kel) : /\ h.kel[i].event.seq = i - 1 /\ h.kel[i].event.type # "dip"
                                /\ h.kel[i].event.ts \in Int /\ h.kel[i].event.ts <= 2
  BY <1>2, <1>7, <1>11 DEF e1
<1>14. Payments!AIDOf(h.kel) = Payments!HolderAID(name)
  BY <1>3, <1>11 DEF Payments!AIDOf, e1
<1>15. h.cur = h.kel[Len(h.kel)].event.key
  BY <1>7, <1>9, <1>11
<1>16. Kept(h, Payments!HolderAID(name))
  BY <1>9, <1>11, <1>12, <1>13, <1>14, <1>15 DEF Kept, IsKEL
<1> QED
  BY <1>11, <1>13, <1>16 DEF h

\* A replacement of the key at t, for its own witness.
Replaces(c, seed, next, t)   == Payments!BuildRotationAccepts(c, seed, next, "w", FALSE, t)
Replacement(c, seed, next, t) == Payments!BuildRotation(c, seed, next, "w", FALSE, t)

LEMMA RotationKept ==
  ASSUME NEW c, NEW aid, Kept(c, aid), NEW seed, NEW next, NEW t \in Int, NEW d,
         Replaces(c, seed, next, t), d = Payments!Adopt(Replacement(c, seed, next, t), None)
  PROVE  /\ Kept(d, aid)
         /\ Len(c.kel) \in Nat /\ Len(d.kel) = Len(c.kel) + 1
         /\ \A i \in 1..Len(c.kel) : d.kel[i] = c.kel[i]
         /\ d.kel[Len(d.kel)].event.ts = t
<1> DEFINE n == Len(c.kel)
           m  == Payments!Material("rot", Payments!revealedLocked(c, seed), next, FALSE)
           be == Payments!buildEvent(c.kel, m, "w", t)
           b  == Replacement(c, seed, next, t)
<1>1. b = [c EXCEPT !.pending = [m EXCEPT !.event = be]] /\ Payments!Replays(Append(c.kel, be))
  BY Zenon DEF Replacement, Payments!BuildRotation, Payments!buildLocked, Replaces, Payments!BuildRotationAccepts,
               Payments!buildEventAccepts
<1>2. m = [kind |-> "rot", revealed |-> m.revealed, next |-> m.next, emergency |-> m.emergency, event |-> m.event]
  BY DEF Payments!Material
<1>3. m.kind = "rot"
  BY DEF Payments!Material
<1> HIDE DEF m
<1>4. /\ be.event.seq = Payments!last(c.kel).seq + 1 /\ be.event.type = "rot"
      /\ be.event.key = m.revealed /\ be.event.ts = t
  <2>1. \E x, y, z, u, v : be = Payments!SignedEvent(
          [ type |-> "rot", aid |-> Payments!AIDOf(c.kel), seq |-> Payments!last(c.kel).seq + 1, prev |-> x,
            key |-> m.revealed, next |-> y, toad |-> z, witness |-> u, emergency |-> v, ts |-> t ], m.revealed)
    BY <1>3, Zenon DEF Payments!buildEvent
  <2> HIDE DEF be
  <2> QED
    BY <2>1 DEF Payments!SignedEvent
<1> HIDE DEF be
<1>5. n \in Nat /\ n >= 1
  BY DEF Kept, IsKEL, Payments!Replays
<1>6. /\ b.kel = c.kel /\ b.pending.event = be /\ b.pending.revealed = m.revealed
      /\ b = [kel |-> b.kel, cur |-> b.cur, hot |-> b.hot, pending |-> b.pending, state |-> b.state]
  <2> DEFINE p == [m EXCEPT !.event = be]
  <2>1. p.event = be /\ p.revealed = m.revealed
    BY <1>2
  <2>2. b = [c EXCEPT !.pending = p]
    BY <1>1
  <2> HIDE DEF p, b
  <2> QED
    BY <2>1, <2>2 DEF Kept, IsKEL
<1> HIDE DEF b
<1>7. /\ d = [kel |-> d.kel, cur |-> d.cur, hot |-> d.hot, pending |-> d.pending, state |-> d.state]
      /\ d.kel = Append(c.kel, be) /\ d.cur = m.revealed /\ d.pending = None
  <2>1. d = [b EXCEPT !.kel = Append(@, b.pending.event), !.cur = b.pending.revealed, !.hot = None, !.pending = None]
    BY DEF Payments!Adopt, b
  <2> QED
    BY <1>6, <2>1
<1>8. /\ Len(d.kel) = n + 1 /\ d.kel[n + 1] = be /\ DOMAIN d.kel = 1 .. n + 1
      /\ \A i \in 1..n : d.kel[i] = c.kel[i]
  <2>1. c.kel \in Seq({c.kel[i] : i \in DOMAIN c.kel} \cup {be})
    BY DEF Kept, IsKEL
  <2> QED
    BY <1>7, <2>1
<1>9. d.kel \in Seq({d.kel[i] : i \in DOMAIN d.kel})
  <2>1. d.kel \in [1 .. n + 1 -> {d.kel[i] : i \in DOMAIN d.kel}]
    <3>1. d.kel \in Seq({c.kel[i] : i \in DOMAIN c.kel} \cup {be})
      BY <1>7 DEF Kept, IsKEL
    <3> QED
      BY <1>8, <3>1
  <2> QED
    BY <1>5, <2>1
<1>10. Payments!last(c.kel).seq = n - 1
  BY <1>5 DEF Kept, IsKEL, Payments!last
<1> HIDE DEF n
<1>11. \A i \in 1..Len(d.kel) : /\ d.kel[i].event.seq = i - 1 /\ d.kel[i].event.type # "dip"
                                 /\ d.kel[i].event.ts \in Int
  <2>1. ASSUME NEW i \in 1..n
        PROVE  /\ d.kel[i].event.seq = i - 1 /\ d.kel[i].event.type # "dip"
               /\ d.kel[i].event.ts \in Int
    BY <1>8 DEF Kept, IsKEL, n
  <2>2. /\ be.event.seq = n /\ be.event.type # "dip" /\ be.event.ts \in Int
    BY <1>4, <1>5, <1>10
  <2>3. ASSUME NEW i \in 1..Len(d.kel), i \notin 1..n
        PROVE  d.kel[i] = be /\ i - 1 = n
    BY <1>5, <1>8, <2>3
  <2> QED
    BY <2>1, <2>2, <2>3
<1>12. Payments!AIDOf(d.kel) = aid
  <2>1. d.kel[1] = c.kel[1]
    BY <1>5, <1>8
  <2> QED
    BY <2>1 DEF Kept, IsKEL, Payments!AIDOf
<1>13. Kept(d, aid)
  BY <1>1, <1>4, <1>7, <1>8, <1>9, <1>11, <1>12 DEF Kept, IsKEL
<1> QED
  BY <1>4, <1>5, <1>8, <1>13 DEF n

\* What aid signed verifies until its key is replaced.
LEMMA SignedVerifies ==
  ASSUME NEW kel, NEW aid, IsKEL(kel, aid), NEW n \in 1..Len(kel), NEW w, SignedAt(w, n, kel, aid), NEW t \in Int
  PROVE  /\ Payments!VerifyBody(kel, w.env, t, w.body)
               <=> n = Len(kel) \/ (t # 0 /\ t < kel[n + 1].event.ts)
         /\ w.env.aid = aid /\ w.env.seq = n - 1
<1> DEFINE ks  == Payments!KeyState(kel, n)
           key == kel[n].event.key
<1>1. /\ w.env.aid = aid /\ w.env.seq = n - 1 /\ w.env.sig[2] = w.body /\ w.env.sig[1] = key
  <2> DEFINE e == [aid |-> aid, seq |-> n - 1, sig |-> <<key, w.body>>, ref |-> None]
  <2>1. e.aid = aid /\ e.seq = n - 1 /\ e.sig[2] = w.body /\ e.sig[1] = key
    OBVIOUS
  <2>2. w.env = e
    BY DEF SignedAt
  <2> HIDE DEF e
  <2> QED
    BY <2>1, <2>2
<1>2. Payments!Replays(kel) /\ Payments!AIDOf(kel) = aid /\ kel[n].event.type # "dip" /\ Len(kel) \in Nat
  BY DEF IsKEL
<1>3. /\ ks.key = key
      /\ n = Len(kel) => ks.status = "active"
      /\ n # Len(kel) => ks.status = "rotated" /\ ks.supersededAt = kel[n + 1].event.ts
  BY <1>2 DEF Payments!KeyState
<1>4. Payments!VerifyBody(kel, w.env, t, w.body) <=> Payments!VerifyObject(kel, aid, n - 1, t, key) = "ok"
  BY <1>1 DEF Payments!VerifyBody
<1>5. n - 1 + 1 = n /\ ~(n - 1 >= Len(kel))
  BY <1>2
<1>6. n # Len(kel) => kel[n + 1].event.ts \in Int
  <2>1. n # Len(kel) => n + 1 \in 1..Len(kel)
    BY <1>2
  <2> QED
    BY <2>1 DEF IsKEL
<1>7. Payments!VerifyObject(kel, aid, n - 1, t, key)
        = CASE ks.status = "deactivated" -> "REVOKED_KEY"
            [] ks.status # "deactivated" /\ key # ks.key -> "INVALID_SIGNATURE"
            [] ks.status = "active" /\ key = ks.key -> "ok"
            [] OTHER -> IF t = 0 \/ t >= ks.supersededAt THEN "REVOKED_KEY" ELSE "ok"
  BY <1>2, <1>5, Zenon DEF Payments!VerifyObject
<1> HIDE DEF ks, key
<1>8. CASE n = Len(kel)
  BY <1>1, <1>3, <1>4, <1>7, <1>8
<1>9. CASE n # Len(kel)
  <2>1. Payments!VerifyObject(kel, aid, n - 1, t, key)
          = IF t = 0 \/ t >= kel[n + 1].event.ts THEN "REVOKED_KEY" ELSE "ok"
    BY <1>3, <1>7, <1>9
  <2> QED
    BY <1>1, <1>4, <1>6, <1>9, <2>1
<1> QED
  BY <1>1, <1>8, <1>9

\* What a controller signs now is under its last event.
LEMMA SignedIs ==
  ASSUME NEW c, NEW aid, Kept(c, aid), NEW body
  PROVE  /\ Payments!Signed(c, body).body = body
         /\ Len(c.kel) \in 1..Len(c.kel)
         /\ SignedAt(Payments!Signed(c, body), Len(c.kel), c.kel, aid)
<1> DEFINE n == Len(c.kel)
           sig == Payments!signingLocked(c)
           env == [aid |-> aid, seq |-> n - 1, sig |-> <<c.kel[n].event.key, body>>, ref |-> None]
<1>1. n \in Nat /\ n >= 1
  BY DEF Kept, IsKEL, Payments!Replays
<1>2. sig.key = c.cur /\ sig.seq = Payments!last(c.kel).seq
  BY DEF Kept, IsKEL, Payments!signingLocked
<1>3. Payments!last(c.kel).seq = n - 1 /\ c.cur = c.kel[n].event.key /\ Payments!AIDOf(c.kel) = aid
  BY <1>1 DEF Kept, IsKEL, Payments!last
<1>4. Payments!Signed(c, body) = [body |-> body, env |-> env]
  BY <1>2, <1>3 DEF Payments!Signed
<1> HIDE DEF env
<1>5. Payments!Signed(c, body).body = body /\ Payments!Signed(c, body).env = env
  BY <1>4
<1> QED
  BY <1>1, <1>5 DEF SignedAt, env

-----------------------------------------------------------------------------
(* Payment: the steps. *)

\* The envelope of a signature is well-formed.
LEMMA EnvelopeSigned ==
  ASSUME NilIsNoObject, NEW w, NEW n, NEW kel, NEW name, SignedAt(w, n, kel, Payments!HolderAID(name))
  PROVE  Payments!envelopeOf(w.env) /\ w.env.aid = Payments!HolderAID(name)
<1> DEFINE aid == Payments!HolderAID(name)
           e == [aid |-> aid, seq |-> n - 1, sig |-> <<kel[n].event.key, w.body>>, ref |-> None]
<1>1. aid \notin {None, Nul}
  BY DEF NilIsNoObject, Payments!HolderAID, Payments!AIDOf, Payments!CID
<1> HIDE DEF aid
<1>2. e \notin {None, Bad} /\ e.aid = aid /\ e.ref = None
  BY DEF NilIsNoObject
<1>3. w.env = e
  BY DEF SignedAt, aid
<1> HIDE DEF e
<1> QED
  BY <1>1, <1>2, <1>3 DEF Payments!envelopeOf, Payments!textField, aid

-----------------------------------------------------------------------------
(* Payment: the inductive invariant. *)

\* What an authorization debits, and its guard.
Debit(t) == [payer |-> Payments!Payer, nonce |-> t.nonce, ix |-> t.ix, amount |-> t.amount]

GuardOf(t) == IF t.ix = None THEN None ELSE Payments!SettleGuard(Payments!Payer, t.ix)

\* An authorization is the payer's, under a key of its KEL.
AuthsOK ==
  \A w \in auths :
    /\ \E t \in AuthTerms : w.body = Payments!Authorization(t)
    /\ \E n \in 1..Len(wallet.kel) : SignedAt(w, n, wallet.kel, Payments!Payer)

\* The receipt of a settlement is the bank's, under the key of that time.
ReceiptOK(s) ==
  /\ s.receipt.body.authID = s.id
  /\ s.receipt.body.settleAt \in Int /\ 0 < s.receipt.body.settleAt /\ s.receipt.body.settleAt <= at
  /\ \E n \in 1..Len(bank.kel) :
       /\ SignedAt(s.receipt, n, bank.kel, Payments!Bank)
       /\ n # Len(bank.kel) => bank.kel[n + 1].event.ts >= s.receipt.body.settleAt

\* An authorization is settled once.
LedgerOK ==
  /\ IsFiniteSet(ledger)
  /\ \A s \in ledger : ReceiptOK(s)
  /\ \A s, u \in ledger : s.id = u.id => s = u

\* Every debit is of a settled authorization, with its guard.
MovedOK ==
  /\ moved \in Seq({Debit(t) : t \in AuthTerms})
  /\ Cardinality(ledger) = Len(moved)
  /\ \A i \in 1..Len(moved) :
       \E t \in AuthTerms : \E s \in ledger :
         moved[i] = Debit(t) /\ s.id = Payments!CID(Payments!Authorization(t)) /\ s.guard = GuardOf(t)
  /\ \A i, j \in 1..Len(moved) :
       i # j => moved[i].nonce # moved[j].nonce /\ (moved[i].ix # None => moved[i].ix # moved[j].ix)

\* Receipts and credits are of settlements, and each is credited once.
CreditsOK ==
  /\ \A r \in receipts : \E s \in ledger : r = s.receipt
  /\ credits \in Seq({s.receipt.body : s \in ledger})
  /\ \A i, j \in 1..Len(credits) : i # j => credits[i].authID # credits[j].authID

\* The payer's events are past.
WalletPast == \A i \in 1..Len(wallet.kel) : wallet.kel[i].event.ts <= at

\* The inductive invariant.
PaymentsInv ==
  /\ at \in Int /\ at >= 3
  /\ Kept(wallet, Payments!Payer) /\ Kept(bank, Payments!Bank)
  /\ WalletPast
  /\ AuthsOK /\ LedgerOK /\ MovedOK /\ CreditsOK

\* The modules use one Cardinality.
LEMMA PayCardinality == \A S : Payments!Cardinality(S) = Cardinality(S)
BY Zenon DEF Payments!Cardinality, Cardinality

\* The payer or the bank replaces its key.
LEMMA RerollKept ==
  ASSUME NEW c, NEW aid, Kept(c, aid), at \in Int, NEW name, NEW d, Payments!RerollAccepts(c, name),
         d = Payments!Adopt(Payments!Rerolled(c, name), None)
  PROVE  /\ Kept(d, aid)
         /\ Len(c.kel) \in Nat /\ Len(d.kel) = Len(c.kel) + 1
         /\ \A i \in 1..Len(c.kel) : d.kel[i] = c.kel[i]
         /\ d.kel[Len(d.kel)].event.ts = at
<1> DEFINE seed == Payments!RecoverySeed(name, Len(c.kel))
           next == Payments!NextDigest(name, Len(c.kel) + 1)
<1>1. Replaces(c, seed, next, at) /\ d = Payments!Adopt(Replacement(c, seed, next, at), None)
  BY Zenon DEF Payments!RerollAccepts, Payments!Rerolled, Replaces, Replacement
<1> HIDE DEF seed, next
<1> QED
  BY <1>1, RotationKept

\* The invariant holds at first.
LEMMA InitPayments == NilIsNoObject /\ Payments!Init => PaymentsInv
<1> SUFFICES ASSUME NilIsNoObject, Payments!Init PROVE PaymentsInv
  OBVIOUS
<1>1. /\ at = 3 /\ wallet = Payments!Holder("payer") /\ bank = Payments!Holder("bank")
      /\ auths = {} /\ ledger = {} /\ moved = <<>> /\ receipts = {} /\ credits = <<>>
  BY Zenon DEF Payments!Init
<1>2. Kept(wallet, Payments!Payer) /\ WalletPast /\ Kept(bank, Payments!Bank)
  <2>1. /\ Kept(wallet, Payments!Payer) /\ Kept(bank, Payments!Bank)
        /\ \A i \in 1..Len(wallet.kel) : wallet.kel[i].event.ts <= 2
    BY <1>1, HolderKept DEF Payments!Payer, Payments!Bank
  <2>2. \A i \in 1..Len(wallet.kel) : wallet.kel[i].event.ts \in Int
    BY <2>1 DEF Kept, IsKEL
  <2> QED
    BY <1>1, <2>1, <2>2 DEF WalletPast
<1>3. AuthsOK /\ CreditsOK
  BY <1>1 DEF AuthsOK, CreditsOK
<1>4. LedgerOK /\ MovedOK
  BY <1>1, FS_EmptySet DEF LedgerOK, MovedOK
<1> QED
  BY <1>1, <1>2, <1>3, <1>4 DEF PaymentsInv

\* Time passes.
LEMMA TickPay == ASSUME PaymentsInv, Payments!Tick PROVE PaymentsInv'
<1>1. at' = at + 1 /\ UNCHANGED <<wallet, bank, auths, ledger, moved, receipts, credits>>
  BY DEF Payments!Tick
<1>2. Kept(wallet, Payments!Payer)' /\ WalletPast' /\ Kept(bank, Payments!Bank)'
  <2>1. \A i \in 1..Len(wallet.kel) : wallet.kel[i].event.ts \in Int
    BY DEF PaymentsInv, Kept, IsKEL
  <2>2. WalletPast'
    BY <1>1, <2>1 DEF PaymentsInv, WalletPast
  <2> QED
    BY <1>1, <2>2 DEF PaymentsInv
<1>3. AuthsOK' /\ MovedOK' /\ CreditsOK'
  BY <1>1 DEF PaymentsInv, AuthsOK, MovedOK, CreditsOK, SignedAt
<1>4. LedgerOK'
  <2>1. ASSUME NEW s \in ledger PROVE ReceiptOK(s)'
    <3>1. ReceiptOK(s) /\ at \in Int
      BY DEF PaymentsInv, LedgerOK
    <3>2. s.receipt.body.settleAt <= at'
      BY <1>1, <3>1 DEF ReceiptOK
    <3> QED
      BY <1>1, <3>1, <3>2 DEF ReceiptOK, SignedAt
  <2> QED
    BY <1>1, <2>1 DEF PaymentsInv, LedgerOK
<1> QED
  BY <1>1, <1>2, <1>3, <1>4 DEF PaymentsInv

\* The payer signs.
LEMMA SignPay == ASSUME PaymentsInv, NEW t \in AuthTerms, Payments!Sign(t) PROVE PaymentsInv'
<1> DEFINE w == Payments!Signed(wallet, Payments!Authorization(t))
<1>1. auths' = auths \cup {w} /\ UNCHANGED <<wallet, bank, at, ledger, moved, receipts, credits>>
  BY DEF Payments!Sign
<1>2. w.body = Payments!Authorization(t) /\ \E n \in 1..Len(wallet.kel) : SignedAt(w, n, wallet.kel, Payments!Payer)
  BY SignedIs DEF PaymentsInv
<1> HIDE DEF w
<1>3. AuthsOK'
  BY <1>1, <1>2 DEF PaymentsInv, AuthsOK, SignedAt
<1>4. Kept(wallet, Payments!Payer)' /\ WalletPast' /\ Kept(bank, Payments!Bank)'
  <2>1. \A i \in 1..Len(wallet.kel) : wallet.kel[i].event.ts \in Int
    BY DEF PaymentsInv, Kept, IsKEL
  <2>2. WalletPast'
    BY <1>1, <2>1 DEF PaymentsInv, WalletPast
  <2> QED
    BY <1>1, <2>2 DEF PaymentsInv
<1>5. MovedOK' /\ CreditsOK'
  BY <1>1 DEF PaymentsInv, MovedOK, CreditsOK
<1>6. LedgerOK'
  BY <1>1 DEF PaymentsInv, LedgerOK, ReceiptOK, SignedAt
<1> QED
  BY <1>1, <1>3, <1>4, <1>5, <1>6 DEF PaymentsInv

\* The payer replaces its key; what it signed stays under the old one.
LEMMA RotatePayerPay == ASSUME PaymentsInv, Payments!RotatePayer PROVE PaymentsInv'
<1>1. /\ Payments!RerollAccepts(wallet, "payer")
      /\ wallet' = Payments!Adopt(Payments!Rerolled(wallet, "payer"), None)
      /\ UNCHANGED <<bank, at, auths, ledger, moved, receipts, credits>>
  BY DEF Payments!RotatePayer
<1>2. /\ Kept(wallet', Payments!Payer) /\ Len(wallet'.kel) = Len(wallet.kel) + 1 /\ Len(wallet.kel) \in Nat
      /\ \A i \in 1..Len(wallet.kel) : wallet'.kel[i] = wallet.kel[i]
      /\ wallet'.kel[Len(wallet'.kel)].event.ts = at
  BY <1>1, RerollKept DEF PaymentsInv
<1>3. AuthsOK'
  <2>1. ASSUME NEW w \in auths, NEW n \in 1..Len(wallet.kel), SignedAt(w, n, wallet.kel, Payments!Payer)
        PROVE  n \in 1..Len(wallet'.kel) /\ SignedAt(w, n, wallet'.kel, Payments!Payer)
    <3>1. wallet'.kel[n] = wallet.kel[n] /\ n \in 1..Len(wallet'.kel)
      BY <1>2
    <3> QED
      BY <2>1, <3>1 DEF SignedAt
  <2> QED
    BY <1>1, <2>1 DEF PaymentsInv, AuthsOK, SignedAt
<1>4. Kept(wallet, Payments!Payer)' /\ WalletPast' /\ Kept(bank, Payments!Bank)'
  BY <1>1, <1>2 DEF PaymentsInv, Kept, WalletPast
<1>5. MovedOK' /\ CreditsOK'
  BY <1>1 DEF PaymentsInv, MovedOK, CreditsOK
<1>6. LedgerOK'
  BY <1>1 DEF PaymentsInv, LedgerOK, ReceiptOK, SignedAt
<1> QED
  BY <1>1, <1>3, <1>4, <1>5, <1>6 DEF PaymentsInv

\* The bank replaces its key, at a time not before any settlement.
LEMMA RotateBankPay == ASSUME PaymentsInv, Payments!RotateBank PROVE PaymentsInv'
<1>1. /\ Payments!RerollAccepts(bank, "bank")
      /\ bank' = Payments!Adopt(Payments!Rerolled(bank, "bank"), None)
      /\ UNCHANGED <<wallet, at, auths, ledger, moved, receipts, credits>>
  BY DEF Payments!RotateBank
<1>2. /\ Kept(bank', Payments!Bank) /\ Len(bank'.kel) = Len(bank.kel) + 1 /\ Len(bank.kel) \in Nat
      /\ \A i \in 1..Len(bank.kel) : bank'.kel[i] = bank.kel[i]
      /\ bank'.kel[Len(bank'.kel)].event.ts = at
  BY <1>1, RerollKept DEF PaymentsInv
<1>3. AuthsOK'
  BY <1>1 DEF PaymentsInv, AuthsOK, SignedAt
<1>4. Kept(wallet, Payments!Payer)' /\ WalletPast' /\ Kept(bank, Payments!Bank)'
  BY <1>1, <1>2 DEF PaymentsInv, Kept, WalletPast
<1>5. MovedOK' /\ CreditsOK'
  BY <1>1 DEF PaymentsInv, MovedOK, CreditsOK
<1>6. LedgerOK'
  <2>1. ASSUME NEW s \in ledger PROVE ReceiptOK(s)'
    <3>1. /\ s.receipt.body.authID = s.id
          /\ s.receipt.body.settleAt \in Int /\ 0 < s.receipt.body.settleAt /\ s.receipt.body.settleAt <= at
      BY DEF PaymentsInv, LedgerOK, ReceiptOK
    <3>2. PICK n \in 1..Len(bank.kel) :
            /\ SignedAt(s.receipt, n, bank.kel, Payments!Bank)
            /\ n # Len(bank.kel) => bank.kel[n + 1].event.ts >= s.receipt.body.settleAt
      BY DEF PaymentsInv, LedgerOK, ReceiptOK
    <3>3. n \in 1..Len(bank'.kel) /\ SignedAt(s.receipt, n, bank'.kel, Payments!Bank)
      BY <1>2, <3>2 DEF SignedAt
    <3>4. bank'.kel[n + 1].event.ts >= s.receipt.body.settleAt
      <4>1. CASE n = Len(bank.kel)
        BY <1>2, <3>1, <4>1 DEF PaymentsInv
      <4>2. CASE n # Len(bank.kel)
        <5>1. n + 1 \in 1..Len(bank.kel)
          BY <1>2, <4>2
        <5> QED
          BY <1>2, <3>2, <4>2, <5>1
      <4> QED
        BY <4>1, <4>2
    <3> QED
      BY <1>1, <3>1, <3>3, <3>4 DEF ReceiptOK, SignedAt
  <2> QED
    BY <1>1, <2>1 DEF PaymentsInv, LedgerOK
<1> QED
  BY <1>1, <1>3, <1>4, <1>5, <1>6 DEF PaymentsInv

\* A debit for an authorization that is not settled, with a guard no settlement has.
LEMMA SettlePay ==
  ASSUME NilIsNoObject, PaymentsInv, NEW w \in auths, NEW req, Payments!Settle(w, req)
  PROVE  PaymentsInv'
<1> DEFINE receipt == Payments!Signed(bank, Payments!Receipt(w, at))
           new == [id |-> Payments!ID(w), guard |-> Payments!Guard(w), receipt |-> receipt]
           paid == [payer |-> w.body.payer, nonce |-> w.body.nonce, ix |-> w.body.ix, amount |-> w.body.amount]
<1>1. /\ Payments!Verdict(w, req, at) = "ok"
      /\ ledger' = ledger \cup {new} /\ receipts' \in {receipts, receipts \cup {receipt}}
      /\ moved' = Append(moved, paid)
      /\ UNCHANGED <<wallet, bank, at, auths, credits>>
  BY Zenon DEF Payments!Settle
<1>2. /\ ~ \E s \in ledger : s.id = Payments!ID(w)
      /\ ~ \E s \in ledger : s.guard # None /\ s.guard = Payments!Guard(w)
  BY <1>1 DEF Payments!Verdict
<1>3. PICK t \in AuthTerms : w.body = Payments!Authorization(t)
  BY DEF PaymentsInv, AuthsOK
<1>4. /\ w.body.payer = Payments!Payer /\ w.body.nonce = t.nonce /\ w.body.ix = t.ix /\ w.body.amount = t.amount
  BY <1>3 DEF Payments!Authorization
<1>5. paid = Debit(t) /\ Payments!Guard(w) = GuardOf(t) /\ Payments!ID(w) = Payments!CID(Payments!Authorization(t))
  BY <1>3, <1>4 DEF Debit, GuardOf, Payments!Guard, Payments!ID
<1>6. /\ receipt.body = Payments!Receipt(w, at)
      /\ Len(bank.kel) \in 1..Len(bank.kel) /\ SignedAt(receipt, Len(bank.kel), bank.kel, Payments!Bank)
  BY SignedIs DEF PaymentsInv
<1>7. Payments!Receipt(w, at).authID = Payments!ID(w) /\ Payments!Receipt(w, at).settleAt = at
  BY DEF Payments!Receipt
<1>8. new.id = Payments!ID(w) /\ new.guard = Payments!Guard(w) /\ new.receipt = receipt
  OBVIOUS
<1> HIDE DEF receipt, paid, new
<1>9. LedgerOK'
  <2>1. IsFiniteSet(ledger \cup {new})
    BY FS_AddElement DEF PaymentsInv, LedgerOK
  <2>2. ASSUME NEW s \in ledger PROVE ReceiptOK(s)'
    BY <1>1 DEF PaymentsInv, LedgerOK, ReceiptOK, SignedAt
  <2>a. PICK fresh : fresh = new
    OBVIOUS
  <2>3. ReceiptOK(fresh)'
    <3>1. ReceiptOK(fresh)
      BY <1>6, <1>7, <1>8, <2>a DEF PaymentsInv, ReceiptOK
    <3> QED
      BY <1>1, <3>1 DEF ReceiptOK, SignedAt
  <2>4. \A s, u \in ledger \cup {new} : s.id = u.id => s = u
    BY <1>2, <1>8 DEF PaymentsInv, LedgerOK
  <2> QED
    BY <1>1, <2>1, <2>2, <2>a, <2>3, <2>4 DEF LedgerOK
<1>10. MovedOK'
  <2> DEFINE D == {Debit(x) : x \in AuthTerms}
             n == Len(moved)
             a == Append(moved, paid)
  <2>1. moved \in Seq(D) /\ paid \in D
    BY <1>5 DEF PaymentsInv, MovedOK
  <2>2. /\ n \in Nat /\ a \in Seq(D) /\ Len(a) = n + 1 /\ a[n + 1] = paid
        /\ \A i \in 1..n : a[i] = moved[i]
    <3> HIDE DEF D
    <3> QED
      BY <2>1
  <2>3. Cardinality(ledger \cup {new}) = n + 1
    <3>1. new \notin ledger
      BY <1>2, <1>8
    <3> QED
      BY <3>1, FS_AddElement DEF PaymentsInv, LedgerOK, MovedOK
  <2> HIDE DEF D, a, n
  <2>4. ASSUME NEW i \in 1..n
        PROVE  /\ \E x \in AuthTerms : \E s \in ledger :
                    moved[i] = Debit(x) /\ s.id = Payments!CID(Payments!Authorization(x)) /\ s.guard = GuardOf(x)
               /\ moved[i].nonce # t.nonce /\ (moved[i].ix # None => moved[i].ix # t.ix)
    <3>1. PICK x \in AuthTerms : \E s \in ledger :
            moved[i] = Debit(x) /\ s.id = Payments!CID(Payments!Authorization(x)) /\ s.guard = GuardOf(x)
      BY DEF PaymentsInv, MovedOK, n
    <3>2. moved[i].nonce = x.nonce /\ moved[i].ix = x.ix
      BY <3>1 DEF Debit
    <3>3. x # t
      BY <1>2, <1>5, <3>1
    <3>4. x.nonce # t.nonce
      BY <3>3, NoncesAssumption
    <3>5. ASSUME x.ix # None PROVE x.ix # t.ix
      <4>1. GuardOf(x) # None
        BY <3>5 DEF NilIsNoObject, GuardOf, Payments!SettleGuard
      <4>2. GuardOf(x) # GuardOf(t)
        BY <1>2, <1>5, <3>1, <4>1
      <4> QED
        BY <4>2 DEF GuardOf
    <3> QED
      BY <3>1, <3>2, <3>4, <3>5
  <2>5. \E s \in ledger \cup {new} :
          paid = Debit(t) /\ s.id = Payments!CID(Payments!Authorization(t)) /\ s.guard = GuardOf(t)
    BY <1>5, <1>8
  <2>6. \A i \in 1..n + 1 :
          \E x \in AuthTerms : \E s \in ledger \cup {new} :
            a[i] = Debit(x) /\ s.id = Payments!CID(Payments!Authorization(x)) /\ s.guard = GuardOf(x)
    <3>1. ASSUME NEW i \in 1..n
          PROVE  \E x \in AuthTerms : \E s \in ledger \cup {new} :
                   a[i] = Debit(x) /\ s.id = Payments!CID(Payments!Authorization(x)) /\ s.guard = GuardOf(x)
      <4>1. PICK x \in AuthTerms : \E s \in ledger :
              moved[i] = Debit(x) /\ s.id = Payments!CID(Payments!Authorization(x)) /\ s.guard = GuardOf(x)
        BY <2>4
      <4> QED
        BY <2>2, <4>1
    <3>2. \A i \in 1..n + 1 : i \in 1..n \/ i = n + 1
      BY <2>2
    <3> QED
      BY <2>2, <2>5, <3>1, <3>2
  <2>7. \A i, j \in 1..n + 1 :
          i # j => a[i].nonce # a[j].nonce /\ (a[i].ix # None => a[i].ix # a[j].ix)
    <3>1. paid.nonce = t.nonce /\ paid.ix = t.ix
      BY <1>5 DEF Debit
    <3>2. ASSUME NEW i \in 1..n, NEW j \in 1..n, i # j
          PROVE  a[i].nonce # a[j].nonce /\ (a[i].ix # None => a[i].ix # a[j].ix)
      <4>1. moved[i].nonce # moved[j].nonce /\ (moved[i].ix # None => moved[i].ix # moved[j].ix)
        BY <3>2 DEF PaymentsInv, MovedOK, n
      <4> QED
        BY <2>2, <4>1
    <3>3. ASSUME NEW i \in 1..n
          PROVE  /\ a[i].nonce # paid.nonce /\ (a[i].ix # None => a[i].ix # paid.ix)
                 /\ paid.nonce # a[i].nonce /\ (paid.ix # None => paid.ix # a[i].ix)
      BY <2>2, <2>4, <3>1
    <3>4. \A i \in 1..n + 1 : i \in 1..n \/ i = n + 1
      BY <2>2
    <3> QED
      BY <2>2, <3>2, <3>3, <3>4
  <2>8. moved' = a /\ ledger' = ledger \cup {new}
    BY <1>1 DEF a
  <2> QED
    BY <2>2, <2>3, <2>6, <2>7, <2>8 DEF MovedOK, D
<1>11. CreditsOK'
  <2>1. \A r \in receipts' : \E s \in ledger' : r = s.receipt
    BY <1>1, <1>8 DEF PaymentsInv, CreditsOK
  <2>2. {s.receipt.body : s \in ledger} \subseteq {s.receipt.body : s \in ledger'}
    BY <1>1
  <2>3. credits \in Seq({s.receipt.body : s \in ledger'})
    <3>1. \A S, T : S \subseteq T => Seq(S) \subseteq Seq(T)
      OBVIOUS
    <3>2. credits \in Seq({s.receipt.body : s \in ledger})
      BY DEF PaymentsInv, CreditsOK
    <3> QED
      BY <2>2, <3>1, <3>2
  <2> QED
    BY <1>1, <2>1, <2>3 DEF PaymentsInv, CreditsOK
<1>12. AuthsOK' /\ Kept(wallet, Payments!Payer)' /\ WalletPast' /\ Kept(bank, Payments!Bank)'
  BY <1>1 DEF PaymentsInv, AuthsOK, SignedAt, Kept, WalletPast
<1> QED
  BY <1>1, <1>9, <1>10, <1>11, <1>12 DEF PaymentsInv

\* A repeat moves nothing.
LEMMA ReplayPay == ASSUME PaymentsInv, NEW w, NEW req, Payments!Replay(w, req) PROVE PaymentsInv'
<1>1. /\ receipts' = receipts \cup {s.receipt : s \in {x \in ledger : x.id = Payments!ID(w)}}
      /\ UNCHANGED <<wallet, bank, at, auths, ledger, moved, credits>>
  BY DEF Payments!Replay
<1>2. CreditsOK'
  <2>1. \A r \in receipts' : \E s \in ledger : r = s.receipt
    BY <1>1 DEF PaymentsInv, CreditsOK
  <2> QED
    BY <1>1, <2>1 DEF PaymentsInv, CreditsOK
<1>3. LedgerOK' /\ MovedOK'
  BY <1>1 DEF PaymentsInv, LedgerOK, ReceiptOK, SignedAt, MovedOK
<1>4. AuthsOK' /\ Kept(wallet, Payments!Payer)' /\ WalletPast' /\ Kept(bank, Payments!Bank)'
  BY <1>1 DEF PaymentsInv, AuthsOK, SignedAt, Kept, WalletPast
<1> QED
  BY <1>1, <1>2, <1>3, <1>4 DEF PaymentsInv

\* A credit is for a settlement that is not credited.
LEMMA CreditPay == ASSUME PaymentsInv, NEW r \in receipts, Payments!Credit(r) PROVE PaymentsInv'
<1>1. /\ ~ \E i \in 1..Len(credits) : credits[i].authID = r.body.authID
      /\ credits' = Append(credits, r.body)
      /\ UNCHANGED <<wallet, bank, at, auths, ledger, moved, receipts>>
  BY DEF Payments!Credit
<1>2. CreditsOK'
  <2> DEFINE C == {s.receipt.body : s \in ledger}
             n == Len(credits)
             a == Append(credits, r.body)
  <2>1. credits \in Seq(C) /\ r.body \in C
    BY DEF PaymentsInv, CreditsOK
  <2>2. /\ n \in Nat /\ a \in Seq(C) /\ Len(a) = n + 1 /\ a[n + 1] = r.body
        /\ \A i \in 1..n : a[i] = credits[i]
    <3> HIDE DEF C
    <3> QED
      BY <2>1
  <2>3. a = credits' /\ C' = C
    BY <1>1
  <2> HIDE DEF C, a
  <2>4. \A i, j \in 1..n + 1 : i # j => a[i].authID # a[j].authID
    <3>1. ASSUME NEW i \in 1..n, NEW j \in 1..n, i # j PROVE a[i].authID # a[j].authID
      <4>1. credits[i].authID # credits[j].authID
        BY <3>1 DEF PaymentsInv, CreditsOK
      <4> QED
        BY <2>2, <4>1
    <3>2. ASSUME NEW i \in 1..n PROVE a[i].authID # r.body.authID
      BY <1>1, <2>2
    <3>3. \A i \in 1..n + 1 : i \in 1..n \/ i = n + 1
      BY <2>2
    <3> QED
      BY <2>2, <3>1, <3>2, <3>3
  <2> HIDE DEF n
  <2> QED
    BY <1>1, <2>2, <2>3, <2>4 DEF PaymentsInv, CreditsOK, C
<1>3. LedgerOK' /\ MovedOK'
  BY <1>1 DEF PaymentsInv, LedgerOK, ReceiptOK, SignedAt, MovedOK
<1>4. AuthsOK' /\ Kept(wallet, Payments!Payer)' /\ WalletPast' /\ Kept(bank, Payments!Bank)'
  BY <1>1 DEF PaymentsInv, AuthsOK, SignedAt, Kept, WalletPast
<1> QED
  BY <1>1, <1>2, <1>3, <1>4 DEF PaymentsInv

\* Every step.
LEMMA NextPay ==
  ASSUME NilIsNoObject, PaymentsInv, Payments!Next \/ UNCHANGED paymentVars
  PROVE  PaymentsInv'
<1>1. CASE UNCHANGED paymentVars
  <2>1. UNCHANGED <<wallet, bank, at, auths, ledger, moved, receipts, credits>>
    BY <1>1 DEF paymentVars
  <2>2. /\ LedgerOK'
        /\ MovedOK' /\ CreditsOK'
    <3>1. LedgerOK'
      BY <2>1 DEF PaymentsInv, LedgerOK, ReceiptOK, SignedAt
    <3>2. MovedOK' /\ CreditsOK'
      BY <2>1 DEF PaymentsInv, MovedOK, CreditsOK
    <3> QED
      BY <3>1, <3>2
  <2>3. AuthsOK' /\ Kept(wallet, Payments!Payer)' /\ WalletPast' /\ Kept(bank, Payments!Bank)'
    BY <2>1 DEF PaymentsInv, AuthsOK, SignedAt, Kept, WalletPast
  <2> QED
    BY <2>1, <2>2, <2>3 DEF PaymentsInv
<1>2. CASE Payments!Next
  <2>1. \/ Payments!Tick \/ Payments!RotatePayer \/ Payments!RotateBank
        \/ \E t \in AuthTerms : Payments!Sign(t)
        \/ \E w \in auths, req \in Requirements : Payments!Settle(w, req) \/ Payments!Replay(w, req)
        \/ \E r \in receipts : Payments!Credit(r)
    BY <1>2, Zenon DEF Payments!Next
  <2> QED
    BY <2>1, TickPay, RotatePayerPay, RotateBankPay, SignPay, SettlePay, ReplayPay, CreditPay
<1> QED
  BY <1>1, <1>2

-----------------------------------------------------------------------------
(* Payment: the theorems. *)

\* In every behaviour of the services the invariant of the payments holds.
THEOREM PaidFor ==
  ASSUME NilIsNoObject
  PROVE  ServicesSpec => [](IF part = "payments" THEN PaymentsInv ELSE NoPayments)
<1> DEFINE I == IF part = "payments" THEN PaymentsInv ELSE NoPayments
<1>1. ServicesInit => I
  BY InitPayments DEF ServicesInit
<1>2. I /\ [ServicesNext]_allVars => I'
  <2> SUFFICES ASSUME I, [ServicesNext]_allVars PROVE I'
    OBVIOUS
  <2>1. CASE part = "payments"
    <3>1. part' = "payments" /\ (Payments!Next \/ UNCHANGED paymentVars)
      BY <2>1 DEF ServicesNext, allVars
    <3> QED
      BY <2>1, <3>1, NextPay
  <2>2. CASE part # "payments"
    <3>1. part' = part /\ UNCHANGED paymentVars
      BY <2>2 DEF ServicesNext, allVars
    <3> QED
      BY <2>2, <3>1 DEF NoPayments, paymentVars
  <2> QED
    BY <2>1, <2>2
<1> QED
  BY <1>1, <1>2, PTL DEF ServicesSpec

\* The payer pays once for a nonce and for an interaction, each debit is credited once, and its
\* receipt stays verifiable at its settle_at (Settle, VerifyReceipt).
THEOREM Paid ==
  ASSUME NilIsNoObject
  PROVE  ServicesSpec => []PaidOnce
<1>1. NoPayments => Payments!PaidOnce
  <2> SUFFICES ASSUME NoPayments PROVE Payments!PaidOnce
    OBVIOUS
  <2>1. ledger = {} /\ moved = <<>> /\ credits = <<>>
    BY DEF NoPayments
  <2>2. Len(moved) = 0 /\ Len(credits) = 0 /\ Cardinality(ledger) = 0
    BY <2>1, FS_EmptySet
  <2> QED
    BY <2>1, <2>2, PayCardinality DEF Payments!PaidOnce
<1>2. PaymentsInv => Payments!PaidOnce
  <2> SUFFICES ASSUME PaymentsInv PROVE Payments!PaidOnce
    OBVIOUS
  <2>1. /\ \A i, j \in 1..Len(moved) :
             i # j => moved[i].nonce # moved[j].nonce /\ (moved[i].ix # None => moved[i].ix # moved[j].ix)
        /\ Payments!Cardinality(ledger) = Len(moved)
    BY PayCardinality DEF PaymentsInv, MovedOK
  <2>2. ASSUME NEW i \in 1..Len(credits)
        PROVE  /\ \A j \in 1..Len(credits) : i # j => credits[i].authID # credits[j].authID
               /\ \E s \in ledger : s.id = credits[i].authID /\ s.receipt.body = credits[i]
    <3>1. credits[i] \in {s.receipt.body : s \in ledger}
      BY DEF PaymentsInv, CreditsOK
    <3>2. PICK s \in ledger : credits[i] = s.receipt.body
      BY <3>1
    <3>3. s.id = credits[i].authID
      BY <3>2 DEF PaymentsInv, LedgerOK, ReceiptOK
    <3> QED
      BY <3>2, <3>3 DEF PaymentsInv, CreditsOK
  <2>3. ASSUME NEW s \in ledger
        PROVE  \/ Payments!VerifyReceiptOf(s.receipt, bank.kel, Payments!Bank, s.receipt.body.settleAt)
               \/ \E i \in 1..Len(bank.kel) : bank.kel[i].event.ts = s.receipt.body.settleAt
    <3> DEFINE r == s.receipt
               t == s.receipt.body.settleAt
    <3>1. t \in Int /\ 0 < t
      BY DEF PaymentsInv, LedgerOK, ReceiptOK
    <3>2. PICK n \in 1..Len(bank.kel) :
            /\ SignedAt(r, n, bank.kel, Payments!Bank)
            /\ n # Len(bank.kel) => bank.kel[n + 1].event.ts >= t
      BY DEF PaymentsInv, LedgerOK, ReceiptOK
    <3>3. Len(bank.kel) \in Nat
      BY DEF PaymentsInv, Kept, IsKEL
    <3>4. \/ Payments!VerifyBody(bank.kel, r.env, t, r.body)
          \/ \E i \in 1..Len(bank.kel) : bank.kel[i].event.ts = t
      <4>1. CASE n = Len(bank.kel)
        BY <3>1, <3>2, <4>1, SignedVerifies DEF PaymentsInv, Kept
      <4>2. CASE n # Len(bank.kel)
        <5>1. n + 1 \in 1..Len(bank.kel)
          BY <3>3, <4>2
        <5>2. bank.kel[n + 1].event.ts \in Int
          BY <5>1 DEF PaymentsInv, Kept, IsKEL
        <5>3. CASE bank.kel[n + 1].event.ts = t
          BY <5>1, <5>3
        <5>4. CASE t < bank.kel[n + 1].event.ts
          BY <3>1, <3>2, <5>4, SignedVerifies DEF PaymentsInv, Kept
        <5> QED
          BY <3>1, <3>2, <4>2, <5>2, <5>3, <5>4
      <4> QED
        BY <4>1, <4>2
    <3>5. Payments!envelopeOf(r.env) /\ r.env.aid = Payments!Bank
      BY <3>2, EnvelopeSigned DEF Payments!Bank
    <3> QED
      BY <3>4, <3>5 DEF Payments!VerifyReceiptOf
  <2> QED
    BY <2>1, <2>2, <2>3 DEF Payments!PaidOnce
<1>3. (IF part = "payments" THEN PaymentsInv ELSE NoPayments) => PaidOnce
  BY <1>1, <1>2 DEF PaidOnce
<1> QED
  BY <1>3, PaidFor, PTL

\* The unsigned difference is the difference.
LEMMA WordMinus ==
  ASSUME NEW x \in -WordMax - 1 .. WordMax, NEW y \in -WordMax - 1 .. WordMax, x > y
  PROVE  Payments!Minus(x, y) = x - y
<1>1. \A m \in Nat \ {0} : \A k \in 0..m - 1 : k % m = k
  OBVIOUS
<1>2. 2 * (WordMax + 1) \in Nat \ {0} /\ x - y \in 0 .. 2 * (WordMax + 1) - 1
  BY WordsAssumption
<1>3. (x - y) % (2 * (WordMax + 1)) = x - y
  BY <1>1, <1>2
<1> QED
  BY <1>3 DEF Payments!Minus

\* An authorization verifies in exactly the signed window and the skew on both ends, while its
\* key is current (VerifyAuthorization, pastWithSkew, beforeWithSkew).
THEOREM Windowed ==
  ASSUME NilIsNoObject
  PROVE  ServicesSpec => []WindowHolds
<1>1. NoPayments => Payments!WindowHolds
  BY DEF NoPayments, Payments!WindowHolds
<1>2. PaymentsInv => Payments!WindowHolds
  <2> SUFFICES ASSUME PaymentsInv, NEW w \in auths, NEW ts \in at..WordMax
               PROVE  Payments!VerifyAuthorization(w, wallet.kel, ts) = "ok" <=>
                        /\ w.env.seq + 1 = Len(wallet.kel)
                        /\ 0 < w.body.issuedAt /\ w.body.issuedAt < w.body.notAfter
                        /\ w.body.issuedAt - ClockSkew <= ts /\ ts <= w.body.notAfter + ClockSkew
    BY DEF Payments!WindowHolds
  <2> DEFINE a == w.body.issuedAt
             b == w.body.notAfter
             n == Len(wallet.kel)
             W == -WordMax - 1 .. WordMax
  <2>1. PICK t \in AuthTerms : w.body = Payments!Authorization(t)
    BY DEF PaymentsInv, AuthsOK
  <2>2. w.body.payer = Payments!Payer /\ a \in W /\ b \in W
    BY <2>1, WordsAssumption DEF Payments!Authorization
  <2>3. PICK m \in 1..n : SignedAt(w, m, wallet.kel, Payments!Payer)
    BY DEF PaymentsInv, AuthsOK
  <2>4. Payments!envelopeOf(w.env) /\ w.env.aid = Payments!Payer
    BY <2>3, EnvelopeSigned DEF Payments!Payer
  <2>5. n \in Nat /\ at \in Int /\ at >= 3 /\ ts \in Int /\ ts >= at /\ ts \in W /\ ClockSkew \in Nat
    BY WordsAssumption DEF PaymentsInv, Kept, IsKEL
  <2>6. Payments!VerifyBody(wallet.kel, w.env, ts, w.body) <=> m = n
    <3>1. CASE m = n
      BY <2>3, <2>5, <3>1, SignedVerifies DEF PaymentsInv, Kept
    <3>2. CASE m # n
      <4>1. m + 1 \in 1..n
        BY <2>5, <3>2
      <4>2. wallet.kel[m + 1].event.ts \in Int /\ wallet.kel[m + 1].event.ts <= at
        BY <4>1 DEF PaymentsInv, Kept, IsKEL, WalletPast
      <4>3. ~(ts < wallet.kel[m + 1].event.ts)
        BY <2>5, <4>2
      <4> QED
        BY <2>3, <2>5, <3>2, <4>3, SignedVerifies DEF PaymentsInv, Kept
    <3> QED
      BY <3>1, <3>2
  <2>7. w.env.seq + 1 = n <=> m = n
    <3> DEFINE e == [aid |-> Payments!Payer, seq |-> m - 1, sig |-> <<wallet.kel[m].event.key, w.body>>, ref |-> None]
    <3>1. e.seq = m - 1
      OBVIOUS
    <3>2. w.env = e
      BY <2>3 DEF SignedAt
    <3> HIDE DEF e
    <3> QED
      BY <3>1, <3>2
  <2>8. Payments!beforeWithSkew(ts, a) <=> a - ClockSkew > ts
    <3>1. CASE ts < a
      <4>1. Payments!Minus(a, ts) = a - ts
        BY <2>2, <2>5, <3>1, WordMinus
      <4> QED
        BY <2>2, <2>5, <3>1, <4>1 DEF Payments!beforeWithSkew
    <3>2. CASE ~(ts < a)
      BY <2>2, <2>5, <3>2 DEF Payments!beforeWithSkew
    <3> QED
      BY <3>1, <3>2
  <2>9. Payments!pastWithSkew(ts, b) <=> ts > b + ClockSkew
    <3>1. CASE ts > b
      <4>1. Payments!Minus(ts, b) = ts - b
        BY <2>2, <2>5, <3>1, WordMinus
      <4> QED
        BY <2>2, <2>5, <3>1, <4>1 DEF Payments!pastWithSkew
    <3>2. CASE ~(ts > b)
      BY <2>2, <2>5, <3>2 DEF Payments!pastWithSkew
    <3> QED
      BY <3>1, <3>2
  <2>10. Payments!VerifyAuthorization(w, wallet.kel, ts) = "ok" <=>
           /\ ~(a <= 0 \/ b <= a)
           /\ ~Payments!beforeWithSkew(ts, a) /\ ~Payments!pastWithSkew(ts, b)
           /\ Payments!VerifyBody(wallet.kel, w.env, ts, w.body)
    BY <2>2, <2>4 DEF Payments!VerifyAuthorization
  <2> HIDE DEF a, b, n
  <2>11. /\ ~(a <= 0 \/ b <= a) <=> 0 < a /\ a < b
         /\ ~(a - ClockSkew > ts) <=> a - ClockSkew <= ts
         /\ ~(ts > b + ClockSkew) <=> ts <= b + ClockSkew
    BY <2>2, <2>5
  <2>12. Payments!VerifyAuthorization(w, wallet.kel, ts) = "ok" <=>
           w.env.seq + 1 = n /\ (0 < a /\ a < b) /\ (a - ClockSkew <= ts /\ ts <= b + ClockSkew)
    BY <2>6, <2>7, <2>8, <2>9, <2>10, <2>11, Zenon
  <2> QED
    BY <2>12 DEF a, b, n
<1>3. (IF part = "payments" THEN PaymentsInv ELSE NoPayments) => WindowHolds
  BY <1>1, <1>2 DEF WindowHolds
<1> QED
  BY <1>3, PaidFor, PTL

-----------------------------------------------------------------------------
(* Task and Payment: both use one Controller and one Evidence. *)

\* Replay and the state of a key.
LEMMA TaskReplays == \A kel : Tasks!Replays(kel) = Payments!Replays(kel)
BY Zenon DEF Tasks!Replays, Payments!Replays, Tasks!checkInception, Payments!checkInception, Tasks!Follows,
             Payments!Follows, Tasks!checkShape, Payments!checkShape, Tasks!CID, Payments!CID, Tasks!checkRotation,
             Payments!checkRotation, Tasks!checkDeactivation, Payments!checkDeactivation, Tasks!nextDigest,
             Payments!nextDigest, Tasks!ToadAgent, Payments!ToadAgent, Tasks!ToadHub, Payments!ToadHub

\* Ids.
LEMMA TaskAID == \A kel : Tasks!AIDOf(kel) = Payments!AIDOf(kel)
BY Zenon DEF Tasks!AIDOf, Payments!AIDOf, Tasks!CID, Payments!CID

\* The check of an object.
LEMMA TaskVerifies ==
  ASSUME NEW kel, NEW env, NEW t, NEW body
  PROVE  /\ Tasks!VerifyBody(kel, env, t, body) = Payments!VerifyBody(kel, env, t, body)
         /\ Tasks!envelopeOf(env) = Payments!envelopeOf(env)
<1>1. \A k, i : Tasks!KeyState(k, i) = Payments!KeyState(k, i)
  BY Zenon DEF Tasks!KeyState, Payments!KeyState, Tasks!CID, Payments!CID
<1>2. ASSUME NEW aid, NEW seq, NEW sig
      PROVE  Tasks!VerifyObject(kel, aid, seq, t, sig) = Payments!VerifyObject(kel, aid, seq, t, sig)
  BY <1>1, TaskReplays, TaskAID DEF Tasks!VerifyObject, Payments!VerifyObject
<1>3. Tasks!VerifyBody(kel, env, t, body) = Payments!VerifyBody(kel, env, t, body)
  BY <1>2 DEF Tasks!VerifyBody, Payments!VerifyBody
<1>4. Tasks!envelopeOf(env) = Payments!envelopeOf(env)
  BY DEF Tasks!envelopeOf, Payments!envelopeOf, Tasks!textField, Payments!textField
<1> QED
  BY <1>3, <1>4

\* Signing.
LEMMA TaskSigned == \A c, body : Tasks!Signed(c, body) = Payments!Signed(c, body)
BY Zenon DEF Tasks!Signed, Payments!Signed, Tasks!signingLocked, Payments!signingLocked, Tasks!AIDOf, Payments!AIDOf,
             Tasks!CID, Payments!CID, Tasks!last, Payments!last

\* Building an event.
LEMMA TaskBuilds ==
  /\ \A kel, p, w, ts : Tasks!buildEvent(kel, p, w, ts) = Payments!buildEvent(kel, p, w, ts)
  /\ \A c, p, w, ts : Tasks!buildLocked(c, p, w, ts) = Payments!buildLocked(c, p, w, ts)
  /\ \A c, e : Tasks!Adopt(c, e) = Payments!Adopt(c, e)
  /\ \A k, x, n, e : Tasks!Material(k, x, n, e) = Payments!Material(k, x, n, e)
  /\ \A s, n : Tasks!RecoverySeed(s, n) = Payments!RecoverySeed(s, n)
  /\ \A s, n : Tasks!NextDigest(s, n) = Payments!NextDigest(s, n)
<1>1. \A kel, p, w, ts : Tasks!buildEvent(kel, p, w, ts) = Payments!buildEvent(kel, p, w, ts)
  BY Zenon DEF Tasks!buildEvent, Payments!buildEvent, Tasks!SignedEvent, Payments!SignedEvent, Tasks!AIDOf,
               Payments!AIDOf, Tasks!CID, Payments!CID, Tasks!last, Payments!last, Tasks!toadLocked, Payments!toadLocked
<1>2. \A c, p, w, ts : Tasks!buildLocked(c, p, w, ts) = Payments!buildLocked(c, p, w, ts)
  BY <1>1 DEF Tasks!buildLocked, Payments!buildLocked
<1>3. \A c, e : Tasks!Adopt(c, e) = Payments!Adopt(c, e)
  BY Zenon DEF Tasks!Adopt, Payments!Adopt
<1>4. \A k, x, n, e : Tasks!Material(k, x, n, e) = Payments!Material(k, x, n, e)
  BY Zenon DEF Tasks!Material, Payments!Material
<1>5. /\ \A s, n : Tasks!RecoverySeed(s, n) = Payments!RecoverySeed(s, n)
      /\ \A s, n : Tasks!NextDigest(s, n) = Payments!NextDigest(s, n)
  BY Zenon DEF Tasks!RecoverySeed, Payments!RecoverySeed, Tasks!NextDigest, Payments!NextDigest, Tasks!nextDigest,
               Payments!nextDigest
<1> QED
  BY <1>1, <1>2, <1>3, <1>4, <1>5

\* The controllers of Task as they start.
LEMMA TaskHolder ==
  ASSUME NEW name
  PROVE  Tasks!Controlled(name) = Payments!Holder(name) /\ Tasks!Aid(name) = Payments!HolderAID(name)
<1> DEFINE c == Payments!inceptWith(<<name, 0>>, <<name, 1>>, 1, Payments!ToadAgent)
<1>1. Tasks!inceptWith(<<name, 0>>, <<name, 1>>, 1, Tasks!ToadAgent) = c
  BY Zenon DEF Tasks!inceptWith, Payments!inceptWith, Tasks!SignedEvent, Payments!SignedEvent, Tasks!nextDigest,
               Payments!nextDigest, Tasks!ToadAgent, Payments!ToadAgent
<1> HIDE DEF c
<1>2. Tasks!Aid(name) = Payments!HolderAID(name)
  BY <1>1, TaskAID DEF Tasks!Aid, Payments!HolderAID, c
<1>3. Tasks!BuildWitnessDesignation(c, "w", Tasks!NextDigest(name, 2), 2)
        = Payments!BuildWitnessDesignation(c, "w", Payments!NextDigest(name, 2), 2)
  BY TaskBuilds DEF Tasks!BuildWitnessDesignation, Payments!BuildWitnessDesignation
<1>4. Tasks!Controlled(name) = Payments!Holder(name)
  BY <1>1, <1>3, TaskBuilds DEF Tasks!Controlled, Payments!Holder, c
<1> QED
  BY <1>2, <1>4

\* A replacement of a key in Task.
LEMMA TaskRotationKept ==
  ASSUME NEW c, NEW aid, Kept(c, aid), NEW name, NEW t \in Int, NEW d,
         Tasks!Rotates(c, name, t), d = Tasks!rotated(c, name, t)
  PROVE  /\ Kept(d, aid)
         /\ Len(c.kel) \in Nat /\ Len(d.kel) = Len(c.kel) + 1
         /\ \A i \in 1..Len(c.kel) : d.kel[i] = c.kel[i]
         /\ d.kel[Len(d.kel)].event.ts = t
<1> DEFINE seed == Payments!RecoverySeed(name, Len(c.kel))
           next == Payments!NextDigest(name, Len(c.kel) + 1)
<1>1. /\ Tasks!BuildRotationAccepts(c, seed, next, "w", FALSE, t)
      /\ d = Payments!Adopt(Tasks!BuildRotation(c, seed, next, "w", FALSE, t), None)
  BY TaskBuilds DEF Tasks!Rotates, Tasks!rotated
<1> HIDE DEF seed, next
<1>2. Tasks!revealedLocked(c, seed) = Payments!revealedLocked(c, seed)
  BY DEF Tasks!revealedLocked, Payments!revealedLocked
<1>3. Tasks!BuildRotation(c, seed, next, "w", FALSE, t) = Payments!BuildRotation(c, seed, next, "w", FALSE, t)
  BY <1>2, TaskBuilds DEF Tasks!BuildRotation, Payments!BuildRotation
<1>4. \A m : Tasks!buildEventAccepts(c.kel, m, "w", t) = Payments!buildEventAccepts(c.kel, m, "w", t)
  BY TaskBuilds, TaskReplays DEF Tasks!buildEventAccepts, Payments!buildEventAccepts
<1>5. /\ Tasks!canBuildLocked(c) = Payments!canBuildLocked(c)
      /\ Tasks!toadLocked(c.kel) = Payments!toadLocked(c.kel)
  BY DEF Tasks!canBuildLocked, Payments!canBuildLocked, Tasks!toadLocked, Payments!toadLocked, Tasks!last, Payments!last
<1>6. Tasks!revealedLockedAccepts(c, seed) = Payments!revealedLockedAccepts(c, seed)
  BY DEF Tasks!revealedLockedAccepts, Payments!revealedLockedAccepts, Tasks!nextDigest, Payments!nextDigest,
         Tasks!committedNextDigest, Payments!committedNextDigest
<1>7. Payments!BuildRotationAccepts(c, seed, next, "w", FALSE, t)
  BY <1>1, <1>2, <1>4, <1>5, <1>6, TaskBuilds
     DEF Tasks!BuildRotationAccepts, Payments!BuildRotationAccepts, Tasks!ToadAgent, Payments!ToadAgent,
         Tasks!ToadHub, Payments!ToadHub
<1>8. Replaces(c, seed, next, t) /\ d = Payments!Adopt(Replacement(c, seed, next, t), None)
  BY <1>1, <1>3, <1>7, Zenon DEF Replaces, Replacement
<1> QED
  BY <1>8, RotationKept

-----------------------------------------------------------------------------
(* Task: what was signed, and on which day. *)

\* aid signed w under a key that no event replaced before the day began.
SignedOn(w, kel, aid, day) ==
  \E n \in 1..Len(kel) :
    /\ SignedAt(w, n, kel, aid)
    /\ n # Len(kel) => kel[n + 1].event.ts >= day * DayMS

\* The clock of the others; p's is Clock.
ClocksOK ==
  /\ now \in Int /\ now >= 3 * DayMS - 1 /\ now <= MaxNow
  /\ skew \in {-MaxSkew, MaxSkew}

KelsOK == Kept(prov, Tasks!Aid("p")) /\ Kept(rival, Tasks!Aid("r")) /\ Kept(hubc, Tasks!Aid("hub"))

\* Requests go to a provider, on a day that has begun.
AskDaysOK == \A a \in asks : a.to \in {"p", "r"} /\ a.day \in Int /\ 2 <= a.day /\ a.day <= Tasks!Day(now)

\* p works for documents with a binding.
JobsBound == \A j \in jobs : j.doc # None /\ Tasks!ReadTaskBindingAccepts(j.doc)

\* A day that DayStart has a time for.
DayOK(day) == day \in Int /\ day >= 1 /\ day <= MaxDay

\* The completion z has a receipt for its job, signed on the day it names, at ms or before.
DoneOn(z, kel, ms, today) ==
  LET w   == z.resp.receipt
      day == w.body.day
  IN  /\ \E d \in Deliverables :
           /\ z.resp = Tasks!Result(w, d)
           /\ w.body = Tasks!ReceiptFor(z.job.ix, z.job.doc, Tasks!Aid("p"), d, day)
      /\ w # None /\ Tasks!UnmarshalReceiptWire(w)
      /\ SignedOn(w, kel, Tasks!Aid("p"), day)
      /\ DayOK(day) /\ day * DayMS <= ms
      /\ z.job.day <= day + 1 /\ day <= today + 1

DoneSigned == \A z \in done : DoneOn(z, prov.kel, Tasks!Clock, Tasks!Day(now))

\* The KEL k is a beginning of kel, which is p's.
Begins(k, kel) ==
  IsKEL(k, Tasks!Aid("p")) /\ Len(k) <= Len(kel) /\ \A i \in 1..Len(k) : k[i] = kel[i]

\* r signed w under an event of kel.
SignedByR(w, kel) == w.body.day \in Int /\ \E n \in 1..Len(kel) : SignedAt(w, n, kel, Tasks!Aid("r"))

\* A result of p comes with a beginning of its KEL; one of r has a receipt it signed or p did.
ResultsSigned ==
  \A m \in results :
    /\ m.from = "p" => m.ts \in Int /\ Begins(m.kel, prov.kel)
    /\ m.from = "r" => SignedByR(m.resp.receipt, rival.kel) \/ \E z \in done : m.resp.receipt = z.resp.receipt

\* What q accepted its provider signed.
AcceptedOn(x, kel) ==
  LET w == x.resp.receipt
  IN  /\ x.ask.to \in {"p", "r"}
      /\ Tasks!UnmarshalReceiptWire(w) /\ w.env.aid = w.body.provider /\ w.body.provider = Tasks!Aid(x.ask.to)
      /\ x.ask.to = "r" => SignedByR(w, kel) /\ DayOK(w.body.day)

AcceptedSigned == \A x \in accepted : AcceptedOn(x, rival.kel)

\* What the hub attested it signed on the day it names, at ts or before.
StoredOn(s, kel, ts) ==
  LET day == s.att.body.day
  IN  /\ Tasks!checkReviewAtt(s.att.body) /\ Tasks!envelopeOf(s.att.env)
      /\ s.att.env.aid = s.att.body.hub
      /\ SignedOn(s.att, kel, Tasks!Aid("hub"), day)
      /\ day \in Int /\ day >= 1 /\ day * DayMS <= ts

StoredSigned == \A s \in stored : StoredOn(s, hubc.kel, now)

\* The inductive invariant, together with TasksInv.
SignedInv ==
  ClocksOK /\ KelsOK /\ AskDaysOK /\ JobsBound /\ DoneSigned /\ ResultsSigned /\ AcceptedSigned /\ StoredSigned

-----------------------------------------------------------------------------
(* Task: lemmas on days and signatures. *)

\* A day is a stretch of the clock.
LEMMA DayIs ==
  ASSUME NEW x \in Nat
  PROVE  /\ Tasks!Day(x) \in Nat /\ Tasks!Day(x) * DayMS <= x
         /\ x >= DayMS => Tasks!Day(x) >= 1
BY DaysAssumption DEF Tasks!Day

\* Days follow the clock, and clocks a day apart show days at most one apart.
LEMMA DaysFollow ==
  ASSUME NEW x \in Nat, NEW y \in Nat
  PROVE  /\ x <= y => Tasks!Day(x) <= Tasks!Day(y)
         /\ x <= y + DayMS => Tasks!Day(x) <= Tasks!Day(y) + 1
<1>1. x <= y => Tasks!Day(x) <= Tasks!Day(y)
  BY DaysAssumption DEF Tasks!Day
<1>2. x <= y + DayMS => Tasks!Day(x) <= Tasks!Day(y) + 1
  BY DaysAssumption DEF Tasks!Day
<1> QED
  BY <1>1, <1>2

\* The days that the clocks show.
LEMMA ClockDays ==
  ASSUME ClocksOK
  PROVE  /\ Tasks!Clock \in Int
         /\ DayOK(Tasks!Day(Tasks!Clock)) /\ Tasks!Day(Tasks!Clock) * DayMS <= Tasks!Clock
         /\ DayOK(Tasks!Day(now)) /\ Tasks!Day(now) * DayMS <= now
         /\ 2 <= Tasks!Day(now) /\ Tasks!Day(now) + 1 <= MaxDay
         /\ Tasks!Day(now) <= Tasks!Day(Tasks!Clock) + 1 /\ Tasks!Day(Tasks!Clock) <= Tasks!Day(now) + 1
<1> DEFINE c == Tasks!Clock
<1>1. /\ now \in Nat /\ c \in Nat /\ now >= DayMS /\ c >= DayMS
      /\ now <= c + DayMS /\ c <= now + DayMS
      /\ now <= MaxNow + MaxSkew /\ c <= MaxNow + MaxSkew /\ MaxNow + MaxSkew \in Nat
  BY DaysAssumption DEF ClocksOK, Tasks!Clock
<1>2. Tasks!Day(MaxNow + MaxSkew) < MaxDay
  BY DaysAssumption DEF Tasks!Day
<1>a. 2 <= Tasks!Day(now)
  <2>1. now \in Nat /\ now >= 2 * DayMS
    BY DaysAssumption DEF ClocksOK
  <2> QED
    BY <2>1, DaysAssumption DEF Tasks!Day
<1> HIDE DEF c
<1>3. DayOK(Tasks!Day(c)) /\ Tasks!Day(c) * DayMS <= c
  <2>1. Tasks!Day(c) <= Tasks!Day(MaxNow + MaxSkew) /\ Tasks!Day(MaxNow + MaxSkew) \in Nat
    BY <1>1, DaysFollow, DayIs
  <2>2. Tasks!Day(c) \in Nat /\ Tasks!Day(c) * DayMS <= c /\ Tasks!Day(c) >= 1
    BY <1>1, DayIs
  <2> QED
    BY <1>2, <2>1, <2>2, DaysAssumption DEF DayOK
<1>4. DayOK(Tasks!Day(now)) /\ Tasks!Day(now) * DayMS <= now /\ Tasks!Day(now) + 1 <= MaxDay
  <2>1. Tasks!Day(now) <= Tasks!Day(MaxNow + MaxSkew) /\ Tasks!Day(MaxNow + MaxSkew) \in Nat
    BY <1>1, DaysFollow, DayIs
  <2>2. Tasks!Day(now) \in Nat /\ Tasks!Day(now) * DayMS <= now /\ Tasks!Day(now) >= 1
    BY <1>1, DayIs
  <2> QED
    BY <1>2, <2>1, <2>2, DaysAssumption DEF DayOK
<1>5. Tasks!Day(now) <= Tasks!Day(c) + 1 /\ Tasks!Day(c) <= Tasks!Day(now) + 1
  BY <1>1, DaysFollow
<1> QED
  BY <1>1, <1>a, <1>3, <1>4, <1>5 DEF c

\* A signature is from the day it is made.
LEMMA SignedToday ==
  ASSUME NEW c, NEW aid, Kept(c, aid), NEW body, NEW day
  PROVE  Tasks!Signed(c, body).body = body /\ SignedOn(Tasks!Signed(c, body), c.kel, aid, day)
<1>1. /\ Tasks!Signed(c, body).body = body
      /\ Len(c.kel) \in 1..Len(c.kel) /\ SignedAt(Tasks!Signed(c, body), Len(c.kel), c.kel, aid)
  BY SignedIs, TaskSigned
<1> QED
  BY <1>1 DEF SignedOn

\* It stays so when the key is replaced later.
LEMMA SignedStays ==
  ASSUME NEW w, NEW k, NEW kel, NEW aid, NEW day \in Int,
         Len(k) \in Nat, Len(kel) = Len(k) + 1, \A i \in 1..Len(k) : kel[i] = k[i],
         kel[Len(kel)].event.ts >= day * DayMS, SignedOn(w, k, aid, day)
  PROVE  SignedOn(w, kel, aid, day)
<1>1. PICK n \in 1..Len(k) : SignedAt(w, n, k, aid) /\ (n # Len(k) => k[n + 1].event.ts >= day * DayMS)
  BY DEF SignedOn
<1>2. n \in 1..Len(kel) /\ SignedAt(w, n, kel, aid)
  BY <1>1 DEF SignedAt
<1>3. kel[n + 1].event.ts >= day * DayMS
  <2>1. CASE n = Len(k)
    BY <2>1
  <2>2. CASE n # Len(k)
    <3>1. n + 1 \in 1..Len(k)
      BY <2>2
    <3> QED
      BY <1>1, <2>2, <3>1
  <2> QED
    BY <2>1, <2>2
<1> QED
  BY <1>2, <1>3 DEF SignedOn

\* What was signed on a day verifies at its start, but for a key replaced in that millisecond.
LEMMA SignedOnVerifies ==
  ASSUME NEW w, NEW kel, NEW aid, IsKEL(kel, aid), NEW day \in Int, day >= 1, SignedOn(w, kel, aid, day),
         ~Tasks!ReplacedAtMidnight(w.env, kel, day)
  PROVE  Tasks!VerifyBody(kel, w.env, Tasks!DayStart(day), w.body)
<1>1. PICK n \in 1..Len(kel) : SignedAt(w, n, kel, aid) /\ (n # Len(kel) => kel[n + 1].event.ts >= day * DayMS)
  BY DEF SignedOn
<1>2. Tasks!DayStart(day) = day * DayMS /\ day * DayMS \in Int /\ day * DayMS # 0
  BY DaysAssumption DEF Tasks!DayStart
<1>3. /\ Payments!VerifyBody(kel, w.env, day * DayMS, w.body)
           <=> n = Len(kel) \/ (day * DayMS # 0 /\ day * DayMS < kel[n + 1].event.ts)
      /\ w.env.seq = n - 1
  BY <1>1, <1>2, SignedVerifies
<1>4. CASE n = Len(kel)
  BY <1>2, <1>3, <1>4, TaskVerifies
<1>5. CASE n # Len(kel)
  <2>1. n + 1 \in 1..Len(kel) /\ n < Len(kel) /\ n \in Nat
    BY <1>5 DEF IsKEL
  <2>2. kel[n + 1].event.ts \in Int
    BY <2>1 DEF IsKEL
  <2>3. kel[n + 1].event.ts # day * DayMS
    <3>1. w.env.seq + 1 = n /\ w.env.seq + 2 = n + 1
      BY <1>3, <2>1
    <3> QED
      BY <2>1, <3>1 DEF Tasks!ReplacedAtMidnight
  <2>4. day * DayMS < kel[n + 1].event.ts
    BY <1>1, <1>2, <1>5, <2>2, <2>3
  <2> QED
    BY <1>2, <1>3, <2>4, TaskVerifies
<1> QED
  BY <1>4, <1>5

\* What was signed verifies at any time before the key was replaced.
LEMMA SignedAtVerifies ==
  ASSUME NEW w, NEW kel, NEW aid, IsKEL(kel, aid), NEW n \in 1..Len(kel), SignedAt(w, n, kel, aid),
         NEW t \in Int, t # 0, ~Tasks!ReplacedBy(w.env, kel, t)
  PROVE  Tasks!VerifyBody(kel, w.env, t, w.body)
<1>1. /\ Payments!VerifyBody(kel, w.env, t, w.body) <=> n = Len(kel) \/ (t # 0 /\ t < kel[n + 1].event.ts)
      /\ w.env.seq = n - 1
  BY SignedVerifies
<1>2. ASSUME n # Len(kel) PROVE t < kel[n + 1].event.ts
  <2>1. n + 1 \in 1..Len(kel) /\ n < Len(kel) /\ n \in Nat
    BY <1>2 DEF IsKEL
  <2>2. kel[n + 1].event.ts \in Int
    BY <2>1 DEF IsKEL
  <2>3. w.env.seq + 1 = n /\ w.env.seq + 2 = n + 1
    BY <1>1, <2>1
  <2> QED
    BY <2>1, <2>2, <2>3 DEF Tasks!ReplacedBy
<1> QED
  BY <1>1, <1>2, TaskVerifies

\* The envelope of a signature of Task.
LEMMA TaskEnvelope ==
  ASSUME NilIsNoObject, NEW w, NEW kel, NEW name, NEW n, SignedAt(w, n, kel, Tasks!Aid(name))
  PROVE  Tasks!envelopeOf(w.env) /\ w.env.aid = Tasks!Aid(name)
<1>1. SignedAt(w, n, kel, Payments!HolderAID(name)) /\ Tasks!Aid(name) = Payments!HolderAID(name)
  BY TaskHolder
<1> QED
  BY <1>1, EnvelopeSigned, TaskVerifies

\* The controllers of Task as they start.
LEMMA ControlledKept ==
  ASSUME NilIsNoObject, NEW name
  PROVE  Kept(Tasks!Controlled(name), Tasks!Aid(name)) /\ Len(Tasks!Controlled(name).kel) = 2
BY HolderKept, TaskHolder

\* A completion stays what it was as time passes.
LEMMA DoneStays ==
  ASSUME NEW z, NEW kel, NEW ms \in Int, NEW today \in Int, NEW ms2 \in Int, NEW today2 \in Int,
         ms <= ms2, today <= today2, DoneOn(z, kel, ms, today)
  PROVE  DoneOn(z, kel, ms2, today2)
<1> DEFINE w   == z.resp.receipt
           day == w.body.day
<1>1. DayOK(day) /\ day * DayMS <= ms /\ day <= today + 1
  BY DEF DoneOn
<1>2. day * DayMS \in Int
  BY <1>1, DaysAssumption DEF DayOK
<1>3. day * DayMS <= ms2 /\ day <= today2 + 1
  BY <1>1, <1>2 DEF DayOK
<1> QED
  BY <1>3 DEF DoneOn

\* And when p replaces its key.
LEMMA DoneRotates ==
  ASSUME NEW z, NEW k, NEW kel, NEW ms \in Int, NEW today,
         Len(k) \in Nat, Len(kel) = Len(k) + 1, \A i \in 1..Len(k) : kel[i] = k[i],
         kel[Len(kel)].event.ts = ms, DoneOn(z, k, ms, today)
  PROVE  DoneOn(z, kel, ms, today)
<1> DEFINE w   == z.resp.receipt
           day == w.body.day
<1>1. DayOK(day) /\ day * DayMS <= ms /\ SignedOn(w, k, Tasks!Aid("p"), day)
  BY DEF DoneOn
<1>2. day \in Int /\ day * DayMS \in Int
  BY <1>1, DaysAssumption DEF DayOK
<1>3. kel[Len(kel)].event.ts >= day * DayMS
  BY <1>1, <1>2
<1>4. SignedOn(w, kel, Tasks!Aid("p"), day)
  BY <1>1, <1>2, <1>3, SignedStays
<1> QED
  BY <1>4 DEF DoneOn

-----------------------------------------------------------------------------
(* Task: the steps, for what was signed. *)

LEMMA InitSigned == NilIsNoObject /\ Tasks!Init => SignedInv
<1> SUFFICES ASSUME NilIsNoObject, Tasks!Init PROVE SignedInv
  OBVIOUS
<1>1. /\ now = 3 * DayMS - 1 /\ skew \in {-MaxSkew, MaxSkew}
      /\ prov = Tasks!Controlled("p") /\ rival = Tasks!Controlled("r") /\ hubc = Tasks!Controlled("hub")
      /\ asks = {} /\ jobs = {} /\ done = {} /\ results = {} /\ accepted = {} /\ stored = {}
  BY Zenon DEF Tasks!Init, Tasks!rc
<1>2. ClocksOK
  BY <1>1, DaysAssumption DEF ClocksOK
<1>3. KelsOK
  BY <1>1, ControlledKept DEF KelsOK
<1> QED
  BY <1>1, <1>2, <1>3 DEF SignedInv, AskDaysOK, JobsBound, DoneSigned, ResultsSigned, AcceptedSigned, StoredSigned

\* Time passes.
LEMMA TickSigned == ASSUME SignedInv, Tasks!Tick PROVE SignedInv'
<1>1. /\ now < MaxNow /\ now' = now + 1
      /\ UNCHANGED <<skew, prov, rival, hubc, asks, jobs, done, results, accepted, stored>>
  BY DEF Tasks!Tick
<1>2. ClocksOK /\ ClocksOK'
  BY <1>1, DaysAssumption DEF SignedInv, ClocksOK
<1>3. /\ now \in Nat /\ now' \in Nat /\ Tasks!Day(now) \in Nat /\ Tasks!Day(now') \in Nat
      /\ Tasks!Day(now) <= Tasks!Day(now')
  BY <1>1, <1>2, DaysAssumption, DaysFollow, DayIs DEF ClocksOK
<1>4. Tasks!Clock \in Int /\ (Tasks!Clock)' = Tasks!Clock + 1
  BY <1>1, <1>2, DaysAssumption DEF ClocksOK, Tasks!Clock
<1>5. AskDaysOK'
  BY <1>1, <1>3 DEF SignedInv, AskDaysOK
<1>6. DoneSigned'
  <2>1. ASSUME NEW z \in done PROVE DoneOn(z, prov.kel, Tasks!Clock + 1, Tasks!Day(now'))
    <3>1. DoneOn(z, prov.kel, Tasks!Clock, Tasks!Day(now))
      BY DEF SignedInv, DoneSigned
    <3> QED
      BY <1>3, <1>4, <3>1, DoneStays
  <2> QED
    BY <1>1, <1>4, <2>1 DEF DoneSigned
<1>7. StoredSigned'
  <2>1. ASSUME NEW s \in stored PROVE StoredOn(s, hubc.kel, now')
    <3>1. StoredOn(s, hubc.kel, now)
      BY DEF SignedInv, StoredSigned
    <3>2. s.att.body.day \in Int /\ s.att.body.day * DayMS <= now /\ s.att.body.day * DayMS \in Int
      BY <3>1, DaysAssumption DEF StoredOn
    <3>3. s.att.body.day * DayMS <= now'
      BY <1>1, <1>3, <3>2
    <3> QED
      BY <3>1, <3>3 DEF StoredOn
  <2> QED
    BY <1>1, <2>1 DEF StoredSigned
<1>8. KelsOK' /\ JobsBound' /\ ResultsSigned' /\ AcceptedSigned'
  BY <1>1 DEF SignedInv, KelsOK, JobsBound, ResultsSigned, AcceptedSigned
<1> QED
  BY <1>2, <1>5, <1>6, <1>7, <1>8 DEF SignedInv

\* p replaces its key, by its clock.
LEMMA RotateSigned == ASSUME SignedInv, Tasks!Rotate PROVE SignedInv'
<1>1. /\ Tasks!Rotates(prov, "p", Tasks!Clock) /\ prov' = Tasks!rotated(prov, "p", Tasks!Clock)
      /\ UNCHANGED <<now, skew, rival, hubc, asks, jobs, done, results, accepted, stored>>
  BY DEF Tasks!Rotate
<1>2. Tasks!Clock \in Int /\ (Tasks!Clock)' = Tasks!Clock
  BY <1>1, ClockDays DEF SignedInv, Tasks!Clock
<1>3. /\ Kept(prov', Tasks!Aid("p"))
      /\ Len(prov.kel) \in Nat /\ Len(prov'.kel) = Len(prov.kel) + 1
      /\ \A i \in 1..Len(prov.kel) : prov'.kel[i] = prov.kel[i]
      /\ prov'.kel[Len(prov'.kel)].event.ts = Tasks!Clock
  BY <1>1, <1>2, TaskRotationKept DEF SignedInv, KelsOK
<1>4. DoneSigned'
  <2>1. ASSUME NEW z \in done PROVE DoneOn(z, prov'.kel, Tasks!Clock, Tasks!Day(now))
    <3>1. DoneOn(z, prov.kel, Tasks!Clock, Tasks!Day(now))
      BY DEF SignedInv, DoneSigned
    <3> QED
      BY <1>2, <1>3, <3>1, DoneRotates
  <2> QED
    BY <1>1, <1>2, <2>1 DEF DoneSigned
<1>5. ResultsSigned'
  <2>1. ASSUME NEW m \in results, m.from = "p" PROVE Begins(m.kel, prov'.kel)
    <3>1. Begins(m.kel, prov.kel)
      BY <2>1 DEF SignedInv, ResultsSigned
    <3>2. Len(m.kel) \in Nat
      BY <3>1 DEF Begins, IsKEL
    <3> QED
      BY <1>3, <3>1, <3>2 DEF Begins
  <2> QED
    BY <1>1, <2>1 DEF SignedInv, ResultsSigned
<1>6. KelsOK'
  BY <1>1, <1>3 DEF SignedInv, KelsOK
<1>7. ClocksOK' /\ AskDaysOK' /\ JobsBound' /\ AcceptedSigned' /\ StoredSigned'
  BY <1>1 DEF SignedInv, ClocksOK, AskDaysOK, JobsBound, AcceptedSigned, StoredSigned
<1> QED
  BY <1>4, <1>5, <1>6, <1>7 DEF SignedInv

\* The hub replaces its key.
LEMMA RotateHubSigned == ASSUME SignedInv, Tasks!RotateHub PROVE SignedInv'
<1>1. /\ Tasks!Rotates(hubc, "hub", now) /\ hubc' = Tasks!rotated(hubc, "hub", now)
      /\ UNCHANGED <<now, skew, prov, rival, asks, jobs, done, results, accepted, stored>>
  BY DEF Tasks!RotateHub
<1>2. now \in Int /\ (Tasks!Clock)' = Tasks!Clock
  BY <1>1 DEF SignedInv, ClocksOK, Tasks!Clock
<1>3. /\ Kept(hubc', Tasks!Aid("hub"))
      /\ Len(hubc.kel) \in Nat /\ Len(hubc'.kel) = Len(hubc.kel) + 1
      /\ \A i \in 1..Len(hubc.kel) : hubc'.kel[i] = hubc.kel[i]
      /\ hubc'.kel[Len(hubc'.kel)].event.ts = now
  BY <1>1, <1>2, TaskRotationKept DEF SignedInv, KelsOK
<1>4. StoredSigned'
  <2>1. ASSUME NEW s \in stored PROVE StoredOn(s, hubc'.kel, now)
    <3> DEFINE day == s.att.body.day
    <3>1. StoredOn(s, hubc.kel, now)
      BY DEF SignedInv, StoredSigned
    <3>2. day \in Int /\ day * DayMS <= now /\ SignedOn(s.att, hubc.kel, Tasks!Aid("hub"), day)
      BY <3>1 DEF StoredOn
    <3>3. hubc'.kel[Len(hubc'.kel)].event.ts >= day * DayMS
      BY <1>2, <1>3, <3>2, DaysAssumption
    <3>4. SignedOn(s.att, hubc'.kel, Tasks!Aid("hub"), day)
      BY <1>3, <3>2, <3>3, SignedStays
    <3> QED
      BY <3>1, <3>4 DEF StoredOn
  <2> QED
    BY <1>1, <2>1 DEF StoredSigned
<1>5. KelsOK'
  BY <1>1, <1>3 DEF SignedInv, KelsOK
<1>6. ClocksOK' /\ AskDaysOK' /\ JobsBound' /\ DoneSigned' /\ ResultsSigned' /\ AcceptedSigned'
  BY <1>1, <1>2 DEF SignedInv, ClocksOK, AskDaysOK, JobsBound, DoneSigned, ResultsSigned, AcceptedSigned
<1> QED
  BY <1>4, <1>5, <1>6 DEF SignedInv

\* A request is of today, or one passed on.
LEMMA AskSigned ==
  ASSUME SignedInv, NEW b, b.to \in {"p", "r"}, b.day \in Int, 2 <= b.day, b.day <= Tasks!Day(now),
         asks' = asks \cup {b}, UNCHANGED <<now, skew, prov, rival, hubc, jobs, done, results, accepted, stored>>
  PROVE  SignedInv'
<1>1. AskDaysOK'
  BY DEF SignedInv, AskDaysOK
<1>2. (Tasks!Clock)' = Tasks!Clock
  BY DEF Tasks!Clock
<1> QED
  BY <1>1, <1>2 DEF SignedInv, ClocksOK, KelsOK, JobsBound, DoneSigned, ResultsSigned, AcceptedSigned, StoredSigned

LEMMA PassOnSigned == ASSUME TasksInv, SignedInv, NEW a \in asks, Tasks!PassOn(a) PROVE SignedInv'
<1> DEFINE b == [a EXCEPT !.from = "r", !.to = "p"]
<1>1. asks' = asks \cup {b} /\ UNCHANGED <<now, skew, prov, rival, hubc, jobs, done, results, accepted, stored>>
  BY DEF Tasks!PassOn
<1>2. a = [from |-> a.from, to |-> a.to, ix |-> a.ix, doc |-> a.doc, env |-> a.env, day |-> a.day]
  BY DEF TasksInv, AsksOK
<1>3. b.to = "p" /\ b.day = a.day
  <2>1. b = [a EXCEPT !.from = "r", !.to = "p"]
    OBVIOUS
  <2> HIDE DEF b
  <2> QED
    BY <1>2, <2>1
<1> HIDE DEF b
<1>4. b.day \in Int /\ 2 <= b.day /\ b.day <= Tasks!Day(now)
  BY <1>3 DEF SignedInv, AskDaysOK
<1> QED
  BY <1>1, <1>3, <1>4, AskSigned

\* p takes a request whose binding it can read.
LEMMA TakeTaskSigned == ASSUME SignedInv, NEW a \in asks, Tasks!TakeTask(a) PROVE SignedInv'
<1>1. /\ Tasks!UnmarshalDelegateReq(a) /\ Tasks!ReadTaskBindingAccepts(a.doc) /\ jobs' = jobs \cup {a}
      /\ UNCHANGED <<now, skew, prov, rival, hubc, asks, done, results, accepted, stored>>
  BY DEF Tasks!TakeTask
<1>2. a.doc # None
  BY <1>1 DEF Tasks!UnmarshalDelegateReq, Tasks!decodeTaskDoc
<1>3. JobsBound'
  BY <1>1, <1>2 DEF SignedInv, JobsBound
<1>4. (Tasks!Clock)' = Tasks!Clock
  BY <1>1 DEF Tasks!Clock
<1> QED
  BY <1>1, <1>3, <1>4
     DEF SignedInv, ClocksOK, KelsOK, AskDaysOK, DoneSigned, ResultsSigned, AcceptedSigned, StoredSigned

\* p signs a receipt of the day its clock shows.
LEMMA CompleteSigned ==
  ASSUME NilIsNoObject, TasksInv, SignedInv, NEW j \in jobs, NEW d \in Deliverables, Tasks!Complete(j, d)
  PROVE  SignedInv'
<1> DEFINE day  == Tasks!Day(Tasks!Clock)
           body == Tasks!ReceiptFor(j.ix, j.doc, Tasks!Aid("p"), d, day)
           w    == Tasks!Signed(prov, body)
           z    == [job |-> j, resp |-> Tasks!Result(w, d)]
<1>1. /\ Tasks!SignReceiptAccepts(body, prov) /\ done' = done \cup {z}
      /\ UNCHANGED <<now, skew, prov, rival, hubc, asks, jobs, results, accepted, stored>>
  BY Zenon DEF Tasks!Complete
<1>2. ClocksOK /\ (Tasks!Clock)' = Tasks!Clock /\ Tasks!Clock \in Int
  BY <1>1, ClockDays DEF SignedInv, Tasks!Clock
<1>3. DayOK(day) /\ day * DayMS <= Tasks!Clock /\ day <= Tasks!Day(now) + 1 /\ j.day <= day + 1
  <2>1. j.day \in Int /\ j.day <= Tasks!Day(now)
    BY DEF TasksInv, JobsOK, SignedInv, AskDaysOK
  <2>2. /\ DayOK(day) /\ day * DayMS <= Tasks!Clock /\ DayOK(Tasks!Day(now))
        /\ day <= Tasks!Day(now) + 1 /\ Tasks!Day(now) <= day + 1
    BY <1>2, ClockDays
  <2> HIDE DEF day
  <2> QED
    BY <2>1, <2>2 DEF DayOK
<1>4. w.body = body /\ SignedOn(w, prov.kel, Tasks!Aid("p"), day)
  BY SignedToday DEF SignedInv, KelsOK
<1>5. body.day = day
  BY DEF Tasks!ReceiptFor
<1>6. w # None /\ Tasks!UnmarshalReceiptWire(w)
  <2>1. w \notin {None, Bad}
    BY Zenon DEF NilIsNoObject, Tasks!Signed
  <2>2. body # Bad
    BY DEF NilIsNoObject, Tasks!ReceiptFor
  <2>3. Tasks!checkReceipt(body)
    BY <1>1 DEF Tasks!SignReceiptAccepts
  <2>4. Tasks!envelopeOf(w.env)
    BY <1>4, TaskEnvelope DEF SignedOn
  <2> HIDE DEF w, body
  <2> QED
    BY <1>4, <2>1, <2>2, <2>3, <2>4 DEF Tasks!UnmarshalReceiptWire
<1>7. z.job = j /\ z.resp = Tasks!Result(w, d) /\ z.resp.receipt = w
  BY DEF Tasks!Result
<1> HIDE DEF day, w, z
<1>8. DoneOn(z, prov.kel, Tasks!Clock, Tasks!Day(now))
  BY <1>3, <1>4, <1>5, <1>6, <1>7 DEF DoneOn
<1>9. DoneSigned' /\ ResultsSigned'
  BY <1>1, <1>2, <1>8 DEF SignedInv, DoneSigned, ResultsSigned
<1> QED
  BY <1>1, <1>2, <1>9 DEF SignedInv, ClocksOK, KelsOK, AskDaysOK, JobsBound, AcceptedSigned, StoredSigned

\* p sends a result with the KEL it has.
LEMMA SendResultSigned == ASSUME SignedInv, NEW z \in done, Tasks!SendResult(z) PROVE SignedInv'
<1> DEFINE m == [from |-> "p", kel |-> prov.kel, ts |-> Tasks!Clock, ix |-> z.job.ix, resp |-> z.resp]
<1>1. /\ results' = results \cup {m}
      /\ UNCHANGED <<now, skew, prov, rival, hubc, asks, jobs, done, accepted, stored>>
  BY DEF Tasks!SendResult
<1>2. m.from = "p" /\ m.kel = prov.kel /\ m.ts \in Int
  BY ClockDays DEF SignedInv
<1> HIDE DEF m
<1>3. Begins(prov.kel, prov.kel)
  BY DEF SignedInv, KelsOK, Kept, IsKEL, Begins
<1>4. ResultsSigned'
  BY <1>1, <1>2, <1>3 DEF SignedInv, ResultsSigned
<1>5. (Tasks!Clock)' = Tasks!Clock
  BY <1>1 DEF Tasks!Clock
<1> QED
  BY <1>1, <1>4, <1>5 DEF SignedInv, ClocksOK, KelsOK, AskDaysOK, JobsBound, DoneSigned, AcceptedSigned, StoredSigned

\* What r dates has a day.
LEMMA ForgedDay == ASSUME ClocksOK, NEW b \in Tasks!ForgedBodies PROVE b.day \in Int
<1> DEFINE day == Tasks!Day(now)
           forged(c) ==
             { [c EXCEPT !.rk = Tasks!PublicKey("other_sk")],
               [c EXCEPT !.rqc = Tasks!RequesterCommit(Tasks!Aid("r"), Tasks!RSalt)],
               [c EXCEPT !.provider = Tasks!Aid("p")], [c EXCEPT !.result = Tasks!CID(None)] }
             \cup {[c EXCEPT !.day = @ + lead] : lead \in Leads}
<1>1. day \in Int
  BY ClockDays DEF DayOK
<1>2. \E ix, d : b \in forged(Tasks!ReceiptFor(ix, Tasks!Doc, Tasks!Aid("r"), d, day))
  BY DEF Tasks!ForgedBodies
<1>3. PICK c : /\ \E ix, d : c = Tasks!ReceiptFor(ix, Tasks!Doc, Tasks!Aid("r"), d, day)
               /\ b \in forged(c)
  BY <1>2
<1>4. /\ c = [ type |-> c.type, ixc |-> c.ixc, rqc |-> c.rqc, rk |-> c.rk, provider |-> c.provider,
               request |-> c.request, result |-> c.result, day |-> c.day ]
      /\ c.day = day
  BY <1>3 DEF Tasks!ReceiptFor
<1> HIDE DEF day
<1>5. \A v : /\ [c EXCEPT !.rk = v].day = day /\ [c EXCEPT !.rqc = v].day = day
             /\ [c EXCEPT !.provider = v].day = day /\ [c EXCEPT !.result = v].day = day
  BY <1>4
<1>6. \A lead \in Leads : [c EXCEPT !.day = @ + lead].day \in Int
  BY <1>1, <1>4, DaysAssumption
<1>7. CASE b.day = day
  BY <1>1, <1>7
<1>8. CASE \E lead \in Leads : b = [c EXCEPT !.day = @ + lead]
  BY <1>6, <1>8
<1> QED
  BY <1>3, <1>5, <1>7, <1>8

\* r signs receipts with a key of its KEL.
LEMMA ForgeSigned ==
  ASSUME NilIsNoObject, SignedInv, NEW a \in asks, Tasks!Forge(a)
  PROVE  SignedInv'
<1>1. /\ \E n \in 2..Len(rival.kel) :
           \E receipt \in {Tasks!SignedByEvent(n, b) : b \in Tasks!ForgedBodies} \cup {z.resp.receipt : z \in done} :
             \E kel, d : results' = results \cup
               {[from |-> "r", kel |-> kel, ts |-> now, ix |-> a.ix, resp |-> Tasks!Result(receipt, d)]}
      /\ UNCHANGED <<now, skew, prov, rival, hubc, asks, jobs, done, accepted, stored>>
  BY Zenon DEF Tasks!Forge
<1>2. PICK n \in 2..Len(rival.kel) :
        \E receipt \in {Tasks!SignedByEvent(n, b) : b \in Tasks!ForgedBodies} \cup {z.resp.receipt : z \in done} :
          \E kel, d : results' = results \cup
            {[from |-> "r", kel |-> kel, ts |-> now, ix |-> a.ix, resp |-> Tasks!Result(receipt, d)]}
  BY <1>1
<1>3. PICK receipt \in {Tasks!SignedByEvent(n, b) : b \in Tasks!ForgedBodies} \cup {z.resp.receipt : z \in done} :
        \E kel, d : results' = results \cup
          {[from |-> "r", kel |-> kel, ts |-> now, ix |-> a.ix, resp |-> Tasks!Result(receipt, d)]}
  BY <1>2
<1>4. PICK kel, d : results' = results \cup
        {[from |-> "r", kel |-> kel, ts |-> now, ix |-> a.ix, resp |-> Tasks!Result(receipt, d)]}
  BY <1>3
<1>5. ASSUME NEW b \in Tasks!ForgedBodies PROVE SignedByR(Tasks!SignedByEvent(n, b), rival.kel)
  <2> DEFINE w == Tasks!SignedByEvent(n, b)
  <2>1. w.body = b /\ SignedAt(w, n, rival.kel, Tasks!Aid("r"))
    BY DEF Tasks!SignedByEvent, SignedAt
  <2>2. b.day \in Int
    BY ForgedDay DEF SignedInv
  <2>3. n \in 1..Len(rival.kel)
    BY DEF SignedInv, KelsOK, Kept, IsKEL
  <2>4. \E i \in 1..Len(rival.kel) : SignedAt(w, i, rival.kel, Tasks!Aid("r"))
    BY <2>1, <2>3, Zenon
  <2>5. w.body.day \in Int
    BY <2>1, <2>2, Zenon
  <2> QED
    BY <2>4, <2>5, Zenon DEF SignedByR
<1> DEFINE m == [from |-> "r", kel |-> kel, ts |-> now, ix |-> a.ix, resp |-> Tasks!Result(receipt, d)]
<1>6. results' = results \cup {m} /\ m.from = "r" /\ m.resp.receipt = receipt
  BY <1>4 DEF Tasks!Result
<1> HIDE DEF m
<1>7. ResultsSigned'
  <2>1. SignedByR(receipt, rival.kel) \/ \E z \in done : receipt = z.resp.receipt
    BY <1>5
  <2> QED
    BY <1>1, <1>6, <2>1 DEF SignedInv, ResultsSigned
<1>8. (Tasks!Clock)' = Tasks!Clock
  BY <1>1 DEF Tasks!Clock
<1> QED
  BY <1>1, <1>7, <1>8 DEF SignedInv, ClocksOK, KelsOK, AskDaysOK, JobsBound, DoneSigned, AcceptedSigned, StoredSigned

\* r replaces its key.
LEMMA RotateRivalSigned == ASSUME SignedInv, Tasks!RotateRival PROVE SignedInv'
<1>1. /\ \E shift \in Shifts : Tasks!Rotates(rival, "r", now + shift) /\ rival' = Tasks!rotated(rival, "r", now + shift)
      /\ UNCHANGED <<now, skew, prov, hubc, asks, jobs, done, results, accepted, stored>>
  BY Zenon DEF Tasks!RotateRival
<1>2. PICK shift \in Shifts :
        Tasks!Rotates(rival, "r", now + shift) /\ rival' = Tasks!rotated(rival, "r", now + shift)
  BY <1>1
<1>3. now + shift \in Int /\ (Tasks!Clock)' = Tasks!Clock
  BY <1>1, DaysAssumption DEF SignedInv, ClocksOK, Tasks!Clock
<1>4. /\ Kept(rival', Tasks!Aid("r"))
      /\ Len(rival.kel) \in Nat /\ Len(rival'.kel) = Len(rival.kel) + 1
      /\ \A i \in 1..Len(rival.kel) : rival'.kel[i] = rival.kel[i]
  BY <1>2, <1>3, TaskRotationKept DEF SignedInv, KelsOK
<1>5. ASSUME NEW w, SignedByR(w, rival.kel) PROVE SignedByR(w, rival'.kel)
  <2>1. w.body.day \in Int
    BY <1>5 DEF SignedByR
  <2>2. PICK n \in 1..Len(rival.kel) : SignedAt(w, n, rival.kel, Tasks!Aid("r"))
    BY <1>5 DEF SignedByR
  <2>3. n \in 1..Len(rival'.kel) /\ rival'.kel[n] = rival.kel[n]
    BY <1>4
  <2>4. SignedAt(w, n, rival'.kel, Tasks!Aid("r"))
    BY <2>2, <2>3 DEF SignedAt
  <2> QED
    BY <2>1, <2>3, <2>4, Zenon DEF SignedByR
<1>6. ResultsSigned'
  BY <1>1, <1>5 DEF SignedInv, ResultsSigned
<1>7. AcceptedSigned'
  <2>1. ASSUME NEW x \in accepted PROVE AcceptedOn(x, rival'.kel)
    BY <1>5 DEF SignedInv, AcceptedSigned, AcceptedOn
  <2> QED
    BY <1>1, <2>1 DEF AcceptedSigned
<1>8. KelsOK'
  BY <1>1, <1>4 DEF SignedInv, KelsOK
<1>9. ClocksOK' /\ AskDaysOK' /\ JobsBound' /\ DoneSigned' /\ StoredSigned'
  BY <1>1, <1>3 DEF SignedInv, ClocksOK, AskDaysOK, JobsBound, DoneSigned, StoredSigned
<1> QED
  BY <1>6, <1>7, <1>8, <1>9 DEF SignedInv

\* A result that q accepts names its provider, whose envelope it has.
LEMMA CheckedReceipt ==
  ASSUME NEW a, NEW m, NEW today,
         Tasks!VerifyResultForRequest(m.resp, m.kel, Tasks!Want(a), today, m.ts) = "ok"
  PROVE  LET w == m.resp.receipt
         IN  /\ Tasks!UnmarshalReceiptWire(w) /\ w.env.aid = w.body.provider
             /\ w.body.provider = Tasks!Aid(a.to)
<1> DEFINE w == m.resp.receipt
           want == Tasks!Want(a)
           b    == Tasks!ReadTaskBinding(want.doc)
<1>1. Tasks!VerifyReceipt(w, m.kel, m.ts) /\ Tasks!ReceiptIsFor(w.body, b, want, m.resp.deliverable) = "ok"
  BY DEF Tasks!VerifyResultForRequest
<1>2. want.provider = Tasks!Aid(a.to)
  BY DEF Tasks!Want
<1> HIDE DEF want, b
<1>3. w.body.provider = want.provider
  BY <1>1 DEF Tasks!ReceiptIsFor
<1>4. Tasks!UnmarshalReceiptWire(w) /\ w.env.aid = w.body.provider
  BY <1>1 DEF Tasks!VerifyReceipt
<1> QED
  BY <1>2, <1>3, <1>4

\* q accepts from r only what r signed.
LEMMA TakeResultSigned ==
  ASSUME NilIsNoObject, TasksInv, SignedInv, NEW m \in results, NEW a \in asks, Tasks!TakeResult(m, a)
  PROVE  SignedInv'
<1> DEFINE good == Tasks!VerifyResultForRequest(m.resp, m.kel, Tasks!Want(a), Tasks!Day(now), m.ts) = "ok"
           x    == [ask |-> a, resp |-> m.resp]
           w    == m.resp.receipt
<1>1. /\ a.from = "q" /\ results' = results \ {m}
      /\ accepted' = accepted \/ (good /\ accepted' = accepted \cup {x})
      /\ UNCHANGED <<now, skew, prov, rival, hubc, asks, jobs, done, stored>>
  BY DEF Tasks!TakeResult
<1>2. ASSUME good PROVE AcceptedOn(x, rival.kel)
  <2>1. /\ Tasks!UnmarshalReceiptWire(w) /\ w.env.aid = w.body.provider /\ w.body.provider = Tasks!Aid(a.to)
    BY <1>2, CheckedReceipt
  <2>2. a.to \in {"p", "r"}
    BY DEF SignedInv, AskDaysOK
  <2>3. ASSUME a.to = "r" PROVE SignedByR(w, rival.kel) /\ DayOK(w.body.day)
    <3>1. Tasks!AIDOf(m.kel) = Tasks!Aid("r")
      <4>1. a.doc = Tasks!Doc
        BY <1>1 DEF TasksInv, AsksOK
      <4> QED
        BY <1>2, <2>3, <4>1, CheckedResult
    <3>2. Tasks!Aid("r") # Tasks!Aid("p")
      BY OthersKEL
    <3>3. m.from = "r"
      <4>1. CASE m.from = "p"
        <5>1. Tasks!AIDOf(m.kel) = Tasks!Aid("p")
          BY <4>1, TaskAID DEF SignedInv, ResultsSigned, Begins, IsKEL
        <5> QED
          BY <3>1, <3>2, <5>1
      <4> QED
        BY <4>1 DEF TasksInv, ResultsOK
    <3>4. ASSUME NEW z \in done, w = z.resp.receipt PROVE FALSE
      <4>1. DoneOn(z, prov.kel, Tasks!Clock, Tasks!Day(now))
        BY DEF SignedInv, DoneSigned
      <4>2. \E b, d, y, day : z.resp.receipt.body = Tasks!ReceiptFor(b, d, Tasks!Aid("p"), y, day)
        BY <4>1, Zenon DEF DoneOn
      <4>3. z.resp.receipt.body.provider = Tasks!Aid("p")
        BY <4>2 DEF Tasks!ReceiptFor
      <4> QED
        BY <2>1, <2>3, <3>2, <3>4, <4>3
    <3>5. SignedByR(w, rival.kel)
      BY <3>3, <3>4 DEF SignedInv, ResultsSigned
    <3>6. DayOK(w.body.day)
      <4>1. Tasks!DayFits(w.body.day, a.day, Tasks!Day(now))
        BY <1>2 DEF Tasks!VerifyResultForRequest, Tasks!Want
      <4>2. 2 <= a.day /\ a.day \in Int
        BY DEF SignedInv, AskDaysOK
      <4>3. Tasks!Day(now) \in Int /\ Tasks!Day(now) + 1 <= MaxDay
        BY ClockDays DEF SignedInv, DayOK
      <4>4. w.body.day \in Int
        BY <3>5 DEF SignedByR
      <4> HIDE DEF w
      <4> QED
        BY <4>1, <4>2, <4>3, <4>4, DaysAssumption DEF Tasks!DayFits, DayOK
    <3> QED
      BY <3>5, <3>6
  <2>4. x.ask = a /\ x.resp = m.resp
    OBVIOUS
  <2> HIDE DEF x
  <2> QED
    BY <2>1, <2>2, <2>3, <2>4 DEF AcceptedOn
<1> HIDE DEF good, x
<1>3. AcceptedSigned' /\ ResultsSigned'
  BY <1>1, <1>2 DEF SignedInv, AcceptedSigned, ResultsSigned
<1>4. (Tasks!Clock)' = Tasks!Clock
  BY <1>1 DEF Tasks!Clock
<1> QED
  BY <1>1, <1>3, <1>4 DEF SignedInv, ClocksOK, KelsOK, AskDaysOK, JobsBound, DoneSigned, StoredSigned

\* The hub attests a review on the day its clock shows.
LEMMA StoreSigned ==
  ASSUME NilIsNoObject, SignedInv, NEW u, NEW rsalt, Tasks!Store(u, rsalt)
  PROVE  SignedInv'
<1>1. /\ \E p \in Tasks!Uploads :
           /\ Tasks!SignReviewAttAccepts(Tasks!AttBody(u, p[1], p[2]), hubc)
           /\ stored' = {[uploader |-> u, receipt |-> p[1], review |-> p[2],
                          att |-> Tasks!Signed(hubc, Tasks!AttBody(u, p[1], p[2]))]}
      /\ UNCHANGED <<now, skew, prov, rival, hubc, asks, jobs, done, results, accepted>>
  BY Zenon DEF Tasks!Store
<1>2. PICK p \in Tasks!Uploads :
        /\ Tasks!SignReviewAttAccepts(Tasks!AttBody(u, p[1], p[2]), hubc)
        /\ stored' = {[uploader |-> u, receipt |-> p[1], review |-> p[2],
                       att |-> Tasks!Signed(hubc, Tasks!AttBody(u, p[1], p[2]))]}
  BY <1>1
<1> DEFINE body == Tasks!AttBody(u, p[1], p[2])
           att  == Tasks!Signed(hubc, body)
           s    == [uploader |-> u, receipt |-> p[1], review |-> p[2], att |-> att]
<1>3. body.day = Tasks!Day(now) /\ body.hub = Tasks!Aid("hub")
  BY DEF Tasks!AttBody
<1>4. Tasks!checkReviewAtt(body)
  BY <1>2 DEF Tasks!SignReviewAttAccepts
<1>5. att.body = body /\ SignedOn(att, hubc.kel, Tasks!Aid("hub"), Tasks!Day(now))
  BY SignedToday DEF SignedInv, KelsOK
<1>6. Tasks!envelopeOf(att.env) /\ att.env.aid = Tasks!Aid("hub")
  BY <1>5, TaskEnvelope DEF SignedOn
<1>7. Tasks!Day(now) \in Int /\ Tasks!Day(now) >= 1 /\ Tasks!Day(now) * DayMS <= now
  BY ClockDays DEF SignedInv, DayOK
<1>8. s.att = att /\ stored' = {s}
  BY <1>2
<1> HIDE DEF s, att, body
<1>9. StoredOn(s, hubc.kel, now)
  BY <1>3, <1>4, <1>5, <1>6, <1>7, <1>8 DEF StoredOn
<1>10. StoredSigned'
  BY <1>1, <1>8, <1>9 DEF StoredSigned
<1>11. (Tasks!Clock)' = Tasks!Clock
  BY <1>1 DEF Tasks!Clock
<1> QED
  BY <1>1, <1>10, <1>11
     DEF SignedInv, ClocksOK, KelsOK, AskDaysOK, JobsBound, DoneSigned, ResultsSigned, AcceptedSigned

\* Every step.
LEMMA NextSigned ==
  ASSUME NilIsNoObject, TasksInv, SignedInv, Tasks!Next \/ UNCHANGED taskVars
  PROVE  SignedInv'
<1>1. CASE UNCHANGED taskVars
  <2>1. UNCHANGED <<now, skew, prov, rival, hubc, asks, jobs, done, results, accepted, stored>>
    BY <1>1 DEF taskVars
  <2>2. (Tasks!Clock)' = Tasks!Clock
    BY <2>1 DEF Tasks!Clock
  <2> QED
    BY <2>1, <2>2
       DEF SignedInv, ClocksOK, KelsOK, AskDaysOK, JobsBound, DoneSigned, ResultsSigned, AcceptedSigned, StoredSigned
<1>2. Tasks!Day(now) \in Int /\ 2 <= Tasks!Day(now)
  BY ClockDays DEF SignedInv, DayOK
<1>3. ASSUME NEW to \in {"p", "r"}, Tasks!Delegate(to) PROVE SignedInv'
  <2>1. PICK env : asks' = asks \cup
             {[from |-> "q", to |-> to, ix |-> Tasks!NewIx, doc |-> Tasks!Doc, env |-> env, day |-> Tasks!Day(now)]}
    BY <1>3, Zenon DEF Tasks!Delegate, Tasks!Ask
  <2>2. UNCHANGED <<now, skew, prov, rival, hubc, jobs, done, results, accepted, stored>>
    BY <1>3 DEF Tasks!Delegate
  <2> DEFINE b == [from |-> "q", to |-> to, ix |-> Tasks!NewIx, doc |-> Tasks!Doc, env |-> env, day |-> Tasks!Day(now)]
  <2>3. asks' = asks \cup {b} /\ b.to = to /\ b.day = Tasks!Day(now)
    BY <2>1
  <2> HIDE DEF b
  <2>4. 2 <= b.day /\ b.day <= Tasks!Day(now)
    BY <1>2, <2>3
  <2> QED
    BY <1>2, <2>2, <2>3, <2>4, AskSigned
<1>4. ASSUME NEW doc, Tasks!Foreign(doc) PROVE SignedInv'
  <2>1. PICK env : asks' = asks \cup
             {[from |-> "r", to |-> "p", ix |-> Tasks!NewIx, doc |-> doc, env |-> env, day |-> Tasks!Day(now)]}
    BY <1>4, Zenon DEF Tasks!Foreign, Tasks!Ask
  <2>2. UNCHANGED <<now, skew, prov, rival, hubc, jobs, done, results, accepted, stored>>
    BY <1>4 DEF Tasks!Foreign
  <2> DEFINE b == [from |-> "r", to |-> "p", ix |-> Tasks!NewIx, doc |-> doc, env |-> env, day |-> Tasks!Day(now)]
  <2>3. asks' = asks \cup {b} /\ b.to = "p" /\ b.day = Tasks!Day(now)
    BY <2>1
  <2> HIDE DEF b
  <2>4. 2 <= b.day /\ b.day <= Tasks!Day(now)
    BY <1>2, <2>3
  <2> QED
    BY <1>2, <2>2, <2>3, <2>4, AskSigned
<1>5. CASE Tasks!Next
  <2>1. \/ Tasks!Tick \/ Tasks!Rotate \/ Tasks!RotateRival \/ Tasks!RotateHub
        \/ \E to \in {"p", "r"} : Tasks!Delegate(to)
        \/ \E doc : Tasks!Foreign(doc)
        \/ \E a \in asks : Tasks!PassOn(a) \/ Tasks!TakeTask(a) \/ Tasks!Forge(a)
        \/ \E j \in jobs : \E d \in Deliverables : Tasks!Complete(j, d)
        \/ \E z \in done : Tasks!SendResult(z)
        \/ \E m \in results, a \in asks : Tasks!TakeResult(m, a)
        \/ \E u, rsalt : Tasks!Store(u, rsalt)
    BY <1>5, Zenon DEF Tasks!Next
  <2> QED
    BY <1>3, <1>4, <2>1, TickSigned, RotateSigned, RotateRivalSigned, RotateHubSigned, PassOnSigned, TakeTaskSigned, ForgeSigned,
       CompleteSigned, SendResultSigned, TakeResultSigned, StoreSigned
<1> QED
  BY <1>1, <1>5

-----------------------------------------------------------------------------
(* Task: the theorems on what was signed. *)

\* In every behaviour of the services what was signed for a task is as SignedInv says.
THEOREM SignedFor ==
  ASSUME NilIsNoObject
  PROVE  ServicesSpec => [](IF part = "tasks" THEN SignedInv ELSE NoTasks)
<1> DEFINE I == IF part = "tasks" THEN SignedInv ELSE NoTasks
<1>1. ServicesInit => I
  BY InitSigned DEF ServicesInit
<1>2. TasksInv /\ I /\ [ServicesNext]_allVars => I'
  <2> SUFFICES ASSUME TasksInv, I, [ServicesNext]_allVars PROVE I'
    OBVIOUS
  <2>1. CASE part = "tasks"
    <3>1. part' = "tasks" /\ (Tasks!Next \/ UNCHANGED taskVars)
      BY <2>1 DEF ServicesNext, allVars
    <3> QED
      BY <2>1, <3>1, NextSigned
  <2>2. CASE part # "tasks"
    <3>1. part' = part /\ UNCHANGED taskVars
      BY <2>2 DEF ServicesNext, allVars
    <3> QED
      BY <2>2, <3>1 DEF NoTasks, taskVars
  <2> QED
    BY <2>1, <2>2
<1> QED
  BY <1>1, <1>2, Delegated, PTL DEF ServicesSpec

\* What p accepted it can sign a receipt for, and a result sent before the receipt's key was
\* replaced is accepted, whatever p's clock shows and however late it comes
\* (SignReceipt, VerifyResultForRequest).
THEOREM Taken ==
  ASSUME NilIsNoObject
  PROVE  ServicesSpec => []ResultAccepted
<1>1. NoTasks => Tasks!ResultAccepted
  BY DEF NoTasks, Tasks!ResultAccepted
<1>2. ASSUME TasksInv, SignedInv, NEW j \in jobs, NEW d
      PROVE  Tasks!SignReceiptAccepts(Tasks!ReceiptFor(j.ix, j.doc, Tasks!Aid("p"), d, Tasks!Day(Tasks!Clock)), prov)
  <2> DEFINE b    == Tasks!ReadTaskBinding(j.doc)
             body == Tasks!ReceiptFor(j.ix, j.doc, Tasks!Aid("p"), d, Tasks!Day(Tasks!Clock))
  <2>1. /\ body.type = Tasks!ReceiptType /\ body.ixc = Tasks!IXCommit(j.ix, b.nonce)
        /\ body.rqc = b.rqc /\ body.rk = b.rk /\ body.provider = Tasks!Aid("p")
        /\ body.request = Tasks!CID(j.doc) /\ body.result = Tasks!CID(d)
    BY DEF Tasks!ReceiptFor
  <2>2. Tasks!commitText(b.nonce) /\ Tasks!sizedField(b.rqc) /\ Tasks!sizedField(b.rk)
    BY <1>2, Zenon DEF SignedInv, JobsBound, Tasks!ReadTaskBindingAccepts, Tasks!ReadTaskBinding
  <2>3. Tasks!commitText(j.ix)
    <3>1. j.ix \in {a.ix : a \in asks}
      BY <1>2 DEF TasksInv, JobsOK
    <3>2. PICK i : j.ix = <<"ix", i>>
      BY <1>2, <3>1 DEF TasksInv, AsksNumbered
    <3> QED
      BY <3>2 DEF NilIsNoObject, Tasks!commitText
  <2>4. Tasks!sizedField(body.ixc)
    BY <2>1, <2>2, <2>3 DEF NilIsNoObject, Tasks!IXCommit, Tasks!sizedField
  <2>5. \A x : Tasks!textField(Tasks!CID(x))
    BY DEF NilIsNoObject, Tasks!textField, Tasks!CID
  <2>6. Tasks!textField(Tasks!Aid("p")) /\ Tasks!Aid("p") = Tasks!AIDOf(prov.kel)
    <3>1. Tasks!Aid("p") = Tasks!AIDOf(prov.kel)
      BY <1>2, TaskAID DEF SignedInv, KelsOK, Kept, IsKEL
    <3> QED
      BY <2>5, <3>1 DEF Tasks!AIDOf
  <2> HIDE DEF b, body
  <2> QED
    BY <2>1, <2>2, <2>4, <2>5, <2>6 DEF Tasks!SignReceiptAccepts, Tasks!checkReceipt, body
<1>3. ASSUME TasksInv, SignedInv, NEW m \in results, NEW z \in done, m.from = "p", m.resp = z.resp,
             z.job.from = "q", m.resp.receipt.env.seq + 1 = Len(m.kel)
      PROVE  Tasks!VerifyResultForRequest(m.resp, m.kel, Tasks!Want(z.job), Tasks!Day(now), m.ts) = "ok"
  <2> DEFINE w    == m.resp.receipt
             job  == z.job
             want == Tasks!Want(job)
             b    == Tasks!ReadTaskBinding(job.doc)
             day  == w.body.day
             p    == Tasks!Aid("p")
  <2>1. DoneOn(z, prov.kel, Tasks!Clock, Tasks!Day(now))
    BY <1>3 DEF SignedInv, DoneSigned
  <2>2. PICK d \in Deliverables : /\ m.resp = Tasks!Result(w, d)
                                  /\ w.body = Tasks!ReceiptFor(job.ix, job.doc, p, d, day)
    BY <1>3, <2>1 DEF DoneOn
  <2>3. /\ w # None /\ Tasks!UnmarshalReceiptWire(w) /\ SignedOn(w, prov.kel, p, day)
        /\ job.day <= day + 1 /\ day <= Tasks!Day(now) + 1
    BY <1>3, <2>1 DEF DoneOn
  <2>4. job \in asks /\ job.to = "p" /\ job.doc # None /\ Tasks!ReadTaskBindingAccepts(job.doc)
    BY <1>3 DEF TasksInv, DoneOK, JobsOK, SignedInv, JobsBound
  <2>5. want.ix = job.ix /\ want.provider = p /\ want.doc = job.doc /\ want.day = job.day
    BY <2>4 DEF Tasks!Want
  <2>6. job.ix # None /\ p # None
    <3>1. job.ix \in {a.ix : a \in asks}
      BY <2>4
    <3>2. PICK i : job.ix = <<"ix", i>>
      BY <1>3, <3>1 DEF TasksInv, AsksNumbered
    <3> QED
      BY <3>2 DEF NilIsNoObject, Tasks!Aid, Tasks!AIDOf, Tasks!CID
  <2>7. PICK n \in 1..Len(prov.kel) : SignedAt(w, n, prov.kel, p)
    BY <2>3 DEF SignedOn
  <2>8. IsKEL(m.kel, p) /\ \A i \in 1..Len(m.kel) : m.kel[i] = prov.kel[i]
    BY <1>3 DEF SignedInv, ResultsSigned, Begins
  <2>9. n = Len(m.kel) /\ n \in 1..Len(m.kel) /\ SignedAt(w, n, m.kel, p)
    <3>1. w.env.seq = n - 1
      <4> DEFINE e == [aid |-> p, seq |-> n - 1, sig |-> <<prov.kel[n].event.key, w.body>>, ref |-> None]
      <4>1. e.seq = n - 1
        OBVIOUS
      <4>2. w.env = e
        BY <2>7 DEF SignedAt
      <4> HIDE DEF e
      <4> QED
        BY <4>1, <4>2
    <3>2. n = Len(m.kel)
      BY <1>3, <3>1
    <3>3. n \in 1..Len(m.kel)
      BY <3>2
    <3> QED
      BY <2>7, <2>8, <3>2, <3>3 DEF SignedAt
  <2>10. Tasks!VerifyReceipt(w, m.kel, m.ts)
    <3>1. w.env.aid = p
      BY <2>9, TaskEnvelope
    <3>2. w.body.provider = p
      BY <2>2 DEF Tasks!ReceiptFor
    <3>3. m.ts \in Int
      BY <1>3 DEF SignedInv, ResultsSigned
    <3>4. Tasks!VerifyBody(m.kel, w.env, m.ts, w.body)
      BY <2>8, <2>9, <3>3, SignedVerifies, TaskVerifies
    <3> QED
      BY <2>3, <3>1, <3>2, <3>4 DEF Tasks!VerifyReceipt
  <2>11. Tasks!ReceiptIsFor(w.body, b, want, m.resp.deliverable) = "ok"
    <3>1. /\ w.body.provider = p /\ w.body.ixc = Tasks!IXCommit(job.ix, b.nonce) /\ w.body.rqc = b.rqc
          /\ w.body.rk = b.rk /\ w.body.request = Tasks!CID(job.doc) /\ w.body.result = Tasks!CID(d)
      BY <2>2 DEF Tasks!ReceiptFor
    <3>2. m.resp.deliverable = d
      BY <2>2 DEF Tasks!Result
    <3> HIDE DEF w, want, b
    <3> QED
      BY <2>5, <3>1, <3>2 DEF Tasks!ReceiptIsFor
  <2>12. Tasks!DayFits(day, want.day, Tasks!Day(now))
    BY <2>3, <2>5 DEF Tasks!DayFits
  <2>13. m.kel # <<>>
    BY <2>9
  <2> HIDE DEF w, want, b, day
  <2> QED
    BY <2>3, <2>4, <2>5, <2>6, <2>10, <2>11, <2>12, <2>13 DEF Tasks!VerifyResultForRequest, w, want, b, day
<1>4. TasksInv /\ SignedInv => Tasks!ResultAccepted
  BY <1>2, <1>3 DEF Tasks!ResultAccepted
<1>5. TasksInv /\ (IF part = "tasks" THEN SignedInv ELSE NoTasks) => ResultAccepted
  BY <1>1, <1>4 DEF ResultAccepted
<1> QED
  BY <1>5, Delegated, SignedFor, PTL

-----------------------------------------------------------------------------
(* Task: reviews. *)

\* A review by the key that the receipt names passes, when the receipt does.
LEMMA ReviewPasses ==
  ASSUME NilIsNoObject, NEW w, NEW kel, NEW ask, Tasks!VerifyReceipt(w, kel, Tasks!DayStart(w.body.day)),
         w.body.day <= MaxDay, IsFor(w.body, ask)
  PROVE  /\ Tasks!CheckV2(w, Tasks!ReviewOf(w, Tasks!ReviewKey), kel)
         /\ Tasks!RequesterCommit(Tasks!Aid("q"), Tasks!RSalt) = w.body.rqc
<1> DEFINE body   == [ type |-> Tasks!ReviewType, receipt |-> Tasks!CID(w.body), subject |-> w.body.provider,
                       rating |-> 5, comment |-> None, day |-> Tasks!Day(now) ]
           review == Tasks!ReviewOf(w, Tasks!ReviewKey)
           rk     == Tasks!PublicKey(Tasks!ReviewKey)
<1>1. Tasks!UnmarshalReceiptWire(w) /\ w.body.rk = rk /\ w.body.rqc = Tasks!RequesterCommit(Tasks!Aid("q"), Tasks!RSalt)
  BY DEF IsFor, Tasks!VerifyReceipt
<1>2. Tasks!sizedField(w.body.rk) /\ Tasks!textField(w.body.provider)
  BY <1>1 DEF Tasks!UnmarshalReceiptWire, Tasks!checkReceipt
<1>3. /\ body.type = Tasks!ReviewType /\ body.receipt = Tasks!CID(w.body) /\ body.subject = w.body.provider
      /\ body.rating = 5 /\ body.comment = None
  OBVIOUS
<1>4. Tasks!textField(Tasks!CID(w.body))
  BY DEF NilIsNoObject, Tasks!textField, Tasks!CID
<1>5. review = [body |-> body, pub |-> rk, sig |-> <<rk, body>>]
  BY DEF Tasks!ReviewOf, Tasks!SignReview
<1> HIDE DEF body, rk, review
<1>6. Tasks!checkReview(body)
  BY <1>2, <1>3, <1>4 DEF NilIsNoObject, Tasks!checkReview, Tasks!Ratings
<1>7. review.body = body /\ review.pub = rk /\ review.sig = <<rk, body>>
  BY <1>5
<1>8. Tasks!VerifyReview(review, w.body.rk)
  BY <1>1, <1>2, <1>6, <1>7 DEF Tasks!VerifyReview
<1> QED
  BY <1>1, <1>3, <1>7, <1>8 DEF Tasks!CheckV2, review

\* A receipt that q accepted can be reviewed from then on, and the hub's attestation of the
\* review stays good, however often the provider and the hub replace their keys; the exceptions
\* are a key replaced at midnight sharp, and a provider that signs what it likes and has the
\* receipt's key replaced by the start of the receipt's day (CheckV2, VerifyReviewAtt).
THEOREM Reviewable ==
  ASSUME NilIsNoObject
  PROVE  ServicesSpec => []ReceiptReviewable
<1>1. NoTasks => Tasks!ReceiptReviewable
  BY DEF NoTasks, Tasks!ReceiptReviewable
<1>4. ASSUME TasksInv, SignedInv, NEW x \in accepted, ~ Tasks!Unreviewable(x)
      PROVE  Tasks!Admissible(Tasks!Aid("q"), Tasks!RSalt, x.resp.receipt, Tasks!ReviewOf(x.resp.receipt, Tasks!ReviewKey))
  <2> DEFINE w   == x.resp.receipt
             aid == Tasks!Aid(x.ask.to)
             kel == Tasks!ProviderKel(w.body.provider)
             day == w.body.day
  <2>1. /\ x.ask.to \in {"p", "r"} /\ Tasks!UnmarshalReceiptWire(w)
        /\ w.env.aid = w.body.provider /\ w.body.provider = aid
    BY <1>4 DEF SignedInv, AcceptedSigned, AcceptedOn
  <2>2. IsFor(w.body, x.ask)
    BY <1>4 DEF TasksInv, AcceptedOK
  <2>3. Tasks!VerifyBody(kel, w.env, Tasks!DayStart(day), w.body) /\ day <= MaxDay
    <3>1. CASE x.ask.to = "p"
      <4>1. PICK z \in done : z.resp = x.resp
        BY <1>4, <3>1 DEF TasksInv, AcceptedOK
      <4>2. SignedOn(w, prov.kel, Tasks!Aid("p"), day) /\ DayOK(day)
        BY <1>4, <4>1 DEF SignedInv, DoneSigned, DoneOn
      <4>3. kel = prov.kel
        BY <2>1, <3>1 DEF Tasks!ProviderKel
      <4>4. IsKEL(prov.kel, Tasks!Aid("p"))
        BY <1>4 DEF SignedInv, KelsOK, Kept
      <4>5. ~ Tasks!ReplacedAtMidnight(w.env, kel, day)
        BY <1>4, <3>1 DEF Tasks!Unreviewable
      <4> HIDE DEF w, kel, day
      <4> QED
        BY <4>2, <4>3, <4>4, <4>5, SignedOnVerifies DEF DayOK
    <3>2. CASE x.ask.to = "r"
      <4>1. SignedByR(w, rival.kel) /\ DayOK(day)
        BY <1>4, <3>2 DEF SignedInv, AcceptedSigned, AcceptedOn
      <4>2. kel = rival.kel
        BY <2>1, <3>2, OthersKEL DEF Tasks!ProviderKel
      <4>3. IsKEL(rival.kel, Tasks!Aid("r"))
        BY <1>4 DEF SignedInv, KelsOK, Kept
      <4>4. ~ Tasks!ReplacedBy(w.env, kel, Tasks!DayStart(day))
        BY <1>4, <3>2 DEF Tasks!Unreviewable
      <4> HIDE DEF w, kel, day
      <4>5. Tasks!DayStart(day) \in Int /\ Tasks!DayStart(day) # 0
        BY <4>1, DaysAssumption DEF DayOK, Tasks!DayStart
      <4>6. PICK n \in 1..Len(rival.kel) : SignedAt(w, n, rival.kel, Tasks!Aid("r"))
        BY <4>1 DEF SignedByR
      <4> QED
        BY <4>1, <4>2, <4>3, <4>4, <4>5, <4>6, SignedAtVerifies DEF DayOK
    <3> QED
      BY <2>1, <3>1, <3>2
  <2> HIDE DEF kel
  <2>4. Tasks!VerifyReceipt(w, kel, Tasks!DayStart(day))
    BY <2>1, <2>3 DEF Tasks!VerifyReceipt
  <2>5. /\ Tasks!CheckV2(w, Tasks!ReviewOf(w, Tasks!ReviewKey), kel)
        /\ Tasks!RequesterCommit(Tasks!Aid("q"), Tasks!RSalt) = w.body.rqc
    BY <2>2, <2>3, <2>4, ReviewPasses
  <2> QED
    BY <2>5 DEF Tasks!Admissible, kel
<1>5. ASSUME SignedInv, NEW s \in stored, ~ Tasks!ReplacedAtMidnight(s.att.env, hubc.kel, s.att.body.day)
      PROVE  Tasks!VerifyReviewAtt(s.att, hubc.kel, Tasks!DayStart(s.att.body.day))
  <2>1. /\ StoredOn(s, hubc.kel, now) /\ IsKEL(hubc.kel, Tasks!Aid("hub"))
    BY <1>5 DEF SignedInv, StoredSigned, KelsOK, Kept
  <2>2. Tasks!VerifyBody(hubc.kel, s.att.env, Tasks!DayStart(s.att.body.day), s.att.body)
    BY <1>5, <2>1, SignedOnVerifies DEF StoredOn
  <2> QED
    BY <2>1, <2>2 DEF StoredOn, Tasks!VerifyReviewAtt
<1>6. TasksInv /\ SignedInv => Tasks!ReceiptReviewable
  BY <1>4, <1>5 DEF Tasks!ReceiptReviewable
<1>7. TasksInv /\ (IF part = "tasks" THEN SignedInv ELSE NoTasks) => ReceiptReviewable
  BY <1>1, <1>6 DEF ReceiptReviewable
<1> QED
  BY <1>7, Delegated, SignedFor, PTL

-----------------------------------------------------------------------------
(* Induction and powers of two. *)

\* A set of naturals has a least member.
LEMMA Least ==
  ASSUME NEW S \in SUBSET Nat, S # {}
  PROVE  \E m \in S : \A n \in S : m <= n
<1>1. PICK m \in S : \A n \in S : ~(<<n, m>> \in OpToRel(<, Nat))
  BY NatLessThanWellFounded, WFMin
<1>2. \A n \in S : ~(n < m)
  BY <1>1 DEF OpToRel
<1> QED
  BY <1>2

\* Induction up to d.
LEMMA UpTo ==
  ASSUME NEW d \in Nat, NEW S, 0 \in S, \A k \in 0..(d - 1) : k \in S => k + 1 \in S
  PROVE  \A k \in 0..d : k \in S
<1> SUFFICES ASSUME ~ \A k \in 0..d : k \in S PROVE FALSE
  OBVIOUS
<1>1. {k \in 0..d : k \notin S} # {} /\ {k \in 0..d : k \notin S} \in SUBSET Nat
  OBVIOUS
<1>2. PICK m \in {k \in 0..d : k \notin S} : \A n \in {k \in 0..d : k \notin S} : m <= n
  BY <1>1, Least
<1>3. m # 0 /\ m - 1 \in 0..(d - 1) /\ m - 1 \notin S
  BY <1>2
<1>4. m - 1 \in 0..d /\ ~(m <= m - 1)
  BY <1>2
<1> QED
  BY <1>2, <1>3, <1>4

\* A power is the number of subsets.
LEMMA PowerOf ==
  ASSUME NEW n \in Nat
  PROVE  2 ^ n \in Nat /\ IsFiniteSet(SUBSET (1..n)) /\ Cardinality(SUBSET (1..n)) = 2 ^ n
<1>1. IsFiniteSet(1..n) /\ Cardinality(1..n) = n
  BY FS_Interval
<1>2. IsFiniteSet(SUBSET (1..n)) /\ Cardinality(SUBSET (1..n)) = 2 ^ n
  BY <1>1, FS_SUBSET
<1> QED
  BY <1>2, FS_CardinalityType

LEMMA PowerStep ==
  ASSUME NEW n \in Nat
  PROVE  2 ^ (n + 1) = 2 * 2 ^ n
<1> DEFINE A == SUBSET (1..n)
           B == {T \in SUBSET (1..n + 1) : n + 1 \in T}
           f == [T \in A |-> T \cup {n + 1}]
<1>1. f \in Bijection(A, B)
  <2>1. \A T \in A : T \cup {n + 1} \in B
    OBVIOUS
  <2>2. \A T, U \in A : T \cup {n + 1} = U \cup {n + 1} => T = U
    OBVIOUS
  <2>3. \A U \in B : U \ {n + 1} \in A /\ (U \ {n + 1}) \cup {n + 1} = U
    OBVIOUS
  <2>4. \A T \in A : f[T] = T \cup {n + 1}
    OBVIOUS
  <2>5. f \in [A -> B]
    BY <2>1
  <2>6. \A U \in B : \E T \in A : f[T] = U
    BY <2>3, <2>4
  <2>7. \A T, U \in A : f[T] = f[U] => T = U
    BY <2>2, <2>4
  <2> HIDE DEF f, A, B
  <2> QED
    BY <2>5, <2>6, <2>7 DEF Bijection, Injection, Surjection, IsInjective
<1>2. ExistsBijection(A, B)
  BY <1>1 DEF ExistsBijection
<1>3. IsFiniteSet(A) /\ Cardinality(A) = 2 ^ n /\ 2 ^ n \in Nat
  BY PowerOf
<1>4. IsFiniteSet(B) /\ Cardinality(B) = 2 ^ n
  BY <1>2, <1>3, FS_Bijection
<1>5. A \cup B = SUBSET (1..n + 1) /\ A \cap B = {}
  OBVIOUS
<1>6. Cardinality(A \cup B) = Cardinality(A) + Cardinality(B) - Cardinality(A \cap B)
  BY <1>3, <1>4, FS_Union
<1>7. Cardinality(A \cup B) = 2 ^ (n + 1)
  BY <1>5, PowerOf
<1>8. Cardinality(A \cap B) = 0
  BY <1>5, FS_EmptySet
<1> HIDE DEF A, B
<1> QED
  BY <1>3, <1>4, <1>6, <1>7, <1>8

LEMMA PowerPositive ==
  ASSUME NEW n \in Nat
  PROVE  2 ^ n \in Nat /\ 1 <= 2 ^ n
<1> DEFINE S == {k \in 0..n : 1 <= 2 ^ k}
<1>1. 0 \in S
  BY 2 ^ 0 = 1
<1>2. \A k \in 0..(n - 1) : k \in S => k + 1 \in S
  BY PowerStep, PowerOf
<1> HIDE DEF S
<1>3. n \in S
  BY <1>1, <1>2, UpTo
<1> QED
  BY <1>3, PowerOf DEF S

\* A larger exponent is at least another factor of two.
LEMMA PowerGrows ==
  ASSUME NEW m \in Nat, NEW n \in Nat, m < n
  PROVE  2 * 2 ^ m <= 2 ^ n
<1> DEFINE S == {k \in 0..(n - m - 1) : 2 * 2 ^ m <= 2 ^ (m + 1 + k)}
<1>1. 0 \in S
  BY PowerStep, PowerOf
<1>2. \A k \in 0..(n - m - 2) : k \in S => k + 1 \in S
  <2> SUFFICES ASSUME NEW k \in 0..(n - m - 2), k \in S PROVE k + 1 \in S
    OBVIOUS
  <2>1. m + 1 + k \in Nat /\ m + 1 + (k + 1) = (m + 1 + k) + 1
    OBVIOUS
  <2>2. 2 ^ (m + 1 + (k + 1)) = 2 * 2 ^ (m + 1 + k) /\ 1 <= 2 ^ (m + 1 + k)
    BY <2>1, PowerStep, PowerPositive
  <2>3. 2 ^ m \in Nat /\ 2 ^ (m + 1 + k) \in Nat
    BY <2>1, PowerOf
  <2> QED
    BY <2>2, <2>3
<1> HIDE DEF S
<1>3. \A k \in 0..(n - m - 1) : k \in S
  BY <1>1, <1>2, UpTo
<1> QED
  BY <1>3 DEF S

LEMMA PowerInjective ==
  ASSUME NEW m \in Nat, NEW n \in Nat, 2 ^ m = 2 ^ n
  PROVE  m = n
  BY PowerGrows, PowerPositive

-----------------------------------------------------------------------------
(* Epochs: the levels of a tree. *)

LEMMA EpochsCardinality == \A S : Epochs!Cardinality(S) = Cardinality(S)
  BY Zenon DEF Epochs!Cardinality, Cardinality

\* The level above cur.
Above(cur) ==
  [i \in 0..(Epochs!size(cur) \div 2 - 1) |->
     [hash |-> Epochs!NodeHash(cur[2 * i], cur[2 * i + 1]),
      sum  |-> Epochs!addSum(cur[2 * i].sum, cur[2 * i + 1].sum).sum]]

LEMMA LevelFacts ==
  ASSUME NEW d \in Nat, NEW leaves, NEW L, L = Epochs!levelsOf(leaves, d)
  PROVE  L = [k \in 0..d |-> IF k = 0 THEN leaves ELSE Above(L[k - 1])]
<1> DEFINE F(n, f) == f = [k \in 0..n |-> IF k = 0 THEN leaves ELSE Above(f[k - 1])]
           S == {n \in 0..d : \E f : F(n, f)}
<1>1. 0 \in S
  <2> DEFINE f == [k \in 0..0 |-> leaves]
  <2>1. F(0, f)
    OBVIOUS
  <2> HIDE DEF F, f
  <2> QED
    BY <2>1
<1>2. \A n \in 0..(d - 1) : n \in S => n + 1 \in S
  <2> SUFFICES ASSUME NEW n \in 0..(d - 1), NEW f, F(n, f) PROVE \E g : F(n + 1, g)
    OBVIOUS
  <2> DEFINE g == [k \in 0..(n + 1) |-> IF k <= n THEN f[k] ELSE Above(f[n])]
  <2>1. \A k \in 0..(n + 1) : k # 0 => g[k - 1] = f[k - 1]
    OBVIOUS
  <2>2. \A k \in 0..(n + 1) : g[k] = IF k = 0 THEN leaves ELSE Above(g[k - 1])
    BY <2>1
  <2>3. F(n + 1, g)
    BY <2>2
  <2> QED
    BY <2>3
<1> HIDE DEF S
<1>3. d \in S
  BY <1>1, <1>2, UpTo
<1>4. \E f : F(d, f)
  BY <1>3 DEF S
<1>5. L = CHOOSE f : F(d, f)
  BY DEF Epochs!levelsOf, Above
<1> HIDE DEF F
<1>6. F(d, L)
  BY <1>4, <1>5
<1> QED
  BY <1>6 DEF F

\* A level is half as long as the one below.
LEMMA SizeFacts ==
  ASSUME NEW d \in Nat, NEW leaves, DOMAIN leaves = 0..(2 ^ d - 1),
         NEW L, L = Epochs!levelsOf(leaves, d), NEW k \in 0..d
  PROVE  /\ 2 ^ (d - k) \in Nat /\ DOMAIN L[k] = 0..(2 ^ (d - k) - 1)
         /\ Epochs!size(L[k]) = 2 ^ (d - k)
<1>1. L[0] = leaves /\ \A n \in 1..d : L[n] = Above(L[n - 1])
  BY LevelFacts
<1>2. ASSUME NEW n \in 0..d, DOMAIN L[n] = 0..(2 ^ (d - n) - 1)
      PROVE  Epochs!size(L[n]) = 2 ^ (d - n)
  <2>1. d - n \in Nat /\ 2 ^ (d - n) \in Nat
    <3>1. d - n \in Nat
      OBVIOUS
    <3> QED
      BY <3>1, PowerOf
  <2>2. Cardinality(0..(2 ^ (d - n) - 1)) = 2 ^ (d - n)
    BY <2>1, FS_Interval
  <2> QED
    BY <1>2, <2>2, EpochsCardinality DEF Epochs!size
<1> DEFINE S == {n \in 0..d : DOMAIN L[n] = 0..(2 ^ (d - n) - 1)}
<1>3. 0 \in S
  BY <1>1
<1>4. \A n \in 0..(d - 1) : n \in S => n + 1 \in S
  <2> SUFFICES ASSUME NEW n \in 0..(d - 1), n \in S PROVE n + 1 \in S
    OBVIOUS
  <2>1. Epochs!size(L[n]) = 2 ^ (d - n)
    BY <1>2
  <2>2. d - (n + 1) \in Nat /\ d - n = (d - (n + 1)) + 1
    OBVIOUS
  <2>3. 2 ^ (d - n) = 2 * 2 ^ (d - (n + 1)) /\ 2 ^ (d - (n + 1)) \in Nat
    BY <2>2, PowerStep, PowerOf
  <2>4. DOMAIN L[n + 1] = 0..(Epochs!size(L[n]) \div 2 - 1)
    <3>1. n + 1 \in 1..d /\ (n + 1) - 1 = n
      OBVIOUS
    <3> QED
      BY <1>1, <3>1 DEF Above
  <2>5. 2 ^ (d - n) \div 2 = 2 ^ (d - (n + 1))
    BY <2>3
  <2> QED
    BY <2>1, <2>4, <2>5
<1> HIDE DEF S
<1>5. k \in S
  BY <1>3, <1>4, UpTo
<1>6. d - k \in Nat
  OBVIOUS
<1> QED
  BY <1>2, <1>5, <1>6, PowerOf DEF S

\* The leaves of a tree over entries.
LeavesOf(day, entries) ==
  [i \in DOMAIN entries |->
     [hash |-> Epochs!LeafHash(entries[i].aid, day, entries[i].balance, entries[i].salt),
      sum  |-> entries[i].balance]]

\* Entries of a tree of depth d.
Placed(entries, d) ==
  /\ d \in Nat /\ d <= MaxDepth /\ DOMAIN entries = 0..(2 ^ d - 1)
  /\ \A i \in DOMAIN entries : entries[i].balance \in Nat /\ entries[i].salt # None

\* What build makes of entries, unless a sum overflows.
LEMMA BuildFacts ==
  ASSUME NEW day, NEW entries, NEW d, Placed(entries, d),
         NEW t, t = Epochs!build(day, entries), t # None,
         NEW L, L = Epochs!levelsOf(LeavesOf(day, entries), d)
  PROVE  /\ t = [toDay |-> day, entries |-> entries, levels |-> L, depth |-> d]
         /\ \A k \in 0..(d - 1) : \A i \in 0..(2 ^ (d - (k + 1)) - 1) :
              Epochs!addSum(L[k][2 * i].sum, L[k][2 * i + 1].sum).ok
<1>1. MaxDepth \in Nat /\ d \in Nat /\ d \in 0..MaxDepth /\ DOMAIN entries = 0..(2 ^ d - 1)
  <2>1. MaxDepth \in Nat
    BY SumsAssumption
  <2> QED
    BY <2>1 DEF Placed
<1>2. Epochs!size(entries) = 2 ^ d
  <2>1. d \in Nat /\ 2 ^ d \in Nat
    <3>1. d \in Nat
      BY <1>1
    <3> QED
      BY <3>1, PowerOf
  <2> QED
    BY <1>1, <2>1, FS_Interval, EpochsCardinality DEF Epochs!size
<1>3. Epochs!depthOf(2 ^ d) = d
  <2>1. \A n \in 0..MaxDepth : 2 ^ n = 2 ^ d => n = d
    BY <1>1, PowerInjective
  <2> QED
    BY <2>1 DEF Epochs!depthOf
<1>4. /\ t = [toDay |-> day, entries |-> entries, levels |-> L, depth |-> d]
      /\ \A k \in 0..(d - 1) : \A i \in 0..(Epochs!size(L[k]) \div 2 - 1) :
           Epochs!addSum(L[k][2 * i].sum, L[k][2 * i + 1].sum).ok
  BY <1>2, <1>3 DEF Epochs!build, LeavesOf
<1>5. ASSUME NEW k \in 0..(d - 1)
      PROVE  Epochs!size(L[k]) \div 2 = 2 ^ (d - (k + 1))
  <2>1. DOMAIN LeavesOf(day, entries) = 0..(2 ^ d - 1)
    BY <1>1 DEF LeavesOf
  <2>2. Epochs!size(L[k]) = 2 ^ (d - k)
    BY <1>1, <2>1, SizeFacts
  <2>3. d - (k + 1) \in Nat /\ d - k = (d - (k + 1)) + 1
    BY <1>1
  <2>4. 2 ^ (d - k) = 2 * 2 ^ (d - (k + 1)) /\ 2 ^ (d - (k + 1)) \in Nat
    BY <2>3, PowerStep, PowerOf
  <2> QED
    BY <2>2, <2>4
<1> QED
  BY <1>4, <1>5

-----------------------------------------------------------------------------
(* Epochs: proofs. *)

\* What fold makes of a node and a step of the path.
Climb(cur, s) ==
  [ok   |-> cur.ok /\ Epochs!addSum(cur.sum, s.sum).ok /\ s.side \in {"L", "R"},
   hash |-> IF s.side = "L" THEN Epochs!NodeHash(s, cur) ELSE Epochs!NodeHash(cur, s),
   sum  |-> Epochs!addSum(cur.sum, s.sum).sum]

Bottom(p) ==
  [ok |-> TRUE, hash |-> Epochs!LeafHash(p.aid, p.toDay, p.balance, p.salt), sum |-> p.balance]

LEMMA FoldFacts ==
  ASSUME NEW p, Len(p.path) \in Nat
  PROVE  \E up : /\ up = [k \in 0..Len(p.path) |-> IF k = 0 THEN Bottom(p) ELSE Climb(up[k - 1], p.path[k])]
                 /\ Epochs!fold(p) = up[Len(p.path)]
<1> DEFINE d == Len(p.path)
           F(n, f) == f = [k \in 0..n |-> IF k = 0 THEN Bottom(p) ELSE Climb(f[k - 1], p.path[k])]
           S == {n \in 0..d : \E f : F(n, f)}
           up == CHOOSE f : F(d, f)
<1> HIDE DEF F
<1>1. 0 \in S
  <2> DEFINE f == [k \in 0..0 |-> Bottom(p)]
  <2>1. f = [k \in 0..0 |-> IF k = 0 THEN Bottom(p) ELSE Climb(f[k - 1], p.path[k])]
    <3>1. \A k \in 0..0 : Bottom(p) = IF k = 0 THEN Bottom(p) ELSE Climb(f[k - 1], p.path[k])
      OBVIOUS
    <3> QED
      BY <3>1, Zenon
  <2>2. F(0, f)
    BY <2>1 DEF F
  <2> HIDE DEF f
  <2> QED
    BY <2>2
<1>2. \A n \in 0..(d - 1) : n \in S => n + 1 \in S
  <2> SUFFICES ASSUME NEW n \in 0..(d - 1), NEW f, F(n, f) PROVE \E g : F(n + 1, g)
    OBVIOUS
  <2> DEFINE g == [k \in 0..(n + 1) |-> IF k <= n THEN f[k] ELSE Climb(f[n], p.path[n + 1])]
  <2>1. \A k \in 0..(n + 1) : k # 0 => g[k - 1] = f[k - 1]
    OBVIOUS
  <2>2. \A k \in 0..(n + 1) : g[k] = IF k = 0 THEN Bottom(p) ELSE Climb(g[k - 1], p.path[k])
    BY <2>1 DEF F
  <2>3. F(n + 1, g)
    BY <2>2 DEF F
  <2> QED
    BY <2>3
<1> HIDE DEF S
<1>3. d \in S
  <2>1. \A n \in 0..Len(p.path) : n \in S
    BY <1>1, <1>2, UpTo
  <2> QED
    BY <2>1
<1>4. \E f : F(d, f)
  BY <1>3 DEF S
<1>5. Epochs!fold(p) = up[d]
  BY DEF Epochs!fold, Bottom, Climb, F
<1>6. F(d, up)
  BY <1>4
<1> HIDE DEF up
<1>7. up = [k \in 0..d |-> IF k = 0 THEN Bottom(p) ELSE Climb(up[k - 1], p.path[k])]
  BY <1>6 DEF F
<1> QED
  BY <1>5, <1>7

\* Halving a position twice as far up.
LEMMA Halves ==
  ASSUME NEW i \in Nat, NEW q \in Nat, 1 <= q
  PROVE  /\ i \div q \in Nat /\ i \div (2 * q) = (i \div q) \div 2
         /\ \A n \in Nat : i < n * q => i \div q < n
  OBVIOUS

\* The two orders of a sum.
LEMMA AddFacts ==
  ASSUME NEW a \in Int, NEW b \in Int
  PROVE  /\ Epochs!addSum(a, b) = Epochs!addSum(b, a) /\ Epochs!addSum(a, b).sum \in 0..WordMax
         /\ Epochs!addSum(a, b).ok \in BOOLEAN
<1>1. WordMax \in Nat /\ MaxSum \in Nat
  BY SumsAssumption, WordsAssumption
<1>2. (a + b) % (WordMax + 1) \in 0..WordMax
  BY <1>1
<1> QED
  BY <1>1, <1>2 DEF Epochs!addSum, Epochs!wrap

\* Every node has a sum.
LEMMA LevelSums ==
  ASSUME NEW d \in Nat, NEW leaves, DOMAIN leaves = 0..(2 ^ d - 1),
         \A i \in DOMAIN leaves : leaves[i].sum \in Nat,
         NEW L, L = Epochs!levelsOf(leaves, d), NEW k \in 0..d, NEW i \in 0..(2 ^ (d - k) - 1)
  PROVE  L[k][i].sum \in Nat
<1>1. L[0] = leaves /\ \A n \in 1..d : L[n] = Above(L[n - 1])
  BY LevelFacts
<1>2. \A n \in 0..d : DOMAIN L[n] = 0..(2 ^ (d - n) - 1) /\ 2 ^ (d - n) \in Nat
                    /\ Epochs!size(L[n]) = 2 ^ (d - n)
  BY SizeFacts
<1> DEFINE P(n) == \A j \in DOMAIN L[n] : L[n][j].sum \in Nat
           S == {n \in 0..d : P(n)}
<1>3. P(0)
  BY <1>1
<1>4. ASSUME NEW n \in 0..(d - 1), P(n) PROVE P(n + 1)
  <2> SUFFICES ASSUME NEW j \in DOMAIN L[n + 1] PROVE L[n + 1][j].sum \in Nat
    OBVIOUS
  <2>1. n + 1 \in 1..d /\ (n + 1) - 1 = n /\ n \in 0..d
    OBVIOUS
  <2>2. L[n + 1] = Above(L[n])
    BY <1>1, <2>1
  <2>3. 2 * j \in DOMAIN L[n] /\ 2 * j + 1 \in DOMAIN L[n]
    <3>1. DOMAIN L[n + 1] = 0..(2 ^ (d - n) \div 2 - 1)
      BY <1>2, <2>1, <2>2 DEF Above
    <3>2. 2 ^ (d - n) \in Nat /\ DOMAIN L[n] = 0..(2 ^ (d - n) - 1)
      BY <1>2, <2>1
    <3> QED
      BY <3>1, <3>2
  <2>4. L[n][2 * j].sum \in Nat /\ L[n][2 * j + 1].sum \in Nat
    BY <1>4, <2>3
  <2>5. Epochs!addSum(L[n][2 * j].sum, L[n][2 * j + 1].sum).sum \in Nat
    <3>1. L[n][2 * j].sum \in Int /\ L[n][2 * j + 1].sum \in Int
      BY <2>4
    <3>2. Epochs!addSum(L[n][2 * j].sum, L[n][2 * j + 1].sum).sum \in 0..WordMax
      BY <3>1, AddFacts
    <3>3. WordMax \in Nat
      BY WordsAssumption
    <3> QED
      BY <3>2, <3>3
  <2> QED
    BY <2>2, <2>5 DEF Above
<1> HIDE DEF P
<1>5. 0 \in S /\ \A n \in 0..(d - 1) : n \in S => n + 1 \in S
  BY <1>3, <1>4
<1> HIDE DEF S
<1>6. k \in S
  BY <1>5, UpTo
<1> QED
  BY <1>2, <1>6 DEF P, S

\* A path of d steps, each of which says on which side its node is.
IsPath(path, d) ==
  /\ path \in Seq({path[k] : k \in 1..d}) /\ Len(path) = d
  /\ \A k \in 1..d : path[k].side \in {"L", "R"}

\* The path of a tree's own proof leads to its root, and no sum on it overflows.
LEMMA PathFacts ==
  ASSUME NEW day, NEW entries, NEW d, Placed(entries, d),
         NEW t, t = Epochs!build(day, entries), t # None,
         NEW i \in DOMAIN entries, NEW p, p = Epochs!proofAt(t, i)
  PROVE  /\ p.aid = entries[i].aid /\ p.toDay = day /\ p.balance = entries[i].balance
         /\ IsPath(p.path, d)
         /\ Epochs!fold(p) = [ok |-> TRUE, hash |-> Epochs!Root(t), sum |-> Epochs!Outstanding(t)]
<1> DEFINE leaves == LeavesOf(day, entries)
<1>0. DOMAIN entries = 0..(2 ^ d - 1) /\ \A j \in DOMAIN entries : entries[j].balance \in Nat
  BY DEF Placed
<1>1. d \in Nat /\ i \in Nat
  <2>1. d \in Nat
    BY DEF Placed
  <2>2. 2 ^ d \in Nat
    BY <2>1, PowerOf
  <2> QED
    BY <1>0, <2>1, <2>2
<1>2. DOMAIN leaves = 0..(2 ^ d - 1) /\ \A j \in DOMAIN leaves : leaves[j].sum \in Nat
  BY <1>0 DEF LeavesOf
<1>3. PICK L : L = Epochs!levelsOf(leaves, d)
  OBVIOUS
<1>4. /\ t = [toDay |-> day, entries |-> entries, levels |-> L, depth |-> d]
      /\ \A n \in 0..(d - 1) : \A j \in 0..(2 ^ (d - (n + 1)) - 1) :
           Epochs!addSum(L[n][2 * j].sum, L[n][2 * j + 1].sum).ok
  BY <1>3, BuildFacts
<1> HIDE DEF leaves
<1>5. L[0] = leaves /\ \A n \in 1..d : L[n] = Above(L[n - 1])
  BY <1>1, <1>3, LevelFacts
<1>6. \A n \in 0..d : /\ DOMAIN L[n] = 0..(2 ^ (d - n) - 1) /\ 2 ^ (d - n) \in Nat
                     /\ Epochs!size(L[n]) = 2 ^ (d - n)
  BY <1>1, <1>2, <1>3, SizeFacts
<1>7. \A n \in 0..d : \A j \in DOMAIN L[n] : L[n][j].sum \in Nat
  BY <1>1, <1>2, <1>3, <1>6, LevelSums
<1> DEFINE pos(k) == i \div (2 ^ k)
           step(k) == IF pos(k) % 2 = 1 THEN Epochs!Step(L[k][pos(k) - 1], "L")
                                        ELSE Epochs!Step(L[k][pos(k) + 1], "R")
<1>8. p = [ aid |-> entries[i].aid, toDay |-> day, balance |-> entries[i].balance,
            salt |-> entries[i].salt, path |-> [k \in 1..d |-> step(k - 1)] ]
  BY <1>4 DEF Epochs!proofAt
<1> HIDE DEF step
<1>9. Len(p.path) = d /\ \A k \in 1..d : p.path[k] = step(k - 1)
  BY <1>1, <1>8
<1>10. PICK up : /\ up = [k \in 0..d |-> IF k = 0 THEN Bottom(p) ELSE Climb(up[k - 1], p.path[k])]
                 /\ Epochs!fold(p) = up[d]
  BY <1>1, <1>9, FoldFacts
<1> DEFINE P(k) == /\ pos(k) \in DOMAIN L[k]
                   /\ up[k] = [ok |-> TRUE, hash |-> L[k][pos(k)].hash, sum |-> L[k][pos(k)].sum]
           S == {k \in 0..d : P(k)}
<1>11. P(0)
  <2>1. pos(0) = i
    BY <1>1, 2 ^ 0 = 1
  <2>2. up[0] = Bottom(p)
    BY <1>1, <1>10
  <2> QED
    <3>1. L[0] = LeavesOf(day, entries)
      BY <1>5 DEF leaves
    <3>2. pos(0) \in DOMAIN L[0]
      BY <2>1, <3>1 DEF LeavesOf
    <3>3. /\ L[0][i].hash = Epochs!LeafHash(entries[i].aid, day, entries[i].balance, entries[i].salt)
          /\ L[0][i].sum = entries[i].balance
      BY <3>1 DEF LeavesOf
    <3>4. up[0] = [ok |-> TRUE, hash |-> L[0][i].hash, sum |-> L[0][i].sum]
      BY <1>8, <2>2, <3>3 DEF Bottom
    <3> HIDE DEF pos
    <3> QED
      BY <2>1, <3>2, <3>4
<1>12. ASSUME NEW k \in 0..(d - 1), P(k) PROVE P(k + 1)
  <2>1. k + 1 \in 1..d /\ (k + 1) - 1 = k /\ k \in 0..d /\ k \in Nat /\ k + 1 \in 0..d
    BY <1>1
  <2>2. pos(k) \in Nat /\ pos(k + 1) = pos(k) \div 2
    <3>1. 2 ^ (k + 1) = 2 * 2 ^ k /\ 2 ^ k \in Nat /\ 1 <= 2 ^ k
      BY <2>1, PowerStep, PowerPositive
    <3> QED
      BY <1>1, <3>1, Halves
  <2> HIDE DEF pos
  <2>3. L[k + 1] = Above(L[k]) /\ p.path[k + 1] = step(k) /\ up[k + 1] = Climb(up[k], p.path[k + 1])
    <3>1. \A n \in 0..d : up[n] = IF n = 0 THEN Bottom(p) ELSE Climb(up[n - 1], p.path[n])
      BY <1>10
    <3>2. up[k + 1] = Climb(up[(k + 1) - 1], p.path[k + 1])
      BY <2>1, <3>1
    <3> QED
      BY <1>5, <1>9, <2>1, <3>2
  <2>4. DOMAIN L[k + 1] = 0..(2 ^ (d - k) \div 2 - 1) /\ 2 ^ (d - k) \in Nat
    BY <1>6, <2>1, <2>3 DEF Above
  <2> DEFINE j == pos(k) \div 2
  <2>5. 2 * j \in DOMAIN L[k] /\ 2 * j + 1 \in DOMAIN L[k] /\ j \in DOMAIN L[k + 1]
    <3>1. d - (k + 1) \in Nat /\ d - k = (d - (k + 1)) + 1
      BY <1>1
    <3>2. 2 ^ (d - k) = 2 * 2 ^ (d - (k + 1)) /\ 2 ^ (d - (k + 1)) \in Nat
      BY <3>1, PowerStep, PowerOf
    <3>3. DOMAIN L[k] = 0..(2 ^ (d - k) - 1) /\ pos(k) \in DOMAIN L[k]
      BY <1>6, <1>12, <2>1 DEF P
    <3>4. DOMAIN L[k + 1] = 0..(2 ^ (d - (k + 1)) - 1)
      BY <1>6, <2>1
    <3>5. \A n \in Nat : \A x \in 0..(2 * n - 1) :
            2 * (x \div 2) \in 0..(2 * n - 1) /\ 2 * (x \div 2) + 1 \in 0..(2 * n - 1) /\ x \div 2 \in 0..(n - 1)
      OBVIOUS
    <3> QED
      BY <3>2, <3>3, <3>4, <3>5
  <2>6. Epochs!addSum(L[k][2 * j].sum, L[k][2 * j + 1].sum).ok
    <3>1. DOMAIN L[k + 1] = 0..(2 ^ (d - (k + 1)) - 1)
      BY <1>6, <2>1
    <3> QED
      BY <1>4, <2>5, <3>1
  <2>7. L[k][2 * j].sum \in Int /\ L[k][2 * j + 1].sum \in Int
    BY <1>7, <2>1, <2>5
  <2>8. /\ L[k + 1][j].hash = Epochs!NodeHash(L[k][2 * j], L[k][2 * j + 1])
        /\ L[k + 1][j].sum = Epochs!addSum(L[k][2 * j].sum, L[k][2 * j + 1].sum).sum
    BY <2>3, <2>5 DEF Above
  <2>9. up[k] = [ok |-> TRUE, hash |-> L[k][pos(k)].hash, sum |-> L[k][pos(k)].sum]
    BY <1>12 DEF P
  <2>10. up[k + 1] = [ok |-> TRUE, hash |-> L[k + 1][j].hash, sum |-> L[k + 1][j].sum]
    <3>1. CASE pos(k) % 2 = 1
      <4>1. pos(k) = 2 * j + 1 /\ pos(k) - 1 = 2 * j
        BY <2>2, <3>1
      <4> HIDE DEF j
      <4>2. step(k) = [hash |-> L[k][2 * j].hash, sum |-> L[k][2 * j].sum, side |-> "L"]
        BY <3>1, <4>1 DEF step, Epochs!Step
      <4>3. Epochs!addSum(L[k][2 * j + 1].sum, L[k][2 * j].sum) = Epochs!addSum(L[k][2 * j].sum, L[k][2 * j + 1].sum)
        BY <2>7, AddFacts
      <4>4. Climb(up[k], step(k)) =
              [ ok |-> up[k].ok /\ Epochs!addSum(up[k].sum, step(k).sum).ok /\ step(k).side \in {"L", "R"},
                hash |-> Epochs!NodeHash(step(k), up[k]), sum |-> Epochs!addSum(up[k].sum, step(k).sum).sum ]
        BY <4>2 DEF Climb
      <4>5. up[k].ok = TRUE /\ up[k].hash = L[k][2 * j + 1].hash /\ up[k].sum = L[k][2 * j + 1].sum
        BY <2>9, <4>1
      <4>6. step(k).sum = L[k][2 * j].sum /\ step(k).side = "L" /\ step(k).hash = L[k][2 * j].hash
        BY <4>2
      <4> HIDE DEF step
      <4>7. Epochs!NodeHash(step(k), up[k]) = L[k + 1][j].hash
        BY <2>8, <4>5, <4>6 DEF Epochs!NodeHash
      <4>8. Epochs!addSum(up[k].sum, step(k).sum).ok /\ Epochs!addSum(up[k].sum, step(k).sum).sum = L[k + 1][j].sum
        BY <2>6, <2>8, <4>3, <4>5, <4>6
      <4>9. (up[k].ok /\ Epochs!addSum(up[k].sum, step(k).sum).ok /\ step(k).side \in {"L", "R"}) = TRUE
        BY <4>5, <4>6, <4>8
      <4> QED
        BY <2>3, <4>4, <4>7, <4>8, <4>9
    <3>2. CASE pos(k) % 2 # 1
      <4>1. pos(k) = 2 * j
        BY <2>2, <3>2
      <4> HIDE DEF j
      <4>2. step(k) = [hash |-> L[k][2 * j + 1].hash, sum |-> L[k][2 * j + 1].sum, side |-> "R"]
        BY <3>2, <4>1 DEF step, Epochs!Step
      <4>4. Climb(up[k], step(k)) =
              [ ok |-> up[k].ok /\ Epochs!addSum(up[k].sum, step(k).sum).ok /\ step(k).side \in {"L", "R"},
                hash |-> Epochs!NodeHash(up[k], step(k)), sum |-> Epochs!addSum(up[k].sum, step(k).sum).sum ]
        BY <4>2 DEF Climb
      <4>5. up[k].ok = TRUE /\ up[k].hash = L[k][2 * j].hash /\ up[k].sum = L[k][2 * j].sum
        BY <2>9, <4>1
      <4>6. step(k).sum = L[k][2 * j + 1].sum /\ step(k).side = "R" /\ step(k).hash = L[k][2 * j + 1].hash
        BY <4>2
      <4> HIDE DEF step
      <4>7. Epochs!NodeHash(up[k], step(k)) = L[k + 1][j].hash
        BY <2>8, <4>5, <4>6 DEF Epochs!NodeHash
      <4>8. Epochs!addSum(up[k].sum, step(k).sum).ok /\ Epochs!addSum(up[k].sum, step(k).sum).sum = L[k + 1][j].sum
        BY <2>6, <2>8, <4>5, <4>6
      <4>9. (up[k].ok /\ Epochs!addSum(up[k].sum, step(k).sum).ok /\ step(k).side \in {"L", "R"}) = TRUE
        BY <4>5, <4>6, <4>8
      <4> QED
        BY <2>3, <4>4, <4>7, <4>8, <4>9
    <3> QED
      BY <3>1, <3>2
  <2> HIDE DEF step
  <2> QED
    BY <2>2, <2>5, <2>10 DEF P
<1> HIDE DEF P
<1>13. 0 \in S /\ \A k \in 0..(d - 1) : k \in S => k + 1 \in S
  <2>1. 0 \in 0..d /\ \A k \in 0..(d - 1) : k \in 0..d /\ k + 1 \in 0..d
    BY <1>1
  <2> QED
    BY <1>11, <1>12, <2>1
<1> HIDE DEF S
<1>14. P(d)
  <2>1. d \in S
    <3>1. \A k \in 0..d : k \in S
      BY <1>1, <1>13, UpTo
    <3> QED
      BY <1>1, <3>1
  <2> QED
    BY <2>1 DEF S
<1>15. pos(d) = 0
  <2>1. DOMAIN L[d] = 0..0
    <3>1. d - d = 0 /\ d \in 0..d
      BY <1>1
    <3>2. DOMAIN L[d] = 0..(2 ^ 0 - 1)
      BY <1>6, <3>1
    <3> QED
      BY <3>2, 2 ^ 0 = 1
  <2> QED
    BY <1>14, <2>1 DEF P
<1>16. Epochs!fold(p) = [ok |-> TRUE, hash |-> Epochs!Root(t), sum |-> Epochs!Outstanding(t)]
  <2>1. Epochs!Root(t) = L[d][0].hash /\ Epochs!Outstanding(t) = L[d][0].sum
    BY <1>4 DEF Epochs!Root, Epochs!Outstanding
  <2> HIDE DEF pos
  <2> QED
    BY <1>10, <1>14, <1>15, <2>1 DEF P
<1>17. \A k \in 1..d : p.path[k].side \in {"L", "R"}
  <2>1. \A k : step(k).side \in {"L", "R"}
    BY DEF step, Epochs!Step
  <2> QED
    BY <1>9, <2>1
<1>18. p.path \in Seq({p.path[k] : k \in 1..d})
  <2>1. p.path = [k \in 1..d |-> p.path[k]]
    BY <1>8
  <2> QED
    BY <1>1, <2>1
<1>20. IsPath(p.path, d)
  BY <1>9, <1>17, <1>18 DEF IsPath
<1>19. p.aid = entries[i].aid /\ p.toDay = day /\ p.balance = entries[i].balance
  BY <1>8
<1> HIDE DEF pos
<1> QED
  BY <1>16, <1>19, <1>20

-----------------------------------------------------------------------------
(* Epochs: the invariant. *)

\* An entry of an epoch in which owed was what the hub owed.
EntryOK(x, o) ==
  /\ x.balance \in Nat /\ x.salt \in Nat \X Nat
  /\ x.aid # Epochs!NoAID => x.aid \in DOMAIN o /\ x.balance = o[x.aid]

\* An epoch of day n that an honest hub closed: its entries build a tree, and the record is of it.
EpochOK(n, x) ==
  LET t == Epochs!build(n, x.entries)
  IN  \E d \in MinDepth..MaxDepth :
        /\ DOMAIN x.entries = 0..(2 ^ d - 1)
        /\ \A i \in DOMAIN x.entries : EntryOK(x.entries[i], x.owed)
        /\ t # None /\ x.rec # None
        /\ x.rec = Epochs!SupplyEpochRecord(
             Epochs!SupplyEpoch(n, n, Epochs!Root(t), Epochs!Outstanding(t), d))

\* A finding of an account of an honest hub is about one of the entries.
FindingOK(v, es) ==
  /\ v = [epoch |-> v.epoch, aid |-> v.aid, balance |-> v.balance, finding |-> v.finding]
  /\ v.finding = "ok" /\ v.aid # Epochs!NoAID /\ v.epoch \in 1..Len(es)
  /\ \E i \in DOMAIN es[v.epoch].entries :
       es[v.epoch].entries[i].aid = v.aid /\ es[v.epoch].entries[i].balance = v.balance

IsLog(es) == es \in Seq({es[n] : n \in 1..Len(es)})

HonestInv ==
  /\ IsFiniteSet(DOMAIN owed) /\ \A a \in DOMAIN owed : a # Epochs!NoAID /\ owed[a] \in Nat
  /\ IsLog(epochs)
  /\ \A n \in 1..Len(epochs) : EpochOK(n, epochs[n])
  /\ tree # None => \E n \in 1..Len(epochs) : tree = Epochs!build(n, epochs[n].entries)
  /\ \A v \in verdicts : FindingOK(v, epochs)

\* A tree of depth d over entries, whatever the sums of its nodes.
IsForged(t, entries, d) ==
  /\ t.toDay = 1 /\ t.entries = entries /\ t.depth = d
  /\ \A k \in 0..d : \A i \in 0..(2 ^ (d - k) - 1) : t.levels[k][i].sum \in Nat
  /\ \A i \in 0..(2 ^ d - 1) : t.levels[0][i].hash =
       Epochs!LeafHash(entries[i].aid, 1, entries[i].balance, entries[i].salt)
  /\ \A k \in 1..d : \A i \in 0..(2 ^ (d - k) - 1) : t.levels[k][i].hash =
       Epochs!NodeHash(t.levels[k - 1][2 * i], t.levels[k - 1][2 * i + 1])

\* The node of the level k above the leaf i has the sum of its two children.
Adds(t, k, i) ==
  LET n == i \div (2 ^ k)
  IN  t.levels[k][n].sum = t.levels[k - 1][2 * n].sum + t.levels[k - 1][2 * n + 1].sum

\* From the leaf at i, which has the balance of its entry, to the root every sum adds up.
SumsUp(t, entries, d, i) ==
  /\ t.levels[0][i].sum = entries[i].balance
  /\ \A k \in 1..d : Adds(t, k, i)

\* A finding of an account of a hub that makes up its sums is about an entry of the tree t of
\* depth d, and the sums above it add up.
ForgedFinding(v, t, entries, d) ==
  /\ v = [epoch |-> 1, aid |-> v.aid, balance |-> v.balance, finding |-> "ok"]
  /\ \E i \in DOMAIN entries : /\ entries[i].aid = v.aid /\ entries[i].balance = v.balance
                               /\ SumsUp(t, entries, d, i)

\* The epoch of such a hub, for the tree t, and what was found of it.
ForgedEpoch(x, d, t) ==
  /\ Placed(x.entries, d) /\ IsForged(t, x.entries, d) /\ x.rec # None
  /\ x.rec = Epochs!SupplyEpochRecord(Epochs!SupplyEpoch(1, 1, Epochs!Root(t), Epochs!Outstanding(t), d))
  /\ tree # None => tree = t
  /\ \A v \in verdicts : ForgedFinding(v, t, x.entries, d)

ForgedInv ==
  \/ epochs = <<>> /\ tree = None /\ verdicts = {}
  \/ \E x \in {epochs[1]}, d \in MinDepth..MaxDepth : \E t : epochs = <<x>> /\ ForgedEpoch(x, d, t)

EpochsInv == honest \in BOOLEAN /\ IF honest THEN HonestInv ELSE ForgedInv

\* None, which stands for nil, is no hash, no salt, no proof and no supply epoch.
NilIsNoHash ==
  /\ \A x, y : <<x, y>> # None
  /\ \A aid, day, balanceOf, salt : Epochs!LeafHash(aid, day, balanceOf, salt) # None
  /\ \A l, r : Epochs!NodeHash(l, r) # None
  /\ \A p : p = [ aid |-> p.aid, toDay |-> p.toDay, balance |-> p.balance, salt |-> p.salt,
                   path |-> p.path ] => p # None
  /\ \A from, to, root, sum, depth : Epochs!SupplyEpoch(from, to, root, sum, depth) # None

-----------------------------------------------------------------------------
(* Epochs: an audit. *)

\* Every node of a tree has a hash.
LEMMA HashFacts ==
  ASSUME NilIsNoHash, NEW d \in Nat, NEW day, NEW entries, DOMAIN entries = 0..(2 ^ d - 1),
         NEW L, L = Epochs!levelsOf(LeavesOf(day, entries), d), NEW k \in 0..d, NEW i \in DOMAIN L[k]
  PROVE  L[k][i].hash # None
<1>1. L[0] = LeavesOf(day, entries) /\ \A n \in 1..d : L[n] = Above(L[n - 1])
  BY LevelFacts
<1>2. CASE k = 0
  BY <1>1, <1>2 DEF LeavesOf, NilIsNoHash
<1>3. CASE k # 0
  <2>1. L[k] = Above(L[k - 1])
    BY <1>1, <1>3
  <2> QED
    BY <2>1 DEF Above, NilIsNoHash
<1> QED
  BY <1>2, <1>3

\* What an account is sent parses to the proof the hub made.
LEMMA WireFacts ==
  ASSUME NilIsNoHash, NEW d \in Nat, d <= MaxDepth, NEW p,
         p = [ aid |-> p.aid, toDay |-> p.toDay, balance |-> p.balance, salt |-> p.salt, path |-> p.path ],
         p.salt # None, Len(p.path) = d, p.path \in Seq({p.path[k] : k \in 1..d}),
         \A k \in 1..d : p.path[k] = [hash |-> p.path[k].hash, sum |-> p.path[k].sum, side |-> p.path[k].side],
         \A k \in 1..d : p.path[k].hash # None /\ p.path[k].side \in {"L", "R"}
  PROVE  Epochs!Parse(Epochs!Wire(p)) = p
<1>1. \A x : Epochs!ParseHex(Epochs!Hex(x)) = x
  BY DEF Epochs!ParseHex, Epochs!Hex
<1> DEFINE w == Epochs!Wire(p)
           path == [k \in DOMAIN w.path |->
                      [hash |-> Epochs!ParseHex(w.path[k].h), sum |-> w.path[k].sum, side |-> w.path[k].side]]
<1>2. /\ w.aid = p.aid /\ w.toDay = p.toDay /\ w.balance = p.balance
      /\ w.salt = Epochs!Hex(p.salt) /\ DOMAIN p.path = 1..d
      /\ w.path = [k \in 1..d |->
           [h |-> Epochs!Hex(p.path[k].hash), sum |-> p.path[k].sum, side |-> p.path[k].side]]
  BY DEF Epochs!Wire
<1>3. Len(w.path) = d /\ DOMAIN w.path = 1..d
  BY <1>2
<1> HIDE DEF w
<1>4. \A k \in 1..d : /\ w.path[k].side = p.path[k].side /\ w.path[k].sum = p.path[k].sum
                      /\ Epochs!ParseHex(w.path[k].h) = p.path[k].hash
  BY <1>1, <1>2
<1>5. Epochs!Parse(w) =
        [ aid |-> w.aid, toDay |-> w.toDay, balance |-> w.balance, salt |-> Epochs!ParseHex(w.salt),
          path |-> path ]
  <2>1. Epochs!ParseHex(w.salt) # None
    BY <1>1, <1>2
  <2>2. \A k \in DOMAIN w.path : ~(Epochs!ParseHex(w.path[k].h) = None \/ w.path[k].side \notin {"L", "R"})
    BY <1>3, <1>4
  <2>3. ~(Len(w.path) > MaxDepth)
    <3>1. MaxDepth \in Nat
      BY SumsAssumption
    <3> QED
      BY <1>3, <3>1
  <2> QED
    BY <2>1, <2>2, <2>3 DEF Epochs!Parse
<1>6. path = p.path
  <2>1. path = [k \in 1..d |-> p.path[k]]
    BY <1>3, <1>4
  <2>2. p.path = [k \in 1..d |-> p.path[k]]
    BY <1>2
  <2> QED
    BY <2>1, <2>2
<1> HIDE DEF path
<1> QED
  BY <1>1, <1>2, <1>5, <1>6 DEF w

\* The record of a supply epoch parses to it.
LEMMA RecordFacts ==
  ASSUME NilIsNoHash, NEW from, NEW to, NEW root, root # None, NEW sum, NEW depth, NEW rec,
         rec = Epochs!SupplyEpochRecord(Epochs!SupplyEpoch(from, to, root, sum, depth)), rec # None
  PROVE  /\ sum <= MaxSum /\ depth \in MinDepth..MaxDepth
         /\ rec.outstanding = sum /\ rec.to_day = to
         /\ Epochs!ParseSupplyEpoch(rec) = Epochs!SupplyEpoch(from, to, root, sum, depth)
<1> DEFINE p == Epochs!SupplyEpoch(from, to, root, sum, depth)
<1>1. /\ p.fromDay = from /\ p.toDay = to /\ p.root = root /\ p.outstanding = sum /\ p.depth = depth
  BY DEF Epochs!SupplyEpoch
<1>2. \A x : Epochs!ParseHex(Epochs!Hex(x)) = x
  BY DEF Epochs!ParseHex, Epochs!Hex
<1> HIDE DEF p
<1>3. Epochs!check(p)
  BY DEF Epochs!SupplyEpochRecord, p
<1>4. rec = [v |-> 2, from_day |-> from, to_day |-> to, root |-> Epochs!Hex(root),
             outstanding |-> sum, depth |-> depth]
  BY <1>1, <1>3 DEF Epochs!SupplyEpochRecord, p
<1>5. /\ DOMAIN rec = {"v", "from_day", "to_day", "root", "outstanding", "depth"}
      /\ rec.v = 2 /\ rec.from_day = from /\ rec.to_day = to /\ rec.outstanding = sum /\ rec.depth = depth
      /\ Epochs!ParseHex(rec.root) = root
  BY <1>2, <1>4
<1>6. Epochs!ParseSupplyEpoch(rec) = p
  BY <1>1, <1>3, <1>5 DEF Epochs!ParseSupplyEpoch, p
<1> QED
  BY <1>1, <1>3, <1>5, <1>6 DEF Epochs!check, p

LEMMA DepthRange ==
  ASSUME NEW d \in MinDepth..MaxDepth
  PROVE  /\ d \in 0..MaxDepth /\ d \in Nat /\ 1 <= d /\ MinDepth <= d /\ d <= MaxDepth
         /\ MinDepth \in Nat /\ MaxDepth \in Nat
<1>0. MinDepth \in Nat \ {0} /\ MaxDepth \in Nat
  BY Zenon, SumsAssumption
<1>1. MinDepth \in Nat /\ 1 <= MinDepth /\ MaxDepth \in Nat
  BY <1>0
<1>2. d \in Int /\ MinDepth <= d /\ d <= MaxDepth
  BY <1>1
<1> QED
  BY <1>1, <1>2

\* A position halved k times is one of the level k above.
LEMMA PositionFacts ==
  ASSUME NEW d \in Nat, NEW i \in 0..(2 ^ d - 1), NEW k \in 0..d
  PROVE  i \div 2 ^ k \in 0..(2 ^ (d - k) - 1)
<1>1. i \in Nat
  BY PowerOf
<1> DEFINE S == {n \in 0..d : i \div 2 ^ n \in 0..(2 ^ (d - n) - 1)}
<1>2. 0 \in S
  BY <1>1, 2 ^ 0 = 1
<1>3. \A n \in 0..(d - 1) : n \in S => n + 1 \in S
  <2> SUFFICES ASSUME NEW n \in 0..(d - 1), n \in S PROVE n + 1 \in S
    OBVIOUS
  <2>1. n \in Nat /\ n + 1 \in 0..d /\ d - (n + 1) \in Nat /\ d - n = (d - (n + 1)) + 1
    OBVIOUS
  <2>2. /\ 2 ^ (n + 1) = 2 * 2 ^ n /\ 2 ^ n \in Nat /\ 1 <= 2 ^ n
        /\ 2 ^ (d - n) = 2 * 2 ^ (d - (n + 1)) /\ 2 ^ (d - (n + 1)) \in Nat
    BY <2>1, PowerStep, PowerPositive
  <2>3. i \div 2 ^ (n + 1) = (i \div 2 ^ n) \div 2
    BY <1>1, <2>2, Halves
  <2>4. \A m \in Nat : \A x \in 0..(2 * m - 1) : x \div 2 \in 0..(m - 1)
    OBVIOUS
  <2>5. (i \div 2 ^ n) \div 2 \in 0..(2 ^ (d - (n + 1)) - 1)
    BY <2>2, <2>4
  <2> QED
    BY <2>1, <2>3, <2>5
<1> HIDE DEF S
<1>4. k \in S
  BY <1>2, <1>3, UpTo
<1> QED
  BY <1>4 DEF S

LEMMA Siblings ==
  \A n \in Nat : \A x \in 0..(2 * n - 1) :
    IF x % 2 = 1 THEN x - 1 \in 0..(2 * n - 1) ELSE x + 1 \in 0..(2 * n - 1)
  OBVIOUS

\* What an account is sent of a tree parses to the proof of its entry.
LEMMA SentFacts ==
  ASSUME NilIsNoHash, NEW day, NEW entries, NEW d, Placed(entries, d),
         NEW t, t = Epochs!build(day, entries), t # None,
         NEW i \in DOMAIN entries
  PROVE  /\ Epochs!Parse(Epochs!Wire(Epochs!proofAt(t, i))) = Epochs!proofAt(t, i)
         /\ Epochs!Root(t) # None /\ Epochs!Outstanding(t) \in Nat /\ t.toDay = day
<1> DEFINE leaves == LeavesOf(day, entries)
           pos(k) == i \div (2 ^ k)
           step(k, L) == IF pos(k) % 2 = 1 THEN Epochs!Step(L[k][pos(k) - 1], "L")
                                           ELSE Epochs!Step(L[k][pos(k) + 1], "R")
<1> HIDE DEF leaves, step
<1>a. /\ d \in Nat /\ d <= MaxDepth /\ DOMAIN entries = 0..(2 ^ d - 1)
      /\ \A j \in DOMAIN entries : entries[j].salt # None
  BY DEF Placed
<1>1. PICK L : L = Epochs!levelsOf(leaves, d)
  OBVIOUS
<1>2. t = [toDay |-> day, entries |-> entries, levels |-> L, depth |-> d]
  BY <1>1, BuildFacts DEF leaves
<1>0. PICK p : p = Epochs!proofAt(t, i)
  OBVIOUS
<1>4. IsPath(p.path, d)
  BY <1>0, PathFacts
<1>3. p = [ aid |-> entries[i].aid, toDay |-> day, balance |-> entries[i].balance,
            salt |-> entries[i].salt, path |-> [k \in 1..d |-> step(k - 1, L)] ]
  BY <1>0, <1>2 DEF Epochs!proofAt, step
<1>5. \A k \in 1..d : p.path[k] = step(k - 1, L)
  BY <1>3
<1>6. \A k \in 1..d : p.path[k] = [hash |-> p.path[k].hash, sum |-> p.path[k].sum, side |-> p.path[k].side]
  <2>1. \A k : step(k, L) = [hash |-> step(k, L).hash, sum |-> step(k, L).sum, side |-> step(k, L).side]
    BY DEF step, Epochs!Step
  <2> QED
    BY <1>5, <2>1
<1>7. \A k \in 1..d : p.path[k].hash # None
  <2> SUFFICES ASSUME NEW k \in 1..d PROVE p.path[k].hash # None
    OBVIOUS
  <2>1. k - 1 \in 0..d /\ k - 1 \in Nat /\ d - k \in Nat /\ d - (k - 1) = (d - k) + 1
    BY <1>a
  <2>2. 2 ^ (d - (k - 1)) = 2 * 2 ^ (d - k) /\ 2 ^ (d - k) \in Nat
    BY <2>1, PowerStep, PowerOf
  <2>3. DOMAIN L[k - 1] = 0..(2 * 2 ^ (d - k) - 1)
    <3>1. DOMAIN leaves = 0..(2 ^ d - 1)
      BY <1>a DEF leaves, LeavesOf
    <3>2. DOMAIN L[k - 1] = 0..(2 ^ (d - (k - 1)) - 1)
      BY <1>1, <1>a, <2>1, <3>1, SizeFacts
    <3> QED
      BY <2>2, <3>2
  <2>4. pos(k - 1) \in 0..(2 * 2 ^ (d - k) - 1)
    BY <1>a, <2>1, <2>2, PositionFacts
  <2>5. \A x \in DOMAIN L[k - 1] : L[k - 1][x].hash # None
    BY <1>1, <1>a, <2>1, HashFacts DEF leaves
  <2> HIDE DEF pos
  <2>6. CASE pos(k - 1) % 2 = 1
    <3>1. pos(k - 1) - 1 \in DOMAIN L[k - 1]
      BY <2>2, <2>3, <2>4, <2>6, Siblings
    <3>2. p.path[k] = Epochs!Step(L[k - 1][pos(k - 1) - 1], "L")
      <4>1. step(k - 1, L) = Epochs!Step(L[k - 1][pos(k - 1) - 1], "L")
        BY <2>6 DEF step
      <4> QED
        BY <1>5, <4>1
    <3> QED
      BY <2>5, <3>1, <3>2 DEF Epochs!Step
  <2>7. CASE pos(k - 1) % 2 # 1
    <3>1. pos(k - 1) + 1 \in DOMAIN L[k - 1]
      BY <2>2, <2>3, <2>4, <2>7, Siblings
    <3>2. p.path[k] = Epochs!Step(L[k - 1][pos(k - 1) + 1], "R")
      <4>1. step(k - 1, L) = Epochs!Step(L[k - 1][pos(k - 1) + 1], "R")
        BY <2>7 DEF step
      <4> QED
        BY <1>5, <4>1
    <3> QED
      BY <2>5, <3>1, <3>2 DEF Epochs!Step
  <2> QED
    BY <2>6, <2>7
<1>8. Epochs!Root(t) # None /\ Epochs!Outstanding(t) \in Nat
  <2>1. d \in 0..d /\ d - d = 0
    BY <1>a
  <2>2. DOMAIN leaves = 0..(2 ^ d - 1)
    BY <1>a DEF leaves, LeavesOf
  <2>3. DOMAIN L[d] = 0..(2 ^ 0 - 1)
    <3>1. \A k \in 0..d : DOMAIN L[k] = 0..(2 ^ (d - k) - 1)
      BY <1>1, <1>a, <2>2, SizeFacts
    <3>2. DOMAIN L[d] = 0..(2 ^ (d - d) - 1)
      BY <2>1, <3>1
    <3> QED
      BY <2>1, <3>2
  <2>4. 0 \in DOMAIN L[d]
    BY <2>3, 2 ^ 0 = 1
  <2>5. L[d][0].hash # None
    BY <1>1, <1>a, <2>1, <2>4, HashFacts DEF leaves
  <2>6. L[d][0].sum \in Nat
    <3>1. \A j \in DOMAIN leaves : leaves[j].sum \in Nat
      BY DEF leaves, LeavesOf, Placed
    <3>2. 0 \in 0..(2 ^ (d - d) - 1)
      <4>1. 2 ^ (d - d) = 2 ^ 0
        BY <2>1, Zenon
      <4> QED
        BY <4>1, 2 ^ 0 = 1
    <3> QED
      BY <1>1, <1>a, <2>1, <2>2, <3>1, <3>2, LevelSums
  <2> QED
    BY <1>2, <2>5, <2>6 DEF Epochs!Root, Epochs!Outstanding
<1>9. Epochs!Parse(Epochs!Wire(p)) = p
  <2>1. p = [ aid |-> p.aid, toDay |-> p.toDay, balance |-> p.balance, salt |-> p.salt, path |-> p.path ]
    BY <1>3
  <2>2. p.salt # None
    BY <1>3, <1>a
  <2> QED
    BY <1>4, <1>6, <1>7, <1>a, <2>1, <2>2, WireFacts DEF IsPath
<1> QED
  BY <1>0, <1>2, <1>8, <1>9

\* An account finds the proof good that an honest hub makes for its entry.
LEMMA FindingFacts ==
  ASSUME NilIsNoHash, NEW n, NEW entries, NEW d, Placed(entries, d), MinDepth <= d,
         NEW t, t = Epochs!build(n, entries), t # None, NEW rec, rec # None,
         rec = Epochs!SupplyEpochRecord(
                 Epochs!SupplyEpoch(n, n, Epochs!Root(t), Epochs!Outstanding(t), d)),
         NEW i \in DOMAIN entries, NEW a, a # Epochs!NoAID, entries[i].aid = a,
         NEW e, epochs[e].rec = rec
  PROVE  LET w == Epochs!Wire(Epochs!proofAt(t, i))
         IN  Epochs!Finding(a, e, w) = "ok" /\ w.balance = entries[i].balance
<1>1. PICK p : p = Epochs!proofAt(t, i)
  OBVIOUS
<1>2. Epochs!Parse(Epochs!Wire(p)) = p /\ Epochs!Root(t) # None
  <2>1. Epochs!Parse(Epochs!Wire(Epochs!proofAt(t, i))) = Epochs!proofAt(t, i)
    BY SentFacts
  <2>2. Epochs!Root(t) # None
    BY SentFacts
  <2> QED
    BY <1>1, <2>1, <2>2
<1>3. /\ p.aid = a /\ p.toDay = n /\ p.balance = entries[i].balance
      /\ IsPath(p.path, d)
      /\ Epochs!fold(p) = [ok |-> TRUE, hash |-> Epochs!Root(t), sum |-> Epochs!Outstanding(t)]
  <2>1. p.aid = entries[i].aid /\ p.toDay = n /\ p.balance = entries[i].balance
    BY <1>1, PathFacts
  <2>2. IsPath(p.path, d)
    BY <1>1, PathFacts
  <2>3. Epochs!fold(p) = [ok |-> TRUE, hash |-> Epochs!Root(t), sum |-> Epochs!Outstanding(t)]
    BY <1>1, PathFacts
  <2> QED
    BY <2>1, <2>2, <2>3
<1>4. PICK s : s = Epochs!SupplyEpoch(n, n, Epochs!Root(t), Epochs!Outstanding(t), d)
  OBVIOUS
<1>5. ~(Epochs!Outstanding(t) > MaxSum) /\ d \in MinDepth..MaxDepth /\ Epochs!ParseSupplyEpoch(epochs[e].rec) = s
  <2>1. ~(Epochs!Outstanding(t) > MaxSum) /\ d \in MinDepth..MaxDepth
    <3>1. Epochs!Outstanding(t) <= MaxSum /\ d \in MinDepth..MaxDepth
      BY <1>2, RecordFacts
    <3>2. Epochs!Outstanding(t) \in Nat
      BY SentFacts
    <3>3. MaxSum \in Nat
      BY SumsAssumption
    <3> QED
      BY <3>1, <3>2, <3>3
  <2>2. Epochs!ParseSupplyEpoch(rec) = Epochs!SupplyEpoch(n, n, Epochs!Root(t), Epochs!Outstanding(t), d)
    BY <1>2, RecordFacts
  <2> QED
    BY <1>4, <2>1, <2>2
<1>6. s.toDay = n /\ s.root = Epochs!Root(t) /\ s.outstanding = Epochs!Outstanding(t) /\ s.depth = d /\ s # None
  BY <1>4 DEF Epochs!SupplyEpoch, NilIsNoHash
<1>7. Len(p.path) = d
  BY <1>3 DEF IsPath
<1>8. p # None
  BY <1>1 DEF Epochs!proofAt, NilIsNoHash
<1>9. Epochs!Verify(p, s.root, s.outstanding, s.depth) = "ok"
  <2>1. ~(s.depth < MinDepth \/ s.depth > MaxDepth \/ Len(p.path) # s.depth \/ p.aid = Epochs!NoAID)
    <3>1. ~(d < MinDepth) /\ ~(d > MaxDepth)
      <4>1. d \in Nat /\ MinDepth \in Nat /\ MaxDepth \in Nat /\ MinDepth <= d /\ d <= MaxDepth
        BY <1>5, DepthRange
      <4> QED
        BY <4>1
    <3> QED
      BY <1>3, <1>6, <1>7, <3>1
  <2>2. ~(s.outstanding > MaxSum)
    BY <1>5, <1>6
  <2>3. Epochs!fold(p).ok /\ Epochs!fold(p).hash = s.root /\ Epochs!fold(p).sum = s.outstanding
    BY <1>3, <1>6
  <2> QED
    BY <2>1, <2>2, <2>3 DEF Epochs!Verify
<1>10. Epochs!Finding(a, e, Epochs!Wire(p)) = "ok"
  BY <1>2, <1>3, <1>5, <1>6, <1>8, <1>9 DEF Epochs!Finding
<1>11. Epochs!Wire(p).balance = p.balance
  BY DEF Epochs!Wire
<1> QED
  BY <1>1, <1>3, <1>10, <1>11

-----------------------------------------------------------------------------
(* Epochs: a close. *)

\* A depth that fits n leaves and of which no smaller one does, unless it is the least there is.
Fits(d, n) == 2 ^ d >= n /\ (d = MinDepth \/ 2 ^ (d - 1) < n)

LEMMA FitsOne ==
  ASSUME NEW n \in Nat, NEW d \in MinDepth..MaxDepth, Fits(d, n), NEW e \in MinDepth..MaxDepth, Fits(e, n)
  PROVE  d = e
<1>1. d \in Nat /\ e \in Nat /\ 1 <= d /\ 1 <= e /\ MinDepth <= d /\ MinDepth <= e
  BY DepthRange
<1>2. ASSUME NEW x \in Nat, NEW y \in Nat, MinDepth <= x, 1 <= x, x < y, Fits(x, n), Fits(y, n) PROVE FALSE
  <2>1. 2 ^ y = 2 * 2 ^ (y - 1) /\ 2 * 2 ^ x <= 2 ^ y /\ 2 ^ (y - 1) \in Nat /\ 2 ^ x \in Nat
    <3>1. y - 1 \in Nat /\ (y - 1) + 1 = y
      BY <1>2
    <3> QED
      BY <1>2, <3>1, PowerStep, PowerGrows, PowerOf
  <2>2. y # MinDepth
    <3>1. MinDepth \in Nat \ {0}
      BY SumsAssumption, Zenon
    <3> QED
      BY <1>2, <3>1
  <2>3. 2 ^ (y - 1) < n /\ 2 ^ x >= n
    BY <1>2, <2>2 DEF Fits
  <2> QED
    BY <2>1, <2>3
<1>3. ~(d < e) /\ ~(e < d)
  BY <1>1, <1>2
<1> QED
  BY <1>1, <1>3

\* The depth that Close takes, and the number of leaves that Build makes.
LEMMA DepthFacts ==
  ASSUME NEW n \in Nat, n <= 2 ^ MaxDepth,
         NEW d, d = CHOOSE x \in MinDepth..MaxDepth : 2 ^ x >= n /\ (x = MinDepth \/ 2 ^ (x - 1) < n),
         NEW m, m = CHOOSE p \in {2 ^ x : x \in MinDepth..MaxDepth} :
                      p >= n /\ (p = Epochs!MinLeaves \/ p \div 2 < n)
  PROVE  d \in MinDepth..MaxDepth /\ m = 2 ^ d
<1>1. MinDepth \in Nat /\ 1 <= MinDepth /\ MaxDepth \in Nat /\ MinDepth <= MaxDepth
  <2>1. MinDepth \in Nat \ {0} /\ MaxDepth \in Nat /\ MinDepth <= MaxDepth
    BY SumsAssumption, Zenon
  <2> QED
    BY <2>1
<1>2. \A x \in MinDepth..MaxDepth :
        /\ x \in Nat /\ 2 ^ x \in Nat /\ 2 ^ x \div 2 = 2 ^ (x - 1)
        /\ 2 ^ x = Epochs!MinLeaves <=> x = MinDepth
  <2> SUFFICES ASSUME NEW x \in MinDepth..MaxDepth
               PROVE  /\ x \in Nat /\ 2 ^ x \in Nat /\ 2 ^ x \div 2 = 2 ^ (x - 1)
                      /\ 2 ^ x = Epochs!MinLeaves <=> x = MinDepth
    OBVIOUS
  <2>1. x \in Nat /\ x - 1 \in Nat /\ (x - 1) + 1 = x
    BY <1>1
  <2>2. 2 ^ x = 2 * 2 ^ (x - 1) /\ 2 ^ (x - 1) \in Nat /\ 2 ^ x \in Nat
    BY <2>1, PowerStep, PowerOf
  <2>3. 2 ^ x = 2 ^ MinDepth <=> x = MinDepth
    BY <1>1, <2>1, PowerInjective
  <2> QED
    BY <2>1, <2>2, <2>3 DEF Epochs!MinLeaves
<1>3. \E x \in MinDepth..MaxDepth : Fits(x, n)
  <2> DEFINE S == {x \in MinDepth..MaxDepth : n <= 2 ^ x}
  <2>1. S \in SUBSET Nat /\ S # {}
    <3>1. MaxDepth \in S
      BY <1>1
    <3>2. S \in SUBSET Nat
      BY <1>1
    <3> HIDE DEF S
    <3> QED
      BY <3>1, <3>2
  <2>2. PICK x \in S : \A y \in S : x <= y
    BY <2>1, Least
  <2>3. x \in MinDepth..MaxDepth /\ n <= 2 ^ x /\ x \in Nat
    BY <1>1, <2>2
  <2>4. ASSUME x # MinDepth PROVE 2 ^ (x - 1) < n
    <3>1. x - 1 \in MinDepth..MaxDepth /\ ~(x <= x - 1)
      BY <1>1, <2>3, <2>4
    <3>2. x - 1 \notin S
      BY <2>2, <3>1
    <3>3. 2 ^ (x - 1) \in Nat /\ ~(n <= 2 ^ (x - 1))
      BY <1>2, <3>1, <3>2
    <3> QED
      BY <3>3
  <2> HIDE DEF S
  <2>5. Fits(x, n)
    BY <1>2, <2>3, <2>4 DEF Fits
  <2> QED
    BY <2>3, <2>5
<1>4. d \in MinDepth..MaxDepth /\ Fits(d, n)
  BY <1>3 DEF Fits
<1>5. \A x \in MinDepth..MaxDepth :
        2 ^ x >= n /\ (2 ^ x = Epochs!MinLeaves \/ 2 ^ x \div 2 < n) <=> Fits(x, n)
  BY <1>2 DEF Fits
<1>6. PICK x \in MinDepth..MaxDepth : m = 2 ^ x /\ Fits(x, n)
  <2>1. \E p \in {2 ^ x : x \in MinDepth..MaxDepth} : p >= n /\ (p = Epochs!MinLeaves \/ p \div 2 < n)
    BY <1>4, <1>5
  <2>2. m \in {2 ^ x : x \in MinDepth..MaxDepth} /\ m >= n /\ (m = Epochs!MinLeaves \/ m \div 2 < n)
    BY <2>1
  <2> QED
    BY <1>5, <2>2
<1>7. x = d
  BY <1>4, <1>6, FitsOne
<1> QED
  BY <1>4, <1>6, <1>7

\* The leaves of a close are the accounts with what they are owed.
LEMMA LeavesFacts ==
  ASSUME IsFiniteSet(DOMAIN owed),
         NEW leaves, leaves = Epochs!SetToSeq({[aid |-> a, balance |-> owed[a]] : a \in DOMAIN owed})
  PROVE  /\ Len(leaves) \in Nat /\ DOMAIN leaves = 1..Len(leaves)
         /\ \A j \in 1..Len(leaves) : leaves[j].aid \in DOMAIN owed /\ leaves[j].balance = owed[leaves[j].aid]
<1> DEFINE S == {[aid |-> a, balance |-> owed[a]] : a \in DOMAIN owed}
           f == [a \in DOMAIN owed |-> [aid |-> a, balance |-> owed[a]]]
<1>1. IsFiniteSet(S)
  <2>1. f \in Surjection(DOMAIN owed, S)
    BY DEF Surjection
  <2> HIDE DEF S, f
  <2> QED
    BY <2>1, FS_Surjection
<1>2. \A x \in S : x.aid \in DOMAIN owed /\ x.balance = owed[x.aid]
  OBVIOUS
<1>3. leaves = Epochs!SetToSeq(S)
  OBVIOUS
<1> HIDE DEF S
<1>4. Cardinality(S) \in Nat /\ ExistsBijection(1..Cardinality(S), S)
  BY <1>1, FS_CardinalityType
<1>5. \E g \in [1..Epochs!Cardinality(S) -> S] : Epochs!IsInjective(g)
  <2>1. Epochs!Cardinality(S) = Cardinality(S)
    BY EpochsCardinality
  <2> QED
    BY <1>4, <2>1 DEF ExistsBijection, Bijection, Injection, IsInjective, Epochs!IsInjective
<1>6. leaves \in [1..Cardinality(S) -> S]
  <2>1. leaves \in [1..Epochs!Cardinality(S) -> S]
    BY <1>3, <1>5 DEF Epochs!SetToSeq
  <2> QED
    BY <2>1, EpochsCardinality
<1>7. Len(leaves) = Cardinality(S)
  BY <1>4, <1>6
<1> QED
  BY <1>2, <1>4, <1>6, <1>7

LEMMA PlacedFacts ==
  ASSUME NilIsNoHash, NEW d \in MinDepth..MaxDepth, NEW entries, DOMAIN entries = 0..(2 ^ d - 1),
         NEW o, \A i \in DOMAIN entries : EntryOK(entries[i], o)
  PROVE  Placed(entries, d)
<1>1. d \in Nat /\ d <= MaxDepth
  BY DepthRange
<1>2. \A i \in DOMAIN entries : entries[i].balance \in Nat /\ entries[i].salt # None
  BY DEF EntryOK, NilIsNoHash
<1> QED
  BY <1>1, <1>2 DEF Placed

\* The leaves, the depth and the salts of a close.
OwedLeaves == Epochs!SetToSeq({[aid |-> a, balance |-> owed[a]] : a \in DOMAIN owed})

DepthFor(n) == CHOOSE d \in MinDepth..MaxDepth : 2 ^ d >= n /\ (d = MinDepth \/ 2 ^ (d - 1) < n)

SaltsOf(day, d) == [i \in 0..(2 ^ d - 1) |-> <<day, i>>]

\* What Close makes of the accounts is an epoch.
LEMMA ClosedFacts ==
  ASSUME NilIsNoHash, IsFiniteSet(DOMAIN owed), \A a \in DOMAIN owed : owed[a] \in Nat,
         NEW leaves, leaves = OwedLeaves, NEW d, d = DepthFor(Len(leaves)),
         NEW shuffle \in Epochs!Shuffles(2 ^ d), NEW day \in Nat,
         NEW t, t = Epochs!Build(leaves, day, shuffle, SaltsOf(day, d)), t # None
  PROVE  /\ d \in MinDepth..MaxDepth /\ DOMAIN t.entries = 0..(2 ^ d - 1)
         /\ \A i \in DOMAIN t.entries : EntryOK(t.entries[i], owed)
         /\ t = Epochs!build(day, t.entries) /\ t.depth = d
<1> DEFINE salts == SaltsOf(day, d)
           m == CHOOSE p \in {2 ^ x : x \in MinDepth..MaxDepth} :
                  p >= Len(leaves) /\ (p = Epochs!MinLeaves \/ p \div 2 < Len(leaves))
           placed(k) == [i \in 0..(k - 1) |->
             LET j == shuffle[i]
             IN  IF j < Len(leaves) THEN Epochs!Entry(leaves[j + 1].aid, leaves[j + 1].balance, salts[i])
                                    ELSE Epochs!Entry(Epochs!NoAID, 0, salts[i])]
<1>1. /\ Len(leaves) \in Nat /\ DOMAIN leaves = 1..Len(leaves)
      /\ \A j \in 1..Len(leaves) : leaves[j].aid \in DOMAIN owed /\ leaves[j].balance = owed[leaves[j].aid]
  BY LeavesFacts DEF OwedLeaves
<1>2. ~(Len(leaves) > 2 ^ MaxDepth) /\ t = Epochs!build(day, placed(m))
  BY DEF Epochs!Build
<1>3. d \in MinDepth..MaxDepth /\ m = 2 ^ d
  <2>1. MaxDepth \in Nat
    BY SumsAssumption
  <2>2. Len(leaves) <= 2 ^ MaxDepth
    BY <1>1, <1>2, <2>1, PowerOf
  <2> QED
    BY <1>1, <2>2, DepthFacts DEF DepthFor
<1> HIDE DEF m
<1>4. d \in 0..MaxDepth /\ d \in Nat /\ 2 ^ d \in Nat
  BY <1>3, DepthRange, PowerOf
<1> DEFINE entries == placed(2 ^ d)
<1>5. DOMAIN entries = 0..(2 ^ d - 1)
  OBVIOUS
<1>6. ASSUME NEW i \in 0..(2 ^ d - 1) PROVE EntryOK(entries[i], owed)
  <2>1. salts[i] = <<day, i>> /\ <<day, i>> \in Nat \X Nat
    BY <1>4, <1>6 DEF SaltsOf
  <2>2. shuffle[i] \in 0..(2 ^ d - 1)
    BY <1>6 DEF Epochs!Shuffles
  <2> HIDE DEF salts
  <2>3. CASE shuffle[i] < Len(leaves)
    <3>1. shuffle[i] + 1 \in 1..Len(leaves)
      BY <1>1, <1>4, <2>2, <2>3
    <3>2. entries[i] = Epochs!Entry(leaves[shuffle[i] + 1].aid, leaves[shuffle[i] + 1].balance, salts[i])
      BY <1>6, <2>3
    <3> HIDE DEF entries
    <3>3. /\ entries[i].aid = leaves[shuffle[i] + 1].aid
          /\ entries[i].balance = leaves[shuffle[i] + 1].balance /\ entries[i].salt = salts[i]
      BY <3>2 DEF Epochs!Entry
    <3> QED
      BY <1>1, <2>1, <3>1, <3>3 DEF EntryOK
  <2>4. CASE ~(shuffle[i] < Len(leaves))
    <3>2. entries[i] = Epochs!Entry(Epochs!NoAID, 0, salts[i])
      BY <1>6, <2>4
    <3> HIDE DEF entries
    <3>3. entries[i].aid = Epochs!NoAID /\ entries[i].balance = 0 /\ entries[i].salt = salts[i]
      BY <3>2 DEF Epochs!Entry
    <3> QED
      BY <2>1, <3>3 DEF EntryOK
  <2> QED
    BY <2>3, <2>4
<1>7. t = Epochs!build(day, entries)
  BY <1>2, <1>3
<1> HIDE DEF entries
<1>a. PICK L : L = Epochs!levelsOf(LeavesOf(day, entries), d)
  OBVIOUS
<1>b. Placed(entries, d)
  BY <1>3, <1>5, <1>6, PlacedFacts
<1>8. t = [toDay |-> day, entries |-> entries, levels |-> L, depth |-> d]
  BY <1>7, <1>a, <1>b, BuildFacts
<1>9. t.entries = entries /\ t.depth = d
  BY <1>8
<1> QED
  BY <1>3, <1>5, <1>6, <1>7, <1>9

-----------------------------------------------------------------------------
(* Epochs: the invariant of an honest hub is kept. *)

LEMMA LogFacts ==
  ASSUME NEW es, IsLog(es)
  PROVE  Len(es) \in Nat /\ DOMAIN es = 1..Len(es)
  BY DEF IsLog

LEMMA AppendLog ==
  ASSUME NEW es, IsLog(es), NEW x
  PROVE  /\ IsLog(Append(es, x)) /\ Len(Append(es, x)) = Len(es) + 1 /\ Append(es, x)[Len(es) + 1] = x
         /\ \A n \in 1..Len(es) : Append(es, x)[n] = es[n]
<1>0. PICK a : a = Append(es, x)
  OBVIOUS
<1> DEFINE S == {es[n] : n \in 1..Len(es)} \cup {x}
<1>1. es \in Seq(S) /\ x \in S
  BY DEF IsLog
<1> HIDE DEF S
<1>2. /\ a \in Seq(S) /\ Len(a) = Len(es) + 1 /\ a[Len(es) + 1] = x
      /\ \A n \in 1..Len(es) : a[n] = es[n]
  BY <1>0, <1>1
<1>3. a \in Seq({a[n] : n \in 1..Len(a)})
  BY <1>2
<1> QED
  BY <1>0, <1>2, <1>3 DEF IsLog

LEMMA CreditInv == ASSUME HonestInv, NEW a \in Accounts, NEW n \in Amounts, Epochs!Credit(a, n) PROVE HonestInv'
<1>1. /\ owed' = [x \in DOMAIN owed \cup {a} |-> (IF x \in DOMAIN owed THEN owed[x] ELSE 0) + (IF x = a THEN n ELSE 0)]
      /\ epochs' = epochs /\ tree' = tree /\ verdicts' = verdicts
  BY DEF Epochs!Credit
<1>2. n \in Nat /\ a # Epochs!NoAID
  BY SumsAssumption
<1>3. DOMAIN owed' = DOMAIN owed \cup {a} /\ IsFiniteSet(DOMAIN owed')
  BY <1>1, FS_AddElement DEF HonestInv
<1>4. \A x \in DOMAIN owed' : x # Epochs!NoAID /\ owed'[x] \in Nat
  BY <1>1, <1>2 DEF HonestInv
<1> QED
  BY <1>1, <1>3, <1>4 DEF HonestInv

LEMMA CloseInv == ASSUME NilIsNoHash, HonestInv, Epochs!Close PROVE HonestInv'
<1>1. PICK leaves, d, shuffle, day, t, rec :
        /\ leaves = OwedLeaves /\ d = DepthFor(Len(leaves))
        /\ shuffle \in Epochs!Shuffles(2 ^ d) /\ day = Len(epochs) + 1
        /\ t = Epochs!Build(leaves, day, shuffle, SaltsOf(day, d)) /\ t # None
        /\ rec = Epochs!SupplyEpochRecord(
                   Epochs!SupplyEpoch(day, day, Epochs!Root(t), Epochs!Outstanding(t), t.depth))
        /\ rec # None /\ epochs' = Append(epochs, [rec |-> rec, entries |-> t.entries, owed |-> owed])
        /\ tree' = t
  BY Zenon DEF Epochs!Close, OwedLeaves, DepthFor, SaltsOf
<1>2. owed' = owed /\ verdicts' = verdicts
  BY DEF Epochs!Close
<1>3. IsLog(epochs) /\ Len(epochs) \in Nat /\ day \in Nat
  BY <1>1, LogFacts DEF HonestInv
<1> DEFINE entries == t.entries
<1>4. /\ d \in MinDepth..MaxDepth /\ DOMAIN entries = 0..(2 ^ d - 1)
      /\ \A i \in DOMAIN entries : EntryOK(entries[i], owed)
      /\ t = Epochs!build(day, entries) /\ t.depth = d
  <2>1. IsFiniteSet(DOMAIN owed) /\ \A a \in DOMAIN owed : owed[a] \in Nat
    BY DEF HonestInv
  <2>2. /\ leaves = OwedLeaves /\ d = DepthFor(Len(leaves)) /\ shuffle \in Epochs!Shuffles(2 ^ d)
        /\ t = Epochs!Build(leaves, day, shuffle, SaltsOf(day, d)) /\ t # None
    BY <1>1
  <2> QED
    BY <1>3, <2>1, <2>2, ClosedFacts
<1> HIDE DEF entries
<1> DEFINE x == [rec |-> rec, entries |-> entries, owed |-> owed]
<1>5. EpochOK(day, x)
  <2>1. x.entries = entries /\ x.rec = rec /\ x.owed = owed
    BY <1>4
  <2> HIDE DEF x
  <2>2. t # None /\ rec # None
        /\ rec = Epochs!SupplyEpochRecord(Epochs!SupplyEpoch(day, day, Epochs!Root(t), Epochs!Outstanding(t), d))
    BY <1>1, <1>4
  <2> QED
    BY <1>4, <2>1, <2>2 DEF EpochOK
<1>6. x.entries = entries
  BY <1>4
<1>7. epochs' = Append(epochs, x)
  BY <1>1 DEF entries
<1> HIDE DEF x
<1>8. /\ IsLog(epochs') /\ Len(epochs') = day /\ epochs'[day] = x
      /\ \A n \in 1..Len(epochs) : epochs'[n] = epochs[n]
  <2>1. IsLog(epochs)
    BY <1>3
  <2>2. /\ IsLog(Append(epochs, x)) /\ Len(Append(epochs, x)) = Len(epochs) + 1
        /\ Append(epochs, x)[Len(epochs) + 1] = x
        /\ \A n \in 1..Len(epochs) : Append(epochs, x)[n] = epochs[n]
    BY <2>1, AppendLog, Zenon
  <2> QED
    BY <1>1, <1>7, <2>2
<1>9. \A n \in 1..day : n \in 1..Len(epochs) \/ n = day
  BY <1>1, <1>3
<1>10. 1..Len(epochs) \subseteq 1..day /\ day \in 1..day
  BY <1>1, <1>3
<1>11. \A n \in 1..Len(epochs') : EpochOK(n, epochs'[n])
  BY <1>5, <1>8, <1>9 DEF HonestInv
<1>12. \E n \in 1..Len(epochs') : tree' = Epochs!build(n, epochs'[n].entries)
  BY <1>1, <1>4, <1>6, <1>8, <1>10
<1>13. \A v \in verdicts' : FindingOK(v, epochs')
  BY <1>2, <1>8, <1>10 DEF HonestInv, FindingOK
<1> QED
  BY <1>2, <1>8, <1>11, <1>12, <1>13 DEF HonestInv

LEMMA RestartInv == ASSUME HonestInv, Epochs!Restart PROVE HonestInv'
  BY DEF HonestInv, Epochs!Restart

LEMMA ReloadInv == ASSUME NilIsNoHash, HonestInv, NEW e \in DOMAIN epochs, Epochs!Reload(e) PROVE HonestInv'
<1>1. tree' = Epochs!Rebuild(epochs[e].rec.to_day, epochs[e].entries) /\ UNCHANGED <<owed, epochs, verdicts>>
  BY DEF Epochs!Reload
<1>2. e \in 1..Len(epochs) /\ EpochOK(e, epochs[e])
  BY LogFacts DEF HonestInv
<1>3. epochs[e].rec.to_day = e
  <2>1. PICK d, t : /\ d \in 0..MaxDepth /\ d \in Nat /\ DOMAIN epochs[e].entries = 0..(2 ^ d - 1)
                    /\ \A i \in DOMAIN epochs[e].entries : EntryOK(epochs[e].entries[i], epochs[e].owed)
                    /\ t = Epochs!build(e, epochs[e].entries) /\ t # None /\ epochs[e].rec # None
                    /\ epochs[e].rec = Epochs!SupplyEpochRecord(
                         Epochs!SupplyEpoch(e, e, Epochs!Root(t), Epochs!Outstanding(t), d))
    BY <1>2, DepthRange DEF EpochOK
  <2> QED
    BY <2>1 DEF Epochs!SupplyEpochRecord, Epochs!SupplyEpoch
<1>4. tree' # None => tree' = Epochs!build(e, epochs[e].entries)
  BY <1>1, <1>3 DEF Epochs!Rebuild
<1>5. tree' # None => \E n \in 1..Len(epochs) : tree' = Epochs!build(n, epochs[n].entries)
  BY <1>2, <1>4
<1> QED
  BY <1>1, <1>5 DEF HonestInv

LEMMA AuditInv == ASSUME NilIsNoHash, HonestInv, NEW a \in Accounts, Epochs!Audit(a) PROVE HonestInv'
<1>1. /\ tree # None /\ Epochs!Proof(tree, a) # None
      /\ UNCHANGED <<owed, epochs, tree>>
  BY DEF Epochs!Audit
<1>2. PICK w : /\ w = Epochs!Wire(Epochs!Proof(tree, a))
               /\ verdicts' = verdicts \cup {[ epoch |-> tree.toDay, aid |-> a, balance |-> w.balance,
                                               finding |-> Epochs!Finding(a, tree.toDay, w) ]}
  BY DEF Epochs!Audit
<1>3. PICK n \in 1..Len(epochs) : tree = Epochs!build(n, epochs[n].entries)
  BY <1>1 DEF HonestInv
<1>4. PICK entries : entries = epochs[n].entries
  OBVIOUS
<1>5. PICK rec : rec = epochs[n].rec
  OBVIOUS
<1>6. PICK d \in MinDepth..MaxDepth :
        /\ DOMAIN entries = 0..(2 ^ d - 1)
        /\ \A i \in DOMAIN entries : EntryOK(entries[i], epochs[n].owed)
        /\ rec # None
        /\ rec = Epochs!SupplyEpochRecord(
             Epochs!SupplyEpoch(n, n, Epochs!Root(tree), Epochs!Outstanding(tree), d))
  BY <1>3, <1>4, <1>5 DEF HonestInv, EpochOK
<1>9. tree = Epochs!build(n, entries) /\ tree # None
  BY <1>1, <1>3, <1>4, <1>6
<1>8. Placed(entries, d) /\ MinDepth <= d
  BY <1>6, DepthRange, PlacedFacts
<1>a. PICK L : L = Epochs!levelsOf(LeavesOf(n, entries), d)
  OBVIOUS
<1>10. tree = [toDay |-> n, entries |-> entries, levels |-> L, depth |-> d]
  BY <1>8, <1>9, <1>a, BuildFacts
<1>11. tree.toDay = n /\ tree.entries = entries
  BY <1>10
<1>12. PICK i \in DOMAIN entries : a # Epochs!NoAID /\ entries[i].aid = a /\ Epochs!Proof(tree, a) = Epochs!proofAt(tree, i)
  BY <1>1, <1>11 DEF Epochs!Proof
<1>13. Epochs!Finding(a, n, w) = "ok" /\ w.balance = entries[i].balance
  <2>1. /\ rec # None /\ epochs[n].rec = rec
        /\ rec = Epochs!SupplyEpochRecord(
             Epochs!SupplyEpoch(n, n, Epochs!Root(tree), Epochs!Outstanding(tree), d))
    BY <1>5, <1>6
  <2>2. i \in DOMAIN entries /\ a # Epochs!NoAID /\ entries[i].aid = a
    BY <1>12
  <2>3. PICK t : t = tree
    OBVIOUS
  <2>4. PICK u : u = Epochs!Wire(Epochs!proofAt(t, i))
    OBVIOUS
  <2>5. Epochs!Finding(a, n, u) = "ok" /\ u.balance = entries[i].balance
    BY <1>8, <1>9, <2>1, <2>2, <2>3, <2>4, FindingFacts
  <2> QED
    BY <1>2, <1>12, <2>3, <2>4, <2>5
<1>14. \A v \in verdicts' : FindingOK(v, epochs')
  <2>1. FindingOK([epoch |-> n, aid |-> a, balance |-> w.balance, finding |-> "ok"], epochs)
    BY <1>4, <1>12, <1>13 DEF FindingOK
  <2> QED
    BY <1>1, <1>2, <1>11, <1>13, <2>1 DEF HonestInv
<1> QED
  BY <1>1, <1>14 DEF HonestInv

-----------------------------------------------------------------------------
(* Epochs: what the sums of a tree count. *)

\* The units of balance at the leaves below node i of level k.
Under(entries, k, i) ==
  UNION {{x} \X (1..entries[x].balance) : x \in {y \in DOMAIN entries : y \div 2 ^ k = i}}

LEMMA UnitsOf ==
  ASSUME NEW x, NEW n \in Nat
  PROVE  IsFiniteSet({x} \X (1..n)) /\ Cardinality({x} \X (1..n)) = n
<1>1. IsFiniteSet({x}) /\ Cardinality({x}) = 1
  BY FS_Singleton
<1>2. IsFiniteSet(1..n) /\ Cardinality(1..n) = n
  BY FS_Interval
<1> DEFINE S == {x}
           T == 1..n
<1> HIDE DEF S, T
<1>3. IsFiniteSet(S \X T) /\ Cardinality(S \X T) = Cardinality(S) * Cardinality(T)
  BY <1>1, <1>2, FS_Product DEF S, T
<1>4. Cardinality(S) * Cardinality(T) = n
  BY <1>1, <1>2 DEF S, T
<1> QED
  BY <1>3, <1>4 DEF S, T

\* A sum that is accepted has not wrapped around.
LEMMA NoWrap ==
  ASSUME NEW a \in Nat, NEW b \in Nat, Epochs!addSum(a, b).ok
  PROVE  Epochs!addSum(a, b).sum = a + b /\ a + b <= MaxSum
<1>1. MaxSum \in Nat /\ WordMax = 2 * MaxSum + 1
  BY SumsAssumption, Zenon
<1>2. a <= MaxSum /\ b <= MaxSum /\ (a + b) % (WordMax + 1) <= MaxSum
      /\ Epochs!addSum(a, b).sum = (a + b) % (WordMax + 1)
  BY DEF Epochs!addSum, Epochs!wrap
<1>3. (a + b) % (WordMax + 1) = a + b
  BY <1>1, <1>2
<1> QED
  BY <1>2, <1>3

LEMMA LevelUnits ==
  ASSUME NEW d \in Nat, NEW day, NEW entries, DOMAIN entries = 0..(2 ^ d - 1),
         \A i \in DOMAIN entries : entries[i].balance \in Nat,
         NEW L, L = Epochs!levelsOf(LeavesOf(day, entries), d),
         \A k \in 0..(d - 1) : \A i \in 0..(2 ^ (d - (k + 1)) - 1) :
           Epochs!addSum(L[k][2 * i].sum, L[k][2 * i + 1].sum).ok,
         NEW n \in 0..d, NEW j \in DOMAIN L[n]
  PROVE  IsFiniteSet(Under(entries, n, j)) /\ Cardinality(Under(entries, n, j)) = L[n][j].sum
<1> DEFINE leaves == LeavesOf(day, entries)
<1>1. DOMAIN leaves = 0..(2 ^ d - 1) /\ L = Epochs!levelsOf(leaves, d)
      /\ \A i \in DOMAIN leaves : leaves[i].sum = entries[i].balance
  BY DEF LeavesOf
<1> HIDE DEF leaves
<1>2. L[0] = leaves /\ \A k \in 1..d : L[k] = Above(L[k - 1])
  BY <1>1, LevelFacts
<1>3. \A k \in 0..d : DOMAIN L[k] = 0..(2 ^ (d - k) - 1) /\ 2 ^ (d - k) \in Nat
  BY <1>1, SizeFacts
<1> DEFINE P(k) == \A i \in DOMAIN L[k] :
                     IsFiniteSet(Under(entries, k, i)) /\ Cardinality(Under(entries, k, i)) = L[k][i].sum
           S == {k \in 0..d : P(k)}
<1>4. P(0)
  <2> SUFFICES ASSUME NEW i \in DOMAIN L[0]
               PROVE  IsFiniteSet(Under(entries, 0, i)) /\ Cardinality(Under(entries, 0, i)) = L[0][i].sum
    OBVIOUS
  <2>1. i \in DOMAIN entries /\ entries[i].balance \in Nat /\ L[0][i].sum = entries[i].balance
    BY <1>1, <1>2
  <2>2. {y \in DOMAIN entries : y \div 2 ^ 0 = i} = {i}
    <3>1. 2 ^ d \in Nat
      BY PowerOf
    <3>2. \A y \in Nat : y \div 1 = y
      OBVIOUS
    <3>3. \A y \in DOMAIN entries : y \div 2 ^ 0 = y
      BY <3>1, <3>2, 2 ^ 0 = 1
    <3> QED
      BY <2>1, <3>3
  <2>3. Under(entries, 0, i) = {i} \X (1..entries[i].balance)
    BY <2>2 DEF Under
  <2>4. /\ IsFiniteSet({i} \X (1..entries[i].balance))
        /\ Cardinality({i} \X (1..entries[i].balance)) = entries[i].balance
    BY <2>1, UnitsOf
  <2> QED
    BY <2>1, <2>3, <2>4
<1>5. ASSUME NEW k \in 0..(d - 1), P(k) PROVE P(k + 1)
  <2> SUFFICES ASSUME NEW i \in DOMAIN L[k + 1]
               PROVE  /\ IsFiniteSet(Under(entries, k + 1, i))
                      /\ Cardinality(Under(entries, k + 1, i)) = L[k + 1][i].sum
    OBVIOUS
  <2>1. k \in Nat /\ k \in 0..d /\ k + 1 \in 0..d /\ k + 1 \in 1..d /\ (k + 1) - 1 = k
        /\ d - (k + 1) \in Nat /\ d - k = (d - (k + 1)) + 1
    OBVIOUS
  <2>2. 2 ^ (d - k) = 2 * 2 ^ (d - (k + 1)) /\ 2 ^ (d - (k + 1)) \in Nat
    BY <2>1, PowerStep, PowerOf
  <2>3. DOMAIN L[k] = 0..(2 * 2 ^ (d - (k + 1)) - 1) /\ i \in 0..(2 ^ (d - (k + 1)) - 1)
    <3>1. DOMAIN L[k] = 0..(2 ^ (d - k) - 1) /\ DOMAIN L[k + 1] = 0..(2 ^ (d - (k + 1)) - 1)
      BY <1>3, <2>1
    <3> QED
      BY <2>2, <3>1
  <2>4. 2 * i \in DOMAIN L[k] /\ 2 * i + 1 \in DOMAIN L[k]
    BY <2>2, <2>3
  <2>5. L[k + 1] = Above(L[k])
    BY <1>2, <2>1
  <2>6. L[k + 1][i].sum = Epochs!addSum(L[k][2 * i].sum, L[k][2 * i + 1].sum).sum
    BY <2>5 DEF Above
  <2>7. Epochs!addSum(L[k][2 * i].sum, L[k][2 * i + 1].sum).ok
    BY <2>3
  <2> DEFINE A == Under(entries, k, 2 * i)
             B == Under(entries, k, 2 * i + 1)
  <2>8. /\ IsFiniteSet(A) /\ Cardinality(A) = L[k][2 * i].sum
        /\ IsFiniteSet(B) /\ Cardinality(B) = L[k][2 * i + 1].sum
    BY <1>5, <2>4
  <2>9. Cardinality(A) \in Nat /\ Cardinality(B) \in Nat
    BY <2>8, FS_CardinalityType
  <2>10. \A y \in DOMAIN entries : y \div 2 ^ (k + 1) = i <=> y \div 2 ^ k = 2 * i \/ y \div 2 ^ k = 2 * i + 1
    <3> SUFFICES ASSUME NEW y \in DOMAIN entries
                 PROVE  y \div 2 ^ (k + 1) = i <=> y \div 2 ^ k = 2 * i \/ y \div 2 ^ k = 2 * i + 1
      OBVIOUS
    <3>1. 2 ^ (k + 1) = 2 * 2 ^ k /\ 2 ^ k \in Nat /\ 1 <= 2 ^ k
      BY <2>1, PowerStep, PowerPositive
    <3>2. y \in Nat
      <4>1. 2 ^ d \in Nat
        BY PowerOf
      <4> QED
        BY <4>1
    <3>3. y \div 2 ^ (k + 1) = (y \div 2 ^ k) \div 2 /\ y \div 2 ^ k \in Nat
      BY <3>1, <3>2, Halves
    <3>4. \A x \in Nat : x \div 2 = i <=> x = 2 * i \/ x = 2 * i + 1
      BY <2>2, <2>3
    <3> QED
      BY <3>3, <3>4
  <2>11. Under(entries, k + 1, i) = A \cup B
    BY <2>10 DEF Under
  <2>12. A \cap B = {}
    <3>1. 2 * i # 2 * i + 1
      BY <2>2, <2>3
    <3> QED
      BY <3>1 DEF Under
  <2> HIDE DEF A, B
  <2>13. IsFiniteSet(A \cup B) /\ Cardinality(A \cup B) = Cardinality(A) + Cardinality(B)
    <3>1. IsFiniteSet(A \cup B) /\ Cardinality(A \cup B) = Cardinality(A) + Cardinality(B) - Cardinality(A \cap B)
      BY <2>8, FS_Union
    <3>2. Cardinality(A \cap B) = 0
      BY <2>12, FS_EmptySet
    <3> QED
      BY <2>9, <3>1, <3>2
  <2>14. L[k + 1][i].sum = Cardinality(A) + Cardinality(B)
    BY <2>6, <2>7, <2>8, <2>9, NoWrap
  <2> QED
    BY <2>11, <2>13, <2>14
<1> HIDE DEF P
<1>6. 0 \in S /\ \A k \in 0..(d - 1) : k \in S => k + 1 \in S
  BY <1>4, <1>5
<1> HIDE DEF S
<1>7. n \in S
  BY <1>6, UpTo
<1> QED
  BY <1>7 DEF P, S

-----------------------------------------------------------------------------
(* Epochs: what the audits of an honest hub's epoch count. *)

\* The units of balance that audits of epoch e found counted.
CoinsOf(e) == UNION {{v} \X (1..v.balance) : v \in {w \in verdicts : w.epoch = e /\ w.finding = "ok"}}

LEMMA CountedIs == \A e : Epochs!Counted(e) = Cardinality(CoinsOf(e))
  BY EpochsCardinality, Zenon DEF Epochs!Counted, CoinsOf

LEMMA CoinFacts ==
  ASSUME NEW e, NEW z \in CoinsOf(e)
  PROVE  /\ z = <<z[1], z[2]>> /\ z[1] \in verdicts /\ z[1].epoch = e /\ z[1].finding = "ok"
         /\ z[2] \in 1..z[1].balance
  BY DEF CoinsOf

\* As many as an injection leaves room for.
LEMMA AtMost ==
  ASSUME NEW S, NEW T, IsFiniteSet(T), NEW f \in [S -> T],
         \A y, z \in S : f[y] = f[z] => y = z
  PROVE  Cardinality(S) <= Cardinality(T)
<1>1. f \in Injection(S, T)
  BY DEF Injection, IsInjective
<1> QED
  BY <1>1, FS_Injection

\* All units of a tree's entries together are its outstanding.
LEMMA OutstandingFacts ==
  ASSUME NEW day, NEW entries, NEW d, Placed(entries, d),
         NEW t, t = Epochs!build(day, entries), t # None
  PROVE  /\ IsFiniteSet(Under(entries, d, 0)) /\ Cardinality(Under(entries, d, 0)) = Epochs!Outstanding(t)
         /\ \A x \in DOMAIN entries : \A u \in 1..entries[x].balance : <<x, u>> \in Under(entries, d, 0)
<1>1. /\ d \in Nat /\ DOMAIN entries = 0..(2 ^ d - 1)
      /\ \A i \in DOMAIN entries : entries[i].balance \in Nat
  BY DEF Placed
<1>2. PICK L : L = Epochs!levelsOf(LeavesOf(day, entries), d)
  OBVIOUS
<1>3. t = [toDay |-> day, entries |-> entries, levels |-> L, depth |-> d]
  BY <1>2, BuildFacts
<1>4. \A k \in 0..(d - 1) : \A i \in 0..(2 ^ (d - (k + 1)) - 1) :
        Epochs!addSum(L[k][2 * i].sum, L[k][2 * i + 1].sum).ok
  BY <1>2, BuildFacts
<1>5. d \in 0..d /\ 0..(2 ^ (d - d) - 1) = {0}
  <2>1. d - d = 0 /\ d \in 0..d
    BY <1>1
  <2>2. 2 ^ (d - d) = 2 ^ 0
    BY <2>1, Zenon
  <2> QED
    BY <2>1, <2>2, 2 ^ 0 = 1
<1>6. 0 \in DOMAIN L[d]
  <2>1. DOMAIN LeavesOf(day, entries) = 0..(2 ^ d - 1)
    BY <1>1 DEF LeavesOf
  <2>2. DOMAIN L[d] = 0..(2 ^ (d - d) - 1)
    BY <1>1, <1>2, <1>5, <2>1, SizeFacts
  <2> QED
    BY <1>5, <2>2
<1>7. IsFiniteSet(Under(entries, d, 0)) /\ Cardinality(Under(entries, d, 0)) = L[d][0].sum
  BY <1>1, <1>2, <1>4, <1>5, <1>6, LevelUnits
<1>8. Epochs!Outstanding(t) = L[d][0].sum
  BY <1>3 DEF Epochs!Outstanding
<1>9. \A x \in DOMAIN entries : x \div 2 ^ d = 0
  <2>1. \A x \in 0..(2 ^ d - 1) : x \div 2 ^ d \in 0..(2 ^ (d - d) - 1)
    BY <1>1, <1>5, PositionFacts
  <2> QED
    BY <1>1, <1>5, <2>1
<1>10. \A x \in DOMAIN entries : \A u \in 1..entries[x].balance : <<x, u>> \in Under(entries, d, 0)
  BY <1>9 DEF Under
<1> QED
  BY <1>7, <1>8, <1>10

LEMMA HonestCount ==
  ASSUME NilIsNoHash, HonestInv, NEW e \in DOMAIN epochs
  PROVE  Epochs!Counted(e) <= epochs[e].rec.outstanding
<1>1. e \in 1..Len(epochs) /\ EpochOK(e, epochs[e])
  BY LogFacts DEF HonestInv
<1>2. PICK entries : entries = epochs[e].entries
  OBVIOUS
<1>3. PICK t : t = Epochs!build(e, entries)
  OBVIOUS
<1>4. PICK rec : rec = epochs[e].rec
  OBVIOUS
<1>5. PICK d \in MinDepth..MaxDepth :
        /\ DOMAIN entries = 0..(2 ^ d - 1)
        /\ \A i \in DOMAIN entries : EntryOK(entries[i], epochs[e].owed)
        /\ t # None /\ rec # None
        /\ rec = Epochs!SupplyEpochRecord(
             Epochs!SupplyEpoch(e, e, Epochs!Root(t), Epochs!Outstanding(t), d))
  BY <1>1, <1>2, <1>3, <1>4 DEF EpochOK
<1>6. Placed(entries, d) /\ t # None
  BY <1>5, PlacedFacts
<1>7. PICK U : U = Under(entries, d, 0)
  OBVIOUS
<1>8. /\ IsFiniteSet(U) /\ Cardinality(U) = Epochs!Outstanding(t)
      /\ \A x \in DOMAIN entries : \A u \in 1..entries[x].balance : <<x, u>> \in U
  BY <1>3, <1>6, <1>7, OutstandingFacts
<1>9. rec.outstanding = Epochs!Outstanding(t)
  <2>1. PICK s : s = Epochs!SupplyEpoch(e, e, Epochs!Root(t), Epochs!Outstanding(t), d)
    OBVIOUS
  <2>2. rec = Epochs!SupplyEpochRecord(s) /\ rec # None
    BY <1>5, <2>1
  <2>3. rec.outstanding = s.outstanding
    BY <2>2 DEF Epochs!SupplyEpochRecord
  <2>4. s.outstanding = Epochs!Outstanding(t)
    BY <2>1 DEF Epochs!SupplyEpoch
  <2> QED
    BY <2>3, <2>4
<1> DEFINE pos(v) == CHOOSE i \in DOMAIN entries : entries[i].aid = v.aid /\ entries[i].balance = v.balance
           C == CoinsOf(e)
           f == [z \in C |-> <<pos(z[1]), z[2]>>]
<1>10. \A v \in verdicts : v.epoch = e =>
         /\ v = [epoch |-> v.epoch, aid |-> v.aid, balance |-> v.balance, finding |-> v.finding]
         /\ \E i \in DOMAIN entries : entries[i].aid = v.aid /\ entries[i].balance = v.balance
  BY <1>2 DEF HonestInv, FindingOK
<1>11. \A v \in verdicts : v.epoch = e =>
         pos(v) \in DOMAIN entries /\ entries[pos(v)].aid = v.aid /\ entries[pos(v)].balance = v.balance
  BY <1>10
<1> HIDE DEF pos
<1>12. \A v, w \in verdicts : v.epoch = e /\ w.epoch = e /\ v.finding = "ok" /\ w.finding = "ok" /\ pos(v) = pos(w) => v = w
  BY <1>10, <1>11
<1>13. f \in [C -> U]
  <2> SUFFICES ASSUME NEW z \in C PROVE <<pos(z[1]), z[2]>> \in U
    OBVIOUS
  <2>1. z[1] \in verdicts /\ z[1].epoch = e /\ z[2] \in 1..z[1].balance
    BY CoinFacts
  <2> QED
    BY <1>8, <1>11, <2>1
<1>14. \A y, z \in C : f[y] = f[z] => y = z
  <2> SUFFICES ASSUME NEW y \in C, NEW z \in C, f[y] = f[z] PROVE y = z
    OBVIOUS
  <2>1. /\ y = <<y[1], y[2]>> /\ y[1] \in verdicts /\ y[1].epoch = e /\ y[1].finding = "ok"
        /\ z = <<z[1], z[2]>> /\ z[1] \in verdicts /\ z[1].epoch = e /\ z[1].finding = "ok"
    BY CoinFacts
  <2>2. pos(y[1]) = pos(z[1]) /\ y[2] = z[2]
    OBVIOUS
  <2>3. y[1] = z[1]
    BY <1>12, <2>1, <2>2
  <2> QED
    BY <2>1, <2>2, <2>3
<1> HIDE DEF f, C
<1>15. Cardinality(C) <= Cardinality(U)
  BY <1>8, <1>13, <1>14, AtMost
<1> QED
  BY <1>4, <1>8, <1>9, <1>15, CountedIs DEF C

-----------------------------------------------------------------------------
(* Epochs: a hub that makes up its sums. *)

\* A step of a path that leads to the hash of l and r comes from one of them, with its sum.
LEMMA ClimbFacts ==
  ASSUME NEW cur, NEW st, st.side \in {"L", "R"}, NEW l, NEW r, l.sum \in Nat, r.sum \in Nat,
         Climb(cur, st).ok, Climb(cur, st).hash = Epochs!NodeHash(l, r)
  PROVE  /\ cur.ok /\ Climb(cur, st).sum = l.sum + r.sum
         /\ st.side = "L" => cur.hash = r.hash /\ cur.sum = r.sum
         /\ st.side = "R" => cur.hash = l.hash /\ cur.sum = l.sum
<1>1. PICK top : top = Climb(cur, st)
  OBVIOUS
<1>2. /\ cur.ok /\ Epochs!addSum(cur.sum, st.sum).ok /\ top.sum = Epochs!addSum(cur.sum, st.sum).sum
      /\ top.hash = IF st.side = "L" THEN Epochs!NodeHash(st, cur) ELSE Epochs!NodeHash(cur, st)
  BY <1>1 DEF Climb
<1>3. top.hash = Epochs!NodeHash(l, r)
  BY <1>1
<1>4. CASE st.side = "L"
  <2>1. Epochs!NodeHash(st, cur) = Epochs!NodeHash(l, r)
    BY <1>2, <1>3, <1>4
  <2>2. st.sum = l.sum /\ cur.hash = r.hash /\ cur.sum = r.sum
    BY <2>1 DEF Epochs!NodeHash
  <2>3. top.sum = r.sum + l.sum
    BY <1>2, <2>2, NoWrap
  <2> QED
    BY <1>1, <1>2, <1>4, <2>2, <2>3
<1>5. CASE st.side = "R"
  <2>1. Epochs!NodeHash(cur, st) = Epochs!NodeHash(l, r)
    BY <1>2, <1>3, <1>5
  <2>2. st.sum = r.sum /\ cur.hash = l.hash /\ cur.sum = l.sum
    BY <2>1 DEF Epochs!NodeHash
  <2>3. top.sum = l.sum + r.sum
    BY <1>2, <2>2, NoWrap
  <2> QED
    BY <1>1, <1>2, <1>5, <2>2, <2>3
<1> QED
  BY <1>4, <1>5

\* What Verify lets pass.
LEMMA VerifyFacts ==
  ASSUME NEW p, NEW root, NEW outstanding, NEW depth, Epochs!Verify(p, root, outstanding, depth) = "ok"
  PROVE  Epochs!fold(p).ok /\ Epochs!fold(p).hash = root /\ Epochs!fold(p).sum = outstanding
  BY DEF Epochs!Verify

\* Claimed sums are naturals.
LEMMA ClaimFacts == \A n \in ClaimedSums : n \in Nat
<1>1. WordMax \in Nat /\ ClaimedSums \subseteq 0..WordMax
  BY SumsAssumption, WordsAssumption
<1> QED
  BY <1>1

\* The level k of such a hub's tree over the level below.
ForgedLevel(entries, d, lies, k, below) ==
  [i \in 0..(2 ^ (d - k) - 1) |->
     IF k = 0
     THEN [hash |-> Epochs!LeafHash(entries[i].aid, 1, entries[i].balance, entries[i].salt),
           sum  |-> Epochs!Claimed(lies, k, i, entries[i].balance)]
     ELSE [hash |-> Epochs!NodeHash(below[2 * i], below[2 * i + 1]),
           sum  |-> Epochs!Claimed(lies, k, i, Epochs!addSum(below[2 * i].sum, below[2 * i + 1].sum).sum)]]

LEMMA ForgedLevels ==
  ASSUME NEW entries, NEW d \in Nat, NEW lies, NEW t, t = Epochs!ForgedTree(entries, d, lies)
  PROVE  /\ t.toDay = 1 /\ t.entries = entries /\ t.depth = d
         /\ \A k \in 0..d : t.levels[k] = ForgedLevel(entries, d, lies, k, t.levels[k - 1])
<1> DEFINE F(n, f) == f = [k \in 0..n |-> ForgedLevel(entries, d, lies, k, f[k - 1])]
           S == {n \in 0..d : \E f : F(n, f)}
           L == CHOOSE f : F(d, f)
<1>0. t = [toDay |-> 1, entries |-> entries, levels |-> L, depth |-> d]
  BY DEF Epochs!ForgedTree, ForgedLevel
<1>1. 0 \in S
  <2> DEFINE f == [k \in 0..0 |-> ForgedLevel(entries, d, lies, 0, <<>>)]
  <2>1. ForgedLevel(entries, d, lies, 0, f[0 - 1]) = ForgedLevel(entries, d, lies, 0, <<>>)
    BY DEF ForgedLevel
  <2> HIDE DEF f
  <2>2. f = [k \in 0..0 |-> ForgedLevel(entries, d, lies, k, f[k - 1])]
    <3>1. \A k \in 0..0 : ForgedLevel(entries, d, lies, k, f[k - 1]) = ForgedLevel(entries, d, lies, 0, <<>>)
      BY <2>1
    <3> QED
      BY <3>1 DEF f
  <2>3. F(0, f)
    BY <2>2
  <2> HIDE DEF F
  <2> QED
    BY <2>3
<1>2. \A n \in 0..(d - 1) : n \in S => n + 1 \in S
  <2> SUFFICES ASSUME NEW n \in 0..(d - 1), NEW f, F(n, f) PROVE \E g : F(n + 1, g)
    OBVIOUS
  <2> DEFINE g == [k \in 0..(n + 1) |-> IF k <= n THEN f[k] ELSE ForgedLevel(entries, d, lies, n + 1, f[n])]
  <2>1. \A k \in 0..(n + 1) : k # 0 => g[k - 1] = f[k - 1]
    OBVIOUS
  <2>2. \A h : ForgedLevel(entries, d, lies, 0, h) = ForgedLevel(entries, d, lies, 0, <<>>)
    BY DEF ForgedLevel
  <2>3. \A k \in 0..(n + 1) : g[k] = ForgedLevel(entries, d, lies, k, g[k - 1])
    <3> SUFFICES ASSUME NEW k \in 0..(n + 1) PROVE g[k] = ForgedLevel(entries, d, lies, k, g[k - 1])
      OBVIOUS
    <3>1. k <= n => g[k] = ForgedLevel(entries, d, lies, k, f[k - 1])
      OBVIOUS
    <3>2. k = n + 1 => g[k] = ForgedLevel(entries, d, lies, k, f[k - 1])
      OBVIOUS
    <3>3. ForgedLevel(entries, d, lies, k, g[k - 1]) = ForgedLevel(entries, d, lies, k, f[k - 1])
      <4>1. CASE k = 0
        <5>1. /\ ForgedLevel(entries, d, lies, 0, g[0 - 1]) = ForgedLevel(entries, d, lies, 0, <<>>)
              /\ ForgedLevel(entries, d, lies, 0, f[0 - 1]) = ForgedLevel(entries, d, lies, 0, <<>>)
          BY <2>2, Zenon
        <5> QED
          BY <4>1, <5>1, Zenon
      <4>2. CASE k # 0
        <5>1. g[k - 1] = f[k - 1]
          BY <2>1, <4>2
        <5> QED
          BY <5>1, Zenon
      <4> QED
        BY <4>1, <4>2
    <3> QED
      BY <3>1, <3>2, <3>3
  <2>4. F(n + 1, g)
    BY <2>3
  <2> QED
    BY <2>4
<1> HIDE DEF S
<1>3. d \in S
  BY <1>1, <1>2, UpTo
<1>4. \E f : F(d, f)
  BY <1>3 DEF S
<1> HIDE DEF F
<1>5. F(d, L)
  BY <1>4
<1> HIDE DEF L
<1>6. \A k \in 0..d : L[k] = ForgedLevel(entries, d, lies, k, L[k - 1])
  BY <1>5 DEF F
<1> QED
  BY <1>0, <1>6

\* Two nodes below each node.
LEMMA Children ==
  ASSUME NEW d \in Nat, NEW k \in 1..d, NEW i \in 0..(2 ^ (d - k) - 1)
  PROVE  /\ k - 1 \in 0..d /\ i \in Nat
         /\ 2 * i \in 0..(2 ^ (d - (k - 1)) - 1) /\ 2 * i + 1 \in 0..(2 ^ (d - (k - 1)) - 1)
<1>1. d - k \in Nat /\ d - (k - 1) = (d - k) + 1 /\ k - 1 \in 0..d
  OBVIOUS
<1>2. 2 ^ (d - (k - 1)) = 2 * 2 ^ (d - k) /\ 2 ^ (d - k) \in Nat
  BY <1>1, PowerStep, PowerOf
<1> QED
  BY <1>1, <1>2

LEMMA TreeIsForged ==
  ASSUME NEW entries, NEW d \in Nat, \A i \in 0..(2 ^ d - 1) : entries[i].balance \in Nat,
         NEW lies, \A z \in DOMAIN lies : lies[z] \in Nat, NEW t, t = Epochs!ForgedTree(entries, d, lies)
  PROVE  IsForged(t, entries, d)
<1>1. PICK L : L = t.levels
  OBVIOUS
<1>2. /\ t.toDay = 1 /\ t.entries = entries /\ t.depth = d
      /\ \A k \in 0..d : L[k] = ForgedLevel(entries, d, lies, k, L[k - 1])
  BY <1>1, ForgedLevels
<1>3. \A k, i, s : s \in Nat => Epochs!Claimed(lies, k, i, s) \in Nat
  BY DEF Epochs!Claimed
<1>4. \A i \in 0..(2 ^ d - 1) :
        /\ L[0][i].hash = Epochs!LeafHash(entries[i].aid, 1, entries[i].balance, entries[i].salt)
        /\ L[0][i].sum \in Nat
  <2>1. L[0] = ForgedLevel(entries, d, lies, 0, L[0 - 1])
    BY <1>2
  <2>2. d - 0 = d
    OBVIOUS
  <2> SUFFICES ASSUME NEW i \in 0..(2 ^ d - 1)
               PROVE  /\ L[0][i].hash = Epochs!LeafHash(entries[i].aid, 1, entries[i].balance, entries[i].salt)
                      /\ L[0][i].sum \in Nat
    OBVIOUS
  <2>3. i \in 0..(2 ^ (d - 0) - 1)
    BY <2>2
  <2>4. L[0][i] = [ hash |-> Epochs!LeafHash(entries[i].aid, 1, entries[i].balance, entries[i].salt),
                    sum |-> Epochs!Claimed(lies, 0, i, entries[i].balance) ]
    BY <2>1, <2>3 DEF ForgedLevel
  <2>5. Epochs!Claimed(lies, 0, i, entries[i].balance) \in Nat
    BY <1>3
  <2> QED
    BY <2>4, <2>5
<1>5. \A k \in 1..d : \A i \in 0..(2 ^ (d - k) - 1) :
        /\ L[k][i].hash = Epochs!NodeHash(L[k - 1][2 * i], L[k - 1][2 * i + 1])
        /\ L[k][i].sum = Epochs!Claimed(lies, k, i, Epochs!addSum(L[k - 1][2 * i].sum, L[k - 1][2 * i + 1].sum).sum)
  <2> SUFFICES ASSUME NEW k \in 1..d, NEW i \in 0..(2 ^ (d - k) - 1)
               PROVE  /\ L[k][i].hash = Epochs!NodeHash(L[k - 1][2 * i], L[k - 1][2 * i + 1])
                      /\ L[k][i].sum = Epochs!Claimed(lies, k, i,
                           Epochs!addSum(L[k - 1][2 * i].sum, L[k - 1][2 * i + 1].sum).sum)
    OBVIOUS
  <2>1. L[k] = ForgedLevel(entries, d, lies, k, L[k - 1])
    BY <1>2
  <2>2. k # 0
    OBVIOUS
  <2> QED
    BY <2>1, <2>2 DEF ForgedLevel
<1> DEFINE P(k) == \A i \in 0..(2 ^ (d - k) - 1) : L[k][i].sum \in Nat
           S == {k \in 0..d : P(k)}
<1>6. P(0)
  <2>1. d - 0 = d
    OBVIOUS
  <2> QED
    BY <1>4, <2>1
<1>7. ASSUME NEW k \in 0..(d - 1), P(k) PROVE P(k + 1)
  <2> SUFFICES ASSUME NEW i \in 0..(2 ^ (d - (k + 1)) - 1) PROVE L[k + 1][i].sum \in Nat
    OBVIOUS
  <2>1. k + 1 \in 1..d /\ (k + 1) - 1 = k
    OBVIOUS
  <2>2. 2 * i \in 0..(2 ^ (d - k) - 1) /\ 2 * i + 1 \in 0..(2 ^ (d - k) - 1)
    BY <2>1, Children
  <2>3. L[k][2 * i].sum \in Int /\ L[k][2 * i + 1].sum \in Int
    BY <1>7, <2>2
  <2>4. Epochs!addSum(L[k][2 * i].sum, L[k][2 * i + 1].sum).sum \in 0..WordMax
    BY <2>3, AddFacts
  <2>5. Epochs!addSum(L[k][2 * i].sum, L[k][2 * i + 1].sum).sum \in Nat
    BY <2>4, WordsAssumption
  <2> QED
    BY <1>3, <1>5, <2>1, <2>5
<1> HIDE DEF P
<1>8. 0 \in S /\ \A k \in 0..(d - 1) : k \in S => k + 1 \in S
  BY <1>6, <1>7
<1> HIDE DEF S
<1>9. \A k \in 0..d : P(k)
  <2>1. \A k \in 0..d : k \in S
    BY <1>8, UpTo
  <2> QED
    BY <2>1 DEF S
<1> QED
  BY <1>1, <1>2, <1>4, <1>5, <1>9 DEF IsForged, P

\* What such a hub shows the account at leaf i: the path of its tree, whatever sums it carries.
LEMMA ForgedPath ==
  ASSUME NilIsNoHash, NEW entries, NEW d, Placed(entries, d), NEW t, IsForged(t, entries, d),
         NEW i \in DOMAIN entries, NEW sums, NEW p, p = Epochs!WithSums(Epochs!proofAt(t, i), sums)
  PROVE  /\ p = [ aid |-> entries[i].aid, toDay |-> 1, balance |-> entries[i].balance, salt |-> entries[i].salt,
                  path |-> p.path ]
         /\ IsPath(p.path, d)
         /\ \A k \in 1..d : p.path[k] = [hash |-> p.path[k].hash, sum |-> p.path[k].sum, side |-> p.path[k].side]
         /\ \A k \in 1..d : p.path[k].hash # None
         /\ \A k \in 1..d : p.path[k].side = IF (i \div (2 ^ (k - 1))) % 2 = 1 THEN "L" ELSE "R"
<1>1. d \in Nat /\ DOMAIN entries = 0..(2 ^ d - 1)
  BY DEF Placed
<1>2. /\ t.toDay = 1 /\ t.entries = entries /\ t.depth = d
  BY DEF IsForged
<1>3. PICK L : L = t.levels
  OBVIOUS
<1> DEFINE pos(k) == i \div (2 ^ (k - 1))
           step(k) == IF pos(k) % 2 = 1 THEN Epochs!Step(L[k - 1][pos(k) - 1], "L")
                                        ELSE Epochs!Step(L[k - 1][pos(k) + 1], "R")
           told(k) == IF k \in DOMAIN sums THEN [step(k) EXCEPT !.sum = sums[k]] ELSE step(k)
<1>4. PICK o : o = Epochs!proofAt(t, i)
  OBVIOUS
<1>5. o = [ aid |-> entries[i].aid, toDay |-> 1, balance |-> entries[i].balance, salt |-> entries[i].salt,
            path |-> [k \in 1..d |-> step(k)] ]
  BY <1>2, <1>3, <1>4 DEF Epochs!proofAt
<1>6. p = [o EXCEPT !.path = [k \in DOMAIN o.path |->
             IF k \in DOMAIN sums THEN [o.path[k] EXCEPT !.sum = sums[k]] ELSE o.path[k]]]
  BY <1>4 DEF Epochs!WithSums
<1> HIDE DEF step
<1>7. DOMAIN o.path = 1..d /\ \A k \in 1..d : o.path[k] = step(k)
  BY <1>5
<1>8. [ k \in DOMAIN o.path |->
          IF k \in DOMAIN sums THEN [o.path[k] EXCEPT !.sum = sums[k]] ELSE o.path[k] ] = [k \in 1..d |-> told(k)]
  BY <1>7
<1> HIDE DEF told
<1>9. p = [ aid |-> entries[i].aid, toDay |-> 1, balance |-> entries[i].balance, salt |-> entries[i].salt,
            path |-> [k \in 1..d |-> told(k)] ]
  BY <1>5, <1>6, <1>8
<1>10. p.path = [k \in 1..d |-> told(k)] /\ Len(p.path) = d /\ \A k \in 1..d : p.path[k] = told(k)
  BY <1>1, <1>9
<1>11. \A k : /\ step(k) = [hash |-> step(k).hash, sum |-> step(k).sum, side |-> step(k).side]
              /\ step(k).side = (IF pos(k) % 2 = 1 THEN "L" ELSE "R")
              /\ step(k).hash = (IF pos(k) % 2 = 1 THEN L[k - 1][pos(k) - 1] ELSE L[k - 1][pos(k) + 1]).hash
  BY DEF step, Epochs!Step
<1>12. \A k : /\ told(k) = [hash |-> told(k).hash, sum |-> told(k).sum, side |-> told(k).side]
              /\ told(k).side = step(k).side /\ told(k).hash = step(k).hash
  BY <1>11 DEF told
<1>13. \A k \in 0..d : \A n \in 0..(2 ^ (d - k) - 1) : L[k][n].hash # None
  <2> SUFFICES ASSUME NEW k \in 0..d, NEW n \in 0..(2 ^ (d - k) - 1) PROVE L[k][n].hash # None
    OBVIOUS
  <2>1. CASE k = 0
    <3>1. n \in 0..(2 ^ d - 1)
      BY <1>1, <2>1
    <3>2. L[0][n].hash = Epochs!LeafHash(entries[n].aid, 1, entries[n].balance, entries[n].salt)
      BY <1>3, <3>1 DEF IsForged
    <3> QED
      BY <2>1, <3>2 DEF NilIsNoHash
  <2>2. CASE k # 0
    <3>1. k \in 1..d
      BY <1>1, <2>2
    <3>2. L[k][n].hash = Epochs!NodeHash(L[k - 1][2 * n], L[k - 1][2 * n + 1])
      BY <1>3, <3>1 DEF IsForged
    <3> QED
      BY <3>2 DEF NilIsNoHash
  <2> QED
    BY <2>1, <2>2
<1>14. ASSUME NEW k \in 1..d PROVE step(k).hash # None
  <2>1. k - 1 \in 0..d /\ k - 1 \in Nat /\ d - k \in Nat /\ d - (k - 1) = (d - k) + 1
    BY <1>1
  <2>2. 2 ^ (d - (k - 1)) = 2 * 2 ^ (d - k) /\ 2 ^ (d - k) \in Nat
    BY <2>1, PowerStep, PowerOf
  <2>3. pos(k) \in 0..(2 * 2 ^ (d - k) - 1)
    BY <1>1, <2>1, <2>2, PositionFacts
  <2>4. \A n \in 0..(2 * 2 ^ (d - k) - 1) : L[k - 1][n].hash # None
    BY <1>13, <2>1, <2>2
  <2> HIDE DEF pos
  <2>5. IF pos(k) % 2 = 1 THEN pos(k) - 1 \in 0..(2 * 2 ^ (d - k) - 1) ELSE pos(k) + 1 \in 0..(2 * 2 ^ (d - k) - 1)
    BY <2>2, <2>3, Siblings
  <2> QED
    BY <1>11, <2>4, <2>5
<1>15. /\ \A k \in 1..d : p.path[k] = [hash |-> p.path[k].hash, sum |-> p.path[k].sum, side |-> p.path[k].side]
       /\ \A k \in 1..d : p.path[k].hash # None
  BY <1>10, <1>12, <1>14
<1>16. \A k \in 1..d : p.path[k].side = IF pos(k) % 2 = 1 THEN "L" ELSE "R"
  BY <1>10, <1>11, <1>12
<1>17. p.path \in Seq({p.path[k] : k \in 1..d})
  <2>1. p.path = [k \in 1..d |-> p.path[k]]
    BY <1>10
  <2> QED
    BY <1>1, <2>1
<1>18. IsPath(p.path, d)
  <2>1. \A k \in 1..d : p.path[k].side \in {"L", "R"}
    BY <1>16
  <2> QED
    BY <1>10, <1>17, <2>1 DEF IsPath
<1>19. p = [ aid |-> entries[i].aid, toDay |-> 1, balance |-> entries[i].balance, salt |-> entries[i].salt,
             path |-> p.path ]
  BY <1>9
<1> QED
  BY <1>15, <1>16, <1>18, <1>19

\* When the account finds a proof good, the sums above its leaf add up.
LEMMA ForgedAudit ==
  ASSUME NilIsNoHash, NEW entries, NEW d \in MinDepth..MaxDepth, Placed(entries, d),
         NEW t, IsForged(t, entries, d), NEW rec, rec # None, epochs[1].rec = rec,
         rec = Epochs!SupplyEpochRecord(Epochs!SupplyEpoch(1, 1, Epochs!Root(t), Epochs!Outstanding(t), d)),
         NEW i \in DOMAIN entries, NEW sums, NEW p, p = Epochs!WithSums(Epochs!proofAt(t, i), sums),
         Epochs!Finding(p.aid, 1, Epochs!Wire(p)) = "ok"
  PROVE  SumsUp(t, entries, d, i)
<1>1. /\ d \in Nat /\ 1 <= d /\ d <= MaxDepth /\ DOMAIN entries = 0..(2 ^ d - 1)
      /\ \A n \in DOMAIN entries : entries[n].salt # None
  BY DepthRange DEF Placed
<1>2. PICK L : L = t.levels
  OBVIOUS
<1>3. /\ t.depth = d
      /\ \A k \in 0..d : \A n \in 0..(2 ^ (d - k) - 1) : L[k][n].sum \in Nat
      /\ L[0][i].hash = Epochs!LeafHash(entries[i].aid, 1, entries[i].balance, entries[i].salt)
      /\ \A k \in 1..d : \A n \in 0..(2 ^ (d - k) - 1) :
           L[k][n].hash = Epochs!NodeHash(L[k - 1][2 * n], L[k - 1][2 * n + 1])
  BY <1>1, <1>2 DEF IsForged
<1>4. PICK root, outstanding : root = Epochs!Root(t) /\ outstanding = Epochs!Outstanding(t)
  OBVIOUS
<1>5. root = L[d][0].hash /\ outstanding = L[d][0].sum
  BY <1>2, <1>3, <1>4 DEF Epochs!Root, Epochs!Outstanding
<1>6. d \in 1..d /\ 0 \in 0..(2 ^ (d - d) - 1)
  <2>1. d - d = 0
    BY <1>1
  <2>2. 2 ^ (d - d) = 2 ^ 0
    BY <2>1, Zenon
  <2> QED
    BY <1>1, <2>2, 2 ^ 0 = 1
<1>7. root # None
  <2>1. L[d][0].hash = Epochs!NodeHash(L[d - 1][2 * 0], L[d - 1][2 * 0 + 1])
    BY <1>3, <1>6
  <2> QED
    BY <1>5, <2>1 DEF NilIsNoHash
<1>8. PICK f : f = Epochs!SupplyEpoch(1, 1, root, outstanding, d)
  OBVIOUS
<1>9. Epochs!ParseSupplyEpoch(rec) = f /\ f.root = root /\ f.outstanding = outstanding /\ f.depth = d /\ f # None
  <2>1. Epochs!ParseSupplyEpoch(rec) = f
    BY <1>4, <1>7, <1>8, RecordFacts
  <2> QED
    BY <1>8, <2>1 DEF Epochs!SupplyEpoch, NilIsNoHash
<1>10. /\ p = [ aid |-> entries[i].aid, toDay |-> 1, balance |-> entries[i].balance, salt |-> entries[i].salt,
                path |-> p.path ]
       /\ IsPath(p.path, d)
       /\ \A k \in 1..d : p.path[k] = [hash |-> p.path[k].hash, sum |-> p.path[k].sum, side |-> p.path[k].side]
       /\ \A k \in 1..d : p.path[k].hash # None
       /\ \A k \in 1..d : p.path[k].side = IF (i \div (2 ^ (k - 1))) % 2 = 1 THEN "L" ELSE "R"
  BY ForgedPath
<1>11. Epochs!Parse(Epochs!Wire(p)) = p
  <2>1. p.salt # None
    <3>1. p.salt = entries[i].salt
      BY <1>10
    <3> QED
      BY <1>1, <3>1
  <2>2. p = [ aid |-> p.aid, toDay |-> p.toDay, balance |-> p.balance, salt |-> p.salt, path |-> p.path ]
    BY <1>10
  <2>3. /\ Len(p.path) = d /\ p.path \in Seq({p.path[k] : k \in 1..d})
        /\ \A k \in 1..d : p.path[k].side \in {"L", "R"}
    BY <1>10 DEF IsPath
  <2>4. \A k \in 1..d : p.path[k].hash # None /\ p.path[k].side \in {"L", "R"}
    BY <1>10, <2>3
  <2>5. \A k \in 1..d : p.path[k] = [hash |-> p.path[k].hash, sum |-> p.path[k].sum, side |-> p.path[k].side]
    BY <1>10
  <2>6. d \in Nat /\ d <= MaxDepth
    BY <1>1
  <2> QED
    BY <2>1, <2>2, <2>3, <2>4, <2>5, <2>6, WireFacts
<1>12. Epochs!Verify(p, f.root, f.outstanding, f.depth) = "ok"
  BY <1>9, <1>11 DEF Epochs!Finding
<1>13. Epochs!fold(p).ok /\ Epochs!fold(p).hash = root /\ Epochs!fold(p).sum = outstanding
  BY <1>9, <1>12, VerifyFacts
<1>14. Len(p.path) = d
  BY <1>10 DEF IsPath
<1>15. PICK up : /\ up = [k \in 0..d |-> IF k = 0 THEN Bottom(p) ELSE Climb(up[k - 1], p.path[k])]
                 /\ Epochs!fold(p) = up[d]
  BY <1>1, <1>14, FoldFacts
<1>16. \A k \in 0..d : up[k] = IF k = 0 THEN Bottom(p) ELSE Climb(up[k - 1], p.path[k])
  BY <1>15
<1> DEFINE pos(k) == i \div (2 ^ k)
           P(k) == up[k].ok /\ up[k].hash = L[k][pos(k)].hash /\ up[k].sum = L[k][pos(k)].sum
           S == {n \in 0..d : P(d - n)}
<1>17. \A k \in 0..d : pos(k) \in 0..(2 ^ (d - k) - 1)
  BY <1>1, PositionFacts
<1>18. pos(d) = 0
  <2>1. pos(d) \in 0..(2 ^ (d - d) - 1)
    <3>1. d \in 0..d
      BY <1>1
    <3> HIDE DEF pos
    <3> QED
      BY <1>17, <3>1, Zenon
  <2>2. d - d = 0
    BY <1>1
  <2>3. 2 ^ (d - d) = 2 ^ 0
    BY <2>2, Zenon
  <2> HIDE DEF pos
  <2> QED
    BY <2>1, <2>3, 2 ^ 0 = 1
<1>19. P(d)
  BY <1>5, <1>13, <1>15, <1>18
<1>20. ASSUME NEW k \in 1..d, P(k) PROVE P(k - 1) /\ Adds(t, k, i)
  <2>1. k \in 0..d /\ k - 1 \in 0..d /\ k - 1 \in Nat /\ k # 0 /\ (k - 1) + 1 = k
    BY <1>1
  <2>2. pos(k - 1) \in Nat /\ pos(k) = pos(k - 1) \div 2
    <3>1. 2 ^ ((k - 1) + 1) = 2 * 2 ^ (k - 1) /\ 2 ^ (k - 1) \in Nat /\ 1 <= 2 ^ (k - 1)
      BY <2>1, PowerStep, PowerPositive
    <3>2. i \in Nat
      BY <1>1, PowerOf
    <3>3. 2 ^ k = 2 * 2 ^ (k - 1)
      BY <2>1, <3>1
    <3> QED
      BY <3>1, <3>2, <3>3, Halves
  <2>3. p.path[k].side = IF pos(k - 1) % 2 = 1 THEN "L" ELSE "R"
    BY <1>10
  <2>4. pos(k) \in 0..(2 ^ (d - k) - 1)
    BY <1>17, <2>1
  <2> HIDE DEF pos
  <2>5. PICK n, cur, st, l, r :
          n = pos(k) /\ cur = up[k - 1] /\ st = p.path[k] /\ l = L[k - 1][2 * n] /\ r = L[k - 1][2 * n + 1]
    OBVIOUS
  <2>6. up[k] = Climb(cur, st)
    BY <1>16, <2>1, <2>5
  <2>7. Climb(cur, st).ok /\ Climb(cur, st).sum = L[k][n].sum /\ Climb(cur, st).hash = Epochs!NodeHash(l, r)
    <3>1. L[k][n].hash = Epochs!NodeHash(l, r)
      BY <1>3, <2>4, <2>5
    <3> QED
      BY <1>20, <2>5, <2>6, <3>1
  <2>8. l.sum \in Nat /\ r.sum \in Nat
    <3>1. 2 * n \in 0..(2 ^ (d - (k - 1)) - 1) /\ 2 * n + 1 \in 0..(2 ^ (d - (k - 1)) - 1)
      BY <1>1, <2>4, <2>5, Children
    <3> QED
      BY <1>3, <2>1, <2>5, <3>1
  <2>9. st.side \in {"L", "R"}
    BY <2>3, <2>5
  <2>10. /\ cur.ok /\ Climb(cur, st).sum = l.sum + r.sum
         /\ st.side = "L" => cur.hash = r.hash /\ cur.sum = r.sum
         /\ st.side = "R" => cur.hash = l.hash /\ cur.sum = l.sum
    BY <2>7, <2>8, <2>9, ClimbFacts
  <2>11. L[k][n].sum = l.sum + r.sum
    BY <2>7, <2>10
  <2>12. P(k - 1)
    <3>1. CASE pos(k - 1) % 2 = 1
      <4>1. pos(k - 1) = 2 * n + 1
        BY <2>2, <2>5, <3>1
      <4>2. st.side = "L"
        BY <2>3, <2>5, <3>1
      <4> QED
        BY <2>5, <2>10, <4>1, <4>2
    <3>2. CASE pos(k - 1) % 2 # 1
      <4>1. pos(k - 1) = 2 * n
        BY <2>2, <2>5, <3>2
      <4>2. st.side = "R"
        BY <2>3, <2>5, <3>2
      <4> QED
        BY <2>5, <2>10, <4>1, <4>2
    <3> QED
      BY <3>1, <3>2
  <2>13. Adds(t, k, i)
    BY <1>2, <2>5, <2>11 DEF Adds, pos
  <2> QED
    BY <2>12, <2>13
<1> HIDE DEF P
<1>21. 0 \in S
  <2>1. d - 0 = d /\ 0 \in 0..d
    BY <1>1
  <2> QED
    BY <1>19, <2>1
<1>22. \A n \in 0..(d - 1) : n \in S => n + 1 \in S
  <2> SUFFICES ASSUME NEW n \in 0..(d - 1), n \in S PROVE n + 1 \in S
    OBVIOUS
  <2>1. d - n \in 1..d /\ n + 1 \in 0..d /\ d - (n + 1) = (d - n) - 1
    BY <1>1
  <2>2. P((d - n) - 1)
    BY <1>20, <2>1
  <2> QED
    BY <2>1, <2>2
<1>23. \A k \in 0..d : P(k)
  <2> SUFFICES ASSUME NEW k \in 0..d PROVE P(k)
    OBVIOUS
  <2>1. d - k \in 0..d /\ d - (d - k) = k
    BY <1>1
  <2> HIDE DEF S
  <2>2. d - k \in S
    BY <1>1, <1>21, <1>22, <2>1, UpTo
  <2> QED
    BY <2>1, <2>2 DEF S
<1>24. \A k \in 1..d : Adds(t, k, i)
  <2>1. \A k \in 1..d : k \in 0..d
    BY <1>1
  <2> QED
    BY <1>20, <1>23, <2>1
<1>25. L[0][i].sum = entries[i].balance
  <2>1. pos(0) = i
    <3>1. i \in Nat
      BY <1>1, PowerOf
    <3> QED
      BY <3>1, 2 ^ 0 = 1
  <2>2. 0 \in 0..d
    BY <1>1
  <2>3. up[0] = Bottom(p) /\ up[0].sum = L[0][i].sum
    BY <1>16, <1>23, <2>1, <2>2 DEF P
  <2>4. Bottom(p).sum = p.balance /\ p.balance = entries[i].balance
    BY <1>10 DEF Bottom
  <2> QED
    BY <2>3, <2>4
<1> QED
  BY <1>2, <1>24, <1>25 DEF SumsUp

\* The units of the leaves above which the sums add up are no more than the sum of a node above them.
LEMMA GoodUnits ==
  ASSUME NEW entries, NEW d, Placed(entries, d), NEW t, IsForged(t, entries, d),
         NEW G \in SUBSET DOMAIN entries, \A y \in G : SumsUp(t, entries, d, y),
         NEW es, es = [y \in G |-> entries[y]], NEW k \in 0..d, NEW i \in 0..(2 ^ (d - k) - 1)
  PROVE  IsFiniteSet(Under(es, k, i)) /\ Cardinality(Under(es, k, i)) <= t.levels[k][i].sum
<1>1. d \in Nat /\ DOMAIN entries = 0..(2 ^ d - 1) /\ \A y \in DOMAIN entries : entries[y].balance \in Nat
  BY DEF Placed
<1>2. PICK L : L = t.levels
  OBVIOUS
<1>3. \A n \in 0..d : \A j \in 0..(2 ^ (d - n) - 1) : L[n][j].sum \in Nat
  BY <1>2 DEF IsForged
<1>4. DOMAIN es = G /\ \A y \in G : es[y] = entries[y]
  OBVIOUS
<1>5. \A y \in G : y \in Nat /\ y \in 0..(2 ^ d - 1)
  BY <1>1, PowerOf
<1> DEFINE Q(n, j) == IsFiniteSet(Under(es, n, j)) /\ Cardinality(Under(es, n, j)) <= L[n][j].sum
           P(n) == \A j \in 0..(2 ^ (d - n) - 1) : Q(n, j)
           S == {n \in 0..d : P(n)}
<1>6. P(0)
  <2> SUFFICES ASSUME NEW j \in 0..(2 ^ (d - 0) - 1) PROVE Q(0, j)
    OBVIOUS
  <2>1. {y \in DOMAIN es : y \div 2 ^ 0 = j} = {y \in G : y = j}
    <3>1. \A y \in Nat : y \div 1 = y
      OBVIOUS
    <3>2. \A y \in G : y \div 2 ^ 0 = y
      BY <1>5, <3>1, 2 ^ 0 = 1
    <3> QED
      BY <1>4, <3>2
  <2>2. CASE j \in G
    <3>1. {y \in DOMAIN es : y \div 2 ^ 0 = j} = {j}
      BY <2>1, <2>2
    <3>2. Under(es, 0, j) = {j} \X (1..entries[j].balance)
      BY <1>4, <2>2, <3>1 DEF Under
    <3>3. entries[j].balance \in Nat /\ L[0][j].sum = entries[j].balance
      BY <1>1, <1>2, <2>2 DEF SumsUp
    <3>4. /\ IsFiniteSet({j} \X (1..entries[j].balance))
          /\ Cardinality({j} \X (1..entries[j].balance)) = entries[j].balance
      BY <3>3, UnitsOf
    <3>5. IsFiniteSet(Under(es, 0, j)) /\ Cardinality(Under(es, 0, j)) = entries[j].balance
      BY <3>2, <3>4, Zenon
    <3> QED
      BY <3>3, <3>5
  <2>3. CASE j \notin G
    <3>1. {y \in DOMAIN es : y \div 2 ^ 0 = j} = {}
      BY <2>1, <2>3
    <3>2. Under(es, 0, j) = {}
      BY <3>1 DEF Under
    <3>3. L[0][j].sum \in Nat
      BY <1>1, <1>3
    <3> QED
      BY <3>2, <3>3, FS_EmptySet
  <2> QED
    BY <2>2, <2>3
<1>7. ASSUME NEW n \in 0..(d - 1), P(n) PROVE P(n + 1)
  <2> SUFFICES ASSUME NEW j \in 0..(2 ^ (d - (n + 1)) - 1) PROVE Q(n + 1, j)
    OBVIOUS
  <2>1. n \in Nat /\ n \in 0..d /\ n + 1 \in 0..d /\ n + 1 \in 1..d /\ (n + 1) - 1 = n
    BY <1>1
  <2>2. j \in Nat /\ 2 * j \in 0..(2 ^ (d - n) - 1) /\ 2 * j + 1 \in 0..(2 ^ (d - n) - 1)
    BY <1>1, <2>1, Children
  <2> DEFINE A == Under(es, n, 2 * j)
             B == Under(es, n, 2 * j + 1)
  <2>3. /\ IsFiniteSet(A) /\ Cardinality(A) <= L[n][2 * j].sum
        /\ IsFiniteSet(B) /\ Cardinality(B) <= L[n][2 * j + 1].sum
    BY <1>7, <2>2
  <2>4. Cardinality(A) \in Nat /\ Cardinality(B) \in Nat
    BY <2>3, FS_CardinalityType
  <2>5. \A y \in G : y \div 2 ^ (n + 1) = j <=> y \div 2 ^ n = 2 * j \/ y \div 2 ^ n = 2 * j + 1
    <3> SUFFICES ASSUME NEW y \in G
                 PROVE  y \div 2 ^ (n + 1) = j <=> y \div 2 ^ n = 2 * j \/ y \div 2 ^ n = 2 * j + 1
      OBVIOUS
    <3>1. 2 ^ (n + 1) = 2 * 2 ^ n /\ 2 ^ n \in Nat /\ 1 <= 2 ^ n
      BY <2>1, PowerStep, PowerPositive
    <3>2. y \in Nat
      BY <1>5
    <3>3. y \div 2 ^ (n + 1) = (y \div 2 ^ n) \div 2 /\ y \div 2 ^ n \in Nat
      BY <3>1, <3>2, Halves
    <3>4. \A x \in Nat : x \div 2 = j <=> x = 2 * j \/ x = 2 * j + 1
      BY <2>2
    <3> QED
      BY <3>3, <3>4
  <2>6. Under(es, n + 1, j) = A \cup B
    BY <1>4, <2>5 DEF Under
  <2>7. A \cap B = {}
    <3>1. 2 * j # 2 * j + 1
      BY <2>2
    <3> QED
      BY <3>1 DEF Under
  <2>8. CASE \E y \in G : y \div 2 ^ (n + 1) = j
    <3>1. PICK y \in G : y \div 2 ^ (n + 1) = j
      BY <2>8
    <3>2. Adds(t, n + 1, y)
      BY <2>1, <3>1 DEF SumsUp
    <3>3. L[n + 1][j].sum = L[n][2 * j].sum + L[n][2 * j + 1].sum
      BY <1>2, <2>1, <3>1, <3>2 DEF Adds
    <3>4. L[n][2 * j].sum \in Nat /\ L[n][2 * j + 1].sum \in Nat
      BY <1>3, <2>1, <2>2
    <3> HIDE DEF A, B
    <3>5. IsFiniteSet(A \cup B) /\ Cardinality(A \cup B) = Cardinality(A) + Cardinality(B)
      <4>1. IsFiniteSet(A \cup B) /\ Cardinality(A \cup B) = Cardinality(A) + Cardinality(B) - Cardinality(A \cap B)
        BY <2>3, FS_Union
      <4>2. Cardinality(A \cap B) = 0
        BY <2>7, FS_EmptySet
      <4> QED
        BY <2>4, <4>1, <4>2
    <3>6. Cardinality(A) + Cardinality(B) <= L[n + 1][j].sum
      BY <2>3, <2>4, <3>3, <3>4
    <3> QED
      BY <2>6, <3>5, <3>6
  <2>9. CASE ~ \E y \in G : y \div 2 ^ (n + 1) = j
    <3>1. Under(es, n + 1, j) = {}
      BY <1>4, <2>9 DEF Under
    <3>2. L[n + 1][j].sum \in Nat
      BY <1>3, <2>1
    <3>3. IsFiniteSet(Under(es, n + 1, j)) /\ Cardinality(Under(es, n + 1, j)) = 0
      BY <3>1, FS_EmptySet, Zenon
    <3> QED
      BY <3>2, <3>3
  <2> QED
    BY <2>8, <2>9
<1> HIDE DEF P
<1>8. 0 \in S /\ \A n \in 0..(d - 1) : n \in S => n + 1 \in S
  BY <1>1, <1>6, <1>7
<1> HIDE DEF S
<1>9. k \in S
  BY <1>1, <1>8, UpTo
<1>10. Q(k, i)
  BY <1>9 DEF P, S
<1> QED
  BY <1>2, <1>10

LEMMA CloseForgedInv == ASSUME NilIsNoHash, ForgedInv, Epochs!CloseForged PROVE ForgedInv'
<1>1. epochs = <<>> /\ verdicts' = verdicts
  BY DEF Epochs!CloseForged
<1>2. verdicts = {}
  <2>1. \A x : epochs # <<x>>
    BY <1>1
  <2> QED
    BY <2>1 DEF ForgedInv
<1>3. PICK d \in MinDepth..MaxDepth :
        \E lying \in {N \in SUBSET Epochs!Nodes(d) : Epochs!Cardinality(N) <= MaxLies[d]} :
        \E lies \in [lying -> ClaimedSums], aids \in Holders :
        \E places \in [DOMAIN aids -> 0..(2 ^ d - 1)], balances \in [DOMAIN aids -> ClaimedSums] :
        /\ \A m, n \in DOMAIN aids : m < n => places[m] < places[n]
        /\ \E entries \in {Epochs!ForgedEntries(d, aids, places, balances)} :
           \E t \in {Epochs!ForgedTree(entries, d, lies)} :
           \E rec \in {Epochs!SupplyEpochRecord(Epochs!SupplyEpoch(1, 1, Epochs!Root(t), Epochs!Outstanding(t), d))} :
             /\ rec # None
             /\ epochs' = <<[rec |-> rec, entries |-> entries, owed |-> <<>>]>>
             /\ tree' = t
  BY Zenon DEF Epochs!CloseForged
<1>4. PICK lying, lies, aids :
        /\ lies \in [lying -> ClaimedSums]
        /\ \E places \in [DOMAIN aids -> 0..(2 ^ d - 1)], balances \in [DOMAIN aids -> ClaimedSums] :
           \E entries \in {Epochs!ForgedEntries(d, aids, places, balances)} :
           \E t \in {Epochs!ForgedTree(entries, d, lies)} :
           \E rec \in {Epochs!SupplyEpochRecord(Epochs!SupplyEpoch(1, 1, Epochs!Root(t), Epochs!Outstanding(t), d))} :
             /\ rec # None
             /\ epochs' = <<[rec |-> rec, entries |-> entries, owed |-> <<>>]>>
             /\ tree' = t
  BY <1>3, Zenon
<1>5. PICK places, balances :
        /\ balances \in [DOMAIN aids -> ClaimedSums]
        /\ \E entries \in {Epochs!ForgedEntries(d, aids, places, balances)} :
           \E t \in {Epochs!ForgedTree(entries, d, lies)} :
           \E rec \in {Epochs!SupplyEpochRecord(Epochs!SupplyEpoch(1, 1, Epochs!Root(t), Epochs!Outstanding(t), d))} :
             /\ rec # None
             /\ epochs' = <<[rec |-> rec, entries |-> entries, owed |-> <<>>]>>
             /\ tree' = t
  BY <1>4, Zenon
<1>6. PICK entries :
        /\ entries = Epochs!ForgedEntries(d, aids, places, balances)
        /\ \E t \in {Epochs!ForgedTree(entries, d, lies)} :
           \E rec \in {Epochs!SupplyEpochRecord(Epochs!SupplyEpoch(1, 1, Epochs!Root(t), Epochs!Outstanding(t), d))} :
             /\ rec # None
             /\ epochs' = <<[rec |-> rec, entries |-> entries, owed |-> <<>>]>>
             /\ tree' = t
  BY <1>5, Zenon
<1>7. PICK t, rec :
        /\ t = Epochs!ForgedTree(entries, d, lies)
        /\ rec = Epochs!SupplyEpochRecord(Epochs!SupplyEpoch(1, 1, Epochs!Root(t), Epochs!Outstanding(t), d))
        /\ rec # None
        /\ epochs' = <<[rec |-> rec, entries |-> entries, owed |-> <<>>]>>
        /\ tree' = t
  BY <1>6, Zenon
<1>8. d \in Nat /\ d <= MaxDepth /\ 2 ^ d \in Nat
  BY DepthRange, PowerOf
<1>9. ASSUME NEW i \in 0..(2 ^ d - 1) PROVE entries[i].balance \in Nat /\ entries[i].salt # None
  <2>1. \E aid, n : n \in Nat /\ entries[i] = Epochs!Entry(aid, n, <<1, i>>)
    <3>1. CASE \E n \in DOMAIN aids : places[n] = i
      <4>1. PICK n \in DOMAIN aids : entries[i] = Epochs!Entry(aids[n], balances[n], <<1, i>>)
        BY <1>6, <3>1 DEF Epochs!ForgedEntries
      <4>2. balances[n] \in Nat
        BY <1>5, ClaimFacts
      <4> QED
        BY <4>1, <4>2
    <3>2. CASE ~ \E n \in DOMAIN aids : places[n] = i
      <4>1. entries[i] = Epochs!Entry(Epochs!NoAID, 0, <<1, i>>)
        BY <1>6, <3>2 DEF Epochs!ForgedEntries
      <4> QED
        BY <4>1, Zenon, 0 \in Nat
    <3> QED
      BY <3>1, <3>2
  <2> QED
    BY <2>1 DEF Epochs!Entry, NilIsNoHash
<1>10. Placed(entries, d)
  <2>1. DOMAIN entries = 0..(2 ^ d - 1)
    BY <1>6 DEF Epochs!ForgedEntries
  <2> QED
    BY <1>8, <1>9, <2>1 DEF Placed
<1>11. IsForged(t, entries, d)
  <2>1. \A z \in DOMAIN lies : lies[z] \in Nat
    BY <1>4, ClaimFacts
  <2> QED
    BY <1>7, <1>8, <1>9, <2>1, TreeIsForged
<1>12. PICK x : x = [rec |-> rec, entries |-> entries, owed |-> <<>>]
  OBVIOUS
<1>13. x.rec = rec /\ x.entries = entries /\ epochs' = <<x>> /\ x \in {epochs'[1]}
  BY <1>7, <1>12
<1>14. ForgedEpoch(x, d, t)'
  <2>1. tree' = t /\ verdicts' = {}
    BY <1>1, <1>2, <1>7
  <2> QED
    BY <1>7, <1>10, <1>11, <1>13, <2>1 DEF ForgedEpoch
<1> QED
  BY <1>13, <1>14 DEF ForgedInv

LEMMA AuditForgedInv == ASSUME NilIsNoHash, ForgedInv, Epochs!AuditForged PROVE ForgedInv'
<1>1. PICK i \in DOMAIN tree.entries, told \in SUBSET (1..tree.depth) :
        \E sums \in [told -> ClaimedSums], e \in {tree.entries[i]} :
          /\ Epochs!Finding(e.aid, 1, Epochs!Wire(Epochs!WithSums(Epochs!proofAt(tree, i), sums))) = "ok"
          /\ verdicts' = verdicts \cup {[epoch |-> 1, aid |-> e.aid, balance |-> e.balance, finding |-> "ok"]}
  BY Zenon DEF Epochs!AuditForged
<1>2. PICK sums, e :
        /\ e = tree.entries[i]
        /\ Epochs!Finding(e.aid, 1, Epochs!Wire(Epochs!WithSums(Epochs!proofAt(tree, i), sums))) = "ok"
        /\ verdicts' = verdicts \cup {[epoch |-> 1, aid |-> e.aid, balance |-> e.balance, finding |-> "ok"]}
  BY <1>1, Zenon
<1>3. tree # None /\ epochs' = epochs /\ tree' = tree
  BY DEF Epochs!AuditForged
<1>4. PICK x \in {epochs[1]}, d \in MinDepth..MaxDepth : \E t : epochs = <<x>> /\ ForgedEpoch(x, d, t)
  BY <1>3 DEF ForgedInv
<1>5. PICK t : epochs = <<x>> /\ ForgedEpoch(x, d, t)
  BY <1>4
<1>6. PICK entries, rec, p :
        entries = x.entries /\ rec = x.rec /\ p = Epochs!WithSums(Epochs!proofAt(t, i), sums)
  OBVIOUS
<1>7. /\ Placed(entries, d) /\ IsForged(t, entries, d) /\ t = tree /\ rec # None /\ epochs[1].rec = rec
      /\ rec = Epochs!SupplyEpochRecord(Epochs!SupplyEpoch(1, 1, Epochs!Root(t), Epochs!Outstanding(t), d))
  BY <1>3, <1>5, <1>6 DEF ForgedEpoch
<1>8. i \in DOMAIN entries /\ e = entries[i]
  BY <1>1, <1>2, <1>7 DEF IsForged
<1>9. p.aid = e.aid
  <2>1. p = [ aid |-> entries[i].aid, toDay |-> 1, balance |-> entries[i].balance, salt |-> entries[i].salt,
              path |-> p.path ]
    BY <1>6, <1>7, <1>8, ForgedPath
  <2> QED
    BY <1>8, <2>1
<1>10. SumsUp(t, entries, d, i)
  <2>1. Epochs!Finding(p.aid, 1, Epochs!Wire(p)) = "ok"
    BY <1>2, <1>6, <1>7, <1>9
  <2> QED
    BY <1>6, <1>7, <1>8, <2>1, ForgedAudit
<1>11. PICK v : v = [epoch |-> 1, aid |-> e.aid, balance |-> e.balance, finding |-> "ok"]
  OBVIOUS
<1>12. ForgedFinding(v, t, entries, d)
  BY <1>8, <1>10, <1>11 DEF ForgedFinding
<1>13. ForgedEpoch(x, d, t)'
  <2>1. \A u \in verdicts' : ForgedFinding(u, t, entries, d)
    BY <1>2, <1>5, <1>6, <1>11, <1>12 DEF ForgedEpoch
  <2> QED
    BY <1>3, <1>6, <1>7, <2>1 DEF ForgedEpoch
<1> QED
  BY <1>3, <1>5, <1>13 DEF ForgedInv

LEMMA ForgedCount ==
  ASSUME NilIsNoHash, ForgedInv, NEW e \in DOMAIN epochs
  PROVE  Epochs!Counted(e) <= epochs[e].rec.outstanding
<1>1. PICK x \in {epochs[1]}, d \in MinDepth..MaxDepth : \E t : epochs = <<x>> /\ ForgedEpoch(x, d, t)
  BY DEF ForgedInv
<1>2. PICK t : epochs = <<x>> /\ ForgedEpoch(x, d, t)
  BY <1>1
<1>3. e = 1 /\ epochs[e] = x
  BY <1>2
<1>4. PICK entries, rec : entries = x.entries /\ rec = x.rec
  OBVIOUS
<1>5. /\ Placed(entries, d) /\ IsForged(t, entries, d) /\ rec # None
      /\ rec = Epochs!SupplyEpochRecord(Epochs!SupplyEpoch(1, 1, Epochs!Root(t), Epochs!Outstanding(t), d))
      /\ \A v \in verdicts : ForgedFinding(v, t, entries, d)
  BY <1>2, <1>4 DEF ForgedEpoch
<1>6. rec.outstanding = t.levels[d][0].sum
  <2>1. PICK s : s = Epochs!SupplyEpoch(1, 1, Epochs!Root(t), Epochs!Outstanding(t), d)
    OBVIOUS
  <2>2. rec = Epochs!SupplyEpochRecord(s) /\ rec # None
    BY <1>5, <2>1
  <2>3. rec.outstanding = s.outstanding
    BY <2>2 DEF Epochs!SupplyEpochRecord
  <2>4. s.outstanding = Epochs!Outstanding(t)
    BY <2>1 DEF Epochs!SupplyEpoch
  <2>5. t.depth = d
    BY <1>5 DEF IsForged
  <2> QED
    BY <2>3, <2>4, <2>5 DEF Epochs!Outstanding
<1>7. PICK G : G = {i \in DOMAIN entries : SumsUp(t, entries, d, i)}
  OBVIOUS
<1>8. PICK es : es = [y \in G |-> entries[y]]
  OBVIOUS
<1>9. PICK U : U = Under(es, d, 0)
  OBVIOUS
<1>10. d \in Nat /\ d \in 0..d /\ 0 \in 0..(2 ^ (d - d) - 1) /\ 0..(2 ^ (d - d) - 1) = {0}
  <2>1. d \in Nat
    BY DepthRange
  <2>2. d - d = 0
    BY <2>1
  <2>3. 2 ^ (d - d) = 2 ^ 0
    BY <2>2, Zenon
  <2> QED
    BY <2>1, <2>3, 2 ^ 0 = 1
<1>11. IsFiniteSet(U) /\ Cardinality(U) <= rec.outstanding
  <2>1. G \in SUBSET DOMAIN entries /\ \A y \in G : SumsUp(t, entries, d, y)
    BY <1>7
  <2>2. IsFiniteSet(Under(es, d, 0)) /\ Cardinality(Under(es, d, 0)) <= t.levels[d][0].sum
    BY <1>5, <1>8, <1>10, <2>1, GoodUnits
  <2> QED
    BY <1>6, <1>9, <2>2
<1>12. \A y \in G : \A u \in 1..entries[y].balance : <<y, u>> \in U
  <2>1. DOMAIN entries = 0..(2 ^ d - 1)
    BY <1>5 DEF Placed
  <2>2. \A y \in G : y \div 2 ^ d = 0
    BY <1>7, <1>10, <2>1, PositionFacts
  <2> QED
    BY <1>8, <1>9, <2>2 DEF Under
<1> DEFINE pos(v) == CHOOSE i \in G : entries[i].aid = v.aid /\ entries[i].balance = v.balance
           C == CoinsOf(e)
           f == [z \in C |-> <<pos(z[1]), z[2]>>]
<1>13. \A v \in verdicts :
         /\ v = [epoch |-> 1, aid |-> v.aid, balance |-> v.balance, finding |-> "ok"]
         /\ \E i \in G : entries[i].aid = v.aid /\ entries[i].balance = v.balance
  BY <1>5, <1>7 DEF ForgedFinding
<1>14. \A v \in verdicts : pos(v) \in G /\ entries[pos(v)].aid = v.aid /\ entries[pos(v)].balance = v.balance
  BY <1>13
<1> HIDE DEF pos
<1>15. \A v, w \in verdicts : pos(v) = pos(w) => v = w
  BY <1>13, <1>14
<1>16. f \in [C -> U]
  <2> SUFFICES ASSUME NEW z \in C PROVE <<pos(z[1]), z[2]>> \in U
    OBVIOUS
  <2>1. z[1] \in verdicts /\ z[2] \in 1..z[1].balance
    BY CoinFacts
  <2> QED
    BY <1>12, <1>14, <2>1
<1>17. \A y, z \in C : f[y] = f[z] => y = z
  <2> SUFFICES ASSUME NEW y \in C, NEW z \in C, f[y] = f[z] PROVE y = z
    OBVIOUS
  <2>1. /\ y = <<y[1], y[2]>> /\ y[1] \in verdicts
        /\ z = <<z[1], z[2]>> /\ z[1] \in verdicts
    BY CoinFacts
  <2>2. pos(y[1]) = pos(z[1]) /\ y[2] = z[2]
    OBVIOUS
  <2>3. y[1] = z[1]
    BY <1>15, <2>1, <2>2
  <2> QED
    BY <2>1, <2>2, <2>3
<1> HIDE DEF f, C
<1>18. Cardinality(C) <= Cardinality(U)
  BY <1>11, <1>16, <1>17, AtMost
<1>19. Cardinality(C) <= rec.outstanding
  <2>1. Cardinality(U) \in Nat /\ Cardinality(C) \in Int /\ rec.outstanding \in Nat
    <3>1. Cardinality(U) \in Nat
      BY <1>11, FS_CardinalityType
    <3>2. rec.outstanding \in Nat
      BY <1>5, <1>6, <1>10 DEF IsForged
    <3>3. Cardinality(C) \in Nat
      <4>1. f \in Injection(C, U)
        BY <1>16, <1>17 DEF Injection, IsInjective
      <4>2. IsFiniteSet(C)
        BY <1>11, <4>1, FS_Injection
      <4> QED
        BY <4>2, FS_CardinalityType
    <3> QED
      BY <3>1, <3>2, <3>3
  <2> QED
    BY <1>11, <1>18, <2>1
<1> QED
  BY <1>3, <1>4, <1>19, CountedIs DEF C

-----------------------------------------------------------------------------
(* Epochs: the invariant. *)

LEMMA InitEpochs == ASSUME Epochs!Init PROVE EpochsInv
<1>1. /\ honest \in BOOLEAN /\ owed = <<>> /\ epochs = <<>> /\ tree = None /\ verdicts = {}
  BY DEF Epochs!Init
<1>2. ForgedInv
  BY <1>1 DEF ForgedInv
<1>3. HonestInv
  <2>1. DOMAIN owed = {} /\ IsFiniteSet(DOMAIN owed)
    BY <1>1, FS_EmptySet
  <2>2. IsLog(epochs) /\ Len(epochs) = 0
    BY <1>1 DEF IsLog
  <2> QED
    BY <1>1, <2>1, <2>2 DEF HonestInv
<1> QED
  BY <1>1, <1>2, <1>3 DEF EpochsInv

LEMMA NextEpochs == ASSUME NilIsNoHash, EpochsInv, Epochs!Next \/ UNCHANGED epochVars PROVE EpochsInv'
<1>1. CASE UNCHANGED epochVars
  <2>1. /\ honest' = honest /\ owed' = owed /\ epochs' = epochs /\ tree' = tree /\ verdicts' = verdicts
    BY <1>1 DEF epochVars
  <2>2. HonestInv => HonestInv'
    BY <2>1 DEF HonestInv, FindingOK, EpochOK
  <2>3. ForgedInv => ForgedInv'
    BY <2>1 DEF ForgedInv, ForgedEpoch
  <2> QED
    BY <2>1, <2>2, <2>3 DEF EpochsInv
<1>2. CASE honest /\ Epochs!Next
  <2>1. HonestInv
    BY <1>2 DEF EpochsInv
  <2>2. \/ \E a \in Accounts, n \in Amounts : Epochs!Credit(a, n)
        \/ Epochs!Close \/ Epochs!Restart
        \/ \E e \in DOMAIN epochs : Epochs!Reload(e)
        \/ \E a \in Accounts : Epochs!Audit(a)
    BY <1>2 DEF Epochs!Next, Epochs!CloseForged, Epochs!AuditForged
  <2>3. HonestInv'
    BY <2>1, <2>2, CreditInv, CloseInv, RestartInv, ReloadInv, AuditInv
  <2>4. honest' = honest
    BY <2>2 DEF Epochs!Credit, Epochs!Close, Epochs!Restart, Epochs!Reload, Epochs!Audit
  <2> QED
    BY <1>2, <2>3, <2>4 DEF EpochsInv
<1>3. CASE ~honest /\ Epochs!Next
  <2>1. ForgedInv
    BY <1>3 DEF EpochsInv
  <2>2. Epochs!CloseForged \/ Epochs!AuditForged
    BY <1>3 DEF Epochs!Next, Epochs!Credit, Epochs!Close, Epochs!Restart, Epochs!Reload, Epochs!Audit
  <2>3. ForgedInv'
    BY <2>1, <2>2, CloseForgedInv, AuditForgedInv
  <2>4. honest' = honest
    BY <2>2 DEF Epochs!CloseForged, Epochs!AuditForged
  <2> QED
    BY <1>3, <2>3, <2>4 DEF EpochsInv
<1> QED
  BY <1>1, <1>2, <1>3 DEF EpochsInv

-----------------------------------------------------------------------------
(* Epochs: the theorems. *)

\* In every behaviour of the services the invariant of the supply epochs holds.
THEOREM Closed ==
  ASSUME NilIsNoHash
  PROVE  ServicesSpec => []EpochsInv
<1>1. ServicesInit => EpochsInv
  BY InitEpochs DEF ServicesInit
<1>2. EpochsInv /\ [ServicesNext]_allVars => EpochsInv'
  <2> SUFFICES ASSUME EpochsInv, [ServicesNext]_allVars PROVE EpochsInv'
    OBVIOUS
  <2>1. Epochs!Next \/ UNCHANGED epochVars
    BY DEF ServicesNext, allVars
  <2> QED
    BY <2>1, NextEpochs
<1> QED
  BY <1>1, <1>2, PTL DEF ServicesSpec

\* Whatever the shuffle, every audit of an account of an honest hub, also after later payments and a
\* restart, finds the balance of that close counted (Build, Rebuild, Proof, Verify, ParseSupplyEpoch).
THEOREM Proves ==
  ASSUME NilIsNoHash
  PROVE  ServicesSpec => []HonestProves
<1>1. EpochsInv => HonestProves
  <2> SUFFICES ASSUME EpochsInv, honest, NEW v \in verdicts
               PROVE  v.finding = "ok" /\ v.balance = epochs[v.epoch].owed[v.aid]
    BY DEF HonestProves, Epochs!HonestProves
  <2>1. HonestInv /\ FindingOK(v, epochs)
    BY DEF EpochsInv, HonestInv
  <2>2. /\ v.finding = "ok" /\ v.aid # Epochs!NoAID /\ v.epoch \in 1..Len(epochs)
        /\ \E i \in DOMAIN epochs[v.epoch].entries : /\ epochs[v.epoch].entries[i].aid = v.aid
                                                     /\ epochs[v.epoch].entries[i].balance = v.balance
    BY <2>1 DEF FindingOK
  <2>3. PICK i \in DOMAIN epochs[v.epoch].entries : /\ epochs[v.epoch].entries[i].aid = v.aid
                                                    /\ epochs[v.epoch].entries[i].balance = v.balance
    BY <2>2
  <2>4. EpochOK(v.epoch, epochs[v.epoch])
    BY <2>1, <2>2 DEF HonestInv
  <2>5. EntryOK(epochs[v.epoch].entries[i], epochs[v.epoch].owed)
    BY <2>3, <2>4 DEF EpochOK
  <2> QED
    BY <2>2, <2>3, <2>5 DEF EntryOK
<1> QED
  BY <1>1, Closed, PTL

\* The accounts whose audits of an epoch pass hold together no more than the outstanding published,
\* whatever sums the hub made up (NodeHash, addSum, Verify).
THEOREM Hidden ==
  ASSUME NilIsNoHash
  PROVE  ServicesSpec => []NothingHidden
<1>1. EpochsInv => NothingHidden
  <2> SUFFICES ASSUME EpochsInv, NEW e \in DOMAIN epochs
               PROVE  Epochs!Counted(e) <= epochs[e].rec.outstanding
    BY Zenon DEF NothingHidden, Epochs!NothingHidden
  <2> QED
    BY HonestCount, ForgedCount DEF EpochsInv
<1> QED
  BY <1>1, Closed, PTL

-----------------------------------------------------------------------------
(* Padding: Padme lengths. *)

LEMMA PowerTable ==
  2 ^ 0 = 1 /\ 2 ^ 1 = 2 /\ 2 ^ 2 = 4
  OBVIOUS

\* A power of two is larger than its exponent.
LEMMA PowerAbove ==
  ASSUME NEW n \in Nat
  PROVE  n < 2 ^ n
<1> DEFINE S == {k \in 0..n : k < 2 ^ k}
<1>1. 0 \in S
  BY PowerTable
<1>2. ASSUME NEW k \in 0..(n - 1), k \in S PROVE k + 1 \in S
  <2>1. 2 ^ (k + 1) = 2 * 2 ^ k /\ 2 ^ k \in Nat /\ 1 <= 2 ^ k
    BY PowerStep, PowerPositive
  <2>2. k < 2 ^ k /\ k + 1 \in 0..n
    BY <1>2
  <2> QED
    BY <2>1, <2>2
<1> HIDE DEF S
<1>3. n \in S
  BY <1>1, <1>2, UpTo
<1> QED
  BY <1>3 DEF S

\* A factor of a power of two that is a smaller one.
LEMMA PowerFactor ==
  ASSUME NEW m \in Nat, NEW n \in Nat, m <= n
  PROVE  \E q \in Nat : 2 ^ n = q * 2 ^ m
<1> DEFINE S == {k \in 0..(n - m) : \E q \in Nat : 2 ^ (m + k) = q * 2 ^ m}
<1>1. 0 \in S
  <2>1. 2 ^ m \in Nat
    BY PowerPositive
  <2>1a. m + 0 = m
    OBVIOUS
  <2>2. 2 ^ (m + 0) = 1 * 2 ^ m
    BY <2>1, <2>1a
  <2> QED
    BY <2>2
<1>2. \A k \in 0..(n - m - 1) : k \in S => k + 1 \in S
  <2> SUFFICES ASSUME NEW k \in 0..(n - m - 1), k \in S PROVE k + 1 \in S
    OBVIOUS
  <2>1. PICK q \in Nat : 2 ^ (m + k) = q * 2 ^ m
    OBVIOUS
  <2>2. m + k \in Nat /\ m + (k + 1) = (m + k) + 1 /\ 2 ^ m \in Nat
    <3>1. 2 ^ m \in Nat
      BY PowerPositive
    <3> QED
      BY <3>1
  <2>3. 2 ^ (m + (k + 1)) = 2 * 2 ^ (m + k)
    BY <2>2, PowerStep
  <2>4. 2 ^ (m + (k + 1)) = (2 * q) * 2 ^ m
    BY <2>1, <2>2, <2>3
  <2>5. 2 * q \in Nat /\ k + 1 \in 0..(n - m)
    OBVIOUS
  <2> QED
    BY <2>4, <2>5
<1> HIDE DEF S
<1>3. n - m \in S
  BY <1>1, <1>2, UpTo
<1>4. m + (n - m) = n
  OBVIOUS
<1> QED
  BY <1>3, <1>4 DEF S

LEMMA LogFact ==
  ASSUME NEW n \in 1..2 ^ 31 - 1
  PROVE  /\ Pads!Log2(n) \in 0..30 /\ 2 ^ Pads!Log2(n) <= n /\ n < 2 ^ (Pads!Log2(n) + 1)
         /\ \A e \in 0..30 : 2 ^ e <= n /\ n < 2 ^ (e + 1) => e = Pads!Log2(n)
<1> DEFINE S == {m \in 0..31 : n < 2 ^ m}
<1>1. 31 \in S /\ n \in Nat
  <2>1. 2 ^ 31 \in Nat
    BY PowerPositive
  <2> QED
    BY <2>1
<1>2. PICK m \in S : \A j \in S : m <= j
  <2>1. S \in SUBSET Nat
    OBVIOUS
  <2>2. S # {}
    BY <1>1, Zenon
  <2> HIDE DEF S
  <2> QED
    BY <2>1, <2>2, Least
<1>3. m # 0
  <2>1. n < 2 ^ m /\ 1 <= n /\ n \in Nat
    BY <1>1
  <2> SUFFICES ASSUME m = 0 PROVE FALSE
    OBVIOUS
  <2>2. 2 ^ m = 2 ^ 0
    BY Zenon
  <2> QED
    BY <2>1, <2>2, PowerTable
<1>4. m - 1 \in 0..30 /\ m - 1 \notin S /\ (m - 1) + 1 = m
  BY <1>2, <1>3
<1>5. 2 ^ (m - 1) \in Nat
  <2>1. m - 1 \in Nat
    BY <1>4
  <2> QED
    BY <2>1, PowerPositive
<1>6. 2 ^ (m - 1) <= n /\ n < 2 ^ ((m - 1) + 1)
  BY <1>1, <1>4, <1>5
<1>7. \E e \in 0..30 : 2 ^ e <= n /\ n < 2 ^ (e + 1)
  BY <1>4, <1>6
<1>8. /\ Pads!Log2(n) \in 0..30 /\ 2 ^ Pads!Log2(n) <= n /\ n < 2 ^ (Pads!Log2(n) + 1)
  BY <1>7, Zenon DEF Pads!Log2
<1>9. \A e, f \in 0..30 : 2 ^ e <= n /\ n < 2 ^ (e + 1) /\ 2 ^ f <= n /\ n < 2 ^ (f + 1) => ~(e < f)
  <2> SUFFICES ASSUME NEW e \in 0..30, NEW f \in 0..30, e < f, n < 2 ^ (e + 1), 2 ^ f <= n
               PROVE FALSE
    BY Zenon
  <2>1. 2 * 2 ^ e <= 2 ^ f /\ 2 ^ (e + 1) = 2 * 2 ^ e /\ 2 ^ e \in Nat /\ 2 ^ f \in Nat
    BY PowerGrows, PowerStep, PowerOf
  <2> QED
    BY <1>1, <2>1
<1>10. ASSUME NEW e \in 0..30, 2 ^ e <= n, n < 2 ^ (e + 1) PROVE e = Pads!Log2(n)
  <2>1. ~(e < Pads!Log2(n)) /\ ~(Pads!Log2(n) < e)
    BY <1>8, <1>9, <1>10
  <2> QED
    BY <1>8, <2>1
<1> QED
  BY <1>8, <1>10

\* x is a multiple of u.
Multiple(x, u) == \E q \in Int : x = q * u

LEMMA MultipleFacts ==
  ASSUME NEW u \in Nat, 1 <= u
  PROVE  /\ Multiple(u, u)
         /\ \A x \in Int : Multiple(x, u) => Multiple(x + u, u)
         /\ \A x, y \in Int : Multiple(x, u) /\ Multiple(y, u) /\ x < y => x + u <= y
<1>1. Multiple(u, u)
  <2>1. u = 1 * u
    OBVIOUS
  <2> QED
    BY <2>1 DEF Multiple
<1>2. ASSUME NEW x \in Int, Multiple(x, u) PROVE Multiple(x + u, u)
  <2>1. PICK q \in Int : x = q * u
    BY <1>2 DEF Multiple
  <2>2. x + u = (q + 1) * u
    BY <2>1
  <2> QED
    BY <2>2 DEF Multiple
<1>3. ASSUME NEW x \in Int, NEW y \in Int, Multiple(x, u), Multiple(y, u), x < y PROVE x + u <= y
  <2>1. PICK p \in Int : x = p * u
    BY <1>3 DEF Multiple
  <2>2. PICK q \in Int : y = q * u
    BY <1>3 DEF Multiple
  <2>3. p < q
    <3> SUFFICES ASSUME q <= p PROVE FALSE
      OBVIOUS
    <3>1. q * u <= p * u
      OBVIOUS
    <3> QED
      BY <1>3, <2>1, <2>2, <3>1
  <2>4. (p + 1) * u <= q * u
    BY <2>3
  <2>5. (p + 1) * u = p * u + u
    OBVIOUS
  <2> QED
    BY <2>1, <2>2, <2>4, <2>5
<1> QED
  BY <1>1, <1>2, <1>3

\* Rounding n up to a multiple of u.
LEMMA RoundUp ==
  ASSUME NEW u \in Nat, 1 <= u, NEW n \in Nat, NEW c, c = ((n + u - 1) \div u) * u
  PROVE  c \in Nat /\ Multiple(c, u) /\ n <= c /\ c < n + u
<1>1. PICK q : q = (n + u - 1) \div u
  OBVIOUS
<1>2. q \in Nat /\ q * u <= n + u - 1 /\ n + u - 1 < q * u + u
  <2>1. \A a \in Nat, b \in Nat : 1 <= b =>
          /\ a \div b \in Nat /\ a = b * (a \div b) + (a % b) /\ a % b \in 0..(b - 1)
    OBVIOUS
  <2>2. PICK a : a = n + u - 1
    OBVIOUS
  <2>3. a \in Nat
    BY <2>2
  <2>4. q \in Nat /\ a = u * q + (a % u) /\ a % u \in 0..(u - 1)
    BY <1>1, <2>1, <2>2, <2>3
  <2>5. PICK r : r = a % u
    OBVIOUS
  <2>6. r \in 0..(u - 1) /\ a = u * q + r
    BY <2>4, <2>5
  <2>7. PICK x : x = u * q
    OBVIOUS
  <2>8. x = q * u /\ x \in Nat
    BY <2>4, <2>7
  <2> QED
    BY <2>2, <2>4, <2>6, <2>7, <2>8
<1>3. c = q * u
  BY <1>1
<1>4. Multiple(c, u)
  <2>1. q \in Int
    BY <1>2
  <2> QED
    BY <1>3, <2>1 DEF Multiple
<1>5. c \in Nat
  BY <1>2, <1>3
<1>6. c <= n + u - 1 /\ n + u - 1 < c + u
  BY <1>2, <1>3
<1> QED
  BY <1>4, <1>5, <1>6

\* The number of low bits of a length below 2 ^ (e + 1) that Padme clears, and what they count up to.
Cleared(e) == e - (Pads!Log2(e) + 1)
Unit(e)    == 2 ^ Cleared(e)

LEMMA UnitFacts ==
  ASSUME NEW e \in 1..30
  PROVE  /\ Cleared(e) \in 0..(e - 1) /\ Unit(e) \in Nat /\ 1 <= Unit(e)
         /\ Multiple(2 ^ e, Unit(e)) /\ Multiple(2 ^ (e + 1), Unit(e))
         /\ e # 30 => Unit(e) <= Unit(e + 1)
         /\ 4 < Unit(e) => \E q \in Nat : Unit(e) = 4 * q
<1>1. \A x \in 1..31 : x \in 1..2 ^ 31 - 1
  <2> SUFFICES ASSUME NEW x \in 1..31 PROVE x \in 1..2 ^ 31 - 1
    OBVIOUS
  <2>1. 2 ^ 31 \in Nat /\ 31 < 2 ^ 31
    BY PowerPositive, PowerAbove
  <2> QED
    BY <2>1
<1>2. PICK l : l = Pads!Log2(e)
  OBVIOUS
<1>3. l \in 0..30 /\ 2 ^ l <= e /\ e < 2 ^ (l + 1)
  <2>1. e \in 1..2 ^ 31 - 1
    BY <1>1
  <2> QED
    BY <1>2, <2>1, LogFact
<1>4. l < 2 ^ l /\ 2 ^ l \in Nat
  BY <1>3, PowerAbove, PowerPositive
<1>5. l + 1 <= e /\ Cleared(e) = e - (l + 1)
  BY <1>2, <1>3, <1>4 DEF Cleared
<1>6. Cleared(e) \in 0..(e - 1)
  BY <1>3, <1>5
<1>7. Unit(e) \in Nat /\ 1 <= Unit(e)
  BY <1>6, PowerPositive DEF Unit
<1>8. Multiple(2 ^ e, Unit(e)) /\ Multiple(2 ^ (e + 1), Unit(e))
  <2>1. PICK k \in Nat : k = Cleared(e)
    BY <1>6
  <2>2. k <= e /\ k <= e + 1 /\ e \in Nat /\ e + 1 \in Nat
    BY <1>6, <2>1
  <2>3. \E q \in Nat : 2 ^ e = q * 2 ^ k
    BY <2>2, PowerFactor
  <2>4. \E q \in Nat : 2 ^ (e + 1) = q * 2 ^ k
    BY <2>2, PowerFactor
  <2>5. Nat \subseteq Int /\ Unit(e) = 2 ^ k
    BY <2>1 DEF Unit
  <2> QED
    BY <2>3, <2>4, <2>5 DEF Multiple
<1>9. ASSUME e # 30 PROVE Unit(e) <= Unit(e + 1)
  <2>0. PICK f : f = e + 1
    OBVIOUS
  <2>1. PICK m : m = Pads!Log2(f)
    OBVIOUS
  <2>2. f \in 1..2 ^ 31 - 1 /\ f \in 1..30
    <3>1. f \in 1..30
      BY <1>9, <2>0
    <3>2. f \in 1..31
      BY <3>1
    <3> QED
      BY <1>1, <3>1, <3>2
  <2>3. m \in 0..30 /\ 2 ^ m <= e + 1
    BY <2>0, <2>1, <2>2, LogFact
  <2>4. m <= l + 1
    <3> SUFFICES ASSUME l + 1 < m PROVE FALSE
      BY <1>3, <2>3
    <3>1. l + 1 \in Nat /\ m \in Nat
      BY <1>3, <2>3
    <3>2. 2 * 2 ^ (l + 1) <= 2 ^ m /\ 2 ^ (l + 1) \in Nat /\ 1 <= 2 ^ (l + 1) /\ 2 ^ m \in Nat
      BY <3>1, PowerGrows, PowerPositive
    <3> QED
      BY <1>3, <2>3, <3>2
  <2>5. Cleared(f) = f - (m + 1)
    BY <2>1 DEF Cleared
  <2>6. PICK j, k : j = Cleared(e) /\ k = Cleared(f)
    OBVIOUS
  <2>7. j \in Nat /\ k \in Nat /\ j <= k
    BY <1>3, <1>5, <1>6, <2>0, <2>3, <2>4, <2>5, <2>6
  <2>8. 2 ^ j <= 2 ^ k
    <3>1. CASE j = k
      BY <2>7, <3>1, PowerPositive
    <3>2. CASE j < k
      BY <2>7, <3>2, PowerGrows, PowerPositive
    <3> QED
      BY <2>7, <3>1, <3>2
  <2> QED
    BY <2>0, <2>6, <2>8 DEF Unit
<1>10. ASSUME 4 < Unit(e) PROVE \E q \in Nat : Unit(e) = 4 * q
  <2>1. PICK k \in Nat : k = Cleared(e)
    BY <1>6
  <2>2. Unit(e) = 2 ^ k
    BY <2>1 DEF Unit
  <2>3. 2 <= k
    <3> SUFFICES ASSUME k < 2 PROVE FALSE
      BY <2>1
    <3>1. 2 * 2 ^ k <= 2 ^ 2 /\ 2 ^ k \in Nat
      BY PowerGrows, PowerPositive
    <3> QED
      BY <1>10, <2>2, <3>1, PowerTable
  <2>4. PICK q \in Nat : 2 ^ k = q * 2 ^ 2
    BY <2>3, PowerFactor
  <2> QED
    BY <2>2, <2>4, PowerTable
<1> QED
  BY <1>6, <1>7, <1>8, <1>9, <1>10

\* c is n rounded up to a multiple of u, for n with the highest bit e.
Rounded(n, e, c) ==
  /\ e \in 1..30 /\ 2 ^ e <= n /\ n < 2 ^ (e + 1)
  /\ c \in Nat /\ Multiple(c, Unit(e)) /\ n <= c /\ c < n + Unit(e) /\ c <= 2 ^ (e + 1)

LEMMA PadmeFacts ==
  ASSUME NEW n \in 2..2 ^ 31 - 1
  PROVE  Rounded(n, Pads!Log2(n), Pads!Padme(n))
<1>1. PICK e : e = Pads!Log2(n)
  OBVIOUS
<1>2. n \in 1..2 ^ 31 - 1
  OBVIOUS
<1>3. e \in 0..30 /\ 2 ^ e <= n /\ n < 2 ^ (e + 1)
  BY <1>1, <1>2, LogFact
<1>4. e # 0
  <2> SUFFICES ASSUME e = 0 PROVE FALSE
    OBVIOUS
  <2>1. 2 ^ (e + 1) = 2 ^ 1
    OBVIOUS
  <2> QED
    BY <1>3, <2>1, PowerTable
<1>5. e \in 1..30 /\ n \in Nat /\ 2 <= n
  BY <1>3, <1>4, PowerTable
<1>6. PICK u : u = Unit(e)
  OBVIOUS
<1>7. u \in Nat /\ 1 <= u /\ Multiple(2 ^ (e + 1), u)
  BY <1>5, <1>6, UnitFacts
<1>8. PICK c : c = Pads!Padme(n)
  OBVIOUS
<1>9. c = ((n + u - 1) \div u) * u
  <2>1. ~(n < 2)
    BY <1>5
  <2> QED
    BY <1>1, <1>4, <1>6, <1>8, <2>1 DEF Pads!Padme, Unit, Cleared
<1>10. c \in Nat /\ Multiple(c, u) /\ n <= c /\ c < n + u
  BY <1>5, <1>7, <1>9, RoundUp
<1>11. c <= 2 ^ (e + 1)
  <2>1. PICK m : m = 2 ^ (e + 1)
    OBVIOUS
  <2>2. m \in Nat
    BY <1>5, <2>1, PowerPositive
  <2>3. n < m /\ Multiple(m, u)
    BY <1>3, <1>7, <2>1
  <2>4. m < c => m + u <= c
    BY <1>7, <1>10, <2>2, <2>3, MultipleFacts
  <2> QED
    BY <1>5, <1>7, <1>10, <2>1, <2>2, <2>3, <2>4
<1> QED
  BY <1>1, <1>3, <1>5, <1>6, <1>8, <1>10, <1>11 DEF Rounded

\* What Padme leaves alone.
LEMMA Fixed ==
  ASSUME NEW e \in 1..30, NEW x \in 2..2 ^ 31 - 1, 2 ^ e <= x, x < 2 ^ (e + 1)
  PROVE  /\ Pads!Padme(x) = x => Multiple(x, Unit(e))
         /\ Multiple(x, Unit(e)) => Pads!Padme(x) = x
<1>1. x \in 1..2 ^ 31 - 1 /\ e \in 0..30 /\ x \in Nat
  BY PowerTable
<1>2. e = Pads!Log2(x)
  BY <1>1, LogFact
<1>3. PICK c : c = Pads!Padme(x)
  OBVIOUS
<1>4. Rounded(x, e, c)
  BY <1>2, <1>3, PadmeFacts
<1>5. PICK u : u = Unit(e)
  OBVIOUS
<1>6. c \in Nat /\ Multiple(c, u) /\ x <= c /\ c < x + u
  BY <1>4, <1>5 DEF Rounded
<1>7. u \in Nat /\ 1 <= u
  BY <1>5, UnitFacts
<1>8. Multiple(x, u) /\ x < c => x + u <= c
  BY <1>1, <1>6, <1>7, MultipleFacts
<1> QED
  BY <1>1, <1>3, <1>5, <1>6, <1>7, <1>8

\* A length of a Wrap with an empty pad and the first length aimed at.
LEMMA FirstLength ==
  ASSUME NEW n \in 2..2 ^ 30 - 1
  PROVE  /\ Pads!Padme(n) \in n..2 ^ 30 /\ Pads!Padme(Pads!Padme(n)) = Pads!Padme(n)
         /\ \A t \in n..2 ^ 31 - 1 : Pads!Padme(t) = t => Pads!Padme(n) <= t
<1>1. /\ 2 ^ 30 \in Nat /\ 2 ^ 31 \in Nat /\ 2 * 2 ^ 30 <= 2 ^ 31 /\ 1 <= 2 ^ 30
  BY PowerPositive, PowerGrows
<1>2. n \in 2..2 ^ 31 - 1 /\ n \in Nat
  BY <1>1
<1>3. PICK e, c : e = Pads!Log2(n) /\ c = Pads!Padme(n)
  OBVIOUS
<1>4. Rounded(n, e, c)
  BY <1>2, <1>3, PadmeFacts
<1>5. /\ e \in 1..30 /\ 2 ^ e <= n /\ n < 2 ^ (e + 1)
      /\ c \in Nat /\ Multiple(c, Unit(e)) /\ n <= c /\ c < n + Unit(e) /\ c <= 2 ^ (e + 1)
  BY <1>4 DEF Rounded
<1>6. /\ 2 ^ e \in Nat /\ 2 ^ (e + 1) \in Nat /\ 2 ^ (e + 1) = 2 * 2 ^ e
      /\ Unit(e) \in Nat /\ 1 <= Unit(e) /\ Multiple(2 ^ (e + 1), Unit(e))
  <2>1. e \in Nat /\ e + 1 \in Nat
    BY <1>5
  <2>2. 2 ^ e \in Nat /\ 2 ^ (e + 1) \in Nat /\ 2 ^ (e + 1) = 2 * 2 ^ e
    BY <2>1, PowerPositive, PowerStep
  <2>3. Unit(e) \in Nat /\ 1 <= Unit(e) /\ Multiple(2 ^ (e + 1), Unit(e))
    BY <1>5, UnitFacts
  <2> QED
    BY <2>2, <2>3
<1>7. e < 30
  <2> SUFFICES ASSUME e = 30 PROVE FALSE
    BY <1>5
  <2>1. 2 ^ e = 2 ^ 30
    OBVIOUS
  <2> QED
    BY <1>1, <1>5, <2>1
<1>8. 2 ^ (e + 1) <= 2 ^ 30
  <2>1. CASE e + 1 = 30
    <3>1. 2 ^ (e + 1) = 2 ^ 30
      BY <2>1
    <3> QED
      BY <1>1, <3>1
  <2>2. CASE e + 1 # 30
    <3>1. e + 1 \in Nat /\ e + 1 < 30
      BY <1>5, <1>7, <2>2
    <3>2. 2 * 2 ^ (e + 1) <= 2 ^ 30
      BY <3>1, PowerGrows
    <3> QED
      BY <1>1, <1>6, <3>2
  <2> QED
    BY <2>1, <2>2
<1>9. c \in n..2 ^ 30
  BY <1>1, <1>2, <1>5, <1>6, <1>8
<1>10. c \in 2..2 ^ 31 - 1
  BY <1>1, <1>2, <1>9
<1>11. Pads!Padme(c) = c
  <2>1. CASE c < 2 ^ (e + 1)
    <3>1. 2 ^ e <= c /\ Multiple(c, Unit(e))
      BY <1>2, <1>5, <1>6
    <3> QED
      BY <1>5, <1>10, <2>1, <3>1, Fixed
  <2>2. CASE c = 2 ^ (e + 1)
    <3>1. PICK f : f = e + 1
      OBVIOUS
    <3>2. f \in 1..30 /\ 2 ^ f = c
      BY <1>5, <1>7, <2>2, <3>1
    <3>3. Multiple(2 ^ f, Unit(f)) /\ c < 2 ^ (f + 1)
      <4>1. 2 ^ (f + 1) = 2 * 2 ^ f /\ 1 <= 2 ^ f /\ 2 ^ f \in Nat
        BY <3>2, PowerStep, PowerPositive
      <4> QED
        <5>1. Multiple(2 ^ f, Unit(f))
          BY <3>2, UnitFacts
        <5>2. 1 <= c /\ c \in Nat /\ 2 ^ (f + 1) = 2 * c
          BY <3>2, <4>1
        <5> QED
          BY <5>1, <5>2
    <3>4. Multiple(c, Unit(f)) /\ 2 ^ f <= c
      BY <1>5, <3>2, <3>3
    <3> QED
      BY <1>10, <3>2, <3>3, <3>4, Fixed
  <2> QED
    BY <1>5, <1>6, <2>1, <2>2
<1>12. ASSUME NEW t \in n..2 ^ 31 - 1, Pads!Padme(t) = t PROVE c <= t
  <2>1. t \in 2..2 ^ 31 - 1 /\ t \in Nat /\ n <= t
    BY <1>1, <1>2
  <2>2. CASE t < 2 ^ (e + 1)
    <3>1. 2 ^ e <= t
      BY <1>2, <1>5, <1>6, <2>1
    <3>2. Multiple(t, Unit(e))
      BY <1>5, <1>12, <2>1, <2>2, <3>1, Fixed
    <3>3. PICK u : u = Unit(e)
      OBVIOUS
    <3>4. t < c => t + u <= c
      BY <1>5, <1>6, <2>1, <3>2, <3>3, MultipleFacts
    <3> QED
      BY <1>2, <1>5, <1>6, <2>1, <3>3, <3>4
  <2>3. CASE 2 ^ (e + 1) <= t
    BY <1>5, <1>6, <2>1, <2>3
  <2> QED
    BY <1>6, <2>1, <2>2, <2>3
<1> QED
  BY <1>3, <1>9, <1>11, <1>12

\* The length after it, when the first one is more than four bytes away.
LEMMA NextLength ==
  ASSUME NEW n \in 2..2 ^ 29 - 1, Pads!Padme(n) > n + 4
  PROVE  \E q \in Nat : /\ Pads!Padme(Pads!Padme(n) + 1) = Pads!Padme(n) + 4 * q
                        /\ 4 * q > Pads!Padme(n) - n
<1>1. /\ 2 ^ 29 \in Nat /\ 2 ^ 30 \in Nat /\ 2 ^ 31 \in Nat /\ 2 * 2 ^ 29 <= 2 ^ 30 /\ 2 * 2 ^ 30 <= 2 ^ 31
      /\ 1 <= 2 ^ 29
  BY PowerPositive, PowerGrows
<1>2. n \in 2..2 ^ 31 - 1 /\ n \in 2..2 ^ 30 - 1 /\ n \in Nat /\ n < 2 ^ 29
  BY <1>1
<1>3. PICK e, c : e = Pads!Log2(n) /\ c = Pads!Padme(n)
  OBVIOUS
<1>4. Rounded(n, e, c)
  BY <1>2, <1>3, PadmeFacts
<1>5. /\ e \in 1..30 /\ 2 ^ e <= n /\ n < 2 ^ (e + 1)
      /\ c \in Nat /\ Multiple(c, Unit(e)) /\ n <= c /\ c < n + Unit(e) /\ c <= 2 ^ (e + 1)
  BY <1>4 DEF Rounded
<1>6. /\ 2 ^ e \in Nat /\ 2 ^ (e + 1) \in Nat /\ Unit(e) \in Nat /\ 1 <= Unit(e)
      /\ Multiple(2 ^ (e + 1), Unit(e))
  <2>1. e \in Nat /\ e + 1 \in Nat
    BY <1>5
  <2>2. 2 ^ e \in Nat /\ 2 ^ (e + 1) \in Nat
    BY <2>1, PowerPositive
  <2>3. Unit(e) \in Nat /\ 1 <= Unit(e) /\ Multiple(2 ^ (e + 1), Unit(e))
    BY <1>5, UnitFacts
  <2> QED
    BY <2>2, <2>3
<1>7. e < 29
  <2> SUFFICES ASSUME 29 <= e PROVE FALSE
    BY <1>5
  <2>1. CASE e = 29
    <3>1. 2 ^ e = 2 ^ 29
      BY <2>1
    <3> QED
      BY <1>1, <1>2, <1>5, <3>1
  <2>2. CASE 29 < e
    <3>0. e \in Nat /\ 29 \in Nat
      BY <1>5
    <3>1. 2 * 2 ^ 29 <= 2 ^ e
      BY <2>2, <3>0, PowerGrows
    <3> QED
      BY <1>1, <1>2, <1>5, <1>6, <3>1
  <2> QED
    BY <1>5, <2>1, <2>2
<1>8. c \in n..2 ^ 30
  BY <1>2, <1>3, FirstLength
<1>9. PICK b : b = c + 1
  OBVIOUS
<1>10. b \in 2..2 ^ 31 - 1 /\ b \in Nat
  BY <1>1, <1>2, <1>8, <1>9
<1>11. PICK d : d = Pads!Padme(b)
  OBVIOUS
<1>12. c > n + 4
  BY <1>3
<1>13. PICK f \in 1..30 : /\ f = Pads!Log2(b) /\ Unit(e) <= Unit(f) /\ Multiple(c, Unit(f))
  <2>1. CASE c < 2 ^ (e + 1)
    <3>1. c + Unit(e) <= 2 ^ (e + 1)
      BY <1>5, <1>6, <2>1, MultipleFacts
    <3>2. b < 2 ^ (e + 1) /\ 2 ^ e <= b
      BY <1>2, <1>5, <1>6, <1>9, <1>12, <3>1
    <3>3. e \in 0..30 /\ b \in 1..2 ^ 31 - 1
      BY <1>5, <1>10
    <3>4. e = Pads!Log2(b)
      BY <3>2, <3>3, LogFact
    <3> QED
      BY <1>5, <1>6, <3>4
  <2>2. CASE c = 2 ^ (e + 1)
    <3>1. PICK g : g = e + 1
      OBVIOUS
    <3>2. g \in 1..30 /\ g \in 0..30 /\ c = 2 ^ g /\ b \in 1..2 ^ 31 - 1
      BY <1>5, <1>7, <1>10, <2>2, <3>1
    <3>3. 2 ^ (g + 1) = 2 * 2 ^ g /\ 2 ^ g \in Nat
      BY <3>2, PowerStep, PowerPositive
    <3>4. 2 ^ g <= b /\ b < 2 ^ (g + 1)
      BY <1>2, <1>9, <1>12, <3>2, <3>3
    <3>5. g = Pads!Log2(b)
      BY <3>2, <3>4, LogFact
    <3>6. Unit(e) <= Unit(g)
      BY <1>5, <1>7, <3>1, UnitFacts
    <3>7. Multiple(c, Unit(g))
      BY <3>2, UnitFacts
    <3> QED
      BY <3>2, <3>5, <3>6, <3>7
  <2> QED
    BY <1>5, <1>6, <2>1, <2>2
<1>14. PICK u : u = Unit(f)
  OBVIOUS
<1>15. u \in Nat /\ 1 <= u /\ Unit(e) <= u
  BY <1>13, <1>14, UnitFacts
<1>16. 4 < u /\ c - n < u
  BY <1>2, <1>5, <1>6, <1>12, <1>15
<1>17. PICK q \in Nat : u = 4 * q
  BY <1>14, <1>16, UnitFacts
<1>18. Rounded(b, f, d)
  BY <1>10, <1>11, <1>13, PadmeFacts
<1>19. d \in Nat /\ Multiple(d, u) /\ b <= d /\ d < b + u
  BY <1>14, <1>18 DEF Rounded
<1>20. Multiple(c, u) /\ Multiple(c + u, u)
  BY <1>5, <1>13, <1>14, <1>15, MultipleFacts
<1>21. d = c + u
  <2>1. c < d => c + u <= d
    BY <1>5, <1>15, <1>19, <1>20, MultipleFacts
  <2> QED
    BY <1>5, <1>9, <1>15, <1>19, <2>1
<1>22. d = c + 4 * q /\ 4 * q > c - n
  BY <1>16, <1>17, <1>21
<1> QED
  BY <1>3, <1>9, <1>11, <1>22

\* The zero bytes that add d to an encoding; four lengths cannot be reached.
LEMMA PadLenFacts ==
  ASSUME NEW d \in Nat, NEW n, n = Pads!padLenFor(d)
  PROVE  /\ n # -1 => n \in Nat /\ n + Pads!cborHeadLen(n) - 1 = d
         /\ n = -1 => d \in {24, 257, 65538, 65539} /\ \A m \in Nat : m + Pads!cborHeadLen(m) - 1 # d
<1> DEFINE fits == {m \in {d - (h - 1) : h \in {1, 2, 3, 5}} : m >= 0 /\ m + Pads!cborHeadLen(m) - 1 = d}
<1>1. n = IF fits = {} THEN -1 ELSE CHOOSE m \in fits : TRUE
  BY DEF Pads!padLenFor
<1>2. \A m \in fits : m \in Nat /\ m + Pads!cborHeadLen(m) - 1 = d
  OBVIOUS
<1>3. \A m \in Nat : m + Pads!cborHeadLen(m) - 1 = d => m \in fits
  <2> SUFFICES ASSUME NEW m \in Nat, m + Pads!cborHeadLen(m) - 1 = d PROVE m \in fits
    OBVIOUS
  <2>1. PICK h : h = Pads!cborHeadLen(m)
    OBVIOUS
  <2>2. h \in {1, 2, 3, 5}
    BY <2>1, SMT DEF Pads!cborHeadLen
  <2>3. m = d - (h - 1)
    BY <2>1, <2>2
  <2> QED
    BY <2>2, <2>3
<1>4. ASSUME fits = {} PROVE d \in {24, 257, 65538, 65539}
  <2>1. \A m \in Nat : m + Pads!cborHeadLen(m) - 1 # d
    BY <1>3, <1>4
  <2>2. ~(d < 24)
    <3> SUFFICES ASSUME d < 24 PROVE FALSE
      OBVIOUS
    <3>1. Pads!cborHeadLen(d) = 1
      BY DEF Pads!cborHeadLen
    <3> QED
      BY <2>1, <3>1
  <2>3. ~(24 < d /\ d < 257)
    <3> SUFFICES ASSUME 24 < d, d < 257 PROVE FALSE
      OBVIOUS
    <3>1. PICK m \in Nat : m = d - 1
      OBVIOUS
    <3>2. Pads!cborHeadLen(m) = 2
      BY <3>1 DEF Pads!cborHeadLen
    <3> QED
      BY <2>1, <3>1, <3>2
  <2>4. ~(257 < d /\ d < 65538)
    <3> SUFFICES ASSUME 257 < d, d < 65538 PROVE FALSE
      BY SMT
    <3>1. PICK m \in Nat : m = d - 2
      BY SMT
    <3>2. Pads!cborHeadLen(m) = 3
      BY <3>1, SMT DEF Pads!cborHeadLen
    <3> QED
      BY <2>1, <3>1, <3>2, SMT
  <2>5. ~(65539 < d)
    <3> SUFFICES ASSUME 65539 < d PROVE FALSE
      BY SMT
    <3>1. PICK m \in Nat : m = d - 4
      BY SMT
    <3>2. Pads!cborHeadLen(m) = 5
      BY <3>1, SMT DEF Pads!cborHeadLen
    <3> QED
      BY <2>1, <3>1, <3>2, SMT
  <2> QED
    BY <2>2, <2>3, <2>4, <2>5, SMT
<1> HIDE DEF fits
<1>5. CASE fits = {}
  BY <1>1, <1>3, <1>4, <1>5
<1>6. CASE fits # {}
  <2>1. n \in fits
    BY <1>1, <1>6, Zenon
  <2>2. n \in Nat /\ n + Pads!cborHeadLen(n) - 1 = d
    BY <1>2, <2>1
  <2> QED
    BY <2>2
<1> QED
  BY <1>5, <1>6

-----------------------------------------------------------------------------
(* Padding: the invariant and its theorem. *)

PadInv ==
  /\ base \in 1..2 ^ 29 - 1
  /\ \/ target = Pads!Padme(base)
     \/ /\ target = Pads!Padme(Pads!Padme(base) + 1)
        /\ Pads!padLenFor(Pads!Padme(base) - base) = -1
  /\ pad # -1 => pad = Pads!padLenFor(target - base)

\* c is the first Padme length for a Wrap of n bytes, d the one after it; when c cannot be reached,
\* d can.
LengthsOf(n, c, d) ==
  /\ c \in Nat /\ n <= c /\ Pads!Padme(c) = c /\ c \in 0..2 ^ 30
  /\ \A t \in n..2 ^ 30 : Pads!Padme(t) = t => c <= t
  /\ Pads!padLenFor(c - n) = -1 =>
       /\ d \in 0..2 ^ 30 /\ c < d /\ Pads!Padme(d) = d /\ Pads!padLenFor(d - n) # -1
       /\ \A t \in c + 1..2 ^ 30 : Pads!Padme(t) = t => d <= t

LEMMA Lengths ==
  ASSUME NEW n \in 1..2 ^ 29 - 1, NEW c, c = Pads!Padme(n), NEW d, d = Pads!Padme(c + 1)
  PROVE  LengthsOf(n, c, d)
<1>1. /\ 2 ^ 29 \in Nat /\ 2 ^ 30 \in Nat /\ 2 ^ 31 \in Nat /\ 2 * 2 ^ 29 <= 2 ^ 30 /\ 2 * 2 ^ 30 <= 2 ^ 31
      /\ 1 <= 2 ^ 29 /\ 29 < 2 ^ 29
  BY PowerPositive, PowerGrows, PowerAbove
<1>2. n \in Nat
  BY <1>1
<1>3. CASE n = 1
  <2>1. c = 1
    BY <1>3 DEF Pads!Padme
  <2>2. c - n \in Nat /\ c - n = 0
    BY <1>3, <2>1
  <2>3. Pads!padLenFor(c - n) # -1
    BY <2>2, PadLenFacts
  <2>4. Pads!Padme(c) = c
    BY <1>3, <2>1
  <2>5. c \in 0..2 ^ 30
    BY <1>1, <2>1
  <2>6. \A t \in n..2 ^ 30 : c <= t
    BY <1>1, <1>3, <2>1
  <2>7. c \in Nat /\ n <= c
    BY <1>3, <2>1
  <2> QED
    BY <2>3, <2>4, <2>5, <2>6, <2>7, Zenon DEF LengthsOf
<1>4. CASE n # 1
  <2>1. n \in 2..2 ^ 29 - 1 /\ n \in 2..2 ^ 30 - 1
    BY <1>1, <1>2, <1>4
  <2>2. c \in n..2 ^ 30 /\ Pads!Padme(c) = c
    BY <2>1, FirstLength
  <2>3. \A t \in n..2 ^ 31 - 1 : Pads!Padme(t) = t => c <= t
    BY <2>1, FirstLength
  <2>4. \A t \in n..2 ^ 30 : t \in n..2 ^ 31 - 1
    BY <1>1
  <2>5. c \in Nat /\ n <= c /\ c \in 0..2 ^ 30
    BY <1>1, <1>2, <2>2
  <2>6. c <= 2 ^ 29
    <3> SUFFICES ASSUME 2 ^ 29 < c PROVE FALSE
      BY <1>1, <2>5
    <3>1. PICK w : w = 2 ^ 29
      OBVIOUS
    <3>2. 29 \in 1..30 /\ w \in 2..2 ^ 31 - 1 /\ 2 ^ 29 <= w /\ w < 2 ^ (29 + 1) /\ Multiple(w, Unit(29))
      <4>1. 29 \in 1..30 /\ 29 + 1 = 30
        OBVIOUS
      <4>2. Multiple(2 ^ 29, Unit(29))
        BY <4>1, UnitFacts
      <4>3. w \in 2..2 ^ 31 - 1 /\ w < 2 ^ 30
        BY <1>1, <3>1
      <4> QED
        BY <1>1, <3>1, <4>1, <4>2, <4>3
    <3>3. Pads!Padme(w) = w
      BY <3>2, Fixed
    <3>4. w \in n..2 ^ 31 - 1
      BY <1>1, <1>2, <3>1
    <3>5. c <= w
      BY <2>3, <3>3, <3>4
    <3> QED
      BY <1>1, <2>5, <3>1, <3>5
  <2>7. ASSUME Pads!padLenFor(c - n) = -1
        PROVE  /\ d \in 0..2 ^ 30 /\ c < d /\ Pads!Padme(d) = d /\ Pads!padLenFor(d - n) # -1
               /\ \A t \in c + 1..2 ^ 30 : Pads!Padme(t) = t => d <= t
    <3>1. PICK x : x = c - n
      OBVIOUS
    <3>2. x \in Nat
      BY <1>2, <2>5, <3>1
    <3>3. x \in {24, 257, 65538, 65539}
      BY <2>7, <3>1, <3>2, PadLenFacts, SMT
    <3>4. c > n + 4
      BY <1>2, <2>5, <3>1, <3>3, SMT
    <3>5. PICK q \in Nat : d = c + 4 * q /\ 4 * q > x
      BY <2>1, <3>1, <3>4, NextLength
    <3>6. PICK b : b = c + 1
      OBVIOUS
    <3>7. b \in 2..2 ^ 30 - 1
      BY <1>1, <1>2, <2>5, <2>6, <3>4, <3>6
    <3>8. d = Pads!Padme(b)
      BY <3>6
    <3>9. d \in b..2 ^ 30 /\ Pads!Padme(d) = d
      BY <3>7, <3>8, FirstLength
    <3>10. \A t \in b..2 ^ 31 - 1 : Pads!Padme(t) = t => d <= t
      BY <3>7, <3>8, FirstLength
    <3>11. \A t \in c + 1..2 ^ 30 : Pads!Padme(t) = t => d <= t
      BY <1>1, <3>6, <3>10
    <3>12. d \in 0..2 ^ 30 /\ c < d
      BY <1>1, <2>5, <3>6, <3>7, <3>9
    <3>13. PICK y : y = d - n
      OBVIOUS
    <3>14. y = x + 4 * q /\ y \in Nat
      BY <1>2, <2>5, <3>1, <3>2, <3>5, <3>13
    <3>15. y \notin {24, 257, 65538, 65539}
      BY <3>3, <3>5, <3>14, SMT
    <3>16. Pads!padLenFor(y) # -1
      BY <3>14, <3>15, PadLenFacts, SMT
    <3> QED
      BY <3>9, <3>11, <3>12, <3>13, <3>16
  <2>8. \A t \in n..2 ^ 30 : Pads!Padme(t) = t => c <= t
    BY <2>3, <2>4
  <2> QED
    BY <2>2, <2>5, <2>7, <2>8, Zenon DEF LengthsOf
<1> QED
  BY <1>3, <1>4

LEMMA InitPads == ASSUME Pads!Init PROVE PadInv
  BY BasesAssumption DEF Pads!Init, PadInv

LEMMA NextPads == ASSUME PadInv, Pads!Next \/ UNCHANGED padVars PROVE PadInv'
<1>1. CASE UNCHANGED padVars
  BY <1>1 DEF padVars, PadInv
<1>2. CASE Pads!Next
  <2>1. /\ pad = -1 /\ base' = base /\ pad' = Pads!padLenFor(target - base)
        /\ target' = IF pad' = -1 THEN Pads!Padme(target + 1) ELSE target
    BY <1>2 DEF Pads!Next, Pads!applyPad
  <2>2. PICK n, c, d : n = base /\ c = Pads!Padme(n) /\ d = Pads!Padme(c + 1)
    OBVIOUS
  <2>3. n \in 1..2 ^ 29 - 1
    BY <2>2 DEF PadInv
  <2>4. Pads!padLenFor(c - n) = -1 => Pads!padLenFor(d - n) # -1
    BY <2>2, <2>3, Lengths DEF LengthsOf
  <2>5. CASE pad' # -1
    BY <2>1, <2>5 DEF PadInv
  <2>6. CASE pad' = -1
    <3>1. Pads!padLenFor(target - n) = -1
      BY <2>1, <2>2, <2>6
    <3>2. target = c \/ (target = d /\ Pads!padLenFor(c - n) = -1)
      BY <2>2 DEF PadInv
    <3>3. target = c /\ Pads!padLenFor(c - n) = -1
      BY <2>4, <3>1, <3>2
    <3>4. target' = d
      BY <2>1, <2>2, <2>6, <3>3
    <3> QED
      BY <2>1, <2>2, <2>3, <2>6, <3>3, <3>4 DEF PadInv
  <2> QED
    BY <2>5, <2>6
<1> QED
  BY <1>1, <1>2

LEMMA PadsAreExact == ASSUME PadInv PROVE PadIsExact
<1>1. PICK n, c, d, m, t0 : n = base /\ c = Pads!Padme(n) /\ d = Pads!Padme(c + 1) /\ m = pad /\ t0 = target
  OBVIOUS
<1>2. /\ n \in 1..2 ^ 29 - 1
      /\ t0 = c \/ (t0 = d /\ Pads!padLenFor(c - n) = -1)
      /\ m # -1 => m = Pads!padLenFor(t0 - n)
  BY <1>1 DEF PadInv
<1>3. n \in Nat
  BY <1>2, PowerPositive
<1>3a. LengthsOf(n, c, d)
  BY <1>1, <1>2, Lengths
<1>4. /\ c \in Nat /\ n <= c /\ Pads!Padme(c) = c /\ c \in 0..2 ^ 30
      /\ \A t \in n..2 ^ 30 : Pads!Padme(t) = t => c <= t
  BY <1>3a, Zenon DEF LengthsOf
<1>5. Pads!padLenFor(c - n) = -1 =>
        /\ d \in 0..2 ^ 30 /\ c < d /\ Pads!Padme(d) = d
        /\ \A t \in c + 1..2 ^ 30 : Pads!Padme(t) = t => d <= t
  BY <1>3a, Zenon DEF LengthsOf
<1>6. t0 \in Nat /\ n <= t0 /\ t0 \in 0..2 ^ 30 /\ Pads!Padme(t0) = t0
  BY <1>2, <1>3, <1>4, <1>5, PowerPositive
<1>7. ASSUME m # -1 PROVE n - 1 + Pads!cborHeadLen(m) + m = t0
  <2>1. PICK x : x = t0 - n
    OBVIOUS
  <2>2. x \in Nat /\ m = Pads!padLenFor(x)
    BY <1>2, <1>3, <1>6, <1>7, <2>1
  <2>3. m \in Nat /\ m + Pads!cborHeadLen(m) - 1 = x
    BY <1>7, <2>2, PadLenFacts
  <2>4. Pads!cborHeadLen(m) \in Nat
    BY DEF Pads!cborHeadLen
  <2> QED
    BY <1>3, <1>6, <2>1, <2>3, <2>4
<1>8. ASSUME NEW t \in n..(t0 - 1), Pads!Padme(t) = t, NEW k \in Nat
      PROVE  n - 1 + Pads!cborHeadLen(k) + k # t
  <2>1. t \in n..2 ^ 30 /\ t \in Nat /\ t < t0
    BY <1>3, <1>6, PowerPositive
  <2>2. c <= t
    BY <1>4, <1>8, <2>1
  <2>3. t0 = d /\ Pads!padLenFor(c - n) = -1
    BY <1>2, <1>4, <2>1, <2>2
  <2>4. t = c
    <3> SUFFICES ASSUME c < t PROVE FALSE
      BY <1>4, <2>1, <2>2
    <3>1. t \in c + 1..2 ^ 30
      BY <1>4, <2>1
    <3>2. d <= t
      BY <1>5, <1>8, <2>3, <3>1
    <3> QED
      BY <1>6, <2>1, <2>3, <3>2
  <2>5. PICK x : x = c - n
    OBVIOUS
  <2>6. x \in Nat /\ Pads!padLenFor(x) = -1
    BY <1>3, <1>4, <2>3, <2>5
  <2>7. k + Pads!cborHeadLen(k) - 1 # x
    BY <2>6, PadLenFacts
  <2>8. Pads!cborHeadLen(k) \in Nat
    BY DEF Pads!cborHeadLen
  <2> QED
    BY <1>3, <1>4, <2>4, <2>5, <2>7, <2>8
<1>9. target \in {Pads!Padme(base), Pads!Padme(Pads!Padme(base) + 1)}
  BY <1>1, <1>2
<1>10. pad # -1 => Pads!Encoded(pad) = target /\ Pads!Padme(target) = target
  BY <1>1, <1>6, <1>7 DEF Pads!Encoded
<1>11. \A t \in base..(target - 1) :
         Pads!Padme(t) = t => \A k \in (t - base - 4)..(t - base) : k >= 0 => Pads!Encoded(k) # t
  <2> SUFFICES ASSUME NEW t \in base..(target - 1), Pads!Padme(t) = t,
                      NEW k \in (t - base - 4)..(t - base), k >= 0
               PROVE  Pads!Encoded(k) # t
    BY Zenon
  <2>1. t \in n..(t0 - 1) /\ t \in Int
    BY <1>1, <1>3, <1>6
  <2>2. k \in Nat
    BY <1>1, <1>3, <2>1
  <2> QED
    BY <1>1, <1>8, <2>1, <2>2 DEF Pads!Encoded
<1> QED
  BY <1>9, <1>10, <1>11, Zenon DEF PadIsExact, Pads!PadIsExact

\* The loop of applyPad keeps to the invariant, for a Wrap of any length below half a gigabyte.
THEOREM Aimed == ServicesSpec => []PadInv
<1>1. ServicesInit => PadInv
  BY InitPads DEF ServicesInit
<1>2. PadInv /\ [ServicesNext]_allVars => PadInv'
  <2> SUFFICES ASSUME PadInv, [ServicesNext]_allVars PROVE PadInv'
    OBVIOUS
  <2>1. Pads!Next \/ UNCHANGED padVars
    BY DEF ServicesNext, allVars
  <2> QED
    BY <2>1, NextPads
<1> QED
  BY <1>1, <1>2, PTL DEF ServicesSpec

\* A padded Wrap has a Padme length, the shortest one any pad can give it, and the loop passes over
\* at most one length (Padme, padLenFor, applyPad).
THEOREM Padded == ServicesSpec => []PadIsExact
  BY Aimed, PadsAreExact, PTL

=============================================================================
