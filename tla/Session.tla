------------------------------- MODULE Session -------------------------------
(***************************************************************************)
(* Signed requests and first-contact sessions: relayauth/relayauth.go and  *)
(* relayauth/session.go.  A daemon opens a session with one signed request *)
(* that carries a one-time key, the hub seals a session key to that key,   *)
(* and every send of the session carries a MAC under it.                   *)
(*                                                                         *)
(* Requests and answers cross a network that repeats, delays and mixes     *)
(* them up, and relays that rewrite fields.  The daemon and the hub, and   *)
(* with them what is kept in tables, are outside src/.                     *)
(*                                                                         *)
(* A text is a sequence of characters, so that the separators of the MAC   *)
(* input are what they are in the code; the preimage of a signature is a   *)
(* tuple, since escapeField leaves "/" to the separators.  Bad is a header *)
(* or a key of the wrong length or spelling.                               *)
(***************************************************************************)
EXTENDS Integers, Sequences, FiniteSets

CONSTANTS
  Bad,
  Daemons, Hubs,       \* AIDs; a hub's is a text
  Targets, Homes,      \* texts of a send: request targets and X-ANet-Home values
  Bodies,
  MaxSkewMillis,
  MaxClock, MaxOpens, MaxSessions, MaxSends   \* bounds of the model

ASSUME TextsAreSequences == \A x \in Targets \cup Homes : x \in Seq(STRING)

VARIABLES
  clock,
  opens,      \* daemons: sessions being opened, [daemon, hub, esk]
  requests,   \* signed requests on the network
  table,      \* hubs: sessions, [hub, sid, aid, key, epk]
  answers,    \* session answers on the network, [sid, sealed]
  sessions,   \* daemons: open sessions, [daemon, hub, sid, key]
  sends,      \* session sends on the network, with the daemon and hub they are from and to
  counted     \* history: what a hub took as a send of an AID, [hub, aid, send]

vars == <<clock, opens, requests, table, answers, sessions, sends, counted>>

Sep == "NUL"

HasNul(text) == \E i \in 1..Len(text) : text[i] = Sep

-----------------------------------------------------------------------------
(* Signed requests. *)

ActionSession == "session"
ActionPoll    == "poll"
RetiredSend   == "send"

ValidAction(action) == action \in {ActionSession, ActionPoll}

\* An action has one method and one target.
PreimageV2(action, aid, hub, ts, body) == <<"anet-relay/v2", action, aid, hub, ts, <<"sha256", action, body>>>>

SignedRequest(action, aid, hub, ts, epk) ==
  [action |-> action, aid |-> aid, ts |-> ts, epk |-> epk, sig |-> <<aid, PreimageV2(action, aid, hub, ts, epk)>>]

InWindow(ts, now) == ts - now <= MaxSkewMillis /\ now - ts <= MaxSkewMillis

\* What hub does with the X-ANet-* headers; DecodeSig leaves one spelling of a signature.
Authentic(r, hub, now) ==
  /\ ValidAction(r.action)
  /\ InWindow(r.ts, now)
  /\ r.sig # Bad /\ r.sig = <<r.aid, PreimageV2(r.action, r.aid, hub, r.ts, r.epk)>>

-----------------------------------------------------------------------------
(* The session key. *)

PublicKey(esk) == <<"x25519", esk>>

\* Mutant: the info leaves out the session id.
sessionKeyInfo_AnySession(hub, sid) == <<"anet-sess-key/v1", hub>>

sessionKeyInfo(hub, sid) == <<"anet-sess-key/v1", hub, sid>>

sessionKeyInfoAccepts(hub, sid) == hub # <<>> /\ ~HasNul(hub) /\ sid # Bad

SealSessionKeyAccepts(epk, hub, sid) == epk # Bad /\ sessionKeyInfoAccepts(hub, sid)

SealSessionKey(epk, hub, sid, k) == [epk |-> epk, info |-> sessionKeyInfo(hub, sid), k |-> k]

OpenSessionKeyAccepts(esk, hub, sid, sealed) ==
  /\ sessionKeyInfoAccepts(hub, sid)
  /\ sealed.epk = PublicKey(esk) /\ sealed.info = sessionKeyInfo(hub, sid)

-----------------------------------------------------------------------------
(* The MAC of a send. *)

sessionMACInput(m) ==
  <<"anet-sess-mac/v1", m.sid, m.ts, m.target \o <<Sep>> \o m.home \o <<Sep>>, <<"sha256", m.body>>>>

\* Mutant: texts may hold the separator.
SessionMACAccepts_AnyText(m) == m.sid # Bad

SessionMACAccepts(m) == m.sid # Bad /\ ~HasNul(m.target) /\ ~HasNul(m.home)

SessionMAC(k, m) == <<"hmac", k, sessionMACInput(m)>>

VerifySessionMAC(k, m) == SessionMACAccepts(m) /\ m.mac = SessionMAC(k, m)

-----------------------------------------------------------------------------
(* The daemon. *)

Init ==
  /\ clock = 1
  /\ opens = {} /\ requests = {} /\ table = {} /\ answers = {}
  /\ sessions = {} /\ sends = {} /\ counted = {}

Tick ==
  /\ clock < MaxClock
  /\ clock' = clock + 1
  /\ UNCHANGED <<opens, requests, table, answers, sessions, sends, counted>>

\* NewSessionKey and the signed request; opens are numbered over all daemons.
OpenSession(d, h) ==
  /\ Cardinality(opens) < MaxOpens
  /\ LET esk == <<"esk", Cardinality(opens) + 1>>
     IN  /\ opens' = opens \cup {[daemon |-> d, hub |-> h, esk |-> esk]}
         /\ requests' = requests \cup {SignedRequest(ActionSession, d, h, clock, PublicKey(esk))}
  /\ UNCHANGED <<clock, table, answers, sessions, sends, counted>>

\* No answer: the request is signed again at a later time.
Retry(o) ==
  /\ requests' = requests \cup {SignedRequest(ActionSession, o.daemon, o.hub, clock, PublicKey(o.esk))}
  /\ requests' # requests
  /\ UNCHANGED <<clock, opens, table, answers, sessions, sends, counted>>

\* Another signed request to the hub meanwhile.
Poll(o) ==
  /\ ~ \E r \in requests : r.action = ActionPoll
  /\ requests' = requests \cup {SignedRequest(ActionPoll, o.daemon, o.hub, clock, Bad)}
  /\ UNCHANGED <<clock, opens, table, answers, sessions, sends, counted>>

\* The session id and the sealed key, perhaps of two answers, reach the daemon as one.
TakeAnswer(o, sid, sealed) ==
  /\ ~ \E s \in sessions : s.daemon = o.daemon /\ s.hub = o.hub
  /\ OpenSessionKeyAccepts(o.esk, o.hub, sid, sealed)
  /\ sessions' = sessions \cup {[daemon |-> o.daemon, hub |-> o.hub, sid |-> sid, key |-> sealed.k]}
  /\ UNCHANGED <<clock, opens, requests, table, answers, sends, counted>>

Send(s, target, home, body) ==
  /\ Cardinality(sends) < MaxSends
  /\ LET m == [sid |-> s.sid, ts |-> clock, target |-> target, home |-> home, body |-> body, mac |-> Bad]
     IN  /\ SessionMACAccepts(m)
         /\ sends' = sends \cup {[daemon |-> s.daemon, hub |-> s.hub, msg |-> [m EXCEPT !.mac = SessionMAC(s.key, m)]]}
  /\ UNCHANGED <<clock, opens, requests, table, answers, sessions, counted>>

-----------------------------------------------------------------------------
(* The hub. *)

\* What may arrive for a request: its action, its AID or its one-time key rewritten.
RewrittenRequests ==
  {[action |-> a, aid |-> d, ts |-> r.ts, epk |-> PublicKey(o.esk), sig |-> r.sig] :
     r \in requests, a \in {ActionSession, RetiredSend}, d \in Daemons, o \in opens}

Serve(h, r) ==
  /\ Cardinality(table) < MaxSessions
  /\ r.action = ActionSession
  /\ Authentic(r, h, clock)
  /\ LET sid == <<"sid", Cardinality(table) + 1>>
         k   == <<"k_sess", Cardinality(table) + 1>>
     IN  /\ SealSessionKeyAccepts(r.epk, h, sid)
         /\ table' = table \cup {[hub |-> h, sid |-> sid, aid |-> r.aid, key |-> k, epk |-> r.epk]}
         /\ answers' = answers \cup {[sid |-> sid, sealed |-> SealSessionKey(r.epk, h, sid, k)]}
  /\ UNCHANGED <<clock, opens, requests, sessions, sends, counted>>

\* What may arrive for the send s: any field but the MAC rewritten.
RewrittenSend(s, sid, ts, target, home, body) ==
  [sid |-> sid, ts |-> ts, target |-> target, home |-> home, body |-> body, mac |-> s.msg.mac]

\* The send m under session t; VerifySessionMAC before anything is counted.
Count(t, m) ==
  /\ InWindow(m.ts, clock)
  /\ m.sid = t.sid
  /\ VerifySessionMAC(t.key, m)
  /\ counted' = counted \cup {[hub |-> t.hub, aid |-> t.aid, msg |-> m]}
  /\ UNCHANGED <<clock, opens, requests, table, answers, sessions, sends>>

Next ==
  \/ Tick
  \/ \E d \in Daemons, h \in Hubs : OpenSession(d, h)
  \/ \E o \in opens : Retry(o) \/ Poll(o) \/ \E x, y \in answers : TakeAnswer(o, x.sid, y.sealed)
  \/ \E s \in sessions, target \in Targets, home \in Homes, body \in Bodies : Send(s, target, home, body)
  \/ \E h \in Hubs, r \in RewrittenRequests : Serve(h, r)
  \/ \E s \in sends, t \in table, ts \in 1..clock, target \in Targets, home \in Homes, body \in Bodies :
       Count(t, RewrittenSend(s, t.sid, ts, target, home, body))

Spec == Init /\ [][Next]_vars

-----------------------------------------------------------------------------
(* Properties. *)

\* A daemon that opened a session and the hub mean the same session: the hub's table has the
\* session id with the daemon's AID and the key the daemon opened, and the hub made each session
\* for a one-time key of that very daemon and a request to this hub.  It does not matter how
\* often requests were repeated, which answers came, or what was rewritten on the way.
SessionAgrees ==
  /\ \A s \in sessions :
       \E t \in table : t.hub = s.hub /\ t.sid = s.sid /\ t.aid = s.daemon /\ t.key = s.key
  /\ \A t \in table :
       \E o \in opens : o.daemon = t.aid /\ o.hub = t.hub /\ PublicKey(o.esk) = t.epk

\* A hub takes a send as an AID's only when that daemon made exactly it, for this hub, target,
\* home hub, body, session and time, whatever relays rewrote.
SendAccounted ==
  \A c \in counted :
    \E s \in sends : s.daemon = c.aid /\ s.hub = c.hub /\ s.msg = c.msg
=============================================================================
