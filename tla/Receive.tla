------------------------------ MODULE Receive ------------------------------
(***************************************************************************)
(* Messages across key rotations: the receive steps 5 to 7 of              *)
(* seal/envelope.go (CheckTime, CheckNotice, VerifyInnerSig) run by a      *)
(* recipient while the sender and the sender's witness hub replace their   *)
(* keys, notices age and envelopes wait in a mailbox.                      *)
(*                                                                         *)
(* The sender's event is built, witnessed and adopted in one step here;    *)
(* Publication has those steps apart.  What the daemon does around the     *)
(* seal package (when it fetches notices and KELs, when it sends) is       *)
(* external and may happen at any time.                                    *)
(***************************************************************************)
EXTENDS Notice, FiniteSets

CONSTANTS
  MaxMessageLifetime,  \* exp - ts of a message
  ClockSkew,           \* how far ahead a sender's clock may be for a recipient
  SenderSkew,          \* how far a sender's clock really is off, at most
  MaxTime, MaxNotices, MaxMessages, MaxReplaced   \* bounds of the model

\* Nothing bounds how far ahead a sender's clock is.  A key that was replaced is good for
\* RotationGrace, a notice for NoticeMaxAge (1 h and 6 h).
ASSUME ReceiveAssumption ==
  /\ MaxMessageLifetime \in Nat /\ ClockSkew \in Nat /\ SenderSkew \in Nat
  /\ ClockSkew = EventClockWindow
  /\ RotationGrace <= NoticeMaxAge

VARIABLES
  now,        \* the hubs' and the recipient's clock
  clock,      \* the last reading of the sender's clock, which does not step back
  agent,      \* the sender, a Controller whose KEL its witness holds
  witnessed,  \* witnessed[i]: when the witness accepted agent.kel[i]
  hub,        \* the witness hub, a Controller
  notices,    \* every notice the hub has signed
  transit,    \* messages sealed and not yet at the recipient's hub
  inbox,      \* messages at the recipient's hub, each with its arrival
  held,       \* the recipient's copy of the sender's KEL, <<>> before the first
  hubHeld,    \* the recipient's copy of the witness hub's KEL
  accepted, refused   \* what the recipient decided

vars == <<now, clock, agent, witnessed, hub, notices, transit, inbox, held, hubHeld, accepted, refused>>

-----------------------------------------------------------------------------
(* The checks. *)

CheckTime(m, t) ==
  IF m.exp < m.ts \/ m.exp - m.ts > MaxMessageLifetime THEN "bad-lifetime"
  ELSE IF t > m.exp THEN "expired"
  ELSE IF m.ts > t + ClockSkew THEN "from-future" ELSE "ok"

\* Mutant: the notice is compared with the KEL the recipient holds.
CheckNotice_Merged(m, merged, wkel) == VerifyNotice(m.notice, merged, wkel, m.at)

\* The notice is judged against the KEL the message carries, whatever is merged.
CheckNotice(m, merged, wkel) == VerifyNotice(m.notice, m.kel, wkel, m.at)

fromVErr(v) == CASE v = "INVALID_SIGNATURE"   -> "bad-sig"
                 [] v = "KEY_STATE_DOWNGRADE" -> "bad-key-state"
                 [] v = "REVOKED_KEY"         -> "revoked-key"
                 [] OTHER                     -> "bad-kel"

VerifyInnerSig(m, kel) ==
  IF ~Replays(kel) THEN "bad-kel"
  ELSE IF AIDOf(kel) # m.from THEN "from-mismatch"
  ELSE IF m.seq >= Len(kel) THEN "bad-key-state"
  ELSE LET v  == VerifyObject(kel, m.from, m.seq, m.ts, m.sig)
           ks == KeyState(kel, m.seq + 1)
       IN  IF v # "ok" THEN fromVErr(v)
           ELSE IF SenderKeyUsable(ks, m.at) THEN "ok"
           ELSE IF ks.retiredUrgently THEN "revoked-key" ELSE "rotation-grace-expired"

\* Step 6, the recipient's copy of the sender's KEL with the carried one merged.
Merged(m) == IF held = <<>> \/ ExtendsKEL(held, m.kel) = "ok" THEN m.kel ELSE held

MergeRefuses(m) ==
  IF held # <<>> /\ ExtendsKEL(held, m.kel) \in {"fork", "invalid"} THEN "bad-kel"
  ELSE IF ~CheckNewEvents(held, Merged(m), now, None) THEN "kel-from-future" ELSE "ok"

\* The verdict of steps 5 to 7 now.
Verdict(m) ==
  IF CheckTime(m, now) # "ok" THEN CheckTime(m, now)
  ELSE IF MergeRefuses(m) # "ok" THEN MergeRefuses(m)
  ELSE IF CheckNotice(m, Merged(m), hubHeld) # "ok" THEN CheckNotice(m, Merged(m), hubHeld)
  ELSE VerifyInnerSig(m, Merged(m))

Permanent(reason) == reason # "witness-unknown"

\* The reasons that compare a time with the recipient's clock and find it ahead.
AheadOfClock == {"from-future", "kel-from-future"}

-----------------------------------------------------------------------------

hk0 == <<"hub", 0>>
hk1 == <<"hub", 1>>
seed == "seed"
hubSeed == "hub seed"
hubAID == AIDOf(inceptWith(hk0, hk1, 1, ToadHub).kel)

Designated ==
  LET c == BuildWitnessDesignation(incept(1, ToadAgent), hubAID, NextDigest(seed, 2), 2)
  IN  Adopt(c, c.pending.event)

Init ==
  /\ now = 2 /\ clock = 2
  /\ agent = Designated
  /\ witnessed = <<2, 2>>
  /\ hub = inceptWith(hk0, hk1, 1, ToadHub)
  /\ notices = {} /\ transit = {} /\ inbox = {}
  /\ held = <<>> /\ hubHeld = hub.kel
  /\ accepted = {} /\ refused = {}

Tick ==
  /\ now < MaxTime
  /\ now' = now + 1
  /\ UNCHANGED <<clock, agent, witnessed, hub, notices, transit, inbox, held, hubHeld, accepted, refused>>

\* What the sender's clock can show now.
Readings == {t \in now - SenderSkew .. now + SenderSkew : t >= clock}

\* Bound: how many key states of the sender and of its hub are replaced, together.
MayReplace == Len(agent.kel) - 2 + Len(hub.kel) - 1 < MaxReplaced

\* The sender's next event, once c holds it as pending, is witnessed and adopted.
Witness(c, ts) ==
  /\ CheckNewEvents(agent.kel, kelLocked(c), now, hubAID)
  /\ agent' = Adopt(c, c.pending.event)
  /\ witnessed' = Append(witnessed, now)
  /\ clock' = ts
  /\ UNCHANGED <<now, hub, notices, transit, inbox, held, hubHeld, accepted, refused>>

Rotate(emergency, ts) ==
  LET n   == Len(agent.kel)
      key == RecoverySeed(seed, n)
      nxt == NextDigest(seed, n + 1)
  IN  /\ MayReplace
      /\ BuildRotationAccepts(agent, key, nxt, hubAID, emergency, ts)
      /\ Witness(BuildRotation(agent, key, nxt, hubAID, emergency, ts), ts)

Deactivate(ts) ==
  LET key == RecoverySeed(seed, Len(agent.kel))
  IN  /\ MayReplace
      /\ BuildDeactivationAccepts(agent, key, ts)
      /\ Witness(BuildDeactivation(agent, key, ts), ts)

\* A hub has no witness: its rot is its own at once.
HubRotate(emergency) ==
  LET c == BuildRotation(hub, None, NextDigest(hubSeed, 2), None, emergency, now)
  IN  /\ MayReplace
      /\ BuildRotationAccepts(hub, None, NextDigest(hubSeed, 2), None, emergency, now)
      /\ hub' = Adopt(c, c.pending.event)
      /\ UNCHANGED <<now, clock, agent, witnessed, notices, transit, inbox, held, hubHeld, accepted, refused>>

Notify ==
  /\ Cardinality(notices) < MaxNotices
  /\ notices' = notices \cup {SignNotice(hub, agent.kel, now)}
  /\ UNCHANGED <<now, clock, agent, witnessed, hub, transit, inbox, held, hubHeld, accepted, refused>>

Sealed(kel, key, n, ts, current) ==
  [ from |-> AIDOf(kel), kel |-> kel, seq |-> Len(kel) - 1, sig |-> key, notice |-> n,
    ts |-> ts, exp |-> ts + MaxMessageLifetime, at |-> 0, current |-> current ]

Put(m, ts) ==
  /\ Cardinality(transit) + Cardinality(inbox) + Cardinality(accepted) + Cardinality(refused) < MaxMessages
  /\ transit' = transit \cup {m}
  /\ clock' = ts
  /\ UNCHANGED <<now, agent, witnessed, hub, notices, inbox, held, hubHeld, accepted, refused>>

\* The sender seals under its key state of now, with a notice it fetched of that state.
Send(n, ts) ==
  /\ last(agent.kel).type # "dip"
  /\ n.seq = Snapshot(agent).seq
  /\ Put(Sealed(Snapshot(agent).kel, Snapshot(agent).key, n, ts, TRUE), ts)

\* A copy of the sender restored from a backup: it has the key of an earlier state and that
\* state's KEL, a clock of its own, and any notice the hub has signed.
SendFromBackup(i, n, ts) ==
  /\ i < Len(agent.kel)
  /\ Put(Sealed(SubSeq(agent.kel, 1, i), agent.kel[i].event.key, n, ts, FALSE), clock)

Deposit(m) ==
  /\ transit' = transit \ {m}
  /\ inbox' = inbox \cup {[m EXCEPT !.at = now]}
  /\ UNCHANGED <<now, clock, agent, witnessed, hub, notices, held, hubHeld, accepted, refused>>

\* The recipient fetches the sender's KEL, as for sending it a message.
Learn ==
  /\ held # agent.kel
  /\ CheckNewEvents(held, agent.kel, now, None)
  /\ held' = agent.kel
  /\ UNCHANGED <<now, clock, agent, witnessed, hub, notices, transit, inbox, hubHeld, accepted, refused>>

RefreshHubKEL ==
  /\ hubHeld # hub.kel
  /\ hubHeld' = hub.kel
  /\ UNCHANGED <<now, clock, agent, witnessed, hub, notices, transit, inbox, held, accepted, refused>>

\* A refusal that is not permanent leaves the message in the mailbox.
ReceiveMessage(m) ==
  LET v == Verdict(m)
  IN  /\ v = "ok" \/ Permanent(v)
      /\ inbox' = inbox \ {m}
      /\ held' = IF CheckTime(m, now) = "ok" /\ MergeRefuses(m) = "ok" THEN Merged(m) ELSE held
      /\ accepted' = IF v = "ok" THEN accepted \cup {m} ELSE accepted
      /\ refused' = IF v = "ok" THEN refused ELSE refused \cup {[msg |-> m, reason |-> v]}
      /\ UNCHANGED <<now, clock, agent, witnessed, hub, notices, transit, hubHeld>>

Next ==
  \/ Tick
  \/ \E ts \in Readings : \E e \in BOOLEAN : Rotate(e, ts)
  \/ \E ts \in Readings : Deactivate(ts)
  \/ \E e \in BOOLEAN : HubRotate(e)
  \/ Notify
  \/ \E n \in notices, ts \in Readings : Send(n, ts)
  \/ \E i \in 2..Len(agent.kel), n \in notices, ts \in 2 .. now + SenderSkew : SendFromBackup(i, n, ts)
  \/ \E m \in transit : Deposit(m)
  \/ Learn
  \/ RefreshHubKEL
  \/ \E m \in inbox : ReceiveMessage(m)

Spec == Init /\ [][Next]_vars

-----------------------------------------------------------------------------
(* Properties. *)

\* What a notice is for: a key state that its witness has seen replaced signs no message that
\* arrives more than NoticeMaxAge after that, even for a recipient that never learns of the
\* replacement.
OldKeyBounded ==
  \A m \in accepted : m.seq + 2 <= Len(agent.kel) => m.at <= witnessed[m.seq + 2] + NoticeMaxAge

\* Once the recipient holds the emergency rot or the dip that replaced a key state, no message
\* under that state is accepted any more, also one that arrived before the replacement.
UrgentCutsOff ==
  [][\A m \in accepted' \ accepted :
       m.seq + 2 <= Len(held) =>
         held[m.seq + 2].event.type # "dip" /\ ~held[m.seq + 2].event.emergency]_vars

\* The two together: what a replaced key can still do.
OldKeysStop == []OldKeyBounded /\ UrgentCutsOff

\* A planned rotation loses no message: one the sender sealed and the hub received within the
\* rotation grace, with a notice that fresh, is refused only if it has expired, if it arrived
\* further before its own time than the recipient tolerates, if its sender's or its witness's key
\* was replaced urgently, or if the rot bears the very time of the message.
PlannedRotationLosesNothing ==
  \A r \in refused :
    LET m == r.msg
        later == {i \in m.seq + 2 .. Len(agent.kel) : TRUE}
    IN  m.current =>
          \/ now > m.exp
          \/ m.ts > m.at + ClockSkew
          \/ m.at > m.ts + RotationGrace
          \/ m.at > m.notice.observedAt + RotationGrace
          \/ \E i \in later : agent.kel[i].event.emergency \/ agent.kel[i].event.type = "dip"
          \/ \E i \in later : agent.kel[i].event.ts = m.ts
          \/ Len(hub.kel) > 1 /\ (hub.kel[2].event.emergency \/ hub.kel[2].event.ts = m.notice.observedAt)

\* What is true of what Error.Permanent says of a reason: unless it only compares with this
\* node's clock, a message refused for it is never acceptable later, whatever time passes and
\* whatever KELs arrive.
PermanentIsFinal == \A r \in refused : r.reason \notin AheadOfClock => Verdict(r.msg) # "ok"

\* What Error.Permanent says of every reason but two: "the same bytes fail the same way on every
\* attempt".  A message that was dropped as from the future passes when its time has come.
SameBytesFailAgain == \A r \in refused : Permanent(r.reason) => Verdict(r.msg) # "ok"
=============================================================================
