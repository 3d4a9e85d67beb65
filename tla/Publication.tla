----------------------------- MODULE Publication -----------------------------
(***************************************************************************)
(* The publication of an agent's key events: the nodes that hold the       *)
(* identity, the hubs that witness its events, and the peers that merge    *)
(* its KEL.                                                                *)
(*                                                                         *)
(* A node persists its Controller, then pushes the KEL it signs under to   *)
(* the witness of the pending event and acts on the answer: Adopt,         *)
(* Restamp, DiscardPending or SetState.  A hub takes a pushed KEL and a    *)
(* peer a KEL it comes across only through ExtendsKEL and CheckNewEvents.  *)
(* A second node may recover the identity from the witness's copy while    *)
(* the first one still runs.  The transport, and what a node does with an  *)
(* answer, are the daemon's and the hub's: external, modelled from what    *)
(* the Controller's methods are documented to be called for.               *)
(*                                                                         *)
(* now is the true time, which nodes and peers read; a hub's clock is off  *)
(* by skew until it is set right.  Pushes and answers may be lost and      *)
(* nodes may crash, MaxFaults times in all.                                *)
(***************************************************************************)
EXTENDS Controller, FiniteSets, SequencesExt

CONSTANTS
  Home,          \* the node the identity was made on
  Nodes,         \* Home, and the nodes it may be recovered on
  Hubs,          \* hubs an event may name as witness
  Closed,        \* hubs that refuse to register this agent for good
  Peers,         \* parties that merge the KEL
  Seed,          \* the identity's recovery seed
  LateCopies,    \* a push may be delivered again after it was answered
  MaxSkew,       \* how far a hub's clock is off at most
  MaxSeq,        \* bound: no event beyond this seq
  MaxTime,       \* bound: the time stops here
  MaxFaults      \* bound: lost messages and crashes

ASSUME PublicationAssumption ==
  /\ Home \in Nodes /\ Closed \subseteq Hubs /\ LateCopies \in BOOLEAN
  /\ MaxSkew \in Nat /\ MaxSeq \in Nat /\ MaxTime \in Nat \ {0} /\ MaxFaults \in Nat
  /\ None \notin Hubs /\ None # k0 /\ None # nextDigest(k1)

VARIABLES
  node,     \* node[n]: its Controller, or None
  file,     \* file[n]: its identity file as last written
  stored,   \* stored[h]: the KEL hub h holds, <<>> before it registered the agent
  merged,   \* merged[p]: the KEL peer p holds
  pushes,   \* pushes in flight
  answers,  \* answers[n]: the answer on its way to n, or None
  now,      \* the time
  skew,     \* skew[h]: h's clock minus now
  faults,   \* messages lost and crashes so far
  seen      \* history: when, by its clock, the hub that witnesses an event accepted it

vars == <<node, file, stored, merged, pushes, answers, now, skew, faults, seen>>

Init ==
  /\ node = [n \in Nodes |-> IF n = Home THEN incept(1, ToadAgent) ELSE None]
  /\ file = [n \in Nodes |-> IF n = Home THEN Export(incept(1, ToadAgent)) ELSE None]
  /\ stored = [h \in Hubs |-> <<>>]
  /\ merged = [p \in Peers |-> <<>>]
  /\ pushes = {}
  /\ answers = [n \in Nodes |-> None]
  /\ now = 2
  /\ skew \in {f \in [Hubs -> -MaxSkew..MaxSkew] : \A h \in Closed : f[h] = 0}
  /\ faults = 0
  /\ seen = {}

-----------------------------------------------------------------------------
(* The node: events are built, persisted and pushed. *)

Persisted(n) == node[n] # None /\ file[n] = Export(node[n])

NextOf(c) == NextDigest(Seed, Len(c.kel) + 1)

KeyOf(c) == RecoverySeed(Seed, Len(c.kel))

Designate(n, h) ==
  LET c == node[n]
  IN  /\ Persisted(n) /\ Len(c.kel) <= MaxSeq
      /\ BuildWitnessDesignationAccepts(c, h, NextOf(c), now)
      /\ node' = [node EXCEPT ![n] = BuildWitnessDesignation(c, h, NextOf(c), now)]
      /\ UNCHANGED <<file, stored, merged, pushes, answers, now, skew, faults, seen>>

\* A planned rot, staying with the witness or switching to another.
Rotate(n, h) ==
  LET c == node[n]
  IN  /\ Persisted(n) /\ Len(c.kel) <= MaxSeq
      /\ BuildRotationAccepts(c, KeyOf(c), NextOf(c), h, FALSE, now)
      /\ node' = [node EXCEPT ![n] = BuildRotation(c, KeyOf(c), NextOf(c), h, FALSE, now)]
      /\ UNCHANGED <<file, stored, merged, pushes, answers, now, skew, faults, seen>>

Deactivate(n) ==
  LET c == node[n]
  IN  /\ Persisted(n) /\ Len(c.kel) \in 2..MaxSeq
      /\ BuildDeactivationAccepts(c, KeyOf(c), now)
      /\ node' = [node EXCEPT ![n] = BuildDeactivation(c, KeyOf(c), now)]
      /\ UNCHANGED <<file, stored, merged, pushes, answers, now, skew, faults, seen>>

\* Restamp builds the event of material that has none: the rot a recover wrote.
BuildRecovered(n) ==
  /\ Persisted(n) /\ ~Built(node[n]) /\ RestampAccepts(node[n], now)
  /\ node' = [node EXCEPT ![n] = Restamp(@, now)]
  /\ UNCHANGED <<file, stored, merged, pushes, answers, now, skew, faults, seen>>

Persist(n) ==
  /\ node[n] # None /\ ~Persisted(n)
  /\ file' = [file EXCEPT ![n] = Export(node[n])]
  /\ UNCHANGED <<node, stored, merged, pushes, answers, now, skew, faults, seen>>

\* The hub an event is published to: the one a rot names, the one before a dip.
witnessOf(kel, i) ==
  IF kel[i].event.type = "dip" THEN kel[i - 1].event.witness ELSE kel[i].event.witness

\* The pending event's push, tried again until it is answered.
Push(n) ==
  LET kel == kelLocked(node[n])
      r   == [from |-> n, hub |-> witnessOf(kel, Len(kel)), kel |-> kel]
  IN  /\ Persisted(n) /\ Built(node[n]) /\ node[n].state = "ok"
      /\ answers[n] = None
      /\ r \notin pushes
      /\ pushes' = pushes \cup {r}
      /\ UNCHANGED <<node, file, stored, merged, answers, now, skew, faults, seen>>

\* What the node does with an answer; one to other bytes than the pending event's is dropped.
React(c, a) ==
  CASE ~AdoptAccepts(c, a.event) -> c
    [] AdoptAccepts(c, a.event) ->
         CASE a.verdict = "ok" -> Adopt(c, a.event)
           [] a.verdict = "kel_ts_out_of_window" -> IF RestampAccepts(c, now) THEN Restamp(c, now) ELSE c
           [] a.verdict = "refused" -> IF DiscardPendingAccepts(c) THEN DiscardPending(c) ELSE c
           [] OTHER -> SetState(c, "stopped")

Receive(n) ==
  /\ answers[n] # None /\ Persisted(n)
  /\ node' = [node EXCEPT ![n] = React(@, answers[n])]
  /\ answers' = [answers EXCEPT ![n] = None]
  /\ UNCHANGED <<file, stored, merged, pushes, now, skew, faults, seen>>

\* The identity is recovered on n from the copy of its witness.
Recover(n, h) ==
  LET f == RecoverFile(stored[h], Seed)
  IN  /\ node[n] = None
      /\ stored[h] # <<>> /\ Tip(stored[h]).witness = h
      /\ Len(stored[h]) <= MaxSeq /\ RestoreAccepts(f)
      /\ file' = [file EXCEPT ![n] = f]
      /\ node' = [node EXCEPT ![n] = Restore(f)]
      /\ UNCHANGED <<stored, merged, pushes, answers, now, skew, faults, seen>>

-----------------------------------------------------------------------------
(* Hubs and peers. *)

clock(h) == now + skew[h]

\* A hub's verdict on a pushed KEL.
Verdict(h, kel) ==
  LET v == ExtendsKEL(stored[h], kel)
  IN  CASE h \in Closed -> "refused"
        [] h \notin Closed /\ v # "ok" -> v
        [] OTHER -> IF CheckNewEvents(stored[h], kel, clock(h), h) THEN "ok" ELSE "kel_ts_out_of_window"

Serve(r) ==
  LET h == r.hub
      v == Verdict(h, r.kel)
      new == {i \in Len(stored[h]) + 1 .. Len(r.kel) : i > 1 /\ witnessOf(r.kel, i) = h}
  IN  /\ r \in pushes
      /\ IF v = "ok"
         THEN /\ stored' = [stored EXCEPT ![h] = r.kel]
              /\ seen' = seen \cup {[event |-> r.kel[i].event, at |-> clock(h)] : i \in new}
         ELSE UNCHANGED <<stored, seen>>
      /\ answers' = [answers EXCEPT ![r.from] = [event |-> r.kel[Len(r.kel)], verdict |-> v]]
      /\ pushes' \in {pushes \ {r}} \cup (IF LateCopies THEN {pushes} ELSE {})
      /\ UNCHANGED <<node, file, merged, now, skew, faults>>

\* A peer, or a hub that is not the witness, comes across a KEL that a hub or a node holds.
Known == {stored[h] : h \in Hubs} \cup {node[n].kel : n \in {m \in Nodes : node[m] # None}}

Merge(p) ==
  \E kel \in Known :
    /\ kel # merged[p]
    /\ ExtendsKEL(merged[p], kel) = "ok"
    /\ CheckNewEvents(merged[p], kel, now, None)
    /\ merged' = [merged EXCEPT ![p] = kel]
    /\ UNCHANGED <<node, file, stored, pushes, answers, now, skew, faults, seen>>

-----------------------------------------------------------------------------
(* Time and faults. *)

Tick ==
  /\ now < MaxTime
  /\ now' = now + 1
  /\ UNCHANGED <<node, file, stored, merged, pushes, answers, skew, faults, seen>>

SetClock(h) ==
  /\ skew[h] # 0
  /\ skew' = [skew EXCEPT ![h] = 0]
  /\ UNCHANGED <<node, file, stored, merged, pushes, answers, now, faults, seen>>

LosePush(r) ==
  /\ r \in pushes /\ faults < MaxFaults
  /\ pushes' = pushes \ {r}
  /\ faults' = faults + 1
  /\ UNCHANGED <<node, file, stored, merged, answers, now, skew, seen>>

LoseAnswer(n) ==
  /\ answers[n] # None /\ faults < MaxFaults
  /\ answers' = [answers EXCEPT ![n] = None]
  /\ faults' = faults + 1
  /\ UNCHANGED <<node, file, stored, merged, pushes, now, skew, seen>>

Crash(n) ==
  /\ node[n] # None /\ faults < MaxFaults
  /\ RestoreAccepts(file[n])
  /\ node' = [node EXCEPT ![n] = Restore(file[n])]
  /\ answers' = [answers EXCEPT ![n] = None]
  /\ faults' = faults + 1
  /\ UNCHANGED <<file, stored, merged, pushes, now, skew, seen>>

-----------------------------------------------------------------------------
Next ==
  \/ \E n \in Nodes :
       \/ \E h \in Hubs : Designate(n, h) \/ Rotate(n, h) \/ Recover(n, h)
       \/ Deactivate(n) \/ BuildRecovered(n) \/ Persist(n)
       \/ Push(n) \/ Receive(n) \/ LoseAnswer(n) \/ Crash(n)
  \/ \E r \in pushes : Serve(r) \/ LosePush(r)
  \/ \E p \in Peers : Merge(p)
  \/ \E h \in Hubs : SetClock(h)
  \/ Tick

\* A node writes its file, pushes again until answered and acts on the answer; a push that
\* is not lost is served; a hub's clock is set right in the end.
Fairness ==
  /\ \A n \in Nodes : WF_vars(Persist(n)) /\ WF_vars(Push(n)) /\ WF_vars(Receive(n))
  /\ WF_vars(\E r \in pushes : Serve(r))
  /\ \A h \in Hubs : WF_vars(SetClock(h))

Spec == Init /\ [][Next]_vars

FairSpec == Spec /\ Fairness

-----------------------------------------------------------------------------
(* Properties. *)

Agree(k, l) == IsPrefix(k, l) \/ IsPrefix(l, k)

\* One history: no two hubs, peers or nodes ever hold accepted KELs that disagree on an
\* event, through switches of witness, restamps, crashes, lost answers and a recover that
\* races the node it replaces (ExtendsKEL, Adopt).
OneHistory ==
  LET all == Known \cup {merged[p] : p \in Peers}
  IN  \A k, l \in all : Agree(k, l)

\* An event a node takes for accepted is one its witness holds (Adopt's documentation).
AdoptedIsWitnessed ==
  \A n \in Nodes :
    node[n] # None =>
      \A i \in 2..Len(node[n].kel) :
        LET w == witnessOf(node[n].kel, i)
        IN  w \in Hubs /\ Len(stored[w]) >= i /\ stored[w][i] = node[n].kel[i]

\* An event a peer holds carries a time close to the moment its witness first accepted it, also
\* when the KEL reached the peer or a later witness long after: no one moves the retirement of
\* a key into the past or the future by more than the window (CheckNewEvents).
PeerTimesWitnessed ==
  \A p \in Peers : \A i \in 2..Len(merged[p]) :
    \E s \in seen :
      /\ s.event = merged[p][i].event
      /\ s.at - s.event.ts \in -EventClockWindow..EventClockWindow

\* "A witness that refused the event's bytes for their time ... never accepted them, so the
\* rebuilt event forks nothing" (Restamp), "no hub ever accepted it and dropping it forks
\* nothing" (DiscardPending): what a node is publishing never contradicts what a hub holds.
PendingForksNothing ==
  \A n \in Nodes, h \in Hubs : node[n] # None => Agree(kelLocked(node[n]), stored[h])

\* An event is being published to a hub that registers the agent, or a designation to any
\* hub.  A rot that switches to a hub refusing for good stays pending: DiscardPending keeps it.
Publishing(n) ==
  /\ node[n] # None /\ Built(node[n])
  /\ \/ node[n].pending.kind = "witness"
     \/ witnessOf(kelLocked(node[n]), Len(node[n].kel) + 1) \notin Closed

\* Whatever is lost, however the clocks are off and wherever the node crashes, an event
\* that is being published to a hub that registers the agent is in the end adopted; a
\* designation that is refused for good is in the end dropped (Restamp, DiscardPending).
PublicationCompletes == \A n \in Nodes : Publishing(n) ~> ~Built(node[n])
=============================================================================
