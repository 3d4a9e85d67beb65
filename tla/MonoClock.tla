------------------------------ MODULE MonoClock ------------------------------
(***************************************************************************)
(* relayauth/monoclock.go: the per-process clock that stamps signed hub    *)
(* requests, and the requests around it.                                   *)
(*                                                                         *)
(* Threads share one MonoClock.  A thread takes a timestamp for a target   *)
(* hub, signs and sends; the hub accepts, or refuses it as stale and names *)
(* its floor; the thread raises the counter and retries once.  The hubs    *)
(* are outside this code and trusted with nothing: a refusal may name any  *)
(* floor, and answers come in any order, late or never.  Each call passes  *)
(* the wall clock it read, which may step back between calls and may be    *)
(* older than another thread's by the time the lock is taken.              *)
(***************************************************************************)
EXTENDS Integers, FiniteSets

CONSTANTS
  None,              \* no counter for this target yet
  Targets,           \* hubs
  Threads,           \* parts of the process that sign requests
  MaxSkewMillis,     \* the window within which every hub accepts a timestamp
  FloorClampMillis,  \* how far below its edge an adopted floor must stay
  MaxInt64           \* the largest timestamp; every clock reading is at most this

VARIABLES
  last,    \* last[t]: the counter for t
  req,     \* req[h]: thread h's request
  issued,  \* history: issued[t] is every timestamp handed out for t
  raised,  \* history: targets whose floor was adopted
  hiNow    \* history: the latest clock reading passed in

vars == <<last, req, issued, raised, hiNow>>

Times == 0..MaxInt64

Idle == [pc |-> "idle"]

Later(a, b) == IF a >= b THEN a ELSE b

-----------------------------------------------------------------------------
(* The two methods, as functions of the counter of one target. *)

\* Mutant: the counter is not looked at.
NextTS_NoCounter(l, now) == now

\* MonoClock.Next.
NextTS(l, now) ==
  IF l = None \/ l < now THEN now ELSE IF l < MaxInt64 THEN l + 1 ELSE l

\* The largest floor Raise adopts.
raiseLimit(now) ==
  IF now <= MaxInt64 - (MaxSkewMillis - FloorClampMillis)
  THEN now + (MaxSkewMillis - FloorClampMillis) ELSE MaxInt64

\* MonoClock.Raise.
RaiseAccepts(floor, now) == floor <= raiseLimit(now)

\* Mutant: the floor is only taken for a target without a counter.
RaiseTo_First(l, floor) == IF l = None THEN floor ELSE l

RaiseTo(l, floor) == IF l = None \/ floor > l THEN floor ELSE l

-----------------------------------------------------------------------------
(* The process. *)

Init ==
  /\ last = [t \in Targets |-> None]
  /\ req = [h \in Threads |-> Idle]
  /\ issued = [t \in Targets |-> {}]
  /\ raised = {}
  /\ hiNow = 0

\* h stamps a request to t; floor is the one it retries above, None on the first try.
Stamp(h, t, now, floor) ==
  LET ts == NextTS(last[t], now)
  IN  /\ last' = [last EXCEPT ![t] = ts]
      /\ issued' = [issued EXCEPT ![t] = @ \cup {ts}]
      /\ req' = [req EXCEPT ![h] = [pc |-> "sent", target |-> t, ts |-> ts, floor |-> floor]]
      /\ hiNow' = Later(hiNow, now)
      /\ UNCHANGED raised

Send(h, t) ==
  /\ req[h].pc = "idle"
  /\ \E now \in Times : Stamp(h, t, now, None)

\* The hub accepts, or the thread gives up waiting.
Done(h) ==
  /\ req[h].pc = "sent"
  /\ req' = [req EXCEPT ![h] = Idle]
  /\ UNCHANGED <<last, issued, raised, hiNow>>

\* The hub answers ts_stale and names a floor.
Refuse(h) ==
  /\ req[h].pc = "sent" /\ req[h].floor = None
  /\ \E floor \in Times :
       req' = [req EXCEPT ![h] = [pc |-> "stale", target |-> req[h].target, floor |-> floor]]
  /\ UNCHANGED <<last, issued, raised, hiNow>>

RaiseFloor(h) ==
  /\ req[h].pc = "stale"
  /\ \E now \in Times :
       /\ hiNow' = Later(hiNow, now)
       /\ IF RaiseAccepts(req[h].floor, now)
          THEN /\ last' = [last EXCEPT ![req[h].target] = RaiseTo(@, req[h].floor)]
               /\ raised' = raised \cup {req[h].target}
               /\ req' = [req EXCEPT ![h] = [@ EXCEPT !.pc = "raised"]]
          ELSE /\ req' = [req EXCEPT ![h] = Idle]
               /\ UNCHANGED <<last, raised>>
  /\ UNCHANGED issued

Retry(h) ==
  /\ req[h].pc = "raised"
  /\ \E now \in Times : Stamp(h, req[h].target, now, req[h].floor)

Next ==
  \E h \in Threads :
    \/ \E t \in Targets : Send(h, t)
    \/ Done(h) \/ Refuse(h) \/ RaiseFloor(h) \/ Retry(h)

Spec == Init /\ [][Next]_vars

-----------------------------------------------------------------------------
(* Properties. *)

Request ==
  {Idle}
    \cup [pc : {"sent"}, target : Targets, ts : Times, floor : Times \cup {None}]
    \cup [pc : {"stale", "raised"}, target : Targets, floor : Times]

TypeOK ==
  /\ last \in [Targets -> Times \cup {None}]
  /\ req \in [Threads -> Request]
  /\ issued \in [Targets -> SUBSET Times]
  /\ raised \in SUBSET Targets
  /\ hiNow \in Times

\* Timestamps to one hub strictly increase in the order they are handed out, over all
\* threads, whatever the clock does and whatever floors were adopted in between, until
\* the last one (Next).
StrictlyIncreasing ==
  [][ \A t \in Targets : \A ts \in issued'[t] \ issued[t], old \in issued[t] : ts > old ]_vars

\* No two requests in flight to one hub carry one timestamp below the last one.
NoCollision ==
  \A h, g \in Threads :
    h # g /\ req[h].pc = "sent" /\ req[g].pc = "sent" /\ req[h].target = req[g].target
      /\ req[h].ts = req[g].ts => req[h].ts = MaxInt64

\* A retry is stamped above the floor that refused the first try, however many other
\* threads stamped or raised in between.
RetryAboveFloor ==
  \A h \in Threads :
    req[h].pc = "sent" /\ req[h].floor # None => req[h].ts > req[h].floor \/ req[h].ts = MaxInt64

\* A hub that lies about its floor cannot push the process's timestamps out of the window
\* (by more than one per request), and cannot move those sent to another hub at all.
SkewBounded ==
  \A t \in Targets :
    last[t] # None =>
      last[t] <= hiNow + Cardinality(issued[t])
                   + (IF t \in raised THEN MaxSkewMillis - FloorClampMillis ELSE 0)

\* What the threads sharing a clock may rely on, at every moment and up to the last int64.
StampsSound == TypeOK /\ NoCollision /\ RetryAboveFloor /\ SkewBounded
=============================================================================
