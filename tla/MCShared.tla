------------------------------ MODULE MCShared ------------------------------
(***************************************************************************)
(* The two structures that all threads of a process share, checked in one  *)
(* run: the replay cache (ReplayCache, extended) and the request clock     *)
(* (MonoClock, an instance).  They have no variable in common and each     *)
(* property speaks of one of them, so a behaviour takes the steps of one,  *)
(* part says of which, and the other rests.                                *)
(*                                                                         *)
(* The instance has a cache that holds any two of three small KELs or one  *)
(* larger, a KEL too large for it, one that does not replay and one that   *)
(* does not encode, and a second, smaller cache swapped in and out.        *)
(***************************************************************************)
EXTENDS ReplayCache, TLC

CONSTANTS Targets, MaxSkewMillis, FloorClampMillis, MaxInt64

VARIABLES
  part,
  last, req, issued, raised, hiNow

Clock == INSTANCE MonoClock

\* Floors are clamped within the window, and the window within the range of timestamps.
ASSUME ClockAssumption ==
  /\ MaxSkewMillis \in Nat /\ FloorClampMillis \in 0..MaxSkewMillis
  /\ MaxInt64 \in Nat /\ MaxSkewMillis - FloorClampMillis <= MaxInt64
  /\ None \notin Int

clockVars == <<last, req, issued, raised, hiNow>>

allVars == <<part, vars, clockVars>>

-----------------------------------------------------------------------------
(* The instance. *)

MCCost ==
  ("a" :> 2) @@ ("b" :> 2) @@ ("big" :> 3) @@ ("huge" :> 5) @@ ("broken" :> 1) @@ ("odd" :> 1)

MCMaxBytes == ("c1" :> 4) @@ ("c2" :> 2)

-----------------------------------------------------------------------------
SharedInit ==
  /\ part \in {"cache", "clock"}
  /\ Init /\ Clock!Init
  /\ part = "cache" \/ installed = None

SharedNext ==
  \/ part = "cache" /\ Next /\ UNCHANGED <<part, clockVars>>
  \/ part = "clock" /\ Clock!Next /\ UNCHANGED <<part, vars>>

SharedSpec == SharedInit /\ [][SharedNext]_allVars

-----------------------------------------------------------------------------
(* The properties of the clock, stated in its module; the cache's are its own. *)

\* relayauth: timestamps that threads share are distinct, above an adopted floor and within the
\* window (MonoClock.Next, MonoClock.Raise).
StampsSound == Clock!StampsSound

\* relayauth: timestamps to a hub strictly increase (MonoClock.Next).
StrictlyIncreasing == Clock!StrictlyIncreasing
=============================================================================
