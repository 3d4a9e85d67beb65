-------------------------------- MODULE Mail --------------------------------
(***************************************************************************)
(* What seal/dack.go promises the sender of a message it may have sealed   *)
(* more than once: "delivered" is said only by the recipient.  Versions    *)
(* are the envelopes of one message.  A version the recipient refused is   *)
(* refused for good, the message is acted on at most once, and what the    *)
(* sender believes of a version is something the recipient decided of it.  *)
(***************************************************************************)
EXTENDS Integers

CONSTANTS Versions, Unknown, Processed, Refused

VARIABLES
  decided,    \* [Versions -> SUBSET {Processed, Refused}]: the recipient's decisions
  acts,       \* how often the message was acted on
  belief      \* [Versions -> {Unknown, Processed, Refused}]: the sender's record

vars == <<decided, acts, belief>>

Init ==
  /\ decided = [v \in Versions |-> {}]
  /\ acts = 0
  /\ belief = [v \in Versions |-> Unknown]

\* The first version taken is acted on, any other is a duplicate of it.
Take(v) ==
  /\ Refused \notin decided[v]
  /\ decided' = [decided EXCEPT ![v] = @ \cup {Processed}]
  /\ acts' = 1
  /\ UNCHANGED belief

Refuse(v) ==
  /\ decided' = [decided EXCEPT ![v] = @ \cup {Refused}]
  /\ UNCHANGED <<acts, belief>>

Learn(v) ==
  /\ belief[v] = Unknown
  /\ \E o \in decided[v] : belief' = [belief EXCEPT ![v] = o]
  /\ UNCHANGED <<decided, acts>>

Next == \E v \in Versions : Take(v) \/ Refuse(v) \/ Learn(v)

Spec == Init /\ [][Next]_vars
=============================================================================
