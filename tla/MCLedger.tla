------------------------------ MODULE MCLedger ------------------------------
(***************************************************************************)
(* Records for model checking Ledger: an honest chain of four, a second    *)
(* record at seq 1 and at seq 3, a copy of a1 whose signature does not     *)
(* verify, and a record of another major version.                          *)
(***************************************************************************)
EXTENDS Ledger, TLC

CONSTANT c,  \* the chain's DID
         w   \* a witness other than the chain's owner

Rec(id, seq, prev, version, ok) ==
  [id |-> id, chain |-> c, seq |-> seq, prev |-> prev, type |-> "app",
   version |-> version, ok |-> ok]

Honest == {Rec("g", 0, "genesis", 2, TRUE), Rec("a1", 1, "g", 2, TRUE),
           Rec("a2", 2, "a1", 2, TRUE), Rec("a3", 3, "a2", 2, TRUE)}

Branch == {Rec("b1", 1, "g", 2, TRUE), Rec("x3", 3, "a2", 2, TRUE)}

Gated == {Rec("a1", 1, "g", 2, FALSE), Rec("v1", 1, "g", 1, TRUE)}

MCRecords == Honest \cup Branch \cup Gated

\* Replicas are interchangeable in Spec and in every property of the run.
MCSymmetry == Permutations(Replicas)
=============================================================================
