------------------------------ MODULE Padding ------------------------------
(***************************************************************************)
(* The zero pad of a Wrap (seal/fields.go): applyPad looks for a number of *)
(* zero bytes that brings the encoding to a Padme length.  A byte string's *)
(* head grows with its length, so some lengths cannot be reached and the   *)
(* loop moves on to the next Padme length.  Lengths are the real ones.     *)
(***************************************************************************)
EXTENDS Integers

CONSTANT Bases   \* bound: the lengths of an encoded Wrap with an empty pad

VARIABLES
  base,     \* the length with an empty pad
  target,   \* the length aimed at
  pad       \* the number of zero bytes, -1 while it is not found

vars == <<base, target, pad>>

\* floor(log2(n)), bits.Len - 1, for n >= 1.
Log2(n) == CHOOSE e \in 0..30 : 2 ^ e <= n /\ n < 2 ^ (e + 1)

Padme(n) ==
  IF n < 2 THEN n
  ELSE LET e    == Log2(n)
           unit == 2 ^ (e - (IF e = 0 THEN 0 ELSE Log2(e) + 1))
       IN  ((n + unit - 1) \div unit) * unit

cborHeadLen(n) == IF n < 24 THEN 1 ELSE IF n <= 255 THEN 2 ELSE IF n <= 65535 THEN 3 ELSE 5

\* Mutant: the length is taken without looking whether its head has the length it was taken for.
padLenFor_AnyHead(d) == d

\* The number of zero bytes whose encoding is d bytes longer than that of none, or -1.
padLenFor(d) ==
  LET fits == {n \in {d - (h - 1) : h \in {1, 2, 3, 5}} : n >= 0 /\ n + cborHeadLen(n) - 1 = d}
  IN  IF fits = {} THEN -1 ELSE CHOOSE n \in fits : TRUE

Init ==
  /\ base \in Bases
  /\ target = Padme(base)
  /\ pad = -1

\* A turn of the loop.
applyPad ==
  /\ pad = -1
  /\ pad' = padLenFor(target - base)
  /\ target' = IF pad' = -1 THEN Padme(target + 1) ELSE target
  /\ UNCHANGED base

Next == applyPad

-----------------------------------------------------------------------------
(* Properties. *)

\* An empty pad takes one byte of base.
Encoded(n) == base - 1 + cborHeadLen(n) + n

\* The Wrap has exactly the length applyPad returns, a Padme length, and the shortest one that
\* any pad can give it; the loop passes over at most one length.
PadIsExact ==
  /\ target \in {Padme(base), Padme(Padme(base) + 1)}
  /\ pad # -1 =>
       /\ Encoded(pad) = target /\ Padme(target) = target
       /\ \A t \in base..(target - 1) :
            Padme(t) = t => \A n \in (t - base - 4)..(t - base) : n >= 0 => Encoded(n) # t
=============================================================================
