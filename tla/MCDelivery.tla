----------------------------- MODULE MCDelivery -----------------------------
(* An instance of Delivery: well-formed and malformed drafts, two epoch keys, two interactions. *)
EXTENDS Delivery

Key(n) == [suite |-> SuiteX25519, pub |-> <<"x25519", n>>, kid |-> KID(SuiteX25519, <<"x25519", n>>)]

RKOf(n) == [suite |-> SuiteX25519, pub |-> <<"x25519", n>>]

MCEpochKeys == <<Key(1), Key(2)>>

MCIXKeys ==
  << [ix |-> "i1", peer |-> "a", suite |-> SuiteX25519, pub |-> <<"x25519", 3>>],
     [ix |-> "i2", peer |-> "a", suite |-> SuiteX25519, pub |-> <<"x25519", 4>>] >>

Good == [ from |-> "a", seq |-> 0, to |-> "b", type |-> "t", ix |-> "i1", mid |-> "m", ts |-> 1, exp |-> 2,
          body |-> "text", kel |-> None, notices |-> <<>>, keys |-> None, grant |-> None, rk |-> None,
          ext |-> {}, sig |-> None ]

MCDrafts ==
  << [Good EXCEPT !.kel = "kel", !.notices = <<"notice">>, !.rk = RKOf(5), !.ext = {64}],
    [Good EXCEPT !.ix = Nul], [Good EXCEPT !.type = ""], [Good EXCEPT !.mid = Bad],
    [Good EXCEPT !.exp = 9], [Good EXCEPT !.kel = "kel"],
    [Good EXCEPT !.kel = "large", !.notices = <<"notice">>],
    [Good EXCEPT !.kel = "kel", !.notices = <<Bad>>],
    [Good EXCEPT !.grant = Bad], [Good EXCEPT !.rk = [suite |-> 2, pub |-> <<"x25519", 5>>]],
    [Good EXCEPT !.ext = {20}] >>

NoHooks == [inner |-> {}, wrap |-> {}, outer |-> {}]

Option(key, rk, exp, hooks) == [key |-> key, rk |-> rk, exp |-> exp, hooks |-> hooks]

MCOptions ==
  << Option(Key(1), None, 0, NoHooks), Option(Key(2), RKOf(3), 2, NoHooks), Option(Key(1), RKOf(4), 0, NoHooks),
     Option(Key(2), None, 7, NoHooks),
     Option(Key(2), [suite |-> SuiteX25519, pub |-> SmallOrder], 0, NoHooks),
     Option([Key(1) EXCEPT !.suite = 2], None, 0, NoHooks),
     Option(Key(1), None, 0, [NoHooks EXCEPT !.wrap = {5}]),
     Option(Key(1), None, 0, [NoHooks EXCEPT !.inner = {40}]),
     Option(Key(1), None, 0, [NoHooks EXCEPT !.inner = {65}]),
     Option(Key(1), None, 0, [NoHooks EXCEPT !.outer = {9}]),
     Option(Key(1), RKOf(3), 0, NoHooks), Option(Key(2), None, 0, NoHooks) >>

\* A second version is sealed to the other epoch key, or with a second layer.
MCOptionsOf == <<1..10, {11, 12}>>
=============================================================================
