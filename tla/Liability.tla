----------------------------- MODULE Liability -----------------------------
(***************************************************************************)
(* A hub's supply epochs: package liabtree (the Merkle sum tree over every *)
(* account's balance, its proofs and their wire form) and ael/supply.go    *)
(* (the record that publishes root, outstanding and depth on the hub's     *)
(* chain).  Accounts audit the hub: each checks that its own balance is    *)
(* counted.  One instance is an honest hub, which closes epochs with Build *)
(* and serves proofs from the tree or, after a restart, from Rebuild; the  *)
(* other is a hub that makes up node sums, the record and the proofs.      *)
(*                                                                         *)
(* SHA-256 is the term of what is hashed, so two hashes are equal exactly  *)
(* when the hashed values are.  uint64 is 0..WordMax and wraps.            *)
(***************************************************************************)
EXTENDS Integers, Sequences, SequencesExt

CONSTANTS
    Accounts,     \* the AIDs of the accounts; "" is not one of them
    MinDepth,     \* at least 1; liabtree.MinDepth and ael.SupplyMinDepth (4 in the code)
    MaxDepth,     \* liabtree.MaxDepth and ael.SupplyMaxDepth (32 in the code)
    WordMax,      \* 2^64 - 1
    MaxSum,       \* 2^63 - 1, so WordMax = 2 * MaxSum + 1
    Amounts,      \* what one payment adds to a balance
    MaxPayments,  \* bound: payments of a behaviour
    MaxEpochs,    \* bound: epochs an honest hub closes
    MaxAudits,    \* bound: findings of accounts of an honest hub that are kept
    Holders,      \* bound: the accounts of a dishonest hub, from left to right
    ClaimedSums,  \* bound: the balances and sums a dishonest hub makes up
    MaxLies,      \* bound: in a tree of each depth, the nodes whose sum is made up
    None          \* no value

VARIABLES
    honest,       \* TRUE for a hub that closes its epochs with Build
    owed,         \* the balance of each account the hub has opened
    payments,      \* payments so far
    epochs,       \* the supply epochs on the hub's chain, with what the hub stored at the close
    tree,         \* the tree the hub serves proofs from; None after a restart
    verdicts      \* what the audits of the accounts found

vars == <<honest, owed, payments, epochs, tree, verdicts>>

-----------------------------------------------------------------------------
(* liabtree.go: hashes and sums. *)

MinLeaves == 2 ^ MinDepth

LeafHash(aid, toDay, balance, salt) == <<"leaf", salt, aid, toDay, balance>>

\* Mutant: hashes the children and their total, not the two sums.
NodeHash_TotalOnly(l, r) == <<"node", l.hash, r.hash, l.sum + r.sum>>

NodeHash(l, r) == <<"node", l.hash, l.sum, r.hash, r.sum>>

\* uint64 addition.
wrap(n) == n % (WordMax + 1)

\* Mutant: only looks at the total, which can have wrapped around.
addSum_TotalOnly(a, b) == [ok |-> wrap(a + b) <= MaxSum, sum |-> wrap(a + b)]

addSum(a, b) ==
    [ok |-> a <= MaxSum /\ b <= MaxSum /\ wrap(a + b) <= MaxSum, sum |-> wrap(a + b)]

Entry(aid, balance, salt) == [aid |-> aid, balance |-> balance, salt |-> salt]

NoAID == ""  \* the AID of a padding leaf

Padding(e) == e.aid = NoAID

-----------------------------------------------------------------------------
(* liabtree.go: building a tree.  Slices are functions on 0..n-1. *)

size(f) == Cardinality(DOMAIN f)

\* The levels above the leaves; the loop runs until one node is left.
levelsOf(leaves, depth) ==
    LET lvl[k \in 0..depth] ==
          IF k = 0 THEN leaves
          ELSE LET cur == lvl[k - 1]
               IN  [i \in 0..(size(cur) \div 2 - 1) |->
                      [hash |-> NodeHash(cur[2 * i], cur[2 * i + 1]),
                       sum  |-> addSum(cur[2 * i].sum, cur[2 * i + 1].sum).sum]]
    IN  lvl

depthOf(n) == CHOOSE d \in 0..MaxDepth : 2 ^ d = n

build(toDay, entries) ==
    LET leaves == [i \in DOMAIN entries |->
                     [hash |-> LeafHash(entries[i].aid, toDay, entries[i].balance, entries[i].salt),
                      sum  |-> entries[i].balance]]
        depth  == depthOf(size(entries))
        levels == levelsOf(leaves, depth)
    IN  IF \A k \in 0..(depth - 1) : \A i \in 0..(size(levels[k]) \div 2 - 1) :
              addSum(levels[k][2 * i].sum, levels[k][2 * i + 1].sum).ok
        THEN [toDay |-> toDay, entries |-> entries, levels |-> levels, depth |-> depth]
        ELSE None

\* leaves is a sequence of accounts with their balances; shuffle is the permutation that the
\* random source yields and salts its salts, one per position.
Build(leaves, toDay, shuffle, salts) ==
    LET n == CHOOSE p \in {2 ^ d : d \in MinDepth..MaxDepth} :
               p >= Len(leaves) /\ (p = MinLeaves \/ p \div 2 < Len(leaves))
        placed == [i \in 0..(n - 1) |->
                     LET j == shuffle[i]
                     IN  IF j < Len(leaves) THEN Entry(leaves[j + 1].aid, leaves[j + 1].balance, salts[i])
                                            ELSE Entry(NoAID, 0, salts[i])]
    IN  IF \/ Len(leaves) > 2 ^ MaxDepth
           \/ \E i \in DOMAIN leaves : leaves[i].aid = NoAID
           \/ \E i, j \in DOMAIN leaves : i # j /\ leaves[i].aid = leaves[j].aid
        THEN None
        ELSE build(toDay, placed)

Rebuild(toDay, entries) ==
    IF \/ size(entries) \notin {2 ^ d : d \in MinDepth..MaxDepth}
       \/ \E i \in DOMAIN entries : Padding(entries[i]) /\ entries[i].balance # 0
       \/ \E i, j \in DOMAIN entries :
            i # j /\ ~Padding(entries[i]) /\ entries[i].aid = entries[j].aid
    THEN None
    ELSE build(toDay, entries)

Root(t) == t.levels[t.depth][0].hash

Outstanding(t) == t.levels[t.depth][0].sum

-----------------------------------------------------------------------------
(* liabtree.go: proofs. *)

Step(n, side) == [hash |-> n.hash, sum |-> n.sum, side |-> side]

\* Mutant: does not halve the position on the way up.
proofAt_SamePosition(t, i) ==
    [aid |-> t.entries[i].aid, toDay |-> t.toDay,
     balance |-> t.entries[i].balance, salt |-> t.entries[i].salt,
     path |-> [k \in 1..t.depth |->
                 LET at == i % size(t.levels[k - 1])
                 IN  IF at % 2 = 1 THEN Step(t.levels[k - 1][at - 1], "L")
                                   ELSE Step(t.levels[k - 1][at + 1], "R")]]

proofAt(t, i) ==
    [aid |-> t.entries[i].aid, toDay |-> t.toDay,
     balance |-> t.entries[i].balance, salt |-> t.entries[i].salt,
     path |-> [k \in 1..t.depth |->
                 LET at == i \div (2 ^ (k - 1))
                 IN  IF at % 2 = 1 THEN Step(t.levels[k - 1][at - 1], "L")
                                   ELSE Step(t.levels[k - 1][at + 1], "R")]]

Proof(t, aid) ==
    IF aid # NoAID /\ \E i \in DOMAIN t.entries : t.entries[i].aid = aid
    THEN proofAt(t, CHOOSE i \in DOMAIN t.entries : t.entries[i].aid = aid)
    ELSE None

\* The node a proof's leaf and path lead to; ok is FALSE after an overflow or a side that is none.
fold(p) ==
    LET up[k \in 0..Len(p.path)] ==
          IF k = 0
          THEN [ok |-> TRUE, hash |-> LeafHash(p.aid, p.toDay, p.balance, p.salt), sum |-> p.balance]
          ELSE LET cur == up[k - 1]
                   s   == p.path[k]
                   add == addSum(cur.sum, s.sum)
               IN  [ok   |-> cur.ok /\ add.ok /\ s.side \in {"L", "R"},
                    hash |-> IF s.side = "L" THEN NodeHash(s, cur) ELSE NodeHash(cur, s),
                    sum  |-> add.sum]
    IN  up[Len(p.path)]

Verify(p, root, outstanding, depth) ==
    IF depth < MinDepth \/ depth > MaxDepth \/ Len(p.path) # depth \/ p.aid = NoAID THEN "malformed"
    ELSE IF outstanding > MaxSum THEN "overflow"
    ELSE LET top == fold(p)
         IN  CASE ~top.ok -> "overflow"
               [] top.ok /\ top.hash # root -> "root"
               [] top.ok /\ top.hash = root /\ top.sum # outstanding -> "sum"
               [] OTHER -> "ok"

-----------------------------------------------------------------------------
(* wire.go: one spelling per hash and salt; a text that is not 64 lower-case hex digits is refused. *)

Hex(b) == <<"lower", b>>

ParseHex(s) == IF s[1] = "lower" THEN s[2] ELSE None

Wire(p) ==
    [aid |-> p.aid, toDay |-> p.toDay, balance |-> p.balance, salt |-> Hex(p.salt),
     path |-> [k \in DOMAIN p.path |->
                 [h |-> Hex(p.path[k].hash), sum |-> p.path[k].sum, side |-> p.path[k].side]]]

Parse(w) ==
    IF \/ Len(w.path) > MaxDepth
       \/ ParseHex(w.salt) = None
       \/ \E k \in DOMAIN w.path : ParseHex(w.path[k].h) = None \/ w.path[k].side \notin {"L", "R"}
    THEN None
    ELSE [aid |-> w.aid, toDay |-> w.toDay, balance |-> w.balance, salt |-> ParseHex(w.salt),
          path |-> [k \in DOMAIN w.path |->
                      [hash |-> ParseHex(w.path[k].h), sum |-> w.path[k].sum, side |-> w.path[k].side]]]

-----------------------------------------------------------------------------
(* ael/supply.go. *)

SupplyEpoch(fromDay, toDay, root, outstanding, depth) ==
    [fromDay |-> fromDay, toDay |-> toDay, root |-> root, outstanding |-> outstanding, depth |-> depth]

check(p) ==
    /\ p.fromDay <= p.toDay
    /\ p.outstanding <= MaxSum
    /\ p.depth \in MinDepth..MaxDepth

SupplyEpochRecord(p) ==
    IF ~check(p) THEN None
    ELSE [v |-> 2, from_day |-> p.fromDay, to_day |-> p.toDay, root |-> Hex(p.root),
          outstanding |-> p.outstanding, depth |-> p.depth]

ParseSupplyEpoch(rec) ==
    IF DOMAIN rec # {"v", "from_day", "to_day", "root", "outstanding", "depth"} THEN None
    ELSE LET p == SupplyEpoch(rec.from_day, rec.to_day, ParseHex(rec.root), rec.outstanding, rec.depth)
         IN  IF rec.v = 2 /\ p.root # None /\ check(p) THEN p ELSE None

-----------------------------------------------------------------------------
(* The hub and the accounts: how a hub and a daemon use the two packages. *)

Init ==
    /\ honest \in BOOLEAN
    /\ owed = <<>> /\ payments = 0
    /\ epochs = <<>> /\ tree = None /\ verdicts = {}

\* A payment raises the balance of an account, and opens the account when it is the first.
Credit(a, n) ==
    /\ honest /\ payments < MaxPayments
    /\ owed' = [x \in DOMAIN owed \cup {a} |-> (IF x \in DOMAIN owed THEN owed[x] ELSE 0)
                                               + (IF x = a THEN n ELSE 0)]
    /\ payments' = payments + 1
    /\ UNCHANGED <<honest, epochs, tree, verdicts>>

\* Permutations of 0..n-1.
Shuffles(n) == {f \in [0..(n - 1) -> 0..(n - 1)] : \A i, j \in 0..(n - 1) : i # j => f[i] # f[j]}

\* An honest hub closes an epoch: it builds the tree, publishes the record and stores the entries.
Close ==
    /\ honest /\ Len(epochs) < MaxEpochs
    /\ \E leaves \in {SetToSeq({[aid |-> a, balance |-> owed[a]] : a \in DOMAIN owed})} :
       \E d \in {CHOOSE d \in MinDepth..MaxDepth :
                   2 ^ d >= Len(leaves) /\ (d = MinDepth \/ 2 ^ (d - 1) < Len(leaves))} :
       \E shuffle \in Shuffles(2 ^ d) :
       \E day \in {Len(epochs) + 1} :
       \E t \in {Build(leaves, day, shuffle, [i \in 0..(2 ^ d - 1) |-> <<day, i>>])} :
         /\ t # None
         /\ \E rec \in {SupplyEpochRecord(SupplyEpoch(day, day, Root(t), Outstanding(t), t.depth))} :
              /\ rec # None
              /\ epochs' = Append(epochs, [rec |-> rec, entries |-> t.entries, owed |-> owed])
         /\ tree' = t
    /\ UNCHANGED <<honest, owed, payments, verdicts>>

Restart ==
    /\ honest /\ tree # None
    /\ tree' = None
    /\ UNCHANGED <<honest, owed, payments, epochs, verdicts>>

\* The hub builds the tree of a past epoch again, from the entries it stored.
Reload(e) ==
    /\ honest /\ tree = None
    /\ tree' = Rebuild(epochs[e].rec.to_day, epochs[e].entries)
    /\ UNCHANGED <<honest, owed, payments, epochs, verdicts>>

\* An account checks a proof for its own AID against the record of epoch e.
Finding(a, e, w) ==
    LET p == Parse(w)
        s == ParseSupplyEpoch(epochs[e].rec)
    IN  CASE p = None \/ s = None -> "malformed"
          [] p # None /\ s # None /\ (p.aid # a \/ p.toDay # s.toDay) -> "not mine"
          [] OTHER -> Verify(p, s.root, s.outstanding, s.depth)

\* An account asks an honest hub for its proof of the epoch whose tree is loaded.
Audit(a) ==
    /\ honest /\ tree # None /\ Proof(tree, a) # None /\ Cardinality(verdicts) < MaxAudits
    /\ \E w \in {Wire(Proof(tree, a))} :
         verdicts' = verdicts \cup
           {[epoch |-> tree.toDay, aid |-> a, balance |-> w.balance, finding |-> Finding(a, tree.toDay, w)]}
    /\ UNCHANGED <<honest, owed, payments, epochs, tree>>

-----------------------------------------------------------------------------
(* A hub that makes up its sums.  It hashes a tree in which the sum of a node need not be what is   *)
(* below it, publishes its root and top sum, and answers with paths that carry any sums.            *)

\* The nodes of a tree of depth d: <<k, i>> is the node i of the level k.
Nodes(d) == UNION {{k} \X (0..(2 ^ (d - k) - 1)) : k \in 0..d}

\* The sum that the hub claims for the node i of the level k, whose sum is s.
Claimed(lies, k, i, s) == IF <<k, i>> \in DOMAIN lies THEN lies[<<k, i>>] ELSE s

\* The tree of depth d over entries when the sums of some nodes are lies.
ForgedTree(entries, d, lies) ==
    LET lvl[k \in 0..d] ==
          [i \in 0..(2 ^ (d - k) - 1) |->
             IF k = 0
             THEN [hash |-> LeafHash(entries[i].aid, 1, entries[i].balance, entries[i].salt),
                   sum  |-> Claimed(lies, k, i, entries[i].balance)]
             ELSE LET l == lvl[k - 1][2 * i]
                      r == lvl[k - 1][2 * i + 1]
                  IN  [hash |-> NodeHash(l, r), sum |-> Claimed(lies, k, i, addSum(l.sum, r.sum).sum)]]
    IN  [toDay |-> 1, entries |-> entries, levels |-> lvl, depth |-> d]

\* The leaves of such a tree: the n-th of aids is at places[n] with balances[n], the others are padding.
ForgedEntries(d, aids, places, balances) ==
    [i \in 0..(2 ^ d - 1) |->
       IF \E n \in DOMAIN aids : places[n] = i
       THEN LET n == CHOOSE n \in DOMAIN aids : places[n] = i IN Entry(aids[n], balances[n], <<1, i>>)
       ELSE Entry(NoAID, 0, <<1, i>>)]

CloseForged ==
    /\ ~honest /\ epochs = <<>>
    /\ \E d \in MinDepth..MaxDepth : \E lying \in {N \in SUBSET Nodes(d) : Cardinality(N) <= MaxLies[d]} :
       \E lies \in [lying -> ClaimedSums], aids \in Holders :
       \E places \in [DOMAIN aids -> 0..(2 ^ d - 1)], balances \in [DOMAIN aids -> ClaimedSums] :
         /\ \A m, n \in DOMAIN aids : m < n => places[m] < places[n]
         /\ \E entries \in {ForgedEntries(d, aids, places, balances)} :
            \E t \in {ForgedTree(entries, d, lies)} :
            \E rec \in {SupplyEpochRecord(SupplyEpoch(1, 1, Root(t), Outstanding(t), d))} :
              /\ rec # None
              /\ epochs' = <<[rec |-> rec, entries |-> entries, owed |-> <<>>]>>
              /\ tree' = t
    /\ UNCHANGED <<honest, owed, payments, verdicts>>

\* A proof some steps of whose path carry other sums.
WithSums(p, sums) ==
    [p EXCEPT !.path = [k \in DOMAIN p.path |->
        IF k \in DOMAIN sums THEN [p.path[k] EXCEPT !.sum = sums[k]] ELSE p.path[k]]]

\* An account that is shown its leaf, with a path of any sums, and finds it good.
AuditForged ==
    /\ ~honest /\ tree # None
    /\ \E i \in DOMAIN tree.entries, told \in SUBSET (1..tree.depth) :
       \E sums \in [told -> ClaimedSums], e \in {tree.entries[i]} :
         /\ ~Padding(e)
         /\ Finding(e.aid, 1, Wire(WithSums(proofAt(tree, i), sums))) = "ok"
         /\ verdicts' = verdicts \cup {[epoch |-> 1, aid |-> e.aid, balance |-> e.balance, finding |-> "ok"]}
    /\ UNCHANGED <<honest, owed, payments, epochs, tree>>

Next ==
    \/ \E a \in Accounts, n \in Amounts : Credit(a, n)
    \/ Close
    \/ Restart
    \/ \E e \in DOMAIN epochs : Reload(e)
    \/ \E a \in Accounts : Audit(a)
    \/ CloseForged
    \/ AuditForged

Spec == Init /\ [][Next]_vars

-----------------------------------------------------------------------------
(* The units of balance that audits of epoch e found counted, over all accounts. *)
Counted(e) ==
    Cardinality(UNION {{v} \X (1..v.balance) : v \in {w \in verdicts : w.epoch = e /\ w.finding = "ok"}})

(* Build, Rebuild, Proof, Wire, Parse, Verify, SupplyEpochRecord and ParseSupplyEpoch agree with   *)
(* each other: whatever the shuffle, for an account of an honest hub every audit of any epoch, also *)
(* after later payments and a restart, finds the account's balance at that close counted.          *)
HonestProves ==
    honest => \A v \in verdicts : /\ v.finding = "ok"
                                  /\ v.balance = epochs[v.epoch].owed[v.aid]

(* NodeHash covers both child sums and addSum lets no sum wrap: the accounts whose audits of one    *)
(* epoch pass hold together no more than the outstanding that the hub published, whatever sums the *)
(* hub made up.                                                                                     *)
NothingHidden ==
    \A e \in DOMAIN epochs : Counted(e) <= epochs[e].rec.outstanding

=============================================================================
