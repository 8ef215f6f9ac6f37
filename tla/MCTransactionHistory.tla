------------------------ MODULE MCTransactionHistory ------------------------
(* Small instances of TransactionHistory.                                  *)
EXTENDS TransactionHistory, TLC

CONSTANTS alice, bob, carol, ann, ben, k1, c1, c2

Doc(user, balance) == [userId |-> user, balance |-> balance, status |-> "ACTIVE"]

Order(from, to, key, user) ==
    [from |-> from, to |-> to, amount |-> 2, key |-> key, user |-> user]

Inquiry(kind, account, limit, user) ==
    [kind |-> kind, account |-> account, of |-> NoCall, limit |-> limit, user |-> user]
LookUp(c, user) == [Inquiry("transaction", alice, 0, user) EXCEPT !.of = c]

MCInitialAccounts ==
    {(alice :> Doc(ann, 4)) @@ (bob :> Doc(ben, 2)) @@ (carol :> Doc(ben, 2))}
MCNewAccounts == {Doc(ben, 1)}

\* Transfers from and to bob's account, and one that does not involve it.
MCRequests == {Order(alice, bob, k1, ann), Order(bob, carol, NoKey, NoUser),
               Order(alice, carol, NoKey, ann)}

MCAsks == {Inquiry("history", bob, 0, ben), Inquiry("history", alice, 1, NoUser),
           Inquiry("account", alice, 0, ben),
           Inquiry("account", bob, 0, NoUser), Inquiry("statistics", bob, 0, ben),
           Inquiry("billPayment", alice, 0, ann), LookUp(c1, ann), LookUp(c2, ann)}
MCShortPage == {Inquiry("history", alice, 1, ann)}

MCNothing == [fault |-> 0, evict |-> 0, admin |-> 0]
MCFaultAndAdmin == [fault |-> 1, evict |-> 0, admin |-> 1]

\* Calls are only quantified over, so they may be exchanged.
CallSymmetry == Permutations({c1, c2})
=============================================================================
