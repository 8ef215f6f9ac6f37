----------------------------- MODULE MCTransfer -----------------------------
(* Small instances of Transfer, with the saga it implements.               *)
EXTENDS TransferSaga, TLC

CONSTANTS alice, bob, carol, ann, ben, k1

Doc(user, balance, status) == [userId |-> user, balance |-> balance, status |-> status]

Ask(from, to, amount, key, user) ==
    [from |-> from, to |-> to, amount |-> amount, key |-> key, user |-> user]

\* Ann owns alice's account, Ben bob's; carol's does not exist at the start.
StartWith(balance, status) ==
    (alice :> Doc(ann, balance, status)) @@ (bob :> Doc(ben, 1, "ACTIVE")) @@ (carol :> NoAccount)
MCInitialAccounts == {StartWith(3, "ACTIVE"), StartWith(3, "FROZEN")}
MCActiveAccounts == {StartWith(3, "ACTIVE")}
MCNewAccounts == {Doc(ann, 1, "ACTIVE")}

\* Every answer is reached: a transfer that can succeed twice from alice, one
\* back, one to a missing account, one of another's account, one of too much,
\* one beyond MaxAmount.
MCRequests ==
    {Ask(alice, bob, 2, k1, ann), Ask(bob, alice, 2, NoKey, NoUser),
     Ask(alice, carol, 2, k1, ann), Ask(alice, bob, 1, NoKey, ben),
     Ask(bob, alice, 9, k1, ben)}
MCKeyedRequests ==
    {Ask(alice, bob, 1, k1, ann), Ask(bob, alice, 1, k1, NoUser), Ask(alice, bob, 1, NoKey, NoUser)}
MCRacing == {Ask(alice, bob, 2, k1, ann), Ask(alice, bob, 2, NoKey, ann)}

MCTwoOfEach == [fault |-> 2, evict |-> 1, admin |-> 2]
MCOneOfEach == [fault |-> 1, evict |-> 1, admin |-> 1]
MCNothing == [fault |-> 0, evict |-> 0, admin |-> 0]
MCFault == [fault |-> 1, evict |-> 0, admin |-> 0]
=============================================================================
