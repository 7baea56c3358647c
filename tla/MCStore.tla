------------------------------ MODULE MCStore ------------------------------
(***************************************************************************)
(* A blockchain, the provider that finds it, and the memory its data are   *)
(* kept in.  One of the three runs at a time.                              *)
(* Transactions for Store: a root, registrations, a subaccount for the     *)
(* first user, a transfer to the community, a deferred transfer and a      *)
(* transfer with as many balances and signatures as make the index give    *)
(* up.                                                                     *)
(***************************************************************************)
EXTENDS Store, Provider, Memory, TLC

CONSTANTS auf, u1, a1, u2, a2, s1, d1

AllKeys == {auf, u1, a1, u2, a2, s1, d1}

Register(user, account, type, anchor) ==
    [kind |-> "register", sets |-> <<<<user, type>>, <<account, type>>>>,
     keys |-> {user, account}, balances |-> {account}, entries |-> 4, anchor |-> anchor]

Root == [kind |-> "root", sets |-> <<<<auf, "auf">>>>, keys |-> {auf}, balances |-> {},
         entries |-> 1, anchor |-> 1]
Register1 == Register(u1, a1, "human", 2)
Register2 == Register(u2, a2, "human", 3)
Subaccount == Register(u1, s1, "subaccount", 4)

Transfer(n, anchor) ==
    [kind |-> "transfer", sets |-> <<>>, keys |-> {a1, auf}, balances |-> {a1, auf},
     entries |-> n, anchor |-> anchor]

Deferred == [kind |-> "deferred", sets |-> <<<<d1, "deferred">>>>, keys |-> {a1, d1},
             balances |-> {a1, d1}, entries |-> 3, anchor |-> 6]

ChainTxs == {Root, Register1, Subaccount, Transfer(3, 5), Transfer(6, 7), Deferred}
WideTxs == ChainTxs \ {Subaccount}
PairTxs == {Root, Register1, Register2}

-----------------------------------------------------------------------------
CONSTANTS
    Parts,       \* which of "store", "provider" and "memory" run
    content      \* what a program writes into a Block

VARIABLE part    \* the one that runs

\* Two threads with two Blocks each, two buckets and one size beyond them.
TwoBuckets == <<2, 4>>

ASSUME ParametersAssumption /\ ContentsDiffer /\ OneTypePerAccount

Interchangeable == Permutations(Users) \cup Permutations(Names) \cup Permutations(Addresses)

MCVars == <<vars, providerVars, memoryVars, part>>

MCInit == Init /\ ProviderInit /\ MemoryInit /\ part \in Parts

MCNext ==
    \/ part = "store" /\ Next /\ UNCHANGED <<providerVars, memoryVars, part>>
    \/ part = "provider" /\ ProviderNext /\ UNCHANGED <<vars, memoryVars, part>>
    \/ part = "memory" /\ MemoryNext /\ UNCHANGED <<vars, providerVars, part>>

MCSpec == MCInit /\ [][MCNext]_MCVars
=============================================================================
