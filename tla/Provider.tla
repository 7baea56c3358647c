------------------------------ MODULE Provider ------------------------------
(***************************************************************************)
(* InMemoryProvider and AppContext: which blockchain a community has.      *)
(* AppContext numbers the communities in a dictionary and keeps a context  *)
(* for each number; the provider keeps a blockchain for each number; a     *)
(* context is told the blockchain of its community when it is made.  Keys  *)
(* are looked up through the context, transactions added through the       *)
(* provider, so the two have to name the same blockchain.                  *)
(*                                                                         *)
(* The dictionary and the map of the provider have locks of their own, the *)
(* contexts have none: the steps of a thread between two locks interleave  *)
(* with those of others.                                                   *)
(***************************************************************************)
EXTENDS Integers, Sequences

CONSTANTS
    Communities, Callers,
    MaxChains     \* bound: how many blockchains are made

Nothing == 0   \* no blockchain, no index

VARIABLES
    ids,        \* mCommunityIds: index -> community
    contexts,   \* mCommunityContexts: index -> its blockchain
    chains,     \* mBlockchainsPerGroup: index -> blockchain
    made,       \* blockchains are numbered as they are made
    epoch,      \* how often the provider was cleared
    callers      \* what each thread does

providerVars == <<ids, contexts, chains, made, epoch, callers>>

NotCalling == [pc |-> "idle"]

ProviderInit ==
    /\ ids = <<>> /\ contexts = <<>> /\ chains = <<>> /\ made = 0 /\ epoch = 0
    /\ callers = [t \in Callers |-> NotCalling]

\* The thread's call returns blockchain b.
Found(t, b) ==
    callers' = [callers EXCEPT ![t] = [pc |-> "found", index |-> @.index, chain |-> b, epoch |-> epoch]]

Goto(t, pc) == callers' = [callers EXCEPT ![t].pc = pc]

\* RuntimeDictionary::getIndexForData
IndexOf(c) == IF \E i \in DOMAIN ids : ids[i] = c THEN CHOOSE i \in DOMAIN ids : ids[i] = c ELSE Nothing

-----------------------------------------------------------------------------
(* getOrAddCommunityIdIndex *)

\* findBlockchain(communityId): the index of a community that is known is used at once.
Find(t, c) ==
    /\ callers[t] = NotCalling
    /\ callers' = [callers EXCEPT ![t] =
          [pc |-> IF IndexOf(c) = Nothing THEN "new" ELSE "search", community |-> c, index |-> IndexOf(c)]]
    /\ UNCHANGED <<ids, contexts, chains, made, epoch>>

\* getOrAddIndexForData, under the lock of the dictionary.
AddId(t) ==
    /\ callers[t].pc = "new"
    /\ LET c == callers[t].community
       IN  /\ ids' = IF IndexOf(c) = Nothing THEN Append(ids, c) ELSE ids
           /\ callers' = [callers EXCEPT ![t].pc = "context",
                                         ![t].index = IF IndexOf(c) = Nothing THEN Len(ids) + 1 ELSE IndexOf(c)]
    /\ UNCHANGED <<contexts, chains, made, epoch>>

\* The number of contexts is compared with the index.  The contexts have no lock:
\* two threads may find the same number.
CheckContext(t) ==
    /\ callers[t].pc = "context"
    /\ callers[t].index <= Len(contexts) + 1
    /\ Goto(t, IF callers[t].index = Len(contexts) + 1 THEN "append" ELSE "search")
    /\ UNCHANGED <<ids, contexts, chains, made, epoch>>

\* DictionaryHoleException: the contexts do not reach up to the index.
Hole(t) ==
    /\ callers[t].pc = "context"
    /\ callers[t].index > Len(contexts) + 1
    /\ Goto(t, "failed")
    /\ UNCHANGED <<ids, contexts, chains, made, epoch>>

AppendContext(t) ==
    /\ callers[t].pc = "append"
    /\ contexts' = Append(contexts, Nothing)
    /\ Goto(t, "search")
    /\ UNCHANGED <<ids, chains, made, epoch>>

-----------------------------------------------------------------------------
(* findBlockchain and addBlockchain *)

\* The search under the shared lock.
Search(t) ==
    /\ callers[t].pc = "search"
    /\ IF callers[t].index \in DOMAIN chains
       THEN Found(t, chains[callers[t].index])
       ELSE Goto(t, "add")
    /\ UNCHANGED <<ids, contexts, chains, made, epoch>>

\* The provider's map after a blockchain was made for index i: one that is there stays.
Kept(i, b) ==
    IF i \in DOMAIN chains THEN chains
    ELSE [j \in DOMAIN chains \cup {i} |-> IF j = i THEN b ELSE chains[j]]

\* Fault: the caller gets the blockchain it made, kept or not.
AddBlockchainOwn(t) ==
    /\ callers[t].pc = "add" /\ made < MaxChains
    /\ callers[t].index <= Len(contexts)
    /\ LET i == callers[t].index
       IN  /\ made' = made + 1
           /\ contexts' = [contexts EXCEPT ![i] = made + 1]
           /\ chains' = Kept(i, made + 1)
           /\ Found(t, made + 1)
    /\ UNCHANGED <<ids, epoch>>

\* addBlockchain under the exclusive lock: the new blockchain replaces the one of the
\* context, but not one the provider got meanwhile.
AddBlockchain(t) ==
    /\ callers[t].pc = "add" /\ made < MaxChains
    /\ callers[t].index <= Len(contexts)
    /\ LET i == callers[t].index
       IN  /\ made' = made + 1
           /\ contexts' = [contexts EXCEPT ![i] = made + 1]
           /\ chains' = Kept(i, made + 1)
           /\ Found(t, chains'[i])
    /\ UNCHANGED <<ids, epoch>>

\* AppContext::addBlockchain throws: the context of the community is missing.
MissingContext(t) ==
    /\ callers[t].pc = "add"
    /\ callers[t].index > Len(contexts)
    /\ Goto(t, "failed")
    /\ UNCHANGED <<ids, contexts, chains, made, epoch>>

Leave(t) ==
    /\ callers[t].pc \in {"found", "failed"}
    /\ callers' = [callers EXCEPT ![t] = NotCalling]
    /\ UNCHANGED <<ids, contexts, chains, made, epoch>>

\* InMemoryProvider::clear forgets the blockchains, the contexts keep theirs.
ProviderClear ==
    /\ chains # <<>>
    /\ chains' = <<>>
    /\ epoch' = epoch + 1
    /\ UNCHANGED <<ids, contexts, made, callers>>

ProviderStep(t) ==
    \/ \E c \in Communities : Find(t, c)
    \/ AddId(t) \/ CheckContext(t) \/ Hole(t) \/ AppendContext(t)
    \/ Search(t) \/ AddBlockchain(t) \/ MissingContext(t)
    \/ Leave(t)

ProviderNext == ProviderClear \/ \E t \in Callers : ProviderStep(t)

ProviderSpec == ProviderInit /\ [][ProviderNext]_providerVars

-----------------------------------------------------------------------------
(* Properties. *)

\* Types; the dictionary gives every community one index, and there is a context for
\* every blockchain.
ProviderTypeOK ==
    /\ ids \in Seq(Communities) /\ \A i, j \in DOMAIN ids : ids[i] = ids[j] => i = j
    /\ contexts \in Seq(0..MaxChains)
    /\ DOMAIN chains \subseteq DOMAIN ids /\ DOMAIN chains \subseteq DOMAIN contexts
    /\ made \in 0..MaxChains

\* AppContext and provider name the same blockchain for a community, so that keys
\* are looked up in the dictionary of the blockchain that transactions are added to.
ContextsAgree == \A i \in DOMAIN chains : contexts[i] = chains[i]

\* findBlockchain: however the calls of several threads overlap, each gets the
\* blockchain the provider keeps for the community, until the provider is cleared.
AnswersAreKept ==
    \A t \in Callers : callers[t].pc = "found" /\ callers[t].epoch = epoch =>
        callers[t].index \in DOMAIN chains /\ chains[callers[t].index] = callers[t].chain

\* The provider's whole promise, with the types it rests on.
FoundIsKept == ProviderTypeOK /\ AnswersAreKept

\* Every call for a community gets a blockchain: findBlockchain creates the ones
\* that are missing and has no other outcome.
FindSucceeds == \A t \in Callers : callers[t].pc # "failed"

=============================================================================
