------------------------------- MODULE Store -------------------------------
(***************************************************************************)
(* InMemory: where a community's confirmed transactions are kept, called   *)
(* from several threads.  Beside the chain by number it keeps the last     *)
(* transaction, the numbers of the ledger anchors, a compact copy of every *)
(* transaction, the index (here: which number involves which key), the     *)
(* AddressIndex, the dictionary of public keys and a sorted copy with a    *)
(* dirty flag.                                                             *)
(*                                                                         *)
(* Every map is changed under mWorkMutex, but a call that confirms a       *)
(* transaction takes it for single steps only.  What a transaction is made *)
(* of is reduced to what the maps depend on; balances, dates and events    *)
(* are the subject of Ledger, date bounds of TransactionsIndex.            *)
(***************************************************************************)
EXTENDS Integers, Sequences, SequencesExt

CONSTANTS
    Keys,        \* public keys
    Threads,
    Txs,         \* the transactions clients hand over, each at most once
    MaxCleared   \* bound: how often clear is called

None == "none"
AddressTypes == {"auf", "human", "subaccount", "deferred"}

\* sets: the address types a transaction sets, at most two, in the order AddressIndex
\* applies them; keys: who is involved; balances: whose balance changes; entries: how
\* many balances and signatures it has together; anchor: its ledger anchor.
Tx == [kind : {"root", "register", "transfer", "deferred"}, sets : Seq(Keys \X AddressTypes),
       keys : SUBSET Keys, balances : SUBSET Keys, entries : Nat, anchor : Nat]

ASSUME TxsAssumption ==
    \A tx \in Txs :
        /\ tx \in Tx /\ Len(tx.sets) <= 2 /\ IsFiniteSet(tx.keys)
        /\ \A i \in DOMAIN tx.sets : tx.sets[i][1] \in tx.keys
        /\ tx.balances \subseteq tx.keys

VARIABLES
    dict,        \* mPublicKeyDirectory: index -> key
    byNr,        \* mTransactionsByNr
    last,        \* mLastTransaction: its number, 0 for none
    anchors,     \* mLedgerAnchorTransactionNrs
    maxNr,       \* the highest number the index knows, 0 for none
    involved,    \* mInvolvedPublicKeys: pairs of key index and number
    addresses,   \* AddressIndex::mIndexTransactionNrs: key index -> data
    compact,     \* mConfirmedTxByNr
    sorted,      \* mSortedTransactions, as numbers
    dirty,       \* mSortedDirty
    mutex,       \* who holds mWorkMutex across steps, None if nobody
    thread,      \* what each thread does
    added,       \* the transactions whose call returned true
    cleared      \* how often clear was called

index == <<maxNr, involved, addresses, compact>>
chain == <<byNr, last, anchors>>
sorting == <<sorted, dirty, mutex>>
vars == <<dict, chain, index, sorting, thread, added, cleared>>

Idle == [pc |-> "idle"]

\* InMemory starts empty; the dictionary, too.
Init ==
    /\ dict = <<>> /\ byNr = <<>> /\ last = 0 /\ anchors = <<>>
    /\ maxNr = 0 /\ involved = {} /\ addresses = <<>> /\ compact = <<>>
    /\ sorted = <<>> /\ dirty = FALSE /\ mutex = None
    /\ thread = [t \in Threads |-> Idle]
    /\ added = {} /\ cleared = 0

\* std::map::insert: an entry that is there stays.
Insert(f, k, v) ==
    IF k \in DOMAIN f THEN f ELSE [j \in DOMAIN f \cup {k} |-> IF j = k THEN v ELSE f[j]]

-----------------------------------------------------------------------------
(* The dictionary of public keys. *)

\* getIndexForData: 0 if the key is unknown.
GetIndexForData(d, key) ==
    IF \E i \in DOMAIN d : d[i] = key THEN CHOOSE i \in DOMAIN d : d[i] = key ELSE 0

\* getOrAddIndexForData, for every key of a set.
GetOrAdd(d, keys) ==
    d \o SetToSeq({k \in keys : GetIndexForData(d, k) = 0})

-----------------------------------------------------------------------------
(* AddressIndex.  a.ok turns FALSE when an exception is thrown; what was     *)
(* changed before stays changed.                                             *)

\* Fault: a changed type is taken over.
AddTransactionNrForIndexOverwrite(a, i, nr, type) ==
    IF ~a.ok THEN a
    ELSE IF i \notin DOMAIN a.map
    THEN [a EXCEPT !.map = Insert(@, i, [type |-> type, nrs |-> {nr}, lastBalance |-> 0])]
    ELSE [a EXCEPT !.map[i].nrs = @ \cup {nr}, !.map[i].type = type]

AddTransactionNrForIndex(a, i, nr, type) ==
    IF ~a.ok THEN a
    ELSE IF i \notin DOMAIN a.map
    THEN [a EXCEPT !.map = Insert(@, i, [type |-> type, nrs |-> {nr}, lastBalance |-> 0])]
    ELSE IF a.map[i].type # type
    THEN [a EXCEPT !.ok = FALSE]
    ELSE [a EXCEPT !.map[i].nrs = @ \cup {nr}]

\* AddressIndex::addTransaction: types first, then the number of the last change
\* of balance of every address known.
AddTransaction(map, tx, nr, d) ==
    LET set(a, i) == IF i \notin DOMAIN tx.sets THEN a
                     ELSE AddTransactionNrForIndex(a, GetIndexForData(d, tx.sets[i][1]), nr, tx.sets[i][2])
        a         == set(set([map |-> map, ok |-> TRUE], 1), 2)
        changed   == {GetIndexForData(d, k) : k \in tx.balances}
    IN  IF ~a.ok THEN a
        ELSE [a EXCEPT !.map = [i \in DOMAIN @ |->
                  IF i \in changed THEN [@[i] EXCEPT !.lastBalance = nr] ELSE @[i]]]

\* getAddressType: the type the index knows for the key's number in the dictionary.
GetAddressType(key) ==
    LET i == GetIndexForData(dict, key)
    IN  IF i \in DOMAIN addresses THEN addresses[i].type ELSE None

LastBalanceChanged(key) ==
    LET i == GetIndexForData(dict, key)
    IN  IF i \in DOMAIN addresses THEN addresses[i].lastBalance ELSE 0

\* The numbers a lookup for an involved key returns.
Involving(key) == {p[2] : p \in {q \in involved : q[1] = GetIndexForData(dict, key)}}

-----------------------------------------------------------------------------
(* Adding a transaction. *)

MaxPublicKeys == 9

\* addTransactionIndices after the bounds: ok is FALSE if it throws, because there
\* are too many keys to collect, or because the type of an address changes.
AddTransactionIndices(tx, nr) ==
    LET a == AddTransaction(addresses, tx, nr, dict)
    IN  IF tx.entries + 3 >= MaxPublicKeys
        THEN [ok |-> FALSE, involved |-> involved, addresses |-> addresses]
        ELSE [ok |-> a.ok, involved |-> involved \cup {<<GetIndexForData(dict, k), nr>> : k \in tx.keys},
              addresses |-> a.map]

\* pushTransactionEntry: an exception on the way to the compact copy is logged only.
PushTransactionEntry(tx, nr) ==
    /\ mutex = None
    /\ dirty' = TRUE /\ UNCHANGED <<sorted, mutex>>
    /\ anchors' = Insert(anchors, tx.anchor, nr)
    /\ byNr' = Insert(byNr, nr, tx)
    /\ last' = nr
    /\ maxNr' = nr
    /\ LET r == AddTransactionIndices(tx, nr)
       IN  /\ involved' = r.involved
           /\ addresses' = r.addresses
           /\ compact' = IF r.ok THEN Insert(compact, nr, tx) ELSE compact

\* The checks of validation that read these maps: a chain begins with its root, a
\* user is registered once, a subaccount only for a user that exactly one
\* transaction involves (findOne throws if there are more), others need known
\* addresses, and a deferred transfer an unknown one to pay to.
Valid(tx, nr) ==
    CASE tx.kind = "root" -> nr = 1
      [] tx.kind = "register" ->
            /\ nr > 1
            /\ IF tx.sets[1][2] = "subaccount"
               THEN Cardinality(Involving(tx.sets[1][1])) = 1
               ELSE GetAddressType(tx.sets[1][1]) = None
      [] tx.kind = "transfer" -> nr > 1 /\ \A k \in tx.keys : GetAddressType(k) # None
      [] tx.kind = "deferred" ->
            nr > 1 /\ \A k \in tx.keys : (k = tx.sets[1][1]) = (GetAddressType(k) = None)

\* A client builds a transaction, which puts its keys into the dictionary, and
\* hands it over.
Call(t, tx) ==
    /\ thread[t] = Idle
    /\ tx \notin added \cup Range(byNr)
    /\ \A u \in Threads : thread[u].pc \in {"called", "read", "pushed"} => thread[u].tx # tx
    /\ dict' = GetOrAdd(dict, tx.keys)
    /\ thread' = [thread EXCEPT ![t] = [pc |-> "called", tx |-> tx, nr |-> 0]]
    /\ UNCHANGED <<chain, index, sorting, added, cleared>>

\* Context::run takes the next number from the last transaction.
ReadLast(t) ==
    /\ thread[t].pc = "called"
    /\ thread' = [thread EXCEPT ![t].pc = "read", ![t].nr = last + 1]
    /\ UNCHANGED <<dict, chain, index, sorting, added, cleared>>

Push(t) ==
    /\ thread[t].pc = "read"
    /\ Valid(thread[t].tx, thread[t].nr)
    /\ PushTransactionEntry(thread[t].tx, thread[t].nr)
    /\ thread' = [thread EXCEPT ![t].pc = "pushed"]
    /\ UNCHANGED <<dict, added, cleared>>

\* Fault: success is reported although validation refused.
RefuseSilently(t) ==
    /\ thread[t].pc = "read"
    /\ ~Valid(thread[t].tx, thread[t].nr)
    /\ added' = added \cup {thread[t].tx}
    /\ thread' = [thread EXCEPT ![t] = Idle]
    /\ UNCHANGED <<dict, chain, index, sorting, cleared>>

Refuse(t) ==
    /\ thread[t].pc = "read"
    /\ ~Valid(thread[t].tx, thread[t].nr)
    /\ thread' = [thread EXCEPT ![t] = Idle]
    /\ UNCHANGED <<dict, chain, index, sorting, added, cleared>>

Return(t) ==
    /\ thread[t].pc = "pushed"
    /\ added' = added \cup {thread[t].tx}
    /\ thread' = [thread EXCEPT ![t] = Idle]
    /\ UNCHANGED <<dict, chain, index, sorting, cleared>>

-----------------------------------------------------------------------------
(* The sorted copy.  The flag is read without the lock, and the caller reads *)
(* the copy after the lock is gone.                                          *)

GetSorted(t) ==
    /\ thread[t] = Idle
    /\ thread' = [thread EXCEPT ![t] = [pc |-> IF dirty THEN "dirty" ELSE "got",
                                        there |-> DOMAIN byNr]]
    /\ UNCHANGED <<dict, chain, index, sorting, added, cleared>>

ClearSorted(t) ==
    /\ thread[t].pc = "dirty" /\ mutex = None
    /\ mutex' = t
    /\ sorted' = <<>> /\ UNCHANGED dirty
    /\ thread' = [thread EXCEPT ![t].pc = "cleared"]
    /\ UNCHANGED <<dict, chain, index, added, cleared>>

InOrder(S) == [i \in 1..Cardinality(S) |-> CHOOSE n \in S : Cardinality({m \in S : m <= n}) = i]

FillSorted(t) ==
    /\ thread[t].pc = "cleared"
    /\ sorted' = InOrder(DOMAIN byNr)
    /\ dirty' = FALSE
    /\ mutex' = None
    /\ thread' = [thread EXCEPT ![t].pc = "got"]
    /\ UNCHANGED <<dict, chain, index, added, cleared>>

ReadSorted(t) ==
    /\ thread[t].pc = "got"
    /\ thread' = [thread EXCEPT ![t] = [pc |-> "seen", there |-> thread[t].there,
                                        numbers |-> sorted]]
    /\ UNCHANGED <<dict, chain, index, sorting, added, cleared>>

ForgetSorted(t) ==
    /\ thread[t].pc = "seen"
    /\ thread' = [thread EXCEPT ![t] = Idle]
    /\ UNCHANGED <<dict, chain, index, sorting, added, cleared>>

-----------------------------------------------------------------------------

Step(t) ==
    \/ \E tx \in Txs : Call(t, tx)
    \/ ReadLast(t) \/ Push(t) \/ Refuse(t) \/ Return(t)
    \/ GetSorted(t) \/ ClearSorted(t) \/ FillSorted(t) \/ ReadSorted(t) \/ ForgetSorted(t)

Next == \E t \in Threads : Step(t)

Spec == Init /\ [][Next]_vars

\* InMemory::clear, which leaves the chain, the compact copies and the addresses.
Clear ==
    /\ mutex = None /\ cleared < MaxCleared
    /\ dirty' = FALSE /\ sorted' = <<>> /\ UNCHANGED mutex
    /\ maxNr' = 0 /\ involved' = {} /\ UNCHANGED <<addresses, compact>>
    /\ dict' = <<>>
    /\ cleared' = cleared + 1
    /\ UNCHANGED <<chain, thread, added>>

ClearingSpec == Init /\ [][Next \/ Clear]_vars

-----------------------------------------------------------------------------
(* Properties. *)

\* Every variable has its type, a thread that rebuilds the sorted copy holds the
\* mutex, and numbers in the maps are numbers of the chain.
TypeOK ==
    /\ Range(dict) \subseteq Keys /\ Len(dict) = Cardinality(Range(dict))
    /\ DOMAIN byNr \subseteq Nat /\ Range(byNr) \subseteq Txs
    /\ last \in DOMAIN byNr \cup {0} /\ maxNr \in DOMAIN byNr \cup {0}
    /\ Range(anchors) \subseteq DOMAIN byNr
    /\ DOMAIN compact \subseteq DOMAIN byNr
    /\ involved \subseteq ((DOMAIN dict) \X (DOMAIN byNr))
    /\ DOMAIN addresses \subseteq DOMAIN dict
    /\ \A t \in Threads : (mutex = t) = (thread[t].pc = "cleared")
    /\ added \subseteq Txs /\ cleared \in 0..MaxCleared

\* The maps of InMemory implement the log a blockchain promises: numbers without
\* gaps that keep their transaction, and success only for what was added.
Log == INSTANCE ConfirmedLog WITH
    log <- [n \in 1..Cardinality(DOMAIN byNr) |-> byNr[n]]

LogSpec == Log!Spec

\* createAndAddConfirmedTransaction: a call that returned true has added its
\* transaction; it is found by its number and its ledger anchor.
AddedIsFound ==
    \A tx \in added :
        /\ tx \in Range(byNr)
        /\ tx.anchor \in DOMAIN anchors /\ byNr[anchors[tx.anchor]] = tx

\* getSortedTransactions: whoever asks for the sorted transactions reads all that
\* were there when it asked, in order.
SortedComplete ==
    \A t \in Threads : thread[t].pc = "seen" =>
        /\ thread[t].there \subseteq Range(thread[t].numbers)
        /\ \A i \in 1..(Len(thread[t].numbers) - 1) : thread[t].numbers[i] < thread[t].numbers[i + 1]

\* The numbers of the transactions whose compact copy was made and that satisfy P.
CompactWith(P(_)) == {n \in DOMAIN compact : P(compact[n])}

Sets(tx, key) == \E i \in DOMAIN tx.sets : tx.sets[i][1] = key

\* AddressIndex answers for every key what the chain says: the type is the one the
\* first transaction that set it has set, and the last change of balance is the
\* last transaction with a balance of the key since then.
AddressesAgree ==
    \A k \in Keys :
        LET setting == CompactWith(LAMBDA tx : Sets(tx, k))
            first   == compact[Min(setting)]
            paying  == {n \in CompactWith(LAMBDA tx : k \in tx.balances) : n >= Min(setting)}
        IN  IF setting = {} THEN GetAddressType(k) = None
            ELSE /\ <<k, GetAddressType(k)>> \in Range(first.sets)
                 /\ LastBalanceChanged(k) = IF paying = {} THEN 0 ELSE Max(paying)

\* Only the first address of a transaction can be one whose type is another: the user
\* of a subaccount.  Accounts and the addresses of deferred transfers have keys of
\* their own.
OneTypePerAccount ==
    \A tx, other \in Txs : 2 \in DOMAIN tx.sets =>
        \A j \in DOMAIN other.sets :
            other.sets[j][1] = tx.sets[2][1] => other.sets[j][2] = tx.sets[2][2]

\* InMemory: the sorted transactions and the address index answer what the chain says.
ReadsAgree == TypeOK /\ SortedComplete /\ AddressesAgree

\* findAll with an element filter throws if a number of the index has no compact
\* copy: a number that a lookup for a key returns always has one.
IndexedHasCompact == \A k \in Keys : Involving(k) \subseteq DOMAIN compact

\* getInvolvedAddresses treats more keys than it has room for as an error that does
\* not happen: every confirmed transaction is found by a lookup for its keys.
ConfirmedIsIndexed == \A n \in DOMAIN byNr : \A k \in byNr[n].keys : n \in Involving(k)

\* A confirmed registration makes the account known with its type.
RegisteredIsKnown ==
    \A n \in DOMAIN byNr : byNr[n].kind = "register" => GetAddressType(byNr[n].sets[2][1]) # None

\* clear: "remove all transactions and start over".
ClearStartsOver == [][Clear => byNr' = <<>> /\ last' = 0]_vars

=============================================================================
