----------------------------- MODULE StoreProofs -----------------------------
(***************************************************************************)
(* Proofs about the blockchain in memory (Store), the provider that finds  *)
(* it (Provider) and the memory manager (Memory).                          *)
(*                                                                         *)
(* ChainImplementsLog: with one caller at a time InMemory implements the   *)
(* log of ConfirmedLog.  The number a call reads must still be the next    *)
(* one when it pushes, which StoreInv says; with two callers it need not   *)
(* be.                                                                     *)
(* ReadsStayExact: with one caller at a time, what the sorted copy and the *)
(* address index answer agrees with the chain.  ReadsInv says when the     *)
(* copy is up to date, that the dictionary has every key once and before   *)
(* its transaction, and from which transactions the data of an address     *)
(* are.  A transaction whose compact copy is not made must leave them      *)
(* alone, which it does if only the first address it sets can be refused.  *)
(* FoundStaysKept: a call of findBlockchain has the blockchain that is     *)
(* kept, for every number of threads.  LookupInv adds that whoever is past *)
(* the dictionary has an index of it, and that answers do not come from a  *)
(* later epoch.                                                            *)
(* BuffersStaySound: for any threads, Blocks, bucket sizes and stack limit *)
(* a buffer has one owner at every step, none is lost, each has room for   *)
(* its size and reads what its program put there last.                     *)
(***************************************************************************)
EXTENDS Store, Provider, Memory, FiniteSetTheorems, SequenceTheorems, WellFoundedInduction, TLAPS

-----------------------------------------------------------------------------
(* InMemory implements the log. *)

\* What the log is in the state of InMemory, as Log has it.
LogOfChain == [n \in 1..Cardinality(DOMAIN byNr) |-> byNr[n]]

\* The states of a thread that adds a transaction, and of one that asks for the sorted copy.
AddStates == [pc : {"called", "read", "pushed"}, tx : Txs, nr : Nat]
SortStates == [pc : {"dirty", "cleared", "got"}, there : SUBSET Nat]

\* The numbers of the chain have no gap, and the only caller still has the next one when it pushes.
StoreInv(t) ==
    /\ last \in Nat /\ DOMAIN byNr = 1..last /\ byNr \in [1..last -> Txs]
    /\ added \subseteq Range(byNr)
    /\ thread \in [{t} -> {thread[t]}]
    /\ thread[t] = Idle \/ thread[t] \in AddStates \/ thread[t] \in SortStates \/ thread[t].pc = "seen"
    /\ thread[t].pc \in {"called", "read"} => thread[t].tx \notin Range(byNr)
    /\ thread[t].pc = "read" => thread[t].nr = last + 1
    /\ thread[t].pc = "pushed" => thread[t].tx \in Range(byNr) \ added

\* The state of the caller, by its place.
LEMMA AdderFields ==
    ASSUME NEW t, StoreInv(t)
    PROVE  /\ thread[t].pc \in {"called", "read", "pushed"} => thread[t] \in AddStates
           /\ thread[t].pc \in {"dirty", "cleared", "got"} => thread[t] \in SortStates
<1>1. Idle.pc = "idle"
  BY DEF Idle
<1> QED
  BY <1>1 DEF StoreInv, AddStates, SortStates

\* Without gaps, the log is the map of transactions by their number.
LEMMA LogIsByNr ==
    ASSUME NEW f, NEW m \in Nat, DOMAIN f = 1..m, f \in [1..m -> Txs]
    PROVE  [n \in 1..Cardinality(DOMAIN f) |-> f[n]] = f /\ f \in Seq(Txs) /\ Len(f) = m
<1>1. Cardinality(1..m) = m
  <2>1. 1 <= m + 1
    OBVIOUS
  <2> QED
    BY <2>1, FS_Interval
<1> QED
  BY <1>1

\* A step that leaves chain and success alone is none of the log.
LEMMA QuietStep ==
    ASSUME NEW t, StoreInv(t), NEW s,
           thread' = [thread EXCEPT ![t] = s], UNCHANGED <<byNr, last, added>>,
           s = Idle \/ s \in AddStates \/ s \in SortStates \/ s.pc = "seen",
           s.pc \in {"called", "read"} => s.tx \notin Range(byNr),
           s.pc = "read" => s.nr = last + 1, s.pc # "pushed"
    PROVE  StoreInv(t)' /\ UNCHANGED Log!vars
<1>1. thread' \in [{t} -> {thread'[t]}] /\ thread'[t] = s
  BY DEF StoreInv
<1>2. UNCHANGED Log!vars
  BY DEF Log!vars
<1> QED
  BY <1>1, <1>2 DEF StoreInv

\* The validated transaction gets the next number, which no transaction has.
LEMMA PushConfirms ==
    ASSUME NEW t, StoreInv(t), Push(t)
    PROVE  StoreInv(t)' /\ \E tx \in Txs : Log!Confirm(tx)
<1>x. PICK tx : tx = thread[t].tx
  OBVIOUS
<1>s. PICK s : s = [thread[t] EXCEPT !.pc = "pushed"]
  OBVIOUS
<1>1. thread[t].pc = "read" /\ thread[t] \in AddStates
  BY AdderFields DEF Push
<1>2. /\ thread[t].nr = last + 1 /\ tx \in Txs /\ tx \notin Range(byNr) /\ last \in Nat
      /\ DOMAIN byNr = 1..last /\ byNr \in [1..last -> Txs] /\ added \subseteq Range(byNr)
  BY <1>1, <1>x DEF StoreInv, AddStates
<1>3. s \in AddStates /\ s.pc = "pushed" /\ s.tx = tx
  BY <1>1, <1>s, <1>x DEF AddStates
<1>4. /\ byNr' = Insert(byNr, last + 1, tx) /\ last' = last + 1 /\ added' = added
      /\ thread' = [thread EXCEPT ![t] = s]
  <2>1. thread' = [thread EXCEPT ![t].pc = "pushed"] /\ PushTransactionEntry(tx, last + 1) /\ added' = added
    BY <1>2, <1>x DEF Push
  <2>2. byNr' = Insert(byNr, last + 1, tx) /\ last' = last + 1
    BY <2>1 DEF PushTransactionEntry
  <2> QED
    BY <2>1, <2>2, <1>s DEF StoreInv
<1>5. /\ DOMAIN byNr' = 1..(last + 1) /\ byNr'[last + 1] = tx /\ \A n \in 1..last : byNr'[n] = byNr[n]
      /\ byNr' \in [1..(last + 1) -> Txs]
  <2>1. last + 1 \notin 1..last /\ 1..last \cup {last + 1} = 1..(last + 1)
    BY <1>2
  <2>2. byNr' = [j \in 1..(last + 1) |-> IF j = last + 1 THEN tx ELSE byNr[j]]
    BY <2>1, <1>2, <1>4 DEF Insert
  <2> QED
    BY <2>1, <2>2, <1>2
<1>6. Range(byNr') = Range(byNr) \cup {tx}
  <2>1. Range(byNr') = {byNr'[n] : n \in 1..(last + 1)} /\ Range(byNr) = {byNr[n] : n \in 1..last}
    BY <1>2, <1>5 DEF Range
  <2>2. \A n \in 1..(last + 1) : n = last + 1 \/ n \in 1..last
    BY <1>2
  <2>3. 1..last \subseteq 1..(last + 1) /\ last + 1 \in 1..(last + 1)
    BY <1>2
  <2> QED
    BY <2>1, <2>2, <2>3, <1>5
<1>7. StoreInv(t)'
  <2>1. thread' \in [{t} -> {thread'[t]}] /\ thread'[t] = s
    BY <1>4 DEF StoreInv
  <2>2. tx \notin added
    BY <1>2
  <2> QED
    BY <2>1, <2>2, <1>2, <1>3, <1>4, <1>5, <1>6 DEF StoreInv
<1>8. Log!Confirm(tx)
  <2>1. LogOfChain = byNr /\ byNr \in Seq(Txs) /\ Len(byNr) = last
    BY <1>2, LogIsByNr DEF LogOfChain
  <2>2. LogOfChain' = byNr' /\ byNr' \in Seq(Txs) /\ Len(byNr') = last + 1
    <3>1. PICK f : f = byNr'
      OBVIOUS
    <3>2. last + 1 \in Nat /\ DOMAIN f = 1..(last + 1) /\ f \in [1..(last + 1) -> Txs]
      BY <3>1, <1>2, <1>5
    <3>3. [n \in 1..Cardinality(DOMAIN f) |-> f[n]] = f /\ f \in Seq(Txs) /\ Len(f) = last + 1
      BY <3>2, LogIsByNr
    <3> QED
      BY <3>1, <3>3 DEF LogOfChain
  <2>3. byNr' = Append(byNr, tx)
    BY <2>1, <2>2, <1>2, <1>5
  <2>4. tx \notin {LogOfChain[n] : n \in DOMAIN LogOfChain}
    BY <2>1, <1>2 DEF Range
  <2>5. LogOfChain' = Append(LogOfChain, tx)
    BY <2>1, <2>2, <2>3
  <2> QED
    BY <2>4, <2>5, <1>4 DEF Log!Confirm, Log!Confirmed, LogOfChain
<1> QED
  BY <1>2, <1>7, <1>8

\* Success is reported for a transaction that the chain has.
LEMMA ReturnReports ==
    ASSUME NEW t, StoreInv(t), Return(t)
    PROVE  StoreInv(t)' /\ \E tx \in Txs : Log!Return(tx)
<1>x. PICK tx : tx = thread[t].tx
  OBVIOUS
<1>1. thread[t].pc = "pushed" /\ thread[t] \in AddStates
  BY AdderFields DEF Return
<1>2. /\ tx \in Txs /\ tx \in Range(byNr) \ added /\ last \in Nat
      /\ DOMAIN byNr = 1..last /\ byNr \in [1..last -> Txs] /\ added \subseteq Range(byNr)
  BY <1>1, <1>x DEF StoreInv, AddStates
<1>3. added' = added \cup {tx} /\ thread' = [thread EXCEPT ![t] = Idle] /\ UNCHANGED <<byNr, last>>
  BY <1>x DEF Return, chain
<1>4. StoreInv(t)'
  <2>1. thread' \in [{t} -> {thread'[t]}] /\ thread'[t] = Idle /\ Idle.pc = "idle"
    BY <1>3 DEF StoreInv, Idle
  <2> QED
    BY <2>1, <1>2, <1>3 DEF StoreInv
<1>5. Log!Return(tx)
  <2>1. LogOfChain = byNr
    BY <1>2, LogIsByNr DEF LogOfChain
  <2>2. tx \in {LogOfChain[n] : n \in DOMAIN LogOfChain} \ added
    BY <2>1, <1>2 DEF Range
  <2>3. LogOfChain' = LogOfChain
    BY <1>3 DEF LogOfChain
  <2> QED
    BY <2>2, <2>3, <1>3 DEF Log!Return, Log!Confirmed, LogOfChain
<1> QED
  BY <1>2, <1>4, <1>5

\* Every step of the only thread is one of the log, or none.
LEMMA StepImplements ==
    ASSUME NEW t, StoreInv(t), Step(t), Threads = {t}
    PROVE  StoreInv(t)' /\ [Log!Next]_(Log!vars)
<1>0. last \in Nat /\ DOMAIN byNr = 1..last /\ thread \in [{t} -> {thread[t]}] /\ Idle.pc = "idle"
  BY DEF StoreInv, Idle
<1>1. ASSUME NEW tx \in Txs, Call(t, tx) PROVE StoreInv(t)' /\ UNCHANGED Log!vars
  <2>s. PICK s : s = [pc |-> "called", tx |-> tx, nr |-> 0]
    OBVIOUS
  <2>1. /\ s \in AddStates /\ s.pc = "called" /\ s.tx \notin Range(byNr)
        /\ thread' = [thread EXCEPT ![t] = s] /\ UNCHANGED <<byNr, last, added>>
    BY <1>1, <2>s DEF Call, AddStates, chain
  <2> QED
    BY <2>1, QuietStep
<1>2. CASE ReadLast(t)
  <2>n. PICK n \in Nat : n = last + 1
    BY <1>0
  <2>s. PICK s : s = [thread[t] EXCEPT !.pc = "read", !.nr = n]
    OBVIOUS
  <2>1. thread[t].pc = "called" /\ thread[t] \in AddStates /\ thread[t].tx \notin Range(byNr)
    BY <1>2, AdderFields DEF ReadLast, StoreInv
  <2>2. s \in AddStates /\ s.pc = "read" /\ s.nr = last + 1 /\ s.tx = thread[t].tx
    BY <2>1, <2>s, <2>n DEF AddStates
  <2>3. thread' = [thread EXCEPT ![t] = s] /\ UNCHANGED <<byNr, last, added>>
    BY <1>2, <2>s, <2>n, <1>0 DEF ReadLast, chain
  <2> QED
    BY <2>1, <2>2, <2>3, QuietStep
<1>3. CASE Push(t)
  BY <1>3, PushConfirms DEF Log!Next
<1>4. CASE Refuse(t) \/ ForgetSorted(t)
  <2>1. thread' = [thread EXCEPT ![t] = Idle] /\ UNCHANGED <<byNr, last, added>>
    BY <1>4 DEF Refuse, ForgetSorted, chain
  <2> QED
    BY <2>1, <1>0, QuietStep
<1>5. CASE Return(t)
  BY <1>5, ReturnReports DEF Log!Next
<1>6. CASE GetSorted(t)
  <2>s. PICK s : s = [pc |-> IF dirty THEN "dirty" ELSE "got", there |-> DOMAIN byNr]
    OBVIOUS
  <2>1. s \in SortStates /\ s.pc \in {"dirty", "got"}
    BY <2>s, <1>0 DEF SortStates
  <2>2. thread' = [thread EXCEPT ![t] = s] /\ UNCHANGED <<byNr, last, added>>
    BY <1>6, <2>s DEF GetSorted, chain
  <2> QED
    BY <2>1, <2>2, QuietStep
<1>7. ASSUME NEW pc \in {"cleared", "got"}, thread[t].pc \in {"dirty", "cleared"},
             thread' = [thread EXCEPT ![t].pc = pc], UNCHANGED <<byNr, last, added>>
      PROVE  StoreInv(t)' /\ UNCHANGED Log!vars
  <2>s. PICK s : s = [thread[t] EXCEPT !.pc = pc]
    OBVIOUS
  <2>1. thread[t] \in SortStates
    BY <1>7, AdderFields
  <2>2. s \in SortStates /\ s.pc = pc
    BY <2>1, <2>s DEF SortStates
  <2>3. thread' = [thread EXCEPT ![t] = s]
    BY <1>7, <2>s, <1>0
  <2> QED
    BY <2>2, <2>3, <1>7, QuietStep
<1>8. CASE ClearSorted(t)
  BY <1>8, <1>7 DEF ClearSorted, chain
<1>9. CASE FillSorted(t)
  BY <1>9, <1>7 DEF FillSorted, chain
<1>10. CASE ReadSorted(t)
  <2>s. PICK s : s = [pc |-> "seen", there |-> thread[t].there, numbers |-> sorted]
    OBVIOUS
  <2>1. s.pc = "seen" /\ thread' = [thread EXCEPT ![t] = s] /\ UNCHANGED <<byNr, last, added>>
    BY <1>10, <2>s DEF ReadSorted, chain
  <2> QED
    BY <2>1, QuietStep
<1> QED
  BY <1>1, <1>2, <1>3, <1>4, <1>5, <1>6, <1>8, <1>9, <1>10 DEF Step

\* InMemory: with one caller at a time, whatever transactions there are and however many, the maps
\* implement the log a blockchain promises: numbers without gaps that keep their transaction, success
\* only for what was added, and once.
THEOREM ChainImplementsLog ==
    ASSUME NEW t, Threads = {t}
    PROVE  Spec => LogSpec
<1>1. Init => StoreInv(t) /\ Log!Init
  <2> SUFFICES ASSUME Init PROVE StoreInv(t) /\ Log!Init
    OBVIOUS
  <2>1. byNr = <<>> /\ last = 0 /\ added = {} /\ thread = [u \in {t} |-> Idle] /\ Idle.pc = "idle"
    BY DEF Init, Idle
  <2>2. last \in Nat /\ DOMAIN byNr = 1..last /\ byNr \in [1..last -> Txs]
    BY <2>1
  <2>3. StoreInv(t)
    BY <2>1, <2>2 DEF StoreInv
  <2>4. LogOfChain = byNr
    BY <2>2, LogIsByNr DEF LogOfChain
  <2> QED
    BY <2>1, <2>3, <2>4 DEF Log!Init, LogOfChain
<1>2. StoreInv(t) /\ [Next]_vars => StoreInv(t)' /\ [Log!Next]_(Log!vars)
  <2> SUFFICES ASSUME StoreInv(t), [Next]_vars PROVE StoreInv(t)' /\ [Log!Next]_(Log!vars)
    OBVIOUS
  <2>1. CASE Next
    BY <2>1, StepImplements DEF Next
  <2>2. CASE UNCHANGED vars
    BY <2>2 DEF vars, chain, StoreInv, Log!vars
  <2> QED
    BY <2>1, <2>2
<1> QED
  BY <1>1, <1>2, PTL DEF Spec, LogSpec, Log!Spec

-----------------------------------------------------------------------------
(* What is read agrees with the chain. *)

\* A dictionary has a key once.
Listed(d) == d \in Seq(Keys) /\ \A i, j \in 1..Len(d) : d[i] = d[j] => i = j

\* The keys of a transaction are in the dictionary before it is added.
DictInv(t) ==
    /\ Listed(dict)
    /\ thread[t].pc \in {"called", "read"} => thread[t].tx.keys \subseteq Range(dict)
    /\ \A n \in DOMAIN compact : compact[n].keys \subseteq Range(dict)

\* Numbers in the maps are numbers of the chain.
MapsInv ==
    /\ cleared = 0
    /\ maxNr \in 0..last /\ Range(anchors) \subseteq 1..last
    /\ involved \subseteq (1..Len(dict)) \X (1..last)
    /\ DOMAIN compact \subseteq 1..last /\ \A n \in DOMAIN compact : compact[n] \in Txs

\* Unless the flag says otherwise the sorted copy has the numbers of the chain, also for
\* the thread that is about to read it.
SortInv(t) ==
    /\ dirty \in BOOLEAN
    /\ mutex = IF thread[t].pc = "cleared" THEN t ELSE None
    /\ ~dirty => sorted = [i \in 1..last |-> i]
    /\ thread[t].pc \in {"dirty", "cleared"} => dirty
    /\ thread[t].pc = "got" => ~dirty
    /\ thread[t].pc \in {"dirty", "cleared", "got"} => thread[t].there = 1..last

AddressData == [type : AddressTypes, nrs : SUBSET Nat, lastBalance : Nat]

\* The numbers of the transactions that set the type of a key, and of those that change its
\* balance from one of them on.
Settings(c, k) == {n \in DOMAIN c : Sets(c[n], k)}
Payments(c, k, first) == {n \in DOMAIN c : k \in c[n].balances /\ first <= n}

\* The data of an address are those of the first transaction that set its type, and of the last
\* one that changed its balance.
AddressOf(c, k, data, first) ==
    /\ first \in Settings(c, k) /\ \A n \in Settings(c, k) : first <= n
    /\ <<k, data.type>> \in Range(c[first].sets)
    /\ \/ Payments(c, k, first) = {} /\ data.lastBalance = 0
       \/ /\ data.lastBalance \in Payments(c, k, first)
          /\ \A n \in Payments(c, k, first) : n <= data.lastBalance

AddressInv ==
    /\ DOMAIN addresses \subseteq 1..Len(dict) /\ addresses \in [DOMAIN addresses -> AddressData]
    /\ \A i \in 1..Len(dict) \ DOMAIN addresses : Settings(compact, dict[i]) = {}
    /\ \A i \in DOMAIN addresses : \E first \in DOMAIN compact : AddressOf(compact, dict[i], addresses[i], first)

ReadsInv(t) == StoreInv(t) /\ DictInv(t) /\ MapsInv /\ SortInv(t) /\ AddressInv /\ SortedComplete

\* A finite set as a sequence has each of its elements once.
LEMMA ListedOnce ==
    ASSUME NEW S, IsFiniteSet(S)
    PROVE  /\ SetToSeq(S) \in [1..Cardinality(S) -> S] /\ Cardinality(S) \in Nat
           /\ \A i, j \in 1..Cardinality(S) : SetToSeq(S)[i] = SetToSeq(S)[j] => i = j
           /\ \A x \in S : \E i \in 1..Cardinality(S) : SetToSeq(S)[i] = x
<1>1. Cardinality(S) \in Nat /\ ExistsBijection(1..Cardinality(S), S)
  BY FS_CardinalityType
<1>n. PICK n \in Nat : n = Cardinality(S)
  BY <1>1
<1>2. PICK g \in [1..n -> S] : IsInjective(g)
  BY <1>1, <1>n DEF ExistsBijection, Bijection, Injection
<1>f. PICK f : f = SetToSeq(S)
  OBVIOUS
<1>3. f \in [1..n -> S] /\ IsInjective(f)
  BY <1>2, <1>f, <1>n DEF SetToSeq
<1>4. f \in Injection(1..n, S)
  BY <1>3 DEF Injection
<1>5. Cardinality(1..n) = n /\ IsFiniteSet(1..n)
  BY FS_Interval
<1>6. f \in Surjection(1..n, S)
  BY <1>4, <1>5, <1>n, FS_Injection
<1> QED
  BY <1>1, <1>n, <1>f, <1>3, <1>6 DEF IsInjective, Surjection

\* The numbers of a chain without gaps, in order.
LEMMA InOrderIs ==
    ASSUME NEW n \in Nat
    PROVE  InOrder(1..n) = [i \in 1..n |-> i]
<1>1. Cardinality(1..n) = n
  BY FS_Interval
<1>2. \A x \in 1..n : Cardinality({m \in 1..n : m <= x}) = x
  <2> TAKE x \in 1..n
  <2>1. {m \in 1..n : m <= x} = 1..x
    OBVIOUS
  <2>2. Cardinality(1..x) = x
    BY FS_Interval
  <2> QED
    BY <2>1, <2>2
<1>3. \A i \in 1..n : (CHOOSE x \in 1..n : Cardinality({m \in 1..n : m <= x}) = i) = i
  BY <1>2
<1> QED
  BY <1>1, <1>3 DEF InOrder

\* The index of a key that is in the dictionary, and of one that is not.
LEMMA IndexOfKey ==
    ASSUME NEW d, Listed(d)
    PROVE  /\ Range(d) = {d[i] : i \in 1..Len(d)} /\ Len(d) \in Nat /\ DOMAIN d = 1..Len(d)
           /\ \A i \in 1..Len(d) : GetIndexForData(d, d[i]) = i
           /\ \A k : k \notin Range(d) => GetIndexForData(d, k) = 0
<1>1. DOMAIN d = 1..Len(d) /\ Len(d) \in Nat
  BY DEF Listed
<1> QED
  BY <1>1 DEF Listed, GetIndexForData, Range

\* Keys that are not yet in the dictionary get the indices after its last.
LEMMA DictGrows ==
    ASSUME NEW d, Listed(d), NEW S \in SUBSET Keys, IsFiniteSet(S)
    PROVE  /\ Listed(GetOrAdd(d, S)) /\ Len(d) <= Len(GetOrAdd(d, S))
           /\ \A i \in 1..Len(d) : GetOrAdd(d, S)[i] = d[i]
           /\ Range(GetOrAdd(d, S)) = Range(d) \cup S
<1>N. PICK N : N = {k \in S : GetIndexForData(d, k) = 0}
  OBVIOUS
<1>1. N = S \ Range(d)
  BY <1>N, IndexOfKey
<1>2. IsFiniteSet(N)
  <2>1. N \in SUBSET S
    BY <1>1
  <2> QED
    BY <2>1, FS_Subset
<1>s. PICK s : s = SetToSeq(N)
  OBVIOUS
<1>n. PICK n : n = Cardinality(N)
  OBVIOUS
<1>3. /\ s \in [1..n -> N] /\ n \in Nat
      /\ \A i, j \in 1..n : s[i] = s[j] => i = j
      /\ \A x \in N : \E i \in 1..n : s[i] = x
  BY <1>2, <1>s, <1>n, ListedOnce
<1>e. PICK e : e = d \o s
  OBVIOUS
<1>m. PICK m \in Nat : m = Len(d) /\ DOMAIN d = 1..m
  BY IndexOfKey
<1>4. s \in Seq(Keys) /\ Len(s) = n /\ d \in Seq(Keys)
  BY <1>1, <1>3 DEF Listed
<1>5. /\ e \in Seq(Keys) /\ Len(e) = m + n
      /\ \A i \in 1..(m + n) : e[i] = IF i <= m THEN d[i] ELSE s[i - m]
  BY <1>4, <1>e, <1>m
<1>6. \A i \in 1..m : e[i] = d[i] /\ d[i] \in Range(d)
  BY <1>5, <1>m, <1>3, IndexOfKey
<1>7. \A i \in (m + 1)..(m + n) : e[i] = s[i - m] /\ i - m \in 1..n /\ s[i - m] \in N
  BY <1>5, <1>3, <1>m
<1>8. \A i, j \in 1..(m + n) : e[i] = e[j] => i = j
  <2> SUFFICES ASSUME NEW i \in 1..(m + n), NEW j \in 1..(m + n), e[i] = e[j] PROVE i = j
    OBVIOUS
  <2>1. i \in 1..m \/ i \in (m + 1)..(m + n)
    BY <1>3
  <2>2. j \in 1..m \/ j \in (m + 1)..(m + n)
    BY <1>3
  <2>3. CASE i \in 1..m /\ j \in 1..m
    BY <2>3, <1>6, <1>m DEF Listed
  <2>4. CASE i \in (m + 1)..(m + n) /\ j \in (m + 1)..(m + n)
    <3>1. i - m = j - m
      BY <2>4, <1>7, <1>3
    <3> QED
      BY <3>1, <1>3, <1>m
  <2> QED
    BY <2>1, <2>2, <2>3, <2>4, <1>6, <1>7, <1>1
<1>9. Listed(e) /\ Len(d) <= Len(e)
  BY <1>5, <1>8, <1>m, <1>3 DEF Listed
<1>10. Range(e) = Range(d) \cup S
  <2>1. Range(e) = {e[i] : i \in 1..(m + n)} /\ Range(d) = {d[i] : i \in 1..m}
    BY <1>9, <1>5, <1>m, IndexOfKey
  <2>2. \A i \in 1..(m + n) : i \in 1..m \/ i \in (m + 1)..(m + n)
    BY <1>3
  <2>3. Range(e) \subseteq Range(d) \cup S
    BY <2>1, <2>2, <1>6, <1>7, <1>1
  <2>4. \A i \in 1..m : i \in 1..(m + n)
    BY <1>3
  <2>5. Range(d) \subseteq Range(e)
    BY <2>1, <2>4, <1>6
  <2>6. ASSUME NEW x \in N PROVE x \in Range(e)
    <3>1. PICK i \in 1..n : s[i] = x
      BY <1>3
    <3>2. m + i \in (m + 1)..(m + n) /\ m + i - m = i /\ m + i \in 1..(m + n)
      BY <1>3
    <3>3. e[m + i] = x
      BY <3>1, <3>2, <1>7
    <3> QED
      BY <3>2, <3>3, <2>1
  <2> QED
    BY <2>3, <2>5, <2>6, <1>1
<1> QED
  BY <1>9, <1>10, <1>6, <1>m, <1>e, <1>s, <1>N DEF GetOrAdd

\* A dictionary has as many keys as entries.
LEMMA DictCounts ==
    ASSUME NEW d, Listed(d)
    PROVE  Len(d) = Cardinality(Range(d)) /\ Range(d) \subseteq Keys
<1>m. PICK m \in Nat : m = Len(d) /\ DOMAIN d = 1..m
  BY IndexOfKey
<1>1. d \in [1..m -> Keys] /\ Range(d) = {d[i] : i \in 1..m}
  BY <1>m, IndexOfKey DEF Listed
<1>2. d \in [1..m -> Range(d)] /\ \A i, j \in DOMAIN d : d[i] = d[j] => i = j
  BY <1>m, <1>1 DEF Listed
<1>3. d \in Bijection(1..m, Range(d))
  BY <1>1, <1>2, <1>m DEF Bijection, Injection, Surjection, IsInjective
<1>4. ExistsBijection(1..m, Range(d))
  BY <1>3 DEF ExistsBijection
<1>5. Cardinality(Range(d)) = m
  BY <1>4, FS_CountingElements
<1> QED
  BY <1>5, <1>m, <1>1

AddressMap(D, m) == m \in [D -> AddressData]

NrAdded(D, m, i, type, r) ==
    \/ i \in D /\ m[i].type # type /\ r = [map |-> m, ok |-> FALSE]
    \/ \E f \in [D \cup {i} -> AddressData] :
          /\ r = [map |-> f, ok |-> TRUE]
          /\ i \in D => m[i].type = type
          /\ f[i].type = type /\ f[i].lastBalance = IF i \in D THEN m[i].lastBalance ELSE 0
          /\ \A j \in D \ {i} : f[j] = m[j]

\* addTransactionNrForIndex: it throws on another type and changes nothing, or the address has the type.
LEMMA NrForIndex ==
    ASSUME NEW D, NEW m, AddressMap(D, m), NEW i, NEW nr \in Nat, NEW type \in AddressTypes,
           NEW r, r = AddTransactionNrForIndex([map |-> m, ok |-> TRUE], i, nr, type)
    PROVE  NrAdded(D, m, i, type, r)
<1>a. PICK a : a = [map |-> m, ok |-> TRUE]
  OBVIOUS
<1>r. r = AddTransactionNrForIndex(a, i, nr, type)
  BY <1>a
<1>0. a.ok /\ a.map = m /\ DOMAIN m = D /\ m \in [D -> AddressData]
  BY <1>a DEF AddressMap
<1>1. CASE i \notin D
  <2>v. PICK v : v = [type |-> type, nrs |-> {nr}, lastBalance |-> 0]
    OBVIOUS
  <2>1. v \in AddressData /\ v.type = type /\ v.lastBalance = 0
    BY <2>v DEF AddressData
  <2>f. PICK f : f = [j \in D \cup {i} |-> IF j = i THEN v ELSE m[j]]
    OBVIOUS
  <2>2. r = [a EXCEPT !.map = Insert(a.map, i, v)]
    BY <1>0, <1>1, <1>r, <2>v DEF AddTransactionNrForIndex
  <2>3. Insert(m, i, v) = f
    BY <1>0, <1>1, <2>f DEF Insert
  <2>4. r = [map |-> f, ok |-> TRUE]
    BY <2>2, <2>3, <1>0, <1>a
  <2>5. f \in [D \cup {i} -> AddressData] /\ f[i] = v /\ \A j \in D \ {i} : f[j] = m[j]
    BY <2>f, <2>1, <1>0
  <2> QED
    BY <2>1, <2>4, <2>5, <1>1 DEF NrAdded
<1>2. CASE i \in D /\ m[i].type # type
  BY <1>0, <1>2, <1>a, <1>r DEF AddTransactionNrForIndex, NrAdded
<1>3. CASE i \in D /\ m[i].type = type
  <2>v. PICK v : v = [m[i] EXCEPT !.nrs = @ \cup {nr}]
    OBVIOUS
  <2>0. m[i] \in AddressData
    BY <1>0, <1>3
  <2>1. v \in AddressData /\ v.type = type /\ v.lastBalance = m[i].lastBalance
    BY <2>v, <2>0, <1>3 DEF AddressData
  <2>f. PICK f : f = [m EXCEPT ![i] = v]
    OBVIOUS
  <2>2. r = [a EXCEPT !.map[i].nrs = @ \cup {nr}]
    BY <1>0, <1>3, <1>r DEF AddTransactionNrForIndex
  <2>4. r = [map |-> f, ok |-> TRUE]
    BY <2>2, <2>f, <2>v, <1>a, <1>0
  <2>5. f \in [D \cup {i} -> AddressData] /\ f[i] = v /\ \A j \in D \ {i} : f[j] = m[j]
    BY <2>f, <2>1, <1>0, <1>3
  <2> QED
    BY <2>1, <2>4, <2>5, <1>3 DEF NrAdded
<1> QED
  BY <1>1, <1>2, <1>3

\* The type an address of the index has was set by a transaction, and so is that of an account.
LEMMA AccountType ==
    ASSUME NEW t, ReadsInv(t), OneTypePerAccount, NEW tx \in Txs, 2 \in DOMAIN tx.sets,
           NEW i \in DOMAIN addresses, dict[i] = tx.sets[2][1]
    PROVE  addresses[i].type = tx.sets[2][2]
<1>1. PICK first \in DOMAIN compact : AddressOf(compact, dict[i], addresses[i], first)
  BY DEF ReadsInv, AddressInv
<1>2. compact[first] \in Txs
  BY <1>1 DEF ReadsInv, MapsInv
<1>s. PICK s : s = compact[first].sets
  OBVIOUS
<1>3. <<dict[i], addresses[i].type>> \in Range(s)
  BY <1>1, <1>s DEF AddressOf
<1>4. PICK j \in DOMAIN s : s[j] = <<dict[i], addresses[i].type>>
  BY <1>3 DEF Range
<1>5. s[j][1] = tx.sets[2][1] /\ s[j][2] = addresses[i].type
  BY <1>4
<1> QED
  BY <1>2, <1>4, <1>5, <1>s DEF OneTypePerAccount

\* AddressIndex::addTransaction: nothing is changed if a type changes; else what the transaction sets
\* is known, with the first type that was set, and so is the number of the last change of balance.
LEMMA AddressesChange ==
    ASSUME NEW t, ReadsInv(t), OneTypePerAccount, NEW tx \in Txs, tx.keys \subseteq Range(dict), NEW nr \in Nat
    PROVE  LET r == AddTransaction(addresses, tx, nr, dict)
           IN  \/ ~r.ok /\ r.map = addresses
               \/ /\ r.ok /\ r.map \in [DOMAIN r.map -> AddressData]
                  /\ DOMAIN r.map = DOMAIN addresses \cup {i \in 1..Len(dict) : Sets(tx, dict[i])}
                  /\ \A i \in DOMAIN addresses :
                        /\ r.map[i].type = addresses[i].type
                        /\ r.map[i].lastBalance = IF dict[i] \in tx.balances THEN nr ELSE addresses[i].lastBalance
                  /\ \A i \in DOMAIN r.map \ DOMAIN addresses :
                        /\ <<dict[i], r.map[i].type>> \in Range(tx.sets)
                        /\ r.map[i].lastBalance = IF dict[i] \in tx.balances THEN nr ELSE 0
<1>r. PICK r : r = AddTransaction(addresses, tx, nr, dict)
  OBVIOUS
<1>D. PICK D : D = DOMAIN addresses
  OBVIOUS
<1>m. PICK m : m = addresses
  OBVIOUS
<1>1. D \subseteq 1..Len(dict) /\ m \in [D -> AddressData] /\ Listed(dict)
  BY <1>D, <1>m DEF ReadsInv, AddressInv, DictInv
<1>2. /\ Range(dict) = {dict[i] : i \in 1..Len(dict)} /\ Len(dict) \in Nat
      /\ \A i \in 1..Len(dict) : GetIndexForData(dict, dict[i]) = i
  BY <1>1, IndexOfKey
<1>s. PICK s : s = tx.sets
  OBVIOUS
<1>3. /\ s \in Seq(Keys \X AddressTypes) /\ Len(s) <= 2 /\ tx.balances \subseteq tx.keys
      /\ \A i \in DOMAIN s : s[i][1] \in tx.keys
  BY <1>s, TxsAssumption DEF Tx
<1>4. \A i \in DOMAIN s : s[i] = <<s[i][1], s[i][2]>> /\ s[i][2] \in AddressTypes /\ i \in {1, 2}
  BY <1>3
<1>5. (2 \in DOMAIN s => 1 \in DOMAIN s) /\ \A i \in DOMAIN s : i = 1 \/ i = 2
  BY <1>3
<1>x. PICK x \in [DOMAIN s -> 1..Len(dict)] : \A i \in DOMAIN s : dict[x[i]] = s[i][1] /\ GetIndexForData(dict, s[i][1]) = x[i]
  <2>1. \A i \in DOMAIN s : GetIndexForData(dict, s[i][1]) \in 1..Len(dict) /\ dict[GetIndexForData(dict, s[i][1])] = s[i][1]
    BY <1>2, <1>3
  <2>2. [i \in DOMAIN s |-> GetIndexForData(dict, s[i][1])] \in [DOMAIN s -> 1..Len(dict)]
    BY <2>1
  <2> QED
    BY <2>1, <2>2
<1> DEFINE set(a, i) == IF i \notin DOMAIN tx.sets THEN a
                        ELSE AddTransactionNrForIndex(a, GetIndexForData(dict, tx.sets[i][1]), nr, tx.sets[i][2])
<1>a. PICK a : a = set(set([map |-> m, ok |-> TRUE], 1), 2)
  OBVIOUS
<1>6. \/ a = [map |-> m, ok |-> FALSE]
      \/ \E f \in [D \cup {x[i] : i \in DOMAIN s} -> AddressData] :
            /\ a = [map |-> f, ok |-> TRUE]
            /\ \A i \in D : f[i].type = m[i].type /\ f[i].lastBalance = m[i].lastBalance
            /\ \A i \in DOMAIN s : x[i] \notin D => <<dict[x[i]], f[x[i]].type>> \in Range(s) /\ f[x[i]].lastBalance = 0
  <2>0. \A i \in DOMAIN s : <<s[i][1], s[i][2]>> \in Range(s)
    BY <1>4 DEF Range
  <2>1. CASE 1 \notin DOMAIN s
    <3>1. DOMAIN s = {} /\ 2 \notin DOMAIN s /\ {x[i] : i \in DOMAIN s} = {}
      BY <2>1, <1>5
    <3>2. a = [map |-> m, ok |-> TRUE]
      BY <3>1, <2>1, <1>a, <1>s
    <3> QED
      BY <3>1, <3>2, <1>1
  <2>2. CASE 1 \in DOMAIN s
    <3>b. PICK b : b = AddTransactionNrForIndex([map |-> m, ok |-> TRUE], x[1], nr, s[1][2])
      OBVIOUS
    <3>1. a = IF 2 \notin DOMAIN s THEN b ELSE AddTransactionNrForIndex(b, x[2], nr, s[2][2])
      BY <2>2, <3>b, <1>a, <1>s, <1>x
    <3>2. CASE b = [map |-> m, ok |-> FALSE]
      <4>1. ~b.ok
        BY <3>2
      <4> QED
        BY <4>1, <3>1, <3>2 DEF AddTransactionNrForIndex
    <3>3. CASE b # [map |-> m, ok |-> FALSE]
      <4>1. PICK f \in [D \cup {x[1]} -> AddressData] :
               /\ b = [map |-> f, ok |-> TRUE]
               /\ x[1] \in D => m[x[1]].type = s[1][2]
               /\ f[x[1]].type = s[1][2] /\ f[x[1]].lastBalance = IF x[1] \in D THEN m[x[1]].lastBalance ELSE 0
               /\ \A j \in D \ {x[1]} : f[j] = m[j]
        <5>1. PICK type \in AddressTypes : type = s[1][2]
          BY <2>2, <1>4
        <5>2. PICK i : i = x[1]
          OBVIOUS
        <5>3. b = AddTransactionNrForIndex([map |-> m, ok |-> TRUE], i, nr, type)
          BY <5>1, <5>2, <3>b
        <5>4. AddressMap(D, m)
          BY <1>1 DEF AddressMap
        <5>5. NrAdded(D, m, i, type, b)
          BY <5>3, <5>4, NrForIndex, Zenon
        <5> QED
          BY <5>1, <5>2, <5>5, <3>3 DEF NrAdded
      <4>2. \A i \in D : f[i].type = m[i].type /\ f[i].lastBalance = m[i].lastBalance
        BY <4>1
      <4>3. CASE 2 \notin DOMAIN s
        <5>1. DOMAIN s = {1}
          BY <4>3, <2>2, <1>5
        <5>2. {x[i] : i \in DOMAIN s} = {x[1]}
          BY <5>1
        <5>3. a = b
          BY <4>3, <3>1
        <5>4. \A i \in DOMAIN s : x[i] \notin D => <<dict[x[i]], f[x[i]].type>> \in Range(s) /\ f[x[i]].lastBalance = 0
          BY <5>1, <4>1, <2>0, <1>x
        <5> QED
          BY <5>2, <5>3, <5>4, <4>1, <4>2
      <4>4. CASE 2 \in DOMAIN s
        <5>1. DOMAIN s = {1, 2}
          BY <4>4, <2>2, <1>5
        <5>2. {x[i] : i \in DOMAIN s} = {x[1], x[2]}
          BY <5>1
        <5>E. PICK E : E = D \cup {x[1]}
          OBVIOUS
        <5>3. x[2] \in E => f[x[2]].type = s[2][2]
          <6>1. CASE x[2] \in D
            <7>1. m[x[2]].type = s[2][2]
              BY <6>1, <4>4, <1>D, <1>m, <1>s, <1>x, AccountType
            <7> QED
              BY <7>1, <6>1, <4>2
          <6>2. CASE x[2] = x[1]
            <7>1. s[1][1] = s[2][1]
              BY <6>2, <5>1, <1>x
            <7>2. s[1][2] = s[2][2]
              BY <7>1, <5>1, <1>s DEF OneTypePerAccount
            <7> QED
              BY <6>2, <7>2, <4>1
          <6> QED
            BY <6>1, <6>2, <5>E
        <5>4. PICK g \in [E \cup {x[2]} -> AddressData] :
                 /\ a = [map |-> g, ok |-> TRUE]
                 /\ g[x[2]].type = s[2][2] /\ g[x[2]].lastBalance = IF x[2] \in E THEN f[x[2]].lastBalance ELSE 0
                 /\ \A j \in E \ {x[2]} : g[j] = f[j]
          <6>1. PICK type \in AddressTypes : type = s[2][2]
            BY <4>4, <1>4
          <6>2. PICK i : i = x[2]
            OBVIOUS
          <6>3. a = AddTransactionNrForIndex([map |-> f, ok |-> TRUE], i, nr, type)
            BY <6>1, <6>2, <3>1, <4>1, <4>4
          <6>4. AddressMap(E, f)
            BY <4>1, <5>E DEF AddressMap
          <6>5. NrAdded(E, f, i, type, a)
            BY <6>3, <6>4, NrForIndex, Zenon
          <6> QED
            BY <6>1, <6>2, <6>5, <5>3 DEF NrAdded
        <5>5. \A i \in E : g[i].type = f[i].type /\ g[i].lastBalance = f[i].lastBalance
          BY <5>3, <5>4
        <5>6. \A i \in D : g[i].type = m[i].type /\ g[i].lastBalance = m[i].lastBalance
          BY <5>5, <5>E, <4>2
        <5>7. x[1] \notin D => <<dict[x[1]], g[x[1]].type>> \in Range(s) /\ g[x[1]].lastBalance = 0
          BY <5>5, <5>E, <4>1, <2>0, <2>2, <1>x
        <5>8. x[2] \notin D => <<dict[x[2]], g[x[2]].type>> \in Range(s) /\ g[x[2]].lastBalance = 0
          <6>1. x[2] \notin D => f[x[2]].lastBalance = 0 \/ x[2] \notin E
            BY <4>1, <5>E
          <6> QED
            BY <6>1, <5>4, <4>4, <2>0, <1>x
        <5>9. g \in [D \cup {x[i] : i \in DOMAIN s} -> AddressData]
          <6>1. E \cup {x[2]} = D \cup {x[i] : i \in DOMAIN s}
            BY <5>2, <5>E
          <6> QED
            BY <6>1, <5>4
        <5> QED
          BY <5>1, <5>4, <5>6, <5>7, <5>8, <5>9
      <4> QED
        BY <4>3, <4>4
    <3> QED
      BY <3>2, <3>3
  <2> QED
    BY <2>1, <2>2
<1>7. r = IF ~a.ok THEN a
          ELSE [a EXCEPT !.map = [i \in DOMAIN a.map |->
                  IF i \in {GetIndexForData(dict, k) : k \in tx.balances}
                  THEN [a.map[i] EXCEPT !.lastBalance = nr] ELSE a.map[i]]]
  BY <1>r, <1>a, <1>m DEF AddTransaction
<1> HIDE DEF set
<1>8. CASE a = [map |-> m, ok |-> FALSE]
  BY <1>7, <1>8, <1>m, <1>r
<1>9. ASSUME NEW f \in [D \cup {x[i] : i \in DOMAIN s} -> AddressData],
             a = [map |-> f, ok |-> TRUE],
             \A i \in D : f[i].type = m[i].type /\ f[i].lastBalance = m[i].lastBalance,
             \A i \in DOMAIN s : x[i] \notin D => <<dict[x[i]], f[x[i]].type>> \in Range(s) /\ f[x[i]].lastBalance = 0
      PROVE  /\ r.ok /\ r.map \in [DOMAIN r.map -> AddressData]
             /\ DOMAIN r.map = DOMAIN addresses \cup {i \in 1..Len(dict) : Sets(tx, dict[i])}
             /\ \A i \in DOMAIN addresses :
                   /\ r.map[i].type = addresses[i].type
                   /\ r.map[i].lastBalance = IF dict[i] \in tx.balances THEN nr ELSE addresses[i].lastBalance
             /\ \A i \in DOMAIN r.map \ DOMAIN addresses :
                   /\ <<dict[i], r.map[i].type>> \in Range(tx.sets)
                   /\ r.map[i].lastBalance = IF dict[i] \in tx.balances THEN nr ELSE 0
  <2>F. PICK F : F = D \cup {x[i] : i \in DOMAIN s}
    OBVIOUS
  <2>C. PICK C : C = {GetIndexForData(dict, k) : k \in tx.balances}
    OBVIOUS
  <2>1. \A i \in 1..Len(dict) : i \in C <=> dict[i] \in tx.balances
    BY <2>C, <1>2, <1>3
  <2>2. F \subseteq 1..Len(dict)
    BY <2>F, <1>1, <1>x
  <2>g. PICK g : g = [i \in F |-> IF i \in C THEN [f[i] EXCEPT !.lastBalance = nr] ELSE f[i]]
    OBVIOUS
  <2>3. r = [map |-> g, ok |-> TRUE]
    <3>1. a.ok /\ a.map = f /\ DOMAIN f = F
      BY <1>9, <2>F
    <3> QED
      BY <3>1, <1>7, <1>9, <2>g, <2>C
  <2>4. r.ok /\ r.map = g /\ DOMAIN g = F
    BY <2>3, <2>g
  <2>5. \A i \in F : g[i] \in AddressData /\ g[i].type = f[i].type
                     /\ g[i].lastBalance = IF dict[i] \in tx.balances THEN nr ELSE f[i].lastBalance
    <3> TAKE i \in F
    <3>1. f[i] \in AddressData /\ (i \in C <=> dict[i] \in tx.balances)
      BY <1>9, <2>F, <2>1, <2>2
    <3>2. g[i] = IF i \in C THEN [f[i] EXCEPT !.lastBalance = nr] ELSE f[i]
      BY <2>g
    <3> QED
      BY <3>1, <3>2 DEF AddressData
  <2>6. \A i \in 1..Len(dict) : Sets(tx, dict[i]) <=> i \in {x[j] : j \in DOMAIN s}
    <3> TAKE i \in 1..Len(dict)
    <3>1. ASSUME NEW j \in DOMAIN s, s[j][1] = dict[i] PROVE i = x[j]
      BY <3>1, <1>x, <1>2
    <3>2. \A j \in DOMAIN s : x[j] = i => s[j][1] = dict[i]
      BY <1>x
    <3> QED
      BY <3>1, <3>2, <1>s DEF Sets
  <2>7. F = DOMAIN addresses \cup {i \in 1..Len(dict) : Sets(tx, dict[i])}
    <3>1. {i \in 1..Len(dict) : Sets(tx, dict[i])} = {x[j] : j \in DOMAIN s}
      BY <2>6, <1>x
    <3> QED
      BY <3>1, <2>F, <1>D
  <2>8. g \in [F -> AddressData]
    BY <2>5, <2>g
  <2>9. ASSUME NEW i \in D
        PROVE  g[i].type = m[i].type /\ g[i].lastBalance = IF dict[i] \in tx.balances THEN nr ELSE m[i].lastBalance
    <3>1. i \in F
      BY <2>F
    <3> QED
      BY <3>1, <2>5, <1>9
  <2>10. ASSUME NEW i \in F \ D
         PROVE  <<dict[i], g[i].type>> \in Range(s) /\ g[i].lastBalance = IF dict[i] \in tx.balances THEN nr ELSE 0
    <3>1. PICK j \in DOMAIN s : i = x[j]
      BY <2>F, <2>10
    <3>2. <<dict[i], f[i].type>> \in Range(s) /\ f[i].lastBalance = 0
      BY <3>1, <1>9, <2>10
    <3> QED
      BY <3>2, <2>5, <2>10
  <2> QED
    BY <2>4, <2>7, <2>8, <2>9, <2>10, <1>D, <1>m, <1>s
<1> QED
  <2>1. CASE \E f \in [D \cup {x[i] : i \in DOMAIN s} -> AddressData] :
            /\ a = [map |-> f, ok |-> TRUE]
            /\ \A i \in D : f[i].type = m[i].type /\ f[i].lastBalance = m[i].lastBalance
            /\ \A i \in DOMAIN s : x[i] \notin D => <<dict[x[i]], f[x[i]].type>> \in Range(s) /\ f[x[i]].lastBalance = 0
    BY <2>1, <1>9, <1>r, Zenon
  <2>2. CASE ~r.ok /\ r.map = addresses
    BY <2>2, <1>r
  <2> QED
    BY <2>1, <2>2, <1>6, <1>8, <1>7, <1>m

\* The numbers of compact copies are below the next one.
Below(c, nr) == DOMAIN c \subseteq 1..(nr - 1)

\* What a key's transactions are when a copy is added behind all others.
WithCopy(c, nr, tx, k, d) ==
    /\ DOMAIN d = DOMAIN c \cup {nr} /\ d[nr] = tx
    /\ \A n \in DOMAIN c : d[n] = c[n] /\ n \in 1..nr /\ n < nr
    /\ Settings(d, k) = IF Sets(tx, k) THEN Settings(c, k) \cup {nr} ELSE Settings(c, k)
    /\ \A l \in 1..nr : Payments(d, k, l) = IF k \in tx.balances THEN Payments(c, k, l) \cup {nr} ELSE Payments(c, k, l)
    /\ Payments(c, k, nr) = {}

\* A compact copy is added behind all others.
LEMMA CopyAdded ==
    ASSUME NEW c, NEW nr \in Nat, Below(c, nr), NEW tx, NEW k, NEW d, d = Insert(c, nr, tx)
    PROVE  WithCopy(c, nr, tx, k, d)
<1>1. \A n \in DOMAIN c : n \in 1..nr /\ n < nr
  BY DEF Below
<1>2. nr \notin DOMAIN c
  BY <1>1
<1>3. d = [n \in DOMAIN c \cup {nr} |-> IF n = nr THEN tx ELSE c[n]]
  BY <1>2 DEF Insert
<1>4. DOMAIN d = DOMAIN c \cup {nr} /\ d[nr] = tx /\ \A n \in DOMAIN c : d[n] = c[n]
  BY <1>2, <1>3
<1>5. Settings(d, k) = IF Sets(tx, k) THEN Settings(c, k) \cup {nr} ELSE Settings(c, k)
  BY <1>4 DEF Settings
<1>6. ASSUME NEW l \in 1..nr
      PROVE  Payments(d, k, l) = IF k \in tx.balances THEN Payments(c, k, l) \cup {nr} ELSE Payments(c, k, l)
  BY <1>4 DEF Payments
<1>7. Payments(c, k, nr) = {}
  BY <1>1 DEF Payments
<1> QED
  BY <1>1, <1>4, <1>5, <1>6, <1>7 DEF WithCopy

\* With the copy of a transaction added, the data of an address that was known are still what the
\* chain says, with the new number if the balance changes.
LEMMA KnownAddress ==
    ASSUME NEW c, NEW nr \in Nat, Below(c, nr), NEW tx, NEW k, NEW a, NEW b,
           NEW first \in DOMAIN c, AddressOf(c, k, a, first),
           b.type = a.type, b.lastBalance = IF k \in tx.balances THEN nr ELSE a.lastBalance
    PROVE  AddressOf(Insert(c, nr, tx), k, b, first) /\ first \in DOMAIN Insert(c, nr, tx)
<1>d. PICK d : d = Insert(c, nr, tx)
  OBVIOUS
<1>0. WithCopy(c, nr, tx, k, d)
  BY <1>d, CopyAdded, Zenon
<1>1. /\ DOMAIN d = DOMAIN c \cup {nr} /\ d[nr] = tx
      /\ \A n \in DOMAIN c : d[n] = c[n] /\ n \in 1..nr /\ n < nr
      /\ Settings(d, k) = IF Sets(tx, k) THEN Settings(c, k) \cup {nr} ELSE Settings(c, k)
      /\ \A l \in 1..nr : Payments(d, k, l) = IF k \in tx.balances THEN Payments(c, k, l) \cup {nr} ELSE Payments(c, k, l)
  BY <1>0 DEF WithCopy
<1>2. first \in 1..nr /\ first < nr /\ d[first] = c[first] /\ first \in DOMAIN d
  BY <1>1
<1>3. Payments(d, k, first) = IF k \in tx.balances THEN Payments(c, k, first) \cup {nr} ELSE Payments(c, k, first)
  BY <1>1, <1>2
<1>4. \A n \in Payments(c, k, first) : n \in Nat /\ n < nr
  BY <1>1 DEF Payments
<1>5. first \in Settings(d, k) /\ \A n \in Settings(d, k) : first <= n
  BY <1>1, <1>2 DEF AddressOf
<1>6. <<k, b.type>> \in Range(d[first].sets)
  BY <1>2 DEF AddressOf
<1>7. \/ Payments(d, k, first) = {} /\ b.lastBalance = 0
      \/ b.lastBalance \in Payments(d, k, first) /\ \A n \in Payments(d, k, first) : n <= b.lastBalance
  <2>1. CASE k \in tx.balances
    BY <2>1, <1>3, <1>4
  <2>2. CASE k \notin tx.balances
    BY <2>2, <1>3 DEF AddressOf
  <2> QED
    BY <2>1, <2>2
<1> QED
  BY <1>2, <1>5, <1>6, <1>7, <1>d DEF AddressOf

\* And those of an address that this transaction is the first to set.
LEMMA NewAddress ==
    ASSUME NEW c, NEW nr \in Nat, nr > 0, Below(c, nr), NEW tx, NEW k, NEW b,
           Settings(c, k) = {}, Sets(tx, k), <<k, b.type>> \in Range(tx.sets),
           b.lastBalance = IF k \in tx.balances THEN nr ELSE 0
    PROVE  AddressOf(Insert(c, nr, tx), k, b, nr) /\ nr \in DOMAIN Insert(c, nr, tx)
<1>d. PICK d : d = Insert(c, nr, tx)
  OBVIOUS
<1>0. WithCopy(c, nr, tx, k, d)
  BY <1>d, CopyAdded, Zenon
<1>1. /\ DOMAIN d = DOMAIN c \cup {nr} /\ d[nr] = tx
      /\ Settings(d, k) = IF Sets(tx, k) THEN Settings(c, k) \cup {nr} ELSE Settings(c, k)
      /\ \A l \in 1..nr : Payments(d, k, l) = IF k \in tx.balances THEN Payments(c, k, l) \cup {nr} ELSE Payments(c, k, l)
      /\ Payments(c, k, nr) = {}
  BY <1>0 DEF WithCopy
<1>2. nr \in 1..nr
  OBVIOUS
<1>3. Payments(d, k, nr) = IF k \in tx.balances THEN {nr} ELSE {}
  BY <1>1, <1>2
<1>4. Settings(d, k) = {nr}
  BY <1>1
<1> QED
  BY <1>1, <1>3, <1>4, <1>d DEF AddressOf

\* pushTransactionEntry keeps what is read in agreement with the chain.
LEMMA PushReads ==
    ASSUME NEW t, ReadsInv(t), OneTypePerAccount, Threads = {t}, Push(t)
    PROVE  ReadsInv(t)'
<1>x. PICK tx : tx = thread[t].tx
  OBVIOUS
<1>0. StoreInv(t) /\ DictInv(t) /\ MapsInv /\ SortInv(t) /\ AddressInv
  BY DEF ReadsInv
<1>1. thread[t].pc = "read" /\ thread[t] \in AddStates
  BY <1>0, AdderFields DEF Push
<1>n. PICK nr \in Nat : nr = last + 1 /\ nr > 0 /\ nr - 1 = last
  BY <1>0 DEF StoreInv
<1>2. thread[t].nr = nr /\ tx \in Txs /\ tx.keys \subseteq Range(dict) /\ last \in Nat
  BY <1>0, <1>1, <1>x, <1>n DEF StoreInv, AddStates, DictInv
<1>3. /\ PushTransactionEntry(tx, nr) /\ UNCHANGED <<dict, added, cleared>>
      /\ thread' = [thread EXCEPT ![t].pc = "pushed"]
  BY <1>2, <1>x DEF Push
<1>4. StoreInv(t)'
  BY <1>0, PushConfirms
<1>5. thread'[t].pc = "pushed" /\ last' = nr /\ mutex = None /\ dirty' = TRUE
  <2>1. thread \in [{t} -> {thread[t]}]
    BY <1>0 DEF StoreInv
  <2>2. thread'[t] = [thread[t] EXCEPT !.pc = "pushed"]
    BY <2>1, <1>3
  <2>3. thread'[t].pc = "pushed"
    BY <2>2, <1>1 DEF AddStates
  <2> QED
    BY <2>3, <1>3 DEF PushTransactionEntry
<1>r. PICK r : r = AddTransactionIndices(tx, nr)
  OBVIOUS
<1>6. /\ anchors' = Insert(anchors, tx.anchor, nr) /\ maxNr' = nr
      /\ involved' = r.involved /\ addresses' = r.addresses
      /\ compact' = IF r.ok THEN Insert(compact, nr, tx) ELSE compact
  BY <1>3, <1>r DEF PushTransactionEntry
<1>7. Listed(dict)
  BY <1>0 DEF DictInv
<1>8. /\ Range(dict) = {dict[i] : i \in 1..Len(dict)} /\ Len(dict) \in Nat
      /\ \A i \in 1..Len(dict) : GetIndexForData(dict, dict[i]) = i
  BY <1>7, IndexOfKey
<1>q. PICK q : q = AddTransaction(addresses, tx, nr, dict)
  OBVIOUS
<1>9. \/ ~q.ok /\ q.map = addresses
      \/ /\ q.ok /\ q.map \in [DOMAIN q.map -> AddressData]
         /\ DOMAIN q.map = DOMAIN addresses \cup {i \in 1..Len(dict) : Sets(tx, dict[i])}
         /\ \A i \in DOMAIN addresses :
               /\ q.map[i].type = addresses[i].type
               /\ q.map[i].lastBalance = IF dict[i] \in tx.balances THEN nr ELSE addresses[i].lastBalance
         /\ \A i \in DOMAIN q.map \ DOMAIN addresses :
               /\ <<dict[i], q.map[i].type>> \in Range(tx.sets)
               /\ q.map[i].lastBalance = IF dict[i] \in tx.balances THEN nr ELSE 0
  BY <1>q, <1>2, AddressesChange
<1>10. /\ r.involved \subseteq involved \cup {<<GetIndexForData(dict, k), nr>> : k \in tx.keys}
       /\ \/ ~r.ok /\ r.addresses = addresses
          \/ r.ok /\ q.ok /\ r.addresses = q.map
  <2>1. r = IF tx.entries + 3 >= MaxPublicKeys
            THEN [ok |-> FALSE, involved |-> involved, addresses |-> addresses]
            ELSE [ok |-> q.ok, involved |-> involved \cup {<<GetIndexForData(dict, k), nr>> : k \in tx.keys},
                  addresses |-> q.map]
    BY <1>r, <1>q DEF AddTransactionIndices
  <2> HIDE DEF MaxPublicKeys
  <2>2. CASE tx.entries + 3 >= MaxPublicKeys
    BY <2>1, <2>2
  <2>3. CASE ~(tx.entries + 3 >= MaxPublicKeys)
    <3>1. r.ok = q.ok /\ r.addresses = q.map /\ r.involved = involved \cup {<<GetIndexForData(dict, k), nr>> : k \in tx.keys}
      BY <2>1, <2>3
    <3> QED
      BY <3>1, <1>9
  <2> QED
    BY <2>2, <2>3
<1>11. DOMAIN compact \subseteq 1..(nr - 1) /\ \A n \in DOMAIN compact : compact[n] \in Txs /\ compact[n].keys \subseteq Range(dict)
  BY <1>0, <1>n DEF MapsInv, DictInv
<1>12. r.ok => /\ DOMAIN compact' = DOMAIN compact \cup {nr} /\ compact'[nr] = tx
               /\ \A n \in DOMAIN compact : compact'[n] = compact[n]
  <2>1. nr \notin DOMAIN compact
    BY <1>11, <1>n
  <2>2. r.ok => compact' = [n \in DOMAIN compact \cup {nr} |-> IF n = nr THEN tx ELSE compact[n]]
    BY <2>1, <1>6 DEF Insert
  <2> QED
    BY <2>1, <2>2
<1>13. ~r.ok => compact' = compact
  BY <1>6
<1>14. DictInv(t)'
  <2>1. \A n \in DOMAIN compact' : compact'[n].keys \subseteq Range(dict)
    BY <1>2, <1>11, <1>12, <1>13
  <2> QED
    BY <2>1, <1>3, <1>5, <1>7 DEF DictInv
<1>15. MapsInv'
  <2>1. Range(anchors') \subseteq 1..nr
    <3>1. Range(anchors) \subseteq 1..nr
      BY <1>0, <1>n DEF MapsInv
    <3>2. nr \in 1..nr
      BY <1>n
    <3> QED
      BY <3>1, <3>2, <1>6 DEF Range, Insert
  <2>2. involved' \subseteq (1..Len(dict)) \X (1..nr)
    <3>1. involved \subseteq (1..Len(dict)) \X (1..nr)
      BY <1>0, <1>n DEF MapsInv
    <3>2. \A k \in tx.keys : GetIndexForData(dict, k) \in 1..Len(dict)
      BY <1>2, <1>8
    <3>3. nr \in 1..nr
      BY <1>n
    <3> QED
      BY <3>1, <3>2, <3>3, <1>6, <1>10
  <2>3. DOMAIN compact' \subseteq 1..nr /\ \A n \in DOMAIN compact' : compact'[n] \in Txs
    <3>1. DOMAIN compact \subseteq 1..nr /\ nr \in 1..nr
      BY <1>11, <1>n
    <3> QED
      BY <3>1, <1>2, <1>11, <1>12, <1>13
  <2>4. maxNr' \in 0..nr /\ cleared' = 0
    BY <1>0, <1>3, <1>6 DEF MapsInv
  <2> QED
    BY <2>1, <2>2, <2>3, <2>4, <1>3, <1>5 DEF MapsInv
<1>16. SortInv(t)'
  <2>1. mutex' = None
    BY <1>3, <1>5 DEF PushTransactionEntry
  <2> QED
    BY <2>1, <1>5 DEF SortInv
<1>17. SortedComplete'
  BY <1>5 DEF SortedComplete
<1>18. AddressInv'
  <2>1. CASE ~r.ok
    BY <2>1, <1>0, <1>3, <1>6, <1>10, <1>13 DEF AddressInv
  <2>2. CASE r.ok
    <3>c. PICK c : c = compact
      OBVIOUS
    <3>d. PICK d : d = Insert(c, nr, tx)
      OBVIOUS
    <3>m. PICK m : m = q.map
      OBVIOUS
    <3>D. PICK D : D = DOMAIN addresses
      OBVIOUS
    <3>0. /\ addresses' = m /\ compact' = d /\ dict' = dict /\ Below(c, nr)
          /\ m \in [DOMAIN m -> AddressData] /\ DOMAIN m = D \cup {i \in 1..Len(dict) : Sets(tx, dict[i])}
      BY <2>2, <3>c, <3>d, <3>m, <3>D, <1>3, <1>6, <1>9, <1>10, <1>11 DEF Below
    <3>1. D \subseteq 1..Len(dict)
      BY <1>0, <3>D DEF AddressInv
    <3>2. ASSUME NEW i \in D PROVE \E first \in DOMAIN d : AddressOf(d, dict[i], m[i], first)
      <4>1. PICK first \in DOMAIN c : AddressOf(c, dict[i], addresses[i], first)
        BY <3>2, <3>c, <3>D, <1>0 DEF AddressInv
      <4>k. PICK k : k = dict[i]
        OBVIOUS
      <4>a. PICK a : a = addresses[i]
        OBVIOUS
      <4>b. PICK b : b = m[i]
        OBVIOUS
      <4>2. b.type = a.type /\ b.lastBalance = IF k \in tx.balances THEN nr ELSE a.lastBalance
        BY <4>a, <4>b, <4>k, <2>2, <3>m, <3>D, <1>9, <1>10
      <4>3. AddressOf(d, k, b, first) /\ first \in DOMAIN d
        BY <4>1, <4>2, <4>k, <4>a, <3>0, <3>d, KnownAddress
      <4> QED
        BY <4>3, <4>k, <4>b
    <3>3. ASSUME NEW i \in DOMAIN m \ D PROVE \E first \in DOMAIN d : AddressOf(d, dict[i], m[i], first)
      <4>k. PICK k : k = dict[i]
        OBVIOUS
      <4>b. PICK b : b = m[i]
        OBVIOUS
      <4>1. i \in 1..Len(dict) /\ Sets(tx, k)
        BY <3>0, <3>3, <4>k
      <4>2. Settings(c, k) = {}
        BY <4>1, <4>k, <3>3, <3>c, <3>D, <1>0 DEF AddressInv
      <4>3. <<k, b.type>> \in Range(tx.sets) /\ b.lastBalance = IF k \in tx.balances THEN nr ELSE 0
        BY <4>b, <4>k, <3>3, <2>2, <3>m, <3>D, <1>9, <1>10
      <4>4. AddressOf(d, k, b, nr) /\ nr \in DOMAIN d
        BY <4>1, <4>2, <4>3, <3>0, <3>d, <1>n, NewAddress
      <4> QED
        BY <4>4, <4>k, <4>b
    <3>4. ASSUME NEW i \in 1..Len(dict) \ DOMAIN m PROVE Settings(d, dict[i]) = {}
      <4>k. PICK k : k = dict[i]
        OBVIOUS
      <4>1. ~Sets(tx, k) /\ i \notin D
        BY <3>0, <3>4, <4>k
      <4>2. Settings(c, k) = {}
        BY <4>1, <4>k, <3>c, <3>D, <1>0 DEF AddressInv
      <4>3. WithCopy(c, nr, tx, k, d)
        BY <3>0, <3>d, CopyAdded, Zenon
      <4> QED
        BY <4>1, <4>2, <4>3, <4>k DEF WithCopy
    <3>5. DOMAIN m \subseteq 1..Len(dict)
      BY <3>0, <3>1
    <3> QED
      BY <3>0, <3>2, <3>3, <3>4, <3>5 DEF AddressInv
  <2> QED
    BY <2>1, <2>2
<1> QED
  BY <1>4, <1>14, <1>15, <1>16, <1>17, <1>18 DEF ReadsInv

\* A step that leaves the maps alone and does not touch the sorted copy.
LEMMA ReadsQuiet ==
    ASSUME NEW t, ReadsInv(t), Threads = {t}, StoreInv(t)', NEW s, thread' = [thread EXCEPT ![t] = s],
           UNCHANGED <<dict, chain, index, sorting, cleared>>,
           s.pc \in {"called", "read"} => s.tx.keys \subseteq Range(dict),
           s.pc = "cleared" <=> thread[t].pc = "cleared",
           s.pc \in {"dirty", "got"} => s.there = 1..last /\ (s.pc = "dirty" <=> dirty),
           s.pc = "cleared" => s.there = 1..last /\ dirty,
           s.pc = "seen" => s.there \subseteq Range(s.numbers)
                            /\ \A i \in 1..(Len(s.numbers) - 1) : s.numbers[i] < s.numbers[i + 1]
    PROVE  ReadsInv(t)'
<1>1. thread'[t] = s
  BY DEF ReadsInv, StoreInv
<1>2. UNCHANGED <<dict, byNr, last, anchors, maxNr, involved, addresses, compact, sorted, dirty, mutex, cleared>>
  BY DEF chain, index, sorting
<1>3. DictInv(t)'
  BY <1>1, <1>2 DEF ReadsInv, DictInv
<1>4. MapsInv'
  BY <1>2 DEF ReadsInv, MapsInv
<1>5. SortInv(t)'
  BY <1>1, <1>2 DEF ReadsInv, SortInv
<1>6. AddressInv'
  BY <1>2 DEF ReadsInv, AddressInv
<1>7. SortedComplete'
  BY <1>1, <1>2 DEF SortedComplete
<1> QED
  BY <1>3, <1>4, <1>5, <1>6, <1>7 DEF ReadsInv

\* A client's keys enter the dictionary: the indices of those that were there stay.
LEMMA CallReads ==
    ASSUME NEW t, ReadsInv(t), Threads = {t}, StoreInv(t)', NEW tx \in Txs, Call(t, tx)
    PROVE  ReadsInv(t)'
<1>s. PICK s : s = [pc |-> "called", tx |-> tx, nr |-> 0]
  OBVIOUS
<1>1. /\ thread'[t] = s /\ thread[t] = Idle /\ dict' = GetOrAdd(dict, tx.keys)
      /\ UNCHANGED <<byNr, last, anchors, maxNr, involved, addresses, compact, sorted, dirty, mutex, cleared>>
  BY <1>s DEF Call, ReadsInv, StoreInv, chain, index, sorting
<1>2. s.pc = "called" /\ s.tx = tx /\ Idle.pc = "idle"
  BY <1>s DEF Idle
<1>3. tx.keys \in SUBSET Keys /\ IsFiniteSet(tx.keys)
  BY TxsAssumption DEF Tx
<1>4. Listed(dict)
  BY DEF ReadsInv, DictInv
<1>e. PICK e : e = dict'
  OBVIOUS
<1>5. /\ Listed(e) /\ Len(dict) <= Len(e) /\ \A i \in 1..Len(dict) : e[i] = dict[i]
      /\ Range(e) = Range(dict) \cup tx.keys
  BY <1>1, <1>3, <1>4, <1>e, DictGrows
<1>6. /\ Range(dict) = {dict[i] : i \in 1..Len(dict)} /\ Len(dict) \in Nat
      /\ Range(e) = {e[i] : i \in 1..Len(e)} /\ Len(e) \in Nat /\ 1..Len(dict) \subseteq 1..Len(e)
  <2>1. Range(dict) = {dict[i] : i \in 1..Len(dict)} /\ Len(dict) \in Nat
    BY <1>4, IndexOfKey
  <2>2. Range(e) = {e[i] : i \in 1..Len(e)} /\ Len(e) \in Nat
    BY <1>5, IndexOfKey
  <2> QED
    BY <2>1, <2>2, <1>5
<1>7. DictInv(t)'
  <2>1. \A n \in DOMAIN compact : compact[n].keys \subseteq Range(e)
    BY <1>5 DEF ReadsInv, DictInv
  <2> QED
    BY <2>1, <1>1, <1>2, <1>5, <1>e DEF DictInv
<1>8. MapsInv'
  BY <1>1, <1>6, <1>e DEF ReadsInv, MapsInv
<1>9. SortInv(t)'
  BY <1>1, <1>2 DEF ReadsInv, SortInv
<1>10. SortedComplete'
  BY <1>1, <1>2 DEF SortedComplete
<1>11. AddressInv'
  <2>1. DOMAIN addresses \subseteq 1..Len(dict) /\ addresses \in [DOMAIN addresses -> AddressData]
    BY DEF ReadsInv, AddressInv
  <2>2. ASSUME NEW i \in DOMAIN addresses
        PROVE  \E first \in DOMAIN compact : AddressOf(compact, e[i], addresses[i], first)
    <3>1. e[i] = dict[i]
      BY <2>1, <1>5
    <3> QED
      BY <3>1 DEF ReadsInv, AddressInv
  <2>3. ASSUME NEW i \in 1..Len(e) \ DOMAIN addresses
        PROVE  Settings(compact, e[i]) = {}
    <3>1. CASE i \in 1..Len(dict)
      BY <3>1, <1>5 DEF ReadsInv, AddressInv
    <3>2. CASE i \notin 1..Len(dict)
      <4>1. e[i] \notin Range(dict)
        <5>1. ASSUME NEW j \in 1..Len(dict), dict[j] = e[i] PROVE FALSE
          <6>1. e[j] = e[i] /\ j \in 1..Len(e)
            BY <5>1, <1>5, <1>6
          <6>2. i = j
            BY <6>1, <1>5 DEF Listed
          <6> QED
            BY <6>2, <3>2
        <5> QED
          BY <5>1, <1>6
      <4>2. ASSUME NEW n \in DOMAIN compact, Sets(compact[n], e[i]) PROVE FALSE
        <5>1. compact[n] \in Txs /\ compact[n].keys \subseteq Range(dict)
          BY DEF ReadsInv, MapsInv, DictInv
        <5>2. e[i] \in compact[n].keys
          BY <4>2, <5>1, TxsAssumption DEF Sets
        <5> QED
          BY <4>1, <5>1, <5>2
      <4> QED
        BY <4>2 DEF Settings
    <3> QED
      BY <3>1, <3>2
  <2>4. DOMAIN addresses \subseteq 1..Len(e)
    BY <2>1, <1>6
  <2> QED
    BY <2>1, <2>2, <2>3, <2>4, <1>1, <1>e DEF AddressInv
<1> QED
  BY <1>7, <1>8, <1>9, <1>10, <1>11 DEF ReadsInv

\* The copy is cleared and filled under the mutex.
LEMMA SortingReads ==
    ASSUME NEW t, ReadsInv(t), Threads = {t}, StoreInv(t)', ClearSorted(t) \/ FillSorted(t)
    PROVE  ReadsInv(t)'
<1>0. StoreInv(t)
  BY DEF ReadsInv
<1>1. /\ UNCHANGED <<dict, byNr, last, anchors, maxNr, involved, addresses, compact, cleared>>
      /\ thread[t].pc \in {"dirty", "cleared"} /\ DOMAIN byNr = 1..last /\ last \in Nat
  BY <1>0 DEF ClearSorted, FillSorted, chain, index, StoreInv
<1>2. thread[t] \in SortStates /\ thread[t].there = 1..last
  BY <1>0, <1>1, AdderFields DEF ReadsInv, SortInv
<1>3. CASE ClearSorted(t)
  <2>1. thread'[t] = [thread[t] EXCEPT !.pc = "cleared"]
    BY <1>0, <1>3 DEF ClearSorted, StoreInv
  <2>2. thread'[t].pc = "cleared" /\ thread'[t].there = 1..last
    BY <2>1, <1>2 DEF SortStates
  <2>3. mutex' = t /\ dirty' = dirty /\ thread[t].pc = "dirty"
    BY <1>3 DEF ClearSorted
  <2>4. SortInv(t)'
    BY <2>2, <2>3, <1>1 DEF ReadsInv, SortInv
  <2>5. DictInv(t)' /\ MapsInv' /\ AddressInv' /\ SortedComplete'
    BY <2>2, <1>1 DEF ReadsInv, DictInv, MapsInv, AddressInv, SortedComplete
  <2> QED
    BY <2>4, <2>5 DEF ReadsInv
<1>4. CASE FillSorted(t)
  <2>1. thread'[t] = [thread[t] EXCEPT !.pc = "got"]
    BY <1>0, <1>4 DEF FillSorted, StoreInv
  <2>2. thread'[t].pc = "got" /\ thread'[t].there = 1..last
    BY <2>1, <1>2 DEF SortStates
  <2>3. mutex' = None /\ dirty' = FALSE /\ sorted' = [i \in 1..last |-> i]
    BY <1>4, <1>1, InOrderIs DEF FillSorted
  <2>4. SortInv(t)'
    BY <2>2, <2>3, <1>1 DEF SortInv
  <2>5. DictInv(t)' /\ MapsInv' /\ AddressInv' /\ SortedComplete'
    BY <2>2, <1>1 DEF ReadsInv, DictInv, MapsInv, AddressInv, SortedComplete
  <2> QED
    BY <2>4, <2>5 DEF ReadsInv
<1> QED
  BY <1>3, <1>4

\* Every step of the only thread keeps what is read in agreement with the chain.
LEMMA StepReads ==
    ASSUME NEW t, ReadsInv(t), OneTypePerAccount, Threads = {t}, Step(t)
    PROVE  ReadsInv(t)'
<1>0. StoreInv(t) /\ thread \in [{t} -> {thread[t]}] /\ Idle.pc = "idle" /\ last \in Nat /\ DOMAIN byNr = 1..last
  BY DEF ReadsInv, StoreInv, Idle
<1>i. StoreInv(t)'
  BY <1>0, StepImplements
<1>1. ASSUME NEW tx \in Txs, Call(t, tx) PROVE ReadsInv(t)'
  BY <1>1, <1>i, CallReads
<1>2. CASE ReadLast(t)
  <2>n. PICK n \in Nat : n = last + 1
    BY <1>0
  <2>s. PICK s : s = [thread[t] EXCEPT !.pc = "read", !.nr = n]
    OBVIOUS
  <2>1. thread[t].pc = "called" /\ thread[t] \in AddStates /\ thread[t].tx.keys \subseteq Range(dict)
    BY <1>2, <1>0, AdderFields DEF ReadLast, ReadsInv, DictInv
  <2>2. s.pc = "read" /\ s.tx = thread[t].tx
    BY <2>1, <2>s DEF AddStates
  <2>3. thread' = [thread EXCEPT ![t] = s] /\ UNCHANGED <<dict, chain, index, sorting, cleared>>
    BY <1>2, <2>s, <2>n, <1>0 DEF ReadLast
  <2> QED
    BY <2>1, <2>2, <2>3, <1>i, ReadsQuiet
<1>3. CASE Push(t)
  BY <1>3, PushReads
<1>4. CASE Refuse(t) \/ Return(t) \/ ForgetSorted(t)
  <2>1. /\ thread' = [thread EXCEPT ![t] = Idle] /\ UNCHANGED <<dict, chain, index, sorting, cleared>>
        /\ thread[t].pc # "cleared"
    BY <1>4 DEF Refuse, Return, ForgetSorted
  <2> QED
    BY <2>1, <1>0, <1>i, ReadsQuiet
<1>5. CASE GetSorted(t)
  <2>s. PICK s : s = [pc |-> IF dirty THEN "dirty" ELSE "got", there |-> DOMAIN byNr]
    OBVIOUS
  <2>1. s.pc = (IF dirty THEN "dirty" ELSE "got") /\ s.there = 1..last
    BY <2>s, <1>0
  <2>2. /\ thread' = [thread EXCEPT ![t] = s] /\ UNCHANGED <<dict, chain, index, sorting, cleared>>
        /\ thread[t].pc # "cleared"
    BY <1>5, <2>s, <1>0 DEF GetSorted
  <2>3. dirty \in BOOLEAN
    BY DEF ReadsInv, SortInv
  <2> QED
    BY <2>1, <2>2, <2>3, <1>i, ReadsQuiet
<1>6. CASE ClearSorted(t) \/ FillSorted(t)
  BY <1>6, <1>i, SortingReads
<1>7. CASE ReadSorted(t)
  <2>s. PICK s : s = [pc |-> "seen", there |-> thread[t].there, numbers |-> sorted]
    OBVIOUS
  <2>1. s.pc = "seen" /\ s.there = thread[t].there /\ s.numbers = sorted /\ thread[t].pc = "got"
    BY <1>7, <2>s DEF ReadSorted
  <2>2. thread' = [thread EXCEPT ![t] = s] /\ UNCHANGED <<dict, chain, index, sorting, cleared>>
    BY <1>7, <2>s DEF ReadSorted
  <2>3. sorted = [i \in 1..last |-> i] /\ s.there = 1..last
    BY <2>1 DEF ReadsInv, SortInv
  <2>4. /\ Range(sorted) = 1..last /\ Len(sorted) = last
        /\ \A i \in 1..(Len(sorted) - 1) : sorted[i] < sorted[i + 1]
    <3>1. DOMAIN sorted = 1..last /\ Len(sorted) = last /\ \A i \in 1..last : sorted[i] = i
      BY <2>3, <1>0
    <3>2. Range(sorted) = 1..last
      BY <3>1 DEF Range
    <3>3. \A i \in 1..(last - 1) : i \in 1..last /\ i + 1 \in 1..last /\ i < i + 1
      BY <1>0
    <3> QED
      BY <3>1, <3>2, <3>3
  <2> QED
    BY <2>1, <2>2, <2>3, <2>4, <1>i, ReadsQuiet
<1> QED
  BY <1>1, <1>2, <1>3, <1>4, <1>5, <1>6, <1>7 DEF Step

\* The least and the greatest number of a set are what Min and Max choose.
LEMMA MinMaxAre ==
    ASSUME NEW S, S \subseteq Nat, NEW n \in S
    PROVE  ((\A m \in S : n <= m) => Min(S) = n) /\ ((\A m \in S : m <= n) => Max(S) = n)
<1>1. \A m \in S : m \in Nat
  OBVIOUS
<1>2. ASSUME \A m \in S : n <= m PROVE Min(S) = n
  <2>1. \A x \in S : (\A y \in S : x <= y) => x = n
    BY <1>1, <1>2
  <2> QED
    BY <2>1, <1>2 DEF Min
<1>3. ASSUME \A m \in S : m <= n PROVE Max(S) = n
  <2>1. \A x \in S : (\A y \in S : x >= y) => x = n
    BY <1>1, <1>3
  <2>2. \A y \in S : n >= y
    BY <1>1, <1>3
  <2> QED
    BY <2>1, <2>2 DEF Max
<1> QED
  BY <1>2, <1>3

\* The invariant says what the address index answers.
LEMMA AnswersAgree ==
    ASSUME NEW t, ReadsInv(t)
    PROVE  AddressesAgree
<1> SUFFICES ASSUME NEW k \in Keys, NEW S, S = Settings(compact, k), NEW P, P = {n \in DOMAIN compact : k \in compact[n].balances}
             PROVE  IF S = {} THEN GetAddressType(k) = None
                    ELSE /\ <<k, GetAddressType(k)>> \in Range(compact[Min(S)].sets)
                         /\ LastBalanceChanged(k) = IF {n \in P : n >= Min(S)} = {} THEN 0 ELSE Max({n \in P : n >= Min(S)})
  BY DEF AddressesAgree, CompactWith, Settings
<1>1. DOMAIN compact \subseteq Nat /\ Listed(dict)
  BY DEF ReadsInv, MapsInv, DictInv
<1>2. /\ Range(dict) = {dict[i] : i \in 1..Len(dict)} /\ Len(dict) \in Nat
      /\ \A i \in 1..Len(dict) : GetIndexForData(dict, dict[i]) = i
      /\ k \notin Range(dict) => GetIndexForData(dict, k) = 0
  BY <1>1, IndexOfKey
<1>i. PICK i : i = GetIndexForData(dict, k)
  OBVIOUS
<1>3. CASE k \notin Range(dict)
  <2>1. i \notin DOMAIN addresses
    BY <1>2, <1>3, <1>i DEF ReadsInv, AddressInv
  <2>2. S = {}
    <3>1. ASSUME NEW n \in DOMAIN compact, Sets(compact[n], k) PROVE FALSE
      <4>1. compact[n] \in Txs /\ compact[n].keys \subseteq Range(dict)
        BY DEF ReadsInv, MapsInv, DictInv
      <4>2. k \in compact[n].keys
        BY <3>1, <4>1, TxsAssumption DEF Sets
      <4> QED
        BY <4>1, <4>2, <1>3
    <3> QED
      BY <3>1 DEF Settings
  <2> QED
    BY <2>1, <2>2, <1>i DEF GetAddressType
<1>4. CASE k \in Range(dict)
  <2>1. i \in 1..Len(dict) /\ dict[i] = k
    BY <1>2, <1>4, <1>i
  <2>2. CASE i \notin DOMAIN addresses
    <3>1. S = {}
      BY <2>1, <2>2 DEF ReadsInv, AddressInv
    <3> QED
      BY <3>1, <2>2, <1>i DEF GetAddressType
  <2>3. CASE i \in DOMAIN addresses
    <3>a. PICK a : a = addresses[i]
      OBVIOUS
    <3>1. PICK first \in DOMAIN compact : AddressOf(compact, k, a, first)
      BY <2>1, <2>3, <3>a DEF ReadsInv, AddressInv
    <3>2. first \in S /\ \A n \in S : first <= n
      BY <3>1 DEF AddressOf
    <3>3. S \subseteq Nat
      BY <1>1 DEF Settings
    <3>4. Min(S) = first
      BY <3>2, <3>3, MinMaxAre
    <3>Q. PICK Q : Q = Payments(compact, k, first)
      OBVIOUS
    <3>5. {n \in P : n >= Min(S)} = Q
      <4>1. \A n \in DOMAIN compact : n >= first <=> first <= n
        BY <1>1, <3>2
      <4> QED
        BY <4>1, <3>4, <3>Q DEF Payments
    <3>6. Q \subseteq Nat
      BY <1>1, <3>Q DEF Payments
    <3>7. a.lastBalance = IF Q = {} THEN 0 ELSE Max(Q)
      <4>1. \/ Q = {} /\ a.lastBalance = 0
            \/ a.lastBalance \in Q /\ \A n \in Q : n <= a.lastBalance
        BY <3>1, <3>Q DEF AddressOf
      <4>l. PICK l : l = a.lastBalance
        OBVIOUS
      <4>2. l \in Q /\ (\A n \in Q : n <= l) => Max(Q) = l
        BY <3>6, MinMaxAre
      <4> QED
        BY <4>1, <4>2, <4>l
    <3>8. GetAddressType(k) = a.type /\ LastBalanceChanged(k) = a.lastBalance
      BY <2>3, <3>a, <1>i DEF GetAddressType, LastBalanceChanged
    <3>9. <<k, a.type>> \in Range(compact[first].sets)
      BY <3>1 DEF AddressOf
    <3> QED
      BY <3>2, <3>4, <3>5, <3>7, <3>8, <3>9
  <2> QED
    BY <2>2, <2>3
<1> QED
  BY <1>3, <1>4

\* InMemory: with one caller at a time, whatever transactions there are whose accounts have keys of their
\* own, getSortedTransactions returns all that were there in order, and the address index has the type
\* that was set first and the number of the last change of balance, as the chain says, whichever
\* transactions were refused or could not be indexed.
THEOREM ReadsStayExact ==
    ASSUME NEW t, Threads = {t}, t # None, MaxCleared \in Nat, OneTypePerAccount
    PROVE  Spec => []ReadsAgree
<1>1. Init => ReadsInv(t)
  <2> SUFFICES ASSUME Init PROVE ReadsInv(t)
    OBVIOUS
  <2>1. /\ byNr = <<>> /\ last = 0 /\ added = {} /\ thread = [u \in {t} |-> Idle] /\ Idle.pc = "idle"
        /\ dict = <<>> /\ anchors = <<>> /\ maxNr = 0 /\ involved = {} /\ addresses = <<>> /\ compact = <<>>
        /\ sorted = <<>> /\ dirty = FALSE /\ mutex = None /\ cleared = 0
    BY DEF Init, Idle
  <2>2. thread[t] = Idle /\ 1..0 = {}
    BY <2>1
  <2>3. StoreInv(t)
    BY <2>1, <2>2 DEF StoreInv, Range
  <2>4. DictInv(t) /\ MapsInv
    <3>1. Len(dict) = 0 /\ DOMAIN dict = {} /\ dict \in Seq(Keys) /\ DOMAIN compact = {} /\ DOMAIN anchors = {}
      BY <2>1
    <3>2. Listed(dict) /\ DictInv(t)
      BY <3>1, <2>1, <2>2 DEF DictInv, Listed
    <3>3. Range(anchors) = {} /\ maxNr \in 0..last
      BY <3>1, <2>1 DEF Range
    <3> QED
      BY <3>1, <3>2, <3>3, <2>1 DEF MapsInv
  <2>5. SortInv(t) /\ SortedComplete
    <3>1. sorted = [i \in 1..last |-> i]
      BY <2>1, <2>2
    <3>2. thread[t].pc = "idle"
      BY <2>1, <2>2
    <3> QED
      BY <3>1, <3>2, <2>1 DEF SortInv, SortedComplete
  <2>6. AddressInv
    BY <2>1, <2>2 DEF AddressInv
  <2> QED
    BY <2>3, <2>4, <2>5, <2>6 DEF ReadsInv
<1>2. ReadsInv(t) /\ [Next]_vars => ReadsInv(t)'
  <2> SUFFICES ASSUME ReadsInv(t), [Next]_vars PROVE ReadsInv(t)'
    OBVIOUS
  <2>1. CASE Next
    BY <2>1, StepReads DEF Next
  <2>2. CASE UNCHANGED vars
    BY <2>2 DEF vars, chain, index, sorting, ReadsInv, StoreInv, DictInv, MapsInv, SortInv, AddressInv, SortedComplete
  <2> QED
    BY <2>1, <2>2
<1>3. ReadsInv(t) => ReadsAgree
  <2> SUFFICES ASSUME ReadsInv(t) PROVE ReadsAgree
    OBVIOUS
  <2>1. SortedComplete /\ AddressesAgree
    BY AnswersAgree DEF ReadsInv
  <2>2. TypeOK
    <3>1. Range(dict) \subseteq Keys /\ Len(dict) = Cardinality(Range(dict)) /\ DOMAIN dict = 1..Len(dict)
      BY DictCounts, IndexOfKey DEF ReadsInv, DictInv
    <3>2. DOMAIN byNr = 1..last /\ last \in Nat /\ Range(byNr) \subseteq Txs /\ added \subseteq Txs
      BY DEF ReadsInv, StoreInv, Range
    <3>3. last \in DOMAIN byNr \cup {0} /\ maxNr \in DOMAIN byNr \cup {0}
      BY <3>2 DEF ReadsInv, MapsInv
    <3>4. \A u \in Threads : (mutex = u) = (thread[u].pc = "cleared")
      BY DEF ReadsInv, SortInv
    <3> QED
      BY <3>1, <3>2, <3>3, <3>4 DEF TypeOK, ReadsInv, MapsInv, AddressInv
  <2> QED
    BY <2>1, <2>2 DEF ReadsAgree
<1> QED
  BY <1>1, <1>2, <1>3, PTL DEF Spec

-----------------------------------------------------------------------------
(* findBlockchain. *)

\* The states of a thread inside findBlockchain, and with its answer.
SearchStates ==
    [pc : {"new", "context", "append", "search", "add", "failed"}, community : Communities, index : Nat]
FoundStates == [pc : {"found"}, index : Nat, chain : Nat, epoch : Nat]

\* Who is past the dictionary has an index of it; an answer is of this epoch or an earlier one.
CallersOK ==
    /\ callers \in [Callers -> {NotCalling} \cup SearchStates \cup FoundStates]
    /\ epoch \in Nat /\ chains \in [DOMAIN chains -> Nat]
    /\ \A t \in Callers :
          /\ callers[t].pc \in {"context", "append", "search", "add"} => callers[t].index \in DOMAIN ids
          /\ callers[t].pc = "found" => callers[t].epoch <= epoch

LookupInv == ProviderTypeOK /\ CallersOK /\ AnswersAreKept

\* What a caller's state says of its fields.
LEMMA CallerFields ==
    ASSUME CallersOK, NEW t \in Callers
    PROVE  /\ callers[t].pc \in {"idle", "new", "context", "append", "search", "add", "failed", "found"}
           /\ callers[t].pc \in {"new", "context", "append", "search", "add", "failed"} => callers[t] \in SearchStates
           /\ callers[t].pc = "found" => callers[t] \in FoundStates
<1>1. callers[t] \in {NotCalling} \cup SearchStates \cup FoundStates
  BY DEF CallersOK
<1>2. NotCalling.pc = "idle"
  BY DEF NotCalling
<1> QED
  BY <1>1, <1>2 DEF SearchStates, FoundStates

\* The dictionary numbers a community it does not know with the next number, and has one number for
\* each.
LEMMA IndexOfCommunity ==
    ASSUME ProviderTypeOK, NEW c
    PROVE  /\ IndexOf(c) \in DOMAIN ids \cup {0} /\ DOMAIN ids \subseteq Nat \ {0}
           /\ IndexOf(c) = 0 => \A i \in DOMAIN ids : ids[i] # c
<1>1. DOMAIN ids = 1..Len(ids) /\ Len(ids) \in Nat
  BY DEF ProviderTypeOK
<1> QED
  BY <1>1 DEF IndexOf, Nothing

\* A step inside the call that changes neither blockchains nor dictionary nor contexts.
LEMMA CallerMoves ==
    ASSUME LookupInv, NEW t \in Callers, NEW s \in {NotCalling} \cup SearchStates,
           s.pc \in {"context", "append", "search", "add"} => s.index \in DOMAIN ids,
           callers' = [callers EXCEPT ![t] = s],
           UNCHANGED <<ids, contexts, chains, made, epoch>>
    PROVE  LookupInv'
<1>1. s.pc # "found"
  BY DEF NotCalling, SearchStates
<1>2. callers'[t] = s /\ \A u \in Callers : u # t => callers'[u] = callers[u]
  BY DEF LookupInv, CallersOK
<1>3. CallersOK'
  BY <1>1, <1>2 DEF LookupInv, CallersOK
<1>4. ProviderTypeOK' /\ AnswersAreKept'
  BY <1>1, <1>2 DEF LookupInv, ProviderTypeOK, AnswersAreKept
<1> QED
  BY <1>3, <1>4 DEF LookupInv

\* An answer: the provider keeps the blockchain for the index, and what it kept before.
LEMMA CallerFinds ==
    ASSUME LookupInv, ProviderTypeOK', NEW t \in Callers, NEW i \in Nat, i = callers[t].index,
           i \in DOMAIN chains',
           callers' = [callers EXCEPT ![t] =
               [pc |-> "found", index |-> i, chain |-> chains'[i], epoch |-> epoch]],
           chains' \in [DOMAIN chains' -> Nat], DOMAIN chains \subseteq DOMAIN chains',
           \A j \in DOMAIN chains : chains'[j] = chains[j],
           UNCHANGED <<ids, epoch>>
    PROVE  LookupInv'
<1>s. PICK s : s = [pc |-> "found", index |-> i, chain |-> chains'[i], epoch |-> epoch]
  OBVIOUS
<1>1. /\ s \in FoundStates /\ s.pc = "found" /\ s.index = i /\ s.chain = chains'[i] /\ s.epoch = epoch
      /\ epoch \in Nat
  BY <1>s DEF FoundStates, LookupInv, CallersOK
<1>2. callers'[t] = s /\ \A u \in Callers : u # t => callers'[u] = callers[u]
  BY <1>s DEF LookupInv, CallersOK
<1>3. callers' \in [Callers -> {NotCalling} \cup SearchStates \cup FoundStates]
  BY <1>1, <1>s DEF LookupInv, CallersOK
<1>4. CallersOK'
  BY <1>1, <1>2, <1>3 DEF LookupInv, CallersOK
<1>5. AnswersAreKept'
  BY <1>1, <1>2 DEF LookupInv, AnswersAreKept
<1> QED
  BY <1>4, <1>5 DEF LookupInv

\* The steps of one caller.
LEMMA CallerStep ==
    ASSUME MaxChains \in Nat, LookupInv, NEW t \in Callers, ProviderStep(t)
    PROVE  LookupInv'
<1>0. CallersOK /\ ProviderTypeOK /\ AnswersAreKept
  BY DEF LookupInv
<1>d. DOMAIN ids = 1..Len(ids) /\ Len(ids) \in Nat
  BY <1>0 DEF ProviderTypeOK
<1>1. ASSUME NEW c \in Communities, Find(t, c) PROVE LookupInv'
  <2>s. PICK s : s = [pc |-> IF IndexOf(c) = 0 THEN "new" ELSE "search", community |-> c,
                      index |-> IndexOf(c)]
    OBVIOUS
  <2>1. s \in SearchStates /\ (s.pc \in {"context", "append", "search", "add"} => s.index \in DOMAIN ids)
    BY <2>s, <1>0, IndexOfCommunity DEF SearchStates
  <2>2. callers' = [callers EXCEPT ![t] = s] /\ UNCHANGED <<ids, contexts, chains, made, epoch>>
    BY <1>1, <2>s DEF Find, Nothing
  <2> QED
    BY <2>1, <2>2, CallerMoves
<1>2. CASE AddId(t)
  <2>c. PICK c : c = callers[t].community
    OBVIOUS
  <2>i. PICK i : i = IF IndexOf(c) = 0 THEN Len(ids) + 1 ELSE IndexOf(c)
    OBVIOUS
  <2>s. PICK s : s = [callers[t] EXCEPT !.pc = "context", !.index = i]
    OBVIOUS
  <2>1. /\ callers[t].pc = "new" /\ callers' = [callers EXCEPT ![t] = s]
        /\ ids' = IF IndexOf(c) = 0 THEN Append(ids, c) ELSE ids
        /\ UNCHANGED <<contexts, chains, made, epoch>>
    <3>1. callers' = [callers EXCEPT ![t].pc = "context", ![t].index = i]
      BY <1>2, <2>c, <2>i DEF AddId, Nothing
    <3>2. callers' = [callers EXCEPT ![t] = s]
      BY <3>1, <2>s, <1>0 DEF CallersOK
    <3> QED
      BY <3>2, <1>2, <2>c DEF AddId, Nothing
  <2>2. c \in Communities /\ callers[t] \in SearchStates
    BY <2>1, <2>c, <1>0, CallerFields DEF SearchStates
  <2>3. /\ ids' \in Seq(Communities) /\ DOMAIN ids \subseteq DOMAIN ids' /\ i \in DOMAIN ids' /\ i \in Nat
        /\ \A j, k \in DOMAIN ids' : ids'[j] = ids'[k] => j = k
    <3>1. CASE IndexOf(c) = 0
      <4>1. \A j \in DOMAIN ids : ids[j] # c
        BY <3>1, <1>0, IndexOfCommunity
      <4>2. ids' = Append(ids, c) /\ i = Len(ids) + 1 /\ ids \in Seq(Communities)
        BY <3>1, <2>1, <2>i, <1>0 DEF ProviderTypeOK
      <4>3. /\ ids' \in Seq(Communities) /\ Len(ids') = i /\ ids'[i] = c
            /\ DOMAIN ids' = 1..i /\ \A j \in DOMAIN ids : ids'[j] = ids[j]
        BY <4>2, <2>2
      <4> QED
        BY <4>1, <4>2, <4>3, <1>0, <1>d DEF ProviderTypeOK
    <3>2. CASE IndexOf(c) # 0
      BY <3>2, <2>1, <2>i, <1>0, IndexOfCommunity DEF ProviderTypeOK
    <3> QED
      BY <3>1, <3>2
  <2>4. ProviderTypeOK'
    BY <2>1, <2>3, <1>0 DEF ProviderTypeOK
  <2>5. s \in SearchStates /\ s.pc = "context" /\ s.index = i
    BY <2>2, <2>3, <2>s DEF SearchStates
  <2>6. callers'[t] = s /\ \A u \in Callers : u # t => callers'[u] = callers[u]
    BY <2>1, <1>0 DEF CallersOK
  <2>7. CallersOK'
    BY <2>1, <2>3, <2>5, <2>6, <1>0 DEF CallersOK
  <2>8. AnswersAreKept'
    BY <2>1, <2>5, <2>6, <1>0 DEF AnswersAreKept
  <2> QED
    BY <2>4, <2>7, <2>8 DEF LookupInv
<1>3. ASSUME NEW pc \in {"search", "append", "add", "failed"}, Goto(t, pc),
             callers[t].pc \in {"context", "append", "search", "add"},
             UNCHANGED <<ids, contexts, chains, made, epoch>>
      PROVE  LookupInv'
  <2>s. PICK s : s = [callers[t] EXCEPT !.pc = pc]
    OBVIOUS
  <2>1. callers' = [callers EXCEPT ![t] = s]
    BY <1>3, <2>s, <1>0 DEF Goto, CallersOK
  <2>2. callers[t] \in SearchStates /\ callers[t].index \in DOMAIN ids
    BY <1>3, <1>0, CallerFields DEF CallersOK
  <2>3. s \in SearchStates /\ s.index = callers[t].index
    BY <2>2, <2>s DEF SearchStates
  <2> QED
    BY <2>1, <2>2, <2>3, <1>3, CallerMoves
<1>4. CASE CheckContext(t)
  BY <1>4, <1>3 DEF CheckContext
<1>5. CASE Hole(t)
  BY <1>5, <1>3 DEF Hole
<1>6. CASE AppendContext(t)
  <2>s. PICK s : s = [callers[t] EXCEPT !.pc = "search"]
    OBVIOUS
  <2>1. /\ callers[t].pc = "append" /\ contexts' = Append(contexts, 0)
        /\ callers' = [callers EXCEPT ![t] = s] /\ UNCHANGED <<ids, chains, made, epoch>>
    BY <1>6, <2>s, <1>0 DEF AppendContext, Goto, Nothing, CallersOK
  <2>2. callers[t] \in SearchStates /\ callers[t].index \in DOMAIN ids
    BY <2>1, <1>0, CallerFields DEF CallersOK
  <2>3. s \in SearchStates /\ s.index = callers[t].index /\ s.pc = "search"
    BY <2>2, <2>s DEF SearchStates
  <2>4. contexts' \in Seq(0..MaxChains) /\ DOMAIN contexts \subseteq DOMAIN contexts'
    BY <2>1, <1>0 DEF ProviderTypeOK
  <2>5. ProviderTypeOK'
    BY <2>1, <2>4, <1>0 DEF ProviderTypeOK
  <2>6. callers'[t] = s /\ \A u \in Callers : u # t => callers'[u] = callers[u]
    BY <2>1, <1>0 DEF CallersOK
  <2>7. CallersOK'
    BY <2>1, <2>2, <2>3, <2>6, <1>0 DEF CallersOK
  <2>8. AnswersAreKept'
    BY <2>1, <2>3, <2>6, <1>0 DEF AnswersAreKept
  <2> QED
    BY <2>5, <2>7, <2>8 DEF LookupInv
<1>7. CASE Search(t)
  <2>i. PICK i : i = callers[t].index
    OBVIOUS
  <2>1. callers[t].pc = "search" /\ UNCHANGED <<ids, contexts, chains, made, epoch>>
    BY <1>7 DEF Search
  <2>2. i \in Nat
    BY <2>1, <2>i, <1>0, CallerFields DEF SearchStates
  <2>3. CASE i \in DOMAIN chains
    <3>1. callers' = [callers EXCEPT ![t] =
              [pc |-> "found", index |-> i, chain |-> chains'[i], epoch |-> epoch]]
      BY <1>7, <2>1, <2>3, <2>i, <1>0 DEF Search, Found, CallersOK
    <3>2. ProviderTypeOK' /\ chains' \in [DOMAIN chains' -> Nat] /\ chains' = chains
      BY <2>1, <1>0 DEF ProviderTypeOK, CallersOK
    <3> QED
      BY <3>1, <3>2, <2>1, <2>2, <2>3, <2>i, CallerFinds
  <2>4. CASE i \notin DOMAIN chains
    BY <1>7, <2>1, <2>4, <2>i, <1>3 DEF Search
  <2> QED
    BY <2>3, <2>4
<1>8. CASE AddBlockchain(t)
  <2>i. PICK i : i = callers[t].index
    OBVIOUS
  <2>1. /\ callers[t].pc = "add" /\ made < MaxChains /\ i <= Len(contexts)
        /\ made' = made + 1 /\ contexts' = [contexts EXCEPT ![i] = made + 1]
        /\ chains' = Kept(i, made + 1) /\ UNCHANGED <<ids, epoch>>
        /\ callers' = [callers EXCEPT ![t] =
               [pc |-> "found", index |-> i, chain |-> chains'[i], epoch |-> epoch]]
    BY <1>8, <2>i, <1>0 DEF AddBlockchain, Found, CallersOK
  <2>2. i \in DOMAIN ids /\ i \in Nat \ {0}
    BY <2>1, <2>i, <1>0, <1>d DEF CallersOK
  <2>3. i \in DOMAIN contexts /\ contexts' \in Seq(0..MaxChains) /\ DOMAIN contexts' = DOMAIN contexts
    BY <2>1, <2>2, <1>0 DEF ProviderTypeOK
  <2>4. /\ DOMAIN chains' = DOMAIN chains \cup {i} /\ chains' \in [DOMAIN chains' -> Nat]
        /\ \A j \in DOMAIN chains : chains'[j] = chains[j]
    BY <2>1, <1>0 DEF Kept, CallersOK, ProviderTypeOK
  <2>5. ProviderTypeOK'
    BY <2>1, <2>2, <2>3, <2>4, <1>0 DEF ProviderTypeOK
  <2> QED
    BY <2>1, <2>2, <2>4, <2>5, <2>i, CallerFinds
<1>9. CASE MissingContext(t)
  BY <1>9, <1>3 DEF MissingContext
<1>10. CASE Leave(t)
  <2>1. NotCalling.pc = "idle"
    BY DEF NotCalling
  <2> QED
    BY <1>10, <2>1, CallerMoves DEF Leave
<1> QED
  BY <1>1, <1>2, <1>4, <1>5, <1>6, <1>7, <1>8, <1>9, <1>10 DEF ProviderStep

\* findBlockchain: for every number of threads and communities, a call that has ended holds the
\* blockchain the provider keeps for the community, until the provider is cleared; the dictionary has one
\* number for each community and every blockchain has a context.
THEOREM FoundStaysKept ==
    ASSUME MaxChains \in Nat
    PROVE  ProviderSpec => []FoundIsKept
<1>1. ProviderInit => LookupInv
  <2> SUFFICES ASSUME ProviderInit PROVE LookupInv
    OBVIOUS
  <2>1. ProviderTypeOK
    BY DEF ProviderInit, ProviderTypeOK
  <2>2. CallersOK /\ AnswersAreKept
    BY DEF ProviderInit, CallersOK, AnswersAreKept, NotCalling
  <2> QED
    BY <2>1, <2>2 DEF LookupInv
<1>2. LookupInv /\ [ProviderNext]_providerVars => LookupInv'
  <2> SUFFICES ASSUME LookupInv, [ProviderNext]_providerVars PROVE LookupInv'
    OBVIOUS
  <2>1. CASE ProviderClear
    <3>1. /\ chains' = <<>> /\ epoch' = epoch + 1 /\ UNCHANGED <<ids, contexts, made, callers>>
      BY <2>1 DEF ProviderClear
    <3>2. DOMAIN chains' = {} /\ chains' \in [DOMAIN chains' -> Nat]
      BY <3>1
    <3>3. CallersOK' /\ \A t \in Callers : callers'[t].pc = "found" => callers'[t].epoch # epoch'
      <4>1. \A t \in Callers : callers[t].pc = "found" => callers[t].epoch \in Nat /\ callers[t].epoch <= epoch
        BY CallerFields DEF LookupInv, CallersOK, FoundStates
      <4>2. epoch \in Nat
        BY DEF LookupInv, CallersOK
      <4> QED
        BY <3>1, <3>2, <4>1, <4>2 DEF LookupInv, CallersOK
    <3>4. ProviderTypeOK' /\ AnswersAreKept'
      BY <3>1, <3>2, <3>3 DEF LookupInv, ProviderTypeOK, AnswersAreKept
    <3> QED
      BY <3>3, <3>4 DEF LookupInv
  <2>2. CASE \E t \in Callers : ProviderStep(t)
    BY <2>2, CallerStep
  <2>3. CASE UNCHANGED providerVars
    BY <2>3 DEF providerVars, LookupInv, CallersOK, ProviderTypeOK, AnswersAreKept
  <2> QED
    BY <2>1, <2>2, <2>3 DEF ProviderNext
<1>3. LookupInv => FoundIsKept
  BY DEF LookupInv, FoundIsKept
<1> QED
  BY <1>1, <1>2, <1>3, PTL DEF ProviderSpec

-----------------------------------------------------------------------------
(* The memory manager: an inductive invariant, a part for each kind of owner. *)

\* The records are whole: BuffersSound's TypeOK says only what a reader needs.
Types ==
    /\ block \in [Objects -> [size : Sizes \cup {0}, data : Addresses \cup {nullptr},
                              live : BOOLEAN, expected : Values]]
    /\ pending \in [Users -> Work \cup {nullptr}]
    /\ stacks \in [DOMAIN Buckets -> Seq(Addresses)]
    /\ heap \in [Allocated -> [capacity : Nat, content : Values]]
    /\ Allocated \subseteq Addresses

\* A buffer belongs to a Block, to a thread that is still filling it, or to a stack.
BlockOwns(o, a) == block[o].data = a
Fills(t, a) == pending[t] # nullptr /\ pending[t].data = a
Keeps(i, a) == \E k \in DOMAIN stacks[i] : stacks[i][k] = a

\* A Block has a buffer exactly if it has a size, of the capacity the size was taken
\* with, and a Block that is not alive has none.
BlockSound(o) ==
    /\ block[o].data # nullptr <=> block[o].size > 0
    /\ ~block[o].live => block[o].data = nullptr
    /\ block[o].data # nullptr => /\ block[o].data \in Allocated
                               /\ heap[block[o].data].capacity = Capacity(block[o].size)
                               /\ heap[block[o].data].content = block[o].expected

\* What a thread still has to do is for a Block of its own that has no buffer.
WorkSound(t) ==
    pending[t] # nullptr =>
        /\ pending[t].object[1] = t
        /\ pending[t].size > 0
        /\ block[pending[t].object].data = nullptr
        /\ pending[t].data # nullptr =>
              /\ pending[t].data \in Allocated
              /\ heap[pending[t].data].capacity = Capacity(pending[t].size)

\* A stack is bounded, and keeps buffers of its bucket, each once.
StackSound(i) ==
    /\ Len(stacks[i]) <= MaxCount + 1
    /\ \A j, k \in DOMAIN stacks[i] : stacks[i][j] = stacks[i][k] => j = k
    /\ \A k \in DOMAIN stacks[i] : /\ stacks[i][k] \in Allocated
                                   /\ heap[stacks[i][k]].capacity = Buckets[i]

\* No buffer has two owners of different kinds, or two Blocks, or two threads.  That
\* two stacks share none follows from their capacities.
BlocksApart == \A o, p \in Objects : block[o].data # nullptr /\ block[o].data = block[p].data => o = p
ThreadsApart ==
    \A t, u \in Users : \A a \in Addresses : Fills(t, a) /\ Fills(u, a) => t = u
KindsApart ==
    \A a \in Addresses :
        /\ \A o \in Objects, t \in Users : ~(BlockOwns(o, a) /\ Fills(t, a))
        /\ \A o \in Objects, i \in DOMAIN Buckets : ~(BlockOwns(o, a) /\ Keeps(i, a))
        /\ \A t \in Users, i \in DOMAIN Buckets : ~(Fills(t, a) /\ Keeps(i, a))

Owned(a) == \/ \E o \in Objects : BlockOwns(o, a)
            \/ \E t \in Users : Fills(t, a)
            \/ \E i \in DOMAIN Buckets : Keeps(i, a)

MemoryInv ==
    /\ Types
    /\ \A o \in Objects : BlockSound(o)
    /\ \A t \in Users : WorkSound(t)
    /\ \A i \in DOMAIN Buckets : StackSound(i)
    /\ BlocksApart /\ ThreadsApart /\ KindsApart
    /\ \A a \in Allocated : Owned(a)

-----------------------------------------------------------------------------
\* Manager::getBlock and releaseBlock choose the same stack for a size: its bucket, if
\* there is one, has room for it.
LEMMA BucketFacts ==
    ASSUME ParametersAssumption, NEW size \in Nat
    PROVE  /\ \/ BucketOf(size) = -1 /\ Capacity(size) = size
              \/ BucketOf(size) \in DOMAIN Buckets /\ Capacity(size) = Buckets[BucketOf(size)]
           /\ Capacity(size) \in Nat /\ Capacity(size) >= size
<1> DEFINE D == {i \in DOMAIN Buckets : size <= Buckets[i]}
<1>0. /\ DOMAIN Buckets = 1..Len(Buckets) /\ Len(Buckets) \in Nat
      /\ \A i \in DOMAIN Buckets : Buckets[i] \in Nat
  BY DEF ParametersAssumption
<1>1. CASE D = {}
  <2>1. BucketOf(size) = -1
    BY <1>1 DEF BucketOf
  <2> QED
    BY <2>1 DEF Capacity
<1>2. CASE D # {}
  <2>1. D \in SUBSET Nat
    BY <1>0
  <2>2. PICK x \in D : \A y \in D : x <= y
    <3> DEFINE Less == OpToRel(<, Nat)
    <3>1. IsWellFoundedOn(Less, Nat)
      BY NatLessThanWellFounded, Zenon
    <3>2. \A x, y \in Nat : x < y => <<x, y>> \in Less
      BY DEF OpToRel
    <3> HIDE DEF Less, D
    <3>3. PICK x \in D : \A y \in D : <<y, x>> \notin Less
      BY <1>2, <2>1, <3>1, WFMin
    <3>4. \A y \in D : ~(y < x)
      BY <2>1, <3>2, <3>3, Zenon
    <3> QED
      BY <2>1, <3>4
  <2>3. BucketOf(size) \in DOMAIN Buckets /\ size <= Buckets[BucketOf(size)]
    <3>1. \E i \in DOMAIN Buckets : size <= Buckets[i]
      BY <2>2
    <3>2. \E i \in DOMAIN Buckets :
            size <= Buckets[i] /\ \A j \in DOMAIN Buckets : size <= Buckets[j] => i <= j
      BY <2>2
    <3> QED
      BY <3>1, <3>2 DEF BucketOf
  <2>4. BucketOf(size) >= 0 /\ Capacity(size) = Buckets[BucketOf(size)]
    BY <1>0, <2>3 DEF Capacity
  <2> QED
    BY <1>0, <2>3, <2>4
<1> QED
  BY <1>1, <1>2

\* Two stacks never keep the same buffer: their buckets differ in size.
LEMMA StacksApart ==
    ASSUME ParametersAssumption, MemoryInv, NEW i \in DOMAIN Buckets, NEW j \in DOMAIN Buckets,
           NEW a, Keeps(i, a), Keeps(j, a)
    PROVE  i = j
<1>1. Buckets[i] = Buckets[j]
  BY DEF MemoryInv, StackSound, Keeps
<1>2. i \in Nat /\ j \in Nat /\ Buckets[i] \in Nat /\ Buckets[j] \in Nat
  BY DEF ParametersAssumption
<1> QED
  BY <1>1, <1>2 DEF ParametersAssumption, BucketsAscend

\* The size of a Block is a natural number.
LEMMA SizeIsNat ==
    ASSUME ParametersAssumption, MemoryInv, NEW o \in Objects
    PROVE  block[o].size \in Nat
<1>1. block[o].size \in Sizes \/ block[o].size = 0
  BY DEF MemoryInv, Types
<1>2. \A n \in Sizes : n \in Nat
  BY DEF ParametersAssumption
<1> QED
  BY <1>1, <1>2

\* The invariant says what BuffersSound says, owner by owner.
LEMMA ResultOfInv ==
    ASSUME ParametersAssumption, MemoryInv
    PROVE  BuffersSound
<1> USE DEF BlockOwns, Fills, Keeps
<1>0. \A i \in DOMAIN Buckets : \A a : a \in Range(stacks[i]) <=> Keeps(i, a)
  BY DEF Range
<1>1. \A a : a \in Stacked <=> \E i \in DOMAIN Buckets : Keeps(i, a)
  BY <1>0 DEF Stacked
<1>2. \A a : a \in InFlight <=> a # nullptr /\ \E t \in Users : Fills(t, a)
  BY DEF InFlight
<1>3. \A t \in Users : pending[t] # nullptr => pending[t].data \in Addresses \cup {nullptr}
  BY DEF MemoryInv, Types, Work
<1>4. \A i \in DOMAIN Buckets : stacks[i] \in Seq(Addresses)
  BY DEF MemoryInv, Types
<1>5. \A i \in DOMAIN Buckets : DOMAIN stacks[i] = 1..Len(stacks[i]) /\ Len(stacks[i]) \in Nat
  BY <1>4
<1>6. \A o \in Objects : block[o] \in [size : Sizes \cup {0}, data : Addresses \cup {nullptr},
                              live : BOOLEAN, expected : Values]
  BY DEF MemoryInv, Types
<1>7. MemoryTypeOK
  <2>1. \A i \in DOMAIN Buckets : stacks[i] \in Seq(Allocated) /\ Len(stacks[i]) <= MaxCount + 1
    <3> TAKE i \in DOMAIN Buckets
    <3>1. \A k \in 1..Len(stacks[i]) : stacks[i][k] \in Allocated
      BY <1>5 DEF MemoryInv, StackSound
    <3>2. stacks[i] = [k \in 1..Len(stacks[i]) |-> stacks[i][k]]
      BY <1>4
    <3>3. stacks[i] \in Seq(Allocated)
      BY <1>5, <3>1, <3>2, IsASeq
    <3> QED
      BY <3>3 DEF MemoryInv, StackSound
  <2>2. InFlight \subseteq Allocated
    BY <1>2 DEF MemoryInv, WorkSound
  <2> QED
    BY <1>6, <2>1, <2>2 DEF MemoryTypeOK, MemoryInv, Types
<1>8. OneOwner
  <2>1. \A o, p \in Objects : o # p /\ block[o].data # nullptr => block[o].data # block[p].data
    BY DEF MemoryInv, BlocksApart
  <2>2. \A o \in Objects : block[o].data \notin InFlight \cup Stacked
    <3> SUFFICES ASSUME NEW o \in Objects, NEW a, a = block[o].data,
                        a \in InFlight \/ a \in Stacked
                 PROVE  FALSE
      OBVIOUS
    <3>1. a \in Addresses
      <4>1. CASE a \in InFlight
        BY <4>1, <1>2, <1>3
      <4>2. CASE a \in Stacked
        BY <4>2, <1>1, <1>4
      <4> QED  BY <4>1, <4>2
    <3> QED
      BY <3>1, <1>1, <1>2 DEF MemoryInv, KindsApart
  <2>3. InFlight \cap Stacked = {}
    BY <1>1, <1>2, <1>3 DEF MemoryInv, KindsApart
  <2>4. \A t, u \in Users : t # u /\ pending[t] # nullptr /\ pending[u] # nullptr
                             /\ pending[t].data # nullptr => pending[t].data # pending[u].data
    BY <1>3 DEF MemoryInv, ThreadsApart
  <2>5. \A i \in DOMAIN Buckets : IsInjective(stacks[i])
    BY DEF MemoryInv, StackSound, IsInjective
  <2>6. \A i, j \in DOMAIN Buckets : i # j => Range(stacks[i]) \cap Range(stacks[j]) = {}
    BY <1>0, StacksApart
  <2> QED
    BY <2>1, <2>2, <2>3, <2>4, <2>5, <2>6 DEF OneOwner
<1>9. NoLeak
  <2> DEFINE Held == {block[o].data : o \in Objects} \ {nullptr}
  <2>1. \A a : a \in Held <=> a # nullptr /\ \E o \in Objects : block[o].data = a
    OBVIOUS
  <2>2. \A a \in Held : a \in Allocated
    BY <2>1 DEF MemoryInv, BlockSound
  <2>3. \A a \in InFlight : a \in Allocated
    BY <1>2 DEF MemoryInv, WorkSound
  <2>4. \A a \in Stacked : a \in Allocated
    BY <1>1 DEF MemoryInv, StackSound
  <2>5. \A a \in Allocated : a \in Held \/ a \in InFlight \/ a \in Stacked
    <3>1. nullptr \notin Allocated
      BY DEF MemoryInv, Types, ParametersAssumption
    <3> QED
      BY <3>1, <2>1, <1>1, <1>2 DEF MemoryInv, Owned
  <2> HIDE DEF Held
  <2>6. Allocated = Held \cup InFlight \cup Stacked
    BY <2>2, <2>3, <2>4, <2>5
  <2> QED
    BY <2>6 DEF NoLeak, Held
<1>10. RoomForSize
  <2>1. \A o \in Objects : block[o].data # nullptr => heap[block[o].data].capacity >= block[o].size
    <3> TAKE o \in Objects
    <3>1. block[o].size \in Nat
      BY SizeIsNat
    <3>2. Capacity(block[o].size) >= block[o].size
      BY <3>1, BucketFacts
    <3> QED
      BY <3>2 DEF MemoryInv, BlockSound
  <2>2. \A i \in DOMAIN Buckets : \A a \in Range(stacks[i]) : heap[a].capacity = Buckets[i]
    BY <1>0, SMTT(40) DEF MemoryInv, StackSound
  <2>3. \A o \in Objects : block[o].size > 0 => block[o].data # nullptr
    BY DEF MemoryInv, BlockSound
  <2> QED
    BY <2>1, <2>2, <2>3 DEF RoomForSize
<1>11. Intact
  BY DEF MemoryInv, BlockSound, Intact
<1> QED
  BY <1>7, <1>8, <1>9, <1>10, <1>11 DEF BuffersSound

\* At the start there is no buffer.
LEMMA MemoryInvInit ==
    ASSUME ParametersAssumption, MemoryInit
    PROVE  MemoryInv
<1> USE DEF MemoryInit, BlockOwns, Fills, Keeps
<1>1. Allocated = {} /\ heap \in [Allocated -> [capacity : Nat, content : Values]]
  BY DEF Allocated
<1>2. \A i \in DOMAIN Buckets : stacks[i] = << >>
  OBVIOUS
<1>3. Types
  <2>1. block \in [Objects -> [size : Sizes \cup {0}, data : Addresses \cup {nullptr},
                              live : BOOLEAN, expected : Values]]
    BY DEF Absent, Values
  <2> QED
    BY <1>1, <2>1 DEF Types
<1>4. \A o \in Objects : BlockSound(o) /\ block[o].data = nullptr
  BY DEF BlockSound, Absent
<1>5. \A i \in DOMAIN Buckets : StackSound(i)
  BY <1>2 DEF StackSound, ParametersAssumption
<1>6. \A t \in Users : WorkSound(t) /\ pending[t] = nullptr
  BY DEF WorkSound
<1>7. nullptr \notin Addresses
  BY DEF ParametersAssumption
<1>8. BlocksApart /\ ThreadsApart /\ KindsApart
  BY <1>2, <1>4, <1>6, <1>7 DEF BlocksApart, ThreadsApart, KindsApart
<1> QED
  BY <1>1, <1>3, <1>4, <1>5, <1>6, <1>8 DEF MemoryInv

-----------------------------------------------------------------------------
(* Giving a buffer back.                                                   *)

\* The buffer at a is on a stack now or freed, and nothing else happened to any buffer.
GaveBack(a) ==
    /\ stacks' \in [DOMAIN Buckets -> Seq(Addresses)]
    /\ heap' \in [Allocated' -> [capacity : Nat, content : Values]]
    /\ Allocated' \subseteq Allocated
    /\ \A x \in Allocated : x # a => x \in Allocated' /\ heap'[x] = heap[x]
    /\ \A i \in DOMAIN Buckets : StackSound(i)'
    /\ \A i \in DOMAIN Buckets : \A x : x # a => (Keeps(i, x)' <=> Keeps(i, x))
    /\ a \in Allocated' => \E i \in DOMAIN Buckets : Keeps(i, a)'

\* BlockStack::releaseBlock: the buffer is freed only if the stack is over its limit.
LEMMA PushOrFreeGivesBack ==
    ASSUME ParametersAssumption, MemoryInv, NEW i \in DOMAIN Buckets, NEW a \in Allocated,
           heap[a].capacity = Buckets[i], \A j \in DOMAIN Buckets : ~Keeps(j, a),
           PushOrFree(i, a)
    PROVE  GaveBack(a)
<1>0. /\ stacks \in [DOMAIN Buckets -> Seq(Addresses)] /\ MaxCount \in Nat
      /\ heap \in [Allocated -> [capacity : Nat, content : Values]] /\ Allocated \subseteq Addresses
  BY DEF MemoryInv, Types, ParametersAssumption
<1>1. \A j \in DOMAIN Buckets : DOMAIN stacks[j] = 1..Len(stacks[j]) /\ Len(stacks[j]) \in Nat
  BY <1>0
<1>2. CASE Len(stacks[i]) > MaxCount
  <2>1. heap' = [x \in Allocated \ {a} |-> heap[x]] /\ stacks' = stacks
    BY <1>2 DEF PushOrFree, Free, Allocated
  <2>2. Allocated' = Allocated \ {a} /\ \A x \in Allocated : x # a => heap'[x] = heap[x]
    BY <2>1 DEF Allocated
  <2>3. heap' \in [Allocated' -> [capacity : Nat, content : Values]]
    BY <1>0, <2>1, <2>2
  <2>4. \A j \in DOMAIN Buckets : StackSound(j)'
    BY <2>1, <2>2 DEF StackSound, MemoryInv, Keeps
  <2> QED
    BY <1>0, <2>1, <2>2, <2>3, <2>4 DEF GaveBack, Keeps
<1>3. CASE ~(Len(stacks[i]) > MaxCount)
  <2>1. stacks' = [stacks EXCEPT ![i] = Append(stacks[i], a)] /\ heap' = heap
    BY <1>3 DEF PushOrFree
  <2>2. Allocated' = Allocated
    BY <2>1 DEF Allocated
  <2>3. stacks' \in [DOMAIN Buckets -> Seq(Addresses)]
    BY <1>0, <2>1
  <2>4. /\ \A j \in DOMAIN Buckets : j # i => stacks'[j] = stacks[j]
        /\ stacks'[i] = Append(stacks[i], a)
    BY <1>0, <2>1
  <2>5. PICK n \in Nat : n = Len(stacks[i])
    BY <1>1
  <2>6. /\ Len(stacks'[i]) = n + 1 /\ DOMAIN stacks'[i] = 1..(n + 1)
        /\ stacks'[i][n + 1] = a
        /\ \A k \in 1..n : stacks'[i][k] = stacks[i][k]
    BY <1>0, <2>4, <2>5
  <2>7. \A k \in 1..n : stacks[i][k] # a
    BY <1>1, <2>5 DEF Keeps
  <2>8. StackSound(i)'
    <3>1. Len(stacks'[i]) <= MaxCount + 1
      BY <1>0, <1>3, <2>5, <2>6
    <3>2. \A j, k \in DOMAIN stacks'[i] : stacks'[i][j] = stacks'[i][k] => j = k
      <4>1. \A j, k \in 1..n : stacks[i][j] = stacks[i][k] => j = k
        BY <1>1, <2>5 DEF MemoryInv, StackSound
      <4>2. \A k \in 1..(n + 1) : k \in 1..n \/ k = n + 1
        BY <2>5
      <4> QED
        BY <4>1, <4>2, <2>6, <2>7
    <3>3. \A k \in DOMAIN stacks'[i] : /\ stacks'[i][k] \in Allocated'
                                       /\ heap'[stacks'[i][k]].capacity = Buckets[i]
      <4>1. \A k \in 1..n : stacks[i][k] \in Allocated /\ heap[stacks[i][k]].capacity = Buckets[i]
        BY <1>1, <2>5 DEF MemoryInv, StackSound
      <4>2. \A k \in 1..(n + 1) : k \in 1..n \/ k = n + 1
        BY <2>5
      <4> QED
        BY <4>1, <4>2, <2>1, <2>2, <2>6
    <3> QED
      BY <3>1, <3>2, <3>3 DEF StackSound
  <2>9. \A j \in DOMAIN Buckets : StackSound(j)'
    <3> SUFFICES ASSUME NEW j \in DOMAIN Buckets, j # i PROVE StackSound(j)'
      BY <2>8
    <3> QED
      BY <2>1, <2>2, <2>4 DEF MemoryInv, StackSound
  <2>10. \A x : x # a => (Keeps(i, x)' <=> Keeps(i, x))
    <3>1. \A k \in 1..(n + 1) : k \in 1..n \/ k = n + 1
      BY <2>5
    <3>2. \A k \in 1..n : k \in 1..(n + 1)
      BY <2>5
    <3>3. DOMAIN stacks[i] = 1..n
      BY <1>1, <2>5
    <3> QED
      BY <2>6, <3>1, <3>2, <3>3 DEF Keeps
  <2>11. \A j \in DOMAIN Buckets : \A x : x # a => (Keeps(j, x)' <=> Keeps(j, x))
    BY <2>4, <2>10 DEF Keeps
  <2>12. Keeps(i, a)'
    BY <2>6 DEF Keeps
  <2> QED
    BY <1>0, <2>1, <2>2, <2>3, <2>9, <2>11, <2>12 DEF GaveBack
<1> QED
  BY <1>2, <1>3

\* Block::clear gives back the buffer of the Block, under the size it was taken with.
LEMMA ClearGivesBack ==
    ASSUME ParametersAssumption, MemoryInv, NEW o \in Objects, BlockClear(o)
    PROVE  GaveBack(block[o].data)
<1>0. /\ stacks \in [DOMAIN Buckets -> Seq(Addresses)]
      /\ heap \in [Allocated -> [capacity : Nat, content : Values]] /\ Allocated \subseteq Addresses
      /\ \A i \in DOMAIN Buckets : StackSound(i)
  BY DEF MemoryInv, Types
<1>1. CASE block[o].data = nullptr
  <2>1. stacks' = stacks /\ heap' = heap /\ Allocated' = Allocated
    BY <1>1 DEF BlockClear, Allocated
  <2>2. nullptr \notin Allocated
    BY <1>0 DEF ParametersAssumption
  <2>3. \A i \in DOMAIN Buckets : StackSound(i)'
    BY <1>0, <2>1 DEF StackSound
  <2> QED
    BY <1>0, <1>1, <2>1, <2>2, <2>3 DEF GaveBack, Keeps
<1>2. CASE block[o].data # nullptr
  <2>1. PICK a, size : a = block[o].data /\ size = block[o].size
    OBVIOUS
  <2>2. /\ a \in Allocated /\ size \in Nat /\ size > 0 /\ heap[a].capacity = Capacity(size)
    <3>1. block[o].size \in Nat
      BY SizeIsNat
    <3> QED
      BY <1>2, <2>1, <3>1 DEF MemoryInv, BlockSound
  <2>3. \A j \in DOMAIN Buckets : ~Keeps(j, a)
    BY <1>0, <2>1, <2>2 DEF MemoryInv, KindsApart, BlockOwns
  <2>4. ReleaseBlock(size, a)
    BY <1>2, <2>1 DEF BlockClear
  <2>5. CASE BucketOf(size) < 0
    <3>1. heap' = [x \in Allocated \ {a} |-> heap[x]] /\ stacks' = stacks
      BY <2>2, <2>4, <2>5 DEF ReleaseBlock, Free, Allocated
    <3>2. Allocated' = Allocated \ {a} /\ \A x \in Allocated : x # a => heap'[x] = heap[x]
      BY <3>1 DEF Allocated
    <3>3. heap' \in [Allocated' -> [capacity : Nat, content : Values]]
      BY <1>0, <3>1, <3>2
    <3>4. \A j \in DOMAIN Buckets : StackSound(j)'
      BY <1>0, <2>3, <3>1, <3>2 DEF StackSound, Keeps
    <3> QED
      BY <1>0, <2>1, <3>1, <3>2, <3>3, <3>4 DEF GaveBack, Keeps
  <2>6. CASE ~(BucketOf(size) < 0)
    <3>1. BucketOf(size) \in DOMAIN Buckets /\ Capacity(size) = Buckets[BucketOf(size)]
      BY <2>2, <2>6, BucketFacts
    <3>2. PushOrFree(BucketOf(size), a)
      BY <2>2, <2>4, <2>6 DEF ReleaseBlock
    <3> QED
      BY <2>1, <2>2, <2>3, <3>1, <3>2, PushOrFreeGivesBack
  <2> QED
    BY <2>5, <2>6
<1> QED
  BY <1>1, <1>2

-----------------------------------------------------------------------------
(* The steps that leave a Block empty.                                     *)

Records == [size : Sizes \cup {0}, data : Addresses \cup {nullptr}, live : BOOLEAN, expected : Values]

\* A Block without a buffer: empty, or not constructed.
EmptyRecords == {e \in Records : e.size = 0 /\ e.data = nullptr}

\* Nothing to do for a thread, or a buffer to get for its Block o.
AsksFor(t, o) ==
    \/ pending' = pending
    \/ \E size \in Sizes, c \in Values : size > 0 /\ Begin(t, o, size, c)

\* What a thread fills stays as it is: a buffer it asks for now is not there yet.
LEMMA AskedFor ==
    ASSUME ParametersAssumption, MemoryInv, NEW t \in Users, NEW o \in Objects, o[1] = t,
           pending[t] = nullptr, AsksFor(t, o)
    PROVE  /\ pending' \in [Users -> Work \cup {nullptr}]
           /\ \A u \in Users : \A x \in Addresses : Fills(u, x)' <=> Fills(u, x)
           /\ \A u \in Users : \/ pending'[u] = pending[u]
                                 \/ /\ u = t /\ pending'[u] # nullptr
                                    /\ pending'[u].object = o /\ pending'[u].size > 0
                                    /\ pending'[u].data = nullptr
<1>0. pending \in [Users -> Work \cup {nullptr}] /\ nullptr \notin Addresses /\ nullptr \notin Work
  BY DEF MemoryInv, Types, ParametersAssumption
<1>1. CASE pending' = pending
  BY <1>0, <1>1 DEF Fills
<1>2. CASE \E size \in Sizes, c \in Values : size > 0 /\ Begin(t, o, size, c)
  <2>1. PICK size \in Sizes, c \in Values : size > 0 /\ Begin(t, o, size, c)
    BY <1>2
  <2>2. PICK w : w = [object |-> o, size |-> size, content |-> c, data |-> nullptr]
    OBVIOUS
  <2>3. w \in Work /\ w # nullptr /\ w.object = o /\ w.size = size /\ w.data = nullptr
    BY <1>0, <2>2 DEF Work
  <2>4. pending' = [pending EXCEPT ![t] = w]
    BY <2>1, <2>2 DEF Begin
  <2>5. pending' \in [Users -> Work \cup {nullptr}]
    BY <1>0, <2>3, <2>4
  <2>6. pending'[t] = w /\ \A u \in Users : u # t => pending'[u] = pending[u]
    BY <1>0, <2>4
  <2> QED
    BY <1>0, <2>1, <2>3, <2>5, <2>6 DEF Fills
<1> QED
  BY <1>1, <1>2 DEF AsksFor

\* A constructor, an assignment or the destructor empties a Block: its buffer is given
\* back, and every other owner has what it had.
LEMMA EmptyStep ==
    ASSUME ParametersAssumption, MemoryInv, NEW t \in Users, NEW o \in Objects, o[1] = t,
           pending[t] = nullptr, AsksFor(t, o), GaveBack(block[o].data),
           NEW e \in EmptyRecords, block' = [block EXCEPT ![o] = e]
    PROVE  MemoryInv'
<1>0. /\ block \in [Objects -> Records] /\ nullptr \notin Addresses /\ Allocated \subseteq Addresses
      /\ pending \in [Users -> Work \cup {nullptr}]
  BY DEF MemoryInv, Types, ParametersAssumption, Records
<1>1. PICK a : a = block[o].data
  OBVIOUS
<1>2. GaveBack(a)
  BY <1>1
<1>3. /\ block' \in [Objects -> Records]
      /\ block'[o] = e /\ e.data = nullptr /\ e.size = 0
      /\ \A p \in Objects : p # o => block'[p] = block[p]
  BY <1>0 DEF EmptyRecords
<1>4. /\ pending' \in [Users -> Work \cup {nullptr}]
      /\ \A u \in Users : \A x \in Addresses : Fills(u, x)' <=> Fills(u, x)
      /\ \A u \in Users : \/ pending'[u] = pending[u]
                            \/ /\ u = t /\ pending'[u] # nullptr
                               /\ pending'[u].object = o /\ pending'[u].size > 0
                               /\ pending'[u].data = nullptr
  BY AskedFor
<1>5. Types'
  BY <1>0, <1>2, <1>3, <1>4 DEF Types, GaveBack, Records
<1>6. \A p \in Objects : \A x \in Addresses : BlockOwns(p, x)' <=> BlockOwns(p, x) /\ x # a
  BY <1>0, <1>1, <1>3 DEF BlockOwns, MemoryInv, BlocksApart
<1>7. \A p \in Objects : BlockSound(p)'
  <2> SUFFICES ASSUME NEW p \in Objects PROVE BlockSound(p)'
    OBVIOUS
  <2>1. CASE p = o
    BY <2>1, <1>3 DEF BlockSound
  <2>2. CASE p # o
    <3>1. block'[p] = block[p] /\ BlockSound(p)
      BY <2>2, <1>3 DEF MemoryInv
    <3>2. block[p].data # nullptr => block[p].data # a
      BY <2>2, <1>1 DEF MemoryInv, BlocksApart
    <3>3. block[p].data # nullptr => heap'[block[p].data] = heap[block[p].data]
                                  /\ block[p].data \in Allocated'
      BY <1>2, <3>1, <3>2 DEF GaveBack, BlockSound
    <3> QED
      BY <3>1, <3>3 DEF BlockSound
  <2> QED
    BY <2>1, <2>2
<1>8. \A u \in Users : WorkSound(u)'
  <2> SUFFICES ASSUME NEW u \in Users, pending'[u] # nullptr PROVE WorkSound(u)'
    BY DEF WorkSound
  <2>1. CASE pending'[u] = pending[u]
    <3>1. u # t /\ pending[u] # nullptr /\ WorkSound(u) /\ pending[u] \in Work
      BY <1>0, <2>1 DEF MemoryInv
    <3>2. pending[u].object \in Objects /\ pending[u].object # o
      BY <3>1 DEF WorkSound, Work
    <3>3. block'[pending[u].object] = block[pending[u].object]
      BY <1>3, <3>2
    <3>4. pending[u].data # nullptr => pending[u].data # a
      <4> HAVE pending[u].data # nullptr
      <4>1. pending[u].data \in Addresses
        BY <3>1 DEF Work
      <4> QED
        BY <1>1, <3>1, <4>1 DEF MemoryInv, KindsApart, Fills, BlockOwns
    <3>5. pending[u].data # nullptr => heap'[pending[u].data] = heap[pending[u].data]
                                    /\ pending[u].data \in Allocated'
      BY <1>2, <3>1, <3>4 DEF GaveBack, WorkSound
    <3> QED
      BY <2>1, <3>1, <3>3, <3>5 DEF WorkSound
  <2>2. CASE pending'[u] # pending[u]
    BY <2>2, <1>3, <1>4 DEF WorkSound
  <2> QED
    BY <2>1, <2>2
<1>9. BlocksApart'
  BY <1>3 DEF MemoryInv, BlocksApart
<1>10. ThreadsApart'
  BY <1>4 DEF MemoryInv, ThreadsApart
<1>11. KindsApart'
  <2>1. ASSUME NEW x \in Addresses, NEW p \in Objects, NEW u \in Users,
               BlockOwns(p, x)', Fills(u, x)'
        PROVE  FALSE
    BY <2>1, <1>4, <1>6 DEF MemoryInv, KindsApart
  <2>2. ASSUME NEW x \in Addresses, NEW p \in Objects, NEW i \in DOMAIN Buckets,
               BlockOwns(p, x)', Keeps(i, x)'
        PROVE  FALSE
    BY <2>2, <1>2, <1>6 DEF MemoryInv, KindsApart, GaveBack
  <2>3. ASSUME NEW x \in Addresses, NEW u \in Users, NEW i \in DOMAIN Buckets,
               Fills(u, x)', Keeps(i, x)'
        PROVE  FALSE
    <3>1. x # a
      BY <2>3, <1>1, <1>4 DEF MemoryInv, KindsApart, BlockOwns
    <3> QED
      BY <2>3, <3>1, <1>2, <1>4 DEF MemoryInv, KindsApart, GaveBack
  <2> QED
    BY <2>1, <2>2, <2>3 DEF KindsApart
<1>12. \A x \in Allocated' : Owned(x)'
  <2> SUFFICES ASSUME NEW x \in Allocated', x # a PROVE Owned(x)'
    BY <1>2 DEF GaveBack, Owned
  <2>1. x \in Allocated /\ x \in Addresses /\ Owned(x)
    BY <1>0, <1>2 DEF GaveBack, MemoryInv
  <2> QED
    BY <2>1, <1>2, <1>4, <1>6 DEF GaveBack, Owned
<1> QED
  BY <1>2, <1>5, <1>7, <1>8, <1>9, <1>10, <1>11, <1>12 DEF MemoryInv, GaveBack

\* A move hands the buffer of one Block to another one of the same thread.
LEMMA MoveStep ==
    ASSUME ParametersAssumption, MemoryInv, NEW t \in Users, NEW o \in Objects, o[1] = t,
           NEW other \in Objects, other[1] = t, other # o,
           pending[t] = nullptr, pending' = pending, GaveBack(block[o].data),
           block' = Moved(o, other)
    PROVE  MemoryInv'
<1>0. /\ block \in [Objects -> Records] /\ nullptr \notin Addresses /\ Allocated \subseteq Addresses
      /\ pending \in [Users -> Work \cup {nullptr}]
  BY DEF MemoryInv, Types, ParametersAssumption, Records
<1>1. PICK a : a = block[o].data
  OBVIOUS
<1>2. GaveBack(a)
  BY <1>1
<1>3. Empty \in Records /\ Empty.data = nullptr /\ Empty.size = 0
  BY DEF Empty, Absent, Records, Values
<1>4. /\ block' \in [Objects -> Records]
      /\ block'[o] = block[other] /\ block'[other] = Empty
      /\ \A p \in Objects : p # o /\ p # other => block'[p] = block[p]
  BY <1>0, <1>3 DEF Moved
<1>5. Types'
  BY <1>0, <1>2, <1>4 DEF Types, GaveBack, Records
<1>6. \A p \in Objects : block'[p].data # nullptr =>
         \E q \in Objects : q # o /\ block'[p] = block[q] /\ (p = o <=> q = other)
  BY <1>3, <1>4
<1>7. \A q \in Objects : block[q].data # nullptr /\ block[q].data # a =>
         \E p \in Objects : block'[p] = block[q]
  BY <1>1, <1>4
<1>8. \A p \in Objects : BlockSound(p)'
  <2> SUFFICES ASSUME NEW p \in Objects PROVE BlockSound(p)'
    OBVIOUS
  <2>1. CASE p = other
    BY <2>1, <1>3, <1>4 DEF BlockSound
  <2>2. CASE p # other
    <3>1. PICK q \in Objects : q # o /\ block'[p] = block[q]
      BY <2>2, <1>4
    <3>2. BlockSound(q) /\ (block[q].data # nullptr => block[q].data # a)
      BY <3>1, <1>1 DEF MemoryInv, BlocksApart
    <3>3. block[q].data # nullptr => heap'[block[q].data] = heap[block[q].data]
                                  /\ block[q].data \in Allocated'
      BY <1>2, <3>2 DEF GaveBack, BlockSound
    <3> QED
      BY <3>1, <3>2, <3>3 DEF BlockSound
  <2> QED
    BY <2>1, <2>2
<1>9. \A u \in Users : WorkSound(u)'
  <2> SUFFICES ASSUME NEW u \in Users, pending[u] # nullptr PROVE WorkSound(u)'
    BY DEF WorkSound
  <2>1. u # t /\ WorkSound(u) /\ pending[u] \in Work
    BY <1>0 DEF MemoryInv
  <2>2. pending[u].object \in Objects /\ pending[u].object # o /\ pending[u].object # other
    BY <2>1 DEF WorkSound, Work
  <2>3. block'[pending[u].object] = block[pending[u].object]
    BY <1>4, <2>2
  <2>4. pending[u].data # nullptr => pending[u].data # a
    <3> HAVE pending[u].data # nullptr
    <3>1. pending[u].data \in Addresses
      BY <2>1 DEF Work
    <3> QED
      BY <1>1, <2>1, <3>1 DEF MemoryInv, KindsApart, Fills, BlockOwns
  <2>5. pending[u].data # nullptr => heap'[pending[u].data] = heap[pending[u].data]
                                  /\ pending[u].data \in Allocated'
    BY <1>2, <2>1, <2>4 DEF GaveBack, WorkSound
  <2> QED
    BY <2>1, <2>3, <2>5 DEF WorkSound
<1>10. BlocksApart'
  <2> SUFFICES ASSUME NEW p \in Objects, NEW q \in Objects,
                      block'[p].data # nullptr, block'[p].data = block'[q].data
               PROVE  p = q
    BY DEF BlocksApart
  <2>1. PICK r \in Objects : r # o /\ block'[p] = block[r] /\ (p = o <=> r = other)
                             /\ (p # o => r = p)
    BY <1>3, <1>4
  <2>2. PICK s \in Objects : s # o /\ block'[q] = block[s] /\ (q = o <=> s = other)
                             /\ (q # o => s = q)
    BY <1>3, <1>4
  <2>3. r = s
    BY <2>1, <2>2 DEF MemoryInv, BlocksApart
  <2> QED
    BY <2>1, <2>2, <2>3
<1>11. ThreadsApart'
  BY DEF MemoryInv, ThreadsApart, Fills
<1>12. KindsApart'
  <2>0. \A u \in Users : \A x : Fills(u, x)' <=> Fills(u, x)
    BY DEF Fills
  <2>1. ASSUME NEW x \in Addresses, NEW p \in Objects, BlockOwns(p, x)'
        PROVE  x # a /\ \E q \in Objects : BlockOwns(q, x)
    BY <2>1, <1>0, <1>1, <1>6 DEF BlockOwns, MemoryInv, BlocksApart
  <2>2. ASSUME NEW x \in Addresses, NEW p \in Objects, NEW u \in Users,
               BlockOwns(p, x)', Fills(u, x)'
        PROVE  FALSE
    BY <2>0, <2>1, <2>2 DEF MemoryInv, KindsApart
  <2>3. ASSUME NEW x \in Addresses, NEW p \in Objects, NEW i \in DOMAIN Buckets,
               BlockOwns(p, x)', Keeps(i, x)'
        PROVE  FALSE
    BY <1>2, <2>1, <2>3 DEF MemoryInv, KindsApart, GaveBack
  <2>4. ASSUME NEW x \in Addresses, NEW u \in Users, NEW i \in DOMAIN Buckets,
               Fills(u, x)', Keeps(i, x)'
        PROVE  FALSE
    <3>1. x # a
      BY <2>0, <2>4, <1>1 DEF MemoryInv, KindsApart, BlockOwns
    <3> QED
      BY <2>0, <2>4, <3>1, <1>2 DEF MemoryInv, KindsApart, GaveBack
  <2> QED
    BY <2>2, <2>3, <2>4 DEF KindsApart
<1>13. \A x \in Allocated' : Owned(x)'
  <2> SUFFICES ASSUME NEW x \in Allocated', x # a PROVE Owned(x)'
    BY <1>2 DEF GaveBack, Owned
  <2>1. x \in Allocated /\ x \in Addresses /\ Owned(x)
    BY <1>0, <1>2 DEF GaveBack, MemoryInv
  <2>2. (\E q \in Objects : BlockOwns(q, x)) => \E p \in Objects : BlockOwns(p, x)'
    BY <2>1, <1>0, <1>7 DEF BlockOwns
  <2> QED
    BY <2>1, <2>2, <1>2 DEF GaveBack, Owned, Fills
<1> QED
  BY <1>2, <1>5, <1>8, <1>9, <1>10, <1>11, <1>12, <1>13 DEF MemoryInv, GaveBack

-----------------------------------------------------------------------------
(* Getting a buffer, filling it, and writing to it.                        *)

\* The buffer at a left its stack or is new: no stack keeps it, nobody else had it.
Took(a, size) ==
    /\ a \in Addresses
    /\ stacks' \in [DOMAIN Buckets -> Seq(Addresses)]
    /\ heap' \in [Allocated' -> [capacity : Nat, content : Values]]
    /\ Allocated' = Allocated \cup {a}
    /\ \A x \in Allocated : heap'[x] = heap[x]
    /\ heap'[a].capacity = Capacity(size)
    /\ \A i \in DOMAIN Buckets : StackSound(i)'
    /\ \A i \in DOMAIN Buckets : \A x : Keeps(i, x)' <=> Keeps(i, x) /\ x # a
    /\ \A o \in Objects : ~BlockOwns(o, a)
    /\ \A t \in Users : ~Fills(t, a)

\* BlockStack::getBlock pops, under its mutex.
LEMMA PopTakes ==
    ASSUME ParametersAssumption, MemoryInv, NEW i \in DOMAIN Buckets, stacks[i] # << >>,
           NEW size, Capacity(size) = Buckets[i],
           stacks' = [stacks EXCEPT ![i] = Front(stacks[i])], heap' = heap
    PROVE  Took(Last(stacks[i]), size)
<1>0. /\ stacks \in [DOMAIN Buckets -> Seq(Addresses)] /\ MaxCount \in Nat
      /\ heap \in [Allocated -> [capacity : Nat, content : Values]] /\ Allocated \subseteq Addresses
  BY DEF MemoryInv, Types, ParametersAssumption
<1>1. PICK s \in Seq(Addresses) : s = stacks[i]
  BY <1>0
<1>2. PICK n \in Nat : n = Len(s) /\ n > 0
  BY <1>1
<1>3. DOMAIN s = 1..n /\ n \in 1..n /\ s[n] = Last(s) /\ s[n] \in Addresses
  BY <1>1, <1>2 DEF Last
<1>4. PICK a : a = s[n]
  OBVIOUS
<1>5. Front(s) \in Seq(Addresses) /\ Len(Front(s)) = n - 1
      /\ \A k \in 1..(n - 1) : Front(s)[k] = s[k]
  BY <1>1, <1>2 DEF Front
<1>6. DOMAIN Front(s) = 1..(n - 1)
  BY <1>5
<1>7. /\ stacks' \in [DOMAIN Buckets -> Seq(Addresses)] /\ stacks'[i] = Front(s)
      /\ \A j \in DOMAIN Buckets : j # i => stacks'[j] = stacks[j]
  BY <1>0, <1>1, <1>5
<1>8. StackSound(i)
  BY DEF MemoryInv
<1>9. a \in Allocated /\ heap[a].capacity = Buckets[i] /\ Keeps(i, a)
  BY <1>1, <1>3, <1>4, <1>8 DEF StackSound, Keeps
<1>10. Allocated' = Allocated /\ Allocated = Allocated \cup {a}
  BY <1>9 DEF Allocated
<1>11. StackSound(i)'
  <2>1. \A j \in 1..(n - 1) : j \in 1..n
    BY <1>2
  <2>2. Len(stacks'[i]) <= MaxCount + 1
    BY <1>0, <1>1, <1>2, <1>5, <1>7, <1>8 DEF StackSound
  <2>3. \A j, k \in DOMAIN stacks'[i] : stacks'[i][j] = stacks'[i][k] => j = k
    BY <1>1, <1>3, <1>5, <1>6, <1>7, <1>8, <2>1 DEF StackSound
  <2>4. \A k \in DOMAIN stacks'[i] : /\ stacks'[i][k] \in Allocated'
                                     /\ heap'[stacks'[i][k]].capacity = Buckets[i]
    BY <1>1, <1>3, <1>5, <1>6, <1>7, <1>8, <1>10, <2>1 DEF StackSound
  <2> QED
    BY <2>2, <2>3, <2>4 DEF StackSound
<1>12. \A j \in DOMAIN Buckets : StackSound(j)'
  <2> SUFFICES ASSUME NEW j \in DOMAIN Buckets, j # i PROVE StackSound(j)'
    BY <1>11
  <2> QED
    BY <1>7, <1>10 DEF MemoryInv, StackSound
<1>13. \A x : Keeps(i, x)' <=> Keeps(i, x) /\ x # a
  <2>1. \A k \in 1..n : k \in 1..(n - 1) \/ k = n
    BY <1>2
  <2>2. \A k \in 1..(n - 1) : k \in 1..n /\ k # n
    BY <1>2
  <2>3. \A k \in 1..(n - 1) : s[k] # a
    BY <1>1, <1>3, <1>4, <1>8, <2>2 DEF StackSound
  <2> QED
    BY <1>1, <1>3, <1>4, <1>5, <1>6, <1>7, <2>1, <2>2, <2>3 DEF Keeps
<1>14. \A j \in DOMAIN Buckets : j # i => ~Keeps(j, a)
  BY <1>9, StacksApart
<1>15. \A j \in DOMAIN Buckets : \A x : Keeps(j, x)' <=> Keeps(j, x) /\ x # a
  <2> SUFFICES ASSUME NEW j \in DOMAIN Buckets, j # i, NEW x
               PROVE  Keeps(j, x)' <=> Keeps(j, x) /\ x # a
    BY <1>13
  <2> QED
    BY <1>7, <1>14 DEF Keeps
<1>16. /\ \A o \in Objects : ~BlockOwns(o, a)
       /\ \A t \in Users : ~Fills(t, a)
  BY <1>0, <1>9 DEF MemoryInv, KindsApart
<1>17. Took(a, size)
  BY <1>0, <1>3, <1>4, <1>7, <1>9, <1>10, <1>12, <1>15, <1>16 DEF Took
<1> QED
  BY <1>1, <1>3, <1>4, <1>17

\* malloc places a new buffer where none is.
LEMMA MallocTakes ==
    ASSUME ParametersAssumption, MemoryInv, NEW a \in Addresses \ Allocated,
           NEW size \in Nat, Malloc(a, Capacity(size)), stacks' = stacks
    PROVE  Took(a, size)
<1>0. /\ stacks \in [DOMAIN Buckets -> Seq(Addresses)]
      /\ heap \in [Allocated -> [capacity : Nat, content : Values]] /\ Allocated \subseteq Addresses
  BY DEF MemoryInv, Types
<1>1. PICK c \in Nat : c = Capacity(size)
  BY BucketFacts
<1>2. heap' = [x \in Allocated \cup {a} |->
                 IF x = a THEN [capacity |-> c, content |-> Junk] ELSE heap[x]]
  BY <1>1 DEF Malloc
<1>3. Allocated' = Allocated \cup {a}
  BY <1>2 DEF Allocated
<1>4. /\ heap' \in [Allocated' -> [capacity : Nat, content : Values]]
      /\ \A x \in Allocated : heap'[x] = heap[x]
      /\ heap'[a].capacity = c
  BY <1>0, <1>2, <1>3 DEF Values
<1>5. \A i \in DOMAIN Buckets : StackSound(i)'
  BY <1>3, <1>4 DEF MemoryInv, StackSound
<1>6. \A i \in DOMAIN Buckets : ~Keeps(i, a)
  BY DEF MemoryInv, StackSound, Keeps
<1>7. \A o \in Objects : ~BlockOwns(o, a)
  BY DEF MemoryInv, BlockSound, BlockOwns, ParametersAssumption
<1>8. \A t \in Users : ~Fills(t, a)
  BY DEF MemoryInv, WorkSound, Fills, ParametersAssumption
<1> QED
  BY <1>0, <1>1, <1>3, <1>4, <1>5, <1>6, <1>7, <1>8 DEF Took, Keeps

\* The thread that took the buffer is its only owner.
LEMMA TookStep ==
    ASSUME ParametersAssumption, MemoryInv, NEW t \in Users, pending[t] # nullptr,
           pending[t].data = nullptr, NEW a, Took(a, pending[t].size),
           pending' = [pending EXCEPT ![t].data = a], block' = block
    PROVE  MemoryInv'
<1>0. /\ nullptr \notin Addresses /\ nullptr \notin Work /\ Allocated \subseteq Addresses
      /\ pending \in [Users -> Work \cup {nullptr}]
  BY DEF MemoryInv, Types, ParametersAssumption
<1>1. PICK p \in Work : p = pending[t]
  BY <1>0
<1>2. PICK w : w = [p EXCEPT !.data = a]
  OBVIOUS
<1>3. w \in Work /\ w # nullptr /\ w.object = p.object /\ w.size = p.size /\ w.data = a
  BY <1>0, <1>2 DEF Work, Took
<1>4. /\ pending' \in [Users -> Work \cup {nullptr}] /\ pending'[t] = w
      /\ \A u \in Users : u # t => pending'[u] = pending[u]
  BY <1>0, <1>1, <1>2, <1>3
<1>5. Types'
  BY <1>0, <1>4 DEF Types, Took, MemoryInv
<1>6. \A o \in Objects : BlockSound(o)'
  BY DEF MemoryInv, BlockSound, Took
<1>7. \A u \in Users : WorkSound(u)'
  <2> SUFFICES ASSUME NEW u \in Users PROVE WorkSound(u)'
    OBVIOUS
  <2>0. WorkSound(u)
    BY DEF MemoryInv
  <2>1. CASE u = t
    <3>1. p.object[1] = t /\ p.size > 0 /\ block[p.object].data = nullptr
      BY <1>1, <2>0, <2>1 DEF WorkSound
    <3>2. a \in Allocated' /\ heap'[a].capacity = Capacity(p.size)
      BY <1>1 DEF Took
    <3> QED
      BY <2>1, <3>1, <3>2, <1>3, <1>4 DEF WorkSound
  <2>2. CASE u # t
    <3>1. pending'[u] = pending[u]
      BY <1>4, <2>2
    <3> QED
      BY <2>0, <3>1 DEF WorkSound, Took
  <2> QED
    BY <2>1, <2>2
<1>8. BlocksApart'
  BY DEF MemoryInv, BlocksApart
<1>9. \A u \in Users : \A x \in Addresses :
        Fills(u, x)' <=> (IF u = t THEN x = a ELSE Fills(u, x))
  BY <1>3, <1>4 DEF Fills
<1>10. ThreadsApart'
  <2> SUFFICES ASSUME NEW u \in Users, NEW v \in Users, NEW x \in Addresses,
                      Fills(u, x)', Fills(v, x)'
               PROVE  u = v
    BY DEF ThreadsApart
  <2> QED
    BY <1>9 DEF MemoryInv, ThreadsApart, Took
<1>11. KindsApart'
  <2>1. ASSUME NEW x \in Addresses, NEW o \in Objects, NEW u \in Users,
               BlockOwns(o, x)', Fills(u, x)'
        PROVE  FALSE
    BY <2>1, <1>9 DEF MemoryInv, KindsApart, Took, BlockOwns
  <2>2. ASSUME NEW x \in Addresses, NEW o \in Objects, NEW i \in DOMAIN Buckets,
               BlockOwns(o, x)', Keeps(i, x)'
        PROVE  FALSE
    BY <2>2 DEF MemoryInv, KindsApart, Took, BlockOwns
  <2>3. ASSUME NEW x \in Addresses, NEW u \in Users, NEW i \in DOMAIN Buckets,
               Fills(u, x)', Keeps(i, x)'
        PROVE  FALSE
    BY <2>3, <1>9 DEF MemoryInv, KindsApart, Took
  <2> QED
    BY <2>1, <2>2, <2>3 DEF KindsApart
<1>12. \A x \in Allocated' : Owned(x)'
  <2> SUFFICES ASSUME NEW x \in Allocated' PROVE Owned(x)'
    OBVIOUS
  <2>1. CASE x = a
    BY <2>1, <1>9 DEF Owned, Took
  <2>2. CASE x # a
    <3>1. x \in Allocated /\ x \in Addresses /\ Owned(x)
      BY <2>2, <1>0 DEF Took, MemoryInv
    <3>2. ~Fills(t, x)
      BY <1>0, <3>1 DEF Fills
    <3> QED
      BY <2>2, <3>1, <3>2, <1>9 DEF Owned, Took, BlockOwns
  <2> QED
    BY <2>1, <2>2
<1> QED
  BY <1>5, <1>6, <1>7, <1>8, <1>10, <1>11, <1>12 DEF MemoryInv, Took

\* Manager::getBlock, with a stack or without one.
LEMMA GetBlockStep ==
    ASSUME ParametersAssumption, MemoryInv, NEW t \in Users, GetBlock(t)
    PROVE  MemoryInv'
<1>1. PICK size, i : size = pending[t].size /\ i = BucketOf(size)
  OBVIOUS
<1>2. size \in Nat
  <2>1. pending[t] \in Work
    BY DEF GetBlock, MemoryInv, Types
  <2> QED
    BY <1>1, <2>1 DEF Work, ParametersAssumption
<1>3. pending[t] # nullptr /\ pending[t].data = nullptr /\ block' = block
  BY DEF GetBlock
<1>4. CASE i > 0 /\ stacks[i] # << >>
  <2>1. i \in DOMAIN Buckets /\ Capacity(size) = Buckets[i]
    BY <1>1, <1>2, <1>4, BucketFacts
  <2>2. /\ pending' = [pending EXCEPT ![t].data = Last(stacks[i])]
        /\ stacks' = [stacks EXCEPT ![i] = Front(stacks[i])] /\ heap' = heap
    BY <1>1, <1>4 DEF GetBlock, TakeBuffer
  <2>3. Took(Last(stacks[i]), size)
    BY <1>4, <2>1, <2>2, PopTakes
  <2> QED
    BY <1>1, <1>3, <2>2, <2>3, TookStep
<1>5. CASE ~(i > 0 /\ stacks[i] # << >>)
  <2>1. PICK a \in Addresses \ Allocated :
            /\ Malloc(a, Capacity(size))
            /\ pending' = [pending EXCEPT ![t].data = a]
            /\ stacks' = stacks
    BY <1>1, <1>5 DEF GetBlock, TakeBuffer
  <2>2. Took(a, size)
    BY <1>2, <2>1, MallocTakes
  <2> QED
    BY <1>1, <1>3, <2>1, <2>2, TookStep
<1> QED
  BY <1>4, <1>5

\* The bytes of one buffer change, its capacity and the other buffers do not.
LEMMA ContentWritten ==
    ASSUME MemoryInv, NEW a \in Allocated, NEW c \in Values,
           heap' = [heap EXCEPT ![a].content = c]
    PROVE  /\ Allocated' = Allocated
           /\ heap' \in [Allocated' -> [capacity : Nat, content : Values]]
           /\ heap'[a].content = c
           /\ \A x \in Allocated : heap'[x].capacity = heap[x].capacity
           /\ \A x \in Allocated : x # a => heap'[x] = heap[x]
<1>1. heap \in [Allocated -> [capacity : Nat, content : Values]]
  BY DEF MemoryInv, Types
<1>2. Allocated' = Allocated
  BY <1>1 DEF Allocated
<1> QED
  BY <1>1, <1>2

\* The constructor clears the buffer, copies its bytes and has its Block own it.
LEMMA FillStep ==
    ASSUME ParametersAssumption, MemoryInv, NEW t \in Users, Fill(t)
    PROVE  MemoryInv'
<1>0. /\ nullptr \notin Addresses /\ nullptr \notin Work /\ Allocated \subseteq Addresses
      /\ pending \in [Users -> Work \cup {nullptr}] /\ block \in [Objects -> Records]
      /\ stacks \in [DOMAIN Buckets -> Seq(Addresses)]
  BY DEF MemoryInv, Types, ParametersAssumption, Records
<1>1. PICK p \in Work : p = pending[t]
  BY <1>0 DEF Fill
<1>2. PICK a, o : a = p.data /\ o = p.object
  OBVIOUS
<1>3. /\ a \in Allocated /\ a \in Addresses /\ a # nullptr
      /\ heap[a].capacity = Capacity(p.size) /\ p.size > 0
      /\ o \in Objects /\ o[1] = t /\ block[o].data = nullptr
  <2>1. WorkSound(t) /\ pending[t] # nullptr /\ pending[t].data # nullptr
    BY DEF MemoryInv, Fill
  <2> QED
    BY <1>0, <1>1, <1>2, <2>1 DEF WorkSound, Work
<1>4. p.content \in Values /\ p.size \in Sizes
  BY <1>1 DEF Work
<1>5. PICK r : r = [size |-> p.size, data |-> a, live |-> TRUE, expected |-> p.content]
  OBVIOUS
<1>6. /\ heap' = [heap EXCEPT ![a].content = p.content]
      /\ block' = [block EXCEPT ![o] = r]
      /\ pending' = [pending EXCEPT ![t] = nullptr]
      /\ stacks' = stacks
  BY <1>1, <1>2, <1>5 DEF Fill, Written
<1>7. /\ Allocated' = Allocated
      /\ heap' \in [Allocated' -> [capacity : Nat, content : Values]]
      /\ heap'[a].content = p.content
      /\ \A x \in Allocated : heap'[x].capacity = heap[x].capacity
      /\ \A x \in Allocated : x # a => heap'[x] = heap[x]
  BY <1>3, <1>4, <1>6, ContentWritten
<1>8. r \in Records /\ r.size = p.size /\ r.data = a /\ r.live = TRUE /\ r.expected = p.content
  BY <1>3, <1>4, <1>5 DEF Records
<1>9. /\ block' \in [Objects -> Records] /\ block'[o] = r
      /\ \A q \in Objects : q # o => block'[q] = block[q]
  BY <1>0, <1>3, <1>6, <1>8
<1>10. /\ pending' \in [Users -> Work \cup {nullptr}] /\ pending'[t] = nullptr
       /\ \A u \in Users : u # t => pending'[u] = pending[u]
  BY <1>0, <1>6
<1>11. Types'
  BY <1>0, <1>6, <1>7, <1>9, <1>10 DEF Types, Records
<1>12. Fills(t, a)
  BY <1>0, <1>1, <1>2 DEF Fills
<1>13. \A q \in Objects : BlockSound(q)'
  <2> SUFFICES ASSUME NEW q \in Objects PROVE BlockSound(q)'
    OBVIOUS
  <2>1. CASE q = o
    <3>1. heap'[a].capacity = Capacity(p.size) /\ a \in Allocated'
      BY <1>3, <1>7
    <3> QED
      BY <2>1, <3>1, <1>3, <1>7, <1>8, <1>9 DEF BlockSound
  <2>2. CASE q # o
    <3>1. block'[q] = block[q] /\ BlockSound(q)
      BY <2>2, <1>9 DEF MemoryInv
    <3>2. block[q].data # a
      BY <1>3, <1>12 DEF MemoryInv, KindsApart, BlockOwns
    <3>3. block[q].data # nullptr => heap'[block[q].data] = heap[block[q].data]
                                  /\ block[q].data \in Allocated'
      BY <1>7, <3>1, <3>2 DEF BlockSound
    <3> QED
      BY <3>1, <3>3 DEF BlockSound
  <2> QED
    BY <2>1, <2>2
<1>14. \A u \in Users : WorkSound(u)'
  <2> SUFFICES ASSUME NEW u \in Users, u # t, pending[u] # nullptr PROVE WorkSound(u)'
    BY <1>10 DEF WorkSound
  <2>1. pending'[u] = pending[u] /\ WorkSound(u) /\ pending[u] \in Work
    BY <1>0, <1>10 DEF MemoryInv
  <2>2. pending[u].object \in Objects /\ pending[u].object # o
    BY <1>3, <2>1 DEF WorkSound, Work
  <2>3. block'[pending[u].object] = block[pending[u].object]
    BY <1>9, <2>2
  <2> QED
    BY <1>7, <2>1, <2>3 DEF WorkSound
<1>15. \A i \in DOMAIN Buckets : StackSound(i)'
  BY <1>6, <1>7 DEF MemoryInv, StackSound
<1>16. BlocksApart'
  <2>1. \A q \in Objects : block[q].data # a
    BY <1>3, <1>12 DEF MemoryInv, KindsApart, BlockOwns
  <2> QED
    BY <2>1, <1>8, <1>9 DEF MemoryInv, BlocksApart
<1>17. \A u \in Users : \A x \in Addresses : Fills(u, x)' <=> Fills(u, x) /\ u # t
  BY <1>10 DEF Fills
<1>18. ThreadsApart'
  BY <1>17 DEF MemoryInv, ThreadsApart
<1>19. \A q \in Objects : \A x \in Addresses :
         BlockOwns(q, x)' => BlockOwns(q, x) \/ x = a
  BY <1>8, <1>9 DEF BlockOwns
<1>20. \A x \in Addresses : Fills(t, x) => x = a
  BY <1>1, <1>2 DEF Fills
<1>21. \A i \in DOMAIN Buckets : \A x : Keeps(i, x)' <=> Keeps(i, x)
  BY <1>6 DEF Keeps
<1>22. KindsApart'
  <2>1. ASSUME NEW x \in Addresses, NEW q \in Objects, NEW u \in Users,
               BlockOwns(q, x)', Fills(u, x)'
        PROVE  FALSE
    BY <2>1, <1>12, <1>17, <1>19 DEF MemoryInv, KindsApart, ThreadsApart
  <2>2. ASSUME NEW x \in Addresses, NEW q \in Objects, NEW i \in DOMAIN Buckets,
               BlockOwns(q, x)', Keeps(i, x)'
        PROVE  FALSE
    BY <2>2, <1>12, <1>19, <1>21 DEF MemoryInv, KindsApart
  <2>3. ASSUME NEW x \in Addresses, NEW u \in Users, NEW i \in DOMAIN Buckets,
               Fills(u, x)', Keeps(i, x)'
        PROVE  FALSE
    BY <2>3, <1>17, <1>21 DEF MemoryInv, KindsApart
  <2> QED
    BY <2>1, <2>2, <2>3 DEF KindsApart
<1>23. \A x \in Allocated' : Owned(x)'
  <2> SUFFICES ASSUME NEW x \in Allocated' PROVE Owned(x)'
    OBVIOUS
  <2>1. CASE x = a
    <3>1. BlockOwns(o, a)'
      BY <1>8, <1>9 DEF BlockOwns
    <3> QED
      BY <2>1, <3>1, <1>3 DEF Owned
  <2>2. CASE x # a
    <3>1. x \in Addresses /\ Owned(x)
      BY <1>0, <1>7 DEF MemoryInv
    <3>2. \A q \in Objects : BlockOwns(q, x) => BlockOwns(q, x)'
      BY <1>0, <1>3, <1>9, <3>1 DEF BlockOwns
    <3> QED
      BY <2>2, <3>1, <3>2, <1>17, <1>20, <1>21 DEF Owned
  <2> QED
    BY <2>1, <2>2
<1> QED
  BY <1>11, <1>13, <1>14, <1>15, <1>16, <1>18, <1>22, <1>23 DEF MemoryInv

\* A program writes into the buffer of its Block, which is nobody else's.
LEMMA WriteStep ==
    ASSUME ParametersAssumption, MemoryInv, NEW t \in Users, NEW o \in Objects,
           NEW c \in Contents, Write(t, o, c)
    PROVE  MemoryInv'
<1>0. /\ Allocated \subseteq Addresses /\ block \in [Objects -> Records]
      /\ pending \in [Users -> Work \cup {nullptr}]
      /\ stacks \in [DOMAIN Buckets -> Seq(Addresses)]
  BY DEF MemoryInv, Types, Records
<1>1. PICK a : a = block[o].data
  OBVIOUS
<1>2. a \in Allocated /\ a # nullptr /\ c \in Values
  BY <1>1 DEF Write, MemoryInv, BlockSound, Values
<1>3. heap' = [heap EXCEPT ![a].content = c] /\ pending' = pending /\ stacks' = stacks
  BY <1>1 DEF Write
<1>4. /\ Allocated' = Allocated
      /\ heap' \in [Allocated' -> [capacity : Nat, content : Values]]
      /\ heap'[a].content = c
      /\ \A x \in Allocated : heap'[x].capacity = heap[x].capacity
      /\ \A x \in Allocated : x # a => heap'[x] = heap[x]
  BY <1>2, <1>3, ContentWritten
<1>5. block' = [block EXCEPT ![o].expected = c]
  BY DEF Write
<1>6. /\ block' \in [Objects -> Records] /\ block'[o].expected = c
      /\ \A q \in Objects : /\ block'[q].size = block[q].size /\ block'[q].data = block[q].data
                            /\ block'[q].live = block[q].live
      /\ \A q \in Objects : q # o => block'[q] = block[q]
  BY <1>0, <1>2, <1>5 DEF Records
<1>7. Types'
  BY <1>0, <1>3, <1>4, <1>6 DEF Types, Records
<1>8. \A q \in Objects : BlockSound(q)'
  <2> SUFFICES ASSUME NEW q \in Objects PROVE BlockSound(q)'
    OBVIOUS
  <2>0. BlockSound(q)
    BY DEF MemoryInv
  <2>1. CASE q = o
    BY <2>0, <2>1, <1>1, <1>2, <1>4, <1>6 DEF BlockSound
  <2>2. CASE q # o
    <3>1. block[q].data # nullptr => block[q].data # a
      BY <2>2, <1>1 DEF MemoryInv, BlocksApart
    <3>2. block[q].data # nullptr => heap'[block[q].data] = heap[block[q].data]
                                  /\ block[q].data \in Allocated'
      BY <1>4, <2>0, <3>1 DEF BlockSound
    <3> QED
      BY <2>0, <2>2, <3>2, <1>6 DEF BlockSound
  <2> QED
    BY <2>1, <2>2
<1>9. \A u \in Users : WorkSound(u)'
  <2> SUFFICES ASSUME NEW u \in Users, pending[u] # nullptr PROVE WorkSound(u)'
    BY <1>3 DEF WorkSound
  <2>1. WorkSound(u) /\ pending[u].object \in Objects
    BY <1>0 DEF MemoryInv, Work
  <2> QED
    BY <2>1, <1>3, <1>4, <1>6 DEF WorkSound
<1>10. \A i \in DOMAIN Buckets : StackSound(i)'
  BY <1>3, <1>4 DEF MemoryInv, StackSound
<1>11. BlocksApart' /\ ThreadsApart'
  BY <1>3, <1>6 DEF MemoryInv, BlocksApart, ThreadsApart, Fills
<1>12. KindsApart'
  BY <1>3, <1>6 DEF MemoryInv, KindsApart, BlockOwns, Fills, Keeps
<1>13. \A x \in Allocated' : Owned(x)'
  BY <1>3, <1>4, <1>6 DEF MemoryInv, Owned, BlockOwns, Fills, Keeps
<1> QED
  BY <1>7, <1>8, <1>9, <1>10, <1>11, <1>12, <1>13 DEF MemoryInv

-----------------------------------------------------------------------------
(* The steps of a program's own calls.                                     *)

\* What a Block asks for when it copies another one: its size and its bytes.
LEMMA CopiesSizeAndBytes ==
    ASSUME ParametersAssumption, MemoryInv, NEW other \in Objects, block[other].size # 0
    PROVE  /\ block[other].size \in Sizes /\ block[other].size > 0
           /\ heap[block[other].data].content \in Values
<1>1. block[other].size \in Sizes /\ block[other].size \in Nat
  BY SizeIsNat DEF MemoryInv, Types
<1>2. block[other].size > 0
  BY <1>1
<1>3. block[other].data \in Allocated
  BY <1>2 DEF MemoryInv, BlockSound
<1> QED
  BY <1>1, <1>2, <1>3 DEF MemoryInv, Types

\* An empty Block and one that is not constructed have no buffer.
LEMMA EmptyAndAbsent ==
    Empty \in EmptyRecords /\ Absent \in EmptyRecords
  BY DEF Empty, Absent, EmptyRecords, Records, Values

\* A Block that is not alive gives nothing back.
LEMMA NotAlive ==
    ASSUME ParametersAssumption, MemoryInv, NEW o \in Objects, ~block[o].live,
           stacks' = stacks, heap' = heap
    PROVE  GaveBack(block[o].data) /\ block[o] \in EmptyRecords
<1>1. block[o].data = nullptr
  BY DEF MemoryInv, BlockSound
<1>2. BlockClear(o)
  BY <1>1 DEF BlockClear
<1>3. block[o].size \in Nat /\ ~(block[o].size > 0) /\ block[o] \in Records
  BY <1>1, SizeIsNat DEF MemoryInv, BlockSound, Types, Records
<1> QED
  BY <1>1, <1>2, <1>3, ClearGivesBack DEF EmptyRecords

\* Block(size) and Block(size, data): empty at once, or a buffer to get.
LEMMA ConstructStep ==
    ASSUME ParametersAssumption, MemoryInv, NEW t \in Users, NEW o \in Objects, o[1] = t,
           pending[t] = nullptr, NEW size \in Sizes, NEW c \in Contents \cup {Zero},
           Construct(t, o, size, c)
    PROVE  MemoryInv'
<1>1. GaveBack(block[o].data) /\ block[o] \in EmptyRecords
  BY NotAlive DEF Construct
<1>2. CASE size = 0
  <2>1. block' = [block EXCEPT ![o] = Empty] /\ AsksFor(t, o)
    BY <1>2 DEF Construct, AsksFor
  <2> QED
    BY <1>1, <2>1, EmptyAndAbsent, EmptyStep
<1>3. CASE size # 0
  <2>1. size > 0 /\ c \in Values
    <3>1. size \in Nat
      BY DEF ParametersAssumption
    <3> QED
      BY <1>3, <3>1 DEF Values
  <2>2. AsksFor(t, o)
    BY <1>3, <2>1 DEF Construct, AsksFor
  <2>3. block' = [block EXCEPT ![o] = block[o]]
    BY <1>3 DEF Construct, MemoryInv, Types
  <2> QED
    BY <1>1, <2>2, <2>3, EmptyStep
<1> QED
  BY <1>2, <1>3

\* The copy constructor: as a constructor with the other's size and bytes.
LEMMA CopyConstructStep ==
    ASSUME ParametersAssumption, MemoryInv, NEW t \in Users, NEW o \in Objects, o[1] = t,
           pending[t] = nullptr, NEW other \in Objects, CopyConstruct(t, o, other)
    PROVE  MemoryInv'
<1>1. GaveBack(block[o].data) /\ block[o] \in EmptyRecords
  BY NotAlive DEF CopyConstruct
<1>2. CASE block[other].size = 0
  <2>1. block' = [block EXCEPT ![o] = Empty] /\ AsksFor(t, o)
    BY <1>2 DEF CopyConstruct, AsksFor
  <2> QED
    BY <1>1, <2>1, EmptyAndAbsent, EmptyStep
<1>3. CASE block[other].size # 0
  <2>1. AsksFor(t, o)
    BY <1>3, CopiesSizeAndBytes DEF CopyConstruct, AsksFor
  <2>2. block' = [block EXCEPT ![o] = block[o]]
    BY <1>3 DEF CopyConstruct, MemoryInv, Types
  <2> QED
    BY <1>1, <2>1, <2>2, EmptyStep
<1> QED
  BY <1>2, <1>3

\* operator= for a copy: the own buffer is given back before another one is asked for.
LEMMA CopyAssignStep ==
    ASSUME ParametersAssumption, MemoryInv, NEW t \in Users, NEW o \in Objects, o[1] = t,
           pending[t] = nullptr, NEW other \in Objects, CopyAssign(t, o, other)
    PROVE  MemoryInv'
<1>1. GaveBack(block[o].data)
  BY ClearGivesBack DEF CopyAssign, AssignClears
<1>2. block' = [block EXCEPT ![o] = Empty]
  BY DEF CopyAssign
<1>3. AsksFor(t, o)
  <2>1. CASE block[other].size = 0
    BY <2>1 DEF CopyAssign, AsksFor
  <2>2. CASE block[other].size # 0
    BY <2>2, CopiesSizeAndBytes DEF CopyAssign, AsksFor
  <2> QED
    BY <2>1, <2>2
<1> QED
  BY <1>1, <1>2, <1>3, EmptyAndAbsent, EmptyStep

\* Every step keeps the buffers sound.
LEMMA MemoryInvNext ==
    ASSUME ParametersAssumption, MemoryInv, [MemoryNext]_memoryVars
    PROVE  MemoryInv'
<1>1. CASE UNCHANGED memoryVars
  <2>1. block' = block /\ pending' = pending /\ stacks' = stacks /\ heap' = heap
    BY <1>1 DEF memoryVars
  <2> QED
    BY <2>1 DEF MemoryInv, Types, BlockSound, WorkSound, StackSound, BlocksApart, ThreadsApart,
                KindsApart, Owned, BlockOwns, Fills, Keeps, Allocated
<1>2. ASSUME NEW t \in Users, GetBlock(t) PROVE MemoryInv'
  BY <1>2, GetBlockStep
<1>3. ASSUME NEW t \in Users, Fill(t) PROVE MemoryInv'
  BY <1>3, FillStep
<1>4. ASSUME NEW t \in Users, pending[t] = nullptr, NEW n \in Names, NEW o, o = <<t, n>>,
             \/ \E size \in Sizes, c \in Contents \cup {Zero} : Construct(t, o, size, c)
             \/ \E m \in Names : \/ CopyConstruct(t, o, <<t, m>>)
                                 \/ MoveConstruct(t, o, <<t, m>>)
                                 \/ MoveAssign(t, o, <<t, m>>)
                                 \/ CopyAssign(t, o, <<t, m>>)
             \/ Destroy(t, o)
             \/ \E c \in Contents : Write(t, o, c)
      PROVE  MemoryInv'
  <2>0. o \in Objects /\ o[1] = t /\ \A m \in Names : <<t, m>> \in Objects /\ <<t, m>>[1] = t
    BY <1>4 DEF Objects
  <2>1. ASSUME NEW size \in Sizes, NEW c \in Contents \cup {Zero}, Construct(t, o, size, c)
        PROVE  MemoryInv'
    BY <1>4, <2>0, <2>1, ConstructStep
  <2>2. ASSUME NEW other \in Objects, CopyConstruct(t, o, other)
        PROVE  MemoryInv'
    BY <1>4, <2>0, <2>2, CopyConstructStep
  <2>3. ASSUME NEW other \in Objects, other[1] = t, MoveConstruct(t, o, other)
        PROVE  MemoryInv'
    <3>1. GaveBack(block[o].data)
      BY <2>0, <2>3, NotAlive DEF MoveConstruct
    <3> QED
      BY <1>4, <2>0, <2>3, <3>1, MoveStep DEF MoveConstruct
  <2>4. ASSUME NEW other \in Objects, other[1] = t, MoveAssign(t, o, other)
        PROVE  MemoryInv'
    <3>1. GaveBack(block[o].data)
      BY <2>0, <2>4, ClearGivesBack DEF MoveAssign, AssignClears
    <3> QED
      BY <1>4, <2>0, <2>4, <3>1, MoveStep DEF MoveAssign
  <2>5. ASSUME NEW other \in Objects, CopyAssign(t, o, other)
        PROVE  MemoryInv'
    BY <1>4, <2>0, <2>5, CopyAssignStep
  <2>6. ASSUME Destroy(t, o)
        PROVE  MemoryInv'
    <3>1. GaveBack(block[o].data) /\ block' = [block EXCEPT ![o] = Absent] /\ AsksFor(t, o)
      BY <2>0, <2>6, ClearGivesBack DEF Destroy, AsksFor
    <3> QED
      BY <1>4, <2>0, <3>1, EmptyAndAbsent, EmptyStep
  <2>7. ASSUME NEW c \in Contents, Write(t, o, c)
        PROVE  MemoryInv'
    BY <2>0, <2>7, WriteStep
  <2>8. ASSUME NEW m \in Names, \/ CopyConstruct(t, o, <<t, m>>)
                                \/ MoveConstruct(t, o, <<t, m>>)
                                \/ MoveAssign(t, o, <<t, m>>)
                                \/ CopyAssign(t, o, <<t, m>>)
        PROVE  MemoryInv'
    <3>1. <<t, m>> \in Objects /\ <<t, m>>[1] = t
      BY <2>0
    <3> QED
      BY <2>2, <2>3, <2>4, <2>5, <2>8, <3>1
  <2> QED
    BY <1>4, <2>1, <2>6, <2>7, <2>8
<1>5. ASSUME NEW t \in Users, MemoryStep(t) PROVE MemoryInv'
  BY <1>2, <1>3, <1>4, <1>5 DEF MemoryStep
<1> QED
  BY <1>1, <1>5 DEF MemoryNext

(* Whatever the threads do with their Blocks, and in whatever order their  *)
(* getBlock and releaseBlock calls reach the stacks' mutexes: no buffer    *)
(* has two owners and none is lost, each has room for its size and holds   *)
(* what its Block was given, and no stack grows beyond its limit.          *)
THEOREM BuffersStaySound ==
    ASSUME ParametersAssumption
    PROVE  MemorySpec => []BuffersSound
<1>1. MemoryInit => MemoryInv
  BY MemoryInvInit
<1>2. MemoryInv /\ [MemoryNext]_memoryVars => MemoryInv'
  BY MemoryInvNext
<1>3. MemoryInv => BuffersSound
  BY ResultOfInv
<1> QED
  BY <1>1, <1>2, <1>3, PTL DEF MemorySpec
=============================================================================
