------------------------------ MODULE HashList ------------------------------
(***************************************************************************)
(* DRHashList: a sorted array of items in memory that grows by Growth, the *)
(* binary search that all its functions share, one probe a step, and the   *)
(* gaps that addByHash and removeByHash open and close.                    *)
(***************************************************************************)
EXTENDS Integers, FiniteSets

CONSTANTS
    Hashes, Data,
    Growth,          \* 32
    Sizes,           \* what resize is called with
    MaxMemory,       \* bound on m_maxItems
    Nothing

ASSUME HashesAssumption == Hashes \subseteq Nat /\ Growth \in Nat \ {0} /\ Sizes \subseteq Nat

VARIABLES
    m_pItems,        \* the memory: 0 .. m_maxItems - 1 -> [hashValue, data]
    m_nItems, m_maxItems,
    request,         \* the call that runs: its name, hash and data
    window,          \* window[0], window[1], window[2]
    pc,              \* "idle", "search", "found", "missed"
    answer

listVars == <<m_pItems, m_nItems, m_maxItems, request, window, pc, answer>>

Junk == [hashValue |-> Nothing, data |-> Nothing]
Memory(n) == [k \in 0 .. n - 1 |-> IF k \in DOMAIN m_pItems THEN m_pItems[k] ELSE Junk]
NoRequest == [name |-> "none", hash |-> Nothing, data |-> Nothing]

Answer(result) ==
    /\ answer' = [op |-> request.name, hash |-> request.hash, result |-> result]
    /\ pc' = "idle" /\ request' = NoRequest /\ window' = <<0, 0, 0>>

(***************************************************************************)
(* The calls                                                               *)
(***************************************************************************)
ListCall(name, h, d) ==
    /\ pc = "idle"
    /\ request' = [name |-> name, hash |-> h, data |-> d]
    /\ window' = <<0, 0, m_nItems - 1>>
    /\ pc' = IF m_nItems = 0 THEN "missed" ELSE "search"
    /\ UNCHANGED <<m_pItems, m_nItems, m_maxItems, answer>>

ItemExists == \E h \in Hashes : ListCall("exists", h, Nothing)
FindByHash == \E h \in Hashes : ListCall("find", h, Nothing)
AddByHash == \E h \in Hashes, d \in Data : ListCall("add", h, d)
RemoveByHash == \E h \in Hashes : ListCall("remove", h, Nothing)

Middle == (window[1] + window[3]) \div 2

(* Fault: the upper half still holds the item that was probed. *)
ProbeStays ==
    LET mid == Middle
        at == m_pItems[mid].hashValue
    IN /\ pc = "search"
       /\ IF at = request.hash THEN pc' = "found" /\ window' = [window EXCEPT ![2] = mid]
          ELSE LET next == IF at < request.hash THEN <<mid, mid, window[3]>>
                                           ELSE <<window[1], mid, mid - 1>>
               IN window' = next /\ pc' = IF next[1] <= next[3] THEN "search" ELSE "missed"
       /\ UNCHANGED <<m_pItems, m_nItems, m_maxItems, request, answer>>

(* One turn of the loop in itemExists, findByHash and findIndexForHash     *)
Probe ==
    LET mid == Middle
        at == m_pItems[mid].hashValue
    IN /\ pc = "search"
       /\ IF at = request.hash THEN pc' = "found" /\ window' = [window EXCEPT ![2] = mid]
          ELSE LET next == IF at < request.hash THEN <<mid + 1, mid, window[3]>>
                                           ELSE <<window[1], mid, mid - 1>>
               IN window' = next /\ pc' = IF next[1] <= next[3] THEN "search" ELSE "missed"
       /\ UNCHANGED <<m_pItems, m_nItems, m_maxItems, request, answer>>

AnswerExists ==
    /\ request.name = "exists" /\ pc \in {"found", "missed"}
    /\ Answer(pc = "found")
    /\ UNCHANGED <<m_pItems, m_nItems, m_maxItems>>

AnswerFind ==
    /\ request.name = "find" /\ pc \in {"found", "missed"}
    /\ Answer(IF pc = "found" THEN m_pItems[window[2]].data ELSE Nothing)
    /\ UNCHANGED <<m_pItems, m_nItems, m_maxItems>>

(* Fault: the place of the last probe, even if that item is smaller.       *)
IndexOfProbe == IF m_nItems = 0 THEN 0 ELSE window[2]

(* findIndexForHash: behind the last probe if that item is smaller         *)
IndexForHash ==
    IF m_nItems = 0 THEN 0
    ELSE IF pc = "missed" /\ m_pItems[window[2]].hashValue < request.hash
    THEN window[2] + 1 ELSE window[2]

AlreadyHere(i) == i # m_nItems /\ m_pItems[i].hashValue = request.hash

Grown == IF m_nItems = m_maxItems THEN m_maxItems + Growth ELSE m_maxItems

AnswerAdd ==
    LET to == IndexForHash
        memory == Memory(Grown)
    IN /\ request.name = "add" /\ pc \in {"found", "missed"}
       /\ IF AlreadyHere(to)
          THEN Answer(FALSE) /\ UNCHANGED <<m_pItems, m_nItems, m_maxItems>>
          ELSE /\ Grown <= MaxMemory
               /\ m_maxItems' = Grown
               /\ m_pItems' = [k \in DOMAIN memory |->
                      IF k = to THEN [hashValue |-> request.hash, data |-> request.data]
                      ELSE IF k > to /\ k <= m_nItems THEN memory[k - 1] ELSE memory[k]]
               /\ m_nItems' = m_nItems + 1
               /\ Answer(TRUE)

AnswerRemove ==
    LET at == IndexForHash
    IN /\ request.name = "remove" /\ pc \in {"found", "missed"}
       /\ IF ~AlreadyHere(at) THEN Answer(FALSE) /\ UNCHANGED <<m_pItems, m_nItems>>
          ELSE /\ m_nItems' = m_nItems - 1
               /\ m_pItems' = [k \in DOMAIN m_pItems |->
                      IF k >= at /\ k < m_nItems - 1 THEN m_pItems[k + 1] ELSE m_pItems[k]]
               /\ Answer(TRUE)
       /\ UNCHANGED m_maxItems

SetDataByIndex ==
    /\ pc = "idle"
    /\ \E i \in 0 .. m_nItems - 1, d \in Data :
          /\ m_pItems' = [m_pItems EXCEPT ![i].data = d]
          /\ answer' = [op |-> "set", hash |-> m_pItems[i].hashValue, result |-> TRUE]
    /\ UNCHANGED <<m_nItems, m_maxItems, request, window, pc>>

ListClear ==
    /\ pc = "idle"
    /\ m_nItems' = 0
    /\ \/ UNCHANGED <<m_pItems, m_maxItems>>
       \/ m_pItems' = Memory(0) /\ m_maxItems' = 0
    /\ UNCHANGED <<request, window, pc, answer>>

Resize ==
    /\ pc = "idle"
    /\ \E size \in Sizes :
          /\ size > m_maxItems
          /\ m_maxItems' = size /\ m_pItems' = Memory(size)
    /\ UNCHANGED <<m_nItems, request, window, pc, answer>>

ListInit ==
    /\ m_pItems = [k \in {} |-> Junk] /\ m_nItems = 0 /\ m_maxItems = 0
    /\ request = NoRequest /\ window = <<0, 0, 0>> /\ pc = "idle"
    /\ answer = [op |-> "none", hash |-> Nothing, result |-> Nothing]

ListNext ==
    \/ ItemExists \/ FindByHash \/ AddByHash \/ RemoveByHash \/ Probe
    \/ AnswerExists \/ AnswerFind \/ AnswerAdd \/ AnswerRemove
    \/ SetDataByIndex \/ ListClear \/ Resize

ListSpec == ListInit /\ [][ListNext]_listVars
ListFairSpec == ListSpec /\ WF_listVars(Probe)

-----------------------------------------------------------------------------
Used == 0 .. m_nItems - 1

(* The items are sorted, every hash at most once, and lie in the memory    *)
(* that was allocated.                                                     *)
SortedOnce ==
    /\ Used \subseteq DOMAIN m_pItems /\ DOMAIN m_pItems = 0 .. m_maxItems - 1
    /\ \A i, j \in Used : i < j => m_pItems[i].hashValue < m_pItems[j].hashValue

(* While a search runs, the item it looks for can only be in the window.   *)
InWindow ==
    pc \in {"search", "missed"} =>
        \A k \in Used : m_pItems[k].hashValue = request.hash =>
            pc = "search" /\ window[1] <= k /\ k <= window[3]

(* The map that the first n items stand for.                               *)
MapOf(items, n) ==
    [h \in {items[k].hashValue : k \in 0 .. n - 1} |->
        items[CHOOSE k \in 0 .. n - 1 : items[k].hashValue = h].data]

Map == INSTANCE HashMap WITH map <- MapOf(m_pItems, m_nItems)
MapSpec == Map!Spec

(* DRHashList is a map: the binary search and the moving of items change   *)
(* and answer every call as one step of a map from hashes to data would,   *)
(* with the items sorted inside their memory and the item a search looks   *)
(* for inside its window.                                                  *)
ListIsMap == MapSpec /\ [](SortedOnce /\ InWindow)

(* A search ends.                                                          *)
SearchEnds == pc = "search" ~> pc # "search"
=============================================================================
