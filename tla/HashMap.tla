------------------------------ MODULE HashMap -------------------------------
(***************************************************************************)
(* What a DRHashList promises: a map from hashes to data that keeps the    *)
(* first data added for a hash.  Every call is one step that changes the   *)
(* map and gives the answer.                                               *)
(***************************************************************************)
EXTENDS Integers

CONSTANTS Hashes, Data, Nothing

VARIABLES map, answer
vars == <<map, answer>>

Answer(op, h, result) == answer' = [op |-> op, hash |-> h, result |-> result]

Init == map = [h \in {} |-> h] /\ answer = [op |-> "none", hash |-> Nothing, result |-> Nothing]

Add(h, d) ==
    IF h \in DOMAIN map THEN Answer("add", h, FALSE) /\ UNCHANGED map
    ELSE /\ Answer("add", h, TRUE)
         /\ map' = [x \in DOMAIN map \cup {h} |-> IF x = h THEN d ELSE map[x]]

Remove(h) ==
    /\ Answer("remove", h, h \in DOMAIN map)
    /\ map' = [x \in DOMAIN map \ {h} |-> map[x]]

Exists(h) == Answer("exists", h, h \in DOMAIN map) /\ UNCHANGED map

Find(h) == Answer("find", h, IF h \in DOMAIN map THEN map[h] ELSE Nothing) /\ UNCHANGED map

SetData(h, d) == h \in DOMAIN map /\ Answer("set", h, TRUE) /\ map' = [map EXCEPT ![h] = d]

Clear == map' = [h \in {} |-> h] /\ UNCHANGED answer

Next == \/ \E h \in Hashes : Remove(h) \/ Exists(h) \/ Find(h)
        \/ \E h \in Hashes, d \in Data : Add(h, d) \/ SetData(h, d)
        \/ Clear

Spec == Init /\ [][Next]_vars
=============================================================================
