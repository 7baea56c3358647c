------------------------------ MODULE MCMonths ------------------------------
(***************************************************************************)
(* The older index by year and month and its iterator, in three parts that *)
(* share the variables of the index: lookups and counts, additions that    *)
(* are refused and resets, and the iterator.  Two keys, months from a      *)
(* November on.                                                            *)
(***************************************************************************)
EXTENDS Integers, Sequences

CONSTANT Parts    \* which of the parts run

VARIABLES
    part,
    minNr, maxNr, minYm, maxYm, buckets, lists, last, log, nextNr, month,  \* of MonthIndex
    it, got                                                                \* of MonthIterator

FirstNr == 3
FirstMonth == 22
Nr == FirstNr..(FirstNr + 4)

Tx(type, coin, keys) == [type |-> type, coin |-> coin, keys |-> keys]

Txs ==
    { Tx("create", 1, << <<1, FALSE>>, <<2, TRUE>> >>),
      Tx("transfer", 1, << <<1, TRUE>>, <<2, TRUE>> >>),
      Tx("transfer", 2, << <<1, TRUE>> >>) }

\* With one transaction that has more keys than an entry has room for.
TxsWide == Txs \cup { Tx("create", 1, << <<1, FALSE>>, <<1, FALSE>>, <<2, TRUE>> >>) }

WalkTxs == TxsWide \ { Tx("create", 1, << <<1, FALSE>>, <<2, TRUE>> >>) }

AnyFilter == [dir |-> "desc", type |-> "none", search |-> "none", key |-> 1, coin |-> 0,
              max |-> 0, min |-> 0, size |-> 0, page |-> 0, from |-> 0, to |-> 0]

Dirs == {"asc", "desc"}
Searches == {"none", "balance", "involved", "missing"}

ByKind == {[AnyFilter EXCEPT !.dir = d, !.type = t, !.search = s, !.coin = c] :
              d \in Dirs, t \in {"none", "transfer"}, s \in Searches, c \in {0, 2}}
ByNr == {[AnyFilter EXCEPT !.dir = d, !.search = s, !.max = h] :
              d \in Dirs, s \in Searches, h \in {FirstNr - 1} \cup Nr}
ByNrFrom == {[AnyFilter EXCEPT !.dir = "asc", !.search = s, !.min = l, !.max = h] :
              s \in {"none", "involved"}, l \in Nr, h \in {0} \cup Nr}
Intervals == {<<22, 22>>, <<22, 23>>, <<23, 27>>, <<20, 26>>}
ByTime == {[AnyFilter EXCEPT !.dir = d, !.search = s, !.max = h, !.from = 2 * i[1], !.to = 2 * i[2]] :
              d \in Dirs, s \in Searches, h \in {0, FirstNr + 1}, i \in Intervals}
ByPage == {[AnyFilter EXCEPT !.dir = d, !.search = s, !.size = p[1], !.page = p[2]] :
              d \in Dirs, s \in {"none", "balance"}, p \in {<<1, 0>>, <<1, 2>>, <<2, 1>>, <<2, 2>>}}

FindFilters == ByKind \cup ByNr \cup ByNrFrom \cup ByTime \cup ByPage

\* Without the balance changes of a key by more than an interval, with intervals that
\* meet the index.
CountFilters ==
    {f \in ByKind \cup ByNr \cup ByNrFrom : f.search = "balance" => f.type = "none" /\ f.coin = 0 /\ f.max = 0}
    \cup {[f EXCEPT !.to = 2 * 25] : f \in {f \in ByTime : f.from \in {2 * 20, 2 * 22}}}

\* Over the whole index, from or up to any number or one beyond, over some of the months.
IteratorFilters ==
    {f \in ByKind : f.search # "missing"}
    \cup {[AnyFilter EXCEPT !.dir = d, !.search = s, !.min = l, !.max = h] :
              d \in Dirs, s \in {"none", "involved"}, l \in {0, FirstNr, FirstNr + 1}, h \in {0} \cup Nr}
    \cup {f \in ByTime : f.search \in {"none", "balance"} /\ f.from = 2 * 22}

Find == INSTANCE MonthIndex WITH
    Keys <- {1, 2}, Filters <- FindFilters, Step <- 2, MaxKeys <- 2, Gaps <- {0, 1, 2}, MaxAdds <- 4

Count == INSTANCE MonthIndex WITH
    Keys <- {1, 2}, Filters <- CountFilters, Step <- 2, MaxKeys <- 2, Gaps <- {0, 1, 2}, MaxAdds <- 4

Refused == INSTANCE MonthIndex WITH
    Keys <- {1, 2}, Txs <- TxsWide, Filters <- {}, Step <- 2, MaxKeys <- 2, Gaps <- {0, 1, 5}, MaxAdds <- 3

\* One kind of transaction is refused, so that a number is missing; months are left out.
Walk == INSTANCE MonthIterator WITH
    Keys <- {1, 2}, Txs <- WalkTxs, Filters <- IteratorFilters, Step <- 2, MaxKeys <- 2, Gaps <- {0, 1, 2},
    MaxAdds <- 3

-----------------------------------------------------------------------------
iterator == <<it, got>>
MCVars == <<minNr, maxNr, minYm, maxYm, buckets, lists, last, log, nextNr, month, iterator, part>>

MCInit == Walk!IInit /\ part \in Parts

MCNext ==
    \/ part = "find" /\ Find!Next /\ UNCHANGED <<iterator, part>>
    \/ part = "refused" /\ (Refused!Next \/ Refused!Reset) /\ UNCHANGED <<iterator, part>>
    \/ part = "iterate" /\ Walk!INext /\ UNCHANGED part

MCSpec == MCInit /\ [][MCNext]_MCVars

-----------------------------------------------------------------------------
(* Properties: what the modules state, of the part it is about.            *)

\* findTransactions returns the page of the transactions its filter describes, whether
\* from the buckets or from the list of a key; countTransactions counts them without
\* looking at each; findTransactionsForMonthYear gives the first and last accepted number
\* of a month, however many additions were refused and wherever the index was reset.
FindExact ==
    /\ part = "find" => Find!FindExact /\ Find!ListAgrees /\ Count!CountIsFound
    /\ part = "refused" => Refused!TypeOK /\ Refused!MonthRange

\* The iterator gives each transaction its filter describes once, in its order, and is
\* at the end only when it has stopped.
IteratesExactly == part = "iterate" => Walk!IteratesExactly /\ Walk!EndIsStopped
=============================================================================
