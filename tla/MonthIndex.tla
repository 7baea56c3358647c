----------------------------- MODULE MonthIndex -----------------------------
(***************************************************************************)
(* TransactionsIndex: the transactions of a chain in one bucket per month, *)
(* and for every key the transactions that changed its balance.            *)
(*                                                                         *)
(* A month is counted from the epoch (year * 12 + month - 1), a time point *)
(* in halves of a month: 2 * m is the first of month m, which is what a    *)
(* month becomes as a time point, and 2 * m + 1 a later day of it.  A      *)
(* filter is a record of the fields of CompactFilter, 0 meaning "not set", *)
(* its interval empty when both ends are the epoch.                        *)
(*                                                                         *)
(* The caller keeps the index of one block: numbers follow each other and  *)
(* months do not go back; a transaction may be handed over again, or have  *)
(* an older number than the block.                                         *)
(***************************************************************************)
EXTENDS Integers, FiniteSets, FiniteSetsExt, SequencesExt

CONSTANTS
    Keys,       \* public key indices
    Txs,        \* what a transaction is to the index: [type, coin, keys], keys a sequence of <<key, changed>>
    Filters,    \* the filters that are asked
    FirstNr, FirstMonth,   \* of the block
    Step,       \* MAGIC_NUMBER_TRANSACTION_INDEX_ENTRIES_RESIZE_STEP_SIZE
    MaxKeys,    \* the addresses an entry has room for (4)
    Gaps,       \* months between two transactions
    MaxAdds     \* bound: transactions handed over

Unset == -1     \* the year_month 0/0

VARIABLES
    minNr, maxNr,     \* mMinTransactionNr, mMaxTransactionNr
    minYm, maxYm,     \* mMinYearMonth, mMaxYearMonth
    buckets,          \* mYearMonthAddressIndexEntries: offset -> entries
    lists,            \* mBalanceChangingTxPerAccountPublicKey
    last,             \* AddressIndex: lastBalanceChangingTransactionNr
    log,              \* the accepted transactions (history)
    nextNr, month     \* the caller: the next number and the month of the last one

vars == <<minNr, maxNr, minYm, maxYm, buckets, lists, last, log, nextNr, month>>

Init ==
    /\ minNr = 0 /\ maxNr = 0
    /\ minYm = Unset /\ maxYm = Unset
    /\ buckets = [i \in 0 .. Step - 1 |-> <<>>]
    /\ lists = [k \in Keys |-> <<>>]
    /\ last = [k \in Keys |-> 0]
    /\ log = <<>>
    /\ nextNr = FirstNr /\ month = FirstMonth

Capacity == Cardinality(DOMAIN buckets)

Changed(tx) == {tx.keys[i][1] : i \in {i \in DOMAIN tx.keys : tx.keys[i][2]}}

Involved(tx) == {tx.keys[i][1] : i \in DOMAIN tx.keys}

Year(ym) == ym \div 12

MonthOf(ym) == (ym % 12) + 1

Offset(ym, base) == (Year(ym) - Year(base)) * 12 + (MonthOf(ym) - MonthOf(base))

-----------------------------------------------------------------------------
(* Adding                                                                  *)

Base(ym) == IF minYm = Unset THEN ym ELSE minYm

\* The size after at most one step of growth.
Grown(ym) ==
    LET i == Offset(ym, Base(ym))
    IN  IF i \in 0 .. Capacity - 1 THEN Capacity ELSE Capacity + Step

Fits(ym) == Offset(ym, Base(ym)) \in 0 .. Grown(ym) - 1

BucketsGrown(ym) ==
    [i \in 0 .. Grown(ym) - 1 |-> IF i \in DOMAIN buckets THEN buckets[i] ELSE <<>>]

Entry(nr, tx) == [nr |-> nr, type |-> tx.type, coin |-> tx.coin, keys |-> tx.keys]

\* transactionNrUpdateBounds and AddressIndex::addTransaction, done before anything can be refused.
NrSeen(nr, tx) ==
    /\ minNr' = IF minNr = 0 THEN nr ELSE minNr
    /\ maxNr' = IF nr > maxNr THEN nr ELSE maxNr
    /\ last' = [k \in Keys |-> IF k \in Changed(tx) THEN nr ELSE last[k]]

\* A number below the lowest is refused at once.
TooLow(nr) ==
    /\ nr < minNr
    /\ UNCHANGED vars

\* "unexpected jump": the month is beyond one step of growth; the buckets stay grown.
Jump(nr, ym, tx) ==
    /\ ~Fits(ym)
    /\ NrSeen(nr, tx)
    /\ buckets' = BucketsGrown(ym)
    /\ UNCHANGED <<minYm, maxYm, lists, log>>

InOrder(nr, ym) ==
    LET b == BucketsGrown(ym)[Offset(ym, Base(ym))]
    IN  b # <<>> => b[Len(b)].nr < nr

YmSeen(ym) ==
    /\ minYm' = Base(ym)
    /\ maxYm' = IF ym > maxYm THEN ym ELSE maxYm

\* Too many addresses, or not after the last entry of the month: the bounds have moved.
Refuse(nr, ym, tx) ==
    /\ Fits(ym)
    /\ Len(tx.keys) > MaxKeys \/ ~InOrder(nr, ym)
    /\ NrSeen(nr, tx) /\ YmSeen(ym)
    /\ buckets' = BucketsGrown(ym)
    /\ UNCHANGED <<lists, log>>

ListsWith(nr, ym, tx) ==
    [k \in Keys |->
        IF k \in Changed(tx)
        THEN Append(lists[k], [nr |-> nr, type |-> tx.type, coin |-> tx.coin, ym |-> ym])
        ELSE lists[k]]

Push(nr, ym, tx) ==
    /\ Fits(ym) /\ Len(tx.keys) <= MaxKeys /\ InOrder(nr, ym)
    /\ NrSeen(nr, tx) /\ YmSeen(ym)
    /\ buckets' = [BucketsGrown(ym) EXCEPT ![Offset(ym, Base(ym))] = Append(@, Entry(nr, tx))]
    /\ lists' = ListsWith(nr, ym, tx)
    /\ log' = Append(log, [nr |-> nr, ym |-> ym, tx |-> tx])

AddIndices(nr, ym, tx) ==
    /\ nr >= minNr
    /\ Jump(nr, ym, tx) \/ Refuse(nr, ym, tx) \/ Push(nr, ym, tx)

Add(tx) ==
    /\ nextNr < FirstNr + MaxAdds
    /\ \E gap \in Gaps :
        /\ AddIndices(nextNr, month + gap, tx)
        /\ month' = month + gap
    /\ nextNr' = nextNr + 1

\* The last transaction handed over a second time, or one older than the block.
AddAgain ==
    /\ log # <<>>
    /\ LET e == log[Len(log)]
       IN  e.nr = nextNr - 1 /\ e.ym = month /\ AddIndices(e.nr, e.ym, e.tx)
    /\ UNCHANGED <<nextNr, month>>

AddOlder == TooLow(FirstNr - 1)

-----------------------------------------------------------------------------
(* Filters and pages                                                       *)

MinOf(a, b) == IF a < b THEN a ELSE b

MaxOf(a, b) == IF a > b THEN a ELSE b

NoInterval(f) == f.from = 0 /\ f.to = 0

\* isOverlap of two intervals of time points, one of them the index's.
Overlaps(f) == ~NoInterval(f) /\ minYm # Unset /\ ~(f.to < 2 * minYm \/ 2 * maxYm < f.from)

\* filteredTimepointInterval: the part of the index's interval, all of it when they do not overlap.
Interval(f) ==
    IF Overlaps(f)
    THEN [from |-> MaxOf(2 * minYm, f.from), to |-> MinOf(2 * maxYm, f.to)]
    ELSE [from |-> 2 * minYm, to |-> 2 * maxYm]

\* The months from begin() to end().
Months(i) ==
    IF minYm = Unset THEN <<>>
    ELSE [j \in 1 .. (i.to \div 2) - (i.from \div 2) + 1 |-> (i.from \div 2) + j - 1]

Bucket(ym) == buckets[Offset(ym, minYm)]

Page(s, f) ==
    LET skip == IF f.page = 0 THEN 0 ELSE (f.page - 1) * f.size
    IN  SubSeq(s, skip + 1, IF f.size = 0 THEN Len(s) ELSE MinOf(skip + f.size, Len(s)))

\* The direction, among those in which a bound stops the search.
Beyond(f, dir) == IF f.dir = dir THEN "stop" ELSE "dismiss"

\* TransactionsIndexEntry::isMatchingFilter
Match(e, f) ==
    IF f.type \notin {"none", e.type} \/ f.coin \notin {0, e.coin} THEN "dismiss"
    ELSE IF f.min > e.nr THEN Beyond(f, "desc")
    ELSE IF f.max # 0 /\ f.max < e.nr THEN Beyond(f, "asc")
    ELSE IF \/ f.search = "balance" /\ f.key \notin Changed(e)
            \/ f.search = "involved" /\ f.key \notin Involved(e) THEN "dismiss"
    ELSE "use"

\* BalanceTransactionIndexEntry::isMatchingFilter, with the months the caller passes.
MatchBalance(e, f, start, end) ==
    LET inTime == start # Unset /\ end # Unset
    IN  IF f.type \notin {"none", e.type} THEN "dismiss"
        ELSE IF inTime /\ e.ym < start THEN Beyond(f, "desc")
        ELSE IF inTime /\ e.ym > end THEN Beyond(f, "asc")
        ELSE IF f.coin \notin {0, e.coin} THEN "dismiss"
        ELSE IF f.max # 0 /\ f.max < e.nr THEN Beyond(f, "asc")
        ELSE IF f.min > e.nr THEN Beyond(f, "desc")
        ELSE "use"

\* The entries used before the search is stopped.
Used(s, M(_)) ==
    LET stops == {i \in DOMAIN s : M(s[i]) = "stop"}
    IN  SelectSeq(IF stops = {} THEN s ELSE SubSeq(s, 1, Min(stops) - 1), LAMBDA e : M(e) = "use")

InDirection(s, f) == IF f.dir = "asc" THEN s ELSE Reverse(s)

Nrs(s) == [i \in DOMAIN s |-> s[i].nr]

-----------------------------------------------------------------------------
(* Searching                                                               *)

\* A search for balance changes need not go beyond the last one of the key.
Capped(f) ==
    IF f.search = "balance" /\ last[f.key] # 0 /\ (f.max = 0 \/ f.max > last[f.key])
    THEN [f EXCEPT !.max = last[f.key]] ELSE f

\* "user ask for last balance changing transaction"
AsksForLast(f) ==
    /\ f.search = "balance" /\ last[f.key] # 0
    /\ f.size = 1 /\ f.page < 2 /\ f.dir = "desc"
    /\ NoInterval(f) /\ f.coin = 0
    /\ last[f.key] >= f.min /\ last[f.key] <= Capped(f).max

OutOfBounds(f) == (f.min > maxNr) \/ (f.max # 0 /\ f.max < minNr)

\* The months whose entries are looked at: those that can hold a number of the filter, up to the
\* first that is beyond it.  Descending, a month is beyond it as soon as its first entry is.
Skipped(b, f) ==
    \/ b = <<>>
    \/ f.dir = "asc" /\ b[Len(b)].nr < f.min
    \/ f.dir = "desc" /\ f.max # 0 /\ b[1].nr > f.max

\* Fault: ascending, a month that reaches beyond the filter ends the search.
EndsAtReach(b, f) ==
    \/ f.dir = "asc" /\ f.max # 0 /\ b[Len(b)].nr > f.max
    \/ f.dir = "desc" /\ b[1].nr < f.min

Ends(b, f) ==
    \/ f.dir = "asc" /\ f.max # 0 /\ b[1].nr > f.max
    \/ f.dir = "desc" /\ b[1].nr < f.min

Looked(f) ==
    LET all == [j \in DOMAIN Months(Interval(f)) |-> Bucket(Months(Interval(f))[j])]
        bs == SelectSeq(InDirection(all, f), LAMBDA b : ~Skipped(b, f))
        ends == {j \in DOMAIN bs : Ends(bs[j], f)}
    IN  IF ends = {} THEN bs ELSE SubSeq(bs, 1, Min(ends) - 1)

FindTransactions(f) ==
    LET c == Capped(f)
        bs == Looked(c)
        entries == FlattenSeq([j \in DOMAIN bs |-> InDirection(bs[j], f)])
    IN  IF f.search = "missing" THEN <<>>
        ELSE IF AsksForLast(f) THEN <<last[f.key]>>
        ELSE IF OutOfBounds(c) \/ (~NoInterval(f) /\ ~Overlaps(f)) THEN <<>>
        ELSE Page(Nrs(Used(entries, LAMBDA e : Match(e, c))), f)

\* findTransactionsBalanceChangingForPublicKey
FindBalanceChanging(f) ==
    LET i == Interval(f)
    IN  Page(Nrs(Used(InDirection(lists[f.key], f),
                      LAMBDA e : MatchBalance(e, f, i.from \div 2, i.to \div 2))), f)

\* countBalanceChangingTxs compares with the interval of the filter as it is, ascending.
CountBalanceChanging(f) ==
    IF f.min = 0 /\ f.max = 0 /\ f.type = "none" /\ NoInterval(f) /\ f.coin = 0
    THEN Len(lists[f.key])
    ELSE Len(Used(lists[f.key],
                  LAMBDA e : MatchBalance(e, [f EXCEPT !.dir = "asc"], f.from \div 2, f.to \div 2)))

CountOf(b, f) ==
    IF f.type # "none" \/ f.search # "none" \/ f.coin # 0
    THEN Len(SelectSeq(b, LAMBDA e : Match(e, f) = "use"))
    ELSE LET low == MaxOf(f.min, b[1].nr)
             high == IF f.max # 0 THEN MinOf(f.max, b[Len(b)].nr) ELSE b[Len(b)].nr
         IN  IF high >= low THEN high - low + 1 ELSE 0

CountTransactions(f) ==
    CASE f.search = "missing" -> 0
      [] f.search = "balance" -> CountBalanceChanging(f)
      [] OutOfBounds(f) -> 0
      [] OTHER ->
            LET bs == Looked([f EXCEPT !.dir = "asc"])
            IN  FoldSeq(LAMBDA b, n : n + CountOf(b, f), 0, bs)

\* findTransactionsForMonthYear: <<0, 0>> for a month without entries or outside of the index.
FindForMonth(ym) ==
    IF minYm = Unset THEN <<0, 0>>
    ELSE IF ym < minYm \/ ym > maxYm \/ Bucket(ym) = <<>> THEN <<0, 0>>
    ELSE <<Bucket(ym)[1].nr, Bucket(ym)[Len(Bucket(ym))].nr>>

IndexToYearMonth(i) ==
    LET m == (i % 12) + MonthOf(minYm)
        y == Year(minYm) + (i \div 12)
    IN  IF m > 12 THEN (y + 1) * 12 + m - 13 ELSE y * 12 + m - 1

-----------------------------------------------------------------------------
\* reset empties the buckets and the numbers; the months, the lists and the address index stay.
Reset ==
    /\ minNr # 0
    /\ buckets' = [i \in DOMAIN buckets |-> <<>>]
    /\ minNr' = 0 /\ maxNr' = 0
    /\ log' = <<>>
    /\ UNCHANGED <<minYm, maxYm, lists, last, nextNr, month>>

Next ==
    \/ \E tx \in Txs : Add(tx)
    \/ AddAgain
    \/ AddOlder

Spec == Init /\ [][Next]_vars

ResetSpec == Init /\ [][Next \/ Reset]_vars

-----------------------------------------------------------------------------
(* Properties                                                              *)

\* Every entry is in the bucket of its month, numbers rise within and across buckets, and the
\* bounds cover them.
TypeOK ==
    /\ Capacity % Step = 0
    /\ \A e \in ToSet(log) :
        /\ e.nr \in minNr .. maxNr
        /\ e.ym \in minYm .. maxYm
        /\ Entry(e.nr, e.tx) \in ToSet(Bucket(e.ym))
        /\ IndexToYearMonth(Offset(e.ym, minYm)) = e.ym

\* What a filter asks for, read from the accepted transactions: its interval by whole months.
Wanted(e, f) ==
    /\ f.type \in {"none", e.tx.type}
    /\ f.coin \in {0, e.tx.coin}
    /\ e.nr >= f.min /\ (f.max = 0 \/ e.nr <= f.max)
    /\ NoInterval(f) \/ (e.ym >= f.from \div 2 /\ e.ym <= f.to \div 2)
    /\ CASE f.search = "balance" -> f.key \in Changed(e.tx)
         [] f.search = "involved" -> f.key \in Involved(e.tx)
         [] f.search = "missing" -> FALSE
         [] OTHER -> TRUE

Asked(f) == Nrs(InDirection(SelectSeq(log, LAMBDA e : Wanted(e, f)), f))

\* findTransactions returns the page of the transactions that meet every criterion of the filter,
\* in the order asked for: the buckets skipped, the searches cut short and the shortcut for the
\* last balance lose none and add none.
FindExact == \A f \in Filters : FindTransactions(f) = Page(Asked(f), f)

\* What findTransactions returns was accepted.
FoundIsIndexed == \A f \in Filters : ToSet(FindTransactions(f)) \subseteq {e.nr : e \in ToSet(log)}

\* countTransactions counts what findTransactions finds without pages.
CountIsFound ==
    \A f \in Filters : CountTransactions(f) = Len(FindTransactions([f EXCEPT !.size = 0, !.page = 0]))

\* The list kept for a key and the buckets give the same balance changing transactions, wherever
\* the interval of the filter meets the index.
ListAgrees ==
    \A f \in {f \in Filters : f.search = "balance" /\ (NoInterval(f) \/ Overlaps(f))} :
        FindBalanceChanging(f) = FindTransactions(f)

\* findTransactionsForMonthYear gives the first and last accepted number of the month, and only
\* for a month without any {0, 0}.
MonthRange ==
    \A ym \in FirstMonth - 1 .. month + 1 :
        LET s == Nrs(SelectSeq(log, LAMBDA e : e.ym = ym))
        IN  FindForMonth(ym) = IF s = <<>> THEN <<0, 0>> ELSE <<s[1], s[Len(s)]>>
=============================================================================
