------------------------- MODULE TransactionsIndex -------------------------
(***************************************************************************)
(* TransactionsIndexRoaringBitmaps: where a blockchain looks up which of   *)
(* its transactions match a filter.  Per public key, transaction type and  *)
(* foreign coin it keeps the set of transaction numbers (a bitmap), and    *)
(* per calendar day the highest number confirmed on it.                    *)
(*                                                                         *)
(* A date is month * DaysPerMonth + day of the month, both from zero, which *)
(* orders dates as year_month_day does; the same numbers, counted from the *)
(* month of the first transaction, are the cells of the table of days.     *)
(***************************************************************************)
EXTENDS Integers, Sequences, FiniteSetsExt

CONSTANTS
    Keys, Types, Coins,
    OwnCoin,         \* the coin of the community whose chain is indexed
    Contents,        \* the transactions that may be added, dates aside
    DaysPerMonth,    \* columns of the table of days: 31
    ResizeStep,      \* rows it grows by: 100
    Filters,         \* the lookups the properties speak of
    MaxDate, MaxLen  \* bounds: latest date, longest chain

Dates == 0..MaxDate
NoDate == -1
None == "none"

\* What the index takes from a ConfirmedGradidoTx: its type, who signed it, whose
\* balances it changes, who else is involved, and the coins of the balances.
Content == [type : Types, signed : SUBSET Keys, balance : SUBSET Keys, other : SUBSET Keys,
            coins : SUBSET Coins]

ASSUME ContentsAssumption == Contents \subseteq Content /\ OwnCoin \in Coins

ASSUME SizesAssumption ==
    /\ DaysPerMonth \in Nat \ {0} /\ ResizeStep \in Nat \ {0}
    /\ MaxDate \in Nat /\ MaxLen \in Nat

VARIABLES
    chain,              \* the transactions of the blockchain, with their dates
    indexed,            \* the numbers of those that were added since the last reset
    minNr, maxNr,       \* mMinTransactionNr, mMaxTransactionNr: 0 when empty
    minDate, maxDate,   \* mMinDate, mMaxDate
    days,               \* mDayMonthYearTxRanges: cell -> highest number, 0 for none
    balanceTx, signedTx, otherTx,  \* mInvolvedPublicKeys: key -> numbers
    typeTx,             \* mTxPerType: type -> numbers
    otherCoinTx         \* mOtherCoinCommunityTx: coin -> numbers

bitmaps == <<balanceTx, signedTx, otherTx, typeTx, otherCoinTx>>
bounds == <<minNr, maxNr, minDate, maxDate>>
vars == <<chain, indexed, bounds, days, bitmaps>>

-----------------------------------------------------------------------------
(* The table of days. *)

Month(date) == date \div DaysPerMonth
Day(date) == date % DaysPerMonth

Rows(n) == 0..(n * DaysPerMonth - 1)

RowCount == Cardinality(DOMAIN days) \div DaysPerMonth

YearMonthToIndex(date) ==
    IF date < minDate THEN 0
    ELSE Month(IF date > maxDate THEN maxDate ELSE date) - Month(minDate)

\* The cells up to c that a cursor moving back from c stops at.
Filled(c) == {x \in 0..c : days[x] # 0}

\* Fault: the last transaction before the interval is part of it.
GetTxRangeOfIntervalEarly(s, e) ==
    LET cell(date) == YearMonthToIndex(date) * DaysPerMonth + Day(date)
        endCell    == IF e > maxDate
                      THEN YearMonthToIndex(e) * DaysPerMonth + DaysPerMonth - 1 ELSE cell(e)
    IN  IF Filled(endCell) = {} \/ cell(s) \in (Max(Filled(endCell)) + 1)..endCell
        THEN <<0, 0>>
        ELSE <<IF s > minDate THEN days[Max(Filled(cell(s) - 1) \cup {0})] ELSE minNr,
               days[Max(Filled(endCell))]>>

\* The numbers of the first and the last transaction of an interval of dates,
\* zeros if there is none.  A cursor moves back from the end of the interval to
\* the first filled cell and gives up at the start of the interval; a second one
\* moves back from the start to the transaction before it.
GetTxRangeOfInterval(s, e) ==
    LET cell(date) == YearMonthToIndex(date) * DaysPerMonth + Day(date)
        endCell    == IF e > maxDate
                      THEN YearMonthToIndex(e) * DaysPerMonth + DaysPerMonth - 1 ELSE cell(e)
    IN  IF Filled(endCell) = {} \/ cell(s) \in (Max(Filled(endCell)) + 1)..endCell
        THEN <<0, 0>>
        ELSE <<IF s > minDate THEN days[Max(Filled(cell(s) - 1) \cup {0})] + 1 ELSE minNr,
               days[Max(Filled(endCell))]>>

-----------------------------------------------------------------------------
(* Filters. *)

\* An empty interval is the interval without bounds.  search says whether key has
\* to be involved or to have its balance changed.  min, max and size are 0, type
\* and coin None, where the filter does not restrict.
Always == <<NoDate, NoDate>>

Filter == {f \in [interval : {Always} \cup {i \in Dates \X Dates : i[1] <= i[2]},
                  min : Nat, max : Nat,
                  type : Types \cup {None},
                  search : {None, "balance", "involved"}, key : Keys \cup {None},
                  coin : Coins \cup {None},
                  direction : {"asc", "desc"}, size : Nat, page : Nat] :
              f.search # None => f.key \in Keys}

ASSUME FiltersAssumption == Filters \subseteq Filter

\* The numbers of a range that a filter's number bounds leave.
Bounded(f, range) ==
    IF range = <<0, 0>> THEN {}
    ELSE (IF f.min > range[1] THEN f.min ELSE range[1])..
         (IF f.max # 0 /\ f.max < range[2] THEN f.max ELSE range[2])

\* The numbers a filter's interval and number bounds leave: calculateTxRange.
CalculateTxRange(f) ==
    LET s == IF f.interval = Always THEN minDate ELSE f.interval[1]
        e == IF f.interval = Always THEN maxDate ELSE f.interval[2]
    IN  IF \/ f.min # 0 /\ f.min > maxNr
           \/ f.max # 0 /\ f.max < minNr
           \/ s > maxDate \/ e < minDate
        THEN {}
        ELSE Bounded(f, IF s # minDate \/ e # maxDate THEN GetTxRangeOfInterval(s, e) ELSE <<minNr, maxNr>>)

\* aggregateTransactions: the bitmaps of all criteria intersected.
AggregateTransactions(f) ==
    {n \in CalculateTxRange(f) :
        /\ f.type # None => n \in typeTx[f.type]
        /\ f.search = "balance" => n \in balanceTx[f.key]
        /\ f.search = "involved" => n \in balanceTx[f.key] \cup signedTx[f.key] \cup otherTx[f.key]
        /\ f.coin \notin {None, OwnCoin} => n \in otherCoinTx[f.coin]
        /\ f.coin = OwnCoin => n \notin otherCoinTx[f.coin]}

\* Pagination::skipEntriesCount: pages 0 and 1 are both the first.
SkipEntriesCount(f) == IF f.page = 0 THEN 0 ELSE (f.page - 1) * f.size

\* The element of S with rank smaller ones.
Select(S, rank) == CHOOSE x \in S : Cardinality({y \in S : y < x}) = rank

Ordered(S, direction) ==
    [i \in 1..Cardinality(S) |->
        Select(S, IF direction = "asc" THEN i - 1 ELSE Cardinality(S) - i)]

\* The ends of the page a filter asks for, from a set larger than what it skips.
PageBounds(f, S) ==
    LET n    == Cardinality(S)
        skip == SkipEntriesCount(f)
    IN  IF f.direction = "desc"
        THEN <<IF n <= skip + f.size THEN Min(S) ELSE Select(S, n - skip - f.size),
               Select(S, n - skip - 1)>>
        ELSE <<Select(S, skip),
               IF skip + f.size - 1 < n THEN Select(S, skip + f.size - 1) ELSE Max(S)>>

\* What lies between two ends.  One or two transactions are returned without
\* cutting them out of the set.
CutOut(f, S, ends) ==
    LET up == f.direction = "asc"
    IN  IF f.size = 1 \/ Cardinality(S) = 1 THEN <<IF up THEN ends[1] ELSE ends[2]>>
        ELSE IF f.size = 2 \/ Cardinality(S) = 2 THEN (IF up THEN ends ELSE <<ends[2], ends[1]>>)
        ELSE Ordered({n \in S : ends[1] <= n /\ n <= ends[2]}, f.direction)

\* The page a filter asks for of a set.
PageOf(f, S) ==
    IF S = {} \/ Cardinality(S) <= SkipEntriesCount(f) THEN <<>>
    ELSE IF f.size = 0 THEN Ordered(S, f.direction)
    ELSE CutOut(f, S, PageBounds(f, S))

\* findTransactions.
FindTransactions(f) == IF minNr = 0 /\ maxNr = 0 THEN <<>> ELSE PageOf(f, AggregateTransactions(f))

\* countTransactions.
CountTransactions(f) ==
    IF minNr = 0 /\ maxNr = 0 THEN 0 ELSE Cardinality(AggregateTransactions(f))

-----------------------------------------------------------------------------
(* Operations. *)

MarkDay(table, cell, nr) == [table EXCEPT ![cell] = IF nr > @ THEN nr ELSE @]

Grown(n) == [c \in Rows(n) |-> IF c \in DOMAIN days THEN days[c] ELSE 0]

AddTo(bitmap, members, nr) ==
    [x \in DOMAIN bitmap |-> IF x \in members THEN bitmap[x] \cup {nr} ELSE bitmap[x]]

\* addTransactionIndices, for the transaction pushTransactionEntry has just added
\* to the chain.  If it is more than one step beyond the table, the table and the
\* number bounds have already grown when the exception is thrown.
AddTransactionIndices(date, c) ==
    LET nr    == Len(chain) + 1
        first == IF minDate = NoDate THEN date ELSE minDate
        row   == Month(date) - Month(first)
        rows  == IF row >= RowCount THEN RowCount + ResizeStep ELSE RowCount
    IN  /\ chain' = Append(chain, [content |-> c, date |-> date])
        /\ minNr' = IF minNr = 0 THEN nr ELSE minNr
        /\ maxNr' = IF nr > maxNr THEN nr ELSE maxNr
        /\ \/ /\ row < rows
              /\ minDate' = first
              /\ maxDate' = IF date > maxDate THEN date ELSE maxDate
              /\ days' = MarkDay(Grown(rows), row * DaysPerMonth + Day(date), nr)
              /\ signedTx' = AddTo(signedTx, c.signed, nr)
              /\ balanceTx' = AddTo(balanceTx, c.balance, nr)
              /\ otherTx' = AddTo(otherTx, c.other, nr)
              /\ typeTx' = AddTo(typeTx, {c.type}, nr)
              /\ otherCoinTx' = AddTo(otherCoinTx, c.coins \ {OwnCoin}, nr)
              /\ indexed' = indexed \cup {nr}
           \/ /\ row >= rows
              /\ days' = Grown(rows)
              /\ UNCHANGED <<minDate, maxDate, bitmaps, indexed>>

Empty ==
    [numbers |-> [x \in Keys |-> {}], days |-> [c \in Rows(ResizeStep) |-> 0]]

\* reset, called by InMemory::clear, which leaves the chain.
Reset ==
    /\ minNr' = 0 /\ maxNr' = 0 /\ minDate' = NoDate /\ maxDate' = NoDate
    /\ days' = Empty.days
    /\ balanceTx' = Empty.numbers /\ signedTx' = Empty.numbers /\ otherTx' = Empty.numbers
    /\ typeTx' = [t \in Types |-> {}]
    /\ otherCoinTx' = [c \in Coins |-> {}]
    /\ indexed' = {}
    /\ UNCHANGED chain

Init ==
    /\ chain = <<>> /\ indexed = {}
    /\ minNr = 0 /\ maxNr = 0 /\ minDate = NoDate /\ maxDate = NoDate
    /\ days = Empty.days
    /\ balanceTx = Empty.numbers /\ signedTx = Empty.numbers /\ otherTx = Empty.numbers
    /\ typeTx = [t \in Types |-> {}]
    /\ otherCoinTx = [c \in Coins |-> {}]

\* A blockchain begins with its community root and adds its transactions in the
\* order of their dates.
Add(date, c) ==
    /\ Len(chain) < MaxLen
    /\ chain = <<>> <=> c.type = "root"
    /\ chain # <<>> => chain[Len(chain)].date <= date
    /\ AddTransactionIndices(date, c)

Next == Reset \/ \E date \in Dates, c \in Contents : Add(date, c)

Spec == Init /\ [][Next]_vars

-----------------------------------------------------------------------------
(* Types. *)

\* Numbers are those of the chain, the table has whole rows of days.
TypeOK ==
    /\ chain \in Seq([content : Content, date : Dates])
    /\ indexed \subseteq 1..Len(chain)
    /\ minNr \in 0..Len(chain) /\ maxNr \in 0..Len(chain)
    /\ minDate \in Dates \cup {NoDate} /\ maxDate \in Dates \cup {NoDate}
    /\ RowCount > 0 /\ days \in [Rows(RowCount) -> 0..Len(chain)]
    /\ balanceTx \in [Keys -> SUBSET indexed]
    /\ signedTx \in [Keys -> SUBSET indexed]
    /\ otherTx \in [Keys -> SUBSET indexed]
    /\ typeTx \in [Types -> SUBSET indexed]
    /\ otherCoinTx \in [Coins -> SUBSET indexed]

-----------------------------------------------------------------------------
(* Properties.  The reference a lookup is compared with reads the chain alone. *)

Involved(c, k) == k \in c.signed \cup c.balance \cup c.other

\* The transactions a filter describes, the coin of the community itself aside.
Matching(f) ==
    {n \in indexed :
        LET c == chain[n].content
        IN  /\ f.interval = Always \/ chain[n].date \in f.interval[1]..f.interval[2]
            /\ f.min <= n /\ (f.max # 0 => n <= f.max)
            /\ f.type \in {None, c.type}
            /\ f.search = "balance" => f.key \in c.balance
            /\ f.search = "involved" => Involved(c, f.key)
            /\ f.coin \in {None, OwnCoin} \cup c.coins}

\* The page of them it asks for.
Page(f) ==
    LET all  == Ordered(Matching(f), f.direction)
        skip == (IF f.page = 0 THEN 0 ELSE f.page - 1) * f.size
    IN  IF f.size = 0 THEN all
        ELSE SubSeq(all, skip + 1, IF skip + f.size < Len(all) THEN skip + f.size ELSE Len(all))

\* The lookups that are answered exactly: the interval does not start inside a
\* month before the first transaction, one transaction is not left for a page of
\* two, and after a failed addition, which leaves its number inside the bounds,
\* some criterion names a bitmap.
Exact(f) ==
    /\ f.interval[1] >= minDate \/ Day(f.interval[1]) = 0 \/ f.interval = Always
    /\ f.size # 2 \/ f.page <= 1 \/ Cardinality(Matching(f)) # 2 * f.page - 1
    /\ \/ f.type # None \/ f.search # None \/ f.coin \notin {None, OwnCoin}
       \/ indexed = minNr..maxNr \/ indexed = {}

\* Every such lookup returns the page of the transactions it describes, in its
\* order (findTransactions; fromEnd, isTransactionExist and the creation sum rest
\* on it), and counts them all (countTransactions).
LookupsExact ==
    /\ TypeOK
    /\ \A f \in Filters : Exact(f) =>
          /\ FindTransactions(f) = Page(f)
          /\ CountTransactions(f) = Cardinality(Matching(f))

\* No interval hides a transaction: calculateTxRange promises to "calculate range
\* interval from filter min + max tx nr, timepoint interval and local min + max tx
\* nr and date range" (TransactionsIndexRoaringBitmaps.h).
IntervalComplete ==
    \A f \in Filters : f.size = 0 => Matching(f) \subseteq AggregateTransactions(f)

\* A filter for the community's own coin leaves out transactions that change
\* balances of other coins only ("if user will only results with gdd balances
\* from this community", aggregateTransactions).
OwnCoinOnly ==
    \A f \in Filters : f.coin = OwnCoin =>
        \A n \in AggregateTransactions(f) :
            OwnCoin \in chain[n].content.coins \/ chain[n].content.coins = {}

\* A page holds no transaction twice ("cut out range described by pagination",
\* findTransactions).
PageWithoutRepetition ==
    \A f \in Filters :
        LET page == FindTransactions(f)
        IN  \A i, j \in DOMAIN page : page[i] = page[j] => i = j
=============================================================================
