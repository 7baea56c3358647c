--------------------------- MODULE MonthIterator ---------------------------
(***************************************************************************)
(* TransactionsIndex::SearchIterator: a search its caller advances.  The   *)
(* index does not change while an iterator lives.  An iterator stands on   *)
(* an entry (offset of the month, place from 0) or is stopped; all stopped *)
(* iterators are equal, so that a loop ends when it stops.                 *)
(*                                                                         *)
(* createSearchIterator reads the first or last entry of a month to find   *)
(* the place of a number; of a month without entries that is undefined,    *)
(* and the place found is then any.  Descending, advance keeps as place of *)
(* what it has found the distance of its number from the first of the      *)
(* month, which is another place where a number of the month is missing,   *)
(* and beyond the month's entries is undefined as well.                    *)
(***************************************************************************)
EXTENDS MonthIndex

VARIABLES it, got    \* the iterator; the numbers it has given

ivars == <<it, got>>

NoIterator == [on |-> "none"]

Stopped == [on |-> "stopped"]

Standing(f, m, e, nr) == [on |-> "entry", filter |-> f, month |-> m, entry |-> e, nr |-> nr]

-----------------------------------------------------------------------------
MinMonth(f) == Offset(Interval(f).from \div 2, minYm)

MaxMonth(f) == Offset(Interval(f).to \div 2, minYm)

Positions(m) == [j \in 1 .. Len(buckets[m]) |-> <<m, j - 1>>]

At(p) == buckets[p[1]][p[2] + 1]

\* The entries after, or before, a place in the months of the filter.
After(f, m, e) ==
    SubSeq(Positions(m), e + 2, Len(buckets[m]))
        \o FlattenSeq([j \in 1 .. MaxMonth(f) - m |-> Positions(m + j)])

Before(f, m, e) ==
    Reverse(SubSeq(Positions(m), 1, e))
        \o FlattenSeq([j \in 1 .. m - MinMonth(f) |-> Reverse(Positions(m - j))])

\* Fault: descending, the place is the distance from the first number of the index.
PlaceOfFromMin(f, p) == IF f.dir = "desc" THEN At(p).nr - minNr ELSE p[2]

\* The place kept of the entry found.
PlaceOf(f, p) == IF f.dir = "desc" THEN At(p).nr - buckets[p[1]][1].nr ELSE p[2]

\* The first entry that is used, unless the filter stops the search before.
Scan(f, ps) ==
    LET hits == {i \in DOMAIN ps : Match(At(ps[i]), f) # "dismiss"}
    IN  IF hits = {} THEN Stopped
        ELSE LET p == ps[Min(hits)]
             IN  IF Match(At(p), f) = "use" THEN Standing(f, p[1], PlaceOf(f, p), At(p).nr) ELSE Stopped

Advance(i) ==
    IF i.on # "entry" THEN Stopped
    ELSE IF i.filter.dir = "asc" THEN Scan(i.filter, After(i.filter, i.month, i.entry))
    ELSE Scan(i.filter, Before(i.filter, i.month, i.entry))

\* The constructor: the entry the iterator is made for, or the next one that is used.
Place(f, m, e) ==
    IF m \notin MinMonth(f) .. MaxMonth(f) \/ e \notin 0 .. Len(buckets[m]) - 1 THEN Stopped
    ELSE IF Match(At(<<m, e>>), f) = "use" THEN Standing(f, m, e, At(<<m, e>>).nr)
    ELSE IF Match(At(<<m, e>>), f) = "stop" THEN Stopped
    ELSE Advance(Standing(f, m, e, 0))

\* The months gone through to find the one that holds a number.
Passed(f, back) ==
    IF back THEN {m \in 0 .. MaxMonth(f) : \A n \in m .. MaxMonth(f) :
                     buckets[n] = <<>> \/ buckets[n][1].nr > f.max}
    ELSE {m \in MinMonth(f) .. Capacity - 1 : \A n \in MinMonth(f) .. m :
                     buckets[n] = <<>> \/ Last(buckets[n]).nr < f.min}

StartMonth(f, back) ==
    IF back THEN IF Passed(f, back) = {} THEN MaxMonth(f) ELSE MaxOf(0, Min(Passed(f, back)) - 1)
    ELSE IF Passed(f, back) = {} THEN MinMonth(f) ELSE MinOf(Capacity - 1, Max(Passed(f, back)) + 1)

\* The place is the distance from the first number of the month; a wrapped difference is beyond it.
Start(f, back) ==
    IF back /\ f.max # 0
    THEN <<StartMonth(f, back), f.max - buckets[StartMonth(f, back)][1].nr>>
    ELSE IF back THEN <<MaxMonth(f), Len(buckets[MaxMonth(f)]) - 1>>
    ELSE IF f.min # 0 THEN <<StartMonth(f, back), f.min - buckets[StartMonth(f, back)][1].nr>>
    ELSE <<MinMonth(f), 0>>

ReadsEmpty(f, back) ==
    /\ IF back THEN f.max # 0 ELSE f.min # 0
    /\ \E m \in Passed(f, back) \cup {StartMonth(f, back)} : buckets[m] = <<>>

\* createSearchIterator; the end iterator starts from the other side and is advanced once.
NothingToFind(f) ==
    maxNr = 0 \/ (~NoInterval(f) /\ ~Overlaps(f)) \/ OutOfBounds(f)

Create(f, isEnd) ==
    LET c == Capped(f)
        back == (f.dir = "desc") # isEnd
        i == Place(c, Start(c, back)[1], Start(c, back)[2])
    IN  IF NothingToFind(f) THEN Stopped ELSE IF isEnd THEN Advance(i) ELSE i

Given(i) == IF i.on = "entry" THEN <<i.nr>> ELSE <<>>

\* Descending from a place behind the entries of the month.
Lost(i) == i.on = "entry" /\ i.filter.dir = "desc" /\ i.entry > Len(buckets[i.month])

-----------------------------------------------------------------------------
IInit == Init /\ it = NoIterator /\ got = <<>>

IndexStep == it = NoIterator /\ Next /\ UNCHANGED ivars

\* The place to begin at can be told: no month without entries is asked for its first or last number.
Told(f) == NothingToFind(f) \/ ~ReadsEmpty(Capped(f), f.dir = "desc")

Anywhere(f) ==
    {Stopped} \cup {Place(Capped(f), m, e) : m \in DOMAIN buckets, e \in 0 .. MaxAdds}

Begin(f) ==
    /\ it = NoIterator
    /\ \E i \in IF Told(f) THEN {Create(f, FALSE)} ELSE Anywhere(f) :
          it' = [filter |-> f] @@ i /\ got' = Given(i)
    /\ UNCHANGED vars

Increment ==
    /\ it.on = "entry" /\ Len(got) <= MaxAdds
    /\ \E i \in IF Lost(it) THEN Anywhere(it.filter)
                 ELSE {Advance([it EXCEPT !.filter = Capped(it.filter)])} :
          it' = [filter |-> it.filter] @@ i /\ got' = got \o Given(i)
    /\ UNCHANGED vars

INext ==
    \/ IndexStep
    \/ \E f \in Filters : Begin(f)
    \/ Increment

ISpec == IInit /\ [][INext]_<<vars, ivars>>

-----------------------------------------------------------------------------
(* Properties                                                              *)

\* Places are computed from numbers, and no number of a month is missing.
Computed(f) == f.dir = "desc" \/ f.min # 0

Consecutive ==
    \A m \in DOMAIN buckets : \A j \in DOMAIN buckets[m] : buckets[m][j].nr = buckets[m][1].nr + j - 1

\* The number to begin at is in the month it is looked for in.
InMonth(f) ==
    LET s == Start(Capped(f), f.dir = "desc")
    IN  NothingToFind(f) \/ s[2] \in 0 .. Len(buckets[s[1]]) - 1

\* At every step, and to the end when it ends, a loop gives transactions its filter asks for, in the
\* order of the filter, none twice and none left out between two of them; and it begins with the
\* first of them if the place to begin at can be told and exists.  Where a month misses a number
\* this holds only of loops that compute no place (TransactionsIndex.cpp:839, 896, 914).
IteratesExactly ==
    it # NoIterator /\ (Computed(it.filter) => Consecutive) =>
        \E rest \in Suffixes(Asked(it.filter)) :
            /\ IF it.on = "stopped" THEN got = rest ELSE IsPrefix(got, rest)
            /\ Told(it.filter) /\ InMonth(it.filter) => rest = Asked(it.filter)

\* The end iterator is a stopped one, so that the loop ends only when its own iterator stops.
EndIsStopped ==
    it = NoIterator => \A f \in Filters :
        (NothingToFind(f) \/ ~ReadsEmpty(Capped(f), f.dir # "desc")) /\ Consecutive =>
            Create(f, TRUE).on = "stopped"
=============================================================================
