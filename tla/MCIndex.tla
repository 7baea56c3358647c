------------------------------ MODULE MCIndex ------------------------------
(***************************************************************************)
(* The index of a blockchain and what is looked up with it, in four parts  *)
(* that share its variables: the index itself, with resets and additions   *)
(* that fail; the searches of InMemory; the sum of a user's creations by   *)
(* target date, and the older one by three months.  The table of days has  *)
(* the 31 days of a month and grows by four months.                        *)
(***************************************************************************)
EXTENDS ThreeMonths, Search, TLC

CONSTANTS
    Parts,                      \* which of the parts run
    k1, k2, k3, k4, k5,         \* public keys
    account, gmw, auf,          \* those of the creations: k1 is the moderator, k2 the user
    anchor1, anchor2, own, foreign, noKey

VARIABLE part

Tx(type, signed, balance, other) ==
    [type |-> type, signed |-> signed, balance |-> balance, other |-> other, coins |-> {own}]

AllKeys == {k1, k2, k3, k4, k5, account, gmw, auf}
AllTypes == {"root", "register", "transfer", "deferred", "creation"}

-----------------------------------------------------------------------------
(* The index: a first and a later day of four months, of which the last is *)
(* beyond a table that has not grown.  k1 is the community's key and that  *)
(* of a user, k2 the account of the user and of the community.             *)

IndexContents ==
    {Tx("root", {k1}, {k2}, {k1}), Tx("register", {k1}, {k2}, {}), Tx("transfer", {k1}, {k1, k2}, {})}

IndexDates == {31 * month + day : month \in {0, 1, 4, 8}, day \in {0, 7}}

AnyFilter == [interval |-> Always, min |-> 0, max |-> 0, type |-> None, search |-> None, key |-> k1,
              coin |-> None, direction |-> "asc", size |-> 0, page |-> 0]

\* The intervals between the first days and the later ones, a day between the dates,
\* and some with number bounds or with a bitmap.
IntervalFilters ==
    {[AnyFilter EXCEPT !.interval = i] :
        i \in {j \in {31 * month : month \in {0, 1, 4, 8}} \X {7, 38, 131, 255} : j[1] <= j[2]}
             \cup {<<7, 7>>, <<7, 31>>, <<38, 124>>, <<100, 100>>}}
    \cup {[AnyFilter EXCEPT !.interval = <<0, d>>, !.min = 2, !.max = max] : d \in {7, 100}, max \in {0, 3}}
    \cup {[AnyFilter EXCEPT !.interval = <<s, 100>>, !.type = "transfer"] : s \in {7, 31, 100}}

\* Pages of up to three transactions of several kinds.
PageFilters ==
    {[AnyFilter EXCEPT !.type = kind[1], !.search = kind[2], !.direction = d, !.size = n, !.page = p] :
        kind \in {<<None, None>>, <<"transfer", "balance">>},
        d \in {"asc", "desc"}, n \in 1..3, p \in {0, 2}}
    \cup {[AnyFilter EXCEPT !.search = s, !.direction = "desc", !.page = 1] : s \in {"balance", "involved"}}

CoinFilters ==
    {[AnyFilter EXCEPT !.coin = c, !.search = "balance", !.key = k2, !.direction = "desc", !.size = n] :
        c \in {own, foreign}, n \in {0, 1}}

AllFilters == IntervalFilters \cup PageFilters \cup CoinFilters

-----------------------------------------------------------------------------
(* Creations for one user from November to May, 8 units a day.             *)

RootTx == Tx("root", {k1}, {gmw, auf}, {k1})
RegistrationTx == Tx("register", {k1, k2}, {account}, {})
CreationTx == Tx("creation", {k1}, {account, gmw, auf}, {})

\* The days on which the months from November to May begin.
NovemberToMay == [m \in 0..6 |-> <<0, 30, 61, 92, 120, 151, 181>>[m + 1]]

FirstUnit(m) == 8 * NovemberToMay[m]

\* The first unit of January, the middle of February, the last unit of March and two
\* of its days around the one from which the sum no longer reaches back to the first of
\* January.
CreationTimes ==
    {FirstUnit(2), FirstUnit(3) + 15 * 8, FirstUnit(5) - 1} \cup {FirstUnit(4) + d * 8 : d \in {1, 4}}

\* Received at once, in time, or dated so far ahead that the sum looks back over nothing
\* there is: two months and a week.
CreationDelays == {0, 1, -520}

FoundedAt == {FirstUnit(1) + 15 * 8, FirstUnit(2)}

\* The older sum: two days of each month, in spring, and from one November to the
\* next March.
ReceivedAt == {31 * month + day : month \in (2..4) \cup (10..14), day \in {0, 1}}

-----------------------------------------------------------------------------
(* Searches: two months of two days of two moments.  k1 is the community's *)
(* key and k4 its account, k2 a user, k3 the address of a deferred         *)
(* transfer, k5 that of another which k3 has signed too.                   *)

SearchContents ==
    {Tx("root", {k1}, {k4}, {}), Tx("register", {k1}, {k2}, {}),
     Tx("deferred", {k2}, {k2, k3}, {}), Tx("deferred", {k2, k3}, {k2, k5}, {})}

AllContents == IndexContents \cup SearchContents \cup {RootTx, RegistrationTx, CreationTx}

\* The account a transaction is for: the one whose balance is set and who has not signed.
AllAccounts ==
    [c \in AllContents |-> IF c.balance \subseteq c.signed THEN CHOOSE k \in c.balance : TRUE
                           ELSE CHOOSE k \in c.balance : k \notin c.signed]

SearchDates == {0, 1, 31}
SearchMoments == UNION {{2 * date, 2 * date + 1} : date \in SearchDates}

UseAll == [c \in AllContents |-> {"use"}]
OnlyType(t) == [c \in AllContents |-> IF c.type = t THEN {"use"} ELSE {}]
UpTo(t) == [c \in AllContents |-> IF c.type = t THEN {"use", "stop"} ELSE {"use"}]
Before(t) == [c \in AllContents |-> IF c.type = t THEN {"stop"} ELSE {"use"}]
AllFunctions == {UseAll, OnlyType("register"), UpTo("deferred"), Before("register")}

AnySearch == [min |-> 0, max |-> 0, involved |-> noKey, updated |-> noKey, direction |-> "desc",
              type |-> None, size |-> 0, page |-> 0, coin |-> None, interval |-> Always,
              function |-> UseAll]

AllSearches ==
    {[AnySearch EXCEPT !.interval = i] :
        i \in {j \in (SearchMoments \ {0}) \X (SearchMoments \ {0}) : j[1] <= j[2]}}
    \cup {[AnySearch EXCEPT !.interval = <<1, last>>, !.function = UpTo("deferred")] : last \in {3, 62}}
    \cup {[AnySearch EXCEPT !.function = fn] : fn \in AllFunctions \ {UpTo("deferred")}}
    \cup {[AnySearch EXCEPT !.involved = i, !.updated = u, !.type = t, !.direction = d,
                            !.size = one[1], !.min = one[2], !.function = one[3]] :
            i \in {noKey, k2}, u \in {noKey, k3}, t \in {None, "deferred"}, d \in {"asc", "desc"},
            one \in {<<1, 0, UseAll>>, <<0, 2, UseAll>>, <<0, 0, UpTo("deferred")>>}}

-----------------------------------------------------------------------------
indexVars == <<chain, indexed, minNr, maxNr, minDate, maxDate, days,
               balanceTx, signedTx, otherTx, typeTx, otherCoinTx>>
MCVars == <<indexVars, now, creation, entries, part>>

MCInit == CreationInit /\ entries = <<>> /\ part \in Parts

\* The longest chain of each part.
Longest == [index |-> 4, search |-> 3, limit |-> 5, months |-> 4]

MCNext ==
    \/ /\ part = "index"
       /\ \/ Reset
          \/ /\ Len(chain) < Longest[part]
             /\ \E date \in IndexDates, c \in IndexContents : Add(date, c)
       /\ UNCHANGED <<now, creation, entries, part>>
    \/ /\ part = "search" /\ Len(chain) < Longest[part]
       /\ \E date \in SearchDates, c \in SearchContents, hour \in Hours, anchor \in Anchors :
             Push(date, c, hour, anchor)
       /\ UNCHANGED <<now, creation, part>>
    \/ /\ part = "limit" /\ Len(chain) < Longest[part]
       /\ CreationNext
       /\ UNCHANGED <<entries, part>>
    \/ /\ part = "months" /\ Len(chain) < Longest[part]
       /\ MonthsNext
       /\ UNCHANGED <<now, creation, entries, part>>

\* The anchors are interchangeable: no filter names one.
AnchorSymmetry == Permutations(Anchors)

MCSpec == MCInit /\ [][MCNext]_MCVars
=============================================================================
