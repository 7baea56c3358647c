------------------------------- MODULE Search -------------------------------
(***************************************************************************)
(* The searches of a blockchain (Filter, CompactFilter, InMemory::findAll  *)
(* and what Abstract builds on it), over the index of TransactionsIndex.   *)
(*                                                                         *)
(* A Filter describes transactions by exact times, public keys and a       *)
(* function of the caller; the index knows days and the keys of the        *)
(* dictionary.  findAll asks the index for the page of a compact copy of   *)
(* the filter and drops from it what the filter's time and function refuse.*)
(***************************************************************************)
EXTENDS TransactionsIndex, SequencesExt

CONSTANTS
    HoursPerDay,    \* moments of a day the index cannot tell apart
    Anchors,        \* ledger anchors
    AccountOf,      \* content -> the account a registration or a deferred transfer is for
    NoKey,          \* a public key the filter does not set
    Searches,       \* the filters the properties speak of,
    Moments         \* and the times

ASSUME HoursAssumption == HoursPerDay \in Nat \ {0}

VARIABLE entries    \* per transaction, what the index does not take: hour and ledger anchor

searchVars == <<vars, entries>>

Hours == 0..(HoursPerDay - 1)
AllMoments == 0..(MaxDate * HoursPerDay + HoursPerDay - 1)
ConfirmedAt(n) == chain[n].date * HoursPerDay + entries[n].hour
DayOf(time) == time \div HoursPerDay

-----------------------------------------------------------------------------
(* Filters. *)

\* The function of the caller gives the FilterResult of a transaction.
Results == SUBSET {"use", "stop"}

FullFilter ==
    [min : Nat, max : Nat, involved : Keys \cup {NoKey}, updated : Keys \cup {NoKey},
     direction : {"asc", "desc"}, type : Types \cup {None}, size : Nat, page : Nat,
     coin : Coins \cup {None},
     interval : {Always} \cup {i \in AllMoments \X AllMoments : i[1] <= i[2]},
     function : [Contents -> Results]]

ASSUME SearchesAssumption ==
    /\ Searches \subseteq FullFilter /\ Moments \subseteq AllMoments
    /\ NoKey \notin Keys /\ {"register", "deferred"} \subseteq Types

\* No function: FilterResult is USE for every transaction.
NoFunction == [c \in Contents |-> {"use"}]

\* Filter().
Default == [min |-> 0, max |-> 0, involved |-> NoKey, updated |-> NoKey, direction |-> "desc",
            type |-> None, size |-> 0, page |-> 0, coin |-> None, interval |-> Always,
            function |-> NoFunction]

LAST_TRANSACTION == [Default EXCEPT !.size = 1]
FIRST_TRANSACTION == [Default EXCEPT !.size = 1, !.direction = "asc"]
LastBalanceFor(key) == [Default EXCEPT !.updated = key, !.size = 1]

\* isTheSame: a filter with a function is the same as no other.
IsTheSame(f, g) == f = g /\ f.function = NoFunction

\* The public keys of the dictionary: every key of a transaction is entered with it.
Dictionary == {k \in Keys : \E n \in 1..Len(chain) : Involved(chain[n].content, k)}

\* Fault: the involved key goes before the key of the balance.
CompactInvolvedFirst(f) ==
    LET key    == IF f.involved # NoKey THEN f.involved ELSE f.updated
        search == IF f.involved # NoKey THEN "involved" ELSE "balance"
    IN  [interval |-> IF f.interval = Always THEN Always
                      ELSE <<DayOf(f.interval[1]), DayOf(f.interval[2])>>,
         min |-> f.min, max |-> f.max, type |-> f.type,
         search |-> IF key \in Dictionary THEN search ELSE None,
         key |-> IF key \in Dictionary THEN key ELSE None,
         coin |-> f.coin, direction |-> f.direction, size |-> f.size, page |-> f.page]

\* CompactFilter(Filter, dictionary, community).  The key whose balance changes goes
\* before the involved one.  A key that is not in the dictionary is MissingIndex, a
\* kind of search the index does not look at.
Compact(f) ==
    LET key    == IF f.updated # NoKey THEN f.updated ELSE f.involved
        search == IF f.updated # NoKey THEN "balance" ELSE "involved"
    IN  [interval |-> IF f.interval = Always THEN Always
                      ELSE <<DayOf(f.interval[1]), DayOf(f.interval[2])>>,
         min |-> f.min, max |-> f.max, type |-> f.type,
         search |-> IF key \in Dictionary THEN search ELSE None,
         key |-> IF key \in Dictionary THEN key ELSE None,
         coin |-> f.coin, direction |-> f.direction, size |-> f.size, page |-> f.page]

\* TransactionEntry::getCoinCommunityIdIndex drops the coin of the amount it reads.
EntryCoin(c) == None

\* isInsideInterval of a month, then of the time itself.
InsideInterval(n, interval) ==
    /\ Month(DayOf(interval[1])) <= Month(chain[n].date)
    /\ Month(chain[n].date) <= Month(DayOf(interval[2]))
    /\ ConfirmedAt(n) \in interval[1]..interval[2]

\* Filter::matches: the FilterResult of a transaction, looking at some criteria.
Matches(n, f, criteria) ==
    LET c    == chain[n].content
        coin == IF EntryCoin(c) = None THEN OwnCoin ELSE EntryCoin(c)
    IN  IF /\ "number" \in criteria => f.min <= n /\ (f.max # 0 => n <= f.max)
           /\ "coin" \in criteria => f.coin \in {None, coin}
           /\ "type" \in criteria => f.type \in {None, c.type}
           /\ "interval" \in criteria /\ f.interval # Always => InsideInterval(n, f.interval)
           /\ "involved" \in criteria /\ f.involved # NoKey => Involved(c, f.involved)
           /\ "updated" \in criteria /\ f.updated # NoKey => f.updated \in c.balance
        THEN IF "function" \in criteria THEN f.function[c] ELSE {"use"}
        ELSE {}

MAX == {"number", "coin", "type", "interval", "involved", "updated", "function"}

-----------------------------------------------------------------------------
(* Searches. *)

\* What a loop over numbers takes with the results of a function: those it uses,
\* up to the first that stops it.
Taken(numbers, result) ==
    LET stops == {i \in DOMAIN numbers : "stop" \in result[numbers[i]]}
        used  == {i \in DOMAIN numbers : "use" \in result[numbers[i]] /\ \A s \in stops : i <= s}
    IN  [k \in 1..Cardinality(used) |-> numbers[Select(used, k - 1)]]

\* findAll(Filter), which ends as well when the page is full.
FindAll(f) ==
    LET result == [n \in 1..Len(chain) |-> Matches(n, f, {"function", "interval"})]
        taken  == Taken(FindTransactions(Compact(f)), result)
    IN  IF f.size # 0 /\ Len(taken) > f.size THEN SubSeq(taken, 1, f.size) ELSE taken

\* The results of the caller's function alone.
ResultOf(f) == [n \in 1..Len(chain) |-> f.function[chain[n].content]]

\* findAll(CompactFilter, elementFilter): page after page, from that of the filter
\* on, until one is empty, the function stops, or the results are as many as a page.
ResultOfPages(f, pages) ==
    LET upTo(k) == FlattenSeq([i \in 1..k |-> Taken(pages[i], ResultOf(f))])
        ends(k) == \/ f.size = 0 \/ pages[k] = <<>> \/ Len(upTo(k)) >= f.size
                   \/ \E i \in DOMAIN pages[k] : "stop" \in ResultOf(f)[pages[k][i]]
    IN  upTo(Min({k \in DOMAIN pages : ends(k)}))

FindAllPages(f) ==
    ResultOfPages(f, [i \in 1..(Len(chain) + 2) |-> FindTransactions([Compact(f) EXCEPT !.page = f.page + i - 1])])

\* The answers of findOne besides a number: no result, and the exception for several.
NotFound == 0
Throws == -1

OnlyOne(found) ==
    CASE Len(found) = 0 -> NotFound
      [] Len(found) = 1 -> found[1]
      [] OTHER -> Throws

\* findOne: LAST_TRANSACTION is answered with mLastTransaction.
FindOne(f) == IF IsTheSame(f, LAST_TRANSACTION) THEN Len(chain) ELSE OnlyOne(FindAll(f))

\* isTransactionExist: the last transaction is looked at first, then those of the
\* time.  A content stands for a GradidoTransaction.
IsTransactionExist(c, time) ==
    LET same == [d \in Contents |-> IF d = c THEN {"use", "stop"} ELSE {}]
    IN  /\ chain # <<>> /\ ConfirmedAt(Len(chain)) >= time
        /\ \/ ConfirmedAt(Len(chain)) = time /\ chain[Len(chain)].content = c
           \/ FindOne([Default EXCEPT !.interval = <<time, time>>, !.function = same]) # NotFound

\* Abstract::findByLedgerAnchor: the caller's function first, then the anchor.
FindByLedgerAnchor(anchor, f) ==
    LET result(n) == IF Matches(n, f, {"interval"}) = {} THEN {}
                     ELSE IF "use" \notin ResultOf(f)[n] THEN ResultOf(f)[n]
                     ELSE IF entries[n].anchor = anchor THEN {"use", "stop"} ELSE {}
    IN  Taken(FindTransactions(Compact(f)), [n \in 1..Len(chain) |-> result(n)])

\* The account a registration or a deferred transfer is for: its balance is set.  Who
\* else signs is not limited.
Account(c) == AccountOf[c]

ASSUME AccountsAssumption ==
    /\ AccountOf \in [Contents -> Keys]
    /\ \A c \in Contents : c.type \in {"register", "deferred"} => Account(c) \in c.balance

\* getAddressTypeSlow: an account of the community root, else by the last registration
\* with the key, else by a deferred transfer to it.
AddressTypeBehind(first, f) ==
    IF first = NotFound THEN None
    ELSE IF f.involved \in chain[first].content.balance THEN "community"
    ELSE IF FindOne([f EXCEPT !.type = "register", !.size = 1, !.direction = "desc"]) # NotFound THEN "register"
    ELSE IF FindOne([f EXCEPT !.type = "deferred", !.size = 1, !.direction = "desc",
                              !.function = [c \in Contents |-> IF c.type = "deferred" /\ Account(c) = f.involved
                                                               THEN {"use"} ELSE {}]]) # NotFound THEN "deferred"
    ELSE None

GetAddressTypeSlow(f) == AddressTypeBehind(FindOne(FIRST_TRANSACTION), f)

\* How RegisterAddressRole looks for the user of a subaccount.
UserOfSubaccount(user) == FindOne([Default EXCEPT !.involved = user, !.max = Len(chain)])

-----------------------------------------------------------------------------
(* The chain grows. *)

SearchInit == Init /\ entries = <<>>

\* pushTransactionEntry, in the order of the dates of confirmation.
Push(date, c, hour, anchor) ==
    /\ Len(chain) < MaxLen
    /\ chain = <<>> <=> c.type = "root"
    /\ chain # <<>> => ConfirmedAt(Len(chain)) <= date * HoursPerDay + hour
    /\ AddTransactionIndices(date, c)
    /\ entries' = Append(entries, [hour |-> hour, anchor |-> anchor])

SearchNext ==
    \E date \in Dates, c \in Contents, hour \in Hours, anchor \in Anchors : Push(date, c, hour, anchor)

SearchSpec == SearchInit /\ [][SearchNext]_searchVars

-----------------------------------------------------------------------------
(* Properties. *)

\* The transactions a filter describes, its page and its function aside.
Describes(f) ==
    {n \in 1..Len(chain) :
        LET c == chain[n].content
        IN  /\ f.min <= n /\ (f.max # 0 => n <= f.max)
            /\ f.type \in {None, c.type}
            /\ f.interval # Always => ConfirmedAt(n) \in f.interval[1]..f.interval[2]
            /\ IF f.updated # NoKey THEN f.updated \in c.balance
               ELSE f.involved # NoKey => Involved(c, f.involved)}

Described(f) == Ordered(Describes(f), f.direction)

\* The filters the index answers exactly: see TransactionsIndex.
Answered(f) ==
    /\ Exact(Compact(f)) /\ f.coin = None
    /\ {f.updated, f.involved} \subseteq Dictionary \cup {NoKey}

\* Those of them the caller's function uses, up to where it stops.
Wanted(f) == Taken(Described(f), ResultOf(f))

\* Without pages a search returns exactly the transactions its filter describes, to
\* the moment, in its order, that the caller's function uses up to where it stops
\* (InMemory::findAll "do all the work").
FindAllExact ==
    \A f \in Searches : f.size = 0 /\ Answered(f) =>
        FindAll(f) = Wanted(f) /\ (f.interval = Always => FindAllPages(f) = Wanted(f))

\* A page of one is the first transaction the filter describes, the last one of the
\* chain by the shortcut of InMemory::findOne as well.
OneIsFirst ==
    \A f \in Searches \cup {LAST_TRANSACTION, FIRST_TRANSACTION} \cup {LastBalanceFor(k) : k \in Dictionary} :
        f.size = 1 /\ f.page = 0 /\ f.function = NoFunction /\ f.interval = Always /\ Answered(f) =>
            FindOne(f) = IF Described(f) = <<>> THEN NotFound ELSE Described(f)[1]

\* A transaction is said to exist exactly if it was confirmed at that very moment,
\* however many transactions share the moment or the day.
ExistsExact ==
    \A c \in Contents, time \in Moments :
        IsTransactionExist(c, time) <=>
            \E n \in 1..Len(chain) : chain[n].content = c /\ ConfirmedAt(n) = time

\* A search for a ledger anchor finds one transaction if the filter describes one
\* with that anchor that the caller's function uses before it stops, else none.
AnchorFound ==
    \A f \in Searches, a \in Anchors : f.size = 0 /\ Answered(f) =>
        LET result(i) == ResultOf(f)[Described(f)[i]]
            fits == {i \in DOMAIN Described(f) :
                        /\ entries[Described(f)[i]].anchor = a /\ "use" \in result(i)
                        /\ \A j \in 1..(i - 1) : result(j) # {"stop"}}
        IN  FindByLedgerAnchor(a, f) = IF fits = {} THEN <<>> ELSE <<Described(f)[Min(fits)]>>

\* The type getAddressTypeSlow may answer for the account of a filter.
AnswerInRange(type, f) ==
    LET inRange(t) == {n \in 1..Len(chain) : n <= f.max /\ chain[n].content.type = t}
        opened(t)  == {n \in inRange(t) : Account(chain[n].content) = f.involved}
        others     == {n \in inRange("deferred") : /\ Account(chain[n].content) # f.involved
                                                   /\ Involved(chain[n].content, f.involved)}
    IN  CASE type = "community" -> f.involved \in chain[1].content.balance
          [] type = "register"  -> \E n \in inRange("register") : Involved(chain[n].content, f.involved)
          [] type = "deferred"  -> opened("deferred") # {}
          [] OTHER -> /\ opened("register") = {}
                      /\ \A n \in opened("deferred") : \E later \in others : n < later

\* The type of an address is that of a transaction of the filter's range
\* ("use filter to check existing of a address in a subrange of transactions",
\* Abstract.h): an account that is registered or paid by a deferred transfer only
\* behind the range has none, and one inside it has one, except that only the last
\* deferred transfer the account has part in is looked at, which may be for another
\* that it has signed too.
AddressInRange ==
    \A k \in Dictionary, max \in 1..MaxLen :
        LET f == [Default EXCEPT !.involved = k, !.max = max]
        IN  AnswerInRange(GetAddressTypeSlow(f), f)

\* While no addition has failed the searches of a blockchain are exact: findAll
\* returns what its filter describes and the caller's function uses up to where it
\* stops, findOne the first of them, and the searches built on them
\* (isTransactionExist, findByLedgerAnchor, getAddressTypeSlow) miss nothing in their
\* range and find nothing beyond it.
SearchesExact ==
    Len(entries) = Len(chain) /\ indexed = 1..Len(chain) =>
        /\ FindAllExact /\ OneIsFirst
        /\ ExistsExact /\ AnchorFound /\ AddressInRange

\* A page that is not full holds every match: the compact filter "contain count of
\* still to find transactions" (InMemory.cpp:264).
PageIsFilled ==
    \A f \in Searches : f.size # 0 /\ f.page = 0 /\ Answered(f) =>
        (Len(FindAll(f)) < f.size => FindAll(f) = Wanted(f))

\* Never more results than a page: "page size, how many result should be returned at
\* max" (Pagination.h).
AtMostSize == \A f \in Searches : f.size # 0 => Len(FindAllPages(f)) <= f.size

\* A filter with a public key returns "only transaction in which the public key is
\* involved" (Filter.h).
OnlyInvolved ==
    \A f \in Searches : \A i \in DOMAIN FindAll(f) :
        f.involved # NoKey /\ f.updated = NoKey => Involved(chain[FindAll(f)[i]].content, f.involved)

\* The validation of a subaccount finds the user, who is registered and may have more
\* transactions: findOne is for callers "only if you expect only one result"
\* (Abstract.h).
UserIsFound ==
    \A n \in 1..Len(chain) : chain[n].content.type = "register" =>
        UserOfSubaccount(Account(chain[n].content)) # Throws

\* The coin of a transaction is its own if it names one: "if transaction hasn't
\* explicit set coin community index, then it belongs to his blockchain" (Filter.cpp).
CoinOfTransaction ==
    \A n \in 1..Len(chain), coin \in Coins :
        Matches(n, [Default EXCEPT !.coin = coin], {"coin"}) # {} =>
            coin \in chain[n].content.coins \/ chain[n].content.coins = {}
=============================================================================
