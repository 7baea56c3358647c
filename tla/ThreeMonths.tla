---------------------------- MODULE ThreeMonths ----------------------------
(***************************************************************************)
(* calculateCreationSum::V01_ThreeMonthsAlgoRole, the sum of the creations *)
(* of three months that applied until May 2020 and is met when old         *)
(* transactions are imported, on top of the index that finds them.         *)
(*                                                                         *)
(* Root, creations and their recipient are those of CreationLimit.  The    *)
(* months of TransactionsIndex are counted from a January; the role        *)
(* compares calendar months, whose differences are taken modulo twelve.    *)
(***************************************************************************)
EXTENDS CreationLimit

CONSTANT Received       \* dates at which a creation may be received

MonthsPerYear == 12
MonthsBack == 2         \* "received - 2 month = min"

ASSUME ThreeMonthsAssumption == Received \subseteq {d \in Dates : Month(d) >= MonthsBack}

Year(date) == Month(date) \div MonthsPerYear
CalendarMonth(date) == Month(date) % MonthsPerYear

\* The filter of run.  An interval of months reaches from the first day of one to
\* the first day of the other (TimepointInterval of two year_months).
MonthsFilter(date) ==
    [interval |-> <<(Month(date) - MonthsBack) * DaysPerMonth, Month(date) * DaysPerMonth>>,
     min |-> 0, max |-> Len(chain), type |-> Creation.type,
     search |-> "balance", key |-> Recipient, coin |-> None,
     direction |-> "desc", size |-> 0, page |-> 0]

\* Fault: over the end of a year one month more is subtracted.
CountsAmountEleven(date, confirmed) ==
    \/ /\ Year(confirmed) = Year(date)
       /\ (CalendarMonth(date) - CalendarMonth(confirmed)) % MonthsPerYear <= MonthsBack
    \/ /\ Year(date) - Year(confirmed) = 1
       /\ (CalendarMonth(confirmed) - 11) % MonthsPerYear = CalendarMonth(date)

\* The element filter of run: whether a creation found is added to the sum.
CountsAmount(date, confirmed) ==
    \/ /\ Year(confirmed) = Year(date)
       /\ (CalendarMonth(date) - CalendarMonth(confirmed)) % MonthsPerYear <= MonthsBack
    \/ /\ Year(date) - Year(confirmed) = 1
       /\ (CalendarMonth(confirmed) - 10) % MonthsPerYear = CalendarMonth(date)

\* The creations whose amounts run adds up for one received at date.
Counted(date) ==
    LET found == FindTransactions(MonthsFilter(date))
    IN  {n \in {found[i] : i \in DOMAIN found} : CountsAmount(date, chain[n].date)}

\* The chain begins in the first month and is given creations in the order of their
\* dates.
Begin == chain = <<>> /\ AddTransactionIndices(0, Root)

Receive(date) ==
    /\ 0 < Len(chain) /\ Len(chain) < MaxLen
    /\ chain[Len(chain)].date <= date
    /\ AddTransactionIndices(date, Creation)

MonthsNext == Begin \/ \E date \in Received : Receive(date)

MonthsSpec == Init /\ [][MonthsNext]_vars

-----------------------------------------------------------------------------
(* Properties. *)

\* The creations the index knows.
Creations == {n \in indexed : chain[n].content = Creation}

\* When a creation may be received next.
Upcoming == {d \in Received : chain # <<>> /\ chain[Len(chain)].date <= d}

\* A creation is counted in the two months after its own, the January after a
\* December aside, and never beyond them, though months are compared modulo twelve
\* and the interval of months reaches over the end of a year.
CountedTwoMonthsOn ==
    \A d \in Upcoming, n \in Creations :
        LET distance == Month(d) - Month(chain[n].date)
        IN  /\ distance = MonthsBack \/ (distance = 1 /\ CalendarMonth(d) # 0) => n \in Counted(d)
            /\ distance > MonthsBack => n \notin Counted(d)

\* The sum covers the creations of three months, that of the day of receiving and
\* the two before ("received = max, received - 2 month = min",
\* V01_ThreeMonthsAlgoRole.cpp).
SumOfThreeMonths ==
    \A d \in Upcoming :
        {n \in Creations : Month(d) - Month(chain[n].date) \in 0..MonthsBack} \subseteq Counted(d)
=============================================================================
