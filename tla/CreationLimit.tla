--------------------------- MODULE CreationLimit ---------------------------
(***************************************************************************)
(* The monthly limit of creations: GradidoCreationRole's checks on the     *)
(* target month and calculateCreationSum::V02_TargetDateAlgoRole, on top   *)
(* of the index that finds the creations to sum up.                        *)
(*                                                                         *)
(* Time is a natural number of units; a calendar turns it into the dates   *)
(* of TransactionsIndex.  A creation is for a target month, the month it   *)
(* is created in or one of the Distance months before.  The sum for that   *)
(* month looks back Distance months of average length (date::months is a   *)
(* duration of 30.436875 days), found with the day resolution of the index. *)
(***************************************************************************)
EXTENDS TransactionsIndex, Functions

CONSTANTS
    LastMonth,       \* the calendar has the months 0 to LastMonth
    FirstDay,        \* month -> the day it begins on, counted from that of month 0
    UnitsPerDay,
    Distance,        \* months a target month may lie back: 2 (3 from 2020 to 2022)
    AverageMonth,    \* Distance times this is looked back over, in units
    MaxDelay,        \* 120 seconds from creating to receiving
    Delays,          \* from creating to confirming; below zero if dated ahead, which nothing checks
    Ahead,           \* what the clock of a creator may be ahead of the ledger's and be called in time
    Limit, Amounts,  \* 1000 GDD; amounts of single creations
    Root, Registration, Creation,  \* what the index takes from them
    Recipient,
    Founded,         \* when the chain may begin, and the recipient be registered
    Times, Targets   \* when and for which months a creation may be created

VARIABLES
    now,             \* date of confirmation of the last transaction
    creation         \* number of a creation -> its target month, amount and delay

creationVars == <<vars, now, creation>>

Months == 0..LastMonth

\* What a calendar is: months follow each other and have at most DaysPerMonth days.
ASSUME CalendarAssumption ==
    /\ LastMonth \in Nat /\ UnitsPerDay \in Nat \ {0}
    /\ FirstDay \in [Months -> Nat] /\ FirstDay[0] = 0
    /\ \A m, n \in Months : m < n => FirstDay[m] < FirstDay[n]
    /\ \A m \in Months \ {LastMonth} : FirstDay[m + 1] - FirstDay[m] <= DaysPerMonth
    /\ LastMonth * DaysPerMonth <= MaxDate

\* The calendar covers the times, and the months that may name a month as their
\* target are not longer than twice what the sum looks back over.  Nothing is
\* said of how far ahead a creation may be dated.
ASSUME CreationAssumption ==
    /\ Distance \in Nat /\ AverageMonth \in Nat /\ MaxDelay \in Nat
    /\ Ahead \in Nat /\ Delays \subseteq Int
    /\ Limit \in Nat /\ Amounts \subseteq Nat
    /\ {Root, Registration, Creation} \subseteq Contents
    /\ Creation.type \notin {None, Root.type, Registration.type}
    /\ Recipient \in Creation.balance
    /\ Founded \cup Times \subseteq Nat
    /\ \A t \in Founded \cup Times : t + MaxDelay < FirstDay[LastMonth] * UnitsPerDay
    /\ \A t \in Times : t >= Distance * AverageMonth
    /\ \A m \in Targets :
          /\ m \in Months /\ m + Distance + 1 \in Months
          /\ (FirstDay[m + Distance + 1] - FirstDay[m]) * UnitsPerDay + 2 * (MaxDelay + Ahead)
                 <= 2 * (Distance * AverageMonth)

-----------------------------------------------------------------------------
(* The calendar. *)

MonthOf(t) == Max({m \in Months : FirstDay[m] <= t \div UnitsPerDay})

DateOf(t) == MonthOf(t) * DaysPerMonth + (t \div UnitsPerDay - FirstDay[MonthOf(t)])

-----------------------------------------------------------------------------
(* Validation. *)

\* validateTargetDate.
ValidTargetDate(createdAt, target) == MonthOf(createdAt) - target \in 0..Distance

\* Fault: the sum looks back one month less.
BeforeReceivedShort(date) == date - (Distance - 1) * AverageMonth

\* V02_TargetDateAlgoRole::run: where the interval of the sum begins.
BeforeReceived(date) == date - Distance * AverageMonth

CreationFilter(date) ==
    [interval |-> <<DateOf(BeforeReceived(date)), DateOf(date)>>,
     min |-> 0, max |-> Len(chain), type |-> Creation.type,
     search |-> "balance", key |-> Recipient, coin |-> None,
     direction |-> "desc", size |-> 0, page |-> 0]

SumFor(target, numbers) ==
    SumFunctionOnSet([n \in numbers |-> creation[n].amount], {n \in numbers : creation[n].target = target})

\* The date of confirmation is not handed down to the role: it takes the latest
\* possible one.
CreationSum(createdAt, target) ==
    LET found == FindTransactions(CreationFilter(createdAt + MaxDelay))
    IN  SumFor(target, {found[i] : i \in DOMAIN found})

ValidCreation(createdAt, target, amount) ==
    /\ ValidTargetDate(createdAt, target)
    /\ CreationSum(createdAt, target) + amount <= Limit

-----------------------------------------------------------------------------
(* Operations. *)

\* The community root, and the registration of the recipient.
Found(at) ==
    /\ chain = <<>>
    /\ AddTransactionIndices(DateOf(at), Root)
    /\ now' = at
    /\ UNCHANGED creation

Register(at) ==
    /\ Len(chain) = 1 /\ now <= at
    /\ AddTransactionIndices(DateOf(at), Registration)
    /\ now' = at
    /\ UNCHANGED creation

\* The check that a transaction is not created after it is confirmed is commented out.
Create(createdAt, at, target, amount) ==
    /\ 1 < Len(chain) /\ Len(chain) < MaxLen
    /\ now <= at /\ at - createdAt <= MaxDelay
    /\ ValidCreation(createdAt, target, amount)
    /\ AddTransactionIndices(DateOf(at), Creation)
    /\ now' = at
    /\ creation' = [n \in DOMAIN creation \cup {Len(chain) + 1} |->
                       IF n \in DOMAIN creation THEN creation[n]
                       ELSE [target |-> target, amount |-> amount, delay |-> at - createdAt]]

CreationInit == Init /\ now = 0 /\ creation = [n \in {} |-> 0]

CreationNext ==
    \/ \E at \in Founded : Found(at) \/ Register(at)
    \/ \E createdAt \in Times, delay \in Delays, target \in Targets, amount \in Amounts :
          Create(createdAt, createdAt + delay, target, amount)

CreationSpec == CreationInit /\ [][CreationNext]_creationVars

-----------------------------------------------------------------------------
(* Properties. *)

\* No one is given more than the limit for one month (GradidoCreationRole:
\* "creation amount to high, max 1000 per month").
LimitPerMonth == \A m \in Targets : SumFor(m, DOMAIN creation) <= Limit

\* The creations of the index confirmed after the first month of the chain.
AfterFirstMonth == {n \in DOMAIN creation \cap indexed : Month(chain[n].date) > Month(minDate)}

NotDatedAhead == {n \in DOMAIN creation : creation[n].delay >= -Ahead}

\* Of these, those not dated ahead never give a month more than twice the limit, whatever
\* was dated ahead in between: the sum looks back over all but the first month in which a
\* creation may be for the target month.
AtMostTwiceTheLimit == \A m \in Targets : SumFor(m, AfterFirstMonth \cap NotDatedAhead) <= 2 * Limit

\* The same of all creations, which nothing in the code ensures.
AtMostTwiceOfAll == \A m \in Targets : SumFor(m, AfterFirstMonth) <= 2 * Limit
=============================================================================
