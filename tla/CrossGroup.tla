---------------------------- MODULE CrossGroup ----------------------------
(***************************************************************************)
(* Transfers between communities.  Each community has a blockchain of its  *)
(* own.  A transfer from one to the other is two transactions: the         *)
(* outbound one debits the sender on the chain of its community, then the  *)
(* inbound one, which names the ledger anchor of the outbound one, credits *)
(* the recipient on the chain of the other.  Nothing but the validation of *)
(* the inbound transaction, which looks into both chains, ties the two     *)
(* together.                                                               *)
(*                                                                         *)
(* An order is what a client hands to the GradidoTransactionBuilder.  Its  *)
(* number stands for the memos, which two different orders do not share.   *)
(* An anchor is the number a transaction has on its chain.  Every chain    *)
(* has dates of its own: the ledger dates a transaction when it reaches    *)
(* the chain, and nothing compares the dates of two chains.  Times are as  *)
(* short as the 120 seconds a transaction may take; what decays in them is *)
(* left out here and is in Ledger.                                         *)
(***************************************************************************)
EXTENDS Integers, Sequences, FiniteSetsExt

CONSTANTS
    Communities, Keys,
    Orders,      \* home = away for a local transfer
    Dates,       \* when a transaction may reach a chain
    MaxDelay,    \* the 120 seconds a transaction may take from createdAt to its chain
    Funded,      \* the keys registered and funded from the start: community -> set of keys
    Joining,     \* the <<community, key>> that may register later
    Funds,       \* what each of them has, in the coin of its community
    Tolerance,   \* the 100 GradidoCent a balance may fall short
    MaxLen       \* bound: longest chain

Order == [id : Nat, created : Nat, from : Keys, to : Keys, home : Communities, away : Communities,
          amount : Nat \ {0}, coin : Communities]

ASSUME OrdersAssumption ==
    /\ Orders \subseteq Order
    /\ \A o, p \in Orders : o.id = p.id => o = p
    /\ \A o \in Orders : o.from # o.to

ASSUME KeysAssumption == Joining \subseteq Communities \X Keys /\ Funded \in [Communities -> SUBSET Keys]

ASSUME FiniteAssumption == IsFiniteSet(Communities) /\ IsFiniteSet(Keys) /\ IsFiniteSet(Orders)

ASSUME NumbersAssumption ==
    Funds \in Nat /\ Tolerance \in Nat /\ MaxLen \in Nat /\ MaxDelay \in Nat /\ Dates \subseteq Nat

NoAnchor == 0
NoBalance == -1

VARIABLE chain   \* community -> its confirmed transactions, by transaction nr

-----------------------------------------------------------------------------
(* Transactions *)

\* The transactions the builder makes of an order; other is the other community's index.
LocalTx(o) == [type |-> "local", order |-> o, coin |-> o.coin, other |-> o.home]
OutboundTx(o) == [type |-> "outbound", order |-> o, coin |-> o.coin, other |-> o.away]
InboundTx(o) == [type |-> "inbound", order |-> o, coin |-> o.coin, other |-> o.home]
RegisterTx(c, k) == [type |-> "register", key |-> k, other |-> c]

IsTransfer(tx) == tx.type \in {"local", "outbound", "inbound"}

\* GradidoTransaction::isPairing: the same date and memos, sender, recipient and amount, and
\* another community; the coin is not compared.
IsPairing(tx, with) ==
    IsTransfer(tx) /\ IsTransfer(with) /\ tx.other # with.other /\ tx.order.id = with.order.id
    /\ <<tx.order.from, tx.order.to, tx.order.amount>> = <<with.order.from, with.order.to, with.order.amount>>

-----------------------------------------------------------------------------
(* Looking into a chain *)

\* getAddressType: the key was registered on chain c.
Registered(c, k) ==
    \/ k \in Funded[c]
    \/ \E i \in DOMAIN chain[c] : chain[c][i].tx.type = "register" /\ chain[c][i].tx.key = k

\* isTransactionExist: only the transactions of the very date are compared with.
Exists(c, tx, at) == \E i \in DOMAIN chain[c] : chain[c][i].at = at /\ chain[c][i].tx = tx

\* The transactions up to nr that set what k has of a coin.
Setting(c, k, coin, nr) == {i \in 1 .. nr : chain[c][i].bal[k][coin] # NoBalance}

\* What a key has before any transaction of the model.
Opening(c, k, coin) == IF k \in Funded[c] /\ coin = c THEN Funds ELSE 0

\* calculateAccountBalance::Context::fromEnd, up to transaction nr.
FromEnd(c, k, coin, nr) ==
    LET set == Setting(c, k, coin, nr)
    IN  IF set = {} THEN Opening(c, k, coin) ELSE chain[c][Max(set)].bal[k][coin]

Last(c) == Len(chain[c])

LastDate(c) == IF chain[c] = <<>> THEN 0 ELSE chain[c][Last(c)].at

-----------------------------------------------------------------------------
(* Validation *)

\* ConfirmedTransactionRole::run: not before the previous transaction, not too late after createdAt.
ValidDates(c, tx, at) == LastDate(c) <= at /\ at - tx.order.created <= MaxDelay

\* GradidoTransferRole::validatePrevious
Covered(o, c, nr) == o.amount <= FromEnd(c, o.from, o.coin, nr) + Tolerance

\* GradidoTransferRole::validateAccount
AccountsKnown(o, senders, recipients) == Registered(senders, o.from) /\ Registered(recipients, o.to)

\* Fault: the pairing transaction is looked for but not compared.
PairedAny(c, tx, anchor) == anchor \in DOMAIN chain[tx.other]

\* GradidoTransactionRole: the transaction of the other chain the anchor names is the pairing one.
Paired(c, tx, anchor) ==
    anchor \in DOMAIN chain[tx.other] /\ IsPairing(tx, chain[tx.other][anchor].tx)

-----------------------------------------------------------------------------
(* Balances: TransferTransactionRole::calculateAccountBalances *)

NoBalances == [k \in Keys |-> [coin \in Communities |-> NoBalance]]

\* AbstractRole::calculateAccountBalance; short by no more than the tolerance becomes zero.
After(c, k, coin, change) ==
    LET sum == FromEnd(c, k, coin, Last(c)) + change IN IF sum < 0 THEN 0 ELSE sum

\* Fault: the amount is not negated.
DebitAdded(c, o) == [NoBalances EXCEPT ![o.from][o.coin] = After(c, o.from, o.coin, o.amount)]

Debit(c, o) == [NoBalances EXCEPT ![o.from][o.coin] = After(c, o.from, o.coin, -o.amount)]

Credit(c, o) == [NoBalances EXCEPT ![o.to][o.coin] = After(c, o.to, o.coin, o.amount)]

DebitCredit(c, o) == [Debit(c, o) EXCEPT ![o.to][o.coin] = After(c, o.to, o.coin, o.amount)]

-----------------------------------------------------------------------------
(* createAndAddConfirmedTransaction of a chain *)

\* A transaction was confirmed on chain c, on some date.
Confirmed(c, tx) == \E i \in DOMAIN chain[c] : chain[c][i].tx = tx

\* The orders to chain c debited and not yet credited.
Awaited(c) ==
    {o \in Orders : /\ o.home # o.away /\ o.away = c
                    /\ Confirmed(o.home, OutboundTx(o)) /\ ~Confirmed(c, InboundTx(o))}

\* The bound of a chain leaves room for every credit that is to come.
WithinBound == \A c \in Communities : Last(c) + Cardinality(Awaited(c)) <= MaxLen

Append1(c, tx, at, anchor, bal) ==
    /\ chain' = [chain EXCEPT ![c] = Append(@, [tx |-> tx, at |-> at, anchor |-> anchor, bal |-> bal])]
    /\ WithinBound'

Register(c, k, at) ==
    /\ LastDate(c) <= at /\ ~Registered(c, k)
    /\ Append1(c, RegisterTx(c, k), at, NoAnchor, NoBalances)

Local(o, at) ==
    /\ o.home = o.away /\ ~Exists(o.home, LocalTx(o), at) /\ ValidDates(o.home, LocalTx(o), at)
    /\ AccountsKnown(o, o.home, o.home) /\ Covered(o, o.home, Last(o.home))
    /\ Append1(o.home, LocalTx(o), at, NoAnchor, DebitCredit(o.home, o))

\* Fault: the chain of the recipient is not asked.
OutboundUnasked(o, at) ==
    /\ o.home # o.away /\ ~Exists(o.home, OutboundTx(o), at) /\ ValidDates(o.home, OutboundTx(o), at)
    /\ Registered(o.home, o.from) /\ Covered(o, o.home, Last(o.home))
    /\ Append1(o.home, OutboundTx(o), at, NoAnchor, Debit(o.home, o))

\* The other chain is only asked whether it knows the recipient.
Outbound(o, at) ==
    /\ o.home # o.away /\ ~Exists(o.home, OutboundTx(o), at) /\ ValidDates(o.home, OutboundTx(o), at)
    /\ AccountsKnown(o, o.home, o.away) /\ Covered(o, o.home, Last(o.home))
    /\ Append1(o.home, OutboundTx(o), at, NoAnchor, Debit(o.home, o))

\* Fault: an inbound transaction that was confirmed on the same date is confirmed again.
InboundAgain(c, tx, anchor, at) ==
    /\ ValidDates(c, tx, at) /\ Paired(c, tx, anchor)
    /\ AccountsKnown(tx.order, tx.other, c) /\ Covered(tx.order, tx.other, anchor)
    /\ Append1(c, tx, at, anchor, Credit(c, tx.order))

\* An inbound transaction on chain c.  The chain of the sender is asked what the sender had
\* up to the outbound transaction, that one included, and not whether it was credited before.
Inbound(c, tx, anchor, at) ==
    /\ ~Exists(c, tx, at) /\ ValidDates(c, tx, at) /\ Paired(c, tx, anchor)
    /\ AccountsKnown(tx.order, tx.other, c) /\ Covered(tx.order, tx.other, anchor)
    /\ Append1(c, tx, at, anchor, Credit(c, tx.order))

-----------------------------------------------------------------------------

Init == chain = [c \in Communities |-> <<>>]

\* The inbound transaction of an order may be handed over with any anchor.
InboundOf(o, at) ==
    o.home # o.away /\ \E anchor \in 1 .. MaxLen : Inbound(o.away, InboundTx(o), anchor, at)

Next ==
    \E at \in Dates :
        \/ \E ck \in Joining : Register(ck[1], ck[2], at)
        \/ \E o \in Orders : Local(o, at) \/ Outbound(o, at) \/ InboundOf(o, at)

Spec == Init /\ [][Next]_chain

\* A client hands over the inbound transaction until it is confirmed.
Deliver(o) == ~Confirmed(o.away, InboundTx(o)) /\ \E at \in Dates : InboundOf(o, at)

FairSpec == Spec /\ \A o \in Orders : WF_chain(Deliver(o))

\* Inbound transactions made without the builder: on the chain of any community but the sender's.
Elsewhere(o, c, at) ==
    /\ o.home # o.away /\ c # o.home
    /\ \E anchor \in 1 .. MaxLen : Inbound(c, [InboundTx(o) EXCEPT !.other = o.home], anchor, at)

HandmadeSpec ==
    Init /\ [][Next \/ \E o \in Orders, c \in Communities, at \in Dates : Elsewhere(o, c, at)]_chain

-----------------------------------------------------------------------------
(* Properties *)

Entries(c, type) == {i \in DOMAIN chain[c] : chain[c][i].tx.type = type}

\* Types: chains within their bound; a transfer sets a balance of its coin, to a natural.
TypeOK ==
    /\ DOMAIN chain = Communities
    /\ \A c \in Communities :
        /\ Last(c) <= MaxLen
        /\ \A i \in DOMAIN chain[c], k \in Keys, coin \in Communities :
            chain[c][i].bal[k][coin] \in Nat \cup {NoBalance}
        /\ \A i \in DOMAIN chain[c] : IsTransfer(chain[c][i].tx) =>
            \E k \in Keys : chain[c][i].bal[k][chain[c][i].tx.coin] # NoBalance

\* An inbound transaction names, on the chain of its sender, an outbound one of the same order that
\* sent to the chain it is on (TransactionBody::isPairing compares less than that).
InboundHasOutbound ==
    \A c \in Communities : \A i \in Entries(c, "inbound") :
        LET in == chain[c][i]
        IN  /\ in.anchor \in DOMAIN chain[in.tx.other]
            /\ chain[in.tx.other][in.anchor].tx = OutboundTx(in.tx.order)
            /\ chain[in.tx.other][in.anchor].tx.other = c

\* An outbound transaction is credited on one chain only, at most once on a date, and not after
\* the time a transaction may take: isTransactionExist and the dates of ConfirmedTransactionRole
\* are all that limits how often a client is credited.
CreditedOncePerDate ==
    \A c, d \in Communities : \A i \in Entries(c, "inbound"), j \in Entries(d, "inbound") :
        chain[c][i].tx.order = chain[d][j].tx.order =>
            /\ c = d /\ (chain[c][i].at = chain[d][j].at => i = j)
            /\ chain[c][i].at - chain[c][i].tx.order.created <= MaxDelay

\* No outbound transaction is credited twice: the inbound one is to "mark the end point of
\* transaction" (GradidoTransactionBuilder).
CreditedOnce ==
    \A c, d \in Communities : \A i \in Entries(c, "inbound"), j \in Entries(d, "inbound") :
        chain[c][i].tx.order = chain[d][j].tx.order => c = d /\ i = j

Held(coin) == SumFunction([ck \in Communities \X Keys |-> FromEnd(ck[1], ck[2], coin, Last(ck[1]))])

Times(c, tx) == Cardinality({i \in DOMAIN chain[c] : chain[c][i].tx = tx})

\* What was debited for an order and not credited; less than nothing if it was credited too often.
Outstanding(o) == o.amount * (Times(o.home, OutboundTx(o)) - Times(o.away, InboundTx(o)))

InFlight(coin) ==
    SumFunction([o \in Orders |-> IF o.coin = coin /\ o.home # o.away THEN Outstanding(o) ELSE 0])

DebitsOn(c) == Entries(c, "local") \cup Entries(c, "outbound")
Debits == SumFunction([c \in Communities |-> Cardinality(DebitsOn(c))])

\* Of a coin no more and no less is held on all chains and under way between them than there was
\* at the start, but for what the tolerance grants each debit.  What a repeated inbound transaction
\* credits is missing under way.
Conservation ==
    \A coin \in Communities :
        LET now == Held(coin) + InFlight(coin)
            atStart == Funds * Cardinality(Funded[coin])
        IN  atStart <= now /\ now <= atStart + Debits * Tolerance

\* The chain of the recipient has passed the time in which it takes the transaction.
TooLate(o) == LastDate(o.away) - o.created > MaxDelay

\* A transfer whose outbound transaction is confirmed reaches its recipient, unless the chain of the
\* recipient goes past the time an inbound transaction is accepted in.
EveryOutboundCredited ==
    \A o \in Orders :
        (o.home # o.away /\ Confirmed(o.home, OutboundTx(o))) ~> (Confirmed(o.away, InboundTx(o)) \/ TooLate(o))

\* The "Inbound transaction goes onto recipient community blockchain".
OnRecipientChain ==
    \A c \in Communities : \A i \in Entries(c, "inbound") :
        chain[chain[c][i].tx.other][chain[c][i].anchor].tx.other = c
=============================================================================
