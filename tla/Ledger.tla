------------------------------- MODULE Ledger -------------------------------
(***************************************************************************)
(* The ledger of one community: InMemory::createAndAddConfirmedTransaction *)
(* with everything it calls (interaction::confirmTransaction, validate,    *)
(* calculateAccountBalance, createTransactionByEvent) for transactions     *)
(* local to the community, in the community's own coin.                    *)
(*                                                                         *)
(* A call is not one step.  While it is under way it may start further     *)
(* calls of the same function: every deferred transfer whose timeout lies  *)
(* between the last confirmed transaction and the new one is first closed  *)
(* by a transaction of its own.  The variable stack holds the calls under  *)
(* way, innermost last.                                                    *)
(*                                                                         *)
(* createAndAddConfirmedTransactionExtern is the same function, except     *)
(* that the caller brings the balances along (an import): then they are    *)
(* neither calculated nor compared with what the sender has.               *)
(*                                                                         *)
(* Amounts are naturals in the smallest unit, dates naturals in an         *)
(* arbitrary unit.  A call refused before it changes anything (validation  *)
(* SINGLE, or the transaction already exists) is a stuttering step.        *)
(***************************************************************************)
EXTENDS Integers, Sequences, FiniteSetsExt

CONSTANTS
    Users, Accounts,           \* keys a RegisterAddress binds to each other
    DeferredKeys,              \* keys of deferred transfer addresses
    GmwKey, AufKey,            \* the community's own accounts
    Calls,                     \* the calls clients may make
    MaxDelay,                  \* 120 seconds from creating to receiving
    MinTimeout, MaxTimeout,    \* of a deferred transfer: 1 hour, 3 months
    Tolerance,                 \* the 100 GradidoCent a balance may fall short
    MinCreation, MaxCreation,  \* 0.2 and 1000 GDD
    FirstDeferredNr,           \* deferred transfers up to this nr cannot be referred to
    Scale, Keep,               \* after d units of time Keep[d]/Scale of a balance is left
    MaxTime, MaxLen            \* bounds: latest date, longest chain

Keys == Users \cup Accounts \cup DeferredKeys \cup {GmwKey, AufKey}
Dates == 0..MaxTime

\* A transaction body.  from/to are user/account of a registration, signer and
\* recipient of a creation, sender and recipient otherwise.
Body ==
         [type : {"root"}]
    \cup [type : {"register"}, from : Users, to : Accounts]
    \cup [type : {"creation"}, from : Keys, to : Keys, amount : Nat]
    \cup [type : {"transfer"}, from : Keys, to : Keys, amount : Nat]
    \cup [type : {"deferred"}, from : Keys, to : DeferredKeys, amount : Nat, timeout : Nat]
    \cup [type : {"redeem"}, from : Keys, to : Keys, amount : Nat, nr : Nat]
    \cup [type : {"timeout"}, nr : Nat]

\* A transaction, the date it is to be confirmed at and its LedgerAnchor: ordered by
\* the Hiero ledger, imported from the legacy data base, or triggered by the node.
\* createdAt comes from the clock of the client, at from the order of the ledger.
Tx == [body : Body, createdAt : Dates]
Anchors == {"hiero", "legacy", "node"}

\* The balance of a key that a confirmed transaction does not change.
NoBalance == -1
AccountBalances == [Keys -> Nat \cup {NoBalance}]

\* mBalanceDerivationType: who has calculated the balances.
Derivations == {"node", "extern"}

\* balances are those of an import, whose date is the one it was created at.
Call == [tx : Tx, at : Dates, anchor : Anchors,
         derivation : Derivations, balances : AccountBalances]

ASSUME CallsAssumption ==
    \A c \in Calls : c \in Call /\ (c.derivation = "extern" => c.at = c.tx.createdAt)

ASSUME NumbersAssumption ==
    /\ MaxDelay \in Nat /\ Tolerance \in Nat /\ FirstDeferredNr \in Nat
    /\ MinTimeout \in Nat \ {0} /\ MaxTimeout \in Nat
    /\ MinCreation \in Nat /\ MaxCreation \in Nat
    /\ MaxTime \in Nat /\ MaxLen \in Nat

ASSUME KeepAssumption ==
    /\ Scale \in Nat \ {0}
    /\ Keep \in [0..(MaxTime + MaxDelay) -> 0..Scale]
    /\ Keep[0] = Scale

ASSUME KeysAssumption ==
    /\ Users \cap Accounts = {} /\ (Users \cup Accounts) \cap DeferredKeys = {}
    /\ GmwKey # AufKey
    /\ {GmwKey, AufKey} \cap (Users \cup Accounts \cup DeferredKeys) = {}

VARIABLES
    chain,   \* mTransactionsByNr: the confirmed transactions, by transaction nr
    events,  \* mTransactionTriggerEvents
    stack    \* the calls of createAndAddConfirmedTransaction under way

vars == <<chain, events, stack>>

-----------------------------------------------------------------------------
(* Looking things up in the chain. *)

\* findOne(Filter::LAST_TRANSACTION)->getConfirmedAt(), 0 for an empty chain.
LastDate == IF chain = <<>> THEN 0 ELSE chain[Len(chain)].at

IsDeferred(nr) == nr \in DOMAIN chain /\ chain[nr].body.type = "deferred"

\* When the deferred transfer nr times out.
TargetDate(nr) == chain[nr].at + chain[nr].body.timeout

\* GradidoUnit::calculateDecay; the curve is the core library's.
Decay(amount, start, end) == (amount * Keep[end - start]) \div Scale

\* The keys whose balance transaction i sets: its account balances.
Changed(i) == {k \in Keys : chain[i].bal[k] # NoBalance}

\* The transactions confirmed until a date that set a balance of key k.
BalanceChanging(k, date) == {i \in DOMAIN chain : k \in Changed(i) /\ chain[i].at <= date}

\* What the last transaction of S left to k, decayed until a date.
BalanceLeft(S, k, date) ==
    IF S = {} THEN 0 ELSE Decay(chain[Max(S)].bal[k], chain[Max(S)].at, date)

\* calculateAccountBalance::Context::fromEnd.
FromEnd(k, date) == BalanceLeft(BalanceChanging(k, date), k, date)

\* InMemory::getAddressType, from what the AddressIndex keeps of the
\* transactions confirmed until a date.
AddressType(k, date) ==
    LET history == {chain[i].body : i \in {j \in DOMAIN chain : chain[j].at <= date}}
    IN  CASE k \in {GmwKey, AufKey} /\ history # {} -> "community"
          [] \E b \in history : b.type = "register" /\ k \in {b.from, b.to} -> "human"
          [] \E b \in history : b.type = "deferred" /\ k = b.to -> "deferred"
          [] OTHER -> "none"

Registered(k) == AddressType(k, MaxTime) \notin {"none", "deferred"}

\* calculateCreationSum: all creations of the model are for the same month, and
\* inside the interval the sum looks back.
CreationSum(k) ==
    MapThenSumSet(LAMBDA i : chain[i].body.amount,
                  {i \in DOMAIN chain : chain[i].body.type = "creation" /\ chain[i].body.to = k})

-----------------------------------------------------------------------------
(* Balances a transaction leaves: the roles of confirmTransaction. *)

\* AbstractRole::calculateAccountBalance.  A balance that falls short by no more
\* than the tolerance becomes zero; one that falls short by more is refused.
\* No transaction of the chain is later than at when this is evaluated.
Uncovered(k, change, at) == FromEnd(k, at) + change + Tolerance < 0

\* Fault: the clamp to zero is missing.
AccountBalanceUnclamped(k, change, at) == FromEnd(k, at) + change

AccountBalance(k, change, at) ==
    LET sum == FromEnd(k, at) + change IN IF sum < 0 THEN 0 ELSE sum

\* What is left of the deferred transfer nr.
DecayedDeferred(nr, at) == Decay(chain[nr].body.amount, chain[nr].at, at)

CommunityRootBalances == [k \in {GmwKey, AufKey} |-> 0]

RegisterBalances(b) == [k \in {b.to} |-> 0]

CreationBalances(b, at) ==
    [k \in {b.to, GmwKey, AufKey} |-> AccountBalance(k, b.amount, at)]

TransferBalances(b, at) ==
    [k \in {b.from, b.to} |->
        AccountBalance(k, IF k = b.from THEN -b.amount ELSE b.amount, at)]

\* Fault: the sender gets the change of the undecayed amount.
RedeemBalancesUndecayed(b, at) ==
    LET owner == chain[b.nr].body.from
    IN  [k \in {b.from, b.to, owner} |->
            CASE k = b.from -> 0
              [] k = b.to   -> AccountBalance(k, b.amount, at)
              [] OTHER      -> AccountBalance(k, chain[b.nr].body.amount - b.amount, at)]

\* The address is emptied; the recipient gets the amount of the redeem, the
\* sender of the deferred transfer what remains of it.
RedeemBalances(b, at) ==
    LET owner  == chain[b.nr].body.from
        left   == DecayedDeferred(b.nr, at)
    IN  [k \in {b.from, b.to, owner} |->
            CASE k = b.from              -> 0
              [] k = b.to /\ b.to = owner -> AccountBalance(k, left, at)
              [] k = b.to /\ b.to # owner -> AccountBalance(k, b.amount, at)
              [] OTHER                   -> AccountBalance(k, left - b.amount, at)]

TimeoutBalances(b, at) ==
    LET d == chain[b.nr].body
    IN  [k \in {d.from, d.to} |->
            IF k = d.to THEN 0 ELSE AccountBalance(k, DecayedDeferred(b.nr, at), at)]

CalculateAccountBalances(b, at) ==
    CASE b.type = "root"                     -> CommunityRootBalances
      [] b.type = "register"                 -> RegisterBalances(b)
      [] b.type = "creation"                 -> CreationBalances(b, at)
      [] b.type \in {"transfer", "deferred"} -> TransferBalances(b, at)
      [] b.type = "redeem"                   -> RedeemBalances(b, at)
      [] b.type = "timeout"                  -> TimeoutBalances(b, at)

\* AbstractRole::createConfirmedTransaction.
NodeBalances(b, at) ==
    LET new == CalculateAccountBalances(b, at)
    IN  [k \in Keys |-> IF k \in DOMAIN new THEN new[k] ELSE NoBalance]

ConfirmedTransaction(c) ==
    [body |-> c.tx.body, createdAt |-> c.tx.createdAt, at |-> c.at, anchor |-> c.anchor,
     derivation |-> c.derivation,
     bal |-> IF c.derivation = "node" THEN NodeBalances(c.tx.body, c.at) ELSE c.balances]

-----------------------------------------------------------------------------
(* Validation: the roles of interaction::validate. *)

\* validate::Type::SINGLE, with the signatures, before anything is changed.
ValidSingle(tx) ==
    LET b == tx.body
    IN  CASE b.type = "root"     -> TRUE
          [] b.type = "register" -> chain # <<>>
          [] b.type = "creation" ->
                /\ b.amount > 0 /\ MinCreation <= b.amount /\ b.amount <= MaxCreation
                /\ b.from # b.to
                /\ AddressType(b.from, tx.createdAt) = "human"
          [] b.type = "transfer" -> b.amount > 0 /\ b.from # b.to
          [] b.type = "deferred" ->
                /\ b.amount > 0 /\ b.from # b.to
                /\ MinTimeout <= b.timeout /\ b.timeout <= MaxTimeout
          [] b.type = "redeem"   -> b.amount > 0 /\ b.from # b.to /\ b.nr > FirstDeferredNr
          [] b.type = "timeout"  -> b.nr > FirstDeferredNr

\* Fault: the balance is not checked.
ValidPreviousUnchecked(b, createdAt) == TRUE

\* GradidoTransferRole::validatePrevious.  The date of confirmation is not
\* handed down, TransactionBodyRole estimates the latest possible one.
ValidPrevious(b, createdAt) == b.amount <= FromEnd(b.from, createdAt + MaxDelay) + Tolerance

\* Fault: the order of dates is not checked.
ValidDatesUnordered(tx, at) == chain # <<>> => at - tx.createdAt <= MaxDelay

\* ConfirmedTransactionRole, Type::PREVIOUS.
ValidDates(tx, at) == LastDate <= at /\ (chain # <<>> => at - tx.createdAt <= MaxDelay)

\* ... where an import may not directly follow what the ledger confirmed.
ValidAnchor(anchor) ==
    chain # <<>> /\ anchor = "legacy" => chain[Len(chain)].anchor # "hiero"

ValidRegister(b) == chain # <<>> /\ AddressType(b.from, MaxTime) = "none"

ValidCreation(b) ==
    /\ chain # <<>>
    /\ AddressType(b.to, MaxTime) = "human"
    /\ CreationSum(b.to) + b.amount <= MaxCreation

ValidTransfer(b) == Registered(b.from) /\ Registered(b.to)

ValidDeferred(b) == Registered(b.from) /\ AddressType(b.to, MaxTime) = "none"

ValidRedeem(b, createdAt) ==
    /\ IsDeferred(b.nr) /\ chain[b.nr].body.to = b.from
    /\ createdAt + MaxDelay <= TargetDate(b.nr)
    /\ AddressType(b.from, MaxTime) = "deferred" /\ Registered(b.to)

\* The balance is the one just before createdAt.
ValidTimeout(b, createdAt) ==
    /\ IsDeferred(b.nr)
    /\ createdAt = TargetDate(b.nr)
    /\ LET d == chain[b.nr].body.to
       IN  BalanceLeft(BalanceChanging(d, createdAt - 1), d, createdAt) # 0

\* The sender has what is taken from it: calculateAccountBalances throws no
\* InsufficientBalanceException, and Type::PREVIOUS_BALANCE holds.
Covered(b, createdAt, at) ==
    CASE b.type \in {"transfer", "deferred"} ->
            ~Uncovered(b.from, -b.amount, at) /\ ValidPrevious(b, createdAt)
      [] b.type = "redeem" ->
            LET owner == chain[b.nr].body.from
            IN  /\ \/ b.to = owner
                   \/ ~Uncovered(owner, DecayedDeferred(b.nr, at) - b.amount, at)
                /\ ValidPrevious(b, createdAt)
      [] OTHER -> TRUE

Valid(c) ==
    LET tx == c.tx
        b  == tx.body
    IN  /\ ValidDates(tx, c.at)
        /\ ValidAnchor(c.anchor)
        /\ CASE b.type = "root"     -> chain = <<>>
             [] b.type = "register" -> ValidRegister(b)
             [] b.type = "creation" -> ValidCreation(b)
             [] b.type = "transfer" -> ValidTransfer(b)
             [] b.type = "deferred" -> ValidDeferred(b)
             [] b.type = "redeem"   -> ValidRedeem(b, tx.createdAt)
             [] b.type = "timeout"  -> ValidTimeout(b, tx.createdAt)
        /\ c.derivation = "node" => Covered(b, tx.createdAt, c.at)

-----------------------------------------------------------------------------
(* The steps of createAndAddConfirmedTransaction. *)

\* Abstract::isTransactionExist.
TransactionExists(tx, at) ==
    \E i \in DOMAIN chain :
        chain[i].at = at /\ chain[i].body = tx.body /\ chain[i].createdAt = tx.createdAt

Accepted(tx, at) == ValidSingle(tx) /\ ~TransactionExists(tx, at)

Top == stack[Len(stack)]

Pop == SubSeq(stack, 1, Len(stack) - 1)

\* Fault: the end of the range is exclusive.
InRangeExclusive(end) == {e \in events : LastDate <= e.target /\ e.target < end}

\* findNextTransactionTriggerEventInRange(last confirmed, end): the earliest
\* event, of several on one date the first inserted.
InRange(end) == {e \in events : LastDate <= e.target /\ e.target <= end}

IsNext(e, end) ==
    /\ e \in InRange(end)
    /\ \A f \in InRange(end) : \/ e.target < f.target
                               \/ e.target = f.target /\ e.nr <= f.nr

\* Fault: the transaction is dated like the call that triggered it.
TimeoutTransactionOfCall(e) ==
    [body |-> [type |-> "timeout", nr |-> e.nr], createdAt |-> Top.at]

\* createTransactionByEvent: the transaction that closes a deferred transfer.
TimeoutTransaction(e) ==
    [body |-> [type |-> "timeout", nr |-> e.nr], createdAt |-> e.target]

\* A client's call passes the first checks.
Submit(c) ==
    /\ stack = <<>>
    /\ Len(chain) + Cardinality(events) < MaxLen
    /\ Accepted(c.tx, c.at)
    /\ stack' = <<c>>
    /\ UNCHANGED <<chain, events>>

TriggeredCall(tx, e) ==
    [tx |-> tx, at |-> e.target, anchor |-> "node",
     derivation |-> "node", balances |-> [k \in Keys |-> NoBalance]]

\* processTransactionTrigger: the event is taken out before the transaction it
\* calls for is attempted.
Trigger(e) ==
    LET tx == TimeoutTransaction(e)
    IN  /\ stack # <<>>
        /\ IsNext(e, Top.at)
        /\ Accepted(tx, e.target)
        /\ events' = events \ {e}
        /\ stack' = Append(stack, TriggeredCall(tx, e))
        /\ UNCHANGED chain

\* Fault: the event is put back when its transaction fails.
TriggerFailsPutBack(e) ==
    /\ stack # <<>>
    /\ IsNext(e, Top.at)
    /\ ~Accepted(TimeoutTransaction(e), e.target)
    /\ UNCHANGED vars

\* The exception of the nested call is caught, the event is not put back.
TriggerFails(e) ==
    /\ stack # <<>>
    /\ IsNext(e, Top.at)
    /\ ~Accepted(TimeoutTransaction(e), e.target)
    /\ events' = events \ {e}
    /\ UNCHANGED <<chain, stack>>

\* Fault: a redeem leaves the event of the timeout.
PastAddToBlockchainKeep(b, nr, at) ==
    IF b.type = "deferred" THEN events \cup {[nr |-> nr, target |-> at + b.timeout]} ELSE events

\* runPastAddToBlockchain.
PastAddToBlockchain(b, nr, at) ==
    CASE b.type = "deferred" -> events \cup {[nr |-> nr, target |-> at + b.timeout]}
      [] b.type = "redeem"   -> events \ {[nr |-> b.nr, target |-> TargetDate(b.nr)]}
      [] OTHER               -> events

\* No event is left to process: the transaction gets the next number, its
\* balances, and is added.
Confirm ==
    LET tx == Top.tx
        at == Top.at
    IN  /\ stack # <<>>
        /\ InRange(at) = {}
        /\ Valid(Top)
        /\ chain' = Append(chain, ConfirmedTransaction(Top))
        /\ events' = PastAddToBlockchain(tx.body, Len(chain) + 1, at)
        /\ stack' = Pop

\* ... or an exception ends the call.  What its triggers added stays.
Refuse ==
    /\ stack # <<>>
    /\ InRange(Top.at) = {}
    /\ ~Valid(Top)
    /\ stack' = Pop
    /\ UNCHANGED <<chain, events>>

Init == chain = <<>> /\ events = {} /\ stack = <<>>

CallStep == (\E e \in events : Trigger(e) \/ TriggerFails(e)) \/ Confirm \/ Refuse

Next == (\E c \in Calls : Submit(c)) \/ CallStep

\* A call runs on the caller's thread until it returns.
Spec == Init /\ [][Next]_vars /\ WF_vars(CallStep)

-----------------------------------------------------------------------------
(* Types. *)

Entry == [body : Body, createdAt : Dates, at : Dates, anchor : Anchors,
          derivation : Derivations, bal : AccountBalances]

\* The chain holds confirmed transactions with non-negative balances, the
\* events refer to a transaction number, the stack holds calls.
TypeOK ==
    /\ chain \in Seq(Entry)
    /\ events \subseteq [nr : Nat, target : Nat]
    /\ stack \in Seq(Call)

-----------------------------------------------------------------------------
(* Properties. *)

\* The dates of confirmation never run backwards along the chain, although the
\* timeouts a call triggers are dated earlier than the call itself
\* (confirmTransaction::Context::run, processTransactionTrigger).
ChainOrdered == \A i, j \in DOMAIN chain : i <= j => chain[i].at <= chain[j].at

\* Between two calls no event lies at or before the date of the last confirmed
\* transaction: processTransactionTrigger searches from that date on and would
\* never find an earlier event again.
NoOverdueEvent == stack = <<>> => \A e \in events : LastDate < e.target

\* The transactions that paid out the deferred transfer nr.
Payouts(nr) ==
    {i \in DOMAIN chain : chain[i].body.type \in {"redeem", "timeout"} /\ chain[i].body.nr = nr}

\* An event always stands for a deferred transfer that is still unpaid, on the
\* date its timeout expires (runPastAddToBlockchain of DeferredTransfer and
\* RedeemDeferredTransfer compute that date independently of each other).
EventsAreOpen ==
    \A e \in events : /\ IsDeferred(e.nr)
                      /\ e.target = TargetDate(e.nr)
                      /\ Payouts(e.nr) = {}

\* Between two calls a deferred transfer is waiting for its timeout, paid out, or
\* had decayed to nothing by its timeout.  Together with NoOverdueEvent: no
\* deferred transfer outlives its timeout unpaid.
DeferredNotLost ==
    stack = <<>> =>
        \A nr \in DOMAIN chain :
            IsDeferred(nr) /\ nr > FirstDeferredNr =>
                \/ [nr |-> nr, target |-> TargetDate(nr)] \in events
                \/ Payouts(nr) # {}
                \/ DecayedDeferred(nr, TargetDate(nr)) = 0

\* A deferred transfer is paid out once.  Only a redeem of no more than the
\* tolerance is let through again: validatePrevious compares with the emptied
\* address plus the tolerance.
PaidOutOnce ==
    \A nr \in DOMAIN chain : \A i, j \in Payouts(nr) :
        i < j => chain[j].body.type = "redeem" /\ chain[j].body.amount <= Tolerance

\* The address of a deferred transfer receives coins once: every other
\* transaction that sets its balance is a payout and sets it to zero.
DeferredAddressUsedOnce ==
    \A nr \in DOMAIN chain : IsDeferred(nr) =>
        \A i \in DOMAIN chain \ {nr} :
            chain[nr].body.to \in Changed(i) =>
                i \in Payouts(nr) /\ chain[i].bal[chain[nr].body.to] = 0

\* The node has calculated all balances of the chain itself: none is imported.
Calculated == \A i \in DOMAIN chain : chain[i].derivation = "node"

\* In a history the node has calculated and checked itself a deferred transfer is
\* paid out once, from an address that receives coins once.  Imported transactions
\* are not compared with what the address has left.
CheckedPaidOutOnce == Calculated => PaidOutOnce /\ DeferredAddressUsedOnce

\* What key k had when transaction i was confirmed.
LeftBefore(i, k) ==
    BalanceLeft({j \in BalanceChanging(k, chain[i].at) : j < i}, k, chain[i].at)

\* What transaction i added to the sum of all balances on its date.
Minted(i) ==
    SumFunctionOnSet([k \in Keys |-> chain[i].bal[k] - LeftBefore(i, k)], Changed(i))

\* Only a creation makes coins, one amount each for the user, the GMW and the AUF
\* account.  A transfer or the first payout of a deferred transfer moves them, up
\* to the tolerance; a registration can only lose the balance of its account.
Conserves(i) ==
    LET b == chain[i].body
    IN  CASE b.type = "creation"                 -> Minted(i) = 3 * b.amount
          [] b.type = "register"                 -> Minted(i) <= 0
          [] b.type \in {"transfer", "deferred"} -> Minted(i) \in 0..Tolerance
          [] b.type = "redeem"                   ->
                (\A j \in Payouts(b.nr) : i <= j) => Minted(i) \in 0..Tolerance
          [] OTHER                               -> Minted(i) = 0

\* Every transaction of a history whose balances the node has calculated itself
\* conserves the coins so: an import brings its own.
CalculatedConservation == Calculated => \A i \in DOMAIN chain : Conserves(i)

\* The same signed transaction is confirmed only once (Abstract.h: "return false
\* if transaction already exist").
ConfirmedOnce ==
    \A i, j \in DOMAIN chain :
        chain[i].body = chain[j].body /\ chain[i].createdAt = chain[j].createdAt => i = j

\* A timeout never pays out a deferred transfer that was paid out before
\* (GradidoTimeoutDeferredTransferRole: "deferred transfer balance is already empty").
TimeoutPaysUnpaid ==
    \A i \in DOMAIN chain : chain[i].body.type = "timeout" =>
        \A j \in Payouts(chain[i].body.nr) : i <= j

\* A call returns: the loop over the triggers ends, although every trigger is a
\* call with a loop of its own.
CallReturns == stack # <<>> ~> stack = <<>>
=============================================================================
