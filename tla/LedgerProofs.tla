---------------------------- MODULE LedgerProofs ----------------------------
(***************************************************************************)
(* Proofs about Ledger, for every set of keys and calls, every decay table *)
(* and every bound.  The inductive invariant IInv adds to the types and to *)
(* the order of the chain what keeps an event from being overtaken: how    *)
(* the dates of the calls under way, of the last confirmed transaction and *)
(* of the events lie to each other.                                        *)
(*                                                                         *)
(* The theorems about deferred transfers are for clients that hand over no *)
(* timeouts (NoTimeoutCalls); MCLedgerTimeout shows what happens otherwise.*)
(* OpenInv says that every event and every timeout under way stands for a  *)
(* transfer nobody has paid out, and no two for the same one.  PaidInv     *)
(* says that the address of a deferred transfer is new, and of histories   *)
(* with calculated balances that it gets the amount, is changed by nothing *)
(* but its payout and is emptied by it, and that an unpaid transfer is     *)
(* remembered by an event or a timeout under way.                          *)
(* Conservation follows entry by entry, with the sums of SumProofs.        *)
(***************************************************************************)
EXTENDS Ledger, SumProofs, SequenceTheorems

-----------------------------------------------------------------------------
(* The inductive invariant. *)

\* A call triggered by another one is not later than it.
NestedCallsEarlier == \A i, j \in DOMAIN stack : i <= j => stack[j].at <= stack[i].at

\* Submit lets only deferred transfers in that time out after their own date.
TimeoutsPositive ==
    \A i \in DOMAIN stack : stack[i].tx.body.type = "deferred" => 0 < stack[i].tx.body.timeout

NoEventAtLastDate == \A e \in events : LastDate < e.target

\* No event was overtaken; one on the very date of the last transaction exists
\* only while all calls under way are yet to process it.
NoEventOvertaken ==
    /\ \A e \in events : LastDate <= e.target
    /\ \/ NoEventAtLastDate
       \/ stack # <<>> /\ \A i \in DOMAIN stack : LastDate <= stack[i].at

IInv == TypeOK /\ ChainOrdered /\ NestedCallsEarlier /\ TimeoutsPositive /\ NoEventOvertaken

-----------------------------------------------------------------------------
(* Looking up balances. *)

\* A non-empty set of positions of a sequence has a last one.
LEMMA MaxOfPositions ==
    ASSUME NEW n \in Nat, NEW S, S \subseteq 1..n, S # {}
    PROVE  Max(S) \in S /\ \A i \in S : i <= Max(S)
<1> DEFINE D == {n - i : i \in S}
<1>1. D \in SUBSET Nat /\ D # {}
  OBVIOUS
<1>2. PICK d \in D : \A e \in D : d <= e
  <2> DEFINE Less == OpToRel(<, Nat)
  <2>1. IsWellFoundedOn(Less, Nat)
    BY NatLessThanWellFounded, Zenon
  <2>2. \A x, y \in Nat : x < y => <<x, y>> \in Less
    BY DEF OpToRel
  <2> HIDE DEF Less, D
  <2>3. PICK x \in D : \A y \in D : <<y, x>> \notin Less
    BY <1>1, <2>1, WFMin
  <2>4. \A y \in D : ~(y < x)
    BY <1>1, <2>2, <2>3, Zenon
  <2>5. \A y \in D : x <= y
    BY <1>1, <2>4
  <2> QED
    BY <2>5
<1>3. PICK m \in S : d = n - m
  OBVIOUS
<1>4. \A i \in S : n - i \in D
  OBVIOUS
<1>5. \A i \in S : m >= i
  <2> TAKE i \in S
  <2>1. d <= n - i
    BY <1>2, <1>4
  <2> QED
    BY <2>1, <1>3
<1>6. \E x \in S : \A y \in S : x >= y
  BY <1>5
<1> HIDE DEF D
<1>7. Max(S) \in S /\ \A y \in S : Max(S) >= y
  BY <1>6 DEF Max
<1> QED
  BY <1>7

\* What decays is a natural number again.
LEMMA DecayIsNat ==
    ASSUME NEW amount \in Nat, NEW start \in Dates, NEW end \in Dates, start <= end
    PROVE  Decay(amount, start, end) \in Nat
<1>1. end - start \in 0..(MaxTime + MaxDelay)
  BY NumbersAssumption DEF Dates
<1>2. Keep[end - start] \in Nat
  BY <1>1, KeepAssumption
<1>3. \A x \in Nat : amount * x \in Nat
  OBVIOUS
<1>4. amount * Keep[end - start] \in Nat
  BY <1>2, <1>3
<1>5. \A x \in Nat : x \div Scale \in Nat
  BY KeepAssumption
<1> QED
  BY <1>4, <1>5 DEF Decay

\* An entry of the chain by its position.
LEMMA EntryOfChain ==
    ASSUME TypeOK, NEW i \in DOMAIN chain
    PROVE  /\ i \in 1..Len(chain)
           /\ chain[i] \in Entry
           /\ chain[i].body \in Body
           /\ chain[i].at \in Dates
           /\ \A k \in Keys : chain[i].bal[k] \in Nat \cup {NoBalance}
<1>1. i \in 1..Len(chain) /\ chain[i] \in Entry
  BY DEF TypeOK
<1>2. chain[i].bal \in AccountBalances
  BY <1>1 DEF Entry
<1> QED
  BY <1>1, <1>2 DEF Entry, AccountBalances

\* A balance found in the chain is a natural number, on any date not before the
\* transactions it is found in.
LEMMA FromEndIsNat ==
    ASSUME TypeOK, NEW k \in Keys, NEW date \in Dates
    PROVE  FromEnd(k, date) \in Nat
<1> DEFINE S == BalanceChanging(k, date)
<1>1. CASE S = {}
  BY <1>1 DEF FromEnd, BalanceLeft
<1>2. CASE S # {}
  <2> DEFINE m == Max(S)
  <2>1. S \subseteq 1..Len(chain) /\ Len(chain) \in Nat
    BY DEF TypeOK, BalanceChanging
  <2>2. m \in S
    <3> HIDE DEF S
    <3> QED  BY <1>2, <2>1, MaxOfPositions
  <2>3. m \in DOMAIN chain /\ chain[m].bal[k] # NoBalance /\ chain[m].at <= date
    BY <2>2 DEF BalanceChanging, Changed
  <2>4. chain[m].bal[k] \in Nat /\ chain[m].at \in Dates
    BY <2>3, EntryOfChain
  <2>5. Decay(chain[m].bal[k], chain[m].at, date) \in Nat
    BY <2>3, <2>4, DecayIsNat
  <2> QED
    BY <1>2, <2>5 DEF FromEnd, BalanceLeft
<1> QED
  BY <1>1, <1>2

\* A new balance is never negative, whatever the change.
LEMMA AccountBalanceIsNat ==
    ASSUME TypeOK, NEW k \in Keys, NEW at \in Dates, NEW change \in Int
    PROVE  AccountBalance(k, change, at) \in Nat
  BY FromEndIsNat DEF AccountBalance

\* The last entry has the latest date.
LEMMA LastDateIsLatest ==
    ASSUME TypeOK, ChainOrdered
    PROVE  LastDate \in Dates /\ \A i \in DOMAIN chain : chain[i].at <= LastDate
<1>1. CASE chain = <<>>
  BY <1>1, NumbersAssumption DEF LastDate, Dates
<1>2. CASE chain # <<>>
  <2>1. Len(chain) \in DOMAIN chain /\ LastDate = chain[Len(chain)].at
    BY <1>2 DEF TypeOK, LastDate
  <2>2. \A i \in DOMAIN chain : i <= Len(chain)
    BY DEF TypeOK
  <2>3. LastDate \in Dates
    BY <2>1, EntryOfChain
  <2> QED
    BY <2>1, <2>2, <2>3 DEF ChainOrdered
<1> QED
  BY <1>1, <1>2

-----------------------------------------------------------------------------
(* Types. *)

\* The fields of a body, by its type.
LEMMA BodyFields ==
    ASSUME NEW b \in Body
    PROVE  /\ b.type \in {"root", "register", "creation", "transfer", "deferred", "redeem", "timeout"}
           /\ b.type = "register" => b.from \in Users /\ b.to \in Accounts
           /\ b.type \in {"creation", "transfer", "deferred", "redeem"} =>
                 b.from \in Keys /\ b.to \in Keys /\ b.amount \in Nat
           /\ b.type = "deferred" => b.to \in DeferredKeys /\ b.timeout \in Nat
           /\ b.type \in {"redeem", "timeout"} => b.nr \in Nat
  BY DEF Body, Keys

\* The balances every role of confirmTransaction hands back are natural numbers.
LEMMA BalancesAreNat ==
    ASSUME TypeOK, ChainOrdered, NEW c \in Call, Valid(c)
    PROVE  LET new == CalculateAccountBalances(c.tx.body, c.at)
           IN  \A k \in Keys : k \in DOMAIN new => new[k] \in Nat
<1> DEFINE b == c.tx.body
           at == c.at
           new == CalculateAccountBalances(b, at)
<1>1. b \in Body /\ at \in Dates
  BY DEF Call, Tx
<1>2. \A k \in Keys, change \in Int : AccountBalance(k, change, at) \in Nat
  BY <1>1, AccountBalanceIsNat
<1>3. \A i \in DOMAIN chain : chain[i].at <= at
  <2>1. LastDate <= at
    BY DEF Valid, ValidDates
  <2> QED
    BY <2>1, <1>1, LastDateIsLatest, EntryOfChain DEF Dates
\* A redeem or timeout refers to a deferred transfer with a decayed amount.
<1>4. ASSUME NEW nr, IsDeferred(nr)
      PROVE  DecayedDeferred(nr, at) \in Nat
  <2>1. nr \in DOMAIN chain /\ chain[nr].body.type = "deferred"
    BY <1>4 DEF IsDeferred
  <2>2. chain[nr].body.amount \in Nat /\ chain[nr].at \in Dates
    BY <2>1, EntryOfChain, BodyFields
  <2> QED
    BY <2>1, <2>2, <1>1, <1>3, DecayIsNat DEF DecayedDeferred
<1> SUFFICES ASSUME NEW k \in Keys, k \in DOMAIN new
             PROVE  new[k] \in Nat
  OBVIOUS
<1>5. CASE b.type = "root"
  BY <1>5 DEF CalculateAccountBalances, CommunityRootBalances
<1>6. CASE b.type = "register"
  BY <1>6 DEF CalculateAccountBalances, RegisterBalances
<1>7. CASE b.type = "creation"
  <2>1. b.amount \in Int
    BY <1>1, <1>7, BodyFields
  <2>2. new = CreationBalances(b, at)
    BY <1>7 DEF CalculateAccountBalances
  <2> QED
    BY <2>1, <2>2, <1>2 DEF CreationBalances
<1>8. CASE b.type \in {"transfer", "deferred"}
  <2>1. b.amount \in Int /\ -b.amount \in Int
    BY <1>1, <1>8, BodyFields
  <2>2. new = TransferBalances(b, at)
    BY <1>8 DEF CalculateAccountBalances
  <2> QED
    BY <2>1, <2>2, <1>2 DEF TransferBalances
<1>9. CASE b.type = "redeem"
  <2>1. IsDeferred(b.nr)
    BY <1>9 DEF Valid, ValidRedeem
  <2>2. b.amount \in Nat
    BY <1>1, <1>9, BodyFields
  <2> DEFINE left == DecayedDeferred(b.nr, at)
  <2>3. left \in Nat
    BY <2>1, <1>4
  <2> HIDE DEF left
  <2>4. left \in Int /\ left - b.amount \in Int /\ b.amount \in Int
    BY <2>2, <2>3
  <2>5. new = RedeemBalances(b, at)
    BY <1>9 DEF CalculateAccountBalances
  <2>6. /\ AccountBalance(k, left, at) \in Nat
        /\ AccountBalance(k, b.amount, at) \in Nat
        /\ AccountBalance(k, left - b.amount, at) \in Nat
    BY <2>4, <1>2
  <2>7. new[k] \in {0, AccountBalance(k, left, at), AccountBalance(k, b.amount, at),
                   AccountBalance(k, left - b.amount, at)}
    BY <2>5 DEF RedeemBalances, left
  <2> QED
    BY <2>6, <2>7
<1>10. CASE b.type = "timeout"
  <2>1. IsDeferred(b.nr)
    BY <1>10 DEF Valid, ValidTimeout
  <2>2. DecayedDeferred(b.nr, at) \in Int
    BY <2>1, <1>4
  <2>3. new = TimeoutBalances(b, at)
    BY <1>10 DEF CalculateAccountBalances
  <2>4. new[k] \in {0, AccountBalance(k, DecayedDeferred(b.nr, at), at)}
    BY <2>3 DEF TimeoutBalances
  <2>5. AccountBalance(k, DecayedDeferred(b.nr, at), at) \in Nat
    BY <2>2, <1>2
  <2> QED
    BY <2>4, <2>5
<1> QED
  BY <1>1, <1>5, <1>6, <1>7, <1>8, <1>9, <1>10, BodyFields

\* What confirmTransaction returns is an entry of the chain, dated as the call.
LEMMA ConfirmedTransactionIsEntry ==
    ASSUME TypeOK, ChainOrdered, NEW c \in Call, Valid(c)
    PROVE  ConfirmedTransaction(c) \in Entry /\ ConfirmedTransaction(c).at = c.at
<1> DEFINE new == CalculateAccountBalances(c.tx.body, c.at)
<1>1. \A k \in Keys : k \in DOMAIN new => new[k] \in Nat
  BY BalancesAreNat
<1>2. NodeBalances(c.tx.body, c.at) = [k \in Keys |-> IF k \in DOMAIN new THEN new[k] ELSE NoBalance]
  BY DEF NodeBalances
<1> HIDE DEF new
<1>3. NodeBalances(c.tx.body, c.at) \in AccountBalances
  BY <1>1, <1>2 DEF AccountBalances
<1>4. ConfirmedTransaction(c).bal \in AccountBalances
  BY <1>3 DEF ConfirmedTransaction, Call
<1>5. c.tx \in Tx /\ c.at \in Dates /\ c.anchor \in Anchors /\ c.derivation \in Derivations
  BY DEF Call
<1> QED
  BY <1>4, <1>5 DEF ConfirmedTransaction, Entry, Tx

-----------------------------------------------------------------------------
(* The steps. *)

\* The innermost call, and the calls left when it returns.
LEMMA TopOfStack ==
    ASSUME TypeOK, stack # <<>>
    PROVE  /\ Len(stack) \in DOMAIN stack
           /\ Top \in Call /\ Top.tx \in Tx /\ Top.at \in Dates
           /\ Pop \in Seq(Call)
           /\ DOMAIN Pop \subseteq DOMAIN stack
           /\ \A i \in DOMAIN Pop : Pop[i] = stack[i]
<1>1. stack \in Seq(Call) /\ Len(stack) \in Nat \ {0} /\ DOMAIN stack = 1..Len(stack)
  BY DEF TypeOK
<1>2. Top \in Call
  BY <1>1 DEF Top
<1>3. \A i \in 1..(Len(stack) - 1) : stack[i] \in Call
  BY <1>1
<1>4. /\ Pop \in Seq(Call)
      /\ Len(Pop) = Len(stack) - 1
      /\ \A i \in 1..(Len(stack) - 1) : Pop[i] = stack[i]
  BY <1>1, <1>3, SubSeqProperties DEF Pop
<1> QED
  BY <1>1, <1>2, <1>4 DEF Call

\* Submit pushes the first call.
LEMMA SubmitStep ==
    ASSUME IInv, NEW c \in Calls, Submit(c)
    PROVE  IInv'
<1>1. c \in Call /\ c.tx \in Tx /\ c.tx.body \in Body
  BY CallsAssumption DEF Call, Tx
<1>2. stack' = <<c>> /\ chain' = chain /\ events' = events
  BY DEF Submit
<1>3. DOMAIN stack' = {1} /\ stack'[1] = c
  BY <1>2
<1>4. TypeOK' /\ ChainOrdered'
  BY <1>1, <1>2 DEF IInv, TypeOK, ChainOrdered
<1>5. NestedCallsEarlier'
  BY <1>1, <1>3 DEF NestedCallsEarlier, Call, Dates
<1>6. TimeoutsPositive'
  <2> SUFFICES ASSUME c.tx.body.type = "deferred"
               PROVE  0 < c.tx.body.timeout
    BY <1>3 DEF TimeoutsPositive
  <2>1. MinTimeout <= c.tx.body.timeout
    BY DEF Submit, Accepted, ValidSingle
  <2> QED
    BY <1>1, <2>1, BodyFields, NumbersAssumption
<1>7. NoEventOvertaken'
  BY <1>2 DEF IInv, Submit, NoEventOvertaken, NoEventAtLastDate, LastDate
<1> QED
  BY <1>4, <1>5, <1>6, <1>7 DEF IInv

\* A trigger is found between the last date and the date of the innermost call,
\* so none of the calls under way is older than the chain.
LEMMA TriggerStep ==
    ASSUME IInv, NEW e \in events, Trigger(e)
    PROVE  IInv'
<1> DEFINE c == TriggeredCall(TimeoutTransaction(e), e)
<1>1. stack # <<>> /\ stack' = Append(stack, c) /\ chain' = chain /\ events' = events \ {e}
  BY DEF Trigger
<1>2. Top \in Call /\ Top.at \in Dates /\ Len(stack) \in DOMAIN stack
  BY <1>1, TopOfStack DEF IInv
<1>3. LastDate <= e.target /\ e.target <= Top.at /\ e.nr \in Nat /\ e.target \in Nat
  BY DEF Trigger, IsNext, InRange, IInv, TypeOK
<1>4. e.target \in Dates
  BY <1>2, <1>3, NumbersAssumption DEF Dates
<1>5. c \in Call /\ c.at = e.target /\ c.tx.body.type = "timeout"
  BY <1>3, <1>4 DEF Call, Tx, Body, Anchors, Derivations, AccountBalances, TriggeredCall, TimeoutTransaction
<1> HIDE DEF c
<1>6. stack \in Seq(Call) /\ DOMAIN stack = 1..Len(stack) /\ Len(stack) \in Nat
  BY DEF IInv, TypeOK
<1>7. /\ stack' \in Seq(Call) /\ stack' # <<>>
      /\ DOMAIN stack' = 1..(Len(stack) + 1)
      /\ \A i \in DOMAIN stack : stack'[i] = stack[i]
      /\ stack'[Len(stack) + 1] = c
  BY <1>1, <1>5, <1>6, AppendProperties
<1>8. \A i \in DOMAIN stack : stack[i].at \in Dates /\ e.target <= stack[i].at
  <2> TAKE i \in DOMAIN stack
  <2>1. stack[i].at \in Dates
    <3>1. stack[i] \in Call
      BY <1>6
    <3> QED  BY <3>1 DEF Call
  <2>2. Top.at <= stack[i].at
    BY <1>2, <1>6 DEF IInv, NestedCallsEarlier, Top
  <2> QED
    BY <1>2, <1>3, <2>1, <2>2 DEF Dates
<1>9. TypeOK' /\ ChainOrdered'
  BY <1>1, <1>7 DEF IInv, TypeOK, ChainOrdered
<1>10. NestedCallsEarlier'
  <2> SUFFICES ASSUME NEW i \in 1..(Len(stack) + 1), NEW j \in 1..(Len(stack) + 1), i <= j
               PROVE  stack'[j].at <= stack'[i].at
    BY <1>7 DEF NestedCallsEarlier
  <2>1. CASE j \in DOMAIN stack
    BY <2>1, <1>6, <1>7 DEF IInv, NestedCallsEarlier
  <2>2. CASE j = Len(stack) + 1
    BY <2>2, <1>3, <1>5, <1>6, <1>7, <1>8
  <2> QED
    BY <2>1, <2>2, <1>6
<1>11. TimeoutsPositive'
  <2> SUFFICES ASSUME NEW i \in 1..(Len(stack) + 1), stack'[i].tx.body.type = "deferred"
               PROVE  0 < stack'[i].tx.body.timeout
    BY <1>7 DEF TimeoutsPositive
  <2>1. i \in DOMAIN stack
    BY <1>5, <1>6, <1>7
  <2> QED
    BY <2>1, <1>7 DEF IInv, TimeoutsPositive
<1>12. NoEventOvertaken'
  <2>1. LastDate' = LastDate /\ LastDate \in Dates
    BY <1>1, LastDateIsLatest DEF LastDate, IInv
  <2>2. \A i \in 1..(Len(stack) + 1) : LastDate <= stack'[i].at
    BY <1>3, <1>5, <1>6, <1>7, <1>8, <2>1 DEF Dates
  <2>3. \A f \in events' : LastDate <= f.target
    BY <1>1 DEF IInv, NoEventOvertaken
  <2> QED
    BY <1>7, <2>1, <2>2, <2>3 DEF NoEventOvertaken
<1> QED
  BY <1>9, <1>10, <1>11, <1>12 DEF IInv

\* A trigger that fails only drops an event.
LEMMA TriggerFailsStep ==
    ASSUME IInv, NEW e \in events, TriggerFails(e)
    PROVE  IInv'
<1>1. events' \subseteq events /\ UNCHANGED <<chain, stack>>
  BY DEF TriggerFails
<1>2. TypeOK' /\ ChainOrdered' /\ NestedCallsEarlier' /\ TimeoutsPositive'
  BY <1>1 DEF IInv, TypeOK, ChainOrdered, NestedCallsEarlier, TimeoutsPositive
<1>3. NoEventOvertaken'
  BY <1>1 DEF IInv, NoEventOvertaken, NoEventAtLastDate, LastDate
<1> QED
  BY <1>2, <1>3 DEF IInv

\* When a call returns, the calls around it are as before.
LEMMA PopStep ==
    ASSUME IInv, stack # <<>>, stack' = Pop
    PROVE  stack' \in Seq(Call) /\ NestedCallsEarlier' /\ TimeoutsPositive'
<1>1. /\ stack' \in Seq(Call)
      /\ DOMAIN stack' \subseteq DOMAIN stack
      /\ \A i \in DOMAIN stack' : stack'[i] = stack[i]
  BY TopOfStack DEF IInv
<1> QED
  BY <1>1 DEF IInv, NestedCallsEarlier, TimeoutsPositive

\* A confirmed transaction becomes the last one, and no event is on its date or
\* before: those were processed, and a new one is later.
LEMMA ConfirmStep ==
    ASSUME IInv, Confirm
    PROVE  IInv'
<1> DEFINE tx == Top.tx
           at == Top.at
           n  == Len(chain)
<1>1. /\ stack # <<>> /\ InRange(at) = {} /\ Valid(Top)
      /\ chain' = Append(chain, ConfirmedTransaction(Top))
      /\ events' = PastAddToBlockchain(tx.body, n + 1, at)
      /\ stack' = Pop
  BY DEF Confirm
<1>2. TypeOK /\ ChainOrdered
  BY DEF IInv
<1>3. Top \in Call /\ tx \in Tx /\ at \in Dates /\ Len(stack) \in DOMAIN stack
  BY <1>1, <1>2, TopOfStack
<1>4. tx.body \in Body /\ at \in Nat
  BY <1>3 DEF Tx, Dates
<1>5. ConfirmedTransaction(Top) \in Entry /\ ConfirmedTransaction(Top).at = at
  BY <1>1, <1>2, <1>3, ConfirmedTransactionIsEntry DEF ConfirmedTransaction
<1>6. chain \in Seq(Entry) /\ n \in Nat /\ DOMAIN chain = 1..n
  BY <1>2 DEF TypeOK
<1>7. /\ chain' \in Seq(Entry) /\ chain' # <<>> /\ Len(chain') = n + 1
      /\ DOMAIN chain' = 1..(n + 1)
      /\ \A i \in 1..n : chain'[i] = chain[i]
      /\ chain'[n + 1].at = at
  BY <1>1, <1>5, <1>6, AppendProperties
<1>8. LastDate' = at
  BY <1>7 DEF LastDate
<1>9. \A i \in 1..n : chain[i].at <= at
  <2>1. LastDate <= at
    BY <1>1 DEF Valid, ValidDates
  <2> QED
    BY <2>1, <1>2, <1>3, <1>6, LastDateIsLatest, EntryOfChain DEF Dates
<1>10. ChainOrdered'
  <2> SUFFICES ASSUME NEW i \in 1..(n + 1), NEW j \in 1..(n + 1), i <= j
               PROVE  chain'[i].at <= chain'[j].at
    BY <1>7 DEF ChainOrdered
  <2>1. CASE j \in 1..n
    <3>1. i \in 1..n /\ chain'[i] = chain[i] /\ chain'[j] = chain[j]
      BY <2>1, <1>6, <1>7
    <3> QED
      BY <2>1, <3>1, <1>2, <1>6 DEF ChainOrdered
  <2>2. CASE j = n + 1
    BY <2>2, <1>4, <1>6, <1>7, <1>9
  <2> QED
    BY <2>1, <2>2, <1>6
<1>11. tx.body.type = "deferred" => tx.body.timeout \in Nat /\ 0 < tx.body.timeout
  BY <1>3, <1>4, BodyFields DEF IInv, TimeoutsPositive, Top
<1>12. \A e \in events' :
          \/ e \in events
          \/ /\ tx.body.type = "deferred"
             /\ e = [nr |-> n + 1, target |-> at + tx.body.timeout]
  <2>1. CASE tx.body.type = "deferred"
    BY <1>1, <2>1 DEF PastAddToBlockchain
  <2>2. CASE tx.body.type = "redeem"
    BY <1>1, <2>2 DEF PastAddToBlockchain
  <2>3. CASE tx.body.type \notin {"deferred", "redeem"}
    BY <1>1, <2>3 DEF PastAddToBlockchain
  <2> QED
    BY <2>1, <2>2, <2>3
<1>13. events' \subseteq [nr : Nat, target : Nat]
  BY <1>2, <1>4, <1>6, <1>11, <1>12 DEF TypeOK
<1>14. TypeOK' /\ NestedCallsEarlier' /\ TimeoutsPositive'
  BY <1>1, <1>7, <1>13, PopStep DEF TypeOK
<1>15. \A e \in events' : at < e.target
  <2> TAKE e \in events'
  <2>1. CASE e \in events
    <3>1. LastDate <= e.target /\ e.target \in Nat
      BY <2>1, <1>2 DEF IInv, NoEventOvertaken, TypeOK
    <3>2. ~(e.target <= at)
      BY <2>1, <3>1, <1>1 DEF InRange
    <3> QED
      BY <3>1, <3>2, <1>4
  <2>2. CASE tx.body.type = "deferred" /\ e = [nr |-> n + 1, target |-> at + tx.body.timeout]
    BY <2>2, <1>4, <1>11
  <2> QED
    BY <2>1, <2>2, <1>12
<1>16. NoEventOvertaken'
  BY <1>4, <1>8, <1>13, <1>15 DEF NoEventOvertaken, NoEventAtLastDate
<1> QED
  BY <1>10, <1>14, <1>16 DEF IInv

\* A refused call had no event left to process; if it is older than the chain it
\* had none to begin with.
LEMMA RefuseStep ==
    ASSUME IInv, Refuse
    PROVE  IInv'
<1>1. stack # <<>> /\ InRange(Top.at) = {} /\ stack' = Pop /\ UNCHANGED <<chain, events>>
  BY DEF Refuse
<1>2. TypeOK' /\ ChainOrdered' /\ NestedCallsEarlier' /\ TimeoutsPositive'
  BY <1>1, PopStep DEF IInv, TypeOK, ChainOrdered
<1>3. NoEventAtLastDate
  <2>1. CASE \A i \in DOMAIN stack : LastDate <= stack[i].at
    <3>1. LastDate <= Top.at /\ Top.at \in Nat /\ LastDate \in Nat
      BY <2>1, <1>1, TopOfStack, LastDateIsLatest DEF IInv, Top, Dates
    <3>2. \A e \in events : e.target \in Nat /\ LastDate <= e.target /\ ~(e.target <= Top.at)
      BY <1>1 DEF IInv, NoEventOvertaken, TypeOK, InRange
    <3> QED
      BY <3>1, <3>2 DEF NoEventAtLastDate
  <2> QED
    BY <2>1 DEF IInv, NoEventOvertaken
<1>4. NoEventOvertaken'
  BY <1>1, <1>3 DEF IInv, NoEventOvertaken, NoEventAtLastDate, LastDate
<1> QED
  BY <1>2, <1>4 DEF IInv

-----------------------------------------------------------------------------
(* The theorems. *)

\* IInv is an invariant of createAndAddConfirmedTransaction: every step of a call
\* and of the calls nested in it preserves it.
THEOREM InductiveInvariant == Spec => []IInv
<1>1. Init => IInv
  BY DEF Init, IInv, TypeOK, ChainOrdered, NestedCallsEarlier, TimeoutsPositive,
         NoEventOvertaken, NoEventAtLastDate, LastDate
<1>2. IInv /\ [Next]_vars => IInv'
  <2> SUFFICES ASSUME IInv, [Next]_vars PROVE IInv'
    OBVIOUS
  <2>1. CASE \E c \in Calls : Submit(c)
    BY <2>1, SubmitStep
  <2>2. CASE \E e \in events : Trigger(e)
    BY <2>2, TriggerStep
  <2>3. CASE \E e \in events : TriggerFails(e)
    BY <2>3, TriggerFailsStep
  <2>4. CASE Confirm
    BY <2>4, ConfirmStep
  <2>5. CASE Refuse
    BY <2>5, RefuseStep
  <2>6. CASE UNCHANGED vars
    BY <2>6 DEF vars, IInv, TypeOK, ChainOrdered, NestedCallsEarlier, TimeoutsPositive,
                NoEventOvertaken, NoEventAtLastDate, LastDate
  <2> QED
    BY <2>1, <2>2, <2>3, <2>4, <2>5, <2>6 DEF Next, CallStep
<1> QED
  BY <1>1, <1>2, PTL DEF Spec

\* Every confirmed balance is a non-negative number, whatever the calls: the
\* lookups stay inside the chain and the decay table, and no role of
\* confirmTransaction hands a negative balance back.
THEOREM TypeCorrect == Spec => []TypeOK
<1>1. IInv => TypeOK
  BY DEF IInv
<1> QED
  BY <1>1, InductiveInvariant, PTL

\* Triggered timeouts and the calls that triggered them are confirmed in the order
\* of their dates.
THEOREM ChainStaysOrdered == Spec => []ChainOrdered
<1>1. IInv => ChainOrdered
  BY DEF IInv
<1> QED
  BY <1>1, InductiveInvariant, PTL

\* processTransactionTrigger, which searches from the date of the last confirmed
\* transaction on, never leaves an event behind that date.
THEOREM NoEventLeftBehind == Spec => []NoOverdueEvent
<1>1. IInv => NoOverdueEvent
  BY DEF IInv, NoEventOvertaken, NoEventAtLastDate, NoOverdueEvent
<1> QED
  BY <1>1, InductiveInvariant, PTL
-----------------------------------------------------------------------------
(***************************************************************************)
(* Payouts.  What was said so far holds for any calls; that an event and a *)
(* payout exclude each other holds if no client hands over a timeout, and  *)
(* what a payout leaves to pay if the node has calculated the balances.    *)
(***************************************************************************)

\* Timeouts come from the node alone (createTransactionByEvent).
NoTimeoutCalls == \A c \in Calls : c.tx.body.type # "timeout"

IsTimeout(i) == i \in DOMAIN stack /\ stack[i].tx.body.type = "timeout"

\* What a call triggers is a timeout; what a client calls is the first of the stack.
NestedAreTimeouts == \A i \in DOMAIN stack : i # 1 => IsTimeout(i)

\* A payout refers to a deferred transfer before it.
PayoutsRefer ==
    \A i \in DOMAIN chain : chain[i].body.type \in {"redeem", "timeout"} =>
        IsDeferred(chain[i].body.nr) /\ chain[i].body.nr < i

\* A timeout under way is the one of an unpaid deferred transfer, on its date, and
\* nothing later than it was confirmed meanwhile.
PendingOpen ==
    \A i \in DOMAIN stack : IsTimeout(i) =>
        LET nr == stack[i].tx.body.nr
        IN  /\ IsDeferred(nr) /\ Payouts(nr) = {}
            /\ stack[i].at = TargetDate(nr) /\ stack[i].tx.createdAt = stack[i].at
            /\ stack[i].anchor = "node" /\ stack[i].derivation = "node"
            /\ LastDate <= stack[i].at

\* It is the only one, and its event is gone.
PendingOnce ==
    \A i \in DOMAIN stack : IsTimeout(i) =>
        /\ \A e \in events : e.nr # stack[i].tx.body.nr
        /\ \A j \in DOMAIN stack : IsTimeout(j) /\ stack[j].tx.body.nr = stack[i].tx.body.nr => i = j

OpenInv == NestedAreTimeouts /\ PayoutsRefer /\ EventsAreOpen /\ PendingOpen /\ PendingOnce

\* The address of a deferred transfer is new, nobody can send from it but by
\* redeeming, and it times out later than it was confirmed.
AddressesNew ==
    \A m \in DOMAIN chain : IsDeferred(m) =>
        /\ chain[m].body.from \notin DeferredKeys
        /\ 0 < chain[m].body.timeout
        /\ \A n \in DOMAIN chain : IsDeferred(n) /\ chain[n].body.to = chain[m].body.to => m = n

\* It gets the amount of the transfer, and is emptied by whatever pays it out.
AddressesPaid ==
    /\ \A m \in DOMAIN chain : IsDeferred(m) =>
          /\ chain[m].bal[chain[m].body.to] = chain[m].body.amount
          /\ \A i \in Payouts(m) : chain[i].bal[chain[m].body.to] = 0
    /\ \A i \in DOMAIN chain : \A k \in DeferredKeys \cap Changed(i) :
          \E m \in DOMAIN chain : IsDeferred(m) /\ chain[m].body.to = k /\ (i = m \/ i \in Payouts(m))

\* Until a deferred transfer is paid, its event waits or its timeout is under way.
Remembered(nr) ==
    \/ [nr |-> nr, target |-> TargetDate(nr)] \in events
    \/ Payouts(nr) # {}
    \/ DecayedDeferred(nr, TargetDate(nr)) = 0
    \/ \E i \in DOMAIN stack : IsTimeout(i) /\ stack[i].tx.body.nr = nr

NoneForgotten ==
    \A nr \in DOMAIN chain : IsDeferred(nr) /\ nr > FirstDeferredNr => Remembered(nr)

PaidInv == AddressesNew /\ (Calculated => AddressesPaid /\ PaidOutOnce /\ NoneForgotten)

-----------------------------------------------------------------------------
(* What a step does to the deferred transfers and their payouts. *)

\* The entry a confirmation appends; the others stay.
LEMMA ConfirmedEntry ==
    ASSUME IInv, Confirm, NEW n, n = Len(chain), NEW b, b = Top.tx.body
    PROVE  /\ n \in Nat /\ DOMAIN chain = 1..n /\ DOMAIN chain' = 1..(n + 1)
           /\ \A i \in 1..n : chain'[i] = chain[i]
           /\ chain'[n + 1] = ConfirmedTransaction(Top)
           /\ chain'[n + 1].body = b /\ chain'[n + 1].at = Top.at
           /\ Top \in Call /\ b \in Body /\ Top.at \in Dates /\ Top.tx.createdAt \in Dates
           /\ LastDate' = Top.at
<1>1. stack # <<>> /\ Valid(Top) /\ chain' = Append(chain, ConfirmedTransaction(Top))
  BY DEF Confirm
<1>2. TypeOK /\ ChainOrdered
  BY DEF IInv
<1>3. Top \in Call /\ Top.tx \in Tx /\ Top.at \in Dates
  BY <1>1, <1>2, TopOfStack
<1>4. ConfirmedTransaction(Top) \in Entry
  BY <1>1, <1>2, <1>3, ConfirmedTransactionIsEntry
<1>5. chain \in Seq(Entry) /\ n \in Nat /\ DOMAIN chain = 1..n
  BY <1>2 DEF TypeOK
<1>6. /\ DOMAIN chain' = 1..(n + 1) /\ Len(chain') = n + 1 /\ chain' # <<>>
      /\ \A i \in 1..n : chain'[i] = chain[i]
      /\ chain'[n + 1] = ConfirmedTransaction(Top)
  BY <1>1, <1>4, <1>5, AppendProperties
<1>7. chain'[n + 1].body = b /\ chain'[n + 1].at = Top.at
  BY <1>6 DEF ConfirmedTransaction
<1>8. LastDate' = Top.at
  BY <1>6, <1>7 DEF LastDate
<1> QED
  BY <1>3, <1>5, <1>6, <1>7, <1>8 DEF Tx

\* Deferred transfers keep what they are; the payouts are those before, and the new
\* transaction if it is one.
LEMMA ConfirmedPayouts ==
    ASSUME IInv, Confirm, NEW n, n = Len(chain), NEW b, b = Top.tx.body
    PROVE  /\ \A m \in 1..n : (IsDeferred(m)' <=> IsDeferred(m)) /\ TargetDate(m)' = TargetDate(m)
           /\ IsDeferred(n + 1)' <=> b.type = "deferred"
           /\ \A m : IsDeferred(m) => m \in 1..n
           /\ \A m : IsDeferred(m)' => m \in 1..(n + 1)
           /\ \A m : Payouts(m)' = Payouts(m) \cup
                {i \in {n + 1} : b.type \in {"redeem", "timeout"} /\ b.nr = m}
           /\ \A m : Payouts(m) \subseteq 1..n
<1>1. /\ n \in Nat /\ DOMAIN chain = 1..n /\ DOMAIN chain' = 1..(n + 1)
      /\ \A i \in 1..n : chain'[i] = chain[i]
      /\ chain'[n + 1].body = b
  BY ConfirmedEntry
<1>2. \A m \in 1..n : (IsDeferred(m)' <=> IsDeferred(m)) /\ TargetDate(m)' = TargetDate(m)
  BY <1>1 DEF IsDeferred, TargetDate
<1>3. IsDeferred(n + 1)' <=> b.type = "deferred"
  BY <1>1 DEF IsDeferred
<1>4. \A m : Payouts(m)' = Payouts(m) \cup
                {i \in {n + 1} : b.type \in {"redeem", "timeout"} /\ b.nr = m}
  BY <1>1 DEF Payouts
<1>5. \A m : (IsDeferred(m) => m \in 1..n) /\ (IsDeferred(m)' => m \in 1..(n + 1))
  BY <1>1 DEF IsDeferred
<1>6. \A m : Payouts(m) \subseteq 1..n
  BY <1>1 DEF Payouts
<1> QED
  BY <1>2, <1>3, <1>4, <1>5, <1>6

\* The calls left when one returns.
LEMMA Popped ==
    ASSUME IInv, stack # <<>>, stack' = Pop, NEW m, m = Len(stack)
    PROVE  /\ m \in Nat \ {0} /\ DOMAIN stack = 1..m /\ DOMAIN stack' = 1..(m - 1)
           /\ \A i \in 1..(m - 1) : stack'[i] = stack[i]
           /\ \A i \in 1..(m - 1) : IsTimeout(i)' <=> IsTimeout(i)
<1>1. stack \in Seq(Call) /\ m \in Nat \ {0} /\ DOMAIN stack = 1..m
  BY DEF IInv, TypeOK
<1>2. \A i \in 1..(m - 1) : i \in 1..m /\ stack[i] \in Call
  BY <1>1
<1>3. /\ Pop \in Seq(Call)
      /\ Len(Pop) = m - 1
      /\ \A i \in 1..(m - 1) : Pop[i] = stack[i]
  BY <1>1, <1>2, SubSeqProperties DEF Pop
<1>4. DOMAIN Pop = 1..(m - 1)
  BY <1>3
<1>5. \A i \in 1..(m - 1) : IsTimeout(i)' <=> IsTimeout(i)
  BY <1>1, <1>2, <1>3, <1>4 DEF IsTimeout
<1> QED
  BY <1>1, <1>3, <1>4, <1>5

\* A call that triggers nothing more is the only one, or a timeout.
LEMMA TopIsTimeout ==
    ASSUME IInv, OpenInv, stack # <<>>, ~IsTimeout(Len(stack))
    PROVE  DOMAIN stack = {1} /\ Len(stack) = 1
<1>1. Len(stack) \in Nat \ {0} /\ DOMAIN stack = 1..Len(stack)
  BY DEF IInv, TypeOK
<1>2. Len(stack) = 1
  BY <1>1 DEF OpenInv, NestedAreTimeouts
<1> QED
  BY <1>1, <1>2

-----------------------------------------------------------------------------
(* OpenInv, step by step. *)

\* Two events of one deferred transfer are the same event.
LEMMA OneEvent ==
    ASSUME TypeOK, EventsAreOpen, NEW e \in events, NEW f \in events, e.nr = f.nr
    PROVE  e = f
<1>1. e \in [nr : Nat, target : Nat] /\ f \in [nr : Nat, target : Nat]
  BY DEF TypeOK
<1>2. e.target = f.target
  BY DEF EventsAreOpen
<1> QED
  BY <1>1, <1>2

\* What only depends on the chain stays with it.
LEMMA SameChain ==
    ASSUME chain' = chain
    PROVE  /\ \A m : (IsDeferred(m)' <=> IsDeferred(m)) /\ TargetDate(m)' = TargetDate(m)
           /\ \A m : Payouts(m)' = Payouts(m)
           /\ LastDate' = LastDate
           /\ PayoutsRefer' <=> PayoutsRefer
  BY DEF IsDeferred, TargetDate, Payouts, LastDate, PayoutsRefer

\* A client's call changes neither chain nor events, and is no timeout.
LEMMA SubmitOpen ==
    ASSUME IInv, OpenInv, NoTimeoutCalls, NEW c \in Calls, Submit(c)
    PROVE  OpenInv'
<1>1. stack' = <<c>> /\ chain' = chain /\ events' = events
  BY DEF Submit
<1>2. DOMAIN stack' = {1} /\ stack'[1] = c /\ c.tx.body.type # "timeout"
  BY <1>1 DEF NoTimeoutCalls
<1>3. \A i \in DOMAIN stack' : i = 1 /\ ~IsTimeout(i)'
  BY <1>2 DEF IsTimeout
<1>4. NestedAreTimeouts' /\ PendingOpen' /\ PendingOnce'
  BY <1>3 DEF NestedAreTimeouts, PendingOpen, PendingOnce
<1>5. EventsAreOpen'
  BY <1>1, SameChain DEF OpenInv, EventsAreOpen
<1>6. PayoutsRefer'
  BY <1>1, SameChain DEF OpenInv
<1> QED
  BY <1>4, <1>5, <1>6 DEF OpenInv

\* The event of the triggered call is the only one of its deferred transfer, and no
\* call under way is for the same.
LEMMA TriggerOpen ==
    ASSUME IInv, OpenInv, NEW e \in events, Trigger(e)
    PROVE  OpenInv'
<1> DEFINE c == TriggeredCall(TimeoutTransaction(e), e)
<1>m. PICK m : m = Len(stack)
  OBVIOUS
<1>1. stack # <<>> /\ stack' = Append(stack, c) /\ chain' = chain /\ events' = events \ {e}
  BY DEF Trigger
<1>2. /\ c.tx.body.type = "timeout" /\ c.tx.body.nr = e.nr
      /\ c.at = e.target /\ c.tx.createdAt = e.target /\ c.anchor = "node" /\ c.derivation = "node"
  BY DEF TriggeredCall, TimeoutTransaction
<1>3. stack \in Seq(Call) /\ m \in Nat \ {0} /\ DOMAIN stack = 1..m
  BY <1>1, <1>m DEF IInv, TypeOK
<1>4. IInv'
  BY TriggerStep
<1> HIDE DEF c
<1>5. stack' \in Seq(Call) /\ Len(stack') = m + 1
  <2>1. stack' \in Seq(Call)
    BY <1>4 DEF IInv, TypeOK
  <2> QED
    BY <2>1, <1>1, <1>3, <1>m
<1>6. /\ DOMAIN stack' = 1..(m + 1)
      /\ \A i \in 1..m : stack'[i] = stack[i]
      /\ stack'[m + 1] = c
  BY <1>1, <1>3, <1>5, <1>m
<1>7. /\ \A i \in 1..m : IsTimeout(i)' <=> IsTimeout(i)
      /\ IsTimeout(m + 1)'
  BY <1>2, <1>3, <1>6 DEF IsTimeout
<1>8. /\ IsDeferred(e.nr) /\ Payouts(e.nr) = {} /\ e.target = TargetDate(e.nr)
      /\ LastDate <= e.target
  BY DEF OpenInv, EventsAreOpen, IInv, NoEventOvertaken
<1>9. NestedAreTimeouts'
  BY <1>3, <1>6, <1>7 DEF OpenInv, NestedAreTimeouts
<1>10. PayoutsRefer' /\ EventsAreOpen'
  BY <1>1, SameChain DEF OpenInv, EventsAreOpen
<1>11. PendingOpen'
  <2> SUFFICES ASSUME NEW i \in 1..(m + 1), IsTimeout(i)', NEW nr, nr = stack'[i].tx.body.nr
               PROVE  /\ IsDeferred(nr)' /\ Payouts(nr)' = {}
                      /\ stack'[i].at = TargetDate(nr)'
                      /\ stack'[i].tx.createdAt = stack'[i].at
                      /\ stack'[i].anchor = "node" /\ stack'[i].derivation = "node"
                      /\ LastDate' <= stack'[i].at
    BY <1>6 DEF PendingOpen
  <2>1. CASE i \in 1..m
    BY <2>1, <1>1, <1>3, <1>6, <1>7, SameChain DEF OpenInv, PendingOpen
  <2>2. CASE i = m + 1
    BY <2>2, <1>1, <1>2, <1>6, <1>8, SameChain
  <2> QED
    BY <2>1, <2>2, <1>3
<1>12. PendingOnce'
  <2>1. \A f \in events' : f.nr # e.nr
    BY <1>1, OneEvent DEF IInv, OpenInv
  <2>2. \A i \in 1..m : IsTimeout(i) => stack[i].tx.body.nr # e.nr
    BY <1>3 DEF OpenInv, PendingOnce
  <2>3. \A i \in 1..m : IsTimeout(i) => \A f \in events' : f.nr # stack[i].tx.body.nr
    BY <1>1, <1>3 DEF OpenInv, PendingOnce
  <2>4. \A i \in 1..(m + 1) : IsTimeout(i)' => \A f \in events' : f.nr # stack'[i].tx.body.nr
    BY <2>1, <2>3, <1>2, <1>3, <1>6, <1>7
  <2>5. ASSUME NEW i \in 1..(m + 1), NEW j \in 1..(m + 1), IsTimeout(i)', IsTimeout(j)',
               stack'[j].tx.body.nr = stack'[i].tx.body.nr
        PROVE  i = j
    <3>1. CASE i \in 1..m /\ j \in 1..m
      BY <2>5, <3>1, <1>3, <1>6, <1>7 DEF OpenInv, PendingOnce
    <3>2. CASE i \in 1..m /\ j = m + 1
      BY <2>2, <2>5, <3>2, <1>2, <1>3, <1>6, <1>7
    <3>3. CASE i = m + 1 /\ j \in 1..m
      BY <2>2, <2>5, <3>3, <1>2, <1>3, <1>6, <1>7
    <3> QED
      BY <3>1, <3>2, <3>3, <1>3
  <2> QED
    BY <2>4, <2>5, <1>6 DEF PendingOnce
<1> QED
  BY <1>9, <1>10, <1>11, <1>12 DEF OpenInv

\* An event whose call fails at once is gone, and no other one has changed.
LEMMA TriggerFailsOpen ==
    ASSUME IInv, OpenInv, NEW e \in events, TriggerFails(e)
    PROVE  OpenInv'
<1>1. events' \subseteq events /\ chain' = chain /\ stack' = stack
  BY DEF TriggerFails
<1>2. \A i : IsTimeout(i)' <=> IsTimeout(i)
  BY <1>1 DEF IsTimeout
<1>3. NestedAreTimeouts' /\ PendingOnce'
  BY <1>1, <1>2 DEF OpenInv, NestedAreTimeouts, PendingOnce
<1>4. PayoutsRefer' /\ EventsAreOpen'
  BY <1>1, SameChain DEF OpenInv, EventsAreOpen
<1>5. PendingOpen'
  BY <1>1, <1>2, SameChain DEF OpenInv, PendingOpen
<1> QED
  BY <1>3, <1>4, <1>5 DEF OpenInv

\* A refused call leaves the stack, and everything else as it was.
LEMMA RefuseOpen ==
    ASSUME IInv, OpenInv, Refuse
    PROVE  OpenInv'
<1> DEFINE m == Len(stack)
<1>1. stack # <<>> /\ stack' = Pop /\ chain' = chain /\ events' = events
  BY DEF Refuse
<1>2. /\ m \in Nat \ {0} /\ DOMAIN stack = 1..m /\ DOMAIN stack' = 1..(m - 1)
      /\ \A i \in 1..(m - 1) : stack'[i] = stack[i]
      /\ \A i \in 1..(m - 1) : IsTimeout(i)' <=> IsTimeout(i)
  BY <1>1, Popped
<1> HIDE DEF m
<1>3. \A i \in 1..(m - 1) : i \in 1..m
  BY <1>2
<1>4. NestedAreTimeouts' /\ PendingOnce'
  BY <1>1, <1>2, <1>3 DEF OpenInv, NestedAreTimeouts, PendingOnce
<1>5. PayoutsRefer' /\ EventsAreOpen'
  BY <1>1, SameChain DEF OpenInv, EventsAreOpen
<1>6. PendingOpen'
  BY <1>1, <1>2, <1>3, SameChain, SMTT(40) DEF OpenInv, PendingOpen
<1> QED
  BY <1>4, <1>5, <1>6 DEF OpenInv

\* A payout takes the event of its deferred transfer along, or was triggered by it.
LEMMA ConfirmOpen ==
    ASSUME IInv, OpenInv, Confirm
    PROVE  OpenInv'
<1>n. PICK n : n = Len(chain)
  OBVIOUS
<1>m. PICK m : m = Len(stack)
  OBVIOUS
<1>b. PICK b : b = Top.tx.body
  OBVIOUS
<1>1. stack # <<>> /\ stack' = Pop /\ Valid(Top) /\ events' = PastAddToBlockchain(b, n + 1, Top.at)
  BY <1>b, <1>n DEF Confirm
<1>2. /\ n \in Nat /\ DOMAIN chain = 1..n /\ DOMAIN chain' = 1..(n + 1)
      /\ \A i \in 1..n : chain'[i] = chain[i]
      /\ chain'[n + 1].body = b /\ chain'[n + 1].at = Top.at
      /\ b \in Body /\ Top.at \in Dates /\ LastDate' = Top.at
  BY <1>b, <1>n, ConfirmedEntry
<1>3. /\ \A i \in 1..n : (IsDeferred(i)' <=> IsDeferred(i)) /\ TargetDate(i)' = TargetDate(i)
      /\ IsDeferred(n + 1)' <=> b.type = "deferred"
      /\ \A i : IsDeferred(i) => i \in 1..n
      /\ \A i : Payouts(i)' = Payouts(i) \cup
            {x \in {n + 1} : b.type \in {"redeem", "timeout"} /\ b.nr = i}
  BY <1>b, <1>n, ConfirmedPayouts
<1>4. /\ m \in Nat \ {0} /\ DOMAIN stack = 1..m /\ DOMAIN stack' = 1..(m - 1)
      /\ \A i \in 1..(m - 1) : stack'[i] = stack[i]
      /\ \A i \in 1..(m - 1) : IsTimeout(i)' <=> IsTimeout(i)
  BY <1>1, <1>m, Popped
<1>5. \A i \in 1..(m - 1) : i \in 1..m /\ i # m
  BY <1>4
<1>6. IsTimeout(m) <=> b.type = "timeout"
  BY <1>4, <1>b, <1>m DEF IsTimeout, Top
<1>7. b.type # "timeout" => m = 1
  BY <1>1, <1>6, <1>m, TopIsTimeout
<1>8. b.type = "timeout" => m \in 1..m /\ b.nr = stack[m].tx.body.nr
  BY <1>4, <1>b, <1>m DEF Top
<1>9. b.type \in {"redeem", "timeout"} => IsDeferred(b.nr) /\ b.nr \in 1..n
  <2>1. b.type = "redeem" => IsDeferred(b.nr)
    BY <1>1, <1>b DEF Valid, ValidRedeem
  <2>2. b.type = "timeout" => IsDeferred(b.nr)
    BY <1>1, <1>b DEF Valid, ValidTimeout
  <2> QED
    BY <2>1, <2>2, <1>3
<1>10. NestedAreTimeouts'
  BY <1>4, <1>5 DEF OpenInv, NestedAreTimeouts
<1>11. PayoutsRefer'
  <2> SUFFICES ASSUME NEW i \in 1..(n + 1), chain'[i].body.type \in {"redeem", "timeout"},
                      NEW nr, nr = chain'[i].body.nr
               PROVE  IsDeferred(nr)' /\ nr < i
    BY <1>2 DEF PayoutsRefer
  <2>1. CASE i \in 1..n
    <3>1. IsDeferred(nr) /\ nr < i
      BY <2>1, <1>2 DEF OpenInv, PayoutsRefer
    <3> QED
      BY <3>1, <1>3
  <2>2. CASE i = n + 1
    BY <2>2, <1>2, <1>3, <1>9
  <2> QED
    BY <2>1, <2>2, <1>2
<1>12. \A e \in events : b.type \in {"redeem", "timeout"} /\ b.nr = e.nr => e \notin events'
  <2> SUFFICES ASSUME NEW e \in events, b.type \in {"redeem", "timeout"}, b.nr = e.nr
               PROVE  e \notin events'
    OBVIOUS
  <2>1. b.type = "redeem"
    <3>1. b.type = "timeout" => e.nr # b.nr
      BY <1>4, <1>6, <1>8 DEF OpenInv, PendingOnce
    <3> QED
      BY <3>1
  <2>2. e \in [nr : Nat, target : Nat] /\ e.target = TargetDate(b.nr)
    BY DEF IInv, TypeOK, OpenInv, EventsAreOpen
  <2>3. e = [nr |-> b.nr, target |-> TargetDate(b.nr)]
    BY <2>2
  <2>4. events' = events \ {[nr |-> b.nr, target |-> TargetDate(b.nr)]}
    BY <2>1, <1>1 DEF PastAddToBlockchain
  <2> QED
    BY <2>3, <2>4
<1>13. \A e \in events' :
          \/ e \in events
          \/ b.type = "deferred" /\ e = [nr |-> n + 1, target |-> Top.at + b.timeout]
  <2>1. CASE b.type = "deferred"
    BY <1>1, <2>1 DEF PastAddToBlockchain
  <2>2. CASE b.type # "deferred"
    BY <1>1, <2>2 DEF PastAddToBlockchain
  <2> QED
    BY <2>1, <2>2
<1>14. EventsAreOpen'
  <2> SUFFICES ASSUME NEW e \in events', NEW nr, nr = e.nr
               PROVE  IsDeferred(nr)' /\ e.target = TargetDate(nr)' /\ Payouts(nr)' = {}
    BY DEF EventsAreOpen
  <2>1. CASE e \in events
    <3>1. IsDeferred(nr) /\ e.target = TargetDate(nr) /\ Payouts(nr) = {}
      BY <2>1 DEF OpenInv, EventsAreOpen
    <3> QED
      BY <2>1, <3>1, <1>3, <1>12
  <2>2. CASE b.type = "deferred" /\ e = [nr |-> n + 1, target |-> Top.at + b.timeout]
    <3>1. Payouts(n + 1) = {}
      BY <1>2, <1>3 DEF OpenInv, PayoutsRefer, Payouts
    <3>2. TargetDate(n + 1)' = Top.at + b.timeout
      BY <1>2 DEF TargetDate
    <3> QED
      BY <2>2, <3>1, <3>2, <1>3
  <2> QED
    BY <2>1, <2>2, <1>13
<1>15. \A i \in 1..(m - 1) : b.type = "timeout" /\ m \in 1..m
  BY <1>4, <1>7
<1>16. \A i \in 1..(m - 1) : IsTimeout(i) => stack[i].tx.body.nr # b.nr
  BY <1>4, <1>5, <1>6, <1>8, <1>15 DEF OpenInv, PendingOnce
<1>17. PendingOpen'
  <2> SUFFICES ASSUME NEW i \in 1..(m - 1), IsTimeout(i)', NEW nr, nr = stack'[i].tx.body.nr
               PROVE  /\ IsDeferred(nr)' /\ Payouts(nr)' = {}
                      /\ stack'[i].at = TargetDate(nr)'
                      /\ stack'[i].tx.createdAt = stack'[i].at
                      /\ stack'[i].anchor = "node" /\ stack'[i].derivation = "node"
                      /\ LastDate' <= stack'[i].at
    BY <1>4 DEF PendingOpen
  <2>1. IsTimeout(i) /\ stack'[i] = stack[i] /\ i \in 1..m /\ nr # b.nr
    BY <1>4, <1>5, <1>16
  <2>2. /\ IsDeferred(nr) /\ Payouts(nr) = {} /\ stack[i].at = TargetDate(nr)
        /\ stack[i].tx.createdAt = stack[i].at
        /\ stack[i].anchor = "node" /\ stack[i].derivation = "node"
    BY <2>1, <1>4 DEF OpenInv, PendingOpen
  <2>3. Top.at <= stack[i].at
    BY <2>1, <1>4, <1>m DEF IInv, NestedCallsEarlier, Top
  <2> QED
    BY <2>1, <2>2, <2>3, <1>2, <1>3
<1>18. PendingOnce'
  <2>1. \A i \in 1..(m - 1) : events' \subseteq events
    BY <1>13, <1>15
  <2> QED
    BY <2>1, <1>4, <1>5 DEF OpenInv, PendingOnce
<1> QED
  BY <1>10, <1>11, <1>14, <1>17, <1>18 DEF OpenInv

\* OpenInv is an invariant if no client hands over a timeout.
LEMMA OpenInvariant ==
    ASSUME NoTimeoutCalls
    PROVE  Spec => []OpenInv
<1>1. Init => OpenInv
  BY DEF Init, OpenInv, NestedAreTimeouts, PayoutsRefer, EventsAreOpen, PendingOpen, PendingOnce
<1>2. IInv /\ OpenInv /\ [Next]_vars => OpenInv'
  <2> SUFFICES ASSUME IInv, OpenInv, [Next]_vars PROVE OpenInv'
    OBVIOUS
  <2>1. CASE \E c \in Calls : Submit(c)
    BY <2>1, SubmitOpen
  <2>2. CASE \E e \in events : Trigger(e)
    BY <2>2, TriggerOpen
  <2>3. CASE \E e \in events : TriggerFails(e)
    BY <2>3, TriggerFailsOpen
  <2>4. CASE Confirm
    BY <2>4, ConfirmOpen
  <2>5. CASE Refuse
    BY <2>5, RefuseOpen
  <2>6. CASE UNCHANGED vars
    <3>1. chain' = chain /\ events' = events /\ stack' = stack
      BY <2>6 DEF vars
    <3>2. \A i : IsTimeout(i)' <=> IsTimeout(i)
      BY <3>1 DEF IsTimeout
    <3>3. PayoutsRefer' /\ EventsAreOpen'
      BY <3>1, SameChain DEF OpenInv, EventsAreOpen
    <3>4. NestedAreTimeouts' /\ PendingOnce'
      BY <3>1, <3>2 DEF OpenInv, NestedAreTimeouts, PendingOnce
    <3>5. PendingOpen'
      BY <3>1, <3>2, SameChain DEF OpenInv, PendingOpen
    <3> QED
      BY <3>3, <3>4, <3>5 DEF OpenInv
  <2> QED
    BY <2>1, <2>2, <2>3, <2>4, <2>5, <2>6 DEF Next, CallStep
<1> QED
  BY <1>1, <1>2, InductiveInvariant, PTL DEF Spec

\* An event always stands for a deferred transfer that is still unpaid, on its date,
\* although runPastAddToBlockchain of DeferredTransfer and of RedeemDeferredTransfer
\* compute that date independently, and a timeout loses its event before it is
\* confirmed.
THEOREM EventsStayOpen ==
    ASSUME NoTimeoutCalls
    PROVE  Spec => []EventsAreOpen
<1>1. OpenInv => EventsAreOpen
  BY DEF OpenInv
<1> QED
  BY <1>1, OpenInvariant, PTL

-----------------------------------------------------------------------------
(* What a transaction leaves on the address of a deferred transfer. *)

\* The key of a deferred transfer's address is never registered, and unknown only
\* before the first such transfer.
LEMMA DeferredKeyType ==
    ASSUME TypeOK, NEW k \in DeferredKeys
    PROVE  /\ ~Registered(k)
           /\ AddressType(k, MaxTime) # "human"
           /\ AddressType(k, MaxTime) = "none" =>
                 \A m \in DOMAIN chain : IsDeferred(m) => chain[m].body.to # k
<1> DEFINE history == {chain[i].body : i \in {j \in DOMAIN chain : chain[j].at <= MaxTime}}
<1>1. \A i \in DOMAIN chain : chain[i].body \in Body /\ chain[i].body \in history
  <2> TAKE i \in DOMAIN chain
  <2>1. chain[i].body \in Body /\ chain[i].at <= MaxTime
    BY EntryOfChain DEF Dates
  <2> QED
    BY <2>1
<1>2. history \subseteq Body
  BY <1>1
<1>3. \A b \in history : b.type = "register" => b.from # k /\ b.to # k
  BY <1>2, BodyFields, KeysAssumption
<1>4. k \notin {GmwKey, AufKey}
  BY KeysAssumption
<1>5. AddressType(k, MaxTime) =
        CASE k \in {GmwKey, AufKey} /\ history # {} -> "community"
          [] \E b \in history : b.type = "register" /\ k \in {b.from, b.to} -> "human"
          [] \E b \in history : b.type = "deferred" /\ k = b.to -> "deferred"
          [] OTHER -> "none"
  BY DEF AddressType
<1> HIDE DEF history
<1>6. CASE \E b \in history : b.type = "deferred" /\ k = b.to
  <2>1. AddressType(k, MaxTime) = "deferred"
    BY <1>3, <1>4, <1>5, <1>6
  <2> QED
    BY <2>1 DEF Registered
<1>7. CASE ~\E b \in history : b.type = "deferred" /\ k = b.to
  <2>1. AddressType(k, MaxTime) = "none"
    BY <1>3, <1>4, <1>5, <1>7
  <2>2. \A m \in DOMAIN chain : IsDeferred(m) => chain[m].body.to # k
    BY <1>1, <1>7 DEF IsDeferred
  <2> QED
    BY <2>1, <2>2 DEF Registered
<1> QED
  BY <1>6, <1>7

\* The deferred transfer a valid payout refers to, and its address.
LEMMA PaidAddress ==
    ASSUME TypeOK, AddressesNew, NEW c \in Call, Valid(c),
           NEW b, b = c.tx.body, b.type \in {"redeem", "timeout"}
    PROVE  /\ IsDeferred(b.nr) /\ b.nr \in DOMAIN chain
           /\ chain[b.nr].body.to \in DeferredKeys
           /\ chain[b.nr].body.from \notin DeferredKeys
           /\ b.type = "redeem" => b.from = chain[b.nr].body.to /\ b.to \notin DeferredKeys
<1>1. b.type = "redeem" => IsDeferred(b.nr) /\ b.from = chain[b.nr].body.to /\ Registered(b.to)
  BY DEF Valid, ValidRedeem
<1>2. b.type = "timeout" => IsDeferred(b.nr)
  BY DEF Valid, ValidTimeout
<1>3. IsDeferred(b.nr) /\ b.nr \in DOMAIN chain /\ chain[b.nr].body.type = "deferred"
  BY <1>1, <1>2 DEF IsDeferred
<1>4. chain[b.nr].body.to \in DeferredKeys
  BY <1>3, EntryOfChain, BodyFields
<1>5. chain[b.nr].body.from \notin DeferredKeys
  BY <1>3 DEF AddressesNew
<1> QED
  BY <1>1, <1>3, <1>4, <1>5, DeferredKeyType

\* The address of a deferred transfer gets a balance from the transfer itself and
\* from what pays it out; every other role touches registered keys only.
LEMMA TouchedAddress ==
    ASSUME TypeOK, AddressesNew, NEW c \in Call, Valid(c), NEW b, b = c.tx.body,
           NEW k \in DeferredKeys, NodeBalances(b, c.at)[k] # NoBalance
    PROVE  \/ b.type = "deferred" /\ k = b.to
           \/ b.type \in {"redeem", "timeout"} /\ k = chain[b.nr].body.to
<1> DEFINE new == CalculateAccountBalances(b, c.at)
<1>1. b \in Body
  BY DEF Call, Tx
<1>2. k \in DOMAIN new
  <2>1. k \in Keys
    BY DEF Keys
  <2> QED
    BY <2>1 DEF NodeBalances
<1>3. k \notin Users /\ k \notin Accounts /\ k # GmwKey /\ k # AufKey
  BY KeysAssumption
<1>4. ~Registered(k) /\ AddressType(k, MaxTime) # "human"
  BY DeferredKeyType
<1>5. CASE b.type = "root"
  BY <1>2, <1>3, <1>5 DEF CalculateAccountBalances, CommunityRootBalances
<1>6. CASE b.type = "register"
  <2>1. k = b.to
    BY <1>2, <1>6 DEF CalculateAccountBalances, RegisterBalances
  <2> QED
    BY <2>1, <1>1, <1>3, <1>6, BodyFields
<1>7. CASE b.type = "creation"
  <2>1. k \in {b.to, GmwKey, AufKey}
    BY <1>2, <1>7 DEF CalculateAccountBalances, CreationBalances
  <2>2. AddressType(b.to, MaxTime) = "human"
    BY <1>7 DEF Valid, ValidCreation
  <2> QED
    BY <2>1, <2>2, <1>3, <1>4
<1>8. CASE b.type = "transfer"
  <2>1. k \in {b.from, b.to}
    BY <1>2, <1>8 DEF CalculateAccountBalances, TransferBalances
  <2>2. Registered(b.from) /\ Registered(b.to)
    BY <1>8 DEF Valid, ValidTransfer
  <2> QED
    BY <2>1, <2>2, <1>4
<1>9. CASE b.type = "deferred"
  <2>1. k \in {b.from, b.to}
    BY <1>2, <1>9 DEF CalculateAccountBalances, TransferBalances
  <2>2. Registered(b.from)
    BY <1>9 DEF Valid, ValidDeferred
  <2> QED
    BY <2>1, <2>2, <1>4, <1>9
<1>10. CASE b.type = "redeem"
  <2>1. k \in {b.from, b.to, chain[b.nr].body.from}
    BY <1>2, <1>10 DEF CalculateAccountBalances, RedeemBalances
  <2> QED
    BY <2>1, <1>10, PaidAddress
<1>11. CASE b.type = "timeout"
  <2>1. k \in {chain[b.nr].body.from, chain[b.nr].body.to}
    BY <1>2, <1>11 DEF CalculateAccountBalances, TimeoutBalances
  <2> QED
    BY <2>1, <1>11, PaidAddress
<1> QED
  BY <1>1, <1>5, <1>6, <1>7, <1>8, <1>9, <1>10, <1>11, BodyFields

\* A payout empties the address.
LEMMA PayoutEmpties ==
    ASSUME TypeOK, AddressesNew, NEW c \in Call, Valid(c), NEW b, b = c.tx.body,
           b.type \in {"redeem", "timeout"}
    PROVE  NodeBalances(b, c.at)[chain[b.nr].body.to] = 0
<1>k. PICK k : k = chain[b.nr].body.to
  OBVIOUS
<1> DEFINE new == CalculateAccountBalances(b, c.at)
<1>1. /\ k \in DeferredKeys /\ chain[b.nr].body.from \notin DeferredKeys
      /\ b.type = "redeem" => b.from = k /\ b.to \notin DeferredKeys
  BY <1>k, PaidAddress
<1>2. k \in Keys
  BY <1>1 DEF Keys
<1>3. k \in DOMAIN new /\ new[k] = 0
  <2>1. CASE b.type = "redeem"
    <3>1. new = RedeemBalances(b, c.at)
      BY <2>1 DEF CalculateAccountBalances
    <3>2. k = b.from /\ k # b.to
      BY <2>1, <1>1
    <3> QED
      BY <3>1, <3>2 DEF RedeemBalances
  <2>2. CASE b.type = "timeout"
    <3>1. new = TimeoutBalances(b, c.at)
      BY <2>2 DEF CalculateAccountBalances
    <3> QED
      BY <3>1, <1>k DEF TimeoutBalances
  <2> QED
    BY <2>1, <2>2
<1> QED
  BY <1>2, <1>3, <1>k DEF NodeBalances

\* A deferred transfer finds nothing on its address and leaves the amount.
LEMMA TransferFills ==
    ASSUME TypeOK, ChainOrdered, AddressesNew, AddressesPaid, NEW c \in Call, Valid(c),
           NEW b, b = c.tx.body, b.type = "deferred"
    PROVE  NodeBalances(b, c.at)[b.to] = b.amount
<1> DEFINE new == CalculateAccountBalances(b, c.at)
<1>1. b \in Body
  BY DEF Call, Tx
<1>2. b.to \in DeferredKeys /\ b.to \in Keys /\ b.amount \in Nat
  BY <1>1, BodyFields DEF Keys
<1>3. Registered(b.from) /\ AddressType(b.to, MaxTime) = "none"
  BY DEF Valid, ValidDeferred
<1>4. b.from # b.to /\ \A m \in DOMAIN chain : IsDeferred(m) => chain[m].body.to # b.to
  BY <1>2, <1>3, DeferredKeyType
<1>5. BalanceChanging(b.to, c.at) = {}
  BY <1>2, <1>4 DEF BalanceChanging, AddressesPaid
<1>6. AccountBalance(b.to, b.amount, c.at) = b.amount
  BY <1>2, <1>5 DEF AccountBalance, FromEnd, BalanceLeft
<1>7. new = TransferBalances(b, c.at)
  BY DEF CalculateAccountBalances
<1>8. b.to \in DOMAIN new /\ new[b.to] = b.amount
  BY <1>4, <1>6, <1>7 DEF TransferBalances
<1> QED
  BY <1>2, <1>8 DEF NodeBalances

\* Nothing is left of nothing.
LEMMA DecayOfNothing ==
    ASSUME NEW start \in Dates, NEW end \in 0..(MaxTime + MaxDelay), start <= end
    PROVE  Decay(0, start, end) = 0
<1>1. end - start \in 0..(MaxTime + MaxDelay)
  BY NumbersAssumption DEF Dates
<1>2. Keep[end - start] \in Nat
  BY <1>1, KeepAssumption
<1>3. \A x \in Nat : 0 * x = 0
  OBVIOUS
<1>4. 0 \div Scale = 0
  BY KeepAssumption
<1> QED
  BY <1>2, <1>3, <1>4 DEF Decay

\* Only the deferred transfer and its payouts set the balance of its address.
LEMMA AddressHistory ==
    ASSUME AddressesNew, AddressesPaid, NEW nr, IsDeferred(nr),
           NEW k, k = chain[nr].body.to, k \in DeferredKeys,
           NEW i \in DOMAIN chain, k \in Changed(i)
    PROVE  i = nr \/ i \in Payouts(nr)
<1>1. PICK m \in DOMAIN chain : IsDeferred(m) /\ chain[m].body.to = k /\ (i = m \/ i \in Payouts(m))
  BY DEF AddressesPaid
<1>2. m = nr
  BY <1>1 DEF AddressesNew, IsDeferred
<1> QED
  BY <1>1, <1>2

\* Once paid out, the address has nothing left on any later date.
LEMMA EmptyAddress ==
    ASSUME TypeOK, PayoutsRefer, AddressesNew, AddressesPaid,
           NEW nr, IsDeferred(nr), NEW i \in Payouts(nr),
           NEW date \in 0..(MaxTime + MaxDelay), chain[i].at <= date
    PROVE  FromEnd(chain[nr].body.to, date) = 0
<1>k. PICK k : k = chain[nr].body.to
  OBVIOUS
<1>S. PICK S : S = BalanceChanging(k, date)
  OBVIOUS
<1>1. nr \in DOMAIN chain /\ chain[nr].body.type = "deferred"
  BY DEF IsDeferred
<1>2. k \in DeferredKeys /\ k \in Keys
  BY <1>1, <1>k, EntryOfChain, BodyFields DEF Keys
<1>3. DOMAIN chain = 1..Len(chain) /\ Len(chain) \in Nat
  BY DEF TypeOK
<1>4. \A j \in Payouts(nr) : j \in DOMAIN chain /\ nr < j /\ chain[j].bal[k] = 0
  BY <1>1, <1>k DEF Payouts, PayoutsRefer, AddressesPaid
<1>5. i \in S
  BY <1>2, <1>4, <1>S DEF BalanceChanging, Changed, NoBalance
<1>6. S \subseteq 1..Len(chain)
  BY <1>3, <1>S DEF BalanceChanging
<1>7. Max(S) \in S /\ i <= Max(S)
  BY <1>3, <1>5, <1>6, MaxOfPositions
<1>8. Max(S) \in DOMAIN chain /\ k \in Changed(Max(S)) /\ chain[Max(S)].at <= date
  BY <1>7, <1>S DEF BalanceChanging
<1>9. Max(S) # nr
  BY <1>1, <1>3, <1>4, <1>6, <1>7
<1>10. Max(S) \in Payouts(nr)
  BY <1>2, <1>8, <1>9, <1>k, AddressHistory
<1>11. chain[Max(S)].bal[k] = 0 /\ chain[Max(S)].at \in Dates
  BY <1>4, <1>8, <1>10, EntryOfChain
<1>12. Decay(chain[Max(S)].bal[k], chain[Max(S)].at, date) = 0
  BY <1>8, <1>11, DecayOfNothing
<1> QED
  BY <1>5, <1>12, <1>k, <1>S DEF FromEnd, BalanceLeft

\* Until it is paid out, it has the decayed amount just before its timeout.
LEMMA FullAddress ==
    ASSUME TypeOK, AddressesNew, AddressesPaid,
           NEW nr, IsDeferred(nr), Payouts(nr) = {}, NEW date, date = TargetDate(nr),
           NEW k, k = chain[nr].body.to
    PROVE  BalanceLeft(BalanceChanging(k, date - 1), k, date) = DecayedDeferred(nr, date)
<1>S. PICK S : S = BalanceChanging(k, date - 1)
  OBVIOUS
<1>1. nr \in DOMAIN chain /\ chain[nr].body.type = "deferred"
  BY DEF IsDeferred
<1>2. /\ k \in DeferredKeys /\ k \in Keys /\ chain[nr].body.amount \in Nat
      /\ chain[nr].body.timeout \in Nat /\ chain[nr].at \in Nat
  BY <1>1, EntryOfChain, BodyFields DEF Keys, Dates
<1>3. chain[nr].bal[k] = chain[nr].body.amount /\ 0 < chain[nr].body.timeout
  BY <1>1 DEF AddressesPaid, AddressesNew
<1>4. k \in Changed(nr)
  BY <1>2, <1>3 DEF Changed, NoBalance
<1>5. chain[nr].at <= date - 1
  BY <1>2, <1>3 DEF TargetDate
<1>6. nr \in S
  BY <1>1, <1>4, <1>5, <1>S DEF BalanceChanging
<1>7. \A i \in S : i = nr
  BY <1>2, <1>S, AddressHistory DEF BalanceChanging
<1>8. S \subseteq 1..Len(chain) /\ Len(chain) \in Nat
  BY <1>S DEF BalanceChanging, TypeOK
<1>9. Max(S) = nr
  BY <1>6, <1>7, <1>8, MaxOfPositions
<1> QED
  BY <1>3, <1>6, <1>9, <1>S DEF BalanceLeft, DecayedDeferred

-----------------------------------------------------------------------------
(* PaidInv, step by step. *)

\* Steps that leave the chain alone can only forget a deferred transfer.
LEMMA SameChainPaid ==
    ASSUME chain' = chain
    PROVE  /\ AddressesNew' <=> AddressesNew
           /\ Calculated' <=> Calculated
           /\ AddressesPaid' <=> AddressesPaid
           /\ PaidOutOnce' <=> PaidOutOnce
           /\ \A nr, at : DecayedDeferred(nr, at)' = DecayedDeferred(nr, at)
  BY DEF AddressesNew, Calculated, AddressesPaid, PaidOutOnce, DecayedDeferred,
         IsDeferred, Payouts, Changed

\* A step that leaves the chain alone keeps PaidInv if it forgets nothing.
LEMMA KeepsPaid ==
    ASSUME PaidInv, chain' = chain,
           Calculated => \A nr \in DOMAIN chain :
               IsDeferred(nr) /\ nr > FirstDeferredNr /\ Remembered(nr) => Remembered(nr)'
    PROVE  PaidInv'
<1>1. SUFFICES ASSUME Calculated' PROVE NoneForgotten'
  BY SameChainPaid DEF PaidInv
<1>2. Calculated /\ NoneForgotten
  BY <1>1, SameChainPaid DEF PaidInv
<1>3. \A nr \in DOMAIN chain : IsDeferred(nr) /\ nr > FirstDeferredNr => Remembered(nr)'
  BY <1>2 DEF NoneForgotten
<1> QED
  BY <1>3, SameChain DEF NoneForgotten

\* A client's call: nothing under way before it, nothing forgotten after it.
LEMMA SubmitPaid ==
    ASSUME PaidInv, NEW c \in Calls, Submit(c)
    PROVE  PaidInv'
<1>1. stack = <<>> /\ chain' = chain /\ events' = events
  BY DEF Submit
<1>2. \A nr : Remembered(nr) => Remembered(nr)'
  BY <1>1, SameChain, SameChainPaid DEF Remembered, IsTimeout
<1> QED
  BY <1>1, <1>2, KeepsPaid

\* The timeout takes the place of its event.
LEMMA TriggerPaid ==
    ASSUME IInv, PaidInv, NEW e \in events, Trigger(e)
    PROVE  PaidInv'
<1>m. PICK m : m = Len(stack)
  OBVIOUS
<1>c. PICK c : c = TriggeredCall(TimeoutTransaction(e), e)
  OBVIOUS
<1>1. stack # <<>> /\ stack' = Append(stack, c) /\ chain' = chain /\ events' = events \ {e}
  BY <1>c DEF Trigger
<1>2. c.tx.body.type = "timeout" /\ c.tx.body.nr = e.nr
  BY <1>c DEF TriggeredCall, TimeoutTransaction
<1>3. stack \in Seq(Call) /\ m \in Nat /\ DOMAIN stack = 1..m
  BY <1>m DEF IInv, TypeOK
<1>4. /\ DOMAIN stack' = 1..(m + 1)
      /\ \A i \in 1..m : stack'[i] = stack[i]
      /\ stack'[m + 1] = c
  <2>1. IInv'
    BY TriggerStep
  <2>2. stack' \in Seq(Call) /\ Len(stack') = m + 1
    BY <2>1, <1>1, <1>3, <1>m DEF IInv, TypeOK
  <2> QED
    BY <2>2, <1>1, <1>3, <1>m
<1>5. IsTimeout(m + 1)' /\ \A i \in 1..m : IsTimeout(i)' <=> IsTimeout(i)
  BY <1>2, <1>3, <1>4 DEF IsTimeout
<1>6. ASSUME NEW nr, Remembered(nr)
      PROVE  Remembered(nr)'
  <2>1. CASE [nr |-> nr, target |-> TargetDate(nr)] = e
    <3>1. m + 1 \in DOMAIN stack' /\ stack'[m + 1].tx.body.nr = nr
      BY <2>1, <1>2, <1>3, <1>4
    <3> QED
      BY <3>1, <1>5 DEF Remembered
  <2>2. CASE [nr |-> nr, target |-> TargetDate(nr)] \in events \ {e}
    BY <2>2, <1>1, SameChain DEF Remembered
  <2>3. CASE \E i \in DOMAIN stack : IsTimeout(i) /\ stack[i].tx.body.nr = nr
    BY <2>3, <1>3, <1>4, <1>5 DEF Remembered
  <2>4. CASE Payouts(nr) # {} \/ DecayedDeferred(nr, TargetDate(nr)) = 0
    BY <2>4, <1>1, SameChain, SameChainPaid DEF Remembered
  <2> QED
    BY <1>6, <2>1, <2>2, <2>3, <2>4 DEF Remembered
<1> QED
  BY <1>1, <1>6, KeepsPaid

\* An event is dropped only if its transfer cannot be referred to, or its timeout is
\* confirmed already.
LEMMA TriggerFailsPaid ==
    ASSUME PaidInv, NEW e \in events, TriggerFails(e)
    PROVE  PaidInv'
<1>1. /\ chain' = chain /\ events' = events \ {e} /\ stack' = stack
      /\ ~Accepted(TimeoutTransaction(e), e.target)
  BY DEF TriggerFails
<1>2. \A i : IsTimeout(i)' <=> IsTimeout(i)
  BY <1>1 DEF IsTimeout
<1>3. ASSUME NEW nr \in DOMAIN chain, IsDeferred(nr), nr > FirstDeferredNr, Remembered(nr)
      PROVE  Remembered(nr)'
  <2>1. CASE [nr |-> nr, target |-> TargetDate(nr)] = e
    <3>t. PICK tx : tx = TimeoutTransaction(e)
      OBVIOUS
    <3>1. tx.body.type = "timeout" /\ tx.body.nr = nr
      BY <2>1, <3>t DEF TimeoutTransaction
    <3>2. ValidSingle(tx)
      BY <1>3, <3>1 DEF ValidSingle
    <3>3. PICK i \in DOMAIN chain : chain[i].body = tx.body
      BY <1>1, <3>2, <3>t DEF Accepted, TransactionExists
    <3>4. i \in Payouts(nr)
      BY <3>1, <3>3 DEF Payouts
    <3> QED
      BY <3>4, <1>1, SameChain DEF Remembered
  <2>2. CASE [nr |-> nr, target |-> TargetDate(nr)] \in events \ {e}
    BY <2>2, <1>1, SameChain DEF Remembered
  <2>3. CASE \E i \in DOMAIN stack : IsTimeout(i) /\ stack[i].tx.body.nr = nr
    BY <2>3, <1>1, <1>2 DEF Remembered
  <2>4. CASE Payouts(nr) # {} \/ DecayedDeferred(nr, TargetDate(nr)) = 0
    BY <2>4, <1>1, SameChain, SameChainPaid DEF Remembered
  <2> QED
    BY <1>3, <2>1, <2>2, <2>3, <2>4 DEF Remembered
<1> QED
  BY <1>1, <1>3, KeepsPaid

\* A timeout is refused only if nothing is left: its dates and its anchor are valid.
LEMMA RefusePaid ==
    ASSUME IInv, OpenInv, PaidInv, Refuse
    PROVE  PaidInv'
<1>m. PICK m : m = Len(stack)
  OBVIOUS
<1>1. stack # <<>> /\ stack' = Pop /\ chain' = chain /\ events' = events /\ ~Valid(Top)
  BY DEF Refuse
<1>2. /\ m \in Nat \ {0} /\ DOMAIN stack = 1..m /\ DOMAIN stack' = 1..(m - 1)
      /\ \A i \in 1..(m - 1) : stack'[i] = stack[i]
      /\ \A i \in 1..(m - 1) : IsTimeout(i)' <=> IsTimeout(i)
  BY <1>1, <1>m, Popped
<1>3. ASSUME Calculated, NEW nr, IsTimeout(m), stack[m].tx.body.nr = nr
      PROVE  DecayedDeferred(nr, TargetDate(nr)) = 0
  <2>b. PICK b : b = Top.tx.body
    OBVIOUS
  <2>1. b.type = "timeout" /\ b.nr = nr /\ Top = stack[m] /\ m \in DOMAIN stack
    BY <1>2, <1>3, <1>m, <2>b DEF IsTimeout, Top
  <2>2. /\ IsDeferred(nr) /\ Payouts(nr) = {}
        /\ Top.at = TargetDate(nr) /\ Top.tx.createdAt = Top.at
        /\ Top.anchor = "node" /\ LastDate <= Top.at
    BY <1>3, <2>1 DEF OpenInv, PendingOpen
  <2>3. Top.at \in Nat
    BY <1>1, TopOfStack DEF IInv, Dates
  <2>4. ValidDates(Top.tx, Top.at) /\ ValidAnchor(Top.anchor)
    BY <2>2, <2>3, NumbersAssumption DEF ValidDates, ValidAnchor
  <2>5. Covered(b, Top.tx.createdAt, Top.at)
    BY <2>1 DEF Covered
  <2>6. ~ValidTimeout(b, Top.tx.createdAt)
    BY <1>1, <2>1, <2>4, <2>5, <2>b DEF Valid
  <2>7. LET k == chain[nr].body.to
        IN  BalanceLeft(BalanceChanging(k, TargetDate(nr) - 1), k, TargetDate(nr)) = 0
    BY <2>1, <2>2, <2>6 DEF ValidTimeout
  <2>8. TypeOK /\ AddressesNew /\ AddressesPaid
    BY <1>3 DEF IInv, PaidInv
  <2> QED
    BY <2>2, <2>7, <2>8, FullAddress
<1>4. ASSUME Calculated, NEW nr, Remembered(nr)
      PROVE  Remembered(nr)'
  <2>1. CASE [nr |-> nr, target |-> TargetDate(nr)] \in events
    BY <2>1, <1>1, SameChain DEF Remembered
  <2>2. CASE \E i \in 1..(m - 1) : IsTimeout(i) /\ stack[i].tx.body.nr = nr
    BY <2>2, <1>2 DEF Remembered
  <2>3. CASE Payouts(nr) # {} \/ DecayedDeferred(nr, TargetDate(nr)) = 0
    BY <2>3, <1>1, SameChain, SameChainPaid DEF Remembered
  <2>4. CASE IsTimeout(m) /\ stack[m].tx.body.nr = nr
    BY <2>3, <2>4, <1>3, <1>4
  <2>5. DOMAIN stack = 1..(m - 1) \cup {m}
    BY <1>2
  <2> QED
    BY <1>4, <2>1, <2>2, <2>3, <2>4, <2>5 DEF Remembered
<1> QED
  BY <1>1, <1>4, KeepsPaid

\* A new deferred transfer has a new address.
LEMMA ConfirmAddressesNew ==
    ASSUME IInv, AddressesNew, Confirm
    PROVE  AddressesNew'
<1>n. PICK n : n = Len(chain)
  OBVIOUS
<1>b. PICK b : b = Top.tx.body
  OBVIOUS
<1>1. stack # <<>> /\ Valid(Top)
  BY DEF Confirm
<1>2. /\ n \in Nat /\ DOMAIN chain = 1..n /\ DOMAIN chain' = 1..(n + 1)
      /\ \A i \in 1..n : chain'[i] = chain[i]
      /\ chain'[n + 1].body = b /\ b \in Body
  BY <1>b, <1>n, ConfirmedEntry
<1>3. /\ \A i \in 1..n : IsDeferred(i)' <=> IsDeferred(i)
      /\ IsDeferred(n + 1)' <=> b.type = "deferred"
  BY <1>b, <1>n, ConfirmedPayouts
<1>4. b.type = "deferred" =>
        /\ b.from \notin DeferredKeys /\ 0 < b.timeout
        /\ \A m \in 1..n : IsDeferred(m) => chain[m].body.to # b.to
  <2> SUFFICES ASSUME b.type = "deferred"
               PROVE  /\ b.from \notin DeferredKeys /\ 0 < b.timeout
                      /\ \A m \in 1..n : IsDeferred(m) => chain[m].body.to # b.to
    OBVIOUS
  <2>1. Registered(b.from) /\ AddressType(b.to, MaxTime) = "none"
    BY <1>1, <1>b DEF Valid, ValidDeferred
  <2>2. 0 < b.timeout
    BY <1>1, <1>b, TopOfStack DEF IInv, TimeoutsPositive, Top
  <2> QED
    BY <2>1, <2>2, <1>2, BodyFields, DeferredKeyType DEF IInv
<1> SUFFICES ASSUME NEW m \in 1..(n + 1), IsDeferred(m)'
             PROVE  /\ chain'[m].body.from \notin DeferredKeys
                    /\ 0 < chain'[m].body.timeout
                    /\ \A i \in 1..(n + 1) :
                          IsDeferred(i)' /\ chain'[i].body.to = chain'[m].body.to => m = i
  BY <1>2 DEF AddressesNew
<1>5. CASE m \in 1..n
  <2>1. /\ IsDeferred(m) /\ chain'[m] = chain[m]
        /\ chain[m].body.from \notin DeferredKeys /\ 0 < chain[m].body.timeout
    BY <1>2, <1>3, <1>5 DEF AddressesNew
  <2>2. ASSUME NEW i \in 1..(n + 1), IsDeferred(i)', chain'[i].body.to = chain[m].body.to
        PROVE  m = i
    <3>1. CASE i \in 1..n
      BY <2>1, <2>2, <3>1, <1>2, <1>3, <1>5 DEF AddressesNew
    <3>2. CASE i = n + 1
      BY <2>1, <2>2, <3>2, <1>2, <1>3, <1>4, <1>5
    <3> QED
      BY <3>1, <3>2, <1>2
  <2> QED
    BY <2>1, <2>2
<1>6. CASE m = n + 1
  <2>1. ASSUME NEW i \in 1..n, IsDeferred(i)', chain'[i].body.to = b.to
        PROVE  FALSE
    BY <2>1, <1>2, <1>3, <1>4, <1>6
  <2>2. \A i \in 1..(n + 1) : i \in 1..n \/ i = n + 1
    BY <1>2
  <2> QED
    BY <2>1, <2>2, <1>2, <1>3, <1>4, <1>6
<1> QED
  BY <1>2, <1>5, <1>6

\* A transaction whose balances the node calculates: those of the others were, too.
LEMMA ConfirmCalculated ==
    ASSUME IInv, Confirm, Calculated', NEW n, n = Len(chain), NEW b, b = Top.tx.body
    PROVE  /\ Calculated /\ Top.derivation = "node"
           /\ chain'[n + 1].bal = NodeBalances(b, Top.at)
           /\ Covered(b, Top.tx.createdAt, Top.at)
<1>1. /\ n \in Nat /\ DOMAIN chain = 1..n /\ DOMAIN chain' = 1..(n + 1)
      /\ \A i \in 1..n : chain'[i] = chain[i]
      /\ chain'[n + 1] = ConfirmedTransaction(Top)
  BY ConfirmedEntry
<1>2. \A i \in 1..(n + 1) : chain'[i].derivation = "node"
  BY <1>1 DEF Calculated
<1>3. Calculated
  BY <1>1, <1>2 DEF Calculated
<1>4. Top.derivation = "node"
  <2>1. n + 1 \in 1..(n + 1)
    BY <1>1
  <2> QED
    BY <2>1, <1>1, <1>2 DEF ConfirmedTransaction
<1>5. chain'[n + 1].bal = NodeBalances(b, Top.at)
  BY <1>1, <1>4 DEF ConfirmedTransaction
<1>6. Covered(b, Top.tx.createdAt, Top.at)
  BY <1>4 DEF Confirm, Valid
<1> QED
  BY <1>3, <1>4, <1>5, <1>6

\* The new transaction fills the address it opens, empties the one it pays out, and
\* touches no other.
LEMMA ConfirmAddressesPaid ==
    ASSUME IInv, OpenInv, AddressesNew, AddressesPaid, Confirm, Calculated'
    PROVE  AddressesPaid'
<1>n. PICK n : n = Len(chain)
  OBVIOUS
<1>b. PICK b : b = Top.tx.body
  OBVIOUS
<1>1. stack # <<>> /\ Valid(Top) /\ TypeOK /\ ChainOrdered
  BY DEF Confirm, IInv
<1>2. /\ n \in Nat /\ DOMAIN chain = 1..n /\ DOMAIN chain' = 1..(n + 1)
      /\ \A i \in 1..n : chain'[i] = chain[i]
      /\ chain'[n + 1].body = b /\ b \in Body /\ Top \in Call
  BY <1>b, <1>n, ConfirmedEntry
<1>3. /\ \A i \in 1..n : IsDeferred(i)' <=> IsDeferred(i)
      /\ IsDeferred(n + 1)' <=> b.type = "deferred"
      /\ \A i : IsDeferred(i) => i \in 1..n
      /\ \A i : Payouts(i)' = Payouts(i) \cup
            {x \in {n + 1} : b.type \in {"redeem", "timeout"} /\ b.nr = i}
      /\ \A i : Payouts(i) \subseteq 1..n
  BY <1>b, <1>n, ConfirmedPayouts
<1>4. chain'[n + 1].bal = NodeBalances(b, Top.at)
  BY <1>b, <1>n, ConfirmCalculated
<1>5. ASSUME NEW m \in 1..(n + 1), IsDeferred(m)'
      PROVE  /\ chain'[m].bal[chain'[m].body.to] = chain'[m].body.amount
             /\ \A i \in Payouts(m)' : chain'[i].bal[chain'[m].body.to] = 0
  <2>1. CASE m \in 1..n
    <3>1. IsDeferred(m) /\ chain'[m] = chain[m]
      BY <2>1, <1>2, <1>3, <1>5
    <3>2. chain[m].bal[chain[m].body.to] = chain[m].body.amount
      BY <2>1, <3>1, <1>2 DEF AddressesPaid
    <3>3. \A i \in Payouts(m) : chain[i].bal[chain[m].body.to] = 0 /\ chain'[i] = chain[i]
      BY <2>1, <3>1, <1>2, <1>3 DEF AddressesPaid
    <3>4. b.type \in {"redeem", "timeout"} /\ b.nr = m => chain'[n + 1].bal[chain[m].body.to] = 0
      BY <1>1, <1>2, <1>4, <1>b, PayoutEmpties
    <3> QED
      BY <3>1, <3>2, <3>3, <3>4, <1>3
  <2>2. CASE m = n + 1
    <3>1. b.type = "deferred"
      BY <2>2, <1>3, <1>5
    <3>2. Payouts(m)' = {}
      BY <2>2, <3>1, <1>2, <1>3 DEF OpenInv, PayoutsRefer, Payouts
    <3>3. NodeBalances(b, Top.at)[b.to] = b.amount
      BY <3>1, <1>1, <1>2, <1>b, TransferFills
    <3> QED
      BY <2>2, <3>2, <3>3, <1>2, <1>4
  <2> QED
    BY <2>1, <2>2, <1>2
<1>6. ASSUME NEW i \in 1..(n + 1), NEW k \in DeferredKeys, k \in Changed(i)'
      PROVE  \E m \in 1..(n + 1) :
                IsDeferred(m)' /\ chain'[m].body.to = k /\ (i = m \/ i \in Payouts(m)')
  <2>1. CASE i \in 1..n
    <3>1. k \in Changed(i)
      BY <2>1, <1>2, <1>6 DEF Changed
    <3>2. PICK m \in 1..n : IsDeferred(m) /\ chain[m].body.to = k /\ (i = m \/ i \in Payouts(m))
      BY <2>1, <3>1, <1>2 DEF AddressesPaid
    <3>3. m \in 1..(n + 1)
      BY <1>2
    <3> QED
      BY <3>2, <3>3, <1>2, <1>3
  <2>2. CASE i = n + 1
    <3>1. NodeBalances(b, Top.at)[k] # NoBalance
      BY <2>2, <1>4, <1>6 DEF Changed
    <3>2. CASE b.type = "deferred" /\ k = b.to
      BY <2>2, <3>2, <1>2, <1>3
    <3>3. CASE b.type \in {"redeem", "timeout"} /\ k = chain[b.nr].body.to
      <4>1. IsDeferred(b.nr) /\ b.nr \in 1..n /\ b.nr \in 1..(n + 1)
        BY <3>3, <1>1, <1>2, <1>b, PaidAddress
      <4>2. IsDeferred(b.nr)' /\ chain'[b.nr].body.to = k /\ n + 1 \in Payouts(b.nr)'
        BY <3>3, <4>1, <1>2, <1>3
      <4> QED
        BY <2>2, <4>1, <4>2
    <3> QED
      BY <3>1, <3>2, <3>3, <1>1, <1>2, <1>b, TouchedAddress
  <2> QED
    BY <2>1, <2>2, <1>2
<1> QED
  BY <1>2, <1>5, <1>6 DEF AddressesPaid

\* A second payout is a redeem, of no more than the tolerance: what pays the timeout
\* is unpaid, and what is redeemed again finds an empty address.
LEMMA ConfirmPaidOutOnce ==
    ASSUME IInv, OpenInv, AddressesNew, AddressesPaid, PaidOutOnce, Confirm, Calculated'
    PROVE  PaidOutOnce'
<1>n. PICK n : n = Len(chain)
  OBVIOUS
<1>b. PICK b : b = Top.tx.body
  OBVIOUS
<1>1. stack # <<>> /\ Valid(Top) /\ TypeOK /\ ChainOrdered
  BY DEF Confirm, IInv
<1>2. /\ n \in Nat /\ DOMAIN chain = 1..n /\ DOMAIN chain' = 1..(n + 1)
      /\ \A i \in 1..n : chain'[i] = chain[i]
      /\ chain'[n + 1].body = b /\ b \in Body
      /\ Top.at \in Dates /\ Top.tx.createdAt \in Dates
  BY <1>b, <1>n, ConfirmedEntry
<1>3. /\ \A i : Payouts(i)' = Payouts(i) \cup
            {x \in {n + 1} : b.type \in {"redeem", "timeout"} /\ b.nr = i}
      /\ \A i : Payouts(i) \subseteq 1..n
  BY <1>b, <1>n, ConfirmedPayouts
<1>4. Covered(b, Top.tx.createdAt, Top.at)
  BY <1>b, <1>n, ConfirmCalculated
<1> SUFFICES ASSUME NEW nr \in 1..(n + 1), NEW i \in Payouts(nr)', NEW j \in Payouts(nr)', i < j
             PROVE  chain'[j].body.type = "redeem" /\ chain'[j].body.amount <= Tolerance
  BY <1>2 DEF PaidOutOnce
<1>5. i \in Payouts(nr) /\ i \in 1..n /\ (j \in Payouts(nr) \/ j = n + 1)
  BY <1>2, <1>3
<1>6. PayoutsRefer /\ PendingOpen
  BY DEF OpenInv
<1>7. nr \in 1..n /\ IsDeferred(nr)
  <2>1. IsDeferred(nr)
    BY <1>2, <1>5, <1>6 DEF PayoutsRefer, Payouts
  <2> QED
    BY <2>1, <1>2 DEF IsDeferred
<1>8. CASE j \in Payouts(nr)
  <2>1. j \in 1..n
    BY <1>3, <1>8
  <2> QED
    BY <2>1, <1>2, <1>5, <1>7, <1>8 DEF PaidOutOnce
<1>9. CASE j = n + 1
  <2>1. b.type \in {"redeem", "timeout"} /\ b.nr = nr
    BY <1>2, <1>3, <1>9
  <2>2. b.type = "redeem"
    <3>1. b.type = "timeout" => Payouts(nr) = {}
      BY <2>1, <1>1, <1>6, <1>b, TopOfStack DEF PendingOpen, IsTimeout, Top
    <3> QED
      BY <2>1, <3>1, <1>5
  <2>d. PICK date : date = Top.tx.createdAt + MaxDelay
    OBVIOUS
  <2>3. b.amount <= FromEnd(b.from, date) + Tolerance
    BY <2>2, <2>d, <1>4 DEF Covered, ValidPrevious
  <2>4. b.from = chain[nr].body.to
    BY <2>1, <2>2, <1>1, <1>b DEF Valid, ValidRedeem
  <2>5. date \in 0..(MaxTime + MaxDelay) /\ Top.at <= date
    <3>1. chain # <<>>
      BY <1>2, <1>5
    <3>2. Top.at - Top.tx.createdAt <= MaxDelay
      BY <3>1, <1>1 DEF Valid, ValidDates
    <3> QED
      BY <3>2, <2>d, <1>2, NumbersAssumption, SMTT(40) DEF Dates
  <2>6. chain[i].at <= date
    <3>1. chain[i].at <= LastDate /\ chain[i].at \in Dates /\ LastDate \in Dates
      BY <1>1, <1>2, <1>5, LastDateIsLatest, EntryOfChain
    <3>2. LastDate <= Top.at
      BY <1>1 DEF Valid, ValidDates
    <3> QED
      BY <3>1, <3>2, <2>5, <1>2, NumbersAssumption DEF Dates
  <2>7. FromEnd(b.from, date) = 0
    BY <2>4, <2>5, <2>6, <1>1, <1>5, <1>6, <1>7, EmptyAddress
  <2>8. b.amount <= Tolerance
    BY <2>2, <2>3, <2>7, <1>2, BodyFields, NumbersAssumption
  <2> QED
    BY <2>2, <2>8, <1>2, <1>9
<1> QED
  BY <1>5, <1>8, <1>9

\* A confirmation waits for the timeout of its own deferred transfer, and is the
\* payout of what it takes an event or a call away from.
LEMMA ConfirmNoneForgotten ==
    ASSUME IInv, OpenInv, NoneForgotten, Confirm
    PROVE  NoneForgotten'
<1>n. PICK n : n = Len(chain)
  OBVIOUS
<1>m. PICK m : m = Len(stack)
  OBVIOUS
<1>b. PICK b : b = Top.tx.body
  OBVIOUS
<1>1. stack # <<>> /\ stack' = Pop /\ events' = PastAddToBlockchain(b, n + 1, Top.at)
  BY <1>b, <1>n DEF Confirm
<1>2. /\ n \in Nat /\ DOMAIN chain = 1..n /\ DOMAIN chain' = 1..(n + 1)
      /\ \A i \in 1..n : chain'[i] = chain[i]
      /\ chain'[n + 1].body = b /\ chain'[n + 1].at = Top.at
  BY <1>b, <1>n, ConfirmedEntry
<1>3. /\ \A i \in 1..n : (IsDeferred(i)' <=> IsDeferred(i)) /\ TargetDate(i)' = TargetDate(i)
      /\ IsDeferred(n + 1)' <=> b.type = "deferred"
      /\ \A i : Payouts(i)' = Payouts(i) \cup
            {x \in {n + 1} : b.type \in {"redeem", "timeout"} /\ b.nr = i}
  BY <1>b, <1>n, ConfirmedPayouts
<1>4. /\ m \in Nat \ {0} /\ DOMAIN stack = 1..m /\ DOMAIN stack' = 1..(m - 1)
      /\ \A i \in 1..(m - 1) : stack'[i] = stack[i]
      /\ \A i \in 1..(m - 1) : IsTimeout(i)' <=> IsTimeout(i)
  BY <1>1, <1>m, Popped
<1> SUFFICES ASSUME NEW nr \in 1..(n + 1), IsDeferred(nr)', nr > FirstDeferredNr
             PROVE  Remembered(nr)'
  BY <1>2 DEF NoneForgotten
<1>5. CASE nr = n + 1
  <2>1. TargetDate(nr)' = Top.at + b.timeout /\ b.type = "deferred"
    BY <1>2, <1>3, <1>5 DEF TargetDate
  <2>2. [nr |-> n + 1, target |-> Top.at + b.timeout] \in events'
    BY <2>1, <1>1 DEF PastAddToBlockchain
  <2> QED
    BY <2>1, <2>2, <1>5 DEF Remembered
<1>6. CASE nr \in 1..n
  <2>1. Remembered(nr) /\ TargetDate(nr)' = TargetDate(nr)
    BY <1>2, <1>3, <1>6 DEF NoneForgotten
  <2>2. CASE b.type \in {"redeem", "timeout"} /\ b.nr = nr
    BY <2>2, <1>3 DEF Remembered
  <2>3. CASE [nr |-> nr, target |-> TargetDate(nr)] \in events /\ ~(b.type = "redeem" /\ b.nr = nr)
    <3>1. [nr |-> nr, target |-> TargetDate(nr)] \in events'
      <4>1. CASE b.type = "deferred"
        BY <4>1, <2>3, <1>1 DEF PastAddToBlockchain
      <4>2. CASE b.type = "redeem"
        <5>1. [nr |-> nr, target |-> TargetDate(nr)] # [nr |-> b.nr, target |-> TargetDate(b.nr)]
          BY <4>2, <2>3
        <5> QED
          BY <4>2, <5>1, <2>3, <1>1 DEF PastAddToBlockchain
      <4>3. CASE b.type \notin {"deferred", "redeem"}
        BY <4>3, <2>3, <1>1 DEF PastAddToBlockchain
      <4> QED
        BY <4>1, <4>2, <4>3
    <3> QED
      BY <3>1, <2>1 DEF Remembered
  <2>4. CASE Payouts(nr) # {}
    BY <2>4, <1>3 DEF Remembered
  <2>5. CASE DecayedDeferred(nr, TargetDate(nr)) = 0
    <3>1. DecayedDeferred(nr, TargetDate(nr))' = DecayedDeferred(nr, TargetDate(nr))
      BY <2>1, <1>2, <1>6 DEF DecayedDeferred
    <3> QED
      BY <3>1, <2>5 DEF Remembered
  <2>6. CASE \E i \in DOMAIN stack : IsTimeout(i) /\ stack[i].tx.body.nr = nr
    <3>1. PICK i \in 1..m : IsTimeout(i) /\ stack[i].tx.body.nr = nr
      BY <2>6, <1>4
    <3>2. CASE i = m
      <4>1. b.type = "timeout" /\ b.nr = nr
        BY <3>1, <3>2, <1>b, <1>m DEF IsTimeout, Top
      <4> QED
        BY <4>1, <2>2
    <3>3. CASE i \in 1..(m - 1)
      BY <3>1, <3>3, <1>4 DEF Remembered
    <3> QED
      BY <3>2, <3>3, <1>4
  <2> QED
    BY <2>1, <2>2, <2>3, <2>4, <2>5, <2>6 DEF Remembered
<1> QED
  BY <1>2, <1>5, <1>6

\* A confirmed call, whichever its role.
LEMMA ConfirmPaid ==
    ASSUME IInv, OpenInv, PaidInv, Confirm
    PROVE  PaidInv'
<1>1. AddressesNew'
  BY ConfirmAddressesNew DEF PaidInv
<1>2. ASSUME Calculated' PROVE AddressesPaid' /\ PaidOutOnce' /\ NoneForgotten'
  <2>1. Calculated
    BY <1>2, ConfirmCalculated
  <2>2. AddressesNew /\ AddressesPaid /\ PaidOutOnce /\ NoneForgotten
    BY <2>1 DEF PaidInv
  <2>3. AddressesPaid'
    BY <2>2, <1>2, ConfirmAddressesPaid
  <2>4. PaidOutOnce'
    BY <2>2, <1>2, ConfirmPaidOutOnce
  <2>5. NoneForgotten'
    BY <2>2, ConfirmNoneForgotten
  <2> QED
    BY <2>3, <2>4, <2>5
<1> QED
  BY <1>1, <1>2 DEF PaidInv

\* PaidInv is an invariant if no client hands over a timeout.
LEMMA PaidInvariant ==
    ASSUME NoTimeoutCalls
    PROVE  Spec => []PaidInv
<1>1. Init => PaidInv
  BY DEF Init, PaidInv, AddressesNew, AddressesPaid, PaidOutOnce, NoneForgotten
<1>2. IInv /\ OpenInv /\ PaidInv /\ [Next]_vars => PaidInv'
  <2> SUFFICES ASSUME IInv, OpenInv, PaidInv, [Next]_vars PROVE PaidInv'
    OBVIOUS
  <2>1. CASE \E c \in Calls : Submit(c)
    BY <2>1, SubmitPaid
  <2>2. CASE \E e \in events : Trigger(e)
    BY <2>2, TriggerPaid
  <2>3. CASE \E e \in events : TriggerFails(e)
    BY <2>3, TriggerFailsPaid
  <2>4. CASE Confirm
    BY <2>4, ConfirmPaid
  <2>5. CASE Refuse
    BY <2>5, RefusePaid
  <2>6. CASE UNCHANGED vars
    <3>1. chain' = chain /\ events' = events /\ stack' = stack
      BY <2>6 DEF vars
    <3>2. \A nr : Remembered(nr) => Remembered(nr)'
      BY <3>1, SameChain, SameChainPaid DEF Remembered, IsTimeout
    <3> QED
      BY <3>1, <3>2, KeepsPaid
  <2> QED
    BY <2>1, <2>2, <2>3, <2>4, <2>5, <2>6 DEF Next, CallStep
<1> QED
  BY <1>1, <1>2, InductiveInvariant, OpenInvariant, PTL DEF Spec

\* In a history the node has calculated itself, a deferred transfer is paid out once,
\* up to a redeem within the tolerance, and its address is filled once and emptied by
\* the payout (GradidoTransferRole::validatePrevious, the roles of confirmTransaction):
\* for any calls, dates and decay, as long as timeouts come from the node alone.
THEOREM DeferredPaidOutOnce ==
    ASSUME NoTimeoutCalls
    PROVE  Spec => []CheckedPaidOutOnce
<1>1. IInv /\ PaidInv => CheckedPaidOutOnce
  <2> SUFFICES ASSUME TypeOK, AddressesNew, AddressesPaid PROVE DeferredAddressUsedOnce
    BY DEF IInv, PaidInv, CheckedPaidOutOnce
  <2> SUFFICES ASSUME NEW nr \in DOMAIN chain, IsDeferred(nr), NEW i \in DOMAIN chain \ {nr},
                      chain[nr].body.to \in Changed(i)
               PROVE  i \in Payouts(nr) /\ chain[i].bal[chain[nr].body.to] = 0
    BY DEF DeferredAddressUsedOnce
  <2>1. chain[nr].body.to \in DeferredKeys
    BY EntryOfChain, BodyFields DEF IsDeferred
  <2>2. i \in Payouts(nr)
    BY <2>1, AddressHistory
  <2> QED
    BY <2>2 DEF AddressesPaid
<1> QED
  BY <1>1, InductiveInvariant, PaidInvariant, PTL

\* No deferred transfer is lost: an event that processTransactionTrigger takes out is
\* followed by the timeout it stands for, unless nothing is left to pay.  An import may
\* bring an address that is empty from the start, so the balances are calculated ones.
THEOREM NoDeferredLost ==
    ASSUME NoTimeoutCalls
    PROVE  Spec => [](Calculated => DeferredNotLost)
<1>1. PaidInv => (Calculated => DeferredNotLost)
  BY DEF PaidInv, NoneForgotten, Remembered, DeferredNotLost
<1> QED
  BY <1>1, PaidInvariant, PTL

-----------------------------------------------------------------------------
(* What a confirmed transaction adds to the sum of the balances. *)

\* What the entries up to the last one added does not change when another is appended.
LEMMA OldMinted ==
    ASSUME IInv, Confirm, NEW i \in DOMAIN chain
    PROVE  Minted(i)' = Minted(i)
<1>n. PICK n : n = Len(chain)
  OBVIOUS
<1>1. /\ n \in Nat /\ DOMAIN chain = 1..n /\ DOMAIN chain' = 1..(n + 1)
      /\ \A j \in 1..n : chain'[j] = chain[j]
  BY <1>n, ConfirmedEntry
<1>2. i \in 1..n /\ chain'[i] = chain[i]
  BY <1>1
<1>3. \A k \in Keys : LeftBefore(i, k)' = LeftBefore(i, k)
  <2> TAKE k \in Keys
  <2>S. PICK S : S = {j \in BalanceChanging(k, chain[i].at) : j < i}
    OBVIOUS
  <2>1. S \subseteq 1..n
    BY <2>S, <1>1 DEF BalanceChanging
  <2>a. PICK at : at = chain[i].at
    OBVIOUS
  <2>2. {j \in BalanceChanging(k, at)' : j < i} = S
    <3>1. \A j \in 1..n : Changed(j)' = Changed(j)
      BY <1>1 DEF Changed
    <3>2. \A j \in 1..(n + 1) : j < i => j \in 1..n
      BY <1>1, <1>2
    <3> QED
      BY <3>1, <3>2, <2>S, <2>a, <1>1 DEF BalanceChanging
  <2>3. S # {} => chain'[Max(S)] = chain[Max(S)]
    BY <2>1, <1>1, MaxOfPositions
  <2>4. LeftBefore(i, k) = BalanceLeft(S, k, at)
    BY <2>S, <2>a DEF LeftBefore
  <2>5. LeftBefore(i, k)' = BalanceLeft(S, k, at)'
    BY <2>2, <2>a, <1>2 DEF LeftBefore
  <2> QED
    BY <2>3, <2>4, <2>5, <1>2 DEF BalanceLeft
<1>4. Changed(i)' = Changed(i)
  BY <1>2 DEF Changed
<1>5. [k \in Keys |-> chain'[i].bal[k] - LeftBefore(i, k)'] = [k \in Keys |-> chain[i].bal[k] - LeftBefore(i, k)]
  BY <1>2, <1>3
<1> QED
  BY <1>4, <1>5 DEF Minted

\* What a key had before the new entry is what confirmTransaction has found.
LEMMA NewLeftBefore ==
    ASSUME IInv, Confirm, NEW n, n = Len(chain), NEW k \in Keys
    PROVE  LeftBefore(n + 1, k)' = FromEnd(k, Top.at)
<1>b. PICK b : b = Top.tx.body
  OBVIOUS
<1>S. PICK S : S = BalanceChanging(k, Top.at)
  OBVIOUS
<1>1. /\ n \in Nat /\ DOMAIN chain = 1..n /\ DOMAIN chain' = 1..(n + 1)
      /\ \A j \in 1..n : chain'[j] = chain[j]
      /\ chain'[n + 1].at = Top.at
  BY <1>b, ConfirmedEntry
<1>2. S \subseteq 1..n
  BY <1>S, <1>1 DEF BalanceChanging
<1>a. PICK at : at = Top.at
  OBVIOUS
<1>3. {j \in BalanceChanging(k, at)' : j < n + 1} = S
  <2>1. \A j \in 1..n : j < n + 1 /\ j \in 1..(n + 1)
    BY <1>1
  <2>2. \A j \in 1..(n + 1) : j < n + 1 => j \in 1..n
    BY <1>1
  <2>3. \A j \in 1..n : Changed(j)' = Changed(j)
    BY <1>1 DEF Changed
  <2> QED
    BY <2>1, <2>2, <2>3, <1>S, <1>1, <1>a DEF BalanceChanging
<1>4. S # {} => chain'[Max(S)] = chain[Max(S)]
  BY <1>2, <1>1, MaxOfPositions
<1>5. LeftBefore(n + 1, k)' = BalanceLeft(S, k, at)'
  BY <1>3, <1>1, <1>a DEF LeftBefore
<1>6. FromEnd(k, at) = BalanceLeft(S, k, at)
  BY <1>S, <1>a DEF FromEnd
<1> QED
  BY <1>4, <1>5, <1>6, <1>a DEF BalanceLeft

\* The new entry adds, for each key its role has calculated, the new balance less
\* what the key had.
LEMMA NewMinted ==
    ASSUME IInv, Confirm, Calculated', NEW n, n = Len(chain), NEW b, b = Top.tx.body,
           NEW new, new = CalculateAccountBalances(b, Top.at), NEW D, D = DOMAIN new, D \subseteq Keys
    PROVE  \E f : /\ Minted(n + 1)' = SumFunctionOnSet(f, D)
                  /\ \A k \in D :
                        /\ new[k] \in Nat /\ FromEnd(k, Top.at) \in Nat
                        /\ f[k] = new[k] - FromEnd(k, Top.at) /\ f[k] \in Int
<1>1. stack # <<>> /\ Valid(Top) /\ TypeOK /\ ChainOrdered
  BY DEF Confirm, IInv
<1>2. Top \in Call /\ Top.at \in Dates
  BY ConfirmedEntry
<1>3. \A k \in D : new[k] \in Nat
  BY <1>1, <1>2, BalancesAreNat
<1>4. \A k \in D : FromEnd(k, Top.at) \in Nat
  BY <1>1, <1>2, FromEndIsNat
<1>5. chain'[n + 1].bal = [k \in Keys |-> IF k \in D THEN new[k] ELSE NoBalance]
  BY ConfirmCalculated DEF NodeBalances
<1>6. Changed(n + 1)' = D
  <2>1. \A k \in Keys : chain'[n + 1].bal[k] # NoBalance <=> k \in D
    BY <1>3, <1>5 DEF NoBalance
  <2> QED
    BY <2>1 DEF Changed
<1>7. PICK f : f = [k \in Keys |-> chain'[n + 1].bal[k] - LeftBefore(n + 1, k)']
  OBVIOUS
<1>8. Minted(n + 1)' = SumFunctionOnSet(f, D)
  BY <1>6, <1>7 DEF Minted
<1>9. \A k \in D : f[k] = new[k] - FromEnd(k, Top.at)
  BY <1>5, <1>7, NewLeftBefore
<1>10. \A k \in D : f[k] \in Int
  BY <1>3, <1>4, <1>9
<1> QED
  BY <1>3, <1>4, <1>8, <1>9, <1>10

\* A human's key is not one of the community.
LEMMA HumanKey ==
    ASSUME TypeOK, chain # <<>>, NEW k, AddressType(k, MaxTime) = "human"
    PROVE  k \notin {GmwKey, AufKey}
<1> SUFFICES ASSUME k \in {GmwKey, AufKey} PROVE FALSE
  OBVIOUS
<1> DEFINE history == {chain[i].body : i \in {j \in DOMAIN chain : chain[j].at <= MaxTime}}
<1>1. 1 \in DOMAIN chain
  BY DEF TypeOK
<1>2. \A i \in DOMAIN chain : chain[i].body \in Body /\ chain[i].at <= MaxTime
  BY EntryOfChain DEF Dates
<1>3. history # {} /\ history \subseteq Body
  BY <1>1, <1>2
<1>4. k \notin Users /\ k \notin Accounts /\ k \notin DeferredKeys
  BY KeysAssumption
<1>5. \A b \in history : /\ b.type = "register" => b.from # k /\ b.to # k
                         /\ b.type = "deferred" => b.to # k
  BY <1>3, <1>4, BodyFields
<1>6. AddressType(k, MaxTime) =
        CASE k \in {GmwKey, AufKey} /\ history # {} -> "community"
          [] \E b \in history : b.type = "register" /\ k \in {b.from, b.to} -> "human"
          [] \E b \in history : b.type = "deferred" /\ k = b.to -> "deferred"
          [] OTHER -> "none"
  BY DEF AddressType
<1> HIDE DEF history
<1>7. AddressType(k, MaxTime) = "community"
  BY <1>3, <1>5, <1>6
<1> QED
  BY <1>7

\* Nothing was before the first transaction; a registration leaves its account empty.
LEMMA FoundingMinted ==
    ASSUME IInv, Confirm, Calculated', NEW n, n = Len(chain), NEW b, b = Top.tx.body
    PROVE  /\ b.type = "root" => Minted(n + 1)' = 0
           /\ b.type = "register" => Minted(n + 1)' <= 0
<1>1. Valid(Top) /\ TypeOK
  BY DEF Confirm, IInv
<1>2. b \in Body
  BY ConfirmedEntry
<1>new. PICK new : new = CalculateAccountBalances(b, Top.at)
  OBVIOUS
<1>3. ASSUME b.type = "root" PROVE Minted(n + 1)' = 0
  <2>1. new = [k \in {GmwKey, AufKey} |-> 0]
    BY <1>3, <1>new DEF CalculateAccountBalances, CommunityRootBalances
  <2>D. PICK D : D = {GmwKey, AufKey}
    OBVIOUS
  <2>2. D = DOMAIN new /\ D \subseteq Keys
    BY <2>1, <2>D DEF Keys
  <2>f. PICK f : /\ Minted(n + 1)' = SumFunctionOnSet(f, D)
                 /\ \A k \in D : f[k] = new[k] - FromEnd(k, Top.at) /\ f[k] \in Int
    BY <2>2, <1>new, NewMinted
  <2>3. /\ f[GmwKey] = new[GmwKey] - FromEnd(GmwKey, Top.at) /\ f[GmwKey] \in Int
        /\ f[AufKey] = new[AufKey] - FromEnd(AufKey, Top.at) /\ f[AufKey] \in Int
    BY <2>D, <2>f
  <2>4. chain = <<>>
    BY <1>1, <1>3 DEF Valid
  <2>5. \A k \in {GmwKey, AufKey} : FromEnd(k, Top.at) = 0
    BY <2>4 DEF FromEnd, BalanceLeft, BalanceChanging
  <2>6. f[GmwKey] = 0 /\ f[AufKey] = 0
    BY <2>1, <2>3, <2>5
  <2>7. SumFunctionOnSet(f, {GmwKey, AufKey}) = f[GmwKey] + f[AufKey]
    BY <2>3, SumOfTwo, KeysAssumption
  <2> QED
    BY <2>f, <2>D, <2>6, <2>7
<1>4. ASSUME b.type = "register" PROVE Minted(n + 1)' <= 0
  <2>1. new = [k \in {b.to} |-> 0] /\ b.to \in Keys
    BY <1>2, <1>4, <1>new, BodyFields DEF CalculateAccountBalances, RegisterBalances, Keys
  <2>2. DOMAIN new \subseteq Keys /\ DOMAIN new = {b.to}
    BY <2>1
  <2>3. PICK f : /\ Minted(n + 1)' = SumFunctionOnSet(f, {b.to})
                 /\ \A k \in {b.to} : /\ FromEnd(k, Top.at) \in Nat
                                      /\ f[k] = new[k] - FromEnd(k, Top.at) /\ f[k] \in Int
    BY <2>2, <1>new, NewMinted
  <2>4. SumFunctionOnSet(f, {b.to}) = f[b.to]
    BY <2>3, SumOfOne
  <2>5. f[b.to] <= 0
    BY <2>1, <2>3
  <2> QED
    BY <2>3, <2>4, <2>5
<1> QED
  BY <1>3, <1>4

\* A creation gives its amount to three different accounts.
LEMMA CreationMinted ==
    ASSUME IInv, Confirm, Calculated', NEW n, n = Len(chain), NEW b, b = Top.tx.body,
           b.type = "creation"
    PROVE  Minted(n + 1)' = 3 * b.amount
<1>1. Valid(Top) /\ TypeOK
  BY DEF Confirm, IInv
<1>2. b \in Body /\ b.to \in Keys /\ b.amount \in Nat
  BY ConfirmedEntry, BodyFields
<1>new. PICK new : new = CalculateAccountBalances(b, Top.at)
  OBVIOUS
<1>3. new = [k \in {b.to, GmwKey, AufKey} |-> AccountBalance(k, b.amount, Top.at)]
  BY <1>new DEF CalculateAccountBalances, CreationBalances
<1>D. PICK D : D = {b.to, GmwKey, AufKey}
  OBVIOUS
<1>4. D = DOMAIN new /\ D \subseteq Keys
  BY <1>2, <1>3, <1>D DEF Keys
<1>5. PICK f : /\ Minted(n + 1)' = SumFunctionOnSet(f, D)
               /\ \A k \in D : /\ FromEnd(k, Top.at) \in Nat
                               /\ f[k] = new[k] - FromEnd(k, Top.at) /\ f[k] \in Int
  BY <1>4, <1>new, NewMinted
<1>6. chain # <<>> /\ AddressType(b.to, MaxTime) = "human"
  BY <1>1 DEF Valid, ValidCreation
<1>7. b.to # GmwKey /\ b.to # AufKey /\ GmwKey # AufKey
  BY <1>1, <1>6, HumanKey, KeysAssumption
<1>8. ASSUME NEW k \in D PROVE f[k] = b.amount
  <2>1. new[k] = AccountBalance(k, b.amount, Top.at) /\ FromEnd(k, Top.at) \in Nat
    BY <1>3, <1>5, <1>8, <1>D
  <2>2. new[k] = FromEnd(k, Top.at) + b.amount
    BY <2>1, <1>2 DEF AccountBalance
  <2> QED
    BY <2>1, <2>2, <1>2, <1>5, <1>8
<1>9. f[b.to] = b.amount /\ f[GmwKey] = b.amount /\ f[AufKey] = b.amount
  BY <1>8, <1>D
<1>10. SumFunctionOnSet(f, {GmwKey, AufKey}) = f[GmwKey] + f[AufKey]
  <2>1. f[GmwKey] \in Int /\ f[AufKey] \in Int
    BY <1>5, <1>D
  <2> QED
    BY <2>1, <1>7, SumOfTwo
<1>11. SumFunctionOnSet(f, D) = f[b.to] + SumFunctionOnSet(f, {GmwKey, AufKey})
  <2>1. b.to \in D /\ D \ {b.to} = {GmwKey, AufKey}
    BY <1>7, <1>D
  <2>2. IsFiniteSet(D)
    BY <1>D, TripleIsFinite
  <2> QED
    BY <2>1, <2>2, <1>5, SumRemove
<1> QED
  BY <1>2, <1>5, <1>9, <1>10, <1>11

\* What a sender cannot cover, up to the tolerance, is all that a transfer adds.
LEMMA TransferMinted ==
    ASSUME IInv, Confirm, Calculated', NEW n, n = Len(chain), NEW b, b = Top.tx.body,
           b.type \in {"transfer", "deferred"}, b.from # b.to
    PROVE  Minted(n + 1)' \in 0..Tolerance
<1>1. Valid(Top) /\ TypeOK
  BY DEF Confirm, IInv
<1>2. b \in Body /\ b.from \in Keys /\ b.to \in Keys /\ b.amount \in Nat
  BY ConfirmedEntry, BodyFields
<1>new. PICK new : new = CalculateAccountBalances(b, Top.at)
  OBVIOUS
<1>3. new = TransferBalances(b, Top.at)
  BY <1>new DEF CalculateAccountBalances
<1>D. PICK D : D = {b.from, b.to}
  OBVIOUS
<1>4. /\ D = DOMAIN new /\ D \subseteq Keys
      /\ new[b.from] = AccountBalance(b.from, -b.amount, Top.at)
      /\ new[b.to] = AccountBalance(b.to, b.amount, Top.at)
  BY <1>2, <1>3, <1>D DEF TransferBalances
<1>f. PICK f : /\ Minted(n + 1)' = SumFunctionOnSet(f, D)
               /\ \A k \in D : /\ FromEnd(k, Top.at) \in Nat
                               /\ f[k] = new[k] - FromEnd(k, Top.at) /\ f[k] \in Int
  BY <1>4, <1>new, NewMinted
<1>5. /\ Minted(n + 1)' = SumFunctionOnSet(f, {b.from, b.to})
      /\ FromEnd(b.from, Top.at) \in Nat /\ FromEnd(b.to, Top.at) \in Nat
      /\ f[b.from] = new[b.from] - FromEnd(b.from, Top.at) /\ f[b.from] \in Int
      /\ f[b.to] = new[b.to] - FromEnd(b.to, Top.at) /\ f[b.to] \in Int
  BY <1>f, <1>D
<1>6. b.amount <= FromEnd(b.from, Top.at) + Tolerance
  <2>1. ~Uncovered(b.from, -b.amount, Top.at)
    BY ConfirmCalculated DEF Covered
  <2>2. ~(FromEnd(b.from, Top.at) + (-b.amount) + Tolerance < 0)
    BY <2>1 DEF Uncovered
  <2>3. \A x, y, z \in Nat : ~(x + (-y) + z < 0) => y <= x + z
    OBVIOUS
  <2> QED
    BY <2>2, <2>3, <1>2, <1>5, NumbersAssumption
<1>7. SumFunctionOnSet(f, {b.from, b.to}) = f[b.from] + f[b.to]
  BY <1>5, SumOfTwo
<1>8. f[b.to] = b.amount
  BY <1>2, <1>4, <1>5 DEF AccountBalance
<1>9. f[b.from] = IF FromEnd(b.from, Top.at) < b.amount THEN -FromEnd(b.from, Top.at) ELSE -b.amount
  BY <1>2, <1>4, <1>5, SMTT(40) DEF AccountBalance
<1> QED
  BY <1>2, <1>5, <1>6, <1>7, <1>8, <1>9, NumbersAssumption

\* Until it is paid out, the address of a deferred transfer has what is left of it.
LEMMA UnpaidAddress ==
    ASSUME TypeOK, AddressesNew, AddressesPaid,
           NEW nr, IsDeferred(nr), Payouts(nr) = {}, NEW date, chain[nr].at <= date
    PROVE  FromEnd(chain[nr].body.to, date) = DecayedDeferred(nr, date)
<1>k. PICK k : k = chain[nr].body.to
  OBVIOUS
<1>S. PICK S : S = BalanceChanging(k, date)
  OBVIOUS
<1>1. nr \in DOMAIN chain /\ chain[nr].body.type = "deferred"
  BY DEF IsDeferred
<1>2. k \in DeferredKeys /\ k \in Keys /\ chain[nr].body.amount \in Nat
  BY <1>1, <1>k, EntryOfChain, BodyFields DEF Keys
<1>3. chain[nr].bal[k] = chain[nr].body.amount
  BY <1>1, <1>k DEF AddressesPaid
<1>4. k \in Changed(nr)
  BY <1>2, <1>3 DEF Changed, NoBalance
<1>5. nr \in S
  BY <1>1, <1>4, <1>S DEF BalanceChanging
<1>6. \A i \in S : i = nr
  BY <1>2, <1>k, <1>S, AddressHistory DEF BalanceChanging
<1>7. S \subseteq 1..Len(chain) /\ Len(chain) \in Nat
  BY <1>S DEF BalanceChanging, TypeOK
<1>8. Max(S) = nr
  BY <1>5, <1>6, <1>7, MaxOfPositions
<1> QED
  BY <1>3, <1>5, <1>8, <1>k, <1>S DEF FromEnd, BalanceLeft, DecayedDeferred

\* What the first payout of a deferred transfer finds: the address with what is left.
LEMMA FirstPayout ==
    ASSUME IInv, AddressesNew, AddressesPaid, Confirm, NEW b, b = Top.tx.body,
           b.type \in {"redeem", "timeout"}, Payouts(b.nr) = {}
    PROVE  /\ chain[b.nr].body.to \in Keys /\ chain[b.nr].body.from \in Keys
           /\ chain[b.nr].body.to # chain[b.nr].body.from
           /\ b.type = "redeem" => b.from = chain[b.nr].body.to /\ b.to # b.from
           /\ FromEnd(chain[b.nr].body.to, Top.at) = DecayedDeferred(b.nr, Top.at)
           /\ DecayedDeferred(b.nr, Top.at) \in Nat
<1>1. stack # <<>> /\ Valid(Top) /\ TypeOK /\ ChainOrdered
  BY DEF Confirm, IInv
<1>2. Top \in Call /\ Top.at \in Dates
  BY ConfirmedEntry
<1>3. /\ IsDeferred(b.nr) /\ b.nr \in DOMAIN chain /\ chain[b.nr].body.type = "deferred"
      /\ chain[b.nr].body.to \in DeferredKeys /\ chain[b.nr].body.from \notin DeferredKeys
      /\ b.type = "redeem" => b.from = chain[b.nr].body.to /\ b.to \notin DeferredKeys
  BY <1>1, <1>2, PaidAddress DEF IsDeferred
<1>4. chain[b.nr].body.to \in Keys /\ chain[b.nr].body.from \in Keys
  BY <1>1, <1>3, EntryOfChain, BodyFields
<1>5. chain[b.nr].at <= Top.at
  <2>1. chain[b.nr].at <= LastDate /\ LastDate \in Dates /\ chain[b.nr].at \in Dates
    BY <1>1, <1>3, LastDateIsLatest, EntryOfChain
  <2>2. LastDate <= Top.at
    BY <1>1 DEF Valid, ValidDates
  <2> QED
    BY <2>1, <2>2, <1>2, NumbersAssumption DEF Dates
<1>6. FromEnd(chain[b.nr].body.to, Top.at) = DecayedDeferred(b.nr, Top.at)
  BY <1>1, <1>3, <1>5, UnpaidAddress
<1>7. FromEnd(chain[b.nr].body.to, Top.at) \in Nat
  BY <1>1, <1>2, <1>4, FromEndIsNat
<1> QED
  BY <1>3, <1>4, <1>6, <1>7

\* A timeout gives back what the address had.
LEMMA TimeoutMinted ==
    ASSUME IInv, OpenInv, AddressesNew, AddressesPaid, Confirm, Calculated',
           NEW n, n = Len(chain), NEW b, b = Top.tx.body, b.type = "timeout"
    PROVE  Minted(n + 1)' = 0
<1>1. Payouts(b.nr) = {}
  <2>1. stack # <<>> /\ TypeOK
    BY DEF Confirm, IInv
  <2> QED
    BY <2>1, TopOfStack DEF OpenInv, PendingOpen, IsTimeout, Top
<1>k. PICK address, owner, left :
          /\ address = chain[b.nr].body.to /\ owner = chain[b.nr].body.from
          /\ left = DecayedDeferred(b.nr, Top.at)
  OBVIOUS
<1>2. /\ address \in Keys /\ owner \in Keys /\ address # owner
      /\ FromEnd(address, Top.at) = left /\ left \in Nat
  BY <1>1, <1>k, FirstPayout
<1>new. PICK new : new = CalculateAccountBalances(b, Top.at)
  OBVIOUS
<1>3. new = TimeoutBalances(b, Top.at)
  BY <1>new DEF CalculateAccountBalances
<1>D. PICK D : D = {owner, address}
  OBVIOUS
<1>4. /\ D = DOMAIN new /\ D \subseteq Keys
      /\ new[address] = 0
      /\ new[owner] = AccountBalance(owner, left, Top.at)
  BY <1>2, <1>3, <1>D, <1>k DEF TimeoutBalances
<1>f. PICK f : /\ Minted(n + 1)' = SumFunctionOnSet(f, D)
               /\ \A k \in D : /\ FromEnd(k, Top.at) \in Nat
                               /\ f[k] = new[k] - FromEnd(k, Top.at) /\ f[k] \in Int
  BY <1>4, <1>new, NewMinted
<1>5. /\ Minted(n + 1)' = SumFunctionOnSet(f, {owner, address})
      /\ FromEnd(owner, Top.at) \in Nat
      /\ f[owner] = new[owner] - FromEnd(owner, Top.at) /\ f[owner] \in Int
      /\ f[address] = new[address] - FromEnd(address, Top.at) /\ f[address] \in Int
  BY <1>f, <1>D
<1>6. SumFunctionOnSet(f, {owner, address}) = f[owner] + f[address]
  BY <1>2, <1>5, SumOfTwo
<1>7. f[owner] = left
  BY <1>2, <1>4, <1>5 DEF AccountBalance
<1> QED
  BY <1>2, <1>4, <1>5, <1>6, <1>7

\* The first redeem empties the address, gives its amount to the recipient and what
\* remains to the sender, who has to cover what is missing up to the tolerance.
LEMMA RedeemMinted ==
    ASSUME IInv, OpenInv, AddressesNew, AddressesPaid, Confirm, Calculated',
           NEW n, n = Len(chain), NEW b, b = Top.tx.body, b.type = "redeem", Payouts(b.nr) = {}
    PROVE  Minted(n + 1)' \in 0..Tolerance
<1>k. PICK address, to, owner, left :
          /\ address = b.from /\ to = b.to /\ owner = chain[b.nr].body.from
          /\ left = DecayedDeferred(b.nr, Top.at)
  OBVIOUS
<1>1. b \in Body /\ to \in Keys /\ b.amount \in Nat
  BY <1>k, ConfirmedEntry, BodyFields
<1>2. /\ address \in Keys /\ owner \in Keys /\ address # owner /\ to # address
      /\ FromEnd(address, Top.at) = left /\ left \in Nat
  BY <1>k, FirstPayout
<1>new. PICK new : new = CalculateAccountBalances(b, Top.at)
  OBVIOUS
<1>3. new = RedeemBalances(b, Top.at)
  BY <1>new DEF CalculateAccountBalances
<1>D. PICK D : D = {address, to, owner}
  OBVIOUS
<1>4. D = DOMAIN new /\ D \subseteq Keys /\ new[address] = 0
  BY <1>1, <1>2, <1>3, <1>D, <1>k DEF RedeemBalances
<1>f. PICK f : /\ Minted(n + 1)' = SumFunctionOnSet(f, D)
               /\ \A k \in D : /\ FromEnd(k, Top.at) \in Nat
                               /\ f[k] = new[k] - FromEnd(k, Top.at) /\ f[k] \in Int
  BY <1>4, <1>new, NewMinted
<1>5. /\ FromEnd(owner, Top.at) \in Nat /\ FromEnd(to, Top.at) \in Nat
      /\ f[owner] = new[owner] - FromEnd(owner, Top.at) /\ f[owner] \in Int
      /\ f[to] = new[to] - FromEnd(to, Top.at) /\ f[to] \in Int
      /\ f[address] = new[address] - FromEnd(address, Top.at) /\ f[address] \in Int
  BY <1>f, <1>D
<1>6. f[address] = -left
  BY <1>2, <1>4, <1>5
<1>E. PICK E : E = {to, owner}
  OBVIOUS
<1>7. SumFunctionOnSet(f, D) = f[address] + SumFunctionOnSet(f, E)
  <2>1. address \in D /\ D \ {address} = E
    BY <1>2, <1>D, <1>E
  <2>2. IsFiniteSet(D)
    BY <1>D, TripleIsFinite
  <2> QED
    BY <2>1, <2>2, <1>f, SumRemove
<1>8. CASE to = owner
  <2>1. new[to] = AccountBalance(to, left, Top.at)
    BY <1>2, <1>3, <1>8, <1>k DEF RedeemBalances
  <2>2. f[to] = left
    BY <2>1, <1>2, <1>5 DEF AccountBalance
  <2>3. SumFunctionOnSet(f, E) = f[to]
    <3>1. E = {to}
      BY <1>8, <1>E
    <3> QED
      BY <3>1, <1>5, SumOfOne
  <2>4. SumFunctionOnSet(f, D) = 0
    BY <2>2, <2>3, <1>2, <1>6, <1>7
  <2> QED
    BY <2>4, <1>f, NumbersAssumption
<1>9. CASE to # owner
  <2>1. /\ new[to] = AccountBalance(to, b.amount, Top.at)
        /\ new[owner] = AccountBalance(owner, left - b.amount, Top.at)
    BY <1>2, <1>3, <1>9, <1>k DEF RedeemBalances
  <2>2. f[to] = b.amount
    BY <2>1, <1>1, <1>5 DEF AccountBalance
  <2>h. PICK had \in Nat : had = FromEnd(owner, Top.at)
    BY <1>5
  <2>3. f[owner] = IF had + left < b.amount THEN -had ELSE left - b.amount
    <3>1. new[owner] = IF had + (left - b.amount) < 0 THEN 0 ELSE had + (left - b.amount)
      BY <2>1, <2>h DEF AccountBalance
    <3>2. f[owner] = new[owner] - had
      BY <2>h, <1>5
    <3>3. PICK amount \in Nat : amount = b.amount
      BY <1>1
    <3>4. PICK rest \in Nat : rest = left
      BY <1>2
    <3>5. \A w, x, y \in Nat : (IF w + (x - y) < 0 THEN 0 ELSE w + (x - y)) - w
                               = IF w + x < y THEN -w ELSE x - y
      OBVIOUS
    <3>6. f[owner] = (IF had + (rest - amount) < 0 THEN 0 ELSE had + (rest - amount)) - had
      BY ONLY <3>1, <3>2, <3>3, <3>4
    <3>7. f[owner] = IF had + rest < amount THEN -had ELSE rest - amount
      BY ONLY <3>5, <3>6, had \in Nat, rest \in Nat, amount \in Nat
    <3> QED
      BY ONLY <3>7, <3>3, <3>4
  <2>4. b.amount <= had + left + Tolerance
    <3>1. ~Uncovered(owner, left - b.amount, Top.at)
      BY <1>9, <1>k, ConfirmCalculated DEF Covered
    <3>2. ~(had + (left - b.amount) + Tolerance < 0)
      BY <3>1, <2>h DEF Uncovered
    <3>3. \A w, x, y, z \in Nat : ~(w + (x - y) + z < 0) => y <= w + x + z
      OBVIOUS
    <3> QED
      BY <3>2, <3>3, <1>1, <1>2, <1>5, NumbersAssumption
  <2>5. SumFunctionOnSet(f, E) = f[to] + f[owner]
    BY <1>5, <1>9, <1>E, SumOfTwo
  <2>6. SumFunctionOnSet(f, D) = -left + (b.amount + f[owner])
    BY <2>2, <2>5, <1>6, <1>7
  <2>7. -left + (b.amount + f[owner]) \in 0..Tolerance
    BY <2>3, <2>4, <1>1, <1>2, NumbersAssumption
  <2> QED
    BY <2>6, <2>7, <1>f
<1> QED
  BY <1>8, <1>9

-----------------------------------------------------------------------------
(* Conservation, step by step. *)

\* Submit lets no transfer in whose sender is its recipient.
PaysOthers ==
    \A i \in DOMAIN stack :
        stack[i].tx.body.type = "transfer" => stack[i].tx.body.from # stack[i].tx.body.to

\* Calls come from Submit, or are timeouts.
LEMMA OthersArePaid == Spec => []PaysOthers
<1>1. Init => PaysOthers
  BY DEF Init, PaysOthers
<1>2. IInv /\ PaysOthers /\ [Next]_vars => PaysOthers'
  <2> SUFFICES ASSUME IInv, PaysOthers, [Next]_vars PROVE PaysOthers'
    OBVIOUS
  <2>1. ASSUME NEW c \in Calls, Submit(c) PROVE PaysOthers'
    <3>1. stack' = <<c>> /\ ValidSingle(c.tx)
      BY <2>1 DEF Submit, Accepted
    <3>2. c.tx.body.type = "transfer" => c.tx.body.from # c.tx.body.to
      BY <3>1 DEF ValidSingle
    <3>3. DOMAIN stack' = {1} /\ stack'[1] = c
      BY <3>1
    <3> QED
      BY <3>2, <3>3 DEF PaysOthers
  <2>2. ASSUME NEW e \in events, Trigger(e) PROVE PaysOthers'
    <3>m. PICK m : m = Len(stack)
      OBVIOUS
    <3>c. PICK c : c = TriggeredCall(TimeoutTransaction(e), e)
      OBVIOUS
    <3>1. stack' = Append(stack, c) /\ c.tx.body.type = "timeout"
      BY <2>2, <3>c DEF Trigger, TriggeredCall, TimeoutTransaction
    <3>2. stack \in Seq(Call) /\ m \in Nat /\ DOMAIN stack = 1..m
      BY <3>m DEF IInv, TypeOK
    <3>3. /\ DOMAIN stack' = 1..(m + 1) /\ stack'[m + 1] = c
          /\ \A i \in 1..m : stack'[i] = stack[i]
      BY <3>1, <3>2, <3>m
    <3>4. \A i \in 1..(m + 1) : i \in 1..m \/ i = m + 1
      BY <3>2
    <3> QED
      BY <3>1, <3>2, <3>3, <3>4 DEF PaysOthers
  <2>3. ASSUME stack # <<>>, stack' = Pop PROVE PaysOthers'
    <3>m. PICK m : m = Len(stack)
      OBVIOUS
    <3>1. /\ m \in Nat \ {0} /\ DOMAIN stack = 1..m /\ DOMAIN stack' = 1..(m - 1)
          /\ \A i \in 1..(m - 1) : stack'[i] = stack[i]
      BY <2>3, <3>m, Popped
    <3>2. \A i \in 1..(m - 1) : i \in 1..m
      BY <3>1
    <3> QED
      BY <3>1, <3>2 DEF PaysOthers
  <2>4. ASSUME stack' = stack PROVE PaysOthers'
    BY <2>4 DEF PaysOthers
  <2> QED
    BY <2>1, <2>2, <2>3, <2>4 DEF Next, CallStep, TriggerFails, Confirm, Refuse, vars
<1> QED
  BY <1>1, <1>2, InductiveInvariant, PTL DEF Spec

\* What an entry added stays, and a payout after it is not the first of its deferred
\* transfer.
LEMMA OldConserves ==
    ASSUME IInv, Confirm, NEW i \in DOMAIN chain, Conserves(i)
    PROVE  Conserves(i)'
<1>n. PICK n : n = Len(chain)
  OBVIOUS
<1>b. PICK b : b = Top.tx.body
  OBVIOUS
<1>1. DOMAIN chain = 1..n /\ chain'[i] = chain[i]
  BY <1>b, <1>n, ConfirmedEntry
<1>2. \A m : Payouts(m) \subseteq Payouts(m)'
  BY <1>b, <1>n, ConfirmedPayouts
<1>3. Minted(i)' = Minted(i)
  BY OldMinted
<1> QED
  BY <1>1, <1>2, <1>3 DEF Conserves

\* The new entry makes coins only if it is a creation.
LEMMA NewConserves ==
    ASSUME IInv, OpenInv, AddressesNew, AddressesPaid, PaysOthers, Confirm, Calculated',
           NEW n, n = Len(chain)
    PROVE  Conserves(n + 1)'
<1>b. PICK b : b = Top.tx.body
  OBVIOUS
<1>1. stack # <<>> /\ Valid(Top) /\ TypeOK
  BY DEF Confirm, IInv
<1>2. n \in Nat /\ chain'[n + 1].body = b /\ b \in Body
  BY <1>b, ConfirmedEntry
<1>3. b.type = "creation" => Minted(n + 1)' = 3 * b.amount
  BY <1>b, CreationMinted
<1>4. (b.type = "register" => Minted(n + 1)' <= 0) /\ (b.type = "root" => Minted(n + 1)' = 0)
  BY <1>b, FoundingMinted
<1>5. ASSUME b.type \in {"transfer", "deferred"} PROVE Minted(n + 1)' \in 0..Tolerance
  <2>1. b.from # b.to
    <3>1. CASE b.type = "transfer"
      BY <3>1, <1>1, <1>b, TopOfStack DEF PaysOthers, Top
    <3>2. CASE b.type = "deferred"
      <4>1. b.to \in DeferredKeys /\ Registered(b.from)
        BY <3>2, <1>1, <1>2, <1>b, BodyFields DEF Valid, ValidDeferred
      <4> QED
        BY <4>1, <1>1, DeferredKeyType
    <3> QED
      BY <1>5, <3>1, <3>2
  <2> QED
    BY <2>1, <1>5, <1>b, TransferMinted
<1>6. ASSUME b.type = "redeem", \A j \in Payouts(b.nr)' : n + 1 <= j
      PROVE  Minted(n + 1)' \in 0..Tolerance
  <2>1. Payouts(b.nr) \subseteq 1..n /\ Payouts(b.nr) \subseteq Payouts(b.nr)'
    BY <1>b, ConfirmedPayouts
  <2>2. Payouts(b.nr) = {}
    BY <2>1, <1>2, <1>6
  <2> QED
    BY <2>2, <1>6, <1>b, RedeemMinted
<1>7. b.type = "timeout" => Minted(n + 1)' = 0
  BY <1>b, TimeoutMinted
<1>8. b.type \in {"root", "register", "creation", "transfer", "deferred", "redeem", "timeout"}
  BY <1>2, BodyFields
<1> QED
  BY <1>2, <1>3, <1>4, <1>5, <1>6, <1>7, <1>8 DEF Conserves

\* Only a creation makes coins, in any history the node has calculated itself: a
\* transfer, a redeem or a timeout moves what the sender or the address had, up to the
\* tolerance (the roles of confirmTransaction, AbstractRole::calculateAccountBalance).
\* This rests on the payouts: what an unpaid address holds is what its payout gives away.
THEOREM OnlyCreationsMint ==
    ASSUME NoTimeoutCalls
    PROVE  Spec => []CalculatedConservation
<1>1. Init => CalculatedConservation
  BY DEF Init, CalculatedConservation
<1>2. IInv /\ OpenInv /\ PaidInv /\ PaysOthers /\ CalculatedConservation /\ [Next]_vars
        => CalculatedConservation'
  <2> SUFFICES ASSUME IInv, OpenInv, PaidInv, PaysOthers, CalculatedConservation, [Next]_vars
               PROVE  CalculatedConservation'
    OBVIOUS
  <2>1. CASE chain' = chain
    <3>1. \A i : Changed(i)' = Changed(i)
      BY <2>1 DEF Changed
    <3>2. \A i, k : LeftBefore(i, k)' = LeftBefore(i, k)
      BY <2>1, <3>1 DEF LeftBefore, BalanceLeft, BalanceChanging
    <3>3. \A i : Minted(i)' = Minted(i)
      BY <2>1, <3>1, <3>2 DEF Minted
    <3>4. \A i : Conserves(i)' <=> Conserves(i)
      BY <2>1, <3>3, SameChain DEF Conserves
    <3> QED
      BY <2>1, <3>4 DEF CalculatedConservation, Calculated
  <2>2. CASE Confirm
    <3> SUFFICES ASSUME Calculated', NEW i \in DOMAIN chain' PROVE Conserves(i)'
      BY DEF CalculatedConservation
    <3>n. PICK n : n = Len(chain)
      OBVIOUS
    <3>b. PICK b : b = Top.tx.body
      OBVIOUS
    <3>1. n \in Nat /\ DOMAIN chain = 1..n /\ DOMAIN chain' = 1..(n + 1)
      BY <2>2, <3>b, <3>n, ConfirmedEntry
    <3>2. Calculated
      BY <2>2, ConfirmCalculated
    <3>3. CASE i \in 1..n
      BY <2>2, <3>1, <3>2, <3>3, OldConserves DEF CalculatedConservation
    <3>4. CASE i = n + 1
      BY <2>2, <3>2, <3>4, <3>n, NewConserves DEF PaidInv
    <3> QED
      BY <3>1, <3>3, <3>4
  <2> QED
    BY <2>1, <2>2 DEF Next, CallStep, Submit, Trigger, TriggerFails, Refuse, vars
<1> QED
  BY <1>1, <1>2, InductiveInvariant, OpenInvariant, PaidInvariant, OthersArePaid, PTL DEF Spec
=============================================================================
