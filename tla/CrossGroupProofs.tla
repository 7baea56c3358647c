-------------------------- MODULE CrossGroupProofs --------------------------
(***************************************************************************)
(* For any communities, keys, orders and lengths of the chains: an inbound *)
(* transaction has its outbound one, and no outbound one is credited twice *)
(* on a date.  The inductive invariant says what kind of transaction an    *)
(* entry of a chain can be.  It is needed because isPairing compares       *)
(* neither the types of the two transactions nor the chains they are on:   *)
(* that an inbound one cannot pair with a local one or with another        *)
(* inbound one follows from what the builder puts on which chain.          *)
(*                                                                         *)
(* Coins are conserved: what a chain takes from a key in an outbound       *)
(* transaction is under way until the inbound one credits it.  This rests  *)
(* on BalancesOK (an entry gives a number for every key and coin it        *)
(* changes) and on the sums of SumProofs.                                  *)
(***************************************************************************)
EXTENDS CrossGroup, Builder, SumProofs, SequenceTheorems

Sequences1 == DOMAIN chain = Communities /\ \A c \in Communities : \E S : chain[c] \in Seq(S)

IsOutboundOf(c, i, o) == i \in DOMAIN chain[c] /\ chain[c][i].tx = OutboundTx(o)

EntryOK(c, i) ==
    \/ \E k : chain[c][i].tx = RegisterTx(c, k)
    \/ \E o \in Orders : chain[c][i].tx = LocalTx(o) /\ o.home = c
    \/ \E o \in Orders : chain[c][i].tx = OutboundTx(o) /\ o.home = c /\ o.home # o.away
    \/ \E o \in Orders : /\ chain[c][i].tx = InboundTx(o) /\ o.away = c /\ o.home # o.away
                         /\ IsOutboundOf(o.home, chain[c][i].anchor, o)

EntriesOK == \A c \in Communities : \A i \in DOMAIN chain[c] : EntryOK(c, i)

\* An inbound transaction is on a chain once per date, and in time.
InboundOnce ==
    \A c \in Communities : \A i, j \in Entries(c, "inbound") :
        chain[c][i].tx = chain[c][j].tx /\ chain[c][i].at = chain[c][j].at => i = j
InTime ==
    \A c \in Communities : \A i \in Entries(c, "inbound") :
        chain[c][i].at - chain[c][i].tx.order.created <= MaxDelay

IInv == Sequences1 /\ EntriesOK /\ InboundOnce /\ InTime

\* Appending keeps the entries there are and adds one.
LEMMA AppendFacts ==
    ASSUME NEW S, NEW s \in Seq(S), NEW e
    PROVE  /\ Append(s, e) \in Seq(S \cup {e})
           /\ Len(s) \in Nat /\ DOMAIN s = 1 .. Len(s)
           /\ DOMAIN Append(s, e) = 1 .. (Len(s) + 1) /\ Len(Append(s, e)) = Len(s) + 1
           /\ Append(s, e)[Len(s) + 1] = e
           /\ \A i \in DOMAIN s : Append(s, e)[i] = s[i]
<1>1. s \in Seq(S \cup {e})
  OBVIOUS
<1> QED
  BY <1>1

\* What a step does to the chains: one of them gets one more entry.
Grown(c, tx, at, nr, bal) ==
    /\ c \in Communities
    /\ chain' = [chain EXCEPT ![c] = Append(@, [tx |-> tx, at |-> at, anchor |-> nr, bal |-> bal])]

\* After a step the new entry is the last of its chain, and no other has changed.
LEMMA GrownFacts ==
    ASSUME Sequences1, NEW c, NEW tx, NEW at, NEW nr, NEW bal, Grown(c, tx, at, nr, bal)
    PROVE  /\ Sequences1'
           /\ Len(chain[c]) \in Nat /\ DOMAIN chain[c] = 1 .. Len(chain[c])
           /\ DOMAIN chain'[c] = 1 .. (Len(chain[c]) + 1)
           /\ chain'[c][Len(chain[c]) + 1].tx = tx /\ chain'[c][Len(chain[c]) + 1].at = at
           /\ chain'[c][Len(chain[c]) + 1].anchor = nr
           /\ chain'[c][Len(chain[c]) + 1].bal = bal /\ Len(chain'[c]) = Len(chain[c]) + 1
           /\ \A i \in DOMAIN chain[c] : chain'[c][i] = chain[c][i]
           /\ \A d \in Communities : d # c => chain'[d] = chain[d]
<1> DEFINE e == [tx |-> tx, at |-> at, anchor |-> nr, bal |-> bal]
<1>1. PICK S : chain[c] \in Seq(S)
  BY DEF Sequences1, Grown
<1>2. /\ Append(chain[c], e) \in Seq(S \cup {e})
      /\ Len(chain[c]) \in Nat /\ DOMAIN chain[c] = 1 .. Len(chain[c])
      /\ DOMAIN Append(chain[c], e) = 1 .. (Len(chain[c]) + 1)
      /\ Len(Append(chain[c], e)) = Len(chain[c]) + 1
      /\ Append(chain[c], e)[Len(chain[c]) + 1] = e
      /\ \A i \in DOMAIN chain[c] : Append(chain[c], e)[i] = chain[c][i]
  BY <1>1, AppendFacts
<1>3. chain' = [chain EXCEPT ![c] = Append(chain[c], e)] /\ c \in Communities
  BY DEF Grown
<1>4. /\ chain'[c] = Append(chain[c], e)
      /\ DOMAIN chain' = Communities
      /\ \A d \in Communities : d # c => chain'[d] = chain[d]
  BY <1>3 DEF Sequences1
<1>5. Sequences1'
  <2>1. \A d \in Communities : \E T : chain'[d] \in Seq(T)
    BY <1>2, <1>4 DEF Sequences1
  <2> QED
    BY <2>1, <1>4 DEF Sequences1
<1>6. e.tx = tx /\ e.at = at /\ e.anchor = nr /\ e.bal = bal
  OBVIOUS
<1> QED
  BY <1>2, <1>4, <1>5, <1>6

\* An entry of a chain stays what it is.
LEMMA EntriesStay ==
    ASSUME Sequences1, EntriesOK, NEW c, NEW tx, NEW at, NEW nr, NEW bal, Grown(c, tx, at, nr, bal),
           NEW d \in Communities, NEW i \in DOMAIN chain[d]
    PROVE  EntryOK(d, i)' /\ i \in DOMAIN chain'[d] /\ chain'[d][i] = chain[d][i]
<1>1. i \in DOMAIN chain'[d] /\ chain'[d][i] = chain[d][i]
  BY GrownFacts
<1>2. \A o \in Orders : \A n : IsOutboundOf(o.home, n, o) => IsOutboundOf(o.home, n, o)'
  <2> SUFFICES ASSUME NEW o \in Orders, NEW n, IsOutboundOf(o.home, n, o)
               PROVE  IsOutboundOf(o.home, n, o)'
    OBVIOUS
  <2>1. o.home \in Communities
    BY OrdersAssumption DEF Order
  <2>2. n \in DOMAIN chain[o.home] /\ chain[o.home][n].tx = OutboundTx(o)
    BY DEF IsOutboundOf
  <2>3. n \in DOMAIN chain'[o.home] /\ chain'[o.home][n] = chain[o.home][n]
    BY <2>1, <2>2, GrownFacts
  <2> QED
    BY <2>2, <2>3 DEF IsOutboundOf
<1>3. EntryOK(d, i)
  BY DEF EntriesOK
<1> QED
  BY <1>1, <1>2, <1>3 DEF EntryOK

\* The transaction an inbound one pairs with is the outbound one of the same order.
LEMMA PairIsOutbound ==
    ASSUME Sequences1, EntriesOK, NEW o \in Orders, o.home # o.away, NEW n,
           Paired(o.away, InboundTx(o), n)
    PROVE  IsOutboundOf(o.home, n, o)
<1> DEFINE w == chain[o.home][n].tx
<1>1. n \in DOMAIN chain[o.home] /\ IsPairing(InboundTx(o), w)
  BY DEF Paired, InboundTx
<1>2. IsTransfer(w) /\ o.home # w.other /\ o.id = w.order.id
  BY <1>1 DEF IsPairing, InboundTx
<1>3. EntryOK(o.home, n) /\ o.home \in Communities
  BY <1>1, OrdersAssumption DEF EntriesOK, Order
<1>4. CASE \E k : w = RegisterTx(o.home, k)
  BY <1>2, <1>4 DEF IsTransfer, RegisterTx
<1>5. CASE \E p \in Orders : w = LocalTx(p) /\ p.home = o.home
  BY <1>2, <1>5 DEF LocalTx
<1>6. CASE \E p \in Orders : w = OutboundTx(p) /\ p.home = o.home /\ p.home # p.away
  BY <1>1, <1>2, <1>6, OrdersAssumption DEF OutboundTx, IsOutboundOf
<1>7. CASE \E p \in Orders : w = InboundTx(p) /\ p.away = o.home /\ p.home # p.away
  BY <1>2, <1>7, OrdersAssumption DEF InboundTx
<1> QED
  BY <1>3, <1>4, <1>5, <1>6, <1>7 DEF EntryOK

\* A new entry that is what an entry may be, and no inbound one that is there, keeps the invariant.
LEMMA GrownInv ==
    ASSUME IInv, NEW c, NEW tx, NEW at, NEW nr, NEW bal, Grown(c, tx, at, nr, bal),
           NEW n, n = Len(chain[c]) + 1, EntryOK(c, n)',
           tx.type = "inbound" => ~Exists(c, tx, at) /\ at - tx.order.created <= MaxDelay
    PROVE  IInv'
<1> USE DEF IInv
<1>1. Sequences1'
  BY GrownFacts
<1>2. EntriesOK'
  <2> SUFFICES ASSUME NEW d \in Communities, NEW i \in DOMAIN chain'[d]
               PROVE  EntryOK(d, i)'
    BY DEF EntriesOK
  <2>1. CASE d = c /\ i = n
    BY <2>1
  <2>2. CASE ~(d = c /\ i = n)
    <3>1. i \in DOMAIN chain[d]
      BY <2>2, GrownFacts
    <3> QED
      BY <3>1, EntriesStay
  <2> QED
    BY <2>1, <2>2
<1>3. InboundOnce'
  <2> SUFFICES ASSUME NEW d \in Communities, NEW i \in DOMAIN chain'[d], NEW j \in DOMAIN chain'[d],
                      chain'[d][i].tx.type = "inbound", chain'[d][i].tx = chain'[d][j].tx,
                      chain'[d][i].at = chain'[d][j].at
               PROVE  i = j
    BY DEF InboundOnce, Entries
  <2>1. CASE i \in DOMAIN chain[d] /\ j \in DOMAIN chain[d]
    BY <2>1, GrownFacts DEF InboundOnce, Entries
  <2>2. CASE i \in DOMAIN chain[d] /\ j \notin DOMAIN chain[d]
    <3>1. /\ d = c /\ chain'[c][j].tx = tx /\ chain'[c][j].at = at
          /\ chain[c][i] = chain'[c][i]
      BY <2>2, GrownFacts
    <3> QED
      BY <3>1, <2>2 DEF Exists
  <2>3. CASE i \notin DOMAIN chain[d] /\ j \in DOMAIN chain[d]
    <3>1. /\ d = c /\ chain'[c][i].tx = tx /\ chain'[c][i].at = at
          /\ chain[c][j] = chain'[c][j]
      BY <2>3, GrownFacts
    <3> QED
      BY <3>1, <2>3 DEF Exists
  <2>4. CASE i \notin DOMAIN chain[d] /\ j \notin DOMAIN chain[d]
    <3>1. \A k \in DOMAIN chain'[d] : k \notin DOMAIN chain[d] => d = c /\ k = Len(chain[c]) + 1
      BY GrownFacts
    <3> QED
      BY <2>4, <3>1
  <2> QED
    BY <2>1, <2>2, <2>3, <2>4
<1>4. InTime'
  <2> SUFFICES ASSUME NEW d \in Communities, NEW i \in DOMAIN chain'[d], chain'[d][i].tx.type = "inbound"
               PROVE  chain'[d][i].at - chain'[d][i].tx.order.created <= MaxDelay
    BY DEF InTime, Entries
  <2>1. CASE i \in DOMAIN chain[d]
    BY <2>1, GrownFacts DEF InTime, Entries
  <2>2. CASE i \notin DOMAIN chain[d]
    <3>1. d = c /\ chain'[d][i].tx = tx /\ chain'[d][i].at = at
      BY <2>2, GrownFacts
    <3> QED
      BY <3>1
  <2> QED
    BY <2>1, <2>2
<1> QED
  BY <1>1, <1>2, <1>3, <1>4

\* Every step keeps the invariant.
LEMMA NextInv ==
    ASSUME IInv, [Next]_chain
    PROVE  IInv'
<1> USE DEF IInv
<1>1. ASSUME NEW at \in Dates, NEW ck \in Joining, Register(ck[1], ck[2], at)
      PROVE  IInv'
  <2>1. ck[1] \in Communities
    BY KeysAssumption
  <2>2. Grown(ck[1], RegisterTx(ck[1], ck[2]), at, NoAnchor, NoBalances)
    BY <1>1, <2>1 DEF Register, Append1, Grown
  <2>3. PICK n : n = Len(chain[ck[1]]) + 1
    OBVIOUS
  <2>4. chain'[ck[1]][n].tx = RegisterTx(ck[1], ck[2])
    BY <2>2, <2>3, GrownFacts
  <2>5. EntryOK(ck[1], n)'
    BY <2>1, <2>2, <2>4 DEF EntryOK
  <2> QED
    BY <2>2, <2>3, <2>5, GrownInv DEF RegisterTx
<1>2. ASSUME NEW at \in Dates, NEW o \in Orders, Local(o, at)
      PROVE  IInv'
  <2>1. o.home \in Communities
    BY OrdersAssumption DEF Order
  <2>2. Grown(o.home, LocalTx(o), at, NoAnchor, DebitCredit(o.home, o))
    BY <1>2, <2>1 DEF Local, Append1, Grown
  <2>3. PICK n : n = Len(chain[o.home]) + 1
    OBVIOUS
  <2>4. chain'[o.home][n].tx = LocalTx(o)
    BY <2>2, <2>3, GrownFacts
  <2>5. EntryOK(o.home, n)'
    BY <2>1, <2>2, <2>4 DEF EntryOK
  <2> QED
    BY <2>2, <2>3, <2>5, GrownInv DEF LocalTx
<1>3. ASSUME NEW at \in Dates, NEW o \in Orders, Outbound(o, at)
      PROVE  IInv'
  <2>1. o.home \in Communities
    BY OrdersAssumption DEF Order
  <2>2. Grown(o.home, OutboundTx(o), at, NoAnchor, Debit(o.home, o)) /\ o.home # o.away
    BY <1>3, <2>1 DEF Outbound, Append1, Grown
  <2>3. PICK n : n = Len(chain[o.home]) + 1
    OBVIOUS
  <2>4. chain'[o.home][n].tx = OutboundTx(o)
    BY <2>2, <2>3, GrownFacts
  <2>5. EntryOK(o.home, n)'
    BY <2>1, <2>2, <2>4 DEF EntryOK
  <2> QED
    BY <2>2, <2>3, <2>5, GrownInv DEF OutboundTx
<1>4. ASSUME NEW at \in Dates, NEW o \in Orders, InboundOf(o, at)
      PROVE  IInv'
  <2>1. o.home \in Communities /\ o.away \in Communities /\ o.home # o.away
    BY <1>4, OrdersAssumption DEF Order, InboundOf
  <2>2. PICK n : Inbound(o.away, InboundTx(o), n, at)
    BY <1>4 DEF InboundOf
  <2>3. Grown(o.away, InboundTx(o), at, n, Credit(o.away, o))
    BY <2>1, <2>2 DEF Inbound, Append1, Grown, InboundTx
  <2>4. IsOutboundOf(o.home, n, o)
    BY <2>1, <2>2, PairIsOutbound DEF Inbound
  <2>5. IsOutboundOf(o.home, n, o)'
    BY <2>1, <2>3, <2>4, GrownFacts DEF IsOutboundOf
  <2>6. PICK m : m = Len(chain[o.away]) + 1
    OBVIOUS
  <2>7. EntryOK(o.away, m)'
    <3>1. chain'[o.away][m].tx = InboundTx(o) /\ chain'[o.away][m].anchor = n
      BY <2>3, <2>6, GrownFacts
    <3> QED
      BY <2>1, <2>5, <3>1 DEF EntryOK
  <2>8. ~Exists(o.away, InboundTx(o), at) /\ at - InboundTx(o).order.created <= MaxDelay
    BY <2>2 DEF Inbound, ValidDates
  <2> QED
    BY <2>3, <2>6, <2>7, <2>8, GrownInv
<1>5. CASE UNCHANGED chain
  BY <1>5 DEF Sequences1, EntriesOK, EntryOK, IsOutboundOf, InboundOnce, InTime, Entries
<1> QED
  BY <1>1, <1>2, <1>3, <1>4, <1>5 DEF Next

\* The chains are empty at the start.
LEMMA InitInv == Init => IInv
<1> SUFFICES ASSUME Init PROVE IInv
  OBVIOUS
<1>1. \A c \in Communities : chain[c] = <<>> /\ chain[c] \in Seq({}) /\ DOMAIN chain[c] = {}
  BY DEF Init
<1>2. Sequences1
  BY <1>1 DEF Init, Sequences1
<1> QED
  BY <1>1, <1>2 DEF IInv, EntriesOK, InboundOnce, InTime, Entries

\* IInv is an invariant of the chains.
LEMMA Inductive == Spec => []IInv
<1> QED
  BY InitInv, NextInv, PTL DEF Spec

\* The order of an inbound entry: it is on the chain of the recipient.
LEMMA InboundEntry ==
    ASSUME IInv, NEW c \in Communities, NEW i \in Entries(c, "inbound")
    PROVE  \E o \in Orders : /\ chain[c][i].tx = InboundTx(o) /\ o.away = c /\ o.home # o.away
                             /\ IsOutboundOf(o.home, chain[c][i].anchor, o)
<1>1. i \in DOMAIN chain[c] /\ chain[c][i].tx.type = "inbound"
  BY DEF Entries
<1>2. EntryOK(c, i)
  BY <1>1 DEF IInv, EntriesOK
<1>3. \A k : RegisterTx(c, k).type = "register"
  BY DEF RegisterTx
<1>4. \A o \in Orders : LocalTx(o).type = "local" /\ OutboundTx(o).type = "outbound"
  BY DEF LocalTx, OutboundTx
<1> QED
  BY <1>1, <1>2, <1>3, <1>4 DEF EntryOK

\* An inbound transaction has its outbound one, on the chain it names: the validation of GradidoTransactionRole
\* is enough for the transactions the builder makes.
THEOREM InboundPaired == Spec => []InboundHasOutbound
<1>1. IInv => InboundHasOutbound
  <2> SUFFICES ASSUME IInv, NEW c \in Communities, NEW i \in Entries(c, "inbound")
               PROVE  /\ chain[c][i].anchor \in DOMAIN chain[chain[c][i].tx.other]
                      /\ chain[chain[c][i].tx.other][chain[c][i].anchor].tx = OutboundTx(chain[c][i].tx.order)
                      /\ chain[chain[c][i].tx.other][chain[c][i].anchor].tx.other = c
    BY DEF InboundHasOutbound
  <2>1. PICK o \in Orders : /\ chain[c][i].tx = InboundTx(o) /\ o.away = c
                            /\ IsOutboundOf(o.home, chain[c][i].anchor, o)
    BY InboundEntry
  <2>2. chain[c][i].tx.other = o.home /\ chain[c][i].tx.order = o /\ OutboundTx(o).other = c
    BY <2>1 DEF InboundTx, OutboundTx
  <2> QED
    BY <2>1, <2>2 DEF IsOutboundOf
<1> QED
  BY <1>1, Inductive, PTL

\* An outbound transaction is credited on one chain, at most once on a date and only in time, for any
\* number of communities, orders and dates.
THEOREM OncePerDate == Spec => []CreditedOncePerDate
<1>1. IInv => CreditedOncePerDate
  <2> SUFFICES ASSUME IInv, NEW c \in Communities, NEW d \in Communities,
                      NEW i \in Entries(c, "inbound"), NEW j \in Entries(d, "inbound"),
                      chain[c][i].tx.order = chain[d][j].tx.order
               PROVE  /\ c = d /\ (chain[c][i].at = chain[d][j].at => i = j)
                      /\ chain[c][i].at - chain[c][i].tx.order.created <= MaxDelay
    BY DEF CreditedOncePerDate
  <2>1. PICK o \in Orders : chain[c][i].tx = InboundTx(o) /\ o.away = c
    BY InboundEntry
  <2>2. PICK p \in Orders : chain[d][j].tx = InboundTx(p) /\ p.away = d
    BY InboundEntry
  <2>3. o = p
    BY <2>1, <2>2 DEF InboundTx
  <2> QED
    BY <2>1, <2>2, <2>3 DEF IInv, InboundOnce, InTime
<1> QED
  BY <1>1, Inductive, PTL

-----------------------------------------------------------------------------
(* What is held.                                                           *)

\* The greatest of some positions is one of them.
LEMMA MaxIsIn ==
    ASSUME NEW n \in Nat, NEW S \in SUBSET (1 .. n), S # {}
    PROVE  Max(S) \in S /\ \A i \in S : i <= Max(S)
<1> DEFINE D == {n - i : i \in S}
<1>1. D \in SUBSET Nat /\ D # {}
  OBVIOUS
<1>2. PICK d \in D : \A e \in D : d <= e
  <2> HIDE DEF D
  <2> QED
    BY <1>1, LeastNumber
<1>3. PICK m \in S : d = n - m
  OBVIOUS
<1>4. \A i \in S : d <= n - i
  BY <1>2
<1>5. \A i \in S : m >= i
  BY <1>3, <1>4
<1>6. \E x \in S : \A y \in S : x >= y
  BY <1>5
<1>7. Max(S) \in S /\ \A y \in S : Max(S) >= y
  BY <1>6 DEF Max
<1> QED
  BY <1>7

\* Every entry says of every key and coin what it has, or that the entry does not change it.
BalancesOK ==
    \A c \in Communities : \A i \in DOMAIN chain[c] :
        chain[c][i].bal \in [Keys -> [Communities -> Nat \cup {NoBalance}]]

\* What a key has is a natural number.
LEMMA FromEndIsNat ==
    ASSUME Sequences1, BalancesOK, NEW c \in Communities, NEW k \in Keys, NEW coin \in Communities
    PROVE  FromEnd(c, k, coin, Last(c)) \in Nat
<1>1. PICK n \in Nat : n = Last(c) /\ DOMAIN chain[c] = 1 .. n
  BY DEF Sequences1, Last
<1>2. PICK S \in SUBSET (1 .. n) : S = Setting(c, k, coin, n)
  BY DEF Setting
<1>3. CASE S = {}
  BY <1>1, <1>2, <1>3, NumbersAssumption DEF FromEnd, Opening
<1>4. CASE S # {}
  <2>1. Max(S) \in S
    BY <1>4, MaxIsIn
  <2>2. chain[c][Max(S)].bal[k][coin] # NoBalance
    BY <1>2, <2>1 DEF Setting
  <2>3. chain[c][Max(S)].bal \in [Keys -> [Communities -> Nat \cup {NoBalance}]]
    BY <1>1, <2>1 DEF BalancesOK
  <2>4. chain[c][Max(S)].bal[k][coin] \in Nat
    BY <2>2, <2>3
  <2> QED
    BY <1>1, <1>2, <1>4, <2>4 DEF FromEnd
<1> QED
  BY <1>3, <1>4

\* A new entry sets what it names; all else is what it was.
LEMMA FromEndGrown ==
    ASSUME Sequences1, NEW c, NEW tx, NEW at, NEW nr, NEW bal, Grown(c, tx, at, nr, bal),
           NEW d \in Communities, NEW k \in Keys, NEW coin \in Communities
    PROVE  FromEnd(d, k, coin, Last(d))' =
              IF d = c /\ bal[k][coin] # NoBalance THEN bal[k][coin] ELSE FromEnd(d, k, coin, Last(d))
<1>1. CASE d # c
  <2>1. chain'[d] = chain[d]
    BY <1>1, GrownFacts
  <2> QED
    BY <1>1, <2>1 DEF FromEnd, Setting, Last, Opening
<1>2. CASE d = c
  <2>1. PICK n \in Nat : n = Len(chain[c]) /\ DOMAIN chain[c] = 1 .. n
    BY GrownFacts
  <2>2. /\ Len(chain'[c]) = n + 1 /\ chain'[c][n + 1].bal = bal
        /\ \A i \in 1 .. n : chain'[c][i] = chain[c][i]
    BY <2>1, GrownFacts
  <2>3. PICK S \in SUBSET (1 .. n) : S = Setting(c, k, coin, n)
    BY DEF Setting
  <2>4. PICK T : T = Setting(c, k, coin, n + 1)'
    OBVIOUS
  <2>5. T = {i \in 1 .. (n + 1) : chain'[c][i].bal[k][coin] # NoBalance}
    BY <2>4 DEF Setting
  <2>6. /\ FromEnd(d, k, coin, Last(d))' =
              IF T = {} THEN Opening(c, k, coin) ELSE chain'[c][Max(T)].bal[k][coin]
        /\ FromEnd(d, k, coin, Last(d)) =
              IF S = {} THEN Opening(c, k, coin) ELSE chain[c][Max(S)].bal[k][coin]
    BY <1>2, <2>1, <2>2, <2>3, <2>4 DEF FromEnd, Last, Opening
  <2>7. \A i \in 1 .. (n + 1) : i \in 1 .. n \/ i = n + 1
    OBVIOUS
  <2>8. CASE bal[k][coin] = NoBalance
    <3>1. T = S
      <4>1. S = {i \in 1 .. n : chain'[c][i].bal[k][coin] # NoBalance}
        BY <2>2, <2>3 DEF Setting
      <4> QED
        BY <2>2, <2>5, <2>7, <2>8, <4>1
    <3>2. S # {} => Max(S) \in 1 .. n
      BY MaxIsIn
    <3> QED
      BY <1>2, <2>2, <2>6, <2>8, <3>1, <3>2
  <2>9. CASE bal[k][coin] # NoBalance
    <3>1. n + 1 \in T /\ T \in SUBSET (1 .. (n + 1)) /\ n + 1 \in Nat
      BY <2>2, <2>5, <2>9
    <3>2. Max(T) \in T /\ n + 1 <= Max(T)
      BY <3>1, MaxIsIn
    <3>3. Max(T) = n + 1
      <4>1. Max(T) \in 1 .. (n + 1)
        BY <3>1, <3>2
      <4> QED
        BY <3>2, <4>1
    <3> QED
      BY <1>2, <2>2, <2>6, <2>9, <3>1, <3>3
  <2> QED
    BY <2>8, <2>9
<1> QED
  BY <1>1, <1>2

\* A transaction is on a chain as often as before, or once more if it is the new one.
LEMMA TimesGrown ==
    ASSUME Sequences1, NEW c, NEW tx, NEW at, NEW nr, NEW bal, Grown(c, tx, at, nr, bal),
           NEW d \in Communities, NEW t
    PROVE  /\ Times(d, t) \in Nat
           /\ Times(d, t)' = Times(d, t) + (IF d = c /\ t = tx THEN 1 ELSE 0)
<1>1. PICK n \in Nat : n = Len(chain[d]) /\ DOMAIN chain[d] = 1 .. n
  BY DEF Sequences1
<1>2. PICK S : S = {i \in DOMAIN chain[d] : chain[d][i].tx = t}
  OBVIOUS
<1>3. S \in SUBSET (1 .. n) /\ IsFiniteSet(S) /\ Cardinality(S) \in Nat /\ n + 1 \notin S
  <2>1. S \in SUBSET (1 .. n) /\ IsFiniteSet(1 .. n)
    BY <1>1, <1>2, FS_Interval
  <2>2. n + 1 \notin 1 .. n
    BY <1>1
  <2> QED
    BY <2>1, <2>2, FS_Subset, FS_CardinalityType
<1>4. Times(d, t) = Cardinality(S)
  BY <1>2 DEF Times
<1>5. PICK R : R = {i \in DOMAIN chain'[d] : chain'[d][i].tx = t}
  OBVIOUS
<1>6. Times(d, t)' = Cardinality(R)
  BY <1>5 DEF Times
<1>7. CASE d # c
  <2>1. chain'[d] = chain[d]
    BY <1>7, GrownFacts
  <2> QED
    BY <1>2, <1>3, <1>4, <1>5, <1>6, <1>7, <2>1
<1>8. CASE d = c
  <2>1. /\ DOMAIN chain'[d] = 1 .. (n + 1) /\ chain'[d][n + 1].tx = tx
        /\ \A i \in 1 .. n : chain'[d][i] = chain[d][i]
    BY <1>1, <1>8, GrownFacts
  <2>2. \A i : i \in 1 .. (n + 1) <=> i \in 1 .. n \/ i = n + 1
    BY <1>1
  <2>3. CASE t = tx
    <3>1. R = S \cup {n + 1}
      BY <1>1, <1>2, <1>5, <2>1, <2>2, <2>3
    <3>2. Cardinality(S \cup {n + 1}) = Cardinality(S) + 1
      BY <1>3, FS_AddElement
    <3> QED
      BY <1>3, <1>4, <1>6, <1>8, <2>3, <3>1, <3>2
  <2>4. CASE t # tx
    <3>1. R = S
      BY <1>1, <1>2, <1>5, <2>1, <2>2, <2>4
    <3> QED
      BY <1>3, <1>4, <1>6, <2>4, <3>1
  <2> QED
    BY <2>3, <2>4
<1> QED
  BY <1>3, <1>4, <1>7, <1>8

\* A local or outbound transaction is one more debit.
LEMMA DebitsGrown ==
    ASSUME Sequences1, NEW c, NEW tx, NEW at, NEW nr, NEW bal, Grown(c, tx, at, nr, bal)
    PROVE  /\ Debits \in Int
           /\ Debits' = IF tx.type \in {"local", "outbound"} THEN Debits + 1 ELSE Debits
<1>0. c \in Communities /\ IsFiniteSet(Communities)
  BY FiniteAssumption DEF Grown
<1>1. \A d \in Communities : IsFiniteSet(DebitsOn(d)) /\ Cardinality(DebitsOn(d)) \in Nat
  <2> SUFFICES ASSUME NEW d \in Communities
               PROVE  IsFiniteSet(DebitsOn(d)) /\ Cardinality(DebitsOn(d)) \in Nat
    OBVIOUS
  <2>1. PICK n \in Nat : DOMAIN chain[d] = 1 .. n
    BY DEF Sequences1
  <2>2. IsFiniteSet(1 .. n)
    BY FS_Interval
  <2>3. DebitsOn(d) \in SUBSET (1 .. n)
    BY <2>1 DEF DebitsOn, Entries
  <2> QED
    BY <2>2, <2>3, FS_Subset, FS_CardinalityType
<1>2. PICK n \in Nat : n = Len(chain[c]) /\ DOMAIN chain[c] = 1 .. n
  BY GrownFacts
<1>3. /\ DOMAIN chain'[c] = 1 .. (n + 1) /\ chain'[c][n + 1].tx = tx
      /\ \A i \in 1 .. n : chain'[c][i] = chain[c][i]
  BY <1>2, GrownFacts
<1>4. \A d \in Communities : d # c => DebitsOn(d)' = DebitsOn(d)
  BY GrownFacts DEF DebitsOn, Entries
<1>5. Cardinality(DebitsOn(c))' =
        Cardinality(DebitsOn(c)) + (IF tx.type \in {"local", "outbound"} THEN 1 ELSE 0)
  <2>1. PICK S : S = DebitsOn(c)
    OBVIOUS
  <2>2. \A i : i \in S <=> i \in 1 .. n /\ chain[c][i].tx.type \in {"local", "outbound"}
    BY <1>2, <2>1 DEF DebitsOn, Entries
  <2>3. \A i : i \in DebitsOn(c)' <=>
           i \in 1 .. (n + 1) /\ chain'[c][i].tx.type \in {"local", "outbound"}
    BY <1>3 DEF DebitsOn, Entries
  <2>4. \A i : i \in 1 .. (n + 1) <=> i \in 1 .. n \/ i = n + 1
    OBVIOUS
  <2>5. n + 1 \notin S /\ IsFiniteSet(S) /\ Cardinality(S) \in Nat
    BY <1>0, <1>1, <2>1, <2>2
  <2>6. CASE tx.type \in {"local", "outbound"}
    <3>1. DebitsOn(c)' = S \cup {n + 1}
      BY <1>3, <2>2, <2>3, <2>4, <2>6
    <3>2. Cardinality(S \cup {n + 1}) = Cardinality(S) + 1
      BY <2>5, FS_AddElement
    <3> QED
      BY <2>1, <2>6, <3>1, <3>2
  <2>7. CASE tx.type \notin {"local", "outbound"}
    <3>1. DebitsOn(c)' = S
      BY <1>3, <2>2, <2>3, <2>4, <2>7
    <3> QED
      BY <2>1, <2>5, <2>7, <3>1
  <2> QED
    BY <2>6, <2>7
<1>6. PICK f : f = [d \in Communities |-> Cardinality(DebitsOn(d))]
  OBVIOUS
<1>7. PICK e : e = [d \in Communities |-> Cardinality(DebitsOn(d))']
  OBVIOUS
<1>8. Debits = SumFunctionOnSet(f, Communities) /\ Debits' = SumFunctionOnSet(e, Communities)
  BY <1>6, <1>7 DEF Debits, SumFunction
<1>9. /\ \A d \in Communities : f[d] \in Int /\ e[d] \in Int
      /\ \A d \in Communities : d # c => e[d] = f[d]
  BY <1>0, <1>1, <1>4, <1>5, <1>6, <1>7
<1>10. Debits \in Int /\ Debits' = Debits + e[c] - f[c]
  BY <1>0, <1>8, <1>9, SumChange, SumSame
<1> QED
  BY <1>0, <1>1, <1>5, <1>6, <1>7, <1>10

-----------------------------------------------------------------------------
(* What a debit and a credit do to what is held and under way.             *)

\* The coin, the accounts and the amount of an order.
LEMMA OrderFacts ==
    ASSUME NEW o \in Orders
    PROVE  /\ o.from \in Keys /\ o.to \in Keys /\ o.from # o.to /\ o.coin \in Communities
           /\ o.home \in Communities /\ o.away \in Communities /\ o.amount \in Nat /\ o.amount > 0
  BY OrdersAssumption DEF Order

\* Every key's part of what is held of a coin.
Holdings(coin) == [ck \in Communities \X Keys |-> FromEnd(ck[1], ck[2], coin, Last(ck[1]))]

\* Every order's part of what is under way of a coin.
UnderWay(coin) == [o \in Orders |-> IF o.coin = coin /\ o.home # o.away THEN Outstanding(o) ELSE 0]

\* A transaction is on a chain a number of times.
LEMMA TimesIsNat ==
    ASSUME Sequences1, NEW d \in Communities, NEW t
    PROVE  Times(d, t) \in Nat
<1>1. PICK n \in Nat : DOMAIN chain[d] = 1 .. n
  BY DEF Sequences1
<1>2. PICK S \in SUBSET (1 .. n) : S = {i \in DOMAIN chain[d] : chain[d][i].tx = t}
  BY <1>1
<1>3. IsFiniteSet(S)
  <2>1. IsFiniteSet(1 .. n)
    BY FS_Interval
  <2> QED
    BY <2>1, FS_Subset
<1> QED
  BY <1>2, <1>3, FS_CardinalityType DEF Times

\* The sums are over finite sets of integers.
LEMMA SumsFinite ==
    ASSUME Sequences1, BalancesOK, NEW coin \in Communities
    PROVE  /\ IsFiniteSet(Communities \X Keys)
           /\ \A ck \in Communities \X Keys : Holdings(coin)[ck] \in Nat
           /\ Held(coin) = SumFunctionOnSet(Holdings(coin), Communities \X Keys)
           /\ Held(coin) \in Int
           /\ \A o \in Orders : UnderWay(coin)[o] \in Int
           /\ InFlight(coin) = SumFunctionOnSet(UnderWay(coin), Orders) /\ InFlight(coin) \in Int
<1>1. IsFiniteSet(Communities \X Keys)
  BY FiniteAssumption, FS_Product
<1>2. \A ck \in Communities \X Keys : Holdings(coin)[ck] \in Nat
  BY FromEndIsNat DEF Holdings
<1>3. Held(coin) = SumFunctionOnSet(Holdings(coin), Communities \X Keys)
  BY DEF Held, Holdings, SumFunction
<1>4. Held(coin) \in Int
  <2>1. \A ck \in Communities \X Keys : Holdings(coin)[ck] \in Int
    BY <1>2
  <2> QED
    BY <1>1, <1>3, <2>1, SumSame
<1>5. \A o \in Orders : UnderWay(coin)[o] \in Int
  <2> SUFFICES ASSUME NEW o \in Orders PROVE UnderWay(coin)[o] \in Int
    OBVIOUS
  <2>1. /\ o.amount \in Nat /\ Times(o.home, OutboundTx(o)) \in Nat /\ Times(o.away, InboundTx(o)) \in Nat
    BY OrderFacts, TimesIsNat
  <2>2. Outstanding(o) \in Int
    BY <2>1 DEF Outstanding
  <2> QED
    BY <2>2 DEF UnderWay
<1>6. InFlight(coin) = SumFunctionOnSet(UnderWay(coin), Orders)
  BY DEF InFlight, UnderWay, SumFunction
<1>7. InFlight(coin) \in Int
  BY <1>5, <1>6, FiniteAssumption, SumSame
<1> QED
  BY <1>1, <1>2, <1>3, <1>4, <1>5, <1>6, <1>7

\* The new balance is the old one and the change; short by no more than the tolerance it is zero.
LEMMA AfterFacts ==
    ASSUME Sequences1, BalancesOK, NEW c \in Communities, NEW k \in Keys,
           NEW coin \in Communities, NEW change \in Int,
           NEW b, b = FromEnd(c, k, coin, Last(c))
    PROVE  /\ b \in Nat /\ After(c, k, coin, change) \in Nat
           /\ b + change >= 0 => After(c, k, coin, change) = b + change
           /\ b + change < 0 => After(c, k, coin, change) = 0
<1>1. b \in Nat
  BY FromEndIsNat
<1> QED
  BY <1>1 DEF After

\* The balances of a new entry: one key and one coin, or two keys.
LEMMA EntryBalances ==
    ASSUME Sequences1, BalancesOK, NEW c \in Communities, NEW o \in Orders
    PROVE  /\ NoBalances \in [Keys -> [Communities -> Nat \cup {NoBalance}]]
           /\ Debit(c, o) \in [Keys -> [Communities -> Nat \cup {NoBalance}]]
           /\ Credit(c, o) \in [Keys -> [Communities -> Nat \cup {NoBalance}]]
           /\ DebitCredit(c, o) \in [Keys -> [Communities -> Nat \cup {NoBalance}]]
           /\ \A k \in Keys, coin \in Communities :
                /\ NoBalances[k][coin] = NoBalance
                /\ Debit(c, o)[k][coin] = IF k = o.from /\ coin = o.coin
                      THEN After(c, o.from, o.coin, -o.amount) ELSE NoBalance
                /\ Credit(c, o)[k][coin] = IF k = o.to /\ coin = o.coin
                      THEN After(c, o.to, o.coin, o.amount) ELSE NoBalance
                /\ DebitCredit(c, o)[k][coin] =
                      IF coin # o.coin THEN NoBalance
                      ELSE IF k = o.to THEN After(c, o.to, o.coin, o.amount)
                      ELSE IF k = o.from THEN After(c, o.from, o.coin, -o.amount)
                      ELSE NoBalance
<1>0. /\ o.from \in Keys /\ o.to \in Keys /\ o.from # o.to /\ o.coin \in Communities
      /\ o.amount \in Int /\ -o.amount \in Int
  BY OrderFacts
<1>1. PICK a, b : a = After(c, o.from, o.coin, -o.amount) /\ b = After(c, o.to, o.coin, o.amount)
  OBVIOUS
<1>2. a \in Nat
  <2>1. After(c, o.from, o.coin, -o.amount) \in Nat
    BY <1>0, AfterFacts
  <2> QED
    BY <1>1, <2>1
<1>3. b \in Nat
  <2>1. After(c, o.to, o.coin, o.amount) \in Nat
    BY <1>0, AfterFacts
  <2> QED
    BY <1>1, <2>1
<1>4. NoBalances \in [Keys -> [Communities -> Nat \cup {NoBalance}]]
      /\ \A k \in Keys, coin \in Communities : NoBalances[k][coin] = NoBalance
  BY DEF NoBalances
<1>5. /\ Debit(c, o) = [NoBalances EXCEPT ![o.from][o.coin] = a]
      /\ Credit(c, o) = [NoBalances EXCEPT ![o.to][o.coin] = b]
      /\ DebitCredit(c, o) = [Debit(c, o) EXCEPT ![o.to][o.coin] = b]
  BY <1>1 DEF Debit, Credit, DebitCredit
<1>6. /\ Debit(c, o) \in [Keys -> [Communities -> Nat \cup {NoBalance}]]
      /\ \A k \in Keys, coin \in Communities :
            Debit(c, o)[k][coin] = IF k = o.from /\ coin = o.coin THEN a ELSE NoBalance
  BY <1>0, <1>2, <1>4, <1>5
<1>7. /\ Credit(c, o) \in [Keys -> [Communities -> Nat \cup {NoBalance}]]
      /\ \A k \in Keys, coin \in Communities :
            Credit(c, o)[k][coin] = IF k = o.to /\ coin = o.coin THEN b ELSE NoBalance
  BY <1>0, <1>3, <1>4, <1>5
<1>8. /\ DebitCredit(c, o) \in [Keys -> [Communities -> Nat \cup {NoBalance}]]
      /\ \A k \in Keys, coin \in Communities :
            DebitCredit(c, o)[k][coin] = IF k = o.to /\ coin = o.coin THEN b ELSE Debit(c, o)[k][coin]
  BY <1>0, <1>3, <1>5, <1>6, SMTT(40)
<1> QED
  BY <1>0, <1>1, <1>4, <1>6, <1>7, <1>8

\* The entries keep saying what every key has.
LEMMA BalancesGrown ==
    ASSUME Sequences1, BalancesOK, NEW c, NEW tx, NEW at, NEW nr, NEW bal, Grown(c, tx, at, nr, bal),
           bal \in [Keys -> [Communities -> Nat \cup {NoBalance}]]
    PROVE  BalancesOK'
<1>1. PICK n \in Nat : n = Len(chain[c]) /\ DOMAIN chain[c] = 1 .. n
  BY GrownFacts
<1>2. /\ DOMAIN chain'[c] = 1 .. (n + 1) /\ chain'[c][n + 1].bal = bal
      /\ \A i \in 1 .. n : chain'[c][i] = chain[c][i]
  BY <1>1, GrownFacts
<1>3. \A i \in 1 .. (n + 1) : i \in 1 .. n \/ i = n + 1
  OBVIOUS
<1> SUFFICES ASSUME NEW d \in Communities, NEW i \in DOMAIN chain'[d]
             PROVE  chain'[d][i].bal \in [Keys -> [Communities -> Nat \cup {NoBalance}]]
  BY DEF BalancesOK
<1>4. CASE d = c
  BY <1>1, <1>2, <1>3, <1>4 DEF BalancesOK
<1>5. CASE d # c
  <2>1. chain'[d] = chain[d]
    BY <1>5, GrownFacts
  <2> QED
    BY <2>1 DEF BalancesOK
<1> QED
  BY <1>4, <1>5

\* What the keys hold after a step, by what the new entry says.
LEMMA HoldingsGrown ==
    ASSUME Sequences1, NEW c, NEW tx, NEW at, NEW nr, NEW bal, Grown(c, tx, at, nr, bal),
           NEW coin \in Communities
    PROVE  \A ck \in Communities \X Keys : Holdings(coin)'[ck] =
              IF ck[1] = c /\ bal[ck[2]][coin] # NoBalance THEN bal[ck[2]][coin] ELSE Holdings(coin)[ck]
<1> SUFFICES ASSUME NEW d \in Communities, NEW k \in Keys, NEW ck, ck = <<d, k>>
             PROVE  Holdings(coin)'[ck] =
              IF ck[1] = c /\ bal[ck[2]][coin] # NoBalance THEN bal[ck[2]][coin] ELSE Holdings(coin)[ck]
  OBVIOUS
<1>1. /\ Holdings(coin)'[ck] = FromEnd(d, k, coin, Last(d))'
      /\ Holdings(coin)[ck] = FromEnd(d, k, coin, Last(d))
  BY DEF Holdings
<1>2. FromEnd(d, k, coin, Last(d))' =
        IF d = c /\ bal[k][coin] # NoBalance THEN bal[k][coin] ELSE FromEnd(d, k, coin, Last(d))
  BY FromEndGrown
<1> QED
  BY <1>1, <1>2

\* An entry that says nothing of a coin leaves what is held of it.
LEMMA HeldSame ==
    ASSUME Sequences1, BalancesOK, NEW c, NEW tx, NEW at, NEW nr, NEW bal, Grown(c, tx, at, nr, bal),
           NEW coin \in Communities, \A k \in Keys : bal[k][coin] = NoBalance
    PROVE  Held(coin)' = Held(coin)
<1>1. PICK f, e : f = Holdings(coin) /\ e = Holdings(coin)'
  OBVIOUS
<1>2. /\ IsFiniteSet(Communities \X Keys) /\ \A ck \in Communities \X Keys : f[ck] \in Nat
      /\ Held(coin) = SumFunctionOnSet(f, Communities \X Keys)
  BY <1>1, SumsFinite
<1>3. Held(coin)' = SumFunctionOnSet(e, Communities \X Keys)
  BY <1>1 DEF Held, Holdings, SumFunction
<1>4. \A ck \in Communities \X Keys : f[ck] \in Int /\ f[ck] = e[ck]
  BY <1>1, <1>2, HoldingsGrown
<1> QED
  BY <1>2, <1>3, <1>4, SumSame

\* An entry that sets what one key has of a coin changes what is held by as much.
LEMMA HeldOne ==
    ASSUME Sequences1, BalancesOK, NEW c, NEW tx, NEW at, NEW nr, NEW bal, Grown(c, tx, at, nr, bal),
           NEW coin \in Communities, NEW k \in Keys, bal[k][coin] \in Nat,
           \A l \in Keys : l # k => bal[l][coin] = NoBalance
    PROVE  Held(coin)' = Held(coin) + bal[k][coin] - FromEnd(c, k, coin, Last(c))
<1>0. c \in Communities /\ bal[k][coin] # NoBalance
  BY DEF Grown, NoBalance
<1>1. PICK f, e : f = Holdings(coin) /\ e = Holdings(coin)'
  OBVIOUS
<1>2. /\ IsFiniteSet(Communities \X Keys) /\ \A ck \in Communities \X Keys : f[ck] \in Nat
      /\ Held(coin) = SumFunctionOnSet(f, Communities \X Keys)
  BY <1>1, SumsFinite
<1>3. Held(coin)' = SumFunctionOnSet(e, Communities \X Keys)
  BY <1>1 DEF Held, Holdings, SumFunction
<1>4. PICK x \in Communities \X Keys : x = <<c, k>>
  BY <1>0
<1>5. e[x] = bal[k][coin] /\ f[x] = FromEnd(c, k, coin, Last(c))
  <2>1. e[x] = bal[k][coin]
    BY <1>0, <1>1, <1>4, HoldingsGrown
  <2> QED
    BY <1>0, <1>1, <1>4, <2>1 DEF Holdings
<1>6. \A ck \in Communities \X Keys : ck # x => e[ck] = f[ck]
  BY <1>1, <1>4, HoldingsGrown
<1>7. \A ck \in Communities \X Keys : f[ck] \in Int /\ e[ck] \in Int
  BY <1>2, <1>5, <1>6
<1>8. SumFunctionOnSet(e, Communities \X Keys)
        = SumFunctionOnSet(f, Communities \X Keys) + e[x] - f[x]
  BY <1>2, <1>6, <1>7, SumChange
<1> QED
  BY <1>2, <1>3, <1>5, <1>8

\* The same for an entry that sets what two keys have.
LEMMA HeldTwo ==
    ASSUME Sequences1, BalancesOK, NEW c, NEW tx, NEW at, NEW nr, NEW bal, Grown(c, tx, at, nr, bal),
           NEW coin \in Communities, NEW k \in Keys, NEW m \in Keys, k # m,
           bal[k][coin] \in Nat, bal[m][coin] \in Nat,
           \A l \in Keys : l # k /\ l # m => bal[l][coin] = NoBalance
    PROVE  Held(coin)' = Held(coin) + (bal[k][coin] - FromEnd(c, k, coin, Last(c)))
                                    + (bal[m][coin] - FromEnd(c, m, coin, Last(c)))
<1>0. c \in Communities /\ bal[k][coin] # NoBalance /\ bal[m][coin] # NoBalance
  BY DEF Grown, NoBalance
<1>1. PICK f, e : f = Holdings(coin) /\ e = Holdings(coin)'
  OBVIOUS
<1>2. /\ IsFiniteSet(Communities \X Keys) /\ \A ck \in Communities \X Keys : f[ck] \in Nat
      /\ Held(coin) = SumFunctionOnSet(f, Communities \X Keys) /\ Held(coin) \in Int
  BY <1>1, SumsFinite
<1>3. Held(coin)' = SumFunctionOnSet(e, Communities \X Keys)
  BY <1>1 DEF Held, Holdings, SumFunction
<1>4. PICK x \in Communities \X Keys, y \in Communities \X Keys :
        x = <<c, k>> /\ y = <<c, m>> /\ x # y
  <2>1. <<c, k>> # <<c, m>> /\ <<c, k>> \in Communities \X Keys /\ <<c, m>> \in Communities \X Keys
    BY <1>0
  <2> QED
    BY <2>1
<1>5. /\ e[x] = bal[k][coin] /\ f[x] = FromEnd(c, k, coin, Last(c))
      /\ e[y] = bal[m][coin] /\ f[y] = FromEnd(c, m, coin, Last(c))
  <2>1. e[x] = bal[k][coin] /\ e[y] = bal[m][coin]
    BY <1>0, <1>1, <1>4, HoldingsGrown
  <2> QED
    BY <1>0, <1>1, <1>4, <2>1 DEF Holdings
<1>6. \A ck \in Communities \X Keys : ck # x /\ ck # y => e[ck] = f[ck]
  BY <1>1, <1>4, HoldingsGrown
<1>7. \A ck \in Communities \X Keys : f[ck] \in Int /\ e[ck] \in Int
  BY <1>2, <1>5, <1>6
<1>8. PICK h : h = [ck \in Communities \X Keys |-> IF ck = x THEN e[x] ELSE f[ck]]
  OBVIOUS
<1>9. /\ h[x] = e[x] /\ h[y] = f[y] /\ \A ck \in Communities \X Keys : h[ck] \in Int
      /\ \A ck \in Communities \X Keys : ck # x => h[ck] = f[ck]
      /\ \A ck \in Communities \X Keys : ck # y => e[ck] = h[ck]
  BY <1>4, <1>6, <1>7, <1>8
<1>10. SumFunctionOnSet(h, Communities \X Keys)
        = SumFunctionOnSet(f, Communities \X Keys) + h[x] - f[x]
  BY <1>2, <1>7, <1>9, SumChange
<1>11. SumFunctionOnSet(e, Communities \X Keys)
        = SumFunctionOnSet(h, Communities \X Keys) + e[y] - h[y]
  BY <1>2, <1>7, <1>9, SumChange
<1>12. e[x] \in Int /\ f[x] \in Int /\ e[y] \in Int /\ f[y] \in Int
  BY <1>7
<1>13. SumFunctionOnSet(e, Communities \X Keys)
        = SumFunctionOnSet(f, Communities \X Keys) + (e[x] - f[x]) + (e[y] - f[y])
  BY <1>2, <1>9, <1>10, <1>11, <1>12
<1> QED
  BY <1>2, <1>3, <1>5, <1>13

\* What a step does to what is under way of a coin, order by order.
LEMMA UnderWayGrown ==
    ASSUME Sequences1, NEW c, NEW tx, NEW at, NEW nr, NEW bal, Grown(c, tx, at, nr, bal),
           NEW coin \in Communities, NEW o \in Orders
    PROVE  UnderWay(coin)'[o] =
              IF o.coin = coin /\ o.home # o.away
              THEN UnderWay(coin)[o]
                   + (IF o.home = c /\ OutboundTx(o) = tx THEN o.amount ELSE 0)
                   - (IF o.away = c /\ InboundTx(o) = tx THEN o.amount ELSE 0)
              ELSE UnderWay(coin)[o]
<1>1. o.amount \in Nat /\ o.home \in Communities /\ o.away \in Communities
  BY OrderFacts
<1>2. PICK m \in Nat, n \in Nat : m = Times(o.home, OutboundTx(o)) /\ n = Times(o.away, InboundTx(o))
  BY <1>1, TimesIsNat
<1>3. PICK x \in {0, 1} : x = IF o.home = c /\ OutboundTx(o) = tx THEN 1 ELSE 0
  OBVIOUS
<1>4. PICK y \in {0, 1} : y = IF o.away = c /\ InboundTx(o) = tx THEN 1 ELSE 0
  OBVIOUS
<1>5. Times(o.home, OutboundTx(o))' = m + x
  BY <1>1, <1>2, <1>3, TimesGrown
<1>6. Times(o.away, InboundTx(o))' = n + y
  BY <1>1, <1>2, <1>4, TimesGrown
<1>7. Outstanding(o) = o.amount * (m - n) /\ Outstanding(o)' = o.amount * ((m + x) - (n + y))
  BY <1>2, <1>5, <1>6 DEF Outstanding
<1>8. o.amount * ((m + x) - (n + y)) = o.amount * (m - n) + o.amount * x - o.amount * y
  BY <1>1
<1>9. /\ o.amount * x = (IF o.home = c /\ OutboundTx(o) = tx THEN o.amount ELSE 0)
      /\ o.amount * y = (IF o.away = c /\ InboundTx(o) = tx THEN o.amount ELSE 0)
  BY <1>1, <1>3, <1>4
<1> QED
  BY <1>7, <1>8, <1>9 DEF UnderWay

\* What is under way changes only with an outbound or an inbound transaction.
LEMMA InFlightSame ==
    ASSUME Sequences1, BalancesOK, NEW c, NEW tx, NEW at, NEW nr, NEW bal, Grown(c, tx, at, nr, bal),
           tx.type \in {"register", "local"}, NEW coin \in Communities
    PROVE  InFlight(coin)' = InFlight(coin)
<1>1. \A o \in Orders : OutboundTx(o) # tx /\ InboundTx(o) # tx
  BY DEF OutboundTx, InboundTx
<1>2. PICK f, e : f = UnderWay(coin) /\ e = UnderWay(coin)'
  OBVIOUS
<1>3. /\ \A o \in Orders : f[o] \in Int
      /\ InFlight(coin) = SumFunctionOnSet(f, Orders) /\ IsFiniteSet(Orders)
  BY <1>2, SumsFinite, FiniteAssumption
<1>4. InFlight(coin)' = SumFunctionOnSet(e, Orders)
  BY <1>2 DEF InFlight, UnderWay, SumFunction
<1>5. \A o \in Orders : f[o] \in Int /\ f[o] = e[o]
  <2> SUFFICES ASSUME NEW o \in Orders PROVE f[o] \in Int /\ f[o] = e[o]
    OBVIOUS
  <2>1. o.amount \in Nat /\ f[o] \in Int
    BY <1>3, OrderFacts
  <2> QED
    BY <1>1, <1>2, <2>1, UnderWayGrown
<1> QED
  BY <1>3, <1>4, <1>5, SumSame

\* An outbound or an inbound transaction changes what is under way by its amount.
LEMMA InFlightMoves ==
    ASSUME Sequences1, BalancesOK, NEW o \in Orders, o.home # o.away,
           NEW c, NEW tx, NEW at, NEW nr, NEW bal, Grown(c, tx, at, nr, bal),
           NEW moved \in Int,
           \/ c = o.home /\ tx = OutboundTx(o) /\ moved = o.amount
           \/ c = o.away /\ tx = InboundTx(o) /\ moved = -o.amount,
           NEW coin \in Communities
    PROVE  InFlight(coin)' = InFlight(coin) + (IF coin = o.coin THEN moved ELSE 0)
<1>1. PICK f, e : f = UnderWay(coin) /\ e = UnderWay(coin)'
  OBVIOUS
<1>2. /\ \A p \in Orders : f[p] \in Int
      /\ InFlight(coin) = SumFunctionOnSet(f, Orders) /\ IsFiniteSet(Orders) /\ InFlight(coin) \in Int
  BY <1>1, SumsFinite, FiniteAssumption
<1>3. InFlight(coin)' = SumFunctionOnSet(e, Orders)
  BY <1>1 DEF InFlight, UnderWay, SumFunction
<1>4. \A p \in Orders : /\ OutboundTx(p) = tx => p = o /\ tx = OutboundTx(o)
                        /\ InboundTx(p) = tx => p = o /\ tx = InboundTx(o)
  BY DEF OutboundTx, InboundTx
<1>5. OutboundTx(o) # InboundTx(o)
  BY DEF OutboundTx, InboundTx
<1>6. o.amount \in Nat /\ o.amount > 0
  BY OrderFacts
<1>7. e[o] = f[o] + (IF coin = o.coin THEN moved ELSE 0)
  <2>1. e[o] = IF o.coin = coin /\ o.home # o.away
               THEN f[o] + (IF o.home = c /\ OutboundTx(o) = tx THEN o.amount ELSE 0)
                         - (IF o.away = c /\ InboundTx(o) = tx THEN o.amount ELSE 0)
               ELSE f[o]
    BY <1>1, UnderWayGrown
  <2> QED
    BY <1>2, <1>5, <1>6, <2>1
<1>8. \A p \in Orders : p # o => e[p] = f[p]
  <2> SUFFICES ASSUME NEW p \in Orders, p # o PROVE e[p] = f[p]
    OBVIOUS
  <2>1. OutboundTx(p) # tx /\ InboundTx(p) # tx /\ f[p] \in Int
    BY <1>2, <1>4
  <2> QED
    BY <1>1, <2>1, UnderWayGrown
<1>9. \A p \in Orders : f[p] \in Int /\ e[p] \in Int
  BY <1>2, <1>7, <1>8
<1>10. SumFunctionOnSet(e, Orders) = SumFunctionOnSet(f, Orders) + e[o] - f[o]
  BY <1>2, <1>8, <1>9, SumChange
<1> QED
  BY <1>2, <1>3, <1>7, <1>9, <1>10

-----------------------------------------------------------------------------
(* Conservation.                                                           *)

\* What a step has to do for a coin: a debit may add the tolerance, nothing else may add or take.
LEMMA ConservationStep ==
    ASSUME Sequences1, BalancesOK, Conservation, Debits \in Int, NEW debit \in {0, 1},
           Debits' = Debits + debit,
           \A coin \in Communities : \E gain \in Int :
              /\ Held(coin)' + InFlight(coin)' = Held(coin) + InFlight(coin) + gain
              /\ 0 <= gain /\ gain <= debit * Tolerance
    PROVE  Conservation'
<1> SUFFICES ASSUME NEW coin \in Communities
             PROVE  /\ Funds * Cardinality(Funded[coin]) <= Held(coin)' + InFlight(coin)'
                    /\ Held(coin)' + InFlight(coin)'
                         <= Funds * Cardinality(Funded[coin]) + Debits' * Tolerance
  BY DEF Conservation
<1>1. Cardinality(Funded[coin]) \in Nat
  BY FiniteAssumption, KeysAssumption, FS_Subset, FS_CardinalityType
<1>2. PICK start \in Nat : start = Funds * Cardinality(Funded[coin])
  BY <1>1, NumbersAssumption
<1>3. PICK now \in Int : now = Held(coin) + InFlight(coin)
  BY SumsFinite
<1>4. start <= now /\ now <= start + Debits * Tolerance
  BY <1>2, <1>3 DEF Conservation
<1>5. PICK gain \in Int : /\ Held(coin)' + InFlight(coin)' = now + gain
                          /\ 0 <= gain /\ gain <= debit * Tolerance
  BY <1>3
<1>6. PICK d \in Int, tolerance \in Nat : d = Debits /\ tolerance = Tolerance
  BY NumbersAssumption
<1>7. (d + debit) * tolerance = d * tolerance + debit * tolerance
  OBVIOUS
<1>8. PICK p \in Int, q \in Int : p = d * tolerance /\ q = debit * tolerance
  BY <1>6
<1>9. start <= now + gain /\ now + gain <= start + (p + q)
  BY <1>4, <1>5, <1>6, <1>8
<1>10. Debits' * Tolerance = p + q
  BY <1>6, <1>7, <1>8
<1> QED
  BY <1>2, <1>5, <1>9, <1>10

\* The sender has the amount, or is short by no more than the tolerance.
LEMMA DebitGain ==
    ASSUME Sequences1, BalancesOK, NEW o \in Orders, Covered(o, o.home, Last(o.home)),
           NEW b, b = FromEnd(o.home, o.from, o.coin, Last(o.home)),
           NEW a, a = After(o.home, o.from, o.coin, -o.amount)
    PROVE  a \in Nat /\ b \in Nat /\ 0 <= a - b + o.amount /\ a - b + o.amount <= Tolerance
<1>1. o.home \in Communities /\ o.from \in Keys /\ o.coin \in Communities /\ o.amount \in Nat
  BY OrderFacts
<1>2. PICK change \in Int : change = -o.amount
  BY <1>1
<1>3. /\ b \in Nat /\ After(o.home, o.from, o.coin, change) \in Nat
      /\ b + change >= 0 => After(o.home, o.from, o.coin, change) = b + change
      /\ b + change < 0 => After(o.home, o.from, o.coin, change) = 0
  BY <1>1, AfterFacts
<1>4. o.amount <= b + Tolerance /\ Tolerance \in Nat
  BY NumbersAssumption DEF Covered
<1> QED
  BY <1>1, <1>2, <1>3, <1>4

\* The recipient gets the amount.
LEMMA CreditGain ==
    ASSUME Sequences1, BalancesOK, NEW o \in Orders, NEW c \in Communities,
           NEW b, b = FromEnd(c, o.to, o.coin, Last(c)),
           NEW a, a = After(c, o.to, o.coin, o.amount)
    PROVE  a \in Nat /\ b \in Nat /\ a = b + o.amount
<1>1. o.to \in Keys /\ o.coin \in Communities /\ o.amount \in Nat
  BY OrderFacts
<1>2. /\ b \in Nat /\ After(c, o.to, o.coin, o.amount) \in Nat
      /\ b + o.amount >= 0 => After(c, o.to, o.coin, o.amount) = b + o.amount
  BY <1>1, AfterFacts
<1> QED
  BY <1>1, <1>2

\* The three transfers and a registration.
LEMMA RegisterConserves ==
    ASSUME IInv, BalancesOK, Conservation, NEW c \in Communities, NEW k, NEW at,
           Grown(c, RegisterTx(c, k), at, NoAnchor, NoBalances)
    PROVE  BalancesOK' /\ Conservation'
<1>0. Sequences1
  BY DEF IInv
<1>1. /\ NoBalances \in [Keys -> [Communities -> Nat \cup {NoBalance}]]
      /\ \A l \in Keys, coin \in Communities : NoBalances[l][coin] = NoBalance
  BY DEF NoBalances
<1>2. BalancesOK'
  BY <1>0, <1>1, BalancesGrown
<1>3. RegisterTx(c, k).type = "register"
  BY DEF RegisterTx
<1>4. Debits \in Int /\ Debits' = Debits + 0
  BY <1>0, <1>3, DebitsGrown
<1>5. \A coin \in Communities : Held(coin)' = Held(coin) /\ InFlight(coin)' = InFlight(coin)
  BY <1>0, <1>1, <1>3, HeldSame, InFlightSame
<1>6. \A coin \in Communities : Held(coin) \in Int /\ InFlight(coin) \in Int
  BY <1>0, SumsFinite
<1>7. \A coin \in Communities : \E gain \in Int :
              /\ Held(coin)' + InFlight(coin)' = Held(coin) + InFlight(coin) + gain
              /\ 0 <= gain /\ gain <= 0 * Tolerance
  <2> TAKE coin \in Communities
  <2> WITNESS 0 \in Int
  <2> QED
    BY <1>5, <1>6, NumbersAssumption
<1>8. Conservation'
  BY <1>0, <1>4, <1>7, ConservationStep
<1> QED
  BY <1>2, <1>8

\* A local transfer debits and credits on one chain.
LEMMA LocalConserves ==
    ASSUME IInv, BalancesOK, Conservation, NEW o \in Orders, Covered(o, o.home, Last(o.home)),
           NEW at, Grown(o.home, LocalTx(o), at, NoAnchor, DebitCredit(o.home, o))
    PROVE  BalancesOK' /\ Conservation'
<1>0. /\ Sequences1 /\ o.home \in Communities /\ o.from \in Keys /\ o.to \in Keys
      /\ o.from # o.to /\ o.coin \in Communities /\ o.amount \in Nat /\ Tolerance \in Nat
  BY OrderFacts, NumbersAssumption DEF IInv
<1>1. PICK bal : bal = DebitCredit(o.home, o)
  OBVIOUS
<1>2. Grown(o.home, LocalTx(o), at, NoAnchor, bal)
  BY <1>1
<1>3. /\ bal \in [Keys -> [Communities -> Nat \cup {NoBalance}]]
      /\ \A k \in Keys, coin \in Communities :
            bal[k][coin] = IF coin # o.coin THEN NoBalance
                           ELSE IF k = o.to THEN After(o.home, o.to, o.coin, o.amount)
                           ELSE IF k = o.from THEN After(o.home, o.from, o.coin, -o.amount)
                           ELSE NoBalance
  BY <1>0, <1>1, EntryBalances
<1>4. BalancesOK'
  BY <1>0, <1>2, <1>3, BalancesGrown
<1>5. LocalTx(o).type = "local"
  BY DEF LocalTx
<1>6. Debits \in Int /\ Debits' = Debits + 1
  BY <1>0, <1>2, <1>5, DebitsGrown
<1>7. \A coin \in Communities : InFlight(coin)' = InFlight(coin)
  BY <1>0, <1>2, <1>5, InFlightSame
<1>8. \A coin \in Communities : Held(coin) \in Int /\ InFlight(coin) \in Int
  BY <1>0, SumsFinite
<1>9. \A coin \in Communities : \E gain \in Int :
              /\ Held(coin)' + InFlight(coin)' = Held(coin) + InFlight(coin) + gain
              /\ 0 <= gain /\ gain <= 1 * Tolerance
  <2> TAKE coin \in Communities
  <2>1. CASE coin # o.coin
    <3>1. Held(coin)' = Held(coin)
      BY <1>0, <1>2, <1>3, <2>1, HeldSame
    <3> WITNESS 0 \in Int
    <3> QED
      BY <1>0, <1>7, <1>8, <3>1
  <2>2. CASE coin = o.coin
    <3>1. PICK b, d : /\ b = FromEnd(o.home, o.from, o.coin, Last(o.home))
                      /\ d = FromEnd(o.home, o.to, o.coin, Last(o.home))
      OBVIOUS
    <3>2. PICK x, y : /\ x = After(o.home, o.from, o.coin, -o.amount)
                      /\ y = After(o.home, o.to, o.coin, o.amount)
      OBVIOUS
    <3>3. x \in Nat /\ b \in Nat /\ 0 <= x - b + o.amount /\ x - b + o.amount <= Tolerance
      BY <1>0, <3>1, <3>2, DebitGain
    <3>4. y \in Nat /\ d \in Nat /\ y = d + o.amount
      BY <1>0, <3>1, <3>2, CreditGain
    <3>5. /\ bal[o.from][coin] = x /\ bal[o.to][coin] = y
          /\ \A l \in Keys : l # o.from /\ l # o.to => bal[l][coin] = NoBalance
      BY <1>0, <1>3, <2>2, <3>2
    <3>6. Held(coin)' = Held(coin) + (bal[o.from][coin] - FromEnd(o.home, o.from, coin, Last(o.home)))
                                   + (bal[o.to][coin] - FromEnd(o.home, o.to, coin, Last(o.home)))
      BY <1>0, <1>2, <3>3, <3>4, <3>5, HeldTwo
    <3>7. Held(coin)' = Held(coin) + (x - b) + (y - d)
      BY <2>2, <3>1, <3>5, <3>6
    <3>8. PICK gain \in Int : gain = x - b + o.amount
      BY <1>0, <3>3
    <3> WITNESS gain \in Int
    <3> QED
      BY <1>0, <1>7, <1>8, <3>3, <3>4, <3>7, <3>8
  <2> QED
    BY <2>1, <2>2
<1>10. Conservation'
  BY <1>0, <1>6, <1>9, ConservationStep
<1> QED
  BY <1>4, <1>10

\* An outbound transaction debits, and its amount is under way.
LEMMA OutboundConserves ==
    ASSUME IInv, BalancesOK, Conservation, NEW o \in Orders, o.home # o.away,
           Covered(o, o.home, Last(o.home)), NEW at,
           Grown(o.home, OutboundTx(o), at, NoAnchor, Debit(o.home, o))
    PROVE  BalancesOK' /\ Conservation'
<1>0. /\ Sequences1 /\ o.home \in Communities /\ o.from \in Keys
      /\ o.coin \in Communities /\ o.amount \in Nat /\ Tolerance \in Nat
  BY OrderFacts, NumbersAssumption DEF IInv
<1>1. PICK bal : bal = Debit(o.home, o)
  OBVIOUS
<1>2. Grown(o.home, OutboundTx(o), at, NoAnchor, bal)
  BY <1>1
<1>3. /\ bal \in [Keys -> [Communities -> Nat \cup {NoBalance}]]
      /\ \A k \in Keys, coin \in Communities :
            bal[k][coin] = IF k = o.from /\ coin = o.coin
                           THEN After(o.home, o.from, o.coin, -o.amount) ELSE NoBalance
  BY <1>0, <1>1, EntryBalances
<1>4. BalancesOK'
  BY <1>0, <1>2, <1>3, BalancesGrown
<1>5. OutboundTx(o).type = "outbound"
  BY DEF OutboundTx
<1>6. Debits \in Int /\ Debits' = Debits + 1
  BY <1>0, <1>2, <1>5, DebitsGrown
<1>7. \A coin \in Communities :
        InFlight(coin)' = InFlight(coin) + (IF coin = o.coin THEN o.amount ELSE 0)
  BY <1>0, <1>2, InFlightMoves
<1>8. \A coin \in Communities : Held(coin) \in Int /\ InFlight(coin) \in Int
  BY <1>0, SumsFinite
<1>9. \A coin \in Communities : \E gain \in Int :
              /\ Held(coin)' + InFlight(coin)' = Held(coin) + InFlight(coin) + gain
              /\ 0 <= gain /\ gain <= 1 * Tolerance
  <2> TAKE coin \in Communities
  <2>1. CASE coin # o.coin
    <3>1. Held(coin)' = Held(coin)
      BY <1>0, <1>2, <1>3, <2>1, HeldSame
    <3> WITNESS 0 \in Int
    <3> QED
      BY <1>0, <1>7, <1>8, <2>1, <3>1
  <2>2. CASE coin = o.coin
    <3>1. PICK b, x : /\ b = FromEnd(o.home, o.from, o.coin, Last(o.home))
                      /\ x = After(o.home, o.from, o.coin, -o.amount)
      OBVIOUS
    <3>2. x \in Nat /\ b \in Nat /\ 0 <= x - b + o.amount /\ x - b + o.amount <= Tolerance
      BY <1>0, <3>1, DebitGain
    <3>3. /\ bal[o.from][coin] = x
          /\ \A l \in Keys : l # o.from => bal[l][coin] = NoBalance
      BY <1>0, <1>3, <2>2, <3>1
    <3>4. Held(coin)' = Held(coin) + bal[o.from][coin] - FromEnd(o.home, o.from, coin, Last(o.home))
      BY <1>0, <1>2, <3>2, <3>3, HeldOne
    <3>5. Held(coin)' = Held(coin) + x - b
      BY <2>2, <3>1, <3>3, <3>4
    <3>6. PICK gain \in Int : gain = x - b + o.amount
      BY <1>0, <3>2
    <3> WITNESS gain \in Int
    <3> QED
      BY <1>0, <1>7, <1>8, <2>2, <3>2, <3>5, <3>6
  <2> QED
    BY <2>1, <2>2
<1>10. Conservation'
  BY <1>0, <1>6, <1>9, ConservationStep
<1> QED
  BY <1>4, <1>10

\* An inbound transaction credits what was under way.
LEMMA InboundConserves ==
    ASSUME IInv, BalancesOK, Conservation, NEW o \in Orders, o.home # o.away,
           NEW at, NEW nr, Grown(o.away, InboundTx(o), at, nr, Credit(o.away, o))
    PROVE  BalancesOK' /\ Conservation'
<1>0. /\ Sequences1 /\ o.away \in Communities /\ o.to \in Keys
      /\ o.coin \in Communities /\ o.amount \in Nat /\ Tolerance \in Nat
  BY OrderFacts, NumbersAssumption DEF IInv
<1>1. PICK bal : bal = Credit(o.away, o)
  OBVIOUS
<1>2. Grown(o.away, InboundTx(o), at, nr, bal)
  BY <1>1
<1>3. /\ bal \in [Keys -> [Communities -> Nat \cup {NoBalance}]]
      /\ \A k \in Keys, coin \in Communities :
            bal[k][coin] = IF k = o.to /\ coin = o.coin
                           THEN After(o.away, o.to, o.coin, o.amount) ELSE NoBalance
  BY <1>0, <1>1, EntryBalances
<1>4. BalancesOK'
  BY <1>0, <1>2, <1>3, BalancesGrown
<1>5. InboundTx(o).type = "inbound"
  BY DEF InboundTx
<1>6. Debits \in Int /\ Debits' = Debits + 0
  BY <1>0, <1>2, <1>5, DebitsGrown
<1>7. \A coin \in Communities :
        InFlight(coin)' = InFlight(coin) + (IF coin = o.coin THEN -o.amount ELSE 0)
  <2>1. PICK moved \in Int : moved = -o.amount
    BY <1>0
  <2> QED
    BY <1>0, <1>2, <2>1, InFlightMoves
<1>8. \A coin \in Communities : Held(coin) \in Int /\ InFlight(coin) \in Int
  BY <1>0, SumsFinite
<1>9. \A coin \in Communities : \E gain \in Int :
              /\ Held(coin)' + InFlight(coin)' = Held(coin) + InFlight(coin) + gain
              /\ 0 <= gain /\ gain <= 0 * Tolerance
  <2> TAKE coin \in Communities
  <2> WITNESS 0 \in Int
  <2>1. CASE coin # o.coin
    <3>1. Held(coin)' = Held(coin)
      BY <1>0, <1>2, <1>3, <2>1, HeldSame
    <3> QED
      BY <1>0, <1>7, <1>8, <2>1, <3>1
  <2>2. CASE coin = o.coin
    <3>1. PICK b, y : /\ b = FromEnd(o.away, o.to, o.coin, Last(o.away))
                      /\ y = After(o.away, o.to, o.coin, o.amount)
      OBVIOUS
    <3>2. y \in Nat /\ b \in Nat /\ y = b + o.amount
      BY <1>0, <3>1, CreditGain
    <3>3. /\ bal[o.to][coin] = y
          /\ \A l \in Keys : l # o.to => bal[l][coin] = NoBalance
      BY <1>0, <1>3, <2>2, <3>1
    <3>4. Held(coin)' = Held(coin) + bal[o.to][coin] - FromEnd(o.away, o.to, coin, Last(o.away))
      BY <1>0, <1>2, <3>2, <3>3, HeldOne
    <3>5. Held(coin)' = Held(coin) + y - b
      BY <2>2, <3>1, <3>3, <3>4
    <3> QED
      BY <1>0, <1>7, <1>8, <2>2, <3>2, <3>5
  <2> QED
    BY <2>1, <2>2
<1>10. Conservation'
  BY <1>0, <1>6, <1>9, ConservationStep
<1> QED
  BY <1>4, <1>10

\* At the start the funded keys have what they were given, and nothing is under way.
LEMMA InitConserves ==
    ASSUME Init
    PROVE  BalancesOK /\ Conservation
<1>1. \A c \in Communities : chain[c] = <<>> /\ DOMAIN chain[c] = {} /\ Last(c) = 0
  BY DEF Init, Last
<1>2. BalancesOK
  BY <1>1 DEF BalancesOK
<1>3. Sequences1
  BY InitInv DEF IInv
<1>4. Debits = 0
  <2>1. \A c \in Communities : DebitsOn(c) = {}
    BY <1>1 DEF DebitsOn, Entries
  <2>2. PICK f : f = [c \in Communities |-> Cardinality(DebitsOn(c))]
    OBVIOUS
  <2>3. PICK T \in SUBSET Communities : T = {}
    OBVIOUS
  <2>4. \A c \in Communities : f[c] = IF c \in T THEN 0 ELSE 0
    BY <2>1, <2>2, FS_EmptySet
  <2>5. SumFunctionOnSet(f, Communities) = 0 * Cardinality(T)
    BY <2>4, FiniteAssumption, SumOfPart
  <2>6. Cardinality(T) = 0
    BY <2>3, FS_EmptySet
  <2> QED
    BY <2>2, <2>5, <2>6 DEF Debits, SumFunction
<1>5. ASSUME NEW coin \in Communities
      PROVE  InFlight(coin) = 0
  <2>1. \A o \in Orders : Times(o.home, OutboundTx(o)) = 0 /\ Times(o.away, InboundTx(o)) = 0
    BY <1>1, OrderFacts, FS_EmptySet DEF Times
  <2>2. PICK f : f = UnderWay(coin)
    OBVIOUS
  <2>3. PICK T \in SUBSET Orders : T = {}
    OBVIOUS
  <2>4. \A o \in Orders : f[o] = IF o \in T THEN 0 ELSE 0
    <3> SUFFICES ASSUME NEW o \in Orders PROVE f[o] = 0
      BY <2>3
    <3>1. o.amount \in Nat /\ Outstanding(o) = o.amount * (0 - 0)
      BY <2>1, OrderFacts DEF Outstanding
    <3>2. Outstanding(o) = 0
      BY <3>1
    <3> QED
      BY <2>2, <3>2 DEF UnderWay
  <2>5. SumFunctionOnSet(f, Orders) = 0 * Cardinality(T)
    BY <2>4, FiniteAssumption, SumOfPart
  <2>6. Cardinality(T) = 0
    BY <2>3, FS_EmptySet
  <2>7. InFlight(coin) = SumFunctionOnSet(f, Orders)
    BY <2>2 DEF InFlight, UnderWay, SumFunction
  <2> QED
    BY <2>5, <2>6, <2>7
<1>6. ASSUME NEW coin \in Communities
      PROVE  Held(coin) = Funds * Cardinality(Funded[coin])
  <2>1. Funded[coin] \in SUBSET Keys /\ IsFiniteSet(Funded[coin])
    BY KeysAssumption, FiniteAssumption, FS_Subset
  <2>2. PICK T \in SUBSET (Communities \X Keys) : T = {coin} \X Funded[coin]
    BY <2>1
  <2>3. Cardinality(T) = Cardinality(Funded[coin])
    <3>1. Cardinality(T) = Cardinality({coin}) * Cardinality(Funded[coin])
      BY <2>1, <2>2, FS_Product, FS_Singleton
    <3>2. Cardinality({coin}) = 1 /\ Cardinality(Funded[coin]) \in Nat
      BY <2>1, FS_Singleton, FS_CardinalityType
    <3> QED
      BY <3>1, <3>2
  <2>4. PICK f : f = Holdings(coin)
    OBVIOUS
  <2>5. \A ck \in Communities \X Keys : f[ck] = IF ck \in T THEN Funds ELSE 0
    <3> SUFFICES ASSUME NEW d \in Communities, NEW k \in Keys, NEW ck, ck = <<d, k>>
                 PROVE  f[ck] = IF ck \in T THEN Funds ELSE 0
      OBVIOUS
    <3>1. Setting(d, k, coin, 0) = {}
      BY DEF Setting
    <3>2. FromEnd(d, k, coin, Last(d)) = Opening(d, k, coin)
      BY <1>1, <3>1 DEF FromEnd
    <3>3. f[ck] = FromEnd(d, k, coin, Last(d))
      BY <2>4 DEF Holdings
    <3>4. ck \in T <=> d = coin /\ k \in Funded[coin]
      BY <2>2
    <3> QED
      BY <3>2, <3>3, <3>4 DEF Opening
  <2>6. IsFiniteSet(Communities \X Keys) /\ Held(coin) = SumFunctionOnSet(f, Communities \X Keys)
    BY <1>2, <1>3, <2>4, SumsFinite
  <2>7. SumFunctionOnSet(f, Communities \X Keys) = Funds * Cardinality(T)
    BY <2>5, <2>6, NumbersAssumption, SumOfPart
  <2> QED
    BY <2>3, <2>6, <2>7
<1>7. ASSUME NEW coin \in Communities
      PROVE  Funds * Cardinality(Funded[coin]) \in Nat
  <2>1. Cardinality(Funded[coin]) \in Nat
    BY KeysAssumption, FiniteAssumption, FS_Subset, FS_CardinalityType
  <2> QED
    BY <2>1, NumbersAssumption
<1>8. Debits * Tolerance = 0
  BY <1>4, NumbersAssumption
<1>9. Conservation
  <2> SUFFICES ASSUME NEW coin \in Communities
               PROVE  /\ Funds * Cardinality(Funded[coin]) <= Held(coin) + InFlight(coin)
                      /\ Held(coin) + InFlight(coin)
                           <= Funds * Cardinality(Funded[coin]) + Debits * Tolerance
    BY DEF Conservation
  <2>1. PICK start \in Nat : start = Funds * Cardinality(Funded[coin])
    BY <1>7
  <2>2. Held(coin) = start /\ InFlight(coin) = 0
    BY <1>5, <1>6, <2>1
  <2> QED
    BY <1>8, <2>1, <2>2
<1> QED
  BY <1>2, <1>9

\* Every step keeps what there is of each coin.
LEMMA NextConserves ==
    ASSUME IInv, BalancesOK, Conservation, [Next]_chain
    PROVE  BalancesOK' /\ Conservation'
<1>1. ASSUME NEW at \in Dates, NEW ck \in Joining, Register(ck[1], ck[2], at)
      PROVE  BalancesOK' /\ Conservation'
  <2>1. ck[1] \in Communities
    BY KeysAssumption
  <2>2. Grown(ck[1], RegisterTx(ck[1], ck[2]), at, NoAnchor, NoBalances)
    BY <1>1, <2>1 DEF Register, Append1, Grown
  <2> QED
    BY <2>1, <2>2, RegisterConserves
<1>2. ASSUME NEW at \in Dates, NEW o \in Orders, Local(o, at)
      PROVE  BalancesOK' /\ Conservation'
  <2>1. Grown(o.home, LocalTx(o), at, NoAnchor, DebitCredit(o.home, o)) /\ Covered(o, o.home, Last(o.home))
    BY <1>2, OrderFacts DEF Local, Append1, Grown
  <2> QED
    BY <2>1, LocalConserves
<1>3. ASSUME NEW at \in Dates, NEW o \in Orders, Outbound(o, at)
      PROVE  BalancesOK' /\ Conservation'
  <2>1. /\ Grown(o.home, OutboundTx(o), at, NoAnchor, Debit(o.home, o)) /\ o.home # o.away
        /\ Covered(o, o.home, Last(o.home))
    BY <1>3, OrderFacts DEF Outbound, Append1, Grown
  <2> QED
    BY <2>1, OutboundConserves
<1>4. ASSUME NEW at \in Dates, NEW o \in Orders, InboundOf(o, at)
      PROVE  BalancesOK' /\ Conservation'
  <2>1. PICK n : Inbound(o.away, InboundTx(o), n, at) /\ o.home # o.away
    BY <1>4 DEF InboundOf
  <2>2. Grown(o.away, InboundTx(o), at, n, Credit(o.away, o))
    BY <2>1, OrderFacts DEF Inbound, Append1, Grown, InboundTx
  <2> QED
    BY <2>1, <2>2, InboundConserves
<1>5. CASE UNCHANGED chain
  BY <1>5, ZenonT(60) DEF BalancesOK, Conservation, Held, InFlight, Outstanding, Times, Debits, DebitsOn, Entries,
              FromEnd, Setting, Last
<1> QED
  BY <1>1, <1>2, <1>3, <1>4, <1>5 DEF Next

\* Of every coin there is on all chains and under way between them what there was at the start,
\* but for what the tolerance grants each debit: for any communities, keys, orders and amounts.
THEOREM CoinsConserved == Spec => []Conservation
<1>1. Init => IInv /\ BalancesOK /\ Conservation
  BY InitInv, InitConserves
<1>2. IInv /\ BalancesOK /\ Conservation /\ [Next]_chain => (IInv /\ BalancesOK /\ Conservation)'
  BY NextInv, NextConserves
<1> QED
  BY <1>1, <1>2, PTL DEF Spec

-----------------------------------------------------------------------------
(***************************************************************************)
(* The builder of the transactions.                                        *)
(*                                                                         *)
(* BuilderInv, for any communities, signers and number of sessions: the    *)
(* body, the anchor and every signature are of the session; in state       *)
(* "local" the one entry is the body, in state "cross" the first entry is  *)
(* the body bound the other way and both have the same signers, or the     *)
(* last call threw; and what was handed out in this session is outbound.   *)
(***************************************************************************)
\* A body whose parts were set in this session.
OfSession(b, s) ==
    /\ b = [kind |-> b.kind, specific |-> b.specific, createdAt |-> b.createdAt, memos |-> b.memos,
            type |-> b.type, community |-> b.community, other |-> b.other]
    /\ b.createdAt = s /\ b.memos \in Seq({s}) /\ (b.kind # "none" => b.specific = s)

\* A serialized body with signatures of this session for its bytes.
SignedEntry(e, b, s) ==
    e = [bytes |-> b, signers |-> e.signers] /\ e.signers \in Seq([key : Signers, session : {s}, over : {b}])

LocalMaps ==
    /\ maps = <<maps[1]>> /\ SignedEntry(maps[1], body, session)
    /\ body.kind # "none" /\ body.type = "local"

\* Both serialized bodies of a cross community transaction, signed by the same.
OutboundBody == Bound(body, "outbound", sender, recipient)
SameSigners(one, two) ==
    Len(one) = Len(two) /\ \A i \in 1..Len(one) : one[i].key = two[i].key
CrossMaps ==
    /\ maps = <<maps[1], maps[2]>>
    /\ SignedEntry(maps[1], OutboundBody, session) /\ SignedEntry(maps[2], body, session)
    /\ body.kind # "none" /\ body.type = "inbound"
    /\ body.community = recipient.index /\ body.other = sender.index /\ sender.index # recipient.index
    /\ SameSigners(maps[1].signers, maps[2].signers)

\* What an exception in switchBuildState leaves behind.
NoMaps == threw /\ maps = <<[bytes |-> NoBytes, signers |-> <<>>]>>

MapsOK ==
    /\ state \in {"body", "local", "cross"}
    /\ state = "body" => maps = <<>>
    /\ state = "local" => LocalMaps \/ NoMaps
    /\ state = "cross" => CrossMaps \/ NoMaps

\* What was handed out in this session is outbound.
OutboundFirst ==
    \A tx \in built :
        /\ tx.session \in Nat /\ tx.session <= session
        /\ tx.session = session => state = "cross" /\ CrossMaps /\ tx.bytes = maps[1].bytes

BuiltInv == OfItsSession /\ GoesWhereBound /\ BuiltPairsMatch

BuilderInv ==
    /\ session \in 1..MaxSessions /\ OfSession(body, session) /\ anchor \in {Unset, session}
    /\ MapsOK /\ OutboundFirst /\ BuiltInv

\* What holds of the transactions that were handed out holds of some of them.
LEMMA FewerBuilt ==
    ASSUME BuiltInv, built' \subseteq built
    PROVE  BuiltInv'
BY DEF BuiltInv, OfItsSession, GoesWhereBound, BuiltPairsMatch

\* A call that throws and changes nothing.
LEMMA ThrowsStep ==
    ASSUME BuilderInv, ~threw, Throws
    PROVE  BuilderInv'
<1>1. /\ built' \subseteq built /\ threw' = TRUE
      /\ UNCHANGED <<session, state, body, sender, recipient, maps, chosen, anchor>>
  BY DEF Throws, Keep, settings
<1>2. MapsOK'
  BY <1>1 DEF BuilderInv, MapsOK, LocalMaps, CrossMaps, OutboundBody, Bound, NoMaps
<1>3. OutboundFirst'
  BY <1>1 DEF BuilderInv, OutboundFirst, CrossMaps, OutboundBody, Bound
<1>4. BuiltInv'
  BY <1>1, FewerBuilt DEF BuilderInv
<1> QED
  BY <1>1, <1>2, <1>3, <1>4 DEF BuilderInv

\* In state body nothing was handed out yet in this session.
LEMMA BodyKeepsNothing ==
    ASSUME BuilderInv, state = "body", Keep
    PROVE  built' = {}
BY DEF BuilderInv, OutboundFirst, Keep

\* A setter: the builder stays in state body, and what is set is of this session.
LEMMA SetterStep ==
    ASSUME BuilderInv, state = "body", Keep, UNCHANGED <<session, state, maps>>,
           OfSession(body', session), anchor' \in {Unset, session}
    PROVE  BuilderInv'
<1>1. built' = {}
  BY BodyKeepsNothing
<1>2. MapsOK'
  BY DEF BuilderInv, MapsOK
<1>3. OutboundFirst' /\ BuiltInv'
  BY <1>1 DEF OutboundFirst, BuiltInv, OfItsSession, GoesWhereBound, BuiltPairsMatch
<1> QED
  BY <1>2, <1>3 DEF BuilderInv

\* A body made of parts of this session.
LEMMA BodyMade ==
    ASSUME NEW s, NEW kind, NEW p, NEW m \in Seq({s}), NEW t, NEW c, NEW o, kind # "none" => p = s,
           NEW b, b = [kind |-> kind, specific |-> p, createdAt |-> s, memos |-> m, type |-> t, community |-> c, other |-> o]
    PROVE  OfSession(b, s)
BY DEF OfSession

\* What a body of this session becomes when a part of it is set.
Dated(b, s) == [b EXCEPT !.createdAt = s]
WithMemo(b, s) == [b EXCEPT !.memos = Append(@, s)]
WithSpecific(b, k, s) == [b EXCEPT !.kind = k, !.specific = s]

\* The date is of this session.
LEMMA BodyDated ==
    ASSUME NEW s, NEW b, OfSession(b, s)
    PROVE  OfSession(Dated(b, s), s)
<1>1. PICK kind, p, m, t, c, o :
        /\ b = [kind |-> kind, specific |-> p, createdAt |-> s, memos |-> m, type |-> t, community |-> c, other |-> o]
        /\ m \in Seq({s}) /\ (kind # "none" => p = s)
  BY DEF OfSession
<1>3. PICK d : d = Dated(b, s)
  OBVIOUS
<1>4. d = [kind |-> kind, specific |-> p, createdAt |-> s, memos |-> m, type |-> t, community |-> c, other |-> o]
  BY <1>1, <1>3 DEF Dated
<1> QED
  BY <1>1, <1>3, <1>4, BodyMade

\* A memo is of this session.
LEMMA BodyMemo ==
    ASSUME NEW s, NEW b, OfSession(b, s)
    PROVE  OfSession(WithMemo(b, s), s)
<1>1. PICK kind, p, m, t, c, o :
        /\ b = [kind |-> kind, specific |-> p, createdAt |-> s, memos |-> m, type |-> t, community |-> c, other |-> o]
        /\ m \in Seq({s}) /\ (kind # "none" => p = s)
  BY DEF OfSession
<1>n. PICK n : n = Append(m, s)
  OBVIOUS
<1>2. n = Append(m, s) /\ n \in Seq({s})
  BY <1>1, <1>n
<1>3. PICK d : d = WithMemo(b, s)
  OBVIOUS
<1>4. d = [kind |-> kind, specific |-> p, createdAt |-> s, memos |-> n, type |-> t, community |-> c, other |-> o]
  BY <1>1, <1>2, <1>3 DEF WithMemo
<1> QED
  BY <1>1, <1>2, <1>3, <1>4, BodyMade

\* The specific transaction is of this session.
LEMMA BodyChosen ==
    ASSUME NEW s, NEW b, OfSession(b, s), NEW k
    PROVE  OfSession(WithSpecific(b, k, s), s)
<1>1. PICK kind, p, m, t, c, o :
        /\ b = [kind |-> kind, specific |-> p, createdAt |-> s, memos |-> m, type |-> t, community |-> c, other |-> o]
        /\ m \in Seq({s}) /\ (kind # "none" => p = s)
  BY DEF OfSession
<1>3. PICK d : d = WithSpecific(b, k, s)
  OBVIOUS
<1>4. d = [kind |-> k, specific |-> s, createdAt |-> s, memos |-> m, type |-> t, community |-> c, other |-> o]
  BY <1>1, <1>3 DEF WithSpecific
<1> QED
  BY <1>1, <1>3, <1>4, BodyMade

\* Binding a body to communities leaves the rest of it alone.
LEMMA BodyBound ==
    ASSUME NEW s, NEW b, OfSession(b, s), NEW type, NEW own, NEW away, NEW d, d = Bound(b, type, own, away)
    PROVE  /\ OfSession(d, s) /\ d.type = type /\ d.community = own.index /\ d.other = away.index
           /\ d.kind = b.kind /\ d.memos = b.memos /\ d.specific = b.specific /\ d.createdAt = b.createdAt
<1>1. PICK kind, p, m, t, c, o :
        /\ b = [kind |-> kind, specific |-> p, createdAt |-> s, memos |-> m, type |-> t, community |-> c, other |-> o]
        /\ m \in Seq({s}) /\ (kind # "none" => p = s)
  BY DEF OfSession
<1>2. PICK x, y : x = own.index /\ y = away.index
  OBVIOUS
<1>3. d = [kind |-> kind, specific |-> p, createdAt |-> s, memos |-> m, type |-> type, community |-> x, other |-> y]
  BY <1>1, <1>2 DEF Bound
<1> QED
  BY <1>1, <1>2, <1>3 DEF OfSession

\* The body of a local transaction, bound to its community.
AtHome(b, own) == [b EXCEPT !.type = "local", !.community = own]

\* That leaves the rest of it alone, too.
LEMMA BodyHome ==
    ASSUME NEW s, NEW b, OfSession(b, s), NEW own, NEW d, d = AtHome(b, own)
    PROVE  OfSession(d, s) /\ d.type = "local" /\ d.kind = b.kind
<1>1. PICK kind, p, m, t, c, o :
        /\ b = [kind |-> kind, specific |-> p, createdAt |-> s, memos |-> m, type |-> t, community |-> c, other |-> o]
        /\ m \in Seq({s}) /\ (kind # "none" => p = s)
  BY DEF OfSession
<1>2. d = [kind |-> kind, specific |-> p, createdAt |-> s, memos |-> m, type |-> "local", community |-> own, other |-> o]
  BY <1>1 DEF AtHome
<1> QED
  BY <1>1, <1>2 DEF OfSession

\* Which fields binding sets.
LEMMA BoundFields ==
    ASSUME NEW kind, NEW p, NEW s, NEW m, NEW t, NEW c, NEW o, NEW type, NEW own, NEW away, NEW d,
           d = [kind |-> kind, specific |-> p, createdAt |-> s, memos |-> m, type |-> t, community |-> c, other |-> o]
    PROVE  Bound(d, type, own, away) = [kind |-> kind, specific |-> p, createdAt |-> s, memos |-> m,
                                        type |-> type, community |-> own.index, other |-> away.index]
<1>1. PICK x, y : x = own.index /\ y = away.index
  OBVIOUS
<1>2. PICK e : e = [d EXCEPT !.type = type, !.community = x, !.other = y]
  OBVIOUS
<1>3. e = [kind |-> kind, specific |-> p, createdAt |-> s, memos |-> m, type |-> type, community |-> x, other |-> y]
  BY <1>2
<1> QED
  BY <1>1, <1>2, <1>3 DEF Bound

\* A body that is bound again is bound as it would have been the first time.
LEMMA BoundAgain ==
    ASSUME NEW s, NEW b, OfSession(b, s), NEW t1, NEW t2, NEW own, NEW away, NEW d, NEW e,
           d = Bound(b, t1, away, own), e = Bound(b, t2, own, away)
    PROVE  Bound(d, t2, own, away) = e
<1>1. PICK kind, p, m, t, c, o :
        b = [kind |-> kind, specific |-> p, createdAt |-> s, memos |-> m, type |-> t, community |-> c, other |-> o]
  BY DEF OfSession
<1>2. PICK x, y : x = own.index /\ y = away.index
  OBVIOUS
<1>3. d = [kind |-> kind, specific |-> p, createdAt |-> s, memos |-> m, type |-> t1, community |-> y, other |-> x]
  BY <1>1, <1>2 DEF Bound
<1>4. e = [kind |-> kind, specific |-> p, createdAt |-> s, memos |-> m, type |-> t2, community |-> x, other |-> y]
  BY <1>1, <1>2 DEF Bound
<1>5. Bound(d, t2, own, away)
      = [kind |-> kind, specific |-> p, createdAt |-> s, memos |-> m, type |-> t2, community |-> x, other |-> y]
  BY <1>2, <1>3, BoundFields
<1> QED
  BY <1>4, <1>5

\* reset leaves a new body of the next session; nothing was handed out in it yet.
LEMMA ResetStep ==
    ASSUME SessionsAssumption, BuilderInv, session < MaxSessions, ResetTo, BuiltInv',
           \A tx \in built' : tx.session \in Nat /\ tx.session <= session
    PROVE  BuilderInv'
<1>0. session \in Nat /\ session' = session + 1 /\ session' \in 1..MaxSessions
  BY DEF SessionsAssumption, BuilderInv, ResetTo
<1>1. OfSession(body', session') /\ anchor' \in {Unset, session'}
  <2>1. body' = NewBody(session')
    BY DEF ResetTo
  <2>2. <<>> \in Seq({session'})
    OBVIOUS
  <2> QED
    BY <2>1, <2>2 DEF NewBody, ResetTo, OfSession
<1>2. MapsOK'
  BY DEF ResetTo, MapsOK
<1>3. OutboundFirst'
  BY <1>0 DEF OutboundFirst
<1> QED
  BY <1>0, <1>1, <1>2, <1>3 DEF BuilderInv

\* An entry of switchBuildState: every signature is one for its bytes.
LEMMA EntryIsSigned ==
    ASSUME NEW b, NEW keys, keys = <<>> \/ \E k \in Signers : keys = <<k>>
    PROVE  /\ SignedEntry(Entry(b, keys), b, session) /\ Len(Entry(b, keys).signers) = Len(keys)
           /\ \A i \in 1..Len(keys) : Entry(b, keys).signers[i].key = keys[i]
<1>1. PICK e, g : e = Entry(b, keys) /\ g = [i \in DOMAIN keys |-> [key |-> keys[i], session |-> session, over |-> b]]
  OBVIOUS
<1>2. e = [bytes |-> b, signers |-> g] /\ e.signers = g
  BY <1>1 DEF Entry
<1>3. PICK n \in Nat : n = Len(keys) /\ DOMAIN keys = 1..n /\ \A i \in 1..n : keys[i] \in Signers
  <2>1. CASE keys = <<>>
    BY <2>1
  <2>2. CASE \E k \in Signers : keys = <<k>>
    BY <2>2
  <2> QED
    BY <2>1, <2>2
<1>4. \A i \in 1..n : /\ g[i] = [key |-> keys[i], session |-> session, over |-> b]
                      /\ g[i] \in [key : Signers, session : {session}, over : {b}] /\ g[i].key = keys[i]
  BY <1>1, <1>3
<1>5. g \in Seq([key : Signers, session : {session}, over : {b}]) /\ Len(g) = n
  BY <1>1, <1>3, <1>4
<1> QED
  BY <1>1, <1>2, <1>3, <1>4, <1>5 DEF SignedEntry

\* switchBuildState: both bodies of a cross community transaction, the one of a local one, or an entry
\* without bytes and an exception.
LEMMA SwitchStep ==
    ASSUME BuilderInv, state = "body", Keep, UNCHANGED <<session, sender, recipient, anchor>>,
           NEW b, OfSession(b, session), NEW keys, keys = <<>> \/ \E k \in Signers : keys = <<k>>,
           Switch(b, keys)
    PROVE  BuilderInv'
<1>1. built' = {}
  BY BodyKeepsNothing
<1>o. PICK out : out = Bound(b, "outbound", sender, recipient)
  OBVIOUS
<1>i. PICK in : in = Bound(b, "inbound", recipient, sender)
  OBVIOUS
<1>l. PICK local : local = [b EXCEPT !.type = "local", !.community = Home(b).index]
  OBVIOUS
<1>f. PICK fails \in BOOLEAN : fails = (~Serializable(b) \/ (~CrossCommunity /\ Home(b) = NoCommunity))
  OBVIOUS
<1>2. /\ threw' = fails
      /\ state' = IF CrossCommunity THEN "cross" ELSE "local"
      /\ body' = CASE CrossCommunity /\ ~fails -> in
                   [] CrossCommunity /\ fails -> out
                   [] OTHER -> local
      /\ maps' = CASE fails -> <<Entry(NoBytes, <<>>)>>
                   [] CrossCommunity /\ ~fails -> <<Entry(out, keys), Entry(in, keys)>>
                   [] OTHER -> <<Entry(local, keys)>>
  BY <1>o, <1>i, <1>l, <1>f DEF Switch
<1>3. /\ OfSession(out, session) /\ OfSession(in, session) /\ OfSession(local, session)
      /\ in.type = "inbound" /\ in.community = recipient.index /\ in.other = sender.index /\ in.kind = b.kind
      /\ local.type = "local" /\ local.kind = b.kind
  <2>1. OfSession(out, session)
    BY <1>o, BodyBound
  <2>2. /\ OfSession(in, session) /\ in.type = "inbound" /\ in.community = recipient.index
        /\ in.other = sender.index /\ in.kind = b.kind
    BY <1>i, BodyBound
  <2>3. OfSession(local, session) /\ local.type = "local" /\ local.kind = b.kind
    <3>1. local = AtHome(b, Home(b).index)
      BY <1>l DEF AtHome
    <3> QED
      BY <3>1, BodyHome
  <2> QED
    BY <2>1, <2>2, <2>3
<1>4. ~fails => b.kind # "none"
  BY <1>f DEF Serializable
<1>5. OfSession(body', session)
  BY <1>2, <1>3
<1>6. Entry(NoBytes, <<>>) = [bytes |-> NoBytes, signers |-> <<>>]
  BY DEF Entry
<1>7. MapsOK'
  <2>1. CASE fails
    BY <2>1, <1>2, <1>6 DEF MapsOK, NoMaps
  <2>2. CASE ~fails /\ ~CrossCommunity
    <3>1. threw' = FALSE /\ state' = "local" /\ body' = local /\ maps' = <<Entry(local, keys)>>
      BY <2>2, <1>2
    <3>2. maps' = <<maps'[1]>> /\ maps'[1] = Entry(local, keys)
      BY <3>1
    <3>3. SignedEntry(Entry(local, keys), local, session)
      BY EntryIsSigned
    <3>4. LocalMaps'
      BY <3>1, <3>2, <3>3, <2>2, <1>3, <1>4 DEF LocalMaps
    <3> QED
      BY <3>1, <3>4 DEF MapsOK
  <2>3. CASE ~fails /\ CrossCommunity
    <3>1. /\ threw' = FALSE /\ state' = "cross" /\ body' = in
          /\ maps' = <<Entry(out, keys), Entry(in, keys)>>
      BY <2>3, <1>2
    <3>2. maps' = <<maps'[1], maps'[2]>> /\ maps'[1] = Entry(out, keys) /\ maps'[2] = Entry(in, keys)
      BY <3>1
    <3>3. SignedEntry(Entry(out, keys), out, session) /\ SignedEntry(Entry(in, keys), in, session)
      BY EntryIsSigned
    <3>4. SameSigners(Entry(out, keys).signers, Entry(in, keys).signers)
      BY EntryIsSigned DEF SameSigners
    <3>5. OutboundBody' = out
      <4>1. OutboundBody' = Bound(in, "outbound", sender, recipient)
        BY <3>1 DEF OutboundBody, Bound
      <4> QED
        BY <4>1, <1>o, <1>i, BoundAgain
    <3>6. sender.index # recipient.index
      BY <2>3 DEF CrossCommunity
    <3>7. CrossMaps'
      BY <3>1, <3>2, <3>3, <3>4, <3>5, <3>6, <2>3, <1>3, <1>4 DEF CrossMaps
    <3> QED
      BY <3>1, <3>7 DEF MapsOK
  <2> QED
    BY <2>1, <2>2, <2>3
<1>8. OutboundFirst' /\ BuiltInv'
  BY <1>1 DEF OutboundFirst, BuiltInv, OfItsSession, GoesWhereBound, BuiltPairsMatch
<1> QED
  BY <1>5, <1>7, <1>8 DEF BuilderInv

\* One more signature for the bytes of an entry.
More(e, k, s) == [e EXCEPT !.signers = Append(@, [key |-> k, session |-> s, over |-> e.bytes])]

\* It is one for these bytes, behind those there are.
LEMMA SignedMore ==
    ASSUME NEW e, NEW b, NEW s, SignedEntry(e, b, s), NEW k \in Signers, NEW f, f = More(e, k, s)
    PROVE  /\ SignedEntry(f, b, s) /\ f.bytes = b /\ Len(f.signers) = Len(e.signers) + 1
           /\ \A i \in 1..Len(e.signers) : f.signers[i].key = e.signers[i].key
           /\ f.signers[Len(e.signers) + 1].key = k
<1>1. PICK g, S : e = [bytes |-> b, signers |-> g] /\ S = [key : Signers, session : {s}, over : {b}] /\ g \in Seq(S)
  BY DEF SignedEntry
<1>r. PICK r : r = [key |-> k, session |-> s, over |-> b]
  OBVIOUS
<1>2. r \in S /\ r.key = k
  BY <1>1, <1>r
<1>h. PICK h : h = Append(g, r)
  OBVIOUS
<1>3. /\ h \in Seq(S) /\ Len(h) = Len(g) + 1 /\ h[Len(g) + 1] = r
      /\ \A i \in 1..Len(g) : h[i] = g[i]
  BY <1>1, <1>2, <1>h
<1>4. e.bytes = b /\ e.signers = g
  BY <1>1
<1>5. f = [e EXCEPT !.signers = h]
  BY <1>r, <1>h, <1>4 DEF More
<1>6. f = [bytes |-> b, signers |-> h]
  BY <1>1, <1>5
<1>7. f.bytes = b /\ f.signers = h
  BY <1>6
<1>8. SignedEntry(f, b, s)
  BY <1>1, <1>3, <1>6, <1>7 DEF SignedEntry
<1> QED
  BY <1>2, <1>3, <1>4, <1>7, <1>8

\* A further signature is added to every serialized body.
LEMMA SignatureStep ==
    ASSUME BuilderInv, ~threw, state # "body", NEW k \in Signers, AddSignature(k)
    PROVE  BuilderInv'
<1>1. CASE Throws
  BY <1>1, ThrowsStep
<1>2. CASE ~Throws
  <2>1. /\ maps' = [i \in DOMAIN maps |-> More(maps[i], k, session)]
        /\ built' \subseteq built /\ UNCHANGED <<session, state, body, sender, recipient, chosen, anchor>>
    BY <1>2 DEF AddSignature, More, Keep
  <2>2. OutboundBody' = OutboundBody
    BY <2>1 DEF OutboundBody, Bound
  <2>3. CASE state = "local"
    <3>1. LocalMaps
      BY <2>3 DEF BuilderInv, MapsOK, NoMaps
    <3>2. PICK e : maps = <<e>> /\ SignedEntry(e, body, session)
      BY <3>1 DEF LocalMaps
    <3>3. PICK f : f = More(e, k, session)
      OBVIOUS
    <3>4. maps' = <<f>>
      BY <2>1, <3>2, <3>3
    <3>5. SignedEntry(f, body, session)
      BY <3>2, <3>3, SignedMore
    <3>6. LocalMaps'
      BY <2>1, <3>1, <3>4, <3>5 DEF LocalMaps
    <3>7. MapsOK'
      BY <2>1, <2>3, <3>6 DEF MapsOK
    <3>8. OutboundFirst'
      BY <2>1, <2>3 DEF BuilderInv, OutboundFirst
    <3> QED
      BY <2>1, <3>7, <3>8, FewerBuilt DEF BuilderInv
  <2>4. CASE state = "cross"
    <3>1. CrossMaps
      BY <2>4 DEF BuilderInv, MapsOK, NoMaps
    <3>2. PICK d, e : /\ maps = <<d, e>> /\ SignedEntry(d, OutboundBody, session) /\ SignedEntry(e, body, session)
                      /\ SameSigners(d.signers, e.signers)
      BY <3>1 DEF CrossMaps
    <3>3. PICK f, g : f = More(d, k, session) /\ g = More(e, k, session)
      OBVIOUS
    <3>4. maps' = <<f, g>>
      BY <2>1, <3>2, <3>3
    <3>5. /\ SignedEntry(f, OutboundBody, session) /\ f.bytes = OutboundBody
          /\ Len(f.signers) = Len(d.signers) + 1 /\ f.signers[Len(d.signers) + 1].key = k
          /\ \A i \in 1..Len(d.signers) : f.signers[i].key = d.signers[i].key
      BY <3>2, <3>3, SignedMore
    <3>6. /\ SignedEntry(g, body, session)
          /\ Len(g.signers) = Len(e.signers) + 1 /\ g.signers[Len(e.signers) + 1].key = k
          /\ \A i \in 1..Len(e.signers) : g.signers[i].key = e.signers[i].key
      BY <3>2, <3>3, SignedMore
    <3>7. Len(d.signers) \in Nat
      BY <3>2 DEF SignedEntry
    <3>8. SameSigners(f.signers, g.signers)
      BY <3>2, <3>5, <3>6, <3>7 DEF SameSigners
    <3>9. maps' = <<maps'[1], maps'[2]>> /\ maps'[1] = f /\ maps'[2] = g
      BY <3>4
    <3>10. CrossMaps'
      BY <2>1, <2>2, <3>1, <3>5, <3>6, <3>8, <3>9 DEF CrossMaps
    <3>11. MapsOK'
      BY <2>1, <2>4, <3>10 DEF MapsOK
    <3>12. maps[1].bytes = OutboundBody
      BY <3>1 DEF CrossMaps, SignedEntry
    <3>13. OutboundFirst'
      BY <2>1, <2>4, <3>5, <3>9, <3>10, <3>12 DEF BuilderInv, OutboundFirst
    <3> QED
      BY <2>1, <3>11, <3>13, FewerBuilt DEF BuilderInv
  <2> QED
    BY <2>3, <2>4 DEF BuilderInv, MapsOK
<1> QED
  BY <1>1, <1>2

\* What OfItsSession says of one transaction.
TransactionOfSession(tx) ==
    /\ tx.bytes.specific = tx.session /\ tx.bytes.createdAt = tx.session
    /\ \A i \in DOMAIN tx.bytes.memos : tx.bytes.memos[i] = tx.session
    /\ tx.anchor \in {Unset, tx.session}
    /\ \A i \in DOMAIN tx.signers : tx.signers[i].session = tx.session /\ tx.signers[i].over = tx.bytes

\* A transaction of an entry is one of this session.
LEMMA SignedIsOfSession ==
    ASSUME NEW e, NEW b, NEW s, SignedEntry(e, b, s), OfSession(b, s), b.kind # "none",
           NEW c, NEW a \in {Unset, s}, NEW tx,
           tx = [session |-> s, bytes |-> e.bytes, signers |-> e.signers, community |-> c, anchor |-> a]
    PROVE  TransactionOfSession(tx) /\ tx.session = s /\ tx.bytes = b /\ tx.community = c /\ tx.anchor = a
<1>1. PICK g : /\ e = [bytes |-> b, signers |-> g] /\ g \in Seq([key : Signers, session : {s}, over : {b}])
  BY DEF SignedEntry
<1>2. \A i \in DOMAIN g : g[i].session = s /\ g[i].over = b
  <2>1. PICK S : S = [key : Signers, session : {s}, over : {b}]
    OBVIOUS
  <2>2. \A r \in S : r.session = s /\ r.over = b
    BY <2>1
  <2>3. g \in Seq(S)
    BY <1>1, <2>1
  <2>4. \A i \in DOMAIN g : g[i] \in S
    BY <2>3, ElementOfSeq
  <2> QED
    BY <2>2, <2>4
<1>3. e.bytes = b /\ e.signers = g
  BY <1>1
<1>4. tx.session = s /\ tx.bytes = b /\ tx.signers = g /\ tx.community = c /\ tx.anchor = a
  BY <1>3
<1>5. b.specific = s /\ b.createdAt = s /\ \A i \in DOMAIN b.memos : b.memos[i] = s
  <2>1. b.specific = s /\ b.createdAt = s /\ b.memos \in Seq({s})
    BY DEF OfSession
  <2> QED
    BY <2>1
<1> QED
  BY <1>2, <1>4, <1>5 DEF TransactionOfSession

\* build hands out the one body of a local transaction.
LEMMA BuildStep ==
    ASSUME SessionsAssumption, BuilderInv, ~threw, Build
    PROVE  BuilderInv'
<1>1. CASE Throws
  BY <1>1, ThrowsStep
<1>2. CASE ~Throws
  <2>1. state = "local" /\ session < MaxSessions /\ HandOut(Transaction(1, body.community)) /\ ResetTo
    BY <1>2 DEF Build
  <2>2. LocalMaps
    BY <2>1 DEF BuilderInv, MapsOK, NoMaps
  <2>3. PICK tx : tx = Transaction(1, body.community)
    OBVIOUS
  <2>4. /\ TransactionOfSession(tx) /\ tx.session = session /\ tx.bytes = body
        /\ tx.community = body.community
    <3>1. /\ SignedEntry(maps[1], body, session) /\ OfSession(body, session) /\ body.kind # "none"
          /\ anchor \in {Unset, session}
      BY <2>2 DEF LocalMaps, BuilderInv
    <3> QED
      BY <2>3, <3>1, SignedIsOfSession DEF Transaction
  <2>5. built' = {tx}
    BY <2>1, <2>3 DEF HandOut, BuilderInv, OutboundFirst
  <2>6. tx.bytes.type = "local"
    BY <2>2, <2>4 DEF LocalMaps
  <2>7. BuiltInv'
    <3>1. OfItsSession'
      BY <2>4, <2>5 DEF OfItsSession, TransactionOfSession
    <3>2. GoesWhereBound'
      BY <2>4, <2>5 DEF GoesWhereBound
    <3>3. BuiltPairsMatch'
      BY <2>5, <2>6 DEF BuiltPairsMatch
    <3> QED
      BY <3>1, <3>2, <3>3 DEF BuiltInv
  <2>8. \A t \in built' : t.session \in Nat /\ t.session <= session
    BY <2>4, <2>5 DEF BuilderInv
  <2> QED
    BY <2>1, <2>7, <2>8, ResetStep
<1> QED
  BY <1>1, <1>2

\* buildOutbound hands out the outbound body, and leaves the builder as it is.
LEMMA BuildOutboundStep ==
    ASSUME BuilderInv, ~threw, BuildOutbound
    PROVE  BuilderInv'
<1>1. CASE Throws
  BY <1>1, ThrowsStep
<1>2. CASE ~Throws
  <2>1. /\ state = "cross" /\ HandOut(Transaction(1, sender.index)) /\ threw' = FALSE
        /\ UNCHANGED <<session, state, body, sender, recipient, maps, chosen, anchor>>
    BY <1>2 DEF BuildOutbound, settings
  <2>2. CrossMaps
    BY <2>1 DEF BuilderInv, MapsOK, NoMaps
  <2>3. PICK tx, out : tx = Transaction(1, sender.index) /\ out = OutboundBody
    OBVIOUS
  <2>4. SignedEntry(maps[1], out, session) /\ OfSession(body, session) /\ anchor \in {Unset, session} /\ body.kind # "none"
    BY <2>2, <2>3 DEF CrossMaps, BuilderInv
  <2>5. /\ OfSession(out, session) /\ out.kind = body.kind /\ out.type = "outbound"
        /\ out.community = sender.index
    BY <2>3, <2>4, BodyBound DEF OutboundBody
  <2>6. /\ TransactionOfSession(tx) /\ tx.session = session /\ tx.bytes = out
        /\ tx.community = sender.index
    BY <2>3, <2>4, <2>5, SignedIsOfSession DEF Transaction
  <2>7. built' = {t \in built : t.session = session} \union {tx}
    BY <2>1, <2>3 DEF HandOut
  <2>8. maps[1].bytes = out
    BY <2>4 DEF SignedEntry
  <2>9. \A t \in built' : t.session = session /\ t.bytes = out
    BY <2>6, <2>7, <2>8 DEF BuilderInv, OutboundFirst
  <2>10. BuiltInv'
    <3>1. OfItsSession'
      BY <2>6, <2>7 DEF BuilderInv, BuiltInv, OfItsSession, TransactionOfSession
    <3>2. GoesWhereBound'
      BY <2>5, <2>6, <2>7 DEF BuilderInv, BuiltInv, GoesWhereBound
    <3>3. BuiltPairsMatch'
      BY <2>5, <2>9 DEF BuiltPairsMatch
    <3> QED
      BY <3>1, <3>2, <3>3 DEF BuiltInv
  <2>11. CrossMaps'
    BY <2>1, <2>2 DEF CrossMaps, OutboundBody, Bound
  <2>12. MapsOK'
    BY <2>1, <2>11 DEF MapsOK
  <2>13. OutboundFirst'
    BY <2>1, <2>8, <2>9, <2>11 DEF BuilderInv, OutboundFirst
  <2> QED
    BY <2>1, <2>10, <2>12, <2>13 DEF BuilderInv
<1> QED
  BY <1>1, <1>2

\* buildInbound hands out the inbound body, the counterpart of every outbound one of this session.
LEMMA BuildInboundStep ==
    ASSUME SessionsAssumption, BuilderInv, ~threw, BuildInbound
    PROVE  BuilderInv'
<1>1. CASE Throws
  BY <1>1, ThrowsStep
<1>2. CASE ~Throws
  <2>1. /\ state = "cross" /\ anchor # Unset /\ session < MaxSessions
        /\ HandOut(Transaction(2, recipient.index)) /\ ResetTo
    BY <1>2 DEF BuildInbound
  <2>2. CrossMaps
    BY <2>1 DEF BuilderInv, MapsOK, NoMaps
  <2>3. PICK tx, out : tx = Transaction(2, recipient.index) /\ out = OutboundBody
    OBVIOUS
  <2>4. /\ SignedEntry(maps[1], out, session) /\ SignedEntry(maps[2], body, session) /\ OfSession(body, session)
        /\ anchor \in {Unset, session} /\ body.kind # "none" /\ body.type = "inbound"
        /\ body.community = recipient.index /\ body.other = sender.index /\ sender.index # recipient.index
    BY <2>2, <2>3 DEF CrossMaps, BuilderInv
  <2>5. /\ out.kind = body.kind /\ out.type = "outbound"
        /\ out.community = sender.index /\ out.other = recipient.index
        /\ out.memos = body.memos /\ out.specific = body.specific /\ out.createdAt = body.createdAt
    BY <2>3, <2>4, BodyBound DEF OutboundBody
  <2>6. /\ TransactionOfSession(tx) /\ tx.session = session /\ tx.bytes = body
        /\ tx.community = recipient.index /\ tx.anchor = anchor
    BY <2>3, <2>4, SignedIsOfSession DEF Transaction
  <2>7. built' = {t \in built : t.session = session} \union {tx}
    BY <2>1, <2>3 DEF HandOut
  <2>8. maps[1].bytes = out
    BY <2>4 DEF SignedEntry
  <2>9. \A t \in built' : t.session = session /\ (t.bytes = out \/ t = tx)
    BY <2>6, <2>7, <2>8 DEF BuilderInv, OutboundFirst
  <2>10. BuiltInv'
    <3>1. OfItsSession'
      BY <2>6, <2>7 DEF BuilderInv, BuiltInv, OfItsSession, TransactionOfSession
    <3>2. GoesWhereBound'
      BY <2>4, <2>6, <2>7 DEF BuilderInv, BuiltInv, GoesWhereBound
    <3>3. BuiltPairsMatch'
      <4>1. SUFFICES ASSUME NEW a \in built', NEW i \in built', a.bytes.type = "outbound", i.bytes.type = "inbound"
                     PROVE  /\ a.bytes.other = i.bytes.community /\ i.bytes.other = a.bytes.community
                            /\ a.bytes.other # i.bytes.other
                            /\ a.bytes.createdAt = i.bytes.createdAt /\ a.bytes.memos = i.bytes.memos
                            /\ a.bytes.kind = i.bytes.kind /\ a.bytes.specific = i.bytes.specific
                            /\ i.anchor # Unset
        BY DEF BuiltPairsMatch
      <4>2. a.bytes = out
        BY <4>1, <2>4, <2>6, <2>9
      <4>3. i.bytes = body /\ i.anchor = anchor
        BY <4>1, <2>5, <2>6, <2>9
      <4> QED
        BY <4>2, <4>3, <2>1, <2>4, <2>5
    <3> QED
      BY <3>1, <3>2, <3>3 DEF BuiltInv
  <2>11. \A t \in built' : t.session \in Nat /\ t.session <= session
    BY <2>9 DEF BuilderInv
  <2> QED
    BY <2>1, <2>10, <2>11, ResetStep
<1> QED
  BY <1>1, <1>2

\* A setter of the specific transaction.
LEMMA ChooseStep ==
    ASSUME BuilderInv, ~threw, NEW kind, NEW ready, Choose(kind, ready)
    PROVE  BuilderInv'
<1>1. CASE Throws
  BY <1>1, ThrowsStep
<1>2. CASE ~Throws
  <2>1. /\ state = "body" /\ body' = [body EXCEPT !.kind = kind, !.specific = session]
        /\ Keep /\ UNCHANGED <<session, state, sender, recipient, maps, anchor>>
    BY <1>2 DEF Choose
  <2>2. OfSession(body', session)
    <3>1. OfSession(WithSpecific(body, kind, session), session)
      BY BodyChosen DEF BuilderInv
    <3> QED
      BY <2>1, <3>1 DEF WithSpecific
  <2> QED
    BY <2>1, <2>2, SetterStep DEF BuilderInv
<1> QED
  BY <1>1, <1>2

\* The other setters of state body.
LEMMA SettersStep ==
    ASSUME BuilderInv, ~threw,
           \/ \E c \in CommunityIdIndices : SetSender(c) \/ SetRecipient(c)
           \/ SetCreatedAt \/ AddMemo
    PROVE  BuilderInv'
<1>1. CASE Throws
  BY <1>1, ThrowsStep
<1>2. CASE ~Throws
  <2>1. /\ state = "body" /\ Keep /\ UNCHANGED <<session, state, maps, anchor>>
        /\ \/ body' = body
           \/ body' = Dated(body, session)
           \/ body' = WithMemo(body, session)
    BY <1>2 DEF SetSender, SetRecipient, SetCreatedAt, AddMemo, InBody, Dated, WithMemo
  <2>2. OfSession(body, session)
    BY DEF BuilderInv
  <2>3. OfSession(Dated(body, session), session)
    BY <2>2, BodyDated
  <2>4. OfSession(WithMemo(body, session), session)
    BY <2>2, BodyMemo
  <2>5. OfSession(body', session)
    BY <2>1, <2>2, <2>3, <2>4
  <2> QED
    BY <2>1, <2>5, SetterStep DEF BuilderInv
<1> QED
  BY <1>1, <1>2

\* setTransactionBody: the new body is of this session as a whole.
LEMMA SetBodyStep ==
    ASSUME BuilderInv, ~threw, NEW kind, NEW type, SetTransactionBody(kind, type)
    PROVE  BuilderInv'
<1>1. CASE Throws
  BY <1>1, ThrowsStep
<1>2. CASE ~Throws
  <2>0. PICK away : away = IF type = "local" THEN Unset ELSE CHOOSE c \in CommunityIdIndices : TRUE
    OBVIOUS
  <2>n. PICK new : new = NewBody(session)
    OBVIOUS
  <2>1. /\ state = "body" /\ Keep /\ UNCHANGED <<session, state, maps, anchor>>
        /\ body' = [new EXCEPT !.kind = kind, !.specific = session, !.type = type, !.other = away]
    BY <1>2, <2>0, <2>n DEF SetTransactionBody, InBody
  <2>2. new = [kind |-> "none", specific |-> Unset, createdAt |-> session, memos |-> <<>>,
               type |-> "local", community |-> Unset, other |-> Unset]
    BY <2>n DEF NewBody
  <2>3. body' = [kind |-> kind, specific |-> session, createdAt |-> session, memos |-> <<>>,
                 type |-> type, community |-> Unset, other |-> away]
    BY <2>1, <2>2
  <2>4. <<>> \in Seq({session})
    OBVIOUS
  <2>5. OfSession(body', session)
    BY <2>3, <2>4, BodyMade
  <2> QED
    BY <2>1, <2>5, SetterStep DEF BuilderInv
<1> QED
  BY <1>1, <1>2

\* setTimeoutDeferredTransfer chooses and serializes at once.
LEMMA TimeoutStep ==
    ASSUME BuilderInv, ~threw, SetTimeoutDeferredTransfer
    PROVE  BuilderInv'
<1>1. CASE Throws
  BY <1>1, ThrowsStep
<1>2. CASE ~Throws
  <2>1. PICK b : b = WithSpecific(body, "timeout", session)
    OBVIOUS
  <2>2. /\ state = "body" /\ Switch(b, <<>>)
        /\ Keep /\ UNCHANGED <<session, sender, recipient, anchor>>
    BY <1>2, <2>1 DEF SetTimeoutDeferredTransfer, WithSpecific
  <2>3. OfSession(b, session)
    BY <2>1, BodyChosen DEF BuilderInv
  <2> QED
    BY <2>2, <2>3, SwitchStep
<1> QED
  BY <1>1, <1>2

\* setParentLedgerAnchor, in every state of the builder.
LEMMA AnchorStep ==
    ASSUME BuilderInv, ~threw, SetParentLedgerAnchor
    PROVE  BuilderInv'
<1>1. /\ anchor' = session /\ built' \subseteq built
      /\ UNCHANGED <<session, state, body, sender, recipient, maps, chosen>>
  BY DEF SetParentLedgerAnchor, Keep
<1>2. CrossMaps => CrossMaps'
  BY <1>1 DEF CrossMaps, OutboundBody, Bound
<1>3. LocalMaps => LocalMaps'
  BY <1>1 DEF LocalMaps
<1>4. MapsOK'
  BY <1>1, <1>2, <1>3 DEF BuilderInv, MapsOK, NoMaps
<1>5. OutboundFirst'
  BY <1>1, <1>2 DEF BuilderInv, OutboundFirst
<1> QED
  BY <1>1, <1>4, <1>5, FewerBuilt DEF BuilderInv

\* sign: the first one serializes the body.
LEMMA SignStep ==
    ASSUME BuilderInv, ~threw, NEW k \in Signers, Sign(k)
    PROVE  BuilderInv'
<1>1. CASE state # "body"
  BY <1>1, SignatureStep DEF Sign
<1>2. CASE state = "body"
  <2>1. OfSession(body, session) /\ \E x \in Signers : <<k>> = <<x>>
    BY DEF BuilderInv
  <2>2. Switch(body, <<k>>) /\ Keep /\ UNCHANGED <<session, sender, recipient, anchor>>
    BY <1>2 DEF Sign
  <2> QED
    BY <1>2, <2>1, <2>2, SwitchStep
<1> QED
  BY <1>1, <1>2

\* Every call of the builder, and reset, keeps the invariant.
LEMMA BuilderStep ==
    ASSUME SessionsAssumption, BuilderInv, [BuilderNext]_builderVars
    PROVE  BuilderInv'
<1>1. CASE ~threw /\ Call
  <2>1. CASE \/ \E c \in CommunityIdIndices : SetSender(c) \/ SetRecipient(c)
             \/ SetCreatedAt \/ AddMemo
    BY <1>1, <2>1, SettersStep
  <2>2. CASE SetParentLedgerAnchor
    BY <1>1, <2>2, AnchorStep
  <2>3. CASE \/ SetDeferredTransfer \/ SetCommunityFriendsUpdate \/ SetTransactionCreation \/ SetTransactionTransfer
             \/ SetRedeemDeferredTransfer \/ SetRegisterAddress \/ SetCommunityRoot
    BY <1>1, <2>3, ChooseStep DEF SetDeferredTransfer, SetCommunityFriendsUpdate, SetTransactionCreation,
       SetTransactionTransfer, SetRedeemDeferredTransfer, SetRegisterAddress, SetCommunityRoot
  <2>4. CASE SetTimeoutDeferredTransfer
    BY <1>1, <2>4, TimeoutStep
  <2>5. CASE \E kind \in {"transfer", "creation"}, type \in {"local", "outbound"} : SetTransactionBody(kind, type)
    BY <1>1, <2>5, SetBodyStep
  <2>6. CASE \E k \in Signers : Sign(k)
    BY <1>1, <2>6, SignStep
  <2>7. CASE Build
    BY <1>1, <2>7, BuildStep
  <2>8. CASE BuildOutbound
    BY <1>1, <2>8, BuildOutboundStep
  <2>9. CASE BuildInbound
    BY <1>1, <2>9, BuildInboundStep
  <2> QED
    BY <1>1, <2>1, <2>2, <2>3, <2>4, <2>5, <2>6, <2>7, <2>8, <2>9 DEF Call
<1>2. CASE Reset
  <2>1. session < MaxSessions /\ ResetTo /\ built' \subseteq built
    BY <1>2 DEF Reset, Keep
  <2>2. BuiltInv'
    BY <2>1, FewerBuilt DEF BuilderInv
  <2>3. \A tx \in built' : tx.session \in Nat /\ tx.session <= session
    BY <2>1 DEF BuilderInv, OutboundFirst
  <2> QED
    BY <2>1, <2>2, <2>3, ResetStep
<1>3. CASE UNCHANGED builderVars
  <2>1. CrossMaps => CrossMaps'
    BY <1>3 DEF builderVars, CrossMaps, OutboundBody, Bound
  <2>2. MapsOK'
    BY <1>3, <2>1 DEF BuilderInv, MapsOK, LocalMaps, NoMaps, builderVars
  <2>3. OutboundFirst'
    BY <1>3, <2>1 DEF BuilderInv, OutboundFirst, builderVars
  <2> QED
    BY <1>3, <2>2, <2>3, FewerBuilt DEF BuilderInv, builderVars
<1> QED
  BY <1>1, <1>2, <1>3 DEF BuilderNext

\* The signers of the two bodies of a cross community transaction are the same.
LEMMA SameKeys ==
    ASSUME BuilderInv
    PROVE  BuilderTypeOK
<1>1. state \in {"body", "local", "cross"} /\ session \in 1..MaxSessions
  BY DEF BuilderInv, MapsOK
<1>2. (state = "body") = (maps = <<>>)
  BY DEF BuilderInv, MapsOK, LocalMaps, CrossMaps, NoMaps
<1>3. ASSUME Len(maps) = 2
      PROVE  [i \in DOMAIN maps[1].signers |-> maps[1].signers[i].key]
             = [i \in DOMAIN maps[2].signers |-> maps[2].signers[i].key]
  <2>a. \A x : Len(<<x>>) = 1
    OBVIOUS
  <2>b. (LocalMaps \/ NoMaps => Len(maps) = 1) /\ (maps = <<>> => Len(maps) = 0)
    <3>1. ASSUME LocalMaps PROVE Len(maps) = 1
      <4>1. maps = <<maps[1]>>
        BY <3>1 DEF LocalMaps
      <4> QED
        BY <4>1, <2>a
    <3>2. ASSUME NoMaps PROVE Len(maps) = 1
      BY <3>2, <2>a DEF NoMaps
    <3> QED
      BY <3>1, <3>2
  <2>1. CrossMaps
    BY <1>3, <2>b DEF BuilderInv, MapsOK
  <2>2. PICK f, g : f = maps[1].signers /\ g = maps[2].signers
    OBVIOUS
  <2>3. /\ DOMAIN f = 1..Len(f) /\ DOMAIN g = 1..Len(g) /\ SameSigners(f, g)
    BY <2>1, <2>2 DEF CrossMaps, SignedEntry
  <2>4. [i \in DOMAIN f |-> f[i].key] = [i \in DOMAIN g |-> g[i].key]
    BY <2>3 DEF SameSigners
  <2> QED
    BY <2>2, <2>4
<1> QED
  BY <1>1, <1>2, <1>3 DEF BuilderTypeOK

\* What the builder hands out is what was set since the last reset, bound to where it goes, and the two
\* halves of a cross community transaction match, whatever calls are made in whatever order.
THEOREM TransactionsAsSet ==
    ASSUME SessionsAssumption
    PROVE  BuilderSpec => []BuiltAsSet
<1>1. BuilderInit => BuilderInv
  <2> SUFFICES ASSUME BuilderInit PROVE BuilderInv
    OBVIOUS
  <2>1. session = 1 /\ 1 \in 1..MaxSessions /\ built = {} /\ state = "body" /\ maps = <<>> /\ anchor = Unset
    BY DEF BuilderInit, SessionsAssumption
  <2>2. OfSession(body, session)
    <3>1. body = [kind |-> "none", specific |-> Unset, createdAt |-> session, memos |-> <<>>,
                  type |-> "local", community |-> Unset, other |-> Unset]
      BY DEF BuilderInit, NewBody
    <3>2. <<>> \in Seq({session})
      OBVIOUS
    <3> QED
      BY <3>1, <3>2, BodyMade
  <2> QED
    BY <2>1, <2>2 DEF BuilderInv, MapsOK, OutboundFirst, BuiltInv, OfItsSession, GoesWhereBound, BuiltPairsMatch
<1>2. BuilderInv /\ [BuilderNext]_builderVars => BuilderInv'
  BY BuilderStep
<1>3. BuilderInv => BuiltAsSet
  BY SameKeys DEF BuilderInv, BuiltInv, BuiltAsSet
<1> QED
  BY <1>1, <1>2, <1>3, PTL DEF BuilderSpec
=============================================================================
