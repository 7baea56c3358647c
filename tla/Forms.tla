------------------------------- MODULE Forms -------------------------------
(***************************************************************************)
(* The forms of a confirmed transaction.  Decoded from the wire it becomes *)
(* a ConfirmedTransaction (here: full), with raw keys in its body and the  *)
(* indices of everybody involved beside it, or a ConfirmedGradidoTx        *)
(* (compact), which keeps dictionary indices only and may leave its cold   *)
(* data (signatures, pairing, memos) out, or a CompleteTransaction, which  *)
(* is a view on the wire.  All of them answer who is involved and with     *)
(* which balance, each with code of its own.                               *)
(*                                                                         *)
(* Making a form enters communities and keys into the dictionaries of the  *)
(* AppContext; an exception on the way leaves what was entered there.      *)
(***************************************************************************)
EXTENDS Integers, Sequences, SequencesExt, FiniteSets

CONSTANTS
    Communities,
    Own,              \* the community whose chain the transaction is on
    Keys,
    Asked,            \* bound: the keys that are asked for by raw key
    None,             \* a value of its own: nothing there
    Wires,            \* the transactions on the wire to be decoded
    DerivationLimit,  \* stands for 2^16: derivation indices a compact form can hold
    AmountLimit       \* stands for 2^32: cents a deferred transfer can hold

Transfers == {"transfer", "deferred", "redeem"}
Types == Transfers \cup {"creation", "register", "timeout", "root", "friends"}

\* keys: sender and recipient of a transfer, recipient of a creation, user and
\* account of a registration, root, gmw and auf of a community root.  number: the
\* target date, timeout, number of the deferred transfer, derivation index or
\* color fusion.  deferral: sender and recipient of the deferred transfer that a
\* timeout names, as the chain knows it.  paired: it has a pairing ledger anchor.
Wire == [type : Types, cross : {"local", "outbound", "inbound"}, other : Communities \cup {None},
         keys : Seq(Keys), coin : Communities, amount : Nat, number : Nat, memos : Nat,
         signers : Seq(Keys), balances : Seq([key : Keys, cent : Nat, coin : Communities]),
         deferral : Seq(Keys), paired : BOOLEAN]

FormsAssumption ==
    /\ Own \in Communities /\ Asked \subseteq Keys
    /\ DerivationLimit \in Nat /\ AmountLimit \in Nat
    /\ \A w \in Wires : w \in Wire

VARIABLES
    context,   \* AppContext: the communities by index, and the keys of each
    chains,    \* the communities that have a blockchain
    wire,      \* the transaction, as received
    full,      \* the ConfirmedTransaction made from it, None before
    compact,   \* the ConfirmedGradidoTx made from it, None before
    spare,     \* another ConfirmedGradidoTx, that compact is assigned to
    saved      \* what toGrdw wrote for full, None before

vars == <<context, chains, wire, full, compact, spare, saved>>

\* The own community has the first index: its chain exists before anything is read.
Init ==
    /\ context = [ids |-> <<Own>>, keys |-> <<<<>>>>, ok |-> TRUE]
    /\ chains = {Own}
    /\ wire \in Wires
    /\ full = None /\ compact = None /\ spare = None /\ saved = None

-----------------------------------------------------------------------------
(* The dictionaries.  An index is a pair of the community's index and the    *)
(* key's.  c.ok turns FALSE when an exception is thrown.                     *)

Position(s, x) == IF \E i \in DOMAIN s : s[i] = x THEN CHOOSE i \in DOMAIN s : s[i] = x ELSE 0

\* getOrAddCommunityIdIndex
AddCommunity(c, community) ==
    IF ~c.ok \/ community \in Range(c.ids) THEN c
    ELSE [c EXCEPT !.ids = Append(@, community), !.keys = Append(@, <<>>)]

\* A community's keys are in the dictionary of its blockchain.
HasDictionary(c, community) == community \in chains /\ community \in Range(c.ids)

\* getOrAddPublicKeyIndex: throws if the community has no blockchain.
AddKey(c, community, key) ==
    IF ~c.ok THEN c
    ELSE IF ~HasDictionary(c, community) THEN [c EXCEPT !.ok = FALSE]
    ELSE LET i == Position(c.ids, community)
         IN  IF key \in Range(c.keys[i]) THEN c ELSE [c EXCEPT !.keys[i] = Append(@, key)]

AddKeys(c, pairs) == FoldLeft(LAMBDA d, p : AddKey(d, p[1], p[2]), c, pairs)

IndexOf(c, community, key) ==
    LET i == Position(c.ids, community) IN <<i, Position(c.keys[i], key)>>

\* PublicKeyIndex::getRawKey, with its community; None for an index of no dictionary.
RawKey(c, index) ==
    IF index[1] \in DOMAIN c.ids THEN <<c.ids[index[1]], c.keys[index[1]][index[2]]>> ELSE None

\* What a step leaves in the AppContext.
Keep(c) == context' = [c EXCEPT !.ok = TRUE]

AddBlockchain(community) ==
    /\ community \notin chains
    /\ chains' = chains \cup {community}
    /\ UNCHANGED <<context, wire, full, compact, spare, saved>>

-----------------------------------------------------------------------------
(* The full form. *)

\* getInvolvedAddressIndices of the body: whose dictionary holds which key.
BodyInvolved(w) ==
    CASE w.type \in {"register", "root", "creation"} -> [i \in DOMAIN w.keys |-> <<Own, w.keys[i]>>]
      [] w.type \in Transfers ->
             << <<IF w.cross = "inbound" THEN w.other ELSE Own, w.keys[1]>>,
                <<IF w.cross = "outbound" THEN w.other ELSE Own, w.keys[2]>> >>
      [] OTHER -> <<>>

OwnPairs(keys) == [i \in DOMAIN keys |-> <<Own, keys[i]>>]
BalanceKeys(w) == [i \in DOMAIN w.balances |-> w.balances[i].key]

\* GradidoTransaction: signers belong to the chain the transaction is on.
TransactionInvolved(w) == BodyInvolved(w) \o OwnPairs(w.signers)

\* ConfirmedTransaction: the balances, too.
FullPairs(w) == TransactionInvolved(w) \o OwnPairs(BalanceKeys(w))

\* hasTransferAmount
HasAmount(w) == w.type \in Transfers \cup {"creation"}
ByIndex(w) == w.type \in {"register", "root"}

\* RegisterAddressTx::fromGrdw: the derivation index is stored in 16 bits.
RegisterNumber(w) == w.number % DerivationLimit

\* A cross-group transfer names the other community.
MissingOther(w) == w.cross # "local" /\ w.other = None

\* What decoding enters into the dictionaries; throws if ok is FALSE.
FullContext(w) ==
    LET coins == FoldLeft(AddCommunity, context, [i \in DOMAIN w.balances |-> w.balances[i].coin])
        other == IF w.other = None THEN coins ELSE AddCommunity(coins, w.other)
        body == IF HasAmount(w) THEN AddCommunity(other, w.coin) ELSE other
    IN  IF w.type \in Transfers /\ MissingOther(w) THEN [body EXCEPT !.ok = FALSE]
        ELSE AddKeys(body, FullPairs(w))

\* TransactionBody::fromGrdw: registration and root keep indices, everything else
\* the keys themselves.
BodyFromGrdw(w, c) ==
    [type |-> w.type, cross |-> w.cross,
     other |-> IF w.other = None THEN 0 ELSE Position(c.ids, w.other),
     keys |-> IF ByIndex(w) THEN [i \in DOMAIN w.keys |-> IndexOf(c, Own, w.keys[i])] ELSE w.keys,
     coin |-> Position(c.ids, w.coin), amount |-> w.amount, memos |-> w.memos,
     number |-> IF w.type = "register" THEN RegisterNumber(w) ELSE w.number]

\* GradidoTransaction::fromGrdw
TransactionFromGrdw(w, c) == BodyFromGrdw(w, c) @@ [signers |-> w.signers, paired |-> w.paired]

\* AccountBalance: coins by index.
BalancesFromGrdw(w, c) ==
    [i \in DOMAIN w.balances |-> [w.balances[i] EXCEPT !.coin = Position(c.ids, w.balances[i].coin)]]

\* initalizePubkeyHashes
PubkeyIndices(w, c) == {IndexOf(c, FullPairs(w)[i][1], FullPairs(w)[i][2]) : i \in DOMAIN FullPairs(w)}

\* ConfirmedTransaction::fromGrdw
FullForm(w, c) ==
    TransactionFromGrdw(w, c) @@ [balances |-> BalancesFromGrdw(w, c), involved |-> PubkeyIndices(w, c)]

LoadFull ==
    /\ full = None
    /\ LET c == FullContext(wire)
       IN  Keep(c) /\ full' = IF c.ok THEN FullForm(wire, c) ELSE None
    /\ UNCHANGED <<chains, wire, compact, spare, saved>>

\* ConfirmedTransaction::isInvolved for a raw key: the key enters the own dictionary.
AskInvolved(key) ==
    /\ full # None
    /\ Keep(AddKey(context, Own, key))
    /\ UNCHANGED <<chains, wire, full, compact, spare, saved>>

\* TransactionBody::isInvolved for an index: by index for registration and root,
\* by raw key otherwise.
BodyIsInvolved(f, index) ==
    IF ByIndex(f) THEN \E i \in DOMAIN f.keys : f.keys[i][2] = index[2]
    ELSE HasAmount(f) /\ RawKey(context, index)[2] \in Range(f.keys)

\* GradidoTransaction::isInvolved: signers first.
TransactionIsInvolved(f, index) ==
    (\E i \in DOMAIN f.signers : IndexOf(context, Own, f.signers[i]) = index) \/ BodyIsInvolved(f, index)

\* ConfirmedTransaction::isBalanceUpdated
FullIsBalanceUpdated(f, index) ==
    \E i \in DOMAIN f.balances : IndexOf(context, Own, f.balances[i].key) = index

\* The branch of ConfirmedTransaction::isInvolved without a list.
IsInvolvedByParts(f, index) == FullIsBalanceUpdated(f, index) \/ TransactionIsInvolved(f, index)

\* AccountBalance::belongsTo; coin 0 for any coin.
BelongsTo(b, key, coin) == b.key = key /\ coin \in {0, b.coin}

\* ConfirmedTransaction::getAccountBalance
FullBalance(f, key, coin) ==
    LET fits == SelectSeq(f.balances, LAMBDA b : BelongsTo(b, key, coin))
    IN  IF fits = <<>> THEN 0 ELSE fits[1].cent

\* getInvolvedAddresses of body, transaction and confirmed transaction: raw keys.
BodyAddresses(w) == IF w.type \in {"timeout", "friends"} THEN {} ELSE Range(w.keys)
TransactionAddresses(w) == BodyAddresses(w) \cup Range(w.signers)
FullAddresses(w) == TransactionAddresses(w) \cup Range(BalanceKeys(w))

\* The coin of an amount on the wire; only a transfer or a creation has one.
AmountToGrdw(f) == context.ids[f.coin]

\* TransactionBody::toGrdw
BodyToGrdw(f) ==
    [type |-> f.type, cross |-> f.cross, other |-> IF f.other = 0 THEN None ELSE context.ids[f.other],
     keys |-> IF ByIndex(f) THEN [i \in DOMAIN f.keys |-> RawKey(context, f.keys[i])[2]] ELSE f.keys,
     coin |-> IF HasAmount(f) THEN AmountToGrdw(f) ELSE wire.coin,
     amount |-> f.amount, number |-> f.number, memos |-> f.memos]

\* GradidoTransaction::toGrdw
TransactionToGrdw(f) == BodyToGrdw(f) @@ [signers |-> f.signers, paired |-> f.paired]

\* adapter::toGrdw of a balance
BalanceToGrdw(b) == [b EXCEPT !.coin = context.ids[b.coin]]

\* ConfirmedTransaction::toGrdw
ToGrdw(f) ==
    TransactionToGrdw(f) @@ [balances |-> [i \in DOMAIN f.balances |-> BalanceToGrdw(f.balances[i])],
                             deferral |-> wire.deferral]

Save ==
    /\ full # None
    /\ saved' = ToGrdw(full)
    /\ UNCHANGED <<context, chains, wire, full, compact, spare>>

-----------------------------------------------------------------------------
(* The compact form. *)

\* Fault: sender and recipient are both taken to be of the own community.
CompactPairsOwn(w) == OwnPairs(w.keys)

\* The keys of the body, each with the community whose dictionary it enters.
CompactPairs(w) ==
    IF w.type \in {"transfer", "redeem"}
    THEN << <<IF w.cross = "inbound" THEN w.other ELSE Own, w.keys[1]>>,
            <<IF w.cross = "outbound" THEN w.other ELSE Own, w.keys[2]>> >>
    ELSE OwnPairs(w.keys)

\* The account that a timeout empties, if the balances tell: two of them, and only
\* the second is zero.
TimeoutFromBalances(balances) ==
    Len(balances) = 2 /\ balances[1].cent # 0 /\ balances[2].cent = 0

\* Sender and recipient of a timeout, from the balances or the deferred transfer.
TimeoutKeys(w, balances) ==
    IF TimeoutFromBalances(balances) THEN <<balances[2].key, balances[1].key>>
    ELSE <<w.deferral[2], w.deferral[1]>>

\* What fillFromGrdwTransactionBody throws on, before anything enters a dictionary.
Unsupported(w) ==
    \/ MissingOther(w)
    \/ w.type = "friends"
    \/ w.type = "register" /\ w.number >= DerivationLimit
    \/ w.type = "deferred" /\ (w.cross # "local" \/ w.amount >= AmountLimit)

BodyKeys(w, balances) == IF w.type = "timeout" THEN OwnPairs(TimeoutKeys(w, balances)) ELSE CompactPairs(w)

\* ConfirmedGradidoTx::fromGrdw; confirmed is FALSE for the variant that reads a
\* gradido transaction, which has no balances.
CompactContext(w, balances, cold) ==
    LET step(c, b) == AddKey(AddCommunity(c, b.coin), Own, b.key)
        b == FoldLeft(step, context, balances)
        o == IF w.cross = "local" \/ w.other = None THEN b ELSE AddCommunity(b, w.other)
        k == AddKeys(o, BodyKeys(w, balances))
        c == IF HasAmount(w) THEN AddCommunity(k, w.coin) ELSE k
        p == IF cold /\ w.paired /\ w.other # None THEN AddCommunity(c, w.other) ELSE c
    IN  IF Len(balances) > 3 THEN [context EXCEPT !.ok = FALSE]
        ELSE IF Unsupported(w) THEN [o EXCEPT !.ok = FALSE]
        ELSE IF cold /\ w.memos > 2 THEN [p EXCEPT !.ok = FALSE]
        ELSE p

\* ConfirmedGradidoTxCold::fillFromGrdwTransactionBody: the other community is kept
\* only beside a pairing anchor.
PairingCommunity(w, c) == IF w.paired /\ w.other # None THEN Position(c.ids, w.other) ELSE 0

ColdForm(w, c) ==
    [signers |-> w.signers, memos |-> w.memos, pairingCommunity |-> PairingCommunity(w, c)]

\* ConfirmedGradidoTx::fromGrdw before the body: balances by index.
CompactBalances(balances, c) ==
    [i \in DOMAIN balances |->
        [key |-> IndexOf(c, Own, balances[i].key)[2], cent |-> balances[i].cent,
         coin |-> Position(c.ids, balances[i].coin)]]

CompactForm(w, balances, cold, confirmed, c) ==
    [type |-> w.type, cross |-> w.cross, confirmed |-> confirmed,
     coin |-> IF HasAmount(w) THEN Position(c.ids, w.coin) ELSE Position(c.ids, Own),
     keys |-> [i \in DOMAIN BodyKeys(w, balances) |->
                  IndexOf(c, BodyKeys(w, balances)[i][1], BodyKeys(w, balances)[i][2])[2]],
     balances |-> CompactBalances(balances, c),
     cold |-> IF cold THEN ColdForm(w, c) ELSE None]

LoadCompact(cold, confirmed) ==
    /\ compact = None
    /\ LET balances == IF confirmed THEN wire.balances ELSE <<>>
           c == CompactContext(wire, balances, cold)
       IN  /\ Keep(c)
           /\ compact' = IF c.ok THEN CompactForm(wire, balances, cold, confirmed, c) ELSE None
    /\ UNCHANGED <<chains, wire, full, spare, saved>>

\* operator=(const&): cold data is copied if there is some.
Assign ==
    /\ compact # None
    /\ spare' = IF compact.cold = None /\ spare # None THEN [compact EXCEPT !.cold = spare.cold] ELSE compact
    /\ UNCHANGED <<context, chains, wire, full, compact, saved>>

\* operator=(&&): takes everything over and leaves no type, balances or cold data.
Move ==
    /\ compact # None
    /\ spare' = compact
    /\ compact' = None
    /\ UNCHANGED <<context, chains, wire, full, saved>>

\* Keys of the other community take its index from the cold data, and throw without.
NeedsCold(t) == t.type \in {"transfer", "redeem"} /\ t.cross # "local" /\ t.cold = None

\* The own community has index 1.
GetSender(t) == <<IF t.cross = "inbound" THEN t.cold.pairingCommunity ELSE 1, t.keys[1]>>
GetRecipient(t) == <<IF t.cross = "outbound" THEN t.cold.pairingCommunity ELSE 1, t.keys[Len(t.keys)]>>

\* The indices the body names: sender and recipient, or the registered or the root
\* keys (getRegisteredUser, getRegisteredAccount, getCommunityRootPublicKey, getAuf,
\* getGmw).
CompactBody(t) ==
    IF t.type \in Transfers \cup {"timeout"} THEN {GetSender(t), GetRecipient(t)}
    ELSE IF t.type = "creation" THEN {GetRecipient(t)}
    ELSE {<<1, t.keys[i]>> : i \in DOMAIN t.keys}

ColdSigners(t) == IF t.cold = None THEN <<>> ELSE t.cold.signers
SignerIndices(t, c) == {IndexOf(c, Own, ColdSigners(t)[i]) : i \in DOMAIN ColdSigners(t)}
BalanceIndices(t) == {<<1, t.balances[i].key>> : i \in DOMAIN t.balances}

MaxPublicKeys == 9
TooMany(t) == Len(t.balances) + Len(ColdSigners(t)) + 3 >= MaxPublicKeys

\* getInvolvedAddresses: balances, signers and body, without repetition.
CompactInvolved(t, c) == BalanceIndices(t) \cup SignerIndices(t, c) \cup CompactBody(t)

\* The call that lists them: signers enter the own dictionary.
ListInvolved ==
    /\ compact # None
    /\ Keep(AddKeys(context, OwnPairs(ColdSigners(compact))))
    /\ UNCHANGED <<chains, wire, full, compact, spare, saved>>

\* getOtherInvolved
OtherInvolved(t) ==
    IF t.cross = "inbound" THEN {GetSender(t)}
    ELSE IF t.cross = "outbound" THEN {GetRecipient(t)}
    ELSE IF t.type = "root" THEN {<<1, t.keys[1]>>} ELSE {}

IsBalanceUpdated(t, index) == \E i \in DOMAIN t.balances : index = <<1, t.balances[i].key>>

\* isSignaturePublicKey
IsSigner(t, index) == index[1] = 1 /\ RawKey(context, index)[2] \in Range(ColdSigners(t))

\* ConfirmedGradidoTx::isInvolved
CompactIsInvolved(t, index) ==
    \/ IsBalanceUpdated(t, index)
    \/ IF t.type \in Transfers \cup {"timeout"} THEN index = GetSender(t) \/ index = GetRecipient(t)
       ELSE \E i \in DOMAIN t.keys : index = <<1, t.keys[i]>>
    \/ IsSigner(t, index)

\* ConfirmedGradidoTx::getAccountBalance: coin 0 for any coin.
CompactBalance(t, index, coin) ==
    LET fits == SelectSeq(t.balances, LAMBDA b : b.key = index[2] /\ coin \in {0, b.coin})
    IN  IF index[1] # 1 \/ fits = <<>> THEN 0 ELSE fits[1].cent

-----------------------------------------------------------------------------
(* CompleteTransaction *)

\* getInvolvedAddresses: None where it throws, for a creation without exactly one signature.
CompleteAddresses(w) ==
    CASE w.type \in Transfers \cup {"timeout"} -> Range(BalanceKeys(w))
      [] w.type = "creation" -> IF Len(w.signers) = 1 THEN Range(w.keys) \cup Range(w.signers) ELSE None
      [] w.type \in {"register", "friends"} -> Range(w.signers)
      [] OTHER -> Range(w.keys)

\* isInvolved: balances and signers only.
CompleteIsInvolved(w, key) == key \in Range(BalanceKeys(w)) \cup Range(w.signers)

\* getAccountBalance: the first balance of the key, if it has the coin; 0 otherwise.
CompleteBalance(w, key, coin) ==
    LET fits == SelectSeq(w.balances, LAMBDA b : b.key = key)
    IN  IF fits = <<>> THEN 0 ELSE IF coin \in {None, fits[1].coin} THEN fits[1].cent ELSE 0

Next ==
    \/ \E u \in Communities : AddBlockchain(u)
    \/ LoadFull
    \/ \E k \in Asked : AskInvolved(k)
    \/ Save
    \/ \E cold, confirmed \in BOOLEAN : LoadCompact(cold, confirmed)
    \/ Assign
    \/ Move
    \/ ListInvolved

Spec == Init /\ [][Next]_vars

-----------------------------------------------------------------------------
(* Properties *)

KnownIndices == {<<i, j>> : i \in DOMAIN context.ids, j \in 1..Cardinality(Keys)}
Known(index) == index[2] \in DOMAIN context.keys[index[1]]

\* The dictionaries hold each community and each key of a community once, and a key
\* only for a community that has a blockchain.
TypeOK ==
    /\ wire \in Wires
    /\ chains \subseteq Communities
    /\ context.ok
    /\ IsInjective(context.ids) /\ Range(context.ids) \subseteq Communities
    /\ Len(context.keys) = Len(context.ids)
    /\ \A i \in DOMAIN context.keys :
          /\ IsInjective(context.keys[i]) /\ Range(context.keys[i]) \subseteq Keys
          /\ context.keys[i] # <<>> => context.ids[i] \in chains

\* The full and the compact form of a confirmed transaction, made in any order and
\* with any queries between, name the same addresses as involved, unless the
\* compact form has too many to list (ConfirmedTransaction::initalizePubkeyHashes,
\* ConfirmedGradidoTx::getInvolvedAddresses).
FormsAgree ==
    full # None /\ compact # None =>
        (compact.confirmed /\ compact.cold # None /\ ~TooMany(compact)
            => CompactInvolved(compact, context) = full.involved)

\* The recipient of an outbound transfer is named with the dictionary of its own
\* community, as the comment "full public key indices" above getRecipient says.
RecipientResolves ==
    compact # None =>
        (compact.type = "transfer" /\ ~NeedsCold(compact)
            => {RawKey(context, i) : i \in CompactBody(compact)} = Range(BodyInvolved(wire)))

\* What isInvolved of the compact form answers is what getInvolvedAddresses lists,
\* with and without cold data, confirmed or not.
InvolvedIsListed ==
    compact # None =>
        (~NeedsCold(compact) =>
            \A index \in KnownIndices :
                Known(index) => (CompactIsInvolved(compact, index)
                                    <=> index \in CompactInvolved(compact, context)))

\* The list made once when a full transaction is constructed answers for every own
\* address of a local transaction what asking its parts would answer.
ListIsParts ==
    full # None =>
        (wire.cross = "local" =>
            \A index \in KnownIndices :
                index[1] = 1 /\ Known(index) => (index \in full.involved <=> IsInvolvedByParts(full, index)))

\* All forms know the same balance of a key, of one coin or of any.
BalancesAgree ==
    full # None /\ compact # None =>
        (compact.confirmed =>
            \A index \in KnownIndices, coin \in 0..Len(context.ids) :
                index[1] = 1 /\ Known(index) =>
                    LET key == RawKey(context, index)[2]
                        id == IF coin = 0 THEN None ELSE context.ids[coin]
                    IN  /\ CompactBalance(compact, index, coin) = FullBalance(full, key, coin)
                        /\ CompleteBalance(wire, key, id) = FullBalance(full, key, coin))

\* Writing a decoded transaction gives the wire form it was decoded from.
SavedIsWire == saved # None => saved = wire

\* Whom the complete form calls involved, and whom it lists where it does not throw, the
\* full form lists, too, and it lists nobody it has no index for.
CompleteWithinFull ==
    full # None =>
        /\ {k \in Keys : CompleteIsInvolved(wire, k)} \subseteq FullAddresses(wire)
        /\ wire.type # "creation" \/ Len(wire.signers) = 1 => CompleteAddresses(wire) \subseteq FullAddresses(wire)
        /\ FullAddresses(wire) = {RawKey(context, index)[2] : index \in full.involved}

\* The others involved are those that neither signed nor changed their balance, as
\* the comment on getOtherInvolved says.
OthersAreTheRest ==
    compact # None =>
        (compact.confirmed /\ compact.cold # None =>
            OtherInvolved(compact) =
                CompactInvolved(compact, context) \ (SignerIndices(compact, context) \cup BalanceIndices(compact)))

\* After an assignment the target is a copy, as the comment "copy" on operator= says.
AssignedIsCopy == [][Assign => spare' = compact]_vars
=============================================================================
