----------------------------- MODULE Signatures -----------------------------
(***************************************************************************)
(* Who has to sign a transaction.  A transaction of one kind collects      *)
(* signatures (SignatureMap::push), while registrations are confirmed on   *)
(* the blockchain, and is validated at some point                          *)
(* (interaction::validate, GradidoTransactionRole::run with its            *)
(* TransactionBodyRole and the role of the kind).                          *)
(*                                                                         *)
(* A key index of the compact form is a place in the dictionary dict of    *)
(* the community; 0 is no key.  Validation may enter unknown signers into  *)
(* the dictionary.  A signature is reduced to whether it is one of the     *)
(* body bytes.                                                             *)
(*                                                                         *)
(* Validation is called with or without the blockchain of the sender       *)
(* (validate::Context::run, whose default is none): without it, nothing is *)
(* asked about registrations.  Of the registrations of addresses those of  *)
(* subaccounts are left out, and dates stand for days.                     *)
(***************************************************************************)
EXTENDS Naturals, Sequences, FiniteSets, SequencesExt

CONSTANTS Keys,       \* public keys of users
          Root,       \* the key of the community root transaction
          MaxPairs,   \* bound: signatures of a transaction
          MaxDate,    \* bound: dates of registrations
          MaxRegistrations, \* bound: confirmed registrations
          PairHash(_) \* SignaturePair::calculateHash

\* What a body is of: a kind, keys, places in the dictionary, memos with the sizes of their bytes.
Kinds == {"root", "register", "creation", "transfer", "deferred", "redeem", "timeout"}
SizeMax == 65536  \* stands for 2^64: the numbers compared are far smaller
Memo == [plain : BOOLEAN, size : 0 .. SizeMax - 1]
AllKeys == Keys \union {Root}
Bodies == [kind : Kinds, from : AllKeys, to : AllKeys, account : Nat, user : Nat, createdAt : Nat,
           memos : SUBSET Memo, cross : BOOLEAN, otherCommunity : BOOLEAN]
SignedPair == [key : AllKeys, good : BOOLEAN]

\* A confirmed RegisterAddress: its type (COMMUNITY_HUMAN or another), its keys and who signed it.
Registration == [type : {"human", "other"}, user : Keys, account : Keys, signers : SUBSET AllKeys, date : Nat]

DateAssumption == MaxDate \in Nat

\* No two signatures have the same hash.
HashAssumption == \A p, q \in SignedPair : PairHash(p) = PairHash(q) => p = q

VARIABLES body,       \* the transaction body
          pairs,      \* its SignatureMap
          other,      \* the SignatureMap of a second copy of the transaction
          dict,       \* the public key dictionary of the community
          registrations  \* the registrations of the blockchain, in their order

signatureVars == <<body, pairs, other, dict, registrations>>

WithMemo == {"deferred", "transfer", "creation"}
FromSender == {"transfer", "deferred", "redeem"}

(***************************************************************************)
(* Memos: what TransactionBodyRole::run asks of their sizes.  The size of  *)
(* an encrypted memo is less 32, as an unsigned number.                    *)
(***************************************************************************)
MemoSize(memo) == IF memo.plain THEN memo.size ELSE (memo.size + SizeMax - 32) % SizeMax

MemosValid(b) ==
    b.kind \in WithMemo =>
        /\ b.memos # {}
        /\ \A memo \in b.memos : MemoSize(memo) >= 5 /\ MemoSize(memo) <= 450

-----------------------------------------------------------------------------
(* The constructors of the roles: what each kind asks for. *)

Key(i) == dict[i]
MinCount(b) == IF b.kind = "register" THEN 3 ELSE IF b.kind = "timeout" THEN 0 ELSE 1
RequiredKeys(b) == IF b.kind \in FromSender THEN {b.from} ELSE {}
RequiredIndices(b) ==
    IF b.kind = "root" THEN <<b.account>>
    ELSE IF b.kind = "register" THEN <<b.account, b.user>> ELSE <<>>
Forbidden(b) == IF b.kind = "creation" THEN {b.to} ELSE {}

(***************************************************************************)
(* AppContext::getOrAddPublicKeyIndex, for signers in their order.         *)
(***************************************************************************)
\* Fault: a new key is entered in front, so that the indices move.
GetOrAddInFront(d, k) == IF k \in ToSet(d) THEN d ELSE <<k>> \o d

GetOrAdd(d, k) == IF k \in ToSet(d) THEN d ELSE Append(d, k)

Added(ks) ==
    LET after[n \in 0 .. Len(ks)] == IF n = 0 THEN dict ELSE GetOrAdd(after[n - 1], ks[n])
    IN  after[Len(ks)]

(***************************************************************************)
(* AbstractRole::checkRequiredSignatures takes the signers one by one from *)
(* the required keys and indices.  A signer takes at most one place, so    *)
(* that an index that is required twice is never complete.  Signers are    *)
(* looked up in the dictionary as long as an index is left.                *)
(***************************************************************************)
KeysOf(ps) == [n \in DOMAIN ps |-> ps[n].key]
KeysLeft(b, ps) == RequiredKeys(b) \ ToSet(KeysOf(ps))

IndicesLeft(b, ks) ==
    {n \in DOMAIN RequiredIndices(b) :
        LET i == RequiredIndices(b)[n] IN
        \/ i \notin DOMAIN dict
        \/ dict[i] \notin ToSet(ks)
        \/ \E m \in 1 .. n - 1 : RequiredIndices(b)[m] = i}
LookedUp(b, ks) ==
    CHOOSE n \in 0 .. Len(ks) :
        /\ n = Len(ks) \/ IndicesLeft(b, SubSeq(ks, 1, n)) = {}
        /\ \A m \in 0 .. n - 1 : IndicesLeft(b, SubSeq(ks, 1, m)) # {}

(***************************************************************************)
(* The counts come first; a single pair takes a shorter way.               *)
(***************************************************************************)
Doublets(ps) == \E i, j \in DOMAIN ps : i # j /\ ps[i].key = ps[j].key

CountsFit(b, ps) ==
    /\ ~Doublets(ps)
    /\ Len(ps) >= MinCount(b)
    /\ Cardinality(RequiredKeys(b)) <= Len(ps)
    /\ Len(RequiredIndices(b)) <= Len(ps)
NothingAsked(b) == RequiredKeys(b) = {} /\ Forbidden(b) = {} /\ RequiredIndices(b) = <<>>

SinglePair(b, k) ==
    /\ k \notin Forbidden(b)
    /\ RequiredKeys(b) \subseteq {k}
    /\ \A n \in DOMAIN RequiredIndices(b) :
          RequiredIndices(b)[n] \in DOMAIN dict /\ dict[RequiredIndices(b)[n]] = k

RequiredSigned(b, ps) ==
    /\ CountsFit(b, ps)
    /\ \/ NothingAsked(b)
       \/ Len(ps) = 1 /\ SinglePair(b, ps[1].key)
       \/ /\ Len(ps) > 1
          /\ \A i \in DOMAIN ps : ps[i].key \notin Forbidden(b)
          /\ KeysLeft(b, ps) = {} /\ IndicesLeft(b, KeysOf(ps)) = {}

\* The signers that were looked up are in the dictionary afterwards.
DictAfter(b, ps) ==
    IF ~CountsFit(b, ps) \/ NothingAsked(b) \/ RequiredIndices(b) = <<>> THEN dict
    ELSE Added(SubSeq(KeysOf(ps), 1, LookedUp(b, KeysOf(ps))))

(***************************************************************************)
(* RegisterAddressRole::checkRequiredSignatures: the root is among the     *)
(* signers that are neither account nor user.                              *)
(***************************************************************************)
\* Fault: any third signer will do.
RootSignedAnyone(b, ps) ==
    \E i \in DOMAIN ps : ps[i].key \notin {Key(b.account), Key(b.user)}

RootSigned(b, ps) ==
    \E i \in DOMAIN ps : ps[i].key \notin {Key(b.account), Key(b.user)} /\ ps[i].key = Root

(***************************************************************************)
(* InMemory::getAddressType, up to a date.  The index knows a key as user  *)
(* or account of registrations and answers with their type.  When the last *)
(* of them is later than the date, getAddressTypeSlow searches: it answers *)
(* with the type of the last registration up to the date that the key is   *)
(* involved in, be it as nothing but a signer.                             *)
(***************************************************************************)
Of(n) == registrations[n]
OwnOf(k) == {n \in DOMAIN registrations : k \in {Of(n).user, Of(n).account}}
Involving(k, date) == {n \in DOMAIN registrations : k \in Of(n).signers /\ Of(n).date <= date}
IsLast(n, S) == n \in S /\ \A m \in S : m <= n

HumanAt(k, date) ==
    \E n \in OwnOf(k) :
        /\ IsLast(n, OwnOf(k))
        /\ IF Of(n).date <= date THEN Of(n).type = "human"
           ELSE \E m \in Involving(k, date) : IsLast(m, Involving(k, date)) /\ Of(m).type = "human"

(***************************************************************************)
(* GradidoCreationRole::checkRequiredSignatures: every signer was a human  *)
(* when the creation was created.  Like that of a registration it returns  *)
(* early when there is no blockchain to ask.                               *)
(***************************************************************************)
SignersHuman(b, ps) == \A i \in DOMAIN ps : HumanAt(ps[i].key, b.createdAt)

CheckRequiredSignatures(b, ps, blockchain) ==
    /\ RequiredSigned(b, ps)
    /\ blockchain => /\ b.kind = "register" => RootSigned(b, ps)
                     /\ b.kind = "creation" => SignersHuman(b, ps)

(***************************************************************************)
(* The checks of Type::SINGLE of the kinds, as far as they are about keys: *)
(* RegisterAddressRole::run, CommunityRootRole::run and the transfers.     *)
(***************************************************************************)
HasIndex(i) == i \in DOMAIN dict
SingleValid(b) ==
    /\ b.kind = "register" => HasIndex(b.account) /\ HasIndex(b.user) /\ b.account # b.user
    /\ b.kind = "root" => HasIndex(b.account)
    /\ b.kind \in FromSender => b.from # b.to

\* Body, then signatures (when they are to be verified), then who signed.
BodyValid(b) == MemosValid(b) /\ (b.cross => b.otherCommunity) /\ SingleValid(b)
Verified(ps) == \A i \in DOMAIN ps : ps[i].good

Accepts(b, ps, single, verify, blockchain) ==
    /\ single => BodyValid(b) /\ (verify => Verified(ps))
    /\ CheckRequiredSignatures(b, ps, blockchain)

-----------------------------------------------------------------------------
(* SignatureMap::push refuses a key that signed already, also when a map   *)
(* is read from the wire.                                                  *)

CanPush(ps, k) == \A i \in DOMAIN ps : ps[i].key # k

Push(k, good) ==
    /\ Len(pairs) < MaxPairs
    /\ CanPush(pairs, k)
    /\ pairs' = Append(pairs, [key |-> k, good |-> good])
    /\ UNCHANGED <<body, other, dict, registrations>>

PushOther(k, good) ==
    /\ Len(other) < MaxPairs
    /\ CanPush(other, k)
    /\ other' = Append(other, [key |-> k, good |-> good])
    /\ UNCHANGED <<body, pairs, dict, registrations>>

(***************************************************************************)
(* A registration is confirmed: RegisterAddressRole::run asks that the     *)
(* user has no address yet, and nothing of the account; the signers are    *)
(* those checkRequiredSignatures asks for and perhaps others; the index    *)
(* throws when the type of a known account changes.  Dates only grow.  Its *)
(* keys have places in the dictionary.                                     *)
(***************************************************************************)
Register(r) ==
    /\ Len(registrations) < MaxRegistrations
    /\ \A n \in DOMAIN registrations : Of(n).date <= r.date
    /\ r.user # r.account /\ {r.user, r.account, Root} \subseteq r.signers
    /\ OwnOf(r.user) = {}
    /\ \A n \in OwnOf(r.account) : Of(n).type = r.type
    /\ registrations' = Append(registrations, r)
    /\ dict' = Added(<<r.account, r.user>>)
    /\ UNCHANGED <<body, pairs, other>>

(***************************************************************************)
(* GradidoTransactionRole::run, for the state it leaves behind; Accepts    *)
(* says whether it throws.                                                 *)
(***************************************************************************)
Validate(single, verify) ==
    /\ dict' = IF single => BodyValid(body) /\ (verify => Verified(pairs))
               THEN DictAfter(body, pairs) ELSE dict
    /\ UNCHANGED <<body, pairs, other, registrations>>

(***************************************************************************)
(* SignatureMap::isTheSame and isPairing.  A map from hash to pair keeps   *)
(* the first pair of a hash.                                               *)
(***************************************************************************)
OfHash(ps, h) == ps[CHOOSE i \in DOMAIN ps :
                      PairHash(ps[i]) = h /\ \A j \in 1 .. i - 1 : PairHash(ps[j]) # h]
SameMap(ps, qs) ==
    /\ Len(ps) = Len(qs)
    /\ IF Len(ps) = 1 THEN ps[1] = qs[1]
       ELSE \A q \in ToSet(qs) : \E i \in DOMAIN ps :
              PairHash(ps[i]) = PairHash(q) /\ OfHash(ps, PairHash(q)) = q
PairingMap(ps, qs) ==
    /\ Len(ps) = Len(qs)
    /\ \A q \in ToSet(qs) : \E i \in DOMAIN ps : ps[i].key = q.key

-----------------------------------------------------------------------------
\* The dictionary knows the keys of the body when it was read or built.
SignaturesInit(bodies) ==
    /\ \E k, l \in AllKeys : k # l /\ dict = <<k, l>>
    /\ body \in bodies
    /\ pairs = <<>> /\ other = <<>>
    /\ registrations = <<>>

Sign == \E k \in AllKeys, good \in BOOLEAN : Push(k, good)
SignOther == \E k \in AllKeys, good \in BOOLEAN : PushOther(k, good)
Chain ==
    \E type \in {"human", "other"}, user, account \in Keys, signers \in SUBSET AllKeys, date \in 1 .. MaxDate :
        Register([type |-> type, user |-> user, account |-> account, signers |-> signers, date |-> date])
Check == \E single, verify \in BOOLEAN : Validate(single, verify)

SignaturesNext == Sign \/ SignOther \/ Chain \/ Check

SignaturesSpec(bodies) == SignaturesInit(bodies) /\ [][SignaturesNext]_signatureVars

-----------------------------------------------------------------------------
Signers == {p.key : p \in ToSet(pairs)}
Signed(i) == i \in DOMAIN dict /\ dict[i] \in Signers

(***************************************************************************)
(* Reference: who authorizes a transaction, with and without a blockchain  *)
(* that knows the root and the humans.                                     *)
(***************************************************************************)
IsHumanAt(k, date) == \E n \in OwnOf(k) : Of(n).type = "human" /\ Of(n).date <= date

Authorized(b, blockchain) ==
    /\ b.kind = "root" => Signed(b.account)
    /\ b.kind = "register" => /\ b.account # b.user /\ Signed(b.account) /\ Signed(b.user)
                              /\ \E k \in Signers \ {dict[b.account], dict[b.user]} : blockchain => k = Root
    /\ b.kind = "creation" => /\ Signers # {} /\ b.to \notin Signers
                              /\ blockchain => \A k \in Signers : IsHumanAt(k, b.createdAt)
    /\ b.kind \in FromSender => b.from \in Signers

\* A registered key that has also signed the registration of others: the search for its type
\* may find theirs.
Mixed(k) == OwnOf(k) # {} /\ \E n \in DOMAIN registrations : k \in Of(n).signers /\ n \notin OwnOf(k)
TypesFound == body.kind = "creation" => \A k \in Signers : ~Mixed(k)

(***************************************************************************)
(* With and without verification of the signatures, with and without a     *)
(* blockchain, by the short way of a single pair or the scan of several,   *)
(* checkRequiredSignatures lets pass exactly the transactions that the     *)
(* right keys have signed: without a blockchain anybody may be the third   *)
(* signer of a registration or sign a creation for someone else.  The      *)
(* exception is a creation whose signers have also signed registrations of *)
(* others, for which the type of an address may be wrong.                  *)
(***************************************************************************)
AcceptedIffAuthorized ==
    \A blockchain \in BOOLEAN :
        /\ (blockchain => TypesFound) =>
             (CheckRequiredSignatures(body, pairs, blockchain) <=> Authorized(body, blockchain))
        /\ Accepts(body, pairs, TRUE, TRUE, blockchain) => \A i \in DOMAIN pairs : pairs[i].good

(***************************************************************************)
(* Every memo of a valid body has a text of 5 to 450 bytes: an encrypted   *)
(* one is 32 bytes longer.                                                 *)
(***************************************************************************)
MemoTextBounded ==
    Accepts(body, pairs, TRUE, FALSE, FALSE) /\ body.kind \in WithMemo =>
        \A memo \in body.memos :
            memo.size \in IF memo.plain THEN 5 .. 450 ELSE 37 .. 482

(***************************************************************************)
(* Two maps are the same when they hold the same pairs, and pairing when   *)
(* the same keys signed, in whatever order (SignatureMap.h: "on pairing    *)
(* compare only public keys").                                             *)
(***************************************************************************)
SameExact == SameMap(pairs, other) <=> ToSet(pairs) = ToSet(other)
PairingExact ==
    PairingMap(pairs, other) <=> Signers = {p.key : p \in ToSet(other)}

(***************************************************************************)
(* Validation lets pass exactly what the right keys have signed, with      *)
(* memos of 5 to 450 bytes of text; signature maps are the same, or        *)
(* pairing, when their pairs, or keys, are.                                *)
(***************************************************************************)
AcceptedIffValid == AcceptedIffAuthorized /\ MemoTextBounded /\ SameExact /\ PairingExact

Stays ==
    pairs' = pairs => \A blockchain \in BOOLEAN :
        (blockchain => TypesFound /\ TypesFound') =>
            (Accepts(body, pairs, TRUE, TRUE, blockchain) => Accepts(body, pairs, TRUE, TRUE, blockchain)')

(***************************************************************************)
(* A transaction that was accepted is accepted again whatever the          *)
(* blockchain confirms and whatever validation enters into the dictionary  *)
(* in between, with the exception above.                                   *)
(***************************************************************************)
AcceptedStays == [][Stays]_signatureVars
=============================================================================
