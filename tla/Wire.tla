-------------------------------- MODULE Wire --------------------------------
(***************************************************************************)
(* The wire format: interaction::serialize::Context turns an event, a      *)
(* Hiero id, a ledger anchor or a signature map into bytes, and            *)
(* interaction::deserialize::Context turns bytes into the one of these     *)
(* types it was told, or, told nothing, into the first one that fits.      *)
(* The adapters to the compact form and to the structures of the core      *)
(* library, and the text of a transaction id, belong here too.             *)
(*                                                                         *)
(* A message is a function from field numbers to a wire type and a value:  *)
(* the coder (an external library) skips a field whose wire type is not    *)
(* the expected one.  A number stands for a range: its width in bytes is   *)
(* Width, its place among the limits of the integer types is its order.    *)
(***************************************************************************)
EXTENDS Integers, FiniteSetsExt, TLC

CONSTANTS
    Items,          \* what is serialized: [kind, value]
    Hints,          \* the types a caller names
    Widths,         \* the bytes of a number as a varint, by number
    MaxInt32, MaxUInt32,   \* the numbers that stand for these limits
    AliasBytes,     \* the size of an account alias
    ZeroAlias,      \* an alias of zero bytes only
    None            \* no value: a missing field, nullptr, an exception

LimitsOrdered == 0 < MaxInt32 /\ MaxInt32 < MaxUInt32

VARIABLES
    item,        \* what was given to serialize::Context
    hint,        \* the type given to deserialize::Context
    bytes,       \* the serialized message
    mType, decoded,   \* the type and the object deserialize::Context holds
    pc           \* the type that is tried next

vars == <<item, hint, bytes, mType, decoded, pc>>

(* The enumeration of the anchor types, as far as the code tells them apart. *)
Unspecified == 0
HieroTransaction == 1
LegacyTransaction == 2
LegacyOther == 3
NodeTrigger == 4

IsLegacyGradidoId(type) == type \in {LegacyTransaction, LegacyOther}

(* The fields of the messages by number, as the serializer and as the      *)
(* deserializer declare them: a number and a boolean are varints, a byte   *)
(* string and a message come with their length.                            *)
WrittenAs ==
    [signatures |-> <<"len">>,
     pair |-> <<"len", "len">>,
     timestamp |-> <<"varint", "varint">>,
     account |-> <<"varint", "varint", "varint", "len">>,
     topic |-> <<"varint", "varint", "varint">>,
     transactionId |-> <<"len", "len", "varint", "varint">>,
     anchor |-> <<"varint", "reserved", "len", "varint">>,
     event |-> <<"varint", "len", "varint">>]

ReadAs ==
    [timestamp |-> <<"varint", "varint">>,
     account |-> <<"varint", "varint", "varint", "len">>,
     topic |-> <<"varint", "varint", "varint">>,
     transactionId |-> <<"len", "len", "varint", "varint">>,
     anchor |-> <<"varint", "reserved", "len", "varint">>,
     event |-> <<"varint", "len", "varint">>]

Put(kind, n, v) == n :> [wire |-> WrittenAs[kind][n], val |-> v]
NoFields == [x \in {} |-> None]

Get(kind, message, n) ==
    IF n \in DOMAIN message /\ message[n].wire = ReadAs[kind][n] THEN message[n].val ELSE None
Or(v, default) == IF v = None THEN default ELSE v

-----------------------------------------------------------------------------
(***************************************************************************)
(* Encoding                                                                *)
(***************************************************************************)
(* Block::isEmpty is true when every byte is zero, not only without bytes *)
AliasIsEmpty(alias) == alias \in {None, ZeroAlias}

(* Fault: the account number is always written. *)
AccountMessageBoth(a) ==
    Put("account", 1, a.shard) @@ Put("account", 2, a.realm) @@ Put("account", 3, a.num) @@
    (IF AliasIsEmpty(a.alias) THEN NoFields ELSE Put("account", 4, a.alias))

AccountMessage(a) ==
    Put("account", 1, a.shard) @@ Put("account", 2, a.realm) @@
    (IF AliasIsEmpty(a.alias) THEN Put("account", 3, a.num) ELSE Put("account", 4, a.alias))

TopicMessage(t) == Put("topic", 1, t.shard) @@ Put("topic", 2, t.realm) @@ Put("topic", 3, t.num)

TimestampMessage(t) == Put("timestamp", 1, t.seconds) @@ Put("timestamp", 2, t.nanos)

TransactionIdMessage(id) ==
    Put("transactionId", 1, TimestampMessage(id.start)) @@ Put("transactionId", 2, AccountMessage(id.account)) @@
    (IF id.scheduled THEN Put("transactionId", 3, 1) ELSE NoFields) @@
    (IF id.nonce # 0 THEN Put("transactionId", 4, id.nonce) ELSE NoFields)

EventMessage(e) ==
    Put("event", 1, e.linked) @@ Put("event", 2, TimestampMessage(e.target)) @@ Put("event", 3, e.type)

(* adapter::fromCompact, which LedgerAnchor::getHieroTransactionId uses *)
FromCompact(c) ==
    [start |-> [seconds |-> c.seconds, nanos |-> c.nanos],
     account |-> [shard |-> 0, realm |-> 0, num |-> c.num, alias |-> None],
     scheduled |-> FALSE, nonce |-> 0]

AnchorMessage(a) ==
    Put("anchor", 1, a.type) @@
    (IF a.type = HieroTransaction THEN Put("anchor", 3, TransactionIdMessage(FromCompact(a.hiero)))
     ELSE IF IsLegacyGradidoId(a.type) \/ a.type = NodeTrigger THEN Put("anchor", 4, a.id)
     ELSE NoFields)

(* Of a signature map only the number of its pairs matters, and that they  *)
(* are messages of two byte strings.                                       *)
SignatureMapMessage(n) == 
    IF n = 0 THEN NoFields ELSE Put("signatures", 1, Put("pair", 1, None) @@ Put("pair", 2, None))

Message(i) ==
    CASE i.kind = "event" -> EventMessage(i.value)
      [] i.kind = "account" -> AccountMessage(i.value)
      [] i.kind = "topic" -> TopicMessage(i.value)
      [] i.kind = "transactionId" -> TransactionIdMessage(i.value)
      [] i.kind = "anchor" -> AnchorMessage(i.value)
      [] i.kind = "signatures" -> SignatureMapMessage(i.value.pairs)

(* The bytes of a message: a tag, and a varint or a length and a content. *)
FlatSize(message) == MapThenSumSet(
    LAMBDA n : 1 + (IF message[n].wire = "varint" THEN Widths[message[n].val] ELSE 1 + AliasBytes),
    DOMAIN message)
NestedSize(message, Inner(_)) == MapThenSumSet(
    LAMBDA n : 1 + (IF message[n].wire = "varint" THEN Widths[message[n].val]
                                                 ELSE 1 + Inner(message[n].val)),
    DOMAIN message)
TransactionIdSize(message) == NestedSize(message, FlatSize)
PairSize == 2 + (2 + 32) + (2 + 64)

EncodedSize(i) ==
    CASE i.kind \in {"account", "topic"} -> FlatSize(Message(i))
      [] i.kind \in {"event", "transactionId"} -> TransactionIdSize(Message(i))
      [] i.kind = "anchor" -> NestedSize(Message(i), TransactionIdSize)
      [] i.kind = "signatures" -> i.value.pairs * PairSize

(* What the roles reserve for a message. *)
AccountSize(a) == 2 * 9 + 2 + (IF AliasIsEmpty(a.alias) THEN 9 ELSE AliasBytes)
TopicSize == 3 * 9 + 2
IdSize(id) == 4 + 9 + 5 + 5 + AccountSize(id.account)
EventSize == 8 + 16 + 4 + 8

(* AbstractRole::serializedSize: ten bytes for what needs more than five *)
SerializedSize(n) == IF Widths[n] > 5 THEN 10 ELSE Widths[n]

(* Only one of the legacy types has its number counted; the margin of four *)
(* bytes, and the ten of encode, make up for the others.                   *)
AnchorSize(a) ==
    2 + 4 + (IF a.type = HieroTransaction THEN 36
             ELSE IF a.type \in {LegacyTransaction, NodeTrigger} THEN SerializedSize(a.id)
             ELSE 0)

SignatureMapSize(n) == n * (32 + 64 + 6)

CalculateSerializedSize(i) ==
    CASE i.kind = "event" -> EventSize
      [] i.kind = "account" -> AccountSize(i.value)
      [] i.kind = "topic" -> TopicSize
      [] i.kind = "transactionId" -> IdSize(i.value)
      [] i.kind = "anchor" -> AnchorSize(i.value)
      [] i.kind = "signatures" -> SignatureMapSize(i.value.pairs)

(* AbstractRole::encode: nullptr when the buffer is too small, and for a   *)
(* message without a byte                                                  *)
Encode(i) ==
    IF EncodedSize(i) > CalculateSerializedSize(i) + 10 \/ EncodedSize(i) = 0
    THEN None ELSE Message(i)

-----------------------------------------------------------------------------
(***************************************************************************)
(* Decoding: a role throws (None) when a member it needs is missing.       *)
(***************************************************************************)
DecodeAccount(m) ==
    LET num == Get("account", m, 3) alias == Get("account", m, 4) IN
    IF num = None /\ alias = None THEN None
    ELSE [shard |-> Or(Get("account", m, 1), 0), realm |-> Or(Get("account", m, 2), 0),
          num |-> Or(num, 0), alias |-> IF num = None THEN alias ELSE None]

DecodeTopic(m) ==
    IF Get("topic", m, 3) = None THEN None
    ELSE [shard |-> Or(Get("topic", m, 1), 0), realm |-> Or(Get("topic", m, 2), 0),
          num |-> Get("topic", m, 3)]

DecodeTimestamp(m) ==
    IF m = None \/ None \in {Get("timestamp", m, 1), Get("timestamp", m, 2)} THEN None
    ELSE [seconds |-> Get("timestamp", m, 1), nanos |-> Get("timestamp", m, 2)]

DecodeTransactionId(m) ==
    LET start == DecodeTimestamp(Get("transactionId", m, 1))
        account == IF Get("transactionId", m, 2) = None THEN None ELSE DecodeAccount(Get("transactionId", m, 2))
    IN IF start = None \/ account = None THEN None
       ELSE [start |-> start, account |-> account,
             scheduled |-> Or(Get("transactionId", m, 3), 0) # 0,
             nonce |-> Or(Get("transactionId", m, 4), 0)]

(* adapter::toCompact; the alias is looked at as a pointer *)
ToCompact(id) ==
    IF \/ id.account.alias # None \/ id.account.realm # 0 \/ id.account.shard # 0
       \/ id.nonce # 0 \/ id.scheduled
       \/ id.account.num > MaxInt32
    THEN None
    ELSE [seconds |-> id.start.seconds, nanos |-> id.start.nanos, num |-> id.account.num]

EmptyAnchor == [type |-> Unspecified, id |-> None, hiero |-> None]
HieroAnchor(compact) ==
    IF compact = None THEN None
    ELSE [type |-> HieroTransaction, id |-> None, hiero |-> compact]
IdAnchor(n, type) ==
    IF IsLegacyGradidoId(type) \/ type = NodeTrigger
    THEN [type |-> type, id |-> n, hiero |-> None] ELSE None

(* Without an id of either form the anchor is empty, whatever its type. *)
DecodeAnchor(m) ==
    LET hiero == Get("anchor", m, 3) n == Get("anchor", m, 4) type == Get("anchor", m, 1) IN
    IF hiero # None
    THEN LET id == DecodeTransactionId(hiero) IN
         IF id = None THEN None ELSE HieroAnchor(ToCompact(id))
    ELSE IF n = None THEN EmptyAnchor
    ELSE IF type = None THEN None ELSE IdAnchor(n, type)

DecodeEvent(m) ==
    LET target == DecodeTimestamp(Get("event", m, 2)) IN
    IF target = None \/ None \in {Get("event", m, 1), Get("event", m, 3)} THEN None
    ELSE [linked |-> Get("event", m, 1), target |-> target, type |-> Get("event", m, 3)]

-----------------------------------------------------------------------------
(***************************************************************************)
(* deserialize::Context::run, one step for each type it tries              *)
(***************************************************************************)
Serialize ==
    /\ pc = "serialize"
    /\ bytes' = Encode(item)
    /\ pc' = "event"
    /\ UNCHANGED <<item, hint, mType, decoded>>

NoData ==
    /\ pc = "event" /\ bytes = None
    /\ pc' = "thrown"
    /\ UNCHANGED <<item, hint, bytes, mType, decoded>>

(* A type is tried when it was named or, if it is one that is guessed,     *)
(* while the type is unknown; a failure makes the type unknown.            *)
Try(kind, guessed, result, next) ==
    /\ pc = kind /\ bytes # None
    /\ IF mType = kind \/ (guessed /\ mType = "unknown")
       THEN IF result # None
            THEN mType' = kind /\ decoded' = result /\ pc' = "done"
            ELSE mType' = "unknown" /\ pc' = next /\ UNCHANGED decoded
       ELSE pc' = next /\ UNCHANGED <<mType, decoded>>
    /\ UNCHANGED <<item, hint, bytes>>

TryEvent == Try("event", TRUE, DecodeEvent(bytes), "account")
TryAccount == Try("account", TRUE, DecodeAccount(bytes), "topic")
TryTopic == Try("topic", TRUE, DecodeTopic(bytes), "transactionId")
TryTransactionId == Try("transactionId", TRUE, DecodeTransactionId(bytes), "anchor")
TryAnchor == Try("anchor", FALSE, DecodeAnchor(bytes), "done")

Init ==
    /\ item \in Items /\ hint \in Hints
    /\ bytes = None /\ mType = hint /\ decoded = None
    /\ pc = "serialize"

Next == Serialize \/ NoData \/ TryEvent \/ TryAccount \/ TryTopic \/ TryTransactionId \/ TryAnchor

Spec == Init /\ [][Next]_vars

-----------------------------------------------------------------------------
(***************************************************************************)
(* The adapters to the core library, and the text of a transaction id      *)
(***************************************************************************)
ToGrdw(a) ==
    IF a.type = Unspecified THEN [type |-> Unspecified, id |-> None, hiero |-> None]
    ELSE IF a.type = HieroTransaction
    THEN [type |-> HieroTransaction, id |-> None, hiero |-> FromCompact(a.hiero)]
    ELSE [type |-> a.type, id |-> a.id, hiero |-> None]

GrdwToCompact(id) ==
    IF id.account.realm # 0 \/ id.account.shard # 0 \/ id.account.num > MaxInt32 THEN None
    ELSE [seconds |-> id.start.seconds, nanos |-> id.start.nanos, num |-> id.account.num]

FromGrdw(g) ==
    IF g.type = Unspecified THEN EmptyAnchor
    ELSE IF g.type = HieroTransaction THEN HieroAnchor(GrdwToCompact(g.hiero))
    ELSE IdAnchor(g.id, g.type)

(* "shard.realm.num", or the alias in hexadecimal digits instead of num *)
AccountText(a) == <<a.shard, a.realm, IF AliasIsEmpty(a.alias) THEN a.num ELSE a.alias>>
TopicText(t) == <<t.shard, t.realm, t.num>>

(* Three numbers are read, whatever follows them. *)
ParseAccount(t) == [shard |-> t[1], realm |-> t[2], num |-> t[3], alias |-> None]
ParseTopic(t) == [shard |-> t[1], realm |-> t[2], num |-> t[3]]

(* "shard.realm.num@seconds.nanos": scheduled, nonce and alias are not shown *)
ToText(id) == [account |-> AccountText([id.account EXCEPT !.alias = None]), separator |-> "@",
               seconds |-> id.start.seconds, nanos |-> id.start.nanos]

(* The first '-' of the text ends the account, or else the first '@': in   *)
(* the second format the sign of the seconds is the first '-', and is      *)
(* skipped as if it were the separator.                                    *)
Parse(t) ==
    [start |-> [seconds |-> IF t.separator = "@" /\ t.seconds < 0 THEN -t.seconds ELSE t.seconds,
                nanos |-> t.nanos],
     account |-> ParseAccount(t.account), scheduled |-> FALSE, nonce |-> 0]

-----------------------------------------------------------------------------
HasZeroAlias(i) ==
    \/ i.kind = "account" /\ i.value.alias = ZeroAlias
    \/ i.kind = "transactionId" /\ i.value.account.alias = ZeroAlias

(* What was serialized comes back when its type is named: every id, anchor *)
(* and event, with every combination of the optional members the roles     *)
(* leave out.  (An alias of zero bytes is written as account number 0:     *)
(* HieroAccountIdRole asks isEmpty.)                                       *)
RoundTrip ==
    pc = "done" /\ hint = item.kind /\ ~HasZeroAlias(item) => mType = hint /\ decoded = item.value

(* The order in which an unnamed type is tried recognises events, account  *)
(* ids and transaction ids that are not scheduled; a topic id, or the      *)
(* flag of a scheduled transaction id, looks like an account id.           *)
Recognised(i) == \/ i.kind \in {"event", "account"}
                 \/ i.kind = "transactionId" /\ ~i.value.scheduled
GuessedRight == pc = "done" /\ hint = "unknown" /\ Recognised(item) => mType = item.kind

(* The buffer that encode reserves is large enough for every value, and    *)
(* only a signature map without signatures has no bytes.                   *)
BufferSuffices == pc = "event" /\ bytes = None => item.kind = "signatures" /\ item.value.pairs = 0

(* An anchor survives the structures of the core library, in which every   *)
(* transaction is stored (adapter::toGrdw, adapter::fromGrdw).             *)
AnchorThroughCore == item.kind = "anchor" => FromGrdw(ToGrdw(item.value)) = item.value

(* The compact form gives back the id it was made from.                    *)
CompactExact ==
    item.kind = "transactionId" /\ ToCompact(item.value) # None =>
        FromCompact(ToCompact(item.value)) = item.value

(* The text of an account without alias, of a topic, and of a transaction  *)
(* id after the epoch is parsed back to the id, as far as the text shows   *)
(* it.                                                                     *)
Shown(id) == ~id.scheduled /\ id.nonce = 0 /\ id.account.alias = None
TextParses ==
    /\ item.kind = "account" /\ item.value.alias = None =>
          ParseAccount(AccountText(item.value)) = item.value
    /\ item.kind = "topic" => ParseTopic(TopicText(item.value)) = item.value
    /\ item.kind = "transactionId" /\ Shown(item.value) /\ item.value.start.seconds >= 0 =>
          Parse(ToText(item.value)) = item.value

(* TransactionId.cpp says of its parser that it "should also recognize     *)
(* negative seconds".                                                      *)
TextKeepsSeconds ==
    item.kind = "transactionId" /\ Shown(item.value) => Parse(ToText(item.value)) = item.value

(* compact/HieroTransactionId.h says that the compact form works "as long  *)
(* as shard and realm are 0 and accountNum is less than 2^32".             *)
CompactBelow32Bits ==
    item.kind = "transactionId" =>
        LET id == item.value IN
        /\ Shown(id) /\ id.account.shard = 0 /\ id.account.realm = 0
        /\ id.account.num <= MaxUInt32
        => ToCompact(id) # None
=============================================================================
