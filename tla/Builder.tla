------------------------------ MODULE Builder ------------------------------
(***************************************************************************)
(* GradidoTransactionBuilder: a builder is used for one transaction after  *)
(* the other.  The setters fill the body; the first sign (or, for a        *)
(* time-out, its setter) serializes the body, once for a local transaction *)
(* and twice, outbound and inbound, when sender and recipient community    *)
(* differ; then only signatures and the anchor of the outbound transaction *)
(* may be added until build or buildInbound resets the builder.            *)
(*                                                                         *)
(* A setting is represented by the number of the session (counted by       *)
(* reset) in which it was made; Unset is no setting.  The bytes of a body  *)
(* are the body.                                                           *)
(*                                                                         *)
(* A call that throws ends in state threw.  Most leave the builder as it   *)
(* was; switchBuildState may throw when it has already changed the state.  *)
(***************************************************************************)
EXTENDS Integers, Sequences

CONSTANTS
    CommunityIdIndices, Signers,
    MaxSessions             \* bound: resets, plus one

SessionsAssumption == MaxSessions \in Nat \ {0}

Unset == 0
NoBytes == [kind |-> "no bytes"]

VARIABLES
    session,           \* how often the builder was reset, plus one
    state,             \* mState
    body,              \* mBody
    sender, recipient, \* mSenderCommunityIdIndex, mRecipientCommunityIdIndex
    maps,              \* mBodyByteSignatureMaps
    chosen,            \* mSpecificTransactionChoosen
    anchor,            \* mLedgerAnchor
    built,             \* the transactions handed out since the reset before the last call
    threw              \* the last call threw an exception

builderVars == <<session, state, body, sender, recipient, maps, chosen, anchor, built, threw>>

\* TransactionBody as the constructor and reset make it.
NewBody(s) == [kind |-> "none", specific |-> Unset, createdAt |-> s, memos |-> <<>>,
               type |-> "local", community |-> Unset, other |-> Unset]

NoCommunity == [index |-> Unset, set |-> Unset]

BuilderInit ==
    /\ session = 1 /\ state = "body" /\ body = NewBody(1)
    /\ sender = NoCommunity /\ recipient = NoCommunity
    /\ maps = <<>> /\ chosen = FALSE /\ anchor = Unset
    /\ built = {} /\ threw = FALSE

\* The transactions of this session, which are kept.
Keep == built' = {t \in built : t.session = session}

settings == <<state, body, sender, recipient, maps, chosen, anchor>>

\* A call that throws and changes nothing.
Throws == threw' = TRUE /\ Keep /\ UNCHANGED <<session, settings>>

\* checkBuildState(BUILDING_BODY) of a setter, which then does Set.
InBody(Set) ==
    \/ state # "body" /\ Throws
    \/ state = "body" /\ threw' = FALSE /\ Keep /\ UNCHANGED session /\ Set

-----------------------------------------------------------------------------
(* reset *)

\* Fault: the anchor of the pairing transaction is not reset.
ResetToKeepsAnchor ==
    /\ session' = session + 1
    /\ state' = "body" /\ body' = NewBody(session')
    /\ sender' = NoCommunity /\ recipient' = NoCommunity
    /\ maps' = <<>> /\ chosen' = FALSE
    /\ threw' = FALSE /\ UNCHANGED anchor

ResetTo ==
    /\ session' = session + 1
    /\ state' = "body" /\ body' = NewBody(session')
    /\ sender' = NoCommunity /\ recipient' = NoCommunity
    /\ maps' = <<>> /\ chosen' = FALSE /\ anchor' = Unset
    /\ threw' = FALSE

Reset == session < MaxSessions /\ ResetTo /\ Keep

-----------------------------------------------------------------------------
(* switchBuildState *)

CrossCommunity ==
    /\ sender # NoCommunity /\ recipient # NoCommunity /\ sender.index # recipient.index

\* An entry of mBodyByteSignatureMaps with the signatures of keys.
Entry(bytes, keys) ==
    [bytes |-> bytes, signers |-> [i \in DOMAIN keys |-> [key |-> keys[i], session |-> session, over |-> bytes]]]

\* The community of a local transaction: that of the recipient for a creation.
Home(b) == IF b.kind = "creation" THEN recipient ELSE sender

\* TransactionBody::toGrdw has no case for a body without a specific transaction.
Serializable(b) == b.kind # "none"

Bound(b, type, own, other) ==
    [b EXCEPT !.type = type, !.community = own.index, !.other = other.index]

\* Serializes body b, which keys sign.  An exception leaves the new state, an entry without
\* bytes and what was set of the body behind.
Switch(b, keys) ==
    LET outbound == Bound(b, "outbound", sender, recipient)
        inbound == Bound(b, "inbound", recipient, sender)
        local == [b EXCEPT !.type = "local", !.community = Home(b).index]
        fails == ~Serializable(b) \/ (~CrossCommunity /\ Home(b) = NoCommunity)
    IN  /\ threw' = fails
        /\ state' = IF CrossCommunity THEN "cross" ELSE "local"
        /\ body' = CASE CrossCommunity /\ ~fails -> inbound
                     [] CrossCommunity /\ fails -> outbound
                     [] OTHER -> local
        /\ maps' = CASE fails -> <<Entry(NoBytes, <<>>)>>
                     [] CrossCommunity /\ ~fails -> <<Entry(outbound, keys), Entry(inbound, keys)>>
                     [] OTHER -> <<Entry(local, keys)>>

-----------------------------------------------------------------------------
(* The setters *)

SetSender(c) == InBody(/\ sender' = [index |-> c, set |-> session]
                       /\ UNCHANGED <<state, body, recipient, maps, chosen, anchor>>)

SetRecipient(c) == InBody(/\ recipient' = [index |-> c, set |-> session]
                          /\ UNCHANGED <<state, body, sender, maps, chosen, anchor>>)

SetCreatedAt == InBody(/\ body' = [body EXCEPT !.createdAt = session]
                       /\ UNCHANGED <<state, sender, recipient, maps, chosen, anchor>>)

AddMemo == body.memos = <<>> /\ InBody(/\ body' = [body EXCEPT !.memos = Append(@, session)]
                                       /\ UNCHANGED <<state, sender, recipient, maps, chosen, anchor>>)

\* A setter of the specific transaction: only one may be chosen in a session.
Choose(kind, ready) ==
    \/ (state # "body" \/ chosen \/ ~ready) /\ Throws
    \/ /\ state = "body" /\ ~chosen /\ ready
       /\ body' = [body EXCEPT !.kind = kind, !.specific = session]
       /\ chosen' = TRUE /\ threw' = FALSE
       /\ Keep /\ UNCHANGED <<session, state, sender, recipient, maps, anchor>>

SetDeferredTransfer == Choose("deferred", TRUE)
SetCommunityFriendsUpdate == Choose("friends", TRUE)
SetTransactionCreation == Choose("creation", TRUE)
SetTransactionTransfer == Choose("transfer", TRUE)
SetRedeemDeferredTransfer == Choose("redeem", TRUE)
\* These look up the indices of their keys in the community of the sender.
SetRegisterAddress == Choose("register", sender # NoCommunity)
SetCommunityRoot == Choose("root", sender # NoCommunity)

\* A time-out needs no signature: it is serialized at once.
SetTimeoutDeferredTransfer ==
    \/ (state # "body" \/ chosen) /\ Throws
    \/ /\ state = "body" /\ ~chosen
       /\ Switch([body EXCEPT !.kind = "timeout", !.specific = session], <<>>) /\ chosen' = ~threw'
       /\ Keep /\ UNCHANGED <<session, sender, recipient, anchor>>

\* setTransactionBody: a body made elsewhere, which may be bound to other communities.
SetTransactionBody(kind, type) ==
    InBody(/\ body' = [NewBody(session) EXCEPT !.kind = kind, !.specific = session, !.type = type,
                          !.other = IF type = "local" THEN Unset ELSE CHOOSE c \in CommunityIdIndices : TRUE]
           /\ UNCHANGED <<state, sender, recipient, maps, chosen, anchor>>)

SetParentLedgerAnchor ==
    /\ anchor' = session /\ threw' = FALSE
    /\ Keep /\ UNCHANGED <<session, state, body, sender, recipient, maps, chosen>>

\* The body has bytes and, for SignatureMap::push, key k has not signed it yet.
CanSign(k) ==
    \A i \in DOMAIN maps : maps[i].bytes # NoBytes /\ \A s \in DOMAIN maps[i].signers : maps[i].signers[s].key # k

\* The maps have the same keys, so that the first push throws if any does.
AddSignature(k) ==
    \/ ~CanSign(k) /\ Throws
    \/ /\ CanSign(k) /\ threw' = FALSE
       /\ maps' = [i \in DOMAIN maps |->
             [maps[i] EXCEPT !.signers = Append(@, [key |-> k, session |-> session, over |-> maps[i].bytes])]]
       /\ Keep /\ UNCHANGED <<session, state, body, sender, recipient, chosen, anchor>>

\* The first sign serializes the body first.
Sign(k) ==
    \/ state # "body" /\ AddSignature(k)
    \/ /\ state = "body" /\ Switch(body, <<k>>)
       /\ Keep /\ UNCHANGED <<session, sender, recipient, chosen, anchor>>

-----------------------------------------------------------------------------
(* build, buildOutbound, buildInbound *)

Transaction(i, community) ==
    [session |-> session, bytes |-> maps[i].bytes, signers |-> maps[i].signers,
     community |-> community, anchor |-> anchor]

HandOut(tx) == built' = {t \in built : t.session = session} \union {tx}

Build ==
    \/ state # "local" /\ Throws
    \/ state = "local" /\ session < MaxSessions /\ HandOut(Transaction(1, body.community)) /\ ResetTo

BuildOutbound ==
    \/ state # "cross" /\ Throws
    \/ /\ state = "cross" /\ HandOut(Transaction(1, sender.index)) /\ threw' = FALSE
       /\ UNCHANGED <<session, settings>>

BuildInbound ==
    \/ (state # "cross" \/ anchor = Unset) /\ Throws
    \/ /\ state = "cross" /\ anchor # Unset /\ Len(maps) = 2 /\ session < MaxSessions
       /\ HandOut(Transaction(2, recipient.index)) /\ ResetTo

Call ==
    \/ \E c \in CommunityIdIndices : SetSender(c) \/ SetRecipient(c)
    \/ SetCreatedAt \/ AddMemo \/ SetParentLedgerAnchor
    \/ SetDeferredTransfer \/ SetCommunityFriendsUpdate \/ SetTransactionCreation \/ SetTransactionTransfer
    \/ SetRedeemDeferredTransfer \/ SetRegisterAddress \/ SetCommunityRoot \/ SetTimeoutDeferredTransfer
    \/ \E kind \in {"transfer", "creation"}, type \in {"local", "outbound"} : SetTransactionBody(kind, type)
    \/ \E k \in Signers : Sign(k)
    \/ Build \/ BuildOutbound \/ BuildInbound

\* A caller that takes an exception as the end of the transaction and resets the builder.
BuilderNext == (~threw /\ Call) \/ Reset

BuilderSpec == BuilderInit /\ [][BuilderNext]_builderVars

\* A caller that goes on with the builder after an exception.
GoOnSpec == BuilderInit /\ [][Call \/ Reset]_builderVars

-----------------------------------------------------------------------------
(* Properties *)

\* Types; both bodies of a cross community transaction carry the same signers.
BuilderTypeOK ==
    /\ state \in {"body", "local", "cross"} /\ session \in 1 .. MaxSessions
    /\ (state = "body") = (maps = <<>>)
    /\ Len(maps) = 2 => [i \in DOMAIN maps[1].signers |-> maps[1].signers[i].key]
                        = [i \in DOMAIN maps[2].signers |-> maps[2].signers[i].key]

\* A transaction is made of what was set since the last reset: nothing of an earlier one is left
\* in it, and every signature is one for its bytes.
OfItsSession ==
    \A tx \in built :
        /\ tx.bytes.specific = tx.session /\ tx.bytes.createdAt = tx.session
        /\ \A i \in DOMAIN tx.bytes.memos : tx.bytes.memos[i] = tx.session
        /\ tx.anchor \in {Unset, tx.session}
        /\ \A i \in DOMAIN tx.signers : tx.signers[i].session = tx.session /\ tx.signers[i].over = tx.bytes

\* A transaction goes to the community its body is bound to.
GoesWhereBound == \A tx \in built : tx.community = tx.bytes.community

\* The two transactions of one session are a pair: each names the community of the other, they are
\* otherwise the same, and the inbound one has an anchor (TransactionBody::isPairing).
BuiltPairsMatch ==
    \A out, in \in built :
        out.session = in.session /\ out.bytes.type = "outbound" /\ in.bytes.type = "inbound" =>
            /\ out.bytes.other = in.bytes.community /\ in.bytes.other = out.bytes.community
            /\ out.bytes.other # in.bytes.other
            /\ <<out.bytes.createdAt, out.bytes.memos, out.bytes.kind, out.bytes.specific>>
               = <<in.bytes.createdAt, in.bytes.memos, in.bytes.kind, in.bytes.specific>>
            /\ in.anchor # Unset

\* What a session hands out is what was set in it, as a whole.
BuiltAsSet == BuilderTypeOK /\ OfItsSession /\ GoesWhereBound /\ BuiltPairsMatch

\* Whoever is handed a transaction gets its body: switchBuildState is to "fill
\* mBodyByteSignatureMaps with body bytes, make ready for receiving sign calls".
BuiltHasBody == \A tx \in built : tx.bytes # NoBytes

\* A specific transaction, once chosen, stays until the builder is reset: "specific transaction
\* already choosen, only one is possible!".
OnlyOneSpecific ==
    [][body.kind # "none" /\ session' = session => body'.kind = body.kind]_builderVars
=============================================================================
