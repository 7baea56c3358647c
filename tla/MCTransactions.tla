--------------------------- MODULE MCTransactions ---------------------------
(***************************************************************************)
(* The way of a transaction, in five parts of which one runs at a time:    *)
(* the builder that makes it, its forms in memory, its ids and anchors on  *)
(* the wire, the roles that code it, and transfers on the chains of two    *)
(* communities.                                                            *)
(***************************************************************************)
EXTENDS CrossGroup, Builder, TLC

CONSTANTS
    Parts,              \* which of "chains", "builder", "forms", "wire" and "codec" run
    A, B, anna, bert, bea,
    None, Alias, ZeroAlias

VARIABLES
    part,
    context, chains, wire, full, compact, spare, saved,        \* of Forms
    item, hint, bytes, decoded,                                \* of Wire
    job, role, arena, call, next, whole, result,               \* of Codec
    mType, pc                                                  \* of Wire and Codec

-----------------------------------------------------------------------------
(* Two communities.                                                        *)

TwoCommunities == {A, B}
MCKeys == {anna, bert, bea}
TwoFunded == (A :> {anna}) @@ (B :> {bert})
BeaJoins == {<<B, bea>>}

O(id, created, from, to, home, away, amount, coin) ==
    [id |-> id, created |-> created, from |-> from, to |-> to, home |-> home, away |-> away, amount |-> amount, coin |-> coin]

\* Coins of A go to a key of B that joins later, on to another key of B and back to A; coins
\* of B go the other way.
There == {O(1, 0, anna, bea, A, B, 2, A), O(2, 0, bea, bert, B, B, 1, A),
          O(3, 1, bea, anna, B, A, 1, A), O(4, 0, bert, anna, B, A, 2, B)}

\* A transfer of most of what the sender has.
Most == {O(1, 0, anna, bert, A, B, 4, A), O(2, 0, anna, bert, A, B, 1, A)}

-----------------------------------------------------------------------------
(* Transactions of every type as a node of community "A" may receive them: *)
(* balances as confirmTransaction computes them, signers as the validation *)
(* asks for.  "dave" is a key of both communities.                         *)

Balance(key, cent, coin) == [key |-> key, cent |-> cent, coin |-> coin]

Make(type, keys, signers, balances) ==
    [type |-> type, cross |-> "local", other |-> None, keys |-> keys, coin |-> "A", amount |-> 1,
     number |-> 0, memos |-> 1, signers |-> signers, balances |-> balances, deferral |-> <<>>,
     paired |-> FALSE]

LocalWires ==
    {[Make("transfer", <<"alice", "bob">>, <<"alice">>, <<Balance("alice", 5, c), Balance("bob", 2, c)>>)
         EXCEPT !.coin = c, !.memos = m] : c \in {"A", "B"}, m \in {0, 2, 3}}

CreationWires ==
    {[Make("creation", <<"bob">>, s, <<Balance("bob", 2, "A"), Balance("gmw", 2, "A"), Balance("auf", 2, "A")>>)
         EXCEPT !.number = 2] : s \in {<<"root">>, <<"root", "alice">>, <<"root", "alice", "dave">>}}

RegistrationWires ==
    {[Make("register", k, <<"root", k[2]>>, <<>>) EXCEPT !.number = n] :
        k \in {<<"alice", "bob">>, <<"bob", "bob">>}, n \in {0, 3}}

DeferralWires ==
    {[Make("deferred", <<"alice", "link">>, <<"alice">>, <<Balance("alice", 5, "A"), Balance("link", 2, "A")>>)
         EXCEPT !.number = 3, !.amount = a] : a \in {1, 4}}

RedemptionWires ==
    {[Make("redeem", <<"link", "bob">>, <<"link">>,
           <<Balance("link", 0, "A"), Balance("bob", 2, "A"), Balance("alice", 1, "A")>>) EXCEPT !.number = 7]}

TimeoutWires ==
    {[Make("timeout", <<>>, <<>>, <<Balance("alice", cent, "A"), Balance("link", 0, "A")>>)
         EXCEPT !.number = 7, !.deferral = <<"alice", "link">>, !.memos = 0] : cent \in {0, 5}}

OtherWires ==
    {Make("root", <<"root", "gmw", "auf">>, <<"root">>, <<>>), Make("friends", <<>>, <<"root">>, <<>>)}

InboundWires ==
    {[Make("transfer", <<s, "dave">>, <<s>>, <<Balance("dave", 2, "B")>>)
         EXCEPT !.cross = "inbound", !.other = o, !.coin = "B", !.paired = TRUE] :
            s \in {"alice", "dave"}, o \in {"B", None}}

OutboundWires ==
    {[Make("transfer", <<"alice", "dave">>, <<"alice">>, <<Balance("alice", 5, "A")>>)
         EXCEPT !.cross = "outbound", !.other = "B"]}

AllWires == LocalWires \cup CreationWires \cup RegistrationWires \cup DeferralWires \cup RedemptionWires \cup TimeoutWires
    \cup OtherWires \cup InboundWires \cup OutboundWires

Form == INSTANCE Forms WITH
    Communities <- {"A", "B"}, Own <- "A", Keys <- {"alice", "bob", "dave", "link", "root", "gmw", "auf"},
    Asked <- {"bob", "dave"}, Wires <- AllWires, DerivationLimit <- 4, AmountLimit <- 4

-----------------------------------------------------------------------------
(* Ids and anchors.  Numbers up to 5 are themselves, 6 is the largest      *)
(* int32, 7 the largest uint32, 8 the largest int64 and 9 the largest      *)
(* uint64.                                                                 *)

WidthsOf == (-1 :> 10) @@ 6 :> 5 @@ 7 :> 5 @@ 8 :> 9 @@ 9 :> 10 @@ [n \in 0 .. 5 |-> 1]

Seconds == {-1, 0, 8}

Accounts ==
    [shard : {0, 8}, realm : {0, 1, 8}, num : {0, 1, 6, 7, 8}, alias : {None}] \cup
    [shard : {0, 8}, realm : {0, 1}, num : {0}, alias : {Alias, ZeroAlias}]
Topics == [shard : {0, 8}, realm : {0, 8}, num : {0, 1, 8}]
Timestamps == [seconds : Seconds, nanos : {0, 6}]
TransactionIds ==
    [start : Timestamps, account : Accounts, scheduled : BOOLEAN, nonce : {0, 6}]
Events == [linked : {1, 9}, target : Timestamps, type : {0, 1}]
CompactIds == [seconds : Seconds, nanos : {0, 6}, num : {0, 1, 6}]
Anchors ==
    {[type |-> 0, id |-> None, hiero |-> None]} \cup [type : {1}, id : {None}, hiero : CompactIds] \cup
    [type : {2, 3, 4}, id : {0, 1, 7, 9},
     hiero : {None}]

Of(kind, values) == {[kind |-> kind, value |-> v] : v \in values}

AllItems ==
    Of("event", Events) \cup Of("account", Accounts) \cup Of("topic", Topics) \cup
    Of("transactionId", TransactionIds) \cup Of("anchor", Anchors) \cup Of("signatures", [pairs : 0 .. 2])

IdHints == {"event", "account", "topic", "transactionId", "anchor", "unknown"}

Line == INSTANCE Wire WITH
    Items <- AllItems, Hints <- IdHints, Widths <- WidthsOf, MaxInt32 <- 6, MaxUInt32 <- 7, AliasBytes <- 20

-----------------------------------------------------------------------------
(* Coding: arenas of two or four bytes, aligned to two; up to three parts  *)
(* of one or five bytes, some of them copied without a look at the memory; *)
(* encodes that take nothing, one or three bytes; results that fit the     *)
(* first, the second or no buffer.                                         *)

Uses == {"checked", "copied"}
WrittenParts == {<<>>} \cup UNION {[1..n -> [size : {1, 5}, use : Uses]] : n \in 1..3}
LibraryParts == UNION {[1..n -> [size : {1, 3, 5}, use : {"library"}]] : n \in 1..2}

AllWritings == [by : {"writeConfirmed", "writeTransaction", "writeBody"}, parts : WrittenParts,
                extra : {0, 1, 3}, out : {2, 5, 7}]
AllReadings == [kind : {"transaction", "body"}, parts : LibraryParts, body : {<< >>}] \cup
               [kind : {"confirmed"}, parts : LibraryParts, body : LibraryParts]
TypeHints == {"unknown", "compact", "transaction", "body", "confirmed"}

Code == INSTANCE Codec WITH
    Writings <- AllWritings, Readings <- AllReadings, Hints <- TypeHints,
    Mistaken <- {<<"confirmed", "transaction">>},
    LargeBuffer <- 4, SmallBuffer <- 2, MaxAlloc <- 24, Align <- 2, DynamicOut <- 6

-----------------------------------------------------------------------------
ASSUME SessionsAssumption /\ Form!FormsAssumption /\ Line!LimitsOrdered /\ Code!SizesAssumption

formVars == <<context, chains, wire, full, compact, spare, saved>>
lineVars == <<item, hint, bytes, decoded>>
codeVars == <<job, role, arena, call, next, whole, result>>
shared == <<mType, pc>>
MCVars == <<chain, builderVars, formVars, lineVars, codeVars, shared, part>>

(* The variables of a part that does not run. *)
NoForm == context = None /\ chains = None /\ wire = None /\ full = None /\ compact = None /\ spare = None /\ saved = None
NoLine == item = None /\ hint = None /\ bytes = None /\ decoded = None
NoCode == job = None /\ role = None /\ arena = None /\ call = None /\ next = None /\ whole = None /\ result = None

NoMessage == NoLine /\ NoCode /\ mType = None /\ pc = None

MCInit ==
    /\ part \in Parts
    /\ Init /\ BuilderInit
    /\ \/ part \in {"chains", "builder"} /\ NoForm /\ NoMessage
       \/ part = "forms" /\ Form!Init /\ NoMessage
       \/ part = "wire" /\ NoForm /\ Line!Init /\ NoCode
       \/ part = "codec" /\ NoForm /\ NoLine /\ Code!Init

MCNext ==
    \/ part = "chains" /\ Next /\ UNCHANGED <<builderVars, formVars, lineVars, codeVars, shared, part>>
    \/ part = "builder" /\ BuilderNext /\ UNCHANGED <<chain, formVars, lineVars, codeVars, shared, part>>
    \/ part = "forms" /\ Form!Next /\ UNCHANGED <<chain, builderVars, lineVars, codeVars, shared, part>>
    \/ part = "wire" /\ Line!Next /\ UNCHANGED <<chain, builderVars, formVars, codeVars, part>>
    \/ part = "codec" /\ Code!Next /\ UNCHANGED <<chain, builderVars, formVars, lineVars, part>>

\* A client hands over the inbound transaction of an order until it is confirmed.
MCSpec ==
    /\ MCInit /\ [][MCNext]_MCVars
    /\ \A o \in Orders :
          WF_MCVars(part = "chains" /\ Deliver(o)
                    /\ UNCHANGED <<builderVars, formVars, lineVars, codeVars, shared, part>>)

-----------------------------------------------------------------------------
(* Properties: what the modules state, of the part it is about.            *)

\* The full and the compact form, made in whatever order and with whatever queries between,
\* name the same addresses; the complete form names no others (it may name fewer); all three
\* know the same balances, and what is written is the transaction that was decoded.  Of an
\* outbound transaction this is said only of each form for itself.
FormsAgree ==
    part = "forms" =>
        /\ Form!TypeOK /\ Form!ListIsParts /\ Form!InvolvedIsListed
        /\ Form!CompleteWithinFull /\ Form!SavedIsWire
        /\ wire \notin OutboundWires => Form!FormsAgree /\ Form!BalancesAgree

\* serialize and deserialize: what was serialized, into a buffer that is large enough, is
\* recognised and comes back, through the core library, as compact id and as text as well.
RoundTrip ==
    part = "wire" =>
        /\ Line!BufferSuffices /\ Line!RoundTrip /\ Line!GuessedRight
        /\ Line!AnchorThroughCore /\ Line!CompactExact /\ Line!TextParses

\* Coding with an arena that may overflow: an object is handed out only when every part of
\* it was converted, and what fits twice the buffers is never refused, although one arena
\* serves both encodes.  Of a part that is copied without a look at its memory, only while it
\* gets its memory: else the call ends there, undefined (Codec!TriesAgain).
CodedWhole ==
    part = "codec" => Code!ResultWhole /\ Code!TwiceSuffices /\ Code!WritingReturns
=============================================================================
