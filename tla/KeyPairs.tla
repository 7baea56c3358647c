------------------------------ MODULE KeyPairs ------------------------------
(***************************************************************************)
(* Key pairs and what is encrypted with them: KeyPairEd25519 and the       *)
(* children derived from it, AuthenticatedEncryption with its numbered     *)
(* shared secrets, and EncryptedMemo with the compression of its text.     *)
(*                                                                         *)
(* libsodium is symbolic: a private key is the path it was derived along   *)
(* (the seed, then the indices), its public key the same path, a shared    *)
(* secret the set of the two public keys.  A text is abstracted to its     *)
(* size, whether it begins with the two bytes of the zlib header, and the  *)
(* size it is compressed to.                                               *)
(***************************************************************************)
EXTENDS Integers, Sequences, FiniteSets

CONSTANTS
    Seeds, Indices,
    HardFrom,            \* 0x80000000 of getDerivationType
    Texts,               \* [size, header, packed]
    SkipSize, Buffer,    \* GRADIDO_ENCRYPTED_MEMO_COMPRESSION_DEFAULT_...
    Thrown, None,
    MaxDepth, MaxKeys,   \* bounds: indices of a path, key pairs
    MaxIndex             \* bound: shared secrets made

\* What a key pair consists of, a path in place of its keys; a text as it is compressed.
Path == Seq(Seeds \cup Indices)
PairsOf(indices) == [pub : Path, private : BOOLEAN, chain : BOOLEAN, index : indices]
PackedTexts == [text : Texts, packed : BOOLEAN, header : BOOLEAN]

\* An exception is no key pair and no text; sizes are numbers.
KeyAssumption ==
    /\ None \notin Indices
    /\ Texts \subseteq [size : Nat, header : BOOLEAN, packed : Nat] /\ Buffer \in Nat
    /\ Thrown \notin PairsOf(Indices) \cup Texts \cup PackedTexts

VARIABLES
    keyPairs,            \* [pub, private, chain, index]
    made,                \* <<parent, index, child>>: who derived whom
    memo,                \* an EncryptedMemo, or None
    secrets, lastIndex,  \* mPrecalculatedSharedSecrets, mPrecalculatedSharedSecretLastIndex
    handed               \* <<index, partner>> its callers hold

derivation == <<keyPairs, made>>
sharing == <<secrets, lastIndex, handed>>
vars == <<derivation, memo, sharing>>

Init(pairs) ==
    /\ keyPairs = pairs /\ made = {} /\ memo = None
    /\ secrets = <<>> /\ lastIndex = 0 /\ handed = {}

-----------------------------------------------------------------------------
(* KeyPairEd25519 *)

\* The constructor: a public key of 32 bytes, or of 33 whose first is dropped.
KeyPair(path, private, chain, index) == [pub |-> path, private |-> private, chain |-> chain, index |-> index]

\* create(seed): both keys and the chain code are made of the seed.
FromSeed(seed) == KeyPair(<<seed>>, TRUE, TRUE, None)

IsHard(index) == index >= HardFrom

\* Fault: the index is missing in what the child is made of.
DerivePrivateKeySame(pair, index) ==
    IF IsHard(index) THEN KeyPair(Append(pair.pub, HardFrom), TRUE, TRUE, index) ELSE Thrown

\* The child is made of the private key, the chain code and the index.
DerivePrivateKey(pair, index) ==
    IF IsHard(index) THEN KeyPair(Append(pair.pub, index), TRUE, TRUE, index) ELSE Thrown

\* derivePublicKey throws: not supported for ed25519.
DeriveChild(pair, index) ==
    IF pair.chain /\ pair.private THEN DerivePrivateKey(pair, index) ELSE Thrown

\* KeyPairEd25519Ex::isChildOf
IsChildOf(child, parent) ==
    LET fresh == DeriveChild(parent, child.index)
    IN  IF fresh = Thrown THEN Thrown ELSE fresh.pub = child.pub

Adds(pair) == keyPairs' = keyPairs \union {pair} /\ Cardinality(keyPairs') <= MaxKeys

Create ==
    /\ \E seed \in Seeds : Adds(FromSeed(seed))
    /\ UNCHANGED <<made, memo, sharing>>

Derive ==
    \E pair \in keyPairs, index \in Indices :
        LET child == DeriveChild(pair, index)
        IN  /\ child # Thrown /\ Len(pair.pub) <= MaxDepth
            /\ Adds(child)
            /\ made' = made \union {<<pair.pub, index, child.pub>>}
            /\ UNCHANGED <<memo, sharing>>

\* Someone else has the public key, with or without the chain code.
Publish ==
    /\ \E pair \in keyPairs, chain \in BOOLEAN :
          pair.private /\ Adds(KeyPair(pair.pub, FALSE, chain, pair.index))
    /\ UNCHANGED <<made, memo, sharing>>

Deriving == Create \/ Derive \/ Publish

-----------------------------------------------------------------------------
(* The compression of a memo *)

Compress(text) ==
    IF text.size < SkipSize \/ text.size <= text.packed
      THEN [text |-> text, packed |-> FALSE, header |-> text.header]
      ELSE [text |-> text, packed |-> TRUE, header |-> TRUE]

\* tinf_zlib_uncompress: anything that goes wrong is a data error.
Uncompress(content, room) ==
    IF content.packed /\ content.text.size <= room THEN content.text ELSE Thrown

\* What does not begin with the header is not compressed; a data error is tried
\* again with twice the buffer.
Decompress(content) ==
    IF ~content.header
      THEN content.text
      ELSE IF Uncompress(content, Buffer) # Thrown THEN Uncompress(content, Buffer)
                                                   ELSE Uncompress(content, 2 * Buffer)

-----------------------------------------------------------------------------
(* AuthenticatedEncryption, SealedBoxes and EncryptedMemo *)

\* AuthenticatedEncryption(KeyPairEd25519)
Party(pair) == [pub |-> pair.pub, private |-> pair.private]

\* AuthenticatedEncryption(privateKeyx25519): the key that is given is not used, the
\* pair is made of memory nobody has written.
PartyOfPrivate(private) == [pub |-> None, private |-> TRUE]

\* encrypt and decrypt: without the own private key they throw.
BoxEasy(content, own, partner) ==
    IF own.private THEN [kind |-> "box", of |-> {own.pub, partner.pub}, content |-> content] ELSE Thrown

OpenEasy(box, own, partner) ==
    IF own.private /\ box.kind = "box" /\ box.of = {own.pub, partner.pub} THEN box.content ELSE Thrown

Sealed(content, community) == [kind |-> "seal", of |-> {community.pub}, content |-> content]

OpenSealed(box, community) ==
    IF community.private /\ box.kind = "seal" /\ box.of = {community.pub} THEN box.content ELSE Thrown

\* The memo both parties can read: whoever of the two has a private key encrypts.
SharedMemo(text, first, second) ==
    IF first.private THEN BoxEasy(Compress(text), first, second)
                     ELSE BoxEasy(Compress(text), second, first)

CommunityMemo(text, community) == Sealed(Compress(text), community)

Read(content) == IF content = Thrown THEN Thrown ELSE Decompress(content)

\* Fault: the first key pair is taken for the one that is complete.
DecryptSharedFirst(box, first, second) == Read(OpenEasy(box, first, second))

DecryptShared(box, first, second) ==
    IF first.private THEN Read(OpenEasy(box, first, second))
                     ELSE Read(OpenEasy(box, second, first))

DecryptCommunity(box, community) == Read(OpenSealed(box, community))

Parties == {Party(pair) : pair \in keyPairs}

WriteShared ==
    /\ memo = None
    /\ \E text \in Texts, first, second \in Parties :
          /\ SharedMemo(text, first, second) # Thrown
          /\ memo' = [text |-> text, box |-> SharedMemo(text, first, second), between |-> {first.pub, second.pub}]
    /\ UNCHANGED <<derivation, sharing>>

WriteCommunity ==
    /\ memo = None
    /\ \E text \in Texts, community \in Parties :
          memo' = [text |-> text, box |-> CommunityMemo(text, community), between |-> {community.pub}]
    /\ UNCHANGED <<derivation, sharing>>

Drop == memo # None /\ memo' = None /\ UNCHANGED <<derivation, sharing>>

Memos == WriteShared \/ WriteCommunity \/ Drop

-----------------------------------------------------------------------------
(* The numbered shared secrets of one AuthenticatedEncryption *)

NextIndex == lastIndex + 1

\* std::map::insert keeps what is there.
PrecalculateSharedSecret(partner) ==
    /\ lastIndex < MaxIndex
    /\ lastIndex' = NextIndex
    /\ secrets' = [i \in DOMAIN secrets \union {NextIndex} |->
                      IF i \in DOMAIN secrets THEN secrets[i] ELSE partner]
    /\ handed' = handed \union {<<NextIndex, partner>>}
    /\ UNCHANGED <<derivation, memo>>

\* A caller gives back what it holds.
RemovePrecalculatedSharedSecret(index, partner) ==
    /\ <<index, partner>> \in handed
    /\ handed' = handed \ {<<index, partner>>}
    /\ secrets' = [i \in DOMAIN secrets \ {index} |-> secrets[i]]
    /\ UNCHANGED <<derivation, memo, lastIndex>>

Sharing ==
    \/ \E seed \in Seeds : PrecalculateSharedSecret(seed)
    \/ \E agreed \in handed : RemovePrecalculatedSharedSecret(agreed[1], agreed[2])

\* encrypt with an index: an index that is not there leaves the block unwritten and
\* throws nothing.
EncryptFor(index) == IF index \in DOMAIN secrets THEN secrets[index] ELSE None

\* decrypt with an index of what a partner has sent: throws when it is another's.
DecryptFrom(index, partner) ==
    IF index \notin DOMAIN secrets THEN None
    ELSE IF secrets[index] = partner THEN partner ELSE Thrown

-----------------------------------------------------------------------------
Next == Deriving \/ Memos \/ Sharing

\* Beginning with the pairs somebody has.
Spec(pairs) == Init(pairs) /\ [][Next]_vars

-----------------------------------------------------------------------------
(* Properties *)

\* isChildOf answers for a parent with its private key and its chain code, and says yes for
\* exactly the children derived from it; two paths never meet in one key.
ChildExact ==
    /\ \A child, parent \in keyPairs : child.index # None =>
          IF parent.private /\ parent.chain
            THEN IsChildOf(child, parent) = (<<parent.pub, child.index, child.pub>> \in made)
            ELSE IsChildOf(child, parent) = Thrown
    /\ \A one, other \in made : one[3] = other[3] => one = other

\* What the code's decompress can give back: a compressed text up to twice the buffer, an
\* uncompressed one unless it begins like a compressed one.
Fits(content) == IF content.packed THEN content.text.size <= 2 * Buffer ELSE ~content.header

ReadBy(readable) ==
    /\ \A first, second \in Parties : first.private \/ second.private =>
          (DecryptShared(memo.box, first, second) = memo.text
             <=> readable /\ memo.box.kind = "box" /\ {first.pub, second.pub} = memo.between)
    /\ \A community \in Parties : community.private =>
          (DecryptCommunity(memo.box, community) = memo.text
             <=> readable /\ memo.box.kind = "seal" /\ {community.pub} = memo.between)

\* A memo that fits is read by each of the two it is between, with their key pairs in either order, or
\* by its community, and by nobody else.
MemoReadable == memo # None => ReadBy(Fits(memo.box.content))

\* An index that was handed out and not given back encrypts for the partner it was made for, and
\* opens what the partner sends.
IndexIsPartner ==
    \A agreed \in handed :
        EncryptFor(agreed[1]) = agreed[2] /\ DecryptFrom(agreed[1], agreed[2]) = agreed[2]

\* What is encrypted is for the partner it was meant for.
ReadByPartner == MemoReadable /\ IndexIsPartner

\* Every memo that was written can be read.
EveryMemoReadable == memo # None => ReadBy(TRUE)

\* SealedBoxes::decrypt with the private key of the community opens what was sealed for it.
SealedOpensByPrivate ==
    memo # None /\ memo.box.kind = "seal" =>
        \A pub \in memo.between : OpenSealed(memo.box, PartyOfPrivate(pub)) # Thrown
=============================================================================
