------------------------------ MODULE KeyProofs ------------------------------
(***************************************************************************)
(* Proofs about keys: the pairs and what is encrypted with them            *)
(* (KeyPairs), the keys that threads make of logins (Secrets), and who     *)
(* has to sign a transaction (Signatures).                                 *)
(*                                                                         *)
(* KeysAreOfTheirLogin: key, hash and comparison agree for every number of *)
(* threads and objects.  LoginInv adds who is inside which lock and that   *)
(* between the key and its hash the key is the one of the call.            *)
(*                                                                         *)
(* ChildrenExact and PartnersRead: for every seed, path and set of pairs   *)
(* at the start.  PairInv says which keys a pair can have; BoxInv adds     *)
(* that what is written was encrypted with the secret its two parties      *)
(* share, and that an index stays with the partner it was handed out for.  *)
(*                                                                         *)
(* AcceptedIffSigned and AcceptedForGood: for every set of keys and every  *)
(* number of signatures.  SigInv says that a key signs once, that the      *)
(* registrations of a key have one type, and that the dictionary is one to *)
(* one and only grows at its end, which takes the existence of the         *)
(* recursive function that enters signers one by one.                      *)
(***************************************************************************)
EXTENDS KeyPairs, Secrets, Signatures, SumProofs, SequenceTheorems, TLAPS

-----------------------------------------------------------------------------
(* Key pairs and their children. *)

\* Every pair with an index was derived, along a path that ends in it.
PairInv ==
    /\ keyPairs \subseteq PairsOf(Indices \cup {None})
    /\ \A m \in made : \E path \in Path, i \in Indices : IsHard(i) /\ m = <<path, i, Append(path, i)>>
    /\ \A child \in keyPairs : child.index # None => \E path \in Path : <<path, child.index, child.pub>> \in made

\* deriveChild with the private key, the chain code and a hard index; everything else throws.
LEMMA DeriveChildIs ==
    ASSUME KeyAssumption, NEW pair \in PairsOf(Indices \cup {None}), NEW i \in Indices
    PROVE  IF pair.private /\ pair.chain /\ IsHard(i)
             THEN /\ DeriveChild(pair, i) = KeyPair(Append(pair.pub, i), TRUE, TRUE, i)
                  /\ DeriveChild(pair, i) # Thrown /\ DeriveChild(pair, i) \in PairsOf(Indices)
             ELSE DeriveChild(pair, i) = Thrown
<1>1. Append(pair.pub, i) \in Path
  BY AppendProperties DEF PairsOf, Path
<1>2. KeyPair(Append(pair.pub, i), TRUE, TRUE, i) \in PairsOf(Indices)
  BY <1>1 DEF KeyPair, PairsOf
<1> QED
  BY <1>2 DEF DeriveChild, DerivePrivateKey, KeyAssumption, PairsOf

\* PairInv is inductive: a child is entered together with who derived it, and a published key keeps
\* its index.
LEMMA PairStep ==
    ASSUME KeyAssumption, PairInv, [Next]_vars
    PROVE  PairInv'
<1>1. CASE Create
  <2>1. PICK seed \in Seeds : keyPairs' = keyPairs \cup {FromSeed(seed)}
    BY <1>1 DEF Create, Adds
  <2>2. <<seed>> \in Path /\ made' = made
    BY <1>1 DEF Path, Create
  <2>3. FromSeed(seed) \in PairsOf(Indices \cup {None}) /\ FromSeed(seed).index = None
    BY <2>2 DEF FromSeed, KeyPair, PairsOf
  <2> QED
    BY <2>1, <2>2, <2>3 DEF PairInv
<1>2. CASE Derive
  <2>1. PICK pair \in keyPairs, i \in Indices :
            /\ DeriveChild(pair, i) # Thrown /\ keyPairs' = keyPairs \cup {DeriveChild(pair, i)}
            /\ made' = made \cup {<<pair.pub, i, DeriveChild(pair, i).pub>>}
    BY <1>2 DEF Derive, Adds
  <2>2. pair \in PairsOf(Indices \cup {None}) /\ pair.pub \in Path
    BY DEF PairInv, PairsOf
  <2>3. /\ IsHard(i) /\ DeriveChild(pair, i) = KeyPair(Append(pair.pub, i), TRUE, TRUE, i)
        /\ DeriveChild(pair, i) \in PairsOf(Indices \cup {None})
    BY <2>1, <2>2, DeriveChildIs DEF PairsOf
  <2>4. PICK child : child = DeriveChild(pair, i)
    OBVIOUS
  <2>5. child.pub = Append(pair.pub, i) /\ child.index = i /\ child \in PairsOf(Indices \cup {None})
    BY <2>3, <2>4 DEF KeyPair
  <2> QED
    BY <2>1, <2>2, <2>3, <2>4, <2>5 DEF PairInv
<1>3. CASE Publish
  <2>1. PICK pair \in keyPairs, code \in BOOLEAN : keyPairs' = keyPairs \cup {KeyPair(pair.pub, FALSE, code, pair.index)}
    BY <1>3 DEF Publish, Adds
  <2>2. pair \in PairsOf(Indices \cup {None}) /\ made' = made
    BY <1>3 DEF PairInv, Publish
  <2>3. PICK known : known = KeyPair(pair.pub, FALSE, code, pair.index)
    OBVIOUS
  <2>4. known \in PairsOf(Indices \cup {None}) /\ known.index = pair.index /\ known.pub = pair.pub
    BY <2>2, <2>3 DEF KeyPair, PairsOf
  <2> QED
    BY <2>1, <2>2, <2>3, <2>4 DEF PairInv
<1>4. CASE UNCHANGED derivation
  BY <1>4 DEF derivation, PairInv
<1>5. CASE Memos \/ Sharing \/ UNCHANGED vars
  BY <1>5, <1>4 DEF Memos, WriteShared, WriteCommunity, Drop, Sharing, PrecalculateSharedSecret,
                    RemovePrecalculatedSharedSecret, vars
<1> QED
  BY <1>1, <1>2, <1>3, <1>5 DEF Next, Deriving

\* The children of a pair are the pairs derived from it.
LEMMA PairsGiveChildExact ==
    ASSUME KeyAssumption, PairInv
    PROVE  ChildExact
<1>1. ASSUME NEW p \in Path, NEW q \in Path, NEW i \in Indices, NEW j \in Indices, Append(p, i) = Append(q, j)
      PROVE  p = q /\ i = j
  <2>1. i \in Seeds \cup Indices /\ j \in Seeds \cup Indices /\ p \in Seq(Seeds \cup Indices) /\ q \in Seq(Seeds \cup Indices)
    BY DEF Path
  <2> QED
    BY <1>1, <2>1, AppendInjective
<1>2. ASSUME NEW child \in keyPairs, NEW parent \in keyPairs, child.index # None
      PROVE  IF parent.private /\ parent.chain
               THEN IsChildOf(child, parent) = (<<parent.pub, child.index, child.pub>> \in made)
               ELSE IsChildOf(child, parent) = Thrown
  <2>1. PICK i : i = child.index
    OBVIOUS
  <2>2. /\ i \in Indices /\ parent \in PairsOf(Indices \cup {None}) /\ parent.pub \in Path
        /\ \E path \in Path : <<path, i, child.pub>> \in made
    BY <1>2, <2>1 DEF PairInv, PairsOf
  <2>3. PICK path \in Path : <<path, i, child.pub>> \in made
    BY <2>2
  <2>4. IsHard(i) /\ child.pub = Append(path, i)
    <3>1. PICK q \in Path, j \in Indices : IsHard(j) /\ <<path, i, child.pub>> = <<q, j, Append(q, j)>>
      BY <2>3 DEF PairInv
    <3> QED
      BY <3>1
  <2>5. CASE ~(parent.private /\ parent.chain)
    BY <2>5, <2>1, <2>2, DeriveChildIs DEF IsChildOf
  <2>6. CASE parent.private /\ parent.chain
    <3>1. PICK fresh : fresh = DeriveChild(parent, i)
      OBVIOUS
    <3>2. fresh.pub = Append(parent.pub, i) /\ fresh # Thrown
      <4>1. fresh = KeyPair(Append(parent.pub, i), TRUE, TRUE, i) /\ fresh # Thrown
        BY <3>1, <2>2, <2>4, <2>6, DeriveChildIs
      <4> QED
        BY <4>1 DEF KeyPair
    <3>3. IsChildOf(child, parent) = (Append(parent.pub, i) = child.pub)
      BY <3>1, <3>2, <2>1 DEF IsChildOf
    <3>4. Append(parent.pub, i) = child.pub <=> path = parent.pub
      BY <1>1, <2>2, <2>4
    <3>5. <<parent.pub, i, child.pub>> \in made => path = parent.pub
      <4> SUFFICES ASSUME <<parent.pub, i, child.pub>> \in made PROVE path = parent.pub
        OBVIOUS
      <4>1. PICK q \in Path, j \in Indices : <<parent.pub, i, child.pub>> = <<q, j, Append(q, j)>>
        BY DEF PairInv
      <4> QED
        BY <4>1, <3>4
    <3> QED
      BY <2>1, <2>3, <2>6, <3>3, <3>4, <3>5
  <2> QED
    BY <2>5, <2>6
<1>3. ASSUME NEW one \in made, NEW second \in made, one[3] = second[3]
      PROVE  one = second
  <2>1. PICK p \in Path, i \in Indices : one = <<p, i, Append(p, i)>>
    BY DEF PairInv
  <2>2. PICK q \in Path, j \in Indices : second = <<q, j, Append(q, j)>>
    BY DEF PairInv
  <2> QED
    BY <1>3, <2>1, <2>2, <1>1
<1> QED
  BY <1>2, <1>3 DEF ChildExact

\* KeyPairEd25519Ex::isChildOf: whatever pairs are made, derived and published, for every seed and
\* index, it says yes for exactly the children of a parent, and no two derivations give the same key.
THEOREM ChildrenExact ==
    ASSUME KeyAssumption, NEW initial \in SUBSET PairsOf({None})
    PROVE  Spec(initial) => []ChildExact
<1>1. Init(initial) => PairInv
  BY DEF Init, PairInv, PairsOf
<1>2. PairInv /\ [Next]_vars => PairInv'
  BY PairStep
<1>3. PairInv => ChildExact
  BY PairsGiveChildExact
<1> QED
  BY <1>1, <1>2, <1>3, PTL DEF Spec

-----------------------------------------------------------------------------
(* Memos and shared secrets. *)

\* A memo is a box or a seal of its compressed text for those it is between.
Written(m) ==
    \E text \in Texts : \E one, second :
        \/ m = [text |-> text, between |-> {one, second},
                box |-> [kind |-> "box", of |-> {one, second}, content |-> Compress(text)]]
        \/ m = [text |-> text, between |-> {one},
                box |-> [kind |-> "seal", of |-> {one}, content |-> Compress(text)]]

\* An index stays with the partner it was handed out for, and is not handed out again.
SharingInv ==
    /\ lastIndex \in Nat /\ DOMAIN secrets \subseteq 1..lastIndex
    /\ \A agreed \in handed : /\ agreed = <<agreed[1], agreed[2]>> /\ agreed[1] \in DOMAIN secrets
                              /\ secrets[agreed[1]] = agreed[2]

BoxInv == PairInv /\ (memo = None \/ Written(memo)) /\ SharingInv

\* Decompressing gives the text back exactly if it fits.
LEMMA DecompressIffFits ==
    ASSUME KeyAssumption, NEW text \in Texts
    PROVE  /\ Compress(text) # Thrown /\ text # Thrown
           /\ Decompress(Compress(text)) = text <=> Fits(Compress(text))
<1>1. /\ text.size \in Nat /\ text.header \in BOOLEAN /\ text.packed \in Nat /\ text # Thrown /\ Buffer \in Nat
  BY DEF KeyAssumption
<1>2. PICK c : c = Compress(text)
  OBVIOUS
<1>3. /\ c \in PackedTexts /\ c.text = text /\ (c.packed => c.header = TRUE)
  BY <1>1, <1>2 DEF Compress, PackedTexts
<1>4. Decompress(c) = text <=> Fits(c)
  <2>1. CASE ~c.header
    BY <2>1, <1>3 DEF Decompress, Fits, PackedTexts
  <2>2. CASE c.header /\ ~c.packed
    BY <2>2, <1>1, <1>3 DEF Decompress, Fits, Uncompress, PackedTexts
  <2>3. CASE c.header /\ c.packed
    <3>1. /\ Uncompress(c, Buffer) = IF text.size <= Buffer THEN text ELSE Thrown
          /\ Uncompress(c, 2 * Buffer) = IF text.size <= 2 * Buffer THEN text ELSE Thrown
      BY <2>3, <1>3 DEF Uncompress
    <3>2. text.size <= Buffer => text.size <= 2 * Buffer
      BY <1>1
    <3> QED
      BY <3>1, <3>2, <2>3, <1>1, <1>3 DEF Decompress, Fits
  <2> QED
    BY <2>1, <2>2, <2>3, <1>3 DEF PackedTexts
<1> QED
  BY <1>1, <1>2, <1>3, <1>4 DEF KeyAssumption

\* Who opens a box has a private key of the two it is for, and reads the text if it fits.
LEMMA WrittenIsRead ==
    ASSUME KeyAssumption, PairInv, Written(memo)
    PROVE  ReadBy(Fits(memo.box.content))
<1>1. PICK text, one, second : text \in Texts /\
       (\/ memo = [text |-> text, between |-> {one, second},
                   box |-> [kind |-> "box", of |-> {one, second}, content |-> Compress(text)]]
        \/ memo = [text |-> text, between |-> {one},
                   box |-> [kind |-> "seal", of |-> {one}, content |-> Compress(text)]])
  BY DEF Written
<1>2. PICK c : c = Compress(text)
  OBVIOUS
<1>3. /\ memo.text = text /\ memo.box.content = c /\ memo.box.of = memo.between
      /\ memo.box.kind \in {"box", "seal"}
  BY <1>1, <1>2
<1>4. c # Thrown /\ text # Thrown /\ (Decompress(c) = text <=> Fits(c))
  BY <1>1, <1>2, DecompressIffFits
<1>5. Read(c) = Decompress(c) /\ Read(Thrown) = Thrown
  BY <1>4 DEF Read
<1>6. \A p \in Parties : p.private \in BOOLEAN
  BY DEF PairInv, Parties, Party, PairsOf
<1>7. ASSUME NEW own, NEW partner, own.private
      PROVE  Read(OpenEasy(memo.box, own, partner)) = text
               <=> Fits(c) /\ memo.box.kind = "box" /\ {own.pub, partner.pub} = memo.between
  <2>1. CASE memo.box.kind = "box" /\ memo.box.of = {own.pub, partner.pub}
    BY <2>1, <1>3, <1>4, <1>5, <1>7 DEF OpenEasy
  <2>2. CASE ~(memo.box.kind = "box" /\ memo.box.of = {own.pub, partner.pub})
    BY <2>2, <1>3, <1>4, <1>5 DEF OpenEasy
  <2> QED
    BY <2>1, <2>2
<1>8. ASSUME NEW first \in Parties, NEW peer \in Parties, first.private \/ peer.private
      PROVE  DecryptShared(memo.box, first, peer) = memo.text
               <=> Fits(c) /\ memo.box.kind = "box" /\ {first.pub, peer.pub} = memo.between
  <2>1. CASE first.private
    BY <2>1, <1>3, <1>7 DEF DecryptShared
  <2>2. CASE ~first.private
    <3>1. {peer.pub, first.pub} = {first.pub, peer.pub} /\ peer.private
      BY <2>2, <1>8
    <3> QED
      BY <2>2, <3>1, <1>3, <1>7 DEF DecryptShared
  <2> QED
    BY <2>1, <2>2
<1>9. ASSUME NEW community \in Parties, community.private
      PROVE  DecryptCommunity(memo.box, community) = memo.text
               <=> Fits(c) /\ memo.box.kind = "seal" /\ {community.pub} = memo.between
  <2>1. CASE memo.box.kind = "seal" /\ memo.box.of = {community.pub}
    BY <2>1, <1>3, <1>4, <1>5, <1>9 DEF DecryptCommunity, OpenSealed
  <2>2. CASE ~(memo.box.kind = "seal" /\ memo.box.of = {community.pub})
    BY <2>2, <1>3, <1>4, <1>5 DEF DecryptCommunity, OpenSealed
  <2> QED
    BY <2>1, <2>2
<1> QED
  BY <1>3, <1>8, <1>9 DEF ReadBy

\* Who writes a memo writes it for the two, or the community, it is between.
LEMMA MemoStep ==
    ASSUME Memos, memo = None \/ Written(memo)
    PROVE  memo' = None \/ Written(memo')
<1>1. CASE WriteShared
  <2>1. PICK text \in Texts, first \in Parties, second \in Parties :
            /\ SharedMemo(text, first, second) # Thrown
            /\ memo' = [text |-> text, box |-> SharedMemo(text, first, second), between |-> {first.pub, second.pub}]
    BY <1>1 DEF WriteShared
  <2>2. SharedMemo(text, first, second) = [kind |-> "box", of |-> {first.pub, second.pub}, content |-> Compress(text)]
    <3>1. {second.pub, first.pub} = {first.pub, second.pub}
      OBVIOUS
    <3> QED
      BY <2>1, <3>1 DEF SharedMemo, BoxEasy
  <2> QED
    BY <2>1, <2>2 DEF Written
<1>2. CASE WriteCommunity
  BY <1>2 DEF WriteCommunity, CommunityMemo, Sealed, Written
<1>3. CASE Drop
  BY <1>3 DEF Drop
<1> QED
  BY <1>1, <1>2, <1>3 DEF Memos

\* The next index is not in use; giving one back leaves the others alone.
LEMMA SharingStep ==
    ASSUME SharingInv, Sharing
    PROVE  SharingInv'
<1>1. ASSUME NEW seed \in Seeds, PrecalculateSharedSecret(seed) PROVE SharingInv'
  <2>1. /\ lastIndex' = lastIndex + 1 /\ handed' = handed \cup {<<lastIndex + 1, seed>>}
        /\ secrets' = [i \in DOMAIN secrets \cup {lastIndex + 1} |-> IF i \in DOMAIN secrets THEN secrets[i] ELSE seed]
    BY <1>1 DEF PrecalculateSharedSecret, NextIndex
  <2>2. lastIndex \in Nat /\ lastIndex + 1 \notin DOMAIN secrets /\ DOMAIN secrets' \subseteq 1..(lastIndex + 1)
    BY <2>1 DEF SharingInv
  <2>3. /\ secrets'[lastIndex + 1] = seed /\ \A i \in DOMAIN secrets : secrets'[i] = secrets[i]
        /\ DOMAIN secrets' = DOMAIN secrets \cup {lastIndex + 1}
    BY <2>1, <2>2
  <2> QED
    BY <2>1, <2>2, <2>3 DEF SharingInv
<1>2. ASSUME NEW agreed \in handed, RemovePrecalculatedSharedSecret(agreed[1], agreed[2]) PROVE SharingInv'
  <2>1. PICK n, p : n = agreed[1] /\ p = agreed[2]
    OBVIOUS
  <2>2. /\ handed' = handed \ {<<n, p>>} /\ secrets' = [i \in DOMAIN secrets \ {n} |-> secrets[i]]
        /\ lastIndex' = lastIndex
    BY <1>2, <2>1 DEF RemovePrecalculatedSharedSecret
  <2>3. agreed = <<n, p>> /\ n \in DOMAIN secrets /\ secrets[n] = p
    BY <2>1 DEF SharingInv
  <2>4. ASSUME NEW a \in handed' PROVE a = <<a[1], a[2]>> /\ a[1] \in DOMAIN secrets' /\ secrets'[a[1]] = a[2]
    <3>1. a = <<a[1], a[2]>> /\ a[1] \in DOMAIN secrets /\ secrets[a[1]] = a[2] /\ a # <<n, p>>
      BY <2>2, <2>4 DEF SharingInv
    <3>2. a[1] # n
      BY <3>1, <2>3
    <3> QED
      BY <3>1, <3>2, <2>2
  <2> QED
    BY <2>2, <2>4 DEF SharingInv
<1> QED
  BY <1>1, <1>2 DEF Sharing

\* EncryptedMemo and AuthenticatedEncryption: for every number of key pairs, texts and indices, a memo
\* that fits is read by those it is between, in either order, and by nobody else; an index that was
\* handed out and not given back is that of its partner.
THEOREM PartnersRead ==
    ASSUME KeyAssumption, NEW initial \in SUBSET PairsOf({None})
    PROVE  Spec(initial) => []ReadByPartner
<1>1. Init(initial) => BoxInv
  <2>1. Init(initial) => PairInv /\ memo = None
    BY DEF Init, PairInv, PairsOf
  <2>2. Init(initial) => SharingInv
    BY DEF Init, SharingInv
  <2> QED
    BY <2>1, <2>2 DEF BoxInv
<1>2. BoxInv /\ [Next]_vars => BoxInv'
  <2> SUFFICES ASSUME BoxInv, [Next]_vars PROVE BoxInv'
    OBVIOUS
  <2>1. PairInv'
    BY PairStep DEF BoxInv
  <2>2. memo' = None \/ Written(memo')
    <3>1. CASE UNCHANGED memo
      BY <3>1 DEF BoxInv
    <3>2. CASE Deriving \/ Sharing \/ UNCHANGED vars
      BY <3>1, <3>2 DEF Deriving, Create, Derive, Publish, Sharing, PrecalculateSharedSecret,
                        RemovePrecalculatedSharedSecret, vars
    <3>3. CASE Memos
      BY <3>3, MemoStep DEF BoxInv
    <3> QED
      BY <3>2, <3>3 DEF Next
  <2>3. SharingInv'
    <3>1. CASE UNCHANGED sharing
      BY <3>1 DEF BoxInv, SharingInv, sharing
    <3>2. CASE Deriving \/ Memos \/ UNCHANGED vars
      BY <3>1, <3>2 DEF Deriving, Create, Derive, Publish, Memos, WriteShared, WriteCommunity, Drop, vars
    <3>3. CASE Sharing
      BY <3>3, SharingStep DEF BoxInv
    <3> QED
      BY <3>2, <3>3 DEF Next
  <2> QED
    BY <2>1, <2>2, <2>3 DEF BoxInv
<1>3. BoxInv => ReadByPartner
  <2> SUFFICES ASSUME BoxInv PROVE ReadByPartner
    OBVIOUS
  <2>1. MemoReadable
    BY WrittenIsRead DEF BoxInv, MemoReadable
  <2>2. IndexIsPartner
    BY DEF BoxInv, SharingInv, IndexIsPartner, EncryptFor, DecryptFrom
  <2> QED
    BY <2>1, <2>2 DEF ReadByPartner
<1> QED
  BY <1>1, <1>2, <1>3, PTL DEF Spec

-----------------------------------------------------------------------------
(* The keys made of logins. *)

\* The states of a thread that makes, reads or compares keys.
CreateStates == [pc : {"lock", "pwhash", "hash"}, o : Objects, login : Logins, server : {"good"}]
CompareStates == [pc : {"other"}, o : Objects, b : Objects]
AnswerStates ==
    [pc : {"answered"}, call : {"encrypt", "decrypt"}, o : Objects, text : Logins \cup {NoLogin}]
    \cup [pc : {"answered"}, call : {"same"}, keys : SUBSET (Logins \cup {NoLogin}), same : BOOLEAN]

LoginTypes ==
    /\ thread \in [Threads -> {Idle} \cup CreateStates \cup CompareStates \cup AnswerStates]
    /\ writer \in [Objects -> Threads \cup {NoLogin}] /\ readers \in [Objects -> SUBSET Threads]
    /\ mEncryptionKey \in [Objects -> Logins \cup {NoLogin}]
    /\ mEncryptionKeyHash \in [Objects -> Logins \cup {NoLogin}]
    /\ asked \in [Objects -> Logins \cup {NoLogin}]
    /\ config.server \in {"good", NoLogin}

\* Who is inside the call has the lock, and whoever writes has it alone.
InsideIsWriter ==
    \A t \in Threads :
        /\ thread[t].pc \in {"pwhash", "hash"} => writer[thread[t].o] = t
        /\ thread[t].pc = "other" => t \in readers[thread[t].o]

WriterIsAlone == \A o \in Objects : writer[o] # NoLogin => readers[o] = {}

\* Between the key and its hash the key is that of the call.
HalfMade ==
    \A t \in Threads : thread[t].pc = "hash" =>
        mEncryptionKey[thread[t].o] = thread[t].login /\ asked[thread[t].o] = thread[t].login

LoginInv ==
    /\ LoginTypes /\ WriterIsInside /\ InsideIsWriter /\ WriterIsAlone
    /\ HalfMade /\ KeyIsOfLastCall /\ SameMeansSameKey

\* What a thread's state says of its fields.
LEMMA UserFields ==
    ASSUME LoginTypes, NEW t \in Threads
    PROVE  /\ thread[t].pc \in {"idle", "lock", "pwhash", "hash", "other", "answered"}
           /\ thread[t].pc \in {"lock", "pwhash", "hash"} =>
                 thread[t].o \in Objects /\ thread[t].login \in Logins /\ thread[t].server = "good"
                 /\ thread[t] \in CreateStates
           /\ thread[t].pc = "other" => thread[t].o \in Objects /\ thread[t].b \in Objects
<1>1. thread[t] \in {Idle} \cup CreateStates \cup CompareStates \cup AnswerStates
  BY DEF LoginTypes
<1>2. Idle.pc = "idle"
  BY DEF Idle
<1> QED
  BY <1>1, <1>2 DEF CreateStates, CompareStates, AnswerStates

\* createKey takes the lock nobody has.
LEMMA LockUniqueStep ==
    ASSUME LoginAssumption, LoginInv, NEW t \in Threads, LockUnique(t)
    PROVE  LoginInv'
<1>o. PICK o : o = thread[t].o
  OBVIOUS
<1>s. PICK s : s = [thread[t] EXCEPT !.pc = "pwhash"]
  OBVIOUS
<1>1. /\ thread[t].pc = "lock" /\ writer[o] = NoLogin /\ readers[o] = {}
      /\ writer' = [writer EXCEPT ![o] = t] /\ thread' = [thread EXCEPT ![t] = s]
      /\ UNCHANGED <<config, readers, mEncryptionKey, mEncryptionKeyHash, asked>>
  BY <1>o, <1>s DEF LockUnique, Goto, keyVars
<1>2. o \in Objects /\ thread[t].login \in Logins /\ thread[t] \in CreateStates /\ LoginTypes
  BY <1>1, <1>o, UserFields DEF LoginInv
<1>3. s \in CreateStates /\ s.pc = "pwhash" /\ s.o = o
  BY <1>2, <1>s, <1>o DEF CreateStates
<1>4. LoginTypes'
  BY <1>1, <1>2, <1>3 DEF LoginTypes
<1>5. thread'[t] = s /\ \A u \in Threads : u # t => thread'[u] = thread[u]
  BY <1>1, <1>2 DEF LoginTypes
<1>6. writer'[o] = t /\ \A p \in Objects : p # o => writer'[p] = writer[p]
  BY <1>1, <1>2 DEF LoginTypes
<1>7. \A p \in Objects : writer[p] # t /\ t \notin readers[p]
  BY <1>1 DEF LoginInv, WriterIsInside, LoginAssumption
<1>8. WriterIsInside'
  <2> SUFFICES ASSUME NEW p \in Objects
               PROVE  /\ writer'[p] # NoLogin => thread'[writer'[p]].pc \in {"pwhash", "hash"}
                                                  /\ thread'[writer'[p]].o = p
                      /\ \A u \in readers'[p] : thread'[u].pc = "other" /\ thread'[u].o = p
    BY DEF WriterIsInside
  <2>1. writer[p] \in Threads \cup {NoLogin} /\ readers[p] \subseteq Threads
    BY <1>2 DEF LoginTypes
  <2> QED
    BY <2>1, <1>1, <1>3, <1>5, <1>6, <1>7 DEF LoginInv, WriterIsInside
<1>9. InsideIsWriter'
  <2> SUFFICES ASSUME NEW u \in Threads
               PROVE  /\ thread'[u].pc \in {"pwhash", "hash"} => writer'[thread'[u].o] = u
                      /\ thread'[u].pc = "other" => u \in readers'[thread'[u].o]
    BY DEF InsideIsWriter
  <2>1. CASE u = t
    BY <2>1, <1>3, <1>5, <1>6
  <2>2. CASE u # t
    <3>1. thread[u].pc \in {"pwhash", "hash"} => thread[u].o \in Objects /\ thread[u].o # o
      BY <1>1, <1>2, UserFields DEF LoginInv, InsideIsWriter, LoginAssumption
    <3> QED
      BY <2>2, <3>1, <1>1, <1>5, <1>6 DEF LoginInv, InsideIsWriter
  <2> QED
    BY <2>1, <2>2
<1>10. WriterIsAlone'
  BY <1>1, <1>6 DEF LoginInv, WriterIsAlone
<1>11. HalfMade'
  BY <1>1, <1>3, <1>5 DEF LoginInv, HalfMade
<1>12. KeyIsOfLastCall'
  BY <1>1, <1>6, LoginAssumption DEF LoginInv, KeyIsOfLastCall, Unwritten, LoginAssumption
<1>13. SameMeansSameKey'
  BY <1>3, <1>5 DEF LoginInv, SameMeansSameKey
<1> QED
  BY <1>4, <1>8, <1>9, <1>10, <1>11, <1>12, <1>13 DEF LoginInv

\* A call that takes no lock, or ends its answer: createKey up to the lock, encrypt, decrypt.
LEMMA OutsideStep ==
    ASSUME LoginInv, NEW t \in Threads, NEW s \in {Idle} \cup CreateStates \cup AnswerStates,
           thread[t].pc \in {"idle", "answered"}, s.pc \in {"idle", "lock", "answered"},
           s.pc = "answered" => s.call # "same",
           thread' = [thread EXCEPT ![t] = s],
           UNCHANGED <<config, readers, writer, mEncryptionKey, mEncryptionKeyHash, asked>>
    PROVE  LoginInv'
<1>1. LoginTypes'
  BY DEF LoginInv, LoginTypes
<1>2. thread'[t] = s /\ \A u \in Threads : u # t => thread'[u] = thread[u]
  BY DEF LoginInv, LoginTypes
<1>3. \A p \in Objects : writer[p] # NoLogin => writer[p] \in Threads /\ writer[p] # t
  BY DEF LoginInv, LoginTypes, WriterIsInside
<1>4. \A p \in Objects : t \notin readers[p] /\ readers[p] \subseteq Threads
  BY DEF LoginInv, LoginTypes, WriterIsInside
<1>5. WriterIsInside'
  BY <1>2, <1>3, <1>4 DEF LoginInv, WriterIsInside
<1>6. InsideIsWriter'
  BY <1>2 DEF LoginInv, InsideIsWriter
<1>7. WriterIsAlone' /\ KeyIsOfLastCall'
  BY DEF LoginInv, WriterIsAlone, KeyIsOfLastCall, Unwritten
<1>8. HalfMade' /\ SameMeansSameKey'
  BY <1>2 DEF LoginInv, HalfMade, SameMeansSameKey
<1> QED
  BY <1>1, <1>5, <1>6, <1>7, <1>8 DEF LoginInv

\* The step changes key, hash and login of no object but o.
OnlyKeyOf(o) ==
    /\ mEncryptionKey' \in [Objects -> Logins \cup {NoLogin}]
    /\ mEncryptionKeyHash' \in [Objects -> Logins \cup {NoLogin}]
    /\ asked' \in [Objects -> Logins \cup {NoLogin}]
    /\ \A p \in Objects \ {o} :
          /\ mEncryptionKey'[p] = mEncryptionKey[p] /\ asked'[p] = asked[p]
          /\ mEncryptionKeyHash'[p] = mEncryptionKeyHash[p]

\* A step of createKey inside the lock: it goes on to the hash, or releases the lock with the key
\* and the hash of the call, or without a key.
LEMMA WriterStep ==
    ASSUME LoginAssumption, LoginInv, NEW t \in Threads, NEW o, o = thread[t].o,
           thread[t].pc \in {"pwhash", "hash"},
           NEW s, thread' = [thread EXCEPT ![t] = s],
           OnlyKeyOf(o), UNCHANGED <<config, readers>>,
           \/ /\ s \in CreateStates /\ s.pc = "hash" /\ s.o = o /\ writer' = writer
              /\ mEncryptionKey'[o] = s.login /\ asked'[o] = s.login
           \/ /\ s = Idle /\ writer' = [writer EXCEPT ![o] = NoLogin]
              /\ mEncryptionKey'[o] # NoLogin => mEncryptionKey'[o] = asked'[o] /\ mEncryptionKeyHash'[o] = asked'[o]
    PROVE  LoginInv'
<1>1. o \in Objects /\ writer[o] = t /\ readers[o] = {} /\ LoginTypes
  BY UserFields DEF LoginInv, InsideIsWriter, WriterIsAlone, LoginAssumption
<1>2. s.pc \in {"idle", "hash"} /\ s \in {Idle} \cup CreateStates
  BY DEF Idle
<1>3. LoginTypes'
  BY <1>1, <1>2 DEF LoginTypes, OnlyKeyOf
<1>4. thread'[t] = s /\ \A u \in Threads : u # t => thread'[u] = thread[u]
  BY <1>1 DEF LoginTypes
<1>5. \A p \in Objects : p # o => /\ writer'[p] = writer[p] /\ mEncryptionKey'[p] = mEncryptionKey[p]
                                  /\ mEncryptionKeyHash'[p] = mEncryptionKeyHash[p] /\ asked'[p] = asked[p]
  BY <1>1 DEF LoginTypes, OnlyKeyOf
<1>7. \/ /\ s.pc = "hash" /\ s.o = o /\ writer'[o] = t
         /\ mEncryptionKey'[o] = s.login /\ asked'[o] = s.login
      \/ /\ s.pc = "idle" /\ writer'[o] = NoLogin
         /\ mEncryptionKey'[o] # NoLogin => mEncryptionKey'[o] = asked'[o] /\ mEncryptionKeyHash'[o] = asked'[o]
  BY <1>1 DEF LoginTypes, Idle
<1>8. \A u \in Threads : u # t /\ thread[u].pc \in {"pwhash", "hash"} => thread[u].o \in Objects /\ thread[u].o # o
  BY <1>1, UserFields DEF LoginInv, InsideIsWriter
<1>9. \A p \in Objects : /\ p # o => writer[p] # t
                         /\ writer[p] \in Threads \cup {NoLogin} /\ readers[p] \subseteq Threads
                         /\ t \notin readers[p]
  BY <1>1 DEF LoginInv, LoginTypes, WriterIsInside, LoginAssumption
<1>10. WriterIsInside'
  <2> SUFFICES ASSUME NEW p \in Objects
               PROVE  /\ writer'[p] # NoLogin => thread'[writer'[p]].pc \in {"pwhash", "hash"}
                                                  /\ thread'[writer'[p]].o = p
                      /\ \A u \in readers'[p] : thread'[u].pc = "other" /\ thread'[u].o = p
    BY DEF WriterIsInside
  <2>1. CASE p = o
    BY <2>1, <1>1, <1>4, <1>7
  <2>2. CASE p # o
    BY <2>2, <1>4, <1>5, <1>9 DEF LoginInv, WriterIsInside
  <2> QED
    BY <2>1, <2>2
<1>11. InsideIsWriter'
  <2> SUFFICES ASSUME NEW u \in Threads
               PROVE  /\ thread'[u].pc \in {"pwhash", "hash"} => writer'[thread'[u].o] = u
                      /\ thread'[u].pc = "other" => u \in readers'[thread'[u].o]
    BY DEF InsideIsWriter
  <2> QED
    BY <1>4, <1>5, <1>7, <1>8 DEF LoginInv, InsideIsWriter
<1>12. WriterIsAlone'
  BY <1>1, <1>5 DEF LoginInv, WriterIsAlone
<1>13. HalfMade'
  BY <1>4, <1>5, <1>7, <1>8 DEF LoginInv, HalfMade
<1>14. KeyIsOfLastCall'
  BY <1>5, <1>7 DEF LoginInv, KeyIsOfLastCall, Unwritten, LoginAssumption
<1>15. SameMeansSameKey'
  BY <1>4, <1>7 DEF LoginInv, SameMeansSameKey
<1> QED
  BY <1>3, <1>10, <1>11, <1>12, <1>13, <1>14, <1>15 DEF LoginInv

\* isTheSame takes the own lock for reading, which nobody has for writing.
LEMMA IsTheSameStep ==
    ASSUME LoginAssumption, LoginInv, NEW t \in Threads, NEW o \in Objects, NEW b \in Objects,
           IsTheSame(t, o, b)
    PROVE  LoginInv'
<1>s. PICK s : s = [pc |-> "other", o |-> o, b |-> b]
  OBVIOUS
<1>1. /\ thread[t] = Idle /\ writer[o] = NoLogin
      /\ readers' = [readers EXCEPT ![o] = @ \cup {t}] /\ thread' = [thread EXCEPT ![t] = s]
      /\ UNCHANGED <<config, writer, mEncryptionKey, mEncryptionKeyHash, asked>>
  BY <1>s DEF IsTheSame, Call, Goto, Unwritten, keyVars
<1>2. thread[t].pc = "idle" /\ s.pc = "other" /\ s.o = o /\ s \in CompareStates /\ LoginTypes
  BY <1>1, <1>s DEF Idle, CompareStates, LoginInv
<1>3. readers'[o] = readers[o] \cup {t} /\ \A p \in Objects : p # o => readers'[p] = readers[p]
  BY <1>1, <1>2 DEF LoginTypes
<1>4. thread'[t] = s /\ \A u \in Threads : u # t => thread'[u] = thread[u]
  BY <1>1, <1>2 DEF LoginTypes
<1>5. LoginTypes'
  <2>1. readers' \in [Objects -> SUBSET Threads]
    BY <1>1, <1>2 DEF LoginTypes
  <2> QED
    BY <2>1, <1>1, <1>2 DEF LoginTypes
<1>6. \A p \in Objects : /\ writer[p] # NoLogin => writer[p] \in Threads /\ writer[p] # t
                         /\ t \notin readers[p] /\ readers[p] \subseteq Threads
  BY <1>2 DEF LoginInv, LoginTypes, WriterIsInside
<1>7. WriterIsInside'
  BY <1>1, <1>2, <1>3, <1>4, <1>6 DEF LoginInv, WriterIsInside
<1>8. InsideIsWriter'
  <2> SUFFICES ASSUME NEW u \in Threads
               PROVE  /\ thread'[u].pc \in {"pwhash", "hash"} => writer'[thread'[u].o] = u
                      /\ thread'[u].pc = "other" => u \in readers'[thread'[u].o]
    BY DEF InsideIsWriter
  <2>1. thread[u].pc = "other" => thread[u].o \in Objects
    BY <1>2, UserFields
  <2> QED
    BY <2>1, <1>1, <1>2, <1>3, <1>4 DEF LoginInv, InsideIsWriter
<1>9. WriterIsAlone' /\ KeyIsOfLastCall'
  BY <1>1, <1>3 DEF LoginInv, WriterIsAlone, KeyIsOfLastCall, Unwritten
<1>10. HalfMade' /\ SameMeansSameKey'
  BY <1>1, <1>2, <1>4 DEF LoginInv, HalfMade, SameMeansSameKey
<1> QED
  BY <1>5, <1>7, <1>8, <1>9, <1>10 DEF LoginInv

\* The comparison happens while nobody writes either object, so each hash is that of its key.
LEMMA CompareStep ==
    ASSUME LoginAssumption, LoginInv, NEW t \in Threads, Compare(t)
    PROVE  LoginInv'
<1>o. PICK o : o = thread[t].o
  OBVIOUS
<1>b. PICK b : b = thread[t].b
  OBVIOUS
<1>k. PICK k : k = {mEncryptionKey[o], mEncryptionKey[b]}
  OBVIOUS
<1>e. PICK e \in BOOLEAN : e = (mEncryptionKeyHash[o] = mEncryptionKeyHash[b])
  OBVIOUS
<1>s. PICK s : s = [pc |-> "answered", call |-> "same", keys |-> k, same |-> e]
  OBVIOUS
<1>1. /\ thread[t].pc = "other" /\ writer[b] = NoLogin
      /\ readers' = [readers EXCEPT ![o] = @ \ {t}] /\ thread' = [thread EXCEPT ![t] = s]
      /\ UNCHANGED <<config, writer, mEncryptionKey, mEncryptionKeyHash, asked>>
  BY <1>o, <1>b, <1>k, <1>e, <1>s DEF Compare, Goto, Unwritten, keyVars
<1>2. o \in Objects /\ b \in Objects /\ t \in readers[o] /\ LoginTypes
  BY <1>1, <1>o, <1>b, UserFields DEF LoginInv, InsideIsWriter
<1>3. writer[o] = NoLogin
  BY <1>2 DEF LoginInv, WriterIsAlone
<1>4. k \subseteq Logins \cup {NoLogin} /\ s \in AnswerStates /\ s.pc = "answered" /\ s.keys = k /\ s.same = e
  BY <1>2, <1>k, <1>e, <1>s DEF LoginTypes, AnswerStates
<1>5. NoLogin \notin k => (e <=> \A x, y \in k : x = y)
  <2> SUFFICES ASSUME NoLogin \notin k PROVE e <=> \A x, y \in k : x = y
    OBVIOUS
  <2>1. mEncryptionKey[o] # NoLogin /\ mEncryptionKey[b] # NoLogin
    BY <1>k
  <2>2. mEncryptionKeyHash[o] = mEncryptionKey[o] /\ mEncryptionKeyHash[b] = mEncryptionKey[b]
    BY <2>1, <1>1, <1>2, <1>3 DEF LoginInv, KeyIsOfLastCall, Unwritten
  <2>3. mEncryptionKey[o] = mEncryptionKey[b] <=> \A x, y \in k : x = y
    BY <1>k
  <2> QED
    BY <2>2, <2>3, <1>e
<1>6. readers'[o] = readers[o] \ {t} /\ \A p \in Objects : p # o => readers'[p] = readers[p]
  BY <1>1, <1>2 DEF LoginTypes
<1>7. thread'[t] = s /\ \A u \in Threads : u # t => thread'[u] = thread[u]
  BY <1>1, <1>2 DEF LoginTypes
<1>8. LoginTypes'
  <2>1. readers' \in [Objects -> SUBSET Threads]
    BY <1>1, <1>2 DEF LoginTypes
  <2> QED
    BY <2>1, <1>1, <1>2, <1>4 DEF LoginTypes
<1>9. \A p \in Objects : /\ writer[p] # NoLogin => writer[p] \in Threads /\ writer[p] # t
                         /\ t \notin readers'[p] /\ readers'[p] \subseteq readers[p]
                         /\ readers[p] \subseteq Threads
  <2> SUFFICES ASSUME NEW p \in Objects
               PROVE  /\ writer[p] # NoLogin => writer[p] \in Threads /\ writer[p] # t
                      /\ t \notin readers'[p] /\ readers'[p] \subseteq readers[p]
                      /\ readers[p] \subseteq Threads
    OBVIOUS
  <2>1. p # o => t \notin readers[p]
    BY <1>o DEF LoginInv, WriterIsInside
  <2>2. writer[p] \in Threads \cup {NoLogin} /\ readers[p] \subseteq Threads
    BY <1>2 DEF LoginTypes
  <2>3. writer[p] # NoLogin => writer[p] # t
    BY <1>1 DEF LoginInv, WriterIsInside
  <2> QED
    BY <2>1, <2>2, <2>3, <1>6
<1>10. WriterIsInside'
  <2> SUFFICES ASSUME NEW p \in Objects
               PROVE  /\ writer'[p] # NoLogin => thread'[writer'[p]].pc \in {"pwhash", "hash"}
                                                  /\ thread'[writer'[p]].o = p
                      /\ \A u \in readers'[p] : thread'[u].pc = "other" /\ thread'[u].o = p
    BY DEF WriterIsInside
  <2> QED
    BY <1>1, <1>7, <1>9 DEF LoginInv, WriterIsInside
<1>11. InsideIsWriter'
  <2> SUFFICES ASSUME NEW u \in Threads
               PROVE  /\ thread'[u].pc \in {"pwhash", "hash"} => writer'[thread'[u].o] = u
                      /\ thread'[u].pc = "other" => u \in readers'[thread'[u].o]
    BY DEF InsideIsWriter
  <2>1. thread[u].pc = "other" => thread[u].o \in Objects
    BY <1>2, UserFields
  <2> QED
    BY <2>1, <1>1, <1>4, <1>6, <1>7 DEF LoginInv, InsideIsWriter
<1>12. WriterIsAlone' /\ KeyIsOfLastCall'
  BY <1>1, <1>9 DEF LoginInv, WriterIsAlone, KeyIsOfLastCall, Unwritten
<1>13. HalfMade'
  BY <1>1, <1>4, <1>7 DEF LoginInv, HalfMade
<1>14. SameMeansSameKey'
  <2> SUFFICES ASSUME NEW u \in Threads, thread'[u].pc = "answered", thread'[u].call = "same",
                      NoLogin \notin thread'[u].keys
               PROVE  thread'[u].same <=> \A x, y \in thread'[u].keys : x = y
    BY DEF SameMeansSameKey
  <2>1. CASE u = t
    <3>1. thread'[u].keys = k /\ thread'[u].same = e
      BY <2>1, <1>4, <1>7
    <3> QED
      BY <3>1, <1>5
  <2>2. CASE u # t
    <3>1. thread'[u] = thread[u]
      BY <2>2, <1>7
    <3>2. SameMeansSameKey
      BY DEF LoginInv
    <3> QED
      BY <3>1, <3>2 DEF SameMeansSameKey
  <2> QED
    BY <2>1, <2>2
<1> QED
  BY <1>8, <1>10, <1>11, <1>12, <1>13, <1>14 DEF LoginInv

\* The steps of one thread.
LEMMA UserStep ==
    ASSUME LoginAssumption, LoginInv, NEW t \in Threads, Step(t)
    PROVE  LoginInv'
<1>o. PICK o : o = thread[t].o
  OBVIOUS
<1>0. LoginTypes /\ thread \in [Threads -> {Idle} \cup CreateStates \cup CompareStates \cup AnswerStates]
  BY DEF LoginInv, LoginTypes
<1>1. CASE LockUnique(t)
  BY <1>1, LockUniqueStep
<1>2. CASE Pwhash(t)
  <2>l. PICK l : l = thread[t].login
    OBVIOUS
  <2>s. PICK s : s = [thread[t] EXCEPT !.pc = "hash"]
    OBVIOUS
  <2>1. /\ thread[t].pc = "pwhash" /\ thread' = [thread EXCEPT ![t] = s]
        /\ mEncryptionKey' = [mEncryptionKey EXCEPT ![o] = l] /\ asked' = [asked EXCEPT ![o] = l]
        /\ UNCHANGED <<config, readers, writer, mEncryptionKeyHash>>
    BY <1>2, <1>o, <2>l, <2>s DEF Pwhash, Goto, mutex
  <2>2. o \in Objects /\ l \in Logins /\ thread[t] \in CreateStates
    BY <2>1, <1>o, <2>l, <1>0, UserFields
  <2>3. s \in CreateStates /\ s.pc = "hash" /\ s.o = o /\ s.login = l
    BY <2>2, <2>s, <2>l, <1>o DEF CreateStates
  <2>4. OnlyKeyOf(o) /\ mEncryptionKey'[o] = l /\ asked'[o] = l
    BY <2>1, <2>2, <1>0 DEF LoginTypes, OnlyKeyOf
  <2> QED
    BY <2>1, <2>2, <2>3, <2>4, <1>o, WriterStep
<1>3. CASE PwhashFails(t)
  <2>l. PICK l : l = thread[t].login
    OBVIOUS
  <2>s. PICK s : s = Idle
    OBVIOUS
  <2>1. /\ thread[t].pc = "pwhash" /\ thread' = [thread EXCEPT ![t] = s]
        /\ mEncryptionKey' = [mEncryptionKey EXCEPT ![o] = NoLogin] /\ asked' = [asked EXCEPT ![o] = l]
        /\ writer' = [writer EXCEPT ![o] = NoLogin]
        /\ UNCHANGED <<config, readers, mEncryptionKeyHash>>
    BY <1>3, <1>o, <2>l, <2>s DEF PwhashFails, Goto
  <2>2. o \in Objects /\ l \in Logins
    BY <2>1, <1>o, <2>l, <1>0, UserFields
  <2>3. OnlyKeyOf(o) /\ mEncryptionKey'[o] = NoLogin
    BY <2>1, <2>2, <1>0 DEF LoginTypes, OnlyKeyOf
  <2> QED
    BY <2>1, <2>2, <2>3, <2>s, <1>o, WriterStep
<1>4. CASE Shorthash(t)
  <2>s. PICK s : s = Idle
    OBVIOUS
  <2>k. PICK k : k = mEncryptionKey[o]
    OBVIOUS
  <2>0. thread[t].pc = "hash"
    BY <1>4 DEF Shorthash
  <2>1. o \in Objects /\ thread[t].login \in Logins /\ thread[t].server = "good"
    BY <2>0, <1>o, <1>0, UserFields
  <2>2. /\ thread' = [thread EXCEPT ![t] = s]
        /\ mEncryptionKeyHash' = [mEncryptionKeyHash EXCEPT ![o] = k]
        /\ writer' = [writer EXCEPT ![o] = NoLogin]
        /\ UNCHANGED <<config, readers, mEncryptionKey, asked>>
    BY <1>4, <2>1, <1>o, <2>k, <2>s DEF Shorthash, Goto
  <2>3. k \in Logins /\ asked[o] = k
    BY <2>0, <2>1, <2>k, <1>o DEF LoginInv, HalfMade
  <2>4. OnlyKeyOf(o) /\ mEncryptionKey'[o] = k /\ asked'[o] = k /\ mEncryptionKeyHash'[o] = k
    BY <2>1, <2>2, <2>3, <2>k, <1>0 DEF LoginTypes, OnlyKeyOf
  <2> QED
    BY <2>0, <2>1, <2>2, <2>4, <2>s, <1>o, WriterStep
<1>5. CASE Compare(t)
  BY <1>5, CompareStep
<1>6. CASE Return(t)
  <2>1. Idle.pc = "idle"
    BY DEF Idle
  <2> QED
    BY <1>6, <2>1, OutsideStep DEF Return, Goto, mutex, keyVars
<1> QED
  BY <1>1, <1>2, <1>3, <1>4, <1>5, <1>6 DEF Step

\* The calls of one thread.
LEMMA UserCall ==
    ASSUME LoginAssumption, LoginInv, NEW t \in Threads, NEW o \in Objects,
           \/ \E login \in Logins : CreateKey(t, o, login) \/ Decrypt(t, o, login)
           \/ Encrypt(t, o)
           \/ \E b \in Objects \ {o} : IsTheSame(t, o, b)
    PROVE  LoginInv'
<1>0. LoginTypes /\ Idle.pc = "idle" /\ mEncryptionKey[o] \in Logins \cup {NoLogin}
  BY DEF LoginInv, LoginTypes, Idle
<1>1. ASSUME NEW login \in Logins, CreateKey(t, o, login) PROVE LoginInv'
  <2>1. PICK s : s = IF ~config.app \/ config.server = NoLogin THEN Idle
                     ELSE [pc |-> "lock", o |-> o, login |-> login, server |-> config.server]
    OBVIOUS
  <2>2. /\ thread[t] = Idle /\ thread' = [thread EXCEPT ![t] = s]
        /\ UNCHANGED <<config, readers, writer, mEncryptionKey, mEncryptionKeyHash, asked>>
    BY <1>1, <2>1 DEF CreateKey, Call, Goto, mutex, keyVars
  <2>3. s \in {Idle} \cup CreateStates /\ s.pc \in {"idle", "lock"}
    BY <2>1, <1>0 DEF CreateStates, LoginTypes
  <2> QED
    BY <2>2, <2>3, <1>0, OutsideStep
<1>2. ASSUME NEW login \in Logins, Decrypt(t, o, login) PROVE LoginInv'
  <2>1. PICK s : s = [pc |-> "answered", call |-> "decrypt", o |-> o,
                      text |-> IF mEncryptionKey[o] = login THEN login ELSE NoLogin]
    OBVIOUS
  <2>2. /\ thread[t] = Idle /\ thread' = [thread EXCEPT ![t] = s]
        /\ UNCHANGED <<config, readers, writer, mEncryptionKey, mEncryptionKeyHash, asked>>
    BY <1>2, <2>1 DEF Decrypt, Call, Goto, mutex, keyVars
  <2>3. s \in AnswerStates /\ s.pc = "answered" /\ s.call = "decrypt"
    BY <2>1 DEF AnswerStates
  <2> QED
    BY <2>2, <2>3, <1>0, OutsideStep
<1>3. CASE Encrypt(t, o)
  <2>1. PICK s : s = [pc |-> "answered", call |-> "encrypt", o |-> o, text |-> mEncryptionKey[o]]
    OBVIOUS
  <2>2. /\ thread[t] = Idle /\ thread' = [thread EXCEPT ![t] = s]
        /\ UNCHANGED <<config, readers, writer, mEncryptionKey, mEncryptionKeyHash, asked>>
    BY <1>3, <2>1 DEF Encrypt, Call, Goto, mutex, keyVars
  <2>3. s \in AnswerStates /\ s.pc = "answered" /\ s.call = "encrypt"
    BY <2>1, <1>0 DEF AnswerStates
  <2> QED
    BY <2>2, <2>3, <1>0, OutsideStep
<1>4. ASSUME NEW b \in Objects \ {o}, IsTheSame(t, o, b) PROVE LoginInv'
  BY <1>4, IsTheSameStep
<1> QED
  BY <1>1, <1>2, <1>3, <1>4

\* LoginInv is inductive.
LEMMA LoginInductive ==
    ASSUME LoginAssumption, ServerKeys \subseteq {"good"}, LoginInv, [SecretsNext]_secretsVars
    PROVE  LoginInv'
<1>0. LoginTypes
  BY DEF LoginInv
<1>1. ASSUME thread' = thread, config'.server \in {"good", NoLogin},
             UNCHANGED <<readers, writer, mEncryptionKey, mEncryptionKeyHash, asked>>
      PROVE  LoginInv'
  BY <1>1 DEF LoginInv, LoginTypes, WriterIsInside, InsideIsWriter, WriterIsAlone, HalfMade,
              KeyIsOfLastCall, SameMeansSameKey, Unwritten
<1>2. CASE \E app \in BOOLEAN, server \in ServerKeys \union {NoLogin} : LoadCryptoKeys(app, server)
  BY <1>2, <1>1, <1>0 DEF LoadCryptoKeys, mutex, keyVars, LoginTypes
<1>3. CASE Unload
  BY <1>3, <1>1 DEF Unload, Missing, mutex, keyVars
<1>4. CASE \E t \in Threads, o \in Objects :
              \/ \E login \in Logins : CreateKey(t, o, login) \/ Decrypt(t, o, login)
              \/ Encrypt(t, o)
              \/ \E b \in Objects \ {o} : IsTheSame(t, o, b)
  BY <1>4, UserCall
<1>5. CASE \E t \in Threads : Step(t)
  BY <1>5, UserStep
<1>6. CASE UNCHANGED secretsVars
  BY <1>6, <1>1, <1>0 DEF secretsVars, LoginTypes
<1> QED
  BY <1>2, <1>3, <1>4, <1>5, <1>6 DEF SecretsNext

\* SecretKeyCryptography: for every number of threads and objects, a reader finds the key and the hash
\* of the last createKey or no key, isTheSame answers whether two keys are the same, and a lock is held
\* by a thread inside the call it was taken for, as long as crypto.server_key has the size it must have.
THEOREM KeysAreOfTheirLogin ==
    ASSUME LoginAssumption, ServerKeys \subseteq {"good"}
    PROVE  SecretsSpec => []KeyIsOfLogin
<1>1. SecretsInit => LoginInv
  BY DEF SecretsInit, LoginInv, LoginTypes, WriterIsInside, InsideIsWriter, WriterIsAlone, HalfMade,
         KeyIsOfLastCall, SameMeansSameKey, Unwritten, Idle, Missing
<1>2. LoginInv /\ [SecretsNext]_secretsVars => LoginInv'
  BY LoginInductive
<1>3. LoginInv => KeyIsOfLogin
  BY DEF LoginInv, KeyIsOfLogin
<1> QED
  BY <1>1, <1>2, <1>3, PTL DEF SecretsSpec

-----------------------------------------------------------------------------
(* The public key dictionary. *)

\* A key has one index, and a dictionary grows at its end.
OneToOne(d) == \A i, j \in DOMAIN d : d[i] = d[j] => i = j
Dictionary(d) == d \in Seq(AllKeys) /\ OneToOne(d)
Extends(e, d) == Len(d) <= Len(e) /\ \A i \in 1 .. Len(d) : e[i] = d[i]

\* getOrAddPublicKeyIndex gives no key a second index and moves none.
LEMMA GetOrAddExtends ==
    ASSUME NEW d, Dictionary(d), NEW k \in AllKeys
    PROVE  Dictionary(GetOrAdd(d, k)) /\ Extends(GetOrAdd(d, k), d)
<1>1. d \in Seq(AllKeys) /\ Len(d) \in Nat /\ DOMAIN d = 1 .. Len(d)
  BY LenProperties DEF Dictionary
<1>2. CASE k \in ToSet(d)
  BY <1>1, <1>2 DEF GetOrAdd, Extends
<1>3. CASE k \notin ToSet(d)
  <2>1. PICK e : e = Append(d, k)
    OBVIOUS
  <2>2. /\ e \in Seq(AllKeys) /\ Len(e) = Len(d) + 1
        /\ \A i \in 1 .. Len(d) : e[i] = d[i]
        /\ e[Len(d) + 1] = k
    BY <1>1, <2>1, AppendProperties
  <2>3. DOMAIN e = 1 .. Len(d) + 1
    BY <2>2, LenProperties
  <2>4. \A i \in 1 .. Len(d) : d[i] # k
    BY <1>1, <1>3 DEF ToSet
  <2>5. \A i \in 1 .. Len(d) + 1 : i \in 1 .. Len(d) \/ i = Len(d) + 1
    BY <1>1
  <2>6. OneToOne(e)
    BY <1>1, <2>2, <2>3, <2>4, <2>5 DEF OneToOne, Dictionary
  <2> QED
    BY <1>1, <1>3, <2>1, <2>2, <2>6 DEF GetOrAdd, Dictionary, Extends
<1> QED
  BY <1>2, <1>3

\* The dictionary after each of the first m keys.
IsAfter(g, ks, m) ==
    g = [n \in 0 .. m |-> IF n = 0 THEN dict ELSE GetOrAdd(g[n - 1], ks[n])]

\* There is such a function, for every number of keys.
LEMMA AfterExists ==
    ASSUME NEW ks, NEW m \in Nat
    PROVE  \E g : IsAfter(g, ks, m)
<1> DEFINE B == {n \in Nat : ~\E g : IsAfter(g, ks, n)}
<1>1. SUFFICES ASSUME B # {} PROVE FALSE
  OBVIOUS
<1>2. PICK n \in B : \A i \in B : n <= i
  BY <1>1, LeastNumber
<1>3. CASE n = 0
  <2>1. IsAfter([i \in 0 .. 0 |-> dict], ks, 0)
    BY DEF IsAfter
  <2> QED
    BY <1>3, <2>1
<1>4. CASE n # 0
  <2>1. n - 1 \in Nat /\ n - 1 \notin B /\ n \in Nat
    BY <1>2, <1>4
  <2>2. PICK g : IsAfter(g, ks, n - 1)
    BY <2>1
  <2>3. PICK h : h = [i \in 0 .. n |-> IF i = n THEN GetOrAdd(g[n - 1], ks[n]) ELSE g[i]]
    OBVIOUS
  <2>4. \A i \in 0 .. n - 1 : g[i] = IF i = 0 THEN dict ELSE GetOrAdd(g[i - 1], ks[i])
    BY <2>2 DEF IsAfter
  <2>5. \A i \in 0 .. n : h[i] = IF i = 0 THEN dict ELSE GetOrAdd(h[i - 1], ks[i])
    <3>1. \A i \in 0 .. n : h[i] = IF i = n THEN GetOrAdd(g[n - 1], ks[n]) ELSE g[i]
      BY <2>3
    <3>2. h[n] = GetOrAdd(g[n - 1], ks[n]) /\ \A i \in 0 .. n - 1 : h[i] = g[i]
      BY <2>1, <3>1
    <3>3. \A i \in 0 .. n : i = n \/ i \in 0 .. n - 1
      BY <2>1
    <3>4. \A i \in 1 .. n : i - 1 \in 0 .. n - 1
      BY <2>1
    <3>5. \A i \in 0 .. n : i = 0 \/ i \in 1 .. n
      BY <2>1
    <3>6. 0 \in 0 .. n - 1
      BY <2>1
    <3> QED
      BY <2>1, <2>4, <3>2, <3>3, <3>4, <3>5, <3>6
  <2>6. IsAfter(h, ks, n)
    BY <2>3, <2>5 DEF IsAfter
  <2> QED
    BY <2>6
<1> QED
  BY <1>3, <1>4

\* Nor do several calls, in whatever order the signers come.
LEMMA AddedExtends ==
    ASSUME Dictionary(dict), NEW ks \in Seq(AllKeys)
    PROVE  Dictionary(Added(ks)) /\ Extends(Added(ks), dict)
<1>1. PICK m \in Nat : m = Len(ks)
  BY LenProperties
<1>2. PICK g : g = CHOOSE f : IsAfter(f, ks, m)
  OBVIOUS
<1>3. Added(ks) = g[m]
  BY <1>1, <1>2 DEF Added, IsAfter
<1>4. IsAfter(g, ks, m)
  BY <1>2, AfterExists
<1>5. \A n \in 0 .. m : g[n] = IF n = 0 THEN dict ELSE GetOrAdd(g[n - 1], ks[n])
  BY <1>4 DEF IsAfter
<1> DEFINE B == {n \in 0 .. m : ~(Dictionary(g[n]) /\ Extends(g[n], dict))}
<1>6. SUFFICES ASSUME B # {} PROVE FALSE
  BY <1>1, <1>3
<1>7. PICK n \in B : \A i \in B : n <= i
  <2>1. B \in SUBSET Nat
    OBVIOUS
  <2> QED
    BY <1>6, <2>1, LeastNumber
<1>8. g[0] = dict /\ Len(dict) \in Nat /\ Extends(dict, dict)
  BY <1>5, LenProperties DEF Dictionary, Extends
<1>9. n # 0
  BY <1>7, <1>8
<1>10. n - 1 \in 0 .. m /\ n - 1 \notin B /\ n \in 1 .. m
  BY <1>7, <1>9
<1>11. ks[n] \in AllKeys
  BY <1>1, <1>10, ElementOfSeq
<1>12. Dictionary(g[n - 1]) /\ Extends(g[n - 1], dict)
  BY <1>10
<1>13. g[n] = GetOrAdd(g[n - 1], ks[n])
  BY <1>5, <1>10
<1>14. Dictionary(g[n]) /\ Extends(g[n], g[n - 1])
  BY <1>11, <1>12, <1>13, GetOrAddExtends
<1>15. Len(g[n]) \in Nat /\ Len(g[n - 1]) \in Nat
  BY <1>12, <1>14, LenProperties DEF Dictionary
<1>16. Extends(g[n], dict)
  BY <1>8, <1>12, <1>14, <1>15 DEF Extends
<1> QED
  BY <1>7, <1>14, <1>16

-----------------------------------------------------------------------------
(* The state of a transaction that collects signatures. *)

\* Every key signs a map once; the dictionary is one to one; all registrations of a key have one
\* type and are signed by their own keys.
SigInv ==
    /\ body \in Bodies
    /\ pairs \in Seq(SignedPair) /\ ~Doublets(pairs)
    /\ other \in Seq(SignedPair) /\ ~Doublets(other)
    /\ Dictionary(dict)
    /\ registrations \in Seq(Registration)
    /\ \A n, m \in DOMAIN registrations :
         \A k \in Keys : n \in OwnOf(k) /\ m \in OwnOf(k) => Of(n).type = Of(m).type
    /\ \A n \in DOMAIN registrations : {Of(n).user, Of(n).account} \subseteq Of(n).signers

\* The signers of a map, by place and as a set.
LEMMA KeysOfSigners ==
    ASSUME NEW ps \in Seq(SignedPair)
    PROVE  /\ KeysOf(ps) \in Seq(AllKeys) /\ Len(KeysOf(ps)) = Len(ps)
           /\ \A i \in 1 .. Len(ps) : KeysOf(ps)[i] = ps[i].key
           /\ ToSet(KeysOf(ps)) = {p.key : p \in ToSet(ps)}
<1>1. Len(ps) \in Nat /\ DOMAIN ps = 1 .. Len(ps) /\ \A i \in 1 .. Len(ps) : ps[i] \in SignedPair
  BY LenProperties, ElementOfSeq
<1>2. \A i \in 1 .. Len(ps) : ps[i].key \in AllKeys
  BY <1>1 DEF SignedPair
<1>3. KeysOf(ps) = [n \in 1 .. Len(ps) |-> ps[n].key]
  BY <1>1 DEF KeysOf
<1>4. KeysOf(ps) \in Seq(AllKeys) /\ Len(KeysOf(ps)) = Len(ps)
  BY <1>1, <1>2, <1>3
<1>5. ToSet(KeysOf(ps)) = {p.key : p \in ToSet(ps)}
  BY <1>1, <1>3 DEF ToSet
<1> QED
  BY <1>3, <1>4, <1>5

\* The signers that checkRequiredSignatures looks up are the first ones; validation only adds them.
LEMMA DictAfterExtends ==
    ASSUME Dictionary(dict), NEW b \in Bodies, NEW ps \in Seq(SignedPair)
    PROVE  Dictionary(DictAfter(b, ps)) /\ Extends(DictAfter(b, ps), dict)
<1>1. Extends(dict, dict)
  BY LenProperties DEF Dictionary, Extends
<1>2. PICK ks \in Seq(AllKeys) : ks = KeysOf(ps)
  BY KeysOfSigners
<1>3. PICK len \in Nat : len = Len(ks)
  BY LenProperties
<1> DEFINE B == {n \in 0 .. len : n = len \/ IndicesLeft(b, SubSeq(ks, 1, n)) = {}}
<1>4. PICK n \in B : \A i \in B : n <= i
  <2>1. B \in SUBSET Nat /\ len \in B
    OBVIOUS
  <2> HIDE DEF B
  <2> QED
    BY <2>1, LeastNumber
<1>5. /\ n \in 0 .. len
      /\ n = len \/ IndicesLeft(b, SubSeq(ks, 1, n)) = {}
      /\ \A m \in 0 .. n - 1 : IndicesLeft(b, SubSeq(ks, 1, m)) # {}
  BY <1>4
<1>6. LookedUp(b, ks) \in 0 .. len
  BY <1>3, <1>5 DEF LookedUp
<1>7. PICK m \in 0 .. len : m = LookedUp(b, ks)
  BY <1>6
<1>8. \A i \in 1 .. m : ks[i] \in AllKeys
  BY <1>3, ElementOfSeq
<1>9. SubSeq(ks, 1, m) \in Seq(AllKeys)
  BY <1>8, SubSeqProperties
<1>10. Dictionary(Added(SubSeq(ks, 1, m))) /\ Extends(Added(SubSeq(ks, 1, m)), dict)
  BY <1>9, AddedExtends
<1> QED
  BY <1>1, <1>2, <1>7, <1>10 DEF DictAfter

\* push refuses a key that signed already.
LEMMA PushedOnce ==
    ASSUME NEW ps \in Seq(SignedPair), ~Doublets(ps), NEW k \in AllKeys, NEW good \in BOOLEAN, CanPush(ps, k)
    PROVE  LET qs == Append(ps, [key |-> k, good |-> good])
           IN  qs \in Seq(SignedPair) /\ ~Doublets(qs)
<1>1. PICK p \in SignedPair : p = [key |-> k, good |-> good]
  BY DEF SignedPair
<1>2. PICK qs : qs = Append(ps, p)
  OBVIOUS
<1>3. Len(ps) \in Nat /\ DOMAIN ps = 1 .. Len(ps)
  BY LenProperties
<1>4. /\ qs \in Seq(SignedPair) /\ Len(qs) = Len(ps) + 1
      /\ \A i \in 1 .. Len(ps) : qs[i] = ps[i]
      /\ qs[Len(ps) + 1] = p
  BY <1>2, AppendProperties
<1>5. DOMAIN qs = 1 .. Len(ps) + 1
  BY <1>4, LenProperties
<1>6. \A i \in 1 .. Len(ps) + 1 : i \in 1 .. Len(ps) \/ i = Len(ps) + 1
  BY <1>3
<1>7. \A i \in 1 .. Len(ps) : ps[i].key # p.key
  BY <1>1, <1>3 DEF CanPush
<1>8. ~Doublets(qs)
  BY <1>3, <1>4, <1>5, <1>6, <1>7 DEF Doublets
<1> QED
  BY <1>1, <1>2, <1>4, <1>8

\* SigInv is inductive.
LEMMA SigInvStep ==
    ASSUME DateAssumption, SigInv, [SignaturesNext]_signatureVars
    PROVE  SigInv'
<1> USE DEF SigInv
<1>1. CASE Sign
  <2>1. PICK k \in AllKeys, good \in BOOLEAN : Push(k, good)
    BY <1>1 DEF Sign
  <2>2. pairs' \in Seq(SignedPair) /\ ~Doublets(pairs')
    BY <2>1, PushedOnce DEF Push
  <2> QED
    BY <2>1, <2>2 DEF Push, Doublets, Dictionary, OneToOne, OwnOf, Of
<1>2. CASE SignOther
  <2>1. PICK k \in AllKeys, good \in BOOLEAN : PushOther(k, good)
    BY <1>2 DEF SignOther
  <2>2. other' \in Seq(SignedPair) /\ ~Doublets(other')
    BY <2>1, PushedOnce DEF PushOther
  <2> QED
    BY <2>1, <2>2 DEF PushOther, Doublets, Dictionary, OneToOne, OwnOf, Of
<1>3. CASE Chain
  <2>1. PICK r \in Registration : Register(r)
    BY <1>3 DEF Chain, Registration, DateAssumption
  <2>2. Dictionary(dict')
    <3>1. r.account \in AllKeys /\ r.user \in AllKeys
      BY DEF Registration, AllKeys
    <3>2. <<r.account, r.user>> \in Seq(AllKeys)
      BY <3>1
    <3> QED
      BY <2>1, <3>2, AddedExtends DEF Register
  <2>3. PICK len \in Nat : len = Len(registrations) /\ DOMAIN registrations = 1 .. len
    BY LenProperties
  <2>4. /\ registrations' \in Seq(Registration) /\ DOMAIN registrations' = 1 .. len + 1
        /\ \A n \in 1 .. len : registrations'[n] = registrations[n]
        /\ registrations'[len + 1] = r
    BY <2>1, <2>3, AppendProperties, LenProperties DEF Register
  <2>5. \A n \in 1 .. len + 1 : n \in 1 .. len \/ n = len + 1
    BY <2>3
  <2>6. \A n \in DOMAIN registrations' : {Of(n).user, Of(n).account}' \subseteq Of(n).signers'
    BY <2>1, <2>3, <2>4, <2>5 DEF Of, Register
  <2>7. \A k \in Keys, n \in 1 .. len : n \in OwnOf(k)' => n \in OwnOf(k) /\ Of(n)' = Of(n)
    BY <2>3, <2>4 DEF OwnOf, Of
  <2>8. \A k \in Keys, n \in 1 .. len : n \in OwnOf(k) /\ len + 1 \in OwnOf(k)' => Of(n).type = r.type
    BY <2>1, <2>3, <2>4 DEF OwnOf, Of, Register
  <2>9. ASSUME NEW n \in 1 .. len + 1, NEW m \in 1 .. len + 1, NEW k \in Keys, (n \in OwnOf(k))', (m \in OwnOf(k))'
        PROVE  (Of(n).type = Of(m).type)'
    <3>1. Of(len + 1)' = r
      BY <2>4 DEF Of
    <3>2. CASE n \in 1 .. len /\ m \in 1 .. len
      BY <3>2, <2>3, <2>7, <2>9
    <3>3. CASE n \in 1 .. len /\ m = len + 1
      BY <3>1, <3>3, <2>7, <2>8, <2>9
    <3>4. CASE n = len + 1 /\ m \in 1 .. len
      BY <3>1, <3>4, <2>7, <2>8, <2>9
    <3> QED
      BY <2>5, <3>2, <3>3, <3>4
  <2> QED
    BY <2>1, <2>2, <2>4, <2>6, <2>9 DEF Register, Doublets, Dictionary, OneToOne
<1>4. CASE Check
  <2>1. Dictionary(dict')
    BY <1>4, DictAfterExtends DEF Check, Validate
  <2> QED
    BY <1>4, <2>1 DEF Check, Validate, Doublets, Dictionary, OneToOne, OwnOf, Of
<1>5. CASE UNCHANGED signatureVars
  BY <1>5 DEF signatureVars, Doublets, Dictionary, OneToOne, OwnOf, Of
<1> QED
  BY <1>1, <1>2, <1>3, <1>4, <1>5 DEF SignaturesNext

\* It holds at the start, with two keys in the dictionary.
LEMMA SigInvInit ==
    ASSUME NEW bodies \in SUBSET Bodies, SignaturesInit(bodies)
    PROVE  SigInv
<1>1. PICK k \in AllKeys, l \in AllKeys : k # l /\ dict = <<k, l>>
  BY DEF SignaturesInit
<1>2. Dictionary(dict)
  BY <1>1 DEF Dictionary, OneToOne
<1>3. pairs = <<>> /\ other = <<>> /\ body \in Bodies /\ registrations = <<>>
  BY DEF SignaturesInit
<1>4. pairs \in Seq(SignedPair) /\ other \in Seq(SignedPair) /\ ~Doublets(pairs) /\ ~Doublets(other)
  BY <1>3 DEF Doublets
<1> QED
  BY <1>2, <1>3, <1>4 DEF SigInv

-----------------------------------------------------------------------------
(* Validation lets pass exactly what the right keys have signed. *)

\* Positions of keys in a map: the signers are the keys of its pairs, each of one pair.
LEMMA SignersAt ==
    ASSUME SigInv
    PROVE  /\ Len(pairs) \in Nat /\ DOMAIN pairs = 1 .. Len(pairs)
           /\ \A i \in 1 .. Len(pairs) : pairs[i].key \in AllKeys
           /\ Signers = {pairs[i].key : i \in 1 .. Len(pairs)}
           /\ ToSet(KeysOf(pairs)) = Signers
<1>1. Len(pairs) \in Nat /\ DOMAIN pairs = 1 .. Len(pairs)
  BY LenProperties DEF SigInv
<1>2. \A i \in 1 .. Len(pairs) : pairs[i] \in SignedPair
  BY ElementOfSeq DEF SigInv
<1>3. Signers = {pairs[i].key : i \in 1 .. Len(pairs)}
  BY <1>1 DEF Signers, ToSet
<1>4. ToSet(KeysOf(pairs)) = Signers
  BY KeysOfSigners DEF SigInv, Signers
<1> QED
  BY <1>1, <1>2, <1>3, <1>4 DEF SignedPair

\* A set of places that is not empty has a last one.
LEMMA LastPlace ==
    ASSUME NEW len \in Nat, NEW S \in SUBSET (1 .. len), S # {}
    PROVE  \E n \in S : IsLast(n, S)
<1> DEFINE B == {m \in Nat : \E n \in S : m = len - n}
<1>1. \A n \in S : n \in Nat /\ len - n \in B
  OBVIOUS
<1>2. B \in SUBSET Nat /\ B # {}
  BY <1>1
<1>3. PICK m \in B : \A i \in B : m <= i
  BY <1>2, LeastNumber
<1>4. PICK n \in S : m = len - n
  BY <1>3
<1>5. \A i \in S : i <= n
  BY <1>1, <1>3, <1>4
<1> QED
  BY <1>4, <1>5 DEF IsLast

\* The search finds the right type of a key that signed no registration but its own.
LEMMA HumanIff ==
    ASSUME SigInv, NEW k \in AllKeys, NEW date \in Nat, ~Mixed(k)
    PROVE  HumanAt(k, date) <=> IsHumanAt(k, date)
<1>1. PICK len \in Nat : len = Len(registrations) /\ DOMAIN registrations = 1 .. len
  BY LenProperties DEF SigInv
<1>2. \A n \in 1 .. len : Of(n) \in Registration
  BY <1>1, ElementOfSeq DEF SigInv, Of
<1>3. OwnOf(k) \subseteq 1 .. len /\ Involving(k, date) \subseteq 1 .. len
  BY <1>1 DEF OwnOf, Involving
<1>4. CASE OwnOf(k) = {}
  BY <1>4 DEF HumanAt, IsHumanAt
<1>5. CASE OwnOf(k) # {}
  <2>1. PICK n \in OwnOf(k) : IsLast(n, OwnOf(k))
    BY <1>3, <1>5, LastPlace
  <2>2. k \in Keys /\ \A i \in OwnOf(k) : Of(i).type = Of(n).type
    <3>1. k \in Keys
      BY <1>2, <1>3, <2>1 DEF OwnOf, Registration
    <3> QED
      BY <3>1, <1>1, <1>3, <2>1 DEF SigInv
  <2>3. \A i \in OwnOf(k) : IsLast(i, OwnOf(k)) => i = n
    BY <1>3, <2>1 DEF IsLast
  <2>4. HumanAt(k, date) <=>
          IF Of(n).date <= date THEN Of(n).type = "human"
          ELSE \E m \in Involving(k, date) : IsLast(m, Involving(k, date)) /\ Of(m).type = "human"
    BY <2>1, <2>3 DEF HumanAt
  <2>5. Involving(k, date) = {i \in OwnOf(k) : Of(i).date <= date}
    <3>1. \A i \in DOMAIN registrations : k \in Of(i).signers <=> i \in OwnOf(k)
      BY <1>1, <1>5 DEF Mixed, OwnOf, SigInv
    <3> QED
      BY <3>1 DEF Involving, OwnOf
  <2>6. CASE Of(n).date <= date
    BY <2>1, <2>2, <2>4, <2>6 DEF IsHumanAt
  <2>7. CASE ~(Of(n).date <= date) /\ Involving(k, date) = {}
    BY <2>4, <2>5, <2>7 DEF IsHumanAt
  <2>8. CASE ~(Of(n).date <= date) /\ Involving(k, date) # {}
    <3>1. PICK m \in Involving(k, date) : IsLast(m, Involving(k, date))
      BY <1>3, <2>8, LastPlace
    <3>2. m \in OwnOf(k) /\ Of(m).date <= date
      BY <2>5, <3>1
    <3>3. \A i \in Involving(k, date) : Of(i).type = Of(n).type
      BY <2>2, <2>5
    <3> QED
      BY <2>2, <2>4, <2>8, <3>1, <3>2, <3>3 DEF IsHumanAt
  <2> QED
    BY <2>6, <2>7, <2>8
<1> QED
  BY <1>4, <1>5

\* Kind by kind.  For a registration the three signers are different keys, because the dictionary
\* is one to one: so there are at least the three pairs that are asked for.
LEMMA CheckIffAuthorized ==
    ASSUME SigInv, NEW blockchain \in BOOLEAN, blockchain => TypesFound
    PROVE  CheckRequiredSignatures(body, pairs, blockchain) <=> Authorized(body, blockchain)
<1>0. /\ body.kind \in Kinds /\ body.account \in Nat /\ body.user \in Nat /\ body.createdAt \in Nat
      /\ ~Doublets(pairs) /\ dict \in Seq(AllKeys) /\ OneToOne(dict)
  BY DEF SigInv, Bodies, Dictionary
<1>1. PICK len \in Nat : len = Len(pairs) /\ DOMAIN pairs = 1 .. len
  BY SignersAt
<1>2. /\ Signers = {pairs[i].key : i \in 1 .. len}
      /\ ToSet(KeysOf(pairs)) = Signers
  BY <1>1, SignersAt
<1>3. Cardinality({}) = 0
  BY FS_EmptySet
<1>4. CASE body.kind = "root"
  <2>1. /\ MinCount(body) = 1 /\ RequiredKeys(body) = {} /\ Forbidden(body) = {}
        /\ RequiredIndices(body) = <<body.account>>
    BY <1>4 DEF MinCount, RequiredKeys, Forbidden, RequiredIndices, FromSender
  <2>2. CountsFit(body, pairs) <=> len >= 1
    BY <1>0, <1>1, <1>3, <2>1 DEF CountsFit
  <2>3. ~NothingAsked(body) /\ KeysLeft(body, pairs) = {}
    BY <2>1 DEF NothingAsked, KeysLeft
  <2>4. IndicesLeft(body, KeysOf(pairs)) = {} <=> Signed(body.account)
    BY <1>2, <2>1 DEF IndicesLeft, Signed
  <2>5. len = 1 => (SinglePair(body, pairs[1].key) <=> Signed(body.account))
    BY <1>2, <2>1 DEF SinglePair, Signed
  <2>6. Signed(body.account) => len >= 1
    BY <1>2 DEF Signed
  <2>7. RequiredSigned(body, pairs) <=> Signed(body.account)
    BY <1>1, <2>1, <2>2, <2>3, <2>4, <2>5, <2>6 DEF RequiredSigned
  <2> QED
    BY <1>4, <2>7 DEF CheckRequiredSignatures, Authorized, FromSender
<1>5. CASE body.kind = "register"
  <2>1. /\ MinCount(body) = 3 /\ RequiredKeys(body) = {} /\ Forbidden(body) = {}
        /\ RequiredIndices(body) = <<body.account, body.user>>
    BY <1>5 DEF MinCount, RequiredKeys, Forbidden, RequiredIndices, FromSender
  <2>2. CountsFit(body, pairs) <=> len >= 3
    BY <1>0, <1>1, <1>3, <2>1 DEF CountsFit
  <2>3. ~NothingAsked(body) /\ KeysLeft(body, pairs) = {}
    BY <2>1 DEF NothingAsked, KeysLeft
  <2>4. IndicesLeft(body, KeysOf(pairs)) = {}
          <=> body.account # body.user /\ Signed(body.account) /\ Signed(body.user)
    BY <1>2, <1>5, <2>1 DEF IndicesLeft, Signed
  <2>5. RequiredSigned(body, pairs)
          <=> len >= 3 /\ body.account # body.user /\ Signed(body.account) /\ Signed(body.user)
    BY <1>1, <2>1, <2>2, <2>3, <2>4 DEF RequiredSigned
  <2>6. RootSigned(body, pairs) <=> Root \in Signers \ {dict[body.account], dict[body.user]}
    BY <1>1, <1>2 DEF RootSigned, Key
  <2>7. ASSUME body.account # body.user, Signed(body.account), Signed(body.user)
        PROVE  len >= 3 <=> Signers \ {dict[body.account], dict[body.user]} # {}
    <3>1. /\ dict[body.account] \in Signers /\ dict[body.user] \in Signers
          /\ dict[body.account] # dict[body.user]
      BY <1>0, <2>7 DEF Signed, OneToOne
    <3>2. PICK j \in 1 .. len : pairs[j].key = dict[body.account]
      BY <1>2, <3>1
    <3>3. PICK k \in 1 .. len : pairs[k].key = dict[body.user]
      BY <1>2, <3>1
    <3>4. j # k
      BY <3>1, <3>2, <3>3
    <3>5. ASSUME NEW third \in Signers \ {dict[body.account], dict[body.user]} PROVE len >= 3
      <4>1. PICK i \in 1 .. len : pairs[i].key = third
        BY <1>2
      <4>2. i # j /\ i # k
        BY <3>2, <3>3, <4>1
      <4> QED
        BY <3>4, <4>2
    <3>6. ASSUME len >= 3 PROVE \E third \in Signers : third \notin {dict[body.account], dict[body.user]}
      <4>1. PICK i \in 1 .. len : i # j /\ i # k
        <5>1. 1 \in 1 .. len /\ 2 \in 1 .. len /\ 3 \in 1 .. len
          BY <3>6
        <5> QED
          BY <5>1
      <4>2. pairs[i].key # dict[body.account] /\ pairs[i].key # dict[body.user]
        BY <1>0, <1>1, <3>2, <3>3, <4>1 DEF Doublets
      <4> QED
        BY <1>2, <4>2
    <3> QED
      BY <3>5, <3>6
  <2>8. Root \in Signers \ {dict[body.account], dict[body.user]}
          <=> \E k \in Signers \ {dict[body.account], dict[body.user]} : k = Root
    OBVIOUS
  <2> QED
    BY <1>5, <2>5, <2>6, <2>7, <2>8 DEF CheckRequiredSignatures, Authorized, FromSender
<1>6. CASE body.kind = "creation"
  <2>1. /\ MinCount(body) = 1 /\ RequiredKeys(body) = {} /\ Forbidden(body) = {body.to}
        /\ RequiredIndices(body) = <<>>
    BY <1>6 DEF MinCount, RequiredKeys, Forbidden, RequiredIndices, FromSender
  <2>2. CountsFit(body, pairs) <=> len >= 1
    BY <1>0, <1>1, <1>3, <2>1 DEF CountsFit
  <2>3. ~NothingAsked(body) /\ KeysLeft(body, pairs) = {}
    BY <2>1 DEF NothingAsked, KeysLeft
  <2>4. IndicesLeft(body, KeysOf(pairs)) = {}
    BY <2>1 DEF IndicesLeft
  <2>5. len = 1 => (SinglePair(body, pairs[1].key) <=> body.to \notin Signers)
    BY <1>2, <2>1 DEF SinglePair
  <2>6. Signers # {} <=> len >= 1
    BY <1>2
  <2>7. RequiredSigned(body, pairs) <=> Signers # {} /\ body.to \notin Signers
    BY <1>1, <1>2, <2>1, <2>2, <2>3, <2>4, <2>5, <2>6 DEF RequiredSigned
  <2>8. ASSUME blockchain
        PROVE  SignersHuman(body, pairs) <=> \A k \in Signers : IsHumanAt(k, body.createdAt)
    <3>1. SignersHuman(body, pairs) <=> \A k \in Signers : HumanAt(k, body.createdAt)
      BY <1>1, <1>2 DEF SignersHuman
    <3>2. \A k \in Signers : k \in AllKeys /\ ~Mixed(k)
      BY <1>1, <1>2, <1>6, <2>8, SignersAt DEF TypesFound
    <3> QED
      BY <1>0, <3>1, <3>2, HumanIff
  <2> QED
    BY <1>6, <2>7, <2>8 DEF CheckRequiredSignatures, Authorized, FromSender
<1>7. CASE body.kind \in FromSender
  <2>1. /\ MinCount(body) = 1 /\ RequiredKeys(body) = {body.from} /\ Forbidden(body) = {}
        /\ RequiredIndices(body) = <<>>
    BY <1>7 DEF MinCount, RequiredKeys, Forbidden, RequiredIndices, FromSender
  <2>2. CountsFit(body, pairs) <=> len >= 1
    <3>1. Cardinality(RequiredKeys(body)) = 1 /\ Len(RequiredIndices(body)) = 0
      BY <2>1, FS_Singleton
    <3> QED
      BY <1>0, <1>1, <2>1, <3>1 DEF CountsFit
  <2>3. ~NothingAsked(body) /\ (KeysLeft(body, pairs) = {} <=> body.from \in Signers)
    BY <1>2, <2>1 DEF NothingAsked, KeysLeft
  <2>4. IndicesLeft(body, KeysOf(pairs)) = {}
    BY <2>1 DEF IndicesLeft
  <2>5. len = 1 => (SinglePair(body, pairs[1].key) <=> body.from \in Signers)
    BY <1>2, <2>1 DEF SinglePair
  <2>6. body.from \in Signers => len >= 1
    BY <1>2
  <2>7. RequiredSigned(body, pairs) <=> body.from \in Signers
    BY <1>1, <1>2, <2>1, <2>2, <2>3, <2>4, <2>5, <2>6 DEF RequiredSigned
  <2> QED
    BY <1>7, <2>7 DEF CheckRequiredSignatures, Authorized, FromSender
<1>8. CASE body.kind = "timeout"
  <2>1. /\ MinCount(body) = 0 /\ RequiredKeys(body) = {} /\ Forbidden(body) = {}
        /\ RequiredIndices(body) = <<>>
    BY <1>8 DEF MinCount, RequiredKeys, Forbidden, RequiredIndices, FromSender
  <2>2. CountsFit(body, pairs) /\ NothingAsked(body)
    BY <1>0, <1>1, <1>3, <2>1 DEF CountsFit, NothingAsked
  <2> QED
    BY <1>8, <2>2 DEF CheckRequiredSignatures, RequiredSigned, Authorized, FromSender
<1> QED
  BY <1>0, <1>4, <1>5, <1>6, <1>7, <1>8 DEF Kinds, FromSender

-----------------------------------------------------------------------------
(* Comparing signature maps. *)

\* A sequence without repetitions has as many elements as places.
LEMMA OneToOneCounts ==
    ASSUME NEW S, NEW s \in Seq(S), OneToOne(s)
    PROVE  IsFiniteSet(ToSet(s)) /\ Cardinality(ToSet(s)) = Len(s)
<1>1. PICK n \in Nat : n = Len(s) /\ DOMAIN s = 1 .. n
  BY LenProperties
<1>2. s \in [1 .. n -> ToSet(s)]
  BY <1>1, LenProperties DEF ToSet
<1>3. s \in Bijection(1 .. n, ToSet(s))
  BY <1>1, <1>2 DEF Bijection, Injection, IsInjective, Surjection, OneToOne, ToSet
<1>4. ExistsBijection(1 .. n, ToSet(s))
  BY <1>3 DEF ExistsBijection
<1> QED
  BY <1>1, <1>4, FS_NatBijection, FS_CountingElements

\* With as many places on both sides it is enough that everything of one is in the other.
LEMMA SameLengthSubset ==
    ASSUME NEW S, NEW s \in Seq(S), NEW t \in Seq(S), OneToOne(s), OneToOne(t)
    PROVE  Len(s) = Len(t) /\ ToSet(t) \subseteq ToSet(s) <=> ToSet(s) = ToSet(t)
<1>1. PICK A : A = ToSet(s) /\ IsFiniteSet(A) /\ Cardinality(A) = Len(s)
  BY OneToOneCounts
<1>2. PICK B : B = ToSet(t) /\ IsFiniteSet(B) /\ Cardinality(B) = Len(t)
  BY OneToOneCounts
<1>3. B \subseteq A /\ Cardinality(A) = Cardinality(B) => A = B
  BY <1>1, FS_Subset
<1> QED
  BY <1>1, <1>2, <1>3

\* Pairs and keys of a map without doublets.
LEMMA MapOneToOne ==
    ASSUME NEW ps \in Seq(SignedPair), ~Doublets(ps)
    PROVE  OneToOne(ps) /\ OneToOne(KeysOf(ps))
<1>1. DOMAIN KeysOf(ps) = DOMAIN ps /\ \A i \in DOMAIN ps : KeysOf(ps)[i] = ps[i].key
  BY DEF KeysOf
<1> QED
  BY <1>1 DEF OneToOne, Doublets

\* The pair found by the hash of a pair is that pair.
LEMMA FoundByHash ==
    ASSUME HashAssumption, NEW ps \in Seq(SignedPair), NEW q \in SignedPair
    PROVE  (\E i \in DOMAIN ps : PairHash(ps[i]) = PairHash(q) /\ OfHash(ps, PairHash(q)) = q) <=> q \in ToSet(ps)
<1>1. Len(ps) \in Nat /\ DOMAIN ps = 1 .. Len(ps) /\ \A i \in 1 .. Len(ps) : ps[i] \in SignedPair
  BY LenProperties, ElementOfSeq
<1>2. \A i \in DOMAIN ps : PairHash(ps[i]) = PairHash(q) => ps[i] = q
  BY <1>1 DEF HashAssumption
<1>3. ASSUME q \in ToSet(ps)
      PROVE  \E i \in DOMAIN ps : PairHash(ps[i]) = PairHash(q) /\ OfHash(ps, PairHash(q)) = q
  <2> DEFINE B == {i \in 1 .. Len(ps) : PairHash(ps[i]) = PairHash(q)}
  <2>1. B \in SUBSET Nat /\ B # {}
    BY <1>1, <1>3 DEF ToSet
  <2>2. PICK m \in B : \A i \in B : m <= i
    BY <2>1, LeastNumber
  <2>3. m \in DOMAIN ps /\ PairHash(ps[m]) = PairHash(q) /\ \A j \in 1 .. m - 1 : PairHash(ps[j]) # PairHash(q)
    BY <1>1, <2>2
  <2>4. PICK i : i = CHOOSE x \in DOMAIN ps :
                       PairHash(ps[x]) = PairHash(q) /\ \A j \in 1 .. x - 1 : PairHash(ps[j]) # PairHash(q)
    OBVIOUS
  <2>5. i \in DOMAIN ps /\ PairHash(ps[i]) = PairHash(q)
    BY <2>3, <2>4
  <2>6. OfHash(ps, PairHash(q)) = ps[i]
    BY <2>4 DEF OfHash
  <2> QED
    BY <1>2, <2>5, <2>6
<1> QED
  BY <1>1, <1>2, <1>3 DEF ToSet

\* isTheSame and isPairing, which compare the numbers and look for each pair of the other map.
LEMMA MapsCompared ==
    ASSUME HashAssumption, SigInv
    PROVE  SameExact /\ PairingExact
<1>1. /\ pairs \in Seq(SignedPair) /\ OneToOne(pairs)
      /\ other \in Seq(SignedPair) /\ OneToOne(other)
  BY MapOneToOne DEF SigInv
<1>2. /\ Len(pairs) \in Nat /\ DOMAIN pairs = 1 .. Len(pairs) /\ ToSet(pairs) \subseteq SignedPair
      /\ Len(other) \in Nat /\ DOMAIN other = 1 .. Len(other) /\ ToSet(other) \subseteq SignedPair
  BY <1>1, LenProperties, ElementOfSeq DEF ToSet
<1>3. SameMap(pairs, other) <=> Len(pairs) = Len(other) /\ ToSet(other) \subseteq ToSet(pairs)
  <2>1. CASE Len(pairs) = 1 /\ Len(other) = 1
    <3>1. ToSet(pairs) = {pairs[1]} /\ ToSet(other) = {other[1]}
      BY <1>2, <2>1 DEF ToSet
    <3> QED
      BY <2>1, <3>1 DEF SameMap
  <2>2. CASE Len(pairs) = Len(other) /\ Len(pairs) # 1
    <3>1. \A q \in ToSet(other) :
            (\E i \in DOMAIN pairs : PairHash(pairs[i]) = PairHash(q) /\ OfHash(pairs, PairHash(q)) = q)
               <=> q \in ToSet(pairs)
      BY <1>1, <1>2, FoundByHash
    <3> QED
      BY <2>2, <3>1 DEF SameMap
  <2>3. CASE Len(pairs) # Len(other)
    BY <2>3 DEF SameMap
  <2> QED
    BY <2>1, <2>2, <2>3
<1>4. SameExact
  <2>1. Len(pairs) = Len(other) /\ ToSet(other) \subseteq ToSet(pairs) <=> ToSet(pairs) = ToSet(other)
    BY <1>1, SameLengthSubset
  <2> QED
    BY <1>3, <2>1 DEF SameExact
<1>5. PICK ks \in Seq(AllKeys) : /\ ks = KeysOf(pairs) /\ OneToOne(ks) /\ Len(ks) = Len(pairs)
                                 /\ ToSet(ks) = Signers
  BY KeysOfSigners, MapOneToOne DEF SigInv, Signers
<1>6. PICK ls \in Seq(AllKeys) : /\ ls = KeysOf(other) /\ OneToOne(ls) /\ Len(ls) = Len(other)
                                 /\ ToSet(ls) = {p.key : p \in ToSet(other)}
  BY KeysOfSigners, MapOneToOne DEF SigInv
<1>7. PairingMap(pairs, other) <=> Len(ks) = Len(ls) /\ ToSet(ls) \subseteq ToSet(ks)
  <2>1. \A k : k \in ToSet(ks) <=> \E i \in DOMAIN pairs : pairs[i].key = k
    BY <1>5 DEF Signers, ToSet
  <2> QED
    BY <1>5, <1>6, <2>1 DEF PairingMap
<1>8. PairingExact
  <2>1. Len(ks) = Len(ls) /\ ToSet(ls) \subseteq ToSet(ks) <=> ToSet(ks) = ToSet(ls)
    BY <1>5, <1>6, SameLengthSubset
  <2> QED
    BY <1>5, <1>6, <1>7, <2>1 DEF PairingExact
<1> QED
  BY <1>4, <1>8

\* The subtraction of 32 wraps around for shorter memos, far above 450.
LEMMA MemosBounded ==
    ASSUME SigInv
    PROVE  MemoTextBounded
<1>1. SUFFICES ASSUME MemosValid(body), body.kind \in WithMemo, NEW m \in body.memos
               PROVE  m.size \in IF m.plain THEN 5 .. 450 ELSE 37 .. 482
  BY DEF MemoTextBounded, Accepts, BodyValid
<1>2. m.size \in 0 .. SizeMax - 1 /\ m.plain \in BOOLEAN
  BY DEF SigInv, Bodies, Memo
<1>3. MemoSize(m) >= 5 /\ MemoSize(m) <= 450
  BY <1>1 DEF MemosValid
<1>4. PICK n \in Nat : n = m.size /\ n <= SizeMax - 1
  <2>1. SizeMax \in Nat
    BY DEF SizeMax
  <2> QED
    BY <1>2, <2>1
<1>5. n < 65536 /\ SizeMax = 65536
  BY <1>4 DEF SizeMax
<1>6. (n + 65536 - 32) % 65536 = IF n >= 32 THEN n - 32 ELSE n + 65504
  BY <1>5
<1>7. MemoSize(m) = IF m.plain THEN n ELSE IF n >= 32 THEN n - 32 ELSE n + 65504
  BY <1>4, <1>5, <1>6 DEF MemoSize
<1> QED
  BY <1>2, <1>3, <1>4, <1>7

(***************************************************************************)
(* For every set of keys, number of signatures and set of bodies at the    *)
(* start, and in whatever order signatures, registrations and validations  *)
(* come: checkRequiredSignatures lets pass exactly what the right keys     *)
(* have signed, whether it is given a blockchain to ask about the root and *)
(* about humans or none (but for creations signed by who has also signed   *)
(* registrations of others); a valid memo has 5 to 450 bytes of text, and  *)
(* two signature maps are the same, or pairing, exactly when their pairs,  *)
(* or keys, are.                                                           *)
(***************************************************************************)
THEOREM AcceptedIffSigned ==
    ASSUME DateAssumption, HashAssumption, NEW bodies \in SUBSET Bodies
    PROVE  SignaturesSpec(bodies) => []AcceptedIffValid
<1>1. SignaturesInit(bodies) => SigInv
  BY SigInvInit
<1>2. SigInv /\ [SignaturesNext]_signatureVars => SigInv'
  BY SigInvStep
<1>3. SigInv => AcceptedIffValid
  <2>1. ASSUME SigInv PROVE AcceptedIffAuthorized
    BY <2>1, CheckIffAuthorized DEF AcceptedIffAuthorized, Accepts, Verified
  <2> QED
    BY <2>1, MapsCompared, MemosBounded DEF AcceptedIffValid
<1> QED
  BY <1>1, <1>2, <1>3, PTL DEF SignaturesSpec

-----------------------------------------------------------------------------
(* What was accepted stays accepted. *)

\* A step only adds to the dictionary and to the registrations.
LEMMA OnlyAdded ==
    ASSUME DateAssumption, SigInv, [SignaturesNext]_signatureVars
    PROVE  /\ body' = body
           /\ Extends(dict', dict)
           /\ \A n \in DOMAIN registrations :
                n \in DOMAIN registrations' /\ registrations'[n] = registrations[n]
<1>1. Extends(dict, dict)
  BY LenProperties DEF SigInv, Dictionary, Extends
<1>2. CASE Sign \/ SignOther \/ UNCHANGED signatureVars
  BY <1>1, <1>2 DEF Sign, SignOther, Push, PushOther, signatureVars
<1>3. CASE Chain
  <2>1. PICK r \in Registration : Register(r)
    BY <1>3 DEF Chain, Registration, DateAssumption
  <2>2. r.account \in AllKeys /\ r.user \in AllKeys
    BY DEF Registration, AllKeys
  <2>3. <<r.account, r.user>> \in Seq(AllKeys)
    BY <2>2
  <2>4. Extends(dict', dict)
    BY <2>1, <2>3, AddedExtends DEF Register, SigInv
  <2>5. \A n \in DOMAIN registrations : n \in DOMAIN registrations' /\ registrations'[n] = registrations[n]
    BY <2>1, AppendProperties, LenProperties DEF Register, SigInv
  <2> QED
    BY <2>1, <2>4, <2>5 DEF Register
<1>4. CASE Check
  <2>1. Extends(dict', dict)
    BY <1>1, <1>4, DictAfterExtends DEF Check, Validate, SigInv
  <2> QED
    BY <1>4, <2>1 DEF Check, Validate
<1> QED
  BY <1>2, <1>3, <1>4 DEF SignaturesNext

\* Every check is about indices that are known already or registrations that were confirmed.
LEMMA StaysAccepted ==
    ASSUME DateAssumption, SigInv, [SignaturesNext]_signatureVars
    PROVE  Stays
<1>1. SUFFICES ASSUME pairs' = pairs, NEW blockchain \in BOOLEAN,
                      blockchain => TypesFound /\ TypesFound',
                      Accepts(body, pairs, TRUE, TRUE, blockchain)
               PROVE  Accepts(body, pairs, TRUE, TRUE, blockchain)'
  BY DEF Stays
<1>2. SigInv'
  BY SigInvStep
<1>3. PICK n \in Nat : n = Len(dict) /\ DOMAIN dict = 1 .. n
  BY LenProperties DEF SigInv, Dictionary
<1>4. PICK m \in Nat : m = Len(dict') /\ DOMAIN dict' = 1 .. m
  BY <1>2, LenProperties DEF SigInv, Dictionary
<1>5. /\ body' = body /\ n <= m /\ \A i \in 1 .. n : dict'[i] = dict[i]
      /\ \A i \in DOMAIN registrations :
           i \in DOMAIN registrations' /\ registrations'[i] = registrations[i]
  BY <1>3, <1>4, OnlyAdded DEF Extends
<1>6. \A i \in DOMAIN dict : i \in DOMAIN dict' /\ dict'[i] = dict[i]
  BY <1>3, <1>4, <1>5
<1>7. BodyValid(body)' /\ Verified(pairs)'
  BY <1>1, <1>5, <1>6 DEF Accepts, BodyValid, MemosValid, SingleValid, HasIndex, Verified
<1>8. RequiredSigned(body, pairs)'
  <2>1. /\ CountsFit(body, pairs)' <=> CountsFit(body, pairs)
        /\ NothingAsked(body)' <=> NothingAsked(body)
        /\ KeysLeft(body, pairs)' = KeysLeft(body, pairs)
        /\ RequiredIndices(body)' = RequiredIndices(body)
        /\ Forbidden(body)' = Forbidden(body)
        /\ KeysOf(pairs)' = KeysOf(pairs)
    BY <1>1, <1>5 DEF CountsFit, NothingAsked, KeysLeft, RequiredIndices, Forbidden, KeysOf,
                      RequiredKeys, MinCount, Doublets
  <2>2. \A k : SinglePair(body, k) => SinglePair(body, k)'
    BY <1>5, <1>6, <2>1 DEF SinglePair, RequiredKeys
  <2>3. IndicesLeft(body, KeysOf(pairs)) = {} => IndicesLeft(body, KeysOf(pairs))' = {}
    BY <1>5, <1>6, <2>1 DEF IndicesLeft
  <2>4. RequiredSigned(body, pairs)
    BY <1>1 DEF Accepts, CheckRequiredSignatures
  <2> QED
    BY <1>1, <2>1, <2>2, <2>3, <2>4 DEF RequiredSigned
<1>9. (blockchain /\ body.kind = "register" => RootSigned(body, pairs))'
  BY <1>1, <1>5, <1>6 DEF Accepts, BodyValid, SingleValid, HasIndex, CheckRequiredSignatures, RootSigned, Key
<1>10. (blockchain /\ body.kind = "creation" => SignersHuman(body, pairs))'
  <2>1. \A i \in DOMAIN pairs : pairs[i].key \in AllKeys /\ pairs[i].key \in Signers
    BY SignersAt
  <2>2. SUFFICES ASSUME blockchain, body.kind = "creation", NEW i \in DOMAIN pairs
                 PROVE  HumanAt(pairs[i].key, body.createdAt)'
    BY <1>1, <1>5 DEF SignersHuman
  <2>3. body.createdAt \in Nat /\ HumanAt(pairs[i].key, body.createdAt)
    BY <1>1, <2>2 DEF SigInv, Bodies, Accepts, CheckRequiredSignatures, SignersHuman
  <2>4. Signers' = Signers
    BY <1>1 DEF Signers
  <2>5. PICK k \in AllKeys : k = pairs[i].key /\ ~Mixed(k) /\ ~Mixed(k)'
    BY <1>1, <1>5, <2>1, <2>2, <2>4 DEF TypesFound
  <2>6. IsHumanAt(k, body.createdAt)
    BY <2>3, <2>5, HumanIff
  <2>7. IsHumanAt(k, body.createdAt)'
    BY <1>5, <2>6 DEF IsHumanAt, OwnOf, Of
  <2>8. HumanAt(k, body.createdAt)'
    <3>1. ASSUME SigInv', NEW date \in Nat, ~Mixed(k)' PROVE HumanAt(k, date)' <=> IsHumanAt(k, date)'
      BY <3>1, HumanIff, PTL
    <3> QED
      BY <1>2, <1>5, <2>3, <2>5, <2>7, <3>1
  <2> QED
    BY <1>1, <1>5, <2>5, <2>8
<1> QED
  BY <1>1, <1>5, <1>7, <1>8, <1>9, <1>10 DEF Accepts, CheckRequiredSignatures

(***************************************************************************)
(* A transaction that was accepted is accepted again, whatever is          *)
(* confirmed and whatever validation enters into the dictionary in         *)
(* between: the indices it was accepted with still stand for the same      *)
(* keys, and who was a human at a date stays one.                          *)
(***************************************************************************)
THEOREM AcceptedForGood ==
    ASSUME DateAssumption, NEW bodies \in SUBSET Bodies
    PROVE  SignaturesSpec(bodies) => AcceptedStays
<1>1. SignaturesInit(bodies) => SigInv
  BY SigInvInit
<1>2. SigInv /\ [SignaturesNext]_signatureVars => SigInv'
  BY SigInvStep
<1>3. SigInv /\ [SignaturesNext]_signatureVars => [Stays]_signatureVars
  BY StaysAccepted
<1> QED
  BY <1>1, <1>2, <1>3, PTL DEF SignaturesSpec, AcceptedStays
=============================================================================
