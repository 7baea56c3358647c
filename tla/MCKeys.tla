------------------------------- MODULE MCKeys -------------------------------
(***************************************************************************)
(* Keys and what they are used for: the word lists and passphrases a key   *)
(* pair is made of, the filter for typed passphrases, the signatures of a  *)
(* transaction, the key pairs and what is encrypted with them, and the key *)
(* of a login.  One of them runs at a time.                                *)
(***************************************************************************)
EXTENDS KeyPairs, Secrets, Signatures, TLC

CONSTANTS
    Parts,                  \* which of the parts run
    k1, k2, k3, root        \* keys of Signatures, seeds of KeyPairs

VARIABLES
    part,
    build, mnemonics, loading, loaded, phrase, wanted, key, detected,   \* of Passphrase
    passphrase, cursor, filteredPassphrase                              \* of TextFilter

-----------------------------------------------------------------------------
(* Two German lists that share words and the clear one, three words each.  *)
(* "haus" and "maus" collide in the first list; "wort" is in no list but   *)
(* has the hash of "able".  Three builds: one that loads, one whose third  *)
(* list has a word twice, one whose second list has a word too many.       *)

ListTypes == <<"german", "german2", "bip39">>
Good == [german |-> <<"haus", "maus", "tuer">>, german2 |-> <<"tuer", "haus", "gr&uuml;n">>,
         bip39 |-> <<"able", "baby", "cake">>]
AllBuilds == {Good, [Good EXCEPT !.bip39 = <<"able", "baby", "able">>],
             [Good EXCEPT !.german2 = <<"tuer", "haus", "baum", "maus">>]}
HashOf == [haus |-> 1, maus |-> 1, tuer |-> 2, baum |-> 3, able |-> 4, baby |-> 5, cake |-> 6,
           wort |-> 4, ab |-> 7, le |-> 8] @@ ("gr&uuml;n" :> 9 @@ "grUEn" :> 10 @@ "other" :> 11)
AllWords == DOMAIN HashOf
WordSize == [w \in AllWords |-> IF w \in {"ab", "le"} THEN 2 ELSE IF w = "gr&uuml;n" THEN 9 ELSE 4]
Filtered == [w \in AllWords |-> IF w = "grUEn" THEN "gr&uuml;n" ELSE w]
Joined == <<"ab", "le">> :> "able" @@ << >> :> "other"

Tokens == {"haus", "tuer", "able", "wort", "ab", "le", "grUEn"}
AllTexts == [words : UNION {[1 .. n -> Tokens] : n \in 1 .. 2}
                    \cup [1 .. 3 -> {"haus", "able", "ab", "le"}], space : BOOLEAN]

Phrases == INSTANCE Passphrase WITH
    Types <- ListTypes, Clear <- "bip39", Builds <- AllBuilds, Words <- AllWords, Hash <- HashOf,
    SizeOf <- WordSize, FilterOf <- Filtered, Joins <- Joined, Texts <- AllTexts,
    ListSize <- 3, WordCount <- 2, ShortSize <- 3, StrBuffer <- 12

-----------------------------------------------------------------------------
(* Texts of up to four bytes: two letters, a digit, space, newline, the    *)
(* lead byte 0xc3, a byte of another character, and two special bytes.     *)

Filter == INSTANCE TextFilter WITH
    Letters <- {"a", "b"}, Ignored <- {"1"}, Leads <- {"c3", "a9"}, Specials <- {"a4", "9f"},
    EntityOf <- [c \in {"a4", "9f"} |-> "entity " \o c], MaxLength <- 4, i <- cursor

-----------------------------------------------------------------------------
(* Who signs, what the memos may hold, and how two signature maps compare. *)

SameHash(p) == p    \* no collisions

AMemo == [plain |-> TRUE, size |-> 5]
Body(kind, from, to, account, user, memos, cross, otherCommunity) ==
    [kind |-> kind, from |-> from, to |-> to, account |-> account, user |-> user,
     createdAt |-> 1, memos |-> memos, cross |-> cross, otherCommunity |-> otherCommunity]

\* k2 pays or creates for k3; the account of a root or a registration is any index.
WhoBodies ==
    {Body(kind, k2, k3, 1, 2, {AMemo}, FALSE, FALSE) :
        kind \in {"creation", "transfer", "deferred", "redeem", "timeout"}}
    \union {Body(kind, k1, k1, account, 2, {}, FALSE, FALSE) :
        kind \in {"root", "register"}, account \in 0 .. 2}

MemoSizes == {0, 4, 5, 31, 32, 36, 37, 450, 451, 482, 483}
SizedMemos == [plain : BOOLEAN, size : MemoSizes]
MemoBodies ==
    {Body(kind, k2, k3, 1, 2, memos, cross, known) :
        kind \in {"creation", "transfer", "timeout"}, cross \in BOOLEAN, known \in BOOLEAN,
        memos \in {{}} \union {{m} : m \in SizedMemos} \union {{m, AMemo} : m \in SizedMemos}}
MapBodies == {Body("transfer", k2, k3, 1, 2, {AMemo}, FALSE, FALSE)}

-----------------------------------------------------------------------------
(* Key pairs.  Index 1 is soft, 2 and 3 are hard.  Texts of both sides of  *)
(* the sizes at which compress and decompress change their ways.           *)

MemoTexts ==
    {text \in [size : {119, 120, 512, 513, 1024, 1025}, header : BOOLEAN, packed : {100, 120, 2000}] :
        text.packed = 100 \/ text.size <= 512}

\* Three persons, each as it knows itself and as the others know it.
Persons == {KeyPair(<<seed>>, private, TRUE, None) : seed \in {k1, k2, k3}, private \in BOOLEAN}

-----------------------------------------------------------------------------
ASSUME Phrases!ListsAssumption /\ Filter!BytesAssumption
ASSUME KeyAssumption /\ LoginAssumption /\ DateAssumption /\ HashAssumption

phraseVars == <<build, mnemonics, loading, loaded, phrase, wanted, key, detected>>
filterVars == <<passphrase, cursor, filteredPassphrase>>
MCVars == <<phraseVars, filterVars, signatureVars, vars, secretsVars, part>>

(* The variables of a part that does not run. *)
NoPhrases ==
    /\ build = None /\ mnemonics = None /\ loading = None /\ loaded = None
    /\ phrase = None /\ wanted = None /\ key = None /\ detected = None
NoFilter == passphrase = None /\ cursor = None /\ filteredPassphrase = None

MCInit ==
    /\ part \in Parts
    /\ IF part = "passphrase" THEN Phrases!Init ELSE NoPhrases
    /\ IF part = "filter" THEN Filter!Init ELSE NoFilter
    /\ SignaturesInit(CASE part = "who" -> WhoBodies
                        [] part = "memo" -> MemoBodies
                        [] OTHER -> MapBodies)
    /\ part \notin {"who", "memo", "maps"} \/ body.kind = "creation" => dict = <<k1, k2>>
    /\ Init(IF part = "box" THEN Persons ELSE {})
    /\ SecretsInit

NoPairs == UNCHANGED <<vars, secretsVars, part>>

MCNext ==
    \/ part = "passphrase" /\ Phrases!Next /\ UNCHANGED <<filterVars, signatureVars>> /\ NoPairs
    \/ part = "filter" /\ Filter!Next /\ UNCHANGED <<phraseVars, signatureVars>> /\ NoPairs
    \/ part = "who" /\ body.kind # "creation" /\ (Sign \/ Check)
       /\ UNCHANGED <<phraseVars, filterVars>> /\ NoPairs
    \/ part = "who" /\ body.kind = "creation"              \* only creations look at registrations
       /\ (Sign \/ Check \/ Chain) /\ Len(pairs') <= 3 /\ Verified(pairs')
       /\ UNCHANGED <<phraseVars, filterVars>> /\ NoPairs
    \/ part = "memo" /\ Sign /\ Len(pairs') <= 1 /\ UNCHANGED <<phraseVars, filterVars>> /\ NoPairs
    \/ part = "maps" /\ (Sign \/ SignOther) /\ \A p \in ToSet(pairs' \o other') : p.key # k3
       /\ UNCHANGED <<phraseVars, filterVars>> /\ NoPairs
    \/ /\ \/ part = "derive" /\ Deriving
          \/ part = "box" /\ Memos
          \/ part = "share" /\ Sharing
       /\ UNCHANGED <<phraseVars, filterVars, signatureVars, secretsVars, part>>
    \/ part = "login" /\ SecretsNext /\ UNCHANGED <<phraseVars, filterVars, signatureVars, vars, part>>

MCSpec == MCInit /\ [][MCNext]_MCVars

-----------------------------------------------------------------------------
(* Properties: what the modules state, of the part it is about.            *)

\* What is typed becomes the key it stands for: Passphrase::filter keeps letters and spaces,
\* and special characters as entities; every word of a list has its place as index, the
\* words whose hashes collide included, and the k-th word of a text is in place k; generate
\* and transform keep the indices; detectMnemonic with a key pair names a list in which the
\* text is that key's.
PhraseExact ==
    /\ part = "filter" => Filter!FilterExact
    /\ part = "passphrase" =>
          Phrases!IndexExact /\ Phrases!TypedInOrder /\ Phrases!CreatedKeepsIndices /\ Phrases!DetectedByKey
=============================================================================
