----------------------------- MODULE Passphrase -----------------------------
(***************************************************************************)
(* The word lists of CryptoConfig (class Mnemonic), the passphrases made   *)
(* of their words, and the key pair of a passphrase.                       *)
(*                                                                         *)
(* A word is a model value; its hash and its size are given by functions.  *)
(* A text is a sequence of words with a space after each but perhaps the   *)
(* last; a passphrase object holds the text in its filtered form.  A key   *)
(* is the term that was hashed, so that two keys are equal exactly when    *)
(* their hashed terms are.                                                 *)
(***************************************************************************)
EXTENDS Integers, Sequences, FiniteSetsExt, Functions, SequencesExt

CONSTANTS
    Types,           \* the word lists in the order of MnemonicType
    Clear,           \* BIP0039_SORTED_ORDER
    Builds,          \* the word lists a build may hold: type -> sequence of words
    Words, Hash, SizeOf,     \* all words, DRMakeStringHash and the length of each
    FilterOf,        \* a word as it is typed -> as the lists hold it
    Joins,           \* pieces that make another word when the space between them is lost
    Texts,           \* what users type: [words, space], space after the last word
    ListSize,        \* 2048
    WordCount,       \* PHRASE_WORD_COUNT
    ShortSize,       \* words of less than 3 bytes are skipped
    StrBuffer,       \* STR_BUFFER_SIZE
    None

ListsAssumption ==
    /\ Clear \in Range(Types)
    /\ \A b \in Builds, t \in Range(Types) : \A w \in Range(b[t]) : SizeOf[w] >= ShortSize

VARIABLES
    build,           \* the lists compiled into the program
    mnemonics,       \* g_Mnemonic_WordLists: mWords, mWordHashIndices, mHashCollisionWords
    loading,         \* the type whose list is being filled, and the cursor
    loaded,          \* the types whose init has returned
    phrase,          \* the passphrase object in use, or None
    wanted,          \* the indices it was created from, or None
    key,             \* the key pair made of it, or None
    detected         \* the last answer of detectMnemonic, with the text it was asked about

vars == <<build, mnemonics, loading, loaded, phrase, wanted, key, detected>>

TypeSet == Range(Types)
TypeNr(t) == CHOOSE i \in DOMAIN Types : Types[i] = t
EmptyFun == [x \in {} |-> x]
NoLoading == [type |-> None, cursor |-> 0]
NotDetected == [answer |-> None, text |-> None, key |-> None]
Idle == loading = NoLoading

(***************************************************************************)
(* Mnemonic                                                                *)
(***************************************************************************)
Cleared == [words |-> EmptyFun, indices |-> EmptyFun, collisions |-> EmptyFun]

With(f, x, y) == [z \in DOMAIN f \cup {x} |-> IF z = x THEN y ELSE f[z]]

(* init starts with clear(), for one type after the other *)
LoadMnemonicWordLists ==
    /\ Idle /\ detected = NotDetected
    /\ loading' = [type |-> Types[1], cursor |-> 0]
    /\ loaded' = loaded \ {Types[1]}
    /\ mnemonics' = [mnemonics EXCEPT ![Types[1]] = Cleared]
    /\ detected' = NotDetected
    /\ UNCHANGED <<build, phrase, wanted, key>>

(* A second word with a hash: both are looked up by their letters          *)
Collided(m, h, w, cursor) ==
    LET first == m.indices[h]
        old == IF h \in DOMAIN m.collisions THEN m.collisions[h]
               ELSE With(EmptyFun, m.words[first], first)
    IN [m EXCEPT !.collisions = With(@, h, With(old, w, cursor))]

AlreadyCollided(m, h, w) ==
    /\ h \in DOMAIN m.indices
    /\ \/ m.words[m.indices[h]] = w
       \/ h \in DOMAIN m.collisions /\ w \in DOMAIN m.collisions[h]

(* The next word of the list; a word that is there already and a word too  *)
(* many end the loading of all lists with an exception                     *)
AddWord ==
    LET t == loading.type
        cursor == loading.cursor
        w == build[t][cursor + 1]
        h == Hash[w]
        m == mnemonics[t]
        kept == [m EXCEPT !.words = With(@, cursor, w)]
    IN /\ ~Idle /\ cursor < Len(build[t])
       /\ IF cursor >= ListSize
          THEN loading' = NoLoading /\ UNCHANGED mnemonics
          ELSE IF AlreadyCollided(kept, h, w)
          THEN /\ loading' = NoLoading
               /\ mnemonics' = [mnemonics EXCEPT ![t] =
                     IF h \in DOMAIN m.collisions THEN kept
                     ELSE [kept EXCEPT !.collisions =
                             With(@, h, With(EmptyFun, w, m.indices[h]))]]
          ELSE /\ loading' = [loading EXCEPT !.cursor = cursor + 1]
               /\ mnemonics' = [mnemonics EXCEPT ![t] =
                     IF h \in DOMAIN m.indices THEN Collided(kept, h, w, cursor)
                     ELSE [kept EXCEPT !.indices = With(@, h, cursor)]]
       /\ UNCHANGED <<build, loaded, phrase, wanted, key, detected>>

(* The hashes of collided words leave the regular map; the next list       *)
EndInit ==
    LET t == loading.type
        m == mnemonics[t]
        done == [m EXCEPT !.indices = Restrict(@, DOMAIN @ \ DOMAIN m.collisions)]
        i == TypeNr(t)
    IN /\ ~Idle /\ loading.cursor = Len(build[t])
       /\ IF i = Len(Types)
          THEN /\ loading' = NoLoading
               /\ mnemonics' = [mnemonics EXCEPT ![t] = done]
               /\ loaded' = loaded \cup {t}
          ELSE /\ loading' = [type |-> Types[i + 1], cursor |-> 0]
               /\ mnemonics' = [mnemonics EXCEPT ![t] = done, ![Types[i + 1]] = Cleared]
               /\ loaded' = (loaded \cup {t}) \ {Types[i + 1]}
       /\ UNCHANGED <<build, phrase, wanted, key, detected>>

GetWordIndex(t, w) ==
    LET m == mnemonics[t]
        h == Hash[w]
    IN IF h \in DOMAIN m.indices THEN m.indices[h]
       ELSE IF h \in DOMAIN m.collisions /\ w \in DOMAIN m.collisions[h]
       THEN m.collisions[h][w]
       ELSE -1

IsWordExist(t, w) == GetWordIndex(t, w) # -1

(* None: a word that was not loaded; the string made of it throws          *)
GetWord(t, i) == IF i \in DOMAIN mnemonics[t].words THEN mnemonics[t].words[i] ELSE None

(***************************************************************************)
(* Passphrase                                                              *)
(***************************************************************************)
Filter(text) == [text EXCEPT !.words = [i \in DOMAIN @ |-> FilterOf[@[i]]]]

(* What the buffer spells after pieces that were too short to be words     *)
Spells(buffer) == IF Len(buffer) = 1 THEN buffer[1]
                  ELSE IF buffer \in DOMAIN Joins THEN Joins[buffer] ELSE Joins[<< >>]
Size(buffer) == MapThenSumSet(LAMBDA i : SizeOf[buffer[i]], DOMAIN buffer)

Found(a, t) == a.cursor < WordCount /\ IsWordExist(t, Spells(a.buffer))
Taken(a, t) == [a EXCEPT !.indices[a.cursor + 1] = GetWordIndex(t, Spells(a.buffer)),
                         !.cursor = @ + 1, !.buffer = << >>]

(* createWordIndices at a space *)
EndWord(a, t) ==
    IF Size(a.buffer) < ShortSize THEN a
    ELSE IF Found(a, t) THEN Taken(a, t)
    ELSE [a EXCEPT !.outcome = "unknown"]

(* createWordIndices: the words up to a space, and what is left at the end *)
ReadWord(a, t, text, i) ==
    LET b == [a EXCEPT !.buffer = Append(@, text.words[i])]
    IN IF a.outcome # "ok" THEN a
       ELSE IF Size(b.buffer) >= StrBuffer THEN [b EXCEPT !.outcome = "overflow"]
       ELSE IF i = Len(text.words) /\ ~text.space THEN b
       ELSE EndWord(b, t)

NoIndices == [buffer |-> << >>, cursor |-> 0, outcome |-> "ok",
              indices |-> [i \in 1 .. WordCount |-> 0]]
ReadWords(text, t) ==
    FoldLeftDomain(LAMBDA a, i : ReadWord(a, t, text, i), NoIndices, text.words)

(* Fault: the last word is stored in the first place. *)
CreateWordIndicesLastFirst(text, t) ==
    LET read == ReadWords(text, t)
    IN IF read.outcome = "ok" /\ read.buffer # << >> /\ Found(read, t)
       THEN Taken([read EXCEPT !.cursor = 0], t) ELSE read

CreateWordIndices(text, t) ==
    LET read == ReadWords(text, t)
    IN IF read.outcome = "ok" /\ read.buffer # << >> /\ Found(read, t)
       THEN Taken(read, t) ELSE read

(* The constructor: what it holds, or None when it throws *)
Constructed(text, t) ==
    LET filtered == Filter(text)
        read == CreateWordIndices(filtered, t)
    IN IF read.outcome = "ok"
       THEN [text |-> filtered, type |-> t, indices |-> read.indices] ELSE None

(* create: the words of the indices, each with a space behind it           *)
Created(indices, t) ==
    LET words == [i \in 1 .. WordCount |-> GetWord(t, indices[i])]
    IN IF None \in Range(words) THEN None
       ELSE Constructed([words |-> words, space |-> TRUE], t)

CreateClearPassphrase(p) == [i \in 1 .. WordCount |-> GetWord(Clear, p.indices[i])]

(* KeyPairEd25519::create: the hash of the indices and the clear words     *)
KeyOf(p) == [indices |-> p.indices, clear |-> CreateClearPassphrase(p)]

CheckIfValid(p) ==
    \A i \in DOMAIN p.text.words :
        SizeOf[p.text.words[i]] >= ShortSize => IsWordExist(p.type, p.text.words[i])

(* detectMnemonic looks at the words as they were given, not filtered      *)
LongWords(text) == SelectSeq(text.words, LAMBDA w : SizeOf[w] >= ShortSize)
ExistAll(text, t) ==
    \A i \in DOMAIN LongWords(text) : i <= WordCount => IsWordExist(t, LongWords(text)[i])

(* detectMnemonic: an answer, "none", or the exception of the constructor  *)
DetectMnemonic(text, k) ==
    LET read(i) == Constructed(text, Types[i])
        ends == {i \in DOMAIN Types :
                   /\ ExistAll(text, Types[i])
                   /\ k = None \/ read(i) = None \/ KeyOf(read(i)) = k}
    IN IF ends = {} THEN "none"
       ELSE IF k # None /\ read(Min(ends)) = None THEN "thrown"
       ELSE Types[Min(ends)]

(***************************************************************************)
(* The operations of a caller                                              *)
(***************************************************************************)
Use(p, from) ==
    /\ phrase' = p /\ wanted' = (IF p = None THEN None ELSE from) /\ key' = None
    /\ detected' = NotDetected
    /\ UNCHANGED <<build, mnemonics, loading, loaded>>

FromText ==
    /\ Idle /\ phrase = None
    /\ \E text \in Texts, t \in TypeSet : Use(Constructed(text, t), None)

Generate ==
    /\ Idle /\ phrase = None
    /\ \E indices \in [1 .. WordCount -> 0 .. ListSize - 1], t \in TypeSet :
          Use(Created(indices, t), indices)

Transform ==
    /\ Idle /\ phrase # None
    /\ \E t \in TypeSet : Use(Created(phrase.indices, t), phrase.indices)

(* The caller is done with the passphrase and the key *)
Drop == phrase # None /\ Idle /\ Use(None, None)

CreateKeyPair ==
    /\ Idle /\ phrase # None /\ None \notin Range(CreateClearPassphrase(phrase))
    /\ key' = KeyOf(phrase) /\ detected' = NotDetected
    /\ UNCHANGED <<build, mnemonics, loading, loaded, phrase, wanted>>

Detect ==
    /\ Idle /\ detected = NotDetected
    /\ \E text \in Texts \cup (IF phrase = None THEN {} ELSE {phrase.text}), k \in {None, key} :
          detected' = [answer |-> DetectMnemonic(text, k), text |-> text, key |-> k]
    /\ UNCHANGED <<build, mnemonics, loading, loaded, phrase, wanted, key>>

Init ==
    /\ build \in Builds
    /\ mnemonics = [t \in TypeSet |-> Cleared]
    /\ loading = NoLoading /\ loaded = {}
    /\ phrase = None /\ wanted = None /\ key = None /\ detected = NotDetected

Next == \/ LoadMnemonicWordLists \/ AddWord \/ EndInit
        \/ FromText \/ Generate \/ Transform \/ Drop \/ CreateKeyPair \/ Detect

Spec == Init /\ [][Next]_vars

-----------------------------------------------------------------------------
(* Every word of a list that was loaded has its place as index, the words  *)
(* whose hashes collide included: a passphrase can be read back.           *)
IndexExact ==
    \A t \in loaded : \A i \in DOMAIN build[t] : GetWordIndex(t, build[t][i]) = i - 1

(* A generated passphrase, and one transformed into the words of another   *)
(* list that was loaded, holds the indices it was made of, whatever words  *)
(* they are, and is valid: transforming never changes the key.             *)
CreatedKeepsIndices ==
    phrase # None /\ wanted # None /\ phrase.type \in loaded =>
        phrase.indices = wanted /\ CheckIfValid(phrase)

(* A typed text that was accepted has the index of its k-th word in place  *)
(* k, if none of its words was too short; only the last may be unknown.    *)
TypedInOrder ==
    phrase # None /\ wanted = None /\ LongWords(phrase.text) = phrase.text.words
    /\ phrase.type \in loaded =>
        \A k \in DOMAIN phrase.text.words :
            \/ k <= WordCount /\ phrase.indices[k] = GetWordIndex(phrase.type, phrase.text.words[k])
            \/ k = Len(phrase.text.words) /\ ~phrase.text.space

(* With a key pair at hand the detected list is one in which the text is   *)
(* that key's passphrase, and the passphrase a key was made of is always   *)
(* detected.                                                               *)
DetectedByKey ==
    loaded = TypeSet /\ detected.key # None =>
        /\ detected.answer \in TypeSet =>
               KeyOf(Constructed(detected.text, detected.answer)) = detected.key
        /\ phrase # None /\ wanted # None /\ key = detected.key /\ detected.text = phrase.text =>
               detected.answer \in TypeSet

(* checkIfValid: "true if all words in passphrase existing in mWordSource" *)
ValidMeansExisting ==
    phrase # None /\ phrase.type \in loaded /\ CheckIfValid(phrase) =>
        Range(phrase.text.words) \subseteq Range(build[phrase.type])

(* KeyPairEd25519::create asserts that the first indices are not zero.     *)
IndicesNotZero == key # None => \A i \in 1 .. WordCount : i <= 4 => key.indices[i] # 0
=============================================================================
