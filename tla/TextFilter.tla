----------------------------- MODULE TextFilter -----------------------------
(***************************************************************************)
(* Passphrase::filter, byte by byte: what a user typed becomes what the    *)
(* word lists hold.  The bytes are told apart by what the loop does with   *)
(* them.                                                                   *)
(***************************************************************************)
EXTENDS Integers, Sequences, SequencesExt

CONSTANTS
    Letters,         \* a-z, A-Z, '&' and ';'
    Ignored,         \* other characters below 0x80
    Leads,           \* bytes above 0x7F that are no second byte of g_specialChars
    Specials,        \* the second bytes of g_specialChars
    EntityOf,        \* g_specialChars: second byte -> html entity
    MaxLength

Ascii == Letters \cup Ignored \cup {"space", "newline"}
Bytes == Ascii \cup Leads \cup Specials

BytesAssumption ==
    /\ Letters \cap Ignored = {} /\ Ascii \cap (Leads \cup Specials) = {} /\ Leads \cap Specials = {}
    /\ DOMAIN EntityOf = Specials

VARIABLES passphrase, i, filteredPassphrase

vars == <<passphrase, i, filteredPassphrase>>

(* data()[k]: the terminating zero is behind the text; further on anything *)
(* may be read                                                             *)
Byte(k) == IF k <= Len(passphrase) THEN passphrase[k]
           ELSE IF k = Len(passphrase) + 1 THEN "zero" ELSE "any"

More == i <= Len(passphrase)

KeptByte(c) == IF c \in Letters \cup {"space"} THEN <<c>>
               ELSE IF c = "newline" THEN <<"space">> ELSE << >>

Character ==
    /\ More /\ Byte(i) \in Ascii
    /\ filteredPassphrase' = filteredPassphrase \o KeptByte(Byte(i))
    /\ i' = i + 1
    /\ UNCHANGED passphrase

(* The second byte alone says which character it is *)
SpecialCharacter ==
    /\ More /\ Byte(i) \notin Ascii /\ Byte(i + 1) \in Specials
    /\ filteredPassphrase' = Append(filteredPassphrase, EntityOf[Byte(i + 1)])
    /\ i' = i + 2
    /\ UNCHANGED passphrase

(* Any other character above 0x7F: i and j grow together, so the byte      *)
(* between the two that are copied is skipped                              *)
OtherCharacter ==
    /\ More /\ Byte(i) \notin Ascii /\ Byte(i + 1) \notin Specials
    /\ filteredPassphrase' = filteredPassphrase \o <<Byte(i), Byte(i + 2)>>
    /\ i' = i + 3
    /\ UNCHANGED passphrase

Init ==
    /\ passphrase \in UNION {[1 .. n -> Bytes] : n \in 0 .. MaxLength}
    /\ i = 1 /\ filteredPassphrase = << >>

Next == Character \/ SpecialCharacter \/ OtherCharacter

Spec == Init /\ [][Next]_vars

-----------------------------------------------------------------------------
(* The texts of the word lists' languages: characters below 0x80, and the  *)
(* two bytes of a special character                                        *)
IsSecond(k) == passphrase[k] \in Specials
OfTheLists ==
    /\ \A k \in DOMAIN passphrase : IsSecond(k) => k > 1 /\ passphrase[k - 1] \in Leads
    /\ \A k \in DOMAIN passphrase : passphrase[k] \in Leads =>
                                        k < Len(passphrase) /\ IsSecond(k + 1)

Expected == FlattenSeq([k \in DOMAIN passphrase |->
                IF passphrase[k] \in Leads THEN << >>
                ELSE IF IsSecond(k) THEN <<EntityOf[passphrase[k]]>>
                ELSE KeptByte(passphrase[k])])

(* A German or English text is filtered to its letters and spaces, every   *)
(* umlaut and sharp s as its html entity, nothing lost and nothing added,  *)
(* whatever stands next to it.                                             *)
FilterExact == OfTheLists /\ ~More => filteredPassphrase = Expected

LettersOf(s) == SelectSeq(s, LAMBDA c : c \in Letters)

(* Passphrase::filter: "replace utf8 characters with html special          *)
(* character encoding": the letters of a text are left as they are.        *)
LettersStay == ~More => LettersOf(filteredPassphrase) = LettersOf(passphrase)
=============================================================================
