------------------------------- MODULE Codec --------------------------------
(***************************************************************************)
(* Transactions to bytes and back: the roles of serialize::Context and     *)
(* deserialize::Context that use the core library with the memory of a     *)
(* GrduStaticBuffer.  The library (external) takes its memory from an      *)
(* arena; when the arena of fixed size overflows, GrduStaticBuffer::use    *)
(* calls the role a second time with a larger one.                         *)
(*                                                                         *)
(* What is coded is a list of parts, the pieces of memory it needs.  The   *)
(* conversion of a part (toGrdw) looks whether it got its memory (the      *)
(* arrays of signatures, memos and balances) or copies into it at once     *)
(* (body bytes, a memo, a community's uuid); the parts of the library, of  *)
(* a decode and of each encode, fail with OUT_OF_MEMORY.                   *)
(***************************************************************************)
EXTENDS Integers, Sequences, FiniteSetsExt

CONSTANTS
    Writings,            \* what is serialized: [by, parts, extra, out], extra is what an encode
                         \* takes from the arena, out the size of the bytes
    Readings,            \* what is deserialized: [kind, parts, body]
    Hints,               \* the types a caller names
    Mistaken,            \* pairs of a kind of bytes and another role that decodes them
    LargeBuffer, SmallBuffer,    \* GrduStaticBuffer<2048>, GrduStaticBuffer<1024>
    MaxAlloc,            \* ARNM_MAX_ALLOC_SIZE
    Align,               \* the alignment of the arena
    DynamicOut,          \* the second buffer for the result
    None

SizesAssumption ==
    /\ \A size \in {LargeBuffer, SmallBuffer} : size > 0 /\ size % Align = 0 /\ size <= MaxAlloc
    /\ LargeBuffer < DynamicOut

VARIABLES
    job,         \* what is coded
    role,        \* the role that runs, or "none"
    arena,       \* the arena it was given: capacity, used, overflow
    call,        \* the first or the second call of use
    next,        \* the part that is converted next
    whole,       \* all parts so far have their memory
    result,      \* the object the role has made
    mType,       \* the type the deserialize::Context holds
    pc

vars == <<job, role, arena, call, next, whole, result, mType, pc>>

SerializeRoles == {"writeConfirmed", "writeTransaction", "writeBody"}

(* The memory of a role, in a serialize role also the first buffer for the *)
(* result                                                                  *)
BufferSize(r) == IF r \in {"writeBody", "transaction", "body"} THEN SmallBuffer ELSE LargeBuffer

RoundUp(n) == ((n + Align - 1) \div Align) * Align
Arena(capacity) == [capacity |-> capacity, used |-> 0, overflow |-> 0]

Fits(size) == arena.used + RoundUp(size) <= arena.capacity
Allocated(size) ==
    IF Fits(size) THEN [arena EXCEPT !.used = @ + RoundUp(size)]
                  ELSE [arena EXCEPT !.overflow = @ + size]

Writes == role \in SerializeRoles
Pieces == IF pc = "convertBody" THEN job.body ELSE job.parts

(* What the end of a call of the role leaves to GrduStaticBuffer::use. *)
EndCall(code) == pc' = code /\ UNCHANGED <<job, role, arena, call, mType>>

(***************************************************************************)
(* The role's call, part by part                                           *)
(***************************************************************************)
NextPart ==
    /\ pc \in {"convert", "convertBody"} /\ next <= Len(Pieces)
    /\ LET part == Pieces[next] IN
       /\ arena' = Allocated(part.size)
       /\ next' = next + 1
       /\ IF Fits(part.size) THEN UNCHANGED <<pc, whole>>
          ELSE /\ whole' = FALSE
               /\ pc' = CASE part.use = "library" -> "outOfMemory"
                          [] part.use = "checked" -> pc
                          [] part.use = "copied" -> "crashed"
    /\ UNCHANGED <<job, role, call, result, mType>>

Converted == pc = "convert" /\ next > Len(Pieces)

(* The serialize roles: when the bytes do not fit the first buffer, they   *)
(* are encoded once more into the second, and the library takes its memory *)
(* again, from what the first encode has left of the arena.  It encodes an *)
(* incomplete structure to fewer bytes, or refuses it.                     *)
EncodeInto(size, tooSmall) ==
    /\ arena' = Allocated(job.extra)
    /\ \/ ~Fits(job.extra) /\ pc' = "outOfMemory" /\ UNCHANGED result
       \/ Fits(job.extra) /\ ~whole /\ pc' = "outOfMemory" /\ UNCHANGED result
       \/ Fits(job.extra) /\ (whole => job.out <= size) /\ pc' = "success"
          /\ result' = IF whole THEN "whole" ELSE "part"
       \/ Fits(job.extra) /\ job.out > size /\ pc' = tooSmall /\ UNCHANGED result
    /\ UNCHANGED <<job, role, call, next, whole, mType>>

Encode(r) == Converted /\ role = r /\ EncodeInto(BufferSize(r), "encodeAgain")

EncodeAgain == pc = "encodeAgain" /\ EncodeInto(DynamicOut, "thrown")

EncodeTransaction == Encode("writeTransaction")
EncodeBody == Encode("writeBody")
EncodeConfirmed == Encode("writeConfirmed")

(* Whether the library accepts the bytes as what the role reads: the       *)
(* compact role reads a confirmed transaction.                             *)
Reads(r) == IF r = "compact" THEN "confirmed" ELSE r
Decodes(r) == Reads(r) = job.kind \/ <<job.kind, Reads(r)>> \in Mistaken

(* fromGrdw makes the object, or throws (a community nobody knows, a wrong *)
(* recipient, ...); the bytes of another message are a decode error        *)
Decode(r) ==
    /\ Converted /\ role = r /\ whole
    /\ \/ /\ Decodes(r) /\ result' = "whole" /\ EndCall("success")
       \/ /\ UNCHANGED result /\ EndCall("thrown")
    /\ UNCHANGED <<next, whole>>

DecodeConfirmed == Decode("confirmed")
DecodeGradido == Decode("transaction")
DecodeBody == Decode("body")

(* The compact role makes the transaction, resets the arena and decodes    *)
(* the body bytes it has just read                                         *)
DecodeCompact ==
    /\ Converted /\ role = "compact" /\ whole
    /\ \/ /\ Decodes(role)
          /\ result' = "part" /\ pc' = "convertBody" /\ next' = 1
          /\ arena' = [arena EXCEPT !.used = 0]
          /\ UNCHANGED <<job, role, call, whole, mType>>
       \/ /\ EndCall("thrown") /\ UNCHANGED <<next, whole, result>>

DecodeCompactBody ==
    /\ pc = "convertBody" /\ next > Len(Pieces) /\ whole
    /\ \/ result' = "whole" /\ EndCall("success")
       \/ UNCHANGED result /\ EndCall("thrown")
    /\ UNCHANGED <<next, whole>>

(***************************************************************************)
(* GrduStaticBuffer::use                                                   *)
(***************************************************************************)
(* Fault: only the result of the call is looked at. *)
OverflowedByResult == pc = "outOfMemory"

Overflowed == arena.overflow > 0 \/ pc = "outOfMemory"

SecondSize == RoundUp((BufferSize(role) + arena.overflow) * 2)

CallEnded == pc \in {"success", "outOfMemory"}

Retry ==
    /\ CallEnded /\ Overflowed /\ call = 1 /\ SecondSize <= MaxAlloc
    /\ arena' = Arena(SecondSize)
    /\ call' = 2 /\ next' = 1 /\ whole' = TRUE /\ pc' = "convert"
    /\ UNCHANGED <<job, role, result, mType>>

(* The memory that would be needed is too large, or was not enough again *)
GiveUp ==
    /\ CallEnded /\ Overflowed /\ (call = 2 \/ SecondSize > MaxAlloc)
    /\ arena' = IF call = 2 THEN Arena(BufferSize(role)) ELSE arena
    /\ pc' = "thrown"
    /\ UNCHANGED <<job, role, call, next, whole, result, mType>>

Return ==
    /\ CallEnded /\ ~Overflowed
    /\ arena' = Arena(BufferSize(role))
    /\ pc' = "returned"
    /\ UNCHANGED <<job, role, call, next, whole, result, mType>>

(***************************************************************************)
(* deserialize::Context::run(communityIdIndex): one role after the other   *)
(***************************************************************************)
Begin(r) ==
    /\ role' = r /\ arena' = Arena(BufferSize(r)) /\ call' = 1 /\ next' = 1 /\ whole' = TRUE
    /\ result' = None /\ pc' = "convert"

After(r) == CASE r = "compact" -> "transaction" [] r = "transaction" -> "body"
              [] r = "body" -> "confirmed" [] r = "confirmed" -> "none"
(* A confirmed transaction is tried whatever the type is by then. *)
Tried(r, type) == \/ r = "confirmed"
                  \/ type = r
                  \/ type = "unknown" /\ r \in {"transaction", "body"}
FirstRole(type) == IF type = "compact" THEN "compact"
                   ELSE IF Tried("transaction", type) THEN "transaction"
                   ELSE IF Tried("body", type) THEN "body" ELSE "confirmed"

Start ==
    /\ pc = "start"
    /\ IF job.kind \in SerializeRoles THEN Begin(job.kind) ELSE Begin(FirstRole(mType))
    /\ UNCHANGED <<job, mType>>

Answered ==
    /\ pc = "returned" /\ ~Writes
    /\ mType' = role /\ pc' = "done"
    /\ UNCHANGED <<job, role, arena, call, next, whole, result>>

(* The exception is caught, the type is unknown, and the next one is tried *)
Failed ==
    /\ pc = "thrown" /\ ~Writes
    /\ mType' = "unknown"
    /\ IF role = "confirmed"
       THEN pc' = "done" /\ UNCHANGED <<role, arena, call, next, whole, result>>
       ELSE Begin(After(role))
    /\ UNCHANGED job

Init ==
    /\ \/ \E w \in Writings : job = [kind |-> w.by, parts |-> w.parts, out |-> w.out,
                                     extra |-> w.extra, body |-> << >>] /\ mType = "unknown"
       \/ \E r \in Readings : job = [kind |-> r.kind, parts |-> r.parts, out |-> 0,
                                     extra |-> 0, body |-> r.body] /\ mType \in Hints
    /\ role = "none" /\ arena = Arena(LargeBuffer) /\ call = 1 /\ next = 1 /\ whole = TRUE
    /\ result = None /\ pc = "start"

Next == \/ Start \/ NextPart \/ EncodeConfirmed \/ EncodeTransaction \/ EncodeBody \/ EncodeAgain
        \/ DecodeConfirmed \/ DecodeGradido \/ DecodeBody \/ DecodeCompact \/ DecodeCompactBody
        \/ Retry \/ GiveUp \/ Return \/ Answered \/ Failed

Spec == Init /\ [][Next]_vars

-----------------------------------------------------------------------------
Need(parts) == MapThenSumSet(LAMBDA i : RoundUp(parts[i].size), DOMAIN parts)

(* The arena a writing needs: its parts and what one or two encodes take. *)
WritingNeed ==
    Need(job.parts) + RoundUp(job.extra) * IF job.out > BufferSize(role) THEN 2 ELSE 1

(* An object is handed out only when every part of it was converted: an    *)
(* arena that overflowed in a call that reported success, or the bytes of  *)
(* the first of two decodings, never reach the caller.                     *)
ResultWhole ==
    /\ pc = "returned" => result = "whole"
    /\ pc = "done" /\ mType # "unknown" => result = "whole" /\ Decodes(mType)

(* The second arena suffices for everything up to twice the fixed one,     *)
(* although the overflow it is computed from stops counting where the      *)
(* first call gave up and the second encode comes on top: no such object   *)
(* is refused for its size.                                                *)
TwiceSuffices ==
    pc = "outOfMemory" /\ call = 2 =>
        \/ Writes /\ WritingNeed > 2 * BufferSize(role)
        \/ ~Writes /\ \E parts \in {job.parts, job.body} : Need(parts) > 2 * BufferSize(role)

(* A writing is refused only for bytes beyond the second buffer or more    *)
(* than twice the arena.                                                   *)
WritingReturns ==
    Writes /\ pc = "thrown" => job.out > DynamicOut \/ WritingNeed > 2 * BufferSize(role)

(* GrduStaticBuffer: "try, if not enough space, try again with dynamic     *)
(* allocator".  Not so of a part that is copied at once.                   *)
TriesAgain == pc # "crashed"
=============================================================================
