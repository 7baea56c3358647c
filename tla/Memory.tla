------------------------------- MODULE Memory -------------------------------
(***************************************************************************)
(* The memory manager: memory::Block, the owner of a buffer, and           *)
(* memory::Manager, which keeps the buffers that were released in one      *)
(* stack per bucket size and hands them out again.  The manager is shared  *)
(* by all threads, a Block belongs to the thread that uses it.             *)
(*                                                                         *)
(* A step of a thread ends where the mutex of a stack is taken or given    *)
(* back: taking a buffer from the stack and clearing it are two steps.     *)
(***************************************************************************)
EXTENDS Integers, Sequences, FiniteSets, SequencesExt

CONSTANTS
    Users, Names,        \* the threads; every thread has one Block of each name
    Addresses,           \* where malloc may place a buffer
    Buckets,             \* kBuckets, ascending
    MaxCount,            \* MEMORY_MANAGER_MEMORY_PAGE_STACK_MAX_COUNT_*
    Sizes,               \* the sizes a program asks for
    Contents,            \* what a program writes into a buffer
    Zero,                \* the content of a cleared buffer
    Junk,                \* what malloc leaves in a new buffer
    nullptr

BucketsAscend ==
    \A i \in DOMAIN Buckets : \A j \in DOMAIN Buckets : i < j => Buckets[i] < Buckets[j]
ContentsDiffer == Zero \notin Contents /\ Junk \notin Contents \cup {Zero}

Objects == Users \X Names
Values == Contents \cup {Zero, Junk}

\* A buffer for a Block: what getBlock is asked for, and the buffer once it has one.
Work == [object : Objects, size : Sizes, content : Values, data : Addresses \cup {nullptr}]

ParametersAssumption ==
    /\ Buckets \in Seq(Nat) /\ BucketsAscend /\ Sizes \subseteq Nat /\ MaxCount \in Nat
    /\ nullptr \notin Addresses /\ nullptr \notin Work

VARIABLES
    block,       \* the Blocks: size, data, and the content the program expects
    pending,     \* what a thread still has to do for the Block it changes
    stacks,      \* mBlockStacks, the last element is the top
    heap         \* the buffers malloc gave out, with their capacity and content

memoryVars == <<block, pending, stacks, heap>>

Absent == [size |-> 0, data |-> nullptr, live |-> FALSE, expected |-> Zero]
Empty == [Absent EXCEPT !.live = TRUE]

BucketOf(size) ==
    IF \E i \in DOMAIN Buckets : size <= Buckets[i]
    THEN CHOOSE i \in DOMAIN Buckets :
            size <= Buckets[i] /\ \A j \in DOMAIN Buckets : size <= Buckets[j] => i <= j
    ELSE -1

Capacity(size) == IF BucketOf(size) < 0 THEN size ELSE Buckets[BucketOf(size)]

Allocated == DOMAIN heap
Malloc(a, capacity) == heap' = [x \in Allocated \cup {a} |->
    IF x = a THEN [capacity |-> capacity, content |-> Junk] ELSE heap[x]]
Free(h, a) == [x \in DOMAIN h \ {a} |-> h[x]]

(* BlockStack::releaseBlock, under the mutex of the stack *)
PushOrFree(i, a) ==
    IF Len(stacks[i]) > MaxCount
    THEN heap' = Free(heap, a) /\ UNCHANGED stacks
    ELSE stacks' = [stacks EXCEPT ![i] = Append(@, a)] /\ UNCHANGED heap

(* Manager::releaseBlock *)
ReleaseBlock(size, a) ==
    IF size = 0 THEN UNCHANGED <<stacks, heap>>
    ELSE IF BucketOf(size) < 0 THEN heap' = Free(heap, a) /\ UNCHANGED stacks
    ELSE PushOrFree(BucketOf(size), a)

(* Block::clear: the buffer is given back, the Block is then empty *)
BlockClear(o) ==
    IF block[o].data = nullptr THEN UNCHANGED <<stacks, heap>>
    ELSE ReleaseBlock(block[o].size, block[o].data)

(***************************************************************************)
(* Manager::getBlock, in two steps: BlockStack::getBlock pops under its    *)
(* mutex, or has malloc make a new buffer; the buffer is cleared, and the  *)
(* bytes are copied into it, after the mutex is free again.  A size beyond *)
(* the largest bucket always comes from malloc.                            *)
(***************************************************************************)
Begin(t, o, size, content) ==
    pending' = [pending EXCEPT ![t] =
        [object |-> o, size |-> size, content |-> content, data |-> nullptr]]

TakeBuffer(t) ==
    LET p == pending[t] i == BucketOf(p.size) IN
    IF i > 0 /\ stacks[i] # << >>
    THEN /\ pending' = [pending EXCEPT ![t].data = Last(stacks[i])]
         /\ stacks' = [stacks EXCEPT ![i] = Front(@)]
         /\ UNCHANGED heap
    ELSE \E a \in Addresses \ Allocated :
            /\ Malloc(a, Capacity(p.size))
            /\ pending' = [pending EXCEPT ![t].data = a]
            /\ UNCHANGED stacks

GetBlock(t) ==
    /\ pending[t] # nullptr /\ pending[t].data = nullptr
    /\ TakeBuffer(t)
    /\ UNCHANGED block

(* Fault: only the bytes the caller has are written, the buffer is not cleared. *)
WrittenOnly(old, content) == IF content = Zero THEN old ELSE content

(* memset over the whole bucket, then memcpy when there is something to copy *)
Written(old, content) == IF content = Zero THEN Zero ELSE content

Fill(t) ==
    /\ pending[t] # nullptr /\ pending[t].data # nullptr
    /\ LET p == pending[t] IN
       /\ heap' = [heap EXCEPT ![p.data].content = Written(@, p.content)]
       /\ block' = [block EXCEPT ![p.object] =
             [size |-> p.size, data |-> p.data, live |-> TRUE, expected |-> p.content]]
    /\ pending' = [pending EXCEPT ![t] = nullptr]
    /\ UNCHANGED stacks

-----------------------------------------------------------------------------
(* Block(size), Block(size, data) and the constructors from vector, span,  *)
(* string and public key, which pass their bytes on.                       *)
Construct(t, o, size, content) ==
    /\ ~block[o].live
    /\ IF size = 0 THEN block' = [block EXCEPT ![o] = Empty] /\ UNCHANGED pending
                   ELSE Begin(t, o, size, content) /\ UNCHANGED block
    /\ UNCHANGED <<stacks, heap>>

CopyConstruct(t, o, other) ==
    /\ ~block[o].live /\ block[other].live
    /\ IF block[other].size = 0
       THEN block' = [block EXCEPT ![o] = Empty] /\ UNCHANGED pending
       ELSE Begin(t, o, block[other].size, heap[block[other].data].content) /\ UNCHANGED block
    /\ UNCHANGED <<stacks, heap>>

(* The buffer changes its owner, the other Block is empty afterwards. *)
Moved(o, other) == [block EXCEPT ![o] = block[other], ![other] = Empty]

MoveConstruct(t, o, other) ==
    /\ ~block[o].live /\ block[other].live
    /\ block' = Moved(o, other)
    /\ UNCHANGED <<pending, stacks, heap>>

(* operator= gives its own buffer back before it takes another one *)
AssignClears(o) == BlockClear(o)

MoveAssign(t, o, other) ==
    /\ block[o].live /\ block[other].live /\ o # other
    /\ AssignClears(o)
    /\ block' = Moved(o, other)
    /\ UNCHANGED pending

(* A copy of an empty Block stops after the own buffer was given back. *)
CopyAssign(t, o, other) ==
    /\ block[o].live /\ block[other].live /\ o # other
    /\ AssignClears(o)
    /\ block' = [block EXCEPT ![o] = Empty]
    /\ IF block[other].size = 0 THEN UNCHANGED pending
       ELSE Begin(t, o, block[other].size, heap[block[other].data].content)

Destroy(t, o) ==
    /\ block[o].live
    /\ BlockClear(o)
    /\ block' = [block EXCEPT ![o] = Absent]
    /\ UNCHANGED pending

(* A program writes through data(), within the size it asked for. *)
Write(t, o, content) ==
    /\ block[o].live /\ block[o].data # nullptr
    /\ heap' = [heap EXCEPT ![block[o].data].content = content]
    /\ block' = [block EXCEPT ![o].expected = content]
    /\ UNCHANGED <<pending, stacks>>

MemoryInit ==
    /\ block = [o \in Objects |-> Absent]
    /\ pending = [t \in Users |-> nullptr]
    /\ stacks = [i \in DOMAIN Buckets |-> << >>]
    /\ heap = << >>

MemoryStep(t) ==
    \/ GetBlock(t)
    \/ Fill(t)
    \/ /\ pending[t] = nullptr
       /\ \E n \in Names : LET o == <<t, n>> IN
          \/ \E size \in Sizes, c \in Contents \cup {Zero} : Construct(t, o, size, c)
          \/ \E m \in Names : \/ CopyConstruct(t, o, <<t, m>>)
                              \/ MoveConstruct(t, o, <<t, m>>)
                              \/ MoveAssign(t, o, <<t, m>>)
                              \/ CopyAssign(t, o, <<t, m>>)
          \/ Destroy(t, o)
          \/ \E c \in Contents : Write(t, o, c)

MemoryNext == \E t \in Users : MemoryStep(t)

MemorySpec == MemoryInit /\ [][MemoryNext]_memoryVars

(***************************************************************************)
(* The same program may assign a Block to itself: operator= clears first,  *)
(* then reads the size it has just set to zero.                            *)
(***************************************************************************)
SelfAssign(t, o) ==
    /\ pending[t] = nullptr /\ block[o].live
    /\ BlockClear(o)
    /\ block' = [block EXCEPT ![o] = IF @.data = nullptr THEN @
                                     ELSE [@ EXCEPT !.size = 0, !.data = nullptr]]
    /\ UNCHANGED pending

SelfNext == MemoryNext \/ \E t \in Users, n \in Names : SelfAssign(t, <<t, n>>)
SelfSpec == MemoryInit /\ [][SelfNext]_memoryVars

-----------------------------------------------------------------------------
InFlight == {pending[t].data : t \in {u \in Users : pending[u] # nullptr}} \ {nullptr}
Stacked == UNION {Range(stacks[i]) : i \in DOMAIN Buckets}

(* Sizes and buffers are what they can be, and a stack holds at most one   *)
(* buffer more than its limit (BlockStack::releaseBlock compares with >).  *)
MemoryTypeOK ==
    /\ \A o \in Objects : block[o].size \in Sizes \cup {0}
                          /\ block[o].data \in Addresses \cup {nullptr}
    /\ \A i \in DOMAIN Buckets : stacks[i] \in Seq(Allocated) /\ Len(stacks[i]) <= MaxCount + 1
    /\ Allocated \subseteq Addresses
    /\ InFlight \subseteq Allocated

(* No buffer has two owners: two Blocks, a Block and a stack, two places   *)
(* of a stack, or a thread that is still filling it (Block's move and      *)
(* clear, and the stacks' mutex, are what this rests on).                  *)
OneOwner ==
    /\ \A o, p \in Objects : o # p /\ block[o].data # nullptr => block[o].data # block[p].data
    /\ \A o \in Objects : block[o].data \notin InFlight \cup Stacked
    /\ InFlight \cap Stacked = {}
    /\ \A t, u \in Users : t # u /\ pending[t] # nullptr /\ pending[u] # nullptr
                           /\ pending[t].data # nullptr => pending[t].data # pending[u].data
    /\ \A i \in DOMAIN Buckets : IsInjective(stacks[i])
    /\ \A i, j \in DOMAIN Buckets : i # j => Range(stacks[i]) \cap Range(stacks[j]) = {}

(* A Block has room for its size, and the buffers of a stack are as large  *)
(* as its bucket: a buffer is given back under the size it was taken with. *)
RoomForSize ==
    /\ \A o \in Objects : block[o].data # nullptr => heap[block[o].data].capacity >= block[o].size
    /\ \A i \in DOMAIN Buckets : \A a \in Range(stacks[i]) : heap[a].capacity = Buckets[i]
    /\ \A o \in Objects : block[o].size > 0 => block[o].data # nullptr

(* Every Block reads what its program put there last, zero bytes if it put *)
(* nothing: neither another thread nor a former owner of the buffer shows. *)
Intact ==
    \A o \in Objects : block[o].data # nullptr =>
        heap[block[o].data].content = block[o].expected

(* Every buffer malloc gave out is owned by a Block or a thread, or waits  *)
(* on a stack: none is forgotten by an assignment or a release.            *)
NoLeak == Allocated = ({block[o].data : o \in Objects} \ {nullptr}) \cup InFlight \cup Stacked

(* The buffers are sound: MemoryManager hands a buffer to one owner at a   *)
(* time, large enough, cleared, and takes it back.                         *)
BuffersSound == MemoryTypeOK /\ OneOwner /\ NoLeak /\ RoomForSize /\ Intact

(* Assigning copies (Block.h: "also copy"): a Block that has been given    *)
(* content and was not assigned an empty Block still has its bytes.        *)
AssignedKeepsContent == \A o \in Objects : block[o].expected \in Contents => block[o].size > 0

=============================================================================
