----------------------------- MODULE Container -----------------------------
(***************************************************************************)
(* MultithreadContainer, a recursive mutex with lock, tryLock and unlock,  *)
(* and MultithreadQueue, whose methods each hold the mutex in a guard.     *)
(*                                                                         *)
(* lock tries, sleeps and counts down five times and throws a time-out     *)
(* when the counter is used up.  The guard of a method blocks.  Inside it  *)
(* a method reads the queue and writes it in two steps, so that two        *)
(* threads inside at once would lose a value.  empty and size change       *)
(* nothing.  The name lock notes for its exception is cleared by unlock    *)
(* after the mutex is free.                                                *)
(***************************************************************************)
EXTENDS Integers, Sequences, FiniteSets

CONSTANTS
    Threads, Values,
    NoValue, NoThread,
    MaxCalls      \* bound: the calls of a thread

\* "no thread" is not a thread.
ASSUME NoThreadAssumption == NoThread \notin Threads

ExitCounter == 5   \* exitCounter of lock

VARIABLES
    owner, depth,     \* mWorkMutex
    last,             \* mLastSucceededLock: the thread whose lock wrote it
    queue,            \* the queue
    answers,          \* what the pops answered
    thread,           \* the call of each thread
    locks,            \* how many locks of a thread its caller has to undo
    calls             \* the calls a thread has made

vars == <<owner, depth, last, queue, answers, thread, locks, calls>>
mutex == <<owner, depth>>

Idle == [pc |-> "idle"]

Init ==
    /\ owner = NoThread /\ depth = 0 /\ last = NoThread
    /\ queue = <<>> /\ answers = <<>>
    /\ thread = [t \in Threads |-> Idle]
    /\ locks = [t \in Threads |-> 0]
    /\ calls = [t \in Threads |-> 0]

\* std::recursive_mutex: the owner may take it again.
Free(t) == owner \in {NoThread, t}

Acquire(t) == owner' = t /\ depth' = depth + 1

Release == depth' = depth - 1 /\ owner' = IF depth = 1 THEN NoThread ELSE owner

Goto(t, call) == thread' = [thread EXCEPT ![t] = call]

Call(t, call) ==
    /\ thread[t] = Idle /\ calls[t] < MaxCalls
    /\ calls' = [calls EXCEPT ![t] = @ + 1]
    /\ Goto(t, call)

-----------------------------------------------------------------------------
(* lock, tryLock, unlock *)

BeginLock(t) ==
    /\ Call(t, [pc |-> "lock", counter |-> ExitCounter])
    /\ UNCHANGED <<mutex, last, queue, answers, locks>>

\* try_lock failed: sleep and count down.
Wait(t) ==
    /\ thread[t].pc = "lock" /\ ~Free(t) /\ thread[t].counter > 0
    /\ Goto(t, [pc |-> "lock", counter |-> thread[t].counter - 1])
    /\ UNCHANGED <<mutex, last, queue, answers, locks, calls>>

Locked(t) ==
    /\ thread[t].pc = "lock" /\ Free(t) /\ thread[t].counter > 0
    /\ Acquire(t)
    /\ last' = t
    /\ locks' = [locks EXCEPT ![t] = @ + 1]
    /\ Goto(t, Idle)
    /\ UNCHANGED <<queue, answers, calls>>

\* The counter is used up: lock throws, whether its last try_lock succeeded or not.
Timeout(t) ==
    /\ thread[t].pc = "lock" /\ thread[t].counter = 0
    /\ IF Free(t) THEN Acquire(t) ELSE UNCHANGED mutex
    /\ Goto(t, Idle)
    /\ UNCHANGED <<last, queue, answers, locks, calls>>

TryLock(t) ==
    /\ Call(t, Idle)
    /\ IF Free(t) THEN Acquire(t) /\ locks' = [locks EXCEPT ![t] = @ + 1]
                  ELSE UNCHANGED <<mutex, locks>>
    /\ UNCHANGED <<last, queue, answers>>

Unlock(t) ==
    /\ thread[t] = Idle /\ locks[t] > 0
    /\ Release
    /\ locks' = [locks EXCEPT ![t] = @ - 1]
    /\ Goto(t, [pc |-> "unlocked"])
    /\ UNCHANGED <<last, queue, answers, calls>>

ClearLast(t) ==
    /\ thread[t].pc = "unlocked"
    /\ last' = NoThread
    /\ Goto(t, Idle)
    /\ UNCHANGED <<mutex, queue, answers, locks, calls>>

-----------------------------------------------------------------------------
(* The methods of the queue *)

Ops == {[op |-> "push", val |-> v] : v \in Values} \union {[op |-> "pop"], [op |-> "clear"]}

BeginOp(t, op) ==
    /\ Call(t, [pc |-> "guard", op |-> op])
    /\ UNCHANGED <<mutex, last, queue, answers, locks>>

\* Fault: the guard is one of readers, which lets others in.
EnterShared(t) ==
    /\ thread[t].pc = "guard"
    /\ depth' = depth + 1 /\ owner' = IF depth = 0 THEN t ELSE owner
    /\ Goto(t, [pc |-> "inside", op |-> thread[t].op, seen |-> queue])
    /\ UNCHANGED <<last, queue, answers, locks, calls>>

\* LOCK_RECURSIVE, and the queue is read.
Enter(t) ==
    /\ thread[t].pc = "guard" /\ Free(t)
    /\ Acquire(t)
    /\ Goto(t, [pc |-> "inside", op |-> thread[t].op, seen |-> queue])
    /\ UNCHANGED <<last, queue, answers, locks, calls>>

After(op, q) ==
    CASE op.op = "push" -> Append(q, op.val)
      [] op.op = "pop" -> IF q = <<>> THEN q ELSE Tail(q)
      [] op.op = "clear" -> <<>>

Apply(t) ==
    LET op == thread[t].op   q == thread[t].seen
    IN  /\ thread[t].pc = "inside"
        /\ queue' = After(op, q)
        /\ answers' = IF op.op = "pop" THEN Append(answers, IF q = <<>> THEN NoValue ELSE Head(q))
                                       ELSE answers
        /\ Goto(t, [pc |-> "leave"])
        /\ UNCHANGED <<mutex, last, locks, calls>>

\* Fault: the guard is not released when the method returns.
LeaveHeld(t) ==
    /\ thread[t].pc = "leave"
    /\ Goto(t, Idle)
    /\ UNCHANGED <<mutex, last, queue, answers, locks, calls>>

Leave(t) ==
    /\ thread[t].pc = "leave"
    /\ Release
    /\ Goto(t, Idle)
    /\ UNCHANGED <<last, queue, answers, locks, calls>>

Methods(t) == Enter(t) \/ Apply(t) \/ Leave(t)

Next ==
    \E t \in Threads :
        \/ BeginLock(t) \/ Wait(t) \/ Locked(t) \/ Timeout(t) \/ TryLock(t) \/ Unlock(t) \/ ClearLast(t)
        \/ Methods(t)
        \/ \E op \in Ops : BeginOp(t, op)

Spec == Init /\ [][Next]_vars

\* A queue inherits the container protected, so its users only have the methods.
QueueNext == \E t \in Threads : Methods(t) \/ \E op \in Ops : BeginOp(t, op)

\* A thread inside a method runs on; a mutex that is free is given to someone who waits.
QueueOnlySpec == Init /\ [][QueueNext]_vars /\ \A t \in Threads : WF_vars(Methods(t))

-----------------------------------------------------------------------------
(* Properties *)

\* Types; the mutex counts the locks of its owner.
TypeOK ==
    /\ owner \in Threads \union {NoThread} /\ depth \in Nat /\ (depth = 0 <=> owner = NoThread)
    /\ queue \in Seq(Values) /\ answers \in Seq(Values \union {NoValue})
    /\ \A t \in Threads : locks[t] > 0 => owner = t /\ depth >= locks[t]

\* MultithreadQueue is a queue: the calls of several threads take effect one after the other.
Fifo == INSTANCE FifoQueue
FifoSpec == Fifo!Spec

\* A call that waits for the mutex is answered, when every thread makes finitely many calls.
EveryCallReturns == \A t \in Threads : (thread[t] # Idle) ~> (thread[t] = Idle)

\* A thread that was told of a time-out, or that has undone its locks, does not hold the mutex: the
\* exception says that the lock timed out, so nobody unlocks it.
TimedOutHoldsNothing ==
    \A t \in Threads : thread[t] = Idle /\ locks[t] = 0 => owner # t
=============================================================================
