---------------------------- MODULE BatchVerify ----------------------------
(***************************************************************************)
(* verifySignatures of blockchain/batch: a master reads the transactions   *)
(* of a filter page by page into a queue, workers take batches from it and *)
(* verify them.  One mutex guards the queue and the list of invalid        *)
(* numbers; the workers wait for the master on one condition variable and  *)
(* the master for the workers on another; done is set outside the mutex.   *)
(*                                                                         *)
(* A region between lock and unlock is one step, except where a thread     *)
(* has evaluated the condition of a wait and has not gone to sleep yet: it *)
(* holds the mutex then, but done may change.  The blockchain may grow     *)
(* while the verification runs.                                            *)
(***************************************************************************)
EXTENDS Naturals, Sequences

CONSTANTS Hardware,   \* hardware_concurrency
          Policies,   \* the values of ThreadingPolicy that are tried
          Directions, \* search directions that are tried
          Start,      \* transactions on the blockchain at the call
          MaxGrow,    \* bound: transactions added during the call
          Bad,        \* numbers of transactions with a wrong signature
          PageSize,   \* filter.pagination.size, 100 by default
          BatchSize   \* 500

ASSUME NumberAssumption ==
    /\ Hardware \in Nat /\ Start \in Nat /\ MaxGrow \in Nat
    /\ PageSize \in Nat \ {0} /\ BatchSize \in Nat \ {0}
    /\ Bad \subseteq Nat
    /\ Policies \subseteq {"single", "quarter", "half", "threequarter", "all", "allexceptone"}
    /\ Directions \subseteq {"ASC", "DESC"}

VARIABLES threads,   \* number of worker threads
          direction, \* of the filter
          size,      \* transactions on the blockchain
          page,      \* next page
          got,       \* the page that was read
          queue,     \* transactionQueue
          done,      \* atomic<bool>
          mpc,       \* where the master is
          wpc,       \* where each worker is
          batch,     \* what each worker has taken
          invalid,   \* invalidTxNrs
          verified   \* transactions that were verified

vars == <<threads, direction, size, page, got, queue, done, mpc, wpc, batch, invalid, verified>>

Largest(a, b) == IF a > b THEN a ELSE b
Pick(n, s) == SubSeq(s, 1, n)
Leave(n, s) == SubSeq(s, n + 1, Len(s))

(***************************************************************************)
(* resolveThreadCount.                                                     *)
(***************************************************************************)
ThreadCount(policy) ==
    IF Hardware = 0 THEN 1 ELSE
    CASE policy = "single" -> 1
      [] policy = "quarter" -> Largest(1, Hardware \div 4)
      [] policy = "half" -> Largest(1, Hardware \div 2)
      [] policy = "threequarter" -> Largest(1, (Hardware * 3) \div 4)
      [] policy = "all" -> Hardware
      [] OTHER -> IF Hardware > 1 THEN Hardware - 1 ELSE 1

MaxThreads == Largest(1, Hardware)
Workers == 1 .. MaxThreads
QueueSize == BatchSize * (threads + 1)

(***************************************************************************)
(* Blockchain::findAll: the numbers at the places of a page, from the      *)
(* first or from the last transaction on.  For pages of two the index      *)
(* gives the first and the last number of the page, also where they are    *)
(* the same.                                                               *)
(***************************************************************************)
Before == (page - 1) * PageSize  \* places of the pages that were read
PageLength == IF size <= Before THEN 0
              ELSE IF size - Before < PageSize THEN size - Before ELSE PageSize
NumberAt(place) == IF direction = "ASC" THEN place ELSE size + 1 - place
OnPage == [i \in 1 .. PageLength |-> NumberAt(Before + i)]
Repeats == PageSize = 2 /\ PageLength = 1 /\ size # 1
FindAll == IF Repeats THEN OnPage \o OnPage ELSE OnPage

\* A worker that is about to sleep holds the mutex.
MutexFree == \A w \in Workers : wpc[w] # "blocking"

-----------------------------------------------------------------------------
(* The master. *)

\* while (transactionQueue.size() < queueSize)
CheckSize ==
    /\ mpc = "size" /\ MutexFree
    /\ mpc' = IF Len(queue) < QueueSize THEN "find" ELSE "all"
    /\ UNCHANGED <<threads, direction, size, page, got, queue, done, wpc, batch, invalid, verified>>

\* findAll without the mutex; an empty page sets done, still without it.
Find ==
    /\ mpc = "find"
    /\ IF PageLength = 0 THEN done' = TRUE /\ mpc' = "lock" /\ UNCHANGED got
       ELSE mpc' = "push" /\ got' = FindAll /\ UNCHANGED done
    /\ UNCHANGED <<threads, direction, size, page, queue, wpc, batch, invalid, verified>>

PushPage ==
    /\ mpc = "push" /\ MutexFree
    /\ queue' = queue \o got /\ got' = <<>>
    /\ mpc' = "one"
    /\ UNCHANGED <<threads, direction, size, page, done, wpc, batch, invalid, verified>>

\* cvMasterWorker.notify_one wakes one of the sleepers, if there is any.
NotifyOne ==
    /\ mpc = "one"
    /\ IF \E w \in Workers : wpc[w] = "asleep"
       THEN \E w \in Workers : wpc[w] = "asleep" /\ wpc' = [wpc EXCEPT ![w] = "test"]
       ELSE UNCHANGED wpc
    /\ page' = page + 1
    /\ mpc' = "size"
    /\ UNCHANGED <<threads, direction, size, got, queue, done, batch, invalid, verified>>

\* Fault: done is announced without taking the mutex first.
LockAfterDoneNot ==
    /\ mpc = "lock"
    /\ mpc' = "all"
    /\ UNCHANGED <<threads, direction, size, page, got, queue, done, wpc, batch, invalid, verified>>

\* The lock after done makes sure that nobody is between test and sleep.
LockAfterDone ==
    /\ mpc = "lock" /\ MutexFree
    /\ mpc' = "all"
    /\ UNCHANGED <<threads, direction, size, page, got, queue, done, wpc, batch, invalid, verified>>

NotifyAll ==
    /\ mpc = "all"
    /\ wpc' = [w \in Workers |-> IF wpc[w] = "asleep" THEN "test" ELSE wpc[w]]
    /\ mpc' = IF done THEN "join" ELSE "wait"
    /\ UNCHANGED <<threads, direction, size, page, got, queue, done, batch, invalid, verified>>

MasterWait ==
    /\ mpc = "wait" /\ MutexFree
    /\ mpc' = IF Len(queue) < QueueSize THEN "size" ELSE "asleep"
    /\ UNCHANGED <<threads, direction, size, page, got, queue, done, wpc, batch, invalid, verified>>

Join ==
    /\ mpc = "join"
    /\ \A w \in Workers : wpc[w] = "exited"
    /\ mpc' = "returned"
    /\ UNCHANGED <<threads, direction, size, page, got, queue, done, wpc, batch, invalid, verified>>

-----------------------------------------------------------------------------
(* A worker. *)

BatchLength == IF Len(queue) < BatchSize THEN Len(queue) ELSE BatchSize

Take(w) ==
    /\ batch' = [batch EXCEPT ![w] = Pick(BatchLength, queue)]
    /\ queue' = Leave(BatchLength, queue)
    /\ wpc' = [wpc EXCEPT ![w] = "verify"]

Look(w) ==
    /\ wpc[w] = "start" /\ MutexFree
    /\ IF queue = <<>> THEN wpc' = [wpc EXCEPT ![w] = "notify"] /\ UNCHANGED <<queue, batch>>
       ELSE Take(w)
    /\ UNCHANGED <<threads, direction, size, page, got, done, mpc, invalid, verified>>

\* cvWorkerMaster.notify_one, without the mutex.
NotifyMaster(w) ==
    /\ wpc[w] = "notify"
    /\ mpc' = IF mpc = "asleep" THEN "wait" ELSE mpc
    /\ wpc' = [wpc EXCEPT ![w] = "test"]
    /\ UNCHANGED <<threads, direction, size, page, got, queue, done, batch, invalid, verified>>

\* Fault: done alone ends a worker.
TestDoneFirst(w) ==
    /\ wpc[w] = "test" /\ MutexFree
    /\ IF done THEN wpc' = [wpc EXCEPT ![w] = "exited"] /\ UNCHANGED <<queue, batch>>
       ELSE IF queue # <<>> THEN Take(w)
       ELSE wpc' = [wpc EXCEPT ![w] = "blocking"] /\ UNCHANGED <<queue, batch>>
    /\ UNCHANGED <<threads, direction, size, page, got, done, mpc, invalid, verified>>

\* The condition of cvMasterWorker.wait and what follows when it is true.
Test(w) ==
    /\ wpc[w] = "test" /\ MutexFree
    /\ IF queue # <<>> THEN Take(w)
       ELSE /\ wpc' = [wpc EXCEPT ![w] = IF done THEN "exited" ELSE "blocking"]
            /\ UNCHANGED <<queue, batch>>
    /\ UNCHANGED <<threads, direction, size, page, got, done, mpc, invalid, verified>>

Sleep(w) ==
    /\ wpc[w] = "blocking"
    /\ wpc' = [wpc EXCEPT ![w] = "asleep"]
    /\ UNCHANGED <<threads, direction, size, page, got, queue, done, mpc, batch, invalid, verified>>

\* Fault: invalid numbers are entered without the mutex and may get lost.
VerifyUnlocked(w) ==
    /\ wpc[w] = "verify" /\ batch[w] # <<>>
    /\ LET t == Head(batch[w]) IN
       /\ IF t \in Bad
          THEN invalid' \in {Append(invalid, t)} \union
                 (IF \E v \in Workers \ {w} : wpc[v] = "verify" THEN {invalid} ELSE {})
          ELSE UNCHANGED invalid
       /\ verified' = verified \union {t}
    /\ batch' = [batch EXCEPT ![w] = Tail(batch[w])]
    /\ UNCHANGED <<threads, direction, size, page, got, queue, done, mpc, wpc>>

\* The signatures of a transaction are verified without the mutex; it is
\* taken to enter the number of an invalid one.
Verify(w) ==
    /\ wpc[w] = "verify" /\ batch[w] # <<>>
    /\ LET t == Head(batch[w]) IN
       /\ IF t \in Bad THEN MutexFree /\ invalid' = Append(invalid, t) ELSE UNCHANGED invalid
       /\ verified' = verified \union {t}
    /\ batch' = [batch EXCEPT ![w] = Tail(batch[w])]
    /\ UNCHANGED <<threads, direction, size, page, got, queue, done, mpc, wpc>>

BatchDone(w) ==
    /\ wpc[w] = "verify" /\ batch[w] = <<>>
    /\ wpc' = [wpc EXCEPT ![w] = "start"]
    /\ UNCHANGED <<threads, direction, size, page, got, queue, done, mpc, batch, invalid, verified>>

-----------------------------------------------------------------------------
(* The system around. *)

\* Condition variables may wake up for no reason.
Spurious ==
    /\ \/ mpc = "asleep" /\ mpc' = "wait" /\ UNCHANGED wpc
       \/ \E w \in Workers : wpc[w] = "asleep" /\ wpc' = [wpc EXCEPT ![w] = "test"] /\ UNCHANGED mpc
    /\ UNCHANGED <<threads, direction, size, page, got, queue, done, batch, invalid, verified>>

\* A transaction is confirmed during the call.
Grow ==
    /\ size < Start + MaxGrow /\ mpc # "returned"
    /\ size' = size + 1
    /\ UNCHANGED <<threads, direction, page, got, queue, done, mpc, wpc, batch, invalid, verified>>

\* The caller has the result.
Returned == mpc = "returned" /\ UNCHANGED vars

Init ==
    /\ threads \in {ThreadCount(p) : p \in Policies}
    /\ direction \in Directions
    /\ size = Start /\ page = 1 /\ got = <<>> /\ queue = <<>> /\ done = FALSE
    /\ mpc = "size"
    /\ wpc = [w \in Workers |-> IF w <= threads THEN "start" ELSE "exited"]
    /\ batch = [w \in Workers |-> <<>>]
    /\ invalid = <<>> /\ verified = {}

Master == CheckSize \/ Find \/ PushPage \/ NotifyOne \/ LockAfterDone \/ NotifyAll
          \/ MasterWait \/ Join
Worker(w) == Look(w) \/ NotifyMaster(w) \/ Test(w) \/ Sleep(w) \/ Verify(w) \/ BatchDone(w)
Next == Master \/ (\E w \in Workers : Worker(w)) \/ Spurious \/ Grow \/ Returned

Spec == Init /\ [][Next]_vars

(***************************************************************************)
(* Every thread that can run runs, and a mutex that is free again and      *)
(* again is acquired at some time; wake-ups for no reason and growth are   *)
(* not assumed to happen.                                                  *)
(***************************************************************************)
FairSpec == Spec /\ SF_vars(Master) /\ \A w \in Workers : SF_vars(Worker(w))

-----------------------------------------------------------------------------
Elements(s) == {s[i] : i \in DOMAIN s}
Held(t) ==
    \/ t \in Elements(got) \/ t \in Elements(queue) \/ t \in verified
    \/ \E w \in Workers : t \in Elements(batch[w])

(***************************************************************************)
(* Types: where the master and each worker of verifySignatures are.        *)
(***************************************************************************)
TypeOK ==
    /\ threads \in Workers /\ direction \in {"ASC", "DESC"}
    /\ size \in Nat /\ size >= Start /\ page \in Nat \ {0}
    /\ got \in Seq(Nat) /\ queue \in Seq(Nat) /\ invalid \in Seq(Nat)
    /\ done \in BOOLEAN /\ verified \subseteq Nat
    /\ mpc \in {"size", "find", "push", "one", "lock", "all", "wait", "asleep", "join", "returned"}
    /\ wpc \in [Workers -> {"start", "notify", "test", "blocking", "asleep", "verify", "exited"}]
    /\ batch \in [Workers -> Seq(Nat)]

(***************************************************************************)
(* When verifySignatures returns, every transaction that was on the        *)
(* blockchain when it was called has been verified, whatever the number of *)
(* threads, the order of wake-ups and the transactions added meanwhile.    *)
(***************************************************************************)
ReturnedVerified == mpc = "returned" => \A t \in 1 .. Start : t \in verified

(***************************************************************************)
(* The pages that are read have no number in common and none twice: they   *)
(* are counted from the beginning or the blockchain does not grow, and no  *)
(* page of two holds one transaction only.                                 *)
(***************************************************************************)
Still ==
    /\ direction = "ASC" \/ size = Start
    /\ PageSize = 2 => size = Start /\ Start % 2 = 0

(***************************************************************************)
(* The numbers returned are those of the verified transactions with a      *)
(* wrong signature, each as often as the pages give it: none twice, unless *)
(* pages counted from the end move because the blockchain grows, or a page *)
(* of two repeats its only transaction                                     *)
(* (TransactionsIndexRoaringBitmaps.cpp:134, 147).                         *)
(***************************************************************************)
ReturnedInvalid ==
    /\ mpc = "returned" => Elements(invalid) = Bad \intersect verified
    /\ Still => \A i, j \in DOMAIN invalid : invalid[i] = invalid[j] => i = j

(***************************************************************************)
(* The call returns: master and workers never wait for each other.         *)
(***************************************************************************)
Returns == <>(mpc = "returned")
=============================================================================
