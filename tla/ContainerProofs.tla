-------------------------- MODULE ContainerProofs --------------------------
(***************************************************************************)
(* For any number of threads and calls: the methods of MultithreadQueue,   *)
(* interleaved with lock, tryLock and unlock, implement the abstract queue.*)
(* The argument: a thread inside a method owns the mutex at least once     *)
(* more than its locks (Guarded), so no other thread is inside, and what   *)
(* it read at the start is still the queue when it writes.                 *)
(*                                                                         *)
(* CachesExpireInTime: the caches keep a value for its time-out and no     *)
(* longer than to the next add.  OneEntry is what the first half needs: a  *)
(* key that clients do not remove has no entry left of an older value.     *)
(*                                                                         *)
(* ListImplementsMap: the sorted array of DRHashList implements a map.  A  *)
(* search keeps the items before its window below the hash and those       *)
(* behind it above (Searching); when it misses, the place of the hash is   *)
(* that of the last probe or the next (Missed), where addByHash opens the  *)
(* gap and removeByHash closes one.                                        *)
(***************************************************************************)
EXTENDS Container, ExpireCache, HashList, TLAPS

\* The calls a thread may be in.
CallStates ==
    {Idle} \union [pc : {"lock"}, counter : 0 .. ExitCounter] \union [pc : {"unlocked", "leave"}]
    \union [pc : {"guard"}, op : Ops] \union [pc : {"inside"}, op : Ops, seen : Seq(Values)]

InMethod(t) == thread[t].pc \in {"inside", "leave"}

\* The types the proof needs.
Types ==
    /\ owner \in Threads \union {NoThread} /\ depth \in Nat
    /\ queue \in Seq(Values)
    /\ thread \in [Threads -> CallStates]
    /\ locks \in [Threads -> Nat]

\* A thread has the mutex once for each of its locks and once more inside a method, and what it
\* read there is the queue.
Guarded ==
    /\ \A t \in Threads : locks[t] > 0 => owner = t /\ depth >= locks[t]
    /\ \A t \in Threads : InMethod(t) => owner = t /\ depth >= locks[t] + 1
    /\ \A t \in Threads : thread[t].pc = "inside" => thread[t].seen = queue

IInv == Types /\ Guarded

-----------------------------------------------------------------------------
\* The queue a method leaves is a sequence of values.
LEMMA AfterType == \A op \in Ops, q \in Seq(Values) : After(op, q) \in Seq(Values)
  BY DEF Ops, After

\* The mutex is free and nobody is in a call at the start.
LEMMA InitInv == Init => IInv
  BY DEF Init, IInv, Types, Guarded, InMethod, CallStates, Idle

\* Every step keeps the invariant: a step of one thread takes, uses or gives back the mutex only
\* when no other thread owns it.
LEMMA StepInv == IInv /\ [Next]_vars => IInv'
<1> SUFFICES ASSUME IInv, [Next]_vars PROVE IInv'
  OBVIOUS
<1> USE NoThreadAssumption DEF IInv, Types, Guarded, InMethod, Idle, mutex
<1>1. CASE UNCHANGED vars
  BY <1>1 DEF vars
<1>2. ASSUME NEW t \in Threads, BeginLock(t) PROVE IInv'
  BY <1>2 DEF BeginLock, Call, Goto, CallStates, ExitCounter
<1>3. ASSUME NEW t \in Threads, Wait(t) PROVE IInv'
  BY <1>3, SMTT(40) DEF Wait, Goto, CallStates, ExitCounter
<1>4. ASSUME NEW t \in Threads, Locked(t) PROVE IInv'
  BY <1>4 DEF Locked, Free, Acquire, Goto, CallStates
<1>5. ASSUME NEW t \in Threads, Timeout(t) PROVE IInv'
  BY <1>5 DEF Timeout, Free, Acquire, Goto, CallStates
<1>6. ASSUME NEW t \in Threads, TryLock(t) PROVE IInv'
  BY <1>6 DEF TryLock, Call, Free, Acquire, Goto, CallStates
<1>7. ASSUME NEW t \in Threads, Unlock(t) PROVE IInv'
  BY <1>7 DEF Unlock, Release, Goto, CallStates
<1>8. ASSUME NEW t \in Threads, ClearLast(t) PROVE IInv'
  BY <1>8 DEF ClearLast, Goto, CallStates
<1>9. ASSUME NEW t \in Threads, Enter(t) PROVE IInv'
  BY <1>9 DEF Enter, Free, Acquire, Goto, CallStates
<1>10. ASSUME NEW t \in Threads, Apply(t) PROVE IInv'
  BY <1>10, AfterType, SMTT(40) DEF Apply, Goto, CallStates
<1>11. ASSUME NEW t \in Threads, Leave(t) PROVE IInv'
  BY <1>11 DEF Leave, Release, Goto, CallStates
<1>12. ASSUME NEW t \in Threads, NEW op \in Ops, BeginOp(t, op) PROVE IInv'
  BY <1>12 DEF BeginOp, Call, Goto, CallStates
<1>13. QED
  BY <1>1, <1>2, <1>3, <1>4, <1>5, <1>6, <1>7, <1>8, <1>9, <1>10, <1>11, <1>12 DEF Next, Methods

\* No two threads are inside a method of the queue at once, whatever lock, tryLock and unlock do.
THEOREM Exclusion == Spec => [](\A t, u \in Threads : InMethod(t) /\ InMethod(u) => t = u)
<1>1. IInv => \A t, u \in Threads : InMethod(t) /\ InMethod(u) => t = u
  BY DEF IInv, Guarded
<1>2. QED
  BY <1>1, InitInv, StepInv, PTL DEF Spec

\* MultithreadQueue implements the abstract queue.
THEOREM Implements == Spec => FifoSpec
<1>1. Init => Fifo!Init
  BY DEF Init, Fifo!Init
<1>2. IInv /\ [Next]_vars => [Fifo!Next]_<<queue, answers>>
  <2> SUFFICES ASSUME IInv, [Next]_vars, <<queue, answers>>' # <<queue, answers>> PROVE Fifo!Next
    BY Zenon
  <2>1. PICK t \in Threads : Apply(t)
    BY DEF vars, Next, Methods, BeginLock, Wait, Locked, Timeout, TryLock, Unlock, ClearLast, Enter, Leave, BeginOp
  <2> DEFINE op == thread[t].op
  <2>2. op \in Ops /\ thread[t].seen = queue
    <3>1. thread[t] \in CallStates /\ thread[t].pc = "inside" /\ thread[t].seen = queue
      BY <2>1 DEF IInv, Types, Guarded, Apply
    <3>2. ASSUME NEW x \in CallStates, x.pc = "inside" PROVE x.op \in Ops
      BY ONLY <3>2 DEF CallStates, Idle
    <3> QED
      BY ONLY <3>1, <3>2
  <2>3. CASE \E v \in Values : op = [op |-> "push", val |-> v]
    BY <2>1, <2>2, <2>3 DEF Apply, After, Fifo!Next, Fifo!Push
  <2>4. CASE op = [op |-> "pop"]
    BY <2>1, <2>2, <2>4 DEF Apply, After, Fifo!Next, Fifo!Pop
  <2>5. CASE op = [op |-> "clear"]
    BY <2>1, <2>2, <2>5 DEF Apply, After, Fifo!Next, Fifo!Clear
  <2>6. QED
    BY <2>2, <2>3, <2>4, <2>5 DEF Ops
<1>3. QED
  BY <1>1, <1>2, InitInv, StepInv, PTL DEF Spec, FifoSpec, Fifo!Spec

-----------------------------------------------------------------------------
(* The caches. *)

\* Times are numbers.
TimesAssumption == mTimeout \in Nat /\ MaxTime \in Nat

CacheTypes ==
    /\ CacheTypeOK
    /\ adding \in [Adders -> {NoAdd} \cup [at : 0 .. now, key : Keys]]

\* The key of a value that clients do not remove has one entry, at the time of the value.
OneEntry ==
    \A k \in Keys \ Removable : \A e \in DOMAIN times : e[2] = k => e[1] = values[k] /\ times[e] = 1

CacheInv == CacheTypes /\ EveryValueExpires /\ OneEntry

\* A bag with one more copy of an element.
LEMMA OneMore ==
    ASSUME NEW B, IsABag(B), NEW e
    PROVE  /\ IsABag(B (+) SetToBag({e})) /\ DOMAIN (B (+) SetToBag({e})) = DOMAIN B \cup {e}
           /\ \A d \in DOMAIN B : d # e => (B (+) SetToBag({e}))[d] = B[d]
           /\ e \notin DOMAIN B => (B (+) SetToBag({e}))[e] = 1
BY DEF IsABag, SetToBag, (+)

\* A bag with one copy less of an element.
LEMMA OneLess ==
    ASSUME NEW B, IsABag(B), NEW e \in DOMAIN B
    PROVE  /\ IsABag(B (-) SetToBag({e})) /\ DOMAIN (B (-) SetToBag({e})) \subseteq DOMAIN B
           /\ \A d \in DOMAIN B : d # e => d \in DOMAIN (B (-) SetToBag({e})) /\ (B (-) SetToBag({e}))[d] = B[d]
           /\ B[e] = 1 => e \notin DOMAIN (B (-) SetToBag({e}))
BY DEF IsABag, SetToBag, (-)

\* add: the new entry is made, then every entry older than the time-out is dropped with the value of its key.
LEMMA AddAtKeeps ==
    ASSUME TimesAssumption, CacheInv, NEW k \in Keys, NEW at \in 0 .. now, AddAt(k, at), now' = now
    PROVE  /\ values' \in [Keys -> Absent .. now'] /\ IsABag(times') /\ DOMAIN times' \subseteq (0 .. now') \X Keys
           /\ EveryValueExpires' /\ OneEntry'
           /\ \A q \in Keys : values'[q] # Absent => ~Expired(values'[q])
           /\ \A q \in (Keys \ Removable) \cap Present : values'[q] = Absent => Expired(values[q])
<1>e. PICK e : e = <<at, k>>
  OBVIOUS
<1>b. PICK tms : tms = times (+) SetToBag({e})
  OBVIOUS
<1>0. /\ now \in Nat /\ values \in [Keys -> Absent .. now] /\ IsABag(times) /\ DOMAIN times \subseteq (0 .. now) \X Keys
      /\ EveryValueExpires /\ OneEntry
  BY DEF CacheInv, CacheTypes, CacheTypeOK, TimesAssumption
<1>1. /\ values[k] = Absent /\ times' = KeptTimes(tms)
      /\ values' = [q \in Keys |-> IF q \in ExpiredKeys(tms) THEN Absent ELSE IF q = k THEN at ELSE values[q]]
  <2>1. /\ values[k] = Absent /\ times' = KeptTimes(tms)
        /\ values' = [q \in Keys |-> IF q \in ExpiredKeys(tms) THEN Absent ELSE [values EXCEPT ![k] = at][q]]
    BY <1>e, <1>b DEF AddAt
  <2> QED
    BY <2>1, <1>0
<1>2. /\ IsABag(tms) /\ DOMAIN tms = DOMAIN times \cup {e}
      /\ \A d \in DOMAIN times : d # e => tms[d] = times[d]
      /\ e \notin DOMAIN times => tms[e] = 1
  BY <1>0, <1>b, OneMore
<1>3. e[1] = at /\ e[2] = k /\ e \in (0 .. now) \X Keys
  BY <1>e
<1>4. DOMAIN tms \subseteq (0 .. now) \X Keys
  BY <1>0, <1>2, <1>3
<1>5. /\ DOMAIN times' = {d \in DOMAIN tms : ~Expired(d[1])}
      /\ \A d \in DOMAIN times' : times'[d] = tms[d]
  BY <1>1 DEF KeptTimes
<1>6. IsABag(times') /\ DOMAIN times' \subseteq (0 .. now) \X Keys
  BY <1>1, <1>2, <1>4, <1>5 DEF IsABag, KeptTimes
<1>7. values' \in [Keys -> Absent .. now]
  <2>1. Absent \in Absent .. now /\ at \in Absent .. now
    BY <1>0 DEF Absent
  <2> QED
    BY <2>1, <1>0, <1>1
<1>8. \A q \in Keys : \A v : <<v, q>> \in DOMAIN tms /\ q \notin ExpiredKeys(tms) => ~Expired(v)
  <2> SUFFICES ASSUME NEW q \in Keys, NEW v, <<v, q>> \in DOMAIN tms, Expired(v) PROVE q \in ExpiredKeys(tms)
    OBVIOUS
  <2> QED
    BY DEF ExpiredKeys
<1>9. \A q \in Keys : values'[q] # Absent => q \notin ExpiredKeys(tms) /\ <<values'[q], q>> \in DOMAIN tms
  <2> SUFFICES ASSUME NEW q \in Keys, values'[q] # Absent
               PROVE  q \notin ExpiredKeys(tms) /\ <<values'[q], q>> \in DOMAIN tms
    OBVIOUS
  <2>1. q \notin ExpiredKeys(tms)
    BY <1>1
  <2>2. CASE q = k
    BY <2>1, <2>2, <1>1, <1>2, <1>e
  <2>3. CASE q # k
    <3>1. values'[q] = values[q] /\ q \in Present
      BY <2>1, <2>3, <1>1 DEF Present
    <3> QED
      BY <2>1, <3>1, <1>0, <1>2 DEF EveryValueExpires, BagIn, BagToSet
  <2> QED
    BY <2>2, <2>3
<1>10. \A q \in Keys : values'[q] # Absent => ~Expired(values'[q]) /\ <<values'[q], q>> \in DOMAIN times'
  <2> SUFFICES ASSUME NEW q \in Keys, values'[q] # Absent
               PROVE  ~Expired(values'[q]) /\ <<values'[q], q>> \in DOMAIN times'
    OBVIOUS
  <2>1. ~Expired(values'[q]) /\ <<values'[q], q>> \in DOMAIN tms
    BY <1>8, <1>9
  <2> QED
    BY <2>1, <1>5
<1>11. EveryValueExpires'
  BY <1>10 DEF EveryValueExpires, Present, BagIn, BagToSet
<1>12. \A q \in Keys \ Removable : \A d \in DOMAIN tms :
          d[2] = q => tms[d] = 1 /\ d[1] = IF q = k THEN at ELSE values[q]
  <2> SUFFICES ASSUME NEW q \in Keys \ Removable, NEW d \in DOMAIN tms, d[2] = q
               PROVE  tms[d] = 1 /\ d[1] = IF q = k THEN at ELSE values[q]
    OBVIOUS
  <2>1. CASE d \in DOMAIN times
    <3>1. d[1] = values[q] /\ times[d] = 1 /\ d[1] \in 0 .. now
      BY <2>1, <1>0 DEF OneEntry
    <3>2. q # k
      BY <3>1, <1>1, <1>0 DEF Absent
    <3> QED
      BY <3>1, <3>2, <2>1, <1>2, <1>3
  <2>2. CASE d \notin DOMAIN times
    BY <2>2, <1>2, <1>3
  <2> QED
    BY <2>1, <2>2
<1>13. OneEntry'
  <2> SUFFICES ASSUME NEW q \in Keys \ Removable, NEW d \in DOMAIN times', d[2] = q
               PROVE  d[1] = values'[q] /\ times'[d] = 1
    BY DEF OneEntry
  <2>1. d \in DOMAIN tms /\ ~Expired(d[1]) /\ times'[d] = tms[d]
    BY <1>5
  <2>2. tms[d] = 1 /\ d[1] = IF q = k THEN at ELSE values[q]
    BY <2>1, <1>12
  <2>3. q \notin ExpiredKeys(tms)
    <3> SUFFICES ASSUME NEW c \in DOMAIN tms, Expired(c[1]), c[2] = q PROVE FALSE
      BY DEF ExpiredKeys
    <3> QED
      BY <2>1, <2>2, <1>12
  <2> QED
    BY <2>1, <2>2, <2>3, <1>1
<1>14. ASSUME NEW q \in (Keys \ Removable) \cap Present, values'[q] = Absent PROVE Expired(values[q])
  <2>1. q # k /\ values[q] # Absent
    BY <1>14, <1>1 DEF Present
  <2>2. PICK c \in DOMAIN tms : Expired(c[1]) /\ c[2] = q
    BY <1>14, <2>1, <1>1 DEF ExpiredKeys
  <2> QED
    BY <2>1, <2>2, <1>12
<1>15. now' = now /\ Expired(0)' = Expired(0)
  BY DEF Expired
<1> QED
  BY <1>6, <1>7, <1>10, <1>11, <1>13, <1>14, <1>15

\* get moves the entry of the key to the present.
LEMMA GetKeeps ==
    ASSUME TimesAssumption, CacheInv, NEW k \in Keys, Get(k)
    PROVE  CacheInv' /\ \A q \in Present : values'[q] # Absent
<1>v. PICK e, d : e = <<values[k], k>> /\ d = <<now, k>>
  OBVIOUS
<1>b. PICK B : B = times (-) SetToBag({e})
  OBVIOUS
<1>c. PICK C : C = B (+) SetToBag({d})
  OBVIOUS
<1>0. /\ now \in 0 .. MaxTime /\ now \in Nat /\ values \in [Keys -> Absent .. now]
      /\ IsABag(times) /\ DOMAIN times \subseteq (0 .. now) \X Keys
      /\ EveryValueExpires /\ OneEntry
      /\ adding \in [Adders -> {NoAdd} \cup [at : 0 .. now, key : Keys]]
  BY DEF CacheInv, CacheTypes, CacheTypeOK, TimesAssumption
<1>1. /\ e \in DOMAIN times /\ times' = C /\ values' = [values EXCEPT ![k] = now] /\ now' = now /\ adding' = adding
  BY <1>v, <1>b, <1>c DEF Get, BagIn, BagToSet
<1>2. /\ IsABag(B) /\ DOMAIN B \subseteq DOMAIN times
      /\ \A c \in DOMAIN times : c # e => c \in DOMAIN B /\ B[c] = times[c]
      /\ times[e] = 1 => e \notin DOMAIN B
  BY <1>0, <1>1, <1>b, OneLess
<1>3. /\ IsABag(C) /\ DOMAIN C = DOMAIN B \cup {d}
      /\ \A c \in DOMAIN B : c # d => C[c] = B[c]
      /\ d \notin DOMAIN B => C[d] = 1
  <2>1. IsABag(B)
    BY <1>2
  <2> QED
    BY ONLY <2>1, <1>c, OneMore
<1>4. d \in (0 .. now) \X Keys /\ d[1] = now /\ d[2] = k /\ e[1] = values[k] /\ e[2] = k
  BY <1>v, <1>0
<1>5. values' \in [Keys -> Absent .. now] /\ values'[k] = now /\ \A q \in Keys : q # k => values'[q] = values[q]
  BY <1>0, <1>1 DEF Absent
<1>6. CacheTypes'
  <2>1. DOMAIN C \subseteq (0 .. now) \X Keys
    BY <1>0, <1>2, <1>3, <1>4
  <2> QED
    BY <2>1, <1>0, <1>1, <1>3, <1>5 DEF CacheTypes, CacheTypeOK, CacheInv
<1>7. EveryValueExpires'
  <2> SUFFICES ASSUME NEW q \in Keys, values'[q] # Absent PROVE <<values'[q], q>> \in DOMAIN times'
    BY DEF EveryValueExpires, Present, BagIn, BagToSet
  <2>1. CASE q = k
    BY <2>1, <1>1, <1>3, <1>5, <1>v
  <2>2. CASE q # k
    <3>1. <<values[q], q>> \in DOMAIN times /\ <<values[q], q>> # e
      BY <2>2, <1>0, <1>5, <1>v DEF EveryValueExpires, Present, BagIn, BagToSet
    <3> QED
      BY <3>1, <2>2, <1>1, <1>2, <1>3, <1>5
  <2> QED
    BY <2>1, <2>2
<1>8. OneEntry'
  <2> SUFFICES ASSUME NEW q \in Keys \ Removable, NEW c \in DOMAIN C, c[2] = q
               PROVE  c[1] = values'[q] /\ C[c] = 1
    BY <1>1 DEF OneEntry
  <2>1. CASE q # k
    <3>1. c \in DOMAIN B /\ c # d /\ c # e /\ c \in DOMAIN times
      BY <2>1, <1>2, <1>3, <1>4
    <3>2. c[1] = values[q] /\ times[c] = 1
      BY <3>1, <1>0 DEF OneEntry
    <3> QED
      BY <3>1, <3>2, <2>1, <1>2, <1>3, <1>5
  <2>2. CASE q = k
    <3>1. \A b \in DOMAIN times : b[2] = k => b = e /\ times[b] = 1
      <4> SUFFICES ASSUME NEW b \in DOMAIN times, b[2] = k PROVE b = e /\ times[b] = 1
        OBVIOUS
      <4>1. b[1] = values[k] /\ times[b] = 1 /\ b \in (0 .. now) \X Keys
        BY <2>2, <1>0 DEF OneEntry
      <4> QED
        BY <4>1, <1>v
    <3>2. \A b \in DOMAIN B : b[2] # k
      BY <3>1, <1>1, <1>2, <1>4
    <3> QED
      BY <3>2, <2>2, <1>3, <1>4, <1>5
  <2> QED
    BY <2>1, <2>2
<1>9. \A q \in Present : values'[q] # Absent
  BY <1>0, <1>5 DEF Present, Absent
<1> QED
  BY <1>6, <1>7, <1>8, <1>9 DEF CacheInv

\* Every step keeps the invariant, leaves no value older than the time-out after an add, and takes no value
\* of a key that clients do not remove before its time-out.
LEMMA CacheStep ==
    ASSUME TimesAssumption, CacheInv, [CacheNext]_cacheVars
    PROVE  CacheInv' /\ (UNCHANGED cacheVars \/ (Kept(Keys \ Removable) /\ Purged))
<1>0. /\ now \in 0 .. MaxTime /\ now \in Nat /\ values \in [Keys -> Absent .. now]
      /\ IsABag(times) /\ DOMAIN times \subseteq (0 .. now) \X Keys
      /\ adding \in [Adders -> {NoAdd} \cup [at : 0 .. now, key : Keys]]
      /\ \A t \in Adders : adding[t] = NoAdd \/ (adding[t].at \in 0 .. now /\ adding[t].key \in Keys)
  BY DEF CacheInv, CacheTypes, CacheTypeOK, TimesAssumption
<1>1. ASSUME NEW k \in Keys, NEW at \in 0 .. now, AddAt(k, at), now' = now,
             adding' \in [Adders -> {NoAdd} \cup [at : 0 .. now, key : Keys]]
      PROVE  CacheInv' /\ Kept(Keys \ Removable) /\ Purged
  <2>1. /\ values' \in [Keys -> Absent .. now'] /\ IsABag(times') /\ DOMAIN times' \subseteq (0 .. now') \X Keys
        /\ EveryValueExpires' /\ OneEntry'
        /\ \A q \in Keys : values'[q] # Absent => ~Expired(values'[q])
        /\ \A q \in (Keys \ Removable) \cap Present : values'[q] = Absent => Expired(values[q])
    BY <1>1, AddAtKeeps
  <2>2. \A t \in Adders : adding'[t] = NoAdd \/ (adding'[t].at \in 0 .. now /\ adding'[t].key \in Keys)
    BY <1>1
  <2>3. CacheInv'
    BY <2>1, <2>2, <1>0, <1>1 DEF CacheInv, CacheTypes, CacheTypeOK
  <2> QED
    BY <2>1, <2>3 DEF Kept, Purged
<1>2. ASSUME NEW k \in Keys, Add(k) PROVE CacheInv' /\ Kept(Keys \ Removable) /\ Purged
  BY <1>2, <1>1, <1>0 DEF Add
<1>3. ASSUME NEW t \in Adders, EndAdd(t) PROVE CacheInv' /\ Kept(Keys \ Removable) /\ Purged
  <2>1. /\ adding[t].at \in 0 .. now /\ adding[t].key \in Keys /\ now' = now
        /\ AddAt(adding[t].key, adding[t].at) /\ adding' = [adding EXCEPT ![t] = NoAdd]
    BY <1>3, <1>0 DEF EndAdd
  <2> QED
    BY <2>1, <1>1, <1>0
\* Everything else leaves the values that are there, unless a client removes them.
<1>4. ASSUME ~\E t \in Adders : EndAdd(t), ~\E k \in Keys : Add(k) PROVE Purged
  BY <1>4 DEF Purged
<1>5. ASSUME NEW k \in Keys, Remove(k) PROVE CacheInv' /\ Kept(Keys \ Removable)
  <2>1. /\ k \in Removable /\ values' = [values EXCEPT ![k] = Absent]
        /\ UNCHANGED <<now, times, adding>>
    BY <1>5 DEF Remove
  <2>2. values' \in [Keys -> Absent .. now]
    BY <2>1, <1>0 DEF Absent
  <2>3. values'[k] = Absent /\ \A q \in Keys : q # k => values'[q] = values[q]
    BY <2>1, <1>0
  <2>4. CacheInv'
    BY <2>1, <2>2, <2>3 DEF CacheInv, CacheTypes, CacheTypeOK, EveryValueExpires, Present, OneEntry
  <2> QED
    BY <2>1, <2>3, <2>4 DEF Kept, Present
<1>6. ASSUME NEW k \in Keys, Get(k) PROVE CacheInv' /\ Kept(Keys \ Removable)
  BY <1>6, GetKeeps DEF Kept
<1>7. ASSUME NEW t \in Adders, NEW k \in Keys, BeginAdd(t, k) PROVE CacheInv' /\ Kept(Keys \ Removable)
  <2>1. adding' = [adding EXCEPT ![t] = [at |-> now, key |-> k]] /\ UNCHANGED <<now, values, times>>
    BY <1>7 DEF BeginAdd
  <2>2. [at |-> now, key |-> k] \in [at : 0 .. now, key : Keys]
    BY <1>0
  <2>3. /\ adding' \in [Adders -> {NoAdd} \cup [at : 0 .. now, key : Keys]]
    BY <2>1, <2>2, <1>0
  <2>4. \A u \in Adders : adding'[u] = NoAdd \/ (adding'[u].at \in 0 .. now /\ adding'[u].key \in Keys)
    BY <2>3
  <2> QED
    BY <2>1, <2>3, <2>4 DEF CacheInv, CacheTypes, CacheTypeOK, EveryValueExpires, Present, OneEntry, Kept
<1>8. CASE Clear
  <2>1. DOMAIN times' = {} /\ IsABag(times') /\ values' = [k \in Keys |-> Absent] /\ UNCHANGED <<now, adding>>
    BY <1>8 DEF Clear, EmptyBag, SetToBag, IsABag
  <2>2. values' \in [Keys -> Absent .. now]
    BY <2>1, <1>0 DEF Absent
  <2>3. CacheInv'
    BY <2>1, <2>2, <1>0 DEF CacheInv, CacheTypes, CacheTypeOK, EveryValueExpires, Present, OneEntry
  <2> QED
    BY <2>3, <1>4, <1>2, <1>3, <1>8 DEF Kept
<1>9. CASE Tick
  <2>1. now' = now + 1 /\ now + 1 <= MaxTime /\ UNCHANGED <<values, times, adding>>
    BY <1>9, <1>0 DEF Tick, TimesAssumption
  <2>2. 0 .. now \subseteq 0 .. now' /\ Absent .. now \subseteq Absent .. now' /\ now' \in 0 .. MaxTime
    BY <2>1, <1>0 DEF Absent, TimesAssumption
  <2>3. values' \in [Keys -> Absent .. now'] /\ DOMAIN times' \subseteq (0 .. now') \X Keys
    BY <2>1, <2>2, <1>0
  <2>4. adding' \in [Adders -> {NoAdd} \cup [at : 0 .. now', key : Keys]]
    BY <2>1, <2>2, <1>0
  <2>5. \A u \in Adders : adding'[u] = NoAdd \/ (adding'[u].at \in 0 .. now' /\ adding'[u].key \in Keys)
    BY <2>1, <2>2, <1>0
  <2>6. CacheInv'
    BY <2>1, <2>2, <2>3, <2>4, <2>5 DEF CacheInv, CacheTypes, CacheTypeOK, EveryValueExpires, Present, OneEntry
  <2> QED
    BY <2>1, <2>6, <1>4, <1>2, <1>3 DEF Kept, Present
<1>10. CASE UNCHANGED cacheVars
  BY <1>10 DEF cacheVars, CacheInv, CacheTypes, CacheTypeOK, EveryValueExpires, Present, OneEntry
<1> QED
  BY <1>2, <1>3, <1>4, <1>5, <1>6, <1>7, <1>8, <1>9, <1>10 DEF CacheNext

\* ExpireCache and AccessExpireCache, for any keys, threads and time-out: every value has the entry that will
\* expire it, an add leaves no value older than the time-out, and a value of a key that clients do not
\* remove stays for the time-out.
THEOREM CachesExpireInTime ==
    ASSUME TimesAssumption
    PROVE  CacheSpec => ExpiresInTime
<1>1. CacheInit => CacheInv
  <2> SUFFICES ASSUME CacheInit PROVE CacheInv
    OBVIOUS
  <2>1. DOMAIN times = {} /\ IsABag(times) /\ now = 0 /\ values = [k \in Keys |-> Absent]
        /\ adding = [t \in Adders |-> NoAdd]
    BY DEF CacheInit, EmptyBag, SetToBag, IsABag
  <2> QED
    BY <2>1 DEF CacheInv, CacheTypes, CacheTypeOK, EveryValueExpires, Present, OneEntry, TimesAssumption, Absent
<1>2. CacheInv /\ [CacheNext]_cacheVars
        => CacheInv' /\ [Kept(Keys \ Removable) /\ Purged /\ EveryValueExpires' /\ CacheTypeOK']_cacheVars
  BY CacheStep DEF CacheInv, CacheTypes
<1> QED
  BY <1>1, <1>2, PTL DEF CacheSpec, ExpiresInTime

-----------------------------------------------------------------------------
(* DRHashList: the sorted array implements the map.                        *)

Item == [hashValue : Hashes \cup {Nothing}, data : Data \cup {Nothing}]
Request == [name : {"none", "exists", "find", "add", "remove"},
            hash : Hashes \cup {Nothing}, data : Data \cup {Nothing}]

\* The types the list needs: what it uses of its memory are items, and a call that runs has a hash.
ListTypes ==
    /\ m_nItems \in Nat /\ m_maxItems \in Nat /\ m_nItems <= m_maxItems
    /\ m_pItems \in [0 .. m_maxItems - 1 -> Item]
    /\ \A k \in 0 .. m_nItems - 1 : m_pItems[k].hashValue \in Hashes /\ m_pItems[k].data \in Data
    /\ pc \in {"idle", "search", "found", "missed"}
    /\ window \in Int \X Int \X Int
    /\ request \in Request
    /\ pc # "idle" => request.hash \in Hashes
    /\ pc # "idle" /\ request.name = "add" => request.data \in Data

Sorted(items, n) == \A i, j \in 0 .. n - 1 : i < j => items[i].hashValue < items[j].hashValue

\* The items before a place are smaller than the hash of the call, those behind one are larger.
Before(p) == \A k \in 0 .. m_nItems - 1 : k < p => m_pItems[k].hashValue < request.hash
Behind(p) == \A k \in 0 .. m_nItems - 1 : p < k => request.hash < m_pItems[k].hashValue

\* What the search has found out: what is outside the window is smaller or larger than the hash, and
\* after the last probe the place of the hash is that of the probe or the next.
Searching ==
    pc = "search" => /\ 0 <= window[1] /\ window[1] <= window[3] /\ window[3] <= m_nItems - 1
                     /\ Before(window[1]) /\ Behind(window[3])
Found == pc = "found" => window[2] \in 0 .. m_nItems - 1 /\ m_pItems[window[2]].hashValue = request.hash
Missed ==
    pc = "missed" /\ m_nItems # 0 =>
        /\ window[2] \in 0 .. m_nItems - 1
        /\ \/ m_pItems[window[2]].hashValue < request.hash /\ Behind(window[2])
           \/ request.hash < m_pItems[window[2]].hashValue /\ Before(window[2])

ListInv == ListTypes /\ Sorted(m_pItems, m_nItems) /\ Searching /\ Found /\ Missed

-----------------------------------------------------------------------------
\* The list is empty at the start.
LEMMA ListInitInv == ListInit => ListInv
<1> SUFFICES ASSUME ListInit PROVE ListInv
  OBVIOUS
<1>1. m_nItems = 0 /\ m_maxItems = 0 /\ pc = "idle" /\ window = <<0, 0, 0>> /\ request = NoRequest
  BY DEF ListInit
<1>2. m_pItems \in [0 .. m_maxItems - 1 -> Item]
  BY <1>1 DEF ListInit
<1>3. request \in Request
  BY <1>1 DEF Request, NoRequest
<1> QED
  BY <1>1, <1>2, <1>3 DEF ListInv, ListTypes, Sorted, Searching, Found, Missed

\* What the invariant says, without its names.
LEMMA ListFacts ==
    ASSUME ListInv
    PROVE  /\ m_nItems \in Nat /\ m_maxItems \in Nat /\ m_nItems <= m_maxItems
           /\ m_pItems \in [0 .. m_maxItems - 1 -> Item]
           /\ \A k \in 0 .. m_nItems - 1 : m_pItems[k].hashValue \in Nat /\ k \in DOMAIN m_pItems
           /\ window[1] \in Int /\ window[2] \in Int /\ window[3] \in Int
           /\ pc # "idle" => request.hash \in Nat
<1>1. Hashes \subseteq Nat
  BY HashesAssumption
<1>2. window[1] \in Int /\ window[2] \in Int /\ window[3] \in Int
  BY DEF ListInv, ListTypes
<1>3. /\ m_nItems \in Nat /\ m_maxItems \in Nat /\ m_nItems <= m_maxItems
      /\ m_pItems \in [0 .. m_maxItems - 1 -> Item]
  BY DEF ListInv, ListTypes
<1>4. \A k \in 0 .. m_nItems - 1 : m_pItems[k].hashValue \in Nat
  BY <1>1 DEF ListInv, ListTypes
<1>5. \A k \in 0 .. m_nItems - 1 : k \in DOMAIN m_pItems
  BY <1>3
<1>6. pc # "idle" => request.hash \in Nat
  BY <1>1 DEF ListInv, ListTypes
<1> QED
  BY <1>2, <1>3, <1>4, <1>5, <1>6

\* The same of the next state.
LEMMA NextFacts ==
    ASSUME ListInv'
    PROVE  /\ m_nItems' \in Nat /\ Sorted(m_pItems', m_nItems')
           /\ \A k \in 0 .. m_nItems' - 1 : m_pItems'[k].hashValue \in Nat
  BY HashesAssumption DEF ListInv, ListTypes, Sorted

\* A call starts a search in the whole list.
LEMMA CallInv ==
    ASSUME ListInv, NEW name \in {"exists", "find", "add", "remove"}, NEW h \in Hashes,
           NEW d \in Data \cup {Nothing}, name = "add" => d \in Data, ListCall(name, h, d)
    PROVE  ListInv'
<1>0. m_nItems \in Nat
  BY ListFacts
<1>1. /\ request' = [name |-> name, hash |-> h, data |-> d] /\ window' = <<0, 0, m_nItems - 1>>
      /\ pc' = (IF m_nItems = 0 THEN "missed" ELSE "search")
      /\ m_pItems' = m_pItems /\ m_nItems' = m_nItems /\ m_maxItems' = m_maxItems
  BY DEF ListCall
<1>2. request' \in Request /\ request'.hash = h /\ request'.name = name /\ request'.data = d
  BY <1>1 DEF Request
<1>3. window' \in Int \X Int \X Int /\ window'[1] = 0 /\ window'[3] = m_nItems - 1
  BY <1>0, <1>1
<1>4. ListTypes'
  BY <1>1, <1>2, <1>3 DEF ListInv, ListTypes
<1>5. Searching'
  BY <1>0, <1>1, <1>3 DEF Searching, Before, Behind
<1> QED
  BY <1>1, <1>4, <1>5 DEF ListInv, Sorted, Found, Missed

\* The middle of a window lies in it.
LEMMA MiddleIn ==
    ASSUME NEW a \in Nat, NEW b \in Nat, a <= b
    PROVE  (a + b) \div 2 \in a .. b
  OBVIOUS

\* A probe narrows the window, finds the hash or ends beside its place.
LEMMA ProbeInv ==
    ASSUME ListInv, Probe
    PROVE  ListInv'
<1>0. /\ m_nItems \in Nat /\ pc = "search"
      /\ window[1] \in Nat /\ window[3] \in Nat /\ window[1] <= window[3] /\ window[3] <= m_nItems - 1
      /\ Before(window[1]) /\ Behind(window[3])
  BY ListFacts DEF ListInv, Searching, Probe
<1>1. PICK mid \in window[1] .. window[3] : mid = Middle
  BY <1>0, MiddleIn DEF Middle
<1>2. mid \in 0 .. m_nItems - 1 /\ mid \in Int
  BY <1>0, <1>1
<1>3. PICK at \in Nat : at = m_pItems[mid].hashValue
  BY <1>2, ListFacts
<1>4. PICK h \in Nat : h = request.hash
  BY <1>0, ListFacts
<1>5. /\ m_pItems' = m_pItems /\ m_nItems' = m_nItems /\ m_maxItems' = m_maxItems /\ request' = request
  BY DEF Probe
<1>6. Sorted(m_pItems, m_nItems)' /\ Sorted(m_pItems, m_nItems)
  BY <1>5 DEF ListInv, Sorted
<1>7. /\ at < h => \A k \in 0 .. m_nItems - 1 : k < mid + 1 => m_pItems[k].hashValue < h
      /\ h < at => \A k \in 0 .. m_nItems - 1 : mid - 1 < k => h < m_pItems[k].hashValue
  <2>1. \A k \in 0 .. m_nItems - 1 : m_pItems[k].hashValue \in Nat
    BY ListFacts
  <2>2. \A k \in 0 .. m_nItems - 1 : (k < mid => m_pItems[k].hashValue < at) /\ (mid < k => at < m_pItems[k].hashValue)
    BY <1>2, <1>3, <1>6 DEF Sorted
  <2>3. \A k \in 0 .. m_nItems - 1 : k < mid + 1 => k < mid \/ k = mid
    BY <1>2
  <2>4. \A k \in 0 .. m_nItems - 1 : mid - 1 < k => mid < k \/ k = mid
    BY <1>2
  <2> QED
    BY <2>1, <2>2, <2>3, <2>4, <1>3
<1>8. CASE at = h
  <2>1. pc' = "found" /\ window' = [window EXCEPT ![2] = mid]
    BY <1>1, <1>3, <1>4, <1>8 DEF Probe
  <2>2. window' \in Int \X Int \X Int /\ window'[2] = mid
    BY <2>1, <1>2 DEF ListInv, ListTypes
  <2>3. ListTypes'
    BY <1>0, <1>5, <2>1, <2>2 DEF ListInv, ListTypes
  <2> QED
    BY <1>2, <1>3, <1>4, <1>5, <1>6, <1>8, <2>1, <2>2, <2>3 DEF ListInv, Searching, Found, Missed
<1>9. CASE at < h
  <2>1. window' = <<mid + 1, mid, window[3]>> /\ pc' = (IF mid + 1 <= window[3] THEN "search" ELSE "missed")
    BY <1>1, <1>3, <1>4, <1>9 DEF Probe
  <2>2. window' \in Int \X Int \X Int /\ window'[1] = mid + 1 /\ window'[2] = mid /\ window'[3] = window[3]
    BY <2>1, <1>0, <1>2
  <2>3. ListTypes'
    BY <1>0, <1>5, <2>1, <2>2 DEF ListInv, ListTypes
  <2>4. Searching'
    BY <1>0, <1>2, <1>4, <1>5, <1>7, <1>9, <2>1, <2>2 DEF Searching, Before, Behind
  <2>5. Missed'
    <3>1. ASSUME pc' = "missed" PROVE mid = window[3]
      BY <3>1, <2>1, <1>0, <1>1
    <3> QED
      BY <3>1, <1>0, <1>2, <1>3, <1>4, <1>5, <1>9, <2>2 DEF Missed, Behind
  <2> QED
    BY <1>6, <2>1, <2>3, <2>4, <2>5 DEF ListInv, Found
<1>10. CASE h < at
  <2>1. window' = <<window[1], mid, mid - 1>> /\ pc' = (IF window[1] <= mid - 1 THEN "search" ELSE "missed")
    BY <1>1, <1>3, <1>4, <1>10 DEF Probe
  <2>2. window' \in Int \X Int \X Int /\ window'[1] = window[1] /\ window'[2] = mid /\ window'[3] = mid - 1
    BY <2>1, <1>0, <1>2
  <2>3. ListTypes'
    BY <1>0, <1>5, <2>1, <2>2 DEF ListInv, ListTypes
  <2>4. Searching'
    BY <1>0, <1>2, <1>4, <1>5, <1>7, <1>10, <2>1, <2>2 DEF Searching, Before, Behind
  <2>5. Missed'
    <3>1. ASSUME pc' = "missed" PROVE mid = window[1]
      BY <3>1, <2>1, <1>0, <1>1
    <3> QED
      BY <3>1, <1>0, <1>2, <1>3, <1>4, <1>5, <1>10, <2>2 DEF Missed, Before
  <2> QED
    BY <1>6, <2>1, <2>3, <2>4, <2>5 DEF ListInv, Found
<1> QED
  BY <1>3, <1>4, <1>8, <1>9, <1>10

\* findIndexForHash: the place of the hash, or where it belongs.
LEMMA PlaceOfHash ==
    ASSUME ListInv, pc \in {"found", "missed"}, NEW p, p = IndexForHash
    PROVE  /\ p \in 0 .. m_nItems
           /\ pc = "found" => AlreadyHere(p) /\ p \in 0 .. m_nItems - 1
           /\ pc = "missed" => /\ ~AlreadyHere(p)
                               /\ \A k \in 0 .. m_nItems - 1 :
                                     /\ k < p => m_pItems[k].hashValue < request.hash
                                     /\ p <= k => request.hash < m_pItems[k].hashValue
<1>0. /\ m_nItems \in Nat /\ request.hash \in Nat
      /\ \A k \in 0 .. m_nItems - 1 : m_pItems[k].hashValue \in Nat
  BY ListFacts
<1>1. CASE m_nItems = 0
  <2>1. pc = "missed" /\ p = 0
    BY <1>1 DEF ListInv, Found, IndexForHash
  <2> QED
    BY <1>1, <2>1 DEF AlreadyHere
<1>2. CASE m_nItems # 0 /\ pc = "found"
  <2>1. p = window[2]
    BY <1>2 DEF IndexForHash
  <2> QED
    BY <1>0, <1>2, <2>1 DEF ListInv, Found, AlreadyHere
<1>3. CASE m_nItems # 0 /\ pc = "missed"
  <2>0. PICK w \in 0 .. m_nItems - 1 : w = window[2]
    BY <1>3 DEF ListInv, Missed
  <2>s. \A k \in 0 .. m_nItems - 1 : (k < w => m_pItems[k].hashValue < m_pItems[w].hashValue)
                                     /\ (w < k => m_pItems[w].hashValue < m_pItems[k].hashValue)
    BY DEF ListInv, Sorted
  <2>1. CASE m_pItems[w].hashValue < request.hash
    <3>1. p = w + 1 /\ Behind(w)
      BY <1>0, <1>3, <2>0, <2>1 DEF IndexForHash, ListInv, Missed
    <3>2. \A k \in 0 .. m_nItems - 1 : k < p => m_pItems[k].hashValue < request.hash
      BY <3>1, <2>0, <2>s, <2>1, <1>0
    <3>3. \A k \in 0 .. m_nItems - 1 : p <= k => request.hash < m_pItems[k].hashValue
      BY <3>1, <2>0, <1>0 DEF Behind
    <3>4. ~AlreadyHere(p)
      <4>1. ASSUME p # m_nItems PROVE p \in 0 .. m_nItems - 1 /\ p <= p
        BY <4>1, <3>1, <2>0, <1>0
      <4>2. ASSUME p # m_nItems PROVE request.hash < m_pItems[p].hashValue /\ m_pItems[p].hashValue \in Nat
        BY <4>1, <4>2, <3>3, <1>0
      <4> QED
        BY <4>2, <1>0 DEF AlreadyHere
    <3>5. p \in 0 .. m_nItems
      BY <1>0, <2>0, <3>1
    <3>6. pc # "found"
      BY <1>3
    <3> QED
      BY <3>2, <3>3, <3>4, <3>5, <3>6
  <2>2. CASE ~(m_pItems[w].hashValue < request.hash)
    <3>1. p = w /\ request.hash < m_pItems[w].hashValue /\ Before(w)
      BY <1>0, <1>3, <2>0, <2>2 DEF IndexForHash, ListInv, Missed
    <3>2. \A k \in 0 .. m_nItems - 1 : k < p => m_pItems[k].hashValue < request.hash
      BY <3>1 DEF Before
    <3>3. \A k \in 0 .. m_nItems - 1 : p <= k => request.hash < m_pItems[k].hashValue
      BY <3>1, <2>0, <2>s, <1>0
    <3>4. ~AlreadyHere(p)
      <4>1. m_pItems[p].hashValue \in Nat /\ request.hash < m_pItems[p].hashValue
        BY <3>1, <2>0, <1>0
      <4> QED
        BY <4>1, <1>0 DEF AlreadyHere
    <3>5. p \in 0 .. m_nItems
      BY <1>0, <2>0, <3>1
    <3>6. pc # "found"
      BY <1>3
    <3> QED
      BY <3>2, <3>3, <3>4, <3>5, <3>6
  <2> QED
    BY <2>1, <2>2
<1> QED
  BY <1>1, <1>2, <1>3

\* The three answers that leave the list alone.
LEMMA SameListInv ==
    ASSUME ListInv, NEW result, Answer(result), UNCHANGED <<m_pItems, m_nItems, m_maxItems>>
    PROVE  ListInv'
<1>1. pc' = "idle" /\ request' = NoRequest /\ window' = <<0, 0, 0>>
  BY DEF Answer
<1>2. request' \in Request /\ window' \in Int \X Int \X Int
  BY <1>1 DEF Request, NoRequest
<1>3. ListTypes'
  BY <1>1, <1>2 DEF ListInv, ListTypes
<1> QED
  BY <1>1, <1>3 DEF ListInv, Sorted, Searching, Found, Missed

\* A list between two calls.
LEMMA IdleListInv ==
    ASSUME m_nItems' \in Nat, m_maxItems' \in Nat, m_nItems' <= m_maxItems',
           m_pItems' \in [0 .. m_maxItems' - 1 -> Item],
           \A k \in 0 .. m_nItems' - 1 : m_pItems'[k].hashValue \in Hashes /\ m_pItems'[k].data \in Data,
           Sorted(m_pItems, m_nItems)', pc' = "idle",
           window' \in Int \X Int \X Int, request' \in Request
    PROVE  ListInv'
  BY DEF ListInv, ListTypes, Searching, Found, Missed

\* The memory of a list that has grown.
LEMMA MemoryOf ==
    ASSUME ListInv, NEW n \in Nat, m_maxItems <= n
    PROVE  /\ Memory(n) \in [0 .. n - 1 -> Item] /\ DOMAIN Memory(n) = 0 .. n - 1
           /\ \A k \in 0 .. m_nItems - 1 : Memory(n)[k] = m_pItems[k]
<1>0. /\ m_nItems \in Nat /\ m_maxItems \in Nat /\ m_nItems <= m_maxItems
      /\ m_pItems \in [0 .. m_maxItems - 1 -> Item]
  BY ListFacts
<1>1. Junk \in Item
  BY DEF Junk, Item
<1>2. \A k \in 0 .. n - 1 : (IF k \in DOMAIN m_pItems THEN m_pItems[k] ELSE Junk) \in Item
  BY <1>0, <1>1
<1>3. Memory(n) \in [0 .. n - 1 -> Item] /\ DOMAIN Memory(n) = 0 .. n - 1
  BY <1>2 DEF Memory
<1>4. \A k \in 0 .. m_nItems - 1 : k \in 0 .. n - 1 /\ k \in DOMAIN m_pItems
  BY <1>0
<1> QED
  BY <1>3, <1>4 DEF Memory

\* What an add makes of the list, if the hash is new.
Inserted(p) ==
    /\ p \in 0 .. m_nItems /\ m_nItems' = m_nItems + 1 /\ m_nItems' <= m_maxItems'
    /\ m_pItems'[p].hashValue = request.hash /\ m_pItems'[p].data = request.data
    /\ \A k \in 0 .. m_nItems - 1 :
          /\ k < p => m_pItems'[k] = m_pItems[k]
          /\ p <= k => m_pItems'[k + 1] = m_pItems[k]

\* What a remove makes of it, if the hash is there.
Removed(p) ==
    /\ p \in 0 .. m_nItems - 1 /\ m_nItems' = m_nItems - 1 /\ m_maxItems' = m_maxItems
    /\ m_pItems[p].hashValue = request.hash
    /\ \A k \in 0 .. m_nItems - 2 : m_pItems'[k] = m_pItems[IF k < p THEN k ELSE k + 1]

\* An add answers that the hash is there, or opens a gap for it.
LEMMA AddSteps ==
    ASSUME ListInv, AnswerAdd
    PROVE  /\ request.name = "add" /\ request.hash \in Hashes /\ request.data \in Data
           /\ \/ pc = "found" /\ Answer(FALSE) /\ UNCHANGED <<m_pItems, m_nItems, m_maxItems>>
              \/ /\ pc = "missed" /\ Answer(TRUE) /\ Inserted(IndexForHash)
                 /\ m_maxItems' \in Nat /\ m_pItems' \in [0 .. m_maxItems' - 1 -> Item]
<1>0. /\ m_nItems \in Nat /\ m_maxItems \in Nat /\ m_nItems <= m_maxItems
      /\ m_pItems \in [0 .. m_maxItems - 1 -> Item]
  BY ListFacts
<1>1. pc \in {"found", "missed"} /\ request.name = "add"
  BY DEF AnswerAdd
<1>2. request.hash \in Hashes /\ request.data \in Data
  BY <1>1 DEF ListInv, ListTypes
<1>3. PICK p : p = IndexForHash
  OBVIOUS
<1>4. CASE pc = "found"
  <2>1. AlreadyHere(p)
    BY <1>3, <1>4, PlaceOfHash
  <2> QED
    BY <1>1, <1>2, <1>3, <1>4, <2>1 DEF AnswerAdd
<1>5. CASE pc = "missed"
  <2>1. ~AlreadyHere(p) /\ p \in 0 .. m_nItems
    BY <1>3, <1>5, PlaceOfHash
  <2>2. PICK g : g = Grown
    OBVIOUS
  <2>3. g \in Nat /\ m_maxItems <= g /\ m_nItems + 1 <= g
    BY <2>2, <1>0, HashesAssumption DEF Grown
  <2>4. PICK memory : memory = Memory(g)
    OBVIOUS
  <2>5. /\ memory \in [0 .. g - 1 -> Item] /\ DOMAIN memory = 0 .. g - 1
        /\ \A k \in 0 .. m_nItems - 1 : memory[k] = m_pItems[k]
    BY <2>3, <2>4, MemoryOf
  <2>6. PICK new \in Item : new = [hashValue |-> request.hash, data |-> request.data]
    BY <1>2 DEF Item
  <2>7. /\ m_maxItems' = g /\ m_nItems' = m_nItems + 1 /\ Answer(TRUE)
        /\ m_pItems' = [k \in DOMAIN memory |-> IF k = p THEN new
                           ELSE IF k > p /\ k <= m_nItems THEN memory[k - 1] ELSE memory[k]]
    BY <1>3, <2>1, <2>2, <2>4, <2>6 DEF AnswerAdd
  <2>8. m_pItems' \in [0 .. m_maxItems' - 1 -> Item]
    <3>1. \A k \in 0 .. g - 1 : k > p => k - 1 \in 0 .. g - 1
      BY <2>1, <2>3, <1>0
    <3>2. \A k \in 0 .. g - 1 :
             (IF k = p THEN new ELSE IF k > p /\ k <= m_nItems THEN memory[k - 1] ELSE memory[k]) \in Item
      BY <3>1, <2>5
    <3> QED
      BY <3>2, <2>5, <2>7
  <2>9. \A k \in 0 .. m_nItems - 1 : k \in 0 .. g - 1 /\ k + 1 \in 0 .. g - 1 /\ p \in 0 .. g - 1
    BY <1>0, <2>1, <2>3
  <2>10. p \in 0 .. g - 1
    BY <1>0, <2>1, <2>3
  <2>11. m_pItems'[p].hashValue = request.hash /\ m_pItems'[p].data = request.data
    <3>1. m_pItems'[p] = new
      BY <2>5, <2>7, <2>10
    <3> QED
      BY <3>1, <2>6
  <2>12. ASSUME NEW k \in 0 .. m_nItems - 1, k < p PROVE m_pItems'[k] = m_pItems[k]
    BY <2>1, <2>5, <2>7, <2>9, <2>12, <1>0
  <2>13. ASSUME NEW k \in 0 .. m_nItems - 1, p <= k PROVE m_pItems'[k + 1] = m_pItems[k]
    <3>1. k + 1 # p /\ k + 1 > p /\ k + 1 <= m_nItems /\ (k + 1) - 1 = k
      BY <2>1, <2>13, <1>0
    <3> QED
      BY <3>1, <2>5, <2>7, <2>9
  <2>14. Inserted(p)
    BY <2>1, <2>3, <2>6, <2>7, <2>11, <2>12, <2>13 DEF Inserted
  <2> QED
    BY <1>1, <1>2, <1>3, <1>5, <2>3, <2>7, <2>8, <2>14
<1> QED
  BY <1>1, <1>4, <1>5

\* A remove answers that the hash is not there, or closes the gap it leaves.
LEMMA RemoveSteps ==
    ASSUME ListInv, AnswerRemove
    PROVE  /\ request.name = "remove" /\ request.hash \in Hashes
           /\ \/ pc = "missed" /\ Answer(FALSE) /\ UNCHANGED <<m_pItems, m_nItems, m_maxItems>>
              \/ /\ pc = "found" /\ Answer(TRUE) /\ Removed(IndexForHash)
                 /\ m_pItems' \in [0 .. m_maxItems' - 1 -> Item]
<1>0. /\ m_nItems \in Nat /\ m_maxItems \in Nat /\ m_nItems <= m_maxItems
      /\ m_pItems \in [0 .. m_maxItems - 1 -> Item] /\ DOMAIN m_pItems = 0 .. m_maxItems - 1
  BY ListFacts
<1>1. pc \in {"found", "missed"} /\ request.name = "remove" /\ m_maxItems' = m_maxItems
  BY DEF AnswerRemove
<1>2. request.hash \in Hashes
  BY <1>1 DEF ListInv, ListTypes
<1>3. PICK p : p = IndexForHash
  OBVIOUS
<1>4. CASE pc = "missed"
  <2>1. ~AlreadyHere(p)
    BY <1>3, <1>4, PlaceOfHash
  <2> QED
    BY <1>1, <1>2, <1>3, <1>4, <2>1 DEF AnswerRemove
<1>5. CASE pc = "found"
  <2>1. AlreadyHere(p) /\ p \in 0 .. m_nItems - 1
    BY <1>3, <1>5, PlaceOfHash
  <2>2. /\ m_nItems' = m_nItems - 1 /\ Answer(TRUE)
        /\ m_pItems' = [k \in DOMAIN m_pItems |->
               IF k >= p /\ k < m_nItems - 1 THEN m_pItems[k + 1] ELSE m_pItems[k]]
    BY <1>3, <2>1 DEF AnswerRemove
  <2>3. m_pItems' \in [0 .. m_maxItems' - 1 -> Item]
    <3>1. \A k \in 0 .. m_maxItems - 1 : k < m_nItems - 1 => k + 1 \in 0 .. m_maxItems - 1
      BY <1>0
    <3>2. \A k \in 0 .. m_maxItems - 1 :
             (IF k >= p /\ k < m_nItems - 1 THEN m_pItems[k + 1] ELSE m_pItems[k]) \in Item
      BY <3>1, <1>0
    <3> QED
      BY <3>2, <1>0, <1>1, <2>2
  <2>4. ASSUME NEW k \in 0 .. m_nItems - 2
        PROVE  m_pItems'[k] = m_pItems[IF k < p THEN k ELSE k + 1]
    <3>1. k \in 0 .. m_maxItems - 1 /\ k < m_nItems - 1 /\ (k >= p <=> ~(k < p))
      BY <1>0, <2>1
    <3> QED
      BY <3>1, <1>0, <2>2
  <2>5. Removed(p)
    BY <1>1, <2>1, <2>2, <2>4 DEF Removed, AlreadyHere
  <2> QED
    BY <1>1, <1>2, <1>3, <1>5, <2>2, <2>3, <2>5
<1> QED
  BY <1>1, <1>4, <1>5

\* Where the items of a list with a new one come from.
LEMMA InsertedFrom ==
    ASSUME ListInv, NEW p, Inserted(p), NEW i \in 0 .. m_nItems' - 1
    PROVE  \/ i = p /\ m_pItems'[i].hashValue = request.hash /\ m_pItems'[i].data = request.data
           \/ i < p /\ i \in 0 .. m_nItems - 1 /\ m_pItems'[i] = m_pItems[i]
           \/ p < i /\ i - 1 \in 0 .. m_nItems - 1 /\ p <= i - 1 /\ m_pItems'[i] = m_pItems[i - 1]
<1>0. m_nItems \in Nat
  BY ListFacts
<1>1. p \in 0 .. m_nItems /\ i \in 0 .. m_nItems
  BY <1>0 DEF Inserted
<1>2. CASE i = p
  BY <1>2 DEF Inserted
<1>3. CASE i < p
  <2>1. i \in 0 .. m_nItems - 1
    BY <1>0, <1>1, <1>3
  <2> QED
    BY <1>3, <2>1 DEF Inserted
<1>4. CASE p < i
  <2>1. i - 1 \in 0 .. m_nItems - 1 /\ p <= i - 1 /\ (i - 1) + 1 = i
    BY <1>0, <1>1, <1>4
  <2>2. m_pItems'[(i - 1) + 1] = m_pItems[i - 1]
    BY <2>1 DEF Inserted
  <2> QED
    BY <1>4, <2>1, <2>2
<1> QED
  BY <1>1, <1>2, <1>3, <1>4

\* An add keeps the invariant.
LEMMA AddInv ==
    ASSUME ListInv, AnswerAdd
    PROVE  ListInv'
<1>1. CASE pc = "found"
  BY <1>1, AddSteps, SameListInv
<1>2. CASE pc = "missed"
  <2>0. /\ m_nItems \in Nat /\ request.hash \in Nat
        /\ \A k \in 0 .. m_nItems - 1 : m_pItems[k].hashValue \in Nat
    BY <1>2, ListFacts
  <2>1. PICK p : p = IndexForHash
    OBVIOUS
  <2>2. /\ request.hash \in Hashes /\ request.data \in Data /\ Answer(TRUE) /\ Inserted(p)
        /\ m_maxItems' \in Nat /\ m_pItems' \in [0 .. m_maxItems' - 1 -> Item]
    BY <1>2, <2>1, AddSteps
  <2>3. \A k \in 0 .. m_nItems - 1 : /\ k < p => m_pItems[k].hashValue < request.hash
                                     /\ p <= k => request.hash < m_pItems[k].hashValue
    BY <1>2, <2>1, PlaceOfHash
  <2>4. ASSUME NEW i \in 0 .. m_nItems' - 1
        PROVE  m_pItems'[i].hashValue \in Hashes /\ m_pItems'[i].data \in Data
    BY <2>2, InsertedFrom DEF ListInv, ListTypes
  <2>5. ASSUME NEW i \in 0 .. m_nItems' - 1, NEW j \in 0 .. m_nItems' - 1, i < j
        PROVE  m_pItems'[i].hashValue < m_pItems'[j].hashValue
    <3>1. \/ i = p /\ m_pItems'[i].hashValue = request.hash
          \/ i < p /\ i \in 0 .. m_nItems - 1 /\ m_pItems'[i].hashValue = m_pItems[i].hashValue
          \/ p < i /\ i - 1 \in 0 .. m_nItems - 1 /\ p <= i - 1 /\ m_pItems'[i].hashValue = m_pItems[i - 1].hashValue
      <4>1. \/ i = p /\ m_pItems'[i].hashValue = request.hash /\ m_pItems'[i].data = request.data
            \/ i < p /\ i \in 0 .. m_nItems - 1 /\ m_pItems'[i] = m_pItems[i]
            \/ p < i /\ i - 1 \in 0 .. m_nItems - 1 /\ p <= i - 1 /\ m_pItems'[i] = m_pItems[i - 1]
        BY ONLY ListInv, <2>2, i \in 0 .. m_nItems' - 1, InsertedFrom
      <4> QED
        BY ONLY <4>1
    <3>2. \/ j = p /\ m_pItems'[j].hashValue = request.hash
          \/ j < p /\ j \in 0 .. m_nItems - 1 /\ m_pItems'[j].hashValue = m_pItems[j].hashValue
          \/ p < j /\ j - 1 \in 0 .. m_nItems - 1 /\ p <= j - 1 /\ m_pItems'[j].hashValue = m_pItems[j - 1].hashValue
      <4>1. \/ j = p /\ m_pItems'[j].hashValue = request.hash /\ m_pItems'[j].data = request.data
            \/ j < p /\ j \in 0 .. m_nItems - 1 /\ m_pItems'[j] = m_pItems[j]
            \/ p < j /\ j - 1 \in 0 .. m_nItems - 1 /\ p <= j - 1 /\ m_pItems'[j] = m_pItems[j - 1]
        BY ONLY ListInv, <2>2, j \in 0 .. m_nItems' - 1, InsertedFrom
      <4> QED
        BY ONLY <4>1
    <3>3. p \in Nat /\ i \in Nat /\ j \in Nat
      BY <2>0, <2>2 DEF Inserted
    <3>4. \A a, b \in 0 .. m_nItems - 1 : a < b => m_pItems[a].hashValue < m_pItems[b].hashValue
      BY DEF ListInv, Sorted
    <3>5. CASE i < p /\ p < j
      <4>1. m_pItems[i].hashValue < request.hash /\ request.hash < m_pItems[j - 1].hashValue
        BY <3>1, <3>2, <3>3, <3>5, <2>3
      <4> QED
        BY <4>1, <3>1, <3>2, <3>3, <3>5, <2>0
    <3>6. CASE ~(i < p /\ p < j)
      BY <3>1, <3>2, <3>3, <3>4, <3>6, <2>3, <2>5
    <3> QED
      BY <3>5, <3>6
  <2>6. Sorted(m_pItems, m_nItems)'
    BY <2>5 DEF Sorted
  <2>7. pc' = "idle" /\ request' \in Request /\ window' \in Int \X Int \X Int
    BY <2>2 DEF Answer, Request, NoRequest
  <2>8. m_nItems' \in Nat /\ m_nItems' <= m_maxItems'
    BY <2>0, <2>2 DEF Inserted
  <2> QED
    BY <2>2, <2>4, <2>6, <2>7, <2>8, IdleListInv
<1> QED
  BY <1>1, <1>2 DEF AnswerAdd

\* Where the items of a list with one removed come from.
LEMMA RemovedFrom ==
    ASSUME ListInv, NEW p, Removed(p), NEW i \in 0 .. m_nItems' - 1
    PROVE  \E k \in 0 .. m_nItems - 1 : /\ m_pItems'[i] = m_pItems[k] /\ k # p
                                         /\ k = IF i < p THEN i ELSE i + 1
<1>0. m_nItems \in Nat
  BY ListFacts
<1>1. p \in 0 .. m_nItems - 1 /\ i \in 0 .. m_nItems - 2
  BY <1>0 DEF Removed
<1>2. PICK k : k = IF i < p THEN i ELSE i + 1
  OBVIOUS
<1>3. k \in 0 .. m_nItems - 1 /\ k # p
  BY <1>0, <1>1, <1>2
<1>4. m_pItems'[i] = m_pItems[k]
  BY <1>1, <1>2 DEF Removed
<1> QED
  BY <1>2, <1>3, <1>4

\* A remove keeps the invariant.
LEMMA RemoveInv ==
    ASSUME ListInv, AnswerRemove
    PROVE  ListInv'
<1>1. CASE pc = "missed"
  BY <1>1, RemoveSteps, SameListInv
<1>2. CASE pc = "found"
  <2>0. m_nItems \in Nat /\ m_maxItems \in Nat /\ m_nItems <= m_maxItems
    BY ListFacts
  <2>1. PICK p : p = IndexForHash
    OBVIOUS
  <2>2. Answer(TRUE) /\ Removed(p) /\ m_pItems' \in [0 .. m_maxItems' - 1 -> Item]
    BY <1>2, <2>1, RemoveSteps
  <2>3. m_maxItems' = m_maxItems /\ m_nItems' = m_nItems - 1 /\ p \in 0 .. m_nItems - 1
    BY <2>2 DEF Removed
  <2>4. ASSUME NEW i \in 0 .. m_nItems' - 1
        PROVE  m_pItems'[i].hashValue \in Hashes /\ m_pItems'[i].data \in Data
    BY <2>2, RemovedFrom DEF ListInv, ListTypes
  <2>5. ASSUME NEW i \in 0 .. m_nItems' - 1, NEW j \in 0 .. m_nItems' - 1, i < j
        PROVE  m_pItems'[i].hashValue < m_pItems'[j].hashValue
    <3>1. PICK a \in 0 .. m_nItems - 1 : m_pItems'[i] = m_pItems[a] /\ a = IF i < p THEN i ELSE i + 1
      BY <2>2, RemovedFrom
    <3>2. PICK b \in 0 .. m_nItems - 1 : m_pItems'[j] = m_pItems[b] /\ b = IF j < p THEN j ELSE j + 1
      BY <2>2, RemovedFrom
    <3>3. a < b
      BY <3>1, <3>2, <2>3, <2>5, <2>0
    <3> QED
      BY <3>1, <3>2, <3>3 DEF ListInv, Sorted
  <2>6. Sorted(m_pItems, m_nItems)'
    BY <2>5 DEF Sorted
  <2>7. pc' = "idle" /\ request' \in Request /\ window' \in Int \X Int \X Int
    BY <2>2 DEF Answer, Request, NoRequest
  <2>8. m_nItems' \in Nat /\ m_nItems' <= m_maxItems' /\ m_maxItems' \in Nat
    BY <2>0, <2>3
  <2> QED
    BY <2>2, <2>4, <2>6, <2>7, <2>8, IdleListInv
<1> QED
  BY <1>1, <1>2 DEF AnswerRemove

\* setDataByIndex changes the data of an item.
LEMMA SetSteps ==
    ASSUME ListInv, SetDataByIndex
    PROVE  /\ pc = "idle" /\ UNCHANGED <<m_nItems, m_maxItems, request, window, pc>>
           /\ \E i \in 0 .. m_nItems - 1, d \in Data :
                 /\ m_pItems[i].hashValue \in Hashes
                 /\ answer' = [op |-> "set", hash |-> m_pItems[i].hashValue, result |-> TRUE]
                 /\ m_pItems' \in [0 .. m_maxItems - 1 -> Item]
                 /\ \A k \in 0 .. m_nItems - 1 : m_pItems'[k].hashValue = m_pItems[k].hashValue
                 /\ \A k \in 0 .. m_nItems - 1 : m_pItems'[k].data = IF k = i THEN d ELSE m_pItems[k].data
<1>1. PICK i \in 0 .. m_nItems - 1, d \in Data :
         /\ m_pItems' = [m_pItems EXCEPT ![i].data = d]
         /\ answer' = [op |-> "set", hash |-> m_pItems[i].hashValue, result |-> TRUE]
  BY DEF SetDataByIndex
<1>2. /\ m_nItems \in Nat /\ m_maxItems \in Nat /\ m_nItems <= m_maxItems
      /\ m_pItems \in [0 .. m_maxItems - 1 -> Item] /\ m_pItems[i].hashValue \in Hashes
  BY DEF ListInv, ListTypes
<1>3. PICK x \in Item : x = m_pItems[i] /\ i \in 0 .. m_maxItems - 1
  BY <1>2
<1>4. PICK y : y = [x EXCEPT !.data = d]
  OBVIOUS
<1>5. y \in Item /\ y.hashValue = x.hashValue /\ y.data = d
  BY <1>4, <1>3 DEF Item
<1>6. m_pItems' = [m_pItems EXCEPT ![i] = y]
  BY <1>1, <1>3, <1>4
<1>7. m_pItems' \in [0 .. m_maxItems - 1 -> Item]
  BY <1>2, <1>3, <1>5, <1>6
<1>8. \A k \in 0 .. m_nItems - 1 : k \in 0 .. m_maxItems - 1 /\ m_pItems'[k] = IF k = i THEN y ELSE m_pItems[k]
  BY <1>2, <1>6
<1>9. /\ \A k \in 0 .. m_nItems - 1 : m_pItems'[k].hashValue = m_pItems[k].hashValue
      /\ \A k \in 0 .. m_nItems - 1 : m_pItems'[k].data = IF k = i THEN d ELSE m_pItems[k].data
  BY <1>8, <1>5, <1>3
<1> QED
  BY <1>1, <1>2, <1>7, <1>9 DEF SetDataByIndex

\* clear and resize.
LEMMA ClearInv ==
    ASSUME ListInv, ListClear
    PROVE  ListInv'
<1>0. /\ m_nItems' = 0 /\ UNCHANGED <<request, window, pc>> /\ pc = "idle" /\ m_maxItems \in Nat
      /\ m_pItems \in [0 .. m_maxItems - 1 -> Item]
  BY ListFacts DEF ListClear
<1>1. m_maxItems' \in Nat /\ m_pItems' \in [0 .. m_maxItems' - 1 -> Item]
  <2>1. CASE UNCHANGED <<m_pItems, m_maxItems>>
    BY <1>0, <2>1
  <2>2. CASE m_pItems' = Memory(0) /\ m_maxItems' = 0
    BY <2>2 DEF Memory
  <2> QED
    BY <2>1, <2>2 DEF ListClear
<1>2. window' \in Int \X Int \X Int /\ request' \in Request
  BY <1>0 DEF ListInv, ListTypes
<1>3. Sorted(m_pItems, m_nItems)'
  BY <1>0 DEF Sorted
<1>4. m_nItems' \in Nat /\ m_nItems' <= m_maxItems' /\ \A k \in 0 .. m_nItems' - 1 : FALSE
  BY <1>0, <1>1
<1> QED
  BY <1>0, <1>1, <1>2, <1>3, <1>4, IdleListInv

\* resize leaves the items as they are.
LEMMA ResizeSteps ==
    ASSUME ListInv, Resize
    PROVE  /\ pc = "idle" /\ UNCHANGED <<m_nItems, request, window, pc, answer>>
           /\ m_maxItems' \in Nat /\ m_nItems <= m_maxItems' /\ m_pItems' \in [0 .. m_maxItems' - 1 -> Item]
           /\ \A k \in 0 .. m_nItems - 1 : m_pItems'[k] = m_pItems[k]
<1>1. PICK size \in Sizes : size > m_maxItems /\ m_maxItems' = size /\ m_pItems' = Memory(size)
  BY DEF Resize
<1>2. m_nItems \in Nat /\ m_maxItems \in Nat /\ m_nItems <= m_maxItems
  BY ListFacts
<1>3. size \in Nat
  BY HashesAssumption
<1>4. m_maxItems <= size /\ m_nItems <= size
  BY <1>1, <1>2, <1>3
<1> QED
  BY <1>1, <1>3, <1>4, MemoryOf DEF Resize

\* Every step of the list keeps the invariant.
LEMMA ListStepInv == ListInv /\ [ListNext]_listVars => ListInv'
<1> SUFFICES ASSUME ListInv, [ListNext]_listVars PROVE ListInv'
  OBVIOUS
<1>1. CASE UNCHANGED listVars
  BY <1>1 DEF listVars, ListInv, ListTypes, Sorted, Searching, Found, Missed, Before, Behind
<1>2. CASE ItemExists
  BY <1>2, CallInv DEF ItemExists
<1>3. CASE FindByHash
  BY <1>3, CallInv DEF FindByHash
<1>4. CASE AddByHash
  BY <1>4, CallInv DEF AddByHash
<1>5. CASE RemoveByHash
  BY <1>5, CallInv DEF RemoveByHash
<1>6. CASE Probe
  BY <1>6, ProbeInv
<1>7. CASE AnswerExists
  BY <1>7, SameListInv DEF AnswerExists
<1>8. CASE AnswerFind
  BY <1>8, SameListInv DEF AnswerFind
<1>9. CASE AnswerAdd
  BY <1>9, AddInv
<1>10. CASE AnswerRemove
  BY <1>10, RemoveInv
<1>11. CASE SetDataByIndex
  <2>1. pc = "idle" /\ UNCHANGED <<m_nItems, m_maxItems, request, window, pc>>
    BY <1>11, SetSteps
  <2>2. PICK i \in 0 .. m_nItems - 1, d \in Data :
           /\ m_pItems' \in [0 .. m_maxItems - 1 -> Item]
           /\ \A k \in 0 .. m_nItems - 1 : m_pItems'[k].hashValue = m_pItems[k].hashValue
           /\ \A k \in 0 .. m_nItems - 1 : m_pItems'[k].data = IF k = i THEN d ELSE m_pItems[k].data
    BY <1>11, SetSteps
  <2>3. \A k \in 0 .. m_nItems - 1 : m_pItems'[k].hashValue \in Hashes /\ m_pItems'[k].data \in Data
    BY <2>2 DEF ListInv, ListTypes
  <2>4. Sorted(m_pItems, m_nItems)'
    BY <2>1, <2>2 DEF ListInv, Sorted
  <2>5. m_nItems \in Nat /\ m_maxItems \in Nat /\ m_nItems <= m_maxItems
    BY ListFacts
  <2>6. window' \in Int \X Int \X Int /\ request' \in Request
    BY <2>1 DEF ListInv, ListTypes
  <2> QED
    BY <2>1, <2>2, <2>3, <2>4, <2>5, <2>6, IdleListInv
<1>12. CASE ListClear
  BY <1>12, ClearInv
<1>13. CASE Resize
  <2>1. /\ pc = "idle" /\ UNCHANGED <<m_nItems, request, window, pc, answer>>
        /\ m_maxItems' \in Nat /\ m_nItems <= m_maxItems' /\ m_pItems' \in [0 .. m_maxItems' - 1 -> Item]
        /\ \A k \in 0 .. m_nItems - 1 : m_pItems'[k] = m_pItems[k]
    BY <1>13, ResizeSteps
  <2>2. \A k \in 0 .. m_nItems' - 1 : m_pItems'[k].hashValue \in Hashes /\ m_pItems'[k].data \in Data
    BY <2>1 DEF ListInv, ListTypes
  <2>3. Sorted(m_pItems, m_nItems)'
    BY <2>1 DEF ListInv, Sorted
  <2>4. window' \in Int \X Int \X Int /\ request' \in Request /\ m_nItems \in Nat
    BY <2>1 DEF ListInv, ListTypes
  <2> QED
    BY <2>1, <2>2, <2>3, <2>4, IdleListInv
<1> QED
  BY <1>1, <1>2, <1>3, <1>4, <1>5, <1>6, <1>7, <1>8, <1>9, <1>10, <1>11, <1>12, <1>13 DEF ListNext

\* The invariant gives what the run checks.
LEMMA ListInvSafe == ListInv => SortedOnce /\ InWindow
<1> SUFFICES ASSUME ListInv PROVE SortedOnce /\ InWindow
  OBVIOUS
<1>0. /\ m_nItems \in Nat /\ m_maxItems \in Nat /\ m_nItems <= m_maxItems
      /\ m_pItems \in [0 .. m_maxItems - 1 -> Item]
      /\ \A k \in 0 .. m_nItems - 1 : m_pItems[k].hashValue \in Nat
  BY ListFacts
<1>1. SortedOnce
  BY <1>0 DEF SortedOnce, Used, ListInv, Sorted
<1>2. ASSUME pc = "search", NEW k \in Used, m_pItems[k].hashValue = request.hash
      PROVE  window[1] <= k /\ k <= window[3]
  <2>1. k \in 0 .. m_nItems - 1 /\ request.hash \in Nat
    BY <1>0, <1>2 DEF Used
  <2>2. /\ k < window[1] => m_pItems[k].hashValue < request.hash
        /\ window[3] < k => request.hash < m_pItems[k].hashValue
    BY <1>2, <2>1 DEF ListInv, Searching, Before, Behind
  <2>3. window[1] \in Int /\ window[3] \in Int
    BY ListFacts
  <2> QED
    BY <1>2, <2>1, <2>2, <2>3
<1>3. ASSUME pc = "missed", NEW k \in Used, m_pItems[k].hashValue = request.hash
      PROVE  FALSE
  <2>1. k \in 0 .. m_nItems - 1 /\ request.hash \in Nat
    BY <1>0, <1>3 DEF Used
  <2>2. PICK p : p = IndexForHash
    OBVIOUS
  <2>3. /\ p \in 0 .. m_nItems
        /\ k < p => m_pItems[k].hashValue < request.hash
        /\ p <= k => request.hash < m_pItems[k].hashValue
    BY <1>3, <2>1, <2>2, PlaceOfHash
  <2> QED
    BY <1>0, <1>3, <2>1, <2>3
<1>4. InWindow
  BY <1>2, <1>3 DEF InWindow
<1> QED
  BY <1>1, <1>4

-----------------------------------------------------------------------------
\* The map of a sorted list: its hashes, each with the data of its item.
LEMMA MapOfSorted ==
    ASSUME NEW items, NEW n \in Nat, Sorted(items, n), \A k \in 0 .. n - 1 : items[k].hashValue \in Nat
    PROVE  /\ DOMAIN MapOf(items, n) = {items[k].hashValue : k \in 0 .. n - 1}
           /\ \A k \in 0 .. n - 1 : MapOf(items, n)[items[k].hashValue] = items[k].data
<1>1. DOMAIN MapOf(items, n) = {items[k].hashValue : k \in 0 .. n - 1}
  BY DEF MapOf
<1>2. ASSUME NEW k \in 0 .. n - 1
      PROVE  MapOf(items, n)[items[k].hashValue] = items[k].data
  <2>1. PICK c : c = CHOOSE x \in 0 .. n - 1 : items[x].hashValue = items[k].hashValue
    OBVIOUS
  <2>2. c \in 0 .. n - 1 /\ items[c].hashValue = items[k].hashValue
    BY <2>1
  <2>3. c = k
    <3>1. ~(c < k) /\ ~(k < c)
      BY <2>2 DEF Sorted
    <3> QED
      BY <3>1, <2>2
  <2>4. items[k].hashValue \in {items[x].hashValue : x \in 0 .. n - 1}
    OBVIOUS
  <2>5. MapOf(items, n)[items[k].hashValue] = items[c].data
    BY <2>1, <2>4 DEF MapOf
  <2> QED
    BY <2>3, <2>5
<1> QED
  BY <1>1, <1>2

\* A map that has the hashes of a sorted list, each with the data of its item, is the map of the list.
LEMMA IsMapOf ==
    ASSUME NEW items, NEW n \in Nat, Sorted(items, n), \A k \in 0 .. n - 1 : items[k].hashValue \in Nat,
           NEW f, f = [x \in DOMAIN f |-> f[x]],
           \A k \in 0 .. n - 1 : items[k].hashValue \in DOMAIN f /\ f[items[k].hashValue] = items[k].data,
           \A x \in DOMAIN f : \E k \in 0 .. n - 1 : items[k].hashValue = x
    PROVE  MapOf(items, n) = f
<1>1. PICK g : g = MapOf(items, n)
  OBVIOUS
<1>2. DOMAIN g = DOMAIN f
  <2>1. DOMAIN g = {items[k].hashValue : k \in 0 .. n - 1}
    BY ONLY <1>1 DEF MapOf
  <2> QED
    BY <2>1
<1>3. ASSUME NEW x \in DOMAIN f PROVE g[x] = f[x]
  <2>1. PICK k \in 0 .. n - 1 : items[k].hashValue = x
    OBVIOUS
  <2>2. g[items[k].hashValue] = items[k].data
    BY <1>1, MapOfSorted
  <2> QED
    BY <2>1, <2>2
<1>4. g = [x \in DOMAIN g |-> g[x]]
  BY <1>1 DEF MapOf
<1> QED
  BY <1>1, <1>2, <1>3, <1>4

\* The map of the list.
LEMMA ListMap ==
    ASSUME ListInv, NEW map, map = MapOf(m_pItems, m_nItems)
    PROVE  /\ map = [x \in DOMAIN map |-> map[x]]
           /\ \A k \in 0 .. m_nItems - 1 : /\ m_pItems[k].hashValue \in DOMAIN map
                                            /\ map[m_pItems[k].hashValue] = m_pItems[k].data
           /\ \A x \in DOMAIN map : \E k \in 0 .. m_nItems - 1 : m_pItems[k].hashValue = x
<1>0. /\ m_nItems \in Nat /\ \A k \in 0 .. m_nItems - 1 : m_pItems[k].hashValue \in Nat
      /\ Sorted(m_pItems, m_nItems)
  BY ListFacts DEF ListInv
<1>1. /\ DOMAIN map = {m_pItems[k].hashValue : k \in 0 .. m_nItems - 1}
      /\ \A k \in 0 .. m_nItems - 1 : map[m_pItems[k].hashValue] = m_pItems[k].data
  BY <1>0, MapOfSorted
<1>2. map = [x \in DOMAIN map |-> map[x]]
  BY DEF MapOf
<1> QED
  BY <1>1, <1>2

\* The search tells whether the map has the hash.
LEMMA FoundInMap ==
    ASSUME ListInv, pc \in {"found", "missed"}, NEW map, map = MapOf(m_pItems, m_nItems)
    PROVE  /\ pc = "found" <=> request.hash \in DOMAIN map
           /\ pc = "found" => map[request.hash] = m_pItems[window[2]].data
<1>1. CASE pc = "found"
  BY <1>1, ListMap DEF ListInv, Found
<1>2. CASE pc = "missed"
  <2>1. ASSUME NEW k \in 0 .. m_nItems - 1, m_pItems[k].hashValue = request.hash PROVE FALSE
    BY <1>2, <2>1, ListInvSafe DEF InWindow, Used
  <2> QED
    BY <1>2, <2>1, ListMap
<1> QED
  BY <1>1, <1>2

\* A list with the same items has the same map.
LEMMA SameItems ==
    ASSUME ListInv, ListInv', m_nItems' = m_nItems, \A k \in 0 .. m_nItems - 1 : m_pItems'[k] = m_pItems[k]
    PROVE  MapOf(m_pItems, m_nItems)' = MapOf(m_pItems, m_nItems)
<1>1. PICK map : map = MapOf(m_pItems, m_nItems)
  OBVIOUS
<1>2. /\ m_nItems \in Nat /\ Sorted(m_pItems', m_nItems)
      /\ \A k \in 0 .. m_nItems - 1 : m_pItems[k].hashValue \in Nat /\ m_pItems'[k].hashValue \in Nat
  BY ListFacts DEF ListInv, Sorted
<1>3. MapOf(m_pItems', m_nItems) = map
  <2>1. /\ map = [x \in DOMAIN map |-> map[x]]
        /\ \A k \in 0 .. m_nItems - 1 : m_pItems'[k].hashValue \in DOMAIN map
                                         /\ map[m_pItems'[k].hashValue] = m_pItems'[k].data
        /\ \A x \in DOMAIN map : \E k \in 0 .. m_nItems - 1 : m_pItems'[k].hashValue = x
    BY <1>1, ListMap
  <2> QED
    BY <1>2, <2>1, IsMapOf
<1> QED
  BY <1>1, <1>3

\* An add is one of the map.
LEMMA AddIsAdd ==
    ASSUME ListInv, ListInv', AnswerAdd
    PROVE  \E h \in Hashes, d \in Data : Map!Add(h, d)
<1>0. request.name = "add" /\ request.hash \in Hashes /\ request.data \in Data
  BY AddSteps
<1>1. PICK map : map = MapOf(m_pItems, m_nItems)
  OBVIOUS
<1>2. CASE pc = "found"
  <2>1. Answer(FALSE) /\ UNCHANGED <<m_pItems, m_nItems, m_maxItems>>
    BY <1>2, AddSteps
  <2>2. request.hash \in DOMAIN map
    BY <1>1, <1>2, FoundInMap
  <2>3. answer' = [op |-> "add", hash |-> request.hash, result |-> FALSE]
    BY <1>0, <2>1 DEF Answer
  <2>4. MapOf(m_pItems, m_nItems)' = MapOf(m_pItems, m_nItems)
    BY <2>1
  <2>5. Map!Add(request.hash, request.data)
    BY <1>1, <2>2, <2>3, <2>4 DEF Map!Add, Map!Answer
  <2> QED
    BY <1>0, <2>5
<1>3. CASE pc = "missed"
  <2>1. PICK p : p = IndexForHash
    OBVIOUS
  <2>2. Answer(TRUE) /\ Inserted(p)
    BY <1>3, <2>1, AddSteps
  <2>3. request.hash \notin DOMAIN map
    BY <1>1, <1>3, FoundInMap
  <2>4. answer' = [op |-> "add", hash |-> request.hash, result |-> TRUE]
    BY <1>0, <2>2 DEF Answer
  <2>5. PICK f : f = [x \in DOMAIN map \cup {request.hash} |-> IF x = request.hash THEN request.data ELSE map[x]]
    OBVIOUS
  <2>6. m_nItems \in Nat /\ p \in 0 .. m_nItems /\ m_nItems' = m_nItems + 1
    BY <2>2, ListFacts DEF Inserted
  <2>7. ASSUME NEW k \in 0 .. m_nItems' - 1
        PROVE  m_pItems'[k].hashValue \in DOMAIN f /\ f[m_pItems'[k].hashValue] = m_pItems'[k].data
    <3>1. \/ k = p /\ m_pItems'[k].hashValue = request.hash /\ m_pItems'[k].data = request.data
          \/ k < p /\ k \in 0 .. m_nItems - 1 /\ m_pItems'[k] = m_pItems[k]
          \/ p < k /\ k - 1 \in 0 .. m_nItems - 1 /\ p <= k - 1 /\ m_pItems'[k] = m_pItems[k - 1]
      BY ONLY ListInv, <2>2, k \in 0 .. m_nItems' - 1, InsertedFrom
    <3>2. CASE m_pItems'[k].hashValue = request.hash /\ m_pItems'[k].data = request.data
      BY <3>2, <2>5
    <3>3. ASSUME NEW j \in 0 .. m_nItems - 1, m_pItems'[k] = m_pItems[j]
          PROVE  m_pItems'[k].hashValue \in DOMAIN f /\ f[m_pItems'[k].hashValue] = m_pItems'[k].data
      <4>1. m_pItems[j].hashValue \in DOMAIN map /\ map[m_pItems[j].hashValue] = m_pItems[j].data
        BY <1>1, ListMap
      <4> QED
        BY <3>3, <4>1, <2>3, <2>5
    <3> QED
      BY <3>1, <3>2, <3>3
  <2>8. ASSUME NEW x \in DOMAIN f
        PROVE  \E k \in 0 .. m_nItems' - 1 : m_pItems'[k].hashValue = x
    <3>1. CASE x = request.hash
      BY <3>1, <2>2, <2>6 DEF Inserted
    <3>2. CASE x # request.hash
      <4>1. x \in DOMAIN map
        BY <3>2, <2>5
      <4>2. PICK k \in 0 .. m_nItems - 1 : m_pItems[k].hashValue = x
        BY <4>1, <1>1, ListMap
      <4>3. CASE k < p
        <5>1. m_pItems'[k] = m_pItems[k] /\ k \in 0 .. m_nItems' - 1
          BY <4>3, <2>2, <2>6 DEF Inserted
        <5> QED
          BY <5>1, <4>2
      <4>4. CASE p <= k
        <5>1. m_pItems'[k + 1] = m_pItems[k] /\ k + 1 \in 0 .. m_nItems' - 1
          BY <4>4, <2>2, <2>6 DEF Inserted
        <5> QED
          BY <5>1, <4>2
      <4> QED
        BY <4>3, <4>4, <2>6
    <3> QED
      BY <3>1, <3>2
  <2>9. f = [x \in DOMAIN f |-> f[x]]
    BY <2>5
  <2>10. MapOf(m_pItems', m_nItems') = f
    BY <2>7, <2>8, <2>9, NextFacts, IsMapOf
  <2>11. Map!Add(request.hash, request.data)
    BY <1>1, <2>3, <2>4, <2>5, <2>10 DEF Map!Add, Map!Answer
  <2> QED
    BY <1>0, <2>11
<1> QED
  BY <1>2, <1>3 DEF AnswerAdd

\* A remove is one of the map.
LEMMA RemoveIsRemove ==
    ASSUME ListInv, ListInv', AnswerRemove
    PROVE  \E h \in Hashes : Map!Remove(h)
<1>0. request.name = "remove" /\ request.hash \in Hashes
  BY RemoveSteps
<1>1. PICK map : map = MapOf(m_pItems, m_nItems)
  OBVIOUS
<1>2. PICK f : f = [x \in DOMAIN map \ {request.hash} |-> map[x]]
  OBVIOUS
<1>3. CASE pc = "missed"
  <2>1. Answer(FALSE) /\ UNCHANGED <<m_pItems, m_nItems, m_maxItems>>
    BY <1>3, RemoveSteps
  <2>2. request.hash \notin DOMAIN map
    BY <1>1, <1>3, FoundInMap
  <2>3. answer' = [op |-> "remove", hash |-> request.hash, result |-> FALSE]
    BY <1>0, <2>1 DEF Answer
  <2>4. MapOf(m_pItems, m_nItems)' = MapOf(m_pItems, m_nItems)
    BY <2>1
  <2>5. map = [x \in DOMAIN map |-> map[x]]
    BY <1>1, ListMap
  <2>6. DOMAIN map \ {request.hash} = DOMAIN map
    BY <2>2
  <2>7. f = map
    BY <1>2, <2>5, <2>6
  <2>8. MapOf(m_pItems, m_nItems)' = f
    BY <1>1, <2>4, <2>7
  <2>9. (request.hash \in DOMAIN map) = FALSE
    BY <2>2
  <2>10. Map!Remove(request.hash)
    BY <1>1, <1>2, <2>9, <2>3, <2>8, Zenon DEF Map!Remove, Map!Answer
  <2> QED
    BY <1>0, <2>10
<1>4. CASE pc = "found"
  <2>1. PICK p : p = IndexForHash
    OBVIOUS
  <2>2. Answer(TRUE) /\ Removed(p)
    BY <1>4, <2>1, RemoveSteps
  <2>3. request.hash \in DOMAIN map
    BY <1>1, <1>4, FoundInMap
  <2>4. answer' = [op |-> "remove", hash |-> request.hash, result |-> TRUE]
    BY <1>0, <2>2 DEF Answer
  <2>5. /\ m_nItems \in Nat /\ p \in 0 .. m_nItems - 1 /\ m_nItems' = m_nItems - 1
        /\ m_pItems[p].hashValue = request.hash
    BY <2>2, ListFacts DEF Removed
  <2>6. \A k \in 0 .. m_nItems - 1 : k # p => m_pItems[k].hashValue # request.hash
    <3>1. TAKE k \in 0 .. m_nItems - 1
    <3>2. m_pItems[k].hashValue \in Nat /\ m_pItems[p].hashValue \in Nat
      BY <2>5, ListFacts
    <3>3. /\ k < p => m_pItems[k].hashValue < m_pItems[p].hashValue
          /\ p < k => m_pItems[p].hashValue < m_pItems[k].hashValue
      BY <2>5 DEF ListInv, Sorted
    <3> QED
      BY <3>2, <3>3, <2>5
  <2>7. ASSUME NEW i \in 0 .. m_nItems' - 1
        PROVE  m_pItems'[i].hashValue \in DOMAIN f /\ f[m_pItems'[i].hashValue] = m_pItems'[i].data
    <3>1. PICK k \in 0 .. m_nItems - 1 : m_pItems'[i] = m_pItems[k] /\ k # p
      BY <2>2, RemovedFrom
    <3>2. m_pItems[k].hashValue \in DOMAIN map /\ map[m_pItems[k].hashValue] = m_pItems[k].data
      BY <1>1, ListMap
    <3> QED
      BY <3>1, <3>2, <2>6, <1>2
  <2>8. ASSUME NEW x \in DOMAIN f
        PROVE  \E i \in 0 .. m_nItems' - 1 : m_pItems'[i].hashValue = x
    <3>1. x \in DOMAIN map /\ x # request.hash
      BY <1>2
    <3>2. PICK k \in 0 .. m_nItems - 1 : m_pItems[k].hashValue = x
      BY <3>1, <1>1, ListMap
    <3>3. k # p
      BY <3>1, <3>2, <2>5
    <3>4. PICK i : i = IF k < p THEN k ELSE k - 1
      OBVIOUS
    <3>5. i \in 0 .. m_nItems' - 1 /\ i \in 0 .. m_nItems - 2 /\ k = IF i < p THEN i ELSE i + 1
      BY <3>3, <3>4, <2>5
    <3>6. m_pItems'[i] = m_pItems[k]
      BY <3>5, <2>2 DEF Removed
    <3> QED
      BY <3>2, <3>5, <3>6
  <2>9. f = [x \in DOMAIN f |-> f[x]]
    BY <1>2
  <2>10. MapOf(m_pItems', m_nItems') = f
    BY <2>7, <2>8, <2>9, NextFacts, IsMapOf
  <2>11. Map!Remove(request.hash)
    BY <1>1, <1>2, <2>3, <2>4, <2>10 DEF Map!Remove, Map!Answer
  <2> QED
    BY <1>0, <2>11
<1> QED
  BY <1>3, <1>4 DEF AnswerRemove

\* setDataByIndex sets data of the map.
LEMMA SetIsSet ==
    ASSUME ListInv, ListInv', SetDataByIndex
    PROVE  \E h \in Hashes, d \in Data : Map!SetData(h, d)
<1>1. PICK i \in 0 .. m_nItems - 1, d \in Data :
         /\ m_pItems[i].hashValue \in Hashes
         /\ answer' = [op |-> "set", hash |-> m_pItems[i].hashValue, result |-> TRUE]
         /\ \A k \in 0 .. m_nItems - 1 : m_pItems'[k].hashValue = m_pItems[k].hashValue
         /\ \A k \in 0 .. m_nItems - 1 : m_pItems'[k].data = IF k = i THEN d ELSE m_pItems[k].data
  BY SetSteps
<1>2. m_nItems' = m_nItems
  BY SetSteps
<1>3. PICK map : map = MapOf(m_pItems, m_nItems)
  OBVIOUS
<1>4. PICK h \in Hashes : h = m_pItems[i].hashValue
  BY <1>1
<1>5. PICK f : f = [map EXCEPT ![h] = d]
  OBVIOUS
<1>6. /\ map = [x \in DOMAIN map |-> map[x]] /\ h \in DOMAIN map
      /\ \A k \in 0 .. m_nItems - 1 : m_pItems[k].hashValue \in DOMAIN map
                                       /\ map[m_pItems[k].hashValue] = m_pItems[k].data
      /\ \A x \in DOMAIN map : \E k \in 0 .. m_nItems - 1 : m_pItems[k].hashValue = x
  BY <1>3, <1>4, ListMap
<1>7. DOMAIN f = DOMAIN map /\ f = [x \in DOMAIN f |-> f[x]] /\ \A x \in DOMAIN map : f[x] = IF x = h THEN d ELSE map[x]
  BY <1>5, <1>6
<1>8. \A k \in 0 .. m_nItems - 1 : k # i => m_pItems[k].hashValue # h
  <2>1. TAKE k \in 0 .. m_nItems - 1
  <2>2. m_pItems[k].hashValue \in Nat /\ m_pItems[i].hashValue \in Nat
    BY ListFacts
  <2>3. /\ k < i => m_pItems[k].hashValue < m_pItems[i].hashValue
        /\ i < k => m_pItems[i].hashValue < m_pItems[k].hashValue
    BY DEF ListInv, Sorted
  <2> QED
    BY <2>2, <2>3, <1>4
<1>9. \A k \in 0 .. m_nItems' - 1 : m_pItems'[k].hashValue \in DOMAIN f /\ f[m_pItems'[k].hashValue] = m_pItems'[k].data
  <2>1. TAKE k \in 0 .. m_nItems' - 1
  <2>2. k \in 0 .. m_nItems - 1
    BY <1>2
  <2>3. m_pItems'[k].hashValue = m_pItems[k].hashValue /\ m_pItems'[k].data = IF k = i THEN d ELSE m_pItems[k].data
    BY <1>1, <2>2
  <2> QED
    BY <2>2, <2>3, <1>4, <1>6, <1>7, <1>8
<1>10. \A x \in DOMAIN f : \E k \in 0 .. m_nItems' - 1 : m_pItems'[k].hashValue = x
  BY <1>1, <1>2, <1>6, <1>7
<1>11. MapOf(m_pItems', m_nItems') = f
  BY <1>7, <1>9, <1>10, NextFacts, IsMapOf
<1>12. Map!SetData(h, d)
  BY <1>1, <1>3, <1>4, <1>5, <1>6, <1>11 DEF Map!SetData, Map!Answer
<1> QED
  BY <1>4, <1>12

\* Every step of the list is a step of the map or changes neither it nor the answer.
LEMMA MapStep == ListInv /\ ListInv' /\ [ListNext]_listVars => [Map!Next]_(Map!vars)
<1> SUFFICES ASSUME ListInv, ListInv', [ListNext]_listVars PROVE [Map!Next]_(Map!vars)
  OBVIOUS
<1>0. ASSUME UNCHANGED <<m_pItems, m_nItems>>
      PROVE  MapOf(m_pItems, m_nItems)' = MapOf(m_pItems, m_nItems)
  BY <1>0
<1>1. CASE UNCHANGED listVars
  BY <1>0, <1>1 DEF listVars, Map!vars
<1>2. CASE ItemExists \/ FindByHash \/ AddByHash \/ RemoveByHash
  BY <1>0, <1>2 DEF ItemExists, FindByHash, AddByHash, RemoveByHash, ListCall, Map!vars
<1>3. CASE Probe
  BY <1>0, <1>3 DEF Probe, Map!vars
<1>4. CASE AnswerExists
  <2>1. /\ pc \in {"found", "missed"} /\ UNCHANGED <<m_pItems, m_nItems>> /\ request.hash \in Hashes
        /\ answer' = [op |-> "exists", hash |-> request.hash, result |-> (pc = "found")]
    BY <1>4 DEF AnswerExists, Answer, ListInv, ListTypes
  <2>2. (pc = "found") <=> request.hash \in DOMAIN MapOf(m_pItems, m_nItems)
    BY <2>1, FoundInMap
  <2>3. Map!Exists(request.hash)
    BY <1>0, <2>1, <2>2 DEF Map!Exists, Map!Answer
  <2> QED
    BY <2>1, <2>3 DEF Map!Next
<1>5. CASE AnswerFind
  <2>1. /\ pc \in {"found", "missed"} /\ UNCHANGED <<m_pItems, m_nItems>> /\ request.hash \in Hashes
        /\ answer' = [op |-> "find", hash |-> request.hash,
                      result |-> IF pc = "found" THEN m_pItems[window[2]].data ELSE Nothing]
    BY <1>5 DEF AnswerFind, Answer, ListInv, ListTypes
  <2>2. /\ pc = "found" <=> request.hash \in DOMAIN MapOf(m_pItems, m_nItems)
        /\ pc = "found" => MapOf(m_pItems, m_nItems)[request.hash] = m_pItems[window[2]].data
    BY <2>1, FoundInMap
  <2>3. Map!Find(request.hash)
    BY <1>0, <2>1, <2>2 DEF Map!Find, Map!Answer
  <2> QED
    BY <2>1, <2>3 DEF Map!Next
<1>6. CASE AnswerAdd
  BY <1>6, AddIsAdd DEF Map!Next
<1>7. CASE AnswerRemove
  BY <1>7, RemoveIsRemove DEF Map!Next
<1>8. CASE SetDataByIndex
  BY <1>8, SetIsSet DEF Map!Next
<1>9. CASE ListClear
  <2>1. m_nItems' = 0 /\ answer' = answer
    BY <1>9 DEF ListClear
  <2>2. MapOf(m_pItems, m_nItems)' = [h \in {} |-> h]
    BY <2>1 DEF MapOf
  <2>3. Map!Clear
    BY <2>1, <2>2 DEF Map!Clear
  <2> QED
    BY <2>3 DEF Map!Next
<1>10. CASE Resize
  <2>1. m_nItems' = m_nItems /\ answer' = answer /\ \A k \in 0 .. m_nItems - 1 : m_pItems'[k] = m_pItems[k]
    BY <1>10, ResizeSteps
  <2>2. MapOf(m_pItems, m_nItems)' = MapOf(m_pItems, m_nItems)
    BY <2>1, SameItems
  <2> QED
    BY <2>1, <2>2 DEF Map!vars
<1> QED
  BY <1>1, <1>2, <1>3, <1>4, <1>5, <1>6, <1>7, <1>8, <1>9, <1>10 DEF ListNext

\* DRHashList, for any hashes, data and memory: the binary search and the moving of items implement a map.
THEOREM ListImplementsMap == ListSpec => ListIsMap
<1>1. ListInit => Map!Init
  <2> SUFFICES ASSUME ListInit PROVE Map!Init
    OBVIOUS
  <2>1. m_nItems = 0
    BY DEF ListInit
  <2>2. MapOf(m_pItems, m_nItems) = [h \in {} |-> h]
    BY <2>1 DEF MapOf
  <2> QED
    BY <2>2 DEF ListInit, Map!Init
<1> QED
  BY <1>1, ListInitInv, ListStepInv, ListInvSafe, MapStep, PTL DEF ListSpec, ListIsMap, MapSpec, Map!Spec
=============================================================================
