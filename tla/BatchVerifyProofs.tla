------------------------- MODULE BatchVerifyProofs -------------------------
(***************************************************************************)
(* Proof that verifySignatures returns only after every transaction that   *)
(* was there at the call has been verified, for any number of processors,  *)
(* transactions, page and batch sizes.  A transaction of a page that was   *)
(* read is always held somewhere: in the page, the queue, a batch or among *)
(* the verified ones; at the return the first three are empty.             *)
(*                                                                         *)
(* OnceInv, for what is returned: what the workers have entered so far are *)
(* the verified transactions with a wrong signature, and unless the pages  *)
(* have moved a transaction is held in one of these places only.           *)
(***************************************************************************)
EXTENDS BatchVerify, SequenceTheorems, TLAPS

(***************************************************************************)
(* The places a transaction can be counted from the end or the beginning:  *)
(* a place that was read belongs to a page before the current one.         *)
(***************************************************************************)
Place(t) == IF direction = "ASC" THEN t ELSE size + 1 - t
Read(t) == Place(t) <= Before
    \/ (mpc \in {"push", "one"} /\ Place(t) <= Before + PageSize)

(***************************************************************************)
(* The inductive invariant: what was read is held, when done is set        *)
(* everything is held, a page is only held between reading and pushing it, *)
(* a batch only by a worker that verifies, and a worker exits only after   *)
(* done with an empty queue, which nobody fills any more.                  *)
(***************************************************************************)
NothingLost ==
    /\ ~done => \A t \in 1 .. Start : Read(t) => Held(t)
    /\ done => \A t \in 1 .. Start : Held(t)
Phases ==
    /\ done => mpc \notin {"size", "find", "push", "one", "wait", "asleep"}
    /\ mpc \in {"lock", "join", "returned"} => done
    /\ mpc = "returned" => \A w \in Workers : wpc[w] = "exited"
    /\ got # <<>> => mpc = "push"
    /\ \A w \in Workers : batch[w] # <<>> => wpc[w] = "verify"
    /\ \A w \in Workers : w <= threads /\ wpc[w] = "exited" => done /\ queue = <<>>
IInv == TypeOK /\ NothingLost /\ Phases

-----------------------------------------------------------------------------
(* What the helpers on sequences and numbers give. *)

(* What an element of a sequence is. *)
LEMMA IsElement ==
    ASSUME NEW s \in Seq(Nat), NEW x
    PROVE  x \in Elements(s) <=> \E i \in 1 .. Len(s) : s[i] = x
BY DEF Elements

(* The elements of two sequences, one after the other. *)
LEMMA ConcatElements ==
    ASSUME NEW s \in Seq(Nat), NEW u \in Seq(Nat), NEW x,
           x \in Elements(s) \/ x \in Elements(u)
    PROVE  x \in Elements(s \o u)
<1>1. s \o u \in Seq(Nat) /\ Len(s \o u) = Len(s) + Len(u) /\ Len(s) \in Nat /\ Len(u) \in Nat
  OBVIOUS
<1>2. CASE x \in Elements(s)
  <2>1. PICK i \in 1 .. Len(s) : s[i] = x
    BY <1>2, IsElement
  <2>2. (s \o u)[i] = x /\ i \in 1 .. Len(s \o u)
    BY <2>1, <1>1
  <2> QED BY <2>2, <1>1, IsElement
<1>3. CASE x \in Elements(u)
  <2>1. PICK i \in 1 .. Len(u) : u[i] = x
    BY <1>3, IsElement
  <2>2. (s \o u)[Len(s) + i] = x /\ Len(s) + i \in 1 .. Len(s \o u)
    BY <2>1, <1>1
  <2> QED BY <2>2, <1>1, IsElement
<1> QED BY <1>2, <1>3

(* The two parts a sequence is split into. *)
LEMMA SplitParts ==
    ASSUME NEW q \in Seq(Nat), NEW n \in 0 .. Len(q)
    PROVE  /\ Pick(n, q) \in Seq(Nat) /\ Len(Pick(n, q)) = n
           /\ \A i \in 1 .. n : Pick(n, q)[i] = q[i]
           /\ Leave(n, q) \in Seq(Nat) /\ Len(Leave(n, q)) = Len(q) - n
           /\ \A i \in 1 .. Len(q) - n : Leave(n, q)[i] = q[n + i]
<1>0. Len(q) \in Nat /\ n \in Nat /\ n <= Len(q) /\ (\A i \in 1 .. Len(q) : q[i] \in Nat)
  OBVIOUS
<1>1. Pick(n, q) \in Seq(Nat) /\ Len(Pick(n, q)) = n
      /\ \A i \in 1 .. n : Pick(n, q)[i] = q[i]
  BY <1>0, SubSeqProperties DEF Pick
<1>2. n + 1 \in 1 .. Len(q) + 1 /\ Len(q) \in n .. Len(q)
  BY <1>0
<1>3. /\ SubSeq(q, n + 1, Len(q)) \in Seq(Nat)
      /\ Len(SubSeq(q, n + 1, Len(q))) = Len(q) - n
      /\ \A i \in 1 .. Len(q) - n : SubSeq(q, n + 1, Len(q))[i] = q[n + i]
  BY <1>0, <1>2, SubSeqProperties
<1> QED BY <1>1, <1>3 DEF Leave

(* Taking the front of a sequence loses nothing. *)
LEMMA SplitElements ==
    ASSUME NEW q \in Seq(Nat), NEW n \in 0 .. Len(q)
    PROVE  /\ Pick(n, q) \in Seq(Nat) /\ Leave(n, q) \in Seq(Nat)
           /\ \A x : x \in Elements(q) =>
                 x \in Elements(Pick(n, q)) \/ x \in Elements(Leave(n, q))
<1>0. Len(q) \in Nat /\ n \in Nat /\ n <= Len(q)
  OBVIOUS
<1>1. Pick(n, q) \in Seq(Nat) /\ Len(Pick(n, q)) = n
      /\ \A i \in 1 .. n : Pick(n, q)[i] = q[i]
  BY SplitParts
<1>2. Leave(n, q) \in Seq(Nat) /\ Len(Leave(n, q)) = Len(q) - n
      /\ \A i \in 1 .. Len(q) - n : Leave(n, q)[i] = q[n + i]
  BY SplitParts
<1>3. ASSUME NEW i \in 1 .. Len(q)
      PROVE  q[i] \in Elements(Pick(n, q)) \/ q[i] \in Elements(Leave(n, q))
  <2>1. CASE i <= n
    <3>1. i \in 1 .. Len(Pick(n, q)) /\ Pick(n, q)[i] = q[i]
      BY <2>1, <1>1, <1>0
    <3> QED BY <3>1, <1>1, IsElement
  <2>2. CASE i > n
    <3>1. i - n \in 1 .. Len(q) - n /\ n + (i - n) = i
      BY <2>2, <1>0
    <3>2. Leave(n, q)[i - n] = q[i] /\ i - n \in 1 .. Len(Leave(n, q))
      BY <3>1, <1>2
    <3> QED BY <3>2, <1>2, IsElement
  <2> QED BY <2>1, <2>2, <1>0
<1>4. ASSUME NEW x, x \in Elements(q)
      PROVE  x \in Elements(Pick(n, q)) \/ x \in Elements(Leave(n, q))
  <2>1. PICK i \in 1 .. Len(q) : q[i] = x
    BY <1>4, IsElement
  <2> QED BY <2>1, <1>3
<1> QED BY <1>1, <1>2, <1>4

(* Nor does taking the head. *)
LEMMA HeadElements ==
    ASSUME NEW q \in Seq(Nat), q # <<>>
    PROVE  /\ Head(q) \in Nat /\ Tail(q) \in Seq(Nat)
           /\ \A x : x \in Elements(q) => x = Head(q) \/ x \in Elements(Tail(q))
<1>1. Head(q) = q[1] /\ Tail(q) \in Seq(Nat) /\ Len(q) \in Nat
      /\ Len(Tail(q)) = Len(q) - 1 /\ Head(q) \in Nat
  OBVIOUS
<1>2. \A i \in 1 .. Len(q) - 1 : Tail(q)[i] = q[i + 1]
  OBVIOUS
<1>3. ASSUME NEW x, x \in Elements(q)
      PROVE  x = Head(q) \/ x \in Elements(Tail(q))
  <2>1. PICK i \in 1 .. Len(q) : q[i] = x
    BY <1>3, IsElement
  <2>2. CASE i = 1
    BY <2>1, <2>2, <1>1
  <2>3. CASE i > 1
    <3>1. i - 1 \in 1 .. Len(q) - 1 /\ (i - 1) + 1 = i
      BY <2>3, <1>1
    <3>2. Tail(q)[i - 1] = x /\ i - 1 \in 1 .. Len(Tail(q))
      BY <3>1, <1>2, <1>1, <2>1
    <3> QED BY <3>2, <1>1, IsElement
  <2> QED BY <2>2, <2>3, <1>1
<1> QED BY <1>1, <1>3

(* resolveThreadCount gives at least one thread and no more than there are processors. *)
LEMMA SomeThread ==
    ASSUME NEW p \in Policies
    PROVE  ThreadCount(p) \in Workers
<1>1. Hardware \in Nat
  BY NumberAssumption
<1>2. Hardware # 0 => /\ Hardware \div 4 \in 0 .. Hardware /\ Hardware \div 2 \in 0 .. Hardware
                      /\ (Hardware * 3) \div 4 \in 0 .. Hardware
  BY <1>1
<1>3. CASE Hardware = 0
  BY <1>3 DEF ThreadCount, Workers, MaxThreads, Largest
<1>4. CASE Hardware # 0
  <2>1. MaxThreads = Hardware
    BY <1>4, <1>1 DEF MaxThreads, Largest
  <2>2. \A n \in 0 .. Hardware : Largest(1, n) \in 1 .. Hardware
    BY <1>4, <1>1 DEF Largest
  <2>3. ThreadCount(p) \in 1 .. Hardware
    <3>1. CASE p \in {"single", "all"}
      BY <3>1, <1>4, <1>1 DEF ThreadCount
    <3>2. CASE p = "quarter"
      BY <3>2, <1>4, <1>2, <2>2 DEF ThreadCount
    <3>3. CASE p = "half"
      BY <3>3, <1>4, <1>2, <2>2 DEF ThreadCount
    <3>4. CASE p = "threequarter"
      BY <3>4, <1>4, <1>2, <2>2 DEF ThreadCount
    <3>5. CASE p = "allexceptone"
      BY <3>5, <1>4, <1>1 DEF ThreadCount
    <3> QED BY <3>1, <3>2, <3>3, <3>4, <3>5, NumberAssumption
  <2> QED BY <2>1, <2>3 DEF Workers
<1> QED BY <1>3, <1>4

-----------------------------------------------------------------------------
(* The numbers of a page are a sequence of numbers. *)
LEMMA OnPageType ==
    ASSUME TypeOK, PageLength # 0
    PROVE  OnPage \in Seq(Nat)
<1>1. PICK b \in Nat : b = Before
  BY NumberAssumption DEF TypeOK, Before
<1>2. PageLength \in Nat /\ b + PageLength <= size
  BY <1>1, NumberAssumption DEF PageLength, TypeOK
<1>3. \A i \in 1 .. PageLength : NumberAt(Before + i) \in Nat
  BY <1>1, <1>2 DEF NumberAt, TypeOK
<1> QED BY <1>2, <1>3 DEF OnPage

(* So is what is read of it. *)
LEMMA PageType ==
    ASSUME TypeOK, PageLength # 0
    PROVE  FindAll \in Seq(Nat)
BY OnPageType, ConcatProperties DEF FindAll

(* The page that is read holds the next places. *)
LEMMA PageHolds ==
    ASSUME TypeOK, NEW t \in 1 .. Start, NEW b \in Nat, b = Before,
           Place(t) > b, Place(t) <= b + PageSize
    PROVE  PageLength # 0 /\ t \in Elements(FindAll)
<1>1. size \in Nat /\ size >= Start /\ t \in Nat /\ t >= 1 /\ t <= Start
      /\ PageSize \in Nat /\ Start \in Nat
  BY NumberAssumption DEF TypeOK
<1>2. Place(t) \in 1 .. size
  BY <1>1 DEF Place, TypeOK
<1>3. PageLength \in Nat /\ Place(t) <= b + PageLength
  BY <1>1, <1>2 DEF PageLength
<1>4. Place(t) - b \in 1 .. PageLength /\ b + (Place(t) - b) = Place(t)
  BY <1>2, <1>3
<1>5. NumberAt(b + (Place(t) - b)) = t
  BY <1>1, <1>4 DEF NumberAt, Place, TypeOK
<1>6. DOMAIN OnPage = 1 .. PageLength /\ OnPage[Place(t) - b] = t
  BY <1>4, <1>5 DEF OnPage
<1>7. PageLength # 0 /\ t \in Elements(OnPage)
  BY <1>3, <1>4, <1>6 DEF Elements
<1>8. OnPage \in Seq(Nat)
  BY <1>7, OnPageType
<1> QED BY <1>7, <1>8, ConcatElements DEF FindAll

(* Initially nothing was read. *)
LEMMA InitIInv == Init => IInv
<1> SUFFICES ASSUME Init PROVE IInv
  OBVIOUS
<1>1. threads \in Workers
  BY SomeThread DEF Init
<1>2. TypeOK
  <2>1. direction \in {"ASC", "DESC"} /\ size \in Nat /\ size >= Start
    BY NumberAssumption DEF Init
  <2>2. wpc \in [Workers -> {"start", "notify", "test", "blocking", "asleep", "verify", "exited"}]
    BY DEF Init
  <2>3. batch \in [Workers -> Seq(Nat)]
    BY DEF Init
  <2>4. got \in Seq(Nat) /\ queue \in Seq(Nat) /\ invalid \in Seq(Nat)
    BY DEF Init
  <2>5. page = 1 /\ done = FALSE /\ verified = {} /\ mpc = "size"
    BY DEF Init
  <2>6. page \in Nat \ {0}
    BY <2>5
  <2>8. done \in BOOLEAN
    BY <2>5, Zenon
  <2>7. verified \subseteq Nat
    BY <2>5
  <2> QED BY <1>1, <2>1, <2>2, <2>3, <2>4, <2>5, <2>6, <2>7, <2>8, Zenon DEF TypeOK
<1>3. ASSUME NEW t \in 1 .. Start
      PROVE  ~Read(t)
  <2>1. Before = 0
    BY NumberAssumption DEF Init, Before
  <2>2. Place(t) > 0
    BY <1>2, NumberAssumption DEF Place, TypeOK
  <2>3. Place(t) \in Int
    BY <1>2, NumberAssumption DEF Place, TypeOK
  <2>4. ~(Place(t) <= Before)
    BY <2>1, <2>2, <2>3
  <2> QED BY <2>4 DEF Init, Read
<1>4. NothingLost
  BY <1>3 DEF Init, NothingLost
<1>5. Phases
  BY DEF Init, Phases
<1> QED BY <1>2, <1>4, <1>5 DEF IInv

(* A step that moves nothing and reads nothing keeps what is held. *)
LEMMA QuietStep ==
    ASSUME TypeOK, NothingLost,
           UNCHANGED <<direction, size, page, got, queue, done, batch, verified>>,
           mpc' \in {"push", "one"} => mpc \in {"push", "one"}
    PROVE  NothingLost'
<1>1. \A t \in 1 .. Start : Held(t)' <=> Held(t)
  BY DEF Held
<1>2. \A t \in 1 .. Start : Read(t)' => Read(t)
  BY DEF Read, Place, Before
<1> QED BY <1>1, <1>2 DEF NothingLost

(* A step that moves transactions from one holder to another. *)
LEMMA MovingStep ==
    ASSUME TypeOK, NothingLost, UNCHANGED <<direction, size, page, done>>,
           mpc' \in {"push", "one"} => mpc \in {"push", "one"},
           \A t \in 1 .. Start : Held(t) => Held(t)'
    PROVE  NothingLost'
<1>1. \A t \in 1 .. Start : Read(t)' => Read(t)
  BY DEF Read, Place, Before
<1> QED BY <1>1 DEF NothingLost

(* A worker takes a batch. *)
LEMMA TakeStep ==
    ASSUME IInv, NEW w \in Workers, Take(w), queue # <<>>, wpc[w] # "verify",
           wpc[w] # "exited",
           UNCHANGED <<threads, direction, size, page, got, done, mpc, invalid, verified>>
    PROVE  IInv'
<1>1. Len(queue) \in Nat /\ BatchLength \in 0 .. Len(queue)
  BY NumberAssumption DEF IInv, TypeOK, BatchLength
<1>2. /\ Pick(BatchLength, queue) \in Seq(Nat) /\ Leave(BatchLength, queue) \in Seq(Nat)
      /\ \A x : x \in Elements(queue) => x \in Elements(Pick(BatchLength, queue))
                                          \/ x \in Elements(Leave(BatchLength, queue))
  BY <1>1, SplitElements DEF IInv, TypeOK
<1>3. batch[w] = <<>>
  BY DEF IInv, Phases
<1>4. TypeOK'
  BY <1>2 DEF IInv, TypeOK, Take
<1>5. ASSUME NEW t \in 1 .. Start, Held(t)
      PROVE  Held(t)'
  <2>1. CASE t \in Elements(got) \/ t \in verified
    BY <2>1 DEF Held
  <2>2. CASE t \in Elements(queue)
    <3>1. CASE t \in Elements(Pick(BatchLength, queue))
      <4>1. batch'[w] = Pick(BatchLength, queue)
        BY DEF Take, IInv, TypeOK
      <4> QED BY <3>1, <4>1 DEF Held
    <3>2. CASE t \in Elements(Leave(BatchLength, queue))
      BY <3>2 DEF Take, Held
    <3> QED BY <2>2, <3>1, <3>2, <1>2
  <2>3. CASE \E v \in Workers : t \in Elements(batch[v])
    <3>1. PICK v \in Workers : t \in Elements(batch[v])
      BY <2>3
    <3>2. v # w
      BY <3>1, <1>3 DEF Elements
    <3>3. batch'[v] = batch[v]
      BY <3>2 DEF Take, IInv, TypeOK
    <3> QED BY <3>1, <3>3 DEF Held
  <2> QED BY <1>5, <2>1, <2>2, <2>3 DEF Held
<1>6. NothingLost'
  BY <1>5, MovingStep DEF IInv
<1>7. Phases'
  <2>1. \A v \in Workers : wpc'[v] = IF v = w THEN "verify" ELSE wpc[v]
    BY DEF Take, IInv, TypeOK
  <2>2. \A v \in Workers : batch'[v] # <<>> => wpc'[v] = "verify"
    BY <2>1 DEF Take, IInv, TypeOK, Phases
  <2>3. \A v \in Workers : ~(v <= threads' /\ wpc'[v] = "exited")
    BY <2>1 DEF IInv, Phases
  <2>4. mpc' # "returned"
    BY DEF IInv, Phases
  <2> QED BY <2>2, <2>3, <2>4 DEF IInv, Phases
<1> QED BY <1>4, <1>6, <1>7 DEF IInv

(* Every step of master, workers and surroundings keeps the invariant. *)
LEMMA NextIInv == IInv /\ [Next]_vars => IInv'
<1> SUFFICES ASSUME IInv, [Next]_vars PROVE IInv'
  OBVIOUS
<1> USE DEF IInv
<1>1. CASE CheckSize
  <2>1. TypeOK'
    BY <1>1 DEF CheckSize, TypeOK
  <2>2. NothingLost'
    BY <1>1, QuietStep DEF CheckSize
  <2>3. Phases'
    BY <1>1 DEF CheckSize, Phases
  <2> QED BY <2>1, <2>2, <2>3
<1>2. CASE Find
  <2>1. CASE PageLength = 0
    <3>1. TypeOK'
      BY <1>2, <2>1 DEF Find, TypeOK
    <3>2. ASSUME NEW t \in 1 .. Start
          PROVE  Read(t)
      <4>1. PICK b \in Nat : b = Before
        BY NumberAssumption DEF TypeOK, Before
      <4>2. size <= b
        BY <4>1, <2>1, NumberAssumption DEF PageLength, TypeOK
      <4>3. Place(t) <= size
        BY NumberAssumption DEF Place, TypeOK
      <4>4. Place(t) <= Before
        BY <4>1, <4>2, <4>3, NumberAssumption DEF Place, TypeOK
      <4> QED BY <4>4 DEF Read
    <3>3. \A t \in 1 .. Start : Held(t)
      BY <3>2 DEF NothingLost
    <3>4. \A t \in 1 .. Start : Held(t)'
      BY <3>3, <1>2, <2>1 DEF Find, Held
    <3>5. NothingLost'
      BY <3>4, <1>2, <2>1 DEF Find, NothingLost
    <3>6. Phases'
      BY <1>2, <2>1 DEF Find, Phases
    <3> QED BY <3>1, <3>5, <3>6
  <2>2. CASE PageLength # 0
    <3>1. FindAll \in Seq(Nat)
      BY <2>2, PageType
    <3>2. TypeOK'
      BY <1>2, <2>2, <3>1 DEF Find, TypeOK
    <3>3. got = <<>> /\ ~done
      BY <1>2 DEF Phases, Find
    <3>4. ASSUME NEW t \in 1 .. Start, Read(t)'
          PROVE  Held(t)'
      <4>1. PICK b \in Nat : b = Before
        BY NumberAssumption DEF TypeOK, Before
      <4>2. Place(t) <= b \/ Place(t) <= b + PageSize
        BY <3>4, <4>1, <1>2, <2>2 DEF Read, Place, Before, Find
      <4>3. CASE Place(t) <= b
        <5>1. Held(t)
          BY <4>1, <4>3, <3>3 DEF Read, NothingLost
        <5> QED BY <5>1, <3>3, <1>2, <2>2 DEF Find, Held, Elements
      <4>4. CASE Place(t) > b /\ Place(t) <= b + PageSize
        <5>1. t \in Elements(FindAll)
          BY <4>1, <4>4, PageHolds
        <5> QED BY <5>1, <1>2, <2>2 DEF Find, Held
      <4>5. Place(t) \in Int
        BY NumberAssumption DEF Place, TypeOK
      <4> QED BY <4>2, <4>3, <4>4, <4>5
    <3>5. NothingLost'
      BY <3>3, <3>4, <1>2, <2>2 DEF NothingLost, Find
    <3>6. Phases'
      BY <1>2, <2>2, <3>3 DEF Find, Phases
    <3> QED BY <3>2, <3>5, <3>6
  <2> QED BY <2>1, <2>2
<1>3. CASE PushPage
  <2>1. TypeOK'
    BY <1>3, ConcatProperties DEF PushPage, TypeOK
  <2>2. \A t \in 1 .. Start : Held(t) => Held(t)'
    BY <1>3, ConcatElements DEF PushPage, Held, TypeOK
  <2>3. NothingLost'
    BY <1>3, <2>2, MovingStep DEF PushPage
  <2>4. Phases'
    BY <1>3 DEF PushPage, Phases
  <2> QED BY <2>1, <2>3, <2>4
<1>4. CASE NotifyOne
  <2>1. \A w \in Workers : wpc'[w] = wpc[w] \/ (wpc[w] = "asleep" /\ wpc'[w] = "test")
    BY <1>4 DEF NotifyOne, TypeOK
  <2>2. TypeOK'
    <3>1. wpc' \in [Workers -> {"start", "notify", "test", "blocking", "asleep", "verify", "exited"}]
      BY <1>4 DEF NotifyOne, TypeOK
    <3>2. page' \in Nat \ {0}
      BY <1>4 DEF NotifyOne, TypeOK
    <3> QED BY <1>4, <3>1, <3>2 DEF NotifyOne, TypeOK
  <2>3. \A t \in 1 .. Start : Held(t)' <=> Held(t)
    BY <1>4 DEF NotifyOne, Held
  <2>4. ASSUME NEW t \in 1 .. Start, Read(t)'
        PROVE  Read(t)
    <3>1. page' = page + 1 /\ page \in Nat /\ PageSize \in Nat
      BY <1>4, NumberAssumption DEF NotifyOne, TypeOK
    <3>2. (page + 1 - 1) * PageSize = (page - 1) * PageSize + PageSize
      BY <3>1
    <3>3. Before' = Before + PageSize
      BY <3>1, <3>2 DEF Before
    <3>4. Place(t)' = Place(t)
      BY <1>4 DEF NotifyOne, Place
    <3>5. Place(t) <= Before + PageSize
      BY <2>4, <1>4, <3>3, <3>4 DEF Read, NotifyOne
    <3> QED BY <3>5, <1>4 DEF Read, NotifyOne
  <2>5. NothingLost'
    BY <1>4, <2>3, <2>4 DEF NothingLost, NotifyOne
  <2>6. Phases'
    BY <1>4, <2>1 DEF NotifyOne, Phases
  <2> QED BY <2>2, <2>5, <2>6
<1>5. CASE LockAfterDone
  <2>1. NothingLost'
    BY <1>5, QuietStep DEF LockAfterDone
  <2> QED BY <1>5, <2>1 DEF LockAfterDone, TypeOK, Phases
<1>6. CASE NotifyAll
  <2>1. TypeOK'
    BY <1>6 DEF NotifyAll, TypeOK
  <2>2. NothingLost'
    BY <1>6, QuietStep DEF NotifyAll
  <2>3. Phases'
    BY <1>6 DEF NotifyAll, Phases
  <2> QED BY <2>1, <2>2, <2>3
<1>7. CASE MasterWait
  <2>1. NothingLost'
    BY <1>7, QuietStep DEF MasterWait
  <2>2. TypeOK'
    BY <1>7 DEF MasterWait, TypeOK
  <2>3. Phases'
    BY <1>7 DEF MasterWait, Phases
  <2> QED BY <2>1, <2>2, <2>3
<1>8. CASE Join
  <2>1. NothingLost'
    BY <1>8, QuietStep DEF Join
  <2> QED BY <1>8, <2>1 DEF Join, TypeOK, Phases
<1>9. ASSUME NEW w \in Workers, Worker(w)
      PROVE  IInv'
  <2>1. CASE Look(w)
    <3>1. CASE queue = <<>>
      <4>1. NothingLost'
        BY <2>1, <3>1, QuietStep DEF Look
      <4>2. TypeOK'
        BY <2>1, <3>1 DEF Look, TypeOK
      <4>3. Phases'
        BY <2>1, <3>1 DEF Look, Phases, TypeOK
      <4> QED BY <4>1, <4>2, <4>3
    <3>2. CASE queue # <<>>
      BY <2>1, <3>2, TakeStep DEF Look
    <3> QED BY <3>1, <3>2
  <2>2. CASE NotifyMaster(w)
    <3>1. NothingLost'
      BY <2>2, QuietStep DEF NotifyMaster
    <3>2. TypeOK'
      BY <2>2 DEF NotifyMaster, TypeOK
    <3>3. Phases'
      BY <2>2 DEF NotifyMaster, Phases, TypeOK
    <3> QED BY <3>1, <3>2, <3>3
  <2>3. CASE Test(w)
    <3>1. CASE queue = <<>>
      <4>1. NothingLost'
        BY <2>3, <3>1, QuietStep DEF Test
      <4>2. TypeOK'
        BY <2>3, <3>1 DEF Test, TypeOK
      <4>3. Phases'
        BY <2>3, <3>1 DEF Test, Phases, TypeOK
      <4> QED BY <4>1, <4>2, <4>3
    <3>2. CASE queue # <<>>
      BY <2>3, <3>2, TakeStep DEF Test
    <3> QED BY <3>1, <3>2
  <2>4. CASE Sleep(w)
    <3>1. NothingLost'
      BY <2>4, QuietStep DEF Sleep
    <3>2. TypeOK'
      BY <2>4 DEF Sleep, TypeOK
    <3>3. Phases'
      BY <2>4 DEF Sleep, Phases, TypeOK
    <3> QED BY <3>1, <3>2, <3>3
  <2>5. CASE Verify(w)
    <3>0. batch[w] \in Seq(Nat) /\ batch[w] # <<>>
      BY <2>5 DEF Verify, TypeOK
    <3>1. /\ Head(batch[w]) \in Nat /\ Tail(batch[w]) \in Seq(Nat)
          /\ \A x : x \in Elements(batch[w]) =>
                x = Head(batch[w]) \/ x \in Elements(Tail(batch[w]))
      BY <3>0, HeadElements
    <3>2. \A v \in Workers : batch'[v] = IF v = w THEN Tail(batch[w]) ELSE batch[v]
      BY <2>5 DEF Verify, TypeOK
    <3>3. TypeOK'
      <4>0. verified' \subseteq Nat
        BY <2>5, <3>1 DEF Verify, TypeOK
      <4>1. invalid' \in Seq(Nat)
        <5>1. CASE Head(batch[w]) \in Bad
          <6>1. invalid' = Append(invalid, Head(batch[w]))
            BY <5>1, <2>5 DEF Verify
          <6> QED BY <6>1, <3>1 DEF TypeOK
        <5>2. CASE Head(batch[w]) \notin Bad
          BY <5>2, <2>5 DEF Verify, TypeOK
        <5> QED BY <5>1, <5>2
      <4>2. batch' \in [Workers -> Seq(Nat)]
        BY <2>5, <3>1 DEF Verify, TypeOK
      <4> QED BY <2>5, <4>0, <4>1, <4>2 DEF Verify, TypeOK
    <3>4. ASSUME NEW t \in 1 .. Start, Held(t)
          PROVE  Held(t)'
      <4>1. CASE t \in Elements(got) \/ t \in Elements(queue) \/ t \in verified
        BY <4>1, <2>5 DEF Held, Verify
      <4>2. CASE \E v \in Workers : t \in Elements(batch[v])
        <5>1. PICK v \in Workers : t \in Elements(batch[v])
          BY <4>2
        <5>2. t \in verified' \/ t \in Elements(batch'[v])
          BY <5>1, <3>1, <3>2, <2>5 DEF Verify
        <5> QED BY <5>2 DEF Held
      <4> QED BY <3>4, <4>1, <4>2 DEF Held
    <3>5. NothingLost'
      BY <2>5, <3>4, MovingStep DEF Verify
    <3>6. Phases'
      BY <2>5, <3>2 DEF Verify, Phases
    <3> QED BY <3>3, <3>5, <3>6
  <2>6. CASE BatchDone(w)
    <3>1. NothingLost'
      BY <2>6, QuietStep DEF BatchDone
    <3>2. TypeOK'
      BY <2>6 DEF BatchDone, TypeOK
    <3>3. Phases'
      BY <2>6 DEF BatchDone, Phases, TypeOK
    <3> QED BY <3>1, <3>2, <3>3
  <2> QED BY <1>9, <2>1, <2>2, <2>3, <2>4, <2>5, <2>6 DEF Worker
<1>10. CASE Spurious
  <2>1. NothingLost'
    BY <1>10, QuietStep DEF Spurious
  <2>2. TypeOK'
    BY <1>10 DEF Spurious, TypeOK
  <2>3. Phases'
    BY <1>10 DEF Spurious, Phases, TypeOK
  <2> QED BY <2>1, <2>2, <2>3
<1>11. CASE Grow
  <2>1. TypeOK'
    BY <1>11, NumberAssumption DEF Grow, TypeOK
  <2>2. \A t \in 1 .. Start : Held(t)' <=> Held(t)
    BY <1>11 DEF Grow, Held
  <2>3. ASSUME NEW t \in 1 .. Start, Read(t)'
        PROVE  Read(t)
    <3>1. PICK b \in Nat : b = Before
      BY NumberAssumption DEF TypeOK, Before
    <3>2. Before' = b /\ mpc' = mpc
      BY <1>11, <3>1 DEF Grow, Before
    <3>3. Place(t) <= Place(t)' /\ Place(t) \in Int /\ Place(t)' \in Int
      BY <1>11, NumberAssumption DEF Grow, Place, TypeOK
    <3> QED BY <2>3, <3>1, <3>2, <3>3, NumberAssumption DEF Read
  <2>4. NothingLost'
    BY <1>11, <2>2, <2>3 DEF NothingLost, Grow
  <2>5. Phases'
    BY <1>11 DEF Grow, Phases
  <2> QED BY <2>1, <2>4, <2>5
<1>12. CASE UNCHANGED vars
  <2>1. NothingLost'
    BY <1>12, QuietStep DEF vars
  <2> QED BY <1>12, <2>1 DEF vars, TypeOK, Phases
<1> QED BY <1>1, <1>2, <1>3, <1>4, <1>5, <1>6, <1>7, <1>8, <1>9, <1>10, <1>11, <1>12
        DEF Next, Master, Returned

(***************************************************************************)
(* The invariant holds in every state of a call of verifySignatures.       *)
(***************************************************************************)
THEOREM Invariance == Spec => []IInv
BY InitIInv, NextIInv, PTL DEF Spec

(***************************************************************************)
(* When verifySignatures returns, every transaction that was on the        *)
(* blockchain at the call has been verified.                               *)
(***************************************************************************)
THEOREM Complete == Spec => []ReturnedVerified
<1>1. IInv => ReturnedVerified
  <2> SUFFICES ASSUME IInv, mpc = "returned", NEW t \in 1 .. Start
               PROVE  t \in verified
    BY DEF ReturnedVerified
  <2>1. Held(t) /\ got = <<>>
    BY DEF IInv, Phases, NothingLost
  <2>2. queue = <<>>
    BY DEF IInv, Phases, TypeOK, Workers
  <2>3. \A w \in Workers : batch[w] = <<>>
    BY DEF IInv, Phases
  <2>4. Elements(<<>>) = {}
    BY DEF Elements
  <2> QED BY <2>1, <2>2, <2>3, <2>4 DEF Held
<1> QED BY <1>1, Invariance, PTL

-----------------------------------------------------------------------------
(***************************************************************************)
(* What is returned.  The numbers entered are those of the verified        *)
(* transactions with a wrong signature at every moment.  That none is      *)
(* entered twice needs that none is read twice (Still), which holds while  *)
(* the numbers keep their places and no page repeats its only transaction. *)
(* Then a transaction is held at one place only, and what is held was      *)
(* read.                                                                   *)
(***************************************************************************)
Distinct(s) == \A i, j \in DOMAIN s : s[i] = s[j] => i = j

InvalidAreBad == Elements(invalid) = Bad \intersect verified

HeldRead == \A t \in Nat : Held(t) => Read(t)

EachDistinct ==
    /\ Distinct(got) /\ Distinct(queue) /\ Distinct(invalid)
    /\ \A w \in Workers : Distinct(batch[w])

HeldApart ==
    /\ \A t \in Elements(got) : t \notin Elements(queue) /\ t \notin verified
    /\ \A t \in Elements(queue) : t \notin verified
    /\ \A w \in Workers : \A t \in Elements(batch[w]) :
          /\ t \notin Elements(got) /\ t \notin Elements(queue) /\ t \notin verified
          /\ \A v \in Workers : v # w => t \notin Elements(batch[v])

OnceInv == InvalidAreBad /\ (Still => HeldRead /\ EachDistinct /\ HeldApart)

-----------------------------------------------------------------------------
(* Sequences without repetition. *)

(* Two of them without a common element, one after the other. *)
LEMMA ConcatDistinct ==
    ASSUME NEW s \in Seq(Nat), NEW u \in Seq(Nat), Distinct(s), Distinct(u),
           \A x \in Elements(s) : x \notin Elements(u)
    PROVE  /\ Distinct(s \o u)
           /\ \A x \in Elements(s \o u) : x \in Elements(s) \/ x \in Elements(u)
<1>m. PICK m : m = Len(s)
  OBVIOUS
<1>n. PICK n : n = Len(u)
  OBVIOUS
<1>1. /\ m \in Nat /\ n \in Nat /\ s \o u \in Seq(Nat) /\ Len(s \o u) = m + n
      /\ DOMAIN s = 1 .. m /\ DOMAIN u = 1 .. n /\ DOMAIN (s \o u) = 1 .. m + n
  BY <1>m, <1>n
<1>2. /\ \A i \in 1 .. m : (s \o u)[i] = s[i]
      /\ \A i \in 1 .. n : (s \o u)[m + i] = u[i]
  BY <1>m, <1>n
<1>3. \A i \in 1 .. m + n : i \in 1 .. m \/ (i - m \in 1 .. n /\ m + (i - m) = i)
  BY <1>1
<1>4. \A i \in 1 .. m, j \in 1 .. n : s[i] # u[j]
  BY <1>1 DEF Elements
<1>5. \A i \in 1 .. m + n : \/ i \in 1 .. m /\ (s \o u)[i] = s[i]
                            \/ i - m \in 1 .. n /\ (s \o u)[i] = u[i - m]
  BY <1>2, <1>3
<1>6. ASSUME NEW i \in 1 .. m + n, NEW j \in 1 .. m + n, (s \o u)[i] = (s \o u)[j]
      PROVE  i = j
  <2>1. CASE i \in 1 .. m /\ j \in 1 .. m
    BY <1>1, <1>2, <1>6, <2>1 DEF Distinct
  <2>2. CASE i \in 1 .. m /\ j \notin 1 .. m
    BY <1>2, <1>4, <1>5, <1>6, <2>2, ZenonT(60)
  <2>3. CASE i \notin 1 .. m /\ j \in 1 .. m
    <3>1. (s \o u)[j] = s[j] /\ i - m \in 1 .. n /\ (s \o u)[i] = u[i - m]
      BY <1>2, <1>5, <2>3
    <3> QED BY <3>1, <1>4, <1>6, <2>3
  <2>4. CASE i \notin 1 .. m /\ j \notin 1 .. m
    <3>1. i - m \in 1 .. n /\ j - m \in 1 .. n /\ u[i - m] = u[j - m]
      BY <1>5, <1>6, <2>4
    <3>2. i - m = j - m
      BY <3>1, <1>1 DEF Distinct
    <3> QED BY <3>2, <1>1
  <2> QED BY <2>1, <2>2, <2>3, <2>4
<1>7. \A x \in Elements(s \o u) : x \in Elements(s) \/ x \in Elements(u)
  BY <1>1, <1>5 DEF Elements
<1> QED BY <1>1, <1>6, <1>7 DEF Distinct

(* The two parts one is split into. *)
LEMMA SplitDistinct ==
    ASSUME NEW q \in Seq(Nat), Distinct(q), NEW n \in 0 .. Len(q),
           NEW p, p = Pick(n, q), NEW r, r = Leave(n, q)
    PROVE  /\ Distinct(p) /\ Distinct(r)
           /\ \A x \in Elements(p) : x \in Elements(q) /\ x \notin Elements(r)
           /\ \A x \in Elements(r) : x \in Elements(q)
<1>m. PICK m : m = Len(q)
  OBVIOUS
<1>0. m \in Nat /\ n \in Nat /\ n <= m /\ DOMAIN q = 1 .. m
  BY <1>m
<1>1. p \in Seq(Nat) /\ Len(p) = n /\ \A i \in 1 .. n : p[i] = q[i]
  BY SplitParts
<1>2. r \in Seq(Nat) /\ Len(r) = m - n /\ \A i \in 1 .. m - n : r[i] = q[n + i]
  BY <1>m, SplitParts
<1>3. DOMAIN p = 1 .. n /\ DOMAIN r = 1 .. m - n
  BY <1>1, <1>2
<1>4. \A i \in 1 .. n : i \in 1 .. m /\ p[i] = q[i]
  BY <1>0, <1>1
<1>5. \A i \in 1 .. m - n : n + i \in 1 .. m /\ r[i] = q[n + i]
  BY <1>0, <1>2
<1>6. Distinct(p)
  BY <1>0, <1>3, <1>4 DEF Distinct
<1>7. Distinct(r)
  <2> SUFFICES ASSUME NEW i \in 1 .. m - n, NEW j \in 1 .. m - n, r[i] = r[j]
               PROVE  i = j
    BY <1>3 DEF Distinct
  <2>1. n + i = n + j
    BY <1>0, <1>5, ZenonT(60) DEF Distinct
  <2> QED BY <2>1, <1>0
<1>8. ASSUME NEW i \in 1 .. n, NEW j \in 1 .. m - n, p[i] = r[j]
      PROVE  FALSE
  <2>1. i = n + j
    BY <1>0, <1>4, <1>5, <1>8 DEF Distinct
  <2> QED BY <2>1, <1>0
<1>9. \A x \in Elements(p) : x \in Elements(q) /\ x \notin Elements(r)
  <2> TAKE x \in Elements(p)
  <2>1. PICK i \in 1 .. n : x = p[i]
    BY <1>3 DEF Elements
  <2>2. x \in Elements(q)
    BY <2>1, <1>0, <1>4 DEF Elements
  <2>3. x \notin Elements(r)
    BY <2>1, <1>3, <1>8 DEF Elements
  <2> QED BY <2>2, <2>3
<1>10. \A x \in Elements(r) : x \in Elements(q)
  BY <1>0, <1>3, <1>5 DEF Elements
<1> QED BY <1>6, <1>7, <1>9, <1>10

(* Its head does not come again. *)
LEMMA HeadDistinct ==
    ASSUME NEW q \in Seq(Nat), Distinct(q), q # <<>>
    PROVE  /\ Distinct(Tail(q)) /\ Head(q) \in Elements(q)
           /\ \A x \in Elements(Tail(q)) : x \in Elements(q) /\ x # Head(q)
<1>m. PICK m : m = Len(q)
  OBVIOUS
<1>1. m \in Nat \ {0} /\ DOMAIN q = 1 .. m /\ DOMAIN Tail(q) = 1 .. m - 1 /\ Head(q) = q[1]
  BY <1>m
<1>2. \A i \in 1 .. m - 1 : Tail(q)[i] = q[i + 1]
  BY <1>m
<1>3. /\ 1 \in 1 .. m
      /\ \A i \in 1 .. m - 1 : i + 1 \in 1 .. m /\ i + 1 # 1
      /\ \A i, j \in 1 .. m - 1 : i + 1 = j + 1 => i = j
  BY <1>1
<1>4. Distinct(Tail(q))
  BY <1>1, <1>2, <1>3 DEF Distinct
<1>5. \A x \in Elements(Tail(q)) : x \in Elements(q) /\ x # Head(q)
  BY <1>1, <1>2, <1>3 DEF Distinct, Elements
<1>6. Head(q) \in Elements(q)
  BY <1>1, <1>3 DEF Elements
<1> QED BY <1>4, <1>5, <1>6

(* One more element. *)
LEMMA AppendDistinct ==
    ASSUME NEW s \in Seq(Nat), NEW x \in Nat
    PROVE  /\ Elements(Append(s, x)) = Elements(s) \union {x}
           /\ Distinct(s) /\ x \notin Elements(s) => Distinct(Append(s, x))
<1>m. PICK m : m = Len(s)
  OBVIOUS
<1>1. /\ m \in Nat /\ DOMAIN s = 1 .. m /\ DOMAIN Append(s, x) = 1 .. m + 1
      /\ \A i \in 1 .. m : Append(s, x)[i] = s[i]
      /\ Append(s, x)[m + 1] = x
  BY <1>m
<1>2. 1 .. m + 1 = (1 .. m) \union {m + 1} /\ m + 1 \notin 1 .. m
  BY <1>1
<1>3. Elements(Append(s, x)) = Elements(s) \union {x}
  BY <1>1, <1>2 DEF Elements
<1>4. Distinct(s) /\ x \notin Elements(s) => Distinct(Append(s, x))
  BY <1>1, <1>2 DEF Distinct, Elements
<1> QED BY <1>3, <1>4

-----------------------------------------------------------------------------
(* OnceInv, step by step. *)

\* At the call nothing has been read, taken or entered.
LEMMA InitOnce == Init => OnceInv
<1> SUFFICES ASSUME Init PROVE OnceInv
  OBVIOUS
<1>1. /\ got = <<>> /\ queue = <<>> /\ invalid = <<>> /\ verified = {}
      /\ \A w \in Workers : batch[w] = <<>>
  BY DEF Init
<1>2. Elements(<<>>) = {} /\ Distinct(<<>>)
  BY DEF Elements, Distinct
<1>3. InvalidAreBad /\ EachDistinct /\ HeldApart
  BY <1>1, <1>2 DEF InvalidAreBad, EachDistinct, HeldApart
<1>4. HeldRead
  BY <1>1, <1>2 DEF HeldRead, Held
<1> QED BY <1>3, <1>4 DEF OnceInv

(* A step that moves nothing and forgets no page. *)
LEMMA QuietOnce ==
    ASSUME OnceInv, UNCHANGED <<direction, size, page, got, queue, batch, invalid, verified>>,
           mpc \in {"push", "one"} => mpc' \in {"push", "one"}
    PROVE  OnceInv'
<1>1. \A t \in Nat : (Held(t)' <=> Held(t)) /\ (Read(t) => Read(t)')
  BY DEF Held, Read, Place, Before
<1>2. (InvalidAreBad' <=> InvalidAreBad) /\ (Still' <=> Still)
  BY DEF InvalidAreBad, Still
<1>3. (EachDistinct' <=> EachDistinct) /\ (HeldApart' <=> HeldApart)
  BY DEF EachDistinct, HeldApart
<1> QED BY <1>1, <1>2, <1>3 DEF OnceInv, HeldRead

(* The page that is read begins where the pages before it end. *)
LEMMA FindOnce ==
    ASSUME IInv, OnceInv, Find, PageLength # 0
    PROVE  OnceInv'
<1>b. PICK b \in Nat : b = Before
  BY NumberAssumption DEF IInv, TypeOK, Before
<1>m. PICK m : m = PageLength
  OBVIOUS
<1>1. /\ mpc = "find" /\ mpc' = "push" /\ got' = FindAll
      /\ UNCHANGED <<direction, size, page, queue, batch, invalid, verified>>
  BY DEF Find
<1>2. TypeOK /\ got = <<>>
  BY <1>1 DEF IInv, Phases
<1>3. m \in Nat /\ m <= PageSize /\ b + m <= size /\ PageSize \in Nat /\ size \in Nat
  BY <1>2, <1>b, <1>m, NumberAssumption DEF PageLength, TypeOK
<1>5. InvalidAreBad'
  BY <1>1 DEF OnceInv, InvalidAreBad
<1> SUFFICES ASSUME Still' PROVE HeldRead' /\ EachDistinct' /\ HeldApart'
  BY <1>5 DEF OnceInv
<1>r. ~Repeats
  <2>1. PageSize # 2 \/ size % 2 = 0
    BY <1>1 DEF Still
  <2>2. ASSUME PageSize = 2, m = 1 PROVE FALSE
    <3>1. b = (page - 1) * 2 /\ page \in Nat
      BY <2>2, <1>2, <1>b DEF Before, TypeOK
    <3>2. size = b + 1
      BY <2>2, <1>2, <1>3, <1>b, <1>m DEF PageLength, TypeOK
    <3>3. size % 2 = 1
      BY <3>1, <3>2
    <3> QED BY <2>1, <2>2, <3>3
  <2> QED BY <2>2, <1>m DEF Repeats
<1>4. DOMAIN FindAll = 1 .. m /\ \A i \in 1 .. m : FindAll[i] = NumberAt(b + i)
  BY <1>b, <1>m, <1>r DEF FindAll, OnPage
<1>6. HeldRead /\ EachDistinct /\ HeldApart
  BY <1>1 DEF OnceInv, Still
<1>7. \A i \in 1 .. m : Place(FindAll[i]) = b + i
  BY <1>2, <1>3, <1>4 DEF Place, NumberAt, TypeOK
<1>8. Distinct(FindAll)
  <2> SUFFICES ASSUME NEW i \in 1 .. m, NEW j \in 1 .. m, FindAll[i] = FindAll[j]
               PROVE  i = j
    BY <1>4 DEF Distinct
  <2>1. b + i = b + j
    BY <1>7
  <2> QED BY <2>1, <1>3
<1>9. ASSUME NEW t \in Elements(FindAll)
      PROVE  t \in Nat /\ ~Held(t) /\ Place(t) <= b + PageSize
  <2>1. PICK i \in 1 .. m : t = FindAll[i]
    BY <1>4, <1>9 DEF Elements
  <2>2. t \in Nat
    BY <2>1, <1>2, <1>3, <1>4 DEF NumberAt, TypeOK
  <2>3. Place(t) = b + i
    BY <2>1, <1>7
  <2>4. ~(Place(t) <= b) /\ Place(t) <= b + PageSize
    BY <2>3, <1>3
  <2>5. ~Read(t)
    BY <2>4, <1>1, <1>b DEF Read
  <2> QED BY <2>2, <2>4, <2>5, <1>6 DEF HeldRead
<1>10. HeldRead'
  <2> SUFFICES ASSUME NEW t \in Nat, Held(t)' PROVE Read(t)'
    BY DEF HeldRead
  <2>1. Place(t)' = Place(t) /\ Before' = b
    BY <1>1, <1>b DEF Place, Before
  <2>2. CASE t \in Elements(FindAll)
    BY <2>1, <2>2, <1>1, <1>9 DEF Read
  <2>3. CASE Held(t)
    <3>1. Place(t) <= b
      BY <2>3, <1>1, <1>6, <1>b DEF HeldRead, Read
    <3> QED BY <2>1, <3>1, <1>b DEF Read
  <2> QED BY <2>2, <2>3, <1>1 DEF Held
<1>11. EachDistinct'
  BY <1>1, <1>6, <1>8 DEF EachDistinct
<1>12. HeldApart'
  <2>1. \A t \in Elements(FindAll) :
           /\ t \notin Elements(queue) /\ t \notin verified
           /\ \A w \in Workers : t \notin Elements(batch[w])
    BY <1>9 DEF Held
  <2> QED BY <2>1, <1>1, <1>6 DEF HeldApart
<1> QED BY <1>10, <1>11, <1>12

(* A page goes to the queue. *)
LEMMA PushOnce ==
    ASSUME IInv, OnceInv, PushPage
    PROVE  OnceInv'
<1>1. /\ mpc = "push" /\ mpc' = "one" /\ queue' = queue \o got /\ got' = <<>>
      /\ UNCHANGED <<direction, size, page, batch, invalid, verified>>
  BY DEF PushPage
<1>2. queue \in Seq(Nat) /\ got \in Seq(Nat)
  BY DEF IInv, TypeOK
<1>3. InvalidAreBad'
  BY <1>1 DEF OnceInv, InvalidAreBad
<1> SUFFICES ASSUME Still' PROVE HeldRead' /\ EachDistinct' /\ HeldApart'
  BY <1>3 DEF OnceInv
<1>4. HeldRead /\ EachDistinct /\ HeldApart
  BY <1>1 DEF OnceInv, Still
<1>5. Elements(<<>>) = {} /\ Distinct(<<>>)
  BY DEF Elements, Distinct
<1>6. Distinct(queue') /\ \A x \in Elements(queue') : x \in Elements(queue) \/ x \in Elements(got)
  <2>1. Distinct(queue) /\ Distinct(got) /\ \A x \in Elements(queue) : x \notin Elements(got)
    BY <1>4 DEF EachDistinct, HeldApart
  <2> QED BY <2>1, <1>1, <1>2, ConcatDistinct
<1>7. EachDistinct'
  BY <1>1, <1>4, <1>5, <1>6 DEF EachDistinct
<1>8. HeldApart'
  BY <1>1, <1>4, <1>5, <1>6 DEF HeldApart
<1>9. \A t \in Nat : (Held(t)' => Held(t)) /\ (Read(t) => Read(t)')
  BY <1>1, <1>5, <1>6 DEF Held, Read, Place, Before
<1> QED BY <1>4, <1>7, <1>8, <1>9 DEF HeldRead

(* The page counts as read from now on. *)
LEMMA NotifyOneOnce ==
    ASSUME IInv, OnceInv, NotifyOne
    PROVE  OnceInv'
<1>1. /\ mpc = "one" /\ page' = page + 1
      /\ UNCHANGED <<direction, size, got, queue, batch, invalid, verified>>
  BY DEF NotifyOne
<1>2. page \in Nat /\ PageSize \in Nat
  BY NumberAssumption DEF IInv, TypeOK
<1>3. (page + 1 - 1) * PageSize = (page - 1) * PageSize + PageSize
  BY <1>2
<1>4. Before' = Before + PageSize
  BY <1>1, <1>2, <1>3 DEF Before
<1>5. Before \in Int
  BY <1>2 DEF Before
<1>6. ASSUME NEW t \in Nat, Read(t)
      PROVE  Read(t)'
  <2>1. Place(t)' = Place(t) /\ Place(t) \in Int
    BY <1>1 DEF Place, IInv, TypeOK
  <2>2. Place(t) <= Before + PageSize
    BY <2>1, <1>2, <1>5, <1>6 DEF Read
  <2> QED BY <2>1, <2>2, <1>4 DEF Read
<1>7. \A t \in Nat : Held(t)' <=> Held(t)
  BY <1>1 DEF Held
<1>8. (InvalidAreBad' <=> InvalidAreBad) /\ (Still' <=> Still)
  BY <1>1 DEF InvalidAreBad, Still
<1>9. (EachDistinct' <=> EachDistinct) /\ (HeldApart' <=> HeldApart)
  BY <1>1 DEF EachDistinct, HeldApart
<1> QED BY <1>6, <1>7, <1>8, <1>9 DEF OnceInv, HeldRead

(* A worker takes its batch off the queue. *)
LEMMA TakeOnce ==
    ASSUME IInv, OnceInv, NEW w \in Workers, Take(w), wpc[w] # "verify",
           UNCHANGED <<direction, size, page, got, mpc, invalid, verified>>
    PROVE  OnceInv'
<1>n. PICK n : n = BatchLength
  OBVIOUS
<1>p. PICK p : p = Pick(n, queue)
  OBVIOUS
<1>r. PICK r : r = Leave(n, queue)
  OBVIOUS
<1>1. queue \in Seq(Nat) /\ n \in 0 .. Len(queue)
  BY <1>n, NumberAssumption DEF IInv, TypeOK, BatchLength
<1>2. queue' = r /\ \A v \in Workers : batch'[v] = IF v = w THEN p ELSE batch[v]
  BY <1>n, <1>p, <1>r DEF Take, IInv, TypeOK
<1>3. InvalidAreBad'
  BY DEF OnceInv, InvalidAreBad
<1> SUFFICES ASSUME Still' PROVE HeldRead' /\ EachDistinct' /\ HeldApart'
  BY <1>3 DEF OnceInv
<1>4. HeldRead /\ EachDistinct /\ HeldApart
  BY DEF OnceInv, Still
<1>5. /\ Distinct(p) /\ Distinct(r)
      /\ \A x \in Elements(p) : x \in Elements(queue) /\ x \notin Elements(r)
      /\ \A x \in Elements(r) : x \in Elements(queue)
  <2>1. Distinct(queue)
    BY <1>4 DEF EachDistinct
  <2> QED BY <2>1, <1>1, <1>p, <1>r, SplitDistinct
<1>6. EachDistinct'
  BY <1>2, <1>4, <1>5 DEF EachDistinct
<1>7. HeldApart'
  BY <1>2, <1>4, <1>5 DEF HeldApart
<1>8. \A t \in Nat : (Held(t)' => Held(t)) /\ (Read(t) <=> Read(t)')
  BY <1>2, <1>5 DEF Held, Read, Place, Before
<1> QED BY <1>4, <1>6, <1>7, <1>8 DEF HeldRead

(* A transaction goes from the batch to the verified ones. *)
LEMMA VerifyOnce ==
    ASSUME IInv, OnceInv, NEW w \in Workers, Verify(w)
    PROVE  OnceInv'
<1>q. PICK q : q = batch[w]
  OBVIOUS
<1>x. PICK x : x = Head(q)
  OBVIOUS
<1>1. /\ q # <<>> /\ verified' = verified \union {x}
      /\ x \in Bad => invalid' = Append(invalid, x)
      /\ x \notin Bad => invalid' = invalid
      /\ UNCHANGED <<direction, size, page, got, queue, mpc>>
  BY <1>q, <1>x DEF Verify
<1>2. \A v \in Workers : batch'[v] = IF v = w THEN Tail(q) ELSE batch[v]
  BY <1>q DEF Verify, IInv, TypeOK
<1>3. q \in Seq(Nat) /\ invalid \in Seq(Nat)
  BY <1>q DEF IInv, TypeOK
<1>4. x \in Nat
  BY <1>1, <1>3, <1>x
<1>5. Elements(invalid) = Bad \intersect verified
  BY DEF OnceInv, InvalidAreBad
<1>6. InvalidAreBad'
  <2>1. Elements(Append(invalid, x)) = Elements(invalid) \union {x}
    BY <1>3, <1>4, AppendDistinct
  <2>2. CASE x \in Bad
    <3>1. Elements(invalid') = Elements(invalid) \union {x}
      BY <2>1, <2>2, <1>1
    <3> QED BY <3>1, <2>2, <1>1, <1>5 DEF InvalidAreBad
  <2>3. CASE x \notin Bad
    BY <2>3, <1>1, <1>5 DEF InvalidAreBad
  <2> QED BY <2>2, <2>3
<1> SUFFICES ASSUME Still' PROVE HeldRead' /\ EachDistinct' /\ HeldApart'
  BY <1>6 DEF OnceInv
<1>7. HeldRead /\ EachDistinct /\ HeldApart
  BY <1>1 DEF OnceInv, Still
<1>8. /\ Distinct(Tail(q)) /\ x \in Elements(q)
      /\ \A y \in Elements(Tail(q)) : y \in Elements(q) /\ y # x
  <2>1. Distinct(q)
    BY <1>7, <1>q DEF EachDistinct
  <2> QED BY <2>1, <1>1, <1>3, <1>x, HeadDistinct
<1>9. /\ x \notin Elements(got) /\ x \notin Elements(queue) /\ x \notin verified
      /\ \A v \in Workers : v # w => x \notin Elements(batch[v])
  BY <1>7, <1>8, <1>q DEF HeldApart
<1>10. EachDistinct'
  <2>1. Distinct(invalid')
    <3>1. Distinct(invalid) /\ x \notin Elements(invalid)
      BY <1>5, <1>7, <1>9 DEF EachDistinct
    <3> QED BY <3>1, <1>1, <1>3, <1>4, AppendDistinct
  <2> QED BY <2>1, <1>1, <1>2, <1>7, <1>8 DEF EachDistinct
<1>11. HeldApart'
  BY <1>1, <1>2, <1>7, <1>8, <1>9, <1>q DEF HeldApart
<1>12. \A t \in Nat : (Held(t)' => Held(t)) /\ (Read(t) <=> Read(t)')
  BY <1>1, <1>2, <1>8, <1>q DEF Held, Read, Place, Before
<1> QED BY <1>7, <1>10, <1>11, <1>12 DEF HeldRead

(* Growing moves no transaction that is counted from the beginning, and it ends *)
(* the stillness of those that are counted from the end.                        *)
LEMMA GrowOnce ==
    ASSUME IInv, OnceInv, Grow
    PROVE  OnceInv'
<1>1. size' = size + 1 /\ UNCHANGED <<direction, page, got, queue, mpc, batch, invalid, verified>>
  BY DEF Grow
<1>2. InvalidAreBad'
  BY <1>1 DEF OnceInv, InvalidAreBad
<1> SUFFICES ASSUME Still' PROVE HeldRead' /\ EachDistinct' /\ HeldApart'
  BY <1>2 DEF OnceInv
<1>3. direction = "ASC" /\ PageSize # 2
  BY <1>1, NumberAssumption DEF Still, IInv, TypeOK
<1>4. HeldRead /\ EachDistinct /\ HeldApart
  BY <1>3 DEF OnceInv, Still
<1>5. EachDistinct' /\ HeldApart'
  BY <1>1, <1>4 DEF EachDistinct, HeldApart
<1>6. \A t \in Nat : (Held(t)' <=> Held(t)) /\ (Read(t) => Read(t)')
  BY <1>1, <1>3 DEF Held, Read, Place, Before
<1> QED BY <1>4, <1>5, <1>6 DEF HeldRead

\* Every step of the master and of the workers keeps OnceInv.
LEMMA NextOnce == IInv /\ OnceInv /\ [Next]_vars => OnceInv'
<1> SUFFICES ASSUME IInv, OnceInv, [Next]_vars PROVE OnceInv'
  OBVIOUS
<1>1. CASE CheckSize \/ LockAfterDone \/ NotifyAll \/ MasterWait \/ Join
  BY <1>1, QuietOnce DEF CheckSize, LockAfterDone, NotifyAll, MasterWait, Join
<1>2. CASE Find
  <2>1. CASE PageLength = 0
    BY <1>2, <2>1, QuietOnce DEF Find
  <2>2. CASE PageLength # 0
    BY <1>2, <2>2, FindOnce
  <2> QED BY <2>1, <2>2
<1>3. CASE PushPage
  BY <1>3, PushOnce
<1>4. CASE NotifyOne
  BY <1>4, NotifyOneOnce
<1>5. ASSUME NEW w \in Workers, Worker(w)
      PROVE  OnceInv'
  <2>1. CASE Look(w)
    <3>1. CASE queue = <<>>
      BY <2>1, <3>1, QuietOnce DEF Look
    <3>2. CASE queue # <<>>
      BY <2>1, <3>2, TakeOnce DEF Look
    <3> QED BY <3>1, <3>2
  <2>2. CASE Test(w)
    <3>1. CASE queue = <<>>
      BY <2>2, <3>1, QuietOnce DEF Test
    <3>2. CASE queue # <<>>
      BY <2>2, <3>2, TakeOnce DEF Test
    <3> QED BY <3>1, <3>2
  <2>3. CASE NotifyMaster(w)
    BY <2>3, QuietOnce DEF NotifyMaster
  <2>4. CASE Sleep(w) \/ BatchDone(w)
    BY <2>4, QuietOnce DEF Sleep, BatchDone
  <2>5. CASE Verify(w)
    BY <2>5, VerifyOnce
  <2> QED BY <1>5, <2>1, <2>2, <2>3, <2>4, <2>5 DEF Worker
<1>6. CASE Spurious
  BY <1>6, QuietOnce DEF Spurious
<1>7. CASE Grow
  BY <1>7, GrowOnce
<1>8. CASE UNCHANGED vars
  BY <1>8, QuietOnce DEF vars
<1> QED BY <1>1, <1>2, <1>3, <1>4, <1>5, <1>6, <1>7, <1>8 DEF Next, Master, Returned

(***************************************************************************)
(* verifySignatures returns exactly the verified transactions with a wrong *)
(* signature, none of them twice unless pages counted from the end move or *)
(* a page of two repeats its only transaction: the workers verify and      *)
(* enter without losing what another one enters, and no transaction        *)
(* reaches two of them.                                                    *)
(***************************************************************************)
THEOREM ExactlyTheInvalid == Spec => []ReturnedInvalid
<1>1. OnceInv => ReturnedInvalid
  BY DEF OnceInv, InvalidAreBad, Still, EachDistinct, Distinct, ReturnedInvalid
<1> QED BY <1>1, InitOnce, NextOnce, Invariance, PTL DEF Spec
=============================================================================
