---------------------------- MODULE MCContainer ----------------------------
(***************************************************************************)
(* The containers: a queue three threads share, the lock of the class it   *)
(* inherits, used by two threads, a cache whose values expire after their  *)
(* creation, one whose values expire after their last access, and the hash *)
(* list; and the main loop of a node.  One of them runs at a time.         *)
(***************************************************************************)
EXTENDS Container, ExpireCache, HashList

CONSTANTS
    Parts,           \* which of them run
    t3,              \* the thread that does not take part in locking
    c1, c2           \* threads that call the main loop

VARIABLES
    part,
    main, initFailed, gRunning, stopped, ending                    \* of Application

mainVars == <<main, initFailed, gRunning, stopped, ending>>

Node == INSTANCE Application WITH Callers <- {c1, c2}

-----------------------------------------------------------------------------
QueueCalls == 2     \* bound: the calls of each thread to the queue

MCVars == <<vars, cacheVars, listVars, mainVars, part>>

MCInit ==
    /\ part \in Parts
    /\ Init /\ CacheInit /\ ListInit /\ Node!Init
    /\ access = (part = "accessed")

MCNext ==
    \/ part = "queue" /\ QueueNext /\ (\A t \in Threads : calls'[t] <= QueueCalls)
       /\ UNCHANGED <<cacheVars, listVars, mainVars, part>>
    \/ part = "lock" /\ Next /\ calls'[t3] = 0 /\ UNCHANGED <<cacheVars, listVars, mainVars, part>>
    \/ part \in {"created", "accessed"} /\ CacheNext /\ UNCHANGED <<vars, listVars, mainVars, part>>
    \/ part = "list" /\ ListNext /\ UNCHANGED <<vars, cacheVars, mainVars, part>>
    \/ part = "node" /\ Node!Next /\ UNCHANGED <<vars, cacheVars, listVars, part>>

\* Fairness: see QueueOnlySpec of Container, ListFairSpec of HashList and Fairness of
\* Application.
MCSpec ==
    /\ MCInit /\ [][MCNext]_MCVars
    /\ \A t \in Threads :
          WF_MCVars(part = "queue" /\ Methods(t) /\ UNCHANGED <<cacheVars, listVars, mainVars, part>>)
    /\ WF_MCVars(part = "node" /\ Node!Run /\ UNCHANGED <<vars, cacheVars, listVars, part>>)
    /\ WF_MCVars(part = "list" /\ Probe /\ UNCHANGED <<vars, cacheVars, mainVars, part>>)

-----------------------------------------------------------------------------
(* Properties: what the modules state, of the part it is about.            *)

\* A call of the queue's methods that waits for the mutex is answered.
QueueCallsReturn == part = "queue" => EveryCallReturns

\* Application::run: once terminate has cleared gRunning the loop ends, and the threads of
\* the program are asked to stop before exit waits for them.  The loop of the binary search
\* in DRHashList ends as well.
LoopEnds == Node!LoopEnds /\ []Node!StopRequestedBeforeExit /\ SearchEnds
=============================================================================
