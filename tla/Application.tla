---------------------------- MODULE Application ----------------------------
(***************************************************************************)
(* Application: the main loop of a node and how it is ended.  run ending    *)
(* init, sleeps on a condition variable for a second at most as long as    *)
(* gRunning holds, and ending exit.  terminate may be called by any thread  *)
(* and by the handler of a signal, at any time, also before run; it takes  *)
(* no mutex, so a notification between the test of gRunning and the sleep  *)
(* is lost, and it clears gRunning only after it has notified.             *)
(***************************************************************************)
CONSTANTS Callers   \* the threads and signals that end the program, once each

VARIABLES
    main,       \* where run is
    initFailed, \* init returned false
    gRunning,
    stopped,    \* mMasterStopSource: a stop was requested
    ending       \* what each caller is doing

vars == <<main, initFailed, gRunning, stopped, ending>>

InLoop == main \in {"test", "sleep", "asleep"}

\* The steps of terminate.
Steps == {"stop", "notify", "clear"}

(***************************************************************************)
(* Types.                                                                  *)
(***************************************************************************)
TypeOK ==
    /\ main \in {"init", "set", "test", "sleep", "asleep", "exit", "ended", "aborted"}
    /\ initFailed \in BOOLEAN /\ gRunning \in BOOLEAN /\ stopped \in BOOLEAN
    /\ ending \in [Callers -> [pc : Steps \union {"idle", "returned"}, crash : BOOLEAN]]

Init ==
    /\ main = "init" /\ initFailed = FALSE
    /\ gRunning = TRUE /\ stopped = FALSE
    /\ ending = [c \in Callers |-> [pc |-> "idle", crash |-> FALSE]]

-----------------------------------------------------------------------------
RunInit ==
    /\ main = "init"
    /\ \E ok \in BOOLEAN : initFailed' = ~ok /\ main' = IF ok THEN "set" ELSE "exit"
    /\ UNCHANGED <<gRunning, stopped, ending>>

SetRunning ==
    /\ main = "set" /\ main' = "test" /\ gRunning' = TRUE
    /\ UNCHANGED <<initFailed, stopped, ending>>

TestRunning ==
    /\ main = "test" /\ main' = IF gRunning THEN "sleep" ELSE "exit"
    /\ UNCHANGED <<initFailed, gRunning, stopped, ending>>

Sleep ==
    /\ main = "sleep" /\ main' = "asleep"
    /\ UNCHANGED <<initFailed, gRunning, stopped, ending>>

\* Fault: the loop sleeps until it is notified.
NoTimeout == FALSE

WaitFor ==
    /\ main = "asleep" /\ main' = "test"
    /\ UNCHANGED <<initFailed, gRunning, stopped, ending>>

RunExit ==
    /\ main = "exit" /\ main' = "ended"
    /\ UNCHANGED <<initFailed, gRunning, stopped, ending>>

\* run goes on, whatever terminate does.
Run == RunInit \/ SetRunning \/ TestRunning \/ Sleep \/ WaitFor \/ RunExit

-----------------------------------------------------------------------------
(***************************************************************************)
(* The handler ignores a signal when the program does not run, and ends    *)
(* the process at once for a signal that reports a fault.                  *)
(***************************************************************************)
Alive == main \notin {"ended", "aborted"}

SignalHandler(c) ==
    /\ Alive /\ ending[c].pc = "idle"
    /\ ending' = [ending EXCEPT ![c].pc = IF gRunning THEN "stop" ELSE "returned"]
    /\ UNCHANGED <<main, initFailed, gRunning, stopped>>

FaultSignal(c) ==
    /\ Alive /\ ending[c].pc = "idle" /\ gRunning
    /\ main' = "aborted"
    /\ UNCHANGED <<initFailed, gRunning, stopped, ending>>

Terminate(c, crash) ==
    /\ Alive /\ ending[c].pc = "idle"
    /\ ending' = [ending EXCEPT ![c] = [pc |-> IF crash THEN "clear" ELSE "stop", crash |-> crash]]
    /\ UNCHANGED <<main, initFailed, gRunning, stopped>>

RequestStop(c) ==
    /\ Alive /\ ending[c].pc = "stop"
    /\ stopped' = TRUE
    /\ ending' = [ending EXCEPT ![c].pc = "notify"]
    /\ UNCHANGED <<main, initFailed, gRunning>>

NotifyOne(c) ==
    /\ Alive /\ ending[c].pc = "notify"
    /\ main' = IF main = "asleep" THEN "test" ELSE main
    /\ ending' = [ending EXCEPT ![c].pc = "clear"]
    /\ UNCHANGED <<initFailed, gRunning, stopped>>

ClearRunning(c) ==
    /\ Alive /\ ending[c].pc = "clear"
    /\ gRunning' = FALSE
    /\ ending' = [ending EXCEPT ![c].pc = "returned"]
    /\ UNCHANGED <<main, initFailed, stopped>>

CallSteps(c) == RequestStop(c) \/ NotifyOne(c) \/ ClearRunning(c)

Next ==
    \/ Run
    \/ \E c \in Callers : \/ SignalHandler(c) \/ FaultSignal(c) \/ CallSteps(c)
                          \/ \E crash \in BOOLEAN : Terminate(c, crash)

\* The thread of run and a thread inside terminate are scheduled; time passes, so wait_for ends.
Fairness == WF_vars(Run) /\ \A c \in Callers : WF_vars(CallSteps(c))

Spec == Init /\ [][Next]_vars /\ Fairness

-----------------------------------------------------------------------------
(***************************************************************************)
(* A call of terminate that clears gRunning while the loop runs ends the   *)
(* program, although its notification may have been lost or may have woken *)
(* the loop before gRunning was cleared: wait_for has a time limit         *)
(* ("react fast on terminate calls", Application.cpp:66).                  *)
(***************************************************************************)
LoopEnds == InLoop /\ ~gRunning ~> main \in {"ended", "aborted"}

(***************************************************************************)
(* exit, which waits for the threads of the program, begins after they     *)
(* were asked to stop, unless the program is ended as crashed or was never *)
(* up: terminate requests the stop before it lets the loop end.            *)
(***************************************************************************)
StopRequestedBeforeExit ==
    main = "exit" /\ ~initFailed /\ (\A c \in Callers : ~ending[c].crash) => stopped

(***************************************************************************)
(* A program that was told to terminate ends.  Refuted: run sets gRunning  *)
(* after init, so a terminate during init is forgotten, although the       *)
(* constructor installs the handlers to "make sure loop will canceled if   *)
(* sigint signal was send from os" (Application.cpp:43).                   *)
(***************************************************************************)
ToldEnds ==
    \A c \in Callers : ending[c].pc = "clear" ~> main \in {"ended", "aborted"}
=============================================================================
