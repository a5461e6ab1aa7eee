----------------------------- MODULE WorkerLoop -----------------------------
(***************************************************************************)
(* app/infrastructure/messaging/workers.py and the main() of the three     *)
(* workers: the loop of a process, its signals and its shutdown.  What a   *)
(* tick does is the business of the other modules.                         *)
(***************************************************************************)
CONSTANTS
    Workers,      \* the worker processes
    Executors     \* those whose stop() is the plain method of BaseWorker

VARIABLES
    phase,        \* "starting", "tick", "sleep", "closing" in main's finally, "exited"
    stop,         \* _stop
    pool,         \* the workers with an engine that is not disposed
    signalled     \* history: SIGTERM has been delivered

vars == <<phase, stop, pool, signalled>>

Init ==
    /\ phase = [w \in Workers |-> "starting"]
    /\ stop = [w \in Workers |-> FALSE]
    /\ pool = {}
    /\ signalled = {}

Running(w) == phase[w] \in {"tick", "sleep"}

-----------------------------------------------------------------------------
(* init_db(), the signal handler, and the first tick begins.  Before that  *)
(* SIGTERM has its default effect, that of Kill.                           *)
InitDb(w) ==
    /\ phase[w] = "starting"
    /\ phase' = [phase EXCEPT ![w] = "tick"]
    /\ pool' = pool \cup {w}
    /\ UNCHANGED <<stop, signalled>>

(* tick() returns, or raises what run() logs: the flag is looked at. *)
TickEnds(w) ==
    /\ phase[w] = "tick"
    /\ phase' = [phase EXCEPT ![w] = IF stop[w] THEN "closing" ELSE "sleep"]
    /\ UNCHANGED <<stop, pool, signalled>>

(* The sleep of poll_interval is over: the flag is looked at again. *)
WakeUp(w) ==
    /\ phase[w] = "sleep"
    /\ phase' = [phase EXCEPT ![w] = IF stop[w] THEN "closing" ELSE "tick"]
    /\ UNCHANGED <<stop, pool, signalled>>

(* The handler calls worker.stop().  For the executor that sets the flag;  *)
(* the stop of the scheduler and of the recovery worker is a coroutine,    *)
(* which the handler drops without running any of it.                      *)
Sigterm(w) ==
    /\ Running(w)
    /\ signalled' = signalled \cup {w}
    /\ stop' = IF w \in Executors THEN [stop EXCEPT ![w] = TRUE] ELSE stop
    /\ UNCHANGED <<phase, pool>>

(* asyncio.run() turns SIGINT into a cancellation, which run() passes on.  *)
Interrupt(w) ==
    /\ Running(w)
    /\ phase' = [phase EXCEPT ![w] = "closing"]
    /\ UNCHANGED <<stop, pool, signalled>>

(* close_db(), and the process ends. *)
CloseDb(w) ==
    /\ phase[w] = "closing"
    /\ phase' = [phase EXCEPT ![w] = "exited"]
    /\ pool' = pool \ {w}
    /\ UNCHANGED <<stop, signalled>>

(* SIGKILL ends the process wherever it is. *)
Kill(w) ==
    /\ phase[w] # "exited"
    /\ phase' = [phase EXCEPT ![w] = "exited"]
    /\ UNCHANGED <<stop, pool, signalled>>

Loop(w) == InitDb(w) \/ TickEnds(w) \/ WakeUp(w) \/ CloseDb(w)

Next == \E w \in Workers : Loop(w) \/ Sigterm(w) \/ Interrupt(w) \/ Kill(w)

(* Every await of the loop ends: calls have timeouts and sleeps an end. *)
Spec == Init /\ [][Next]_vars /\ \A w \in Workers : WF_vars(Loop(w))

-----------------------------------------------------------------------------
(* Liveness *)

(* "All workers handle SIGTERM gracefully, completing the current tick     *)
(* before exiting": a worker that got SIGTERM comes to its end.            *)
SigtermEndsWorker ==
    \A w \in Workers : w \in signalled ~> phase[w] = "exited"
=============================================================================
