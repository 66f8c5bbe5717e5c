------------------------------ MODULE FuncTimer ------------------------------
(***************************************************************************)
(* func_timer_class of lib/func_timer.py: a function is run with a time    *)
(* limit, kept by a child process which sleeps and then sends SIGUSR1 to   *)
(* its parent.                                                             *)
(*                                                                         *)
(* Runs follow one another on one object, as gen_robot_ssh uses it.  The   *)
(* timer of the n-th run has the pid n.  Python calls a signal handler     *)
(* between any two steps of the program, so the program takes no step with *)
(* a signal pending; an exception the handler raises ends whatever was     *)
(* going on.  Pending signals of one kind are delivered as one.  The       *)
(* user's function lets the ValueError of a time-out pass.                 *)
(***************************************************************************)
EXTENDS Integers

CONSTANTS
  MaxRuns,      \* bound: the runs made
  MaxOutside    \* bound: the SIGUSR1 signals that come from outside

ASSUME TimerAssumption == MaxRuns \in Nat /\ MaxOutside \in Nat

Timers == 1..MaxRuns
Outsider == 0    \* the sender that is no timer

VARIABLES
  timer_pc,       \* where run is
  timed_run,      \* the number of the current or last run
  limited,        \* whether that run has a limit
  cleans_again,   \* timed_out has interrupted the user's function: when it is
                  \* done run cleans up once more
  child_pid,      \* 0, or the timer known to the object
  usr1_handler,   \* the SIGUSR1 handler: "original" or "timed_out"
  original_SIGUSR1_handler,
  timers,         \* [Timers -> "none", "sleeping", "dead" or "reaped"]
  pending_usr1,        \* the senders of the pending signal
  run_outcome,    \* how the run ends: "none", "result", "exception", "timeout"
  expired,        \* the timers that sent their signal
  strays,         \* the timers whose signal the original handler got
  outside,        \* signals sent from outside
  upsets          \* what went wrong in some run: "pid_unknown", timed_out was
                  \* called when the pid was not stored yet; "cut_short", the
                  \* user's handler raised within cleanup

timerVars == <<timer_pc, timed_run, limited, cleans_again, child_pid, usr1_handler,
               original_SIGUSR1_handler, timers, pending_usr1, run_outcome, expired, strays,
               outside, upsets>>

\* The object's own fields, what a run is about, and what the operating system keeps.
timerObjVars == <<timed_run, limited, child_pid, original_SIGUSR1_handler>>
timedRunVars == <<cleans_again, run_outcome>>
signalVars   == <<pending_usr1, expired, strays, outside, upsets>>
timerOsVars  == <<timers, signalVars>>

CleanupPcs == {"cleanup", "restore", "kill", "wait", "forget"}
TimerPcs == {"idle", "save", "install", "fork", "store", "call"} \cup CleanupPcs

TimerInit ==
  /\ timer_pc = "idle" /\ timed_run = 0 /\ limited = FALSE /\ cleans_again = FALSE
  /\ child_pid = 0 /\ upsets = {}
  /\ usr1_handler = "original" /\ original_SIGUSR1_handler = "original"
  /\ timers = [t \in Timers |-> "none"]
  /\ pending_usr1 = {} /\ run_outcome = "none" /\ expired = {} /\ strays = {} /\ outside = 0

-----------------------------------------------------------------------------
(* run *)

\* The program is at p and no signal waits for its handler.
TimerAt(p) == timer_pc = p /\ pending_usr1 = {}

\* The limit is read from the arguments.
RunTimed(limit) ==
  /\ TimerAt("idle") /\ timed_run < MaxRuns
  /\ timed_run' = timed_run + 1
  /\ limited' = limit /\ child_pid' = 0 /\ run_outcome' = "none"
  /\ timer_pc' = IF limit THEN "save" ELSE "call"
  /\ UNCHANGED <<cleans_again, usr1_handler, original_SIGUSR1_handler, timerOsVars>>

\* A limit that is no number, or negative: a ValueError before anything.
RunRefused ==
  /\ TimerAt("idle") /\ timed_run < MaxRuns
  /\ timed_run' = timed_run + 1
  /\ limited' = TRUE /\ run_outcome' = "exception"
  /\ UNCHANGED <<timer_pc, cleans_again, child_pid, usr1_handler,
                 original_SIGUSR1_handler, timerOsVars>>

SaveHandler ==
  /\ TimerAt("save") /\ timer_pc' = "install"
  /\ original_SIGUSR1_handler' = usr1_handler
  /\ UNCHANGED <<timed_run, limited, child_pid, usr1_handler, timedRunVars, timerOsVars>>

InstallHandler ==
  /\ TimerAt("install") /\ timer_pc' = "fork"
  /\ usr1_handler' = "timed_out"
  /\ UNCHANGED <<timerObjVars, timedRunVars, timerOsVars>>

ForkTimer ==
  /\ TimerAt("fork") /\ timer_pc' = "store"
  /\ timers' = [timers EXCEPT ![timed_run] = "sleeping"]
  /\ UNCHANGED <<timerObjVars, usr1_handler, timedRunVars, signalVars>>

Store ==
  /\ TimerAt("store") /\ timer_pc' = "call"
  /\ child_pid' = timed_run
  /\ UNCHANGED <<timed_run, limited, original_SIGUSR1_handler, usr1_handler,
                 timedRunVars, timerOsVars>>

\* The user's function returns or raises.  It may also never end.
CallFunction ==
  /\ TimerAt("call") /\ timer_pc' = "cleanup"
  /\ run_outcome' \in {"result", "exception"}
  /\ UNCHANGED <<timerObjVars, cleans_again, usr1_handler, timerOsVars>>

-----------------------------------------------------------------------------
(* cleanup *)

\* Back from cleanup, or out of it by an exception.
Leave ==
  /\ timer_pc' = IF cleans_again THEN "cleanup" ELSE "idle"
  /\ cleans_again' = FALSE

\* Nothing to do: this run has no limit, or its pid is not (or no longer) known.
CleanupSkipped ==
  /\ TimerAt("cleanup") /\ (child_pid = 0 \/ ~limited)
  /\ Leave
  /\ UNCHANGED <<timerObjVars, usr1_handler, run_outcome, timerOsVars>>

CleanupBegins ==
  /\ TimerAt("cleanup") /\ child_pid # 0 /\ limited
  /\ timer_pc' = "restore"
  /\ UNCHANGED <<timerObjVars, usr1_handler, timedRunVars, timerOsVars>>

RestoreHandler ==
  /\ TimerAt("restore") /\ timer_pc' = "kill"
  /\ usr1_handler' = original_SIGUSR1_handler
  /\ UNCHANGED <<timerObjVars, timedRunVars, timerOsVars>>

\* A kill that fails is tolerated.
Kill ==
  /\ TimerAt("kill") /\ timer_pc' = "wait"
  /\ timers' = [timers EXCEPT ![child_pid] = IF @ = "sleeping" THEN "dead" ELSE @]
  /\ UNCHANGED <<timerObjVars, usr1_handler, timedRunVars, signalVars>>

\* waitpid returns once the timer is dead; that it is gone is tolerated.
WaitForTimer ==
  /\ TimerAt("wait") /\ timer_pc' = "forget"
  /\ timers[child_pid] # "sleeping"
  /\ timers' = [timers EXCEPT ![child_pid] = "reaped"]
  /\ UNCHANGED <<timerObjVars, usr1_handler, timedRunVars, signalVars>>

\* Mutant: the pid is not forgotten.
Bug_Forget ==
  /\ TimerAt("forget") /\ Leave
  /\ UNCHANGED <<timerObjVars, usr1_handler, run_outcome, timerOsVars>>

Forget ==
  /\ TimerAt("forget") /\ Leave
  /\ child_pid' = 0
  /\ UNCHANGED <<timed_run, limited, original_SIGUSR1_handler, usr1_handler, run_outcome,
                 timerOsVars>>

\* __del__: the object goes away, and with it what it still knows of.
Delete ==
  /\ TimerAt("idle") /\ child_pid # 0 /\ timer_pc' = "cleanup"
  /\ UNCHANGED <<timerObjVars, usr1_handler, timedRunVars, timerOsVars>>

cleanup == \/ CleanupSkipped \/ CleanupBegins \/ RestoreHandler \/ Kill \/ WaitForTimer \/ Forget

-----------------------------------------------------------------------------
(* Signals *)

\* The timer of run t has slept: it sends its signal and exits.
Expire(t) ==
  /\ timers[t] = "sleeping"
  /\ timers' = [timers EXCEPT ![t] = "dead"]
  /\ pending_usr1' = pending_usr1 \cup {t}
  /\ expired' = expired \cup {t}
  /\ UNCHANGED <<timer_pc, timerObjVars, usr1_handler, timedRunVars, strays, outside,
                 upsets>>

\* Somebody else sends SIGUSR1, as those who want a boot test stopped do.
SignalFromOutside ==
  /\ outside < MaxOutside /\ outside' = outside + 1
  /\ pending_usr1' = pending_usr1 \cup {Outsider}
  /\ UNCHANGED <<timer_pc, timerObjVars, usr1_handler, timedRunVars, timers, expired,
                 strays, upsets>>

\* Mutant: the ValueError is composed and not raised.
Bug_timed_out ==
  /\ pending_usr1 # {} /\ usr1_handler = "timed_out" /\ pending_usr1' = {}
  /\ UNCHANGED <<timer_pc, timerObjVars, usr1_handler, timedRunVars, timers, expired,
                 strays, outside, upsets>>

\* timed_out: cleanup, then a ValueError which ends the run wherever it is.
timed_out ==
  /\ pending_usr1 # {} /\ usr1_handler = "timed_out" /\ pending_usr1' = {}
  /\ timer_pc' = "cleanup" /\ run_outcome' = "timeout"
  /\ cleans_again' = (cleans_again \/ timer_pc = "call")
  /\ upsets' = IF timer_pc \in {"fork", "store"} THEN upsets \cup {"pid_unknown"} ELSE upsets
  /\ UNCHANGED <<timerObjVars, usr1_handler, timers, expired, strays, outside>>

\* The signal is given to the handler of whoever uses the object.
ToUser ==
  /\ pending_usr1 # {} /\ usr1_handler = "original" /\ pending_usr1' = {}
  /\ strays' = strays \cup (pending_usr1 \ {Outsider})
  /\ UNCHANGED <<timerObjVars, usr1_handler, timers, expired, outside>>

UserHandler == ToUser /\ UNCHANGED <<timer_pc, timedRunVars, upsets>>

\* It raises: the user's function ends with an exception, cleanup is cut short.
UserHandlerRaises ==
  /\ ToUser /\ run_outcome' = "exception"
  /\ upsets' = IF timer_pc \in {"kill", "wait", "forget"} THEN upsets \cup {"cut_short"} ELSE upsets
  /\ \/ timer_pc = "call" /\ timer_pc' = "cleanup" /\ UNCHANGED cleans_again
     \/ timer_pc # "call" /\ Leave

TimerNext ==
  \/ \E limit \in BOOLEAN : RunTimed(limit)
  \/ RunRefused
  \/ SaveHandler \/ InstallHandler \/ ForkTimer \/ Store \/ CallFunction
  \/ cleanup \/ Delete
  \/ \E t \in Timers : Expire(t)
  \/ SignalFromOutside \/ timed_out \/ UserHandler \/ UserHandlerRaises

TimerSpec == TimerInit /\ [][TimerNext]_timerVars

\* Processes run on, timers expire and pending signals are delivered; the
\* user's function need not end.
TimerProgram ==
  \/ SaveHandler \/ InstallHandler \/ ForkTimer \/ Store \/ cleanup
  \/ timed_out \/ UserHandler \/ UserHandlerRaises
  \/ \E t \in Timers : Expire(t)

TimerFairness == WF_timerVars(TimerProgram)

-----------------------------------------------------------------------------
\* The type of every variable.
TimerTypeOK ==
  /\ timer_pc \in TimerPcs /\ timed_run \in 0..MaxRuns
  /\ limited \in BOOLEAN /\ cleans_again \in BOOLEAN
  /\ child_pid \in 0..MaxRuns
  /\ usr1_handler \in {"original", "timed_out"}
  /\ original_SIGUSR1_handler \in {"original", "timed_out"}
  /\ timers \in [Timers -> {"none", "sleeping", "dead", "reaped"}]
  /\ pending_usr1 \subseteq Timers \cup {Outsider}
  /\ run_outcome \in {"none", "result", "exception", "timeout"}
  /\ expired \subseteq Timers /\ strays \subseteq Timers
  /\ outside \in 0..MaxOutside /\ upsets \subseteq {"pid_unknown", "cut_short"}

\* Between runs the handler is the one that was found ("Save the original
\* SIGUSR1 handler for later restoration by this class' methods"), whenever
\* timers expire and others send signals, unless one came at a moment when
\* the timer's pid was not known.
HandlerRestored == timer_pc = "idle" /\ "pid_unknown" \notin upsets => usr1_handler = "original"

\* Between runs no timer is left behind, alive or as a zombie, however the run
\* ended and whenever its timer expired (cleanup), unless cleanup did not know
\* of it or was cut short.
NoTimerLeft ==
  timer_pc = "idle" /\ upsets = {} => \A t \in Timers : timers[t] \in {"none", "reaped"}

\* cleanup never kills a pid it has already waited for, which may be another
\* process by then ("we've already cleaned up"): timed_out may be called while
\* run's cleanup is going on, and run cleans up after timed_out did.
KillsOwnTimer == timer_pc = "kill" /\ upsets = {} => timers[child_pid] # "reaped"

\* A run with a limit ends even if the user's function never does.
LimitedRunEnds == (timer_pc = "store") ~> (timer_pc = "idle")

\* A timer's signal is handled by timed_out, never by the handler of the
\* object's user ("Handle a SIGUSR1 generated by the child process after the
\* time_out has expired").
AlarmNotPassedOn == strays = {}

\* A run leaves handler and processes as it found them, and touches no process
\* but its own timer, whenever the timer expires and others send signals.
TimerHandled == TimerTypeOK /\ HandlerRestored /\ NoTimerLeft /\ KillsOwnTimer

=============================================================================
