----------------------------- MODULE PtyProcess -----------------------------
(***************************************************************************)
(* lib/pty_process.py: interactive commands in pseudo terminals, one       *)
(* object shared by the threads of a suite.  _lock protects the three      *)
(* dictionaries, and nothing else: opening the log, spawning, waiting and  *)
(* closing happen between the locked sections, so they are steps of their  *)
(* own.  pexpect and the children are external.                            *)
(*                                                                         *)
(* Data.  An alias is a number, n stands for "pty_proc_n".  A child and    *)
(* its log file handle have the same number, and _log_paths changes with   *)
(* _log_handles.  Output is abstracted to what a wait makes of it.         *)
(***************************************************************************)
EXTENDS Naturals, FiniteSets, Functions

CONSTANTS
  PtyThreads,    \* the threads that call the keywords
  PtyAliases,    \* the aliases callers choose
  MaxSpawned,    \* bound: children spawned
  MaxPtyCalls    \* bound: keywords called

ASSUME PtyAssumption == MaxSpawned \in Nat /\ IsFiniteSet(PtyThreads)

VARIABLES
  processes, log_handles,   \* alias -> child, alias -> handle
  spawned,       \* the last child's number
  alive, eof,    \* children that run, and those whose output has ended
  closed,        \* children that were closed with close()
  openLogs,      \* log file handles that are open
  call,          \* what each thread is doing
  ptyCalls,
  spared,        \* history: children that outlived a close() without force
  leaked         \* history: handles of commands that could not be spawned

ptyVars == <<processes, log_handles, spawned, alive, eof, closed, openLogs, call, ptyCalls,
             spared, leaked>>

ptyOs   == <<spawned, alive, eof, closed, openLogs, spared, leaked>>
ptyMaps == <<processes, log_handles>>

\* own: the child a start spawned; child: the one a step works on; seen: the
\* children a stop of all has listed; result: of the last keyword
PtyIdle(result) == [op |-> "none", at |-> "idle", alias |-> 0, force |-> FALSE, own |-> 0,
                    child |-> 0, todo |-> {}, seen |-> {}, result |-> result]

PtyInit ==
  /\ processes = <<>> /\ log_handles = <<>> /\ spawned = 0 /\ alive = {} /\ eof = {} /\ closed = {}
  /\ openLogs = {} /\ call = [t \in PtyThreads |-> PtyIdle("none")] /\ ptyCalls = 0
  /\ spared = {} /\ leaked = {}

Running == DOMAIN processes
Becomes(t, c) == call' = [call EXCEPT ![t] = c]
Goes(t, at)   == Becomes(t, [call[t] EXCEPT !.at = at])
\* A keyword ends; own and seen stay for the properties.
Ends(t, result) ==
  Becomes(t, [PtyIdle(result) EXCEPT !.own = IF result = "raised" THEN call[t].own ELSE 0,
                                     !.seen = call[t].seen])

Begins(t, op, at, alias, force) ==
  /\ call[t].op = "none" /\ ptyCalls < MaxPtyCalls /\ ptyCalls' = ptyCalls + 1
  /\ Becomes(t, [PtyIdle("none") EXCEPT !.op = op, !.at = at, !.alias = alias, !.force = force])

-----------------------------------------------------------------------------
(* Starting *)

MaySpawn == spawned + Cardinality({t \in PtyThreads : call[t].at = "spawn"}) < MaxSpawned

\* start_pty_process up to the first unlock.
Starts(t, op, alias) ==
  /\ call[t].op = "none" /\ ptyCalls < MaxPtyCalls
  /\ \/ alias \in Running /\ ptyCalls' = ptyCalls + 1 /\ Becomes(t, PtyIdle("raised"))
     \/ alias \notin Running /\ MaySpawn /\ Begins(t, op, "spawn", alias, FALSE)
  /\ UNCHANGED <<ptyMaps, ptyOs>>

\* Without an alias the caller gets the number of those that run.
start_pty_process(t) ==
  \E alias \in PtyAliases \cup {Cardinality(Running)} : Starts(t, "start", alias)

\* It starts the session, then waits for its banner.
start_sol_pty_session(t) == \E alias \in PtyAliases : Starts(t, "start_sol", alias)

\* open(log_file) and pexpect.spawn, which raises for an unknown command.
Spawn(t) ==
  /\ call[t].at = "spawn"
  /\ spawned' = spawned + 1 /\ openLogs' = openLogs \cup {spawned'}
  /\ \/ /\ alive' = alive \cup {spawned'} /\ UNCHANGED leaked
        /\ Becomes(t, [call[t] EXCEPT !.at = "register", !.own = spawned', !.child = spawned'])
     \/ leaked' = leaked \cup {spawned'} /\ Ends(t, "raised") /\ UNCHANGED alive
  /\ UNCHANGED <<ptyMaps, eof, closed, ptyCalls, spared>>

\* Mutant: the alias is not looked at again.
Bug_Taken(t) == FALSE

\* re-check inside lock
Taken(t) == call[t].alias \in Running

With(map, alias, child) == [a \in DOMAIN map \cup {alias} |-> IF a = alias THEN child ELSE map[a]]

\* Mutant: a name whose child has exited is given away.
Bug_Register(t) ==
  /\ call[t].at = "register"
  /\ LET own == call[t].own IN
     LET old == IF Taken(t) THEN {processes[call[t].alias]} ELSE {} IN
     \/ /\ Taken(t) /\ old \cap alive # {} /\ alive' = alive \ {own} /\ closed' = closed \cup {own}
        /\ openLogs' = openLogs \ {own} /\ Ends(t, "raised") /\ UNCHANGED ptyMaps
     \/ /\ old \cap alive = {} /\ openLogs' = openLogs \ old
        /\ processes' = With(processes, call[t].alias, own)
        /\ log_handles' = With(log_handles, call[t].alias, own)
        /\ Ends(t, "returned") /\ UNCHANGED <<alive, closed>>
  /\ UNCHANGED <<spawned, eof, ptyCalls, spared, leaked>>

\* The second locked section of start_pty_process.
Register(t) ==
  /\ call[t].at = "register"
  /\ LET own == call[t].own
     IN \/ /\ Taken(t) /\ alive' = alive \ {own} /\ closed' = closed \cup {own}
           /\ openLogs' = openLogs \ {own} /\ Ends(t, "raised") /\ UNCHANGED ptyMaps
        \/ /\ ~Taken(t) /\ processes' = With(processes, call[t].alias, own)
           /\ log_handles' = With(log_handles, call[t].alias, own)
           /\ \/ call[t].op = "start" /\ Ends(t, "returned")
              \/ call[t].op = "start_sol" /\ Goes(t, "get")
           /\ UNCHANGED <<alive, closed, openLogs>>
  /\ UNCHANGED <<spawned, eof, ptyCalls, spared, leaked>>

-----------------------------------------------------------------------------
(* Using *)

\* The keywords that start by looking the child up.
Use(t) ==
  /\ \E alias \in PtyAliases, op \in {"talk", "wait", "wait_exit"} :
       Begins(t, op, "get", alias, FALSE)
  /\ UNCHANGED <<ptyMaps, ptyOs>>

stop_sol_pty_session(t) ==
  /\ \E alias \in PtyAliases : Begins(t, "stop_sol", "get", alias, TRUE)
  /\ UNCHANGED <<ptyMaps, ptyOs>>

\* A RuntimeError: start_sol_pty_session then stops what has the alias,
\* stop_sol_pty_session goes on with the stop, and the others pass it on.
GivesUp(t, result) ==
  IF call[t].op \in {"start_sol", "stop_sol"}
  THEN Becomes(t, [call[t] EXCEPT !.at = "stop", !.force = TRUE, !.result = result])
  ELSE Ends(t, result)

\* A stop of a session whose child has exited has no farewell to send.
_get_process(t) ==
  /\ call[t].at = "get"
  /\ LET alias == call[t].alias
     IN \/ alias \notin Running /\ GivesUp(t, "raised")
        \/ /\ alias \in Running
           /\ LET at == CASE call[t].op = "talk" -> "talk"
                         [] call[t].op = "stop_sol" /\ processes[alias] \notin alive -> "stop"
                         [] OTHER -> "expect"
              IN  Becomes(t, [call[t] EXCEPT !.at = at, !.child = processes[alias]])
  /\ UNCHANGED <<ptyMaps, ptyOs, ptyCalls>>

Talks(t, result) ==
  /\ call[t].at = "talk" /\ Ends(t, result) /\ UNCHANGED <<ptyMaps, ptyOs, ptyCalls>>

\* pexpect refuses to write to a child another thread has closed meanwhile.
send_to_pty_process(t) ==
  Talks(t, IF call[t].child \in closed THEN "raised" ELSE "returned")

\* It refuses to read from one as well, with an error that is not its own.
read_pty_process_output(t) ==
  Talks(t, IF call[t].child \in closed THEN "raised" ELSE "returned")

\* True or False, also for a child that is closed.
is_pty_process_running(t) == Talks(t, "returned")

\* An error of the signal is only logged.
resume_pty_process(t) == Talks(t, "returned")

\* child.expect of wait_for_pty_process_output: the pattern, an error pattern
\* or a timeout whenever, EOF when the output has ended.  A child another
\* thread has closed raises an error that is no RuntimeError.
wait_for_pty_process_output(t) ==
  /\ call[t].at = "expect" /\ call[t].op \in {"wait", "start_sol"}
  /\ \/ call[t].child \in closed /\ Ends(t, "raised")
     \/ call[t].child \notin closed /\ Ends(t, "returned")
     \/ call[t].child \notin closed /\ GivesUp(t, "raised")
  /\ UNCHANGED <<ptyMaps, ptyOs, ptyCalls>>

\* Mutant: the output's end is not waited for.
Bug_OutputEnded(child) == TRUE

OutputEnded(child) == child \in eof

\* child.expect(EOF): wait_for_pty_process_to_exit raises at a timeout,
\* stop_sol_pty_session only warns.
ExpectEof(t) ==
  /\ call[t].at = "expect" /\ call[t].op \in {"wait_exit", "stop_sol"}
  /\ LET child == call[t].child
     IN \/ child \in closed /\ Ends(t, "raised")
        \/ child \notin closed /\ call[t].op = "stop_sol" /\ Goes(t, "stop")
        \/ child \notin closed /\ call[t].op = "wait_exit" /\ OutputEnded(child) /\ Goes(t, "exit")
        \/ child \notin closed /\ call[t].op = "wait_exit" /\ Ends(t, "raised")
  /\ UNCHANGED <<ptyMaps, ptyOs, ptyCalls>>

\* child.wait() has no timeout: EOF does not say that the child has exited.
WaitExit(t) ==
  /\ call[t].at = "exit" /\ call[t].child \notin alive /\ Ends(t, "returned")
  /\ UNCHANGED <<ptyMaps, ptyOs, ptyCalls>>

-----------------------------------------------------------------------------
(* Stopping *)

Stop(t) ==
  /\ \E alias \in PtyAliases \cup {0}, force \in BOOLEAN : Begins(t, "stop", "stop", alias, force)
  /\ UNCHANGED <<ptyMaps, ptyOs>>

stop_all_pty_processes(t) ==
  /\ call[t].op = "none" /\ ptyCalls < MaxPtyCalls /\ ptyCalls' = ptyCalls + 1
  /\ Becomes(t, [PtyIdle("none") EXCEPT !.op = "stop_all", !.at = "next", !.force = TRUE,
                                        !.todo = Running, !.seen = Range(processes)])
  /\ UNCHANGED <<ptyMaps, ptyOs>>

\* Mutant: one is enough.
Bug_AllDone(t) == call[t].todo = {} \/ call[t].alias # 0

AllDone(t) == call[t].todo = {}

NextAlias(t) ==
  /\ call[t].at = "next"
  /\ \/ AllDone(t) /\ Ends(t, "all")
     \/ \E alias \in call[t].todo :
          Becomes(t, [call[t] EXCEPT !.at = "stop", !.alias = alias, !.todo = @ \ {alias}])
  /\ UNCHANGED <<ptyMaps, ptyOs, ptyCalls>>

Stopped(t) == IF call[t].op = "stop_all" THEN Goes(t, "next")
              ELSE Ends(t, IF call[t].op = "start_sol" THEN "raised" ELSE "returned")

Without(map, alias) == Restrict(map, DOMAIN map \ {alias})

\* pop(alias, None) of each dictionary
Pop(t) ==
  /\ processes' = Without(processes, call[t].alias)
  /\ log_handles' = Without(log_handles, call[t].alias)

\* The locked section of stop_pty_process.
stop_pty_process(t) ==
  /\ call[t].at = "stop" /\ Pop(t)
  /\ \/ call[t].alias \notin Running /\ Stopped(t)
     \/ /\ call[t].alias \in Running
        /\ Becomes(t, [call[t] EXCEPT !.at = "close", !.child = processes[call[t].alias]])
  /\ UNCHANGED <<ptyOs, ptyCalls>>

CloseLog(t) == openLogs' = openLogs \ {call[t].child}

\* The rest of it: without force a child may survive close(), which is only
\* logged; then the log is closed.
Close(t) ==
  /\ call[t].at = "close" /\ CloseLog(t) /\ Stopped(t)
  /\ LET child == call[t].child
     IN \/ child \notin alive /\ UNCHANGED <<alive, closed, spared>>
        \/ /\ child \in alive /\ alive' = alive \ {child}
           /\ closed' = closed \cup {child} /\ UNCHANGED spared
        \/ /\ child \in alive /\ ~call[t].force /\ spared' = spared \cup {child}
           /\ closed' = closed \cup {child} /\ UNCHANGED alive
  /\ UNCHANGED <<ptyMaps, spawned, eof, ptyCalls, leaked>>

-----------------------------------------------------------------------------
(* The children *)

ChildEndsOutput(c) ==
  /\ c \in alive \ eof /\ eof' = eof \cup {c}
  /\ UNCHANGED <<ptyMaps, spawned, alive, closed, openLogs, spared, leaked, call, ptyCalls>>

ChildExits(c) ==
  /\ c \in alive /\ alive' = alive \ {c} /\ eof' = eof \cup {c}
  /\ UNCHANGED <<ptyMaps, spawned, closed, openLogs, spared, leaked, call, ptyCalls>>

PtyStep(t) ==
  \/ Spawn(t) \/ Register(t) \/ _get_process(t) \/ wait_for_pty_process_output(t) \/ ExpectEof(t)
  \/ send_to_pty_process(t) \/ read_pty_process_output(t) \/ is_pty_process_running(t)
  \/ resume_pty_process(t) \/ WaitExit(t) \/ NextAlias(t) \/ stop_pty_process(t) \/ Close(t)

PtyNext ==
  \/ \E t \in PtyThreads :
       \/ start_pty_process(t) \/ start_sol_pty_session(t) \/ Use(t) \/ stop_sol_pty_session(t)
       \/ Stop(t) \/ stop_all_pty_processes(t) \/ PtyStep(t)
  \/ \E c \in alive : ChildEndsOutput(c) \/ ChildExits(c)

\* A thread goes on when it can: the waits for output have timeouts.  Nothing
\* is assumed of the children: one that has closed its terminal may run for
\* ever.
PtyFairness == \A t \in PtyThreads : WF_ptyVars(PtyStep(t))

PtySpec == PtyInit /\ [][PtyNext]_ptyVars /\ PtyFairness

-----------------------------------------------------------------------------
(* Properties *)

\* The dictionaries agree: an alias has a child and the handle of that
\* child's log, or neither, whichever threads start and stop (PtyProcess).
PtyTypeOK ==
  /\ log_handles = processes /\ IsInjective(processes) /\ Range(processes) \subseteq 1..spawned
  /\ alive \cup eof \cup closed \cup openLogs \cup spared \subseteq 1..spawned

Registry == INSTANCE AliasRegistry
              WITH Aliases <- PtyAliases \cup 0..MaxSpawned, Children <- 1..MaxSpawned,
                   registry <- processes

\* The threads, with their locked sections and what happens in between, do to
\* the dictionary what single steps would do: a name is given to a child only
\* when no other has it, and is taken away by a stop only.
IsRegistry == Registry!RegistrySpec

Held(t) == IF call[t].at \in {"register", "close"} THEN {call[t].child} ELSE {}
InHand  == UNION {Held(t) : t \in PtyThreads}

\* Two starts may pass the first test of an alias and both spawn, and a stop
\* may come between: a child that runs can still be stopped by its alias, or
\* a thread is about to close or register it, or close() could not end it.
NoOrphan == alive \subseteq Range(processes) \cup InHand \cup spared

\* A log is open as long as its child is registered, and is not left open
\* when the child is stopped or refused (stop_pty_process, start_pty_process).
LogsFollow ==
  /\ Range(processes) \subseteq openLogs
  /\ openLogs \subseteq Range(processes) \cup InHand \cup leaked

\* A SOL session that is reported as not operational is not left registered,
\* although it is stopped by its alias, which others use as well.
FailedSolStopped ==
  \A t \in PtyThreads :
    call[t].op = "none" /\ call[t].result = "raised" => call[t].own \notin Range(processes)

\* When a stop of all ends, none of the children it found is registered.
StopAllStops ==
  \A t \in PtyThreads : call[t].result = "all" => call[t].seen \cap Range(processes) = {}

\* child.wait() waits for a child that has closed its terminal and runs.
HeldUp(t) == call[t].at = "exit" /\ call[t].child \in alive \cap eof

\* Every keyword ends, or is held up in the one wait that has no timeout by a
\* child that has closed its terminal and does not exit (not by one that just
\* runs on).  It ends once that child has exited, as it is not held up then.
PtyCallsEnd ==
  \A t \in PtyThreads : (call[t].op # "none") ~> (call[t].op = "none" \/ HeldUp(t))

\* Whatever threads start and stop at once, the dictionaries agree, and every
\* child and every log is registered, in the hands of a thread, or one of those
\* the code is known to leave (PtyProcess).
ChildrenAccounted == PtyTypeOK /\ NoOrphan /\ LogsFollow

\* A stop stops what it was asked to stop, though it goes by aliases which
\* others give to new children meanwhile.
StopsTakeEffect == FailedSolStopped /\ StopAllStops

=============================================================================
