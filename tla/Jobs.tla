-------------------------------- MODULE Jobs --------------------------------
(***************************************************************************)
(* lib/jobs_processing.py: a keyword is run several times at once, or      *)
(* several keywords at once, each by a process of its own, and the results *)
(* are gathered in a dictionary the processes share.  The keywords, the    *)
(* operating system and the clock are external.                            *)
(***************************************************************************)
EXTENDS Integers, FiniteSets

CONSTANTS
  MaxJobs,       \* bound: the processes of a call
  MaxTicks       \* bound: the readings of the clock that differ

ASSUME JobsAssumption == MaxJobs \in Nat \ {0} /\ MaxTicks \in Nat

Job == 1..MaxJobs

VARIABLES
  by,            \* "pid": execute_process, "time": execute_process_multi_keyword
  num_process,   \* the processes asked for, 0 before the call
  started,       \* the processes started so far
  jobs,          \* [state, key, status] of every process
  ticks,         \* the clock
  return_dict,   \* the entries: key and status
  joined         \* the processes joined so far

jobVars == <<by, num_process, started, jobs, ticks, return_dict, joined>>

JobStates == {"unborn", "begins", "runs", "ran", "ended", "killed"}

JobsInit ==
  /\ by = "pid" /\ num_process = 0
  /\ started = 0 /\ joined = 0 /\ ticks = 0 /\ return_dict = {}
  /\ jobs = [j \in Job |-> [state |-> "unborn", key |-> 0, status |-> TRUE]]

Move(j, from, to) == jobs[j].state = from /\ jobs' = [jobs EXCEPT ![j].state = to]

execute_process(n) ==
  /\ num_process = 0 /\ num_process' = n /\ by' = "pid"
  /\ UNCHANGED <<started, jobs, ticks, return_dict, joined>>

execute_process_multi_keyword(n) ==
  /\ num_process = 0 /\ num_process' = n /\ by' = "time"
  /\ UNCHANGED <<started, jobs, ticks, return_dict, joined>>

\* task.start(), in the caller's loop.
StartJob ==
  /\ started < num_process /\ started' = started + 1
  /\ Move(started + 1, "unborn", "begins")
  /\ UNCHANGED <<by, num_process, ticks, return_dict, joined>>

\* The clock moves on between two readings, or it does not.
Tick ==
  /\ by = "time" /\ ticks < MaxTicks /\ ticks' = ticks + 1
  /\ UNCHANGED <<by, num_process, started, jobs, return_dict, joined>>

\* Mutant: the caller's pid, or one reading of the clock, for all.
Bug_KeyOf(j) == 0

\* A pid is one process's alone: pids are not used up within a call.
KeyOf(j) == IF by = "pid" THEN j ELSE ticks

\* os.getpid() or datetime.now(), before the keyword is run.
TakeKey(j) ==
  /\ jobs[j].state = "begins"
  /\ jobs' = [jobs EXCEPT ![j].state = "runs", ![j].key = KeyOf(j)]
  /\ UNCHANGED <<by, num_process, started, ticks, return_dict, joined>>

\* The keyword ends, and its status is known.
KeywordEnds(j) ==
  /\ jobs[j].state = "runs"
  /\ \E s \in BOOLEAN : jobs' = [jobs EXCEPT ![j].state = "ran", ![j].status = s]
  /\ UNCHANGED <<by, num_process, started, ticks, return_dict, joined>>

\* return_dict[key] = status: what the key had is gone.
Stored(j) ==
  {r \in return_dict : r.key # jobs[j].key}
    \cup {[key |-> jobs[j].key, status |-> jobs[j].status]}

execute_keyword(j) ==
  /\ Move(j, "ran", "ended") /\ return_dict' = Stored(j)
  /\ UNCHANGED <<by, num_process, started, ticks, joined>>

\* A process that is killed has no entry.
Killed(j) ==
  /\ \E s \in {"begins", "runs", "ran"} : Move(j, s, "killed")
  /\ UNCHANGED <<by, num_process, started, ticks, return_dict, joined>>

Over(j) == jobs[j].state \in {"ended", "killed"}

\* task.join(), in the order of the list, once all are started.
Join ==
  /\ started = num_process /\ joined < num_process /\ Over(joined + 1)
  /\ joined' = joined + 1
  /\ UNCHANGED <<by, num_process, started, jobs, ticks, return_dict>>

JobSteps(j) == TakeKey(j) \/ KeywordEnds(j) \/ execute_keyword(j)

JobsNext ==
  \/ \E n \in Job : execute_process(n) \/ execute_process_multi_keyword(n)
  \/ StartJob \/ Tick \/ Join
  \/ \E j \in Job : JobSteps(j) \/ Killed(j)

\* The caller goes on, and so does every process: the keywords end.
JobsFairness ==
  WF_jobVars(StartJob \/ Join) /\ \A j \in Job : WF_jobVars(JobSteps(j))

JobsSpec == JobsInit /\ [][JobsNext]_jobVars /\ JobsFairness

-----------------------------------------------------------------------------
Returned == num_process > 0 /\ joined = num_process

EndedJobs == {j \in Job : jobs[j].state = "ended"}

\* What execute_process returns has the status of every process that was not
\* killed, each under a key of its own, and nothing else, in whatever order the
\* processes end.
EveryStatus ==
  Returned /\ by = "pid" =>
    /\ return_dict = {[key |-> jobs[j].key, status |-> jobs[j].status] : j \in EndedJobs}
    /\ Cardinality(return_dict) = Cardinality(EndedJobs)
    /\ \A j \in 1..num_process : jobs[j].state \in {"ended", "killed"}

\* execute_process_multi_keyword: entries are missing only where two processes
\* read the same time, or one was killed.
MissingOnlyIfSameTime ==
  Returned =>
    \A j \in EndedJobs :
      \/ [key |-> jobs[j].key, status |-> jobs[j].status] \in return_dict
      \/ by = "time" /\ \E i \in EndedJobs \ {j} : jobs[i].key = jobs[j].key

\* The caller is not kept waiting for ever, also if processes are killed.
JobsReturn == (num_process > 0) ~> Returned

\* The caller gets the status of every process that came to its end, but for
\* those that share the reading of the clock they are keyed by.
StatusesReturned == EveryStatus /\ MissingOnlyIfSameTime

=============================================================================
