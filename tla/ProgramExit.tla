----------------------------- MODULE ProgramExit ----------------------------
(***************************************************************************)
(* The life of a program of the tool set: its arguments, its signal        *)
(* handler and its exit function (lib/gen_arg.py), shown by the program    *)
(* that runs a command and keeps its status file (bin/auto_status_file.py). *)
(*                                                                         *)
(* The descendants are processes of their own: they fork and exit at any   *)
(* moment, also between the steps of terminate_descendants.  A descendant  *)
(* is what psutil finds: a process whose chain of parents runs up to the   *)
(* program.  Signals may come at any time, and again during the exit.      *)
(***************************************************************************)
EXTENDS Naturals, Sequences, FiniteSets

CONSTANTS
  MaxProcs,     \* bound: processes forked
  MaxSignals,   \* bound: signals
  Rcs           \* return codes of the command

VARIABLES
  prog,         \* the program: at, rc, whether its handlers are registered
  args,         \* arg_obj, the module's globals and the built-in values
  procs,        \* pid -> parent, command, alive
  listed, asked_to_end,   \* descendants, term_processes still to be ended
  temp,         \* the temporary file exists
  status,       \* the status file: "none", "path", "rc" or "all", and the rc in it
  signals,
  ended_by      \* history: "none", "main", "signal" or "error"

exitVars == <<prog, args, procs, listed, asked_to_end, temp, status, signals, ended_by>>
os == <<procs, signals>>

ExitInit ==
  /\ prog = [at |-> "options", rc |-> 0, handlers |-> FALSE, term |-> "none"]
  /\ args = [obj |-> 0, global |-> 0, builtin |-> 0]
  /\ procs = <<>> /\ listed = {} /\ asked_to_end = {}
  /\ temp = FALSE /\ status = [has |-> "none", rc |-> 0] /\ signals = 0 /\ ended_by = "none"

ProgAt(at) == prog' = [prog EXCEPT !.at = at]
Pids == DOMAIN procs

-----------------------------------------------------------------------------
(* Arguments: the value of one of them *)

\* gen_get_options: a value from the command line, in all three places.
gen_get_options ==
  /\ prog.at = "options" /\ ProgAt("validate")
  /\ \E v \in 0..1 : args' = [obj |-> v, global |-> v, builtin |-> v]
  /\ UNCHANGED <<os, listed, asked_to_end, temp, status, ended_by>>

\* set_pgm_arg
set_pgm_arg(v) == args' = [obj |-> v, global |-> v, builtin |-> v]
\* validate_parms sets a default with set_pgm_arg or by assignment, or it
\* finds an error and exits.
validate_parms ==
  /\ prog.at = "validate"
  /\ \/ /\ ProgAt("sync") /\ UNCHANGED ended_by
        /\ \E v \in 0..1 : set_pgm_arg(v) \/ args' = [args EXCEPT !.global = v]
     \/ prog' = [prog EXCEPT !.at = "ended", !.rc = 1] /\ ended_by' = "error" /\ UNCHANGED args
  /\ UNCHANGED <<os, listed, asked_to_end, temp, status>>

Synced == [args EXCEPT !.obj = args.global]
\* sync_args, gen_post_validation, and set_term_options of main.
sync_args ==
  /\ prog.at = "sync" /\ args' = Synced
  /\ \E term \in {"none", "children", "descendants", "pgm_names"} :
       prog' = [prog EXCEPT !.at = "open", !.handlers = TRUE, !.term = term]
  /\ UNCHANGED <<os, listed, asked_to_end, temp, status, ended_by>>

-----------------------------------------------------------------------------
(* main of auto_status_file: the command is run, its status recorded *)

StatusOpen ==
  /\ prog.at = "open" /\ ProgAt("run") /\ status' = [has |-> "path", rc |-> 0]
  /\ UNCHANGED <<args, os, listed, asked_to_end, temp, ended_by>>

\* tee_func and the call without stdout append the code they got.  With
\* script_func the command line writes it and the program reads it there: an
\* error, if the command line was ended before.
CommandEnds ==
  /\ prog.at = "run"
  /\ \/ /\ ProgAt("footer") /\ UNCHANGED ended_by
        /\ \E rc \in Rcs : status' = [has |-> "rc", rc |-> rc]
     \/ prog' = [prog EXCEPT !.at = "exit", !.rc = 1] /\ ended_by' = "error" /\ UNCHANGED status
  /\ UNCHANGED <<args, os, listed, asked_to_end, temp>>

\* exit(shell_rc), after the last line of the file.
MainRc(rc) == rc

Footer ==
  /\ prog.at = "footer" /\ status' = [status EXCEPT !.has = "all"] /\ ended_by' = "main"
  /\ prog' = [prog EXCEPT !.at = "exit", !.rc = MainRc(status.rc)]
  /\ UNCHANGED <<args, os, listed, asked_to_end, temp>>

-----------------------------------------------------------------------------
(* The exit function *)

\* children(recursive=True): the forks of the model are at most two deep, and
\* the child of a process that has exited is no descendant any more.
Descendants ==
  {p \in Pids : procs[p].alive /\ (procs[p].parent = 0 \/ procs[procs[p].parent].alive)}

Children    == {p \in Descendants : procs[p].parent = 0}

\* gen_exit_function
gen_exit_function ==
  /\ prog.at = "exit"
  /\ \/ prog.term = "none" /\ ProgAt("exit_function") /\ UNCHANGED listed
     \/ /\ prog.term # "none" /\ listed' = Descendants
        /\ ProgAt(IF Descendants = {} THEN "exit_function" ELSE "select")
  /\ UNCHANGED <<args, os, asked_to_end, temp, status, ended_by>>

\* An exception in the exit function ends it, and the program.
ExitFails == ProgAt("ended") /\ UNCHANGED asked_to_end

\* match_process_by_pgm_name looks at words 0 and 1 of the command line: a
\* process with one word, or one that is gone, raises.
Unmatchable(p) == ~procs[p].alive \/ procs[p].command = "bare"
select_processes ==
  /\ prog.at = "select"
  /\ \/ prog.term = "pgm_names" /\ (\E p \in listed : Unmatchable(p)) /\ ExitFails
     \/ /\ prog.term = "pgm_names" => \A p \in listed : ~Unmatchable(p)
        /\ asked_to_end' = (CASE prog.term = "children" -> Children
                              [] prog.term = "descendants" -> listed
                              [] OTHER -> {p \in listed : procs[p].command = "named"})
        /\ ProgAt("terminate")
  /\ UNCHANGED <<args, os, listed, temp, status, ended_by>>

StillAsked(p) == asked_to_end \ {p}

\* process.terminate(): the signal may end a process now, later or never.  A
\* child that has exited is still there, a grandchild that has exited is not,
\* and raises.
Terminate(p) ==
  /\ prog.at = "terminate" /\ p \in asked_to_end
  /\ \/ /\ procs[p].alive \/ procs[p].parent = 0
        /\ procs' = [procs EXCEPT ![p].alive = FALSE] \/ UNCHANGED procs
        /\ asked_to_end' = StillAsked(p) /\ UNCHANGED prog
     \/ ~procs[p].alive /\ procs[p].parent # 0 /\ ExitFails /\ UNCHANGED procs
  /\ UNCHANGED <<args, signals, listed, temp, status, ended_by>>

\* append_file: only now there is a temporary file.
Logged ==
  /\ prog.at = "terminate" /\ asked_to_end = {} /\ temp' = TRUE /\ ProgAt("wait")
  /\ UNCHANGED <<args, os, listed, asked_to_end, status, ended_by>>

\* Mutant: only those the program has named are waited for.
Bug_Waits == {p \in listed : procs[p].command = "named"}

\* psutil.wait_procs(descendants): for all of them, and without a timeout.
Waits == listed

WaitProcs ==
  /\ prog.at = "wait" /\ \A p \in Waits : ~procs[p].alive
  /\ ProgAt("report") /\ UNCHANGED <<args, os, listed, asked_to_end, temp, status, ended_by>>

\* The file is printed and removed.
Report ==
  /\ prog.at = "report" /\ temp' = FALSE /\ ProgAt("exit_function")
  /\ UNCHANGED <<args, os, listed, asked_to_end, status, ended_by>>

ExitFunction ==
  /\ prog.at = "exit_function" /\ ProgAt("ended")
  /\ UNCHANGED <<args, os, listed, asked_to_end, temp, status, ended_by>>

-----------------------------------------------------------------------------
(* Signals and processes *)

Exiting == {"exit", "select", "terminate", "wait", "report", "exit_function"}

\* gen_signal_handler: exit(0), which starts the exit function or, in it,
\* ends it; before the handlers are registered the program just dies.
gen_signal_handler ==
  /\ prog.at # "ended" /\ signals < MaxSignals /\ signals' = signals + 1
  /\ prog' = [prog EXCEPT
                !.at = IF prog.handlers /\ prog.at \notin Exiting THEN "exit" ELSE "ended",
                !.rc = IF prog.at \in Exiting THEN @ ELSE IF prog.handlers THEN 0 ELSE 1]
  /\ ended_by' = IF prog.at \in Exiting THEN ended_by ELSE "signal"
  /\ UNCHANGED <<args, procs, listed, asked_to_end, temp, status>>

\* The command of a process: named by the program, another, or another of one word.
Commands == {"named", "other", "bare"}

Fork ==
  /\ Cardinality(Pids) < MaxProcs
  /\ \E parent \in {p \in Pids : procs[p].alive /\ procs[p].parent = 0}
                   \cup {p \in {0} : prog.at = "run"}, command \in Commands :
       procs' = Append(procs, [parent |-> parent, command |-> command, alive |-> TRUE])
  /\ UNCHANGED <<prog, args, listed, asked_to_end, temp, status, signals, ended_by>>

Exits(p) ==
  /\ procs[p].alive /\ procs' = [procs EXCEPT ![p].alive = FALSE]
  /\ UNCHANGED <<prog, args, listed, asked_to_end, temp, status, signals, ended_by>>

ProgStep ==
  \/ gen_get_options \/ validate_parms \/ sync_args
  \/ StatusOpen \/ CommandEnds \/ Footer
  \/ gen_exit_function \/ select_processes \/ (\E p \in asked_to_end : Terminate(p))
  \/ Logged \/ WaitProcs \/ Report \/ ExitFunction

ExitNext == ProgStep \/ gen_signal_handler \/ Fork \/ \E p \in Pids : Exits(p)

\* The exit function goes on when it can.  Nothing is assumed of the command
\* and of the other processes: any of them may run for ever.
ExitFairness == WF_exitVars(prog.at \in Exiting /\ ProgStep)

ExitSpec == ExitInit /\ [][ExitNext]_exitVars /\ ExitFairness

-----------------------------------------------------------------------------
(* Properties *)

\* The values of the arguments that are printed are those the program uses,
\* although validate_parms may set them in two ways (sync_args).
ArgsAgree == prog.at \notin {"options", "validate", "sync", "ended"} => args.obj = args.global

\* When the exit function gets past terminate_descendants, every descendant
\* it found is gone, whether it was asked to end or not.
ListedGone == prog.at \in {"report", "exit_function"} => \A p \in listed : ~procs[p].alive

\* A program that was not interrupted ends with the return code of its
\* command, and that code is in the status file, with the last line.
StatusRcRight == prog.at = "ended" /\ ended_by = "main" => status.has = "all" /\ prog.rc = status.rc

\* wait_procs waits for a process that runs.
Lingers == prog.at = "wait" /\ \E p \in listed : procs[p].alive

\* Once its exit has begun the program ends, or is held up by a descendant it
\* has found that does not exit, in the wait that has no timeout.  It ends once
\* they have all exited, as it is not held up then.
ProgramEnds == (prog.at \in Exiting) ~> (prog.at = "ended" \/ Lingers)

\* A program uses the arguments it prints, outlives the descendants it found,
\* and ends with the return code that its status file holds, with forks, exits
\* and a signal at any moment (gen_arg, auto_status_file).
ProgramRight == ArgsAgree /\ ListedGone /\ StatusRcRight

=============================================================================
