----------------------------- MODULE RobotCalls -----------------------------
(***************************************************************************)
(* A program that calls robot one time after the other                     *)
(* (lib/gen_call_robot.py): the names of the output files, the base        *)
(* directory and the search paths, the command, and what becomes of the    *)
(* output files: a list, then gzip and mv, or rm, each a command of its    *)
(* own.  The three output files of a call are one.                         *)
(*                                                                         *)
(* A signal may come at every moment; the exit function then processes the *)
(* output of the last call again (comment of process_robot_output_files),  *)
(* while robot, a process of its own, may still run.                       *)
(***************************************************************************)
EXTENDS Naturals, Sequences

CONSTANTS
  MaxRobotCalls,     \* bound: calls of robot
  MaxSeconds,        \* bound: seconds of the clock, by which files are named
  MaxRobotSignals    \* bound: signals

VARIABLES
  robot,       \* the program: at, call, command, last_rc, exiting; its robot process: child
  environ,     \* environment variables, and how the tools are installed
  names,       \* call -> the second that is in the names of its files
  outputs,     \* output files: call, file, dir, gz
  robot_rcs,   \* call -> its return code, once robot has ended
  known,       \* history: calls whose return code the program has taken
  troubled,    \* history: calls whose processing a signal or a failing mv cut short
  second, robot_signals

robotVars == <<robot, environ, names, outputs, robot_rcs, known, troubled, second, robot_signals>>
robotRest == <<robot_rcs, known, troubled, second, robot_signals>>

RobotInit ==
  /\ robot = [at |-> "idle", call |-> 0, command |-> 0, last_rc |-> 0, exiting |-> FALSE,
              child |-> "none"]
  /\ \E policy \in {"ALWAYS", "FAIL", "NEVER"}, tmp, gzip \in BOOLEAN, jail \in {"", "0", "1"},
        install \in {"repository", "apollo", "sandbox", "sandbox_gone"} :
       environ = [policy |-> policy, tmp |-> tmp, gzip |-> gzip, jail |-> jail, install |-> install,
                  base |-> "unset", from_sb |-> FALSE, path |-> <<"own">>, saved |-> <<>>]
  /\ names = <<>> /\ outputs = {} /\ robot_rcs = <<>> /\ known = {} /\ troubled = {}
  /\ second = 1 /\ robot_signals = 0

RobotAt(at) == robot' = [robot EXCEPT !.at = at]
\* The exit function processes the output files of the last call.
ExitFunctionRuns == robot' = [robot EXCEPT !.at = "ls", !.exiting = TRUE]
OutputDir == IF environ.tmp THEN "tmp" ELSE "status"

-----------------------------------------------------------------------------
(* The command *)

init_robot_out_parms ==
  /\ robot.at = "idle" /\ robot.call < MaxRobotCalls
  /\ robot' = [robot EXCEPT !.at = "command", !.call = @ + 1] /\ names' = Append(names, second)
  /\ UNCHANGED <<environ, outputs, robotRest>>

\* ROBOT_TEST_RUNNING_FROM_SB: exported, and taken from there by the next call.
FromSandbox == IF environ.base # "unset" THEN environ.from_sb
               ELSE environ.install \in {"sandbox", "sandbox_gone"}

\* The name NONE is not defined, so init_robot_file_path calls this every
\* time; but for the first one it only validates.
init_robot_test_base_dir_path ==
  environ' = [environ EXCEPT
    !.from_sb = FromSandbox,
    !.base = IF @ # "unset" THEN @
             ELSE CASE environ.install = "repository" -> "base_path"
                    [] environ.install = "sandbox" -> "sandbox"
                    [] OTHER -> "apollo"]

\* create_robot_cmd_string: the file is found on the search path, or the
\* program ends with an error.
create_robot_cmd_string ==
  /\ robot.at = "command" /\ init_robot_test_base_dir_path
  /\ RobotAt("call") \/ ExitFunctionRuns
  /\ UNCHANGED <<names, outputs, robotRest>>

\* robot_jail
Jail == IF environ.jail = "" THEN ~environ.from_sb ELSE environ.jail = "1"
NewPath == IF Jail THEN <<environ.base, "system">> ELSE Append(environ.path, environ.base)

\* robot_cmd_fnc up to Popen; in test mode the paths are restored at once.
robot_cmd_fnc ==
  /\ robot.at = "call"
  /\ \/ robot' = [robot EXCEPT !.at = "run", !.command = names[robot.call], !.child = "running"]
        /\ environ' = [environ EXCEPT !.saved = environ.path, !.path = NewPath]
     \/ robot' = [robot EXCEPT !.at = "idle", !.command = names[robot.call]]
        /\ environ' = [environ EXCEPT !.saved = environ.path]
  /\ UNCHANGED <<names, outputs, robotRest>>

\* robot writes its files, over those of the same name.
RobotWrites ==
  /\ robot.child = "running" /\ environ.policy # "NEVER"
  /\ \A o \in outputs : o.call # robot.call
  /\ outputs' = {o \in outputs : ~(o.dir = OutputDir /\ o.file = names[robot.call] /\ ~o.gz)}
                \cup {[call |-> robot.call, file |-> names[robot.call], dir |-> OutputDir,
                       gz |-> FALSE]}
  /\ UNCHANGED <<names, robot, environ, robotRest>>

RobotEnds ==
  /\ robot.child = "running" /\ robot' = [robot EXCEPT !.child = "none"]
  /\ \E rc \in 0..1 : robot_rcs' = [c \in DOMAIN robot_rcs \cup {robot.call} |->
                                     IF c = robot.call THEN rc ELSE robot_rcs[c]]
  /\ UNCHANGED <<names, environ, outputs, known, troubled, second, robot_signals>>

\* Mutant: gcr_last_robot_rc is not set.
Bug_LastRc == robot.last_rc

LastRc == robot_rcs[robot.call]

RestoredPath == environ.saved

\* communicate returns: the paths are restored, gcr_last_robot_rc is set.
RobotReturns ==
  /\ robot.at = "run" /\ robot.child = "none"
  /\ robot' = [robot EXCEPT !.at = "ls", !.last_rc = LastRc]
  /\ environ' = [environ EXCEPT !.path = RestoredPath] /\ known' = known \cup {robot.call}
  /\ UNCHANGED <<names, outputs, robot_rcs, troubled, second, robot_signals>>

-----------------------------------------------------------------------------
(* process_robot_output_files *)

\* "ls -1": the files of the last command, not the zipped ones.
Present == {o \in outputs : o.file = robot.command /\ o.dir = OutputDir /\ ~o.gz}

RemovesOutput == environ.policy = "FAIL" /\ robot.last_rc = 0

NothingToDo == robot.command = 0 \/ environ.policy = "NEVER" \/ Present = {}
Processed == RobotAt(IF robot.exiting THEN "ended" ELSE "idle")

process_robot_output_files ==
  /\ robot.at = "ls"
  /\ \/ NothingToDo /\ Processed
     \/ /\ ~NothingToDo
        /\ \/ RemovesOutput /\ RobotAt("rm")
           \/ ~RemovesOutput /\ environ.gzip /\ RobotAt("gzip")
           \/ ~RemovesOutput /\ ~environ.gzip /\ environ.tmp /\ RobotAt("mv")
           \/ ~RemovesOutput /\ ~environ.gzip /\ ~environ.tmp /\ Processed
  /\ UNCHANGED <<names, environ, outputs, robotRest>>

\* Files get another place or form, and take that of files of the same name.
MoveFiles(old, new) ==
  LET nameOf(o) == [o EXCEPT !.call = 0] IN
  outputs' = {o \in outputs \ old : \A n \in new : nameOf(o) # nameOf(n)} \cup new

RmFiles ==
  /\ robot.at = "rm"
  /\ outputs' = (outputs \ Present) \cup {[o EXCEPT !.dir = "deleted"] : o \in Present}
  /\ Processed /\ UNCHANGED <<names, environ, robotRest>>

\* gzip -f
GzipFiles ==
  /\ robot.at = "gzip" /\ MoveFiles(Present, {[o EXCEPT !.gz = TRUE] : o \in Present})
  /\ \/ environ.tmp /\ RobotAt("mv")
     \/ ~environ.tmp /\ Processed
  /\ UNCHANGED <<names, environ, robotRest>>

\* mv may fail, and is not tried again.
MvFiles ==
  LET files == {o \in outputs : /\ o.file = robot.command /\ o.dir = OutputDir
                                /\ o.gz = environ.gzip} IN
  /\ robot.at = "mv" /\ Processed
  /\ \/ MoveFiles(files, {[o EXCEPT !.dir = "ffdc"] : o \in files}) /\ UNCHANGED troubled
     \/ outputs' = outputs /\ troubled' = troubled \cup {o.call : o \in files}
  /\ UNCHANGED <<names, environ, robot_rcs, known, second, robot_signals>>

-----------------------------------------------------------------------------
ProgramDone ==
  /\ robot.at = "idle" /\ ExitFunctionRuns
  /\ UNCHANGED <<names, environ, outputs, robotRest>>

\* gen_signal_handler: exit(0); once more in the exit function, it ends it.
RobotSignal ==
  /\ robot.at # "ended" /\ robot_signals < MaxRobotSignals /\ robot_signals' = robot_signals + 1
  /\ IF robot.exiting THEN RobotAt("ended") ELSE ExitFunctionRuns
  /\ troubled' = troubled \cup {robot.call}
  /\ UNCHANGED <<names, environ, outputs, robot_rcs, known, second>>

SecondPasses ==
  /\ second < MaxSeconds /\ second' = second + 1
  /\ UNCHANGED <<names, robot, environ, outputs, robot_rcs, known, troubled, robot_signals>>

RobotNext ==
  \/ init_robot_out_parms \/ create_robot_cmd_string \/ robot_cmd_fnc
  \/ RobotWrites \/ RobotEnds \/ RobotReturns
  \/ process_robot_output_files \/ RmFiles \/ GzipFiles \/ MvFiles
  \/ ProgramDone \/ RobotSignal \/ SecondPasses

RobotSpec == RobotInit /\ [][RobotNext]_robotVars

-----------------------------------------------------------------------------
(* Properties *)

OwnName(c) == \A d \in DOMAIN names : d # c => names[d] # names[c]
\* Once the program has taken the return code of a call that failed, the
\* output of this call is not deleted, whatever signals come later and however
\* often the exit function looks at it.
FailedOutputKept ==
  \A o \in outputs :
    o.dir = "deleted" /\ OwnName(o.call) => ~(o.call \in known /\ robot_rcs[o.call] # 0)

\* Back in its caller, robot_cmd_fnc has left the output of every call where
\* SAVE_STATUS_POLICY, TMP_ROBOT_DIR_PATH and GZIP_ROBOT want it.
OutputsSettled ==
  robot.at = "idle" => \A o \in outputs :
    o.call \in known \ troubled /\ OwnName(o.call) =>
      IF environ.policy = "FAIL" /\ robot_rcs[o.call] = 0 THEN o.dir = "deleted"
      ELSE o.dir = (IF environ.tmp THEN "ffdc" ELSE "status") /\ o.gz = environ.gzip

\* The program gets its PATH back from every call of robot.
PathRestored == robot.at = "idle" => environ.path = <<"own">>

\* All calls of a program use one base directory, and agree on whether they
\* run from a sandbox and so, without ROBOT_JAIL, on the jail.
BaseStable ==
  [][environ.base # "unset" =>
       environ'.base = environ.base /\ environ'.from_sb = environ.from_sb]_robotVars

\* After every call of robot its output is where it belongs and the environment
\* is what it was, whenever signals come and however often the exit function
\* processes the output again.
CallsLeaveOrder == [](FailedOutputKept /\ OutputsSettled /\ PathRestored) /\ BaseStable

=============================================================================
