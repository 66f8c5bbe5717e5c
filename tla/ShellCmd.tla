------------------------------ MODULE ShellCmd ------------------------------
(***************************************************************************)
(* shell_cmd, shell_cmd_timed_out and kill_cmd of lib/gen_cmd.py: a        *)
(* command is run in a shell with a time limit, kept by SIGALRM, and with  *)
(* retries.                                                                *)
(*                                                                         *)
(* The shell is started in the process group of the program, so killpg of  *)
(* its pid finds no such group and raises an OSError (an IOError).  The    *)
(* original handler of SIGALRM is the default one: it ends the program.    *)
(***************************************************************************)
EXTENDS Integers

CONSTANTS
  MaxAttempts,   \* the values of max_attempts are 1..MaxAttempts
  CmdLimits,        \* whether there is a time_out
  Forks,         \* the values of fork
  NoShellRc           \* shell_rc before the first attempt

ASSUME ShellAssumption ==
  /\ MaxAttempts \in Nat \ {0}
  /\ CmdLimits \subseteq BOOLEAN /\ Forks \subseteq BOOLEAN
  /\ NoShellRc \notin {"valid", "invalid", "-1"}

VARIABLES
  shell_pc,
  max_attempts, cmd_limit, cmd_ignore_err, forked,  \* the parameters
  attempt_num,
  command,        \* the command of each attempt
  alarm,          \* whether an alarm is set
  alrm_handler,   \* the SIGALRM handler: "original" or "timed_out"
  command_timed_out,
  shell_rc,       \* "valid" or "invalid", as valid_rcs has it, or "-1"
  cmd_outcome,    \* "none", "returned", "raised" or "killed"
  fired           \* the attempt whose alarm went off last, or 0

shellParms == <<max_attempts, cmd_limit, cmd_ignore_err, forked>>
alarmVars  == <<alarm, alrm_handler>>
shellVars  == <<shell_pc, shellParms, attempt_num, command, alarmVars, command_timed_out,
                shell_rc, cmd_outcome, fired>>

Attempts   == 1..MaxAttempts
CommandEnd == {"valid", "invalid"}    \* how a command can end

ShellInit ==
  /\ shell_pc = "idle"
  /\ max_attempts = 1 /\ cmd_limit = FALSE /\ cmd_ignore_err = FALSE /\ forked = FALSE
  /\ attempt_num = 0 /\ command = [a \in Attempts |-> "none"]
  /\ alarm = FALSE /\ alrm_handler = "original" /\ command_timed_out = FALSE
  /\ shell_rc = NoShellRc /\ cmd_outcome = "none" /\ fired = 0

-----------------------------------------------------------------------------
(* shell_cmd *)

\* The call with its parameters.
CallShell ==
  /\ shell_pc = "idle" /\ shell_pc' = "call"
  /\ max_attempts' \in Attempts /\ cmd_limit' \in CmdLimits
  /\ cmd_ignore_err' \in BOOLEAN /\ forked' \in Forks
  /\ UNCHANGED <<attempt_num, command, alarmVars, command_timed_out, shell_rc, cmd_outcome,
                 fired>>

\* test_mode: nothing is run.
TestMode ==
  /\ shell_pc = "call" /\ shell_pc' = "done"
  /\ shell_rc' = "valid" /\ cmd_outcome' = "returned"
  /\ UNCHANGED <<shellParms, attempt_num, command, alarmVars, command_timed_out, fired>>

\* The first or the next round of the loop.  A forked command is not waited for.
StartCommand ==
  /\ shell_pc \in {"call", "retry"}
  /\ attempt_num' = attempt_num + 1
  /\ command' = [command EXCEPT ![attempt_num + 1] = "running"]
  /\ shell_pc' = IF forked THEN "forked" ELSE IF cmd_limit THEN "install" ELSE "communicate"
  /\ UNCHANGED <<shellParms, alarmVars, command_timed_out, shell_rc, cmd_outcome, fired>>

\* The handler, then the alarm, then communicate.
SetAlarm ==
  /\ shell_pc = "install" /\ shell_pc' = "communicate"
  /\ command_timed_out' = FALSE
  /\ alrm_handler' = "timed_out" /\ alarm' = TRUE
  /\ UNCHANGED <<shellParms, attempt_num, command, shell_rc, cmd_outcome, fired>>

Communicated ==
  /\ shell_pc = "communicate" /\ command[attempt_num] \in CommandEnd
  /\ shell_rc' = command[attempt_num] /\ shell_pc' = "restore"
  /\ UNCHANGED <<shellParms, attempt_num, command, alarmVars, command_timed_out,
                 cmd_outcome, fired>>

RestoreAlrm ==
  /\ shell_pc = "restore" /\ shell_pc' = "clear"
  /\ alrm_handler' = "original"
  /\ UNCHANGED <<shellParms, attempt_num, command, alarm, command_timed_out, shell_rc,
                 cmd_outcome, fired>>

ClearAlarm ==
  /\ shell_pc = "clear" /\ shell_pc' = "judge"
  /\ alarm' = FALSE
  /\ UNCHANGED <<shellParms, attempt_num, command, alrm_handler, command_timed_out,
                 shell_rc, cmd_outcome, fired>>

\* A valid return code, unless the output matches error_regexes.
Good ==
  /\ shell_pc = "judge" /\ shell_rc = "valid"
  /\ shell_pc' = "end"
  /\ UNCHANGED <<shellParms, attempt_num, command, alarmVars, command_timed_out,
                 shell_rc, cmd_outcome, fired>>

\* A failure: sleep and try again, if attempts are left.
NotGood ==
  /\ shell_pc = "judge"
  /\ shell_rc' = IF shell_rc = "valid" THEN "-1" ELSE shell_rc
  /\ shell_pc' = IF attempt_num < max_attempts THEN "retry" ELSE "end"
  /\ UNCHANGED <<shellParms, attempt_num, command, alarmVars, command_timed_out,
                 cmd_outcome, fired>>

ShellEnd ==
  /\ shell_pc = "end" /\ shell_pc' = "done"
  /\ cmd_outcome' = IF shell_rc = "valid" \/ cmd_ignore_err THEN "returned" ELSE "raised"
  /\ UNCHANGED <<shellParms, attempt_num, command, alarmVars, command_timed_out,
                 shell_rc, fired>>

shell_cmd ==
  \/ TestMode \/ StartCommand \/ SetAlarm \/ Communicated \/ RestoreAlrm \/ ClearAlarm
  \/ Good \/ NotGood \/ ShellEnd

-----------------------------------------------------------------------------
(* The alarm, and kill_cmd *)

\* Mutant: the attempt counts as one that ended.
Bug_TimedOut ==
  /\ alarm /\ alarm' = FALSE /\ alrm_handler = "timed_out" /\ shell_pc = "communicate"
  /\ fired' = attempt_num /\ command_timed_out' = TRUE
  /\ shell_rc' = "valid" /\ shell_pc' = "restore"
  /\ UNCHANGED <<shellParms, attempt_num, command, alrm_handler, cmd_outcome>>

\* shell_cmd_timed_out is called within communicate.  The OSError of killpg comes
\* out of communicate and is taken for the end of the command.  The return code
\* is known if the command had just ended.
TimedOut ==
  /\ alarm /\ alarm' = FALSE /\ alrm_handler = "timed_out" /\ shell_pc = "communicate"
  /\ fired' = attempt_num /\ command_timed_out' = TRUE
  /\ shell_rc' \in {"-1"} \cup ({command[attempt_num]} \cap CommandEnd)
  /\ shell_pc' = "restore"
  /\ UNCHANGED <<shellParms, attempt_num, command, alrm_handler, cmd_outcome>>

\* It is called when communicate has returned: nobody expects the OSError.
TimedOutLate ==
  /\ alarm /\ alarm' = FALSE /\ alrm_handler = "timed_out" /\ shell_pc = "restore"
  /\ fired' = attempt_num /\ command_timed_out' = TRUE
  /\ cmd_outcome' = "raised" /\ shell_pc' = "done"
  /\ UNCHANGED <<shellParms, attempt_num, command, alrm_handler, shell_rc>>

\* The alarm finds the original handler.
KilledByAlarm ==
  /\ alarm /\ alarm' = FALSE /\ alrm_handler = "original"
  /\ fired' = attempt_num
  /\ cmd_outcome' = "killed" /\ shell_pc' = "done"
  /\ UNCHANGED <<shellParms, attempt_num, command, alrm_handler, command_timed_out,
                 shell_rc>>

\* kill_cmd of a forked command: killpg raises.
kill_cmd ==
  /\ shell_pc = "forked" /\ shell_pc' = "done"
  /\ cmd_outcome' = "raised"
  /\ UNCHANGED <<shellParms, attempt_num, command, alarmVars, command_timed_out,
                 shell_rc, fired>>

\* A command ends by itself; it may also run for ever.
CommandStops(a) ==
  /\ command[a] = "running"
  /\ \E e \in CommandEnd : command' = [command EXCEPT ![a] = e]
  /\ UNCHANGED <<shell_pc, shellParms, attempt_num, alarmVars, command_timed_out,
                 shell_rc, cmd_outcome, fired>>

Alarm == TimedOut \/ TimedOutLate \/ KilledByAlarm

ShellNext == CallShell \/ shell_cmd \/ Alarm \/ kill_cmd \/ \E a \in Attempts : CommandStops(a)

\* The program runs on and time passes; commands need not end.
ShellFairness == WF_shellVars(shell_cmd \/ Alarm \/ kill_cmd)

ShellSpec == ShellInit /\ [][ShellNext]_shellVars /\ ShellFairness

-----------------------------------------------------------------------------
ShellReturned == shell_pc = "done" /\ cmd_outcome = "returned"

\* A valid return code is that of the last command started: one that was cut off
\* by the time-out, or an earlier one, never counts ("it will be halted and
\* counted as an error").
ValidRcIsReal ==
  ShellReturned /\ shell_rc = "valid" /\ attempt_num > 0 => command[attempt_num] = "valid"

\* The time-out reported is that of the last attempt, and not of one before.
TimeOutIsCurrent == shell_pc = "end" /\ command_timed_out => fired = attempt_num

\* When shell_cmd returns neither its alarm nor its handler is left behind.
NoAlarmLeft == ShellReturned => ~alarm /\ alrm_handler = "original"

\* A command is not run more often than asked for, and without a time-out two
\* attempts never run at the same time.
RetriesInTurn ==
  /\ attempt_num <= max_attempts
  /\ ~cmd_limit => \A a \in 1..attempt_num - 1 : command[a] \in CommandEnd

\* With a time-out shell_cmd ends even if its command never does.
LimitedCallEnds == (shell_pc = "install") ~> (shell_pc = "done")

\* "If the command string has not finished executing within <time_out> seconds,
\* it will be halted and counted as an error" (time_out).
HaltedOnTimeOut == ShellReturned => \A a \in Attempts : command[a] # "running"

\* What shell_cmd returns is about its last attempt, earlier ones are over, and
\* it leaves no alarm behind, whenever the alarm goes off.
ShellResultRight == ValidRcIsReal /\ TimeOutIsCurrent /\ NoAlarmLeft /\ RetriesInTurn

=============================================================================
