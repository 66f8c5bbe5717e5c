# A TLA+ development for openbmc-test-automation

The repository is a Robot Framework test suite for OpenBMC firmware. Most of it
is keyword sequences whose state is the machine under test. What it has of
program logic of its own is in Python: the boot test program with its plug-ins,
the log collector, and the libraries that run commands, start processes, talk
to the BMC, read its state, and end programs. That logic is what is modelled
here. It is also where the hard behaviour is: signal handlers that run between
any two lines, child processes, threads, retries of commands that may have been
run, reads of a machine that changes meanwhile, and state that is kept in
globals, directories and files from one call to the next.

`PROJECT.json` holds the runs, the mutants, the map from definitions to source
lines, the findings, the hazards and the theorems.

    tlc -config MCBootTestMain.cfg MCBootTest      # one run
    tlapm BootTestProofs.tla                       # the proofs of one module

## Inventory

### Boot test (lib/obmc_boot_test.py)

State: the robot globals `${boot_stack}` and `${stack_mode}`, their saved
copies (`save_stack`, a lib/var_stack.py object), the working copies, the state
last read from the machine, `transitional_boot_selected`, `boot_success`,
`boot_results` and the pickle file of it, the SIGUSR1 handler, and
`exit_wait_early_message` of lib/state.py.

Operations: the keyword *OBMC Boot Test* (`obmc_boot_test_py`), which goes
through `setup`, the stack loop, `post_stack` and the boot list loop, each boot
through `select_boot`, `run_boot` and the rest of `test_loop_body`;
`obmc_boot_test_teardown`; the signal handlers `default_sigusr1` and
`stop_boot_test`.

Interactions: it calls plug-ins (PlugInPackages) at its call points, robot
keywords for the boots, `st.wait_state` which polls `check_state`, and FFDC
keywords. Another process stops a boot with SIGUSR1: while `wait_state` is on
the call stack the handler leaves a message for it, elsewhere it raises. The
same signal is used by lib/func_timer.py.

Hard: where the signal arrives; which globals of an earlier step `select_boot`
reads; what survives a failing setup, a teardown cut short and a killed
process; that failing transitional boots do not go on for ever.

Correct means: a call that passes has done what its stack asked for; failures
use up the stack; a stopped boot fails; the user's globals and the recorded
totals are not lost. For the last three the code has exceptions, and the
properties say which: a boot keyword that catches the stop, a stop between the
popping and the setting of a global, a kill while the results file is open.

### Machine state (lib/state.py, lib/utils.py)

State: the state last obtained; in a wait for a reboot, the time it began.
Operations: `get_state`, `get_os_state`, `os_up`, `check_state`, `wait_state`,
`wait_for_comm_cycle`. Hard: a state is put together from several requests;
a BMC need not report every state; the test for a reboot compares an uptime and
a clock that are read one after the other, each in whole seconds, while the BMC
may go away and come back at any moment. Correct: a state is what was reported,
and a wait for a reboot does not end without one.

### Boot results (lib/boot_data.py, lib/tally_sheet.py, setup and program_teardown)

State: the tally sheet, the history, the results object, and one file for each
master process. Operations: adding and updating rows, totals, the bounded
history, saving, loading and the clean-up of files of masters that are gone.
Hard: programs of one master hand the results on through a file that is
truncated before it is written; process ids are used again. Correct: counts
add up over programs, no live file is deleted.

### Processes and programs

* *Function timer* (lib/func_timer.py): `run`, `cleanup`, `timed_out`,
  `__del__`; `child_pid`, the original handler, the timer process. The timer
  may expire at any line. Correct: handler restored, timer killed and waited
  for, no foreign process killed, a limited run ends.
* *Shell commands* (lib/gen_cmd.py): `shell_cmd`, its alarm handler, `kill_cmd`;
  `command_timed_out`, handler and alarm, commands started. Correct: a valid
  return code is that of the last command; a limited call ends.
* *Pseudo terminals* (lib/pty_process.py): three dictionaries shared by threads
  under a lock, the children, their logs. Hard: everything slow happens between
  the locked sections. Correct: a running child can be stopped by its alias,
  logs follow their children, and the dictionaries change as a registry does.
* *Concurrent keywords* (lib/jobs_processing.py): processes and a shared
  dictionary keyed by time. Correct: every status is returned.
* *Programs* (lib/gen_arg.py, bin/auto_status_file.py): arguments kept in two
  places, signal handler, exit function, the ending of descendants, the status
  file. Hard: descendants fork and exit between the listing and the signals.
* *Robot caller* (lib/gen_call_robot.py): output files by name and second, PATH,
  base directory; an exit function that processes the last output again.
* *Plug-in processing* (lib/gen_robot_plug_in.py, lib/gen_plug_in.py,
  bin/process_plug_in_packages.py): packages in the order of a Python set, stop
  options, reports read back from printed text.
* *Values of plug-ins* (lib/gen_plug_in_utils.py): values saved in files for a
  later program of the same test run, parameters from the environment.

### Remote side

* *Ssh commands* (lib/gen_robot_ssh.py, lib/bmc_ssh_utils.py): SSHLibrary's
  connections and its current one, kept over calls. Hard: a command repeated
  after its connection was lost, connections left by failed logins, a switch by
  an alias that hosts may share. Correct: the right host, as far as aliases tell
  hosts apart, one connection per host and alias, no needless second execution.
* *Redfish client* (lib/bmc_redfish.py, lib/redfish_plus.py,
  lib/bmc_redfish_utils.py, ffdc/plugins/redfish.py): a session, and walks over
  resources that link to one another in circles. Correct: complete results,
  nothing requested twice, nothing of an earlier call.
* *Events* (bin/websocket_monitor.py, lib/event_notification.py): a login that
  is retried, a socket, messages until the wanted one. Correct: reported means
  sent, and sent means reported.
* *Code update* (lib/code_update_utils.py): polls of images whose activation
  changes meanwhile. Correct: no failed read is taken for a change.
* *Log collector* (ffdc/): protocols checked, groups of commands, plug-in blocks
  with variables and error directives. Correct: values reach the block that
  asked, errors stop what they should, sessions are closed.
* *FFDC of robot tests* (lib/openbmc_ffdc.py, lib/dump_utils.py,
  lib/gen_robot_keyword.py, lib/ffdc_cli_robot_script.py): a directory and a
  prefix in global robot variables, set for keywords that may fail. Correct:
  the files named are there and belong to this collection.

### Functions on values

Key-value texts, reports and filters (lib/var_funcs.py) and validations
(lib/gen_valid.py, lib/gen_robot_valid.py) keep no state, but what they do
depends on more than their arguments: on a caller's list that is changed in
place, on how the result is used, on `exit_on_error`. Printing (gen_print.py,
func_args.py) and the protocol utilities are functions from text to text. The
suites (*.robot), gui/, data/ and tools/ have no state of their own. The list
with reasons is under "components".

## Modules

| module | models | checked by |
|---|---|---|
| StateMatch | `compare_states`, anchored expressions, the use of a table entry as a state | MCBootTest, MCProcesses |
| BootTest, BootTestProps | the boot test with `wait_state`; its properties | MCBootTest |
| BootTestProofs | the theorems about it | tlapm |
| LimitProofs | theorems about FuncTimer, ShellCmd and SshCommand | tlapm |
| PtyProofs | theorems about PtyProcess, and that it implements AliasRegistry | tlapm |
| CallProofs | theorems about Redfish, Jobs, Events and Validation | tlapm |
| ProcessProofs | theorems about MachineState, ProgramExit, CodeUpdate and PlugInPackages | tlapm |
| FileProofs | theorems about TestFfdc, PlugInValues, RobotCalls and BootResults | tlapm |
| FfdcProofs | theorems about FfdcCollector with FfdcPlugins | tlapm |
| FoldProofs | induction over sets of numbers and finite sets, folds | tlapm |
| PtyProcess | pseudo terminal processes | MCProcesses |
| AliasRegistry | abstract: a registry of aliases that changes in single steps | refined by PtyProcess (`IsRegistry`) |
| MachineState | `get_state` and what it asks, `wait_for_comm_cycle` | MCProcesses |
| ProgramExit | arguments, signal handler, exit function, status file | MCProcesses |
| CodeUpdate | waits and checks of a code update | MCProcesses |
| FuncTimer | the function timer | MCCalls, itself |
| ShellCmd | shell commands | MCCalls, itself |
| Redfish | session and enumerations | MCCalls |
| Jobs | concurrent keywords | MCCalls |
| Events | websocket monitor and `subscribe` | MCCalls |
| SshCommand | ssh commands and their wrappers | MCLibrary |
| BootResults | tally sheet, history, results file | MCLibrary |
| RobotCalls | calls of robot and their output | MCLibrary |
| PlugInPackages | plug-in processing | MCLibrary |
| PlugInValues | saved values and parameters of plug-ins | MCLibrary |
| KeyValues | parsers, filters and reports of var_funcs.py | MCLibrary |
| Validation | the validations and their error handling | MCLibrary |
| TestFfdc | FFDC of robot tests | MCLibrary |
| FfdcCollector, FfdcPlugins | the log collector; its plug-in blocks | MCFfdc |

MCBootTest holds a boot table cut down from data/boot_table.json, reports and
stacks; MCFfdc six configurations. MCProcesses, MCCalls and MCLibrary each put
several libraries together that share no state: the variable `part` says which
library a behaviour is about, the others stay in their initial state. This is
no composition of systems, it lets one run check one instance of each; the
fairness of a module concerns steps that are not enabled in its initial state,
so it asks nothing of the behaviours of another part. Where components do
interact the modules contain both sides: FuncTimer the program and its timer,
BootTest the call, its signals and the wait, FfdcCollector the plug-in blocks
(it extends FfdcPlugins), TestFfdc the collection and the keywords it calls.

Variables and actions have the names of the code where it has one. An action is
what the code does between two points where something else may happen: a
signal, a call that may fail, a lock, the choice of another actor. A comment at
each action names the branch of the code. A definition `Bug_X` is a mutant of
`X`, used by no action.

What is abstracted:

* *BootTest.* A boot keyword and a plug-in are their outcome. `get_state` is
  any member of `Reports`. A wait may time out at any poll, or reach its state.
  The pass/fail table is its two totals. A failing poll changes nothing and is
  no step. A regular expression of a boot table is its text, the text without
  anchors and the words it matches, which is what `compare_states` and
  `strip_anchor_state` tell apart. A robot time-out of the whole test ends a
  call that has made `MaxBoots` boots. The results file holds totals, nothing,
  or is `Torn`: opened for writing and not yet dumped, or cut short there. The
  parameters of the main function are saved and set one by one, and popped and
  given back one by one; a parameter list of any other length would be the same
  loop. `requested`, `okPos`, `skipPos`, `fails`, `stopped`, `caught`, `lost`,
  `kept` and `cut` are observers.
* *MachineState.* A world is what a request meets: the interface, whether it
  answers, and which states it reports; a failed read gives "". Time is counted
  in ticks, `Second` of them to a second, and uptime and date are read in whole
  seconds (`Whole`); between the two reads of a poll at most `ReadGap` ticks
  pass. The platform is "power"; the tables of x86 are not modelled.
* *BootResults.* Rows are counts; a program may be killed at any step. A
  master's pid can be used again after it is gone; a master that finds a file
  under its pid goes on from it, as its programs do. Two observers: `sought`,
  the programs that were about to delete the file of this pid when its master
  started, and `mishap`, in which of two ways the file was lost: "cut" by a kill
  between truncation and dump, or "raced" by such a clean-up.
* *FuncTimer.* Python calls handlers between steps, so no step is taken while a
  signal is pending; signals of one kind are merged. The user's function lets
  the ValueError of a time-out pass. The n-th timer has pid n; a pid that was
  waited for may be another process, which is why killing it is an error.
  `upsets` observes the two moments the code does not master (see below).
* *ShellCmd.* A return code is valid or not; -1 is not in `valid_rcs`. The
  original SIGALRM handler is the default one. The command is in the process
  group of the program (Popen without a new session), so that `killpg` raises.
* *PtyProcess.* An alias is a number, a child and its log handle have the same
  one, output is what a wait makes of it.
* *ProgramExit.* A descendant is a process whose chain of parents leads to the
  program; processes fork and exit when they like.
* *RobotCalls.* The three output files of a call are one; seconds are a counter.
* *PlugInPackages.* A program is a return code, the output a sequence of
  reports. The order of the packages is any permutation, since they go through
  a Python set. One call is modelled: it begins with its parameters and leaves
  nothing behind.
* *PlugInValues.* One value of one package; a text is what the functions tell
  apart in it (a number, True, blank, a comment).
* *SshCommand.* SSHLibrary is external: an outcome of each call that
  `execute_ssh_command` tells apart, and the switch by alias, which makes the
  newest connection under it current. Any alias may be given to any host. A lost
  connection leaves open whether the command was run. Calls without alias are
  not forked ones.
* *Redfish.* A resource is its path and whether it ends with "/"; a response is
  the set of links in it. The BMC may change and sessions may end meanwhile.
  What can be reached is, for reference, the intersection of the sets that hold
  the start and are closed under the links (`Reached`).
* *Events.* A message is the path it is about, whether it is about an entry
  below it, and its property. A lost connection loses what is under way.
* *CodeUpdate.* Version texts are equal or not; every read may fail. An image id
  stands for one version, as the BMC derives it from the version's text: the
  version of each id is chosen in the beginning and an image that comes back
  under its id has the same one.
* *FfdcCollector.* Tools and clients are their outcomes; a value that a plug-in
  returns is its Python type and the block that returned it, with false values
  ("", 0, {}, None) and lists of other things than texts as types of their own.
* *TestFfdc.* A path is directory, prefix and name; a prefix is a second.
* *KeyValues.* A line is its indentation, key, delimiter and value, from small
  sets.
* *Validation.* An error text is there or not; texts, lists, dictionaries,
  numbers and limits are constants, in the run representatives of what the
  tests of the functions tell apart.

## Runs

| run | module | instance | shows |
|---|---|---|---|
| main | MCBootTest | two calls, a stack of two boots, failures anywhere, one signal at any moment, at most 4 boots a process | verdict, bounded failures, stopped boots, armed handler, kept globals, results in memory and in the file |
| test_mode | MCBootTest | test mode, both stack modes, weak fairness | every call ends, with at most two boots for an entry of the stack |
| ffdc | MCFfdc | one run of the collector, six configurations with every protocol, three values of `-rp`, thirteen outcomes of a plug-in | variables, error directives, files, connections, sessions, the end |
| processes | MCProcesses | two threads, two children, three calls; one wait for a reboot; a program with two descendants and one signal; a code update with two images, two tries | registry and its refinement, reboots and states, exit and status file, checks of an update, termination of each |
| calls | MCCalls | two redfish calls over six resources with a cycle, one change; three jobs; three runs under a timer, two signals from outside; three attempts of a command; three events, three logins, two subscriptions | completeness and single requests, statuses, handlers and timers, return codes, events, termination of each |
| library | MCLibrary | three ssh calls to two hosts under four aliases, which they may share; two masters and three programs; two robot calls, one signal; two plug-in programs and three starts; texts of four lines, reports of three rows; two validations; four packages at one call point; two collections in two seconds | connections and hosts, counts and files, output files, saved values, parsed structures, validity, results of plug-ins, ffdc files |

The properties of a run are listed in its cfg. A property of a library is a
conjunction of named parts; the comment above each in its module says what it
means and which code it is about:

| property | parts |
|---|---|
| ChildrenAccounted, StopsTakeEffect | dictionaries agree, no orphan, logs follow; a stop stops what it found |
| IsRegistry | the terminals implement AliasRegistry |
| RebootSeen, StateRight | a wait for a reboot ends with one, and no later one is missed; states as reported or absent, the system up exactly if it answers and the states say so |
| ProgramRight | arguments agree, listed descendants gone, return code in the status file |
| AnswersRight | a change was seen, errors came in a row, uploads and priorities as told |
| WaitsEnd, LimitedCallsEnd | termination: of terminals, waits, programs and checks, or one of two waits without time-out; of redfish calls, jobs, limited runs and commands |
| WalkRight, RequestsBounded | enumerations complete, nothing lost or made up; nothing requested twice, logins bounded |
| StatusesReturned | every status, but for processes with one reading of the clock |
| TimerHandled | handler restored, no timer left, no other process killed |
| ShellResultRight | return code and time-out of the last attempt, no alarm left, attempts in turn |
| ListenersTruthful, EntryReported | received means sent, in a session, sockets closed; sent means received |
| ConnectionsRight, SshResultsRight | one connection for a host and alias, the right host as far as aliases tell; truthful results, no needless second run |
| ResultsKept | counts and history over programs, no live file deleted, a file cut short ends the counting |
| CallsLeaveOrder | output of failed calls kept, all output in its place, PATH and base directory stable |
| ValuesRight | saved values of one's own test run, declared defaults |
| TextsRight | dictionaries, filters and reports as described |
| ValidationsRight | a wrong value never taken for valid; a valid one for wrong by those alone who test it under `exit_on_error` |
| ReportRight | failure, request and blame as they happened, every package once |
| CollectionRight | one place, and only files that are there |
| ArgsFromDeclarer, NoCallAfterError, FileOfCommand, GroupsRight, EndsClosed | the log collector: values of plug-ins, errors, files, requested groups over connected clients, an end with all sessions closed unless something without time-out never answers |

Bounds. Two calls are what it takes to carry something from one call to the
next; one signal is enough for one boot because the handler disarms itself (the
theorems hold for any number of signals). Stacks of two and three boots contain
a boot whose transition fails above another one, and the last one. Two threads
and two children give both orders of every pair of locked sections, and a third
call finds what they left. Nine ticks of half a second with a read gap of a
second let a BMC reboot before, between and after the reads of a poll, and at
both ends of a second. Two descendants are a child and a grandchild, or two
children, one of which forks while the other is asked to end. Two failed reads
with a limit of two tell "in a row" from "in all". In test mode, with three
entries and two boots for each and one more for the boot list, 8 boots are the
most a call can make, fewer than the 12 of `MaxBoots`, so CallEnds asks for an
end without the robot time-out. Six resources are a root, a cycle, a resource
linked under both spellings, one left out and one behind it. Three jobs on two
readings of the clock collide and do not. Three runs of the timer allow a timer
to meet the next run and the run after it to find what that left. Two attempts
are all `execute_ssh_command` makes; three calls allow a connection to be made,
left and found again, by another host with the same alias too. Two masters, one
of which takes the pid of the other, and three programs are a writer, one killed
while writing and a reader. Four lines hold two sections or three levels of
indentation. Two packages chosen by the user and an integrated one give all
orders of failure, request and success. The proofs below remove the bounds for
all modules but KeyValues.

Deadlock is not checked in ffdc, processes, calls and library: the modelled
calls are finite in number and the program may rest after them.

Fairness is weak fairness of a program's own steps: the process is scheduled,
timers expire, pending signals are delivered. Nobody has to call or to send
signals.

| module | fair | not fair, and why |
|---|---|---|
| BootTest | steps of a call | termination is checked in test mode only: in the real mode a transitional boot may pass and not lead to the start state, and nothing counts these rounds |
| PtyProcess | steps of each thread | the exit of children: a wait for output has a time-out, `child.wait()` after the end of the output has none, and WaitsEnd excepts just that wait (`HeldUp`) |
| MachineState, CodeUpdate | the polls of the caller's loop, which sleeps a fixed time | the BMC |
| ProgramExit | the exit steps; the exit function the caller gave is taken to return | the exit of descendants, for which the program waits without a limit: WaitsEnd excepts that wait (`Lingers`); signals, forks |
| Redfish | requests and logins of a call (the library has time-outs) | changes of the BMC |
| Jobs | starts, joins, and the processes' steps: a keyword ends | being killed |
| FuncTimer | the program, the expiry of timers, delivery of signals | the user's function, which may run for ever |
| ShellCmd | the program and the alarm | the command, which may run for ever |
| Events | the listener's steps | the BMC's events; `recv` has no time-out and is fair only when there is a message |
| FfdcCollector | the program's own steps | what it waits for without a time-out (`HeldUp`): the tools of `run_tool_cmd` (ffdc_collector.py:1247), the exit status of a command (ssh_utility.py:147), the prompts of a telnet login (telnet_utility.py:74), plug-in functions |

Runs expected to fail, each a disagreement between the code and its text:

| run | what the code does |
|---|---|
| lists | both stack modes and a boot list over an anchored table: a default power operation is chosen although the user's list has a boot that is valid and leads there, since entries of the table are compared as if they were states (obmc_boot_test.py:736) |
| skip_drops_boots | in skip mode a needed boot above another entry is popped and forgotten, and the call passes |
| pop_empty_stack | a post_stack failure is taken for a failed transitional boot, and `select_boot` pops the empty stack |
| stop_leaks | a stop request that meets the wait's time-out fails the next boot instead |
| timer_stray | a timer that expires within cleanup signals the handler of the object's user |
| not_halted | a command that exceeds its time-out is still running when `shell_cmd` returns |

Other disagreements seen while modelling. The models show them, in the action
named where there is one, and the properties are stated so that they hold
beside them; no run is spent on them:

* obmc_boot_test.py:1012: after a failing boot keyword or wait `stop_boot_test`
  stays installed (`Method`, `WaitTimeout`); ArmedAfterFailureOnly says what
  remains true. lib/state_manager.robot:270: *Initiate BMC Reboot*
  ignores the failure of its request, and with it a stop that arrives there, whose
  handler is disarmed by then (`StopCaught`; StoppedBootFails excepts it). :1211:
  `except BaseException` around `save_stack.pop` takes a stop for a global that
  was not saved, whether it was popped by then or not (`StopInPop`).
  :1201: a kill between the opening of the results file and the end of the dump
  leaves a file that no later call can load (`LoadFails`).
* func_timer.py:113: a SIGUSR1 from elsewhere is reported as a time-out
  (`timed_out`); :199: one that comes before the pid is stored leaves
  `timed_out` installed ("pid_unknown" in `upsets`).
* gen_cmd.py:419: an alarm just after the end of the command raises though
  errors are ignored (`TimedOutLate`); :422: one between the two restoring
  lines ends the program (`KilledByAlarm`); :532: `kill_cmd` raises.
* process_plug_in_packages.py:284: with `stop_on_non_zero_rc` a failing program
  ends the loop although `stop_on_plug_in_failure` is 0 (`Stops`); :228: the
  failed plug-in name may be that of a package that made a request
  (`ParseOutput`); gen_plug_in.py:199: whether the Stop package is called
  before another one ends the loop depends on the order of a set.
* gen_robot_ssh.py:235: a connection found for its host is made current by its
  alias, which names the newest one under it, that of another host if hosts share
  the alias (`SwitchConnection`; RightHost says so); :254: a call without alias
  ends in a KeyError; the wrappers of bmc_ssh_utils.py answer return code 1 when the configuration
  of their host is missing.
* pty_process.py: an automatic alias may meet one a caller chose; a stop
  without force of a child that goes on leaves it running and unregistered; the
  log of a registered child is truncated by a start that is refused afterwards;
  a failing spawn leaves its log open.
* boot_data.py:346: the clean-up lists the files and then deletes those whose
  master is gone. Two programs of other masters may both list the file of a
  dead one; the faster deletes it, a new master gets the same pid and saves its
  results, and the slower one deletes these. Three masters are needed for that,
  so the run does not meet it, but the proof of ResultsKept did: the property
  names it as one of the two ways to lose the file ("raced" in `mishap`), and
  OnlyDeadSought says that no clean-up decides against a master that runs.
  obmc_boot_test.py:268: with a file that was cut short ("cut") every later
  program fails in its setup, until someone deletes the file (CutIsFinal).
* state.py:779 and :850: two missing commas join names, so that a request whose
  only state of the BMC is `bmc` gets none of the BMC's states and the system is
  reported down; so it is when the BMC leaves a requested state out (:683-686);
  OsUpRight says exactly when; :768: an empty date raises.
* gen_arg.py:543: a second signal cuts the exit function short; descendants are
  waited for without a limit.
* gen_call_robot.py: a signal before the return code is stored (:529) has the
  output treated by the code of the call before; two calls in one second use
  the same names.
* code_update_utils.py:346: the comment says that read failures have a counter
  of their own, but a failed read uses up a try as well; `get_image_path`
  without an answer raises.
* gen_plug_in_utils.py: a saved text that is blank or begins with "#" cannot be
  restored; a blank exported parameter hides the override; Stop/cp_stop_check
  saves a function object (:86).
* gen_valid.py: a tested validation under `exit_on_error` returns None for a
  valid value, which then tests as wrong (TestSees says so); `valid_list` accepts all three of its exclusive lists;
  obmc_boot_test.py:571-577: validations whose result is dropped only print.
* var_funcs.py: `list_to_report` removes a line of its caller's list, so that a
  second report of the same list differs (`ReportStable` is about copies).
* bmc_redfish.py: a login that raises ValueError is ignored;
  ffdc/plugins/redfish.py keeps its results in globals between calls and
  swallows exceptions.
* jobs_processing.py:82: two keywords that start at the same reading of the clock
  share a key (`MissingOnlyIfSameTime`).
* websocket_monitor.py ends with return code 0 after a lost connection too;
  event_notification.py goes on after a refused login and waits without limit.
* ffdc_collector.py:1290: the SSH login is made again for SCP; :1714: names of a
  block that failed stay in the list, though the comment above says it is
  cleared for the next block, so a later block's values go to them
  (ArgsFromDeclarer says which value reaches which name); a dictionary gives
  nothing to any name; the flag of `exit_on_error` is never reset; a run that
  raises closes no session (`EndsClosed` speaks of those that return). After a
  lost telnet connection the next command raises (telnet_utility.py:173-200).
* ffdc_cli_robot_script.py:108: keys that a user passes end in a TypeError, since
  they are handed to `run_ffdc_collector` as keyword arguments. The part for HOST_OS raises whenever the system
  answers (`SSHRemoteclient` and `ffdc_collector` are called with too few
  arguments); a key ECONFIG is taken for CONFIG, ENV_VAR is not recognised, and
  ports have no default. dump_utils.py: without dumps there is one empty name,
  whose copy fails.

## Proofs

The theorems are about the specifications without fairness that the runs check,
for every value of the constants: any number of threads, calls, children,
signals, hosts, resources and so on. What is assumed of the constants is named
in the module that declares them and evaluated by TLC in the runs: bounds are
natural numbers, sets that the code gets as lists are finite, and

* StateAssumption: the clock, the time between two reads and the number of polls
  are natural numbers, and a second has at least one tick;
* PtyAssumption: there are finitely many threads;
* PlugInAssumption: finitely many packages are installed, the integrated ones
  support the machine, return codes are bytes, the empty name is no package's;
* UpdateAssumption: there are finitely many images, and the limits are natural
  numbers;
* ValuesAssumption: a saved value is not the text that stands for no text;
* ResAssumption: there are finitely many kinds of boot and at least one, and a
  process id is a positive number;
* ReportsAssumption: a BMC reports some of the states that the tables of state.py
  ask it for, perhaps none, and whether a reported text lets the operating system
  run is what the entry in the table says of it;
* FfdcAssumption: a configuration is a list of groups of the six protocols, with
  or without lists of commands and files, as YAML files can have them;
* ValidationAssumption: the lists validated are lists of texts, numbers and
  limits are integers, and where valid or invalid values are given for a key of
  a dictionary there is at least one.

Each theorem rests on an inductive invariant; where that is far from the
property, TLC has checked it on a small instance first.

### The boot test

BootTestProofs proves nine theorems about `BootTest!Spec`, for every boot
table, set of reports, stacks, boot list, thresholds and bounds. The
assumptions are the named ones of BootTest: boots, stacks and modes have their
types, the defaults are boots of the table, counts are natural numbers, flags
Boolean, and `NoResults` and `Torn` are two things that are no totals. TLC evaluates them in the
runs.

| theorem | property | invariant |
|---|---|---|
| GlobalsAreKept | GlobalsKept | GlobInv |
| TypeCorrect | TypeOK | TypeInv (with GlobInv) |
| FailuresAreBounded | FailuresBounded | BootInv |
| NormalPassIsDone | NormalPassMeansStackDone | BootInv |
| StoppedBootsFail | StoppedBootFails | StopInv |
| ArmedAfterFailures | ArmedAfterFailureOnly | StopInv |
| SavedResultsDoGrow | SavedResultsGrow (an action property) | ResInv |
| SavedResultsAreKept | SavedResultsKept | ResInv |
| StackWorkIsBounded | StackWorkBounded, in test mode for a LeadingTable | WorkInv |

* GlobInv says where a global's oldest value is at each of the steps that save,
  set, pop and give back (HandInv): a global is set only after it was saved, and
  given back only after a value was popped for it. No other step touches the
  globals (GlobStep), and push and pop keep the bottom of a stack (PushKeeps,
  PopKeeps, HandKeeps).
* TypeInv adds that there are results in the main function, and a boot where
  one is running: without it `BootDone` would not have totals to add to.
* FailInv. FailuresBounded allows one failure more than entries used up, and
  that is not inductive: it could grow with each failing boot. RunningBound
  says the surplus is not there while a boot runs, RestingBound that a surplus
  belongs to a failed transitional boot, whose target the next `select_boot`
  removes, SelectHasStack that this is not called without a stack.
* FlowInv and DoneInv. A pass means everything was done because the stack left
  is a prefix of the stack requested (PrefixLeft) and each position beyond it
  passed, is running or comes with a failure (RestDone); failures counted by
  the model are those the verdict is computed from (FailsCounted); and after
  the stack loop the stack is spent (StackSpent). In skip mode PrefixLeft does
  not hold, which is the finding skip_drops_boots.
* StopInv. A boot that was stopped and is still running is in a `wait_state`
  that has not looked at the message yet, and the message is there
  (StopPending), unless its keyword caught the stop; a boot that begins has not
  been stopped (StopNotAhead).
* ResInv. The totals in memory are never behind those last saved completely; the
  file holds these or is torn, and it is torn only within a save or after one
  that was cut short, after which no call gets results.
* WorkInv. StackWorkBounded alone would let every round choose another
  transitional boot. EntryCost counts the transitional boot that the top of the
  stack has already cost, Arrival says that it has led, or will lead, to the
  start state of the top, so that no second one is chosen. This takes a table in
  which a boot that may be chosen leads to the start state in question
  (LeadingTable, true of the table of the run *test_mode*), and test mode: on a
  real machine a boot may pass and end elsewhere.

StepKinds, StopSteps and ResSteps sort the actions by what they do to the
variables an invariant is about, so that the inductive proofs have one step for
each kind.

### The libraries

| module | theorem | property | invariant |
|---|---|---|---|
| LimitProofs | TimerIsHandled | TimerHandled | TimerInv |
| | ShellResultIsRight | ShellResultRight | ShellInv |
| | ConnectionsAreRight, SshResultsAreRight | ConnectionsRight, SshResultsRight | SshInv |
| PtyProofs | ChildrenAreAccounted | ChildrenAccounted | PtyInv |
| | StopsHaveEffect | StopsTakeEffect | PtyInv |
| | PtyIsRegistry | IsRegistry (a refinement) | PtyInv, BoundInv |
| CallProofs | ListenersAreTruthful | ListenersTruthful | EventsInv |
| | StatusesAreReturned | StatusesReturned | JobsInv |
| | WalksAreRight, RequestsAreBounded | WalkRight, RequestsBounded | WalkInv, LoginInv |
| | ValidationsAreRight | ValidationsRight | itself |
| ProcessProofs | RebootIsSeen | RebootSeen | ClockInv |
| | StatesAreRight | StateRight | itself, with ClockInv |
| | ProgramIsRight | ProgramRight | ExitInv |
| | AnswersAreRight | AnswersRight | UpdateInv |
| | ReportsAreRight | ReportRight | PackInv |
| FileProofs | CollectionsAreRight | CollectionRight | FfdcInv |
| | ValuesAreRight | ValuesRight | ValuesInv, ParmInv |
| | CallsDoLeaveOrder | CallsLeaveOrder (with an action property) | CallsInv |
| | ResultsAreKept | ResultsKept | ResInv |
| FfdcProofs | FfdcGroups | GroupsRight | FfdcInv |
| | FfdcNoCallAfterError | NoCallAfterError | FfdcInv |
| | FfdcFiles | FileOfCommand | FfdcInv |
| | FfdcArguments | ArgsFromDeclarer | FfdcInv |

* TimerInv. That no foreign process is killed follows from what `child_pid` is at
  each step of `cleanup` (KnownInv) and from there being no process but the
  timer of this run, known except between fork and the storing of its pid
  (LeftInv); that the handler comes back, from where it can be installed
  (HandlerInv, SetUpInv).
* ShellInv. The flag `command_timed_out` is a global of the module; it is about
  this attempt wherever the attempt is judged (TimeOutInv), and the alarm is
  there only around `communicate` (AlarmInv).
* PtyInv. Between two locked sections a thread holds a child and a log that the
  dictionaries do not show, so the invariant says for each place of a keyword
  what its thread holds (PlaceInv), that no two threads register one child
  (OwnInv), whose alias a SOL session has (SolInv), and that a stop of all has
  yet to come to the aliases of the children it has listed (SeenInv), though
  aliases are given away meanwhile. With it every step maps to one step of
  AliasRegistry or none; BoundInv counts the children about to be spawned.
* SshInv. The connection in use is the newest under the alias of the call, and the
  hosts of the connections under an alias are those it was given (ConnInv); a call
  that goes on after its command was run has lost a connection (LossInv).
* EventsInv. What is on its way was sent since the monitor registered (SentInv).
* JobsInv. The dictionary holds the entries of the jobs that ended but for those
  that share a key (EntryInv, MissInv).
* WalkInv. A walk has requested all it looked at and has still to look at all
  that the answers name (LookedAtInv), nothing else (NamedInv, ReachedInv), and
  what was requested is not requested again (OnceInv). That the result is
  complete needs the closure of both: at the end the result is a closed set,
  and within the smallest one.
* ClockInv. An uptime read before the BMC booted again is too long to be taken
  for a new one, as long as the BMC had run for `ReadGap` and a second, which is
  what two truncations may cost (BeganInv, ReadInv).
* ExitInv. The descendants are listed in the exit function only (ListedInv), and
  from the last line on the code in the status file is the program's (MainInv).
* UpdateInv. A counted error belongs to the current row of failing reads
  (WaitInv); priorities taken are those of the images read so far
  (PriorityInv); an image that is still there has its turn to come (DeleteInv).
  The proof of UploadInv failed at first for a good reason: an image id could
  come back with another version, and only the bound of the run hid that.
* PackInv. No report but the last one stops the loop (StopInv); that makes the
  last line of the output that of the request or of the failure. No package is
  twice in the list, and those run are before the place in it (SingleInv,
  ReportInv).
* FfdcInv (TestFfdc). The files a collection has listed are its own because
  prefixes are seconds and the clock moves on between collections (OwnInv), and
  directory and prefix are put back or not yet changed (PlaceInv).
* ValuesInv. A file belongs to the test run whose directory it is in (PidInv,
  PgmInv, FileInv), and what a reader may have seen is what was there since it
  began (SeenInv).
* CallsInv. The output of a call whose processing nothing cut short is settled,
  or it is that of the last call and has come so far as the step the program is
  at (SettleInv, with Underway); the last return code is that of the call whose
  name the last command has (CommandInv), so a second processing in the exit
  function decides as the first did; `known` is never given a call while its
  robot runs (FlowInv).
* StateRight. No step depends on an earlier answer, so the work is in what
  `get_state` computes: the answer has what was asked for, as reported or as
  initialised (AnswerAsReported), and what it says of the operating system
  follows from the states asked for, be they reported or absent (OsUpIs,
  AnswerOfOs).
* ValidationsRight is inductive as it stands: each validation is judged by its
  own arguments. The proof compares two descriptions of validity, the order of
  tests in the code and what the text above each function says
  (ErrorIsDescribed, ListDescribed for the three lists of `valid_list`).
* ResInv (BootResults). A program that runs has in memory the boots that the
  programs of its process id have saved and those since, and a whole file those
  saved (InProgram, InFile), row by row, in total and in the bounded history
  (Tallied, IsLast), as long as the file was neither cut nor raced; after a cut
  there is no program that counts and no whole file (IsCut); and no clean-up is
  about to delete the file of a master that runs, unless it was before that
  master started (OnlyDeadSought). Totals are folds over the rows and counts are
  cardinalities: SumChange and CountedNext say what one boot more does to them.
* FfdcInv (FfdcCollector). What works was asked for, and if no SSH group comes
  after an SCP one (SshFirst) the client of the last login is connected
  (WorkInv, CheckedList); every error sets the flag and nothing resets it
  (ErrorInv); what is saved has a place in the configuration (FilesInv); and the
  list of names is that of the blocks since one whose response was taken, while
  each variable has what the first response taken since its last declaration
  holds in its place (ValueInv), which is what the argument of a later block is
  taken from.

FoldProofs is what the last two need of induction. The library's induction
theorems have an operator as a parameter, which the provers cannot instantiate;
well-foundedness is stated about sets, and with it induction can be too: a
set of numbers has a least element (LeastNat), a property given as a set that
holds of 0 and of successors holds of all (AllNat), and likewise for finite sets
(AllSubsets). A fold is the choice of a recursive function: FoldExists shows that
there is one.

### What is only model-checked

* Termination and all that needs fairness or ENABLED: CallEnds, WaitsEnd,
  LimitedCallsEnd, EntryReported, EndsClosed.
* TextsRight: KeyValues declares RECURSIVE operators, because the parsed
  structures are trees, and with one the prover loses its SMT backend, so neither
  it nor MCLibrary holds theorems.

Every other invariant and action property of the passing runs is stated by a
theorem.

## Plan

The modelling is complete but for what is listed below, and so are the proofs of
the invariants but for TextsRight. Left, the most important first:

1. An abstract specification of a boot test call (a stack, a verdict, the boots
   that count) which BootTest in normal mode implements.
2. The walks over trees in KeyValues as recursive functions over a bounded set of
   trees, which would bring TextsRight within reach of AllNat.
3. The clean-up of results files with a third master in the run *library*, once
   the code decides whose pid a file belongs to.

## Not modelled

* Printing (gen_print.py and what is built on it): layout of text, no state.
* The protocol utilities (ipmi_utils.py, network and PEL utilities and others):
  one request each and the parsing of its answer; a model would be the table of
  their formats.
* firmware_utils.py, tftp_update_utils.py, redfish_request.py and
  event_notification_util.py: single requests.
* The Tcl libraries and serial-over-LAN tools: an expect script around a login.
* The robot suites and gui/: straight-line sequences of keywords whose state is
  the machine under test. data/ and tools/: tables and generators.
* Within modelled components: the content of logs and FFDC, reports and other
  printed text, lengths of time-outs and run times, the parsing of
  configuration files, the search for plug-in directories, and the race of error
  logs that are listed and then deleted (obmc_boot_test.py:1149).
