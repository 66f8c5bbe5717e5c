------------------------------ MODULE BootTest ------------------------------
(***************************************************************************)
(* The boot test program: lib/obmc_boot_test.py, with the wait_state loop  *)
(* of lib/state.py it relies on.                                           *)
(*                                                                         *)
(* One call of the robot keyword "OBMC Boot Test" runs the boots of        *)
(* boot_stack (last element first), then the post_stack plug-ins, then     *)
(* max_num_tests boots chosen from boot_list.  A SIGUSR1 asks for the boot *)
(* in progress to be stopped.  Calls follow one another in one process and *)
(* in later processes; results are carried over by a file.                 *)
(*                                                                         *)
(* Abstracted: what a plug-in or a boot keyword does is its return code;   *)
(* the pass/fail table is its two totals; logs, reports and prints are     *)
(* left out; an AssertionError raised by the signal handler is a jump to   *)
(* where the program catches it.                                           *)
(***************************************************************************)
EXTENDS Integers, Sequences, FiniteSets, StateMatch

CONSTANTS
  Boots,              \* the keys of boot_table
  NoBoot,             \* the empty boot name
  BootTable,          \* [Boots -> [start, end, bmc_reboot]]
  Reports,            \* what get_state may return
  DefaultState,       \* st.default_state
  InvalidStateMatch,  \* st.invalid_state_match
  DefaultPowerOn,     \* default_power_on, a boot
  DefaultPowerOff,    \* default_power_off, a boot
  BootStacks,         \* values passed as loc_boot_stack
  StackModes,         \* values passed as loc_stack_mode
  None,               \* a parameter that is not passed
  InitGlob,           \* the robot globals [boot_stack, stack_mode] of the user
  BootList,           \* the boots of boot_list
  MaxNumTests,        \* max_num_tests
  Threshold,          \* boot_fail_threshold
  CallPostStackPlug,  \* call_post_stack_plug
  FfdcCheckAll,       \* ffdc_check = "All"
  DeleteErrlogs,      \* delete_errlogs
  FfdcOnly,           \* values of ffdc_only a call may have
  TestMode,           \* test_mode
  InitPass, InitFail, \* the boot_pass and boot_fail parameters
  NoResults,          \* no boot_results object, or no results file
  Torn,               \* a results file no totals can be read from
  MaxCalls,           \* bound: calls of the main keyword
  MaxSignals,         \* bound: signals sent, those that kill included
  MaxBoots            \* bound: boots one process starts before a robot
                      \* time-out ends the program

ASSUME BootAssumption ==
  /\ NoBoot \notin Boots
  /\ DefaultPowerOn \in Boots /\ DefaultPowerOff \in Boots
  /\ BootList \subseteq Boots
  /\ BootStacks \subseteq Seq(Boots)
  /\ StackModes \subseteq {"normal", "skip"}
  /\ InitGlob \in [boot_stack : Seq(Boots), stack_mode : {"normal", "skip"}]
  /\ FfdcOnly \subseteq BOOLEAN /\ FfdcOnly # {}

ASSUME CountAssumption ==
  /\ MaxNumTests \in Nat /\ Threshold \in Nat
  /\ InitPass \in Nat /\ InitFail \in Nat
  /\ MaxCalls \in Nat /\ MaxSignals \in Nat /\ MaxBoots \in Nat

ASSUME FlagAssumption ==
  /\ CallPostStackPlug \in BOOLEAN /\ FfdcCheckAll \in BOOLEAN
  /\ DeleteErrlogs \in BOOLEAN /\ TestMode \in BOOLEAN

ASSUME NoResultsAssumption ==
  /\ NoResults \notin [pass : Nat, fail : Nat]
  /\ Torn \notin [pass : Nat, fail : Nat] \cup {NoResults}

VARIABLES
  pc,               \* where the program is
  phase,            \* the part of the main function: "stack", "post", "list"
                    \* or "only" (ffdc_only)
  ix,               \* the loop variable of the boot_list loop
  waiting,          \* where wait_state is: "poll", "leave" or "return"
  glob,             \* robot's global ${boot_stack} and ${stack_mode}
  save_stack,       \* the var_stack of saved globals
  px,               \* the loop variable over main_func_parm_list
  loc,              \* the values passed for the parameters, or None
  hand,             \* the value the teardown has popped and not yet given back
  boot_stack,       \* the boots still to do, the next one last
  stack_mode,
  ffdc_only,
  state,            \* the state last obtained by my_get_state
  transitional_boot_selected,
  next_boot,
  boot_success,
  boot_status,      \* what run_boot ended with: "PASS" or "FAIL"
  boot_count,
  results,          \* the totals of boot_results, or NoResults
  saved,            \* the results file: its totals, NoResults or Torn
  path_set,         \* "boot_results_file_path" in globals()
  init_boot_fail,
  cp_setup_called,
  handler,          \* the SIGUSR1 handler: "system", "default" or "stop"
  exit_msg,         \* exit_wait_early_message: 0 when blank, else the number
                    \* of the boot which was to be stopped
  verdict           \* how the call ended: "none", "PASS" or "FAIL"

\* Observers of the properties and bounds of the model; the code has none of
\* them.
VARIABLES
  requested,        \* the boot_stack this call began with
  okPos,            \* the positions of requested whose boot ran and passed
  skipPos,          \* the positions skipped since their end state matched
  fails,            \* the boots of this call that failed
  stopped,          \* the last boot whose stop request arrived in time
  caught,           \* the last boot whose keyword caught the stop request
  lost,             \* the globals whose saved value a stop has thrown away
  kept,             \* the totals last saved completely, or NoResults
  cut,              \* a stop or a kill has cut the last save short
  calls, signals    \* calls made and signals sent

callVars  == <<glob, save_stack, px, loc, hand, lost, ffdc_only, calls>>
stackVars == <<boot_stack, stack_mode, requested, skipPos>>
loopVars  == <<phase, ix>>
pickVars  == <<state, transitional_boot_selected, next_boot, boot_count>>
bootVars  == <<boot_success, boot_status, okPos, fails>>
fileVars  == <<saved, path_set, kept, cut>>
resVars   == <<results, fileVars, init_boot_fail, cp_setup_called>>
sigVars   == <<handler, exit_msg, stopped, caught, signals>>

vars == <<pc, waiting, verdict, callVars, stackVars, loopVars, pickVars,
          bootVars, resVars, sigVars>>

-----------------------------------------------------------------------------
(* Control points *)

WaitPcs == {"uptime_wait", "rest_wait", "change_wait", "end_wait"}

\* Inside run_boot, where a failure is the failure of the boot.
RunBootPcs == WaitPcs \cup {"pre_boot", "method", "post_reboot", "post_boot"}

\* Before setup: the parameters that are passed are put in place.
ParmPcs == {"save_parm", "set_parm"}

\* Inside the teardown keyword.
TeardownPcs == {"cleanup", "save", "dump", "restore", "give_back"}

\* Inside the main function after setup, outside run_boot.
LoopPcs == {"first_purge", "loop", "select", "begin", "boot_done", "post_test_case",
            "ffdc_check", "ffdc", "purge", "stop_check", "post_stack",
            "verdict"}

AllPcs == {"idle", "setup"} \cup ParmPcs \cup LoopPcs \cup RunBootPcs \cup TeardownPcs

\* The next step of run_boot once a wait_state has returned.
AfterWait == [uptime_wait |-> "rest_wait", rest_wait |-> "post_reboot",
              change_wait |-> "end_wait",  end_wait  |-> "post_boot"]

\* A failure nobody catches before the keyword's teardown.
Abort == pc' = "cleanup" /\ verdict' = "FAIL"

-----------------------------------------------------------------------------
(* States and boot table entries *)

MachineStates ==
  Reports \cup {DefaultState}
          \cup {strip_anchor_state(BootTable[b].end) : b \in Boots}

StartMatches(s, b) == compare_states(s, BootTable[b].start, "and")
EndMatches(s, b)   == compare_states(s, BootTable[b].end, "and")

\* The comparison of a candidate's end entry with the start entry of the boot
\* that waits on the stack.
EndMeetsStart(c, b) ==
  compare_states(AsState(BootTable[c].end), BootTable[b].start, "and")

\* In test mode my_get_state only refreshes the time.
my_get_state(s) == s \in IF TestMode THEN {state} ELSE Reports

\* A state with a blank field is rejected.
valid_state(s) == ~compare_states(s, InvalidStateMatch, "or")

\* The boots which may be chosen from the list in state s; popped is the boot
\* at the top of the stack for which a transition is sought, or NoBoot.
ListCandidates(s, popped) ==
  {c \in BootList : /\ StartMatches(s, c)
                    /\ popped # NoBoot => EndMeetsStart(c, popped)}

\* Mutant: the two defaults are swapped.
Bug_DefaultCandidate(s) ==
  IF StartMatches(s, DefaultPowerOn) THEN DefaultPowerOff ELSE DefaultPowerOn

DefaultCandidate(s) ==
  IF StartMatches(s, DefaultPowerOn) THEN DefaultPowerOn ELSE DefaultPowerOff

Candidates(s, popped) ==
  IF ListCandidates(s, popped) # {} THEN ListCandidates(s, popped)
                                    ELSE {DefaultCandidate(s)}

-----------------------------------------------------------------------------
(* Stacks *)

Push(s, e) == Append(s, e)
Pop(s) == SubSeq(s, 1, Len(s) - 1)
Top(s) == s[Len(s)]

\* The boot the selection loop ends with.  In "normal" mode it is the top of
\* the stack.  In "skip" mode the loop has no other exit than the empty stack,
\* so that it is the bottom one, or none when that one is unnecessary.
Popped(stk, s) ==
  IF stack_mode = "normal" THEN Top(stk)
  ELSE IF EndMatches(s, stk[1]) THEN NoBoot ELSE stk[1]

\* Mutant: a second boot is popped in normal mode.
Bug_Rest(stk) == IF stack_mode = "normal" THEN Pop(Pop(stk)) ELSE << >>

\* What the selection loop leaves on the stack.
Rest(stk) == IF stack_mode = "normal" THEN Pop(stk) ELSE << >>

\* The positions the selection loop names as skipped.
Skipped(stk, s) ==
  IF stack_mode = "normal" THEN {}
  ELSE {i \in 1..Len(stk) : EndMatches(s, stk[i])}

-----------------------------------------------------------------------------
\* The parameters of the main function ("quiet" is treated like the others).
main_func_parm_list == <<"boot_stack", "stack_mode">>
Parm == main_func_parm_list[px]
ParmLeft == px <= Len(main_func_parm_list)

NothingSaved  == [boot_stack |-> << >>, stack_mode |-> << >>]
NothingPassed == [boot_stack |-> None,  stack_mode |-> None]

Init ==
  /\ pc = "idle" /\ waiting = "poll" /\ verdict = "none"
  /\ phase = "stack" /\ ix = 0
  /\ glob = InitGlob
  /\ save_stack = NothingSaved /\ hand = NothingSaved
  /\ px = 1 /\ loc = NothingPassed /\ lost = {}
  /\ boot_stack = << >> /\ stack_mode = "normal" /\ ffdc_only = FALSE
  /\ state = DefaultState
  /\ transitional_boot_selected = FALSE
  /\ next_boot = NoBoot
  /\ boot_success = FALSE /\ boot_status = "FAIL"
  /\ boot_count = 0
  /\ results = NoResults /\ saved = NoResults /\ kept = NoResults
  /\ path_set = FALSE /\ cut = FALSE
  /\ init_boot_fail = 0 /\ cp_setup_called = FALSE
  /\ handler = "system" /\ exit_msg = 0 /\ stopped = 0 /\ caught = 0
  /\ requested = << >> /\ okPos = {} /\ skipPos = {} /\ fails = 0
  /\ calls = 0 /\ signals = 0

\* The main function is called.
obmc_boot_test_py(loc_boot_stack, loc_stack_mode) ==
  /\ pc = "idle" /\ calls < MaxCalls
  /\ calls' = calls + 1
  /\ loc' = [boot_stack |-> loc_boot_stack, stack_mode |-> loc_stack_mode]
  /\ px' = 1
  /\ ffdc_only' \in FfdcOnly
  /\ pc' = "save_parm" /\ verdict' = "none"
  /\ UNCHANGED <<glob, save_stack, hand, lost, waiting, stackVars, loopVars,
                 pickVars, bootVars, resVars, sigVars>>

InParms(from, to) ==
  /\ pc = from /\ pc' = to
  /\ UNCHANGED <<hand, lost, ffdc_only, calls, waiting, verdict, stackVars,
                 loopVars, pickVars, bootVars, resVars, sigVars>>

\* A parameter that is not passed leaves the robot global of its name alone.
SkipParm ==
  /\ InParms("save_parm", "save_parm")
  /\ ParmLeft /\ loc[Parm] = None
  /\ px' = px + 1
  /\ UNCHANGED <<glob, save_stack, loc>>

\* One that is passed saves the robot global and then replaces it.
SaveParm ==
  /\ InParms("save_parm", "set_parm")
  /\ ParmLeft /\ loc[Parm] # None
  /\ save_stack' = [save_stack EXCEPT ![Parm] = Push(@, glob[Parm])]
  /\ UNCHANGED <<glob, px, loc>>

SetParm ==
  /\ InParms("set_parm", "save_parm")
  /\ glob' = [glob EXCEPT ![Parm] = loc[Parm]]
  /\ px' = px + 1
  /\ UNCHANGED <<save_stack, loc>>

ParmsDone ==
  /\ InParms("save_parm", "setup")
  /\ ~ParmLeft
  /\ loc' = NothingPassed /\ px' = 1
  /\ UNCHANGED <<glob, save_stack>>

\* setup(), redfish.login() fails: nothing else has been done.
SetupLoginFails ==
  /\ pc = "setup"
  /\ Abort
  /\ UNCHANGED <<waiting, callVars, stackVars, loopVars, pickVars, bootVars,
                 resVars, sigVars>>

\* What setup() assigns before anything else can go wrong.
SetupBegins ==
  /\ pc = "setup"
  /\ handler' = "default"
  /\ transitional_boot_selected' = FALSE
  /\ boot_stack' = glob.boot_stack /\ stack_mode' = glob.stack_mode
  /\ requested' = glob.boot_stack
  /\ okPos' = {} /\ skipPos' = {} /\ fails' = 0
  /\ phase' = IF ffdc_only THEN "only" ELSE "stack"
  /\ ix' = 0
  /\ UNCHANGED <<exit_msg, stopped, caught, signals, waiting, callVars, state,
                 next_boot, boot_count, boot_success, boot_status, saved, kept,
                 cut>>

\* Mutant: the results file is not read.
Bug_LoadResults == results' = [pass |-> InitPass, fail |-> InitFail]

\* process_pgm_parms: results of an earlier call are read back from the file.
\* Without a file they are made anew, which the name boot_results allows only
\* while it still is the class and no object of an earlier call.
LoadResults ==
  \/ saved \notin {NoResults, Torn} /\ results' = saved
  \/ /\ saved = NoResults /\ results = NoResults
     /\ results' = [pass |-> InitPass, fail |-> InitFail]

\* pickle.load raises, or what it loads is no object of the class; or there is
\* no file and boot_results is no longer the class that could be called.
LoadFails ==
  /\ saved = Torn \/ (saved = NoResults /\ results # NoResults)
  /\ UNCHANGED results

setup ==
  /\ SetupBegins
  /\ LoadResults /\ path_set' = TRUE
  /\ BootList # {} \/ boot_stack' # << >> \/ ffdc_only
  /\ init_boot_fail' = results'.fail
  /\ cp_setup_called' = TRUE
  /\ pc' = IF ffdc_only THEN "ffdc"
           ELSE IF DeleteErrlogs THEN "first_purge" ELSE "loop"
  /\ UNCHANGED verdict

\* process_pgm_parms fails before it has the path of the results file or with
\* the file, or it is validate_parms or the setup plug-ins that fail.
SetupFails ==
  /\ SetupBegins
  /\ \/ UNCHANGED <<results, path_set>>
     \/ (LoadResults \/ LoadFails) /\ path_set' = TRUE
  /\ UNCHANGED <<init_boot_fail, cp_setup_called>>
  /\ Abort

-----------------------------------------------------------------------------
(* The two loops of the main function *)

StackLoop ==
  /\ pc = "loop" /\ phase = "stack"
  /\ pc' = IF boot_stack # << >> THEN "select" ELSE "post_stack"
  /\ UNCHANGED <<waiting, verdict, callVars, stackVars, loopVars, pickVars,
                 bootVars, resVars, sigVars>>

ListLoop ==
  /\ pc = "loop" /\ phase = "list"
  /\ \/ /\ BootList # {} /\ ix < MaxNumTests
        /\ ix' = ix + 1 /\ pc' = "select"
     \/ /\ BootList = {} \/ ix >= MaxNumTests
        /\ pc' = "verdict" /\ UNCHANGED ix
  /\ UNCHANGED <<phase, waiting, verdict, callVars, stackVars, pickVars,
                 bootVars, resVars, sigVars>>

Verdict ==
  /\ pc = "verdict"
  /\ pc' = "cleanup"
  /\ verdict' = IF results.fail - init_boot_fail > Threshold THEN "FAIL"
                                                            ELSE "PASS"
  /\ UNCHANGED <<waiting, callVars, stackVars, loopVars, pickVars, bootVars,
                 resVars, sigVars>>

-----------------------------------------------------------------------------
(* select_boot and the head of test_loop_body *)

\* The last boot was to make way for the top of the stack, and it failed.
TransitionFailed == transitional_boot_selected /\ ~boot_success

\* Mutant: the boot stays on the stack after its transition failed.
Bug_Remaining == boot_stack

\* The stack select_boot goes on with.
Remaining == IF TransitionFailed THEN Pop(boot_stack) ELSE boot_stack

AtSelect ==
  /\ pc = "select"
  /\ boot_count < MaxBoots
  /\ UNCHANGED <<waiting, callVars, loopVars, bootVars, resVars, sigVars>>

\* boot_stack.pop() on an empty list.
PopEmptyStack ==
  /\ AtSelect
  /\ TransitionFailed /\ boot_stack = << >>
  /\ Abort
  /\ UNCHANGED <<stackVars, pickVars>>

\* The boot removed after a failed transition was the last one.
GiveUpLastBoot ==
  /\ AtSelect
  /\ TransitionFailed /\ boot_stack # << >> /\ Remaining = << >>
  /\ boot_stack' = << >>
  /\ next_boot' = NoBoot
  /\ pc' = "loop"
  /\ UNCHANGED <<stack_mode, requested, skipPos, state,
                 transitional_boot_selected, boot_count, verdict>>

\* The part of select_boot after the state has been obtained.
StateObtained(s) ==
  /\ AtSelect
  /\ TransitionFailed => Remaining # << >>
  /\ my_get_state(s) /\ state' = s
  /\ UNCHANGED <<stack_mode, requested>>

SelectInvalidState ==
  \E s \in MachineStates :
    /\ StateObtained(s)
    /\ ~valid_state(s)
    /\ boot_stack' = Remaining
    /\ Abort
    /\ UNCHANGED <<transitional_boot_selected, next_boot, boot_count, skipPos>>

\* test_loop_body goes on with boot b.
Begin(b) ==
  /\ next_boot' = b
  /\ boot_count' = boot_count + 1
  /\ pc' = "begin"
  /\ UNCHANGED verdict

\* Mutant: the boots found unnecessary stay on the stack.
Bug_SelectNothing ==
  \E s \in MachineStates :
    /\ StateObtained(s) /\ valid_state(s)
    /\ Remaining # << >> /\ Popped(Remaining, s) = NoBoot
    /\ boot_stack' = Remaining
    /\ skipPos' = skipPos \cup Skipped(Remaining, s)
    /\ transitional_boot_selected' = FALSE
    /\ next_boot' = NoBoot
    /\ pc' = "loop"
    /\ UNCHANGED <<boot_count, verdict>>

\* Every boot left on the stack has become unnecessary.
SelectNothing ==
  \E s \in MachineStates :
    /\ StateObtained(s) /\ valid_state(s)
    /\ Remaining # << >> /\ Popped(Remaining, s) = NoBoot
    /\ boot_stack' = Rest(Remaining)
    /\ skipPos' = skipPos \cup Skipped(Remaining, s)
    /\ transitional_boot_selected' = FALSE
    /\ next_boot' = NoBoot
    /\ pc' = "loop"
    /\ UNCHANGED <<boot_count, verdict>>

SelectFromStack ==
  \E s \in MachineStates :
    /\ StateObtained(s) /\ valid_state(s)
    /\ Remaining # << >>
    /\ Popped(Remaining, s) # NoBoot
    /\ StartMatches(s, Popped(Remaining, s))
    /\ boot_stack' = Rest(Remaining)
    /\ skipPos' = skipPos \cup Skipped(Remaining, s)
    /\ transitional_boot_selected' = FALSE
    /\ Begin(Popped(Remaining, s))

\* The popped boot goes back and another one is to lead to its start state.
SelectTransition ==
  \E s \in MachineStates :
    /\ StateObtained(s) /\ valid_state(s)
    /\ Remaining # << >>
    /\ Popped(Remaining, s) # NoBoot
    /\ ~StartMatches(s, Popped(Remaining, s))
    /\ boot_stack' = Push(Rest(Remaining), Popped(Remaining, s))
    /\ skipPos' = skipPos \cup Skipped(Remaining, s)
    /\ transitional_boot_selected' = TRUE
    /\ \E b \in Candidates(s, Popped(Remaining, s)) : Begin(b)

SelectFromList ==
  \E s \in MachineStates :
    /\ StateObtained(s) /\ valid_state(s)
    /\ Remaining = << >>
    /\ UNCHANGED <<boot_stack, skipPos>>
    /\ transitional_boot_selected' = FALSE
    /\ \E b \in Candidates(s, NoBoot) : Begin(b)

select_boot == \/ PopEmptyStack \/ GiveUpLastBoot \/ SelectInvalidState
               \/ SelectNothing \/ SelectFromStack \/ SelectTransition
               \/ SelectFromList

\* The bound of the model: a robot time-out of the whole test.
TestTimeout ==
  /\ pc = "select" /\ boot_count >= MaxBoots
  /\ Abort
  /\ UNCHANGED <<waiting, callVars, stackVars, loopVars, pickVars, bootVars,
                 resVars, sigVars>>

-----------------------------------------------------------------------------
(* run_boot *)

\* A step of run_boot: it changes at most where the program is, the handler,
\* the boot status and, in test mode, the state.
InRunBoot(from) ==
  /\ pc = from
  /\ UNCHANGED <<verdict, callVars, stackVars, loopVars, boot_success, okPos,
                 fails, resVars, transitional_boot_selected, next_boot,
                 boot_count, stopped, caught, signals>>

\* Mutant: run_key's own status is taken for the boot's.
Bug_EndBoot(status) ==
  pc' = "boot_done" /\ boot_status' = IF status = "PASS" THEN "PASS" ELSE "ERROR"

EndBoot(status) == pc' = "boot_done" /\ boot_status' = status

ArmStop ==
  /\ InRunBoot("begin")
  /\ handler' = "stop"
  /\ pc' = "pre_boot"
  /\ UNCHANGED <<boot_status, exit_msg, state, waiting>>

\* A plug-in call point failed: the default handler is restored first.
PlugInFails ==
  /\ \E p \in {"pre_boot", "post_reboot", "post_boot"} : InRunBoot(p)
  /\ handler' = "default"
  /\ EndBoot("FAIL")
  /\ UNCHANGED <<exit_msg, state, waiting>>

PreBoot ==
  /\ InRunBoot("pre_boot")
  /\ IF TestMode
     THEN /\ state' = strip_anchor_state(BootTable[next_boot].end)
          /\ pc' = "post_boot"
     ELSE pc' = "method" /\ UNCHANGED state
  /\ UNCHANGED <<boot_status, handler, exit_msg, waiting>>

\* The boot keyword.  Its failure leaves the handler as it is.
Method ==
  /\ InRunBoot("method")
  /\ \/ EndBoot("FAIL")
     \/ /\ pc' = IF BootTable[next_boot].bmc_reboot THEN "uptime_wait"
                                                    ELSE "change_wait"
        /\ UNCHANGED boot_status
  /\ UNCHANGED <<handler, exit_msg, state, waiting>>

PostReboot ==
  /\ InRunBoot("post_reboot")
  /\ pc' = "end_wait"
  /\ UNCHANGED <<boot_status, handler, exit_msg, state, waiting>>

\* Mutant: the default handler is not restored.
Bug_PostBoot ==
  /\ InRunBoot("post_boot")
  /\ EndBoot("PASS")
  /\ UNCHANGED <<handler, exit_msg, state, waiting>>

PostBoot ==
  /\ InRunBoot("post_boot")
  /\ handler' = "default"
  /\ EndBoot("PASS")
  /\ UNCHANGED <<exit_msg, state, waiting>>

AtWait(where) ==
  /\ \E p \in WaitPcs : InRunBoot(p)
  /\ waiting = where
  /\ UNCHANGED <<handler, state>>

\* A check_state which ends the polling, as the awaited state was reported or
\* since exit_wait_early_message is set.  A check that fails changes nothing.
check_state ==
  /\ AtWait("poll")
  /\ waiting' = "leave"
  /\ UNCHANGED <<pc, boot_status, exit_msg>>

\* wait_until_keyword_succeeds gives up: the AssertionError is re-raised before
\* exit_wait_early_message is looked at.
WaitTimeout ==
  /\ AtWait("poll")
  /\ EndBoot("FAIL")
  /\ UNCHANGED <<exit_msg, waiting>>

\* Mutant: exit_wait_early_message is not looked at.
Bug_WaitLeave ==
  /\ AtWait("leave")
  /\ waiting' = "return" /\ UNCHANGED <<pc, boot_status, exit_msg>>

\* exit_wait_early_message is looked at, and cleared when it is set.
WaitLeave ==
  /\ AtWait("leave")
  /\ IF exit_msg # 0
     THEN exit_msg' = 0 /\ waiting' = "poll" /\ EndBoot("FAIL")
     ELSE waiting' = "return" /\ UNCHANGED <<pc, boot_status, exit_msg>>

WaitReturn ==
  /\ AtWait("return")
  /\ waiting' = "poll"
  /\ pc' = AfterWait[pc]
  /\ UNCHANGED <<boot_status, exit_msg>>

run_boot == \/ ArmStop \/ PlugInFails \/ PreBoot \/ Method \/ PostReboot
            \/ PostBoot \/ check_state \/ WaitTimeout \/ WaitLeave \/ WaitReturn

-----------------------------------------------------------------------------
(* The rest of test_loop_body, and post_stack *)

\* The position of requested next_boot was popped from.
Position == Len(boot_stack) + 1

RanFromStack ==
  /\ phase = "stack" /\ ~transitional_boot_selected
  /\ Position \in DOMAIN requested /\ requested[Position] = next_boot

\* The totals r with one more boot.
update(r, status) ==
  IF status = "PASS" THEN [pass |-> r.pass + 1, fail |-> r.fail]
                     ELSE [pass |-> r.pass, fail |-> r.fail + 1]

\* boot_success is set and boot_results updated.
BootDone ==
  /\ pc = "boot_done"
  /\ boot_success' = (boot_status = "PASS")
  /\ results' = update(results, boot_status)
  /\ fails' = IF boot_status = "PASS" THEN fails ELSE fails + 1
  /\ okPos' = IF boot_status = "PASS" /\ RanFromStack
              THEN okPos \cup {Position} ELSE okPos
  /\ pc' = "post_test_case"
  /\ UNCHANGED <<waiting, verdict, callVars, stackVars, loopVars, pickVars,
                 boot_status, fileVars, init_boot_fail, cp_setup_called, sigVars>>

\* A step after a boot or in post_stack which changes only the place.
After(from, to) ==
  /\ pc = from /\ pc' = to
  /\ UNCHANGED <<waiting, verdict, callVars, stackVars, loopVars, pickVars,
                 bootVars, resVars, sigVars>>

\* A post_test_case failure is not counted as a boot failure.
PostTestCase == After("post_test_case", "ffdc_check")

\* Where the boot's error logs are purged, unless this is post_stack.
AfterFfdc == IF phase # "post" /\ DeleteErrlogs THEN "purge" ELSE "stop_check"

FfdcCheck ==
  \/ After("ffdc_check", "ffdc")
  \/ (FfdcCheckAll => phase = "post") /\ After("ffdc_check", AfterFfdc)

\* my_ffdc reads the state again.  A failure is recorded as a soft error, but
\* with ffdc_only it is one of the whole call.
my_ffdc ==
  /\ pc = "ffdc"
  /\ \E s \in MachineStates : my_get_state(s) /\ state' = s
  /\ \/ phase # "only" /\ pc' = AfterFfdc /\ UNCHANGED verdict
     \/ phase = "only" /\ pc' = "cleanup" /\ verdict' \in {"PASS", "FAIL"}
  /\ UNCHANGED <<waiting, callVars, stackVars, loopVars, next_boot, boot_count,
                 transitional_boot_selected, bootVars, resVars, sigVars>>

\* Reading the error logs is not run with its errors ignored.
LogsUnread ==
  /\ pc \in {"purge", "first_purge"} /\ Abort
  /\ UNCHANGED <<waiting, callVars, stackVars, loopVars, pickVars, bootVars,
                 resVars, sigVars>>

\* The error logs are read and deleted before the first boot and after each.
Purge == \/ After("purge", "stop_check")
         \/ After("first_purge", "loop")
         \/ LogsUnread

\* The stop_check plug-ins may end the whole test.
StopCheck ==
  /\ pc = "stop_check"
  /\ \/ Abort /\ UNCHANGED phase
     \/ /\ pc' = "loop" /\ UNCHANGED verdict
        /\ phase' = IF phase = "post" THEN "list" ELSE phase
  /\ UNCHANGED <<ix, waiting, callVars, stackVars, pickVars, bootVars, resVars,
                 sigVars>>

\* The post_stack plug-ins; their failure shows in boot_success.
post_stack ==
  /\ pc = "post_stack"
  /\ IF CallPostStackPlug
     THEN /\ boot_success' \in BOOLEAN
          /\ phase' = "post" /\ pc' = "ffdc_check"
     ELSE /\ phase' = "list" /\ pc' = "loop"
          /\ UNCHANGED boot_success
  /\ UNCHANGED <<ix, waiting, verdict, callVars, stackVars, pickVars,
                 boot_status, okPos, fails, resVars, sigVars>>

test_loop_body == BootDone \/ PostTestCase \/ FfdcCheck \/ my_ffdc \/ Purge \/ StopCheck

-----------------------------------------------------------------------------
(* obmc_boot_test_teardown *)

Cleanup == After("cleanup", "save")

InTeardown(from) ==
  /\ pc = from
  /\ UNCHANGED <<waiting, verdict, lost, ffdc_only, calls, stackVars, loopVars,
                 pickVars, bootVars, results, path_set, init_boot_fail,
                 cp_setup_called, sigVars>>

\* The save is over, or there was none; the loop over the parameters begins.
ToRestore == pc' = "restore" /\ px' = 1 /\ loc' = NothingPassed

\* No process_pgm_parms has got as far as the path of the results file.
NoSave ==
  /\ InTeardown("save") /\ ~path_set
  /\ ToRestore
  /\ UNCHANGED <<glob, save_stack, hand, saved, kept, cut>>

\* open(boot_results_file_path, "wb") leaves an empty file.
OpenResults ==
  /\ InTeardown("save") /\ path_set
  /\ saved' = Torn /\ pc' = "dump"
  /\ UNCHANGED <<glob, save_stack, px, loc, hand, kept, cut>>

\* Mutant: the dump is not written out.
Bug_DumpResults ==
  /\ InTeardown("dump") /\ ToRestore
  /\ UNCHANGED <<glob, save_stack, hand, saved, kept, cut>>

\* pickle.dump.  In a process which never had results it is the class that is
\* written, and a file with the class serves no later call.
DumpResults ==
  /\ InTeardown("dump") /\ ToRestore
  /\ IF results = NoResults THEN UNCHANGED <<saved, kept, cut>>
     ELSE saved' = results /\ kept' = results /\ cut' = FALSE
  /\ UNCHANGED <<glob, save_stack, hand>>

\* save_stack.pop raises for a global that was not saved.
NotSaved ==
  /\ InTeardown("restore")
  /\ ParmLeft /\ save_stack[Parm] = << >>
  /\ px' = px + 1
  /\ UNCHANGED <<pc, glob, save_stack, loc, hand, saved, kept, cut>>

PopParm ==
  /\ InTeardown("restore")
  /\ ParmLeft /\ save_stack[Parm] # << >>
  /\ hand' = [hand EXCEPT ![Parm] = <<Top(save_stack[Parm])>>]
  /\ save_stack' = [save_stack EXCEPT ![Parm] = Pop(@)]
  /\ pc' = "give_back"
  /\ UNCHANGED <<glob, px, loc, saved, kept, cut>>

\* Mutant: the value that was popped is not used.
Bug_GiveBack ==
  /\ InTeardown("give_back")
  /\ hand' = NothingSaved /\ px' = px + 1 /\ pc' = "restore"
  /\ UNCHANGED <<glob, save_stack, loc, saved, kept, cut>>

GiveBack ==
  /\ InTeardown("give_back")
  /\ glob' = [glob EXCEPT ![Parm] = hand[Parm][1]]
  /\ hand' = NothingSaved
  /\ px' = px + 1 /\ pc' = "restore"
  /\ UNCHANGED <<save_stack, loc, saved, kept, cut>>

CallOver ==
  /\ InTeardown("restore")
  /\ ~ParmLeft
  /\ pc' = "idle" /\ px' = 1
  /\ UNCHANGED <<glob, save_stack, loc, hand, saved, kept, cut>>

obmc_boot_test_teardown == \/ Cleanup \/ NoSave \/ OpenResults \/ DumpResults
                           \/ NotSaved \/ PopParm \/ GiveBack \/ CallOver

-----------------------------------------------------------------------------
(* SIGUSR1 and processes *)

Signal == signals < MaxSignals /\ signals' = signals + 1

\* What a new process begins with: only the results file is left.
FreshProcess ==
  /\ pc' = "idle" /\ waiting' = "poll" /\ verdict' = "none"
  /\ phase' = "stack" /\ ix' = 0
  /\ glob' = InitGlob /\ save_stack' = NothingSaved /\ hand' = NothingSaved
  /\ px' = 1 /\ loc' = NothingPassed /\ lost' = {}
  /\ boot_stack' = << >> /\ stack_mode' = "normal" /\ ffdc_only' = FALSE
  /\ state' = DefaultState
  /\ transitional_boot_selected' = FALSE /\ next_boot' = NoBoot
  /\ boot_success' = FALSE /\ boot_status' = "FAIL" /\ boot_count' = 0
  /\ results' = NoResults /\ init_boot_fail' = 0 /\ cp_setup_called' = FALSE
  /\ handler' = "system" /\ exit_msg' = 0 /\ stopped' = 0 /\ caught' = 0
  /\ requested' = << >> /\ okPos' = {} /\ skipPos' = {} /\ fails' = 0
  /\ path_set' = FALSE /\ UNCHANGED <<saved, kept>>

\* The process is killed: by a SIGUSR1 while no handler is installed, which is
\* so before the first setup, or at any time by a signal nothing handles.
SignalKills ==
  /\ pc # "idle"
  /\ Signal /\ FreshProcess
  /\ cut' = (cut \/ pc = "dump")
  /\ UNCHANGED calls

\* default_sigusr1 does nothing.
default_sigusr1 ==
  /\ handler = "default" /\ pc # "idle"
  /\ Signal
  /\ UNCHANGED <<pc, waiting, verdict, callVars, stackVars, loopVars, pickVars,
                 bootVars, resVars, handler, exit_msg, stopped, caught>>

\* What stop_boot_test does wherever it runs.
Stopping ==
  /\ handler = "stop" /\ pc # "idle"
  /\ Signal
  /\ handler' = "default"
  /\ UNCHANGED <<waiting, glob, loc, ffdc_only, calls, stackVars, loopVars,
                 pickVars, results, saved, path_set, kept, init_boot_fail,
                 cp_setup_called, boot_success, okPos, fails>>

\* The stop leaves the globals, their saved values and the file alone.
StopOnly == UNCHANGED <<save_stack, px, hand, lost, cut>>

\* wait_state is on the function stack: the message is left for it.
StopInWait ==
  /\ Stopping /\ StopOnly
  /\ pc \in WaitPcs
  /\ exit_msg' = boot_count
  /\ stopped' = IF waiting = "return" THEN stopped ELSE boot_count
  /\ UNCHANGED <<pc, verdict, boot_status, caught>>

\* Elsewhere in run_boot the boot fails at once.
StopInBoot ==
  /\ Stopping /\ StopOnly
  /\ pc \in RunBootPcs \ WaitPcs
  /\ EndBoot("FAIL")
  /\ stopped' = boot_count
  /\ UNCHANGED <<verdict, exit_msg, caught>>

\* A boot keyword may catch the failure of what it was running (Run Keyword And
\* Ignore Error) and go on.
StopCaught ==
  /\ Stopping /\ StopOnly
  /\ pc = "method"
  /\ stopped' = boot_count /\ caught' = boot_count
  /\ UNCHANGED <<pc, verdict, exit_msg, boot_status>>

\* The handler was left armed.  Within my_ffdc, and within the deletion of
\* error logs, the failure is ignored.
StopInFfdc ==
  /\ Stopping /\ StopOnly
  /\ \/ pc = "ffdc" /\ phase # "only" /\ pc' = AfterFfdc
     \/ pc = "purge" /\ pc' = "stop_check"
  /\ UNCHANGED <<verdict, exit_msg, stopped, caught, boot_status>>

\* The globals that have lost a value p had saved last, with stack left.
Loses(p, left) == IF left = << >> THEN lost \cup {p} ELSE lost

\* "except BaseException: continue" around save_stack.pop takes the failure for
\* that of a global which was not saved, be it popped already or not.
StopInPop ==
  /\ Stopping
  /\ pc = "restore" /\ ParmLeft
  /\ px' = px + 1
  /\ \/ UNCHANGED <<save_stack, lost>>
     \/ /\ save_stack[Parm] # << >>
        /\ save_stack' = [save_stack EXCEPT ![Parm] = Pop(@)]
        /\ lost' = Loses(Parm, save_stack'[Parm])
  /\ UNCHANGED <<pc, hand, cut, verdict, exit_msg, stopped, caught, boot_status>>

\* The teardown keyword ends with the failure: what it had popped, or the file
\* it had opened, stays as it is.
StopInTeardown ==
  /\ Stopping
  /\ pc \in TeardownPcs /\ pc' = "idle" /\ verdict' = "FAIL"
  /\ hand' = NothingSaved /\ px' = 1
  /\ lost' = IF pc = "give_back" THEN Loses(Parm, save_stack[Parm]) ELSE lost
  /\ cut' = (cut \/ pc = "dump")
  /\ UNCHANGED <<save_stack, exit_msg, stopped, caught, boot_status>>

\* The handler was left armed, and nothing catches the failure before the
\* teardown.
StopEndsCall ==
  /\ Stopping /\ StopOnly
  /\ pc \in LoopPcs \cup ParmPcs \cup {"setup"}
  /\ pc = "ffdc" => phase = "only"
  /\ Abort
  /\ UNCHANGED <<exit_msg, stopped, caught, boot_status>>

stop_boot_test == \/ StopInWait \/ StopInBoot \/ StopCaught \/ StopInFfdc
                  \/ StopInPop \/ StopInTeardown \/ StopEndsCall

\* The caller's process ends and another one of the same master begins.
NewProcess ==
  /\ pc = "idle" /\ results # NoResults /\ calls < MaxCalls
  /\ FreshProcess
  /\ UNCHANGED <<cut, calls, signals>>

\* All calls have been made.
Finished == pc = "idle" /\ calls >= MaxCalls /\ UNCHANGED vars

-----------------------------------------------------------------------------
\* The caller passes a stack, a mode, both or none.
Call ==
  \E s \in BootStacks \cup {None}, m \in StackModes \cup {None} :
    obmc_boot_test_py(s, m)

\* What the program does by itself once it has been called.
Program ==
  \/ SkipParm \/ SaveParm \/ SetParm \/ ParmsDone
  \/ SetupLoginFails \/ setup \/ SetupFails
  \/ StackLoop \/ ListLoop \/ Verdict
  \/ select_boot \/ TestTimeout
  \/ run_boot \/ test_loop_body \/ post_stack
  \/ obmc_boot_test_teardown

Environment == Call \/ NewProcess \/ SignalKills \/ default_sigusr1 \/ stop_boot_test

Next == Program \/ Environment \/ Finished

Spec == Init /\ [][Next]_vars

\* The program keeps running; nobody has to call it or to send signals.
FairSpec == Spec /\ WF_vars(Program)

=============================================================================
