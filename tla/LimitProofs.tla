----------------------------- MODULE LimitProofs -----------------------------
(***************************************************************************)
(* Proofs about the two ways a call is given a time limit: the function    *)
(* timer and the alarm of shell commands, for every number of runs,        *)
(* signals and attempts; and about execute_ssh_command with its attempts,  *)
(* for any hosts, any number of calls and any max_login_attempts.          *)
(***************************************************************************)
EXTENDS FuncTimer, ShellCmd, SshCommand, SequenceTheorems, TLAPS

(***************************************************************************)
(* The function timer                                                      *)
(***************************************************************************)

\* The types of the flags, and of the rest: SMT reasons about the one or the other.
FlagType == limited \in BOOLEAN /\ cleans_again \in BOOLEAN
DataType ==
  /\ timer_pc \in TimerPcs /\ timed_run \in 0..MaxRuns /\ child_pid \in 0..MaxRuns
  /\ usr1_handler \in {"original", "timed_out"}
  /\ original_SIGUSR1_handler \in {"original", "timed_out"}
  /\ timers \in [Timers -> {"none", "sleeping", "dead", "reaped"}]
  /\ pending_usr1 \subseteq Timers \cup {Outsider}
  /\ run_outcome \in {"none", "result", "exception", "timeout"}
  /\ expired \subseteq Timers /\ strays \subseteq Timers
  /\ outside \in 0..MaxOutside /\ upsets \subseteq {"pid_unknown", "cut_short"}

\* A run has a number and a limit while its timer is set up, and timed_out is
\* installed before the timer is there.
SetUpInv ==
  /\ timer_pc \in {"save", "install", "fork", "store"} => limited /\ timed_run # 0
  /\ timer_pc \in {"fork", "store"} => usr1_handler = "timed_out"

\* timed_out is installed only while a timer is set up or known.
HandlerInv ==
  "pid_unknown" \notin upsets =>
    /\ original_SIGUSR1_handler = "original"
    /\ usr1_handler = "timed_out" =>
         \/ timer_pc \in {"fork", "store"}
         \/ timer_pc \in {"call", "cleanup", "restore"} /\ child_pid # 0 /\ limited

\* The pid known is that of the run's timer, which has not been waited for
\* until the end of cleanup; before its handler is restored timed_out is
\* installed.
KnownInv ==
  upsets = {} /\ child_pid # 0 =>
    /\ child_pid = timed_run /\ limited
    /\ timer_pc \in {"call", "cleanup", "restore", "kill", "wait", "forget"}
    /\ timer_pc # "forget" => timers[child_pid] \in {"sleeping", "dead"}
    /\ timer_pc \in {"call", "cleanup", "restore"} => usr1_handler = "timed_out"

\* A process that is there, alive or as a zombie, is the timer of this run, and
\* known but for the moment between fork and the storing of its pid.
LeftInv ==
  upsets = {} =>
    /\ \A t \in Timers : timers[t] \in {"sleeping", "dead"} =>
         t = timed_run /\ (timer_pc = "store" \/ child_pid = t)
    /\ timer_pc = "store" => timers[timed_run] \in {"sleeping", "dead"}
    /\ timer_pc \in {"restore", "kill", "wait", "forget"} => child_pid # 0
    /\ timer_pc = "forget" => timers[child_pid] = "reaped"

TimerInv == FlagType /\ DataType /\ SetUpInv /\ HandlerInv /\ KnownInv /\ LeftInv

\* At the beginning there is no run, no timer and no upset.
LEMMA TimerInvInit == TimerInit => TimerInv
<1> SUFFICES ASSUME TimerInit PROVE TimerInv
  OBVIOUS
<1> USE TimerAssumption DEF TimerInit, Timers
<1>1. FlagType
  BY DEF FlagType
<1>2. DataType
  BY DEF DataType, TimerPcs, CleanupPcs, Outsider
<1>3. SetUpInv
  BY DEF SetUpInv
<1>4. HandlerInv
  BY DEF HandlerInv
<1>5. KnownInv
  BY DEF KnownInv
<1>6. LeftInv
  BY DEF LeftInv
<1> QED
  BY <1>1, <1>2, <1>3, <1>4, <1>5, <1>6 DEF TimerInv

\* Every step keeps the invariant: the steps of run and cleanup, the expiry of
\* timers, and the handlers, which may interrupt any of them.
LEMMA TimerInvStep == TimerInv /\ [TimerNext]_timerVars => TimerInv'
<1> SUFFICES ASSUME TimerInv, [TimerNext]_timerVars
             PROVE  TimerInv'
  OBVIOUS
<1> USE TimerAssumption DEF TimerInv, TimerAt, timerObjVars, timedRunVars, signalVars, timerOsVars,
      TimerPcs, CleanupPcs, Timers, Outsider
<1>0. /\ MaxRuns \in Nat /\ timed_run \in 0..MaxRuns
      /\ MaxOutside \in Nat /\ outside \in 0..MaxOutside
  BY DEF DataType
<1>1. ASSUME NEW limit \in BOOLEAN, RunTimed(limit) PROVE TimerInv'
  <2>1. FlagType'
    BY <1>1 DEF RunTimed, FlagType
  <2>2. DataType'
    <3>1. timed_run < MaxRuns /\ timed_run' = timed_run + 1 /\ child_pid' = 0
      BY <1>1 DEF RunTimed
    <3>2. timed_run' \in 0..MaxRuns /\ child_pid' \in 0..MaxRuns
      BY <1>0, <3>1
    <3> QED
      BY <1>1, <3>2 DEF RunTimed, DataType
  <2>3. SetUpInv'
    <3>1. timed_run' = timed_run + 1
      BY <1>1 DEF RunTimed
    <3>2. timed_run' # 0
      BY <1>0, <3>1
    <3>3. timer_pc' = "save" => limited'
      BY <1>1 DEF RunTimed
    <3> QED
      BY <1>1, <3>2, <3>3 DEF RunTimed, SetUpInv
  <2>4. HandlerInv'
    BY <1>1 DEF RunTimed, HandlerInv, KnownInv, SetUpInv, LeftInv, DataType
  <2>5. KnownInv'
    BY <1>1 DEF RunTimed, KnownInv, SetUpInv, LeftInv, HandlerInv, DataType
  <2>6. LeftInv'
    BY <1>1 DEF RunTimed, LeftInv, KnownInv, SetUpInv, DataType
  <2> QED
    BY <2>1, <2>2, <2>3, <2>4, <2>5, <2>6
<1>2. CASE RunRefused
  <2>1. FlagType'
    BY <1>2 DEF RunRefused, FlagType
  <2>2. DataType'
    <3>1. timed_run < MaxRuns /\ timed_run' = timed_run + 1
      BY <1>2 DEF RunRefused
    <3>2. timed_run' \in 0..MaxRuns
      BY <1>0, <3>1
    <3> QED
      BY <1>2, <3>2 DEF RunRefused, DataType
  <2>3. SetUpInv'
    BY <1>2 DEF RunRefused, SetUpInv, DataType
  <2>4. HandlerInv'
    BY <1>2 DEF RunRefused, HandlerInv, KnownInv, SetUpInv, LeftInv, DataType
  <2>5. KnownInv'
    BY <1>2 DEF RunRefused, KnownInv, SetUpInv, LeftInv, HandlerInv, DataType
  <2>6. LeftInv'
    BY <1>2 DEF RunRefused, LeftInv, KnownInv, SetUpInv, DataType
  <2> QED
    BY <2>1, <2>2, <2>3, <2>4, <2>5, <2>6
<1>3. CASE SaveHandler
  <2>1. FlagType'
    BY <1>3 DEF SaveHandler, FlagType
  <2>2. DataType'
    BY <1>3 DEF SaveHandler, DataType
  <2>3. SetUpInv'
    BY <1>3 DEF SaveHandler, SetUpInv, DataType
  <2>4. HandlerInv'
    BY <1>3 DEF SaveHandler, HandlerInv, KnownInv, SetUpInv, LeftInv, DataType
  <2>5. KnownInv'
    BY <1>3 DEF SaveHandler, KnownInv, SetUpInv, LeftInv, HandlerInv, DataType
  <2>6. LeftInv'
    BY <1>3 DEF SaveHandler, LeftInv, KnownInv, SetUpInv, DataType
  <2> QED
    BY <2>1, <2>2, <2>3, <2>4, <2>5, <2>6
<1>4. CASE InstallHandler
  <2>1. FlagType'
    BY <1>4 DEF InstallHandler, FlagType
  <2>2. DataType'
    BY <1>4 DEF InstallHandler, DataType
  <2>3. SetUpInv'
    BY <1>4 DEF InstallHandler, SetUpInv, DataType
  <2>4. HandlerInv'
    BY <1>4 DEF InstallHandler, HandlerInv, KnownInv, SetUpInv, LeftInv, DataType
  <2>5. KnownInv'
    BY <1>4 DEF InstallHandler, KnownInv, SetUpInv, LeftInv, HandlerInv, DataType
  <2>6. LeftInv'
    BY <1>4 DEF InstallHandler, LeftInv, KnownInv, SetUpInv, DataType
  <2> QED
    BY <2>1, <2>2, <2>3, <2>4, <2>5, <2>6
<1>5. CASE ForkTimer
  <2>1. FlagType'
    BY <1>5 DEF ForkTimer, FlagType
  <2>2. DataType'
    BY <1>5 DEF ForkTimer, DataType
  <2>3. SetUpInv'
    BY <1>5 DEF ForkTimer, SetUpInv, DataType
  <2>4. HandlerInv'
    BY <1>5 DEF ForkTimer, HandlerInv, KnownInv, SetUpInv, LeftInv, DataType
  <2>5. KnownInv'
    BY <1>5 DEF ForkTimer, KnownInv, SetUpInv, LeftInv, HandlerInv, DataType
  <2>6. LeftInv'
    BY <1>5 DEF ForkTimer, LeftInv, KnownInv, SetUpInv, DataType
  <2> QED
    BY <2>1, <2>2, <2>3, <2>4, <2>5, <2>6
<1>6. CASE Store
  <2>1. FlagType'
    BY <1>6 DEF Store, FlagType
  <2>2. DataType'
    BY <1>6 DEF Store, DataType
  <2>3. SetUpInv'
    BY <1>6 DEF Store, SetUpInv, DataType
  <2>4. HandlerInv'
    BY <1>6 DEF Store, HandlerInv, KnownInv, SetUpInv, LeftInv, DataType
  <2>5. KnownInv'
    BY <1>6 DEF Store, KnownInv, SetUpInv, LeftInv, HandlerInv, DataType
  <2>6. LeftInv'
    BY <1>6 DEF Store, LeftInv, KnownInv, SetUpInv, DataType
  <2> QED
    BY <2>1, <2>2, <2>3, <2>4, <2>5, <2>6
<1>7. CASE CallFunction
  <2>1. FlagType'
    BY <1>7 DEF CallFunction, FlagType
  <2>2. DataType'
    BY <1>7 DEF CallFunction, DataType
  <2>3. SetUpInv'
    BY <1>7 DEF CallFunction, SetUpInv, DataType
  <2>4. HandlerInv'
    BY <1>7 DEF CallFunction, HandlerInv, KnownInv, SetUpInv, LeftInv, DataType
  <2>5. KnownInv'
    BY <1>7 DEF CallFunction, KnownInv, SetUpInv, LeftInv, HandlerInv, DataType
  <2>6. LeftInv'
    BY <1>7 DEF CallFunction, LeftInv, KnownInv, SetUpInv, DataType
  <2> QED
    BY <2>1, <2>2, <2>3, <2>4, <2>5, <2>6
<1>8. CASE CleanupSkipped
  <2>1. FlagType'
    BY <1>8 DEF CleanupSkipped, Leave, FlagType
  <2>2. DataType'
    BY <1>8 DEF CleanupSkipped, Leave, DataType
  <2>3. SetUpInv'
    BY <1>8 DEF CleanupSkipped, Leave, SetUpInv, DataType
  <2>4. HandlerInv'
    BY <1>8 DEF CleanupSkipped, Leave, HandlerInv, KnownInv, SetUpInv, LeftInv, DataType
  <2>5. KnownInv'
    BY <1>8 DEF CleanupSkipped, Leave, KnownInv, SetUpInv, LeftInv, HandlerInv, DataType
  <2>6. LeftInv'
    BY <1>8 DEF CleanupSkipped, Leave, LeftInv, KnownInv, SetUpInv, DataType
  <2> QED
    BY <2>1, <2>2, <2>3, <2>4, <2>5, <2>6
<1>9. CASE CleanupBegins
  <2>1. FlagType'
    BY <1>9 DEF CleanupBegins, FlagType
  <2>2. DataType'
    BY <1>9 DEF CleanupBegins, DataType
  <2>3. SetUpInv'
    BY <1>9 DEF CleanupBegins, SetUpInv, DataType
  <2>4. HandlerInv'
    BY <1>9 DEF CleanupBegins, HandlerInv, KnownInv, SetUpInv, LeftInv, DataType
  <2>5. KnownInv'
    BY <1>9 DEF CleanupBegins, KnownInv, SetUpInv, LeftInv, HandlerInv, DataType
  <2>6. LeftInv'
    BY <1>9 DEF CleanupBegins, LeftInv, KnownInv, SetUpInv, DataType
  <2> QED
    BY <2>1, <2>2, <2>3, <2>4, <2>5, <2>6
<1>10. CASE RestoreHandler
  <2>1. FlagType'
    BY <1>10 DEF RestoreHandler, FlagType
  <2>2. DataType'
    BY <1>10 DEF RestoreHandler, DataType
  <2>3. SetUpInv'
    BY <1>10 DEF RestoreHandler, SetUpInv, DataType
  <2>4. HandlerInv'
    BY <1>10 DEF RestoreHandler, HandlerInv, KnownInv, SetUpInv, LeftInv, DataType
  <2>5. KnownInv'
    BY <1>10 DEF RestoreHandler, KnownInv, SetUpInv, LeftInv, HandlerInv, DataType
  <2>6. LeftInv'
    BY <1>10 DEF RestoreHandler, LeftInv, KnownInv, SetUpInv, DataType
  <2> QED
    BY <2>1, <2>2, <2>3, <2>4, <2>5, <2>6
<1>11. CASE Kill
  <2>1. FlagType'
    BY <1>11 DEF Kill, FlagType
  <2>2. DataType'
    BY <1>11 DEF Kill, DataType
  <2>3. SetUpInv'
    BY <1>11 DEF Kill, SetUpInv, DataType
  <2>4. HandlerInv'
    BY <1>11 DEF Kill, HandlerInv, KnownInv, SetUpInv, LeftInv, DataType
  <2>5. KnownInv'
    BY <1>11 DEF Kill, KnownInv, SetUpInv, LeftInv, HandlerInv, DataType
  <2>6. LeftInv'
    BY <1>11 DEF Kill, LeftInv, KnownInv, SetUpInv, DataType
  <2> QED
    BY <2>1, <2>2, <2>3, <2>4, <2>5, <2>6
<1>12. CASE WaitForTimer
  <2>1. FlagType'
    BY <1>12 DEF WaitForTimer, FlagType
  <2>2. DataType'
    BY <1>12 DEF WaitForTimer, DataType
  <2>3. SetUpInv'
    BY <1>12 DEF WaitForTimer, SetUpInv, DataType
  <2>4. HandlerInv'
    BY <1>12 DEF WaitForTimer, HandlerInv, KnownInv, SetUpInv, LeftInv, DataType
  <2>5. KnownInv'
    BY <1>12 DEF WaitForTimer, KnownInv, SetUpInv, LeftInv, HandlerInv, DataType
  <2>6. LeftInv'
    BY <1>12 DEF WaitForTimer, LeftInv, KnownInv, SetUpInv, DataType
  <2> QED
    BY <2>1, <2>2, <2>3, <2>4, <2>5, <2>6
<1>13. CASE Forget
  <2>1. FlagType'
    BY <1>13 DEF Forget, Leave, FlagType
  <2>2. DataType'
    <3>1. child_pid' = 0
      BY <1>13 DEF Forget, Leave
    <3>2. child_pid' \in 0..MaxRuns
      BY <1>0, <3>1
    <3> QED
      BY <1>13, <3>2 DEF Forget, Leave, DataType
  <2>3. SetUpInv'
    BY <1>13 DEF Forget, Leave, SetUpInv, DataType
  <2>4. HandlerInv'
    BY <1>13 DEF Forget, Leave, HandlerInv, KnownInv, SetUpInv, LeftInv, DataType
  <2>5. KnownInv'
    BY <1>13 DEF Forget, Leave, KnownInv, SetUpInv, LeftInv, HandlerInv, DataType
  <2>6. LeftInv'
    BY <1>13 DEF Forget, Leave, LeftInv, KnownInv, SetUpInv, DataType
  <2> QED
    BY <2>1, <2>2, <2>3, <2>4, <2>5, <2>6
<1>14. CASE Delete
  <2>1. FlagType'
    BY <1>14 DEF Delete, FlagType
  <2>2. DataType'
    BY <1>14 DEF Delete, DataType
  <2>3. SetUpInv'
    BY <1>14 DEF Delete, SetUpInv, DataType
  <2>4. HandlerInv'
    BY <1>14 DEF Delete, HandlerInv, KnownInv, SetUpInv, LeftInv, DataType
  <2>5. KnownInv'
    BY <1>14 DEF Delete, KnownInv, SetUpInv, LeftInv, HandlerInv, DataType
  <2>6. LeftInv'
    BY <1>14 DEF Delete, LeftInv, KnownInv, SetUpInv, DataType
  <2> QED
    BY <2>1, <2>2, <2>3, <2>4, <2>5, <2>6
<1>15. ASSUME NEW t \in Timers, Expire(t) PROVE TimerInv'
  <2>1. FlagType'
    BY <1>15 DEF Expire, FlagType
  <2>2. DataType'
    BY <1>15 DEF Expire, DataType
  <2>3. SetUpInv'
    BY <1>15 DEF Expire, SetUpInv, DataType
  <2>4. HandlerInv'
    BY <1>15 DEF Expire, HandlerInv, KnownInv, SetUpInv, LeftInv, DataType
  <2>5. KnownInv'
    BY <1>15 DEF Expire, KnownInv, SetUpInv, LeftInv, HandlerInv, DataType
  <2>6. LeftInv'
    BY <1>15 DEF Expire, LeftInv, KnownInv, SetUpInv, DataType
  <2> QED
    BY <2>1, <2>2, <2>3, <2>4, <2>5, <2>6
<1>16. CASE SignalFromOutside
  <2>1. FlagType'
    BY <1>16 DEF SignalFromOutside, FlagType
  <2>2. DataType'
    <3>1. outside < MaxOutside /\ outside' = outside + 1
      BY <1>16 DEF SignalFromOutside
    <3>2. outside' \in 0..MaxOutside
      BY <1>0, <3>1
    <3> QED
      BY <1>16, <3>2 DEF SignalFromOutside, DataType
  <2>3. SetUpInv'
    BY <1>16 DEF SignalFromOutside, SetUpInv, DataType
  <2>4. HandlerInv'
    BY <1>16 DEF SignalFromOutside, HandlerInv, KnownInv, SetUpInv, LeftInv, DataType
  <2>5. KnownInv'
    BY <1>16 DEF SignalFromOutside, KnownInv, SetUpInv, LeftInv, HandlerInv, DataType
  <2>6. LeftInv'
    BY <1>16 DEF SignalFromOutside, LeftInv, KnownInv, SetUpInv, DataType
  <2> QED
    BY <2>1, <2>2, <2>3, <2>4, <2>5, <2>6
<1>17. CASE timed_out
  <2>1. FlagType'
    BY <1>17 DEF timed_out, FlagType
  <2>2. DataType'
    BY <1>17 DEF timed_out, DataType
  <2>3. SetUpInv'
    BY <1>17 DEF timed_out, SetUpInv, DataType
  <2>4. HandlerInv'
    BY <1>17 DEF timed_out, HandlerInv, KnownInv, SetUpInv, LeftInv, DataType
  <2>5. KnownInv'
    BY <1>17 DEF timed_out, KnownInv, SetUpInv, LeftInv, HandlerInv, DataType
  <2>6. LeftInv'
    BY <1>17 DEF timed_out, LeftInv, KnownInv, SetUpInv, DataType
  <2> QED
    BY <2>1, <2>2, <2>3, <2>4, <2>5, <2>6
<1>18. CASE UserHandler
  <2>1. FlagType'
    BY <1>18 DEF UserHandler, ToUser, FlagType
  <2>2. DataType'
    BY <1>18 DEF UserHandler, ToUser, DataType
  <2>3. SetUpInv'
    BY <1>18 DEF UserHandler, ToUser, SetUpInv, DataType
  <2>4. HandlerInv'
    BY <1>18 DEF UserHandler, ToUser, HandlerInv, KnownInv, SetUpInv, LeftInv, DataType
  <2>5. KnownInv'
    BY <1>18 DEF UserHandler, ToUser, KnownInv, SetUpInv, LeftInv, HandlerInv, DataType
  <2>6. LeftInv'
    BY <1>18 DEF UserHandler, ToUser, LeftInv, KnownInv, SetUpInv, DataType
  <2> QED
    BY <2>1, <2>2, <2>3, <2>4, <2>5, <2>6
<1>19. CASE UserHandlerRaises
  <2>1. FlagType'
    BY <1>19 DEF UserHandlerRaises, ToUser, Leave, FlagType
  <2>2. DataType'
    BY <1>19 DEF UserHandlerRaises, ToUser, Leave, DataType
  <2>3. SetUpInv'
    BY <1>19 DEF UserHandlerRaises, ToUser, Leave, SetUpInv, DataType
  <2>4. HandlerInv'
    BY <1>19 DEF UserHandlerRaises, ToUser, Leave, HandlerInv, KnownInv, SetUpInv, LeftInv, DataType
  <2>5. KnownInv'
    BY <1>19 DEF UserHandlerRaises, ToUser, Leave, KnownInv, SetUpInv, LeftInv, HandlerInv, DataType
  <2>6. LeftInv'
    BY <1>19 DEF UserHandlerRaises, ToUser, Leave, LeftInv, KnownInv, SetUpInv, DataType
  <2> QED
    BY <2>1, <2>2, <2>3, <2>4, <2>5, <2>6
<1>20. CASE UNCHANGED timerVars
  <2>1. FlagType'
    BY <1>20 DEF timerVars, FlagType
  <2>2. DataType'
    BY <1>20 DEF timerVars, DataType
  <2>3. SetUpInv'
    BY <1>20 DEF timerVars, SetUpInv, DataType
  <2>4. HandlerInv'
    BY <1>20 DEF timerVars, HandlerInv, KnownInv, SetUpInv, LeftInv, DataType
  <2>5. KnownInv'
    BY <1>20 DEF timerVars, KnownInv, SetUpInv, LeftInv, HandlerInv, DataType
  <2>6. LeftInv'
    BY <1>20 DEF timerVars, LeftInv, KnownInv, SetUpInv, DataType
  <2> QED
    BY <2>1, <2>2, <2>3, <2>4, <2>5, <2>6
<1> QED
  BY <1>1, <1>2, <1>3, <1>4, <1>5, <1>6, <1>7, <1>8, <1>9, <1>10, <1>11, <1>12, <1>13, <1>14,
     <1>15, <1>16, <1>17, <1>18, <1>19, <1>20 DEF TimerNext, cleanup

\* A run of func_timer_class leaves the handler of SIGUSR1 and the processes as
\* it found them, and kills no process but its own timer, however many runs
\* follow one another and whenever timers expire and others send signals.
THEOREM TimerIsHandled == TimerSpec => []TimerHandled
<1>1. TimerInv => TimerTypeOK
  BY DEF TimerInv, FlagType, DataType, TimerTypeOK
<1>2. TimerInv => HandlerRestored
  BY DEF TimerInv, HandlerInv, HandlerRestored, DataType
<1>3. TimerInv => NoTimerLeft
  BY TimerAssumption DEF TimerInv, DataType, LeftInv, KnownInv, NoTimerLeft, Timers
<1>4. TimerInv => KillsOwnTimer
  BY DEF TimerInv, LeftInv, KnownInv, KillsOwnTimer
<1> QED
  BY TimerInvInit, TimerInvStep, <1>1, <1>2, <1>3, <1>4, PTL DEF TimerSpec, TimerHandled

(***************************************************************************)
(* shell_cmd with a time limit and retries                                 *)
(***************************************************************************)

ShellPcs ==
  {"idle", "call", "install", "communicate", "forked", "restore", "clear", "judge", "end",
   "retry", "done"}

\* After communicate, until the attempt is judged.
Judging == {"restore", "clear", "judge", "end"}

\* The types of the flags, and of the other variables.
ShellFlags == cmd_limit \in BOOLEAN /\ command_timed_out \in BOOLEAN /\ alarm \in BOOLEAN
ShellType ==
  /\ shell_pc \in ShellPcs
  /\ max_attempts \in Attempts /\ attempt_num \in 0..MaxAttempts
  /\ command \in [Attempts -> {"none", "running", "valid", "invalid"}]

\* Where the loop over the attempts is.
AttemptInv ==
  /\ attempt_num <= max_attempts
  /\ shell_pc \in {"idle", "call"} => attempt_num = 0
  /\ shell_pc \in Judging \cup {"install", "communicate", "forked", "retry"} => attempt_num # 0
  /\ shell_pc = "retry" => attempt_num < max_attempts

\* A valid return code is that of the command of this attempt.
RcInv ==
  (shell_pc \in Judging \/ ShellReturned) /\ shell_rc = "valid" /\ attempt_num # 0
    => command[attempt_num] = "valid"

\* The alarm and its handler are there only around communicate.
AlarmInv ==
  /\ shell_pc \notin {"communicate", "restore", "clear", "done"} \/ ShellReturned
       => alarm = FALSE /\ alrm_handler = "original"
  /\ shell_pc = "clear" => alrm_handler = "original"

\* The time-out that is remembered is that of this attempt.
TimeOutInv ==
  shell_pc \in Judging \cup {"communicate"} /\ command_timed_out = TRUE => fired = attempt_num

\* Without a time limit there is no alarm.
LimitInv ==
  /\ shell_pc = "idle" => command_timed_out = FALSE
  /\ shell_pc = "install" => cmd_limit = TRUE
  /\ cmd_limit = FALSE => alarm = FALSE /\ alrm_handler = "original" /\ command_timed_out = FALSE

\* Without a time limit an attempt is left only when its command has ended.
TurnInv ==
  cmd_limit = FALSE =>
    /\ \A a \in Attempts : a < attempt_num => command[a] \in CommandEnd
    /\ shell_pc \in Judging \cup {"retry"} => command[attempt_num] \in CommandEnd

ShellInv ==
  ShellFlags /\ ShellType /\ AttemptInv /\ RcInv /\ AlarmInv /\ TimeOutInv /\ LimitInv /\ TurnInv

\* Before the call there is no attempt and no alarm.
LEMMA ShellInvInit == ShellInit => ShellInv
<1> SUFFICES ASSUME ShellInit PROVE ShellInv
  OBVIOUS
<1> USE ShellAssumption DEF ShellInit, Attempts
<1>1. ShellType
  BY DEF ShellType, ShellPcs
<1>2. AttemptInv
  BY DEF AttemptInv, Judging
<1>3. RcInv /\ AlarmInv /\ TimeOutInv /\ LimitInv
  BY DEF RcInv, AlarmInv, TimeOutInv, LimitInv, Judging, ShellReturned
<1>4. TurnInv
  BY DEF TurnInv, Judging
<1>5. ShellFlags
  BY DEF ShellFlags
<1> QED
  BY <1>1, <1>2, <1>3, <1>4, <1>5 DEF ShellInv

\* Every step of the loop, the alarm at any moment and the end of any command
\* keep the invariant.
LEMMA ShellInvStep == ShellInv /\ [ShellNext]_shellVars => ShellInv'
<1> SUFFICES ASSUME ShellInv, [ShellNext]_shellVars
             PROVE  ShellInv'
  OBVIOUS
<1> USE ShellAssumption DEF ShellInv, shellParms, alarmVars, Attempts, CommandEnd, ShellPcs, Judging,
      ShellReturned
<1>1. CASE CallShell
  <2>1. ShellFlags'
    BY <1>1 DEF CallShell, ShellFlags
  <2>2. ShellType'
    BY <1>1 DEF CallShell, ShellType, AttemptInv
  <2>3. AttemptInv'
    BY <1>1 DEF CallShell, AttemptInv, ShellType
  <2>4. RcInv'
    BY <1>1 DEF CallShell, RcInv, AttemptInv, ShellType
  <2>5. AlarmInv'
    BY <1>1 DEF CallShell, AlarmInv, LimitInv
  <2>6. TimeOutInv'
    BY <1>1 DEF CallShell, TimeOutInv, LimitInv, ShellType
  <2>7. LimitInv'
    BY <1>1 DEF CallShell, LimitInv, AlarmInv
  <2>8. TurnInv'
    BY <1>1 DEF CallShell, TurnInv, AttemptInv, ShellType, LimitInv
  <2> QED
    BY <2>1, <2>2, <2>3, <2>4, <2>5, <2>6, <2>7, <2>8
<1>2. CASE TestMode
  <2>1. ShellFlags'
    BY <1>2 DEF TestMode, ShellFlags
  <2>2. ShellType'
    BY <1>2 DEF TestMode, ShellType, AttemptInv
  <2>3. AttemptInv'
    BY <1>2 DEF TestMode, AttemptInv, ShellType
  <2>4. RcInv'
    BY <1>2 DEF TestMode, RcInv, AttemptInv, ShellType
  <2>5. AlarmInv'
    BY <1>2 DEF TestMode, AlarmInv, LimitInv
  <2>6. TimeOutInv'
    BY <1>2 DEF TestMode, TimeOutInv, LimitInv, ShellType
  <2>7. LimitInv'
    BY <1>2 DEF TestMode, LimitInv, AlarmInv
  <2>8. TurnInv'
    BY <1>2 DEF TestMode, TurnInv, AttemptInv, ShellType, LimitInv
  <2> QED
    BY <2>1, <2>2, <2>3, <2>4, <2>5, <2>6, <2>7, <2>8
<1>3. CASE StartCommand
  <2>1. ShellFlags'
    BY <1>3 DEF StartCommand, ShellFlags
  <2>2. ShellType'
    BY <1>3 DEF StartCommand, ShellType, AttemptInv
  <2>3. AttemptInv'
    BY <1>3 DEF StartCommand, AttemptInv, ShellType
  <2>4. RcInv'
    BY <1>3 DEF StartCommand, RcInv, AttemptInv, ShellType
  <2>5. AlarmInv'
    BY <1>3 DEF StartCommand, AlarmInv, LimitInv
  <2>6. TimeOutInv'
    BY <1>3 DEF StartCommand, TimeOutInv, LimitInv, ShellType
  <2>7. LimitInv'
    BY <1>3 DEF StartCommand, LimitInv, AlarmInv
  <2>8. TurnInv'
    BY <1>3 DEF StartCommand, TurnInv, AttemptInv, ShellType, LimitInv
  <2> QED
    BY <2>1, <2>2, <2>3, <2>4, <2>5, <2>6, <2>7, <2>8
<1>4. CASE SetAlarm
  <2>1. ShellFlags'
    BY <1>4 DEF SetAlarm, ShellFlags
  <2>2. ShellType'
    BY <1>4 DEF SetAlarm, ShellType, AttemptInv
  <2>3. AttemptInv'
    BY <1>4 DEF SetAlarm, AttemptInv, ShellType
  <2>4. RcInv'
    BY <1>4 DEF SetAlarm, RcInv, AttemptInv, ShellType
  <2>5. AlarmInv'
    BY <1>4 DEF SetAlarm, AlarmInv, LimitInv
  <2>6. TimeOutInv'
    BY <1>4 DEF SetAlarm, TimeOutInv, LimitInv, ShellType
  <2>7. LimitInv'
    BY <1>4 DEF SetAlarm, LimitInv, AlarmInv
  <2>8. TurnInv'
    BY <1>4 DEF SetAlarm, TurnInv, AttemptInv, ShellType, LimitInv
  <2> QED
    BY <2>1, <2>2, <2>3, <2>4, <2>5, <2>6, <2>7, <2>8
<1>5. CASE Communicated
  <2>1. ShellFlags'
    BY <1>5 DEF Communicated, ShellFlags
  <2>2. ShellType'
    BY <1>5 DEF Communicated, ShellType, AttemptInv
  <2>3. AttemptInv'
    BY <1>5 DEF Communicated, AttemptInv, ShellType
  <2>4. RcInv'
    BY <1>5 DEF Communicated, RcInv, AttemptInv, ShellType
  <2>5. AlarmInv'
    BY <1>5 DEF Communicated, AlarmInv, LimitInv
  <2>6. TimeOutInv'
    BY <1>5 DEF Communicated, TimeOutInv, LimitInv, ShellType
  <2>7. LimitInv'
    BY <1>5 DEF Communicated, LimitInv, AlarmInv
  <2>8. TurnInv'
    BY <1>5 DEF Communicated, TurnInv, AttemptInv, ShellType, LimitInv
  <2> QED
    BY <2>1, <2>2, <2>3, <2>4, <2>5, <2>6, <2>7, <2>8
<1>6. CASE RestoreAlrm
  <2>1. ShellFlags'
    BY <1>6 DEF RestoreAlrm, ShellFlags
  <2>2. ShellType'
    BY <1>6 DEF RestoreAlrm, ShellType, AttemptInv
  <2>3. AttemptInv'
    BY <1>6 DEF RestoreAlrm, AttemptInv, ShellType
  <2>4. RcInv'
    BY <1>6 DEF RestoreAlrm, RcInv, AttemptInv, ShellType
  <2>5. AlarmInv'
    BY <1>6 DEF RestoreAlrm, AlarmInv, LimitInv
  <2>6. TimeOutInv'
    BY <1>6 DEF RestoreAlrm, TimeOutInv, LimitInv, ShellType
  <2>7. LimitInv'
    BY <1>6 DEF RestoreAlrm, LimitInv, AlarmInv
  <2>8. TurnInv'
    BY <1>6 DEF RestoreAlrm, TurnInv, AttemptInv, ShellType, LimitInv
  <2> QED
    BY <2>1, <2>2, <2>3, <2>4, <2>5, <2>6, <2>7, <2>8
<1>7. CASE ClearAlarm
  <2>1. ShellFlags'
    BY <1>7 DEF ClearAlarm, ShellFlags
  <2>2. ShellType'
    BY <1>7 DEF ClearAlarm, ShellType, AttemptInv
  <2>3. AttemptInv'
    BY <1>7 DEF ClearAlarm, AttemptInv, ShellType
  <2>4. RcInv'
    BY <1>7 DEF ClearAlarm, RcInv, AttemptInv, ShellType
  <2>5. AlarmInv'
    BY <1>7 DEF ClearAlarm, AlarmInv, LimitInv
  <2>6. TimeOutInv'
    BY <1>7 DEF ClearAlarm, TimeOutInv, LimitInv, ShellType
  <2>7. LimitInv'
    BY <1>7 DEF ClearAlarm, LimitInv, AlarmInv
  <2>8. TurnInv'
    BY <1>7 DEF ClearAlarm, TurnInv, AttemptInv, ShellType, LimitInv
  <2> QED
    BY <2>1, <2>2, <2>3, <2>4, <2>5, <2>6, <2>7, <2>8
<1>8. CASE Good
  <2>1. ShellFlags'
    BY <1>8 DEF Good, ShellFlags
  <2>2. ShellType'
    BY <1>8 DEF Good, ShellType, AttemptInv
  <2>3. AttemptInv'
    BY <1>8 DEF Good, AttemptInv, ShellType
  <2>4. RcInv'
    BY <1>8 DEF Good, RcInv, AttemptInv, ShellType
  <2>5. AlarmInv'
    BY <1>8 DEF Good, AlarmInv, LimitInv
  <2>6. TimeOutInv'
    BY <1>8 DEF Good, TimeOutInv, LimitInv, ShellType
  <2>7. LimitInv'
    BY <1>8 DEF Good, LimitInv, AlarmInv
  <2>8. TurnInv'
    BY <1>8 DEF Good, TurnInv, AttemptInv, ShellType, LimitInv
  <2> QED
    BY <2>1, <2>2, <2>3, <2>4, <2>5, <2>6, <2>7, <2>8
<1>9. CASE NotGood
  <2>1. ShellFlags'
    BY <1>9 DEF NotGood, ShellFlags
  <2>2. ShellType'
    BY <1>9 DEF NotGood, ShellType, AttemptInv
  <2>3. AttemptInv'
    BY <1>9 DEF NotGood, AttemptInv, ShellType
  <2>4. RcInv'
    BY <1>9 DEF NotGood, RcInv, AttemptInv, ShellType
  <2>5. AlarmInv'
    BY <1>9 DEF NotGood, AlarmInv, LimitInv
  <2>6. TimeOutInv'
    BY <1>9 DEF NotGood, TimeOutInv, LimitInv, ShellType
  <2>7. LimitInv'
    BY <1>9 DEF NotGood, LimitInv, AlarmInv
  <2>8. TurnInv'
    BY <1>9 DEF NotGood, TurnInv, AttemptInv, ShellType, LimitInv
  <2> QED
    BY <2>1, <2>2, <2>3, <2>4, <2>5, <2>6, <2>7, <2>8
<1>10. CASE ShellEnd
  <2>1. ShellFlags'
    BY <1>10 DEF ShellEnd, ShellFlags
  <2>2. ShellType'
    BY <1>10 DEF ShellEnd, ShellType, AttemptInv
  <2>3. AttemptInv'
    BY <1>10 DEF ShellEnd, AttemptInv, ShellType
  <2>4. RcInv'
    BY <1>10 DEF ShellEnd, RcInv, AttemptInv, ShellType
  <2>5. AlarmInv'
    BY <1>10 DEF ShellEnd, AlarmInv, LimitInv
  <2>6. TimeOutInv'
    BY <1>10 DEF ShellEnd, TimeOutInv, LimitInv, ShellType
  <2>7. LimitInv'
    BY <1>10 DEF ShellEnd, LimitInv, AlarmInv
  <2>8. TurnInv'
    BY <1>10 DEF ShellEnd, TurnInv, AttemptInv, ShellType, LimitInv
  <2> QED
    BY <2>1, <2>2, <2>3, <2>4, <2>5, <2>6, <2>7, <2>8
<1>11. CASE TimedOut
  <2>1. ShellFlags'
    BY <1>11 DEF TimedOut, ShellFlags
  <2>2. ShellType'
    BY <1>11 DEF TimedOut, ShellType, AttemptInv
  <2>3. AttemptInv'
    BY <1>11 DEF TimedOut, AttemptInv, ShellType
  <2>4. RcInv'
    BY <1>11 DEF TimedOut, RcInv, AttemptInv, ShellType
  <2>5. AlarmInv'
    BY <1>11 DEF TimedOut, AlarmInv, LimitInv
  <2>6. TimeOutInv'
    BY <1>11 DEF TimedOut, TimeOutInv, LimitInv, ShellType
  <2>7. LimitInv'
    BY <1>11 DEF TimedOut, LimitInv, AlarmInv
  <2>8. TurnInv'
    BY <1>11 DEF TimedOut, TurnInv, AttemptInv, ShellType, LimitInv
  <2> QED
    BY <2>1, <2>2, <2>3, <2>4, <2>5, <2>6, <2>7, <2>8
<1>12. CASE TimedOutLate
  <2>1. ShellFlags'
    BY <1>12 DEF TimedOutLate, ShellFlags
  <2>2. ShellType'
    BY <1>12 DEF TimedOutLate, ShellType, AttemptInv
  <2>3. AttemptInv'
    BY <1>12 DEF TimedOutLate, AttemptInv, ShellType
  <2>4. RcInv'
    BY <1>12 DEF TimedOutLate, RcInv, AttemptInv, ShellType
  <2>5. AlarmInv'
    BY <1>12 DEF TimedOutLate, AlarmInv, LimitInv
  <2>6. TimeOutInv'
    BY <1>12 DEF TimedOutLate, TimeOutInv, LimitInv, ShellType
  <2>7. LimitInv'
    BY <1>12 DEF TimedOutLate, LimitInv, AlarmInv
  <2>8. TurnInv'
    BY <1>12 DEF TimedOutLate, TurnInv, AttemptInv, ShellType, LimitInv
  <2> QED
    BY <2>1, <2>2, <2>3, <2>4, <2>5, <2>6, <2>7, <2>8
<1>13. CASE KilledByAlarm
  <2>1. ShellFlags'
    BY <1>13 DEF KilledByAlarm, ShellFlags
  <2>2. ShellType'
    BY <1>13 DEF KilledByAlarm, ShellType, AttemptInv
  <2>3. AttemptInv'
    BY <1>13 DEF KilledByAlarm, AttemptInv, ShellType
  <2>4. RcInv'
    BY <1>13 DEF KilledByAlarm, RcInv, AttemptInv, ShellType
  <2>5. AlarmInv'
    BY <1>13 DEF KilledByAlarm, AlarmInv, LimitInv
  <2>6. TimeOutInv'
    BY <1>13 DEF KilledByAlarm, TimeOutInv, LimitInv, ShellType
  <2>7. LimitInv'
    BY <1>13 DEF KilledByAlarm, LimitInv, AlarmInv
  <2>8. TurnInv'
    BY <1>13 DEF KilledByAlarm, TurnInv, AttemptInv, ShellType, LimitInv
  <2> QED
    BY <2>1, <2>2, <2>3, <2>4, <2>5, <2>6, <2>7, <2>8
<1>14. CASE kill_cmd
  <2>1. ShellFlags'
    BY <1>14 DEF kill_cmd, ShellFlags
  <2>2. ShellType'
    BY <1>14 DEF kill_cmd, ShellType, AttemptInv
  <2>3. AttemptInv'
    BY <1>14 DEF kill_cmd, AttemptInv, ShellType
  <2>4. RcInv'
    BY <1>14 DEF kill_cmd, RcInv, AttemptInv, ShellType
  <2>5. AlarmInv'
    BY <1>14 DEF kill_cmd, AlarmInv, LimitInv
  <2>6. TimeOutInv'
    BY <1>14 DEF kill_cmd, TimeOutInv, LimitInv, ShellType
  <2>7. LimitInv'
    BY <1>14 DEF kill_cmd, LimitInv, AlarmInv
  <2>8. TurnInv'
    BY <1>14 DEF kill_cmd, TurnInv, AttemptInv, ShellType, LimitInv
  <2> QED
    BY <2>1, <2>2, <2>3, <2>4, <2>5, <2>6, <2>7, <2>8
<1>15. ASSUME NEW a \in Attempts, CommandStops(a) PROVE ShellInv'
  <2>1. ShellFlags'
    BY <1>15 DEF CommandStops, ShellFlags
  <2>2. ShellType'
    BY <1>15 DEF CommandStops, ShellType, AttemptInv
  <2>3. AttemptInv'
    BY <1>15 DEF CommandStops, AttemptInv, ShellType
  <2>4. RcInv'
    BY <1>15 DEF CommandStops, RcInv, AttemptInv, ShellType
  <2>5. AlarmInv'
    BY <1>15 DEF CommandStops, AlarmInv, LimitInv
  <2>6. TimeOutInv'
    BY <1>15 DEF CommandStops, TimeOutInv, LimitInv, ShellType
  <2>7. LimitInv'
    BY <1>15 DEF CommandStops, LimitInv, AlarmInv
  <2>8. TurnInv'
    BY <1>15 DEF CommandStops, TurnInv, AttemptInv, ShellType, LimitInv
  <2> QED
    BY <2>1, <2>2, <2>3, <2>4, <2>5, <2>6, <2>7, <2>8
<1>16. CASE UNCHANGED shellVars
  <2>1. ShellFlags'
    BY <1>16 DEF shellVars, ShellFlags
  <2>2. ShellType'
    BY <1>16 DEF shellVars, ShellType, AttemptInv
  <2>3. AttemptInv'
    BY <1>16 DEF shellVars, AttemptInv, ShellType
  <2>4. RcInv'
    BY <1>16 DEF shellVars, RcInv, AttemptInv, ShellType
  <2>5. AlarmInv'
    BY <1>16 DEF shellVars, AlarmInv, LimitInv
  <2>6. TimeOutInv'
    BY <1>16 DEF shellVars, TimeOutInv, LimitInv, ShellType
  <2>7. LimitInv'
    BY <1>16 DEF shellVars, LimitInv, AlarmInv
  <2>8. TurnInv'
    BY <1>16 DEF shellVars, TurnInv, AttemptInv, ShellType, LimitInv
  <2> QED
    BY <2>1, <2>2, <2>3, <2>4, <2>5, <2>6, <2>7, <2>8
<1> QED
  BY <1>1, <1>2, <1>3, <1>4, <1>5, <1>6, <1>7, <1>8, <1>9, <1>10, <1>11, <1>12, <1>13, <1>14, <1>15, <1>16
     DEF ShellNext, shell_cmd, Alarm

\* What shell_cmd returns is about its last attempt, no alarm is left behind and
\* attempts are made in turn, for every number of attempts and whenever the
\* alarm goes off.
THEOREM ShellResultIsRight == ShellSpec => []ShellResultRight
<1>1. ShellInv => ValidRcIsReal
  BY DEF ShellInv, ShellType, RcInv, ValidRcIsReal
<1>2. ShellInv => TimeOutIsCurrent
  BY DEF ShellInv, ShellFlags, TimeOutInv, TimeOutIsCurrent, Judging
<1>3. ShellInv => NoAlarmLeft
  BY DEF ShellInv, ShellFlags, AlarmInv, NoAlarmLeft
<1>4. ShellInv => RetriesInTurn
  BY ShellAssumption DEF ShellInv, ShellFlags, ShellType, AttemptInv, TurnInv, RetriesInTurn, Attempts
<1> QED
  BY ShellInvInit, ShellInvStep, <1>1, <1>2, <1>3, <1>4, PTL DEF ShellSpec, ShellResultRight

(***************************************************************************)
(* Ssh commands                                                            *)
(***************************************************************************)

Connection == [host : Hosts, alias : Aliases, login : BOOLEAN]

\* A connection is used.
Busy == pc \in LoginPcs \cup {"attempt"}

\* The types of the flags, and of the other variables but for the connections.
SshFlags ==
  /\ fork \in BOOLEAN /\ ignore_err \in BOOLEAN /\ test_mode \in BOOLEAN
  /\ completed \in BOOLEAN /\ lost \in BOOLEAN /\ trouble \in BOOLEAN
SshData ==
  /\ pc \in LoginPcs \cup {"idle", "attempt", "finish"}
  /\ ssh_calls \in 0..MaxSshCalls /\ alias \in Aliases /\ host \in Hosts
  /\ login_attempt \in 1..max_login_attempts
  /\ rc \in {NoRc, 0, 1} /\ outcome \in {"none", "returned", "raised", "refused"}

\* Every connection is one of those that were opened with its alias, an alias
\* stands for the newest of them, and that is the one a call uses.
ConnList ==
  /\ connections \in Seq(Connection) /\ current \in 0..Len(connections) /\ OneConnection
ConnOpened ==
  /\ opened \in [Aliases -> SUBSET Hosts]
  /\ \A i \in 1..Len(connections) : connections[i].host \in opened[connections[i].alias]
ConnAliases ==
  /\ aliases \in [Aliases -> 0..Len(connections)]
  /\ \A a \in Aliases : \A i \in Under(a) : aliases[a] \in Under(a) /\ i <= aliases[a]
ConnUsed ==
  Busy => current = aliases[alias] /\ current \in Under(alias) /\ host \in opened[alias]
ConnInv == ConnList /\ ConnOpened /\ ConnAliases /\ ConnUsed

\* A command has been run by a host its alias was used for, at most once in every
\* attempt.
WhereInv == where \subseteq opened[alias] /\ (where # {} => host \in opened[alias])
CountInv ==
  /\ attempt \in 1..3 /\ executed \in 0..2
  /\ pc \in LoginPcs => attempt \in 1..2 /\ executed <= attempt
  /\ pc = "attempt" => attempt \in 1..2 /\ executed < attempt
  /\ pc = "first_login" => executed = 0

\* A call that goes on after its command was run has lost a connection.
LossInv == executed > 1 \/ (Busy /\ executed > 0) => lost = TRUE

\* A return code of zero comes from the command.
SshRcInv == pc # "idle" /\ rc = 0 => completed = TRUE /\ executed > 0

SshInv ==
  /\ SshFlags /\ SshData /\ ConnInv /\ WhereInv /\ CountInv /\ LossInv /\ SshRcInv
  /\ ZeroMeansRun /\ ErrorsReported

\* What is assumed of the bounds and of the return codes.
LEMMA Bounds == max_login_attempts \in Nat \ {0} /\ MaxSshCalls \in Nat
BY SshAssumption
LEMMA ReturnCodes == NoRc # 0 /\ NoRc # 1
BY SshAssumption

\* Before the first call there is no connection.
LEMMA SshInvInit == SshInit => SshInv
<1> SUFFICES ASSUME SshInit PROVE SshInv
  OBVIOUS
<1> USE Bounds, ReturnCodes DEF SshInit, LoginPcs, Busy
<1>1. SshFlags
  BY DEF SshFlags
<1>2. SshData
  <2>1. ssh_calls \in 0..MaxSshCalls /\ login_attempt \in 1..max_login_attempts
    OBVIOUS
  <2> QED
    BY <2>1 DEF SshData
<1>3. ConnInv
  <2>1. connections \in Seq(Connection) /\ Len(connections) = 0
    BY EmptySeq
  <2> QED
    BY <2>1 DEF ConnInv, ConnList, OneConnection, ConnOpened, ConnAliases, ConnUsed, Under
<1>4. WhereInv /\ SshRcInv /\ ZeroMeansRun /\ ErrorsReported
  BY DEF WhereInv, SshRcInv, ZeroMeansRun, ErrorsReported
<1>5. CountInv /\ LossInv
  BY DEF CountInv, LossInv
<1> QED
  BY <1>1, <1>2, <1>3, <1>4, <1>5 DEF SshInv

\* What is known of the connections stays true while they, and what the call
\* uses of them, do not change.
LEMMA ConnKept ==
  ASSUME ConnInv, UNCHANGED ssh, Busy' => Busy /\ UNCHANGED <<alias, host>>
  PROVE  ConnInv'
BY DEF ssh, ConnInv, ConnList, OneConnection, ConnOpened, ConnAliases, ConnUsed, Under

\* Every step of a call keeps the invariant.
LEMMA SshInvStep == SshInv /\ [SshNext]_sshVars => SshInv'
<1>0. SUFFICES ASSUME SshInv, [SshNext]_sshVars
             PROVE  SshInv'
  OBVIOUS
<1>data. SshData
  BY <1>0 DEF SshInv
<1>conn. ConnInv
  BY <1>0 DEF SshInv
<1>where. WhereInv
  BY <1>0 DEF SshInv
<1>count. CountInv
  BY <1>0 DEF SshInv
<1>loss. LossInv
  BY <1>0 DEF SshInv
<1>rc. SshRcInv
  BY <1>0 DEF SshInv
<1> USE Bounds, ReturnCodes DEF LoginPcs, Busy, parms, ssh, ghost, max_exec_cmd_attempts
<1>1. ASSUME NEW a \in Aliases, NEW h \in Hosts, CallInTestMode(a, h) PROVE SshInv'
  <2>1. SshFlags'
    BY <1>0, <1>1 DEF SshInv, CallInTestMode, SshCalled, SshFlags
  <2>2. SshData'
    BY <1>0, <1>1 DEF SshInv, CallInTestMode, SshCalled, SshData
  <2>3. ConnInv'
    <3>1. UNCHANGED ssh /\ ~Busy'
      BY <1>0, <1>1 DEF CallInTestMode, SshCalled
    <3> QED
      BY <1>conn, <3>1, ConnKept
  <2>4. WhereInv'
    BY <1>0, <1>1 DEF SshInv, CallInTestMode, SshCalled, WhereInv
  <2>5. CountInv'
    BY <1>0, <1>1 DEF SshInv, CallInTestMode, SshCalled, CountInv
  <2>6. LossInv'
    BY <1>0, <1>1 DEF SshInv, CallInTestMode, SshCalled, LossInv, CountInv
  <2>7. SshRcInv'
    BY <1>0, <1>1 DEF SshInv, CallInTestMode, SshCalled, SshRcInv, SshData, CountInv
  <2>8. ZeroMeansRun'
    BY <1>0, <1>1 DEF SshInv, CallInTestMode, SshCalled, ZeroMeansRun, SshRcInv
  <2>9. ErrorsReported'
    BY <1>0, <1>1 DEF SshInv, CallInTestMode, SshCalled, ErrorsReported, SshRcInv
  <2> QED
    BY <2>1, <2>2, <2>3, <2>4, <2>5, <2>6, <2>7, <2>8, <2>9 DEF SshInv
<1>2. ASSUME NEW a \in Aliases, NEW h \in Hosts, SwitchConnection(a, h) PROVE SshInv'
  <2>1. SshFlags'
    BY <1>0, <1>2 DEF SshInv, SwitchConnection, SshCalled, SshFlags
  <2>2. SshData'
    BY <1>0, <1>2 DEF SshInv, SwitchConnection, SshCalled, SshData
  <2>3. ConnInv'
    <3>1. /\ UNCHANGED <<connections, aliases, opened>> /\ current' = aliases[a]
          /\ Matching(a, h) # {} /\ alias' = a /\ host' = h
      BY <1>2 DEF SwitchConnection, SshCalled
    <3>2. PICK i \in Under(a) : connections[i].host = h
      BY <3>1 DEF Matching
    <3>3. aliases[a] \in Under(a) /\ h \in opened[a]
      <4>1. i \in 1..Len(connections) /\ connections[i].alias = a
        BY <3>2 DEF Under
      <4> QED
        BY <1>conn, <3>2, <4>1 DEF ConnInv, ConnOpened, ConnAliases
    <3>4. current' \in 0..Len(connections)
      BY <1>conn, <1>2, <3>1 DEF ConnInv, ConnAliases
    <3> QED
      BY <1>conn, <3>1, <3>3, <3>4
         DEF ConnInv, ConnList, OneConnection, ConnOpened, ConnAliases, ConnUsed, Under
  <2>4. WhereInv'
    BY <1>0, <1>2 DEF SshInv, SwitchConnection, SshCalled, WhereInv
  <2>5. CountInv'
    BY <1>0, <1>2 DEF SshInv, SwitchConnection, SshCalled, CountInv
  <2>6. LossInv'
    BY <1>0, <1>2 DEF SshInv, SwitchConnection, SshCalled, LossInv, CountInv
  <2>7. SshRcInv'
    BY <1>0, <1>2 DEF SshInv, SwitchConnection, SshCalled, SshRcInv, SshData, CountInv
  <2>8. ZeroMeansRun'
    BY <1>0, <1>2 DEF SshInv, SwitchConnection, SshCalled, ZeroMeansRun, SshRcInv
  <2>9. ErrorsReported'
    BY <1>0, <1>2 DEF SshInv, SwitchConnection, SshCalled, ErrorsReported, SshRcInv
  <2> QED
    BY <2>1, <2>2, <2>3, <2>4, <2>5, <2>6, <2>7, <2>8, <2>9 DEF SshInv
<1>3. ASSUME NEW a \in Aliases, NEW h \in Hosts, OpenConnection(a, h) PROVE SshInv'
  <2>1. SshFlags'
    BY <1>0, <1>3 DEF SshInv, OpenConnection, SshCalled, SshFlags
  <2>2. SshData'
    <3>1. /\ ssh_calls < MaxSshCalls /\ ssh_calls' = ssh_calls + 1
          /\ alias' = a /\ host' = h /\ login_attempt' = 1 /\ rc' = NoRc /\ outcome' = "none" /\ pc' = "first_login"
      BY <1>3 DEF OpenConnection, SshCalled
    <3>2. ssh_calls' \in 0..MaxSshCalls /\ login_attempt' \in 1..max_login_attempts
      BY <1>data, <3>1 DEF SshData
    <3> QED
      BY <1>data, <1>3, <3>1, <3>2 DEF SshData
  <2>3. ConnInv'
    <3> DEFINE e == NewConnection(a, h)
               n == Len(connections) + 1
    <3>1. /\ connections' = Append(connections, e) /\ current' = n
          /\ aliases' = [aliases EXCEPT ![a] = n] /\ opened' = [opened EXCEPT ![a] = @ \cup {h}]
          /\ Matching(a, h) = {} /\ alias' = a /\ host' = h
      BY <1>3 DEF OpenConnection, SshCalled
    <3>2. /\ connections \in Seq(Connection) /\ Len(connections) \in Nat /\ OneConnection
          /\ opened \in [Aliases -> SUBSET Hosts] /\ aliases \in [Aliases -> 0..Len(connections)]
      BY <1>conn, LenProperties DEF ConnInv, ConnList, ConnOpened, ConnAliases
    <3>3. e \in Connection /\ e.host = h /\ e.alias = a
      BY <1>3 DEF NewConnection, Connection
    <3> HIDE DEF e
    <3>4. /\ connections' \in Seq(Connection) /\ Len(connections') = n
          /\ connections'[n] = e
          /\ \A i \in 1..Len(connections) : connections'[i] = connections[i]
      BY <3>1, <3>2, <3>3, AppendProperties
    <3>5. /\ n \in 1..n /\ n \in 0..n /\ \A i \in 1..n : i = n \/ i \in 1..Len(connections)
          /\ \A i \in 0..Len(connections) : i \in 0..n /\ i <= n
          /\ \A i \in 1..Len(connections) : i \in 1..n /\ i <= n /\ i # n
      BY <3>2
    <3> HIDE DEF n
    <3>6. ConnList'
      <4>1. OneConnection'
        BY <3>1, <3>2, <3>3, <3>4, <3>5 DEF OneConnection, Matching, Under
      <4> QED
        BY <3>1, <3>4, <3>5, <4>1 DEF ConnList
    <3>7. ConnOpened'
      <4>1. opened' \in [Aliases -> SUBSET Hosts] /\ h \in opened'[a]
            /\ \A b \in Aliases : opened[b] \subseteq opened'[b]
        BY <1>3, <3>1, <3>2
      <4>2. \A i \in 1..Len(connections) :
              connections[i].host \in opened[connections[i].alias] /\ connections[i].alias \in Aliases
        <5>1. \A i \in 1..Len(connections) : connections[i] \in Connection
          BY <3>2, ElementOfSeq
        <5> QED
          BY <1>conn, <5>1 DEF ConnInv, ConnOpened, Connection
      <4> QED
        BY <3>3, <3>4, <3>5, <4>1, <4>2 DEF ConnOpened
    <3>8. ConnAliases'
      <4>1. aliases' \in [Aliases -> 0..n] /\ aliases'[a] = n
            /\ \A b \in Aliases : b # a => aliases'[b] = aliases[b]
        BY <1>3, <3>1, <3>2, <3>5
      <4>2. n \in Under(a)' /\ \A i \in Under(a)' : i <= n
        BY <3>3, <3>4, <3>5 DEF Under
      <4>3. \A b \in Aliases : b # a => Under(b)' = Under(b)
        BY <3>3, <3>4, <3>5 DEF Under
      <4>4. \A b \in Aliases : \A i \in Under(b) : aliases[b] \in Under(b) /\ i <= aliases[b]
        BY <1>conn DEF ConnInv, ConnAliases
      <4>5. ASSUME NEW b \in Aliases, NEW i \in Under(b)'
            PROVE  aliases'[b] \in Under(b)' /\ i <= aliases'[b]
        <5>1. CASE b = a
          BY <4>1, <4>2, <4>5, <5>1
        <5>2. CASE b # a
          BY <4>1, <4>3, <4>4, <4>5, <5>2
        <5> QED
          BY <5>1, <5>2
      <4> QED
        BY <3>4, <4>1, <4>5 DEF ConnAliases
    <3>9. ConnUsed'
      <4>1. n \in Under(a)' /\ aliases'[a] = n /\ h \in opened'[a]
        BY <1>3, <3>1, <3>2, <3>3, <3>4, <3>5 DEF Under
      <4> QED
        BY <3>1, <4>1 DEF ConnUsed, Under
    <3> QED
      BY <3>6, <3>7, <3>8, <3>9 DEF ConnInv
  <2>4. WhereInv'
    BY <1>0, <1>3 DEF SshInv, OpenConnection, SshCalled, WhereInv
  <2>5. CountInv'
    <3>1. attempt' = 1 /\ executed' = 0 /\ pc' = "first_login"
      BY <1>3 DEF OpenConnection, SshCalled
    <3> QED
      BY <1>count, <3>1 DEF CountInv
  <2>6. LossInv'
    <3>1. executed' = 0
      BY <1>3 DEF OpenConnection, SshCalled
    <3> QED
      BY <1>loss, <3>1 DEF LossInv
  <2>7. SshRcInv'
    BY <1>0, <1>3 DEF SshInv, OpenConnection, SshCalled, SshRcInv, SshData, CountInv
  <2>8. ZeroMeansRun'
    BY <1>0, <1>3 DEF SshInv, OpenConnection, SshCalled, ZeroMeansRun, SshRcInv
  <2>9. ErrorsReported'
    BY <1>0, <1>3 DEF SshInv, OpenConnection, SshCalled, ErrorsReported, SshRcInv
  <2> QED
    BY <2>1, <2>2, <2>3, <2>4, <2>5, <2>6, <2>7, <2>8, <2>9 DEF SshInv
<1>4. ASSUME NEW a \in Aliases, NEW h \in Hosts, NotConfigured(a, h) PROVE SshInv'
  <2>1. SshFlags'
    BY <1>0, <1>4, SshAssumption DEF SshInv, NotConfigured, SshCalled, SshFlags
  <2>2. SshData'
    BY <1>0, <1>4 DEF SshInv, NotConfigured, SshCalled, SshData
  <2>3. ConnInv'
    <3>1. UNCHANGED ssh /\ ~Busy'
      BY <1>0, <1>4 DEF NotConfigured, SshCalled
    <3> QED
      BY <1>conn, <3>1, ConnKept
  <2>4. WhereInv'
    BY <1>0, <1>4 DEF SshInv, NotConfigured, SshCalled, WhereInv
  <2>5. CountInv'
    BY <1>0, <1>4 DEF SshInv, NotConfigured, SshCalled, CountInv
  <2>6. LossInv'
    BY <1>0, <1>4 DEF SshInv, NotConfigured, SshCalled, LossInv, CountInv
  <2>7. SshRcInv'
    BY <1>0, <1>4 DEF SshInv, NotConfigured, SshCalled, SshRcInv, SshData, CountInv
  <2>8. ZeroMeansRun'
    BY <1>0, <1>4 DEF SshInv, NotConfigured, SshCalled, ZeroMeansRun, SshRcInv
  <2>9. ErrorsReported'
    BY <1>0, <1>4 DEF SshInv, NotConfigured, SshCalled, ErrorsReported, SshRcInv
  <2> QED
    BY <2>1, <2>2, <2>3, <2>4, <2>5, <2>6, <2>7, <2>8, <2>9 DEF SshInv
<1>5. CASE LoginWorks
  <2>1. SshFlags'
    BY <1>0, <1>5 DEF SshInv, LoginWorks, NextAttempt, SshFlags
  <2>2. SshData'
    BY <1>0, <1>5 DEF SshInv, LoginWorks, NextAttempt, SshData
  <2>3. ConnInv'
    <3> DEFINE e == [connections[current] EXCEPT !.login = TRUE]
    <3>1. /\ connections' = [connections EXCEPT ![current] = e] /\ Busy
          /\ UNCHANGED <<alias, host, aliases, current, opened>>
      BY <1>5 DEF LoginWorks
    <3>2. /\ connections \in Seq(Connection) /\ Len(connections) \in Nat /\ OneConnection
          /\ current \in 1..Len(connections)
      BY <1>conn, <3>1, LenProperties DEF ConnInv, ConnList, ConnUsed, Under
    <3>3. connections[current] \in Connection
      BY <3>2, ElementOfSeq
    <3>4. /\ e \in Connection
          /\ e.host = connections[current].host /\ e.alias = connections[current].alias
      BY <3>3 DEF Connection
    <3> HIDE DEF e
    <3>5. /\ connections' \in Seq(Connection) /\ Len(connections') = Len(connections)
          /\ \A j \in 1..Len(connections) :
               connections'[j] = IF j = current THEN e ELSE connections[j]
      BY <3>1, <3>2, <3>4, ExceptSeq
    <3>6. \A j \in 1..Len(connections) :
            /\ connections'[j].host = connections[j].host
            /\ connections'[j].alias = connections[j].alias
      BY <3>4, <3>5
    <3>7. \A b : Under(b)' = Under(b)
      BY <3>5, <3>6 DEF Under
    <3>8. ConnList'
      BY <1>conn, <3>1, <3>2, <3>5, <3>6 DEF ConnInv, ConnList, OneConnection
    <3>9. ConnOpened'
      BY <1>conn, <3>1, <3>5, <3>6 DEF ConnInv, ConnOpened
    <3>10. ConnAliases' /\ ConnUsed'
      <4>1. ConnAliases /\ ConnUsed
        BY <1>conn DEF ConnInv
      <4> QED
        BY <3>1, <3>5, <3>7, <4>1 DEF ConnAliases, ConnUsed
    <3> QED
      BY <3>8, <3>9, <3>10 DEF ConnInv
  <2>4. WhereInv'
    BY <1>0, <1>5 DEF SshInv, LoginWorks, NextAttempt, WhereInv
  <2>5. CountInv'
    <3>1. CASE pc = "first_login" /\ pc' = "attempt" /\ attempt' = attempt /\ executed' = executed
      BY <1>count, <3>1 DEF CountInv
    <3>2. CASE pc \in LoginPcs /\ NextAttempt /\ executed' = executed
      <4>1. attempt \in 1..2 /\ executed \in 0..2 /\ executed <= attempt
        BY <1>count, <3>2 DEF CountInv
      <4>2. attempt' \in 2..3 /\ executed < attempt'
        BY <3>2, <4>1 DEF NextAttempt
      <4>3. (pc' = "attempt" /\ attempt' = 2) \/ pc' = "finish"
        BY <3>2, <4>1 DEF NextAttempt
      <4> QED
        BY <1>count, <3>2, <4>1, <4>2, <4>3 DEF CountInv
    <3> QED
      BY <1>5, <3>1, <3>2 DEF LoginWorks
  <2>6. LossInv'
    BY <1>0, <1>5 DEF SshInv, LoginWorks, NextAttempt, LossInv, CountInv
  <2>7. SshRcInv'
    BY <1>0, <1>5 DEF SshInv, LoginWorks, NextAttempt, SshRcInv, SshData, CountInv
  <2>8. ZeroMeansRun'
    BY <1>0, <1>5 DEF SshInv, LoginWorks, NextAttempt, ZeroMeansRun, SshRcInv
  <2>9. ErrorsReported'
    BY <1>0, <1>5 DEF SshInv, LoginWorks, NextAttempt, ErrorsReported, SshRcInv
  <2> QED
    BY <2>1, <2>2, <2>3, <2>4, <2>5, <2>6, <2>7, <2>8, <2>9 DEF SshInv
<1>6. CASE LoginRetried
  <2>1. SshFlags'
    BY <1>0, <1>6 DEF SshInv, LoginRetried, SshFlags
  <2>2. SshData'
    <3>1. /\ login_attempt < max_login_attempts /\ login_attempt' = login_attempt + 1
          /\ UNCHANGED <<pc, ssh_calls, alias, host, rc, outcome>>
      BY <1>6 DEF LoginRetried
    <3>2. login_attempt' \in 1..max_login_attempts
      BY <1>data, <3>1 DEF SshData
    <3> QED
      BY <1>data, <3>1, <3>2 DEF SshData
  <2>3. ConnInv'
    BY <1>conn, <1>6, ConnKept DEF LoginRetried
  <2>4. WhereInv'
    BY <1>0, <1>6 DEF SshInv, LoginRetried, WhereInv
  <2>5. CountInv'
    BY <1>0, <1>6 DEF SshInv, LoginRetried, CountInv
  <2>6. LossInv'
    BY <1>0, <1>6 DEF SshInv, LoginRetried, LossInv, CountInv
  <2>7. SshRcInv'
    BY <1>0, <1>6 DEF SshInv, LoginRetried, SshRcInv, SshData, CountInv
  <2>8. ZeroMeansRun'
    BY <1>0, <1>6 DEF SshInv, LoginRetried, ZeroMeansRun, SshRcInv
  <2>9. ErrorsReported'
    BY <1>0, <1>6 DEF SshInv, LoginRetried, ErrorsReported, SshRcInv
  <2> QED
    BY <2>1, <2>2, <2>3, <2>4, <2>5, <2>6, <2>7, <2>8, <2>9 DEF SshInv
<1>7. CASE LoginFails
  <2>1. SshFlags'
    BY <1>0, <1>7 DEF SshInv, LoginFails, SshFlags
  <2>2. SshData'
    BY <1>0, <1>7 DEF SshInv, LoginFails, SshData
  <2>3. ConnInv'
    <3>1. UNCHANGED ssh /\ ~Busy'
      BY <1>0, <1>7 DEF LoginFails
    <3> QED
      BY <1>conn, <3>1, ConnKept
  <2>4. WhereInv'
    BY <1>0, <1>7 DEF SshInv, LoginFails, WhereInv
  <2>5. CountInv'
    BY <1>0, <1>7 DEF SshInv, LoginFails, CountInv
  <2>6. LossInv'
    BY <1>0, <1>7 DEF SshInv, LoginFails, LossInv, CountInv
  <2>7. SshRcInv'
    <3>1. rc' = 1 \/ pc' = "idle"
      BY <1>7 DEF LoginFails
    <3> QED
      BY <1>rc, <3>1 DEF SshRcInv
  <2>8. ZeroMeansRun'
    BY <1>0, <1>7 DEF SshInv, LoginFails, ZeroMeansRun, SshRcInv
  <2>9. ErrorsReported'
    BY <1>0, <1>7 DEF SshInv, LoginFails, ErrorsReported, SshRcInv
  <2> QED
    BY <2>1, <2>2, <2>3, <2>4, <2>5, <2>6, <2>7, <2>8, <2>9 DEF SshInv
<1>8. CASE Executed
  <2>1. SshFlags'
    BY <1>0, <1>8 DEF SshInv, Executed, AtAttempt, RunByHost, SshFlags
  <2>2. SshData'
    BY <1>0, <1>8 DEF SshInv, Executed, AtAttempt, RunByHost, SshData
  <2>3. ConnInv'
    <3>1. UNCHANGED ssh /\ ~Busy'
      BY <1>0, <1>8 DEF Executed
    <3> QED
      BY <1>conn, <3>1, ConnKept
  <2>4. WhereInv'
    <3>1. /\ UNCHANGED <<alias, host, opened>>
          /\ where' = where \/ where' = where \cup {connections[current].host}
      BY <1>8 DEF Executed, RunByHost
    <3>2. connections[current].host \in opened[alias] /\ host \in opened[alias]
      BY <1>conn, <1>8 DEF ConnInv, ConnOpened, ConnUsed, Under, Executed, AtAttempt
    <3> QED
      BY <1>where, <3>1, <3>2 DEF WhereInv
  <2>5. CountInv'
    BY <1>0, <1>8 DEF SshInv, Executed, AtAttempt, RunByHost, CountInv
  <2>6. LossInv'
    BY <1>0, <1>8 DEF SshInv, Executed, AtAttempt, RunByHost, LossInv, CountInv
  <2>7. SshRcInv'
    BY <1>0, <1>8 DEF SshInv, Executed, AtAttempt, RunByHost, SshRcInv, SshData, CountInv
  <2>8. ZeroMeansRun'
    BY <1>0, <1>8 DEF SshInv, Executed, AtAttempt, RunByHost, ZeroMeansRun, SshRcInv
  <2>9. ErrorsReported'
    BY <1>0, <1>8 DEF SshInv, Executed, AtAttempt, RunByHost, ErrorsReported, SshRcInv
  <2> QED
    BY <2>1, <2>2, <2>3, <2>4, <2>5, <2>6, <2>7, <2>8, <2>9 DEF SshInv
<1>9. CASE NotOpen
  <2>1. SshFlags'
    BY <1>0, <1>9 DEF SshInv, NotOpen, AtAttempt, SshFlags
  <2>2. SshData'
    <3>1. /\ login_attempt' = 1 /\ rc' = 1 /\ pc' = "login_again"
          /\ UNCHANGED <<ssh_calls, alias, host, outcome>>
      BY <1>9 DEF NotOpen
    <3>2. login_attempt' \in 1..max_login_attempts
      BY <3>1
    <3> QED
      BY <1>data, <3>1, <3>2 DEF SshData
  <2>3. ConnInv'
    BY <1>conn, <1>9, ConnKept DEF NotOpen, AtAttempt
  <2>4. WhereInv'
    BY <1>0, <1>9 DEF SshInv, NotOpen, AtAttempt, WhereInv
  <2>5. CountInv'
    <3>1. pc = "attempt" /\ pc' = "login_again" /\ UNCHANGED <<attempt, executed>>
      BY <1>9 DEF NotOpen, AtAttempt
    <3> QED
      BY <1>count, <3>1 DEF CountInv
  <2>6. LossInv'
    BY <1>0, <1>9 DEF SshInv, NotOpen, AtAttempt, LossInv, CountInv
  <2>7. SshRcInv'
    <3>1. rc' = 1
      BY <1>9 DEF NotOpen
    <3> QED
      BY <1>rc, <3>1 DEF SshRcInv
  <2>8. ZeroMeansRun'
    BY <1>0, <1>9 DEF SshInv, NotOpen, AtAttempt, ZeroMeansRun, SshRcInv
  <2>9. ErrorsReported'
    BY <1>0, <1>9 DEF SshInv, NotOpen, AtAttempt, ErrorsReported, SshRcInv
  <2> QED
    BY <2>1, <2>2, <2>3, <2>4, <2>5, <2>6, <2>7, <2>8, <2>9 DEF SshInv
<1>10. CASE ConnectionLost
  <2>1. SshFlags'
    BY <1>0, <1>10 DEF SshInv, ConnectionLost, AtAttempt, RunByHost, Reopen, SshFlags
  <2>2. SshData'
    <3>1. /\ login_attempt' = 1 /\ rc' = 1 /\ pc' = "login_reopened"
          /\ UNCHANGED <<ssh_calls, alias, host, outcome>>
      BY <1>10 DEF ConnectionLost, Reopen
    <3>2. login_attempt' \in 1..max_login_attempts
      BY <3>1
    <3> QED
      BY <1>data, <3>1, <3>2 DEF SshData
  <2>3. ConnInv'
    <3> DEFINE e == NewConnection(alias, host)
    <3>1. /\ connections' = <<e>> /\ current' = 1 /\ UNCHANGED <<alias, host, opened>>
          /\ aliases' = [a \in Aliases |-> IF a = alias THEN 1 ELSE 0]
          /\ alias \in Aliases /\ host \in Hosts
      BY <1>data, <1>10 DEF ConnectionLost, Reopen, SshData
    <3>2. opened \in [Aliases -> SUBSET Hosts] /\ host \in opened[alias]
      BY <1>conn, <1>10 DEF ConnInv, ConnOpened, ConnUsed, ConnectionLost, AtAttempt
    <3>3. e \in Connection /\ e.host = host /\ e.alias = alias
      BY <3>1 DEF NewConnection, Connection
    <3> HIDE DEF e
    <3>4. connections' \in Seq(Connection) /\ Len(connections') = 1 /\ connections'[1] = e
      BY <3>1, <3>3
    <3>5. \A b : Under(b)' = IF b = alias THEN {1} ELSE {}
      BY <3>3, <3>4 DEF Under
    <3>6. ConnList' /\ ConnOpened'
      BY <3>1, <3>2, <3>3, <3>4 DEF ConnList, OneConnection, ConnOpened
    <3>7. ConnAliases' /\ ConnUsed'
      BY <3>1, <3>2, <3>4, <3>5 DEF ConnAliases, ConnUsed
    <3> QED
      BY <3>6, <3>7 DEF ConnInv
  <2>4. WhereInv'
    <3>1. /\ UNCHANGED <<alias, host, opened>>
          /\ where' = where \/ where' = where \cup {connections[current].host}
      BY <1>10 DEF ConnectionLost, RunByHost, Reopen
    <3>2. connections[current].host \in opened[alias] /\ host \in opened[alias]
      BY <1>conn, <1>10 DEF ConnInv, ConnOpened, ConnUsed, Under, ConnectionLost, AtAttempt
    <3> QED
      BY <1>where, <3>1, <3>2 DEF WhereInv
  <2>5. CountInv'
    <3>1. /\ pc = "attempt" /\ pc' = "login_reopened" /\ attempt' = attempt
          /\ \E n \in 0..1 : executed' = executed + n
      BY <1>10 DEF ConnectionLost, AtAttempt, RunByHost
    <3> QED
      BY <1>count, <3>1 DEF CountInv
  <2>6. LossInv'
    BY <1>0, <1>10 DEF SshInv, ConnectionLost, AtAttempt, RunByHost, Reopen, LossInv, CountInv
  <2>7. SshRcInv'
    <3>1. rc' = 1
      BY <1>10 DEF ConnectionLost
    <3> QED
      BY <1>rc, <3>1 DEF SshRcInv
  <2>8. ZeroMeansRun'
    BY <1>0, <1>10 DEF SshInv, ConnectionLost, AtAttempt, RunByHost, Reopen, ZeroMeansRun, SshRcInv
  <2>9. ErrorsReported'
    BY <1>0, <1>10 DEF SshInv, ConnectionLost, AtAttempt, RunByHost, Reopen, ErrorsReported, SshRcInv
  <2> QED
    BY <2>1, <2>2, <2>3, <2>4, <2>5, <2>6, <2>7, <2>8, <2>9 DEF SshInv
<1>11. CASE OtherException
  <2>1. SshFlags'
    BY <1>0, <1>11 DEF SshInv, OtherException, AtAttempt, RunByHost, GiveUp, SshFlags
  <2>2. SshData'
    BY <1>0, <1>11 DEF SshInv, OtherException, AtAttempt, RunByHost, GiveUp, SshData
  <2>3. ConnInv'
    <3>1. /\ connections' = <<>> /\ current' = 0 /\ UNCHANGED opened /\ ~Busy'
          /\ aliases' = [a \in Aliases |-> 0]
      BY <1>11 DEF OtherException, GiveUp
    <3>2. connections' \in Seq(Connection) /\ Len(connections') = 0 /\ \A b : Under(b)' = {}
      BY <3>1, EmptySeq DEF Under
    <3> QED
      BY <1>conn, <3>1, <3>2 DEF ConnInv, ConnList, OneConnection, ConnOpened, ConnAliases, ConnUsed
  <2>4. WhereInv'
    <3>1. /\ UNCHANGED <<alias, host, opened>>
          /\ where' = where \/ where' = where \cup {connections[current].host}
      BY <1>11 DEF OtherException, RunByHost, GiveUp
    <3>2. connections[current].host \in opened[alias] /\ host \in opened[alias]
      BY <1>conn, <1>11 DEF ConnInv, ConnOpened, ConnUsed, Under, OtherException, AtAttempt
    <3> QED
      BY <1>where, <3>1, <3>2 DEF WhereInv
  <2>5. CountInv'
    BY <1>0, <1>11 DEF SshInv, OtherException, AtAttempt, RunByHost, GiveUp, CountInv
  <2>6. LossInv'
    BY <1>0, <1>11 DEF SshInv, OtherException, AtAttempt, RunByHost, GiveUp, LossInv, CountInv
  <2>7. SshRcInv'
    BY <1>0, <1>11 DEF SshInv, OtherException, AtAttempt, RunByHost, GiveUp, SshRcInv, SshData, CountInv
  <2>8. ZeroMeansRun'
    BY <1>0, <1>11 DEF SshInv, OtherException, AtAttempt, RunByHost, GiveUp, ZeroMeansRun, SshRcInv
  <2>9. ErrorsReported'
    BY <1>0, <1>11 DEF SshInv, OtherException, AtAttempt, RunByHost, GiveUp, ErrorsReported, SshRcInv
  <2> QED
    BY <2>1, <2>2, <2>3, <2>4, <2>5, <2>6, <2>7, <2>8, <2>9 DEF SshInv
<1>12. CASE Finish
  <2>1. SshFlags'
    BY <1>0, <1>12 DEF SshInv, Finish, SshFlags
  <2>2. SshData'
    BY <1>0, <1>12 DEF SshInv, Finish, SshData
  <2>3. ConnInv'
    <3>1. UNCHANGED ssh /\ ~Busy'
      BY <1>0, <1>12 DEF Finish
    <3> QED
      BY <1>conn, <3>1, ConnKept
  <2>4. WhereInv'
    BY <1>0, <1>12 DEF SshInv, Finish, WhereInv
  <2>5. CountInv'
    BY <1>0, <1>12 DEF SshInv, Finish, CountInv
  <2>6. LossInv'
    BY <1>0, <1>12 DEF SshInv, Finish, LossInv, CountInv
  <2>7. SshRcInv'
    BY <1>0, <1>12 DEF SshInv, Finish, SshRcInv, SshData, CountInv
  <2>8. ZeroMeansRun'
    <3>1. pc # "idle" /\ UNCHANGED <<rc, completed, executed>>
      BY <1>12 DEF Finish
    <3>2. rc = 0 => completed = TRUE /\ executed >= 1
      BY <1>rc, <1>count, <3>1 DEF SshRcInv, CountInv
    <3> QED
      BY <3>1, <3>2 DEF ZeroMeansRun
  <2>9. ErrorsReported'
    BY <1>0, <1>12 DEF SshInv, Finish, ErrorsReported, SshRcInv
  <2> QED
    BY <2>1, <2>2, <2>3, <2>4, <2>5, <2>6, <2>7, <2>8, <2>9 DEF SshInv
<1>13. CASE UNCHANGED sshVars
  <2>1. SshFlags'
    BY <1>0, <1>13 DEF SshInv, sshVars, SshFlags
  <2>2. SshData'
    BY <1>0, <1>13 DEF SshInv, sshVars, SshData
  <2>3. ConnInv'
    BY <1>conn, <1>13, ConnKept DEF sshVars
  <2>4. WhereInv'
    BY <1>0, <1>13 DEF SshInv, sshVars, WhereInv
  <2>5. CountInv'
    BY <1>0, <1>13 DEF SshInv, sshVars, CountInv
  <2>6. LossInv'
    BY <1>0, <1>13 DEF SshInv, sshVars, LossInv, CountInv
  <2>7. SshRcInv'
    BY <1>0, <1>13 DEF SshInv, sshVars, SshRcInv, SshData, CountInv
  <2>8. ZeroMeansRun'
    BY <1>0, <1>13 DEF SshInv, sshVars, ZeroMeansRun, SshRcInv
  <2>9. ErrorsReported'
    BY <1>0, <1>13 DEF SshInv, sshVars, ErrorsReported, SshRcInv
  <2> QED
    BY <2>1, <2>2, <2>3, <2>4, <2>5, <2>6, <2>7, <2>8, <2>9 DEF SshInv
<1> QED
  BY <1>0, <1>1, <1>2, <1>3, <1>4, <1>5, <1>6, <1>7, <1>8, <1>9, <1>10, <1>11, <1>12, <1>13
     DEF SshNext, bmc_execute_command, os_execute_command, xcat_execute_command, device_write,
         Wrapped, execute_ssh_command, Attempt

\* Over all calls to any hosts there is at most one connection to a host under an
\* alias, and a command is run by a host to which a connection was opened with
\* its alias: by the one it is meant for, unless the calls gave the same alias to
\* several hosts.
THEOREM ConnectionsAreRight == SshSpec => []ConnectionsRight
<1>1. SshInv => SshTypeOK
  <2>1. SshInv => /\ connections \in Seq(Connection) /\ current \in 0..Len(connections)
                  /\ aliases \in [Aliases -> 0..Len(connections)]
                  /\ opened \in [Aliases -> SUBSET Hosts]
                  /\ attempt \in 1..2 + 1 /\ executed \in 0..2
    BY DEF SshInv, ConnInv, ConnList, ConnOpened, ConnAliases, CountInv
  <2>2. SshInv => where \subseteq Hosts
    BY <2>1 DEF SshInv, SshData, WhereInv
  <2> QED
    BY <2>1, <2>2 DEF SshInv, SshFlags, SshData, SshTypeOK, Connection, max_exec_cmd_attempts
<1>2. SshInv => OneConnection /\ RightHost
  BY DEF SshInv, ConnInv, ConnList, ConnAliases, ConnUsed, SshData, WhereInv, RightHost, Busy
<1> QED
  BY SshInvInit, SshInvStep, <1>1, <1>2, PTL DEF SshSpec, ConnectionsRight

\* The result of a call tells what happened to its command: a zero is the
\* command's own, errors are reported as asked for, and a command is run again
\* only after a connection was lost.
THEOREM SshResultsAreRight == SshSpec => []SshResultsRight
<1>1. SshInv => RerunOnlyAfterLoss
  BY DEF SshInv, LossInv, RerunOnlyAfterLoss, SshFlags
<1>2. SshInv => ZeroMeansRun /\ ErrorsReported
  BY DEF SshInv
<1> QED
  BY SshInvInit, SshInvStep, <1>1, <1>2, PTL DEF SshSpec, SshResultsRight

=============================================================================
