------------------------------- MODULE MCCalls ------------------------------
(***************************************************************************)
(* One instance of each library that works by itself: calls that fail,     *)
(* hang or find something else each time, with time-outs and retries, and  *)
(* the fairness of each module. The libraries share no state: a behaviour  *)
(* is one of one of them, the others stay as they are in the beginning.    *)
(***************************************************************************)
EXTENDS Redfish, Jobs, FuncTimer, ShellCmd, Events

VARIABLE part      \* the library of this behaviour

libVars == <<redfishVars, jobVars, timerVars, shellVars, eventVars, part>>

LibInit ==
  /\ part \in {"redfish", "jobs", "timer", "shell", "events"}
  /\ RedfishInit /\ JobsInit /\ TimerInit /\ ShellInit /\ EventsInit
  /\ part # "redfish" => caller = "client" /\ ~mtls
  /\ part # "events" => listener = "monitor" /\ monitor_type = "logging"

\* A step of the library of this behaviour.
LibNext ==
  /\ UNCHANGED part
  /\ IF part = "redfish" THEN RedfishNext ELSE UNCHANGED redfishVars
  /\ IF part = "jobs"    THEN JobsNext    ELSE UNCHANGED jobVars
  /\ IF part = "timer"   THEN TimerNext   ELSE UNCHANGED timerVars
  /\ IF part = "shell"   THEN ShellNext   ELSE UNCHANGED shellVars
  /\ IF part = "events"  THEN EventsNext  ELSE UNCHANGED eventVars

\* No library's fair steps are enabled in its initial state, so the fairness of
\* one asks nothing of the behaviours of another.
LibSpec ==
  /\ LibInit /\ [][LibNext]_libVars
  /\ RedfishFairness /\ JobsFairness /\ TimerFairness /\ ShellFairness /\ EventsFairness

-----------------------------------------------------------------------------
\* The resources: a small tree with a cycle, a resource that two others link to
\* under both spellings, and one that is left out.
MCNested(n) == CASE n = "v1"      -> {"v1", "chassis", "schemas"}
                 [] n = "fan"     -> {"chassis", "log"}
                 [] n = "schemas" -> {"hidden"}
                 [] OTHER -> {}

MCMembers(n) == IF n = "chassis" THEN {<<"fan", TRUE>>, <<"log", TRUE>>} ELSE {}

MCUnwalked(c) == {"schemas"} \cup (IF c = "client" THEN {} ELSE {"log"})

\* Each call that has a limit comes to its end: of time, of tries, or of
\* resources to ask for.
LimitedCallsEnd == CallsEnd /\ JobsReturn /\ LimitedRunEnds /\ LimitedCallEnds

=============================================================================
