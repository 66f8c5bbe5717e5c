----------------------------- MODULE MCProcesses ----------------------------
(***************************************************************************)
(* One instance of each library that works by itself and waits for         *)
(* processes, machines or reads, with the fairness of its module. The      *)
(* libraries share no state: a behaviour is one of one of them, the        *)
(* others stay as they are in the beginning.                               *)
(***************************************************************************)
EXTENDS PtyProcess, MachineState, ProgramExit, CodeUpdate

VARIABLE part      \* the library of this behaviour

libVars == <<ptyVars, stateVars, exitVars, updateVars, part>>

LibInit ==
  /\ part \in {"pty", "state", "exit", "update"}
  /\ PtyInit /\ StateInit /\ ExitInit /\ UpdateInit
  /\ part # "update" => \A i \in Images : images[i].version = 1

\* A step of the library of this behaviour.
LibNext ==
  /\ UNCHANGED part
  /\ IF part = "pty"    THEN PtyNext    ELSE UNCHANGED ptyVars
  /\ IF part = "state"  THEN StateNext  ELSE UNCHANGED stateVars
  /\ IF part = "exit"   THEN ExitNext   ELSE UNCHANGED exitVars
  /\ IF part = "update" THEN UpdateNext ELSE UNCHANGED updateVars

\* No library's fair steps are enabled in its initial state, so the fairness of
\* one asks nothing of the behaviours of another.
LibSpec ==
  /\ LibInit /\ [][LibNext]_libVars
  /\ PtyFairness /\ StateFairness /\ ExitFairness /\ UpdateFairness

-----------------------------------------------------------------------------
\* The machine is up, its system has not started, or it is off.  By REST some
\* states may be absent.
MCReports ==
  [redfish \in BOOLEAN |->
     LET bmc == IF redfish THEN "Enabled" ELSE "Ready"
         on  == IF redfish THEN "Enabled" ELSE "Running"
         all == {[chassis |-> s[1], host |-> s[2], bmc |-> bmc, boot_progress |-> s[3],
                  operating_system |-> s[4]] :
                   s \in {<<"On", on, IF redfish THEN "OSRunning" ELSE "OSStart", "BootComplete">>,
                          <<"On", on, "MemoryInit", "Inactive">>,
                          <<"Off", "Off", "Unspecified", "Inactive">>}}
         absent == IF redfish THEN {{"operating_system"}}
                   ELSE {{}, {"boot_progress"}, {"operating_system", "chassis"}}
     IN  {[s \in DOMAIN r \ a |-> r[s]] : r \in all, a \in absent}]

\* However children, reads and processes behave that a library has no hold
\* over, each call comes to its end, or to one of the two waits without a
\* timeout (child.wait, wait_procs) for a process that does not exit; and to
\* its end if that process does.
WaitsEnd == PtyCallsEnd /\ CommCycleEnds /\ ProgramEnds /\ ChecksEnd

=============================================================================
