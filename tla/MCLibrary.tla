------------------------------ MODULE MCLibrary -----------------------------
(***************************************************************************)
(* One instance of each library that works by itself. The libraries share  *)
(* no state: a behaviour is one of one of them, the others stay as they    *)
(* are in the beginning.                                                   *)
(***************************************************************************)
EXTENDS SshCommand, BootResults, RobotCalls, PlugInValues, KeyValues, Validation, PlugInPackages, TestFfdc

VARIABLE part      \* the library of this behaviour

libVars == <<sshVars, resVars, robotVars, valueVars, parmVars, keyVars, validVars, packVars, ffdcVars, part>>

LibInit ==
  /\ part \in {"ssh", "results", "robot", "values", "parm", "keys", "valid", "packages", "ffdc"}
  /\ SshInit /\ ResInit /\ RobotInit /\ ValuesInit /\ ParmInit /\ KeyInit /\ ValidInit /\ PackInit /\ FfdcInit
  /\ part # "ssh" => alias = "bmc" /\ host = "h1"
  /\ part # "robot" => environ.policy = "FAIL" /\ environ.tmp /\ environ.gzip /\ environ.jail = ""
                         /\ environ.install = "repository"
  /\ part # "keys" => structure = Empty("list") /\ report_list = Untouched
  /\ part # "valid" => exit_on_error = FALSE

\* A step of the library of this behaviour.
LibNext ==
  /\ UNCHANGED part
  /\ IF part = "ssh"      THEN SshNext    ELSE UNCHANGED sshVars
  /\ IF part = "results"  THEN ResNext    ELSE UNCHANGED resVars
  /\ IF part = "robot"    THEN RobotNext  ELSE UNCHANGED robotVars
  /\ IF part = "values"   THEN ValuesNext ELSE UNCHANGED valueVars
  /\ IF part = "parm"     THEN ParmNext   ELSE UNCHANGED parmVars
  /\ IF part = "keys"     THEN KeyNext    ELSE UNCHANGED keyVars
  /\ IF part = "valid"    THEN ValidNext  ELSE UNCHANGED validVars
  /\ IF part = "packages" THEN PackNext   ELSE UNCHANGED packVars
  /\ IF part = "ffdc"     THEN FfdcNext   ELSE UNCHANGED ffdcVars

LibSpec ==
  /\ LibInit /\ [][LibNext]_libVars

-----------------------------------------------------------------------------
MCStateNames(b, key) ==
  IF key = "start" THEN {"chassis"} ELSE {"chassis", "os_ping", "os_login"}

MCSavedValues ==
  {[type |-> "int", text |-> "number"], [type |-> "bool", text |-> "True"],
   [type |-> "str", text |-> "blank"]}

\* Stop and FFDC may be chosen by the user, Auto_reboot is integrated, and
\* Odd does not support the machine.
Packages == {"Stop", "FFDC", "Auto_reboot", "Odd"}

PackageLists == {<<>>, <<"Stop", "FFDC">>, <<"FFDC", "Auto_reboot", "FFDC">>, <<"Stop", "Odd">>}

MCDefaults == {[type |-> "int", text |-> "number"], [type |-> "bool", text |-> "False"]}

MCTextValues == {"", "a", "b"}
MCLists == {{}, {"a"}, {"", "b"}}
MCItems == {<<>>, <<"a">>, <<"b", "a">>}
MCDicts == {<<>>} \cup [{"k"} -> MCTextValues] \cup [{"k", "l"} -> {"a"}]
MCListsByKey == {<<>>} \cup [{"k"} -> {{"a"}, {"b"}}] \cup [{"l"} -> {{"a"}}]
MCNumbers == -1..2

=============================================================================
