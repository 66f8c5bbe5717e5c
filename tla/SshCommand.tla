----------------------------- MODULE SshCommand -----------------------------
(***************************************************************************)
(* execute_ssh_command of lib/gen_robot_ssh.py, and the functions of       *)
(* lib/bmc_ssh_utils.py which call it: a command is run on one of several  *)
(* hosts over connections which are kept from call to call, with logins    *)
(* and retries.  SSHLibrary and the hosts are external: they are modelled  *)
(* by the outcomes execute_ssh_command tells apart, and by SSHLibrary's    *)
(* list of connections, in which an alias stands for the one that was      *)
(* registered under it last.                                               *)
(*                                                                         *)
(* Data.  An alias is named for the function that uses it, "bmc" stands    *)
(* for "bmc_connection"; a host is one with its port.  Every caller in the *)
(* repository gives an alias and may give a host of its own.               *)
(***************************************************************************)
EXTENDS Integers, Sequences, FiniteSets

CONSTANTS
  Hosts,               \* the hosts that may be given
  Aliases,             \* the functions that are called
  TestModes,           \* the values of test_mode
  max_login_attempts,
  MaxSshCalls,            \* bound: the ssh_calls made
  NoRc                 \* the return code before it is set

max_exec_cmd_attempts == 2

ASSUME SshAssumption ==
  /\ max_login_attempts \in Nat \ {0} /\ MaxSshCalls \in Nat
  /\ TestModes \subseteq BOOLEAN
  /\ Aliases \subseteq {"bmc", "os", "xcat", "device"} /\ NoRc \notin {0, 1}

VARIABLES
  pc,
  ssh_calls,          \* number of ssh_calls so far
  alias, host, fork, ignore_err, test_mode,  \* the parameters of the call
  connections,    \* SSHLibrary's list of [host, alias, login: whether logged in]
  aliases,        \* its dictionary: the place an alias stands for, or 0
  current,        \* the current connection: its place in the list, or 0
  attempt,        \* exec_cmd_attempt_num, max + 1 when the loop is over
  login_attempt,  \* login_attempt_num
  rc,
  outcome,        \* "none", "returned", "raised" or "refused" (by the wrapper)
  executed,       \* how often a host ran the command of this call
  where,          \* the hosts that did
  completed,      \* whether the result of a run was received
  lost,           \* whether a connection was lost in this call
  trouble,        \* whether SSHLibrary raised anything in this call
  opened          \* history: the hosts a connection was opened to with each alias

parms == <<alias, host, fork, ignore_err, test_mode>>
ssh   == <<connections, aliases, current, opened>>
ghost == <<executed, where, completed, lost, trouble>>
sshVars  == <<pc, ssh_calls, parms, ssh, attempt, login_attempt, rc, outcome, ghost>>

LoginPcs == {"first_login", "login_again", "login_reopened"}

SshInit ==
  /\ pc = "idle" /\ ssh_calls = 0
  /\ alias \in Aliases /\ host \in Hosts /\ opened = [a \in Aliases |-> {}]
  /\ fork = FALSE /\ ignore_err = TRUE /\ test_mode = FALSE
  /\ connections = <<>> /\ aliases = [a \in Aliases |-> 0] /\ current = 0
  /\ attempt = 1 /\ login_attempt = 1 /\ rc = NoRc /\ outcome = "none"
  /\ executed = 0 /\ where = {} /\ completed = FALSE /\ lost = FALSE /\ trouble = FALSE

-----------------------------------------------------------------------------
(* The call *)

\* The connections find_connection may return: host and alias are among what is
\* searched for.
Under(a) == {i \in 1..Len(connections) : connections[i].alias = a}
Matching(a, h) == {i \in Under(a) : connections[i].host = h}

SshCalled(a, h) ==
  /\ pc = "idle" /\ ssh_calls < MaxSshCalls /\ ssh_calls' = ssh_calls + 1
  /\ alias' = a /\ host' = h
  /\ fork' \in (IF a = "device" THEN {FALSE} ELSE BOOLEAN)
  /\ ignore_err' \in (IF a = "device" THEN {TRUE} ELSE BOOLEAN)
  /\ attempt' = 1 /\ login_attempt' = 1
  /\ executed' = 0 /\ where' = {} /\ completed' = FALSE /\ lost' = FALSE /\ trouble' = FALSE

CallInTestMode(a, h) ==
  /\ TRUE \in TestModes /\ test_mode' = TRUE
  /\ SshCalled(a, h) /\ outcome' = "returned" /\ rc' = 0
  /\ UNCHANGED <<pc, ssh>>

\* A connection is found, and that for which its alias stands becomes current.
SwitchConnection(a, h) ==
  /\ FALSE \in TestModes /\ test_mode' = FALSE
  /\ Matching(a, h) # {} /\ SshCalled(a, h) /\ outcome' = "none" /\ rc' = NoRc
  /\ current' = aliases[a]
  /\ pc' = "attempt"
  /\ UNCHANGED <<connections, aliases, opened>>

NewConnection(a, h) == [host |-> h, alias |-> a, login |-> FALSE]

OpenConnection(a, h) ==
  /\ FALSE \in TestModes /\ test_mode' = FALSE
  /\ Matching(a, h) = {} /\ SshCalled(a, h) /\ outcome' = "none" /\ rc' = NoRc
  /\ connections' = Append(connections, NewConnection(a, h))
  /\ current' = Len(connections) + 1 /\ aliases' = [aliases EXCEPT ![a] = current']
  /\ opened' = [opened EXCEPT ![a] = @ \cup {h}]
  /\ pc' = "first_login"

execute_ssh_command(a, h) ==
  CallInTestMode(a, h) \/ SwitchConnection(a, h) \/ OpenConnection(a, h)

\* A host, user, password or port that is not set: no connection is made, and
\* the return code is 1 even if errors are not to be ignored.
NotConfigured(a, h) ==
  /\ SshCalled(a, h) /\ outcome' = "refused" /\ rc' = 1
  /\ test_mode' \in TestModes
  /\ UNCHANGED <<pc, ssh>>

Wrapped(a) ==
  a \in Aliases /\ \E h \in Hosts : NotConfigured(a, h) \/ execute_ssh_command(a, h)

bmc_execute_command  == Wrapped("bmc")
os_execute_command   == Wrapped("os")
xcat_execute_command == Wrapped("xcat")
device_write         == Wrapped("device")

-----------------------------------------------------------------------------
(* login_ssh *)

\* The loop's next round, or its end.
NextAttempt ==
  /\ attempt' = attempt + 1
  /\ pc' = IF attempt < max_exec_cmd_attempts THEN "attempt" ELSE "finish"

LoginWorks ==
  /\ pc \in LoginPcs
  /\ connections' = [connections EXCEPT ![current].login = TRUE]
  /\ \/ pc = "first_login" /\ pc' = "attempt" /\ UNCHANGED attempt
     \/ pc # "first_login" /\ NextAttempt
  /\ UNCHANGED <<ssh_calls, parms, aliases, current, opened, login_attempt, rc, outcome, ghost>>

\* "No existing session": login is tried again, without any wait.
LoginRetried ==
  /\ pc \in LoginPcs /\ login_attempt < max_login_attempts
  /\ login_attempt' = login_attempt + 1 /\ trouble' = TRUE
  /\ UNCHANGED <<pc, ssh_calls, parms, ssh, attempt, rc, outcome, executed, where, completed, lost>>

\* Mutant: the return code says nothing of the failed login.
Bug_LoginFails ==
  /\ pc \in LoginPcs /\ trouble' = TRUE
  /\ rc' = 0 /\ pc' = "finish" /\ UNCHANGED outcome
  /\ UNCHANGED <<ssh_calls, parms, ssh, attempt, login_attempt, executed, where, completed, lost>>

\* Any other exception, or one too many: it is the result of the command, unless
\* the login was to the connection which replaces a lost one.
LoginFails ==
  /\ pc \in LoginPcs /\ trouble' = TRUE
  /\ \/ /\ pc # "login_reopened"
        /\ rc' = 1 /\ pc' = "finish" /\ UNCHANGED outcome
     \/ /\ pc = "login_reopened"
        /\ outcome' = "raised" /\ pc' = "idle" /\ UNCHANGED rc
  /\ UNCHANGED <<ssh_calls, parms, ssh, attempt, login_attempt, executed, where, completed, lost>>

-----------------------------------------------------------------------------
(* The attempts *)

LoggedIn == connections[current].login

\* The host of the current connection runs the command n times, 0 or 1.
RunByHost(n) ==
  /\ executed' = executed + n
  /\ where' = where \cup (IF n = 1 THEN {connections[current].host} ELSE {})

AtAttempt == pc = "attempt"

\* The command is run, or started, and its result received.
Executed ==
  /\ AtAttempt /\ LoggedIn /\ RunByHost(1)
  /\ completed' = TRUE
  /\ IF fork THEN UNCHANGED rc ELSE rc' \in {0, 1}
  /\ pc' = "finish"
  /\ UNCHANGED <<ssh_calls, parms, ssh, attempt, login_attempt, outcome, lost, trouble>>

\* "Connection not open": nothing was run, and the login is made up for.
NotOpen ==
  /\ AtAttempt
  /\ rc' = 1 /\ login_attempt' = 1 /\ trouble' = TRUE
  /\ pc' = "login_again"
  /\ UNCHANGED <<ssh_calls, parms, ssh, attempt, outcome, executed, where, completed, lost>>

\* Mutant: the lost connection is left in the list.
Bug_Reopen ==
  /\ connections' = Append(connections, NewConnection(alias, host))
  /\ current' = Len(connections) + 1 /\ aliases' = [aliases EXCEPT ![alias] = current']
  /\ UNCHANGED opened

\* close_all_connections, which removes those to other hosts too, then open.
Reopen ==
  /\ connections' = <<NewConnection(alias, host)>> /\ current' = 1
  /\ aliases' = [a \in Aliases |-> IF a = alias THEN 1 ELSE 0] /\ UNCHANGED opened

\* "SSH session not active", "Connection reset by peer" or "Timeout opening
\* channel": the command may have been run, or not.
ConnectionLost ==
  /\ AtAttempt /\ LoggedIn /\ \E n \in 0..1 : RunByHost(n)
  /\ rc' = 1 /\ lost' = TRUE /\ trouble' = TRUE
  /\ Reopen /\ login_attempt' = 1
  /\ pc' = "login_reopened"
  /\ UNCHANGED <<ssh_calls, parms, attempt, outcome, completed>>

\* The connections are given up and the exception is passed on.
GiveUp ==
  /\ rc' = 1 /\ outcome' = "raised" /\ pc' = "idle"
  /\ connections' = <<>> /\ aliases' = [a \in Aliases |-> 0] /\ current' = 0
  /\ UNCHANGED <<opened, ssh_calls, parms, attempt, login_attempt, completed, lost>>

\* Any other exception, the time-out of func_timer included.
OtherException ==
  /\ AtAttempt /\ \E n \in (IF LoggedIn THEN 0..1 ELSE {0}) : RunByHost(n)
  /\ trouble' = TRUE
  /\ GiveUp

Attempt == Executed \/ NotOpen \/ ConnectionLost \/ OtherException

\* The result, or an exception if there is an error that is not ignored.
Finish ==
  /\ pc = "finish" /\ pc' = "idle"
  /\ outcome' = IF ~fork /\ ~ignore_err /\ rc # 0 THEN "raised" ELSE "returned"
  /\ UNCHANGED <<ssh_calls, parms, ssh, attempt, login_attempt, rc, ghost>>

SshNext ==
  \/ bmc_execute_command \/ os_execute_command \/ xcat_execute_command \/ device_write
  \/ LoginWorks \/ LoginRetried \/ LoginFails
  \/ Attempt \/ Finish

SshSpec == SshInit /\ [][SshNext]_sshVars

-----------------------------------------------------------------------------
\* The type of every variable.
SshTypeOK ==
  /\ pc \in LoginPcs \cup {"idle", "attempt", "finish"}
  /\ ssh_calls \in 0..MaxSshCalls
  /\ alias \in Aliases /\ host \in Hosts /\ opened \in [Aliases -> SUBSET Hosts]
  /\ fork \in BOOLEAN /\ ignore_err \in BOOLEAN /\ test_mode \in BOOLEAN
  /\ connections \in Seq([host : Hosts, alias : Aliases, login : BOOLEAN])
  /\ aliases \in [Aliases -> 0..Len(connections)]
  /\ current \in 0..Len(connections)
  /\ attempt \in 1..max_exec_cmd_attempts + 1
  /\ login_attempt \in 1..max_login_attempts
  /\ rc \in {NoRc, 0, 1}
  /\ outcome \in {"none", "returned", "raised", "refused"}
  /\ executed \in 0..max_exec_cmd_attempts /\ where \subseteq Hosts
  /\ completed \in BOOLEAN /\ lost \in BOOLEAN /\ trouble \in BOOLEAN

\* There is at most one connection to a host under an alias, over all calls,
\* logins that fail and connections that are lost ("there is a concern about
\* over-consumption of resources").
OneConnection ==
  \A i, j \in 1..Len(connections) :
    connections[i].host = connections[j].host /\ connections[i].alias = connections[j].alias => i = j

\* A command is run by the host it is meant for, whichever connections the calls
\* before it used, as long as a connection to no other host was opened with the
\* same alias.  Where hosts share an alias it may be run by another of them (the
\* switch goes by the alias, although the right connection was found), namely by
\* the one whose connection is the newest.
RightHost ==
  /\ where \subseteq opened[alias] /\ (where # {} => host \in opened[alias])
  /\ pc \in LoginPcs \cup {"attempt"} => current \in Under(alias) /\ \A i \in Under(alias) : i <= current

\* A command is run a second time only if a connection was lost: a command that
\* ended, with whatever return code, is not repeated.
RerunOnlyAfterLoss == executed > 1 => lost

\* A return code of zero is the command's: it was run, and its result received,
\* in this very call.
ZeroMeansRun ==
  pc = "idle" /\ ~test_mode /\ outcome = "returned" /\ rc = 0 => completed /\ executed >= 1

\* A caller who does not ignore errors gets a result only if the command was run
\* and returned zero; one who does gets an exception only if SSHLibrary raised
\* one.
ErrorsReported ==
  pc = "idle" /\ ~fork /\ ~test_mode =>
    /\ outcome = "returned" /\ ~ignore_err => completed /\ rc = 0
    /\ outcome = "raised" /\ ignore_err => trouble

\* Connections do not pile up, and are mistaken for one another only where hosts
\* share an alias, over calls to several hosts, logins that fail and connections
\* that are lost.
ConnectionsRight == SshTypeOK /\ OneConnection /\ RightHost

\* The result of a call tells what happened to its command, with the repetition
\* after a lost connection.
SshResultsRight == RerunOnlyAfterLoss /\ ZeroMeansRun /\ ErrorsReported

=============================================================================
