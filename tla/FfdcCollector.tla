---------------------------- MODULE FfdcCollector ---------------------------
(***************************************************************************)
(* One run of the log collector: ffdc/collect_ffdc.py,                     *)
(* ffdc/ffdc_collector.py and the clients of ffdc/lib.  The target, the    *)
(* tools it calls (ping, redfishtool, ipmitool), paramiko and telnetlib    *)
(* are external: they are modelled by the outcomes the collector tells     *)
(* apart.                                                                  *)
(*                                                                         *)
(* A configuration is the sequence of the groups of the target's type:     *)
(* [PROTOCOL, COMMANDS, FILES], where either list may be absent.  A        *)
(* command is                                                              *)
(*   [kind |-> "text",   arg]           a string                           *)
(*   [kind |-> "timed",  arg]           {string: timeout}                  *)
(*   [kind |-> "plugin", block]         a plug-in block, see FfdcPlugins   *)
(* and a file name is a string, "None" for no file.                        *)
(***************************************************************************)
EXTENDS FfdcPlugins, FiniteSets

CONSTANTS
  Configs,       \* the configurations that are tried
  Remotes,       \* the values of -rp: "ALL" or a protocol
  WildFiles,     \* the names in FILES that hold a wild card
  Names,         \* the names of plug-in variables
  Outcomes       \* the types of what a plug-in function returns or raises

Protocols == {"SSH", "SCP", "TELNET", "REDFISH", "IPMI", "SHELL"}

\* What a configuration looks like.
IsList(s) == s \in Seq(Range(s))
IsBlock(b) ==
  /\ b.declares \in Seq(Names) /\ IsList(b.args) /\ b.blank_args \in BOOLEAN
  /\ \A k \in DOMAIN b.args : b.args[k] = Text(b.args[k].words) /\ IsList(b.args[k].words)
IsCommand(c) ==
  /\ c.kind \in {"text", "timed", "plugin"}
  /\ c.kind = "plugin" => IsBlock(c.block)
  /\ c.kind # "plugin" => c = [kind |-> c.kind, arg |-> c.arg]
IsGroup(g) ==
  /\ g.PROTOCOL \in Protocols
  /\ "COMMANDS" \in DOMAIN g =>
       IsList(g.COMMANDS) /\ \A k \in DOMAIN g.COMMANDS : IsCommand(g.COMMANDS[k])
  /\ "FILES" \in DOMAIN g => IsList(g.FILES)

ASSUME FfdcAssumption ==
  /\ Remotes \subseteq Protocols \cup {"ALL"}
  /\ Outcomes \subseteq {"str", "empty", "list", "numbers", "tuple", "int", "zero", "dict",
                         "empty_dict", "none", "None_text", "raised", "import_error"}
  /\ \A c \in Configs : IsList(c) /\ \A k \in DOMAIN c : IsGroup(c[k])

VARIABLES
  pc,
  config, remote_protocol,
  checked,        \* how many of check_protocol_list are verified
  working,        \* tmp_list, then working_protocol_list
  ssh,            \* ssh_remoteclient: [session, scp]; session 0: not connected
  telnet,         \* telnet_remoteclient: its session, or 0
  sessions,       \* the sessions open at the target
  logins,         \* the ssh logins so far
  group, command, \* the place in the configuration
  commands,       \* list_of_commands of the group
  ps,             \* the plug-in globals
  saved,          \* what was written: [group, command, file, prefix]
  outcome,        \* "none", "returned", "exited" or "raised"
  ran,            \* history: the plug-in blocks that were run, each with its
                  \* arguments, the names on the list and the response, and
                  \* failed before it
  failed          \* history: the plug-in blocks that met an error

place   == <<group, command, commands>>
clients == <<ssh, telnet, sessions, logins>>
history == <<ran, failed>>
vars    == <<pc, config, remote_protocol, checked, working, clients, place, ps, saved, outcome,
             history>>

NotConnected == [session |-> 0, scp |-> FALSE]

Init ==
  /\ pc = "cli" /\ config \in Configs /\ remote_protocol \in Remotes
  /\ checked = 0 /\ working = {} /\ ssh = NotConnected /\ telnet = 0
  /\ sessions = {} /\ logins = 0 /\ group = 1 /\ command = 1 /\ commands = <<>>
  /\ ps = NoPlugins /\ saved = {} /\ outcome = "none"
  /\ ran = <<>> /\ failed = {}

End(how) == pc' = "end" /\ outcome' = how

-----------------------------------------------------------------------------
(* Start: the options, the constructor and the checks of the protocols *)

Step(from, to) ==
  /\ pc = from /\ pc' = to
  /\ UNCHANGED <<config, remote_protocol, checked, working, clients, place, ps, saved,
                 outcome, history>>

Exit(from, how) ==
  /\ pc = from /\ End(how)
  /\ UNCHANGED <<config, remote_protocol, checked, working, clients, place, ps, saved,
                 history>>

\* Without its options the program ends before it does anything.
input_options_ok == Step("cli", "store") \/ Exit("cli", "returned")

\* The constructor: the directory of the run is made and the log opened in
\* it, the tools are looked at, the configuration is read and the
\* environment loaded; each step may end the program, and a configuration that
\* cannot be opened raises.
validate_local_store == Step("store", "tools") \/ Exit("store", "exited")
verify_script_env == Step("tools", "read_config") \/ Exit("tools", "exited")
ReadConfig ==
  Step("read_config", "env") \/ Exit("read_config", "exited") \/ Exit("read_config", "raised")
load_env == Step("env", "ping") \/ Exit("env", "exited")

\* A target that does not answer ends the program.
target_is_pingable ==
  /\ pc = "ping"
  /\ \/ pc' = "verify" /\ working' = {"SHELL"} /\ UNCHANGED outcome
     \/ End("exited") /\ UNCHANGED working
  /\ UNCHANGED <<config, remote_protocol, checked, clients, place, ps, saved, history>>

\* check_protocol_list: each protocol of the groups once, in their order.
ProtocolsOf(groups) ==
  LET Add(list, grp) == IF grp.PROTOCOL \in Range(list) THEN list ELSE Append(list, grp.PROTOCOL)
  IN FoldLeft(Add, <<>>, groups)
CheckProtocolList == ProtocolsOf(config)

Verifying == pc = "verify" /\ checked < Len(CheckProtocolList)
Protocol  == CheckProtocolList[checked + 1]
Verified(more) ==
  /\ checked' = checked + 1 /\ working' = working \cup more
  /\ UNCHANGED <<pc, config, remote_protocol, place, ps, saved, outcome, history>>

NotRequested == /\ Verifying /\ remote_protocol \notin {"ALL", Protocol}
                /\ Verified({}) /\ UNCHANGED clients

Bug_TriesSsh == Protocol \in {"SSH", "SCP"}

\* SCP is not tried when SSH was; SSH is tried whatever SCP did.
TriesSsh == Protocol = "SSH" \/ (Protocol = "SCP" /\ "SCP" \notin working)

\* Only what the user asked for is added.
SshGives == IF remote_protocol = "ALL" THEN {"SSH", "SCP"} ELSE {remote_protocol}

\* The clients.  A login opens a session or is answered with FALSE.
ssh_remoteclient_login(session) ==
  /\ session \in {0, logins'}
  /\ sessions' = IF session = 0 THEN sessions ELSE sessions \cup {<<"ssh", session>>}

scp_connection(session) == IF session = 0 THEN {FALSE} ELSE BOOLEAN
ssh_remoteclient_disconnect(open) == open \ {<<"ssh", ssh.session>>}
\* A telnet login that is refused leaves its connection open.
tn_remoteclient_login(session, ok) ==
  /\ session \in {0, 1}
  /\ ok => session = 1
  /\ sessions' = IF session = 0 THEN sessions ELSE sessions \cup {<<"telnet", 1>>}

tn_remoteclient_disconnect(open) == open \ {<<"telnet", telnet>>}

\* A new client replaces the one there was.  Without an scp connection the
\* collection goes on.
ssh_to_target_system ==
  /\ Verifying /\ remote_protocol \in {"ALL", Protocol} /\ TriesSsh
  /\ logins' = logins + 1 /\ UNCHANGED telnet
  /\ \E session \in {0, logins'} : \E scp \in scp_connection(session) :
       /\ ssh_remoteclient_login(session)
       /\ ssh' = [session |-> session, scp |-> scp]
       /\ Verified(IF session = 0 THEN {} ELSE SshGives)

ScpKnown == /\ Verifying /\ remote_protocol \in {"ALL", Protocol} /\ Protocol = "SCP"
            /\ ~TriesSsh /\ Verified({}) /\ UNCHANGED clients

telnet_to_target_system ==
  /\ Verifying /\ remote_protocol \in {"ALL", Protocol} /\ Protocol = "TELNET"
  /\ UNCHANGED <<ssh, logins>>
  /\ \E session \in {0, 1} : \E ok \in BOOLEAN :
       /\ tn_remoteclient_login(session, ok) /\ telnet' = session
       /\ Verified(IF ok THEN {"TELNET"} ELSE {})

\* The tool printed something.
verify_redfish ==
  /\ Verifying /\ remote_protocol \in {"ALL", Protocol} /\ Protocol = "REDFISH"
  /\ \E more \in {{}, {"REDFISH"}} : Verified(more)
  /\ UNCHANGED clients

verify_ipmi ==
  /\ Verifying /\ remote_protocol \in {"ALL", Protocol} /\ Protocol = "IPMI"
  /\ \E more \in {{}, {"IPMI"}} : Verified(more)
  /\ UNCHANGED clients

\* SHELL needs no check.
verify_shell ==
  /\ Verifying /\ remote_protocol \in {"ALL", Protocol} /\ Protocol = "SHELL"
  /\ Verified({}) /\ UNCHANGED clients

collect_ffdc ==
  /\ pc = "verify" /\ checked = Len(CheckProtocolList)
  /\ \/ /\ remote_protocol \in working \cup {"ALL"}
        /\ pc' = "group" /\ UNCHANGED outcome
     \/ remote_protocol \notin working \cup {"ALL"} /\ End("exited")
  /\ UNCHANGED <<config, remote_protocol, checked, working, clients, place, ps, saved,
                 history>>

-----------------------------------------------------------------------------
(* The groups *)

Group == config[group]
FileList == IF "FILES" \in DOMAIN Group THEN Group.FILES ELSE <<>>
CommandList == IF "COMMANDS" \in DOMAIN Group THEN Group.COMMANDS ELSE <<>>

\* The names known when the group starts are replaced in the commands that
\* are strings.
get_command_list ==
  [k \in 1..Len(CommandList) |->
     IF CommandList[k].kind = "text" THEN [CommandList[k] EXCEPT !.arg = Updated(ps.dict, @)]
                                     ELSE CommandList[k]]

\* Every group whose protocol works is run, whether it was asked for or not.
generate_ffdc ==
  /\ pc = "group" /\ group <= Len(config)
  /\ command' = 1
  /\ \/ /\ Group.PROTOCOL \notin working
        /\ group' = group + 1 /\ UNCHANGED <<pc, commands>>
     \/ /\ Group.PROTOCOL = "SCP" /\ "SCP" \in working /\ ~ssh.scp
        /\ group' = group + 1 /\ UNCHANGED <<pc, commands>>
     \/ /\ Group.PROTOCOL \in working
        /\ Group.PROTOCOL = "SCP" => ssh.scp
        /\ pc' = Group.PROTOCOL /\ UNCHANGED group
        /\ commands' = IF Group.PROTOCOL = "TELNET" THEN CommandList ELSE get_command_list
  /\ UNCHANGED <<config, remote_protocol, checked, working, clients, ps, saved, outcome,
                 history>>

NextGroup == pc' = "group" /\ group' = group + 1 /\ UNCHANGED <<command, commands, outcome>>
NextCommand == command' = command + 1 /\ UNCHANGED <<pc, group, commands, outcome>>
Raises == End("raised") /\ UNCHANGED place
SkipOver == UNCHANGED <<config, remote_protocol, checked, working>>
Bug_Save(file, prefix) ==
  LET n == Cardinality({f \in saved : f.group = group}) + 1
  IN saved' = saved \cup {[group |-> group, command |-> command, prefix |-> prefix,
                           file |-> IF n <= Len(FileList) THEN FileList[n] ELSE file]}

Save(file, prefix) ==
  saved' = saved \cup {[group |-> group, command |-> command, file |-> file, prefix |-> prefix]}

Command == commands[command]
Running(protocols) == pc \in protocols /\ command <= Len(commands)

\* A file that cannot be written raises.
Written(file) == (NextCommand /\ Save(file, TRUE)) \/ (Raises /\ UNCHANGED saved)

\* A command is sent over the client's session; a client that is not
\* connected raises.  Errors of the connection are answered with no output,
\* but not all are caught.
ssh_execute_command == ssh.session # 0 /\ NextCommand
\* The exit code and the output are not used.
ssh_execute_ffdc_commands ==
  /\ Running({"SSH"}) /\ SkipOver
  /\ ssh_execute_command \/ Raises
  /\ UNCHANGED <<clients, ps, saved, history>>

\* The files of the group are fetched one by one, if scp works.  A copy may
\* fail; one with a wild card may leave files that are not renamed.  Not every
\* exception is caught.
scp_ffdc ==
  LET Copied(k, prefix) == [group |-> group, command |-> k, file |-> FileList[k], prefix |-> prefix]
      wild == {k \in 1..Len(FileList) : FileList[k] \in WildFiles}
  IN
  /\ pc = "SSH" /\ command > Len(commands) /\ SkipOver
  /\ \E got \in SUBSET (1..Len(FileList)) : \E half \in SUBSET (wild \ got) :
       /\ ~ssh.scp => got = {} /\ half = {}
       /\ saved' = saved \cup {Copied(k, TRUE) : k \in got} \cup {Copied(k, FALSE) : k \in half}
  /\ NextGroup \/ (ssh.scp /\ FileList # <<>> /\ Raises)
  /\ UNCHANGED <<clients, ps, history>>

\* The output names the files, which keep their names.
group_copy ==
  /\ Running({"SCP"}) /\ SkipOver
  /\ \/ ssh_execute_command /\ (UNCHANGED saved \/ Save("as_named", FALSE))
     \/ Raises /\ (UNCHANGED saved \/ Save("as_named", FALSE))
  /\ UNCHANGED <<clients, ps, history>>

\* A lost connection is closed.
TelnetOpen == <<"telnet", telnet>> \in sessions
TelnetLost == sessions' = tn_remoteclient_disconnect(sessions)
TelnetKept == UNCHANGED sessions

\* The output of a command: none, or a text for the file in its place.  An
\* absent FILES is a KeyError, which is not caught.
TelnetResult ==
  \/ NextCommand /\ UNCHANGED saved
  \/ /\ "FILES" \in DOMAIN Group
     /\ Written(IF command <= Len(Group.FILES) THEN Group.FILES[command] ELSE "as_the_command")
  \/ "FILES" \notin DOMAIN Group /\ Raises /\ UNCHANGED saved

\* A connection that is lost before the command was sent raises, as does every
\* command after one that lost it; one that is lost later ends the output.
protocol_telnet ==
  /\ Running({"TELNET"}) /\ SkipOver
  /\ \/ TelnetOpen /\ (TelnetLost \/ TelnetKept) /\ TelnetResult
     \/ TelnetLost /\ Raises /\ UNCHANGED saved
  /\ UNCHANGED <<ssh, telnet, logins, ps, history>>

\* An absent COMMANDS is a KeyError too.
TelnetNoCommands ==
  /\ pc = "TELNET" /\ "COMMANDS" \notin DOMAIN Group /\ SkipOver
  /\ Raises /\ UNCHANGED <<clients, ps, saved, history>>

\* The result goes to the file in the command's place; only strings and
\* dictionaries can be written, and a block has no name to fall back to.
StoreResult(result) ==
  LET named == command <= Len(FileList)
  IN \/ ~Truth(result) /\ NextCommand /\ UNCHANGED saved
     \/ /\ Truth(result) /\ named /\ FileList[command] = "None"
        /\ NextCommand /\ UNCHANGED saved
     \/ /\ Truth(result)
        /\ named => FileList[command] # "None"
        /\ IF (~named /\ Command.kind = "plugin") \/ result.type \notin {"str", "None_text", "dict"}
           THEN Raises /\ UNCHANGED saved
           ELSE Written(IF named THEN FileList[command] ELSE "as_the_command")

\* The command as it is run; a name that only became known in this group is
\* still there.
run_tool_cmd ==
  /\ Running({"REDFISH", "IPMI", "SHELL"}) /\ SkipOver /\ Command.kind # "plugin"
  /\ IF Command.kind = "timed" \/ ~IsText(Command.arg)
     THEN Raises /\ UNCHANGED saved
     ELSE \E out \in {Empty, Text(<< <<"out", <<group, command, 1>>>> >>)} : StoreResult(out)
  /\ UNCHANGED <<clients, ps, history>>

PluginSkipped ==
  /\ Running({"REDFISH", "IPMI", "SHELL"}) /\ SkipOver /\ Command.kind = "plugin"
  /\ plugin_error_check(ps, Command.block)
  /\ NextCommand /\ UNCHANGED <<clients, ps, saved, history>>

\* What the function of this block returns: two items in a list or a tuple.
Response(type) ==
  LET item(k) == Text(<< <<"out", <<group, command, k>>>> >>)
      number  == [type |-> "int"]
  IN CASE type = "str" -> item(1)
       [] type = "empty" -> Empty
       [] type \in {"list", "tuple"} -> [type |-> type, items |-> <<item(1), item(2)>>]
       [] type = "numbers" -> [type |-> "list", items |-> <<number, number>>]
       [] OTHER -> [type |-> type]

\* The outcomes of a block: one whose arguments cannot be made out raises.
OutcomesOf(block) ==
  IF Called(block) THEN {Response(type) : type \in Outcomes} ELSE {[type |-> "raised"]}

\* The block meets an error: it raises, its function is not found, or does not
\* return what plugin_expects asks for, or a list of items that are no strings
\* comes back for names.
MeetsError(block, names, resp) ==
  \/ resp.type \in {"raised", "import_error"}
  \/ names # <<>> /\ resp.type = "list" /\ resp.items[1].type # "str"
  \/ /\ block.expects # "nothing"
     /\ resp.type \in {"none", "zero", "empty_dict"} \/ resp = Empty
  \/ /\ block.expects \notin {"nothing", "?", resp.type}
     /\ ~(block.expects = "str" /\ resp.type = "None_text")

PluginRuns ==
  /\ Running({"REDFISH", "IPMI", "SHELL"}) /\ SkipOver /\ Command.kind = "plugin"
  /\ ~plugin_error_check(ps, Command.block)
  /\ \E resp \in OutcomesOf(Command.block) :
       LET block    == Command.block
           declared == Declared(ps, block.declares)
           done     == execute_plugin_block(ps, block, resp)
       IN /\ ps' = done.ps /\ StoreResult(done.result)
          /\ ran' = Append(ran, [block |-> block, args |-> PluginArgs(declared, block),
                                 names |-> declared.list, resp |-> resp, after |-> failed])
          /\ failed' = IF MeetsError(block, declared.list, resp)
                       THEN failed \cup {<<group, command>>} ELSE failed
  /\ UNCHANGED clients

GroupDone ==
  /\ pc \in Protocols \ {"SSH"} /\ command > Len(commands) /\ SkipOver
  /\ pc = "TELNET" => "COMMANDS" \in DOMAIN Group
  /\ NextGroup /\ UNCHANGED <<clients, ps, saved, history>>

Bug_Disconnect ==
  /\ pc = "group" /\ group > Len(config) /\ pc' = "report"
  /\ sessions' = IF ssh.scp THEN ssh_remoteclient_disconnect(sessions) ELSE sessions
  /\ UNCHANGED <<config, remote_protocol, checked, working, ssh, telnet, logins, place,
                 ps, saved, outcome, history>>

Disconnect ==
  /\ pc = "group" /\ group > Len(config) /\ pc' = "report"
  /\ sessions' = tn_remoteclient_disconnect(ssh_remoteclient_disconnect(sessions))
  /\ UNCHANGED <<config, remote_protocol, checked, working, ssh, telnet, logins, place,
                 ps, saved, outcome, history>>

\* The files are counted; the directory always holds the collector's log.
cli_ffdc == Exit("report", "returned")

Next ==
  \/ input_options_ok \/ validate_local_store \/ verify_script_env \/ ReadConfig \/ load_env
  \/ target_is_pingable
  \/ NotRequested \/ ssh_to_target_system \/ ScpKnown \/ telnet_to_target_system
  \/ verify_redfish \/ verify_ipmi \/ verify_shell \/ collect_ffdc
  \/ generate_ffdc \/ ssh_execute_ffdc_commands \/ scp_ffdc \/ group_copy
  \/ protocol_telnet \/ TelnetNoCommands \/ run_tool_cmd \/ PluginSkipped \/ PluginRuns \/ GroupDone
  \/ Disconnect \/ cli_ffdc

\* The next step waits for a tool, a plug-in function or the target without a
\* time-out: run_tool_cmd, recv_exit_status, and read_until and
\* read_very_eager of telnetlib, the latter as long as there is output.
HeldUp ==
  \/ pc \in {"tools", "ping"}
  \/ Verifying /\ Protocol \in {"TELNET", "REDFISH", "IPMI"}
  \/ pc \in Protocols /\ command <= Len(commands)

\* The program goes on by itself; what it waits for need not answer.
OwnStep == ~HeldUp /\ Next

Spec == Init /\ [][Next]_vars /\ WF_vars(OwnStep)

-----------------------------------------------------------------------------
(* Properties *)

\* The type of every variable.
TypeOK ==
  /\ pc \in {"cli", "store", "tools", "read_config", "env", "ping", "verify", "group", "report",
             "end"} \cup Protocols
  /\ Range(ps.list) \subseteq DOMAIN ps.dict
  /\ working \subseteq Protocols /\ group \in 1..Len(config) + 1
  /\ (pc = "end") = (outcome # "none")

\* The response of a block was split up for the names on the list, which is
\* empty then: the block did not fail, and did not return the text "None".
Taken(run) ==
  /\ run.resp.type \notin {"raised", "import_error", "None_text"}
  /\ run.resp.type = "list" => run.resp.items[1].type = "str"

\* The names on the list before the n-th block: those of the blocks since one
\* whose response was taken.
Left(runs, n) == IF n > 1 /\ ~Taken(runs[n - 1]) THEN runs[n - 1].names ELSE <<>>

\* What a response gives to the name in place p of the list, if anything.
Gives(run, p) ==
  CASE run.resp.type \in {"str", "int", "zero"} -> p = 1
    [] run.resp.type \in {"list", "tuple"} -> p <= (IF Len(run.names) = 1 THEN 1 ELSE 2)
    [] OTHER -> FALSE
Given(run, p) ==
  CASE run.resp.type \notin {"list", "tuple"} -> run.resp
    [] run.resp.type \in {"list", "tuple"} /\ Len(run.names) = 1 ->
         [type |-> "list", items |-> run.resp.items]
    [] OTHER -> run.resp.items[p]

\* The blocks before the n-th that declare the name v; the places of v on the
\* list that a response gives something to.
Declarers(runs, n, v) == {m \in 1..n - 1 : v \in Range(runs[m].block.declares)}
Takers(runs, d, n)    == {m \in d..n - 1 : Taken(runs[m])}
Places(run, v)        == {p \in 1..Len(run.names) : run.names[p] = v /\ Gives(run, p)}

IsLast(S, x)  == \A y \in S : y <= x
IsFirst(S, x) == \A y \in S : x <= y

\* The value v is given by a response that was taken while it was on the list.
GivenBy(run, v, value) ==
  /\ Places(run, v) = {} => value = Empty
  /\ \A p \in Places(run, v) : IsLast(Places(run, v), p) => value = Given(run, p)

\* The value of v before the n-th block: it is given by the first block whose
\* response was taken since v was declared last, and "" until then.
ValueRight(runs, n, v, value) ==
  \A d \in Declarers(runs, n, v) : IsLast(Declarers(runs, n, v), d) =>
    /\ Takers(runs, d, n) = {} => value = Empty
    /\ \A a \in Takers(runs, d, n) :
         IsFirst(Takers(runs, d, n), a) => GivenBy(runs[a], v, value)

\* The argument k of the block n, if it is just the name of a variable.
ArgRight(runs, n, k) ==
  LET word == runs[n].block.args[k].words[1]
  IN Len(runs[n].block.args[k].words) = 1 /\ word[1] = "var" =>
       IF word[2] \in Range(runs[n].block.declares) THEN runs[n].args[k] = Empty
       ELSE ValueRight(runs, n, word[2], runs[n].args[k])

\* An argument that is the name of a declared variable is passed what the
\* response of the block that declared it last holds in its place: a text or a
\* number for the first name, the items of a list or tuple in their order, or
\* all of them for a single name, and "" if there is nothing in this place (a
\* dictionary gives nothing to any name) or if the block uses its own name.  It
\* is not always the declarer's response: a block that fails, or returns the
\* text "None", leaves its names on the list, the next response that is taken
\* goes to them first, and that block's own names get what is left
\* (execute_plugin_block, process_response_args_data).
ArgsFromDeclarer ==
  \A n \in 1..Len(ran) :
    /\ ran[n].names = Left(ran, n) \o ran[n].block.declares
    /\ \A k \in 1..Len(ran[n].args) : ArgRight(ran, n, k)

\* A block with "plugin_error: exit_on_error" is not run once any earlier block
\* met an error: it raised, could not be found, or did not return what
\* plugin_expects_return asks for (docs/plugin.md).
NoCallAfterError ==
  \A n \in 1..Len(ran) : ran[n].block.plugin_error = "exit_on_error" => ran[n].after = {}

\* A file that holds what a command of a REDFISH, IPMI, SHELL or TELNET group
\* returned has the name in the command's place in FILES, whatever was skipped
\* before it, and that is not "None" but for TELNET, which knows no such name;
\* a file fetched over SSH has its own name.
FileOfCommand ==
  \A f \in saved :
    LET grp == config[f.group]
    IN grp.PROTOCOL # "SCP" /\ "FILES" \in DOMAIN grp /\ f.command <= Len(grp.FILES)
       => /\ f.file = grp.FILES[f.command]
          /\ grp.PROTOCOL \in {"REDFISH", "IPMI", "SHELL"} => f.file # "None"

\* SCP is not listed before SSH.
SshFirst ==
  \A k, m \in 1..Len(config) : config[k].PROTOCOL = "SCP" /\ config[m].PROTOCOL = "SSH" => m < k

\* A group is run over a client that is connected.  (SSH after SCP logs in anew,
\* and the client that worked is replaced even if this fails.)
ClientConnected == SshFirst /\ pc \in {"SSH", "SCP"} => ssh.session # 0

\* Only what the user asked for is run, and what needs no connection.
OnlyRequested == remote_protocol # "ALL" /\ pc \in Protocols => pc \in {remote_protocol, "SHELL"}

\* A group of commands is run only if it was asked for, and, unless an SSH group
\* comes after an SCP one, over a client that is connected, whatever failed
\* before it.
GroupsRight == TypeOK /\ ClientConnected /\ OnlyRequested

\* The run is over; if it returned, nothing that it opened at the target is left
\* open, but for the login of a client that was replaced.
EndedClosed ==
  /\ pc = "end"
  /\ outcome = "returned" =>
       /\ SshFirst => sessions = {}
       /\ sessions \subseteq {<<"ssh", n>> : n \in (1..logins) \ {ssh.session}}

\* Every run comes to its end, whichever commands and plug-ins failed, unless a
\* tool, a plug-in or the target never answers a call that has no time-out; and
\* a run that returns leaves nothing open at the target, but for the login of a
\* client that was replaced, in a configuration with SSH after SCP.  (A run that
\* raises closes nothing itself.)
EndsClosed == <>EndedClosed \/ <>[]HeldUp

=============================================================================
