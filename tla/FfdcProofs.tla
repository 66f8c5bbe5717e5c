----------------------------- MODULE FfdcProofs -----------------------------
(***************************************************************************)
(* Proofs about the log collector, for every configuration, every set of   *)
(* protocols that is asked for and every outcome of plug-in functions.     *)
(***************************************************************************)
EXTENDS FfdcCollector, FoldProofs, SequenceTheorems, TLAPS

-----------------------------------------------------------------------------
(* The list of protocols *)

\* The list for the first n groups.
Listed(L, n) ==
  /\ L \in Seq(Protocols)
  /\ \A i \in 1..Len(L) : \E k \in 1..n : L[i] = config[k].PROTOCOL
  /\ SshFirst => \A j \in 1..Len(L) : L[j] = "SSH" => \A i \in 1..j - 1 : L[i] \notin {"SSH", "SCP"}

\* The protocol of one more group keeps the list as it should be.
LEMMA ListedStep ==
  ASSUME config \in Configs, NEW n \in 1..Len(config), NEW L, Listed(L, n - 1)
  PROVE  Listed(IF config[n].PROTOCOL \in Range(L) THEN L ELSE Append(L, config[n].PROTOCOL), n)
<1> DEFINE p == config[n].PROTOCOL
<1>1. n \in Nat /\ Len(config) \in Nat /\ DOMAIN config = 1..Len(config)
  BY FfdcAssumption, LenProperties DEF IsList
<1>2. p \in Protocols
  BY <1>1, FfdcAssumption DEF IsGroup
<1>3. L \in Seq(Protocols) /\ Len(L) \in Nat /\ DOMAIN L = 1..Len(L)
  BY LenProperties DEF Listed
<1>4. CASE p \in Range(L)
  BY <1>1, <1>4 DEF Listed
<1>5. CASE p \notin Range(L)
  <2> DEFINE M == Append(L, p)
  <2>1. /\ M \in Seq(Protocols) /\ Len(M) = Len(L) + 1 /\ M[Len(L) + 1] = p
        /\ \A i \in 1..Len(L) : M[i] = L[i]
    BY <1>2, <1>3, AppendProperties
  <2>2. \A i \in 1..Len(M) : \E k \in 1..n : M[i] = config[k].PROTOCOL
    BY <1>1, <1>3, <2>1 DEF Listed
  <2>3. \A i \in 1..Len(L) : L[i] # p
    BY <1>3, <1>5 DEF Range
  <2>4. ASSUME SshFirst, NEW j \in 1..Len(M), M[j] = "SSH", NEW i \in 1..j - 1
        PROVE  M[i] \notin {"SSH", "SCP"}
    <3>1. i \in 1..Len(L) /\ M[i] = L[i]
      BY <1>3, <2>1
    <3>2. CASE j = Len(L) + 1
      <4>1. p = "SSH" /\ L[i] # "SSH"
        BY <2>1, <2>3, <2>4, <3>1, <3>2
      <4>2. PICK k \in 1..n - 1 : L[i] = config[k].PROTOCOL
        BY <3>1 DEF Listed
      <4>3. L[i] # "SCP"
        BY <1>1, <2>4, <4>1, <4>2 DEF SshFirst
      <4> QED
        BY <3>1, <4>1, <4>3
    <3>3. CASE j # Len(L) + 1
      <4>1. j \in 1..Len(L) /\ L[j] = "SSH"
        BY <1>3, <2>1, <2>4, <3>3
      <4>2. L[i] \notin {"SSH", "SCP"}
        BY <2>4, <4>1 DEF Listed
      <4> QED
        BY <3>1, <4>2
    <3> QED
      BY <3>2, <3>3
  <2> QED
    BY <1>5, <2>1, <2>2, <2>4 DEF Listed
<1> QED
  BY <1>4, <1>5

\* Each protocol is listed once, and SSH before SCP if the groups are so.
LEMMA CheckedList ==
  ASSUME config \in Configs
  PROVE  Listed(CheckProtocolList, Len(config))
<1> DEFINE S == DOMAIN config
           A == Seq(Protocols)
           Add(L, k) == IF config[k].PROTOCOL \in Range(L) THEN L ELSE Append(L, config[k].PROTOCOL)
           Rec(g) == g = [s \in SUBSET S |-> IF s = {} THEN <<>> ELSE Add(g[s \ {Max(s)}], Max(s))]
           iter == CHOOSE g : Rec(g)
<1>1. Len(config) \in Nat /\ S = 1..Len(config) /\ \A k \in S : config[k].PROTOCOL \in Protocols
  BY FfdcAssumption, LenProperties DEF IsList, IsGroup
<1>2. CheckProtocolList = iter[S]
  BY DEF CheckProtocolList, ProtocolsOf, FoldLeft, MapThenFoldSet
<1>3. \A s \in SUBSET S : s # {} => Max(s) \in s /\ \A y \in s : y <= Max(s)
  <2>1. \A s \in SUBSET S : s \in SUBSET (0..Len(config))
    BY <1>1
  <2> QED
    BY <1>1, <2>1, MaxOfSet
<1>4. \E g : Rec(g)
  <2> DEFINE ch == [s \in SUBSET S |-> IF s = {} THEN CHOOSE x \in S : TRUE ELSE Max(s)]
             op == [x \in S \X A |-> Add(x[2], x[1])]
  <2>1. \A s \in SUBSET S : s # {} => ch[s] = Max(s) /\ ch[s] \in s
    BY <1>3
  <2>2. op \in [S \X A -> A]
    <3>1. \A L \in A, k \in S : Add(L, k) \in A
      BY <1>1, AppendProperties
    <3> QED
      BY <3>1
  <2>3. CASE S = {}
    <3> DEFINE g == [s \in SUBSET S |-> <<>>]
    <3>1. Rec(g)
      BY <2>3
    <3> QED
      BY <3>1
  <2>4. CASE S # {}
    <3>1. ch \in [SUBSET S -> S]
      BY <1>3, <2>4
    <3> DEFINE base == <<>>
    <3>2. IsFiniteSet(S) /\ base \in A
      BY <1>1, FS_Interval
    <3> HIDE DEF ch, op, A, S, base
    <3>3. PICK g \in [SUBSET S -> A] : IsFold(g, S, base, op, ch)
      <4>1. Takes(ch, S)
        BY <2>1 DEF Takes
      <4> QED
        BY <4>1, <2>2, <3>1, <3>2, FoldExists
    <3>4. \A s \in SUBSET S : s # {} => Max(s) \in S /\ s \ {Max(s)} \in SUBSET S
      BY <1>3
    <3>5. \A s \in SUBSET S : s # {} =>
            op[<<Max(s), g[s \ {Max(s)}]>>] = Add(g[s \ {Max(s)}], Max(s))
      BY <3>4 DEF op
    <3>6. \A s \in SUBSET S : g[s] = IF s = {} THEN <<>> ELSE Add(g[s \ {Max(s)}], Max(s))
      <4> HIDE DEF Add
      <4> TAKE s \in SUBSET S
      <4>1. g[s] = IF s = {} THEN base ELSE op[<<ch[s], g[s \ {ch[s]}]>>]
        BY ONLY <3>3 DEF IsFold
      <4>2. CASE s = {}
        BY ONLY <4>1, <4>2 DEF base
      <4>3. CASE s # {}
        <5>1. ch[s] = Max(s)
          BY ONLY <2>1, <4>3
        <5>2. op[<<Max(s), g[s \ {Max(s)}]>>] = Add(g[s \ {Max(s)}], Max(s))
          BY ONLY <3>5, <4>3
        <5> QED
          BY ONLY <4>1, <4>3, <5>1, <5>2
      <4> QED
        BY ONLY <4>2, <4>3
    <3>7. Rec(g)
      BY <3>6
    <3> QED
      BY <3>7
  <2> QED
    BY <2>3, <2>4
<1>5. Rec(iter)
  <2> HIDE DEF Rec
  <2> QED
    BY <1>4
<1> HIDE DEF iter
<1> DEFINE T == {n \in Nat : n <= Len(config) => Listed(iter[1..n], n)}
<1>6. 0 \in T
  <2>1. iter[1..0] = <<>>
    BY <1>1, <1>5
  <2>2. Listed(<<>>, 0)
    BY DEF Listed
  <2> QED
    BY <2>1, <2>2
<1>7. ASSUME NEW n \in Nat, n \in T
      PROVE  n + 1 \in T
  <2> SUFFICES ASSUME n + 1 <= Len(config)
               PROVE  Listed(iter[1..n + 1], n + 1)
    OBVIOUS
  <2> DEFINE s == 1..n + 1
  <2>1. s \in SUBSET S /\ s # {} /\ n + 1 \in 1..Len(config)
    BY <1>1
  <2>2. Max(s) = n + 1
    <3>0. n + 1 \in s
      OBVIOUS
    <3> HIDE DEF s
    <3>1. Max(s) \in s /\ n + 1 <= Max(s)
      BY ONLY <1>3, <2>1, <3>0
    <3>2. Max(s) \in 1..n + 1
      BY <3>1 DEF s
    <3> QED
      BY <3>1, <3>2
  <2>3. s \ {n + 1} = 1..n
    OBVIOUS
  <2>4. iter[s] = Add(iter[1..n], n + 1)
    BY <1>5, <2>1, <2>2, <2>3
  <2>5. Listed(iter[1..n], n) /\ (n + 1) - 1 = n
    BY <1>1, <1>7
  <2> QED
    BY <2>1, <2>4, <2>5, ListedStep
<1>8. Len(config) \in T
  BY <1>1, <1>6, <1>7, AllNat
<1> QED
  BY <1>1, <1>2, <1>8

-----------------------------------------------------------------------------
(* Where the program is *)

Points == {"cli", "store", "tools", "read_config", "env", "ping", "verify", "group", "report",
           "end"} \cup Protocols

\* A group that is run is one of the configuration and its protocol works; the
\* commands are those of the group.
PlaceInv ==
  /\ config \in Configs /\ remote_protocol \in Remotes
  /\ pc \in Points /\ (pc = "end" <=> outcome # "none")
  /\ group \in Nat \ {0} /\ group <= Len(config) + 1 /\ command \in Nat \ {0}
  /\ pc \in Protocols =>
       /\ group <= Len(config) /\ pc = config[group].PROTOCOL /\ pc \in working
       /\ Len(commands) = Len(CommandList)
       /\ \A k \in 1..Len(CommandList) :
            /\ commands[k].kind = CommandList[k].kind
            /\ commands[k].kind = "plugin" => commands[k] = CommandList[k]

\* What was found working was asked for, and over ssh it is the last login that
\* gave it, unless an SSH group comes after an SCP one.
WorkInv ==
  /\ checked \in Nat /\ logins \in Nat
  /\ working \subseteq Protocols
  /\ remote_protocol # "ALL" => working \subseteq {remote_protocol, "SHELL"}
  /\ remote_protocol = "ALL" => ("SSH" \in working <=> "SCP" \in working)
  /\ working \cap {"SSH", "SCP"} # {} =>
       /\ \E i \in 1..checked : i <= Len(CheckProtocolList) /\ CheckProtocolList[i] \in {"SSH", "SCP"}
       /\ SshFirst => ssh.session # 0

\* The plug-in globals: every name in the list has a value.
IsPs(p) ==
  /\ p = [list |-> p.list, dict |-> p.dict, exit_on_error |-> p.exit_on_error]
  /\ p.list \in Seq(Names) /\ p.exit_on_error \in BOOLEAN
  /\ p.dict = [x \in DOMAIN p.dict |-> p.dict[x]]
  /\ Range(p.list) \subseteq DOMAIN p.dict
PsInv == IsPs(ps)

\* Every error sets exit_on_error, and nothing resets it.
ErrorInv ==
  /\ failed # {} => ps.exit_on_error
  /\ ran \in Seq(Range(ran))
  /\ NoCallAfterError

\* What was saved belongs to a command or file of the configuration.
FilesInv ==
  /\ \A f \in saved : f.group \in 1..Len(config) /\ f.command \in Nat \ {0}
  /\ FileOfCommand

\* The names on the list of the globals p wait for a value, and the values are
\* what the blocks that were run make of them.
ListRight(p, runs) ==
  /\ p.list = Left(runs, Len(runs) + 1)
  /\ \A v \in Range(p.list) : \E d \in Declarers(runs, Len(runs) + 1, v) :
       Takers(runs, d, Len(runs) + 1) = {}
DictRight(p, runs) ==
  /\ \A v : Declarers(runs, Len(runs) + 1, v) # {} => v \in DOMAIN p.dict
  /\ \A v \in DOMAIN p.dict : ValueRight(runs, Len(runs) + 1, v, p.dict[v])

ValueInv == ListRight(ps, ran) /\ DictRight(ps, ran)

FfdcInv == PlaceInv /\ WorkInv /\ PsInv /\ ErrorInv /\ FilesInv /\ ValueInv /\ ArgsFromDeclarer

-----------------------------------------------------------------------------
\* The lists of a group.
LEMMA GroupLists ==
  ASSUME PlaceInv, group <= Len(config)
  PROVE  /\ Len(config) \in Nat /\ Group.PROTOCOL \in Protocols
         /\ Len(FileList) \in Nat /\ DOMAIN FileList = 1..Len(FileList)
         /\ Len(CommandList) \in Nat /\ DOMAIN CommandList = 1..Len(CommandList)
         /\ \A k \in 1..Len(CommandList) : IsCommand(CommandList[k])
<1>1. config \in Seq(Range(config)) /\ \A k \in DOMAIN config : IsGroup(config[k])
  BY FfdcAssumption DEF PlaceInv, IsList
<1>2. Len(config) \in Nat /\ group \in DOMAIN config
  BY <1>1, LenProperties DEF PlaceInv
<1>3. IsGroup(Group)
  BY <1>1, <1>2 DEF Group
<1>4. FileList \in Seq(Range(FileList))
  <2>1. <<>> \in Seq(Range(<<>>))
    OBVIOUS
  <2> QED
    BY <1>3, <2>1 DEF IsGroup, IsList, FileList
<1>5. CommandList \in Seq(Range(CommandList)) /\ \A k \in DOMAIN CommandList : IsCommand(CommandList[k])
  <2>1. <<>> \in Seq(Range(<<>>)) /\ DOMAIN <<>> = {}
    OBVIOUS
  <2> QED
    BY <1>3, <2>1 DEF IsGroup, IsList, CommandList
<1> QED
  BY <1>2, <1>3, <1>4, <1>5, LenProperties DEF IsGroup

\* get_command_list changes nothing but the arguments of strings.
LEMMA CommandsKept ==
  ASSUME PlaceInv, group <= Len(config)
  PROVE  /\ Len(get_command_list) = Len(CommandList)
         /\ \A k \in 1..Len(CommandList) :
              /\ get_command_list[k].kind = CommandList[k].kind
              /\ get_command_list[k].kind = "plugin" => get_command_list[k] = CommandList[k]
<1>1. Len(CommandList) \in Nat /\ \A k \in 1..Len(CommandList) : IsCommand(CommandList[k])
  BY GroupLists
<1>2. ASSUME NEW c, IsCommand(c), c.kind = "text", NEW a
      PROVE  [c EXCEPT !.arg = a].kind = "text"
  BY <1>2 DEF IsCommand
<1>3. Len(get_command_list) = Len(CommandList)
  BY <1>1 DEF get_command_list
<1>4. ASSUME NEW k \in 1..Len(CommandList)
      PROVE  /\ get_command_list[k].kind = CommandList[k].kind
             /\ get_command_list[k].kind = "plugin" => get_command_list[k] = CommandList[k]
  <2>1. CASE CommandList[k].kind = "text"
    <3>1. get_command_list[k] = [CommandList[k] EXCEPT !.arg = Updated(ps.dict, CommandList[k].arg)]
      BY <2>1 DEF get_command_list
    <3>2. get_command_list[k].kind = "text"
      BY <1>1, <1>2, <2>1, <3>1
    <3> QED
      BY <2>1, <3>2
  <2>2. CASE CommandList[k].kind # "text"
    BY <2>2 DEF get_command_list
  <2> QED
    BY <2>1, <2>2
<1> QED
  BY <1>3, <1>4

-----------------------------------------------------------------------------
\* The steps before the groups and after them, by what they change.
StartStep ==
  /\ pc \in Points \ (Protocols \cup {"end", "group"}) /\ pc' \in Points \ (Protocols \cup {"report"})
  /\ (pc' = "end" <=> outcome' # "none")
  /\ UNCHANGED <<config, remote_protocol, place, ps, saved, history>>

\* A step of a command in a group that is run.
GroupStep ==
  /\ pc \in Protocols /\ UNCHANGED <<config, remote_protocol, checked, working, ssh, logins>>
  /\ \/ UNCHANGED <<pc, group, commands, outcome>> /\ command' = command + 1
     \/ pc' = "group" /\ group' = group + 1 /\ UNCHANGED <<command, commands, outcome>>
     \/ pc' = "end" /\ outcome' = "raised" /\ UNCHANGED place

\* Every step is of one of these kinds, or one of the two that are not.
LEMMA FfdcSteps ==
  ASSUME PlaceInv, Next
  PROVE  StartStep \/ GroupStep \/ generate_ffdc \/ Disconnect
<1> USE DEF PlaceInv, Points, Protocols
<1>1. CASE \/ input_options_ok \/ validate_local_store \/ verify_script_env \/ ReadConfig
           \/ load_env \/ cli_ffdc
  BY <1>1 DEF input_options_ok, validate_local_store, verify_script_env, ReadConfig, load_env,
    cli_ffdc, Step, Exit, End, StartStep, place, history
<1>2. CASE target_is_pingable \/ collect_ffdc
  BY <1>2 DEF target_is_pingable, collect_ffdc, End, StartStep, place, history
<1>3. CASE \/ NotRequested \/ ssh_to_target_system \/ ScpKnown \/ telnet_to_target_system
           \/ verify_redfish \/ verify_ipmi \/ verify_shell
  BY <1>3 DEF NotRequested, ssh_to_target_system, ScpKnown, telnet_to_target_system,
    verify_redfish, verify_ipmi, verify_shell, Verifying, Verified, StartStep, place, history
<1>4. CASE \/ ssh_execute_ffdc_commands \/ group_copy \/ protocol_telnet \/ TelnetNoCommands
           \/ run_tool_cmd
  BY <1>4 DEF ssh_execute_ffdc_commands, ssh_execute_command, group_copy, protocol_telnet,
    TelnetResult, TelnetNoCommands, run_tool_cmd, StoreResult, Written, Running, SkipOver,
    NextCommand, Raises, End, clients, place, GroupStep
<1>5. CASE scp_ffdc \/ GroupDone
  BY <1>5 DEF scp_ffdc, GroupDone, NextGroup, Raises, End, SkipOver, clients, place, GroupStep
<1>6. CASE PluginSkipped
  BY <1>6 DEF PluginSkipped, Running, SkipOver, NextCommand, clients, GroupStep
<1>7. CASE PluginRuns
  <2>1. \E result : StoreResult(result)
    BY <1>7 DEF PluginRuns
  <2>2. \/ NextCommand
        \/ Raises
    BY <2>1 DEF StoreResult, Written
  <2> QED
    BY <1>7, <2>2 DEF PluginRuns, Running, SkipOver, NextCommand, Raises, End, clients, place, GroupStep
<1> QED
  BY <1>1, <1>2, <1>3, <1>4, <1>5, <1>6, <1>7 DEF Next

\* The place is that of a group whose protocol works.
LEMMA PlaceStep ==
  ASSUME PlaceInv, [Next]_vars
  PROVE  PlaceInv'
<1> USE DEF Protocols, Points
<1>0. Len(config) \in Nat
  BY FfdcAssumption, LenProperties DEF PlaceInv, IsList
<1>1. CASE StartStep
  BY <1>1 DEF PlaceInv, StartStep, place, CommandList, Group
<1>2. CASE GroupStep
  BY <1>0, <1>2 DEF PlaceInv, GroupStep, place, CommandList, Group
<1>3. CASE generate_ffdc
  <2>1. group <= Len(config) /\ UNCHANGED <<config, remote_protocol, working, outcome>> /\ command' = 1
    BY <1>3 DEF generate_ffdc
  <2>2. CASE group' = group + 1 /\ UNCHANGED <<pc, commands>>
    BY <1>0, <1>3, <2>1, <2>2 DEF PlaceInv, generate_ffdc
  <2>3. CASE /\ Group.PROTOCOL \in working /\ pc' = Group.PROTOCOL /\ UNCHANGED group
             /\ commands' = IF Group.PROTOCOL = "TELNET" THEN CommandList ELSE get_command_list
    <3>1. Group.PROTOCOL \in Protocols
      BY <2>1, GroupLists
    <3>2. CommandList' = CommandList
      BY <2>1, <2>3 DEF CommandList, Group
    <3>3. /\ Len(commands') = Len(CommandList)
          /\ \A k \in 1..Len(CommandList) :
               /\ commands'[k].kind = CommandList[k].kind
               /\ commands'[k].kind = "plugin" => commands'[k] = CommandList[k]
      BY <2>1, <2>3, CommandsKept
    <3>4. pc = "group"
      BY <1>3 DEF generate_ffdc
    <3> QED
      BY <1>0, <2>1, <2>3, <3>1, <3>2, <3>3, <3>4 DEF PlaceInv, Group
  <2> QED
    BY <1>3, <2>2, <2>3 DEF generate_ffdc
<1>4. CASE Disconnect
  BY <1>4 DEF PlaceInv, Disconnect, place
<1>5. CASE UNCHANGED vars
  BY <1>5 DEF PlaceInv, vars, place, CommandList, Group
<1> QED
  BY <1>1, <1>2, <1>3, <1>4, <1>5, FfdcSteps

-----------------------------------------------------------------------------
(* Which protocols work *)

\* A protocol that is verified, in terms of the list.
LEMMA VerifiedProtocol ==
  ASSUME PlaceInv, WorkInv, Verifying
  PROVE  /\ Protocol \in Protocols /\ checked + 1 \in 1..Len(CheckProtocolList)
         /\ SshFirst /\ Protocol = "SSH" =>
              \A i \in 1..checked : CheckProtocolList[i] \notin {"SSH", "SCP"}
<1> DEFINE L == CheckProtocolList
<1>1. Listed(L, Len(config))
  BY CheckedList DEF PlaceInv
<1>2. L \in Seq(Protocols) /\ Len(L) \in Nat
  BY <1>1, LenProperties DEF Listed
<1>3. checked \in Nat /\ checked < Len(L)
  BY DEF WorkInv, Verifying
<1>4. checked + 1 \in 1..Len(L) /\ (checked + 1) - 1 = checked
  BY <1>2, <1>3
<1>5. Protocol \in Protocols
  BY <1>2, <1>4, ElementOfSeq DEF Protocol
<1> QED
  BY <1>1, <1>4, <1>5 DEF Listed, Protocol

\* A step that adds nothing which is reached over ssh.
LEMMA WorkGrows ==
  ASSUME PlaceInv, WorkInv, UNCHANGED <<config, remote_protocol, ssh>>,
         checked' \in Nat, checked' >= checked, logins' \in Nat,
         NEW more \in SUBSET (Protocols \ {"SSH", "SCP"}), working' = working \cup more,
         remote_protocol # "ALL" => more \subseteq {remote_protocol, "SHELL"}
  PROVE  WorkInv'
<1>1. working' \subseteq Protocols /\ working' \cap {"SSH", "SCP"} = working \cap {"SSH", "SCP"}
  BY DEF WorkInv
<1>2. CheckProtocolList' = CheckProtocolList
  BY DEF CheckProtocolList
<1>3. SshFirst' <=> SshFirst
  BY DEF SshFirst
<1>4. \A i \in 1..checked : i \in 1..checked'
  BY DEF WorkInv
<1>5. remote_protocol # "ALL" => working' \subseteq {remote_protocol, "SHELL"}
  BY DEF WorkInv
<1>6. remote_protocol = "ALL" => ("SSH" \in working' <=> "SCP" \in working')
  BY DEF WorkInv
<1> QED
  BY <1>1, <1>2, <1>3, <1>4, <1>5, <1>6 DEF WorkInv

\* A login: what it gives comes with a session, and what was there before came
\* from no protocol that is tried before SSH.
LEMMA WorkLogin ==
  ASSUME PlaceInv, WorkInv, ssh_to_target_system
  PROVE  WorkInv'
<1>1. PICK session \in {0, logins'} : \E scp \in scp_connection(session) :
        /\ ssh' = [session |-> session, scp |-> scp]
        /\ Verified(IF session = 0 THEN {} ELSE SshGives)
  BY DEF ssh_to_target_system
<1>2. /\ ssh'.session = session /\ checked' = checked + 1
      /\ working' = working \cup (IF session = 0 THEN {} ELSE SshGives)
      /\ UNCHANGED <<config, remote_protocol>>
  BY <1>1 DEF Verified
<1>3. /\ Verifying /\ remote_protocol \in {"ALL", Protocol} /\ TriesSsh /\ logins' = logins + 1
      /\ logins' \in Nat \ {0} /\ checked' \in Nat
  BY <1>2 DEF ssh_to_target_system, WorkInv
<1>4. /\ Protocol \in Protocols /\ checked + 1 \in 1..Len(CheckProtocolList)
      /\ SshFirst /\ Protocol = "SSH" =>
           \A i \in 1..checked : CheckProtocolList[i] \notin {"SSH", "SCP"}
  BY <1>3, VerifiedProtocol
<1>5. Protocol \in {"SSH", "SCP"} /\ SshGives \subseteq {"SSH", "SCP"}
  BY <1>3 DEF TriesSsh, SshGives
<1>6. CheckProtocolList' = CheckProtocolList /\ (SshFirst' <=> SshFirst)
  BY <1>2 DEF CheckProtocolList, SshFirst
<1>7. /\ working' \subseteq Protocols
      /\ remote_protocol # "ALL" => working' \subseteq {remote_protocol, "SHELL"}
      /\ remote_protocol = "ALL" => ("SSH" \in working' <=> "SCP" \in working')
  BY <1>2, <1>5 DEF WorkInv, SshGives, Protocols
<1>8. CheckProtocolList[checked'] \in {"SSH", "SCP"} /\ checked' \in 1..checked'
      /\ checked' <= Len(CheckProtocolList)
  BY <1>2, <1>3, <1>4, <1>5 DEF Protocol, WorkInv
<1>9. ASSUME SshFirst, working' \cap {"SSH", "SCP"} # {}
      PROVE  session # 0
  <2> SUFFICES ASSUME session = 0
               PROVE  FALSE
    OBVIOUS
  <2>1. working \cap {"SSH", "SCP"} # {}
    BY <1>2, <1>9
  <2>2. \E i \in 1..checked : CheckProtocolList[i] \in {"SSH", "SCP"}
    BY <2>1 DEF WorkInv
  <2>3. Protocol = "SCP" /\ "SCP" \notin working
    BY <1>3, <1>4, <1>9, <2>2 DEF TriesSsh
  <2>4. "SSH" \in working
    BY <2>1, <2>3
  <2>5. remote_protocol # "ALL"
    BY <2>3, <2>4 DEF WorkInv
  <2>6. working \subseteq {"SCP", "SHELL"}
    BY <1>3, <2>3, <2>5 DEF WorkInv
  <2> QED
    BY <2>4, <2>6
<1> QED
  BY <1>2, <1>3, <1>6, <1>7, <1>8, <1>9 DEF WorkInv

\* Nothing else touches the protocols that work or the ssh client.
LEMMA WorkStep ==
  ASSUME PlaceInv, WorkInv, [Next]_vars
  PROVE  WorkInv'
<1> USE DEF clients
<1>1. CASE \/ input_options_ok \/ validate_local_store \/ verify_script_env \/ ReadConfig
           \/ load_env \/ cli_ffdc \/ collect_ffdc \/ generate_ffdc \/ Disconnect \/ GroupStep
           \/ UNCHANGED vars
  <2>1. UNCHANGED <<config, remote_protocol, checked, working, ssh, logins>>
    BY <1>1 DEF input_options_ok, validate_local_store, verify_script_env, ReadConfig, load_env,
      cli_ffdc, Step, Exit, collect_ffdc, generate_ffdc, Disconnect, GroupStep, vars
  <2>2. checked' \in Nat /\ checked' >= checked /\ logins' \in Nat
    BY <2>1 DEF WorkInv
  <2>3. working' = working \cup {} /\ {} \in SUBSET (Protocols \ {"SSH", "SCP"})
    BY <2>1
  <2> QED
    BY <2>1, <2>2, <2>3, WorkGrows
<1>2. CASE target_is_pingable
  <2>1. UNCHANGED <<config, remote_protocol, checked, ssh, logins>>
        /\ (working' = {"SHELL"} \/ UNCHANGED working)
    BY <1>2 DEF target_is_pingable
  <2>2. CheckProtocolList' = CheckProtocolList /\ (SshFirst' <=> SshFirst)
    BY <2>1 DEF CheckProtocolList, SshFirst
  <2> QED
    BY <2>1, <2>2 DEF WorkInv, Protocols
<1>3. CASE \/ NotRequested \/ ScpKnown \/ telnet_to_target_system
           \/ verify_redfish \/ verify_ipmi \/ verify_shell
  <2>1. PICK more \in {{}, {"TELNET"}, {"REDFISH"}, {"IPMI"}} :
          /\ Verified(more) /\ (more # {} => remote_protocol \in {"ALL", Protocol} /\ more = {Protocol})
          /\ UNCHANGED <<ssh, logins>>
    BY <1>3 DEF NotRequested, ScpKnown, telnet_to_target_system, verify_redfish, verify_ipmi,
      verify_shell
  <2>2. UNCHANGED <<config, remote_protocol, ssh>> /\ checked' \in Nat /\ checked' >= checked
        /\ logins' \in Nat /\ working' = working \cup more
    BY <2>1 DEF Verified, WorkInv
  <2>3. more \in SUBSET (Protocols \ {"SSH", "SCP"})
        /\ (remote_protocol # "ALL" => more \subseteq {remote_protocol, "SHELL"})
    BY <2>1 DEF Protocols
  <2> HIDE DEF clients
  <2> QED
    BY <2>2, <2>3, WorkGrows
<1>4. CASE ssh_to_target_system
  BY <1>4, WorkLogin
<1>5. CASE StartStep /\ Next
  BY <1>1, <1>2, <1>3, <1>4, <1>5 DEF Next, StartStep, Protocols, ssh_execute_ffdc_commands, scp_ffdc,
    group_copy, protocol_telnet, TelnetNoCommands, run_tool_cmd, PluginSkipped, PluginRuns,
    GroupDone, Running
<1> QED
  BY <1>1, <1>5, FfdcSteps

-----------------------------------------------------------------------------
(* The plug-in globals *)

\* The names in a list after others were appended.
LEMMA RangeConcat ==
  ASSUME NEW a \in Seq(Names), NEW b \in Seq(Names)
  PROVE  a \o b \in Seq(Names) /\ Range(a \o b) \subseteq Range(a) \cup Range(b)
<1>1. a \o b \in Seq(Names) /\ Len(a \o b) = Len(a) + Len(b)
  BY ConcatProperties
<1>2. Len(a) \in Nat /\ Len(b) \in Nat /\ DOMAIN a = 1..Len(a) /\ DOMAIN b = 1..Len(b)
      /\ DOMAIN (a \o b) = 1..Len(a \o b)
  BY <1>1, LenProperties
<1>3. \A i \in 1..Len(a) + Len(b) :
        (a \o b)[i] = IF i <= Len(a) THEN a[i] ELSE b[i - Len(a)]
  BY ConcatProperties
<1>4. ASSUME NEW i \in DOMAIN (a \o b)
      PROVE  (a \o b)[i] \in Range(a) \cup Range(b)
  <2>1. i \in 1..Len(a) + Len(b)
    BY <1>1, <1>2
  <2>2. CASE i <= Len(a)
    BY <1>2, <1>3, <2>1, <2>2 DEF Range
  <2>3. CASE ~(i <= Len(a))
    <3>1. i - Len(a) \in DOMAIN b
      BY <1>2, <2>1, <2>3
    <3> QED
      BY <1>3, <2>1, <2>3, <3>1 DEF Range
  <2> QED
    BY <2>2, <2>3
<1> QED
  BY <1>1, <1>4 DEF Range

\* The globals with another list and other values.
LEMMA OtherPs ==
  ASSUME NEW p, IsPs(p), NEW l, NEW d
  PROVE  [p EXCEPT !.list = l, !.dict = d] = [list |-> l, dict |-> d, exit_on_error |-> p.exit_on_error]
<1> DEFINE q == [p EXCEPT !.list = l, !.dict = d]
           fields == {"list", "dict", "exit_on_error"}
<1>1. DOMAIN p = fields
  BY DEF IsPs
<1>2. q = [x \in fields |-> IF x = "dict" THEN d ELSE IF x = "list" THEN l ELSE p[x]]
  BY <1>1
<1>3. q.exit_on_error = p.exit_on_error /\ q.list = l /\ q.dict = d
  BY <1>1, <1>2
<1> HIDE DEF q
<1>4. q = [list |-> l, dict |-> d, exit_on_error |-> p.exit_on_error]
  BY <1>2, <1>3
<1> QED
  BY <1>4 DEF q

\* The declared names are in the list and blank, the others keep their values.
LEMMA DeclaredNames ==
  ASSUME NEW p, IsPs(p), NEW names \in Seq(Names)
  PROVE  /\ IsPs(Declared(p, names))
         /\ Declared(p, names).list = p.list \o names
         /\ Declared(p, names).exit_on_error = p.exit_on_error
         /\ DOMAIN Declared(p, names).dict = DOMAIN p.dict \cup Range(names)
         /\ \A x \in Range(names) : Declared(p, names).dict[x] = Empty
         /\ \A x \in DOMAIN p.dict : x \notin Range(names) =>
              Declared(p, names).dict[x] = p.dict[x]
<1> DEFINE d == [x \in DOMAIN p.dict \cup Range(names) |->
                   IF x \in Range(names) THEN Empty ELSE p.dict[x]]
           q == [list |-> p.list \o names, dict |-> d, exit_on_error |-> p.exit_on_error]
<1>1. Declared(p, names) = q
  <2>1. Declared(p, names) = [p EXCEPT !.list = p.list \o names, !.dict = d]
    BY DEF Declared
  <2> HIDE DEF d
  <2> QED
    BY <2>1, OtherPs
<1>2. p.list \o names \in Seq(Names) /\ Range(p.list \o names) \subseteq Range(p.list) \cup Range(names)
  BY RangeConcat DEF IsPs
<1>3. d = [x \in DOMAIN d |-> d[x]] /\ DOMAIN d = DOMAIN p.dict \cup Range(names)
  OBVIOUS
<1>4. q.list = p.list \o names /\ q.dict = d /\ q.exit_on_error = p.exit_on_error
  OBVIOUS
<1>5. /\ \A x \in Range(names) : d[x] = Empty
      /\ \A x \in DOMAIN p.dict : x \notin Range(names) => d[x] = p.dict[x]
  OBVIOUS
<1>6. Range(p.list \o names) \subseteq DOMAIN d
  BY <1>2, <1>3 DEF IsPs
<1> HIDE DEF d
<1>7. IsPs(q)
  BY <1>2, <1>3, <1>6 DEF IsPs
<1> HIDE DEF q
<1> QED
  BY <1>1, <1>3, <1>4, <1>5, <1>7

\* A response empties the list, or changes nothing.
LEMMA Processed ==
  ASSUME NEW p, IsPs(p), NEW resp
  PROVE  /\ IsPs(process_response_args_data(p, resp))
         /\ process_response_args_data(p, resp).exit_on_error = p.exit_on_error
         /\ DOMAIN p.dict \subseteq DOMAIN process_response_args_data(p, resp).dict
<1>1. CASE p.list = <<>> \/ resp.type = "None_text"
  BY <1>1 DEF process_response_args_data
<1>2. CASE ~(p.list = <<>> \/ resp.type = "None_text")
  <2> DEFINE items == Items(p.list, resp)
             n     == IF Len(items) < Len(p.list) THEN Len(items) ELSE Len(p.list)
             given == {p.list[k] : k \in 1..n}
             d == [x \in DOMAIN p.dict \cup given |->
                     IF x \in given THEN items[Max({k \in 1..n : p.list[k] = x})] ELSE p.dict[x]]
  <2>1. process_response_args_data(p, resp) = [p EXCEPT !.list = <<>>, !.dict = d]
    BY <1>2 DEF process_response_args_data
  <2>2. d = [x \in DOMAIN d |-> d[x]] /\ DOMAIN p.dict \subseteq DOMAIN d
    <3> HIDE DEF given, items, n
    <3> QED
      OBVIOUS
  <2> HIDE DEF d
  <2> DEFINE q == [list |-> <<>>, dict |-> d, exit_on_error |-> p.exit_on_error]
  <2>3. process_response_args_data(p, resp) = q
    BY <2>1, OtherPs
  <2>4. Range(<<>>) = {} /\ <<>> \in Seq(Names)
    BY DEF Range
  <2>5. IsPs(q)
    BY <2>2, <2>4 DEF IsPs
  <2> QED
    BY <2>2, <2>3, <2>5
<1> QED
  BY <1>1, <1>2

\* The globals before exit_on_error is set: a block that raises, is not found
\* or returns a list that cannot be read leaves its names waiting.
Spoilt(block, names, r) ==
  ~Called(block) \/ r.type \in {"raised", "import_error"} \/ Unstripped(names, r)
Answered(p, block, r) ==
  LET declared == Declared(p, block.declares)
  IN IF Spoilt(block, declared.list, r) THEN declared ELSE process_response_args_data(declared, r)

\* A list or a tuple holds two items of one kind.
IsResponse(r) ==
  r.type \in {"list", "tuple"} =>
    /\ r = [type |-> r.type, items |-> r.items] /\ Len(r.items) = 2 /\ DOMAIN r.items = 1..2
    /\ r.items[1].type = r.items[2].type

\* A block sets exit_on_error when it meets an error and never resets it.
LEMMA BlockRuns ==
  ASSUME NEW p, IsPs(p), NEW block, IsBlock(block), NEW r, IsResponse(r)
  PROVE  LET done == execute_plugin_block(p, block, r).ps
             names == Declared(p, block.declares).list
         IN /\ IsPs(done)
            /\ done.list = Answered(p, block, r).list /\ done.dict = Answered(p, block, r).dict
            /\ p.exit_on_error \/ MeetsError(block, names, r) => done.exit_on_error
<1> DEFINE declared == Declared(p, block.declares)
           raised   == ~Called(block) \/ r.type = "raised"
           result   == IF raised THEN Empty ELSE execute_python_function(r)
           broken   == raised \/ r.type = "import_error"
           unread   == ~broken /\ Unstripped(declared.list, result)
           answered == IF broken \/ unread THEN declared
                       ELSE process_response_args_data(declared, result)
           missing  == /\ r.type # "import_error" /\ block.expects # "nothing"
                       /\ ~Truth(result) \/ ~plugin_expect_type(block.expects, result)
           error    == answered.exit_on_error \/ broken \/ unread \/ missing
<1>1. execute_plugin_block(p, block, r).ps = [answered EXCEPT !.exit_on_error = error]
  BY DEF execute_plugin_block
<1>2. ~broken => result = r
  BY DEF execute_python_function
<1>3. answered = Answered(p, block, r)
  <2>1. broken \/ unread <=> Spoilt(block, declared.list, r)
    BY <1>2 DEF Spoilt
  <2> QED
    BY <1>2, <2>1 DEF Answered
<1>4. IsPs(declared) /\ declared.exit_on_error = p.exit_on_error
  BY DeclaredNames DEF IsBlock
<1>5. IsPs(answered) /\ answered.exit_on_error = p.exit_on_error
  BY <1>4, Processed
<1>6. ASSUME MeetsError(block, declared.list, r)
      PROVE  broken \/ unread \/ missing
  <2> SUFFICES ASSUME ~broken
               PROVE  unread \/ missing
    OBVIOUS
  <2>1. result = r /\ r.type \notin {"raised", "import_error"}
    BY <1>2
  <2>2. CASE declared.list # <<>> /\ r.type = "list" /\ r.items[1].type # "str"
    BY <2>1, <2>2 DEF Unstripped, IsText, IsResponse
  <2>3. CASE /\ block.expects # "nothing"
             /\ r.type \in {"none", "zero", "empty_dict"} \/ r = Empty
    BY <2>1, <2>3 DEF Truth, Empty, Text
  <2>4. CASE /\ block.expects \notin {"nothing", "?", r.type}
             /\ ~(block.expects = "str" /\ r.type = "None_text")
    BY <2>1, <2>4 DEF plugin_expect_type
  <2> QED
    BY <1>6, <2>1, <2>2, <2>3, <2>4 DEF MeetsError
<1>7. error \in BOOLEAN
  BY <1>5 DEF IsPs
<1>8. p.exit_on_error \/ MeetsError(block, declared.list, r) => error
  BY <1>5, <1>6
<1> HIDE DEF answered, error
<1>9. [answered EXCEPT !.exit_on_error = error]
        = [list |-> answered.list, dict |-> answered.dict, exit_on_error |-> error]
  BY <1>5 DEF IsPs
<1>10. IsPs([list |-> answered.list, dict |-> answered.dict, exit_on_error |-> error])
  BY <1>5, <1>7 DEF IsPs
<1> QED
  BY <1>1, <1>3, <1>8, <1>9, <1>10

-----------------------------------------------------------------------------
(* The blocks that are run *)

\* What is kept of a block, and what it changes.
Run(block, r) ==
  [block |-> block, args |-> PluginArgs(Declared(ps, block.declares), block),
   names |-> Declared(ps, block.declares).list, resp |-> r, after |-> failed]
PluginRun(block, r) ==
  /\ IsBlock(block) /\ ~plugin_error_check(ps, block)
  /\ IsResponse(r) /\ (~Called(block) => r.type = "raised")
  /\ ps' = execute_plugin_block(ps, block, r).ps
  /\ ran' = Append(ran, Run(block, r))
  /\ failed' # failed => MeetsError(block, Declared(ps, block.declares).list, r)

\* A function returns two items of one kind in a list or tuple.
LEMMA ResponseForm ==
  ASSUME NEW type
  PROVE  IsResponse(Response(type))
<1> DEFINE item(k) == Text(<< <<"out", <<group, command, k>>>> >>)
           number  == [type |-> "int"]
           Two(a, b) == [type |-> type, items |-> <<a, b>>]
<1>0. item(1).type = "str" /\ item(2).type = "str" /\ number.type = "int"
  BY DEF Text
<1> HIDE DEF item, number
<1>1. CASE type \in {"str", "empty"}
  BY <1>1 DEF Response, IsResponse, Empty, Text
<1>2. CASE type \in {"list", "tuple"}
  <2>1. Response(type) = Two(item(1), item(2))
    BY <1>2 DEF Response, item
  <2> QED
    BY <1>0, <2>1 DEF IsResponse
<1>3. CASE type = "numbers"
  <2>1. Response(type) = [type |-> "list", items |-> <<number, number>>]
    BY <1>3 DEF Response, number
  <2> QED
    BY <1>0, <2>1 DEF IsResponse
<1>4. CASE type \notin {"str", "empty", "list", "tuple", "numbers"}
  <2>1. Response(type) = [type |-> type]
    BY <1>4 DEF Response
  <2> QED
    BY <1>4, <2>1 DEF IsResponse
<1> QED
  BY <1>1, <1>2, <1>3, <1>4

\* The block that runs is one of the configuration.
LEMMA PluginRan ==
  ASSUME PlaceInv, PluginRuns
  PROVE  \E block, r : PluginRun(block, r)
<1> DEFINE block == Command.block
           names == Declared(ps, block.declares).list
<1>1. /\ pc \in Protocols /\ command \in 1..Len(commands) /\ Command.kind = "plugin"
      /\ ~plugin_error_check(ps, block)
  BY DEF PluginRuns, Running, PlaceInv, Protocols
<1>2. IsBlock(block)
  <2>1. /\ group <= Len(config) /\ Len(commands) = Len(CommandList)
        /\ commands[command] = CommandList[command]
    BY <1>1 DEF PlaceInv, Command
  <2>2. IsCommand(CommandList[command])
    BY <1>1, <2>1, GroupLists
  <2> QED
    BY <1>1, <2>1, <2>2 DEF IsCommand, Command
<1>3. PICK r \in OutcomesOf(block) :
        /\ ps' = execute_plugin_block(ps, block, r).ps
        /\ ran' = Append(ran, Run(block, r))
        /\ failed' = IF MeetsError(block, names, r) THEN failed \cup {<<group, command>>} ELSE failed
  BY DEF PluginRuns, Run
<1>4. IsResponse(r) /\ (~Called(block) => r.type = "raised")
  <2>1. CASE Called(block)
    BY <2>1, ResponseForm DEF OutcomesOf
  <2>2. CASE ~Called(block)
    <3>1. r = [type |-> "raised"]
      BY <2>2 DEF OutcomesOf
    <3> QED
      BY <3>1 DEF IsResponse
  <2> QED
    BY <2>1, <2>2
<1>5. PluginRun(block, r)
  BY <1>1, <1>2, <1>3, <1>4 DEF PluginRun
<1> QED
  BY <1>5

\* Nothing else changes the plug-in globals or the history.
LEMMA OtherSteps ==
  ASSUME PlaceInv, [Next]_vars, ~PluginRuns
  PROVE  UNCHANGED <<ps, history>>
<1>1. CASE UNCHANGED vars
  BY <1>1 DEF vars
<1>2. CASE StartStep
  BY <1>2 DEF StartStep
<1>3. CASE \/ ssh_execute_ffdc_commands \/ scp_ffdc \/ group_copy \/ protocol_telnet
           \/ TelnetNoCommands \/ run_tool_cmd \/ PluginSkipped \/ GroupDone \/ Disconnect
           \/ generate_ffdc
  BY <1>3 DEF ssh_execute_ffdc_commands, scp_ffdc, group_copy, protocol_telnet, TelnetNoCommands,
    run_tool_cmd, PluginSkipped, GroupDone, Disconnect, generate_ffdc
<1>4. CASE GroupStep /\ Next
  BY <1>3, <1>4 DEF Next, GroupStep, Protocols, input_options_ok, validate_local_store,
    verify_script_env, ReadConfig, load_env, cli_ffdc, Step, Exit, target_is_pingable, collect_ffdc,
    NotRequested, ssh_to_target_system, ScpKnown, telnet_to_target_system, verify_redfish,
    verify_ipmi, verify_shell, Verifying
<1> QED
  BY <1>1, <1>2, <1>3, <1>4, FfdcSteps

\* One more block.
LEMMA OneMore ==
  ASSUME NEW runs, runs \in Seq(Range(runs)), NEW new
  PROVE  /\ Len(runs) \in Nat /\ Len(Append(runs, new)) = Len(runs) + 1
         /\ Append(runs, new)[Len(runs) + 1] = new
         /\ \A i \in 1..Len(runs) : Append(runs, new)[i] = runs[i]
         /\ Append(runs, new) \in Seq(Range(Append(runs, new)))
<1> DEFINE S == Range(runs) \cup {new}
           c == Append(runs, new)
<1>1. runs \in Seq(S) /\ new \in S
  OBVIOUS
<1>2. Len(runs) \in Nat /\ c \in Seq(S) /\ Len(c) = Len(runs) + 1 /\ c[Len(runs) + 1] = new
      /\ \A i \in 1..Len(runs) : c[i] = runs[i]
  BY <1>1, AppendProperties, LenProperties
<1> HIDE DEF c
<1>3. c \in Seq(Range(c))
  BY <1>2 DEF Range
<1> QED
  BY <1>2, <1>3 DEF c

\* The globals keep their form, and an error is not forgotten.
LEMMA ErrorStep ==
  ASSUME PlaceInv, PsInv, ErrorInv, [Next]_vars
  PROVE  PsInv' /\ ErrorInv'
<1>1. CASE ~PluginRuns
  <2>1. UNCHANGED <<ps, ran, failed>>
    BY <1>1, OtherSteps DEF history
  <2> QED
    BY <2>1 DEF PsInv, ErrorInv, NoCallAfterError
<1>2. CASE PluginRuns
  <2>0. PICK block, r : PluginRun(block, r)
    BY <1>2, PluginRan
  <2> DEFINE new == Run(block, r)
  <2>1. IsBlock(block) /\ IsResponse(r) /\ ps' = execute_plugin_block(ps, block, r).ps
        /\ ran' = Append(ran, new)
    BY <2>0 DEF PluginRun
  <2>2. IsPs(ps') /\ (ps.exit_on_error \/ MeetsError(block, Declared(ps, block.declares).list, r)
                      => ps'.exit_on_error)
    BY <2>1, BlockRuns DEF PsInv
  <2>3. PsInv'
    BY <2>2 DEF PsInv
  <2>4. failed' # {} => ps'.exit_on_error
    BY <2>0, <2>2 DEF PluginRun, ErrorInv
  <2>5. new.block = block /\ new.after = failed
    BY DEF Run
  <2>6. block.plugin_error = "exit_on_error" => failed = {}
    BY <2>0 DEF PluginRun, plugin_error_check, ErrorInv
  <2> HIDE DEF new
  <2>7. /\ Len(ran) \in Nat /\ Len(ran') = Len(ran) + 1 /\ ran'[Len(ran) + 1] = new
        /\ \A i \in 1..Len(ran) : ran'[i] = ran[i]
        /\ ran' \in Seq(Range(ran'))
    BY <2>1, OneMore DEF ErrorInv
  <2>8. NoCallAfterError'
    BY <2>5, <2>6, <2>7 DEF ErrorInv, NoCallAfterError
  <2> QED
    BY <2>3, <2>4, <2>7, <2>8 DEF ErrorInv
<1> QED
  BY <1>1, <1>2

-----------------------------------------------------------------------------
(* The files *)

\* What a step of a group saves for a command.
Saves(f) ==
  /\ f.group = group /\ f.command \in Nat \ {0}
  /\ Group.PROTOCOL # "SCP" /\ "FILES" \in DOMAIN Group /\ f.command <= Len(Group.FILES)
       => /\ f.file = Group.FILES[f.command]
          /\ Group.PROTOCOL \in {"REDFISH", "IPMI", "SHELL"} => f.file # "None"

\* Every record that is added is right for its command.
LEMMA SavedFiles ==
  ASSUME PlaceInv, [Next]_vars, NEW f \in saved', f \notin saved
  PROVE  pc \in Protocols /\ Saves(f)
<1> USE DEF Protocols
<1>1. CASE StartStep \/ UNCHANGED vars \/ generate_ffdc \/ Disconnect
  BY <1>1 DEF StartStep, vars, generate_ffdc, Disconnect
<1>2. ASSUME pc \in Protocols, NEW file, NEW prefix, Save(file, prefix),
             Group.PROTOCOL # "SCP" /\ "FILES" \in DOMAIN Group /\ command <= Len(Group.FILES)
               => /\ file = Group.FILES[command]
                  /\ Group.PROTOCOL \in {"REDFISH", "IPMI", "SHELL"} => file # "None"
      PROVE  Saves(f)
  <2>1. f = [group |-> group, command |-> command, file |-> file, prefix |-> prefix]
    BY <1>2 DEF Save
  <2>2. f.group = group /\ f.command = command /\ f.file = file
    BY <2>1
  <2> QED
    BY <1>2, <2>2 DEF Saves, PlaceInv
<1>3. pc \in Protocols => pc = Group.PROTOCOL /\ command \in Nat \ {0} /\ group <= Len(config)
  BY DEF PlaceInv, Group
<1>4. CASE ssh_execute_ffdc_commands \/ TelnetNoCommands \/ PluginSkipped \/ GroupDone
  BY <1>4 DEF ssh_execute_ffdc_commands, TelnetNoCommands, PluginSkipped, GroupDone
<1>5. CASE scp_ffdc
  <2>1. pc = "SSH" /\ Group.PROTOCOL = "SSH"
    BY <1>3, <1>5 DEF scp_ffdc
  <2>2. PICK k \in 1..Len(FileList), prefix \in BOOLEAN :
          f = [group |-> group, command |-> k, file |-> FileList[k], prefix |-> prefix]
    BY <1>5 DEF scp_ffdc
  <2>3. f.group = group /\ f.command = k /\ f.file = FileList[k]
    BY <2>2
  <2>4. k \in Nat \ {0}
    BY <1>3, <2>1, GroupLists
  <2> QED
    BY <2>1, <2>3, <2>4 DEF Saves, FileList
<1>6. CASE group_copy
  <2>1. pc = "SCP" /\ Save("as_named", FALSE)
    BY <1>6 DEF group_copy, Running
  <2> QED
    BY <1>2, <1>3, <2>1
<1>7. CASE protocol_telnet
  <2>1. /\ pc = "TELNET" /\ "FILES" \in DOMAIN Group
        /\ Save(IF command <= Len(Group.FILES) THEN Group.FILES[command] ELSE "as_the_command", TRUE)
    BY <1>7 DEF protocol_telnet, TelnetResult, Written, Running
  <2> QED
    BY <1>2, <1>3, <2>1
<1>8. ASSUME NEW result, StoreResult(result), pc \in {"REDFISH", "IPMI", "SHELL"}
      PROVE  Saves(f)
  <2> DEFINE named == command <= Len(FileList)
  <2>1. /\ named => FileList[command] # "None"
        /\ Save(IF named THEN FileList[command] ELSE "as_the_command", TRUE)
    BY <1>8 DEF StoreResult, Written
  <2>2. "FILES" \in DOMAIN Group => FileList = Group.FILES
    BY DEF FileList
  <2> QED
    BY <1>2, <1>3, <1>8, <2>1, <2>2
<1>9. CASE run_tool_cmd
  <2>1. pc \in {"REDFISH", "IPMI", "SHELL"} /\ \E result : StoreResult(result)
    BY <1>9 DEF run_tool_cmd, Running
  <2> QED
    BY <1>8, <2>1
<1>10. CASE PluginRuns
  <2>1. pc \in {"REDFISH", "IPMI", "SHELL"} /\ \E result : StoreResult(result)
    BY <1>10 DEF PluginRuns, Running
  <2> QED
    BY <1>8, <2>1
<1>11. CASE GroupStep /\ Next
  <2>1. pc \in Protocols
    BY <1>11 DEF GroupStep
  <2>2. \/ ssh_execute_ffdc_commands \/ PluginSkipped \/ GroupDone \/ scp_ffdc \/ group_copy
        \/ protocol_telnet \/ TelnetNoCommands \/ run_tool_cmd \/ PluginRuns \/ Disconnect
        \/ generate_ffdc
    BY <1>11, <2>1 DEF Next, input_options_ok, validate_local_store, verify_script_env, ReadConfig,
      load_env, cli_ffdc, Step, Exit, target_is_pingable, collect_ffdc, NotRequested,
      ssh_to_target_system, ScpKnown, telnet_to_target_system, verify_redfish, verify_ipmi,
      verify_shell, Verifying
  <2> QED
    BY <1>1, <1>4, <1>5, <1>6, <1>7, <1>9, <1>10, <2>1, <2>2
<1> QED
  BY <1>1, <1>11, FfdcSteps

\* Every file is that of its command.
LEMMA FilesStep ==
  ASSUME PlaceInv, FilesInv, [Next]_vars
  PROVE  FilesInv'
<1>1. config' = config
  BY FfdcSteps DEF StartStep, GroupStep, generate_ffdc, Disconnect, vars
<1>2. ASSUME NEW f \in saved'
      PROVE  /\ f.group \in 1..Len(config) /\ f.command \in Nat \ {0}
             /\ LET grp == config[f.group]
                IN grp.PROTOCOL # "SCP" /\ "FILES" \in DOMAIN grp /\ f.command <= Len(grp.FILES)
                   => /\ f.file = grp.FILES[f.command]
                      /\ grp.PROTOCOL \in {"REDFISH", "IPMI", "SHELL"} => f.file # "None"
  <2>1. CASE f \in saved
    BY <2>1 DEF FilesInv, FileOfCommand
  <2>2. CASE f \notin saved
    <3>1. Saves(f) /\ pc \in Protocols
      BY <2>2, SavedFiles
    <3>2. group \in 1..Len(config)
      BY <3>1, GroupLists DEF PlaceInv
    <3> QED
      BY <3>1, <3>2 DEF Saves, Group
  <2> QED
    BY <2>1, <2>2
<1> QED
  BY <1>1, <1>2 DEF FilesInv, FileOfCommand

-----------------------------------------------------------------------------
(* The values of names *)

\* The value is right for the blocks T that took a response since the name was
\* declared.
RightSince(runs, T, v, value) ==
  /\ T = {} => value = Empty
  /\ \A a \in T : IsFirst(T, a) => GivenBy(runs[a], v, value)

\* What the history says of the blocks so far does not change with one more.
LEMMA SameRuns ==
  ASSUME NEW runs, runs \in Seq(Range(runs)), NEW new, NEW n \in 1..Len(runs) + 1
  PROVE  LET c == Append(runs, new)
         IN /\ Left(c, n) = Left(runs, n)
            /\ \A v : Declarers(c, n, v) = Declarers(runs, n, v)
            /\ \A v : \A d \in Declarers(runs, n, v) : Takers(c, d, n) = Takers(runs, d, n)
            /\ \A v, value : ValueRight(runs, n, v, value) <=> ValueRight(c, n, v, value)
<1> DEFINE c == Append(runs, new)
<1>1. Len(runs) \in Nat /\ \A i \in 1..Len(runs) : c[i] = runs[i]
  BY OneMore
<1> HIDE DEF c
<1>2. \A i \in 1..n - 1 : c[i] = runs[i]
  BY <1>1
<1>3. n \in Nat
  BY <1>1
<1>4. Left(c, n) = Left(runs, n)
  BY <1>2, <1>3 DEF Left
<1>5. \A v : Declarers(c, n, v) = Declarers(runs, n, v)
  BY <1>2 DEF Declarers
<1>6. ASSUME NEW v, NEW d \in Declarers(runs, n, v)
      PROVE  /\ Takers(c, d, n) = Takers(runs, d, n)
             /\ \A a \in Takers(runs, d, n) : c[a] = runs[a]
  <2>1. d \in Nat /\ 1 <= d
    BY <1>6 DEF Declarers
  <2>2. \A i \in d..n - 1 : c[i] = runs[i]
    BY <1>2, <1>3, <2>1
  <2> QED
    BY <2>2 DEF Takers
<1>7. ASSUME NEW v, NEW value
      PROVE  ValueRight(runs, n, v, value) <=> ValueRight(c, n, v, value)
  <2> DEFINE D == Declarers(runs, n, v)
  <2>1. ValueRight(runs, n, v, value)
          <=> \A d \in D : IsLast(D, d) => RightSince(runs, Takers(runs, d, n), v, value)
    BY DEF ValueRight, RightSince
  <2>2. ValueRight(c, n, v, value)
          <=> \A d \in D : IsLast(D, d) => RightSince(c, Takers(c, d, n), v, value)
    BY <1>5 DEF ValueRight, RightSince
  <2>3. \A d \in D : Takers(c, d, n) = Takers(runs, d, n)
                    /\ \A a \in Takers(runs, d, n) : c[a] = runs[a]
    BY <1>6
  <2> HIDE DEF D
  <2>4. ASSUME NEW d \in D
        PROVE  RightSince(runs, Takers(runs, d, n), v, value)
                 <=> RightSince(c, Takers(c, d, n), v, value)
    BY ONLY <2>3, <2>4 DEF RightSince
  <2> QED
    BY ONLY <2>1, <2>2, <2>4
<1> QED
  BY <1>4, <1>5, <1>6, <1>7 DEF c

\* The declarers of a name, and the blocks whose responses were taken, with one
\* more block.
LEMMA NewRun ==
  ASSUME NEW runs, runs \in Seq(Range(runs)), NEW new
  PROVE  LET c == Append(runs, new)
             N == Len(runs)
         IN /\ Left(c, N + 2) = IF Taken(new) THEN <<>> ELSE new.names
            /\ \A v : Declarers(c, N + 2, v) =
                        Declarers(runs, N + 1, v)
                          \cup (IF v \in Range(new.block.declares) THEN {N + 1} ELSE {})
            /\ \A d \in 1..N + 1 : Takers(c, d, N + 2) =
                        Takers(runs, d, N + 1) \cup (IF Taken(new) THEN {N + 1} ELSE {})
<1> DEFINE c == Append(runs, new)
           N == Len(runs)
<1>1. N \in Nat /\ c[N + 1] = new /\ \A i \in 1..N : c[i] = runs[i]
  BY OneMore
<1> HIDE DEF c, N
<1>2. (N + 2) - 1 = N + 1 /\ (N + 1) - 1 = N /\ N + 2 > 1
  BY <1>1
<1>3. Left(c, N + 2) = IF Taken(new) THEN <<>> ELSE new.names
  BY <1>1, <1>2 DEF Left
<1>4. ASSUME NEW v
      PROVE  Declarers(c, N + 2, v) =
               Declarers(runs, N + 1, v)
                 \cup (IF v \in Range(new.block.declares) THEN {N + 1} ELSE {})
  <2>1. \A m : m \in 1..N + 1 <=> m \in 1..N \/ m = N + 1
    BY <1>1
  <2>2. \A m : m \in Declarers(c, N + 2, v) <=>
               m \in 1..N + 1 /\ v \in Range(c[m].block.declares)
    BY ONLY <1>2 DEF Declarers
  <2>3. \A m : m \in Declarers(runs, N + 1, v) <=>
               m \in 1..N /\ v \in Range(runs[m].block.declares)
    BY ONLY <1>2 DEF Declarers
  <2> QED
    BY ONLY <1>1, <2>1, <2>2, <2>3
<1>5. ASSUME NEW d \in 1..N + 1
      PROVE  Takers(c, d, N + 2) = Takers(runs, d, N + 1) \cup (IF Taken(new) THEN {N + 1} ELSE {})
  <2>1. \A m : m \in d..N + 1 <=> m \in d..N \/ m = N + 1
    BY <1>1
  <2>2. \A m \in d..N : m \in 1..N
    BY <1>1
  <2>3. \A m : m \in Takers(c, d, N + 2) <=> m \in d..N + 1 /\ Taken(c[m])
    BY ONLY <1>2 DEF Takers
  <2>4. \A m : m \in Takers(runs, d, N + 1) <=> m \in d..N /\ Taken(runs[m])
    BY ONLY <1>2 DEF Takers
  <2>5. \A m \in d..N : Taken(c[m]) <=> Taken(runs[m])
    BY <1>1, <2>2
  <2>6. Taken(c[N + 1]) <=> Taken(new)
    BY <1>1
  <2> QED
    BY ONLY <2>1, <2>3, <2>4, <2>5, <2>6
<1> QED
  BY <1>3, <1>4, <1>5 DEF c, N

\* What a block that is run makes of the value of a name: nothing, unless its
\* response is taken and gives something to the name.
Makes(new, v, before, after) ==
  /\ ~Taken(new) \/ Places(new, v) = {} => after = before
  /\ Taken(new) /\ before = Empty => GivenBy(new, v, after)

\* The value of a name after one more block, from the one before it.
LEMMA ValueAfter ==
  ASSUME NEW runs, runs \in Seq(Range(runs)), NEW new, NEW v, NEW before, NEW after,
         Makes(new, v, before, after),
         v \in Range(new.block.declares) => before = Empty,
         v \notin Range(new.block.declares) =>
           /\ ValueRight(runs, Len(runs) + 1, v, before)
           /\ Places(new, v) # {} =>
                \E d \in Declarers(runs, Len(runs) + 1, v) : Takers(runs, d, Len(runs) + 1) = {}
  PROVE  ValueRight(Append(runs, new), Len(runs) + 2, v, after)
<1> DEFINE c == Append(runs, new)
           N == Len(runs)
<1>1. N \in Nat /\ c[N + 1] = new /\ \A i \in 1..N : c[i] = runs[i]
  BY OneMore
<1>2. /\ Declarers(c, N + 2, v) = Declarers(runs, N + 1, v)
                                    \cup (IF v \in Range(new.block.declares) THEN {N + 1} ELSE {})
      /\ \A d \in 1..N + 1 : Takers(c, d, N + 2) =
                  Takers(runs, d, N + 1) \cup (IF Taken(new) THEN {N + 1} ELSE {})
  BY NewRun
<1> HIDE DEF c, N
<1>3. /\ \A d \in Declarers(runs, N + 1, v) : d \in 1..N
      /\ Takers(runs, N + 1, N + 1) = {}
  BY <1>1 DEF Declarers, Takers
<1>4. ~Taken(new) \/ Places(new, v) = {} => after = before
  BY DEF Makes
<1>5. Taken(new) /\ before = Empty => RightSince(c, {N + 1}, v, after)
  <2>1. Taken(new) /\ before = Empty => GivenBy(new, v, after)
    BY DEF Makes
  <2> QED
    BY ONLY <1>1, <2>1 DEF RightSince
<1>6. ASSUME NEW d \in Declarers(c, N + 2, v), IsLast(Declarers(c, N + 2, v), d),
             v \in Range(new.block.declares)
      PROVE  RightSince(c, Takers(c, d, N + 2), v, after)
  <2>1. d = N + 1
    <3>1. N + 1 \in Declarers(c, N + 2, v) /\ d \in 1..N + 1
      BY <1>1, <1>2, <1>3, <1>6
    <3> QED
      BY <1>1, <1>6, <3>1 DEF IsLast
  <2>2. Takers(c, d, N + 2) = (IF Taken(new) THEN {N + 1} ELSE {})
    <3>1. N + 1 \in 1..N + 1
      BY <1>1
    <3>2. Takers(c, N + 1, N + 2) = Takers(runs, N + 1, N + 1) \cup (IF Taken(new) THEN {N + 1} ELSE {})
      BY <1>2, <3>1
    <3> QED
      BY ONLY <1>3, <2>1, <3>2
  <2>3. before = Empty
    BY <1>6
  <2>4. RightSince(c, {}, v, Empty)
    BY DEF RightSince
  <2> QED
    BY ONLY <1>4, <1>5, <2>2, <2>3, <2>4
<1>7. ASSUME NEW d \in Declarers(c, N + 2, v), IsLast(Declarers(c, N + 2, v), d),
             v \notin Range(new.block.declares)
      PROVE  RightSince(c, Takers(c, d, N + 2), v, after)
  <2>1. d \in Declarers(runs, N + 1, v) /\ IsLast(Declarers(runs, N + 1, v), d) /\ d \in 1..N
    BY <1>2, <1>3, <1>7
  <2> DEFINE T == Takers(runs, d, N + 1)
  <2>2. Takers(c, d, N + 2) = T \cup (IF Taken(new) THEN {N + 1} ELSE {})
    BY <1>1, <1>2, <2>1
  <2>3. \A a \in T : a \in 1..N
    BY <1>1, <2>1 DEF Takers
  <2>4. RightSince(runs, T, v, before)
    <3>1. ValueRight(runs, N + 1, v, before)
      BY <1>7 DEF N
    <3> QED
      BY <2>1, <3>1 DEF ValueRight, RightSince
  <2>5. Places(new, v) # {} => T = {}
    <3> SUFFICES ASSUME NEW e \in Declarers(runs, N + 1, v), Takers(runs, e, N + 1) = {}
                 PROVE  T = {}
      BY <1>7 DEF N
    <3>1. e <= d /\ e \in 1..N
      BY <1>3, <2>1 DEF IsLast
    <3> QED
      BY <1>1, <2>1, <3>1 DEF Takers
  <2> HIDE DEF T
  <2>6. RightSince(c, T, v, before)
    BY ONLY <1>1, <2>3, <2>4 DEF RightSince
  <2>7. CASE ~Taken(new)
    BY ONLY <1>4, <2>2, <2>6, <2>7
  <2>8. CASE Taken(new) /\ T = {}
    <3>1. Takers(c, d, N + 2) = {N + 1}
      BY ONLY <2>2, <2>8
    <3>2. before = Empty
      BY ONLY <2>6, <2>8 DEF RightSince
    <3> QED
      BY ONLY <1>5, <2>8, <3>1, <3>2
  <2>9. CASE Taken(new) /\ T # {}
    <3>1. after = before
      BY ONLY <1>4, <2>5, <2>9
    <3>2. Takers(c, d, N + 2) = T \cup {N + 1}
      BY ONLY <2>2, <2>9
    <3>3. ASSUME NEW a \in T \cup {N + 1}, IsFirst(T \cup {N + 1}, a)
          PROVE  a \in T /\ IsFirst(T, a)
      <4>1. PICK t \in T : TRUE
        BY <2>9
      <4>2. a <= t /\ t \in 1..N
        BY ONLY <2>3, <3>3, <4>1 DEF IsFirst
      <4>3. a # N + 1
        BY ONLY <1>1, <4>2
      <4> QED
        BY ONLY <3>3, <4>3 DEF IsFirst
    <3>4. RightSince(c, T \cup {N + 1}, v, before)
      BY ONLY <2>6, <2>9, <3>3 DEF RightSince
    <3> QED
      BY ONLY <3>1, <3>2, <3>4
  <2> QED
    BY <2>7, <2>8, <2>9
<1>8. \A d \in Declarers(c, N + 2, v) : IsLast(Declarers(c, N + 2, v), d) =>
        RightSince(c, Takers(c, d, N + 2), v, after)
  BY <1>6, <1>7
<1>9. ValueRight(c, N + 2, v, after)
  BY ONLY <1>8 DEF ValueRight, RightSince
<1> QED
  BY <1>9 DEF c, N

\* What a response that is taken gives to the names on the list.
LEMMA ItemsGiven ==
  ASSUME NEW list, Len(list) \in Nat \ {0}, NEW r, IsResponse(r), NEW run, run.names = list, run.resp = r,
         NEW p \in 1..Len(list)
  PROVE  LET items == Items(list, r)
             n     == IF Len(items) < Len(list) THEN Len(items) ELSE Len(list)
         IN /\ n \in Nat /\ n <= Len(list) /\ (Gives(run, p) <=> p \in 1..n)
            /\ Gives(run, p) => items[p] = Given(run, p)
<1> DEFINE L == Len(list)
           items == Items(list, r)
           whole == [type |-> "list", items |-> r.items]
           Good == /\ Len(items) \in Nat /\ (Gives(run, p) <=> p <= Len(items))
                   /\ Gives(run, p) => items[p] = Given(run, p)
<1>0. L \in Nat \ {0} /\ p \in 1..L
  OBVIOUS
<1>1. ASSUME r.type \in {"str", "int", "zero"}
      PROVE  Good
  <2>1. items = <<r>>
    BY <1>1 DEF Items
  <2>2. Len(items) = 1 /\ items[1] = r
    BY <2>1
  <2>3. (Gives(run, p) <=> p = 1) /\ Given(run, p) = r
    BY <1>1 DEF Gives, Given
  <2> HIDE DEF items
  <2> QED
    BY ONLY <1>0, <2>2, <2>3
<1>2. ASSUME r.type \in {"list", "tuple"}, L = 1
      PROVE  Good
  <2>1. [r EXCEPT !.type = "list"] = whole
    BY <1>2 DEF IsResponse
  <2>2. items = <<whole>>
    BY <1>2, <2>1 DEF Items
  <2> HIDE DEF whole
  <2>3. Len(items) = 1 /\ items[1] = whole
    BY <2>2
  <2> HIDE DEF items
  <2>4. p = 1
    BY <1>2
  <2>5. Gives(run, p) /\ Given(run, p) = whole
    BY <1>2, <2>4 DEF Gives, Given, whole
  <2> QED
    BY ONLY <2>3, <2>4, <2>5
<1>3. ASSUME r.type \in {"list", "tuple"}, L # 1
      PROVE  Good
  <2>1. items = r.items
    BY <1>3 DEF Items
  <2>2. Len(items) = 2
    BY <1>3, <2>1 DEF IsResponse
  <2>3. (Gives(run, p) <=> p <= 2) /\ Given(run, p) = items[p]
    BY <1>3, <2>1 DEF Gives, Given
  <2> HIDE DEF items
  <2> QED
    BY ONLY <2>2, <2>3
<1>4. ASSUME r.type \notin {"str", "int", "zero", "list", "tuple"}
      PROVE  Good
  <2>1. items = <<>>
    BY <1>4 DEF Items
  <2>2. Len(items) = 0
    BY <2>1
  <2>3. ~Gives(run, p)
    BY <1>4 DEF Gives
  <2> HIDE DEF items
  <2> QED
    BY ONLY <1>0, <2>2, <2>3
<1>5. Good
  BY <1>1, <1>2, <1>3, <1>4
<1> HIDE DEF items
<1>6. LET n == IF Len(items) < L THEN Len(items) ELSE L
      IN /\ n \in Nat /\ n <= L /\ (Gives(run, p) <=> p \in 1..n)
         /\ Gives(run, p) => items[p] = Given(run, p)
  BY ONLY <1>0, <1>5
<1> QED
  BY <1>6 DEF items

\* The values after a response that is taken.
LEMMA ValuesTaken ==
  ASSUME NEW p, IsPs(p), NEW run, run.names = p.list, IsResponse(run.resp), Taken(run)
  PROVE  LET q == process_response_args_data(p, run.resp)
         IN /\ q.list = <<>> /\ DOMAIN q.dict = DOMAIN p.dict
            /\ \A v \in DOMAIN p.dict : Makes(run, v, p.dict[v], q.dict[v])
<1> DEFINE r     == run.resp
           L     == Len(p.list)
           items == Items(p.list, r)
           n     == IF Len(items) < L THEN Len(items) ELSE L
           given == {p.list[k] : k \in 1..n}
           d     == [x \in DOMAIN p.dict \cup given |->
                       IF x \in given THEN items[Max({k \in 1..n : p.list[k] = x})] ELSE p.dict[x]]
           q     == process_response_args_data(p, r)
<1>0. Taken(run)
  OBVIOUS
<1>1. L \in Nat /\ DOMAIN p.list = 1..L /\ (p.list = <<>> <=> L = 0)
  BY LenProperties, EmptySeq DEF IsPs
<1>2. CASE L = 0
  <2>1. q = p /\ p.list = <<>>
    BY <1>1, <1>2 DEF process_response_args_data
  <2>2. ASSUME NEW v
        PROVE  Places(run, v) = {}
    BY <1>2 DEF Places
  <2> HIDE DEF q
  <2>3. \A v \in DOMAIN p.dict : Makes(run, v, p.dict[v], p.dict[v])
    BY <2>2 DEF Makes, GivenBy
  <2> QED
    BY <2>1, <2>3 DEF q
<1>3. CASE L # 0
  <2>1. p.list # <<>> /\ r.type # "None_text"
    BY <1>1, <1>3 DEF Taken
  <2>2. q = [p EXCEPT !.list = <<>>, !.dict = d]
    BY <2>1 DEF process_response_args_data
  <2>3. \A k \in 1..L : /\ n \in Nat /\ n <= L /\ (Gives(run, k) <=> k \in 1..n)
                        /\ Gives(run, k) => items[k] = Given(run, k)
    <3>1. Len(p.list) \in Nat \ {0} /\ IsResponse(r) /\ run.resp = r
      BY <1>1, <1>3
    <3> HIDE DEF r
    <3> QED
      BY <3>1, ItemsGiven
  <2>4. d = [x \in DOMAIN p.dict \cup given |->
               IF x \in given THEN items[Max({k \in 1..n : p.list[k] = x})] ELSE p.dict[x]]
    OBVIOUS
  <2>5. n \in Nat /\ n <= L
    <3>1. 1 \in 1..L
      BY <1>1, <1>3
    <3> QED
      BY <2>3, <3>1
  <2> HIDE DEF items, n, d, q, L, r
  <2>6. given \subseteq DOMAIN p.dict
    <3>1. \A k \in 1..n : k \in DOMAIN p.list
      BY <1>1, <2>5
    <3>2. Range(p.list) \subseteq DOMAIN p.dict
      BY DEF IsPs
    <3> QED
      BY <3>1, <3>2 DEF Range
  <2>7. q.list = <<>> /\ q.dict = d
    <3>1. q = [list |-> <<>>, dict |-> d, exit_on_error |-> p.exit_on_error]
      BY <2>2, OtherPs
    <3> QED
      BY ONLY <3>1
  <2>8. DOMAIN d = DOMAIN p.dict
    <3> HIDE DEF given
    <3> QED
      BY ONLY <2>4, <2>6
  <2>9. ASSUME NEW v \in DOMAIN p.dict
        PROVE  Makes(run, v, p.dict[v], d[v])
    <3> DEFINE S == {k \in 1..n : p.list[k] = v}
    <3>1. Places(run, v) = S
      <4>1. \A k \in 1..L : Gives(run, k) <=> k \in 1..n
        BY <2>3
      <4>2. Places(run, v) = {k \in 1..L : p.list[k] = v /\ Gives(run, k)}
        BY DEF Places, L
      <4>3. \A k \in 1..n : k \in 1..L
        BY <1>1, <2>5
      <4> QED
        BY ONLY <4>1, <4>2, <4>3
    <3>2. d[v] = IF v \in given THEN items[Max(S)] ELSE p.dict[v]
      BY ONLY <2>4, <2>9
    <3>3. v \in given <=> S # {}
      OBVIOUS
    <3>4. \A k \in S : k \in 1..L /\ items[k] = Given(run, k)
      <4>1. \A k \in 1..n : k \in 1..L
        BY <1>1, <2>5
      <4> QED
        BY <2>3, <4>1
    <3>5. S # {} => Max(S) \in S /\ \A k \in S : k \in Nat /\ Max(S) \in Nat /\ k <= Max(S)
      <4>1. S \in SUBSET (0..n) /\ \A k \in S : k \in Nat
        BY <2>5
      <4> HIDE DEF S
      <4> QED
        BY <2>5, <4>1, MaxOfSet
    <3> HIDE DEF S, given
    <3>6. CASE S = {}
      <4>1. d[v] = p.dict[v]
        BY ONLY <3>2, <3>3, <3>6
      <4> QED
        BY ONLY <3>1, <3>6, <4>1 DEF Makes, GivenBy
    <3>7. CASE S # {}
      <4>1. d[v] = Given(run, Max(S))
        BY ONLY <3>2, <3>3, <3>4, <3>5, <3>7
      <4>2. ASSUME NEW k \in S, IsLast(S, k)
            PROVE  k = Max(S)
        BY ONLY <3>5, <3>7, <4>2 DEF IsLast
      <4>3. GivenBy(run, v, d[v])
        BY ONLY <3>1, <3>7, <4>1, <4>2 DEF GivenBy
      <4> QED
        BY ONLY <1>0, <3>1, <3>7, <4>3 DEF Makes
    <3> QED
      BY <3>6, <3>7
  <2> QED
    BY <2>7, <2>8, <2>9 DEF q, r
<1> QED
  BY <1>2, <1>3

\* The argument is just the name v.
IsJustName(block, k, v) ==
  LET words == block.args[k].words IN Len(words) = 1 /\ words[1][1] = "var" /\ words[1][2] = v

\* Such an argument is replaced by the value of the name.
LEMMA ArgIsValue ==
  ASSUME NEW p, NEW block, IsBlock(block), NEW k \in 1..Len(block.args), NEW v \in DOMAIN p.dict,
         IsJustName(block, k, v)
  PROVE  PluginArgs(p, block)[k] = p.dict[v]
<1> DEFINE arg == block.args[k]
           word == arg.words[1]
           Subst(w) == IF w[1] = "env" /\ w[2] \in EnvVars THEN <<"val", w[2]>> ELSE w
           words == [j \in 1..Len(arg.words) |-> Subst(arg.words[j])]
           n == Len(block.args)
<1>0. Len(arg.words) = 1 /\ word[1] = "var" /\ word[2] = v
  BY DEF IsJustName
<1>1. n \in Nat /\ DOMAIN block.args = 1..n /\ arg = Text(arg.words)
  BY LenProperties DEF IsBlock, IsList
<1>2. IsText(arg)
  BY <1>1 DEF IsText, Text
<1>3. yaml_args_populate(block.args) = [j \in 1..n |-> IF IsText(block.args[j]) THEN yaml_env_and_plugin_vars_populate(block.args[j]) ELSE block.args[j]]
  BY DEF yaml_args_populate
<1>4. yaml_args_populate(block.args)[k] = Text(words) /\ Len(yaml_args_populate(block.args)) = n
  <2>1. yaml_env_and_plugin_vars_populate(arg) = Text(words)
    BY DEF yaml_env_and_plugin_vars_populate
  <2> HIDE DEF words
  <2> QED
    BY <1>1, <1>2, <1>3, <2>1
<1>5. words = <<word>>
  <2>1. words = [j \in 1..1 |-> Subst(arg.words[j])] /\ Subst(word) = word
    BY <1>0
  <2> HIDE DEF words, Subst
  <2> QED
    BY <2>1
<1> HIDE DEF words
<1>6. PluginArgs(p, block)[k] = Updated(p.dict, Text(words))
  BY <1>1, <1>4 DEF PluginArgs, update_vars_with_env_values
<1>7. Text(words).type = "str" /\ Text(words).words = <<word>>
  BY <1>5 DEF Text
<1>8. Updated(p.dict, Text(words)) = p.dict[v]
  <2> DEFINE t == Text(words)
  <2>1. IsText(t) /\ Len(t.words) = 1 /\ t.words[1] = word
    BY <1>7 DEF IsText
  <2> HIDE DEF t, word
  <2>2. IsName(p.dict, word)
    BY <1>0 DEF IsName, word
  <2>3. Updated(p.dict, t) = p.dict[t.words[1][2]]
    BY <2>1, <2>2 DEF Updated
  <2> QED
    BY <1>0, <2>1, <2>3 DEF t, word
<1> QED
  BY <1>6, <1>8

\* What a block makes of the names and their values.
LEMMA BlockNames ==
  ASSUME PsInv, NEW block, NEW r, PluginRun(block, r)
  PROVE  LET new == Run(block, r)
             names == Range(block.declares)
         IN /\ new.names = ps.list \o block.declares /\ new.names \in Seq(Names)
            /\ ps'.list = (IF Taken(new) THEN <<>> ELSE new.names)
            /\ DOMAIN ps'.dict = DOMAIN ps.dict \cup names
            /\ \A v \in DOMAIN ps'.dict :
                 Makes(new, v, IF v \in names THEN Empty ELSE ps.dict[v], ps'.dict[v])
<1> DEFINE new == Run(block, r)
           names == Range(block.declares)
           p == Declared(ps, block.declares)
           q == Answered(ps, block, r)
           Was(v) == IF v \in names THEN Empty ELSE ps.dict[v]
<1>1. /\ IsBlock(block) /\ block.declares \in Seq(Names) /\ IsResponse(r) /\ IsPs(ps)
      /\ ~Called(block) => r.type = "raised"
      /\ ps' = execute_plugin_block(ps, block, r).ps
  BY DEF PluginRun, IsBlock, PsInv
<1>2. ps'.list = q.list /\ ps'.dict = q.dict
  BY <1>1, BlockRuns
<1>3. /\ IsPs(p) /\ p.list = ps.list \o block.declares /\ p.list \in Seq(Names)
      /\ DOMAIN p.dict = DOMAIN ps.dict \cup names
      /\ \A v \in names : p.dict[v] = Empty
      /\ \A v \in DOMAIN ps.dict : v \notin names => p.dict[v] = ps.dict[v]
  <2>1. /\ IsPs(p) /\ p.list = ps.list \o block.declares
        /\ DOMAIN p.dict = DOMAIN ps.dict \cup names
        /\ \A v \in names : p.dict[v] = Empty
        /\ \A v \in DOMAIN ps.dict : v \notin names => p.dict[v] = ps.dict[v]
    <3>1. IsPs(ps) /\ block.declares \in Seq(Names)
      BY <1>1
    <3>2. IsPs(p) /\ p.list = ps.list \o block.declares
      BY ONLY <3>1, DeclaredNames
    <3>3. /\ DOMAIN p.dict = DOMAIN ps.dict \cup names
          /\ \A v \in names : p.dict[v] = Empty
          /\ \A v \in DOMAIN ps.dict : v \notin names => p.dict[v] = ps.dict[v]
      BY ONLY <3>1, DeclaredNames
    <3> QED
      BY ONLY <3>2, <3>3
  <2>2. p.list \in Seq(Names)
    BY <2>1 DEF IsPs
  <2> QED
    BY ONLY <2>1, <2>2
<1>4. new.names = p.list /\ new.resp = r
  BY DEF Run
<1> HIDE DEF new, p
<1>5. \A v \in DOMAIN p.dict : p.dict[v] = Was(v)
  BY <1>3
<1>6. CASE Taken(new)
  <2>1. /\ r.type \notin {"raised", "import_error", "None_text"}
        /\ r.type = "list" => r.items[1].type = "str"
    BY <1>4, <1>6 DEF Taken
  <2>2. ~Unstripped(p.list, r)
    BY <1>1, <2>1 DEF Unstripped, IsResponse, IsText
  <2>3. q = process_response_args_data(p, r)
    BY <1>1, <2>1, <2>2 DEF Answered, Spoilt, p
  <2> HIDE DEF q
  <2>4. /\ q.list = <<>> /\ DOMAIN q.dict = DOMAIN p.dict
        /\ \A v \in DOMAIN p.dict : Makes(new, v, p.dict[v], q.dict[v])
    BY ONLY <1>1, <1>3, <1>4, <1>6, <2>3, ValuesTaken
  <2> HIDE DEF Was
  <2>5. \A v \in DOMAIN p.dict : Makes(new, v, Was(v), q.dict[v])
    BY ONLY <1>5, <2>4
  <2> QED
    BY <1>2, <1>3, <1>4, <1>6, <2>4, <2>5 DEF Was, new
<1>7. CASE ~Taken(new)
  <2>1. \/ r.type \in {"raised", "import_error", "None_text"}
        \/ r.type = "list" /\ r.items[1].type # "str"
    BY <1>4, <1>7 DEF Taken
  <2>2. r.type \in {"raised", "import_error"} => q = p
    BY DEF Answered, Spoilt, p
  <2>3. r.type = "None_text" \/ p.list = <<>> => q = p
    BY DEF Answered, p, process_response_args_data
  <2>4. r.type = "list" /\ r.items[1].type # "str" /\ p.list # <<>> => q = p
    <3>1. r.type = "list" /\ r.items[1].type # "str" /\ p.list # <<>> => Unstripped(p.list, r)
      BY <1>1 DEF Unstripped, IsResponse, IsText
    <3> QED
      BY <3>1 DEF Answered, Spoilt, p
  <2>5. q = p
    BY <2>1, <2>2, <2>3, <2>4
  <2> HIDE DEF q, Was
  <2>6. \A v \in DOMAIN p.dict : Makes(new, v, Was(v), p.dict[v])
    BY ONLY <1>5, <1>7 DEF Makes
  <2> QED
    BY <1>2, <1>3, <1>4, <1>7, <2>5, <2>6 DEF Was, new
<1> QED
  BY <1>6, <1>7

\* An argument of one more block that is just a name.
LEMMA NewArg ==
  ASSUME PsInv, ErrorInv, ValueInv, NEW block, NEW r, PluginRun(block, r),
         NEW k \in 1..Len(block.args)
  PROVE  ArgRight(ran', Len(ran) + 1, k)
<1> DEFINE n == Len(ran) + 1
           new == Run(block, r)
           p == Declared(ps, block.declares)
           word == block.args[k].words[1]
           v == word[2]
           names == Range(block.declares)
<1>1. /\ ran \in Seq(Range(ran)) /\ IsBlock(block) /\ block.declares \in Seq(Names) /\ IsPs(ps)
      /\ ran' = Append(ran, new)
  BY DEF PluginRun, ErrorInv, PsInv, IsBlock
<1>2. new.block = block /\ new.args = PluginArgs(p, block)
  BY DEF Run
<1> HIDE DEF new
<1>3. Len(ran) \in Nat /\ ran'[n] = new /\ n \in 1..n
  BY <1>1, OneMore
<1>4. /\ DOMAIN p.dict = DOMAIN ps.dict \cup names
      /\ \A x \in names : p.dict[x] = Empty
      /\ \A x \in DOMAIN ps.dict : x \notin names => p.dict[x] = ps.dict[x]
  BY ONLY <1>1, DeclaredNames
<1> SUFFICES ASSUME Len(block.args[k].words) = 1, word[1] = "var"
             PROVE  IF v \in names THEN PluginArgs(p, block)[k] = Empty
                    ELSE ValueRight(ran', n, v, PluginArgs(p, block)[k])
  BY <1>2, <1>3 DEF ArgRight
<1>5. IsJustName(block, k, v)
  BY DEF IsJustName
<1> HIDE DEF n, p, v, names
<1>6. v \in DOMAIN p.dict => PluginArgs(p, block)[k] = p.dict[v]
  BY <1>1, <1>5, ArgIsValue
<1>7. \A value : ValueRight(ran, n, v, value) <=> ValueRight(ran', n, v, value)
  <2>1. n \in 1..Len(ran) + 1
    BY <1>3 DEF n
  <2> QED
    BY ONLY <1>1, <2>1, SameRuns
<1>8. /\ Declarers(ran, n, v) # {} => v \in DOMAIN ps.dict
      /\ v \in DOMAIN ps.dict => ValueRight(ran, n, v, ps.dict[v])
  BY DEF ValueInv, DictRight, n
<1>9. CASE v \in names
  BY ONLY <1>4, <1>6, <1>9
<1>10. CASE v \notin names /\ v \in DOMAIN ps.dict
  BY ONLY <1>4, <1>6, <1>7, <1>8, <1>10
<1>11. CASE v \notin names /\ v \notin DOMAIN ps.dict
  <2>1. Declarers(ran, n, v) = {}
    BY <1>8, <1>11
  <2>2. ValueRight(ran, n, v, PluginArgs(p, block)[k])
    BY ONLY <2>1 DEF ValueRight
  <2> QED
    BY ONLY <1>7, <1>11, <2>2
<1> QED
  BY <1>9, <1>10, <1>11

\* As many arguments as the block has.
LEMMA SameLength ==
  ASSUME NEW p, NEW block, IsBlock(block)
  PROVE  Len(PluginArgs(p, block)) = Len(block.args)
<1>1. Len(block.args) \in Nat
  BY LenProperties DEF IsBlock, IsList
<1>2. Len(yaml_args_populate(block.args)) = Len(block.args)
  BY <1>1 DEF yaml_args_populate
<1> QED
  BY <1>1, <1>2 DEF PluginArgs, update_vars_with_env_values

\* The names on the list after one more block wait for a value.
LEMMA ListAfter ==
  ASSUME PsInv, ErrorInv, ValueInv, NEW block, NEW r, PluginRun(block, r)
  PROVE  ListRight(ps', ran')
<1> DEFINE new == Run(block, r)
           N == Len(ran)
<1>1. /\ ran \in Seq(Range(ran)) /\ block.declares \in Seq(Names) /\ ps.list \in Seq(Names)
      /\ ran' = Append(ran, new)
  BY DEF PluginRun, ErrorInv, PsInv, IsPs, IsBlock
<1>2. new.names = ps.list \o block.declares /\ ps'.list = IF Taken(new) THEN <<>> ELSE new.names
  BY BlockNames
<1>3. new.block = block
  BY DEF Run
<1> HIDE DEF new
<1>4. N \in Nat /\ Len(ran') = N + 1 /\ Len(ran') + 1 = N + 2
  BY <1>1, OneMore
<1>5. /\ Left(ran', N + 2) = IF Taken(new) THEN <<>> ELSE new.names
      /\ \A v : Declarers(ran', N + 2, v) =
                  Declarers(ran, N + 1, v) \cup (IF v \in Range(block.declares) THEN {N + 1} ELSE {})
      /\ \A d \in 1..N + 1 : Takers(ran', d, N + 2) =
                  Takers(ran, d, N + 1) \cup (IF Taken(new) THEN {N + 1} ELSE {})
  BY <1>1, <1>3, NewRun
<1> HIDE DEF N
<1>6. ASSUME NEW v \in Range(ps'.list)
      PROVE  \E d \in Declarers(ran', N + 2, v) : Takers(ran', d, N + 2) = {}
  <2>1. ~Taken(new) /\ v \in Range(ps.list) \cup Range(block.declares)
    <3>1. ~Taken(new)
      <4>1. Range(<<>>) = {}
        BY DEF Range
      <4> QED
        BY <1>2, <1>6, <4>1
    <3>2. Range(ps.list \o block.declares) \subseteq Range(ps.list) \cup Range(block.declares)
      BY <1>1, RangeConcat
    <3> QED
      BY <1>2, <1>6, <3>1, <3>2
  <2>2. CASE v \in Range(block.declares)
    <3>1. N + 1 \in Declarers(ran', N + 2, v) /\ N + 1 \in 1..N + 1
      BY <1>4, <1>5, <2>2
    <3>2. Takers(ran, N + 1, N + 1) = {}
      BY <1>4 DEF Takers
    <3>3. Takers(ran', N + 1, N + 2) = {}
      BY ONLY <1>5, <2>1, <3>1, <3>2
    <3> QED
      BY <3>1, <3>3
  <2>3. CASE v \in Range(ps.list)
    <3>1. PICK d \in Declarers(ran, N + 1, v) : Takers(ran, d, N + 1) = {}
      BY <2>3 DEF ValueInv, ListRight, N
    <3>2. d \in 1..N + 1
      BY <1>4, <3>1 DEF Declarers
    <3>3. Takers(ran', d, N + 2) = {}
      BY ONLY <1>5, <2>1, <3>1, <3>2
    <3>4. d \in Declarers(ran', N + 2, v)
      BY <1>5
    <3> QED
      BY <3>3, <3>4
  <2> QED
    BY <2>1, <2>2, <2>3
<1> QED
  BY <1>2, <1>4, <1>5, <1>6 DEF ListRight

\* The values after one more block.
LEMMA DictAfter ==
  ASSUME PsInv, ErrorInv, ValueInv, NEW block, NEW r, PluginRun(block, r)
  PROVE  DictRight(ps', ran')
<1> DEFINE new == Run(block, r)
           N == Len(ran)
           names == Range(block.declares)
           Was(v) == IF v \in names THEN Empty ELSE ps.dict[v]
<1>1. /\ ran \in Seq(Range(ran)) /\ block.declares \in Seq(Names) /\ ps.list \in Seq(Names)
      /\ ran' = Append(ran, new)
  BY DEF PluginRun, ErrorInv, PsInv, IsPs, IsBlock
<1>2. /\ new.names = ps.list \o block.declares /\ new.names \in Seq(Names)
      /\ DOMAIN ps'.dict = DOMAIN ps.dict \cup names
      /\ \A v \in DOMAIN ps'.dict : Makes(new, v, Was(v), ps'.dict[v])
  BY BlockNames
<1>3. new.block = block
  BY DEF Run
<1> HIDE DEF new
<1>4. N \in Nat /\ Len(ran') + 1 = N + 2
  BY <1>1, OneMore
<1>5. \A v : Declarers(ran', N + 2, v) =
               Declarers(ran, N + 1, v) \cup (IF v \in names THEN {N + 1} ELSE {})
  BY <1>1, <1>3, NewRun
<1>6. /\ \A v : Declarers(ran, N + 1, v) # {} => v \in DOMAIN ps.dict
      /\ \A v \in DOMAIN ps.dict : ValueRight(ran, N + 1, v, ps.dict[v])
      /\ \A v \in Range(ps.list) : \E d \in Declarers(ran, N + 1, v) : Takers(ran, d, N + 1) = {}
  BY DEF ValueInv, DictRight, ListRight
<1>7. ASSUME NEW v, Declarers(ran', N + 2, v) # {}
      PROVE  v \in DOMAIN ps'.dict
  BY <1>2, <1>5, <1>6, <1>7
<1>8. ASSUME NEW v \in DOMAIN ps'.dict
      PROVE  ValueRight(ran', N + 2, v, ps'.dict[v])
  <2>1. Makes(new, v, Was(v), ps'.dict[v])
    BY <1>2
  <2>2. v \in Range(new.block.declares) => Was(v) = Empty
    BY <1>3
  <2>3. v \notin Range(new.block.declares) =>
          v \notin names /\ v \in DOMAIN ps.dict /\ Was(v) = ps.dict[v]
    BY <1>2, <1>3
  <2>4. Places(new, v) # {} /\ v \notin names => v \in Range(ps.list)
    <3>1. \A p \in 1..Len(new.names) : new.names[p] \in Range(new.names)
      BY <1>2, LenProperties DEF Range
    <3>2. Range(new.names) \subseteq Range(ps.list) \cup names
      BY <1>1, <1>2, RangeConcat
    <3> QED
      BY <3>1, <3>2 DEF Places
  <2> HIDE DEF Was, N, names
  <2>5. v \notin Range(new.block.declares) =>
           /\ ValueRight(ran, N + 1, v, Was(v))
           /\ Places(new, v) # {} =>
                \E d \in Declarers(ran, N + 1, v) : Takers(ran, d, N + 1) = {}
    BY ONLY <1>6, <2>3, <2>4
  <2> DEFINE before == Was(v)
             after == ps'.dict[v]
  <2>6. /\ Makes(new, v, before, after)
        /\ v \in Range(new.block.declares) => before = Empty
        /\ v \notin Range(new.block.declares) =>
             /\ ValueRight(ran, Len(ran) + 1, v, before)
             /\ Places(new, v) # {} =>
                  \E d \in Declarers(ran, Len(ran) + 1, v) : Takers(ran, d, Len(ran) + 1) = {}
    BY <2>1, <2>2, <2>5 DEF N
  <2> HIDE DEF before, after
  <2>7. ValueRight(Append(ran, new), Len(ran) + 2, v, after)
    BY ONLY <1>1, <2>6, ValueAfter
  <2> QED
    BY <1>1, <2>7 DEF N, after
<1> QED
  BY <1>4, <1>7, <1>8 DEF DictRight

\* The names have the values that the blocks gave them, and the arguments are
\* these values.
LEMMA ValueStep ==
  ASSUME PlaceInv, PsInv, ErrorInv, ValueInv, ArgsFromDeclarer, [Next]_vars
  PROVE  ValueInv' /\ ArgsFromDeclarer'
<1>1. CASE ~PluginRuns
  <2>1. UNCHANGED <<ps, ran>>
    BY <1>1, OtherSteps DEF history
  <2> QED
    BY <2>1 DEF ValueInv, ArgsFromDeclarer
<1>2. CASE PluginRuns
  <2>0. PICK block, r : PluginRun(block, r)
    BY <1>2, PluginRan
  <2> DEFINE new == Run(block, r)
             N == Len(ran)
  <2>1. /\ ran \in Seq(Range(ran)) /\ IsBlock(block) /\ block.declares \in Seq(Names)
        /\ ran' = Append(ran, new)
    BY <2>0 DEF PluginRun, ErrorInv, IsBlock
  <2>2. ValueInv'
    BY <2>0, ListAfter, DictAfter DEF ValueInv
  <2>3. new.names = ps.list \o block.declares
    BY <2>0, BlockNames
  <2>4. new.block = block /\ Len(new.args) = Len(block.args)
    BY <2>1, SameLength DEF Run
  <2> HIDE DEF new
  <2>5. /\ N \in Nat /\ Len(ran') = N + 1 /\ ran'[N + 1] = new
        /\ \A i \in 1..N : ran'[i] = ran[i]
    BY <2>1, OneMore
  <2>6. ASSUME NEW n \in 1..N
        PROVE  /\ ran'[n].names = Left(ran', n) \o ran'[n].block.declares
               /\ \A k \in 1..Len(ran'[n].args) : ArgRight(ran', n, k)
    <3>1. n \in 1..Len(ran) + 1 /\ ran'[n] = ran[n]
      BY <2>5
    <3>2. Left(ran', n) = Left(ran, n)
          /\ \A v, value : ValueRight(ran, n, v, value) <=> ValueRight(ran', n, v, value)
      BY ONLY <2>1, <3>1, SameRuns
    <3>3. /\ ran[n].names = Left(ran, n) \o ran[n].block.declares
          /\ \A k \in 1..Len(ran[n].args) : ArgRight(ran, n, k)
      BY DEF ArgsFromDeclarer
    <3> QED
      BY ONLY <3>1, <3>2, <3>3 DEF ArgRight
  <2>7. /\ new.names = Left(ran', N + 1) \o block.declares
        /\ \A k \in 1..Len(new.args) : ArgRight(ran', N + 1, k)
    <3>1. N + 1 \in 1..Len(ran) + 1
      BY <2>5
    <3>2. Left(ran', N + 1) = Left(ran, N + 1)
      BY ONLY <2>1, <3>1, SameRuns
    <3>3. ps.list = Left(ran, N + 1)
      BY DEF ValueInv, ListRight
    <3>4. \A k \in 1..Len(block.args) : ArgRight(ran', N + 1, k)
      BY <2>0, NewArg
    <3> QED
      BY ONLY <2>3, <2>4, <3>2, <3>3, <3>4
  <2>8. \A n \in 1..N + 1 : n \in 1..N \/ n = N + 1
    BY <2>5
  <2> HIDE DEF N
  <2>9. ArgsFromDeclarer'
    BY ONLY <2>4, <2>5, <2>6, <2>7, <2>8 DEF ArgsFromDeclarer
  <2> QED
    BY <2>2, <2>9
<1> QED
  BY <1>1, <1>2

-----------------------------------------------------------------------------
(* The theorems *)

\* The first state.
LEMMA FfdcStart ==
  ASSUME Init
  PROVE  FfdcInv
<1> USE DEF Init
<1>1. PlaceInv
  <2>1. Len(config) \in Nat
    BY FfdcAssumption, LenProperties DEF IsList
  <2> QED
    BY <2>1 DEF PlaceInv, Points, Protocols
<1>2. WorkInv
  BY DEF WorkInv
<1>3. PsInv
  <2>1. ps.list = <<>> /\ ps.dict = <<>> /\ ps.exit_on_error = FALSE /\ Range(<<>>) = {}
    BY DEF NoPlugins, Range
  <2> QED
    BY <2>1 DEF PsInv, IsPs, NoPlugins
<1>4. ErrorInv /\ FilesInv /\ ValueInv /\ ArgsFromDeclarer
  <2>1. 1..Len(ran) = {} /\ Len(ran) = 0 /\ ps.list = <<>> /\ DOMAIN ps.dict = {}
    BY DEF NoPlugins
  <2>2. \A v : Declarers(ran, Len(ran) + 1, v) = {}
    BY DEF Declarers
  <2>3. Left(ran, Len(ran) + 1) = <<>> /\ Range(<<>>) = {}
    BY <2>1 DEF Left, Range
  <2> QED
    BY <2>1, <2>2, <2>3 DEF ErrorInv, NoCallAfterError, FilesInv, FileOfCommand, ValueInv, ListRight,
      DictRight, ArgsFromDeclarer
<1> QED
  BY <1>1, <1>2, <1>3, <1>4 DEF FfdcInv

\* The invariant of a run of the collector.
THEOREM FfdcInvariant == Spec => []FfdcInv
<1>1. FfdcInv /\ [Next]_vars => FfdcInv'
  BY PlaceStep, WorkStep, ErrorStep, FilesStep, ValueStep DEF FfdcInv
<1> QED
  BY <1>1, FfdcStart, PTL DEF Spec

\* A group is run only if it was asked for, and over a client that is connected,
\* for every configuration in which no SSH group comes after an SCP one,
\* whatever failed before it (generate_ffdc, ssh_to_target_system).
THEOREM FfdcGroups == Spec => []GroupsRight
<1>1. FfdcInv => GroupsRight
  <2> SUFFICES ASSUME FfdcInv
               PROVE  GroupsRight
    OBVIOUS
  <2>1. Len(config) \in Nat
    BY FfdcAssumption, LenProperties DEF FfdcInv, PlaceInv, IsList
  <2>2. TypeOK
    BY <2>1 DEF FfdcInv, PlaceInv, WorkInv, PsInv, IsPs, TypeOK, Points
  <2>3. ClientConnected
    BY DEF FfdcInv, PlaceInv, WorkInv, ClientConnected, Protocols
  <2>4. OnlyRequested
    BY DEF FfdcInv, PlaceInv, WorkInv, OnlyRequested
  <2> QED
    BY <2>2, <2>3, <2>4 DEF GroupsRight
<1> QED
  BY <1>1, FfdcInvariant, PTL

\* A block with exit_on_error is not called once any block before it met an
\* error, for every configuration and every outcome of the functions
\* (plugin_error_check, execute_plugin_block).
THEOREM FfdcNoCallAfterError == Spec => []NoCallAfterError
<1>1. FfdcInv => NoCallAfterError
  BY DEF FfdcInv, ErrorInv
<1> QED
  BY <1>1, FfdcInvariant, PTL

\* What a command returned is in the file with its place in FILES, and in none
\* if that is "None" (protocol_service_execute and protocol_telnet), whatever
\* was skipped before it.
THEOREM FfdcFiles == Spec => []FileOfCommand
<1>1. FfdcInv => FileOfCommand
  BY DEF FfdcInv, FilesInv
<1> QED
  BY <1>1, FfdcInvariant, PTL

\* An argument that is just the name of a variable is passed what the first
\* response that was taken since the name's last declaration holds in its place,
\* and "" if that is nothing or there was none, over any sequence of blocks and
\* of outcomes: texts, numbers, lists, tuples and dictionaries, blocks that fail
\* and leave their names waiting (execute_plugin_block,
\* process_response_args_data).
THEOREM FfdcArguments == Spec => []ArgsFromDeclarer
<1>1. FfdcInv => ArgsFromDeclarer
  BY DEF FfdcInv
<1> QED
  BY <1>1, FfdcInvariant, PTL

=============================================================================
