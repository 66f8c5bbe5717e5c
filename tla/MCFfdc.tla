------------------------------- MODULE MCFfdc -------------------------------
(* The configurations the collector is run with. *)
EXTENDS FfdcCollector

Lit(x) == Text(<< <<"lit", x>> >>)
Var(x) == Text(<< <<"var", x>> >>)
Env(x) == Text(<< <<"env", x>> >>)
Cmd(arg) == [kind |-> "text", arg |-> arg]
Timed(arg) == [kind |-> "timed", arg |-> arg]
Plugin(names, args, error, expects) ==
  [kind |-> "plugin",
   block |-> [declares |-> names, args |-> args, blank_args |-> FALSE,
              plugin_error |-> error, expects |-> expects]]
BlankPlugin(names) ==
  [kind |-> "plugin",
   block |-> [declares |-> names, args |-> <<>>, blank_args |-> TRUE,
              plugin_error |-> "no", expects |-> "nothing"]]

Ssh(n)     == [PROTOCOL |-> "SSH", COMMANDS |-> [k \in 1..n |-> Timed(Lit("cat"))], FILES |-> <<"a", "b*">>]
SshEmpty   == [PROTOCOL |-> "SSH", FILES |-> <<"a">>]
Scp        == [PROTOCOL |-> "SCP", COMMANDS |-> <<Cmd(Lit("ls"))>>]
Telnet     == [PROTOCOL |-> "TELNET", COMMANDS |-> <<Cmd(Lit("x")), Cmd(Lit("y"))>>, FILES |-> <<"t">>]
TelnetNone == [PROTOCOL |-> "TELNET", FILES |-> <<"t">>]
TelnetBare == [PROTOCOL |-> "TELNET", COMMANDS |-> <<Cmd(Lit("x"))>>]
Redfish    == [PROTOCOL |-> "REDFISH", COMMANDS |-> <<Cmd(Lit("get")), Cmd(Var("v"))>>, FILES |-> <<"r1", "r2">>]
Ipmi       == [PROTOCOL |-> "IPMI", COMMANDS |-> <<Timed(Lit("sel"))>>, FILES |-> <<"i">>]
Shell(cmds, files) == [PROTOCOL |-> "SHELL", COMMANDS |-> cmds, FILES |-> files]

MCConfigs == {
  <<Ssh(2), Scp, Redfish, Ipmi>>,
  <<Scp, SshEmpty, Telnet>>,
  <<TelnetNone>>,
  <<TelnetBare, Shell(<<Cmd(Env("e"))>>, <<>>)>>,
  \* one result used by the blocks after it
  <<Shell(<<Plugin(<<"v">>, <<Env("e")>>, "no", "str"),
            Plugin(<<"w">>, <<Var("v"), Lit("x")>>, "exit_on_error", "nothing"),
            Plugin(<<>>, <<Var("v"), Var("w")>>, "continue_on_error", "nothing"),
            Cmd(Var("w"))>>, <<"None", "None", "p3", "p4">>),
    Redfish>>,
  \* several results, a redeclared name, a block without arguments
  <<Shell(<<Plugin(<<"v", "w">>, <<>>, "no", "nothing"),
            BlankPlugin(<<"u">>),
            Plugin(<<"v">>, <<Var("v"), Var("w")>>, "no", "?"),
            Plugin(<<>>, <<Var("v")>>, "exit_on_error", "list")>>, <<"None", "q2", "q3">>)>>
}
=============================================================================
