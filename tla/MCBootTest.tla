----------------------------- MODULE MCBootTest -----------------------------
(***************************************************************************)
(* Instances of the boot test: a boot table with two ways to power on, a   *)
(* power off and a BMC reboot while running, cut down from                 *)
(* data/boot_table.json.                                                   *)
(***************************************************************************)
EXTENDS BootTestProps

One     == Exactly("^1$", "1")
Off     == Exactly("^Off$", "Off")
On      == Exactly("^On$", "On")
Running1 == Exactly("^Running$", "Running")
BlankRe == [text |-> "^$", bare |-> "", alts |-> {""}]

OnStart  == [rest |-> One, chassis |-> Off]
OnEnd    == [rest |-> One, chassis |-> On, host |-> Running1]
OffStart == [rest |-> One, chassis |-> On]
OffEnd   == [rest |-> One, chassis |-> Off, host |-> Off]

AnchoredTable ==
  [b \in {"on", "off", "ipmi_on", "reboot"} |->
    CASE b = "on"     -> [start |-> OnStart,  end |-> OnEnd,  bmc_reboot |-> FALSE]
      [] b = "ipmi_on" -> [start |-> OnStart, end |-> OnEnd, bmc_reboot |-> FALSE]
      [] b = "off"    -> [start |-> OffStart, end |-> OffEnd, bmc_reboot |-> FALSE]
      [] b = "reboot" -> [start |-> OnEnd,    end |-> OnEnd,  bmc_reboot |-> TRUE]]

StateOff   == [rest |-> "1", chassis |-> "Off", host |-> "Off"]
StateOn    == [rest |-> "1", chassis |-> "On", host |-> "Running"]
StateDown  == [rest |-> "0", chassis |-> "", host |-> ""]

AllReports == {StateOff, StateOn, StateDown}
BlankMatch == [rest |-> BlankRe, chassis |-> BlankRe, host |-> BlankRe]

NormalGlob == [boot_stack |-> << >>, stack_mode |-> "normal"]
TableBoots == DOMAIN AnchoredTable

Stacks     == {<<"reboot">>, <<"off", "reboot">>}
TwoBoots   == {<<"off", "reboot">>}
LongStacks == {<<"on", "reboot">>, <<"reboot", "off", "reboot">>}
=============================================================================
