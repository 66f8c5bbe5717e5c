---------------------------- MODULE MachineState ----------------------------
(***************************************************************************)
(* How lib/state.py obtains the state of the machine (get_state,           *)
(* get_os_state), and how it waits for the BMC to go away and come back    *)
(* (wait_for_comm_cycle), whose test compares two clocks read one after    *)
(* the other while the BMC may reboot at any moment.                       *)
(*                                                                         *)
(* Data.  A world is what a request meets: redfish_support_trans_state,    *)
(* does the BMC's interface answer, the states it reports (those that it   *)
(* has: any may be absent), does the operating system ping and let one log *)
(* in.  A failed read gives "".  The platform is "power", whose states are *)
(* those of all tables.  Time goes in ticks, a part of a second, and both  *)
(* clocks are read in whole seconds.                                       *)
(***************************************************************************)
EXTENDS Integers, StateMatch

CONSTANTS
  SubStates,     \* the sub-states requests are made of
  Reports,       \* what the BMC may report by redfish, or not: functions from
                 \* the states it has to texts
  Second,        \* how many ticks a second has
  MaxNow,        \* bound: the last tick
  ReadGap,       \* bound: the ticks between the two reads of a poll
  MaxPolls       \* how many polls fit into a wait time

ASSUME StateAssumption ==
  Second \in Nat \ {0} /\ MaxNow \in Nat /\ ReadGap \in Nat /\ MaxPolls \in Nat

-----------------------------------------------------------------------------
(* Obtaining a state *)

interface(world) == IF world.redfish THEN "redfish" ELSE "rest"
\* The lists end with a missing comma: "requested_chassisbmcrequested_bmc" is
\* one name, so a request for only these three does not ask the BMC.
master_req(world) ==
  {interface(world), "host", "requested_host", "attempts_left", "boot_progress", "chassis"}
    \cup (IF world.redfish THEN {} ELSE {"operating_system"})

\* What may be requested of an interface, of what the other one has.
valid_req_states(world) ==
  SubStates \ (IF world.redfish THEN {"rest", "operating_system"} ELSE {"redfish"})

Needed(req_states, world) == req_states \cap master_req(world) # {}

\* What the enumeration, or "Redfish Get States", adds: with REST the states
\* that are requested, with redfish always the same.
Reported(req_states, world) ==
  LET wanted == IF world.redfish THEN {"chassis", "host", "bmc", "boot_progress"} ELSE req_states
      given  == {s \in wanted \cap DOMAIN world.reports : world.answers}
  IN  [s \in {interface(world)} \cup given |->
         CASE s # interface(world) -> world.reports[s]
           [] s = interface(world) /\ world.answers -> "1"
           [] OTHER -> "0"]

\* The variables as they are initialised, or as ping and ssh set them.
Initial(s, world) == CASE s = "ping" -> IF world.pings THEN "1" ELSE "0"
                       [] s = "boot_progress" -> "NA"
                       [] OTHER -> ""

is_os(s) == s \in {"os_ping", "os_login", "os_run_cmd"}
Works(s, world) == IF s = "os_ping" THEN world.os_pings ELSE world.os_login

\* get_os_state: nothing is asked of a system that cannot be up.
get_os_state(req_states, os_up, world) ==
  [s \in req_states |-> IF os_up /\ Works(s, world) THEN "1" ELSE "0"]

OneOf(expression, texts) == [text |-> expression, bare |-> expression, alts |-> texts]

\* A master dictionary to determine whether the os may be up, for each interface.
\* "StartingOS" is "FW Progress, Starting OS".
master_os_up_match_rest ==
  [chassis          |-> Exactly("^On$", "On"),
   bmc              |-> Exactly("^Ready$", "Ready"),
   boot_progress    |-> OneOf("StartingOS|OSStart", {"StartingOS", "OSStart"}),
   operating_system |-> OneOf("BootComplete", {"BootComplete"}),
   host             |-> OneOf("^Running|Quiesced$", {"Running", "Quiesced"})]

master_os_up_match_redfish ==
  [chassis          |-> Exactly("^On$", "On"),
   bmc              |-> Exactly("^Enabled$", "Enabled"),
   boot_progress    |-> OneOf("SystemHardwareInitializationComplete|OSBootStarted|OSRunning",
                              {"SystemHardwareInitializationComplete", "OSBootStarted",
                               "OSRunning"}),
   host             |-> Exactly("^Enabled$", "Enabled")]

\* Mutant: the host's state does not matter.
Bug_os_up_match(req_states, world) ==
  [s \in req_states \cap {"chassis"} |-> Exactly("^On$", "On")]

master_os_up_match(redfish) ==
  IF redfish THEN master_os_up_match_redfish ELSE master_os_up_match_rest

\* The part of it for the states that are requested.
os_up_match(req_states, world) ==
  LET master == master_os_up_match(world.redfish)
  IN  [s \in req_states \cap DOMAIN master |-> master[s]]

get_state(req_states, os_host, world) ==
  LET read  == IF Needed(req_states, world) THEN Reported(req_states, world) ELSE <<>>
      plain == {s \in req_states : ~is_os(s)}
      state == [s \in plain \cup DOMAIN read |->
                  IF s \in DOMAIN read THEN read[s] ELSE Initial(s, world)]
      os    == {s \in req_states : is_os(s)}
      os_state == get_os_state(os, compare_states(state, os_up_match(req_states, world), "and"), world)
  IN IF ~os_host \/ os = {} THEN state
     ELSE [s \in DOMAIN state \cup os |-> IF s \in os THEN os_state[s] ELSE state[s]]

Worlds == [redfish : BOOLEAN, answers : BOOLEAN, reports : Reports[TRUE] \cup Reports[FALSE],
           pings : BOOLEAN, os_pings : BOOLEAN, os_login : BOOLEAN]

\* What a request can meet, where all that it does not ask for is as if it were
\* down.
MetBy(req_states, world) ==
  /\ world.reports \in Reports[world.redfish]
  /\ world.pings => "ping" \in req_states
  /\ world.os_pings => "os_ping" \in req_states
  /\ world.os_login => req_states \cap {"os_login", "os_run_cmd"} # {}

-----------------------------------------------------------------------------
VARIABLES
  reply,         \* the last request of a state and its answer
  now, booted,   \* ticks, and when the BMC last booted
  comm,          \* the BMC can be reached
  poll,          \* where the wait is: its phase, reads and polls so far
  start,         \* start_boot_seconds, or -1
  began          \* when that was read, and how long the BMC had then run

stateVars == <<reply, now, booted, comm, poll, start, began>>
machine   == <<now, booted, comm>>
waited    == <<start, began>>

NoReply == [req |-> {}, os_host |-> FALSE, world |-> [answers |-> FALSE], state |-> <<>>]
\* "of" is the boot whose uptime was read last, "missed" the one of the last
\* poll that did not do.
NoPoll(at) == [at |-> at, uptime |-> -1, read |-> 0, of |-> 0, missed |-> -1, polls |-> 0]

StateInit ==
  /\ reply = NoReply /\ now = 0 /\ booted = 0 /\ comm = TRUE /\ poll = NoPoll("idle")
  /\ start = -1 /\ began = [at |-> 0, ran |-> 0]

Ask ==
  /\ poll.at = "idle" /\ now = 0
  /\ \E os_host \in BOOLEAN, world \in Worlds : \E req_states \in SUBSET valid_req_states(world) :
       /\ MetBy(req_states, world)
       /\ reply' = [req |-> req_states, os_host |-> os_host, world |-> world,
                    state |-> get_state(req_states, os_host, world)]
  /\ poll' = NoPoll("asked") /\ UNCHANGED <<machine, waited>>

\* int(float(state['uptime'])), and "date -u +%s": the seconds that are over.
Whole(ticks) == ticks \div Second

\* wait_for_comm_cycle, with the time that its caller has read before.
wait_for_comm_cycle ==
  /\ poll.at = "idle" /\ start' = Whole(now) /\ poll' = NoPoll("uptime")
  /\ began' = [at |-> now, ran |-> now - booted] /\ UNCHANGED <<reply, machine>>

\* A poll: get_state reads the uptime, and then the time.
ReadUptime ==
  /\ poll.at = "uptime" /\ poll.polls < MaxPolls
  /\ poll' = [poll EXCEPT !.at = "epoch", !.read = now, !.of = booted,
                          !.uptime = IF comm THEN Whole(now - booted) ELSE -1]
  /\ UNCHANGED <<reply, machine, waited>>

\* Mutant: an uptime as long as the wait will do.
Bug_UptimeLess(uptime, elapsed) == uptime <= elapsed

UptimeLess(uptime, elapsed) == uptime < elapsed

Polled(n) == n + 1

ReadEpoch ==
  /\ poll.at = "epoch"
  /\ poll' = IF poll.uptime >= 0 /\ UptimeLess(poll.uptime, Whole(now) - start) THEN NoPoll("verify")
             ELSE [poll EXCEPT !.at = "uptime", !.polls = Polled(@),
                               !.missed = IF poll.uptime >= 0 THEN poll.of ELSE @]
  /\ UNCHANGED <<reply, machine, waited>>

\* Verifying that the REST or Redfish interface is working.
Verify ==
  /\ poll.at = "verify" /\ poll.polls < MaxPolls
  /\ poll' = IF comm THEN [poll EXCEPT !.at = "done"] ELSE [poll EXCEPT !.polls = @ + 1]
  /\ UNCHANGED <<reply, machine, waited>>

WaitTimesOut ==
  /\ poll.at \in {"uptime", "verify"} /\ poll.polls = MaxPolls
  /\ poll' = [poll EXCEPT !.at = "failed"] /\ UNCHANGED <<reply, machine, waited>>

Tick ==
  /\ now < MaxNow /\ poll.at # "asked" /\ (poll.at = "epoch" => now - poll.read < ReadGap)
  /\ now' = now + 1 /\ UNCHANGED <<reply, booted, comm, poll, waited>>

BmcGoes ==
  /\ comm /\ comm' = FALSE /\ poll.at # "asked"
  /\ UNCHANGED <<reply, now, booted, poll, waited>>

BmcBoots == ~comm /\ comm' = TRUE /\ booted' = now /\ UNCHANGED <<reply, now, poll, waited>>

CommStep == ReadUptime \/ ReadEpoch \/ Verify \/ WaitTimesOut
StateNext == Ask \/ wait_for_comm_cycle \/ CommStep \/ Tick \/ BmcGoes \/ BmcBoots
\* The wait is a loop of the caller's own, with sleeps of a fixed length.
StateFairness == WF_stateVars(CommStep)
StateSpec == StateInit /\ [][StateNext]_stateVars /\ StateFairness

-----------------------------------------------------------------------------
(* Properties *)

\* When the wait is over the BMC has booted since it began, although uptime and
\* time are read apart and cut to seconds: as long as it had run, when the time
\* was first read, for what passes between two reads and a second.  (A BMC that
\* has run for less may be taken for one that has rebooted.)  And a boot is
\* missed by no poll that reads its uptime, if it comes a second after that
\* time or later (wait_for_comm_cycle).
RebootSeen ==
  /\ poll.at \in {"verify", "done"} /\ began.ran >= ReadGap + Second => booted >= began.at
  /\ poll.missed >= 0 => poll.missed < began.at + Second

\* The wait comes to an end.
CommCycleEnds == (start >= 0) ~> (poll.at \in {"done", "failed"})

\* What the states of a machine look like whose operating system may run.
UpTexts == {"On", "Ready", "Enabled", "Running", "Quiesced", "StartingOS", "OSStart", "BootComplete",
            "SystemHardwareInitializationComplete", "OSBootStarted", "OSRunning"}

\* Each text that the BMC reports tells whether the operating system may run.
ASSUME ReportsAssumption ==
  \A redfish \in BOOLEAN : \A reports \in Reports[redfish] :
    LET master == master_os_up_match(redfish) IN
    /\ DOMAIN reports \subseteq DOMAIN master
    /\ \A s \in DOMAIN reports : reports[s] \in UpTexts <=> reports[s] \in master[s].alts

\* The states that the BMC has of those the operating system depends on, and
\* what an answer can say of them: what the BMC reports, "NA" for a boot
\* progress and nothing for another state that it does not report, and the same
\* when it does not answer or is not asked, as by a request that has nothing
\* from it but its own state ("bmc").
BmcStates(world) == DOMAIN master_os_up_match(world.redfish)
FromBmc(world) == {interface(world), "requested_host", "attempts_left"} \cup BmcStates(world)

Said(s, req, world) ==
  IF req \cap FromBmc(world) # {"bmc"} /\ world.answers /\ s \in DOMAIN world.reports
  THEN world.reports[s]
  ELSE IF s = "boot_progress" THEN "NA" ELSE ""

\* An answer has all that was requested (of the operating system only if there
\* is an os_host), and of each of the BMC's states it says what was reported:
\* nothing is made up, and nothing that was reported is lost, when some states
\* are absent.
StateAsReported == poll.at = "asked" =>
  /\ \A s \in reply.req : s \in DOMAIN reply.state \/ (is_os(s) /\ ~reply.os_host)
  /\ \A s \in reply.req \cap BmcStates(reply.world) :
       reply.state[s] = Said(s, reply.req, reply.world)

\* The operating system is reported as up exactly if it answers and the BMC
\* has said, of each of its states that was requested, that the system may be
\* up.  So a system that answers is reported as down when a requested state is
\* absent ("NA" for the boot progress), when the BMC does not answer, and when
\* only its own state was requested.
OsUpRight == poll.at = "asked" /\ reply.os_host => \A s \in reply.req : is_os(s) =>
  (reply.state[s] = "1" <=>
     /\ Works(s, reply.world)
     /\ \A r \in reply.req \cap BmcStates(reply.world) : Said(r, reply.req, reply.world) \in UpTexts)

\* What get_state returns is what was reported, and what it concludes about the
\* operating system follows from it.
StateRight == StateAsReported /\ OsUpRight

=============================================================================
