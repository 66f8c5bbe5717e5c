---------------------------- MODULE ProcessProofs ----------------------------
(***************************************************************************)
(* Proofs about waits for what goes on elsewhere: the BMC's reboot         *)
(* (MachineState), the descendants of a program (ProgramExit), the images  *)
(* of an update (CodeUpdate) and the call point programs (PlugInPackages), *)
(* for any number of polls, processes, signals, images and packages; and   *)
(* about the state that is read of a machine (MachineState), for any       *)
(* request.                                                                *)
(***************************************************************************)
EXTENDS MachineState, ProgramExit, CodeUpdate, PlugInPackages, FiniteSetTheorems,
        FunctionTheorems, SequenceTheorems, TLAPS

-----------------------------------------------------------------------------
(* MachineState *)

PollType == [at : {"idle", "asked", "uptime", "epoch", "verify", "done", "failed"},
             uptime : Int, read : Int, of : Int, missed : Int, polls : Int]

\* The types of the clocks and of the wait.
ClockType ==
  /\ now \in Nat /\ booted \in Nat /\ booted <= now /\ start \in Int /\ poll \in PollType
  /\ began \in [at : Nat, ran : Nat]

Waiting == poll.at \in {"uptime", "epoch", "verify", "done"}

\* A boot is one since the time was first read, or the one that the BMC had then
\* run for.
SinceOrBefore(b) == b >= began.at \/ b + began.ran = began.at

BeganInv == Waiting => began.at <= now /\ start = Whole(began.at) /\ SinceOrBefore(booted)

\* The second read follows the first within the time that a poll takes, and an
\* uptime is that of the boot it was read of.
ReadInv ==
  poll.at = "epoch" =>
    /\ began.at <= poll.read /\ poll.read <= now /\ now <= poll.read + ReadGap
    /\ poll.of \in Nat /\ poll.of <= poll.read /\ poll.of <= booted /\ SinceOrBefore(poll.of)
    /\ poll.uptime >= 0 => poll.uptime = Whole(poll.read - poll.of)

ClockInv == ClockType /\ BeganInv /\ ReadInv /\ RebootSeen

\* The whole seconds of a time.
LEMMA WholeBounds ==
  ASSUME NEW t \in Nat
  PROVE  Whole(t) \in Nat /\ Second * Whole(t) <= t /\ t < Second * Whole(t) + Second
BY StateAssumption DEF Whole

\* More seconds are more ticks.
LEMMA MoreTicks ==
  ASSUME NEW m \in Int, NEW n \in Int, m <= n
  PROVE  Second * m <= Second * n
BY StateAssumption

\* An uptime which was read of a boot that is so long ago is too long.
LEMMA OldBootTooLong ==
  ASSUME NEW of \in Nat, NEW at \in Nat, NEW read \in Nat, NEW t \in Nat,
         of + ReadGap + Second <= at, at <= read, read <= t, t <= read + ReadGap
  PROVE  ~(Whole(read - of) < Whole(t) - Whole(at))
<1> DEFINE u == Whole(read - of)
           e == Whole(t)
           s == Whole(at)
<1>1. read - of \in Nat /\ Second \in Nat /\ ReadGap \in Nat
  BY StateAssumption
<1>2. u \in Nat /\ read - of < Second * u + Second
  BY <1>1, WholeBounds
<1>3. e \in Nat /\ Second * e <= t
  BY WholeBounds
<1>4. s \in Nat /\ at < Second * s + Second
  BY WholeBounds
<1> HIDE DEF u, e, s
<1> SUFFICES ASSUME u < e - s PROVE FALSE
  BY DEF u, e, s
<1>5. u + s + 1 \in Int /\ e \in Int /\ u + s + 1 <= e
  BY <1>2, <1>3, <1>4
<1>6. Second * (u + s + 1) <= Second * e
  BY ONLY <1>5, MoreTicks
<1>7. Second * (u + s + 1) = Second * u + Second * s + Second
  BY <1>1, <1>2, <1>4
<1>8. Second * u \in Int /\ Second * s \in Int /\ Second * e \in Int
  BY <1>1, <1>2, <1>3, <1>4
<1> QED
  BY <1>1, <1>2, <1>3, <1>4, <1>6, <1>7, <1>8

\* An uptime which was read of a boot a second after the time began is short
\* enough.
LEMMA NewBootShort ==
  ASSUME NEW of \in Nat, NEW at \in Nat, NEW read \in Nat, NEW t \in Nat,
         at + Second <= of, of <= read, read <= t
  PROVE  Whole(read - of) < Whole(t) - Whole(at)
<1> DEFINE u == Whole(read - of)
           e == Whole(t)
           s == Whole(at)
<1>1. read - of \in Nat /\ Second \in Nat
  BY StateAssumption
<1>2. u \in Nat /\ Second * u <= read - of
  BY <1>1, WholeBounds
<1>3. e \in Nat /\ t < Second * e + Second
  BY WholeBounds
<1>4. s \in Nat /\ Second * s <= at
  BY WholeBounds
<1> HIDE DEF u, e, s
<1> SUFFICES ASSUME ~(u < e - s) PROVE FALSE
  BY DEF u, e, s
<1>5. u + s \in Int /\ e \in Int /\ e <= u + s
  BY <1>2, <1>3, <1>4
<1>6. Second * e <= Second * (u + s)
  BY ONLY <1>5, MoreTicks
<1>7. Second * (u + s) = Second * u + Second * s
  BY <1>1, <1>2, <1>4
<1>8. Second * u \in Int /\ Second * s \in Int /\ Second * e \in Int
  BY <1>1, <1>2, <1>3, <1>4
<1> QED
  BY <1>1, <1>2, <1>3, <1>4, <1>6, <1>7, <1>8

\* A wait that has not begun, or goes on to the interface, holds no reads.
LEMMA NoPollType ==
  ASSUME NEW at \in {"idle", "asked", "uptime", "verify"}
  PROVE  NoPoll(at) \in PollType /\ NoPoll(at).at = at /\ NoPoll(at).missed = -1
BY DEF NoPoll, PollType

\* In the beginning nobody waits.
LEMMA ClockInvInit == StateInit => ClockInv
<1> SUFFICES ASSUME StateInit PROVE ClockInv
  OBVIOUS
<1>1. poll \in PollType /\ poll.at = "idle" /\ poll.missed = -1
  BY NoPollType DEF StateInit
<1> QED
  BY <1>1 DEF StateInit, ClockInv, ClockType, BeganInv, ReadInv, RebootSeen, Waiting

\* Every read, tick and boot keeps the invariant.
LEMMA ClockInvStep == ClockInv /\ [StateNext]_stateVars => ClockInv'
<1> SUFFICES ASSUME ClockInv, [StateNext]_stateVars
             PROVE  ClockInv'
  OBVIOUS
<1> USE StateAssumption DEF ClockInv, machine, waited
<1>t. poll \in PollType /\ began.at \in Nat /\ began.ran \in Nat /\ now \in Nat /\ booted \in Nat
  BY DEF ClockType
<1>1. CASE Ask
  <2>1. poll' = NoPoll("asked") /\ UNCHANGED <<now, booted, start, began>>
    BY <1>1 DEF Ask
  <2>2. poll' \in PollType /\ poll'.at = "asked" /\ poll'.missed = -1
    BY <2>1, NoPollType
  <2> QED
    BY <2>1, <2>2 DEF ClockType, BeganInv, ReadInv, RebootSeen, Waiting
<1>2. CASE wait_for_comm_cycle
  <2>1. /\ poll' = NoPoll("uptime") /\ start' = Whole(now) /\ UNCHANGED <<now, booted>>
        /\ began' = [at |-> now, ran |-> now - booted]
    BY <1>2 DEF wait_for_comm_cycle
  <2>2. poll' \in PollType /\ poll'.at = "uptime" /\ poll'.missed = -1
    BY <2>1, NoPollType
  <2>3. Whole(now) \in Nat
    BY <1>t, WholeBounds
  <2>4. began' \in [at : Nat, ran : Nat] /\ began'.at = now /\ began'.ran = now - booted
    BY <2>1 DEF ClockType
  <2>5. (start = Whole(began.at))'
    BY <2>1, <2>4 DEF Whole
  <2> QED
    BY <2>1, <2>2, <2>3, <2>4, <2>5 DEF ClockType, BeganInv, ReadInv, RebootSeen, Waiting, SinceOrBefore
<1>3. CASE ReadUptime
  <2> DEFINE u == IF comm THEN Whole(now - booted) ELSE -1
  <2>1. /\ poll.at = "uptime" /\ UNCHANGED <<now, booted, start, began>>
        /\ poll' = [poll EXCEPT !.at = "epoch", !.read = now, !.of = booted, !.uptime = u]
    BY <1>3 DEF ReadUptime
  <2>2. u \in Int /\ (u >= 0 => u = Whole(now - booted))
    BY WholeBounds DEF ClockType
  <2> HIDE DEF u
  <2>3. /\ poll' \in PollType /\ poll'.at = "epoch" /\ poll'.read = now /\ poll'.of = booted
        /\ poll'.uptime = u /\ poll'.missed = poll.missed
    <3> DEFINE p == [poll EXCEPT !.at = "epoch"]
               q == [p EXCEPT !.read = now]
               r == [q EXCEPT !.of = booted]
               s == [r EXCEPT !.uptime = u]
    <3>1. p \in PollType /\ p.at = "epoch" /\ p.missed = poll.missed
      BY ONLY <1>t DEF PollType
    <3>5. poll' = s
      BY <2>1
    <3> HIDE DEF p
    <3>2. q \in PollType /\ q.at = "epoch" /\ q.missed = poll.missed /\ q.read = now
      BY ONLY <1>t, <3>1 DEF PollType
    <3> HIDE DEF q
    <3>3. r \in PollType /\ r.at = "epoch" /\ r.missed = poll.missed /\ r.read = now /\ r.of = booted
      BY ONLY <1>t, <3>2 DEF PollType
    <3> HIDE DEF r
    <3>4. /\ s \in PollType /\ s.at = "epoch" /\ s.missed = poll.missed /\ s.read = now /\ s.of = booted
          /\ s.uptime = u
      BY ONLY <2>2, <3>3 DEF PollType
    <3> QED
      BY ONLY <3>4, <3>5
  <2>4. BeganInv' /\ RebootSeen'
    BY <2>1, <2>3 DEF BeganInv, RebootSeen, Waiting, SinceOrBefore, Whole
  <2>5. ReadInv'
    BY <2>1, <2>2, <2>3 DEF ReadInv, ClockType, BeganInv, Waiting, SinceOrBefore, Whole
  <2> QED
    BY <2>1, <2>3, <2>4, <2>5 DEF ClockType
<1>4. CASE ReadEpoch
  <2>1. poll.at = "epoch" /\ UNCHANGED <<now, booted, start, began>>
    BY <1>4 DEF ReadEpoch
  <2>2. /\ began.at <= poll.read /\ poll.read <= now /\ now <= poll.read + ReadGap
        /\ poll.of \in Nat /\ poll.of <= poll.read /\ poll.of <= booted /\ SinceOrBefore(poll.of)
        /\ poll.uptime >= 0 => poll.uptime = Whole(poll.read - poll.of)
        /\ start = Whole(began.at) /\ poll.read \in Nat
    BY <2>1, <1>t DEF ReadInv, BeganInv, Waiting, PollType
  <2>3. CASE poll.uptime >= 0 /\ poll.uptime < Whole(now) - start /\ poll' = NoPoll("verify")
    <3>1. poll' \in PollType /\ poll'.at = "verify" /\ poll'.missed = -1
      BY <2>3, NoPollType
    <3>2. began.ran >= ReadGap + Second => booted >= began.at
      <4> SUFFICES ASSUME began.ran >= ReadGap + Second, ~(poll.of >= began.at) PROVE FALSE
        BY <1>t, <2>2
      <4>1. poll.of + ReadGap + Second <= began.at
        BY <1>t, <2>2 DEF SinceOrBefore
      <4>2. ~(Whole(poll.read - poll.of) < Whole(now) - Whole(began.at))
        BY <1>t, <2>2, <4>1, OldBootTooLong
      <4> QED
        BY <2>2, <2>3, <4>2
    <3>3. BeganInv' /\ ReadInv' /\ RebootSeen'
      BY <2>1, <3>1, <3>2 DEF BeganInv, ReadInv, RebootSeen, Waiting, SinceOrBefore, Whole
    <3> QED
      BY <2>1, <3>1, <3>3 DEF ClockType
  <2>4. CASE /\ ~(poll.uptime >= 0 /\ poll.uptime < Whole(now) - start)
             /\ poll' = [poll EXCEPT !.at = "uptime", !.polls = poll.polls + 1,
                                     !.missed = IF poll.uptime >= 0 THEN poll.of ELSE poll.missed]
    <3>1. /\ poll' \in PollType /\ poll'.at = "uptime"
          /\ poll'.missed = IF poll.uptime >= 0 THEN poll.of ELSE poll.missed
      <4> DEFINE m == IF poll.uptime >= 0 THEN poll.of ELSE poll.missed
                 p == [poll EXCEPT !.at = "uptime"]
                 q == [p EXCEPT !.polls = poll.polls + 1]
                 r == [q EXCEPT !.missed = m]
      <4>1. p \in PollType /\ p.at = "uptime" /\ poll.polls + 1 \in Int /\ m \in Int
        BY ONLY <1>t DEF PollType
      <4>4. poll' = r
        BY <2>4
      <4> HIDE DEF p, m
      <4>2. q \in PollType /\ q.at = "uptime"
        BY ONLY <4>1 DEF PollType
      <4> HIDE DEF q
      <4>3. r \in PollType /\ r.at = "uptime" /\ r.missed = m
        BY ONLY <4>1, <4>2 DEF PollType
      <4> QED
        BY ONLY <4>3, <4>4 DEF m
    <3>2. poll.uptime >= 0 => poll.of < began.at + Second
      <4> SUFFICES ASSUME poll.uptime >= 0, began.at + Second <= poll.of PROVE FALSE
        BY <1>t, <2>2
      <4>1. Whole(poll.read - poll.of) < Whole(now) - Whole(began.at)
        BY <1>t, <2>2, NewBootShort
      <4> QED
        BY <2>2, <2>4, <4>1
    <3>3. BeganInv' /\ ReadInv'
      BY <2>1, <3>1 DEF BeganInv, ReadInv, Waiting, SinceOrBefore, Whole
    <3>4. RebootSeen'
      BY <2>1, <3>1, <3>2 DEF RebootSeen
    <3> QED
      BY <2>1, <3>1, <3>3, <3>4 DEF ClockType
  <2> QED
    BY <1>4, <2>3, <2>4 DEF ReadEpoch, UptimeLess, Polled
<1>5. CASE Verify
  <2>1. /\ poll.at = "verify" /\ UNCHANGED <<now, booted, start, began>>
        /\ \/ poll' = [poll EXCEPT !.at = "done"]
           \/ poll' = [poll EXCEPT !.polls = poll.polls + 1]
    BY <1>5 DEF Verify
  <2>2. poll' \in PollType /\ poll'.at \in {"verify", "done"} /\ poll'.missed = poll.missed
    BY ONLY <2>1, <1>t DEF PollType
  <2> QED
    BY <2>1, <2>2 DEF ClockType, BeganInv, ReadInv, RebootSeen, Waiting, SinceOrBefore, Whole
<1>6. CASE WaitTimesOut
  <2>1. poll' = [poll EXCEPT !.at = "failed"] /\ UNCHANGED <<now, booted, start, began>>
    BY <1>6 DEF WaitTimesOut
  <2>2. poll' \in PollType /\ poll'.at = "failed" /\ poll'.missed = poll.missed
    BY ONLY <2>1, <1>t DEF PollType
  <2> QED
    BY <2>1, <2>2 DEF ClockType, BeganInv, ReadInv, RebootSeen, Waiting
<1>7. CASE Tick
  <2>1. /\ now' = now + 1 /\ UNCHANGED <<booted, poll, start, began>>
        /\ poll.at = "epoch" => now - poll.read < ReadGap
    BY <1>7 DEF Tick
  <2>2. poll.read \in Int /\ poll.of \in Int
    BY DEF ClockType, PollType
  <2> QED
    BY <1>t, <2>1, <2>2 DEF ClockType, BeganInv, ReadInv, RebootSeen, Waiting, SinceOrBefore, Whole
<1>8. CASE BmcGoes \/ UNCHANGED stateVars
  BY <1>8 DEF BmcGoes, stateVars, ClockType, BeganInv, ReadInv, RebootSeen, Waiting, SinceOrBefore, Whole
<1>9. CASE BmcBoots
  <2>1. booted' = now /\ UNCHANGED <<now, poll, start, began>>
    BY <1>9 DEF BmcBoots
  <2>2. poll.at = "epoch" => poll.of \in Nat /\ poll.of <= booted
    BY DEF ReadInv
  <2> QED
    BY <1>t, <2>1, <2>2 DEF ClockType, BeganInv, ReadInv, RebootSeen, Waiting, SinceOrBefore, Whole
<1> QED
  BY <1>1, <1>2, <1>3, <1>4, <1>5, <1>6, <1>7, <1>8, <1>9 DEF StateNext, CommStep

\* However ticks, reads and boots of the BMC fall, when wait_for_comm_cycle ends
\* well the BMC has booted since the time was first read, if it had then run for
\* a second more than may pass between the two reads of a poll; and no poll
\* misses a boot that comes a second after that time.  Both clocks are read in
\* whole seconds, of any number of ticks.
THEOREM RebootIsSeen == StateSpec => []RebootSeen
BY ClockInvInit, ClockInvStep, PTL DEF StateSpec, ClockInv

\* An expression that is considered, and that a state which was not read does
\* not match.
AsksForAText(e) == e.text # "" /\ "" \notin e.alts /\ "NA" \notin e.alts

LEMMA ExactlyAsks ==
  ASSUME NEW e, NEW v, e # "", v # "", v # "NA"
  PROVE  AsksForAText(Exactly(e, v))
BY DEF Exactly, AsksForAText

LEMMA OneOfAsks ==
  ASSUME NEW e, NEW texts, e # "", "" \notin texts, "NA" \notin texts
  PROVE  AsksForAText(OneOf(e, texts))
BY DEF OneOf, AsksForAText

\* The states on which the operating system depends, none of which it has
\* itself.
DependsOn(redfish) == {"chassis", "bmc", "boot_progress", "host"} \cup (IF redfish THEN {} ELSE {"operating_system"})

LEMMA MasterIs ==
  ASSUME NEW redfish \in BOOLEAN
  PROVE  /\ DOMAIN master_os_up_match(redfish) = DependsOn(redfish)
         /\ \A s \in DependsOn(redfish) : AsksForAText(master_os_up_match(redfish)[s])
<1>1. CASE redfish
  <2> DEFINE m == master_os_up_match_redfish
  <2>1. master_os_up_match(redfish) = m /\ DependsOn(redfish) = {"chassis", "bmc", "boot_progress", "host"}
    BY <1>1 DEF master_os_up_match, DependsOn
  <2>2. DOMAIN m = {"chassis", "bmc", "boot_progress", "host"}
    BY DEF master_os_up_match_redfish
  <2>3. AsksForAText(m["chassis"])
    BY ExactlyAsks DEF master_os_up_match_redfish
  <2>4. AsksForAText(m["bmc"]) /\ AsksForAText(m["host"])
    BY ExactlyAsks DEF master_os_up_match_redfish
  <2>5. AsksForAText(m["boot_progress"])
    BY OneOfAsks DEF master_os_up_match_redfish
  <2> HIDE DEF m
  <2> QED
    BY <2>1, <2>2, <2>3, <2>4, <2>5
<1>2. CASE ~redfish
  <2> DEFINE m == master_os_up_match_rest
  <2>1. /\ master_os_up_match(redfish) = m
        /\ DependsOn(redfish) = {"chassis", "bmc", "boot_progress", "host", "operating_system"}
    BY <1>2 DEF master_os_up_match, DependsOn
  <2>2. DOMAIN m = {"chassis", "bmc", "boot_progress", "host", "operating_system"}
    BY DEF master_os_up_match_rest
  <2>3. AsksForAText(m["chassis"]) /\ AsksForAText(m["bmc"])
    BY ExactlyAsks DEF master_os_up_match_rest
  <2>4. AsksForAText(m["host"])
    BY OneOfAsks DEF master_os_up_match_rest
  <2>5. AsksForAText(m["boot_progress"]) /\ AsksForAText(m["operating_system"])
    BY OneOfAsks DEF master_os_up_match_rest
  <2> HIDE DEF m
  <2> QED
    BY <2>1, <2>2, <2>3, <2>4, <2>5
<1> QED
  BY <1>1, <1>2

\* A request that get_state accepts and what it meets.
Asked(req_states, world) ==
  req_states \subseteq valid_req_states(world) /\ world \in Worlds /\ MetBy(req_states, world)

\* What the BMC reports.
LEMMA ReportsAre ==
  ASSUME NEW req_states, NEW world, Asked(req_states, world)
  PROVE  /\ world.redfish \in BOOLEAN /\ world.answers \in BOOLEAN
         /\ BmcStates(world) = DependsOn(world.redfish)
         /\ DOMAIN world.reports \subseteq DependsOn(world.redfish)
         /\ \A s \in DOMAIN world.reports :
              world.reports[s] \in UpTexts <=>
                world.reports[s] \in master_os_up_match(world.redfish)[s].alts
<1>1. world.redfish \in BOOLEAN /\ world.answers \in BOOLEAN /\ world.reports \in Reports[world.redfish]
  BY DEF Asked, Worlds, MetBy
<1>2. DOMAIN master_os_up_match(world.redfish) = DependsOn(world.redfish)
  BY <1>1, MasterIs
<1> QED
  BY <1>1, <1>2, ReportsAssumption DEF BmcStates

\* What is read: the interface, and if it answers what it reports.
Read(req_states, world) == IF Needed(req_states, world) THEN Reported(req_states, world) ELSE <<>>

LEMMA ReadIs ==
  ASSUME NEW req_states, NEW world, Asked(req_states, world), NEW s \in req_states \cap DependsOn(world.redfish)
  PROVE  /\ s \in DOMAIN Read(req_states, world) <=>
              Needed(req_states, world) /\ world.answers /\ s \in DOMAIN world.reports
         /\ s \in DOMAIN Read(req_states, world) => Read(req_states, world)[s] = world.reports[s]
<1> DEFINE wanted == IF world.redfish THEN {"chassis", "host", "bmc", "boot_progress"} ELSE req_states
           given == {t \in wanted \cap DOMAIN world.reports : world.answers}
           rd == Reported(req_states, world)
<1>1. s # interface(world) /\ world.redfish \in BOOLEAN
  BY ReportsAre DEF DependsOn, interface
<1>2. s \in wanted
  BY DEF DependsOn
<1>3. s \in given <=> world.answers /\ s \in DOMAIN world.reports
  BY <1>2
<1>4. DOMAIN rd = {interface(world)} \cup given
  BY DEF Reported
<1>5. s \in DOMAIN rd <=> world.answers /\ s \in DOMAIN world.reports
  BY <1>1, <1>3, <1>4
<1>6. s \in DOMAIN rd => rd[s] = world.reports[s]
  BY <1>1, <1>4 DEF Reported
<1>7. s \notin DOMAIN <<>>
  OBVIOUS
<1> HIDE DEF rd
<1> QED
  BY <1>5, <1>6, <1>7 DEF Read, rd

Plain(req_states) == {s \in req_states : ~is_os(s)}
OsStates(req_states) == {s \in req_states : is_os(s)}

\* The state before the operating system is asked.
BmcState(req_states, world) ==
  [s \in Plain(req_states) \cup DOMAIN Read(req_states, world) |->
     IF s \in DOMAIN Read(req_states, world) THEN Read(req_states, world)[s] ELSE Initial(s, world)]

OsUp(req_states, world) ==
  compare_states(BmcState(req_states, world), os_up_match(req_states, world), "and")

\* What get_state returns: the states of the BMC, and those of the operating
\* system if there is one.
LEMMA StateIs ==
  ASSUME NEW req_states, NEW os_host \in BOOLEAN, NEW world
  PROVE  LET state == get_state(req_states, os_host, world) IN
         /\ Plain(req_states) \subseteq DOMAIN state
         /\ \A s \in Plain(req_states) : state[s] = BmcState(req_states, world)[s]
         /\ os_host => OsStates(req_states) \subseteq DOMAIN state
<1> DEFINE oss == OsStates(req_states)
           st == BmcState(req_states, world)
           os_state == get_os_state(oss, OsUp(req_states, world), world)
           state == get_state(req_states, os_host, world)
<1>1. state = IF ~os_host \/ oss = {} THEN st
              ELSE [s \in DOMAIN st \cup oss |-> IF s \in oss THEN os_state[s] ELSE st[s]]
  BY DEF get_state, OsStates, Plain, BmcState, Read, OsUp
<1>2. Plain(req_states) \subseteq DOMAIN st /\ Plain(req_states) \cap oss = {}
  BY DEF BmcState, Plain, OsStates
<1> HIDE DEF oss, st, os_state, state
<1>3. CASE ~os_host \/ oss = {}
  <2>1. state = st
    BY <1>1, <1>3
  <2> QED
    BY <1>2, <1>3, <2>1 DEF st, oss, state
<1>4. CASE os_host /\ oss # {}
  <2>1. state = [s \in DOMAIN st \cup oss |-> IF s \in oss THEN os_state[s] ELSE st[s]]
    BY <1>1, <1>4
  <2>2. Plain(req_states) \subseteq DOMAIN state /\ \A s \in Plain(req_states) : state[s] = st[s]
    BY <1>2, <2>1
  <2>3. oss \subseteq DOMAIN state
    BY <2>1
  <2> QED
    BY <2>2, <2>3 DEF st, oss, state
<1> QED
  BY <1>3, <1>4

\* A state of the operating system.
LEMMA OsStateIs ==
  ASSUME NEW req_states, NEW world, NEW s \in OsStates(req_states)
  PROVE  get_state(req_states, TRUE, world)[s]
           = IF OsUp(req_states, world) /\ Works(s, world) THEN "1" ELSE "0"
<1> DEFINE oss == OsStates(req_states)
           st == BmcState(req_states, world)
           os_state == get_os_state(oss, OsUp(req_states, world), world)
<1>1. get_state(req_states, TRUE, world)
        = [t \in DOMAIN st \cup oss |-> IF t \in oss THEN os_state[t] ELSE st[t]]
  BY DEF get_state, OsStates, Plain, BmcState, Read, OsUp
<1>2. os_state[s] = IF OsUp(req_states, world) /\ Works(s, world) THEN "1" ELSE "0"
  BY DEF get_os_state
<1> HIDE DEF oss, st, os_state
<1>3. s \in oss
  BY DEF oss
<1> QED
  BY <1>1, <1>2, <1>3

\* The states on which the operating system depends are the BMC's.
LEMMA DependsPlain ==
  ASSUME NEW req_states, NEW redfish \in BOOLEAN
  PROVE  req_states \cap DependsOn(redfish) \subseteq Plain(req_states)
BY DEF DependsOn, Plain, is_os

\* The BMC is asked unless nothing is requested from it but its own state.
LEMMA NeededIs ==
  ASSUME NEW req_states, NEW world, Asked(req_states, world),
         NEW s \in req_states \cap DependsOn(world.redfish)
  PROVE  Needed(req_states, world) <=> req_states \cap FromBmc(world) # {"bmc"}
<1>1. /\ master_req(world) = FromBmc(world) \ {"bmc"} /\ s \in FromBmc(world)
  BY ReportsAre DEF master_req, FromBmc, DependsOn, interface
<1> QED
  BY <1>1 DEF Needed

\* Each of them is what an answer can say of it.
LEMMA BmcStateIs ==
  ASSUME NEW req_states, NEW world, Asked(req_states, world), NEW s \in req_states \cap DependsOn(world.redfish)
  PROVE  /\ s \in DOMAIN BmcState(req_states, world)
         /\ BmcState(req_states, world)[s] = Said(s, req_states, world)
<1> DEFINE rd == Read(req_states, world)
           bs == BmcState(req_states, world)
<1>1. s \in Plain(req_states)
  BY ReportsAre, DependsPlain
<1>2. /\ s \in DOMAIN rd <=> Needed(req_states, world) /\ world.answers /\ s \in DOMAIN world.reports
      /\ s \in DOMAIN rd => rd[s] = world.reports[s]
  BY ReadIs
<1>3. s \in DOMAIN bs /\ bs[s] = IF s \in DOMAIN rd THEN rd[s] ELSE Initial(s, world)
  BY <1>1 DEF BmcState
<1>4. Initial(s, world) = IF s = "boot_progress" THEN "NA" ELSE ""
  BY DEF Initial, DependsOn
<1>5. Needed(req_states, world) <=> req_states \cap FromBmc(world) # {"bmc"}
  BY NeededIs
<1> HIDE DEF rd, bs
<1> QED
  BY <1>2, <1>3, <1>4, <1>5 DEF bs, Said

\* The operating system may be up if the BMC has said so of all that it depends
\* on.
LEMMA OsUpIs ==
  ASSUME NEW req_states, NEW world, Asked(req_states, world)
  PROVE  OsUp(req_states, world) <=>
           \A s \in req_states \cap DependsOn(world.redfish) : Said(s, req_states, world) \in UpTexts
<1> DEFINE master == master_os_up_match(world.redfish)
           match == os_up_match(req_states, world)
           bs == BmcState(req_states, world)
           K == req_states \cap DependsOn(world.redfish)
<1>1. world.redfish \in BOOLEAN /\ DOMAIN master = DependsOn(world.redfish)
  BY ReportsAre, MasterIs
<1>2. DOMAIN match = K /\ \A s \in K : match[s] = master[s]
  BY <1>1 DEF os_up_match
<1>3. \A s \in K : AsksForAText(master[s])
  BY <1>1, MasterIs
<1> HIDE DEF match, master
<1>4. Considered(match) = K
  BY <1>2, <1>3 DEF Considered, AsksForAText
<1>5. OsUp(req_states, world) <=> \A s \in K : s \in DOMAIN bs /\ bs[s] \in master[s].alts
  BY <1>2, <1>4 DEF OsUp, compare_states, Hit, match
<1>6. ASSUME NEW s \in K
      PROVE  s \in DOMAIN bs /\ bs[s] \in master[s].alts <=> Said(s, req_states, world) \in UpTexts
  <2>1. s \in DOMAIN bs /\ bs[s] = Said(s, req_states, world)
    BY BmcStateIs
  <2>2. s \in DOMAIN world.reports =>
          (world.reports[s] \in UpTexts <=> world.reports[s] \in master[s].alts)
    BY ReportsAre DEF master
  <2>3. "" \notin master[s].alts /\ "NA" \notin master[s].alts
    BY <1>3 DEF AsksForAText
  <2>4. "" \notin UpTexts /\ "NA" \notin UpTexts
    BY DEF UpTexts
  <2>5. \/ s \in DOMAIN world.reports /\ Said(s, req_states, world) = world.reports[s]
        \/ Said(s, req_states, world) = "" \/ Said(s, req_states, world) = "NA"
    BY DEF Said
  <2> HIDE DEF bs
  <2> QED
    BY <2>1, <2>2, <2>3, <2>4, <2>5
<1> QED
  BY <1>5, <1>6

\* An answer has what was requested, and says what it can of the BMC's states.
LEMMA AnswerAsReported ==
  ASSUME NEW req, NEW os_host \in BOOLEAN, NEW world, Asked(req, world)
  PROVE  LET state == get_state(req, os_host, world) IN
         /\ \A s \in req : s \in DOMAIN state \/ (is_os(s) /\ ~os_host)
         /\ \A s \in req \cap BmcStates(world) : state[s] = Said(s, req, world)
<1> DEFINE state == get_state(req, os_host, world)
<1>1. /\ Plain(req) \subseteq DOMAIN state
      /\ \A s \in Plain(req) : state[s] = BmcState(req, world)[s]
      /\ os_host => OsStates(req) \subseteq DOMAIN state
  BY StateIs
<1> HIDE DEF state
<1>2. \A s \in req : s \in DOMAIN state \/ (is_os(s) /\ ~os_host)
  BY <1>1 DEF Plain, OsStates
<1>3. ASSUME NEW s \in req \cap BmcStates(world)
      PROVE  state[s] = Said(s, req, world)
  <2>1. s \in req \cap DependsOn(world.redfish)
    BY ReportsAre
  <2>2. s \in Plain(req)
    BY <2>1, ReportsAre, DependsPlain
  <2> QED
    BY <1>1, <2>1, <2>2, BmcStateIs
<1> QED
  BY <1>2, <1>3 DEF state

\* What it says of a state of the operating system follows from what was said
\* of the BMC's.
OsFollows(text, s, req, world) ==
  text = "1" <=> /\ Works(s, world)
                 /\ \A r \in req \cap BmcStates(world) : Said(r, req, world) \in UpTexts

LEMMA AnswerOfOs ==
  ASSUME NEW req, NEW world, Asked(req, world), NEW s \in req, is_os(s)
  PROVE  OsFollows(get_state(req, TRUE, world)[s], s, req, world)
<1> DEFINE state == get_state(req, TRUE, world)
<1>1. state[s] = IF OsUp(req, world) /\ Works(s, world) THEN "1" ELSE "0"
  <2>1. s \in OsStates(req)
    BY DEF OsStates
  <2> QED
    BY <2>1, OsStateIs
<1>2. OsUp(req, world) <=> \A r \in req \cap BmcStates(world) : Said(r, req, world) \in UpTexts
  BY ReportsAre, OsUpIs
<1> HIDE DEF state
<1>3. state[s] = "1" <=> OsUp(req, world) /\ Works(s, world)
  BY <1>1
<1> QED
  BY <1>2, <1>3 DEF state, OsFollows

\* What get_state returns is what was reported, and what it concludes about the
\* operating system follows from it, for every request, every BMC and whatever
\* states it leaves out (get_state, get_os_state, compare_states).
THEOREM StatesAreRight == StateSpec => []StateRight
<1>1. StateInit => StateRight
  <2> SUFFICES ASSUME StateInit PROVE StateRight
    OBVIOUS
  <2>1. poll.at # "asked"
    BY DEF StateInit, NoPoll
  <2> QED
    BY <2>1 DEF StateRight, StateAsReported, OsUpRight
<1>2. ClockInv /\ StateRight /\ [StateNext]_stateVars => StateRight'
  <2> SUFFICES ASSUME ClockInv, StateRight, [StateNext]_stateVars PROVE StateRight'
    OBVIOUS
  <2>1. CASE Ask
    <3>1. PICK os_host \in BOOLEAN, world \in Worlds : \E req \in SUBSET valid_req_states(world) :
            /\ MetBy(req, world)
            /\ reply' = [req |-> req, os_host |-> os_host, world |-> world,
                         state |-> get_state(req, os_host, world)]
      BY <2>1 DEF Ask
    <3>5. PICK req \in SUBSET valid_req_states(world) :
            /\ MetBy(req, world)
            /\ reply' = [req |-> req, os_host |-> os_host, world |-> world,
                         state |-> get_state(req, os_host, world)]
      BY <3>1
    <3>2. Asked(req, world)
      BY <3>5 DEF Asked
    <3>3. /\ reply'.req = req /\ reply'.os_host = os_host /\ reply'.world = world
          /\ reply'.state = get_state(req, os_host, world)
      BY <3>5
    <3>4. StateAsReported'
      BY <3>2, <3>3, AnswerAsReported DEF StateAsReported
    <3>6. OsUpRight'
      <4> SUFFICES ASSUME os_host, NEW s \in req, is_os(s)
                   PROVE  OsFollows(reply'.state[s], s, req, world)
        BY <3>3 DEF OsUpRight, OsFollows
      <4>1. os_host = TRUE
        OBVIOUS
      <4>2. reply'.state = get_state(req, TRUE, world)
        BY <3>3, <4>1
      <4> QED
        BY <3>2, <4>2, AnswerOfOs
    <3> QED
      BY <3>4, <3>6 DEF StateRight
  <2>2. CASE poll'.at # "asked"
    BY <2>2 DEF StateRight, StateAsReported, OsUpRight
  <2>3. CASE UNCHANGED <<reply, poll>>
    BY <2>3 DEF StateRight, StateAsReported, OsUpRight
  <2>4. CASE wait_for_comm_cycle \/ ReadUptime \/ ReadEpoch \/ Verify \/ WaitTimesOut
    <3>1. poll \in PollType
      BY DEF ClockInv, ClockType
    <3>2. CASE wait_for_comm_cycle \/ WaitTimesOut
      <4>1. poll'.at = "uptime" \/ poll'.at = "failed"
        BY <3>1, <3>2 DEF wait_for_comm_cycle, WaitTimesOut, NoPoll, PollType
      <4> QED
        BY <2>2, <4>1
    <3>3. CASE ReadUptime
      <4>1. poll'.at = "epoch"
        BY <3>1, <3>3 DEF ReadUptime, PollType
      <4> QED
        BY <2>2, <4>1
    <3>4. CASE ReadEpoch
      <4>1. poll'.at = "verify" \/ poll'.at = "uptime"
        BY <3>1, <3>4 DEF ReadEpoch, PollType, NoPoll
      <4> QED
        BY <2>2, <4>1
    <3>5. CASE Verify
      <4>1. poll'.at = "verify" \/ poll'.at = "done"
        BY <3>1, <3>5 DEF Verify, PollType
      <4> QED
        BY <2>2, <4>1
    <3> QED
      BY <2>4, <3>2, <3>3, <3>4, <3>5
  <2> QED
    BY <2>1, <2>3, <2>4 DEF StateNext, CommStep, Tick, BmcGoes, BmcBoots, stateVars
<1> QED
  BY <1>1, <1>2, ClockInvInit, ClockInvStep, PTL DEF StateSpec

-----------------------------------------------------------------------------
(* ProgramExit *)

ProgPcs == {"options", "validate", "sync", "open", "run", "footer", "ended"} \cup Exiting
Process == [parent : Nat, command : Commands, alive : BOOLEAN]

\* The types of the variables.
ProgType ==
  prog \in [at : ProgPcs, rc : Rcs \cup {0, 1}, handlers : BOOLEAN,
            term : {"none", "children", "descendants", "pgm_names"}]
ArgsType == args \in [obj : 0..1, global : 0..1, builtin : 0..1]
StatusType == status \in [has : {"none", "path", "rc", "all"}, rc : Rcs \cup {0, 1}]
ProcsType ==
  procs \in Seq(Process) /\ listed \subseteq DOMAIN procs /\ asked_to_end \subseteq DOMAIN procs

\* A signal before the arguments agree finds no handler, and ends the program.
SyncInv ==
  /\ prog.at \in {"options", "validate", "sync"} => prog.handlers = FALSE
  /\ ArgsAgree

\* Descendants are listed by the exit function only.
ListedInv ==
  /\ prog.at \notin {"select", "terminate", "wait", "report", "exit_function", "ended"} => listed = {}
  /\ ListedGone

\* From the last line of the status file on, the code in it is the program's.
MainInv ==
  ended_by = "main" =>
    prog.at \in Exiting \cup {"ended"} /\ status.has = "all" /\ prog.rc = status.rc

ExitInv ==
  ProgType /\ ArgsType /\ StatusType /\ ProcsType /\ SyncInv /\ ListedInv /\ MainInv

\* In the beginning there are neither arguments nor processes.
LEMMA ExitInvInit == ExitInit => ExitInv
<1> SUFFICES ASSUME ExitInit PROVE ExitInv
  OBVIOUS
<1> USE DEF ExitInit
<1>1. ProgType /\ ArgsType /\ StatusType
  BY DEF ProgType, ArgsType, StatusType, ProgPcs
<1>2. ProcsType
  BY EmptySeq DEF ProcsType
<1>3. SyncInv /\ ListedInv /\ MainInv
  BY DEF SyncInv, ArgsAgree, ListedInv, ListedGone, MainInv
<1> QED
  BY <1>1, <1>2, <1>3 DEF ExitInv

\* A process that exits is over for good, and changes nothing else.
LEMMA ProcessGone ==
  ASSUME ProcsType, NEW p \in DOMAIN procs, procs' = [procs EXCEPT ![p].alive = FALSE]
  PROVE  /\ procs' \in Seq(Process) /\ DOMAIN procs' = DOMAIN procs
         /\ \A q \in DOMAIN procs : ~procs[q].alive => ~procs'[q].alive
<1> DEFINE c == [procs[p] EXCEPT !.alive = FALSE]
<1>1. procs \in Seq(Process) /\ DOMAIN procs = 1..Len(procs) /\ procs' = [procs EXCEPT ![p] = c]
  BY LenProperties DEF ProcsType
<1>2. procs[p] \in Process /\ p \in 1..Len(procs)
  BY <1>1, ElementOfSeq
<1>3. c \in Process /\ ~c.alive
  BY <1>2 DEF Process
<1> HIDE DEF c
<1>4. procs' \in Seq(Process) /\ Len(procs') = Len(procs)
  BY ONLY <1>1, <1>2, <1>3, ExceptSeq
<1>5. \A q \in DOMAIN procs : procs'[q] = IF q = p THEN c ELSE procs[q]
  BY <1>1
<1>6. DOMAIN procs' = DOMAIN procs
  BY <1>1
<1> QED
  BY <1>3, <1>4, <1>5, <1>6

\* A fork adds a process, and changes none.
LEMMA ProcessAdded ==
  ASSUME ProcsType, NEW c \in Process, procs' = Append(procs, c)
  PROVE  /\ procs' \in Seq(Process) /\ DOMAIN procs \subseteq DOMAIN procs'
         /\ \A q \in DOMAIN procs : procs'[q] = procs[q]
<1>1. procs \in Seq(Process) /\ DOMAIN procs = 1..Len(procs) /\ Len(procs) \in Nat
  BY LenProperties DEF ProcsType
<1>2. /\ procs' \in Seq(Process) /\ Len(procs') = Len(procs) + 1
      /\ \A i \in 1..Len(procs) : procs'[i] = procs[i]
  BY <1>1, AppendProperties
<1>3. DOMAIN procs' = 1..(Len(procs) + 1)
  BY <1>2, LenProperties
<1> QED
  BY <1>1, <1>2, <1>3

\* A fork, too, only adds a process.
LEMMA ForkAdds ==
  ASSUME ProcsType, Fork
  PROVE  /\ procs' \in Seq(Process) /\ DOMAIN procs \subseteq DOMAIN procs'
         /\ \A q \in DOMAIN procs : procs'[q] = procs[q]
<1>1. ASSUME NEW parent, NEW command \in Commands,
             parent \in {q \in Pids : procs[q].alive /\ procs[q].parent = 0}
                        \cup {q \in {0} : prog.at = "run"}
      PROVE  [parent |-> parent, command |-> command, alive |-> TRUE] \in Process
  <2>1. DOMAIN procs = 1..Len(procs) /\ Len(procs) \in Nat
    BY LenProperties DEF ProcsType
  <2>2. parent \in Nat
    BY <1>1, <2>1 DEF Pids
  <2> QED
    BY <1>1, <2>2 DEF Process
<1>2. PICK c \in Process : procs' = Append(procs, c)
  BY <1>1 DEF Fork
<1> QED
  BY <1>2, ProcessAdded

\* Every step of the program, its descendants or a signal keeps the invariant.
LEMMA ExitInvStep == ExitInv /\ [ExitNext]_exitVars => ExitInv'
<1> SUFFICES ASSUME ExitInv, [ExitNext]_exitVars
             PROVE  ExitInv'
  OBVIOUS
<1> USE DEF ExitInv, Exiting, os, Pids
<1>1. CASE gen_get_options
  <2>1. ProgType'
    BY <1>1 DEF gen_get_options, ProgAt, ProgPcs, ProgType
  <2>2. ArgsType'
    BY <1>1 DEF gen_get_options, ProgAt, ProgPcs, ArgsType
  <2>3. StatusType'
    BY <1>1 DEF gen_get_options, ProgAt, ProgPcs, StatusType
  <2>4. ProcsType'
    BY <1>1 DEF gen_get_options, ProgAt, ProgPcs, ProcsType
  <2>5. SyncInv'
    BY <1>1 DEF gen_get_options, ProgAt, ProgPcs, SyncInv, ArgsAgree, ProgType
  <2>6. ListedInv'
    BY <1>1 DEF gen_get_options, ProgAt, ProgPcs, ListedInv, ListedGone, ProgType
  <2>7. MainInv'
    BY <1>1 DEF gen_get_options, ProgAt, ProgPcs, MainInv, ProgType, StatusType
  <2> QED
    BY <2>1, <2>2, <2>3, <2>4, <2>5, <2>6, <2>7
<1>2. CASE validate_parms
  <2>1. ProgType'
    BY <1>2 DEF validate_parms, ProgAt, set_pgm_arg, ProgPcs, ProgType
  <2>2. ArgsType'
    BY <1>2 DEF validate_parms, ProgAt, set_pgm_arg, ProgPcs, ArgsType
  <2>3. StatusType'
    BY <1>2 DEF validate_parms, ProgAt, set_pgm_arg, ProgPcs, StatusType
  <2>4. ProcsType'
    BY <1>2 DEF validate_parms, ProgAt, set_pgm_arg, ProgPcs, ProcsType
  <2>5. SyncInv'
    BY <1>2 DEF validate_parms, ProgAt, set_pgm_arg, ProgPcs, SyncInv, ArgsAgree, ProgType
  <2>6. ListedInv'
    BY <1>2 DEF validate_parms, ProgAt, set_pgm_arg, ProgPcs, ListedInv, ListedGone, ProgType
  <2>7. MainInv'
    BY <1>2 DEF validate_parms, ProgAt, set_pgm_arg, ProgPcs, MainInv, ProgType, StatusType
  <2> QED
    BY <2>1, <2>2, <2>3, <2>4, <2>5, <2>6, <2>7
<1>3. CASE sync_args
  <2>1. ProgType'
    BY <1>3 DEF sync_args, Synced, ProgPcs, ProgType
  <2>2. ArgsType'
    BY <1>3 DEF sync_args, Synced, ProgPcs, ArgsType
  <2>3. StatusType'
    BY <1>3 DEF sync_args, Synced, ProgPcs, StatusType
  <2>4. ProcsType'
    BY <1>3 DEF sync_args, Synced, ProgPcs, ProcsType
  <2>5. SyncInv'
    BY <1>3 DEF sync_args, Synced, ProgPcs, SyncInv, ArgsAgree, ProgType
  <2>6. ListedInv'
    BY <1>3 DEF sync_args, Synced, ProgPcs, ListedInv, ListedGone, ProgType
  <2>7. MainInv'
    BY <1>3 DEF sync_args, Synced, ProgPcs, MainInv, ProgType, StatusType
  <2> QED
    BY <2>1, <2>2, <2>3, <2>4, <2>5, <2>6, <2>7
<1>4. CASE StatusOpen
  <2>1. ProgType'
    BY <1>4 DEF StatusOpen, ProgAt, ProgPcs, ProgType
  <2>2. ArgsType'
    BY <1>4 DEF StatusOpen, ProgAt, ProgPcs, ArgsType
  <2>3. StatusType'
    BY <1>4 DEF StatusOpen, ProgAt, ProgPcs, StatusType
  <2>4. ProcsType'
    BY <1>4 DEF StatusOpen, ProgAt, ProgPcs, ProcsType
  <2>5. SyncInv'
    BY <1>4 DEF StatusOpen, ProgAt, ProgPcs, SyncInv, ArgsAgree, ProgType
  <2>6. ListedInv'
    BY <1>4 DEF StatusOpen, ProgAt, ProgPcs, ListedInv, ListedGone, ProgType
  <2>7. MainInv'
    BY <1>4 DEF StatusOpen, ProgAt, ProgPcs, MainInv, ProgType, StatusType
  <2> QED
    BY <2>1, <2>2, <2>3, <2>4, <2>5, <2>6, <2>7
<1>5. CASE CommandEnds
  <2>1. ProgType'
    BY <1>5 DEF CommandEnds, ProgAt, ProgPcs, ProgType
  <2>2. ArgsType'
    BY <1>5 DEF CommandEnds, ProgAt, ProgPcs, ArgsType
  <2>3. StatusType'
    BY <1>5 DEF CommandEnds, ProgAt, ProgPcs, StatusType
  <2>4. ProcsType'
    BY <1>5 DEF CommandEnds, ProgAt, ProgPcs, ProcsType
  <2>5. SyncInv'
    BY <1>5 DEF CommandEnds, ProgAt, ProgPcs, SyncInv, ArgsAgree, ProgType
  <2>6. ListedInv'
    BY <1>5 DEF CommandEnds, ProgAt, ProgPcs, ListedInv, ListedGone, ProgType
  <2>7. MainInv'
    BY <1>5 DEF CommandEnds, ProgAt, ProgPcs, MainInv, ProgType, StatusType
  <2> QED
    BY <2>1, <2>2, <2>3, <2>4, <2>5, <2>6, <2>7
<1>6. CASE Footer
  <2>1. ProgType'
    <3>1. status.rc \in Rcs \cup {0, 1}
      BY DEF StatusType
    <3> QED
      BY <1>6, <3>1 DEF Footer, MainRc, ProgPcs, ProgType
  <2>2. ArgsType'
    BY <1>6 DEF Footer, MainRc, ProgPcs, ArgsType
  <2>3. StatusType'
    BY <1>6 DEF Footer, MainRc, ProgPcs, StatusType
  <2>4. ProcsType'
    BY <1>6 DEF Footer, MainRc, ProgPcs, ProcsType
  <2>5. SyncInv'
    BY <1>6 DEF Footer, MainRc, ProgPcs, SyncInv, ArgsAgree, ProgType
  <2>6. ListedInv'
    BY <1>6 DEF Footer, MainRc, ProgPcs, ListedInv, ListedGone, ProgType
  <2>7. MainInv'
    BY <1>6 DEF Footer, MainRc, ProgPcs, MainInv, ProgType, StatusType
  <2> QED
    BY <2>1, <2>2, <2>3, <2>4, <2>5, <2>6, <2>7
<1>7. CASE gen_exit_function
  <2>1. ProgType'
    BY <1>7 DEF gen_exit_function, ProgAt, ProgPcs, ProgType
  <2>2. ArgsType'
    BY <1>7 DEF gen_exit_function, ProgAt, ProgPcs, ArgsType
  <2>3. StatusType'
    BY <1>7 DEF gen_exit_function, ProgAt, ProgPcs, StatusType
  <2>4. ProcsType'
    <3>1. listed' \subseteq listed \cup Descendants /\ UNCHANGED <<procs, asked_to_end>>
      BY <1>7 DEF gen_exit_function
    <3>2. Descendants \subseteq DOMAIN procs
      BY DEF Descendants
    <3> QED
      BY <3>1, <3>2 DEF ProcsType
  <2>5. SyncInv'
    BY <1>7 DEF gen_exit_function, ProgAt, ProgPcs, SyncInv, ArgsAgree, ProgType
  <2>6. ListedInv'
    BY <1>7 DEF gen_exit_function, ProgAt, ProgPcs, ListedInv, ListedGone, ProgType
  <2>7. MainInv'
    BY <1>7 DEF gen_exit_function, ProgAt, ProgPcs, MainInv, ProgType, StatusType
  <2> QED
    BY <2>1, <2>2, <2>3, <2>4, <2>5, <2>6, <2>7
<1>8. CASE select_processes
  <2>1. ProgType'
    BY <1>8 DEF select_processes, ProgAt, ExitFails, ProgPcs, ProgType
  <2>2. ArgsType'
    BY <1>8 DEF select_processes, ProgAt, ExitFails, ProgPcs, ArgsType
  <2>3. StatusType'
    BY <1>8 DEF select_processes, ProgAt, ExitFails, ProgPcs, StatusType
  <2>4. ProcsType'
    <3>1. /\ asked_to_end' \subseteq asked_to_end \cup Children \cup listed
          /\ UNCHANGED <<procs, listed>>
      BY <1>8 DEF select_processes, ExitFails
    <3>2. Children \subseteq DOMAIN procs
      BY DEF Children, Descendants
    <3> QED
      BY <3>1, <3>2 DEF ProcsType
  <2>5. SyncInv'
    BY <1>8 DEF select_processes, ProgAt, ExitFails, ProgPcs, SyncInv, ArgsAgree, ProgType
  <2>6. ListedInv'
    BY <1>8 DEF select_processes, ProgAt, ExitFails, ProgPcs, ListedInv, ListedGone, ProgType
  <2>7. MainInv'
    BY <1>8 DEF select_processes, ProgAt, ExitFails, ProgPcs, MainInv, ProgType, StatusType
  <2> QED
    BY <2>1, <2>2, <2>3, <2>4, <2>5, <2>6, <2>7
<1>9. ASSUME NEW p \in asked_to_end, Terminate(p) PROVE ExitInv'
  <2>1. ProgType'
    BY <1>9 DEF Terminate, ProgAt, ExitFails, ProgPcs, ProgType
  <2>2. ArgsType'
    BY <1>9 DEF Terminate, ProgAt, ExitFails, ProgPcs, ArgsType
  <2>3. StatusType'
    BY <1>9 DEF Terminate, ProgAt, ExitFails, ProgPcs, StatusType
  <2>4. ProcsType'
    <3>1. /\ p \in DOMAIN procs /\ listed' = listed /\ asked_to_end' \subseteq asked_to_end
          /\ UNCHANGED procs \/ procs' = [procs EXCEPT ![p].alive = FALSE]
      BY <1>9 DEF Terminate, ExitFails, StillAsked, ProcsType
    <3>2. procs' \in Seq(Process) /\ DOMAIN procs' = DOMAIN procs
      BY <3>1, ProcessGone DEF ProcsType
    <3> QED
      BY <3>1, <3>2 DEF ProcsType
  <2>5. SyncInv'
    BY <1>9 DEF Terminate, ProgAt, ExitFails, ProgPcs, SyncInv, ArgsAgree, ProgType
  <2>6. ListedInv'
    BY <1>9 DEF Terminate, ProgAt, ExitFails, ProgPcs, ListedInv, ListedGone, ProgType
  <2>7. MainInv'
    BY <1>9 DEF Terminate, ProgAt, ExitFails, ProgPcs, MainInv, ProgType, StatusType
  <2> QED
    BY <2>1, <2>2, <2>3, <2>4, <2>5, <2>6, <2>7
<1>10. CASE Logged
  <2>1. ProgType'
    BY <1>10 DEF Logged, ProgAt, ProgPcs, ProgType
  <2>2. ArgsType'
    BY <1>10 DEF Logged, ProgAt, ProgPcs, ArgsType
  <2>3. StatusType'
    BY <1>10 DEF Logged, ProgAt, ProgPcs, StatusType
  <2>4. ProcsType'
    BY <1>10 DEF Logged, ProgAt, ProgPcs, ProcsType
  <2>5. SyncInv'
    BY <1>10 DEF Logged, ProgAt, ProgPcs, SyncInv, ArgsAgree, ProgType
  <2>6. ListedInv'
    BY <1>10 DEF Logged, ProgAt, ProgPcs, ListedInv, ListedGone, ProgType
  <2>7. MainInv'
    BY <1>10 DEF Logged, ProgAt, ProgPcs, MainInv, ProgType, StatusType
  <2> QED
    BY <2>1, <2>2, <2>3, <2>4, <2>5, <2>6, <2>7
<1>11. CASE WaitProcs
  <2>1. ProgType'
    BY <1>11 DEF WaitProcs, ProgAt, Waits, ProgPcs, ProgType
  <2>2. ArgsType'
    BY <1>11 DEF WaitProcs, ProgAt, Waits, ProgPcs, ArgsType
  <2>3. StatusType'
    BY <1>11 DEF WaitProcs, ProgAt, Waits, ProgPcs, StatusType
  <2>4. ProcsType'
    BY <1>11 DEF WaitProcs, ProgAt, Waits, ProgPcs, ProcsType
  <2>5. SyncInv'
    BY <1>11 DEF WaitProcs, ProgAt, Waits, ProgPcs, SyncInv, ArgsAgree, ProgType
  <2>6. ListedInv'
    BY <1>11 DEF WaitProcs, ProgAt, Waits, ProgPcs, ListedInv, ListedGone, ProgType
  <2>7. MainInv'
    BY <1>11 DEF WaitProcs, ProgAt, Waits, ProgPcs, MainInv, ProgType, StatusType
  <2> QED
    BY <2>1, <2>2, <2>3, <2>4, <2>5, <2>6, <2>7
<1>12. CASE Report
  <2>1. ProgType'
    BY <1>12 DEF Report, ProgAt, ProgPcs, ProgType
  <2>2. ArgsType'
    BY <1>12 DEF Report, ProgAt, ProgPcs, ArgsType
  <2>3. StatusType'
    BY <1>12 DEF Report, ProgAt, ProgPcs, StatusType
  <2>4. ProcsType'
    BY <1>12 DEF Report, ProgAt, ProgPcs, ProcsType
  <2>5. SyncInv'
    BY <1>12 DEF Report, ProgAt, ProgPcs, SyncInv, ArgsAgree, ProgType
  <2>6. ListedInv'
    BY <1>12 DEF Report, ProgAt, ProgPcs, ListedInv, ListedGone, ProgType
  <2>7. MainInv'
    BY <1>12 DEF Report, ProgAt, ProgPcs, MainInv, ProgType, StatusType
  <2> QED
    BY <2>1, <2>2, <2>3, <2>4, <2>5, <2>6, <2>7
<1>13. CASE ExitFunction
  <2>1. ProgType'
    BY <1>13 DEF ExitFunction, ProgAt, ProgPcs, ProgType
  <2>2. ArgsType'
    BY <1>13 DEF ExitFunction, ProgAt, ProgPcs, ArgsType
  <2>3. StatusType'
    BY <1>13 DEF ExitFunction, ProgAt, ProgPcs, StatusType
  <2>4. ProcsType'
    BY <1>13 DEF ExitFunction, ProgAt, ProgPcs, ProcsType
  <2>5. SyncInv'
    BY <1>13 DEF ExitFunction, ProgAt, ProgPcs, SyncInv, ArgsAgree, ProgType
  <2>6. ListedInv'
    BY <1>13 DEF ExitFunction, ProgAt, ProgPcs, ListedInv, ListedGone, ProgType
  <2>7. MainInv'
    BY <1>13 DEF ExitFunction, ProgAt, ProgPcs, MainInv, ProgType, StatusType
  <2> QED
    BY <2>1, <2>2, <2>3, <2>4, <2>5, <2>6, <2>7
<1>14. CASE gen_signal_handler
  <2>1. ProgType'
    BY <1>14 DEF gen_signal_handler, ProgPcs, ProgType
  <2>2. ArgsType'
    BY <1>14 DEF gen_signal_handler, ProgPcs, ArgsType
  <2>3. StatusType'
    BY <1>14 DEF gen_signal_handler, ProgPcs, StatusType
  <2>4. ProcsType'
    BY <1>14 DEF gen_signal_handler, ProgPcs, ProcsType
  <2>5. SyncInv'
    BY <1>14 DEF gen_signal_handler, ProgPcs, SyncInv, ArgsAgree, ProgType
  <2>6. ListedInv'
    BY <1>14 DEF gen_signal_handler, ProgPcs, ListedInv, ListedGone, ProgType
  <2>7. MainInv'
    BY <1>14 DEF gen_signal_handler, ProgPcs, MainInv, ProgType, StatusType
  <2> QED
    BY <2>1, <2>2, <2>3, <2>4, <2>5, <2>6, <2>7
<1>15. CASE Fork
  <2>1. ProgType'
    BY <1>15 DEF Fork, ProgPcs, ProgType
  <2>2. ArgsType'
    BY <1>15 DEF Fork, ProgPcs, ArgsType
  <2>3. StatusType'
    BY <1>15 DEF Fork, ProgPcs, StatusType
  <2>4. ProcsType'
    <3>1. /\ procs' \in Seq(Process) /\ DOMAIN procs \subseteq DOMAIN procs'
          /\ \A q \in DOMAIN procs : procs'[q] = procs[q]
      BY <1>15, ForkAdds
    <3>2. UNCHANGED <<prog, listed, asked_to_end>> /\ listed \subseteq DOMAIN procs
      BY <1>15 DEF Fork, ProcsType
    <3> QED
      BY <3>1, <3>2 DEF ProcsType
  <2>5. SyncInv'
    BY <1>15 DEF Fork, ProgPcs, SyncInv, ArgsAgree, ProgType
  <2>6. ListedInv'
    <3>1. /\ procs' \in Seq(Process) /\ DOMAIN procs \subseteq DOMAIN procs'
          /\ \A q \in DOMAIN procs : procs'[q] = procs[q]
      BY <1>15, ForkAdds
    <3>2. UNCHANGED <<prog, listed, asked_to_end>> /\ listed \subseteq DOMAIN procs
      BY <1>15 DEF Fork, ProcsType
    <3> QED
      BY <3>1, <3>2 DEF ListedInv, ListedGone
  <2>7. MainInv'
    BY <1>15 DEF Fork, ProgPcs, MainInv, ProgType, StatusType
  <2> QED
    BY <2>1, <2>2, <2>3, <2>4, <2>5, <2>6, <2>7
<1>16. ASSUME NEW p \in Pids, Exits(p) PROVE ExitInv'
  <2>1. ProgType'
    BY <1>16 DEF Exits, ProgPcs, ProgType
  <2>2. ArgsType'
    BY <1>16 DEF Exits, ProgPcs, ArgsType
  <2>3. StatusType'
    BY <1>16 DEF Exits, ProgPcs, StatusType
  <2>4. ProcsType'
    <3>1. procs' \in Seq(Process) /\ DOMAIN procs' = DOMAIN procs
      BY <1>16, ProcessGone DEF Exits
    <3> QED
      BY <1>16, <3>1 DEF Exits, ProcsType
  <2>5. SyncInv'
    BY <1>16 DEF Exits, ProgPcs, SyncInv, ArgsAgree, ProgType
  <2>6. ListedInv'
    <3>1. \A q \in DOMAIN procs : ~procs[q].alive => ~procs'[q].alive
      BY <1>16, ProcessGone DEF Exits
    <3>2. listed \subseteq DOMAIN procs /\ UNCHANGED <<prog, listed>>
      BY <1>16 DEF Exits, ProcsType
    <3> QED
      BY <3>1, <3>2 DEF ListedInv, ListedGone
  <2>7. MainInv'
    BY <1>16 DEF Exits, ProgPcs, MainInv, ProgType, StatusType
  <2> QED
    BY <2>1, <2>2, <2>3, <2>4, <2>5, <2>6, <2>7
<1>17. CASE UNCHANGED exitVars
  <2>1. ProgType'
    BY <1>17 DEF exitVars, ProgPcs, ProgType
  <2>2. ArgsType'
    BY <1>17 DEF exitVars, ProgPcs, ArgsType
  <2>3. StatusType'
    BY <1>17 DEF exitVars, ProgPcs, StatusType
  <2>4. ProcsType'
    BY <1>17 DEF exitVars, ProgPcs, ProcsType
  <2>5. SyncInv'
    BY <1>17 DEF exitVars, ProgPcs, SyncInv, ArgsAgree, ProgType
  <2>6. ListedInv'
    BY <1>17 DEF exitVars, ProgPcs, ListedInv, ListedGone, ProgType
  <2>7. MainInv'
    BY <1>17 DEF exitVars, ProgPcs, MainInv, ProgType, StatusType
  <2> QED
    BY <2>1, <2>2, <2>3, <2>4, <2>5, <2>6, <2>7
<1> QED
  BY <1>1, <1>2, <1>3, <1>4, <1>5, <1>6, <1>7, <1>8, <1>9, <1>10, <1>11, <1>12, <1>13, <1>14,
     <1>15, <1>16, <1>17
     DEF ExitNext, ProgStep

\* A program uses the arguments it prints, outlives the descendants it found and
\* ends with the return code in its status file, for any number of processes
\* and signals.
THEOREM ProgramIsRight == ExitSpec => []ProgramRight
<1>1. ExitInv => ProgramRight
  BY DEF ExitInv, SyncInv, ListedInv, MainInv, ProgramRight, StatusRcRight
<1> QED
  BY ExitInvInit, ExitInvStep, <1>1, PTL DEF ExitSpec

-----------------------------------------------------------------------------
(* CodeUpdate *)

Image == [unpacked : BOOLEAN, object : BOOLEAN, version : 1..2, purpose : {"BMC", "Host", "Other"},
          activation : Activations, priority : 0..1]
CheckNames == {"none", "wait", "upload", "absent", "priorities", "delete"}
CheckPcs == CheckNames \cup {"idle", "path", "purpose", "poll", "done"}
Results == {"none", "changed", "read_errors", "timed_out", "yes", "no", "raised", "absent", "found",
            "distinct", "duplicates", "deleted"}
Check == [name : CheckNames, at : CheckPcs, image : Images \cup {""}, version : 0..2,
          initial : Activations \cup {""}, list : Seq(Images), rounds : Nat, tries : Nat,
          errors : Nat, taken : SUBSET (0..1), result : Results]

\* The types of the variables.
UpdateType ==
  /\ images \in [Images -> Image] /\ check \in Check
  /\ streak \in Nat /\ shown \in [Images -> SUBSET Activations]

\* The history has the activation that a read would show now.
ShownInv == check.name \in {"wait", "upload"} => \A i \in Images : images[i].activation \in shown[i]

\* The counted errors are reads that failed one after the other.
WaitInv ==
  /\ check.name = "wait" => check.image \in Images
  /\ check.name = "wait" /\ check.at = "wait" => streak >= check.errors
  /\ ChangeSeen /\ ErrorsInARow

\* The image that was found has the version, whatever became of it since.
UploadInv ==
  /\ check.name = "upload" /\ (check.at \in {"purpose", "poll"} \/ CheckReturned("upload", "yes")) =>
       check.image \in Images /\ images[check.image].version = check.version
  /\ UploadRight

\* The places of the list that hold an active image.
ActiveAt == {k \in DOMAIN check.list : images[check.list[k]].activation = "Active"}
PriorityAt(k) == images[check.list[k]].priority
Duplicate == \E j, k \in ActiveAt : j < k /\ PriorityAt(j) = PriorityAt(k)

\* The priorities taken are those of the active images read so far, and no two
\* of these have the same.
PriorityInv ==
  steady /\ check.name = "priorities" =>
    /\ check.at = "priorities" =>
         /\ check.tries <= Len(check.list)
         /\ check.taken = {PriorityAt(k) : k \in {j \in ActiveAt : j <= check.tries}}
         /\ \A j, k \in ActiveAt : j < k /\ k <= check.tries => PriorityAt(j) # PriorityAt(k)
    /\ CheckReturned("priorities", "distinct") => ~Duplicate
    /\ CheckReturned("priorities", "duplicates") => Duplicate

HostImage(i) == images[i].object /\ images[i].purpose = "Host"

\* An image that is still there has its turn to come.
DeleteInv ==
  steady /\ check.name = "delete" =>
    /\ check.at = "delete" =>
         \A i \in Images : HostImage(i) =>
           \E k \in 1..Len(check.list) : k > check.tries /\ check.list[k] = i
    /\ CheckReturned("delete", "deleted") => \A i \in Images : ~HostImage(i)

UpdateInv == UpdateType /\ ShownInv /\ WaitInv /\ UploadInv /\ PriorityInv /\ DeleteInv

\* SetToSeq lists every element of a finite set.
LEMMA ListOfSet ==
  ASSUME NEW S, NEW T, IsFiniteSet(S), T \subseteq S
  PROVE  /\ SetToSeq(T) \in Seq(S)
         /\ \A i \in T : \E k \in 1..Len(SetToSeq(T)) : SetToSeq(T)[k] = i
<1> DEFINE n == Cardinality(T)
           s == SetToSeq(T)
<1>1. IsFiniteSet(T) /\ n \in Nat /\ ExistsBijection(1..n, T)
  BY FS_Subset, FS_CardinalityType
<1>2. PICK g : g \in Bijection(1..n, T)
  BY <1>1 DEF ExistsBijection
<1>3. g \in [1..n -> T] /\ IsInjective(g)
  BY <1>2 DEF Bijection, Injection, IsInjective
<1>4. s \in [1..n -> T] /\ IsInjective(s)
  BY <1>3 DEF SetToSeq
<1>5. s \in Injection(1..n, T)
  BY <1>4 DEF Injection, IsInjective
<1>6. IsFiniteSet(1..n) /\ Cardinality(1..n) = n
  BY <1>1, FS_Interval
<1>7. s \in Surjection(1..n, T)
  BY <1>1, <1>5, <1>6, FS_Injection
<1> HIDE DEF s, n
<1>8. s \in Seq(S) /\ Len(s) = n
  BY <1>1, <1>4
<1>9. \A i \in T : \E k \in 1..n : s[k] = i
  BY <1>7 DEF Surjection
<1> QED
  BY <1>8, <1>9 DEF s

\* A call in the beginning.
LEMMA IdleType ==
  /\ Idle \in Check /\ Idle.name = "none" /\ Idle.at = "idle"
  /\ Idle.errors = 0 /\ Idle.tries = 0 /\ Idle.taken = {}
<1>1. <<>> \in Seq(Images) /\ {} \in SUBSET (0..1)
  BY EmptySeq
<1> QED
  BY <1>1 DEF Idle, Check, CheckNames, CheckPcs, Results

\* In the beginning no check runs.
LEMMA UpdateInvInit == UpdateInit => UpdateInv
<1> SUFFICES ASSUME UpdateInit PROVE UpdateInv
  OBVIOUS
<1>1. check = Idle /\ streak = 0 /\ shown = [i \in Images |-> {}]
  BY Zenon DEF UpdateInit
<1>2. PICK version \in [Images -> 1..2] :
        images = [i \in Images |-> [(IF i = (CHOOSE j \in Images : TRUE) THEN Installed ELSE Gone)
                                    EXCEPT !.version = version[i]]]
  BY Zenon DEF UpdateInit
<1>3. Installed \in Image /\ Gone \in Image
  <2>1. Unpacked(1, "Host") \in Image
    BY DEF Unpacked, Image, Activations
  <2> QED
    BY <2>1 DEF Installed, Gone, Image, Activations
<1>4. ASSUME NEW v \in 1..2, NEW c \in Image PROVE [c EXCEPT !.version = v] \in Image
  BY DEF Image
<1>5. images \in [Images -> Image]
  BY <1>2, <1>3, <1>4, Zenon
<1>6. UpdateType
  BY ONLY <1>1, <1>5, IdleType DEF UpdateType
<1> QED
  BY ONLY <1>1, <1>6, IdleType
     DEF UpdateInv, ShownInv, WaitInv, ChangeSeen, ErrorsInARow, UploadInv, UploadRight,
     PriorityInv, DeleteInv, CheckReturned

\* The fields that no step of a running check changes.
SameCall ==
  /\ check'.name = check.name /\ check'.version = check.version
  /\ check'.initial = check.initial /\ check'.list = check.list

\* A check that ends keeps what it knows.
LEMMA ResultType ==
  ASSUME check \in Check, NEW r \in Results, Result(r)
  PROVE  /\ check' \in Check /\ check'.at = "done" /\ check'.result = r
         /\ SameCall /\ check'.image = check.image
BY DEF Check, Result, SameCall, CheckPcs

\* A step of a check keeps what is said of the other checks.
LEMMA OtherChecks ==
  ASSUME UpdateInv, SameCall, UpdateType', UNCHANGED <<images, shown, steady>>
  PROVE  /\ ShownInv'
         /\ check.name # "wait" => WaitInv'
         /\ check.name # "upload" => UploadInv'
         /\ check.name # "priorities" => PriorityInv'
         /\ check.name # "delete" => DeleteInv'
<1>1. ShownInv'
  BY DEF UpdateInv, ShownInv, SameCall
<1> QED
  BY <1>1 DEF SameCall, WaitInv, ChangeSeen, ErrorsInARow, UploadInv, UploadRight, PriorityInv,
     DeleteInv, CheckReturned

\* A check that only reads may always end with an answer that promises nothing.
LEMMA EndsWithout ==
  ASSUME UpdateInv, NEW r \in {"timed_out", "no", "raised", "absent"}, Result(r),
         UNCHANGED <<images, shown, steady>>, streak' \in Nat
  PROVE  UpdateInv'
<1>1. /\ check' \in Check /\ check'.at = "done" /\ check'.result = r
      /\ SameCall /\ check'.image = check.image
  BY ResultType DEF UpdateInv, UpdateType, Results
<1>2. UpdateType'
  BY <1>1 DEF UpdateInv, UpdateType
<1>3. ShownInv'
  BY <1>1, <1>2, OtherChecks
<1>4. WaitInv'
  BY <1>1 DEF SameCall, UpdateInv, WaitInv, ChangeSeen, ErrorsInARow, CheckReturned
<1>5. UploadInv'
  BY <1>1 DEF UploadInv, UploadRight, CheckReturned
<1>6. PriorityInv' /\ DeleteInv'
  BY <1>1 DEF PriorityInv, DeleteInv, CheckReturned
<1> QED
  BY <1>2, <1>3, <1>4, <1>5, <1>6 DEF UpdateInv

\* Every call begins with the invariant.
LEMMA BeginsRight ==
  ASSUME UpdateInv, NEW c \in Check, Begin(c), c.at # "done", c.errors = 0, c.tries = 0,
         c.name = "wait" => c.image \in Images,
         c.name = "upload" => c.at = "path",
         c.name = "priorities" => c.taken = {},
         c.name = "delete" =>
           \A i \in Images : HostImage(i) => \E k \in 1..Len(c.list) : c.list[k] = i
  PROVE  UpdateInv'
<1>1. check' = c /\ streak' = 0 /\ shown' = Shows /\ images' = images
  BY DEF Begin
<1>2. UpdateType'
  BY <1>1 DEF UpdateInv, UpdateType, Shows, Image
<1>3. ShownInv'
  BY <1>1 DEF ShownInv, Shows
<1>4. WaitInv' /\ UploadInv'
  BY <1>1 DEF WaitInv, ChangeSeen, ErrorsInARow, UploadInv, UploadRight, CheckReturned
<1>5. PriorityInv'
  <2>1. c.list \in Seq(Images) /\ Len(c.list) \in Nat /\ DOMAIN c.list = 1..Len(c.list)
    BY LenProperties DEF Check
  <2> QED
    BY <1>1, <2>1 DEF PriorityInv, ActiveAt, PriorityAt, CheckReturned
<1>6. DeleteInv'
  <2>1. \A i \in Images : HostImage(i)' <=> HostImage(i)
    BY <1>1 DEF HostImage
  <2> QED
    BY <1>1, <2>1 DEF DeleteInv, CheckReturned
<1> QED
  BY <1>2, <1>3, <1>4, <1>5, <1>6 DEF UpdateInv

\* Each of the five checks begins so.
LEMMA CheckBeginsStep == UpdateInv /\ CheckBegins => UpdateInv'
<1> SUFFICES ASSUME UpdateInv, CheckBegins PROVE UpdateInv'
  OBVIOUS
<1> USE IdleType, UpdateAssumption
<1>1. CASE wait_for_activation_state_change
  <2>1. PICK i \in Images, a \in Activations :
          Begin([Idle EXCEPT !.name = "wait", !.at = "wait", !.image = i, !.initial = a])
    BY <1>1 DEF wait_for_activation_state_change
  <2> DEFINE c == [Idle EXCEPT !.name = "wait", !.at = "wait", !.image = i, !.initial = a]
  <2>2. c \in Check /\ c.name = "wait" /\ c.at = "wait" /\ c.image = i /\ c.errors = 0 /\ c.tries = 0
    BY DEF Check, CheckNames, CheckPcs
  <2> QED
    BY <2>1, <2>2, BeginsRight
<1>2. CASE verify_image_upload
  <2> DEFINE l == SetToSeq({i \in Images : images[i].unpacked})
  <2>1. l \in Seq(Images)
    BY ListOfSet
  <2>2. PICK v \in 1..2 :
          Begin([Idle EXCEPT !.name = "upload", !.at = "path", !.version = v, !.list = l])
    BY <1>2 DEF verify_image_upload
  <2> HIDE DEF l
  <2> DEFINE c == [Idle EXCEPT !.name = "upload", !.at = "path", !.version = v, !.list = l]
  <2>3. v \in 0..2
    OBVIOUS
  <2>4. c \in Check /\ c.name = "upload" /\ c.at = "path" /\ c.errors = 0 /\ c.tries = 0
    BY ONLY <2>1, <2>3, IdleType DEF Check, CheckNames, CheckPcs
  <2> QED
    BY <2>2, <2>4, BeginsRight
<1>3. CASE verify_image_not_in_bmc_uploads_dir
  <2>1. PICK v \in 1..2 : Begin([Idle EXCEPT !.name = "absent", !.at = "absent", !.version = v])
    BY <1>3 DEF verify_image_not_in_bmc_uploads_dir
  <2> DEFINE c == [Idle EXCEPT !.name = "absent", !.at = "absent", !.version = v]
  <2>2. v \in 0..2
    OBVIOUS
  <2>3. c \in Check /\ c.name = "absent" /\ c.at = "absent" /\ c.errors = 0 /\ c.tries = 0
    BY ONLY <2>2, IdleType DEF Check, CheckNames, CheckPcs
  <2> QED
    BY <2>1, <2>3, BeginsRight
<1>4. CASE verify_no_duplicate_image_priorities
  <2>1. PICK p \in Purposes :
    Begin([Idle EXCEPT !.name = "priorities", !.at = "priorities", !.list = ObjectsOf(p)])
    BY <1>4 DEF verify_no_duplicate_image_priorities
  <2>2. ObjectsOf(p) \in Seq(Images)
    BY ListOfSet DEF ObjectsOf
  <2> DEFINE c == [Idle EXCEPT !.name = "priorities", !.at = "priorities", !.list = ObjectsOf(p)]
  <2>3. /\ c \in Check /\ c.name = "priorities" /\ c.at = "priorities" /\ c.errors = 0
        /\ c.tries = 0 /\ c.taken = {}
    BY <2>2 DEF Check, CheckNames, CheckPcs
  <2> QED
    BY <2>1, <2>3, BeginsRight
<1>5. CASE delete_all_pnor_images
  <2> DEFINE l == ObjectsOf("Host")
             c == [Idle EXCEPT !.name = "delete", !.at = "delete", !.list = l]
  <2>1. Begin(c)
    BY <1>5 DEF delete_all_pnor_images
  <2>2. l \in Seq(Images) /\ \A i \in Images : HostImage(i) => \E k \in 1..Len(l) : l[k] = i
    <3> DEFINE T == {i \in Images : images[i].object /\ images[i].purpose = "Host"}
    <3>1. T \subseteq Images /\ \A i \in Images : HostImage(i) => i \in T
      BY DEF HostImage
    <3>2. l = SetToSeq(T)
      BY DEF ObjectsOf
    <3> HIDE DEF T, l
    <3>3. IsFiniteSet(Images)
      OBVIOUS
    <3> QED
      BY <3>1, <3>2, <3>3, ListOfSet
  <2> HIDE DEF l
  <2>3. c \in Check /\ c.name = "delete" /\ c.at = "delete" /\ c.errors = 0 /\ c.tries = 0 /\ c.list = l
    BY <2>2 DEF Check, CheckNames, CheckPcs
  <2>4. /\ c.name = "wait" => c.image \in Images
        /\ c.name = "upload" => c.at = "path"
        /\ c.name = "priorities" => c.taken = {}
        /\ c.at # "done"
        /\ \A i \in Images : HostImage(i) => \E k \in 1..Len(c.list) : c.list[k] = i
    BY ONLY <2>2, <2>3
  <2> HIDE DEF c
  <2> QED
    BY ONLY UpdateInv, <2>1, <2>3, <2>4, BeginsRight
<1> QED
  BY <1>1, <1>2, <1>3, <1>4, <1>5 DEF CheckBegins

\* The check goes on, with other counts.
Counts(e, n) ==
  \/ check' = [check EXCEPT !.errors = e]
  \/ check' = [check EXCEPT !.tries = n]
  \/ check' = [check EXCEPT !.errors = e, !.tries = n]
  \/ check' = [check EXCEPT !.rounds = e, !.tries = n]

\* Counting keeps the rest.
LEMMA CountType ==
  ASSUME check \in Check, NEW e \in Nat, NEW n \in Nat, Counts(e, n)
  PROVE  check' \in Check /\ SameCall /\ check'.at = check.at /\ check'.image = check.image
<1>1. CASE check' = [check EXCEPT !.errors = e]
  BY <1>1 DEF Check, SameCall
<1>2. CASE check' = [check EXCEPT !.tries = n]
  BY <1>2 DEF Check, SameCall
<1>3. CASE check' = [check EXCEPT !.errors = e, !.tries = n]
  BY <1>3 DEF Check, SameCall
<1>4. CASE check' = [check EXCEPT !.rounds = e, !.tries = n]
  BY <1>4 DEF Check, SameCall
<1> QED
  BY <1>1, <1>2, <1>3, <1>4 DEF Counts

\* A read for wait_for_activation_state_change, or the end of its tries.
LEMMA WaitStep == UpdateInv /\ (WaitRead \/ StateWaitTimesOut) => UpdateInv'
<1> SUFFICES ASSUME UpdateInv, WaitRead \/ StateWaitTimesOut PROVE UpdateInv'
  OBVIOUS
<1>1. CASE StateWaitTimesOut
  BY <1>1, EndsWithout DEF StateWaitTimesOut, readOnly, UpdateInv, UpdateType
<1>2. CASE WaitRead
  <2>1. /\ check.name = "wait" /\ check.at = "wait" /\ check \in Check /\ streak \in Nat
        /\ check.image \in Images /\ streak >= check.errors
        /\ check.errors \in Nat /\ check.tries \in Nat /\ ReadFailThreshold \in Nat
        /\ UNCHANGED <<images, shown, steady>>
    BY <1>2, UpdateAssumption DEF WaitRead, readOnly, UpdateInv, UpdateType, WaitInv, Check
  <2>2. SUFFICES ASSUME check' \in Check /\ SameCall /\ streak' \in Nat PROVE WaitInv'
    <3>1. check' \in Check /\ SameCall /\ streak' \in Nat
      <4>1. streak' \in Nat
        BY <1>2, <2>1 DEF WaitRead, ReadFails, ReadWorks
      <4>2. ASSUME NEW r \in {"read_errors", "changed"}, Result(r) PROVE check' \in Check /\ SameCall
        BY <2>1, <4>2, ResultType DEF Results
      <4>3. CASE check' = [check EXCEPT !.errors = @ + 1]
        <5>1. Counts(check.errors + 1, check.tries)
          BY <4>3, Zenon DEF Counts
        <5> QED
          BY ONLY <2>1, <4>1, <5>1, CountType
      <4>4. CASE check' = [check EXCEPT !.errors = WaitErrors, !.tries = Tried(@)]
        <5>1. Counts(0, check.tries + 1)
          BY <4>4, Zenon DEF Counts, WaitErrors, Tried
        <5> QED
          BY ONLY <2>1, <4>1, <5>1, CountType
      <4> QED
        BY <1>2, <4>1, <4>2, <4>3, <4>4 DEF WaitRead
    <3>2. UpdateType'
      BY <2>1, <3>1 DEF UpdateInv, UpdateType
    <3> QED
      BY <2>1, <2>2, <3>1, <3>2, OtherChecks DEF UpdateInv
  <2>3. CASE ReadFails /\ check.errors + 1 >= ReadFailThreshold /\ Result("read_errors")
    <3>1. streak' >= ReadFailThreshold
      BY <2>1, <2>3 DEF ReadFails
    <3> QED
      BY <2>1, <2>3, <3>1, ResultType
         DEF Results, SameCall, WaitInv, ChangeSeen, ErrorsInARow, CheckReturned
  <2>4. CASE ReadFails /\ check' = [check EXCEPT !.errors = @ + 1]
    <3>1. check'.at = "wait" /\ check'.errors = check.errors + 1 /\ check'.image = check.image
      BY <2>1, <2>4 DEF Check
    <3> QED
      BY <2>1, <2>4, <3>1 DEF ReadFails, WaitInv, ChangeSeen, ErrorsInARow, CheckReturned
  <2>5. CASE /\ Readable(check.image) /\ ChangedFrom(check.initial, check.image)
             /\ Result("changed")
    <3>1. images[check.image].activation # check.initial
      BY <2>5 DEF Readable, ChangedFrom
    <3>2. images[check.image].activation \in shown[check.image]
      BY <2>1 DEF UpdateInv, ShownInv
    <3>3. /\ check'.at = "done" /\ check'.result = "changed" /\ check'.image = check.image
          /\ check'.initial = check.initial
      BY <2>1, <2>5, ResultType DEF Results, SameCall
    <3> QED
      BY <2>1, <3>1, <3>2, <3>3 DEF WaitInv, ChangeSeen, ErrorsInARow, CheckReturned
  <2>6. CASE check' = [check EXCEPT !.errors = WaitErrors, !.tries = Tried(@)]
    <3>1. check'.at = "wait" /\ check'.errors = 0 /\ check'.image = check.image
      BY <2>1, <2>6 DEF Check, WaitErrors
    <3> QED
      BY <2>1, <2>2, <3>1 DEF WaitInv, ChangeSeen, ErrorsInARow, CheckReturned
  <2> QED
    BY <1>2, <2>3, <2>4, <2>5, <2>6 DEF WaitRead
<1> QED
  BY <1>1, <1>2

\* An entry of the list of a check.
LEMMA ListEntry ==
  ASSUME check \in Check, check.tries + 1 <= Len(check.list)
  PROVE  /\ check.tries + 1 \in 1..Len(check.list) /\ check.tries + 1 \in Nat
         /\ check.list[check.tries + 1] \in Images
<1>1. check.list \in Seq(Images) /\ check.tries \in Nat
  BY DEF Check
<1> QED
  BY <1>1, ElementOfSeq, LenProperties

\* A step of verify_image_upload.
LEMMA UploadStep ==
  UpdateInv /\ (get_image_path \/ get_image_purpose \/ UploadPoll \/ UploadTimesOut) => UpdateInv'
<1> SUFFICES ASSUME UpdateInv, get_image_path \/ get_image_purpose \/ UploadPoll \/ UploadTimesOut
             PROVE  UpdateInv'
  OBVIOUS
<1>1. /\ check \in Check /\ streak \in Nat /\ check.name = "upload"
      /\ check.rounds \in Nat /\ check.tries \in Nat /\ check.errors \in Nat
      /\ UNCHANGED <<images, shown, steady>> /\ streak' \in Nat
  <2>1. /\ check.name = "upload" /\ UNCHANGED <<images, shown, steady>>
        /\ UNCHANGED streak \/ ReadFails \/ ReadWorks
    BY DEF get_image_path, get_image_purpose, UploadPoll, UploadTimesOut, readOnly
  <2>2. check \in Check /\ streak \in Nat
    BY DEF UpdateInv, UpdateType
  <2> QED
    <3>1. streak' \in Nat
      BY ONLY <2>1, <2>2 DEF ReadFails, ReadWorks
    <3>2. check.rounds \in Nat /\ check.tries \in Nat /\ check.errors \in Nat
      BY ONLY <2>2 DEF Check
    <3> QED
      BY <2>1, <2>2, <3>1, <3>2
<1>2. ASSUME check' \in Check, SameCall, UploadInv' PROVE UpdateInv'
  <2>1. UpdateType'
    BY <1>1, <1>2 DEF UpdateInv, UpdateType
  <2> QED
    BY <1>1, <1>2, <2>1, OtherChecks DEF UpdateInv
<1>3. ASSUME Result("no") \/ Result("raised") PROVE UpdateInv'
  BY <1>1, <1>3, EndsWithout
<1>4. CASE get_image_path
  <2> DEFINE k == check.tries + 1
  <2>1. CASE /\ k <= Len(check.list) /\ SameVersion(check.list[k])
             /\ check' = [check EXCEPT !.at = "purpose", !.image = check.list[k], !.tries = 0]
    <3>1. check.list[k] \in Images /\ images[check.list[k]].version = check.version
      BY <1>1, <2>1, ListEntry DEF SameVersion
    <3>2. /\ check' \in Check /\ SameCall /\ check'.at = "purpose"
          /\ check'.image = check.list[k]
      BY ONLY <1>1, <2>1, <3>1 DEF Check, SameCall, CheckPcs
    <3>3. UploadInv'
      BY <1>1, <3>1, <3>2 DEF UploadInv, UploadRight, CheckReturned, SameCall
    <3> QED
      BY <1>2, <3>2, <3>3
  <2>2. CASE \/ k <= Len(check.list) /\ check' = [check EXCEPT !.tries = k]
             \/ check' = [check EXCEPT !.rounds = @ + 1, !.tries = 0]
    <3>1. check' \in Check /\ SameCall /\ check'.at = check.at
      <4>1. CASE k <= Len(check.list) /\ check' = [check EXCEPT !.tries = k]
        <5>1. Counts(0, k)
          BY <4>1, Zenon DEF Counts
        <5> QED
          BY ONLY <1>1, <5>1, CountType
      <4>2. CASE check' = [check EXCEPT !.rounds = @ + 1, !.tries = 0]
        <5>1. Counts(check.rounds + 1, 0)
          BY <4>2, Zenon DEF Counts
        <5> QED
          BY ONLY <1>1, <5>1, CountType
      <4> QED
        BY <2>2, <4>1, <4>2
    <3>2. UploadInv'
      BY <1>1, <1>4, <3>1 DEF get_image_path, UploadInv, UploadRight, CheckReturned
    <3> QED
      BY <1>2, <3>1, <3>2
  <2> QED
    BY <1>3, <1>4, <2>1, <2>2 DEF get_image_path
<1>5. CASE get_image_purpose
  <2>1. CASE CheckAt("poll")
    <3>1. check' \in Check /\ SameCall /\ check'.at = "poll" /\ check'.image = check.image
      BY <1>1, <2>1 DEF Check, SameCall, CheckAt, CheckPcs
    <3>2. check.at = "purpose"
      BY <1>5 DEF get_image_purpose
    <3>3. UploadInv'
      BY <1>1, <3>1, <3>2 DEF UpdateInv, UploadInv, UploadRight, CheckReturned, SameCall
    <3> QED
      BY <1>2, <3>1, <3>3
  <2> QED
    BY <1>3, <1>5, <2>1 DEF get_image_purpose
<1>6. CASE UploadPoll
  <2>1. /\ check.at = "poll" /\ check.image \in Images
        /\ images[check.image].version = check.version
    BY <1>1, <1>6 DEF UploadPoll, UpdateInv, UploadInv
  <2>2. CASE /\ images[check.image].activation \in {"Ready", "Invalid", "Active"}
             /\ Result("yes")
    <3>1. check' \in Check /\ SameCall /\ check'.at = "done" /\ check'.image = check.image
      BY <1>1, <2>2, ResultType DEF Results
    <3>2. images[check.image].activation \in shown[check.image]
      BY <1>1, <2>1 DEF UpdateInv, ShownInv
    <3>3. UploadInv'
      BY <1>1, <2>1, <2>2, <3>1, <3>2 DEF UploadInv, UploadRight, CheckReturned, SameCall
    <3> QED
      BY <1>2, <3>1, <3>3
  <2>3. CASE \/ check' = [check EXCEPT !.errors = @ + 1, !.tries = @ + 1]
             \/ check' = [check EXCEPT !.errors = 0, !.tries = @ + 1]
    <3>1. check' \in Check /\ SameCall /\ check'.at = "poll" /\ check'.image = check.image
      <4>1. CASE check' = [check EXCEPT !.errors = @ + 1, !.tries = @ + 1]
        <5>1. Counts(check.errors + 1, check.tries + 1)
          BY <4>1, Zenon DEF Counts
        <5> QED
          BY ONLY <1>1, <2>1, <5>1, CountType
      <4>2. CASE check' = [check EXCEPT !.errors = 0, !.tries = @ + 1]
        <5>1. Counts(0, check.tries + 1)
          BY <4>2, Zenon DEF Counts
        <5> QED
          BY ONLY <1>1, <2>1, <5>1, CountType
      <4> QED
        BY <2>3, <4>1, <4>2
    <3>2. UploadInv'
      BY <1>1, <2>1, <3>1 DEF UploadInv, UploadRight, CheckReturned, SameCall
    <3> QED
      BY <1>2, <3>1, <3>2
  <2> QED
    BY <1>3, <1>6, <2>2, <2>3 DEF UploadPoll
<1>7. CASE UploadTimesOut
  BY <1>3, <1>7 DEF UploadTimesOut
<1> QED
  BY <1>4, <1>5, <1>6, <1>7

\* A look of verify_image_not_in_bmc_uploads_dir.
LEMMA AbsentStep == UpdateInv /\ AbsentLooks => UpdateInv'
<1> SUFFICES ASSUME UpdateInv, AbsentLooks PROVE UpdateInv'
  OBVIOUS
<1>1. /\ check \in Check /\ check.name = "absent" /\ check.tries \in Nat /\ images \in [Images -> Image]
      /\ UNCHANGED <<shown, streak>>
  BY DEF AbsentLooks, UpdateInv, UpdateType, Check
<1>2. check' \in Check /\ SameCall
  <2>1. CASE check' = [check EXCEPT !.tries = @ + 1]
    <3>1. Counts(0, check.tries + 1)
      BY <2>1, Zenon DEF Counts
    <3> QED
      BY ONLY <1>1, <3>1, CountType
  <2>2. ASSUME NEW r \in {"absent", "found"}, Result(r) PROVE check' \in Check /\ SameCall
    BY <1>1, <2>2, ResultType DEF Results
  <2> QED
    BY <2>1, <2>2 DEF AbsentLooks
<1>3. images' \in [Images -> Image]
  <2>1. ASSUME NEW i \in Images, images' = [images EXCEPT ![i].unpacked = FALSE]
        PROVE  images' \in [Images -> Image]
    BY <1>1, <2>1 DEF Image
  <2> QED
    BY <1>1, <2>1 DEF AbsentLooks
<1>4. UpdateType'
  BY <1>1, <1>2, <1>3 DEF UpdateInv, UpdateType
<1> QED
  BY <1>1, <1>2, <1>4 DEF SameCall, UpdateInv, ShownInv, WaitInv, ChangeSeen, ErrorsInARow,
     UploadInv, UploadRight, PriorityInv, DeleteInv, CheckReturned

\* The next image of verify_no_duplicate_image_priorities.
LEMMA PriorityStep == UpdateInv /\ PriorityRead => UpdateInv'
<1> SUFFICES ASSUME UpdateInv, PriorityRead PROVE UpdateInv'
  OBVIOUS
<1> DEFINE k == check.tries + 1
           i == check.list[k]
<1>1. /\ check \in Check /\ check.name = "priorities" /\ check.at = "priorities"
      /\ check.tries \in Nat /\ UNCHANGED <<images, shown, steady, streak>>
      /\ images \in [Images -> Image] /\ streak \in Nat
  BY DEF PriorityRead, readOnly, UpdateInv, UpdateType, Check
<1>2. check.list \in Seq(Images) /\ Len(check.list) \in Nat /\ DOMAIN check.list = 1..Len(check.list)
  BY <1>1, LenProperties DEF Check
<1>3. k <= Len(check.list) => i \in Images /\ k \in 1..Len(check.list)
  BY <1>1, ListEntry
<1>4. steady =>
        /\ check.tries <= Len(check.list)
        /\ check.taken = {PriorityAt(j) : j \in {l \in ActiveAt : l <= check.tries}}
        /\ \A j, l \in ActiveAt : j < l /\ l <= check.tries => PriorityAt(j) # PriorityAt(l)
  BY <1>1 DEF UpdateInv, PriorityInv
<1>5. ActiveAt \subseteq 1..Len(check.list)
  BY <1>2 DEF ActiveAt
<1>6. ASSUME SameCall
      PROVE  ActiveAt' = ActiveAt /\ Duplicate' = Duplicate /\ \A j : PriorityAt(j)' = PriorityAt(j)
  BY <1>1, <1>6 DEF SameCall, ActiveAt, Duplicate, PriorityAt
<1>7. ASSUME check' \in Check, SameCall, PriorityInv' PROVE UpdateInv'
  <2>1. UpdateType'
    BY <1>1, <1>7 DEF UpdateInv, UpdateType
  <2> QED
    BY <1>1, <1>7, <2>1, OtherChecks DEF UpdateInv
<1> HIDE DEF k, i
<1>8. CASE k > Len(check.list) /\ Result("distinct")
  <2>1. check' \in Check /\ SameCall /\ check'.at = "done" /\ check'.result = "distinct"
    BY <1>1, <1>8, ResultType DEF Results
  <2>2. steady => ~Duplicate
    BY <1>1, <1>2, <1>4, <1>5, <1>8 DEF Duplicate, k
  <2>3. PriorityInv'
    BY <1>1, <1>6, <2>1, <2>2 DEF PriorityInv, CheckReturned
  <2> QED
    BY <1>7, <2>1, <2>3
<1>9. CASE k <= Len(check.list) /\ PriorityTaken(i) /\ Result("duplicates") /\ images[i].activation = "Active"
  <2>1. check' \in Check /\ SameCall /\ check'.at = "done" /\ check'.result = "duplicates"
    BY <1>1, <1>9, ResultType DEF Results
  <2>2. k \in ActiveAt /\ PriorityAt(k) = images[i].priority
    BY <1>2, <1>3, <1>9 DEF ActiveAt, PriorityAt, i
  <2>3. steady => Duplicate
    <3> SUFFICES ASSUME steady PROVE Duplicate
      OBVIOUS
    <3>1. PriorityAt(k) \in check.taken
      BY <1>9, <2>2 DEF PriorityTaken
    <3>2. PICK j \in ActiveAt : j <= check.tries /\ PriorityAt(j) = PriorityAt(k)
      BY <1>4, <3>1
    <3>3. j < k
      BY <1>1, <1>5, <3>2 DEF k
    <3> QED
      BY <2>2, <3>2, <3>3 DEF Duplicate
  <2>4. PriorityInv'
    BY <1>1, <1>6, <2>1, <2>3 DEF PriorityInv, CheckReturned
  <2> QED
    BY <1>7, <2>1, <2>4
<1>10. CASE /\ k <= Len(check.list) /\ images[i].activation # "Active"
            /\ check' = [check EXCEPT !.tries = k]
  <2>1. k \in Nat
    BY <1>1 DEF k
  <2>2. /\ check' \in Check /\ SameCall /\ check'.at = check.at /\ check'.tries = k
        /\ check'.taken = check.taken
    BY ONLY <1>1, <1>10, <2>1 DEF Check, SameCall
  <2>3. k \notin ActiveAt
    BY <1>10 DEF ActiveAt, i
  <2>4. {l \in ActiveAt : l <= k} = {l \in ActiveAt : l <= check.tries}
    <3>1. \A l \in ActiveAt : l <= k <=> l <= check.tries
      BY <1>1, <1>5, <2>3 DEF k
    <3> QED
      BY <3>1
  <2>5. steady => \A j, l \in ActiveAt : j < l /\ l <= k => PriorityAt(j) # PriorityAt(l)
    BY <1>4, <2>4
  <2>6. PriorityInv'
    BY <1>1, <1>4, <1>6, <1>10, <2>2, <2>4, <2>5 DEF PriorityInv, CheckReturned, SameCall
  <2> QED
    BY <1>7, <2>2, <2>6
<1>11. CASE /\ k <= Len(check.list) /\ images[i].activation = "Active" /\ ~PriorityTaken(i)
            /\ check' = [check EXCEPT !.tries = k, !.taken = @ \cup {images[i].priority}]
  <2>1. k \in Nat /\ images[i].priority \in 0..1
    BY <1>1, <1>3, <1>11 DEF k, Image
  <2>2. check.taken \in SUBSET (0..1)
    BY <1>1 DEF Check
  <2> DEFINE t == check.taken \cup {images[i].priority}
  <2>3. t \in SUBSET (0..1) /\ check' = [check EXCEPT !.tries = k, !.taken = t]
    BY <1>11, <2>1, <2>2
  <2> HIDE DEF t
  <2>4. /\ check' \in Check /\ SameCall /\ check'.at = check.at /\ check'.tries = k
        /\ check'.taken = t
    BY ONLY <1>1, <2>1, <2>3 DEF Check, SameCall
  <2>5. k \in ActiveAt /\ PriorityAt(k) = images[i].priority /\ PriorityAt(k) \notin check.taken
    BY <1>2, <1>3, <1>11 DEF ActiveAt, PriorityAt, PriorityTaken, i
  <2>6. {l \in ActiveAt : l <= k} = {l \in ActiveAt : l <= check.tries} \cup {k}
    <3>1. \A l \in ActiveAt : l <= k <=> l <= check.tries \/ l = k
      BY <1>1, <1>5 DEF k
    <3> QED
      BY <2>5, <3>1
  <2>7. steady => t = {PriorityAt(j) : j \in {l \in ActiveAt : l <= k}}
    BY <1>4, <2>5, <2>6 DEF t
  <2>8. steady => \A j, l \in ActiveAt : j < l /\ l <= k => PriorityAt(j) # PriorityAt(l)
    <3> SUFFICES ASSUME steady, NEW j \in ActiveAt, NEW l \in ActiveAt, j < l, l <= k
                 PROVE  PriorityAt(j) # PriorityAt(l)
      OBVIOUS
    <3>1. CASE l <= check.tries
      BY <1>4, <3>1
    <3>2. CASE l = k
      <4>1. j <= check.tries
        BY <1>1, <1>5, <3>2 DEF k
      <4> QED
        BY <1>4, <2>5, <3>2, <4>1
    <3> QED
      BY <2>6, <3>1, <3>2
  <2>9. PriorityInv'
    <3>1. check'.name = "priorities" /\ check'.at = "priorities" /\ check'.list = check.list
          /\ k <= Len(check.list) /\ steady' = steady
      BY ONLY <1>1, <1>11, <2>4 DEF SameCall
    <3>2. ActiveAt' = ActiveAt /\ \A j : PriorityAt(j)' = PriorityAt(j)
      BY <1>6, <2>4
    <3> HIDE DEF t
    <3>3. steady' => check'.taken = {PriorityAt(j)' : j \in {l \in ActiveAt' : l <= check'.tries}}
      BY ONLY <2>4, <2>7, <3>1, <3>2
    <3>4. steady' => \A j, l \in ActiveAt' : j < l /\ l <= check'.tries => PriorityAt(j)' # PriorityAt(l)'
      BY ONLY <2>4, <2>8, <3>1, <3>2
    <3> QED
      BY ONLY <2>4, <3>1, <3>3, <3>4 DEF PriorityInv, CheckReturned
  <2> QED
    BY <1>7, <2>4, <2>9
<1>12. CASE Result("raised")
  BY <1>1, <1>12, EndsWithout
<1> QED
  BY <1>8, <1>9, <1>10, <1>11, <1>12 DEF PriorityRead, k, i

\* The next image of delete_all_pnor_images.
LEMMA DeleteStep == UpdateInv /\ DeleteNext => UpdateInv'
<1> SUFFICES ASSUME UpdateInv, DeleteNext PROVE UpdateInv'
  OBVIOUS
<1> DEFINE k == check.tries + 1
           i == check.list[k]
<1>1. /\ check \in Check /\ check.name = "delete" /\ check.at = "delete"
      /\ check.tries \in Nat /\ UNCHANGED <<shown, steady, streak>>
      /\ images \in [Images -> Image] /\ streak \in Nat
  BY DEF DeleteNext, UpdateInv, UpdateType, Check
<1>2. check.list \in Seq(Images) /\ Len(check.list) \in Nat
  BY <1>1, LenProperties DEF Check
<1>3. steady => \A j \in Images : HostImage(j) =>
                  \E l \in 1..Len(check.list) : l > check.tries /\ check.list[l] = j
  BY <1>1 DEF UpdateInv, DeleteInv
<1>4. CASE k > Len(check.list) /\ Result("deleted") /\ UNCHANGED images
  <2>1. check' \in Check /\ SameCall /\ check'.at = "done"
    BY <1>1, <1>4, ResultType DEF Results
  <2>2. steady => \A j \in Images : ~HostImage(j)
    BY <1>1, <1>2, <1>3, <1>4
  <2>3. \A j \in Images : HostImage(j)' <=> HostImage(j)
    BY <1>4 DEF HostImage
  <2>4. DeleteInv'
    BY <1>1, <2>1, <2>2, <2>3 DEF DeleteInv
  <2>5. UpdateType'
    BY <1>1, <1>4, <2>1 DEF UpdateInv, UpdateType
  <2> QED
    BY <1>1, <1>4, <2>1, <2>4, <2>5, OtherChecks DEF UpdateInv
<1>5. CASE Result("raised") /\ UNCHANGED images
  BY <1>1, <1>5, EndsWithout
<1>6. CASE /\ k <= Len(check.list) /\ check' = [check EXCEPT !.tries = k]
           /\ images' = [images EXCEPT ![i] = [@ EXCEPT !.object = FALSE, !.unpacked = FALSE,
                                                       !.activation = "NotReady"]]
  <2>1. k \in Nat /\ k \in 1..Len(check.list) /\ i \in Images
    BY <1>1, <1>6, ListEntry
  <2> DEFINE d == [images[i] EXCEPT !.object = FALSE, !.unpacked = FALSE, !.activation = "NotReady"]
  <2>2. images[i] \in Image
    BY <1>1, <2>1
  <2> HIDE DEF k, i
  <2>3. d \in Image /\ ~d.object
    BY ONLY <2>2 DEF Image, Activations
  <2>4. images' = [images EXCEPT ![i] = d]
    BY <1>6
  <2> HIDE DEF d
  <2>5. images' \in [Images -> Image]
    BY <1>1, <2>1, <2>3, <2>4
  <2>6. \A j \in Images : HostImage(j)' => j # i /\ HostImage(j)
    BY <1>1, <2>1, <2>3, <2>4 DEF HostImage
  <2>7. check' \in Check /\ SameCall /\ check'.at = check.at /\ check'.tries = k
    BY ONLY <1>1, <1>6, <2>1 DEF Check, SameCall
  <2>8. steady => \A j \in Images : HostImage(j)' =>
                    \E l \in 1..Len(check.list) : l > k /\ check.list[l] = j
    <3> SUFFICES ASSUME steady, NEW j \in Images, HostImage(j)'
                 PROVE  \E l \in 1..Len(check.list) : l > k /\ check.list[l] = j
      OBVIOUS
    <3>1. PICK l \in 1..Len(check.list) : l > check.tries /\ check.list[l] = j
      BY <1>3, <2>6
    <3>2. l # k
      BY <2>6, <3>1 DEF i
    <3> QED
      BY <1>1, <1>2, <3>1, <3>2 DEF k
  <2>9. UpdateType'
    BY <1>1, <2>5, <2>7 DEF UpdateInv, UpdateType
  <2>10. DeleteInv'
    BY <1>1, <2>7, <2>8 DEF DeleteInv, CheckReturned, SameCall
  <2> QED
    BY <1>1, <2>7, <2>9, <2>10 DEF SameCall, UpdateInv, ShownInv, WaitInv, ChangeSeen, ErrorsInARow,
       UploadInv, UploadRight, PriorityInv, CheckReturned
<1> QED
  BY <1>4, <1>5, <1>6 DEF DeleteNext

\* A change on the BMC: no image gets another version.
LEMMA BmcStep == UpdateInv /\ BmcUpdates => UpdateInv'
<1> SUFFICES ASSUME UpdateInv, BmcUpdates PROVE UpdateInv'
  OBVIOUS
<1>1. /\ images \in [Images -> Image] /\ check' = check /\ streak' = streak /\ ~steady'
      /\ shown' = [j \in Images |-> shown[j] \cup {images'[j].activation}]
      /\ shown \in [Images -> SUBSET Activations]
  BY DEF BmcUpdates, UpdateInv, UpdateType
<1>2. \E i \in Images, d \in Image : d.version = images[i].version /\ images' = [images EXCEPT ![i] = d]
  <2>1. PICK i \in Images :
       \/ /\ ~images[i].unpacked /\ ~images[i].object
          /\ \E p \in Purposes \cup {"Other"} :
               images' = [images EXCEPT ![i] = Unpacked(images[i].version, p)]
       \/ images[i].unpacked /\ ~images[i].object /\ images' = [images EXCEPT ![i].object = TRUE]
       \/ /\ images[i].object
          /\ \E a \in Activations \ {images[i].activation}, n \in 0..1 :
               /\ a # "Active" => n = 0
               /\ images' = [images EXCEPT ![i].activation = a, ![i].priority = n]
       \/ images[i].unpacked /\ images' = [images EXCEPT ![i].unpacked = FALSE]
    BY Zenon DEF BmcUpdates
  <2>2. images[i] \in Image /\ images[i].version \in 1..2
    BY <1>1 DEF Image
  <2>3. ASSUME NEW p \in Purposes \cup {"Other"},
               images' = [images EXCEPT ![i] = Unpacked(images[i].version, p)]
        PROVE  \E d \in Image : d.version = images[i].version /\ images' = [images EXCEPT ![i] = d]
    <3> DEFINE d == Unpacked(images[i].version, p)
    <3>1. d \in Image /\ d.version = images[i].version
      BY <2>2 DEF Unpacked, Image, Purposes, Activations
    <3> QED
      BY <2>3, <3>1, Zenon
  <2>4. ASSUME images' = [images EXCEPT ![i].object = TRUE]
        PROVE  \E d \in Image : d.version = images[i].version /\ images' = [images EXCEPT ![i] = d]
    <3> DEFINE d == [images[i] EXCEPT !.object = TRUE]
    <3>1. d \in Image /\ d.version = images[i].version
      BY <2>2 DEF Image
    <3> QED
      BY <2>4, <3>1, Zenon
  <2>5. ASSUME images' = [images EXCEPT ![i].unpacked = FALSE]
        PROVE  \E d \in Image : d.version = images[i].version /\ images' = [images EXCEPT ![i] = d]
    <3> DEFINE d == [images[i] EXCEPT !.unpacked = FALSE]
    <3>1. d \in Image /\ d.version = images[i].version
      BY <2>2 DEF Image
    <3> QED
      BY <2>5, <3>1, Zenon
  <2>6. ASSUME NEW a \in Activations, NEW n \in 0..1,
               images' = [images EXCEPT ![i].activation = a, ![i].priority = n]
        PROVE  \E d \in Image : d.version = images[i].version /\ images' = [images EXCEPT ![i] = d]
    <3> DEFINE d == [images[i] EXCEPT !.activation = a, !.priority = n]
    <3>1. d \in Image /\ d.version = images[i].version
      BY <2>2 DEF Image
    <3>2. images' = [images EXCEPT ![i] = d]
      BY <1>1, <2>2, <2>6 DEF Image
    <3> QED
      BY <3>1, <3>2, Zenon
  <2> QED
    BY <2>1, <2>3, <2>4, <2>5, <2>6, Zenon
<1>3. PICK i \in Images, d \in Image :
        d.version = images[i].version /\ images' = [images EXCEPT ![i] = d]
  BY <1>2
<1>4. images' \in [Images -> Image] /\ \A j \in Images : images'[j].version = images[j].version
  BY <1>1, <1>3
<1>5. shown' \in [Images -> SUBSET Activations] /\ \A j \in Images : shown[j] \subseteq shown'[j]
  BY <1>1, <1>4 DEF Image
<1>6. UpdateType'
  BY <1>1, <1>4, <1>5 DEF UpdateInv, UpdateType
<1>7. ShownInv'
  BY <1>1 DEF ShownInv
<1>8. WaitInv'
  BY <1>1, <1>5 DEF UpdateInv, WaitInv, ChangeSeen, ErrorsInARow, CheckReturned
<1>9. UploadInv'
  BY <1>1, <1>4, <1>5 DEF UpdateInv, UploadInv, UploadRight, CheckReturned
<1>10. PriorityInv' /\ DeleteInv'
  BY <1>1 DEF PriorityInv, DeleteInv
<1> QED
  BY <1>6, <1>7, <1>8, <1>9, <1>10 DEF UpdateInv

\* Every step of a check and every change on the BMC keeps the invariant.
LEMMA UpdateInvStep == UpdateInv /\ [UpdateNext]_updateVars => UpdateInv'
<1>1. UpdateInv /\ UNCHANGED updateVars => UpdateInv'
  BY DEF updateVars, UpdateInv, UpdateType, ShownInv, WaitInv, ChangeSeen, ErrorsInARow, UploadInv,
     UploadRight, PriorityInv, ActiveAt, PriorityAt, Duplicate, DeleteInv, HostImage, CheckReturned
<1> QED
  BY <1>1, CheckBeginsStep, WaitStep, UploadStep, AbsentStep, PriorityStep, DeleteStep, BmcStep
     DEF UpdateNext, CheckStep

\* What a check of a code update tells its caller was so on the BMC while it
\* ran, for any images, any number of tries and any changes on the BMC.
THEOREM AnswersAreRight == UpdateSpec => []AnswersRight
<1>1. UpdateInv => AnswersRight
  BY DEF UpdateInv, WaitInv, UploadInv, PriorityInv, DeleteInv, AnswersRight, ImagesAsTold, Duplicate,
     ActiveAt, PriorityAt, HostImage, CheckReturned
<1> QED
  BY UpdateInvInit, UpdateInvStep, <1>1, PTL DEF UpdateSpec

-----------------------------------------------------------------------------
(* PlugInPackages *)

PackPcs == {"idle", "list", "loop", "parse", "returned"}
PackReport == [name : PlugIns, shell_rc : Nat]

\* The types of the variables.
PackType ==
  /\ pack_pc \in PackPcs /\ pack_programs \in [PlugIns -> ReturnCodes \cup {Absent}]
  /\ plug_in_packages_list \in Seq(PlugIns) /\ allow_shell_rc \in Nat
  /\ place \in Nat \ {0} /\ ret_code \in 0..1 /\ pack_reports \in Seq(PackReport)

\* Until the loop begins nothing was run.
BeforeLoop ==
  pack_pc \in {"idle", "list"} => pack_reports = <<>> /\ place = 1 /\ ret_code = 0

\* A refused list was not processed; one that is processed is in order.
RefusedInv ==
  /\ pack_pc = "loop" => Selected \cap Unsupported = {}
  /\ pack_pc \in {"parse", "returned"} /\ Selected \cap Unsupported # {} =>
       pack_reports = <<>> /\ ret_code = 1

\* No package is twice in the list that is processed.
SingleInv ==
  pack_pc = "loop" => \A i, j \in DOMAIN plug_in_packages_list :
                        plug_in_packages_list[i] = plug_in_packages_list[j] => i = j

\* A report tells what the program of a package before the place returned.
ReportInv ==
  /\ \A i \in DOMAIN pack_reports :
       LET r == pack_reports[i] IN
       pack_programs[r.name] # Absent /\ r.shell_rc = pack_programs[r.name] * 256
  /\ \A p \in Ran : \E j \in DOMAIN plug_in_packages_list : j < place /\ plug_in_packages_list[j] = p

\* As many packages were run as there are reports.
CountInv == IsFiniteSet(Ran) /\ Cardinality(Ran) = Len(pack_reports)

\* No report but the last one stops the loop, and this one not while it runs.
StopInv ==
  /\ pack_pc = "loop" => \A i \in DOMAIN pack_reports : ~Stops(pack_reports[i].shell_rc)
  /\ \A i \in DOMAIN pack_reports : i < Len(pack_reports) => ~Stops(pack_reports[i].shell_rc)

\* A failing program is what makes the return code.
FailureInv ==
  (\E i \in DOMAIN pack_reports : Fails(pack_reports[i].shell_rc))
    <=> ret_code = 1 /\ Selected \cap Unsupported = {}

\* All packages before the place were run, those with a program; the loop ends
\* at the end of the list or with a report that stops it.
CoverInv ==
  /\ pack_pc = "loop" =>
       \A j \in DOMAIN plug_in_packages_list :
         j < place /\ pack_programs[plug_in_packages_list[j]] # Absent => plug_in_packages_list[j] \in Ran
  /\ pack_pc \in {"parse", "returned"} /\ Selected \cap Unsupported = {} =>
       \/ WithProgram \subseteq Ran
       \/ \E i \in DOMAIN pack_reports : Stops(pack_reports[i].shell_rc)

\* The caller gets the return code, the last code and, if this one is not zero,
\* the last name.
AnswerInv ==
  pack_pc = "returned" =>
    /\ plug_rc = ret_code
    /\ pack_reports # <<>> =>
         LET r == pack_reports[Len(pack_reports)] IN
         plug_shell_rc = r.shell_rc /\ (r.shell_rc # 0 => failed_plug_in_name = r.name)

PackInv ==
  /\ PackType /\ BeforeLoop /\ RefusedInv /\ SingleInv /\ ReportInv
  /\ CountInv /\ StopInv /\ FailureInv /\ CoverInv /\ AnswerInv

\* In the beginning nothing was called.
LEMMA PackInvInit == PackInit => PackInv
<1> SUFFICES ASSUME PackInit PROVE PackInv
  OBVIOUS
<1>1. /\ pack_pc = "idle" /\ pack_programs = [p \in PlugIns |-> Absent]
      /\ plug_in_packages_list = <<>> /\ allow_shell_rc = 0
      /\ place = 1 /\ ret_code = 0 /\ pack_reports = <<>>
  BY DEF PackInit
<1>2. /\ DOMAIN pack_reports = {} /\ Len(pack_reports) = 0 /\ DOMAIN plug_in_packages_list = {}
      /\ pack_reports \in Seq(PackReport) /\ plug_in_packages_list \in Seq(PlugIns)
  BY <1>1
<1>3. Ran = {}
  BY <1>2 DEF Ran
<1>4. PackType
  BY <1>1, <1>2 DEF PackType, PackPcs
<1>5. BeforeLoop /\ RefusedInv /\ SingleInv /\ ReportInv /\ StopInv /\ CoverInv /\ AnswerInv
  BY <1>1, <1>2, <1>3
     DEF BeforeLoop, RefusedInv, SingleInv, ReportInv, StopInv, CoverInv, AnswerInv
<1>6. CountInv
  BY <1>2, <1>3, FS_EmptySet DEF CountInv
<1>7. FailureInv
  BY <1>1, <1>2 DEF FailureInv
<1> QED
  BY <1>4, <1>5, <1>6, <1>7 DEF PackInv

\* A call begins with its parameters and without reports.
LEMMA PackCallStep ==
  ASSUME PackInv, NEW list \in UserLists, NEW allow \in AllowedRcs,
         NEW onFailure \in BOOLEAN, NEW onNonZero \in BOOLEAN,
         rprocess_plug_in_packages(list, allow, onFailure, onNonZero)
  PROVE  PackInv'
<1>1. /\ pack_programs' \in [PlugIns -> ReturnCodes \cup {Absent}]
      /\ plug_in_packages_list' = list /\ allow_shell_rc' = allow
      /\ place' = 1 /\ ret_code' = 0 /\ pack_reports' = <<>>
      /\ pack_pc' \in {"list", "returned"}
      /\ pack_pc' = "returned" => list = <<>> /\ plug_rc' = 0
  BY DEF rprocess_plug_in_packages, PackCalled
<1>2. list \in Seq(PlugIns) /\ allow \in Nat
  BY PlugInAssumption
<1>3. DOMAIN pack_reports' = {} /\ Len(pack_reports') = 0 /\ pack_reports' \in Seq(PackReport)
  BY <1>1
<1>4. Ran' = {}
  BY <1>3 DEF Ran
<1>5. list = <<>> => ToSet(list) = {}
  BY DEF ToSet
<1>6. PackType'
  BY <1>1, <1>2, <1>3 DEF PackType, PackPcs
<1>7. BeforeLoop' /\ SingleInv' /\ ReportInv' /\ StopInv' /\ AnswerInv'
  BY <1>1, <1>3, <1>4 DEF BeforeLoop, SingleInv, ReportInv, StopInv, AnswerInv
<1>8. RefusedInv' /\ FailureInv' /\ CoverInv'
  BY <1>1, <1>3, <1>5 DEF RefusedInv, FailureInv, CoverInv, WithProgram, Selected
<1>9. CountInv'
  BY <1>3, <1>4, FS_EmptySet DEF CountInv
<1> QED
  BY <1>6, <1>7, <1>8, <1>9 DEF PackInv

\* What stays while the list is made or refused.
LEMMA PackSame ==
  ASSUME PackInv, pack_pc = "list",
         UNCHANGED <<packParms, place, pack_reports, packResult>>
  PROVE  /\ pack_programs' = pack_programs /\ allow_shell_rc' = allow_shell_rc
         /\ DOMAIN pack_reports = {} /\ pack_reports' = <<>> /\ Len(pack_reports) = 0
         /\ place = 1 /\ place' = 1 /\ ret_code = 0
         /\ Ran = {} /\ Ran' = {}
<1>1. pack_programs' = pack_programs /\ allow_shell_rc' = allow_shell_rc
  BY DEF packParms
<1>2. /\ DOMAIN pack_reports = {} /\ pack_reports' = <<>> /\ Len(pack_reports) = 0
      /\ place = 1 /\ place' = 1 /\ ret_code = 0
  BY DEF PackInv, BeforeLoop
<1>3. Ran = {} /\ Ran' = {}
  BY <1>2 DEF Ran
<1> QED
  BY <1>1, <1>2, <1>3

\* A list with a package that cannot be used ends the processing.
LEMMA RefusedStep ==
  ASSUME PackInv, ListRefused
  PROVE  PackInv'
<1>1. /\ pack_pc = "list" /\ pack_pc' = "parse" /\ ret_code' = 1
      /\ plug_in_packages_list' = plug_in_packages_list
      /\ Selected \cap Unsupported # {}
      /\ UNCHANGED <<packParms, place, pack_reports, packResult>>
  BY DEF ListRefused, Selected
<1>2. /\ pack_programs' = pack_programs /\ allow_shell_rc' = allow_shell_rc
      /\ DOMAIN pack_reports = {} /\ pack_reports' = <<>> /\ Len(pack_reports) = 0
      /\ place = 1 /\ place' = 1 /\ ret_code = 0 /\ Ran = {} /\ Ran' = {}
  BY <1>1, PackSame
<1>3. Selected' = Selected
  BY <1>1 DEF Selected
<1>4. PackType'
  BY <1>1, <1>2 DEF PackInv, PackType, PackPcs
<1>5. BeforeLoop' /\ RefusedInv' /\ SingleInv' /\ ReportInv' /\ StopInv' /\ CoverInv' /\ AnswerInv'
  BY <1>1, <1>2, <1>3
     DEF BeforeLoop, RefusedInv, SingleInv, ReportInv, StopInv, CoverInv, AnswerInv
<1>6. CountInv'
  BY <1>1, <1>2 DEF PackInv, CountInv
<1>7. FailureInv'
  BY <1>1, <1>2, <1>3 DEF FailureInv
<1> QED
  BY <1>4, <1>5, <1>6, <1>7 DEF PackInv

\* The list that is processed has every package once and only packages that can
\* be used.
LEMMA ListIsMade ==
  ASSUME PackType, NEW list \in return_plug_in_packages_list(plug_in_packages_list),
         ToSet(plug_in_packages_list) \cap Unsupported = {}
  PROVE  /\ list \in Seq(PlugIns) /\ ToSet(list) \cap Unsupported = {}
         /\ \A i, j \in DOMAIN list : list[i] = list[j] => i = j
<1> DEFINE S == ToSet(plug_in_packages_list) \cup Integrated
<1>1. S \subseteq PlugIns /\ S \cap Unsupported = {}
  BY PlugInAssumption DEF PackType, ToSet
<1>2. IsFiniteSet(S)
  BY <1>1, PlugInAssumption, FS_Subset
<1>3. PICK n \in Nat : n = Cardinality(S)
  BY <1>2, FS_CardinalityType
<1>4. list \in [1..n -> S] /\ \A i, j \in 1..n : i # j => list[i] # list[j]
  BY <1>3 DEF return_plug_in_packages_list, SetToSeqs
<1> HIDE DEF S
<1>5. list \in Seq(PlugIns) /\ DOMAIN list = 1..n
  BY <1>1, <1>4
<1>6. ToSet(list) \cap Unsupported = {}
  BY <1>1, <1>4, <1>5 DEF ToSet
<1> QED
  BY <1>4, <1>5, <1>6

\* The loop begins.
LEMMA MadeStep ==
  ASSUME PackInv, ListMade
  PROVE  PackInv'
<1>1. /\ pack_pc = "list" /\ pack_pc' = "loop" /\ ret_code' = ret_code
      /\ UNCHANGED <<packParms, place, pack_reports, packResult>>
  BY DEF ListMade
<1>2. /\ pack_programs' = pack_programs /\ allow_shell_rc' = allow_shell_rc
      /\ DOMAIN pack_reports = {} /\ pack_reports' = <<>> /\ Len(pack_reports) = 0
      /\ place = 1 /\ place' = 1 /\ ret_code = 0 /\ Ran = {} /\ Ran' = {}
  BY <1>1, PackSame
<1>3. /\ plug_in_packages_list' \in Seq(PlugIns) /\ Selected' \cap Unsupported = {}
      /\ \A i, j \in DOMAIN plug_in_packages_list' :
           plug_in_packages_list'[i] = plug_in_packages_list'[j] => i = j
  BY ListIsMade DEF ListMade, PackInv, Selected
<1>4. PackType'
  BY <1>1, <1>2, <1>3 DEF PackInv, PackType, PackPcs
<1>5. BeforeLoop' /\ RefusedInv' /\ SingleInv' /\ ReportInv' /\ StopInv' /\ AnswerInv'
  BY <1>1, <1>2, <1>3 DEF BeforeLoop, RefusedInv, SingleInv, ReportInv, StopInv, AnswerInv
<1>6. CountInv'
  BY <1>1, <1>2 DEF PackInv, CountInv
<1>7. FailureInv'
  BY <1>1, <1>2, <1>3 DEF FailureInv
<1>8. CoverInv'
  <2>1. \A j \in DOMAIN plug_in_packages_list' : ~(j < place')
    BY <1>2, <1>3
  <2> QED
    BY <1>1, <2>1 DEF CoverInv
<1> QED
  BY <1>4, <1>5, <1>6, <1>7, <1>8 DEF PackInv

\* A step of the loop or to the parser leaves the parameters and the list alone.
PackKept ==
  /\ pack_programs' = pack_programs /\ plug_in_packages_list' = plug_in_packages_list
  /\ allow_shell_rc' = allow_shell_rc
  /\ stop_on_plug_in_failure' = stop_on_plug_in_failure
  /\ stop_on_non_zero_rc' = stop_on_non_zero_rc

\* A package without a program for the call point is passed.
LEMMA PassStep ==
  ASSUME PackInv, NoProgram
  PROVE  PackInv'
<1>1. /\ PackKept /\ UNCHANGED <<pack_pc, ret_code, pack_reports>> /\ place' = place + 1
      /\ pack_pc = "loop" /\ place \in DOMAIN plug_in_packages_list
      /\ pack_programs[plug_in_packages_list[place]] = Absent
  BY DEF NoProgram, AtPackage, Package, packParms, PackKept, PackInv, PackType
<1>2. Ran' = Ran /\ Selected' = Selected
  BY <1>1 DEF Ran, Selected, PackKept
<1>3. place \in Nat \ {0}
  BY DEF PackInv, PackType
<1>4. PackType'
  BY <1>1, <1>3 DEF PackInv, PackType, PackKept
<1>5. BeforeLoop' /\ RefusedInv' /\ SingleInv' /\ AnswerInv'
  BY <1>1, <1>2 DEF PackInv, BeforeLoop, RefusedInv, SingleInv, AnswerInv, PackKept
<1>6. ReportInv'
  <2>1. \A p \in Ran : \E j \in DOMAIN plug_in_packages_list :
                          j < place + 1 /\ plug_in_packages_list[j] = p
    BY <1>3 DEF PackInv, PackType, ReportInv
  <2> QED
    BY <1>1, <1>2, <2>1 DEF PackInv, ReportInv, PackKept
<1>7. CountInv' /\ StopInv' /\ FailureInv'
  BY <1>1, <1>2 DEF PackInv, CountInv, StopInv, FailureInv, PackKept, Stops, Fails
<1>8. CoverInv'
  <2>1. \A j \in DOMAIN plug_in_packages_list : j < place' => j < place \/ j = place
    BY <1>1, <1>3 DEF PackInv, PackType
  <2> QED
    BY <1>1, <1>2, <2>1 DEF PackInv, CoverInv, PackKept
<1> QED
  BY <1>4, <1>5, <1>6, <1>7, <1>8 DEF PackInv

\* A program is run for the first time, and reported.
LEMMA RunStep ==
  ASSUME PackInv, run_pgm
  PROVE  PackInv'
<1>1. /\ PackKept /\ place' = place + 1 /\ pack_pc = "loop"
      /\ place \in DOMAIN plug_in_packages_list /\ place \in Nat \ {0}
      /\ pack_programs[plug_in_packages_list[place]] # Absent
  BY DEF run_pgm, AtPackage, Package, packParms, PackKept, PackInv, PackType
<1>2. PICK p \in PlugIns : p = plug_in_packages_list[place]
  BY <1>1 DEF PackInv, PackType
<1>3. PICK code \in Nat : code = pack_programs[p] * 256
  <2>1. pack_programs[p] \in Nat
    <3>1. pack_programs[p] \in ReturnCodes \cup {Absent} /\ pack_programs[p] # Absent
      BY <1>1, <1>2 DEF PackInv, PackType
    <3>2. ReturnCodes \subseteq 0..255
      BY ONLY PlugInAssumption
    <3>3. pack_programs[p] \in ReturnCodes
      BY ONLY <3>1
    <3>4. pack_programs[p] \in 0..255
      BY ONLY <3>2, <3>3, Zenon
    <3> QED
      BY ONLY <3>4
  <2> QED
    BY <2>1
<1>4. /\ pack_reports' = Append(pack_reports, [name |-> p, shell_rc |-> code])
      /\ ret_code' = IF Fails(code) THEN 1 ELSE ret_code
      /\ pack_pc' = IF Stops(code) THEN "parse" ELSE "loop"
  BY <1>2, <1>3 DEF run_pgm, Package, shifted
<1>5. PICK r \in PackReport : r = [name |-> p, shell_rc |-> code] /\ r.name = p /\ r.shell_rc = code
  <2> DEFINE s == [name |-> p, shell_rc |-> code]
  <2>1. s \in PackReport /\ s.name = p /\ s.shell_rc = code
    BY ONLY p \in PlugIns, code \in Nat DEF PackReport
  <2> HIDE DEF s
  <2>2. \E r \in PackReport : r = s /\ r.name = p /\ r.shell_rc = code
    BY ONLY <2>1
  <2> QED
    BY ONLY <2>2 DEF s
<1>6. PICK n \in Nat : n = Len(pack_reports) /\ pack_reports \in Seq(PackReport)
  BY DEF PackInv, PackType
<1>7. /\ pack_reports' \in Seq(PackReport) /\ Len(pack_reports') = n + 1
      /\ pack_reports'[n + 1] = r
      /\ \A i \in 1..n : pack_reports'[i] = pack_reports[i]
  BY ONLY <1>4, <1>5, <1>6
<1>8. DOMAIN pack_reports = 1..n /\ DOMAIN pack_reports' = 1..(n + 1)
  BY ONLY <1>6, <1>7
<1>9. Ran' = Ran \cup {p}
  <2>1. Ran = {pack_reports[i].name : i \in 1..n}
    BY <1>6 DEF Ran
  <2>2. Ran' = {pack_reports'[i].name : i \in 1..(n + 1)}
    BY <1>7 DEF Ran
  <2>3. \A i \in 1..(n + 1) : i \in 1..n \/ i = n + 1
    BY <1>6
  <2>4. n + 1 \in 1..(n + 1) /\ 1..n \subseteq 1..(n + 1)
    BY <1>6
  <2>5. ASSUME NEW x \in Ran' PROVE x \in Ran \cup {p}
    BY <2>1, <2>2, <2>3, <2>5, <1>5, <1>7
  <2>6. ASSUME NEW x \in Ran PROVE x \in Ran'
    BY <2>1, <2>2, <2>4, <2>6, <1>7
  <2>7. p \in Ran'
    BY <2>2, <2>4, <1>5, <1>7
  <2> QED
    BY <2>5, <2>6, <2>7
<1>10. p \notin Ran
  <2> SUFFICES ASSUME p \in Ran PROVE FALSE
    OBVIOUS
  <2>1. PICK j \in DOMAIN plug_in_packages_list : j < place /\ plug_in_packages_list[j] = p
    BY DEF PackInv, ReportInv
  <2>2. j = place
    BY <2>1, <1>1, <1>2 DEF PackInv, SingleInv
  <2> QED
    BY <2>1, <2>2, <1>1
<1>11. \A c : (Fails(c)' <=> Fails(c)) /\ (Stops(c)' <=> Stops(c))
  BY <1>1 DEF PackKept, Fails, Stops
<1>12. Selected' = Selected /\ Selected \cap Unsupported = {}
  BY <1>1 DEF Selected, PackKept, PackInv, RefusedInv
<1>13. PackType'
  BY <1>1, <1>4, <1>7 DEF PackInv, PackType, PackKept, PackPcs
<1>14. BeforeLoop' /\ RefusedInv' /\ SingleInv' /\ AnswerInv'
  BY <1>1, <1>4, <1>12 DEF PackInv, BeforeLoop, RefusedInv, SingleInv, AnswerInv, PackKept
<1>15. ReportInv'
  <2>1. \A i \in DOMAIN pack_reports' :
          /\ pack_programs'[pack_reports'[i].name] # Absent
          /\ pack_reports'[i].shell_rc = pack_programs'[pack_reports'[i].name] * 256
    <3> SUFFICES ASSUME NEW i \in 1..(n + 1)
                 PROVE  /\ pack_programs[pack_reports'[i].name] # Absent
                        /\ pack_reports'[i].shell_rc = pack_programs[pack_reports'[i].name] * 256
      BY <1>1, <1>8 DEF PackKept
    <3>1. CASE i \in 1..n
      BY <3>1, <1>7, <1>8 DEF PackInv, ReportInv
    <3>2. CASE i = n + 1
      BY <3>2, <1>1, <1>2, <1>3, <1>5, <1>7
    <3> QED
      BY <3>1, <3>2
  <2>2. \A q \in Ran' : \E j \in DOMAIN plug_in_packages_list :
                           j < place + 1 /\ plug_in_packages_list[j] = q
    BY <1>1, <1>2, <1>9 DEF PackInv, ReportInv, PackType
  <2> QED
    BY <2>1, <2>2, <1>1 DEF ReportInv, PackKept
<1>16. CountInv'
  <2>1. IsFiniteSet(Ran) /\ Cardinality(Ran) = n
    BY <1>6 DEF PackInv, CountInv
  <2>2. IsFiniteSet(Ran \cup {p}) /\ Cardinality(Ran \cup {p}) = n + 1
    BY <2>1, <1>10, FS_AddElement
  <2> QED
    BY <2>2, <1>7, <1>9 DEF CountInv
<1>17. StopInv'
  <2>1. \A i \in 1..n : ~Stops(pack_reports[i].shell_rc)
    BY <1>1, <1>8 DEF PackInv, StopInv
  <2>2. pack_pc' = "loop" => ~Stops(pack_reports'[n + 1].shell_rc)
    BY <1>4, <1>5, <1>7
  <2>3. \A i \in 1..(n + 1) : i \in 1..n \/ i = n + 1
    BY <1>6
  <2>4. \A i \in 1..n : ~Stops(pack_reports'[i].shell_rc)
    BY <2>1, <1>7
  <2>5. pack_pc' = "loop" => \A i \in DOMAIN pack_reports' : ~Stops(pack_reports'[i].shell_rc)
    BY <2>2, <2>3, <2>4, <1>8
  <2>6. \A i \in DOMAIN pack_reports' : i < Len(pack_reports') => ~Stops(pack_reports'[i].shell_rc)
    BY <2>3, <2>4, <1>7, <1>8
  <2> QED
    BY <2>5, <2>6, <1>11 DEF StopInv
<1>18. FailureInv'
  <2>1. (\E i \in DOMAIN pack_reports : Fails(pack_reports[i].shell_rc)) <=> ret_code = 1
    BY <1>12 DEF PackInv, FailureInv
  <2>2. (\E i \in DOMAIN pack_reports' : Fails(pack_reports'[i].shell_rc))
          <=> Fails(code) \/ \E i \in DOMAIN pack_reports : Fails(pack_reports[i].shell_rc)
    <3>1. \A i \in 1..(n + 1) : i \in 1..n \/ i = n + 1
      BY <1>6
    <3>2. n + 1 \in 1..(n + 1) /\ 1..n \subseteq 1..(n + 1)
      BY <1>6
    <3> QED
      BY <3>1, <3>2, <1>5, <1>7, <1>8
  <2>3. (Fails(code) \/ ret_code = 1) <=> ret_code' = 1
    BY <1>4
  <2> QED
    BY <2>1, <2>2, <2>3, <1>11, <1>12 DEF FailureInv
<1>19. CoverInv'
  <2>1. ASSUME pack_pc' = "loop", NEW j \in DOMAIN plug_in_packages_list, j < place + 1,
               pack_programs[plug_in_packages_list[j]] # Absent
        PROVE  plug_in_packages_list[j] \in Ran'
    <3>1. j < place \/ j = place
      BY <2>1, <1>1 DEF PackInv, PackType
    <3> QED
      BY <2>1, <3>1, <1>1, <1>2, <1>9 DEF PackInv, CoverInv
  <2>2. pack_pc' # "loop" =>
          \E i \in DOMAIN pack_reports' : Stops(pack_reports'[i].shell_rc)
    <3>1. n + 1 \in 1..(n + 1)
      BY <1>6
    <3> QED
      BY <3>1, <1>4, <1>5, <1>7, <1>8
  <2> QED
    BY <2>1, <2>2, <1>1, <1>4, <1>11 DEF CoverInv, PackKept
<1> QED
  BY <1>13, <1>14, <1>15, <1>16, <1>17, <1>18, <1>19 DEF PackInv

\* The list is done.
LEMMA DoneStep ==
  ASSUME PackInv, ListDone
  PROVE  PackInv'
<1>1. /\ PackKept /\ UNCHANGED <<place, ret_code, pack_reports>>
      /\ pack_pc = "loop" /\ pack_pc' = "parse" /\ place > Len(plug_in_packages_list)
  BY DEF ListDone, packParms, PackKept
<1>2. Ran' = Ran /\ Selected' = Selected /\ Selected \cap Unsupported = {}
  BY <1>1 DEF Ran, Selected, PackKept, PackInv, RefusedInv
<1>3. PackType'
  BY <1>1 DEF PackInv, PackType, PackKept, PackPcs
<1>4. BeforeLoop' /\ RefusedInv' /\ SingleInv' /\ ReportInv' /\ AnswerInv'
  BY <1>1, <1>2 DEF PackInv, BeforeLoop, RefusedInv, SingleInv, ReportInv, AnswerInv, PackKept
<1>5. CountInv' /\ StopInv' /\ FailureInv'
  BY <1>1, <1>2 DEF PackInv, CountInv, StopInv, FailureInv, PackKept, Stops, Fails
<1>6. CoverInv'
  <2>1. \A j \in DOMAIN plug_in_packages_list : j < place
    BY <1>1 DEF PackInv, PackType
  <2>2. WithProgram \subseteq Ran
    BY <1>1, <2>1 DEF PackInv, CoverInv, WithProgram, Selected, ToSet
  <2>3. WithProgram' = WithProgram
    BY <1>1, <1>2 DEF WithProgram, PackKept
  <2> QED
    BY <1>1, <1>2, <2>2, <2>3 DEF CoverInv
<1> QED
  BY <1>3, <1>4, <1>5, <1>6 DEF PackInv

\* The output is parsed: the last report is the one whose values are kept.
LEMMA ParseStep ==
  ASSUME PackInv, ParseOutput
  PROVE  PackInv'
<1>1. /\ PackKept /\ UNCHANGED <<place, ret_code, pack_reports>>
      /\ pack_pc = "parse" /\ pack_pc' = "returned" /\ plug_rc' = ret_code
  BY DEF ParseOutput, packParms, PackKept
<1>2. Ran' = Ran /\ Selected' = Selected /\ WithProgram' = WithProgram
  BY <1>1 DEF Ran, Selected, WithProgram, PackKept
<1>3. PackType'
  BY <1>1 DEF PackInv, PackType, PackKept, PackPcs
<1>4. BeforeLoop' /\ RefusedInv' /\ SingleInv' /\ ReportInv' /\ CoverInv'
  BY <1>1, <1>2 DEF PackInv, BeforeLoop, RefusedInv, SingleInv, ReportInv, CoverInv, PackKept, Stops,
     Fails
<1>5. CountInv' /\ StopInv' /\ FailureInv'
  BY <1>1, <1>2 DEF PackInv, CountInv, StopInv, FailureInv, PackKept, Stops, Fails
<1>6. AnswerInv'
  <2> SUFFICES ASSUME pack_reports # <<>>
               PROVE  /\ plug_shell_rc' = pack_reports[Len(pack_reports)].shell_rc
                      /\ pack_reports[Len(pack_reports)].shell_rc # 0 =>
                           failed_plug_in_name' = pack_reports[Len(pack_reports)].name
    BY <1>1 DEF AnswerInv
  <2>1. PICK n \in Nat : n = Len(pack_reports) /\ n # 0
    BY DEF PackInv, PackType
  <2>2. plug_shell_rc' = pack_reports[n].shell_rc
    BY <2>1 DEF ParseOutput, Last
  <2>3. ASSUME pack_reports[n].shell_rc # 0
        PROVE  failed_plug_in_name' = pack_reports[n].name
    <3>1. n \in Named /\ Named \subseteq 1..n
      BY <2>1, <2>3 DEF Named
    <3>2. \A y \in Named : n >= y
      BY <3>1
    <3>3. Max(Named) \in Named /\ \A y \in Named : Max(Named) >= y
      BY <3>1, <3>2 DEF Max
    <3>4. Max(Named) = n
      <4>1. Max(Named) \in 1..n /\ Max(Named) >= n
        BY <3>1, <3>3
      <4> QED
        BY ONLY <4>1, n \in Nat
    <3> QED
      BY <3>1, <3>4 DEF ParseOutput
  <2> QED
    BY <2>1, <2>2, <2>3
<1> QED
  BY <1>3, <1>4, <1>5, <1>6 DEF PackInv

\* Nothing moves.
LEMMA PackStutters ==
  ASSUME PackInv, UNCHANGED packVars
  PROVE  PackInv'
<1>1. /\ PackKept /\ UNCHANGED <<pack_pc, place, ret_code, pack_reports>>
      /\ UNCHANGED <<plug_rc, plug_shell_rc, failed_plug_in_name>>
  BY DEF packVars, packParms, packResult, PackKept
<1>2. Ran' = Ran /\ Selected' = Selected /\ WithProgram' = WithProgram
  BY <1>1 DEF Ran, Selected, WithProgram, PackKept
<1>3. PackType' /\ BeforeLoop' /\ RefusedInv' /\ SingleInv'
  BY <1>1, <1>2 DEF PackInv, PackType, BeforeLoop, RefusedInv, SingleInv, PackKept
<1>4. ReportInv' /\ CountInv' /\ AnswerInv'
  BY <1>1, <1>2 DEF PackInv, ReportInv, CountInv, AnswerInv, PackKept
<1>5. StopInv' /\ FailureInv' /\ CoverInv'
  BY <1>1, <1>2 DEF PackInv, StopInv, FailureInv, CoverInv, PackKept, Stops, Fails
<1> QED
  BY <1>3, <1>4, <1>5 DEF PackInv

\* What the caller of the plug-ins is told is what happened, for any packages, lists
\* and return codes (PlugInPackages.ReportRight).
THEOREM ReportsAreRight == PackSpec => []ReportRight
<1>1. PackInit => PackInv
  BY PackInvInit
<1>2. PackInv /\ [PackNext]_packVars => PackInv'
  <2> SUFFICES ASSUME PackInv, PackNext \/ UNCHANGED packVars PROVE PackInv'
    OBVIOUS
  <2> QED
    BY PackCallStep, RefusedStep, MadeStep, PassStep, RunStep, DoneStep, ParseStep, PackStutters
       DEF PackNext
<1>3. PackInv => ReportRight
  <2> SUFFICES ASSUME PackInv PROVE ReportRight
    OBVIOUS
  <2>0. PICK n \in Nat : n = Len(pack_reports) /\ DOMAIN pack_reports = 1..n
    BY DEF PackInv, PackType
  <2>1. \A p \in Ran : \E i \in 1..n : pack_reports[i].name = p
                                       /\ pack_reports[i].shell_rc = pack_programs[p] * 256
    BY <2>0 DEF PackInv, ReportInv, Ran
  <2>2. \A i \in 1..n : pack_reports[i].name \in Ran
                        /\ pack_reports[i].shell_rc = pack_programs[pack_reports[i].name] * 256
    BY <2>0 DEF PackInv, ReportInv, Ran
  <2>3. (\E p \in Ran : Failing(p)) <=> \E i \in DOMAIN pack_reports : Fails(pack_reports[i].shell_rc)
    BY <2>0, <2>1, <2>2 DEF Failing, Fails
  <2>4. \A i \in 1..n : Stops(pack_reports[i].shell_rc) => i = n
    BY <2>0 DEF PackInv, StopInv
  <2>5. RcMeansFailure
    BY <2>0, <2>3 DEF PackInv, PackType, RcMeansFailure, AnswerInv, FailureInv, RefusedInv, Ran
  <2>6. RequestSeen
    <3> SUFFICES ASSUME pack_pc = "returned", stop_on_non_zero_rc, NEW p \in Ran, Requesting(p)
                 PROVE  plug_shell_rc = allow_shell_rc
      BY DEF RequestSeen
    <3>1. PICK i \in 1..n : pack_reports[i].shell_rc = allow_shell_rc /\ allow_shell_rc # 0
      BY <2>1 DEF Requesting
    <3>2. i = n /\ pack_reports # <<>>
      BY <2>0, <2>4, <3>1 DEF Stops
    <3> QED
      BY <2>0, <3>1, <3>2 DEF PackInv, AnswerInv
  <2>7. BlameIsRight
    <3> SUFFICES ASSUME pack_pc = "returned", plug_rc = 1, stop_on_plug_in_failure, Ran # {}
                 PROVE  /\ failed_plug_in_name \in Ran /\ Failing(failed_plug_in_name)
                        /\ plug_shell_rc = pack_programs[failed_plug_in_name] * 256
      BY DEF BlameIsRight
    <3>1. pack_reports # <<>>
      BY <2>0 DEF Ran
    <3>2. PICK i \in 1..n : Fails(pack_reports[i].shell_rc)
      BY <2>0, <3>1 DEF PackInv, AnswerInv, FailureInv, RefusedInv
    <3>3. i = n
      BY <2>4, <3>2 DEF Stops
    <3>4. failed_plug_in_name = pack_reports[n].name /\ plug_shell_rc = pack_reports[n].shell_rc
      BY <2>0, <3>1, <3>2, <3>3 DEF PackInv, AnswerInv, Fails
    <3> QED
      BY <2>2, <3>2, <3>3, <3>4 DEF Failing, Fails
  <2>8. RunOnce
    BY DEF PackInv, CountInv, RunOnce
  <2>9. AllRun
    BY DEF PackInv, CoverInv, AllRun, Stops
  <2> QED
    BY <2>5, <2>6, <2>7, <2>8, <2>9 DEF ReportRight
<1> QED
  BY <1>1, <1>2, <1>3, PTL DEF PackSpec

=============================================================================
