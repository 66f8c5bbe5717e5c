------------------------------ MODULE PtyProofs ------------------------------
(***************************************************************************)
(* Proofs about the pseudo terminal processes, for any number of threads,  *)
(* aliases, children and calls.                                            *)
(***************************************************************************)
EXTENDS PtyProcess, FiniteSetTheorems, TLAPS

\* The aliases a caller or start_pty_process can come up with, and what a thread
\* knows.
PtyNames == PtyAliases \cup 0..MaxSpawned
PtyOps ==
  {"none", "start", "start_sol", "talk", "wait", "wait_exit", "stop_sol", "stop", "stop_all"}
PtyPlaces ==
  {"idle", "spawn", "register", "get", "talk", "expect", "exit", "next", "stop", "close"}
PtyResults == {"none", "returned", "raised", "all"}
PtyCalls ==
  [op : PtyOps, at : PtyPlaces, alias : PtyNames, force : BOOLEAN, own : Nat, child : Nat,
   todo : SUBSET PtyNames, seen : SUBSET Nat, result : PtyResults]

\* The children there were, and the two dictionaries.
ChildInv ==
  /\ spawned \in Nat
  /\ alive \cup eof \cup closed \cup openLogs \cup spared \cup leaked \subseteq 1..spawned

MapInv ==
  /\ log_handles = processes /\ processes \in [Running -> 1..spawned] /\ IsInjective(processes)
  /\ Range(processes) \subseteq openLogs /\ Range(processes) \cap closed = {}
  /\ Running \subseteq PtyNames

\* Nothing is lost: the properties' own words.
LossInv == NoOrphan /\ LogsFollow

\* Where a keyword can be, and whose own a child is.
PlaceInv(t) ==
  /\ call[t].op = "none" <=> call[t].at = "idle"
  /\ call[t].at \in {"spawn", "register"} => call[t].op \in {"start", "start_sol"}
  /\ call[t].op = "start" => call[t].at \in {"spawn", "register"}
  /\ call[t].op = "start_sol" =>
       call[t].at \in {"spawn", "register", "get", "expect", "stop", "close"}
  /\ call[t].op = "stop_all" => call[t].at \in {"next", "stop", "close"}
  /\ call[t].at = "next" => call[t].op = "stop_all"
  /\ call[t].result = "all" => call[t].op = "none"
  /\ call[t].op \notin {"none", "start", "start_sol"} \/ call[t].at = "spawn" => call[t].own = 0
  /\ call[t].own \in 0..spawned /\ call[t].child \in 0..spawned /\ call[t].seen \subseteq 1..spawned

\* A child is registered by the thread that spawned it, and not again; a child
\* that is being closed is no longer registered.
OwnInv(t) ==
  /\ call[t].at = "register" =>
       /\ call[t].own = call[t].child /\ call[t].own # 0
       /\ call[t].own \in openLogs \ closed
  /\ call[t].at \in {"register", "close"} => call[t].child \notin Range(processes)
  /\ call[t].op = "start_sol" /\ call[t].at = "close" => call[t].own \notin Range(processes)
  /\ call[t].op = "none" /\ call[t].result = "raised" => call[t].own \notin Range(processes)

\* The SOL session a thread has started has the alias it was given, or none.
SolInv(t) ==
  call[t].op = "start_sol" /\ call[t].at \in {"get", "expect", "stop"} =>
    \A a \in Running : processes[a] = call[t].own =>
      a = call[t].alias /\ (call[t].at = "expect" => call[t].child = call[t].own)

\* A stop of all still has to come to the aliases of the children it has listed.
SeenInv(t) ==
  /\ call[t].op = "stop_all" =>
       \A a \in Running : processes[a] \in call[t].seen =>
         a \in call[t].todo \/ (call[t].at = "stop" /\ a = call[t].alias)
  /\ call[t].result = "all" => call[t].seen \cap Range(processes) = {}

\* No two threads spawned or hold the same child, and a child that is not yet
\* registered is in no list.
PairInv(t, u) ==
  t # u =>
    /\ call[t].own = call[u].own => call[t].own = 0
    /\ call[t].at \in {"register", "close"} /\ call[u].at \in {"register", "close"} =>
         call[t].child # call[u].child
    /\ call[u].at = "register" => call[u].own \notin call[t].seen

PtyInv ==
  /\ call \in [PtyThreads -> PtyCalls]
  /\ ChildInv /\ MapInv /\ LossInv
  /\ \A t \in PtyThreads : PlaceInv(t) /\ OwnInv(t) /\ SolInv(t) /\ SeenInv(t)
  /\ \A t, u \in PtyThreads : PairInv(t, u)

\* pty_proc_0 is an alias.
LEMMA ZeroIsName == 0 \in PtyNames
PROOF
  BY PtyAssumption DEF PtyNames

\* Who has a child in hand.
LEMMA InHandIs ==
  \A c : c \in InHand <=>
          \E t \in PtyThreads : call[t].at \in {"register", "close"} /\ call[t].child = c
PROOF
  BY DEF InHand, Held

\* A step in which a thread only goes on to another place, with no child in its
\* hands before and after.
LEMMA CallOnly ==
  ASSUME PtyInv, NEW t \in PtyThreads, NEW c \in PtyCalls,
         call' = [call EXCEPT ![t] = c], UNCHANGED <<ptyMaps, ptyOs>>,
         call[t].at \notin {"register", "close"}, c.at \notin {"register", "close"},
         c.own \in {0, call[t].own}, c.seen \in {{}, call[t].seen, Range(processes)},
         PlaceInv(t)', OwnInv(t)', SolInv(t)', SeenInv(t)'
  PROVE  PtyInv'
<1> USE DEF PtyInv, ptyMaps, ptyOs
<1>1. call' \in [PtyThreads -> PtyCalls]
  OBVIOUS
<1>2. call'[t] = c /\ \A u \in PtyThreads : u # t => call'[u] = call[u]
  OBVIOUS
<1>3. ChildInv' /\ MapInv'
  BY DEF ChildInv, MapInv, Running
<1>4. InHand' = InHand
  BY <1>2 DEF InHand, Held
<1>5. LossInv'
  BY <1>4 DEF LossInv, NoOrphan, LogsFollow
<1>6. ASSUME NEW u \in PtyThreads
      PROVE  PlaceInv(u)' /\ OwnInv(u)' /\ SolInv(u)' /\ SeenInv(u)'
  <2>1. CASE u = t
    BY <2>1
  <2>2. CASE u # t
    <3>1. PlaceInv(u)'
      BY <1>2, <2>2 DEF PlaceInv
    <3>2. OwnInv(u)'
      BY <1>2, <2>2 DEF OwnInv
    <3>3. SolInv(u)' /\ SeenInv(u)'
      BY <1>2, <2>2 DEF SolInv, SeenInv, Running
    <3> QED
      BY <3>1, <3>2, <3>3
  <2> QED
    BY <2>1, <2>2
<1>7. ASSUME NEW u \in PtyThreads, NEW v \in PtyThreads
      PROVE  PairInv(u, v)'
  <2>1. CASE u # t /\ v # t
    BY <1>2, <2>1 DEF PairInv
  <2>2. CASE u = t /\ v # t
    <3>1. PairInv(t, v) /\ OwnInv(v)
      OBVIOUS
    <3> QED
      BY <1>2, <2>2, <3>1 DEF PairInv, OwnInv
  <2>3. CASE u # t /\ v = t
    <3>1. PairInv(u, t)
      OBVIOUS
    <3> QED
      BY <1>2, <2>3, <3>1 DEF PairInv
  <2>4. CASE u = v
    BY <2>4 DEF PairInv
  <2> QED
    BY <2>1, <2>2, <2>3, <2>4
<1> QED
  BY <1>1, <1>3, <1>5, <1>6, <1>7

\* A keyword ends that has no child in hand.
LEMMA EndsOnly ==
  ASSUME PtyInv, NEW t \in PtyThreads, NEW r \in PtyResults, Ends(t, r), UNCHANGED <<ptyMaps, ptyOs>>,
         call[t].at \notin {"register", "close"},
         r = "raised" => call[t].own \notin Range(processes),
         r = "all" => call[t].seen \cap Range(processes) = {}
  PROVE  PtyInv'
<1> DEFINE c == [PtyIdle(r) EXCEPT !.own = IF r = "raised" THEN call[t].own ELSE 0,
                                   !.seen = call[t].seen]
<1>1. call \in [PtyThreads -> PtyCalls] /\ call' = [call EXCEPT ![t] = c]
  BY DEF PtyInv, Ends, Becomes
<1>2. call[t] \in PtyCalls
  BY <1>1
<1>3. /\ c \in PtyCalls /\ c.op = "none" /\ c.at = "idle" /\ c.result = r /\ c.child = 0
      /\ c.own = (IF r = "raised" THEN call[t].own ELSE 0) /\ c.seen = call[t].seen
  BY <1>2, ZeroIsName DEF PtyIdle, PtyCalls, PtyOps, PtyPlaces, PtyResults
<1>4. call'[t] = c
  BY <1>1
<1>5. spawned \in Nat /\ PlaceInv(t)
  BY DEF PtyInv, ChildInv
<1> HIDE DEF c
<1>6. PlaceInv(t)'
  BY <1>3, <1>4, <1>5 DEF PlaceInv, ptyOs
<1>7. OwnInv(t)'
  BY <1>3, <1>4 DEF OwnInv, ptyMaps
<1>8. SolInv(t)' /\ SeenInv(t)'
  BY <1>3, <1>4 DEF SolInv, SeenInv, ptyMaps
<1> QED
  BY <1>1, <1>3, <1>6, <1>7, <1>8, CallOnly

\* A keyword begins.
LEMMA BeginsOnly ==
  ASSUME PtyInv, NEW t \in PtyThreads, NEW op, NEW at, NEW alias \in PtyNames,
         NEW force \in BOOLEAN, Begins(t, op, at, alias, force), UNCHANGED <<ptyMaps, ptyOs>>,
         \/ op \in {"start", "start_sol"} /\ at = "spawn"
         \/ op \in {"talk", "wait", "wait_exit", "stop_sol"} /\ at = "get"
         \/ op = "stop" /\ at = "stop"
  PROVE  PtyInv'
<1> DEFINE c == [PtyIdle("none") EXCEPT !.op = op, !.at = at, !.alias = alias, !.force = force]
<1>1. call \in [PtyThreads -> PtyCalls] /\ call' = [call EXCEPT ![t] = c] /\ call[t].op = "none"
  BY DEF PtyInv, Begins, Becomes
<1>2. call[t] \in PtyCalls
  BY <1>1
<1>3. /\ c \in PtyCalls /\ c.op = op /\ c.at = at /\ c.result = "none" /\ c.child = 0
      /\ c.own = 0 /\ c.seen = {} /\ c.alias = alias
  BY <1>2 DEF PtyIdle, PtyCalls, PtyOps, PtyPlaces, PtyResults
<1>4. call'[t] = c
  BY <1>1
<1>5. spawned \in Nat /\ PlaceInv(t) /\ call[t].at = "idle"
  BY <1>1 DEF PtyInv, ChildInv, PlaceInv
<1> HIDE DEF c
<1>6. PlaceInv(t)'
  BY <1>3, <1>4, <1>5 DEF PlaceInv, ptyOs
<1>7. OwnInv(t)'
  BY <1>3, <1>4 DEF OwnInv, ptyMaps
<1>8. SolInv(t)' /\ SeenInv(t)'
  BY <1>3, <1>4 DEF SolInv, SeenInv, ptyMaps
<1> QED
  BY <1>1, <1>3, <1>5, <1>6, <1>7, <1>8, CallOnly

\* A keyword goes on to another place with the same alias.
LEMMA GoesOnly ==
  ASSUME PtyInv, NEW t \in PtyThreads, NEW c \in PtyCalls, Becomes(t, c),
         UNCHANGED <<ptyMaps, ptyOs>>,
         call[t].at \in {"get", "expect"}, call[t].op \notin {"start", "stop_all", "none"},
         c.op = call[t].op, c.alias = call[t].alias, c.own = call[t].own, c.seen = call[t].seen,
         c.at \in {"talk", "expect", "exit", "stop"}, c.result # "all",
         c.child \in 0..spawned, 
         c.op = "start_sol" => c.at \in {"expect", "stop"},
         c.at = "expect" => c.alias \in Running /\ c.child = processes[c.alias]
  PROVE  PtyInv'
<1>1. call \in [PtyThreads -> PtyCalls] /\ call' = [call EXCEPT ![t] = c]
  BY DEF PtyInv, Becomes
<1>2. call'[t] = c
  BY <1>1
<1>3. spawned \in Nat /\ PlaceInv(t) /\ OwnInv(t) /\ SolInv(t) /\ SeenInv(t)
  BY DEF PtyInv, ChildInv
<1>4. PlaceInv(t)'
  BY <1>2, <1>3 DEF PlaceInv, ptyOs
<1>5. OwnInv(t)'
  BY <1>2, <1>3 DEF OwnInv, PlaceInv, ptyMaps
<1>6. SolInv(t)'
  BY <1>2, <1>3 DEF SolInv, ptyMaps, Running
<1>7. SeenInv(t)'
  BY <1>2, <1>3 DEF SeenInv, ptyMaps, PlaceInv
<1> QED
  BY <1>1, <1>4, <1>5, <1>6, <1>7, CallOnly

\* A keyword gives up.
LEMMA GivesUpOnly ==
  ASSUME PtyInv, NEW t \in PtyThreads, GivesUp(t, "raised"), UNCHANGED <<ptyMaps, ptyOs>>,
         call[t].at \in {"get", "expect"}
  PROVE  PtyInv'
<1>1. call[t] \in PtyCalls /\ PlaceInv(t)
  BY DEF PtyInv
<1>2. CASE call[t].op \in {"start_sol", "stop_sol"}
  <2> DEFINE c == [call[t] EXCEPT !.at = "stop", !.force = TRUE, !.result = "raised"]
  <2>1. Becomes(t, c)
    BY <1>2 DEF GivesUp
  <2>2. /\ c \in PtyCalls /\ c.at = "stop" /\ c.result = "raised" /\ c.child = call[t].child
        /\ c.op = call[t].op /\ c.alias = call[t].alias /\ c.own = call[t].own
        /\ c.seen = call[t].seen
    BY <1>1 DEF PtyCalls, PtyPlaces, PtyResults
  <2> HIDE DEF c
  <2> QED
    BY <1>1, <1>2, <2>1, <2>2, GoesOnly DEF PlaceInv
<1>3. CASE call[t].op \notin {"start_sol", "stop_sol"}
  <2>1. call[t].own = 0 /\ Range(processes) \subseteq 1..spawned
    BY <1>1, <1>3 DEF PlaceInv, PtyInv, MapInv, Range
  <2>2. call[t].own \notin Range(processes)
    BY <2>1
  <2> QED
    BY <1>3, <2>2, EndsOnly DEF GivesUp, PtyResults
<1> QED
  BY <1>2, <1>3

\* Starts, up to the first unlock.
LEMMA StartsStep ==
  ASSUME PtyInv, NEW t \in PtyThreads, NEW op \in {"start", "start_sol"},
         NEW alias \in PtyNames, Starts(t, op, alias)
  PROVE  PtyInv'
<1>1. CASE Begins(t, op, "spawn", alias, FALSE)
  BY <1>1, BeginsOnly DEF Starts
<1>2. CASE Becomes(t, PtyIdle("raised"))
  <2>1. /\ call[t] \in PtyCalls /\ call \in [PtyThreads -> PtyCalls] /\ PlaceInv(t)
        /\ call[t].op = "none" /\ UNCHANGED <<ptyMaps, ptyOs>>
    BY DEF PtyInv, Starts
  <2>2. PtyIdle("raised") \in PtyCalls
    BY ZeroIsName DEF PtyIdle, PtyCalls, PtyOps, PtyPlaces, PtyResults
  <2>3. call' = [call EXCEPT ![t] = PtyIdle("raised")] /\ call'[t] = PtyIdle("raised")
    BY <1>2, <2>1 DEF Becomes
  <2>4. Range(processes) \subseteq 1..spawned /\ spawned \in Nat
    BY DEF PtyInv, MapInv, ChildInv, Range
  <2>5. 0 \notin Range(processes)
    BY <2>4
  <2>6. PlaceInv(t)'
    BY <2>1, <2>3, <2>4 DEF PlaceInv, PtyIdle, ptyOs
  <2>7. OwnInv(t)' /\ SolInv(t)' /\ SeenInv(t)'
    BY <2>1, <2>3, <2>5 DEF OwnInv, SolInv, SeenInv, PtyIdle, ptyMaps
  <2> QED
    BY <2>1, <2>2, <2>3, <2>6, <2>7, CallOnly DEF PtyIdle, PlaceInv
<1> QED
  BY <1>1, <1>2 DEF Starts

\* _get_process looks the child up and drops the lock.
LEMMA GetStep ==
  ASSUME PtyInv, NEW t \in PtyThreads, _get_process(t)
  PROVE  PtyInv'
<1> DEFINE alias == call[t].alias
           at == CASE call[t].op = "talk" -> "talk"
                   [] call[t].op = "stop_sol" /\ processes[alias] \notin alive -> "stop"
                   [] OTHER -> "expect"
           c == [call[t] EXCEPT !.at = at, !.child = processes[alias]]
<1>1. call[t] \in PtyCalls /\ PlaceInv(t) /\ call[t].at = "get" /\ UNCHANGED <<ptyMaps, ptyOs>>
  BY DEF PtyInv, _get_process
<1>2. CASE alias \notin Running
  BY <1>1, <1>2, GivesUpOnly DEF _get_process
<1>3. CASE alias \in Running
  <2>1. Becomes(t, c)
    BY <1>3 DEF _get_process
  <2>2. processes[alias] \in 0..spawned /\ processes[alias] \in Nat
    BY <1>3 DEF PtyInv, MapInv, ChildInv
  <2>3. at \in {"talk", "stop", "expect"} /\ (call[t].op = "start_sol" => at = "expect")
    OBVIOUS
  <2> HIDE DEF at
  <2>4. /\ c \in PtyCalls /\ c.at = at /\ c.result = call[t].result /\ c.child = processes[alias]
        /\ c.op = call[t].op /\ c.alias = alias /\ c.own = call[t].own
        /\ c.seen = call[t].seen
    BY <1>1, <2>2, <2>3 DEF PtyCalls, PtyPlaces
  <2> HIDE DEF c
  <2> QED
    BY <1>1, <1>3, <2>1, <2>2, <2>3, <2>4, GoesOnly DEF PlaceInv
<1> QED
  BY <1>2, <1>3

\* A keyword that did not spawn has no child of its own.
LEMMA NotOwner ==
  ASSUME PtyInv, NEW t \in PtyThreads, call[t].op \notin {"none", "start", "start_sol"}
  PROVE  call[t].own \notin Range(processes)
<1>1. call[t].own = 0 /\ Range(processes) \subseteq 1..spawned
  BY DEF PtyInv, PlaceInv, MapInv, Range
<1> QED
  BY <1>1

\* The keywords that talk to the child they have looked up.
LEMMA TalksStep ==
  ASSUME PtyInv, NEW t \in PtyThreads, NEW r \in {"raised", "returned"}, Talks(t, r)
  PROVE  PtyInv'
<1>1. PlaceInv(t) /\ call[t].at = "talk" /\ Ends(t, r) /\ UNCHANGED <<ptyMaps, ptyOs>>
  BY DEF PtyInv, Talks
<1>2. call[t].own \notin Range(processes)
  BY <1>1, NotOwner DEF PlaceInv
<1> QED
  BY <1>1, <1>2, EndsOnly DEF PtyResults

\* The wait for output: a child that was closed meanwhile is not registered.
LEMMA WaitStep ==
  ASSUME PtyInv, NEW t \in PtyThreads, wait_for_pty_process_output(t)
  PROVE  PtyInv'
<1>1. /\ PlaceInv(t) /\ SolInv(t) /\ call[t].at = "expect" /\ call[t].op \in {"wait", "start_sol"}
      /\ UNCHANGED <<ptyMaps, ptyOs>> /\ Range(processes) \cap closed = {}
  BY DEF PtyInv, MapInv, wait_for_pty_process_output
<1>2. CASE GivesUp(t, "raised")
  BY <1>1, <1>2, GivesUpOnly
<1>3. CASE Ends(t, "returned")
  BY <1>1, <1>3, EndsOnly DEF PtyResults
<1>4. CASE call[t].child \in closed /\ Ends(t, "raised")
  <2>1. call[t].op = "wait" => call[t].own \notin Range(processes)
    BY NotOwner
  <2>2. call[t].op = "start_sol" => call[t].own \notin Range(processes)
    BY <1>1, <1>4 DEF SolInv, Range, Running
  <2> QED
    BY <1>1, <1>4, <2>1, <2>2, EndsOnly DEF PtyResults
<1> QED
  BY <1>2, <1>3, <1>4 DEF wait_for_pty_process_output

\* The wait for the end of the output.
LEMMA EofStep ==
  ASSUME PtyInv, NEW t \in PtyThreads, ExpectEof(t)
  PROVE  PtyInv'
<1>1. /\ call[t] \in PtyCalls /\ PlaceInv(t) /\ call[t].at = "expect"
      /\ call[t].op \in {"wait_exit", "stop_sol"} /\ UNCHANGED <<ptyMaps, ptyOs>>
  BY DEF PtyInv, ExpectEof
<1>2. CASE Ends(t, "raised")
  BY <1>1, <1>2, NotOwner, EndsOnly DEF PtyResults
<1>3. ASSUME NEW at \in {"stop", "exit"}, Goes(t, at)
      PROVE  PtyInv'
  <2> DEFINE c == [call[t] EXCEPT !.at = at]
  <2>1. Becomes(t, c)
    BY <1>3 DEF Goes
  <2>2. /\ c \in PtyCalls /\ c.at = at /\ c.result = call[t].result /\ c.child = call[t].child
        /\ c.op = call[t].op /\ c.alias = call[t].alias /\ c.own = call[t].own
        /\ c.seen = call[t].seen
    BY <1>1, <1>3 DEF PtyCalls, PtyPlaces
  <2> HIDE DEF c
  <2> QED
    BY <1>1, <1>3, <2>1, <2>2, GoesOnly DEF PlaceInv
<1> QED
  BY <1>2, <1>3 DEF ExpectEof

\* The wait for the exit.
LEMMA WaitExitStep ==
  ASSUME PtyInv, NEW t \in PtyThreads, WaitExit(t)
  PROVE  PtyInv'
PROOF
  BY EndsOnly DEF WaitExit, PtyResults

\* A stop of all lists what is registered.
LEMMA StopAllStep ==
  ASSUME PtyInv, NEW t \in PtyThreads, stop_all_pty_processes(t)
  PROVE  PtyInv'
<1> DEFINE c == [PtyIdle("none") EXCEPT !.op = "stop_all", !.at = "next", !.force = TRUE,
                                        !.todo = Running, !.seen = Range(processes)]
<1>1. /\ call \in [PtyThreads -> PtyCalls] /\ call' = [call EXCEPT ![t] = c] /\ PlaceInv(t)
      /\ call[t].op = "none" /\ UNCHANGED <<ptyMaps, ptyOs>>
  BY DEF PtyInv, stop_all_pty_processes, Becomes
<1>2. Running \in SUBSET PtyNames /\ Range(processes) \subseteq 1..spawned /\ spawned \in Nat
  BY DEF PtyInv, MapInv, ChildInv, Range
<1>3. Range(processes) \in SUBSET Nat
  BY <1>2
<1>4. /\ c \in PtyCalls /\ c.op = "stop_all" /\ c.at = "next" /\ c.todo = Running
      /\ c.seen = Range(processes) /\ c.own = 0 /\ c.child = 0 /\ c.result = "none"
  BY <1>2, <1>3, ZeroIsName DEF PtyIdle, PtyCalls, PtyOps, PtyPlaces, PtyResults
<1>5. call'[t] = c
  BY <1>1
<1> HIDE DEF c
<1>6. PlaceInv(t)'
  BY <1>1, <1>2, <1>4, <1>5 DEF PlaceInv, ptyOs
<1>7. OwnInv(t)' /\ SolInv(t)' /\ SeenInv(t)'
  BY <1>1, <1>4, <1>5 DEF OwnInv, SolInv, SeenInv, ptyMaps, Running
<1> QED
  BY <1>1, <1>4, <1>6, <1>7, CallOnly DEF PlaceInv

\* A stop of all goes on to the next alias of its list, or ends.
LEMMA NextAliasStep ==
  ASSUME PtyInv, NEW t \in PtyThreads, NextAlias(t)
  PROVE  PtyInv'
<1>1. /\ call \in [PtyThreads -> PtyCalls] /\ call[t] \in PtyCalls /\ PlaceInv(t) /\ SeenInv(t)
      /\ call[t].at = "next" /\ call[t].op = "stop_all" /\ UNCHANGED <<ptyMaps, ptyOs>>
  BY DEF PtyInv, NextAlias, PlaceInv
<1>2. CASE AllDone(t) /\ Ends(t, "all")
  <2>1. call[t].seen \cap Range(processes) = {}
    BY <1>1, <1>2 DEF SeenInv, AllDone, Range, Running
  <2> QED
    BY <1>1, <1>2, <2>1, EndsOnly DEF PtyResults
<1>3. ASSUME NEW alias \in call[t].todo,
             Becomes(t, [call[t] EXCEPT !.at = "stop", !.alias = alias, !.todo = @ \ {alias}])
      PROVE  PtyInv'
  <2> DEFINE c == [call[t] EXCEPT !.at = "stop", !.alias = alias, !.todo = @ \ {alias}]
  <2>1. call' = [call EXCEPT ![t] = c] /\ call'[t] = c
    BY <1>1, <1>3 DEF Becomes
  <2>2. /\ c \in PtyCalls /\ c.at = "stop" /\ c.alias = alias /\ c.todo = call[t].todo \ {alias}
        /\ c.op = "stop_all" /\ c.own = call[t].own /\ c.child = call[t].child
        /\ c.seen = call[t].seen /\ c.result = call[t].result
    BY <1>1, <1>3 DEF PtyCalls, PtyPlaces
  <2> HIDE DEF c
  <2>3. PlaceInv(t)'
    BY <1>1, <2>1, <2>2 DEF PlaceInv, ptyOs
  <2>4. OwnInv(t)' /\ SolInv(t)'
    BY <1>1, <2>1, <2>2 DEF OwnInv, SolInv
  <2>5. SeenInv(t)'
    BY <1>1, <2>1, <2>2 DEF SeenInv, PlaceInv, ptyMaps, Running
  <2> QED
    BY <1>1, <2>1, <2>2, <2>3, <2>4, <2>5, CallOnly
<1> QED
  BY <1>2, <1>3 DEF NextAlias

\* What is true of a new child's number.
LEMMA FreshNumber ==
  ASSUME PtyInv
  PROVE  /\ spawned + 1 \in Nat /\ spawned + 1 # 0 /\ spawned + 1 \in 1..spawned + 1
         /\ 1..spawned \subseteq 1..spawned + 1 /\ 0..spawned \subseteq 0..spawned + 1
         /\ spawned + 1 \notin 0..spawned /\ spawned + 1 \notin 1..spawned
         /\ 0 \in 0..spawned + 1 /\ spawned + 1 \in 0..spawned + 1
         /\ Range(processes) \subseteq 1..spawned
<1>1. spawned \in Nat /\ Range(processes) \subseteq 1..spawned
  BY DEF PtyInv, ChildInv, MapInv, Range
<1> QED
  BY <1>1

\* Opening the log and spawning.
LEMMA SpawnStep ==
  ASSUME PtyInv, NEW t \in PtyThreads, Spawn(t)
  PROVE  PtyInv'
<1> DEFINE n == spawned + 1
           good == [call[t] EXCEPT !.at = "register", !.own = n, !.child = n]
           bad  == [PtyIdle("raised") EXCEPT !.own = call[t].own, !.seen = call[t].seen]
<1>1. /\ call \in [PtyThreads -> PtyCalls] /\ call[t] \in PtyCalls /\ call[t].at = "spawn"
      /\ spawned' = n /\ openLogs' = openLogs \cup {n}
      /\ UNCHANGED <<processes, log_handles, eof, closed, spared>>
      /\ \A u \in PtyThreads : PlaceInv(u) /\ OwnInv(u) /\ SolInv(u) /\ SeenInv(u)
      /\ \A u, v \in PtyThreads : PairInv(u, v)
  BY DEF PtyInv, Spawn, ptyMaps
<1>2. PICK c : /\ call' = [call EXCEPT ![t] = c]
               /\ \/ c = good /\ alive' = alive \cup {n} /\ leaked' = leaked
                  \/ c = bad /\ alive' = alive /\ leaked' = leaked \cup {n}
  BY <1>1 DEF Spawn, Becomes, Ends
<1>3. /\ n \in Nat /\ n # 0 /\ n \in 1..n /\ 1..spawned \subseteq 1..n /\ 0..spawned \subseteq 0..n
      /\ n \notin 0..spawned /\ n \notin 1..spawned /\ 0 \in 0..n /\ n \in 0..n
      /\ Range(processes) \subseteq 1..spawned
  BY FreshNumber
<1>4. call[t].op \in {"start", "start_sol"} /\ call[t].own = 0
  BY <1>1 DEF PlaceInv
<1> HIDE DEF n
<1>5. /\ good \in PtyCalls /\ good.at = "register" /\ good.own = n /\ good.child = n
      /\ good.op = call[t].op /\ good.seen = call[t].seen /\ good.result = call[t].result
  BY <1>1, <1>3 DEF PtyCalls, PtyPlaces
<1>6. /\ bad \in PtyCalls /\ bad.at = "idle" /\ bad.own = 0 /\ bad.child = 0
      /\ bad.op = "none" /\ bad.seen = call[t].seen /\ bad.result = "raised"
  BY <1>1, <1>4, ZeroIsName DEF PtyIdle, PtyCalls, PtyOps, PtyPlaces, PtyResults
<1> HIDE DEF good, bad
<1>7. c \in PtyCalls
  BY <1>2, <1>5, <1>6
<1>8. /\ call' \in [PtyThreads -> PtyCalls] /\ call'[t] = c
      /\ \A u \in PtyThreads : u # t => call'[u] = call[u]
  BY <1>1, <1>2, <1>7
<1>9. ChildInv'
  <2>1. alive \cup eof \cup closed \cup openLogs \cup spared \cup leaked \subseteq 1..n
    BY <1>3 DEF PtyInv, ChildInv
  <2> QED
    BY <1>1, <1>2, <1>3, <2>1 DEF ChildInv
<1>10. MapInv'
  <2>1. MapInv
    BY DEF PtyInv
  <2>2. processes \in [Running -> 1..n]
    BY <1>3, <2>1 DEF MapInv
  <2> QED
    BY <1>1, <2>1, <2>2 DEF MapInv, Running
<1>11. \A x : x \in InHand => x \in InHand'
  <2> SUFFICES ASSUME NEW x \in InHand PROVE x \in InHand'
    OBVIOUS
  <2>1. PICK u \in PtyThreads : call[u].at \in {"register", "close"} /\ call[u].child = x
    BY InHandIs
  <2>2. u # t
    BY <1>1, <2>1
  <2> QED
    BY <1>8, <2>1, <2>2 DEF InHand, Held
<1>12. c = good => n \in InHand'
  BY <1>5, <1>8 DEF InHand, Held
<1>13. LossInv'
  <2>1. LossInv
    BY DEF PtyInv
  <2> QED
    BY <1>1, <1>2, <1>11, <1>12, <2>1 DEF LossInv, NoOrphan, LogsFollow
<1>14. ASSUME NEW u \in PtyThreads
       PROVE  PlaceInv(u)' /\ OwnInv(u)' /\ SolInv(u)' /\ SeenInv(u)'
  <2>0. PlaceInv(u) /\ OwnInv(u) /\ SolInv(u) /\ SeenInv(u)
    BY <1>1
  <2>1. CASE u # t
    <3>1. PlaceInv(u)'
      BY <1>1, <1>3, <1>8, <2>0, <2>1 DEF PlaceInv
    <3>2. OwnInv(u)'
      BY <1>1, <1>8, <2>0, <2>1 DEF OwnInv
    <3>3. SolInv(u)' /\ SeenInv(u)'
      BY <1>1, <1>8, <2>0, <2>1 DEF SolInv, SeenInv, Running
    <3> QED
      BY <3>1, <3>2, <3>3
  <2>2. CASE u = t /\ c = good
    <3>1. PlaceInv(u)'
      BY <1>1, <1>3, <1>4, <1>5, <1>8, <2>0, <2>2 DEF PlaceInv
    <3>2. closed \subseteq 1..spawned
      BY DEF PtyInv, ChildInv
    <3>3. OwnInv(u)'
      BY <1>1, <1>3, <1>4, <1>5, <1>8, <2>2, <3>2 DEF OwnInv
    <3>4. SolInv(u)' /\ SeenInv(u)'
      BY <1>1, <1>4, <1>5, <1>8, <2>0, <2>2 DEF SolInv, SeenInv, PlaceInv
    <3> QED
      BY <3>1, <3>3, <3>4
  <2>3. CASE u = t /\ c = bad
    <3>1. PlaceInv(u)'
      BY <1>1, <1>3, <1>6, <1>8, <2>0, <2>3 DEF PlaceInv
    <3>2. OwnInv(u)'
      BY <1>1, <1>3, <1>6, <1>8, <2>3 DEF OwnInv
    <3>3. SolInv(u)' /\ SeenInv(u)'
      BY <1>6, <1>8, <2>3 DEF SolInv, SeenInv
    <3> QED
      BY <3>1, <3>2, <3>3
  <2> QED
    BY <1>2, <2>1, <2>2, <2>3
<1>15. ASSUME NEW u \in PtyThreads, NEW v \in PtyThreads
       PROVE  PairInv(u, v)'
  <2>0. PairInv(u, v) /\ PlaceInv(u) /\ PlaceInv(v)
    BY <1>1
  <2>1. CASE u # t /\ v # t
    BY <1>8, <2>0, <2>1 DEF PairInv
  <2>2. CASE u = t /\ v # t
    <3>1. call'[u].own = 0 \/ call'[u].own = n
      BY <1>2, <1>5, <1>6, <1>8, <2>2
    <3>2. call[v].own # n /\ call[v].child # n
      BY <1>3, <2>0 DEF PlaceInv
    <3>3. call'[u].seen = call[u].seen
      BY <1>2, <1>5, <1>6, <1>8, <2>2
    <3>4. call'[u].at \in {"register", "close"} => call'[u].child = n
      BY <1>2, <1>5, <1>6, <1>8, <2>2
    <3> QED
      BY <1>8, <2>0, <2>2, <3>1, <3>2, <3>3, <3>4 DEF PairInv
  <2>3. CASE u # t /\ v = t
    <3>1. call'[v].own = 0 \/ call'[v].own = n
      BY <1>2, <1>5, <1>6, <1>8, <2>3
    <3>2. call[u].own # n /\ call[u].child # n /\ n \notin call[u].seen
      BY <1>3, <2>0 DEF PlaceInv
    <3>3. call'[v].at \in {"register", "close"} => call'[v].own = n /\ call'[v].child = n
      BY <1>2, <1>5, <1>6, <1>8, <2>3
    <3> QED
      BY <1>8, <2>3, <3>1, <3>2, <3>3 DEF PairInv
  <2>4. CASE u = v
    BY <2>4 DEF PairInv
  <2> QED
    BY <2>1, <2>2, <2>3, <2>4
<1> QED
  BY <1>8, <1>9, <1>10, <1>13, <1>14, <1>15 DEF PtyInv

\* What the dictionary is after a registration.
LEMMA EnterProps ==
  ASSUME NEW alias, NEW child, IsInjective(processes), alias \notin Running,
         child \notin Range(processes), processes' = With(processes, alias, child)
  PROVE  /\ Running' = Running \cup {alias} /\ processes'[alias] = child
         /\ \A a \in Running : processes'[a] = processes[a]
         /\ IsInjective(processes') /\ Range(processes') = Range(processes) \cup {child}
<1> USE DEF Running
<1>1. Running' = Running \cup {alias} /\ processes'[alias] = child
  BY DEF With
<1>2. \A a \in Running : processes'[a] = processes[a]
  BY DEF With
<1>3. IsInjective(processes')
  BY <1>1, <1>2 DEF IsInjective, Range
<1>4. Range(processes') = Range(processes) \cup {child}
  BY <1>1, <1>2 DEF Range
<1> QED
  BY <1>1, <1>2, <1>3, <1>4

\* What it is after a pop: the child that had the alias is not registered.
LEMMA RemoveProps ==
  ASSUME NEW alias, IsInjective(processes), processes' = Without(processes, alias)
  PROVE  /\ Running' = Running \ {alias}
         /\ \A a \in Running' : processes'[a] = processes[a]
         /\ IsInjective(processes') /\ Range(processes') \subseteq Range(processes)
         /\ alias \in Running =>
              /\ Range(processes) = Range(processes') \cup {processes[alias]}
              /\ processes[alias] \notin Range(processes')
              /\ processes[alias] \in Range(processes)
<1> USE DEF Running
<1>1. Running' = Running \ {alias}
  BY DEF Without, Restrict
<1>2. \A a \in Running' : processes'[a] = processes[a]
  BY DEF Without, Restrict
<1>3. IsInjective(processes')
  BY <1>1, <1>2 DEF IsInjective
<1>4. /\ Range(processes') \subseteq Range(processes)
      /\ alias \in Running =>
           /\ Range(processes) = Range(processes') \cup {processes[alias]}
           /\ processes[alias] \notin Range(processes')
           /\ processes[alias] \in Range(processes)
  BY <1>1, <1>2 DEF Range, IsInjective
<1> QED
  BY <1>1, <1>2, <1>3, <1>4

\* The second locked section of start_pty_process, the alias being taken: the
\* child it has spawned is closed.
LEMMA RefusedStep ==
  ASSUME PtyInv, NEW t \in PtyThreads, Register(t), Taken(t)
  PROVE  PtyInv'
<1> DEFINE n == call[t].own
           c == [PtyIdle("raised") EXCEPT !.own = n, !.seen = call[t].seen]
<1>1. /\ call \in [PtyThreads -> PtyCalls] /\ call[t] \in PtyCalls /\ call[t].at = "register"
      /\ UNCHANGED <<processes, log_handles, spawned, eof, spared, leaked>>
      /\ alive' = alive \ {n} /\ closed' = closed \cup {n} /\ openLogs' = openLogs \ {n}
      /\ call' = [call EXCEPT ![t] = c]
      /\ \A u \in PtyThreads : PlaceInv(u) /\ OwnInv(u) /\ SolInv(u) /\ SeenInv(u)
      /\ \A u, v \in PtyThreads : PairInv(u, v)
  BY DEF PtyInv, Register, Becomes, Ends, ptyMaps
<1>2. /\ n = call[t].child /\ n # 0 /\ n \in openLogs \ closed /\ n \notin Range(processes)
      /\ n \in 0..spawned /\ call[t].seen \subseteq 1..spawned /\ spawned \in Nat
  BY <1>1 DEF OwnInv, PlaceInv, PtyInv, ChildInv
<1>3. /\ c \in PtyCalls /\ c.op = "none" /\ c.at = "idle" /\ c.result = "raised" /\ c.child = 0
      /\ c.own = n /\ c.seen = call[t].seen
  BY <1>1, ZeroIsName DEF PtyIdle, PtyCalls, PtyOps, PtyPlaces, PtyResults
<1>4. /\ call' \in [PtyThreads -> PtyCalls] /\ call'[t] = c
      /\ \A u \in PtyThreads : u # t => call'[u] = call[u]
  BY <1>1, <1>3
<1> HIDE DEF c
<1>5. ChildInv'
  <2>1. n \in 1..spawned
    BY <1>2
  <2> QED
    BY <1>1, <2>1 DEF PtyInv, ChildInv
<1>6. MapInv'
  BY <1>1, <1>2 DEF PtyInv, MapInv, Running
<1>7. \A x : x \in InHand /\ x # n => x \in InHand'
  BY <1>1, <1>2, <1>4 DEF InHand, Held
<1>8. LossInv'
  <2>1. LossInv
    BY DEF PtyInv
  <2> QED
    BY <1>1, <1>2, <1>7, <2>1 DEF LossInv, NoOrphan, LogsFollow
<1>9. ASSUME NEW u \in PtyThreads
      PROVE  PlaceInv(u)' /\ OwnInv(u)' /\ SolInv(u)' /\ SeenInv(u)'
  <2>0. PlaceInv(u) /\ OwnInv(u) /\ SolInv(u) /\ SeenInv(u) /\ PairInv(u, t)
    BY <1>1
  <2>1. CASE u # t
    <3>1. PlaceInv(u)'
      BY <1>1, <1>4, <2>0, <2>1 DEF PlaceInv
    <3>2. OwnInv(u)'
      BY <1>1, <1>2, <1>4, <2>0, <2>1 DEF OwnInv, PairInv
    <3>3. SolInv(u)' /\ SeenInv(u)'
      BY <1>1, <1>4, <2>0, <2>1 DEF SolInv, SeenInv, Running
    <3> QED
      BY <3>1, <3>2, <3>3
  <2>2. CASE u = t
    <3>1. PlaceInv(u)'
      BY <1>1, <1>2, <1>3, <1>4, <2>2 DEF PlaceInv
    <3>2. OwnInv(u)' /\ SolInv(u)' /\ SeenInv(u)'
      BY <1>1, <1>2, <1>3, <1>4, <2>2 DEF OwnInv, SolInv, SeenInv
    <3> QED
      BY <3>1, <3>2
  <2> QED
    BY <2>1, <2>2
<1>10. ASSUME NEW u \in PtyThreads, NEW v \in PtyThreads
       PROVE  PairInv(u, v)'
  BY <1>1, <1>3, <1>4 DEF PairInv
<1> QED
  BY <1>4, <1>5, <1>6, <1>8, <1>9, <1>10 DEF PtyInv

\* The same with the alias free: the child is registered.
LEMMA RegisteredStep ==
  ASSUME PtyInv, NEW t \in PtyThreads, Register(t), ~Taken(t)
  PROVE  PtyInv'
<1> DEFINE n == call[t].own
           alias == call[t].alias
           over == [PtyIdle("returned") EXCEPT !.own = 0, !.seen = call[t].seen]
           goes == [call[t] EXCEPT !.at = "get"]
<1>1. /\ call \in [PtyThreads -> PtyCalls] /\ call[t] \in PtyCalls /\ call[t].at = "register"
      /\ UNCHANGED <<alive, closed, openLogs, spawned, eof, spared, leaked>>
      /\ processes' = With(processes, alias, n) /\ log_handles' = With(log_handles, alias, n)
      /\ \A u \in PtyThreads : PlaceInv(u) /\ OwnInv(u) /\ SolInv(u) /\ SeenInv(u)
      /\ \A u, v \in PtyThreads : PairInv(u, v)
  BY DEF PtyInv, Register
<1>2. /\ n = call[t].child /\ n # 0 /\ n \in openLogs \ closed /\ n \notin Range(processes)
      /\ n \in 1..spawned /\ call[t].seen \subseteq 1..spawned /\ spawned \in Nat
      /\ alias \in PtyNames
  BY <1>1 DEF OwnInv, PlaceInv, PtyInv, ChildInv, PtyCalls
<1>3. PICK c : /\ call' = [call EXCEPT ![t] = c]
               /\ c = over \/ (c = goes /\ call[t].op = "start_sol")
  BY DEF Register, Becomes, Ends, Goes
<1>4. /\ over \in PtyCalls /\ over.op = "none" /\ over.at = "idle" /\ over.result = "returned"
      /\ over.child = 0 /\ over.own = 0 /\ over.seen = call[t].seen
  BY <1>1, ZeroIsName DEF PtyIdle, PtyCalls, PtyOps, PtyPlaces, PtyResults
<1>5. /\ goes \in PtyCalls /\ goes.op = call[t].op /\ goes.at = "get"
      /\ goes.result = call[t].result /\ goes.child = n /\ goes.own = n /\ goes.alias = alias
      /\ goes.seen = call[t].seen
  BY <1>1, <1>2 DEF PtyCalls, PtyPlaces
<1> HIDE DEF over, goes
<1>6. /\ call' \in [PtyThreads -> PtyCalls] /\ call'[t] = c
      /\ \A u \in PtyThreads : u # t => call'[u] = call[u]
  BY <1>1, <1>3, <1>4, <1>5
<1>7. MapInv /\ ChildInv /\ LossInv
  BY DEF PtyInv
<1>8. alias \notin Running
  BY DEF Taken
<1>9. /\ Running' = Running \cup {alias} /\ processes'[alias] = n
      /\ \A a \in Running : processes'[a] = processes[a]
      /\ IsInjective(processes') /\ Range(processes') = Range(processes) \cup {n}
  <2>1. processes' = With(processes, alias, n)
    BY <1>1
  <2>2. IsInjective(processes) /\ n \notin Range(processes)
    BY <1>2, <1>7 DEF MapInv
  <2> HIDE DEF n, alias
  <2> QED
    BY <1>8, <2>1, <2>2, EnterProps
<1>10. processes' \in [Running' -> 1..spawned]
  BY <1>1, <1>2, <1>7, <1>9 DEF MapInv, With, Running
<1>11. ChildInv'
  BY <1>1, <1>7 DEF ChildInv
<1>12. MapInv'
  BY <1>1, <1>2, <1>7, <1>9, <1>10 DEF MapInv
<1>13. \A x : x \in InHand /\ x # n => x \in InHand'
  BY <1>1, <1>2, <1>6 DEF InHand, Held
<1>14. LossInv'
  BY <1>1, <1>2, <1>7, <1>9, <1>13 DEF LossInv, NoOrphan, LogsFollow
<1>15. ASSUME NEW u \in PtyThreads
      PROVE  PlaceInv(u)' /\ OwnInv(u)' /\ SolInv(u)' /\ SeenInv(u)'
  <2>0. PlaceInv(u) /\ OwnInv(u) /\ SolInv(u) /\ SeenInv(u) /\ PairInv(u, t)
    BY <1>1
  <2>1. CASE u # t
    <3>1. PlaceInv(u)'
      BY <1>1, <1>6, <2>0, <2>1 DEF PlaceInv
    <3>2. call[u].own # n /\ n \notin call[u].seen
      BY <1>1, <1>2, <2>0, <2>1 DEF PairInv
    <3>3. OwnInv(u)'
      BY <1>1, <1>2, <1>6, <1>9, <2>0, <2>1, <3>2 DEF OwnInv, PairInv
    <3>4. SolInv(u)'
      BY <1>6, <1>9, <2>0, <2>1, <3>2 DEF SolInv
    <3>5. SeenInv(u)'
      BY <1>6, <1>9, <2>0, <2>1, <3>2 DEF SeenInv
    <3> QED
      BY <3>1, <3>3, <3>4, <3>5
  <2>2. CASE u = t /\ c = over
    <3>1. PlaceInv(u)'
      BY <1>1, <1>2, <1>4, <1>6, <2>2 DEF PlaceInv
    <3>2. OwnInv(u)' /\ SolInv(u)' /\ SeenInv(u)'
      BY <1>4, <1>6, <2>2 DEF OwnInv, SolInv, SeenInv
    <3> QED
      BY <3>1, <3>2
  <2>3. CASE u = t /\ c = goes /\ call[t].op = "start_sol"
    <3>1. PlaceInv(u)'
      BY <1>1, <1>2, <1>5, <1>6, <2>0, <2>3 DEF PlaceInv
    <3>2. OwnInv(u)' /\ SeenInv(u)'
      BY <1>5, <1>6, <2>0, <2>3 DEF OwnInv, SeenInv, PlaceInv
    <3>3. SolInv(u)'
      BY <1>2, <1>5, <1>6, <1>9, <2>3 DEF SolInv, Range, Running
    <3> QED
      BY <3>1, <3>2, <3>3
  <2> QED
    BY <1>3, <2>1, <2>2, <2>3
<1>16. ASSUME NEW u \in PtyThreads, NEW v \in PtyThreads
       PROVE  PairInv(u, v)'
  <2>1. c.own \in {0, n} /\ c.at \notin {"register", "close"} /\ c.seen = call[t].seen
    BY <1>3, <1>4, <1>5
  <2> QED
    BY <1>1, <1>2, <1>6, <2>1 DEF PairInv
<1> QED
  BY <1>6, <1>11, <1>12, <1>14, <1>15, <1>16 DEF PtyInv

\* The locked section of stop_pty_process, nobody having the alias.
LEMMA StopNothingStep ==
  ASSUME PtyInv, NEW t \in PtyThreads, stop_pty_process(t), call[t].alias \notin Running
  PROVE  PtyInv'
<1>1. /\ call \in [PtyThreads -> PtyCalls] /\ call[t] \in PtyCalls /\ call[t].at = "stop"
      /\ PlaceInv(t) /\ SolInv(t) /\ SeenInv(t) /\ MapInv /\ Stopped(t) /\ UNCHANGED ptyOs
      /\ processes' = Without(processes, call[t].alias)
      /\ log_handles' = Without(log_handles, call[t].alias)
  BY DEF PtyInv, stop_pty_process, Pop
<1>2. UNCHANGED <<ptyMaps, ptyOs>>
  BY <1>1 DEF MapInv, Without, Restrict, Running, ptyMaps
<1>3. CASE call[t].op = "stop_all"
  <2> DEFINE c == [call[t] EXCEPT !.at = "next"]
  <2>1. call' = [call EXCEPT ![t] = c] /\ call'[t] = c
    BY <1>1, <1>3 DEF Stopped, Goes, Becomes
  <2>2. /\ c \in PtyCalls /\ c.at = "next" /\ c.todo = call[t].todo /\ c.op = "stop_all"
        /\ c.own = call[t].own /\ c.child = call[t].child /\ c.seen = call[t].seen
        /\ c.result = call[t].result
    BY <1>1, <1>3 DEF PtyCalls, PtyPlaces
  <2> HIDE DEF c
  <2>3. PlaceInv(t)'
    BY <1>1, <1>3, <2>1, <2>2 DEF PlaceInv, ptyOs
  <2>4. OwnInv(t)' /\ SolInv(t)'
    BY <2>1, <2>2 DEF OwnInv, SolInv
  <2>5. SeenInv(t)'
    BY <1>1, <1>2, <1>3, <2>1, <2>2 DEF SeenInv, PlaceInv, ptyMaps, Running
  <2> QED
    BY <1>1, <1>2, <2>1, <2>2, <2>3, <2>4, <2>5, CallOnly
<1>4. CASE call[t].op # "stop_all"
  <2>1. call[t].op = "start_sol" => call[t].own \notin Range(processes)
    BY <1>1 DEF SolInv, Range, Running
  <2>2. CASE call[t].op = "start_sol"
    BY <1>1, <1>2, <1>4, <2>1, <2>2, EndsOnly DEF Stopped, PtyResults
  <2>3. CASE call[t].op # "start_sol"
    BY <1>1, <1>2, <1>4, <2>3, EndsOnly DEF Stopped, PtyResults
  <2> QED
    BY <2>2, <2>3
<1> QED
  BY <1>3, <1>4

\* The locked section of stop_pty_process: the child that has the alias is taken
\* out of the dictionary, into the hands of the thread.
LEMMA StopStep ==
  ASSUME PtyInv, NEW t \in PtyThreads, stop_pty_process(t), call[t].alias \in Running
  PROVE  PtyInv'
<1> DEFINE alias == call[t].alias
           n == processes[alias]
           c == [call[t] EXCEPT !.at = "close", !.child = n]
<1>1. /\ call \in [PtyThreads -> PtyCalls] /\ call[t] \in PtyCalls /\ call[t].at = "stop"
      /\ MapInv /\ LossInv /\ ChildInv
      /\ UNCHANGED <<alive, closed, openLogs, spawned, eof, spared, leaked>>
      /\ processes' = Without(processes, alias) /\ log_handles' = Without(log_handles, alias)
      /\ call' = [call EXCEPT ![t] = c]
      /\ \A u \in PtyThreads : PlaceInv(u) /\ OwnInv(u) /\ SolInv(u) /\ SeenInv(u)
      /\ \A u, v \in PtyThreads : PairInv(u, v)
  BY DEF PtyInv, stop_pty_process, Pop, Becomes, ptyOs
<1>2. n \in 1..spawned /\ spawned \in Nat /\ alias \in Running
  BY <1>1 DEF MapInv, ChildInv
<1>3. n \in Nat /\ n \in 0..spawned
  BY <1>2
<1>4. /\ c \in PtyCalls /\ c.op = call[t].op /\ c.at = "close" /\ c.result = call[t].result
      /\ c.child = n /\ c.own = call[t].own /\ c.seen = call[t].seen /\ c.todo = call[t].todo
  BY <1>1, <1>3 DEF PtyCalls, PtyPlaces
<1>5. /\ call' \in [PtyThreads -> PtyCalls] /\ call'[t] = c
      /\ \A u \in PtyThreads : u # t => call'[u] = call[u]
  BY <1>1, <1>4
<1> HIDE DEF c
<1>6. /\ Running' = Running \ {alias} /\ \A a \in Running' : processes'[a] = processes[a]
      /\ IsInjective(processes') /\ Range(processes') \subseteq Range(processes)
      /\ Range(processes) = Range(processes') \cup {n}
      /\ n \notin Range(processes') /\ n \in Range(processes)
  <2>1. processes' = Without(processes, alias) /\ IsInjective(processes)
    BY <1>1 DEF MapInv
  <2> HIDE DEF alias
  <2> QED
    BY <1>2, <2>1, RemoveProps
<1>7. processes' \in [Running' -> 1..spawned]
  BY <1>1, <1>6 DEF MapInv, Without, Restrict, Running
<1>8. ChildInv'
  BY <1>1 DEF ChildInv
<1>9. MapInv'
  BY <1>1, <1>6, <1>7 DEF MapInv
<1>10. \A x : x \in InHand => x \in InHand'
  <2> SUFFICES ASSUME NEW x \in InHand PROVE x \in InHand'
    OBVIOUS
  <2>1. PICK u \in PtyThreads : call[u].at \in {"register", "close"} /\ call[u].child = x
    BY InHandIs
  <2>2. u # t
    BY <1>1, <2>1
  <2> QED
    BY <1>5, <2>1, <2>2 DEF InHand, Held
<1>11. n \in InHand'
  BY <1>4, <1>5 DEF InHand, Held
<1>12. LossInv'
  <2> HIDE DEF n
  <2> QED
    BY <1>1, <1>6, <1>10, <1>11 DEF LossInv, NoOrphan, LogsFollow
<1>13. ASSUME NEW u \in PtyThreads
       PROVE  PlaceInv(u)' /\ OwnInv(u)' /\ SolInv(u)' /\ SeenInv(u)'
  <2>0. PlaceInv(u) /\ OwnInv(u) /\ SolInv(u) /\ SeenInv(u) /\ PairInv(u, t)
    BY <1>1
  <2>1. CASE u # t
    <3>1. PlaceInv(u)'
      BY <1>1, <1>5, <2>0, <2>1 DEF PlaceInv
    <3>2. OwnInv(u)'
      BY <1>1, <1>5, <1>6, <2>0, <2>1 DEF OwnInv
    <3>3. SolInv(u)' /\ SeenInv(u)'
      BY <1>5, <1>6, <2>0, <2>1 DEF SolInv, SeenInv
    <3> QED
      BY <3>1, <3>2, <3>3
  <2>2. CASE u = t
    <3>1. PlaceInv(u)'
      BY <1>1, <1>3, <1>4, <1>5, <2>0, <2>2 DEF PlaceInv
    <3>2. call[t].op = "start_sol" => call[t].own \notin Range(processes')
      BY <1>1, <1>6 DEF SolInv, Range, Running
    <3>3. OwnInv(u)'
      BY <1>4, <1>5, <1>6, <2>0, <2>2, <3>2 DEF OwnInv, PlaceInv
    <3>4. SolInv(u)' /\ SeenInv(u)'
      BY <1>1, <1>4, <1>5, <1>6, <2>0, <2>2 DEF SolInv, SeenInv, PlaceInv
    <3> QED
      BY <3>1, <3>3, <3>4
  <2> QED
    BY <2>1, <2>2
<1>14. ASSUME NEW u \in PtyThreads, NEW v \in PtyThreads
       PROVE  PairInv(u, v)'
  <2>0. PairInv(u, v) /\ OwnInv(u) /\ OwnInv(v)
    BY <1>1
  <2>1. CASE u # t /\ v # t
    BY <1>5, <2>0, <2>1 DEF PairInv
  <2>2. CASE u = t /\ v # t
    BY <1>4, <1>5, <1>6, <2>0, <2>2 DEF PairInv, OwnInv
  <2>3. CASE u # t /\ v = t
    BY <1>4, <1>5, <1>6, <2>0, <2>3 DEF PairInv, OwnInv
  <2>4. CASE u = v
    BY <2>4 DEF PairInv
  <2> QED
    BY <2>1, <2>2, <2>3, <2>4
<1> QED
  BY <1>5, <1>8, <1>9, <1>12, <1>13, <1>14 DEF PtyInv

\* The rest of stop_pty_process: the child and its log are closed.
LEMMA CloseStep ==
  ASSUME PtyInv, NEW t \in PtyThreads, Close(t)
  PROVE  PtyInv'
<1> DEFINE n == call[t].child
           r == IF call[t].op = "start_sol" THEN "raised" ELSE "returned"
           over == [PtyIdle(r) EXCEPT !.own = IF r = "raised" THEN call[t].own ELSE 0,
                                      !.seen = call[t].seen]
           goes == [call[t] EXCEPT !.at = "next"]
<1>1. /\ call \in [PtyThreads -> PtyCalls] /\ call[t] \in PtyCalls /\ call[t].at = "close"
      /\ MapInv /\ LossInv /\ ChildInv /\ openLogs' = openLogs \ {n}
      /\ UNCHANGED <<processes, log_handles, spawned, eof, leaked>>
      /\ closed' \subseteq closed \cup {n} /\ spared' \subseteq spared \cup {n}
      /\ alive' \subseteq alive /\ spared \subseteq spared' /\ (n \in alive' => n \in spared')
      /\ \A u \in PtyThreads : PlaceInv(u) /\ OwnInv(u) /\ SolInv(u) /\ SeenInv(u)
      /\ \A u, v \in PtyThreads : PairInv(u, v)
  BY DEF PtyInv, Close, CloseLog, ptyMaps
<1>2. /\ n \notin Range(processes) /\ n \in 0..spawned /\ call[t].seen \subseteq 1..spawned
      /\ spawned \in Nat /\ (call[t].op = "start_sol" => call[t].own \notin Range(processes))
  BY <1>1 DEF OwnInv, PlaceInv, ChildInv
<1>3. PICK c : /\ call' = [call EXCEPT ![t] = c]
               /\ c = over \/ (c = goes /\ call[t].op = "stop_all")
  BY DEF Close, Stopped, Becomes, Ends, Goes
<1>4. /\ r \in {"raised", "returned"} /\ (r = "raised" => call[t].op = "start_sol")
  OBVIOUS
<1> HIDE DEF r
<1>5. /\ over \in PtyCalls /\ over.op = "none" /\ over.at = "idle" /\ over.result = r
      /\ over.child = 0 /\ over.own = (IF r = "raised" THEN call[t].own ELSE 0)
      /\ over.seen = call[t].seen
  BY <1>1, <1>4, ZeroIsName DEF PtyIdle, PtyCalls, PtyOps, PtyPlaces, PtyResults
<1>6. /\ goes \in PtyCalls /\ goes.op = call[t].op /\ goes.at = "next" /\ goes.child = n
      /\ goes.result = call[t].result /\ goes.own = call[t].own /\ goes.todo = call[t].todo
      /\ goes.seen = call[t].seen
  BY <1>1 DEF PtyCalls, PtyPlaces
<1> HIDE DEF over, goes
<1>7. /\ call' \in [PtyThreads -> PtyCalls] /\ call'[t] = c
      /\ \A u \in PtyThreads : u # t => call'[u] = call[u]
  BY <1>1, <1>3, <1>5, <1>6
<1>8. ChildInv'
  <2>1. CASE n = 0
    <3>1. closed' = closed /\ spared' = spared /\ alive' = alive
      BY <1>1, <2>1 DEF Close, ChildInv
    <3> QED
      BY <1>1, <3>1 DEF ChildInv
  <2>2. CASE n # 0
    <3>1. n \in 1..spawned
      BY <1>2, <2>2
    <3> QED
      BY <1>1, <3>1 DEF ChildInv
  <2> QED
    BY <2>1, <2>2
<1>9. MapInv'
  BY <1>1, <1>2 DEF MapInv, Running
<1>10. \A x : x \in InHand /\ x # n => x \in InHand'
  BY <1>1, <1>2, <1>7 DEF InHand, Held
<1>11. LossInv'
  <2>1. NoOrphan'
    BY <1>1, <1>10 DEF LossInv, NoOrphan
  <2>2. LogsFollow'
    BY <1>1, <1>2, <1>10 DEF LossInv, LogsFollow
  <2> QED
    BY <2>1, <2>2 DEF LossInv
<1>12. ASSUME NEW u \in PtyThreads
       PROVE  PlaceInv(u)' /\ OwnInv(u)' /\ SolInv(u)' /\ SeenInv(u)'
  <2>0. PlaceInv(u) /\ OwnInv(u) /\ SolInv(u) /\ SeenInv(u) /\ PairInv(u, t)
    BY <1>1
  <2>1. CASE u # t
    <3>1. PlaceInv(u)'
      BY <1>1, <1>7, <2>0, <2>1 DEF PlaceInv
    <3>2. OwnInv(u)'
      BY <1>1, <1>7, <2>0, <2>1 DEF OwnInv, PairInv
    <3>3. SolInv(u)' /\ SeenInv(u)'
      BY <1>1, <1>7, <2>0, <2>1 DEF SolInv, SeenInv, Running
    <3> QED
      BY <3>1, <3>2, <3>3
  <2>2. CASE u = t /\ c = over
    <3>1. PlaceInv(u)'
      BY <1>1, <1>2, <1>4, <1>5, <1>7, <2>0, <2>2 DEF PlaceInv
    <3>2. OwnInv(u)'
      BY <1>1, <1>2, <1>4, <1>5, <1>7, <2>2 DEF OwnInv
    <3>3. SolInv(u)' /\ SeenInv(u)'
      BY <1>4, <1>5, <1>7, <2>2 DEF SolInv, SeenInv
    <3> QED
      BY <3>1, <3>2, <3>3
  <2>3. CASE u = t /\ c = goes /\ call[t].op = "stop_all"
    <3>1. PlaceInv(u)'
      BY <1>1, <1>6, <1>7, <2>0, <2>3 DEF PlaceInv
    <3>2. OwnInv(u)' /\ SolInv(u)'
      BY <1>6, <1>7, <2>3 DEF OwnInv, SolInv
    <3>3. SeenInv(u)'
      BY <1>1, <1>6, <1>7, <2>0, <2>3 DEF SeenInv, PlaceInv, Running
    <3> QED
      BY <3>1, <3>2, <3>3
  <2> QED
    BY <1>3, <2>1, <2>2, <2>3
<1>13. ASSUME NEW u \in PtyThreads, NEW v \in PtyThreads
       PROVE  PairInv(u, v)'
  <2>1. /\ c.own \in {0, call[t].own} /\ c.at \notin {"register", "close"}
        /\ c.seen = call[t].seen
    BY <1>3, <1>5, <1>6
  <2> QED
    BY <1>1, <1>7, <2>1 DEF PairInv
<1> QED
  BY <1>7, <1>8, <1>9, <1>11, <1>12, <1>13 DEF PtyInv

\* What children do by themselves.
LEMMA ChildStep ==
  ASSUME PtyInv, NEW x \in alive, ChildEndsOutput(x) \/ ChildExits(x)
  PROVE  PtyInv'
<1>1. /\ UNCHANGED <<processes, log_handles, spawned, closed, openLogs, spared, leaked, call>>
      /\ alive' \subseteq alive /\ eof' \subseteq eof \cup {x}
  BY DEF ChildEndsOutput, ChildExits, ptyMaps
<1>2. ChildInv' /\ MapInv'
  BY <1>1 DEF PtyInv, ChildInv, MapInv, Running
<1>3. LossInv'
  BY <1>1 DEF PtyInv, LossInv, NoOrphan, LogsFollow, InHand, Held
<1>4. \A t \in PtyThreads : PlaceInv(t)' /\ OwnInv(t)' /\ SolInv(t)' /\ SeenInv(t)'
  BY <1>1 DEF PtyInv, PlaceInv, OwnInv, SolInv, SeenInv, Running
<1>5. \A t, u \in PtyThreads : PairInv(t, u)'
  BY <1>1 DEF PtyInv, PairInv
<1> QED
  BY <1>1, <1>2, <1>3, <1>4, <1>5 DEF PtyInv

-----------------------------------------------------------------------------
(* How many children there are *)

\* The bound on the children counts those that are about to be spawned.
Spawning == {t \in PtyThreads : call[t].at = "spawn"}
BoundInv == spawned + Cardinality(Spawning) <= MaxSpawned

\* The numbers that start_pty_process makes aliases of.
LEMMA RunningCount ==
  ASSUME PtyInv, BoundInv
  PROVE  Cardinality(Running) \in 0..MaxSpawned /\ spawned \in 0..MaxSpawned
<1>1. spawned \in Nat /\ processes \in [Running -> 1..spawned] /\ IsInjective(processes)
  BY DEF PtyInv, ChildInv, MapInv
<1>2. IsFiniteSet(1..spawned) /\ Cardinality(1..spawned) = spawned
  <2>1. 1 \in Int /\ spawned \in Int
    BY <1>1
  <2>2. IsFiniteSet(1..spawned) /\ Cardinality(1..spawned) = IF 1 > spawned THEN 0 ELSE spawned - 1 + 1
    BY <2>1, FS_Interval
  <2> QED
    BY <1>1, <2>2
<1>3. processes \in Injection(Running, 1..spawned)
  BY <1>1 DEF Injection
<1>4. IsFiniteSet(Running) /\ Cardinality(Running) <= Cardinality(1..spawned)
  BY <1>2, <1>3, FS_Injection
<1>5. Cardinality(Running) \in Nat
  BY <1>4, FS_CardinalityType
<1>6. IsFiniteSet(Spawning)
  BY PtyAssumption, FS_Subset DEF Spawning
<1>7. Cardinality(Spawning) \in Nat
  BY <1>6, FS_CardinalityType
<1> QED
  BY <1>1, <1>2, <1>4, <1>5, <1>7, PtyAssumption DEF BoundInv

\* A thread that does not come to spawn does not add to them.
LEMMA NoMore ==
  ASSUME PtyInv, BoundInv, NEW t \in PtyThreads, NEW c, call' = [call EXCEPT ![t] = c],
         c.at # "spawn", UNCHANGED spawned
  PROVE  BoundInv'
<1>1. Spawning' \subseteq Spawning
  BY DEF Spawning, PtyInv
<1>2. IsFiniteSet(Spawning)
  BY PtyAssumption, FS_Subset DEF Spawning
<1>3. Spawning' \in SUBSET Spawning
  BY <1>1
<1>4. Cardinality(Spawning') <= Cardinality(Spawning) /\ IsFiniteSet(Spawning')
  BY <1>2, <1>3, FS_Subset
<1>5. Cardinality(Spawning') \in Nat /\ Cardinality(Spawning) \in Nat /\ spawned \in Nat
  BY <1>2, <1>4, FS_CardinalityType DEF PtyInv, ChildInv
<1> QED
  BY <1>4, <1>5, PtyAssumption DEF BoundInv

\* What a thread may do but for beginning to spawn.
NotToSpawn(t) == \E c : call' = [call EXCEPT ![t] = c] /\ c.at # "spawn"

\* The ways a keyword goes on and ends do not lead to a spawn.
LEMMA WaysOn ==
  ASSUME PtyInv, NEW t \in PtyThreads
  PROVE  /\ \A r : Ends(t, r) => NotToSpawn(t)
         /\ \A at : Goes(t, at) /\ at # "spawn" => NotToSpawn(t)
         /\ \A r : GivesUp(t, r) => NotToSpawn(t)
         /\ Stopped(t) => NotToSpawn(t)
<1>0. call[t] \in PtyCalls
  BY DEF PtyInv
<1>1. ASSUME NEW r, Ends(t, r) PROVE NotToSpawn(t)
  <2> DEFINE c == [PtyIdle(r) EXCEPT !.own = IF r = "raised" THEN call[t].own ELSE 0,
                                     !.seen = call[t].seen]
  <2>1. call' = [call EXCEPT ![t] = c]
    BY <1>1 DEF Ends, Becomes
  <2>2. c.at = "idle"
    BY DEF PtyIdle
  <2> QED
    BY <2>1, <2>2 DEF NotToSpawn
<1>2. ASSUME NEW at, Goes(t, at), at # "spawn" PROVE NotToSpawn(t)
  <2> DEFINE c == [call[t] EXCEPT !.at = at]
  <2>1. call' = [call EXCEPT ![t] = c] /\ c.at = at
    BY <1>0, <1>2 DEF Goes, Becomes, PtyCalls
  <2> QED
    BY <1>2, <2>1 DEF NotToSpawn
<1>3. ASSUME NEW r, GivesUp(t, r) PROVE NotToSpawn(t)
  <2> DEFINE c == [call[t] EXCEPT !.at = "stop", !.force = TRUE, !.result = r]
  <2>1. CASE call[t].op \in {"start_sol", "stop_sol"}
    <3>1. call' = [call EXCEPT ![t] = c] /\ c.at = "stop"
      BY <1>0, <1>3, <2>1 DEF GivesUp, Becomes, PtyCalls
    <3> QED
      BY <3>1 DEF NotToSpawn
  <2>2. CASE call[t].op \notin {"start_sol", "stop_sol"}
    BY <1>1, <1>3, <2>2 DEF GivesUp
  <2> QED
    BY <2>1, <2>2
<1>4. ASSUME Stopped(t) PROVE NotToSpawn(t)
  BY <1>1, <1>2, <1>4 DEF Stopped
<1> QED
  BY <1>1, <1>2, <1>3, <1>4

\* The bound is kept by the step that claims a child, and by the one that spawns it.
LEMMA ClaimStep ==
  ASSUME PtyInv, BoundInv, NEW t \in PtyThreads, NEW op, NEW alias,
         MaySpawn, Begins(t, op, "spawn", alias, FALSE), UNCHANGED spawned
  PROVE  BoundInv'
<1> DEFINE c == [PtyIdle("none") EXCEPT !.op = op, !.at = "spawn", !.alias = alias,
                                        !.force = FALSE]
<1>1. call' = [call EXCEPT ![t] = c] /\ call \in [PtyThreads -> PtyCalls]
  BY DEF Begins, Becomes, PtyInv
<1>2. c.at = "spawn"
  BY DEF PtyIdle
<1> HIDE DEF c
<1>3. Spawning' = Spawning \cup {t}
  BY <1>1, <1>2 DEF Spawning
<1>4. IsFiniteSet(Spawning)
  BY PtyAssumption, FS_Subset DEF Spawning
<1>5. Cardinality(Spawning') \in {Cardinality(Spawning), Cardinality(Spawning) + 1}
  BY <1>3, <1>4, FS_AddElement
<1>6. Cardinality(Spawning) \in Nat /\ spawned \in Nat
  BY <1>4, FS_CardinalityType DEF PtyInv, ChildInv
<1>7. spawned + Cardinality(Spawning) < MaxSpawned
  BY DEF MaySpawn, Spawning
<1> QED
  BY <1>5, <1>6, <1>7, PtyAssumption DEF BoundInv

\* A child that was claimed is spawned.
LEMMA SpawnBound ==
  ASSUME PtyInv, BoundInv, NEW t \in PtyThreads, Spawn(t)
  PROVE  BoundInv'
<1>1. /\ call[t].at = "spawn" /\ spawned' = spawned + 1 /\ call \in [PtyThreads -> PtyCalls]
      /\ call[t] \in PtyCalls
  BY DEF Spawn, PtyInv
<1>2. NotToSpawn(t)
  <2> DEFINE c == [call[t] EXCEPT !.at = "register", !.own = spawned', !.child = spawned']
  <2>1. c.at = "register"
    BY <1>1 DEF PtyCalls
  <2>2. CASE call' = [call EXCEPT ![t] = c]
    BY <2>1, <2>2 DEF NotToSpawn
  <2>3. CASE Ends(t, "raised")
    BY <2>3, WaysOn
  <2> QED
    BY <2>2, <2>3 DEF Spawn, Becomes
<1>3. Spawning' = Spawning \ {t} /\ t \in Spawning
  BY <1>1, <1>2 DEF Spawning, NotToSpawn
<1>4. IsFiniteSet(Spawning)
  BY PtyAssumption, FS_Subset DEF Spawning
<1>5. Cardinality(Spawning') = Cardinality(Spawning) - 1
  BY <1>3, <1>4, FS_RemoveElement
<1>6. Cardinality(Spawning) \in Nat /\ spawned \in Nat
  BY <1>4, FS_CardinalityType DEF PtyInv, ChildInv
<1> QED
  BY <1>1, <1>5, <1>6, PtyAssumption DEF BoundInv

\* Every step keeps the invariant and the bound.
LEMMA PtyInvStep == PtyInv /\ BoundInv /\ [PtyNext]_ptyVars => PtyInv' /\ BoundInv'
<1> SUFFICES ASSUME PtyInv, BoundInv, [PtyNext]_ptyVars
             PROVE  PtyInv' /\ BoundInv'
  OBVIOUS
<1>0. ASSUME NEW t \in PtyThreads, NotToSpawn(t), UNCHANGED spawned PROVE BoundInv'
  BY <1>0, NoMore DEF NotToSpawn
<1>1. ASSUME NEW t \in PtyThreads, NEW op \in {"start", "start_sol"}, NEW alias \in PtyNames,
             Starts(t, op, alias)
      PROVE  PtyInv' /\ BoundInv'
  <2>1. PtyInv'
    BY <1>1, StartsStep
  <2>2. UNCHANGED spawned
    BY <1>1 DEF Starts, ptyOs
  <2>3. CASE MaySpawn /\ Begins(t, op, "spawn", alias, FALSE)
    BY <2>1, <2>2, <2>3, ClaimStep
  <2>4. CASE Becomes(t, PtyIdle("raised"))
    <3>1. PtyIdle("raised").at = "idle"
      BY DEF PtyIdle
    <3> QED
      BY <1>0, <2>1, <2>2, <2>4, <3>1 DEF NotToSpawn, Becomes
  <2> QED
    BY <1>1, <2>3, <2>4 DEF Starts
<1>2. ASSUME NEW t \in PtyThreads, start_pty_process(t) PROVE PtyInv' /\ BoundInv'
  BY <1>1, <1>2, RunningCount DEF start_pty_process, PtyNames
<1>3. ASSUME NEW t \in PtyThreads, start_sol_pty_session(t) PROVE PtyInv' /\ BoundInv'
  BY <1>1, <1>3 DEF start_sol_pty_session, PtyNames
<1>4. ASSUME NEW t \in PtyThreads, NEW op, NEW at, NEW alias \in PtyNames, NEW force \in BOOLEAN,
             Begins(t, op, at, alias, force), UNCHANGED <<ptyMaps, ptyOs>>,
             \/ op \in {"talk", "wait", "wait_exit", "stop_sol"} /\ at = "get"
             \/ op = "stop" /\ at = "stop"
      PROVE  PtyInv' /\ BoundInv'
  <2> DEFINE c == [PtyIdle("none") EXCEPT !.op = op, !.at = at, !.alias = alias, !.force = force]
  <2>1. PtyInv'
    BY <1>4, BeginsOnly
  <2>2. call' = [call EXCEPT ![t] = c] /\ UNCHANGED spawned
    BY <1>4 DEF Begins, Becomes, ptyOs
  <2>3. c.at # "spawn"
    BY <1>4 DEF PtyIdle
  <2> QED
    BY <1>0, <2>1, <2>2, <2>3 DEF NotToSpawn
<1>5. ASSUME NEW t \in PtyThreads, Use(t) \/ stop_sol_pty_session(t) \/ Stop(t)
      PROVE  PtyInv' /\ BoundInv'
  <2>1. PtyAliases \subseteq PtyNames /\ 0 \in PtyNames
    BY ZeroIsName DEF PtyNames
  <2>2. CASE Use(t)
    BY <1>4, <2>1, <2>2 DEF Use
  <2>3. CASE stop_sol_pty_session(t)
    BY <1>4, <2>1, <2>3 DEF stop_sol_pty_session
  <2>4. CASE Stop(t)
    BY <1>4, <2>1, <2>4 DEF Stop
  <2> QED
    BY <1>5, <2>2, <2>3, <2>4
<1>6. ASSUME NEW t \in PtyThreads, stop_all_pty_processes(t) PROVE PtyInv' /\ BoundInv'
  <2> DEFINE c == [PtyIdle("none") EXCEPT !.op = "stop_all", !.at = "next", !.force = TRUE,
                                          !.todo = Running, !.seen = Range(processes)]
  <2>1. call' = [call EXCEPT ![t] = c] /\ UNCHANGED spawned
    BY <1>6 DEF stop_all_pty_processes, Becomes, ptyOs
  <2>2. c.at = "next"
    BY DEF PtyIdle
  <2> QED
    BY <1>0, <1>6, <2>1, <2>2, StopAllStep DEF NotToSpawn
<1>7. ASSUME NEW t \in PtyThreads, Spawn(t) PROVE PtyInv' /\ BoundInv'
  BY <1>7, SpawnStep, SpawnBound
<1>8. ASSUME NEW t \in PtyThreads, Register(t) PROVE PtyInv' /\ BoundInv'
  BY <1>0, <1>8, RefusedStep, RegisteredStep, WaysOn DEF Register
<1>9. ASSUME NEW t \in PtyThreads, _get_process(t) PROVE PtyInv' /\ BoundInv'
  <2>1. call[t] \in PtyCalls
    BY DEF PtyInv
  <2>2. CASE GivesUp(t, "raised")
    BY <1>0, <1>9, <2>2, GetStep, WaysOn DEF _get_process, ptyOs
  <2>3. CASE ~GivesUp(t, "raised")
    <3> DEFINE at == CASE call[t].op = "talk" -> "talk"
                       [] call[t].op = "stop_sol" /\ processes[call[t].alias] \notin alive -> "stop"
                       [] OTHER -> "expect"
               c == [call[t] EXCEPT !.at = at, !.child = processes[call[t].alias]]
    <3>1. call' = [call EXCEPT ![t] = c] /\ UNCHANGED spawned
      BY <1>9, <2>3 DEF _get_process, Becomes, ptyOs
    <3>2. c.at = at /\ at # "spawn"
      BY <2>1 DEF PtyCalls
    <3> QED
      BY <1>0, <1>9, <3>1, <3>2, GetStep DEF NotToSpawn
  <2> QED
    BY <2>2, <2>3
<1>10. ASSUME NEW t \in PtyThreads, wait_for_pty_process_output(t) PROVE PtyInv' /\ BoundInv'
  BY <1>0, <1>10, WaitStep, WaysOn DEF wait_for_pty_process_output, ptyOs
<1>11. ASSUME NEW t \in PtyThreads, ExpectEof(t) PROVE PtyInv' /\ BoundInv'
  BY <1>0, <1>11, EofStep, WaysOn DEF ExpectEof, ptyOs
<1>12. ASSUME NEW t \in PtyThreads,
              \/ send_to_pty_process(t) \/ read_pty_process_output(t)
              \/ is_pty_process_running(t) \/ resume_pty_process(t)
       PROVE  PtyInv' /\ BoundInv'
  <2>1. PICK r \in {"raised", "returned"} : Talks(t, r)
    BY <1>12 DEF send_to_pty_process, read_pty_process_output, is_pty_process_running,
      resume_pty_process
  <2> QED
    BY <1>0, <2>1, TalksStep, WaysOn DEF Talks, ptyOs
<1>13. ASSUME NEW t \in PtyThreads, WaitExit(t) PROVE PtyInv' /\ BoundInv'
  BY <1>0, <1>13, WaitExitStep, WaysOn DEF WaitExit, ptyOs
<1>14. ASSUME NEW t \in PtyThreads, NextAlias(t) PROVE PtyInv' /\ BoundInv'
  <2>1. call[t] \in PtyCalls /\ UNCHANGED spawned
    BY <1>14 DEF PtyInv, NextAlias, ptyOs
  <2>2. CASE Ends(t, "all")
    BY <1>0, <1>14, <2>1, <2>2, NextAliasStep, WaysOn
  <2>3. ASSUME NEW alias \in call[t].todo,
               Becomes(t, [call[t] EXCEPT !.at = "stop", !.alias = alias, !.todo = @ \ {alias}])
        PROVE  PtyInv' /\ BoundInv'
    <3> DEFINE c == [call[t] EXCEPT !.at = "stop", !.alias = alias, !.todo = @ \ {alias}]
    <3>1. call' = [call EXCEPT ![t] = c] /\ c.at = "stop"
      BY <2>1, <2>3 DEF Becomes, PtyCalls
    <3> QED
      BY <1>0, <1>14, <2>1, <3>1, NextAliasStep DEF NotToSpawn
  <2> QED
    BY <1>14, <2>2, <2>3 DEF NextAlias
<1>15. ASSUME NEW t \in PtyThreads, stop_pty_process(t) PROVE PtyInv' /\ BoundInv'
  <2>1. CASE call[t].alias \notin Running
    BY <1>0, <1>15, <2>1, StopNothingStep, WaysOn DEF stop_pty_process, ptyOs
  <2>2. CASE call[t].alias \in Running
    <3> DEFINE c == [call[t] EXCEPT !.at = "close", !.child = processes[call[t].alias]]
    <3>1. call' = [call EXCEPT ![t] = c] /\ UNCHANGED spawned /\ call[t] \in PtyCalls
      BY <1>15, <2>2 DEF stop_pty_process, Becomes, ptyOs, PtyInv
    <3>2. c.at = "close"
      BY <3>1 DEF PtyCalls
    <3> QED
      BY <1>0, <1>15, <2>2, <3>1, <3>2, StopStep DEF NotToSpawn
  <2> QED
    BY <2>1, <2>2
<1>16. ASSUME NEW t \in PtyThreads, Close(t) PROVE PtyInv' /\ BoundInv'
  BY <1>0, <1>16, CloseStep, WaysOn DEF Close
<1>17. ASSUME NEW x \in alive, ChildEndsOutput(x) \/ ChildExits(x) PROVE PtyInv' /\ BoundInv'
  BY <1>17, ChildStep DEF ChildEndsOutput, ChildExits, BoundInv, Spawning
<1>18. CASE UNCHANGED ptyVars
  BY <1>18 DEF ptyVars, PtyInv, BoundInv, Spawning, ChildInv, MapInv, LossInv, NoOrphan, LogsFollow,
    InHand, Held, PlaceInv, OwnInv, SolInv, SeenInv, PairInv, Running
<1> QED
  BY <1>2, <1>3, <1>5, <1>6, <1>7, <1>8, <1>9, <1>10, <1>11, <1>12, <1>13, <1>14, <1>15, <1>16,
     <1>17, <1>18 DEF PtyNext, PtyStep

\* At the beginning there is no child and no alias.
LEMMA PtyInvInit == PtyInit => PtyInv /\ BoundInv
<1> SUFFICES ASSUME PtyInit PROVE PtyInv /\ BoundInv
  OBVIOUS
<1>1. Running = {} /\ Range(processes) = {} /\ IsInjective(processes)
  BY DEF PtyInit, Running, Range, IsInjective
<1>2. PtyIdle("none") \in PtyCalls
  BY ZeroIsName DEF PtyIdle, PtyCalls, PtyOps, PtyPlaces, PtyResults
<1>3. call \in [PtyThreads -> PtyCalls] /\ \A t \in PtyThreads : call[t] = PtyIdle("none")
  BY <1>2 DEF PtyInit
<1>4. ChildInv
  BY DEF PtyInit, ChildInv
<1>5. MapInv
  <2>1. processes \in [{} -> 1..spawned]
    BY DEF PtyInit
  <2> QED
    BY <1>1, <2>1 DEF MapInv, PtyInit
<1>6. LossInv
  BY <1>1 DEF PtyInit, LossInv, NoOrphan, LogsFollow
<1>7. \A t \in PtyThreads : PlaceInv(t) /\ OwnInv(t) /\ SolInv(t) /\ SeenInv(t)
  BY <1>1, <1>3 DEF PlaceInv, OwnInv, SolInv, SeenInv, PtyIdle, PtyInit
<1>8. \A t, u \in PtyThreads : PairInv(t, u)
  BY <1>3 DEF PairInv, PtyIdle
<1>9. BoundInv
  <2>1. Spawning = {}
    BY <1>3 DEF Spawning, PtyIdle
  <2> QED
    BY <2>1, FS_EmptySet, PtyAssumption DEF BoundInv, PtyInit
<1> QED
  BY <1>3, <1>4, <1>5, <1>6, <1>7, <1>8, <1>9 DEF PtyInv

\* Whatever threads start and stop at once, the dictionaries agree, and every
\* child and every log is registered, in the hands of a thread, or one of those
\* the code is known to leave; for any number of threads, aliases and children.
THEOREM ChildrenAreAccounted == PtySpec => []ChildrenAccounted
<1>1. PtyInv => ChildrenAccounted
  BY DEF PtyInv, ChildInv, MapInv, LossInv, ChildrenAccounted, PtyTypeOK, Range
<1> QED
  BY PtyInvInit, PtyInvStep, <1>1, PTL DEF PtySpec

\* A SOL session that failed to start is not left registered, and a stop of all
\* leaves none of the children it found, although both go by aliases.
THEOREM StopsHaveEffect == PtySpec => []StopsTakeEffect
<1>1. PtyInv => StopsTakeEffect
  BY DEF PtyInv, OwnInv, SeenInv, StopsTakeEffect, FailedSolStopped, StopAllStops
<1> QED
  BY PtyInvInit, PtyInvStep, <1>1, PTL DEF PtySpec

-----------------------------------------------------------------------------
(* The dictionary is a registry *)

\* Only the two locked sections that change the dictionary change the registry.
LEMMA RegistryStep ==
  PtyInv /\ BoundInv /\ [PtyNext]_ptyVars => [Registry!RegistryNext]_processes
<1> SUFFICES ASSUME PtyInv, BoundInv, [PtyNext]_ptyVars
             PROVE  [Registry!RegistryNext]_processes
  OBVIOUS
<1>1. \/ UNCHANGED processes
      \/ \E t \in PtyThreads : Register(t) /\ ~Taken(t)
      \/ \E t \in PtyThreads : stop_pty_process(t)
  BY DEF PtyNext, PtyStep, ptyVars, start_pty_process, start_sol_pty_session, Starts, Use,
    stop_sol_pty_session, Stop, stop_all_pty_processes, Spawn, Register, _get_process,
    wait_for_pty_process_output, ExpectEof, send_to_pty_process, read_pty_process_output,
    is_pty_process_running, resume_pty_process, Talks, WaitExit, NextAlias, Close,
    ChildEndsOutput, ChildExits, ptyMaps
<1>2. ASSUME NEW t \in PtyThreads, call[t] \in PtyCalls PROVE call[t].alias \in PtyNames
  BY <1>2 DEF PtyCalls
<1>3. ASSUME NEW t \in PtyThreads, Register(t), ~Taken(t) PROVE Registry!RegistryNext
  <2> DEFINE alias == call[t].alias
             n == call[t].own
  <2>1. /\ call[t] \in PtyCalls /\ n \notin Range(processes) /\ n # 0 /\ n \in 0..spawned
        /\ processes' = With(processes, alias, n) /\ alias \notin DOMAIN processes
    BY <1>3 DEF PtyInv, OwnInv, PlaceInv, Register, Taken, Running
  <2>2. n \in 1..MaxSpawned
    BY <2>1, RunningCount, PtyAssumption
  <2>3. alias \in PtyAliases \cup 0..MaxSpawned
    BY <1>2, <2>1 DEF PtyNames
  <2> HIDE DEF n, alias
  <2>4. Registry!Enter(alias, n)
    BY <2>1 DEF Registry!Enter, Registry!Range, Range, With
  <2> QED
    BY <2>2, <2>3, <2>4 DEF Registry!RegistryNext
<1>4. ASSUME NEW t \in PtyThreads, stop_pty_process(t) PROVE Registry!RegistryNext
  <2> DEFINE alias == call[t].alias
  <2>1. call[t] \in PtyCalls /\ processes' = Without(processes, alias)
    BY <1>4 DEF PtyInv, stop_pty_process, Pop
  <2>2. alias \in PtyAliases \cup 0..MaxSpawned
    BY <1>2, <2>1 DEF PtyNames
  <2> HIDE DEF alias
  <2>3. Registry!Remove(alias)
    BY <2>1 DEF Registry!Remove, Registry!Restrict, Restrict, Without
  <2> QED
    BY <2>2, <2>3 DEF Registry!RegistryNext
<1> QED
  BY <1>1, <1>3, <1>4

\* The threads do to the dictionary what single steps of a registry do: the
\* code with its locked sections implements AliasRegistry.
THEOREM PtyIsRegistry == PtySpec => IsRegistry
<1>1. PtyInit => Registry!RegistryInit
  BY DEF PtyInit, Registry!RegistryInit
<1> QED
  BY <1>1, PtyInvInit, PtyInvStep, RegistryStep, PTL DEF PtySpec, IsRegistry, Registry!RegistrySpec

=============================================================================
