------------------------------ MODULE CallProofs -----------------------------
(***************************************************************************)
(* Proofs about what the callers of a library are told: the listeners of   *)
(* Events, the concurrent keywords of Jobs, the requests of Redfish, each  *)
(* for any number of calls, processes, messages and resources, and the     *)
(* values checked by Validation.                                           *)
(***************************************************************************)
EXTENDS Redfish, Jobs, Events, Validation, FiniteSetTheorems, FunctionTheorems, SequenceTheorems, TLAPS

-----------------------------------------------------------------------------
(* Events *)

\* The types of the listener's variables.
ListenerType ==
  /\ listener \in {"monitor", "subscribe"} /\ monitor_type \in {"logging", "dump"}
  /\ at \in {"idle", "login", "connect", "open", "listen", "ended"}
  /\ socket \in {"none", "open", "lost", "closed"}
  /\ inbox \in Seq(Message)

\* A socket is open only while the listener uses it, and the BMC sends only on
\* an open one.
SocketInv ==
  /\ socket = "open" => at \in {"open", "listen"}
  /\ socket # "open" => registered = FALSE
  /\ registered \in BOOLEAN

\* The monitor has no socket before its login was accepted, and has one only
\* once.
SessionInv ==
  listener = "monitor" =>
    /\ at \in {"idle", "login", "connect"} => socket = "none"
    /\ at = "connect" \/ socket # "none" => web_session = "ok"

\* What is on its way to the monitor was sent since it registered, and only
\* the monitor says anything.
SentInv ==
  /\ listener = "monitor" => \A i \in 1..Len(inbox) : inbox[i] \in since
  /\ listener = "subscribe" => said = {}
  /\ listener = "monitor" /\ at = "listen" => "registered" \in said

EventsInv == ListenerType /\ SocketInv /\ SessionInv /\ SentInv /\ ReceivedIsReal

\* Nothing has been said or sent before the listener is started.
LEMMA EventsInvInit == EventsInit => EventsInv
<1> SUFFICES ASSUME EventsInit PROVE EventsInv
  OBVIOUS
<1> USE DEF EventsInit
<1>1. inbox \in Seq(Message) /\ Len(inbox) = 0
  BY EmptySeq
<1>2. ListenerType /\ SocketInv /\ SessionInv /\ ReceivedIsReal
  BY <1>1 DEF ListenerType, SocketInv, SessionInv, ReceivedIsReal
<1>3. SentInv
  BY <1>1 DEF SentInv
<1> QED
  BY <1>2, <1>3 DEF EventsInv

\* Every step of the listener or the BMC keeps the invariant.
LEMMA EventsInvStep == EventsInv /\ [EventsNext]_eventVars => EventsInv'
<1> SUFFICES ASSUME EventsInv, [EventsNext]_eventVars
             PROVE  EventsInv'
  OBVIOUS
<1> USE DEF EventsInv, bmcEvents
<1>1. CASE main
  <2>1. ListenerType'
    BY <1>1 DEF main, ListenerType
  <2>2. SocketInv'
    BY <1>1 DEF main, SocketInv, ListenerType
  <2>3. SessionInv'
    BY <1>1 DEF main, SessionInv, ListenerType, SocketInv
  <2>4. SentInv'
    BY <1>1 DEF main, SentInv, ListenerType
  <2>5. ReceivedIsReal'
    BY <1>1 DEF main, ReceivedIsReal, ListenerType, SentInv
  <2> QED
    BY <2>1, <2>2, <2>3, <2>4, <2>5
<1>2. CASE subscribe
  <2>1. ListenerType'
    BY <1>2 DEF subscribe, ListenerType
  <2>2. SocketInv'
    BY <1>2 DEF subscribe, SocketInv, ListenerType
  <2>3. SessionInv'
    BY <1>2 DEF subscribe, SessionInv, ListenerType, SocketInv
  <2>4. SentInv'
    BY <1>2 DEF subscribe, SentInv, ListenerType
  <2>5. ReceivedIsReal'
    BY <1>2 DEF subscribe, ReceivedIsReal, ListenerType, SentInv
  <2> QED
    BY <2>1, <2>2, <2>3, <2>4, <2>5
<1>3. CASE websocket_login
  <2>1. ListenerType'
    BY <1>3 DEF websocket_login, Refused, LoginRaises, ListenerType
  <2>2. SocketInv'
    BY <1>3 DEF websocket_login, Refused, LoginRaises, SocketInv, ListenerType
  <2>3. SessionInv'
    BY <1>3 DEF websocket_login, Refused, LoginRaises, SessionInv, ListenerType, SocketInv
  <2>4. SentInv'
    BY <1>3 DEF websocket_login, Refused, LoginRaises, SentInv, ListenerType
  <2>5. ReceivedIsReal'
    BY <1>3 DEF websocket_login, Refused, LoginRaises, ReceivedIsReal, ListenerType, SentInv
  <2> QED
    BY <2>1, <2>2, <2>3, <2>4, <2>5
<1>4. CASE open_socket
  <2>1. ListenerType'
    BY <1>4 DEF open_socket, Finished, ListenerType
  <2>2. SocketInv'
    BY <1>4 DEF open_socket, Finished, SocketInv, ListenerType
  <2>3. SessionInv'
    BY <1>4 DEF open_socket, Finished, SessionInv, ListenerType, SocketInv
  <2>4. SentInv'
    BY <1>4 DEF open_socket, Finished, SentInv, ListenerType
  <2>5. ReceivedIsReal'
    BY <1>4 DEF open_socket, Finished, ReceivedIsReal, ListenerType, SentInv
  <2> QED
    BY <2>1, <2>2, <2>3, <2>4, <2>5
<1>5. CASE on_open
  <2>1. ListenerType'
    BY <1>5 DEF on_open, ListenerType
  <2>2. SocketInv'
    BY <1>5 DEF on_open, SocketInv, ListenerType
  <2>3. SessionInv'
    BY <1>5 DEF on_open, SessionInv, ListenerType, SocketInv
  <2>4. SentInv'
    BY <1>5 DEF on_open, SentInv, ListenerType
  <2>5. ReceivedIsReal'
    BY <1>5 DEF on_open, ReceivedIsReal, ListenerType, SentInv
  <2> QED
    BY <2>1, <2>2, <2>3, <2>4, <2>5
<1>6. CASE on_message
  <2>1. ListenerType'
    <3>1. inbox \in Seq(Message) /\ inbox # <<>> /\ inbox' = Tail(inbox)
      BY <1>6 DEF on_message, ListenerType
    <3>2. inbox' \in Seq(Message)
      BY <3>1, HeadTailProperties
    <3> QED
      BY <1>6, <3>2 DEF on_message, CloseSocket, ListenerType
  <2>2. SocketInv'
    BY <1>6 DEF on_message, CloseSocket, SocketInv, ListenerType
  <2>3. SessionInv'
    BY <1>6 DEF on_message, CloseSocket, SessionInv, ListenerType, SocketInv
  <2>4. SentInv'
    <3>1. inbox \in Seq(Message) /\ inbox # <<>> /\ inbox' = Tail(inbox)
      BY <1>6 DEF on_message, ListenerType
    <3>2. Len(inbox') = Len(inbox) - 1 /\ Len(inbox) \in Nat
      BY <3>1, HeadTailProperties, LenProperties
    <3>3. \A i \in 1..Len(inbox') : inbox'[i] = inbox[i + 1] /\ i + 1 \in 1..Len(inbox)
      BY <3>1, <3>2
    <3>4. /\ listener = "monitor" /\ listener' = "monitor" /\ at = "listen"
          /\ since' = since /\ said \subseteq said'
      BY <1>6 DEF on_message
    <3>5. \A i \in 1..Len(inbox') : inbox'[i] \in since
      BY <3>3, <3>4 DEF SentInv
    <3> QED
      BY <3>4, <3>5 DEF SentInv
  <2>5. ReceivedIsReal'
    <3>1. inbox \in Seq(Message) /\ inbox # <<>> /\ listener = "monitor" /\ at = "listen"
      BY <1>6 DEF on_message, ListenerType
    <3>2. Len(inbox) \in Nat /\ Len(inbox) # 0 /\ Head(inbox) = inbox[1]
      BY <3>1, LenProperties, EmptySeq
    <3>3. Head(inbox) \in since /\ Head(inbox) \in Message /\ "registered" \in said
      BY <3>1, <3>2, ElementOfSeq DEF SentInv
    <3>4. CASE said' = said
      BY <3>4, <1>6 DEF on_message, ReceivedIsReal
    <3>5. CASE IsEntryOf(Head(inbox)) /\ said' = said \cup {"received"}
      BY <3>3, <3>5, <1>6 DEF on_message, ReceivedIsReal, IsEntryOf
    <3> QED
      BY <3>4, <3>5, <1>6 DEF on_message
  <2> QED
    BY <2>1, <2>2, <2>3, <2>4, <2>5
<1>7. CASE recv
  <2>1. ListenerType'
    <3>1. inbox' \in Seq(Message)
      BY <1>7, EmptySeq DEF recv
    <3> QED
      BY <1>7, <3>1 DEF recv, CloseAfterFirst, CloseSocket, ListenerType
  <2>2. SocketInv'
    BY <1>7 DEF recv, CloseAfterFirst, CloseSocket, SocketInv, ListenerType
  <2>3. SessionInv'
    BY <1>7 DEF recv, CloseAfterFirst, CloseSocket, SessionInv, ListenerType, SocketInv
  <2>4. SentInv'
    <3>1. Len(inbox') = 0
      BY <1>7 DEF recv
    <3> QED
      BY <1>7, <3>1 DEF recv, SentInv
  <2>5. ReceivedIsReal'
    BY <1>7 DEF recv, CloseAfterFirst, CloseSocket, ReceivedIsReal, ListenerType, SentInv
  <2> QED
    BY <2>1, <2>2, <2>3, <2>4, <2>5
<1>8. CASE on_error
  <2>1. ListenerType'
    BY <1>8 DEF on_error, Finished, ListenerType
  <2>2. SocketInv'
    BY <1>8 DEF on_error, Finished, SocketInv, ListenerType
  <2>3. SessionInv'
    BY <1>8 DEF on_error, Finished, SessionInv, ListenerType, SocketInv
  <2>4. SentInv'
    BY <1>8 DEF on_error, Finished, SentInv, ListenerType
  <2>5. ReceivedIsReal'
    BY <1>8 DEF on_error, Finished, ReceivedIsReal, ListenerType, SentInv
  <2> QED
    BY <2>1, <2>2, <2>3, <2>4, <2>5
<1>9. CASE signal_handler
  <2>1. ListenerType'
    BY <1>9 DEF signal_handler, ListenerType
  <2>2. SocketInv'
    BY <1>9 DEF signal_handler, SocketInv, ListenerType
  <2>3. SessionInv'
    BY <1>9 DEF signal_handler, SessionInv, ListenerType, SocketInv
  <2>4. SentInv'
    BY <1>9 DEF signal_handler, SentInv, ListenerType
  <2>5. ReceivedIsReal'
    BY <1>9 DEF signal_handler, ReceivedIsReal, ListenerType, SentInv
  <2> QED
    BY <2>1, <2>2, <2>3, <2>4, <2>5
<1>10. CASE SignalsEvent
  <2>1. ListenerType'
    <3>1. CASE inbox' = inbox
      BY <1>10, <3>1 DEF SignalsEvent, ListenerType
    <3>2. CASE \E m \in Message : inbox' = Append(inbox, m)
      <4>1. inbox' \in Seq(Message)
        BY <3>2, AppendProperties DEF ListenerType
      <4> QED
        BY <1>10, <4>1 DEF SignalsEvent, ListenerType
    <3> QED
      BY <1>10, <3>1, <3>2 DEF SignalsEvent
  <2>2. SocketInv'
    BY <1>10 DEF SignalsEvent, SocketInv, ListenerType
  <2>3. SessionInv'
    BY <1>10 DEF SignalsEvent, SessionInv, ListenerType, SocketInv
  <2>4. SentInv'
    <3>1. CASE inbox' = inbox /\ since' = since
      BY <1>10, <3>1 DEF SignalsEvent, SentInv
    <3>2. ASSUME NEW m \in Message, inbox' = Append(inbox, m), since' = since \cup {m}
          PROVE  SentInv'
      <4>1. /\ Len(inbox) \in Nat /\ Len(inbox') = Len(inbox) + 1 /\ inbox'[Len(inbox) + 1] = m
            /\ \A i \in 1..Len(inbox) : inbox'[i] = inbox[i]
        BY <3>2, AppendProperties, LenProperties DEF ListenerType
      <4>2. \A i \in 1..Len(inbox') : i \in 1..Len(inbox) \/ i = Len(inbox) + 1
        BY <4>1
      <4>3. listener' = "monitor" => \A i \in 1..Len(inbox') : inbox'[i] \in since'
        BY <1>10, <3>2, <4>1, <4>2 DEF SignalsEvent, SentInv
      <4> QED
        BY <1>10, <4>3 DEF SignalsEvent, SentInv
    <3> QED
      BY <1>10, <3>1, <3>2 DEF SignalsEvent
  <2>5. ReceivedIsReal'
    BY <1>10 DEF SignalsEvent, ReceivedIsReal, ListenerType, SentInv
  <2> QED
    BY <2>1, <2>2, <2>3, <2>4, <2>5
<1>11. CASE LosesConnection
  <2>1. ListenerType'
    <3>1. inbox' \in Seq(Message)
      BY <1>11, EmptySeq DEF LosesConnection
    <3> QED
      BY <1>11, <3>1 DEF LosesConnection, ListenerType
  <2>2. SocketInv'
    BY <1>11 DEF LosesConnection, SocketInv, ListenerType
  <2>3. SessionInv'
    BY <1>11 DEF LosesConnection, SessionInv, ListenerType, SocketInv
  <2>4. SentInv'
    <3>1. Len(inbox') = 0
      BY <1>11 DEF LosesConnection
    <3> QED
      BY <1>11, <3>1 DEF LosesConnection, SentInv
  <2>5. ReceivedIsReal'
    BY <1>11 DEF LosesConnection, ReceivedIsReal, ListenerType, SentInv
  <2> QED
    BY <2>1, <2>2, <2>3, <2>4, <2>5
<1>12. CASE UNCHANGED eventVars
  <2>1. ListenerType'
    BY <1>12 DEF eventVars, ListenerType
  <2>2. SocketInv'
    BY <1>12 DEF eventVars, SocketInv, ListenerType
  <2>3. SessionInv'
    BY <1>12 DEF eventVars, SessionInv, ListenerType, SocketInv
  <2>4. SentInv'
    BY <1>12 DEF eventVars, SentInv, ListenerType
  <2>5. ReceivedIsReal'
    BY <1>12 DEF eventVars, ReceivedIsReal, ListenerType, SentInv
  <2> QED
    BY <2>1, <2>2, <2>3, <2>4, <2>5
<1> QED
  BY <1>1, <1>2, <1>3, <1>4, <1>5, <1>6, <1>7, <1>8, <1>9, <1>10, <1>11, <1>12
     DEF EventsNext, Listens

\* A monitor says that it received an entry only if one was sent to it after it
\* registered, opens a socket only with a session that was accepted, and no
\* socket is open when a call of a listener is over.
THEOREM ListenersAreTruthful == EventsSpec => []ListenersTruthful
<1>1. EventsInv => ListenersTruthful
  BY DEF EventsInv, ListenerType, SocketInv, SessionInv, ListenersTruthful, MonitorLoggedIn,
    SocketsClosed
<1> QED
  BY EventsInvInit, EventsInvStep, <1>1, PTL DEF EventsSpec

-----------------------------------------------------------------------------
(* Jobs *)

JobRecord == [state : JobStates, key : Nat, status : BOOLEAN]
Entry(j)  == [key |-> jobs[j].key, status |-> jobs[j].status]

\* The types of the variables.
JobsType ==
  /\ by \in {"pid", "time"} /\ num_process \in 0..MaxJobs
  /\ started \in 0..num_process /\ joined \in 0..num_process /\ ticks \in Nat
JobsFun == jobs \in [Job -> JobRecord]

\* Before the call nothing is keyed by the clock; a job above the count is not
\* yet started, and one that was joined is over.
IdleInv == num_process = 0 => by = "pid"
JoinInv == \A j \in Job : j <= joined => Over(j)

\* A process that is keyed by its pid has a key of its own.
KeyInv == by = "pid" => \A j \in Job : jobs[j].state \in {"runs", "ran", "ended"} => jobs[j].key = j

\* The entries are those of the jobs that ended, but for those that share a
\* reading of the clock.
EntryInv == by = "pid" => return_dict = {Entry(j) : j \in EndedJobs}
MissInv ==
  \A j \in EndedJobs :
    \/ Entry(j) \in return_dict
    \/ by = "time" /\ \E i \in EndedJobs \ {j} : jobs[i].key = jobs[j].key

JobsInv == JobsType /\ JobsFun /\ IdleInv /\ JoinInv /\ KeyInv /\ EntryInv /\ MissInv

\* A job is a positive number, and none is over unless its state says so.
LEMMA JobIsNumber == Job \subseteq Nat \ {0} /\ \A n \in 0..MaxJobs : \A i \in 1..n : i \in Job
BY JobsAssumption DEF Job

\* Before the call no job has begun.
LEMMA JobsInvInit == JobsInit => JobsInv
<1> SUFFICES ASSUME JobsInit PROVE JobsInv
  OBVIOUS
<1>1. JobsType
  BY JobsAssumption DEF JobsInit, JobsType
<1>2. JobsFun /\ \A j \in Job : jobs[j].state = "unborn"
  BY DEF JobsInit, JobsFun, JobRecord, JobStates
<1>3. IdleInv
  BY DEF JobsInit, IdleInv
<1>4. \A j \in Job : ~(j <= joined)
  BY JobIsNumber DEF JobsInit
<1>5. JoinInv
  BY <1>4 DEF JoinInv
<1>6. EndedJobs = {}
  BY <1>2 DEF EndedJobs
<1>7. KeyInv /\ EntryInv /\ MissInv
  BY <1>2, <1>6 DEF JobsInit, KeyInv, EntryInv, MissInv
<1> QED
  BY <1>1, <1>2, <1>3, <1>5, <1>7 DEF JobsInv

\* A step that changes the state of one job that is not over, and neither the
\* call nor its entries, keeps the invariant.
LEMMA JobStep ==
  ASSUME JobsInv, JobsType', NEW j \in Job, NEW c \in JobRecord, jobs' = [jobs EXCEPT ![j] = c],
         ~Over(j), c.state # "ended", joined' = joined, by' = by, num_process' = num_process,
         return_dict' = return_dict,
         by = "pid" /\ c.state \in {"runs", "ran"} => c.key = j
  PROVE  JobsInv'
<1>1. JobsFun' /\ jobs'[j] = c /\ \A i \in Job : i # j => jobs'[i] = jobs[i]
  BY DEF JobsInv, JobsFun
<1>2. IdleInv'
  BY DEF JobsInv, IdleInv
<1>3. JoinInv'
  BY <1>1 DEF JobsInv, JoinInv, Over
<1>4. KeyInv'
  BY <1>1 DEF JobsInv, KeyInv
<1>5. EndedJobs' = EndedJobs /\ j \notin EndedJobs
  BY <1>1 DEF EndedJobs, Over
<1>6. \A i \in EndedJobs : i \in Job /\ jobs'[i] = jobs[i]
  BY <1>1, <1>5 DEF EndedJobs
<1>7. \A i \in EndedJobs : Entry(i)' = Entry(i)
  BY <1>6 DEF Entry
<1>8. EntryInv'
  BY <1>5, <1>7 DEF JobsInv, EntryInv
<1>9. MissInv'
  BY <1>5, <1>6, <1>7 DEF JobsInv, MissInv
<1> QED
  BY <1>1, <1>2, <1>3, <1>4, <1>8, <1>9 DEF JobsInv

\* A job that stores its status keeps the invariant: what it overwrites has its
\* own key.
LEMMA JobStored ==
  ASSUME JobsInv, JobsType', NEW j \in Job, execute_keyword(j)
  PROVE  JobsInv'
<1> DEFINE c == [jobs[j] EXCEPT !.state = "ended"]
<1>1. /\ jobs' = [jobs EXCEPT ![j] = c] /\ jobs[j].state = "ran"
      /\ UNCHANGED <<by, num_process, joined>> /\ return_dict' = Stored(j)
  BY DEF execute_keyword, Move
<1>2. jobs \in [Job -> JobRecord] /\ jobs[j] \in JobRecord
  BY DEF JobsInv, JobsFun
<1>3. c \in JobRecord /\ c.state = "ended" /\ c.key = jobs[j].key /\ c.status = jobs[j].status
  BY <1>2 DEF JobRecord, JobStates
<1> HIDE DEF c
<1>4. JobsFun' /\ jobs'[j] = c /\ \A i \in Job : i # j => jobs'[i] = jobs[i]
  BY <1>1, <1>2, <1>3 DEF JobsFun
<1>5. IdleInv'
  BY <1>1 DEF JobsInv, IdleInv
<1>6. JoinInv'
  BY <1>1, <1>3, <1>4 DEF JobsInv, JoinInv, Over
<1>7. KeyInv'
  BY <1>1, <1>3, <1>4 DEF JobsInv, KeyInv
<1>8. EndedJobs' = EndedJobs \cup {j} /\ j \notin EndedJobs /\ EndedJobs \subseteq Job
  BY <1>1, <1>3, <1>4 DEF EndedJobs
<1>9. \A i \in EndedJobs \cup {j} : Entry(i)' = Entry(i) /\ jobs'[i].key = jobs[i].key
  BY <1>3, <1>4, <1>8 DEF Entry
<1>10. return_dict' = {r \in return_dict : r.key # jobs[j].key} \cup {Entry(j)}
  BY <1>1 DEF Stored, Entry
<1>11. \A i \in Job : Entry(i).key = jobs[i].key
  BY DEF Entry
<1>12. EntryInv'
  <2> SUFFICES ASSUME by = "pid" PROVE return_dict' = {Entry(i) : i \in EndedJobs} \cup {Entry(j)}
    BY <1>1, <1>8, <1>9 DEF EntryInv
  <2>1. jobs[j].key = j /\ \A i \in EndedJobs : jobs[i].key = i /\ i # j
    BY <1>1, <1>8 DEF JobsInv, KeyInv, EndedJobs
  <2>2. return_dict = {Entry(i) : i \in EndedJobs}
    BY DEF JobsInv, EntryInv
  <2>3. \A r \in return_dict : r.key # jobs[j].key
    BY <1>8, <1>11, <2>1, <2>2
  <2> QED
    BY <1>10, <2>2, <2>3
<1>13. MissInv'
  <2> SUFFICES ASSUME NEW k \in EndedJobs'
               PROVE  \/ Entry(k)' \in return_dict'
                      \/ by' = "time" /\ \E i \in EndedJobs' \ {k} : jobs'[i].key = jobs'[k].key
    BY DEF MissInv
  <2> SUFFICES \/ Entry(k) \in return_dict'
               \/ by = "time" /\ \E i \in (EndedJobs \cup {j}) \ {k} : jobs[i].key = jobs[k].key
    BY <1>1, <1>8, <1>9
  <2>1. CASE k = j
    BY <1>10, <2>1
  <2>2. CASE k # j /\ jobs[k].key # jobs[j].key
    <3>1. Entry(k).key # jobs[j].key /\ k \in EndedJobs
      BY <1>8, <1>11, <2>2
    <3>2. CASE Entry(k) \in return_dict
      BY <1>10, <3>1, <3>2
    <3>3. CASE by = "time" /\ \E i \in EndedJobs \ {k} : jobs[i].key = jobs[k].key
      BY <3>3
    <3> QED
      BY <3>1, <3>2, <3>3 DEF JobsInv, MissInv
  <2>3. CASE k # j /\ jobs[k].key = jobs[j].key
    <3>1. by # "pid"
      <4>1. by = "pid" => jobs[k].key = k /\ jobs[j].key = j
        BY <1>1, <1>8, <2>3 DEF JobsInv, KeyInv, EndedJobs
      <4> QED
        BY <2>3, <4>1
    <3> QED
      BY <2>3, <3>1 DEF JobsInv, JobsType
  <2> QED
    BY <2>1, <2>2, <2>3
<1> QED
  BY <1>4, <1>5, <1>6, <1>7, <1>12, <1>13 DEF JobsInv

\* Every step of the caller, a process or the clock keeps the invariant.
LEMMA JobsInvStep == JobsInv /\ [JobsNext]_jobVars => JobsInv'
<1> SUFFICES ASSUME JobsInv, [JobsNext]_jobVars
             PROVE  JobsInv'
  OBVIOUS
<1>fun. jobs \in [Job -> JobRecord] /\ JobsType
  BY DEF JobsInv, JobsFun
<1>1. ASSUME NEW n \in Job, execute_process(n) \/ execute_process_multi_keyword(n) PROVE JobsInv'
  <2>1. /\ num_process = 0 /\ num_process' = n /\ by' \in {"pid", "time"} /\ by = "pid"
        /\ UNCHANGED <<started, jobs, ticks, return_dict, joined>>
    BY <1>1 DEF execute_process, execute_process_multi_keyword, JobsInv, IdleInv
  <2>2. JobsType' /\ num_process' # 0
    BY <1>fun, <2>1, JobsAssumption DEF JobsType, Job
  <2>3. JobsFun' /\ IdleInv' /\ JoinInv'
    BY <2>1, <2>2 DEF JobsInv, JobsFun, IdleInv, JoinInv, Over
  <2>4. KeyInv' /\ EntryInv' /\ MissInv'
    BY <2>1 DEF JobsInv, KeyInv, EntryInv, MissInv, EndedJobs, Entry
  <2> QED
    BY <2>2, <2>3, <2>4 DEF JobsInv
<1>2. CASE StartJob
  <2> DEFINE j == started + 1
             c == [jobs[j] EXCEPT !.state = "begins"]
  <2>1. /\ started < num_process /\ started' = started + 1 /\ jobs[j].state = "unborn"
        /\ jobs' = [jobs EXCEPT ![j] = c]
        /\ UNCHANGED <<by, num_process, ticks, return_dict, joined>>
    BY <1>2 DEF StartJob, Move
  <2>2. JobsType' /\ j \in Job
    BY <1>fun, <2>1, JobsAssumption DEF JobsType, Job
  <2> HIDE DEF j
  <2>3. jobs[j] \in JobRecord
    BY <1>fun, <2>2
  <2>4. c \in JobRecord /\ c.state = "begins"
    BY <2>3 DEF JobRecord, JobStates
  <2> HIDE DEF c
  <2>5. ~Over(j)
    BY <2>1 DEF Over
  <2> QED
    BY <2>1, <2>2, <2>4, <2>5, JobStep
<1>3. CASE Tick
  <2>1. JobsType'
    BY <1>3, <1>fun DEF Tick, JobsType
  <2>2. UNCHANGED <<by, num_process, jobs, return_dict, joined>>
    BY <1>3 DEF Tick
  <2> QED
    BY <2>1, <2>2 DEF JobsInv, JobsFun, IdleInv, JoinInv, Over, KeyInv, EntryInv, MissInv,
      EndedJobs, Entry
<1>4. CASE Join
  <2>1. /\ joined < num_process /\ Over(joined + 1) /\ joined' = joined + 1
        /\ UNCHANGED <<by, num_process, started, jobs, ticks, return_dict>>
    BY <1>4 DEF Join
  <2>2. JobsType'
    BY <1>fun, <2>1 DEF JobsType
  <2>3. \A i \in Job : i <= joined' => i <= joined \/ i = joined + 1
    BY <1>fun, <2>1, JobIsNumber DEF JobsType
  <2>4. JoinInv'
    BY <2>1, <2>3 DEF JobsInv, JoinInv, Over
  <2>5. JobsFun' /\ IdleInv' /\ KeyInv' /\ EntryInv' /\ MissInv'
    BY <2>1 DEF JobsInv, JobsFun, IdleInv, KeyInv, EntryInv, MissInv, EndedJobs, Entry
  <2> QED
    BY <2>2, <2>4, <2>5 DEF JobsInv
<1>5. ASSUME NEW j \in Job, TakeKey(j) PROVE JobsInv'
  <2> DEFINE k == KeyOf(j)
             c == [jobs[j] EXCEPT !.state = "runs", !.key = k]
  <2>1. /\ jobs[j].state = "begins" /\ jobs' = [jobs EXCEPT ![j] = c]
        /\ UNCHANGED <<by, num_process, started, ticks, return_dict, joined>>
    BY <1>5 DEF TakeKey
  <2>2. k \in Nat /\ (by = "pid" => k = j)
    BY <1>fun, JobIsNumber DEF KeyOf, JobsType
  <2> HIDE DEF k
  <2>3. jobs[j] \in JobRecord
    BY <1>fun
  <2>4. c \in JobRecord /\ c.state = "runs" /\ c.key = k
    BY <2>2, <2>3 DEF JobRecord, JobStates
  <2> HIDE DEF c
  <2>5. ~Over(j) /\ JobsType'
    BY <1>fun, <2>1 DEF Over, JobsType
  <2> QED
    BY <2>1, <2>2, <2>4, <2>5, JobStep
<1>6. ASSUME NEW j \in Job, KeywordEnds(j) PROVE JobsInv'
  <2>1. PICK s \in BOOLEAN : jobs' = [jobs EXCEPT ![j] = [jobs[j] EXCEPT !.state = "ran", !.status = s]]
    BY <1>6 DEF KeywordEnds
  <2> DEFINE c == [jobs[j] EXCEPT !.state = "ran", !.status = s]
  <2>2. jobs[j].state = "runs" /\ UNCHANGED <<by, num_process, started, ticks, return_dict, joined>>
    BY <1>6 DEF KeywordEnds
  <2>3. jobs[j] \in JobRecord /\ (by = "pid" => jobs[j].key = j)
    BY <1>fun, <2>2 DEF JobsInv, KeyInv
  <2>4. c \in JobRecord /\ c.state = "ran" /\ c.key = jobs[j].key
    BY <2>3 DEF JobRecord, JobStates
  <2>5. jobs' = [jobs EXCEPT ![j] = c]
    BY <2>1
  <2> HIDE DEF c
  <2>6. ~Over(j) /\ JobsType'
    BY <1>fun, <2>2 DEF Over, JobsType
  <2> QED
    BY <2>2, <2>3, <2>4, <2>5, <2>6, JobStep
<1>7. ASSUME NEW j \in Job, execute_keyword(j) PROVE JobsInv'
  <2>1. JobsType'
    BY <1>fun, <1>7 DEF execute_keyword, JobsType
  <2> QED
    BY <1>7, <2>1, JobStored
<1>8. ASSUME NEW j \in Job, Killed(j) PROVE JobsInv'
  <2> DEFINE c == [jobs[j] EXCEPT !.state = "killed"]
  <2>1. /\ jobs[j].state \in {"begins", "runs", "ran"} /\ jobs' = [jobs EXCEPT ![j] = c]
        /\ UNCHANGED <<by, num_process, started, ticks, return_dict, joined>>
    BY <1>8 DEF Killed, Move
  <2>2. jobs[j] \in JobRecord
    BY <1>fun
  <2>3. c \in JobRecord /\ c.state = "killed"
    BY <2>2 DEF JobRecord, JobStates
  <2> HIDE DEF c
  <2>4. ~Over(j) /\ JobsType'
    BY <1>fun, <2>1 DEF Over, JobsType
  <2> QED
    BY <2>1, <2>3, <2>4, JobStep
<1>9. CASE UNCHANGED jobVars
  BY <1>9 DEF jobVars, JobsInv, JobsType, JobsFun, IdleInv, JoinInv, Over, KeyInv, EntryInv,
    MissInv, EndedJobs, Entry
<1> QED
  BY <1>1, <1>2, <1>3, <1>4, <1>5, <1>6, <1>7, <1>8, <1>9 DEF JobsNext, JobSteps

\* Jobs that ended under keys of their own have as many entries as there are of
\* them.
LEMMA EntriesCounted ==
  JobsInv /\ by = "pid" => Cardinality({Entry(j) : j \in EndedJobs}) = Cardinality(EndedJobs)
<1> SUFFICES ASSUME JobsInv, by = "pid"
             PROVE  Cardinality({Entry(j) : j \in EndedJobs}) = Cardinality(EndedJobs)
  OBVIOUS
<1> DEFINE f == [j \in EndedJobs |-> Entry(j)]
           T == {Entry(j) : j \in EndedJobs}
<1>1. IsFiniteSet(EndedJobs)
  <2>1. IsFiniteSet(Job)
    BY JobsAssumption, FS_Interval DEF Job
  <2>2. EndedJobs \subseteq Job
    BY DEF EndedJobs
  <2> QED
    BY <2>1, <2>2, FS_Subset
<1>2. \A i, j \in EndedJobs : Entry(i) = Entry(j) => i = j
  BY DEF JobsInv, KeyInv, EndedJobs, Entry
<1>3. f \in Bijection(EndedJobs, T)
  BY <1>2, Fun_IsBij
<1> QED
  BY <1>1, <1>3, FS_Bijection DEF ExistsBijection

\* The caller gets the status of every process that came to its end, each under
\* its own pid, or but for those that read the same time.
THEOREM StatusesAreReturned == JobsSpec => []StatusesReturned
<1>1. JobsInv => EveryStatus
  <2> SUFFICES ASSUME JobsInv, Returned, by = "pid"
               PROVE  /\ return_dict = {Entry(j) : j \in EndedJobs}
                      /\ Cardinality(return_dict) = Cardinality(EndedJobs)
                      /\ \A j \in 1..num_process : jobs[j].state \in {"ended", "killed"}
    BY DEF EveryStatus, Entry
  <2>1. return_dict = {Entry(j) : j \in EndedJobs}
    BY DEF JobsInv, EntryInv
  <2>2. \A j \in 1..num_process : j \in Job /\ j <= joined
    BY JobIsNumber DEF JobsInv, JobsType, Returned
  <2>3. \A j \in 1..num_process : Over(j)
    BY <2>2 DEF JobsInv, JoinInv
  <2> QED
    BY <2>1, <2>3, EntriesCounted DEF Over
<1>2. JobsInv => MissingOnlyIfSameTime
  BY DEF JobsInv, MissInv, Entry, MissingOnlyIfSameTime
<1> QED
  BY JobsInvInit, JobsInvStep, <1>1, <1>2, PTL DEF JobsSpec, StatusesReturned

-----------------------------------------------------------------------------
(* Redfish *)

\* Each call of login makes two sessions at most, and those of the call that
\* is under way are not yet all made.
LoginInv ==
  /\ made \in Nat /\ calls \in Nat /\ tries \in 0..2
  /\ session \in 0..made /\ live \subseteq 1..made /\ made <= 2 * calls
  /\ pc = "login" => tries <= 1 /\ made + 2 <= 2 * calls + tries

\* No session is made before the first call.
LEMMA LoginInvInit == RedfishInit => LoginInv
BY DEF RedfishInit, LoginInv

\* Every login, successful or not, keeps the bound.
LEMMA LoginInvStep == LoginInv /\ [RedfishNext]_redfishVars => LoginInv'
<1> SUFFICES ASSUME LoginInv, [RedfishNext]_redfishVars
             PROVE  LoginInv'
  OBVIOUS
<1> USE DEF LoginInv, client, bmc
<1>1. CASE bmc_redfish_init
  BY <1>1 DEF bmc_redfish_init
<1>2. CASE login
  <2>1. calls' = calls + 1 /\ tries' = 0 /\ UNCHANGED <<made, session, live>>
    BY <1>2 DEF login
  <2>2. made \in Nat /\ calls \in Nat /\ made <= 2 * calls
    OBVIOUS
  <2>3. made + 2 <= 2 * (calls + 1) + 0 /\ made <= 2 * (calls + 1) /\ calls + 1 \in Nat
    BY <2>2
  <2> QED
    BY <2>1, <2>3
<1>3. CASE LoginWorks
  <2>1. /\ pc = "login" /\ pc' = "idle" /\ made' = made + 1 /\ session' = made'
        /\ live' = live \cup {made'} /\ tries' = tries + 1 /\ calls' = calls
    BY <1>3 DEF LoginWorks
  <2> QED
    BY <2>1
<1>4. CASE LoginFails
  <2>1. /\ pc = "login" /\ tries' = tries + 1 /\ calls' = calls /\ session' = session
        /\ \/ made' = made + 1 /\ live' = live \cup {made'}
           \/ made' = made /\ live' = live
        /\ pc' = "login" => tries = 0
    BY <1>4 DEF LoginFails
  <2>2. /\ made \in Nat /\ calls \in Nat /\ tries \in 0..1
        /\ session \in 0..made /\ live \subseteq 1..made /\ made + 2 <= 2 * calls + tries
    BY <2>1
  <2>3. tries' \in 0..2 /\ calls' \in Nat /\ (pc' = "login" => tries' = 1)
    BY <2>1, <2>2
  <2>4. CASE made' = made + 1 /\ live' = live \cup {made'}
    <3>1. /\ made' \in Nat /\ session' \in 0..made' /\ live' \subseteq 1..made' /\ made' <= 2 * calls'
          /\ tries = 0 => made' + 2 <= 2 * calls' + 1
      BY <2>1, <2>2, <2>4
    <3>2. ASSUME pc' = "login" PROVE tries' <= 1 /\ made' + 2 <= 2 * calls' + tries'
      <4>1. tries = 0 /\ tries' = 1
        BY <2>1, <2>3, <3>2
      <4>2. made' + 2 <= 2 * calls' + 1
        BY <3>1, <4>1
      <4> QED
        BY <4>1, <4>2
    <3> QED
      BY <2>3, <3>1, <3>2
  <2>5. CASE made' = made /\ live' = live
    <3>1. made' <= 2 * calls' /\ (tries = 0 => made' + 2 <= 2 * calls' + 1)
      BY <2>1, <2>2, <2>5
    <3> QED
      BY <2>1, <2>2, <2>3, <2>5, <3>1
  <2> QED
    BY <2>1, <2>4, <2>5
<1>5. CASE logout
  <2>1. /\ calls' = calls + 1 /\ session' = 0 /\ live' \subseteq live /\ pc' = "idle"
        /\ UNCHANGED <<made, tries>>
    BY <1>5 DEF logout
  <2> QED
    BY <2>1
<1>6. CASE enumerate \/ list_request
  <2>1. calls' = calls + 1 /\ pc' # "login" /\ UNCHANGED <<session, live, made, tries>>
    BY <1>6 DEF enumerate, list_request
  <2> QED
    BY <2>1
<1>7. ASSUME NEW r \in todo, Skips(r) \/ Fetch(r) \/ ListFetch(r) PROVE LoginInv'
  <2>1. pc' # "login" /\ UNCHANGED <<session, live, made, tries, calls>>
    BY <1>7 DEF Skips, Fetch, ListFetch
  <2> QED
    BY <2>1
<1>8. CASE NextRound \/ ListDone
  <2>1. pc' # "login" /\ UNCHANGED <<session, live, made, tries, calls>>
    BY <1>8 DEF NextRound, ListDone
  <2> QED
    BY <2>1
<1>9. CASE BmcChanges
  <2>1. pc' = pc /\ live' \subseteq live /\ UNCHANGED <<session, made, tries, calls>>
    BY <1>9 DEF BmcChanges
  <2> QED
    BY <2>1
<1>10. CASE UNCHANGED redfishVars
  BY <1>10 DEF redfishVars
<1> QED
  BY <1>1, <1>2, <1>3, <1>4, <1>5, <1>6, <1>7, <1>8, <1>9, <1>10 DEF RedfishNext

\* What the variables of a walk hold.
WalkType ==
  /\ pc \in {"new", "idle", "login", "walk", "list", "end"}
  /\ asked \in Names \X BOOLEAN
  /\ pending \subseteq Names \X BOOLEAN /\ todo \subseteq pending \cup {asked}
  /\ result \subseteq Names /\ dead \subseteq fetched /\ fetched \subseteq Names \X BOOLEAN

\* A call that is under way has no outcome yet.
PhaseInv == outcome \in {"enumerated", "listed"} => pc = "idle"

\* What was requested is not to be requested again.
OnceInv == FetchedOnce /\ (pc = "walk" => fetched \subseteq enumerated)

\* In a walk of its own, the names with data were requested and answered.
AnsweredInv == Fresh => \A n \in result : \E b \in BOOLEAN : <<n, b>> \in fetched \ dead

Walked == pc = "walk" \/ outcome = "enumerated"

\* A walk has requested all it has looked at, but for what it leaves out, and
\* has still to look at all that the answers name.
LookedAtInv ==
  Walked =>
    /\ asked \in pending /\ todo \subseteq pending
    /\ \A r \in enumerated : r \in fetched \/ r[1] \in Unwalked(caller)
    /\ Fresh => \A n \in result : walk_nested_dict(n) \subseteq pending
    /\ steady => dead = {}
    /\ outcome = "enumerated" => pending \subseteq enumerated

\* A walk of its own has nothing to request that no answer named.
NamedInv ==
  Walked /\ Fresh =>
    \A r \in pending : r = asked \/ \E n \in result : r \in walk_nested_dict(n)

\* Whatever a walk has come across can be reached from where it started.
ReachedInv ==
  Walked /\ Fresh =>
    /\ result \cap Unwalked(caller) = {}
    /\ \A names \in SUBSET Names :
         Closed(names) => result \subseteq names /\ \A r \in pending : r[1] \in names

\* A list requests nothing of a walk, and holds the links of the resource and
\* of those of its links that were asked for.
ListNoneInv == pc = "list" => fetched = {}
LinksOf(resources) == UNION {ListLinks(r) : r \in resources}
ListInv ==
  pc = "list" =>
    \/ enumerated = {} /\ pending = {} /\ todo \subseteq {asked} /\ (steady => todo = {asked})
    \/ /\ enumerated = {asked} /\ todo \subseteq ListLinks(asked)
       /\ steady => pending = ListLinks(asked) \cup LinksOf(ListLinks(asked) \ todo)

WalkInv ==
  /\ WalkType /\ PhaseInv /\ OnceInv /\ NothingLost /\ AnsweredInv
  /\ LookedAtInv /\ NamedInv /\ ReachedInv /\ ListNoneInv /\ ListInv /\ ListComplete

\* The links of a resource are resources.
LEMMA LinksAreResources ==
  \A n \in Names : walk_nested_dict(n) \subseteq Names \X BOOLEAN
<1> SUFFICES ASSUME NEW n \in Names PROVE walk_nested_dict(n) \subseteq Names \X BOOLEAN
  OBVIOUS
<1>1. Nested(n) \subseteq Names /\ Members(n) \subseteq Names \X BOOLEAN
  BY RedfishAssumption
<1>2. \A m \in Names : <<m, FALSE>> \in Names \X BOOLEAN
  OBVIOUS
<1> QED
  BY <1>1, <1>2 DEF walk_nested_dict

\* Nothing has been requested before the first call.
LEMMA WalkInvInit == RedfishInit => WalkInv
<1> SUFFICES ASSUME RedfishInit PROVE WalkInv
  OBVIOUS
<1>1. Root \in Names
  BY RedfishAssumption
<1>2. <<Root, TRUE>> \in Names \X BOOLEAN
  BY <1>1
<1>3. WalkType
  BY <1>2 DEF RedfishInit, WalkType
<1>4. PhaseInv /\ OnceInv /\ NothingLost /\ AnsweredInv
  BY DEF RedfishInit, PhaseInv, OnceInv, FetchedOnce, NothingLost, AnsweredInv
<1>5. LookedAtInv /\ NamedInv /\ ReachedInv /\ ListNoneInv /\ ListInv /\ ListComplete
  BY DEF RedfishInit, Walked, LookedAtInv, NamedInv, ReachedInv, ListNoneInv, ListInv, ListComplete
<1> QED
  BY <1>3, <1>4, <1>5 DEF WalkInv

\* A step outside a walk, and a change of the BMC, keep what the last walk or
\* list has left.
LEMMA WalkLeft ==
  ASSUME WalkInv, UNCHANGED <<walk, asked, caller>>,
         steady' => steady,
         \/ /\ pc' \in {"new", "idle", "login", "end"} /\ pc \notin {"walk", "list"}
            /\ outcome' = outcome /\ pc # "idle"
         \/ /\ pc' \in {"idle", "login"} /\ outcome' \notin {"enumerated", "listed"}
         \/ pc' = pc /\ outcome' = outcome
  PROVE  WalkInv'
<1> USE DEF WalkInv, walk
<1>1. WalkType' /\ PhaseInv' /\ OnceInv'
  BY DEF WalkType, PhaseInv, OnceInv, FetchedOnce
<1>2. (Walked' => Walked) /\ (pc' = "list" => pc = "list") /\ (outcome' = "listed" => outcome = "listed")
  BY DEF Walked
<1>3. (outcome' = "enumerated" => outcome = "enumerated") /\ Fresh' = Fresh
  BY DEF Fresh
<1>4. NothingLost' /\ AnsweredInv'
  BY <1>2, <1>3 DEF NothingLost, AnsweredInv, Walked
<1>5. LookedAtInv' /\ NamedInv'
  BY <1>2, <1>3 DEF LookedAtInv, NamedInv, walk_nested_dict
<1>6. \A names : Closed(names)' = Closed(names)
  BY DEF Closed, Linked
<1>7. ReachedInv'
  BY <1>2, <1>3, <1>6 DEF ReachedInv
<1>8. ListNoneInv' /\ ListInv' /\ ListComplete'
  BY <1>2 DEF ListNoneInv, ListInv, ListComplete, LinksOf, ListLinks, walk_nested_dict
<1> QED
  BY <1>1, <1>4, <1>5, <1>7, <1>8

\* What a request of a walk does: an answer, no answer, or an exception.
LEMMA FetchCases ==
  ASSUME NEW r \in todo, Fetch(r)
  PROVE  /\ pc = "walk" /\ r[1] \notin Unwalked(caller)
         /\ todo' = todo \ {r} /\ enumerated' = enumerated \cup {r}
         /\ fetched' = fetched \cup {r} /\ UNCHANGED <<caller, asked>>
         /\ \/ Answered(r) /\ UNCHANGED <<pc, outcome>>
            \/ NoAnswer(r) /\ UNCHANGED <<pc, outcome>>
            \/ pc' = "idle" /\ outcome' = "raised" /\ UNCHANGED <<pending, result, dead, steady>>
BY DEF Fetch

\* A request of a walk keeps the invariant.
LEMMA FetchStep ==
  ASSUME WalkInv, NEW r \in todo, Fetch(r)
  PROVE  WalkInv'
<1> USE DEF WalkInv
<1>1. /\ pc = "walk" /\ r[1] \notin Unwalked(caller)
      /\ todo' = todo \ {r} /\ enumerated' = enumerated \cup {r}
      /\ fetched' = fetched \cup {r} /\ UNCHANGED <<caller, asked>>
  BY FetchCases
<1>2. r \in Names \X BOOLEAN /\ r[1] \in Names /\ r[2] \in BOOLEAN /\ r = <<r[1], r[2]>>
  BY DEF WalkType
<1>3. r \notin fetched /\ r \notin dead /\ r \in pending /\ outcome # "listed" /\ outcome # "enumerated"
  BY <1>1 DEF OnceInv, FetchedOnce, WalkType, LookedAtInv, Walked, PhaseInv
<1>4. Fresh' = Fresh /\ \A names : Closed(names)' = Closed(names)
  BY <1>1 DEF Fresh, Closed, Linked
<1>5. CASE Answered(r) /\ UNCHANGED <<pc, outcome>>
  <2>1. /\ pending' = pending \cup walk_nested_dict(r[1]) /\ result' = result \cup {r[1]}
        /\ dead' = dead /\ steady' = steady
    BY <1>5 DEF Answered
  <2>2. walk_nested_dict(r[1]) \subseteq Names \X BOOLEAN
    BY <1>2, LinksAreResources
  <2>3. WalkType' /\ PhaseInv' /\ OnceInv'
    BY <1>1, <1>2, <1>5, <2>1, <2>2 DEF WalkType, PhaseInv, OnceInv, FetchedOnce
  <2>4. NothingLost'
    <3>1. \A s \in fetched' : s \in dead' \/ s[1] \in result'
      BY <1>1, <2>1 DEF NothingLost
    <3>2. Fresh => r = asked \/ \E n \in result : r \in walk_nested_dict(n)
      BY <1>1, <1>3 DEF NamedInv, Walked
    <3> QED
      BY <1>1, <1>4, <2>1, <3>1, <3>2 DEF NothingLost, walk_nested_dict
  <2>5. AnsweredInv'
    BY <1>1, <1>2, <1>3, <1>4, <2>1 DEF AnsweredInv
  <2>6. LookedAtInv' /\ NamedInv'
    <3>1. LookedAtInv'
      BY <1>1, <1>3, <1>4, <1>5, <2>1 DEF LookedAtInv, Walked, walk_nested_dict
    <3>2. NamedInv'
      BY <1>1, <1>3, <1>4, <1>5, <2>1 DEF NamedInv, Walked, walk_nested_dict
    <3> QED
      BY <3>1, <3>2
  <2>7. ReachedInv'
    <3> SUFFICES ASSUME Fresh
                 PROVE  /\ result' \cap Unwalked(caller) = {}
                        /\ \A names \in SUBSET Names :
                             Closed(names) => result' \subseteq names /\ \A s \in pending' : s[1] \in names
      BY <1>1, <1>4 DEF ReachedInv
    <3>1. result' \cap Unwalked(caller) = {}
      BY <1>1, <2>1 DEF ReachedInv, Walked
    <3>2. ASSUME NEW names \in SUBSET Names, Closed(names)
          PROVE  result' \subseteq names /\ \A s \in pending' : s[1] \in names
      <4>1. result \subseteq names /\ (\A s \in pending : s[1] \in names) /\ r[1] \in names
        BY <1>1, <1>3, <3>2 DEF ReachedInv, Walked
      <4>2. \A s \in walk_nested_dict(r[1]) : s[1] \in Linked(names)
        <5>1. r[1] \in names \ Unwalked(caller)
          BY <1>1, <4>1
        <5>2. Nested(r[1]) \cup {m[1] : m \in Members(r[1])} \subseteq Linked(names)
          BY <5>1 DEF Linked
        <5>3. \A s \in walk_nested_dict(r[1]) :
                s[1] \in Nested(r[1]) \cup {m[1] : m \in Members(r[1])}
          <6>1. ASSUME NEW n \in Nested(r[1]) PROVE <<n, FALSE>>[1] \in Nested(r[1])
            BY <6>1
          <6>2. ASSUME NEW s \in Members(r[1]) PROVE s[1] \in {m[1] : m \in Members(r[1])}
            OBVIOUS
          <6> QED
            BY <6>1, <6>2 DEF walk_nested_dict
        <5> QED
          BY <5>2, <5>3
      <4> QED
        BY <2>1, <3>2, <4>1, <4>2 DEF Closed
    <3> QED
      BY <3>1, <3>2
  <2>8. ListNoneInv' /\ ListInv' /\ ListComplete'
    BY <1>1, <1>3, <1>5 DEF ListNoneInv, ListInv, ListComplete
  <2> QED
    BY <2>3, <2>4, <2>5, <2>6, <2>7, <2>8
<1>6. CASE NoAnswer(r) /\ UNCHANGED <<pc, outcome>>
  <2>1. dead' = dead \cup {r} /\ steady' = FALSE /\ pending' = pending /\ result' = result
    BY <1>6 DEF NoAnswer
  <2>2. WalkType' /\ PhaseInv' /\ OnceInv'
    BY <1>1, <1>2, <1>6, <2>1 DEF WalkType, PhaseInv, OnceInv, FetchedOnce
  <2>3. NothingLost'
    <3>1. \A s \in fetched' : s \in dead' \/ s[1] \in result'
      BY <1>1, <2>1 DEF NothingLost
    <3>2. Fresh => r = asked \/ \E n \in result : r \in walk_nested_dict(n)
      BY <1>1, <1>3 DEF NamedInv, Walked
    <3> QED
      BY <1>1, <1>4, <2>1, <3>1, <3>2 DEF NothingLost, walk_nested_dict
  <2>4. AnsweredInv'
    BY <1>1, <1>2, <1>3, <1>4, <2>1 DEF AnsweredInv
  <2>5. LookedAtInv'
    BY <1>1, <1>3, <1>4, <1>6, <2>1 DEF LookedAtInv, Walked, walk_nested_dict
  <2>6. NamedInv'
    BY <1>1, <1>3, <1>4, <1>6, <2>1 DEF NamedInv, Walked, walk_nested_dict
  <2>7. ReachedInv'
    BY <1>1, <1>4, <2>1 DEF ReachedInv, Walked
  <2>8. ListNoneInv' /\ ListInv' /\ ListComplete'
    BY <1>1, <1>3, <1>6 DEF ListNoneInv, ListInv, ListComplete
  <2> QED
    BY <2>2, <2>3, <2>4, <2>5, <2>6, <2>7, <2>8
<1>7. CASE pc' = "idle" /\ outcome' = "raised" /\ UNCHANGED <<pending, result, dead, steady>>
  <2>1. WalkType' /\ PhaseInv' /\ OnceInv'
    BY <1>1, <1>2, <1>7 DEF WalkType, PhaseInv, OnceInv, FetchedOnce
  <2>2. NothingLost'
    <3>1. Fresh => r = asked \/ \E n \in result : r \in walk_nested_dict(n)
      BY <1>1, <1>3 DEF NamedInv, Walked
    <3> QED
      BY <1>1, <1>4, <1>7, <3>1 DEF NothingLost, walk_nested_dict
  <2>3. AnsweredInv'
    BY <1>1, <1>2, <1>3, <1>4, <1>7 DEF AnsweredInv
  <2>4. LookedAtInv' /\ NamedInv' /\ ReachedInv' /\ ListNoneInv' /\ ListInv' /\ ListComplete'
    BY <1>7 DEF LookedAtInv, NamedInv, ReachedInv, Walked, ListNoneInv, ListInv, ListComplete
  <2> QED
    BY <2>1, <2>2, <2>3, <2>4
<1> QED
  BY <1>5, <1>6, <1>7, FetchCases

\* What a request of a list does.
LEMMA ListCases ==
  ASSUME NEW r \in todo, ListFetch(r)
  PROVE  /\ pc = "list" /\ UNCHANGED <<caller, asked, result, dead, fetched>>
         /\ \/ /\ pending' = pending \cup ListLinks(r)
               /\ todo' = ListTodo(r, pending \cup ListLinks(r))
               /\ enumerated' = {asked} /\ UNCHANGED <<pc, outcome, steady>>
            \/ /\ todo' = todo \ {r} /\ steady' = FALSE
               /\ UNCHANGED <<pc, outcome, pending, enumerated>>
            \/ /\ pc' = "idle" /\ outcome' = "raised"
               /\ UNCHANGED <<todo, pending, enumerated, steady>>
BY DEF ListFetch

\* The list of a resource is that of its other spelling as well.
LEMMA LinksOfSelf ==
  ASSUME NEW r
  PROVE  <<r[1], FALSE>> \in ListLinks(r) /\ ListLinks(<<r[1], FALSE>>) = ListLinks(r)
BY DEF ListLinks

\* The links of more resources.
LEMMA LinksOfMore ==
  ASSUME NEW R, NEW r
  PROVE  LinksOf(R \cup {r}) = LinksOf(R) \cup ListLinks(r)
BY DEF LinksOf

\* A request of a list keeps the invariant.
LEMMA ListStep ==
  ASSUME WalkInv, NEW r \in todo, ListFetch(r)
  PROVE  WalkInv'
<1> USE DEF WalkInv
<1>1. pc = "list" /\ UNCHANGED <<caller, asked, result, dead, fetched>>
  BY ListCases
<1>2. outcome # "listed" /\ outcome # "enumerated"
  BY <1>1 DEF PhaseInv
<1>3. Fresh' = Fresh /\ ListLinks(asked)' = ListLinks(asked)
  BY <1>1 DEF Fresh, ListLinks, walk_nested_dict
<1>4. AnsweredInv'
  BY <1>1, <1>3 DEF AnsweredInv
<1>5. ListLinks(r) \subseteq Names \X BOOLEAN
  <2>1. r[1] \in Names
    BY DEF WalkType
  <2>2. <<r[1], FALSE>> \in Names \X BOOLEAN
    BY <2>1
  <2> QED
    BY <2>1, <2>2, LinksAreResources DEF ListLinks
<1>6. CASE /\ pending' = pending \cup ListLinks(r)
           /\ todo' = ListTodo(r, pending \cup ListLinks(r))
           /\ enumerated' = {asked} /\ UNCHANGED <<pc, outcome, steady>>
  <2>1. todo' = pending' \/ todo' = todo \ {r}
    BY <1>6 DEF ListTodo
  <2>2. WalkType' /\ PhaseInv'
    BY <1>1, <1>5, <1>6, <2>1 DEF WalkType, PhaseInv
  <2>3. fetched = {}
    BY <1>1 DEF ListNoneInv
  <2>4. OnceInv' /\ NothingLost' /\ LookedAtInv' /\ NamedInv' /\ ReachedInv' /\ ListNoneInv' /\ ListComplete'
    BY <1>1, <1>2, <1>6, <2>3 DEF OnceInv, FetchedOnce, NothingLost, LookedAtInv, NamedInv,
      ReachedInv, Walked, ListNoneInv, ListComplete
  <2>5. ListInv'
    <3> SUFFICES /\ todo' \subseteq ListLinks(asked)
                 /\ steady => pending' = ListLinks(asked) \cup LinksOf(ListLinks(asked) \ todo')
      BY <1>1, <1>3, <1>6 DEF ListInv, LinksOf, ListLinks, walk_nested_dict
    <3>1. CASE enumerated = {} /\ pending = {} /\ todo \subseteq {asked}
      <4>1. r = asked /\ pending' = ListLinks(asked) /\ todo' = ListLinks(asked)
        BY <1>6, <3>1 DEF ListTodo
      <4>2. LinksOf(ListLinks(asked) \ todo') = {}
        BY <4>1 DEF LinksOf
      <4> QED
        BY <4>1, <4>2
    <3>2. CASE /\ enumerated = {asked} /\ todo \subseteq ListLinks(asked)
               /\ steady => pending = ListLinks(asked) \cup LinksOf(ListLinks(asked) \ todo)
      <4>1. todo' = todo \ {r} /\ pending' = pending \cup ListLinks(r)
        BY <1>6, <3>2 DEF ListTodo
      <4>2. ListLinks(asked) \ todo' = (ListLinks(asked) \ todo) \cup {r}
        BY <3>2, <4>1
      <4>3. LinksOf(ListLinks(asked) \ todo') = LinksOf(ListLinks(asked) \ todo) \cup ListLinks(r)
        BY <4>2, LinksOfMore
      <4> QED
        BY <3>2, <4>1, <4>3
    <3> QED
      BY <1>1, <3>1, <3>2 DEF ListInv
  <2> QED
    BY <1>4, <2>2, <2>4, <2>5
<1>7. CASE /\ todo' = todo \ {r} /\ steady' = FALSE
           /\ UNCHANGED <<pc, outcome, pending, enumerated>>
  <2>1. WalkType' /\ PhaseInv' /\ OnceInv' /\ NothingLost'
    BY <1>1, <1>2, <1>3, <1>7 DEF WalkType, PhaseInv, OnceInv, FetchedOnce, NothingLost
  <2>2. LookedAtInv' /\ NamedInv' /\ ReachedInv' /\ ListNoneInv' /\ ListComplete'
    BY <1>1, <1>2, <1>7 DEF LookedAtInv, NamedInv, ReachedInv, Walked, ListNoneInv, ListComplete
  <2>3. ListInv'
    BY <1>1, <1>3, <1>7 DEF ListInv
  <2> QED
    BY <1>4, <2>1, <2>2, <2>3
<1>8. CASE /\ pc' = "idle" /\ outcome' = "raised"
           /\ UNCHANGED <<todo, pending, enumerated, steady>>
  <2>1. WalkType' /\ PhaseInv' /\ OnceInv' /\ NothingLost'
    BY <1>1, <1>2, <1>3, <1>8 DEF WalkType, PhaseInv, OnceInv, FetchedOnce, NothingLost
  <2>2. LookedAtInv' /\ NamedInv' /\ ReachedInv' /\ ListNoneInv' /\ ListInv' /\ ListComplete'
    BY <1>8 DEF LookedAtInv, NamedInv, ReachedInv, Walked, ListNoneInv, ListInv, ListComplete
  <2> QED
    BY <1>4, <2>1, <2>2
<1> QED
  BY <1>6, <1>7, <1>8, ListCases

\* A list begins with nothing, and ends when nothing is left to ask for.
LEMMA ListEnds ==
  ASSUME WalkInv, list_request \/ ListDone
  PROVE  WalkInv'
<1> USE DEF WalkInv
<1>1. CASE list_request
  <2>1. /\ pc' = "list" /\ outcome' = "none" /\ asked' = <<Root, TRUE>> /\ todo' = {asked'}
        /\ pending' = {} /\ result' = {} /\ enumerated' = {} /\ dead' = {} /\ fetched' = {}
        /\ caller' = "utils"
    BY <1>1 DEF list_request, StartOver
  <2>2. Root \in Names
    BY RedfishAssumption
  <2>3. <<Root, TRUE>> \in Names \X BOOLEAN
    BY <2>2
  <2>4. WalkType' /\ PhaseInv' /\ OnceInv'
    BY <2>1, <2>3 DEF WalkType, PhaseInv, OnceInv, FetchedOnce
  <2>5. NothingLost' /\ AnsweredInv' /\ LookedAtInv' /\ NamedInv' /\ ReachedInv'
    BY <2>1 DEF NothingLost, AnsweredInv, LookedAtInv, NamedInv, ReachedInv, Walked
  <2>6. ListNoneInv' /\ ListInv' /\ ListComplete'
    BY <2>1 DEF ListNoneInv, ListInv, ListComplete
  <2> QED
    BY <2>4, <2>5, <2>6
<1>2. CASE ListDone
  <2>1. /\ pc = "list" /\ todo = {} /\ pc' = "idle" /\ outcome' = "listed"
        /\ UNCHANGED <<caller, asked, walk, steady>>
    BY <1>2 DEF ListDone
  <2>2. WalkType' /\ PhaseInv' /\ OnceInv' /\ AnsweredInv'
    BY <2>1 DEF WalkType, PhaseInv, OnceInv, FetchedOnce, AnsweredInv, Fresh, walk
  <2>3. NothingLost' /\ LookedAtInv' /\ NamedInv' /\ ReachedInv' /\ ListNoneInv' /\ ListInv'
    BY <2>1 DEF NothingLost, LookedAtInv, NamedInv, ReachedInv, Walked, ListNoneInv, ListInv, Fresh,
      walk
  <2>4. ListComplete'
    <3> SUFFICES ASSUME steady PROVE pending = LinksOf(ListLinks(asked))
      BY <2>1 DEF ListComplete, LinksOf, ListLinks, walk_nested_dict, walk
    <3>1. pending = ListLinks(asked) \cup LinksOf(ListLinks(asked) \ {})
      BY <2>1 DEF ListInv
    <3>2. ListLinks(asked) \ {} = ListLinks(asked)
      OBVIOUS
    <3>3. ListLinks(asked) \subseteq LinksOf(ListLinks(asked))
      BY LinksOfSelf DEF LinksOf
    <3> QED
      BY <3>1, <3>2, <3>3
  <2> QED
    BY <2>2, <2>3, <2>4
<1> QED
  BY <1>1, <1>2

\* An enumeration begins with the resource that was asked for.
LEMMA EnumerateStep ==
  ASSUME WalkInv, enumerate
  PROVE  WalkInv'
<1> USE DEF WalkInv
<1>1. PICK name \in {Root} \cup {m[1] : m \in Members(Root)}, slash \in BOOLEAN :
        /\ asked' = <<name, slash>> /\ todo' = {asked'}
        /\ pending' = IF Fresh THEN {asked'} ELSE pending \cup {asked'}
  BY DEF enumerate
<1>2. name \in Names
  BY RedfishAssumption
<1>3. asked' \in Names \X BOOLEAN
  BY <1>1, <1>2
<1>4. /\ pc' = "walk" /\ outcome' = "none" /\ enumerated' = {} /\ dead' = {} /\ fetched' = {}
      /\ result' = IF Fresh THEN {} ELSE result
      /\ Fresh' => Fresh
  BY DEF enumerate, StartOver, Fresh
<1>5. WalkType' /\ PhaseInv' /\ OnceInv'
  BY <1>1, <1>3, <1>4 DEF WalkType, PhaseInv, OnceInv, FetchedOnce
<1>6. NothingLost' /\ AnsweredInv' /\ LookedAtInv' /\ NamedInv'
  BY <1>1, <1>4 DEF NothingLost, AnsweredInv, LookedAtInv, NamedInv, Walked
<1>7. ReachedInv'
  BY <1>1, <1>4 DEF ReachedInv, Closed
<1>8. ListNoneInv' /\ ListInv' /\ ListComplete'
  BY <1>4 DEF ListNoneInv, ListInv, ListComplete
<1> QED
  BY <1>5, <1>6, <1>7, <1>8

\* A resource that is left out is looked at, and not requested.
LEMMA SkipStep ==
  ASSUME WalkInv, NEW r \in todo, Skips(r)
  PROVE  WalkInv'
<1> USE DEF WalkInv
<1>1. /\ pc = "walk" /\ r[1] \in Unwalked(caller)
      /\ todo' = todo \ {r} /\ enumerated' = enumerated \cup {r}
      /\ UNCHANGED <<pc, caller, asked, pending, result, dead, outcome, fetched, steady>>
  BY DEF Skips
<1>2. Fresh' = Fresh /\ (\A names : Closed(names)' = Closed(names)) /\ outcome \notin {"listed", "enumerated"}
  BY <1>1 DEF Fresh, Closed, Linked, PhaseInv
<1>3. WalkType' /\ PhaseInv' /\ OnceInv' /\ NothingLost' /\ AnsweredInv'
  BY <1>1, <1>2 DEF WalkType, PhaseInv, OnceInv, FetchedOnce, NothingLost, AnsweredInv
<1>4. LookedAtInv' /\ NamedInv'
  BY <1>1, <1>2 DEF LookedAtInv, NamedInv, Walked, walk_nested_dict
<1>5. ReachedInv'
  BY <1>1, <1>2 DEF ReachedInv, Walked
<1>6. ListNoneInv' /\ ListInv' /\ ListComplete'
  BY <1>1, <1>2 DEF ListNoneInv, ListInv, ListComplete
<1> QED
  BY <1>3, <1>4, <1>5, <1>6

\* A round ends with what is still to be looked at, or the walk is over.
LEMMA RoundStep ==
  ASSUME WalkInv, NextRound
  PROVE  WalkInv'
<1> USE DEF WalkInv
<1>1. /\ pc = "walk" /\ todo = {}
      /\ UNCHANGED <<caller, asked, pending, enumerated, result, dead, fetched, steady>>
      /\ \/ todo' = Left /\ pc' = "walk" /\ outcome' = outcome
         \/ Left = {} /\ todo' = {} /\ pc' = "idle" /\ outcome' = "enumerated"
  BY DEF NextRound
<1>2. Fresh' = Fresh /\ (\A names : Closed(names)' = Closed(names)) /\ outcome \notin {"listed", "enumerated"}
  BY <1>1 DEF Fresh, Closed, Linked, PhaseInv
<1>3. WalkType' /\ PhaseInv' /\ OnceInv'
  BY <1>1, <1>2 DEF WalkType, PhaseInv, OnceInv, FetchedOnce, Left
<1>4. NothingLost' /\ AnsweredInv'
  BY <1>1, <1>2 DEF NothingLost, AnsweredInv
<1>5. LookedAtInv' /\ NamedInv'
  BY <1>1, <1>2 DEF LookedAtInv, NamedInv, Walked, Left, walk_nested_dict
<1>6. ReachedInv'
  BY <1>1, <1>2 DEF ReachedInv, Walked
<1>7. ListNoneInv' /\ ListInv' /\ ListComplete'
  BY <1>1, <1>2 DEF ListNoneInv, ListInv, ListComplete
<1> QED
  BY <1>3, <1>4, <1>5, <1>6, <1>7

\* Every step of the client or the BMC keeps the invariant.
LEMMA WalkInvStep == WalkInv /\ [RedfishNext]_redfishVars => WalkInv'
<1> SUFFICES ASSUME WalkInv, [RedfishNext]_redfishVars
             PROVE  WalkInv'
  OBVIOUS
<1>1. CASE bmc_redfish_init
  <2>1. /\ pc = "new" /\ pc' \in {"idle", "end"} /\ outcome' = outcome
        /\ steady' = steady /\ UNCHANGED <<walk, asked, caller>>
    BY <1>1 DEF bmc_redfish_init
  <2> QED
    BY <2>1, WalkLeft
<1>2. CASE login
  <2>1. /\ pc' \in {"idle", "login"} /\ outcome' \in {"none", "raised", "returned"}
        /\ steady' = steady /\ UNCHANGED <<walk, asked, caller>>
    BY <1>2 DEF login
  <2> QED
    BY <2>1, WalkLeft
<1>3. CASE LoginWorks \/ logout
  <2>1. /\ pc' = "idle" /\ outcome' = "returned"
        /\ steady' = steady /\ UNCHANGED <<walk, asked, caller>>
    BY <1>3 DEF LoginWorks, logout
  <2> QED
    BY <2>1, WalkLeft
<1>4. CASE LoginFails
  <2>1. /\ steady' = steady /\ UNCHANGED <<walk, asked, caller>>
        /\ \/ pc' = pc /\ outcome' = outcome
           \/ pc' = "idle" /\ outcome' \in {"returned", "raised"}
    BY <1>4 DEF LoginFails
  <2> QED
    BY <2>1, WalkLeft
<1>5. CASE BmcChanges \/ UNCHANGED redfishVars
  <2>1. /\ (steady' => steady) /\ UNCHANGED <<walk, asked, caller>>
        /\ pc' = pc /\ outcome' = outcome
    BY <1>5 DEF BmcChanges, redfishVars
  <2> QED
    BY <2>1, WalkLeft
<1>6. CASE enumerate
  BY <1>6, EnumerateStep
<1>7. ASSUME NEW r \in todo, Skips(r) PROVE WalkInv'
  BY <1>7, SkipStep
<1>8. ASSUME NEW r \in todo, Fetch(r) PROVE WalkInv'
  BY <1>8, FetchStep
<1>9. CASE NextRound
  BY <1>9, RoundStep
<1>10. CASE list_request \/ ListDone
  BY <1>10, ListEnds
<1>11. ASSUME NEW r \in todo, ListFetch(r) PROVE WalkInv'
  BY <1>11, ListStep
<1> QED
  BY <1>1, <1>2, <1>3, <1>4, <1>5, <1>6, <1>7, <1>8, <1>9, <1>10, <1>11 DEF RedfishNext

\* A walk that found what its answers link to, and nothing else, has the names
\* that can be reached.
LEMMA WalkIsComplete == WalkInv => ResultComplete
<1> SUFFICES ASSUME WalkInv, outcome = "enumerated", steady, Fresh
             PROVE  result = Reached \ Unwalked(caller)
  BY DEF ResultComplete
<1> USE DEF WalkInv
<1> DEFINE all == result \cup (Unwalked(caller) \cap Names)
<1>1. /\ asked \in pending /\ pending \subseteq enumerated /\ dead = {}
      /\ \A r \in enumerated : r \in fetched \/ r[1] \in Unwalked(caller)
      /\ \A n \in result : walk_nested_dict(n) \subseteq pending
  BY DEF LookedAtInv, Walked
<1>2. /\ \A r \in fetched : r[1] \in result
      /\ result \subseteq Names /\ pending \subseteq Names \X BOOLEAN
  BY <1>1 DEF NothingLost, WalkType
<1>3. \A r \in pending : r[1] \in all
  BY <1>1, <1>2
<1>4. Closed(all)
  <2>1. ASSUME NEW n \in all \ Unwalked(caller)
        PROVE  Nested(n) \cup {m[1] : m \in Members(n)} \subseteq all
    <3>1. n \in result
      BY <2>1
    <3>2. \A m \in Nested(n) : <<m, FALSE>> \in pending
      BY <1>1, <3>1 DEF walk_nested_dict
    <3>3. \A m \in Members(n) : m \in pending
      BY <1>1, <3>1 DEF walk_nested_dict
    <3>4. \A m \in Nested(n) : <<m, FALSE>>[1] \in all
      BY <1>3, <3>2
    <3> HIDE DEF all
    <3> QED
      BY <1>3, <3>3, <3>4
  <2> HIDE DEF all
  <2> QED
    BY <1>1, <1>3, <2>1 DEF Closed, Linked
<1>5. all \in SUBSET Names
  BY <1>2
<1>6. Reached \subseteq all
  <2> HIDE DEF all
  <2> QED
    BY <1>4, <1>5 DEF Reached
<1>7. result \subseteq Reached /\ result \cap Unwalked(caller) = {}
  BY <1>2 DEF ReachedInv, Walked, Reached
<1> QED
  BY <1>6, <1>7

\* An enumeration reports all it could reach and nothing else, whatever the
\* resources link to, and accounts for every resource it requested.
THEOREM WalksAreRight == RedfishSpec => []WalkRight
<1>1. LoginInv /\ WalkInv => RedfishTypeOK
  BY DEF LoginInv, WalkInv, WalkType, RedfishTypeOK
<1>2. WalkInv => DeadNotReported
  <2> SUFFICES ASSUME WalkInv, Fresh, NEW r \in dead, r[1] \in result
               PROVE  <<r[1], ~r[2]>> \in fetched
    BY DEF DeadNotReported
  <2>1. PICK b \in BOOLEAN : <<r[1], b>> \in fetched \ dead
    BY DEF WalkInv, AnsweredInv
  <2>2. r \in Names \X BOOLEAN
    BY DEF WalkInv, WalkType
  <2>3. r = <<r[1], r[2]>> /\ r[2] \in BOOLEAN
    BY <2>2
  <2>4. b # r[2]
    BY <2>1, <2>3
  <2>5. b = ~r[2]
    BY <2>1, <2>3, <2>4
  <2> QED
    BY <2>1, <2>5
<1>3. WalkInv => ListComplete /\ NothingLost
  BY DEF WalkInv
<1> QED
  BY LoginInvInit, LoginInvStep, WalkInvInit, WalkInvStep, WalkIsComplete, <1>1, <1>2, <1>3, PTL
     DEF RedfishSpec, WalkRight

\* No resource is requested twice in a call, however the resources link to one
\* another, and each login leaves the BMC two sessions at most.
THEOREM RequestsAreBounded == RedfishSpec => []RequestsBounded
<1>1. LoginInv => LoginBounded
  <2> SUFFICES ASSUME LoginInv PROVE tries <= 2 /\ Cardinality(live) <= 2 * calls
    BY DEF LoginBounded
  <2>1. made \in Nat /\ calls \in Nat /\ tries <= 2 /\ live \subseteq 1..made /\ made <= 2 * calls
    BY DEF LoginInv
  <2>2. IsFiniteSet(1..made) /\ Cardinality(1..made) = made
    BY <2>1, FS_Interval
  <2>3. Cardinality(live) \in Nat /\ Cardinality(live) <= made
    BY <2>1, <2>2, FS_Subset, FS_CardinalityType
  <2> QED
    BY <2>1, <2>3
<1>2. WalkInv => FetchedOnce
  BY DEF WalkInv, OnceInv
<1> QED
  BY LoginInvInit, LoginInvStep, WalkInvInit, WalkInvStep, <1>1, <1>2, PTL
     DEF RedfishSpec, RequestsBounded

-----------------------------------------------------------------------------
(* Validation *)

\* A limit is none or a number.
LEMMA LimitIs ==
  ASSUME NEW l \in Limits
  PROVE  l = None \/ (l # None /\ l[1] \in Int)
<1> SUFFICES ASSUME l # None PROVE l[1] \in Int
  OBVIOUS
<1>1. PICK n \in Bounds : l = <<n>>
  BY DEF Limits
<1> QED
  BY <1>1, ValidationAssumption

\* A number is out of range if it is not within the limits; lower ones above the
\* upper ones leave nothing.
LEMMA RangeIsLimits ==
  ASSUME NEW n \in Int, NEW lower \in Limits, NEW upper \in Limits
  PROVE  Range_Error(n, lower, upper) <=>
           ~/\ lower = None \/ lower[1] <= n
            /\ upper = None \/ n <= upper[1]
<1>1. /\ lower = None \/ (lower # None /\ lower[1] \in Int)
      /\ upper = None \/ (upper # None /\ upper[1] \in Int)
  BY LimitIs
<1> QED
  BY <1>1 DEF Range_Error

\* The kinds of calls, and what their arguments are.
LEMMA CallKinds ==
  ASSUME NEW c \in Calls
  PROVE  /\ c.f = "number" => /\ c.number \in BOOLEAN /\ c.v \in Int
                              /\ c.lower \in Limits /\ c.upper \in Limits
         /\ c.f = "length" => Len(c.object) \in Int /\ c.lower \in Limits /\ c.upper \in Limits
         /\ c.f = "list" => c.list \in Items
         /\ c.f = "dict" => c.valid \in ListsByKey /\ c.invalid \in ListsByKey
         /\ c.f \in {"type", "value", "number", "length", "path", "date", "program", "list", "dict"}
<1>1. Numbers \subseteq Int /\ \A i \in Items : Len(i) \in Int
  BY ValidationAssumption, LenProperties
<1> HIDE DEF Limits
<1> QED
  BY <1>1 DEF Calls

\* valid_value does what it says.
LEMMA ValueDescribed ==
  ASSUME NEW c, c.f = "value"
  PROVE  Error(c) <=> ~Described(c)
BY DEF Error, Described, Value_Error

LEMMA NumberDescribed ==
  ASSUME NEW c \in Calls, c.f \in {"number", "length"}
  PROVE  Error(c) <=> ~Described(c)
<1>1. CASE c.f = "number"
  <2>1. Range_Error(c.v, c.lower, c.upper) <=> ~WithinLimits(c.v, c)
    BY <1>1, CallKinds, RangeIsLimits DEF WithinLimits
  <2> QED
    BY <1>1, <2>1 DEF Error, Described, Number_Error
<1>2. CASE c.f = "length"
  <2>1. Range_Error(Len(c.object), c.lower, c.upper) <=> ~WithinLimits(Len(c.object), c)
    BY <1>2, CallKinds, RangeIsLimits DEF WithinLimits
  <2> QED
    BY <1>2, <2>1 DEF Error, Described, Length_Error
<1> QED
  BY <1>1, <1>2

\* valid_list does what it says.
LEMMA ListDescribed ==
  ASSUME NEW c, c.f = "list"
  PROVE  Error(c) <=> ~Described(c)
<1> DEFINE given == ListsGiven(c)
           two == {"valid", "invalid"}
           three == {"valid", "invalid", "required"}
<1>1. /\ IsFiniteSet(two) /\ Cardinality(two) = 2
      /\ IsFiniteSet(three) /\ Cardinality(three) = 3
      /\ Cardinality({}) = 0 /\ Cardinality({"valid"}) = 1 /\ Cardinality({"invalid"}) = 1
  <2>1. IsFiniteSet({"valid"}) /\ Cardinality({"valid"}) = 1 /\ Cardinality({"invalid"}) = 1
    BY FS_Singleton
  <2>2. {"valid"} \cup {"invalid"} = two /\ two \cup {"required"} = three
    OBVIOUS
  <2>3. IsFiniteSet(two) /\ Cardinality(two) = 2
    BY <2>1, <2>2, FS_AddElement
  <2>4. IsFiniteSet(three) /\ Cardinality(three) = 3
    <3>1. "required" \notin two
      OBVIOUS
    <3> HIDE DEF two, three
    <3> QED
      BY ONLY <2>2, <2>3, <3>1, FS_AddElement
  <2> QED
    BY <2>1, <2>3, <2>4, FS_EmptySet
<1>2. given \subseteq three
  BY DEF ListsGiven
<1>3. Cardinality(given) \in {0, 1, 2, 3}
  <2>1. Cardinality(given) \in Nat /\ Cardinality(given) <= 3
    <3>1. IsFiniteSet(three) /\ Cardinality(three) = 3 /\ given \subseteq three
      BY <1>1, <1>2
    <3> HIDE DEF given, three
    <3>2. IsFiniteSet(given) /\ Cardinality(given) <= Cardinality(three)
      BY ONLY <3>1, FS_Subset
    <3>3. Cardinality(given) \in Nat
      BY ONLY <3>2, FS_CardinalityType
    <3> QED
      BY ONLY <3>1, <3>2, <3>3
  <2> QED
    BY <2>1
<1>4. /\ c.valid # {} <=> "valid" \in given
      /\ c.invalid # {} <=> "invalid" \in given
      /\ c.required # {} <=> "required" \in given
  BY DEF ListsGiven
<1> HIDE DEF given
<1>5. Error(c) <=> List_Error(c)
  BY DEF Error
<1>6. CASE Cardinality(given) \in {0, 2}
  <2>1. List_Error(c)
    <3>1. Cardinality(given) % 2 = 0
      BY ONLY <1>6
    <3> QED
      BY <3>1 DEF List_Error, given
  <2>2. ~Described(c)
    BY <1>6 DEF Described, given
  <2> QED
    BY <1>5, <2>1, <2>2
<1>7. CASE Cardinality(given) \in {1, 3}
  <2>1. List_Error(c) <=>
          \/ c.fail_on_empty /\ c.list = <<>>
          \/ CASE c.required # {} -> ~(c.required \subseteq Range(c.list))
               [] c.required = {} /\ c.invalid # {} -> Range(c.list) \cap c.invalid # {}
               [] c.required = {} /\ c.invalid = {} -> ~(Range(c.list) \subseteq c.valid)
    <3>1. Cardinality(given) % 2 # 0
      BY ONLY <1>7
    <3> QED
      BY <3>1 DEF List_Error, given
  <2>2. Described(c) <=>
          /\ c.fail_on_empty => c.list # <<>>
          /\ \A w \in c.required : w \in Range(c.list)
          /\ c.required = {} =>
               /\ c.valid # {} => \A i \in DOMAIN c.list : c.list[i] \in c.valid
               /\ c.invalid # {} => \A i \in DOMAIN c.list : c.list[i] \notin c.invalid
    BY <1>7 DEF Described, given
  <2>3. c.required = {} => (c.valid # {} <=> c.invalid = {})
    <3> SUFFICES ASSUME c.required = {}
                 PROVE  c.valid # {} <=> c.invalid = {}
      OBVIOUS
    <3>1. given \in {{}, {"valid"}, {"invalid"}, two}
      BY <1>2, <1>4
    <3>2. given # {} /\ given # two
      BY <1>1, <1>7
    <3> QED
      BY <1>4, <3>1, <3>2
  <2>4. CASE c.required # {}
    BY <1>5, <2>1, <2>2, <2>4
  <2>5. CASE c.required = {} /\ c.invalid # {}
    BY <1>5, <2>1, <2>2, <2>3, <2>5 DEF Range
  <2>6. CASE c.required = {} /\ c.invalid = {}
    BY <1>5, <2>1, <2>2, <2>3, <2>6 DEF Range
  <2> QED
    BY <2>4, <2>5, <2>6
<1> QED
  BY <1>3, <1>6, <1>7

\* valid_dict does what it says.
LEMMA DictDescribed ==
  ASSUME NEW c \in Calls, c.f = "dict"
  PROVE  Error(c) <=> ~Described(c)
<1>1. /\ \A k \in DOMAIN c.valid : c.valid[k] # {}
      /\ \A k \in DOMAIN c.invalid : c.invalid[k] # {}
  BY CallKinds, ValidationAssumption
<1>2. \A k \in DOMAIN c.valid : Value_Error(c.dict[k], c.valid[k], {}) <=> c.dict[k] \notin c.valid[k]
  BY <1>1 DEF Value_Error
<1>3. \A k \in DOMAIN c.invalid : Value_Error(c.dict[k], {}, c.invalid[k]) <=> c.dict[k] \in c.invalid[k]
  BY <1>1 DEF Value_Error
<1>4. Error(c) <=> Dict_Error(c)
  BY DEF Error
<1>5. Described(c) <=>
         /\ \A k \in c.required : k \in DOMAIN c.dict
         /\ \A k \in DOMAIN c.valid : k \in DOMAIN c.dict /\ c.dict[k] \in c.valid[k]
         /\ \A k \in DOMAIN c.dict \cap DOMAIN c.invalid : c.dict[k] \notin c.invalid[k]
  BY DEF Described
<1> QED
  BY <1>2, <1>3, <1>4, <1>5 DEF Dict_Error

\* A validation finds an error in exactly what the descriptions call invalid.
LEMMA ErrorIsDescribed ==
  ASSUME NEW c \in Calls
  PROVE  Error(c) <=> ~Described(c)
<1>1. CASE c.f \in {"type", "path", "date", "program"}
  BY <1>1 DEF Described, Error, Type_Error, Path_Error, Date_Error, Program_Error
<1> QED
  BY <1>1, CallKinds, ValueDescribed, NumberDescribed, ListDescribed, DictDescribed

\* Each way to validate takes a value for what the descriptions say it is, and
\* what was found of the last one stays so.
LEMMA ValidNextRight == ValidationsRight /\ [ValidNext]_validVars => ValidationsRight'
<1> SUFFICES ASSUME ValidationsRight, [ValidNext]_validVars PROVE ValidationsRight'
  OBVIOUS
<1> USE DEF ValidationsRight, PastOnlyIfValid, TestSees
<1>1. CASE UNCHANGED validVars
  BY <1>1 DEF validVars
<1>2. CASE set_exit_on_error
  BY <1>2 DEF set_exit_on_error
<1>3. CASE valid_var_name
  BY <1>3 DEF valid_var_name
<1>4. ASSUME NEW c \in Calls, Statement(c) \/ Tested(c) \/ Assigned(c) \/ Keyword(c)
      PROVE  ValidationsRight'
  <2>1. Error(c) <=> ~Described(c)
    BY ErrorIsDescribed
  <2>2. ASSUME NEW use, Validated(c, use)
        PROVE  last'.call = c /\ last'.exits = exit_on_error /\ last'.use = use
    BY <2>2 DEF Validated
  <2>3. CASE Statement(c)
    <3>1. /\ last'.call = c /\ last'.exits = exit_on_error /\ last'.use = "statement" /\ branch' = "none"
          /\ program' = IF Error(c) /\ exit_on_error THEN "exited" ELSE "runs"
      BY <2>2, <2>3 DEF Statement, GoesOn, process_error_message
    <3> QED
      BY <2>1, <3>1
  <2>4. CASE Tested(c)
    <3>1. /\ last'.call = c /\ last'.exits = exit_on_error /\ last'.use = "tested"
          /\ program' = IF Error(c) /\ exit_on_error THEN "exited" ELSE "runs"
          /\ program' = "runs" =>
               branch' = IF Error(c) \/ exit_on_error THEN "invalid" ELSE "valid"
      BY <2>2, <2>4 DEF Tested, GoesOn, process_error_message
    <3> QED
      BY <2>1, <3>1
  <2>5. CASE Assigned(c)
    <3>1. /\ last'.call = c /\ last'.exits = exit_on_error /\ last'.use = "assigned" /\ program' = "runs"
          /\ branch' = IF Error(c) THEN "invalid" ELSE "valid"
      BY <2>2, <2>5 DEF Assigned, GoesOn, process_error_message
    <3> QED
      BY <2>1, <3>1
  <2>6. CASE Keyword(c)
    <3>1. /\ last'.call = c /\ last'.exits = exit_on_error /\ last'.use = "keyword" /\ branch' = "none"
          /\ program' = IF Error(c) THEN "failed" ELSE "runs"
      BY <2>2, <2>6 DEF Keyword, process_error_message
    <3> QED
      BY <2>1, <3>1
  <2> QED
    BY <1>4, <2>3, <2>4, <2>5, <2>6
<1> QED
  BY <1>1, <1>2, <1>3, <1>4 DEF ValidNext

\* Whichever way a validation is called, and whatever is validated, a wrong
\* value is never taken for a valid one, and a valid one for a wrong one by those
\* callers alone who test the result while exit_on_error is set, which is None
\* (process_error_message, valid_value, valid_range, valid_list, valid_dict).
THEOREM ValidationsAreRight == ValidSpec => []ValidationsRight
<1>1. ValidInit => ValidationsRight
  <2> SUFFICES ASSUME ValidInit PROVE ValidationsRight
    OBVIOUS
  <2>1. program = "runs" /\ branch = "none" /\ last.use = "statement" /\ last.exits = FALSE
    BY DEF ValidInit
  <2> QED
    BY <2>1 DEF ValidationsRight, PastOnlyIfValid, TestSees
<1> QED
  BY <1>1, ValidNextRight, PTL DEF ValidSpec

=============================================================================
