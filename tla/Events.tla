------------------------------- MODULE Events -------------------------------
(***************************************************************************)
(* Notifications over a websocket: bin/websocket_monitor.py waits for the  *)
(* entry of one type, lib/event_notification.py returns the first event.   *)
(* The BMC and the websocket libraries are external: messages arrive in    *)
(* order, and a lost connection takes those under way with it.             *)
(*                                                                         *)
(* A message is abstracted to the path it is about ("logging", "dump" or   *)
(* "other"), whether it is about an entry below that path, and the         *)
(* property it holds, which is what on_message looks at.                   *)
(***************************************************************************)
EXTENDS Naturals, Sequences

CONSTANTS
  MaxLogins,      \* stop_max_attempt_number of the monitor's login
  MaxSignalled,   \* bound: events the BMC signals
  MaxSubscribes   \* bound: calls of subscribe

ASSUME EventsAssumption ==
  MaxLogins \in Nat \ {0} /\ MaxSignalled \in Nat /\ MaxSubscribes \in Nat

VARIABLES
  listener,       \* "monitor" or "subscribe"
  monitor_type,   \* the path it is interested in
  at,             \* where it is
  logins,         \* attempts of the login so far
  web_session,        \* the answer of the login: "none", "ok" or "refused"
  socket,         \* "none", "open", "lost" or "closed"
  registered,     \* the BMC has its filter
  inbox,          \* messages under way
  said,           \* what the monitor has printed
  signalled,      \* events signalled so far
  since,          \* history: the messages sent since it was registered
  subscribes      \* calls of subscribe so far

eventVars == <<listener, monitor_type, at, logins, web_session, socket, registered, inbox, said,
               signalled, since, subscribes>>

Message == [path : {"logging", "dump", "other"}, entry : BOOLEAN, field : {"Id", "Size", "Text"}]

EventsInit ==
  /\ listener \in {"monitor", "subscribe"} /\ monitor_type \in {"logging", "dump"}
  /\ at = "idle" /\ logins = 0 /\ web_session = "none" /\ socket = "none" /\ registered = FALSE
  /\ inbox = <<>> /\ said = {} /\ signalled = 0 /\ since = {} /\ subscribes = 0

\* The listener itself, as opposed to the BMC.
bmcEvents == <<inbox, signalled, since>>

-----------------------------------------------------------------------------
(* Logging in *)

main ==
  /\ listener = "monitor" /\ at = "idle" /\ logins = 0 /\ at' = "login"
  /\ UNCHANGED <<listener, monitor_type, logins, web_session, socket, registered, said, subscribes,
                 bmcEvents>>

\* A new session and, later, a new socket each time.
subscribe ==
  /\ listener = "subscribe" /\ at = "idle" /\ subscribes < MaxSubscribes
  /\ subscribes' = subscribes + 1 /\ at' = "login" /\ logins' = 0 /\ web_session' = "none"
  /\ since' = {}
  /\ UNCHANGED <<listener, monitor_type, socket, registered, inbox, said, signalled>>

\* Mutant: a login that is refused is only printed, as in subscribe.
Bug_Refused == at' = "connect"

\* valid_value exits in the monitor (exit_on_error), which retry takes for one
\* more failed attempt; in subscribe it only prints, and the call goes on.
Refused ==
  IF listener = "subscribe" THEN at' = "connect"
  ELSE at' = IF logins' = MaxLogins THEN "ended" ELSE "login"

\* No answer within 30 seconds, or one that cannot be read, raises.
LoginRaises ==
  at' = IF listener = "subscribe" THEN "idle"
        ELSE IF logins' = MaxLogins THEN "ended" ELSE "login"

websocket_login ==
  /\ at = "login" /\ logins' = logins + 1
  /\ \/ web_session' = "ok" /\ at' = "connect"
     \/ web_session' = "refused" /\ Refused
     \/ web_session' = "none" /\ LoginRaises
  /\ UNCHANGED <<listener, monitor_type, socket, registered, said, subscribes, bmcEvents>>

-----------------------------------------------------------------------------
(* Listening *)

\* The listener is done: run_forever or subscribe returns, or it raises.
Finished == at' = IF listener = "monitor" THEN "ended" ELSE "idle"

\* run_forever or create_connection; the cookies of a refused login are none,
\* and the BMC does not let them in.
open_socket ==
  /\ at = "connect"
  /\ \/ web_session = "ok" /\ socket' = "open" /\ at' = "open"
     \/ UNCHANGED socket /\ Finished
  /\ UNCHANGED <<listener, monitor_type, logins, web_session, registered, said, subscribes, bmcEvents>>

\* The filter is sent; events before that are not seen.
on_open ==
  /\ at = "open" /\ socket = "open" /\ registered' = TRUE /\ at' = "listen"
  /\ said' = IF listener = "monitor" THEN said \cup {"registered"} ELSE said
  /\ UNCHANGED <<listener, monitor_type, logins, web_session, socket, subscribes, bmcEvents>>

\* Mutant: an entry is only known by its Id.
Bug_IsEntryOf(m) == m.path = monitor_type /\ m.entry /\ m.field = "Id"

\* The monitored path with "/entry", and "Id" or "Size", are in the message.
IsEntryOf(m) == m.path = monitor_type /\ m.entry /\ m.field \in {"Id", "Size"}

CloseSocket == socket' = "closed" /\ registered' = FALSE

\* close() makes run_forever return.
on_message ==
  /\ listener = "monitor" /\ at = "listen" /\ socket = "open" /\ inbox # <<>>
  /\ inbox' = Tail(inbox)
  /\ \/ IsEntryOf(Head(inbox)) /\ said' = said \cup {"received"} /\ CloseSocket /\ at' = "ended"
     \/ ~IsEntryOf(Head(inbox)) /\ UNCHANGED <<said, socket, registered, at>>
  /\ UNCHANGED <<listener, monitor_type, logins, web_session, signalled, since, subscribes>>

CloseAfterFirst == CloseSocket

\* recv() of subscribe has no time-out; the first message is returned.
recv ==
  /\ listener = "subscribe" /\ at = "listen" /\ socket = "open" /\ inbox # <<>>
  /\ inbox' = <<>> /\ CloseAfterFirst /\ at' = "idle"
  /\ UNCHANGED <<listener, monitor_type, logins, web_session, said, signalled, since, subscribes>>

\* A lost connection: on_error and the end of run_forever, or an exception.
on_error ==
  /\ at \in {"open", "listen"} /\ socket = "lost" /\ Finished
  /\ UNCHANGED <<listener, monitor_type, logins, web_session, socket, registered, said, subscribes,
                 bmcEvents>>

\* SIGTERM or SIGINT: the handler exits, and the socket is gone.
signal_handler ==
  /\ listener = "monitor" /\ at \in {"login", "connect", "open", "listen"} /\ at' = "ended"
  /\ socket' = (IF socket = "open" THEN "closed" ELSE socket) /\ registered' = FALSE
  /\ UNCHANGED <<listener, monitor_type, logins, web_session, said, subscribes, bmcEvents>>

-----------------------------------------------------------------------------
(* The BMC *)

\* The filter lets pass what is about the path and below it.
SignalsEvent ==
  /\ at \in {"open", "listen"} /\ signalled < MaxSignalled /\ signalled' = signalled + 1
  /\ \E m \in Message :
       IF registered /\ socket = "open" /\ m.path = monitor_type
       THEN inbox' = Append(inbox, m) /\ since' = since \cup {m}
       ELSE UNCHANGED <<inbox, since>>
  /\ UNCHANGED <<listener, monitor_type, at, logins, web_session, socket, registered, said, subscribes>>

LosesConnection ==
  /\ socket = "open" /\ socket' = "lost" /\ registered' = FALSE /\ inbox' = <<>>
  /\ UNCHANGED <<listener, monitor_type, at, logins, web_session, said, signalled, since, subscribes>>

Listens == websocket_login \/ open_socket \/ on_open \/ on_message \/ recv \/ on_error

EventsNext == main \/ subscribe \/ Listens \/ signal_handler \/ SignalsEvent \/ LosesConnection

\* The listener goes on when it can: every request before the wait for
\* messages has a time-out.
EventsFairness == WF_eventVars(Listens)

EventsSpec == EventsInit /\ [][EventsNext]_eventVars /\ EventsFairness

-----------------------------------------------------------------------------
(* Properties *)

\* The monitor says that it received an entry only if the BMC sent one of the
\* type it monitors after it had registered: suites look for these words in
\* its output after they have made the BMC create one (on_message).
ReceivedIsReal ==
  "received" \in said =>
    /\ "registered" \in said
    /\ \E m \in since : m.path = monitor_type /\ m.entry /\ m.field # "Text"

\* The monitor opens a socket only with a session the BMC has accepted, though
\* its login is repeated after every kind of failure (websocket_login, open_socket).
MonitorLoggedIn ==
  listener = "monitor" /\ (at = "connect" \/ socket # "none") => web_session = "ok"

\* Between two calls of subscribe, however they ended, no socket is open on
\* which the BMC still sends (subscribe).
SocketsClosed == at \in {"idle", "ended"} => socket # "open" /\ ~registered

\* An entry that was sent to the monitor ends it, whatever else the BMC signals
\* before and after (on_message).
EntryReported ==
  (\E i \in DOMAIN inbox : inbox[i].path = monitor_type /\ inbox[i].entry /\ inbox[i].field # "Text")
     /\ listener = "monitor"
  ~> at = "ended"

\* A listener reports what the BMC sent it in a session it was given, and does
\* not go on listening when its call is over.
ListenersTruthful == ReceivedIsReal /\ MonitorLoggedIn /\ SocketsClosed

=============================================================================
