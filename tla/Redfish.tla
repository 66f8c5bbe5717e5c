------------------------------- MODULE Redfish ------------------------------
(***************************************************************************)
(* The redfish client: the session of lib/bmc_redfish.py and               *)
(* lib/redfish_plus.py, and the enumerations of resources of               *)
(* lib/bmc_redfish.py, lib/bmc_redfish_utils.py and ffdc/plugins/redfish.py *)
(* against a BMC whose resources and sessions change while they run.  The  *)
(* BMC and the redfish library are external: a request has the outcomes    *)
(* the client tells apart.                                                 *)
(*                                                                         *)
(* Data.  A resource is <<name, slash>>: its path, and whether it is       *)
(* written with a "/" at its end.  Body(name) is what a response of the    *)
(* BMC links to: nested, the names in dictionaries within the dictionary,  *)
(* and members, the resources of its Members list.                         *)
(***************************************************************************)
EXTENDS Integers, FiniteSets

CONSTANTS
  Names, Root,     \* the names of resources, and the one calls start from
  Nested(_), Members(_),
  Unwalked(_),     \* the names a caller leaves out: "JsonSchemas", "#" ...
  Callers,         \* "client", "utils" or "plugin"
  MaxCalls,        \* bound: the calls made
  MaxChanges       \* bound: changes of the BMC: resources or lost sessions

ASSUME RedfishAssumption ==
  /\ Root \in Names /\ \A n \in Names : Nested(n) \subseteq Names
  /\ \A n \in Names : Members(n) \subseteq Names \X BOOLEAN
  /\ Callers \subseteq {"client", "utils", "plugin"} /\ {MaxCalls, MaxChanges} \subseteq Nat

VARIABLES
  pc, mtls,
  inited,          \* bmc_redfish.__inited__
  session,         \* the client's session, or 0
  live,            \* the sessions the BMC knows
  made,            \* how many it ever made
  tries,           \* logins tried in this call of login
  present,         \* the resources the BMC has
  changes, calls,
  caller, asked,   \* who enumerates, and from where
  pending, enumerated, todo, \* pending_enumeration, enumerated_resources and
                   \* the part of resources_to_be_enumerated still to do
  result, dead,    \* the names with data, the resources without an answer
  outcome,         \* of the last call: "none", "returned", "enumerated" or "raised"
  fetched,         \* history: the resources requested in this call
  steady,          \* history: nothing changed or failed during this call
  loggedIn         \* history: the last login left the client with a session

bmc    == <<live, made, present, changes>>
walk   == <<pending, enumerated, todo, result, dead, fetched>>
client == <<inited, session, tries, loggedIn>>
redfishVars == <<pc, mtls, client, bmc, calls, caller, asked, walk, outcome, steady>>

RedfishInit ==
  /\ pc = "new" /\ mtls \in BOOLEAN /\ inited = FALSE /\ session = 0 /\ live = {} /\ made = 0
  /\ tries = 0 /\ present = Names /\ changes = 0 /\ calls = 0
  /\ caller \in Callers /\ asked = <<Root, TRUE>>
  /\ pending = {} /\ enumerated = {} /\ todo = {} /\ result = {} /\ dead = {}
  /\ outcome = "none" /\ fetched = {} /\ steady = TRUE /\ loggedIn = FALSE

-----------------------------------------------------------------------------
(* The session *)

\* A BMC that answers 502, or with an attribute missing, leaves the object
\* not initialised; another bad status is raised.
bmc_redfish_init ==
  /\ pc = "new" /\ \/ inited' = TRUE /\ pc' = "idle"
                   \/ ~mtls /\ inited' = FALSE /\ pc' \in {"idle", "end"}
  /\ UNCHANGED <<mtls, session, tries, loggedIn, bmc, calls, caller, asked, walk,
                 outcome, steady>>

login ==
  /\ pc = "idle" /\ calls < MaxCalls /\ calls' = calls + 1 /\ tries' = 0
  /\ \/ ~mtls /\ inited /\ pc' = "login" /\ outcome' = "none" /\ loggedIn' = FALSE
     \/ ~mtls /\ ~inited /\ outcome' = "raised" /\ UNCHANGED <<pc, loggedIn>>
     \/ mtls /\ outcome' = "returned" /\ UNCHANGED <<pc, loggedIn>>
  /\ UNCHANGED <<mtls, inited, session, bmc, caller, asked, walk, steady>>

LoginWorks ==
  /\ pc = "login" /\ made' = made + 1 /\ session' = made' /\ live' = live \cup {made'}
  /\ tries' = tries + 1 /\ pc' = "idle" /\ outcome' = "returned" /\ loggedIn' = TRUE
  /\ UNCHANGED <<mtls, inited, present, changes, calls, caller, asked, walk, steady>>

\* The exceptions of the login: bad credentials and an answer that cannot be
\* decoded are tried once more, a KeyError is raised, and another ValueError
\* is only logged.  An undecodable answer may follow a session that was made.
LoginFails ==
  /\ pc = "login" /\ tries' = tries + 1
  /\ \E what \in {"credentials", "undecodable", "value", "key", "other"} :
       /\ \/ what = "undecodable" /\ made' = made + 1 /\ live' = live \cup {made'}
          \/ UNCHANGED <<made, live>>
       /\ \/ what \in {"credentials", "undecodable"} /\ tries = 0 /\ UNCHANGED <<pc, outcome>>
          \/ what = "value" /\ tries = 0 /\ pc' = "idle" /\ outcome' = "returned"
          \/ /\ what \in {"key", "other"} \/ tries > 0
             /\ pc' = "idle" /\ outcome' = "raised"
  /\ UNCHANGED <<mtls, inited, session, loggedIn, present, changes, calls, caller, asked,
                 walk, steady>>

logout ==
  /\ pc = "idle" /\ session # 0 /\ calls < MaxCalls /\ calls' = calls + 1
  /\ session' = 0 /\ live' = live \ {session} /\ outcome' = "returned" /\ loggedIn' = FALSE
  /\ UNCHANGED <<pc, mtls, inited, tries, made, present, changes, caller, asked, walk, steady>>

-----------------------------------------------------------------------------
(* Requests *)

\* rest_request: an exception of the request is logged and answered with
\* None, a status which is not valid is raised as a ValueError.
valid_http_status_code(status, valid) == status \in valid
rest_request(status, valid) ==
  CASE status = "exception" -> "none"
    [] status # "exception" /\ valid_http_status_code(status, valid) -> status
    [] OTHER -> "raised"

\* What the BMC may answer: the certificate stands for the session when
\* mtls is used, and the plug-in sends its credentials with each request.
Statuses(resource) ==
  {"exception", "500", "405"}
    \cup (IF ~mtls /\ caller # "plugin" /\ session \notin live THEN {"401"}
         ELSE IF resource[1] \in present THEN {"200"} ELSE {"404"})

ValidStatuses == IF caller = "client" THEN {"200", "404", "500"} ELSE {"200", "404", "405", "500"}

-----------------------------------------------------------------------------
(* Enumeration *)

\* The plug-in's pending_enumeration and result are globals of its module.
Fresh == caller # "plugin"

StartOver == enumerated' = {} /\ dead' = {} /\ fetched' = {} /\ steady' = TRUE

\* enumerate, enumerate_request
enumerate ==
  /\ pc = "idle" /\ calls < MaxCalls /\ calls' = calls + 1
  /\ \E name \in {Root} \cup {m[1] : m \in Members(Root)}, slash \in BOOLEAN :
       /\ asked' = <<name, slash>> /\ todo' = {asked'}
       /\ pending' = IF Fresh THEN {asked'} ELSE pending \cup {asked'}
  /\ caller' \in IF caller = "plugin" THEN {"plugin"} ELSE Callers \ {"plugin"}
  /\ result' = IF Fresh THEN {} ELSE result
  /\ StartOver /\ pc' = "walk" /\ outcome' = "none"
  /\ UNCHANGED <<mtls, client, bmc>>

Skips(resource) ==
  /\ pc = "walk" /\ resource \in todo /\ resource[1] \in Unwalked(caller)
  /\ todo' = todo \ {resource} /\ enumerated' = enumerated \cup {resource}
  /\ UNCHANGED <<pc, mtls, client, bmc, calls, caller, asked, pending, result, dead,
                 outcome, fetched, steady>>

\* The names and members in the response: a nested dictionary is walked
\* without its url, so every @odata.id in it is still to be looked up.
Bug_walk_nested_dict(name) == Members(name)
walk_nested_dict(name) == {<<n, FALSE>> : n \in Nested(name)} \cup Members(name)

\* The data is kept under the name, and what it links to is still to be done.
Answered(resource) ==
  /\ pending' = pending \cup walk_nested_dict(resource[1])
  /\ result' = result \cup {resource[1]}
  /\ UNCHANGED <<dead, steady>>

NoAnswer(resource) ==
  dead' = dead \cup {resource} /\ steady' = FALSE /\ UNCHANGED <<pending, result>>

\* One request.  None has no status, so it raises as well; the plug-in goes
\* on after the one error message it knows, and any other error is raised.
Fetch(resource) ==
  /\ pc = "walk" /\ resource \in todo /\ resource[1] \notin Unwalked(caller)
  /\ todo' = todo \ {resource} /\ enumerated' = enumerated \cup {resource}
  /\ fetched' = fetched \cup {resource}
  /\ \E status \in Statuses(resource) :
       LET response == rest_request(status, ValidStatuses)
       IN \/ response = "200" /\ Answered(resource) /\ UNCHANGED <<pc, outcome>>
          \/ /\ response \in {"404", "405", "500"} \/ (caller = "plugin" /\ response # "200")
             /\ NoAnswer(resource) /\ UNCHANGED <<pc, outcome>>
          \/ /\ response \in {"none", "raised"} \/ (caller = "plugin" /\ response # "200")
             /\ pc' = "idle" /\ outcome' = "raised" /\ UNCHANGED <<pending, result, dead, steady>>
  /\ UNCHANGED <<mtls, client, bmc, calls, caller, asked>>

Bug_Left == pending
\* pending_enumeration - enumerated_resources
Left == pending \ enumerated

NextRound ==
  /\ pc = "walk" /\ todo = {}
  /\ \/ Left # {} /\ todo' = Left /\ UNCHANGED <<pc, outcome>>
     \/ Left = {} /\ pc' = "idle" /\ outcome' = "enumerated" /\ UNCHANGED todo
  /\ UNCHANGED <<mtls, client, bmc, calls, caller, asked, pending, enumerated, result,
                 dead, fetched, steady>>

-----------------------------------------------------------------------------
(* The list of two levels: bmc_redfish_utils.list_request *)

list_request ==
  /\ pc = "idle" /\ calls < MaxCalls /\ calls' = calls + 1 /\ "utils" \in Callers
  /\ pc' = "list" /\ outcome' = "none" /\ caller' = "utils" /\ asked' = <<Root, TRUE>>
  /\ todo' = {asked'} /\ pending' = {} /\ result' = {} /\ StartOver
  /\ UNCHANGED <<mtls, client, bmc>>

\* The walk has no url, so the resource's own id is listed as well.
ListLinks(resource) == {<<resource[1], FALSE>>} \cup walk_nested_dict(resource[1])

\* The first answer gives the resources whose links are added, a copy.
ListTodo(resource, found) == IF enumerated = {} THEN found ELSE todo \ {resource}

ListFetch(resource) ==
  /\ pc = "list" /\ resource \in todo
  /\ \E status \in Statuses(resource) :
       LET response == rest_request(status, {"200", "404", "500"})
           found == pending \cup ListLinks(resource)
       IN \/ /\ response = "200" /\ pending' = found /\ todo' = ListTodo(resource, found)
             /\ enumerated' = {asked} /\ UNCHANGED <<pc, outcome, steady>>
          \/ /\ response \in {"404", "500"} /\ todo' = todo \ {resource} /\ steady' = FALSE
             /\ UNCHANGED <<pc, outcome, pending, enumerated>>
          \/ /\ response \in {"none", "raised"} /\ pc' = "idle" /\ outcome' = "raised"
             /\ UNCHANGED <<todo, pending, enumerated, steady>>
  /\ UNCHANGED <<mtls, client, bmc, calls, caller, asked, result, dead, fetched>>

ListDone ==
  /\ pc = "list" /\ todo = {} /\ pc' = "idle" /\ outcome' = "listed"
  /\ UNCHANGED <<mtls, client, bmc, calls, caller, asked, walk, steady>>

-----------------------------------------------------------------------------
(* The BMC: resources come and go, and sessions end *)

BmcChanges ==
  /\ changes < MaxChanges /\ changes' = changes + 1 /\ steady' = FALSE
  /\ \/ \E n \in Names : present' = (present \ {n}) \cup ({n} \ present) /\ UNCHANGED live
     \/ \E s \in live : live' = live \ {s} /\ UNCHANGED present
  /\ UNCHANGED <<pc, mtls, client, made, calls, caller, asked, walk, outcome>>

RedfishNext ==
  \/ bmc_redfish_init \/ login \/ LoginWorks \/ LoginFails \/ logout
  \/ enumerate \/ (\E r \in todo : Skips(r) \/ Fetch(r)) \/ NextRound
  \/ list_request \/ (\E r \in todo : ListFetch(r)) \/ ListDone \/ BmcChanges

RedfishFairness ==
  WF_redfishVars(pc \in {"walk", "list", "login"} /\ RedfishNext /\ changes' = changes)

RedfishSpec == RedfishInit /\ [][RedfishNext]_redfishVars /\ RedfishFairness

-----------------------------------------------------------------------------
(* Properties *)

\* The type of every variable.
RedfishTypeOK ==
  /\ pc \in {"new", "idle", "login", "walk", "list", "end"}
  /\ session \in 0..made /\ live \subseteq 1..made
  /\ pending \subseteq Names \X BOOLEAN /\ todo \subseteq pending \cup {asked}
  /\ result \subseteq Names /\ dead \subseteq fetched

\* The names that can be reached from where the enumeration started, which are
\* in every set that holds what its names link to: what it should find when
\* every resource answers.
Linked(names) == UNION {Nested(n) \cup {m[1] : m \in Members(n)} : n \in names \ Unwalked(caller)}
Closed(names) == asked[1] \in names /\ Linked(names) \subseteq names
Reached == {n \in Names : \A names \in SUBSET Names : Closed(names) => n \in names}

\* An enumeration that returns while nothing changed or failed has the data
\* of all that can be reached from where it started, and of nothing else: in
\* particular nothing of an earlier call (enumerate, enumerate_request).
ResultComplete ==
  outcome = "enumerated" /\ steady /\ fetched # {} /\ Fresh => result = Reached \ Unwalked(caller)

\* A list that is returned while nothing changed or failed holds what the
\* resource and those it links to link to, one level and no more.
ListComplete ==
  outcome = "listed" /\ steady
    => pending = UNION {ListLinks(r) : r \in ListLinks(asked)}

\* Whatever happens, a name is reported with data or its resource as dead
\* once it was requested, and no resource is requested that no answer named.
NothingLost ==
  /\ pc = "walk" \/ outcome = "enumerated" => \A r \in fetched : r \in dead \/ r[1] \in result
  /\ Fresh => \A r \in fetched :
                r = asked \/ \E n \in result : r \in {<<m, FALSE>> : m \in Nested(n)} \cup Members(n)

\* A resource without data in this call is not reported with data, unless it
\* is known by both of its spellings.
DeadNotReported ==
  Fresh => \A r \in dead : r[1] \in result => <<r[1], ~r[2]>> \in fetched

\* A walk does not go round in circles: what was requested in this call is
\* never again to be requested, however the resources link to one another.
FetchedOnce == fetched \cap todo = {}

\* Every login and every enumeration comes to an end.
CallsEnd == (pc \in {"walk", "list", "login"}) ~> (pc = "idle")

\* A login is tried twice at most, so at most one session more than the
\* client knows of is left at the BMC by it.
LoginBounded == tries <= 2 /\ Cardinality(live) <= 2 * calls

\* An enumeration reports all it could reach and nothing else, and accounts for
\* every resource it requested when the BMC changes or does not answer.
WalkRight == RedfishTypeOK /\ ResultComplete /\ ListComplete /\ NothingLost /\ DeadNotReported

\* Neither links that form circles nor logins that fail make the client repeat
\* its requests without end.
RequestsBounded == FetchedOnce /\ LoginBounded

=============================================================================
