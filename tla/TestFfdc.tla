------------------------------ MODULE TestFfdc ------------------------------
(***************************************************************************)
(* The data collected when a robot test fails: lib/openbmc_ffdc.py, which  *)
(* hands its directory and prefix to the keywords it calls in global robot *)
(* variables, lib/dump_utils.py, one of those keywords, run_key of         *)
(* lib/gen_robot_keyword.py, and lib/ffdc_cli_robot_script.py, the other   *)
(* way to collect.  The robot keywords and the BMC are external.           *)
(*                                                                         *)
(* A path is <<directory, prefix, name>>.  A prefix is the second of the   *)
(* time stamp, or 0 for the one a caller gives.                            *)
(***************************************************************************)
EXTENDS Naturals

CONSTANTS
  FfdcMethods,       \* the keywords of FFDC_METHOD_CALL that write a file
  Dumps,             \* the dumps a BMC may have
  MaxCollections,    \* bound: collections
  MaxFfdcSeconds     \* bound: the clock

ASSUME TestFfdcAssumption == MaxCollections \in Nat /\ MaxFfdcSeconds \in Nat

VARIABLES
  collect,           \* the collection under way
  suite,             \* the global robot variables
  collection,        \* its number
  ffdc_second,       \* the clock
  ffdc_disk,         \* path -> the collection that wrote it last
  stamps,            \* history: collection -> its time stamp, if it had to make one
  bmc_dumps          \* the dumps on the BMC

ffdcVars == <<collect, suite, collection, ffdc_second, ffdc_disk, stamps, bmc_dumps>>

NoPath == <<"none", 0>>

\* result: of the last one; todo, left: keywords and dumps still to do;
\* list: the files collected; dumps: those copied so far
FfdcIdle(result, list) ==
  [at |-> "idle", dir |-> "", prefix |-> <<>>, test_mode |-> FALSE, todo |-> {}, left |-> {},
   dumps |-> {}, list |-> list, result |-> result]

FfdcInit ==
  /\ collect = FfdcIdle("none", {}) /\ collection = 0 /\ ffdc_second = 1
  /\ suite = [FFDC_TIME |-> 0, FFDC_DIR_PATH |-> "none", FFDC_PREFIX |-> 0, LOG_PREFIX |-> NoPath,
              FFDC_FILE_PATH |-> NoPath]
  /\ ffdc_disk = <<>> /\ stamps = <<>> /\ bmc_dumps = {}

FfdcEnds(result, list) == collect' = FfdcIdle(result, list)
GoesTo(at) == collect' = [collect EXCEPT !.at = at]
Wrote(paths) ==
  ffdc_disk' = [p \in DOMAIN ffdc_disk \cup paths |->
                  IF p \in paths THEN collection ELSE ffdc_disk[p]]

-----------------------------------------------------------------------------
(* ffdc *)

\* Without ping, or with neither ssh nor the REST or Redfish interface, nothing
\* is collected.
Reachable(state) == state.ping /\ (state.interface \/ state.uptime)

\* The directory and the prefix are given or not.
ffdc ==
  /\ collect.at = "idle" /\ collection < MaxCollections /\ collection' = collection + 1
  /\ \E state \in [ping : BOOLEAN, interface : BOOLEAN, uptime : BOOLEAN], comm_check \in BOOLEAN :
       \/ comm_check /\ ~Reachable(state) /\ FfdcEnds("terminated", {})
       \/ /\ comm_check => Reachable(state)
          /\ \E dir \in {"", "mine"}, prefix \in {<<>>, <<0>>}, test_mode \in BOOLEAN :
               collect' = [FfdcIdle("none", {}) EXCEPT !.at = "defaults", !.dir = dir,
                                                      !.prefix = prefix, !.test_mode = test_mode]
  /\ UNCHANGED <<suite, ffdc_second, ffdc_disk, stamps, bmc_dumps>>

LogPrefix(dir, prefix) == <<dir, prefix>>

\* FFDC_TIME first; the default directory is that of the test or, in the newer
\* style, of the environment or the log file, and finding it may fail.
set_ffdc_defaults ==
  /\ collect.at = "defaults"
  /\ \/ /\ collect.dir = "" /\ FfdcEnds("failed", {})
        /\ suite' = [suite EXCEPT !.FFDC_TIME = ffdc_second] /\ UNCHANGED stamps
     \/ /\ \E found \in IF collect.dir = "" THEN {"test", "logs"} ELSE {collect.dir} :
             LET prefix == IF collect.prefix = <<>> THEN ffdc_second ELSE collect.prefix[1]
             IN  suite' = [suite EXCEPT !.FFDC_TIME = ffdc_second, !.FFDC_DIR_PATH = found,
                                        !.FFDC_PREFIX = prefix,
                                        !.LOG_PREFIX = LogPrefix(found, prefix)]
        /\ stamps' = IF collect.prefix = <<>>
                     THEN [n \in DOMAIN stamps \cup {collection} |->
                             IF n = collection THEN ffdc_second ELSE stamps[n]]
                     ELSE stamps
        /\ GoesTo("directory")
  /\ UNCHANGED <<collection, ffdc_second, ffdc_disk, bmc_dumps>>

\* Create Directory, whose failure ends it; then the file of Header Message.
CreateDirectory ==
  /\ collect.at = "directory"
  /\ \/ FfdcEnds("failed", {}) /\ UNCHANGED suite
     \/ GoesTo("header") /\ suite' = [suite EXCEPT !.FFDC_FILE_PATH = suite.LOG_PREFIX]
  /\ UNCHANGED <<collection, ffdc_second, ffdc_disk, stamps, bmc_dumps>>

PathIn(place, name) == <<place[1], place[2], name>>

\* Mutant: errors of a keyword are always ignored.
Bug_run_key(passed, ignore) == TRUE

\* Whether run_key returns: the keyword passed, or its error is to be ignored.
run_key(passed, ignore) == passed \/ ignore

\* run_key_u Header Message, then Call FFDC Methods.  In test mode the header is
\* not written but named.
HeaderMessage ==
  /\ collect.at = "header"
  /\ \E passed \in BOOLEAN :
       LET file == PathIn(suite.FFDC_FILE_PATH, "BMC_general")
       IN \/ /\ run_key(passed, FALSE)
             /\ collect' = [collect EXCEPT !.at = "methods", !.list = {file},
                                           !.todo = FfdcMethods \cup {"dump"}]
             /\ IF collect.test_mode THEN UNCHANGED ffdc_disk ELSE Wrote({file})
          \/ ~run_key(passed, FALSE) /\ FfdcEnds("failed", {}) /\ UNCHANGED ffdc_disk
  /\ UNCHANGED <<suite, collection, ffdc_second, stamps, bmc_dumps>>

\* One keyword of the list, with its error ignored: it wrote a file and named
\* it, or failed and named none.  In test mode none is run.
MethodRuns(m) ==
  /\ collect.at = "methods" /\ m \in collect.todo \ {"dump"}
  /\ LET file == PathIn(suite.LOG_PREFIX, m)
     IN \/ /\ ~collect.test_mode /\ Wrote({file})
           /\ collect' = [collect EXCEPT !.todo = @ \ {m}, !.list = @ \cup {file}]
        \/ collect' = [collect EXCEPT !.todo = @ \ {m}] /\ UNCHANGED ffdc_disk
  /\ UNCHANGED <<suite, collection, ffdc_second, stamps, bmc_dumps>>

\* The list of the dumps: without any it is one empty name, whose copy fails.
get_dump_dict ==
  /\ collect.at = "methods" /\ "dump" \in collect.todo
  /\ \/ /\ bmc_dumps # {} /\ ~collect.test_mode
        /\ collect' = [collect EXCEPT !.at = "scp", !.todo = @ \ {"dump"}, !.left = bmc_dumps,
                                      !.dumps = {}]
     \/ /\ bmc_dumps = {} \/ collect.test_mode
        /\ collect' = [collect EXCEPT !.todo = @ \ {"dump"}]
  /\ UNCHANGED <<suite, collection, ffdc_second, ffdc_disk, stamps, bmc_dumps>>

\* scp_dumps copies one after the other and ends at the first that fails: its
\* list is lost then, and the files copied stay.
scp_dumps ==
  /\ collect.at = "scp"
  /\ LET place == <<suite.FFDC_DIR_PATH, suite.FFDC_PREFIX>>
     IN \/ /\ collect.left = {}
           /\ collect' = [collect EXCEPT !.at = "methods", !.list = @ \cup collect.dumps]
           /\ UNCHANGED ffdc_disk
        \/ \E d \in collect.left, passed \in BOOLEAN :
             /\ passed => d \in bmc_dumps
             /\ IF passed THEN Wrote({PathIn(place, d)}) ELSE UNCHANGED ffdc_disk
             /\ \/ /\ run_key(passed, FALSE)
                   /\ collect' = [collect EXCEPT !.left = @ \ {d},
                                                 !.dumps = @ \cup {PathIn(place, d)}]
                \/ ~run_key(passed, FALSE) /\ GoesTo("methods")
  /\ UNCHANGED <<suite, collection, ffdc_second, stamps, bmc_dumps>>

\* Both lists, each name once; the closing of the connections may fail.
FfdcReturns ==
  /\ collect.at = "methods" /\ collect.todo = {}
  /\ \/ FfdcEnds(IF collect.test_mode THEN "test_mode" ELSE "returned", collect.list)
     \/ FfdcEnds("failed", {})
  /\ UNCHANGED <<suite, collection, ffdc_second, ffdc_disk, stamps, bmc_dumps>>

-----------------------------------------------------------------------------
(* ffdc_cli_robot_script *)

\* The variable a key of the dictionary is for: the first one whose name is in
\* it, and the name CONFIG is in ECONFIG.
VariableOf(key) == IF key = "ECONFIG" THEN "CONFIG" ELSE key

Needed == {"HOST", "USERNAME", "PASSWORD", "TYPE"}
Ports  == {"SSH_PORT", "HTTPS_PORT", "IPMI_PORT"}

\* The keys with a value: of a call without arguments the robot variables, some
\* of which may have none, and the ports; of a dictionary what its caller put
\* there.
Keys == {Needed \cup Ports, Needed, {"HOST"} \cup Ports, Needed \cup Ports \cup {"ECONFIG"}}

\* The collector gets its arguments if the ones needed are there, which raises
\* when a port, which has no default, is not.  ffdc_robot_script_cli hands a
\* user's keys on as arguments of a function that has none but dict_of_parm:
\* any other key raises before anything is collected.
run_ffdc_collector ==
  /\ collect.at = "idle" /\ collection < MaxCollections /\ collection' = collection + 1
  /\ \/ FfdcEnds("raised", {})
     \/ \E keys \in Keys :
          LET given == {VariableOf(k) : k \in keys}
          IN \/ ~(Needed \subseteq given) /\ FfdcEnds("nothing", {})
             \/ Needed \subseteq given /\ ~(Ports \subseteq given) /\ FfdcEnds("raised", {})
             \/ /\ Needed \cup Ports \subseteq given
                /\ collect' = [FfdcIdle("none", {}) EXCEPT !.at = "script"]
  /\ UNCHANGED <<suite, ffdc_second, ffdc_disk, stamps, bmc_dumps>>

\* this_ffdc.collect_ffdc(), see FfdcCollector; that of a BMC goes on with the
\* system if its name and password are known.
ScriptCollects ==
  /\ collect.at = "script" /\ Wrote({<<"script", collection, "bmc">>})
  /\ \/ FfdcEnds("returned", {<<"script", collection, "bmc">>})
     \/ collect' = [collect EXCEPT !.at = "ping", !.list = {<<"script", collection, "bmc">>}]
  /\ UNCHANGED <<suite, collection, ffdc_second, stamps, bmc_dumps>>

\* A system that does not answer a ping has no type.  For one that does the ssh
\* client is made without its port, which it needs, and that raises: nothing of
\* the system is collected.
get_os_type ==
  /\ collect.at = "ping"
  /\ FfdcEnds("returned", collect.list) \/ FfdcEnds("raised", collect.list)
  /\ UNCHANGED <<suite, collection, ffdc_second, ffdc_disk, stamps, bmc_dumps>>

-----------------------------------------------------------------------------
FfdcSecond ==
  /\ ffdc_second < MaxFfdcSeconds /\ ffdc_second' = ffdc_second + 1
  /\ UNCHANGED <<collect, suite, collection, ffdc_disk, stamps, bmc_dumps>>

\* The BMC makes a dump, or someone deletes one.
DumpsChange ==
  /\ collect.at \in {"methods", "scp"}
  /\ \E d \in Dumps : bmc_dumps' = IF d \in bmc_dumps THEN bmc_dumps \ {d} ELSE bmc_dumps \cup {d}
  /\ UNCHANGED <<collect, suite, collection, ffdc_second, ffdc_disk, stamps>>

FfdcNext ==
  \/ ffdc \/ set_ffdc_defaults \/ CreateDirectory \/ HeaderMessage \/ get_dump_dict \/ scp_dumps
  \/ FfdcReturns \/ run_ffdc_collector \/ ScriptCollects \/ get_os_type
  \/ FfdcSecond \/ DumpsChange
  \/ \E m \in FfdcMethods : MethodRuns(m)

FfdcSpec == FfdcInit /\ [][FfdcNext]_ffdcVars

-----------------------------------------------------------------------------
(* Properties *)

\* The files a collection names are there and are its own, though keywords and
\* copies fail, dumps come and go, and an earlier one may have stopped with
\* some of the global variables set (ffdc, scp_dumps); those of a BMC also when
\* the part for its system raises (run_ffdc_collector).
ListedAreOwn ==
  collect.result \in {"returned", "raised"} =>
    \A p \in collect.list : p \in DOMAIN ffdc_disk /\ ffdc_disk[p] = collection

\* While keywords run, the global variables they use name one place, that of
\* this collection (set_ffdc_defaults, ffdc).
OnePlace ==
  collect.at \in {"methods", "scp"} =>
    /\ suite.LOG_PREFIX = <<suite.FFDC_DIR_PATH, suite.FFDC_PREFIX>>
    /\ suite.FFDC_FILE_PATH = suite.LOG_PREFIX
    /\ collect.dir # "" => suite.FFDC_DIR_PATH = collect.dir
    /\ suite.FFDC_PREFIX = IF collect.prefix = <<>> THEN stamps[collection] ELSE 0

\* A collection puts its files into one place, and names those and no others.
CollectionRight == ListedAreOwn /\ OnePlace

=============================================================================
