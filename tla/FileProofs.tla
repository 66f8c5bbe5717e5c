----------------------------- MODULE FileProofs -----------------------------
(***************************************************************************)
(* Proofs about what programs leave behind in files for others: the data   *)
(* of a failed robot test (TestFfdc), the values that plug-in programs     *)
(* save for each other (PlugInValues), the output of robot itself          *)
(* (RobotCalls) and the results of boot tests (BootResults).  For each, an *)
(* inductive invariant says who owns a file and how far the work on it has *)
(* come.                                                                   *)
(***************************************************************************)
EXTENDS TestFfdc, PlugInValues, RobotCalls, BootResults, FoldProofs, FiniteSetTheorems,
        FunctionTheorems, SequenceTheorems, TLAPS

-----------------------------------------------------------------------------
(* TestFfdc *)

Dirs == {"none", "test", "logs", "mine", "script"}
Places == Dirs \X Nat
Paths == Dirs \X Nat \X (FfdcMethods \cup Dumps \cup {"BMC_general", "bmc"})
Results == {"none", "terminated", "failed", "returned", "test_mode", "nothing", "raised"}
\* The prefix that a caller gives, if any.
Prefixes == {<<>>, <<0>>}
Collects ==
  [at : {"idle", "defaults", "directory", "header", "methods", "scp", "script", "ping"},
   dir : {"", "mine"}, prefix : Prefixes, test_mode : BOOLEAN,
   todo : SUBSET (FfdcMethods \cup {"dump"}), left : SUBSET Dumps, dumps : SUBSET Paths,
   list : SUBSET Paths, result : Results]
Suites == [FFDC_TIME : Nat, FFDC_DIR_PATH : Dirs, FFDC_PREFIX : Nat, LOG_PREFIX : Places,
           FFDC_FILE_PATH : Places]

\* The types of the variables.
FfdcType ==
  /\ collect \in Collects /\ suite \in Suites
  /\ collection \in Nat /\ ffdc_second \in Nat /\ bmc_dumps \in SUBSET Dumps

\* The path is there, and this collection wrote it last.
Own(p) == p \in DOMAIN ffdc_disk /\ ffdc_disk[p] = collection

\* The files named so far are its own, and so are the dumps copied; there is no
\* result yet.
OwnInv ==
  /\ collect.at # "idle" => collect.result = "none"
  /\ collect.at = "scp" => ~collect.test_mode
  /\ collect.at = "ping" => \A p \in collect.list : Own(p)
  /\ collect.at \in {"methods", "scp"} /\ ~collect.test_mode => \A p \in collect.list : Own(p)
  /\ collect.at = "scp" => \A p \in collect.dumps : Own(p)
  /\ collect.result \in {"returned", "raised"} => \A p \in collect.list : Own(p)

\* The variables name one place from set_ffdc_defaults on, that of the header
\* from the making of the directory on.
PlaceInv ==
  /\ collect.at \in {"directory", "header", "methods", "scp"} =>
       /\ suite.LOG_PREFIX = LogPrefix(suite.FFDC_DIR_PATH, suite.FFDC_PREFIX)
       /\ collect.dir # "" => suite.FFDC_DIR_PATH = collect.dir
       /\ suite.FFDC_PREFIX = IF collect.prefix = <<>> THEN stamps[collection] ELSE 0
  /\ collect.at \in {"header", "methods", "scp"} => suite.FFDC_FILE_PATH = suite.LOG_PREFIX

FfdcInv == FfdcType /\ OwnInv /\ PlaceInv

\* A collection that has ended.
LEMMA IdleCollect ==
  ASSUME NEW r \in Results, NEW l \in SUBSET Paths
  PROVE  /\ FfdcIdle(r, l) \in Collects /\ FfdcIdle(r, l).at = "idle"
         /\ FfdcIdle(r, l).result = r /\ FfdcIdle(r, l).list = l
BY DEF FfdcIdle, Collects, Results, Prefixes

\* In the beginning nothing has been collected.
LEMMA FfdcInvInit == FfdcInit => FfdcInv
<1> SUFFICES ASSUME FfdcInit PROVE FfdcInv
  OBVIOUS
<1>1. NoPath \in Places
  BY DEF NoPath, Places, Dirs
<1>2. suite \in Suites
  BY <1>1 DEF FfdcInit, Suites, Dirs
<1>3. collect \in Collects /\ collect.at = "idle" /\ collect.result = "none"
  BY IdleCollect DEF FfdcInit, Results
<1> QED
  BY <1>2, <1>3 DEF FfdcInit, FfdcInv, FfdcType, OwnInv, PlaceInv

\* A file that is written is the collection's own, and the others stay.
LEMMA WroteOwn ==
  ASSUME NEW paths, Wrote(paths), UNCHANGED collection
  PROVE  /\ \A p : Own(p) => Own(p)'
         /\ \A p \in paths : Own(p)'
BY DEF Wrote, Own

\* A collection may always fail, or end with files of its own.
LEMMA CollectEnds ==
  ASSUME FfdcInv, NEW r \in Results, NEW l \in SUBSET Paths, FfdcEnds(r, l), suite' \in Suites,
         collection' \in Nat, UNCHANGED <<ffdc_second, bmc_dumps>>,
         r \in {"returned", "raised"} => \A p \in l : Own(p)'
  PROVE  FfdcInv'
<1>1. collect' \in Collects /\ collect'.at = "idle" /\ collect'.result = r /\ collect'.list = l
  BY IdleCollect DEF FfdcEnds
<1>2. FfdcType'
  BY <1>1 DEF FfdcInv, FfdcType
<1>3. OwnInv'
  BY <1>1 DEF OwnInv
<1>4. PlaceInv'
  BY <1>1 DEF PlaceInv
<1> QED
  BY <1>2, <1>3, <1>4 DEF FfdcInv

\* A keyword, or a copy, keeps the place and what is the collection's own.
LEMMA CollectGoesOn ==
  ASSUME FfdcInv, collect.at \in {"header", "methods", "scp"}, collect' \in Collects,
         collect'.at \in {"methods", "scp"},
         collect'.result = "none", collect'.at = "scp" => ~collect'.test_mode,
         collect'.dir = collect.dir, collect'.prefix = collect.prefix,
         UNCHANGED <<suite, stamps, collection, ffdc_second, bmc_dumps>>,
         ~collect'.test_mode => \A p \in collect'.list : Own(p)',
         collect'.at = "scp" => \A p \in collect'.dumps : Own(p)'
  PROVE  FfdcInv'
<1>1. FfdcType'
  BY DEF FfdcInv, FfdcType
<1>2. OwnInv'
  BY DEF OwnInv
<1>3. PlaceInv'
  BY DEF FfdcInv, PlaceInv
<1> QED
  BY <1>1, <1>2, <1>3 DEF FfdcInv

\* Every step of a collection, and every change around it, keeps the invariant.
LEMMA FfdcInvStep == FfdcInv /\ [FfdcNext]_ffdcVars => FfdcInv'
<1> SUFFICES ASSUME FfdcInv, [FfdcNext]_ffdcVars PROVE FfdcInv'
  OBVIOUS
<1>0. /\ collect \in Collects /\ suite \in Suites /\ bmc_dumps \in SUBSET Dumps
      /\ collection \in Nat /\ ffdc_second \in Nat
  BY DEF FfdcInv, FfdcType
<1>t. collect \in Collects
  BY <1>0
<1>s. suite \in Suites
  BY <1>0
<1>20. ASSUME NEW r \in Results, FfdcEnds(r, {}), suite' \in Suites, collection' \in Nat,
             UNCHANGED <<ffdc_second, bmc_dumps>>
      PROVE  FfdcInv'
  BY <1>20, CollectEnds
<1>1. CASE ffdc
  <2>0. collection' = collection + 1 /\ UNCHANGED <<suite, ffdc_second, ffdc_disk, bmc_dumps>>
    BY <1>1, Zenon DEF ffdc
  <2>1. CASE FfdcEnds("terminated", {})
    BY <1>0, <1>20, <2>0, <2>1 DEF Results
  <2> DEFINE c == FfdcIdle("none", {})
  <2>2. c \in Collects /\ c.result = "none"
    BY ONLY IdleCollect DEF Results
  <2>3. collection' \in Nat
    BY ONLY <1>0, <2>0
  <2> HIDE DEF c
  <2>4. ASSUME NEW dir \in {"", "mine"}, NEW prefix \in Prefixes, NEW test_mode \in BOOLEAN,
               collect' = [c EXCEPT !.at = "defaults", !.dir = dir, !.prefix = prefix,
                                    !.test_mode = test_mode]
        PROVE  collect' \in Collects /\ collect'.at = "defaults" /\ collect'.result = "none"
    BY ONLY <2>2, <2>4 DEF Collects
  <2>5. ASSUME collect' \in Collects, collect'.at = "defaults", collect'.result = "none"
        PROVE  FfdcInv'
    BY <1>0, <2>0, <2>3, <2>5 DEF FfdcInv, FfdcType, OwnInv, PlaceInv
  <2> QED
    BY <1>1, <2>1, <2>4, <2>5 DEF ffdc, c, Prefixes
<1>2. CASE set_ffdc_defaults
  <2>1. collect.at = "defaults" /\ UNCHANGED <<collection, ffdc_second, ffdc_disk, bmc_dumps>>
    BY <1>2 DEF set_ffdc_defaults
  <2>2. CASE FfdcEnds("failed", {}) /\ suite' = [suite EXCEPT !.FFDC_TIME = ffdc_second]
    <3>1. suite' \in Suites
      BY <1>0, <2>2 DEF Suites
    <3> QED
      BY <1>0, <1>20, <2>1, <2>2, <3>1 DEF Results
  <2> DEFINE prefix == IF collect.prefix = <<>> THEN ffdc_second ELSE collect.prefix[1]
             Found(found) ==
               suite' = [suite EXCEPT !.FFDC_TIME = ffdc_second, !.FFDC_DIR_PATH = found,
                                      !.FFDC_PREFIX = prefix,
                                      !.LOG_PREFIX = LogPrefix(found, prefix)]
  <2>3. CASE /\ \E found \in IF collect.dir = "" THEN {"test", "logs"} ELSE {collect.dir} : Found(found)
             /\ stamps' = IF collect.prefix = <<>>
                          THEN [n \in DOMAIN stamps \cup {collection} |->
                                  IF n = collection THEN ffdc_second ELSE stamps[n]]
                          ELSE stamps
             /\ GoesTo("directory")
    <3>1. PICK found \in {"test", "logs", "mine"} :
            Found(found) /\ (collect.dir # "" => found = collect.dir)
      <4>1. collect.dir \in {"", "mine"}
        BY ONLY <1>0 DEF Collects
      <4> HIDE DEF Found
      <4>2. \E found \in IF collect.dir = "" THEN {"test", "logs"} ELSE {collect.dir} : Found(found)
        BY <2>3
      <4> QED
        BY ONLY <4>1, <4>2
    <3>2. prefix \in Nat /\ (collect.prefix # <<>> => prefix = 0)
      <4>1. collect.prefix \in Prefixes
        BY <1>0 DEF Collects
      <4>2. CASE collect.prefix = <<>>
        BY <1>0, <4>2
      <4>3. CASE collect.prefix = <<0>>
        BY <4>3
      <4> QED
        BY <4>1, <4>2, <4>3 DEF Prefixes
    <3>3. collect.prefix = <<>> => prefix = stamps'[collection]
      BY <2>3
    <3> HIDE DEF prefix
    <3>4. LogPrefix(found, prefix) \in Places /\ found \in Dirs
      BY <3>2 DEF LogPrefix, Places, Dirs
    <3>5. /\ suite' \in Suites /\ suite'.FFDC_DIR_PATH = found /\ suite'.FFDC_PREFIX = prefix
          /\ suite'.LOG_PREFIX = LogPrefix(found, prefix)
      BY <1>0, <3>1, <3>2, <3>4 DEF Suites
    <3>6. /\ collect' \in Collects /\ collect'.at = "directory" /\ collect'.result = collect.result
          /\ collect'.dir = collect.dir /\ collect'.prefix = collect.prefix
      BY <1>t, <2>3 DEF GoesTo, Collects
    <3>7. FfdcType'
      BY <1>0, <2>1, <3>5, <3>6 DEF FfdcType
    <3>8. OwnInv'
      BY <2>1, <3>6 DEF FfdcInv, OwnInv
    <3>9. PlaceInv'
      BY <2>1, <3>1, <3>2, <3>3, <3>5, <3>6 DEF PlaceInv
    <3> QED
      BY <3>7, <3>8, <3>9 DEF FfdcInv
  <2> QED
    BY <1>2, <2>2, <2>3 DEF set_ffdc_defaults
<1>3. CASE CreateDirectory
  <2>1. /\ collect.at = "directory"
        /\ UNCHANGED <<collection, ffdc_second, ffdc_disk, stamps, bmc_dumps>>
    BY <1>3 DEF CreateDirectory
  <2>2. CASE FfdcEnds("failed", {}) /\ UNCHANGED suite
    BY <1>0, <1>20, <2>1, <2>2 DEF Results
  <2>3. CASE GoesTo("header") /\ suite' = [suite EXCEPT !.FFDC_FILE_PATH = suite.LOG_PREFIX]
    <3>1. /\ suite' \in Suites /\ suite'.FFDC_DIR_PATH = suite.FFDC_DIR_PATH
          /\ suite'.FFDC_PREFIX = suite.FFDC_PREFIX /\ suite'.LOG_PREFIX = suite.LOG_PREFIX
          /\ suite'.FFDC_FILE_PATH = suite.LOG_PREFIX
      BY <1>s, <2>3 DEF Suites
    <3>2. /\ collect' \in Collects /\ collect'.at = "header" /\ collect'.result = collect.result
          /\ collect'.dir = collect.dir /\ collect'.prefix = collect.prefix
      BY <1>t, <2>3 DEF GoesTo, Collects
    <3>3. FfdcType'
      BY <1>0, <2>1, <3>1, <3>2 DEF FfdcType
    <3>4. OwnInv'
      BY <2>1, <3>2 DEF FfdcInv, OwnInv
    <3>5. PlaceInv'
      BY <2>1, <3>1, <3>2 DEF FfdcInv, PlaceInv
    <3> QED
      BY <3>3, <3>4, <3>5 DEF FfdcInv
  <2> QED
    BY <1>3, <2>2, <2>3 DEF CreateDirectory
<1>4. CASE HeaderMessage
  <2>1. collect.at = "header" /\ UNCHANGED <<suite, collection, ffdc_second, stamps, bmc_dumps>>
    BY <1>4 DEF HeaderMessage
  <2>2. PICK file \in Paths : file = PathIn(suite.FFDC_FILE_PATH, "BMC_general")
    BY <1>0 DEF PathIn, Paths, Suites, Places
  <2>3. CASE FfdcEnds("failed", {})
    BY <1>0, <1>20, <2>1, <2>3 DEF Results
  <2>4. CASE /\ collect' = [collect EXCEPT !.at = "methods", !.list = {file},
                                           !.todo = FfdcMethods \cup {"dump"}]
             /\ IF collect.test_mode THEN UNCHANGED ffdc_disk ELSE Wrote({file})
    <3>1. /\ collect' \in Collects /\ collect'.at = "methods" /\ collect'.list = {file}
          /\ collect'.result = collect.result /\ collect'.test_mode = collect.test_mode
          /\ collect'.dir = collect.dir /\ collect'.prefix = collect.prefix
      BY <1>t, <2>2, <2>4 DEF Collects
    <3>2. ~collect.test_mode => Own(file)'
      BY <2>1, <2>4, WroteOwn
    <3>3. collect.result = "none"
      BY <2>1 DEF FfdcInv, OwnInv
    <3> QED
      BY <2>1, <3>1, <3>2, <3>3, CollectGoesOn
  <2> QED
    BY <1>4, <2>2, <2>3, <2>4 DEF HeaderMessage
<1>5. ASSUME NEW m \in FfdcMethods, MethodRuns(m) PROVE FfdcInv'
  <2>1. collect.at = "methods" /\ UNCHANGED <<suite, collection, ffdc_second, stamps, bmc_dumps>>
    BY <1>5 DEF MethodRuns
  <2>2. PICK file \in Paths : file = PathIn(suite.LOG_PREFIX, m)
    BY <1>0 DEF PathIn, Paths, Suites, Places
  <2>3. collect.result = "none" /\ (~collect.test_mode => \A p \in collect.list : Own(p))
    BY <2>1 DEF FfdcInv, OwnInv
  <2>4. CASE /\ ~collect.test_mode /\ Wrote({file})
             /\ collect' = [collect EXCEPT !.todo = @ \ {m}, !.list = @ \cup {file}]
    <3>1. /\ collect' \in Collects /\ collect'.at = "methods" /\ collect'.list = collect.list \cup {file}
          /\ collect'.result = collect.result /\ collect'.test_mode = collect.test_mode
          /\ collect'.dir = collect.dir /\ collect'.prefix = collect.prefix
      BY <1>t, <2>1, <2>2, <2>4 DEF Collects
    <3>2. \A p \in collect'.list : Own(p)'
      BY <2>1, <2>3, <2>4, <3>1, WroteOwn
    <3> QED
      BY <2>1, <2>3, <3>1, <3>2, CollectGoesOn
  <2>5. CASE collect' = [collect EXCEPT !.todo = @ \ {m}] /\ UNCHANGED ffdc_disk
    <3>1. /\ collect' \in Collects /\ collect'.at = "methods" /\ collect'.list = collect.list
          /\ collect'.result = collect.result /\ collect'.test_mode = collect.test_mode
          /\ collect'.dir = collect.dir /\ collect'.prefix = collect.prefix
      BY <1>t, <2>1, <2>5 DEF Collects
    <3>2. ~collect'.test_mode => \A p \in collect'.list : Own(p)'
      BY <2>1, <2>3, <2>5, <3>1 DEF Own
    <3> QED
      BY <2>1, <2>3, <3>1, <3>2, CollectGoesOn
  <2> QED
    BY <1>5, <2>2, <2>4, <2>5 DEF MethodRuns
<1>6. CASE get_dump_dict
  <2>1. /\ collect.at = "methods"
        /\ UNCHANGED <<suite, collection, ffdc_second, ffdc_disk, stamps, bmc_dumps>>
    BY <1>6 DEF get_dump_dict
  <2>2. collect.result = "none" /\ (~collect.test_mode => \A p \in collect.list : Own(p)')
    BY <2>1 DEF FfdcInv, OwnInv, Own
  <2>3. CASE /\ ~collect.test_mode
             /\ collect' = [collect EXCEPT !.at = "scp", !.todo = @ \ {"dump"}, !.left = bmc_dumps,
                                           !.dumps = {}]
    <3>1. /\ collect' \in Collects /\ collect'.at = "scp" /\ collect'.list = collect.list
          /\ collect'.result = collect.result /\ collect'.test_mode = collect.test_mode
          /\ collect'.dir = collect.dir /\ collect'.prefix = collect.prefix /\ collect'.dumps = {}
      BY <1>0, <1>t, <2>3 DEF Collects
    <3> QED
      BY <2>1, <2>2, <2>3, <3>1, CollectGoesOn
  <2>4. CASE collect' = [collect EXCEPT !.todo = @ \ {"dump"}]
    <3>1. /\ collect' \in Collects /\ collect'.at = "methods" /\ collect'.list = collect.list
          /\ collect'.result = collect.result /\ collect'.test_mode = collect.test_mode
          /\ collect'.dir = collect.dir /\ collect'.prefix = collect.prefix
      BY <1>t, <2>1, <2>4 DEF Collects
    <3> QED
      BY <2>1, <2>2, <3>1, CollectGoesOn
  <2> QED
    BY <1>6, <2>3, <2>4 DEF get_dump_dict
<1>7. CASE scp_dumps
  <2> DEFINE file(d) == PathIn(<<suite.FFDC_DIR_PATH, suite.FFDC_PREFIX>>, d)
  <2>1. collect.at = "scp" /\ UNCHANGED <<suite, collection, ffdc_second, stamps, bmc_dumps>>
    BY <1>7 DEF scp_dumps
  <2>2. /\ collect.result = "none" /\ ~collect.test_mode
        /\ (\A p \in collect.list : Own(p)) /\ \A p \in collect.dumps : Own(p)
    BY <2>1 DEF FfdcInv, OwnInv
  <2>3. \A d \in Dumps : file(d) \in Paths
    BY <1>0 DEF PathIn, Paths, Suites
  <2> HIDE DEF file
  <2>4. CASE /\ collect' = [collect EXCEPT !.at = "methods", !.list = @ \cup collect.dumps]
             /\ UNCHANGED ffdc_disk
    <3>1. /\ collect' \in Collects /\ collect'.at = "methods"
          /\ collect'.list = collect.list \cup collect.dumps
          /\ collect'.result = collect.result /\ collect'.test_mode = collect.test_mode
          /\ collect'.dir = collect.dir /\ collect'.prefix = collect.prefix
      BY <1>t, <2>4 DEF Collects
    <3>2. \A p \in collect'.list : Own(p)'
      BY <2>1, <2>2, <2>4, <3>1 DEF Own
    <3> QED
      BY <2>1, <2>2, <3>1, <3>2, CollectGoesOn
  <2>5. ASSUME NEW d \in collect.left, NEW passed \in BOOLEAN,
               IF passed THEN Wrote({file(d)}) ELSE UNCHANGED ffdc_disk,
               \/ /\ run_key(passed, FALSE)
                  /\ collect' = [collect EXCEPT !.left = @ \ {d}, !.dumps = @ \cup {file(d)}]
               \/ ~run_key(passed, FALSE) /\ GoesTo("methods")
        PROVE  FfdcInv'
    <3>1. PICK f \in Paths : f = file(d)
      BY <1>0, <2>3, <2>5 DEF Collects
    <3>2. (\A p : Own(p) => Own(p)') /\ (passed => Own(f)')
      <4>1. CASE passed
        BY <2>1, <2>5, <3>1, <4>1, WroteOwn
      <4>2. CASE ~passed
        BY <2>1, <2>5, <4>2 DEF Own
      <4> QED
        BY <4>1, <4>2
    <3>3. CASE passed /\ collect' = [collect EXCEPT !.left = @ \ {d}, !.dumps = @ \cup {f}]
      <4>1. /\ collect' \in Collects /\ collect'.at = "scp" /\ collect'.list = collect.list
            /\ collect'.dumps = collect.dumps \cup {f}
            /\ collect'.result = collect.result /\ collect'.test_mode = collect.test_mode
            /\ collect'.dir = collect.dir /\ collect'.prefix = collect.prefix
        BY <1>t, <2>1, <3>3 DEF Collects
      <4>2. (\A p \in collect'.list : Own(p)') /\ \A p \in collect'.dumps : Own(p)'
        BY <2>2, <3>2, <3>3, <4>1
      <4> QED
        BY <2>1, <2>2, <4>1, <4>2, CollectGoesOn
    <3>4. CASE GoesTo("methods")
      <4>1. /\ collect' \in Collects /\ collect'.at = "methods" /\ collect'.list = collect.list
            /\ collect'.result = collect.result /\ collect'.test_mode = collect.test_mode
            /\ collect'.dir = collect.dir /\ collect'.prefix = collect.prefix
        BY <1>t, <3>4 DEF Collects, GoesTo
      <4>2. \A p \in collect'.list : Own(p)'
        BY <2>2, <3>2, <4>1
      <4> QED
        BY <2>1, <2>2, <4>1, <4>2, CollectGoesOn
    <3> QED
      BY <2>5, <3>1, <3>3, <3>4 DEF run_key
  <2> QED
    BY <1>7, <2>4, <2>5 DEF scp_dumps, file
<1>8. CASE FfdcReturns
  <2>1. /\ collect.at = "methods"
        /\ UNCHANGED <<suite, collection, ffdc_second, ffdc_disk, stamps, bmc_dumps>>
    BY <1>8 DEF FfdcReturns
  <2>2. collect.list \in SUBSET Paths /\ (~collect.test_mode => \A p \in collect.list : Own(p)')
    BY <1>0, <2>1 DEF Collects, FfdcInv, OwnInv, Own
  <2>3. CASE FfdcEnds("failed", {})
    BY <1>0, <1>20, <2>1, <2>3 DEF Results
  <2>4. CASE FfdcEnds(IF collect.test_mode THEN "test_mode" ELSE "returned", collect.list)
    <3>1. CASE collect.test_mode
      BY <1>0, <2>1, <2>2, <2>4, <3>1, CollectEnds DEF Results
    <3>2. CASE ~collect.test_mode
      BY <1>0, <2>1, <2>2, <2>4, <3>2, CollectEnds DEF Results
    <3> QED
      BY <3>1, <3>2
  <2> QED
    BY <1>8, <2>3, <2>4 DEF FfdcReturns
<1>9. CASE run_ffdc_collector
  <2>1. collection' \in Nat /\ UNCHANGED <<suite, ffdc_second, ffdc_disk, stamps, bmc_dumps>>
    BY <1>0, <1>9 DEF run_ffdc_collector
  <2>2. ASSUME NEW r \in {"nothing", "raised"}, FfdcEnds(r, {}) PROVE FfdcInv'
    BY <1>0, <1>20, <2>1, <2>2 DEF Results
  <2>3. CASE collect' = [FfdcIdle("none", {}) EXCEPT !.at = "script"]
    <3> DEFINE c == FfdcIdle("none", {})
    <3>1. c \in Collects /\ c.result = "none"
      BY ONLY IdleCollect DEF Results
    <3> HIDE DEF c
    <3>2. collect' \in Collects /\ collect'.at = "script" /\ collect'.result = "none"
      BY ONLY <2>3, <3>1 DEF Collects, c
    <3> QED
      BY <1>0, <2>1, <3>2 DEF FfdcInv, FfdcType, OwnInv, PlaceInv
  <2> QED
    BY <1>9, <2>2, <2>3 DEF run_ffdc_collector
<1>10. CASE ScriptCollects
  <2>0. PICK file \in Paths : file = <<"script", collection, "bmc">>
    BY <1>0 DEF Paths, Dirs
  <2>1. /\ collect.at = "script" /\ Wrote({file})
        /\ UNCHANGED <<suite, collection, ffdc_second, stamps, bmc_dumps>>
    BY <1>10, <2>0 DEF ScriptCollects
  <2>2. Own(file)' /\ {file} \in SUBSET Paths
    BY <2>1, WroteOwn
  <2>3. CASE FfdcEnds("returned", {file})
    BY <1>0, <2>1, <2>2, <2>3, CollectEnds DEF Results
  <2>4. CASE collect' = [collect EXCEPT !.at = "ping", !.list = {file}]
    <3>1. /\ collect' \in Collects /\ collect'.at = "ping" /\ collect'.list = {file}
          /\ collect'.result = collect.result
      BY <1>t, <2>2, <2>4 DEF Collects
    <3>2. FfdcType'
      BY <1>0, <2>1, <3>1 DEF FfdcType
    <3>3. OwnInv' /\ PlaceInv'
      BY <2>1, <2>2, <3>1 DEF FfdcInv, OwnInv, PlaceInv
    <3> QED
      BY <3>2, <3>3 DEF FfdcInv
  <2> QED
    BY <1>10, <2>0, <2>3, <2>4 DEF ScriptCollects
<1>11. CASE get_os_type
  <2>1. /\ collect.at = "ping"
        /\ UNCHANGED <<suite, collection, ffdc_second, ffdc_disk, stamps, bmc_dumps>>
    BY <1>11 DEF get_os_type
  <2>2. collect.list \in SUBSET Paths /\ \A p \in collect.list : Own(p)'
    BY <1>0, <2>1 DEF Collects, FfdcInv, OwnInv, Own
  <2> QED
    BY <1>0, <1>11, <2>1, <2>2, CollectEnds DEF get_os_type, Results
<1>12. CASE FfdcSecond \/ DumpsChange
  <2>1. /\ UNCHANGED <<collect, suite, collection, ffdc_disk, stamps>>
        /\ ffdc_second' \in Nat /\ bmc_dumps' \in SUBSET Dumps
    BY <1>0, <1>12 DEF FfdcSecond, DumpsChange
  <2> QED
    BY <2>1 DEF FfdcInv, FfdcType, OwnInv, Own, PlaceInv
<1>13. CASE UNCHANGED ffdcVars
  BY <1>13 DEF ffdcVars, FfdcInv, FfdcType, OwnInv, Own, PlaceInv
<1> QED
  BY <1>1, <1>2, <1>3, <1>4, <1>5, <1>6, <1>7, <1>8, <1>9, <1>10, <1>11, <1>12, <1>13 DEF FfdcNext

\* A collection puts its files into one place, and names those and no others,
\* for any keywords and dumps, any number of collections and any clock.
THEOREM CollectionsAreRight == FfdcSpec => []CollectionRight
<1>1. FfdcInv => CollectionRight
  BY DEF FfdcInv, OwnInv, Own, PlaceInv, LogPrefix, CollectionRight, ListedAreOwn, OnePlace
<1> QED
  BY FfdcInvInit, FfdcInvStep, <1>1, PTL DEF FfdcSpec
-----------------------------------------------------------------------------
(* PlugInValues *)

SavedOrNone == SavedValues \cup {Nothing}
Texts == {"none", "empty"} \cup {v.text : v \in SavedValues}
GivenValues == SavedOrNone \cup Defaults
GotValues == GivenValues \cup {FromText(v.type, t) : v \in GivenValues, t \in Texts}
TestRun == [pid : RunPids, live : BOOLEAN, saved : SavedOrNone, clean : BOOLEAN]
PgmPcs == {"idle", "save", "restore", "delete", "truncate", "write", "isfile", "read", "done"}
Pgm == [run : Nat, at : PgmPcs, op : {"none", "save", "restore", "delete"}, value : GivenValues,
        result : GotValues, seen : SUBSET SavedOrNone]
Dirs0 == {0} \cup RunPids

\* The types of the variables.
ValuesType ==
  /\ test_runs \in Seq(TestRun) /\ progs \in [PlugInPgms -> Pgm]
  /\ save_files \in [Dirs0 -> Texts]

\* Live test runs have pids of their own.
PidInv == \A r, s \in DOMAIN test_runs :
  test_runs[r].live /\ test_runs[s].live /\ r # s => test_runs[r].pid # test_runs[s].pid

\* A program belongs to a live test run, and does what it was started for.
PgmInv == \A p \in PlugInPgms :
  /\ progs[p].at # "idle" => progs[p].run \in DOMAIN test_runs /\ test_runs[progs[p].run].live
  /\ progs[p].at \in {"save", "truncate", "write"} =>
       progs[p].op = "save" /\ progs[p].value \in SavedValues
  /\ progs[p].at \in {"restore", "delete"} => progs[p].op = progs[p].at

\* The file of a live test run that began without one holds the value saved last,
\* unless a program is about to write it or was stopped there.
FileInv == \A r \in DOMAIN test_runs :
  test_runs[r].live /\ test_runs[r].clean =>
    LET text == save_files[test_runs[r].pid] IN
    /\ text = "none" => test_runs[r].saved = Nothing
    /\ text \notin {"none", "empty"} =>
         test_runs[r].saved # Nothing /\ text = test_runs[r].saved.text

\* A program at work has seen the value its run has now.
SeenInv == \A p \in PlugInPgms :
  progs[p].at \notin {"idle", "done"} => test_runs[progs[p].run].saved \in progs[p].seen

ValuesInv == ValuesType /\ PidInv /\ PgmInv /\ FileInv /\ SeenInv /\ OwnValue

\* In the beginning there is no test run.
LEMMA ValuesInvInit == ValuesInit => ValuesInv
<1> SUFFICES ASSUME ValuesInit PROVE ValuesInv
  OBVIOUS
<1>1. IdlePgm \in Pgm /\ IdlePgm.at = "idle"
  BY DEF IdlePgm, Pgm, PgmPcs, GotValues, GivenValues, SavedOrNone
<1>2. test_runs = <<>> /\ DOMAIN test_runs = {} /\ test_runs \in Seq(TestRun)
  BY EmptySeq DEF ValuesInit
<1>3. progs \in [PlugInPgms -> Pgm] /\ \A p \in PlugInPgms : progs[p].at = "idle"
  BY <1>1 DEF ValuesInit
<1>4. ValuesType
  BY <1>2, <1>3 DEF ValuesInit, ValuesType, Texts, Dirs0
<1>5. PidInv /\ FileInv
  BY <1>2 DEF PidInv, FileInv
<1>6. PgmInv /\ SeenInv /\ OwnValue
  BY <1>3 DEF PgmInv, SeenInv, OwnValue
<1> QED
  BY <1>4, <1>5, <1>6 DEF ValuesInv

\* What a program that is through with a restore has got.
GotRight(p) ==
  \E w \in progs[p].seen :
    progs[p].result = (IF w = Nothing THEN progs[p].value ELSE FromText(progs[p].value.type, w.text))

\* The files of the test runs, when nothing happens to them.
LEMMA FilesKept ==
  ASSUME ValuesInv, UNCHANGED <<test_runs, save_files>>
  PROVE  FileInv' /\ save_files' \in [Dirs0 -> Texts]
BY DEF ValuesInv, ValuesType, FileInv

\* A step of one program that leaves the test runs alone.
LEMMA PgmSteps ==
  ASSUME ValuesInv, NEW p \in PlugInPgms, NEW c \in Pgm, progs' = [progs EXCEPT ![p] = c],
         UNCHANGED test_runs, FileInv', save_files' \in [Dirs0 -> Texts],
         c.at # "idle" => c.run \in DOMAIN test_runs /\ test_runs[c.run].live,
         c.at \in {"save", "truncate", "write"} => c.op = "save" /\ c.value \in SavedValues,
         c.at \in {"restore", "delete"} => c.op = c.at,
         c.at \notin {"idle", "done"} => test_runs[c.run].saved \in c.seen,
         c.op = "restore" /\ c.at = "done" /\ c.result # Raised /\ test_runs[c.run].clean
           => GotRight(p)'
  PROVE  ValuesInv'
<1>1. /\ progs \in [PlugInPgms -> Pgm] /\ progs' \in [PlugInPgms -> Pgm] /\ progs'[p] = c
      /\ \A q \in PlugInPgms : q # p => progs'[q] = progs[q]
  BY DEF ValuesInv, ValuesType
<1>2. ValuesType'
  BY <1>1 DEF ValuesInv, ValuesType
<1>3. PidInv'
  BY DEF ValuesInv, PidInv
<1>4. PgmInv'
  BY <1>1 DEF ValuesInv, PgmInv
<1>5. SeenInv'
  BY <1>1 DEF ValuesInv, SeenInv
<1>6. OwnValue'
  <2>1. ASSUME NEW q \in PlugInPgms, q # p, progs'[q] = progs[q]
        PROVE  \/ ~(/\ progs[q].op = "restore" /\ progs[q].at = "done" /\ progs[q].result # Raised
                    /\ test_runs[progs[q].run].clean)
               \/ GotRight(q)'
    BY <2>1 DEF ValuesInv, OwnValue, GotRight
  <2> QED
    BY <1>1, <2>1 DEF OwnValue, GotRight
<1> QED
  BY <1>2, <1>3, <1>4, <1>5, <1>6 DEF ValuesInv

\* A test run, and the directory of a program, by the types.
LEMMA RunOfPgm ==
  ASSUME ValuesInv, NEW p \in PlugInPgms, progs[p].at # "idle"
  PROVE  /\ progs[p] \in Pgm /\ progs[p].run \in DOMAIN test_runs
         /\ test_runs[progs[p].run] \in TestRun /\ test_runs[progs[p].run].live
         /\ SaveDir(p) = test_runs[progs[p].run].pid /\ SaveDir(p) \in Dirs0
<1>1. /\ progs[p] \in Pgm /\ progs[p].run \in DOMAIN test_runs /\ test_runs[progs[p].run].live
  BY DEF ValuesInv, ValuesType, PgmInv
<1>2. test_runs \in Seq(TestRun)
  BY DEF ValuesInv, ValuesType
<1>3. test_runs[progs[p].run] \in TestRun
  BY <1>1, <1>2
<1> QED
  BY <1>1, <1>3 DEF SaveDir, compose_plug_in_save_dir_path, TestRun, Dirs0

\* A program writes the file of its test run, or deletes it.
LEMMA RunSets ==
  ASSUME ValuesInv, NEW p \in PlugInPgms, progs[p].at \in {"write", "delete"},
         NEW v \in SavedOrNone, NEW text \in Texts, PgmSets(p, v),
         save_files' = [save_files EXCEPT ![SaveDir(p)] = text],
         text = "none" => v = Nothing,
         text \notin {"none", "empty"} => v # Nothing /\ text = v.text
  PROVE  ValuesInv'
<1> DEFINE r == progs[p].run
           t == [test_runs[r] EXCEPT !.saved = v]
<1>1. /\ progs[p] \in Pgm /\ r \in DOMAIN test_runs /\ test_runs[r] \in TestRun /\ test_runs[r].live
      /\ SaveDir(p) = test_runs[r].pid /\ SaveDir(p) \in Dirs0
  BY RunOfPgm
<1>2. /\ test_runs \in Seq(TestRun) /\ DOMAIN test_runs = 1..Len(test_runs)
      /\ progs \in [PlugInPgms -> Pgm] /\ save_files \in [Dirs0 -> Texts]
  BY LenProperties DEF ValuesInv, ValuesType
<1>3. test_runs[r] \in TestRun
  BY <1>1
<1> HIDE DEF r
<1>4. /\ t \in TestRun /\ t.pid = test_runs[r].pid /\ t.live = test_runs[r].live
      /\ t.clean = test_runs[r].clean /\ t.saved = v
  BY ONLY <1>3, v \in SavedOrNone DEF TestRun
<1>5. test_runs' = [test_runs EXCEPT ![r] = t]
  BY DEF PgmSets, r
<1> HIDE DEF t
<1>6. /\ test_runs' \in Seq(TestRun) /\ DOMAIN test_runs' = DOMAIN test_runs
      /\ test_runs'[r] = t
      /\ \A s \in DOMAIN test_runs : s # r => test_runs'[s] = test_runs[s]
  BY <1>1, <1>2, <1>4, <1>5, ExceptSeq, LenProperties
<1>7. ASSUME NEW q \in PlugInPgms
      PROVE  /\ progs'[q] \in Pgm /\ progs'[q].run = progs[q].run /\ progs'[q].op = progs[q].op
             /\ progs'[q].value = progs[q].value /\ progs'[q].result = progs[q].result
             /\ progs'[q].at = IF q = p THEN "done" ELSE progs[q].at
             /\ progs[q].seen \subseteq progs'[q].seen
             /\ q # p /\ progs[q].run = r => v \in progs'[q].seen
  <2>0. progs[q] \in Pgm
    BY <1>2
  <2>1. CASE q = p
    <3>1. progs'[q] = [progs[q] EXCEPT !.at = "done"]
      BY <2>1 DEF PgmSets
    <3> QED
      BY ONLY <2>0, <2>1, <3>1 DEF Pgm, PgmPcs
  <2>2. CASE q # p /\ progs[q].run = r
    <3>1. progs'[q] = [progs[q] EXCEPT !.seen = @ \cup {v}]
      BY <2>2 DEF PgmSets, r
    <3> QED
      BY ONLY <2>0, <2>2, <3>1, v \in SavedOrNone DEF Pgm
  <2>3. CASE q # p /\ progs[q].run # r
    <3>1. progs'[q] = progs[q]
      BY <2>3 DEF PgmSets, r
    <3> QED
      BY ONLY <2>0, <2>3, <3>1
  <2> QED
    BY <2>1, <2>2, <2>3
<1>8. ValuesType'
  <2>1. progs' \in [PlugInPgms -> Pgm]
    <3>1. progs' = [q \in PlugInPgms |-> progs'[q]]
      BY DEF PgmSets
    <3> QED
      BY <1>7, <3>1
  <2> QED
    BY <1>1, <1>2, <1>6, <2>1 DEF ValuesType
<1>9. \A s \in DOMAIN test_runs :
        /\ test_runs'[s].pid = test_runs[s].pid /\ test_runs'[s].live = test_runs[s].live
        /\ test_runs'[s].clean = test_runs[s].clean
  BY <1>4, <1>6
<1>10. PidInv'
  BY <1>6, <1>9 DEF ValuesInv, PidInv
<1>11. PgmInv'
  BY <1>6, <1>7, <1>9 DEF ValuesInv, PgmInv
<1>12. FileInv'
  <2> SUFFICES ASSUME NEW s \in DOMAIN test_runs, test_runs[s].live, test_runs[s].clean
               PROVE  LET f == save_files'[test_runs[s].pid] IN
                      /\ f = "none" => test_runs'[s].saved = Nothing
                      /\ f \notin {"none", "empty"} =>
                           test_runs'[s].saved # Nothing /\ f = test_runs'[s].saved.text
    BY <1>6, <1>9 DEF FileInv
  <2>1. CASE s = r
    BY <1>1, <1>2, <1>4, <1>6, <2>1
  <2>2. CASE s # r
    <3>1. test_runs[s].pid # test_runs[r].pid
      BY <1>1, <2>2 DEF ValuesInv, PidInv
    <3>2. save_files'[test_runs[s].pid] = save_files[test_runs[s].pid]
      BY <1>1, <1>2, <3>1
    <3> QED
      BY <1>6, <2>2, <3>2 DEF ValuesInv, FileInv
  <2> QED
    BY <2>1, <2>2
<1>13. SeenInv'
  <2> SUFFICES ASSUME NEW q \in PlugInPgms, progs'[q].at \notin {"idle", "done"}
               PROVE  test_runs'[progs[q].run].saved \in progs'[q].seen
    BY <1>7 DEF SeenInv
  <2>1. q # p /\ progs[q].at \notin {"idle", "done"}
    BY <1>7
  <2>2. progs[q].run \in DOMAIN test_runs /\ test_runs[progs[q].run].saved \in progs[q].seen
    BY <2>1 DEF ValuesInv, PgmInv, SeenInv
  <2>3. CASE progs[q].run = r
    BY <1>4, <1>6, <1>7, <2>1, <2>3
  <2>4. CASE progs[q].run # r
    BY <1>6, <1>7, <2>2, <2>4
  <2> QED
    BY <2>3, <2>4
<1>14. OwnValue'
  <2> SUFFICES ASSUME NEW q \in PlugInPgms, progs'[q].op = "restore", progs'[q].at = "done",
                      progs'[q].result # Raised, test_runs'[progs'[q].run].clean
               PROVE  GotRight(q)'
    BY DEF OwnValue, GotRight
  <2>1. q # p
    BY <1>7 DEF ValuesInv, PgmInv
  <2>2. progs[q].op = "restore" /\ progs[q].at = "done" /\ progs[q].result # Raised
    BY <1>7, <2>1
  <2>3. test_runs[progs[q].run].clean
    BY <1>7, <1>9, <2>2 DEF ValuesInv, PgmInv
  <2>4. GotRight(q)
    BY <2>2, <2>3 DEF ValuesInv, OwnValue, GotRight
  <2> QED
    BY <1>7, <2>4 DEF GotRight
<1> QED
  BY <1>8, <1>10, <1>11, <1>12, <1>13, <1>14 DEF ValuesInv

\* Test runs come and go without their programs.
LEMMA RunsChange ==
  ASSUME ValuesInv, test_runs' \in Seq(TestRun), UNCHANGED <<progs, save_files>>, PidInv', FileInv',
         DOMAIN test_runs \subseteq DOMAIN test_runs',
         \A s \in DOMAIN test_runs :
           test_runs'[s].clean = test_runs[s].clean /\ test_runs'[s].saved = test_runs[s].saved,
         \A p \in PlugInPgms : progs[p].at # "idle" => test_runs'[progs[p].run].live
  PROVE  ValuesInv'
<1>1. ValuesType'
  BY DEF ValuesInv, ValuesType
<1>2. PgmInv'
  BY DEF ValuesInv, PgmInv
<1>3. SeenInv'
  BY DEF ValuesInv, SeenInv, PgmInv
<1>4. OwnValue'
  <2> SUFFICES ASSUME NEW q \in PlugInPgms, progs[q].op = "restore", progs[q].at = "done",
                      progs[q].result # Raised, test_runs'[progs[q].run].clean
               PROVE  GotRight(q)'
    BY DEF OwnValue, GotRight
  <2>1. test_runs[progs[q].run].clean
    BY DEF ValuesInv, PgmInv
  <2> QED
    BY <2>1 DEF ValuesInv, OwnValue, GotRight
<1> QED
  BY <1>1, <1>2, <1>3, <1>4 DEF ValuesInv

\* Every step of a test run or a program keeps the invariant.
LEMMA ValuesInvStep == ValuesInv /\ [ValuesNext]_valueVars => ValuesInv'
<1> SUFFICES ASSUME ValuesInv, [ValuesNext]_valueVars PROVE ValuesInv'
  OBVIOUS
<1>0. /\ test_runs \in Seq(TestRun) /\ DOMAIN test_runs = 1..Len(test_runs) /\ Len(test_runs) \in Nat
      /\ progs \in [PlugInPgms -> Pgm] /\ save_files \in [Dirs0 -> Texts]
  BY LenProperties DEF ValuesInv, ValuesType
<1>1. CASE TestRunStarts
  <2>1. PICK pid \in RunPids :
          /\ \A r \in TestRuns : test_runs[r].live => test_runs[r].pid # pid
          /\ test_runs' = Append(test_runs, [pid |-> pid, live |-> TRUE, saved |-> Nothing,
                                             clean |-> save_files[pid] = "none"])
    BY <1>1 DEF TestRunStarts
  <2> DEFINE new == [pid |-> pid, live |-> TRUE, saved |-> Nothing,
                     clean |-> save_files[pid] = "none"]
             n == Len(test_runs) + 1
  <2>2. /\ new \in TestRun /\ new.pid = pid /\ new.live /\ new.saved = Nothing
        /\ new.clean => save_files[pid] = "none"
    BY DEF TestRun, SavedOrNone
  <2>3. UNCHANGED <<progs, save_files>> /\ test_runs' = Append(test_runs, new)
    BY <1>1, <2>1 DEF TestRunStarts, files
  <2> HIDE DEF new
  <2>4. /\ test_runs' \in Seq(TestRun) /\ Len(test_runs') = n
        /\ \A i \in 1..Len(test_runs) : test_runs'[i] = test_runs[i]
        /\ test_runs'[n] = new
    BY <1>0, <2>2, <2>3, AppendProperties
  <2>5. DOMAIN test_runs' = 1..n
    BY <2>4, LenProperties
  <2>6. n \notin DOMAIN test_runs /\ \A s \in DOMAIN test_runs' : s \in DOMAIN test_runs \/ s = n
    BY <1>0, <2>5
  <2>7. DOMAIN test_runs \subseteq DOMAIN test_runs'
    BY <1>0, <2>5
  <2>8. PidInv'
    <3>1. \A s \in DOMAIN test_runs : test_runs[s].live => test_runs[s].pid # new.pid
      BY <2>1, <2>2 DEF TestRuns
    <3> HIDE DEF n
    <3> QED
      BY <1>0, <2>4, <2>6, <3>1 DEF ValuesInv, PidInv
  <2>9. FileInv'
    <3> HIDE DEF n
    <3> QED
      BY <1>0, <2>2, <2>3, <2>4, <2>6 DEF ValuesInv, FileInv
  <2>10. \A p \in PlugInPgms : progs[p].at # "idle" => test_runs'[progs[p].run].live
    BY <1>0, <2>4 DEF ValuesInv, PgmInv
  <2> HIDE DEF n
  <2> QED
    BY <1>0, <2>3, <2>4, <2>7, <2>8, <2>9, <2>10, RunsChange
<1>2. ASSUME NEW r \in TestRuns, TestRunEnds(r) PROVE ValuesInv'
  <2> DEFINE t == [test_runs[r] EXCEPT !.live = FALSE]
  <2>1. r \in DOMAIN test_runs /\ test_runs[r] \in TestRun
    BY <1>0 DEF TestRuns
  <2>2. test_runs[r] \in TestRun
    BY <2>1
  <2>3. /\ t \in TestRun /\ ~t.live /\ t.clean = test_runs[r].clean /\ t.saved = test_runs[r].saved
    BY ONLY <2>2 DEF TestRun
  <2>4. /\ test_runs' = [test_runs EXCEPT ![r] = t] /\ UNCHANGED <<progs, save_files>>
        /\ \A p \in PlugInPgms : progs[p].run # r \/ progs[p].at = "idle"
    BY <1>2 DEF TestRunEnds, files
  <2> HIDE DEF t
  <2>5. /\ test_runs' \in Seq(TestRun) /\ DOMAIN test_runs' = DOMAIN test_runs
        /\ test_runs'[r] = t
        /\ \A s \in DOMAIN test_runs : s # r => test_runs'[s] = test_runs[s]
    BY <1>0, <2>1, <2>3, <2>4, ExceptSeq, LenProperties
  <2>6. PidInv' /\ FileInv'
    BY <2>3, <2>4, <2>5 DEF ValuesInv, PidInv, FileInv
  <2>7. \A p \in PlugInPgms : progs[p].at # "idle" => test_runs'[progs[p].run].live
    BY <2>4, <2>5 DEF ValuesInv, PgmInv
  <2> QED
    BY <2>3, <2>4, <2>5, <2>6, <2>7, RunsChange
<1>3. ASSUME NEW p \in PlugInPgms, PgmStarts(p) PROVE ValuesInv'
  <2>1. PICK r \in {s \in TestRuns : test_runs[s].live},
             use \in ({"save"} \X SavedValues) \cup ({"restore"} \X Defaults)
                        \cup {<<"delete", Nothing>>} :
          progs' = [progs EXCEPT ![p] = [IdlePgm EXCEPT !.run = r, !.at = use[1], !.op = use[1],
                                           !.value = use[2], !.seen = {test_runs[r].saved}]]
    BY <1>3 DEF PgmStarts
  <2>2. PICK o \in {"save", "restore", "delete"}, v \in GivenValues :
          o = use[1] /\ v = use[2] /\ (o = "save" => v \in SavedValues)
    BY DEF GivenValues, SavedOrNone
  <2>3. r \in DOMAIN test_runs /\ test_runs[r].live /\ test_runs[r] \in TestRun /\ r \in Nat
    BY <1>0 DEF TestRuns
  <2> DEFINE seen == {test_runs[r].saved}
             c == [IdlePgm EXCEPT !.run = r, !.at = o, !.op = o, !.value = v, !.seen = seen]
  <2>4. seen \in SUBSET SavedOrNone /\ test_runs[r].saved \in seen
    BY <2>3 DEF TestRun
  <2>5. IdlePgm \in Pgm
    BY DEF IdlePgm, Pgm, PgmPcs, GotValues, GivenValues, SavedOrNone
  <2> HIDE DEF seen
  <2>6. c \in Pgm /\ c.run = r /\ c.at = o /\ c.op = o /\ c.seen = seen /\ c.value = v
    BY ONLY <2>3, <2>4, <2>5, o \in {"save", "restore", "delete"}, v \in GivenValues DEF Pgm, PgmPcs
  <2>7. progs' = [progs EXCEPT ![p] = c] /\ UNCHANGED <<test_runs, save_files>>
    BY <1>3, <2>1, <2>2 DEF PgmStarts, files, seen
  <2> HIDE DEF c
  <2> QED
    BY <2>2, <2>3, <2>4, <2>6, <2>7, FilesKept, PgmSteps
<1>4. ASSUME NEW p \in PlugInPgms, PgmEnds(p) PROVE ValuesInv'
  <2>1. IdlePgm \in Pgm /\ IdlePgm.at = "idle" /\ IdlePgm.op = "none"
    BY DEF IdlePgm, Pgm, PgmPcs, GotValues, GivenValues, SavedOrNone
  <2>2. progs' = [progs EXCEPT ![p] = IdlePgm] /\ UNCHANGED <<test_runs, save_files>>
    BY <1>4 DEF PgmEnds, files
  <2> QED
    BY <2>1, <2>2, FilesKept, PgmSteps
<1>5. ASSUME NEW p \in PlugInPgms, progs[p].at \notin {"idle", "done"}, UNCHANGED test_runs,
             NEW at \in {"truncate", "isfile", "write", "read"}, PgmAt(p, at),
             at \in {"truncate", "write"} => progs[p].at \in {"save", "truncate"},
             FileInv', save_files' \in [Dirs0 -> Texts]
      PROVE  ValuesInv'
  <2> DEFINE c == [progs[p] EXCEPT !.at = at]
  <2>1. progs[p] \in Pgm
    BY <1>0
  <2>2. /\ c \in Pgm /\ c.at = at /\ c.op = progs[p].op /\ c.run = progs[p].run
        /\ c.seen = progs[p].seen /\ c.value = progs[p].value
    BY ONLY <2>1, at \in {"truncate", "isfile", "write", "read"} DEF Pgm, PgmPcs
  <2>3. progs' = [progs EXCEPT ![p] = c]
    BY <1>5 DEF PgmAt
  <2>4. /\ progs[p].run \in DOMAIN test_runs /\ test_runs[progs[p].run].live
        /\ test_runs[progs[p].run].saved \in progs[p].seen
        /\ at \in {"truncate", "write"} => progs[p].op = "save" /\ progs[p].value \in SavedValues
    BY <1>5 DEF ValuesInv, PgmInv, SeenInv
  <2> HIDE DEF c
  <2> QED
    BY <1>5, <2>2, <2>3, <2>4, PgmSteps
<1>6. ASSUME NEW p \in PlugInPgms, progs[p].at \notin {"idle", "done"},
             UNCHANGED <<test_runs, save_files>>, NEW v \in GotValues, PgmResult(p, v),
             progs[p].op = "restore" /\ v # Raised /\ test_runs[progs[p].run].clean =>
               \E w \in progs[p].seen :
                 v = (IF w = Nothing THEN progs[p].value ELSE FromText(progs[p].value.type, w.text))
      PROVE  ValuesInv'
  <2> DEFINE c == [progs[p] EXCEPT !.at = "done", !.result = v]
  <2>1. progs[p] \in Pgm
    BY <1>0
  <2>2. /\ c \in Pgm /\ c.at = "done" /\ c.op = progs[p].op /\ c.run = progs[p].run
        /\ c.seen = progs[p].seen /\ c.value = progs[p].value /\ c.result = v
    BY ONLY <2>1, v \in GotValues DEF Pgm, PgmPcs
  <2>3. progs' = [progs EXCEPT ![p] = c]
    BY <1>0, <1>6 DEF PgmResult
  <2> HIDE DEF c
  <2>4. progs'[p] = c
    BY <1>0, <2>3
  <2>5. progs[p].run \in DOMAIN test_runs /\ test_runs[progs[p].run].live
    BY <1>6 DEF ValuesInv, PgmInv
  <2>6. c.op = "restore" /\ c.result # Raised /\ test_runs[c.run].clean => GotRight(p)'
    BY <1>6, <2>2, <2>4 DEF GotRight
  <2> QED
    BY <1>6, <2>2, <2>3, <2>5, <2>6, FilesKept, PgmSteps
<1>7. ASSUME NEW p \in PlugInPgms, create_plug_in_save_dir(p) PROVE ValuesInv'
  <2>1. progs[p].at \in {"save", "restore"} /\ UNCHANGED <<test_runs, save_files>>
    BY <1>7 DEF create_plug_in_save_dir
  <2>2. CASE progs[p].at = "save" /\ PgmAt(p, "truncate")
    BY <1>5, <2>1, <2>2, FilesKept
  <2>3. CASE PgmAt(p, "isfile")
    BY <1>5, <2>1, <2>3, FilesKept
  <2>4. progs[p].op = "save" => progs[p].at = "save"
    BY <2>1 DEF ValuesInv, PgmInv
  <2> QED
    BY <1>7, <2>2, <2>3, <2>4 DEF create_plug_in_save_dir
<1>8. ASSUME NEW p \in PlugInPgms, Truncates(p) PROVE ValuesInv'
  <2>1. progs[p].at = "truncate" /\ progs[p].op = "save" /\ UNCHANGED test_runs
    BY <1>8 DEF Truncates, ValuesInv, PgmInv
  <2>2. CASE PgmResult(p, Nothing) /\ UNCHANGED save_files
    BY <1>6, <2>1, <2>2 DEF GotValues, GivenValues, SavedOrNone
  <2>3. CASE PgmAt(p, "write") /\ save_files' = [save_files EXCEPT ![SaveDir(p)] = "empty"]
    <3>1. /\ progs[p].run \in DOMAIN test_runs /\ SaveDir(p) = test_runs[progs[p].run].pid
          /\ test_runs[progs[p].run].live /\ SaveDir(p) \in Dirs0
      BY <2>1, RunOfPgm
    <3>2. save_files' \in [Dirs0 -> Texts]
      BY <1>0, <2>3, <3>1 DEF Texts
    <3>3. FileInv'
      <4> SUFFICES ASSUME NEW s \in DOMAIN test_runs, test_runs[s].live, test_runs[s].clean
                   PROVE  LET f == save_files'[test_runs[s].pid] IN
                          /\ f = "none" => test_runs[s].saved = Nothing
                          /\ f \notin {"none", "empty"} =>
                               test_runs[s].saved # Nothing /\ f = test_runs[s].saved.text
        BY <2>1 DEF FileInv
      <4>1. CASE s = progs[p].run
        BY <1>0, <2>3, <3>1, <4>1
      <4>2. CASE s # progs[p].run
        <5>1. test_runs[s].pid # SaveDir(p)
          BY <3>1, <4>2 DEF ValuesInv, PidInv
        <5>2. test_runs[s].pid \in Dirs0
          <6>1. test_runs[s] \in TestRun
            BY <1>0
          <6> QED
            BY <6>1 DEF TestRun, Dirs0
        <5>3. save_files'[test_runs[s].pid] = save_files[test_runs[s].pid]
          BY <1>0, <2>3, <5>1, <5>2
        <5> QED
          BY <5>3 DEF ValuesInv, FileInv
      <4> QED
        BY <4>1, <4>2
    <3> QED
      BY <1>5, <2>1, <2>3, <3>2, <3>3
  <2> QED
    BY <1>8, <2>2, <2>3 DEF Truncates
<1>9. ASSUME NEW p \in PlugInPgms, save_plug_in_value(p) PROVE ValuesInv'
  <2>1. progs[p].at = "write" /\ progs[p].op = "save"
    BY <1>9 DEF save_plug_in_value, ValuesInv, PgmInv
  <2>2. CASE PgmResult(p, Nothing) /\ UNCHANGED <<save_files, test_runs>>
    BY <1>6, <2>1, <2>2 DEF GotValues, GivenValues, SavedOrNone
  <2>3. CASE /\ PgmSets(p, progs[p].value)
             /\ save_files' = [save_files EXCEPT ![SaveDir(p)] = progs[p].value.text]
    <3>1. progs[p].value \in SavedValues
      BY <2>1 DEF ValuesInv, PgmInv
    <3> DEFINE v == progs[p].value
               text == v.text
    <3>2. v \in SavedOrNone /\ text \in Texts /\ text # "none" /\ v # Nothing
      BY <3>1, ValuesAssumption DEF SavedOrNone, Texts, Nothing
    <3> QED
      BY <2>1, <2>3, <3>2, RunSets
  <2> QED
    BY <1>9, <2>2, <2>3 DEF save_plug_in_value
<1>10. ASSUME NEW p \in PlugInPgms, restore_isfile(p) PROVE ValuesInv'
  <2>1. progs[p].at = "isfile" /\ UNCHANGED <<test_runs, save_files>>
    BY <1>10 DEF restore_isfile, files
  <2>2. CASE PgmAt(p, "read")
    BY <1>5, <2>1, <2>2, FilesKept
  <2>3. CASE save_files[SaveDir(p)] = "none" /\ PgmResult(p, progs[p].value)
    <3>1. /\ progs[p] \in Pgm /\ progs[p].run \in DOMAIN test_runs /\ test_runs[progs[p].run].live
          /\ SaveDir(p) = test_runs[progs[p].run].pid
      BY <2>1, RunOfPgm
    <3>2. test_runs[progs[p].run].clean => test_runs[progs[p].run].saved = Nothing
      BY <2>3, <3>1 DEF ValuesInv, FileInv
    <3>3. test_runs[progs[p].run].saved \in progs[p].seen
      BY <2>1 DEF ValuesInv, SeenInv
    <3>4. progs[p].value \in GotValues
      BY <3>1 DEF Pgm, GotValues
    <3> QED
      BY <1>6, <2>1, <2>3, <3>2, <3>3, <3>4
  <2> QED
    BY <1>10, <2>2, <2>3 DEF restore_isfile
<1>11. ASSUME NEW p \in PlugInPgms, restore_plug_in_value(p) PROVE ValuesInv'
  <2> DEFINE text == save_files[SaveDir(p)]
             v == FromText(progs[p].value.type, text)
             s == test_runs[progs[p].run].saved
  <2>1. progs[p].at = "read" /\ UNCHANGED <<test_runs, save_files>> /\ PgmResult(p, v)
    BY <1>11 DEF restore_plug_in_value, files
  <2>2. /\ progs[p] \in Pgm /\ progs[p].run \in DOMAIN test_runs /\ test_runs[progs[p].run].live
        /\ SaveDir(p) = test_runs[progs[p].run].pid /\ SaveDir(p) \in Dirs0
    BY <2>1, RunOfPgm
  <2>3. text \in Texts /\ progs[p].value \in GivenValues
    BY <1>0, <2>2 DEF Pgm
  <2>4. v \in GotValues
    BY <2>3 DEF GotValues
  <2>5. s \in progs[p].seen
    BY <2>1 DEF ValuesInv, SeenInv
  <2>6. v # Raised => text \notin {"none", "empty"}
    BY DEF FromText
  <2>7. v # Raised /\ test_runs[progs[p].run].clean => s # Nothing /\ text = s.text
    BY <2>2, <2>6 DEF ValuesInv, FileInv
  <2> QED
    BY <1>6, <2>1, <2>4, <2>5, <2>7
<1>12. ASSUME NEW p \in PlugInPgms, delete_plug_in_save_dir(p) PROVE ValuesInv'
  <2>1. /\ progs[p].at = "delete" /\ PgmSets(p, Nothing)
        /\ save_files' = [save_files EXCEPT ![SaveDir(p)] = "none"]
    BY <1>12 DEF delete_plug_in_save_dir
  <2>2. Nothing \in SavedOrNone /\ "none" \in Texts
    BY DEF SavedOrNone, Texts
  <2> QED
    BY <2>1, <2>2, RunSets
<1>13. CASE UNCHANGED valueVars
  BY <1>13 DEF valueVars, ValuesInv, ValuesType, PidInv, PgmInv, FileInv, SeenInv, OwnValue
<1> QED
  BY <1>1, <1>2, <1>3, <1>4, <1>7, <1>8, <1>9, <1>10, <1>11, <1>12, <1>13 DEF ValuesNext

ParmTexts == {"unset", "blank", "number", "word"}
Parm == [at : {"import", "imported", "set"}, environ : [Levels -> ParmTexts],
         default : {"none", "int", "str"}, arg : ParmTexts \cup {"none", "given"},
         global : [type : {"none", "raised", "int", "str"}, text : ParmTexts \cup {"none"}]]

\* The type of a parm, and what it got.
ParmInv == parm \in Parm /\ DeclaredDefaultUsed

\* In the beginning the parm is not set.
LEMMA ParmInvInit == ParmInit => ParmInv
<1> SUFFICES ASSUME ParmInit PROVE ParmInv
  OBVIOUS
<1>1. [l \in Levels |-> "unset"] \in [Levels -> ParmTexts]
  BY DEF ParmTexts
<1>2. Nothing \in [type : {"none", "raised", "int", "str"}, text : ParmTexts \cup {"none"}]
  BY DEF Nothing
<1>3. parm \in Parm /\ parm.at = "import"
  BY <1>1, <1>2 DEF ParmInit, Parm
<1> QED
  BY <1>3 DEF ParmInv, DeclaredDefaultUsed

\* Importing the program and making a variable of the parm keep the invariant.
LEMMA ParmInvStep == ParmInv /\ [ParmNext]_parmVars => ParmInv'
<1> SUFFICES ASSUME ParmInv, [ParmNext]_parmVars PROVE ParmInv'
  OBVIOUS
<1>1. parm \in Parm
  BY DEF ParmInv
<1>2. CASE PgmImported
  <2>1. PICK env \in [Levels -> ParmTexts], default \in {"none", "int", "str"} :
          parm' = [parm EXCEPT !.at = "imported", !.environ = env, !.default = default,
                               !.arg = get_plug_default(env, "given")]
    BY <1>2 DEF PgmImported, ParmTexts
  <2>2. PICK arg \in ParmTexts \cup {"none", "given"} : arg = get_plug_default(env, "given")
    BY DEF get_plug_default, Levels
  <2>3. parm' = [parm EXCEPT !.at = "imported", !.environ = env, !.default = default, !.arg = arg]
    BY <2>1, <2>2
  <2>4. parm' \in Parm /\ parm'.at = "imported"
    BY <1>1, <2>3 DEF Parm
  <2> QED
    BY <2>4 DEF ParmInv, DeclaredDefaultUsed
<1>3. CASE get_plug_vars
  <2>1. PICK v \in ParmTexts : v = EnvironOf(parm.environ["package"], parm.default)
    BY <1>1 DEF Parm, EnvironOf, Declares, ParmTexts, Levels
  <2>2. parm.default = "str" => v # "blank"
    BY <2>1 DEF EnvironOf, Declares
  <2>3. PICK g \in [type : {"none", "raised", "int", "str"}, text : ParmTexts \cup {"none"}] :
          g = IF parm.default = "int" /\ v # "number" THEN Raised
              ELSE [type |-> IF parm.default = "int" THEN "int" ELSE "str", text |-> v]
    <3> DEFINE t == IF parm.default = "int" THEN "int" ELSE "str"
               g == [type |-> t, text |-> v]
    <3>1. Raised \in [type : {"none", "raised", "int", "str"}, text : ParmTexts \cup {"none"}]
      BY DEF Raised
    <3>2. t \in {"none", "raised", "int", "str"}
      OBVIOUS
    <3> HIDE DEF t
    <3>3. g \in [type : {"none", "raised", "int", "str"}, text : ParmTexts \cup {"none"}]
      BY <3>2
    <3> QED
      BY <3>1, <3>3 DEF t
  <2>4. parm' = [parm EXCEPT !.at = "set", !.environ["package"] = v, !.global = g]
    BY <1>3, <2>1, <2>3 DEF get_plug_vars
  <2>5. /\ parm' \in Parm /\ parm'.at = "set" /\ parm'.default = parm.default /\ parm'.global = g
    BY <1>1, <2>4 DEF Parm
  <2>6. parm.default # "none" => g = Raised \/ (g.type = parm.default /\ g.text # "blank")
    BY <1>1, <2>2, <2>3 DEF Parm
  <2> QED
    BY <2>5, <2>6 DEF ParmInv, DeclaredDefaultUsed
<1>4. CASE UNCHANGED parmVars
  BY <1>4 DEF parmVars, ParmInv, DeclaredDefaultUsed
<1> QED
  BY <1>2, <1>3, <1>4 DEF ParmNext

\* A plug-in program works with the values its own test run and its user gave
\* it, for any number of test runs, programs, pids and values.
THEOREM ValuesAreRight == PlugInSpec => []ValuesRight
<1>1. ValuesInv /\ ParmInv => ValuesRight
  BY DEF ValuesInv, ParmInv, ValuesRight
<1> QED
  BY ValuesInvInit, ValuesInvStep, ParmInvInit, ParmInvStep, <1>1, PTL DEF PlugInSpec
-----------------------------------------------------------------------------
(* RobotCalls *)

Processing == {"ls", "rm", "gzip", "mv"}
InCall == {"command", "call", "run"}
Robots == [at : {"idle", "ended"} \cup InCall \cup Processing, call : Nat, command : Nat,
           last_rc : 0..1, exiting : BOOLEAN, child : {"none", "running"}]
Bases == {"base_path", "sandbox", "apollo"}
SearchPaths == Seq({"own", "system", "unset"} \cup Bases)
Environs ==
  [policy : {"ALWAYS", "FAIL", "NEVER"}, tmp : BOOLEAN, gzip : BOOLEAN, jail : {"", "0", "1"},
   install : {"repository", "apollo", "sandbox", "sandbox_gone"}, base : {"unset"} \cup Bases,
   from_sb : BOOLEAN, path : SearchPaths, saved : SearchPaths]
Output == [call : Nat, file : Nat, dir : {"tmp", "status", "ffdc", "deleted"}, gz : BOOLEAN]

\* The types of the variables; every call has its name.
RobotType == robot \in Robots
EnvironType == environ \in Environs
NamesType ==
  names \in Seq(Nat \ {0}) /\ Len(names) = robot.call /\ second \in Nat \ {0}
OutputType == outputs \in SUBSET Output
RcsType == \A c \in DOMAIN robot_rcs : robot_rcs[c] \in 0..1

\* Robot runs in its call, or on while the program exits; its return code is
\* taken when it has ended.
FlowInv ==
  /\ robot.at \in InCall \cup {"idle"} => ~robot.exiting
  /\ robot.at \in InCall => robot.call \in DOMAIN names /\ robot.call \notin known
  /\ robot.child = "running" =>
       /\ robot.at = "run" \/ robot.exiting
       /\ robot.call \in DOMAIN names /\ robot.call \notin known
  /\ robot.at = "run" /\ robot.child = "none" => robot.call \in DOMAIN robot_rcs
  /\ known \subseteq DOMAIN names /\ known \subseteq DOMAIN robot_rcs

\* What is done to the output files follows from the last return code.
StageInv ==
  /\ robot.at = "rm" => RemovesOutput
  /\ robot.at = "gzip" => ~RemovesOutput /\ environ.gzip
  /\ robot.at = "mv" => ~RemovesOutput /\ environ.tmp

\* An output file has the name of its call, and lies where robot has written it
\* until that call is over.
OutputInv ==
  /\ \A o \in outputs : o.call \in DOMAIN names /\ o.file = names[o.call]
  /\ environ.policy = "NEVER" => outputs = {}
  /\ robot.at \in InCall => \A o \in outputs : o.call = robot.call => o.dir = OutputDir /\ ~o.gz

\* The last command was that of a call, whose return code is the last one taken
\* if it was taken.
CommandInv ==
  /\ robot.command # 0 =>
       \E c \in DOMAIN names :
         robot.command = names[c] /\ (c \in known => robot.last_rc = robot_rcs[c])
  /\ robot.at = "run" => robot.command = names[robot.call]

\* The paths are restored, or are about to be.
PathInv ==
  /\ ~robot.exiting /\ robot.at # "run" => environ.path = <<"own">>
  /\ robot.at = "run" => environ.saved = <<"own">>

Settled(o) ==
  IF environ.policy = "FAIL" /\ robot_rcs[o.call] = 0 THEN o.dir = "deleted"
  ELSE o.dir = (IF environ.tmp THEN "ffdc" ELSE "status") /\ o.gz = environ.gzip

\* The file belongs to the call that is being processed, and has come so far.
Underway(o) ==
  /\ robot.at \in Processing /\ o.call = robot.call /\ robot.command = names[o.call]
  /\ o.dir = OutputDir /\ o.gz = (robot.at = "mv" /\ environ.gzip)

\* The output of a call whose processing was not cut short is settled, or is
\* being processed.
SettleInv ==
  \A o \in outputs : o.call \in known \ troubled /\ OwnName(o.call) => Settled(o) \/ Underway(o)

CallsInv ==
  /\ RobotType /\ EnvironType /\ NamesType /\ OutputType /\ RcsType
  /\ FlowInv /\ StageInv /\ OutputInv /\ CommandInv /\ PathInv /\ SettleInv /\ FailedOutputKept

\* In the beginning robot was not called.
LEMMA CallsInvInit == RobotInit => CallsInv
<1> SUFFICES ASSUME RobotInit PROVE CallsInv
  OBVIOUS
<1>0. robot = [at |-> "idle", call |-> 0, command |-> 0, last_rc |-> 0, exiting |-> FALSE,
               child |-> "none"]
  BY Zenon DEF RobotInit
<1>1. RobotType
  BY ONLY <1>0 DEF RobotType, Robots
<1>2. <<"own">> \in SearchPaths /\ <<>> \in SearchPaths
  BY DEF SearchPaths
<1>4. EnvironType /\ environ.path = <<"own">>
  <2>0. PICK policy \in {"ALWAYS", "FAIL", "NEVER"}, tmp \in BOOLEAN, gzip \in BOOLEAN,
             jail \in {"", "0", "1"}, install \in {"repository", "apollo", "sandbox", "sandbox_gone"} :
          environ = [policy |-> policy, tmp |-> tmp, gzip |-> gzip, jail |-> jail, install |-> install,
                     base |-> "unset", from_sb |-> FALSE, path |-> <<"own">>, saved |-> <<>>]
    BY DEF RobotInit
  <2> DEFINE a == <<"own">>
             b == <<>>
  <2>1. a \in SearchPaths /\ b \in SearchPaths
    BY <1>2
  <2>2. environ = [policy |-> policy, tmp |-> tmp, gzip |-> gzip, jail |-> jail, install |-> install,
                   base |-> "unset", from_sb |-> FALSE, path |-> a, saved |-> b]
    BY <2>0
  <2> HIDE DEF a, b
  <2>3. environ \in Environs /\ environ.path = a
    BY ONLY <2>1, <2>2, policy \in {"ALWAYS", "FAIL", "NEVER"}, tmp \in BOOLEAN, gzip \in BOOLEAN,
       jail \in {"", "0", "1"}, install \in {"repository", "apollo", "sandbox", "sandbox_gone"}
       DEF Environs
  <2> QED
    BY <2>3 DEF EnvironType, a
<1>5. outputs = {} /\ known = {} /\ names = <<>> /\ robot_rcs = <<>> /\ second = 1
  BY Zenon DEF RobotInit
<1>9. /\ robot.at = "idle" /\ robot.call = 0 /\ robot.command = 0 /\ robot.exiting = FALSE
      /\ robot.child = "none"
  BY ONLY <1>0
<1>6. NamesType /\ OutputType /\ RcsType
  <2>1. <<>> \in Seq(Nat \ {0}) /\ Len(<<>>) = 0 /\ DOMAIN <<>> = {}
    OBVIOUS
  <2>2. NamesType
    <3>1. names \in Seq(Nat \ {0}) /\ Len(names) = 0
      BY ONLY <1>5, <2>1
    <3> QED
      BY ONLY <1>5, <1>9, <3>1 DEF NamesType
  <2>3. OutputType /\ RcsType
    <3>1. DOMAIN robot_rcs = {}
      BY ONLY <1>5, <2>1
    <3> QED
      BY ONLY <1>5, <3>1 DEF OutputType, RcsType
  <2> QED
    BY <2>2, <2>3
<1>7. FlowInv /\ StageInv /\ OutputInv /\ CommandInv
  BY ONLY <1>5, <1>9 DEF FlowInv, InCall, StageInv, OutputInv, CommandInv
<1>8. PathInv /\ SettleInv /\ FailedOutputKept
  BY ONLY <1>4, <1>5, <1>9 DEF PathInv, SettleInv, FailedOutputKept
<1> QED
  BY <1>1, <1>4, <1>6, <1>7, <1>8 DEF CallsInv

RobotPcs == {"idle", "ended"} \cup InCall \cup Processing

\* The fields of the program that only its calls of robot change.
SameCommand ==
  /\ robot'.call = robot.call /\ robot'.command = robot.command
  /\ robot'.last_rc = robot.last_rc /\ robot'.child = robot.child

\* The user's choices stay.
SameChoices ==
  /\ environ'.policy = environ.policy /\ environ'.tmp = environ.tmp /\ environ'.gzip = environ.gzip

\* The program goes on.
LEMMA RobotGoes ==
  ASSUME RobotType, NEW at \in RobotPcs, RobotAt(at)
  PROVE  robot' \in Robots /\ robot'.at = at /\ robot'.exiting = robot.exiting /\ SameCommand
BY DEF RobotType, RobotAt, Robots, RobotPcs, SameCommand

\* The exit function begins.
LEMMA RobotExits ==
  ASSUME RobotType, ExitFunctionRuns
  PROVE  robot' \in Robots /\ robot'.at = "ls" /\ robot'.exiting /\ SameCommand
BY DEF RobotType, ExitFunctionRuns, Robots, Processing, SameCommand

\* A step that calls no robot: what is left to show is about the files.
LEMMA StepOfFiles ==
  ASSUME CallsInv, robot' \in Robots, SameCommand, environ' \in Environs, SameChoices,
         UNCHANGED <<names, robot_rcs, known, second>>,
         environ'.path = environ.path,
         robot'.at \in InCall \cup {"idle"} => ~robot'.exiting,
         robot'.at \in InCall => robot.at \in InCall /\ outputs' = outputs,
         robot'.at # "run",
         ~robot'.exiting => ~robot.exiting /\ robot.at # "run",
         outputs' \in SUBSET Output,
         \A n \in outputs' : \E o \in outputs : n.call = o.call /\ n.file = o.file,
         StageInv', SettleInv', FailedOutputKept'
  PROVE  CallsInv'
<1>1. RobotType' /\ EnvironType' /\ NamesType' /\ OutputType' /\ RcsType'
  BY DEF CallsInv, RobotType, EnvironType, NamesType, OutputType, RcsType, SameCommand
<1>2. FlowInv'
  BY DEF CallsInv, FlowInv, SameCommand
<1>3. OutputInv'
  <2>1. \A o \in outputs' : o.call \in DOMAIN names /\ o.file = names[o.call]
    BY DEF CallsInv, OutputInv
  <2>2. environ'.policy = "NEVER" => outputs' = {}
    BY DEF CallsInv, OutputInv, SameChoices
  <2>3. robot'.at \in InCall =>
          \A o \in outputs' : o.call = robot'.call => o.dir = OutputDir' /\ ~o.gz
    BY DEF CallsInv, OutputInv, SameChoices, SameCommand, OutputDir
  <2> QED
    BY <2>1, <2>2, <2>3 DEF OutputInv
<1>4. CommandInv'
  BY DEF CallsInv, CommandInv, SameCommand
<1>5. PathInv'
  BY DEF CallsInv, PathInv
<1> QED
  BY <1>1, <1>2, <1>3, <1>4, <1>5 DEF CallsInv

\* A step that leaves the files alone.
LEMMA StepOfProgram ==
  ASSUME CallsInv, robot' \in Robots, SameCommand, environ' \in Environs, SameChoices,
         UNCHANGED <<names, outputs, robot_rcs, known, second>>, troubled \subseteq troubled',
         environ'.path = environ.path,
         robot'.at \in InCall \cup {"idle"} => ~robot'.exiting,
         robot'.at \in InCall => robot.at \in InCall,
         robot'.at # "run",
         ~robot'.exiting => ~robot.exiting /\ robot.at # "run",
         StageInv',
         \A o \in outputs : o.call \in known \ troubled' /\ OwnName(o.call) /\ Underway(o)
                             => Settled(o) \/ Underway(o)'
  PROVE  CallsInv'
<1>1. \A o \in outputs : Settled(o) => Settled(o)'
  BY DEF SameChoices, Settled
<1>2. \A c : OwnName(c)' <=> OwnName(c)
  BY DEF OwnName
<1>3. SettleInv'
  BY <1>1, <1>2 DEF CallsInv, SettleInv
<1>4. FailedOutputKept'
  BY <1>2 DEF CallsInv, FailedOutputKept
<1>5. outputs' \in SUBSET Output
  BY DEF CallsInv, OutputType
<1>6. \A n \in outputs' : \E o \in outputs : n.call = o.call /\ n.file = o.file
  OBVIOUS
<1> QED
  BY <1>3, <1>4, <1>5, <1>6, StepOfFiles

\* What the name of a call's own says of the last command.
LEMMA OwnCommand ==
  ASSUME CallsInv, NEW o \in outputs, OwnName(o.call), o.file = robot.command, o.call \in known
  PROVE  robot.last_rc = robot_rcs[o.call]
<1>1. o.call \in DOMAIN names /\ o.file = names[o.call] /\ names[o.call] # 0
  <2>1. o.call \in DOMAIN names /\ o.file = names[o.call] /\ names \in Seq(Nat \ {0})
    BY DEF CallsInv, OutputInv, NamesType
  <2> QED
    BY <2>1
<1>2. PICK c \in DOMAIN names :
        robot.command = names[c] /\ (c \in known => robot.last_rc = robot_rcs[c])
  BY <1>1 DEF CallsInv, CommandInv
<1>3. c = o.call
  BY <1>1, <1>2 DEF OwnName
<1> QED
  BY <1>2, <1>3

\* A new call has a new name, which takes no name from another call.
LEMMA CallBegins ==
  ASSUME CallsInv, init_robot_out_parms
  PROVE  CallsInv'
<1>1. /\ robot' \in Robots /\ robot'.at = "command" /\ robot'.call = robot.call + 1
      /\ robot'.command = robot.command /\ robot'.last_rc = robot.last_rc
      /\ robot'.exiting = robot.exiting /\ robot'.child = robot.child
  <2>1. robot \in Robots /\ robot.call \in Nat
    BY DEF CallsInv, RobotType, Robots
  <2>2. PICK n \in Nat : n = robot.call + 1
    BY <2>1
  <2>3. robot' = [robot EXCEPT !.at = "command", !.call = n]
    BY <2>2 DEF init_robot_out_parms
  <2> QED
    BY ONLY <2>1, <2>2, <2>3 DEF Robots, InCall
<1>2. /\ robot.at = "idle" /\ names' = Append(names, second)
      /\ UNCHANGED <<environ, outputs, robot_rcs, known, troubled, second>>
  BY DEF init_robot_out_parms, robotRest
<1>3. robot.child = "none" /\ ~robot.exiting
  BY <1>2 DEF CallsInv, FlowInv, RobotType, Robots
<1>4. /\ names' \in Seq(Nat \ {0}) /\ Len(names') = robot'.call
      /\ DOMAIN names' = DOMAIN names \cup {robot'.call}
      /\ robot'.call \notin DOMAIN names
      /\ \A c \in DOMAIN names : names'[c] = names[c]
  <2>1. names \in Seq(Nat \ {0}) /\ Len(names) = robot.call /\ second \in Nat \ {0}
        /\ robot.call \in Nat
    BY DEF CallsInv, NamesType, RobotType, Robots
  <2> QED
    BY ONLY <1>1, <1>2, <2>1
<1>5. \A c \in DOMAIN names : OwnName(c)' => OwnName(c)
  BY <1>4 DEF OwnName
<1>6. RobotType' /\ EnvironType' /\ NamesType' /\ OutputType' /\ RcsType'
  BY <1>1, <1>2, <1>4 DEF CallsInv, RobotType, EnvironType, NamesType, OutputType, RcsType
<1>7. FlowInv' /\ StageInv'
  BY <1>1, <1>2, <1>3, <1>4 DEF CallsInv, FlowInv, StageInv
<1>8. OutputInv'
  BY <1>1, <1>2, <1>4 DEF CallsInv, OutputInv
<1>9. CommandInv'
  <2>1. CASE robot.command # 0
    <3>1. PICK c \in DOMAIN names :
            robot.command = names[c] /\ (c \in known => robot.last_rc = robot_rcs[c])
      BY <2>1 DEF CallsInv, CommandInv
    <3> QED
      BY <3>1, <1>1, <1>2, <1>4 DEF CommandInv
  <2>2. CASE robot.command = 0
    BY <2>2, <1>1 DEF CommandInv
  <2> QED
    BY <2>1, <2>2
<1>10. PathInv'
  BY <1>1, <1>2 DEF CallsInv, PathInv
<1>11. SettleInv'
  <2>1. \A o \in outputs : Settled(o) => Settled(o)'
    BY <1>2 DEF Settled
  <2>2. \A o : ~Underway(o)
    BY <1>2 DEF Underway, Processing
  <2>3. \A o \in outputs : o.call \in DOMAIN names
    BY DEF CallsInv, OutputInv
  <2> QED
    BY <1>2, <1>5, <2>1, <2>2, <2>3 DEF CallsInv, SettleInv
<1>12. FailedOutputKept'
  BY <1>2, <1>5 DEF CallsInv, OutputInv, FailedOutputKept
<1> QED
  BY <1>6, <1>7, <1>8, <1>9, <1>10, <1>11, <1>12 DEF CallsInv

\* The base directory is a directory, and the environment keeps its form.
LEMMA BaseIsSet ==
  ASSUME EnvironType, init_robot_test_base_dir_path
  PROVE  environ' \in Environs /\ SameChoices /\ environ'.path = environ.path
<1>1. PICK b \in Bases : environ' = [environ EXCEPT !.from_sb = FromSandbox, !.base = b]
  <2> DEFINE b == IF environ.base # "unset" THEN environ.base
                  ELSE CASE environ.install = "repository" -> "base_path"
                         [] environ.install = "sandbox" -> "sandbox"
                         [] OTHER -> "apollo"
  <2>1. b \in Bases
    BY DEF EnvironType, Environs, Bases
  <2>2. environ' = [environ EXCEPT !.from_sb = FromSandbox, !.base = b]
    BY Zenon DEF init_robot_test_base_dir_path
  <2> QED
    BY <2>1, <2>2
<1>2. PICK f \in BOOLEAN : f = FromSandbox
  <2>1. environ.from_sb \in BOOLEAN
    BY DEF EnvironType, Environs
  <2>2. FromSandbox \in BOOLEAN
    <3>1. CASE environ.base # "unset"
      <4>1. FromSandbox = environ.from_sb
        BY ONLY <3>1 DEF FromSandbox
      <4> QED
        BY ONLY <2>1, <4>1
    <3>2. CASE environ.base = "unset"
      <4>1. FromSandbox = (environ.install \in {"sandbox", "sandbox_gone"})
        BY ONLY <3>2, Zenon DEF FromSandbox
      <4>2. (environ.install \in {"sandbox", "sandbox_gone"}) \in BOOLEAN
        OBVIOUS
      <4> QED
        BY ONLY <4>1, <4>2, Zenon
    <3> QED
      BY ONLY <3>1, <3>2
  <2> QED
    BY ONLY <2>2
<1>3. environ' = [environ EXCEPT !.from_sb = f, !.base = b]
  BY <1>1, <1>2
<1> QED
  BY <1>3 DEF EnvironType, Environs, SameChoices

\* The command is ready, or the program exits with an error.
LEMMA CommandStep ==
  ASSUME CallsInv, create_robot_cmd_string
  PROVE  CallsInv'
<1>0. RobotType /\ EnvironType
  BY DEF CallsInv
<1>1. environ' \in Environs /\ SameChoices /\ environ'.path = environ.path
  BY <1>0, BaseIsSet DEF create_robot_cmd_string
<1>2. /\ robot.at = "command" /\ troubled' = troubled
      /\ UNCHANGED <<names, outputs, robot_rcs, known, second>>
  BY DEF create_robot_cmd_string, robotRest
<1>3. ~robot.exiting
  BY <1>2 DEF CallsInv, FlowInv, InCall
<1>4. \A o : ~Underway(o)
  BY <1>2 DEF Underway, Processing
<1>5. CASE RobotAt("call")
  <2>1. robot' \in Robots /\ robot'.at = "call" /\ robot'.exiting = robot.exiting /\ SameCommand
    BY <1>0, <1>5, RobotGoes DEF RobotPcs, InCall
  <2>2. StageInv'
    BY <2>1 DEF StageInv
  <2> QED
    BY <1>1, <1>2, <1>3, <1>4, <2>1, <2>2, StepOfProgram DEF InCall
<1>6. CASE ExitFunctionRuns
  <2>1. robot' \in Robots /\ robot'.at = "ls" /\ robot'.exiting /\ SameCommand
    BY <1>0, <1>6, RobotExits
  <2>2. StageInv'
    BY <2>1 DEF StageInv
  <2> QED
    BY <1>1, <1>2, <1>4, <2>1, <2>2, StepOfProgram DEF InCall
<1> QED
  BY <1>5, <1>6 DEF create_robot_cmd_string

\* The program calls robot, or would call it.
LEMMA CallStep ==
  ASSUME CallsInv, robot_cmd_fnc
  PROVE  CallsInv'
<1>1. /\ robot.at = "call" /\ UNCHANGED <<names, outputs, robot_rcs, known, troubled, second>>
      /\ robot \in Robots /\ environ \in Environs
  BY DEF robot_cmd_fnc, robotRest, CallsInv, RobotType, EnvironType
<1>2. /\ robot.call \in DOMAIN names /\ robot.call \notin known /\ ~robot.exiting
      /\ robot.child = "none"
  BY <1>1 DEF CallsInv, FlowInv, InCall, Robots
<1>3. PICK n \in Nat : n = names[robot.call]
  <2>1. names \in Seq(Nat \ {0})
    BY DEF CallsInv, NamesType
  <2> QED
    BY ONLY <1>2, <2>1
<1>4. /\ robot' \in Robots /\ robot'.at \in {"run", "idle"} /\ robot'.command = n
      /\ robot'.call = robot.call /\ robot'.last_rc = robot.last_rc /\ ~robot'.exiting
      /\ robot'.child = "running" <=> robot'.at = "run"
  <2>1. \/ robot' = [robot EXCEPT !.at = "run", !.command = n, !.child = "running"]
        \/ robot' = [robot EXCEPT !.at = "idle", !.command = n]
    BY <1>3 DEF robot_cmd_fnc
  <2>2. CASE robot' = [robot EXCEPT !.at = "run", !.command = n, !.child = "running"]
    BY ONLY <1>1, <1>2, <2>2, n \in Nat DEF Robots, InCall
  <2>3. CASE robot' = [robot EXCEPT !.at = "idle", !.command = n]
    BY ONLY <1>1, <1>2, <2>3, n \in Nat DEF Robots, InCall
  <2> QED
    BY <2>1, <2>2, <2>3
<1>5. environ.path = <<"own">>
  BY <1>1, <1>2 DEF CallsInv, PathInv
<1>6. /\ environ' \in Environs /\ SameChoices /\ environ'.saved = environ.path
      /\ robot'.at = "idle" => environ'.path = environ.path
  <2>0. environ.path \in SearchPaths /\ environ.base \in {"unset"} \cup Bases
    BY <1>1 DEF Environs
  <2>1. NewPath \in SearchPaths
    <3>1. environ.base \in {"own", "system", "unset"} \cup Bases
      BY <2>0
    <3>2. Append(environ.path, environ.base) \in SearchPaths
      BY ONLY <2>0, <3>1 DEF SearchPaths
    <3>3. <<environ.base, "system">> \in SearchPaths
      BY ONLY <3>1 DEF SearchPaths
    <3> QED
      BY ONLY <3>2, <3>3 DEF NewPath
  <2>2. PICK p \in SearchPaths, q \in SearchPaths : p = environ.path /\ q = NewPath
    BY <2>0, <2>1
  <2>3. \/ robot'.at = "run" /\ environ' = [environ EXCEPT !.saved = p, !.path = q]
        \/ environ' = [environ EXCEPT !.saved = p]
    <3>1. CASE /\ robot' = [robot EXCEPT !.at = "run", !.command = names[robot.call],
                                         !.child = "running"]
               /\ environ' = [environ EXCEPT !.saved = environ.path, !.path = NewPath]
      <4>1. robot'.at = "run"
        BY ONLY <1>1, <3>1 DEF Robots
      <4> QED
        BY <2>2, <3>1, <4>1
    <3>2. CASE environ' = [environ EXCEPT !.saved = environ.path]
      BY <2>2, <3>2
    <3> QED
      BY <3>1, <3>2 DEF robot_cmd_fnc
  <2>4. CASE robot'.at = "run" /\ environ' = [environ EXCEPT !.saved = p, !.path = q]
    BY ONLY <1>1, <2>2, <2>4, p \in SearchPaths, q \in SearchPaths DEF Environs, SameChoices
  <2>5. CASE environ' = [environ EXCEPT !.saved = p]
    BY ONLY <1>1, <2>2, <2>5, p \in SearchPaths DEF Environs, SameChoices
  <2> QED
    BY <2>3, <2>4, <2>5
<1>7. RobotType' /\ EnvironType' /\ NamesType' /\ OutputType' /\ RcsType'
  BY <1>1, <1>4, <1>6 DEF CallsInv, RobotType, EnvironType, NamesType, OutputType, RcsType
<1>8. FlowInv' /\ StageInv'
  BY <1>1, <1>2, <1>4 DEF CallsInv, FlowInv, StageInv, Robots
<1>9. OutputInv'
  BY <1>1, <1>4, <1>6 DEF CallsInv, OutputInv, InCall, SameChoices, OutputDir
<1>10. CommandInv'
  BY <1>1, <1>2, <1>3, <1>4 DEF CommandInv
<1>11. PathInv'
  BY <1>4, <1>5, <1>6 DEF PathInv
<1>12. SettleInv'
  <2>1. \A o \in outputs : Settled(o) => Settled(o)'
    BY <1>1, <1>6 DEF Settled, SameChoices
  <2>2. \A o : ~Underway(o)
    BY <1>1 DEF Underway, Processing
  <2>3. \A c : OwnName(c)' <=> OwnName(c)
    BY <1>1 DEF OwnName
  <2> QED
    BY <1>1, <2>1, <2>2, <2>3 DEF CallsInv, SettleInv
<1>13. FailedOutputKept'
  BY <1>1 DEF CallsInv, FailedOutputKept, OwnName
<1> QED
  BY <1>7, <1>8, <1>9, <1>10, <1>11, <1>12, <1>13 DEF CallsInv

\* robot writes the files of a call whose return code was not taken.
LEMMA WriteStep ==
  ASSUME CallsInv, RobotWrites
  PROVE  CallsInv'
<1>1. /\ robot.child = "running" /\ environ.policy # "NEVER"
      /\ UNCHANGED <<names, robot, environ, robot_rcs, known, troubled, second>>
  BY DEF RobotWrites, robotRest
<1>2. robot.call \in DOMAIN names /\ robot.call \notin known /\ robot.call \in Nat
  BY <1>1 DEF CallsInv, FlowInv, RobotType, Robots
<1>3. PICK n \in Nat : n = names[robot.call]
  <2>1. names \in Seq(Nat \ {0})
    BY DEF CallsInv, NamesType
  <2> QED
    BY ONLY <1>2, <2>1
<1>4. PICK new \in Output :
        /\ new.call = robot.call /\ new.file = n /\ new.dir = OutputDir /\ ~new.gz
        /\ \A o \in outputs' : o \in outputs \/ o = new
  <2> DEFINE new == [call |-> robot.call, file |-> n, dir |-> OutputDir, gz |-> FALSE]
  <2>1. OutputDir \in {"tmp", "status", "ffdc", "deleted"}
    BY DEF OutputDir
  <2>2. new \in Output
    BY <1>2, <2>1 DEF Output
  <2>3. \A o \in outputs' : o \in outputs \/ o = new
    BY <1>3 DEF RobotWrites
  <2> QED
    BY <2>2, <2>3
<1>5. RobotType' /\ EnvironType' /\ NamesType' /\ OutputType' /\ RcsType'
  BY <1>1, <1>4 DEF CallsInv, RobotType, EnvironType, NamesType, OutputType, RcsType
<1>6. FlowInv' /\ StageInv' /\ CommandInv' /\ PathInv'
  BY <1>1 DEF CallsInv, FlowInv, StageInv, CommandInv, PathInv, RemovesOutput
<1>7. OutputInv'
  <2>1. \A o \in outputs' : o.call \in DOMAIN names /\ o.file = names[o.call]
    BY <1>2, <1>3, <1>4 DEF CallsInv, OutputInv
  <2>2. robot.at \in InCall => \A o \in outputs' : o.call = robot.call => o.dir = OutputDir /\ ~o.gz
    BY <1>4 DEF CallsInv, OutputInv
  <2> QED
    BY <1>1, <2>1, <2>2 DEF OutputInv, OutputDir
<1>8. SettleInv'
  <2>1. \A o : Settled(o)' <=> Settled(o)
    BY <1>1 DEF Settled
  <2>2. \A o : Underway(o)' <=> Underway(o)
    BY <1>1 DEF Underway, OutputDir
  <2>3. \A c : OwnName(c)' <=> OwnName(c)
    BY <1>1 DEF OwnName
  <2> QED
    BY <1>1, <1>2, <1>4, <2>1, <2>2, <2>3 DEF CallsInv, SettleInv
<1>9. FailedOutputKept'
  BY <1>1, <1>2, <1>4 DEF CallsInv, FailedOutputKept, OwnName
<1> QED
  BY <1>5, <1>6, <1>7, <1>8, <1>9 DEF CallsInv

\* robot ends: the return code is one that the program has not taken.
LEMMA EndStep ==
  ASSUME CallsInv, RobotEnds
  PROVE  CallsInv'
<1>1. /\ robot.child = "running" /\ robot \in Robots
      /\ UNCHANGED <<names, environ, outputs, known, troubled, second>>
  BY DEF RobotEnds, CallsInv, RobotType
<1>2. /\ robot' \in Robots /\ robot'.at = robot.at /\ robot'.exiting = robot.exiting
      /\ robot'.call = robot.call /\ robot'.command = robot.command
      /\ robot'.last_rc = robot.last_rc /\ robot'.child = "none"
  <2>1. robot' = [robot EXCEPT !.child = "none"]
    BY DEF RobotEnds
  <2> QED
    BY ONLY <1>1, <2>1 DEF Robots
<1>3. robot.call \in DOMAIN names /\ robot.call \notin known
  BY <1>1 DEF CallsInv, FlowInv
<1>4. /\ DOMAIN robot_rcs' = DOMAIN robot_rcs \cup {robot.call}
      /\ robot_rcs'[robot.call] \in 0..1
      /\ \A c \in DOMAIN robot_rcs : c # robot.call => robot_rcs'[c] = robot_rcs[c]
  BY DEF RobotEnds
<1>5. known \subseteq DOMAIN robot_rcs
  BY DEF CallsInv, FlowInv
<1>6. \A c \in known : robot_rcs'[c] = robot_rcs[c]
  BY <1>3, <1>4, <1>5
<1>7. RobotType' /\ EnvironType' /\ NamesType' /\ OutputType' /\ RcsType'
  BY <1>1, <1>2, <1>4 DEF CallsInv, RobotType, EnvironType, NamesType, OutputType, RcsType
<1>8. FlowInv'
  BY <1>1, <1>2, <1>3, <1>4, <1>5 DEF CallsInv, FlowInv
<1>9. StageInv' /\ OutputInv' /\ PathInv'
  BY <1>1, <1>2 DEF CallsInv, StageInv, OutputInv, PathInv, RemovesOutput, OutputDir
<1>10. CommandInv'
  BY <1>1, <1>2, <1>6 DEF CallsInv, CommandInv
<1>11. SettleInv'
  <2>1. \A o \in outputs : o.call \in known => (Settled(o)' <=> Settled(o))
    BY <1>1, <1>6 DEF Settled
  <2>2. \A o : Underway(o)' <=> Underway(o)
    BY <1>1, <1>2 DEF Underway, OutputDir
  <2>3. \A c : OwnName(c)' <=> OwnName(c)
    BY <1>1 DEF OwnName
  <2> QED
    BY <1>1, <2>1, <2>2, <2>3 DEF CallsInv, SettleInv
<1>12. FailedOutputKept'
  BY <1>1, <1>6 DEF CallsInv, FailedOutputKept, OwnName
<1> QED
  BY <1>7, <1>8, <1>9, <1>10, <1>11, <1>12 DEF CallsInv

\* The call returns: its output lies where robot has written it.
LEMMA ReturnStep ==
  ASSUME CallsInv, RobotReturns
  PROVE  CallsInv'
<1>1. /\ robot.at = "run" /\ robot.child = "none" /\ robot \in Robots /\ environ \in Environs
      /\ UNCHANGED <<names, outputs, robot_rcs, troubled, second>>
      /\ known' = known \cup {robot.call}
  BY DEF RobotReturns, CallsInv, RobotType, EnvironType
<1>2. /\ robot.call \in DOMAIN names /\ robot.call \in DOMAIN robot_rcs /\ ~robot.exiting
      /\ robot.command = names[robot.call] /\ environ.saved = <<"own">>
  BY <1>1 DEF CallsInv, FlowInv, InCall, CommandInv, PathInv
<1>3. PICK rc \in 0..1 : rc = robot_rcs[robot.call]
  BY <1>2 DEF CallsInv, RcsType
<1>4. /\ robot' \in Robots /\ robot'.at = "ls" /\ robot'.exiting = robot.exiting
      /\ robot'.call = robot.call /\ robot'.command = robot.command
      /\ robot'.last_rc = rc /\ robot'.child = "none"
  <2>1. robot' = [robot EXCEPT !.at = "ls", !.last_rc = rc]
    BY <1>3 DEF RobotReturns, LastRc
  <2> QED
    BY ONLY <1>1, <2>1, rc \in 0..1 DEF Robots, Processing
<1>5. environ' \in Environs /\ SameChoices /\ environ'.path = environ.saved
  <2>1. environ' = [environ EXCEPT !.path = environ.saved]
    BY DEF RobotReturns, RestoredPath
  <2> QED
    BY ONLY <1>1, <2>1 DEF Environs, SameChoices
<1>6. RobotType' /\ EnvironType' /\ NamesType' /\ OutputType' /\ RcsType'
  BY <1>1, <1>4, <1>5 DEF CallsInv, RobotType, EnvironType, NamesType, OutputType, RcsType
<1>7. FlowInv' /\ StageInv'
  BY <1>1, <1>2, <1>4 DEF CallsInv, FlowInv, StageInv, InCall
<1>8. OutputInv'
  BY <1>1, <1>4, <1>5 DEF CallsInv, OutputInv, SameChoices, InCall
<1>9. CommandInv' /\ PathInv'
  BY <1>1, <1>2, <1>3, <1>4, <1>5 DEF CommandInv, PathInv
<1>10. \A o \in outputs : o.call = robot.call => o.dir = OutputDir /\ ~o.gz
  BY <1>1 DEF CallsInv, OutputInv, InCall
<1>11. \A c : OwnName(c)' <=> OwnName(c)
  BY <1>1 DEF OwnName
<1>12. SettleInv'
  <2> SUFFICES ASSUME NEW o \in outputs, o.call \in known' \ troubled, OwnName(o.call)
               PROVE  Settled(o)' \/ Underway(o)'
    BY <1>1, <1>11 DEF SettleInv
  <2>1. CASE o.call = robot.call
    <3>1. o.gz = FALSE /\ o.dir = OutputDir'
      <4>1. o.gz \in BOOLEAN
        BY DEF CallsInv, OutputType, Output
      <4> QED
        BY <2>1, <1>5, <1>10, <4>1 DEF SameChoices, OutputDir
    <3> QED
      BY <2>1, <3>1, <1>1, <1>2, <1>4 DEF Underway, Processing
  <2>2. CASE o.call # robot.call
    <3>1. Settled(o)
      BY <2>2, <1>1 DEF CallsInv, SettleInv, Underway, Processing
    <3> QED
      BY <3>1, <1>1, <1>5 DEF Settled, SameChoices
  <2> QED
    BY <2>1, <2>2
<1>13. FailedOutputKept'
  <2>1. OutputDir # "deleted"
    BY DEF OutputDir
  <2> QED
    BY <1>1, <1>10, <1>11, <2>1 DEF CallsInv, FailedOutputKept
<1> QED
  BY <1>6, <1>7, <1>8, <1>9, <1>12, <1>13 DEF CallsInv

\* The end of the processing.
LEMMA ProcessingEnds ==
  ASSUME RobotType, Processed
  PROVE  /\ robot' \in Robots /\ robot'.at = (IF robot.exiting THEN "ended" ELSE "idle")
         /\ robot'.exiting = robot.exiting /\ SameCommand
<1>1. (IF robot.exiting THEN "ended" ELSE "idle") \in RobotPcs
  BY DEF RobotPcs
<1> QED
  BY <1>1, RobotGoes DEF Processed

\* Output under way is what the processing is about.
LEMMA UnderwayIsPresent ==
  ASSUME CallsInv, NEW o \in outputs, Underway(o)
  PROVE  /\ o.file = robot.command /\ o.dir = OutputDir /\ robot.command # 0
         /\ environ.policy # "NEVER"
         /\ robot.at # "mv" => o \in Present
         /\ robot.at = "mv" => o.gz = environ.gzip
<1>1. o.call \in DOMAIN names /\ o.file = names[o.call] /\ environ.policy # "NEVER"
  BY DEF CallsInv, OutputInv
<1>2. names[o.call] # 0
  <2>1. names \in Seq(Nat \ {0})
    BY DEF CallsInv, NamesType
  <2> QED
    BY <1>1, <2>1
<1>3. environ.gzip \in BOOLEAN
  BY DEF CallsInv, EnvironType, Environs
<1>4. robot.at # "mv" => o.gz = FALSE
  BY DEF Underway
<1>5. robot.at = "mv" => o.gz = environ.gzip
  BY <1>3 DEF Underway
<1> QED
  BY <1>1, <1>2, <1>4, <1>5 DEF Underway, Present

\* The list of the files decides what is done to them.
LEMMA ListStep ==
  ASSUME CallsInv, process_robot_output_files
  PROVE  CallsInv'
<1>0. RobotType
  BY DEF CallsInv
<1>1. /\ robot.at = "ls"
      /\ UNCHANGED <<names, environ, outputs, robot_rcs, known, troubled, second>>
  BY DEF process_robot_output_files, robotRest
<1>2. environ' \in Environs /\ SameChoices /\ environ'.path = environ.path
  BY <1>1 DEF CallsInv, EnvironType, SameChoices
<1>3. \A o \in outputs : Underway(o) => ~NothingToDo
  BY <1>1, UnderwayIsPresent DEF NothingToDo
<1>4. CASE /\ Processed
           /\ NothingToDo \/ (~RemovesOutput /\ ~environ.gzip /\ ~environ.tmp)
  <2>1. /\ robot' \in Robots /\ robot'.at \in {"ended", "idle"}
        /\ robot'.at = "idle" => ~robot.exiting
        /\ robot'.exiting = robot.exiting /\ SameCommand
    BY <1>0, <1>4, ProcessingEnds
  <2>2. StageInv'
    BY <2>1 DEF StageInv
  <2>3. \A o \in outputs : o.call \in known \ troubled' /\ OwnName(o.call) /\ Underway(o)
                             => Settled(o)
    <3> SUFFICES ASSUME NEW o \in outputs, o.call \in known, OwnName(o.call), Underway(o)
                 PROVE  Settled(o)
      OBVIOUS
    <3>1. ~RemovesOutput /\ ~environ.gzip /\ ~environ.tmp
      BY <1>3, <1>4
    <3>2. robot.last_rc = robot_rcs[o.call]
      BY UnderwayIsPresent, OwnCommand
    <3>3. o.gz = FALSE /\ environ.gzip = FALSE
      BY <1>1, <3>1 DEF Underway, CallsInv, EnvironType, Environs
    <3> QED
      BY <3>1, <3>2, <3>3, UnderwayIsPresent DEF Settled, RemovesOutput, OutputDir
  <2> QED
    BY <1>1, <1>2, <2>1, <2>2, <2>3, StepOfProgram DEF InCall
<1>5. ASSUME NEW at \in {"rm", "gzip", "mv"}, RobotAt(at),
             at = "rm" => RemovesOutput,
             at = "gzip" => ~RemovesOutput /\ environ.gzip,
             at = "mv" => ~RemovesOutput /\ ~environ.gzip /\ environ.tmp
      PROVE  CallsInv'
  <2>1. robot' \in Robots /\ robot'.at = at /\ robot'.exiting = robot.exiting /\ SameCommand
    BY <1>0, <1>5, RobotGoes DEF RobotPcs, Processing
  <2>2. StageInv'
    BY <1>1, <1>5, <2>1 DEF StageInv, RemovesOutput, SameCommand
  <2>3. \A o \in outputs : Underway(o) => Underway(o)'
    BY <1>1, <1>5, <2>1 DEF Underway, Processing, SameCommand, OutputDir
  <2>4. robot'.at \notin InCall \cup {"idle"} /\ robot'.at # "run"
    BY <2>1 DEF InCall
  <2>5. ~robot'.exiting => ~robot.exiting /\ robot.at # "run"
    BY <1>1, <2>1
  <2> QED
    BY <1>1, <1>2, <2>1, <2>2, <2>3, <2>4, <2>5, StepOfProgram
<1> QED
  <2>1. CASE RemovesOutput /\ RobotAt("rm")
    BY <2>1, <1>5
  <2>2. CASE ~RemovesOutput /\ environ.gzip /\ RobotAt("gzip")
    BY <2>2, <1>5
  <2>3. CASE ~RemovesOutput /\ ~environ.gzip /\ environ.tmp /\ RobotAt("mv")
    BY <2>3, <1>5
  <2> QED
    BY <1>4, <2>1, <2>2, <2>3 DEF process_robot_output_files

\* rm deletes the output of the last command, whose call did not fail.
LEMMA RmStep ==
  ASSUME CallsInv, RmFiles
  PROVE  CallsInv'
<1>0. RobotType
  BY DEF CallsInv
<1>1. /\ robot.at = "rm" /\ RemovesOutput
      /\ UNCHANGED <<names, environ, robot_rcs, known, troubled, second>>
  BY DEF RmFiles, robotRest, CallsInv, StageInv
<1>2. environ' \in Environs /\ SameChoices /\ environ'.path = environ.path
  BY <1>1 DEF CallsInv, EnvironType, SameChoices
<1>3. /\ robot' \in Robots /\ robot'.at \in {"ended", "idle"}
      /\ robot'.at = "idle" => ~robot.exiting
      /\ robot'.exiting = robot.exiting /\ SameCommand
  BY <1>0, ProcessingEnds DEF RmFiles
<1>4. \A n \in outputs' :
        \/ n \in outputs \ Present
        \/ \E o \in Present : n = [o EXCEPT !.dir = "deleted"]
  BY DEF RmFiles
<1>5. \A o \in Present : o \in Output /\ o \in outputs /\ o.file = robot.command
  BY DEF Present, CallsInv, OutputType
<1>6. \A o \in Present : LET n == [o EXCEPT !.dir = "deleted"] IN
        n \in Output /\ n.call = o.call /\ n.file = o.file /\ n.dir = "deleted"
  BY ONLY <1>5 DEF Output
<1>7. \A o \in Present : OwnName(o.call) /\ o.call \in known => robot_rcs[o.call] = 0
  BY <1>1, <1>5, OwnCommand DEF RemovesOutput
<1>8. \A c : OwnName(c)' <=> OwnName(c)
  BY <1>1 DEF OwnName
<1>9. SettleInv'
  <2> SUFFICES ASSUME NEW n \in outputs', n.call \in known \ troubled, OwnName(n.call)
               PROVE  Settled(n)'
    BY <1>1, <1>8 DEF SettleInv
  <2>1. CASE n \in outputs \ Present
    <3>1. Settled(n)
      BY <2>1, <1>1, UnderwayIsPresent DEF CallsInv, SettleInv
    <3> QED
      BY <3>1, <1>1 DEF Settled
  <2>2. CASE \E o \in Present : n = [o EXCEPT !.dir = "deleted"]
    <3>1. PICK o \in Present : n.call = o.call /\ n.dir = "deleted"
      BY <2>2, <1>6
    <3>2. robot_rcs[n.call] = 0
      BY <3>1, <1>7
    <3> QED
      BY <3>1, <3>2, <1>1 DEF Settled, RemovesOutput
  <2> QED
    BY <1>4, <2>1, <2>2
<1>10. FailedOutputKept'
  <2> SUFFICES ASSUME NEW n \in outputs', n.dir = "deleted", OwnName(n.call), n.call \in known
               PROVE  robot_rcs[n.call] = 0
    BY <1>1, <1>8 DEF FailedOutputKept
  <2>1. CASE n \in outputs \ Present
    BY <2>1 DEF CallsInv, FailedOutputKept
  <2>2. CASE \E o \in Present : n = [o EXCEPT !.dir = "deleted"]
    BY <2>2, <1>6, <1>7
  <2> QED
    BY <1>4, <2>1, <2>2
<1>11. outputs' \in SUBSET Output
  BY <1>4, <1>6 DEF CallsInv, OutputType
<1>12. \A n \in outputs' : \E o \in outputs : n.call = o.call /\ n.file = o.file
  BY <1>4, <1>5, <1>6
<1>13. StageInv'
  BY <1>3 DEF StageInv
<1> QED
  BY <1>1, <1>2, <1>3, <1>9, <1>10, <1>11, <1>12, <1>13, StepOfFiles DEF InCall

\* Files that are moved: the others are among those that were there.
LEMMA FilesMove ==
  ASSUME NEW old, NEW new, MoveFiles(old, new)
  PROVE  \A n \in outputs' : n \in outputs \ old \/ n \in new
BY DEF MoveFiles

\* gzip zips the output of the last command, whose call failed or is always kept.
LEMMA GzipStep ==
  ASSUME CallsInv, GzipFiles
  PROVE  CallsInv'
<1>0. RobotType
  BY DEF CallsInv
<1>1. /\ robot.at = "gzip" /\ ~RemovesOutput /\ environ.gzip
      /\ UNCHANGED <<names, environ, robot_rcs, known, troubled, second>>
  BY DEF GzipFiles, robotRest, CallsInv, StageInv
<1>2. environ' \in Environs /\ SameChoices /\ environ'.path = environ.path
  BY <1>1 DEF CallsInv, EnvironType, SameChoices
<1>3. /\ robot' \in Robots /\ robot'.exiting = robot.exiting /\ SameCommand
      /\ environ.tmp => robot'.at = "mv"
      /\ ~environ.tmp => robot'.at \in {"ended", "idle"}
      /\ robot'.at = "idle" => ~robot.exiting
  <2>1. CASE environ.tmp /\ RobotAt("mv")
    BY <1>0, <2>1, RobotGoes DEF RobotPcs, Processing
  <2>2. CASE ~environ.tmp /\ Processed
    BY <1>0, <2>2, ProcessingEnds
  <2> QED
    BY <2>1, <2>2 DEF GzipFiles
<1>4. \A n \in outputs' :
        \/ n \in outputs \ Present
        \/ \E o \in Present : n = [o EXCEPT !.gz = TRUE]
  <2>1. MoveFiles(Present, {[o EXCEPT !.gz = TRUE] : o \in Present})
    BY DEF GzipFiles
  <2> QED
    BY <2>1, FilesMove
<1>5. \A o \in Present : /\ o \in Output /\ o \in outputs /\ o.file = robot.command
                         /\ o.dir = OutputDir /\ ~o.gz
  BY DEF Present, CallsInv, OutputType
<1>6. \A o \in Present : LET n == [o EXCEPT !.gz = TRUE] IN
        n \in Output /\ n.call = o.call /\ n.file = o.file /\ n.dir = o.dir /\ n.gz = TRUE
  BY ONLY <1>5 DEF Output
<1>7. \A c : OwnName(c)' <=> OwnName(c)
  BY <1>1 DEF OwnName
<1>8. environ.gzip = TRUE /\ environ.tmp \in BOOLEAN
  BY <1>1 DEF CallsInv, EnvironType, Environs
<1>9. SettleInv'
  <2> SUFFICES ASSUME NEW n \in outputs', n.call \in known \ troubled, OwnName(n.call)
               PROVE  Settled(n)' \/ Underway(n)'
    BY <1>1, <1>7 DEF SettleInv
  <2>1. CASE n \in outputs \ Present
    <3>1. Settled(n)
      BY <2>1, <1>1, UnderwayIsPresent DEF CallsInv, SettleInv
    <3> QED
      BY <3>1, <1>1 DEF Settled
  <2>2. CASE \E o \in Present : n = [o EXCEPT !.gz = TRUE]
    <3>1. PICK o \in Present : n.call = o.call /\ n.dir = o.dir /\ n.gz = TRUE
      BY <2>2, <1>6
    <3>2. robot.last_rc = robot_rcs[o.call]
      BY <3>1, <1>5, OwnCommand
    <3>3. ~(environ.policy = "FAIL" /\ robot_rcs[o.call] = 0)
      BY <3>2, <1>1 DEF RemovesOutput
    <3>4. ~Settled(o)
      BY <3>3, <1>5, <1>8 DEF Settled
    <3>5. Underway(o)
      BY <3>1, <3>4, <1>5 DEF CallsInv, SettleInv
    <3>6. CASE environ.tmp
      <4>1. /\ robot'.at \in Processing /\ n.call = robot'.call
            /\ robot'.command = names'[n.call] /\ n.dir = OutputDir'
        BY <3>1, <3>5, <3>6, <1>1, <1>3 DEF Underway, Processing, SameCommand, OutputDir
      <4>2. n.gz = (robot'.at = "mv" /\ environ'.gzip)
        BY <3>1, <3>6, <1>1, <1>3
      <4> QED
        BY <4>1, <4>2 DEF Underway
    <3>7. CASE ~environ.tmp
      BY <3>1, <3>3, <3>7, <1>1, <1>5, <1>8 DEF Settled, OutputDir
    <3> QED
      BY <3>6, <3>7
  <2> QED
    BY <1>4, <2>1, <2>2
<1>10. FailedOutputKept'
  <2> SUFFICES ASSUME NEW n \in outputs', n.dir = "deleted", OwnName(n.call), n.call \in known
               PROVE  robot_rcs[n.call] = 0
    BY <1>1, <1>7 DEF FailedOutputKept
  <2>1. n \in outputs
    BY <1>4, <1>5, <1>6 DEF OutputDir
  <2> QED
    BY <2>1 DEF CallsInv, FailedOutputKept
<1>11. outputs' \in SUBSET Output
  BY <1>4, <1>6 DEF CallsInv, OutputType
<1>12. \A n \in outputs' : \E o \in outputs : n.call = o.call /\ n.file = o.file
  <2> SUFFICES ASSUME NEW n \in outputs'
               PROVE  \E o \in outputs : n.call = o.call /\ n.file = o.file
    OBVIOUS
  <2>1. CASE n \in outputs
    BY <2>1
  <2>2. CASE \E o \in Present : n = [o EXCEPT !.gz = TRUE]
    <3>1. PICK o \in Present : n.call = o.call /\ n.file = o.file
      BY <2>2, <1>6
    <3> QED
      BY <3>1, <1>5
  <2> QED
    BY <1>4, <2>1, <2>2
<1>13. StageInv'
  BY <1>1, <1>3 DEF StageInv, RemovesOutput, SameCommand
<1>14. /\ robot'.at \notin InCall
       /\ robot'.at \in InCall \cup {"idle"} => ~robot'.exiting
       /\ ~robot'.exiting => ~robot.exiting /\ robot.at # "run"
  BY <1>1, <1>3 DEF InCall
<1> QED
  BY <1>1, <1>2, <1>3, <1>9, <1>10, <1>11, <1>12, <1>13, <1>14, StepOfFiles DEF InCall

\* mv moves the output of the last command, or fails.
LEMMA MvStep ==
  ASSUME CallsInv, MvFiles
  PROVE  CallsInv'
<1> DEFINE moved == {o \in outputs : /\ o.file = robot.command /\ o.dir = OutputDir
                                     /\ o.gz = environ.gzip}
<1>0. RobotType
  BY DEF CallsInv
<1>1. /\ robot.at = "mv" /\ ~RemovesOutput /\ environ.tmp
      /\ UNCHANGED <<names, environ, robot_rcs, known, second>>
  BY DEF MvFiles, CallsInv, StageInv
<1>2. environ' \in Environs /\ SameChoices /\ environ'.path = environ.path
  BY <1>1 DEF CallsInv, EnvironType, SameChoices
<1>3. /\ robot' \in Robots /\ robot'.at \in {"ended", "idle"}
      /\ robot'.at = "idle" => ~robot.exiting
      /\ robot'.exiting = robot.exiting /\ SameCommand
  BY <1>0, ProcessingEnds DEF MvFiles
<1>4. \A n \in outputs' :
        \/ n \in outputs /\ (n \in moved => n.call \in troubled')
        \/ \E o \in moved : n = [o EXCEPT !.dir = "ffdc"]
  <2>1. CASE MoveFiles(moved, {[o EXCEPT !.dir = "ffdc"] : o \in moved})
    BY <2>1, FilesMove
  <2>2. CASE outputs' = outputs /\ troubled' = troubled \cup {o.call : o \in moved}
    BY <2>2
  <2> QED
    BY <2>1, <2>2 DEF MvFiles
<1>5. \A o \in moved : o \in Output /\ o \in outputs /\ o.file = robot.command /\ o.gz = environ.gzip
  BY DEF CallsInv, OutputType
<1>6. \A o \in moved : LET n == [o EXCEPT !.dir = "ffdc"] IN
        n \in Output /\ n.call = o.call /\ n.file = o.file /\ n.dir = "ffdc" /\ n.gz = o.gz
  <2> HIDE DEF moved
  <2> QED
    BY ONLY <1>5 DEF Output
<1>7. \A c : OwnName(c)' <=> OwnName(c)
  BY <1>1 DEF OwnName
<1>8. troubled \subseteq troubled'
  BY DEF MvFiles
<1>9. \A o \in outputs : Underway(o) => o \in moved
  BY <1>1, UnderwayIsPresent
<1> HIDE DEF moved
<1>10. SettleInv'
  <2> SUFFICES ASSUME NEW n \in outputs', n.call \in known \ troubled', OwnName(n.call)
               PROVE  Settled(n)'
    BY <1>1, <1>7 DEF SettleInv
  <2>1. CASE n \in outputs /\ (n \in moved => n.call \in troubled')
    <3>1. Settled(n)
      BY <2>1, <1>8, <1>9 DEF CallsInv, SettleInv
    <3> QED
      BY <3>1, <1>1 DEF Settled
  <2>2. CASE \E o \in moved : n = [o EXCEPT !.dir = "ffdc"]
    <3>1. PICK o \in moved : n.call = o.call /\ n.dir = "ffdc" /\ n.gz = environ.gzip
      BY <2>2, <1>5, <1>6
    <3>2. robot.last_rc = robot_rcs[o.call]
      BY <3>1, <1>5, OwnCommand
    <3> QED
      BY <3>1, <3>2, <1>1 DEF Settled, RemovesOutput
  <2> QED
    BY <1>4, <2>1, <2>2
<1>11. FailedOutputKept'
  <2> SUFFICES ASSUME NEW n \in outputs', n.dir = "deleted", OwnName(n.call), n.call \in known
               PROVE  robot_rcs[n.call] = 0
    BY <1>1, <1>7 DEF FailedOutputKept
  <2>1. n \in outputs
    BY <1>4, <1>6
  <2> QED
    BY <2>1 DEF CallsInv, FailedOutputKept
<1>12. outputs' \in SUBSET Output
  BY <1>4, <1>6 DEF CallsInv, OutputType
<1>13. \A n \in outputs' : \E o \in outputs : n.call = o.call /\ n.file = o.file
  <2> SUFFICES ASSUME NEW n \in outputs'
               PROVE  \E o \in outputs : n.call = o.call /\ n.file = o.file
    OBVIOUS
  <2>1. CASE n \in outputs
    BY <2>1
  <2>2. CASE \E o \in moved : n = [o EXCEPT !.dir = "ffdc"]
    <3>1. PICK o \in moved : n.call = o.call /\ n.file = o.file
      BY <2>2, <1>6
    <3> QED
      BY <3>1, <1>5
  <2> QED
    BY <1>4, <2>1, <2>2
<1>14. StageInv'
  BY <1>3 DEF StageInv
<1> QED
  BY <1>1, <1>2, <1>3, <1>10, <1>11, <1>12, <1>13, <1>14, StepOfFiles DEF InCall

\* The program exits, at its end or by a signal: what was under way is troubled.
LEMMA ExitStep ==
  ASSUME CallsInv, ProgramDone \/ RobotSignal
  PROVE  CallsInv'
<1>0. RobotType
  BY DEF CallsInv
<1>1. UNCHANGED <<names, environ, outputs, robot_rcs, known, second>> /\ troubled \subseteq troubled'
  BY DEF ProgramDone, RobotSignal, robotRest
<1>2. environ' \in Environs /\ SameChoices /\ environ'.path = environ.path
  BY <1>1 DEF CallsInv, EnvironType, SameChoices
<1>3. \A o \in outputs : ~(o.call \in known \ troubled' /\ Underway(o))
  <2>1. CASE ProgramDone
    BY <2>1 DEF ProgramDone, Underway, Processing
  <2>2. CASE RobotSignal
    BY <2>2 DEF RobotSignal, Underway
  <2> QED
    BY <2>1, <2>2
<1>4. robot' \in Robots /\ robot'.at \in {"ls", "ended"} /\ robot'.exiting /\ SameCommand
  <2>1. CASE ExitFunctionRuns
    BY <1>0, <2>1, RobotExits
  <2>2. CASE robot.exiting /\ RobotAt("ended")
    BY <1>0, <2>2, RobotGoes DEF RobotPcs
  <2> QED
    BY <2>1, <2>2 DEF ProgramDone, RobotSignal
<1>5. StageInv'
  BY <1>4 DEF StageInv
<1> QED
  BY <1>1, <1>2, <1>3, <1>4, <1>5, StepOfProgram DEF InCall

\* The clock, or nothing, moves.
LEMMA ClockStep ==
  ASSUME CallsInv, SecondPasses \/ UNCHANGED robotVars
  PROVE  CallsInv'
<1>1. /\ UNCHANGED <<names, robot, environ, outputs, robot_rcs, known, troubled>>
      /\ second' \in Nat \ {0}
  BY DEF SecondPasses, robotVars, CallsInv, NamesType
<1>2. RobotType' /\ EnvironType' /\ NamesType' /\ OutputType' /\ RcsType'
  BY <1>1 DEF CallsInv, RobotType, EnvironType, NamesType, OutputType, RcsType
<1>3. FlowInv' /\ StageInv' /\ OutputInv' /\ CommandInv' /\ PathInv'
  BY <1>1 DEF CallsInv, FlowInv, StageInv, OutputInv, CommandInv, PathInv, RemovesOutput, OutputDir
<1>4. SettleInv' /\ FailedOutputKept'
  BY <1>1 DEF CallsInv, SettleInv, FailedOutputKept, Settled, Underway, OwnName, OutputDir
<1> QED
  BY <1>2, <1>3, <1>4 DEF CallsInv

\* Only the first call of robot chooses the base directory.
LEMMA BaseStep ==
  ASSUME CallsInv, [RobotNext]_robotVars, environ.base # "unset"
  PROVE  environ'.base = environ.base /\ environ'.from_sb = environ.from_sb
<1>0. environ \in Environs
  BY DEF CallsInv, EnvironType
<1>1. CASE create_robot_cmd_string
  <2>1. environ' = [environ EXCEPT !.from_sb = environ.from_sb, !.base = environ.base]
    BY Zenon, <1>1 DEF create_robot_cmd_string, init_robot_test_base_dir_path, FromSandbox
  <2> QED
    BY ONLY <1>0, <2>1 DEF Environs
<1>2. CASE robot_cmd_fnc
  <2>1. \/ environ' = [environ EXCEPT !.saved = environ.path, !.path = NewPath]
        \/ environ' = [environ EXCEPT !.saved = environ.path]
    BY Zenon, <1>2 DEF robot_cmd_fnc
  <2> QED
    BY ONLY <1>0, <2>1 DEF Environs
<1>3. CASE RobotReturns
  <2>1. environ' = [environ EXCEPT !.path = RestoredPath]
    BY Zenon, <1>3 DEF RobotReturns
  <2> QED
    BY ONLY <1>0, <2>1 DEF Environs
<1>4. CASE ~create_robot_cmd_string /\ ~robot_cmd_fnc /\ ~RobotReturns
  <2>1. environ' = environ
    BY <1>4 DEF RobotNext, robotVars, init_robot_out_parms, RobotWrites, RobotEnds,
       process_robot_output_files, RmFiles, GzipFiles, MvFiles, ProgramDone, RobotSignal, SecondPasses
  <2> QED
    BY <2>1
<1> QED
  BY <1>1, <1>2, <1>3, <1>4

\* After every call of robot its output is where it belongs and the environment is
\* what it was, whenever signals come (RobotCalls.CallsLeaveOrder).
THEOREM CallsDoLeaveOrder == RobotSpec => CallsLeaveOrder
<1>1. RobotInit => CallsInv
  BY CallsInvInit
<1>2. CallsInv /\ [RobotNext]_robotVars => CallsInv'
  <2> SUFFICES ASSUME CallsInv, RobotNext \/ UNCHANGED robotVars PROVE CallsInv'
    OBVIOUS
  <2> QED
    BY CallBegins, CommandStep, CallStep, WriteStep, EndStep, ReturnStep, ListStep, RmStep,
       GzipStep, MvStep, ExitStep, ClockStep DEF RobotNext
<1>3. CallsInv => FailedOutputKept /\ OutputsSettled /\ PathRestored
  <2> SUFFICES ASSUME CallsInv PROVE OutputsSettled /\ PathRestored
    BY DEF CallsInv
  <2>1. OutputsSettled
    BY DEF CallsInv, SettleInv, OutputsSettled, Settled, Underway, Processing
  <2>2. PathRestored
    BY DEF CallsInv, FlowInv, PathInv, PathRestored, InCall
  <2> QED
    BY <2>1, <2>2
<1>4. CallsInv /\ [RobotNext]_robotVars =>
        [environ.base # "unset" =>
           environ'.base = environ.base /\ environ'.from_sb = environ.from_sb]_robotVars
  BY BaseStep
<1> QED
  BY <1>1, <1>2, <1>3, <1>4, PTL DEF RobotSpec, CallsLeaveOrder, BaseStable

-----------------------------------------------------------------------------
(* BootResults *)

TableBoots == BootNames \X BOOLEAN
Statuses == {"pass", "fail"}
Entries == TableBoots \X Statuses
Sheets == [TableBoots -> [Fields -> Nat]]

\* The boots of a table are finitely many.
LEMMA TableFinite == IsFiniteSet(TableBoots) /\ TableBoots # {}
<1>1. IsFiniteSet(BOOLEAN)
  <2>1. IsFiniteSet({})
    BY FS_EmptySet
  <2>2. IsFiniteSet({} \cup {TRUE})
    BY ONLY <2>1, FS_AddElement
  <2>3. IsFiniteSet(({} \cup {TRUE}) \cup {FALSE})
    BY ONLY <2>2, FS_AddElement
  <2>4. ({} \cup {TRUE}) \cup {FALSE} = BOOLEAN
    OBVIOUS
  <2> QED
    BY ONLY <2>3, <2>4
<1>2. IsFiniteSet(BootNames \X BOOLEAN)
  BY <1>1, ResAssumption, FS_Product
<1>3. PICK b \in BootNames : TRUE
  BY ResAssumption
<1>4. <<b, TRUE>> \in BootNames \X BOOLEAN
  BY <1>3
<1> QED
  BY <1>2, <1>4 DEF TableBoots

\* g sums up the field for sets of rows.
SumsUp(g, sheet, field) ==
  \A s \in SUBSET TableBoots :
    g[s] = IF s = {} THEN 0 ELSE g[s \ {Picked(s)}] + sheet[Picked(s)][field]

\* The sum of a column is a sum over sets of rows.
LEMMA SumFold ==
  ASSUME NEW sheet \in Sheets, NEW field \in Fields
  PROVE  \E g : /\ SumsUp(g, sheet, field) /\ sum_field(sheet, field) = g[TableBoots]
                /\ \A s \in SUBSET TableBoots : g[s] \in Nat
<1> DEFINE S == TableBoots
           Rec(g) == g = [s \in SUBSET S |-> IF s = {} THEN 0
                                             ELSE g[s \ {Picked(s)}] + sheet[Picked(s)][field]]
           iter == CHOOSE g : Rec(g)
<1>1. DOMAIN sheet = S /\ \A b \in S : sheet[b][field] \in Nat
  BY DEF Sheets
<1>2. sum_field(sheet, field) = iter[S]
  BY <1>1 DEF sum_field, FoldSet, MapThenFoldSet, Picked
<1>3. \A s \in SUBSET S : s # {} => Picked(s) \in s
  BY DEF Picked
<1>4. PICK g \in [SUBSET S -> Nat] : SumsUp(g, sheet, field)
  <2> DEFINE ch == [s \in SUBSET S |-> IF s = {} THEN CHOOSE x \in S : TRUE ELSE Picked(s)]
             op == [x \in S \X Nat |-> x[2] + sheet[x[1]][field]]
  <2>1. \A s \in SUBSET S : s # {} => ch[s] = Picked(s) /\ ch[s] \in s
    BY <1>3
  <2>2. op \in [S \X Nat -> Nat]
    BY <1>1
  <2>3. ch \in [SUBSET S -> S]
    BY <1>3, TableFinite
  <2>4. \A b \in S, n \in Nat : op[<<b, n>>] = n + sheet[b][field]
    OBVIOUS
  <2> HIDE DEF ch, op, S
  <2>5. Takes(ch, S)
    BY <2>1 DEF Takes
  <2>6. IsFiniteSet(S)
    BY TableFinite DEF S
  <2>7. PICK g \in [SUBSET S -> Nat] : IsFold(g, S, 0, op, ch)
    BY <2>2, <2>3, <2>5, <2>6, FoldExists
  <2>8. ASSUME NEW s \in SUBSET S, s # {}
        PROVE  g[s] = g[s \ {Picked(s)}] + sheet[Picked(s)][field]
    <3>1. Picked(s) \in S /\ s \ {Picked(s)} \in SUBSET S
      BY <1>3, <2>8
    <3>2. g[s \ {Picked(s)}] \in Nat
      BY <3>1
    <3>3. g[s] = op[<<Picked(s), g[s \ {Picked(s)}]>>]
      BY <2>1, <2>7, <2>8 DEF IsFold
    <3> QED
      BY <2>4, <3>1, <3>2, <3>3
  <2>9. ASSUME NEW s \in SUBSET S, s = {}
        PROVE  g[s] = 0
    BY <2>7, <2>9 DEF IsFold
  <2> QED
    BY <2>8, <2>9 DEF SumsUp, S
<1>5. Rec(g)
  BY <1>4 DEF SumsUp
<1>6. Rec(iter)
  <2> HIDE DEF Rec
  <2> QED
    BY <1>5
<1>7. \A s \in SUBSET S : iter[s] = IF s = {} THEN 0 ELSE iter[s \ {Picked(s)}] + sheet[Picked(s)][field]
  <2> HIDE DEF iter
  <2> QED
    BY <1>6
<1> HIDE DEF iter
<1>8. \A s \in SUBSET S : iter[s] \in Nat
  <2> DEFINE T == {s \in SUBSET S : iter[s] \in Nat}
  <2>1. {} \in T
    <3>1. {} \in SUBSET S
      OBVIOUS
    <3>2. iter[{}] = 0
      BY <1>7, <3>1
    <3>3. iter[{}] \in Nat
      BY <3>2
    <3> QED
      BY <3>1, <3>3
  <2>2. \A s \in SUBSET S : s # {} /\ s \ {Picked(s)} \in T => s \in T
    BY <1>1, <1>3, <1>7
  <2> HIDE DEF T
  <2>3. \A s \in SUBSET S : s \in T
    BY <2>1, <2>2, AllSubsets, TableFinite
  <2> QED
    BY <2>3 DEF T
<1>9. SumsUp(iter, sheet, field)
  BY <1>7 DEF SumsUp
<1> QED
  BY <1>2, <1>8, <1>9

\* What a row gains its column gains.
LEMMA SumChange ==
  ASSUME NEW sheet \in Sheets, NEW sheet2 \in Sheets, NEW field \in Fields,
         NEW b \in TableBoots, NEW d \in Nat,
         \A c \in TableBoots : sheet2[c][field] = IF c = b THEN sheet[c][field] + d ELSE sheet[c][field]
  PROVE  sum_field(sheet2, field) = sum_field(sheet, field) + d
<1> DEFINE S == TableBoots
<1>1. PICK g : /\ SumsUp(g, sheet, field) /\ sum_field(sheet, field) = g[S]
               /\ \A s \in SUBSET S : g[s] \in Nat
  BY SumFold
<1>2. PICK h : /\ SumsUp(h, sheet2, field) /\ sum_field(sheet2, field) = h[S]
               /\ \A s \in SUBSET S : h[s] \in Nat
  BY SumFold
<1> DEFINE T == {s \in SUBSET S : h[s] = IF b \in s THEN g[s] + d ELSE g[s]}
<1>3. {} \in T
  BY <1>1, <1>2 DEF SumsUp
<1>4. ASSUME NEW s \in SUBSET S, s # {}, s \ {Picked(s)} \in T
      PROVE  s \in T
  <2> DEFINE x == Picked(s)
             r == s \ {x}
  <2>1. x \in s
    BY <1>4 DEF Picked
  <2>2. g[s] = g[r] + sheet[x][field] /\ h[s] = h[r] + sheet2[x][field]
    BY <1>1, <1>2, <1>4 DEF SumsUp
  <2>3. sheet[x][field] \in Nat /\ sheet2[x][field] \in Nat /\ g[r] \in Nat /\ h[r] \in Nat
    BY <1>1, <1>2, <2>1 DEF Sheets
  <2>4. h[r] = IF b \in r THEN g[r] + d ELSE g[r]
    BY <1>4
  <2>5. sheet2[x][field] = IF x = b THEN sheet[x][field] + d ELSE sheet[x][field]
    BY <2>1
  <2>6. CASE x = b
    <3>1. b \in s /\ b \notin r
      BY <2>1, <2>6
    <3>2. h[s] = g[s] + d
      <4> HIDE DEF x, r
      <4> QED
        BY <2>2, <2>3, <2>4, <2>5, <2>6, <3>1
    <3> QED
      BY <3>1, <3>2
  <2>7. CASE x # b
    <3>1. b \in s <=> b \in r
      BY <2>7
    <3>2. h[s] = IF b \in r THEN g[s] + d ELSE g[s]
      <4> HIDE DEF x, r
      <4> QED
        BY <2>2, <2>3, <2>4, <2>5, <2>7
    <3> QED
      BY <3>1, <3>2
  <2> QED
    BY <2>6, <2>7
<1> HIDE DEF T
<1>5. S \in T
  BY <1>3, <1>4, AllSubsets, TableFinite
<1> QED
  BY <1>1, <1>2, <1>5 DEF T

\* A new sheet sums up to nothing.
LEMMA SumNew ==
  ASSUME NEW sheet \in Sheets, NEW field \in Fields, \A c \in TableBoots : sheet[c][field] = 0
  PROVE  sum_field(sheet, field) = 0
<1> DEFINE S == TableBoots
<1>1. PICK g : SumsUp(g, sheet, field) /\ sum_field(sheet, field) = g[S]
  BY SumFold
<1> DEFINE T == {s \in SUBSET S : g[s] = 0}
<1>2. {} \in T
  BY <1>1 DEF SumsUp
<1>3. \A s \in SUBSET S : s # {} /\ s \ {Picked(s)} \in T => s \in T
  BY <1>1 DEF SumsUp, Picked
<1> HIDE DEF T
<1>4. S \in T
  BY <1>2, <1>3, AllSubsets, TableFinite
<1> QED
  BY <1>1, <1>4 DEF T

-----------------------------------------------------------------------------

\* One more boot is counted once more, as what it is.
LEMMA CountedNext ==
  ASSUME NEW done \in Seq(Entries), NEW b \in TableBoots, NEW status \in Statuses,
         NEW c \in TableBoots, NEW st \in Statuses
  PROVE  LET all == Append(done, <<b, status>>)
         IN  /\ Counted(all, st) = IF st = status THEN Counted(done, st) + 1 ELSE Counted(done, st)
             /\ NumberOf(all, c, st) = IF c = b /\ st = status THEN NumberOf(done, c, st) + 1
                                       ELSE NumberOf(done, c, st)
<1> DEFINE e == <<b, status>>
           all == Append(done, e)
           n == Len(done) + 1
           A(s) == {i \in DOMAIN s : s[i][2] = st}
           f == <<c, st>>
           B(s) == {i \in DOMAIN s : s[i] = f}
<1>1. e \in Entries /\ e[2] = status /\ (e = f <=> c = b /\ st = status)
  BY DEF Entries
<1>2. /\ Len(done) \in Nat /\ DOMAIN done = 1..Len(done) /\ DOMAIN all = 1..n
      /\ all[n] = e /\ \A i \in 1..Len(done) : all[i] = done[i]
  <2> HIDE DEF e
  <2> QED
    BY <1>1, LenProperties, AppendProperties
<1> HIDE DEF all, e, f
<1>3. A(all) = IF st = status THEN A(done) \cup {n} ELSE A(done)
  BY <1>1, <1>2
<1>4. B(all) = IF c = b /\ st = status THEN B(done) \cup {n} ELSE B(done)
  BY <1>1, <1>2
<1>5. n \notin A(done) /\ n \notin B(done) /\ A(done) \subseteq 1..Len(done) /\ B(done) \subseteq 1..Len(done)
  BY <1>2
<1>6. Counted(all, st) = Cardinality(A(all)) /\ Counted(done, st) = Cardinality(A(done))
  BY DEF Counted
<1>7. NumberOf(all, c, st) = Cardinality(B(all)) /\ NumberOf(done, c, st) = Cardinality(B(done))
  BY DEF NumberOf, f
<1> HIDE DEF A, B
<1>8. IsFiniteSet(A(done)) /\ IsFiniteSet(B(done))
  <2>1. IsFiniteSet(1..Len(done))
    BY <1>2, FS_Interval
  <2> QED
    BY <1>5, <2>1, FS_Subset
<1>9. Cardinality(A(done) \cup {n}) = Cardinality(A(done)) + 1
  BY <1>5, <1>8, FS_AddElement
<1>10. Cardinality(B(done) \cup {n}) = Cardinality(B(done)) + 1
  BY <1>5, <1>8, FS_AddElement
<1> QED
  BY <1>3, <1>4, <1>6, <1>7, <1>9, <1>10 DEF all, e

\* Nothing is counted before the first boot.
LEMMA CountedNone ==
  ASSUME NEW b, NEW status
  PROVE  Counted(<<>>, status) = 0 /\ NumberOf(<<>>, b, status) = 0
BY FS_EmptySet DEF Counted, NumberOf

\* The rows, and their sums, are those of the boots done.
Tallied(sheet, done) ==
  /\ sheet \in Sheets
  /\ \A b \in TableBoots : sheet[b]["total"] = sheet[b]["pass"] + sheet[b]["fail"]
  /\ sum_field(sheet, "total") = Len(done)
  /\ \A status \in Statuses :
       /\ sum_field(sheet, status) = Counted(done, status)
       /\ \A b \in TableBoots : sheet[b][status] = NumberOf(done, b, status)

\* A new sheet is that of no boots.
LEMMA TalliedNew ==
  ASSUME NEW os_host
  PROVE  /\ Tallied(NewSheet(create_boot_table(os_host)), <<>>)
         /\ calc(NewSheet(create_boot_table(os_host))) = Row
<1> DEFINE sheet == NewSheet(create_boot_table(os_host))
<1>1. sheet = [b \in TableBoots |-> Row]
  BY DEF NewSheet, create_boot_table, TableBoots
<1>2. sheet \in Sheets /\ \A b \in TableBoots, f \in Fields : sheet[b][f] = 0
  BY <1>1 DEF Sheets, Row
<1> HIDE DEF sheet
<1>3. \A f \in Fields : sum_field(sheet, f) = 0
  BY <1>2, SumNew
<1>4. calc(sheet) = Row
  BY <1>3 DEF calc, Row
<1>5. Len(<<>>) = 0
  OBVIOUS
<1>6. Tallied(sheet, <<>>)
  BY <1>2, <1>3, <1>5, CountedNone DEF Tallied, Fields, Statuses
<1> QED
  BY <1>4, <1>6 DEF sheet

\* A boot is tallied in its row (boot_results.update).
LEMMA TalliedNext ==
  ASSUME NEW sheet, NEW done \in Seq(Entries), Tallied(sheet, done),
         NEW b \in TableBoots, NEW status \in Statuses
  PROVE  Tallied(calc_fields(inc_row_field(sheet, b, status)), Append(done, <<b, status>>))
<1> DEFINE inc == inc_row_field(sheet, b, status)
           new == calc_fields(inc)
           all == Append(done, <<b, status>>)
<1>1. sheet \in Sheets /\ Statuses \subseteq Fields /\ "total" \in Fields /\ "total" \notin Statuses
  BY DEF Tallied, Statuses, Fields
<1>2. /\ inc \in Sheets
      /\ \A c \in TableBoots, f \in Fields :
           inc[c][f] = IF c = b /\ f = status THEN sheet[c][f] + 1 ELSE sheet[c][f]
  BY <1>1 DEF inc_row_field, Sheets
<1> HIDE DEF inc
<1>3. /\ new \in Sheets
      /\ \A c \in TableBoots : /\ new[c]["total"] = inc[c]["pass"] + inc[c]["fail"]
                               /\ \A f \in Statuses : new[c][f] = inc[c][f]
  BY <1>2 DEF calc_fields, Sheets, Fields, Statuses
<1> HIDE DEF new
<1>4. \A c \in TableBoots, f \in Statuses :
        new[c][f] = IF c = b /\ f = status THEN sheet[c][f] + 1 ELSE sheet[c][f]
  BY <1>1, <1>2, <1>3
<1>5. \A c \in TableBoots, f \in Fields : sheet[c][f] \in Nat
  BY <1>1 DEF Sheets
<1>6. \A c \in TableBoots : /\ new[c]["total"] = new[c]["pass"] + new[c]["fail"]
                            /\ new[c]["total"] = IF c = b THEN sheet[c]["total"] + 1 ELSE sheet[c]["total"]
  <2> TAKE c \in TableBoots
  <2>1. new[c]["total"] = new[c]["pass"] + new[c]["fail"]
    BY <1>3 DEF Statuses
  <2>2. sheet[c]["total"] = sheet[c]["pass"] + sheet[c]["fail"]
    BY DEF Tallied
  <2>3. sheet[c]["pass"] \in Nat /\ sheet[c]["fail"] \in Nat
    BY <1>5 DEF Fields
  <2>4. /\ new[c]["pass"] = IF c = b /\ "pass" = status THEN sheet[c]["pass"] + 1 ELSE sheet[c]["pass"]
        /\ new[c]["fail"] = IF c = b /\ "fail" = status THEN sheet[c]["fail"] + 1 ELSE sheet[c]["fail"]
    BY <1>4 DEF Statuses
  <2>5. status = "pass" \/ status = "fail"
    BY DEF Statuses
  <2> QED
    BY <2>1, <2>2, <2>3, <2>4, <2>5
<1>7. sum_field(new, "total") = sum_field(sheet, "total") + 1
  BY <1>1, <1>3, <1>6, SumChange
<1>8. \A st \in Statuses : sum_field(new, st) = IF st = status THEN sum_field(sheet, st) + 1
                                                ELSE sum_field(sheet, st)
  <2> TAKE st \in Statuses
  <2>1. CASE st = status
    BY <1>1, <1>3, <1>4, <2>1, SumChange
  <2>2. CASE st # status
    <3>1. sum_field(new, st) = sum_field(sheet, st) + 0
      <4>1. \A c \in TableBoots : new[c][st] = IF c = b THEN sheet[c][st] + 0 ELSE sheet[c][st]
        BY <1>1, <1>4, <1>5, <2>2
      <4> QED
        BY <1>1, <1>3, <4>1, SumChange
    <3>2. sum_field(sheet, st) \in Nat
      BY <1>1, SumFold
    <3> QED
      BY <2>2, <3>1, <3>2
  <2> QED
    BY <2>1, <2>2
<1>9. Len(all) = Len(done) + 1
  BY AppendProperties DEF Entries
<1>10. \A st \in Statuses :
         /\ Counted(all, st) = IF st = status THEN Counted(done, st) + 1 ELSE Counted(done, st)
         /\ \A c \in TableBoots :
              NumberOf(all, c, st) = IF c = b /\ st = status THEN NumberOf(done, c, st) + 1
                                     ELSE NumberOf(done, c, st)
  BY CountedNext
<1> HIDE DEF all
<1>11. Tallied(new, all)
  BY <1>3, <1>4, <1>6, <1>7, <1>8, <1>9, <1>10 DEF Tallied
<1> QED
  BY <1>11 DEF new, all, inc

\* How many boots a history of n boots has.
Shown(n) == IF n <= MaxHistory THEN n ELSE MaxHistory

\* The history is the last boots of those done.
IsLast(history, done) ==
  /\ history \in Seq(TableBoots) /\ Len(history) = Shown(Len(done))
  /\ \A i \in 1..Len(history) : history[i] = done[Len(done) - Len(history) + i][1]

\* Where the last boots begin.
LEMMA FirstShown ==
  ASSUME NEW n \in Nat
  PROVE  /\ Max({1, n - MaxHistory + 1}) = n - Shown(n) + 1
         /\ Shown(n) \in Nat /\ Shown(n) <= n
<1>1. MaxHistory \in Nat /\ n - MaxHistory + 1 \in Int
  BY ResAssumption
<1>2. Max({1, n - MaxHistory + 1}) = IF n - MaxHistory + 1 >= 1 THEN n - MaxHistory + 1 ELSE 1
  BY <1>1, MaxOfTwo
<1> QED
  BY <1>1, <1>2 DEF Shown

\* The end of a sequence, element by element.
LEMMA LastOnes ==
  ASSUME NEW S, NEW s \in Seq(S), NEW k \in Nat, k <= Len(s)
  PROVE  LET r == SubSeq(s, Len(s) - k + 1, Len(s))
         IN  r \in Seq(S) /\ Len(r) = k /\ \A i \in 1..k : r[i] = s[Len(s) - k + i]
<1>1. Len(s) \in Nat
  BY LenProperties
<1>2. Len(s) - k + 1 \in 1..Len(s) + 1 /\ Len(s) \in (Len(s) - k + 1) - 1..Len(s)
  BY <1>1
<1> DEFINE m == Len(s) - k + 1
           r == SubSeq(s, m, Len(s))
<1>3. m \in 1..Len(s) + 1 /\ Len(s) \in m - 1..Len(s)
  BY <1>2
<1>4. Len(s) - m + 1 = k /\ m \in Int
  BY <1>1
<1> HIDE DEF m
<1>5. r \in Seq(S) /\ Len(r) = Len(s) - m + 1 /\ \A i \in 1..Len(s) - m + 1 : r[i] = s[m + i - 1]
  BY <1>3, SubSeqProperties
<1>6. \A i \in 1..k : m + i - 1 = Len(s) - k + i
  BY <1>1 DEF m
<1> QED
  BY <1>4, <1>5, <1>6 DEF m

\* A boot is added to the history, and the oldest leaves it when it is full.
LEMMA IsLastNext ==
  ASSUME NEW history, NEW done \in Seq(Entries), IsLast(history, done),
         NEW b \in TableBoots, NEW status \in Statuses
  PROVE  IsLast(update_boot_history(history, b), Append(done, <<b, status>>))
<1> DEFINE e == <<b, status>>
           all == Append(history, b)
           more == Append(done, e)
           new == update_boot_history(history, b)
           k == Shown(Len(all))
<1>1. e \in Entries /\ e[1] = b
  BY DEF Entries
<1> HIDE DEF e
<1>2. history \in Seq(TableBoots) /\ Len(history) \in Nat /\ Len(done) \in Nat
  BY LenProperties DEF IsLast
<1>3. /\ all \in Seq(TableBoots) /\ Len(all) = Len(history) + 1 /\ all[Len(history) + 1] = b
      /\ \A i \in 1..Len(history) : all[i] = history[i]
  BY <1>2, AppendProperties
<1>4. /\ more \in Seq(Entries) /\ Len(more) = Len(done) + 1 /\ more[Len(done) + 1] = e
      /\ \A i \in 1..Len(done) : more[i] = done[i]
  BY <1>1, AppendProperties
<1> HIDE DEF all, more
<1>5. /\ Len(all) \in Nat /\ k \in Nat /\ k <= Len(all)
      /\ Max({1, Len(all) - MaxHistory + 1}) = Len(all) - k + 1
  BY <1>2, <1>3, FirstShown
<1>6. new = SubSeq(all, Len(all) - k + 1, Len(all))
  BY <1>5 DEF update_boot_history, all
<1> HIDE DEF new
<1>7. /\ new \in Seq(TableBoots) /\ Len(new) = k
      /\ \A i \in 1..k : new[i] = all[Len(all) - k + i]
  <2> HIDE DEF k
  <2> QED
    BY <1>3, <1>5, <1>6, LastOnes
<1>8. MaxHistory \in Nat /\ Len(history) = Shown(Len(done))
  BY ResAssumption DEF IsLast
<1>9. k = Shown(Len(more)) /\ k <= Len(more)
  BY <1>2, <1>3, <1>4, <1>8 DEF Shown
<1>10. ASSUME NEW i \in 1..k
       PROVE  all[Len(all) - k + i] = more[Len(more) - k + i][1]
  <2> DEFINE j == Len(all) - k + i
  <2>1. j \in 1..Len(history) + 1
    BY <1>2, <1>3, <1>5
  <2>2. CASE j = Len(history) + 1
    <3>1. i = k /\ Len(more) - k + i = Len(done) + 1
      BY <1>2, <1>3, <1>4, <1>5, <2>2
    <3> QED
      BY <1>1, <1>3, <1>4, <2>2, <3>1
  <2>3. CASE j # Len(history) + 1
    <3>1. j \in 1..Len(history) /\ Len(history) <= Len(done)
      <4>1. Len(history) <= Len(done)
        BY <1>2, <1>8 DEF Shown
      <4> HIDE DEF j
      <4> QED
        BY <1>2, <2>1, <2>3, <4>1
    <3>2. Len(done) - Len(history) + j \in 1..Len(done)
      BY <1>2, <3>1
    <3>3. Len(more) - k + i = Len(done) - Len(history) + j
      BY <1>2, <1>3, <1>4, <1>5
    <3>4. all[j] = history[j] /\ history[j] = done[Len(done) - Len(history) + j][1]
      BY <1>3, <3>1 DEF IsLast
    <3>5. more[Len(done) - Len(history) + j] = done[Len(done) - Len(history) + j]
      BY <1>4, <3>2
    <3> QED
      BY <3>3, <3>4, <3>5
  <2> QED
    BY <2>2, <2>3
<1>11. IsLast(new, more)
  BY <1>7, <1>9, <1>10 DEF IsLast
<1> QED
  BY <1>11 DEF new, more, e

\* What is last is the end of the boots done.
LEMMA LastIsEnd ==
  ASSUME NEW history, NEW done \in Seq(Entries), IsLast(history, done)
  PROVE  LET booted == [i \in DOMAIN done |-> done[i][1]]
         IN  history = SubSeq(booted, Max({1, Len(booted) - MaxHistory + 1}), Len(booted))
<1> DEFINE booted == [i \in DOMAIN done |-> done[i][1]]
           k == Shown(Len(done))
           end == SubSeq(booted, Len(booted) - k + 1, Len(booted))
<1>1. Len(done) \in Nat /\ DOMAIN done = 1..Len(done) /\ \A i \in DOMAIN done : done[i] \in Entries
  BY LenProperties, ElementOfSeq
<1>2. \A i \in DOMAIN done : done[i][1] \in TableBoots
  BY <1>1 DEF Entries
<1>3. booted \in Seq(TableBoots) /\ Len(booted) = Len(done) /\ \A i \in 1..Len(done) : booted[i] = done[i][1]
  BY <1>1, <1>2
<1>4. /\ k \in Nat /\ k <= Len(booted)
      /\ Max({1, Len(booted) - MaxHistory + 1}) = Len(booted) - k + 1
  BY <1>1, <1>3, FirstShown
<1> HIDE DEF booted, k
<1>5. /\ end \in Seq(TableBoots) /\ Len(end) = k
      /\ \A i \in 1..k : end[i] = booted[Len(booted) - k + i]
  BY <1>3, <1>4, LastOnes
<1>6. /\ history \in Seq(TableBoots) /\ Len(history) = k
      /\ \A i \in 1..k : history[i] = done[Len(done) - k + i][1]
  BY DEF IsLast, k
<1>7. \A i \in 1..k : history[i] = end[i]
  <2> TAKE i \in 1..k
  <2>1. Len(booted) - k + i \in 1..Len(done)
    BY <1>1, <1>3, <1>4
  <2> QED
    BY <1>3, <1>5, <1>6, <2>1
<1> HIDE DEF end
<1>8. history = end
  BY <1>5, <1>6, <1>7, SeqEqual
<1> QED
  BY <1>4, <1>8 DEF end, booted

-----------------------------------------------------------------------------
Ats == {"dead", "idle", "clean", "rm", "run", "useless", "saving", "saving_class"}
SheetOrNone == Sheets \cup {NoSheet}
Totals == [Fields -> Nat]
Histories == Seq(TableBoots)
Runs == Seq(Entries)
PgmType == [at : Ats, todo : SUBSET MasterPids, rm : MasterPids \cup {0}, sheet : SheetOrNone,
            totals : Totals, history : Histories]
FileType == [is : {"none", "whole", "torn", "class"}, sheet : SheetOrNone, history : Histories]

Mishaps == {"cut", "raced"}

\* The types of the variables.
ResType ==
  /\ pgm \in [MasterPids -> PgmType] /\ resFile \in [MasterPids -> FileType]
  /\ ran \in [MasterPids -> Runs] /\ kept \in [MasterPids -> Runs]
  /\ sought \in [MasterPids -> SUBSET MasterPids] /\ mishap \in [MasterPids -> SUBSET Mishaps]

\* A program that counts has the boots of this run in its results, any other
\* has none which are not saved.
InProgram(pg, done, saved) ==
  /\ pg.at \in {"run", "saving"} => Tallied(pg.sheet, done) /\ IsLast(pg.history, done)
  /\ pg.at = "run" => pg.totals = calc(pg.sheet)
  /\ pg.at \notin {"run", "saving"} => done = saved
  /\ pg.at \notin {"useless", "saving_class"}

\* A file that is not open is whole, if it is there, and has the boots that were
\* saved.
InFile(pg, file, saved) ==
  /\ pg.at = "saving" <=> file.is = "torn"
  /\ file.is # "class"
  /\ file.is = "none" /\ pg.at # "dead" => saved = <<>>
  /\ file.is = "whole" => Tallied(file.sheet, saved) /\ IsLast(file.history, saved)

\* A file that was cut is no results file, and no program counts.
IsCut(pg, file) ==
  /\ pg.at \notin {"run", "saving"} /\ file.is # "whole"
  /\ pg.at # "dead" => file.is # "none"

\* What holds of each master.
Fine(pg, file, done, saved, gone) ==
  /\ pg.at \in {"run", "saving"} => pg.sheet \in Sheets
  /\ file.is = "whole" => file.sheet \in Sheets
  /\ pg.at = "rm" <=> pg.rm # 0
  /\ gone = {} => InProgram(pg, done, saved) /\ InFile(pg, file, saved)
  /\ gone = {"cut"} => IsCut(pg, file)

ResInv ==
  /\ ResType /\ OnlyDeadSought
  /\ \A p \in MasterPids : Fine(pgm[p], resFile[p], ran[p], kept[p], mishap[p])

\* A program that has just started, or is gone.
LEMMA NoPgmType ==
  ASSUME NEW at \in Ats
  PROVE  /\ NoPgm(at) \in PgmType /\ NoPgm(at).at = at /\ NoPgm(at).rm = 0
         /\ NoPgm(at).totals = Row /\ NoPgm(at).history = <<>>
<1>1. Row \in Totals
  BY DEF Row, Totals
<1>2. <<>> \in Histories
  BY DEF Histories
<1> QED
  BY <1>1, <1>2 DEF NoPgm, PgmType, SheetOrNone

LEMMA NoFileType == NoFile \in FileType /\ NoFile.is = "none"
<1>1. <<>> \in Histories
  BY DEF Histories
<1> QED
  BY <1>1 DEF NoFile, FileType, SheetOrNone

\* The history of no boots.
LEMMA NoneLast == IsLast(<<>>, <<>>)
<1>1. <<>> \in Seq(TableBoots) /\ Len(<<>>) = 0 /\ 1..0 = {}
  OBVIOUS
<1>2. Shown(0) = 0
  BY ResAssumption DEF Shown
<1> QED
  BY <1>1, <1>2 DEF IsLast

\* The sums of a sheet are totals.
LEMMA CalcType ==
  ASSUME NEW sheet \in Sheets
  PROVE  calc(sheet) \in Totals
BY SumFold DEF calc, Totals, Sheets

\* Every master is without a file, a program and boots in the beginning.
LEMMA ResInvInit == ResInit => ResInv
<1> SUFFICES ASSUME ResInit PROVE ResInv
  OBVIOUS
<1>1. <<>> \in Runs
  BY DEF Runs
<1>2. "dead" \in Ats
  BY DEF Ats
<1>3. ResType
  BY <1>1, <1>2, NoPgmType, NoFileType DEF ResInit, ResType
<1>4. \A p \in MasterPids : pgm[p] = NoPgm("dead") /\ resFile[p] = NoFile
  BY DEF ResInit
<1>5. OnlyDeadSought
  BY <1>2, <1>4, NoPgmType DEF OnlyDeadSought, pid_active
<1>6. \A p \in MasterPids : Fine(pgm[p], resFile[p], ran[p], kept[p], mishap[p])
  <2>1. \A p \in MasterPids : ran[p] = <<>> /\ kept[p] = <<>> /\ mishap[p] = {}
    BY DEF ResInit
  <2> QED
    BY <1>2, <1>4, <2>1, NoPgmType, NoFileType DEF Fine, InProgram, InFile
<1> QED
  BY <1>3, <1>5, <1>6 DEF ResInv

\* A step of one master keeps what is of the others.
OthersKept(p) ==
  \A q \in MasterPids \ {p} :
    /\ pgm'[q] = pgm[q] /\ resFile'[q] = resFile[q] /\ ran'[q] = ran[q] /\ kept'[q] = kept[q]
    /\ mishap'[q] = mishap[q] /\ sought'[q] = sought[q]

\* Such a step keeps the invariant, if it does for this master and sets out
\* after the file of no master that runs.
LEMMA OneMaster ==
  ASSUME ResInv, NEW p \in MasterPids, ResType', OthersKept(p),
         Fine(pgm[p], resFile[p], ran[p], kept[p], mishap[p])',
         \A q \in MasterPids : q = p \/ pgm[q].at # "dead" => pgm'[p].rm # q,
         \A q \in MasterPids \ {p} : pgm'[p].at # "dead" /\ pgm[q].rm = p => q \in sought'[p]
  PROVE  ResInv'
<1>1. OnlyDeadSought'
  <2> SUFFICES ASSUME NEW q \in MasterPids, NEW r \in MasterPids, pgm'[q].at # "dead", pgm'[r].rm = q
               PROVE  r \in sought'[q]
    BY DEF OnlyDeadSought, pid_active
  <2>1. CASE q = p
    <3>1. r # p
      BY <2>1
    <3> QED
      BY <2>1, <3>1 DEF OthersKept
  <2>2. CASE q # p
    BY <2>2 DEF ResInv, OnlyDeadSought, pid_active, OthersKept
  <2> QED
    BY <2>1, <2>2
<1>2. ASSUME NEW q \in MasterPids
      PROVE  Fine(pgm[q], resFile[q], ran[q], kept[q], mishap[q])'
  BY DEF ResInv, OthersKept
<1> QED
  BY <1>1, <1>2 DEF ResInv

\* One boot more in a row leaves a sheet a sheet.
LEMMA SheetNext ==
  ASSUME NEW sheet \in Sheets, NEW b \in TableBoots, NEW status \in Statuses
  PROVE  calc_fields(inc_row_field(sheet, b, status)) \in Sheets
<1> DEFINE inc == inc_row_field(sheet, b, status)
<1>1. inc \in Sheets
  BY DEF inc_row_field, Sheets, Statuses, Fields
<1> HIDE DEF inc
<1>2. calc_fields(inc) \in Sheets
  BY <1>1 DEF calc_fields, Sheets, Fields
<1> QED
  BY <1>2 DEF inc

\* One boot more leaves a history a history.
LEMMA HistoryNext ==
  ASSUME NEW history \in Seq(TableBoots), NEW b \in TableBoots
  PROVE  update_boot_history(history, b) \in Seq(TableBoots)
<1> DEFINE all == Append(history, b)
           k == Shown(Len(all))
<1>1. all \in Seq(TableBoots) /\ Len(all) \in Nat
  BY AppendProperties, LenProperties
<1> HIDE DEF all
<1>2. k \in Nat /\ k <= Len(all) /\ Max({1, Len(all) - MaxHistory + 1}) = Len(all) - k + 1
  BY <1>1, FirstShown
<1> HIDE DEF k
<1>3. SubSeq(all, Len(all) - k + 1, Len(all)) \in Seq(TableBoots)
  BY <1>1, <1>2, LastOnes
<1> QED
  BY <1>2, <1>3 DEF update_boot_history, all

\* Every step of a master, of its programs and of those who kill them keeps the
\* invariant.
LEMMA ResInvNext == ResInv /\ [ResNext]_resVars => ResInv'
<1> SUFFICES ASSUME ResInv, [ResNext]_resVars PROVE ResInv'
  OBVIOUS
<1>1. CASE UNCHANGED resVars
  BY <1>1 DEF resVars, ResInv, ResType, OnlyDeadSought, pid_active
<1>2. CASE ResNext
  <2> PICK p \in MasterPids :
        \/ MasterStarts(p) \/ MasterEnds(p)
        \/ setup(p) \/ cleanup_boot_results_file(p) \/ RemoveFile(p) \/ load(p)
        \/ update(p) \/ SaveOpens(p) \/ SaveDumps(p) \/ PgmKilled(p)
    BY <1>2 DEF ResNext
  <2> DEFINE pg == pgm[p]
             file == resFile[p]
  <2>1. /\ pg \in PgmType /\ file \in FileType /\ ran[p] \in Runs /\ kept[p] \in Runs
        /\ sought[p] \in SUBSET MasterPids /\ mishap[p] \in SUBSET Mishaps
        /\ Fine(pg, file, ran[p], kept[p], mishap[p])
    BY DEF ResInv, ResType
  <2>2. p # 0 /\ \A q \in MasterPids : q # 0
    BY ResAssumption
  <2>3. pg.at # "dead" => \A q \in MasterPids : pgm[q].rm = p => q \in sought[p]
    BY DEF ResInv, OnlyDeadSought, pid_active
  <2>4. ASSUME ResType', OthersKept(p), Fine(pgm[p], resFile[p], ran[p], kept[p], mishap[p])',
               pgm'[p].rm = 0, sought' = sought, pg.at # "dead"
        PROVE  ResInv'
    <3>1. \A q \in MasterPids : q = p \/ pgm[q].at # "dead" => pgm'[p].rm # q
      BY <2>2, <2>4
    <3>2. \A q \in MasterPids \ {p} : pgm'[p].at # "dead" /\ pgm[q].rm = p => q \in sought'[p]
      BY <2>3, <2>4
    <3> QED
      BY <2>4, <3>1, <3>2, OneMaster
  <2>5. CASE MasterStarts(p)
    <3> DEFINE seekers == {q \in MasterPids : pgm[q].rm = p}
    <3>1. /\ pg.at = "dead" /\ pgm' = [pgm EXCEPT ![p] = [pg EXCEPT !.at = "idle"]]
          /\ sought' = [sought EXCEPT ![p] = seekers] /\ resFile' = resFile
      BY <2>5 DEF MasterStarts, At
    <3>2. \/ /\ file.is = "none" /\ ran' = [ran EXCEPT ![p] = <<>>]
             /\ kept' = [kept EXCEPT ![p] = <<>>] /\ mishap' = [mishap EXCEPT ![p] = {}]
          \/ file.is # "none" /\ UNCHANGED <<ran, kept, mishap>>
      BY <2>5 DEF MasterStarts
    <3>3. <<>> \in Runs /\ "idle" \in Ats /\ seekers \in SUBSET MasterPids
      BY DEF Runs, Ats
    <3>4. \A q \in MasterPids : pgm[q].rm = p => q \in seekers
      OBVIOUS
    <3> HIDE DEF seekers
    <3>5. ResType' /\ OthersKept(p)
      <4>1. pgm' \in [MasterPids -> PgmType] /\ \A q \in MasterPids \ {p} : pgm'[q] = pgm[q]
        BY <3>1, <3>3 DEF ResInv, ResType, PgmType
      <4>2. /\ sought' \in [MasterPids -> SUBSET MasterPids]
            /\ \A q \in MasterPids \ {p} : sought'[q] = sought[q]
        BY <3>1, <3>3 DEF ResInv, ResType
      <4>3. /\ ran' \in [MasterPids -> Runs] /\ \A q \in MasterPids \ {p} : ran'[q] = ran[q]
            /\ kept' \in [MasterPids -> Runs] /\ \A q \in MasterPids \ {p} : kept'[q] = kept[q]
        BY <3>2, <3>3 DEF ResInv, ResType
      <4>4. /\ mishap' \in [MasterPids -> SUBSET Mishaps]
            /\ \A q \in MasterPids \ {p} : mishap'[q] = mishap[q]
        BY <3>2 DEF ResInv, ResType
      <4> QED
        BY <3>1, <4>1, <4>2, <4>3, <4>4 DEF ResInv, ResType, OthersKept
    <3>6. pgm'[p].at = "idle" /\ pgm'[p].rm = 0 /\ sought'[p] = seekers /\ resFile'[p] = file
      BY <2>1, <3>1 DEF ResInv, ResType, PgmType, Fine
    <3>7. \/ file.is = "none" /\ ran'[p] = <<>> /\ kept'[p] = <<>> /\ mishap'[p] = {}
          \/ file.is # "none" /\ ran'[p] = ran[p] /\ kept'[p] = kept[p] /\ mishap'[p] = mishap[p]
      BY <3>2 DEF ResInv, ResType
    <3>8. Fine(pgm[p], resFile[p], ran[p], kept[p], mishap[p])'
      BY <2>1, <3>1, <3>6, <3>7 DEF Fine, InProgram, InFile, IsCut
    <3>9. \A q \in MasterPids : q = p \/ pgm[q].at # "dead" => pgm'[p].rm # q
      BY <2>2, <3>6
    <3> QED
      BY <3>4, <3>5, <3>6, <3>8, <3>9, OneMaster
  <2>6. CASE MasterEnds(p)
    <3>1. /\ pg.at = "idle" /\ pgm' = [pgm EXCEPT ![p] = [pg EXCEPT !.at = "dead"]]
          /\ UNCHANGED <<resFile, ran, kept, mishap, sought>>
      BY <2>6 DEF MasterEnds, At
    <3>2. "dead" \in Ats
      BY DEF Ats
    <3>3. ResType' /\ OthersKept(p)
      <4> DEFINE x == [pg EXCEPT !.at = "dead"]
      <4>1. x \in PgmType
        BY ONLY <2>1, <3>2 DEF PgmType
      <4>2. pgm' = [pgm EXCEPT ![p] = x]
        BY <3>1
      <4> HIDE DEF x
      <4> QED
        BY <3>1, <4>1, <4>2 DEF ResInv, ResType, OthersKept
    <3>4. pgm'[p].at = "dead" /\ pgm'[p].rm = 0
      BY <2>1, <3>1 DEF ResInv, ResType, PgmType, Fine
    <3>5. Fine(pgm[p], resFile[p], ran[p], kept[p], mishap[p])'
      BY <2>1, <3>1, <3>3, <3>4 DEF Fine, InProgram, InFile, IsCut, OthersKept
    <3> QED
      BY <2>4, <3>1, <3>3, <3>4, <3>5
  <2>7. CASE setup(p)
    <3> DEFINE new == NoPgm("clean")
               todo == {q \in MasterPids : resFile[q].is # "none"}
    <3>1. /\ pg.at = "idle" /\ pgm' = [pgm EXCEPT ![p] = [new EXCEPT !.todo = todo]]
          /\ UNCHANGED <<resFile, ran, kept, mishap, sought>>
      BY <2>7 DEF setup
    <3>2. new \in PgmType /\ new.at = "clean" /\ new.rm = 0 /\ todo \in SUBSET MasterPids
      BY NoPgmType DEF Ats
    <3> HIDE DEF new, todo
    <3>3. ResType' /\ OthersKept(p)
      BY <3>1, <3>2 DEF ResInv, ResType, PgmType, OthersKept
    <3>4. pgm'[p].at = "clean" /\ pgm'[p].rm = 0
      BY <3>1, <3>2 DEF ResInv, ResType, PgmType
    <3>5. Fine(pgm[p], resFile[p], ran[p], kept[p], mishap[p])'
      BY <2>1, <3>1, <3>4 DEF Fine, InProgram, InFile, IsCut
    <3> QED
      BY <2>4, <3>1, <3>3, <3>4, <3>5
  <2>8. CASE cleanup_boot_results_file(p)
    <3>0. PICK q \in pg.todo :
          pgm' = [pgm EXCEPT ![p].todo = @ \ {q},
                             ![p].at = IF Deletes(q) THEN "rm" ELSE "clean",
                             ![p].rm = IF Deletes(q) THEN q ELSE 0]
      BY <2>8 DEF cleanup_boot_results_file
    <3>1. pg.at = "clean" /\ q \in MasterPids /\ UNCHANGED <<resFile, ran, kept, mishap, sought>>
      BY <2>1, <2>8 DEF cleanup_boot_results_file, PgmType
    <3>2. "rm" \in Ats /\ "clean" \in Ats
      BY DEF Ats
    <3>3. ResType' /\ OthersKept(p)
      <4> DEFINE at == IF Deletes(q) THEN "rm" ELSE "clean"
                 rm == IF Deletes(q) THEN q ELSE 0
                 todo == pg.todo \ {q}
                 x == [[[pg EXCEPT !.todo = todo] EXCEPT !.at = at] EXCEPT !.rm = rm]
      <4>1. at \in Ats /\ rm \in MasterPids \cup {0} /\ todo \in SUBSET MasterPids
        BY <2>1, <3>1, <3>2 DEF PgmType
      <4>2. pgm' = [pgm EXCEPT ![p] = x]
        BY <3>0 DEF ResInv, ResType, PgmType
      <4> HIDE DEF at, rm, todo
      <4>3. x \in PgmType
        BY <2>1, <4>1 DEF PgmType
      <4> HIDE DEF x
      <4> QED
        BY <3>1, <4>2, <4>3 DEF ResInv, ResType, OthersKept
    <3>4. /\ pgm'[p].at = IF Deletes(q) THEN "rm" ELSE "clean"
          /\ pgm'[p].rm = IF Deletes(q) THEN q ELSE 0
      BY <3>0, <3>1 DEF ResInv, ResType, PgmType
    <3>5. Fine(pgm[p], resFile[p], ran[p], kept[p], mishap[p])'
      BY <2>1, <2>2, <3>1, <3>4 DEF Fine, InProgram, InFile, IsCut
    <3>6. Deletes(q) => pgm[q].at = "dead" /\ q # p
      BY <3>1 DEF Deletes, pid_active
    <3>7. \A r \in MasterPids : r = p \/ pgm[r].at # "dead" => pgm'[p].rm # r
      BY <2>2, <3>4, <3>6
    <3>8. \A r \in MasterPids \ {p} : pgm'[p].at # "dead" /\ pgm[r].rm = p => r \in sought'[p]
      BY <2>3, <3>1
    <3> QED
      BY <3>3, <3>5, <3>7, <3>8, OneMaster
  <2>9. CASE RemoveFile(p)
    <3> DEFINE r == pg.rm
               gone == IF pid_active(r) /\ resFile[r].is # "none" THEN mishap[r] \cup {"raced"}
                       ELSE mishap[r]
    <3>1. /\ pg.at = "rm" /\ resFile' = [resFile EXCEPT ![r] = NoFile]
          /\ pgm' = [pgm EXCEPT ![p].at = "clean", ![p].rm = 0]
          /\ UNCHANGED <<ran, kept, sought>>
      BY <2>9 DEF RemoveFile
    <3>2. r \in MasterPids
      BY <2>1, <3>1 DEF Fine, PgmType
    <3>3. mishap' = [mishap EXCEPT ![r] = gone]
      BY <2>9, <3>2 DEF RemoveFile, ResInv, ResType
    <3>4. "clean" \in Ats /\ mishap[r] \in SUBSET Mishaps
      BY <3>2 DEF Ats, ResInv, ResType
    <3>5. gone \in SUBSET Mishaps
      BY <3>4 DEF Mishaps
    <3>6. \/ gone = mishap[r] /\ (pgm[r].at = "dead" \/ resFile[r].is = "none")
          \/ gone # {} /\ gone # {"cut"}
      BY DEF pid_active
    <3> HIDE DEF gone
    <3>7. ResType'
      <4> DEFINE x == [[pg EXCEPT !.at = "clean"] EXCEPT !.rm = 0]
      <4>1. pgm' = [pgm EXCEPT ![p] = x]
        BY <3>1 DEF ResInv, ResType, PgmType
      <4>2. x \in PgmType
        BY ONLY <2>1, <3>4 DEF PgmType
      <4> HIDE DEF x
      <4>3. /\ pgm \in [MasterPids -> PgmType] /\ resFile \in [MasterPids -> FileType]
            /\ ran \in [MasterPids -> Runs] /\ kept \in [MasterPids -> Runs]
            /\ sought \in [MasterPids -> SUBSET MasterPids] /\ mishap \in [MasterPids -> SUBSET Mishaps]
        BY DEF ResInv, ResType
      <4>4. pgm' \in [MasterPids -> PgmType]
        BY ONLY <4>1, <4>2, <4>3
      <4>5. resFile' \in [MasterPids -> FileType]
        BY ONLY <3>1, <4>3, NoFileType
      <4>6. mishap' \in [MasterPids -> SUBSET Mishaps]
        BY ONLY <3>3, <3>5, <4>3
      <4> QED
        BY ONLY <3>1, <4>3, <4>4, <4>5, <4>6 DEF ResType
    <3>8. /\ pgm'[p].at = "clean" /\ pgm'[p].rm = 0 /\ \A q \in MasterPids \ {p} : pgm'[q] = pgm[q]
          /\ resFile'[r] = NoFile /\ \A q \in MasterPids \ {r} : resFile'[q] = resFile[q]
      BY <3>1, <3>2 DEF ResInv, ResType, PgmType
    <3>9. mishap'[r] = gone /\ \A q \in MasterPids \ {r} : mishap'[q] = mishap[q]
      BY <3>2, <3>3 DEF ResInv, ResType
    <3>10. OnlyDeadSought'
      <4> SUFFICES ASSUME NEW q \in MasterPids, NEW t \in MasterPids, pgm'[q].at # "dead", pgm'[t].rm = q
                   PROVE  t \in sought'[q]
        BY DEF OnlyDeadSought, pid_active
      <4>1. t # p
        BY <2>2, <3>8
      <4>2. pgm[t].rm = q
        BY <3>8, <4>1
      <4>3. pgm[q].at # "dead"
        <5>1. CASE q = p
          BY <3>1, <5>1
        <5>2. CASE q # p
          BY <3>8, <5>2
        <5> QED
          BY <5>1, <5>2
      <4> QED
        BY <3>1, <4>2, <4>3 DEF ResInv, OnlyDeadSought, pid_active
    <3>11. ASSUME NEW q \in MasterPids
          PROVE  Fine(pgm[q], resFile[q], ran[q], kept[q], mishap[q])'
      <4>1. Fine(pgm[q], resFile[q], ran[q], kept[q], mishap[q])
        BY DEF ResInv
      <4>2. ran'[q] = ran[q] /\ kept'[q] = kept[q]
        BY <3>1
      <4>3. \/ q # p /\ pgm'[q] = pgm[q]
            \/ q = p /\ pgm'[q].at = "clean" /\ pgm'[q].rm = 0 /\ pgm[q].at = "rm"
        BY <3>1, <3>8
      <4>4. CASE q = r
        <5>1. resFile'[q].is = "none" /\ mishap'[q] = gone
          BY <3>8, <3>9, <4>4, NoFileType
        <5> QED
          BY <3>6, <4>1, <4>2, <4>3, <4>4, <5>1 DEF Fine, InProgram, InFile, IsCut
      <4>5. CASE q # r
        <5>1. resFile'[q] = resFile[q] /\ mishap'[q] = mishap[q]
          BY <3>8, <3>9, <4>5
        <5> QED
          BY <4>1, <4>2, <4>3, <5>1 DEF Fine, InProgram, InFile, IsCut
      <4> QED
        BY <4>4, <4>5
    <3> QED
      BY <3>7, <3>10, <3>11 DEF ResInv
  <2>10. CASE load(p)
    <3>0. PICK os_host \in BOOLEAN :
            pgm' = [pgm EXCEPT ![p] =
              CASE file.is = "none" ->
                     [NoPgm("run") EXCEPT !.sheet = NewSheet(create_boot_table(os_host))]
                [] file.is = "whole" ->
                     [NoPgm("run") EXCEPT !.sheet = file.sheet, !.history = file.history,
                                          !.totals = calc(file.sheet)]
                [] OTHER -> NoPgm("useless")]
      BY <2>10 DEF load
    <3>1. pg.at = "clean" /\ UNCHANGED <<resFile, ran, kept, mishap, sought>>
      BY <2>10 DEF load
    <3>2. /\ mishap[p] = {} => ran[p] = kept[p] /\ InFile(pg, file, kept[p])
          /\ mishap[p] = {"cut"} => IsCut(pg, file)
      BY <2>1, <3>1 DEF Fine, InProgram
    <3>3. ASSUME NEW x \in PgmType, pgm' = [pgm EXCEPT ![p] = x], x.rm = 0, x.at \in {"run", "useless"},
                 x.at = "run" => x.sheet \in Sheets,
                 mishap[p] = {} => InProgram(x, ran[p], kept[p]),
                 mishap[p] = {"cut"} => x.at = "useless"
          PROVE  ResInv'
      <4>1. ResType' /\ OthersKept(p) /\ pgm'[p] = x
        BY <3>1, <3>3 DEF ResInv, ResType, OthersKept
      <4>2. Fine(pgm[p], resFile[p], ran[p], kept[p], mishap[p])'
        BY <2>1, <3>1, <3>2, <3>3, <4>1 DEF Fine, InFile, IsCut
      <4> QED
        BY <2>4, <3>1, <3>3, <4>1, <4>2
    <3> DEFINE run == NoPgm("run")
    <3>4. run \in PgmType /\ run.at = "run" /\ run.rm = 0 /\ run.totals = Row /\ run.history = <<>>
      BY NoPgmType DEF Ats
    <3>5. CASE file.is = "none"
      <4> DEFINE sheet == NewSheet(create_boot_table(os_host))
                 x == [run EXCEPT !.sheet = sheet]
      <4>1. pgm' = [pgm EXCEPT ![p] = x]
        BY <3>0, <3>5
      <4>2. Tallied(sheet, <<>>) /\ calc(sheet) = Row /\ sheet \in Sheets
        BY TalliedNew DEF Tallied
      <4> HIDE DEF sheet, run
      <4>3. /\ x \in PgmType /\ x.at = "run" /\ x.rm = 0 /\ x.totals = Row /\ x.history = <<>>
            /\ x.sheet = sheet
        BY <3>4, <4>2 DEF PgmType, SheetOrNone
      <4> HIDE DEF x
      <4>4. mishap[p] = {} => ran[p] = <<>>
        BY <3>1, <3>2, <3>5 DEF InFile
      <4>5. mishap[p] = {} => InProgram(x, ran[p], kept[p])
        BY <3>2, <4>2, <4>3, <4>4, NoneLast DEF InProgram
      <4>6. mishap[p] # {"cut"}
        BY <3>1, <3>2, <3>5 DEF IsCut
      <4> QED
        BY <3>3, <4>1, <4>2, <4>3, <4>5, <4>6
    <3>6. CASE file.is = "whole"
      <4> DEFINE x == [[[run EXCEPT !.sheet = file.sheet] EXCEPT !.history = file.history]
                         EXCEPT !.totals = calc(file.sheet)]
      <4>1. pgm' = [pgm EXCEPT ![p] = x]
        <5>1. [NoPgm("run") EXCEPT !.sheet = file.sheet, !.history = file.history,
                                   !.totals = calc(file.sheet)] = x
          BY <3>4 DEF PgmType
        <5> HIDE DEF x
        <5> QED
          BY <3>0, <3>6, <5>1
      <4>2. file.sheet \in Sheets /\ file.history \in Histories
        BY <2>1, <3>6 DEF Fine, FileType
      <4>3. calc(file.sheet) \in Totals
        BY <4>2, CalcType
      <4> HIDE DEF run
      <4>4. /\ x \in PgmType /\ x.at = "run" /\ x.rm = 0 /\ x.totals = calc(file.sheet)
            /\ x.sheet = file.sheet /\ x.history = file.history
        BY <3>4, <4>2, <4>3 DEF PgmType, SheetOrNone
      <4> HIDE DEF x
      <4>5. mishap[p] = {} => InProgram(x, ran[p], kept[p])
        BY <3>2, <3>6, <4>4 DEF InProgram, InFile
      <4>6. mishap[p] # {"cut"}
        BY <3>2, <3>6 DEF IsCut
      <4> QED
        BY <3>3, <4>1, <4>2, <4>4, <4>5, <4>6
    <3>7. CASE file.is \notin {"none", "whole"}
      <4> DEFINE x == NoPgm("useless")
      <4>1. pgm' = [pgm EXCEPT ![p] = x]
        BY <3>0, <3>7
      <4>2. x \in PgmType /\ x.at = "useless" /\ x.rm = 0
        BY NoPgmType DEF Ats
      <4> HIDE DEF x
      <4>3. mishap[p] = {} => InProgram(x, ran[p], kept[p])
        <5>1. mishap[p] # {}
          BY <2>1, <3>1, <3>2, <3>7 DEF InFile, FileType
        <5> QED
          BY <5>1
      <4> QED
        BY <3>3, <4>1, <4>2, <4>3
    <3> QED
      BY <3>5, <3>6, <3>7
  <2>11. CASE update(p)
    <3>0. PICK boot \in (BootNames \cup {"unknown"}) \X BOOLEAN, status \in {"pass", "fail"} :
            LET sheet == calc_fields(inc_row_field(pg.sheet, boot, status))
            IN /\ valid_boot_list({boot}, pg.sheet)
               /\ pgm' = [pgm EXCEPT ![p].sheet = sheet, ![p].totals = calc(sheet),
                                     ![p].history = update_boot_history(@, boot)]
               /\ ran' = [ran EXCEPT ![p] = Append(@, <<boot, status>>)]
      BY <2>11 DEF update
    <3> DEFINE sheet == calc_fields(inc_row_field(pg.sheet, boot, status))
               totals == calc(sheet)
               history == update_boot_history(pg.history, boot)
               done == Append(ran[p], <<boot, status>>)
               x == [[[pg EXCEPT !.sheet = sheet] EXCEPT !.totals = totals] EXCEPT !.history = history]
    <3>1. pg.at = "run" /\ pg.sheet \in Sheets /\ UNCHANGED <<resFile, kept, mishap, sought>>
      BY <2>1, <2>11 DEF update, Fine
    <3>2. boot \in TableBoots /\ status \in Statuses
      BY <3>0, <3>1 DEF valid_boot_list, create_valid_boot_list, Sheets, Statuses
    <3>3. pgm' = [pgm EXCEPT ![p] = x] /\ ran' = [ran EXCEPT ![p] = done]
      BY <3>0 DEF ResInv, ResType, PgmType
    <3>4. sheet \in Sheets
      BY <3>1, <3>2, SheetNext
    <3>5. totals \in Totals
      BY <3>4, CalcType
    <3>6. history \in Histories
      BY <2>1, <3>2, HistoryNext DEF PgmType, Histories
    <3>7. done \in Runs
      BY <2>1, <3>2, AppendProperties DEF Runs, Entries
    <3>8. mishap[p] = {} => Tallied(sheet, done) /\ IsLast(history, done)
      BY <2>1, <3>1, <3>2, TalliedNext, IsLastNext DEF Fine, InProgram, Runs
    <3>9. totals = calc(sheet)
      OBVIOUS
    <3> HIDE DEF sheet, totals, history, done
    <3>10. /\ x \in PgmType /\ x.at = "run" /\ x.rm = pg.rm /\ x.sheet = sheet /\ x.totals = totals
           /\ x.history = history
      BY <2>1, <3>1, <3>4, <3>5, <3>6 DEF PgmType, SheetOrNone
    <3> HIDE DEF x
    <3>11. ResType' /\ OthersKept(p) /\ pgm'[p] = x /\ ran'[p] = done
      BY <3>1, <3>3, <3>7, <3>10 DEF ResInv, ResType, OthersKept
    <3>12. x.rm = 0
      BY <2>1, <3>1, <3>10 DEF Fine
    <3>13. Fine(pgm[p], resFile[p], ran[p], kept[p], mishap[p])'
      <4>1. mishap[p] = {} => InProgram(x, done, kept[p]) /\ InFile(x, file, kept[p])
        BY <2>1, <3>1, <3>8, <3>9, <3>10 DEF InProgram, InFile, Fine
      <4>2. mishap[p] # {"cut"}
        BY <2>1, <3>1 DEF Fine, IsCut
      <4> QED
        BY <2>1, <3>1, <3>4, <3>10, <3>11, <3>12, <4>1, <4>2 DEF Fine
    <3> QED
      BY <2>4, <3>1, <3>11, <3>12, <3>13
  <2>12. CASE SaveOpens(p)
    <3> DEFINE at == IF pg.at = "run" THEN "saving" ELSE "saving_class"
               torn == [NoFile EXCEPT !.is = "torn"]
    <3>1. /\ pg.at \in {"run", "useless"} /\ pgm' = [pgm EXCEPT ![p] = [pg EXCEPT !.at = at]]
          /\ resFile' = [resFile EXCEPT ![p] = torn] /\ UNCHANGED <<ran, kept, mishap, sought>>
      BY <2>12 DEF SaveOpens, At
    <3>2. torn \in FileType /\ torn.is = "torn" /\ at \in Ats
      BY NoFileType DEF FileType, Ats
    <3>3. (at = "saving" <=> pg.at = "run") /\ at \in {"saving", "saving_class"}
      OBVIOUS
    <3> HIDE DEF torn, at
    <3>4. ResType' /\ OthersKept(p)
      <4> DEFINE x == [pg EXCEPT !.at = at]
      <4>1. x \in PgmType
        BY ONLY <2>1, <3>2 DEF PgmType
      <4>2. pgm' = [pgm EXCEPT ![p] = x]
        BY <3>1
      <4> HIDE DEF x
      <4> QED
        BY <3>1, <3>2, <4>1, <4>2 DEF ResInv, ResType, OthersKept
    <3>5. /\ pgm'[p].at = at /\ pgm'[p].rm = 0 /\ pgm'[p].sheet = pg.sheet
          /\ pgm'[p].history = pg.history /\ resFile'[p] = torn
      BY <2>1, <3>1, <3>2 DEF ResInv, ResType, PgmType, Fine
    <3>6. Fine(pgm[p], resFile[p], ran[p], kept[p], mishap[p])'
      <4>1. mishap[p] = {} => InProgram(pgm'[p], ran[p], kept[p]) /\ InFile(pgm'[p], torn, kept[p])
        BY <2>1, <3>1, <3>2, <3>3, <3>5 DEF Fine, InProgram, InFile
      <4>2. mishap[p] = {"cut"} => IsCut(pgm'[p], torn)
        BY <2>1, <3>1, <3>2, <3>3, <3>5 DEF Fine, IsCut
      <4> QED
        BY <2>1, <3>1, <3>2, <3>3, <3>5, <4>1, <4>2 DEF Fine
    <3> QED
      BY <2>4, <3>1, <3>4, <3>5, <3>6
  <2>13. CASE SaveDumps(p)
    <3> DEFINE new == Dumped(p)
               idle == NoPgm("idle")
    <3>1. /\ pg.at \in {"saving", "saving_class"} /\ pgm' = [pgm EXCEPT ![p] = idle]
          /\ resFile' = [resFile EXCEPT ![p] = new] /\ kept' = [kept EXCEPT ![p] = ran[p]]
          /\ UNCHANGED <<ran, mishap, sought>>
      BY <2>13 DEF SaveDumps
    <3>2. idle \in PgmType /\ idle.at = "idle" /\ idle.rm = 0
      BY NoPgmType DEF Ats
    <3>3. /\ new \in FileType
          /\ file.is = "none" => new.is = "none"
          /\ file.is # "none" /\ pg.at # "saving" => new.is = "class"
          /\ file.is # "none" /\ pg.at = "saving" =>
               new.is = "whole" /\ new.sheet = pg.sheet /\ new.history = pg.history
      <4>1. CASE file.is = "none"
        <5>1. new = NoFile
          BY <4>1 DEF Dumped
        <5> HIDE DEF new
        <5> QED
          BY <4>1, <5>1, NoFileType
      <4>2. CASE file.is # "none" /\ pg.at = "saving"
        BY <2>1, <4>2 DEF FileType, Dumped, PgmType
      <4>3. CASE file.is # "none" /\ pg.at # "saving"
        <5>1. new = [NoFile EXCEPT !.is = "class"]
          BY <4>3 DEF Dumped
        <5> QED
          BY <4>3, <5>1, NoFileType DEF FileType
      <4> QED
        BY <4>1, <4>2, <4>3
    <3> HIDE DEF new, idle
    <3>4. /\ ResType' /\ OthersKept(p) /\ pgm'[p] = idle /\ resFile'[p] = new /\ kept'[p] = ran[p]
      BY <2>1, <3>1, <3>2, <3>3 DEF ResInv, ResType, OthersKept
    <3>5. Fine(pgm[p], resFile[p], ran[p], kept[p], mishap[p])'
      <4>1. new.is = "whole" => new.sheet \in Sheets
        BY <2>1, <3>1, <3>3 DEF Fine
      <4>2. mishap[p] = {} => InProgram(idle, ran[p], ran[p]) /\ InFile(idle, new, ran[p])
        BY <2>1, <3>1, <3>2, <3>3 DEF Fine, InProgram, InFile
      <4>3. mishap[p] = {"cut"} => IsCut(idle, new)
        BY <2>1, <3>1, <3>2, <3>3 DEF Fine, IsCut
      <4> QED
        BY <3>1, <3>2, <3>4, <4>1, <4>2, <4>3 DEF Fine
    <3> QED
      BY <2>4, <3>1, <3>2, <3>4, <3>5
  <2>14. CASE PgmKilled(p)
    <3> DEFINE idle == NoPgm("idle")
               gone == IF pg.at \in {"saving", "saving_class"} THEN mishap[p] \cup {"cut"}
                       ELSE mishap[p]
    <3>1. /\ pg.at \notin {"dead", "idle"} /\ pgm' = [pgm EXCEPT ![p] = idle]
          /\ ran' = [ran EXCEPT ![p] = kept[p]] /\ mishap' = [mishap EXCEPT ![p] = gone]
          /\ UNCHANGED <<resFile, kept, sought>>
      BY <2>14 DEF PgmKilled, ResInv, ResType
    <3>2. idle \in PgmType /\ idle.at = "idle" /\ idle.rm = 0
      BY NoPgmType DEF Ats
    <3>3. gone \in SUBSET Mishaps
      BY <2>1 DEF Mishaps
    <3>4. /\ gone = {} => mishap[p] = {} /\ pg.at \notin {"saving", "saving_class"}
          /\ gone = {"cut"} =>
               \/ mishap[p] = {} /\ pg.at \in {"saving", "saving_class"}
               \/ mishap[p] = {"cut"}
      BY <2>1 DEF Mishaps
    <3> HIDE DEF idle, gone
    <3>5. ResType' /\ OthersKept(p) /\ pgm'[p] = idle /\ ran'[p] = kept[p] /\ mishap'[p] = gone
      BY <2>1, <3>1, <3>2, <3>3 DEF ResInv, ResType, OthersKept
    <3>6. Fine(pgm[p], resFile[p], ran[p], kept[p], mishap[p])'
      <4>1. gone = {} => InProgram(idle, kept[p], kept[p]) /\ InFile(idle, file, kept[p])
        BY <2>1, <3>1, <3>2, <3>4 DEF Fine, InProgram, InFile
      <4>2. gone = {"cut"} => IsCut(idle, file)
        BY <2>1, <3>1, <3>2, <3>4 DEF Fine, InProgram, InFile, IsCut
      <4> QED
        BY <2>1, <3>1, <3>2, <3>5, <4>1, <4>2 DEF Fine
    <3> QED
      BY <2>4, <3>1, <3>2, <3>5, <3>6
  <2> QED
    BY <2>5, <2>6, <2>7, <2>8, <2>9, <2>10, <2>11, <2>12, <2>13, <2>14
<1> QED
  BY <1>1, <1>2

\* From program to program of a process id results are neither lost, nor counted
\* twice, nor mixed with those of others, for any number of masters, programs and
\* boots, but for the two ways that lose the file: a kill between truncation and
\* dump, after which no program counts until the file is deleted, and a clean up
\* that had found the process id unused before its master started (boot_results,
\* update_boot_history, cleanup_boot_results_file, program_teardown).
THEOREM ResultsAreKept == ResSpec => []ResultsKept
<1>1. ResInv => ResultsKept
  <2> SUFFICES ASSUME ResInv PROVE ResultsKept
    OBVIOUS
  <2>1. ASSUME NEW p \in MasterPids, mishap[p] = {}
        PROVE  /\ InProgram(pgm[p], ran[p], kept[p]) /\ InFile(pgm[p], resFile[p], kept[p])
               /\ ran[p] \in Seq(Entries) /\ resFile[p] \in FileType
    BY <2>1 DEF ResInv, Fine, ResType, Runs
  <2>2. CountsKept
    <3> SUFFICES ASSUME NEW p \in MasterPids, pgm[p].at = "run", mishap[p] = {}
                 PROVE  /\ pgm[p].totals["total"] = Len(ran[p])
                        /\ \A status \in {"pass", "fail"} :
                             /\ pgm[p].totals[status] = Counted(ran[p], status)
                             /\ \A b \in DOMAIN pgm[p].sheet :
                                  pgm[p].sheet[b][status] = NumberOf(ran[p], b, status)
      BY DEF CountsKept
    <3>1. Tallied(pgm[p].sheet, ran[p]) /\ pgm[p].totals = calc(pgm[p].sheet)
      BY <2>1 DEF InProgram
    <3>2. /\ pgm[p].totals["total"] = sum_field(pgm[p].sheet, "total")
          /\ \A status \in Statuses : pgm[p].totals[status] = sum_field(pgm[p].sheet, status)
      BY <3>1 DEF calc, Fields, Statuses
    <3>3. DOMAIN pgm[p].sheet = TableBoots
      BY <3>1 DEF Tallied, Sheets
    <3> QED
      BY <3>1, <3>2, <3>3 DEF Tallied, Statuses
  <2>3. HistoryIsLast
    BY <2>1, LastIsEnd DEF HistoryIsLast, InProgram
  <2>4. LiveFileKept
    BY <2>1 DEF LiveFileKept, InFile, FileType, pid_active
  <2>5. OnlyDeadSought
    BY DEF ResInv
  <2>6. CutIsFinal
    BY DEF CutIsFinal, ResInv, Fine, IsCut
  <2> QED
    BY <2>2, <2>3, <2>4, <2>5, <2>6 DEF ResultsKept
<1> QED
  BY <1>1, ResInvInit, ResInvNext, PTL DEF ResSpec

=============================================================================
