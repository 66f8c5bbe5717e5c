---------------------------- MODULE PlugInValues ----------------------------
(***************************************************************************)
(* What a plug-in program gets from its environment and from the plug-in   *)
(* programs that ran before it (lib/gen_plug_in_utils.py).  A value that   *)
(* is saved (Soft_errors/cp_post_boot: the number of error logs) goes to a *)
(* file of the test run, to be restored by another program                 *)
(* (FFDC/cp_ffdc_check).  Test runs are told apart by the pid of their     *)
(* master program; pids are used again.  Programs run side by side and may *)
(* be killed between two of their steps.                                   *)
(*                                                                         *)
(* One value of one package; a text is what the functions tell apart in it. *)
(***************************************************************************)
EXTENDS Naturals, Sequences, FiniteSets

CONSTANTS
  PlugInPgms,     \* plug-in programs
  RunPids,        \* pids of master programs
  MaxTestRuns,    \* bound: test runs
  MaxPgmStarts,   \* bound: programs started
  SavedValues, Defaults   \* values by type and by what str() makes of them

\* "none" stands for no file, and is not what str() makes of a value.
ASSUME ValuesAssumption == \A v \in SavedValues : v.text # "none"

VARIABLES
  test_runs,      \* run -> pid, live, clean (no file of an older run with its pid), saved
  progs,          \* the programs: run, at, op, value (or default), result, and
                  \* seen (history): the values the run had while it was restoring
  pgm_starts,
  save_dirs,      \* plug-in save directories there are
  save_files,     \* directory -> text of the file of the value, "none" without one
  parm            \* one parm of a program: environment, declared default, what it got

valueVars == <<test_runs, progs, pgm_starts, save_dirs, save_files>>
parmVars == <<parm>>

Nothing == [type |-> "none", text |-> "none"]
Raised == [type |-> "raised", text |-> "none"]
IdlePgm == [run |-> 0, at |-> "idle", op |-> "none", value |-> Nothing, result |-> Nothing,
            seen |-> {}]

\* <PACKAGE>_X, <PREFIX>_OVERRIDE_X, <PREFIX>_X
Levels == {"package", "override", "prefix"}

ValuesInit ==
  /\ test_runs = <<>> /\ progs = [p \in PlugInPgms |-> IdlePgm] /\ pgm_starts = 0
  /\ save_dirs = {} /\ save_files = [d \in {0} \cup RunPids |-> "none"]

ParmInit ==
  parm = [at |-> "import", environ |-> [l \in Levels |-> "unset"], default |-> "none",
          arg |-> "none", global |-> Nothing]

TestRuns == DOMAIN test_runs
PgmAt(p, at) == progs' = [progs EXCEPT ![p].at = at]

\* Program p is through, and every program restoring sees the run's value.
PgmSets(p, now) ==
  /\ progs' = [q \in PlugInPgms |->
                 IF q = p THEN [progs[p] EXCEPT !.at = "done"]
                 ELSE IF progs[q].run = progs[p].run THEN [progs[q] EXCEPT !.seen = @ \cup {now}]
                 ELSE progs[q]]
  /\ test_runs' = [test_runs EXCEPT ![progs[p].run].saved = now]

PgmResult(p, v) == progs' = [progs EXCEPT ![p].at = "done", ![p].result = v]
files == <<save_dirs, save_files>>

-----------------------------------------------------------------------------
(* Test runs and programs *)

\* Mutant: one directory for all runs.
Bug_compose_plug_in_save_dir_path(pid) == 0

\* The name of the directory: the pid of the master program tells runs apart.
compose_plug_in_save_dir_path(pid) == pid
SaveDir(p) == compose_plug_in_save_dir_path(test_runs[progs[p].run].pid)

TestRunStarts ==
  /\ Cardinality(TestRuns) < MaxTestRuns
  /\ \E pid \in RunPids :
       /\ \A r \in TestRuns : test_runs[r].live => test_runs[r].pid # pid
       /\ test_runs' = Append(test_runs, [pid |-> pid, live |-> TRUE, saved |-> Nothing,
                                          clean |-> save_files[pid] = "none"])
  /\ UNCHANGED <<pgm_starts, progs, files>>

TestRunEnds(r) ==
  /\ test_runs[r].live /\ \A p \in PlugInPgms : progs[p].run # r \/ progs[p].at = "idle"
  /\ test_runs' = [test_runs EXCEPT ![r].live = FALSE] /\ UNCHANGED <<pgm_starts, progs, files>>

PgmStarts(p) ==
  /\ progs[p].at = "idle" /\ pgm_starts < MaxPgmStarts /\ pgm_starts' = pgm_starts + 1
  /\ \E r \in {r \in TestRuns : test_runs[r].live},
        use \in ({"save"} \X SavedValues) \cup ({"restore"} \X Defaults)
                   \cup {<<"delete", Nothing>>} :
       progs' = [progs EXCEPT ![p] = [IdlePgm EXCEPT !.run = r, !.at = use[1], !.op = use[1],
                                        !.value = use[2], !.seen = {test_runs[r].saved}]]
  /\ UNCHANGED <<test_runs, files>>

\* By itself, or killed.
PgmEnds(p) ==
  /\ progs[p].at # "idle" /\ progs' = [progs EXCEPT ![p] = IdlePgm]
  /\ UNCHANGED <<pgm_starts, test_runs, files>>

-----------------------------------------------------------------------------
(* Values in files *)

create_plug_in_save_dir(p) ==
  /\ progs[p].at \in {"save", "restore"} /\ save_dirs' = save_dirs \cup {SaveDir(p)}
  /\ PgmAt(p, IF progs[p].op = "save" THEN "truncate" ELSE "isfile")
  /\ UNCHANGED <<pgm_starts, test_runs, save_files>>

\* save_plug_in_value: "echo ... > file" empties the file, then writes it.
\* Without its directory nothing is written, and no error is raised.
Truncates(p) ==
  /\ progs[p].at = "truncate"
  /\ \/ /\ SaveDir(p) \in save_dirs /\ PgmAt(p, "write")
        /\ save_files' = [save_files EXCEPT ![SaveDir(p)] = "empty"]
     \/ SaveDir(p) \notin save_dirs /\ PgmResult(p, Nothing) /\ UNCHANGED save_files
  /\ UNCHANGED <<pgm_starts, test_runs, save_dirs>>

\* The file may have been deleted meanwhile.
save_plug_in_value(p) ==
  /\ progs[p].at = "write"
  /\ \/ /\ save_files[SaveDir(p)] # "none" /\ PgmSets(p, progs[p].value)
        /\ save_files' = [save_files EXCEPT ![SaveDir(p)] = progs[p].value.text]
     \/ /\ save_files[SaveDir(p)] = "none" /\ PgmResult(p, Nothing)
        /\ UNCHANGED <<save_files, test_runs>>
  /\ UNCHANGED <<pgm_starts, save_dirs>>

\* The first line that is no comment and not blank, as a value of the type of
\* the default; int() raises for a text that is no number.
FromText(type, text) ==
  IF text \in {"none", "empty", "blank", "comment"} \/ (type = "int" /\ text # "number")
  THEN Raised
  ELSE [type |-> type, text |-> IF type = "bool" /\ text # "True" THEN "False" ELSE text]

\* restore_plug_in_value, whose default is the value the program was started with
restore_isfile(p) ==
  /\ progs[p].at = "isfile" /\ UNCHANGED <<pgm_starts, test_runs, files>>
  /\ IF save_files[SaveDir(p)] # "none" THEN PgmAt(p, "read") ELSE PgmResult(p, progs[p].value)

restore_plug_in_value(p) ==
  /\ progs[p].at = "read" /\ PgmResult(p, FromText(progs[p].value.type, save_files[SaveDir(p)]))
  /\ UNCHANGED <<pgm_starts, test_runs, files>>

delete_plug_in_save_dir(p) ==
  /\ progs[p].at = "delete" /\ PgmSets(p, Nothing)
  /\ save_dirs' = save_dirs \ {SaveDir(p)}
  /\ save_files' = [save_files EXCEPT ![SaveDir(p)] = "none"]
  /\ UNCHANGED pgm_starts

-----------------------------------------------------------------------------
(* Parms *)

\* get_plug_default: the first of the three that is set, be it blank.
get_plug_default(env, default) ==
  IF env["package"] # "unset" THEN env["package"]
  ELSE IF env["override"] # "unset" THEN env["override"]
  ELSE IF env["prefix"] # "unset" THEN env["prefix"]
  ELSE default

\* The program is started with an environment, and asks for the default of an
\* argument while it is imported.
PgmImported ==
  /\ parm.at = "import"
  /\ \E env \in [Levels -> {"unset", "blank", "number", "word"}],
        default \in {"none", "int", "str"} :
       parm' = [parm EXCEPT !.at = "imported", !.environ = env, !.default = default,
                            !.arg = get_plug_default(env, "given")]

\* What str() makes of the default the program has declared for the parm.
Declares(default) ==
  CASE default = "int" -> "number" [] default = "str" -> "word" [] OTHER -> "blank"

EnvironOf(e, default) == IF e \in {"unset", "blank"} THEN Declares(default) ELSE e

\* return_plug_vars exports the default, and keeps its type if it is no
\* string; get_plug_vars makes a global variable of it.
get_plug_vars ==
  LET v == EnvironOf(parm.environ["package"], parm.default) IN
  /\ parm.at \in {"imported", "set"}
  /\ parm' = [parm EXCEPT !.at = "set", !.environ["package"] = v,
                          !.global = IF parm.default = "int" /\ v # "number" THEN Raised
                                     ELSE [type |-> IF parm.default = "int" THEN "int" ELSE "str",
                                           text |-> v]]

-----------------------------------------------------------------------------
ValuesNext ==
  \/ TestRunStarts \/ (\E r \in TestRuns : TestRunEnds(r))
  \/ \E p \in PlugInPgms :
       \/ PgmStarts(p) \/ PgmEnds(p) \/ create_plug_in_save_dir(p)
       \/ Truncates(p) \/ save_plug_in_value(p)
       \/ restore_isfile(p) \/ restore_plug_in_value(p) \/ delete_plug_in_save_dir(p)

ParmNext == PgmImported \/ get_plug_vars

\* The two parts share nothing.
PlugInSpec ==
  /\ ValuesInit /\ [][ValuesNext]_valueVars
  /\ ParmInit /\ [][ParmNext]_parmVars

-----------------------------------------------------------------------------
(* Properties *)

\* What is restored is a value that its own test run had saved last at some
\* time during the call, in the type of the default; the default, if it had
\* none; or an error, also when the program that saved was stopped half way.
\* A run may see the values of another one only if it was given the pid of a
\* dead one whose files are still there.
OwnValue ==
  \A p \in PlugInPgms :
    LET v == progs[p].result IN
    /\ progs[p].op = "restore" /\ progs[p].at = "done" /\ v # Raised
    /\ test_runs[progs[p].run].clean
    => \E w \in progs[p].seen :
         v = (IF w = Nothing THEN progs[p].value ELSE FromText(progs[p].value.type, w.text))

\* A parm the program has declared a number for is a number, or an error, and
\* is never blank, whichever way the user leaves it out.
DeclaredDefaultUsed ==
  parm.at = "set" /\ parm.default # "none" =>
    parm.global = Raised \/ (parm.global.type = parm.default /\ parm.global.text # "blank")

\* A plug-in program works with the values its own test run and its user gave
\* it.
ValuesRight == OwnValue /\ DeclaredDefaultUsed

=============================================================================
