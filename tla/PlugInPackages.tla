--------------------------- MODULE PlugInPackages ---------------------------
(***************************************************************************)
(* The processing of plug-in packages for one call point:                  *)
(* rprocess_plug_in_packages of lib/gen_robot_plug_in.py, which runs       *)
(* bin/process_plug_in_packages.py and reads the result from its output,   *)
(* and the choice of the packages in lib/gen_plug_in.py.                   *)
(*                                                                         *)
(* Return codes are numbers.  The output is the sequence of the reports    *)
(* printed, one for each call point program that was run.  One call is     *)
(* modelled: it starts from its parameters and leaves nothing behind.      *)
(***************************************************************************)
EXTENDS Integers, Sequences, FiniteSets, SequencesExt

CONSTANTS
  PlugIns,       \* the plug-in packages of the installation
  Integrated,    \* those with a file named "integrated"
  Unsupported,   \* those without the file supports_<mch_class>
  UserLists,     \* the lists of packages callers pass, duplicates and all
  ReturnCodes,   \* what call point programs return
  AllowedRcs,    \* what callers pass as shell_rc
  NoName         \* the empty failed_plug_in_name

Absent == -1     \* the package has no program for the call point

ASSUME PlugInAssumption ==
  /\ IsFiniteSet(PlugIns)
  /\ Integrated \subseteq PlugIns \ Unsupported /\ Unsupported \subseteq PlugIns
  /\ UserLists \subseteq Seq(PlugIns)
  /\ ReturnCodes \subseteq 0..255 /\ AllowedRcs \subseteq Nat
  /\ NoName \notin PlugIns

VARIABLES
  pack_pc,                 \* where the call is
  pack_programs,           \* what each package's program returns, or Absent
  plug_in_packages_list,   \* the caller's list, then the one processed
  allow_shell_rc, stop_on_plug_in_failure, stop_on_non_zero_rc,
  place,                   \* the place in the list
  ret_code,                \* of process_plug_in_packages.py
  pack_reports,            \* the reports it printed
  plug_rc, plug_shell_rc, failed_plug_in_name  \* what the caller gets

packParms  == <<pack_programs, allow_shell_rc, stop_on_plug_in_failure, stop_on_non_zero_rc>>
packResult == <<plug_rc, plug_shell_rc, failed_plug_in_name>>
packVars   == <<pack_pc, packParms, plug_in_packages_list, place, ret_code,
                pack_reports, packResult>>

PackInit ==
  /\ pack_pc = "idle" /\ pack_programs = [p \in PlugIns |-> Absent]
  /\ plug_in_packages_list = <<>> /\ allow_shell_rc = 0
  /\ stop_on_plug_in_failure = TRUE /\ stop_on_non_zero_rc = FALSE
  /\ place = 1 /\ ret_code = 0 /\ pack_reports = <<>>
  /\ plug_rc = 0 /\ plug_shell_rc = 0 /\ failed_plug_in_name = NoName

-----------------------------------------------------------------------------
(* The call *)

\* What the programs will do this time, and the parameters of the call.
PackCalled(list, allow, onFailure, onNonZero) ==
  /\ pack_pc = "idle"
  /\ pack_programs' \in [PlugIns -> ReturnCodes \cup {Absent}]
  /\ plug_in_packages_list' = list /\ allow_shell_rc' = allow
  /\ stop_on_plug_in_failure' = onFailure /\ stop_on_non_zero_rc' = onNonZero
  /\ place' = 1 /\ ret_code' = 0 /\ pack_reports' = <<>>

\* Without packages nothing is run, the integrated ones included.
rprocess_plug_in_packages(list, allow, onFailure, onNonZero) ==
  /\ PackCalled(list, allow, onFailure, onNonZero)
  /\ IF list = <<>>
     THEN /\ pack_pc' = "returned" /\ plug_rc' = 0 /\ plug_shell_rc' = 0
          /\ failed_plug_in_name' = NoName
     ELSE pack_pc' = "list" /\ UNCHANGED packResult

\* The packages go through a Python set: no duplicates, and any order.
return_plug_in_packages_list(list) ==
  SetToSeqs(ToSet(list) \cup Integrated)

\* validate_plug_in_package: one package that cannot be used ends the program.
ListRefused ==
  /\ pack_pc = "list" /\ ToSet(plug_in_packages_list) \cap Unsupported # {}
  /\ ret_code' = 1 /\ pack_pc' = "parse"
  /\ UNCHANGED <<packParms, plug_in_packages_list, place, pack_reports, packResult>>

ListMade ==
  /\ pack_pc = "list" /\ ToSet(plug_in_packages_list) \cap Unsupported = {}
  /\ plug_in_packages_list' \in return_plug_in_packages_list(plug_in_packages_list)
  /\ pack_pc' = "loop"
  /\ UNCHANGED <<packParms, place, ret_code, pack_reports, packResult>>

-----------------------------------------------------------------------------
(* process_plug_in_packages.py *)

\* The rightmost byte is kept for errors in calling the program.
shifted(code) == code * 256

\* A return code counts as a failure.
Fails(code) == code # 0 /\ code # allow_shell_rc

\* Mutant: the loop stops at a failure only.
Bug_Stops(code) == Fails(code) /\ stop_on_plug_in_failure

\* The loop is left after a program returned this.
Stops(code) ==
  \/ Fails(code) /\ stop_on_plug_in_failure
  \/ code # 0 /\ stop_on_non_zero_rc

AtPackage == pack_pc = "loop" /\ place <= Len(plug_in_packages_list)
Package   == plug_in_packages_list[place]

\* run_pgm finds no call point program.
NoProgram ==
  /\ AtPackage /\ pack_programs[Package] = Absent
  /\ place' = place + 1
  /\ UNCHANGED <<pack_pc, packParms, plug_in_packages_list, ret_code, pack_reports, packResult>>

run_pgm ==
  /\ AtPackage /\ pack_programs[Package] # Absent
  /\ LET code == shifted(pack_programs[Package]) IN
     /\ pack_reports' = Append(pack_reports, [name |-> Package, shell_rc |-> code])
     /\ ret_code' = IF Fails(code) THEN 1 ELSE ret_code
     /\ pack_pc' = IF Stops(code) THEN "parse" ELSE "loop"
  /\ place' = place + 1
  /\ UNCHANGED <<packParms, plug_in_packages_list, packResult>>

ListDone ==
  /\ pack_pc = "loop" /\ place > Len(plug_in_packages_list)
  /\ pack_pc' = "parse"
  /\ UNCHANGED <<packParms, plug_in_packages_list, place, ret_code, pack_reports, packResult>>

-----------------------------------------------------------------------------
(* Back in rprocess_plug_in_packages *)

\* Of the lines with one key the last is kept; a name is printed only with a
\* shell_rc other than zero.
Named == {i \in 1..Len(pack_reports) : pack_reports[i].shell_rc # 0}

ParseOutput ==
  /\ pack_pc = "parse" /\ pack_pc' = "returned" /\ plug_rc' = ret_code
  /\ plug_shell_rc' = IF pack_reports = <<>> THEN 0 ELSE Last(pack_reports).shell_rc
  /\ failed_plug_in_name' = IF Named = {} THEN NoName ELSE pack_reports[Max(Named)].name
  /\ UNCHANGED <<packParms, plug_in_packages_list, place, ret_code, pack_reports>>

PackNext ==
  \/ \E list \in UserLists, allow \in AllowedRcs, onFailure, onNonZero \in BOOLEAN :
       rprocess_plug_in_packages(list, allow, onFailure, onNonZero)
  \/ ListRefused \/ ListMade
  \/ NoProgram \/ run_pgm \/ ListDone
  \/ ParseOutput

PackSpec == PackInit /\ [][PackNext]_packVars

-----------------------------------------------------------------------------
(* Properties *)

Ran      == {pack_reports[i].name : i \in 1..Len(pack_reports)}
Selected == ToSet(plug_in_packages_list)
WithProgram == {p \in Selected : pack_programs[p] # Absent}

\* What a program's return code means under the caller's parameters.
Failing(p)    == pack_programs[p] * 256 \notin {0, allow_shell_rc}
Requesting(p) == pack_programs[p] * 256 = allow_shell_rc /\ allow_shell_rc # 0

\* The caller sees a failure (rc) exactly if a program that was run failed, or
\* the packages were refused, and then none was run.
RcMeansFailure ==
  pack_pc = "returned" =>
    (plug_rc = 1 <=> \/ \E p \in Ran : Failing(p)
                     \/ Ran = {} /\ Selected \cap Unsupported # {})

\* A request ("dump ffdc", "stop test") is made by the allowed return code with
\* stop_on_non_zero_rc.  The caller, who compares shell_rc, sees the request of
\* a program that was run, whatever ran before it and whatever the order.
RequestSeen ==
  pack_pc = "returned" /\ stop_on_non_zero_rc /\ (\E p \in Ran : Requesting(p)) =>
    plug_shell_rc = allow_shell_rc

\* If the first failure ends the processing, the name and the code the caller
\* gets are those of the failing program.
BlameIsRight ==
  pack_pc = "returned" /\ plug_rc = 1 /\ stop_on_plug_in_failure /\ Ran # {} =>
    /\ failed_plug_in_name \in Ran /\ Failing(failed_plug_in_name)
    /\ plug_shell_rc = pack_programs[failed_plug_in_name] * 256

\* No package is run twice in one call, although a caller may name it twice and
\* it may be an integrated one too.
RunOnce == Cardinality(Ran) = Len(pack_reports)

\* With neither option every package with a program is run, whatever programs
\* return ("each and every plug-in directory").
AllRun ==
  /\ pack_pc = "returned" /\ ~stop_on_plug_in_failure /\ ~stop_on_non_zero_rc
  /\ Selected \cap Unsupported = {}
  => WithProgram \subseteq Ran

\* What the caller of the plug-ins is told is what happened, and each package
\* it should have run was run once, in whatever order and with whatever return
\* codes.
ReportRight == RcMeansFailure /\ RequestSeen /\ BlameIsRight /\ RunOnce /\ AllRun

=============================================================================
