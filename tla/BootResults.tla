----------------------------- MODULE BootResults ----------------------------
(***************************************************************************)
(* The results of boot tests: the tally sheet (lib/tally_sheet.py), the     *)
(* boot table, the results and the history (lib/boot_data.py), and their   *)
(* file, through which the programs of one master process hand them on     *)
(* (setup and program_teardown of lib/obmc_boot_test.py).                  *)
(*                                                                         *)
(* A file is named by the process id of its master; each program deletes   *)
(* those of masters that are gone.  A program may be killed at any step.   *)
(* A kill between the truncation of the file and the dump leaves a file    *)
(* that cannot be loaded, and a clean up may delete the file of a master   *)
(* that has the process id of one it found to be gone: mishap tells which. *)
(***************************************************************************)
EXTENDS Integers, Sequences, FiniteSets, FiniteSetsExt

CONSTANTS
  BootNames,          \* the entries of the boot table file
  StateNames(_, _),   \* the sub-states named by an entry, key "start" or "end"
  MasterPids,         \* process ids of masters
  MaxHistory,         \* max_boot_history
  MaxBoots,           \* bound: the boots done
  MaxPgms             \* bound: the programs run

\* The table has an entry; process ids are positive.
ASSUME ResAssumption ==
  /\ IsFiniteSet(BootNames) /\ BootNames # {}
  /\ MasterPids \subseteq Nat \ {0}
  /\ MaxHistory \in Nat /\ MaxBoots \in Nat /\ MaxPgms \in Nat

-----------------------------------------------------------------------------
(* The boot table *)

OsState(sub_state) == sub_state \in {"os_ping", "os_login"}

\* Without an os_host the states of the operating system are not required.
Required(name, key, os_host) == {s \in StateNames(name, key) : OsState(s) => os_host}

\* Each boot type has a mfg twin with the same states.
create_boot_table(os_host) ==
  [boot \in BootNames \X BOOLEAN |-> [key \in {"start", "end"} |-> Required(boot[1], key, os_host)]]

create_valid_boot_list(boot_table) == DOMAIN boot_table

valid_boot_list(boot_list, boot_table) == boot_list \subseteq create_valid_boot_list(boot_table)

-----------------------------------------------------------------------------
(* The tally sheet: rows of total, pass and fail *)

Fields == {"total", "pass", "fail"}
Row == [field \in Fields |-> 0]
NewSheet(boot_table) == [boot \in DOMAIN boot_table |-> Row]
inc_row_field(sheet, row_key, field) == [sheet EXCEPT ![row_key][field] = @ + 1]

\* total=pass+fail, for each row
calc_fields(sheet) ==
  [b \in DOMAIN sheet |-> [sheet[b] EXCEPT !.total = sheet[b].pass + sheet[b].fail]]

sum_field(sheet, field) == FoldSet(LAMBDA b, sum : sum + sheet[b][field], 0, DOMAIN sheet)
calc(sheet) == [field \in Fields |-> sum_field(sheet, field)]

update_boot_history(history, boot) ==
  LET all == Append(history, boot)
  IN  SubSeq(all, Max({1, Len(all) - MaxHistory + 1}), Len(all))

-----------------------------------------------------------------------------
VARIABLES
  pgm,       \* per master: the program it runs: at, the files its clean up
             \* still looks at, its table, totals line and history
  resFile,   \* per master: its file: is, sheet, history
  ran,       \* history: the boots counted for this master
  kept,      \* history: those of them that were saved
  boots, pgms,
  sought,    \* history: the programs that were about to delete the file of
             \* this process id when its master started
  mishap     \* history: what has befallen the file: "cut" by a kill between
             \* truncation and dump, "raced" by a clean up that deleted it

resVars == <<pgm, resFile, ran, kept, boots, pgms, sought, mishap>>

NoSheet == <<>>
NoPgm(at) == [at |-> at, todo |-> {}, rm |-> 0, sheet |-> NoSheet, totals |-> Row, history |-> <<>>]
NoFile == [is |-> "none", sheet |-> NoSheet, history |-> <<>>]

ResInit ==
  /\ pgm = [p \in MasterPids |-> NoPgm("dead")] /\ resFile = [p \in MasterPids |-> NoFile]
  /\ ran = [p \in MasterPids |-> <<>>] /\ kept = [p \in MasterPids |-> <<>>]
  /\ sought = [p \in MasterPids |-> {}] /\ mishap = [p \in MasterPids |-> {}]
  /\ boots = 0 /\ pgms = 0

At(p, at) == pgm' = [pgm EXCEPT ![p].at = at]

\* A master starts, perhaps with the process id of one that is gone: if the
\* file of that one is still there, its programs go on from it.
MasterStarts(p) ==
  /\ pgm[p].at = "dead" /\ At(p, "idle")
  /\ sought' = [sought EXCEPT ![p] = {q \in MasterPids : pgm[q].rm = p}]
  /\ \/ /\ resFile[p].is = "none"
        /\ ran' = [ran EXCEPT ![p] = <<>>] /\ kept' = [kept EXCEPT ![p] = <<>>]
        /\ mishap' = [mishap EXCEPT ![p] = {}]
     \/ resFile[p].is # "none" /\ UNCHANGED <<ran, kept, mishap>>
  /\ UNCHANGED <<resFile, boots, pgms>>

MasterEnds(p) ==
  /\ pgm[p].at = "idle" /\ At(p, "dead")
  /\ UNCHANGED <<resFile, ran, kept, sought, mishap, boots, pgms>>

pid_active(p) == pgm[p].at # "dead"

\* process_pgm_parms: cleanup_boot_results_file looks for the files first.
setup(p) ==
  /\ pgm[p].at = "idle" /\ pgms < MaxPgms /\ pgms' = pgms + 1
  /\ pgm' = [pgm EXCEPT ![p] = [NoPgm("clean") EXCEPT
                                  !.todo = {q \in MasterPids : resFile[q].is # "none"}]]
  /\ UNCHANGED <<resFile, ran, kept, sought, mishap, boots>>

\* Mutant: the files of live masters too.
Bug_Deletes(q) == TRUE

Deletes(q) == ~pid_active(q)

\* The test of a file's process, and then the command that deletes it.
cleanup_boot_results_file(p) ==
  /\ pgm[p].at = "clean"
  /\ \E q \in pgm[p].todo :
       pgm' = [pgm EXCEPT ![p].todo = @ \ {q},
                          ![p].at = IF Deletes(q) THEN "rm" ELSE "clean",
                          ![p].rm = IF Deletes(q) THEN q ELSE 0]
  /\ UNCHANGED <<resFile, ran, kept, sought, mishap, boots, pgms>>

RemoveFile(p) ==
  /\ pgm[p].at = "rm"
  /\ LET q == pgm[p].rm
     IN /\ resFile' = [resFile EXCEPT ![q] = NoFile]
        /\ mishap' = [mishap EXCEPT ![q] = IF pid_active(q) /\ resFile[q].is # "none"
                                         THEN @ \cup {"raced"} ELSE @]
  /\ pgm' = [pgm EXCEPT ![p].at = "clean", ![p].rm = 0]
  /\ UNCHANGED <<ran, kept, sought, boots, pgms>>

\* A file that is cut off cannot be loaded; the teardown of that program then
\* dumps the class boot_results itself, which later programs load and cannot
\* use.
load(p) ==
  /\ pgm[p].at = "clean" /\ pgm[p].todo = {}
  /\ \E os_host \in BOOLEAN :
       pgm' = [pgm EXCEPT ![p] =
         CASE resFile[p].is = "none" ->
                [NoPgm("run") EXCEPT !.sheet = NewSheet(create_boot_table(os_host))]
           [] resFile[p].is = "whole" ->
                [NoPgm("run") EXCEPT !.sheet = resFile[p].sheet, !.history = resFile[p].history,
                                     !.totals = calc(resFile[p].sheet)]
           [] OTHER -> NoPgm("useless")]
  /\ UNCHANGED <<resFile, ran, kept, sought, mishap, boots, pgms>>

\* One boot, of the boots that were asked for and are valid:
\* update_boot_history when it starts, update when it has ended.
update(p) ==
  /\ pgm[p].at = "run" /\ boots < MaxBoots /\ boots' = boots + 1
  /\ \E boot \in (BootNames \cup {"unknown"}) \X BOOLEAN, status \in {"pass", "fail"} :
       LET sheet == calc_fields(inc_row_field(pgm[p].sheet, boot, status))
       IN /\ valid_boot_list({boot}, pgm[p].sheet)
          /\ pgm' = [pgm EXCEPT ![p].sheet = sheet, ![p].totals = calc(sheet),
                                ![p].history = update_boot_history(@, boot)]
          /\ ran' = [ran EXCEPT ![p] = Append(@, <<boot, status>>)]
  /\ UNCHANGED <<resFile, kept, sought, mishap, pgms>>

\* program_teardown: open(..., "wb") truncates, then comes the dump.
SaveOpens(p) ==
  /\ pgm[p].at \in {"run", "useless"}
  /\ At(p, IF pgm[p].at = "run" THEN "saving" ELSE "saving_class")
  /\ resFile' = [resFile EXCEPT ![p] = [NoFile EXCEPT !.is = "torn"]]
  /\ UNCHANGED <<ran, kept, sought, mishap, boots, pgms>>

\* Nothing, if the file has been deleted since it was opened.
Dumped(p) ==
  IF resFile[p].is = "none" THEN NoFile
  ELSE IF pgm[p].at = "saving"
       THEN [is |-> "whole", sheet |-> pgm[p].sheet, history |-> pgm[p].history]
       ELSE [NoFile EXCEPT !.is = "class"]

SaveDumps(p) ==
  /\ pgm[p].at \in {"saving", "saving_class"} /\ pgm' = [pgm EXCEPT ![p] = NoPgm("idle")]
  /\ resFile' = [resFile EXCEPT ![p] = Dumped(p)]
  /\ kept' = [kept EXCEPT ![p] = ran[p]] /\ UNCHANGED <<ran, sought, mishap, boots, pgms>>

\* The program is killed: what it has not saved is lost, and what earlier ones
\* have saved too, if its file is open.
PgmKilled(p) ==
  /\ pgm[p].at \notin {"dead", "idle"} /\ pgm' = [pgm EXCEPT ![p] = NoPgm("idle")]
  /\ ran' = [ran EXCEPT ![p] = kept[p]]
  /\ mishap' = [mishap EXCEPT ![p] = IF pgm[p].at \in {"saving", "saving_class"}
                                   THEN @ \cup {"cut"} ELSE @]
  /\ UNCHANGED <<resFile, kept, sought, boots, pgms>>

ResNext == \E p \in MasterPids :
  \/ MasterStarts(p) \/ MasterEnds(p)
  \/ setup(p) \/ cleanup_boot_results_file(p) \/ RemoveFile(p) \/ load(p)
  \/ update(p) \/ SaveOpens(p) \/ SaveDumps(p) \/ PgmKilled(p)

ResSpec == ResInit /\ [][ResNext]_resVars

-----------------------------------------------------------------------------
(* Properties *)

\* How many of the boots done have ended so; of one kind, and of all.
NumberOf(done, b, status) == Cardinality({i \in DOMAIN done : done[i] = <<b, status>>})
Counted(done, status) == Cardinality({i \in DOMAIN done : done[i][2] = status})

\* What a program counts on top of is all that the earlier programs of its
\* process id have saved, whatever was killed, cleaned up or saved by others:
\* totals and rows add up to the boots of this run (boot_results,
\* tally_sheet.calc).  It is not if the file was cut or raced.
CountsKept == \A p \in MasterPids : pgm[p].at = "run" /\ mishap[p] = {} =>
  /\ pgm[p].totals["total"] = Len(ran[p])
  /\ \A status \in {"pass", "fail"} :
       /\ pgm[p].totals[status] = Counted(ran[p], status)
       /\ \A b \in DOMAIN pgm[p].sheet : pgm[p].sheet[b][status] = NumberOf(ran[p], b, status)

\* The history is the last boots of this run in their order, those of earlier
\* programs included, and never more than max_boot_history.
HistoryIsLast == \A p \in MasterPids : pgm[p].at = "run" /\ mishap[p] = {} =>
  LET done == [i \in DOMAIN ran[p] |-> ran[p][i][1]]
  IN pgm[p].history = SubSeq(done, Max({1, Len(done) - MaxHistory + 1}), Len(done))

\* The file of a master that runs is there, and whole but while one of its own
\* programs writes it.
LiveFileKept ==
  \A p \in MasterPids : pid_active(p) /\ mishap[p] = {} /\ kept[p] # <<>> =>
    \/ resFile[p].is = "whole"
    \/ resFile[p].is = "torn" /\ pgm[p].at = "saving"

\* A clean up is about to delete the file of a master that runs only if it found
\* an earlier one of this process id gone, before this one started.
OnlyDeadSought ==
  \A p, q \in MasterPids : pid_active(p) /\ pgm[q].rm = p => q \in sought[p]

\* After a kill between truncation and dump no program counts any more, and none
\* saves a count, until someone deletes the file: the totals of all the boots of
\* the earlier programs are gone, and the boots to come are not counted.
CutIsFinal ==
  \A p \in MasterPids : mishap[p] = {"cut"} =>
    pgm[p].at \notin {"run", "saving"} /\ resFile[p].is # "whole"

\* From program to program of a process id results are neither lost, nor counted
\* twice, nor mixed with those of others, with programs killed at any step, but
\* for the two ways that lose the file: a kill while it is open, which ends the
\* counting, and a clean up that had looked before the master started.
ResultsKept == CountsKept /\ HistoryIsLast /\ LiveFileKept /\ OnlyDeadSought /\ CutIsFinal

=============================================================================
