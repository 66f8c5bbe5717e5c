--------------------------- MODULE BootTestProps ----------------------------
(***************************************************************************)
(* What the boot test program promises.                                    *)
(***************************************************************************)
EXTENDS BootTest

Totals == [pass : Nat, fail : Nat]
ParmNames == {"boot_stack", "stack_mode"}

\* The values of the globals, of their saved copies and of what is passed.
ParmTypeOK ==
  /\ glob \in [boot_stack : Seq(Boots), stack_mode : {"normal", "skip"}]
  /\ {save_stack, hand} \subseteq
       [boot_stack : Seq(Seq(Boots)), stack_mode : Seq({"normal", "skip"})]
  /\ loc \in [boot_stack : {None} \cup Seq(Boots), stack_mode : {None, "normal", "skip"}]
  /\ px \in Nat \ {0} /\ lost \subseteq ParmNames

\* The values of the totals and of the results file.
FileTypeOK ==
  /\ results \in Totals \cup {NoResults} /\ kept \in Totals \cup {NoResults}
  /\ saved \in Totals \cup {NoResults, Torn} /\ path_set \in BOOLEAN /\ cut \in BOOLEAN
  /\ init_boot_fail \in Nat /\ cp_setup_called \in BOOLEAN

\* The values of everything else.
FlowTypeOK ==
  /\ pc \in AllPcs /\ waiting \in {"poll", "leave", "return"}
  /\ verdict \in {"none", "PASS", "FAIL"}
  /\ phase \in {"stack", "post", "list", "only"} /\ ix \in Nat
  /\ boot_stack \in Seq(Boots) /\ stack_mode \in {"normal", "skip"}
  /\ ffdc_only \in BOOLEAN
  /\ state \in MachineStates
  /\ transitional_boot_selected \in BOOLEAN
  /\ next_boot \in Boots \cup {NoBoot}
  /\ boot_success \in BOOLEAN /\ boot_status \in {"PASS", "FAIL"}
  /\ boot_count \in Nat
  /\ handler \in {"system", "default", "stop"}
  /\ exit_msg \in Nat /\ stopped \in Nat /\ caught \in Nat
  /\ requested \in Seq(Boots) /\ fails \in Nat
  /\ okPos \subseteq Nat /\ skipPos \subseteq Nat
  /\ calls \in Nat /\ signals \in Nat

\* The type of every variable.
TypeOK == ParmTypeOK /\ FileTypeOK /\ FlowTypeOK

\* In the main function, after setup and up to the verdict.
InMain == pc \in LoopPcs \cup RunBootPcs

\* Where a boot has been chosen and its result is not yet recorded.
Running == pc \in RunBootPcs \cup {"begin", "boot_done"}

-----------------------------------------------------------------------------
\* A call which passes has done what its stack asked for: no more boots failed
\* than boot_fail_threshold allows, and when none failed every entry of the
\* stack was run and passed, or was skipped since the machine already was in
\* its end state (select_boot, test_loop_body, obmc_boot_test_py).
PassMeansStackDone ==
  (verdict = "PASS" /\ ~ffdc_only) =>
    /\ fails <= Threshold
    /\ fails = 0 => \A i \in 1..Len(requested) : i \in okPos \cup skipPos

\* The same for the calls whose stack_mode is "normal".
NormalPassMeansStackDone == stack_mode = "normal" => PassMeansStackDone

\* "To avoid an endless failure loop": while the stack is processed every
\* failed boot costs the stack an entry, the last one with a delay of one
\* select_boot when the boot was a transitional one.
FailuresBounded ==
  (InMain /\ phase = "stack") => fails + Len(boot_stack) <= Len(requested) + 1

\* A boot which a stop request has reached in time does not pass, however the
\* request was noticed, by the handler itself or by wait_state.  The exception
\* is a request which arrives within the boot keyword and whose failure that
\* keyword catches: the handler is disarmed then and nothing else remembers it.
StoppedBootFails ==
  (pc = "boot_done" /\ stopped = boot_count /\ boot_count > 0 /\ caught # boot_count)
    => boot_status = "FAIL"

\* stop_boot_test stays armed outside run_boot only after a boot that failed.
ArmedAfterFailureOnly ==
  (handler = "stop" /\ pc \notin RunBootPcs) => boot_status = "FAIL"

\* The oldest value of a global: the bottom of its saved values, if any, else
\* the one the teardown has in hand, else the global itself.
Oldest(stk, value) == IF stk = << >> THEN value ELSE stk[1]
OldestOf(p) == Oldest(save_stack[p], Oldest(hand[p], glob[p]))

\* The user's own value of ${boot_stack} and of ${stack_mode} is the global
\* value, or in the teardown's hand, or the oldest one on save_stack, whatever
\* is passed, fails or is cut short.  It is lost in one way only: a stop that
\* reaches the teardown after save_stack.pop and before the global is set.
GlobalsKept == \A p \in ParmNames \ lost : OldestOf(p) = InitGlob[p]

NoLess(r, old) == old # NoResults => /\ r # NoResults
                                     /\ r.pass >= old.pass /\ r.fail >= old.fail

\* No save writes totals below those last saved completely, over calls,
\* processes, killed processes and files cut short.
SavedResultsGrow == [][NoLess(kept', kept)]_kept

\* The results file holds the totals last saved completely, but for the moment
\* of a save, and after a save that was cut short: then it holds no totals at
\* all, never others.
SavedResultsKept == saved # kept => (saved = Torn /\ (pc = "dump" \/ cut))

\* In test mode every call comes to its end, and not since the time-out of the
\* whole test was needed: no stack makes select_boot go on for ever.
CallEnds == (pc = "save_parm") ~> (pc = "idle" /\ boot_count < MaxBoots)

\* In test mode an entry of the stack costs at most two boots, itself and one
\* default power operation which leads to its start state.
StackWorkBounded ==
  (calls <= 1 /\ phase = "stack")
    => boot_count <= 2 * (Len(requested) - Len(boot_stack)) + 1

-----------------------------------------------------------------------------
(* What the repository says and the code does not do. *)

\* A default power operation is used only if the user's boot list has no boot
\* which is valid now and leads to the start state that is needed
\* ("The user's boot list contained no boot tests which are valid").
LeadsTo(c, b) == \A s \in Reports : EndMatches(s, c) => StartMatches(s, b)
DefaultOnlyIfListHasNone ==
  (pc = "begin" /\ transitional_boot_selected /\ next_boot \notin BootList)
    => ~\E c \in BootList : StartMatches(state, c) /\ LeadsTo(c, Top(boot_stack))

\* A stop request is checked and cleared by the wait_state it was meant for.
StopRequestNotLeaked == exit_msg # 0 => (exit_msg = boot_count /\ pc \in WaitPcs)

\* A post_stack failure does not count as a boot failure: select_boot never
\* takes a boot from an empty stack.
NoPopOfEmptyStack == pc = "select" => ~(TransitionFailed /\ boot_stack = << >>)

=============================================================================
