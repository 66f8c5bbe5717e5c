--------------------------- MODULE BootTestProofs ---------------------------
(***************************************************************************)
(* Proofs of the boot test's properties, for every boot table, every set   *)
(* of reports, stacks and bounds.                                          *)
(***************************************************************************)
EXTENDS BootTestProps, SequenceTheorems, TLAPS

\* A global is set only after it was saved, and given back only after a value
\* was popped for it.
HandInv ==
  /\ pc = "set_parm" => ParmLeft /\ loc[Parm] # None /\ save_stack[Parm] # << >>
  /\ pc = "give_back" => ParmLeft /\ hand[Parm] # << >>
  /\ \A p \in ParmNames : hand[p] # << >> => pc = "give_back" /\ p = Parm

globVars == <<glob, save_stack, hand, lost>>

\* A step that leaves the globals alone.
Apart ==
  /\ UNCHANGED globVars
  /\ px' \in {1, px, px + 1}
  /\ loc' \in {loc, NothingPassed} \cup [boot_stack : {None} \cup BootStacks,
      stack_mode : {None} \cup StackModes]
  /\ \/ pc # "give_back" /\ pc' \notin {"give_back", "set_parm"}
     \/ UNCHANGED <<pc, px, loc>>

\* The steps that save, set, pop or give back a parameter, or are a stop meeting
\* one of these, and a new process.
GlobSteps == SaveParm \/ SetParm \/ PopParm \/ GiveBack \/ StopInPop \/ StopInTeardown \/ FreshProcess

\* No other step touches the globals.
LEMMA GlobStep ==
  ASSUME [Next]_vars
  PROVE  Apart \/ GlobSteps
<1> USE DEF Apart, globVars, callVars, LoopPcs, RunBootPcs, WaitPcs
<1>1. CASE UNCHANGED vars \/ Finished \/ default_sigusr1
  BY <1>1 DEF vars, Finished, default_sigusr1
<1>2. CASE Call
  BY <1>2 DEF Call, obmc_boot_test_py
<1>3. CASE SkipParm \/ ParmsDone
  BY <1>3 DEF SkipParm, ParmsDone, InParms
<1>4. CASE SetupLoginFails \/ setup \/ SetupFails
  BY <1>4 DEF SetupLoginFails, setup, SetupFails, SetupBegins, Abort
<1>5. CASE StackLoop \/ ListLoop \/ Verdict \/ TestTimeout
  BY <1>5 DEF StackLoop, ListLoop, Verdict, TestTimeout, Abort
<1>6. CASE PopEmptyStack \/ GiveUpLastBoot \/ SelectInvalidState \/ SelectNothing
  BY <1>6 DEF PopEmptyStack, GiveUpLastBoot, SelectInvalidState, SelectNothing, StateObtained,
              AtSelect, Abort
<1>7. CASE SelectFromStack \/ SelectTransition \/ SelectFromList
  BY <1>7 DEF SelectFromStack, SelectTransition, SelectFromList, StateObtained, AtSelect, Begin
<1>8. CASE ArmStop \/ PlugInFails \/ PreBoot \/ Method \/ PostReboot \/ PostBoot
  BY <1>8 DEF ArmStop, PlugInFails, PreBoot, Method, PostReboot, PostBoot, InRunBoot, EndBoot
<1>9. CASE check_state \/ WaitTimeout \/ WaitLeave \/ WaitReturn
  BY <1>9 DEF check_state, WaitTimeout, WaitLeave, WaitReturn, AtWait, AfterWait, InRunBoot, EndBoot
<1>10. CASE test_loop_body \/ post_stack
  BY <1>10 DEF test_loop_body, BootDone, PostTestCase, FfdcCheck, my_ffdc, Purge, LogsUnread,
              AfterFfdc, StopCheck, After, post_stack, Abort
<1>11. CASE Cleanup \/ NoSave \/ OpenResults \/ DumpResults \/ NotSaved \/ CallOver
  BY <1>11 DEF Cleanup, After, NoSave, OpenResults, DumpResults, NotSaved, CallOver, InTeardown, ToRestore
<1>12. CASE StopInWait \/ StopInBoot \/ StopCaught \/ StopInFfdc
  BY <1>12 DEF StopInWait, StopInBoot, StopCaught, StopInFfdc, Stopping, StopOnly, EndBoot, AfterFfdc
<1>13. CASE StopEndsCall
  BY <1>13 DEF StopEndsCall, Stopping, StopOnly, ParmPcs, Abort
<1> HIDE DEF Apart
<1> QED
  BY <1>1, <1>2, <1>3, <1>4, <1>5, <1>6, <1>7, <1>8, <1>9, <1>10, <1>11, <1>12, <1>13
     DEF GlobSteps, SignalKills, NewProcess, Next, Program, Environment, select_boot, run_boot,
         obmc_boot_test_teardown, stop_boot_test

\* Pushing and popping in terms of lengths and indices.
LEMMA PushProps ==
  ASSUME NEW S, NEW s \in Seq(S), NEW e \in S
  PROVE  /\ Push(s, e) \in Seq(S) /\ Len(Push(s, e)) = Len(s) + 1
         /\ Push(s, e) # << >>
         /\ \A i \in 1..Len(s) : Push(s, e)[i] = s[i]
         /\ Push(s, e)[Len(s) + 1] = e
PROOF
  BY AppendProperties DEF Push

\* What pop removes and keeps; popping an empty stack leaves it empty.
LEMMA PopProps ==
  ASSUME NEW S, NEW s \in Seq(S)
  PROVE  /\ Pop(s) \in Seq(S)
         /\ s = << >> => Pop(s) = << >>
         /\ s # << >> => Len(Pop(s)) = Len(s) - 1 /\ Top(s) \in S
         /\ s # << >> /\ Len(s) <= 1 => Pop(s) = << >> /\ Top(s) = s[1]
         /\ Len(s) > 1 => Pop(s) # << >> /\ Pop(s)[1] = s[1]
         /\ \A i \in 1..Len(s) - 1 : Pop(s)[i] = s[i]
<1>1. Len(s) \in Nat /\ \A i \in 1..Len(s) : s[i] \in S
  BY LenProperties, ElementOfSeq
<1>2. /\ Pop(s) \in Seq(S)
      /\ Len(s) > 1 => Len(Pop(s)) = Len(s) - 1
      /\ \A i \in 1..Len(s) - 1 : Pop(s)[i] = s[i]
  BY <1>1, SubSeqProperties DEF Pop
<1>3. Len(s) <= 1 => Pop(s) = << >>
  BY <1>1, SubSeqEmpty DEF Pop
<1>4. s # << >> => Len(s) >= 1
  BY EmptySeq
<1>5. s = << >> => Len(s) = 0
  BY EmptySeq
<1>6. Len(s) > 1 => Pop(s) # << >>
  BY <1>1, <1>2, EmptySeq
<1>7. s # << >> => Len(Pop(s)) = Len(s) - 1
  <2>1. CASE Len(s) <= 1
    <3>1. \A n \in Nat : n >= 1 /\ n <= 1 => n - 1 = 0
      OBVIOUS
    <3>2. s # << >> => Len(s) - 1 = 0
      BY <1>1, <1>4, <2>1, <3>1
    <3>3. Pop(s) = << >> /\ Len(<< >>) = 0
      BY <1>3, <2>1
    <3> QED
      BY <3>2, <3>3
  <2>2. CASE Len(s) > 1
    BY <1>2, <2>2
  <2> QED
    BY <1>1, <2>1, <2>2
<1>11. s # << >> => Top(s) \in S
  <2>1. s # << >> => Len(s) \in 1..Len(s)
    BY <1>1, <1>4
  <2> QED
    BY <1>1, <2>1 DEF Top
<1>8. Len(s) > 1 => Pop(s)[1] = s[1]
  BY <1>1, <1>2
<1>9. s # << >> /\ Len(s) <= 1 => Pop(s) = << >> /\ Top(s) = s[1]
  BY <1>1, <1>3, <1>4 DEF Top
<1>10. s = << >> => Pop(s) = << >>
  BY <1>3, <1>5
<1> QED
  BY <1>2, <1>6, <1>7, <1>8, <1>9, <1>10, <1>11

\* Saving a value keeps the oldest one.
LEMMA PushKeeps ==
  ASSUME NEW S, NEW stk \in Seq(S), NEW v \in S
  PROVE  Push(stk, v) \in Seq(S) /\ Push(stk, v) # << >> /\ Push(stk, v)[1] = Oldest(stk, v)
<1>1. /\ Push(stk, v) \in Seq(S) /\ Push(stk, v) # << >>
      /\ \A i \in 1..Len(stk) : Push(stk, v)[i] = stk[i]
      /\ Push(stk, v)[Len(stk) + 1] = v
  BY PushProps
<1>2. IF stk = << >> THEN Len(stk) = 0 ELSE Len(stk) \in Nat \ {0}
  BY EmptySeq
<1>3. Push(stk, v)[1] = Oldest(stk, v)
  BY <1>1, <1>2 DEF Oldest
<1> QED
  BY <1>1, <1>3

\* What is popped is the oldest value when nothing else is left, and else the
\* oldest one stays.
LEMMA PopKeeps ==
  ASSUME NEW S, NEW stk \in Seq(S), stk # << >>
  PROVE  /\ Pop(stk) \in Seq(S) /\ Top(stk) \in S
         /\ Oldest(Pop(stk), Top(stk)) = stk[1]
         /\ Pop(stk) # << >> => Pop(stk)[1] = stk[1]
<1>1. Len(stk) \in Nat \ {0}
  BY EmptySeq
<1>2. /\ Pop(stk) \in Seq(S) /\ Top(stk) \in S
      /\ Len(stk) <= 1 => Pop(stk) = << >> /\ Top(stk) = stk[1]
      /\ Len(stk) > 1 => Pop(stk) # << >> /\ Pop(stk)[1] = stk[1]
  BY PopProps
<1> QED
  BY <1>1, <1>2 DEF Oldest

\* A value in hand is the one value popped.
LEMMA HandKeeps ==
  ASSUME NEW S, NEW v \in S
  PROVE  <<v>> \in Seq(S) /\ <<v>> # << >> /\ <<v>>[1] = v
PROOF
  OBVIOUS

\* The inductive invariant of the globals.
GlobInv == ParmTypeOK /\ HandInv /\ GlobalsKept

\* The two parameters.
LEMMA Parms ==
  ASSUME ParmTypeOK
  PROVE  /\ ParmLeft => (px = 1 /\ Parm = "boot_stack") \/ (px = 2 /\ Parm = "stack_mode")
         /\ px = 1 => ParmLeft
PROOF
  BY DEF ParmTypeOK, ParmLeft, Parm, main_func_parm_list

\* The values a parameter may have.
Values(p) == IF p = "boot_stack" THEN Seq(Boots) ELSE {"normal", "skip"}

\* Replacing one of the two fields.
LEMMA ParmField ==
  ASSUME NEW A, NEW B, NEW r \in [boot_stack : A, stack_mode : B], NEW p \in ParmNames, NEW v
  PROVE  /\ (p = "boot_stack" /\ v \in A) \/ (p = "stack_mode" /\ v \in B)
              => [r EXCEPT ![p] = v] \in [boot_stack : A, stack_mode : B]
         /\ [r EXCEPT ![p] = v][p] = v
         /\ \A q \in ParmNames \ {p} : [r EXCEPT ![p] = v][q] = r[q]
PROOF
  BY DEF ParmNames

\* The types of one parameter's fields.
LEMMA FieldTypes ==
  ASSUME ParmTypeOK, NEW p \in ParmNames
  PROVE  /\ glob[p] \in Values(p) /\ save_stack[p] \in Seq(Values(p))
         /\ hand[p] \in Seq(Values(p)) /\ loc[p] \in {None} \cup Values(p)
<1>1. CASE p = "boot_stack"
  BY <1>1 DEF ParmTypeOK, Values
<1>2. CASE p = "stack_mode"
  BY <1>2 DEF ParmTypeOK, Values
<1> QED
  BY <1>1, <1>2 DEF ParmNames

\* The types of the globals and of their saved values.
GlobSet(r) == r \in [boot_stack : Seq(Boots), stack_mode : {"normal", "skip"}]
StackSet(r) == r \in [boot_stack : Seq(Seq(Boots)), stack_mode : Seq({"normal", "skip"})]

\* r differs from old by v at p.
Put(old, r, p, v) == r[p] = v /\ \A q \in ParmNames \ {p} : r[q] = old[q]

\* Replacing one of the globals.
LEMMA GlobPut ==
  ASSUME ParmTypeOK, NEW p \in ParmNames, NEW v \in Values(p), glob' = [glob EXCEPT ![p] = v]
  PROVE  GlobSet(glob') /\ Put(glob, glob', p, v)
<1> DEFINE A == Seq(Boots)
           B == {"normal", "skip"}
<1>1. glob \in [boot_stack : A, stack_mode : B]
  BY DEF ParmTypeOK
<1>2. (p = "boot_stack" /\ v \in A) \/ (p = "stack_mode" /\ v \in B)
  BY DEF Values, ParmNames
<1> HIDE DEF A, B
<1>3. /\ [glob EXCEPT ![p] = v] \in [boot_stack : A, stack_mode : B]
      /\ [glob EXCEPT ![p] = v][p] = v
      /\ \A q \in ParmNames \ {p} : [glob EXCEPT ![p] = v][q] = glob[q]
  BY ONLY <1>1, <1>2, p \in ParmNames, ParmField
<1> QED
  BY <1>3 DEF A, B, Put, GlobSet

\* Replacing the saved values of one global.
LEMMA StackPut ==
  ASSUME ParmTypeOK, NEW p \in ParmNames, NEW v \in Seq(Values(p)), save_stack' = [save_stack EXCEPT ![p] = v]
  PROVE  StackSet(save_stack') /\ Put(save_stack, save_stack', p, v)
<1> DEFINE A == Seq(Seq(Boots))
           B == Seq({"normal", "skip"})
<1>1. save_stack \in [boot_stack : A, stack_mode : B]
  BY DEF ParmTypeOK
<1>2. (p = "boot_stack" /\ v \in A) \/ (p = "stack_mode" /\ v \in B)
  BY DEF Values, ParmNames
<1> HIDE DEF A, B
<1>3. /\ [save_stack EXCEPT ![p] = v] \in [boot_stack : A, stack_mode : B]
      /\ [save_stack EXCEPT ![p] = v][p] = v
      /\ \A q \in ParmNames \ {p} : [save_stack EXCEPT ![p] = v][q] = save_stack[q]
  BY ONLY <1>1, <1>2, p \in ParmNames, ParmField
<1> QED
  BY <1>3 DEF A, B, Put, StackSet

\* Putting a value in hand.
LEMMA HandPut ==
  ASSUME ParmTypeOK, NEW p \in ParmNames, NEW v \in Seq(Values(p)), hand' = [hand EXCEPT ![p] = v]
  PROVE  StackSet(hand') /\ Put(hand, hand', p, v)
<1> DEFINE A == Seq(Seq(Boots))
           B == Seq({"normal", "skip"})
<1>1. hand \in [boot_stack : A, stack_mode : B]
  BY DEF ParmTypeOK
<1>2. (p = "boot_stack" /\ v \in A) \/ (p = "stack_mode" /\ v \in B)
  BY DEF Values, ParmNames
<1> HIDE DEF A, B
<1>3. /\ [hand EXCEPT ![p] = v] \in [boot_stack : A, stack_mode : B]
      /\ [hand EXCEPT ![p] = v][p] = v
      /\ \A q \in ParmNames \ {p} : [hand EXCEPT ![p] = v][q] = hand[q]
  BY ONLY <1>1, <1>2, p \in ParmNames, ParmField
<1> QED
  BY <1>3 DEF A, B, Put, StackSet

\* Nothing saved, in hand or passed has its type.
LEMMA NothingTypes ==
  /\ NothingSaved \in [boot_stack : Seq(Seq(Boots)), stack_mode : Seq({"normal", "skip"})]
  /\ NothingPassed \in [boot_stack : {None} \cup Seq(Boots), stack_mode : {None, "normal", "skip"}]
  /\ \A p \in ParmNames : NothingSaved[p] = << >>
PROOF
  BY EmptySeq DEF NothingSaved, NothingPassed, ParmNames

\* The globals begin as the user's, with nothing saved.
LEMMA GlobInvInit == Init => GlobInv
PROOF
  BY BootAssumption, NothingTypes DEF Init, GlobInv, ParmTypeOK, HandInv, GlobalsKept, OldestOf, Oldest,
      ParmNames

\* No step loses the oldest value, but for a stop between save_stack.pop and
\* the setting of the global.
LEMMA GlobInvNext == GlobInv /\ [Next]_vars => GlobInv'
<1> SUFFICES ASSUME GlobInv, [Next]_vars PROVE GlobInv'
  OBVIOUS
<1>a. ParmTypeOK /\ HandInv /\ GlobalsKept
  BY DEF GlobInv
<1>b. InitGlob \in [boot_stack : Seq(Boots), stack_mode : {"normal",
    "skip"}] /\ BootStacks \subseteq Seq(Boots)
      /\ StackModes \subseteq {"normal", "skip"}
  BY BootAssumption
<1>c. ParmLeft => Parm \in ParmNames
  BY <1>a, Parms DEF ParmNames
<1>1. CASE Apart
  <2>1. ParmTypeOK'
    <3>1. loc' \in [boot_stack : {None} \cup Seq(Boots), stack_mode : {None, "normal", "skip"}]
      BY <1>1, <1>a, <1>b, NothingTypes DEF Apart, ParmTypeOK
    <3>2. px' \in Nat \ {0}
      BY <1>1, <1>a DEF Apart, ParmTypeOK
    <3> QED
      BY <1>1, <1>a, <3>1, <3>2 DEF Apart, ParmTypeOK, globVars
  <2>2. HandInv'
    BY <1>1, <1>a DEF Apart, HandInv, globVars, Parm, ParmLeft
  <2>3. GlobalsKept'
    BY <1>1, <1>a DEF Apart, GlobalsKept, OldestOf, globVars
  <2> QED
    BY <2>1, <2>2, <2>3 DEF GlobInv
<1>2. CASE FreshProcess
  <2>1. glob' = InitGlob /\ save_stack' = NothingSaved /\ hand' = NothingSaved /\ px' = 1 /\ loc' = NothingPassed
        /\ lost' = {} /\ pc' = "idle"
    BY <1>2 DEF FreshProcess
  <2>2. ParmTypeOK' /\ HandInv'
    BY <1>b, <2>1, NothingTypes DEF ParmTypeOK, HandInv
  <2>3. GlobalsKept'
    BY <2>1, NothingTypes DEF GlobalsKept, OldestOf, Oldest
  <2> QED
    BY <2>2, <2>3 DEF GlobInv
<1>3. CASE SaveParm
  <2>1. /\ pc = "save_parm" /\ pc' = "set_parm" /\ ParmLeft /\ loc[Parm] # None
        /\ save_stack' = [save_stack EXCEPT ![Parm] = Push(save_stack[Parm], glob[Parm])]
        /\ UNCHANGED <<glob, px, loc, hand, lost>>
    BY <1>3 DEF SaveParm, InParms
  <2> DEFINE p == Parm
             below == save_stack[p]
             value == glob[p]
             v == Push(below, value)
  <2>2. p \in ParmNames /\ value \in Values(p) /\ below \in Seq(Values(p))
    BY <1>a, <1>c, <2>1, FieldTypes
  <2>12. v = Push(below, value)
    OBVIOUS
  <2>4. save_stack' = [save_stack EXCEPT ![p] = v] /\ Parm' = p /\ ParmLeft'
    BY <2>1 DEF Parm, ParmLeft
  <2>13. below = save_stack[p] /\ value = glob[p]
    OBVIOUS
  <2> HIDE DEF p, below, value, v
  <2>3. v \in Seq(Values(p)) /\ v # << >> /\ v[1] = Oldest(below, value)
    BY ONLY <2>2, <2>12, PushKeeps
  <2>11. StackSet(save_stack') /\ Put(save_stack, save_stack', p, v)
    BY ONLY <1>a, <2>2, <2>3, <2>4, StackPut
  <2>5. /\ save_stack' \in [boot_stack : Seq(Seq(Boots)), stack_mode : Seq({"normal", "skip"})]
        /\ save_stack'[p] = v /\ \A q \in ParmNames \ {p} : save_stack'[q] = save_stack[q]
    BY ONLY <2>11 DEF StackSet, Put
  <2>6. ParmTypeOK'
    BY <1>a, <2>1, <2>5 DEF ParmTypeOK
  <2>7. \A q \in ParmNames : hand[q] = << >>
    BY <1>a, <2>1 DEF HandInv
  <2>8. HandInv'
    BY <2>1, <2>3, <2>4, <2>5, <2>7 DEF HandInv, p
  <2>9. \A q \in ParmNames : OldestOf(q)' = OldestOf(q)
    BY <2>1, <2>3, <2>5, <2>7, <2>13 DEF OldestOf, Oldest
  <2> QED
    BY <1>a, <2>1, <2>6, <2>8, <2>9 DEF GlobInv, GlobalsKept
<1>4. CASE SetParm
  <2>1. /\ pc = "set_parm" /\ pc' = "save_parm" /\ glob' = [glob EXCEPT ![Parm] = loc[Parm]]
        /\ px' = px + 1 /\ UNCHANGED <<save_stack, loc, hand, lost>>
    BY <1>4 DEF SetParm, InParms
  <2> DEFINE p == Parm
             v == loc[p]
  <2>2. p \in ParmNames /\ v \in Values(p) /\ save_stack[p] # << >>
    BY <1>a, <1>c, <2>1, FieldTypes DEF HandInv
  <2>4. glob' = [glob EXCEPT ![p] = v]
    BY <2>1
  <2> HIDE DEF p, v
  <2>11. GlobSet(glob') /\ Put(glob, glob', p, v)
    BY ONLY <1>a, <2>2, <2>4, GlobPut
  <2>5. /\ glob' \in [boot_stack : Seq(Boots), stack_mode : {"normal", "skip"}]
        /\ \A q \in ParmNames \ {p} : glob'[q] = glob[q]
    BY ONLY <2>11 DEF GlobSet, Put
  <2>6. ParmTypeOK'
    BY <1>a, <2>1, <2>5 DEF ParmTypeOK
  <2>8. HandInv'
    BY <1>a, <2>1 DEF HandInv
  <2>9. \A q \in ParmNames : OldestOf(q)' = OldestOf(q)
    BY <2>1, <2>2, <2>5 DEF OldestOf, Oldest
  <2> QED
    BY <1>a, <2>1, <2>6, <2>8, <2>9 DEF GlobInv, GlobalsKept
<1>5. CASE PopParm
  <2>1. /\ pc = "restore" /\ pc' = "give_back" /\ ParmLeft /\ save_stack[Parm] # << >>
        /\ hand' = [hand EXCEPT ![Parm] = <<Top(save_stack[Parm])>>]
        /\ save_stack' = [save_stack EXCEPT ![Parm] = Pop(save_stack[Parm])]
        /\ UNCHANGED <<glob, px, loc, lost>>
    BY <1>5 DEF PopParm, InTeardown
  <2> DEFINE p == Parm
             stk == save_stack[p]
             v == Top(stk)
             h == <<v>>
             s == Pop(stk)
  <2>2. p \in ParmNames /\ stk \in Seq(Values(p)) /\ stk # << >>
    BY <1>a, <1>c, <2>1, FieldTypes
  <2>3. /\ s \in Seq(Values(p)) /\ v \in Values(p) /\ Oldest(s, v) = stk[1]
        /\ s # << >> => s[1] = stk[1]
    BY <2>2, PopKeeps
  <2>10. h \in Seq(Values(p)) /\ h # << >> /\ h[1] = v
    BY <2>3, HandKeeps
  <2>4. hand' = [hand EXCEPT ![p] = h] /\ save_stack' = [save_stack EXCEPT ![p] = s] /\ Parm' = p /\ ParmLeft'
    BY <2>1 DEF Parm, ParmLeft
  <2>11. stk = save_stack[p]
    OBVIOUS
  <2> HIDE DEF p, stk, v, h, s
  <2>12. StackSet(save_stack') /\ Put(save_stack, save_stack', p, s)
    BY ONLY <1>a, <2>2, <2>3, <2>4, StackPut
  <2>13. StackSet(hand') /\ Put(hand, hand', p, h)
    BY ONLY <1>a, <2>2, <2>4, <2>10, HandPut
  <2>5. /\ save_stack' \in [boot_stack : Seq(Seq(Boots)), stack_mode : Seq({"normal", "skip"})]
        /\ hand' \in [boot_stack : Seq(Seq(Boots)), stack_mode : Seq({"normal", "skip"})]
        /\ save_stack'[p] = s /\ hand'[p] = h
        /\ \A q \in ParmNames \ {p} : save_stack'[q] = save_stack[q] /\ hand'[q] = hand[q]
    BY ONLY <2>12, <2>13 DEF StackSet, Put
  <2>6. ParmTypeOK'
    BY <1>a, <2>1, <2>5 DEF ParmTypeOK
  <2>7. \A q \in ParmNames : hand[q] = << >>
    BY <1>a, <2>1 DEF HandInv
  <2>8. HandInv'
    BY <2>1, <2>4, <2>5, <2>7, <2>10 DEF HandInv, p
  <2>9. \A q \in ParmNames : OldestOf(q)' = OldestOf(q)
    BY <2>1, <2>2, <2>3, <2>5, <2>7, <2>10, <2>11 DEF OldestOf, Oldest
  <2> QED
    BY <1>a, <2>1, <2>6, <2>8, <2>9 DEF GlobInv, GlobalsKept
<1>6. CASE GiveBack
  <2>1. /\ pc = "give_back" /\ pc' = "restore" /\ glob' = [glob EXCEPT ![Parm] = hand[Parm][1]]
        /\ hand' = NothingSaved /\ px' = px + 1 /\ UNCHANGED <<save_stack, loc, lost>>
    BY <1>6 DEF GiveBack, InTeardown
  <2> DEFINE p == Parm
             v == hand[p][1]
  <2>2. p \in ParmNames /\ hand[p] \in Seq(Values(p)) /\ hand[p] # << >>
        /\ \A q \in ParmNames \ {p} : hand[q] = << >>
    BY <1>a, <1>c, <2>1, FieldTypes DEF HandInv
  <2>3. v \in Values(p)
    BY <2>2, EmptySeq, ElementOfSeq
  <2>4. glob' = [glob EXCEPT ![p] = v] /\ v = hand[p][1]
    BY <2>1
  <2> HIDE DEF p, v
  <2>11. GlobSet(glob') /\ Put(glob, glob', p, v)
    BY ONLY <1>a, <2>2, <2>3, <2>4, GlobPut
  <2>5. /\ glob' \in [boot_stack : Seq(Boots), stack_mode : {"normal", "skip"}] /\ glob'[p] = v
        /\ \A q \in ParmNames \ {p} : glob'[q] = glob[q]
    BY ONLY <2>11 DEF GlobSet, Put
  <2>6. ParmTypeOK'
    BY <1>a, <2>1, <2>5, NothingTypes DEF ParmTypeOK
  <2>8. HandInv'
    BY <2>1, NothingTypes DEF HandInv
  <2>9. \A q \in ParmNames : OldestOf(q)' = OldestOf(q)
    BY <2>1, <2>2, <2>4, <2>5, NothingTypes DEF OldestOf, Oldest
  <2> QED
    BY <1>a, <2>1, <2>6, <2>8, <2>9 DEF GlobInv, GlobalsKept
<1>7. CASE StopInPop
  <2>1. /\ pc = "restore" /\ pc' = "restore" /\ ParmLeft /\ px' = px + 1
        /\ UNCHANGED <<glob, loc, hand>>
    BY <1>7 DEF StopInPop, Stopping
  <2>7. \A q \in ParmNames : hand[q] = << >>
    BY <1>a, <2>1 DEF HandInv
  <2>8. HandInv'
    BY <2>1, <2>7 DEF HandInv
  <2>2. CASE UNCHANGED <<save_stack, lost>>
    BY <1>a, <2>1, <2>2, <2>8 DEF GlobInv, ParmTypeOK, GlobalsKept, OldestOf
  <2>3. CASE /\ save_stack[Parm] # << >>
             /\ save_stack' = [save_stack EXCEPT ![Parm] = Pop(save_stack[Parm])]
             /\ lost' = Loses(Parm, save_stack'[Parm])
    <3> DEFINE p == Parm
               s == Pop(save_stack[p])
    <3>1. p \in ParmNames /\ save_stack[p] \in Seq(Values(p)) /\ save_stack[p] # << >>
      BY <1>a, <1>c, <2>1, <2>3, FieldTypes
    <3>2. s \in Seq(Values(p)) /\ (s # << >> => s[1] = save_stack[p][1])
      BY <3>1, PopKeeps
    <3>3. save_stack' = [save_stack EXCEPT ![p] = s] /\ lost' = Loses(p, save_stack'[p])
      BY <2>3
    <3> HIDE DEF p, s
    <3>9. StackSet(save_stack') /\ Put(save_stack, save_stack', p, s)
      BY ONLY <1>a, <3>1, <3>2, <3>3, StackPut
    <3>4. /\ save_stack' \in [boot_stack : Seq(Seq(Boots)), stack_mode : Seq({"normal", "skip"})]
          /\ save_stack'[p] = s /\ \A q \in ParmNames \ {p} : save_stack'[q] = save_stack[q]
      BY ONLY <3>9 DEF StackSet, Put
    <3>5. lost' = IF s = << >> THEN lost \cup {p} ELSE lost
      BY <3>3, <3>4 DEF Loses
    <3>6. ParmTypeOK'
      BY <1>a, <2>1, <3>1, <3>4, <3>5 DEF ParmTypeOK
    <3>7. \A q \in ParmNames \ lost' : OldestOf(q)' = OldestOf(q)
      BY <2>1, <2>7, <3>1, <3>2, <3>4, <3>5 DEF OldestOf, Oldest
    <3>8. lost \subseteq lost'
      BY <3>5
    <3> QED
      BY <1>a, <2>8, <3>6, <3>7, <3>8 DEF GlobInv, GlobalsKept
  <2> QED
    BY <1>7, <2>2, <2>3 DEF StopInPop
<1>8. CASE StopInTeardown
  <2>1. /\ pc' = "idle" /\ hand' = NothingSaved /\ px' = 1
        /\ lost' = (IF pc = "give_back" THEN Loses(Parm, save_stack[Parm]) ELSE lost)
        /\ UNCHANGED <<glob, save_stack, loc>>
    BY <1>8 DEF StopInTeardown, Stopping
  <2>2. \A q \in ParmNames : hand[q] # << >> => pc = "give_back" /\ q = Parm
    BY <1>a DEF HandInv
  <2>3. /\ lost \subseteq lost' /\ lost' \subseteq lost \cup {Parm}
        /\ pc # "give_back" => lost' = lost
        /\ pc = "give_back" /\ save_stack[Parm] = << >> => Parm \in lost'
    BY <2>1 DEF Loses
  <2>4. pc = "give_back" => Parm \in ParmNames
    BY <1>a, <1>c DEF HandInv
  <2>5. ParmTypeOK'
    BY <1>a, <2>1, <2>3, <2>4, NothingTypes DEF ParmTypeOK
  <2>6. HandInv'
    BY <2>1, NothingTypes DEF HandInv
  <2>7. \A q \in ParmNames \ lost' : OldestOf(q)' = OldestOf(q)
    BY <2>1, <2>2, <2>3, NothingTypes DEF OldestOf, Oldest
  <2> QED
    BY <1>a, <2>3, <2>5, <2>6, <2>7 DEF GlobInv, GlobalsKept
<1> QED
  BY <1>1, <1>2, <1>3, <1>4, <1>5, <1>6, <1>7, <1>8, GlobStep DEF GlobSteps

\* The user's own globals are lost in no other way than by a stop which meets
\* the teardown between save_stack.pop and the setting of the global, whatever
\* fails and whenever the program is stopped.
THEOREM GlobalsAreKept == Spec => []GlobalsKept
<1>1. GlobInv => GlobalsKept
  BY DEF GlobInv
<1> QED
  BY <1>1, GlobInvInit, GlobInvNext, PTL DEF Spec

-----------------------------------------------------------------------------
(* Type correctness *)

\* In the main function there is a results object, and while a boot runs there
\* is a boot.
MainHasResults == InMain => results \in Totals
RunningHasBoot == Running => next_boot \in Boots

\* The types of everything but the globals.
RunTypeOK == FileTypeOK /\ FlowTypeOK

\* The types, and what they need to be inductive.
TypeInv == RunTypeOK /\ MainHasResults /\ RunningHasBoot

\* The module's initial globals have their types.
LEMMA TypeInvInit == Init => TypeInv
<1> SUFFICES ASSUME Init PROVE TypeInv
  OBVIOUS
<1>1. DefaultState \in MachineStates
  BY DEF MachineStates
<1>3. RunTypeOK
  BY <1>1, NothingTypes, BootAssumption, EmptySeq DEF Init, RunTypeOK, FileTypeOK, FlowTypeOK, AllPcs
<1>4. MainHasResults /\ RunningHasBoot
  BY DEF Init, MainHasResults, RunningHasBoot, InMain, Running, LoopPcs, RunBootPcs,
         WaitPcs
<1> QED
  BY <1>3, <1>4 DEF TypeInv

\* What select_boot computes from a stack of boots: boots, stacks and positions.
LEMMA StackTypes ==
  ASSUME RunTypeOK
  PROVE  /\ Remaining \in Seq(Boots)
         /\ \A s : Remaining # << >> =>
              /\ Popped(Remaining, s) \in Boots \cup {NoBoot}
              /\ Rest(Remaining) \in Seq(Boots)
              /\ Skipped(Remaining, s) \subseteq Nat
         /\ \A s, b : Candidates(s, b) \subseteq Boots
<1>1. Remaining \in Seq(Boots)
  BY PopProps DEF RunTypeOK, FileTypeOK, FlowTypeOK, Remaining
<1>2. ASSUME NEW stk \in Seq(Boots), stk # << >>, NEW s
      PROVE  /\ Popped(stk, s) \in Boots \cup {NoBoot}
             /\ Rest(stk) \in Seq(Boots)
             /\ Skipped(stk, s) \subseteq Nat
  <2>1. stk[1] \in Boots
    BY <1>2, EmptySeq, ElementOfSeq
  <2>2. Top(stk) \in Boots /\ Pop(stk) \in Seq(Boots) /\ << >> \in Seq(Boots)
    BY <1>2, PopProps, EmptySeq
  <2> QED
    BY <2>1, <2>2, LenProperties DEF Popped, Rest, Skipped
<1>3. \A s, b : Candidates(s, b) \subseteq Boots
  BY BootAssumption DEF Candidates, ListCandidates, DefaultCandidate
<1> QED
  BY <1>1, <1>2, <1>3

\* A new process begins with the module's initial globals.
LEMMA FreshTypes ==
  ASSUME TypeInv, FreshProcess, calls' \in Nat, signals' \in Nat, cut' \in BOOLEAN
  PROVE  TypeInv'
<1>1. DefaultState \in MachineStates
  BY DEF MachineStates
<1>3. RunTypeOK'
  BY <1>1, NothingTypes, BootAssumption, EmptySeq DEF FreshProcess, TypeInv, RunTypeOK, FileTypeOK,
      FlowTypeOK, AllPcs
<1>4. (MainHasResults /\ RunningHasBoot)'
  BY DEF FreshProcess, MainHasResults, RunningHasBoot, InMain, Running, LoopPcs,
         RunBootPcs, WaitPcs
<1> QED
  BY <1>3, <1>4 DEF TypeInv

\* The steps of select_boot.
LEMMA SelectTypes ==
  ASSUME TypeInv, AtSelect,
         boot_stack' \in Seq(Boots), skipPos' \subseteq Nat,
         state' \in MachineStates, UNCHANGED <<stack_mode, requested, verdict>>,
         transitional_boot_selected' \in BOOLEAN, boot_count' \in Nat,
         \/ next_boot' = NoBoot /\ pc' = "loop"
         \/ next_boot' \in Boots /\ pc' = "begin"
  PROVE  TypeInv'
PROOF
  BY DEF AtSelect, TypeInv, RunTypeOK, FileTypeOK, FlowTypeOK, MainHasResults, RunningHasBoot, InMain,
      Running,
         AllPcs, LoopPcs, RunBootPcs, WaitPcs, TeardownPcs, Totals,
         callVars, loopVars, bootVars, resVars, fileVars, sigVars

\* Every step keeps the types.
LEMMA TypeInvNext == TypeInv /\ GlobInv /\ [Next]_vars => TypeInv'
<1> SUFFICES ASSUME TypeInv, GlobInv, [Next]_vars PROVE TypeInv'
  OBVIOUS
<1>a. glob.boot_stack \in Seq(Boots) /\ glob.stack_mode \in {"normal", "skip"}
  BY DEF GlobInv, ParmTypeOK
<1> USE DEF TypeInv, RunTypeOK, FileTypeOK, FlowTypeOK, MainHasResults, RunningHasBoot, InMain, Running,
    AllPcs,
            LoopPcs, RunBootPcs, WaitPcs, ParmPcs, TeardownPcs, Totals,
            callVars, stackVars, loopVars, pickVars, bootVars, resVars, fileVars, sigVars
<1>1. CASE UNCHANGED vars
  BY <1>1 DEF vars
<1>2. CASE Call
  <2>1. ffdc_only' \in BOOLEAN
    BY <1>2, BootAssumption DEF Call, obmc_boot_test_py
  <2>2. PICK s, m : obmc_boot_test_py(s, m)
    BY <1>2 DEF Call
  <2> QED
    <3>1. /\ pc' = "save_parm" /\ verdict' = "none" /\ calls' = calls + 1
          /\ UNCHANGED <<waiting, stackVars, loopVars, pickVars, bootVars, resVars, fileVars, sigVars>>
      BY <2>2 DEF obmc_boot_test_py
    <3>2. pc' \in AllPcs /\ ~InMain' /\ ~Running'
      BY <3>1
    <3> HIDE DEF AllPcs, LoopPcs, RunBootPcs, WaitPcs, ParmPcs, TeardownPcs, InMain, Running, Totals
    <3> QED
      BY ONLY TypeInv, <2>1, <3>1, <3>2
      DEF TypeInv, RunTypeOK, FileTypeOK, FlowTypeOK, MainHasResults, RunningHasBoot, stackVars, loopVars,
          pickVars, bootVars, resVars,
          fileVars, sigVars
<1>3. CASE SkipParm \/ SaveParm \/ SetParm \/ ParmsDone
  <2>1. /\ pc' \in {"save_parm", "set_parm", "setup"}
        /\ UNCHANGED <<ffdc_only, calls, waiting, verdict, stackVars, loopVars, pickVars, bootVars, resVars,
                       sigVars>>
    BY <1>3 DEF SkipParm, SaveParm, SetParm, ParmsDone, InParms
  <2>2. pc' \in AllPcs /\ ~InMain' /\ ~Running'
    BY <2>1
  <2> HIDE DEF AllPcs, LoopPcs, RunBootPcs, WaitPcs, ParmPcs, TeardownPcs, InMain, Running, Totals
  <2>3. FileTypeOK'
    BY ONLY TypeInv, <2>1 DEF TypeInv, RunTypeOK, FileTypeOK, resVars, fileVars
  <2>4. FlowTypeOK'
    BY ONLY TypeInv, <2>1, <2>2
    DEF TypeInv, RunTypeOK, FlowTypeOK, stackVars, loopVars, pickVars, bootVars, sigVars
  <2> QED
    BY ONLY <2>2, <2>3, <2>4 DEF TypeInv, RunTypeOK, MainHasResults, RunningHasBoot
<1>4. CASE SignalKills
  <2>1. FreshProcess /\ calls' \in Nat /\ signals' \in Nat /\ cut' \in BOOLEAN
    BY <1>4 DEF SignalKills, Signal
  <2> HIDE DEF TypeInv
  <2> QED
    BY ONLY TypeInv, <2>1, FreshTypes
<1>5. CASE NewProcess
  BY <1>5, FreshTypes DEF NewProcess
<1>6. CASE SetupLoginFails
  BY <1>6 DEF SetupLoginFails, Abort
<1>7. CASE setup
  <2>1. results' \in Totals /\ path_set' = TRUE
    BY <1>7, CountAssumption DEF setup, LoadResults
  <2>2. init_boot_fail' \in Nat
    BY <1>7, <2>1 DEF setup
  <2>3. SetupBegins /\ cp_setup_called' = TRUE /\ pc' \in {"ffdc", "first_purge",
      "loop"} /\ verdict' = verdict
    BY <1>7 DEF setup
  <2>4. RunTypeOK'
    <3>1. pc' \in AllPcs
      BY ONLY <2>3 DEF AllPcs, LoopPcs
    <3>2. cp_setup_called' \in BOOLEAN /\ verdict' = verdict /\ SetupBegins
      BY ONLY <2>3
    <3> HIDE DEF AllPcs, LoopPcs, RunBootPcs, TeardownPcs, Totals
    <3>3. results' \in Totals \cup {NoResults} /\ path_set' \in BOOLEAN
      BY <2>1
    <3>4. FileTypeOK'
      BY ONLY FileTypeOK, <2>2, <3>2, <3>3 DEF SetupBegins, FileTypeOK
    <3>5. FlowTypeOK'
      BY ONLY FlowTypeOK, <1>a, <3>1, <3>2 DEF SetupBegins, FlowTypeOK, callVars
    <3> QED
      BY <3>4, <3>5
  <2>5. MainHasResults'
    BY ONLY <2>1 DEF MainHasResults
  <2>6. RunningHasBoot'
    BY ONLY <2>3 DEF RunningHasBoot, Running, RunBootPcs
  <2> QED
    BY <2>4, <2>5, <2>6
<1>8. CASE SetupFails
  <2>1. results' \in Totals \cup {NoResults} /\ path_set' \in BOOLEAN
    <3>1. \/ UNCHANGED <<results, path_set>>
          \/ (LoadResults \/ LoadFails) /\ path_set' = TRUE
      BY <1>8 DEF SetupFails
    <3>2. LoadResults => results' \in Totals
      BY CountAssumption DEF LoadResults
    <3>3. LoadFails => results' = results
      BY DEF LoadFails
    <3>4. results \in Totals \cup {NoResults} /\ path_set \in BOOLEAN
      OBVIOUS
    <3> HIDE DEF TypeInv, RunTypeOK, FileTypeOK, FlowTypeOK
    <3> QED
      BY ONLY <3>1, <3>2, <3>3, <3>4
  <2>2. SetupBegins /\ UNCHANGED <<init_boot_fail, cp_setup_called>> /\ pc' = "cleanup" /\ verdict' = "FAIL"
    BY <1>8 DEF SetupFails, Abort
  <2>3. RunTypeOK'
    <3>1. pc' \in AllPcs /\ verdict' \in {"none", "PASS", "FAIL"}
      BY ONLY <2>2 DEF AllPcs, TeardownPcs
    <3>2. UNCHANGED <<init_boot_fail, cp_setup_called>> /\ SetupBegins
      BY ONLY <2>2
    <3> HIDE DEF AllPcs, LoopPcs, RunBootPcs, TeardownPcs, Totals
    <3>3. results' \in Totals \cup {NoResults} /\ path_set' \in BOOLEAN
      BY <2>1
    <3>4. FileTypeOK'
      BY ONLY FileTypeOK, <3>2, <3>3 DEF SetupBegins, FileTypeOK
    <3>5. FlowTypeOK'
      BY ONLY FlowTypeOK, <1>a, <3>1, <3>2 DEF SetupBegins, FlowTypeOK, callVars
    <3> QED
      BY <3>4, <3>5
  <2>4. MainHasResults'
    BY ONLY <2>2 DEF MainHasResults, InMain, LoopPcs, RunBootPcs
  <2>5. RunningHasBoot'
    BY ONLY <2>2 DEF RunningHasBoot, Running, RunBootPcs
  <2> QED
    BY <2>3, <2>4, <2>5
<1>9. CASE StackLoop
  BY <1>9 DEF StackLoop
<1>10. CASE ListLoop
  BY <1>10 DEF ListLoop
<1>11. CASE Verdict
  BY <1>11 DEF Verdict
<1>12. CASE PopEmptyStack
  BY <1>12 DEF PopEmptyStack, AtSelect, Abort
<1>13. CASE GiveUpLastBoot
  BY <1>13, EmptySeq DEF GiveUpLastBoot, AtSelect
<1>14. CASE SelectInvalidState
  BY <1>14, StackTypes DEF SelectInvalidState, StateObtained, AtSelect, Abort
<1>15. CASE SelectNothing
  <2> PICK s \in MachineStates : SelectNothing!(s)
    BY <1>15 DEF SelectNothing
  <2>1. /\ Remaining \in Seq(Boots) /\ Remaining # << >>
        /\ Popped(Remaining, s) \in Boots \cup {NoBoot}
        /\ Rest(Remaining) \in Seq(Boots)
        /\ Skipped(Remaining, s) \subseteq Nat
    BY StackTypes DEF StateObtained
  <2>5. /\ boot_stack' \in Seq(Boots) /\ skipPos' \subseteq Nat
        /\ state' \in MachineStates
        /\ UNCHANGED <<stack_mode, requested, verdict>> /\ AtSelect
    BY <2>1 DEF StateObtained
  <2>6. next_boot' = NoBoot /\ boot_count' \in Nat /\ pc' = "loop"
    BY <2>1
  <2>7. transitional_boot_selected' \in BOOLEAN
    OBVIOUS
  <2> QED
    BY <2>5, <2>6, <2>7, SelectTypes
<1>16. CASE SelectFromStack
  <2> PICK s \in MachineStates : SelectFromStack!(s)
    BY <1>16 DEF SelectFromStack
  <2>1. /\ Remaining \in Seq(Boots) /\ Remaining # << >>
        /\ Popped(Remaining, s) \in Boots \cup {NoBoot}
        /\ Rest(Remaining) \in Seq(Boots)
        /\ Skipped(Remaining, s) \subseteq Nat
    BY StackTypes DEF StateObtained
  <2>5. /\ boot_stack' \in Seq(Boots) /\ skipPos' \subseteq Nat
        /\ state' \in MachineStates
        /\ UNCHANGED <<stack_mode, requested, verdict>> /\ AtSelect
    BY <2>1 DEF StateObtained, Begin
  <2>6. next_boot' \in Boots /\ boot_count' \in Nat /\ pc' = "begin"
    BY <2>1 DEF Begin
  <2>7. transitional_boot_selected' \in BOOLEAN
    OBVIOUS
  <2> QED
    BY <2>5, <2>6, <2>7, SelectTypes
<1>17. CASE SelectTransition
  <2> PICK s \in MachineStates : SelectTransition!(s)
    BY <1>17 DEF SelectTransition
  <2>1. /\ Remaining \in Seq(Boots) /\ Remaining # << >>
        /\ Popped(Remaining, s) \in Boots \cup {NoBoot}
        /\ Rest(Remaining) \in Seq(Boots)
        /\ Skipped(Remaining, s) \subseteq Nat
    BY StackTypes DEF StateObtained
  <2>2. Push(Rest(Remaining), Popped(Remaining, s)) \in Seq(Boots)
    BY <2>1, PushProps
  <2>3. PICK b \in Boots : Begin(b)
    BY StackTypes
  <2>5. /\ boot_stack' \in Seq(Boots) /\ skipPos' \subseteq Nat
        /\ state' \in MachineStates
        /\ UNCHANGED <<stack_mode, requested, verdict>> /\ AtSelect
    BY <2>1, <2>2, <2>3 DEF StateObtained, Begin
  <2>6. next_boot' \in Boots /\ boot_count' \in Nat /\ pc' = "begin"
    BY <2>3 DEF Begin
  <2>7. transitional_boot_selected' \in BOOLEAN
    OBVIOUS
  <2> QED
    BY <2>5, <2>6, <2>7, SelectTypes
<1>18. CASE SelectFromList
  <2> PICK s \in MachineStates : SelectFromList!(s)
    BY <1>18 DEF SelectFromList
  <2>1. PICK b \in Boots : Begin(b)
    BY StackTypes
  <2>5. /\ boot_stack' \in Seq(Boots) /\ skipPos' \subseteq Nat
        /\ state' \in MachineStates
        /\ UNCHANGED <<stack_mode, requested, verdict>> /\ AtSelect
    BY <2>1 DEF StateObtained, Begin
  <2>6. next_boot' \in Boots /\ boot_count' \in Nat /\ pc' = "begin"
    BY <2>1 DEF Begin
  <2>7. transitional_boot_selected' \in BOOLEAN
    OBVIOUS
  <2> QED
    BY <2>5, <2>6, <2>7, SelectTypes
<1>19. CASE TestTimeout
  BY <1>19 DEF TestTimeout, Abort
<1>20. CASE ArmStop
  BY <1>20 DEF ArmStop, InRunBoot
<1>21. CASE PlugInFails
  BY <1>21 DEF PlugInFails, InRunBoot, EndBoot
<1>22. CASE PreBoot
  <2>1. state' \in MachineStates
    BY <1>22 DEF PreBoot, InRunBoot, MachineStates
  <2>2. pc' \in {"post_boot", "method"}
    BY <1>22 DEF PreBoot, InRunBoot
  <2>3. UNCHANGED <<next_boot, results>> /\ pc = "pre_boot"
    BY <1>22 DEF PreBoot, InRunBoot
  <2> QED
    BY <1>22, <2>1, <2>2, <2>3 DEF PreBoot, InRunBoot
<1>23. CASE Method
  BY <1>23 DEF Method, InRunBoot, EndBoot
<1>24. CASE PostReboot
  BY <1>24 DEF PostReboot, InRunBoot
<1>25. CASE PostBoot
  BY <1>25 DEF PostBoot, InRunBoot, EndBoot
<1>26. CASE check_state
  BY <1>26 DEF check_state, AtWait, InRunBoot
<1>27. CASE WaitTimeout
  BY <1>27 DEF WaitTimeout, AtWait, InRunBoot, EndBoot
<1>28. CASE WaitLeave
  BY <1>28 DEF WaitLeave, AtWait, InRunBoot, EndBoot
<1>29. CASE WaitReturn
  BY <1>29 DEF WaitReturn, AtWait, InRunBoot, AfterWait
<1>30. CASE BootDone
  <2>1. results' \in Totals
    BY <1>30 DEF BootDone, update
  <2>2. Position \in Nat
    BY LenProperties DEF Position
  <2>3. okPos' \subseteq Nat /\ fails' \in Nat
    BY <1>30, <2>2 DEF BootDone
  <2> QED
    BY <1>30, <2>1, <2>3 DEF BootDone
<1>31. CASE PostTestCase
  BY <1>31 DEF PostTestCase, After
<1>32. CASE FfdcCheck
  <2>1. CASE After("ffdc_check", "ffdc")
    BY <2>1 DEF After
  <2>2. CASE After("ffdc_check", AfterFfdc)
    BY <2>2 DEF After, AfterFfdc
  <2> QED
    BY <1>32, <2>1, <2>2 DEF FfdcCheck
<1>33. CASE my_ffdc
  BY <1>33 DEF my_ffdc, AfterFfdc
<1>34. CASE Purge
  <2>1. CASE After("purge", "stop_check")
    BY <2>1 DEF After
  <2>2. CASE After("first_purge", "loop")
    BY <2>2 DEF After
  <2>3. CASE LogsUnread
    BY <2>3 DEF LogsUnread, Abort
  <2> QED
    BY <1>34, <2>1, <2>2, <2>3 DEF Purge
<1>35. CASE StopCheck
  BY <1>35 DEF StopCheck, Abort
<1>36. CASE post_stack
  BY <1>36 DEF post_stack
<1>37. CASE Cleanup
  BY <1>37 DEF Cleanup, After
<1>38. CASE NoSave \/ OpenResults \/ NotSaved \/ PopParm \/ GiveBack \/ CallOver
  <2>1. /\ InTeardown("save") \/ InTeardown("restore") \/ InTeardown("give_back")
        /\ pc' \in TeardownPcs \cup {"idle"} /\ saved' \in {saved, Torn} /\ UNCHANGED <<kept, cut>>
    BY <1>38 DEF NoSave, OpenResults, NotSaved, PopParm, GiveBack, CallOver, InTeardown, ToRestore
  <2> QED
    <3>2. pc' \in AllPcs /\ ~InMain' /\ ~Running'
      BY <2>1
    <3> HIDE DEF AllPcs, LoopPcs, RunBootPcs, WaitPcs, ParmPcs, TeardownPcs, InMain, Running, Totals
    <3>3. FileTypeOK'
      BY ONLY TypeInv, <2>1 DEF TypeInv, RunTypeOK, FileTypeOK, InTeardown
    <3>5. UNCHANGED <<waiting, verdict, ffdc_only, calls, stackVars, loopVars, pickVars, bootVars, sigVars>>
      BY ONLY <2>1 DEF InTeardown
    <3>4. FlowTypeOK'
      BY ONLY TypeInv, <3>2, <3>5
      DEF TypeInv, RunTypeOK, FlowTypeOK, stackVars, loopVars, pickVars, bootVars, sigVars
    <3> QED
      BY ONLY <3>2, <3>3, <3>4 DEF TypeInv, RunTypeOK, MainHasResults, RunningHasBoot
<1>45. CASE DumpResults
  <2>1. /\ InTeardown("dump") /\ pc' = "restore"
        /\ saved' \in {saved, results} /\ kept' \in {kept, results} /\ cut' \in BOOLEAN
    BY <1>45 DEF DumpResults, ToRestore
  <2>2. pc' \in AllPcs /\ ~InMain' /\ ~Running'
    BY <2>1
  <2> HIDE DEF AllPcs, LoopPcs, RunBootPcs, WaitPcs, ParmPcs, TeardownPcs, InMain, Running, Totals
  <2> QED
    BY ONLY TypeInv, <2>1, <2>2
    DEF InTeardown, TypeInv, RunTypeOK, FileTypeOK, FlowTypeOK, MainHasResults, RunningHasBoot, stackVars,
        loopVars, pickVars, bootVars,
        sigVars
<1>46. CASE StopCaught
  BY <1>46 DEF StopCaught, Stopping, StopOnly, Signal
<1>47. CASE StopInPop
  BY <1>47 DEF StopInPop, Stopping, Signal
<1>48. CASE StopInTeardown
  BY <1>48 DEF StopInTeardown, Stopping, Signal
<1>39. CASE default_sigusr1
  BY <1>39 DEF default_sigusr1, Signal
<1>40. CASE StopInWait
  BY <1>40 DEF StopInWait, Stopping, StopOnly, Signal
<1>41. CASE StopInBoot
  BY <1>41 DEF StopInBoot, Stopping, StopOnly, Signal, EndBoot
<1>42. CASE StopInFfdc
  BY <1>42 DEF StopInFfdc, Stopping, StopOnly, Signal, AfterFfdc
<1>43. CASE StopEndsCall
  BY <1>43 DEF StopEndsCall, Stopping, StopOnly, Signal, Abort
<1>44. CASE Finished
  BY <1>44 DEF Finished, vars
<1> HIDE DEF TypeInv, RunTypeOK, FileTypeOK, FlowTypeOK, MainHasResults, RunningHasBoot, InMain, Running,
    AllPcs,
            LoopPcs, RunBootPcs, WaitPcs, ParmPcs, TeardownPcs, Totals,
            callVars, stackVars, loopVars, pickVars, bootVars, resVars, fileVars, sigVars
<1> QED
  BY <1>1, <1>2, <1>3, <1>4, <1>5, <1>6, <1>7, <1>8, <1>9, <1>10, <1>11, <1>12, <1>13, <1>14, <1>15, <1>16,
      <1>17, <1>18, <1>19, <1>20, <1>21, <1>22, <1>23, <1>24, <1>25, <1>26, <1>27, <1>28, <1>29, <1>30,
      <1>31, <1>32, <1>33, <1>34, <1>35, <1>36, <1>37, <1>38, <1>39, <1>40, <1>41, <1>42, <1>43, <1>44,
      <1>45, <1>46, <1>47, <1>48
  DEF Next, Program, Environment, select_boot, run_boot, test_loop_body, obmc_boot_test_teardown,
      stop_boot_test

\* Every variable keeps its type, through every failure and signal.
THEOREM TypeCorrect == Spec => []TypeOK
<1>1. GlobInv /\ TypeInv => TypeOK
  BY DEF GlobInv, TypeInv, RunTypeOK, TypeOK
<1> QED
  BY <1>1, TypeInvInit, TypeInvNext, GlobInvInit, GlobInvNext, PTL DEF Spec

-----------------------------------------------------------------------------
(* Failures are bounded, and a call that passes has done its stack *)

\* The main function is processing boot_stack.
InStackPhase == InMain /\ phase = "stack"

\* select_boot is only called in the stack loop when there is a stack.
SelectHasStack == (pc = "select" /\ phase = "stack") => boot_stack # << >>

\* The entry a running boot was taken from counts as spent, the one a
\* transitional boot makes way for does not.
RunningBound ==
  (InStackPhase /\ Running) =>
    /\ fails + Len(boot_stack) <= Len(requested)
    /\ ~transitional_boot_selected => fails + Len(boot_stack) + 1 <= Len(requested)

\* A failed transitional boot is made up for by the next select_boot.
RestingBound ==
  (InStackPhase /\ ~Running) =>
    /\ fails + Len(boot_stack) <= Len(requested) + 1
    /\ ~TransitionFailed => fails + Len(boot_stack) <= Len(requested)

FailInv == SelectHasStack /\ RunningBound /\ RestingBound

\* No verdict before the end of the main function.
VerdictLast == pc \in ParmPcs \cup {"setup"} \cup LoopPcs \cup RunBootPcs => verdict = "none"

\* With ffdc_only the main function does nothing but my_ffdc; the stack loop
\* comes before post_stack.
OnlyPhase ==
  InMain => /\ ffdc_only <=> phase = "only"
            /\ phase = "only" => pc = "ffdc"
            /\ pc = "post_stack" => phase = "stack"

\* The failures of this call are those the results have gained.
FailsCounted == InMain => results.fail = init_boot_fail + fails

\* After the stack loop the stack is empty.
StackSpent ==
  (InMain /\ (phase \in {"post", "list"} \/ pc \in {"post_stack", "verdict"}))
    => boot_stack = << >>

\* A failed transitional boot is one of the failures counted.
FailureSeen == (InStackPhase /\ ~Running /\ TransitionFailed) => fails > 0

\* In normal mode the stack is a prefix of what was requested ...
PrefixLeft ==
  (InMain /\ stack_mode = "normal") =>
    /\ Len(boot_stack) <= Len(requested)
    /\ \A i \in 1..Len(boot_stack) : boot_stack[i] = requested[i]

\* ... and what is gone from it has passed, is running or comes with a failure.
RestDone ==
  (InMain /\ stack_mode = "normal") =>
    \A i \in 1..Len(requested) :
      i > Len(boot_stack) =>
        \/ i \in okPos
        \/ fails > 0
        \/ /\ Running /\ phase = "stack" /\ ~transitional_boot_selected
           /\ i = Position /\ requested[i] = next_boot

\* All that is known of the stack between setup and verdict.
StackInv ==
  /\ SelectHasStack /\ VerdictLast /\ OnlyPhase /\ FailsCounted /\ StackSpent
  /\ FailureSeen /\ PrefixLeft /\ RestDone /\ NormalPassMeansStackDone

\* A step that leaves, or stays outside of, the main function.
Outside ==
  /\ pc' \notin ParmPcs \cup {"setup"} \cup LoopPcs \cup RunBootPcs
  /\ \/ verdict' # "PASS"
     \/ UNCHANGED <<verdict, ffdc_only, requested, okPos, skipPos, fails, stack_mode>>

\* A step within the main function that touches nothing the invariants are
\* about, and neither begins nor ends a boot.
Quiet ==
  /\ pc \in LoopPcs \cup RunBootPcs /\ pc' \in LoopPcs \cup RunBootPcs
  /\ pc' \in {"select", "post_stack", "verdict"} => pc' = pc
  /\ pc = "ffdc" => (phase # "only" \/ pc' = pc)
  /\ Running' <=> Running
  /\ UNCHANGED <<boot_stack, stack_mode, requested, okPos, skipPos, fails, ffdc_only,
                 init_boot_fail, results, phase, transitional_boot_selected,
                 next_boot, boot_success, verdict>>

\* A step of the signal or of nobody.
Still ==
  UNCHANGED <<pc, verdict, ffdc_only, boot_stack, stack_mode, requested, okPos, skipPos,
              fails, init_boot_fail, results, phase, transitional_boot_selected,
              next_boot, boot_success>>

\* A step before setup.
Begins == pc' \in ParmPcs \cup {"setup"} /\ verdict' = "none"

\* The steps told apart by what they do to the stack, the failures and the verdict.
Kinds ==
  \/ Still \/ Outside \/ Quiet \/ Begins \/ setup \/ StackLoop \/ ListLoop \/ Verdict
  \/ GiveUpLastBoot \/ SelectNothing \/ SelectFromStack \/ SelectTransition
  \/ SelectFromList \/ BootDone \/ my_ffdc \/ StopCheck \/ post_stack

\* Every step is of one of these kinds.
LEMMA StepKinds ==
  ASSUME TypeInv, VerdictLast, [Next]_vars
  PROVE  Kinds
<1> USE DEF Kinds, Still, Outside, Quiet, Begins, Running, TypeInv, RunTypeOK, FileTypeOK, FlowTypeOK,
    VerdictLast, AllPcs, LoopPcs,
            RunBootPcs, WaitPcs, ParmPcs, TeardownPcs,
            callVars, stackVars, loopVars, pickVars, bootVars, resVars, fileVars, sigVars
<1>1. CASE UNCHANGED vars \/ Finished
  BY <1>1 DEF vars, Finished
<1>2. CASE SetupLoginFails
  BY <1>2 DEF SetupLoginFails, Abort
<1>3. CASE SetupFails
  BY <1>3 DEF SetupFails, Abort
<1>4. CASE PopEmptyStack
  BY <1>4 DEF PopEmptyStack, Abort
<1>5. CASE SelectInvalidState
  BY <1>5 DEF SelectInvalidState, Abort
<1>6. CASE TestTimeout
  BY <1>6 DEF TestTimeout, Abort
<1>7. CASE ArmStop
  BY <1>7 DEF ArmStop, InRunBoot
<1>8. CASE PlugInFails
  BY <1>8 DEF PlugInFails, InRunBoot, EndBoot
<1>9. CASE PreBoot
  BY <1>9 DEF PreBoot, InRunBoot
<1>10. CASE Method
  BY <1>10 DEF Method, InRunBoot, EndBoot
<1>11. CASE PostReboot
  BY <1>11 DEF PostReboot, InRunBoot
<1>12. CASE PostBoot
  BY <1>12 DEF PostBoot, InRunBoot, EndBoot
<1>13. CASE check_state
  BY <1>13 DEF check_state, AtWait, InRunBoot
<1>14. CASE WaitTimeout
  BY <1>14 DEF WaitTimeout, AtWait, InRunBoot, EndBoot
<1>15. CASE WaitLeave
  BY <1>15 DEF WaitLeave, AtWait, InRunBoot, EndBoot
<1>16. CASE WaitReturn
  BY <1>16 DEF WaitReturn, AtWait, InRunBoot, AfterWait
<1>17. CASE PostTestCase
  BY <1>17 DEF PostTestCase, After
<1>18. CASE FfdcCheck
  BY <1>18 DEF FfdcCheck, After, AfterFfdc
<1>19. CASE Purge
  BY <1>19 DEF Purge, LogsUnread, After, Abort
<1>20. CASE Cleanup
  BY <1>20 DEF Cleanup, After
<1>21. CASE NoSave \/ OpenResults \/ DumpResults \/ NotSaved \/ PopParm \/ GiveBack \/ CallOver
  BY <1>21 DEF NoSave, OpenResults, DumpResults, NotSaved, PopParm, GiveBack, CallOver, InTeardown, ToRestore
<1>22. CASE Call \/ SkipParm \/ SaveParm \/ SetParm \/ ParmsDone
  BY <1>22 DEF Call, obmc_boot_test_py, SkipParm, SaveParm, SetParm, ParmsDone, InParms
<1>23. CASE default_sigusr1
  BY <1>23 DEF default_sigusr1
<1>24. CASE StopInWait
  BY <1>24 DEF StopInWait, Stopping
<1>25. CASE StopInBoot
  BY <1>25 DEF StopInBoot, Stopping, EndBoot
<1>26. CASE StopInFfdc
  BY <1>26 DEF StopInFfdc, Stopping, AfterFfdc
<1>27. CASE StopEndsCall
  BY <1>27 DEF StopEndsCall, Stopping, Abort
<1>30. CASE StopCaught
  BY <1>30 DEF StopCaught, Stopping
<1>31. CASE StopInPop \/ StopInTeardown
  BY <1>31 DEF StopInPop, StopInTeardown, Stopping
<1>28. CASE SignalKills
  BY <1>28 DEF SignalKills, FreshProcess
<1>29. CASE NewProcess
  BY <1>29 DEF NewProcess, FreshProcess
<1> HIDE DEF Still, Outside, Quiet, Begins, Running, TypeInv, RunTypeOK, FileTypeOK, FlowTypeOK,
    VerdictLast, AllPcs, LoopPcs, RunBootPcs,
             WaitPcs, ParmPcs, TeardownPcs,
             callVars, stackVars, loopVars, pickVars, bootVars, resVars, fileVars, sigVars
<1> QED
  BY <1>1, <1>2, <1>3, <1>4, <1>5, <1>6, <1>7, <1>8, <1>9, <1>10, <1>11, <1>12,
     <1>13, <1>14, <1>15, <1>16, <1>17, <1>18, <1>19, <1>20, <1>21, <1>22,
     <1>23, <1>24, <1>25, <1>26, <1>27, <1>28, <1>29, <1>30, <1>31
  DEF Next, Program, Environment, select_boot, run_boot, test_loop_body,
      obmc_boot_test_teardown, stop_boot_test

\* What select_boot does to the length of the stack.
LEMMA SelectLengths ==
  ASSUME RunTypeOK, TransitionFailed => Remaining # << >>
  PROVE  /\ TransitionFailed => Len(Remaining) = Len(boot_stack) - 1
         /\ ~TransitionFailed => Remaining = boot_stack
         /\ Remaining # << >> => /\ Len(Rest(Remaining)) + 1 <= Len(Remaining)
                                 /\ Rest(Remaining) \in Seq(Boots)
         /\ Len(boot_stack) \in Nat /\ Len(Remaining) \in Nat /\ Len(requested) \in Nat
<1>1. boot_stack \in Seq(Boots) /\ requested \in Seq(Boots) /\ Remaining \in Seq(Boots)
  BY StackTypes DEF RunTypeOK, FileTypeOK, FlowTypeOK
<1>2. Len(boot_stack) \in Nat /\ Len(Remaining) \in Nat /\ Len(requested) \in Nat
  BY <1>1, LenProperties
<1>3. ~TransitionFailed => Remaining = boot_stack
  BY DEF Remaining
<1>4. TransitionFailed => Len(Remaining) = Len(boot_stack) - 1
  BY <1>1, PopProps DEF Remaining
<1>5. Remaining # << >> => Len(Rest(Remaining)) + 1 <= Len(Remaining)
  <2>1. Remaining # << >> => Len(Remaining) \in Nat \ {0}
    BY <1>1, EmptySeq
  <2>2. Remaining # << >> => Len(Pop(Remaining)) = Len(Remaining) - 1
    BY <1>1, PopProps
  <2>3. Len(<< >>) = 0
    BY EmptySeq
  <2> QED
    BY <2>1, <2>2, <2>3 DEF Rest
<1> QED
  BY <1>2, <1>3, <1>4, <1>5, StackTypes

\* What is known once the state has been obtained in the stack loop.
LEMMA SelectBound ==
  ASSUME TypeInv, FailInv, NEW s, StateObtained(s), phase = "stack"
  PROVE  fails + Len(Remaining) <= Len(requested) /\ Remaining # << >>
<1>1. RunTypeOK /\ (TransitionFailed => Remaining # << >>) /\ fails \in Nat
  BY DEF TypeInv, RunTypeOK, FileTypeOK, FlowTypeOK, StateObtained
<1>2. /\ boot_stack # << >>
      /\ fails + Len(boot_stack) <= Len(requested) + 1
      /\ ~TransitionFailed => fails + Len(boot_stack) <= Len(requested)
  BY DEF FailInv, SelectHasStack, RestingBound, InStackPhase, InMain, Running,
         LoopPcs, RunBootPcs, WaitPcs, StateObtained, AtSelect
<1>3. CASE TransitionFailed
  BY <1>1, <1>2, <1>3, SelectLengths
<1>4. CASE ~TransitionFailed
  BY <1>1, <1>2, <1>4, SelectLengths
<1> QED
  BY <1>3, <1>4

\* No step breaks the balance of failures and stack entries.
LEMMA FailInvNext ==
  TypeInv /\ TypeInv' /\ VerdictLast /\ FailInv /\ [Next]_vars => FailInv'
<1> SUFFICES ASSUME TypeInv, TypeInv', VerdictLast, FailInv, [Next]_vars PROVE FailInv'
  OBVIOUS
<1>a. /\ Len(boot_stack) \in Nat /\ Len(requested) \in Nat /\ fails \in Nat
      /\ Len(boot_stack') \in Nat /\ Len(requested') \in Nat /\ fails' \in Nat
  BY LenProperties DEF TypeInv, RunTypeOK, FileTypeOK, FlowTypeOK
<1> USE DEF FailInv, SelectHasStack, RunningBound, RestingBound, InStackPhase, InMain,
            Running, TransitionFailed, LoopPcs, RunBootPcs, WaitPcs
<1>1. CASE Still \/ Quiet \/ Outside
  BY <1>1 DEF Still, Quiet, Outside
<1>2. CASE Begins
  BY <1>2 DEF Begins, ParmPcs
<1>3. CASE setup
  BY <1>3, <1>a DEF setup, SetupBegins
<1>4. CASE StackLoop
  BY <1>4, <1>a DEF StackLoop, stackVars, loopVars, pickVars, bootVars
<1>5. CASE ListLoop \/ Verdict
  BY <1>5, <1>a DEF ListLoop, Verdict, Abort, loopVars
<1>6. CASE BootDone
  <2>1. /\ pc = "boot_done" /\ pc' = "post_test_case" /\ phase' = phase
        /\ boot_stack' = boot_stack /\ requested' = requested
        /\ transitional_boot_selected' = transitional_boot_selected
    BY <1>6 DEF BootDone, stackVars, loopVars, pickVars
  <2>2. CASE boot_status = "PASS"
    <3>1. fails' = fails /\ boot_success'
      BY <1>6, <2>2 DEF BootDone
    <3> QED
      BY <1>a, <2>1, <3>1
  <2>3. CASE boot_status # "PASS"
    <3>1. fails' = fails + 1 /\ ~boot_success'
      BY <1>6, <2>3 DEF BootDone
    <3> QED
      BY <1>a, <2>1, <3>1
  <2> QED
    BY <2>2, <2>3
<1>7. CASE my_ffdc
  BY <1>7, <1>a DEF my_ffdc, AfterFfdc, stackVars, loopVars, bootVars
<1>8. CASE StopCheck
  BY <1>8, <1>a DEF StopCheck, Abort, stackVars, pickVars, bootVars
<1>9. CASE post_stack
  BY <1>9, <1>a DEF post_stack
<1>10. CASE GiveUpLastBoot
  <2>1. Len(boot_stack') = 0 /\ Len(boot_stack) >= 1
    BY <1>10, EmptySeq DEF GiveUpLastBoot, TypeInv, RunTypeOK, FileTypeOK, FlowTypeOK
  <2> QED
    BY <1>10, <1>a, <2>1 DEF GiveUpLastBoot, AtSelect, loopVars, bootVars
<1>b. RunTypeOK
  BY DEF TypeInv
<1>11. CASE SelectNothing
  <2> PICK s \in MachineStates : SelectNothing!(s)
    BY <1>11 DEF SelectNothing
  <2>1. phase' = phase /\ fails' = fails /\ requested' = requested /\ pc' = "loop"
    BY DEF StateObtained, AtSelect, loopVars, bootVars
  <2>2. phase = "stack" => fails + Len(boot_stack') <= Len(requested)
    BY <1>a, <1>b, SelectBound, SelectLengths
  <2> QED
    BY <1>a, <2>1, <2>2
<1>12. CASE SelectFromStack
  <2> PICK s \in MachineStates : SelectFromStack!(s)
    BY <1>12 DEF SelectFromStack
  <2>1. phase' = phase /\ fails' = fails /\ requested' = requested /\ pc' = "begin"
    BY DEF StateObtained, AtSelect, Begin, loopVars, bootVars
  <2>2. phase = "stack" => fails + Len(boot_stack') + 1 <= Len(requested)
    BY <1>a, <1>b, SelectBound, SelectLengths
  <2> QED
    BY <1>a, <2>1, <2>2
<1>13. CASE SelectTransition
  <2> PICK s \in MachineStates : SelectTransition!(s)
    BY <1>13 DEF SelectTransition
  <2>1. phase' = phase /\ fails' = fails /\ requested' = requested /\ pc' = "begin"
    BY DEF StateObtained, AtSelect, Begin, loopVars, bootVars
  <2>2. Len(boot_stack') = Len(Rest(Remaining)) + 1
    <3>1. Rest(Remaining) \in Seq(Boots) /\ Popped(Remaining, s) \in Boots
      BY <1>b, StackTypes
    <3> QED
      BY <3>1, PushProps
  <2>3. phase = "stack" => fails + Len(boot_stack') <= Len(requested)
    BY <1>a, <1>b, <2>2, SelectBound, SelectLengths
  <2>4. transitional_boot_selected'
    OBVIOUS
  <2> QED
    BY <1>a, <2>1, <2>3, <2>4
<1>14. CASE SelectFromList
  <2> PICK s \in MachineStates : SelectFromList!(s)
    BY <1>14 DEF SelectFromList
  <2>1. phase # "stack"
    BY SelectBound
  <2> QED
    BY <2>1 DEF StateObtained, AtSelect, loopVars
<1> HIDE DEF FailInv
<1> QED
  BY <1>1, <1>2, <1>3, <1>4, <1>5, <1>6, <1>7, <1>8, <1>9, <1>10, <1>11, <1>12, <1>13,
     <1>14, StepKinds DEF Kinds

-----------------------------------------------------------------------------
(* The stack is done *)

\* Before the first call there is nothing to account for.
LEMMA StackInvInit == Init => StackInv /\ FailInv
PROOF
  BY DEF Init, StackInv, FailInv, SelectHasStack, RunningBound, RestingBound, InStackPhase,
         VerdictLast, OnlyPhase, FailsCounted, StackSpent, FailureSeen, PrefixLeft, RestDone,
         NormalPassMeansStackDone, PassMeansStackDone, InMain, Running, LoopPcs,
         RunBootPcs, WaitPcs, ParmPcs

\* The parts of the invariant that do not look into the stack.
FlowInv ==
  VerdictLast /\ OnlyPhase /\ FailsCounted /\ StackSpent /\ FailureSeen

\* Verdict, phase, counted failures and the spent stack stay in step.
LEMMA FlowInvNext ==
  TypeInv /\ TypeInv' /\ FailInv /\ FlowInv /\ [Next]_vars => FlowInv'
<1> SUFFICES ASSUME TypeInv, TypeInv', FailInv, FlowInv, [Next]_vars PROVE FlowInv'
  OBVIOUS
<1>a. VerdictLast
  BY DEF FlowInv
<1>b. boot_stack = << >> => Remaining = << >>
  BY PopProps, EmptySeq DEF Remaining
<1> USE DEF FlowInv, VerdictLast, OnlyPhase, FailsCounted, StackSpent, FailureSeen,
            InStackPhase, InMain, Running, TransitionFailed, LoopPcs, RunBootPcs, WaitPcs, ParmPcs
<1>1. CASE Still \/ Quiet \/ Outside
  BY <1>1 DEF Still, Quiet, Outside
<1>2. CASE Begins
  BY <1>2 DEF Begins, ParmPcs
<1>3. CASE setup
  BY <1>3 DEF setup, SetupBegins, callVars, TypeInv, RunTypeOK, FileTypeOK, FlowTypeOK
<1>4. CASE StackLoop
  BY <1>4 DEF StackLoop, stackVars, loopVars, pickVars, bootVars, resVars, callVars
<1>5. CASE ListLoop
  BY <1>5 DEF ListLoop, stackVars, pickVars, bootVars, resVars, callVars
<1>6. CASE Verdict
  BY <1>6 DEF Verdict, Abort
<1>7. CASE BootDone
  BY <1>7 DEF BootDone, update, stackVars, loopVars, pickVars, callVars, TypeInv, RunTypeOK, FileTypeOK,
      FlowTypeOK,
              MainHasResults, Totals
<1>8. CASE my_ffdc
  BY <1>8 DEF my_ffdc, AfterFfdc, stackVars, loopVars, bootVars, resVars, callVars
<1>9. CASE StopCheck
  BY <1>9 DEF StopCheck, Abort, stackVars, pickVars, bootVars, resVars, callVars
<1>10. CASE post_stack
  BY <1>10 DEF post_stack, stackVars, pickVars, resVars, callVars
<1>11. CASE GiveUpLastBoot
  BY <1>11 DEF GiveUpLastBoot, AtSelect, loopVars, bootVars, resVars, callVars
<1>12. CASE SelectNothing
  <2> PICK s \in MachineStates : SelectNothing!(s)
    BY <1>12 DEF SelectNothing
  <2> QED
    BY <1>b DEF StateObtained, AtSelect, loopVars, bootVars, resVars, callVars
<1>13. CASE SelectFromStack
  <2> PICK s \in MachineStates : SelectFromStack!(s)
    BY <1>13 DEF SelectFromStack
  <2> QED
    BY <1>b DEF StateObtained, AtSelect, Begin, loopVars, bootVars, resVars, callVars
<1>14. CASE SelectTransition
  <2> PICK s \in MachineStates : SelectTransition!(s)
    BY <1>14 DEF SelectTransition
  <2> QED
    BY <1>b DEF StateObtained, AtSelect, Begin, loopVars, bootVars, resVars, callVars
<1>15. CASE SelectFromList
  <2> PICK s \in MachineStates : SelectFromList!(s)
    BY <1>15 DEF SelectFromList
  <2> QED
    BY <1>b DEF StateObtained, AtSelect, Begin, loopVars, bootVars, resVars, callVars
<1> HIDE DEF FlowInv
<1> QED
  BY <1>a, <1>1, <1>2, <1>3, <1>4, <1>5, <1>6, <1>7, <1>8, <1>9, <1>10, <1>11, <1>12, <1>13,
     <1>14, <1>15,      StepKinds DEF Kinds

\* In normal mode select_boot works on a prefix of what was requested.
LEMMA SelectPrefix ==
  ASSUME TypeInv, PrefixLeft, InMain, stack_mode = "normal"
  PROVE  /\ Len(Remaining) <= Len(boot_stack) /\ Len(Remaining) <= Len(requested)
         /\ \A i \in 1..Len(Remaining) : Remaining[i] = requested[i]
<1>1. boot_stack \in Seq(Boots) /\ Len(boot_stack) \in Nat /\ Len(requested) \in Nat
  BY LenProperties DEF TypeInv, RunTypeOK, FileTypeOK, FlowTypeOK
<1>2. /\ Len(boot_stack) <= Len(requested)
      /\ \A i \in 1..Len(boot_stack) : boot_stack[i] = requested[i]
  BY DEF PrefixLeft
<1>3. CASE ~TransitionFailed \/ boot_stack = << >>
  <2>1. Remaining = boot_stack
    BY <1>1, <1>3, PopProps DEF Remaining
  <2> QED
    BY <1>1, <1>2, <2>1
<1>4. CASE TransitionFailed /\ boot_stack # << >>
  <2>1. /\ Len(Remaining) = Len(boot_stack) - 1
        /\ \A i \in 1..Len(boot_stack) - 1 : Remaining[i] = boot_stack[i]
    BY <1>1, <1>4, PopProps DEF Remaining
  <2> QED
    BY <1>1, <1>2, <2>1
<1> QED
  BY <1>3, <1>4

\* The boot taken from the stack, and what is left, in normal mode.
LEMMA SelectPopped ==
  ASSUME TypeInv, PrefixLeft, InMain, stack_mode = "normal", Remaining # << >>, NEW s
  PROVE  /\ Len(Rest(Remaining)) = Len(Remaining) - 1
         /\ Rest(Remaining) \in Seq(Boots)
         /\ \A i \in 1..Len(Remaining) - 1 : Rest(Remaining)[i] = requested[i]
         /\ Popped(Remaining, s) = requested[Len(Remaining)]
         /\ Popped(Remaining, s) \in Boots
         /\ Len(Remaining) \in Nat \ {0}
<1>1. Remaining \in Seq(Boots)
  BY StackTypes DEF TypeInv
<1>2. Len(Remaining) \in Nat \ {0}
  BY <1>1, EmptySeq
<1>3. \A i \in 1..Len(Remaining) : Remaining[i] = requested[i]
  BY SelectPrefix
<1>4. /\ Len(Rest(Remaining)) = Len(Remaining) - 1
      /\ \A i \in 1..Len(Remaining) - 1 : Rest(Remaining)[i] = Remaining[i]
      /\ Rest(Remaining) \in Seq(Boots)
      /\ Popped(Remaining, s) \in Boots
  BY <1>1, PopProps DEF Rest, Popped
<1>5. Popped(Remaining, s) = Remaining[Len(Remaining)]
  BY DEF Popped, Top
<1> QED
  BY <1>2, <1>3, <1>4, <1>5

\* The parts of the invariant about the stack and the verdict.
DoneInv == PrefixLeft /\ RestDone /\ NormalPassMeansStackDone

\* No step forgets an entry of the stack in normal mode.
LEMMA DoneInvNext ==
  TypeInv /\ TypeInv' /\ FailInv /\ FlowInv /\ FlowInv' /\ DoneInv /\ [Next]_vars
    => DoneInv'
<1> SUFFICES ASSUME TypeInv, TypeInv', FailInv, FlowInv, FlowInv', DoneInv, [Next]_vars
             PROVE  DoneInv'
  OBVIOUS
<1>a. VerdictLast /\ PrefixLeft /\ (InMain' => verdict' = "none")
  BY DEF FlowInv, DoneInv, VerdictLast, InMain
<1>b. /\ Len(boot_stack) \in Nat /\ Len(requested) \in Nat /\ fails \in Nat
      /\ Len(boot_stack') \in Nat /\ Len(requested') \in Nat /\ fails' \in Nat
  BY LenProperties DEF TypeInv, RunTypeOK, FileTypeOK, FlowTypeOK
\* In the main function there is no verdict to speak of.
<1>c. InMain' => NormalPassMeansStackDone'
  BY <1>a DEF NormalPassMeansStackDone, PassMeansStackDone
<1> USE DEF DoneInv, PrefixLeft, RestDone
<1>1. CASE Still \/ Quiet
  BY <1>1 DEF Still, Quiet, InMain, Running, Position, NormalPassMeansStackDone, PassMeansStackDone
<1>2. CASE Outside \/ Begins
  <2>1. ~InMain'
    BY <1>2 DEF Outside, InMain, Begins, ParmPcs, LoopPcs, RunBootPcs, WaitPcs
  <2>2. NormalPassMeansStackDone'
    BY <1>2 DEF Outside, Begins, NormalPassMeansStackDone, PassMeansStackDone
  <2> QED
    BY <2>1, <2>2
<1>3. CASE setup
  BY <1>3, <1>b, <1>c DEF setup, SetupBegins, InMain, LoopPcs
<1>4. CASE StackLoop \/ ListLoop \/ StopCheck \/ post_stack
  <2>1. /\ UNCHANGED <<boot_stack, requested, okPos, fails, stack_mode>>
        /\ pc \in LoopPcs /\ ~Running
    BY <1>4 DEF StackLoop, ListLoop, StopCheck, post_stack, stackVars, bootVars, Running, LoopPcs,
                RunBootPcs, WaitPcs
  <2>2. InMain /\ (InMain' \/ verdict' = "FAIL")
    BY <1>4, <2>1 DEF InMain, StackLoop, ListLoop, StopCheck, post_stack, Abort, LoopPcs
  <2>3. NormalPassMeansStackDone'
    BY <1>c, <2>2 DEF NormalPassMeansStackDone, PassMeansStackDone
  <2> QED
    BY <2>1, <2>2, <2>3
<1>5. CASE Verdict
  <2>1. ~InMain' /\ InMain /\ ~Running /\ pc = "verdict"
    BY <1>5 DEF Verdict, Abort, InMain, Running, LoopPcs, RunBootPcs, WaitPcs
  <2>2. UNCHANGED <<boot_stack, requested, okPos, skipPos, fails, stack_mode, ffdc_only>>
    BY <1>5 DEF Verdict, stackVars, bootVars, callVars
  <2>3. verdict' = "PASS" => fails <= Threshold
    <3>1. verdict' = "PASS" => ~(results.fail - init_boot_fail > Threshold)
      BY <1>5 DEF Verdict, Abort
    <3>2. results.fail = init_boot_fail + fails /\ init_boot_fail \in Nat
      BY <2>1 DEF FlowInv, FailsCounted, TypeInv, RunTypeOK, FileTypeOK, FlowTypeOK
    <3> QED
      BY <1>b, <3>1, <3>2, CountAssumption
  <2>4. Len(boot_stack) = 0
    BY <2>1, EmptySeq DEF FlowInv, StackSpent
  <2>5. (stack_mode = "normal" /\ fails = 0) => \A i \in 1..Len(requested) : i \in okPos
    BY <1>b, <2>1, <2>4
  <2>6. NormalPassMeansStackDone'
    BY <2>2, <2>3, <2>5 DEF NormalPassMeansStackDone, PassMeansStackDone
  <2> QED
    BY <2>1, <2>6
<1>6. CASE my_ffdc
  <2>1. /\ UNCHANGED <<boot_stack, requested, okPos, fails, stack_mode, ffdc_only>>
        /\ pc = "ffdc" /\ ~Running /\ InMain
    BY <1>6 DEF my_ffdc, stackVars, bootVars, callVars, Running, InMain, LoopPcs, RunBootPcs,
                WaitPcs
  <2>2. InMain' \/ ffdc_only'
    BY <1>6, <2>1 DEF my_ffdc, AfterFfdc, InMain, LoopPcs, FlowInv, OnlyPhase
  <2>3. NormalPassMeansStackDone'
    BY <1>c, <2>2 DEF NormalPassMeansStackDone, PassMeansStackDone
  <2> QED
    BY <2>1, <2>3
<1>7. CASE BootDone
  <2>1. /\ UNCHANGED <<boot_stack, requested, stack_mode>>
        /\ pc = "boot_done" /\ pc' = "post_test_case" /\ InMain /\ InMain'
    BY <1>7 DEF BootDone, stackVars, InMain, LoopPcs, RunBootPcs
  <2>2. /\ okPos \subseteq okPos'
        /\ boot_status # "PASS" => fails' > 0
        /\ boot_status = "PASS" => fails' = fails
        /\ (boot_status = "PASS" /\ RanFromStack) => Position \in okPos'
    BY <1>7, <1>b DEF BootDone
  <2>3. DOMAIN requested = 1..Len(requested)
    BY LenProperties DEF TypeInv, RunTypeOK, FileTypeOK, FlowTypeOK
  <2> QED
    BY <1>b, <1>c, <2>1, <2>2, <2>3 DEF RanFromStack
<1>8. CASE GiveUpLastBoot \/ SelectNothing \/ SelectFromStack \/ SelectTransition
           \/ SelectFromList
  <2>1. /\ UNCHANGED <<requested, okPos, fails, stack_mode, phase>>
        /\ pc = "select" /\ InMain /\ InMain' /\ ~Running
    BY <1>8 DEF GiveUpLastBoot, SelectNothing, SelectFromStack, SelectTransition,
                SelectFromList, StateObtained, AtSelect, Begin, bootVars, loopVars,
                InMain, LoopPcs, Running, RunBootPcs, WaitPcs
  <2>2. boot_stack = << >> => Remaining = << >>
    BY PopProps, EmptySeq DEF Remaining
  <2>3. boot_stack # << >> => phase = "stack"
    BY <2>1 DEF FlowInv, StackSpent, OnlyPhase, TypeInv, RunTypeOK, FileTypeOK, FlowTypeOK
  <2>4. TransitionFailed => boot_stack # << >>
    BY <1>8, <2>2 DEF GiveUpLastBoot, SelectNothing, SelectFromStack, SelectTransition,
                SelectFromList, StateObtained
  <2>5. TransitionFailed => fails > 0
    BY <2>1, <2>3, <2>4 DEF FlowInv, FailureSeen, InStackPhase
  <2> SUFFICES ASSUME stack_mode = "normal"
               PROVE  (PrefixLeft /\ RestDone)'
    BY <1>c, <2>1
  <2>6. \A i \in 1..Len(requested) : i > Len(Remaining) => i \in okPos \/ fails > 0
    BY <1>b, <2>1, <2>5 DEF Remaining
  <2>7. CASE GiveUpLastBoot
    <3>1. Len(boot_stack') = 0 /\ fails > 0
      BY <2>5, <2>7, EmptySeq DEF GiveUpLastBoot
    <3> QED
      BY <1>b, <2>1, <3>1
  <2>8. CASE SelectNothing
    <3> PICK s \in MachineStates : SelectNothing!(s)
      BY <2>8 DEF SelectNothing
    <3> QED
      BY <1>a, <2>1, SelectPopped, BootAssumption
  <2>9. CASE SelectFromStack
    <3> PICK s \in MachineStates : SelectFromStack!(s)
      BY <2>9 DEF SelectFromStack
    <3>1. /\ Len(boot_stack') = Len(Remaining) - 1
          /\ \A i \in 1..Len(Remaining) - 1 : boot_stack'[i] = requested[i]
          /\ next_boot' = requested[Len(Remaining)]
          /\ Len(Remaining) \in Nat \ {0} /\ Len(Remaining) <= Len(requested)
      BY <1>a, <2>1, SelectPopped, SelectPrefix DEF Begin
    <3>2. phase' = "stack" /\ ~transitional_boot_selected' /\ Running'
      BY <2>1, <2>2, <2>3 DEF Begin, Running
    <3>3. PrefixLeft'
      BY <1>b, <2>1, <3>1
    <3>4. RestDone'
      BY <1>b, <2>1, <2>6, <3>1, <3>2 DEF Position
    <3> QED
      BY <3>3, <3>4
  <2>10. CASE SelectTransition
    <3> PICK s \in MachineStates : SelectTransition!(s)
      BY <2>10 DEF SelectTransition
    <3>1. /\ Len(Rest(Remaining)) = Len(Remaining) - 1
          /\ Rest(Remaining) \in Seq(Boots)
          /\ \A i \in 1..Len(Remaining) - 1 : Rest(Remaining)[i] = requested[i]
          /\ Popped(Remaining, s) = requested[Len(Remaining)]
          /\ Popped(Remaining, s) \in Boots
          /\ Len(Remaining) \in Nat \ {0} /\ Len(Remaining) <= Len(requested)
      BY <1>a, <2>1, SelectPopped, SelectPrefix
    <3>2. /\ Len(boot_stack') = Len(Rest(Remaining)) + 1
          /\ \A i \in 1..Len(Rest(Remaining)) : boot_stack'[i] = Rest(Remaining)[i]
          /\ boot_stack'[Len(Rest(Remaining)) + 1] = Popped(Remaining, s)
      <4> DEFINE r == Rest(Remaining)
                 b == Popped(Remaining, s)
      <4>1. boot_stack' = Push(r, b) /\ r \in Seq(Boots) /\ b \in Boots
        BY <3>1
      <4> HIDE DEF r, b
      <4>2. /\ Len(Push(r, b)) = Len(r) + 1
            /\ \A i \in 1..Len(r) : Push(r, b)[i] = r[i]
            /\ Push(r, b)[Len(r) + 1] = b
        <5>1. r \in Seq(Boots) /\ b \in Boots
          BY <4>1
        <5> QED
          BY ONLY <5>1, AppendProperties DEF Push
      <4> QED
        BY <4>1, <4>2 DEF r, b
    <3>3. /\ Len(boot_stack') = Len(Remaining)
          /\ \A i \in 1..Len(Remaining) - 1 : boot_stack'[i] = requested[i]
          /\ boot_stack'[Len(Remaining)] = requested[Len(Remaining)]
      BY <3>1, <3>2
    <3>4. PrefixLeft'
      BY <1>b, <2>1, <3>1, <3>3
    <3>5. RestDone'
      BY <1>b, <2>1, <2>6, <3>3
    <3> QED
      BY <3>4, <3>5
  <2>11. CASE SelectFromList
    <3>1. boot_stack' = boot_stack /\ ~TransitionFailed
      BY <2>11 DEF SelectFromList, StateObtained
    <3> QED
      BY <1>b, <2>1, <2>6, <3>1 DEF Remaining
  <2> QED
    BY <1>8, <2>7, <2>8, <2>9, <2>10, <2>11
<1> HIDE DEF DoneInv
<1> QED
  BY <1>a, <1>1, <1>2, <1>3, <1>4, <1>5, <1>6, <1>7, <1>8, StepKinds DEF Kinds

\* Everything together is inductive.
BootInv == GlobInv /\ TypeInv /\ FailInv /\ FlowInv /\ DoneInv

\* The invariant holds before the first call ...
LEMMA BootInvInit == Init => BootInv
PROOF
  BY GlobInvInit, TypeInvInit, StackInvInit DEF BootInv, StackInv, FlowInv, DoneInv

\* ... and every step keeps it.
LEMMA BootInvNext == BootInv /\ [Next]_vars => BootInv'
<1> SUFFICES ASSUME BootInv, [Next]_vars PROVE BootInv'
  OBVIOUS
<1>1. GlobInv'
  BY GlobInvNext DEF BootInv
<1>2. TypeInv'
  BY TypeInvNext DEF BootInv
<1>3. VerdictLast
  BY DEF BootInv, FlowInv
<1>4. FailInv'
  BY <1>2, <1>3, FailInvNext DEF BootInv
<1>5. FlowInv'
  BY <1>2, FlowInvNext DEF BootInv
<1>6. DoneInv'
  BY <1>2, <1>5, DoneInvNext DEF BootInv
<1> QED
  BY <1>1, <1>2, <1>4, <1>5, <1>6 DEF BootInv

\* Failing boots use up the stack, for every stack, boot table and machine: the
\* removal of a boot whose transition failed, in select_boot, is enough to
\* rule out an endless failure loop.
THEOREM FailuresAreBounded == Spec => []FailuresBounded
<1>1. BootInv => FailuresBounded
  <2> SUFFICES ASSUME BootInv, InMain, phase = "stack"
               PROVE  fails + Len(boot_stack) <= Len(requested) + 1
    BY DEF FailuresBounded
  <2>1. fails \in Nat /\ Len(boot_stack) \in Nat /\ Len(requested) \in Nat
    BY LenProperties DEF BootInv, TypeInv, RunTypeOK, FileTypeOK, FlowTypeOK
  <2> QED
    BY <2>1 DEF BootInv, FailInv, RunningBound, RestingBound, InStackPhase
<1> QED
  BY <1>1, BootInvInit, BootInvNext, PTL DEF Spec

\* A call in normal mode that passes has run every boot of its stack with
\* success, or had no more failures than the threshold allows.
THEOREM NormalPassIsDone == Spec => []NormalPassMeansStackDone
<1>1. BootInv => NormalPassMeansStackDone
  BY DEF BootInv, DoneInv
<1> QED
  BY <1>1, BootInvInit, BootInvNext, PTL DEF Spec

-----------------------------------------------------------------------------
(* Stop requests *)

\* No boot is stopped before it runs ...
StopNotAhead ==
  /\ stopped <= boot_count
  /\ pc = "begin" => stopped < boot_count

\* ... and one that was stopped, and whose keyword did not catch the stop, runs
\* on only to its wait_state, which will find the message.
StopPending ==
  (pc \in RunBootPcs /\ stopped = boot_count /\ boot_count > 0 /\ caught # boot_count) =>
    pc \in WaitPcs /\ waiting \in {"poll", "leave"} /\ exit_msg # 0

\* The inductive invariant of stop requests.
StopInv == TypeInv /\ StopNotAhead /\ StopPending /\ StoppedBootFails /\ ArmedAfterFailureOnly

\* Nothing is stopped or armed before the first call.
LEMMA StopInvInit == Init => StopNotAhead /\ StopPending /\ StoppedBootFails /\ ArmedAfterFailureOnly
PROOF
  BY DEF Init, StopNotAhead, StopPending, StoppedBootFails, ArmedAfterFailureOnly

\* The variables a stop request is about.
stopVars == <<pc, waiting, boot_count, boot_status, handler, exit_msg, stopped, caught>>

\* Outside run_boot a step neither enters run_boot nor ends a boot, and it
\* neither arms nor stops.
Aside ==
  /\ pc \notin RunBootPcs \cup {"begin"} /\ pc' \notin RunBootPcs \cup {"begin", "boot_done"}
  /\ UNCHANGED <<boot_count, boot_status, stopped, caught>>
  /\ handler' \in {handler, "default"}

\* A boot is selected.
Selected ==
  /\ pc = "select" /\ pc' = "begin" /\ boot_count' = boot_count + 1
  /\ UNCHANGED <<boot_status, stopped, caught, handler>>

\* Every step is one of run_boot or of stop_boot_test, or one of these.
LEMMA StopSteps ==
  ASSUME TypeInv, [Next]_vars
  PROVE  UNCHANGED stopVars \/ Aside \/ Selected \/ run_boot \/ StopInWait \/ StopInBoot \/ StopCaught
           \/ StopInFfdc \/ StopInPop \/ StopInTeardown \/ StopEndsCall \/ default_sigusr1 \/ FreshProcess
<1> USE DEF Aside, Selected, RunBootPcs, WaitPcs, callVars, stackVars, loopVars, pickVars, bootVars,
            resVars, fileVars, sigVars
<1>1. CASE UNCHANGED vars \/ Finished
  BY <1>1 DEF vars, Finished, stopVars
<1>2. CASE Call \/ SetupLoginFails \/ setup \/ SetupFails
  BY <1>2 DEF Call, obmc_boot_test_py, SetupLoginFails, setup, SetupFails, SetupBegins, Abort
<1>9. CASE SkipParm \/ SaveParm \/ SetParm \/ ParmsDone
  BY <1>9 DEF SkipParm, SaveParm, SetParm, ParmsDone, InParms
<1>3. CASE StackLoop \/ ListLoop \/ Verdict \/ TestTimeout
  BY <1>3 DEF StackLoop, ListLoop, Verdict, TestTimeout, Abort
<1>4. CASE PopEmptyStack \/ GiveUpLastBoot \/ SelectInvalidState \/ SelectNothing
  BY <1>4 DEF PopEmptyStack, GiveUpLastBoot, SelectInvalidState, SelectNothing, StateObtained,
              AtSelect, Abort
<1>5. CASE SelectFromStack \/ SelectTransition \/ SelectFromList
  BY <1>5 DEF SelectFromStack, SelectTransition, SelectFromList, StateObtained, AtSelect, Begin
<1>6. CASE test_loop_body \/ post_stack
  BY <1>6 DEF test_loop_body, BootDone, PostTestCase, FfdcCheck, my_ffdc, Purge, LogsUnread,
              AfterFfdc, StopCheck, After, post_stack, Abort
<1>7. CASE obmc_boot_test_teardown
  BY <1>7 DEF obmc_boot_test_teardown, Cleanup, NoSave, OpenResults, DumpResults, NotSaved, PopParm, GiveBack,
              CallOver, InTeardown, ToRestore, After
<1>8. CASE SignalKills \/ NewProcess
  BY <1>8 DEF SignalKills, NewProcess
<1> QED
  BY <1>1, <1>2, <1>3, <1>4, <1>5, <1>6, <1>7, <1>8, <1>9
     DEF Next, Program, Environment, select_boot, stop_boot_test

\* Every step keeps the invariant: a boot that was stopped does not get past its
\* wait_state, and a boot that passes disarms the handler.
LEMMA StopInvNext ==
  StopInv /\ TypeInv' /\ [Next]_vars => StopInv'
<1> SUFFICES ASSUME StopInv, TypeInv', [Next]_vars PROVE StopInv'
  OBVIOUS
<1>a. /\ boot_count \in Nat /\ stopped \in Nat /\ boot_count' \in Nat /\ stopped' \in Nat
      /\ exit_msg \in Nat /\ TypeInv
  BY DEF StopInv, TypeInv, RunTypeOK, FileTypeOK, FlowTypeOK
<1> USE DEF StopInv, StopNotAhead, StopPending, StoppedBootFails, ArmedAfterFailureOnly,
            RunBootPcs, WaitPcs, callVars, stackVars, loopVars, pickVars, bootVars, resVars, fileVars, sigVars
<1>1. CASE UNCHANGED stopVars
  BY <1>1 DEF stopVars
<1>2. CASE Aside
  BY <1>a, <1>2 DEF Aside
<1>3. CASE Selected
  BY <1>a, <1>3 DEF Selected
<1>4. CASE ArmStop \/ PreBoot \/ PostReboot
  BY <1>a, <1>4 DEF ArmStop, PreBoot, PostReboot, InRunBoot
<1>5. CASE PlugInFails \/ Method \/ PostBoot
  BY <1>a, <1>5 DEF PlugInFails, Method, PostBoot, InRunBoot, EndBoot
<1>6. CASE check_state \/ WaitTimeout
  BY <1>a, <1>6 DEF check_state, WaitTimeout, AtWait, InRunBoot, EndBoot
<1>7. CASE WaitLeave
  BY <1>a, <1>7 DEF WaitLeave, AtWait, InRunBoot, EndBoot
<1>8. CASE WaitReturn
  BY <1>a, <1>8 DEF WaitReturn, AfterWait, AtWait, InRunBoot
<1>9. CASE StopInWait
  BY <1>a, <1>9 DEF StopInWait, Stopping, TypeInv, RunTypeOK, FileTypeOK, FlowTypeOK
<1>10. CASE StopInBoot
  BY <1>a, <1>10 DEF StopInBoot, Stopping, EndBoot
<1>11. CASE StopInFfdc
  BY <1>a, <1>11 DEF StopInFfdc, Stopping, AfterFfdc
<1>15. CASE StopCaught
  BY <1>a, <1>15 DEF StopCaught, Stopping
<1>16. CASE StopInPop \/ StopInTeardown
  BY <1>a, <1>16 DEF StopInPop, StopInTeardown, Stopping, TeardownPcs
<1>12. CASE StopEndsCall
  BY <1>a, <1>12 DEF StopEndsCall, Stopping, ParmPcs, LoopPcs, TeardownPcs, Abort
<1>13. CASE default_sigusr1
  BY <1>a, <1>13 DEF default_sigusr1
<1>14. CASE FreshProcess
  BY <1>a, <1>14 DEF FreshProcess
<1> HIDE DEF StopInv
<1> QED
  BY <1>a, <1>1, <1>2, <1>3, <1>4, <1>5, <1>6, <1>7, <1>8, <1>9, <1>10, <1>11, <1>12, <1>13,
     <1>14, <1>15, <1>16, StopSteps DEF run_boot

\* A boot that a stop request reached in time fails, wherever in run_boot the
\* signal arrived and however the request was noticed (stop_boot_test,
\* wait_state), unless it arrived within the boot keyword and that keyword caught
\* the failure.
THEOREM StoppedBootsFail == Spec => []StoppedBootFails
<1>1. StopInv => StoppedBootFails
  BY DEF StopInv
<1>2. BootInv => TypeInv
  BY DEF BootInv
<1>3. Init => StopInv
  BY TypeInvInit, StopInvInit DEF StopInv
<1> QED
  BY <1>1, <1>2, <1>3, BootInvInit, BootInvNext, StopInvNext, PTL DEF Spec

\* stop_boot_test outlives run_boot only when the boot failed (run_boot).
THEOREM ArmedAfterFailures == Spec => []ArmedAfterFailureOnly
<1>1. StopInv => ArmedAfterFailureOnly
  BY DEF StopInv
<1>2. BootInv => TypeInv
  BY DEF BootInv
<1>3. Init => StopInv
  BY TypeInvInit, StopInvInit DEF StopInv
<1> QED
  BY <1>1, <1>2, <1>3, BootInvInit, BootInvNext, StopInvNext, PTL DEF Spec

-----------------------------------------------------------------------------
(* The results file *)

\* The totals in memory are never behind those last saved completely, and the
\* file holds those or nothing.
ResInv ==
  /\ (kept # NoResults /\ results # NoResults) => NoLess(results, kept)
  /\ saved \in {kept, Torn}
  /\ saved # kept => pc = "dump" \/ cut
  /\ (path_set /\ results = NoResults) => cut
  /\ pc = "dump" => path_set

\* What was cut short stays so, and a save is cut short or goes on.
CutStays ==
  /\ cut => cut'
  /\ pc = "dump" => cut' \/ pc' = "dump"
  /\ pc' = "dump" => pc = "dump" /\ UNCHANGED path_set

\* What a step may do to the totals: nothing, begin anew in another process,
\* make or read them in setup, count a boot or save them.  Nothing but a dump
\* ends a save, and nothing else mends what was cut short.
LEMMA ResSteps ==
  ASSUME [Next]_vars
  PROVE  \/ /\ \/ UNCHANGED <<results, saved, kept, path_set>>
               \/ results' = NoResults /\ path_set' = FALSE /\ UNCHANGED <<saved, kept>>
               \/ LoadResults /\ UNCHANGED <<saved, kept>>
               \/ LoadFails /\ pc = "setup" /\ UNCHANGED <<saved, kept>>
            /\ CutStays
         \/ BootDone \/ OpenResults \/ DumpResults
<1> USE DEF resVars, fileVars, CutStays
<1>1. CASE UNCHANGED vars \/ Finished
  BY <1>1 DEF vars, Finished
<1>2. CASE Call \/ SetupLoginFails \/ setup \/ SetupFails
  BY <1>2 DEF Call, obmc_boot_test_py, SetupLoginFails, setup, SetupFails, LoadFails, SetupBegins, Abort
<1>10. CASE SkipParm \/ SaveParm \/ SetParm \/ ParmsDone
  BY <1>10 DEF SkipParm, SaveParm, SetParm, ParmsDone, InParms
<1>3. CASE StackLoop \/ ListLoop \/ Verdict \/ TestTimeout
  BY <1>3 DEF StackLoop, ListLoop, Verdict, TestTimeout, Abort
<1>4. CASE select_boot
  <2>1. UNCHANGED resVars /\ pc = "select"
    BY <1>4 DEF select_boot, PopEmptyStack, GiveUpLastBoot, SelectInvalidState, SelectNothing,
                SelectFromStack, SelectTransition, SelectFromList, StateObtained, AtSelect
  <2>2. pc' # "dump"
    BY <1>4 DEF select_boot, PopEmptyStack, GiveUpLastBoot, SelectInvalidState, SelectNothing,
                SelectFromStack, SelectTransition, SelectFromList, Abort, Begin
  <2> QED
    BY <2>1, <2>2
<1>5. CASE run_boot
  <2>1. UNCHANGED resVars /\ pc # "dump"
    BY <1>5 DEF run_boot, ArmStop, PlugInFails, PreBoot, Method, PostReboot, PostBoot, check_state,
                WaitTimeout, WaitLeave, WaitReturn, AtWait, InRunBoot, WaitPcs
  <2>2. pc' \in {pc, "pre_boot", "boot_done", "post_boot", "method", "uptime_wait", "change_wait",
                 "end_wait", "rest_wait", "post_reboot"}
    BY <1>5 DEF run_boot, ArmStop, PlugInFails, PreBoot, Method, PostReboot, PostBoot, check_state,
                WaitTimeout, WaitLeave, WaitReturn, AtWait, InRunBoot, EndBoot, AfterWait, WaitPcs
  <2> QED
    BY <2>1, <2>2
<1>6. CASE test_loop_body \/ post_stack
  <2>1. BootDone \/ (UNCHANGED resVars /\ pc # "dump")
    BY <1>6 DEF test_loop_body, PostTestCase, FfdcCheck, my_ffdc, Purge, LogsUnread,
                StopCheck, After, post_stack
  <2>2. pc' # "dump"
    BY <1>6 DEF test_loop_body, BootDone, PostTestCase, FfdcCheck, my_ffdc, Purge, LogsUnread,
                StopCheck, After, AfterFfdc, post_stack, Abort
  <2> QED
    BY <2>1, <2>2
<1>7. CASE obmc_boot_test_teardown
  <2>1. OpenResults \/ DumpResults \/ (UNCHANGED resVars /\ pc # "dump")
    BY <1>7 DEF obmc_boot_test_teardown, Cleanup, NoSave, NotSaved, PopParm, GiveBack, CallOver,
        InTeardown, After
  <2>2. OpenResults \/ pc' # "dump"
    BY <1>7 DEF obmc_boot_test_teardown, Cleanup, NoSave, DumpResults, NotSaved, PopParm, GiveBack, CallOver,
                InTeardown, ToRestore, After
  <2>3. DumpResults \/ OpenResults \/ (UNCHANGED resVars /\ pc # "dump" /\ pc' # "dump")
    BY <2>1, <2>2
  <2> QED
    BY <2>3
<1>8. CASE SignalKills \/ NewProcess
  BY <1>8 DEF SignalKills, NewProcess, FreshProcess
<1>9. CASE default_sigusr1 \/ stop_boot_test
  <2>1. CASE default_sigusr1
    BY <2>1 DEF default_sigusr1
  <2>2. CASE StopInWait \/ StopInBoot \/ StopCaught \/ StopInFfdc
    BY <2>2 DEF StopInWait, StopInBoot, StopCaught, StopInFfdc, StopOnly, Stopping, EndBoot, AfterFfdc,
                RunBootPcs, WaitPcs
  <2>3. CASE StopInPop \/ StopInTeardown
    <3>1. CASE StopInPop
      BY <3>1 DEF StopInPop, Stopping
    <3>2. CASE StopInTeardown
      BY <3>2 DEF StopInTeardown, Stopping
    <3> QED
      BY <2>3, <3>1, <3>2
  <2>4. CASE StopEndsCall
    BY <2>4 DEF StopEndsCall, StopOnly, Stopping, Abort, LoopPcs, ParmPcs
  <2> QED
    BY <1>9, <2>1, <2>2, <2>3, <2>4 DEF stop_boot_test
<1> QED
  BY <1>1, <1>2, <1>3, <1>4, <1>5, <1>6, <1>7, <1>8, <1>9, <1>10 DEF Next, Program, Environment

\* Every step keeps the totals in memory ahead, and moves the saved ones forward.
LEMMA ResInvNext ==
  TypeInv /\ ResInv /\ [Next]_vars => ResInv' /\ (kept' = kept \/ NoLess(kept', kept))
<1> SUFFICES ASSUME TypeInv, ResInv, [Next]_vars
             PROVE  ResInv' /\ (kept' = kept \/ NoLess(kept', kept))
  OBVIOUS
<1>a. results \in Totals \cup {NoResults} /\ kept \in Totals \cup {NoResults}
  BY DEF TypeInv, RunTypeOK, FileTypeOK, FlowTypeOK
<1>b. \A r \in Totals : r.pass \in Nat /\ r.fail \in Nat /\ NoLess(r, r)
  BY NoResultsAssumption DEF Totals, NoLess
<1>c. kept # Torn /\ results # Torn /\ Torn # NoResults
  BY <1>a, NoResultsAssumption DEF Totals
<1>1. CASE UNCHANGED <<results, saved, kept, path_set>> /\ CutStays
  BY <1>1 DEF ResInv, CutStays
<1>2. CASE results' = NoResults /\ path_set' = FALSE /\ UNCHANGED <<saved, kept>> /\ CutStays
  BY <1>2 DEF ResInv, CutStays
<1>7. CASE LoadFails /\ pc = "setup" /\ UNCHANGED <<saved, kept>> /\ CutStays
  <2>1. results = NoResults => cut
    BY <1>7, <1>c DEF LoadFails, ResInv
  <2> QED
    BY <1>7, <2>1 DEF LoadFails, ResInv, CutStays
<1>3. CASE LoadResults /\ UNCHANGED <<saved, kept>> /\ CutStays
  <2>1. saved \notin {NoResults, Torn} /\ results' = saved => saved = kept /\ kept \in Totals
    BY <1>a, <1>c DEF ResInv
  <2>2. saved = NoResults => kept = NoResults
    BY <1>c DEF ResInv
  <2>3. (kept # NoResults /\ results' # NoResults) => NoLess(results', kept)
    BY <1>3, <1>b, <2>1, <2>2 DEF LoadResults
  <2>4. results' # NoResults
    BY <1>3, NoResultsAssumption, CountAssumption DEF LoadResults
  <2> QED
    BY <1>3, <2>3, <2>4 DEF ResInv, CutStays
<1>4. CASE BootDone
  <2>1. results \in Totals /\ UNCHANGED <<saved, kept, cut, path_set>> /\ pc = "boot_done"
        /\ pc' = "post_test_case"
    BY <1>4 DEF BootDone, TypeInv, MainHasResults, InMain, LoopPcs, fileVars
  <2>2. /\ results'.pass >= results.pass /\ results'.fail >= results.fail
        /\ results'.pass \in Nat /\ results'.fail \in Nat
    BY <1>4, <1>b, <2>1 DEF BootDone, update
  <2>3. (kept # NoResults /\ results' # NoResults) => NoLess(results', kept)
    <3>1. results # NoResults
      BY <2>1, NoResultsAssumption DEF Totals
    <3>2. kept # NoResults => NoLess(results, kept) /\ kept.pass \in Nat /\ kept.fail \in Nat
      BY <1>a, <1>b, <3>1 DEF ResInv
    <3>3. results.pass \in Nat /\ results.fail \in Nat
      BY <1>b, <2>1
    <3> QED
      BY <2>2, <3>2, <3>3 DEF NoLess
  <2>4. results' # NoResults
    BY <1>4, <1>b, <2>1, NoResultsAssumption DEF BootDone, update
  <2> QED
    BY <2>1, <2>3, <2>4 DEF ResInv
<1>5. CASE OpenResults
  BY <1>5 DEF OpenResults, InTeardown, ResInv
<1>6. CASE DumpResults
  <2>1. CASE results = NoResults
    <3>1. UNCHANGED <<results, saved, kept, cut, path_set>> /\ pc = "dump" /\ pc' = "restore"
      BY <1>6, <2>1 DEF DumpResults, InTeardown, ToRestore
    <3> QED
      BY <2>1, <3>1 DEF ResInv
  <2>2. CASE results # NoResults
    <3>1. saved' = results /\ kept' = results /\ results' = results /\ pc' = "restore"
      BY <1>6, <2>2 DEF DumpResults, InTeardown, ToRestore
    <3>2. kept # NoResults => NoLess(results, kept)
      BY <2>2 DEF ResInv, NoLess
    <3>3. NoLess(results, results)
      BY <1>a, <1>b, <2>2
    <3> QED
      BY <2>2, <3>1, <3>2, <3>3 DEF ResInv, NoLess
  <2> QED
    BY <2>1, <2>2
<1> QED
  BY <1>1, <1>2, <1>3, <1>4, <1>5, <1>6, <1>7, ResSteps

\* No save writes less than what was last saved completely, over calls,
\* processes, killed processes and files cut short (process_pgm_parms,
\* obmc_boot_test_teardown).
THEOREM SavedResultsDoGrow == Spec => SavedResultsGrow
<1>1. Init => ResInv
  BY DEF Init, ResInv
<1>2. TypeInv /\ ResInv /\ [Next]_vars => ResInv'
  BY ResInvNext
<1>3. TypeInv /\ ResInv /\ [Next]_vars => [NoLess(kept', kept)]_kept
  BY ResInvNext
<1>4. BootInv => TypeInv
  BY DEF BootInv
<1> QED
  BY <1>1, <1>2, <1>3, <1>4, BootInvInit, BootInvNext, PTL DEF Spec, SavedResultsGrow

\* The results file holds the totals last saved completely, or, during a save
\* and after one that was cut short, no totals at all (obmc_boot_test_teardown).
THEOREM SavedResultsAreKept == Spec => []SavedResultsKept
<1>1. Init => ResInv
  BY DEF Init, ResInv
<1>2. TypeInv /\ ResInv /\ [Next]_vars => ResInv'
  BY ResInvNext
<1>3. ResInv => SavedResultsKept
  BY DEF ResInv, SavedResultsKept
<1>4. BootInv => TypeInv
  BY DEF BootInv
<1> QED
  BY <1>1, <1>2, <1>3, <1>4, BootInvInit, BootInvNext, PTL DEF Spec

-----------------------------------------------------------------------------
(* How many boots a stack costs in test mode *)

\* The boot c leads to the start state of b, as test mode takes it.
Arrives(c, b) == StartMatches(strip_anchor_state(BootTable[c].end), b)

\* A boot table in which every boot that may be chosen to make way leads to the
\* start state that is awaited.
LeadingTable ==
  \A s \in MachineStates, b \in Boots :
    valid_state(s) /\ ~StartMatches(s, b) => \A c \in Candidates(s, b) : Arrives(c, b)

Used == Len(requested) - Len(boot_stack)

\* The top of the stack waits for a transition.
Awaited == transitional_boot_selected /\ boot_stack # << >>

\* In test mode run_boot neither calls the boot keyword nor waits.
InTestMode == pc \notin WaitPcs \cup {"method", "post_reboot"}

\* boot_count is 0 when the first call begins.
CountFromZero ==
  /\ calls = 0 => pc = "idle" /\ boot_count = 0
  /\ calls <= 1 /\ pc \in ParmPcs \cup {"setup"} => boot_count = 0

\* Between the boots of an entry it has cost two at most.
EntryCost == (calls <= 1 /\ InStackPhase /\ ~Awaited) => boot_count <= 2 * Used

\* A transition that succeeds leads to the start state of the top.
Arrival ==
  (InStackPhase /\ Awaited) =>
    /\ stack_mode = "skip" => Len(boot_stack) = 1
    /\ pc \in {"begin", "pre_boot"} => Arrives(next_boot, Top(boot_stack))
    /\ \/ pc = "post_boot"
       \/ pc = "boot_done" /\ boot_status = "PASS"
       \/ ~Running /\ boot_success
       => StartMatches(state, Top(boot_stack))

WorkInv == InTestMode /\ CountFromZero /\ StackWorkBounded /\ EntryCost /\ Arrival

\* A step that leaves the main function or ends the program.
Leaves ==
  /\ pc # "idle" /\ pc' \in TeardownPcs \cup {"idle"}
  /\ UNCHANGED <<calls, boot_count, requested, phase>>
  /\ boot_stack' = boot_stack \/ \E s : StateObtained(s) /\ boot_stack' = Remaining

\* A step after the stack loop.
LeavesStack ==
  /\ pc \in LoopPcs /\ pc' \in LoopPcs /\ phase' \in {"post", "list"} /\ UNCHANGED calls

\* A step that keeps the stack, the state and the boot, and does not end the
\* boot but with a failure.
KeepsBoot ==
  /\ UNCHANGED <<calls, boot_count, boot_stack, requested, phase, transitional_boot_selected,
                 boot_success, state, next_boot, stack_mode>>
  /\ \/ UNCHANGED <<pc, boot_status>>
     \/ pc = "begin" /\ pc' = "pre_boot"
     \/ InMain /\ pc' = "boot_done" /\ boot_status' = "FAIL"
     \/ InMain /\ pc' \in LoopPcs /\ ~Running /\ ~Running'

\* A step between the call and setup.
Passing == pc \in ParmPcs /\ pc' \in ParmPcs \cup {"setup"} /\ UNCHANGED <<calls, boot_count, requested,
    boot_stack, phase>>

WorkKinds ==
  \/ Passing \/ Leaves \/ LeavesStack \/ KeepsBoot \/ (FreshProcess /\ UNCHANGED calls) \/ Call
  \/ setup \/ SetupFails \/ PreBoot \/ PostBoot \/ BootDone \/ GiveUpLastBoot
  \/ SelectNothing \/ SelectFromStack \/ SelectTransition \/ SelectFromList

\* Every step of test mode is of one of these kinds.
LEMMA WorkSteps ==
  ASSUME TestMode, TypeInv, InTestMode, [Next]_vars
  PROVE  WorkKinds
<1> USE DEF Leaves, LeavesStack, KeepsBoot, InMain, Running, InTestMode, LoopPcs, RunBootPcs, WaitPcs,
            ParmPcs, TeardownPcs, callVars, stackVars, loopVars, pickVars, bootVars, resVars, fileVars,
                sigVars
<1>1. CASE UNCHANGED vars \/ Finished \/ default_sigusr1
  <2>1. KeepsBoot
    BY <1>1 DEF vars, Finished, default_sigusr1
  <2> QED
    BY <2>1 DEF WorkKinds
<1>2. CASE SetupLoginFails \/ PopEmptyStack \/ TestTimeout \/ Verdict \/ LogsUnread
  <2>1. Leaves
    BY <1>2 DEF SetupLoginFails, PopEmptyStack, AtSelect, TestTimeout, Verdict, LogsUnread, Abort
  <2> QED
    BY <2>1 DEF WorkKinds
<1>3. CASE SelectInvalidState
  <2>1. PICK s \in MachineStates : StateObtained(s) /\ boot_stack' = Remaining /\ Abort /\ UNCHANGED boot_count
    BY <1>3 DEF SelectInvalidState
  <2>2. Leaves
    BY <2>1 DEF StateObtained, AtSelect, Abort
  <2> QED
    BY <2>2 DEF WorkKinds
<1>4. CASE StackLoop \/ ListLoop
  <2>1. KeepsBoot \/ LeavesStack
    BY <1>4 DEF StackLoop, ListLoop
  <2> QED
    BY <2>1 DEF WorkKinds
<1>5. CASE ArmStop \/ PlugInFails
  <2>1. KeepsBoot
    BY <1>5 DEF ArmStop, PlugInFails, InRunBoot, EndBoot
  <2> QED
    BY <2>1 DEF WorkKinds
<1>6. ~(Method \/ PostReboot \/ check_state \/ WaitTimeout \/ WaitLeave \/ WaitReturn)
  BY DEF Method, PostReboot, check_state, WaitTimeout, WaitLeave, WaitReturn, AtWait, InRunBoot
<1>7. CASE PostTestCase \/ FfdcCheck \/ (Purge /\ ~LogsUnread)
  <2>1. KeepsBoot
    BY <1>7 DEF PostTestCase, FfdcCheck, Purge, After, AfterFfdc
  <2> QED
    BY <2>1 DEF WorkKinds
<1>8. CASE my_ffdc
  <2>1. state' = state
    BY <1>8 DEF my_ffdc, my_get_state
  <2>2. KeepsBoot \/ Leaves
    BY <1>8, <2>1 DEF my_ffdc, AfterFfdc
  <2> QED
    BY <2>2 DEF WorkKinds
<1>9. CASE StopCheck
  <2>1. Leaves \/ LeavesStack \/ KeepsBoot
    BY <1>9 DEF StopCheck, Abort
  <2> QED
    BY <2>1 DEF WorkKinds
<1>10. CASE post_stack
  <2>1. LeavesStack
    BY <1>10 DEF post_stack
  <2> QED
    BY <2>1 DEF WorkKinds
<1>11. CASE obmc_boot_test_teardown
  <2>1. Leaves
    BY <1>11 DEF obmc_boot_test_teardown, Cleanup, After, NoSave, OpenResults, DumpResults, NotSaved, PopParm,
                 GiveBack, CallOver, InTeardown, ToRestore
  <2> QED
    BY <2>1 DEF WorkKinds
<1>14. CASE SkipParm \/ SaveParm \/ SetParm \/ ParmsDone
  BY <1>14 DEF SkipParm, SaveParm, SetParm, ParmsDone, InParms, Passing, WorkKinds
<1>12. CASE SignalKills \/ NewProcess
  BY <1>12 DEF SignalKills, NewProcess, WorkKinds
<1>13. CASE stop_boot_test
  <2>1. KeepsBoot \/ Leaves
    BY <1>13 DEF stop_boot_test, Stopping, StopInWait, StopInBoot, StopCaught, StopInFfdc, StopInPop,
      StopInTeardown, StopEndsCall, EndBoot, Abort, AfterFfdc
  <2> QED
    BY <2>1 DEF WorkKinds
<1> HIDE DEF Leaves, LeavesStack, KeepsBoot, InMain, Running, InTestMode, LoopPcs, RunBootPcs, WaitPcs,
             ParmPcs, TeardownPcs, callVars, stackVars, loopVars, pickVars, bootVars, resVars, fileVars,
                 sigVars
<1> QED
  BY <1>1, <1>2, <1>3, <1>4, <1>5, <1>6, <1>7, <1>8, <1>9, <1>10, <1>11, <1>12, <1>13, <1>14
  DEF Next, Program, Environment, select_boot, run_boot, test_loop_body,
      WorkKinds

\* What the stack has cost when select_boot goes on with what remains of it.
LEMMA SelectCost ==
  ASSUME TypeInv, FailInv, WorkInv, NEW s, StateObtained(s), phase = "stack", calls <= 1
  PROVE  /\ Remaining # << >>
         /\ boot_count <= 2 * (Len(requested) - Len(Remaining)) + 1
         /\ ~(Awaited /\ boot_success) => boot_count <= 2 * (Len(requested) - Len(Remaining))
<1> DEFINE r == Len(requested)
           b == Len(boot_stack)
           m == Len(Remaining)
<1>1. pc = "select" /\ InStackPhase
  BY DEF StateObtained, AtSelect, InStackPhase, InMain, LoopPcs
<1>2. Remaining # << >>
  BY SelectBound
<1>3. RunTypeOK /\ boot_count \in Nat
  BY DEF TypeInv, RunTypeOK, FileTypeOK, FlowTypeOK
<1>4. /\ r \in Nat /\ b \in Nat /\ m \in Nat
      /\ TransitionFailed => m = b - 1
      /\ ~TransitionFailed => m = b
  BY <1>2, <1>3, SelectLengths
<1>5. boot_count <= 2 * (r - b) + 1
  BY DEF WorkInv, StackWorkBounded
<1>6. ~Awaited => boot_count <= 2 * (r - b)
  BY <1>1 DEF WorkInv, EntryCost, Used
<1> HIDE DEF r, b, m
<1>7. boot_count <= 2 * (r - m) + 1
  BY <1>3, <1>4, <1>5
<1>8. Awaited /\ ~boot_success => TransitionFailed
  BY DEF Awaited, TransitionFailed
<1>9. CASE TransitionFailed
  <2>1. boot_count <= 2 * (r - m)
    BY <1>3, <1>4, <1>5, <1>9
  <2> QED
    BY <1>2, <1>7, <2>1 DEF r, m
<1>10. CASE ~TransitionFailed
  <2>1. ~(Awaited /\ boot_success) => boot_count <= 2 * (r - m)
    BY <1>4, <1>6, <1>8, <1>10
  <2> QED
    BY <1>2, <1>7, <2>1 DEF r, m
<1> QED
  BY <1>9, <1>10

\* After a transition that succeeded the top of the stack is run, or skipped.
LEMMA TransitionOver ==
  ASSUME TestMode, TypeInv, FailInv, WorkInv, NEW s, StateObtained(s), phase = "stack", Awaited,
         boot_success, Popped(Remaining, s) # NoBoot
  PROVE  StartMatches(s, Popped(Remaining, s))
<1>1. Remaining = boot_stack
  BY DEF Remaining, TransitionFailed
<1>2. pc = "select" /\ InStackPhase /\ ~Running
  BY DEF StateObtained, AtSelect, InStackPhase, InMain, LoopPcs, Running, RunBootPcs, WaitPcs
<1>3. s = state
  BY DEF StateObtained, my_get_state
<1>4. StartMatches(state, Top(boot_stack)) /\ (stack_mode = "skip" => Len(boot_stack) = 1)
  BY <1>2 DEF WorkInv, Arrival
<1>5. Popped(Remaining, s) = Top(boot_stack)
  BY <1>1, <1>4 DEF Popped, Top, TypeInv, RunTypeOK, FileTypeOK, FlowTypeOK
<1> QED
  BY <1>3, <1>4, <1>5

\* A transitional boot leaves the boot it is for on top of the rest.
LEMMA TransitionPushes ==
  ASSUME NEW p \in Boots, Rest(Remaining) \in Seq(Boots),
         boot_stack' = Push(Rest(Remaining), p)
  PROVE  /\ Len(boot_stack') = Len(Rest(Remaining)) + 1 /\ boot_stack' # << >>
         /\ boot_stack'[Len(Rest(Remaining)) + 1] = p
PROOF
  BY PushProps

\* Every step of test mode keeps the cost of the stack.
LEMMA WorkInvNext ==
  ASSUME TestMode, LeadingTable, TypeInv, TypeInv', FailInv, WorkInv, [Next]_vars
  PROVE  WorkInv'
<1>a. /\ Len(boot_stack) \in Nat /\ Len(requested) \in Nat /\ boot_count \in Nat /\ calls \in Nat
      /\ Len(boot_stack') \in Nat /\ Len(requested') \in Nat /\ boot_count' \in Nat /\ calls' \in Nat
  BY LenProperties DEF TypeInv, RunTypeOK, FileTypeOK, FlowTypeOK
<1>b. RunTypeOK
  BY DEF TypeInv
<1> USE DEF WorkInv, InTestMode, CountFromZero, StackWorkBounded, EntryCost, Arrival, InStackPhase,
            InMain, Running, Used, LoopPcs, RunBootPcs, WaitPcs, ParmPcs
<1>0. CASE Passing
  BY <1>0, <1>a DEF Passing
<1>1. CASE Leaves
  <2>1. Len(boot_stack') <= Len(boot_stack)
    <3>1. CASE boot_stack' = boot_stack
      BY <1>a, <3>1
    <3>2. CASE \E s : StateObtained(s) /\ boot_stack' = Remaining
      <4>1. TransitionFailed => Remaining # << >>
        BY <3>2 DEF StateObtained
      <4>2. Len(Remaining) <= Len(boot_stack)
        BY <1>a, <1>b, <4>1, SelectLengths
      <4> QED
        BY <3>2, <4>2
    <3> QED
      BY <1>1, <3>1, <3>2 DEF Leaves
  <2> QED
    BY <1>1, <1>a, <2>1 DEF Leaves, TeardownPcs
<1>2. CASE LeavesStack
  BY <1>2, <1>a DEF LeavesStack
<1>3. CASE KeepsBoot
  <2>1. Awaited' <=> Awaited
    BY <1>3 DEF KeepsBoot, Awaited
  <2>2. Top(boot_stack') = Top(boot_stack)
    BY <1>3 DEF KeepsBoot
  <2>3. CASE UNCHANGED <<pc, boot_status>>
    BY <1>3, <2>1, <2>2, <2>3 DEF KeepsBoot
  <2>4. CASE pc = "begin" /\ pc' = "pre_boot"
    BY <1>3, <2>1, <2>2, <2>4 DEF KeepsBoot
  <2>5. CASE InMain /\ pc' = "boot_done" /\ boot_status' = "FAIL"
    BY <1>3, <2>1, <2>2, <2>5 DEF KeepsBoot
  <2>6. CASE InMain /\ pc' \in LoopPcs /\ ~Running /\ ~Running'
    BY <1>3, <2>1, <2>2, <2>6 DEF KeepsBoot
  <2> QED
    BY <1>3, <2>3, <2>4, <2>5, <2>6 DEF KeepsBoot
<1>4. CASE FreshProcess /\ UNCHANGED calls
  BY <1>4, <1>a DEF FreshProcess
<1>5. CASE Call
  BY <1>5, <1>a DEF Call, obmc_boot_test_py, stackVars, loopVars, pickVars
<1>6. CASE setup \/ SetupFails
  <2>1. pc = "setup" /\ requested' = boot_stack' /\ UNCHANGED <<calls, boot_count>>
        /\ ~transitional_boot_selected'
    BY <1>6 DEF setup, SetupFails, SetupBegins, callVars
  <2>2. pc' \in {"ffdc", "first_purge", "loop", "cleanup"}
    BY <1>6 DEF setup, SetupFails, Abort
  <2> QED
    BY <1>a, <2>1, <2>2 DEF Awaited
<1>7. CASE PreBoot
  <2>1. /\ pc = "pre_boot" /\ pc' = "post_boot" /\ state' = strip_anchor_state(BootTable[next_boot].end)
        /\ UNCHANGED <<calls, boot_count, boot_stack, requested, phase, transitional_boot_selected,
            stack_mode>>
    BY <1>7 DEF PreBoot, InRunBoot, callVars, stackVars, loopVars
  <2>2. (Awaited' <=> Awaited) /\ Top(boot_stack') = Top(boot_stack)
    BY <2>1 DEF Awaited
  <2>3. InStackPhase /\ Awaited => StartMatches(state', Top(boot_stack'))
    BY <2>1, <2>2 DEF Arrives
  <2> QED
    BY <2>1, <2>2, <2>3
<1>8. CASE PostBoot
  <2>1. /\ pc = "post_boot" /\ pc' = "boot_done"
        /\ UNCHANGED <<calls, boot_count, boot_stack, requested, phase, transitional_boot_selected,
            stack_mode,
                       state>>
    BY <1>8 DEF PostBoot, InRunBoot, EndBoot, callVars, stackVars, loopVars
  <2>2. (Awaited' <=> Awaited) /\ Top(boot_stack') = Top(boot_stack)
    BY <2>1 DEF Awaited
  <2> QED
    BY <2>1, <2>2
<1>9. CASE BootDone
  <2>1. /\ pc = "boot_done" /\ pc' = "post_test_case" /\ boot_success' = (boot_status = "PASS")
        /\ UNCHANGED <<calls, boot_count, boot_stack, requested, phase, transitional_boot_selected,
            stack_mode,
                       state>>
    BY <1>9 DEF BootDone, callVars, stackVars, loopVars, pickVars
  <2>2. (Awaited' <=> Awaited) /\ Top(boot_stack') = Top(boot_stack)
    BY <2>1 DEF Awaited
  <2>3. (InStackPhase' <=> InStackPhase) /\ Running /\ ~Running' /\ UNCHANGED Used
    BY <2>1
  <2>4. Arrival'
    BY <2>1, <2>2
  <2> QED
    BY <2>1, <2>2, <2>3, <2>4
<1>10. CASE GiveUpLastBoot
  <2>1. Len(boot_stack') = 0 /\ Len(boot_stack) >= 1 /\ ~Awaited'
    BY <1>10, EmptySeq DEF GiveUpLastBoot, TypeInv, RunTypeOK, FileTypeOK, FlowTypeOK, Awaited
  <2>2. /\ pc = "select" /\ pc' = "loop"
        /\ UNCHANGED <<calls, boot_count, requested, phase>>
    BY <1>10 DEF GiveUpLastBoot, AtSelect, callVars, loopVars
  <2> QED
    BY <1>a, <2>1, <2>2
<1>11. CASE SelectNothing
  <2> PICK s \in MachineStates : SelectNothing!(s)
    BY <1>11 DEF SelectNothing
  <2>1. /\ pc = "select" /\ pc' = "loop" /\ ~Awaited' /\ UNCHANGED <<calls, boot_count, requested, phase>>
    BY DEF StateObtained, AtSelect, callVars, loopVars, Awaited
  <2>2. /\ Len(boot_stack') + 1 <= Len(Remaining) /\ Len(Remaining) \in Nat
    BY <1>b, SelectLengths
  <2>3. phase = "stack" /\ calls <= 1 => boot_count <= 2 * (Len(requested) - Len(Remaining)) + 1
    BY SelectCost
  <2> QED
    BY <1>a, <2>1, <2>2, <2>3
<1>12. CASE SelectFromStack
  <2> PICK s \in MachineStates : SelectFromStack!(s)
    BY <1>12 DEF SelectFromStack
  <2>1. /\ pc = "select" /\ pc' = "begin" /\ ~Awaited' /\ UNCHANGED <<calls, requested, phase>>
        /\ boot_count' = boot_count + 1
    BY DEF StateObtained, AtSelect, Begin, callVars, loopVars, Awaited
  <2>2. /\ Len(boot_stack') + 1 <= Len(Remaining) /\ Len(Remaining) \in Nat
    BY <1>b, SelectLengths
  <2>3. phase = "stack" /\ calls <= 1 => boot_count <= 2 * (Len(requested) - Len(Remaining)) + 1
    BY SelectCost
  <2> QED
    BY <1>a, <2>1, <2>2, <2>3
<1>13. CASE SelectTransition
  <2> PICK s \in MachineStates : SelectTransition!(s)
    BY <1>13 DEF SelectTransition
  <2> DEFINE p == Popped(Remaining, s)
  <2>1. /\ pc = "select" /\ pc' = "begin" /\ UNCHANGED <<calls, requested, phase, stack_mode>>
        /\ boot_count' = boot_count + 1
    BY DEF StateObtained, AtSelect, Begin, callVars, loopVars
  <2>2. p \in Boots /\ Rest(Remaining) \in Seq(Boots) /\ valid_state(s) /\ ~StartMatches(s, p)
    BY <1>b, StackTypes
  <2>3. /\ Len(boot_stack') = Len(Rest(Remaining)) + 1 /\ boot_stack' # << >>
        /\ boot_stack'[Len(Rest(Remaining)) + 1] = p
    BY <2>2, TransitionPushes
  <2>4. Top(boot_stack') = p
    BY <2>3 DEF Top
  <2>5. stack_mode' = "skip" => Len(boot_stack') = 1
    <3>1. stack_mode' = "skip" => Rest(Remaining) = << >>
      BY <2>1 DEF Rest
    <3> QED
      BY <2>3, <3>1, EmptySeq
  <2>6. PICK c \in Candidates(s, p) : Begin(c)
    OBVIOUS
  <2>7. next_boot' = c /\ Arrives(c, p)
    BY <2>2, <2>6 DEF Begin, LeadingTable
  <2>8. /\ Len(boot_stack') <= Len(Remaining) /\ Len(Remaining) \in Nat
    BY <1>b, <2>3, SelectLengths
  <2>9. phase = "stack" => ~(Awaited /\ boot_success)
    BY <2>2, TransitionOver
  <2>10. phase = "stack" /\ calls <= 1 => boot_count <= 2 * (Len(requested) - Len(Remaining))
    BY <2>9, SelectCost
  <2>11. Awaited'
    BY <2>3 DEF Awaited
  <2>12. Arrival'
    BY <2>1, <2>4, <2>5, <2>7
  <2>13. StackWorkBounded'
    BY <1>a, <2>1, <2>8, <2>10
  <2>14. InTestMode' /\ CountFromZero' /\ EntryCost'
    BY <2>1, <2>11
  <2> QED
    BY <2>12, <2>13, <2>14
<1>14. CASE SelectFromList
  <2> PICK s \in MachineStates : SelectFromList!(s)
    BY <1>14 DEF SelectFromList
  <2>1. phase # "stack"
    BY SelectBound
  <2> QED
    BY <1>a, <2>1 DEF StateObtained, AtSelect, Begin, callVars, loopVars
<1> HIDE DEF WorkInv
<1>15. InTestMode
  BY DEF WorkInv
<1> QED
  BY <1>0, <1>1, <1>2, <1>3, <1>4, <1>5, <1>6, <1>7, <1>8, <1>9, <1>10, <1>11, <1>12, <1>13, <1>14, <1>15,
     WorkSteps DEF WorkKinds

\* In test mode every entry of the stack costs at most two boots, itself and one
\* that leads to its start state, for every stack and both modes, whichever
\* plug-ins fail and whenever a stop is requested, with a boot table in which
\* the boots that may be chosen do lead there (select_boot, run_boot).
THEOREM StackWorkIsBounded ==
  ASSUME TestMode, LeadingTable
  PROVE  Spec => []StackWorkBounded
<1>1. Init => WorkInv
  BY DEF Init, WorkInv, InTestMode, CountFromZero, StackWorkBounded, EntryCost, Arrival, InStackPhase,
    InMain, WaitPcs, LoopPcs, RunBootPcs, ParmPcs
<1>2. BootInv => TypeInv /\ FailInv
  BY DEF BootInv
<1>3. TypeInv /\ TypeInv' /\ FailInv /\ WorkInv /\ [Next]_vars => WorkInv'
  BY WorkInvNext
<1>4. WorkInv => StackWorkBounded
  BY DEF WorkInv
<1> QED
  BY <1>1, <1>2, <1>3, <1>4, BootInvInit, BootInvNext, PTL DEF Spec

=============================================================================
