----------------------------- MODULE Validation -----------------------------
(***************************************************************************)
(* lib/gen_valid.py and lib/gen_robot_valid.py: a program, or a robot      *)
(* suite, validates values one after the other.  What a validation does    *)
(* depends on how it is called: with its result assigned, tested or left   *)
(* alone, and on exit_on_error.  Error texts are abstracted to whether     *)
(* there is one.  The file system and the programs asked are external.     *)
(***************************************************************************)
EXTENDS Integers, Sequences, SequencesExt, FiniteSets

CONSTANTS
  TextValues,        \* the values validated; "" is a blank one
  Lists,             \* lists of valid, invalid or required values, as sets:
                     \* {} if none is given
  Items,             \* the lists validated
  Dicts,             \* the dictionaries validated
  ListsByKey,        \* valid or invalid values for some of the keys
  Numbers,           \* the numbers validated
  Bounds,            \* lower and upper limits
  MaxValidations     \* bound: the validations of a program

ASSUME ValidationAssumption ==
  /\ Items \subseteq Seq(TextValues)
  /\ \A l \in ListsByKey : \A k \in DOMAIN l : l[k] # {}
  /\ Numbers \subseteq Int /\ Bounds \subseteq Int
  /\ MaxValidations \in Nat

VARIABLES
  exit_on_error,
  program,         \* "runs", "exited" or "failed" (a robot keyword)
  branch,          \* what the last test found: "none", "valid" or "invalid"
  count,           \* the validations so far
  last             \* ghost: the last one: call, use and exit_on_error

validVars == <<exit_on_error, program, branch, count, last>>

None     == <<>>            \* no lower or upper limit
Limits   == {None} \cup {<<n>> : n \in Bounds}
PathKind == {"file", "directory", "nothing"}

-----------------------------------------------------------------------------
(* Whether there is an error message *)

Type_Error(c) == c.type \notin c.types

\* A value is not one of those listed, or one of the invalid ones: blank unless
\* given.
Value_Error(v, valid_values, invalid_values) ==
  \/ valid_values # {} /\ invalid_values # {}
  \/ valid_values # {} /\ v \notin valid_values
  \/ valid_values = {} /\ v \in (IF invalid_values = {} THEN {""} ELSE invalid_values)

\* None of the cases that end without a message: no limit; the upper one only;
\* the lower one only; both, in order.
Range_Error(v, lower, upper) ==
  ~\/ lower = None /\ upper = None
   \/ lower = None /\ upper # None /\ v <= upper[1]
   \/ upper = None /\ lower # None /\ v >= lower[1]
   \/ lower # None /\ upper # None /\ lower[1] <= upper[1] /\ lower[1] <= v /\ v <= upper[1]

\* int(str(v), 0), or float, raises for a text that is not a number.
Number_Error(c) == ~c.number \/ Range_Error(c.v, c.lower, c.upper)

Length_Error(c) == Range_Error(Len(c.object), c.lower, c.upper)

Path_Error(c) == c.kind \notin c.wanted

\* `date -d` cannot read the value.
Date_Error(c) == c.rc # 0

\* `which` does not find the program.
Program_Error(c) == c.rc # 0

\* An odd number of the three lists has to be given.  The required values go
\* first, then the invalid ones.
ListsGiven(c) == {l \in {"valid", "invalid", "required"} : c[l] # {}}
List_Error(c) ==
  \/ Cardinality(ListsGiven(c)) % 2 = 0
  \/ c.fail_on_empty /\ c.list = <<>>
  \/ CASE c.required # {} -> ~(c.required \subseteq Range(c.list))
       [] c.required = {} /\ c.invalid # {} -> Range(c.list) \cap c.invalid # {}
       [] c.required = {} /\ c.invalid = {} -> ~(Range(c.list) \subseteq c.valid)

\* The keys required, those of valid_values too; then the values, key by key.
\* A key in invalid_values need not be there.
Dict_Error(c) ==
  \/ ~(c.required \cup DOMAIN c.valid \subseteq DOMAIN c.dict)
  \/ \E k \in DOMAIN c.valid : Value_Error(c.dict[k], c.valid[k], {})
  \/ \E k \in DOMAIN c.invalid \cap DOMAIN c.dict : Value_Error(c.dict[k], {}, c.invalid[k])

Error(c) ==
  CASE c.f = "type"   -> Type_Error(c)
    [] c.f = "value"  -> Value_Error(c.v, c.valid, c.invalid)
    [] c.f = "number" -> Number_Error(c)
    [] c.f = "length" -> Length_Error(c)
    [] c.f = "path"   -> Path_Error(c)
    [] c.f = "date"   -> Date_Error(c)
    [] c.f = "program" -> Program_Error(c)
    [] c.f = "list"   -> List_Error(c)
    [] c.f = "dict"   -> Dict_Error(c)

\* The validations made.
Calls ==
  [f : {"type"}, type : {"int", "str"}, types : {{"int"}, {"int", "str"}}]
  \cup [f : {"value"}, v : TextValues, valid : Lists, invalid : Lists]
  \cup [f : {"number"}, number : BOOLEAN, v : Numbers, lower : Limits, upper : Limits]
  \cup [f : {"length"}, object : Items, lower : Limits, upper : Limits]
  \cup [f : {"path"}, kind : PathKind, wanted : {{"file"}, {"directory"}, {"file", "directory"}}]
  \cup [f : {"date", "program"}, rc : {0, 1}]
  \cup [f : {"list"}, list : Items, valid : Lists, invalid : Lists, required : Lists,
        fail_on_empty : BOOLEAN]
  \cup [f : {"dict"}, dict : Dicts, required : {DOMAIN d : d \in Dicts}, valid : ListsByKey,
        invalid : ListsByKey]

-----------------------------------------------------------------------------
(* process_error_message *)

\* Mutant: with exit_on_error a message ends the program, whoever asks for it.
Bug_process_error_message(error, assigned) ==
  IF error /\ exit_on_error THEN "exit" ELSE IF assigned THEN (IF error THEN "message" ELSE "blank")
  ELSE IF error THEN "False" ELSE IF exit_on_error THEN "None" ELSE "True"

\* What a validation returns, or "exit".
process_error_message(error, assigned) ==
  CASE assigned -> IF error THEN "message" ELSE "blank"
    [] ~assigned /\ ~error -> IF exit_on_error THEN "None" ELSE "True"
    [] ~assigned /\ error -> IF exit_on_error THEN "exit" ELSE "False"

set_exit_on_error ==
  /\ program = "runs" /\ exit_on_error' = ~exit_on_error
  /\ UNCHANGED <<program, branch, count, last>>

Validated(c, use) ==
  /\ program = "runs" /\ count < MaxValidations /\ count' = count + 1
  /\ last' = [call |-> c, use |-> use, exits |-> exit_on_error]
  /\ UNCHANGED exit_on_error

GoesOn(result) == program' = IF result = "exit" THEN "exited" ELSE "runs"

\* valid_value(v): the result is left alone.
Statement(c) ==
  /\ Validated(c, "statement") /\ branch' = "none"
  /\ GoesOn(process_error_message(Error(c), FALSE))

\* if not valid_value(v): ...
Tested(c) ==
  LET r == process_error_message(Error(c), FALSE)
  IN  /\ Validated(c, "tested") /\ GoesOn(r)
      /\ branch' = IF r = "exit" THEN "none" ELSE IF r = "True" THEN "valid" ELSE "invalid"

\* error_message = valid_value(v), and the caller looks at the message.
Assigned(c) ==
  LET r == process_error_message(Error(c), TRUE)
  IN  /\ Validated(c, "assigned") /\ GoesOn(r)
      /\ branch' = IF r = "message" THEN "invalid" ELSE "valid"

\* The keywords of gen_robot_valid: BuiltIn().fail if there is a message, or if
\* the variable is not defined.
Keyword(c) ==
  /\ Validated(c, "keyword") /\ branch' = "none"
  /\ program' = IF process_error_message(Error(c), TRUE) = "blank" THEN "runs" ELSE "failed"

valid_var_name ==
  /\ program = "runs" /\ program' = "failed"
  /\ UNCHANGED <<exit_on_error, branch, count, last>>

ValidInit ==
  /\ exit_on_error \in BOOLEAN /\ program = "runs" /\ branch = "none" /\ count = 0
  /\ last = [call |-> [f |-> "date", rc |-> 0], use |-> "statement", exits |-> FALSE]

ValidNext ==
  \/ set_exit_on_error \/ valid_var_name
  \/ \E c \in Calls : Statement(c) \/ Tested(c) \/ Assigned(c) \/ Keyword(c)

ValidSpec == ValidInit /\ [][ValidNext]_validVars

-----------------------------------------------------------------------------
\* What the descriptions of the functions say a valid value is.  They allow one
\* of the three lists of valid_list; all three at once are not refused, and the
\* required values decide then.
WithinLimits(n, c) ==
  /\ c.lower = None \/ c.lower[1] <= n
  /\ c.upper = None \/ n <= c.upper[1]

Described(c) ==
  CASE c.f = "value" ->
         /\ {} \in {c.valid, c.invalid}
         /\ c.v \notin (IF c.valid = {} /\ c.invalid = {} THEN {""} ELSE c.invalid)
         /\ c.valid # {} => c.v \in c.valid
    [] c.f = "number" -> c.number /\ WithinLimits(c.v, c)
    [] c.f = "length" -> WithinLimits(Len(c.object), c)
    [] c.f = "list" ->
         /\ Cardinality(ListsGiven(c)) \in {1, 3}
         /\ c.fail_on_empty => c.list # <<>>
         /\ \A w \in c.required : w \in Range(c.list)
         /\ c.required = {} =>
              /\ c.valid # {} => \A i \in DOMAIN c.list : c.list[i] \in c.valid
              /\ c.invalid # {} => \A i \in DOMAIN c.list : c.list[i] \notin c.invalid
    [] c.f = "dict" ->
         /\ \A k \in c.required : k \in DOMAIN c.dict
         /\ \A k \in DOMAIN c.valid : k \in DOMAIN c.dict /\ c.dict[k] \in c.valid[k]
         /\ \A k \in DOMAIN c.dict \cap DOMAIN c.invalid : c.dict[k] \notin c.invalid[k]
    [] OTHER -> ~Error(c)

\* A program with exit_on_error, and a robot suite, gets past its validations
\* only if the values are what the descriptions call valid; a program exits only
\* at one that is not, whose message it did not ask for.
PastOnlyIfValid ==
  /\ program = "runs" /\ (last.use = "keyword" \/ (last.use # "assigned" /\ last.exits))
       => Described(last.call)
  /\ program = "exited" => last.use \in {"statement", "tested"} /\ last.exits /\ ~Described(last.call)

\* A caller who tests the result or the message sees what the descriptions say,
\* but for one who tests the result while exit_on_error is set: the program
\* exits at a wrong value, and a valid one gives None, which tests as invalid.
TestSees ==
  program = "runs" /\ branch # "none"
    => (branch = "valid" <=> Described(last.call) /\ ~(last.use = "tested" /\ last.exits))

\* Whichever way a validation is called, a wrong value is never taken for a
\* valid one; a valid value is taken for a wrong one by those callers alone who
\* test the result while exit_on_error is set.
ValidationsRight == PastOnlyIfValid /\ TestSees

=============================================================================
