----------------------------- MODULE FfdcPlugins ----------------------------
(***************************************************************************)
(* The plug-in blocks of the log collector (ffdc/ffdc_collector.py): the   *)
(* names a block declares for its results, the module's global dictionary  *)
(* that holds them, and the substitution of names in arguments and         *)
(* commands.                                                               *)
(*                                                                         *)
(* Data.  A text is a sequence of words <<kind, name>>: a literal "lit",   *)
(* the name of a plug-in variable "var", an environment variable "env" or  *)
(* its value "val", or output "out" of a call.  A value is a record with   *)
(* its Python type, or "zero" for the number 0 and "empty_dict" for {}.    *)
(* Output and the environment hold no name of a variable and no name is    *)
(* part of another one, so the order in which names are replaced is        *)
(* immaterial.                                                             *)
(***************************************************************************)
EXTENDS Integers, Sequences, SequencesExt

CONSTANT EnvVars   \* the names set in os.environ

Text(words) == [type |-> "str", words |-> words]
Empty == Text(<<>>)
IsText(value) == value.type = "str"

\* The plug-in globals: global_plugin_list, global_plugin_dict and
\* global_plugin_error_dict["exit_on_error"].
NoPlugins == [list |-> <<>>, dict |-> <<>>, exit_on_error |-> FALSE]

-----------------------------------------------------------------------------
(* Substitution *)

IsName(dict, word) == word[1] = "var" /\ word[2] \in DOMAIN dict

Bug_Updated(dict, arg) == arg
\* A string value replaces its name wherever it occurs.  Another value
\* replaces an argument which is just its name; ref_dict[element] raises a
\* KeyError, which is ignored, for any other argument.
Updated(dict, arg) ==
  LET Subst(word) == IF IsName(dict, word) /\ IsText(dict[word[2]])
                     THEN dict[word[2]].words ELSE <<word>>
  IN CASE ~IsText(arg) -> arg
       [] /\ IsText(arg) /\ Len(arg.words) = 1
          /\ IsName(dict, arg.words[1]) -> dict[arg.words[1][2]]
       [] OTHER -> Text(FlattenSeq([k \in 1..Len(arg.words) |-> Subst(arg.words[k])]))

update_vars_with_env_values(dict, args) == [k \in 1..Len(args) |-> Updated(dict, args[k])]

\* ${name} becomes the value; a name the environment lacks is kept.  A
\* plug-in variable is looked up only in an argument that held a ${name},
\* and only if the argument is then just its name, which it is not.
yaml_env_and_plugin_vars_populate(arg) ==
  LET Subst(word) == IF word[1] = "env" /\ word[2] \in EnvVars THEN <<"val", word[2]>> ELSE word
  IN Text([k \in 1..Len(arg.words) |-> Subst(arg.words[k])])

yaml_args_populate(args) ==
  [k \in 1..Len(args) |->
     IF IsText(args[k]) THEN yaml_env_and_plugin_vars_populate(args[k]) ELSE args[k]]

-----------------------------------------------------------------------------
(* Results *)

\* What the response is split into for the declared names.
Items(list, resp) ==
  CASE resp.type \in {"str", "int", "zero"} -> <<resp>>
    [] resp.type \in {"list", "tuple"} /\ Len(list) = 1 -> <<[resp EXCEPT !.type = "list"]>>
    [] resp.type \in {"list", "tuple"} /\ Len(list) # 1 -> resp.items
    [] OTHER -> <<>>

\* A list whose items are not strings cannot be stripped: AttributeError.
Unstripped(list, resp) ==
  list # <<>> /\ resp.type = "list" /\ \E k \in DOMAIN resp.items : ~IsText(resp.items[k])

\* Nothing is changed, the list included, when no name is declared or the
\* function returned the text "None".
process_response_args_data(ps, resp) ==
  LET items == Items(ps.list, resp)
      n     == IF Len(items) < Len(ps.list) THEN Len(items) ELSE Len(ps.list)
      given == {ps.list[k] : k \in 1..n}
      from(x) == Max({k \in 1..n : ps.list[k] = x})
  IN IF ps.list = <<>> \/ resp.type = "None_text" THEN ps
     ELSE [ps EXCEPT !.list = <<>>,
                     !.dict = [x \in DOMAIN ps.dict \cup given |->
                                 IF x \in given THEN items[from(x)] ELSE ps.dict[x]]]

\* The names before " = " of plugin_function.
Declared(ps, names) ==
  [ps EXCEPT !.list = @ \o names,
             !.dict = [x \in DOMAIN ps.dict \cup Range(names) |->
                         IF x \in Range(names) THEN Empty ELSE ps.dict[x]]]

\* What a call of the function leads to: a value, the text "None", no value
\* ("none"), an exception ("raised"), or an ImportError or AttributeError.
ExecError == Text(<< <<"lit", "PLUGIN_EXEC_ERROR">> >>)
execute_python_function(outcome) == IF outcome.type = "import_error" THEN ExecError ELSE outcome

Truth(resp) ==
  CASE resp.type = "str" -> resp.words # <<>>
    [] resp.type \in {"list", "tuple"} -> resp.items # <<>>
    [] OTHER -> resp.type \notin {"none", "zero", "empty_dict", "raised"}

\* plugin_expects: "nothing" or a type; "?" is a type that is not recognised.
plugin_expect_type(expects, resp) ==
  \/ expects = "?"
  \/ expects = resp.type
  \/ expects = "str" /\ resp.type = "None_text"

\* A plugin_args without arguments is None: the loop over it raises, and the
\* function is not called.
Called(block) == ~block.blank_args
PluginArgs(ps, block) == update_vars_with_env_values(ps.dict, yaml_args_populate(block.args))

\* The globals after the block, and what it returns: "" after an exception of
\* the function.
execute_plugin_block(ps, block, outcome) ==
  LET declared == Declared(ps, block.declares)
      raised   == ~Called(block) \/ outcome.type = "raised"
      result   == IF raised THEN Empty ELSE execute_python_function(outcome)
      broken   == raised \/ outcome.type = "import_error"
      unread   == ~broken /\ Unstripped(declared.list, result)
      answered == IF broken \/ unread THEN declared
                  ELSE process_response_args_data(declared, result)
      missing  == /\ outcome.type # "import_error" /\ block.expects # "nothing"
                  /\ ~Truth(result) \/ ~plugin_expect_type(block.expects, result)
  IN [ps |-> [answered EXCEPT !.exit_on_error = @ \/ broken \/ unread \/ missing], result |-> result]

Bug_plugin_error_check(ps, block) == FALSE
\* plugin_error: continue_on_error is never TRUE, so only exit_on_error skips.
plugin_error_check(ps, block) == block.plugin_error = "exit_on_error" /\ ps.exit_on_error

=============================================================================
