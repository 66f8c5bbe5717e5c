----------------------------- MODULE StateMatch -----------------------------
(***************************************************************************)
(* How lib/state.py compares machine states.                               *)
(*                                                                         *)
(* A machine state is a dictionary: a function from some field names       *)
(* ("chassis", "host", ...) to the text reported for each of them.  A      *)
(* match state is a dictionary of regular expressions.  A regular          *)
(* expression is a record                                                  *)
(*   text  the expression as it is written ("^On$"),                       *)
(*   bare  the expression without its anchors ("On"),                      *)
(*   alts  the texts of the model which re.match accepts.                  *)
(* The text of an anchored expression is itself a text, and one that no    *)
(* anchored expression accepts: this matters where the code compares one   *)
(* boot table entry with another.                                          *)
(***************************************************************************)

\* re.match(match_state_value, str(state[key])), with a missing key caught as
\* "no match".
Hit(state, match_state, key) ==
  /\ key \in DOMAIN state
  /\ state[key] \in match_state[key].alts

\* A blank match value means "don't care".
Considered(match_state) == {k \in DOMAIN match_state : match_state[k].text # ""}

\* The loop leaves at the first key which differs from the default answer:
\* TRUE for "and", FALSE for "or".
compare_states(state, match_state, match_type) ==
  IF match_type = "and"
  THEN \A k \in Considered(match_state) : Hit(state, match_state, k)
  ELSE \E k \in Considered(match_state) : Hit(state, match_state, k)

\* The expression which matches exactly the text v.
Exactly(anchored, v) == [text |-> anchored, bare |-> v, alts |-> {v}]

\* The state which pretends that a match state has been reached: every
\* expression without its anchors.
strip_anchor_state(match_state) ==
  [k \in DOMAIN match_state |-> match_state[k].bare]

\* A match state passed where a state is expected: its expressions are taken
\* as they are written.
AsState(match_state) == [k \in DOMAIN match_state |-> match_state[k].text]

=============================================================================
