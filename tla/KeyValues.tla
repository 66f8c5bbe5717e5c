------------------------------ MODULE KeyValues -----------------------------
(***************************************************************************)
(* The functions of lib/var_funcs.py which turn the output of programs     *)
(* into dictionaries and lists and search them.  A line of output is its   *)
(* indentation, the text left of the delimiter, whether there is one, and  *)
(* the text right of it; texts are members of small sets.                  *)
(***************************************************************************)
EXTENDS Integers, Sequences, SequencesExt, FiniteSets

CONSTANTS
  MaxLines,      \* bound: the lines of an output
  MaxGrowth,     \* bound: the steps that build a structure
  MaxRows        \* bound: the rows of a report

ASSUME KeyValuesAssumption == MaxLines \in Nat /\ MaxGrowth \in Nat /\ MaxRows \in Nat

VARIABLES
  out_buf,       \* the lines of a program's output
  structure,     \* a nested structure
  report_list,   \* [table, ruled] of a report, as its owner has it
  reports        \* what list_to_report made of it, call by call

keyVars == <<out_buf, structure, report_list, reports>>

-----------------------------------------------------------------------------
(* parse_key_value *)

Blank == [indent |-> 0, text |-> "", delim |-> FALSE, value |-> ""]

Lines ==
  {Blank} \cup [indent : 0..2, text : {"key"}, delim : {FALSE}, value : {""}]
          \cup [indent : 0..2, text : {"Key"}, delim : {TRUE}, value : {"", "v"}]
          \cup [indent : 0..1, text : {"other"}, delim : {TRUE}, value : {""}]

\* to_lower and underscores: two texts may be one key.
Lower(text) == IF text = "Key" THEN "key" ELSE text

\* A line without delimiter is a key whose value is blank.
parse_key_value(l) == [key |-> Lower(l.text), value |-> l.value]

-----------------------------------------------------------------------------
(* key_value_list_to_dict; a dictionary is a set of entries *)

Text(v) == [is |-> "text", of |-> v]

Put(dict, key, value) == {en \in dict : en.key # key} \cup {[key |-> key, value |-> value]}

\* Without process_indent.
FlatDict(entries) ==
  FoldLeft(LAMBDA d, l : Put(d, parse_key_value(l).key, Text(parse_key_value(l).value)),
           {}, entries)

\* The lines below an entry: a dictionary if any has the delimiter.
SubObject(sub_list) ==
  IF \E i \in 1..Len(sub_list) : sub_list[i].delim
  THEN [is |-> "dict", of |-> FlatDict(sub_list)]
  ELSE [is |-> "list", of |-> [i \in 1..Len(sub_list) |-> sub_list[i].text]]

\* Mutant: the lines kept for the entry before are not put away.
Bug_Flush(s) == [s EXCEPT !.sub_list = <<>>]

\* The lines kept are put under the entry above them.
Flush(s) ==
  IF s.sub_list = <<>> THEN s
  ELSE [s EXCEPT !.dict = Put(s.dict, s.parent_key, SubObject(s.sub_list)), !.sub_list = <<>>]

\* One round of the loop.
Indented(s, l) ==
  LET kv == parse_key_value(l) f == Flush(s)
  IN  IF l.indent > s.parent_indent /\ s.parent_value = ""
      THEN [s EXCEPT !.sub_list = Append(s.sub_list, l)]
      ELSE [f EXCEPT !.dict = Put(f.dict, kv.key, Text(kv.value)), !.parent_key = kv.key,
                     !.parent_value = kv.value, !.parent_indent = l.indent]

\* With process_indent, for at least one line.
key_value_list_to_dict(entries) ==
  Flush(FoldLeft(Indented,
                 [dict |-> {}, sub_list |-> <<>>, parent_key |-> "", parent_value |-> "-",
                  parent_indent |-> entries[1].indent],
                 entries)).dict

\* The null lines are left out first.
key_value_outbuf_to_dict(lines) ==
  key_value_list_to_dict(SelectSeq(lines, LAMBDA l : l # Blank))

\* The last lines of the sections: re.split at the blank lines.
SectionEnds(lines) ==
  {i \in 1..Len(lines) : lines[i] # Blank /\ (i = Len(lines) \/ lines[i + 1] = Blank)}

Section(lines, end) ==
  LET blanks == {i \in 0..end - 1 : i = 0 \/ lines[i] = Blank}
  IN  SubSeq(lines, 1 + CHOOSE b \in blanks : \A c \in blanks : c <= b, end)

key_value_outbuf_to_dicts(lines) ==
  LET ends == SetToSortSeq(SectionEnds(lines), <)
  IN  [s \in 1..Len(ends) |-> key_value_outbuf_to_dict(Section(lines, ends[s]))]

\* An output that neither begins nor ends with a blank line grows.
AddLine ==
  /\ Len(out_buf) < MaxLines
  /\ \E l \in Lines : (out_buf = <<>> => l # Blank) /\ out_buf' = Append(out_buf, l)
  /\ UNCHANGED <<structure, report_list, reports>>

-----------------------------------------------------------------------------
(* nested_get, match_struct and filter_struct *)

KeyNames == {"a", "b"}
Leaf(v)  == [is |-> "leaf", of |-> v]
Leaves   == {Leaf(v) : v \in {"x", "y"}}
Empty(k) == [is |-> k, of |-> <<>>]

\* The values within a list or dictionary.
Values(s) ==
  CASE s.is = "leaf" -> <<>>
    [] s.is = "list" -> s.of
    [] s.is = "dict" -> [i \in 1..Len(s.of) |-> s.of[i].value]

RECURSIVE nested_get(_, _)
\* The values of all the entries with the key, however deep.
nested_get(key, s) ==
  FlattenSeq([i \in 1..Len(Values(s)) |->
    nested_get(key, Values(s)[i])
      \o (IF s.is = "dict" /\ s.of[i].key = key THEN <<Values(s)[i]>> ELSE <<>>)])

RECURSIVE Texts(_)
\* What a regular expression may find in str(s): its leaves and its keys.
Texts(s) ==
  IF s.is = "leaf" THEN {s.of}
  ELSE UNION {Texts(Values(s)[i]) : i \in 1..Len(Values(s))}
         \cup (IF s.is = "dict" THEN {s.of[i].key : i \in 1..Len(s.of)} ELSE {})

Missing == "None"

\* A match value of None asks for the key to be absent.
match_struct(s, match_dict, regex) ==
  \A k \in DOMAIN match_dict :
    LET got == Range(nested_get(k, s)) mv == match_dict[k]
    IN  CASE mv = Missing -> got = {}
          [] mv # Missing /\ regex -> \E g \in got : mv \in Texts(g)
          [] mv # Missing /\ ~regex -> Leaf(mv) \in got

\* The elements of a list, or the entries of a dictionary.
filter_struct(s, filter_dict, regex, invert) ==
  SelectSeq(s.of, LAMBDA el :
    match_struct(IF s.is = "list" THEN el ELSE el.value, filter_dict, regex) # invert)

RECURSIVE Size(_)
Size(s) == 1 + FoldLeft(LAMBDA n, v : n + Size(v), 0, Values(s))

\* A structure is put into a list or under a key, or something is added to it.
Grow ==
  /\ Size(structure) < MaxGrowth
  /\ \/ structure' = [is |-> "list", of |-> <<structure>>]
     \/ \E k \in KeyNames :
          structure' = [is |-> "dict", of |-> <<[key |-> k, value |-> structure]>>]
     \/ \E l \in Leaves \cup {Empty("list")} :
          /\ structure.is = "list"
          /\ structure' = [structure EXCEPT !.of = Append(structure.of, l)]
     \/ \E l \in Leaves, k \in KeyNames :
          /\ structure.is = "dict" /\ \A i \in 1..Len(structure.of) : structure.of[i].key # k
          /\ structure' = [structure EXCEPT !.of = Append(structure.of, [key |-> k, value |-> l])]
  /\ UNCHANGED <<out_buf, report_list, reports>>

-----------------------------------------------------------------------------
(* list_to_report, for a table of two columns; a cell is a list of words *)

Headers == {<< <<"c">>, <<"d">> >>, << <<"c", "of">>, <<"d">> >>}
Cells   == {<<>>, <<"w">>, <<"w", "u">>}

Words(row) == row[1] \o row[2]

\* zip(columns, cells): by the widths of the ruled line, or word by word.
ZipRow(columns, cells) ==
  {<<columns[i], cells[i]>> : i \in (1..Len(columns)) \cap (1..Len(cells))}

\* The rows of a report whose second line is the ruled line, or is not.
ReportOf(table, ruled) ==
  [r \in 2..Len(table) |->
     IF ruled THEN ZipRow(table[1], table[r])
     ELSE ZipRow(Words(table[1]), Words(table[r]))]

AddRow ==
  /\ reports = <<>> /\ Len(report_list.table) < MaxRows
  /\ \E c, d \in Cells :
       /\ c \o d # <<>>
       /\ report_list' = [report_list EXCEPT !.table = Append(report_list.table, <<c, d>>)]
  /\ UNCHANGED <<out_buf, structure, reports>>

\* del report_list[1] is the caller's list unless a field delimiter made a copy.
Left(field_delim) == IF field_delim THEN report_list ELSE [report_list EXCEPT !.ruled = FALSE]

list_to_report(field_delim) ==
  /\ Len(report_list.table) > 1 /\ Len(reports) < 2
  /\ reports' = Append(reports, [copied |-> field_delim,
                                 of |-> ReportOf(report_list.table, report_list.ruled)])
  /\ report_list' = Left(field_delim)
  /\ UNCHANGED <<out_buf, structure>>

-----------------------------------------------------------------------------
KeyInit ==
  /\ out_buf = <<>> /\ structure \in Leaves \cup {Empty("list"), Empty("dict")}
  /\ report_list \in [table : {<<h>> : h \in Headers}, ruled : BOOLEAN] /\ reports = <<>>

Untouched == [table |-> << << <<"c">>, <<"d">> >> >>, ruled |-> TRUE]

\* One kind of object at a time.
KeyNext ==
  \/ structure = Empty("list") /\ report_list = Untouched /\ AddLine
  \/ out_buf = <<>> /\ report_list = Untouched /\ Grow
  \/ out_buf = <<>> /\ structure = Empty("list")
       /\ (AddRow \/ \E f \in BOOLEAN : list_to_report(f))

KeySpec == KeyInit /\ [][KeyNext]_keyVars

-----------------------------------------------------------------------------
\* A line is below another: that one has no value, and all the lines after it
\* down to this one are indented more.
Below(s, p, i) == p < i /\ s[p].value = "" /\ \A k \in p + 1..i : s[k].indent > s[p].indent

TopLines(s) == {i \in 1..Len(s) : ~\E p \in 1..i - 1 : Below(s, p, i)}

\* The entries of a section, from what is written of process_indent: "An entry
\* may have a sub-dict or sub-list if 1) It has no value other than blank 2) There
\* are entries below it that are indented."
Entry(s, p) ==
  LET n == Cardinality({i \in 1..Len(s) : Below(s, p, i)})
  IN  [key |-> Lower(s[p].text),
       value |-> IF n = 0 THEN Text(s[p].value) ELSE SubObject(SubSeq(s, p + 1, p + n))]

\* The dictionaries made of an output hold, for every section, the last entry of
\* every key that is not below another, with all that is below it and nothing
\* that is below another (key_value_list_to_dict with process_indent).
DictsRight ==
  out_buf # <<>> /\ Last(out_buf) # Blank =>
    LET ends == SetToSortSeq(SectionEnds(out_buf), <)
        dicts == key_value_outbuf_to_dicts(out_buf)
    IN  \A d \in 1..Len(ends) :
          LET s == Section(out_buf, ends[d])
          IN  dicts[d] = {Entry(s, p) : p \in {q \in TopLines(s) :
                \A r \in TopLines(s) : r > q => Lower(s[r].text) # Lower(s[q].text)}}

RECURSIVE Within(_)
\* All the structures a structure is made of.
Within(s) == {s} \cup UNION {Within(Values(s)[i]) : i \in 1..Len(Values(s))}

EntriesWithin(s) == UNION {Range(t.of) : t \in {u \in Within(s) : u.is = "dict"}}

\* filter_struct keeps the elements in which, at any depth, an entry has the key
\* and the value (or in which none has the key), and those it leaves out are the
\* ones it keeps when inverted; a regular expression finds no fewer.
FilterRight ==
  structure.is # "leaf" =>
    \A k \in KeyNames, mv \in {"x", Missing} :
      LET f == [x \in {k} |-> mv]
          el(i) == Values(structure)[i]
          fits(i) == IF mv = Missing THEN \A en \in EntriesWithin(el(i)) : en.key # k
                     ELSE [key |-> k, value |-> Leaf(mv)] \in EntriesWithin(el(i))
          kept == {i \in 1..Len(structure.of) : fits(i)}
          Of(set) == [n \in 1..Cardinality(set) |-> structure.of[SetToSortSeq(set, <)[n]]]
      IN  /\ filter_struct(structure, f, FALSE, FALSE) = Of(kept)
          /\ filter_struct(structure, f, FALSE, TRUE) = Of((1..Len(structure.of)) \ kept)
          /\ Range(Of(kept)) \subseteq Range(filter_struct(structure, f, TRUE, FALSE))

\* The report of a list does not depend on how often it was made before, if the
\* calls work on copies (field_delim).
ReportStable ==
  Len(reports) = 2 /\ reports[1].copied => reports[1].of = reports[2].of

\* Parsers, filters and reports give what their descriptions say, for every
\* text and structure within the bounds.
TextsRight == DictsRight /\ FilterRight /\ ReportStable

=============================================================================
