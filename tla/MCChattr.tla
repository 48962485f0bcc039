------------------------------ MODULE MCChattr ------------------------------
(* Source directories and modifiers for TLC.                               *)
EXTENDS ChattrProps

CONSTANTS a, b, blank

dir == [dir |-> TRUE, text |-> blank, cipher |-> FALSE]
plain(t) == [dir |-> FALSE, text |-> t, cipher |-> FALSE]
cipher(t) == [dir |-> FALSE, text |-> t, cipher |-> TRUE]

Tree(paths, nodes) == [p \in {paths[i] : i \in DOMAIN paths} |->
                         nodes[CHOOSE i \in DOMAIN paths : paths[i] = p]]

Age == <<".", "age">>
ExactD == <<"literal_", "exact_", "d">>

\* Two files whose target names differ by a template suffix only.
Suffixes == Tree(
  << << <<"encrypted_", "g", ".", "tmpl">> \o Age >>, << <<"g", ".", "tmpl", ".", "literal">> >> >>,
  <<cipher(a), plain(b)>>)

\* Target names that begin like attributes.
Literals == Tree(
  << <<ExactD>>, <<ExactD, <<"create_", "encrypted_", "private_", "dot_", "f">> \o Age>>,
     << <<"symlink_", "literal_", "run_", "g">> >> >>,
  <<dir, cipher(a), plain(b)>>)

\* A script and a modify script.
Kinds == Tree(
  << << <<"run_", "once_", "before_", "g">> >>, << <<"d">> >>,
     << <<"d">>, <<"modify_", "private_", "literal_", "dot_", "f">> >> >>,
  <<plain(a), dir, plain(b)>>)

SortedTargets == <<
  << <<".", "d">> >>, << <<".", "d">>, <<"f">> >>,
  << <<"d">> >>, << <<"d">>, <<"dot_", "f">> >>, << <<"d">>, <<"f">> >>,
  << <<"d">>, <<"empty_", "f">> >>, << <<"d">>, <<"empty_", "private_", "f">> >>,
  << <<"d">>, <<"private_", "empty_", "f">> >>,
  << <<"exact_", "d">> >>, << <<"exact_", "d">>, <<".", "f">> >>,
  << <<"f">> >>, << <<"g">> >>, << <<"g", ".", "tmpl">> >>, << <<"h">> >>,
  << <<"run_", "g">> >> >>

Attributes == {"after", "create", "empty", "encrypted", "exact", "modify", "once",
               "private", "remove", "script", "symlink", "template"}
Singles == {<< <<op, k>> >> : op \in {"set", "clear"}, k \in Attributes}
Pairs == {<<>>, << <<"set", "create">>, <<"clear", "encrypted">> >>,
          << <<"set", "modify">>, <<"clear", "symlink">>, <<"set", "private">> >>}
AllModifiers == Singles \cup Pairs
AgeSuffix == Age
AllWords == Vocabulary \cup {"age", "d", "f", "g", "h"}
SmallTrees == {Suffixes, Literals, Kinds}
=============================================================================
