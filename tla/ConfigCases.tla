---------------------------- MODULE ConfigCases ----------------------------
(***************************************************************************)
(* Config templates and command lines for ConfigFile: questions of every   *)
(* kind, an int of both formats, and a template that makes an invalid file. *)
(***************************************************************************)
Unset == "unset"
NoValue == <<"none", "">>

Ask(kind, once, default) == [kind |-> kind, once |-> once, default |-> default]
T(id, format, set, ok, ask) == [id |-> id, format |-> format, set |-> set, ok |-> ok, ask |-> ask]
CaseTemplates ==
  { T("t1", "toml", "on", TRUE, Ask("bool", TRUE, NoValue)),
    T("t2", "toml", Unset, TRUE, Ask("string", TRUE, NoValue)),
    T("t3", "yaml", "off", TRUE, Ask("choice", FALSE, <<"string", "a">>)),
    T("t4", "toml", "on", FALSE, Ask("multichoice", TRUE, <<"list", "a">>)),
    T("t5", "yaml", "on", TRUE, Ask("int", TRUE, NoValue)),
    T("t6", "toml", "off", TRUE, Ask("int", TRUE, <<"int", "1">>)) }

C(name) == [name |-> name, init |-> TRUE, dry |-> FALSE, force |-> FALSE, flag |-> Unset, prompt |-> FALSE,
            data |-> TRUE, defaults |-> FALSE, given |-> "", apply |-> FALSE]
Commands ==
  { C("init"), [C("init") EXCEPT !.apply = TRUE, !.flag = "off", !.given = "true"],
    [C("init") EXCEPT !.prompt = TRUE, !.defaults = TRUE], [C("init") EXCEPT !.data = FALSE, !.force = TRUE, !.apply = TRUE],
    [C("init") EXCEPT !.dry = TRUE, !.apply = TRUE],
    C("apply"), [C("apply") EXCEPT !.init = FALSE], [C("apply") EXCEPT !.init = FALSE, !.force = TRUE],
    C("status"), C("verify") }
============================================================================
