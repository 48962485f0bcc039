----------------------------- MODULE EditCases -----------------------------
(***************************************************************************)
(* Sessions for Edit: two files each, encrypted or not, or no file at all; *)
(* one file where a watcher works beside the command.                      *)
(***************************************************************************)
EXTENDS Sequences

File1(kind) == [f |-> "f", kind |-> kind]
File2(kind) == [f |-> "g", kind |-> kind]

Ses(name, apply, watch, files) == [name |-> name, apply |-> apply, watch |-> watch, files |-> files]
Pairs == {<<File1("encrypted"), File2("encrypted")>>, <<File1("linked"), File2("source")>>}
CaseSessions ==
       {Ses("edit", apply, FALSE, files) : apply \in BOOLEAN, files \in Pairs \cup {<<>>}}
  \cup {Ses("edit", FALSE, TRUE, files) : files \in {<<File1("encrypted")>>, <<File1("linked")>>, <<>>}}
  \cup {Ses(name, FALSE, FALSE, files) : name \in {"merge", "merge-all"}, files \in Pairs}
  \cup {Ses("edit-encrypted", FALSE, FALSE, <<File1("encrypted"), File2("encrypted")>>)}
============================================================================
