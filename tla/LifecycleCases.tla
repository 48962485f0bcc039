-------------------------- MODULE LifecycleCases --------------------------
(***************************************************************************)
(* Source directories, destinations and command lines for Lifecycle: one   *)
(* directory that holds a file and a directory, in which there is a file   *)
(* or a directory of one more, and a file beside it all.                   *)
(***************************************************************************)
EXTENDS Naturals, Sequences

CaseHome == "home"
Nothing == [type |-> "absent", text |-> "", private |-> FALSE]

d == "d"  a == "d/a"  e == "d/e"  x == "d/e/x"  y == "d/e/x/y"  z == "z"
Names == {d, a, e, x, y, z}
CaseOrder == <<d, a, e, x, y, z>>
CaseParent == [t \in Names |-> CASE t \in {d, z} -> CaseHome [] t = x -> e [] t = y -> x [] OTHER -> d]

F(text) == [type |-> "file", text |-> text, private |-> FALSE]
P(text) == [type |-> "file", text |-> text, private |-> TRUE]
L(text) == [type |-> "symlink", text |-> text, private |-> FALSE]
D == [type |-> "dir", text |-> "", private |-> FALSE]
DP == [type |-> "dir", text |-> "", private |-> TRUE]

S(t, kind, attrs, text) == [of |-> t, kind |-> kind, attrs |-> attrs, text |-> text]

Tree(A, E, X) ==
  [t \in Names |-> CASE t = d -> D [] t = a -> A [] t = e -> E [] t = x -> X [] t = y -> Nothing [] t = z -> F("1")]

Dests == {Tree(F("1"), D, F("1")), Tree(P("2"), DP, Nothing), Tree(Nothing, F("1"), Nothing), Tree(F("1"), F("2"), Nothing),
          Tree(L("1"), D, P("1"))}

Dirs == {S(d, "dir", {}, ""), S(d, "dir", {"exact"}, ""), S(d, "dir", {"external"}, "")}
Insides ==
  { {},
    {S(a, "file", {}, "1"), S(e, "file", {}, "2")},
    {S(a, "file", {"encrypted"}, "1"), S(e, "dir", {}, ""), S(x, "file", {"template"}, "1")},
    {S(a, "file", {"template", "private"}, "1"), S(e, "dir", {"exact"}, ""), S(x, "file", {"encrypted"}, "2")},
    {S(a, "create", {}, "1"), S(e, "dir", {}, ""), S(x, "script", {}, "1")},
    {S(a, "file", {"encrypted"}, "1"), S(e, "file", {}, "1")},
    {S(a, "symlink", {}, "1"), S(e, "remove", {}, "")} }
Z == S(z, "file", {}, "1")
Srcs == {{Z}} \cup {{Z, D1} \cup I : D1 \in Dirs, I \in Insides}

NoMarks == [t \in Names |-> "none"]
FirstWorlds ==
  {w \in [src : Srcs, dest : Dests, special : {NoMarks, [NoMarks EXCEPT ![a] = "external"]},
          ignored : {{}, {e}}, runs : {1}] :
     /\ \A i \in w.src : w.special[i.of] = "none"
     /\ w.special = NoMarks \/ \E i \in w.src : i.of = d
     /\ e \in w.ignored => ~\E i \in w.src : i.of = x
     /\ ("external" \in UNION {i.attrs : i \in w.src}) =>
          \A i \in w.src : i.of \notin {d, z} => i.attrs = {} /\ i.kind \in {"dir", "file"}}

\* What is left of one command is what another begins with.
SecondWorlds ==
  [src : {{Z, S(d, "dir", {"exact"}, ""), S(a, "file", {"encrypted"}, "1"), S(e, "file", {"private"}, "1")},
          {Z, S(d, "dir", {}, ""), S(a, "file", {"private"}, "2"), S(e, "dir", {}, ""), S(x, "file", {}, "1")}},
   dest : {Tree(F("1"), D, F("1")), Tree(F("1"), P("2"), Nothing)},
   special : {NoMarks}, ignored : {{}}, runs : {2}]

\* An exact_ directory below a plain one, which the pass over the exact_ directory
\* above it may rename, and what is gone from it, new in it, or changed.
DeepWorlds ==
  [src : {{Z, S(d, "dir", {"exact"}, ""), S(e, "dir", {}, ""), S(x, "dir", {"exact"}, ""), Y} :
            Y \in {S(y, "file", {"encrypted"}, "1"), S(y, "dir", {}, "")}},
   dest : {[Tree(Nothing, E, D) EXCEPT ![y] = Y] : E \in {D, DP}, Y \in {Nothing, F("2"), DP}},
   special : {NoMarks}, ignored : {{}}, runs : {2}]
CaseWorlds == FirstWorlds \cup SecondWorlds \cup DeepWorlds

Run(name, args) ==
  [name |-> name, args |-> args, attrs |-> {}, exact |-> {}, new |-> FALSE, recursive |-> FALSE,
   force |-> FALSE, prompt |-> FALSE, archive |-> [t \in Names |-> Nothing], remove |-> {}]
Archive1 == [t \in Names |-> CASE t = d -> D [] t = a -> F("2") [] OTHER -> Nothing]
Archive2 == [t \in Names |-> CASE t = d -> D [] t = e -> D [] t = x -> F("1") [] OTHER -> Nothing]
Commands ==
  LET add == Run("add", {d}) IN
  { [add EXCEPT !.recursive = TRUE], [Run("add", {a}) EXCEPT !.attrs = {"encrypted"}],
    [add EXCEPT !.recursive = TRUE, !.exact = {d}, !.prompt = TRUE],
    [Run("add", {x}) EXCEPT !.attrs = {"template"}, !.new = TRUE, !.force = TRUE],
    [Run("add", {a, e}) EXCEPT !.attrs = {"create"}, !.prompt = TRUE],
    Run("re-add", {}), Run("re-add", {e}), [Run("re-add", {d}) EXCEPT !.recursive = TRUE, !.prompt = TRUE],
    Run("forget", {a, e}), Run("destroy", {a, e}), [Run("destroy", {d}) EXCEPT !.recursive = TRUE],
    [Run("import", {}) EXCEPT !.archive = Archive1],
    [Run("import", {}) EXCEPT !.archive = Archive2, !.remove = {d}, !.exact = {d}] }
=============================================================================
