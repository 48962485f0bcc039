----------------------------- MODULE ReadCases -----------------------------
(***************************************************************************)
(* Source directories for ReadSource: special files in every place that    *)
(* matters beside entries of every kind, and the destinations they meet.   *)
(***************************************************************************)
EXTENDS Integers, Sequences, FiniteSets

Names == << ".chezmoidata", ".chezmoidata.yaml", ".chezmoiexternal", ".chezmoiexternals", ".chezmoiignore",
            ".chezmoiremove", ".chezmoiscripts", ".chezmoitemplates", ".git",
            "a", "b", "d", "k", "l", "s", "t", "x", "y" >>
Node(at, src, kind, val) ==
  [at |-> at, src |-> src, pos |-> CHOOSE i \in DOMAIN Names : Names[i] = src, kind |-> kind, target |-> Append(at, src), val |-> val]
With(path) == [of |-> path, include |-> TRUE]
Without(path) == [of |-> path, include |-> FALSE]

External(of, type, contents, exact) == [of |-> of, type |-> type, contents |-> contents, exact |-> exact]
Archive(of, exact) ==
  External(of, "archive", { [path |-> <<"g">>, kind |-> "dir"], [path |-> <<"g", "h">>, kind |-> "file"] }, exact)
File(of) == External(of, "file", {}, FALSE)
Repo(of) == External(of, "git-repo", {}, FALSE)
At(t, e) == [u \in {t} |-> e]

Optional(at, name, kind, val) == IF val = {} THEN {} ELSE { Node(at, name, kind, val) }
D == <<"d">>

Tree(rootIgnore, dIgnore, dAttr, external, remove, more) ==
  { Node(<<>>, ".chezmoidata", "data", {}), Node(<<>>, "d", "dir", dAttr),
    Node(D, ".chezmoidata.yaml", "data", {}), Node(D, "x", "file", {}),
    Node(<<>>, "x", "file", {}) }
  \cup Optional(<<>>, ".chezmoiignore", "ignore", rootIgnore)
  \cup Optional(D, ".chezmoiignore", "ignore", dIgnore)
  \cup Optional(<<>>, ".chezmoiremove", "remove", remove)
  \cup (IF external = <<>> THEN {} ELSE { Node(<<>>, ".chezmoiexternal", "external", external) })
  \cup more

Concurrent ==
  { Node(<<>>, ".chezmoiexternals", "externals", {}),
    Node(<<".chezmoiexternals">>, "a", "external", At(<<"e">>, Archive("a", FALSE))),
    Node(<<".chezmoiexternals">>, "b", "external", At(<<"e", "i">>, File("b"))),
    Node(<<>>, ".chezmoiscripts", "scripts", {}),
    Node(<<".chezmoiscripts">>, "s", "script", {}),
    Node(<<".chezmoiscripts">>, "t", "script", {}) }
Shadow == { [Node(<<>>, "y", "file", {}) EXCEPT !.target = <<"x">>] }
Verbatim ==
  { Node(<<>>, "k", "dir", {"external"}), Node(<<"k">>, "l", "dir", {}),
    Node(<<"k", "l">>, "x", "file", {}), Node(<<>>, ".git", "dot", {}),
    Node(<<>>, ".chezmoitemplates", "templates", {}) }

Dests == { {}, { <<"old">>, <<"x">> }, { D, <<"d", "x">>, <<"d", "z">>, <<"e">>, <<"e", "q">>, <<"e", "g">>, <<"old">> } }

RootIgnores == { {}, {With(<<"e">>)}, {With(D)}, {With(<<"*", "x">>), Without(<<"k", "x">>)}, {With(<<"z">>)} }
DIgnores == { {}, {With(<<"x">>)}, {With(<<"z">>)} }
DAttrs == { {}, {"exact"}, {"remove"} }
Declared == { <<>>, At(<<"e">>, Archive("ext", TRUE)), At(<<"e", "f">>, File("ext")), At(<<"r", "r">>, Repo("ext")) }
Removes == { {}, {With(<<"old">>), With(<<"e", "*">>), Without(<<"e", "g">>)} }

Source(tree, dest, only) == [tree |-> tree, dest |-> dest, only |-> only]
ReadSources ==
  { Source(Tree(ri, di, da, <<>>, {}, {}), dest, FALSE) :
      ri \in RootIgnores, di \in DIgnores, da \in DAttrs, dest \in Dests }
  \cup { Source(Tree(ri, {}, {"exact"}, ext, rm, {}), dest, FALSE) :
      ri \in RootIgnores, ext \in Declared, rm \in Removes, dest \in Dests }
  \cup { Source(Tree({}, {}, {}, ext, {}, more), dest, FALSE) :
      ext \in Declared, more \in { Concurrent, Shadow, Verbatim }, dest \in Dests }
  \cup { Source(Tree({}, {}, {}, <<>>, {}, Concurrent), {}, TRUE) }
============================================================================
