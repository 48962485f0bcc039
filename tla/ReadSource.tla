----------------------------- MODULE ReadSource -----------------------------
(***************************************************************************)
(* Reading the source state: SourceState.Read                              *)
(* (internal/chezmoi/sourcestate.go:998).                                  *)
(*                                                                         *)
(* A walk visits the source directory in pre-order and in a fixed order of *)
(* names; files with special names add data, patterns and externals, the   *)
(* others become entries of targets.  Then come the externals, what        *)
(* .chezmoiremove and exact_ directories remove, and git repositories, and *)
(* at last every target must have one entry.                               *)
(*                                                                         *)
(* A node of the source directory is a record: at is the directory it lies *)
(* in, src its name, pos the place of the name in the alphabet, kind what  *)
(* the name says it is, target the path of its target, val what is in it.  *)
(* Names are taken to sort after ".", so special files come first.         *)
(***************************************************************************)
EXTENDS Integers, Sequences, FiniteSets, SequencesExt, PatternSet

CONSTANTS
  Sources,        \* source directories, with the destination they meet
  MaxRounds       \* how many times the source is read and applied

VARIABLES
  source,         \* [tree, dest, only]: the nodes, the paths of the
                  \* destination, and options.TemplateDataOnly
  phase,          \* where Read is
  todo,           \* the nodes that the walk has still to visit
  pool,           \* the nodes that goroutines visit in any order
  entries,        \* allSourceStateEntries: [target -> sequence of entries]
  ignore,         \* s.ignore: a set of patterns
  remove,         \* s.remove
  externals,      \* s.externals: [target -> sequence of externals]
  data,           \* s.userTemplateData: the data files merged
  cached,         \* s.templateData, or NoData
  executed,       \* the templates executed, with the data they saw
  root,           \* s.root: [target -> entry]
  before,         \* s.root when the source was read the last time
  round           \* how many times Read was called

readVars == <<source, phase, todo, pool, entries, ignore, remove, externals,
              data, cached, executed, root, before, round>>
walkVars == <<source, phase, root, before, round>>

NoData == {"no data"}

-----------------------------------------------------------------------------
(* Patterns *)

Ignored(patterns, target) == Match(patterns, target) = "include"

(* addPatterns puts the directory of the file before each pattern          *)
Patterns(n) == { [of |-> Front(n.target) \o p.of, include |-> p.include] : p \in n.val }

-----------------------------------------------------------------------------
(* Nodes *)

(* compareDirEntries: sourceDirEntryOrder, then the alphabet.  The names    *)
(* of special files begin with a dot.                                      *)
Order(n) ==
  CASE n.kind = "version"   -> -3
    [] n.kind = "data"      -> -2
    [] n.kind = "templates" -> -1
    [] OTHER                -> 0
Precedes(n, m) == Order(n) < Order(m) \/ (Order(n) = Order(m) /\ n.pos < m.pos)

Path(n) == Append(n.at, n.src)
Below(path) == { n \in source.tree : n.at = path }
Sorted(nodes) ==
  [i \in 1..Cardinality(nodes) |->
     CHOOSE n \in nodes : Cardinality({ m \in nodes : Precedes(m, n) }) = i - 1]

Entry(type, from, attr) == [type |-> type, from |-> from, attr |-> attr]
Plain == {}
Put(es, t, e) ==
  [u \in DOMAIN es \cup {t} |->
     IF u # t THEN es[u] ELSE IF t \in DOMAIN es THEN Append(es[t], e) ELSE <<e>>]

Parents(t) == { SubSeq(t, 1, i) : i \in 1..Len(t) - 1 }
UpTo(t) == Parents(t) \cup {t}

-----------------------------------------------------------------------------
(* What a source directory is. *)

Kinds == {"version", "data", "dataDir", "templates", "dot", "external", "externals", "ignore",
          "remove", "scripts", "script", "dir", "file"}
IsData(n) == n.kind \in {"data", "dataDir"}

(* What an external is declared as, and what its archive has in it          *)
ExternalsDeclared ==
  [of : STRING, type : {"file", "archive", "archive-file", "git-repo"},
   contents : SUBSET [path : Seq(STRING), kind : {"dir", "file"}], exact : BOOLEAN]

IsNode(n) ==
  /\ n.kind \in Kinds /\ n.at \in Seq(STRING) /\ n.src \in STRING /\ n.pos \in Nat
  /\ n.target \in Seq(STRING) \ {<<>>}
  /\ n.kind = "dir" => n.val \subseteq STRING
  /\ n.kind = "external" =>
       IsFiniteSet(DOMAIN n.val)
       /\ \A t \in DOMAIN n.val : t \in Seq(STRING) \ {<<>>} /\ n.val[t] \in ExternalsDeclared

(* A directory holds a name once, and .chezmoidata comes before the names   *)
(* that the walk makes use of; external_ directories hold files and         *)
(* directories, .chezmoiexternals and .chezmoiscripts no data.              *)
IsTree(tree) ==
  /\ IsFiniteSet(tree) /\ \A n \in tree : IsNode(n)
  /\ \A n, m \in tree : n.at = m.at =>
       /\ n # m /\ Order(n) = Order(m) => n.pos # m.pos
       /\ IsData(n) /\ m.kind \in {"external", "externals", "ignore", "remove", "scripts", "dir"} =>
            Precedes(n, m)
  /\ \A n, m \in tree : IsPrefix(Path(n), m.at) =>
       /\ n.kind = "dir" /\ "external" \in n.val => m.kind \in {"dir", "file"}
       /\ n.kind \in {"externals", "scripts"} => ~IsData(m)

SourceAssumption ==
  /\ MaxRounds \in Nat \ {0}
  /\ \A s \in Sources : DOMAIN s = {"tree", "dest", "only"} /\ IsTree(s.tree)

-----------------------------------------------------------------------------
Init ==
  /\ source \in Sources
  /\ phase = "walk"
  /\ todo = Sorted(Below(<<>>))
  /\ pool = {}
  /\ entries = <<>>
  /\ ignore = {} /\ remove = {}
  /\ externals = <<>>
  /\ data = {} /\ cached = NoData /\ executed = {}
  /\ root = <<>> /\ before = <<>>
  /\ round = 1

Visiting(kind) ==
  /\ phase = "walk" /\ pool = {} /\ todo # <<>>
  /\ Head(todo).kind = kind

Continue == todo' = Tail(todo)
Descend(n) == todo' = Sorted(Below(Path(n))) \o Tail(todo)

(* TemplateData copies the cached data, and makes it if there is none.      *)
TemplateData == IF cached = NoData THEN data ELSE cached
Execute(n) ==
  /\ cached' = TemplateData
  /\ executed' = executed \cup {[node |-> n, saw |-> TemplateData]}

(* A slip: what was cached stays.                                           *)
VisitDataCached ==
  \E kind \in {"data", "dataDir"} :
    /\ Visiting(kind)
    /\ data' = data \cup {Path(Head(todo))}
    /\ Continue
    /\ UNCHANGED <<walkVars, pool, entries, ignore, remove, externals, cached, executed>>

(* addTemplateData, also for every file of a .chezmoidata directory:        *)
(* new data makes the cached value invalid                                 *)
VisitData ==
  \E kind \in {"data", "dataDir"} :
    /\ Visiting(kind)
    /\ data' = data \cup {Path(Head(todo))}
    /\ cached' = NoData
    /\ Continue
    /\ UNCHANGED <<walkVars, pool, entries, ignore, remove, externals, executed>>

(* .chezmoitemplates, .chezmoiversion of a release not newer than this one, *)
(* and names that the walk does not know, with what is below them          *)
VisitOther ==
  /\ \E kind \in {"version", "templates", "dot"} : Visiting(kind)
  /\ Continue
  /\ UNCHANGED <<walkVars, pool, entries, ignore, remove, externals, data, cached, executed>>

(* With options.TemplateDataOnly everything else is passed over            *)
VisitNothing ==
  /\ source.only
  /\ \E kind \in {"external", "externals", "ignore", "remove", "scripts", "dir", "file"} : Visiting(kind)
  /\ IF Head(todo).kind = "dir" THEN Descend(Head(todo)) ELSE Continue
  /\ UNCHANGED <<walkVars, pool, entries, ignore, remove, externals, data, cached, executed>>

(* Templates, data or names that are not valid, files that cannot be read   *)
VisitFails ==
  /\ phase = "walk" /\ (todo # <<>> \/ pool # {})
  /\ phase' = "failed"
  /\ UNCHANGED <<source, todo, pool, entries, ignore, remove, externals, data, cached, executed, root, round, before>>

(* addPatterns for .chezmoiignore and .chezmoiremove                       *)
VisitPatterns ==
  /\ ~source.only
  /\ \/ Visiting("ignore") /\ ignore' = ignore \cup Patterns(Head(todo)) /\ UNCHANGED remove
     \/ Visiting("remove") /\ remove' = remove \cup Patterns(Head(todo)) /\ UNCHANGED ignore
  /\ Execute(Head(todo))
  /\ Continue
  /\ UNCHANGED <<walkVars, pool, entries, externals, data>>

(* addExternal: the file is a template, each of its externals has a target  *)
AddExternals(n) ==
  externals' = [t \in DOMAIN externals \cup DOMAIN n.val |->
                  (IF t \in DOMAIN externals THEN externals[t] ELSE <<>>)
                  \o (IF t \in DOMAIN n.val THEN << n.val[t] >> ELSE <<>>)]
VisitExternal ==
  /\ ~source.only
  /\ Visiting("external")
  /\ AddExternals(Head(todo))
  /\ Execute(Head(todo))
  /\ Continue
  /\ UNCHANGED <<walkVars, pool, entries, ignore, remove, data>>

(* concurrentWalkSourceDir: .chezmoiexternals and .chezmoiscripts are read  *)
(* by goroutines, and the walk waits for all of them                       *)
VisitConcurrently ==
  /\ ~source.only
  /\ Visiting("externals") \/ Visiting("scripts")
  /\ pool' = Below(Path(Head(todo)))
  /\ Continue
  /\ UNCHANGED <<walkVars, entries, ignore, remove, externals, data, cached, executed>>

VisitPooled(n) ==
  /\ phase = "walk" /\ n \in pool
  /\ pool' = pool \ {n}
  /\ IF n.kind = "external"
     THEN AddExternals(n) /\ Execute(n) /\ UNCHANGED entries
     ELSE /\ entries' = IF Ignored(ignore, n.target) THEN entries
                        ELSE Put(entries, n.target, Entry("script", Path(n), Plain))
          /\ UNCHANGED <<externals, cached, executed>>
  /\ UNCHANGED <<walkVars, todo, ignore, remove, data>>

VisitFile ==
  /\ ~source.only
  /\ Visiting("file")
  /\ entries' = IF Ignored(ignore, Head(todo).target) THEN entries
               ELSE Put(entries, Head(todo).target, Entry("file", Path(Head(todo)), Plain))
  /\ Continue
  /\ UNCHANGED <<walkVars, pool, ignore, remove, externals, data, cached, executed>>

(* readExternalDir takes the names below an external_ directory as they are,*)
(* and its directories are exact                                           *)
Inside(path) == { n \in source.tree : IsPrefix(path, n.at) }
ExternalDir(n) ==
  { m \in Inside(Path(n)) :
      \A p \in UpTo(m.target) : Len(p) > Len(n.target) => ~Ignored(ignore, p) }
VisitDir ==
  /\ ~source.only
  /\ Visiting("dir")
  /\ LET n == Head(todo)
         here == Put(entries, n.target, Entry("dir", Path(n), n.val))
         inside == ExternalDir(n)
     IN IF Ignored(ignore, n.target) THEN Continue /\ UNCHANGED entries
        ELSE IF "external" \notin n.val THEN entries' = here /\ Descend(n)
        ELSE /\ entries' = [t \in DOMAIN here \cup { m.target : m \in inside } |->
                              (IF t \in DOMAIN here THEN here[t] ELSE <<>>)
                              \o SetToSeq({ Entry(m.kind, Path(m), IF m.kind = "dir" THEN {"exact"} ELSE Plain) :
                                              m \in { m \in inside : m.target = t } })]
             /\ Continue
  /\ UNCHANGED <<walkVars, pool, ignore, remove, externals, data, cached, executed>>

WalkEnds ==
  /\ phase = "walk" /\ todo = <<>> /\ pool = {}
  /\ phase' = IF source.only THEN "done" ELSE "externals"
  /\ todo' = IF source.only THEN <<>>
             ELSE SetToSeq(UNION { { <<t, i>> : i \in DOMAIN externals[t] } :
                                     t \in { t \in DOMAIN externals : ~Ignored(ignore, t) } })
  /\ UNCHANGED <<source, pool, entries, ignore, remove, externals, data, cached,
                 executed, root, before, round>>

-----------------------------------------------------------------------------
(* What follows the walk *)

(* populateImplicitParentDirs *)
ImplicitParents(t, from) == { <<p, Entry("implicit", from, Plain)>> : p \in Parents(t) }

(* readExternal: a file is not read before it is applied; an archive gives  *)
(* its directory and what is in it, without what is ignored                *)
Results(t, e) ==
  LET inArchive == { c \in e.contents :
                       \A i \in 1..Len(c.path) :
                         (i < Len(c.path) => [path |-> SubSeq(c.path, 1, i), kind |-> "dir"] \in e.contents)
                         => ~Ignored(ignore, t \o SubSeq(c.path, 1, i)) }
      attr == IF e.exact THEN {"exact"} ELSE Plain
  IN CASE e.type = "git-repo" -> {}
       [] e.type \in {"file", "archive-file"} ->
            {<<t, Entry("file", e.of, Plain)>>} \cup ImplicitParents(t, e.of)
       [] e.type = "archive" ->
            {<<t, Entry("dir", e.of, attr)>>} \cup ImplicitParents(t, e.of)
            \cup { <<t \o c.path, Entry(c.kind, e.of, IF c.kind = "dir" THEN attr ELSE Plain)>> : c \in inArchive }

PutAll(es, results) ==
  [u \in DOMAIN es \cup { r[1] : r \in results } |->
     (IF u \in DOMAIN es THEN es[u] ELSE <<>>)
     \o SetToSeq({ r[2] : r \in { r \in results : r[1] = u } })]

(* MkdirAll puts the parents of the external in the tree of entries first   *)
ReadExternal ==
  /\ phase = "externals" /\ todo # <<>>
  /\ LET t == Head(todo)[1]
         e == externals[t][Head(todo)[2]]
     IN /\ root' = [p \in DOMAIN root \cup Parents(t) |->
                      IF p \in DOMAIN root THEN root[p] ELSE Entry("dir", e.of, Plain)]
        /\ entries' = PutAll(entries, { r \in Results(t, e) : ~Ignored(ignore, r[1]) })
  /\ todo' = Tail(todo)
  /\ UNCHANGED <<source, phase, pool, ignore, remove, externals, data, cached, executed, before, round>>

(* An archive cannot be had, or is not valid                               *)
ExternalFails ==
  /\ phase = "externals" /\ todo # <<>>
  /\ externals[Head(todo)[1]][Head(todo)[2]].type \in {"archive", "archive-file"}
  /\ phase' = "failed"
  /\ UNCHANGED <<source, todo, pool, entries, ignore, remove, externals, data, cached, executed,
                 root, before, round>>

WithoutIgnored(es) == [t \in { t \in DOMAIN es : ~Ignored(ignore, t) } |-> es[t]]

(* A slip: a path to be removed is not looked up among the entries.         *)
WithRemovesFirst(es) ==
  LET gone == { t \in source.dest : (\E p \in remove : p.include /\ Glob(p, t)) /\ ~Ignored(ignore, t) }
  IN [t \in DOMAIN es \cup gone |-> IF t \in gone THEN << Entry("remove", ".chezmoiremove", Plain) >> ELSE es[t]]

(* The paths of the destination that .chezmoiremove matches                *)
WithRemoves(es) ==
  PutAll(es, { <<t, Entry("remove", ".chezmoiremove", Plain)>> :
                 t \in { t \in source.dest : /\ \E p \in remove : p.include /\ Glob(p, t)
                                             /\ ~\E p \in remove : ~p.include /\ Glob(p, t)
                                             /\ ~Ignored(ignore, t) } })

(* canonicalSourceStateEntry: directories with the same attributes are one, *)
(* and an implicit directory is like any other                             *)
Canonical(seq) ==
  LET real == { i \in DOMAIN seq : seq[i].type = "dir" }
      last == CHOOSE i \in real : \A j \in real : j <= i
  IN IF \/ \E i \in DOMAIN seq : seq[i].type \notin {"dir", "implicit"}
        \/ \E i, j \in real : seq[i].attr # seq[j].attr
     THEN seq
     ELSE IF real # {} THEN << seq[last] >> ELSE << seq[1] >>
Canonicals(es) == [t \in DOMAIN es |-> Canonical(es[t])]

(* A slip: what is ignored is removed as well.                              *)
WithExactIgnored(es) ==
  LET exact == { t \in DOMAIN es : Len(es[t]) = 1 /\ es[t][1].type = "dir" /\ "exact" \in es[t][1].attr }
  IN PutAll(es, { <<t, Entry("remove", es[Front(t)][1].from, Plain)>> :
                    t \in { t \in source.dest \ DOMAIN es : Front(t) \in exact } })

(* What the destination has in an exact directory and the source has not   *)
WithExact(es) ==
  LET exact == { t \in DOMAIN es : Len(es[t]) = 1 /\ es[t][1].type = "dir" /\ "exact" \in es[t][1].attr }
  IN PutAll(es, { <<t, Entry("remove", es[Front(t)][1].from, Plain)>> :
                    t \in { t \in source.dest \ DOMAIN es : Front(t) \in exact /\ ~Ignored(ignore, t) } })

(* For every git-repo external, one command for each external of its target *)
WithRepos(es) ==
  LET count(t) == Cardinality({ i \in DOMAIN externals[t] : externals[t][i].type = "git-repo" })
                  * Len(externals[t])
      targets == { t \in DOMAIN externals : ~Ignored(ignore, t) /\ count(t) > 0 }
      command(t) == Entry("command", IF t \in source.dest THEN "pull" ELSE "clone", Plain)
  IN [t \in DOMAIN es \cup targets |->
        (IF t \in DOMAIN es THEN es[t] ELSE <<>>)
        \o (IF t \in targets THEN [i \in 1..count(t) |-> command(t)] ELSE <<>>)]

(* Targets with more than one entry make the state inconsistent            *)
Assemble ==
  /\ phase = "externals" /\ todo = <<>>
  /\ LET es == WithRepos(WithExact(Canonicals(WithRemoves(WithoutIgnored(entries)))))
     IN /\ entries' = es
        /\ IF \E t \in DOMAIN es : Len(es[t]) # 1
           THEN phase' = "inconsistent" /\ UNCHANGED root
           ELSE /\ phase' = "done"
                /\ root' = [t \in DOMAIN root \cup DOMAIN es |->
                              IF t \in DOMAIN es THEN es[t][1] ELSE root[t]]
  /\ UNCHANGED <<source, todo, pool, ignore, remove, externals, data, cached, executed, before, round>>

-----------------------------------------------------------------------------
(* The targets are applied.  PostApply then removes the directories with    *)
(* the remove_ attribute that are empty, children first.                   *)
AppliedTo(dest) ==
  LET gone == { t \in DOMAIN root : root[t].type = "remove" }
      made == { t \in DOMAIN root : root[t].type \notin {"remove", "script"} }
      after == { t \in dest : UpTo(t) \cap gone = {} } \cup made
      removeDirs == { t \in DOMAIN root : root[t].type = "dir" /\ "remove" \in root[t].attr }
  IN after \ { t \in removeDirs : { u \in after : t \in UpTo(u) } \subseteq removeDirs }

(* The user applies the targets, and a later command reads the source       *)
ReadAgain ==
  /\ phase = "done" /\ ~source.only /\ round < MaxRounds
  /\ source' = [source EXCEPT !.dest = AppliedTo(@)]
  /\ phase' = "walk"
  /\ todo' = Sorted(Below(<<>>)) /\ pool' = {}
  /\ entries' = <<>> /\ ignore' = {} /\ remove' = {} /\ externals' = <<>>
  /\ data' = {} /\ cached' = NoData /\ executed' = {}
  /\ root' = <<>> /\ before' = root
  /\ round' = round + 1

Next ==
  \/ VisitData \/ VisitOther \/ VisitNothing \/ VisitFails \/ VisitPatterns
  \/ VisitExternal \/ VisitConcurrently \/ VisitFile \/ VisitDir
  \/ \E n \in pool : VisitPooled(n)
  \/ WalkEnds \/ ReadExternal \/ ExternalFails \/ Assemble
  \/ ReadAgain

Spec == Init /\ [][Next]_readVars

-----------------------------------------------------------------------------
(* Properties *)

Phases == {"walk", "externals", "done", "failed", "inconsistent"}

TypeOK ==
  /\ phase \in Phases
  /\ pool \subseteq source.tree
  /\ \A t \in DOMAIN root : root[t].type \in {"dir", "implicit", "file", "script", "remove", "command"}
  /\ cached = NoData \/ cached \subseteq data
  /\ round \in 1..MaxRounds

(* What a source directory declares, whatever the order in which it is      *)
(* read: nodes and results of externals that are not ignored and not below  *)
(* what is, the parents of externals, and what is to be removed            *)
Kind(type) == IF type = "implicit" THEN "dir" ELSE type
Declared(src) ==
  LET of(kind) == { n \in src.tree : n.kind = kind }
      patterns == UNION { Patterns(n) : n \in of("ignore") }
      hidden(t) == Ignored(patterns, t)
      seen(t) == \A p \in UpTo(t) : ~hidden(p)
      reached(kind) == { n \in of(kind) : seen(Front(n.target)) \/ Len(n.target) = 1 }
      nodes == { n \in of("dir") \cup of("file") : seen(n.target) }
      scripts == { n \in of("script") : ~hidden(n.target) }
      exts == { te \in UNION { { <<t, n.val[t]>> : t \in DOMAIN n.val } : n \in reached("external") } : ~hidden(te[1]) }
      downloads == { te \in exts : te[2].type # "git-repo" }
      archives == { te \in exts : te[2].type = "archive" }
      inside == UNION { { <<te[1] \o c.path, c.kind>> : c \in te[2].contents } : te \in archives }
      parents == UNION { Parents(te[1]) : te \in downloads }
      read == { <<n.target, n.kind>> : n \in nodes } \cup { <<n.target, "script">> : n \in scripts }
              \cup { <<te[1], IF te[2].type = "archive" THEN "dir" ELSE "file">> : te \in downloads }
              \cup { tk \in inside : \A p \in UpTo(tk[1]) : (\E te \in archives : IsStrictPrefix(te[1], p)) => ~hidden(p) }
              \cup { <<p, "dir">> : p \in { p \in parents : ~hidden(p) } }
      globs == UNION { Patterns(n) : n \in reached("remove") }
      removed == { t \in src.dest : (\E p \in globs : p.include /\ Glob(p, t)) /\ (\A p \in globs : Glob(p, t) => p.include) }
      exact == { n.target : n \in { n \in nodes : n.kind = "dir" /\ "exact" \in n.val } }
               \cup UNION { {te[1]} \cup { te[1] \o c.path : c \in { c \in te[2].contents : c.kind = "dir" } } :
                              te \in { te \in archives : te[2].exact } }
      stray == { t \in src.dest : Front(t) \in exact \cap { tk[1] : tk \in read } /\ t \notin { tk[1] : tk \in read } }
  IN IF src.only THEN {}
     ELSE read \cup { <<t, "remove">> : t \in { t \in removed \cup stray : ~hidden(t) } }
          \cup { <<te[1], "command">> : te \in exts \ downloads }
          \cup { <<p, "dir">> : p \in UNION { Parents(te[1]) : te \in exts } }

Targets(es) == { <<t, Kind(es[t].type)>> : t \in DOMAIN es }

ReadStatus ==
  CASE phase = "done" -> "read"
    [] phase \in {"failed", "inconsistent"} -> "failed"
    [] OTHER -> "reading"
ReadTargets == IF phase = "done" THEN Targets(root) ELSE {}
SpecDeclared == INSTANCE SourceSpec WITH status <- ReadStatus, targets <- ReadTargets

(* Reading the source yields what it declares, or fails: no order of names, *)
(* of goroutines or of externals and no pattern read too late changes it.   *)
ReadsOrStutters == [SpecDeclared!Next]_<<source, ReadStatus, ReadTargets>>
ReadsDeclared == SpecDeclared!Spec

(* A template of the source directory sees the data of its own directory    *)
(* and of those above, although the data was cached for an earlier one.     *)
TemplatesSeeData ==
  \A x \in executed : \A n \in source.tree :
    (n.kind \in {"data", "dataDir"} /\ IsPrefix(n.at, x.node.at)
     /\ (n.at = <<>> \/ x.node.at # <<>>)) => Path(n) \in x.saw

(* Two files or scripts that are not ignored never share a target.          *)
NoneShadowed ==
  (phase = "done" /\ ~source.only) =>
    \A n, m \in source.tree :
      (n # m /\ n.kind = "file" /\ m.kind \in {"file", "dir"} /\ n.target = m.target) =>
        \E p \in UpTo(n.target) : Ignored(ignore, p)

(* The parents of what is managed are managed, as directories: they can be  *)
(* made before it.                                                         *)
ParentsManaged ==
  phase = "done" =>
    \A t \in DOMAIN root : root[t].type \notin {"remove", "script"} =>
      \A p \in Parents(t) : p \in DOMAIN root /\ Kind(root[p].type) = "dir"

(* The three above: what templates saw, and what became of names that meet  *)
(* in one target or lie below what is ignored, is as the layout of the     *)
(* source directory says.                                                  *)
TargetsWellFormed == TemplatesSeeData /\ NoneShadowed /\ ParentsManaged

(* Once applied, a source directory is read with the same targets, except   *)
(* for what was removed.                                                   *)
AppliedReadsAlike ==
  (phase = "done" /\ round > 1) =>
    /\ { tk \in Targets(root) : tk[2] # "remove" } = { tk \in Targets(before) : tk[2] # "remove" }
    /\ \A t \in DOMAIN root : root[t].type = "remove" => t \notin DOMAIN before
=============================================================================
