------------------------------ MODULE Lifecycle ------------------------------
(***************************************************************************)
(* The commands by which a target comes into the source directory and      *)
(* leaves it: add, re-add, import, forget and destroy. Each reads the      *)
(* source state once, as it starts, works out what to do from that copy    *)
(* and from the destination, and then changes the source directory, the    *)
(* destination and the entryState bucket one operation at a time; it can   *)
(* be stopped, and an operation can fail, between any two of them.         *)
(* internal/chezmoi/sourcestate.go: Add, AddDestAbsPathInfos;              *)
(* internal/cmd: addcmd.go, readdcmd.go, importcmd.go, forgetcmd.go,       *)
(* destroycmd.go.                                                          *)
(*                                                                         *)
(* A source entry is its attributes, which make its name, and its text,    *)
(* which is what an encrypted file decrypts to and a template renders to.  *)
(***************************************************************************)
EXTENDS Naturals, FiniteSets, Sequences, SequencesExt

CONSTANTS
    Order,      \* the targets as CompareRelPaths sorts them: a directory before what it holds
    Parent,     \* the directory that holds each target
    Home,       \* the destination directory, which is no target
    Contents,   \* of files and of symlinks
    Worlds,     \* what the run begins with: [src, dest, special, ignored, runs]
    Commands,   \* the command lines
    MaxRuns, MaxStops    \* bounds; a world says how many runs it has

Targets == ToSet(Order)

VARIABLES
    dest,    \* the destination directory
    src,     \* the source directory
    keeps,   \* the directories whose source holds a .keep file
    db,      \* the entryState bucket
    world,   \* [special, ignored]: .chezmoiremove, externals and .chezmoiignore
    cmd,     \* the command that runs
    root,    \* its copy of the source state
    pc,
    todo,    \* the targets it has not come to
    dirs,    \* re-add: the exact_ directories it has not come to
    infos,   \* what it saw at each target it was given
    news,    \* the entries it has planned
    full,    \* nonEmptyDirs
    ops,     \* what it has decided to do: sourceUpdates, each of one target or file
    renames, \* dirRenames
    \* History:
    agreed,  \* the targets whose loss of an attribute, or whose removal, the user agreed to
    all,     \* the kinds of question answered with all
    pestered,\* the kinds asked again after that
    said,    \* [no, clash, cut]: a no was said; a directory and a file met; the command did not end well
    left     \* runs and stops left

planning == <<todo, dirs, infos, news, full, ops, renames>>
told     == <<agreed, all, pestered>>
lifecycleVars ==
    <<dest, src, keeps, db, world, cmd, root, pc, planning, told, said, left>>

-----------------------------------------------------------------------------
(* Entries.                                                                *)

Nothing == [type |-> "absent", text |-> "", private |-> FALSE]
Dest == {Nothing}
    \cup [type : {"dir"}, text : {""}, private : BOOLEAN]
    \cup [type : {"file"}, text : Contents, private : BOOLEAN]
    \cup [type : {"symlink"}, text : Contents, private : {FALSE}]

Attrs == {"encrypted", "private", "template", "exact", "external"}
Source == [of : Targets, kind : {"dir", "file", "create", "symlink", "script", "remove"},
           attrs : SUBSET Attrs, text : Contents]

\* What the source state says of a target that the source directory does not
\* hold: an external's entry, the parent directory of one, or an entry to be
\* removed.
Marks == {"none", "external", "implicit", "removal"}
Marked(t, m) == [of |-> t, kind |-> m, attrs |-> {}, text |-> ""]
Managed(e) == e.kind \notin Marks

\* NewSourceRelPath: a plain directory and a plain file have one name.
Prefix(e) == <<IF e.kind \in {"dir", "file"} THEN "" ELSE e.kind, e.attrs>>
SameName(x, y) == x.of = y.of /\ Prefix(x) = Prefix(y)
SamePath(x, y) == SameName(x, y) /\ (x.kind = "dir" <=> y.kind = "dir")

Above(t) ==
    LET above[u \in Targets] == IF Parent[u] = Home THEN {} ELSE {Parent[u]} \cup above[Parent[u]]
    IN IF t = Home THEN {} ELSE above[t]
Below(t) == {u \in Targets : t \in Above(u)}

CommandLines ==
    [name : {"add", "re-add", "import", "forget", "destroy"}, args : SUBSET Targets,
     attrs : SUBSET {"encrypted", "template", "create"}, exact : SUBSET Targets,
     new : BOOLEAN, recursive : BOOLEAN, force : BOOLEAN, prompt : BOOLEAN,
     archive : [Targets -> Dest], remove : SUBSET Targets]

\* The tree of targets is one, and the worlds and the command lines are about it;
\* --remove-destination is a flag of import.
LifecycleAssumption ==
    /\ Order \in Seq(Targets) /\ Home \notin Targets
    /\ \A t \in Targets : Parent[t] \in Targets \cup {Home} /\ t \notin Above(t)
    /\ "" \in Contents
    /\ Worlds \subseteq [src : SUBSET Source, dest : [Targets -> Dest], special : [Targets -> Marks],
                         ignored : SUBSET Targets, runs : 0..MaxRuns]
    /\ \A c \in Commands : c \in CommandLines /\ (c.name # "import" => c.remove = {})
    /\ MaxRuns \in Nat /\ MaxStops \in Nat

\* RemoveAll of a source path, which takes what is below a directory along.
Without(s, e) ==
    {x \in s : ~SameName(x, e)
               /\ ~(x.of \in Below(e.of) /\ \E y \in s : y.kind = "dir" /\ SameName(y, e))}

\* SourceState.Read's error: two entries for one target.
Readable ==
    /\ \A x, y \in src : x.of = y.of => x = y
    /\ \A x \in src : x.of \notin world.ignored => world.special[x.of] # "external"

\* The source state, as SourceState.Read makes it.
StateOf(t) ==
    LET own == {e \in src : e.of = t}
        exact == \E e \in src : e.of = Parent[t] /\ "exact" \in e.attrs
    IN CASE t \in world.ignored -> Marked(t, "none")
         [] t \notin world.ignored /\ own # {} -> CHOOSE e \in own : TRUE
         [] t \notin world.ignored /\ own = {} ->
              IF world.special[t] # "none" THEN Marked(t, world.special[t])
              ELSE IF exact /\ dest[t] # Nothing THEN Marked(t, "removal")
              ELSE Marked(t, "none")

\* What chezmoi would make of a source entry in the destination.
Implied(e) ==
    [type |-> CASE e.kind = "dir" -> "dir" [] e.kind = "symlink" -> "symlink" [] OTHER -> "file",
     text |-> e.text, private |-> "private" \in e.attrs]

Position(t) == CHOOSE i \in DOMAIN Order : Order[i] = t
InOrder(S) ==
    LET rank(t) == Cardinality({u \in S : Position(u) <= Position(t)})
    IN [k \in 1..Cardinality(S) |-> CHOOSE t \in S : rank(t) = k]
Known(t) == root[t].kind # "none"
IsDir(t) == root[t].kind = "dir"

-----------------------------------------------------------------------------
(* Operations.                                                             *)

Write(e)     == [do |-> "write", e |-> e, to |-> e]
Drop(e)    == [do |-> "remove", e |-> e, to |-> e]
Record(t, d) == [do |-> "record", e |-> Marked(t, "none"), to |-> d]
Rename(e, f) == [do |-> "rename", e |-> e, to |-> f]
Keep(e)      == [do |-> "keep", e |-> e, to |-> e]
Destroy(t)   == [do |-> "destroy", e |-> Marked(t, "none"), to |-> Nothing]
Delete(t)    == [do |-> "delete", e |-> Marked(t, "none"), to |-> Nothing]
\* RemoveAll of the empty relative path: of the source directory itself.
Wipe         == [do |-> "wipe", e |-> Marked(Home, "none"), to |-> Nothing]

\* newSourceStateDirEntry, newSourceStateFileEntryFromFile and
\* newSourceStateFileEntryFromSymlink, and the empty file for a target that is
\* not there.
New(t, i, o) ==
    LET wanted == {a \in {"encrypted", "template"} : a \in o.attrs}
        mode   == IF i.private THEN {"private"} ELSE {}
    IN CASE i.type = "dir" ->
              [of |-> t, kind |-> "dir", text |-> "",
               attrs |-> mode \cup (IF t \in o.exact THEN {"exact"} ELSE {})]
         [] i.type = "file" ->
              [of |-> t, kind |-> IF "create" \in o.attrs THEN "create" ELSE "file",
               attrs |-> mode \cup wanted, text |-> i.text]
         [] i.type = "symlink" ->
              [of |-> t, kind |-> "symlink", attrs |-> wanted \ {"encrypted"}, text |-> i.text]
         [] i.type = "absent" ->
              [of |-> t, kind |-> "file", attrs |-> wanted, text |-> ""]

Clashes(t, e) == Managed(root[t]) /\ SameName(root[t], e) /\ ~SamePath(root[t], e)

\* A slip: the old entry is removed first.
SwapOldFirst(t, i, e, won) ==
    IF Managed(root[t]) /\ ~SamePath(root[t], e)
    THEN <<Drop(root[t]), Write(e), Record(t, i)>>
    ELSE <<Write(e), Record(t, i)>>

\* The sourceUpdate of one target: its new entry is written, the one it
\* replaces removed, and what was found is recorded. newSourceStateEntries is
\* keyed by a path that says whether it is a directory, and the tree that it
\* is copied into is not: a directory and a file of one name overwrite each
\* other there in the order of the map, so that either both operations write or
\* both remove ("won" is the entry that stayed).
Swap(t, i, e, won) ==
    IF Managed(root[t]) /\ ~SameName(root[t], e) THEN <<Write(e), Drop(root[t]), Record(t, i)>>
    ELSE IF Clashes(t, e) /\ won = "old" THEN <<Drop(root[t]), Record(t, i)>>
    ELSE <<Write(e), Record(t, i)>>

Renames(t, e) == Managed(root[t]) /\ IsDir(t) /\ e.kind = "dir" /\ ~SamePath(root[t], e)

-----------------------------------------------------------------------------

NoCommand ==
    [name |-> "none", args |-> {}, attrs |-> {}, exact |-> {}, new |-> FALSE, recursive |-> FALSE,
     force |-> FALSE, prompt |-> FALSE, archive |-> [t \in Targets |-> Nothing], remove |-> {}]

TypeOK ==
    /\ dest \in [Targets -> Dest]
    /\ src \subseteq Source
    /\ keeps \subseteq Targets
    /\ db \in [Targets -> Dest \cup {Marked(Home, "none")}]
    /\ cmd.name \in {"none", "add", "re-add", "import", "forget", "destroy"}
    /\ pc \in {"idle", "plan", "re-add", "ask", "do"}
    /\ ToSet(todo) \subseteq Targets /\ dirs \subseteq Targets
    /\ DOMAIN infos \subseteq Targets /\ news \subseteq Source
    /\ agreed \subseteq Targets /\ pestered \subseteq all
    /\ left \in [runs : 0..MaxRuns, stops : 0..MaxStops]

Unrecorded == Marked(Home, "none")
Nobody == [no |-> FALSE, clash |-> FALSE, cut |-> FALSE]

Init ==
    /\ \E w \in Worlds :
         /\ dest = w.dest /\ src = w.src
         /\ world = [special |-> w.special, ignored |-> w.ignored]
         /\ left = [runs |-> w.runs, stops |-> MaxStops]
    /\ keeps = {} /\ db = [t \in Targets |-> Unrecorded]
    /\ cmd = NoCommand /\ root = [t \in Targets |-> Marked(t, "none")] /\ pc = "idle"
    /\ todo = <<>> /\ dirs = {} /\ infos = <<>> /\ news = {} /\ full = {} /\ ops = <<>> /\ renames = <<>>
    /\ agreed = {} /\ all = {} /\ pestered = {} /\ said = Nobody

-----------------------------------------------------------------------------
(* Starting a command.                                                     *)

\* destAbsPathInfos: the arguments, with --recursive what they hold, without
\* what is ignored; a missing one is an error, or a new file with --new.
Found(c) ==
    LET named == c.args \cup IF c.recursive THEN UNION {Below(t) : t \in c.args} ELSE {}
    IN {t \in named \ world.ignored : dest[t] # Nothing}
Missing(c) == {t \in c.args \ world.ignored : dest[t] = Nothing}

\* AddDestAbsPathInfos: and the directories above each, up to a managed one.
UpTo(t, state) ==
    LET chain == {u \in Targets : u = t \/ u \in Above(t)}
    IN {u \in chain : \A w \in chain : w = u \/ u \in Above(w) => state[w].kind # "dir"}
Taken(c, state) == Found(c) \cup UNION {UpTo(Parent[t], state) : t \in Found(c)}

Begin(c) ==
    /\ pc = "idle" /\ Readable /\ left.runs > 0
    /\ cmd' = c /\ root' = [t \in Targets |-> StateOf(t)]
    /\ agreed' = {} /\ all' = {} /\ pestered' = {} /\ said' = Nobody
    /\ left' = [left EXCEPT !.runs = @ - 1]
    /\ news' = {} /\ full' = {} /\ ops' = <<>> /\ renames' = <<>>
    /\ UNCHANGED <<dest, src, keeps, db, world>>

StartAdd(c) ==
    /\ c.name = "add" /\ Begin(c)
    /\ c.new \/ Missing(c) = {}
    /\ LET S == Taken(c, root') \cup Missing(c)
       IN /\ infos' = [t \in S \ world.ignored |-> dest[t]]
          /\ todo' = InOrder(S \ world.ignored)
    /\ pc' = "plan" /\ dirs' = {}

\* import: the archive takes the place of the destination.
StartImport(c) ==
    /\ c.name = "import" /\ Begin(c)
    /\ LET S == {t \in Targets \ world.ignored : c.archive[t] # Nothing}
       IN /\ infos' = [t \in S |-> c.archive[t]]
          /\ todo' = InOrder(S)
    /\ pc' = "plan" /\ dirs' = {}

\* re-add: the targets in scope and the exact_ directories among them and above
\* them.
Scope(c, state) ==
    IF c.args = {} THEN {t \in Targets : state[t].kind # "none"}
    ELSE {t \in c.args \cup (IF c.recursive THEN UNION {Below(u) : u \in c.args} ELSE {}) :
            state[t].kind # "none"}
ExactAround(S, state) ==
    {t \in Targets : /\ t \in S \/ \E u \in S : t \in Above(u)
                    /\ state[t].kind = "dir" /\ "exact" \in state[t].attrs}
StartReAdd(c) ==
    /\ c.name = "re-add" /\ Begin(c)
    /\ \A t \in c.args : root'[t].kind # "none"
    /\ todo' = InOrder(Scope(c, root')) /\ dirs' = ExactAround(Scope(c, root'), root')
    /\ infos' = <<>> /\ pc' = "re-add"

StartLeave(c) ==
    /\ c.name \in {"forget", "destroy"} /\ Begin(c)
    /\ \A t \in c.args : root'[t].kind # "none"
    /\ todo' = InOrder(Scope(c, root')) /\ infos' = <<>> /\ dirs' = {} /\ pc' = "ask"

Start == \E c \in Commands : StartAdd(c) \/ StartImport(c) \/ StartReAdd(c) \/ StartLeave(c)

Stop(cut) ==
    /\ pc' = "idle" /\ todo' = <<>> /\ dirs' = {} /\ ops' = <<>> /\ renames' = <<>>
    /\ said' = [said EXCEPT !.cut = cut]
    /\ UNCHANGED <<infos, news, full, agreed, all, pestered>>

\* Questions of these kinds were put: an answer of all silences its kind.
AskedAll(answers) ==
    LET put == {kind \in DOMAIN answers : answers[kind] # "unasked"}
    IN /\ pestered' = pestered \cup (put \cap all)
       /\ all' = all \cup {kind \in put : answers[kind] = "all"}
Asked(kind, answer) == AskedAll([k \in {kind} |-> answer])

Answers == {"yes", "no", "all", "quit"}

-----------------------------------------------------------------------------
(* SourceState.Add.                                                        *)

\* The target is below a directory with the external_ attribute.
Outside(t) == \E a \in Above(t) : IsDir(a) /\ "external" \in root[a].attrs

\* The directory that holds the target is managed, or is being added.
Housed(t) == Parent[t] \in {Home} \cup {u \in Targets : Known(u)} \cup {e.of : e \in news}

\* A slip: that an entry is a template is not looked at.
LosesTemplate(t, e) ==
    IF Managed(root[t]) /\ ~IsDir(t) /\ e.kind # "dir"
    THEN (root[t].attrs \cap {"encrypted", "private"}) \ e.attrs
    ELSE {}

\* defaultReplaceFunc: what a file would lose of the old entry's attributes.
Loses(t, e) ==
    IF Managed(root[t]) /\ ~IsDir(t) /\ e.kind # "dir"
    THEN (root[t].attrs \cap {"encrypted", "private", "template"}) \ e.attrs
    ELSE {}

AddOptions == [attrs |-> cmd.attrs,
               exact |-> UNION {{t} \cup Below(t) : t \in cmd.exact}]

Pass == todo' = Tail(todo) /\ UNCHANGED <<news, ops, renames, agreed>>

PlanSkip ==
    /\ pc = "plan" /\ todo # <<>> /\ Outside(Head(todo))
    /\ Pass
    /\ UNCHANGED <<dest, src, keeps, db, world, cmd, root, pc, dirs, infos, full, all, pestered, said, left>>

PlanFails ==
    /\ pc = "plan" /\ todo # <<>> /\ ~Outside(Head(todo)) /\ ~Housed(Head(todo))
    /\ Stop(TRUE)
    /\ UNCHANGED <<dest, src, keeps, db, world, cmd, root, left>>

\* defaultPreAddFunc: add --prompt asks of every target that is there.
AddAsks(t) == cmd.name = "add" /\ cmd.prompt /\ infos[t] # Nothing
ReplaceAsks(t, e) == cmd.name = "add" /\ Loses(t, e) # {} /\ ~cmd.force
Heeding(ad, re) == [cmd EXCEPT !.prompt = @ /\ ad # "all", !.force = @ \/ re = "all"]

\* The user says no to a target, or ends the command.
PlanRefused ==
    /\ pc = "plan" /\ todo # <<>> /\ ~Outside(Head(todo)) /\ Housed(Head(todo))
    /\ LET t == Head(todo)
           e == New(t, infos[t], AddOptions)
       IN \E ad \in Answers \cup {"unasked"}, re \in {"no", "quit", "unasked"} :
            /\ ad = "unasked" <=> ~AddAsks(t)
            /\ re = "unasked" <=> ad \in {"no", "quit"}
            /\ re # "unasked" => ReplaceAsks(t, e)
            /\ AskedAll([add |-> ad, replace |-> re])
            /\ cmd' = Heeding(ad, re)
            /\ IF "quit" \in {ad, re}
               THEN /\ pc' = "idle" /\ todo' = <<>> /\ ops' = <<>> /\ renames' = <<>>
                    /\ said' = [said EXCEPT !.cut = TRUE]
                    /\ UNCHANGED <<news, full, agreed>>
               ELSE /\ Pass /\ full' = full \cup {Parent[t]}
                    /\ said' = [said EXCEPT !.no = TRUE] /\ UNCHANGED pc
    /\ UNCHANGED <<dest, src, keeps, db, world, root, dirs, infos, left>>

PlanTarget ==
    /\ pc = "plan" /\ todo # <<>> /\ ~Outside(Head(todo)) /\ Housed(Head(todo))
    /\ LET t == Head(todo)
           e == New(t, infos[t], AddOptions)
       IN \E ad, re \in {"yes", "all", "unasked"} :
            /\ ad = "unasked" <=> ~AddAsks(t)
            /\ re = "unasked" <=> ~ReplaceAsks(t, e)
            /\ AskedAll([add |-> ad, replace |-> re])
            /\ cmd' = Heeding(ad, re)
            /\ agreed' = IF re # "unasked" THEN agreed \cup {t} ELSE agreed
            /\ full' = full \cup {Parent[t]}
            /\ IF Renames(t, e)
               THEN renames' = <<<<Rename(root[t], e)>>>> \o renames /\ UNCHANGED <<news, ops, said>>
               ELSE /\ \E won \in {"new", "old"} : ops' = Append(ops, Swap(t, infos[t], e, won))
                    /\ news' = news \cup {e}
                    /\ said' = [said EXCEPT !.clash = @ \/ Clashes(t, e)]
                    /\ UNCHANGED renames
    /\ todo' = Tail(todo)
    /\ UNCHANGED <<dest, src, keeps, db, world, root, pc, dirs, infos, left>>

\* The .keep file of an added directory that nothing was added to.
Keeps(entries, filled) ==
    LET empty == SetToSeq({e \in entries : e.kind = "dir" /\ e.of \notin filled})
    IN [k \in DOMAIN empty |-> <<Keep(empty[k])>>]

\* import --remove-destination: what the source state holds below the directory
\* and the archive does not. The path of an entry that comes from no source
\* file is empty.
Cleared ==
    LET gone == InOrder({t \in UNION {Below(r) : r \in cmd.remove} :
                           Known(t) /\ ~\E e \in news : e.of = t})
        Clear(t) == CASE Managed(root[t]) -> <<Drop(root[t]), Record(t, Nothing)>>
                      [] root[t].kind \in {"removal", "implicit"} -> <<Wipe, Record(t, Nothing)>>
                      [] OTHER -> <<Record(t, Nothing)>>
    IN [k \in DOMAIN gone |-> Clear(gone[k])]

PlanEnds ==
    /\ pc = "plan" /\ todo = <<>>
    /\ ops' = ops \o Keeps(news, full) \o Cleared \o renames
    /\ renames' = <<>> /\ pc' = "do"
    /\ UNCHANGED <<dest, src, keeps, db, world, cmd, root, todo, dirs, infos, news, full, told, said, left>>

-----------------------------------------------------------------------------
(* re-add.                                                                 *)

\* A file that is there, and is not what its source entry says. (Symlinks
\* dangle here, so that Stat finds nothing at them.)
Modified(t) ==
    /\ root[t].kind \in {"file", "external"} /\ "template" \notin root[t].attrs
    /\ dest[t].type = "file" /\ dest[t] # Implied(root[t])

ReAddSame ==
    /\ pc = "re-add" /\ todo # <<>> /\ (~Modified(Head(todo)) \/ Outside(Head(todo)))
    /\ Pass
    /\ UNCHANGED <<dest, src, keeps, db, world, cmd, root, pc, dirs, infos, full, all, pestered, said, left>>

ReAddRefused ==
    /\ pc = "re-add" /\ todo # <<>> /\ Modified(Head(todo)) /\ ~Outside(Head(todo)) /\ cmd.prompt
    /\ \E answer \in {"no", "quit"} :
         /\ Asked("re-add", answer)
         /\ IF answer = "quit"
            THEN /\ pc' = "idle" /\ todo' = <<>> /\ dirs' = {} /\ ops' = <<>> /\ renames' = <<>>
                 /\ said' = [said EXCEPT !.cut = TRUE]
                 /\ UNCHANGED <<news, agreed>>
            ELSE Pass /\ said' = [said EXCEPT !.no = TRUE] /\ UNCHANGED <<pc, dirs>>
    /\ UNCHANGED <<dest, src, keeps, db, world, cmd, root, infos, full, left>>

\* Each file is an Add of its own, that keeps encrypted_ and asks nothing of
\* what else is lost.
ReAddFile ==
    /\ pc = "re-add" /\ todo # <<>> /\ Modified(Head(todo)) /\ ~Outside(Head(todo))
    /\ LET t == Head(todo)
           e == New(t, dest[t], [attrs |-> root[t].attrs \cap {"encrypted"}, exact |-> {}])
       IN /\ \E answer \in {"yes", "all", "unasked"} :
               /\ answer = "unasked" <=> ~cmd.prompt
               /\ Asked("re-add", answer)
               /\ cmd' = IF answer = "all" THEN [cmd EXCEPT !.prompt = FALSE] ELSE cmd
          /\ ops' = <<Swap(t, dest[t], e, "new")>>
          /\ infos' = [u \in DOMAIN infos \cup {t} |-> dest[u]]
    /\ todo' = Tail(todo) /\ pc' = "do"
    /\ UNCHANGED <<dest, src, keeps, db, world, root, dirs, news, full, renames, agreed, said, left>>

\* processExactDirs: what is in the directory and not in the source state is
\* added, what is in the source state and not in the directory removed from
\* the source.
Children(d) == {t \in Targets : Parent[t] = d}
Files(d) == {t \in Children(d) \cap Scope(cmd, root) : ~IsDir(t) /\ root[t].kind \notin {"none", "removal", "implicit"}}
InSource(d) == {t \in Files(d) : "template" \notin root[t].attrs}
Fresh(d) ==
    {t \in Children(d) \ (DOMAIN infos \cup Files(d) \cup world.ignored) :
       /\ dest[t] # Nothing
       /\ ~(dest[t].type = "dir" /\ IsDir(t) /\ "exact" \in root[t].attrs)}

\* A slip: an exact_ directory takes in files and forgets none.
GoneNever(d) == {}

Gone(d) == {t \in InSource(d) \ world.ignored : dest[t] = Nothing}

ReAddDir ==
    /\ pc = "re-add" /\ todo = <<>>
    /\ \E d \in dirs :
         /\ dirs' = dirs \ {d}
         /\ IF dest[d].type # "dir"
            THEN UNCHANGED <<ops, renames, infos, agreed, said>>
            ELSE \E won \in {"new", "old"} :
                   LET fresh == IF Outside(d) \/ "external" \in root[d].attrs THEN {} ELSE Fresh(d)
                       gone  == InOrder(Gone(d))
                       Entry(t) == New(t, dest[t], [attrs |-> {}, exact |-> {}])
                       moved == {t \in fresh : Renames(t, Entry(t))}
                       added == InOrder(fresh \ moved)
                       moves == InOrder(moved)
                   IN /\ ops' = [k \in DOMAIN added |-> Swap(added[k], dest[added[k]], Entry(added[k]), won)]
                                \o Keeps({Entry(t) : t \in fresh \ moved}, {d})
                                \o [k \in DOMAIN moves |-> <<Rename(root[moves[k]], Entry(moves[k]))>>]
                                \o [k \in DOMAIN gone |-> <<Drop(root[gone[k]])>>]
                      /\ infos' = [t \in DOMAIN infos \cup fresh |-> IF t \in fresh THEN dest[t] ELSE infos[t]]
                      /\ agreed' = agreed \cup Gone(d)
                      /\ said' = [said EXCEPT !.clash = @ \/ \E t \in fresh : Clashes(t, Entry(t))]
                      /\ UNCHANGED renames
    /\ pc' = "do"
    /\ UNCHANGED <<dest, src, keeps, db, world, cmd, root, todo, news, full, all, pestered, left>>

ReAddEnds ==
    /\ pc = "re-add" /\ todo = <<>> /\ dirs = {}
    /\ Stop(FALSE)
    /\ UNCHANGED <<dest, src, keeps, db, world, cmd, root, left>>

-----------------------------------------------------------------------------
(* forget and destroy.                                                     *)

Leaves(t) ==
    IF cmd.name = "forget" THEN Managed(root[t]) ELSE root[t].kind \notin {"external", "implicit"}

\* The operations of runForgetCmd and runDestroyCmd on one target.
Leaving(t) ==
    CASE cmd.name = "forget" -> <<Drop(root[t]), Delete(t)>>
      [] cmd.name = "destroy" /\ Managed(root[t]) -> <<Destroy(t), Drop(root[t]), Delete(t)>>
      [] cmd.name = "destroy" /\ ~Managed(root[t]) -> <<Destroy(t), Delete(t)>>

\* An answer of all sets c.force: destroy to true, and forget to false.
Silenced(answer) == IF answer = "all" THEN cmd.name = "destroy" ELSE cmd.force

Leave ==
    /\ pc = "ask" /\ todo # <<>>
    /\ LET t == Head(todo)
       IN IF ~Leaves(t) THEN Pass /\ UNCHANGED <<pc, all, pestered, cmd, said>>
          ELSE \E answer \in Answers \cup {"unasked"} :
                 /\ answer = "unasked" <=> cmd.force
                 /\ Asked(cmd.name, answer)
                 /\ cmd' = [cmd EXCEPT !.force = Silenced(answer)]
                 /\ todo' = IF answer = "quit" THEN <<>> ELSE Tail(todo)
                 /\ IF answer \in {"no", "quit"} THEN UNCHANGED <<ops, pc, agreed>>
                    ELSE ops' = <<Leaving(t)>> /\ pc' = "do" /\ agreed' = agreed \cup {t}
                 /\ said' = [said EXCEPT !.no = @ \/ answer \in {"no", "quit"}]
                 /\ UNCHANGED <<news, renames>>
    /\ UNCHANGED <<dest, src, keeps, db, world, root, dirs, infos, full, left>>

LeaveEnds ==
    /\ pc = "ask" /\ todo = <<>>
    /\ Stop(FALSE)
    /\ UNCHANGED <<dest, src, keeps, db, world, cmd, root, left>>

-----------------------------------------------------------------------------
(* Doing what was decided.                                                 *)

\* The command goes by the paths of the entries as it read them: the directories
\* above the target still have the names that they had then. (re-add may have
\* given one of them another by now, and root does not follow.)
Reached(t) == \A a \in Above(t) : IsDir(a) => \E x \in src : SamePath(x, root[a])

\* The directory that holds the entry is in the source directory.
CanWrite(e) ==
    Reached(e.of) /\ Parent[e.of] \in {Home} \cup {x.of : x \in {y \in src : y.kind = "dir"}}

Possible(op) ==
    CASE op.do = "write"  -> CanWrite(op.e)
      [] op.do = "rename" -> Reached(op.e.of) /\ \E x \in src : SamePath(x, op.e)
      [] op.do = "keep"   -> Reached(op.e.of) /\ \E x \in src : SamePath(x, op.e)
      [] OTHER -> TRUE

\* Names are relative to the directory, so what it holds comes along.
Renamed(s, e, f) == {x \in s : ~SamePath(x, e)} \cup {f}

\* RemoveAll of a path that is not there removes nothing, and is no error.
After(op) ==
    CASE op.do = "write"  ->
           IF op.e.kind = "dir" /\ \E x \in src : SamePath(x, op.e) THEN src
           ELSE Without(src, op.e) \cup {op.e}
      [] op.do = "remove" -> IF Reached(op.e.of) THEN Without(src, op.e) ELSE src
      [] op.do = "rename" -> Renamed(src, op.e, op.to)
      [] op.do = "wipe"   -> {}
      [] OTHER -> src

Do ==
    /\ pc = "do" /\ ops # <<>> /\ Possible(ops[1][1])
    /\ LET op == ops[1][1]
           t  == op.e.of
       IN /\ src' = After(op)
          /\ keeps' = {d \in Targets :
                         /\ d \in keeps \/ (op.do = "keep" /\ d = t)
                         /\ \E x \in src' : x.of = d /\ x.kind = "dir"}
          /\ dest' = IF op.do = "destroy"
                     THEN [u \in Targets |-> IF u = t \/ u \in Below(t) THEN Nothing ELSE dest[u]]
                     ELSE dest
          /\ db' = CASE op.do = "record" -> [db EXCEPT ![t] = op.to]
                     [] op.do = "delete" -> [db EXCEPT ![t] = Unrecorded]
                     [] OTHER -> db
    /\ ops' = IF Len(ops[1]) = 1 THEN Tail(ops) ELSE [ops EXCEPT ![1] = Tail(@)]
    /\ UNCHANGED <<world, cmd, root, pc, todo, dirs, infos, news, full, renames, told, said, left>>

DoFails ==
    /\ pc = "do" /\ ops # <<>> /\ ~Possible(ops[1][1])
    /\ Stop(TRUE)
    /\ UNCHANGED <<dest, src, keeps, db, world, cmd, root, left>>

Done ==
    /\ pc = "do" /\ ops = <<>>
    /\ IF cmd.name \in {"add", "import"} THEN Stop(FALSE)
       ELSE /\ pc' = IF cmd.name = "re-add" THEN "re-add" ELSE "ask"
            /\ UNCHANGED <<todo, dirs, ops, renames, infos, news, full, told, said>>
    /\ UNCHANGED <<dest, src, keeps, db, world, cmd, root, left>>

-----------------------------------------------------------------------------
(* The process is killed, or an operation returns an error; the user takes *)
(* one of two entries out of the source.                                   *)

Cut ==
    /\ pc # "idle" /\ left.stops > 0
    /\ Stop(TRUE) /\ left' = [left EXCEPT !.stops = @ - 1]
    /\ UNCHANGED <<dest, src, keeps, db, world, cmd, root>>

Mend ==
    /\ pc = "idle" /\ left.runs > 0
    /\ \E x, y \in src : x.of = y.of /\ x # y /\ src' = Without(src, x)
    /\ cmd' = NoCommand /\ said' = Nobody /\ infos' = <<>> /\ agreed' = {} /\ news' = {}
    /\ keeps' = {d \in keeps : \E x \in src' : x.of = d /\ x.kind = "dir"}
    /\ UNCHANGED <<dest, db, world, root, pc, todo, dirs, full, ops, renames, all, pestered, left>>

Next ==
    \/ Start
    \/ PlanSkip \/ PlanFails \/ PlanRefused \/ PlanTarget \/ PlanEnds
    \/ ReAddSame \/ ReAddRefused \/ ReAddFile \/ ReAddDir \/ ReAddEnds
    \/ Leave \/ LeaveEnds
    \/ Do \/ DoFails \/ Done
    \/ Cut \/ Mend

Spec == Init /\ [][Next]_lifecycleVars
=============================================================================
