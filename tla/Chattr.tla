------------------------------- MODULE Chattr -------------------------------
(***************************************************************************)
(* The chattr command over a source directory (internal/cmd/chattrcmd.go). *)
(*                                                                         *)
(* The attributes of a target are spelled by the names of its source       *)
(* files, so chattr renames them, and when the encrypted attribute         *)
(* changes it writes a new file and then removes the old one.  It works    *)
(* from the source state it read when it started: a path taken from there  *)
(* must still exist when its turn comes, although the directory above it   *)
(* may be among the targets too.  It can stop with an error or be killed   *)
(* between any two of its steps.                                           *)
(***************************************************************************)
EXTENDS Attr, FiniteSets

CONSTANTS
  InitialSources,   \* source directories the user may start with
  Sorted,           \* target paths in CompareRelPaths order
  Modifiers,        \* modifier arguments, as sequences of <<op, attribute>>
  NoText,           \* the contents of a directory
  MaxCalls          \* bound on chattr commands

VARIABLES
  src,        \* source path (a sequence of names) -> [dir, text, cipher]
  entries,    \* the SourceState that was read: target path -> [path, attr]
  todo,       \* targets not visited yet
  mod,        \* the modifier of the running command
  written,    \* the new file is written, the old one not removed
  calls,
  stopped,    \* some command stopped before its end (history)
  original    \* target path -> text of the user's file (history)

vars == <<src, entries, todo, mod, written, calls, stopped, original>>

----------------------------------------------------------------------------
(* The modifier                                                            *)

Field(k) ==
  CASE k = "type" -> {"create", "modify", "remove", "script", "symlink"}
    [] k = "condition" -> {"once", "onchange"}
    [] k = "order" -> {"before", "after"}
    [] OTHER -> {k}

Fields == {"type", "condition", "order"} \cup DirFlags \cup FileFlags

\* The last item of the argument about a field wins.
ParseModifier(items) ==
  [k \in Fields |->
     LET about == {i \in DOMAIN items : items[i][2] \in Field(k)}
     IN IF about = {} THEN <<"leave", "">>
        ELSE items[CHOOSE i \in about : \A j \in about : j <= i]]

Holds(m, k, flags) == m[k][1] = "set" \/ (m[k][1] = "leave" /\ k \in flags)

\* condition, order and type: set to the value named, or cleared to off if
\* the value named is the one it has.
Alter(item, value, off) ==
  CASE item[1] = "leave" -> value
    [] item[1] = "set" -> item[2]
    [] OTHER -> IF value = item[2] THEN off ELSE value

ModifyDirAttr(m, a) == [a EXCEPT !.flags = {k \in DirFlags : Holds(m, k, a.flags)}]

\* Slip: a regular file loses its template attribute.
DropTemplate(m, a) ==
  LET type == Alter(m["type"], a.type, "file")
  IN [target |-> a.target, type |-> type,
      flags |-> {k \in FileFlags \ {"template"} : Holds(m, k, a.flags)},
      condition |-> "none", order |-> "during"]

\* A create file takes its empty attribute from the encrypted modifier, a
\* modify file loses its encrypted attribute and a script its template one.
ModifyFileAttr(m, a) ==
  LET type == Alter(m["type"], a.type, "file")
      kept == CASE type = "file" -> FileFlags
                [] type = "create" -> FileFlags \ {"empty"}
                [] type = "modify" -> {"executable", "private", "readonly", "template"}
                [] type = "symlink" -> {"template"}
                [] OTHER -> {}
      empty == type = "create"
               /\ (m["encrypted"][1] = "set"
                   \/ (m["encrypted"][1] = "leave" /\ "empty" \in a.flags))
  IN [target |-> a.target, type |-> type,
      flags |-> {k \in kept : Holds(m, k, a.flags)} \cup {k \in {"empty"} : empty},
      condition |-> IF type = "script" THEN Alter(m["condition"], a.condition, "always")
                    ELSE "none",
      order |-> IF type = "script" THEN Alter(m["order"], a.order, "during") ELSE "during"]

Modify(m, a) == IF a.type = "dir" THEN ModifyDirAttr(m, a) ELSE ModifyFileAttr(m, a)

----------------------------------------------------------------------------
(* The source state                                                        *)

Front(p) == SubSeq(p, 1, Len(p) - 1)
Last(p) == p[Len(p)]
Under(p, q) == Len(p) < Len(q) /\ SubSeq(q, 1, Len(p)) = p

IsExternal(p) == Len(p) > 1 /\ "external" \in ParseDir(p[1]).flags

\* readExternalDir: inside an external_ directory names spell nothing.
AttrIn(s, p) ==
  IF IsExternal(p)
  THEN [target |-> Last(p), type |-> IF s[p].dir THEN "dir" ELSE "file",
        flags |-> IF s[p].dir THEN {"exact"} ELSE {"empty"},
        condition |-> "none", order |-> "during"]
  ELSE IF s[p].dir THEN ParseDir(Last(p)) ELSE ParseFile(Last(p))

TargetIn(s, p) ==
  [i \in DOMAIN p |->
     IF i = Len(p) THEN AttrIn(s, p).target
     ELSE IF i > 1 /\ IsExternal(p) THEN p[i] ELSE ParseDir(p[i]).target]

AttrOf(p) == AttrIn(src, p)
Target(p) == TargetIn(src, p)

\* Read fails when two entries have one target, unless they are directories
\* with the same attributes.
Consistent ==
  \A p, q \in DOMAIN src : Target(p) = Target(q) =>
    p = q \/ (src[p].dir /\ src[q].dir /\ AttrOf(p) = AttrOf(q))

Managed == {Target(p) : p \in DOMAIN src}
Targets == {Sorted[i] : i \in DOMAIN Sorted}

\* A source directory that chattr can be trusted with: what is above an entry
\* is a directory, and no directory is external_, where names spell nothing.
Placed(s) ==
  \A p \in DOMAIN s :
    /\ p \in Seq(Seq(Words)) /\ p # <<>> /\ s[p].dir \in BOOLEAN
    /\ \A i \in 1..Len(p) - 1 : SubSeq(p, 1, i) \in DOMAIN s /\ s[SubSeq(p, 1, i)].dir
    /\ s[p].dir => "external" \notin ParseDir(Last(p)).flags

\* Every name parses, the name of a file tells whether it is encrypted, and
\* no target name begins with a prefix that SourceName does not escape.
Named(s) ==
  \A p \in DOMAIN s :
    /\ TargetIn(s, p) \in Targets /\ Valid(AttrIn(s, p))
    /\ s[p].cipher \in BOOLEAN /\ (s[p].dir <=> s[p].text = NoText)
    /\ ~s[p].dir => (s[p].cipher <=> "encrypted" \in AttrIn(s, p).flags)
    /\ \A w \in IF s[p].dir THEN {"remove_", "external_"} ELSE {"onchange_"} :
         ~Starts(AttrIn(s, p).target, w)

\* No target has two entries.
Unique(s) == \A p, q \in DOMAIN s : TargetIn(s, p) = TargetIn(s, q) => p = q

\* Items of the modifier argument, but for those about external.
Items == {"set", "clear"} \X ((UNION {Field(k) : k \in Fields}) \ {"external"})

ASSUME ChattrAssumption ==
  /\ \A s \in InitialSources : Placed(s) /\ Named(s) /\ Unique(s)
  /\ Sorted \in Seq(Seq(Seq(Words)))
  /\ \A i, j \in DOMAIN Sorted :
       (Sorted[i] = Sorted[j] => i = j) /\ (Under(Sorted[i], Sorted[j]) => i < j)
  /\ Modifiers \subseteq Seq(Items) /\ MaxCalls \in Nat

----------------------------------------------------------------------------
(* The command                                                             *)

\* Slip: visit the targets in order, parents before their children.
VisitForward(t) ==
  LET at(u) == CHOOSE i \in DOMAIN Sorted : Sorted[i] = u
  IN t \in todo /\ \A u \in todo : at(t) <= at(u)

\* slices.Backward over the sorted targets
Visited(t) ==
  LET at(u) == CHOOSE i \in DOMAIN Sorted : Sorted[i] = u
  IN t \in todo /\ \A u \in todo : at(u) <= at(t)

Path(t) == entries[t].path
NewAttr(t) == Modify(mod, entries[t].attr)
NewPath(t) == Append(Front(Path(t)), SourceName(NewAttr(t)))
Encrypts(t) ==
  ("encrypted" \in entries[t].attr.flags) # ("encrypted" \in NewAttr(t).flags)

Moved(p, old, new) == IF p = old \/ Under(old, p)
                      THEN new \o SubSeq(p, Len(old) + 1, Len(p)) ELSE p

\* os.Rename of a file or of a directory with what is below it
Rename(old, new) ==
  /\ old \in DOMAIN src
  /\ new \in DOMAIN src => ~src[new].dir /\ ~src[old].dir
  /\ LET kept == DOMAIN src \ {new}
         from(q) == CHOOSE p \in kept : Moved(p, old, new) = q
     IN src' = [q \in {Moved(p, old, new) : p \in kept} |-> src[from(q)]]

\* The process forgets what it read when it ends.
Leave(rest) ==
  /\ todo' = rest
  /\ IF rest = {} THEN entries' = <<>> /\ mod' = ParseModifier(<<>>)
     ELSE UNCHANGED <<entries, mod>>

Done(t) == Leave(todo \ {t})

Init ==
  /\ src \in InitialSources
  /\ original = [t \in {Target(p) : p \in {q \in DOMAIN src : ~src[q].dir}} |->
                   LET p == CHOOSE q \in DOMAIN src : Target(q) = t IN src[p].text]
  /\ entries = <<>> /\ todo = {} /\ mod = ParseModifier(<<>>)
  /\ written = FALSE /\ calls = 0 /\ stopped = FALSE

\* runChattrCmd reads the source state and selects the targets.
Begin ==
  /\ todo = {} /\ calls < MaxCalls /\ Consistent
  /\ \E read \in SUBSET DOMAIN src :
       /\ {Target(p) : p \in read} = Managed
       /\ \A p, q \in read : Target(p) = Target(q) => p = q
       /\ entries' = [t \in Managed |->
            LET p == CHOOSE q \in read : Target(q) = t IN [path |-> p, attr |-> AttrOf(p)]]
  /\ \E items \in Modifiers, args \in SUBSET Managed, recursive \in BOOLEAN :
       /\ args # {}
       /\ mod' = ParseModifier(items)
       /\ todo' = {t \in Managed : t \in args \/ (recursive /\ \E a \in args : Under(a, t))}
  /\ calls' = calls + 1
  /\ UNCHANGED <<src, written, stopped, original>>

RenameEntry(t) ==
  /\ Visited(t) /\ ~Encrypts(t)
  /\ IF NewPath(t) = Path(t) THEN UNCHANGED src ELSE Rename(Path(t), NewPath(t))
  /\ Done(t)
  /\ UNCHANGED <<written, calls, stopped, original>>

\* Slip: write what the old file holds, neither encrypted nor decrypted.
WriteRaw(t) ==
  /\ Visited(t) /\ Encrypts(t) /\ ~written
  /\ Path(t) \in DOMAIN src
  /\ src' = [p \in DOMAIN src \cup {NewPath(t)} |->
               IF p = NewPath(t) THEN src[Path(t)] ELSE src[p]]
  /\ written' = TRUE
  /\ UNCHANGED <<entries, todo, mod, calls, stopped, original>>

\* Write the plaintext or the ciphertext to the new file ...
WriteNew(t) ==
  /\ Visited(t) /\ Encrypts(t) /\ ~written
  /\ Path(t) \in DOMAIN src
  /\ NewPath(t) \in DOMAIN src => ~src[NewPath(t)].dir
  /\ src' = [p \in DOMAIN src \cup {NewPath(t)} |->
               IF p = NewPath(t)
               THEN [dir |-> FALSE, text |-> src[Path(t)].text,
                     cipher |-> "encrypted" \in NewAttr(t).flags]
               ELSE src[p]]
  /\ written' = TRUE
  /\ UNCHANGED <<entries, todo, mod, calls, stopped, original>>

\* ... and then remove the old one.
RemoveOld(t) ==
  /\ Visited(t) /\ written
  /\ src' = [p \in DOMAIN src \ {Path(t)} |-> src[p]]
  /\ written' = FALSE
  /\ Done(t)
  /\ UNCHANGED <<calls, stopped, original>>

\* An error is returned or the process is killed: the targets left are not
\* visited, and what the last step wrote stays.
Stop ==
  /\ todo # {}
  /\ Leave({}) /\ written' = FALSE /\ stopped' = TRUE
  /\ UNCHANGED <<src, calls, original>>

\* Every command fails while a target has two entries; the user deletes one.
Repair ==
  /\ todo = {} /\ ~Consistent
  /\ \E p, q \in DOMAIN src :
       /\ p # q /\ Target(p) = Target(q) /\ ~src[p].dir
       /\ src' = [r \in DOMAIN src \ {p} |-> src[r]]
  /\ UNCHANGED <<entries, todo, mod, written, calls, stopped, original>>

Next ==
  \/ Begin
  \/ \E t \in Targets : RenameEntry(t) \/ WriteNew(t) \/ RemoveOld(t)
  \/ Stop
  \/ Repair

Spec == Init /\ [][Next]_vars
=============================================================================
