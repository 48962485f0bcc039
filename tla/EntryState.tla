------------------------------ MODULE EntryState ------------------------------
(***************************************************************************)
(* Entry states: what chezmoi compares when it decides whether a target is *)
(* up to date and whether it was changed behind chezmoi's back             *)
(* (internal/chezmoi/entrystate.go), the directory tree that holds the     *)
(* entries, and the state that a source entry asks for                     *)
(* (internal/chezmoi/targetstateentry.go, sourcestate.go).                 *)
(***************************************************************************)
CONSTANTS
    Targets,    \* target paths, relative to the destination directory
    Above,      \* Above[t]: the proper ancestors of t among Targets
    Perms,      \* permission bits
    Sums,       \* SHA256 sums of contents and of link names
    Blank,      \* sums of contents that isEmpty() holds of: only whitespace
    None        \* the nil *EntryState, and the absent value of a field

ASSUME AboveAssumption ==
    /\ Above \in [Targets -> SUBSET Targets]
    /\ \A t \in Targets : t \notin Above[t]
    /\ \A t \in Targets : \A a \in Above[t] : Above[a] \subseteq Above[t]

ASSUME DataAssumption ==
    /\ Blank \subseteq Sums
    /\ None \notin Perms /\ None \notin Sums

File(p, s) == [type |-> "file", perm |-> p, sum |-> s]
Dir(p)     == [type |-> "dir", perm |-> p, sum |-> None]
Symlink(s) == [type |-> "symlink", perm |-> None, sum |-> s]
Absent     == [type |-> "remove", perm |-> None, sum |-> None]

Entry ==
    {Absent}
      \cup [type : {"dir"}, perm : Perms, sum : {None}]
      \cup [type : {"symlink"}, perm : {None}, sum : Sums]
      \cup [type : {"file"}, perm : Perms, sum : Sums]

ASSUME NilAssumption == None \notin Entry

\* EntryState.Equivalent: equal type, permission bits and sum; a nil state
\* stands for an absent entry.
OrAbsent(x) == IF x = None THEN Absent ELSE x
Equivalent(x, y) == OrAbsent(x) = OrAbsent(y)

-----------------------------------------------------------------------------
(* The destination directory: every target path holds one entry.           *)

\* An entry below a path exists only while that path is a directory.
WellFormed(fs) ==
    \A t \in Targets :
        fs[t] # Absent => \A a \in Above[t] : fs[a].type = "dir"

\* A slip: the entry is forgotten rather than absent.
RemoveAllToNil(fs, t) ==
    [u \in Targets |-> IF u = t \/ t \in Above[u] THEN None ELSE fs[u]]

\* System.RemoveAll removes t with everything below it.
RemoveAll(fs, t) ==
    [u \in Targets |-> IF u = t \/ t \in Above[u] THEN Absent ELSE fs[u]]

CanCreate(fs, t) == \A a \in Above[t] : fs[a].type = "dir"

IsEmptyDir(fs, t) ==
    /\ fs[t].type = "dir"
    /\ \A u \in Targets : t \in Above[u] => fs[u] = Absent

\* Lstat(t) fails with ENOTDIR, which is not fs.ErrNotExist, when an ancestor
\* is a file. (Symlinks dangle here: below one, Lstat fails with ErrNotExist.)
LstatFails(fs, t) == \E a \in Above[t] : fs[a].type = "file"

-----------------------------------------------------------------------------
(* Source entries: the attributes of one entry in the source directory.    *)
(* "keep" is a modify_ file whose modifier is empty, "rmdir" a directory   *)
(* with the remove_ attribute, "none" an entry that the source state does  *)
(* not manage.                                                             *)

DirKinds  == {"dir", "rmdir"}
FileKinds == {"file", "create", "modify", "keep"}
Kinds     == DirKinds \cup FileKinds \cup {"symlink", "remove", "none"}

SourceEntry == [kind : Kinds, perm : Perms, sum : Sums, empty : BOOLEAN]

\* A source file lies in source directories, so a managed entry's ancestors
\* are managed directories.
Consistent(src) ==
    \A t \in Targets :
        src[t].kind \notin {"none", "remove"} =>
            \A a \in Above[t] : src[a].kind \in DirKinds

\* create_ and modify_ targets read the destination; that fails for a directory.
ReadFails(s, a) == s.kind \in {"create", "modify", "keep"} /\ a.type = "dir"

\* The sum of the file that s asks for where the destination holds a: create_
\* keeps the contents of an existing file and so does an empty modifier,
\* whose result for a missing file is empty (None).
Contents(s, a) ==
    CASE s.kind \in {"create", "keep"} /\ a.type = "file" -> a.sum
      [] s.kind = "keep" /\ a.type # "file" -> None
      [] OTHER -> s.sum

\* Empty contents remove the target, unless the file has the empty_ attribute.
RemovesEmpty(s, c) == c \in Blank \cup {None} /\ ~(s.empty /\ s.kind \in {"file", "create"})

\* TargetStateEntry and its EntryState, for source entry s where the
\* destination holds a.
TargetState(s, a) ==
    CASE s.kind \in DirKinds -> Dir(s.perm)
      [] s.kind = "symlink" -> IF s.sum \in Blank THEN Absent ELSE Symlink(s.sum)
      [] s.kind \in FileKinds ->
           IF RemovesEmpty(s, Contents(s, a))
           THEN Absent ELSE File(s.perm, Contents(s, a))
      [] OTHER -> Absent

\* EntryState.Overwrite: set for the file that a modify_ entry computes.
Overwrite(s, w) == s.kind \in {"modify", "keep"} /\ w.type = "file"
=============================================================================
