--------------------------- MODULE LifecycleProps ---------------------------
(***************************************************************************)
(* What the commands that add and remove targets promise.                  *)
(***************************************************************************)
EXTENDS Lifecycle

\* A command has come to its end, with nothing refused or cut off, no entry of
\* an external taken in, and no directory met by a file of its name.
Whole == pc = "idle" /\ cmd # NoCommand /\ ~said.no /\ ~said.cut /\ ~said.clash
Clean == Whole /\ \A t \in DOMAIN infos : root[t].kind # "external"

\* What add and re-add took up is what the source state then says: the next
\* diff of it is empty, and the record knows it, so that the next apply does not
\* ask (SourceState.Add: write, remove the old entry, record; and the renames
\* of directories at the end).
AddedIsClean ==
    Clean /\ cmd.name \in {"add", "re-add"} =>
        \A t \in DOMAIN infos :
            Outside(t) \/ infos[t] = Nothing \/
            /\ \E e \in src : e.of = t /\ Implied(e) = infos[t]
            /\ db[t] = infos[t] \/ \E e \in src : e.of = t /\ e.kind = "dir"

\* After a command that came to its end the source state can be read again: no
\* target has two entries.
OneEntryEach == Clean => Readable

\* What a command may take away: what the user forgets, destroys or clears,
\* what is gone from an exact_ directory, and what is under a directory that
\* is now a file.
Intended(t) ==
    \/ cmd.name \in {"forget", "destroy"} /\ \E u \in agreed : u = t \/ t \in Below(u)
    \/ cmd.name = "re-add" /\ t \in agreed
    \/ cmd.name = "import" /\ t \in UNION {Below(r) : r \in cmd.remove}
    \/ \E u \in DOMAIN infos : t \in Below(u) /\ infos[u].type # "dir"

\* At no moment, of a command that runs or that was cut off, is a target
\* without a source entry that had one: the new entry is written before the old
\* one is removed, and directories keep what they hold as they are renamed.
NeverLost ==
    (cmd # NoCommand /\ ~said.clash /\ ~(cmd.name = "import" /\ cmd.remove # {})) =>
        \A t \in Targets :
            Managed(root[t]) => Intended(t) \/ \E e \in src : e.of = t

\* add takes the encrypted, private or template attribute from a file only
\* after the user agreed to it (defaultReplaceFunc).
AttributesAgreed ==
    (cmd.name = "add" /\ ~said.clash) =>
        \A t \in Targets :
            (Managed(root[t]) /\ ~IsDir(t) /\ t \notin agreed /\ ~cmd.force) =>
                \/ root[t] \in src
                \/ \E e \in src : e.of = t /\ (e.kind = "dir" \/
                     root[t].attrs \cap {"encrypted", "private", "template"} \subseteq e.attrs)
                \/ \E u \in DOMAIN infos : t \in Below(u) /\ infos[u].type # "dir"

\* After a re-add of everything, apply would remove nothing from an exact_
\* directory, and create nothing there but from templates and from the
\* directories it holds (processExactDirs). A file stays that is gone from an
\* exact_ directory below one that this command has renamed: its source path is
\* the old one, where RemoveAll finds nothing.
ExactInSync ==
    Clean /\ cmd.name = "re-add" /\ cmd.args = {} =>
        \A d \in Targets :
            IsDir(d) /\ "exact" \in root[d].attrs /\ "external" \notin root[d].attrs
              /\ ~Outside(d) /\ dest[d].type = "dir" =>
                \A t \in Children(d) \ world.ignored :
                    /\ dest[t] # Nothing => root[t].kind = "external" \/ \E e \in src : e.of = t
                    /\ dest[t] = Nothing /\ Reached(t) =>
                         ~\E e \in src : e.of = t /\ e.kind # "dir" /\ "template" \notin e.attrs

\* destroy removes the target, then its source, and then its record: cut off
\* anywhere, the target is still managed as long as it is there, so that destroy
\* can be asked for again.
DestroyResumes ==
    cmd.name = "destroy" =>
        \A t \in agreed :
            /\ (Managed(root[t]) /\ ~\E e \in src : e.of = t) => dest[t] = Nothing
            /\ (Managed(root[t]) /\ db[t] = Unrecorded /\ dest[t] # Nothing) =>
                 \E e \in src : e.of = t

\* After an answer of all, no command asks that question again but forget.
AllIsFinal == pestered \subseteq {"forget"}

\* Every directory that was added whole survives a clone: git keeps no empty
\* directory, so one that holds nothing else holds a .keep file.
DirsSurvive ==
    Clean /\ cmd.name = "add" =>
        \A e \in news : e.kind = "dir" /\ e \in src =>
            e.of \in keeps \/ \E x \in src : Parent[x.of] = e.of

\* A command that came to its end has done what it was asked for, so that the
\* source can be read, cloned and applied: the four properties of an end.
EndsClean == AddedIsClean /\ OneEntryEach /\ ExactInSync /\ DirsSurvive

\* Cut off at any step, a command leaves every target that it takes or removes
\* in the source directory, or gone from the destination as well.
NothingLost == NeverLost /\ DestroyResumes

\* Nothing is lost before the user was asked, and nothing asked after all.
AsksFirst == AttributesAgreed /\ AllIsFinal

-----------------------------------------------------------------------------
(* What the documentation says.                                            *)

\* import.md, of --remove-destination: "Remove destination (in the source state)
\* before importing." Nothing outside of the destination is removed.
ImportStaysBelow ==
    cmd.name = "import" =>
        \A t \in Targets :
            (Managed(root[t]) /\ t \notin UNION {Below(r) : r \in cmd.remove}
               /\ ~\E u \in DOMAIN infos : t \in Below(u) /\ infos[u].type # "dir") =>
            \E e \in src : e.of = t

\* re-add.md: "Re-add modified files in the target state, preserving any
\* encrypted_ attributes. chezmoi will not overwrite templates."
ReAddKeepsAttributes ==
    (cmd.name = "re-add" /\ ~said.clash) =>
        \A t \in Targets :
            (Managed(root[t]) /\ ~IsDir(t) /\ dest[t].type = "file") =>
                \A e \in src : e.of = t =>
                    root[t].attrs \cap {"encrypted", "template"} \subseteq e.attrs
=============================================================================
