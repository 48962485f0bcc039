-------------------------------- MODULE Edit --------------------------------
(***************************************************************************)
(* chezmoi edit, edit-encrypted, merge and merge-all: source files are     *)
(* handed to an editor or a merge tool, encrypted ones as decrypted        *)
(* copies, and afterwards the copies are encrypted and written back. With  *)
(* edit --watch a goroutine does what is done afterwards whenever a file   *)
(* is saved, beside the command itself, and neither waits for the other.   *)
(* internal/cmd: editcmd.go, editencryptedcmd.go, mergecmd.go,             *)
(* mergeallcmd.go, config.go (run, runEditor).                             *)
(***************************************************************************)
EXTENDS Naturals, Sequences

CONSTANTS
    Texts,      \* of files, decrypted
    Sessions,   \* [name, apply, watch, files]: files is a sequence of [f, kind], or empty
    MaxSaves, MaxFaults, MaxOutside   \* bounds

\* An encrypted file is edited as a copy; a hard link to the source file, or
\* the source file, is the source file until the editor saves by renaming,
\* which ends the link.
Kinds == {"encrypted", "linked", "source"}
Files == UNION {{s.files[k].f : k \in DOMAIN s.files} : s \in Sessions}
None  == "none"
Entries == [f : Files, kind : Kinds]

\* Only edit applies, watches and takes no arguments; a file is of one kind.
EditAssumption ==
    /\ None \notin Texts /\ MaxSaves \in Nat /\ MaxFaults \in Nat /\ MaxOutside \in Nat
    /\ \A s \in Sessions :
          /\ s.name \in {"edit", "edit-encrypted", "merge", "merge-all"}
          /\ s.apply \in BOOLEAN /\ s.watch \in BOOLEAN /\ s.files \in Seq(Entries)
          /\ s.apply \/ s.watch \/ s.files = <<>> => s.name = "edit"
          /\ \A j, k \in DOMAIN s.files : s.files[j].f = s.files[k].f => s.files[j] = s.files[k]

VARIABLES
    cmd,      \* the session
    source,   \* the text of each source file
    target,   \* the text of each destination file
    open,     \* the files that were given to the tool and not yet written back
    copy,     \* what the tool's file holds, when that is not the source file
    before,   \* preEditPlaintext
    pc,       \* of "main" and of the "watcher"
    at,       \* where each is among the open files
    got,      \* what each has encrypted, or read to apply it
    cached,   \* c.sourceState
    events,   \* a save that the watcher has not taken up
    left,     \* the files still to be opened, and saves, faults and changes by others
    \* History:
    saved,    \* the files that the tool has written
    outside,  \* what someone else has written meanwhile
    raced,    \* the watcher was at work while the command was, after the tool
    failed    \* "", or what ended the command: "tool" or "encrypt"

editVars == <<cmd, source, target, open, copy, before, pc, at, got, cached, events, left, saved, outside, raced, failed>>

Process == {"main", "watcher"}
Unread == [f \in Files |-> None]

Maybe == [Files -> Texts \cup {None}]
Listed(seq) == {seq[k] : k \in DOMAIN seq}
Places == {"next", "tool", "off", "wait", "check", "encrypt", "write", "reset", "read", "apply", "end"}
Bounds(list) == [saves : 0 .. MaxSaves, faults : 0 .. MaxFaults, outside : 0 .. MaxOutside,
                 files : Seq(Listed(list)), wanted : SUBSET Files]

TypeOK ==
    /\ cmd \in Sessions
    /\ source \in [Files -> Texts] /\ target \in [Files -> Texts]
    /\ open \in Seq(Listed(cmd.files))
    /\ copy \in Maybe /\ before \in Maybe /\ cached \in Maybe /\ outside \in Maybe
    /\ got \in [Process -> Maybe]
    /\ pc \in [Process -> Places]
    /\ pc["main"] \notin {"off", "wait"} /\ pc["watcher"] \notin {"next", "tool", "end"}
    /\ at \in [Process -> 1 .. Len(open) + 1]
    /\ events \in 0..1 /\ saved \subseteq Files
    /\ left \in Bounds(cmd.files)
    /\ raced \in BOOLEAN /\ failed \in {"", "tool", "encrypt"}

\* merge-all takes the files whose target is not what the source says; it and
\* merge run their tool for one file at a time, in the order of the targets.
Wanted(e) == cmd.name = "merge-all" => e.f \in left.wanted
Merges == cmd.name \in {"merge", "merge-all"}
Watches == cmd.watch /\ cmd.files # <<>>

Init ==
    /\ cmd \in Sessions
    /\ source \in [Files -> Texts] /\ target \in [Files -> Texts]
    /\ open = <<>>
    /\ copy = Unread /\ before = Unread
    /\ pc = [p \in Process |-> IF p = "main" THEN "next" ELSE "off"]
    /\ at = [p \in Process |-> 1] /\ got = [p \in Process |-> Unread]
    /\ cached = Unread /\ events = 0
    /\ left = [saves |-> MaxSaves, faults |-> MaxFaults, outside |-> MaxOutside,
               files |-> cmd.files, wanted |-> {f \in Files : source[f] # target[f]}]
    /\ saved = {} /\ outside = Unread /\ raced = FALSE /\ failed = ""

Given == Listed(open)
MoreFiles == \E e \in Listed(left.files) : Wanted(e)

-----------------------------------------------------------------------------
(* The tool runs.                                                          *)

\* The copies are made and the tool starts.
Open(now, later) ==
    /\ open' = now
    /\ copy' = [f \in Files |-> IF \E e \in Listed(now) : e.f = f /\ e.kind = "encrypted"
                                THEN source[f] ELSE None]
    /\ before' = [f \in Files |-> IF \E e \in Listed(now) : e.f = f THEN source[f] ELSE None]
    /\ left' = [left EXCEPT !.files = later]
    /\ pc' = [p \in Process |-> CASE p = "main" -> "tool"
                                  [] p = "watcher" /\ Watches -> "wait"
                                  [] p = "watcher" /\ ~Watches -> "off"]
    /\ at' = [p \in Process |-> 1]
    /\ UNCHANGED <<cmd, source, target, got, cached, events, saved, outside, raced, failed>>

\* The editor gets all files, or without arguments the whole working tree.
StartEditor == pc["main"] = "next" /\ ~Merges /\ Open(left.files, <<>>)

StartMerge ==
    /\ pc["main"] = "next" /\ Merges
    /\ \E k \in DOMAIN left.files :
         /\ Wanted(left.files[k]) /\ \A j \in 1 .. k - 1 : ~Wanted(left.files[j])
         /\ Open(<<left.files[k]>>, SubSeq(left.files, k + 1, Len(left.files)))

\* An editor that saves by renaming breaks a hard link and ends the watch.
Save ==
    /\ pc["main"] = "tool" /\ left.saves > 0
    /\ \E e \in Given, text \in Texts, renames \in BOOLEAN :
         /\ IF e.kind = "encrypted" \/ (e.kind = "linked" /\ (renames \/ copy[e.f] # None))
            THEN copy' = [copy EXCEPT ![e.f] = text] /\ UNCHANGED source
            ELSE source' = [source EXCEPT ![e.f] = text] /\ UNCHANGED copy
         /\ saved' = saved \cup {e.f}
    /\ events' = IF pc["watcher"] = "off" THEN 0 ELSE 1
    /\ left' = [left EXCEPT !.saves = @ - 1]
    /\ UNCHANGED <<cmd, target, open, before, pc, at, got, cached, outside, raced, failed>>

\* Someone else writes a source file: git pull, or another chezmoi.
ChangeOutside ==
    /\ pc["main"] \notin {"next", "end"} /\ left.outside > 0
    /\ \E f \in Files : \E text \in Texts \ {source[f]} :
         source' = [source EXCEPT ![f] = text] /\ outside' = [outside EXCEPT ![f] = text]
    /\ left' = [left EXCEPT !.outside = @ - 1]
    /\ UNCHANGED <<cmd, target, open, copy, before, pc, at, got, cached, events, saved, raced, failed>>

ToolFails ==
    /\ pc["main"] = "tool" /\ left.faults > 0
    /\ pc' = [pc EXCEPT !["main"] = "end"] /\ failed' = "tool"
    /\ left' = [left EXCEPT !.faults = @ - 1]
    /\ UNCHANGED <<cmd, source, target, open, copy, before, at, got, cached, events, saved, outside, raced>>

ToolEnds ==
    /\ pc["main"] = "tool"
    /\ pc' = [pc EXCEPT !["main"] =
                IF cmd.files = <<>> THEN (IF cmd.apply THEN "reset" ELSE "end") ELSE "check"]
    /\ at' = [at EXCEPT !["main"] = 1]
    /\ raced' = (pc["watcher"] \notin {"off", "wait"})
    /\ UNCHANGED <<cmd, source, target, open, copy, before, got, cached, events, left, saved, outside, failed>>

WatcherWakes ==
    /\ pc["watcher"] = "wait" /\ events = 1 /\ pc["main"] # "end"
    /\ raced' = (raced \/ pc["main"] # "tool")
    /\ pc' = [pc EXCEPT !["watcher"] = "check"] /\ at' = [at EXCEPT !["watcher"] = 1]
    /\ events' = 0
    /\ UNCHANGED <<cmd, source, target, open, copy, before, got, cached, left, saved, outside, failed>>

-----------------------------------------------------------------------------
(* postEditFunc, in either process; what edit-encrypted and merge do after *)
(* the tool is the same without the comparison.                            *)

\* The watcher waits again; the command ends, or merges the next file.
Returned(p) == IF p = "watcher" THEN "wait" ELSE IF MoreFiles THEN "next" ELSE "end"

File(p) == open[at[p]].f
Encrypted(k) == open[k].kind = "encrypted"
Beyond(p) == \A k \in at[p] .. Len(open) : ~Encrypted(k)

\* edit compares with the text before; the first file that did not change ends
\* the loop and the function.
Same(f) == cmd.name = "edit" /\ copy[f] = before[f]

\* The next encrypted file.
Check(p) ==
    /\ pc[p] = "check"
    /\ \E k \in at[p] .. Len(open) :
         /\ Encrypted(k) /\ \A j \in at[p] .. k - 1 : ~Encrypted(j)
         /\ at' = [at EXCEPT ![p] = k]
         /\ pc' = [pc EXCEPT ![p] = IF Same(open[k].f) THEN Returned(p) ELSE "encrypt"]
    /\ UNCHANGED <<cmd, source, target, open, copy, before, got, cached, events, left, saved, outside, raced, failed>>

\* There is none.
CheckedAll(p) ==
    /\ pc[p] = "check" /\ Beyond(p)
    /\ pc' = [pc EXCEPT ![p] = IF cmd.apply \/ cmd.watch THEN "reset" ELSE Returned(p)]
    /\ UNCHANGED <<cmd, source, target, open, copy, before, at, got, cached, events, left, saved, outside, raced, failed>>

\* EncryptFile reads the copy anew.
Encrypt(p) ==
    /\ pc[p] = "encrypt"
    /\ got' = [got EXCEPT ![p] = [Unread EXCEPT ![File(p)] = copy[File(p)]]]
    /\ pc' = [pc EXCEPT ![p] = "write"]
    /\ UNCHANGED <<cmd, source, target, open, copy, before, at, cached, events, left, saved, outside, raced, failed>>

EncryptFails(p) ==
    /\ pc[p] = "encrypt" /\ left.faults > 0
    /\ left' = [left EXCEPT !.faults = @ - 1]
    /\ IF p = "main" THEN pc' = [pc EXCEPT ![p] = "end"] /\ failed' = "encrypt"
                     ELSE pc' = [pc EXCEPT ![p] = "wait"] /\ UNCHANGED failed
    /\ UNCHANGED <<cmd, source, target, open, copy, before, at, got, cached, events, saved, outside, raced>>

Written(p) == [source EXCEPT ![File(p)] = got[p][File(p)]]

Write(p) ==
    /\ pc[p] = "write"
    /\ source' = Written(p)
    /\ at' = [at EXCEPT ![p] = @ + 1] /\ pc' = [pc EXCEPT ![p] = "check"]
    /\ UNCHANGED <<cmd, target, open, copy, before, got, cached, events, left, saved, outside, raced, failed>>

\* A slip: the source state that was read at the start is applied.
ResetNot(p) == cached

\* resetSourceState: without arguments nothing was read yet.
Reset(p) == Unread
ResetState(p) ==
    /\ pc[p] = "reset"
    /\ cached' = Reset(p)
    /\ pc' = [pc EXCEPT ![p] = "read"]
    /\ UNCHANGED <<cmd, source, target, open, copy, before, at, got, events, left, saved, outside, raced, failed>>

\* getSourceState: what the other process has read meanwhile is taken.
Read(p) ==
    /\ pc[p] = "read"
    /\ cached' = IF cached = Unread THEN source ELSE cached
    /\ got' = [got EXCEPT ![p] = cached']
    /\ pc' = [pc EXCEPT ![p] = "apply"]
    /\ UNCHANGED <<cmd, source, target, open, copy, before, at, events, left, saved, outside, raced, failed>>

Apply(p) ==
    /\ pc[p] = "apply"
    /\ target' = [f \in Files |->
                    IF f \in {e.f : e \in Listed(cmd.files)} \/ cmd.files = <<>> THEN got[p][f] ELSE target[f]]
    /\ pc' = [pc EXCEPT ![p] = Returned(p)]
    /\ UNCHANGED <<cmd, source, open, copy, before, at, got, cached, events, left, saved, outside, raced, failed>>

\* Nothing to merge.
Nothing ==
    /\ pc["main"] = "next" /\ Merges /\ ~MoreFiles
    /\ pc' = [pc EXCEPT !["main"] = "end"]
    /\ UNCHANGED <<cmd, source, target, open, copy, before, at, got, cached, events, left, saved, outside, raced, failed>>

\* The process ends: until then a watcher that is at work goes on.
Exit ==
    /\ pc["main"] = "end" /\ pc["watcher"] # "off"
    /\ pc' = [pc EXCEPT !["watcher"] = "off"]
    /\ UNCHANGED <<cmd, source, target, open, copy, before, at, got, cached, events, left, saved, outside, raced, failed>>

Steps(p) ==
    Check(p) \/ CheckedAll(p) \/ Encrypt(p) \/ EncryptFails(p) \/ Write(p) \/ ResetState(p) \/ Read(p) \/ Apply(p)

Next ==
    \/ StartEditor \/ StartMerge \/ Nothing \/ Save \/ ChangeOutside \/ ToolFails \/ ToolEnds \/ WatcherWakes \/ Exit
    \/ \E p \in Process : Steps(p)

Spec == Init /\ [][Next]_editVars

-----------------------------------------------------------------------------
(* Properties.                                                             *)

\* The command is done with the files that are open.
Closed == pc["main"] = "end" \/ (pc["main"] = "next" /\ open # <<>>)

\* Nothing before the file, and not the file itself, was found unchanged.
Reached(k) == cmd.name = "edit" => \A j \in 1..k : Encrypted(j) => copy[open[j].f] # before[open[j].f]

\* What the user made of an encrypted file is what its source file then
\* decrypts to, unless the tool or the encryption failed (postEditFunc, the
\* loops of runEditEncryptedCmd and doMerge).
EditsKept ==
    (Closed /\ failed = "" /\ ~cmd.watch) =>
        \A k \in DOMAIN open :
            Encrypted(k) /\ Reached(k) => source[open[k].f] = copy[open[k].f] \/ outside[open[k].f] # None

\* edit does not write a file that the user left alone in the editor, so that
\* what someone else wrote to it meanwhile stays (postEditFunc's comparison).
LeftAlone ==
    (cmd.name = "edit" /\ pc["main"] # "next") =>
        \A e \in Given :
            e.f \notin saved => source[e.f] = IF outside[e.f] = None THEN before[e.f] ELSE outside[e.f]

\* A tool that fails leaves every encrypted file as it was (runEditor's and
\* run's errors).
FailureWritesNothing ==
    (failed = "tool" /\ ~cmd.watch) =>
        \A e \in Given : e.kind = "encrypted" => source[e.f] = before[e.f] \/ outside[e.f] # None

\* With --apply or --watch the destination is at the end what the source files
\* are, also when the watcher has read them before (resetSourceState,
\* getSourceState); unless it was still at work, when it may yet write and
\* apply what it read before.
AppliedIsEdited ==
    (cmd.name = "edit" /\ pc["main"] = "end" /\ failed = ""
       /\ ~raced /\ (cmd.apply \/ Watches) /\ Reached(Len(open))) =>
        \A f \in Files :
            (f \in {e.f : e \in Given} \/ cmd.files = <<>>) => target[f] = source[f] \/ outside[f] # None

\* What was edited, and only that, is written back and applied.
EditsLand == EditsKept /\ LeftAlone /\ FailureWritesNothing /\ AppliedIsEdited
=============================================================================
