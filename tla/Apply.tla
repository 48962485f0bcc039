-------------------------------- MODULE Apply --------------------------------
(***************************************************************************)
(* `chezmoi apply`: one process walks the targets in order, compares what  *)
(* each should be with what the destination holds and with what chezmoi    *)
(* last wrote, perhaps asks the user, changes the destination and records  *)
(* what it wrote in the entryState bucket of the persistent state.         *)
(* internal/cmd/config.go: applyArgs, defaultPreApplyFunc;                 *)
(* internal/chezmoi/sourcestate.go: SourceState.Apply, PostApply;          *)
(* internal/chezmoi/targetstateentry.go: the Apply methods.                *)
(*                                                                         *)
(* The user edits the destination and the source between (or, with         *)
(* EditWhileRunning, during) runs; a run can crash, and any of its         *)
(* operations can fail, between any two steps.                             *)
(***************************************************************************)
EXTENDS EntryState, Integers, Sequences

CONSTANTS
    Order,              \* the targets as sourceState.TargetRelPaths sorts them
    OptionSets,         \* the command lines that runs are started with
    SourceChoices,      \* SourceChoices[t]: what the source may say of t
    FsChoices,          \* FsChoices[t]: what the user may put at t
    EditWhileRunning,   \* may the user edit targets while chezmoi runs?
    Budget              \* bounds: runs, edits, source edits, crashes, faults

Classes == {"dirs", "files", "symlinks", "remove"}

Options ==
    [force : BOOLEAN, interactive : BOOLEAN, lessInteractive : BOOLEAN,
     keepGoing : BOOLEAN, dryRun : BOOLEAN,
     exclude : SUBSET Classes, args : SUBSET Targets]

Budgets == [runs : Nat, edits : Nat, sourceEdits : Nat, crashes : Nat, faults : Nat]

\* Every target comes once, and after the directories that contain it.
ASSUME OrderAssumption ==
    /\ Order \in Seq(Targets)
    /\ \A t \in Targets : \E k \in 1..Len(Order) : Order[k] = t
    /\ \A j, k \in 1..Len(Order) :
         /\ Order[j] = Order[k] => j = k
         /\ Order[j] \in Above[Order[k]] => j < k

\* --force and --interactive are mutually exclusive.
ASSUME ChoicesAssumption ==
    /\ OptionSets \subseteq {o \in Options : ~(o.force /\ o.interactive)}
    /\ SourceChoices \in [Targets -> SUBSET SourceEntry]
    /\ FsChoices \in [Targets -> SUBSET Entry]
    /\ EditWhileRunning \in BOOLEAN
    /\ Budget \in Budgets

VARIABLES
    fs,      \* the destination directory
    db,      \* the entryState bucket of the persistent state
    source,  \* the source directory
    pc,      \* where the run is; "idle" when none is running
    i,       \* index in Order of the target the run is at
    opts,    \* the options of the run; prompts answered "all" change them
    want,    \* targetEntryState of the current target
    seen,    \* actualStateEntry: what the destination held when inspected
    failed,  \* keptGoingAfterErr, or the error that ended the run
    \* History and bounds, which the program does not have:
    wrote,   \* what chezmoi last made of each target, None before it ever did
    lost,    \* targets whose last write was cut off before it was recorded
    dirty,   \* the current target, as inspected, is not what chezmoi last made
    asked,   \* the user said to go on with the current target
    clean,   \* nobody disturbed this run: no edit, fault, skip or quit
    budget

run     == <<i, opts, want, seen, failed, dirty, asked>>
history == <<wrote, lost>>
vars    == <<fs, db, source, pc, run, history, clean, budget>>

PCs == {"idle", "inspect", "yesNoAll", "conflict", "write", "create", "record",
        "post", "postRecord"}

NoOptions ==
    [force |-> FALSE, interactive |-> FALSE, lessInteractive |-> FALSE,
     keepGoing |-> FALSE, dryRun |-> FALSE, exclude |-> {}, args |-> {}]

TypeOK ==
    /\ fs \in [Targets -> Entry]
    /\ db \in [Targets -> Entry \cup {None}]
    /\ source \in [Targets -> SourceEntry]
    /\ pc \in PCs
    /\ i \in 0..(Len(Order) + 1)
    /\ pc \in {"yesNoAll", "conflict", "write", "create", "record", "postRecord"}
         => i \in 1..Len(Order)
    /\ opts \in Options
    /\ want \in Entry
    /\ seen \in Entry
    /\ failed \in BOOLEAN
    /\ wrote \in [Targets -> Entry \cup {None}]
    /\ lost \subseteq Targets
    /\ dirty \in BOOLEAN
    /\ asked \in BOOLEAN
    /\ clean \in BOOLEAN
    /\ budget \in Budgets

cur == Order[i]

Init ==
    /\ fs \in {f \in [Targets -> UNION {FsChoices[t] : t \in Targets}] :
                 WellFormed(f) /\ \A t \in Targets : f[t] \in FsChoices[t]}
    /\ source \in {s \in [Targets -> UNION {SourceChoices[t] : t \in Targets}] :
                     Consistent(s) /\ \A t \in Targets : s[t] \in SourceChoices[t]}
    /\ db = [t \in Targets |-> None]
    /\ pc = "idle" /\ i = 0 /\ opts = NoOptions
    /\ want = Absent /\ seen = Absent /\ failed = FALSE
    /\ wrote = [t \in Targets |-> None] /\ lost = {}
    /\ dirty = FALSE /\ asked = FALSE /\ clean = TRUE
    /\ budget = Budget

-----------------------------------------------------------------------------
(* Moving through the run.                                                 *)

\* The variables of the current target are meaningless between targets.
ForgetTarget == want' = Absent /\ seen' = Absent /\ dirty' = FALSE /\ asked' = FALSE

NextTarget ==
    /\ pc' = "inspect" /\ i' = i + 1
    /\ ForgetTarget
    /\ UNCHANGED <<opts, failed>>

EndRun ==
    /\ pc' = "idle" /\ i' = 0 /\ opts' = NoOptions /\ failed' = FALSE /\ clean' = TRUE
    /\ ForgetTarget

\* A slip: --keep-going tries the same target again.
ErrorRetries ==
    IF opts.keepGoing
    THEN /\ pc' = "inspect" /\ failed' = TRUE /\ clean' = FALSE
         /\ ForgetTarget /\ UNCHANGED <<i, opts>>
    ELSE EndRun

\* sourceState.Apply returned an error: --keep-going goes on with the next
\* target, otherwise applyArgs returns it. A prompt answered "quit" comes here
\* too, as the error ExitCodeError(0).
Error ==
    IF opts.keepGoing
    THEN /\ pc' = "inspect" /\ i' = i + 1 /\ failed' = TRUE /\ clean' = FALSE
         /\ ForgetTarget /\ UNCHANGED opts
    ELSE EndRun

\* What was done to the current target but is not recorded is lost with the error.
Unrecorded == pc \in {"create", "record", "postRecord"} /\ ~opts.dryRun
LostNow == IF Unrecorded THEN lost \cup {cur} ELSE lost

-----------------------------------------------------------------------------
(* SourceState.Apply up to the PreApplyFunc.                               *)

Start(o) ==
    /\ pc = "idle" /\ budget.runs > 0
    /\ budget' = [budget EXCEPT !.runs = @ - 1]
    /\ pc' = "inspect" /\ i' = 1 /\ opts' = o
    /\ UNCHANGED <<fs, db, source, want, seen, failed, dirty, asked, history, clean>>

Class(s) ==
    CASE s.kind \in DirKinds -> "dirs"
      [] s.kind \in FileKinds -> "files"
      [] s.kind = "symlink" -> "symlinks"
      [] OTHER -> "remove"

\* Only the targets among the arguments that the source state manages and the
\* --include and --exclude flags let through are applied.
Selected(t) ==
    /\ t \in opts.args
    /\ source[t].kind # "none"
    /\ Class(source[t]) \notin opts.exclude

PassOver ==
    /\ pc = "inspect" /\ i \in 1..Len(Order)
    /\ ~Selected(cur)
    /\ NextTarget
    /\ UNCHANGED <<fs, db, source, history, clean, budget>>

InspectFails ==
    /\ pc = "inspect" /\ i \in 1..Len(Order)
    /\ Selected(cur)
    /\ ReadFails(source[cur], fs[cur]) \/ LstatFails(fs, cur)
    /\ Error
    /\ UNCHANGED <<fs, db, source, history, budget>>

\* The prompt for target state w where the destination holds a.
PromptFor(w, a, overwrite, targetDirty, targetPreExisting) ==
    LET unneeded == opts.force \/ Equivalent(w, a)
        conflict == IF opts.lessInteractive
                    THEN targetDirty \/ targetPreExisting
                    ELSE targetDirty /\ ~overwrite
    IN  CASE unneeded -> "write"
          [] ~unneeded /\ opts.interactive -> "yesNoAll"
          [] ~unneeded /\ ~opts.interactive /\ conflict -> "conflict"
          [] OTHER -> "write"

\* Slips: a target that chezmoi never wrote counts as changed, or is never in
\* the way.
PromptUnwritten(w, l, a, overwrite) == PromptFor(w, a, overwrite, ~Equivalent(l, a), FALSE)
PromptWrittenOnly(w, l, a, overwrite) ==
    PromptFor(w, a, overwrite, l # None /\ ~Equivalent(l, a), FALSE)

\* defaultPreApplyFunc: l is what chezmoi last wrote.
PromptMode(w, l, a, overwrite) ==
    PromptFor(w, a, overwrite, l # None /\ ~Equivalent(l, a), l = None /\ a # Absent)

\* When the destination already is what is wanted but the record says
\* otherwise, the record follows silently.
Inspect ==
    /\ pc = "inspect" /\ i \in 1..Len(Order)
    /\ Selected(cur)
    /\ ~ReadFails(source[cur], fs[cur]) /\ ~LstatFails(fs, cur)
    /\ LET w     == TargetState(source[cur], fs[cur])
           a     == fs[cur]
           adopt == Equivalent(w, a) /\ ~Equivalent(db[cur], a)
           last  == IF adopt THEN w ELSE db[cur]
       IN  /\ want' = w /\ seen' = a
           /\ pc' = PromptMode(w, last, a, Overwrite(source[cur], w))
           /\ IF adopt /\ ~opts.dryRun
              THEN /\ db' = [db EXCEPT ![cur] = w]
                   /\ wrote' = [wrote EXCEPT ![cur] = w]
                   /\ lost' = lost \ {cur}
                   /\ dirty' = FALSE
              ELSE /\ dirty' = (wrote[cur] # None /\ wrote[cur] # a)
                   /\ UNCHANGED <<db, wrote, lost>>
    /\ UNCHANGED <<fs, source, i, opts, failed, asked, clean, budget>>

-----------------------------------------------------------------------------
(* The prompt. "diff" shows the difference and asks again.                 *)

\* yes, or overwrite
AnswerYes ==
    /\ pc \in {"yesNoAll", "conflict"}
    /\ pc' = "write" /\ asked' = TRUE
    /\ UNCHANGED <<fs, db, source, i, opts, want, seen, failed, dirty, history, clean, budget>>

\* all: disables --interactive; all-overwrite: enables --force
AnswerAll ==
    /\ pc \in {"yesNoAll", "conflict"}
    /\ opts' = IF pc = "yesNoAll" THEN [opts EXCEPT !.interactive = FALSE]
                                  ELSE [opts EXCEPT !.force = TRUE]
    /\ pc' = "write" /\ asked' = TRUE
    /\ UNCHANGED <<fs, db, source, i, want, seen, failed, dirty, history, clean, budget>>

\* A slip: skip returns nil, as overwrite does.
SkipWrites ==
    /\ pc \in {"yesNoAll", "conflict"}
    /\ pc' = "write"
    /\ UNCHANGED <<fs, db, source, run, history, clean, budget>>

\* no, or skip: fs.SkipDir, on which applyArgs continues with the next target
AnswerNo ==
    /\ pc \in {"yesNoAll", "conflict"}
    /\ NextTarget
    /\ clean' = FALSE
    /\ UNCHANGED <<fs, db, source, history, budget>>

AnswerQuit ==
    /\ pc \in {"yesNoAll", "conflict"}
    /\ Error
    /\ UNCHANGED <<fs, db, source, history, budget>>

-----------------------------------------------------------------------------
(* TargetStateEntry.Apply: what it does depends on the target state and on *)
(* the actual state as it was inspected, before the prompt.                *)


\* Slips: permission bits are not compared, or an entry is always made anew.
PlanBySum(w, a) ==
    CASE w.type = a.type /\ w.sum = a.sum -> "nothing"
      [] w = Absent /\ a # Absent -> "remove"
      [] w # Absent /\ (w.type # a.type \/ w.sum # a.sum)
           /\ (a = Absent \/ (w.type = "file" /\ a.type = "file")) -> "write"
      [] OTHER -> "replace"
PlanAnew(w, a) ==
    CASE w = a -> "nothing"
      [] w = Absent /\ a # Absent -> "remove"
      [] w # Absent /\ a = Absent -> "write"
      [] OTHER -> "replace"

Plan(w, a) ==
    CASE w = a -> "nothing"
      [] w = Absent /\ a # Absent -> "remove"
      [] w # Absent /\ w # a /\ w.type = a.type /\ w.sum = a.sum -> "chmod"
      [] w # Absent /\ (w.type # a.type \/ w.sum # a.sum)
           /\ (a = Absent \/ (w.type = "file" /\ a.type = "file")) -> "write"
      [] OTHER -> "replace"

\* A slip: one system call that DryRunSystem passes on.
ChangeAnyway(newFs, w) == fs' = newFs /\ wrote' = [wrote EXCEPT ![cur] = w]

\* A change of the destination. In a dry run DryRunSystem discards it.
Change(newFs, w) ==
    IF opts.dryRun
    THEN UNCHANGED <<fs, wrote>>
    ELSE fs' = newFs /\ wrote' = [wrote EXCEPT ![cur] = w]

Unchanged ==
    /\ pc = "write" /\ Plan(want, seen) = "nothing"
    /\ NextTarget
    /\ UNCHANGED <<fs, db, source, history, clean, budget>>

Remove ==
    /\ pc = "write" /\ Plan(want, seen) = "remove"
    /\ Change(RemoveAll(fs, cur), Absent)
    /\ pc' = "record"
    /\ UNCHANGED <<db, source, run, lost, clean, budget>>

\* An entry of another type, and an old symlink, are removed first.
RemoveOld ==
    /\ pc = "write" /\ Plan(want, seen) = "replace"
    /\ Change(RemoveAll(fs, cur), Absent)
    /\ pc' = "create"
    /\ UNCHANGED <<db, source, run, lost, clean, budget>>

AboutToCreate == pc = "create" \/ (pc = "write" /\ Plan(want, seen) = "write")

\* Mkdir needs a free name; WriteFile and WriteSymlink rename over what is
\* there unless that is a directory.
CreateSucceeds ==
    \/ opts.dryRun
    \/ /\ CanCreate(fs, cur)
       /\ IF want.type = "dir" THEN fs[cur] = Absent ELSE fs[cur].type # "dir"

Create ==
    /\ AboutToCreate /\ CreateSucceeds
    /\ Change([fs EXCEPT ![cur] = want], want)
    /\ pc' = "record"
    /\ UNCHANGED <<db, source, run, lost, clean, budget>>

ChmodSucceeds == opts.dryRun \/ fs[cur].type \in {"file", "dir"}

Chmod ==
    /\ pc = "write" /\ Plan(want, seen) = "chmod" /\ ChmodSucceeds
    /\ Change([fs EXCEPT ![cur].perm = want.perm], want)
    /\ pc' = "record"
    /\ UNCHANGED <<db, source, run, lost, clean, budget>>

WriteFails ==
    /\ \/ AboutToCreate /\ ~CreateSucceeds
       \/ pc = "write" /\ Plan(want, seen) = "chmod" /\ ~ChmodSucceeds
    /\ Error
    /\ lost' = LostNow
    /\ UNCHANGED <<fs, db, source, wrote, budget>>

\* A slip: the actual state is recorded in place of the target state.
RecordSeen ==
    /\ pc = "record"
    /\ IF opts.dryRun
       THEN UNCHANGED <<db, lost>>
       ELSE db' = [db EXCEPT ![cur] = seen] /\ lost' = lost \ {cur}
    /\ NextTarget
    /\ UNCHANGED <<fs, source, wrote, clean, budget>>

\* SourceState.Apply ends by recording the target state; a dry run records it
\* in a copy of the persistent state that is dropped when the run ends.
Record ==
    /\ pc = "record"
    /\ IF opts.dryRun
       THEN UNCHANGED <<db, lost>>
       ELSE db' = [db EXCEPT ![cur] = want] /\ lost' = lost \ {cur}
    /\ NextTarget
    /\ UNCHANGED <<fs, source, wrote, clean, budget>>

-----------------------------------------------------------------------------
(* PostApply walks the targets backwards and removes the directories with  *)
(* the remove_ attribute that are empty by now.                            *)

BeginPostApply ==
    /\ pc = "inspect" /\ i = Len(Order) + 1
    /\ pc' = "post" /\ i' = Len(Order)
    /\ UNCHANGED <<fs, db, source, opts, want, seen, failed, dirty, asked, history, clean, budget>>

InRemoveDirs(t) == t \in opts.args /\ source[t].kind = "rmdir"

PostPassOver ==
    /\ pc = "post" /\ i \in 1..Len(Order)
    /\ \/ ~InRemoveDirs(cur)
       \/ /\ ~LstatFails(fs, cur)
          /\ \/ fs[cur].type \in {"remove", "symlink"}
             \/ fs[cur].type = "dir" /\ ~IsEmptyDir(fs, cur) /\ ~opts.dryRun
    /\ i' = i - 1
    /\ UNCHANGED <<fs, db, source, pc, opts, want, seen, failed, dirty, asked, history, clean, budget>>

PostRemove ==
    /\ pc = "post" /\ i \in 1..Len(Order)
    /\ InRemoveDirs(cur)
    /\ fs[cur].type = "dir"
    /\ IsEmptyDir(fs, cur) \/ opts.dryRun
    /\ Change([fs EXCEPT ![cur] = Absent], Absent)
    /\ pc' = "postRecord"
    /\ UNCHANGED <<db, source, run, lost, clean, budget>>


\* A slip: PostApply does not record what it removed.
PostForgets ==
    /\ pc = "postRecord"
    /\ pc' = "post" /\ i' = i - 1
    /\ UNCHANGED <<fs, db, source, opts, want, seen, failed, dirty, asked, history, clean, budget>>

PostRecord ==
    /\ pc = "postRecord"
    /\ IF opts.dryRun
       THEN UNCHANGED <<db, lost>>
       ELSE db' = [db EXCEPT ![cur] = Absent] /\ lost' = lost \ {cur}
    /\ pc' = "post" /\ i' = i - 1
    /\ UNCHANGED <<fs, source, opts, want, seen, failed, dirty, asked, wrote, clean, budget>>

\* An error ends PostApply, with --keep-going too.
PostFails ==
    /\ pc = "post" /\ i \in 1..Len(Order)
    /\ InRemoveDirs(cur)
    /\ LstatFails(fs, cur) \/ fs[cur].type = "file"
    /\ EndRun
    /\ UNCHANGED <<fs, db, source, history, budget>>

Finish ==
    /\ pc = "post" /\ i = 0
    /\ EndRun
    /\ UNCHANGED <<fs, db, source, history, budget>>

-----------------------------------------------------------------------------
(* The environment.                                                        *)

\* An operation of the run fails: reading or executing a source file, a file
\* operation, or a transaction on the persistent state.
Fault ==
    /\ budget.faults > 0
    /\ pc \in {"inspect", "write", "create", "record", "post", "postRecord"}
    /\ i \in 1..Len(Order)
    /\ budget' = [budget EXCEPT !.faults = @ - 1]
    /\ IF pc \in {"post", "postRecord"} THEN EndRun ELSE Error
    /\ lost' = LostNow
    /\ UNCHANGED <<fs, db, source, wrote>>

Crash ==
    /\ budget.crashes > 0
    /\ pc # "idle"
    /\ budget' = [budget EXCEPT !.crashes = @ - 1]
    /\ EndRun
    /\ lost' = LostNow
    /\ UNCHANGED <<fs, db, source, wrote>>

\* The user creates, replaces, changes or removes the entry at t.
UserEdit(t) ==
    /\ budget.edits > 0
    /\ pc = "idle" \/ EditWhileRunning
    /\ budget' = [budget EXCEPT !.edits = @ - 1]
    /\ \E e \in FsChoices[t] \ {fs[t]} :
         /\ e # Absent => CanCreate(fs, t)
         /\ fs' = IF e.type = "dir" /\ fs[t].type = "dir"
                  THEN [fs EXCEPT ![t] = e]
                  ELSE [RemoveAll(fs, t) EXCEPT ![t] = e]
    /\ clean' = (pc = "idle")
    /\ UNCHANGED <<db, source, pc, run, history>>

\* The user edits the source of t. The names, and with them the attributes,
\* are read when the run starts; file contents when the target is reached.
SourceEdit(t) ==
    /\ budget.sourceEdits > 0
    /\ pc = "idle" \/ EditWhileRunning
    /\ budget' = [budget EXCEPT !.sourceEdits = @ - 1]
    /\ \E s \in SourceChoices[t] \ {source[t]} :
         /\ pc # "idle" => s.kind \in FileKinds /\ s = [source[t] EXCEPT !.sum = s.sum]
         /\ source' = [source EXCEPT ![t] = s]
    /\ Consistent(source')
    /\ clean' = (pc = "idle")
    /\ UNCHANGED <<fs, db, pc, run, history>>

-----------------------------------------------------------------------------
Inspecting == PassOver \/ InspectFails \/ Inspect
Answer     == AnswerYes \/ AnswerAll \/ AnswerNo \/ AnswerQuit
Writing    == Unchanged \/ Remove \/ RemoveOld \/ Create \/ Chmod \/ WriteFails \/ Record
PostApply  == BeginPostApply \/ PostPassOver \/ PostRemove \/ PostRecord \/ PostFails \/ Finish

Running == Inspecting \/ Answer \/ Writing \/ PostApply

Environment ==
    Fault \/ Crash \/ \E t \in Targets : UserEdit(t) \/ SourceEdit(t)

Next == (\E o \in OptionSets : Start(o)) \/ Running \/ Environment

Spec == Init /\ [][Next]_vars

\* The process keeps running, and a prompt is answered with something other
\* than "diff" in the end.
FairSpec == Spec /\ WF_vars(Running)
=============================================================================
