-------------------------------- MODULE Scripts --------------------------------
(***************************************************************************)
(* Scripts in `chezmoi apply`: when a run_ script is due, in which order   *)
(* scripts and other entries come, and how the execution of a script is    *)
(* recorded in two buckets of the persistent state, scriptState by the     *)
(* SHA256 sum of its contents and entryState by its target path.           *)
(* internal/chezmoi/targetstateentry.go: TargetStateScript;                *)
(* internal/chezmoi/sourcestate.go: TargetRelPaths, Apply;                 *)
(* internal/cmd/config.go: applyArgs, targetRelPaths, defaultPreApplyFunc. *)
(*                                                                         *)
(* Between runs the user edits scripts and deletes buckets; a script can   *)
(* fail, and a run can crash, or fail to record, between any two steps.    *)
(* Nothing lies in the destination at the path of a script.                *)
(***************************************************************************)
EXTENDS Integers, FiniteSets

CONSTANTS
    ScriptPaths,    \* target paths of scripts
    FilePaths,      \* target paths of other entries
    Rank,           \* Rank[t]: where t comes in the order of paths
    OrderOf,        \* -1, 0 or 1: before_, neither or after_
    Sums,           \* sums of script contents
    Empty,          \* the sum of no contents at all
    Blank,          \* the sum of contents that are only whitespace
    None,           \* no record
    InitialScripts, \* what the source directory may hold at first
    Invocations,    \* the command lines
    Limit           \* bounds: runs, edits, deletes, crashes, faults

Paths == ScriptPaths \cup FilePaths
Conditions == {"always", "once", "onchange"}
Script == [condition : Conditions, sum : Sums]

Invocation == [explicit : BOOLEAN, interactive : BOOLEAN, lessInteractive : BOOLEAN,
               keepGoing : BOOLEAN, dryRun : BOOLEAN, args : SUBSET Paths]

Limits == [runs : Nat, edits : Nat, deletes : Nat, crashes : Nat, faults : Nat]

ASSUME PathsAssumption ==
    /\ ScriptPaths \cap FilePaths = {} /\ None \notin ScriptPaths
    /\ Rank \in [Paths -> Nat]
    /\ \A s, t \in Paths : Rank[s] = Rank[t] => s = t
    /\ OrderOf \in [Paths -> {-1, 0, 1}]
    /\ \A t \in FilePaths : OrderOf[t] = 0

ASSUME SumsAssumption ==
    /\ Empty \in Sums /\ Blank \in Sums /\ Empty # Blank /\ None \notin Sums

ASSUME BoundsAssumption ==
    /\ InitialScripts \subseteq [ScriptPaths -> Script]
    /\ Invocations \subseteq Invocation
    /\ Limit \in Limits

\* The two buckets of the persistent state
Buckets == [scripts : SUBSET Sums, entries : [ScriptPaths -> Sums \cup {None}]]
NoBuckets == [scripts |-> {}, entries |-> [s \in ScriptPaths |-> None]]

VARIABLES
    source,         \* the scripts in the source directory
    bolt,           \* the persistent state on disk
    mock,           \* the copy of it that a dry run works on
    pc,             \* where the run is; "idle" when none is running
    todo,           \* the targets still to be applied
    cur,            \* the script that is being applied
    opts,           \* the command line of the run
    \* History and bounds, which the program does not have:
    ran,            \* ran[s]: the contents that ran to success under the path s
    last,           \* last[s]: the contents that did so last
    lost,           \* the paths whose last success is not on record: the run was
                    \* cut off before, or the record was deleted
    runs,           \* how often contents ran to success as a run_once_ script
    excused,        \* how often such a success went unrecorded, or its record was deleted
    limit

history == <<ran, last, lost, runs, excused>>
run     == <<pc, todo, cur, opts>>
vars    == <<source, bolt, mock, run, history, limit>>

NoInvocation == [explicit |-> FALSE, interactive |-> FALSE, lessInteractive |-> FALSE,
                 keepGoing |-> FALSE, dryRun |-> FALSE, args |-> {}]

script == source[cur]
Applying == {"ask", "execute", "setScript", "setEntry"}

TypeOK ==
    /\ source \in [ScriptPaths -> Script]
    /\ bolt \in Buckets /\ mock \in Buckets
    /\ pc \in {"idle", "next"} \cup Applying
    /\ todo \subseteq Paths
    /\ cur \in ScriptPaths \cup {None}
    /\ pc \in Applying <=> cur # None
    /\ opts \in Invocation
    /\ ran \in [ScriptPaths -> SUBSET Sums]
    /\ last \in [ScriptPaths -> Sums \cup {None}]
    /\ lost \subseteq ScriptPaths
    /\ runs \in [Sums -> Nat] /\ excused \in [Sums -> Nat]
    /\ limit \in Limits

Init ==
    /\ source \in InitialScripts
    /\ bolt = NoBuckets /\ mock = NoBuckets
    /\ pc = "idle" /\ todo = {} /\ cur = None /\ opts = NoInvocation
    /\ ran = [s \in ScriptPaths |-> {}] /\ last = [s \in ScriptPaths |-> None]
    /\ lost = {}
    /\ runs = [c \in Sums |-> 0] /\ excused = [c \in Sums |-> 0]
    /\ limit = Limit

-----------------------------------------------------------------------------
(* The run: its targets, their order, and what ends it.                    *)

\* CompareRelPaths
ByPath(s, t) == Rank[s] < Rank[t]

\* A slip: after_ scripts are not told from other targets.
BeforeOnly(s, t) == \/ OrderOf[s] = -1 /\ OrderOf[t] # -1
                    \/ (OrderOf[s] = -1) = (OrderOf[t] = -1) /\ ByPath(s, t)

\* SourceState.TargetRelPaths: by order, then by path
ByOrder(s, t) == OrderOf[s] < OrderOf[t] \/ (OrderOf[s] = OrderOf[t] /\ ByPath(s, t))

\* The first of the targets that are left. Without arguments all targets come
\* in order; those named as arguments come by path only (Config.targetRelPaths).
First(t) ==
    /\ t \in todo
    /\ \A s \in todo \ {t} : IF opts.explicit THEN ByPath(t, s) ELSE ByOrder(t, s)

Start(o) ==
    /\ pc = "idle" /\ limit.runs > 0
    /\ limit' = [limit EXCEPT !.runs = @ - 1]
    /\ opts' = o /\ todo' = o.args /\ pc' = "next"
    /\ mock' = IF o.dryRun THEN bolt ELSE mock
    /\ UNCHANGED <<source, bolt, cur, history>>

\* A slip: the script of the target before is kept.
KeepScript(t) ==
    /\ todo' = todo \ {t} /\ pc' = "next" /\ UNCHANGED <<cur, opts>>

\* The target t is done with.
Advance(t) ==
    /\ todo' = todo \ {t} /\ pc' = "next" /\ cur' = None
    /\ UNCHANGED opts

EndRun ==
    /\ pc' = "idle" /\ todo' = {} /\ cur' = None /\ opts' = NoInvocation
    /\ mock' = NoBuckets

\* The error of one target ends the run, unless --keep-going goes on.
Error(t) == IF opts.keepGoing THEN Advance(t) /\ UNCHANGED mock ELSE EndRun

Finish ==
    /\ pc = "next" /\ todo = {}
    /\ EndRun
    /\ UNCHANGED <<source, bolt, history, limit>>

UpdateFile(t) ==
    /\ pc = "next" /\ First(t) /\ t \in FilePaths
    /\ Advance(t)
    /\ UNCHANGED <<source, bolt, mock, history, limit>>

-----------------------------------------------------------------------------
(* One script.                                                             *)

\* c.persistentState, and a Set of it
State == IF opts.dryRun THEN mock ELSE bolt

Set(new) ==
    /\ bolt' = IF opts.dryRun THEN bolt ELSE new
    /\ mock' = IF opts.dryRun THEN new ELSE mock

\* A slip: the contents' record in scriptState serves run_onchange_ scripts too.
SkipBySum(s) ==
    \/ source[s].sum = Empty
    \/ source[s].condition # "always" /\ source[s].sum \in State.scripts

\* A slip: run_once_ scripts are judged by the record of their path.
SkipByPath(s) ==
    \/ source[s].sum = Empty
    \/ source[s].condition # "always" /\ source[s].sum = State.entries[s]

\* TargetStateScript.SkipApply
SkipApply(s) ==
    \/ source[s].sum = Empty
    \/ source[s].condition = "once" /\ source[s].sum \in State.scripts
    \/ source[s].condition = "onchange" /\ source[s].sum = State.entries[s]

Skip(s) ==
    /\ pc = "next" /\ First(s) /\ s \in ScriptPaths
    /\ SkipApply(s)
    /\ Advance(s)
    /\ UNCHANGED <<source, bolt, mock, history, limit>>

\* defaultPreApplyFunc: no entry lies at the path of a script, so one that has
\* a record counts as changed with --less-interactive.
Prompts(s) == opts.interactive \/ (opts.lessInteractive /\ State.entries[s] # None)

Due(s) ==
    /\ pc = "next" /\ First(s) /\ s \in ScriptPaths
    /\ ~SkipApply(s)
    /\ cur' = s
    /\ pc' = IF Prompts(s) THEN "ask" ELSE "execute"
    /\ UNCHANGED <<source, bolt, mock, todo, opts, history, limit>>

\* yes and overwrite; all, after which --less-interactive still prompts, and
\* all-overwrite, which ends all prompts
AnswerYes(all) ==
    /\ pc = "ask" /\ pc' = "execute"
    /\ opts' = IF ~all THEN opts
               ELSE [opts EXCEPT !.interactive = FALSE,
                                 !.lessInteractive = @ /\ opts.interactive]
    /\ UNCHANGED <<source, bolt, mock, todo, cur, history, limit>>

AnswerNo ==
    /\ pc = "ask" /\ Advance(cur)
    /\ UNCHANGED <<source, bolt, mock, history, limit>>

AnswerQuit ==
    /\ pc = "ask" /\ Error(cur)
    /\ UNCHANGED <<source, bolt, history, limit>>

Bump(f, c) == [f EXCEPT ![c] = @ + 1]

\* A run_once_ script whose success counts: not one of whitespace, which is
\* recorded without being run.
OnceRan(f) == IF script.condition = "once" /\ script.sum # Blank THEN Bump(f, script.sum) ELSE f

\* A slip: the error of a script is dropped, so that a failure is recorded.
RecordFailure ==
    /\ pc = "execute" /\ ~opts.dryRun /\ script.sum # Blank
    /\ pc' = "setScript"
    /\ UNCHANGED <<source, bolt, mock, todo, cur, opts, history, limit>>

\* The script runs to success. A blank one, and any in a dry run, is not run.
Execute ==
    /\ pc = "execute" /\ pc' = "setScript"
    /\ IF opts.dryRun
       THEN UNCHANGED <<ran, last, runs>>
       ELSE /\ ran' = [ran EXCEPT ![cur] = @ \cup {script.sum}]
            /\ last' = [last EXCEPT ![cur] = script.sum]
            /\ runs' = OnceRan(runs)
    /\ UNCHANGED <<source, bolt, mock, todo, cur, opts, lost, excused, limit>>

\* The script exits with an error, or cannot be run: nothing is recorded.
ScriptFails ==
    /\ pc = "execute" /\ ~opts.dryRun /\ script.sum # Blank
    /\ limit.faults > 0 /\ limit' = [limit EXCEPT !.faults = @ - 1]
    /\ Error(cur)
    /\ UNCHANGED <<source, bolt, history>>

\* The scriptState record
SetScriptState ==
    /\ pc = "setScript" /\ pc' = "setEntry"
    /\ Set([State EXCEPT !.scripts = @ \cup {script.sum}])
    /\ UNCHANGED <<source, todo, cur, opts, history, limit>>

\* The success of cur is on record.
Recorded == lost' = IF opts.dryRun THEN lost ELSE lost \ {cur}

\* The entryState record, which SourceState.Apply then sets once more.
SetEntryState ==
    /\ pc = "setEntry" /\ Advance(cur)
    /\ Set([State EXCEPT !.entries[cur] = script.sum])
    /\ Recorded
    /\ UNCHANGED <<source, ran, last, runs, excused, limit>>

-----------------------------------------------------------------------------
(* The environment.                                                        *)

\* The run, or the target, stops: a success of cur that is not in both buckets
\* yet is lost, and one that is not in scriptState may come once more.
Unrecorded ==
    IF opts.dryRun \/ pc \notin {"setScript", "setEntry"}
    THEN UNCHANGED <<lost, excused>>
    ELSE /\ lost' = lost \cup {cur}
         /\ excused' = IF pc = "setScript" THEN OnceRan(excused) ELSE excused

\* The persistent state cannot be written.
RecordFails ==
    /\ pc \in {"setScript", "setEntry"} /\ limit.faults > 0
    /\ limit' = [limit EXCEPT !.faults = @ - 1]
    /\ Unrecorded /\ Error(cur)
    /\ UNCHANGED <<source, bolt, ran, last, runs>>

\* A template fails, the state cannot be read, or a file cannot be updated.
TargetFails(t) ==
    /\ pc = "next" /\ First(t) /\ limit.faults > 0
    /\ limit' = [limit EXCEPT !.faults = @ - 1]
    /\ Error(t)
    /\ UNCHANGED <<source, bolt, history>>

Crash ==
    /\ pc # "idle" /\ limit.crashes > 0
    /\ limit' = [limit EXCEPT !.crashes = @ - 1]
    /\ Unrecorded /\ EndRun
    /\ UNCHANGED <<source, bolt, ran, last, runs>>

EditScript(s, new) ==
    /\ pc = "idle" /\ limit.edits > 0 /\ new # source[s]
    /\ limit' = [limit EXCEPT !.edits = @ - 1]
    /\ source' = [source EXCEPT ![s] = new]
    /\ UNCHANGED <<bolt, mock, run, history>>

\* chezmoi state delete-bucket: every success on record may be repeated.
DeleteScriptState ==
    /\ pc = "idle" /\ limit.deletes > 0
    /\ limit' = [limit EXCEPT !.deletes = @ - 1]
    /\ bolt' = [bolt EXCEPT !.scripts = {}]
    /\ excused' = [c \in Sums |-> excused[c] + (IF c \in bolt.scripts THEN 1 ELSE 0)]
    /\ UNCHANGED <<source, mock, run, ran, last, lost, runs>>

DeleteEntryState ==
    /\ pc = "idle" /\ limit.deletes > 0
    /\ limit' = [limit EXCEPT !.deletes = @ - 1]
    /\ bolt' = [bolt EXCEPT !.entries = [s \in ScriptPaths |-> None]]
    /\ lost' = ScriptPaths
    /\ UNCHANGED <<source, mock, run, ran, last, runs, excused>>

-----------------------------------------------------------------------------
Running ==
    \/ \E t \in Paths : UpdateFile(t) \/ Skip(t) \/ Due(t)
    \/ \E all \in BOOLEAN : AnswerYes(all)
    \/ AnswerNo \/ AnswerQuit
    \/ Execute \/ SetScriptState \/ SetEntryState
    \/ Finish

Environment ==
    \/ \E t \in Paths : TargetFails(t)
    \/ ScriptFails \/ RecordFails \/ Crash
    \/ DeleteScriptState \/ DeleteEntryState
    \/ \E s \in ScriptPaths, new \in Script : EditScript(s, new)

Next == (\E o \in Invocations : Start(o)) \/ Running \/ Environment

Spec == Init /\ [][Next]_vars

-----------------------------------------------------------------------------
(* Properties.                                                             *)

\* Contents run to success as a run_once_ script once only, under whatever
\* paths, and once more for every time that the record of a success was not
\* made or was deleted.
OnceOnly == \A c \in Sums : runs[c] <= 1 + excused[c]

\* A script that failed is tried again, and one that ran is known to have run:
\* only contents that ran to success are in scriptState, and entryState holds
\* for a path what ran there last, unless that record was cut off or deleted.
RecordedRan ==
    /\ \A c \in bolt.scripts : \E s \in ScriptPaths : c \in ran[s]
    /\ \A s \in ScriptPaths \ (lost \cup {cur}) : bolt.entries[s] = last[s]

\* A run_onchange_ script runs exactly when its contents are not what last ran
\* under its path, whether they ran under other paths, under this one before
\* other contents did, or as a script of another condition.
OnchangeExact ==
    [][\A s \in ScriptPaths \ lost :
         source[s].condition = "onchange" /\ source[s].sum # Empty /\ ~opts.dryRun
         => /\ Skip(s) => last[s] = source[s].sum
            /\ Due(s) => last[s] # source[s].sum]_vars

\* In a run without arguments, a file is updated after every before_ script and
\* before every after_ script, though scripts fail and --keep-going goes on.
ScriptOrder ==
    [][\A t \in FilePaths :
         UpdateFile(t) /\ ~opts.explicit
         => /\ \A s \in todo \cap ScriptPaths : OrderOf[s] # -1
            /\ \A s \in (opts.args \ todo) \cap ScriptPaths : OrderOf[s] # 1]_vars
=============================================================================
