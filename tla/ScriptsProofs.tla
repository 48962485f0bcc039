----------------------------- MODULE ScriptsProofs -----------------------------
(***************************************************************************)
(* Proofs about Scripts, for any number of scripts, edits, crashes and     *)
(* faults. OnceOnly and RecordedRan are not inductive: IInv adds what is   *)
(* true of the script that is being applied, between its two records.      *)
(* ScriptOrder is an action property: OrderInv says which targets a run    *)
(* has done with, and that the one being applied is the first of the rest. *)
(***************************************************************************)
EXTENDS Scripts, TLAPS

\* The persistent state on disk is being written to for the script cur.
Committing == pc \in {"setScript", "setEntry"} /\ ~opts.dryRun

\* The success of the contents c as a run_once_ script is not on record yet.
Pending(c) ==
    /\ pc = "setScript" /\ ~opts.dryRun
    /\ script.condition = "once" /\ script.sum = c /\ c # Blank

\* Contents that are not in scriptState ran once less than they may.
OnceCounted ==
    \A c \in Sums : /\ runs[c] <= 1 + excused[c]
                    /\ c \notin bolt.scripts /\ ~Pending(c) => runs[c] <= excused[c]

\* A run_once_ script is only run when its contents are not in scriptState.
OnceDue ==
    pc \in {"ask", "execute"} /\ ~opts.dryRun /\ script.condition = "once"
    => script.sum \notin bolt.scripts

\* What is about to be recorded is what ran last.
CommitsLast == Committing => script.sum = last[cur] /\ script.sum \in ran[cur]

SumsRan == \A c \in bolt.scripts : \E s \in ScriptPaths : c \in ran[s]

EntriesLast ==
    \A s \in ScriptPaths \ lost : bolt.entries[s] = last[s] \/ (Committing /\ s = cur)

IInv == TypeOK /\ OnceCounted /\ OnceDue /\ CommitsLast /\ SumsRan /\ EntriesLast

-----------------------------------------------------------------------------
(* Type correctness.                                                       *)

\* The state that the program works on, and what a Set makes of it, are
\* persistent states (Config.persistentState).
LEMMA StateType ==
    ASSUME TypeOK
    PROVE  /\ State \in Buckets
           /\ \A new \in Buckets : Set(new) => bolt' \in Buckets /\ mock' \in Buckets
  BY DEF TypeOK, State, Set

\* The target that is done with, or that fails, leaves a run that is well typed.
LEMMA LeaveType ==
    ASSUME TypeOK, NEW t, (Advance(t) /\ mock' \in Buckets) \/ Error(t) \/ EndRun
    PROVE  /\ pc' \in {"idle", "next"} /\ todo' \subseteq Paths /\ cur' = None
           /\ opts' \in Invocation /\ mock' \in Buckets
  <1>1. NoInvocation \in Invocation
    BY DEF NoInvocation, Invocation
  <1>2. NoBuckets \in Buckets
    BY DEF NoBuckets, Buckets
  <1> QED
    BY <1>1, <1>2 DEF TypeOK, Error, Advance, EndRun

\* A counter that is bumped for contents counts on.
LEMMA BumpType ==
    ASSUME NEW h \in [Sums -> Nat], NEW c \in Sums
    PROVE  /\ Bump(h, c) \in [Sums -> Nat]
           /\ Bump(h, c)[c] = h[c] + 1
           /\ \A e \in Sums \ {c} : Bump(h, c)[e] = h[e]
  BY DEF Bump

LEMMA OnceRanType ==
    ASSUME TypeOK, cur \in ScriptPaths, NEW h \in [Sums -> Nat]
    PROVE  /\ OnceRan(h) \in [Sums -> Nat]
           /\ \A c \in Sums : IF script.condition = "once" /\ script.sum = c /\ c # Blank
                              THEN OnceRan(h)[c] = h[c] + 1 ELSE OnceRan(h)[c] = h[c]
  <1>1. script \in Script /\ script.sum \in Sums
    BY DEF TypeOK, script, Script
  <1> QED
    BY <1>1, BumpType DEF OnceRan

\* A bound is lowered by one.
LEMMA LimitType ==
    ASSUME limit \in Limits
    PROVE  /\ limit.runs > 0 => [limit EXCEPT !.runs = @ - 1] \in Limits
           /\ limit.edits > 0 => [limit EXCEPT !.edits = @ - 1] \in Limits
           /\ limit.deletes > 0 => [limit EXCEPT !.deletes = @ - 1] \in Limits
           /\ limit.crashes > 0 => [limit EXCEPT !.crashes = @ - 1] \in Limits
           /\ limit.faults > 0 => [limit EXCEPT !.faults = @ - 1] \in Limits
  BY SMTT(30) DEF Limits

\* What stays the same when the run only moves on.
Kept == <<source, bolt, history>>

LEMMA TypeInit == Init => TypeOK
  BY PathsAssumption, SumsAssumption, BoundsAssumption
     DEF Init, TypeOK, NoBuckets, Buckets, NoInvocation, Invocation, Applying

LEMMA TypeStep == TypeOK /\ [Next]_vars => TypeOK'
  <1> SUFFICES ASSUME TypeOK, [Next]_vars PROVE TypeOK'
    OBVIOUS
  <1> USE SumsAssumption, PathsAssumption DEF TypeOK, Applying, vars, run, history, Paths
  <1>a. pc \in Applying => cur \in ScriptPaths
    OBVIOUS
  <1>1. ASSUME NEW o \in Invocations, Start(o) PROVE TypeOK'
    <2>1. o \in Invocation /\ o.args \subseteq Paths
      BY BoundsAssumption DEF Invocation
    <2>2. limit' \in Limits
      BY <1>1, LimitType DEF Start
    <2> QED
      BY <1>1, <2>1, <2>2 DEF Start
  <1>2. CASE Finish
    BY <1>2, LeaveType DEF Finish
  <1>3. ASSUME NEW t \in Paths, UpdateFile(t) \/ Skip(t) PROVE TypeOK'
    BY <1>3, LeaveType DEF UpdateFile, Skip
  <1>4. ASSUME NEW s \in Paths, Due(s) PROVE TypeOK'
    BY <1>4 DEF Due
  <1>5. ASSUME NEW all \in BOOLEAN, AnswerYes(all) PROVE TypeOK'
    <2>1. opts' \in Invocation
      BY <1>5 DEF AnswerYes, Invocation
    <2> QED
      BY <1>5, <2>1 DEF AnswerYes
  <1>6. CASE AnswerNo \/ AnswerQuit
    BY <1>6, LeaveType DEF AnswerNo, AnswerQuit
  <1>7. CASE Execute
    <2>1. cur \in ScriptPaths /\ script.sum \in Sums
      BY <1>7 DEF Execute, script, Script
    <2>2. runs' \in [Sums -> Nat]
      BY <1>7, <2>1, OnceRanType DEF Execute
    <2>3. ran' \in [ScriptPaths -> SUBSET Sums] /\ last' \in [ScriptPaths -> Sums \cup {None}]
      BY <1>7, <2>1 DEF Execute
    <2> QED
      BY <1>7, <2>2, <2>3 DEF Execute
  <1>8. CASE SetScriptState
    <2>1. script.sum \in Sums
      BY <1>8 DEF SetScriptState, script, Script
    <2>2. [State EXCEPT !.scripts = @ \cup {script.sum}] \in Buckets
      BY <2>1, StateType DEF Buckets
    <2>3. bolt' \in Buckets /\ mock' \in Buckets
      BY <1>8, <2>2, StateType DEF SetScriptState
    <2> QED
      BY <1>8, <2>3 DEF SetScriptState
  <1>9. CASE SetEntryState
    <2>1. script.sum \in Sums /\ cur \in ScriptPaths
      BY <1>9 DEF SetEntryState, script, Script
    <2>2. [State EXCEPT !.entries[cur] = script.sum] \in Buckets
      BY <2>1, StateType DEF Buckets
    <2>3. bolt' \in Buckets /\ mock' \in Buckets
      BY <1>9, <2>2, StateType DEF SetEntryState
    <2> QED
      BY <1>9, <2>3 DEF SetEntryState, Recorded, Advance
  <1>10. ASSUME NEW t \in Paths, TargetFails(t) PROVE TypeOK'
    BY <1>10, LeaveType, LimitType DEF TargetFails
  <1>11. CASE ScriptFails
    BY <1>11, LeaveType, LimitType DEF ScriptFails
  <1>12. ASSUME RecordFails \/ Crash PROVE TypeOK'
    <2>1. limit' \in Limits
      BY <1>12, LimitType DEF RecordFails, Crash
    <2>2. lost' \subseteq ScriptPaths /\ excused' \in [Sums -> Nat]
      BY <1>12, OnceRanType DEF RecordFails, Crash, Unrecorded
    <2> QED
      BY <1>12, <2>1, <2>2, LeaveType DEF RecordFails, Crash
  <1>13. CASE DeleteScriptState
    <2>1. bolt' \in Buckets
      BY <1>13 DEF DeleteScriptState, Buckets
    <2>2. excused' \in [Sums -> Nat]
      BY <1>13 DEF DeleteScriptState
    <2> QED
      BY <1>13, <2>1, <2>2, LimitType DEF DeleteScriptState
  <1>14. CASE DeleteEntryState
    <2>1. bolt' \in Buckets
      BY <1>14 DEF DeleteEntryState, Buckets
    <2> QED
      BY <1>14, <2>1, LimitType DEF DeleteEntryState
  <1>15. ASSUME NEW s \in ScriptPaths, NEW new \in Script, EditScript(s, new) PROVE TypeOK'
    BY <1>15, LimitType DEF EditScript
  <1>16. CASE UNCHANGED vars
    BY <1>16
  <1> QED
    BY <1>1, <1>2, <1>3, <1>4, <1>5, <1>6, <1>7, <1>8, <1>9, <1>10, <1>11, <1>12,
       <1>13, <1>14, <1>15, <1>16 DEF Next, Running, Environment

-----------------------------------------------------------------------------
(* The inductive invariant.                                                *)

\* A step that only moves the run on, without running or recording a script,
\* keeps the invariant: it either leaves cur or does not enter a commit.
LEMMA MoveStep ==
    ASSUME IInv, TypeOK', UNCHANGED Kept, ~Committing, ~Committing',
           OnceDue'
    PROVE  IInv'
  <1>1. \A c \in Sums : ~Pending(c) /\ ~Pending(c)'
    BY DEF Committing, Pending
  <1>2. OnceCounted'
    BY <1>1 DEF IInv, OnceCounted, Kept, history
  <1>3. SumsRan' /\ EntriesLast'
    BY DEF IInv, SumsRan, EntriesLast, Kept, history
  <1> QED
    BY <1>2, <1>3 DEF IInv, CommitsLast

\* A step after which no script is being applied has nothing to commit.
LEMMA LeaveStep ==
    ASSUME pc' \in {"idle", "next"}
    PROVE  ~Committing' /\ OnceDue' /\ CommitsLast' /\ \A c : ~Pending(c)'
  BY DEF Committing, OnceDue, CommitsLast, Pending

LEMMA InvInit == Init => IInv
  BY TypeInit, SumsAssumption
     DEF Init, IInv, OnceCounted, OnceDue, CommitsLast, Committing, SumsRan, EntriesLast, NoBuckets

\* A script runs to success: its contents were not in scriptState if it is a
\* run_once_ script, and they are what is committed.
LEMMA ExecuteStep == IInv /\ Execute /\ TypeOK' => IInv'
  <1> SUFFICES ASSUME IInv, Execute, TypeOK' PROVE IInv'
    OBVIOUS
  <1>1. cur \in ScriptPaths /\ script.sum \in Sums /\ script' = script
    BY SumsAssumption DEF IInv, TypeOK, Applying, Execute, script, Script
  <1>2. bolt' = bolt /\ excused' = excused /\ lost' = lost /\ cur' = cur /\ opts' = opts
    BY DEF Execute
  <1>3. CASE opts.dryRun
    <2>1. UNCHANGED Kept
      BY <1>3 DEF Execute, Kept, history
    <2> QED
      BY <1>2, <1>3, <2>1, MoveStep DEF Committing, Execute, OnceDue
  <1>4. CASE ~opts.dryRun
    <2>1. \A c \in Sums : IF script.condition = "once" /\ script.sum = c /\ c # Blank
                           THEN runs'[c] = runs[c] + 1 ELSE runs'[c] = runs[c]
      BY <1>1, <1>4, OnceRanType DEF Execute, IInv, TypeOK
    <2>2. OnceCounted'
      <3> SUFFICES ASSUME NEW c \in Sums
                   PROVE  /\ runs'[c] <= 1 + excused[c]
                          /\ c \notin bolt.scripts /\ ~Pending(c)' => runs'[c] <= excused[c]
        BY <1>2 DEF OnceCounted
      <3>1. runs[c] \in Nat /\ excused[c] \in Nat
        BY DEF IInv, TypeOK
      <3>2. ~Pending(c) /\ (c \notin bolt.scripts => runs[c] <= excused[c]) /\ runs[c] <= 1 + excused[c]
        BY DEF IInv, OnceCounted, Pending, Execute
      <3>3. CASE script.condition = "once" /\ script.sum = c /\ c # Blank
        <4>1. c \notin bolt.scripts
          BY <1>4, <3>3 DEF IInv, OnceDue, Execute
        <4>2. Pending(c)'
          BY <1>1, <1>2, <1>4, <3>3 DEF Pending, Execute
        <4> QED
          BY <2>1, <3>1, <3>2, <3>3, <4>1, <4>2
      <3>4. CASE ~(script.condition = "once" /\ script.sum = c /\ c # Blank)
        BY <2>1, <3>1, <3>2, <3>4
      <3> QED
        BY <3>3, <3>4
    <2>3. CommitsLast'
      BY <1>1, <1>2, <1>4 DEF IInv, TypeOK, CommitsLast, Committing, Execute
    <2>4. SumsRan'
      BY <1>1, <1>2, <1>4 DEF IInv, TypeOK, SumsRan, Execute
    <2>5. EntriesLast'
      BY <1>1, <1>2, <1>4 DEF IInv, TypeOK, EntriesLast, Execute, Committing
    <2> QED
      BY <2>2, <2>3, <2>4, <2>5 DEF IInv, OnceDue, Execute
  <1> QED
    BY <1>3, <1>4

\* The first record: the contents are in scriptState from here on.
LEMMA SetScriptStep == IInv /\ SetScriptState /\ TypeOK' => IInv'
  <1> SUFFICES ASSUME IInv, SetScriptState, TypeOK' PROVE IInv'
    OBVIOUS
  <1>1. /\ script' = script /\ cur' = cur /\ opts' = opts /\ UNCHANGED history
        /\ pc = "setScript" /\ pc' = "setEntry"
    BY DEF SetScriptState, script
  <1>2. CASE opts.dryRun
    <2>1. UNCHANGED Kept
      BY <1>2 DEF SetScriptState, Set, Kept, history
    <2> QED
      BY <1>1, <1>2, <2>1, MoveStep DEF Committing, OnceDue
  <1>3. CASE ~opts.dryRun
    <2>1. bolt.scripts \subseteq Sums /\ script.sum \in ran[cur] /\ script.sum = last[cur]
          /\ cur \in ScriptPaths
      BY <1>1, <1>3, SumsAssumption DEF IInv, TypeOK, Buckets, CommitsLast, Committing, Applying
    <2>2. bolt'.scripts = bolt.scripts \cup {script.sum} /\ bolt'.entries = bolt.entries
      BY <1>3 DEF SetScriptState, Set, State, IInv, TypeOK, Buckets
    <2>3. \A c \in Sums : Pending(c) => c \in bolt'.scripts
      BY <2>2 DEF Pending
    <2>4. OnceCounted'
      BY <1>1, <2>2, <2>3 DEF IInv, OnceCounted, history
    <2>5. SumsRan'
      BY <1>1, <2>1, <2>2 DEF IInv, SumsRan, history
    <2>6. EntriesLast' /\ CommitsLast' /\ OnceDue'
      BY <1>1, <1>3, <2>1, <2>2 DEF IInv, EntriesLast, CommitsLast, OnceDue, Committing, history
    <2> QED
      BY <2>4, <2>5, <2>6 DEF IInv
  <1> QED
    BY <1>2, <1>3

\* The second record: what ran last is in entryState, and nothing is lost.
LEMMA SetEntryStep == IInv /\ SetEntryState /\ TypeOK' => IInv'
  <1> SUFFICES ASSUME IInv, SetEntryState, TypeOK' PROVE IInv'
    OBVIOUS
  <1>1. /\ UNCHANGED <<source, ran, last, runs, excused>>
        /\ pc = "setEntry" /\ pc' \in {"idle", "next"}
    BY DEF SetEntryState, Advance
  <1>2. CASE opts.dryRun
    <2>1. UNCHANGED Kept
      BY <1>2 DEF SetEntryState, Set, Recorded, Kept, history
    <2> QED
      BY <1>1, <1>2, <2>1, MoveStep, LeaveStep DEF Committing
  <1>3. CASE ~opts.dryRun
    <2>1. cur \in ScriptPaths /\ script.sum = last[cur]
      BY <1>1, <1>3, SumsAssumption DEF IInv, TypeOK, CommitsLast, Committing, Applying
    <2>2. /\ bolt'.scripts = bolt.scripts /\ lost' = lost \ {cur}
          /\ bolt'.entries = [bolt.entries EXCEPT ![cur] = script.sum]
      BY <1>3 DEF SetEntryState, Set, State, Recorded, IInv, TypeOK, Buckets
    <2>3. bolt.entries \in [ScriptPaths -> Sums \cup {None}]
      BY DEF IInv, TypeOK, Buckets
    <2>4. \A c \in Sums : ~Pending(c)
      BY <1>1 DEF Pending
    <2>5. OnceCounted' /\ SumsRan'
      BY <1>1, <2>2, <2>4 DEF IInv, OnceCounted, SumsRan
    <2>6. EntriesLast'
      BY <1>1, <2>1, <2>2, <2>3 DEF IInv, EntriesLast
    <2> QED
      BY <1>1, <2>5, <2>6, LeaveStep DEF IInv
  <1> QED
    BY <1>2, <1>3

\* A run that is cut off between the records: the success is counted as lost,
\* and excused if it is not in scriptState yet.
LEMMA CutStep ==
    ASSUME IInv, TypeOK', Unrecorded, UNCHANGED <<source, bolt, ran, last, runs>>,
           pc' \in {"idle", "next"}
    PROVE  IInv'
  <1>1. CASE ~Committing
    <2>1. UNCHANGED Kept
      BY <1>1 DEF Unrecorded, Committing, Kept, history
    <2> QED
      BY <1>1, <2>1, MoveStep, LeaveStep
  <1>2. CASE Committing
    <2>1. lost' = lost \cup {cur} /\ excused' = IF pc = "setScript" THEN OnceRan(excused) ELSE excused
      BY <1>2 DEF Unrecorded, Committing
    <2>2. cur \in ScriptPaths
      BY <1>2, SumsAssumption DEF IInv, TypeOK, Committing, Applying
    <2>3. \A c \in Sums : IF Pending(c) THEN excused'[c] = excused[c] + 1 ELSE excused'[c] = excused[c]
      BY <1>2, <2>1, <2>2, OnceRanType DEF Pending, Committing, IInv, TypeOK
    <2>4. OnceCounted'
      <3> SUFFICES ASSUME NEW c \in Sums
                   PROVE  /\ runs[c] <= 1 + excused'[c]
                          /\ c \notin bolt.scripts => runs[c] <= excused'[c]
        BY DEF OnceCounted
      <3>1. runs[c] \in Nat /\ excused[c] \in Nat
        BY DEF IInv, TypeOK
      <3>2. runs[c] <= 1 + excused[c] /\ (c \notin bolt.scripts /\ ~Pending(c) => runs[c] <= excused[c])
        BY DEF IInv, OnceCounted
      <3> QED
        BY <2>3, <3>1, <3>2
    <2>5. SumsRan' /\ EntriesLast'
      BY <2>1 DEF IInv, SumsRan, EntriesLast
    <2> QED
      BY <2>4, <2>5, LeaveStep DEF IInv
  <1> QED
    BY <1>1, <1>2

LEMMA DeleteScriptStep == IInv /\ DeleteScriptState /\ TypeOK' => IInv'
  <1> SUFFICES ASSUME IInv, DeleteScriptState, TypeOK' PROVE IInv'
    OBVIOUS
  <1>1. /\ pc = "idle" /\ UNCHANGED <<source, pc, cur, opts, ran, last, lost, runs>>
        /\ bolt'.scripts = {} /\ bolt'.entries = bolt.entries
    BY DEF DeleteScriptState, run, IInv, TypeOK, Buckets
  <1>2. OnceCounted'
    <2> SUFFICES ASSUME NEW c \in Sums
                 PROVE  runs[c] <= excused'[c] /\ runs[c] <= 1 + excused'[c]
      BY <1>1 DEF OnceCounted
    <2>1. runs[c] \in Nat /\ excused[c] \in Nat /\ ~Pending(c)
      BY <1>1 DEF IInv, TypeOK, Pending
    <2>2. excused'[c] = excused[c] + (IF c \in bolt.scripts THEN 1 ELSE 0)
      BY DEF DeleteScriptState
    <2>3. runs[c] <= 1 + excused[c] /\ (c \notin bolt.scripts => runs[c] <= excused[c])
      BY <2>1 DEF IInv, OnceCounted
    <2> QED
      BY <2>1, <2>2, <2>3
  <1>3. SumsRan' /\ EntriesLast'
    BY <1>1 DEF IInv, SumsRan, EntriesLast, Committing
  <1> QED
    BY <1>1, <1>2, <1>3, LeaveStep DEF IInv

LEMMA DeleteEntryStep == IInv /\ DeleteEntryState /\ TypeOK' => IInv'
  <1> SUFFICES ASSUME IInv, DeleteEntryState, TypeOK' PROVE IInv'
    OBVIOUS
  <1>1. /\ pc = "idle" /\ UNCHANGED <<source, pc, cur, opts, ran, last, runs, excused>>
        /\ bolt'.scripts = bolt.scripts /\ lost' = ScriptPaths
    BY DEF DeleteEntryState, run, IInv, TypeOK, Buckets
  <1>2. \A c \in Sums : ~Pending(c)
    BY <1>1 DEF Pending
  <1>3. OnceCounted' /\ SumsRan' /\ EntriesLast'
    BY <1>1, <1>2 DEF IInv, OnceCounted, SumsRan, EntriesLast
  <1> QED
    BY <1>1, <1>3, LeaveStep DEF IInv

LEMMA InvStep == IInv /\ [Next]_vars => IInv'
  <1> SUFFICES ASSUME IInv, [Next]_vars PROVE IInv'
    OBVIOUS
  <1>t. TypeOK'
    BY TypeStep DEF IInv
  <1>1. ASSUME NEW o \in Invocations, Start(o) PROVE IInv'
    <2>1. UNCHANGED Kept /\ pc = "idle" /\ pc' = "next"
      BY <1>1 DEF Start, Kept
    <2> QED
      BY <1>t, <2>1, MoveStep, LeaveStep DEF Committing
  <1>2. ASSUME NEW t,
               Finish \/ UpdateFile(t) \/ Skip(t) \/ TargetFails(t) \/ AnswerNo \/ AnswerQuit
                 \/ ScriptFails
        PROVE IInv'
    <2>1. UNCHANGED Kept /\ ~Committing /\ pc' \in {"idle", "next"}
      BY <1>2 DEF Finish, UpdateFile, Skip, TargetFails, AnswerNo, AnswerQuit, ScriptFails,
                  Error, Advance, EndRun, Kept, Committing
    <2> QED
      BY <1>t, <2>1, MoveStep, LeaveStep
  <1>3. ASSUME NEW s \in Paths, Due(s) PROVE IInv'
    <2>1. UNCHANGED Kept /\ ~Committing /\ ~Committing' /\ UNCHANGED opts
      BY <1>3 DEF Due, Kept, Committing
    <2>2. OnceDue'
      BY <1>3 DEF Due, SkipApply, State, OnceDue, script
    <2> QED
      BY <1>t, <2>1, <2>2, MoveStep
  <1>4. ASSUME NEW all \in BOOLEAN, AnswerYes(all) PROVE IInv'
    <2>1. UNCHANGED Kept /\ ~Committing /\ ~Committing'
      BY <1>4 DEF AnswerYes, Kept, Committing
    <2>2. opts'.dryRun = opts.dryRun
      BY <1>4 DEF AnswerYes, IInv, TypeOK, Invocation
    <2>3. OnceDue'
      BY <1>4, <2>2 DEF AnswerYes, IInv, OnceDue, script
    <2> QED
      BY <1>t, <2>1, <2>3, MoveStep
  <1>5. CASE Execute
    BY <1>5, <1>t, ExecuteStep
  <1>6. CASE SetScriptState
    BY <1>6, <1>t, SetScriptStep
  <1>7. CASE SetEntryState
    BY <1>7, <1>t, SetEntryStep
  <1>8. CASE RecordFails \/ Crash
    <2>1. pc' \in {"idle", "next"}
      BY <1>8 DEF RecordFails, Crash, Error, Advance, EndRun
    <2> QED
      BY <1>8, <1>t, <2>1, CutStep DEF RecordFails, Crash
  <1>9. CASE DeleteScriptState
    BY <1>9, <1>t, DeleteScriptStep
  <1>10. CASE DeleteEntryState
    BY <1>10, <1>t, DeleteEntryStep
  <1>11. ASSUME NEW s \in ScriptPaths, NEW new \in Script, EditScript(s, new) PROVE IInv'
    <2>1. pc = "idle" /\ UNCHANGED <<bolt, pc, cur, opts, ran, last, lost, runs, excused>>
      BY <1>11 DEF EditScript, run, history
    <2>2. \A c \in Sums : ~Pending(c) /\ ~Pending(c)'
      BY <2>1 DEF Pending
    <2>3. OnceCounted' /\ SumsRan' /\ EntriesLast'
      BY <2>1, <2>2 DEF IInv, OnceCounted, SumsRan, EntriesLast, Committing
    <2> QED
      BY <1>t, <2>1, <2>3, LeaveStep DEF IInv
  <1>12. CASE UNCHANGED vars
    BY <1>12 DEF vars, run, history, IInv, TypeOK, OnceCounted, OnceDue, CommitsLast,
                 SumsRan, EntriesLast, Committing, Pending, script
  <1> QED
    BY <1>1, <1>2, <1>3, <1>4, <1>5, <1>6, <1>7, <1>8, <1>9, <1>10, <1>11, <1>12
       DEF Next, Running, Environment

LEMMA Invariant == Spec => []IInv
  BY InvInit, InvStep, PTL DEF Spec

-----------------------------------------------------------------------------
(* The order of the targets.                                               *)

\* What a run is done with comes before what it has left.
DoneFirst ==
    ~opts.explicit => /\ todo \subseteq opts.args
                      /\ \A s \in opts.args \ todo, u \in todo : OrderOf[s] <= OrderOf[u]

\* The script that is being applied is the first of what is left.
CurFirst == pc \in Applying => First(cur)

OrderInv == TypeOK /\ DoneFirst /\ CurFirst

\* When the first target is done with, or ends the run, the rest comes after
\* what is done (SourceState.TargetRelPaths sorts before it applies).
LEMMA AdvanceOrder ==
    ASSUME OrderInv, NEW t, First(t), Advance(t) \/ Error(t)
    PROVE  DoneFirst' /\ CurFirst'
  <1>1. CASE EndRun
    BY <1>1 DEF EndRun, DoneFirst, CurFirst, NoInvocation, Applying
  <1>2. CASE Advance(t)
    <2>1. opts' = opts /\ todo' = todo \ {t} /\ pc' = "next" /\ t \in todo
      BY <1>2 DEF Advance, First
    <2>2. ASSUME ~opts.explicit PROVE \A u \in todo' : OrderOf[t] <= OrderOf[u]
      <3> SUFFICES ASSUME NEW u \in todo \ {t} PROVE OrderOf[t] <= OrderOf[u]
        BY <2>1
      <3>1. ByOrder(t, u)
        BY <2>2 DEF First
      <3>2. OrderOf[t] \in Int /\ OrderOf[u] \in Int
        BY <2>1, PathsAssumption DEF OrderInv, TypeOK
      <3> QED
        BY <3>1, <3>2 DEF ByOrder
    <2>3. DoneFirst'
      BY <2>1, <2>2 DEF OrderInv, DoneFirst
    <2> QED
      BY <2>1, <2>3 DEF CurFirst, Applying
  <1> QED
    BY <1>1, <1>2 DEF Error

\* A step within one target keeps what is left of the run, and the first of it.
LEMMA WithinOrder ==
    ASSUME OrderInv, UNCHANGED <<todo, cur>>, pc \in Applying,
           opts'.explicit = opts.explicit, opts'.args = opts.args
    PROVE  DoneFirst' /\ CurFirst'
  BY DEF OrderInv, DoneFirst, CurFirst, First

LEMMA OrderStep == OrderInv /\ [Next]_vars => OrderInv'
  <1> SUFFICES ASSUME OrderInv, [Next]_vars PROVE DoneFirst' /\ CurFirst'
    BY TypeStep DEF OrderInv
  <1>1. ASSUME NEW o \in Invocations, Start(o) PROVE DoneFirst' /\ CurFirst'
    BY <1>1 DEF Start, DoneFirst, CurFirst, Applying
  <1>2. ASSUME NEW t \in Paths, UpdateFile(t) \/ Skip(t) \/ TargetFails(t)
        PROVE DoneFirst' /\ CurFirst'
    BY <1>2, AdvanceOrder DEF UpdateFile, Skip, TargetFails
  <1>3. ASSUME NEW s \in Paths, Due(s) PROVE DoneFirst' /\ CurFirst'
    BY <1>3 DEF Due, OrderInv, DoneFirst, CurFirst, First
  <1>4. ASSUME NEW all \in BOOLEAN, AnswerYes(all) PROVE DoneFirst' /\ CurFirst'
    <2>1. opts'.explicit = opts.explicit /\ opts'.args = opts.args
      BY <1>4 DEF AnswerYes, OrderInv, TypeOK, Invocation
    <2> QED
      BY <1>4, <2>1, WithinOrder DEF AnswerYes, Applying
  <1>5. CASE Execute \/ SetScriptState
    BY <1>5, WithinOrder DEF Execute, SetScriptState, Applying
  <1>6. ASSUME AnswerNo \/ AnswerQuit \/ SetEntryState \/ ScriptFails \/ RecordFails
        PROVE DoneFirst' /\ CurFirst'
    <2>1. pc \in Applying /\ (Advance(cur) \/ Error(cur))
      BY <1>6 DEF AnswerNo, AnswerQuit, SetEntryState, ScriptFails, RecordFails, Applying
    <2> QED
      BY <2>1, AdvanceOrder DEF OrderInv, CurFirst
  <1>7. CASE Finish \/ Crash
    BY <1>7 DEF Finish, Crash, EndRun, DoneFirst, CurFirst, NoInvocation, Applying
  <1>8. ASSUME UNCHANGED run PROVE DoneFirst' /\ CurFirst'
    BY <1>8 DEF run, OrderInv, DoneFirst, CurFirst, First
  <1>9. ASSUME NEW s \in ScriptPaths, NEW new \in Script, EditScript(s, new)
        PROVE UNCHANGED run
    BY <1>9 DEF EditScript
  <1>10. CASE DeleteScriptState \/ DeleteEntryState \/ UNCHANGED vars
    BY <1>8, <1>10 DEF DeleteScriptState, DeleteEntryState, vars
  <1> QED
    BY <1>1, <1>2, <1>3, <1>4, <1>5, <1>6, <1>7, <1>8, <1>9, <1>10
       DEF Next, Running, Environment

LEMMA OrderInvariant == Spec => []OrderInv
  <1>1. Init => OrderInv
    BY TypeInit DEF Init, OrderInv, DoneFirst, CurFirst, Applying
  <1> QED
    BY <1>1, OrderStep, PTL DEF Spec

-----------------------------------------------------------------------------
(* Theorems.                                                               *)

\* Scripts is well typed: no step leaves its variables' types.
THEOREM TypeCorrect == Spec => []TypeOK
  BY TypeInit, TypeStep, PTL DEF Spec

\* However often chezmoi is run, crashes or fails, contents run to success as a
\* run_once_ script once, and once more for each success whose record was not
\* made or was deleted (TargetStateScript.SkipApply and Apply).
THEOREM OnceOnlyHolds == Spec => []OnceOnly
  <1>1. IInv => OnceOnly
    BY DEF IInv, OnceCounted, OnceOnly
  <1> QED
    BY Invariant, <1>1, PTL

\* The records are true: scriptState holds only what ran to success, entryState
\* what ran last (the order of the records in TargetStateScript.Apply).
THEOREM RecordsAreTrue == Spec => []RecordedRan
  <1>1. IInv => RecordedRan
    BY DEF IInv, SumsRan, EntriesLast, RecordedRan
  <1> QED
    BY Invariant, <1>1, PTL

\* A run_onchange_ script runs exactly when its contents are not those that last
\* ran under its path, whatever other scripts ran and under which condition.
THEOREM OnchangeIsExact == Spec => OnchangeExact
  <1> DEFINE Exact == \A s \in ScriptPaths \ lost :
               source[s].condition = "onchange" /\ source[s].sum # Empty /\ ~opts.dryRun
               => /\ Skip(s) => last[s] = source[s].sum
                  /\ Due(s) => last[s] # source[s].sum
  <1>1. IInv /\ [Next]_vars => Exact
    <2> SUFFICES ASSUME IInv, NEW s \in ScriptPaths, s \notin lost, ~opts.dryRun,
                        source[s].condition = "onchange", source[s].sum # Empty
                 PROVE  /\ Skip(s) => last[s] = source[s].sum
                        /\ Due(s) => last[s] # source[s].sum
      OBVIOUS
    <2>1. pc = "next" => bolt.entries[s] = last[s]
      BY DEF IInv, EntriesLast, Committing
    <2> QED
      BY <2>1 DEF Skip, Due, SkipApply, State
  <1> QED
    BY Invariant, <1>1, PTL DEF Spec, OnchangeExact

\* In a run without arguments a file is updated after every before_ script and
\* before every after_ script, whatever fails and whatever the user answers
\* (SourceState.TargetRelPaths, Config.applyArgs).
THEOREM ScriptsKeepTheirOrder == Spec => ScriptOrder
  <1> DEFINE Between == \A t \in FilePaths :
         UpdateFile(t) /\ ~opts.explicit
         => /\ \A s \in todo \cap ScriptPaths : OrderOf[s] # -1
            /\ \A s \in (opts.args \ todo) \cap ScriptPaths : OrderOf[s] # 1
  <1>1. OrderInv => Between
    <2> SUFFICES ASSUME OrderInv, NEW t \in FilePaths, UpdateFile(t), ~opts.explicit
                 PROVE  /\ \A s \in todo \cap ScriptPaths : OrderOf[s] # -1
                        /\ \A s \in (opts.args \ todo) \cap ScriptPaths : OrderOf[s] # 1
      OBVIOUS
    <2>1. First(t) /\ t \in todo /\ OrderOf[t] = 0
      BY PathsAssumption DEF UpdateFile, First
    <2>2. ASSUME NEW s \in todo \cap ScriptPaths PROVE OrderOf[s] # -1
      <3>1. s # t /\ ByOrder(t, s)
        BY <2>1, PathsAssumption DEF First
      <3> QED
        BY <2>1, <3>1 DEF ByOrder
    <2>3. ASSUME NEW s \in (opts.args \ todo) \cap ScriptPaths PROVE OrderOf[s] # 1
      BY <2>1 DEF OrderInv, DoneFirst
    <2> QED
      BY <2>2, <2>3
  <1> QED
    BY OrderInvariant, <1>1, PTL DEF Spec, ScriptOrder
=============================================================================
