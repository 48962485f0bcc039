------------------------------ MODULE ApplyProofs ------------------------------
(***************************************************************************)
(* Proofs about module Apply, for every tree of targets, every set of      *)
(* contents and command lines and every bound.                             *)
(***************************************************************************)
EXTENDS ApplyProps, TLAPS

\* While a change waits to be recorded, wrote holds what is about to be recorded.
PendingRecord ==
    ~opts.dryRun => /\ pc = "record" => wrote[cur] = want
                    /\ pc = "postRecord" => wrote[cur] = Absent

\* Once the prompt is decided, a modified target is only on its way to being
\* changed with the user's consent.
PromptDecided ==
    (pc \in {"write", "create"} /\ dirty /\ cur \notin lost /\ ~opts.dryRun)
      => \/ asked
         \/ opts.force
         \/ Overwrite(source[cur], want) /\ ~opts.lessInteractive

IInv == TypeOK /\ RecordFaithful /\ PendingRecord /\ PromptDecided /\ NoSpuriousPrompt

-----------------------------------------------------------------------------
(* Facts about entries and the directory tree.                             *)

\* Every constructor makes an entry, and nothing else is one.
LEMMA EntryShape ==
    /\ Absent \in Entry
    /\ \A p \in Perms : Dir(p) \in Entry
    /\ \A s \in Sums : Symlink(s) \in Entry
    /\ \A p \in Perms, s \in Sums : File(p, s) \in Entry
    /\ \A e \in Entry : e.type = "file" => e.sum \in Sums
    /\ \A e \in Entry : e.type = "remove" => e = Absent
    /\ \A e \in Entry : e.type \in {"remove", "dir", "symlink", "file"}
BY DEF Entry, Absent, Dir, Symlink, File

\* A source entry asks for an entry, whatever the destination holds.
LEMMA TargetStateType ==
    ASSUME NEW s \in SourceEntry, NEW a \in Entry
    PROVE  TargetState(s, a) \in Entry
<1>1. s.kind \in Kinds /\ s.perm \in Perms /\ s.sum \in Sums
  BY DEF SourceEntry
<1>2. CASE s.kind \in DirKinds
  BY <1>1, <1>2, EntryShape DEF TargetState, DirKinds, FileKinds
<1>3. CASE s.kind = "symlink"
  BY <1>1, <1>3, EntryShape DEF TargetState, DirKinds, FileKinds
<1>4. CASE s.kind \in FileKinds
  <2>1. Contents(s, a) \in Sums \cup {None}
    BY <1>1, EntryShape DEF Contents
  <2>2. Contents(s, a) = None => RemovesEmpty(s, Contents(s, a))
    BY <1>1, <1>4, <2>1, EntryShape, DataAssumption DEF Contents, RemovesEmpty, FileKinds
  <2>3. TargetState(s, a) = IF RemovesEmpty(s, Contents(s, a))
                            THEN Absent ELSE File(s.perm, Contents(s, a))
    BY <1>4 DEF TargetState, DirKinds, FileKinds
  <2> QED BY <1>1, <2>1, <2>2, <2>3, EntryShape
<1>5. CASE s.kind \in {"remove", "none"}
  BY <1>5, EntryShape DEF TargetState, DirKinds, FileKinds
<1> QED BY <1>1, <1>2, <1>3, <1>4, <1>5 DEF Kinds

\* RemoveAll and Chmod keep the directory a map from targets to entries.
LEMMA RemoveAllType ==
    ASSUME NEW f \in [Targets -> Entry], NEW t \in Targets
    PROVE  RemoveAll(f, t) \in [Targets -> Entry]
BY EntryShape DEF RemoveAll

LEMMA ChmodType ==
    ASSUME NEW e \in Entry, NEW p \in Perms, e.type \in {"file", "dir"}
    PROVE  [e EXCEPT !.perm = p] \in Entry
BY DEF Entry, Absent

-----------------------------------------------------------------------------
(* Type correctness.                                                       *)

\* The target that a run is at is one of the targets.
LEMMA CurrentTarget ==
    ASSUME TypeOK, i \in 1..Len(Order)
    PROVE  cur \in Targets
BY OrderAssumption DEF cur

\* Where the index of the current target may move to.
LEMMA IndexStep ==
    /\ Len(Order) \in Nat
    /\ 0 \in 0..(Len(Order) + 1) /\ 1 \in 0..(Len(Order) + 1)
    /\ Len(Order) \in 0..(Len(Order) + 1)
    /\ \A k \in 1..Len(Order) :
         /\ k \in 0..(Len(Order) + 1)
         /\ k + 1 \in 0..(Len(Order) + 1)
         /\ k - 1 \in 0..(Len(Order) + 1)
BY OrderAssumption

\* The end of a run sets its variables back.
LEMMA EndRunType ==
    ASSUME EndRun
    PROVE  /\ pc' = "idle" /\ i' = 0 /\ i' \in 0..(Len(Order) + 1)
           /\ opts' \in Options
           /\ want' = Absent /\ seen' = Absent
           /\ failed' \in BOOLEAN /\ clean' \in BOOLEAN
           /\ dirty' = FALSE /\ asked' = FALSE
<1>1. NoOptions \in Options
  BY DEF NoOptions, Options
<1> QED BY <1>1, IndexStep DEF EndRun, ForgetTarget

\* The end of a run and an error leave the run's variables well-typed.
LEMMA ErrorType ==
    ASSUME TypeOK, i \in 1..Len(Order), Error
    PROVE  /\ pc' \in {"idle", "inspect"}
           /\ i' \in 0..(Len(Order) + 1)
           /\ opts' \in Options
           /\ want' = Absent /\ seen' = Absent
           /\ failed' \in BOOLEAN /\ clean' \in BOOLEAN
           /\ dirty' = FALSE /\ asked' = FALSE
<1>2. CASE EndRun
  BY <1>2, EndRunType
<1>3. CASE ~EndRun
  <2>1. i' = i + 1 /\ pc' = "inspect" /\ failed' = TRUE /\ clean' = FALSE /\ opts' = opts
    BY <1>3 DEF Error
  <2>2. ForgetTarget
    BY <1>3 DEF Error
  <2> QED BY <2>1, <2>2, IndexStep DEF TypeOK, ForgetTarget
<1> QED BY <1>2, <1>3

\* Every step keeps the types.
LEMMA TypeStep ==
    ASSUME TypeOK, [Next]_vars
    PROVE  TypeOK'
<1> USE EntryShape
<1>1. CASE \E o \in OptionSets : Start(o)
  <2>1. PICK o \in OptionSets : Start(o)
    BY <1>1
  <2>2. budget' \in Budgets
    BY <2>1 DEF TypeOK, Start, Budgets
  <2>3. opts' \in Options
    BY <2>1, ChoicesAssumption DEF Start
  <2>4. i' \in 0..(Len(Order) + 1) /\ pc' = "inspect"
    BY <2>1, IndexStep DEF Start
  <2> QED BY <2>1, <2>2, <2>3, <2>4 DEF TypeOK, Start, history, PCs
<1>2. CASE PassOver
  <2>1. i' \in 0..(Len(Order) + 1)
    BY <1>2, IndexStep DEF PassOver, NextTarget
  <2> QED BY <1>2, <2>1 DEF TypeOK, PassOver, NextTarget, ForgetTarget, history, PCs
<1>3. CASE InspectFails
  BY <1>3, ErrorType DEF TypeOK, InspectFails, history, PCs
<1>4. CASE Inspect
  <2>1. cur \in Targets
    BY <1>4, CurrentTarget DEF Inspect
  <2> DEFINE w     == TargetState(source[cur], fs[cur])
             a     == fs[cur]
             adopt == Equivalent(w, a) /\ ~Equivalent(db[cur], a)
             last  == IF adopt THEN w ELSE db[cur]
  <2>2. w \in Entry /\ a \in Entry
    BY <2>1, TargetStateType DEF TypeOK
  <2>3. pc' \in {"write", "yesNoAll", "conflict"}
    <3>1. pc' = PromptMode(w, last, a, Overwrite(source[cur], w))
      BY <1>4 DEF Inspect
    <3> QED BY <3>1 DEF PromptMode, PromptFor
  <2>4. want' = w /\ seen' = a
    BY <1>4 DEF Inspect
  <2>5. db' \in [Targets -> Entry \cup {None}]
    BY <1>4, <2>1, <2>2 DEF Inspect, TypeOK
  <2>6. wrote' \in [Targets -> Entry \cup {None}] /\ lost' \subseteq Targets
    BY <1>4, <2>1, <2>2 DEF Inspect, TypeOK
  <2>7. dirty' \in BOOLEAN
    BY <1>4 DEF Inspect
  <2> HIDE DEF w, a
  <2>8. i \in 1..Len(Order)
        /\ UNCHANGED <<fs, source, i, opts, failed, asked, clean, budget>>
    BY <1>4 DEF Inspect
  <2> QED BY <2>2, <2>3, <2>4, <2>5, <2>6, <2>7, <2>8 DEF TypeOK, PCs
<1>5. CASE AnswerYes
  BY <1>5 DEF TypeOK, AnswerYes, history, PCs
<1>6. CASE AnswerAll
  <2>1. opts' \in Options
    BY <1>6 DEF TypeOK, AnswerAll, Options
  <2> QED BY <1>6, <2>1 DEF TypeOK, AnswerAll, history, PCs
<1>7. CASE AnswerNo
  <2>1. i' \in 0..(Len(Order) + 1)
    BY <1>7, IndexStep DEF TypeOK, AnswerNo, NextTarget
  <2> QED BY <1>7, <2>1 DEF TypeOK, AnswerNo, NextTarget, ForgetTarget, history, PCs
<1>8. CASE AnswerQuit
  <2>1. i \in 1..Len(Order)
    BY <1>8 DEF TypeOK, AnswerQuit
  <2> QED BY <1>8, <2>1, ErrorType DEF TypeOK, AnswerQuit, history, PCs
<1>9. CASE Unchanged
  <2>1. i' \in 0..(Len(Order) + 1)
    BY <1>9, IndexStep DEF TypeOK, Unchanged, NextTarget
  <2> QED BY <1>9, <2>1 DEF TypeOK, Unchanged, NextTarget, ForgetTarget, history, PCs
<1>10. CASE Remove
  <2>1. i \in 1..Len(Order) /\ cur \in Targets
    BY <1>10, CurrentTarget DEF TypeOK, Remove
  <2>2. RemoveAll(fs, cur) \in [Targets -> Entry]
    BY <2>1, RemoveAllType DEF TypeOK
  <2>3. fs' \in [Targets -> Entry] /\ wrote' \in [Targets -> Entry \cup {None}]
    BY <1>10, <2>2 DEF TypeOK, Remove, Change
  <2> QED BY <1>10, <2>1, <2>3 DEF TypeOK, Remove, run, PCs
<1>11. CASE RemoveOld
  <2>1. i \in 1..Len(Order) /\ cur \in Targets
    BY <1>11, CurrentTarget DEF TypeOK, RemoveOld
  <2>2. RemoveAll(fs, cur) \in [Targets -> Entry]
    BY <2>1, RemoveAllType DEF TypeOK
  <2>3. fs' \in [Targets -> Entry] /\ wrote' \in [Targets -> Entry \cup {None}]
    BY <1>11, <2>2 DEF TypeOK, RemoveOld, Change
  <2> QED BY <1>11, <2>1, <2>3 DEF TypeOK, RemoveOld, run, PCs
<1>12. CASE Create
  <2>1. i \in 1..Len(Order) /\ cur \in Targets
    BY <1>12, CurrentTarget DEF TypeOK, Create, AboutToCreate
  <2> QED BY <1>12, <2>1 DEF TypeOK, Create, Change, run, PCs
<1>13. CASE Chmod
  <2>1. i \in 1..Len(Order) /\ cur \in Targets
    BY <1>13, CurrentTarget DEF TypeOK, Chmod
  <2>2. CASE opts.dryRun
    BY <1>13, <2>1, <2>2 DEF TypeOK, Chmod, Change, run, PCs
  <2>3. CASE ~opts.dryRun
    <3>1. want.perm \in Perms
      BY <1>13 DEF TypeOK, Chmod, Plan, Entry, Absent
    <3>2. [fs[cur] EXCEPT !.perm = want.perm] \in Entry
      BY <1>13, <2>1, <2>3, <3>1, ChmodType DEF TypeOK, Chmod, ChmodSucceeds
    <3>3. fs' = [fs EXCEPT ![cur] = [fs[cur] EXCEPT !.perm = want.perm]]
      BY <1>13, <2>3 DEF Chmod, Change
    <3>4. fs' \in [Targets -> Entry]
      BY <2>1, <3>2, <3>3 DEF TypeOK
    <3> QED BY <1>13, <2>1, <2>3, <3>4 DEF TypeOK, Chmod, Change, run, PCs
  <2> QED BY <2>2, <2>3
<1>14. CASE WriteFails
  <2>1. i \in 1..Len(Order) /\ cur \in Targets
    BY <1>14, CurrentTarget DEF TypeOK, WriteFails, AboutToCreate
  <2> QED BY <1>14, <2>1, ErrorType DEF TypeOK, WriteFails, LostNow, PCs
<1>15. CASE Record
  <2>1. i \in 1..Len(Order) /\ cur \in Targets
    BY <1>15, CurrentTarget DEF TypeOK, Record
  <2>2. i' \in 0..(Len(Order) + 1)
    BY <1>15, <2>1, IndexStep DEF Record, NextTarget
  <2>3. db' \in [Targets -> Entry \cup {None}] /\ lost' \subseteq Targets
    BY <1>15, <2>1 DEF TypeOK, Record
  <2> QED BY <1>15, <2>2, <2>3 DEF TypeOK, Record, NextTarget, ForgetTarget, PCs
<1>16. CASE BeginPostApply
  <2>1. i' \in 0..(Len(Order) + 1)
    BY <1>16, IndexStep DEF BeginPostApply
  <2> QED BY <1>16, <2>1 DEF TypeOK, BeginPostApply, history, PCs
<1>17. CASE PostPassOver
  <2>1. i' \in 0..(Len(Order) + 1)
    BY <1>17, IndexStep DEF PostPassOver
  <2> QED BY <1>17, <2>1 DEF TypeOK, PostPassOver, history, PCs
<1>18. CASE PostRemove
  <2>1. i \in 1..Len(Order) /\ cur \in Targets
    BY <1>18, CurrentTarget DEF TypeOK, PostRemove
  <2> QED BY <1>18, <2>1 DEF TypeOK, PostRemove, Change, run, PCs
<1>19. CASE PostRecord
  <2>1. i \in 1..Len(Order) /\ cur \in Targets
    BY <1>19, CurrentTarget DEF TypeOK, PostRecord
  <2>2. i' \in 0..(Len(Order) + 1)
    BY <1>19, <2>1, IndexStep DEF PostRecord
  <2>3. db' \in [Targets -> Entry \cup {None}] /\ lost' \subseteq Targets
    BY <1>19, <2>1 DEF TypeOK, PostRecord
  <2> QED BY <1>19, <2>2, <2>3 DEF TypeOK, PostRecord, PCs
<1>20. CASE PostFails \/ Finish
  BY <1>20, EndRunType DEF TypeOK, PostFails, Finish, history, PCs
<1>21. CASE Fault
  <2>1. i \in 1..Len(Order) /\ cur \in Targets
    BY <1>21, CurrentTarget DEF Fault
  <2>2. budget' \in Budgets /\ lost' \subseteq Targets
    BY <1>21, <2>1 DEF TypeOK, Fault, Budgets, LostNow
  <2>3. CASE EndRun
    BY <1>21, <2>2, <2>3, EndRunType DEF TypeOK, Fault, PCs
  <2>4. CASE Error
    BY <1>21, <2>1, <2>2, <2>4, ErrorType DEF TypeOK, Fault, PCs
  <2> QED BY <1>21, <2>3, <2>4 DEF Fault
<1>22. CASE Crash
  <2>1. budget' \in Budgets
    BY <1>22 DEF TypeOK, Crash, Budgets
  <2>2. lost' \subseteq Targets
    BY <1>22, CurrentTarget DEF TypeOK, Crash, LostNow, Unrecorded
  <2> QED BY <1>22, <2>1, <2>2, EndRunType DEF TypeOK, Crash, PCs
<1>23. CASE \E t \in Targets : UserEdit(t)
  <2>1. PICK t \in Targets : UserEdit(t)
    BY <1>23
  <2>2. PICK e \in FsChoices[t] :
          fs' = IF e.type = "dir" /\ fs[t].type = "dir"
                THEN [fs EXCEPT ![t] = e]
                ELSE [RemoveAll(fs, t) EXCEPT ![t] = e]
    BY <2>1 DEF UserEdit
  <2>3. e \in Entry
    BY <2>2, ChoicesAssumption
  <2>4. fs' \in [Targets -> Entry]
    BY <2>2, <2>3, RemoveAllType DEF TypeOK
  <2>5. budget' \in Budgets
    BY <2>1 DEF TypeOK, UserEdit, Budgets
  <2> QED BY <2>1, <2>4, <2>5 DEF TypeOK, UserEdit, run, history, PCs
<1>24. CASE \E t \in Targets : SourceEdit(t)
  <2>1. PICK t \in Targets : SourceEdit(t)
    BY <1>24
  <2>2. source' \in [Targets -> SourceEntry]
    <3>1. PICK s \in SourceChoices[t] : source' = [source EXCEPT ![t] = s]
      BY <2>1 DEF SourceEdit
    <3>2. s \in SourceEntry
      BY <3>1, ChoicesAssumption
    <3> QED BY <3>1, <3>2 DEF TypeOK
  <2>3. budget' \in Budgets
    BY <2>1 DEF TypeOK, SourceEdit, Budgets
  <2> QED BY <2>1, <2>2, <2>3 DEF TypeOK, SourceEdit, run, history, PCs
<1>25. CASE UNCHANGED vars
  BY <1>25 DEF TypeOK, vars, run, history
<1> QED
  BY <1>1, <1>2, <1>3, <1>4, <1>5, <1>6, <1>7, <1>8, <1>9, <1>10, <1>11, <1>12, <1>13,
     <1>14, <1>15, <1>16, <1>17, <1>18, <1>19, <1>20, <1>21, <1>22, <1>23, <1>24, <1>25
  DEF Next, Running, Inspecting, Answer, Writing, PostApply, Environment

LEMMA TypeInit == Init => TypeOK
<1>1. NoOptions \in Options
  BY DEF NoOptions, Options
<1>2. Budget \in Budgets
  BY ChoicesAssumption
<1>3. Init => fs \in [Targets -> Entry] /\ source \in [Targets -> SourceEntry]
  BY ChoicesAssumption DEF Init
<1> QED BY <1>1, <1>2, <1>3, EntryShape, IndexStep DEF Init, TypeOK, PCs

\* The state of a run, the destination, the persistent state and the record of
\* what was written keep their types in every behaviour.
THEOREM TypeCorrect == Spec => []TypeOK
BY TypeInit, TypeStep, PTL DEF Spec

-----------------------------------------------------------------------------
(* The invariant behind the record and the prompts.                        *)

\* A step that neither writes nor records, and that leaves no change waiting
\* to be recorded unless it counts it as lost, keeps the record faithful.
LEMMA QuietStep ==
    ASSUME RecordFaithful, UNCHANGED <<db, wrote>>,
           pc' \notin {"create", "record", "postRecord"},
           lost' = LostNow
    PROVE  RecordFaithful' /\ PendingRecord'
<1>1. InFlight' = {}
  BY DEF InFlight, Unrecorded
<1>2. lost \cup InFlight \subseteq lost'
  BY DEF LostNow, InFlight
<1> QED BY <1>1, <1>2 DEF RecordFaithful, PendingRecord

\* A step that leaves the run where it is changes nothing about the record.
LEMMA RunStands ==
    ASSUME IInv, UNCHANGED <<db, pc, i, opts, want, seen, dirty, asked, wrote, lost>>,
           pc # "idle" => source'[cur].kind = source[cur].kind
    PROVE  RecordFaithful' /\ PendingRecord' /\ PromptDecided' /\ NoSpuriousPrompt'
<1>1. cur' = cur /\ InFlight' = InFlight
  BY DEF cur, InFlight, Unrecorded
<1> QED BY <1>1 DEF IInv, RecordFaithful, PendingRecord, PromptDecided, NoSpuriousPrompt, Overwrite

\* Where a step leads when it starts on another target or ends the run, there
\* is nothing to prove of the prompt.
LEMMA OtherTarget ==
    ASSUME pc' \notin {"write", "create", "conflict"}
    PROVE  PromptDecided' /\ NoSpuriousPrompt'
BY DEF PromptDecided, NoSpuriousPrompt

\* What chezmoi finds when it inspects a target that the user changed leads to
\* a prompt, unless an option or a modify_ entry makes it unnecessary; and the
\* prompt that the target has changed is shown for such a target only.
LEMMA InspectDecides ==
    ASSUME IInv, TypeOK', Inspect
    PROVE  RecordFaithful' /\ PendingRecord' /\ PromptDecided' /\ NoSpuriousPrompt'
<1> DEFINE w     == TargetState(source[cur], fs[cur])
           a     == fs[cur]
           adopt == Equivalent(w, a) /\ ~Equivalent(db[cur], a)
           last  == IF adopt THEN w ELSE db[cur]
<1>1. i \in 1..Len(Order) /\ cur \in Targets /\ cur' = cur
  BY CurrentTarget DEF Inspect, IInv, cur
<1>2. w \in Entry /\ a \in Entry /\ w # None /\ a # None
  BY <1>1, TargetStateType, NilAssumption DEF IInv, TypeOK
<1>3. /\ pc = "inspect" /\ want' = w /\ opts' = opts /\ asked' = asked /\ source' = source
      /\ pc' = PromptMode(w, last, a, Overwrite(source[cur], w))
  BY DEF Inspect
<1>4. pc' \in {"write", "yesNoAll", "conflict"}
  BY <1>3 DEF PromptMode, PromptFor
<1>5. InFlight = {} /\ InFlight' = {}
  BY <1>3, <1>4 DEF InFlight, Unrecorded
<1>6. cur \notin lost => db[cur] = wrote[cur]
  BY <1>1, <1>5 DEF IInv, RecordFaithful
<1>7. RecordFaithful'
  <2>1. CASE adopt /\ ~opts.dryRun
    <3>1. db' = [db EXCEPT ![cur] = w] /\ wrote' = [wrote EXCEPT ![cur] = w] /\ lost' = lost \ {cur}
      BY <2>1 DEF Inspect
    <3> QED BY <1>1, <1>5, <3>1 DEF IInv, TypeOK, RecordFaithful
  <2>2. CASE ~(adopt /\ ~opts.dryRun)
    <3>1. UNCHANGED <<db, wrote, lost>>
      BY <2>2 DEF Inspect
    <3> QED BY <1>5, <3>1 DEF IInv, RecordFaithful
  <2> QED BY <2>1, <2>2
<1>8. PendingRecord'
  BY <1>4 DEF PendingRecord
<1>9. ASSUME adopt PROVE Equivalent(w, a)
  BY <1>9
<1>10. Equivalent(w, a) => pc' = "write"
  BY <1>3 DEF PromptMode, PromptFor
<1>11. ASSUME ~(adopt /\ ~opts.dryRun)
       PROVE  /\ lost' = lost
              /\ dirty' = (wrote[cur] # None /\ wrote[cur] # a)
  BY <1>11 DEF Inspect
<1>12. NoSpuriousPrompt'
  <2> SUFFICES ASSUME pc' = "conflict", cur \notin lost', ~opts.lessInteractive
               PROVE  dirty'
    BY <1>1, <1>3 DEF NoSpuriousPrompt
  <2>1. ~Equivalent(w, a) /\ ~adopt
    BY <1>10
  <2>2. last # None /\ ~Equivalent(last, a)
    BY <1>3, <2>1 DEF PromptMode, PromptFor
  <2>3. db[cur] # None /\ db[cur] # a
    BY <2>1, <2>2 DEF Equivalent
  <2> HIDE DEF adopt, last, w
  <2> QED BY <1>6, <1>11, <2>1, <2>3
<1>13. PromptDecided'
  <2> SUFFICES ASSUME pc' = "write", dirty', cur \notin lost', ~opts.dryRun, ~opts.force
               PROVE  Overwrite(source[cur], w) /\ ~opts.lessInteractive
    BY <1>1, <1>3, <1>4 DEF PromptDecided
  <2>1. ~adopt
    <3>1. adopt => dirty' = FALSE
      BY DEF Inspect
    <3> QED BY <3>1
  <2>2. wrote[cur] # None /\ wrote[cur] # a /\ db[cur] = wrote[cur]
    BY <1>6, <1>11, <2>1
  <2>3. ~Equivalent(db[cur], a)
    BY <1>2, <2>2 DEF Equivalent, OrAbsent
  <2>4. ~Equivalent(w, a)
    BY <2>1, <2>3
  <2>5. last # None /\ ~Equivalent(last, a)
    BY <2>1, <2>2, <2>3
  <2> HIDE DEF last
  <2> QED BY <1>3, <2>4, <2>5 DEF PromptMode, PromptFor
<1> QED BY <1>7, <1>8, <1>12, <1>13

\* Every step keeps the invariant.
LEMMA InvStep ==
    ASSUME IInv, [Next]_vars
    PROVE  IInv'
<1>1. TypeOK'
  BY TypeStep DEF IInv
<1>2. CASE \E o \in OptionSets : Start(o)
  <2>1. PICK o \in OptionSets : Start(o)
    BY <1>2
  <2>2. lost' = LostNow
    BY <2>1 DEF Start, history, LostNow, Unrecorded
  <2>3. RecordFaithful' /\ PendingRecord'
    BY <2>1, <2>2, QuietStep DEF IInv, Start, history
  <2> QED BY <1>1, <2>1, <2>3, OtherTarget DEF IInv, Start
<1>3. CASE PassOver \/ InspectFails \/ AnswerNo \/ AnswerQuit \/ Unchanged
  <2>1. pc' \in {"idle", "inspect"}
    BY <1>3 DEF PassOver, InspectFails, AnswerNo, AnswerQuit, Unchanged, NextTarget, Error, EndRun
  <2>2. lost' = LostNow /\ UNCHANGED <<db, wrote>>
    BY <1>3 DEF PassOver, InspectFails, AnswerNo, AnswerQuit, Unchanged, history, LostNow, Unrecorded
  <2> QED BY <1>1, <2>1, <2>2, QuietStep, OtherTarget DEF IInv
<1>4. CASE Inspect
  BY <1>1, <1>4, InspectDecides DEF IInv
<1>5. CASE AnswerYes \/ AnswerAll
  <2>1. pc' = "write" /\ asked' = TRUE
    BY <1>5 DEF AnswerYes, AnswerAll
  <2>2. lost' = LostNow /\ UNCHANGED <<db, wrote>>
    BY <1>5 DEF AnswerYes, AnswerAll, history, LostNow, Unrecorded
  <2> QED BY <1>1, <2>1, <2>2, QuietStep DEF IInv, PromptDecided, NoSpuriousPrompt
<1>6. CASE Remove \/ RemoveOld \/ Create \/ Chmod \/ PostRemove
  <2>1. PICK newFs, w : Change(newFs, w) /\ (pc' = "record" => w = want)
                                         /\ (pc' = "postRecord" => w = Absent)
    BY <1>6 DEF Remove, RemoveOld, Create, Chmod, PostRemove, Plan, AboutToCreate
  <2>2. /\ i \in 1..Len(Order)
        /\ UNCHANGED <<db, source, i, opts, want, seen, dirty, asked, lost>>
    BY <1>6 DEF IInv, TypeOK, Remove, RemoveOld, Create, Chmod, PostRemove, AboutToCreate, run
  <2>3. /\ pc \in {"write", "create", "post"}
        /\ pc' = "create" => pc = "write"
        /\ pc' \in {"create", "record", "postRecord"}
    BY <1>6 DEF Remove, RemoveOld, Create, Chmod, PostRemove, AboutToCreate
  <2>4. cur' = cur /\ cur \in Targets
    BY <2>2, CurrentTarget DEF IInv, cur
  <2>5. CASE opts.dryRun
    <3>1. wrote' = wrote /\ InFlight = {} /\ InFlight' = {}
      BY <2>1, <2>2, <2>5 DEF Change, InFlight, Unrecorded
    <3> QED BY <1>1, <2>2, <2>3, <2>5, <3>1
         DEF IInv, RecordFaithful, PendingRecord, PromptDecided, NoSpuriousPrompt
  <2>6. CASE ~opts.dryRun
    <3>1. wrote' = [wrote EXCEPT ![cur] = w]
      BY <2>1, <2>6 DEF Change
    <3>2. InFlight \subseteq {cur} /\ InFlight' = {cur}
      BY <2>2, <2>3, <2>4, <2>6 DEF InFlight, Unrecorded
    <3>3. RecordFaithful'
      BY <2>2, <3>1, <3>2 DEF IInv, TypeOK, RecordFaithful
    <3>4. PendingRecord'
      BY <2>1, <2>2, <2>4, <3>1 DEF IInv, TypeOK, PendingRecord
    <3>5. PromptDecided' /\ NoSpuriousPrompt'
      BY <2>2, <2>3, <2>4 DEF IInv, PromptDecided, NoSpuriousPrompt
    <3> QED BY <1>1, <3>3, <3>4, <3>5 DEF IInv
  <2> QED BY <2>5, <2>6
<1>7. CASE WriteFails \/ Fault \/ Crash
  <2>1. pc' \in {"idle", "inspect"}
    BY <1>7 DEF WriteFails, Fault, Crash, Error, EndRun
  <2>2. lost' = LostNow /\ UNCHANGED <<db, wrote>>
    BY <1>7 DEF WriteFails, Fault, Crash
  <2> QED BY <1>1, <2>1, <2>2, QuietStep, OtherTarget DEF IInv
<1>8. CASE Record \/ PostRecord
  <2>1. pc \in {"record", "postRecord"} /\ pc' \in {"inspect", "post"} /\ wrote' = wrote
    BY <1>8 DEF Record, PostRecord, NextTarget
  <2>2. cur \in Targets
    BY <2>1, CurrentTarget DEF IInv, TypeOK
  <2>3. InFlight' = {} /\ PendingRecord'
    BY <2>1 DEF InFlight, Unrecorded, PendingRecord
  <2>4. CASE opts.dryRun
    <3>1. UNCHANGED <<db, lost>> /\ InFlight = {}
      BY <1>8, <2>4 DEF Record, PostRecord, InFlight, Unrecorded
    <3>2. RecordFaithful'
      BY <2>1, <2>3, <3>1 DEF IInv, RecordFaithful
    <3> QED BY <1>1, <2>1, <2>3, <3>2, OtherTarget DEF IInv
  <2>5. CASE ~opts.dryRun
    <3>1. db' = [db EXCEPT ![cur] = wrote[cur]] /\ lost' = lost \ {cur}
      BY <1>8, <2>5 DEF Record, PostRecord, IInv, PendingRecord
    <3>2. InFlight = {cur}
      BY <2>1, <2>5 DEF InFlight, Unrecorded
    <3>3. RecordFaithful'
      BY <2>1, <2>2, <2>3, <3>1, <3>2 DEF IInv, TypeOK, RecordFaithful
    <3> QED BY <1>1, <2>1, <2>3, <3>3, OtherTarget DEF IInv
  <2> QED BY <2>4, <2>5
<1>9. CASE BeginPostApply \/ PostPassOver \/ PostFails \/ Finish
  <2>1. pc' \in {"idle", "post"}
    BY <1>9 DEF BeginPostApply, PostPassOver, PostFails, Finish, EndRun
  <2>2. lost' = LostNow /\ UNCHANGED <<db, wrote>>
    BY <1>9 DEF BeginPostApply, PostPassOver, PostFails, Finish, history, LostNow, Unrecorded
  <2> QED BY <1>1, <2>1, <2>2, QuietStep, OtherTarget DEF IInv
<1>10. CASE \E t \in Targets : UserEdit(t)
  <2>1. UNCHANGED <<db, source, pc, run, history>>
    BY <1>10 DEF UserEdit
  <2> QED BY <1>1, <2>1, RunStands DEF IInv, run, history
<1>11. CASE \E t \in Targets : SourceEdit(t)
  <2>1. PICK t \in Targets : SourceEdit(t)
    BY <1>11
  <2>2. UNCHANGED <<db, pc, run, history>>
    BY <2>1 DEF SourceEdit
  <2>3. pc # "idle" => source'[cur].kind = source[cur].kind
    <3>1. PICK s \in SourceChoices[t] :
             /\ pc # "idle" => s = [source[t] EXCEPT !.sum = s.sum]
             /\ source' = [source EXCEPT ![t] = s]
      BY <2>1 DEF SourceEdit
    <3>2. source \in [Targets -> SourceEntry]
      BY DEF IInv, TypeOK
    <3>3. pc # "idle" => s.kind = source[t].kind
      BY <3>1, <3>2 DEF SourceEntry
    <3> QED BY <3>1, <3>2, <3>3
  <2> QED BY <1>1, <2>2, <2>3, RunStands DEF IInv, run, history
<1>12. CASE UNCHANGED vars
  <2>1. UNCHANGED <<source, db, pc, i, opts, want, seen, dirty, asked, wrote, lost>>
    BY <1>12 DEF vars, run, history
  <2> QED BY <1>1, <2>1, RunStands DEF IInv
<1> QED
  BY <1>2, <1>3, <1>4, <1>5, <1>6, <1>7, <1>8, <1>9, <1>10, <1>11, <1>12
  DEF Next, Running, Inspecting, Answer, Writing, PostApply, Environment

LEMMA InvInit == Init => IInv
BY TypeInit DEF Init, IInv, RecordFaithful, PendingRecord, PromptDecided, NoSpuriousPrompt

LEMMA Invariant == Spec => []IInv
BY InvInit, InvStep, PTL DEF Spec

\* The persistent state always holds what chezmoi last made of every target,
\* but for a change under way and changes that a crash or an error cut off.
THEOREM RecordStaysFaithful == Spec => []RecordFaithful
<1>1. IInv => RecordFaithful
  BY DEF IInv
<1> QED BY <1>1, Invariant, PTL

\* The prompt about a changed target is shown for changed targets only.
THEOREM PromptsAreJustified == Spec => []NoSpuriousPrompt
<1>1. IInv => NoSpuriousPrompt
  BY DEF IInv
<1> QED BY <1>1, Invariant, PTL

\* The steps of chezmoi's own that may change the destination. An edit of the
\* user uses up the bound on edits.
LEMMA OurChange ==
    ASSUME TypeOK, [Next]_vars, budget' = budget, fs' # fs
    PROVE  Remove \/ RemoveOld \/ Create \/ Chmod \/ PostRemove
<1>1. ~(\E t \in Targets : UserEdit(t))
  <2>1. ASSUME NEW t \in Targets, UserEdit(t) PROVE FALSE
    <3>1. budget.edits \in Nat /\ budget.edits > 0
      BY <2>1 DEF TypeOK, Budgets, UserEdit
    <3>2. budget'.edits = budget.edits - 1
      BY <2>1 DEF TypeOK, Budgets, UserEdit
    <3> QED BY <3>1, <3>2
  <2> QED BY <2>1
<1> QED
  BY <1>1
  DEF Next, Running, Inspecting, Answer, Writing, PostApply, Environment, vars,
      Start, PassOver, InspectFails, Inspect, AnswerYes, AnswerAll, AnswerNo, AnswerQuit,
      Unchanged, WriteFails, Record, BeginPostApply, PostPassOver, PostRecord, PostFails,
      Finish, Fault, Crash, SourceEdit

\* Only a run that is not dry changes the destination.
LEMMA ChangeIsReal ==
    ASSUME TypeOK, [Next]_vars, budget' = budget, fs' # fs
    PROVE  ~opts.dryRun
<1>1. PICK newFs, w : Change(newFs, w)
  BY OurChange DEF Remove, RemoveOld, Create, Chmod, PostRemove
<1> QED BY <1>1 DEF Change

\* A target that the user changed since chezmoi last wrote it is changed only
\* with consent: an answer, --force or a modify_ entry.
THEOREM ConsentBeforeChange == Spec => NoSilentOverwrite
<1>1. ASSUME IInv, [Next]_vars, Changes, dirty
      PROVE  \/ asked
             \/ opts.force
             \/ Overwrite(source[cur], want) /\ ~opts.lessInteractive
             \/ cur \in lost
  <2>1. ~opts.dryRun
    BY <1>1, ChangeIsReal DEF IInv, Changes, Ours
  <2>2. pc \in {"write", "create"}
    BY <1>1 DEF Changes
  <2> QED BY <1>1, <2>1, <2>2 DEF IInv, PromptDecided
<1> QED BY <1>1, Invariant, PTL DEF Spec, NoSilentOverwrite

\* A dry run changes neither the destination nor the persistent state.
THEOREM DryRunChangesNothing == Spec => DryRunInert
<1>1. ASSUME TypeOK, [Next]_vars, Ours, opts.dryRun
      PROVE  UNCHANGED <<fs, db>>
  <2>1. fs' = fs
    BY <1>1, ChangeIsReal DEF Ours
  <2>2. db' = db
    BY <1>1
    DEF Next, Running, Inspecting, Answer, Writing, PostApply, Environment, vars,
        Start, PassOver, InspectFails, Inspect, AnswerYes, AnswerAll, AnswerNo, AnswerQuit,
        Unchanged, Remove, RemoveOld, Create, Chmod, PostRemove,
        WriteFails, Record, BeginPostApply, PostPassOver, PostRecord, PostFails,
        Finish, Fault, Crash, UserEdit, SourceEdit
  <2> QED BY <2>1, <2>2
<1> QED BY <1>1, TypeCorrect, PTL DEF Spec, DryRunInert
-----------------------------------------------------------------------------
(* The consent that --less-interactive asks for.                           *)

\* Once the prompt is decided under --less-interactive, an entry that chezmoi
\* never wrote is left as it is unless the user agreed.
PreExistingDecided ==
    (pc \in {"write", "create"} /\ opts.lessInteractive /\ cur \notin lost /\ ~opts.dryRun)
      => \/ asked
         \/ opts.force
         \/ seen = Absent
         \/ pc = "write" /\ want = seen
         \/ wrote[cur] # None

LEMMA PreExistingStep ==
    ASSUME IInv, PreExistingDecided, [Next]_vars
    PROVE  PreExistingDecided'
<1>1. CASE Inspect
  <2> DEFINE w     == TargetState(source[cur], fs[cur])
             a     == fs[cur]
             adopt == Equivalent(w, a) /\ ~Equivalent(db[cur], a)
             last  == IF adopt THEN w ELSE db[cur]
  <2>1. cur \in Targets /\ cur' = cur
    BY <1>1, CurrentTarget DEF Inspect, IInv, cur
  <2>2. w \in Entry /\ a \in Entry /\ w # None /\ a # None
    BY <2>1, TargetStateType, NilAssumption DEF IInv, TypeOK
  <2>3. /\ pc = "inspect" /\ want' = w /\ seen' = a /\ opts' = opts
        /\ pc' = PromptMode(w, last, a, Overwrite(source[cur], w))
    BY <1>1 DEF Inspect
  <2>4. w # a => ~Equivalent(w, a)
    BY <2>2 DEF Equivalent, OrAbsent
  <2> SUFFICES ASSUME pc' = "write", opts.lessInteractive, cur \notin lost', ~opts.dryRun,
                      ~opts.force, a # Absent, w # a
               PROVE  wrote'[cur] # None
    <3>1. pc' \in {"write", "yesNoAll", "conflict"}
      BY <2>3 DEF PromptMode, PromptFor
    <3> QED BY <2>1, <2>3, <3>1 DEF PreExistingDecided
  <2>5. ~adopt /\ last = db[cur]
    BY <2>4
  <2>6. UNCHANGED <<wrote, lost>>
    BY <1>1, <2>5 DEF Inspect
  <2>7. db[cur] # None
    <3> HIDE DEF w, a, last
    <3> QED BY <2>3, <2>4, <2>5 DEF PromptMode, PromptFor
  <2>8. db[cur] = wrote[cur]
    BY <2>1, <2>3, <2>6 DEF IInv, RecordFaithful, InFlight, Unrecorded
  <2> QED BY <2>6, <2>7, <2>8
<1>2. CASE AnswerYes \/ AnswerAll
  BY <1>2 DEF AnswerYes, AnswerAll, PreExistingDecided
<1>3. CASE RemoveOld
  <2>1. i \in 1..Len(Order) /\ cur \in Targets /\ Absent # None
    BY <1>3, CurrentTarget, NilAssumption, EntryShape DEF IInv, TypeOK, RemoveOld
  <2>2. wrote' = wrote \/ wrote' = [wrote EXCEPT ![cur] = Absent]
    BY <1>3 DEF RemoveOld, Change
  <2>3. pc = "write" /\ UNCHANGED <<cur, opts, want, seen, asked, lost>>
    BY <1>3 DEF RemoveOld, run, cur
  <2>4. wrote[cur] # None => wrote'[cur] # None
    BY <2>1, <2>2 DEF IInv, TypeOK
  <2>5. want # seen
    BY <1>3 DEF RemoveOld, Plan
  <2> QED BY <2>3, <2>4, <2>5 DEF PreExistingDecided
<1>4. CASE UNCHANGED <<pc, i, opts, want, seen, asked, wrote, lost>>
  BY <1>4 DEF PreExistingDecided, cur
<1>5. CASE pc' \notin {"write", "create"}
  BY <1>5 DEF PreExistingDecided
<1>6. [Next]_vars => \/ Inspect \/ AnswerYes \/ AnswerAll \/ RemoveOld
                     \/ UNCHANGED <<pc, i, opts, want, seen, asked, wrote, lost>>
                     \/ pc' \notin {"write", "create"}
  BY DEF Next, Running, Inspecting, Answer, Writing, PostApply, Environment, vars, run, history,
         Start, PassOver, InspectFails, AnswerNo, AnswerQuit, Error, EndRun, NextTarget,
         Unchanged, Remove, Create, Chmod, WriteFails, Record,
         BeginPostApply, PostPassOver, PostRemove, PostRecord, PostFails, Finish,
         Fault, Crash, UserEdit, SourceEdit
<1> QED BY <1>1, <1>2, <1>3, <1>4, <1>5, <1>6

\* With --less-interactive an entry that chezmoi never wrote is changed only
\* with consent, unless the record of what it wrote was lost.
THEOREM PreExistingStays == Spec => PreExistingAsked
<1>1. Init => PreExistingDecided
  BY DEF Init, PreExistingDecided
<1>2. ASSUME IInv, PreExistingDecided, [Next]_vars, Changes, opts.lessInteractive
      PROVE  asked \/ opts.force \/ seen = Absent \/ cur \in lost \/ wrote[cur] # None
  <2>1. ~opts.dryRun /\ pc \in {"write", "create"} /\ pc # "idle"
    BY <1>2, ChangeIsReal DEF IInv, Changes, Ours
  <2>2. ~(pc = "write" /\ want = seen)
    <3>1. SUFFICES ASSUME pc = "write", want = seen PROVE FALSE
      OBVIOUS
    <3>2. Plan(want, seen) = "nothing"
      BY <3>1 DEF Plan
    <3>3. Remove \/ RemoveOld \/ Create \/ Chmod \/ PostRemove
      BY <1>2, OurChange DEF IInv, Changes, Ours
    <3> QED BY <3>1, <3>2, <3>3 DEF Remove, RemoveOld, AboutToCreate, Create, Chmod, PostRemove
  <2> QED BY <1>2, <2>1, <2>2 DEF PreExistingDecided
<1> QED BY <1>1, <1>2, PreExistingStep, Invariant, PTL DEF Spec, PreExistingAsked
-----------------------------------------------------------------------------
(* What else a change takes away.                                          *)

\* While a target is applied, it is to be a directory exactly when its source
\* entry is one.
WantsDir ==
    pc \in {"yesNoAll", "conflict", "write", "create"}
      => (want.type = "dir" <=> source[cur].kind \in DirKinds)

TreeInv == TypeOK /\ WellFormed(fs) /\ Consistent(source) /\ WantsDir

LEMMA TargetIsDir ==
    ASSUME NEW s \in SourceEntry, NEW a \in Entry
    PROVE  TargetState(s, a).type = "dir" <=> s.kind \in DirKinds
BY DEF TargetState, SourceEntry, DirKinds, FileKinds, Kinds, Absent, File, Dir, Symlink

\* Nothing is below an entry that is not a directory.
LEMMA NothingBelow ==
    ASSUME NEW f \in [Targets -> Entry], WellFormed(f), NEW t \in Targets, f[t].type # "dir",
           NEW u \in Targets, t \in Above[u]
    PROVE  f[u] = Absent
BY DEF WellFormed

LEMMA RemoveAllWellFormed ==
    ASSUME NEW f \in [Targets -> Entry], WellFormed(f), NEW t \in Targets
    PROVE  WellFormed(RemoveAll(f, t))
<1> SUFFICES ASSUME NEW u \in Targets, RemoveAll(f, t)[u] # Absent, NEW a \in Above[u]
             PROVE  RemoveAll(f, t)[a].type = "dir"
  BY DEF WellFormed
<1>1. u # t /\ t \notin Above[u] /\ f[u] # Absent
  BY DEF RemoveAll
<1>2. a \in Targets /\ a # t /\ t \notin Above[a]
  BY <1>1, AboveAssumption
<1> QED BY <1>1, <1>2 DEF RemoveAll, WellFormed

\* An entry takes the place of one that holds nothing, or of another directory.
LEMMA PutWellFormed ==
    ASSUME NEW f \in [Targets -> Entry], WellFormed(f), NEW t \in Targets, NEW e \in Entry,
           e # Absent => CanCreate(f, t),
           e.type = "dir" \/ \A u \in Targets : t \in Above[u] => f[u] = Absent
    PROVE  WellFormed([f EXCEPT ![t] = e])
<1> SUFFICES ASSUME NEW u \in Targets, [f EXCEPT ![t] = e][u] # Absent, NEW a \in Above[u]
             PROVE  [f EXCEPT ![t] = e][a].type = "dir"
  BY DEF WellFormed
<1>1. a \in Targets /\ t \notin Above[t]
  BY AboveAssumption
<1>2. CASE u = t
  <2>1. a # t /\ f[a].type = "dir"
    BY <1>1, <1>2 DEF CanCreate
  <2> QED BY <1>1, <2>1
<1>3. CASE u # t
  <2>1. f[u] # Absent /\ f[a].type = "dir"
    BY <1>3 DEF WellFormed
  <2>2. a = t => e.type = "dir"
    BY <2>1
  <2> QED BY <1>1, <2>1, <2>2
<1> QED BY <1>2, <1>3

\* Every step keeps the destination a tree, and the source one.
LEMMA TreeStep ==
    ASSUME TreeInv, [Next]_vars
    PROVE  TreeInv'
<1>0. TypeOK'
  BY TypeStep DEF TreeInv
<1>1. CASE Remove \/ RemoveOld
  <2>1. cur \in Targets
    BY <1>1, CurrentTarget DEF TreeInv, TypeOK, Remove, RemoveOld
  <2>2. WellFormed(fs')
    BY <1>1, <2>1, RemoveAllWellFormed DEF TreeInv, TypeOK, Remove, RemoveOld, Change
  <2>3. Consistent(source') /\ WantsDir'
    BY <1>1 DEF TreeInv, WantsDir, Remove, RemoveOld, run, cur
  <2> QED BY <1>0, <2>2, <2>3 DEF TreeInv
<1>2. CASE Create
  <2>1. cur \in Targets /\ want \in Entry
    BY <1>2, CurrentTarget DEF TreeInv, TypeOK, Create, AboutToCreate
  <2>4. WellFormed(fs')
    <3>1. CASE opts.dryRun
      BY <1>2, <3>1 DEF TreeInv, Create, Change
    <3>2. CASE ~opts.dryRun
      <4>1. CanCreate(fs, cur) /\ (want.type = "dir" \/ fs[cur].type # "dir")
        BY <1>2, <3>2 DEF Create, CreateSucceeds
      <4>2. WellFormed([fs EXCEPT ![cur] = want])
        BY <2>1, <4>1, NothingBelow, PutWellFormed DEF TreeInv, TypeOK
      <4> QED BY <1>2, <3>2, <4>2 DEF Create, Change
    <3> QED BY <3>1, <3>2
  <2>5. Consistent(source') /\ WantsDir'
    BY <1>2 DEF TreeInv, WantsDir, Create
  <2> QED BY <1>0, <2>4, <2>5 DEF TreeInv
<1>3. CASE Chmod
  <2>1. cur \in Targets
    BY <1>3, CurrentTarget DEF TreeInv, TypeOK, Chmod
  <2>2. fs \in [Targets -> Entry]
    BY DEF TreeInv, TypeOK
  <2>3. fs' = fs \/ (fs[cur] # Absent /\ fs' = [fs EXCEPT ![cur].perm = want.perm])
    BY <1>3 DEF Chmod, ChmodSucceeds, Change, Absent
  <2>4. WellFormed(fs')
    <3>1. \A u \in Targets : fs'[u].type = fs[u].type /\ (fs'[u] # Absent => fs[u] # Absent)
      <4>1. \A e \in Entry : [e EXCEPT !.perm = want.perm].type = e.type
        BY DEF Entry, Absent
      <4> QED BY <2>1, <2>2, <2>3, <4>1
    <3>2. \A u \in Targets : Above[u] \subseteq Targets
      BY AboveAssumption
    <3> QED BY <3>1, <3>2 DEF TreeInv, WellFormed
  <2>5. Consistent(source') /\ WantsDir'
    BY <1>3 DEF TreeInv, WantsDir, Chmod
  <2> QED BY <1>0, <2>4, <2>5 DEF TreeInv
<1>4. CASE PostRemove
  <2>1. cur \in Targets
    BY <1>4, CurrentTarget DEF TreeInv, PostRemove
  <2>2. WellFormed(fs')
    <3>1. CASE opts.dryRun
      BY <1>4, <3>1 DEF TreeInv, PostRemove, Change
    <3>2. CASE ~opts.dryRun
      <4>1. \A u \in Targets : cur \in Above[u] => fs[u] = Absent
        BY <1>4, <3>2 DEF PostRemove, IsEmptyDir
      <4>2. WellFormed([fs EXCEPT ![cur] = Absent])
        BY <2>1, <4>1, PutWellFormed, EntryShape DEF TreeInv, TypeOK
      <4> QED BY <1>4, <3>2, <4>2 DEF PostRemove, Change
    <3> QED BY <3>1, <3>2
  <2>3. Consistent(source') /\ WantsDir'
    BY <1>4 DEF TreeInv, WantsDir, PostRemove
  <2> QED BY <1>0, <2>2, <2>3 DEF TreeInv
<1>5. CASE \E t \in Targets : UserEdit(t)
  <2>1. PICK t \in Targets : UserEdit(t)
    BY <1>5
  <2>2. PICK e \in FsChoices[t] :
           /\ e # Absent => CanCreate(fs, t)
           /\ fs' = IF e.type = "dir" /\ fs[t].type = "dir"
                    THEN [fs EXCEPT ![t] = e]
                    ELSE [RemoveAll(fs, t) EXCEPT ![t] = e]
    BY <2>1 DEF UserEdit
  <2>3. e \in Entry
    BY ChoicesAssumption
  <2>4. WellFormed(fs')
    <3>1. CASE e.type = "dir" /\ fs[t].type = "dir"
      BY <2>2, <2>3, <3>1, PutWellFormed DEF TreeInv, TypeOK
    <3>2. CASE ~(e.type = "dir" /\ fs[t].type = "dir")
      <4>1. RemoveAll(fs, t) \in [Targets -> Entry] /\ WellFormed(RemoveAll(fs, t))
        BY RemoveAllType, RemoveAllWellFormed DEF TreeInv, TypeOK
      <4>2. \A u \in Targets : t \in Above[u] => RemoveAll(fs, t)[u] = Absent
        BY DEF RemoveAll
      <4>3. e # Absent => CanCreate(RemoveAll(fs, t), t)
        BY <2>2, AboveAssumption DEF CanCreate, RemoveAll
      <4> QED BY <2>2, <2>3, <3>2, <4>1, <4>2, <4>3, PutWellFormed
    <3> QED BY <3>1, <3>2
  <2>5. Consistent(source') /\ WantsDir'
    BY <2>1 DEF TreeInv, WantsDir, UserEdit, run, cur
  <2> QED BY <1>0, <2>4, <2>5 DEF TreeInv
<1>6. CASE \E t \in Targets : SourceEdit(t)
  <2>1. PICK t \in Targets : SourceEdit(t)
    BY <1>6
  <2>2. fs' = fs /\ Consistent(source') /\ UNCHANGED <<pc, run>>
    BY <2>1 DEF SourceEdit
  <2>3. WantsDir'
    <3>1. PICK s \in SourceChoices[t] :
             /\ pc # "idle" => s = [source[t] EXCEPT !.sum = s.sum]
             /\ source' = [source EXCEPT ![t] = s]
      BY <2>1 DEF SourceEdit
    <3>2. source \in [Targets -> SourceEntry]
      BY DEF TreeInv, TypeOK
    <3>3. pc # "idle" => s.kind = source[t].kind
      BY <3>1, <3>2 DEF SourceEntry
    <3> QED BY <2>2, <3>1, <3>2, <3>3 DEF TreeInv, WantsDir, run, cur
  <2> QED BY <1>0, <2>2, <2>3 DEF TreeInv
<1>7. CASE Inspect
  <2>1. cur \in Targets
    BY <1>7, CurrentTarget DEF Inspect, TreeInv
  <2>2. want' = TargetState(source[cur], fs[cur]) /\ UNCHANGED <<fs, source, cur>>
    BY <1>7 DEF Inspect, cur
  <2>3. source[cur] \in SourceEntry /\ fs[cur] \in Entry
    BY <2>1 DEF TreeInv, TypeOK
  <2> QED BY <1>0, <2>2, <2>3, TargetIsDir DEF TreeInv, WantsDir
<1>8. CASE UNCHANGED <<fs, source>> /\ pc' \notin {"yesNoAll", "conflict", "write", "create"}
  BY <1>0, <1>8 DEF TreeInv, WantsDir
<1>9. CASE AnswerYes \/ AnswerAll
  BY <1>0, <1>9 DEF TreeInv, WantsDir, AnswerYes, AnswerAll, cur
<1>10. CASE UNCHANGED vars
  BY <1>0, <1>10 DEF TreeInv, WantsDir, vars, run, cur
<1>11. [Next]_vars =>
         \/ Remove \/ RemoveOld \/ Create \/ Chmod \/ PostRemove \/ Inspect \/ AnswerYes \/ AnswerAll
         \/ \E t \in Targets : UserEdit(t) \/ SourceEdit(t)
         \/ UNCHANGED <<fs, source>> /\ pc' \notin {"yesNoAll", "conflict", "write", "create"}
         \/ UNCHANGED vars
  BY DEF Next, Running, Inspecting, Answer, Writing, PostApply, Environment,
         Start, PassOver, InspectFails, AnswerNo, AnswerQuit, Error, EndRun, NextTarget,
         Unchanged, WriteFails, Record, BeginPostApply, PostPassOver, PostRecord, PostFails, Finish,
         Fault, Crash
<1> QED BY <1>1, <1>2, <1>3, <1>4, <1>5, <1>6, <1>7, <1>8, <1>9, <1>10, <1>11

LEMMA TreeInit == Init => TreeInv
BY TypeInit DEF Init, TreeInv, WantsDir

LEMMA TreeInvariant == Spec => []TreeInv
BY TreeInit, TreeStep, PTL DEF Spec

\* Applying a target takes away others only when they are not managed, unless
\* the entry changed its type after it was inspected: below a target that is
\* not to be a directory nothing is managed, and a directory takes the place
\* of something that holds nothing.
THEOREM OthersStay == Spec => NoCollateralLoss
<1>1. ASSUME TreeInv, [Next]_vars
      PROVE  \A t \in Targets :
               (Ours /\ i \in 1..Len(Order) /\ t # cur /\ fs'[t] # fs[t])
                 => \/ source[t].kind \in {"none", "remove"}
                    \/ fs[cur].type # seen.type
  <2> SUFFICES ASSUME NEW t \in Targets, Ours, i \in 1..Len(Order), t # cur, fs'[t] # fs[t]
               PROVE  source[t].kind \in {"none", "remove"} \/ fs[cur].type # seen.type
    OBVIOUS
  <2>1. cur \in Targets /\ fs \in [Targets -> Entry] /\ want \in Entry /\ seen \in Entry
    BY <1>1, CurrentTarget DEF TreeInv, TypeOK
  <2>2. Remove \/ RemoveOld \/ Create \/ Chmod \/ PostRemove
    BY <1>1, OurChange DEF TreeInv, Ours
  <2>3. Remove \/ RemoveOld
    <3>1. ASSUME Create \/ Chmod \/ PostRemove PROVE fs'[t] = fs[t]
      BY <1>1, <2>1, <3>1 DEF Create, Chmod, PostRemove, Change
    <3> QED BY <1>1, <2>2, <3>1
  <2>4. cur \in Above[t] /\ fs[t] # Absent
    BY <1>1, <2>1, <2>3 DEF Remove, RemoveOld, Change, RemoveAll
  <2>5. fs[cur].type = "dir"
    BY <1>1, <2>4 DEF TreeInv, WellFormed
  <2>6. CASE want.type = "dir"
    <3>1. seen.type # "dir"
      <4>1. CASE Remove
        BY <2>6, <4>1 DEF Remove, Plan, Absent
      <4>2. CASE RemoveOld
        <5>1. Plan(want, seen) = "replace"
          BY <4>2 DEF RemoveOld
        <5>2. \A e \in Entry : e.type = "dir" => e # Absent /\ e.sum = None
          BY DEF Entry, Absent
        <5> QED BY <2>1, <2>6, <5>1, <5>2 DEF Plan
      <4> QED BY <2>3, <4>1, <4>2
    <3> QED BY <2>5, <3>1
  <2>7. CASE want.type # "dir"
    <3>1. source[cur].kind \notin DirKinds
      BY <1>1, <2>3, <2>7 DEF TreeInv, WantsDir, Remove, RemoveOld
    <3> QED BY <1>1, <2>4, <3>1 DEF TreeInv, Consistent
  <2> QED BY <2>6, <2>7
<1> QED BY <1>1, TreeInvariant, PTL DEF Spec, NoCollateralLoss
-----------------------------------------------------------------------------
(* What a run that nobody disturbed leaves.                                *)

CleanRun == pc # "idle" /\ clean /\ ~failed /\ ~opts.dryRun

\* Every selected target before the current one is as it should be, and so recorded.
AppliedBefore ==
    (CleanRun /\ pc \notin {"post", "postRecord"})
      => \A k \in 1..Len(Order) : (k < i /\ Selected(Order[k]))
           => Fits(fs, Order[k]) /\ Equivalent(db[Order[k]], fs[Order[k]])

\* How far the current target is on its way from what was seen to what is wanted.
AppliedNow ==
    CleanRun =>
      /\ pc \in {"yesNoAll", "conflict", "write", "create", "record"}
           => Selected(cur) /\ want = TargetState(source[cur], seen)
      /\ pc \in {"yesNoAll", "conflict", "write"}
           => fs[cur] = seen /\ (want = seen => Equivalent(db[cur], seen))
      /\ pc = "record" => fs[cur] = want

\* PostApply has come down to the current target, and what it removed since is
\* recorded, but for the current target.
AppliedAfter ==
    (CleanRun /\ pc \in {"post", "postRecord"})
      => /\ \A k \in 1..Len(Order) :
              (Selected(Order[k]) /\ ~(pc = "postRecord" /\ k = i))
                => /\ IF k > i THEN Settled(fs, Order[k]) ELSE Fits(fs, Order[k])
                   /\ Equivalent(db[Order[k]], fs[Order[k]])
         /\ pc = "postRecord" => fs[cur] = Absent /\ source[cur].kind = "rmdir"

CleanInv == TypeOK /\ AppliedBefore /\ AppliedNow /\ AppliedAfter

\* What a run makes of a target fits, whatever was there before.
LEMMA TargetFits ==
    ASSUME NEW t \in Targets, source[t] \in SourceEntry, NEW f, NEW a \in Entry,
           f[t] = TargetState(source[t], a)
    PROVE  Fits(f, t)
<1> DEFINE s == source[t]
           w == TargetState(s, a)
<1>1. s.kind \in Kinds /\ s.empty \in BOOLEAN /\ s.sum \in Sums
  BY DEF SourceEntry
<1>2. CASE s.kind \notin FileKinds
  BY <1>2 DEF Fits, TargetState
<1>3. CASE s.kind \in FileKinds
  <2>1. w = IF RemovesEmpty(s, Contents(s, a)) THEN Absent ELSE File(s.perm, Contents(s, a))
    BY <1>3 DEF TargetState, DirKinds, FileKinds
  <2>2. CASE w = Absent
    <3>1. RemovesEmpty(s, Contents(s, a))
      BY <2>1, <2>2 DEF File, Absent
    <3>2. CASE s.kind = "create"
      BY <2>2, <3>1, <3>2 DEF Fits, RemovesEmpty
    <3>3. CASE s.kind # "create"
      <4>1. RemovesEmpty(s, Contents(s, Absent))
        BY <1>3, <3>1, <3>3 DEF RemovesEmpty, Contents, FileKinds, Absent
      <4>2. TargetState(s, Absent) = Absent
        BY <1>3, <4>1 DEF TargetState, DirKinds, FileKinds
      <4> QED BY <2>2, <4>2 DEF Fits
    <3> QED BY <3>2, <3>3
  <2>3. CASE w # Absent
    <3>1. ~RemovesEmpty(s, Contents(s, a)) /\ w = File(s.perm, Contents(s, a))
      BY <2>1, <2>3
    <3>2. Contents(s, w) = Contents(s, a)
      BY <3>1 DEF Contents, File
    <3>3. TargetState(s, w) = w
      BY <1>3, <3>1, <3>2 DEF TargetState, DirKinds, FileKinds
    <3> QED BY <3>3 DEF Fits
  <2> QED BY <2>2, <2>3
<1> QED BY <1>2, <1>3

\* Targets come in the order of their index, and what is below one after it.
LEMMA OrderFacts ==
    /\ \A k \in 1..Len(Order) : Order[k] \in Targets
    /\ \A t \in Targets : \E k \in 1..Len(Order) : Order[k] = t
    /\ \A j, k \in 1..Len(Order) : Order[j] = Order[k] => j = k
    /\ \A j, k \in 1..Len(Order) : Order[j] \in Above[Order[k]] => j < k
BY OrderAssumption

\* A step that changes the destination and the record at the current target
\* only, or below it, leaves those before as they were.
LEMMA BeforeStands ==
    ASSUME CleanInv, CleanRun, pc \notin {"post", "postRecord"}, i \in 1..Len(Order),
           UNCHANGED source, opts'.args = opts.args, opts'.exclude = opts.exclude,
           \A t \in Targets : t # cur /\ cur \notin Above[t] => fs'[t] = fs[t] /\ db'[t] = db[t],
           NEW k \in 1..Len(Order), k < i, Selected(Order[k])'
    PROVE  Fits(fs, Order[k])' /\ Equivalent(db[Order[k]], fs[Order[k]])'
<1>1. Selected(Order[k])
  BY DEF Selected
<1>2. Order[k] \in Targets /\ Order[k] # cur /\ cur \notin Above[Order[k]]
  BY OrderFacts DEF cur
<1>3. fs'[Order[k]] = fs[Order[k]] /\ db'[Order[k]] = db[Order[k]]
  BY <1>2
<1>4. Fits(fs, Order[k]) /\ Equivalent(db[Order[k]], fs[Order[k]])
  BY <1>1 DEF CleanInv, AppliedBefore
<1> QED BY <1>3, <1>4 DEF Fits

\* Nothing is to be proved of a run that has ended or is not clean any more.
LEMMA NotClean ==
    ASSUME ~CleanRun'
    PROVE  AppliedBefore' /\ AppliedNow' /\ AppliedAfter'
BY DEF AppliedBefore, AppliedNow, AppliedAfter

LEMMA CleanStep ==
    ASSUME CleanInv, [Next]_vars
    PROVE  CleanInv'
<1>0. TypeOK'
  BY TypeStep DEF CleanInv
<1> SUFFICES ASSUME CleanRun' PROVE AppliedBefore' /\ AppliedNow' /\ AppliedAfter'
  BY <1>0, NotClean DEF CleanInv
<1>1. CASE \E o \in OptionSets : Start(o)
  BY <1>1 DEF Start, AppliedBefore, AppliedNow, AppliedAfter
<1>2. CASE PassOver
  <2>1. CleanRun /\ i \in 1..Len(Order) /\ pc = "inspect" /\ pc' = "inspect" /\ i' = i + 1
        /\ ~Selected(cur) /\ UNCHANGED <<fs, db, source, opts>>
    BY <1>2 DEF PassOver, NextTarget, CleanRun
  <2>2. ASSUME NEW k \in 1..Len(Order), k < i', Selected(Order[k])'
        PROVE  Fits(fs, Order[k])' /\ Equivalent(db[Order[k]], fs[Order[k]])'
    <3>1. Selected(Order[k]) /\ k # i
      BY <2>1, <2>2 DEF Selected, cur
    <3> QED BY <2>1, <2>2, <3>1, BeforeStands
  <2> QED BY <2>1, <2>2 DEF AppliedBefore, AppliedNow, AppliedAfter
<1>3. CASE Inspect
  <2> DEFINE w     == TargetState(source[cur], fs[cur])
             a     == fs[cur]
             adopt == Equivalent(w, a) /\ ~Equivalent(db[cur], a)
             last  == IF adopt THEN w ELSE db[cur]
  <2>1. /\ CleanRun /\ i \in 1..Len(Order) /\ pc = "inspect" /\ Selected(cur) /\ ~opts.dryRun
        /\ want' = w /\ seen' = a /\ UNCHANGED <<fs, source, i, opts>>
        /\ pc' = PromptMode(w, last, a, Overwrite(source[cur], w))
        /\ db' = db \/ (adopt /\ db' = [db EXCEPT ![cur] = w])
        /\ adopt => db' = [db EXCEPT ![cur] = w]
    BY <1>3 DEF Inspect, CleanRun
  <2>2. cur \in Targets /\ cur' = cur /\ db \in [Targets -> Entry \cup {None}]
    BY <2>1, CurrentTarget DEF CleanInv, TypeOK, cur
  <2>3. pc' \in {"write", "yesNoAll", "conflict"}
    BY <2>1 DEF PromptMode, PromptFor
  <2>4. w = a => Equivalent(db'[cur], a)
    <3>1. CASE adopt
      BY <2>1, <2>2, <3>1 DEF Equivalent
    <3>2. CASE ~adopt
      BY <2>1, <3>2 DEF Equivalent
    <3> QED BY <3>1, <3>2
  <2>5. AppliedNow'
    BY <2>1, <2>2, <2>3, <2>4 DEF AppliedNow, Selected
  <2>6. AppliedBefore'
    <3>1. \A t \in Targets : t # cur /\ cur \notin Above[t] => fs'[t] = fs[t] /\ db'[t] = db[t]
      BY <2>1, <2>2
    <3> HIDE DEF w, a, adopt, last
    <3> QED BY <2>1, <3>1, BeforeStands DEF AppliedBefore
  <2>7. AppliedAfter'
    BY <2>3 DEF AppliedAfter
  <2> QED BY <2>5, <2>6, <2>7
<1>4. CASE AnswerYes \/ AnswerAll
  <2>1. /\ CleanRun /\ pc \in {"yesNoAll", "conflict"} /\ pc' = "write" /\ i \in 1..Len(Order)
        /\ UNCHANGED <<fs, db, source, i, want, seen>>
        /\ opts'.args = opts.args /\ opts'.exclude = opts.exclude
    BY <1>4 DEF AnswerYes, AnswerAll, CleanRun, CleanInv, TypeOK, Options
  <2>2. AppliedBefore'
    BY <2>1, BeforeStands DEF AppliedBefore
  <2>3. AppliedNow' /\ AppliedAfter'
    BY <2>1 DEF CleanInv, AppliedNow, AppliedAfter, Selected, cur
  <2> QED BY <2>2, <2>3
<1>5. CASE Unchanged
  <2>1. /\ CleanRun /\ pc = "write" /\ pc' = "inspect" /\ i' = i + 1 /\ i \in 1..Len(Order)
        /\ UNCHANGED <<fs, db, source, opts>> /\ Plan(want, seen) = "nothing"
    BY <1>5 DEF Unchanged, NextTarget, CleanRun, CleanInv, TypeOK
  <2>2. cur \in Targets /\ source[cur] \in SourceEntry /\ seen \in Entry
    BY <2>1, CurrentTarget DEF CleanInv, TypeOK
  <2>3. fs[cur] = seen /\ want = seen /\ want = TargetState(source[cur], seen)
        /\ Equivalent(db[cur], seen)
    BY <2>1 DEF CleanInv, AppliedNow, Plan
  <2>4. Fits(fs, cur) /\ Equivalent(db[cur], fs[cur])
    BY <2>2, <2>3, TargetFits
  <2>5. ASSUME NEW k \in 1..Len(Order), k < i', Selected(Order[k])'
        PROVE  Fits(fs, Order[k])' /\ Equivalent(db[Order[k]], fs[Order[k]])'
    <3>1. CASE k = i
      BY <2>1, <2>4, <3>1 DEF Fits, cur
    <3>2. CASE k # i
      BY <2>1, <2>5, <3>2, BeforeStands
    <3> QED BY <3>1, <3>2
  <2> QED BY <2>1, <2>5 DEF AppliedBefore, AppliedNow, AppliedAfter
<1>6. CASE Remove \/ RemoveOld
  <2>1. /\ CleanRun /\ pc = "write" /\ i \in 1..Len(Order) /\ ~opts.dryRun
        /\ fs' = RemoveAll(fs, cur) /\ UNCHANGED <<db, source, i, opts, want, seen>>
        /\ \/ pc' = "record" /\ Plan(want, seen) = "remove"
           \/ pc' = "create"
    BY <1>6 DEF Remove, RemoveOld, Change, CleanRun, CleanInv, TypeOK, run
  <2>2. cur \in Targets /\ cur' = cur
    BY <2>1, CurrentTarget DEF CleanInv, cur
  <2>3. AppliedBefore'
    <3>1. \A t \in Targets : t # cur /\ cur \notin Above[t] => fs'[t] = fs[t] /\ db'[t] = db[t]
      BY <2>1 DEF RemoveAll
    <3> QED BY <2>1, <3>1, BeforeStands DEF AppliedBefore
  <2>4. fs'[cur] = Absent
    BY <2>1, <2>2 DEF RemoveAll
  <2>5. pc' = "record" => want = Absent
    BY <2>1 DEF Plan
  <2>6. Selected(cur)' /\ want' = TargetState(source'[cur], seen')
    <3>1. Selected(cur) /\ want = TargetState(source[cur], seen)
      BY <2>1 DEF CleanInv, AppliedNow
    <3> QED BY <2>1, <2>2, <3>1 DEF Selected
  <2>7. AppliedNow' /\ AppliedAfter'
    BY <2>1, <2>2, <2>4, <2>5, <2>6 DEF AppliedNow, AppliedAfter
  <2> QED BY <2>3, <2>7
<1>7. CASE Create \/ Chmod
  <2>1. /\ CleanRun /\ pc \in {"write", "create"} /\ i \in 1..Len(Order) /\ ~opts.dryRun
        /\ UNCHANGED <<db, source, i, opts, want, seen>> /\ pc' = "record"
        /\ \/ fs' = [fs EXCEPT ![cur] = want]
           \/ /\ fs' = [fs EXCEPT ![cur].perm = want.perm]
              /\ pc = "write" /\ Plan(want, seen) = "chmod"
    BY <1>7 DEF Create, AboutToCreate, Chmod, Change, CleanRun, CleanInv, TypeOK, run
  <2>2. cur \in Targets /\ cur' = cur /\ fs \in [Targets -> Entry] /\ want \in Entry /\ seen \in Entry
    BY <2>1, CurrentTarget DEF CleanInv, TypeOK, cur
  <2>3. fs'[cur] = want
    <3>1. CASE fs' = [fs EXCEPT ![cur] = want]
      BY <2>2, <3>1
    <3>2. CASE /\ fs' = [fs EXCEPT ![cur].perm = want.perm]
               /\ pc = "write" /\ Plan(want, seen) = "chmod"
      <4>1. fs[cur] = seen /\ want.type = seen.type /\ want.sum = seen.sum
        BY <2>1, <3>2 DEF CleanInv, AppliedNow, Plan
      <4>2. [seen EXCEPT !.perm = want.perm] = want
        BY <2>2, <4>1 DEF Entry, Absent
      <4> QED BY <2>2, <3>2, <4>1, <4>2
    <3> QED BY <2>1, <3>1, <3>2
  <2>4. AppliedBefore'
    <3>1. \A t \in Targets : t # cur /\ cur \notin Above[t] => fs'[t] = fs[t] /\ db'[t] = db[t]
      BY <2>1, <2>2
    <3> QED BY <2>1, <3>1, BeforeStands DEF AppliedBefore
  <2>5. Selected(cur)' /\ want' = TargetState(source'[cur], seen')
    <3>1. Selected(cur) /\ want = TargetState(source[cur], seen)
      BY <2>1 DEF CleanInv, AppliedNow
    <3> QED BY <2>1, <2>2, <3>1 DEF Selected
  <2>6. AppliedNow' /\ AppliedAfter'
    BY <2>1, <2>2, <2>3, <2>5 DEF AppliedNow, AppliedAfter
  <2> QED BY <2>4, <2>6
<1>8. CASE Record
  <2>1. /\ CleanRun /\ pc = "record" /\ pc' = "inspect" /\ i \in 1..Len(Order) /\ i' = i + 1
        /\ db' = [db EXCEPT ![cur] = want] /\ UNCHANGED <<fs, source, opts>>
    BY <1>8 DEF Record, NextTarget, CleanRun, CleanInv, TypeOK
  <2>2. cur \in Targets /\ source[cur] \in SourceEntry /\ seen \in Entry
        /\ db \in [Targets -> Entry \cup {None}]
    BY <2>1, CurrentTarget DEF CleanInv, TypeOK
  <2>3. fs[cur] = want /\ want = TargetState(source[cur], seen)
    BY <2>1 DEF CleanInv, AppliedNow
  <2>4. Fits(fs, cur) /\ Equivalent(db'[cur], fs[cur])
    BY <2>1, <2>2, <2>3, TargetFits DEF Equivalent
  <2>5. ASSUME NEW k \in 1..Len(Order), k < i', Selected(Order[k])'
        PROVE  Fits(fs, Order[k])' /\ Equivalent(db[Order[k]], fs[Order[k]])'
    <3>1. CASE k = i
      BY <2>1, <2>4, <3>1 DEF Fits, cur
    <3>2. CASE k # i
      <4>1. \A t \in Targets : t # cur /\ cur \notin Above[t] => fs'[t] = fs[t] /\ db'[t] = db[t]
        BY <2>1, <2>2
      <4> QED BY <2>1, <2>5, <3>2, <4>1, BeforeStands
    <3> QED BY <3>1, <3>2
  <2> QED BY <2>1, <2>5 DEF AppliedBefore, AppliedNow, AppliedAfter
<1>9. CASE BeginPostApply
  <2>1. /\ CleanRun /\ pc = "inspect" /\ i = Len(Order) + 1 /\ pc' = "post" /\ i' = Len(Order)
        /\ UNCHANGED <<fs, db, source, opts>>
    BY <1>9 DEF BeginPostApply, CleanRun
  <2>2. ASSUME NEW k \in 1..Len(Order), Selected(Order[k])'
        PROVE  k < i /\ ~(k > i') /\ Fits(fs, Order[k])' /\ Equivalent(db[Order[k]], fs[Order[k]])'
    <3>1. Selected(Order[k]) /\ k < i /\ ~(k > i')
      BY <2>1, <2>2, IndexStep DEF Selected
    <3>2. Fits(fs, Order[k]) /\ Equivalent(db[Order[k]], fs[Order[k]])
      BY <2>1, <3>1 DEF CleanInv, AppliedBefore
    <3> QED BY <2>1, <3>1, <3>2 DEF Fits
  <2> QED BY <2>1, <2>2 DEF AppliedBefore, AppliedNow, AppliedAfter
<1>10. CASE PostPassOver
  <2>1. /\ CleanRun /\ pc = "post" /\ i \in 1..Len(Order) /\ pc' = "post" /\ i' = i - 1
        /\ UNCHANGED <<fs, db, source, opts>> /\ ~opts.dryRun
        /\ \/ ~InRemoveDirs(cur)
           \/ fs[cur].type \in {"remove", "symlink"}
           \/ fs[cur].type = "dir" /\ ~IsEmptyDir(fs, cur)
    BY <1>10 DEF PostPassOver, CleanRun
  <2>2. cur \in Targets /\ source[cur] \in SourceEntry
    BY <2>1, CurrentTarget DEF CleanInv, TypeOK
  <2>3. ASSUME NEW k \in 1..Len(Order), Selected(Order[k])
        PROVE  /\ IF k > i' THEN Settled(fs, Order[k]) ELSE Fits(fs, Order[k])
               /\ Equivalent(db[Order[k]], fs[Order[k]])
    <3>1. /\ IF k > i THEN Settled(fs, Order[k]) ELSE Fits(fs, Order[k])
          /\ Equivalent(db[Order[k]], fs[Order[k]])
      BY <2>1, <2>3 DEF CleanInv, AppliedAfter
    <3>2. CASE k # i
      BY <2>1, <3>1, <3>2
    <3>3. CASE k = i
      <4>1. Fits(fs, cur)
        BY <2>1, <3>1, <3>3 DEF cur
      <4>2. Settled(fs, cur)
        <5>1. CASE source[cur].kind = "rmdir"
          <6>1. fs[cur].type = "dir" /\ InRemoveDirs(cur)
            <7>1. TargetState(source[cur], fs[cur]).type = "dir"
              BY <5>1 DEF TargetState, DirKinds, FileKinds, Dir
            <7>2. cur \in opts.args
              BY <2>3, <3>3 DEF Selected, cur
            <7> QED BY <4>1, <5>1, <7>1, <7>2 DEF Fits, InRemoveDirs
          <6> QED BY <2>1, <5>1, <6>1 DEF Settled
        <5>2. CASE source[cur].kind # "rmdir"
          BY <4>1, <5>2 DEF Settled
        <5> QED BY <5>1, <5>2
      <4> QED BY <2>1, <3>1, <3>3, <4>2 DEF cur
    <3> QED BY <3>2, <3>3
  <2>4. \A k \in 1..Len(Order) : Selected(Order[k])' => Selected(Order[k])
    BY <2>1 DEF Selected
  <2>5. AppliedAfter'
    BY <2>1, <2>3, <2>4 DEF AppliedAfter, Settled, Fits
  <2> QED BY <2>1, <2>5 DEF AppliedBefore, AppliedNow
<1>11. CASE PostRemove
  <2>1. /\ CleanRun /\ pc = "post" /\ i \in 1..Len(Order) /\ pc' = "postRecord"
        /\ UNCHANGED <<db, source, i, opts>> /\ fs' = [fs EXCEPT ![cur] = Absent]
        /\ IsEmptyDir(fs, cur) /\ source[cur].kind = "rmdir"
    BY <1>11 DEF PostRemove, Change, CleanRun, run, InRemoveDirs
  <2>2. cur \in Targets /\ fs \in [Targets -> Entry] /\ fs'[cur] = Absent /\ cur' = cur
    BY <2>1, CurrentTarget DEF CleanInv, TypeOK, cur
  <2>3. ASSUME NEW k \in 1..Len(Order), Selected(Order[k]), k # i
        PROVE  /\ (IF k > i THEN Settled(fs, Order[k]) ELSE Fits(fs, Order[k]))'
               /\ Equivalent(db[Order[k]], fs[Order[k]])'
    <3> DEFINE t == Order[k]
    <3>1. t \in Targets /\ t # cur /\ fs'[t] = fs[t]
      BY <2>1, <2>2, <2>3, OrderFacts DEF cur
    <3>2. /\ IF k > i THEN Settled(fs, t) ELSE Fits(fs, t)
          /\ Equivalent(db[t], fs[t])
      BY <2>1, <2>3 DEF CleanInv, AppliedAfter
    <3>3. CASE k > i
      <4>1. t \notin Above[cur]
        BY <2>1, <3>3, OrderFacts DEF cur
      <4>2. fs[t].type = "dir" /\ ~IsEmptyDir(fs, t) => ~IsEmptyDir(fs', t)
        <5>1. SUFFICES ASSUME NEW u \in Targets, t \in Above[u], fs[u] # Absent
                       PROVE  fs'[u] # Absent
          BY <3>1 DEF IsEmptyDir
        <5>2. u # cur
          BY <4>1, <5>1
        <5> QED BY <2>1, <2>2, <5>1, <5>2
      <4>3. Settled(fs, t)'
        BY <2>1, <3>1, <3>2, <3>3, <4>2 DEF Settled, Fits
      <4> QED BY <2>1, <3>1, <3>2, <3>3, <4>3
    <3>4. CASE ~(k > i)
      BY <2>1, <3>1, <3>2, <3>4 DEF Fits
    <3> QED BY <3>3, <3>4
  <2>4. \A k \in 1..Len(Order) : Selected(Order[k])' => Selected(Order[k])
    BY <2>1 DEF Selected
  <2>5. AppliedAfter'
    BY <2>1, <2>2, <2>3, <2>4 DEF AppliedAfter
  <2> QED BY <2>1, <2>5 DEF AppliedBefore, AppliedNow
<1>12. CASE PostRecord
  <2>1. /\ CleanRun /\ pc = "postRecord" /\ i \in 1..Len(Order) /\ pc' = "post" /\ i' = i - 1
        /\ UNCHANGED <<fs, source, opts>> /\ db' = [db EXCEPT ![cur] = Absent]
    BY <1>12 DEF PostRecord, CleanRun, CleanInv, TypeOK
  <2>2. cur \in Targets /\ db \in [Targets -> Entry \cup {None}]
        /\ fs[cur] = Absent /\ source[cur].kind = "rmdir"
    BY <2>1, CurrentTarget DEF CleanInv, TypeOK, AppliedAfter
  <2>3. ASSUME NEW k \in 1..Len(Order), Selected(Order[k])
        PROVE  /\ IF k > i' THEN Settled(fs, Order[k]) ELSE Fits(fs, Order[k])
               /\ Equivalent(db'[Order[k]], fs[Order[k]])
    <3>1. CASE k = i
      BY <2>1, <2>2, <3>1 DEF Settled, Equivalent, cur
    <3>2. CASE k # i
      <4>1. Order[k] # cur /\ Order[k] \in Targets
        BY <2>1, <3>2, OrderFacts DEF cur
      <4>2. /\ IF k > i THEN Settled(fs, Order[k]) ELSE Fits(fs, Order[k])
            /\ Equivalent(db[Order[k]], fs[Order[k]])
        BY <2>1, <2>3, <3>2 DEF CleanInv, AppliedAfter
      <4>3. db'[Order[k]] = db[Order[k]] /\ (k > i' <=> k > i)
        BY <2>1, <2>2, <3>2, <4>1
      <4> QED BY <4>2, <4>3
    <3> QED BY <3>1, <3>2
  <2>4. \A k \in 1..Len(Order) : Selected(Order[k])' => Selected(Order[k])
    BY <2>1 DEF Selected
  <2>5. AppliedAfter'
    BY <2>1, <2>3, <2>4 DEF AppliedAfter, Settled, Fits
  <2> QED BY <2>1, <2>5 DEF AppliedBefore, AppliedNow
<1>13. CASE UNCHANGED vars
  BY <1>13 DEF vars, run, history, CleanRun, CleanInv, AppliedBefore, AppliedNow, AppliedAfter,
               Selected, Settled, Fits, cur
<1>14. ASSUME \/ InspectFails \/ AnswerNo \/ AnswerQuit \/ WriteFails \/ PostFails \/ Finish
              \/ Environment
       PROVE  FALSE
  BY <1>14 DEF CleanRun, InspectFails, AnswerNo, AnswerQuit, WriteFails, PostFails, Finish,
               Environment, Fault, Crash, UserEdit, SourceEdit, Error, EndRun, run
<1> QED
  BY <1>1, <1>2, <1>3, <1>4, <1>5, <1>6, <1>7, <1>8, <1>9, <1>10, <1>11, <1>12, <1>13, <1>14
  DEF Next, Running, Inspecting, Answer, Writing, PostApply

LEMMA CleanInvariant == Spec => []CleanInv
<1>1. Init => CleanInv
  BY TypeInit DEF Init, CleanInv, CleanRun, AppliedBefore, AppliedNow, AppliedAfter
<1> QED BY <1>1, CleanStep, PTL DEF Spec

\* At the end of a clean run everything selected is settled and recorded.
LEMMA AtFinish ==
    ASSUME CleanInv, FinishesClean, NEW t \in Targets, Selected(t)
    PROVE  Settled(fs, t) /\ Equivalent(db[t], fs[t])
<1>1. CleanRun /\ pc = "post" /\ i = 0
  BY DEF FinishesClean, Finish, CleanRun
<1>2. PICK k \in 1..Len(Order) : Order[k] = t
  BY OrderFacts
<1>3. k > i
  BY <1>1, <1>2
<1> QED BY <1>1, <1>2, <1>3 DEF CleanInv, AppliedAfter

\* A run that nobody disturbed and that met no error leaves every selected
\* target as it should be: what is done to later targets undoes nothing.
THEOREM CleanRunsConverge == Spec => CleanRunConverges
<1>1. ASSUME CleanInv, FinishesClean PROVE \A t \in Targets : Selected(t) => Settled(fs, t)
  BY <1>1, AtFinish
<1> QED BY <1>1, CleanInvariant, PTL DEF Spec, CleanRunConverges

\* It leaves the record of every such target equal to what is there, whether
\* chezmoi wrote it, found it already right, or removed it in the end.
THEOREM CleanRunsAreRecorded == Spec => CleanRunRecorded
<1>1. ASSUME CleanInv, FinishesClean
      PROVE  \A t \in Targets : Selected(t) => Equivalent(db[t], fs[t])
  BY <1>1, AtFinish
<1> QED BY <1>1, CleanInvariant, PTL DEF Spec, CleanRunRecorded
=============================================================================
