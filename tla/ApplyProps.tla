------------------------------ MODULE ApplyProps ------------------------------
(***************************************************************************)
(* What `chezmoi apply` promises, over the behaviours of module Apply.     *)
(***************************************************************************)
EXTENDS Apply

\* The record always holds what chezmoi last made of a target, except while a
\* change is under way and for targets whose change a crash or an error cut off
\* before SourceState.Apply or PostApply recorded it.
InFlight == IF Unrecorded THEN {cur} ELSE {}

RecordFaithful ==
    \A t \in Targets \ (lost \cup InFlight) : db[t] = wrote[t]

\* The step is one of chezmoi, not of the user.
Ours == pc # "idle" /\ budget' = budget

\* SourceState.Apply changes the entry of the current target.
Changes == Ours /\ pc \in {"write", "create"} /\ fs'[cur] # fs[cur]

\* A target that the user modified since chezmoi last wrote it is changed only
\* after the user agreed, with --force, or by a modify_ entry, unless a crash
\* or an error lost the record of that last write. (defaultPreApplyFunc)
NoSilentOverwrite ==
    [][(Changes /\ dirty)
         => \/ asked
            \/ opts.force
            \/ Overwrite(source[cur], want) /\ ~opts.lessInteractive
            \/ cur \in lost]_vars

\* The prompt that a target "has changed since chezmoi last wrote it" is only
\* shown for one that did.
NoSpuriousPrompt ==
    (pc = "conflict" /\ cur \notin lost /\ ~opts.lessInteractive) => dirty

\* With --less-interactive an entry that chezmoi never wrote is not changed
\* before the user agreed.
PreExistingAsked ==
    [][(Changes /\ opts.lessInteractive)
         => (asked \/ opts.force \/ seen = Absent \/ cur \in lost
              \/ wrote[cur] # None)]_vars

\* Applying one target takes away another only if that one is no longer
\* managed, unless the entry changed type after chezmoi inspected it.
NoCollateralLoss ==
    [][\A t \in Targets :
         (Ours /\ i \in 1..Len(Order) /\ t # cur /\ fs'[t] # fs[t])
           => \/ source[t].kind \in {"none", "remove"}
              \/ fs[cur].type # seen.type]_vars

\* What a run makes of t: the target state. A create_ entry without the empty_
\* attribute is the exception: it removes a file of whitespace, which the next
\* run makes anew from the source.
Fits(f, t) ==
    \/ f[t] = TargetState(source[t], f[t])
    \/ f[t] = Absent /\ source[t].kind = "create" /\ ~source[t].empty

\* PostApply removes the directories with the remove_ attribute that hold nothing.
Settled(f, t) ==
    IF source[t].kind = "rmdir"
    THEN f[t] = Absent \/ (f[t].type = "dir" /\ ~IsEmptyDir(f, t))
    ELSE Fits(f, t)

FinishesClean == Finish /\ clean /\ ~failed /\ ~opts.dryRun

\* A run that nobody disturbed and that met no error leaves every selected
\* target in its target state: no later target undoes an earlier one, and
\* applying again would change nothing but what a create_ entry removed.
CleanRunConverges ==
    [][FinishesClean => \A t \in Targets : Selected(t) => Settled(fs, t)]_vars

\* After such a run the record agrees with the destination, so that the next
\* run does not mistake chezmoi's own work for an edit of the user.
CleanRunRecorded ==
    [][FinishesClean => \A t \in Targets : Selected(t) => Equivalent(db[t], fs[t])]_vars

\* A dry run writes neither the destination nor the persistent state, whatever
\* the user answers.
DryRunInert ==
    [][(Ours /\ opts.dryRun) => UNCHANGED <<fs, db>>]_vars

\* Every run ends, whatever fails or is answered.
RunTerminates == (pc # "idle") ~> (pc = "idle")
=============================================================================
