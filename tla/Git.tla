-------------------------------- MODULE Git --------------------------------
(***************************************************************************)
(* What chezmoi does with the repository that holds the source directory:  *)
(* after a command that modifies the source directory it adds, commits and *)
(* pushes, and update pulls and applies. Each git command is a process of  *)
(* its own and can fail; the user works in the same repository meanwhile,  *)
(* and other machines push to the remote.                                  *)
(* internal/cmd: config.go (persistentPostRunRootE, gitAutoAdd,            *)
(* gitAutoCommit, gitAutoPush, gitCommitMessage, runHook), updatecmd.go.   *)
(*                                                                         *)
(* The repository is a set of changes: those in the working tree, those of *)
(* them in the index, those of these that are committed, and those that    *)
(* the remote has. With .chezmoiroot the source directory is a part of the *)
(* working tree only.                                                      *)
(***************************************************************************)
EXTENDS Naturals, FiniteSets

CONSTANTS
    Changes,    \* all that can ever be made
    Inside,     \* those of them in the source directory
    MaxFaults   \* a bound: the steps that fail or are killed

GitAssumption == Inside \subseteq Changes /\ MaxFaults \in Nat

VARIABLES
    work, index, head, origin,
    dest,     \* what has been applied
    conf,     \* [add, commit, push]: git.autoAdd, git.autoCommit, git.autoPush
    pc,
    status,   \* the answer of git status
    pulled,   \* what update asked for: [how, apply]
    left,
    \* History:
    added,    \* what git add found
    by,       \* what the user has staged
    brought,  \* what update pulled
    meddled,  \* the user has committed since the status was read
    calm,     \* no step has failed yet, and the user has committed nothing
    ended     \* of the last command: "none", "ok", "failed", and
              \* "nothing" when git had nothing to commit

gitVars == <<work, index, head, origin, dest, conf, pc, status, pulled, left, added, by, brought, meddled, calm, ended>>
tree    == <<work, index, head>>

Automatic == [add : BOOLEAN, commit : BOOLEAN, push : BOOLEAN]
Pulls == [how : {"command", "builtin", "git"}, apply : BOOLEAN]

TypeOK ==
    /\ work \subseteq Changes /\ index \subseteq work /\ head \subseteq index
    /\ origin \subseteq Changes /\ dest \subseteq Changes
    /\ conf \in Automatic /\ pulled \in Pulls
    /\ pc \in {"idle", "command", "add", "status", "commit-pre", "message", "commit", "commit-post",
               "push-pre", "push", "push-post", "post", "pull", "apply"}
    /\ status \subseteq Changes /\ added \subseteq Changes /\ by \subseteq Changes /\ brought \subseteq Changes
    /\ left \in Nat /\ meddled \in BOOLEAN /\ calm \in BOOLEAN /\ ended \in {"none", "ok", "failed", "nothing"}

Init ==
    /\ work = {} /\ index = {} /\ head = {} /\ origin = {} /\ dest = {}
    /\ conf \in Automatic /\ pulled = [how |-> "git", apply |-> FALSE]
    /\ pc = "idle" /\ status = {} /\ left = MaxFaults
    /\ added = {} /\ by = {} /\ brought = {} /\ meddled = FALSE /\ calm = TRUE /\ ended = "none"

-----------------------------------------------------------------------------
(* The user, and other machines.                                           *)

Unmade == Changes \ (work \cup origin)

UserEdits ==
    /\ \E c \in Unmade : work' = work \cup {c}
    /\ UNCHANGED <<index, head, origin, dest, conf, pc, status, pulled, left, added, by, brought, meddled, calm, ended>>

UserStages ==
    /\ \E c \in work \ index : index' = index \cup {c} /\ by' = by \cup {c}
    /\ UNCHANGED <<work, head, origin, dest, conf, pc, status, pulled, left, added, brought, meddled, calm, ended>>

UserCommits ==
    /\ head # index /\ head' = index /\ meddled' = TRUE /\ calm' = FALSE
    /\ UNCHANGED <<work, index, origin, dest, conf, pc, status, pulled, left, added, by, brought, ended>>

OtherPushes ==
    /\ \E c \in Unmade : origin' = origin \cup {c}
    /\ UNCHANGED <<tree, dest, conf, pc, status, pulled, left, added, by, brought, meddled, calm, ended>>

-----------------------------------------------------------------------------
(* A command that modifies the source directory, and what follows it.      *)

Rest == <<dest, conf, pulled>>

Start ==
    /\ pc = "idle" /\ pc' = "command" /\ ended' = "none"
    /\ added' = {} /\ brought' = {} /\ status' = {} /\ meddled' = FALSE
    /\ UNCHANGED <<tree, origin, Rest, left, by, calm>>

\* The command itself, which a dry run and an unneeded one end without a
\* change. persistentPostRunRootE follows.
Command ==
    /\ pc = "command"
    /\ \E made \in {{}} \cup {{c} : c \in Unmade \cap Inside} : work' = work \cup made
    /\ pc' = IF conf.add \/ conf.commit \/ conf.push THEN "add" ELSE "post"
    /\ UNCHANGED <<index, head, origin, Rest, status, left, added, by, brought, meddled, calm, ended>>

\* git add ., in the source directory.
Add ==
    /\ pc = "add"
    /\ index' = index \cup (work \cap Inside)
    /\ added' = work \cap Inside
    /\ pc' = "status"
    /\ UNCHANGED <<work, head, origin, Rest, status, left, by, brought, meddled, calm, ended>>

\* git status --porcelain=v2, of the whole repository, and its parser: what is
\* staged (1, 2), what is not (?), and what is changed on top of either.
Status == work \ head
IsEmpty(s) == s = {}

ReadStatus ==
    /\ pc = "status"
    /\ status' = Status
    /\ pc' = IF conf.commit \/ conf.push THEN "commit-pre" ELSE "post"
    /\ meddled' = FALSE
    /\ UNCHANGED <<tree, origin, Rest, left, added, by, brought, calm, ended>>

\* gitAutoCommit: nothing to do, or its hook.
CommitPre ==
    /\ pc = "commit-pre"
    /\ pc' = IF ~IsEmpty(status) THEN "message" ELSE IF conf.push THEN "push-pre" ELSE "post"
    /\ UNCHANGED <<tree, origin, Rest, status, left, added, by, brought, meddled, calm, ended>>

\* gitCommitMessage: the template, and the source state for its data.
Message ==
    /\ pc = "message" /\ pc' = "commit"
    /\ UNCHANGED <<tree, origin, Rest, status, left, added, by, brought, meddled, calm, ended>>

Commit ==
    /\ pc = "commit" /\ index # head
    /\ head' = index
    /\ pc' = "commit-post"
    /\ UNCHANGED <<work, index, origin, Rest, status, left, added, by, brought, meddled, calm, ended>>

\* git commit fails when the index is what was committed.
CommitFails ==
    /\ pc = "commit" /\ index = head
    /\ pc' = "idle" /\ ended' = "nothing" /\ calm' = FALSE
    /\ UNCHANGED <<tree, origin, Rest, status, left, added, by, brought, meddled>>

CommitPost ==
    /\ pc = "commit-post"
    /\ pc' = IF conf.push THEN "push-pre" ELSE "post"
    /\ UNCHANGED <<tree, origin, Rest, status, left, added, by, brought, meddled, calm, ended>>

\* A slip: pushed is only what a second status finds.
PushPreAnew ==
    /\ pc = "push-pre"
    /\ pc' = IF IsEmpty(Status) THEN "post" ELSE "push"
    /\ UNCHANGED <<tree, origin, Rest, status, left, added, by, brought, meddled, calm, ended>>

\* gitAutoPush, by the status that was read before the commit.
PushPre ==
    /\ pc = "push-pre"
    /\ pc' = IF IsEmpty(status) THEN "post" ELSE "push"
    /\ UNCHANGED <<tree, origin, Rest, status, left, added, by, brought, meddled, calm, ended>>

\* The remote takes a push that holds all it has.
Push ==
    /\ pc = "push" /\ origin \subseteq head
    /\ origin' = head
    /\ pc' = "push-post"
    /\ UNCHANGED <<tree, Rest, status, left, added, by, brought, meddled, calm, ended>>

PushRejected ==
    /\ pc = "push" /\ ~(origin \subseteq head)
    /\ pc' = "idle" /\ ended' = "failed" /\ calm' = FALSE
    /\ UNCHANGED <<tree, origin, Rest, status, left, added, by, brought, meddled>>

PushPost ==
    /\ pc = "push-post" /\ pc' = "post"
    /\ UNCHANGED <<tree, origin, Rest, status, left, added, by, brought, meddled, calm, ended>>

\* The command's own hook.
Post ==
    /\ pc = "post" /\ pc' = "idle" /\ ended' = "ok"
    /\ UNCHANGED <<tree, origin, Rest, status, left, added, by, brought, meddled, calm>>

\* A hook, git, the message or the command fails, or chezmoi is killed: what
\* was done stays done, and nothing follows.
Fails ==
    /\ pc # "idle" /\ left > 0
    /\ pc' = "idle" /\ ended' = "failed" /\ left' = left - 1 /\ calm' = FALSE
    /\ UNCHANGED <<tree, origin, Rest, status, added, by, brought, meddled>>

-----------------------------------------------------------------------------
(* update.                                                                 *)

Update ==
    /\ pc = "idle" /\ pc' = "pull" /\ ended' = "none"
    /\ pulled' \in Pulls
    /\ added' = {} /\ brought' = {} /\ status' = {} /\ meddled' = FALSE
    /\ UNCHANGED <<tree, origin, dest, conf, left, by, calm>>

\* A slip: what was pulled is not staged.
PullUnstaged ==
    /\ pc = "pull"
    /\ pulled.how = "builtin" => head \subseteq origin /\ work = head
    /\ work' = work \cup origin /\ index' = index /\ head' = head \cup origin
    /\ pc' = IF pulled.apply THEN "apply" ELSE "post"
    /\ brought' = origin \cap Inside
    /\ UNCHANGED <<origin, Rest, status, left, added, by, meddled, calm, ended>>

\* git pull --autostash --rebase puts local commits and changes on top of what
\* it brings; the builtin git only moves forward, and from a clean tree; of
\* update.command it is known that it pulled.
Pull ==
    /\ pc = "pull"
    /\ pulled.how = "builtin" => head \subseteq origin /\ work = head
    /\ work' = work \cup origin /\ index' = index \cup origin /\ head' = head \cup origin
    /\ pc' = IF pulled.apply THEN "apply" ELSE "post"
    /\ brought' = origin \cap Inside
    /\ UNCHANGED <<origin, Rest, status, left, added, by, meddled, calm, ended>>

PullRefused ==
    /\ pc = "pull" /\ pulled.how = "builtin" /\ ~(head \subseteq origin /\ work = head)
    /\ pc' = "idle" /\ ended' = "failed" /\ calm' = FALSE
    /\ UNCHANGED <<tree, origin, Rest, status, left, added, by, brought, meddled>>

Apply ==
    /\ pc = "apply"
    /\ dest' = work \cap Inside
    /\ pc' = "post"
    /\ UNCHANGED <<tree, origin, conf, status, pulled, left, added, by, brought, meddled, calm, ended>>

Next ==
    \/ UserEdits \/ UserStages \/ UserCommits \/ OtherPushes
    \/ Start \/ Command \/ Add \/ ReadStatus
    \/ CommitPre \/ Message \/ Commit \/ CommitFails \/ CommitPost
    \/ PushPre \/ Push \/ PushRejected \/ PushPost \/ Post \/ Fails
    \/ Update \/ Pull \/ PullRefused \/ Apply

Spec == Init /\ [][Next]_gitVars

-----------------------------------------------------------------------------
(* Properties.                                                             *)

\* With autoCommit or autoPush, a command that has ended well leaves everything
\* that was in the source directory after it committed; so does one that
\* failed because nothing was left to commit (gitAutoAdd, gitAutoCommit).
SourceCommitted ==
    (ended \in {"ok", "nothing"} /\ (conf.commit \/ conf.push)) => added \subseteq head

\* chezmoi stages and commits nothing outside of the source directory that it
\* did not pull and the user did not stage (git add in SourceDirAbsPath).
OnlySourceStaged == index \subseteq Inside \cup by \cup origin

\* A commit fails for want of changes only because those that the status shows
\* are outside of the source directory, or later than the add, or committed by
\* the user since (status is of the whole repository, add is not).
NothingToCommit == (ended = "nothing" /\ ~meddled) => status \cap added = {}

\* With autoPush, a command that has ended well leaves everything that was in
\* the source directory in the remote, unless there was nothing to commit; and
\* commits are left to be pushed only after something has failed, or the user
\* has committed (gitAutoPush goes by the status from before the commit).
PushedToo ==
    conf.push =>
        /\ ended = "ok" => added \subseteq origin \/ status = {}
        /\ (calm /\ pc \in {"idle", "command", "add", "status", "pull", "apply"}) => head \subseteq origin

\* An update that has ended well has applied all that it pulled, also when an
\* earlier one had pulled it already (runUpdateCmd, NoErrAlreadyUpToDate).
PulledIsApplied == (ended = "ok" /\ pulled.apply) => brought \subseteq dest

\* The changes of the source directory, and they alone, are staged, committed
\* and pushed, and those of the remote applied.
ChangesTravel ==
    SourceCommitted /\ OnlySourceStaged /\ NothingToCommit /\ PushedToo /\ PulledIsApplied
=============================================================================
