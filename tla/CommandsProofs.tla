---------------------------- MODULE CommandsProofs ----------------------------
(***************************************************************************)
(* What is proved of the commands: of the repository behind the source     *)
(* directory, of the config file, of edit and merge, and of the commands   *)
(* that add and remove targets (LifecycleProofs), for any changes,         *)
(* templates, files, editing sessions, targets and number of failures.     *)
(* A step of one part leaves the variables of the others alone, so that    *)
(* the invariant of each part holds while that part works.                 *)
(***************************************************************************)
EXTENDS Commands, TLAPS

Life == INSTANCE LifecycleProofs WITH Commands <- TargetCommands

-----------------------------------------------------------------------------
(* The repository.                                                         *)

Committing == {"commit-pre", "message", "commit"}
Committed  == {"commit-post", "push-pre", "push", "push-post", "post"}
Commits      == conf.commit \/ conf.push

\* A command that runs has not ended, and has staged and brought nothing before
\* it came to that.
Running ==
    /\ pc # "idle" => ended = "none"
    /\ pc \in {"command", "add", "pull", "apply"} => added = {}
    /\ pc \notin {"idle", "apply", "post"} => brought = {}

\* What was added is in the index; with a commit or a push to follow, it is
\* committed once the commit is behind.
AddedKept ==
    /\ added \subseteq index
    /\ (pc \in Committing /\ status = {}) => added \subseteq head
    /\ (pc \in Committed /\ Commits) => added \subseteq head
    /\ Repo!SourceCommitted

\* Until the commit, nobody else commits what the status showed, unless noted.
StatusKept ==
    /\ (pc \in Committing /\ ~meddled) => status \cap head = {}
    /\ pc \in {"message", "commit", "commit-post"} => status # {}
    /\ Repo!NothingToCommit

\* The remote lacks no commit but the one between commit and push.
OriginKept ==
    conf.push =>
        /\ pc = "push-post" => added \subseteq origin
        /\ pc = "post" => added \subseteq origin \/ status = {}
        /\ (calm /\ pc \notin {"commit-post", "push-pre", "push"}) => head \subseteq origin
        /\ (calm /\ pc = "push-pre" /\ status = {}) => head \subseteq origin
        /\ ended = "ok" => added \subseteq origin \/ status = {}

\* What was brought is in the working tree, and applied before the end.
BroughtKept ==
    /\ brought \subseteq work \cap Inside
    /\ (pc = "post" /\ pulled.apply) => brought \subseteq dest
    /\ Repo!PulledIsApplied

RInv ==
    /\ Repo!TypeOK /\ Running /\ AddedKept /\ StatusKept /\ OriginKept
    /\ Repo!OnlySourceStaged /\ BroughtKept

LEMMA RInvInit == ASSUME Repo!GitAssumption, Repo!Init PROVE RInv
  BY DEF Repo!GitAssumption, Repo!Init, RInv, Repo!TypeOK, Repo!Automatic, Repo!Pulls, Running, AddedKept,
         Repo!SourceCommitted, StatusKept,
         Repo!NothingToCommit, OriginKept, Repo!OnlySourceStaged, BroughtKept, Repo!PulledIsApplied, Committing, Committed, Commits

LEMMA GitTypeStep == ASSUME Repo!GitAssumption, Repo!TypeOK, [Repo!Next]_(Repo!gitVars) PROVE Repo!TypeOK'
  <1> USE DEF Repo!gitVars, Repo!tree, Repo!Rest
  <1>1. CASE Repo!UserEdits \/ Repo!UserStages \/ Repo!UserCommits \/ Repo!OtherPushes
    BY <1>1 DEF Repo!TypeOK, Repo!UserEdits, Repo!UserStages, Repo!UserCommits, Repo!OtherPushes, Repo!Unmade
  <1>2. CASE Repo!Start \/ Repo!Command \/ Repo!Add \/ Repo!ReadStatus
    <2>1. CASE Repo!Start
      BY <2>1 DEF Repo!TypeOK, Repo!Start
    <2>3. CASE Repo!Command
      <3>1. PICK change \in {{}} \cup {{c} : c \in Repo!Unmade \cap Inside} : work' = work \cup change
        BY <2>3 DEF Repo!Command
      <3>2. change \subseteq Changes
        BY DEF Repo!Unmade
      <3> QED
        BY <2>3, <3>1, <3>2 DEF Repo!TypeOK, Repo!Command
    <2>2. CASE Repo!Add \/ Repo!ReadStatus
      BY <2>2 DEF Repo!GitAssumption, Repo!TypeOK, Repo!Add, Repo!ReadStatus, Repo!Status
    <2> QED
      BY <1>2, <2>1, <2>2, <2>3
  <1>3. CASE Repo!CommitPre \/ Repo!Message \/ Repo!Commit \/ Repo!CommitFails \/ Repo!CommitPost
    BY <1>3 DEF Repo!TypeOK, Repo!CommitPre, Repo!Message, Repo!Commit, Repo!CommitFails, Repo!CommitPost
  <1>4. CASE Repo!PushPre \/ Repo!Push \/ Repo!PushRejected \/ Repo!PushPost \/ Repo!Post
    BY <1>4 DEF Repo!TypeOK, Repo!PushPre, Repo!Push, Repo!PushRejected, Repo!PushPost, Repo!Post
  <1>5. CASE Repo!Fails
    <2>1. left - 1 \in Nat
      BY <1>5 DEF Repo!TypeOK, Repo!Fails
    <2> QED
      BY <1>5, <2>1 DEF Repo!TypeOK, Repo!Fails
  <1>6. CASE Repo!Update \/ Repo!Pull \/ Repo!PullRefused \/ Repo!Apply
    BY <1>6 DEF Repo!GitAssumption, Repo!TypeOK, Repo!Update, Repo!Pull, Repo!PullRefused, Repo!Apply
  <1>7. CASE UNCHANGED Repo!gitVars
    BY <1>7 DEF Repo!TypeOK
  <1> QED
    BY <1>1, <1>2, <1>3, <1>4, <1>5, <1>6, <1>7 DEF Repo!Next

LEMMA RunningStep == ASSUME RInv, [Repo!Next]_(Repo!gitVars) PROVE Running'
  <1> USE DEF Repo!gitVars, Repo!tree, Repo!Rest
  <1> USE DEF RInv, Running
  <1>1. CASE Repo!UserEdits \/ Repo!UserStages \/ Repo!UserCommits \/ Repo!OtherPushes
    BY <1>1 DEF Repo!UserEdits, Repo!UserStages, Repo!UserCommits, Repo!OtherPushes
  <1>2. CASE Repo!Start \/ Repo!Command \/ Repo!Add \/ Repo!ReadStatus
    BY <1>2 DEF Repo!Start, Repo!Command, Repo!Add, Repo!ReadStatus
  <1>3. CASE Repo!CommitPre \/ Repo!Message \/ Repo!Commit \/ Repo!CommitFails \/ Repo!CommitPost
    BY <1>3 DEF Repo!CommitPre, Repo!Message, Repo!Commit, Repo!CommitFails, Repo!CommitPost
  <1>4. CASE Repo!PushPre \/ Repo!Push \/ Repo!PushRejected \/ Repo!PushPost \/ Repo!Post \/ Repo!Fails
    BY <1>4 DEF Repo!PushPre, Repo!Push, Repo!PushRejected, Repo!PushPost, Repo!Post, Repo!Fails
  <1>5. CASE Repo!Update \/ Repo!Pull \/ Repo!PullRefused \/ Repo!Apply
    BY <1>5 DEF Repo!Update, Repo!Pull, Repo!PullRefused, Repo!Apply
  <1>6. CASE UNCHANGED Repo!gitVars
    BY <1>6
  <1> QED
    BY <1>1, <1>2, <1>3, <1>4, <1>5, <1>6 DEF Repo!Next

LEMMA AddedStep == ASSUME RInv, [Repo!Next]_(Repo!gitVars) PROVE AddedKept'
  <1> USE DEF Repo!gitVars, Repo!tree, Repo!Rest
  <1> USE DEF AddedKept, Repo!SourceCommitted, Committing, Committed, Commits
  <1>1. CASE Repo!UserEdits \/ Repo!UserStages \/ Repo!UserCommits \/ Repo!OtherPushes
    BY <1>1 DEF RInv, Repo!TypeOK, Repo!UserEdits, Repo!UserStages, Repo!UserCommits, Repo!OtherPushes
  <1>2. CASE Repo!Start \/ Repo!Command \/ Repo!Update
    BY <1>2 DEF RInv, Repo!TypeOK, Running, Repo!Start, Repo!Command, Repo!Update
  <1>3. CASE Repo!Add
    BY <1>3 DEF RInv, Repo!TypeOK, Running, Repo!Add
  <1>4. CASE Repo!ReadStatus
    BY <1>4 DEF RInv, Repo!TypeOK, Running, Repo!ReadStatus, Repo!Status
  <1>5. CASE Repo!CommitPre \/ Repo!Message
    BY <1>5 DEF RInv, Repo!TypeOK, Running, StatusKept, Repo!CommitPre, Repo!Message, Repo!IsEmpty
  <1>6. CASE Repo!Commit \/ Repo!CommitFails
    BY <1>6 DEF RInv, Repo!TypeOK, Running, Repo!Commit, Repo!CommitFails
  <1>7. CASE Repo!CommitPost \/ Repo!PushPre \/ Repo!Push \/ Repo!PushRejected \/ Repo!PushPost \/ Repo!Post \/ Repo!Fails
    BY <1>7 DEF RInv, Repo!TypeOK, Running, Repo!CommitPost, Repo!PushPre, Repo!Push, Repo!PushRejected,
           Repo!PushPost, Repo!Post, Repo!Fails
  <1>8. CASE Repo!Pull \/ Repo!PullRefused \/ Repo!Apply
    BY <1>8 DEF RInv, Repo!TypeOK, Running, Repo!Pull, Repo!PullRefused, Repo!Apply
  <1>9. CASE UNCHANGED Repo!gitVars
    BY <1>9 DEF RInv
  <1> QED
    BY <1>1, <1>2, <1>3, <1>4, <1>5, <1>6, <1>7, <1>8, <1>9 DEF Repo!Next

LEMMA StatusStep == ASSUME RInv, [Repo!Next]_(Repo!gitVars) PROVE StatusKept'
  <1> USE DEF Repo!gitVars, Repo!tree, Repo!Rest
  <1> USE DEF StatusKept, Repo!NothingToCommit, Committing
  <1>1. CASE Repo!UserEdits \/ Repo!UserStages \/ Repo!UserCommits \/ Repo!OtherPushes
    BY <1>1 DEF RInv, Repo!UserEdits, Repo!UserStages, Repo!UserCommits, Repo!OtherPushes
  <1>2. CASE Repo!Start \/ Repo!Command \/ Repo!Add \/ Repo!Update
    BY <1>2 DEF RInv, Running, Repo!Start, Repo!Command, Repo!Add, Repo!Update
  <1>3. CASE Repo!ReadStatus
    BY <1>3 DEF RInv, Running, Repo!ReadStatus, Repo!Status
  <1>4. CASE Repo!CommitPre \/ Repo!Message \/ Repo!Commit
    BY <1>4 DEF RInv, Running, Repo!CommitPre, Repo!Message, Repo!Commit, Repo!IsEmpty
  <1>5. CASE Repo!CommitFails
    BY <1>5 DEF RInv, AddedKept, Repo!CommitFails
  <1>6. CASE Repo!CommitPost \/ Repo!PushPre \/ Repo!Push \/ Repo!PushRejected \/ Repo!PushPost \/ Repo!Post \/ Repo!Fails
    BY <1>6 DEF RInv, Running, Repo!CommitPost, Repo!PushPre, Repo!Push, Repo!PushRejected, Repo!PushPost,
           Repo!Post, Repo!Fails
  <1>7. CASE Repo!Pull \/ Repo!PullRefused \/ Repo!Apply
    BY <1>7 DEF RInv, Running, Repo!Pull, Repo!PullRefused, Repo!Apply
  <1>8. CASE UNCHANGED Repo!gitVars
    BY <1>8 DEF RInv
  <1> QED
    BY <1>1, <1>2, <1>3, <1>4, <1>5, <1>6, <1>7, <1>8 DEF Repo!Next

LEMMA OriginStep == ASSUME RInv, [Repo!Next]_(Repo!gitVars) PROVE OriginKept'
  <1> USE DEF Repo!gitVars, Repo!tree, Repo!Rest
  <1> USE DEF OriginKept
  <1>1. CASE Repo!UserEdits \/ Repo!UserStages \/ Repo!UserCommits \/ Repo!OtherPushes
    BY <1>1 DEF RInv, Repo!UserEdits, Repo!UserStages, Repo!UserCommits, Repo!OtherPushes
  <1>2. CASE Repo!Start \/ Repo!Command \/ Repo!Update
    BY <1>2 DEF RInv, Running, Repo!Start, Repo!Command, Repo!Update
  <1>3. CASE Repo!Add \/ Repo!ReadStatus
    BY <1>3 DEF RInv, Running, Repo!Add, Repo!ReadStatus
  <1>4. CASE Repo!CommitPre \/ Repo!Message \/ Repo!Commit \/ Repo!CommitFails
    BY <1>4 DEF RInv, Running, Repo!CommitPre, Repo!Message, Repo!Commit, Repo!CommitFails
  <1>5. CASE Repo!CommitPost \/ Repo!PushPre
    BY <1>5 DEF RInv, Running, StatusKept, Repo!CommitPost, Repo!PushPre, Repo!IsEmpty
  <1>6. CASE Repo!Push \/ Repo!PushRejected
    BY <1>6 DEF RInv, Running, AddedKept, Committed, Commits, Repo!Push, Repo!PushRejected
  <1>7. CASE Repo!PushPost \/ Repo!Post \/ Repo!Fails
    BY <1>7 DEF RInv, Running, Repo!PushPost, Repo!Post, Repo!Fails
  <1>8. CASE Repo!Pull \/ Repo!PullRefused \/ Repo!Apply
    BY <1>8 DEF RInv, Running, Repo!Pull, Repo!PullRefused, Repo!Apply
  <1>9. CASE UNCHANGED Repo!gitVars
    BY <1>9 DEF RInv
  <1> QED
    BY <1>1, <1>2, <1>3, <1>4, <1>5, <1>6, <1>7, <1>8, <1>9 DEF Repo!Next

LEMMA StagedStep == ASSUME RInv, [Repo!Next]_(Repo!gitVars) PROVE Repo!OnlySourceStaged'
  <1> USE DEF Repo!gitVars, Repo!tree, Repo!Rest
  <1> USE DEF Repo!OnlySourceStaged, RInv
  <1>1. CASE Repo!UserEdits \/ Repo!UserStages \/ Repo!UserCommits \/ Repo!OtherPushes
    BY <1>1 DEF Repo!UserEdits, Repo!UserStages, Repo!UserCommits, Repo!OtherPushes
  <1>2. CASE Repo!Start \/ Repo!Command \/ Repo!Add \/ Repo!ReadStatus
    BY <1>2 DEF Repo!Start, Repo!Command, Repo!Add, Repo!ReadStatus
  <1>3. CASE Repo!CommitPre \/ Repo!Message \/ Repo!Commit \/ Repo!CommitFails \/ Repo!CommitPost
    BY <1>3 DEF Repo!CommitPre, Repo!Message, Repo!Commit, Repo!CommitFails, Repo!CommitPost
  <1>4. CASE Repo!PushPre \/ Repo!PushRejected \/ Repo!PushPost \/ Repo!Post \/ Repo!Fails
    BY <1>4 DEF Repo!PushPre, Repo!PushRejected, Repo!PushPost, Repo!Post, Repo!Fails
  <1>5. CASE Repo!Push
    BY <1>5 DEF Repo!Push
  <1>6. CASE Repo!Update \/ Repo!Pull \/ Repo!PullRefused \/ Repo!Apply
    BY <1>6 DEF Repo!Update, Repo!Pull, Repo!PullRefused, Repo!Apply
  <1>7. CASE UNCHANGED Repo!gitVars
    BY <1>7
  <1> QED
    BY <1>1, <1>2, <1>3, <1>4, <1>5, <1>6, <1>7 DEF Repo!Next

LEMMA BroughtStep == ASSUME RInv, [Repo!Next]_(Repo!gitVars) PROVE BroughtKept'
  <1> USE DEF Repo!gitVars, Repo!tree, Repo!Rest
  <1> USE DEF BroughtKept, Repo!PulledIsApplied, RInv
  <1>1. CASE Repo!UserEdits \/ Repo!UserStages \/ Repo!UserCommits \/ Repo!OtherPushes
    BY <1>1 DEF Repo!UserEdits, Repo!UserStages, Repo!UserCommits, Repo!OtherPushes
  <1>2. CASE Repo!Start \/ Repo!Command \/ Repo!Add \/ Repo!ReadStatus
    BY <1>2 DEF Running, Repo!Start, Repo!Command, Repo!Add, Repo!ReadStatus
  <1>3. CASE Repo!CommitPre \/ Repo!Message \/ Repo!Commit \/ Repo!CommitFails \/ Repo!CommitPost
    BY <1>3 DEF Running, Repo!CommitPre, Repo!Message, Repo!Commit, Repo!CommitFails, Repo!CommitPost
  <1>4. CASE Repo!PushPre \/ Repo!Push \/ Repo!PushRejected \/ Repo!PushPost \/ Repo!Post \/ Repo!Fails
    BY <1>4 DEF Running, Repo!PushPre, Repo!Push, Repo!PushRejected, Repo!PushPost, Repo!Post, Repo!Fails
  <1>5. CASE Repo!Update \/ Repo!PullRefused
    BY <1>5 DEF Running, Repo!Update, Repo!PullRefused
  <1>6. CASE Repo!Pull \/ Repo!Apply
    BY <1>6 DEF Running, Repo!Pull, Repo!Apply
  <1>7. CASE UNCHANGED Repo!gitVars
    BY <1>7
  <1> QED
    BY <1>1, <1>2, <1>3, <1>4, <1>5, <1>6, <1>7 DEF Repo!Next

LEMMA RInvStep == ASSUME Repo!GitAssumption, RInv, [Repo!Next]_(Repo!gitVars) PROVE RInv'
  <1> USE DEF Repo!gitVars, Repo!tree, Repo!Rest
  <1>1. Repo!TypeOK'
    BY GitTypeStep DEF RInv
  <1> QED
    BY <1>1, RunningStep, AddedStep, StatusStep, OriginStep, StagedStep, BroughtStep DEF RInv

\* While the commands work in the repository, its invariant holds.
RepoInv == part = "repo" => RInv

LEMMA RepoAssumption == Repo!GitAssumption
  BY CommandsAssumption

LEMMA RepoInit == Init => RepoInv
  BY RepoAssumption, RInvInit DEF Init, RepoInv

LEMMA RepoStep == RepoInv /\ [Next]_commandsVars => RepoInv'
  <1> SUFFICES ASSUME RepoInv, [Next]_commandsVars, part' = "repo" PROVE RInv'
    BY DEF RepoInv
  <1>1. part = "repo" /\ [Repo!Next]_(Repo!gitVars)
    BY DEF Next, TargetNext, EditorNext, RepoNext, ConfigNext, commandsVars, repoVars, Repo!gitVars
  <1> QED
    BY <1>1, RepoAssumption, RInvStep DEF RepoInv

LEMMA RepoInvariant == Spec => []RepoInv
  BY RepoInit, RepoStep, PTL DEF Spec

\* However git commands fail and the user and other machines meddle, the changes
\* of the source directory, and they alone, are staged, committed and pushed,
\* and those of the remote applied (gitAutoAdd, gitAutoCommit, gitAutoPush,
\* runUpdateCmd).
THEOREM ChangesAlwaysTravel == Spec => []ChangesTravel
  <1>1. RepoInv => ChangesTravel
    BY DEF RepoInv, RInv, ChangesTravel, Repo!ChangesTravel, Repo!PushedToo, AddedKept, StatusKept,
           OriginKept, BroughtKept
  <1> QED
    BY <1>1, RepoInvariant, PTL

-----------------------------------------------------------------------------
(* The config file.                                                        *)

\* The template that is executed does not change under the command, and what it
\* made is what it and the answer say.
MadeFits ==
    pc \in {"write", "record", "reload"} =>
        /\ tmpl \in Templates /\ made \in Config!Files
        /\ made.from = tmpl.id /\ made.set = tmpl.set /\ made.ok
        /\ made.data[1] = Config!TypeOf(tmpl.ask.kind)

\* The new file is there before it is recorded, and not trusted until it is.
WrittenFirst ==
    /\ pc \in {"record", "reload"} /\ Config!System(cmd) = "real" => files[tmpl.format] = made
    /\ pc = "record" /\ Config!System(cmd) = "real" => ~trust

\* A command begins with nothing made and works with what it made.
MadeLoaded ==
    /\ pc \in {"clone", "create"} => made = Config!None
    /\ pc \in {"check", "apply"} => made = Config!None \/ made.set = Config!Unset \/ mem.set = made.set

\* The process sees the record, or in its copy that of the template.
ViewFits ==
    pc # "idle" =>
        /\ cmd \in ConfigCommands
        /\ view = recorded \/ (view = Config!Current /\ pc # "clone" /\ ~Config!OwnState(cmd))
        /\ pc = "reload" => view = Config!Current

\* apply warns of exactly what it sees.
WarnsFits ==
    /\ pc \in {"clone", "create", "write", "record", "reload", "check"} => ~warned
    /\ pc = "apply" => (warned <=> view # Config!Current)

\* A record that is trusted is that of a config file that is there; without one
\* there is no file.
RecordFits ==
    trust => IF recorded = "" THEN \A f \in Formats : files[f] = Config!None
             ELSE \E t \in Templates : /\ t.id = recorded
                                       /\ files[t.format] # Config!None /\ files[t.format].from = t.id

\* A command begins with one config file at most, and makes a second one only
\* when it records the template.
OneFile ==
    pc \in {"clone", "create", "write", "check", "apply"} =>
        \/ \A f, g \in Formats : files[f] # Config!None /\ files[g] # Config!None => f = g
        \/ view = Config!Current /\ pc # "clone"

CInv ==
    /\ Config!TypeOK /\ MadeFits /\ WrittenFirst /\ MadeLoaded /\ ViewFits /\ WarnsFits
    /\ RecordFits /\ OneFile /\ Config!AnsweredOnce /\ Config!DataTyped /\ Config!NeverInvalid

ConfigInv == part = "config" => CInv

LEMMA ConfigFacts == Config!ConfigAssumption
  BY CommandsAssumption

LEMMA ConfigBounds == MaxRuns \in Nat /\ MaxStops \in Nat /\ MaxEdits \in Nat
  BY ConfigFacts DEF Config!ConfigAssumption

\* A file is not the absence of one, and neither is a template.
LEMMA NotNone == Config!None \notin Config!Files /\ Config!None \notin Templates
  <1>1. ASSUME NEW r \in Config!Files PROVE r # Config!None
    <2>1. "set" \in DOMAIN r /\ "set" \notin DOMAIN Config!None
      BY DEF Config!Files, Config!None
    <2> QED
      BY <2>1
  <1> QED
    BY <1>1, ConfigFacts DEF Config!ConfigAssumption

\* What is read of a file is what was written, or an unsigned int.
LEMMA ReadFits ==
    \A f, v : v \in Config!Values \cup {Config!NoValue} =>
      Config!ReadBack(f, v) \in Config!Values \cup {Config!Unsigned, Config!NoValue}
  BY DEF Config!ReadBack

\* An answer has the type that the question asks for, and one that is there
\* already is kept.
LEMMA AnswersFit ==
    ASSUME NEW q \in Config!Questions, NEW v \in Config!Values \cup {Config!Unsigned, Config!NoValue},
           NEW c \in ConfigCommands, NEW a \in Config!Answers(q, v, c)
    PROVE  /\ a \in Config!Values /\ a[1] = Config!TypeOf(q.kind)
           /\ q.once /\ ~c.prompt /\ v[1] = Config!TypeOf(q.kind) => a = v
  <1> DEFINE type == Config!TypeOf(q.kind)
  <1>1. type \in {"bool", "int", "list", "string"} /\ (q.kind = "bool" <=> type = "bool")
    BY DEF Config!Questions, Config!Kinds, Config!TypeOf
  <1>2. /\ \A w \in Config!Values : w[1] # "none"
        /\ <<"bool", "true">> \in Config!Values
        /\ Config!NoValue[1] = "none" /\ Config!Unsigned[1] = "uint"
    <2>1. \A w \in Config!Values : w[1] # "none"
      BY DEF Config!Values
    <2>2. <<"bool", "true">> \in Config!Values
      BY DEF Config!Values
    <2>3. Config!NoValue[1] = "none" /\ Config!Unsigned[1] = "uint"
      BY DEF Config!NoValue, Config!Unsigned
    <2> QED
      BY <2>1, <2>2, <2>3
  <1>3. ASSUME NEW w \in Config!Existing(q, v)
        PROVE  w \in Config!Values /\ w[1] = type /\ (v[1] = type => w = v)
    BY <1>1, <1>2, <1>3 DEF Config!Existing, Config!Bool
  <1>4. v[1] = type => Config!Existing(q, v) = {v}
    <2> SUFFICES ASSUME v[1] = type PROVE Config!Existing(q, v) = {v}
      OBVIOUS
    <2>1. v # Config!NoValue
      BY <1>1, <1>2
    <2>2. ~(q.kind = "bool" /\ v = <<"string", "true">>)
      BY <1>1
    <2> QED
      BY <2>1, <2>2 DEF Config!Existing
  <1>5. ASSUME NEW w \in Config!Values, Config!Valid(q.kind, w)
        PROVE  w[1] = type
    BY <1>5 DEF Config!Valid
  <1>6. q.default \in Config!Values \cup {Config!NoValue}
    BY DEF Config!Questions
  <1> DEFINE kept == IF q.once /\ ~c.prompt THEN Config!Existing(q, v) ELSE {}
  <1>7. CASE kept # {}
    <2>1. Config!Answers(q, v, c) = kept
      BY <1>7 DEF Config!Answers
    <2> QED
      BY <1>3, <1>7, <2>1
  <1>8. CASE kept = {}
    <2>1. ~(q.once /\ ~c.prompt /\ v[1] = type)
      BY <1>4, <1>8
    <2>2. a \in Config!Given(q, c) => a \in Config!Values /\ a[1] = type
      BY DEF Config!Given
    <2>3. q.default = Config!NoValue /\ a \in Config!Read(q) => a \in Config!Values /\ a[1] = type
      BY <1>5 DEF Config!Read
    <2>4. q.default # Config!NoValue /\ Config!Valid(q.kind, q.default) /\ a \in Config!Read(q) \cup {q.default}
             => a \in Config!Values /\ a[1] = type
      BY <1>5, <1>6 DEF Config!Read
    <2>5. \/ a \in Config!Given(q, c)
          \/ q.default = Config!NoValue /\ a \in Config!Read(q)
          \/ /\ q.default # Config!NoValue /\ Config!Valid(q.kind, q.default)
             /\ a \in Config!Read(q) \cup {q.default}
      BY <1>8 DEF Config!Answers
    <2> QED
      BY <2>1, <2>2, <2>3, <2>4, <2>5
  <1> QED
    BY <1>7, <1>8

LEMMA ConfigInit == Config!Init => CInv
  <1> SUFFICES ASSUME Config!Init PROVE CInv
    OBVIOUS
  <1>1. Config!TypeOK
    <2>1. mem \in Config!Memories /\ left \in Config!Bounds
      <3>1. Config!NoValue \in Config!Values \cup {Config!NoValue} /\ Config!Unset \in Settings \cup {Config!Unset}
        OBVIOUS
      <3>2. mem = [set |-> Config!Unset, data |-> Config!NoValue, force |-> FALSE]
        BY DEF Config!Init
      <3>3. left = [runs |-> MaxRuns, stops |-> MaxStops, edits |-> MaxEdits]
        BY DEF Config!Init
      <3>4. MaxRuns \in 0 .. MaxRuns /\ MaxStops \in 0 .. MaxStops /\ MaxEdits \in 0 .. MaxEdits
        BY ConfigBounds
      <3> QED
        BY <3>1, <3>2, <3>3, <3>4 DEF Config!Memories, Config!Bounds
    <2>2. files \in [Formats -> Config!Files \cup {Config!None}]
      BY DEF Config!Init
    <2> QED
      BY <2>1, <2>2 DEF Config!Init, Config!TypeOK
  <1>2. \A f \in Formats : files[f] = Config!None
    BY DEF Config!Init
  <1>3. MadeFits /\ WrittenFirst /\ MadeLoaded /\ ViewFits /\ WarnsFits /\ OneFile /\ Config!AnsweredOnce
    BY DEF Config!Init, MadeFits, WrittenFirst, MadeLoaded, ViewFits, WarnsFits, OneFile, Config!AnsweredOnce
  <1>4. RecordFits
    BY <1>2 DEF Config!Init, RecordFits
  <1>5. Config!DataTyped /\ Config!NeverInvalid
    BY <1>2 DEF Config!DataTyped, Config!NeverInvalid
  <1> QED
    BY <1>1, <1>3, <1>4, <1>5 DEF CInv

\* The flag, or else the file, gives the setting.
LEMMA BeginConfig ==
    ASSUME CInv, Config!Begin
    PROVE  CInv'
  <1>1. Config!TypeOK'
    <2>1. left' \in Config!Bounds
      <3>1. left \in Config!Bounds /\ left.runs > 0 /\ left' = [left EXCEPT !.runs = @ - 1]
        BY DEF CInv, Config!TypeOK, Config!Begin
      <3>2. left.runs - 1 \in 0 .. MaxRuns
        BY <3>1, ConfigBounds DEF Config!Bounds
      <3> QED
        BY <3>1, <3>2 DEF Config!Bounds
    <2>2. mem' \in Config!Memories
      <3>1. PICK c \in ConfigCommands, old \in Config!Files \cup {Config!None}, f \in {CHOOSE f \in Config!Present : TRUE} :
               mem' = [set   |-> IF c.flag # Config!Unset THEN c.flag
                                 ELSE IF old = Config!None THEN Config!Unset ELSE old.set,
                       data  |-> IF old = Config!None THEN Config!NoValue ELSE Config!ReadBack(f, old.data),
                       force |-> c.force]
        BY DEF CInv, Config!TypeOK, Config!Begin, Config!Present
      <3>2. /\ c.flag \in Settings \cup {Config!Unset} /\ c.force \in BOOLEAN
            /\ old # Config!None => /\ old.set \in Settings \cup {Config!Unset}
                                    /\ old.data \in Config!Values \cup {Config!NoValue}
        BY ConfigFacts DEF Config!ConfigAssumption, Config!Files
      <3>3. old # Config!None =>
              Config!ReadBack(f, old.data) \in Config!Values \cup {Config!Unsigned, Config!NoValue}
        BY <3>2, ReadFits
      <3> QED
        BY <3>1, <3>2, <3>3 DEF Config!Memories
    <2> QED
      BY <2>1, <2>2, ConfigFacts DEF CInv, Config!TypeOK, Config!Begin, Config!ConfigAssumption
  <1>2. MadeFits' /\ MadeLoaded' /\ Config!AnsweredOnce' /\ Config!DataTyped' /\ Config!NeverInvalid'
    BY DEF CInv, Config!TypeOK, Config!Begin, MadeFits, MadeLoaded, Config!AnsweredOnce,
       Config!DataTyped, Config!NeverInvalid
  <1>3. WrittenFirst' /\ ViewFits' /\ WarnsFits' /\ RecordFits'
    BY DEF CInv, Config!TypeOK, Config!Begin, Config!Current, Config!OwnState, Config!System,
       WrittenFirst, ViewFits, WarnsFits, RecordFits
  <1>4. OneFile'
    <2> QED
      BY DEF Config!Begin, Config!Present, OneFile
  <1> QED
    BY <1>1, <1>2, <1>3, <1>4 DEF CInv

\* What is cloned may hold another template; nothing was made before.
LEMMA CloneConfig ==
    ASSUME CInv, Config!Clone
    PROVE  CInv'
  <1>1. Config!TypeOK'
    BY DEF CInv, Config!TypeOK, Config!Clone, Config!Brought
  <1>2. MadeFits' /\ MadeLoaded' /\ Config!AnsweredOnce' /\ Config!DataTyped' /\ Config!NeverInvalid'
    BY DEF CInv, Config!TypeOK, Config!Clone, Config!Brought, MadeFits, MadeLoaded, Config!AnsweredOnce,
       Config!DataTyped, Config!NeverInvalid
  <1>3. WrittenFirst' /\ ViewFits' /\ WarnsFits' /\ RecordFits' /\ OneFile'
    BY DEF CInv, Config!TypeOK, Config!Clone, Config!Brought, Config!Current, Config!OwnState,
       Config!System, WrittenFirst, ViewFits, WarnsFits, RecordFits, OneFile
  <1> QED
    BY <1>1, <1>2, <1>3 DEF CInv

\* The record goes, and with it the trust in it.
LEMMA NoTemplateConfig ==
    ASSUME CInv, Config!NoTemplate
    PROVE  CInv'
  <1>1. Config!TypeOK'
    BY DEF CInv, Config!TypeOK, Config!NoTemplate, Config!AfterCreate, Config!SetRecord
  <1>2. MadeFits' /\ MadeLoaded' /\ Config!AnsweredOnce' /\ Config!DataTyped' /\ Config!NeverInvalid'
    BY DEF CInv, Config!TypeOK, Config!NoTemplate, Config!AfterCreate, Config!SetRecord, MadeFits,
       MadeLoaded, Config!AnsweredOnce, Config!DataTyped, Config!NeverInvalid
  <1>3. WrittenFirst' /\ ViewFits' /\ WarnsFits' /\ RecordFits' /\ OneFile'
    BY DEF CInv, Config!TypeOK, Config!NoTemplate, Config!AfterCreate, Config!SetRecord, Config!Current,
       Config!OwnState, Config!System, WrittenFirst, ViewFits, WarnsFits, RecordFits, OneFile
  <1> QED
    BY <1>1, <1>2, <1>3 DEF CInv

\* The answer has the type that the template asks for.
LEMMA ExecuteConfig ==
    ASSUME CInv, Config!Execute
    PROVE  CInv'
  <1>0. /\ tmpl \in Templates /\ made' \in Config!Files /\ made'.from = tmpl.id
        /\ made'.set = tmpl.set /\ made'.ok /\ made'.data[1] = Config!TypeOf(tmpl.ask.kind)
        /\ tmpl.ask.once /\ ~cmd.prompt /\ cmd.data /\ mem.data[1] = Config!TypeOf(tmpl.ask.kind)
              => made'.data = mem.data
    <2>1. tmpl \in Templates /\ cmd \in ConfigCommands /\ tmpl.ok
      BY DEF CInv, Config!TypeOK, ViewFits, Config!Execute
    <2>2. /\ tmpl.ask \in Config!Questions /\ tmpl.set \in Settings \cup {Config!Unset}
          /\ tmpl.ok \in BOOLEAN /\ tmpl.id \in Config!Ids
      BY <2>1, ConfigFacts DEF Config!ConfigAssumption, Config!Ids
    <2>3. Config!Known \in Config!Values \cup {Config!Unsigned, Config!NoValue} /\ (cmd.data => Config!Known = mem.data)
      BY DEF CInv, Config!TypeOK, Config!Memories, Config!Known
    <2>4. PICK a \in Config!Answers(tmpl.ask, Config!Known, cmd) :
             made' = [from |-> tmpl.id, set |-> tmpl.set, data |-> a, ok |-> tmpl.ok]
      BY DEF Config!Execute
    <2>5. /\ a \in Config!Values /\ a[1] = Config!TypeOf(tmpl.ask.kind)
          /\ tmpl.ask.once /\ ~cmd.prompt /\ Config!Known[1] = Config!TypeOf(tmpl.ask.kind) => a = Config!Known
      BY <2>1, <2>2, <2>3, <2>4, AnswersFit
    <2>6. made' \in Config!Files
      BY <2>2, <2>4, <2>5 DEF Config!Files
    <2> QED
      BY <2>1, <2>3, <2>4, <2>5, <2>6
  <1>1. Config!TypeOK'
    <2> QED
      BY <1>0, NotNone DEF CInv, Config!TypeOK, Config!Execute, Config!Files, Config!Ids
  <1>2. MadeLoaded' /\ Config!DataTyped' /\ Config!NeverInvalid'
    BY <1>0 DEF CInv, Config!TypeOK, Config!Execute, MadeLoaded, Config!DataTyped, Config!NeverInvalid
  <1>3. MadeFits'
    BY <1>0 DEF CInv, Config!TypeOK, Config!Execute, MadeFits
  <1>4. Config!AnsweredOnce'
    BY <1>0 DEF CInv, Config!TypeOK, Config!Execute, Config!AnsweredOnce
  <1>5. WrittenFirst' /\ ViewFits' /\ WarnsFits' /\ RecordFits' /\ OneFile'
    BY <1>0 DEF CInv, Config!TypeOK, Config!Execute, Config!Current, Config!OwnState, Config!System,
       WrittenFirst, ViewFits, WarnsFits, RecordFits, OneFile
  <1> QED
    BY <1>1, <1>2, <1>3, <1>4, <1>5 DEF CInv

LEMMA ExecuteFailsConfig ==
    ASSUME CInv, Config!ExecuteFails
    PROVE  CInv'
  <1>1. Config!TypeOK'
    BY DEF CInv, Config!TypeOK, Config!ExecuteFails, Config!End
  <1>2. MadeFits' /\ MadeLoaded' /\ Config!AnsweredOnce' /\ Config!DataTyped' /\ Config!NeverInvalid'
    BY DEF CInv, Config!TypeOK, Config!ExecuteFails, Config!End, MadeFits, MadeLoaded,
       Config!AnsweredOnce, Config!DataTyped, Config!NeverInvalid
  <1>3. WrittenFirst' /\ ViewFits' /\ WarnsFits' /\ RecordFits' /\ OneFile'
    BY DEF CInv, Config!TypeOK, Config!ExecuteFails, Config!End, Config!Current, Config!OwnState,
       Config!System, WrittenFirst, ViewFits, WarnsFits, RecordFits, OneFile
  <1> QED
    BY <1>1, <1>2, <1>3 DEF CInv

\* The file is that of the template, and not yet recorded.
LEMMA WriteConfig ==
    ASSUME CInv, Config!Write
    PROVE  CInv'
  <1>0. /\ tmpl \in Templates /\ tmpl.format \in Formats /\ made \in Config!Files
        /\ made # Config!None /\ made.from = tmpl.id /\ made.ok
        /\ made.data[1] = Config!TypeOf(tmpl.ask.kind)
        /\ \A t \in Templates : t.id = tmpl.id => t = tmpl
    BY ConfigFacts, NotNone DEF CInv, MadeFits, Config!Write, Config!ConfigAssumption
  <1>00. \A f \in Formats : files'[f] = files[f] \/ (f = tmpl.format /\ files'[f] = made)
    BY DEF CInv, Config!TypeOK, Config!Write
  <1>1. Config!TypeOK'
    <2>1. files' \in [Formats -> Config!Files \cup {Config!None}]
      BY <1>0 DEF CInv, Config!TypeOK, Config!Write
    <2> QED
      BY <2>1 DEF CInv, Config!TypeOK, Config!Write
  <1>2. MadeFits' /\ MadeLoaded' /\ Config!AnsweredOnce'
    BY <1>0 DEF CInv, Config!TypeOK, Config!Write, MadeFits, MadeLoaded, Config!AnsweredOnce
  <1>3. Config!DataTyped'
    BY <1>0, <1>00 DEF CInv, Config!DataTyped
  <1>4. Config!NeverInvalid'
    BY <1>0, <1>00 DEF CInv, Config!NeverInvalid
  <1>5. ViewFits' /\ WarnsFits' /\ RecordFits' /\ OneFile'
    BY <1>0 DEF CInv, Config!TypeOK, Config!Write, Config!Current, Config!OwnState, Config!System,
       ViewFits, WarnsFits, RecordFits, OneFile
  <1>6. WrittenFirst'
    BY <1>0 DEF CInv, Config!TypeOK, Config!Write, Config!System, WrittenFirst
  <1> QED
    BY <1>1, <1>2, <1>3, <1>4, <1>5, <1>6 DEF CInv

LEMMA WritePanicsConfig ==
    ASSUME CInv, Config!WritePanics
    PROVE  CInv'
  <1>1. Config!TypeOK'
    BY DEF CInv, Config!TypeOK, Config!WritePanics, Config!End
  <1>2. MadeFits' /\ MadeLoaded' /\ Config!AnsweredOnce' /\ Config!DataTyped' /\ Config!NeverInvalid'
    BY DEF CInv, Config!TypeOK, Config!WritePanics, Config!End, MadeFits, MadeLoaded,
       Config!AnsweredOnce, Config!DataTyped, Config!NeverInvalid
  <1>3. WrittenFirst' /\ ViewFits' /\ WarnsFits' /\ RecordFits' /\ OneFile'
    BY DEF CInv, Config!TypeOK, Config!WritePanics, Config!End, Config!Current, Config!OwnState,
       Config!System, WrittenFirst, ViewFits, WarnsFits, RecordFits, OneFile
  <1> QED
    BY <1>1, <1>2, <1>3 DEF CInv

\* From here on the record is that of the file.
LEMMA RecordConfig ==
    ASSUME CInv, Config!Record
    PROVE  CInv'
  <1>0. /\ tmpl \in Templates /\ tmpl # Config!None /\ tmpl.id \in Config!Ids /\ tmpl.format \in Formats
        /\ tmpl.id # "" /\ made # Config!None /\ made.from = tmpl.id
    BY ConfigFacts, NotNone DEF CInv, MadeFits, Config!Record, Config!ConfigAssumption, Config!Ids
  <1>1. Config!TypeOK'
    BY <1>0 DEF CInv, Config!TypeOK, Config!Record, Config!SetRecord
  <1>2. MadeFits' /\ MadeLoaded' /\ Config!AnsweredOnce' /\ Config!DataTyped' /\ Config!NeverInvalid'
    BY <1>0 DEF CInv, Config!TypeOK, Config!Record, Config!SetRecord, MadeFits, MadeLoaded,
       Config!AnsweredOnce, Config!DataTyped, Config!NeverInvalid
  <1>3. WrittenFirst' /\ WarnsFits' /\ OneFile'
    BY <1>0 DEF CInv, Config!TypeOK, Config!Record, Config!SetRecord, Config!Current, Config!OwnState,
       Config!System, WrittenFirst, WarnsFits, OneFile
  <1>4. ViewFits'
    BY <1>0 DEF CInv, Config!Record, Config!SetRecord, Config!OwnState, Config!System, Config!Current, ViewFits
  <1>5. RecordFits'
    <2>1. CASE Config!System(cmd) = "real"
      BY <1>0, <2>1 DEF CInv, WrittenFirst, Config!Record, Config!SetRecord, Config!OwnState, RecordFits
    <2>2. CASE Config!System(cmd) # "real"
      BY <2>2 DEF CInv, Config!Record, Config!SetRecord, Config!OwnState, RecordFits
    <2> QED
      BY <2>1, <2>2
  <1> QED
    BY <1>1, <1>2, <1>3, <1>4, <1>5 DEF CInv

\* What the file sets is in force.
LEMMA ReloadConfig ==
    ASSUME CInv, Config!Reload
    PROVE  CInv'
  <1>1. Config!TypeOK'
    <2>1. made.data \in Config!Values \cup {Config!NoValue} /\ made.set \in Settings \cup {Config!Unset}
      BY DEF CInv, MadeFits, Config!Reload, Config!Files
    <2>2. mem' \in Config!Memories
      <3>1. Config!ReadBack(tmpl.format, made.data) \in Config!Values \cup {Config!Unsigned, Config!NoValue}
        BY <2>1, ReadFits
      <3> QED
        BY <2>1, <3>1 DEF CInv, Config!TypeOK, Config!Reload, Config!Decoded, Config!Memories
    <2> QED
      BY <2>2 DEF CInv, Config!TypeOK, Config!Reload, Config!AfterCreate
  <1>2. MadeFits' /\ Config!AnsweredOnce' /\ Config!DataTyped' /\ Config!NeverInvalid'
    BY DEF CInv, Config!TypeOK, Config!Reload, Config!AfterCreate, MadeFits, Config!AnsweredOnce,
       Config!DataTyped, Config!NeverInvalid
  <1>3. MadeLoaded'
    <2>1. made.set # Config!Unset => mem'.set = made.set
      BY DEF CInv, Config!TypeOK, Config!Memories, Config!Reload, Config!Decoded
    <2> QED
      BY <2>1 DEF Config!Reload, Config!AfterCreate, MadeLoaded
  <1>4. WrittenFirst' /\ ViewFits' /\ WarnsFits' /\ RecordFits'
    BY DEF CInv, Config!TypeOK, Config!Reload, Config!AfterCreate, Config!Current, Config!OwnState,
       Config!System, WrittenFirst, ViewFits, WarnsFits, RecordFits
  <1>5. OneFile'
    <2>1. view' = Config!Current' /\ pc' # "clone"
      BY DEF CInv, ViewFits, Config!Reload, Config!AfterCreate, Config!Current
    <2> QED
      BY <2>1 DEF OneFile
  <1> QED
    BY <1>1, <1>2, <1>3, <1>4, <1>5 DEF CInv

LEMMA CheckConfig ==
    ASSUME CInv, Config!Check
    PROVE  CInv'
  <1>1. Config!TypeOK'
    BY DEF CInv, Config!TypeOK, Config!Check
  <1>2. MadeFits' /\ MadeLoaded' /\ Config!AnsweredOnce' /\ Config!DataTyped' /\ Config!NeverInvalid'
    BY DEF CInv, Config!TypeOK, Config!Check, MadeFits, MadeLoaded, Config!AnsweredOnce,
       Config!DataTyped, Config!NeverInvalid
  <1>3. WrittenFirst' /\ ViewFits' /\ WarnsFits' /\ RecordFits' /\ OneFile'
    BY DEF CInv, Config!TypeOK, Config!Check, Config!Current, Config!OwnState, Config!System,
       WrittenFirst, ViewFits, WarnsFits, RecordFits, OneFile
  <1> QED
    BY <1>1, <1>2, <1>3 DEF CInv

\* The record follows the template, and is no longer trusted.
LEMMA CheckForcedConfig ==
    ASSUME CInv, Config!CheckForced
    PROVE  CInv'
  <1>1. Config!TypeOK'
    <2>1. Config!Current \in Config!Ids \cup {""}
      BY DEF CInv, Config!TypeOK, Config!Current, Config!Ids
    <2> QED
      BY <2>1 DEF CInv, Config!TypeOK, Config!CheckForced, Config!SetRecord
  <1>2. MadeFits' /\ MadeLoaded' /\ Config!AnsweredOnce' /\ Config!DataTyped' /\ Config!NeverInvalid'
    BY DEF CInv, Config!TypeOK, Config!CheckForced, Config!SetRecord, MadeFits, MadeLoaded,
       Config!AnsweredOnce, Config!DataTyped, Config!NeverInvalid
  <1>3. WrittenFirst' /\ ViewFits' /\ WarnsFits' /\ RecordFits' /\ OneFile'
    BY DEF CInv, Config!TypeOK, Config!CheckForced, Config!SetRecord, Config!Current, Config!OwnState,
       Config!System, WrittenFirst, ViewFits, WarnsFits, RecordFits, OneFile
  <1> QED
    BY <1>1, <1>2, <1>3 DEF CInv

LEMMA ApplyConfig ==
    ASSUME CInv, Config!Apply
    PROVE  CInv'
  <1>1. Config!TypeOK'
    BY DEF CInv, Config!TypeOK, Config!Apply, Config!End
  <1>2. MadeFits' /\ MadeLoaded' /\ Config!AnsweredOnce' /\ Config!DataTyped' /\ Config!NeverInvalid'
    BY DEF CInv, Config!TypeOK, Config!Apply, Config!End, MadeFits, MadeLoaded, Config!AnsweredOnce,
       Config!DataTyped, Config!NeverInvalid
  <1>3. WrittenFirst' /\ ViewFits' /\ WarnsFits' /\ RecordFits' /\ OneFile'
    BY DEF CInv, Config!TypeOK, Config!Apply, Config!End, Config!Current, Config!OwnState,
       Config!System, WrittenFirst, ViewFits, WarnsFits, RecordFits, OneFile
  <1> QED
    BY <1>1, <1>2, <1>3 DEF CInv

LEMMA StopConfig ==
    ASSUME CInv, Config!Stop
    PROVE  CInv'
  <1>1. Config!TypeOK'
    <2>1. left' \in Config!Bounds
      <3>1. left \in Config!Bounds /\ left.stops > 0 /\ left' = [left EXCEPT !.stops = @ - 1]
        BY DEF CInv, Config!TypeOK, Config!Stop
      <3>2. left.stops - 1 \in 0 .. MaxStops
        BY <3>1, ConfigBounds DEF Config!Bounds
      <3> QED
        BY <3>1, <3>2 DEF Config!Bounds
    <2> QED
      BY <2>1 DEF CInv, Config!TypeOK, Config!Stop, Config!End
  <1>2. MadeFits' /\ MadeLoaded' /\ Config!AnsweredOnce' /\ Config!DataTyped' /\ Config!NeverInvalid'
    BY DEF CInv, Config!TypeOK, Config!Stop, Config!End, MadeFits, MadeLoaded, Config!AnsweredOnce,
       Config!DataTyped, Config!NeverInvalid
  <1>3. WrittenFirst' /\ ViewFits' /\ WarnsFits' /\ RecordFits' /\ OneFile'
    BY DEF CInv, Config!TypeOK, Config!Stop, Config!End, Config!Current, Config!OwnState, Config!System,
       WrittenFirst, ViewFits, WarnsFits, RecordFits, OneFile
  <1> QED
    BY <1>1, <1>2, <1>3 DEF CInv

LEMMA ChangeTemplateConfig ==
    ASSUME CInv, Config!ChangeTemplate
    PROVE  CInv'
  <1>1. Config!TypeOK'
    <2>1. left' \in Config!Bounds
      <3>1. left \in Config!Bounds /\ left.edits > 0 /\ left' = [left EXCEPT !.edits = @ - 1]
        BY DEF CInv, Config!TypeOK, Config!ChangeTemplate
      <3>2. left.edits - 1 \in 0 .. MaxEdits
        BY <3>1, ConfigBounds DEF Config!Bounds
      <3> QED
        BY <3>1, <3>2 DEF Config!Bounds
    <2> QED
      BY <2>1 DEF CInv, Config!TypeOK, Config!ChangeTemplate
  <1>2. MadeFits' /\ MadeLoaded' /\ Config!AnsweredOnce' /\ Config!DataTyped' /\ Config!NeverInvalid'
    BY DEF CInv, Config!TypeOK, Config!ChangeTemplate, MadeFits, MadeLoaded, Config!AnsweredOnce,
       Config!DataTyped, Config!NeverInvalid
  <1>3. WrittenFirst' /\ ViewFits' /\ WarnsFits' /\ RecordFits' /\ OneFile'
    BY DEF CInv, Config!TypeOK, Config!ChangeTemplate, Config!Current, Config!OwnState, Config!System,
       WrittenFirst, ViewFits, WarnsFits, RecordFits, OneFile
  <1> QED
    BY <1>1, <1>2, <1>3 DEF CInv

LEMMA RemoveFileConfig ==
    ASSUME CInv, Config!RemoveFile
    PROVE  CInv'
  <1>1. Config!TypeOK'
    BY DEF CInv, Config!TypeOK, Config!RemoveFile
  <1>2. MadeFits' /\ MadeLoaded' /\ Config!AnsweredOnce'
    BY DEF CInv, Config!TypeOK, Config!RemoveFile, MadeFits, MadeLoaded, Config!AnsweredOnce
  <1>3. Config!DataTyped'
    BY DEF CInv, Config!TypeOK, Config!RemoveFile, Config!DataTyped
  <1>4. Config!NeverInvalid'
    BY DEF CInv, Config!TypeOK, Config!RemoveFile, Config!NeverInvalid
  <1>5. WrittenFirst' /\ ViewFits' /\ WarnsFits' /\ RecordFits' /\ OneFile'
    BY DEF CInv, Config!TypeOK, Config!RemoveFile, Config!Current, Config!OwnState, Config!System,
       WrittenFirst, ViewFits, WarnsFits, RecordFits, OneFile
  <1> QED
    BY <1>1, <1>2, <1>3, <1>4, <1>5 DEF CInv

LEMMA ConfigStep == ConfigInv /\ [Next]_commandsVars => ConfigInv'
  <1> SUFFICES ASSUME ConfigInv, [Next]_commandsVars, part' = "config" PROVE CInv'
    BY DEF ConfigInv
  <1>1. part = "config" /\ CInv /\ (Config!Next \/ UNCHANGED Config!configVars)
    BY DEF ConfigInv, Next, TargetNext, EditorNext, RepoNext, ConfigNext, commandsVars, configVars,
           Config!configVars
  <1>2. CASE UNCHANGED Config!configVars
    <2>1. Config!TypeOK'
      <3>1. /\ tmpl' = tmpl /\ repo' = repo /\ git' = git /\ files' = files /\ recorded' = recorded
            /\ cmd' = cmd /\ pc' = pc /\ mem' = mem /\ view' = view /\ made' = made /\ warned' = warned
            /\ left' = left /\ trust' = trust /\ outcome' = outcome
        BY <1>2 DEF Config!configVars
      <3>2. Config!TypeOK
        BY <1>1 DEF CInv
      <3>3. /\ tmpl' \in Templates \cup {Config!None} /\ repo' \in Templates \cup {Config!None}
            /\ git' \in BOOLEAN /\ files' \in [Formats -> Config!Files \cup {Config!None}]
            /\ recorded' \in Config!Ids \cup {""} /\ view' \in Config!Ids \cup {""}
            /\ cmd' \in ConfigCommands \cup {Config!NoCommand} /\ mem' \in Config!Memories
            /\ made' \in Config!Files \cup {Config!None} /\ left' \in Config!Bounds
            /\ warned' \in BOOLEAN /\ trust' \in BOOLEAN
        BY <3>1, <3>2, Zenon DEF Config!TypeOK
      <3>4. /\ pc' \in {"idle", "clone", "create", "write", "record", "reload", "check", "apply"}
            /\ outcome' \in {"none", "ok", "failed", "panic"}
        BY <3>1, <3>2, Zenon DEF Config!TypeOK
      <3> QED
        BY <3>3, <3>4, Zenon DEF Config!TypeOK
    <2>0. WarnsFits' /\ RecordFits'
      BY <1>1, <1>2 DEF Config!configVars, CInv, WarnsFits, RecordFits, Config!Current
    <2>2. MadeFits' /\ MadeLoaded' /\ Config!AnsweredOnce' /\ Config!DataTyped' /\ Config!NeverInvalid'
      BY <1>1, <1>2 DEF Config!configVars, CInv, MadeFits, MadeLoaded, Config!AnsweredOnce,
         Config!DataTyped, Config!NeverInvalid
    <2>3. WrittenFirst' /\ ViewFits' /\ OneFile'
      BY <1>1, <1>2 DEF Config!configVars, CInv, WrittenFirst, ViewFits, OneFile, Config!Current
    <2> QED
      BY <2>0, <2>1, <2>2, <2>3 DEF CInv
  <1>3. CASE Config!Next
    BY <1>1, <1>3, BeginConfig, CloneConfig, NoTemplateConfig, ExecuteConfig, ExecuteFailsConfig,
       WriteConfig, WritePanicsConfig, RecordConfig, ReloadConfig, CheckConfig, CheckForcedConfig,
       ApplyConfig, StopConfig, ChangeTemplateConfig, RemoveFileConfig
       DEF Config!Next
  <1> QED
    BY <1>1, <1>2, <1>3

LEMMA ConfigInvariant == Spec => []ConfigInv
  <1>1. Init => ConfigInv
    BY ConfigInit DEF Init, ConfigInv
  <1> QED
    BY <1>1, ConfigStep, PTL DEF Spec

\* Whatever templates there are and come, and however commands stop in between,
\* the config file is valid and what its template and the user's answers make
\* it, what was answered is kept when it is read back with the type it has, and
\* apply warns of a template that the file was not made from, and of no other
\* (createAndReloadConfigFile, applyArgs).
THEOREM ConfigIsTrusted == Spec => []ConfigTrusted
  <1>1. ConfigInv => ConfigTrusted
    <2> SUFFICES ASSUME CInv PROVE Config!ConfigTrusted
      BY DEF ConfigInv, ConfigTrusted
    <2>1. Config!SilentIsCurrent
      BY ConfigFacts DEF CInv, Config!TypeOK, ViewFits, WarnsFits, RecordFits, Config!OwnState, Config!Current,
         Config!ConfigAssumption, Config!SilentIsCurrent
    <2>2. Config!WarnedIsStale
      BY ConfigFacts DEF CInv, Config!TypeOK, ViewFits, WarnsFits, RecordFits, OneFile, Config!Current,
         Config!ConfigAssumption, Config!WarnedIsStale
    <2>3. Config!AppliesAsWritten
      BY DEF CInv, MadeLoaded, Config!AppliesAsWritten
    <2> QED
      BY <2>1, <2>2, <2>3 DEF CInv, Config!ConfigTrusted
  <1> QED
    BY <1>1, ConfigInvariant, PTL

-----------------------------------------------------------------------------
(* The editor.                                                             *)

\* A process that encrypts or writes is at an encrypted file, which edit found changed.
AtEncrypted ==
    \A p \in Editor!Process : pc[p] \in {"encrypt", "write"} =>
        /\ at[p] \in DOMAIN open /\ open[at[p]].kind = "encrypted"
        /\ cmd.name = "edit" => open[at[p]].f \in saved
        /\ pc[p] = "write" => got[p][open[at[p]].f] \in Texts

\* There is a watcher only when edit is to watch files.
WatcherOff == ~Editor!Watches => pc["watcher"] = "off"

\* edit and edit-encrypted open their files once, before which nothing happens.
OpensOnce ==
    /\ ~Editor!Merges /\ pc["main"] = "next" => open = <<>> /\ outside = Editor!Unread
    /\ ~Editor!Merges /\ pc["main"] # "next" => left.files = <<>>

\* The copy of an encrypted file is as it was until the tool saves it.
CopiesFit ==
    \A e \in Editor!Given : e.kind = "encrypted" =>
        /\ copy[e.f] \in Texts
        /\ e.f \notin saved => copy[e.f] = before[e.f]

\* While the tool runs, and after it has failed, no copy is written back.
NotYetWritten ==
    /\ ~cmd.watch /\ (pc["main"] = "tool" \/ failed = "tool") =>
          \A e \in Editor!Given :
              e.kind = "encrypted" => source[e.f] = before[e.f] \/ outside[e.f] # Editor!None
    /\ failed # "" => pc["main"] = "end"

\* The files up to the k-th are what their copies are.
LandedTo(k) ==
    \A j \in 1 .. k : open[j].kind = "encrypted" =>
        source[open[j].f] = copy[open[j].f] \/ outside[open[j].f] # Editor!None

\* Behind the command's place in the list every copy is written back.
LandedSoFar ==
    ~cmd.watch =>
        /\ pc["main"] \in {"check", "encrypt", "write"} => LandedTo(at["main"] - 1)
        /\ pc["main"] = "write" => got["main"][open[at["main"]].f] = copy[open[at["main"]].f]
        /\ pc["main"] \in {"reset", "read", "apply"} => LandedTo(Len(open))

\* A command that the watcher leaves alone applies what it has read anew.
ReadAnew ==
    ~raced /\ failed = "" =>
        /\ pc["main"] \notin {"next", "tool"} => pc["watcher"] \in {"off", "wait"}
        /\ pc["main"] = "read" => cached = Editor!Unread
        /\ pc["main"] = "apply" =>
              \A f \in Editor!Files : got["main"][f] = source[f] \/ outside[f] # Editor!None

\* What a process applies it has read as a whole.
ReadWhole ==
    /\ cached \in [Editor!Files -> Texts] \cup {Editor!Unread}
    /\ \A p \in Editor!Process : pc[p] = "apply" => got[p] \in [Editor!Files -> Texts]

EInv ==
    /\ Editor!TypeOK /\ AtEncrypted /\ WatcherOff /\ OpensOnce /\ CopiesFit /\ NotYetWritten
    /\ LandedSoFar /\ ReadAnew /\ ReadWhole /\ Editor!EditsKept /\ Editor!LeftAlone /\ Editor!AppliedIsEdited

EditorInv == part = "editor" => EInv

LEMMA EditorFacts == Editor!EditAssumption
  BY CommandsAssumption

\* What is open is a list of files, all different or all alike.
OpenFits ==
    /\ Len(open) \in Nat /\ DOMAIN open = 1 .. Len(open)
    /\ \A k \in 1 .. Len(open) : open[k] \in Editor!Given /\ open[k] \in Editor!Entries
    /\ \A e \in Editor!Given : e \in Editor!Entries /\ e.f \in Editor!Files /\ e \in Editor!Listed(cmd.files) /\ \E k \in 1 .. Len(open) : e = open[k]
    /\ \A e, d \in Editor!Given : e.f = d.f => e = d
    /\ cmd.files = <<>> \/ open = <<>> => Len(open) = 0 /\ DOMAIN open = {}
    /\ 1 \in 1 .. Len(open) + 1
    /\ \A p \in Editor!Process : at[p] \in 1 .. Len(open) + 1 /\ at[p] - 1 \in 0 .. Len(open)

LEMMA OpenIsFit ==
    ASSUME Editor!TypeOK
    PROVE  OpenFits
  <1>1. /\ cmd.files \in Seq(Editor!Entries)
        /\ \A j, k \in DOMAIN cmd.files : cmd.files[j].f = cmd.files[k].f => cmd.files[j] = cmd.files[k]
    BY EditorFacts DEF Editor!EditAssumption, Editor!TypeOK
  <1>2. \A e \in Editor!Listed(cmd.files) : e \in Editor!Entries
    BY <1>1 DEF Editor!Listed
  <1>3. \A e, d \in Editor!Listed(cmd.files) : e.f = d.f => e = d
    BY <1>1 DEF Editor!Listed
  <1>4. open \in Seq(Editor!Listed(cmd.files))
    BY DEF Editor!TypeOK
  <1>5. Len(open) \in Nat /\ DOMAIN open = 1 .. Len(open)
    BY <1>4
  <1>6. \A k \in 1 .. Len(open) : open[k] \in Editor!Listed(cmd.files)
    BY <1>4
  <1>7. \A e \in Editor!Given : e \in Editor!Listed(cmd.files) /\ \E k \in 1 .. Len(open) : e = open[k]
    BY <1>5, <1>6 DEF Editor!Given, Editor!Listed
  <1>8. \A k \in 1 .. Len(open) : open[k] \in Editor!Given
    BY <1>5 DEF Editor!Given, Editor!Listed
  <1>9. cmd.files = <<>> => Len(open) = 0
    BY <1>5, <1>6 DEF Editor!Listed
  <1>10. \A p \in Editor!Process : at[p] \in 1 .. Len(open) + 1
    BY DEF Editor!TypeOK
  <1>11. \A p \in Editor!Process : at[p] - 1 \in 0 .. Len(open)
    BY <1>5, <1>10
  <1>12. 1 \in 1 .. Len(open) + 1
    BY <1>5
  <1>13. open = <<>> => Len(open) = 0
    OBVIOUS
  <1>14. Len(open) = 0 => DOMAIN open = {}
    BY <1>5
  <1> QED
    BY <1>2, <1>3, <1>5, <1>6, <1>7, <1>8, <1>9, <1>10, <1>11, <1>12, <1>13, <1>14 DEF OpenFits, Editor!Entries

\* Only edit watches and applies.
LEMMA OnlyEdit ==
    ASSUME Editor!TypeOK
    PROVE  cmd.watch \/ cmd.apply => cmd.name = "edit"
  BY EditorFacts DEF Editor!EditAssumption, Editor!TypeOK

\* What is left of the bounds.
LEMMA LeftKeeps ==
    ASSUME NEW list, NEW l \in Editor!Bounds(list)
    PROVE  /\ l.saves > 0 => /\ [l EXCEPT !.saves = @ - 1] \in Editor!Bounds(list)
                             /\ [l EXCEPT !.saves = @ - 1].files = l.files
           /\ l.faults > 0 => /\ [l EXCEPT !.faults = @ - 1] \in Editor!Bounds(list)
                              /\ [l EXCEPT !.faults = @ - 1].files = l.files
           /\ l.outside > 0 => /\ [l EXCEPT !.outside = @ - 1] \in Editor!Bounds(list)
                               /\ [l EXCEPT !.outside = @ - 1].files = l.files
  <1>1. MaxSaves \in Nat /\ MaxFaults \in Nat /\ MaxOutside \in Nat
    BY EditorFacts DEF Editor!EditAssumption
  <1>2. /\ l.saves > 0 => l.saves - 1 \in 0 .. MaxSaves
        /\ l.faults > 0 => l.faults - 1 \in 0 .. MaxFaults
        /\ l.outside > 0 => l.outside - 1 \in 0 .. MaxOutside
    BY <1>1 DEF Editor!Bounds
  <1> QED
    BY <1>2 DEF Editor!Bounds

\* A sequence is one of its own elements.
LEMMA ListedFits ==
    ASSUME NEW S, NEW seq \in Seq(S)
    PROVE  seq \in Seq(Editor!Listed(seq))
  <1>1. \A k \in 1 .. Len(seq) : seq[k] \in Editor!Listed(seq)
    BY DEF Editor!Listed
  <1>2. Len(seq) \in Nat /\ seq \in [1 .. Len(seq) -> S]
    OBVIOUS
  <1>3. seq \in [1 .. Len(seq) -> Editor!Listed(seq)]
    BY <1>1, <1>2
  <1> QED
    BY <1>2, <1>3

LEMMA EditorInit == Editor!Init => EInv
  <1> SUFFICES ASSUME Editor!Init PROVE EInv
    OBVIOUS
  <1>1. cmd \in Sessions /\ cmd.files \in Seq(Editor!Entries) /\ open = <<>>
    BY EditorFacts DEF Editor!Init, Editor!EditAssumption
  <1>2. cmd.files \in Seq(Editor!Listed(cmd.files)) /\ open \in Seq(Editor!Listed(cmd.files)) /\ Len(open) = 0
    BY <1>1, ListedFits
  <1>3. left \in Editor!Bounds(cmd.files)
    <2>1. /\ left = [saves |-> MaxSaves, faults |-> MaxFaults, outside |-> MaxOutside, files |-> cmd.files,
                     wanted |-> {f \in Editor!Files : source[f] # target[f]}]
          /\ MaxSaves \in Nat /\ MaxFaults \in Nat /\ MaxOutside \in Nat
      BY EditorFacts DEF Editor!Init, Editor!EditAssumption
    <2> QED
      BY <1>2, <2>1 DEF Editor!Bounds
  <1>4. Editor!Unread \in Editor!Maybe
    BY DEF Editor!Unread, Editor!Maybe
  <1>5. pc \in [Editor!Process -> Editor!Places] /\ pc["main"] = "next" /\ pc["watcher"] = "off"
    BY DEF Editor!Init, Editor!Process, Editor!Places
  <1>6. at = [p \in Editor!Process |-> 1] /\ got = [p \in Editor!Process |-> Editor!Unread]
    BY DEF Editor!Init
  <1>7. at \in [Editor!Process -> 1 .. Len(open) + 1] /\ got \in [Editor!Process -> Editor!Maybe]
    BY <1>2, <1>4, <1>6
  <1>8. Editor!TypeOK
    <2>1. events \in 0..1
      <3>1. events = 0
        BY DEF Editor!Init
      <3> QED
        BY <3>1
    <2>3. saved \subseteq Editor!Files /\ raced \in BOOLEAN /\ failed \in {"", "tool", "encrypt"}
      BY Zenon DEF Editor!Init
    <2>2. /\ source \in [Editor!Files -> Texts] /\ target \in [Editor!Files -> Texts]
          /\ copy \in Editor!Maybe /\ before \in Editor!Maybe /\ cached \in Editor!Maybe /\ outside \in Editor!Maybe
      BY <1>4 DEF Editor!Init
    <2> QED
      BY <1>1, <1>2, <1>3, <1>5, <1>7, <2>1, <2>2, <2>3 DEF Editor!TypeOK
  <1>12. ReadWhole
    BY <1>5 DEF Editor!Init, ReadWhole, Editor!Process
  <1>9. AtEncrypted /\ WatcherOff /\ OpensOnce /\ NotYetWritten
    BY <1>5 DEF Editor!Init, AtEncrypted, WatcherOff, OpensOnce, NotYetWritten, Editor!Process
  <1>10. CopiesFit /\ LandedSoFar /\ ReadAnew
    BY <1>1, <1>5 DEF CopiesFit, LandedSoFar, ReadAnew, Editor!Given, Editor!Listed
  <1>11. Editor!EditsKept /\ Editor!LeftAlone /\ Editor!AppliedIsEdited
    BY <1>5 DEF Editor!Init, Editor!EditsKept, Editor!LeftAlone, Editor!AppliedIsEdited, Editor!Closed
  <1> QED
    BY <1>8, <1>9, <1>10, <1>11, <1>12 DEF EInv

\* The tool starts: the copies are the files as they are.
LEMMA OpenEditor ==
    ASSUME EInv, pc["main"] = "next",
           NEW now \in Seq(Editor!Listed(cmd.files)), NEW later \in Seq(Editor!Listed(cmd.files)),
           ~Editor!Merges => later = <<>>, Editor!Open(now, later)
    PROVE  EInv'
  <1>1. /\ open' = now /\ pc'["main"] = "tool" /\ pc'["watcher"] \in {"off", "wait"} /\ (~Editor!Watches => pc'["watcher"] = "off")
        /\ pc' \in [Editor!Process -> Editor!Places] /\ UNCHANGED <<cmd, source, target, got, cached, events, saved, outside, raced, failed>>
    BY DEF Editor!Open, Editor!Process, Editor!Places
  <1>2. failed = "" /\ (~Editor!Merges => outside = Editor!Unread)
    BY DEF EInv, NotYetWritten, OpensOnce
  <1>3. \A e \in Editor!Listed(cmd.files) : e \in Editor!Entries /\ e.f \in Editor!Files
    <2>1. cmd.files \in Seq(Editor!Entries)
      BY EditorFacts DEF EInv, Editor!TypeOK, Editor!EditAssumption
    <2>2. \A e \in Editor!Listed(cmd.files) : e \in Editor!Entries
      BY <2>1 DEF Editor!Listed
    <2> QED
      BY <2>2 DEF Editor!Entries
  <1>4. \A e \in Editor!Listed(now) : e \in Editor!Listed(cmd.files)
    BY DEF Editor!Listed
  <1>5. /\ \A e \in Editor!Listed(now) : before'[e.f] = source[e.f] /\ source[e.f] \in Texts
        /\ \A e \in Editor!Listed(now) : e.kind = "encrypted" => copy'[e.f] = source[e.f]
    BY <1>3, <1>4 DEF EInv, Editor!TypeOK, Editor!Open
  <1>6. left' \in Editor!Bounds(cmd.files) /\ left'.files = later
    BY DEF EInv, Editor!TypeOK, Editor!Open, Editor!Bounds
  <1>7. Editor!TypeOK'
    <2>1. copy' \in Editor!Maybe /\ before' \in Editor!Maybe
      BY DEF EInv, Editor!TypeOK, Editor!Open, Editor!Maybe
    <2>2. at' \in [Editor!Process -> 1 .. Len(open') + 1]
      <3>1. Len(now) \in Nat /\ 1 \in 1 .. Len(now) + 1
        OBVIOUS
      <3> QED
        BY <1>1, <3>1 DEF Editor!Open
    <2> QED
      BY <1>1, <1>6, <2>1, <2>2 DEF EInv, Editor!TypeOK
  <1>8. AtEncrypted' /\ WatcherOff' /\ OpensOnce' /\ LandedSoFar' /\ ReadAnew'
    BY <1>1, <1>6 DEF AtEncrypted, WatcherOff, OpensOnce, LandedSoFar, ReadAnew, Editor!Watches, Editor!Merges,
           Editor!Process
  <1>9. CopiesFit' /\ NotYetWritten' /\ ReadWhole'
    BY <1>1, <1>2, <1>5 DEF EInv, CopiesFit, NotYetWritten, ReadWhole, Editor!Given, Editor!Process
  <1>10. Editor!EditsKept' /\ Editor!AppliedIsEdited'
    BY <1>1 DEF Editor!EditsKept, Editor!AppliedIsEdited, Editor!Closed
  <1>11. Editor!LeftAlone'
    BY <1>1, <1>2, <1>3, <1>4, <1>5 DEF Editor!LeftAlone, Editor!Given, Editor!Merges, Editor!Unread
  <1> QED
    BY <1>7, <1>8, <1>9, <1>10, <1>11 DEF EInv

LEMMA StartsEditor ==
    ASSUME EInv, Editor!StartEditor \/ Editor!StartMerge
    PROVE  EInv'
  <1>1. left.files \in Seq(Editor!Listed(cmd.files))
    BY DEF EInv, Editor!TypeOK, Editor!Bounds
  <1>2. CASE Editor!StartEditor
    <2>1. <<>> \in Seq(Editor!Listed(cmd.files))
      OBVIOUS
    <2> QED
      BY <1>1, <1>2, <2>1, OpenEditor DEF Editor!StartEditor
  <1>3. CASE Editor!StartMerge
    <2>1. PICK k \in DOMAIN left.files :
            Editor!Open(<<left.files[k]>>, SubSeq(left.files, k + 1, Len(left.files)))
      BY <1>3 DEF Editor!StartMerge
    <2>2. k \in 1 .. Len(left.files) /\ Len(left.files) \in Nat
      BY <1>1, <2>1
    <2>3. <<left.files[k]>> \in Seq(Editor!Listed(cmd.files))
      BY <1>1, <2>2
    <2>4. SubSeq(left.files, k + 1, Len(left.files)) \in Seq(Editor!Listed(cmd.files))
      BY <1>1, <2>2
    <2> QED
      BY <1>3, <2>1, <2>3, <2>4, OpenEditor DEF Editor!StartMerge
  <1> QED
    BY <1>2, <1>3

LEMMA SaveEditor ==
    ASSUME EInv, Editor!Save
    PROVE  EInv'
  <1>0. OpenFits /\ Editor!TypeOK
    BY OpenIsFit DEF EInv
  <1>a. PICK e \in Editor!Given, text \in Texts, byRename \in BOOLEAN :
          /\ \/ copy' = [copy EXCEPT ![e.f] = text] /\ source' = source
             \/ source' = [source EXCEPT ![e.f] = text] /\ copy' = copy /\ e.kind # "encrypted"
          /\ saved' = saved \cup {e.f}
    BY DEF Editor!Save
  <1>b. left' \in Editor!Bounds(cmd.files) /\ left'.files = left.files
    BY <1>0, LeftKeeps DEF Editor!TypeOK, Editor!Save
  <1>1. Editor!TypeOK'
    <2>1. e.f \in Editor!Files
      BY <1>0, <1>a DEF OpenFits
    <2>2. source' \in [Editor!Files -> Texts]
      BY <1>0, <1>a, <2>1 DEF Editor!TypeOK
    <2>3. copy' \in Editor!Maybe
      BY <1>0, <1>a, <2>1 DEF Editor!TypeOK, Editor!Maybe
    <2>4. saved' \subseteq Editor!Files
      BY <1>0, <1>a, <2>1 DEF Editor!TypeOK
    <2>5. events' \in 0..1
      BY DEF Editor!Save
    <2> QED
      BY <1>0, <1>b, <2>1, <2>2, <2>3, <2>4, <2>5 DEF Editor!TypeOK, Editor!Save
  <1>2. CopiesFit'
    BY <1>0, <1>a DEF OpenFits, EInv, CopiesFit, Editor!Save, Editor!Given, Editor!TypeOK, Editor!Maybe
  <1>3. NotYetWritten'
    BY <1>0, <1>a DEF OpenFits, EInv, NotYetWritten, Editor!Save, Editor!Given, Editor!TypeOK
  <1>4. AtEncrypted' /\ WatcherOff' /\ OpensOnce' /\ ReadWhole'
    BY <1>0, <1>b DEF OpenFits, EInv, Editor!TypeOK, Editor!Save, AtEncrypted, WatcherOff, Editor!Watches, OpensOnce,
       Editor!Merges, ReadWhole, Editor!Process
  <1>5. LandedSoFar' /\ ReadAnew'
    BY <1>0 DEF OpenFits, EInv, Editor!TypeOK, Editor!Save, LandedSoFar, LandedTo, ReadAnew, Editor!Process
  <1>6. Editor!LeftAlone'
    BY <1>0, <1>a DEF OpenFits, EInv, Editor!LeftAlone, Editor!Save, Editor!Given, Editor!TypeOK
  <1>7. Editor!EditsKept' /\ Editor!AppliedIsEdited'
    BY <1>0 DEF OpenFits, EInv, Editor!TypeOK, Editor!Save, Editor!EditsKept, Editor!Closed, Editor!Encrypted,
       Editor!Reached, Editor!AppliedIsEdited, Editor!Given, Editor!Watches, Editor!Process
  <1> QED
    BY <1>1, <1>2, <1>3, <1>4, <1>5, <1>6, <1>7 DEF EInv

LEMMA ChangeOutsideEditor ==
    ASSUME EInv, Editor!ChangeOutside
    PROVE  EInv'
  <1>0. OpenFits /\ Editor!TypeOK
    BY OpenIsFit DEF EInv
  <1>a. PICK f \in Editor!Files, text \in Texts :
          source' = [source EXCEPT ![f] = text] /\ outside' = [outside EXCEPT ![f] = text]
    BY DEF Editor!ChangeOutside
  <1>b. left' \in Editor!Bounds(cmd.files) /\ left'.files = left.files
    BY <1>0, LeftKeeps DEF Editor!TypeOK, Editor!ChangeOutside
  <1>c. /\ \A g \in Editor!Files : outside'[g] = Editor!None => source'[g] = source[g] /\ outside[g] = Editor!None
        /\ source'[f] = outside'[f] /\ outside'[f] # Editor!None
        /\ \A g \in Editor!Files \ {f} : source'[g] = source[g] /\ outside'[g] = outside[g]
    BY <1>0, <1>a, EditorFacts DEF Editor!EditAssumption, Editor!TypeOK, Editor!Maybe
  <1>1. Editor!TypeOK'
    <2>1. source' \in [Editor!Files -> Texts] /\ outside' \in Editor!Maybe
      BY <1>0, <1>a DEF Editor!TypeOK, Editor!Maybe
    <2> QED
      BY <1>0, <1>b, <2>1 DEF Editor!TypeOK, Editor!ChangeOutside
  <1>2. NotYetWritten'
    BY <1>0, <1>c DEF OpenFits, EInv, NotYetWritten, Editor!ChangeOutside, Editor!Given
  <1>3. AtEncrypted' /\ WatcherOff' /\ OpensOnce' /\ CopiesFit' /\ ReadWhole'
    BY <1>0, <1>b DEF OpenFits, EInv, Editor!TypeOK, Editor!ChangeOutside, AtEncrypted, WatcherOff, Editor!Watches,
       OpensOnce, Editor!Merges, CopiesFit, Editor!Given, ReadWhole, Editor!Process
  <1>4. LandedSoFar'
    <2>1. ASSUME NEW k \in 0 .. Len(open), LandedTo(k) PROVE LandedTo(k)'
      BY <1>0, <1>c, <2>1 DEF OpenFits, LandedTo, Editor!ChangeOutside
    <2>2. at["main"] - 1 \in 0 .. Len(open) /\ Len(open) \in 0 .. Len(open)
      BY <1>0 DEF OpenFits, Editor!Process
    <2> QED
      BY <2>1, <2>2 DEF EInv, LandedSoFar, Editor!ChangeOutside
  <1>5. ReadAnew'
    BY <1>0, <1>c DEF EInv, ReadAnew, Editor!ChangeOutside
  <1>6. Editor!EditsKept'
    BY <1>0, <1>c DEF OpenFits, EInv, Editor!EditsKept, Editor!ChangeOutside, Editor!Closed, Editor!Encrypted, Editor!Reached
  <1>7. Editor!LeftAlone'
    BY <1>0, <1>c DEF OpenFits, EInv, Editor!LeftAlone, Editor!ChangeOutside, Editor!Given
  <1>8. Editor!AppliedIsEdited'
    BY <1>0, <1>c DEF EInv, Editor!AppliedIsEdited, Editor!ChangeOutside, Editor!Given, Editor!Watches,
           Editor!Reached, Editor!Encrypted
  <1> QED
    BY <1>1, <1>2, <1>3, <1>4, <1>5, <1>6, <1>7, <1>8 DEF EInv

LEMMA ToolFailsEditor ==
    ASSUME EInv, Editor!ToolFails
    PROVE  EInv'
  <1>0. OpenFits /\ Editor!TypeOK
    BY OpenIsFit DEF EInv
  <1>b. left' \in Editor!Bounds(cmd.files) /\ left'.files = left.files
    BY <1>0, LeftKeeps DEF Editor!TypeOK, Editor!ToolFails
  <1>1. Editor!TypeOK'
    <2>1. /\ pc' \in [Editor!Process -> Editor!Places]
          /\ pc'["main"] \notin {"off", "wait"} /\ pc'["watcher"] \notin {"next", "tool", "end"}
      BY <1>0 DEF Editor!TypeOK, Editor!ToolFails, Editor!Process, Editor!Places
    <2> QED
      BY <1>0, <1>b, <2>1 DEF Editor!TypeOK, Editor!ToolFails
  <1>2. AtEncrypted' /\ WatcherOff' /\ OpensOnce' /\ CopiesFit' /\ NotYetWritten' /\ ReadWhole'
    BY <1>0, <1>b DEF OpenFits, EInv, Editor!TypeOK, Editor!ToolFails, AtEncrypted, WatcherOff, Editor!Watches,
       OpensOnce, Editor!Merges, CopiesFit, Editor!Given, NotYetWritten, ReadWhole, Editor!Process
  <1>3. LandedSoFar' /\ ReadAnew'
    BY <1>0 DEF OpenFits, EInv, Editor!TypeOK, Editor!ToolFails, LandedSoFar, LandedTo, ReadAnew, Editor!Process
  <1>4. Editor!EditsKept' /\ Editor!LeftAlone' /\ Editor!AppliedIsEdited'
    BY <1>0 DEF OpenFits, EInv, Editor!TypeOK, Editor!ToolFails, Editor!EditsKept, Editor!Closed, Editor!Encrypted,
       Editor!Reached, Editor!LeftAlone, Editor!Given, Editor!AppliedIsEdited, Editor!Watches, Editor!Process
  <1> QED
    BY <1>1, <1>2, <1>3, <1>4 DEF EInv

LEMMA ToolEndsEditor ==
    ASSUME EInv, Editor!ToolEnds
    PROVE  EInv'
  <1>0. OpenFits /\ Editor!TypeOK
    BY OpenIsFit DEF EInv
  <1>1. Editor!TypeOK'
    <2>1. /\ pc' \in [Editor!Process -> Editor!Places]
          /\ pc'["main"] \notin {"off", "wait"} /\ pc'["watcher"] \notin {"next", "tool", "end"}
      BY <1>0 DEF Editor!TypeOK, Editor!ToolEnds, Editor!Process, Editor!Places
    <2>2. at' \in [Editor!Process -> 1 .. Len(open) + 1]
      BY <1>0 DEF OpenFits, Editor!TypeOK, Editor!ToolEnds, Editor!Process
    <2> QED
      BY <1>0, <2>1, <2>2 DEF Editor!TypeOK, Editor!ToolEnds
  <1>2. AtEncrypted' /\ WatcherOff' /\ OpensOnce' /\ CopiesFit' /\ NotYetWritten' /\ ReadWhole'
    BY <1>0 DEF OpenFits, EInv, Editor!TypeOK, Editor!ToolEnds, AtEncrypted, WatcherOff, Editor!Watches, OpensOnce,
       Editor!Merges, CopiesFit, Editor!Given, NotYetWritten, ReadWhole, Editor!Process
  <1>3. LandedSoFar'
    <2>1. pc'["main"] \in {"check", "reset", "end"} /\ at'["main"] = 1 /\ open' = open
      BY <1>0 DEF Editor!TypeOK, Editor!ToolEnds, Editor!Process
    <2>2. pc'["main"] = "reset" => Len(open) = 0
      BY <1>0 DEF OpenFits, Editor!TypeOK, Editor!ToolEnds, Editor!Process
    <2>3. LandedTo(0)'
      BY DEF LandedTo
    <2> QED
      BY <2>1, <2>2, <2>3 DEF LandedSoFar
  <1>4. ReadAnew'
    BY <1>0 DEF OpenFits, EInv, Editor!TypeOK, Editor!ToolEnds, ReadAnew, Editor!Process
  <1>5. Editor!EditsKept'
    <2>1. pc'["main"] = "end" => DOMAIN open' = {}
      BY <1>0 DEF OpenFits, Editor!TypeOK, Editor!ToolEnds, Editor!Process
    <2>2. pc'["main"] \in {"check", "reset", "end"}
      BY <1>0 DEF Editor!TypeOK, Editor!ToolEnds, Editor!Process
    <2> QED
      BY <2>1, <2>2 DEF Editor!EditsKept, Editor!Closed
  <1>6. Editor!LeftAlone' /\ Editor!AppliedIsEdited'
    BY <1>0 DEF OpenFits, EInv, Editor!TypeOK, Editor!ToolEnds, Editor!LeftAlone, Editor!Given,
       Editor!AppliedIsEdited, Editor!Watches, Editor!Reached, Editor!Encrypted, Editor!Process
  <1> QED
    BY <1>1, <1>2, <1>3, <1>4, <1>5, <1>6 DEF EInv

LEMMA WatcherWakesEditor ==
    ASSUME EInv, Editor!WatcherWakes
    PROVE  EInv'
  <1>0. OpenFits /\ Editor!TypeOK
    BY OpenIsFit DEF EInv
  <1>1. Editor!TypeOK'
    <2>1. /\ pc' \in [Editor!Process -> Editor!Places]
          /\ pc'["main"] \notin {"off", "wait"} /\ pc'["watcher"] \notin {"next", "tool", "end"}
      BY <1>0 DEF Editor!TypeOK, Editor!WatcherWakes, Editor!Process, Editor!Places
    <2>2. at' \in [Editor!Process -> 1 .. Len(open) + 1]
      BY <1>0 DEF OpenFits, Editor!TypeOK, Editor!WatcherWakes, Editor!Process
    <2>3. raced' \in BOOLEAN
      BY DEF Editor!WatcherWakes
    <2>4. events' \in 0..1
      BY DEF Editor!WatcherWakes
    <2> QED
      BY <1>0, <2>1, <2>2, <2>3, <2>4 DEF Editor!TypeOK, Editor!WatcherWakes
  <1>2. AtEncrypted' /\ WatcherOff' /\ OpensOnce' /\ CopiesFit' /\ NotYetWritten' /\ ReadWhole'
    BY <1>0 DEF OpenFits, EInv, Editor!TypeOK, Editor!WatcherWakes, AtEncrypted, WatcherOff, Editor!Watches,
       OpensOnce, Editor!Merges, CopiesFit, Editor!Given, NotYetWritten, ReadWhole, Editor!Process
  <1>3. LandedSoFar' /\ ReadAnew'
    BY <1>0 DEF OpenFits, EInv, Editor!TypeOK, Editor!WatcherWakes, LandedSoFar, LandedTo, ReadAnew, Editor!Process
  <1>4. Editor!EditsKept' /\ Editor!LeftAlone' /\ Editor!AppliedIsEdited'
    BY <1>0 DEF OpenFits, EInv, Editor!TypeOK, Editor!WatcherWakes, Editor!EditsKept, Editor!Closed,
       Editor!Encrypted, Editor!Reached, Editor!LeftAlone, Editor!Given, Editor!AppliedIsEdited, Editor!Watches,
       Editor!Process
  <1> QED
    BY <1>1, <1>2, <1>3, <1>4 DEF EInv

LEMMA NothingEditor ==
    ASSUME EInv, Editor!Nothing
    PROVE  EInv'
  <1>0. OpenFits /\ Editor!TypeOK
    BY OpenIsFit DEF EInv
  <1>1. Editor!TypeOK'
    BY <1>0 DEF OpenFits, EInv, Editor!TypeOK, Editor!Nothing, Editor!Merges, Editor!Process, Editor!Places
  <1>2. AtEncrypted' /\ WatcherOff' /\ OpensOnce' /\ CopiesFit' /\ NotYetWritten' /\ ReadWhole'
    BY <1>0 DEF OpenFits, EInv, Editor!TypeOK, Editor!Nothing, AtEncrypted, Editor!Merges, WatcherOff,
       Editor!Watches, OpensOnce, CopiesFit, Editor!Given, NotYetWritten, ReadWhole, Editor!Process
  <1>3. ReadAnew'
    BY <1>0, OnlyEdit DEF EInv, ReadAnew, WatcherOff, Editor!Watches, Editor!Merges, Editor!Nothing,
           Editor!TypeOK, Editor!Process
  <1>4. LandedSoFar'
    BY <1>0 DEF OpenFits, EInv, Editor!TypeOK, Editor!Nothing, LandedSoFar, LandedTo, Editor!Merges, Editor!Process
  <1>5. Editor!EditsKept'
    <2>1. CASE open = <<>>
      BY <1>0, <2>1 DEF OpenFits, Editor!EditsKept, Editor!Nothing
    <2>2. CASE open # <<>>
      BY <1>0, <2>2 DEF EInv, Editor!EditsKept, Editor!Closed, Editor!Nothing, Editor!Encrypted, Editor!Reached
    <2> QED
      BY <2>1, <2>2
  <1>6. Editor!LeftAlone' /\ Editor!AppliedIsEdited'
    BY <1>0 DEF OpenFits, EInv, Editor!TypeOK, Editor!Nothing, Editor!LeftAlone, Editor!Given, Editor!Merges,
       Editor!AppliedIsEdited, Editor!Watches, Editor!Reached, Editor!Encrypted, Editor!Process
  <1> QED
    BY <1>1, <1>2, <1>3, <1>4, <1>5, <1>6 DEF EInv

LEMMA ExitEditor ==
    ASSUME EInv, Editor!Exit
    PROVE  EInv'
  <1>0. OpenFits /\ Editor!TypeOK
    BY OpenIsFit DEF EInv
  <1>1. Editor!TypeOK'
    BY <1>0 DEF OpenFits, EInv, Editor!TypeOK, Editor!Exit, Editor!Process, Editor!Places
  <1>2. AtEncrypted' /\ WatcherOff' /\ OpensOnce' /\ CopiesFit' /\ NotYetWritten' /\ ReadWhole'
    BY <1>0 DEF OpenFits, EInv, Editor!TypeOK, Editor!Exit, AtEncrypted, WatcherOff, Editor!Watches, OpensOnce,
       Editor!Merges, CopiesFit, Editor!Given, NotYetWritten, ReadWhole, Editor!Process
  <1>3. LandedSoFar' /\ ReadAnew'
    BY <1>0 DEF OpenFits, EInv, Editor!TypeOK, Editor!Exit, LandedSoFar, LandedTo, ReadAnew, Editor!Process
  <1>4. Editor!EditsKept' /\ Editor!LeftAlone' /\ Editor!AppliedIsEdited'
    BY <1>0 DEF OpenFits, EInv, Editor!TypeOK, Editor!Exit, Editor!EditsKept, Editor!Closed, Editor!Encrypted,
       Editor!Reached, Editor!LeftAlone, Editor!Given, Editor!AppliedIsEdited, Editor!Watches, Editor!Process
  <1> QED
    BY <1>1, <1>2, <1>3, <1>4 DEF EInv

LEMMA CheckEditor ==
    ASSUME EInv, NEW p \in Editor!Process, Editor!Check(p)
    PROVE  EInv'
  <1>0. OpenFits /\ Editor!TypeOK
    BY OpenIsFit DEF EInv
  <1>a. PICK k \in at[p] .. Len(open) :
          /\ Editor!Encrypted(k) /\ \A j \in at[p] .. k - 1 : ~Editor!Encrypted(j)
          /\ at' = [at EXCEPT ![p] = k]
          /\ pc' = [pc EXCEPT ![p] = IF Editor!Same(open[k].f) THEN Editor!Returned(p) ELSE "encrypt"]
    BY DEF Editor!Check
  <1>b. /\ k \in 1 .. Len(open) /\ open[k] \in Editor!Given /\ open[k].kind = "encrypted" /\ open[k].f \in Editor!Files
        /\ k \in 1 .. Len(open) + 1 /\ k \in Nat /\ at[p] \in Nat /\ at[p] <= k
    BY <1>0, <1>a DEF OpenFits, Editor!Encrypted
  <1>m. ~Editor!Merges /\ pc["main"] # "next" => ~Editor!MoreFiles
    BY DEF EInv, OpensOnce, Editor!MoreFiles, Editor!Listed
  <1>r. /\ pc'["main"] = "next" => pc["main"] = "next" \/ Editor!Merges
        /\ pc["main"] = "next" => pc'["main"] = "next"
    BY <1>0, <1>m DEF Editor!Check, Editor!Returned, Editor!TypeOK, Editor!Process
  <1>l. p = "main" /\ ~cmd.watch => LandedTo(k - 1)
    <2>1. SUFFICES ASSUME p = "main", ~cmd.watch, NEW j \in 1 .. k - 1, Editor!Encrypted(j)
                   PROVE  source[open[j].f] = copy[open[j].f] \/ outside[open[j].f] # Editor!None
      BY DEF LandedTo, Editor!Encrypted
    <2>2. j \in 1 .. at[p] - 1
      BY <1>a, <1>b, <2>1
    <2>3. LandedTo(at[p] - 1)
      BY <2>1 DEF EInv, LandedSoFar, Editor!Check
    <2> QED
      BY <2>1, <2>2, <2>3 DEF LandedTo, Editor!Encrypted
  <1>1. Editor!TypeOK'
    <2>1. /\ pc' \in [Editor!Process -> Editor!Places]
          /\ pc'["main"] \notin {"off", "wait"} /\ pc'["watcher"] \notin {"next", "tool", "end"}
      BY <1>0, <1>a DEF Editor!TypeOK, Editor!Process, Editor!Places, Editor!Returned
    <2>2. at' \in [Editor!Process -> 1 .. Len(open) + 1]
      BY <1>0, <1>a, <1>b DEF Editor!TypeOK
    <2> QED
      BY <1>0, <2>1, <2>2 DEF Editor!TypeOK, Editor!Check
  <1>2. AtEncrypted'
    <2>1. ASSUME NEW q \in Editor!Process, q # p PROVE pc'[q] = pc[q] /\ at'[q] = at[q]
      BY <1>0, <1>a, <2>1 DEF Editor!TypeOK
    <2>2. at'[p] = k /\ pc'[p] # "write" /\ (pc'[p] = "encrypt" => ~Editor!Same(open[k].f))
      BY <1>0, <1>a DEF Editor!TypeOK, Editor!Returned
    <2>3. cmd.name = "edit" /\ pc'[p] = "encrypt" => open[k].f \in saved
      BY <1>b, <2>2 DEF EInv, CopiesFit, Editor!Same
    <2>4. k \in DOMAIN open
      BY <1>0, <1>b DEF OpenFits
    <2>5. UNCHANGED <<cmd, open, saved, got>>
      BY DEF Editor!Check
    <2> QED
      BY <1>b, <2>1, <2>2, <2>3, <2>4, <2>5 DEF EInv, AtEncrypted
  <1>3. OpensOnce'
    BY <1>r DEF EInv, OpensOnce, Editor!Check, Editor!Merges
  <1>4. WatcherOff'
    BY <1>0 DEF OpenFits, EInv, Editor!TypeOK, Editor!Check, WatcherOff, Editor!Watches, Editor!Returned,
       Editor!MoreFiles, Editor!Merges, Editor!Encrypted, Editor!Same, Editor!Process
  <1>5. CopiesFit' /\ NotYetWritten'
    BY <1>0 DEF OpenFits, EInv, Editor!TypeOK, Editor!Check, CopiesFit, Editor!Given, Editor!Returned,
       Editor!MoreFiles, Editor!Merges, Editor!Encrypted, Editor!Same, NotYetWritten, Editor!Process
  <1>6. ReadWhole'
    BY <1>0 DEF OpenFits, EInv, Editor!TypeOK, Editor!Check, ReadWhole, Editor!Returned, Editor!MoreFiles,
       Editor!Merges, Editor!Encrypted, Editor!Same, Editor!Process
  <1>7. LandedSoFar'
    <2>1. CASE p = "main"
      <3>1. at'["main"] = k /\ pc'["main"] \in {"next", "end", "encrypt"} /\ UNCHANGED <<cmd, source, open, copy, outside>>
        BY <1>0, <1>a, <2>1 DEF Editor!TypeOK, Editor!Check, Editor!Returned, Editor!Process
      <3>2. LandedTo(k - 1) => LandedTo(k - 1)'
        BY <3>1 DEF LandedTo
      <3> QED
        BY <1>l, <2>1, <3>1, <3>2 DEF LandedSoFar
    <2>2. CASE p # "main"
      <3>1. /\ pc'["main"] = pc["main"] /\ at'["main"] = at["main"]
            /\ UNCHANGED <<cmd, source, open, copy, outside, got>>
        BY <1>0, <1>a, <2>2 DEF Editor!TypeOK, Editor!Check, Editor!Process
      <3> QED
        BY <3>1 DEF EInv, LandedSoFar, LandedTo
    <2> QED
      BY <2>1, <2>2
  <1>8. ReadAnew'
    BY <1>0 DEF OpenFits, EInv, Editor!TypeOK, Editor!Check, ReadAnew, Editor!Returned, Editor!MoreFiles,
       Editor!Merges, Editor!Encrypted, Editor!Same, Editor!Process
  <1>9. Editor!EditsKept'
    <2>1. UNCHANGED <<cmd, source, open, copy, before, outside, failed>>
      BY DEF Editor!Check
    <2>2. CASE Editor!Closed
      BY <2>1, <2>2 DEF EInv, Editor!EditsKept, Editor!Encrypted, Editor!Reached
    <2>3. CASE ~Editor!Closed
      <3>1. SUFFICES ASSUME Editor!Closed', failed = "", ~cmd.watch, NEW j \in DOMAIN open,
                            Editor!Encrypted(j), Editor!Reached(j)
                     PROVE  source[open[j].f] = copy[open[j].f] \/ outside[open[j].f] # Editor!None
        BY <2>1 DEF Editor!EditsKept, Editor!Encrypted, Editor!Reached
      <3>2. p = "main" /\ Editor!Same(open[k].f)
        BY <1>0, <1>a, <1>r, <2>1, <2>3, <3>1 DEF Editor!Closed, Editor!TypeOK, Editor!Process
      <3>3. j \in 1 .. Len(open) /\ j < k
        <4>1. j \in 1 .. Len(open)
          BY <1>0, <3>1 DEF OpenFits
        <4>2. k \notin 1 .. j
          BY <1>a, <3>1, <3>2 DEF Editor!Reached, Editor!Same
        <4> QED
          BY <1>b, <4>1, <4>2
      <3>4. LandedTo(k - 1)
        BY <1>l, <3>1, <3>2
      <3>5. j \in 1 .. k - 1
        BY <1>b, <3>3
      <3> QED
        BY <3>1, <3>4, <3>5 DEF LandedTo, Editor!Encrypted
    <2> QED
      BY <2>2, <2>3
  <1>10. Editor!AppliedIsEdited'
    <2>1. UNCHANGED <<cmd, source, target, open, copy, before, outside, failed, raced>>
      BY DEF Editor!Check
    <2>2. CASE p = "main" /\ Editor!Same(open[k].f)
      <3>1. cmd.name = "edit" => ~Editor!Reached(Len(open))
        BY <1>a, <1>b, <2>2 DEF Editor!Same, Editor!Reached
      <3>2. Editor!Reached(Len(open))' = Editor!Reached(Len(open))
        BY <2>1 DEF Editor!Reached, Editor!Encrypted
      <3> QED
        BY <2>1, <3>1, <3>2 DEF Editor!AppliedIsEdited
    <2>3. CASE ~(p = "main" /\ Editor!Same(open[k].f))
      <3>1. pc'["main"] = "end" => pc["main"] = "end"
        BY <1>0, <1>a, <2>3 DEF Editor!TypeOK, Editor!Process
      <3> QED
        BY <2>1, <3>1 DEF EInv, Editor!AppliedIsEdited, Editor!Given, Editor!Watches, Editor!Reached, Editor!Encrypted
    <2> QED
      BY <2>2, <2>3
  <1>11. Editor!LeftAlone'
    BY <1>0 DEF OpenFits, EInv, Editor!TypeOK, Editor!Check, Editor!LeftAlone, Editor!Given, Editor!Returned,
       Editor!MoreFiles, Editor!Merges, Editor!Encrypted, Editor!Same, Editor!Process
  <1> QED
    BY <1>1, <1>2, <1>3, <1>4, <1>5, <1>6, <1>7, <1>8, <1>9, <1>10, <1>11 DEF EInv

LEMMA CheckedAllEditor ==
    ASSUME EInv, NEW p \in Editor!Process, Editor!CheckedAll(p)
    PROVE  EInv'
  <1>0. OpenFits /\ Editor!TypeOK
    BY OpenIsFit DEF EInv
  <1>m. ~Editor!Merges /\ pc["main"] # "next" => ~Editor!MoreFiles
    BY DEF EInv, OpensOnce, Editor!MoreFiles, Editor!Listed
  <1>r. /\ pc'["main"] = "next" => pc["main"] = "next" \/ Editor!Merges
        /\ pc["main"] = "next" => pc'["main"] = "next"
    BY <1>0, <1>m DEF Editor!CheckedAll, Editor!Returned, Editor!TypeOK, Editor!Process
  <1>l. p = "main" /\ ~cmd.watch => LandedTo(Len(open))
    <2>1. SUFFICES ASSUME p = "main", ~cmd.watch, NEW j \in 1 .. Len(open), Editor!Encrypted(j)
                   PROVE  source[open[j].f] = copy[open[j].f] \/ outside[open[j].f] # Editor!None
      BY DEF LandedTo, Editor!Encrypted
    <2>2. at[p] \in Nat /\ Len(open) \in Nat
      BY <1>0 DEF OpenFits
    <2>3. j \notin at[p] .. Len(open)
      BY <2>1 DEF Editor!CheckedAll, Editor!Beyond
    <2>4. j \in 1 .. at[p] - 1
      BY <2>2, <2>3
    <2>5. LandedTo(at[p] - 1)
      BY <2>1 DEF EInv, LandedSoFar, Editor!CheckedAll
    <2> QED
      BY <2>1, <2>4, <2>5 DEF LandedTo, Editor!Encrypted
  <1>u. UNCHANGED <<cmd, source, open, copy, before, outside, failed, at, got, raced>>
    BY DEF Editor!CheckedAll
  <1>1. Editor!TypeOK'
    BY <1>0 DEF OpenFits, EInv, Editor!TypeOK, Editor!CheckedAll, Editor!Returned, Editor!MoreFiles, Editor!Merges,
       Editor!Beyond, Editor!Encrypted, Editor!Process, Editor!Places
  <1>2. OpensOnce'
    BY <1>r DEF EInv, OpensOnce, Editor!CheckedAll, Editor!Merges
  <1>3. AtEncrypted' /\ WatcherOff' /\ CopiesFit' /\ NotYetWritten' /\ ReadWhole'
    BY <1>0 DEF OpenFits, EInv, Editor!TypeOK, Editor!CheckedAll, AtEncrypted, Editor!Returned, Editor!MoreFiles,
       Editor!Merges, Editor!Beyond, Editor!Encrypted, WatcherOff, Editor!Watches, CopiesFit, Editor!Given,
       NotYetWritten, ReadWhole, Editor!Process
  <1>4. LandedSoFar'
    <2>1. /\ pc'["main"] \in {"check", "encrypt", "write"} => pc'["main"] = pc["main"]
          /\ pc'["main"] \in {"read", "apply"} => pc'["main"] = pc["main"]
          /\ pc'["main"] = "reset" => pc["main"] = "reset" \/ p = "main"
      BY <1>0 DEF Editor!TypeOK, Editor!CheckedAll, Editor!Returned, Editor!Process
    <2>2. LandedTo(Len(open))' = LandedTo(Len(open)) /\ LandedTo(at["main"] - 1)' = LandedTo(at["main"] - 1)
      BY <1>u DEF LandedTo
    <2> QED
      BY <1>l, <1>u, <2>1, <2>2 DEF EInv, LandedSoFar
  <1>5. ReadAnew'
    BY <1>0 DEF OpenFits, EInv, Editor!TypeOK, Editor!CheckedAll, ReadAnew, Editor!Returned, Editor!MoreFiles,
       Editor!Merges, Editor!Beyond, Editor!Encrypted, Editor!Process
  <1>6. Editor!EditsKept'
    <2>1. Editor!Closed' => Editor!Closed \/ p = "main"
      BY <1>0, <1>r, <1>u DEF Editor!Closed, Editor!TypeOK, Editor!CheckedAll, Editor!Process
    <2>2. ASSUME LandedTo(Len(open)), NEW k \in DOMAIN open, Editor!Encrypted(k)
          PROVE  source[open[k].f] = copy[open[k].f] \/ outside[open[k].f] # Editor!None
      BY <1>0, <2>2 DEF OpenFits, LandedTo, Editor!Encrypted
    <2> QED
      BY <1>l, <1>u, <2>1, <2>2 DEF EInv, Editor!EditsKept, Editor!Encrypted, Editor!Reached
  <1>7. Editor!LeftAlone' /\ Editor!AppliedIsEdited'
    BY <1>0 DEF OpenFits, EInv, Editor!TypeOK, Editor!CheckedAll, Editor!LeftAlone, Editor!Given, Editor!Returned,
       Editor!MoreFiles, Editor!Merges, Editor!Beyond, Editor!Encrypted, Editor!AppliedIsEdited, Editor!Watches,
       Editor!Reached, Editor!Process
  <1> QED
    BY <1>1, <1>2, <1>3, <1>4, <1>5, <1>6, <1>7 DEF EInv

LEMMA EncryptEditor ==
    ASSUME EInv, NEW p \in Editor!Process, Editor!Encrypt(p)
    PROVE  EInv'
  <1>0. OpenFits /\ Editor!TypeOK
    BY OpenIsFit DEF EInv
  <1>a. /\ got' = [got EXCEPT ![p] = [Editor!Unread EXCEPT ![open[at[p]].f] = copy[open[at[p]].f]]]
        /\ pc' = [pc EXCEPT ![p] = "write"] /\ pc[p] = "encrypt"
        /\ UNCHANGED <<cmd, source, open, copy, at, saved, outside>>
    BY DEF Editor!Encrypt, Editor!File
  <1>b. at[p] \in DOMAIN open /\ open[at[p]].kind = "encrypted" /\ open[at[p]] \in Editor!Given /\ open[at[p]].f \in Editor!Files
    BY <1>0, <1>a DEF EInv, AtEncrypted, OpenFits
  <1>c. copy[open[at[p]].f] \in Texts
    BY <1>b DEF EInv, CopiesFit
  <1>d. got'[p][open[at[p]].f] = copy[open[at[p]].f] /\ \A q \in Editor!Process \ {p} : got'[q] = got[q] /\ pc'[q] = pc[q]
    BY <1>0, <1>a, <1>b DEF Editor!TypeOK, Editor!Unread
  <1>1. Editor!TypeOK'
    <2>1. /\ pc' \in [Editor!Process -> Editor!Places]
          /\ pc'["main"] \notin {"off", "wait"} /\ pc'["watcher"] \notin {"next", "tool", "end"}
      BY <1>0, <1>a DEF Editor!TypeOK, Editor!Process, Editor!Places
    <2>2. got' \in [Editor!Process -> Editor!Maybe]
      BY <1>0, <1>a, <1>b, <1>c DEF Editor!TypeOK, Editor!Maybe, Editor!Unread
    <2> QED
      BY <1>0, <2>1, <2>2 DEF Editor!TypeOK, Editor!Encrypt
  <1>2. AtEncrypted'
    BY <1>0, <1>a, <1>b, <1>c, <1>d DEF EInv, AtEncrypted, Editor!TypeOK
  <1>3. WatcherOff' /\ OpensOnce' /\ CopiesFit' /\ NotYetWritten' /\ ReadWhole'
    BY <1>0 DEF OpenFits, EInv, Editor!TypeOK, Editor!Encrypt, WatcherOff, Editor!Watches, Editor!File, OpensOnce,
       Editor!Merges, CopiesFit, Editor!Given, NotYetWritten, ReadWhole, Editor!Process
  <1>4. LandedSoFar'
    <2>1. pc'["main"] = "write" => pc["main"] = "write" \/ p = "main"
      BY <1>0, <1>a DEF Editor!TypeOK, Editor!Process
    <2>2. \/ p = "main"
          \/ pc'["main"] = pc["main"] /\ got'["main"] = got["main"]
      BY <1>0, <1>d DEF Editor!Process
    <2>3. \A k : LandedTo(k)' = LandedTo(k)
      BY <1>a DEF LandedTo
    <2> QED
      BY <1>0, <1>a, <1>d, <2>1, <2>2, <2>3 DEF EInv, LandedSoFar, Editor!TypeOK
  <1>5. ReadAnew'
    BY <1>0 DEF OpenFits, EInv, Editor!TypeOK, Editor!Encrypt, ReadAnew, Editor!File, Editor!Process
  <1>6. Editor!EditsKept' /\ Editor!LeftAlone' /\ Editor!AppliedIsEdited'
    BY <1>0 DEF OpenFits, EInv, Editor!TypeOK, Editor!Encrypt, Editor!EditsKept, Editor!Closed, Editor!Encrypted,
       Editor!Reached, Editor!File, Editor!LeftAlone, Editor!Given, Editor!AppliedIsEdited, Editor!Watches,
       Editor!Process
  <1> QED
    BY <1>1, <1>2, <1>3, <1>4, <1>5, <1>6 DEF EInv

LEMMA EncryptFailsEditor ==
    ASSUME EInv, NEW p \in Editor!Process, Editor!EncryptFails(p)
    PROVE  EInv'
  <1>0. OpenFits /\ Editor!TypeOK
    BY OpenIsFit DEF EInv
  <1>b. left' \in Editor!Bounds(cmd.files) /\ left'.files = left.files
    BY <1>0, LeftKeeps DEF Editor!TypeOK, Editor!EncryptFails
  <1>1. Editor!TypeOK'
    <2>1. /\ pc' \in [Editor!Process -> Editor!Places]
          /\ pc'["main"] \notin {"off", "wait"} /\ pc'["watcher"] \notin {"next", "tool", "end"}
      BY <1>0 DEF Editor!TypeOK, Editor!EncryptFails, Editor!Process, Editor!Places
    <2>2. failed' \in {"", "tool", "encrypt"}
      BY <1>0 DEF Editor!TypeOK, Editor!EncryptFails
    <2> QED
      BY <1>0, <1>b, <2>1, <2>2 DEF Editor!TypeOK, Editor!EncryptFails
  <1>2. AtEncrypted' /\ WatcherOff' /\ OpensOnce'
    BY <1>0, <1>b DEF OpenFits, EInv, Editor!TypeOK, Editor!EncryptFails, AtEncrypted, WatcherOff, Editor!Watches,
       OpensOnce, Editor!Merges, Editor!Process
  <1>3. CopiesFit' /\ NotYetWritten'
    BY <1>0 DEF OpenFits, EInv, Editor!TypeOK, Editor!EncryptFails, CopiesFit, Editor!Given, NotYetWritten,
       Editor!Process
  <1>4. ReadWhole'
    BY <1>0 DEF OpenFits, EInv, Editor!TypeOK, Editor!EncryptFails, ReadWhole, Editor!Process
  <1>5. LandedSoFar' /\ ReadAnew'
    BY <1>0 DEF OpenFits, EInv, Editor!TypeOK, Editor!EncryptFails, LandedSoFar, LandedTo, ReadAnew, Editor!Process
  <1>6. Editor!EditsKept' /\ Editor!LeftAlone' /\ Editor!AppliedIsEdited'
    BY <1>0 DEF OpenFits, EInv, Editor!TypeOK, Editor!EncryptFails, Editor!EditsKept, Editor!Closed,
       Editor!Encrypted, Editor!Reached, Editor!LeftAlone, Editor!Given, Editor!AppliedIsEdited, Editor!Watches,
       Editor!Process
  <1> QED
    BY <1>1, <1>2, <1>3, <1>4, <1>5, <1>6 DEF EInv

LEMMA WriteEditor ==
    ASSUME EInv, NEW p \in Editor!Process, Editor!Write(p)
    PROVE  EInv'
  <1>0. OpenFits /\ Editor!TypeOK
    BY OpenIsFit DEF EInv
  <1>a. /\ pc[p] = "write" /\ source' = [source EXCEPT ![open[at[p]].f] = got[p][open[at[p]].f]]
        /\ at' = [at EXCEPT ![p] = @ + 1] /\ pc' = [pc EXCEPT ![p] = "check"]
        /\ UNCHANGED <<cmd, open, copy, before, got, saved, outside, failed, raced>>
    BY DEF Editor!Write, Editor!File, Editor!Written
  <1>b. /\ at[p] \in DOMAIN open /\ open[at[p]].kind = "encrypted" /\ open[at[p]] \in Editor!Given
        /\ open[at[p]].f \in Editor!Files /\ got[p][open[at[p]].f] \in Texts
        /\ cmd.name = "edit" => open[at[p]].f \in saved
    BY <1>0, <1>a DEF EInv, AtEncrypted, OpenFits
  <1>c. p = "watcher" => cmd.watch
    BY <1>a DEF EInv, WatcherOff, Editor!Watches
  <1>d. at[p] + 1 \in 1 .. Len(open) + 1 /\ at[p] \in Nat
    BY <1>0, <1>b DEF OpenFits
  <1>1. Editor!TypeOK'
    <2>1. /\ pc' \in [Editor!Process -> Editor!Places]
          /\ pc'["main"] \notin {"off", "wait"} /\ pc'["watcher"] \notin {"next", "tool", "end"}
      BY <1>0, <1>a DEF Editor!TypeOK, Editor!Process, Editor!Places
    <2>2. at' \in [Editor!Process -> 1 .. Len(open) + 1]
      BY <1>0, <1>a, <1>d DEF Editor!TypeOK
    <2>3. source' \in [Editor!Files -> Texts]
      BY <1>0, <1>a, <1>b DEF Editor!TypeOK
    <2> QED
      BY <1>0, <2>1, <2>2, <2>3 DEF Editor!TypeOK, Editor!Write
  <1>2. NotYetWritten'
    BY <1>0, <1>a, <1>c DEF EInv, NotYetWritten, Editor!TypeOK, Editor!Process
  <1>3. AtEncrypted' /\ WatcherOff' /\ OpensOnce' /\ CopiesFit' /\ ReadWhole'
    BY <1>0 DEF OpenFits, EInv, Editor!TypeOK, Editor!Write, AtEncrypted, Editor!File, Editor!Written, WatcherOff,
       Editor!Watches, OpensOnce, Editor!Merges, CopiesFit, Editor!Given, ReadWhole, Editor!Process
  <1>4. LandedSoFar'
    <2>1. CASE p = "main" /\ ~cmd.watch
      <3>1. pc'["main"] = "check" /\ at'["main"] - 1 = at["main"]
        <4>1. pc'["main"] = "check" /\ at'["main"] = at["main"] + 1
          BY <1>0, <1>a, <2>1 DEF Editor!TypeOK
        <4> QED
          BY <1>d, <2>1, <4>1
      <3>2. LandedTo(at["main"] - 1) /\ got["main"][open[at["main"]].f] = copy[open[at["main"]].f]
        BY <1>a, <2>1 DEF EInv, LandedSoFar
      <3>3. SUFFICES ASSUME NEW j \in 1 .. at["main"], open[j].kind = "encrypted"
                     PROVE  source'[open[j].f] = copy[open[j].f] \/ outside[open[j].f] # Editor!None
        BY <1>a, <3>1 DEF LandedSoFar, LandedTo
      <3>4. j = at["main"] \/ j \in 1 .. at["main"] - 1
        BY <1>d, <2>1
      <3>5. source \in [Editor!Files -> Texts]
        BY <1>0 DEF Editor!TypeOK
      <3> QED
        BY <1>a, <1>b, <2>1, <3>2, <3>3, <3>4, <3>5 DEF LandedTo
    <2>2. CASE ~(p = "main" /\ ~cmd.watch)
      BY <1>0, <1>a, <1>c, <2>2 DEF LandedSoFar, Editor!Process
    <2> QED
      BY <2>1, <2>2
  <1>5. ReadAnew'
    BY <1>0 DEF OpenFits, EInv, Editor!TypeOK, Editor!Write, ReadAnew, Editor!File, Editor!Written, Editor!Process
  <1>6. Editor!EditsKept'
    BY <1>0, <1>a, <1>c DEF EInv, Editor!EditsKept, Editor!Closed, Editor!TypeOK, Editor!Process
  <1>7. Editor!LeftAlone'
    <2>1. \A g \in Editor!Files : g # open[at[p]].f => source'[g] = source[g]
      BY <1>0, <1>a DEF Editor!TypeOK
    <2>2. pc'["main"] # "next" => pc["main"] # "next"
      BY <1>0, <1>a DEF Editor!TypeOK, Editor!Process
    <2> QED
      BY <1>0, <1>a, <1>b, <2>1, <2>2 DEF OpenFits, EInv, Editor!LeftAlone, Editor!Given
  <1>8. Editor!AppliedIsEdited'
    <2>1. pc'["main"] = "end" => pc["main"] = "end" /\ pc["watcher"] = "write"
      BY <1>0, <1>a DEF Editor!TypeOK, Editor!Process
    <2> QED
      BY <1>a, <2>1 DEF EInv, ReadAnew, Editor!AppliedIsEdited
  <1> QED
    BY <1>1, <1>2, <1>3, <1>4, <1>5, <1>6, <1>7, <1>8 DEF EInv

LEMMA ResetStateEditor ==
    ASSUME EInv, NEW p \in Editor!Process, Editor!ResetState(p)
    PROVE  EInv'
  <1>0. OpenFits /\ Editor!TypeOK
    BY OpenIsFit DEF EInv
  <1>1. Editor!TypeOK'
    <2>1. /\ pc' \in [Editor!Process -> Editor!Places]
          /\ pc'["main"] \notin {"off", "wait"} /\ pc'["watcher"] \notin {"next", "tool", "end"}
      BY <1>0 DEF Editor!TypeOK, Editor!ResetState, Editor!Process, Editor!Places
    <2>2. cached' \in Editor!Maybe
      BY DEF Editor!ResetState, Editor!Reset, Editor!Unread, Editor!Maybe
    <2> QED
      BY <1>0, <2>1, <2>2 DEF Editor!TypeOK, Editor!ResetState
  <1>2. AtEncrypted' /\ WatcherOff' /\ OpensOnce' /\ CopiesFit' /\ NotYetWritten' /\ ReadWhole'
    BY <1>0 DEF OpenFits, EInv, Editor!TypeOK, Editor!ResetState, AtEncrypted, Editor!Reset, WatcherOff,
       Editor!Watches, OpensOnce, Editor!Merges, CopiesFit, Editor!Given, NotYetWritten, ReadWhole, Editor!Process
  <1>3. LandedSoFar' /\ ReadAnew'
    BY <1>0 DEF OpenFits, EInv, Editor!TypeOK, Editor!ResetState, LandedSoFar, LandedTo, Editor!Reset, ReadAnew,
       Editor!Process
  <1>4. Editor!EditsKept' /\ Editor!LeftAlone' /\ Editor!AppliedIsEdited'
    BY <1>0 DEF OpenFits, EInv, Editor!TypeOK, Editor!ResetState, Editor!EditsKept, Editor!Closed, Editor!Encrypted,
       Editor!Reached, Editor!Reset, Editor!LeftAlone, Editor!Given, Editor!AppliedIsEdited, Editor!Watches,
       Editor!Process
  <1> QED
    BY <1>1, <1>2, <1>3, <1>4 DEF EInv

LEMMA ReadEditor ==
    ASSUME EInv, NEW p \in Editor!Process, Editor!Read(p)
    PROVE  EInv'
  <1>0. OpenFits /\ Editor!TypeOK
    BY OpenIsFit DEF EInv
  <1>a. cached' \in [Editor!Files -> Texts] /\ (cached = Editor!Unread => cached' = source)
    BY <1>0 DEF EInv, ReadWhole, Editor!Read, Editor!TypeOK
  <1>1. Editor!TypeOK'
    <2>1. /\ pc' \in [Editor!Process -> Editor!Places]
          /\ pc'["main"] \notin {"off", "wait"} /\ pc'["watcher"] \notin {"next", "tool", "end"}
      BY <1>0 DEF Editor!TypeOK, Editor!Read, Editor!Process, Editor!Places
    <2>2. cached' \in Editor!Maybe
      BY <1>a DEF Editor!Maybe
    <2>3. got' \in [Editor!Process -> Editor!Maybe]
      BY <1>0, <2>2 DEF Editor!Read, Editor!TypeOK
    <2> QED
      BY <1>0, <2>1, <2>2, <2>3 DEF Editor!TypeOK, Editor!Read
  <1>2. ReadWhole'
    BY <1>0, <1>a DEF EInv, ReadWhole, Editor!Read, Editor!TypeOK
  <1>3. AtEncrypted' /\ WatcherOff' /\ OpensOnce' /\ CopiesFit' /\ NotYetWritten'
    BY <1>0 DEF OpenFits, EInv, Editor!TypeOK, Editor!Read, AtEncrypted, WatcherOff, Editor!Watches, OpensOnce,
       Editor!Merges, CopiesFit, Editor!Given, NotYetWritten, Editor!Process
  <1>4. LandedSoFar' /\ ReadAnew'
    BY <1>0 DEF OpenFits, EInv, Editor!TypeOK, Editor!Read, LandedSoFar, LandedTo, ReadAnew, Editor!Process
  <1>5. Editor!EditsKept' /\ Editor!LeftAlone' /\ Editor!AppliedIsEdited'
    BY <1>0 DEF OpenFits, EInv, Editor!TypeOK, Editor!Read, Editor!EditsKept, Editor!Closed, Editor!Encrypted,
       Editor!Reached, Editor!LeftAlone, Editor!Given, Editor!AppliedIsEdited, Editor!Watches, Editor!Process
  <1> QED
    BY <1>1, <1>2, <1>3, <1>4, <1>5 DEF EInv

LEMMA ApplyEditor ==
    ASSUME EInv, NEW p \in Editor!Process, Editor!Apply(p)
    PROVE  EInv'
  <1>0. OpenFits /\ Editor!TypeOK
    BY OpenIsFit DEF EInv
  <1>m. ~Editor!Merges /\ pc["main"] # "next" => ~Editor!MoreFiles
    BY DEF EInv, OpensOnce, Editor!MoreFiles, Editor!Listed
  <1>r. /\ pc'["main"] = "next" => pc["main"] = "next" \/ Editor!Merges
        /\ pc["main"] = "next" => pc'["main"] = "next"
    BY <1>0, <1>m DEF Editor!Apply, Editor!Returned, Editor!TypeOK, Editor!Process
  <1>l. p = "main" /\ ~cmd.watch => LandedTo(Len(open))
    BY DEF EInv, LandedSoFar, Editor!Apply
  <1>u. UNCHANGED <<cmd, source, open, copy, before, outside, failed, at, got, raced>>
    BY DEF Editor!Apply
  <1>1. Editor!TypeOK'
    <2>1. /\ pc' \in [Editor!Process -> Editor!Places]
          /\ pc'["main"] \notin {"off", "wait"} /\ pc'["watcher"] \notin {"next", "tool", "end"}
      BY <1>0 DEF Editor!TypeOK, Editor!Apply, Editor!Process, Editor!Places, Editor!Returned
    <2>2. target' \in [Editor!Files -> Texts]
      BY <1>0 DEF EInv, ReadWhole, Editor!TypeOK, Editor!Apply
    <2> QED
      BY <1>0, <2>1, <2>2 DEF Editor!TypeOK, Editor!Apply
  <1>2. OpensOnce'
    BY <1>r DEF EInv, OpensOnce, Editor!Apply, Editor!Merges
  <1>3. AtEncrypted' /\ WatcherOff' /\ CopiesFit' /\ NotYetWritten' /\ ReadWhole'
    BY <1>0 DEF OpenFits, EInv, Editor!TypeOK, Editor!Apply, AtEncrypted, Editor!Returned, Editor!MoreFiles,
       Editor!Merges, WatcherOff, Editor!Watches, CopiesFit, Editor!Given, NotYetWritten, ReadWhole, Editor!Process
  <1>4. LandedSoFar' /\ ReadAnew'
    BY <1>0 DEF OpenFits, EInv, Editor!TypeOK, Editor!Apply, LandedSoFar, LandedTo, Editor!Returned,
       Editor!MoreFiles, Editor!Merges, ReadAnew, Editor!Process
  <1>5. Editor!EditsKept'
    <2>1. Editor!Closed' => Editor!Closed \/ p = "main"
      BY <1>0, <1>r, <1>u DEF Editor!Closed, Editor!TypeOK, Editor!Apply, Editor!Process
    <2>2. ASSUME LandedTo(Len(open)), NEW k \in DOMAIN open, Editor!Encrypted(k)
          PROVE  source[open[k].f] = copy[open[k].f] \/ outside[open[k].f] # Editor!None
      BY <1>0, <2>2 DEF OpenFits, LandedTo, Editor!Encrypted
    <2> QED
      BY <1>l, <1>u, <2>1, <2>2 DEF EInv, Editor!EditsKept, Editor!Encrypted, Editor!Reached
  <1>6. Editor!AppliedIsEdited'
    <2>1. SUFFICES ASSUME pc'["main"] = "end", failed = "", ~raced,
                          NEW f \in Editor!Files, f \in {e.f : e \in Editor!Given} \/ cmd.files = <<>>
                   PROVE  target'[f] = source[f] \/ outside[f] # Editor!None
      BY <1>u DEF Editor!AppliedIsEdited, Editor!Given
    <2>2. p = "main"
      BY <1>0, <1>u, <2>1 DEF EInv, ReadAnew, Editor!Apply, Editor!TypeOK, Editor!Process
    <2>3. got["main"][f] = source[f] \/ outside[f] # Editor!None
      BY <2>1, <2>2 DEF EInv, ReadAnew, Editor!Apply
    <2>4. target'[f] = got["main"][f]
      BY <1>0, <2>1, <2>2 DEF OpenFits, Editor!Apply, Editor!Listed
    <2> QED
      BY <2>3, <2>4
  <1>7. Editor!LeftAlone'
    BY <1>0 DEF OpenFits, EInv, Editor!TypeOK, Editor!Apply, Editor!LeftAlone, Editor!Given, Editor!Returned,
       Editor!MoreFiles, Editor!Merges, Editor!Process
  <1> QED
    BY <1>1, <1>2, <1>3, <1>4, <1>5, <1>6, <1>7 DEF EInv

LEMMA EditorStep ==
    ASSUME EInv, [Editor!Next]_(Editor!editVars)
    PROVE  EInv'
  <1>1. CASE UNCHANGED Editor!editVars
    <2>1. UNCHANGED <<cmd, source, target, open, copy, before, pc, at, got, cached, events, left, saved, outside, raced, failed>>
      BY <1>1 DEF Editor!editVars
    <2>2. Editor!TypeOK'
      BY <2>1 DEF EInv, Editor!TypeOK
    <2>3. AtEncrypted' /\ WatcherOff' /\ OpensOnce' /\ CopiesFit' /\ NotYetWritten' /\ LandedSoFar' /\ ReadAnew' /\ ReadWhole'
      BY <2>1 DEF EInv, AtEncrypted, WatcherOff, OpensOnce, CopiesFit, NotYetWritten, LandedTo, LandedSoFar, ReadAnew,
         ReadWhole, Editor!Given, Editor!Watches, Editor!Merges
    <2>4. Editor!EditsKept' /\ Editor!LeftAlone' /\ Editor!AppliedIsEdited'
      BY <2>1 DEF EInv, Editor!EditsKept, Editor!LeftAlone, Editor!AppliedIsEdited, Editor!Closed, Editor!Given,
         Editor!Encrypted, Editor!Reached, Editor!Watches
    <2> QED
      BY <2>2, <2>3, <2>4 DEF EInv
  <1>2. CASE Editor!Next
    BY <1>2, StartsEditor, SaveEditor, ChangeOutsideEditor, ToolFailsEditor, ToolEndsEditor, WatcherWakesEditor,
       NothingEditor, ExitEditor, CheckEditor, CheckedAllEditor, EncryptEditor, EncryptFailsEditor, WriteEditor,
       ResetStateEditor, ReadEditor, ApplyEditor DEF Editor!Next, Editor!Steps
  <1> QED
    BY <1>1, <1>2

LEMMA EditorInvariant == Spec => []EditorInv
  <1>1. Init => EditorInv
    BY EditorInit DEF Init, EditorInv
  <1>2. EditorInv /\ [Next]_commandsVars => EditorInv'
    <2> SUFFICES ASSUME EditorInv, [Next]_commandsVars, part' = "editor" PROVE EInv'
      BY DEF EditorInv
    <2>1. part = "editor" /\ [Editor!Next]_(Editor!editVars)
      BY DEF Next, TargetNext, EditorNext, RepoNext, ConfigNext, commandsVars, editorVars, Editor!editVars
    <2> QED
      BY <2>1, EditorStep DEF EditorInv
  <1> QED
    BY <1>1, <1>2, PTL DEF Spec

\* Whatever is edited or merged, in whatever order the watcher and the command
\* do their work, and whatever fails on the way, what the user made of a file
\* and only that is written back, and applied when it is to be (runEditCmd,
\* runEditEncryptedCmd, doMerge).
THEOREM EditsAlwaysLand == Spec => []EditsLand
  <1>1. EditorInv => EditsLand
    BY DEF EditorInv, EInv, NotYetWritten, EditsLand, Editor!EditsLand, Editor!FailureWritesNothing
  <1> QED
    BY <1>1, EditorInvariant, PTL

-----------------------------------------------------------------------------
(* The targets. Lifecycle is the same module here, where the properties are *)
(* stated, and in LifecycleProofs, where they are proved: each definition   *)
(* is unfolded on both sides.                                               *)

LEMMA SameTargetInit == Target!Init <=> Life!Init
  BY DEF Target!Init, Life!Init, Target!Targets, Life!Targets, Target!ToSet, Life!ToSet, Target!Unrecorded,
         Life!Unrecorded, Target!Marked, Life!Marked, Target!NoCommand, Life!NoCommand, Target!Nothing,
         Life!Nothing, Target!Nobody, Life!Nobody

LEMMA SameAssumption == Life!LifecycleAssumption
  <1>1. Target!LifecycleAssumption <=> Life!LifecycleAssumption
    BY DEF Target!LifecycleAssumption, Life!LifecycleAssumption, Target!Targets, Life!Targets, Target!ToSet,
           Life!ToSet, Target!Above, Life!Above, Target!Source, Life!Source, Target!Attrs, Life!Attrs,
           Target!Dest, Life!Dest, Target!Nothing, Life!Nothing, Target!Marks, Life!Marks, Target!CommandLines,
           Life!CommandLines
  <1> QED
    BY <1>1, CommandsAssumption

\* Re-adding a directory makes its updates of several sequences: each is the same.
LEMMA SameReAddDir == Target!ReAddDir => Life!ReAddDir
  <1> SUFFICES ASSUME Target!ReAddDir PROVE Life!ReAddDir
    OBVIOUS
  <1>1. \A S : Target!InOrder(S) = Life!InOrder(S)
    BY DEF Target!InOrder, Life!InOrder, Target!Cardinality, Life!Cardinality, Target!Position, Life!Position
  <1>2. \A d : Target!Gone(d) = Life!Gone(d)
    BY DEF Target!Gone, Life!Gone, Target!InSource, Life!InSource, Target!Files, Life!Files, Target!Children,
           Life!Children, Target!Targets, Life!Targets, Target!ToSet, Life!ToSet, Target!Scope, Life!Scope,
           Target!Below, Life!Below, Target!Above, Life!Above, Target!IsDir, Life!IsDir, Target!Nothing,
           Life!Nothing
  <1>3. \A d : Target!Fresh(d) = Life!Fresh(d)
    BY DEF Target!Fresh, Life!Fresh, Target!Children, Life!Children, Target!Targets, Life!Targets, Target!ToSet,
           Life!ToSet, Target!Files, Life!Files, Target!Scope, Life!Scope, Target!Below, Life!Below,
           Target!Above, Life!Above, Target!IsDir, Life!IsDir, Target!Nothing, Life!Nothing
  <1>4. \A t, i, o : Target!New(t, i, o) = Life!New(t, i, o)
    BY DEF Target!New, Life!New
  <1>5. \A t, i, e, w : Target!Swap(t, i, e, w) = Life!Swap(t, i, e, w)
    BY DEF Target!Swap, Life!Swap, Target!Managed, Life!Managed, Target!Marks, Life!Marks, Target!SameName,
           Life!SameName, Target!Prefix, Life!Prefix, Target!Write, Life!Write, Target!Drop, Life!Drop,
           Target!Record, Life!Record, Target!Marked, Life!Marked, Target!Clashes, Life!Clashes,
           Target!SamePath, Life!SamePath
  <1>6. \A E, f : Target!Keeps(E, f) = Life!Keeps(E, f)
    BY DEF Target!Keeps, Life!Keeps, Target!SetToSeq, Life!SetToSeq, Target!IsInjective, Life!IsInjective,
           Target!Cardinality, Life!Cardinality, Target!Keep, Life!Keep
  <1>7. \A t, e : Target!Renames(t, e) <=> Life!Renames(t, e)
    BY DEF Target!Renames, Life!Renames, Target!Managed, Life!Managed, Target!Marks, Life!Marks, Target!IsDir,
           Life!IsDir, Target!SamePath, Life!SamePath, Target!SameName, Life!SameName, Target!Prefix,
           Life!Prefix
  <1>8. \A t, e : Target!Clashes(t, e) <=> Life!Clashes(t, e)
    BY DEF Target!Clashes, Life!Clashes, Target!Managed, Life!Managed, Target!Marks, Life!Marks,
           Target!SameName, Life!SameName, Target!Prefix, Life!Prefix, Target!SamePath, Life!SamePath
  <1>9. \A d : Target!Outside(d) <=> Life!Outside(d)
    BY DEF Target!Outside, Life!Outside, Target!Above, Life!Above, Target!Targets, Life!Targets, Target!ToSet,
           Life!ToSet, Target!IsDir, Life!IsDir
  <1>10. \A e, f : Target!Rename(e, f) = Life!Rename(e, f)
    BY DEF Target!Rename, Life!Rename
  <1>11. \A e : Target!Drop(e) = Life!Drop(e)
    BY DEF Target!Drop, Life!Drop
  <1> DEFINE TFresh(d) == IF Target!Outside(d) \/ "external" \in root[d].attrs THEN {} ELSE Target!Fresh(d)
             TEntry(t) == Target!New(t, dest[t], [attrs |-> {}, exact |-> {}])
             TMoved(d) == {t \in TFresh(d) : Target!Renames(t, TEntry(t))}
             TAdded(d) == Target!InOrder(TFresh(d) \ TMoved(d))
             TMoves(d) == Target!InOrder(TMoved(d))
             TGone(d) == Target!InOrder(Target!Gone(d))
             LFresh(d) == IF Life!Outside(d) \/ "external" \in root[d].attrs THEN {} ELSE Life!Fresh(d)
             LEntry(t) == Life!New(t, dest[t], [attrs |-> {}, exact |-> {}])
             LMoved(d) == {t \in LFresh(d) : Life!Renames(t, LEntry(t))}
             LAdded(d) == Life!InOrder(LFresh(d) \ LMoved(d))
             LMoves(d) == Life!InOrder(LMoved(d))
             LGone(d) == Life!InOrder(Life!Gone(d))
  <1>20. pc = "re-add" /\ todo = <<>> /\ pc' = "do"
         /\ UNCHANGED <<dest, src, keeps, db, world, cmd, root, todo, news, full, all, pestered, left>>
    BY DEF Target!ReAddDir
  <1>21. PICK d \in dirs :
         /\ dirs' = dirs \ {d}
         /\ IF dest[d].type # "dir"
            THEN UNCHANGED <<ops, renames, infos, agreed, said>>
            ELSE \E won \in {"new", "old"} :
                      /\ ops' = [k \in DOMAIN TAdded(d) |-> Target!Swap(TAdded(d)[k], dest[TAdded(d)[k]], TEntry(TAdded(d)[k]), won)]
                                \o Target!Keeps({TEntry(t) : t \in TFresh(d) \ TMoved(d)}, {d})
                                \o [k \in DOMAIN TMoves(d) |-> <<Target!Rename(root[TMoves(d)[k]], TEntry(TMoves(d)[k]))>>]
                                \o [k \in DOMAIN TGone(d) |-> <<Target!Drop(root[TGone(d)[k]])>>]
                      /\ infos' = [t \in DOMAIN infos \cup TFresh(d) |-> IF t \in TFresh(d) THEN dest[t] ELSE infos[t]]
                      /\ agreed' = agreed \cup Target!Gone(d)
                      /\ said' = [said EXCEPT !.clash = @ \/ \E t \in TFresh(d) : Target!Clashes(t, TEntry(t))]
                      /\ UNCHANGED renames
    BY Zenon DEF Target!ReAddDir
  <1>22. TFresh(d) = LFresh(d)
    BY <1>3, <1>9
  <1>23. \A t : TEntry(t) = LEntry(t)
    BY <1>4
  <1>24. TMoved(d) = LMoved(d)
    BY <1>7, <1>22, <1>23
  <1>25. TAdded(d) = LAdded(d) /\ TMoves(d) = LMoves(d) /\ TGone(d) = LGone(d)
    BY <1>1, <1>2, <1>22, <1>24
  <1>26. CASE dest[d].type # "dir"
    BY Zenon, <1>20, <1>21, <1>26 DEF Life!ReAddDir
  <1>27. CASE dest[d].type = "dir"
    <2>1. PICK won \in {"new", "old"} :
            /\ ops' = [k \in DOMAIN TAdded(d) |-> Target!Swap(TAdded(d)[k], dest[TAdded(d)[k]], TEntry(TAdded(d)[k]), won)]
                      \o Target!Keeps({TEntry(t) : t \in TFresh(d) \ TMoved(d)}, {d})
                      \o [k \in DOMAIN TMoves(d) |-> <<Target!Rename(root[TMoves(d)[k]], TEntry(TMoves(d)[k]))>>]
                      \o [k \in DOMAIN TGone(d) |-> <<Target!Drop(root[TGone(d)[k]])>>]
            /\ infos' = [t \in DOMAIN infos \cup TFresh(d) |-> IF t \in TFresh(d) THEN dest[t] ELSE infos[t]]
            /\ agreed' = agreed \cup Target!Gone(d)
            /\ said' = [said EXCEPT !.clash = @ \/ \E t \in TFresh(d) : Target!Clashes(t, TEntry(t))]
            /\ UNCHANGED renames
      BY <1>21, <1>27
    <2> HIDE DEF TFresh, TEntry, TMoved, TAdded, TMoves, TGone, LFresh, LEntry, LMoved, LAdded, LMoves, LGone
    <2>2. [k \in DOMAIN TAdded(d) |-> Target!Swap(TAdded(d)[k], dest[TAdded(d)[k]], TEntry(TAdded(d)[k]), won)]
            = [k \in DOMAIN LAdded(d) |-> Life!Swap(LAdded(d)[k], dest[LAdded(d)[k]], LEntry(LAdded(d)[k]), won)]
      BY <1>5, <1>23, <1>25
    <2>3. Target!Keeps({TEntry(t) : t \in TFresh(d) \ TMoved(d)}, {d})
            = Life!Keeps({LEntry(t) : t \in LFresh(d) \ LMoved(d)}, {d})
      <3>1. {TEntry(t) : t \in TFresh(d) \ TMoved(d)} = {LEntry(t) : t \in LFresh(d) \ LMoved(d)}
        BY <1>22, <1>23, <1>24
      <3> QED
        BY <1>6, <3>1
    <2>4. [k \in DOMAIN TMoves(d) |-> <<Target!Rename(root[TMoves(d)[k]], TEntry(TMoves(d)[k]))>>]
            = [k \in DOMAIN LMoves(d) |-> <<Life!Rename(root[LMoves(d)[k]], LEntry(LMoves(d)[k]))>>]
      BY <1>10, <1>23, <1>25
    <2>5. [k \in DOMAIN TGone(d) |-> <<Target!Drop(root[TGone(d)[k]])>>]
            = [k \in DOMAIN LGone(d) |-> <<Life!Drop(root[LGone(d)[k]])>>]
      BY <1>11, <1>25
    <2>6. infos' = [t \in DOMAIN infos \cup LFresh(d) |-> IF t \in LFresh(d) THEN dest[t] ELSE infos[t]]
      BY <1>22, <2>1
    <2>7. said' = [said EXCEPT !.clash = @ \/ \E t \in LFresh(d) : Life!Clashes(t, LEntry(t))]
      <3>1. (\E t \in TFresh(d) : Target!Clashes(t, TEntry(t))) <=> (\E t \in LFresh(d) : Life!Clashes(t, LEntry(t)))
        BY <1>8, <1>22, <1>23
      <3> QED
        BY <2>1, <3>1
    <2>8. agreed' = agreed \cup Life!Gone(d)
      BY <1>2, <2>1
    <2>9. ops' = [k \in DOMAIN LAdded(d) |-> Life!Swap(LAdded(d)[k], dest[LAdded(d)[k]], LEntry(LAdded(d)[k]), won)]
                      \o Life!Keeps({LEntry(t) : t \in LFresh(d) \ LMoved(d)}, {d})
                      \o [k \in DOMAIN LMoves(d) |-> <<Life!Rename(root[LMoves(d)[k]], LEntry(LMoves(d)[k]))>>]
                      \o [k \in DOMAIN LGone(d) |-> <<Life!Drop(root[LGone(d)[k]])>>]
      BY Zenon, <2>1, <2>2, <2>3, <2>4, <2>5
    <2> USE DEF LFresh, LEntry, LMoved, LAdded, LMoves, LGone
    <2> QED
      BY Zenon, <1>20, <1>21, <1>27, <2>1, <2>6, <2>7, <2>8, <2>9 DEF Life!ReAddDir
  <1> QED
    BY <1>26, <1>27

LEMMA SamePlanTarget == Target!PlanTarget <=> Life!PlanTarget
  BY DEF Target!PlanTarget, Life!PlanTarget, Target!Outside, Life!Outside, Target!Above, Life!Above,
         Target!Targets, Life!Targets, Target!ToSet, Life!ToSet, Target!IsDir, Life!IsDir, Target!Housed,
         Life!Housed, Target!Known, Life!Known, Target!New, Life!New, Target!AddOptions, Life!AddOptions,
         Target!Below, Life!Below, Target!AddAsks, Life!AddAsks, Target!Nothing, Life!Nothing,
         Target!ReplaceAsks, Life!ReplaceAsks, Target!Loses, Life!Loses, Target!Managed, Life!Managed,
         Target!Marks, Life!Marks, Target!AskedAll, Life!AskedAll, Target!Heeding, Life!Heeding, Target!Renames,
         Life!Renames, Target!SamePath, Life!SamePath, Target!SameName, Life!SameName, Target!Prefix,
         Life!Prefix, Target!Rename, Life!Rename, Target!Swap, Life!Swap, Target!Write, Life!Write, Target!Drop,
         Life!Drop, Target!Record, Life!Record, Target!Marked, Life!Marked, Target!Clashes, Life!Clashes

LEMMA SameTargetNext == [Target!Next]_(Target!lifecycleVars) => [Life!Next]_(Life!lifecycleVars)
  <1>1. Target!Start <=> Life!Start
    BY DEF Target!Start, Life!Start, Target!StartAdd, Life!StartAdd, Target!Begin, Life!Begin, Target!Readable,
           Life!Readable, Target!Targets, Life!Targets, Target!ToSet, Life!ToSet, Target!StateOf, Life!StateOf,
           Target!Marked, Life!Marked, Target!Nothing, Life!Nothing, Target!Nobody, Life!Nobody, Target!Missing,
           Life!Missing, Target!Taken, Life!Taken, Target!Found, Life!Found, Target!Below, Life!Below,
           Target!Above, Life!Above, Target!UpTo, Life!UpTo, Target!InOrder, Life!InOrder, Target!Cardinality,
           Life!Cardinality, Target!Position, Life!Position, Target!StartImport, Life!StartImport,
           Target!StartReAdd, Life!StartReAdd, Target!Scope, Life!Scope, Target!ExactAround, Life!ExactAround,
           Target!StartLeave, Life!StartLeave
  <1>2. Target!PlanSkip <=> Life!PlanSkip
    BY DEF Target!PlanSkip, Life!PlanSkip, Target!Outside, Life!Outside, Target!Above, Life!Above,
           Target!Targets, Life!Targets, Target!ToSet, Life!ToSet, Target!IsDir, Life!IsDir, Target!Pass,
           Life!Pass
  <1>3. Target!PlanFails <=> Life!PlanFails
    BY DEF Target!PlanFails, Life!PlanFails, Target!Outside, Life!Outside, Target!Above, Life!Above,
           Target!Targets, Life!Targets, Target!ToSet, Life!ToSet, Target!IsDir, Life!IsDir, Target!Housed,
           Life!Housed, Target!Known, Life!Known, Target!Stop, Life!Stop
  <1>4. Target!PlanRefused <=> Life!PlanRefused
    BY DEF Target!PlanRefused, Life!PlanRefused, Target!Outside, Life!Outside, Target!Above, Life!Above,
           Target!Targets, Life!Targets, Target!ToSet, Life!ToSet, Target!IsDir, Life!IsDir, Target!Housed,
           Life!Housed, Target!Known, Life!Known, Target!New, Life!New, Target!AddOptions, Life!AddOptions,
           Target!Below, Life!Below, Target!Answers, Life!Answers, Target!AddAsks, Life!AddAsks, Target!Nothing,
           Life!Nothing, Target!ReplaceAsks, Life!ReplaceAsks, Target!Loses, Life!Loses, Target!Managed,
           Life!Managed, Target!Marks, Life!Marks, Target!AskedAll, Life!AskedAll, Target!Heeding, Life!Heeding,
           Target!Pass, Life!Pass
  <1>5. Target!PlanEnds <=> Life!PlanEnds
    BY DEF Target!PlanEnds, Life!PlanEnds, Target!Keeps, Life!Keeps, Target!SetToSeq, Life!SetToSeq,
           Target!IsInjective, Life!IsInjective, Target!Cardinality, Life!Cardinality, Target!Keep, Life!Keep,
           Target!Cleared, Life!Cleared, Target!InOrder, Life!InOrder, Target!Position, Life!Position,
           Target!Below, Life!Below, Target!Targets, Life!Targets, Target!ToSet, Life!ToSet, Target!Above,
           Life!Above, Target!Known, Life!Known, Target!Managed, Life!Managed, Target!Marks, Life!Marks,
           Target!Drop, Life!Drop, Target!Record, Life!Record, Target!Marked, Life!Marked, Target!Nothing,
           Life!Nothing, Target!Wipe, Life!Wipe, Target!told, Life!told
  <1>6. Target!ReAddSame <=> Life!ReAddSame
    BY DEF Target!ReAddSame, Life!ReAddSame, Target!Modified, Life!Modified, Target!Implied, Life!Implied,
           Target!Outside, Life!Outside, Target!Above, Life!Above, Target!Targets, Life!Targets, Target!ToSet,
           Life!ToSet, Target!IsDir, Life!IsDir, Target!Pass, Life!Pass
  <1>7. Target!ReAddRefused <=> Life!ReAddRefused
    BY DEF Target!ReAddRefused, Life!ReAddRefused, Target!Modified, Life!Modified, Target!Implied, Life!Implied,
           Target!Outside, Life!Outside, Target!Above, Life!Above, Target!Targets, Life!Targets, Target!ToSet,
           Life!ToSet, Target!IsDir, Life!IsDir, Target!Asked, Life!Asked, Target!AskedAll, Life!AskedAll,
           Target!Pass, Life!Pass
  <1>8. Target!ReAddFile <=> Life!ReAddFile
    BY DEF Target!ReAddFile, Life!ReAddFile, Target!Modified, Life!Modified, Target!Implied, Life!Implied,
           Target!Outside, Life!Outside, Target!Above, Life!Above, Target!Targets, Life!Targets, Target!ToSet,
           Life!ToSet, Target!IsDir, Life!IsDir, Target!New, Life!New, Target!Asked, Life!Asked,
           Target!AskedAll, Life!AskedAll, Target!Swap, Life!Swap, Target!Managed, Life!Managed, Target!Marks,
           Life!Marks, Target!SameName, Life!SameName, Target!Prefix, Life!Prefix, Target!Write, Life!Write,
           Target!Drop, Life!Drop, Target!Record, Life!Record, Target!Marked, Life!Marked, Target!Clashes,
           Life!Clashes, Target!SamePath, Life!SamePath
  <1>9. Target!ReAddEnds <=> Life!ReAddEnds
    BY DEF Target!ReAddEnds, Life!ReAddEnds, Target!Stop, Life!Stop
  <1>10. Target!Leave <=> Life!Leave
    BY DEF Target!Leave, Life!Leave, Target!Leaves, Life!Leaves, Target!Managed, Life!Managed, Target!Marks,
           Life!Marks, Target!Pass, Life!Pass, Target!Answers, Life!Answers, Target!Asked, Life!Asked,
           Target!AskedAll, Life!AskedAll, Target!Silenced, Life!Silenced, Target!Leaving, Life!Leaving,
           Target!Drop, Life!Drop, Target!Delete, Life!Delete, Target!Marked, Life!Marked, Target!Nothing,
           Life!Nothing, Target!Destroy, Life!Destroy
  <1>11. Target!LeaveEnds <=> Life!LeaveEnds
    BY DEF Target!LeaveEnds, Life!LeaveEnds, Target!Stop, Life!Stop
  <1>12. Target!Do <=> Life!Do
    BY DEF Target!Do, Life!Do, Target!Possible, Life!Possible, Target!CanWrite, Life!CanWrite, Target!SamePath,
           Life!SamePath, Target!SameName, Life!SameName, Target!Prefix, Life!Prefix, Target!After, Life!After,
           Target!Without, Life!Without, Target!Below, Life!Below, Target!Targets, Life!Targets, Target!ToSet,
           Life!ToSet, Target!Above, Life!Above, Target!Renamed, Life!Renamed, Target!Nothing, Life!Nothing,
           Target!Unrecorded, Life!Unrecorded, Target!Marked, Life!Marked, Target!told, Life!told,
           Target!Reached, Life!Reached, Target!IsDir, Life!IsDir
  <1>13. Target!DoFails <=> Life!DoFails
    BY DEF Target!DoFails, Life!DoFails, Target!Possible, Life!Possible, Target!CanWrite, Life!CanWrite,
           Target!SamePath, Life!SamePath, Target!SameName, Life!SameName, Target!Prefix, Life!Prefix,
           Target!Reached, Life!Reached, Target!Above, Life!Above, Target!Targets, Life!Targets,
           Target!ToSet, Life!ToSet, Target!IsDir, Life!IsDir, Target!Stop, Life!Stop
  <1>14. Target!Done <=> Life!Done
    BY DEF Target!Done, Life!Done, Target!Stop, Life!Stop, Target!told, Life!told
  <1>15. Target!Cut <=> Life!Cut
    BY DEF Target!Cut, Life!Cut, Target!Stop, Life!Stop
  <1>16. Target!Mend <=> Life!Mend
    BY DEF Target!Mend, Life!Mend, Target!Without, Life!Without, Target!SameName, Life!SameName, Target!Prefix,
           Life!Prefix, Target!Below, Life!Below, Target!Targets, Life!Targets, Target!ToSet, Life!ToSet,
           Target!Above, Life!Above, Target!NoCommand, Life!NoCommand, Target!Nothing, Life!Nothing,
           Target!Nobody, Life!Nobody
  <1>17. UNCHANGED Target!lifecycleVars => UNCHANGED Life!lifecycleVars
    BY DEF Target!lifecycleVars, Life!lifecycleVars, Target!planning, Life!planning, Target!told, Life!told
  <1>18. Target!Next => Life!Next
    BY <1>1, <1>2, <1>3, <1>4, <1>5, <1>6, <1>7, <1>8, <1>9, <1>10, <1>11, <1>12, <1>13, <1>14, <1>15, <1>16,
       SamePlanTarget, SameReAddDir DEF Target!Next, Life!Next
  <1> QED
    BY <1>17, <1>18

\* While the commands work on targets, the invariant of LifecycleProofs holds.
TargetInv == part = "targets" => Life!IInv

LEMMA TargetInit == Init => TargetInv
  BY SameTargetInit, SameAssumption, Life!InitIInv DEF Init, TargetInv

LEMMA TargetStep == TargetInv /\ [Next]_commandsVars => TargetInv'
  <1> SUFFICES ASSUME TargetInv, [Next]_commandsVars, part' = "targets" PROVE Life!IInv'
    BY DEF TargetInv
  <1>1. CASE Next
    BY <1>1, SameTargetNext, SameAssumption, Life!StepIInv
       DEF TargetInv, Next, TargetNext, EditorNext, RepoNext, ConfigNext
  <1>2. CASE UNCHANGED commandsVars
    <2>1. UNCHANGED Target!lifecycleVars /\ part = "targets"
      <3>1. UNCHANGED <<part, targetVars, pc, left, cmd, dest>>
        BY <1>2 DEF commandsVars
      <3> QED
        BY <3>1 DEF targetVars, Target!lifecycleVars, Target!planning, Target!told
    <2> QED
      BY <2>1, SameTargetNext, SameAssumption, Life!StepIInv DEF TargetInv
  <1> QED
    BY <1>1, <1>2

LEMMA TargetInvariant == Spec => []TargetInv
  BY TargetInit, TargetStep, PTL DEF Spec

\* However a command is cut off, at whatever step and with whatever answers, every
\* target that was managed keeps a source entry or is meant to lose it, and what
\* destroy removes from the source is gone from the destination (SourceState.Add,
\* runReAddCmd, runImportCmd, runForgetCmd, runDestroyCmd).
THEOREM NothingIsLost == Spec => []NothingLost
  <1>1. Life!NothingLost => Target!NothingLost
    <2>1. /\ Target!Targets = Life!Targets /\ Target!Nothing = Life!Nothing
          /\ Target!NoCommand = Life!NoCommand /\ Target!Unrecorded = Life!Unrecorded
      BY DEF Target!Targets, Life!Targets, Target!ToSet, Life!ToSet, Target!Unrecorded, Life!Unrecorded,
             Target!Marked, Life!Marked, Target!NoCommand, Life!NoCommand, Target!Nothing, Life!Nothing
    <2>2. \A t : Target!Below(t) = Life!Below(t)
      BY DEF Target!Below, Life!Below, Target!Targets, Life!Targets, Target!ToSet, Life!ToSet, Target!Above,
             Life!Above
    <2>3. \A e : Target!Managed(e) <=> Life!Managed(e)
      BY DEF Target!Managed, Life!Managed, Target!Marks, Life!Marks
    <2>4. \A t : Life!Intended(t) <=> Target!Intended(t)
      BY DEF Target!Intended, Life!Intended, Target!Below, Life!Below, Target!Targets, Life!Targets,
             Target!ToSet, Life!ToSet, Target!Above, Life!Above
    <2>5. Life!NeverLost => Target!NeverLost
      BY <2>1, <2>3, <2>4 DEF Life!NeverLost, Target!NeverLost
    <2>6. Life!DestroyResumes => Target!DestroyResumes
      BY <2>1, <2>3 DEF Life!DestroyResumes, Target!DestroyResumes
    <2> QED
      BY <2>5, <2>6 DEF Life!NothingLost, Target!NothingLost
  <1>2. TargetInv => NothingLost
    BY <1>1, Life!IInvImpliesNothingLost DEF TargetInv, NothingLost
  <1> QED
    BY <1>2, TargetInvariant, PTL

\* A file loses its encrypted, private or template attribute only after the user
\* agreed, and an answer of all ends the questions of its kind (defaultReplaceFunc,
\* defaultPreAddFunc).
THEOREM AskedBeforeLost == Spec => []AsksFirst
  <1>1. Life!AsksFirst <=> Target!AsksFirst
    BY DEF Target!AsksFirst, Life!AsksFirst, Target!AttributesAgreed, Life!AttributesAgreed, Target!Targets,
           Life!Targets, Target!ToSet, Life!ToSet, Target!Managed, Life!Managed, Target!Marks, Life!Marks,
           Target!IsDir, Life!IsDir, Target!Below, Life!Below, Target!Above, Life!Above, Target!AllIsFinal,
           Life!AllIsFinal
  <1>2. TargetInv => AsksFirst
    BY <1>1, Life!IInvImpliesAsksFirst DEF TargetInv, AsksFirst
  <1> QED
    BY <1>2, TargetInvariant, PTL

-----------------------------------------------------------------------------

\* Every variable keeps its type, whichever part of the commands works.
THEOREM TypeCorrect == Spec => []TypeOK
  <1>1. Life!TypeOK => Target!TypeOK
    <2>1. Target!Targets = Life!Targets /\ Target!Dest = Life!Dest
      BY DEF Target!Targets, Life!Targets, Target!ToSet, Life!ToSet, Target!Dest, Life!Dest, Target!Nothing,
             Life!Nothing
    <2>2. Target!Source = Life!Source /\ Target!Marked(Home, "none") = Life!Marked(Home, "none")
      BY DEF Target!Marked, Life!Marked, Target!Source, Life!Source, Target!Targets, Life!Targets, Target!ToSet,
             Life!ToSet, Target!Attrs, Life!Attrs
    <2>3. Target!ToSet(todo) = Life!ToSet(todo)
      BY DEF Target!ToSet, Life!ToSet
    <2> QED
      BY <2>1, <2>2, <2>3 DEF Life!TypeOK, Target!TypeOK
  <1>2. Life!IInv => Target!TypeOK
    BY <1>1, Life!TypedImpliesTypeOK DEF Life!IInv
  <1>3. TargetInv /\ RepoInv /\ ConfigInv /\ EditorInv => TypeOK
    BY <1>2 DEF TypeOK, TargetInv, RepoInv, RInv, ConfigInv, CInv, EditorInv, EInv
  <1> QED
    BY <1>3, TargetInvariant, RepoInvariant, ConfigInvariant, EditorInvariant, PTL
=============================================================================
