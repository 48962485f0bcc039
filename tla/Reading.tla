------------------------------ MODULE Reading ------------------------------
(***************************************************************************)
(* The parts of chezmoi that work while the source state is read: the walk *)
(* of the source directory, the download of externals, the answers of      *)
(* GitHub and those of password managers. ReadSource takes what the other  *)
(* three deliver as given, so that the behaviours of this module are those *)
(* of the four side by side: each behaviour is one of one part, and the    *)
(* variables of the others rest. What each part promises is checked of it. *)
(***************************************************************************)
EXTENDS Integers, Sequences, FiniteSets

CONSTANTS
  Parts,                                           \* the parts that are checked
  Sources, MaxRounds,                              \* of ReadSource
  Externals, Contents, Headers, Down, MaxChanges,  \* of External
  Functions, Repos, Goroutines, Periods,           \* of GitHubCache,
  MaxVersion, MaxRequests, MaxTicks,               \* whose clock is its own
  Managers, Items, MaxCalls, Racing,               \* of Secrets
  MaxTime,                                         \* of External
  MaxRuns                                          \* of both External and GitHubCache

VARIABLES
  part,
  source, phase, pool, entries, ignore, remove, externals, data, cached, executed, root, before, round,
  ext, refresh, served, history, seen, skipped, results, changes,
  period, published, stored, mode, recorded, memory, client, asking, began, answer,
  conf, held, broken, checked, log, answered, left,
  todo, now, requests, run, cache, job

Source  == INSTANCE ReadSource
Ext     == INSTANCE External
GitHub  == INSTANCE GitHubCache WITH MaxTime <- MaxTicks
Secret  == INSTANCE Secrets

ASSUME ReadingAssumption ==
  Source!SourceAssumption /\ GitHub!GitHubAssumption /\ Ext!ExternalAssumption
  /\ Secret!SecretsAssumption

sourceVars   == <<source, phase, pool, entries, ignore, remove, externals, data, cached, executed, root, before, round>>
externalVars == <<ext, refresh, served, history, seen, skipped, results, changes>>
gitHubVars   == <<period, published, stored, mode, recorded, memory, client, asking, began, answer>>
secretVars   == <<conf, held, broken, checked, log, answered, left>>
readingVars  == <<part, sourceVars, externalVars, gitHubVars, secretVars, todo, now, requests, run, cache, job>>

(* What the variables of a part are while another one works.                *)
Rests == "rests"

SourceRests ==
  /\ source = Rests /\ phase = Rests /\ pool = Rests /\ entries = Rests /\ ignore = Rests
  /\ remove = Rests /\ externals = Rests /\ data = Rests /\ cached = Rests /\ executed = Rests
  /\ root = Rests /\ before = Rests /\ round = Rests
ExternalRests ==
  /\ ext = Rests /\ refresh = Rests /\ served = Rests /\ history = Rests /\ seen = Rests
  /\ skipped = Rests /\ results = Rests /\ changes = Rests
GitHubRests ==
  /\ period = Rests /\ published = Rests /\ stored = Rests /\ mode = Rests /\ recorded = Rests
  /\ memory = Rests /\ client = Rests /\ asking = Rests /\ began = Rests /\ answer = Rests
SecretRests ==
  /\ conf = Rests /\ held = Rests /\ broken = Rests /\ checked = Rests /\ log = Rests
  /\ answered = Rests /\ left = Rests

Init ==
  /\ part \in Parts
  /\ \/ /\ part = "source" /\ Source!Init
        /\ ExternalRests /\ GitHubRests /\ SecretRests
        /\ now = Rests /\ requests = Rests /\ run = Rests /\ cache = Rests /\ job = Rests
     \/ /\ part = "external" /\ Ext!Init
        /\ SourceRests /\ GitHubRests /\ SecretRests
     \/ /\ part = "github" /\ GitHub!Init
        /\ SourceRests /\ ExternalRests /\ SecretRests
        /\ todo = Rests /\ cache = Rests /\ job = Rests
     \/ /\ part = "secrets" /\ Secret!Init
        /\ SourceRests /\ ExternalRests /\ GitHubRests
        /\ todo = Rests /\ now = Rests /\ requests = Rests

SourceNext ==
  /\ part = "source" /\ Source!Next
  /\ UNCHANGED <<part, externalVars, gitHubVars, secretVars, now, requests, run, cache, job>>
ExternalNext ==
  /\ part = "external" /\ Ext!Next
  /\ UNCHANGED <<part, sourceVars, gitHubVars, secretVars>>
GitHubNext ==
  /\ part = "github" /\ GitHub!Next
  /\ UNCHANGED <<part, sourceVars, externalVars, secretVars, todo, cache, job>>
SecretsNext ==
  /\ part = "secrets" /\ Secret!Next
  /\ UNCHANGED <<part, sourceVars, externalVars, gitHubVars, todo, now, requests>>

Next == SourceNext \/ ExternalNext \/ GitHubNext \/ SecretsNext

Spec == Init /\ [][Next]_readingVars

-----------------------------------------------------------------------------
(* The properties of the parts, each stated and explained in its module.    *)

\* Every variable has its type in the part that uses it.
TypeOK ==
  /\ part = "source" => Source!TypeOK
  /\ part = "external" => Ext!TypeOK
  /\ part = "github" => GitHub!TypeOK
  /\ part = "secrets" => Secret!TypeOK

\* ReadSource: what of the source is managed, what a source directory that was
\* applied is read as, and that reading it implements SourceSpec.
TargetsWellFormed == part = "source" => Source!TargetsWellFormed
AppliedReadsAlike == part = "source" => Source!AppliedReadsAlike
ReadsDeclared ==
  /\ part = "source" => Source!SpecDeclared!Init
  /\ [][part = "source" => Source!ReadsOrStutters]_readingVars

\* External: what is used of what was downloaded, and what of an archive.
DataTrusted   == part = "external" => Ext!DataTrusted
DownloadsKept ==
  [][part = "external" => Ext!KeepsDownloads /\ Ext!AsksAfterPeriod]_readingVars

\* GitHubCache: how old an answer is, and how seldom GitHub is asked.
AnswersFresh == part = "github" => GitHub!AnswersFresh

\* Secrets: whose answer a template gets, and what the user is asked.
SecretsGuarded == part = "secrets" => Secret!SecretsGuarded
=============================================================================
