------------------------------ MODULE Commands ------------------------------
(***************************************************************************)
(* The commands that change the source directory and what belongs to it:   *)
(* add, re-add, import, forget and destroy (Lifecycle), edit and merge     *)
(* (Edit), the repository behind the source directory (Git), and init and  *)
(* the config file (ConfigFile). A process of chezmoi runs one command; the *)
(* behaviours of this module are those of the four parts side by side, each *)
(* of one part while the variables of the others rest.                     *)
(***************************************************************************)
EXTENDS Naturals, FiniteSets, Sequences

CONSTANTS
    Parts,                                                   \* the parts that are checked
    Order, Parent, Home, Contents, Worlds, TargetCommands,   \* of Lifecycle
    Texts, Sessions, MaxSaves, MaxOutside,                   \* of Edit
    Changes, Inside,                                         \* of Git
    Formats, Settings, Templates, ConfigCommands, MaxEdits,  \* of ConfigFile
    MaxRuns, MaxStops,                                       \* of Lifecycle and ConfigFile
    MaxFaults                                                \* of Edit and Git

VARIABLES
    part,
    src, keeps, db, world, root, todo, dirs, infos, news, full, ops, renames, agreed, all, pestered, said,
    source, target, open, copy, before, at, got, cached, events, saved, outside, raced, failed,
    work, index, head, origin, conf, status, pulled, added, by, brought, meddled, calm, ended,
    tmpl, repo, git, files, recorded, mem, view, made, warned, trust, outcome,
    pc, left, cmd, dest

Target == INSTANCE LifecycleProps WITH Commands <- TargetCommands
Editor == INSTANCE Edit
Repo   == INSTANCE Git
Config == INSTANCE ConfigFile WITH Commands <- ConfigCommands

ASSUME CommandsAssumption ==
    Target!LifecycleAssumption /\ Editor!EditAssumption /\ Repo!GitAssumption /\ Config!ConfigAssumption

targetVars == <<src, keeps, db, world, root, todo, dirs, infos, news, full, ops, renames, agreed, all, pestered, said>>
editorVars == <<source, target, open, copy, before, at, got, cached, events, saved, outside, raced, failed>>
repoVars   == <<work, index, head, origin, conf, status, pulled, added, by, brought, meddled, calm, ended>>
configVars == <<tmpl, repo, git, files, recorded, mem, view, made, warned, trust, outcome>>
commandsVars == <<part, targetVars, editorVars, repoVars, configVars, pc, left, cmd, dest>>

\* What the variables of a part are while another one works.
Rests == "rests"

TargetRests ==
    /\ src = Rests /\ keeps = Rests /\ db = Rests /\ world = Rests /\ root = Rests /\ todo = Rests
    /\ dirs = Rests /\ infos = Rests /\ news = Rests /\ full = Rests /\ ops = Rests /\ renames = Rests
    /\ agreed = Rests /\ all = Rests /\ pestered = Rests /\ said = Rests
EditorRests ==
    /\ source = Rests /\ target = Rests /\ open = Rests /\ copy = Rests /\ before = Rests /\ at = Rests
    /\ got = Rests /\ cached = Rests /\ events = Rests /\ saved = Rests /\ outside = Rests
    /\ raced = Rests /\ failed = Rests
RepoRests ==
    /\ work = Rests /\ index = Rests /\ head = Rests /\ origin = Rests /\ conf = Rests /\ status = Rests
    /\ pulled = Rests /\ added = Rests /\ by = Rests /\ brought = Rests /\ meddled = Rests
    /\ calm = Rests /\ ended = Rests
ConfigRests ==
    /\ tmpl = Rests /\ repo = Rests /\ git = Rests /\ files = Rests /\ recorded = Rests /\ mem = Rests
    /\ view = Rests /\ made = Rests /\ warned = Rests /\ trust = Rests /\ outcome = Rests

Init ==
    /\ part \in Parts
    /\ \/ part = "targets" /\ Target!Init /\ EditorRests /\ RepoRests /\ ConfigRests
       \/ part = "editor" /\ Editor!Init /\ TargetRests /\ RepoRests /\ ConfigRests /\ dest = Rests
       \/ part = "repo" /\ Repo!Init /\ TargetRests /\ EditorRests /\ ConfigRests /\ cmd = Rests
       \/ part = "config" /\ Config!Init /\ TargetRests /\ EditorRests /\ RepoRests /\ dest = Rests

TargetNext == part = "targets" /\ Target!Next /\ UNCHANGED <<part, editorVars, repoVars, configVars>>
EditorNext == part = "editor" /\ Editor!Next /\ UNCHANGED <<part, targetVars, repoVars, configVars, dest>>
RepoNext   == part = "repo" /\ Repo!Next /\ UNCHANGED <<part, targetVars, editorVars, configVars, cmd>>
ConfigNext == part = "config" /\ Config!Next /\ UNCHANGED <<part, targetVars, editorVars, repoVars, dest>>

Next == TargetNext \/ EditorNext \/ RepoNext \/ ConfigNext

Spec == Init /\ [][Next]_commandsVars

-----------------------------------------------------------------------------
(* The properties of the parts, each stated and explained in its module.   *)

\* Every variable has its type in the part that uses it.
TypeOK ==
    /\ part = "targets" => Target!TypeOK
    /\ part = "editor" => Editor!TypeOK
    /\ part = "repo" => Repo!TypeOK
    /\ part = "config" => Config!TypeOK

\* Lifecycle: what adding and removing targets leaves behind, also cut off.
NothingLost == part = "targets" => Target!NothingLost
EndsClean   == part = "targets" => Target!EndsClean
AsksFirst   == part = "targets" => Target!AsksFirst

\* Edit: what becomes of edits.
EditsLand == part = "editor" => Editor!EditsLand

\* Git: what is committed, pushed and applied.
ChangesTravel == part = "repo" => Repo!ChangesTravel

\* ConfigFile: what the config file holds, and what is said of it.
ConfigTrusted == part = "config" => Config!ConfigTrusted

-----------------------------------------------------------------------------
(* What the documentation says of them.                                    *)

\* import.md, of --remove-destination: "Remove destination (in the source state)
\* before importing."
ImportStaysBelow == part = "targets" => Target!ImportStaysBelow
\* re-add.md: "Re-add modified files in the target state, preserving any
\* encrypted_ attributes."
ReAddKeepsAttributes == part = "targets" => Target!ReAddKeepsAttributes
\* common-flags/init.md, of verify, archive and dump too: "Regenerate and reload
\* the config file from its template before computing the target state."
InitRegenerates == part = "config" => Config!InitRegenerates
=============================================================================
