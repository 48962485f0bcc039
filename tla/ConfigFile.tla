----------------------------- MODULE ConfigFile -----------------------------
(***************************************************************************)
(* The config file: how a command reads it, how init, and any command with *)
(* --init, make it from its template, and how it is noticed later that the *)
(* template has changed. internal/cmd: initcmd.go, config.go               *)
(* (persistentPreRunRootE, readConfig, createAndReloadConfigFile,          *)
(* applyArgs), interactivetemplatefuncs.go, prompt.go.                     *)
(*                                                                         *)
(* Of a config file the model knows one setting, which a flag can also     *)
(* give, and one piece of data, which its template asks for.               *)
(***************************************************************************)
EXTENDS Naturals

CONSTANTS
    Formats,     \* toml, yaml and json: the extensions that a config file can have
    Settings,    \* what the setting can be
    Templates,   \* [id, format, set, ok, ask]: ok when it makes a valid file
    Commands,    \* [name, init, dry, force, flag, prompt, data, defaults, given, apply]
    MaxRuns, MaxStops, MaxEdits   \* bounds

Unset == "unset"
None  == [id |-> "none"]

\* What can be answered: values of each type, of which two are among the
\* choices offered and a string can be read as a bool.
Values ==
    {<<"bool", "true">>, <<"string", "true">>, <<"string", "a">>, <<"string", "z">>,
     <<"int", "1">>, <<"int", "-1">>, <<"list", "a">>, <<"list", "z">>, <<"list", "true">>}
NoValue  == <<"none", "">>
\* What a file of each format is decoded to: YAML has an int that is not
\* negative read as an unsigned one.
Unsigned == <<"uint", "1">>
ReadBack(format, v) == IF format = "yaml" /\ v = <<"int", "1">> THEN Unsigned ELSE v

\* A question: [kind, once, default].
Kinds == {"bool", "choice", "int", "multichoice", "string"}

Questions == [kind : Kinds, once : BOOLEAN, default : Values \cup {NoValue}]

\* A template is recorded by a hash of its contents, which is not empty.
ConfigAssumption ==
    /\ Unset \notin Settings /\ None \notin Templates
    /\ \A t \in Templates :
          /\ t.id # "" /\ \A u \in Templates : u.id = t.id => u = t
          /\ t.format \in Formats /\ t.set \in Settings \cup {Unset} /\ t.ok \in BOOLEAN /\ t.ask \in Questions
    /\ \A c \in Commands :
          /\ c.name \in {"init", "apply", "status", "verify"} /\ c.flag \in Settings \cup {Unset}
          /\ {c.init, c.dry, c.force, c.prompt, c.data, c.defaults, c.apply} \subseteq BOOLEAN
    /\ MaxRuns \in Nat /\ MaxStops \in Nat /\ MaxEdits \in Nat

VARIABLES
    tmpl,     \* the template in the source directory, or None
    repo,     \* what the remote repository holds
    git,      \* the working tree is a repository
    files,    \* the config file of each format, or None
    recorded, \* the hash in the configState bucket: a template's id, or ""
    cmd, pc,
    mem,      \* c: [set, data, force]
    view,     \* the process's persistent state, which may be a copy
    made,     \* what the template yielded
    warned,
    left,
    \* History:
    trust,    \* the record was made with the config file that is there
    outcome   \* of the last command: "none", "ok", "failed", "panic"

configVars == <<tmpl, repo, git, files, recorded, cmd, pc, mem, view, made, warned, left, trust, outcome>>

Ids   == {t.id : t \in Templates}
Files == [from : Ids, set : Settings \cup {Unset}, data : Values \cup {NoValue}, ok : BOOLEAN]
NoCommand == [name |-> "none"]
Memories  == [set : Settings \cup {Unset}, data : Values \cup {Unsigned, NoValue}, force : BOOLEAN]
Bounds    == [runs : 0 .. MaxRuns, stops : 0 .. MaxStops, edits : 0 .. MaxEdits]

TypeOK ==
    /\ tmpl \in Templates \cup {None} /\ repo \in Templates \cup {None} /\ git \in BOOLEAN
    /\ files \in [Formats -> Files \cup {None}]
    /\ recorded \in Ids \cup {""} /\ view \in Ids \cup {""}
    /\ cmd \in Commands \cup {NoCommand}
    /\ pc \in {"idle", "clone", "create", "write", "record", "reload", "check", "apply"}
    /\ mem \in Memories
    /\ made \in Files \cup {None}
    /\ warned \in BOOLEAN /\ trust \in BOOLEAN
    /\ left \in Bounds
    /\ outcome \in {"none", "ok", "failed", "panic"}

\* A working tree that is there was cloned; nothing looks at the remote again.
Init ==
    /\ repo \in Templates \cup {None} /\ git \in BOOLEAN
    /\ tmpl = IF git THEN repo ELSE None
    /\ files = [f \in Formats |-> None] /\ recorded = ""
    /\ cmd = NoCommand /\ pc = "idle"
    /\ mem = [set |-> Unset, data |-> NoValue, force |-> FALSE] /\ view = "" /\ made = None
    /\ warned = FALSE /\ left = [runs |-> MaxRuns, stops |-> MaxStops, edits |-> MaxEdits]
    /\ trust = TRUE /\ outcome = "none"

-----------------------------------------------------------------------------
(* Questions.                                                              *)

\* The types that an answer to each kind of question has.
TypeOf(kind) ==
    CASE kind = "bool" -> "bool" [] kind = "int" -> "int" [] kind = "multichoice" -> "list"
      [] kind \in {"choice", "string"} -> "string"
Bool == <<"bool", "true">>

\* A choice is one of those offered, unless a flag or the file gives it.
Valid(kind, v) ==
    v[1] = TypeOf(kind) /\ (kind \in {"choice", "multichoice"} => v[2] = "a")

\* prompt*Once: the value that is there, when it is of the type; a bool may be
\* a string that spells one, and an int may not be an unsigned one.
Existing(q, v) ==
    CASE v = NoValue -> {}
      [] q.kind = "bool" /\ v = <<"string", "true">> -> {Bool}
      [] v # NoValue /\ v[1] = TypeOf(q.kind) -> {v}
      [] OTHER -> {}

\* The prompts' flags: parsed for a bool and an int, taken as they are for the
\* others, whatever choices are offered.
Given(q, c) == {v \in Values : v = <<TypeOf(q.kind), c.given>>}

\* read*: until the answer is valid, with the default for an empty one.
Read(q) == {v \in Values : Valid(q.kind, v)} \cup ({q.default} \ {NoValue})

\* What the template's question can yield, given the value that is there: no
\* answer when that is no list and a list is wanted, or the default is not
\* among the choices.
Answers(q, v, c) ==
    LET kept == IF q.once /\ ~c.prompt THEN Existing(q, v) ELSE {}
    IN CASE kept # {} -> kept
         [] kept = {} /\ q.once /\ ~c.prompt /\ q.kind = "multichoice" /\ v # NoValue -> {}
         [] OTHER ->
              IF c.given # "" THEN Given(q, c)
              ELSE IF q.default = NoValue THEN Read(q)
              ELSE IF ~Valid(q.kind, q.default) THEN {}
              ELSE IF c.defaults THEN {q.default}
              ELSE Read(q)

-----------------------------------------------------------------------------
(* A command begins: persistentPreRunRootE.                                *)

Present == {f \in Formats : files[f] # None}

\* The system that the destination, and so the config file, is written
\* through: init and apply modify it; diff and status are dry runs; verify,
\* archive and dump only read.
System(c) ==
    CASE c.dry \/ c.name = "status" -> "dry"
      [] ~c.dry /\ c.name \in {"init", "apply"} -> "real"
      [] ~c.dry /\ c.name = "verify" -> "read-only"
\* The persistent state of a command that does not change it is a copy.
OwnState(c) == System(c) = "real"

\* Two config files are an error. The file is read over the defaults, and the
\* flags are set anew after it.
Begin ==
    /\ pc = "idle" /\ left.runs > 0 /\ \A f, g \in Present : f = g
    /\ \E c \in Commands :
         /\ cmd' = c
         /\ LET old == IF Present = {} THEN None ELSE files[CHOOSE f \in Present : TRUE]
                set == IF c.flag # Unset THEN c.flag ELSE IF old = None THEN Unset ELSE old.set
                got == IF old = None THEN NoValue ELSE ReadBack(CHOOSE f \in Present : TRUE, old.data)
            IN mem' = [set |-> set, data |-> got, force |-> c.force]
         /\ pc' = CASE c.name = "init" -> "clone"
                    [] c.name # "init" /\ c.init -> "create"
                    [] c.name # "init" /\ ~c.init -> "check"
    /\ view' = recorded /\ made' = None /\ warned' = FALSE /\ outcome' = "none"
    /\ left' = [left EXCEPT !.runs = @ - 1]
    /\ UNCHANGED <<tmpl, repo, git, files, recorded, trust>>

\* builtinGitInit brings nothing, and builtinGitClone what the repository holds.
Brought == {tmpl, repo}

\* runInitCmd: git init, or git clone, unless there is a repository. A dry run
\* does it as well.
Clone ==
    /\ pc = "clone" /\ pc' = "create"
    /\ git' = TRUE
    /\ tmpl' \in IF git THEN {tmpl} ELSE Brought
    /\ UNCHANGED <<repo, files, recorded, cmd, mem, view, made, warned, left, trust, outcome>>

-----------------------------------------------------------------------------
(* createAndReloadConfigFile.                                              *)

End(how) == pc' = "idle" /\ outcome' = how

AfterCreate == IF cmd.name = "init" /\ ~cmd.apply THEN "idle" ELSE "check"

\* The configState record, in the state or in its copy.
SetRecord(id) ==
    /\ view' = id
    /\ recorded' = IF OwnState(cmd) THEN id ELSE recorded

\* findConfigTemplate: none. The record is removed, a config file is not.
NoTemplate ==
    /\ pc = "create" /\ tmpl = None
    /\ SetRecord("") /\ trust' = (trust /\ (recorded = "" \/ ~OwnState(cmd)))
    /\ pc' = AfterCreate /\ outcome' = IF AfterCreate = "idle" THEN "ok" ELSE outcome
    /\ UNCHANGED <<tmpl, repo, git, files, cmd, mem, made, warned, left>>

\* createConfigFileContents: the template sees the data of the old config file,
\* unless init --data=false.
Known == IF cmd.data THEN mem.data ELSE NoValue

\* A file that cannot be decoded is not written.
Execute ==
    /\ pc = "create" /\ tmpl # None /\ tmpl.ok
    /\ \E v \in Answers(tmpl.ask, Known, cmd) :
         made' = [from |-> tmpl.id, set |-> tmpl.set, data |-> v, ok |-> tmpl.ok]
    /\ pc' = "write"
    /\ UNCHANGED <<tmpl, repo, git, files, recorded, cmd, mem, view, warned, left, trust, outcome>>

\* The template, the user, or the file that it makes is at fault; a prompt that
\* is cancelled ends the command with status 0.
ExecuteFails ==
    /\ pc = "create" /\ tmpl # None
    /\ End("failed")
    /\ UNCHANGED <<tmpl, repo, git, files, recorded, cmd, mem, view, made, warned, left, trust>>

\* A dry run writes nothing; the read-only system panics.
Write ==
    /\ pc = "write" /\ System(cmd) # "read-only"
    /\ files' = IF System(cmd) = "real" THEN [files EXCEPT ![tmpl.format] = made] ELSE files
    /\ trust' = (trust /\ System(cmd) = "dry")
    /\ pc' = "record"
    /\ UNCHANGED <<tmpl, repo, git, recorded, cmd, mem, view, made, warned, left, outcome>>

WritePanics ==
    /\ pc = "write" /\ System(cmd) = "read-only"
    /\ End("panic")
    /\ UNCHANGED <<tmpl, repo, git, files, recorded, cmd, mem, view, made, warned, left, trust>>

Record ==
    /\ pc = "record"
    /\ SetRecord(tmpl.id)
    /\ trust' = (System(cmd) = "real" \/ trust)
    /\ pc' = "reload"
    /\ UNCHANGED <<tmpl, repo, git, files, cmd, mem, made, warned, left, outcome>>

\* The new file is decoded over what c holds: over the flags, and leaving what
\* it does not set.
Decoded == IF made.set = Unset THEN mem.set ELSE made.set

Reload ==
    /\ pc = "reload"
    /\ mem' = [mem EXCEPT !.set = Decoded, !.data = ReadBack(tmpl.format, made.data)]
    /\ pc' = AfterCreate /\ outcome' = IF AfterCreate = "idle" THEN "ok" ELSE outcome
    /\ UNCHANGED <<tmpl, repo, git, files, recorded, cmd, view, made, warned, left, trust>>

-----------------------------------------------------------------------------
(* applyArgs.                                                              *)

Current == IF tmpl = None THEN "" ELSE tmpl.id

\* A slip: only a record that exists is compared.
CheckRecorded ==
    /\ pc = "check" /\ ~(mem.force /\ view # Current)
    /\ warned' = (view # "" /\ view # Current)
    /\ pc' = "apply"
    /\ UNCHANGED <<tmpl, repo, git, files, recorded, cmd, mem, view, made, left, trust, outcome>>

Check ==
    /\ pc = "check" /\ ~(mem.force /\ view # Current)
    /\ warned' = (view # Current)
    /\ pc' = "apply"
    /\ UNCHANGED <<tmpl, repo, git, files, recorded, cmd, mem, view, made, left, trust, outcome>>

\* With --force the record follows the template, and the config file does not.
CheckForced ==
    /\ pc = "check" /\ mem.force /\ view # Current
    /\ SetRecord(Current) /\ trust' = (trust /\ ~OwnState(cmd))
    /\ pc' = "apply"
    /\ UNCHANGED <<tmpl, repo, git, files, cmd, mem, made, warned, left, outcome>>

Apply ==
    /\ pc = "apply"
    /\ End("ok")
    /\ UNCHANGED <<tmpl, repo, git, files, recorded, cmd, mem, view, made, warned, left, trust>>

-----------------------------------------------------------------------------
(* The command is killed or fails; the template changes, by the user or by *)
(* git pull; the user removes a config file.                               *)

Stop ==
    /\ pc # "idle" /\ left.stops > 0
    /\ End("failed") /\ left' = [left EXCEPT !.stops = @ - 1]
    /\ UNCHANGED <<tmpl, repo, git, files, recorded, cmd, mem, view, made, warned, trust>>

ChangeTemplate ==
    /\ pc = "idle" /\ git /\ left.edits > 0
    /\ tmpl' \in (Templates \cup {None}) \ {tmpl}
    /\ left' = [left EXCEPT !.edits = @ - 1] /\ outcome' = "none"
    /\ UNCHANGED <<repo, git, files, recorded, cmd, pc, mem, view, made, warned, trust>>

RemoveFile ==
    /\ pc = "idle"
    /\ \E f \in Present : files' = [files EXCEPT ![f] = None]
    /\ trust' = FALSE /\ outcome' = "none"
    /\ UNCHANGED <<tmpl, repo, git, recorded, cmd, pc, mem, view, made, warned, left>>

Next ==
    \/ Begin \/ Clone \/ NoTemplate \/ Execute \/ ExecuteFails \/ Write \/ WritePanics \/ Record \/ Reload
    \/ Check \/ CheckForced \/ Apply \/ Stop \/ ChangeTemplate \/ RemoveFile

Spec == Init /\ [][Next]_configVars

-----------------------------------------------------------------------------
(* Properties.                                                             *)

\* Once a template has been answered, a command that makes the config file
\* again keeps the answer and does not ask, as long as the question is one to
\* be asked once and its type is the same (prompt*Once, init --data). That does
\* not hold of an int in a YAML file that is not negative: it comes back as
\* Unsigned, no int64, and promptIntOnce asks for it again.
AnsweredOnce ==
    (pc \in {"write", "record", "reload"} /\ tmpl.ask.once /\ ~cmd.prompt /\ cmd.data) =>
        (mem.data[1] = TypeOf(tmpl.ask.kind) => made.data = mem.data)

\* Whatever was in the old file, on the command line or answered, the data has
\* the type that the template asks for (prompt*, prompt*Once, read*).
DataTyped == \A t \in Templates, f \in Formats :
    files[f] # None /\ files[f].from = t.id => files[f].data[1] = TypeOf(t.ask.kind)

\* A template that makes an invalid config file does not replace a valid one:
\* every command would fail from then on (decodeConfigContents before
\* WriteFile).
NeverInvalid == \A f \in Formats : files[f] = None \/ files[f].ok

\* apply is silent about the config template only if the config file was made
\* from it: since then, nobody removed the file, no --force set the record
\* without the file, and no command was cut off between the two.
SilentIsCurrent ==
    (pc = "apply" /\ ~warned /\ trust /\ tmpl # None /\ OwnState(cmd)) =>
        files[tmpl.format] # None /\ files[tmpl.format].from = tmpl.id

\* It warns about a template that the file was made from only after a command
\* was cut off between the file and the record, or found no template meanwhile.
WarnedIsStale ==
    (pc = "apply" /\ warned /\ trust /\ tmpl # None) =>
        files[tmpl.format] = None \/ files[tmpl.format].from # tmpl.id

\* What is applied after the config file was made anew is applied with what the
\* file sets (createAndReloadConfigFile's second decoding).
AppliesAsWritten ==
    (pc \in {"check", "apply"} /\ made # None /\ made.set # Unset) => mem.set = made.set

\* The config file is valid and what its template and the user's answers make
\* it, and apply says when the template has moved on.
ConfigTrusted ==
    /\ AnsweredOnce /\ DataTyped /\ NeverInvalid
    /\ SilentIsCurrent /\ WarnedIsStale /\ AppliesAsWritten

\* common-flags/init.md, of verify, archive and dump too: "Regenerate and reload
\* the config file from its template before computing the target state."
InitRegenerates == outcome # "panic"
=============================================================================
