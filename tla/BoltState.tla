------------------------------- MODULE BoltState -------------------------------
(***************************************************************************)
(* The persistent state, one bbolt file, between the chezmoi processes     *)
(* that run at the same time: several in different windows, or one started *)
(* by the script or in the editor that another waits for.                  *)
(* internal/chezmoi/boltpersistentstate.go; internal/cmd/config.go:        *)
(* persistentPreRunRootE, runEditor, Close; internal/cmd/purgecmd.go.      *)
(*                                                                         *)
(* A process opens the file only when it first needs it, and locks it      *)
(* until it closes it. It may believe that there is no file, if there was  *)
(* none when it started. The file holds one record, named by the process   *)
(* that wrote it; a file that was removed lives on for those who hold it.  *)
(***************************************************************************)
EXTENDS Integers, FiniteSets

CONSTANTS
    Unread,     \* a record that was not read
    Blank,      \* the file before bbolt has initialised it
    MaxProcs,   \* bound: how many processes are started
    MaxFiles,   \* bound: how many files are created
    MaxCalls,   \* bound: operations
    MaxPurges,  \* bound: purges
    MaxKills    \* bound: processes killed

\* The processes, each of which runs one command, in the order of their start
Procs == 1 .. MaxProcs
None  == 0

ASSUME NamesAssumption ==
    Unread \notin Procs \cup {None} /\ Blank \notin Procs \cup {None, Unread}

ASSUME BoundsAssumption ==
    /\ MaxProcs \in Nat /\ MaxFiles \in Nat
    /\ MaxCalls \in Nat /\ MaxPurges \in Nat /\ MaxKills \in Nat

\* read-only; read-write; read-mock-write, and read-write in a dry run
Modes == {"read", "write", "copy"}
Ops   == {"get", "set", "delete", "copy", "none"}
Files == 1 .. MaxFiles

VARIABLES
    path,       \* the file at the path of the persistent state; 0 if there is none
    data,       \* the record in each file
    pc,         \* where each process is
    mode,       \* how it opens the file
    empty,      \* BoltPersistentState.empty
    db,         \* the file that it has opened; 0 if none
    locked,     \* the processes that hold the lock on their file
    op,         \* the operation that it is in
    child,      \* the process that it waits for
    seen,       \* the record as it last read it, since it opened the file
    \* History and bounds, which the program does not have:
    rival,      \* the processes that another one ran into
    made,       \* files created
    calls, purges, kills    \* operations, purges and kills left

local == <<pc, mode, empty, db, op, child, seen>>
bound == <<made, calls, purges, kills>>
vars  == <<path, data, local, locked, rival, bound>>

Ended(p) == pc[p] \in {"done", "failed"}
Alive(p) == ~Ended(p) /\ pc[p] # "off"

TypeOK ==
    /\ path \in 0 .. MaxFiles
    /\ data \in [Files -> Procs \cup {None, Blank}]
    /\ pc \in [Procs -> {"off", "ready", "lock", "child", "done", "failed"}]
    /\ mode \in [Procs -> Modes] /\ empty \in [Procs -> BOOLEAN]
    /\ db \in [Procs -> 0 .. MaxFiles] /\ locked \subseteq Procs
    /\ op \in [Procs -> Ops]
    /\ child \in [Procs -> Procs \cup {None}]
    /\ seen \in [Procs -> Procs \cup {None, Unread}]
    /\ rival \subseteq Procs
    /\ made \in 0 .. MaxFiles /\ path <= made
    /\ calls \in 0 .. MaxCalls /\ purges \in 0 .. MaxPurges /\ kills \in 0 .. MaxKills

Init ==
    /\ path \in {0, 1} \cap (0 .. MaxFiles) /\ data = [i \in Files |-> None]
    /\ pc = [p \in Procs |-> "off"]
    /\ mode = [p \in Procs |-> "write"] /\ empty = [p \in Procs |-> FALSE]
    /\ db = [p \in Procs |-> 0] /\ locked = {}
    /\ op = [p \in Procs |-> "none"] /\ child = [p \in Procs |-> None]
    /\ seen = [p \in Procs |-> Unread]
    /\ rival = {}
    /\ made = path /\ calls = MaxCalls /\ purges = MaxPurges /\ kills = MaxKills

-----------------------------------------------------------------------------
(* Starting a process.                                                     *)

\* p, and the processes that wait for it or for one that does: the smallest set
\* with p that every process enters with the one that it waits for.
Above(p) ==
    {q \in Procs : \A S \in SUBSET Procs :
        p \in S /\ (\A r \in Procs : pc[r] = "child" /\ child[r] \in S => r \in S) => q \in S}

\* q starts as m, over the processes in above, which wait for it, and of which
\* those in apart should leave the file to it. It runs into those that are alive,
\* but for those above it that have not opened the file or should not hold it.
\* NewBoltPersistentState: empty holds when there is no file.
Launch(q, m, above, apart) ==
    /\ pc[q] = "off" /\ \A p \in 1 .. q - 1 : pc[p] # "off"
    /\ mode' = [mode EXCEPT ![q] = m]
    /\ empty' = [empty EXCEPT ![q] = (path = 0)]
    /\ op' = [op EXCEPT ![q] = IF m = "copy" /\ path # 0 THEN "copy" ELSE "none"]
    /\ rival' = rival
         \cup {p \in Procs \ above : Alive(p)}
         \cup {p \in {q} : \E r \in Procs \ apart : Alive(r) /\ (r \in above => db[r] # 0)}

Start(q, m) ==
    /\ pc' = [pc EXCEPT ![q] = "ready"]
    /\ UNCHANGED db
    /\ Launch(q, m, {}, {})
    /\ UNCHANGED <<path, data, locked, child, seen, bound>>

\* A script or a hook of p runs chezmoi as q and waits for it.
RunScript(p, q, m) ==
    /\ pc[p] = "ready" /\ op[p] = "none"
    /\ pc' = [pc EXCEPT ![p] = "child", ![q] = "ready"]
    /\ child' = [child EXCEPT ![p] = q]
    /\ UNCHANGED db
    /\ Launch(q, m, Above(p), {})
    /\ UNCHANGED <<path, data, locked, seen, bound>>

\* A slip: the file stays open, and locked, while the editor runs.
EditLocked(p, q, m) ==
    /\ pc[p] = "ready" /\ op[p] = "none"
    /\ pc' = [pc EXCEPT ![p] = "child", ![q] = "ready"]
    /\ child' = [child EXCEPT ![p] = q]
    /\ UNCHANGED <<path, data, db, locked, seen, bound>>
    /\ Launch(q, m, Above(p), {p})

\* runEditor: the file is closed first, so that what is run in the editor, as
\* q, can open it.
RunEditor(p, q, m) ==
    /\ pc[p] = "ready" /\ op[p] = "none"
    /\ pc' = [pc EXCEPT ![p] = "child", ![q] = "ready"]
    /\ child' = [child EXCEPT ![p] = q]
    /\ db' = [db EXCEPT ![p] = 0] /\ locked' = locked \ {p}
    /\ seen' = [seen EXCEPT ![p] = Unread]
    /\ Launch(q, m, Above(p), {p})
    /\ UNCHANGED <<path, data, bound>>

\* What p ran ends, with success or not.
Return(p) ==
    /\ pc[p] = "child" /\ Ended(child[p])
    /\ pc' = [pc EXCEPT ![p] = "ready"] /\ child' = [child EXCEPT ![p] = None]
    /\ UNCHANGED <<path, data, mode, empty, db, locked, op, seen, rival, bound>>

-----------------------------------------------------------------------------
(* One operation.                                                          *)

\* Get, Set and Delete. While p believes that there is no file, Get and Delete
\* return at once.
Call(p, o) ==
    /\ pc[p] = "ready" /\ op[p] = "none" /\ mode[p] # "copy"
    /\ o \in {"get", "set", "delete"} /\ (o = "get" \/ mode[p] = "write")
    /\ calls > 0 /\ calls' = calls - 1
    /\ op' = IF empty[p] /\ o # "set" THEN op ELSE [op EXCEPT ![p] = o]
    /\ UNCHANGED <<path, data, pc, mode, empty, db, locked, child, seen, rival, made, purges, kills>>

\* The process ends: Config.Close releases the lock.
End(p, how) ==
    /\ pc' = [pc EXCEPT ![p] = how]
    /\ mode' = [mode EXCEPT ![p] = "write"] /\ empty' = [empty EXCEPT ![p] = FALSE]
    /\ db' = [db EXCEPT ![p] = 0] /\ locked' = locked \ {p}
    /\ op' = [op EXCEPT ![p] = "none"] /\ seen' = [seen EXCEPT ![p] = Unread]
    /\ child' = [child EXCEPT ![p] = None]

Fail(p) == End(p, "failed") /\ UNCHANGED <<path, data, rival, bound>>

\* b.db is nil: it is to be opened.
Opening(p) == pc[p] = "ready" /\ op[p] # "none" /\ db[p] = 0

\* open(2): a writer creates the file.
OpenFile(p) ==
    /\ Opening(p)
    /\ path # 0 \/ (mode[p] = "write" /\ made < MaxFiles)
    /\ made' = IF path = 0 THEN made + 1 ELSE made
    /\ path' = IF path = 0 THEN made' ELSE path
    /\ data' = IF path = 0 THEN [data EXCEPT ![made'] = Blank] ELSE data
    /\ db' = [db EXCEPT ![p] = path'] /\ pc' = [pc EXCEPT ![p] = "lock"]
    /\ UNCHANGED <<mode, empty, locked, op, child, seen, rival, calls, purges, kills>>

NoFile(p) ==
    /\ Opening(p) /\ path = 0 /\ mode[p] # "write"
    /\ Fail(p)

Conflict(p) ==
    \E q \in locked : db[q] = db[p] /\ (mode[p] = "write" \/ mode[q] = "write")

\* A slip: writers, too, take a lock that is shared.
LockShared(p) ==
    /\ pc[p] = "lock"
    /\ mode[p] = "write" \/ data[db[p]] # Blank
    /\ locked' = locked \cup {p}
    /\ data' = IF data[db[p]] = Blank THEN [data EXCEPT ![db[p]] = None] ELSE data
    /\ empty' = [empty EXCEPT ![p] = FALSE]
    /\ pc' = [pc EXCEPT ![p] = "ready"]
    /\ UNCHANGED <<path, mode, db, op, child, seen, rival, bound>>

\* flock(2). A writer initialises a file that is new, a reader cannot.
Lock(p) ==
    /\ pc[p] = "lock" /\ ~Conflict(p)
    /\ mode[p] = "write" \/ data[db[p]] # Blank
    /\ locked' = locked \cup {p}
    /\ data' = IF data[db[p]] = Blank THEN [data EXCEPT ![db[p]] = None] ELSE data
    /\ empty' = [empty EXCEPT ![p] = FALSE]
    /\ pc' = [pc EXCEPT ![p] = "ready"]
    /\ UNCHANGED <<path, mode, db, op, child, seen, rival, bound>>

CannotInit(p) ==
    /\ pc[p] = "lock" /\ ~Conflict(p) /\ mode[p] # "write" /\ data[db[p]] = Blank
    /\ Fail(p)

\* A slip: no Timeout among the options, so that bbolt waits for ever.
WaitOn(p) == FALSE /\ UNCHANGED vars

\* The lock was not to be had for a second.
Timeout(p) ==
    /\ pc[p] = "lock" /\ Conflict(p)
    /\ Fail(p)

Perform(p) == pc[p] = "ready" /\ p \in locked

Get(p) ==
    /\ Perform(p) /\ op[p] = "get"
    /\ seen' = [seen EXCEPT ![p] = data[db[p]]] /\ op' = [op EXCEPT ![p] = "none"]
    /\ UNCHANGED <<path, data, pc, mode, empty, db, locked, child, rival, bound>>

Put(p, record) ==
    /\ data' = [data EXCEPT ![db[p]] = record]
    /\ seen' = [seen EXCEPT ![p] = record] /\ op' = [op EXCEPT ![p] = "none"]
    /\ UNCHANGED <<path, pc, mode, empty, db, locked, child, rival, bound>>

Set(p) == Perform(p) /\ op[p] = "set" /\ Put(p, p)

\* A slip: a record that is deleted is written as if it had not been read.
DeleteUnread(p) == Perform(p) /\ op[p] = "delete" /\ Put(p, Unread)

Delete(p) == Perform(p) /\ op[p] = "delete" /\ Put(p, None)

\* CopyTo, and Close: from here on the process works on its copy.
CopyTo(p) ==
    /\ Perform(p) /\ op[p] = "copy"
    /\ db' = [db EXCEPT ![p] = 0] /\ locked' = locked \ {p}
    /\ op' = [op EXCEPT ![p] = "none"] /\ seen' = [seen EXCEPT ![p] = Unread]
    /\ UNCHANGED <<path, data, pc, mode, empty, child, rival, bound>>

-----------------------------------------------------------------------------
(* The end of a process.                                                   *)

\* Config.Close
Finish(p) ==
    /\ pc[p] = "ready" /\ op[p] = "none"
    /\ End(p, "done")
    /\ UNCHANGED <<path, data, rival, bound>>

\* doPurge: the state is closed, and the file removed without opening it.
Purge(p) ==
    /\ pc[p] = "ready" /\ op[p] = "none" /\ mode[p] = "write" /\ path # 0
    /\ purges > 0 /\ purges' = purges - 1
    /\ End(p, "done") /\ path' = 0
    /\ rival' = rival \cup {q \in Procs \ {p} : Alive(q)}
    /\ UNCHANGED <<data, made, calls, kills>>

\* A process is killed. What it ran lives on beside those that waited for it;
\* a file that it created and did not come to initialise fails every reader
\* until a writer has opened it.
Kill(p) ==
    /\ Alive(p) /\ kills > 0 /\ kills' = kills - 1
    /\ End(p, "done")
    /\ rival' = IF pc[p] = "child" \/ (pc[p] = "lock" /\ data[db[p]] = Blank) THEN Procs ELSE rival
    /\ UNCHANGED <<path, data, made, calls, purges>>

-----------------------------------------------------------------------------
Work(p) ==
    \/ Return(p) \/ OpenFile(p) \/ NoFile(p) \/ Lock(p) \/ CannotInit(p) \/ Timeout(p)
    \/ Get(p) \/ Set(p) \/ Delete(p) \/ CopyTo(p) \/ Finish(p)

User(p) ==
    \/ \E m \in Modes : Start(p, m) \/ \E q \in Procs : RunScript(p, q, m) \/ RunEditor(p, q, m)
    \/ \E o \in Ops : Call(p, o)
    \/ Purge(p) \/ Kill(p)

Next == \E p \in Procs : Work(p) \/ User(p)

Spec == Init /\ [][Next]_vars

\* Every process goes on, and what it runs returns. Nothing is said of when, or
\* whether, commands are given.
FairSpec == Spec /\ \A p \in Procs : WF_vars(Work(p))

-----------------------------------------------------------------------------
(* Properties.                                                             *)

\* Between the read of a record and its write by the same process no other
\* process writes it, so that SourceState.Apply replaces the record that it
\* judged by, unless an editor ran in between or it believed there was no file.
RecordStable ==
    [][\A p \in Procs : (Set(p) \/ Delete(p)) /\ seen[p] # Unread => data[db[p]] = seen[p]]_vars

\* A command fails on the state only when it ran into another process: not for
\* want of a file, and not in the editor of one that waits for it.
FailsByRival == \A p \in Procs : pc[p] = "failed" => p \in rival

\* Every process ends, even one whose script waits for a process that waits for
\* the lock that it holds.
AllEnd == \A p \in Procs : Alive(p) ~> Ended(p)
=============================================================================
