---------------------------- MODULE BoltStateProofs ----------------------------
(***************************************************************************)
(* Proofs about BoltState, for any number of processes, files, operations, *)
(* purges and kills.                                                       *)
(***************************************************************************)
EXTENDS BoltState, TLAPS

\* A process holds the lock on a file that it has opened and that is initialised.
Holders ==
    \A p \in locked : /\ db[p] # 0 /\ data[db[p]] # Blank
                      /\ pc[p] \in {"ready", "child"}

\* Files are numbered as they are created, so that a new one is nobody's.
FilesMade == \A p \in Procs : db[p] <= made

\* One that waits for the lock has opened the file and does not hold it.
Waiters == \A p \in Procs : pc[p] = "lock" => db[p] # 0 /\ p \notin locked

\* A writer shares its file with nobody.
Exclusive ==
    \A p, q \in locked : p # q /\ db[p] = db[q] => mode[p] # "write" /\ mode[q] # "write"

\* What a process has read is what the file holds for as long as it is locked.
Fresh == \A p \in Procs : seen[p] # Unread => p \in locked /\ data[db[p]] = seen[p]

\* A process that was not started, or has ended, has nothing open.
Closed == \A p \in Procs : pc[p] = "off" \/ Ended(p) => db[p] = 0

\* Only a writer is about to write.
Writers == \A p \in Procs : op[p] \in {"set", "delete"} => mode[p] = "write"

IInv == TypeOK /\ Writers /\ Holders /\ FilesMade /\ Waiters /\ Exclusive /\ Fresh /\ Closed

USE DEF Procs, None, Files

LEMMA InvInit == Init => IInv
  BY NamesAssumption, BoundsAssumption
     DEF Init, IInv, TypeOK, Modes, Ops, Holders, FilesMade, Waiters, Exclusive, Fresh, Closed, Ended, Writers

\* A process that ends lets go of its file, and nothing else changes for others.
LEMMA EndStep ==
    ASSUME IInv, NEW p \in Procs, NEW how \in {"done", "failed"}, End(p, how),
           data' = data, made' = made, path' \in {0, path}, rival' \subseteq Procs,
           calls' \in 0 .. MaxCalls, purges' \in 0 .. MaxPurges, kills' \in 0 .. MaxKills
    PROVE  IInv'
  <1>1. TypeOK'
    BY BoundsAssumption DEF IInv, TypeOK, End, Modes, Ops
  <1>2. Holders' /\ FilesMade' /\ Waiters' /\ Closed'
    BY BoundsAssumption DEF IInv, TypeOK, End, Holders, FilesMade, Waiters, Closed, Ended
  <1>3. Exclusive' /\ Fresh' /\ Writers'
    BY DEF IInv, TypeOK, End, Exclusive, Fresh, Writers
  <1> QED
    BY <1>1, <1>2, <1>3 DEF IInv

\* A process that starts has nothing open and takes nothing from the others.
LEMMA LaunchStep ==
    ASSUME IInv, NEW q \in Procs, NEW m \in Modes, NEW above, NEW apart, Launch(q, m, above, apart),
           UNCHANGED <<path, data, bound>>,
           NEW p \in Procs, p # q, pc[p] = "ready",
           pc' \in {[pc EXCEPT ![q] = "ready"], [pc EXCEPT ![p] = "child", ![q] = "ready"]},
           child' \in {child, [child EXCEPT ![p] = q]},
           \/ UNCHANGED <<db, locked, seen>>
           \/ /\ db' = [db EXCEPT ![p] = 0] /\ locked' = locked \ {p}
              /\ seen' = [seen EXCEPT ![p] = Unread]
    PROVE  IInv'
  <1>0. pc[q] = "off" /\ db[q] = 0 /\ q \notin locked /\ seen[q] = Unread
    BY DEF Launch, IInv, Closed, Holders, Fresh
  <1>1. /\ rival' \subseteq Procs /\ mode' = [mode EXCEPT ![q] = m]
        /\ empty' \in [Procs -> BOOLEAN]
        /\ \E o \in {"copy", "none"} : op' = [op EXCEPT ![q] = o]
    BY DEF Launch, IInv, TypeOK
  <1>a. \/ UNCHANGED <<db, locked, seen>>
        \/ /\ db' = [db EXCEPT ![p] = 0] /\ locked' = locked \ {p}
           /\ seen' = [seen EXCEPT ![p] = Unread]
    OBVIOUS
  <1>2. TypeOK'
    <2>1. op' \in [Procs -> Ops] /\ mode' \in [Procs -> Modes]
      BY <1>1 DEF IInv, TypeOK, Ops
    <2>2. pc' \in [Procs -> {"off", "ready", "lock", "child", "done", "failed"}]
      BY DEF IInv, TypeOK
    <2>3. db' \in [Procs -> 0 .. MaxFiles] /\ locked' \subseteq Procs
          /\ seen' \in [Procs -> Procs \cup {None, Unread}]
      <3>1. 0 \in 0 .. MaxFiles /\ Unread \in Procs \cup {None, Unread}
        BY BoundsAssumption
      <3>2. CASE UNCHANGED <<db, locked, seen>>
        BY <3>2 DEF IInv, TypeOK
      <3>3. CASE ~UNCHANGED <<db, locked, seen>>
        <4>1. /\ db' = [db EXCEPT ![p] = 0] /\ locked' = locked \ {p}
              /\ seen' = [seen EXCEPT ![p] = Unread]
          BY <1>a, <3>3
        <4>2. db \in [Procs -> 0 .. MaxFiles] /\ locked \subseteq Procs
              /\ seen \in [Procs -> Procs \cup {None, Unread}]
          BY DEF IInv, TypeOK
        <4>3. db' \in [Procs -> 0 .. MaxFiles]
          BY <3>1, <4>1, <4>2
        <4>4. seen' \in [Procs -> Procs \cup {None, Unread}]
          BY <3>1, <4>1, <4>2
        <4> QED
          BY <4>1, <4>2, <4>3, <4>4
      <3> QED
        BY <3>2, <3>3
    <2>4. child' \in [Procs -> Procs \cup {None}]
      BY DEF IInv, TypeOK
    <2> QED
      BY <1>1, <2>1, <2>2, <2>3, <2>4 DEF IInv, TypeOK, bound
  <1>3. \A r \in locked' : r \in locked /\ r # q /\ db'[r] = db[r] /\ mode'[r] = mode[r]
    <2>1. \A r \in locked' : r \in locked /\ db'[r] = db[r]
      BY <1>a DEF IInv, TypeOK
    <2> QED
      BY <1>0, <1>1, <2>1 DEF IInv, TypeOK
  <1>4. \A r \in Procs : db'[r] \in {0, db[r]}
    BY DEF IInv, TypeOK
  <1>5. \A r \in Procs : pc'[r] = IF r = q THEN "ready" ELSE IF r = p THEN pc'[p] ELSE pc[r]
    BY DEF IInv, TypeOK
  <1>6. pc'[p] \in {"ready", "child"}
    BY DEF IInv, TypeOK
  <1>7. Holders'
    BY <1>3, <1>5, <1>6 DEF IInv, TypeOK, Holders
  <1>8. FilesMade'
    BY <1>4, BoundsAssumption DEF IInv, TypeOK, FilesMade, bound
  <1>9. Waiters'
    <2>1. \A r \in Procs : pc'[r] = "lock" => pc[r] = "lock" /\ r # p /\ db'[r] = db[r]
      BY <1>5, <1>6 DEF IInv, TypeOK
    <2> QED
      BY <1>3, <2>1 DEF IInv, Waiters
  <1>10. Closed'
    BY <1>4, <1>5, <1>6 DEF IInv, TypeOK, Closed, Ended
  <1>11. Exclusive'
    BY <1>3 DEF IInv, Exclusive
  <1>12. Fresh'
    <2>1. \A r \in Procs : seen'[r] # Unread => seen'[r] = seen[r] /\ (r \in locked => r \in locked')
      BY DEF IInv, TypeOK
    <2> QED
      BY <1>3, <2>1 DEF IInv, Fresh
  <1>13. Writers'
    BY <1>1 DEF IInv, TypeOK, Writers
  <1> QED
    BY <1>2, <1>7, <1>8, <1>9, <1>10, <1>11, <1>12, <1>13 DEF IInv

\* The same for a process that the user starts.
LEMMA StartStep ==
    ASSUME IInv, NEW q \in Procs, NEW m \in Modes, Start(q, m)
    PROVE  IInv'
  <1>0. pc[q] = "off" /\ db[q] = 0 /\ q \notin locked
    BY DEF Start, Launch, IInv, Closed, Holders
  <1>1. TypeOK'
    BY DEF IInv, TypeOK, Start, Launch, Ops, bound
  <1>2. Holders' /\ FilesMade' /\ Waiters' /\ Closed' /\ Exclusive' /\ Fresh' /\ Writers'
    BY <1>0 DEF IInv, TypeOK, Start, Launch, Holders, FilesMade, Waiters, Closed, Ended,
                Exclusive, Fresh, Writers, bound
  <1> QED
    BY <1>1, <1>2 DEF IInv

\* A writer that finds no file creates one that nobody has open.
LEMMA OpenStep ==
    ASSUME IInv, NEW p \in Procs, OpenFile(p)
    PROVE  IInv'
  <1>0. /\ pc[p] = "ready" /\ db[p] = 0 /\ p \notin locked /\ seen[p] = Unread
        /\ path' \in Files /\ path' <= made' /\ made <= made' /\ made' \in 0 .. MaxFiles
    BY BoundsAssumption DEF IInv, TypeOK, OpenFile, Opening, Holders, Fresh
  <1>1. \A r \in Procs : db[r] # 0 => data'[db[r]] = data[db[r]]
    BY BoundsAssumption DEF IInv, TypeOK, OpenFile, FilesMade
  <1>2. TypeOK'
    BY <1>0 DEF IInv, TypeOK, OpenFile
  <1>3. Holders' /\ FilesMade' /\ Waiters' /\ Closed'
    BY <1>0, <1>1, BoundsAssumption
       DEF IInv, TypeOK, OpenFile, Holders, FilesMade, Waiters, Closed, Ended
  <1>4. Exclusive' /\ Fresh' /\ Writers'
    BY <1>0, <1>1 DEF IInv, TypeOK, OpenFile, Holders, Exclusive, Fresh, Writers
  <1> QED
    BY <1>2, <1>3, <1>4 DEF IInv

\* The lock is granted when there is no conflict, and a new file is initialised
\* by a writer, who then has it alone.
LEMMA LockStep ==
    ASSUME IInv, NEW p \in Procs, Lock(p)
    PROVE  IInv'
  <1>0. pc[p] = "lock" /\ db[p] \in Files /\ p \notin locked /\ seen[p] = Unread
    BY DEF IInv, TypeOK, Lock, Waiters, Fresh
  <1>1. \A q \in locked : db[q] = db[p] => mode[p] # "write" /\ mode[q] # "write"
    BY DEF Lock, Conflict
  <1>2. \A q \in locked : data'[db[q]] = data[db[q]]
    BY <1>1 DEF Lock, IInv, TypeOK, Holders
  <1>3. data' \in [Files -> Procs \cup {None, Blank}] /\ data'[db[p]] # Blank
    BY <1>0, NamesAssumption DEF Lock, IInv, TypeOK
  <1>4. TypeOK'
    BY <1>3 DEF IInv, TypeOK, Lock, bound
  <1>5. /\ locked' = locked \cup {p} /\ pc' = [pc EXCEPT ![p] = "ready"]
        /\ UNCHANGED <<mode, db, op, seen, made>>
    BY DEF Lock, bound
  <1>6. Holders'
    BY <1>0, <1>2, <1>3, <1>5 DEF IInv, TypeOK, Holders
  <1>7. FilesMade' /\ Waiters' /\ Closed' /\ Writers'
    BY <1>0, <1>5 DEF IInv, TypeOK, FilesMade, Waiters, Closed, Ended, Writers
  <1>8. Exclusive'
    BY <1>1, <1>5 DEF IInv, Exclusive
  <1>9. Fresh'
    BY <1>0, <1>2, <1>5 DEF IInv, Fresh
  <1> QED
    BY <1>4, <1>6, <1>7, <1>8, <1>9 DEF IInv

\* The holder writes its file, which no other process that has read it holds.
LEMMA PutStep ==
    ASSUME IInv, NEW p \in Procs, Perform(p), mode[p] = "write",
           NEW record \in Procs \cup {None}, Put(p, record)
    PROVE  IInv'
  <1>0. db[p] \in Files
    BY DEF IInv, TypeOK, Perform, Holders
  <1>1. \A q \in locked \ {p} : db[q] # db[p]
    BY DEF IInv, Exclusive, Perform
  <1>2. TypeOK'
    BY <1>0 DEF IInv, TypeOK, Put, Ops, bound
  <1>3. Holders' /\ FilesMade' /\ Waiters' /\ Closed' /\ Exclusive' /\ Writers'
    BY <1>0, <1>1, NamesAssumption
       DEF IInv, TypeOK, Put, Holders, FilesMade, Waiters, Closed, Ended, Exclusive, Writers, bound
  <1>4. Fresh'
    BY <1>0, <1>1 DEF IInv, TypeOK, Put, Fresh, Perform
  <1> QED
    BY <1>2, <1>3, <1>4 DEF IInv

\* A step that opens, locks, writes and ends nothing keeps the invariant.
LEMMA QuietStep ==
    ASSUME IInv, TypeOK', UNCHANGED <<path, data, mode, db, locked, made>>,
           Writers', Fresh',
           \A p \in Procs : /\ pc'[p] # pc[p] => pc[p] = "child" /\ pc'[p] = "ready"
    PROVE  IInv'
  BY DEF IInv, TypeOK, Holders, FilesMade, Waiters, Closed, Ended, Exclusive

LEMMA InvStep == IInv /\ [Next]_vars => IInv'
  <1> SUFFICES ASSUME IInv, [Next]_vars PROVE IInv'
    OBVIOUS
  <1>b. /\ path \in {0, path} /\ 0 \in {0, path} /\ rival \subseteq Procs
        /\ calls \in 0 .. MaxCalls /\ purges \in 0 .. MaxPurges /\ kills \in 0 .. MaxKills
    BY DEF IInv, TypeOK
  <1>1. ASSUME NEW p \in Procs, Return(p) PROVE IInv'
    <2>1. TypeOK'
      BY <1>1 DEF Return, IInv, TypeOK, bound
    <2> QED
      BY <1>1, <2>1, QuietStep DEF Return, IInv, TypeOK, Writers, Fresh, bound
  <1>2. ASSUME NEW p \in Procs, OpenFile(p) PROVE IInv'
    BY <1>2, OpenStep
  <1>3. ASSUME NEW p \in Procs, NoFile(p) \/ CannotInit(p) \/ Timeout(p) PROVE IInv'
    BY <1>3, <1>b, EndStep DEF NoFile, CannotInit, Timeout, Fail, bound
  <1>4. ASSUME NEW p \in Procs, Lock(p) PROVE IInv'
    BY <1>4, LockStep
  <1>5. ASSUME NEW p \in Procs, Get(p) PROVE IInv'
    <2>1. data[db[p]] \in Procs \cup {None}
      BY <1>5 DEF Get, Perform, IInv, TypeOK, Holders
    <2>2. TypeOK'
      BY <1>5, <2>1 DEF Get, IInv, TypeOK, Ops, bound
    <2>3. Fresh'
      BY <1>5 DEF Get, Perform, IInv, TypeOK, Fresh
    <2>4. Writers'
      BY <1>5 DEF Get, IInv, TypeOK, Writers
    <2> QED
      BY <1>5, <2>2, <2>3, <2>4, QuietStep DEF Get, bound
  <1>6. ASSUME NEW p \in Procs, Set(p) \/ Delete(p) PROVE IInv'
    BY <1>6, PutStep DEF Set, Delete, IInv, Writers
  <1>7. ASSUME NEW p \in Procs, CopyTo(p) PROVE IInv'
    <2>0. /\ p \in locked /\ pc[p] = "ready"
          /\ db' = [db EXCEPT ![p] = 0] /\ locked' = locked \ {p}
          /\ op' = [op EXCEPT ![p] = "none"] /\ seen' = [seen EXCEPT ![p] = Unread]
          /\ UNCHANGED <<path, data, pc, mode, made>>
      BY <1>7 DEF CopyTo, Perform, bound
    <2>1. TypeOK'
      BY <1>7, BoundsAssumption DEF CopyTo, IInv, TypeOK, Ops, bound
    <2>2. Holders' /\ FilesMade' /\ Waiters' /\ Closed'
      BY <2>0, BoundsAssumption DEF IInv, TypeOK, Holders, FilesMade, Waiters, Closed, Ended
    <2>3. Exclusive' /\ Fresh' /\ Writers'
      BY <2>0 DEF IInv, TypeOK, Exclusive, Fresh, Writers
    <2> QED
      BY <2>1, <2>2, <2>3 DEF IInv
  <1>8. ASSUME NEW p \in Procs, Finish(p) PROVE IInv'
    BY <1>8, <1>b, EndStep DEF Finish, bound
  <1>9. ASSUME NEW p \in Procs, Purge(p) PROVE IInv'
    <2>1. rival' \subseteq Procs /\ purges' \in 0 .. MaxPurges
      <3>1. purges' = purges - 1 /\ purges > 0
        BY <1>9 DEF Purge
      <3>2. purges' \in 0 .. MaxPurges
        BY <3>1, BoundsAssumption DEF IInv, TypeOK
      <3>3. rival' \subseteq Procs
        BY <1>9 DEF Purge, IInv, TypeOK
      <3> QED
        BY <3>2, <3>3
    <2> QED
      BY <1>9, <1>b, <2>1, EndStep DEF Purge
  <1>10. ASSUME NEW p \in Procs, Kill(p) PROVE IInv'
    <2>1. rival' \subseteq Procs /\ kills' \in 0 .. MaxKills
      BY <1>10, BoundsAssumption DEF Kill, IInv, TypeOK
    <2> QED
      BY <1>10, <1>b, <2>1, EndStep DEF Kill
  <1>11. ASSUME NEW p \in Procs, NEW m \in Modes, Start(p, m) PROVE IInv'
    BY <1>11, StartStep
  <1>12. ASSUME NEW p \in Procs, NEW q \in Procs, NEW m \in Modes,
                RunScript(p, q, m) \/ RunEditor(p, q, m)
         PROVE  IInv'
    <2>1. p # q /\ pc[p] = "ready"
      BY <1>12 DEF RunScript, RunEditor, Launch
    <2> QED
      BY <1>12, <2>1, LaunchStep DEF RunScript, RunEditor
  <1>13. ASSUME NEW p \in Procs, NEW o \in Ops, Call(p, o) PROVE IInv'
    <2>1. TypeOK'
      BY <1>13, BoundsAssumption DEF Call, IInv, TypeOK, bound
    <2>2. Writers' /\ Fresh'
      BY <1>13 DEF Call, IInv, TypeOK, Writers, Fresh
    <2> QED
      BY <1>13, <2>1, <2>2, QuietStep DEF Call
  <1>14. CASE UNCHANGED vars
    BY <1>14 DEF vars, local, bound, IInv, TypeOK, Writers, Holders, FilesMade, Waiters,
                 Closed, Ended, Exclusive, Fresh
  <1> QED
    BY <1>1, <1>2, <1>3, <1>4, <1>5, <1>6, <1>7, <1>8, <1>9, <1>10, <1>11, <1>12, <1>13, <1>14
       DEF Next, Work, User

LEMMA Invariant == Spec => []IInv
  BY InvInit, InvStep, PTL DEF Spec

-----------------------------------------------------------------------------
(* Who runs into whom. While one of the processes that run has run into     *)
(* nobody, those that run are one chain, in which each waits for the next.  *)

\* Processes are started in their order.
InOrder == \A p, q \in Procs : p < q /\ pc[p] = "off" => pc[q] = "off"

\* A process waits for one that was started after it, and for which nobody else does.
Parents ==
    \A p \in Procs : pc[p] = "child" =>
        /\ child[p] \in Procs /\ p < child[p] /\ pc[child[p]] # "off"
        /\ \A q \in Procs : pc[q] = "child" /\ child[q] = child[p] => q = p

\* Each waits for one that runs, which comes no later than the next.
OneChain ==
    (\E p \in Procs \ rival : Alive(p)) =>
        \A p, q \in Procs : Alive(p) /\ Alive(q) /\ p < q =>
            pc[p] = "child" /\ child[p] \in p + 1 .. q /\ Alive(child[p])

\* Those that wait for one that has run into nobody have closed their file.
Apart ==
    \A p, q \in Procs : p \notin rival /\ Alive(p) /\ Alive(q) /\ q < p => db[q] = 0

\* One that has run into nobody knows it when there is no file.
SeesFile ==
    \A p \in Procs \ rival :
        Alive(p) /\ path = 0 => empty[p] /\ db[p] = 0 /\ op[p] \in {"none", "set"}

\* A file that is not initialised has a creator that is about to.
Creators ==
    \/ Procs \subseteq rival
    \/ \A f \in Files : data[f] = Blank =>
          \E p \in Procs : pc[p] = "lock" /\ mode[p] = "write" /\ db[p] = f

RInv == InOrder /\ Parents /\ OneChain /\ Apart /\ SeesFile /\ Creators /\ FailsByRival

\* Who is above p, but for p itself, waits for another that is.
LEMMA AboveWaits ==
    ASSUME NEW p \in Procs, NEW q \in Above(p), q # p
    PROVE  q \in Procs /\ pc[q] = "child" /\ child[q] \in Above(p)
  <1> DEFINE S == {p} \cup {r \in Above(p) : pc[r] = "child" /\ child[r] \in Above(p)}
  <1>1. S \in SUBSET Procs /\ p \in S
    BY DEF Above
  <1>2. S \subseteq Above(p)
    BY DEF Above
  <1>3. ASSUME NEW r \in Procs, pc[r] = "child", child[r] \in S PROVE r \in S
    <2>1. child[r] \in Above(p)
      BY <1>2, <1>3
    <2>2. r \in Above(p)
      BY <1>3, <2>1 DEF Above
    <2> QED
      BY <1>3, <2>1, <2>2
  <1>4. q \in S
    BY <1>1, <1>3 DEF Above
  <1> QED
    BY <1>4 DEF Above

\* Those above p were started before it.
LEMMA AboveBefore ==
    ASSUME Parents, NEW p \in Procs, NEW q \in Above(p)
    PROVE  q <= p
  <1> DEFINE S == {r \in Above(p) : r <= p}
  <1>1. S \in SUBSET Procs /\ p \in S /\ S \subseteq Above(p)
    BY BoundsAssumption DEF Above
  <1>2. ASSUME NEW r \in Procs, pc[r] = "child", child[r] \in S PROVE r \in S
    <2>1. r \in Above(p)
      BY <1>1, <1>2 DEF Above
    <2>2. r < child[r] /\ child[r] <= p /\ child[r] \in Procs
      BY <1>2 DEF Parents
    <2> QED
      BY <2>1, <2>2, BoundsAssumption
  <1>3. q \in S
    BY <1>1, <1>2 DEF Above
  <1> QED
    BY <1>3

\* Of two that are above p one is above the other.
LEMMA AboveOrdered ==
    ASSUME Parents, NEW p \in Procs, NEW x \in Above(p), NEW y \in Above(p)
    PROVE  x \in Above(y) \/ y \in Above(x)
  <1> DEFINE S == {z \in Above(p) : \A w \in Above(p) : w \in Above(z) \/ z \in Above(w)}
  <1>1. S \in SUBSET Procs /\ p \in S /\ S \subseteq Above(p)
    BY DEF Above
  <1>2. ASSUME NEW r \in Procs, pc[r] = "child", child[r] \in S PROVE r \in S
    <2> DEFINE z == child[r]
    <2>1. z \in Procs /\ z \in Above(p) /\ r \in Above(p)
      BY <1>2 DEF Above
    <2>2. ASSUME NEW w \in Above(p), z \in Above(w) PROVE r \in Above(w)
      BY <1>2, <2>2 DEF Above
    <2>3. Above(z) \subseteq {z} \cup Above(r)
      <3> DEFINE T == {z} \cup Above(r)
      <3>1. T \in SUBSET Procs /\ z \in T
        BY <2>1 DEF Above
      <3>2. r \in Above(r)
        BY DEF Above
      <3>3. ASSUME NEW v \in Procs, pc[v] = "child", child[v] \in T PROVE v \in T
        <4>1. CASE child[v] = z
          BY <1>2, <3>2, <3>3, <4>1 DEF Parents
        <4>2. CASE child[v] \in Above(r)
          BY <3>3, <4>2 DEF Above
        <4> QED
          BY <3>3, <4>1, <4>2
      <3> QED
        BY <3>1, <3>3 DEF Above
    <2>4. r \in Above(z)
      BY <1>2, <2>1 DEF Above
    <2>5. ASSUME NEW w \in Above(p) PROVE w \in Above(r) \/ r \in Above(w)
      <3>1. CASE z \in Above(w)
        BY <2>2, <3>1
      <3>2. CASE w \in Above(z)
        BY <2>3, <2>4, <3>2
      <3> QED
        BY <1>2, <3>1, <3>2
    <2> QED
      BY <2>1, <2>5
  <1>3. y \in S
    BY <1>1, <1>2 DEF Above
  <1> QED
    BY <1>3

LEMMA RivalInit == Init => RInv
  BY NamesAssumption, BoundsAssumption
     DEF Init, RInv, InOrder, Parents, OneChain, Apart, SeesFile, Creators, FailsByRival, Alive, Ended

\* The end of a process leaves a chain: it is the last, or all are rivals.
LEMMA EndKeeps ==
    ASSUME IInv, RInv, NEW p \in Procs, NEW how \in {"done", "failed"}, End(p, how), Alive(p),
           how = "failed" => p \in rival,
           rival \subseteq rival', data' = data,
           path' = path \/ {q \in Procs \ {p} : Alive(q)} \subseteq rival',
           \/ Procs \subseteq rival'
           \/ pc[p] # "child" /\ ~(pc[p] = "lock" /\ mode[p] = "write" /\ data[db[p]] = Blank)
    PROVE  RInv'
  <1>1. /\ pc' = [pc EXCEPT ![p] = how] /\ mode' = [mode EXCEPT ![p] = "write"]
        /\ empty' = [empty EXCEPT ![p] = FALSE] /\ db' = [db EXCEPT ![p] = 0]
        /\ op' = [op EXCEPT ![p] = "none"] /\ child' = [child EXCEPT ![p] = None]
    BY DEF End
  <1>t. /\ pc \in [Procs -> {"off", "ready", "lock", "child", "done", "failed"}]
        /\ mode \in [Procs -> Modes] /\ empty \in [Procs -> BOOLEAN]
        /\ db \in [Procs -> 0 .. MaxFiles] /\ op \in [Procs -> Ops]
        /\ child \in [Procs -> Procs \cup {None}]
    BY DEF IInv, TypeOK
  <1>2. \A q \in Procs : Alive(q)' <=> Alive(q) /\ q # p
    BY <1>1, <1>t DEF Alive, Ended
  <1>3. \A q \in Procs \ {p} : /\ pc'[q] = pc[q] /\ mode'[q] = mode[q] /\ empty'[q] = empty[q]
                               /\ db'[q] = db[q] /\ op'[q] = op[q] /\ child'[q] = child[q]
    BY <1>1, <1>t
  <1>4. InOrder' /\ Parents'
    BY <1>1, <1>3, <1>t DEF RInv, InOrder, Parents, Alive
  <1>5. OneChain'
    <2> SUFFICES ASSUME NEW r \in Procs \ rival', Alive(r)',
                        NEW x \in Procs, NEW y \in Procs, Alive(x)', Alive(y)', x < y
                 PROVE  (pc[x] = "child" /\ child[x] \in x + 1 .. y /\ Alive(child[x]))'
      BY DEF OneChain
    <2>1. pc[p] # "child"
      BY <1>1
    <2>2. \A a, b \in Procs : Alive(a) /\ Alive(b) /\ a < b =>
             pc[a] = "child" /\ child[a] \in a + 1 .. b /\ Alive(child[a])
      BY <1>2 DEF RInv, OneChain
    <2>3. /\ x # p /\ y # p /\ Alive(x) /\ Alive(y)
          /\ pc[x] = "child" /\ child[x] \in x + 1 .. y /\ Alive(child[x])
      BY <1>2, <2>2
    <2>4. ~(p < y)
      BY <1>2, <2>1, <2>2
    <2>5. child[x] \in Procs /\ child[x] # p
      BY <2>3, <2>4, BoundsAssumption
    <2> QED
      BY <1>2, <1>3, <2>3, <2>5
  <1>6. Apart' /\ SeesFile'
    BY <1>2, <1>3 DEF RInv, Apart, SeesFile
  <1>7. Creators'
    <2>1. CASE Procs \subseteq rival'
      BY <2>1 DEF Creators
    <2>2. CASE ~(Procs \subseteq rival')
      <3>1. \A f \in Files : data[f] = Blank =>
               \E q \in Procs : pc[q] = "lock" /\ mode[q] = "write" /\ db[q] = f
        BY <2>2 DEF RInv, Creators
      <3>2. ~(pc[p] = "lock" /\ mode[p] = "write" /\ data[db[p]] = Blank)
        BY <2>2
      <3> QED
        BY <1>3, <3>1, <3>2 DEF Creators
    <2> QED
      BY <2>1, <2>2
  <1>8. FailsByRival'
    BY <1>1, <1>3, <1>t DEF RInv, FailsByRival
  <1> QED
    BY <1>4, <1>5, <1>6, <1>7, <1>8 DEF RInv

\* A step of a process that is not waiting, and goes on, leaves the chain as it is.
LEMMA WorkKeeps ==
    ASSUME IInv, RInv, NEW p \in Procs, Alive(p), pc[p] # "child",
           pc'[p] \in {"ready", "lock"}, UNCHANGED <<child, rival>>,
           \A q \in Procs \ {p} : pc'[q] = pc[q] /\ db'[q] = db[q],
           SeesFile', Creators'
    PROVE  RInv'
  <1>1. \A q \in Procs : Alive(q)' <=> Alive(q)
    BY DEF Alive, Ended
  <1>2. InOrder' /\ Parents' /\ FailsByRival'
    BY DEF RInv, InOrder, Parents, FailsByRival, Alive, Ended
  <1>3. OneChain'
    <2> SUFFICES ASSUME NEW r \in Procs \ rival, Alive(r),
                        NEW x \in Procs, NEW y \in Procs, Alive(x), Alive(y), x < y
                 PROVE  (pc[x] = "child" /\ child[x] \in x + 1 .. y /\ Alive(child[x]))'
      BY <1>1 DEF OneChain
    <2>1. pc[x] = "child" /\ child[x] \in x + 1 .. y /\ Alive(child[x])
      BY DEF RInv, OneChain
    <2>2. child[x] \in Procs
      BY <2>1, BoundsAssumption
    <2> QED
      BY <1>1, <2>1, <2>2
  <1>4. Apart'
    <2> SUFFICES ASSUME NEW x \in Procs, NEW y \in Procs, x \notin rival, Alive(x), Alive(y), y < x
                 PROVE  db'[y] = 0
      BY <1>1 DEF Apart
    <2>1. pc[y] = "child" /\ db[y] = 0
      BY DEF RInv, OneChain, Apart
    <2> QED
      BY <2>1
  <1> QED
    BY <1>2, <1>3, <1>4 DEF RInv

\* A process that a script or an editor waits for: it is the next of the chain,
\* or it, or everyone else, has run into another.
LEMMA LaunchKeeps ==
    ASSUME IInv, RInv, NEW p \in Procs, NEW q \in Procs, NEW m \in Modes,
           RunScript(p, q, m) \/ RunEditor(p, q, m)
    PROVE  RInv'
  <1>1. /\ pc[p] = "ready" /\ pc[q] = "off" /\ p # q
        /\ \A r \in 1 .. q - 1 : pc[r] # "off"
        /\ pc' = [pc EXCEPT ![p] = "child", ![q] = "ready"] /\ child' = [child EXCEPT ![p] = q]
        /\ mode' = [mode EXCEPT ![q] = m] /\ empty' = [empty EXCEPT ![q] = (path = 0)]
        /\ op' = [op EXCEPT ![q] = IF m = "copy" /\ path # 0 THEN "copy" ELSE "none"]
        /\ path' = path /\ data' = data
    BY DEF RunScript, RunEditor, Launch
  <1>t. /\ pc \in [Procs -> {"off", "ready", "lock", "child", "done", "failed"}]
        /\ mode \in [Procs -> Modes] /\ empty \in [Procs -> BOOLEAN]
        /\ db \in [Procs -> 0 .. MaxFiles] /\ op \in [Procs -> Ops]
        /\ child \in [Procs -> Procs \cup {None}]
    BY DEF IInv, TypeOK
  <1>2. /\ rival \subseteq rival'
        /\ \A r \in Procs \ rival' : Alive(r) => r \in Above(p)
        /\ q \notin rival' => \A r \in Procs : Alive(r) => r \in Above(p) /\ (db[r] = 0 \/ db'[r] = 0)
    <2>1. CASE RunScript(p, q, m)
      BY <2>1 DEF RunScript, Launch
    <2>2. CASE RunEditor(p, q, m)
      <3>1. db'[p] = 0 /\ p \in Above(p)
        BY <2>2, <1>t DEF RunEditor, Above
      <3>2. Launch(q, m, Above(p), {p})
        BY <2>2 DEF RunEditor
      <3>3. /\ rival \subseteq rival'
            /\ \A r \in Procs \ rival' : Alive(r) => r \in Above(p)
        BY <3>2 DEF Launch
      <3>4. q \notin rival' =>
               \A r \in Procs \ {p} : Alive(r) => r \in Above(p) /\ db[r] = 0
        BY <3>2 DEF Launch
      <3> QED
        BY <3>1, <3>3, <3>4
    <2> QED
      BY <2>1, <2>2
  <1>3. \A r \in Procs : Alive(r)' <=> Alive(r) \/ r = q
    BY <1>1, <1>t DEF Alive, Ended
  <1>4. \A r \in Procs : /\ pc'[r] = IF r = p THEN "child" ELSE IF r = q THEN "ready" ELSE pc[r]
                         /\ child'[r] = IF r = p THEN q ELSE child[r]
                         /\ r # q => mode'[r] = mode[r] /\ empty'[r] = empty[r] /\ op'[r] = op[r]
    BY <1>1, <1>t
  <1>5. \A r \in Procs : db'[r] = 0 \/ db'[r] = db[r]
    BY <1>t DEF RunScript, RunEditor
  <1>6. \A r \in Procs : Alive(r) => r < q
    <2>1. \A r \in Procs : q < r => pc[r] = "off"
      BY <1>1 DEF RInv, InOrder
    <2> QED
      BY <1>1, <2>1 DEF Alive
  <1>7. InOrder'
    <2> SUFFICES ASSUME NEW x \in Procs, NEW y \in Procs, x < y, pc'[x] = "off"
                 PROVE  pc'[y] = "off"
      BY DEF InOrder
    <2>1. x # q /\ x # p /\ pc[x] = "off"
      BY <1>4
    <2>2. pc[y] = "off"
      BY <2>1 DEF RInv, InOrder
    <2>3. y # q /\ y # p
      BY <1>1, <2>1, <2>2, BoundsAssumption
    <2> QED
      BY <1>4, <2>2, <2>3
  <1>8. Alive(p) /\ Alive(p)' /\ p < q
    BY <1>1, <1>3, <1>6 DEF Alive, Ended
  <1>9. \A r \in Above(p) : r # p => r \in Procs /\ pc[r] = "child" /\ child[r] \in Above(p)
    BY AboveWaits
  <1>10. Parents'
    <2>1. \A r \in Procs : pc[r] = "child" => child[r] # q
      BY <1>1 DEF RInv, Parents
    <2> SUFFICES ASSUME NEW r \in Procs, pc'[r] = "child"
                 PROVE  /\ child'[r] \in Procs /\ r < child'[r] /\ pc'[child'[r]] # "off"
                        /\ \A s \in Procs : pc'[s] = "child" /\ child'[s] = child'[r] => s = r
      BY DEF Parents
    <2>2. CASE r = p
      <3>1. child'[r] = q /\ pc'[q] = "ready"
        BY <1>1, <1>4, <2>2
      <3>2. \A s \in Procs : pc'[s] = "child" /\ child'[s] = q => s = r
        BY <1>4, <2>1, <2>2
      <3> QED
        BY <1>8, <2>2, <3>1, <3>2
    <2>3. CASE r # p
      <3>1. pc[r] = "child" /\ child'[r] = child[r] /\ child[r] # q
        BY <1>4, <2>1, <2>3
      <3>2. child[r] \in Procs /\ r < child[r] /\ pc[child[r]] # "off"
        BY <3>1 DEF RInv, Parents
      <3>3. pc'[child[r]] # "off"
        BY <1>4, <3>2
      <3>4. \A s \in Procs : pc'[s] = "child" /\ child'[s] = child[r] => s = r
        BY <1>4, <3>1 DEF RInv, Parents
      <3> QED
        BY <3>1, <3>2, <3>3, <3>4
    <2> QED
      BY <2>2, <2>3
  <1>11. ASSUME NEW x \in Procs, NEW y \in Procs, Alive(x), Alive(y)', x < y,
                \E r \in Procs \ rival' : Alive(r)'
         PROVE  x # p => pc[x] = "child" /\ child[x] \in x + 1 .. y /\ Alive(child[x])
    <2> SUFFICES ASSUME x # p
                 PROVE  pc[x] = "child" /\ child[x] \in x + 1 .. y /\ Alive(child[x])
      OBVIOUS
    <2> Parents
      BY DEF RInv
    <2>1. CASE q \in rival'
      <3>1. \A a, b \in Procs : Alive(a) /\ Alive(b) /\ a < b =>
               pc[a] = "child" /\ child[a] \in a + 1 .. b /\ Alive(child[a])
        BY <1>2, <1>3, <1>11, <2>1 DEF RInv, OneChain
      <3>2. x < p
        BY <1>1, <1>8, <1>11, <3>1, BoundsAssumption
      <3> QED
        BY <1>3, <1>8, <1>11, <3>1, <3>2, BoundsAssumption
    <2>2. CASE q \notin rival'
      <3>1. x \in Above(p) /\ pc[x] = "child" /\ child[x] \in Above(p)
        BY <1>2, <1>9, <1>11, <2>2
      <3>2. child[x] \in Procs /\ x < child[x] /\ child[x] <= p
        BY <1>9, <3>1, AboveBefore DEF Parents
      <3>3. Alive(child[x])
        BY <1>8, <1>9, <3>1 DEF Alive, Ended
      <3>4. child[x] <= y
        <4>1. CASE y = q
          BY <1>6, <3>2, <3>3, <4>1, BoundsAssumption
        <4>2. CASE y # q
          <5>1. y \in Above(p)
            BY <1>2, <1>3, <1>11, <2>2, <4>2
          <5>2. y \notin Above(x)
            BY <1>11, AboveBefore, BoundsAssumption
          <5>3. x \in Above(y) /\ x # y
            BY <1>11, <3>1, <5>1, <5>2, AboveOrdered
          <5>4. child[x] \in Above(y)
            BY <5>3, AboveWaits
          <5> QED
            BY <5>4, AboveBefore
        <4> QED
          BY <4>1, <4>2
      <3> QED
        BY <3>1, <3>2, <3>3, <3>4, BoundsAssumption
    <2> QED
      BY <2>1, <2>2
  <1>12. OneChain'
    <2> SUFFICES ASSUME \E r \in Procs \ rival' : Alive(r)',
                        NEW x \in Procs, NEW y \in Procs, Alive(x)', Alive(y)', x < y
                 PROVE  (pc[x] = "child" /\ child[x] \in x + 1 .. y /\ Alive(child[x]))'
      BY DEF OneChain
    <2>1. x # q /\ Alive(x)
      BY <1>3, <1>6
    <2>2. CASE x = p
      <3>1. y = q
        <4>1. ASSUME y # q PROVE FALSE
          <5>1. Alive(y)
            BY <1>3, <4>1
          <5>2. CASE q \in rival'
            BY <1>1, <1>2, <1>3, <2>1, <2>2, <5>1, <5>2 DEF RInv, OneChain
          <5>3. CASE q \notin rival'
            BY <1>2, <2>2, <5>1, <5>3, AboveBefore, BoundsAssumption DEF RInv
          <5> QED
            BY <5>2, <5>3
        <4> QED
          BY <4>1
      <3> QED
        BY <1>3, <1>4, <1>8, <2>2, <3>1, BoundsAssumption
    <2>3. CASE x # p
      <3>1. pc[x] = "child" /\ child[x] \in x + 1 .. y /\ Alive(child[x])
        BY <1>11, <2>1, <2>3
      <3>2. child[x] \in Procs
        BY <3>1, BoundsAssumption
      <3> QED
        BY <1>3, <1>4, <2>1, <2>3, <3>1, <3>2
    <2> QED
      BY <2>2, <2>3
  <1>13. Apart'
    <2> SUFFICES ASSUME NEW a \in Procs, NEW b \in Procs, a \notin rival', Alive(a)', Alive(b)', b < a
                 PROVE  db'[b] = 0
      BY DEF Apart
    <2>1. Alive(b)
      BY <1>3, <1>6
    <2>2. CASE a = q
      BY <1>2, <1>5, <2>1, <2>2
    <2>3. CASE a # q
      <3>1. db[b] = 0
        BY <1>2, <1>3, <2>1, <2>3 DEF RInv, Apart
      <3> QED
        BY <1>5, <3>1
    <2> QED
      BY <2>2, <2>3
  <1>14. SeesFile'
    <2>1. db'[q] = 0
      BY <1>1, <1>5 DEF IInv, Closed
    <2>2. path = 0 => empty'[q] /\ op'[q] = "none"
      BY <1>1, <1>t
    <2>3. \A r \in Procs \ rival' : r # q /\ Alive(r)' /\ path = 0 =>
             empty'[r] /\ db'[r] = 0 /\ op'[r] \in {"none", "set"}
      BY <1>2, <1>3, <1>4, <1>5 DEF RInv, SeesFile
    <2> QED
      BY <1>1, <2>1, <2>2, <2>3 DEF SeesFile
  <1>15. Creators'
    <2>1. \A r \in Procs : pc[r] = "lock" => r # p /\ r # q
      BY <1>1
    <2>2. \A r \in Procs \ {p} : db'[r] = db[r]
      BY <1>t DEF RunScript, RunEditor
    <2>3. \A r \in Procs : pc[r] = "lock" => pc'[r] = "lock" /\ mode'[r] = mode[r] /\ db'[r] = db[r]
      BY <1>4, <2>1, <2>2
    <2>4. CASE Procs \subseteq rival
      BY <1>2, <2>4 DEF Creators
    <2>5. CASE ~(Procs \subseteq rival)
      <3>1. ASSUME NEW f \in Files, data[f] = Blank
            PROVE  \E r \in Procs : pc'[r] = "lock" /\ mode'[r] = "write" /\ db'[r] = f
        BY <2>3, <2>5, <3>1 DEF RInv, Creators
      <3> QED
        BY <1>1, <3>1 DEF Creators
    <2> QED
      BY <2>4, <2>5
  <1>16. FailsByRival'
    BY <1>2, <1>4 DEF RInv, FailsByRival
  <1> QED
    BY <1>7, <1>10, <1>12, <1>13, <1>14, <1>15, <1>16 DEF RInv

\* One that the user starts runs into all that run, if any do.
LEMMA StartKeeps ==
    ASSUME IInv, RInv, NEW q \in Procs, NEW m \in Modes, Start(q, m)
    PROVE  RInv'
  <1>1. /\ pc[q] = "off" /\ \A r \in 1 .. q - 1 : pc[r] # "off"
        /\ pc' = [pc EXCEPT ![q] = "ready"]
        /\ rival \subseteq rival'
        /\ UNCHANGED <<path, data, db, child>>
    BY DEF Start, Launch
  <1>2. /\ \A r \in Procs : Alive(r) => r \in rival'
        /\ q \notin rival' => \A r \in Procs : ~Alive(r)
    BY DEF Start, Launch
  <1>3. \A r \in Procs : pc'[r] = IF r = q THEN "ready" ELSE pc[r]
    BY <1>1 DEF IInv, TypeOK
  <1>4. \A r \in Procs : Alive(r)' /\ r \notin rival' => r = q
    BY <1>2, <1>3 DEF Alive, Ended
  <1>5. \A r \in Procs : q \notin rival' /\ Alive(r)' => r = q
    BY <1>2, <1>3 DEF Alive, Ended
  <1>6. InOrder'
    BY <1>1, <1>3, BoundsAssumption DEF RInv, InOrder
  <1>7. Parents'
    BY <1>1, <1>3 DEF RInv, Parents
  <1>8. OneChain' /\ Apart'
    BY <1>4, <1>5 DEF OneChain, Apart
  <1>9. SeesFile'
    <2>1. db'[q] = 0
      BY <1>1 DEF IInv, Closed
    <2>2. path = 0 => empty'[q] /\ op'[q] = "none"
      BY DEF Start, Launch, IInv, TypeOK
    <2> QED
      BY <1>1, <1>4, <2>1, <2>2 DEF SeesFile
  <1>10. Creators'
    <2>1. \A r \in Procs : pc[r] = "lock" => pc'[r] = "lock" /\ mode'[r] = mode[r]
      BY <1>1, <1>3 DEF Start, Launch, IInv, TypeOK
    <2>2. CASE Procs \subseteq rival
      BY <1>1, <2>2 DEF Creators
    <2>3. CASE ~(Procs \subseteq rival)
      BY <1>1, <2>1, <2>3 DEF RInv, Creators
    <2> QED
      BY <2>2, <2>3
  <1>11. FailsByRival'
    BY <1>1, <1>3 DEF RInv, FailsByRival
  <1> QED
    BY <1>6, <1>7, <1>8, <1>9, <1>10, <1>11 DEF RInv

\* Of the files that are not initialised, those that a process creates are the
\* ones that it locks next, and it lets go of none before it has.
LEMMA CreatorsKept ==
    ASSUME IInv, RInv, NEW p \in Procs, OpenFile(p) \/ Lock(p)
    PROVE  Creators'
  <1>1. CASE Procs \subseteq rival
    BY <1>1 DEF OpenFile, Lock, Creators
  <1>2. CASE ~(Procs \subseteq rival)
    <2> SUFFICES ASSUME NEW f \in Files, data'[f] = Blank
                 PROVE  \E r \in Procs : pc'[r] = "lock" /\ mode'[r] = "write" /\ db'[r] = f
      BY DEF Creators
    <2>1. data[f] = Blank =>
             \E r \in Procs : pc[r] = "lock" /\ mode[r] = "write" /\ db[r] = f
      BY <1>2 DEF RInv, Creators
    <2>2. CASE OpenFile(p)
      <3>1. /\ pc' = [pc EXCEPT ![p] = "lock"] /\ db' = [db EXCEPT ![p] = path']
            /\ mode' = mode /\ pc[p] = "ready"
        BY <2>2 DEF OpenFile, Opening
      <3>2. CASE data[f] = Blank
        BY <2>1, <3>1, <3>2 DEF IInv, TypeOK
      <3>3. CASE data[f] # Blank
        <4>1. f = path' /\ mode[p] = "write"
          BY <2>2, <3>3 DEF OpenFile, IInv, TypeOK
        <4> QED
          BY <3>1, <4>1 DEF IInv, TypeOK
      <3> QED
        BY <3>2, <3>3
    <2>3. CASE Lock(p)
      <3>1. /\ pc' = [pc EXCEPT ![p] = "ready"] /\ db' = db /\ mode' = mode
            /\ data[f] = Blank /\ f # db[p]
        BY <2>3, NamesAssumption DEF Lock, IInv, TypeOK
      <3> QED
        BY <2>1, <3>1 DEF IInv, TypeOK
    <2> QED
      BY <2>2, <2>3
  <1> QED
    BY <1>1, <1>2

\* A process that has run into nobody finds its file, initialised and free.
LEMMA FailedByRival ==
    ASSUME IInv, RInv, NEW p \in Procs, NoFile(p) \/ CannotInit(p) \/ Timeout(p)
    PROVE  p \in rival
  <1> SUFFICES ASSUME p \notin rival PROVE FALSE
    OBVIOUS
  <1>1. Alive(p) /\ pc[p] \in {"ready", "lock"}
    BY DEF NoFile, Opening, CannotInit, Timeout, Alive, Ended
  <1>2. \A q \in Procs : q # p /\ Alive(q) => pc[q] = "child" /\ db[q] = 0
    <2> SUFFICES ASSUME NEW q \in Procs, q # p, Alive(q)
                 PROVE  pc[q] = "child" /\ db[q] = 0
      OBVIOUS
    <2>1. q < p
      BY <1>1, BoundsAssumption DEF RInv, OneChain
    <2> QED
      BY <1>1, <2>1 DEF RInv, OneChain, Apart
  <1>3. CASE NoFile(p)
    BY <1>1, <1>3 DEF NoFile, Opening, RInv, SeesFile, IInv, Writers
  <1>4. CASE CannotInit(p)
    <2>1. db[p] \in Files /\ data[db[p]] = Blank /\ mode[p] # "write"
      BY <1>4 DEF CannotInit, IInv, TypeOK, Waiters
    <2>2. PICK q \in Procs : pc[q] = "lock" /\ mode[q] = "write"
      BY <2>1 DEF RInv, Creators
    <2> QED
      BY <1>2, <2>1, <2>2 DEF Alive, Ended
  <1>5. CASE Timeout(p)
    <2>1. PICK q \in locked : db[q] = db[p]
      BY <1>5 DEF Timeout, Conflict
    <2>2. q \in Procs /\ q # p /\ Alive(q) /\ db[q] # 0
      BY <1>5, <2>1 DEF Timeout, IInv, TypeOK, Holders, Waiters, Alive, Ended
    <2> QED
      BY <1>2, <2>2
  <1> QED
    BY <1>3, <1>4, <1>5

LEMMA RivalStep == IInv /\ RInv /\ [Next]_vars => RInv'
  <1> SUFFICES ASSUME IInv, RInv, [Next]_vars PROVE RInv'
    OBVIOUS
  <1>1. ASSUME NEW p \in Procs, Return(p) PROVE RInv'
    <2>1. /\ pc[p] = "child" /\ ~Alive(child[p])
          /\ pc' = [pc EXCEPT ![p] = "ready"] /\ child' = [child EXCEPT ![p] = None]
          /\ UNCHANGED <<path, data, mode, empty, db, op, rival>>
      BY <1>1 DEF Return, Alive
    <2>t. /\ pc \in [Procs -> {"off", "ready", "lock", "child", "done", "failed"}]
          /\ child \in [Procs -> Procs \cup {None}]
      BY DEF IInv, TypeOK
    <2>2. \A q \in Procs : /\ Alive(q)' <=> Alive(q)
                           /\ q # p => pc'[q] = pc[q] /\ child'[q] = child[q]
      BY <2>1, <2>t DEF Alive, Ended
    <2>3. InOrder' /\ Parents' /\ FailsByRival'
      BY <2>1, <2>t DEF RInv, InOrder, Parents, FailsByRival
    <2>4. OneChain'
      <3> SUFFICES ASSUME \E r \in Procs \ rival : Alive(r),
                          NEW x \in Procs, NEW y \in Procs, Alive(x), Alive(y), x < y
                   PROVE  (pc[x] = "child" /\ child[x] \in x + 1 .. y /\ Alive(child[x]))'
        BY <2>1, <2>2 DEF OneChain
      <3>1. pc[x] = "child" /\ child[x] \in x + 1 .. y /\ Alive(child[x])
        BY DEF RInv, OneChain
      <3>2. x # p /\ child[x] \in Procs
        BY <2>1, <3>1, BoundsAssumption
      <3> QED
        BY <2>2, <3>1, <3>2
    <2>5. Apart' /\ SeesFile'
      BY <2>1, <2>2 DEF RInv, Apart, SeesFile
    <2>6. Creators'
      BY <2>1, <2>2 DEF RInv, Creators
    <2> QED
      BY <2>3, <2>4, <2>5, <2>6 DEF RInv
  <1>2. ASSUME NEW p \in Procs, OpenFile(p) PROVE RInv'
    <2>1. /\ pc' = [pc EXCEPT ![p] = "lock"] /\ db' = [db EXCEPT ![p] = path'] /\ path' # 0
          /\ pc[p] = "ready" /\ UNCHANGED <<child, rival>>
      BY <1>2, BoundsAssumption DEF OpenFile, Opening, IInv, TypeOK
    <2>2. SeesFile' /\ Creators'
      BY <1>2, <2>1, CreatorsKept DEF SeesFile
    <2> QED
      BY <2>1, <2>2, WorkKeeps DEF IInv, TypeOK, Alive, Ended
  <1>3. ASSUME NEW p \in Procs, NoFile(p) \/ CannotInit(p) \/ Timeout(p) PROVE RInv'
    <2>1. p \in rival /\ End(p, "failed") /\ Alive(p) /\ UNCHANGED <<path, data, rival>> /\ pc[p] # "child"
      BY <1>3, FailedByRival DEF NoFile, CannotInit, Timeout, Fail, Opening, Alive, Ended
    <2>2. ~(pc[p] = "lock" /\ mode[p] = "write" /\ data[db[p]] = Blank)
      BY <1>3 DEF NoFile, Opening, CannotInit, Timeout, Conflict, IInv, Holders
    <2> QED
      BY <2>1, <2>2, EndKeeps
  <1>4. ASSUME NEW p \in Procs, Lock(p) PROVE RInv'
    <2>1. /\ pc' = [pc EXCEPT ![p] = "ready"] /\ empty' = [empty EXCEPT ![p] = FALSE]
          /\ pc[p] = "lock" /\ UNCHANGED <<path, mode, db, op, child, rival>>
      BY <1>4 DEF Lock
    <2>2. \A q \in Procs : /\ Alive(q)' <=> Alive(q)
                           /\ q # p => pc'[q] = pc[q] /\ empty'[q] = empty[q]
      BY <2>1 DEF IInv, TypeOK, Alive, Ended
    <2>3. p \notin rival => path # 0
      BY <2>1 DEF RInv, SeesFile, IInv, Waiters, Alive, Ended
    <2>4. SeesFile'
      BY <2>1, <2>2, <2>3 DEF RInv, SeesFile
    <2> QED
      BY <1>4, <2>1, <2>2, <2>4, CreatorsKept, WorkKeeps DEF IInv, TypeOK, Alive, Ended
  <1>5. ASSUME NEW p \in Procs, Get(p) \/ Set(p) \/ Delete(p) \/ CopyTo(p) PROVE RInv'
    <2>1. /\ p \in locked /\ pc[p] = "ready"
          /\ UNCHANGED <<path, pc, mode, empty, child, rival>>
          /\ op' = [op EXCEPT ![p] = "none"]
          /\ db' = db \/ db' = [db EXCEPT ![p] = 0]
      BY <1>5 DEF Get, Set, Delete, CopyTo, Perform, Put
    <2>2. \A q \in Procs : /\ db'[q] \in {db[q], 0} /\ op'[q] \in {op[q], "none"}
                           /\ q # p => db'[q] = db[q]
      BY <2>1 DEF IInv, TypeOK
    <2>3. \A q \in Procs : Alive(q)' <=> Alive(q)
      BY <2>1 DEF Alive, Ended
    <2>4. SeesFile'
      BY <2>1, <2>2, <2>3 DEF RInv, SeesFile
    <2>5. \A f \in Files : data'[f] = Blank => data[f] = Blank
      BY <1>5, NamesAssumption DEF Get, Set, Delete, CopyTo, Put, IInv, TypeOK
    <2>6. \A q \in Procs : pc[q] = "lock" => pc'[q] = "lock" /\ mode'[q] = mode[q] /\ db'[q] = db[q]
      BY <2>1, <2>2
    <2>7. Creators'
      BY <2>1, <2>5, <2>6 DEF RInv, Creators
    <2> QED
      BY <2>1, <2>2, <2>4, <2>7, WorkKeeps DEF Alive, Ended
  <1>6. ASSUME NEW p \in Procs, Finish(p) PROVE RInv'
    BY <1>6, EndKeeps DEF Finish, Alive, Ended
  <1>7. ASSUME NEW p \in Procs, Purge(p) PROVE RInv'
    BY <1>7, EndKeeps DEF Purge, Alive, Ended
  <1>8. ASSUME NEW p \in Procs, Kill(p) PROVE RInv'
    BY <1>8, EndKeeps DEF Kill, IInv, TypeOK
  <1>9. ASSUME NEW p \in Procs, NEW m \in Modes, Start(p, m) PROVE RInv'
    BY <1>9, StartKeeps
  <1>10. ASSUME NEW p \in Procs, NEW q \in Procs, NEW m \in Modes,
                RunScript(p, q, m) \/ RunEditor(p, q, m)
         PROVE  RInv'
    BY <1>10, LaunchKeeps
  <1>11. ASSUME NEW p \in Procs, NEW o \in Ops, Call(p, o) PROVE RInv'
    <2>1. /\ pc[p] = "ready" /\ UNCHANGED <<path, data, pc, mode, empty, db, child, rival>>
          /\ o \in {"get", "set", "delete"}
          /\ op' = IF empty[p] /\ o # "set" THEN op ELSE [op EXCEPT ![p] = o]
      BY <1>11 DEF Call
    <2>2. \A q \in Procs : q # p \/ (empty[p] /\ o # "set") => op'[q] = op[q]
      BY <2>1 DEF IInv, TypeOK
    <2>3. ~(empty[p] /\ o # "set") => op'[p] = o
      BY <2>1 DEF IInv, TypeOK
    <2>4. SeesFile'
      BY <2>1, <2>2, <2>3 DEF RInv, SeesFile, Alive, Ended
    <2>5. Creators'
      BY <2>1 DEF RInv, Creators
    <2> QED
      BY <2>1, <2>4, <2>5, WorkKeeps DEF Alive, Ended
  <1>12. CASE UNCHANGED vars
    BY <1>12 DEF vars, local, RInv, InOrder, Parents, OneChain, Apart, SeesFile, Creators,
                 FailsByRival, Alive, Ended
  <1> QED
    BY <1>1, <1>2, <1>3, <1>4, <1>5, <1>6, <1>7, <1>8, <1>9, <1>10, <1>11, <1>12
       DEF Next, Work, User

LEMMA RivalInvariant == Spec => []RInv
  BY Invariant, RivalInit, RivalStep, PTL DEF Spec

-----------------------------------------------------------------------------
(* Theorems.                                                               *)

\* BoltState is well typed: a process reads only files that are initialised.
THEOREM TypeCorrect == Spec => []TypeOK
  <1>1. IInv => TypeOK
    BY DEF IInv
  <1> QED
    BY Invariant, <1>1, PTL

\* While a process has the state open nobody else writes the record that it
\* read, so that what SourceState.Apply replaces is what it judged by.
THEOREM RecordsAreStable == Spec => RecordStable
  <1>1. IInv /\ [Next]_vars
          => \A p \in Procs : (Set(p) \/ Delete(p)) /\ seen[p] # Unread => data[db[p]] = seen[p]
    BY DEF IInv, Fresh
  <1> QED
    BY Invariant, <1>1, PTL DEF Spec, RecordStable

\* A command fails on the persistent state only when it ran into another process:
\* a file that is there stays there for it, one that it opens is initialised or
\* about to be, and those that wait for it, in whose editor it runs, have let go.
THEOREM FailuresHaveRivals == Spec => []FailsByRival
  <1>1. RInv => FailsByRival
    BY DEF RInv
  <1> QED
    BY RivalInvariant, <1>1, PTL
=============================================================================
