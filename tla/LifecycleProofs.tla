---------------------------- MODULE LifecycleProofs ----------------------------
(***************************************************************************)
(* Proofs about Lifecycle, for any tree of targets, any worlds and command *)
(* lines, and any number of runs and stops: what a command takes up or     *)
(* removes is never lost half way, and nothing is given up unasked. They   *)
(* are theorems of Commands, which lifts them to its behaviours.           *)
(*                                                                         *)
(* The argument is about what a command has decided to do and not yet done *)
(* (ops, renames). Kept says of the source directory that no managed       *)
(* target is without an entry. The one operation that removes an entry,    *)
(* "remove", stands in an update behind the "write" of the entry that      *)
(* replaces it (DropFits, Replaced), or its target is meant to go; writing *)
(* and renaming take no entry of another target away, because directories  *)
(* keep the name that they were read with or were given by this command    *)
(* (DirsFit). Each action keeps that of the updates that it leaves, adds   *)
(* or shortens.                                                            *)
(***************************************************************************)
EXTENDS LifecycleProps, TLAPS, SequenceTheorems, FiniteSetTheorems
-----------------------------------------------------------------------------
(* Types.                                                                  *)

Entries == Source \cup {Marked(t, m) : t \in Targets \cup {Home}, m \in Marks}

Ops ==
    [do : {"write"}, e : Source, to : Source]
    \cup [do : {"record"}, e : Entries, to : Dest]
    \cup [do : {"rename"}, e : Entries, to : Source]
    \cup [do : {"remove", "keep", "destroy", "delete", "wipe"}, e : Entries, to : Entries \cup Dest]

\* The operations of one sourceUpdate, of which one is left at least.
Updates == Seq(Ops) \ {<<>>}

StoreTyped ==
    /\ dest \in [Targets -> Dest] /\ src \subseteq Source /\ keeps \subseteq Targets
    /\ db \in [Targets -> Dest \cup {Unrecorded}]
    /\ world \in [special : [Targets -> Marks], ignored : SUBSET Targets]
    /\ left \in [runs : 0..MaxRuns, stops : 0..MaxStops]

CommandTyped ==
    /\ cmd = NoCommand \/ (cmd \in CommandLines /\ (cmd.name # "import" => cmd.remove = {}))
    /\ root \in [Targets -> Entries] /\ \A t \in Targets : root[t].of = t
    /\ pc \in {"idle", "plan", "re-add", "ask", "do"}
    /\ agreed \subseteq Targets /\ pestered \subseteq all
    /\ said \in [no : BOOLEAN, clash : BOOLEAN, cut : BOOLEAN]

PlanTyped ==
    /\ todo \in Seq(Targets) /\ dirs \subseteq Targets
    /\ DOMAIN infos \subseteq Targets /\ infos \in [DOMAIN infos -> Dest]
    /\ news \subseteq Source /\ IsFiniteSet(news)
    /\ ops \in Seq(Updates) /\ renames \in Seq(Updates)

Typed == StoreTyped /\ CommandTyped /\ PlanTyped

\* Which command is where, and what it has by then.
Phases ==
    /\ pc = "idle" => ops = <<>> /\ renames = <<>> /\ todo = <<>>
    /\ pc = "plan" => /\ cmd.name \in {"add", "import"}
                      /\ \A k \in DOMAIN todo : todo[k] \in DOMAIN infos
    /\ pc = "re-add" => cmd.name = "re-add" /\ ops = <<>> /\ renames = <<>>
    /\ pc = "ask" => cmd.name \in {"forget", "destroy"} /\ ops = <<>> /\ renames = <<>>
    /\ pc = "do" => cmd # NoCommand /\ renames = <<>>
    /\ cmd.name \in {"forget", "destroy"} => ~said.clash

-----------------------------------------------------------------------------
(* What is kept of what was there.                                         *)

\* The properties speak of this command, and of its end.
Bound == cmd # NoCommand /\ ~said.clash /\ cmd.remove = {}

\* The entry has the attributes of the old one that the user did not give up.
Agreeable(t, e) ==
    (cmd.name = "add" /\ Managed(root[t]) /\ ~IsDir(t) /\ t \notin agreed /\ ~cmd.force) =>
        e.kind = "dir" \/ root[t].attrs \cap {"encrypted", "private", "template"} \subseteq e.attrs

\* NeverLost and AttributesAgreed in one.
Kept ==
    \A t \in Targets : Managed(root[t]) => Intended(t) \/ \E e \in src : e.of = t /\ Agreeable(t, e)

\* The entry of a directory that the command takes in.
DirOf(t) ==
    New(t, infos[t], [attrs |-> {}, exact |-> IF cmd.name = "re-add" THEN {} ELSE AddOptions.exact])

\* A directory in the source is ignored, an old one, or one that was taken in.
DirsFit ==
    \A x \in src : x.kind = "dir" =>
        \/ x.of \in world.ignored \/ x = root[x.of]
        \/ x.of \in DOMAIN infos /\ infos[x.of].type = "dir" /\ x = DirOf(x.of)

\* What is ignored is not managed, and re-add saw what is there.
RootFits ==
    /\ \A t \in Targets : Managed(root[t]) => t \notin world.ignored
    /\ cmd.name = "re-add" => \A t \in DOMAIN infos : infos[t] = dest[t]

\* The new entry of a target is there.
Replaced(e) == \E x \in src : x.of = e.of /\ ~SameName(x, e) /\ Agreeable(e.of, x)

WriteFits(e) ==
    /\ cmd.name \notin {"forget", "destroy"}
    /\ e.of \in DOMAIN infos /\ (e.kind = "dir" <=> infos[e.of].type = "dir")
    /\ e.kind = "dir" => e = DirOf(e.of)
    /\ Agreeable(e.of, e)

RenameFits(e, f) ==
    /\ cmd.name \notin {"forget", "destroy"}
    /\ f.of \in DOMAIN infos /\ infos[f.of].type = "dir" /\ f = DirOf(f.of)
    /\ e = root[f.of] /\ IsDir(f.of)

\* The j-th operation of an update removes an entry that is to go, is gone from
\* an exact_ directory, or has a new one, which was written before it: in the
\* same update, of which it may be the first that is left.
DropFits(update, j, first) ==
    LET e == update[j].e
    IN /\ e.of \in Targets /\ e = root[e.of]
       /\ \/ cmd.name = "forget" /\ e.of \in agreed
          \/ /\ cmd.name = "destroy" /\ e.of \in agreed
             /\ \/ \A u \in Targets : u = e.of \/ u \in Below(e.of) => dest[u] = Nothing
                \/ j > 1 /\ update[j - 1] = Destroy(e.of)
          \/ /\ cmd.name = "re-add" /\ e.of \in agreed \ world.ignored
             /\ ~IsDir(e.of) /\ dest[e.of] = Nothing
          \/ /\ cmd.name \notin {"forget", "destroy"} /\ Managed(e) /\ e.of \in DOMAIN infos
             /\ IsDir(e.of) => infos[e.of].type # "dir"
             /\ infos[e.of].type = "dir" => ~SameName(DirOf(e.of), e)
             /\ \/ j = 1 /\ first /\ Replaced(e)
                \/ /\ j > 1 /\ update[j - 1].do = "write" /\ update[j - 1].e.of = e.of
                   /\ ~SameName(update[j - 1].e, e)

OpFits(update, j, first) ==
    LET op == update[j]
    IN /\ op.do # "wipe"
       /\ op.do = "write" => WriteFits(op.e)
       /\ op.do = "rename" => RenameFits(op.e, op.to)
       /\ op.do = "remove" => DropFits(update, j, first)
       /\ op.do = "destroy" => cmd.name = "destroy"

UpdateFits(update, first) == \A j \in DOMAIN update : OpFits(update, j, first)

OpsFit == \A k \in DOMAIN ops : UpdateFits(ops[k], k = 1)

RenamesFit ==
    \A k \in DOMAIN renames : UpdateFits(renames[k], FALSE)

\* What destroy takes from the source is gone from the destination.
Emptied ==
    cmd.name = "destroy" =>
        \A t \in Targets : Managed(root[t]) => dest[t] = Nothing \/ \E e \in src : e.of = t

KeptInv == Bound => Kept /\ DirsFit /\ RootFits /\ OpsFit /\ RenamesFit /\ Emptied

-----------------------------------------------------------------------------
(* Questions.                                                              *)

\* An answer of all is in force until the command ends.
Heeded ==
    pc # "idle" =>
        /\ "add" \in all => cmd.name = "add" /\ ~cmd.prompt
        /\ "replace" \in all => cmd.name = "add" /\ cmd.force
        /\ "re-add" \in all => cmd.name = "re-add" /\ ~cmd.prompt
        /\ "destroy" \in all => cmd.name = "destroy" /\ cmd.force

IInv == Typed /\ Phases /\ KeptInv /\ Heeded /\ AllIsFinal
-----------------------------------------------------------------------------
(* Operators.                                                              *)

LEMMA OrderFacts ==
    ASSUME LifecycleAssumption
    PROVE  Len(Order) \in Nat /\ DOMAIN Order = 1..Len(Order) /\ Order \in [1..Len(Order) -> Targets]
  <1>1. Order \in Seq(Targets)
    BY Zenon DEF LifecycleAssumption
  <1> QED
    BY <1>1, LenProperties

LEMMA TargetsFinite == LifecycleAssumption => IsFiniteSet(Targets)
  <1> SUFFICES ASSUME LifecycleAssumption PROVE IsFiniteSet(Targets)
    OBVIOUS
  <1> DEFINE n == Len(Order)
  <1>1. n \in Nat /\ DOMAIN Order = 1..n /\ Order \in [1..n -> Targets]
    BY OrderFacts
  <1>2. \A t \in Targets : \E i \in 1..n : Order[i] = t
    BY <1>1 DEF Targets, ToSet
  <1>3. Order \in Surjection(1..n, Targets)
    BY <1>1, <1>2 DEF Surjection
  <1>4. IsFiniteSet(1..n)
    BY <1>1, FS_Interval
  <1> QED
    BY <1>3, <1>4, FS_Surjection

\* InOrder makes a sequence of a set of targets: the ranks of n targets are the
\* numbers up to n, since no two targets have one rank.
LEMMA InOrderIsSeq ==
    ASSUME LifecycleAssumption, NEW S \in SUBSET Targets
    PROVE  InOrder(S) \in Seq(S)
  <1> DEFINE upTo(t) == {u \in S : Position(u) <= Position(t)}
             rank    == [t \in S |-> Cardinality(upTo(t))]
             n       == Cardinality(S)
  <1>1. \A t \in S : Position(t) \in Nat /\ Order[Position(t)] = t
    <2>1. \A t \in Targets : \E i \in DOMAIN Order : Order[i] = t
      BY DEF Targets, ToSet
    <2>2. DOMAIN Order \subseteq Nat
      BY OrderFacts
    <2> QED
      BY <2>1, <2>2 DEF Position
  <1>2. IsFiniteSet(S) /\ n \in Nat
    BY TargetsFinite, FS_Subset, FS_CardinalityType
  <1>3. ASSUME NEW t \in S
        PROVE  IsFiniteSet(upTo(t)) /\ t \in upTo(t) /\ Cardinality(upTo(t)) \in 1..n
    <2>1. upTo(t) \in SUBSET S /\ t \in upTo(t)
      BY <1>1
    <2>2. IsFiniteSet(upTo(t)) /\ Cardinality(upTo(t)) <= n
      BY <1>2, <2>1, FS_Subset
    <2>3. Cardinality(upTo(t)) \in Nat /\ Cardinality(upTo(t)) # 0
      BY <2>1, <2>2, FS_CardinalityType, FS_EmptySet
    <2> QED
      BY <1>2, <2>1, <2>2, <2>3
  <1>4. ASSUME NEW t \in S, NEW u \in S, Cardinality(upTo(t)) = Cardinality(upTo(u)), Position(t) <= Position(u)
        PROVE  t = u
    <2>1. upTo(t) \in SUBSET upTo(u)
      BY <1>1, <1>4
    <2>2. upTo(t) = upTo(u)
      BY <1>3, <1>4, <2>1, FS_Subset
    <2>3. u \in upTo(t)
      BY <1>3, <2>2
    <2> QED
      BY <1>1, <1>4, <2>3
  <1>5. rank \in Injection(S, 1..n)
    <2>1. rank \in [S -> 1..n]
      BY <1>3
    <2>2. ASSUME NEW t \in S, NEW u \in S, rank[t] = rank[u] PROVE t = u
      BY <1>1, <1>4, <2>2
    <2> QED
      BY <2>1, <2>2 DEF Injection, IsInjective
  <1>6. rank \in Surjection(S, 1..n)
    <2>1. IsFiniteSet(1..n) /\ Cardinality(1..n) = n
      BY <1>2, FS_Interval
    <2> QED
      BY <1>5, <2>1, FS_Injection
  <1>7. \A k \in 1..n : \E t \in S : Cardinality(upTo(t)) = k
    BY <1>6 DEF Surjection
  <1> DEFINE sorted == [k \in 1..n |-> CHOOSE t \in S : Cardinality(upTo(t)) = k]
  <1>8. sorted \in [1..n -> S]
    BY <1>7
  <1>9. InOrder(S) = sorted
    BY DEF InOrder
  <1>10. sorted \in Seq(S)
    <2> HIDE DEF sorted, n
    <2> QED
      BY <1>2, <1>8
  <1> QED
    BY <1>9, <1>10

LEMMA SetToSeqIsSeq ==
    ASSUME NEW S, IsFiniteSet(S)
    PROVE  SetToSeq(S) \in Seq(S)
  <1>1. Cardinality(S) \in Nat /\ ExistsBijection(1..Cardinality(S), S)
    BY FS_CardinalityType
  <1>2. \E f \in [1..Cardinality(S) -> S] : IsInjective(f)
    BY <1>1 DEF ExistsBijection, Bijection, Injection
  <1>3. SetToSeq(S) \in [1..Cardinality(S) -> S]
    BY <1>2 DEF SetToSeq
  <1> QED
    BY <1>1, <1>3

LEMMA EntryFacts ==
    /\ \A t, m : Marked(t, m).of = t /\ Marked(t, m).kind = m
    /\ \A e \in Source : e.kind \notin Marks /\ e.of \in Targets /\ Managed(e)
    /\ \A e \in Entries : Managed(e) <=> e \in Source
    /\ \A t \in Targets \cup {Home}, m \in Marks : Marked(t, m) \in Entries
    /\ Source \subseteq Entries
  <1>1. \A t, m : Marked(t, m).of = t /\ Marked(t, m).kind = m
    BY DEF Marked
  <1>2. \A e \in Source : e.kind \notin Marks /\ e.of \in Targets /\ Managed(e)
    BY DEF Source, Marks, Managed
  <1> QED
    BY <1>1, <1>2 DEF Entries, Managed

LEMMA EmptyText == LifecycleAssumption => "" \in Contents
  BY Zenon DEF LifecycleAssumption

LEMMA DestFacts ==
    /\ \A i \in Dest : i.type \in {"absent", "dir", "file", "symlink"}
    /\ \A i \in Dest : i # Nothing => i.type # "absent"
    /\ Nothing \in Dest /\ Nothing.type = "absent"
    /\ LifecycleAssumption => \A i \in Dest : i.text \in Contents
  <1>1. ASSUME NEW i \in Dest
        PROVE  i = Nothing \/ (i.type \in {"dir", "file", "symlink"} /\ i.text \in Contents \cup {""})
    <2>1. CASE i \in [type : {"dir"}, text : {""}, private : BOOLEAN]
      BY <2>1
    <2>2. CASE i \in [type : {"file"}, text : Contents, private : BOOLEAN]
      BY <2>2
    <2>3. CASE i \in [type : {"symlink"}, text : Contents, private : {FALSE}]
      BY <2>3
    <2> QED
      BY <2>1, <2>2, <2>3 DEF Dest
  <1>2. Nothing.type = "absent" /\ Nothing.text = ""
    BY DEF Nothing
  <1>3. Nothing \in Dest
    BY DEF Dest
  <1> QED
    BY <1>1, <1>2, <1>3, EmptyText

\* What is made of a target has its type, and is a directory if that is one.
LEMMA NewFacts ==
    ASSUME LifecycleAssumption, NEW t \in Targets, NEW i \in Dest, NEW o
    PROVE  /\ New(t, i, o) \in Source /\ New(t, i, o).of = t
           /\ New(t, i, o).kind = "dir" <=> i.type = "dir"
           /\ New(t, i, o).kind \in {"dir", "create", "file", "symlink"}
           /\ New(t, i, o).kind = "create" => "create" \in o.attrs
           /\ New(t, i, o).kind = "symlink" <=> i.type = "symlink"
  <1>1. i.type \in {"absent", "dir", "file", "symlink"} /\ i.text \in Contents /\ "" \in Contents
    BY DestFacts, EmptyText
  <1> DEFINE wanted == {a \in {"encrypted", "template"} : a \in o.attrs}
             mode   == IF i.private THEN {"private"} ELSE {}
             ex     == IF t \in o.exact THEN {"exact"} ELSE {}
             entry(k, a, x) == [of |-> t, kind |-> k, attrs |-> a, text |-> x]
  <1>2. /\ mode \cup ex \in SUBSET Attrs /\ mode \cup wanted \in SUBSET Attrs
        /\ wanted \in SUBSET Attrs /\ wanted \ {"encrypted"} \in SUBSET Attrs
    BY DEF Attrs
  <1>3. \A k \in {"dir", "create", "file", "symlink"}, a \in SUBSET Attrs, x \in Contents :
           entry(k, a, x) \in Source /\ entry(k, a, x).of = t /\ entry(k, a, x).kind = k
    BY DEF Source
  <1>4. /\ i.type = "dir" => New(t, i, o) = entry("dir", mode \cup ex, "")
        /\ i.type = "file" => New(t, i, o) = entry(IF "create" \in o.attrs THEN "create" ELSE "file", mode \cup wanted, i.text)
        /\ i.type = "symlink" => New(t, i, o) = entry("symlink", wanted \ {"encrypted"}, i.text)
        /\ i.type = "absent" => New(t, i, o) = entry("file", wanted, "")
    BY Zenon DEF New
  <1> HIDE DEF wanted, mode, ex, entry
  <1>5. \E k \in {"dir", "create", "file", "symlink"}, a \in SUBSET Attrs, x \in Contents :
           /\ New(t, i, o) = entry(k, a, x)
           /\ k = "dir" <=> i.type = "dir"
           /\ k = "create" => "create" \in o.attrs
           /\ k = "symlink" <=> i.type = "symlink"
    BY <1>1, <1>2, <1>4
  <1> QED
    BY <1>3, <1>5

\* The entry of a directory does not depend on the options but by exact_.
LEMMA NewDir ==
    ASSUME NEW t, NEW i, i.type = "dir", NEW o, NEW p, o.exact = p.exact
    PROVE  New(t, i, o) = New(t, i, p)
  BY Zenon DEF New

LEMMA OpsMade ==
    ASSUME LifecycleAssumption
    PROVE  /\ \A e \in Source : Write(e) \in Ops
           /\ \A e \in Entries : Drop(e) \in Ops /\ Keep(e) \in Ops
           /\ \A e \in Entries, f \in Source : Rename(e, f) \in Ops
           /\ \A t \in Targets : Destroy(t) \in Ops /\ Delete(t) \in Ops
           /\ \A t \in Targets, d \in Dest : Record(t, d) \in Ops
           /\ Wipe \in Ops
  <1>1. \A t \in Targets \cup {Home} : Marked(t, "none") \in Entries
    BY EntryFacts DEF Marks
  <1>2. Nothing \in Dest
    BY DestFacts
  <1>3. \A e \in Source : Write(e) \in Ops
    BY DEF Write, Ops
  <1>4. \A e \in Entries : Drop(e) \in Ops /\ Keep(e) \in Ops
    BY DEF Drop, Keep, Ops
  <1>5. \A e \in Entries, f \in Source : Rename(e, f) \in Ops
    BY DEF Rename, Ops
  <1>6. \A t \in Targets : Destroy(t) \in Ops /\ Delete(t) \in Ops
    BY <1>1, <1>2 DEF Destroy, Delete, Ops
  <1>7. \A t \in Targets, d \in Dest : Record(t, d) \in Ops
    BY <1>1 DEF Record, Ops
  <1>8. Wipe \in Ops
    BY <1>1, <1>2 DEF Wipe, Ops
  <1> QED
    BY <1>3, <1>4, <1>5, <1>6, <1>7, <1>8

LEMMA UpdatesMade ==
    \A a \in Ops, b \in Ops, c \in Ops : <<a>> \in Updates /\ <<a, b>> \in Updates /\ <<a, b, c>> \in Updates
  <1> SUFFICES ASSUME NEW a \in Ops, NEW b \in Ops, NEW c \in Ops
               PROVE  <<a>> \in Updates /\ <<a, b>> \in Updates /\ <<a, b, c>> \in Updates
    OBVIOUS
  <1>1. <<a>> \in Seq(Ops) /\ <<a, b>> \in Seq(Ops) /\ <<a, b, c>> \in Seq(Ops)
    OBVIOUS
  <1>2. Len(<<a>>) = 1 /\ Len(<<a, b>>) = 2 /\ Len(<<a, b, c>>) = 3 /\ Len(<<>>) = 0
    OBVIOUS
  <1> QED
    BY <1>1, <1>2 DEF Updates

\* The shapes of the update that takes a target in.
LEMMA SwapShapes ==
    ASSUME NEW t, NEW i, NEW e, NEW won
    PROVE  \/ Swap(t, i, e, won) = <<Write(e), Record(t, i)>>
           \/ /\ Managed(root[t]) /\ ~SamePath(root[t], e) /\ ~SameName(root[t], e)
              /\ Swap(t, i, e, won) = <<Write(e), Drop(root[t]), Record(t, i)>>
           \/ Clashes(t, e) /\ Swap(t, i, e, won) = <<Drop(root[t]), Record(t, i)>>
  BY Zenon DEF Swap, SamePath

LEMMA SwapTyped ==
    ASSUME LifecycleAssumption, CommandTyped, NEW t \in Targets, NEW i \in Dest, NEW e \in Source, NEW won
    PROVE  Swap(t, i, e, won) \in Updates
  <1>1. Write(e) \in Ops /\ Drop(root[t]) \in Ops /\ Record(t, i) \in Ops
    BY OpsMade DEF CommandTyped
  <1> QED
    BY <1>1, SwapShapes, UpdatesMade

\* The source state has the entry of a target, or marks it.
LEMMA StateOfFacts ==
    ASSUME StoreTyped, NEW t \in Targets
    PROVE  /\ StateOf(t) \in Entries /\ StateOf(t).of = t
           /\ Managed(StateOf(t)) => StateOf(t) \in src /\ t \notin world.ignored
           /\ Readable /\ t \notin world.ignored => \A x \in src : x.of = t => x = StateOf(t)
  <1> DEFINE own == {e \in src : e.of = t}
  <1>0. src \subseteq Source /\ world.special[t] \in Marks
    BY DEF StoreTyped
  <1>1. \A m \in {"none", "removal"} \cup {world.special[t]} :
           Marked(t, m) \in Entries /\ Marked(t, m).of = t /\ ~Managed(Marked(t, m))
    BY <1>0, EntryFacts DEF Marks, Managed
  <1>2. CASE t \in world.ignored
    <2>1. StateOf(t) = Marked(t, "none")
      BY <1>2, Zenon DEF StateOf
    <2> QED
      BY <1>1, <1>2, <2>1
  <1>3. CASE t \notin world.ignored /\ own # {}
    <2>1. StateOf(t) = CHOOSE e \in own : TRUE
      BY <1>3, Zenon DEF StateOf
    <2>2. StateOf(t) \in own
      BY <1>3, <2>1
    <2>3. Readable => \A x \in src : x.of = t => x = StateOf(t)
      BY <2>2 DEF Readable
    <2> QED
      BY <1>0, <1>3, <2>2, <2>3, EntryFacts
  <1>4. CASE t \notin world.ignored /\ own = {}
    <2>1. \E m \in {"none", "removal"} \cup {world.special[t]} : StateOf(t) = Marked(t, m)
      <3>1. \/ StateOf(t) = Marked(t, world.special[t])
            \/ StateOf(t) = Marked(t, "removal") \/ StateOf(t) = Marked(t, "none")
        BY <1>4, Zenon DEF StateOf
      <3> QED
        BY <3>1
    <2> QED
      BY <1>1, <1>4, <2>1
  <1> QED
    BY <1>2, <1>3, <1>4

-----------------------------------------------------------------------------
(* Types and phases are kept.                                              *)

LEMMA TypedImpliesTypeOK == Typed => TypeOK
  <1> SUFFICES ASSUME Typed PROVE TypeOK
    OBVIOUS
  <1>1. ToSet(todo) \subseteq Targets
    <2>1. todo \in Seq(Targets)
      BY DEF Typed, PlanTyped
    <2> QED
      BY <2>1, LenProperties DEF ToSet
  <1>2. cmd.name \in {"none", "add", "re-add", "import", "forget", "destroy"}
    BY DEF Typed, CommandTyped, NoCommand, CommandLines
  <1>3. StoreTyped /\ CommandTyped /\ PlanTyped
    BY DEF Typed
  <1> QED
    BY <1>1, <1>2, <1>3 DEF StoreTyped, CommandTyped, PlanTyped, TypeOK, Unrecorded

LEMMA InitTyped == LifecycleAssumption /\ Init => Typed /\ Phases
  <1> SUFFICES ASSUME LifecycleAssumption, Init PROVE Typed /\ Phases
    OBVIOUS
  <1>1. StoreTyped
    <2>1. PICK w \in Worlds :
            /\ dest = w.dest /\ src = w.src
            /\ world = [special |-> w.special, ignored |-> w.ignored]
            /\ left = [runs |-> w.runs, stops |-> MaxStops]
      BY Zenon DEF Init
    <2>2. /\ w \in [src : SUBSET Source, dest : [Targets -> Dest], special : [Targets -> Marks],
                    ignored : SUBSET Targets, runs : 0..MaxRuns]
          /\ MaxStops \in Nat
      BY Zenon DEF LifecycleAssumption
    <2>3. keeps = {} /\ db = [t \in Targets |-> Unrecorded]
      BY Zenon DEF Init
    <2> HIDE DEF Init, LifecycleAssumption
    <2> QED
      BY <2>1, <2>2, <2>3 DEF StoreTyped
  <1>2. CommandTyped
    <2>1. /\ cmd = NoCommand /\ root = [t \in Targets |-> Marked(t, "none")] /\ pc = "idle"
          /\ agreed = {} /\ pestered = {} /\ said = Nobody
      BY Zenon DEF Init
    <2>2. \A t \in Targets : Marked(t, "none") \in Entries /\ Marked(t, "none").of = t
      BY EntryFacts DEF Marks
    <2> QED
      BY <2>1, <2>2 DEF CommandTyped, Nobody
  <1>3. PlanTyped /\ Phases
    <2>1. /\ todo = <<>> /\ dirs = {} /\ infos = <<>> /\ news = {} /\ ops = <<>> /\ renames = <<>>
          /\ pc = "idle" /\ cmd = NoCommand
      BY Zenon DEF Init
    <2>2. IsFiniteSet(news)
      BY <2>1, FS_EmptySet
    <2> QED
      BY <2>1, <2>2 DEF PlanTyped, Phases, NoCommand
  <1> QED
    BY <1>1, <1>2, <1>3 DEF Typed

LEMMA BeginTyped ==
    ASSUME LifecycleAssumption, Typed, NEW c \in Commands, Begin(c), pc' \in {"plan", "re-add", "ask"},
           todo' \in Seq(Targets), dirs' \subseteq Targets,
           DOMAIN infos' \subseteq Targets, infos' \in [DOMAIN infos' -> Dest]
    PROVE  Typed' /\ cmd' = c /\ cmd' \in CommandLines /\ ops' = <<>> /\ renames' = <<>> /\ ~said'.clash
  <1>1. StoreTyped'
    <2>1. dest' = dest /\ src' = src /\ keeps' = keeps /\ db' = db /\ world' = world
      BY DEF Begin
    <2>2. left' = [left EXCEPT !.runs = @ - 1] /\ left.runs > 0
      BY DEF Begin
    <2>3. left' \in [runs : 0..MaxRuns, stops : 0..MaxStops]
      <3>1. left \in [runs : 0..MaxRuns, stops : 0..MaxStops]
        BY DEF Typed, StoreTyped
      <3>2. left.runs - 1 \in 0..MaxRuns
        <4>1. MaxRuns \in Nat
          BY Zenon DEF LifecycleAssumption
        <4> QED
          BY <2>2, <3>1, <4>1
      <3> QED
        BY <2>2, <3>1, <3>2
    <2> QED
      BY <2>1, <2>3 DEF Typed, StoreTyped
  <1>2. c \in CommandLines /\ (c.name # "import" => c.remove = {})
    BY Zenon DEF LifecycleAssumption
  <1>3. CommandTyped'
    <2>1. cmd' = c /\ root' = [t \in Targets |-> StateOf(t)] /\ agreed' = {} /\ pestered' = {} /\ said' = Nobody
      BY DEF Begin
    <2>2. root' \in [Targets -> Entries] /\ \A t \in Targets : root'[t].of = t
      BY <2>1, StateOfFacts DEF Typed
    <2> QED
      BY <1>2, <2>1, <2>2 DEF CommandTyped, Nobody
  <1>4. PlanTyped'
    <2>1. IsFiniteSet(news')
      BY FS_EmptySet DEF Begin
    <2> QED
      BY <2>1 DEF Begin, PlanTyped
  <1> QED
    BY <1>1, <1>2, <1>3, <1>4 DEF Begin, Typed, Nobody

LEMMA InOrderTyped ==
    ASSUME LifecycleAssumption, NEW S \in SUBSET Targets
    PROVE  /\ InOrder(S) \in Seq(Targets)
           /\ \A k \in DOMAIN InOrder(S) : InOrder(S)[k] \in S
  <1>1. InOrder(S) \in Seq(S)
    BY InOrderIsSeq
  <1> QED
    BY <1>1, SeqMonotonic, LenProperties, ElementOfSeq

LEMMA TreeFacts ==
    /\ \A t : Below(t) \subseteq Targets
    /\ LifecycleAssumption => \A t \in Targets : t \notin Below(t)
  BY Zenon DEF Below, LifecycleAssumption

LEMMA StartTyped ==
    ASSUME LifecycleAssumption, Typed, Start
    PROVE  Typed' /\ Phases'
  <1>1. PICK c \in Commands : StartAdd(c) \/ StartImport(c) \/ StartReAdd(c) \/ StartLeave(c)
    BY DEF Start
  <1>2. c \in CommandLines /\ NoCommand.name = "none"
    BY Zenon DEF LifecycleAssumption, NoCommand
  <1>3. c.args \in SUBSET Targets /\ c.archive \in [Targets -> Dest] /\ c # NoCommand
    BY <1>2 DEF CommandLines
  <1>4. dest \in [Targets -> Dest]
    BY DEF Typed, StoreTyped
  <1>5. CASE StartAdd(c)
    <2> DEFINE S == (Taken(c, root') \cup Missing(c)) \ world.ignored
    <2>1. S \in SUBSET Targets
      <3>1. Found(c) \subseteq Targets /\ Missing(c) \subseteq Targets
        BY <1>3, TreeFacts DEF Found, Missing
      <3>2. \A t, state : UpTo(t, state) \subseteq Targets
        BY DEF UpTo
      <3>3. Taken(c, root') \subseteq Targets
        BY <3>1, <3>2 DEF Taken
      <3> QED
        BY <3>1, <3>3
    <2>2. /\ infos' = [t \in S |-> dest[t]] /\ todo' = InOrder(S) /\ pc' = "plan" /\ dirs' = {}
          /\ Begin(c) /\ c.name = "add"
      BY <1>5, Zenon DEF StartAdd
    <2> HIDE DEF S
    <2>3. InOrder(S) \in Seq(Targets) /\ \A k \in DOMAIN InOrder(S) : InOrder(S)[k] \in S
      BY <2>1, InOrderTyped
    <2>4. DOMAIN infos' = S /\ infos' \in [DOMAIN infos' -> Dest]
      BY <1>4, <2>1, <2>2
    <2>5. Typed' /\ cmd' = c /\ ops' = <<>> /\ renames' = <<>>
      BY <2>1, <2>2, <2>3, <2>4, BeginTyped
    <2> QED
      BY <1>3, <2>2, <2>3, <2>4, <2>5 DEF Phases
  <1>6. CASE StartImport(c)
    <2> DEFINE S == {t \in Targets \ world.ignored : c.archive[t] # Nothing}
    <2>1. S \in SUBSET Targets
      OBVIOUS
    <2>2. /\ infos' = [t \in S |-> c.archive[t]] /\ todo' = InOrder(S) /\ pc' = "plan" /\ dirs' = {}
          /\ Begin(c) /\ c.name = "import"
      BY <1>6, Zenon DEF StartImport
    <2> HIDE DEF S
    <2>3. InOrder(S) \in Seq(Targets) /\ \A k \in DOMAIN InOrder(S) : InOrder(S)[k] \in S
      BY <2>1, InOrderTyped
    <2>4. DOMAIN infos' = S /\ infos' \in [DOMAIN infos' -> Dest]
      BY <1>3, <2>1, <2>2
    <2>5. Typed' /\ cmd' = c /\ ops' = <<>> /\ renames' = <<>>
      BY <2>1, <2>2, <2>3, <2>4, BeginTyped
    <2> QED
      BY <1>3, <2>2, <2>3, <2>4, <2>5 DEF Phases
  <1>7. Scope(c, root') \in SUBSET Targets /\ ExactAround(Scope(c, root'), root') \subseteq Targets
    BY <1>3, TreeFacts DEF Scope, ExactAround
  <1>8. infos' = <<>> => DOMAIN infos' = {} /\ infos' \in [DOMAIN infos' -> Dest]
    OBVIOUS
  <1>9. CASE StartReAdd(c)
    <2>1. /\ todo' = InOrder(Scope(c, root')) /\ dirs' = ExactAround(Scope(c, root'), root')
          /\ infos' = <<>> /\ pc' = "re-add" /\ Begin(c) /\ c.name = "re-add"
      BY <1>9, Zenon DEF StartReAdd
    <2>2. InOrder(Scope(c, root')) \in Seq(Targets)
      BY <1>7, InOrderTyped
    <2>3. Typed' /\ cmd' = c /\ ops' = <<>> /\ renames' = <<>>
      BY <1>7, <1>8, <2>1, <2>2, BeginTyped
    <2> QED
      BY <1>3, <2>1, <2>3 DEF Phases
  <1>10. CASE StartLeave(c)
    <2>1. /\ todo' = InOrder(Scope(c, root')) /\ dirs' = {}
          /\ infos' = <<>> /\ pc' = "ask" /\ Begin(c) /\ c.name \in {"forget", "destroy"}
      BY <1>10, Zenon DEF StartLeave
    <2>2. InOrder(Scope(c, root')) \in Seq(Targets)
      BY <1>7, InOrderTyped
    <2>3. Typed' /\ cmd' = c /\ ops' = <<>> /\ renames' = <<>> /\ ~said'.clash
      BY <1>7, <1>8, <2>1, <2>2, BeginTyped
    <2> QED
      BY <1>3, <2>1, <2>3 DEF Phases
  <1> QED
    BY <1>1, <1>5, <1>6, <1>9, <1>10

LEMMA StopTyped ==
    ASSUME Typed, Phases, NEW cut \in BOOLEAN, Stop(cut),
           UNCHANGED <<dest, src, keeps, db, world, cmd, root>>,
           left' \in [runs : 0..MaxRuns, stops : 0..MaxStops]
    PROVE  Typed' /\ Phases'
  <1>1. StoreTyped'
    BY DEF Typed, StoreTyped
  <1>2. CommandTyped' /\ said'.clash = said.clash
    BY DEF Typed, CommandTyped, Stop
  <1>3. PlanTyped'
    BY DEF Typed, PlanTyped, Stop
  <1> QED
    BY <1>1, <1>2, <1>3 DEF Typed, Phases, Stop

LEMMA MendTyped ==
    ASSUME Typed, Phases, Mend
    PROVE  Typed' /\ Phases'
  <1>1. src' \subseteq src
    BY DEF Mend, Without
  <1>2. StoreTyped'
    BY <1>1 DEF Typed, StoreTyped, Mend
  <1>3. CommandTyped'
    BY DEF Typed, CommandTyped, Mend, Nobody
  <1>4. PlanTyped'
    <2>1. IsFiniteSet(news')
      BY FS_EmptySet DEF Mend
    <2> QED
      BY <2>1 DEF Typed, PlanTyped, Mend
  <1> QED
    BY <1>2, <1>3, <1>4 DEF Typed, Phases, Mend, NoCommand, Nobody

LEMMA HeadTodo ==
    ASSUME Typed, todo # <<>>
    PROVE  /\ Head(todo) \in Targets /\ Tail(todo) \in Seq(Targets)
           /\ Head(todo) = todo[1] /\ 1 \in DOMAIN todo
           /\ \A k \in DOMAIN Tail(todo) : \E j \in DOMAIN todo : Tail(todo)[k] = todo[j]
  <1>1. todo \in Seq(Targets)
    BY DEF Typed, PlanTyped
  <1>2. /\ Head(todo) \in Targets /\ Tail(todo) \in Seq(Targets)
        /\ Len(Tail(todo)) = Len(todo) - 1
        /\ \A k \in 1..Len(Tail(todo)) : Tail(todo)[k] = todo[k + 1]
    BY <1>1, HeadTailProperties
  <1>3. DOMAIN Tail(todo) = 1..Len(Tail(todo)) /\ DOMAIN todo = 1..Len(todo) /\ Len(todo) \in Nat /\ Len(todo) # 0
    BY <1>1, <1>2, LenProperties, EmptySeq
  <1>4. Head(todo) = todo[1]
    BY <1>1
  <1> DEFINE n == Len(todo)
             m == Len(Tail(todo))
  <1>5. \A k \in 1..m : k + 1 \in 1..n
    <2>1. n \in Nat /\ m = n - 1
      BY <1>2, <1>3
    <2> HIDE DEF n, m
    <2> QED
      BY <2>1
  <1>6. 1 \in 1..n
    <2>1. n \in Nat /\ n # 0
      BY <1>3
    <2> HIDE DEF n
    <2> QED
      BY <2>1
  <1> QED
    BY <1>2, <1>3, <1>4, <1>5, <1>6

LEMMA SameCommand ==
    ASSUME CommandTyped, cmd # NoCommand, NEW p \in BOOLEAN, NEW f \in BOOLEAN,
           cmd' = [cmd EXCEPT !.prompt = p, !.force = f]
    PROVE  /\ cmd' \in CommandLines /\ cmd' # NoCommand
           /\ cmd'.name = cmd.name /\ cmd'.attrs = cmd.attrs /\ cmd'.exact = cmd.exact
           /\ cmd'.remove = cmd.remove /\ cmd'.prompt = p /\ cmd'.force = f
  <1>1. cmd \in CommandLines
    BY DEF CommandTyped
  <1>2. /\ cmd' \in CommandLines /\ cmd'.name = cmd.name /\ cmd'.attrs = cmd.attrs /\ cmd'.exact = cmd.exact
        /\ cmd'.remove = cmd.remove /\ cmd'.prompt = p /\ cmd'.force = f
    BY <1>1 DEF CommandLines
  <1>3. cmd'.name # "none" /\ NoCommand.name = "none"
    BY <1>2 DEF CommandLines, NoCommand
  <1> QED
    BY <1>2, <1>3

LEMMA SameCommandTyped ==
    ASSUME CommandTyped, cmd # NoCommand, cmd' \in CommandLines, cmd'.name = cmd.name, cmd'.remove = cmd.remove,
           root' = root, pc' \in {"idle", "plan", "re-add", "ask", "do"},
           agreed' \subseteq Targets, pestered' \subseteq all',
           said' \in [no : BOOLEAN, clash : BOOLEAN, cut : BOOLEAN]
    PROVE  CommandTyped'
  BY DEF CommandTyped

LEMMA CommandThere ==
    ASSUME Typed, Phases, pc # "idle"
    PROVE  cmd # NoCommand /\ cmd \in CommandLines /\ cmd.prompt \in BOOLEAN /\ cmd.force \in BOOLEAN
  <1>1. cmd # NoCommand
    BY DEF Typed, CommandTyped, Phases, NoCommand
  <1> QED
    BY <1>1 DEF Typed, CommandTyped, CommandLines

LEMMA SaidTyped ==
    ASSUME Typed
    PROVE  /\ [said EXCEPT !.cut = TRUE] \in [no : BOOLEAN, clash : BOOLEAN, cut : BOOLEAN]
           /\ [said EXCEPT !.no = TRUE] \in [no : BOOLEAN, clash : BOOLEAN, cut : BOOLEAN]
           /\ [said EXCEPT !.cut = TRUE].clash = said.clash /\ [said EXCEPT !.no = TRUE].clash = said.clash
           /\ \A b \in BOOLEAN : [said EXCEPT !.clash = @ \/ b] \in [no : BOOLEAN, clash : BOOLEAN, cut : BOOLEAN]
           /\ \A b \in BOOLEAN : [said EXCEPT !.clash = @ \/ b].clash <=> said.clash \/ b
           /\ \A b \in BOOLEAN : [said EXCEPT !.no = @ \/ b] \in [no : BOOLEAN, clash : BOOLEAN, cut : BOOLEAN]
           /\ \A b \in BOOLEAN : [said EXCEPT !.no = @ \/ b].clash = said.clash
  BY DEF Typed, CommandTyped

LEMMA AskedTyped ==
    ASSUME Typed, NEW answers, AskedAll(answers)
    PROVE  pestered' \subseteq all'
  BY DEF Typed, CommandTyped, AskedAll

\* What is planned for the target at hand.
LEMMA PlannedFacts ==
    ASSUME LifecycleAssumption, Typed, Phases, pc = "plan", todo # <<>>,
           NEW t, t = Head(todo), NEW e, e = New(t, infos[t], AddOptions)
    PROVE  /\ t \in Targets /\ t \in DOMAIN infos /\ infos[t] \in Dest
           /\ e \in Source /\ e.of = t /\ (e.kind = "dir" <=> infos[t].type = "dir")
  <1>1. t \in Targets /\ t \in DOMAIN infos
    BY HeadTodo DEF Phases
  <1>2. infos[t] \in Dest
    BY <1>1 DEF Typed, PlanTyped
  <1> QED
    BY <1>1, <1>2, NewFacts

LEMMA PlanSkipTyped ==
    ASSUME Typed, Phases, PlanSkip
    PROVE  Typed' /\ Phases'
  <1>1. StoreTyped'
    BY DEF Typed, StoreTyped, PlanSkip
  <1>2. CommandTyped'
    BY DEF Typed, CommandTyped, PlanSkip, Pass
  <1>3. PlanTyped'
    BY HeadTodo DEF Typed, PlanTyped, PlanSkip, Pass
  <1>4. Phases'
    BY HeadTodo DEF Phases, PlanSkip, Pass
  <1> QED
    BY <1>1, <1>2, <1>3, <1>4 DEF Typed

LEMMA PlanRefusedTyped ==
    ASSUME LifecycleAssumption, Typed, Phases, PlanRefused
    PROVE  Typed' /\ Phases'
  <1>1. cmd # NoCommand /\ cmd.prompt \in BOOLEAN /\ cmd.force \in BOOLEAN
    BY CommandThere DEF PlanRefused
  <1>2. PICK ad \in Answers \cup {"unasked"}, re \in {"no", "quit", "unasked"} :
          /\ AskedAll([add |-> ad, replace |-> re]) /\ cmd' = Heeding(ad, re)
          /\ \/ /\ pc' = "idle" /\ todo' = <<>> /\ ops' = <<>> /\ renames' = <<>>
                /\ said' = [said EXCEPT !.cut = TRUE] /\ agreed' = agreed /\ news' = news
             \/ Pass /\ said' = [said EXCEPT !.no = TRUE] /\ pc' = pc
    BY Zenon DEF PlanRefused
  <1>3. /\ cmd' \in CommandLines /\ cmd' # NoCommand /\ cmd'.name = cmd.name /\ cmd'.remove = cmd.remove
    BY <1>1, <1>2, SameCommand DEF Typed, Heeding
  <1>4. StoreTyped'
    BY DEF Typed, StoreTyped, PlanRefused
  <1>5. CommandTyped' /\ said'.clash = said.clash
    <2>1. said' \in [no : BOOLEAN, clash : BOOLEAN, cut : BOOLEAN] /\ said'.clash = said.clash
      BY <1>2, SaidTyped
    <2>2. agreed' \subseteq Targets /\ pc' \in {"idle", "plan"}
      BY <1>2 DEF Typed, CommandTyped, PlanRefused, Pass
    <2>3. pestered' \subseteq all'
      BY <1>2, AskedTyped
    <2>4. root' = root
      BY DEF PlanRefused
    <2> QED
      BY <1>1, <1>3, <2>1, <2>2, <2>3, <2>4, SameCommandTyped DEF Typed
  <1>6. PlanTyped'
    <2>1. PlanTyped /\ todo # <<>> /\ dirs' = dirs /\ infos' = infos
      BY DEF Typed, PlanRefused
    <2>2. news' = news /\ (ops' = ops \/ ops' = <<>>) /\ (renames' = renames \/ renames' = <<>>)
      BY <1>2 DEF Pass
    <2>3. todo' \in Seq(Targets)
      <3>1. todo' = <<>> \/ todo' = Tail(todo)
        BY <1>2 DEF Pass
      <3>2. Tail(todo) \in Seq(Targets) /\ <<>> \in Seq(Targets)
        BY <2>1, HeadTodo
      <3> QED
        BY <3>1, <3>2
    <2>4. <<>> \in Seq(Updates)
      OBVIOUS
    <2> QED
      BY <2>1, <2>2, <2>3, <2>4 DEF PlanTyped
  <1>7. Phases'
    BY <1>2, <1>3, <1>5, HeadTodo DEF Phases, PlanRefused, Pass
  <1> QED
    BY <1>4, <1>5, <1>6, <1>7 DEF Typed

LEMMA PlanTargetTyped ==
    ASSUME LifecycleAssumption, Typed, Phases, PlanTarget
    PROVE  Typed' /\ Phases'
  <1> DEFINE t == Head(todo)
             e == New(t, infos[t], AddOptions)
  <1>1. cmd # NoCommand /\ cmd.prompt \in BOOLEAN /\ cmd.force \in BOOLEAN
    BY CommandThere DEF PlanTarget
  <1>2. PICK ad \in {"yes", "all", "unasked"}, re \in {"yes", "all", "unasked"} :
          /\ AskedAll([add |-> ad, replace |-> re]) /\ cmd' = Heeding(ad, re)
          /\ agreed' = IF re # "unasked" THEN agreed \cup {t} ELSE agreed
          /\ IF Renames(t, e)
             THEN renames' = <<<<Rename(root[t], e)>>>> \o renames /\ UNCHANGED <<news, ops, said>>
             ELSE /\ \E won \in {"new", "old"} : ops' = Append(ops, Swap(t, infos[t], e, won))
                  /\ news' = news \cup {e}
                  /\ said' = [said EXCEPT !.clash = @ \/ Clashes(t, e)]
                  /\ UNCHANGED renames
    BY Zenon DEF PlanTarget
  <1>3. /\ t \in Targets /\ t \in DOMAIN infos /\ infos[t] \in Dest /\ e \in Source /\ e.of = t
    BY PlannedFacts DEF PlanTarget
  <1>4. /\ pc = "plan" /\ pc' = pc /\ todo # <<>> /\ todo' = Tail(todo) /\ root' = root /\ infos' = infos /\ dirs' = dirs
    BY DEF PlanTarget
  <1> HIDE DEF t, e
  <1>5. /\ cmd' \in CommandLines /\ cmd' # NoCommand /\ cmd'.name = cmd.name /\ cmd'.remove = cmd.remove
    BY <1>1, <1>2, SameCommand DEF Typed, Heeding
  <1>6. StoreTyped'
    BY DEF Typed, StoreTyped, PlanTarget
  <1>7. CommandTyped'
    <2>1. said' \in [no : BOOLEAN, clash : BOOLEAN, cut : BOOLEAN]
      <3>1. said \in [no : BOOLEAN, clash : BOOLEAN, cut : BOOLEAN] /\ Clashes(t, e) \in BOOLEAN
        BY DEF Typed, CommandTyped, Clashes
      <3> QED
        BY <1>2, <3>1, SaidTyped
    <2>2. agreed' \subseteq Targets
      BY <1>2, <1>3 DEF Typed, CommandTyped
    <2>3. pestered' \subseteq all'
      BY <1>2, AskedTyped
    <2> QED
      BY <1>1, <1>4, <1>5, <2>1, <2>2, <2>3, SameCommandTyped DEF Typed
  <1>8. PlanTyped'
    <2>1. todo' \in Seq(Targets)
      BY <1>4, HeadTodo
    <2>2. news' \subseteq Source /\ IsFiniteSet(news')
      <3>1. news' = news \/ news' = news \cup {e}
        BY <1>2
      <3>2. news \subseteq Source /\ IsFiniteSet(news)
        BY DEF Typed, PlanTyped
      <3>3. IsFiniteSet(news \cup {e})
        BY <3>2, FS_AddElement
      <3> QED
        BY <1>3, <3>1, <3>2, <3>3
    <2>3. ops \in Seq(Updates) /\ renames \in Seq(Updates)
      BY DEF Typed, PlanTyped
    <2>4. ops' \in Seq(Updates)
      <3>1. \A won : Swap(t, infos[t], e, won) \in Updates
        BY <1>3, SwapTyped DEF Typed
      <3>2. ops' = ops \/ \E won \in {"new", "old"} : ops' = Append(ops, Swap(t, infos[t], e, won))
        BY <1>2
      <3>3. \A won : Append(ops, Swap(t, infos[t], e, won)) \in Seq(Updates)
        BY <2>3, <3>1, AppendProperties
      <3> QED
        BY <2>3, <3>2, <3>3
    <2>5. renames' \in Seq(Updates)
      <3>1. <<Rename(root[t], e)>> \in Updates
        BY <1>3, OpsMade, UpdatesMade DEF Typed, CommandTyped
      <3>2. <<<<Rename(root[t], e)>>>> \in Seq(Updates)
        BY <3>1
      <3> QED
        BY <1>2, <2>3, <3>2, ConcatProperties
    <2> QED
      BY <1>4, <2>1, <2>2, <2>4, <2>5 DEF Typed, PlanTyped
  <1>9. Phases'
    BY <1>4, <1>5, HeadTodo DEF Phases
  <1> QED
    BY <1>6, <1>7, <1>8, <1>9 DEF Typed

\* .keep files.
LEMMA KeepsFacts ==
    ASSUME LifecycleAssumption, NEW S \in SUBSET Source, IsFiniteSet(S), NEW F
    PROVE  /\ Keeps(S, F) \in Seq(Updates)
           /\ \A k \in DOMAIN Keeps(S, F) : Len(Keeps(S, F)[k]) = 1 /\ Keeps(S, F)[k][1].do = "keep"
  <1> DEFINE some  == {e \in S : e.kind = "dir" /\ e.of \notin F}
             empty == SetToSeq(some)
             n     == Len(empty)
  <1>1. some \in SUBSET Source /\ IsFiniteSet(some)
    BY FS_Subset
  <1>2. empty \in Seq(some)
    BY <1>1, SetToSeqIsSeq
  <1>3. n \in Nat /\ DOMAIN empty = 1..n /\ \A k \in 1..n : empty[k] \in Source
    BY <1>1, <1>2, LenProperties, ElementOfSeq
  <1>4. Keeps(S, F) = [k \in DOMAIN empty |-> <<Keep(empty[k])>>]
    BY DEF Keeps
  <1> HIDE DEF n, empty, some
  <1>5. \A k \in 1..n : <<Keep(empty[k])>> \in Updates
    BY <1>3, EntryFacts, OpsMade, UpdatesMade
  <1>6. \A k \in 1..n : Keep(empty[k]).do = "keep"
    BY DEF Keep
  <1>7. Keeps(S, F) \in [1..n -> Updates]
    BY <1>3, <1>4, <1>5
  <1> QED
    BY <1>3, <1>4, <1>6, <1>7

LEMMA ClearedFacts ==
    ASSUME LifecycleAssumption, Typed
    PROVE  /\ Cleared \in Seq(Updates)
           /\ cmd.remove = {} => Cleared = <<>>
  <1> DEFINE those == {t \in UNION {Below(r) : r \in cmd.remove} : Known(t) /\ ~\E e \in news : e.of = t}
             gone  == InOrder(those)
             n     == Len(gone)
             Clear(t) == CASE Managed(root[t]) -> <<Drop(root[t]), Record(t, Nothing)>>
                           [] root[t].kind \in {"removal", "implicit"} -> <<Wipe, Record(t, Nothing)>>
                           [] OTHER -> <<Record(t, Nothing)>>
  <1>1. those \in SUBSET Targets
    BY TreeFacts
  <1>2. gone \in Seq(those)
    BY <1>1, InOrderIsSeq
  <1>3. n \in Nat /\ DOMAIN gone = 1..n /\ \A k \in 1..n : gone[k] \in those
    BY <1>2, LenProperties, ElementOfSeq
  <1>4. Cleared = [k \in DOMAIN gone |-> Clear(gone[k])]
    BY DEF Cleared
  <1>5. ASSUME NEW t \in those PROVE Clear(t) \in Updates
    <2>1. Drop(root[t]) \in Ops /\ Wipe \in Ops /\ Record(t, Nothing) \in Ops
      BY <1>1, OpsMade, DestFacts DEF Typed, CommandTyped
    <2>2. \/ Clear(t) = <<Drop(root[t]), Record(t, Nothing)>>
          \/ Clear(t) = <<Wipe, Record(t, Nothing)>> \/ Clear(t) = <<Record(t, Nothing)>>
      <3>1. Managed(root[t]) => root[t].kind \notin {"removal", "implicit"}
        BY DEF Managed, Marks
      <3> QED
        BY <3>1, Zenon
    <2> QED
      BY <2>1, <2>2, UpdatesMade
  <1> HIDE DEF n, gone, Clear
  <1>6. Cleared \in [1..n -> Updates]
    BY <1>3, <1>4, <1>5
  <1>7. cmd.remove = {} => n = 0
    <2>1. cmd.remove = {} => those = {}
      OBVIOUS
    <2>2. cmd.remove = {} /\ n # 0 => gone[1] \in those
      BY <1>3
    <2> QED
      BY <2>1, <2>2
  <1>8. Cleared \in Seq(Updates)
    BY <1>3, <1>6
  <1>9. cmd.remove = {} => Cleared = <<>>
    BY <1>3, <1>4, <1>7
  <1> QED
    BY <1>8, <1>9

LEMMA PlanEndsTyped ==
    ASSUME LifecycleAssumption, Typed, Phases, PlanEnds
    PROVE  Typed' /\ Phases'
  <1>1. StoreTyped'
    BY DEF Typed, StoreTyped, PlanEnds
  <1>2. CommandTyped'
    BY DEF Typed, CommandTyped, PlanEnds, told
  <1>3. ops' \in Seq(Updates)
    <2>1. ops \in Seq(Updates) /\ renames \in Seq(Updates)
      BY DEF Typed, PlanTyped
    <2>2. Keeps(news, full) \in Seq(Updates)
      BY KeepsFacts DEF Typed, PlanTyped
    <2>3. ops \o Keeps(news, full) \in Seq(Updates)
      BY <2>1, <2>2, ConcatProperties
    <2>4. ops \o Keeps(news, full) \o Cleared \in Seq(Updates)
      BY <2>3, ClearedFacts, ConcatProperties
    <2> QED
      BY <2>1, <2>4, ConcatProperties DEF PlanEnds
  <1>4. PlanTyped'
    BY <1>3 DEF Typed, PlanTyped, PlanEnds
  <1>5. Phases'
    <2>1. cmd # NoCommand
      BY CommandThere DEF PlanEnds
    <2> QED
      BY <2>1 DEF Phases, PlanEnds, told
  <1> QED
    BY <1>1, <1>2, <1>4, <1>5 DEF Typed

-----------------------------------------------------------------------------
(* re-add, forget and destroy.                                             *)

\* What an exact_ directory takes in.
Sought(t) == New(t, dest[t], [attrs |-> {}, exact |-> {}])

LEMMA SoughtFacts ==
    ASSUME LifecycleAssumption, Typed, NEW t \in Targets
    PROVE  /\ dest[t] \in Dest /\ Sought(t) \in Source /\ Sought(t).of = t
           /\ Sought(t).kind = "dir" <=> dest[t].type = "dir"
  <1>1. dest[t] \in Dest
    BY DEF Typed, StoreTyped
  <1> QED
    BY <1>1, NewFacts DEF Sought

LEMMA ConcatMembers ==
    ASSUME NEW S, NEW s1 \in Seq(S), NEW s2 \in Seq(S)
    PROVE  /\ s1 \o s2 \in Seq(S)
           /\ \A k \in DOMAIN (s1 \o s2) :
                \/ k \in DOMAIN s1 /\ (s1 \o s2)[k] = s1[k]
                \/ \E j \in DOMAIN s2 : (s1 \o s2)[k] = s2[j]
  <1> DEFINE m == Len(s1)
             n == Len(s2)
             s == s1 \o s2
  <1>1. s \in Seq(S) /\ Len(s) = m + n /\ \A i \in 1..m + n : s[i] = IF i <= m THEN s1[i] ELSE s2[i - m]
    BY ConcatProperties
  <1>2. m \in Nat /\ n \in Nat /\ DOMAIN s1 = 1..m /\ DOMAIN s2 = 1..n
    BY LenProperties
  <1>3. DOMAIN s = 1..m + n
    BY <1>1, LenProperties
  <1> HIDE DEF m, n, s
  <1>4. ASSUME NEW k \in 1..m + n
        PROVE  (k \in 1..m /\ s[k] = s1[k]) \/ \E j \in 1..n : s[k] = s2[j]
    <2>1. CASE k <= m
      BY <1>1, <1>2, <2>1
    <2>2. CASE ~(k <= m)
      <3>1. k - m \in 1..n /\ s[k] = s2[k - m]
        BY <1>1, <1>2, <2>2
      <3> QED
        BY <3>1
    <2> QED
      BY <2>1, <2>2
  <1> QED
    BY <1>1, <1>2, <1>3, <1>4 DEF s

\* The updates of an exact_ directory: what is new in it is added or renamed, and
\* what is gone from it removed.
DirUpdates(d, fresh, won) ==
    LET gone  == InOrder(Gone(d))
        moved == {t \in fresh : Renames(t, Sought(t))}
        added == InOrder(fresh \ moved)
        moves == InOrder(moved)
    IN [k \in DOMAIN added |-> Swap(added[k], dest[added[k]], Sought(added[k]), won)]
       \o Keeps({Sought(t) : t \in fresh \ moved}, {d})
       \o [k \in DOMAIN moves |-> <<Rename(root[moves[k]], Sought(moves[k]))>>]
       \o [k \in DOMAIN gone |-> <<Drop(root[gone[k]])>>]

DirUpdate(update, d, fresh, won) ==
    \/ \E t \in fresh : ~Renames(t, Sought(t)) /\ update = Swap(t, dest[t], Sought(t), won)
    \/ Len(update) = 1 /\ update[1].do = "keep"
    \/ \E t \in fresh : Renames(t, Sought(t)) /\ update = <<Rename(root[t], Sought(t))>>
    \/ \E t \in Gone(d) : update = <<Drop(root[t])>>

LEMMA ReAddDirFacts ==
    ASSUME LifecycleAssumption, Typed, Phases, NEW d \in dirs, NEW fresh \in SUBSET Fresh(d), NEW won
    PROVE  /\ DirUpdates(d, fresh, won) \in Seq(Updates)
           /\ \A k \in DOMAIN DirUpdates(d, fresh, won) : DirUpdate(DirUpdates(d, fresh, won)[k], d, fresh, won)
  <1> DEFINE moved == {t \in fresh : Renames(t, Sought(t))}
             gone  == InOrder(Gone(d))
             added == InOrder(fresh \ moved)
             moves == InOrder(moved)
             A == [k \in DOMAIN added |-> Swap(added[k], dest[added[k]], Sought(added[k]), won)]
             K == Keeps({Sought(t) : t \in fresh \ moved}, {d})
             M == [k \in DOMAIN moves |-> <<Rename(root[moves[k]], Sought(moves[k]))>>]
             G == [k \in DOMAIN gone |-> <<Drop(root[gone[k]])>>]
  <1>1. Fresh(d) \subseteq Targets /\ Gone(d) \subseteq Targets
    BY DEF Fresh, Gone, Children, InSource, Files
  <1>2. fresh \subseteq Targets /\ moved \subseteq Targets /\ fresh \ moved \subseteq Targets
    BY <1>1
  <1>3. \A S \in SUBSET Targets :
          /\ Len(InOrder(S)) \in Nat /\ DOMAIN InOrder(S) = 1..Len(InOrder(S))
          /\ \A k \in DOMAIN InOrder(S) : InOrder(S)[k] \in S
    BY InOrderTyped, LenProperties
  <1>4. \A t \in Targets : root[t] \in Entries
    BY DEF Typed, CommandTyped
  <1>5. A \in Seq(Updates) /\ \A k \in DOMAIN A : \E t \in fresh :
             ~Renames(t, Sought(t)) /\ A[k] = Swap(t, dest[t], Sought(t), won)
    <2> DEFINE n == Len(added)
    <2>1. n \in Nat /\ DOMAIN added = 1..n /\ \A k \in 1..n : added[k] \in fresh \ moved
      BY <1>2, <1>3
    <2>2. \A t \in fresh \ moved : Swap(t, dest[t], Sought(t), won) \in Updates /\ ~Renames(t, Sought(t)) /\ t \in fresh
      BY <1>2, SoughtFacts, SwapTyped DEF Typed
    <2> HIDE DEF n, added, moved
    <2>3. A \in [1..n -> Updates] /\ DOMAIN A = 1..n /\ \A k \in 1..n : A[k] = Swap(added[k], dest[added[k]], Sought(added[k]), won)
      BY <2>1, <2>2
    <2> HIDE DEF A
    <2>4. A \in Seq(Updates)
      BY <2>1, <2>3
    <2> QED
      BY <2>1, <2>2, <2>3, <2>4
  <1>6. K \in Seq(Updates) /\ \A k \in DOMAIN K : Len(K[k]) = 1 /\ K[k][1].do = "keep"
    <2> DEFINE entries == {Sought(t) : t \in fresh \ moved}
    <2>1. entries \in SUBSET Source
      BY <1>2, SoughtFacts
    <2>2. IsFiniteSet(entries)
      <3> DEFINE f == [t \in fresh \ moved |-> Sought(t)]
      <3>1. f \in Surjection(fresh \ moved, entries)
        BY DEF Surjection
      <3>2. IsFiniteSet(fresh \ moved)
        BY <1>2, TargetsFinite, FS_Subset
      <3> QED
        BY <3>1, <3>2, FS_Surjection
    <2> HIDE DEF entries
    <2>3. /\ Keeps(entries, {d}) \in Seq(Updates)
          /\ \A k \in DOMAIN Keeps(entries, {d}) : Len(Keeps(entries, {d})[k]) = 1 /\ Keeps(entries, {d})[k][1].do = "keep"
      BY <2>1, <2>2, KeepsFacts
    <2> QED
      BY <2>3 DEF entries
  <1>7. M \in Seq(Updates) /\ \A k \in DOMAIN M : \E t \in fresh :
             Renames(t, Sought(t)) /\ M[k] = <<Rename(root[t], Sought(t))>>
    <2> DEFINE n == Len(moves)
    <2>1. n \in Nat /\ DOMAIN moves = 1..n /\ \A k \in 1..n : moves[k] \in moved
      BY <1>2, <1>3
    <2>2. \A t \in moved : <<Rename(root[t], Sought(t))>> \in Updates /\ Renames(t, Sought(t)) /\ t \in fresh
      BY <1>2, <1>4, SoughtFacts, OpsMade, UpdatesMade
    <2> HIDE DEF n, moves, moved
    <2>3. M \in [1..n -> Updates] /\ DOMAIN M = 1..n /\ \A k \in 1..n : M[k] = <<Rename(root[moves[k]], Sought(moves[k]))>>
      BY <2>1, <2>2
    <2> HIDE DEF M
    <2>4. M \in Seq(Updates)
      BY <2>1, <2>3
    <2> QED
      BY <2>1, <2>2, <2>3, <2>4
  <1>8. G \in Seq(Updates) /\ \A k \in DOMAIN G : \E t \in Gone(d) : G[k] = <<Drop(root[t])>>
    <2> DEFINE n == Len(gone)
    <2>1. n \in Nat /\ DOMAIN gone = 1..n /\ \A k \in 1..n : gone[k] \in Gone(d)
      BY <1>1, <1>3
    <2>2. \A t \in Gone(d) : <<Drop(root[t])>> \in Updates
      BY <1>1, <1>4, OpsMade, UpdatesMade
    <2> HIDE DEF n, gone
    <2>3. G \in [1..n -> Updates] /\ DOMAIN G = 1..n /\ \A k \in 1..n : G[k] = <<Drop(root[gone[k]])>>
      BY <2>1, <2>2
    <2> HIDE DEF G
    <2>4. G \in Seq(Updates)
      BY <2>1, <2>3
    <2> QED
      BY <2>1, <2>2, <2>3, <2>4
  <1> DEFINE AK == A \o K
             AKM == AK \o M
             all4 == AKM \o G
  <1>9. DirUpdates(d, fresh, won) = all4
    BY Zenon DEF DirUpdates
  <1> HIDE DEF A, K, M, G
  <1>10. AK \in Seq(Updates) /\ \A k \in DOMAIN AK : (\E j \in DOMAIN A : AK[k] = A[j]) \/ \E j \in DOMAIN K : AK[k] = K[j]
    BY <1>5, <1>6, ConcatMembers
  <1> HIDE DEF AK
  <1>11. AKM \in Seq(Updates) /\ \A k \in DOMAIN AKM : (\E j \in DOMAIN AK : AKM[k] = AK[j]) \/ \E j \in DOMAIN M : AKM[k] = M[j]
    BY <1>7, <1>10, ConcatMembers
  <1> HIDE DEF AKM
  <1>12. all4 \in Seq(Updates) /\ \A k \in DOMAIN all4 : (\E j \in DOMAIN AKM : all4[k] = AKM[j]) \/ \E j \in DOMAIN G : all4[k] = G[j]
    BY <1>8, <1>11, ConcatMembers
  <1> HIDE DEF all4
  <1>13. /\ \A k \in DOMAIN A : DirUpdate(A[k], d, fresh, won)
         /\ \A k \in DOMAIN K : DirUpdate(K[k], d, fresh, won)
    <2>1. \A k \in DOMAIN A : DirUpdate(A[k], d, fresh, won)
      BY <1>5, Zenon DEF DirUpdate
    <2>2. \A k \in DOMAIN K : DirUpdate(K[k], d, fresh, won)
      BY <1>6, Zenon DEF DirUpdate
    <2> QED
      BY <2>1, <2>2
  <1>14. /\ \A k \in DOMAIN M : DirUpdate(M[k], d, fresh, won)
         /\ \A k \in DOMAIN G : DirUpdate(G[k], d, fresh, won)
    <2>1. \A k \in DOMAIN M : DirUpdate(M[k], d, fresh, won)
      BY <1>7, Zenon DEF DirUpdate
    <2>2. \A k \in DOMAIN G : DirUpdate(G[k], d, fresh, won)
      BY <1>8, Zenon DEF DirUpdate
    <2> QED
      BY <2>1, <2>2
  <1>15. \A k \in DOMAIN AK : DirUpdate(AK[k], d, fresh, won)
    BY <1>10, <1>13, Zenon
  <1>16. \A k \in DOMAIN AKM : DirUpdate(AKM[k], d, fresh, won)
    BY <1>11, <1>14, <1>15, Zenon
  <1>17. \A k \in DOMAIN all4 : DirUpdate(all4[k], d, fresh, won)
    BY <1>12, <1>14, <1>16, Zenon
  <1> QED
    BY <1>9, <1>12, <1>17

\* Either nothing is done, or what was found is added, renamed and removed.
LEMMA ReAddDirShape ==
    ASSUME ReAddDir
    PROVE  /\ pc = "re-add" /\ todo = <<>> /\ pc' = "do" /\ cmd' = cmd /\ renames' = renames
           /\ UNCHANGED <<dest, src, keeps, db, world, root, todo, news, full, all, pestered, left>>
           /\ \E d \in dirs :
                /\ dirs' = dirs \ {d}
                /\ \/ UNCHANGED <<ops, renames, infos, agreed, said>>
                   \/ \E fresh \in SUBSET Fresh(d), won \in {"new", "old"} :
                        /\ ops' = DirUpdates(d, fresh, won)
                        /\ infos' = [t \in DOMAIN infos \cup fresh |-> IF t \in fresh THEN dest[t] ELSE infos[t]]
                        /\ agreed' = agreed \cup Gone(d)
                        /\ said' = [said EXCEPT !.clash = @ \/ \E t \in fresh : Clashes(t, Sought(t))]
  <1>1. /\ pc = "re-add" /\ todo = <<>> /\ pc' = "do" /\ cmd' = cmd /\ renames' = renames
        /\ UNCHANGED <<dest, src, keeps, db, world, root, todo, news, full, all, pestered, left>>
    BY DEF ReAddDir
  <1>2. PICK d \in dirs :
         /\ dirs' = dirs \ {d}
         /\ IF dest[d].type # "dir"
            THEN UNCHANGED <<ops, renames, infos, agreed, said>>
            ELSE \E won \in {"new", "old"} :
                   LET fresh == IF Outside(d) \/ "external" \in root[d].attrs THEN {} ELSE Fresh(d)
                       gone  == InOrder(Gone(d))
                       Entry(t) == New(t, dest[t], [attrs |-> {}, exact |-> {}])
                       moved == {t \in fresh : Renames(t, Entry(t))}
                       added == InOrder(fresh \ moved)
                       moves == InOrder(moved)
                   IN /\ ops' = [k \in DOMAIN added |-> Swap(added[k], dest[added[k]], Entry(added[k]), won)]
                                \o Keeps({Entry(t) : t \in fresh \ moved}, {d})
                                \o [k \in DOMAIN moves |-> <<Rename(root[moves[k]], Entry(moves[k]))>>]
                                \o [k \in DOMAIN gone |-> <<Drop(root[gone[k]])>>]
                      /\ infos' = [t \in DOMAIN infos \cup fresh |-> IF t \in fresh THEN dest[t] ELSE infos[t]]
                      /\ agreed' = agreed \cup Gone(d)
                      /\ said' = [said EXCEPT !.clash = @ \/ \E t \in fresh : Clashes(t, Entry(t))]
                      /\ UNCHANGED renames
    BY Zenon DEF ReAddDir
  <1> DEFINE found == IF Outside(d) \/ "external" \in root[d].attrs THEN {} ELSE Fresh(d)
  <1>3. found \in SUBSET Fresh(d)
    OBVIOUS
  <1>4. CASE dest[d].type # "dir"
    BY <1>1, <1>2, <1>4, Zenon
  <1>5. CASE ~(dest[d].type # "dir")
    <2>1. PICK won \in {"new", "old"} :
            /\ ops' = DirUpdates(d, found, won)
            /\ infos' = [t \in DOMAIN infos \cup found |-> IF t \in found THEN dest[t] ELSE infos[t]]
            /\ agreed' = agreed \cup Gone(d)
            /\ said' = [said EXCEPT !.clash = @ \/ \E t \in found : Clashes(t, Sought(t))]
      BY <1>2, <1>5, Zenon DEF Sought, DirUpdates
    <2> HIDE DEF found
    <2>2. dirs' = dirs \ {d}
      BY <1>2
    <2>3. \E fresh \in SUBSET Fresh(d), w \in {"new", "old"} :
            /\ ops' = DirUpdates(d, fresh, w)
            /\ infos' = [t \in DOMAIN infos \cup fresh |-> IF t \in fresh THEN dest[t] ELSE infos[t]]
            /\ agreed' = agreed \cup Gone(d)
            /\ said' = [said EXCEPT !.clash = @ \/ \E t \in fresh : Clashes(t, Sought(t))]
      BY <1>3, <2>1, Zenon
    <2> QED
      BY <1>1, <2>2, <2>3, Zenon
  <1> QED
    BY <1>4, <1>5

LEMMA ReAddSameTyped ==
    ASSUME Typed, Phases, ReAddSame
    PROVE  Typed' /\ Phases'
  <1>1. StoreTyped'
    BY DEF Typed, StoreTyped, ReAddSame
  <1>2. CommandTyped'
    BY DEF Typed, CommandTyped, ReAddSame, Pass
  <1>3. PlanTyped'
    BY HeadTodo DEF Typed, PlanTyped, ReAddSame, Pass
  <1>4. Phases'
    BY DEF Phases, ReAddSame, Pass
  <1> QED
    BY <1>1, <1>2, <1>3, <1>4 DEF Typed

LEMMA ReAddRefusedTyped ==
    ASSUME Typed, Phases, ReAddRefused
    PROVE  Typed' /\ Phases'
  <1>1. PICK answer \in {"no", "quit"} :
          /\ Asked("re-add", answer)
          /\ \/ /\ pc' = "idle" /\ todo' = <<>> /\ dirs' = {} /\ ops' = <<>> /\ renames' = <<>>
                /\ said' = [said EXCEPT !.cut = TRUE] /\ agreed' = agreed /\ news' = news
             \/ Pass /\ said' = [said EXCEPT !.no = TRUE] /\ pc' = pc /\ dirs' = dirs
    BY Zenon DEF ReAddRefused
  <1>2. pc = "re-add" /\ todo # <<>> /\ UNCHANGED <<dest, src, keeps, db, world, cmd, root, infos, full, left>>
    BY DEF ReAddRefused
  <1>3. /\ said' \in [no : BOOLEAN, clash : BOOLEAN, cut : BOOLEAN] /\ said'.clash = said.clash
    BY <1>1, SaidTyped
  <1>4. agreed' = agreed /\ news' = news
    BY <1>1 DEF Pass
  <1>5. todo' \in Seq(Targets) /\ ops' \in Seq(Updates) /\ renames' \in Seq(Updates)
    <2>1. Tail(todo) \in Seq(Targets) /\ <<>> \in Seq(Targets) /\ <<>> \in Seq(Updates)
      BY <1>2, HeadTodo
    <2>2. ops \in Seq(Updates) /\ renames \in Seq(Updates)
      BY DEF Typed, PlanTyped
    <2> QED
      BY <1>1, <2>1, <2>2 DEF Pass
  <1>6. StoreTyped'
    BY <1>2 DEF Typed, StoreTyped
  <1>7. CommandTyped'
    <2>1. pestered' \subseteq all'
      BY <1>1, AskedTyped DEF Asked
    <2>2. pc' \in {"idle", "re-add"}
      BY <1>1, <1>2
    <2> QED
      BY <1>2, <1>3, <1>4, <2>1, <2>2 DEF Typed, CommandTyped
  <1>8. PlanTyped'
    <2>1. dirs' \subseteq Targets
      BY <1>1 DEF Typed, PlanTyped
    <2> QED
      BY <1>2, <1>4, <1>5, <2>1 DEF Typed, PlanTyped
  <1>9. Phases'
    BY <1>1, <1>2, <1>3 DEF Phases, Pass
  <1> QED
    BY <1>6, <1>7, <1>8, <1>9 DEF Typed

\* One file taken in again.
FileStep(t, i, e) ==
    /\ i = dest[t] /\ e.of = t /\ e.kind = "file"
    /\ root[t].kind \in {"file", "external"} /\ i.type = "file"
    /\ ops' = <<Swap(t, i, e, "new")>>
    /\ infos' = [u \in DOMAIN infos \cup {t} |-> dest[u]]

LEMMA ReAddFileShape ==
    ASSUME LifecycleAssumption, Typed, Phases, ReAddFile
    PROVE  /\ \E t \in Targets, i \in Dest, e \in Source : FileStep(t, i, e)
           /\ pc = "re-add" /\ pc' = "do" /\ todo # <<>> /\ todo' = Tail(todo)
           /\ cmd' = cmd \/ cmd' = [cmd EXCEPT !.prompt = FALSE]
           /\ pestered' \subseteq all'
           /\ UNCHANGED <<dest, src, keeps, db, world, root, dirs, news, full, renames, agreed, said, left>>
  <1>t. PICK t : t = Head(todo)
    OBVIOUS
  <1>i. PICK i : i = dest[t]
    OBVIOUS
  <1>o. PICK o : o = [attrs |-> root[t].attrs \cap {"encrypted"}, exact |-> {}]
    OBVIOUS
  <1>e. PICK e : e = New(t, i, o)
    OBVIOUS
  <1>1. /\ pc = "re-add" /\ pc' = "do" /\ todo # <<>> /\ todo' = Tail(todo) /\ Modified(t)
        /\ ops' = <<Swap(t, i, e, "new")>>
        /\ infos' = [u \in DOMAIN infos \cup {t} |-> dest[u]]
        /\ UNCHANGED <<dest, src, keeps, db, world, root, dirs, news, full, renames, agreed, said, left>>
    BY <1>t, <1>i, <1>o, <1>e, Zenon DEF ReAddFile
  <1>2. \E answer \in {"yes", "all", "unasked"} :
          /\ Asked("re-add", answer)
          /\ cmd' = IF answer = "all" THEN [cmd EXCEPT !.prompt = FALSE] ELSE cmd
    BY Zenon DEF ReAddFile
  <1>3. (cmd' = cmd \/ cmd' = [cmd EXCEPT !.prompt = FALSE]) /\ pestered' \subseteq all'
    BY <1>2, AskedTyped DEF Asked
  <1>4. t \in Targets
    BY <1>1, <1>t, HeadTodo
  <1>5. i \in Dest
    BY <1>4, <1>i DEF Typed, StoreTyped
  <1>6. root[t].kind \in {"file", "external"} /\ i.type = "file"
    BY <1>1, <1>i DEF Modified
  <1>7. e \in Source /\ e.of = t /\ e.kind \in {"dir", "create", "file", "symlink"} /\ e.kind # "dir" /\ e.kind # "symlink"
    BY <1>4, <1>5, <1>6, <1>e, NewFacts
  <1>8. e.kind # "create"
    <2>1. "create" \notin o.attrs
      BY <1>o
    <2> QED
      BY <1>4, <1>5, <1>e, <2>1, NewFacts
  <1>9. FileStep(t, i, e)
    BY <1>1, <1>6, <1>7, <1>8, <1>i DEF FileStep
  <1> QED
    BY <1>1, <1>3, <1>4, <1>5, <1>7, <1>9

LEMMA ReAddFileTyped ==
    ASSUME LifecycleAssumption, Typed, Phases, ReAddFile
    PROVE  Typed' /\ Phases'
  <1>0. PICK t \in Targets, i \in Dest, e \in Source : FileStep(t, i, e)
    BY ReAddFileShape
  <1>1. /\ pc = "re-add" /\ pc' = "do" /\ todo # <<>> /\ todo' = Tail(todo)
        /\ ops' = <<Swap(t, i, e, "new")>>
        /\ infos' = [u \in DOMAIN infos \cup {t} |-> dest[u]]
        /\ cmd' = cmd \/ cmd' = [cmd EXCEPT !.prompt = FALSE]
        /\ pestered' \subseteq all'
        /\ UNCHANGED <<dest, src, keeps, db, world, root, dirs, news, full, renames, agreed, said, left>>
    BY <1>0, ReAddFileShape DEF FileStep
  <1>2. cmd # NoCommand /\ cmd \in CommandLines /\ cmd.name = "re-add"
    BY <1>1, CommandThere DEF Phases
  <1>3. cmd' \in CommandLines /\ cmd' # NoCommand /\ cmd'.name = cmd.name /\ cmd'.remove = cmd.remove
    <2>1. CASE cmd' = cmd
      BY <1>2, <2>1
    <2>2. CASE cmd' = [cmd EXCEPT !.prompt = FALSE]
      <3>1. cmd' \in CommandLines /\ cmd'.name = cmd.name /\ cmd'.remove = cmd.remove
        BY <1>2, <2>2 DEF CommandLines
      <3> QED
        BY <1>2, <3>1 DEF NoCommand
    <2> QED
      BY <1>1, <2>1, <2>2
  <1>4. StoreTyped'
    BY <1>1 DEF Typed, StoreTyped
  <1>5. CommandTyped'
    <2>1. /\ root' = root /\ pc' \in {"do"} /\ agreed' \subseteq Targets
          /\ said' \in [no : BOOLEAN, clash : BOOLEAN, cut : BOOLEAN]
      BY <1>1 DEF Typed, CommandTyped
    <2> QED
      BY <1>1, <1>2, <1>3, <2>1, SameCommandTyped DEF Typed
  <1>6. PlanTyped'
    <2>1. Swap(t, i, e, "new") \in Updates
      BY <1>1, SwapTyped DEF Typed
    <2>2. ops' \in Seq(Updates)
      BY <1>1, <2>1
    <2>3. todo' \in Seq(Targets)
      BY <1>1, HeadTodo
    <2>4. DOMAIN infos' \subseteq Targets /\ infos' \in [DOMAIN infos' -> Dest]
      BY <1>1 DEF Typed, PlanTyped, StoreTyped
    <2> QED
      BY <1>1, <2>2, <2>3, <2>4 DEF Typed, PlanTyped
  <1>7. Phases'
    BY <1>1, <1>2, <1>3 DEF Phases
  <1> QED
    BY <1>4, <1>5, <1>6, <1>7 DEF Typed

LEMMA ReAddDirTyped ==
    ASSUME LifecycleAssumption, Typed, Phases, ReAddDir
    PROVE  Typed' /\ Phases'
  <1>1. /\ pc = "re-add" /\ todo = <<>> /\ pc' = "do" /\ cmd' = cmd /\ renames' = renames
        /\ UNCHANGED <<dest, src, keeps, db, world, root, todo, news, full, all, pestered, left>>
    BY ReAddDirShape
  <1>2. PICK d \in dirs :
          /\ dirs' = dirs \ {d}
          /\ \/ UNCHANGED <<ops, renames, infos, agreed, said>>
             \/ \E fresh \in SUBSET Fresh(d), won \in {"new", "old"} :
                  /\ ops' = DirUpdates(d, fresh, won)
                  /\ infos' = [t \in DOMAIN infos \cup fresh |-> IF t \in fresh THEN dest[t] ELSE infos[t]]
                  /\ agreed' = agreed \cup Gone(d)
                  /\ said' = [said EXCEPT !.clash = @ \/ \E t \in fresh : Clashes(t, Sought(t))]
    BY ReAddDirShape
  <1>3. cmd # NoCommand /\ cmd \in CommandLines /\ cmd.name = "re-add" /\ renames = <<>>
    BY <1>1, CommandThere DEF Phases
  <1>4. /\ ops' \in Seq(Updates) /\ DOMAIN infos' \subseteq Targets /\ infos' \in [DOMAIN infos' -> Dest]
        /\ agreed' \subseteq Targets /\ said' \in [no : BOOLEAN, clash : BOOLEAN, cut : BOOLEAN]
    <2>1. CASE UNCHANGED <<ops, renames, infos, agreed, said>>
      BY <2>1 DEF Typed, PlanTyped, CommandTyped
    <2>2. ASSUME NEW fresh \in SUBSET Fresh(d), NEW won \in {"new", "old"},
                 ops' = DirUpdates(d, fresh, won),
                 infos' = [t \in DOMAIN infos \cup fresh |-> IF t \in fresh THEN dest[t] ELSE infos[t]],
                 agreed' = agreed \cup Gone(d),
                 said' = [said EXCEPT !.clash = @ \/ \E t \in fresh : Clashes(t, Sought(t))]
          PROVE  /\ ops' \in Seq(Updates) /\ DOMAIN infos' \subseteq Targets /\ infos' \in [DOMAIN infos' -> Dest]
                 /\ agreed' \subseteq Targets /\ said' \in [no : BOOLEAN, clash : BOOLEAN, cut : BOOLEAN]
      <3>1. ops' \in Seq(Updates)
        BY <2>2, ReAddDirFacts
      <3>2. Fresh(d) \subseteq Targets /\ Gone(d) \subseteq Targets
        BY DEF Fresh, Gone, Children, InSource, Files
      <3>3. DOMAIN infos' \subseteq Targets /\ infos' \in [DOMAIN infos' -> Dest]
        BY <2>2, <3>2 DEF Typed, PlanTyped, StoreTyped
      <3>4. agreed' \subseteq Targets
        BY <2>2, <3>2 DEF Typed, CommandTyped
      <3>5. said' \in [no : BOOLEAN, clash : BOOLEAN, cut : BOOLEAN]
        <4>1. (\E t \in fresh : Clashes(t, Sought(t))) \in BOOLEAN
          OBVIOUS
        <4> QED
          BY <2>2, <4>1, SaidTyped
      <3> QED
        BY <3>1, <3>3, <3>4, <3>5
    <2> QED
      BY <1>2, <2>1, <2>2
  <1>5. StoreTyped'
    BY <1>1 DEF Typed, StoreTyped
  <1>6. CommandTyped'
    BY <1>1, <1>4 DEF Typed, CommandTyped
  <1>7. PlanTyped'
    BY <1>1, <1>2, <1>4 DEF Typed, PlanTyped
  <1>8. Phases'
    BY <1>1, <1>3 DEF Phases
  <1> QED
    BY <1>5, <1>6, <1>7, <1>8 DEF Typed

\* What forget and destroy do to a target.
LEMMA LeavingShapes ==
    ASSUME NEW t, cmd.name \in {"forget", "destroy"}
    PROVE  \/ cmd.name = "forget" /\ Leaving(t) = <<Drop(root[t]), Delete(t)>>
           \/ /\ cmd.name = "destroy" /\ Managed(root[t])
              /\ Leaving(t) = <<Destroy(t), Drop(root[t]), Delete(t)>>
           \/ /\ cmd.name = "destroy" /\ ~Managed(root[t])
              /\ Leaving(t) = <<Destroy(t), Delete(t)>>
  BY Zenon DEF Leaving

LEMMA LeaveShape ==
    ASSUME Typed, Phases, Leave
    PROVE  /\ pc = "ask" /\ cmd.name \in {"forget", "destroy"} /\ todo # <<>> /\ Head(todo) \in Targets
           /\ UNCHANGED <<dest, src, keeps, db, world, root, dirs, infos, full, left, news, renames>>
           /\ todo' \in {<<>>, Tail(todo)}
           /\ cmd' \in CommandLines /\ cmd' # NoCommand /\ cmd'.name = cmd.name /\ cmd'.remove = cmd.remove
           /\ said'.clash = said.clash /\ said' \in [no : BOOLEAN, clash : BOOLEAN, cut : BOOLEAN]
           /\ pestered' \subseteq all'
           /\ \/ ops' = ops /\ agreed' = agreed /\ pc' = pc
              \/ /\ Leaves(Head(todo))
                 /\ ops' = <<Leaving(Head(todo))>> /\ agreed' = agreed \cup {Head(todo)} /\ pc' = "do"
  <1> DEFINE t == Head(todo)
  <1>1. /\ pc = "ask" /\ todo # <<>> /\ UNCHANGED <<dest, src, keeps, db, world, root, dirs, infos, full, left>>
    BY DEF Leave
  <1>2. cmd.name \in {"forget", "destroy"} /\ t \in Targets
    BY <1>1, HeadTodo DEF Phases
  <1>3. cmd # NoCommand /\ cmd \in CommandLines /\ cmd.force \in BOOLEAN
    BY <1>1, CommandThere
  <1>4. CASE ~Leaves(t)
    <2>1. Pass /\ UNCHANGED <<pc, all, pestered, cmd, said>>
      BY <1>4, Zenon DEF Leave
    <2> QED
      BY <1>1, <1>2, <1>3, <2>1 DEF Pass, Typed, CommandTyped
  <1>5. CASE Leaves(t)
    <2>1. PICK answer \in Answers \cup {"unasked"} :
                 /\ Asked(cmd.name, answer)
                 /\ cmd' = [cmd EXCEPT !.force = Silenced(answer)]
                 /\ todo' = IF answer = "quit" THEN <<>> ELSE Tail(todo)
                 /\ IF answer \in {"no", "quit"} THEN UNCHANGED <<ops, pc, agreed>>
                    ELSE ops' = <<Leaving(t)>> /\ pc' = "do" /\ agreed' = agreed \cup {t}
                 /\ said' = [said EXCEPT !.no = @ \/ answer \in {"no", "quit"}]
                 /\ UNCHANGED <<news, renames>>
      BY <1>5, Zenon DEF Leave
    <2>2. Silenced(answer) \in BOOLEAN
      BY <1>3 DEF Silenced
    <2>3. cmd' \in CommandLines /\ cmd'.name = cmd.name /\ cmd'.remove = cmd.remove /\ cmd' # NoCommand
      <3>1. cmd' \in CommandLines /\ cmd'.name = cmd.name /\ cmd'.remove = cmd.remove
        BY <1>3, <2>1, <2>2 DEF CommandLines
      <3> QED
        BY <1>2, <3>1 DEF NoCommand
    <2>4. said'.clash = said.clash /\ said' \in [no : BOOLEAN, clash : BOOLEAN, cut : BOOLEAN]
      <3>1. (answer \in {"no", "quit"}) \in BOOLEAN
        OBVIOUS
      <3> QED
        BY <2>1, <3>1, SaidTyped
    <2>5. pestered' \subseteq all'
      BY <2>1, AskedTyped DEF Asked
    <2> QED
      BY <1>1, <1>2, <1>5, <2>1, <2>3, <2>4, <2>5
  <1> QED
    BY <1>4, <1>5

LEMMA LeaveTyped ==
    ASSUME LifecycleAssumption, Typed, Phases, Leave
    PROVE  Typed' /\ Phases'
  <1>1. /\ pc = "ask" /\ cmd.name \in {"forget", "destroy"} /\ todo # <<>> /\ Head(todo) \in Targets
        /\ UNCHANGED <<dest, src, keeps, db, world, root, dirs, infos, full, left, news, renames>>
        /\ todo' \in {<<>>, Tail(todo)}
        /\ cmd' \in CommandLines /\ cmd' # NoCommand /\ cmd'.name = cmd.name /\ cmd'.remove = cmd.remove
        /\ said'.clash = said.clash /\ said' \in [no : BOOLEAN, clash : BOOLEAN, cut : BOOLEAN]
        /\ pestered' \subseteq all'
        /\ \/ ops' = ops /\ agreed' = agreed /\ pc' = pc
           \/ /\ Leaves(Head(todo))
              /\ ops' = <<Leaving(Head(todo))>> /\ agreed' = agreed \cup {Head(todo)} /\ pc' = "do"
    BY LeaveShape
  <1>2. ops' \in Seq(Updates)
    <2>1. \A t \in Targets : Leaving(t) \in Updates
      <3> SUFFICES ASSUME NEW t \in Targets PROVE Leaving(t) \in Updates
        OBVIOUS
      <3>1. Drop(root[t]) \in Ops /\ Delete(t) \in Ops /\ Destroy(t) \in Ops
        BY OpsMade DEF Typed, CommandTyped
      <3>2. \/ Leaving(t) = <<Drop(root[t]), Delete(t)>>
            \/ Leaving(t) = <<Destroy(t), Drop(root[t]), Delete(t)>>
            \/ Leaving(t) = <<Destroy(t), Delete(t)>>
        BY <1>1, LeavingShapes
      <3> QED
        BY <3>1, <3>2, UpdatesMade
    <2>2. <<Leaving(Head(todo))>> \in Seq(Updates)
      BY <1>1, <2>1
    <2> QED
      BY <1>1, <2>2 DEF Typed, PlanTyped
  <1>3. StoreTyped'
    BY <1>1 DEF Typed, StoreTyped
  <1>4. CommandTyped'
    <2>1. pc' \in {"ask", "do"} /\ agreed' \subseteq Targets
      BY <1>1 DEF Typed, CommandTyped
    <2>2. cmd # NoCommand
      BY <1>1, CommandThere
    <2> QED
      BY <1>1, <2>1, <2>2, SameCommandTyped DEF Typed
  <1>5. PlanTyped'
    <2>1. todo' \in Seq(Targets)
      <3>1. Tail(todo) \in Seq(Targets) /\ <<>> \in Seq(Targets)
        BY <1>1, HeadTodo
      <3> QED
        BY <1>1, <3>1
    <2> QED
      BY <1>1, <1>2, <2>1 DEF Typed, PlanTyped
  <1>6. Phases'
    BY <1>1 DEF Phases
  <1> QED
    BY <1>3, <1>4, <1>5, <1>6 DEF Typed

LEMMA DoneTyped ==
    ASSUME Typed, Phases, Done
    PROVE  Typed' /\ Phases'
  <1>1. pc = "do" /\ ops = <<>> /\ UNCHANGED <<dest, src, keeps, db, world, cmd, root, left>>
    BY DEF Done
  <1>2. left' \in [runs : 0..MaxRuns, stops : 0..MaxStops]
    BY <1>1 DEF Typed, StoreTyped
  <1>3. CASE cmd.name \in {"add", "import"}
    <2>1. Stop(FALSE)
      BY <1>3 DEF Done
    <2> QED
      BY <1>1, <1>2, <2>1, StopTyped
  <1>4. CASE cmd.name \notin {"add", "import"}
    <2>1. /\ pc' = IF cmd.name = "re-add" THEN "re-add" ELSE "ask"
          /\ UNCHANGED <<todo, dirs, ops, renames, infos, news, full, told, said>>
      BY <1>4 DEF Done
    <2>2. cmd.name \in {"re-add", "forget", "destroy"} /\ renames = <<>>
      BY <1>1, <1>4, CommandThere DEF Phases, CommandLines
    <2>3. StoreTyped'
      BY <1>1 DEF Typed, StoreTyped
    <2>4. CommandTyped'
      BY <1>1, <2>1 DEF Typed, CommandTyped, told
    <2>5. PlanTyped'
      BY <2>1 DEF Typed, PlanTyped
    <2>6. Phases'
      BY <1>1, <2>1, <2>2 DEF Phases
    <2> QED
      BY <2>3, <2>4, <2>5, <2>6 DEF Typed
  <1> QED
    BY <1>3, <1>4

\* The first operation, and what is left of the operations after it.
LEMMA HeadOps ==
    ASSUME Typed, ops # <<>>
    PROVE  /\ ops[1] \in Updates /\ ops[1][1] \in Ops /\ 1 \in DOMAIN ops /\ 1 \in DOMAIN ops[1]
           /\ Len(ops[1]) = 1 =>
                /\ Tail(ops) \in Seq(Updates)
                /\ \A k \in DOMAIN Tail(ops) : k + 1 \in DOMAIN ops /\ k + 1 # 1 /\ Tail(ops)[k] = ops[k + 1]
           /\ Len(ops[1]) # 1 =>
                /\ [ops EXCEPT ![1] = Tail(@)] \in Seq(Updates)
                /\ DOMAIN [ops EXCEPT ![1] = Tail(@)] = DOMAIN ops
                /\ \A k \in DOMAIN ops : k # 1 => [ops EXCEPT ![1] = Tail(@)][k] = ops[k]
                /\ [ops EXCEPT ![1] = Tail(@)][1] = Tail(ops[1])
                /\ \E m \in Nat : DOMAIN Tail(ops[1]) = 1..m
                /\ \A j \in DOMAIN Tail(ops[1]) :
                     /\ j \in Nat \ {0} /\ j + 1 \in DOMAIN ops[1] /\ Tail(ops[1])[j] = ops[1][j + 1]
  <1> DEFINE u == ops[1]
             n == Len(ops)
             m == Len(u)
  <1>1. ops \in Seq(Updates) /\ n \in Nat /\ n # 0 /\ DOMAIN ops = 1..n
    BY LenProperties, EmptySeq DEF Typed, PlanTyped
  <1>2. 1 \in 1..n
    <2> HIDE DEF n
    <2> QED
      BY <1>1
  <1>3. u \in Updates
    BY <1>1, <1>2, ElementOfSeq
  <1>4. u \in Seq(Ops) /\ u # <<>>
    BY <1>3 DEF Updates
  <1>5. m \in Nat /\ m # 0 /\ DOMAIN u = 1..m
    BY <1>4, LenProperties, EmptySeq
  <1>6. 1 \in 1..m
    <2> HIDE DEF m
    <2> QED
      BY <1>5
  <1>7. u[1] \in Ops
    BY <1>4, <1>5, <1>6, ElementOfSeq
  <1>8. /\ Tail(ops) \in Seq(Updates) /\ Len(Tail(ops)) = n - 1
        /\ \A k \in 1..Len(Tail(ops)) : Tail(ops)[k] = ops[k + 1]
    BY <1>1, HeadTailProperties
  <1>9. DOMAIN Tail(ops) = 1..(n - 1)
    BY <1>8, LenProperties
  <1>10. \A k \in DOMAIN Tail(ops) : k + 1 \in 1..n /\ k + 1 # 1 /\ Tail(ops)[k] = ops[k + 1]
    <2>1. \A k \in 1..(n - 1) : k + 1 \in 1..n /\ k + 1 # 1
      <3> HIDE DEF n
      <3> QED
        BY <1>1
    <2> QED
      BY <1>8, <1>9, <2>1
  <1>11. /\ Tail(u) \in Seq(Ops) /\ Len(Tail(u)) = m - 1
         /\ \A k \in 1..Len(Tail(u)) : Tail(u)[k] = u[k + 1]
    BY <1>4, HeadTailProperties
  <1>12. DOMAIN Tail(u) = 1..(m - 1)
    BY <1>11, LenProperties
  <1>13. \A j \in DOMAIN Tail(u) : j \in Nat \ {0} /\ j + 1 \in 1..m /\ Tail(u)[j] = u[j + 1]
    <2>1. \A j \in 1..(m - 1) : j \in Nat \ {0} /\ j + 1 \in 1..m
      <3> HIDE DEF m
      <3> QED
        BY <1>5
    <2> QED
      BY <1>11, <1>12, <2>1
  <1>d. \E k \in Nat : DOMAIN Tail(u) = 1..k
    <2>1. m - 1 \in Nat
      <3> HIDE DEF m
      <3> QED
        BY <1>5
    <2> QED
      BY <1>12, <2>1
  <1>14. m # 1 => Tail(u) \in Updates
    <2>1. m # 1 => m - 1 # 0
      <3> HIDE DEF m
      <3> QED
        BY <1>5
    <2>2. m # 1 => Tail(u) # <<>>
      BY <1>11, <2>1, EmptySeq
    <2> QED
      BY <1>11, <2>2 DEF Updates
  <1> DEFINE s == [ops EXCEPT ![1] = Tail(@)]
  <1>15. DOMAIN s = 1..n /\ s[1] = Tail(u) /\ \A k \in 1..n : k # 1 => s[k] = ops[k]
    BY <1>1, <1>2
  <1>16. m # 1 => s \in Seq(Updates)
    <2>1. ops \in [1..n -> Updates]
      BY <1>1
    <2> HIDE DEF n, u
    <2>2. m # 1 => s \in [1..n -> Updates]
      BY <1>2, <1>14, <2>1 DEF u
    <2> HIDE DEF s
    <2> QED
      BY <1>1, <2>2
  <1> HIDE DEF s, n
  <1> QED
    BY <1>1, <1>2, <1>3, <1>5, <1>6, <1>7, <1>8, <1>10, <1>13, <1>15, <1>16, <1>d DEF s, n

LEMMA OpsFacts ==
    ASSUME NEW op \in Ops
    PROVE  /\ op.do \in {"write", "record", "rename", "remove", "keep", "destroy", "delete", "wipe"}
           /\ op.do = "write" => op.e \in Source
           /\ op.do = "rename" => op.to \in Source
           /\ op.do = "record" => op.to \in Dest
           /\ op.e \in Entries
  <1>1. Source \subseteq Entries
    BY EntryFacts
  <1>2. CASE op \in [do : {"write"}, e : Source, to : Source]
    BY <1>1, <1>2
  <1>3. CASE op \in [do : {"record"}, e : Entries, to : Dest]
    BY <1>3
  <1>4. CASE op \in [do : {"rename"}, e : Entries, to : Source]
    BY <1>4
  <1>5. CASE op \in [do : {"remove", "keep", "destroy", "delete", "wipe"}, e : Entries, to : Entries \cup Dest]
    BY <1>5
  <1> QED
    BY <1>2, <1>3, <1>4, <1>5 DEF Ops

\* What an operation does to the source directory.
LEMMA AfterFacts ==
    ASSUME NEW op
    PROVE  /\ op.do = "write" => After(op) = src \/ After(op) = Without(src, op.e) \cup {op.e}
           /\ op.do = "write" /\ After(op) = src => op.e.kind = "dir" \/ After(op) = Without(src, op.e) \cup {op.e}
           /\ op.do = "remove" => After(op) = Without(src, op.e) \/ After(op) = src
           /\ op.do = "rename" => After(op) = Renamed(src, op.e, op.to)
           /\ op.do = "wipe" => After(op) = {}
           /\ op.do \notin {"write", "remove", "rename", "wipe"} => After(op) = src
  BY Zenon DEF After

LEMMA DoShape ==
    ASSUME Do, NEW op, op = ops[1][1]
    PROVE  /\ pc = "do" /\ ops # <<>> /\ Possible(op)
           /\ src' = After(op)
           /\ keeps' \subseteq Targets
           /\ dest' = IF op.do = "destroy"
                      THEN [u \in Targets |-> IF u = op.e.of \/ u \in Below(op.e.of) THEN Nothing ELSE dest[u]]
                      ELSE dest
           /\ db' = db \/ (op.do = "record" /\ db' = [db EXCEPT ![op.e.of] = op.to])
                       \/ (op.do = "delete" /\ db' = [db EXCEPT ![op.e.of] = Unrecorded])
           /\ ops' = IF Len(ops[1]) = 1 THEN Tail(ops) ELSE [ops EXCEPT ![1] = Tail(@)]
           /\ UNCHANGED <<world, cmd, root, pc, todo, dirs, infos, news, full, renames, told, said, left>>
  <1>1. /\ pc = "do" /\ ops # <<>> /\ Possible(op)
        /\ src' = After(op)
        /\ dest' = IF op.do = "destroy"
                   THEN [u \in Targets |-> IF u = op.e.of \/ u \in Below(op.e.of) THEN Nothing ELSE dest[u]]
                   ELSE dest
        /\ ops' = IF Len(ops[1]) = 1 THEN Tail(ops) ELSE [ops EXCEPT ![1] = Tail(@)]
        /\ UNCHANGED <<world, cmd, root, pc, todo, dirs, infos, news, full, renames, told, said, left>>
    BY Zenon DEF Do
  <1>2. keeps' = {d \in Targets :
                         /\ d \in keeps \/ (op.do = "keep" /\ d = op.e.of)
                         /\ \E x \in src' : x.of = d /\ x.kind = "dir"}
    BY Zenon DEF Do
  <1>3. db' = CASE op.do = "record" -> [db EXCEPT ![op.e.of] = op.to]
                [] op.do = "delete" -> [db EXCEPT ![op.e.of] = Unrecorded]
                [] OTHER -> db
    BY Zenon DEF Do
  <1>4. db' = db \/ (op.do = "record" /\ db' = [db EXCEPT ![op.e.of] = op.to])
                 \/ (op.do = "delete" /\ db' = [db EXCEPT ![op.e.of] = Unrecorded])
    BY <1>3, Zenon
  <1> QED
    BY <1>1, <1>2, <1>4

LEMMA DoTyped ==
    ASSUME LifecycleAssumption, Typed, Phases, Do
    PROVE  Typed' /\ Phases'
  <1> DEFINE op == ops[1][1]
  <1>1. /\ pc = "do" /\ ops # <<>>
        /\ src' = After(op)
        /\ keeps' \subseteq Targets
        /\ dest' = IF op.do = "destroy"
                   THEN [u \in Targets |-> IF u = op.e.of \/ u \in Below(op.e.of) THEN Nothing ELSE dest[u]]
                   ELSE dest
        /\ db' = db \/ (op.do = "record" /\ db' = [db EXCEPT ![op.e.of] = op.to])
                    \/ (op.do = "delete" /\ db' = [db EXCEPT ![op.e.of] = Unrecorded])
        /\ ops' = IF Len(ops[1]) = 1 THEN Tail(ops) ELSE [ops EXCEPT ![1] = Tail(@)]
        /\ UNCHANGED <<world, cmd, root, pc, todo, dirs, infos, news, full, renames, told, said, left>>
    BY DoShape
  <1>2. op \in Ops
    BY <1>1, HeadOps
  <1>3. ops' \in Seq(Updates)
    BY <1>1, HeadOps
  <1> HIDE DEF op
  <1>4. src \subseteq Source /\ dest \in [Targets -> Dest] /\ db \in [Targets -> Dest \cup {Unrecorded}]
    BY DEF Typed, StoreTyped
  <1>5. src' \subseteq Source
    <2>1. \A e : Without(src, e) \subseteq src
      BY DEF Without
    <2>2. \A e, f : Renamed(src, e, f) \subseteq src \cup {f}
      BY DEF Renamed
    <2> QED
      BY <1>1, <1>2, <1>4, <2>1, <2>2, AfterFacts, OpsFacts
  <1>6. dest' \in [Targets -> Dest]
    <2>1. Nothing \in Dest
      BY DestFacts
    <2> QED
      BY <1>1, <1>4, <2>1
  <1>7. db' \in [Targets -> Dest \cup {Unrecorded}]
    <2>1. \A t, x \in Dest \cup {Unrecorded} : [db EXCEPT ![t] = x] \in [Targets -> Dest \cup {Unrecorded}]
      BY <1>4
    <2>2. op.do = "record" => op.to \in Dest
      BY <1>2, OpsFacts
    <2> HIDE DEF Unrecorded
    <2> QED
      BY <1>1, <1>4, <2>1, <2>2
  <1>8. StoreTyped'
    BY <1>1, <1>5, <1>6, <1>7 DEF Typed, StoreTyped
  <1>9. CommandTyped'
    BY <1>1 DEF Typed, CommandTyped, told
  <1>10. PlanTyped'
    BY <1>1, <1>3 DEF Typed, PlanTyped
  <1>11. Phases'
    BY <1>1 DEF Phases
  <1> QED
    BY <1>8, <1>9, <1>10, <1>11 DEF Typed

\* The steps by which a command ends.
Ends ==
    /\ pc # "idle" /\ \E cut \in BOOLEAN : Stop(cut)
    /\ UNCHANGED <<dest, src, keeps, db, world, cmd, root>>

LEMMA EndsTyped ==
    ASSUME LifecycleAssumption, Typed, Phases, PlanFails \/ ReAddEnds \/ LeaveEnds \/ DoFails \/ Cut
    PROVE  Typed' /\ Phases' /\ Ends
  <1>1. left \in [runs : 0..MaxRuns, stops : 0..MaxStops] /\ MaxStops \in Nat
    BY Zenon DEF Typed, StoreTyped, LifecycleAssumption
  <1>2. PICK cut \in BOOLEAN : Stop(cut)
    BY Zenon DEF PlanFails, ReAddEnds, LeaveEnds, DoFails, Cut
  <1>3. pc # "idle" /\ UNCHANGED <<dest, src, keeps, db, world, cmd, root>>
    BY DEF PlanFails, ReAddEnds, LeaveEnds, DoFails, Cut
  <1>4. left' = left \/ (left.stops > 0 /\ left' = [left EXCEPT !.stops = @ - 1])
    BY DEF PlanFails, ReAddEnds, LeaveEnds, DoFails, Cut
  <1>5. left' \in [runs : 0..MaxRuns, stops : 0..MaxStops]
    BY <1>1, <1>4
  <1>6. Ends
    BY <1>2, <1>3 DEF Ends
  <1> QED
    BY <1>2, <1>3, <1>5, <1>6, StopTyped

LEMMA StutterTyped ==
    ASSUME Typed, Phases, UNCHANGED lifecycleVars
    PROVE  Typed' /\ Phases'
  <1> USE DEF lifecycleVars, planning, told
  <1>1. StoreTyped'
    BY DEF Typed, StoreTyped
  <1>2. CommandTyped'
    BY DEF Typed, CommandTyped
  <1>3. PlanTyped'
    BY DEF Typed, PlanTyped
  <1>4. Phases'
    BY DEF Phases
  <1> QED
    BY <1>1, <1>2, <1>3, <1>4 DEF Typed

LEMMA StepTyped ==
    ASSUME LifecycleAssumption, Typed, Phases, [Next]_lifecycleVars
    PROVE  Typed' /\ Phases'
  BY StartTyped, PlanSkipTyped, PlanRefusedTyped, PlanTargetTyped, PlanEndsTyped, ReAddSameTyped,
     ReAddRefusedTyped, ReAddFileTyped, ReAddDirTyped, LeaveTyped, DoTyped, DoneTyped, EndsTyped,
     MendTyped, StutterTyped DEF Next

-----------------------------------------------------------------------------
(* What is kept.                                                           *)

\* Steps that leave the directories alone and let the user agree to more.
Steady ==
    /\ UNCHANGED <<dest, src, world, root>>
    /\ cmd # NoCommand /\ cmd'.name = cmd.name /\ cmd'.exact = cmd.exact /\ cmd'.remove = cmd.remove
    /\ cmd.name = "add" /\ cmd.force => cmd'.force
    /\ agreed \subseteq agreed'
    /\ \A t \in DOMAIN infos : t \in DOMAIN infos' /\ infos'[t] = infos[t]
    /\ said.clash => said'.clash

LEMMA SteadyFits ==
    ASSUME Steady
    PROVE  /\ \A t, x : Agreeable(t, x) => Agreeable(t, x)'
           /\ \A t \in DOMAIN infos : DirOf(t)' = DirOf(t)
           /\ \A u, first : UpdateFits(u, first) => UpdateFits(u, first)'
  <1>1. \A t, x : Agreeable(t, x) => Agreeable(t, x)'
    BY DEF Steady, Agreeable, IsDir
  <1>2. \A t \in DOMAIN infos : DirOf(t)' = DirOf(t)
    <2>1. AddOptions'.exact = AddOptions.exact
      BY DEF Steady, AddOptions
    <2> QED
      BY <2>1 DEF Steady, DirOf
  <1>3. \A e : WriteFits(e) => WriteFits(e)'
    BY <1>1, <1>2 DEF Steady, WriteFits
  <1>4. \A e, f : RenameFits(e, f) => RenameFits(e, f)'
    BY <1>2 DEF Steady, RenameFits, IsDir
  <1>5. \A e : Replaced(e) => Replaced(e)'
    BY <1>1 DEF Steady, Replaced
  <1>6. ASSUME NEW u, NEW j, NEW first, DropFits(u, j, first)
        PROVE  DropFits(u, j, first)'
    <2> DEFINE e == u[j].e
    <2>1. e.of \in Targets /\ e = root[e.of] /\ root' = root /\ dest' = dest /\ world' = world
      BY <1>6 DEF DropFits, Steady
    <2>2. cmd'.name = cmd.name /\ agreed \subseteq agreed'
      BY DEF Steady
    <2>3. CASE cmd.name = "forget" /\ e.of \in agreed
      BY <2>1, <2>2, <2>3 DEF DropFits
    <2>4. CASE /\ cmd.name = "destroy" /\ e.of \in agreed
               /\ \/ \A v \in Targets : v = e.of \/ v \in Below(e.of) => dest[v] = Nothing
                  \/ j > 1 /\ u[j - 1] = Destroy(e.of)
      BY <2>1, <2>2, <2>4 DEF DropFits
    <2>5. CASE /\ cmd.name = "re-add" /\ e.of \in agreed \ world.ignored
               /\ ~IsDir(e.of) /\ dest[e.of] = Nothing
      BY <2>1, <2>2, <2>5 DEF DropFits, IsDir
    <2>6. CASE /\ cmd.name \notin {"forget", "destroy"} /\ Managed(e) /\ e.of \in DOMAIN infos
               /\ IsDir(e.of) => infos[e.of].type # "dir"
               /\ infos[e.of].type = "dir" => ~SameName(DirOf(e.of), e)
               /\ \/ j = 1 /\ first /\ Replaced(e)
                  \/ /\ j > 1 /\ u[j - 1].do = "write" /\ u[j - 1].e.of = e.of
                     /\ ~SameName(u[j - 1].e, e)
      <3>1. e.of \in DOMAIN infos' /\ infos'[e.of] = infos[e.of] /\ DirOf(e.of)' = DirOf(e.of)
        BY <1>2, <2>6 DEF Steady
      <3>2. IsDir(e.of)' <=> IsDir(e.of)
        BY <2>1 DEF IsDir
      <3>3. (j = 1 /\ first /\ Replaced(e)') \/ (j > 1 /\ u[j - 1].do = "write" /\ u[j - 1].e.of = e.of
               /\ ~SameName(u[j - 1].e, e))
        BY <1>5, <2>6
      <3> HIDE DEF e
      <3>4. /\ cmd'.name \notin {"forget", "destroy"} /\ Managed(e) /\ e.of \in DOMAIN infos'
            /\ IsDir(e.of)' => infos'[e.of].type # "dir"
            /\ infos'[e.of].type = "dir" => ~SameName(DirOf(e.of)', e)
        BY <2>2, <2>6, <3>1, <3>2
      <3> QED
        BY <2>1, <3>3, <3>4 DEF DropFits, e
    <2> QED
      BY <1>6, <2>3, <2>4, <2>5, <2>6 DEF DropFits
  <1>7. cmd.name = cmd'.name
    BY DEF Steady
  <1>8. \A u, first : UpdateFits(u, first) => UpdateFits(u, first)'
    BY <1>3, <1>4, <1>6, <1>7 DEF UpdateFits, OpFits
  <1> QED
    BY <1>1, <1>2, <1>8

LEMMA SteadyKept ==
    ASSUME KeptInv, Steady, Bound'
    PROVE  Bound /\ Kept' /\ DirsFit' /\ Emptied'
  <1>1. Bound
    BY DEF Bound, Steady
  <1>2. Kept /\ DirsFit /\ Emptied
    BY <1>1 DEF KeptInv
  <1>3. \A t, x : Agreeable(t, x) => Agreeable(t, x)'
    BY SteadyFits
  <1>4. \A t : Intended(t) => Intended(t)'
    BY DEF Intended, Steady
  <1>5. Kept'
    BY <1>2, <1>3, <1>4 DEF Kept, Steady
  <1>6. DirsFit'
    BY <1>2, SteadyFits DEF DirsFit, Steady
  <1>7. Emptied'
    BY <1>2 DEF Emptied, Steady
  <1> QED
    BY <1>1, <1>5, <1>6, <1>7

\* Nothing was planned but what was planned before.
LEMMA SteadyKeptInv ==
    ASSUME KeptInv, Steady, infos' = infos, ops' = ops \/ ops' = <<>>, renames' = renames \/ renames' = <<>>
    PROVE  KeptInv'
  <1> SUFFICES ASSUME Bound' PROVE Kept' /\ DirsFit' /\ RootFits' /\ OpsFit' /\ RenamesFit' /\ Emptied'
    BY DEF KeptInv
  <1>1. Bound /\ Kept' /\ DirsFit' /\ Emptied'
    BY SteadyKept
  <1>2. RootFits /\ OpsFit /\ RenamesFit
    BY <1>1 DEF KeptInv
  <1>3. RootFits'
    BY <1>2 DEF RootFits, Steady
  <1>4. OpsFit'
    BY <1>2, SteadyFits DEF OpsFit
  <1>5. RenamesFit'
    <2>1. \A u, first : UpdateFits(u, first) => UpdateFits(u, first)'
      BY SteadyFits
    <2>2. \A k \in DOMAIN renames' : UpdateFits(renames'[k], FALSE)
      <3>1. CASE renames' = renames
        BY <1>2, <3>1 DEF RenamesFit
      <3>2. CASE renames' = <<>>
        BY <3>2
      <3> QED
        BY <3>1, <3>2
    <2> QED
      BY <2>1, <2>2 DEF RenamesFit
  <1> QED
    BY <1>1, <1>3, <1>4, <1>5

LEMMA PlainKept ==
    ASSUME Typed, Phases, KeptInv,
           PlanSkip \/ PlanRefused \/ ReAddSame \/ ReAddRefused \/ Done \/ Ends
    PROVE  KeptInv'
  <1>1. CASE PlanSkip \/ ReAddSame
    <2>1. cmd # NoCommand
      BY <1>1, CommandThere DEF PlanSkip, ReAddSame
    <2>2. Steady /\ infos' = infos /\ ops' = ops /\ renames' = renames
      BY <1>1, <2>1 DEF Steady, PlanSkip, ReAddSame, Pass
    <2> QED
      BY <2>2, SteadyKeptInv
  <1>2. CASE PlanRefused
    <2>1. PICK ad \in Answers \cup {"unasked"}, re \in {"no", "quit", "unasked"} :
            /\ cmd' = Heeding(ad, re)
            /\ \/ /\ ops' = <<>> /\ renames' = <<>>
                  /\ said' = [said EXCEPT !.cut = TRUE] /\ agreed' = agreed
               \/ Pass /\ said' = [said EXCEPT !.no = TRUE]
      BY <1>2, Zenon DEF PlanRefused
    <2>2. cmd # NoCommand /\ cmd.prompt \in BOOLEAN /\ cmd.force \in BOOLEAN
      BY <1>2, CommandThere DEF PlanRefused
    <2>3. /\ cmd'.name = cmd.name /\ cmd'.remove = cmd.remove /\ cmd'.exact = cmd.exact
          /\ cmd'.force = (cmd.force \/ re = "all")
      BY <2>1, <2>2, SameCommand DEF Typed, Heeding
    <2>4. UNCHANGED <<dest, src, world, root>> /\ infos' = infos
      BY <1>2 DEF PlanRefused
    <2>5. said'.clash = said.clash /\ agreed' = agreed
      BY <2>1, SaidTyped DEF Pass
    <2>6. Steady
      BY <2>2, <2>3, <2>4, <2>5 DEF Steady
    <2> QED
      BY <2>1, <2>4, <2>6, SteadyKeptInv DEF Pass
  <1>3. CASE ReAddRefused
    <2>1. UNCHANGED <<dest, src, world, root, cmd>> /\ infos' = infos /\ pc = "re-add"
      BY <1>3 DEF ReAddRefused
    <2>2. \/ /\ ops' = <<>> /\ renames' = <<>>
             /\ said' = [said EXCEPT !.cut = TRUE] /\ agreed' = agreed
          \/ Pass /\ said' = [said EXCEPT !.no = TRUE]
      BY <1>3, Zenon DEF ReAddRefused
    <2>3. said'.clash = said.clash /\ agreed' = agreed
      BY <2>2, SaidTyped DEF Pass
    <2>4. Steady
      BY <2>1, <2>3, CommandThere DEF Steady
    <2> QED
      BY <2>1, <2>2, <2>4, SteadyKeptInv DEF Pass
  <1>4. CASE Ends
    <2>1. UNCHANGED <<dest, src, world, root, cmd>> /\ pc # "idle" /\ \E cut \in BOOLEAN : Stop(cut)
      BY <1>4 DEF Ends
    <2>2. said'.clash = said.clash /\ UNCHANGED <<infos, agreed>> /\ ops' = <<>> /\ renames' = <<>>
      BY <2>1 DEF Stop, Typed, CommandTyped
    <2>3. Steady
      BY <2>1, <2>2, CommandThere DEF Steady
    <2> QED
      BY <2>2, <2>3, SteadyKeptInv
  <1>5. CASE Done
    <2>1. pc = "do" /\ ops = <<>> /\ UNCHANGED <<dest, src, keeps, db, world, cmd, root, left>>
      BY <1>5 DEF Done
    <2>2. Stop(FALSE) \/ UNCHANGED <<todo, dirs, ops, renames, infos, news, full, told, said>>
      BY <1>5 DEF Done
    <2>3. said'.clash = said.clash /\ UNCHANGED <<infos, agreed>> /\ (ops' = ops \/ ops' = <<>>) /\ (renames' = renames \/ renames' = <<>>)
      BY <2>2 DEF Stop, Typed, CommandTyped, told
    <2>4. Steady
      BY <2>1, <2>3, CommandThere DEF Steady
    <2> QED
      BY <2>3, <2>4, SteadyKeptInv
  <1> QED
    BY <1>1, <1>2, <1>3, <1>4, <1>5

LEMMA StutterKept ==
    ASSUME KeptInv, UNCHANGED lifecycleVars
    PROVE  KeptInv'
  <1>1. CASE cmd = NoCommand
    BY <1>1 DEF KeptInv, Bound, lifecycleVars
  <1>2. CASE cmd # NoCommand
    <2>1. Steady
      BY <1>2 DEF Steady, lifecycleVars, planning, told
    <2> QED
      BY <2>1, SteadyKeptInv DEF lifecycleVars, planning
  <1> QED
    BY <1>1, <1>2

LEMMA StartKept ==
    ASSUME LifecycleAssumption, Typed, Start
    PROVE  KeptInv'
  <1> SUFFICES ASSUME Bound' PROVE Kept' /\ DirsFit' /\ RootFits' /\ OpsFit' /\ RenamesFit' /\ Emptied'
    BY DEF KeptInv
  <1>1. PICK c \in Commands : StartAdd(c) \/ StartImport(c) \/ StartReAdd(c) \/ StartLeave(c)
    BY DEF Start
  <1>2. /\ cmd' = c /\ root' = [t \in Targets |-> StateOf(t)] /\ ops' = <<>> /\ renames' = <<>>
        /\ UNCHANGED <<dest, src, world>> /\ Readable
    <2>1. Begin(c)
      BY <1>1, Zenon DEF StartAdd, StartImport, StartReAdd, StartLeave
    <2> QED
      BY <2>1 DEF Begin
  <1>3. cmd'.name = "re-add" => infos' = <<>>
    <2>1. StartAdd(c) => c.name = "add"
      BY Zenon DEF StartAdd
    <2>2. StartImport(c) => c.name = "import"
      BY Zenon DEF StartImport
    <2>3. StartReAdd(c) => infos' = <<>>
      BY Zenon DEF StartReAdd
    <2>4. StartLeave(c) => infos' = <<>>
      BY Zenon DEF StartLeave
    <2> QED
      BY <1>1, <1>2, <2>1, <2>2, <2>3, <2>4
  <1>4. \A t \in Targets : Managed(root'[t]) => root'[t] \in src' /\ root'[t].of = t /\ t \notin world'.ignored
    BY <1>2, StateOfFacts DEF Typed
  <1>5. \A t \in Targets : Agreeable(t, root[t])'
    BY DEF Agreeable
  <1>6. Kept'
    BY <1>4, <1>5 DEF Kept
  <1>7. DirsFit'
    <2>1. \A x \in src : x.of \in Targets
      BY EntryFacts DEF Typed, StoreTyped
    <2>2. \A x \in src : x.of \notin world.ignored => x = StateOf(x.of)
      BY <1>2, <2>1, StateOfFacts DEF Typed
    <2> QED
      BY <1>2, <2>1, <2>2 DEF DirsFit
  <1>8. RootFits'
    BY <1>3, <1>4 DEF RootFits
  <1>9. OpsFit' /\ RenamesFit'
    BY <1>2 DEF OpsFit, RenamesFit
  <1>10. Emptied'
    BY <1>4 DEF Emptied
  <1> QED
    BY <1>6, <1>7, <1>8, <1>9, <1>10

LEMMA FitsLater ==
    ASSUME NEW u, NEW first \in BOOLEAN
    PROVE  /\ UpdateFits(u, FALSE) => UpdateFits(u, first)
           /\ UpdateFits(u, FALSE)' => UpdateFits(u, first)'
  BY DEF UpdateFits, OpFits, DropFits

LEMMA OpsFitLater ==
    ASSUME \A k \in DOMAIN ops' : \E u : u = ops'[k] /\ (UpdateFits(u, FALSE)' \/ (k = 1 /\ UpdateFits(u, TRUE)'))
    PROVE  OpsFit'
  <1> SUFFICES ASSUME NEW k \in DOMAIN ops' PROVE UpdateFits(ops[k], k = 1)'
    BY DEF OpsFit
  <1>1. PICK u : u = ops'[k] /\ (UpdateFits(u, FALSE)' \/ (k = 1 /\ UpdateFits(u, TRUE)'))
    OBVIOUS
  <1>2. CASE k = 1
    <2>1. UpdateFits(u, TRUE)'
      BY <1>1, FitsLater
    <2>2. (k = 1) = TRUE
      BY <1>2
    <2> QED
      BY <1>1, <2>1, <2>2
  <1>3. CASE k # 1
    <2>1. UpdateFits(u, FALSE)'
      BY <1>1, <1>3
    <2>2. (k = 1) = FALSE
      BY <1>3
    <2> QED
      BY <1>1, <2>1, <2>2
  <1> QED
    BY <1>2, <1>3

LEMMA RenamesFitLater ==
    ASSUME \A k \in DOMAIN renames' : \E u : u = renames'[k] /\ UpdateFits(u, FALSE)'
    PROVE  RenamesFit'
  BY DEF RenamesFit

\* The update that takes a target in, as it is planned: nothing of the old entry
\* is left out that the user did not give up, and a directory is not removed for
\* one of another name.
LEMMA SwapFits ==
    ASSUME LifecycleAssumption, Typed, UNCHANGED root,
           cmd'.name \in {"add", "import", "re-add"},
           NEW t \in Targets, t \in DOMAIN infos', NEW i \in Dest, i = infos'[t],
           NEW e \in Source, e.of = t, e.kind = "dir" <=> i.type = "dir", e.kind = "dir" => e = DirOf(t)',
           ~Clashes(t, e), ~Renames(t, e), Agreeable(t, e)', NEW won, NEW u, u = Swap(t, i, e, won)
    PROVE  UpdateFits(u, FALSE)'
  <1>1. WriteFits(e)'
    BY DEF WriteFits
  <1>2. PICK r : r = root[t]
    OBVIOUS
  <1>3. r.of = t /\ root'[t] = r
    BY <1>2 DEF Typed, CommandTyped
  <1>4. /\ Write(e).do = "write" /\ Write(e).e = e
        /\ Drop(r).do = "remove" /\ Drop(r).e = r
        /\ Record(t, i).do = "record"
    BY DEF Write, Drop, Record
  <1>5. CASE u = <<Write(e), Record(t, i)>>
    <2>1. DOMAIN u = {1, 2} /\ u[1] = Write(e) /\ u[2] = Record(t, i)
      BY <1>5
    <2>2. OpFits(u, 1, FALSE)'
      BY <1>1, <1>4, <2>1 DEF OpFits
    <2>3. OpFits(u, 2, FALSE)'
      BY <1>4, <2>1 DEF OpFits
    <2> QED
      BY <2>1, <2>2, <2>3 DEF UpdateFits
  <1>6. CASE Managed(r) /\ ~SamePath(r, e) /\ ~SameName(r, e) /\ u = <<Write(e), Drop(r), Record(t, i)>>
    <2>1. DOMAIN u = {1, 2, 3} /\ u[1] = Write(e) /\ u[2] = Drop(r) /\ u[3] = Record(t, i)
      BY <1>6
    <2>2. ~SameName(e, r)
      BY <1>6 DEF SameName
    <2>3. IsDir(t) => i.type # "dir"
      BY <1>2, <1>6 DEF Renames
    <2>4. DropFits(u, 2, FALSE)'
      <3>1. u[2 - 1] = Write(e) /\ 2 > 1
        BY <2>1
      <3>2. IsDir(t)' => i.type # "dir"
        BY <1>2, <1>3, <2>3 DEF IsDir
      <3>3. i.type = "dir" => ~SameName(DirOf(t)', r)
        BY <2>2
      <3> QED
        BY <1>3, <1>4, <1>6, <2>1, <2>2, <3>1, <3>2, <3>3 DEF DropFits
    <2>5. OpFits(u, 1, FALSE)'
      BY <1>1, <1>4, <2>1 DEF OpFits
    <2>6. OpFits(u, 2, FALSE)'
      BY <1>4, <2>1, <2>4 DEF OpFits
    <2>7. OpFits(u, 3, FALSE)'
      BY <1>4, <2>1 DEF OpFits
    <2> QED
      BY <2>1, <2>5, <2>6, <2>7 DEF UpdateFits
  <1> QED
    BY <1>2, <1>5, <1>6, SwapShapes

LEMMA PlanTargetKept ==
    ASSUME LifecycleAssumption, Typed, Phases, KeptInv, PlanTarget
    PROVE  KeptInv'
  <1> SUFFICES ASSUME Bound' PROVE Kept' /\ DirsFit' /\ RootFits' /\ OpsFit' /\ RenamesFit' /\ Emptied'
    BY DEF KeptInv
  <1>t. PICK t : t = Head(todo)
    OBVIOUS
  <1>i. PICK i : i = infos[t]
    OBVIOUS
  <1>e. PICK e : e = New(t, i, AddOptions)
    OBVIOUS
  <1>r. PICK r : r = root[t]
    OBVIOUS
  <1>1. PICK ad \in {"yes", "all", "unasked"}, re \in {"yes", "all", "unasked"} :
          /\ re = "unasked" <=> ~ReplaceAsks(t, e)
          /\ cmd' = Heeding(ad, re)
          /\ agreed' = IF re # "unasked" THEN agreed \cup {t} ELSE agreed
          /\ IF Renames(t, e)
             THEN renames' = <<<<Rename(r, e)>>>> \o renames /\ UNCHANGED <<news, ops, said>>
             ELSE /\ \E won \in {"new", "old"} : ops' = Append(ops, Swap(t, i, e, won))
                  /\ news' = news \cup {e}
                  /\ said' = [said EXCEPT !.clash = @ \/ Clashes(t, e)]
                  /\ UNCHANGED renames
    BY <1>t, <1>i, <1>e, <1>r, Zenon DEF PlanTarget
  <1>2. /\ t \in Targets /\ t \in DOMAIN infos /\ i \in Dest
        /\ e \in Source /\ e.of = t /\ (e.kind = "dir" <=> i.type = "dir")
    BY <1>t, <1>i, <1>e, PlannedFacts DEF PlanTarget
  <1>3. pc = "plan" /\ UNCHANGED <<dest, src, world, root, infos>>
    BY DEF PlanTarget
  <1>4. cmd # NoCommand /\ cmd.prompt \in BOOLEAN /\ cmd.force \in BOOLEAN /\ cmd.name \in {"add", "import"}
    BY <1>3, CommandThere DEF Phases
  <1>5. e.kind = "dir" => e = DirOf(t)
    <2> DEFINE o == [attrs |-> {}, exact |-> AddOptions.exact]
    <2>1. o.exact = AddOptions.exact
      OBVIOUS
    <2>2. DirOf(t) = New(t, i, o)
      BY <1>4, <1>i DEF DirOf
    <2> HIDE DEF o
    <2> QED
      BY <1>2, <1>e, <2>1, <2>2, NewDir
  <1>6. /\ cmd'.name = cmd.name /\ cmd'.remove = cmd.remove /\ cmd'.exact = cmd.exact
        /\ cmd'.force = (cmd.force \/ re = "all")
    BY <1>1, <1>4, SameCommand DEF Typed, Heeding
  <1>8. said.clash => said'.clash
    <2>1. Clashes(t, e) \in BOOLEAN
      BY DEF Clashes
    <2> QED
      BY <1>1, <2>1, SaidTyped
  <1>9. Steady
    BY <1>1, <1>3, <1>4, <1>6, <1>8 DEF Steady
  <1>10. Bound /\ Kept' /\ DirsFit' /\ Emptied'
    BY <1>9, SteadyKept
  <1>11. RootFits /\ OpsFit /\ RenamesFit
    BY <1>10 DEF KeptInv
  <1>12. RootFits'
    BY <1>3, <1>6, <1>11 DEF RootFits
  <1>13. /\ \A u, first : UpdateFits(u, first) => UpdateFits(u, first)'
         /\ DirOf(t)' = DirOf(t)
    BY <1>2, <1>9, SteadyFits
  <1>14. \A k \in DOMAIN ops : \E u : u = ops[k] /\ (UpdateFits(u, FALSE)' \/ (k = 1 /\ UpdateFits(u, TRUE)'))
    <2> SUFFICES ASSUME NEW k \in DOMAIN ops, NEW u, u = ops[k]
                 PROVE  UpdateFits(u, FALSE)' \/ (k = 1 /\ UpdateFits(u, TRUE)')
      OBVIOUS
    <2>1. UpdateFits(u, k = 1)
      BY <1>11 DEF OpsFit
    <2> QED
      BY <1>13, <2>1
  <1>15. \A k \in DOMAIN renames : \E u : u = renames[k] /\ UpdateFits(u, FALSE)'
    BY <1>11, <1>13 DEF RenamesFit
  <1>16. CASE Renames(t, e)
    <2>1. renames' = <<<<Rename(r, e)>>>> \o renames /\ ops' = ops
      BY <1>1, <1>16
    <2>2. OpsFit'
      BY <1>14, <2>1, OpsFitLater
    <2>3. PICK u : u = <<Rename(r, e)>>
      OBVIOUS
    <2>4. RenameFits(r, e)'
      <3>1. IsDir(t) /\ e.kind = "dir"
        BY <1>16 DEF Renames
      <3>2. infos'[t] = i /\ i.type = "dir" /\ e = DirOf(t)' /\ t \in DOMAIN infos'
        BY <1>2, <1>3, <1>5, <1>13, <1>i, <3>1
      <3>3. IsDir(t)' /\ root'[t] = r
        BY <1>3, <1>r, <3>1 DEF IsDir
      <3> QED
        BY <1>2, <1>4, <1>6, <3>2, <3>3 DEF RenameFits
    <2>5. UpdateFits(u, FALSE)'
      <3>1. Rename(r, e).do = "rename" /\ Rename(r, e).e = r /\ Rename(r, e).to = e
        BY DEF Rename
      <3>2. DOMAIN u = {1} /\ u[1] = Rename(r, e)
        BY <2>3
      <3> QED
        BY <2>4, <3>1, <3>2 DEF UpdateFits, OpFits
    <2>6. RenamesFit'
      <3> DEFINE one == <<u>>
      <3>1. u \in Updates
        BY <1>2, <1>r, <2>3, OpsMade, UpdatesMade DEF Typed, CommandTyped
      <3>2. one \in Seq(Updates) /\ DOMAIN one = {1} /\ one[1] = u
        BY <3>1
      <3>3. renames \in Seq(Updates) /\ renames' = one \o renames
        BY <2>1, <2>3 DEF Typed, PlanTyped
      <3> HIDE DEF one
      <3>4. \A k \in DOMAIN (one \o renames) :
                \/ k \in DOMAIN one /\ (one \o renames)[k] = one[k]
                \/ \E j \in DOMAIN renames : (one \o renames)[k] = renames[j]
        BY <3>2, <3>3, ConcatMembers
      <3>5. \A k \in DOMAIN renames' : renames'[k] = u \/ \E j \in DOMAIN renames : renames'[k] = renames[j]
        BY <3>2, <3>3, <3>4
      <3> QED
        BY <1>15, <2>5, <3>5, RenamesFitLater
    <2> QED
      BY <1>10, <1>12, <2>2, <2>6
  <1>17. CASE ~Renames(t, e)
    <2>1. PICK won \in {"new", "old"} : ops' = Append(ops, Swap(t, i, e, won))
      BY <1>1, <1>17
    <2>2. renames' = renames /\ said' = [said EXCEPT !.clash = @ \/ Clashes(t, e)]
      BY <1>1, <1>17
    <2>3. ~Clashes(t, e)
      <3>1. Clashes(t, e) \in BOOLEAN
        BY DEF Clashes
      <3> QED
        BY <2>2, <3>1, SaidTyped DEF Bound
    <2>4. Agreeable(t, e)'
      <3> SUFFICES ASSUME cmd'.name = "add", Managed(root[t]), ~IsDir(t), t \notin agreed', ~cmd'.force, e.kind # "dir"
                   PROVE  root[t].attrs \cap {"encrypted", "private", "template"} \subseteq e.attrs
        BY <1>3 DEF Agreeable, IsDir
      <3>1. ~cmd.force /\ cmd.name = "add"
        BY <1>6
      <3>2. re = "unasked"
        BY <1>1
      <3>3. ~ReplaceAsks(t, e)
        BY <1>1, <3>2
      <3>4. Loses(t, e) = {}
        BY <3>1, <3>3 DEF ReplaceAsks
      <3>5. Loses(t, e) = (root[t].attrs \cap {"encrypted", "private", "template"}) \ e.attrs
        BY DEF Loses
      <3> QED
        BY <3>4, <3>5
    <2>s. PICK s : s = Swap(t, i, e, won)
      OBVIOUS
    <2>5. UpdateFits(s, FALSE)'
      <3>1. cmd'.name \in {"add", "import", "re-add"} /\ t \in DOMAIN infos' /\ i = infos'[t]
        BY <1>2, <1>3, <1>4, <1>6, <1>i
      <3>2. e.kind = "dir" => e = DirOf(t)'
        BY <1>5, <1>13
      <3> QED
        BY <1>2, <1>3, <1>17, <2>3, <2>4, <2>s, <3>1, <3>2, SwapFits
    <2>6. RenamesFit'
      BY <1>15, <2>2, RenamesFitLater
    <2>7. OpsFit'
      <3> DEFINE n == Len(ops)
      <3>1. s \in Updates
        BY <1>2, <2>s, SwapTyped DEF Typed
      <3>2. ops \in Seq(Updates) /\ n \in Nat /\ DOMAIN ops = 1..n
        BY LenProperties DEF Typed, PlanTyped
      <3>3. /\ Append(ops, s) \in Seq(Updates) /\ Len(Append(ops, s)) = n + 1
            /\ \A k \in 1..n : Append(ops, s)[k] = ops[k]
            /\ Append(ops, s)[n + 1] = s
        BY <3>1, <3>2, AppendProperties
      <3>4. DOMAIN Append(ops, s) = 1..(n + 1)
        BY <3>3, LenProperties
      <3>5. \A k \in 1..(n + 1) : k \in 1..n \/ k = n + 1
        <4> HIDE DEF n
        <4> QED
          BY <3>2
      <3>6. ops' = Append(ops, s)
        BY <2>1, <2>s
      <3> HIDE DEF n
      <3>7. \A k \in DOMAIN ops' : (k \in DOMAIN ops /\ ops'[k] = ops[k]) \/ ops'[k] = s
        BY <3>2, <3>3, <3>4, <3>5, <3>6
      <3> QED
        BY <1>14, <2>5, <3>7, OpsFitLater
    <2> QED
      BY <1>10, <1>12, <2>6, <2>7
  <1> QED
    BY <1>16, <1>17

LEMMA KeepFits ==
    ASSUME NEW u, Len(u) = 1, DOMAIN u = {1}, u[1].do = "keep", NEW first
    PROVE  UpdateFits(u, first)'
  <1>1. OpFits(u, 1, first)'
    BY DEF OpFits
  <1> QED
    BY <1>1 DEF UpdateFits

LEMMA UpdateDomain ==
    ASSUME NEW u \in Updates, Len(u) = 1
    PROVE  DOMAIN u = {1}
  <1>1. u \in Seq(Ops)
    BY DEF Updates
  <1>2. DOMAIN u = 1..Len(u)
    BY <1>1, LenProperties
  <1> QED
    BY <1>2

LEMMA PlanEndsKept ==
    ASSUME LifecycleAssumption, Typed, Phases, KeptInv, PlanEnds
    PROVE  KeptInv'
  <1> SUFFICES ASSUME Bound' PROVE Kept' /\ DirsFit' /\ RootFits' /\ OpsFit' /\ RenamesFit' /\ Emptied'
    BY DEF KeptInv
  <1>1. /\ pc = "plan" /\ UNCHANGED <<dest, src, world, root, infos, cmd, said, agreed>>
        /\ ops' = ops \o Keeps(news, full) \o Cleared \o renames /\ renames' = <<>>
    BY DEF PlanEnds, told
  <1>2. Steady /\ infos' = infos
    BY <1>1, CommandThere DEF Steady
  <1>3. Bound /\ Kept' /\ DirsFit' /\ Emptied'
    BY <1>2, SteadyKept
  <1>4. RootFits /\ OpsFit /\ RenamesFit
    BY <1>3 DEF KeptInv
  <1>5. RootFits'
    BY <1>1, <1>4 DEF RootFits
  <1>6. RenamesFit'
    BY <1>1, RenamesFitLater
  <1>7. \A u, first : UpdateFits(u, first) => UpdateFits(u, first)'
    BY <1>2, SteadyFits
  <1> DEFINE K == Keeps(news, full)
             C == Cleared
             OK == ops \o K
             OKC == OK \o C
             every == OKC \o renames
  <1>8. ops \in Seq(Updates) /\ renames \in Seq(Updates)
    BY DEF Typed, PlanTyped
  <1>9. K \in Seq(Updates) /\ \A k \in DOMAIN K : Len(K[k]) = 1 /\ K[k][1].do = "keep"
    BY KeepsFacts DEF Typed, PlanTyped
  <1>10. C = <<>> /\ C \in Seq(Updates)
    BY <1>1, ClearedFacts DEF Bound
  <1>11. ops' = every
    BY <1>1
  <1> HIDE DEF K, C
  <1>12. OK \in Seq(Updates) /\ \A k \in DOMAIN OK : (k \in DOMAIN ops /\ OK[k] = ops[k]) \/ \E j \in DOMAIN K : OK[k] = K[j]
    BY <1>8, <1>9, ConcatMembers
  <1> HIDE DEF OK
  <1>13. OKC \in Seq(Updates) /\ \A k \in DOMAIN OKC : k \in DOMAIN OK /\ OKC[k] = OK[k]
    <2>1. OKC \in Seq(Updates) /\ \A k \in DOMAIN OKC : (k \in DOMAIN OK /\ OKC[k] = OK[k]) \/ \E j \in DOMAIN C : OKC[k] = C[j]
      BY <1>10, <1>12, ConcatMembers
    <2>2. DOMAIN C = {}
      BY <1>10
    <2> QED
      BY <2>1, <2>2
  <1> HIDE DEF OKC
  <1>14. every \in Seq(Updates) /\ \A k \in DOMAIN every :
            (k \in DOMAIN OKC /\ every[k] = OKC[k]) \/ \E j \in DOMAIN renames : every[k] = renames[j]
    BY <1>8, <1>13, ConcatMembers
  <1>15. \A k \in DOMAIN every : \/ k \in DOMAIN ops /\ every[k] = ops[k]
                                 \/ \E j \in DOMAIN K : every[k] = K[j]
                                 \/ \E j \in DOMAIN renames : every[k] = renames[j]
    BY <1>12, <1>13, <1>14
  <1> HIDE DEF every
  <1>16. \A k \in DOMAIN ops' : \E u : u = ops'[k] /\ (UpdateFits(u, FALSE)' \/ (k = 1 /\ UpdateFits(u, TRUE)'))
    <2> SUFFICES ASSUME NEW k \in DOMAIN every, NEW u, u = every[k]
                 PROVE  UpdateFits(u, FALSE)' \/ (k = 1 /\ UpdateFits(u, TRUE)')
      BY <1>11
    <2>1. CASE k \in DOMAIN ops /\ every[k] = ops[k]
      <3>1. UpdateFits(u, k = 1)
        BY <1>4, <2>1 DEF OpsFit
      <3> QED
        BY <1>7, <3>1
    <2>2. CASE \E j \in DOMAIN K : every[k] = K[j]
      <3>1. PICK j \in DOMAIN K : u = K[j]
        BY <2>2
      <3>2. u \in Updates
        BY <1>9, <3>1, ElementOfSeq, LenProperties
      <3>3. Len(u) = 1 /\ u[1].do = "keep"
        BY <1>9, <3>1
      <3> QED
        BY <3>2, <3>3, UpdateDomain, KeepFits
    <2>3. CASE \E j \in DOMAIN renames : every[k] = renames[j]
      <3>1. UpdateFits(u, FALSE)
        BY <1>4, <2>3 DEF RenamesFit
      <3> QED
        BY <1>7, <3>1
    <2> QED
      BY <1>15, <2>1, <2>2, <2>3
  <1>17. OpsFit'
    BY <1>16, OpsFitLater
  <1> QED
    BY <1>3, <1>5, <1>6, <1>17

LEMMA OneOp ==
    ASSUME NEW u, ops' = <<u>>, UpdateFits(u, FALSE)'
    PROVE  OpsFit'
  <1>1. DOMAIN ops' = {1} /\ ops'[1] = u
    OBVIOUS
  <1> QED
    BY <1>1, OpsFitLater

LEMMA ReAddFileKept ==
    ASSUME LifecycleAssumption, Typed, Phases, KeptInv, ReAddFile
    PROVE  KeptInv'
  <1> SUFFICES ASSUME Bound' PROVE Kept' /\ DirsFit' /\ RootFits' /\ OpsFit' /\ RenamesFit' /\ Emptied'
    BY DEF KeptInv
  <1>0. PICK t \in Targets, i \in Dest, e \in Source : FileStep(t, i, e)
    BY ReAddFileShape
  <1>s. PICK s : s = Swap(t, i, e, "new")
    OBVIOUS
  <1>1. /\ pc = "re-add"
        /\ i = dest[t] /\ e.of = t /\ e.kind = "file"
        /\ root[t].kind \in {"file", "external"} /\ i.type = "file"
        /\ ops' = <<s>>
        /\ infos' = [u \in DOMAIN infos \cup {t} |-> dest[u]]
        /\ cmd' = cmd \/ cmd' = [cmd EXCEPT !.prompt = FALSE]
        /\ UNCHANGED <<dest, src, world, root, renames, agreed, said>>
    BY <1>0, <1>s, ReAddFileShape DEF FileStep
  <1>2. cmd # NoCommand /\ cmd \in CommandLines /\ cmd.name = "re-add" /\ renames = <<>>
    BY <1>1, CommandThere DEF Phases
  <1>3. cmd'.name = cmd.name /\ cmd'.exact = cmd.exact /\ cmd'.remove = cmd.remove
    BY <1>1, <1>2 DEF CommandLines
  <1>4. RootFits
    <2>1. Bound
      BY <1>1, <1>2, <1>3 DEF Bound
    <2> QED
      BY <2>1 DEF KeptInv
  <1>5. Steady
    <2>1. \A w \in DOMAIN infos : w \in DOMAIN infos' /\ infos'[w] = infos[w]
      BY <1>1, <1>2, <1>4 DEF RootFits
    <2> QED
      BY <1>1, <1>2, <1>3, <2>1 DEF Steady
  <1>6. Kept' /\ DirsFit' /\ Emptied'
    BY <1>5, SteadyKept
  <1>7. RootFits'
    BY <1>1, <1>4 DEF RootFits
  <1>8. RenamesFit'
    BY <1>1, <1>2, RenamesFitLater
  <1>9. UpdateFits(s, FALSE)'
    <2>1. ~Clashes(t, e) /\ ~Renames(t, e)
      BY <1>1 DEF Clashes, Renames, SamePath, Managed, Marks
    <2>2. Agreeable(t, e)'
      BY <1>2, <1>3 DEF Agreeable
    <2>3. cmd'.name \in {"add", "import", "re-add"} /\ t \in DOMAIN infos' /\ i = infos'[t]
      BY <1>1, <1>2, <1>3
    <2> QED
      BY <1>1, <1>s, <2>1, <2>2, <2>3, SwapFits
  <1>10. OpsFit'
    BY <1>1, <1>9, OneOp
  <1> QED
    BY <1>6, <1>7, <1>8, <1>10

LEMMA ReAddDirKept ==
    ASSUME LifecycleAssumption, Typed, Phases, KeptInv, ReAddDir
    PROVE  KeptInv'
  <1> SUFFICES ASSUME Bound' PROVE Kept' /\ DirsFit' /\ RootFits' /\ OpsFit' /\ RenamesFit' /\ Emptied'
    BY DEF KeptInv
  <1>1. /\ pc = "re-add" /\ cmd' = cmd /\ renames' = renames /\ UNCHANGED <<dest, src, world, root>>
    BY ReAddDirShape
  <1>2. cmd # NoCommand /\ cmd.name = "re-add" /\ renames = <<>> /\ ops = <<>>
    BY <1>1, CommandThere DEF Phases
  <1>3. PICK d \in dirs :
          \/ UNCHANGED <<ops, renames, infos, agreed, said>>
          \/ \E fresh \in SUBSET Fresh(d), won \in {"new", "old"} :
               /\ ops' = DirUpdates(d, fresh, won)
               /\ infos' = [t \in DOMAIN infos \cup fresh |-> IF t \in fresh THEN dest[t] ELSE infos[t]]
               /\ agreed' = agreed \cup Gone(d)
               /\ said' = [said EXCEPT !.clash = @ \/ \E t \in fresh : Clashes(t, Sought(t))]
    BY ReAddDirShape
  <1>4. CASE UNCHANGED <<ops, renames, infos, agreed, said>>
    <2>1. Steady
      BY <1>1, <1>2, <1>4 DEF Steady
    <2> QED
      BY <1>4, <2>1, SteadyKeptInv DEF KeptInv
  <1>5. ASSUME NEW fresh \in SUBSET Fresh(d), NEW won \in {"new", "old"},
               ops' = DirUpdates(d, fresh, won),
               infos' = [t \in DOMAIN infos \cup fresh |-> IF t \in fresh THEN dest[t] ELSE infos[t]],
               agreed' = agreed \cup Gone(d),
               said' = [said EXCEPT !.clash = @ \/ \E t \in fresh : Clashes(t, Sought(t))]
        PROVE  Kept' /\ DirsFit' /\ RootFits' /\ OpsFit' /\ RenamesFit' /\ Emptied'
    <2>1. ~said.clash /\ \A t \in fresh : ~Clashes(t, Sought(t))
      <3>1. (\E t \in fresh : Clashes(t, Sought(t))) \in BOOLEAN
        OBVIOUS
      <3>2. said'.clash <=> said.clash \/ \E t \in fresh : Clashes(t, Sought(t))
        BY <1>5, <3>1, SaidTyped
      <3> QED
        BY <3>2 DEF Bound
    <2>2. RootFits
      BY <1>1, <2>1 DEF Bound, KeptInv
    <2>3. Steady
      <3>1. \A t \in DOMAIN infos : t \in DOMAIN infos' /\ infos'[t] = infos[t]
        BY <1>2, <1>5, <2>2 DEF RootFits
      <3> QED
        BY <1>1, <1>2, <1>5, <2>1, <3>1 DEF Steady
    <2>4. Kept' /\ DirsFit' /\ Emptied'
      BY <2>3, SteadyKept
    <2>5. RootFits'
      BY <1>1, <1>2, <1>5, <2>2 DEF RootFits
    <2>6. RenamesFit'
      BY <1>1, <1>2, RenamesFitLater
    <2>7. fresh \subseteq Targets /\ Gone(d) \subseteq Targets
      BY DEF Fresh, Gone, Children, InSource, Files
    <2>8. \A t \in fresh : t \in DOMAIN infos' /\ infos'[t] = dest[t]
      BY <1>5
    <2>9. ASSUME NEW t \in fresh, NEW e, e = Sought(t)
          PROVE  e.kind = "dir" => e = DirOf(t)'
      BY <1>1, <1>2, <2>8, <2>9 DEF DirOf, Sought
    <2>10. ASSUME NEW u \in Updates, DirUpdate(u, d, fresh, won)
           PROVE  UpdateFits(u, FALSE)'
      <3>1. ASSUME NEW t \in fresh, ~Renames(t, Sought(t)), u = Swap(t, dest[t], Sought(t), won)
            PROVE  UpdateFits(u, FALSE)'
        <4>i. PICK i : i = dest[t]
          OBVIOUS
        <4>e. PICK e : e = Sought(t)
          OBVIOUS
        <4>1. t \in Targets /\ i \in Dest /\ e \in Source /\ e.of = t /\ (e.kind = "dir" <=> i.type = "dir")
          BY <2>7, <4>i, <4>e, SoughtFacts
        <4>2. Agreeable(t, e)'
          BY <1>1, <1>2 DEF Agreeable
        <4>3. t \in DOMAIN infos' /\ i = infos'[t] /\ (e.kind = "dir" => e = DirOf(t)')
          BY <2>8, <2>9, <4>i, <4>e
        <4>4. ~Clashes(t, e) /\ ~Renames(t, e) /\ u = Swap(t, i, e, won)
          BY <2>1, <3>1, <4>i, <4>e
        <4> QED
          BY <1>1, <1>2, <4>1, <4>2, <4>3, <4>4, SwapFits
      <3>2. ASSUME Len(u) = 1, u[1].do = "keep" PROVE UpdateFits(u, FALSE)'
        BY <3>2, UpdateDomain, KeepFits
      <3>3. ASSUME NEW t \in fresh, Renames(t, Sought(t)), u = <<Rename(root[t], Sought(t))>>
            PROVE  UpdateFits(u, FALSE)'
        <4>r. PICK r : r = root[t]
          OBVIOUS
        <4>e. PICK e : e = Sought(t)
          OBVIOUS
        <4>1. t \in Targets /\ e.of = t /\ (e.kind = "dir" <=> dest[t].type = "dir")
          BY <2>7, <4>e, SoughtFacts
        <4>2. IsDir(t) /\ e.kind = "dir"
          BY <3>3, <4>e DEF Renames
        <4>3. RenameFits(r, e)'
          <5>1. IsDir(t)'
            BY <1>1, <4>2 DEF IsDir
          <5>2. e = DirOf(t)' /\ infos'[t].type = "dir" /\ t \in DOMAIN infos'
            BY <2>8, <2>9, <4>1, <4>2, <4>e
          <5> QED
            BY <1>1, <1>2, <4>1, <4>r, <5>1, <5>2 DEF RenameFits
        <4>4. Rename(r, e).do = "rename" /\ Rename(r, e).e = r /\ Rename(r, e).to = e
          BY DEF Rename
        <4>5. DOMAIN u = {1} /\ u[1] = Rename(r, e)
          BY <3>3, <4>r, <4>e
        <4> QED
          BY <4>3, <4>4, <4>5 DEF UpdateFits, OpFits
      <3>4. ASSUME NEW t \in Gone(d), u = <<Drop(root[t])>> PROVE UpdateFits(u, FALSE)'
        <4>r. PICK r : r = root[t]
          OBVIOUS
        <4>1. t \in Targets /\ r.of = t /\ root'[t] = r
          BY <1>1, <2>7, <4>r DEF Typed, CommandTyped
        <4>2. ~IsDir(t)' /\ dest'[t] = Nothing /\ t \in agreed' \ world'.ignored
          BY <1>1, <1>5 DEF Gone, InSource, Files, IsDir
        <4>3. Drop(r).do = "remove" /\ Drop(r).e = r
          BY DEF Drop
        <4>4. DOMAIN u = {1} /\ u[1] = Drop(r)
          BY <3>4, <4>r
        <4>5. DropFits(u, 1, FALSE)'
          BY <1>1, <1>2, <4>1, <4>2, <4>3, <4>4 DEF DropFits
        <4>6. OpFits(u, 1, FALSE)'
          BY <4>3, <4>4, <4>5 DEF OpFits
        <4> QED
          BY <4>4, <4>6 DEF UpdateFits
      <3> QED
        BY <2>10, <3>1, <3>2, <3>3, <3>4 DEF DirUpdate
    <2>11. OpsFit'
      <3> DEFINE s == DirUpdates(d, fresh, won)
      <3>1. s \in Seq(Updates) /\ \A k \in DOMAIN s : DirUpdate(s[k], d, fresh, won)
        BY ReAddDirFacts
      <3> HIDE DEF s
      <3>2. \A k \in DOMAIN s : s[k] \in Updates
        BY <3>1, ElementOfSeq, LenProperties
      <3>3. ASSUME NEW k \in DOMAIN s, NEW u, u = s[k] PROVE UpdateFits(u, FALSE)'
        BY <2>10, <3>1, <3>2, <3>3
      <3>4. ops' = s
        BY <1>5 DEF s
      <3> QED
        BY <3>3, <3>4, OpsFitLater
    <2> QED
      BY <2>4, <2>5, <2>6, <2>11
  <1> QED
    BY <1>3, <1>4, <1>5

LEMMA LeaveKept ==
    ASSUME LifecycleAssumption, Typed, Phases, KeptInv, Leave
    PROVE  KeptInv'
  <1>t. PICK t : t = Head(todo)
    OBVIOUS
  <1>1. /\ pc = "ask" /\ cmd.name \in {"forget", "destroy"} /\ t \in Targets
        /\ UNCHANGED <<dest, src, world, root, infos, renames>>
        /\ cmd' # NoCommand /\ cmd'.name = cmd.name /\ cmd'.remove = cmd.remove
        /\ said'.clash = said.clash
        /\ \/ ops' = ops /\ agreed' = agreed
           \/ ops' = <<Leaving(t)>> /\ agreed' = agreed \cup {t}
    BY <1>t, LeaveShape
  <1>2. cmd # NoCommand /\ cmd \in CommandLines
    BY <1>1, CommandThere
  <1>3. cmd'.exact = cmd.exact
    <2>1. cmd' = cmd \/ \E f : cmd' = [cmd EXCEPT !.force = f]
      BY Zenon DEF Leave
    <2> QED
      BY <1>2, <2>1 DEF CommandLines
  <1>4. Steady
    BY <1>1, <1>2, <1>3 DEF Steady
  <1>5. CASE ops' = ops /\ agreed' = agreed
    BY <1>1, <1>4, <1>5, SteadyKeptInv
  <1>6. CASE ops' = <<Leaving(t)>> /\ agreed' = agreed \cup {t}
    <2> SUFFICES ASSUME Bound' PROVE Kept' /\ DirsFit' /\ RootFits' /\ OpsFit' /\ RenamesFit' /\ Emptied'
      BY DEF KeptInv
    <2>1. Bound /\ Kept' /\ DirsFit' /\ Emptied'
      BY <1>4, SteadyKept
    <2>2. RootFits /\ renames = <<>>
      BY <1>1, <2>1 DEF KeptInv, Phases
    <2>3. RootFits'
      BY <1>1, <2>2 DEF RootFits
    <2>4. RenamesFit'
      BY <1>1, <2>2, RenamesFitLater
    <2>r. PICK r : r = root[t]
      OBVIOUS
    <2>u. PICK u : u = Leaving(t)
      OBVIOUS
    <2>5. r.of = t /\ root'[t] = r /\ t \in agreed'
      BY <1>1, <1>6, <2>r DEF Typed, CommandTyped
    <2>6. /\ Drop(r).do = "remove" /\ Drop(r).e = r
          /\ Delete(t).do = "delete" /\ Destroy(t).do = "destroy"
      BY DEF Drop, Delete, Destroy
    <2>7. CASE cmd.name = "forget" /\ u = <<Drop(r), Delete(t)>>
      <3>1. DOMAIN u = {1, 2} /\ u[1] = Drop(r) /\ u[2] = Delete(t)
        BY <2>7
      <3>2. DropFits(u, 1, FALSE)'
        BY <1>1, <2>5, <2>6, <2>7, <3>1 DEF DropFits
      <3>3. OpFits(u, 1, FALSE)'
        BY <2>6, <3>1, <3>2 DEF OpFits
      <3>4. OpFits(u, 2, FALSE)'
        BY <2>6, <3>1 DEF OpFits
      <3> QED
        BY <1>6, <2>1, <2>3, <2>4, <2>u, <3>1, <3>3, <3>4, OneOp DEF UpdateFits
    <2>8. CASE cmd.name = "destroy" /\ u = <<Destroy(t), Drop(r), Delete(t)>>
      <3>1. DOMAIN u = {1, 2, 3} /\ u[1] = Destroy(t) /\ u[2] = Drop(r) /\ u[3] = Delete(t)
        BY <2>8
      <3>2. DropFits(u, 2, FALSE)'
        <4>1. 2 > 1 /\ u[2 - 1] = Destroy(t)
          BY <3>1
        <4> QED
          BY <1>1, <2>5, <2>6, <2>8, <3>1, <4>1 DEF DropFits
      <3>3. OpFits(u, 1, FALSE)'
        BY <1>1, <2>6, <2>8, <3>1 DEF OpFits
      <3>4. OpFits(u, 2, FALSE)'
        BY <2>6, <3>1, <3>2 DEF OpFits
      <3>5. OpFits(u, 3, FALSE)'
        BY <2>6, <3>1 DEF OpFits
      <3> QED
        BY <1>6, <2>1, <2>3, <2>4, <2>u, <3>1, <3>3, <3>4, <3>5, OneOp DEF UpdateFits
    <2>9. CASE cmd.name = "destroy" /\ u = <<Destroy(t), Delete(t)>>
      <3>1. DOMAIN u = {1, 2} /\ u[1] = Destroy(t) /\ u[2] = Delete(t)
        BY <2>9
      <3>2. OpFits(u, 1, FALSE)'
        BY <1>1, <2>6, <2>9, <3>1 DEF OpFits
      <3>3. OpFits(u, 2, FALSE)'
        BY <2>6, <3>1 DEF OpFits
      <3> QED
        BY <1>6, <2>1, <2>3, <2>4, <2>u, <3>1, <3>2, <3>3, OneOp DEF UpdateFits
    <2> QED
      BY <1>1, <2>7, <2>8, <2>9, <2>r, <2>u, LeavingShapes
  <1> QED
    BY <1>1, <1>5, <1>6

-----------------------------------------------------------------------------
(* One operation.                                                          *)

LEMMA NameFacts ==
    /\ \A x, y : SameName(x, y) => SameName(y, x) /\ x.of = y.of
    /\ \A x, y, z : SameName(x, y) /\ SameName(y, z) => SameName(x, z)
  BY DEF SameName

\* What a removal takes away: the entry, and what is below it where a directory
\* of its name is.
LEMMA WithoutFacts ==
    ASSUME NEW e, NEW x \in src
    PROVE  \/ x \in Without(src, e)
           \/ SameName(x, e)
           \/ x.of \in Below(e.of) /\ \E y \in src : y.kind = "dir" /\ SameName(y, e)
  BY DEF Without

LEMMA DropKeeps ==
    ASSUME LifecycleAssumption, Typed, Kept, DirsFit, RootFits, Emptied,
           NEW u, NEW e, e = u[1].e, DropFits(u, 1, TRUE)
    PROVE  /\ \A t \in Targets : Managed(root[t]) =>
                Intended(t) \/ \E x \in Without(src, e) : x.of = t /\ Agreeable(t, x)
           /\ cmd.name = "destroy" =>
                \A t \in Targets : Managed(root[t]) => dest[t] = Nothing \/ \E x \in Without(src, e) : x.of = t
  <1>1. /\ e.of \in Targets /\ e = root[e.of]
        /\ \/ cmd.name = "forget" /\ e.of \in agreed
           \/ /\ cmd.name = "destroy" /\ e.of \in agreed
              /\ \A v \in Targets : v = e.of \/ v \in Below(e.of) => dest[v] = Nothing
           \/ /\ cmd.name = "re-add" /\ e.of \in agreed \ world.ignored
              /\ ~IsDir(e.of) /\ dest[e.of] = Nothing
           \/ /\ cmd.name \notin {"forget", "destroy"} /\ Managed(e) /\ e.of \in DOMAIN infos
              /\ IsDir(e.of) => infos[e.of].type # "dir"
              /\ infos[e.of].type = "dir" => ~SameName(DirOf(e.of), e)
              /\ Replaced(e)
    BY DEF DropFits
  <1>2. ASSUME NEW t \in Targets, Managed(root[t])
        PROVE  Intended(t) \/ \E x \in Without(src, e) : x.of = t /\ Agreeable(t, x)
    <2>1. SUFFICES ASSUME NEW x \in src, x.of = t, Agreeable(t, x), x \notin Without(src, e)
                   PROVE  Intended(t) \/ \E z \in Without(src, e) : z.of = t /\ Agreeable(t, z)
      BY <1>2 DEF Kept
    <2>2. t = e.of \/ (t \in Below(e.of) /\ \E y \in src : y.kind = "dir" /\ SameName(y, e))
      BY <2>1, WithoutFacts, NameFacts
    <2>3. CASE cmd.name \in {"forget", "destroy"} /\ e.of \in agreed
      BY <2>2, <2>3 DEF Intended
    <2>4. CASE /\ cmd.name = "re-add" /\ e.of \in agreed \ world.ignored
               /\ ~IsDir(e.of) /\ dest[e.of] = Nothing
      <3>1. t = e.of => Intended(t)
        BY <2>4 DEF Intended
      <3>2. ASSUME NEW y \in src, y.kind = "dir", SameName(y, e)
            PROVE  FALSE
        <4>1. y.of = e.of /\ y # root[e.of]
          BY <2>4, <3>2, NameFacts DEF IsDir
        <4>2. e.of \in DOMAIN infos /\ infos[e.of].type = "dir"
          BY <2>4, <3>2, <4>1 DEF DirsFit
        <4>3. infos[e.of] = Nothing
          BY <2>4, <4>2 DEF RootFits
        <4> QED
          BY <4>2, <4>3, DestFacts
      <3> QED
        BY <2>2, <3>1, <3>2
    <2>5. CASE /\ Managed(e) /\ e.of \in DOMAIN infos
               /\ IsDir(e.of) => infos[e.of].type # "dir"
               /\ infos[e.of].type = "dir" => ~SameName(DirOf(e.of), e)
               /\ Replaced(e)
      <3>1. CASE t = e.of
        <4>1. PICK z \in src : z.of = e.of /\ ~SameName(z, e) /\ Agreeable(e.of, z)
          BY <2>5 DEF Replaced
        <4>2. z.of \notin Below(e.of)
          BY <1>1, <4>1, TreeFacts
        <4> QED
          BY <3>1, <4>1, <4>2, WithoutFacts
      <3>2. ASSUME NEW y \in src, y.kind = "dir", SameName(y, e), t \in Below(e.of)
            PROVE  Intended(t)
        <4>1. y.of = e.of /\ e.of \notin world.ignored
          BY <1>1, <2>5, <3>2, NameFacts DEF RootFits
        <4>2. y = root[e.of] \/ (infos[e.of].type = "dir" /\ y = DirOf(e.of))
          BY <3>2, <4>1 DEF DirsFit
        <4>3. infos[e.of].type # "dir"
          BY <2>5, <3>2, <4>2 DEF IsDir
        <4> QED
          BY <2>5, <3>2, <4>3 DEF Intended
      <3> QED
        BY <2>2, <3>1, <3>2
    <2> QED
      BY <1>1, <2>3, <2>4, <2>5
  <1>3. ASSUME cmd.name = "destroy", NEW t \in Targets, Managed(root[t])
        PROVE  dest[t] = Nothing \/ \E x \in Without(src, e) : x.of = t
    <2>1. \A v \in Targets : v = e.of \/ v \in Below(e.of) => dest[v] = Nothing
      BY <1>1, <1>3
    <2>2. SUFFICES ASSUME NEW x \in src, x.of = t, x \notin Without(src, e)
                   PROVE  dest[t] = Nothing
      BY <1>3 DEF Emptied
    <2>3. t = e.of \/ t \in Below(e.of)
      BY <2>2, WithoutFacts, NameFacts
    <2> QED
      BY <2>1, <2>3
  <1> QED
    BY <1>2, <1>3

\* What a write leaves.
LEMMA AfterWrite ==
    ASSUME NEW op, op.do = "write"
    PROVE  \/ op.e.kind = "dir" /\ (\E x \in src : SamePath(x, op.e)) /\ After(op) = src
           \/ ~(op.e.kind = "dir" /\ \E x \in src : SamePath(x, op.e)) /\ After(op) = Without(src, op.e) \cup {op.e}
  BY Zenon DEF After

LEMMA WriteKeeps ==
    ASSUME LifecycleAssumption, Typed, Kept, DirsFit, NEW op, op.do = "write", NEW e, e = op.e, e \in Source, WriteFits(e)
    PROVE  /\ \A t \in Targets : Managed(root[t]) =>
                Intended(t) \/ \E x \in After(op) : x.of = t /\ Agreeable(t, x)
           /\ \A x \in After(op) : x.kind = "dir" =>
                \/ x.of \in world.ignored \/ x = root[x.of]
                \/ x.of \in DOMAIN infos /\ infos[x.of].type = "dir" /\ x = DirOf(x.of)
           /\ \E x \in After(op) : x.of = e.of /\ SameName(x, e) /\ Agreeable(e.of, x)
  <1>1. CASE e.kind = "dir" /\ (\E x \in src : SamePath(x, e)) /\ After(op) = src
    <2>1. PICK x \in src : SamePath(x, e)
      BY <1>1
    <2>2. x.kind = "dir" /\ SameName(x, e) /\ x.of = e.of
      BY <1>1, <2>1, NameFacts DEF SamePath
    <2>3. Agreeable(e.of, x)
      BY <2>2 DEF Agreeable
    <2> QED
      BY <1>1, <2>2, <2>3 DEF Kept, DirsFit
  <1>2. CASE ~(e.kind = "dir" /\ \E x \in src : SamePath(x, e)) /\ After(op) = Without(src, e) \cup {e}
    <2>1. Agreeable(e.of, e) /\ SameName(e, e)
      BY DEF WriteFits, SameName
    <2>2. ASSUME NEW t \in Targets, Managed(root[t])
          PROVE  Intended(t) \/ \E x \in After(op) : x.of = t /\ Agreeable(t, x)
      <3>1. SUFFICES ASSUME NEW x \in src, x.of = t, Agreeable(t, x), x \notin Without(src, e)
                     PROVE  Intended(t) \/ t = e.of
        BY <1>2, <2>1, <2>2 DEF Kept
      <3>2. t = e.of \/ (t \in Below(e.of) /\ \E y \in src : y.kind = "dir" /\ SameName(y, e))
        BY <3>1, WithoutFacts, NameFacts
      <3>3. ASSUME NEW y \in src, y.kind = "dir", SameName(y, e), t \in Below(e.of)
            PROVE  Intended(t)
        <4>1. e.kind # "dir"
          BY <1>2, <3>3 DEF SamePath
        <4> QED
          BY <3>3, <4>1 DEF WriteFits, Intended
      <3> QED
        BY <3>2, <3>3
    <2>3. ASSUME NEW x \in After(op), x.kind = "dir"
          PROVE  \/ x.of \in world.ignored \/ x = root[x.of]
                 \/ x.of \in DOMAIN infos /\ infos[x.of].type = "dir" /\ x = DirOf(x.of)
      <3>1. x \in src \/ x = e
        BY <1>2 DEF Without
      <3> QED
        BY <2>3, <3>1 DEF DirsFit, WriteFits
    <2> QED
      BY <1>2, <2>1, <2>2, <2>3
  <1> QED
    BY <1>1, <1>2, AfterWrite

LEMMA RenameKeeps ==
    ASSUME LifecycleAssumption, Typed, Kept, DirsFit, NEW e, NEW f \in Source, RenameFits(e, f)
    PROVE  /\ \A t \in Targets : Managed(root[t]) =>
                Intended(t) \/ \E x \in Renamed(src, e, f) : x.of = t /\ Agreeable(t, x)
           /\ \A x \in Renamed(src, e, f) : x.kind = "dir" =>
                \/ x.of \in world.ignored \/ x = root[x.of]
                \/ x.of \in DOMAIN infos /\ infos[x.of].type = "dir" /\ x = DirOf(x.of)
  <1>1. f.of \in Targets /\ f.of \in DOMAIN infos /\ infos[f.of].type = "dir" /\ f = DirOf(f.of) /\ e.of = f.of
    BY EntryFacts DEF RenameFits, Typed, CommandTyped
  <1>2. f.kind = "dir"
    <2>1. infos[f.of] \in Dest
      BY <1>1 DEF Typed, PlanTyped
    <2> QED
      BY <1>1, <2>1, NewFacts DEF DirOf
  <1>3. Agreeable(f.of, f)
    BY <1>2 DEF Agreeable
  <1>4. ASSUME NEW x \in src PROVE x \in Renamed(src, e, f) \/ x.of = f.of
    BY <1>1 DEF Renamed, SamePath, SameName
  <1>5. f \in Renamed(src, e, f) /\ Renamed(src, e, f) \subseteq src \cup {f}
    BY DEF Renamed
  <1> QED
    BY <1>1, <1>3, <1>4, <1>5 DEF Kept, DirsFit

\* What does not change as an operation is done.
Doing ==
    /\ UNCHANGED <<world, cmd, root, infos, agreed, said>>
    /\ \A t \in Targets : dest[t] = Nothing => dest'[t] = Nothing

LEMMA DoingFits ==
    ASSUME Doing
    PROVE  /\ \A t, x : Agreeable(t, x)' <=> Agreeable(t, x)
           /\ \A t : Intended(t)' <=> Intended(t)
           /\ \A t : DirOf(t)' = DirOf(t) /\ (IsDir(t)' <=> IsDir(t))
           /\ \A e : WriteFits(e)' <=> WriteFits(e)
           /\ \A e, f : RenameFits(e, f)' <=> RenameFits(e, f)
           /\ \A x : UpdateFits(x, FALSE) => UpdateFits(x, FALSE)'
  <1>1. \A t, x : Agreeable(t, x)' <=> Agreeable(t, x)
    BY DEF Doing, Agreeable, IsDir
  <1>2. \A t : Intended(t)' <=> Intended(t)
    BY DEF Doing, Intended
  <1>3. \A t : DirOf(t)' = DirOf(t) /\ (IsDir(t)' <=> IsDir(t))
    BY DEF Doing, DirOf, AddOptions, IsDir
  <1>4. \A e : WriteFits(e)' <=> WriteFits(e)
    BY <1>1, <1>3 DEF Doing, WriteFits
  <1>5. \A e, f : RenameFits(e, f)' <=> RenameFits(e, f)
    BY <1>3 DEF Doing, RenameFits
  <1>6. ASSUME NEW x, NEW j, DropFits(x, j, FALSE) PROVE DropFits(x, j, FALSE)'
    <2>e. PICK e : e = x[j].e
      OBVIOUS
    <2>1. /\ e.of \in Targets /\ e = root[e.of]
          /\ \/ cmd.name = "forget" /\ e.of \in agreed
             \/ /\ cmd.name = "destroy" /\ e.of \in agreed
                /\ \/ \A v \in Targets : v = e.of \/ v \in Below(e.of) => dest[v] = Nothing
                   \/ j > 1 /\ x[j - 1] = Destroy(e.of)
             \/ /\ cmd.name = "re-add" /\ e.of \in agreed \ world.ignored
                /\ ~IsDir(e.of) /\ dest[e.of] = Nothing
             \/ /\ cmd.name \notin {"forget", "destroy"} /\ Managed(e) /\ e.of \in DOMAIN infos
                /\ IsDir(e.of) => infos[e.of].type # "dir"
                /\ infos[e.of].type = "dir" => ~SameName(DirOf(e.of), e)
                /\ j > 1 /\ x[j - 1].do = "write" /\ x[j - 1].e.of = e.of
                /\ ~SameName(x[j - 1].e, e)
      BY <1>6, <2>e DEF DropFits
    <2>2. UNCHANGED <<world, cmd, root, infos, agreed>> /\ \A t \in Targets : dest[t] = Nothing => dest'[t] = Nothing
      BY DEF Doing
    <2>3. DirOf(e.of)' = DirOf(e.of) /\ (IsDir(e.of)' <=> IsDir(e.of))
      BY <1>3
    <2>4. CASE cmd.name = "forget" /\ e.of \in agreed
      BY <2>1, <2>2, <2>4, <2>e DEF DropFits
    <2>5. CASE /\ cmd.name = "destroy" /\ e.of \in agreed
               /\ \/ \A v \in Targets : v = e.of \/ v \in Below(e.of) => dest[v] = Nothing
                  \/ j > 1 /\ x[j - 1] = Destroy(e.of)
      BY <2>1, <2>2, <2>5, <2>e DEF DropFits
    <2>6. CASE /\ cmd.name = "re-add" /\ e.of \in agreed \ world.ignored
               /\ ~IsDir(e.of) /\ dest[e.of] = Nothing
      BY <2>1, <2>2, <2>3, <2>6, <2>e DEF DropFits
    <2>7. CASE /\ cmd.name \notin {"forget", "destroy"} /\ Managed(e) /\ e.of \in DOMAIN infos
               /\ IsDir(e.of) => infos[e.of].type # "dir"
               /\ infos[e.of].type = "dir" => ~SameName(DirOf(e.of), e)
               /\ j > 1 /\ x[j - 1].do = "write" /\ x[j - 1].e.of = e.of
               /\ ~SameName(x[j - 1].e, e)
      BY <2>1, <2>2, <2>3, <2>7, <2>e DEF DropFits
    <2> QED
      BY <2>1, <2>4, <2>5, <2>6, <2>7
  <1>7. ASSUME NEW x, UpdateFits(x, FALSE) PROVE UpdateFits(x, FALSE)'
    <2> SUFFICES ASSUME NEW j \in DOMAIN x PROVE OpFits(x, j, FALSE)'
      BY DEF UpdateFits
    <2>1. OpFits(x, j, FALSE)
      BY <1>7 DEF UpdateFits
    <2>2. cmd' = cmd
      BY DEF Doing
    <2> QED
      BY <1>4, <1>5, <1>6, <2>1, <2>2 DEF OpFits
  <1> QED
    BY <1>1, <1>2, <1>3, <1>4, <1>5, <1>7

\* What is left of an update whose first operation was done.
LEMMA RestFits ==
    ASSUME Doing, NEW u, UpdateFits(u, TRUE), NEW op, op = u[1],
           NEW rest, NEW m \in Nat, DOMAIN rest = 1..m,
           \A j \in DOMAIN rest : j \in Nat \ {0} /\ j + 1 \in DOMAIN u /\ rest[j] = u[j + 1],
           op.do = "destroy" => \A v \in Targets : v = op.e.of \/ v \in Below(op.e.of) => dest'[v] = Nothing,
           op.do = "write" => \E x \in src' : x.of = op.e.of /\ SameName(x, op.e) /\ Agreeable(op.e.of, x)
    PROVE  UpdateFits(rest, TRUE)'
  <1> SUFFICES ASSUME NEW j \in DOMAIN rest PROVE OpFits(rest, j, TRUE)'
    BY DEF UpdateFits
  <1>1. j \in Nat \ {0} /\ j + 1 \in DOMAIN u /\ rest[j] = u[j + 1]
    OBVIOUS
  <1>2. OpFits(u, j + 1, TRUE)
    BY <1>1 DEF UpdateFits
  <1>3. ASSUME DropFits(u, j + 1, TRUE) PROVE DropFits(rest, j, TRUE)'
    <2>e. PICK e : e = rest[j].e
      OBVIOUS
    <2>0. e = u[j + 1].e /\ j + 1 # 1 /\ (j + 1) - 1 = j
      BY <1>1, <2>e
    <2>1. /\ e.of \in Targets /\ e = root[e.of]
          /\ \/ cmd.name = "forget" /\ e.of \in agreed
             \/ /\ cmd.name = "destroy" /\ e.of \in agreed
                /\ \/ \A v \in Targets : v = e.of \/ v \in Below(e.of) => dest[v] = Nothing
                   \/ u[j] = Destroy(e.of)
             \/ /\ cmd.name = "re-add" /\ e.of \in agreed \ world.ignored
                /\ ~IsDir(e.of) /\ dest[e.of] = Nothing
             \/ /\ cmd.name \notin {"forget", "destroy"} /\ Managed(e) /\ e.of \in DOMAIN infos
                /\ IsDir(e.of) => infos[e.of].type # "dir"
                /\ infos[e.of].type = "dir" => ~SameName(DirOf(e.of), e)
                /\ u[j].do = "write" /\ u[j].e.of = e.of /\ ~SameName(u[j].e, e)
      BY <1>3, <2>0 DEF DropFits
    <2>2. UNCHANGED <<world, cmd, root, infos, agreed>> /\ \A t \in Targets : dest[t] = Nothing => dest'[t] = Nothing
      BY DEF Doing
    <2>3. DirOf(e.of)' = DirOf(e.of) /\ (IsDir(e.of)' <=> IsDir(e.of))
      BY DoingFits
    <2>4. CASE cmd.name = "forget" /\ e.of \in agreed
      BY <2>1, <2>2, <2>4, <2>e DEF DropFits
    <2>5. CASE j = 1
      <3>1. u[j] = op
        BY <2>5
      <3>2. CASE /\ cmd.name = "destroy" /\ e.of \in agreed
                 /\ \/ \A v \in Targets : v = e.of \/ v \in Below(e.of) => dest[v] = Nothing
                    \/ u[j] = Destroy(e.of)
        <4>1. \A v \in Targets : v = e.of \/ v \in Below(e.of) => dest'[v] = Nothing
          <5>1. op = Destroy(e.of) => op.do = "destroy" /\ op.e.of = e.of
            BY EntryFacts DEF Destroy
          <5> QED
            BY <2>2, <3>1, <3>2, <5>1
        <4> QED
          BY <2>1, <2>2, <2>e, <3>2, <4>1 DEF DropFits
      <3>3. CASE /\ cmd.name \notin {"forget", "destroy"} /\ Managed(e) /\ e.of \in DOMAIN infos
                 /\ IsDir(e.of) => infos[e.of].type # "dir"
                 /\ infos[e.of].type = "dir" => ~SameName(DirOf(e.of), e)
                 /\ u[j].do = "write" /\ u[j].e.of = e.of /\ ~SameName(u[j].e, e)
        <4>1. PICK x \in src' : x.of = e.of /\ SameName(x, op.e) /\ Agreeable(e.of, x)
          BY <3>1, <3>3
        <4>2. ~SameName(x, e)
          BY <3>1, <3>3, <4>1, NameFacts
        <4>3. Agreeable(e.of, x)'
          BY <4>1, DoingFits
        <4>4. Replaced(e)'
          BY <4>1, <4>2, <4>3 DEF Replaced
        <4> QED
          BY <2>1, <2>2, <2>3, <2>5, <2>e, <3>3, <4>4 DEF DropFits
      <3>4. CASE /\ cmd.name = "re-add" /\ e.of \in agreed \ world.ignored
                 /\ ~IsDir(e.of) /\ dest[e.of] = Nothing
        BY <2>1, <2>2, <2>3, <2>e, <3>4 DEF DropFits
      <3> QED
        BY <2>1, <2>4, <3>2, <3>3, <3>4
    <2>6. CASE j # 1
      <3>1. j > 1 /\ rest[j - 1] = u[j]
        <4>1. j - 1 \in Nat \ {0} /\ (j - 1) + 1 = j
          BY <1>1, <2>6
        <4>2. j - 1 \in DOMAIN rest
          BY <1>1, <2>6
        <4> QED
          BY <1>1, <2>6, <4>1, <4>2
      <3>2. CASE /\ cmd.name = "destroy" /\ e.of \in agreed
                 /\ \/ \A v \in Targets : v = e.of \/ v \in Below(e.of) => dest[v] = Nothing
                    \/ u[j] = Destroy(e.of)
        BY <2>1, <2>2, <2>e, <3>1, <3>2 DEF DropFits
      <3>3. CASE /\ cmd.name \notin {"forget", "destroy"} /\ Managed(e) /\ e.of \in DOMAIN infos
                 /\ IsDir(e.of) => infos[e.of].type # "dir"
                 /\ infos[e.of].type = "dir" => ~SameName(DirOf(e.of), e)
                 /\ u[j].do = "write" /\ u[j].e.of = e.of /\ ~SameName(u[j].e, e)
        BY <2>1, <2>2, <2>3, <2>e, <3>1, <3>3 DEF DropFits
      <3>4. CASE /\ cmd.name = "re-add" /\ e.of \in agreed \ world.ignored
                 /\ ~IsDir(e.of) /\ dest[e.of] = Nothing
        BY <2>1, <2>2, <2>3, <2>e, <3>4 DEF DropFits
      <3> QED
        BY <2>1, <2>4, <3>2, <3>3, <3>4
    <2> QED
      BY <2>5, <2>6
  <1>4. cmd' = cmd
    BY DEF Doing
  <1> QED
    BY <1>1, <1>2, <1>3, <1>4, DoingFits DEF OpFits

LEMMA DoKept ==
    ASSUME LifecycleAssumption, Typed, Phases, KeptInv, Do
    PROVE  KeptInv'
  <1> SUFFICES ASSUME Bound' PROVE Kept' /\ DirsFit' /\ RootFits' /\ OpsFit' /\ RenamesFit' /\ Emptied'
    BY DEF KeptInv
  <1>u. PICK u : u = ops[1]
    OBVIOUS
  <1>o. PICK op : op = u[1]
    OBVIOUS
  <1>1. /\ pc = "do" /\ ops # <<>>
        /\ src' = After(op)
        /\ dest' = IF op.do = "destroy"
                   THEN [v \in Targets |-> IF v = op.e.of \/ v \in Below(op.e.of) THEN Nothing ELSE dest[v]]
                   ELSE dest
        /\ ops' = IF Len(ops[1]) = 1 THEN Tail(ops) ELSE [ops EXCEPT ![1] = Tail(@)]
        /\ UNCHANGED <<world, cmd, root, pc, todo, dirs, infos, news, full, renames, told, said, left>>
    <2>1. op = ops[1][1]
      BY <1>u, <1>o
    <2> QED
      BY <2>1, DoShape
  <1>2. op \in Ops /\ u \in Updates /\ 1 \in DOMAIN ops /\ 1 \in DOMAIN u
    BY <1>1, <1>u, <1>o, HeadOps
  <1>3. dest \in [Targets -> Dest]
    BY DEF Typed, StoreTyped
  <1>4. Doing
    BY <1>1, <1>3 DEF Doing, told
  <1>5. Bound
    BY <1>4 DEF Doing, Bound
  <1>6. Kept /\ DirsFit /\ RootFits /\ OpsFit /\ RenamesFit /\ Emptied /\ renames = <<>>
    BY <1>1, <1>5 DEF KeptInv, Phases
  <1>7. UpdateFits(u, TRUE)
    <2>1. UpdateFits(ops[1], 1 = 1)
      BY <1>2, <1>6 DEF OpsFit
    <2>2. (1 = 1) = TRUE
      OBVIOUS
    <2> QED
      BY <1>u, <2>1, <2>2
  <1>8. /\ op.do # "wipe"
        /\ op.do = "write" => WriteFits(op.e) /\ op.e \in Source
        /\ op.do = "rename" => RenameFits(op.e, op.to) /\ op.to \in Source
        /\ op.do = "remove" => DropFits(u, 1, TRUE)
        /\ op.do = "destroy" => cmd.name = "destroy"
    <2>1. OpFits(u, 1, TRUE)
      BY <1>2, <1>7 DEF UpdateFits
    <2> QED
      BY <1>2, <1>o, <2>1, OpsFacts DEF OpFits
  <1>9. /\ \A t \in Targets : Managed(root[t]) => Intended(t) \/ \E x \in src' : x.of = t /\ Agreeable(t, x)
        /\ \A x \in src' : x.kind = "dir" =>
             \/ x.of \in world.ignored \/ x = root[x.of]
             \/ x.of \in DOMAIN infos /\ infos[x.of].type = "dir" /\ x = DirOf(x.of)
    <2>1. CASE op.do = "write"
      BY <1>1, <1>6, <1>8, <2>1, WriteKeeps
    <2>2. CASE op.do = "rename"
      <3>1. src' = Renamed(src, op.e, op.to)
        BY <1>1, <2>2, AfterFacts
      <3> QED
        BY <1>6, <1>8, <2>2, <3>1, RenameKeeps
    <2>3. CASE op.do = "remove"
      <3>1. (src' = Without(src, op.e) \/ src' = src) /\ src' \subseteq src
        BY <1>1, <2>3, AfterFacts DEF Without
      <3>2. \A t \in Targets : Managed(root[t]) =>
              Intended(t) \/ \E x \in Without(src, op.e) : x.of = t /\ Agreeable(t, x)
        BY <1>6, <1>8, <1>o, <2>3, DropKeeps
      <3> QED
        BY <1>6, <3>1, <3>2 DEF DirsFit, Kept
    <2>4. CASE op.do \notin {"write", "rename", "remove"}
      <3>1. src' = src
        BY <1>1, <1>8, <2>4, AfterFacts
      <3> QED
        BY <1>6, <3>1 DEF Kept, DirsFit
    <2> QED
      BY <2>1, <2>2, <2>3, <2>4
  <1>10. Kept'
    BY <1>4, <1>9, DoingFits DEF Kept, Doing
  <1>11. DirsFit'
    BY <1>4, <1>9, DoingFits DEF DirsFit, Doing
  <1>12. RootFits'
    <2>1. cmd.name = "re-add" => dest' = dest
      BY <1>1, <1>8
    <2> QED
      BY <1>4, <1>6, <2>1 DEF RootFits, Doing
  <1>13. RenamesFit'
    BY <1>1, <1>6, RenamesFitLater
  <1>14. Emptied'
    <2> SUFFICES ASSUME cmd.name = "destroy", NEW t \in Targets, Managed(root[t])
                 PROVE  dest'[t] = Nothing \/ \E x \in src' : x.of = t
      BY <1>4 DEF Emptied, Doing
    <2>1. dest[t] = Nothing => dest'[t] = Nothing
      BY <1>4 DEF Doing
    <2>2. CASE op.do = "remove"
      <3>1. src' = Without(src, op.e) \/ src' = src
        BY <1>1, <2>2, AfterFacts
      <3>2. dest[t] = Nothing \/ \E x \in Without(src, op.e) : x.of = t
        BY <1>6, <1>8, <1>o, <2>2, DropKeeps
      <3>3. dest[t] = Nothing \/ \E x \in src : x.of = t
        BY <1>6 DEF Emptied
      <3> QED
        BY <2>1, <3>1, <3>2, <3>3
    <2>3. CASE op.do # "remove"
      <3>1. op.do \notin {"write", "rename"}
        BY <1>8 DEF WriteFits, RenameFits
      <3>2. src' = src
        BY <1>1, <1>8, <2>3, <3>1, AfterFacts
      <3> QED
        BY <1>6, <2>1, <3>2 DEF Emptied
    <2> QED
      BY <2>2, <2>3
  <1>15. OpsFit'
    <2>1. CASE Len(u) = 1
      <3>1. /\ ops' = Tail(ops)
            /\ \A k \in DOMAIN Tail(ops) : k + 1 \in DOMAIN ops /\ k + 1 # 1 /\ Tail(ops)[k] = ops[k + 1]
        BY <1>1, <1>u, <2>1, HeadOps
      <3> SUFFICES ASSUME NEW k \in DOMAIN ops', NEW x, x = ops'[k] PROVE UpdateFits(x, FALSE)'
        BY OpsFitLater
      <3>2. k + 1 \in DOMAIN ops /\ k + 1 # 1 /\ x = ops[k + 1]
        BY <3>1
      <3>3. UpdateFits(x, FALSE)
        BY <1>6, <3>2 DEF OpsFit
      <3> QED
        BY <1>4, <3>3, DoingFits
    <2>2. CASE Len(u) # 1
      <3>s. PICK s : s = [ops EXCEPT ![1] = Tail(@)]
        OBVIOUS
      <3>r. PICK rest : rest = Tail(u)
        OBVIOUS
      <3>1. /\ ops' = s /\ DOMAIN s = DOMAIN ops /\ s[1] = rest
            /\ \A k \in DOMAIN ops : k # 1 => s[k] = ops[k]
            /\ \E m \in Nat : DOMAIN rest = 1..m
            /\ \A j \in DOMAIN rest : j \in Nat \ {0} /\ j + 1 \in DOMAIN u /\ rest[j] = u[j + 1]
        BY <1>1, <1>u, <2>2, <3>s, <3>r, HeadOps
      <3>2. UpdateFits(rest, TRUE)'
        <4>1. op.do = "destroy" => \A v \in Targets : v = op.e.of \/ v \in Below(op.e.of) => dest'[v] = Nothing
          BY <1>1
        <4>2. op.do = "write" => \E x \in src' : x.of = op.e.of /\ SameName(x, op.e) /\ Agreeable(op.e.of, x)
          BY <1>1, <1>6, <1>8, WriteKeeps
        <4>m. PICK m \in Nat : DOMAIN rest = 1..m
          BY <3>1
        <4>3. \A j \in DOMAIN rest : j \in Nat \ {0} /\ j + 1 \in DOMAIN u /\ rest[j] = u[j + 1]
          BY <3>1
        <4> QED
          BY <1>4, <1>7, <1>o, <4>m, <4>1, <4>2, <4>3, RestFits
      <3>3. ASSUME NEW k \in DOMAIN ops, k # 1, NEW x, x = ops[k] PROVE UpdateFits(x, FALSE)'
        <4>1. UpdateFits(x, FALSE)
          BY <1>6, <3>3 DEF OpsFit
        <4> QED
          BY <1>4, <4>1, DoingFits
      <3> QED
        BY <3>1, <3>2, <3>3, OpsFitLater
    <2> QED
      BY <2>1, <2>2
  <1> QED
    BY <1>10, <1>11, <1>12, <1>13, <1>14, <1>15

LEMMA StepKept ==
    ASSUME LifecycleAssumption, Typed, Phases, KeptInv, [Next]_lifecycleVars
    PROVE  KeptInv'
  <1>1. CASE Mend
    BY <1>1 DEF Mend, KeptInv, Bound
  <1>2. CASE PlanFails \/ ReAddEnds \/ LeaveEnds \/ DoFails \/ Cut
    BY <1>2, EndsTyped, PlainKept
  <1>3. CASE PlanSkip \/ PlanRefused \/ ReAddSame \/ ReAddRefused \/ Done
    BY <1>3, PlainKept
  <1>4. CASE Start
    BY <1>4, StartKept
  <1>5. CASE PlanTarget \/ PlanEnds \/ ReAddFile \/ ReAddDir \/ Leave \/ Do
    BY <1>5, PlanTargetKept, PlanEndsKept, ReAddFileKept, ReAddDirKept, LeaveKept, DoKept
  <1>6. CASE UNCHANGED lifecycleVars
    BY <1>6, StutterKept
  <1> QED
    BY <1>1, <1>2, <1>3, <1>4, <1>5, <1>6 DEF Next

-----------------------------------------------------------------------------
(* Questions.                                                              *)

\* A question that is put after an answer of all to it is one of forget.
LEMMA AskedFinal ==
    ASSUME AllIsFinal, NEW answers, AskedAll(answers),
           \A kind \in DOMAIN answers : answers[kind] # "unasked" /\ kind \in all => kind = "forget"
    PROVE  /\ AllIsFinal'
           /\ \A kind \in all' : kind \in all \/ (kind \in DOMAIN answers /\ answers[kind] = "all")
  BY DEF AllIsFinal, AskedAll

LEMMA AskedOnce ==
    ASSUME AllIsFinal, NEW kind, NEW answer, Asked(kind, answer),
           answer # "unasked" /\ kind \in all => kind = "forget"
    PROVE  /\ AllIsFinal'
           /\ \A k \in all' : k \in all \/ (k = kind /\ answer = "all")
  <1> DEFINE answers == [k \in {kind} |-> answer]
  <1>1. DOMAIN answers = {kind} /\ answers[kind] = answer
    OBVIOUS
  <1>2. AskedAll(answers)
    BY DEF Asked
  <1> HIDE DEF answers
  <1> QED
    BY <1>1, <1>2, AskedFinal

\* The same commands, and no new answer.
LEMMA HeededOn ==
    ASSUME Heeded, AllIsFinal, pc # "idle", UNCHANGED <<all, pestered>>,
           cmd'.name = cmd.name, cmd'.prompt => cmd.prompt, cmd.force => cmd'.force
    PROVE  Heeded' /\ AllIsFinal'
  BY DEF Heeded, AllIsFinal

LEMMA HeededEnded ==
    ASSUME pc' = "idle", AllIsFinal'
    PROVE  Heeded' /\ AllIsFinal'
  BY DEF Heeded

LEMMA PlanHeeded ==
    ASSUME LifecycleAssumption, Typed, Phases, Heeded, AllIsFinal, PlanRefused \/ PlanTarget
    PROVE  Heeded' /\ AllIsFinal'
  <1> DEFINE t == Head(todo)
             e == New(t, infos[t], AddOptions)
  <1>1. PICK ad \in Answers \cup {"unasked"}, re \in {"yes", "all", "no", "quit", "unasked"} :
          /\ ad = "unasked" <=> ~AddAsks(t)
          /\ re # "unasked" => ReplaceAsks(t, e)
          /\ AskedAll([add |-> ad, replace |-> re])
          /\ cmd' = Heeding(ad, re)
    <2>1. CASE PlanRefused
      <3>1. PICK ad \in Answers \cup {"unasked"}, re \in {"no", "quit", "unasked"} :
              /\ ad = "unasked" <=> ~AddAsks(t)
              /\ re # "unasked" => ReplaceAsks(t, e)
              /\ AskedAll([add |-> ad, replace |-> re])
              /\ cmd' = Heeding(ad, re)
        BY <2>1, Zenon DEF PlanRefused
      <3> QED
        BY <3>1
    <2>2. CASE PlanTarget
      <3>1. PICK ad \in {"yes", "all", "unasked"}, re \in {"yes", "all", "unasked"} :
              /\ ad = "unasked" <=> ~AddAsks(t)
              /\ re = "unasked" <=> ~ReplaceAsks(t, e)
              /\ AskedAll([add |-> ad, replace |-> re])
              /\ cmd' = Heeding(ad, re)
        BY <2>2, Zenon DEF PlanTarget
      <3>2. ad \in Answers \cup {"unasked"}
        BY DEF Answers
      <3> QED
        BY <3>1, <3>2
    <2> QED
      BY <2>1, <2>2
  <1>2. pc = "plan" /\ cmd # NoCommand /\ cmd.prompt \in BOOLEAN /\ cmd.force \in BOOLEAN
    BY CommandThere DEF PlanRefused, PlanTarget
  <1>3. /\ cmd'.name = cmd.name
        /\ cmd'.prompt = (cmd.prompt /\ ad # "all") /\ cmd'.force = (cmd.force \/ re = "all")
    BY <1>1, <1>2, SameCommand DEF Typed, Heeding
  <1>4. /\ ad # "unasked" => cmd.name = "add" /\ cmd.prompt
        /\ re # "unasked" => cmd.name = "add" /\ ~cmd.force
    BY <1>1 DEF AddAsks, ReplaceAsks
  <1> HIDE DEF t, e
  <1>5. /\ "add" \in all => cmd.name = "add" /\ ~cmd.prompt
        /\ "replace" \in all => cmd.name = "add" /\ cmd.force
        /\ "re-add" \in all => cmd.name = "re-add" /\ ~cmd.prompt
        /\ "destroy" \in all => cmd.name = "destroy" /\ cmd.force
    BY <1>2 DEF Heeded
  <1> DEFINE answers == [add |-> ad, replace |-> re]
  <1>6. DOMAIN answers = {"add", "replace"} /\ answers["add"] = ad /\ answers["replace"] = re
    OBVIOUS
  <1>7. AskedAll(answers)
    BY <1>1
  <1> HIDE DEF answers
  <1>8. /\ AllIsFinal'
        /\ \A kind \in all' : kind \in all \/ (kind \in DOMAIN answers /\ answers[kind] = "all")
    <2>1. \A kind \in DOMAIN answers : answers[kind] # "unasked" /\ kind \in all => kind = "forget"
      BY <1>4, <1>5, <1>6
    <2> QED
      BY <1>7, <2>1, AskedFinal
  <1>9. Heeded'
    <2>1. "add" \in all' => "add" \in all \/ ad = "all"
      BY <1>6, <1>8
    <2>2. "replace" \in all' => "replace" \in all \/ re = "all"
      BY <1>6, <1>8
    <2>3. "re-add" \in all' => "re-add" \in all
      BY <1>6, <1>8
    <2>4. "destroy" \in all' => "destroy" \in all
      BY <1>6, <1>8
    <2> QED
      BY <1>2, <1>3, <1>4, <1>5, <2>1, <2>2, <2>3, <2>4 DEF Heeded
  <1> QED
    BY <1>8, <1>9

LEMMA ReAddHeeded ==
    ASSUME LifecycleAssumption, Typed, Phases, Heeded, AllIsFinal, ReAddRefused \/ ReAddFile
    PROVE  Heeded' /\ AllIsFinal'
  <1>1. PICK answer \in {"no", "quit", "yes", "all", "unasked"} :
          /\ answer # "unasked" => cmd.prompt
          /\ Asked("re-add", answer)
          /\ cmd' = IF answer = "all" THEN [cmd EXCEPT !.prompt = FALSE] ELSE cmd
    <2>1. CASE ReAddRefused
      <3>1. PICK answer \in {"no", "quit"} : Asked("re-add", answer)
        BY <2>1, Zenon DEF ReAddRefused
      <3>2. cmd.prompt /\ cmd' = cmd
        BY <2>1 DEF ReAddRefused
      <3> QED
        BY <3>1, <3>2
    <2>2. CASE ReAddFile
      <3>1. PICK answer \in {"yes", "all", "unasked"} :
               /\ answer = "unasked" <=> ~cmd.prompt
               /\ Asked("re-add", answer)
               /\ cmd' = IF answer = "all" THEN [cmd EXCEPT !.prompt = FALSE] ELSE cmd
        BY <2>2, Zenon DEF ReAddFile
      <3> QED
        BY <3>1
    <2> QED
      BY <2>1, <2>2
  <1>2. pc = "re-add"
    BY DEF ReAddRefused, ReAddFile
  <1>3. cmd.name = "re-add" /\ cmd \in CommandLines /\ cmd.prompt \in BOOLEAN
    BY <1>2, CommandThere DEF Phases
  <1>4. cmd'.name = cmd.name /\ cmd'.force = cmd.force /\ cmd'.prompt = (cmd.prompt /\ answer # "all")
    <2>1. CASE answer = "all"
      <3>1. cmd' = [cmd EXCEPT !.prompt = FALSE]
        BY <1>1, <2>1
      <3> QED
        BY <1>3, <2>1, <3>1 DEF CommandLines
    <2>2. CASE answer # "all"
      BY <1>1, <1>3, <2>2
    <2> QED
      BY <2>1, <2>2
  <1>5. /\ "add" \in all => cmd.name = "add" /\ ~cmd.prompt
        /\ "replace" \in all => cmd.name = "add" /\ cmd.force
        /\ "re-add" \in all => cmd.name = "re-add" /\ ~cmd.prompt
        /\ "destroy" \in all => cmd.name = "destroy" /\ cmd.force
    BY <1>2 DEF Heeded
  <1>6. AllIsFinal' /\ \A k \in all' : k \in all \/ (k = "re-add" /\ answer = "all")
    BY <1>1, <1>5, AskedOnce
  <1>7. Heeded'
    BY <1>3, <1>4, <1>5, <1>6 DEF Heeded
  <1> QED
    BY <1>6, <1>7

LEMMA LeaveHeeded ==
    ASSUME LifecycleAssumption, Typed, Phases, Heeded, AllIsFinal, Leave
    PROVE  Heeded' /\ AllIsFinal'
  <1>1. pc = "ask"
    BY DEF Leave
  <1>2. cmd.name \in {"forget", "destroy"} /\ cmd \in CommandLines /\ cmd.force \in BOOLEAN
    BY <1>1, CommandThere DEF Phases
  <1>3. /\ "add" \in all => cmd.name = "add" /\ ~cmd.prompt
        /\ "replace" \in all => cmd.name = "add" /\ cmd.force
        /\ "re-add" \in all => cmd.name = "re-add" /\ ~cmd.prompt
        /\ "destroy" \in all => cmd.name = "destroy" /\ cmd.force
    BY <1>1 DEF Heeded
  <1>4. CASE UNCHANGED <<all, pestered, cmd>>
    BY <1>1, <1>4, HeededOn
  <1>5. ASSUME NEW answer \in Answers \cup {"unasked"}, answer = "unasked" <=> cmd.force,
               Asked(cmd.name, answer), cmd' = [cmd EXCEPT !.force = Silenced(answer)]
        PROVE  Heeded' /\ AllIsFinal'
    <2>1. Silenced(answer) \in BOOLEAN
      BY <1>2 DEF Silenced
    <2>2. cmd'.name = cmd.name /\ cmd'.prompt = cmd.prompt /\ cmd'.force = Silenced(answer)
      BY <1>2, <1>5, <2>1 DEF CommandLines
    <2>3. AllIsFinal' /\ \A k \in all' : k \in all \/ (k = cmd.name /\ answer = "all")
      BY <1>2, <1>3, <1>5, AskedOnce
    <2>4. cmd.name = "destroy" /\ (cmd.force \/ answer = "all") => Silenced(answer)
      BY DEF Silenced
    <2>5. Heeded'
      BY <1>2, <1>3, <2>2, <2>3, <2>4 DEF Heeded
    <2> QED
      BY <2>3, <2>5
  <1>6. \/ UNCHANGED <<all, pestered, cmd>>
        \/ \E answer \in Answers \cup {"unasked"} :
             /\ answer = "unasked" <=> cmd.force
             /\ Asked(cmd.name, answer)
             /\ cmd' = [cmd EXCEPT !.force = Silenced(answer)]
    BY Zenon DEF Leave
  <1> QED
    BY <1>4, <1>5, <1>6

LEMMA StepHeeded ==
    ASSUME LifecycleAssumption, Typed, Phases, Heeded, AllIsFinal, [Next]_lifecycleVars
    PROVE  Heeded' /\ AllIsFinal'
  <1>1. CASE Start
    <2>1. all' = {} /\ pestered' = {}
      <3>1. PICK c \in Commands : Begin(c)
        BY <1>1, Zenon DEF Start, StartAdd, StartImport, StartReAdd, StartLeave
      <3> QED
        BY <3>1 DEF Begin
    <2> QED
      BY <2>1 DEF Heeded, AllIsFinal
  <1>2. CASE PlanRefused \/ PlanTarget
    BY <1>2, PlanHeeded
  <1>3. CASE ReAddRefused \/ ReAddFile
    BY <1>3, ReAddHeeded
  <1>4. CASE Leave
    BY <1>4, LeaveHeeded
  <1>5. CASE PlanSkip \/ ReAddSame \/ PlanEnds \/ Do
    <2>1. pc # "idle" /\ UNCHANGED <<all, pestered, cmd>>
      BY <1>5 DEF PlanSkip, ReAddSame, PlanEnds, Do, told
    <2> QED
      BY <2>1, HeededOn
  <1>6. CASE ReAddDir
    <2>1. pc # "idle" /\ UNCHANGED <<all, pestered, cmd>>
      BY <1>6, ReAddDirShape
    <2> QED
      BY <2>1, HeededOn
  <1>7. CASE Done
    <2>1. pc # "idle" /\ UNCHANGED <<all, pestered, cmd>>
      BY <1>7 DEF Done, Stop, told
    <2> QED
      BY <2>1, HeededOn
  <1>8. CASE PlanFails \/ ReAddEnds \/ LeaveEnds \/ DoFails \/ Cut
    <2>1. pc # "idle" /\ UNCHANGED <<all, pestered, cmd>>
      BY <1>8, EndsTyped DEF Ends, Stop
    <2> QED
      BY <2>1, HeededOn
  <1>9. CASE Mend
    <2>1. pc' = "idle" /\ UNCHANGED <<all, pestered>>
      BY <1>9 DEF Mend
    <2> QED
      BY <2>1 DEF AllIsFinal, Heeded
  <1>10. CASE UNCHANGED lifecycleVars
    BY <1>10 DEF Heeded, AllIsFinal, lifecycleVars, told
  <1> QED
    BY <1>1, <1>2, <1>3, <1>4, <1>5, <1>6, <1>7, <1>8, <1>9, <1>10 DEF Next

-----------------------------------------------------------------------------
(* The invariant.                                                          *)

LEMMA InitIInv == LifecycleAssumption /\ Init => IInv
  <1> SUFFICES ASSUME LifecycleAssumption, Init PROVE IInv
    OBVIOUS
  <1>1. cmd = NoCommand /\ pc = "idle" /\ pestered = {}
    BY Zenon DEF Init
  <1>2. KeptInv /\ Heeded /\ AllIsFinal
    BY <1>1 DEF KeptInv, Bound, Heeded, AllIsFinal
  <1> QED
    BY <1>2, InitTyped DEF IInv

LEMMA StepIInv == LifecycleAssumption /\ IInv /\ [Next]_lifecycleVars => IInv'
  <1> SUFFICES ASSUME LifecycleAssumption, IInv, [Next]_lifecycleVars PROVE IInv'
    OBVIOUS
  <1>1. Typed /\ Phases /\ KeptInv /\ Heeded /\ AllIsFinal
    BY DEF IInv
  <1>2. Typed' /\ Phases'
    BY <1>1, StepTyped
  <1>3. KeptInv'
    BY <1>1, StepKept
  <1>4. Heeded' /\ AllIsFinal'
    BY <1>1, StepHeeded
  <1> QED
    BY <1>2, <1>3, <1>4 DEF IInv

LEMMA IInvImpliesNothingLost == IInv => NothingLost
  <1> SUFFICES ASSUME IInv PROVE NothingLost
    OBVIOUS
  <1>1. NeverLost
    <2> SUFFICES ASSUME cmd # NoCommand, ~said.clash, ~(cmd.name = "import" /\ cmd.remove # {})
                 PROVE  Kept
      BY DEF NeverLost, Kept
    <2>1. cmd.remove = {}
      BY DEF IInv, Typed, CommandTyped
    <2> QED
      BY <2>1 DEF Bound, IInv, KeptInv
  <1>2. DestroyResumes
    <2> SUFFICES ASSUME cmd.name = "destroy", NEW t \in agreed, Managed(root[t])
                 PROVE  dest[t] = Nothing \/ \E e \in src : e.of = t
      BY DEF DestroyResumes
    <2>1. cmd # NoCommand /\ ~said.clash /\ t \in Targets /\ cmd.remove = {}
      BY DEF IInv, Typed, CommandTyped, Phases, NoCommand
    <2> QED
      BY <2>1 DEF Bound, IInv, KeptInv, Emptied
  <1> QED
    BY <1>1, <1>2 DEF NothingLost

LEMMA IInvImpliesAsksFirst == IInv => AsksFirst
  <1> SUFFICES ASSUME IInv PROVE AsksFirst
    OBVIOUS
  <1>1. AttributesAgreed
    <2> SUFFICES ASSUME cmd.name = "add", ~said.clash, NEW t \in Targets,
                        Managed(root[t]), ~IsDir(t), t \notin agreed, ~cmd.force
                 PROVE  \/ \E e \in src : e.of = t /\ (e.kind = "dir" \/
                             root[t].attrs \cap {"encrypted", "private", "template"} \subseteq e.attrs)
                        \/ \E u \in DOMAIN infos : t \in Below(u) /\ infos[u].type # "dir"
      BY DEF AttributesAgreed
    <2>1. cmd # NoCommand /\ cmd.remove = {}
      BY DEF IInv, Typed, CommandTyped, NoCommand
    <2>2. Kept
      BY <2>1 DEF Bound, IInv, KeptInv
    <2>3. Intended(t) \/ \E e \in src : e.of = t /\ Agreeable(t, e)
      BY <2>2 DEF Kept
    <2>4. Intended(t) => \E u \in DOMAIN infos : t \in Below(u) /\ infos[u].type # "dir"
      BY DEF Intended
    <2> QED
      BY <2>3, <2>4 DEF Agreeable
  <1> QED
    BY <1>1 DEF AsksFirst, IInv
=============================================================================
