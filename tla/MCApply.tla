-------------------------------- MODULE MCApply --------------------------------
(***************************************************************************)
(* Instances of Apply for TLC: a directory d with a file d/f in it and a   *)
(* file g, and small sets of what the source and the user put there.       *)
(***************************************************************************)
EXTENDS ApplyProps

CONSTANTS d, f, g, rw, ro, s1, s2, blank, none

MCTargets == {d, f, g}
MCAbove   == [t \in MCTargets |-> IF t = f THEN {d} ELSE {}]
MCOrder   == <<d, f, g>>
MCPerms   == {rw, ro}
MCSums    == {s1, s2, blank}
MCBlank   == {blank}

Source(k, p, s) == [kind |-> k, perm |-> p, sum |-> s, empty |-> FALSE]

Plain == [force |-> FALSE, interactive |-> FALSE, lessInteractive |-> FALSE,
          keepGoing |-> FALSE, dryRun |-> FALSE, exclude |-> {}, args |-> MCTargets]

Forced    == [Plain EXCEPT !.force = TRUE]
Careful   == [Plain EXCEPT !.lessInteractive = TRUE]
Asking    == [Plain EXCEPT !.interactive = TRUE]
KeepGoing == [Plain EXCEPT !.keepGoing = TRUE]
DryRun    == [Plain EXCEPT !.dryRun = TRUE]
NoDirs    == [Plain EXCEPT !.exclude = {"dirs"}]
OnlyFile  == [Plain EXCEPT !.args = {f}]

Unmanaged == Source("none", rw, s1)

\* One file that the user and the source both change.
FileSource == [t \in MCTargets |->
    IF t = g THEN {Source("file", rw, s1), Source("file", rw, s2), Source("file", ro, s2),
                   Source("modify", rw, s2), Source("remove", rw, s1),
                   [Source("file", rw, blank) EXCEPT !.empty = TRUE]}
             ELSE {Unmanaged}]
FileFs == [t \in MCTargets |->
    IF t = g THEN {Absent, File(rw, s1), File(rw, s2), File(ro, s2), Symlink(s1)} ELSE {Absent}]
FileOptions == {Plain, Forced, Careful, Asking, KeepGoing, DryRun}

\* One entry of every kind over entries of every type, with sources and an
\* existing file that are only whitespace too.
KindSource == [t \in MCTargets |->
    IF t = g THEN {Source(k, rw, s) : k \in {"create", "modify", "keep", "symlink"},
                                      s \in {s1, blank}}
                  \cup {[Source("create", rw, s1) EXCEPT !.empty = TRUE]}
             ELSE {Unmanaged}]
KindFs == [t \in MCTargets |->
    IF t = g THEN {Absent, File(rw, s1), File(ro, s2), File(rw, blank),
                   Symlink(s1), Symlink(s2), Dir(rw)}
             ELSE {Absent}]
KindOptions == {Plain, Careful, KeepGoing}

\* A directory tree that the source turns into a file and back.
TreeSource == [t \in MCTargets |->
    CASE t = d -> {Source("dir", rw, s1), Source("rmdir", rw, s1), Source("file", rw, s1)}
      [] t = f -> {Source("file", rw, s1), Unmanaged}
      [] t = g -> {Unmanaged}]
TreeFs == [t \in MCTargets |->
    CASE t = d -> {Absent, Dir(rw), Dir(ro), File(rw, s1)}
      [] t = f -> {Absent, File(rw, s1), File(rw, s2)}
      [] t = g -> {Absent}]
TreeOptions == {Plain, Asking, KeepGoing, DryRun, NoDirs, OnlyFile}

Bounds(runs, edits, sourceEdits, crashes, faults) ==
    [runs |-> runs, edits |-> edits, sourceEdits |-> sourceEdits,
     crashes |-> crashes, faults |-> faults]

FileBudget   == Bounds(2, 2, 1, 1, 1)
KindBudget   == Bounds(2, 1, 1, 0, 1)
TreeBudget   == Bounds(2, 1, 1, 1, 1)
=============================================================================
