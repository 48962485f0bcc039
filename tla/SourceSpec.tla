----------------------------- MODULE SourceSpec -----------------------------
(***************************************************************************)
(* What reading the source state promises: one step from the source        *)
(* directory, the destination and the externals to the set of targets, or  *)
(* to an error.  The result is a function of what is there, not of the     *)
(* order in which directories are walked or goroutines run.                *)
(***************************************************************************)
CONSTANTS
  Declared(_),     \* the targets that a source directory declares
  Sources          \* the source directories

VARIABLES source, status, targets

Init ==
  /\ source \in Sources
  /\ status = "reading"
  /\ targets = {}

Read ==
  /\ status = "reading"
  /\ status' = "read"
  /\ targets' = Declared(source)
  /\ UNCHANGED source

Fail ==
  /\ status = "reading"
  /\ status' = "failed"
  /\ UNCHANGED <<source, targets>>

(* The user applies the targets and chezmoi reads again.  Applying changes  *)
(* the destination, never the source directory.                            *)
Again ==
  /\ status = "read"
  /\ status' = "reading"
  /\ targets' = {}
  /\ source'.tree = source.tree

Next == Read \/ Fail \/ Again

Spec == Init /\ [][Next]_<<source, status, targets>>
=============================================================================
