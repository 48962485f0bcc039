----------------------------- MODULE PatternSet -----------------------------
(***************************************************************************)
(* Sets of include and exclude patterns (internal/chezmoi/patternset.go).   *)
(* A name is the sequence of its components, a pattern [of, include] has "*"*)
(* for any component and, last, "**" for any number of them.               *)
(***************************************************************************)
EXTENDS Naturals, Sequences

Glob(pattern, name) ==
  LET of == pattern.of
      deep == of # <<>> /\ of[Len(of)] = "**"
      fixed == IF deep THEN Len(of) - 1 ELSE Len(of)
  IN /\ IF deep THEN Len(name) >= fixed ELSE Len(name) = fixed
     /\ \A i \in 1..fixed : of[i] \in {name[i], "*"}

(* Excludes win.  With patterns of one kind only, a name that matches none  *)
(* of them gets the other answer.                                          *)
Match(patterns, name) ==
  LET included == { p \in patterns : p.include }
      excluded == patterns \ included
  IN IF \E p \in excluded : Glob(p, name) THEN "exclude"
     ELSE IF \E p \in included : Glob(p, name) THEN "include"
     ELSE IF included # {} /\ excluded = {} THEN "exclude"
     ELSE IF included = {} /\ excluded # {} THEN "include"
     ELSE "unknown"
=============================================================================
