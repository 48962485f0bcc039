----------------------------- MODULE ChattrProps -----------------------------
(* What chattr promises about the source directory.                        *)
EXTENDS Chattr

\* Every source name parses, every entry read is a file or directory of the
\* source directory it was read from, and work left is about targets read,
\* whose paths still exist when their turn comes, although the command renames
\* the directories above them too.
TypeOK ==
  /\ \A p \in DOMAIN src :
       /\ Valid(AttrOf(p))
       /\ src[p].cipher \in BOOLEAN /\ (src[p].dir <=> src[p].text = NoText)
       /\ Len(p) > 1 => Front(p) \in DOMAIN src /\ src[Front(p)].dir
  /\ todo \subseteq DOMAIN entries
  /\ \A t \in Targets : Visited(t) => Path(t) \in DOMAIN src
  /\ written => todo # {}
  /\ calls \in 0..MaxCalls /\ stopped \in BOOLEAN

\* The name of a file says it is encrypted exactly when its contents are
\* ciphertext, at every step and after every stop: a later apply decrypts
\* what the name tells it to.
NamesTell ==
  \A p \in DOMAIN src : ~src[p].dir => (src[p].cipher <=> "encrypted" \in AttrOf(p).flags)

\* Whatever is renamed, rewritten, interrupted and repaired, the text of
\* every file stays in the source directory under a name of the same target.
\* Only a command that stopped between writing the new file and removing the
\* old one leaves a target with two entries, and they hold one text: the user
\* may delete either.
ContentsSurvive ==
  /\ \A t \in DOMAIN original :
       \E p \in DOMAIN src : Target(p) = t /\ src[p].text = original[t]
  /\ ~Consistent => stopped \/ written
  /\ \A p, q \in DOMAIN src : Target(p) = Target(q) => src[p].text = src[q].text

\* A target that was visited has the attributes its modifier names, and
\* those of a directory, a regular file or a symlink that keeps its type
\* change in nothing else.
Supported(type) ==
  CASE type = "dir" -> DirFlags [] type = "file" -> FileFlags
    [] type = "symlink" -> {"template"} [] OTHER -> {}
TakesModifier ==
  [][\A t \in todo \ todo' : stopped' \/ \E p \in DOMAIN src' :
       /\ TargetIn(src', p) = t
       /\ LET old == entries[t].attr  new == AttrIn(src', p)
          IN /\ mod["type"][1] = "set" /\ old.type # "dir" => new.type = mod["type"][2]
             /\ new.type = old.type => \A k \in Supported(old.type) :
                  (k \in new.flags) <=> Holds(mod, k, old.flags)]_vars
=============================================================================
