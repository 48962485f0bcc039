-------------------------------- MODULE Attr --------------------------------
(***************************************************************************)
(* Source names and the attributes they spell (internal/chezmoi/attr.go).  *)
(*                                                                         *)
(* A name is a sequence of words: every maximal piece of the string that   *)
(* ends in "_" is one word, every "." is one word, and so is what is left  *)
(* between them.  "private_dot_x.tmpl" is <<"private_", "dot_", "x", ".",  *)
(* "tmpl">>.  Cutting is unique and agrees with concatenation wherever the *)
(* code concatenates, so a test for a prefix or a suffix of the string is  *)
(* a test for the same words here.                                         *)
(*                                                                         *)
(* Attributes are records of one shape for directories and files: flags is *)
(* the set of Boolean fields that are true.                                *)
(***************************************************************************)
EXTENDS Integers, Sequences

CONSTANTS
  Words,             \* the words of all names
  EncryptedSuffix    \* the words of Encryption.EncryptedSuffix()

\* The words that mean something to the parsers (chezmoi.go:49-67).
Vocabulary == {"after_", "before_", "create_", "dot_", "empty_", "encrypted_", "exact_",
               "executable_", "external_", "literal_", "modify_", "onchange_", "once_",
               "private_", "readonly_", "remove_", "run_", "symlink_", ".", "literal", "tmpl"}

ASSUME WordsAssumption == Vocabulary \subseteq Words /\ EncryptedSuffix \in Seq(Words)

DirFlags == {"exact", "external", "private", "readonly", "remove"}
FileFlags == {"empty", "encrypted", "executable", "private", "readonly", "template"}
FileTypes == {"file", "create", "modify", "remove", "script", "symlink"}
Conditions == {"none", "always", "once", "onchange"}
Orders == {"before", "during", "after"}

LiteralSuffix == <<".", "literal">>
TemplateSuffix == <<".", "tmpl">>

\* dirPrefixRx and filePrefixRx
DirPrefixes == {"dot_", "exact_", "literal_", "readonly_", "private_"}
FilePrefixes == {"after_", "before_", "create_", "dot_", "empty_", "encrypted_",
                 "executable_", "literal_", "modify_", "once_", "private_",
                 "readonly_", "remove_", "run_", "symlink_"}

----------------------------------------------------------------------------
(* strings.HasPrefix, CutPrefix, HasSuffix and CutSuffix on words          *)

Starts(name, w) == name # <<>> /\ Head(name) = w
Cut(name, w) == IF Starts(name, w) THEN Tail(name) ELSE name
Ends(name, s) ==
  Len(s) <= Len(name) /\ SubSeq(name, Len(name) - Len(s) + 1, Len(name)) = s
CutEnd(name, s) ==
  IF Ends(name, s) THEN SubSeq(name, 1, Len(name) - Len(s)) ELSE name
Opt(b, s) == IF b THEN s ELSE <<>>

\* What both parsers do with a leading dot_ or literal_, and what both
\* SourceName methods put in front of a target name that needs one.
Dot(name) == Opt(Starts(name, "dot_"), <<".">>)
Undotted(name) ==
  IF Starts(name, "dot_") \/ Starts(name, "literal_") THEN Tail(name) ELSE name
Spelled(target, words) ==
  IF Starts(target, ".") THEN <<"dot_">> \o Tail(target)
  ELSE Opt(\E w \in words : Starts(target, w), <<"literal_">>) \o target

----------------------------------------------------------------------------
(* Directories                                                             *)

ParseDir(name) ==
  LET n1 == Cut(name, "remove_")
      n2 == Cut(n1, "external_")
      n3 == Cut(n2, "exact_")
      n4 == Cut(n3, "private_")
      n5 == Cut(n4, "readonly_")
      has == [remove |-> Starts(name, "remove_"), external |-> Starts(n1, "external_"),
              exact |-> Starts(n2, "exact_"), private |-> Starts(n3, "private_"),
              readonly |-> Starts(n4, "readonly_")]
  IN [target |-> Dot(n5) \o Undotted(n5), type |-> "dir",
      flags |-> {k \in DirFlags : has[k]}, condition |-> "none", order |-> "during"]

DirSourceName(a) ==
  Opt("remove" \in a.flags, <<"remove_">>) \o (Opt("external" \in a.flags, <<"external_">>)
    \o (Opt("exact" \in a.flags, <<"exact_">>) \o (Opt("private" \in a.flags, <<"private_">>)
    \o (Opt("readonly" \in a.flags, <<"readonly_">>) \o Spelled(a.target, DirPrefixes)))))

----------------------------------------------------------------------------
(* Files                                                                   *)

TypePrefix == [create |-> "create_", remove |-> "remove_", script |-> "run_",
               symlink |-> "symlink_", modify |-> "modify_"]

TypeOf(name) ==
  IF \E t \in DOMAIN TypePrefix : Starts(name, TypePrefix[t])
  THEN CHOOSE t \in DOMAIN TypePrefix : Starts(name, TypePrefix[t])
  ELSE "file"

\* The prefixes that a name of each type may begin with, in their order, at
\* most one of each set.
Slots(type) ==
  CASE type \in {"file", "create"} ->
         <<{"encrypted_"}, {"private_"}, {"readonly_"}, {"empty_"}, {"executable_"}>>
    [] type = "modify" -> <<{"encrypted_"}, {"private_"}, {"readonly_"}, {"executable_"}>>
    [] type = "script" -> <<{"once_", "onchange_"}, {"before_", "after_"}>>
    [] OTHER -> <<>>

\* How many words are cut from the front of name: each slot in turn takes the
\* first word left if that is one of its own.
Taken(name, slots) ==
  LET fits(i) == \E k \in DOMAIN slots :
                   /\ name[i] \in slots[k]
                   /\ \A j \in 1..i - 1, l \in k..Len(slots) : name[j] \notin slots[l]
  IN CHOOSE n \in 0..Len(name) :
       (\A i \in 1..n : fits(i)) /\ (n = Len(name) \/ ~fits(n + 1))

\* The attributes of a file of the given type whose name has these prefixes
\* in front of rest.
FileAttr(type, prefixes, rest) ==
  LET flag == [encrypted |-> "encrypted_", private |-> "private_", readonly |-> "readonly_",
               empty |-> "empty_", executable |-> "executable_"]
      body == IF "encrypted_" \in prefixes THEN CutEnd(Undotted(rest), EncryptedSuffix)
              ELSE Undotted(rest)
      template == ~Ends(body, LiteralSuffix) /\ Ends(body, TemplateSuffix)
  IN [target |-> Dot(rest) \o CutEnd(IF template THEN CutEnd(body, TemplateSuffix) ELSE body,
                                    LiteralSuffix),
      type |-> type,
      flags |-> {k \in DOMAIN flag : flag[k] \in prefixes} \cup {k \in {"template"} : template},
      condition |-> CASE type # "script" -> "none"
                      [] type = "script" /\ "once_" \in prefixes -> "once"
                      [] type = "script" /\ "onchange_" \in prefixes -> "onchange"
                      [] OTHER -> "always",
      order |-> CASE "before_" \in prefixes -> "before"
                  [] "after_" \in prefixes -> "after"
                  [] OTHER -> "during"]

ParseFile(name) ==
  LET type == TypeOf(name)
      bare == IF type = "file" THEN name ELSE Tail(name)
      n == Taken(bare, Slots(type))
  IN FileAttr(type, {bare[i] : i \in 1..n}, SubSeq(bare, n + 1, Len(bare)))

\* The words SourceName puts in front of the target name.
FilePrefix(a) ==
  LET slots == Slots(a.type)
      opt(k, w) == Opt(k \in a.flags /\ \E i \in DOMAIN slots : w \in slots[i], <<w>>)
  IN (IF a.type = "file" THEN <<>> ELSE <<TypePrefix[a.type]>>)
       \o (opt("encrypted", "encrypted_") \o (opt("private", "private_")
       \o (opt("readonly", "readonly_") \o (opt("empty", "empty_")
       \o (opt("executable", "executable_")
       \o (Opt(a.type = "script" /\ a.condition = "once", <<"once_">>)
       \o (Opt(a.type = "script" /\ a.condition = "onchange", <<"onchange_">>)
       \o (Opt(a.type = "script" /\ a.order = "before", <<"before_">>)
       \o Opt(a.type = "script" /\ a.order = "after", <<"after_">>)))))))))

\* Slip: no .literal after a target name that ends like a template.
BareSuffix(a) ==
  FilePrefix(a) \o (Spelled(a.target, FilePrefixes)
    \o (Opt("template" \in a.flags, TemplateSuffix)
    \o Opt("encrypted" \in a.flags, EncryptedSuffix)))

FileSourceName(a) ==
  FilePrefix(a) \o (Spelled(a.target, FilePrefixes)
    \o (Opt(Ends(a.target, LiteralSuffix) \/ Ends(a.target, TemplateSuffix), LiteralSuffix)
    \o (Opt("template" \in a.flags, TemplateSuffix)
    \o Opt("encrypted" \in a.flags, EncryptedSuffix))))

\* The parsers refuse a name of which nothing is left.
Valid(a) == a.target \notin {<<>>, <<".">>}

SourceName(a) == IF a.type = "dir" THEN DirSourceName(a) ELSE FileSourceName(a)
=============================================================================
