---------------------------- MODULE ChattrProofs ----------------------------
(***************************************************************************)
(* Names read back, and what chattr does to a source directory.            *)
(*                                                                         *)
(* First: the attributes that a source name spells are the ones it was     *)
(* made from, for every target name that does not begin with a prefix that *)
(* the code does not escape.  The proof peels the prefixes off in the      *)
(* order the parser cuts them: each optional word is found exactly when it *)
(* was put there, because what follows it never starts with the same word, *)
(* and suffixes come off in the reverse of the order they went on.         *)
(*                                                                         *)
(* Second: a rename changes one name of every path it moves, and a name    *)
(* that reads back keeps the target, so that the directory stays one that  *)
(* a source state can be read from, and the invariant of the command holds *)
(* whatever step comes next.                                               *)
(***************************************************************************)
EXTENDS ChattrProps, SequenceTheorems, WellFoundedInduction, TLAPS

\* The name s with the word w in front of it if k is among the flags f.
Prefixed(f, k, w, s) == Opt(k \in f, <<w>>) \o s

\* An optional word in front of a name that does not start with it is cut
\* off again, is found exactly when it is there (strings.CutPrefix), and is
\* the only word that the longer name starts with and the shorter may not.
LEMMA OptCut ==
  ASSUME NEW f, NEW k, NEW w \in Words, NEW s \in Seq(Words), ~Starts(s, w)
  PROVE  /\ Prefixed(f, k, w, s) \in Seq(Words)
         /\ Cut(Prefixed(f, k, w, s), w) = s
         /\ Starts(Prefixed(f, k, w, s), w) <=> k \in f
         /\ \A v : v # w /\ ~Starts(s, v) => ~Starts(Prefixed(f, k, w, s), v)
<1> DEFINE n == Prefixed(f, k, w, s)
<1>1. CASE k \in f
  <2>1. n = <<w>> \o s BY <1>1 DEF Opt, Prefixed
  <2>2. /\ <<w>> \o s \in Seq(Words) /\ <<w>> \o s # <<>>
        /\ Head(<<w>> \o s) = w /\ Tail(<<w>> \o s) = s
    OBVIOUS
  <2>3. n \in Seq(Words) /\ n # <<>> /\ Head(n) = w /\ Tail(n) = s BY <2>1, <2>2
  <2> QED BY <1>1, <2>3 DEF Cut, Starts
<1>2. CASE k \notin f
  <2>1. Opt(k \in f, <<w>>) = <<>> BY <1>2 DEF Opt
  <2>2. <<>> \o s = s OBVIOUS
  <2>3. n = s BY <2>1, <2>2 DEF Prefixed
  <2> QED BY <1>2, <2>3 DEF Cut
<1> QED BY <1>1, <1>2

\* The spelling of a target name starts with none of the words that could be
\* taken for an attribute.
LEMMA SpelledStarts ==
  ASSUME NEW t \in Seq(Words), NEW W, "dot_" \in W, "literal_" \in W,
         "dot_" \in Words, "literal_" \in Words, NEW v \in Words,
         v \notin {"dot_", "literal_"}, v \in W \/ ~Starts(t, v)
  PROVE  Spelled(t, W) \in Seq(Words) /\ ~Starts(Spelled(t, W), v)
<1>1. CASE Starts(t, ".")
  <2>1. Spelled(t, W) = <<"dot_">> \o Tail(t) BY <1>1 DEF Spelled
  <2>2. t # <<>> BY <1>1 DEF Starts
  <2>3. <<"dot_">> \o Tail(t) \in Seq(Words) /\ Head(<<"dot_">> \o Tail(t)) = "dot_" BY <2>2
  <2> QED BY <2>1, <2>3 DEF Starts
<1>2. CASE ~Starts(t, ".") /\ \E w \in W : Starts(t, w)
  <2>1. Spelled(t, W) = <<"literal_">> \o t BY <1>2 DEF Spelled, Opt
  <2>2. <<"literal_">> \o t \in Seq(Words) /\ Head(<<"literal_">> \o t) = "literal_" OBVIOUS
  <2> QED BY <2>1, <2>2 DEF Starts
<1>3. CASE ~Starts(t, ".") /\ ~\E w \in W : Starts(t, w)
  <2>1. Spelled(t, W) = <<>> \o t BY <1>3 DEF Spelled, Opt
  <2>2. <<>> \o t = t OBVIOUS
  <2> QED BY <1>3, <2>1, <2>2
<1> QED BY <1>1, <1>2, <1>3

\* dot_ and literal_ are undone.
LEMMA SpelledBack ==
  ASSUME NEW t \in Seq(Words), NEW W, "dot_" \in W, "literal_" \in W,
         "dot_" \in Words, "literal_" \in Words, "." \in Words
  PROVE  Dot(Spelled(t, W)) \o Undotted(Spelled(t, W)) = t
<1>1. CASE Starts(t, ".")
  <2>1. Spelled(t, W) = <<"dot_">> \o Tail(t) BY <1>1 DEF Spelled
  <2>2. t # <<>> /\ Head(t) = "." BY <1>1 DEF Starts
  <2> DEFINE n == <<"dot_">> \o Tail(t)
  <2>3. n # <<>> /\ Head(n) = "dot_" /\ Tail(n) = Tail(t) BY <2>2
  <2>4. Dot(n) = <<".">> /\ Undotted(n) = Tail(t) BY <2>3 DEF Dot, Undotted, Opt, Starts
  <2>5. <<".">> \o Tail(t) = t BY <2>2
  <2> QED BY <2>1, <2>4, <2>5
<1>2. CASE ~Starts(t, ".") /\ \E w \in W : Starts(t, w)
  <2>1. Spelled(t, W) = <<"literal_">> \o t BY <1>2 DEF Spelled, Opt
  <2> DEFINE n == <<"literal_">> \o t
  <2>2. n # <<>> /\ Head(n) = "literal_" /\ Tail(n) = t OBVIOUS
  <2>3. Dot(n) = <<>> /\ Undotted(n) = t BY <2>2 DEF Dot, Undotted, Opt, Starts
  <2>4. <<>> \o t = t OBVIOUS
  <2> QED BY <2>1, <2>3, <2>4
<1>3. CASE ~Starts(t, ".") /\ ~\E w \in W : Starts(t, w)
  <2>1. <<>> \o t = t OBVIOUS
  <2>2. Spelled(t, W) = t BY <1>3, <2>1 DEF Spelled, Opt
  <2>3. ~Starts(t, "dot_") /\ ~Starts(t, "literal_") BY <1>3
  <2>4. Dot(t) = <<>> /\ Undotted(t) = t BY <2>3 DEF Dot, Undotted, Opt
  <2> QED BY <2>1, <2>2, <2>4
<1> QED BY <1>1, <1>2, <1>3

\* parseDirAttr reads back the attributes that DirAttr.SourceName spelled,
\* for every set of attributes and every target name that begins with
\* neither remove_ nor external_ (attr_test.go asserts it of all names).
THEOREM DirNamesReadBack ==
  ASSUME NEW t \in Seq(Words), NEW f \in SUBSET DirFlags,
         ~Starts(t, "remove_"), ~Starts(t, "external_")
  PROVE  LET a == [target |-> t, type |-> "dir", flags |-> f,
                   condition |-> "none", order |-> "during"]
         IN ParseDir(SourceName(a)) = a
<1> DEFINE a == [target |-> t, type |-> "dir", flags |-> f,
                 condition |-> "none", order |-> "during"]
           s5 == Spelled(t, DirPrefixes)
           s4 == Prefixed(f, "readonly", "readonly_", s5)
           s3 == Prefixed(f, "private", "private_", s4)
           s2 == Prefixed(f, "exact", "exact_", s3)
           s1 == Prefixed(f, "external", "external_", s2)
           s0 == Prefixed(f, "remove", "remove_", s1)
<1>1. SourceName(a) = s0 BY DEF SourceName, DirSourceName, Prefixed
<1>2. "dot_" \in DirPrefixes /\ "literal_" \in DirPrefixes BY DEF DirPrefixes
<1>3. \A w \in Vocabulary : w \in Words BY WordsAssumption
<1>4. Dot(s5) \o Undotted(s5) = t
  BY <1>2, <1>3, SpelledBack DEF Vocabulary
<1>5. \A v \in {"remove_", "external_", "exact_", "private_", "readonly_"} :
        s5 \in Seq(Words) /\ ~Starts(s5, v)
  <2>1. SUFFICES ASSUME NEW v \in {"remove_", "external_", "exact_", "private_", "readonly_"}
                 PROVE  Spelled(t, DirPrefixes) \in Seq(Words)
                        /\ ~Starts(Spelled(t, DirPrefixes), v)
    OBVIOUS
  <2>2. v \in Words /\ v \notin {"dot_", "literal_"} BY <1>3 DEF Vocabulary
  <2>3. v \in DirPrefixes \/ ~Starts(t, v) BY DEF DirPrefixes
  <2>4. "dot_" \in Words /\ "literal_" \in Words BY <1>3 DEF Vocabulary
  <2> QED BY <1>2, <2>2, <2>3, <2>4, SpelledStarts
<1>6. s4 = Prefixed(f, "readonly", "readonly_", s5) OBVIOUS
<1>7. s3 = Prefixed(f, "private", "private_", s4) OBVIOUS
<1>8. s2 = Prefixed(f, "exact", "exact_", s3) OBVIOUS
<1>9. s1 = Prefixed(f, "external", "external_", s2) OBVIOUS
<1>10. s0 = Prefixed(f, "remove", "remove_", s1) OBVIOUS
<1> HIDE DEF s5, s4, s3, s2, s1, s0
<1>11. /\ s4 \in Seq(Words) /\ Cut(s4, "readonly_") = s5
       /\ Starts(s4, "readonly_") <=> "readonly" \in f
       /\ \A v \in {"remove_", "external_", "exact_", "private_"} : ~Starts(s4, v)
  <2>1. "readonly_" \in Words BY <1>3 DEF Vocabulary
  <2> QED BY <1>5, <1>6, <2>1, OptCut
<1>12. /\ s3 \in Seq(Words) /\ Cut(s3, "private_") = s4
       /\ Starts(s3, "private_") <=> "private" \in f
       /\ \A v \in {"remove_", "external_", "exact_"} : ~Starts(s3, v)
  <2>1. "private_" \in Words BY <1>3 DEF Vocabulary
  <2> QED BY <1>7, <1>11, <2>1, OptCut
<1>13. /\ s2 \in Seq(Words) /\ Cut(s2, "exact_") = s3
       /\ Starts(s2, "exact_") <=> "exact" \in f
       /\ \A v \in {"remove_", "external_"} : ~Starts(s2, v)
  <2>1. "exact_" \in Words BY <1>3 DEF Vocabulary
  <2> QED BY <1>8, <1>12, <2>1, OptCut
<1>14. /\ s1 \in Seq(Words) /\ Cut(s1, "external_") = s2
       /\ Starts(s1, "external_") <=> "external" \in f
       /\ ~Starts(s1, "remove_")
  <2>1. "external_" \in Words BY <1>3 DEF Vocabulary
  <2> QED BY <1>9, <1>13, <2>1, OptCut
<1>15. Cut(s0, "remove_") = s1 /\ (Starts(s0, "remove_") <=> "remove" \in f)
  <2>1. "remove_" \in Words BY <1>3 DEF Vocabulary
  <2> QED BY <1>10, <1>14, <2>1, OptCut
<1> DEFINE found == [remove |-> Starts(s0, "remove_"), external |-> Starts(s1, "external_"),
                     exact |-> Starts(s2, "exact_"), private |-> Starts(s3, "private_"),
                     readonly |-> Starts(s4, "readonly_")]
<1>16. {k \in DirFlags : found[k]} = f
  <2>1. /\ found["remove"] <=> "remove" \in f
        /\ found["external"] <=> "external" \in f
        /\ found["exact"] <=> "exact" \in f
        /\ found["private"] <=> "private" \in f
        /\ found["readonly"] <=> "readonly" \in f
    BY <1>11, <1>12, <1>13, <1>14, <1>15
  <2> HIDE DEF found
  <2> QED BY <2>1 DEF DirFlags
<1>17. ParseDir(s0) = [target |-> Dot(s5) \o Undotted(s5), type |-> "dir",
                       flags |-> {k \in DirFlags : found[k]},
                       condition |-> "none", order |-> "during"]
  BY <1>11, <1>12, <1>13, <1>14, <1>15 DEF ParseDir
<1> QED BY <1>1, <1>4, <1>16, <1>17
-----------------------------------------------------------------------------
(* The names of files                                                      *)

\* Concatenation and the cuts at the end of a name (strings.CutSuffix).
LEMMA CutEndBack ==
  ASSUME NEW x \in Seq(Words), NEW s \in Seq(Words)
  PROVE  x \o s \in Seq(Words) /\ Ends(x \o s, s) /\ CutEnd(x \o s, s) = x
<1> DEFINE n == x \o s
<1>1. n \in Seq(Words) /\ Len(n) = Len(x) + Len(s)
      /\ \A i \in 1..Len(n) : n[i] = IF i <= Len(x) THEN x[i] ELSE s[i - Len(x)]
  BY ConcatProperties
<1> HIDE DEF n
<1>2. Len(x) \in Nat /\ Len(s) \in Nat BY LenProperties
<1> DEFINE e == SubSeq(n, Len(n) - Len(s) + 1, Len(n))
           b == SubSeq(n, 1, Len(n) - Len(s))
<1>3. \A i \in 1..Len(n) : n[i] \in Words BY <1>1, ElementOfSeq
<1>4. e \in Seq(Words) /\ Len(e) = Len(s)
      /\ \A i \in 1..Len(s) : e[i] = n[Len(n) - Len(s) + i]
  <2>1. \A i \in Len(n) - Len(s) + 1..Len(n) : n[i] \in Words BY <1>1, <1>2, <1>3
  <2> QED BY <1>1, <1>2, <2>1, SubSeqProperties
<1>5. b \in Seq(Words) /\ Len(b) = Len(x) /\ \A i \in 1..Len(x) : b[i] = n[i]
  <2>1. \A i \in 1..Len(n) - Len(s) : n[i] \in Words BY <1>1, <1>2, <1>3
  <2> QED BY <1>1, <1>2, <2>1, SubSeqProperties
<1> HIDE DEF e, b
<1>6. e = s
  <2>1. ASSUME NEW i \in 1..Len(s) PROVE e[i] = s[i]
    <3>1. Len(x) + i \in 1..Len(n) /\ Len(n) - Len(s) + i = Len(x) + i /\ (Len(x) + i) - Len(x) = i
      BY <1>1, <1>2
    <3>2. e[i] = n[Len(x) + i] BY <1>4, <3>1
    <3>3. ~(Len(x) + i <= Len(x)) BY <1>2
    <3>4. n[Len(x) + i] = s[(Len(x) + i) - Len(x)] BY <1>1, <3>1, <3>3
    <3> QED BY <3>1, <3>2, <3>4
  <2> QED BY <1>4, <2>1, SeqEqual
<1>7. b = x
  <2>1. \A i \in 1..Len(x) : b[i] = x[i] BY <1>1, <1>2, <1>5
  <2> QED BY <1>5, <2>1, SeqEqual
<1>8. Ends(n, s) BY <1>1, <1>2, <1>6 DEF Ends, e
<1> QED BY <1>1, <1>7, <1>8 DEF CutEnd, b, n

\* What ends so still does with something in front of it.
LEMMA EndsLonger ==
  ASSUME NEW y \in Seq(Words), NEW x \in Seq(Words), NEW s \in Seq(Words), Ends(x, s)
  PROVE  Ends(y \o x, s)
<1> DEFINE b == SubSeq(x, 1, Len(x) - Len(s))
<1>1. Len(s) <= Len(x) /\ SubSeq(x, Len(x) - Len(s) + 1, Len(x)) = s BY DEF Ends
<1>2. Len(x) \in Nat /\ Len(s) \in Nat BY LenProperties
<1>3. SubSeq(x, 1, Len(x)) = x BY SubSeqFull
<1>4. b \o s = x
  <2> DEFINE k == Len(x) - Len(s)
  <2>1. 1 \in 1..Len(x) + 1 /\ k \in 1 - 1..Len(x) /\ Len(x) \in k..Len(x) BY <1>1, <1>2
  <2> HIDE DEF k
  <2>2. SubSeq(x, 1, k) \o SubSeq(x, k + 1, Len(x)) = SubSeq(x, 1, Len(x))
    BY <2>1, ConcatAdjacentSubSeq
  <2> QED BY <1>1, <1>3, <2>2 DEF k
<1>5. b \in Seq(Words)
  <2>1. \A i \in 1..Len(x) - Len(s) : x[i] \in Words BY <1>1, <1>2, ElementOfSeq
  <2> QED BY <1>2, <2>1, SubSeqProperties
<1> HIDE DEF b
<1>6. (y \o b) \o s = y \o x 
  <2>1. (y \o b) \o s = y \o (b \o s) BY <1>5
  <2> QED BY <1>4, <2>1
<1>7. y \o b \in Seq(Words) BY <1>5, ConcatProperties
<1> QED BY <1>6, <1>7, CutEndBack

\* .tmpl is not .literal.
LEMMA NotLiteral ==
  ASSUME NEW x \in Seq(Words)
  PROVE  ~Ends(x \o TemplateSuffix, LiteralSuffix)
<1> DEFINE n == x \o TemplateSuffix
<1>1. TemplateSuffix \in Seq(Words) /\ LiteralSuffix \in Seq(Words)
      /\ Len(TemplateSuffix) = 2 /\ Len(LiteralSuffix) = 2
      /\ TemplateSuffix[2] = "tmpl" /\ LiteralSuffix[2] = "literal"
  BY WordsAssumption DEF TemplateSuffix, LiteralSuffix, Vocabulary
<1>2. n \in Seq(Words) /\ Len(n) = Len(x) + 2
      /\ \A i \in 1..Len(n) : n[i] = IF i <= Len(x) THEN x[i] ELSE TemplateSuffix[i - Len(x)]
  <2>1. n \in Seq(Words) /\ Len(n) = Len(x) + Len(TemplateSuffix)
        /\ \A i \in 1..Len(x) + Len(TemplateSuffix) :
              n[i] = IF i <= Len(x) THEN x[i] ELSE TemplateSuffix[i - Len(x)]
    BY <1>1, ConcatProperties, Zenon
  <2> HIDE DEF n
  <2> QED BY <1>1, <2>1
<1>3. Len(x) \in Nat BY LenProperties
<1> HIDE DEF n
<1>4. n[Len(n)] = "tmpl" BY <1>1, <1>2, <1>3
<1> DEFINE e == SubSeq(n, Len(n) - Len(LiteralSuffix) + 1, Len(n))
<1>5. e[2] = n[Len(n)]
  <2>1. \A i \in Len(n) - 2 + 1..Len(n) : n[i] \in Words BY <1>2, <1>3, ElementOfSeq
  <2>2. \A i \in 1..Len(n) - (Len(n) - 2 + 1) + 1 : SubSeq(n, Len(n) - 2 + 1, Len(n))[i] = n[(Len(n) - 2 + 1) + i - 1]
    BY <1>2, <1>3, <2>1, SubSeqProperties
  <2> QED BY <1>1, <1>2, <1>3, <2>2
<1> HIDE DEF e
<1>6. e # LiteralSuffix BY <1>1, <1>4, <1>5
<1> QED BY <1>6 DEF Ends, e, n

LEMMA Regroup == \A r, s, t \in Seq(Words) : r \o (s \o t) = (r \o s) \o t OBVIOUS

\* The suffixes of a file name of target t with flags f.
NameEnd(t, f) ==
  Opt(Ends(t, LiteralSuffix) \/ Ends(t, TemplateSuffix), LiteralSuffix)
    \o (Opt("template" \in f, TemplateSuffix) \o Opt("encrypted" \in f, EncryptedSuffix))

\* What is left of a file name whose spelled target, undone, is u.
Body(u, t, f) == IF "encrypted" \in f THEN CutEnd(u \o NameEnd(t, f), EncryptedSuffix)
                 ELSE u \o NameEnd(t, f)

SpelledBody(u, t, f) ==
  /\ (~Ends(Body(u, t, f), LiteralSuffix) /\ Ends(Body(u, t, f), TemplateSuffix))
       <=> "template" \in f
  /\ CutEnd(IF "template" \in f THEN CutEnd(Body(u, t, f), TemplateSuffix) ELSE Body(u, t, f),
            LiteralSuffix) = u

\* The suffixes that SourceName puts behind the spelled target name are found
\* and cut off again, whatever the target name ends in: .literal is there
\* exactly when it could be taken for a suffix.
LEMMA BodyBack ==
  ASSUME NEW u \in Seq(Words), NEW y \in Seq(Words), NEW f
  PROVE  SpelledBody(u, y \o u, f)
<1> DEFINE t == y \o u
           body == Body(u, t, f)
           c == Ends(t, LiteralSuffix) \/ Ends(t, TemplateSuffix)
           l == Opt(c, LiteralSuffix)
           m == Opt("template" \in f, TemplateSuffix)
           n == Opt("encrypted" \in f, EncryptedSuffix)
           ul == u \o l
<1>1. TemplateSuffix \in Seq(Words) /\ LiteralSuffix \in Seq(Words) /\ EncryptedSuffix \in Seq(Words)
  BY WordsAssumption DEF TemplateSuffix, LiteralSuffix, Vocabulary
<1>2. l \in Seq(Words) /\ m \in Seq(Words) /\ n \in Seq(Words) BY <1>1 DEF Opt
<1>3. /\ c => l = LiteralSuffix
      /\ ~c => l = <<>>
      /\ "template" \in f => m = TemplateSuffix
      /\ "template" \notin f => m = <<>>
      /\ "encrypted" \in f => n = EncryptedSuffix
      /\ "encrypted" \notin f => n = <<>>
  BY DEF Opt
<1>4. NameEnd(t, f) = l \o (m \o n) BY DEF NameEnd
<1> HIDE DEF l, m, n, c
<1>5. u \o NameEnd(t, f) = (ul \o m) \o n
  <2>1. m \o n \in Seq(Words) BY <1>2, ConcatProperties
  <2>2. u \o (l \o (m \o n)) = (u \o l) \o (m \o n) BY Zenon, <1>2, <2>1, Regroup
  <2>3. ul \in Seq(Words) BY <1>2, ConcatProperties
  <2> HIDE DEF ul
  <2>4. ul \o (m \o n) = (ul \o m) \o n BY Zenon, <1>2, <2>1, <2>3, Regroup
  <2> QED BY <1>4, <2>2, <2>4 DEF ul
<1>6. ul \in Seq(Words) BY <1>2, ConcatProperties
<1> HIDE DEF ul
<1>7. ul \o m \in Seq(Words) BY <1>2, <1>6, ConcatProperties
<1>8. body = ul \o m
  <2>1. CASE "encrypted" \in f BY <1>1, <1>3, <1>5, <1>7, <2>1, CutEndBack DEF Body
  <2>2. CASE "encrypted" \notin f
    <3>1. (ul \o m) \o <<>> = ul \o m BY <1>7, ConcatEmptySeq
    <3> QED BY <1>3, <1>5, <2>2, <3>1 DEF Body
  <2> QED BY <2>1, <2>2
<1> HIDE DEF body
<1>9. ~c => ~Ends(u, LiteralSuffix) /\ ~Ends(u, TemplateSuffix)
  BY <1>1, EndsLonger DEF c
<1>10. CutEnd(ul, LiteralSuffix) = u /\ (c => Ends(ul, LiteralSuffix)) /\ (~c => ul = u)
  <2>1. CASE c BY <1>1, <1>3, <2>1, CutEndBack DEF ul
  <2>2. CASE ~c
    <3>1. u \o <<>> = u BY ConcatEmptySeq
    <3>2. ul = u BY <1>3, <2>2, <3>1 DEF ul
    <3> QED BY <1>9, <2>2, <3>2 DEF CutEnd
  <2> QED BY <2>1, <2>2
<1>11. ASSUME "template" \in f
       PROVE  /\ (~Ends(body, LiteralSuffix) /\ Ends(body, TemplateSuffix)) <=> "template" \in f
              /\ CutEnd(CutEnd(body, TemplateSuffix), LiteralSuffix) = u
  <2>1. body = ul \o TemplateSuffix BY <1>3, <1>8, <1>11
  <2>2. Ends(body, TemplateSuffix) /\ CutEnd(body, TemplateSuffix) = ul
    BY <1>1, <1>6, <2>1, CutEndBack
  <2>3. ~Ends(body, LiteralSuffix) BY <1>6, <2>1, NotLiteral
  <2> QED BY <1>10, <1>11, <2>2, <2>3
<1>12. ASSUME "template" \notin f
       PROVE  /\ (~Ends(body, LiteralSuffix) /\ Ends(body, TemplateSuffix)) <=> "template" \in f
              /\ CutEnd(body, LiteralSuffix) = u
  <2>1. ul \o <<>> = ul BY <1>6, ConcatEmptySeq
  <2>2. body = ul BY <1>3, <1>8, <1>12, <2>1
  <2>3. ~(~Ends(body, LiteralSuffix) /\ Ends(body, TemplateSuffix)) BY <1>9, <1>10, <2>2
  <2> QED BY <1>10, <1>12, <2>2, <2>3
<1> QED BY <1>11, <1>12 DEF SpelledBody, body

\* The words that a parser of file names may cut off the front.
SlotWords == {"encrypted_", "private_", "readonly_", "empty_", "executable_",
              "once_", "onchange_", "before_", "after_"}
TypeWords == {"create_", "remove_", "run_", "symlink_", "modify_"}

\* What follows the prefixes of a file name begins with none of these words,
\* and dot_ and literal_ are undone in front of whatever suffixes.
LEMMA RestFacts ==
  ASSUME NEW t \in Seq(Words), t # <<>>, NEW x \in Seq(Words)
  PROVE  LET s == Spelled(t, FilePrefixes)  r == s \o x
         IN /\ s \in Seq(Words) /\ r \in Seq(Words) /\ r # <<>>
            /\ \A w \in SlotWords \cup TypeWords :
                 Starts(r, w) => w = "onchange_" /\ Starts(t, w)
            /\ Dot(r) \in Seq(Words) /\ Undotted(s) \in Seq(Words)
            /\ Dot(r) \o Undotted(s) = t
            /\ Undotted(r) = Undotted(s) \o x
<1> DEFINE s == Spelled(t, FilePrefixes)  r == s \o x
<1>1. "dot_" \in FilePrefixes /\ "literal_" \in FilePrefixes BY DEF FilePrefixes
<1>2. \A w \in Vocabulary : w \in Words BY WordsAssumption
<1>3. "dot_" \in Words /\ "literal_" \in Words /\ "." \in Words BY <1>2 DEF Vocabulary
<1>4. Dot(s) \o Undotted(s) = t BY <1>1, <1>3, SpelledBack
<1>5. \A w \in SlotWords \cup TypeWords :
        w \in FilePrefixes \/ ~Starts(t, w) => s \in Seq(Words) /\ ~Starts(s, w)
  <2>1. SUFFICES ASSUME NEW w \in SlotWords \cup TypeWords, w \in FilePrefixes \/ ~Starts(t, w)
                 PROVE  s \in Seq(Words) /\ ~Starts(s, w)
    OBVIOUS
  <2>2. w \in Words /\ w \notin {"dot_", "literal_"} BY <1>2 DEF Vocabulary, SlotWords, TypeWords
  <2> QED BY <1>1, <1>3, <2>1, <2>2, SpelledStarts
<1>6. s \in Seq(Words) /\ \A w \in SlotWords \cup TypeWords : Starts(s, w) => w = "onchange_" /\ Starts(t, w)
  <2>1. "run_" \in FilePrefixes /\ "run_" \in TypeWords BY DEF FilePrefixes, TypeWords
  <2>2. \A w \in SlotWords \cup TypeWords : w \in FilePrefixes \/ w = "onchange_"
    BY DEF FilePrefixes, SlotWords, TypeWords
  <2> QED BY <1>5, <2>1, <2>2
<1>7. s # <<>>
  <2>1. Starts(t, ".") => <<"dot_">> \o Tail(t) # <<>> BY <1>3
  <2>2. <<"literal_">> \o t # <<>> /\ <<>> \o t # <<>> BY <1>3
  <2> QED BY <2>1, <2>2 DEF Spelled, Opt
<1> HIDE DEF s
<1>8. r \in Seq(Words) /\ r # <<>> /\ Head(r) = Head(s) /\ Tail(r) = Tail(s) \o x
  BY <1>6, <1>7
<1>9. Tail(s) \in Seq(Words) BY <1>6, <1>7
<1> HIDE DEF r
<1>10. \A w : Starts(r, w) <=> Starts(s, w) BY <1>7, <1>8 DEF Starts
<1>11. Dot(r) = Dot(s) /\ Dot(s) \in Seq(Words) BY <1>3, <1>10 DEF Dot, Opt
<1>12. Undotted(r) = Undotted(s) \o x /\ Undotted(s) \in Seq(Words)
  BY <1>6, <1>8, <1>9, <1>10 DEF Undotted, r
<1> QED BY <1>4, <1>6, <1>8, <1>10, <1>11, <1>12 DEF s, r

\* Slots that share no word, and a sequence of words of the slots from k on,
\* at most one of each and in their order.
SlotsApart(slots) ==
  /\ slots \in Seq(SUBSET SlotWords)
  /\ \A j, l \in 1..Len(slots) : j # l => slots[j] \cap slots[l] = {}
InOrder(s, slots, k) ==
  /\ s \in Seq(Words)
  /\ \A i \in 1..Len(s) : \E j \in k..Len(slots) : s[i] \in slots[j]
  /\ \A i, h \in 1..Len(s), j, l \in 1..Len(slots) :
       i < h /\ s[i] \in slots[j] /\ s[h] \in slots[l] => j < l
WordsOf(s) == {s[i] : i \in 1..Len(s)}

\* A word of an earlier slot may stand in front, and so may an optional one.
LEMMA InOrderLonger ==
  ASSUME NEW slots, SlotsApart(slots), NEW k \in Nat \ {0}, NEW s, InOrder(s, slots, k + 1),
         NEW w \in Words, k \in 1..Len(slots), w \in slots[k]
  PROVE  InOrder(<<w>> \o s, slots, k) /\ WordsOf(<<w>> \o s) = WordsOf(s) \cup {w}
<1>0. s \in Seq(Words) /\ Len(s) \in Nat /\ Len(slots) \in Nat
  BY LenProperties DEF InOrder, SlotsApart
<1> DEFINE n == <<w>> \o s
<1>1. n \in Seq(Words) /\ Len(n) = Len(s) + 1 /\ n[1] = w
      /\ \A i \in 1..Len(s) : n[i + 1] = s[i]
  <2>1. <<w>> \in Seq(Words) /\ Len(<<w>>) = 1 /\ <<w>>[1] = w OBVIOUS
  <2> HIDE DEF n
  <2>2. n \in Seq(Words) /\ Len(n) = 1 + Len(s)
        /\ \A i \in 1..1 + Len(s) : n[i] = IF i <= 1 THEN <<w>>[i] ELSE s[i - 1]
    BY <1>0, <2>1, ConcatProperties DEF n
  <2>3. n[1] = w BY <1>0, <2>1, <2>2
  <2>4. ASSUME NEW i \in 1..Len(s) PROVE n[i + 1] = s[i]
    <3>1. i + 1 \in 1..1 + Len(s) /\ ~(i + 1 <= 1) /\ (i + 1) - 1 = i BY <1>0
    <3> QED BY <2>2, <3>1
  <2> QED BY <1>0, <2>2, <2>3, <2>4
<1> HIDE DEF n
<1>3. \A i \in 1..Len(n) : i = 1 \/ (i - 1 \in 1..Len(s) /\ n[i] = s[i - 1])
  <2>1. SUFFICES ASSUME NEW i \in 1..Len(n), i # 1 PROVE i - 1 \in 1..Len(s) /\ n[i] = s[i - 1]
    OBVIOUS
  <2>2. i - 1 \in 1..Len(s) /\ (i - 1) + 1 = i BY <1>0, <1>1, <2>1
  <2> QED BY <1>1, <2>2
<1>4. \A i \in 1..Len(n) : \E j \in k..Len(slots) : n[i] \in slots[j]
  <2>1. k \in k..Len(slots) /\ n[1] \in slots[k] BY <1>0, <1>1
  <2>2. \A i \in 1..Len(s) : \E j \in k..Len(slots) : s[i] \in slots[j] BY <1>0 DEF InOrder
  <2> QED BY <1>3, <2>1, <2>2
<1>5. ASSUME NEW i \in 1..Len(n), NEW h \in 1..Len(n), NEW j \in 1..Len(slots),
             NEW l \in 1..Len(slots), i < h, n[i] \in slots[j], n[h] \in slots[l]
      PROVE  j < l
  <2>1. h - 1 \in 1..Len(s) /\ n[h] = s[h - 1] BY <1>0, <1>1, <1>3, <1>5
  <2>2. CASE i = 1
    <3>1. j = k BY <1>1, <1>5, <2>2 DEF SlotsApart
    <3>2. PICK m \in k + 1..Len(slots) : s[h - 1] \in slots[m] BY <2>1 DEF InOrder
    <3>3. m \in 1..Len(slots) BY <1>0, <3>2
    <3>4. m = l BY <1>5, <2>1, <3>2, <3>3 DEF SlotsApart
    <3> QED BY <3>1, <3>2, <3>4
  <2>3. CASE i # 1
    <3>1. i - 1 \in 1..Len(s) /\ n[i] = s[i - 1] BY <1>3, <2>3
    <3>2. i - 1 < h - 1 BY <1>0, <1>1, <1>5
    <3>3. \A y, z \in 1..Len(slots) : s[i - 1] \in slots[y] /\ s[h - 1] \in slots[z] => y < z
      BY <2>1, <3>1, <3>2 DEF InOrder
    <3> QED BY <1>5, <2>1, <3>1, <3>3
  <2> QED BY <2>2, <2>3
<1>6. InOrder(n, slots, k) BY <1>1, <1>4, <1>5 DEF InOrder
<1>7. WordsOf(n) = WordsOf(s) \cup {w}
  <2>1. \A v \in WordsOf(n) : v \in WordsOf(s) \cup {w} BY <1>1, <1>3 DEF WordsOf
  <2>2. \A i \in 1..Len(s) : i + 1 \in 1..Len(n) BY <1>0, <1>1
  <2>3. 1 \in 1..Len(n) BY <1>0, <1>1
  <2>4. \A v \in WordsOf(s) \cup {w} : v \in WordsOf(n) BY <1>1, <2>2, <2>3 DEF WordsOf
  <2> QED BY <2>1, <2>4
<1> QED BY <1>6, <1>7 DEF n

LEMMA InOrderOpt ==
  ASSUME NEW slots, SlotsApart(slots), NEW k \in Nat \ {0}, NEW m, m = k + 1,
         NEW s, InOrder(s, slots, m),
         NEW x, NEW f, NEW w \in Words, x \in f => k \in 1..Len(slots) /\ w \in slots[k]
  PROVE  /\ InOrder(Prefixed(f, x, w, s), slots, k)
         /\ \A v : v \in WordsOf(Prefixed(f, x, w, s)) <=> v \in WordsOf(s) \/ (x \in f /\ v = w)
<1> DEFINE r == Prefixed(f, x, w, s)
<1>1. CASE x \in f
  <2>1. r = <<w>> \o s BY <1>1 DEF Opt, Prefixed
  <2>2. InOrder(<<w>> \o s, slots, k) /\ WordsOf(<<w>> \o s) = WordsOf(s) \cup {w}
    BY <1>1, InOrderLonger
  <2> QED BY <1>1, <2>1, <2>2
<1>2. CASE x \notin f
  <2>1. s \in Seq(Words) /\ Len(s) \in Nat /\ Len(slots) \in Nat
    BY LenProperties DEF InOrder, SlotsApart
  <2>2. <<>> \o s = s BY <2>1, ConcatEmptySeq
  <2>3. r = s BY <1>2, <2>2 DEF Opt, Prefixed
  <2>4. \A i \in 1..Len(s) : \E j \in k..Len(slots) : s[i] \in slots[j] BY <2>1 DEF InOrder
  <2>5. InOrder(s, slots, k) BY <2>4 DEF InOrder
  <2> QED BY <1>2, <2>3, <2>5
<1> QED BY <1>1, <1>2

\* The parser cuts the prefixes and nothing else, if what follows begins with
\* no prefix.
LEMMA TakenBack ==
  ASSUME NEW slots, SlotsApart(slots), NEW p, InOrder(p, slots, 1), NEW r \in Seq(Words),
         \A k \in DOMAIN slots, w \in SlotWords : w \in slots[k] => ~Starts(r, w)
  PROVE  LET name == p \o r
         IN /\ name \in Seq(Words)
            /\ Taken(name, slots) = Len(p)
            /\ {name[i] : i \in 1..Len(p)} = WordsOf(p)
            /\ SubSeq(name, Len(p) + 1, Len(name)) = r
<1> DEFINE name == p \o r
           fits(i) == \E k \in DOMAIN slots :
                        /\ name[i] \in slots[k]
                        /\ \A j \in 1..i - 1, l \in k..Len(slots) : name[j] \notin slots[l]
           Cuts(n) == (\A i \in 1..n : fits(i)) /\ (n = Len(name) \/ ~fits(n + 1))
<1>1. p \in Seq(Words) /\ Len(p) \in Nat /\ Len(r) \in Nat
      /\ Len(slots) \in Nat /\ DOMAIN slots = 1..Len(slots)
  BY LenProperties DEF InOrder, SlotsApart
<1>2. name \in Seq(Words) /\ Len(name) = Len(p) + Len(r)
      /\ \A i \in 1..Len(p) + Len(r) : name[i] = IF i <= Len(p) THEN p[i] ELSE r[i - Len(p)]
  BY <1>1, ConcatProperties
<1> HIDE DEF name
<1>3. \A i \in 1..Len(p) : name[i] = p[i] BY <1>1, <1>2
<1>4. ASSUME NEW i \in 1..Len(p) PROVE fits(i)
  <2>1. PICK k \in 1..Len(slots) : p[i] \in slots[k] BY DEF InOrder
  <2>2. ASSUME NEW j \in 1..i - 1, NEW l \in k..Len(slots) PROVE name[j] \notin slots[l]
    <3>1. j \in 1..Len(p) /\ j < i /\ l \in 1..Len(slots) BY <1>1
    <3>2. ~(l < k) BY <1>1
    <3> QED BY <1>3, <2>1, <3>1, <3>2 DEF InOrder
  <2> QED BY <1>1, <1>3, <2>1, <2>2
<1>5. Len(p) = Len(name) \/ ~fits(Len(p) + 1)
  <2>1. SUFFICES ASSUME Len(p) # Len(name) PROVE ~fits(Len(p) + 1) OBVIOUS
  <2>2. Len(r) > 0 /\ r # <<>> BY <1>1, <1>2, <2>1
  <2>3. Len(p) + 1 \in 1..Len(p) + Len(r) /\ ~(Len(p) + 1 <= Len(p)) /\ (Len(p) + 1) - Len(p) = 1
    BY <1>1, <2>2
  <2>4. name[Len(p) + 1] = r[1] BY <1>2, <2>3
  <2>5. \A k \in DOMAIN slots : slots[k] \subseteq SlotWords BY <1>1 DEF SlotsApart
  <2>6. \A k \in DOMAIN slots : r[1] \notin slots[k]
    <3>1. \A k \in DOMAIN slots, w \in SlotWords : w \in slots[k] => w # Head(r)
      BY <2>2 DEF Starts
    <3> QED BY <2>2, <2>5, <3>1
  <2> QED BY <2>4, <2>6
<1>6. Cuts(Len(p)) BY <1>4, <1>5
<1>7. ASSUME NEW n \in 0..Len(name), Cuts(n) PROVE n = Len(p)
  <2>1. n \in Nat /\ Len(name) \in Nat BY <1>1, <1>2
  <2>2. CASE n < Len(p)
    <3>1. n + 1 \in 1..Len(p) /\ n # Len(name) BY <1>1, <1>2, <2>1, <2>2
    <3> QED BY <1>4, <1>7, <3>1
  <2>3. CASE n > Len(p)
    <3>1. Len(p) + 1 \in 1..n /\ Len(p) # Len(name) BY <1>1, <1>2, <2>1, <2>3
    <3> QED BY <1>5, <1>7, <3>1
  <2> QED BY <1>1, <2>1, <2>2, <2>3
<1>8. Len(p) \in 0..Len(name) BY <1>1, <1>2
<1> HIDE DEF fits
<1>9. (CHOOSE n \in 0..Len(name) : Cuts(n)) = Len(p)
  <2> HIDE DEF Cuts
  <2> QED BY <1>6, <1>7, <1>8
<1>10. Taken(name, slots) = Len(p) BY <1>9 DEF Taken, fits
<1>11. {name[i] : i \in 1..Len(p)} = WordsOf(p) BY <1>3 DEF WordsOf
<1>12. SubSeq(name, Len(p) + 1, Len(name)) = r
  <2> DEFINE e == SubSeq(name, Len(p) + 1, Len(name))
  <2>1. \A i \in Len(p) + 1..Len(name) : name[i] \in Words BY <1>1, <1>2, ElementOfSeq
  <2>2. e \in Seq(Words) /\ Len(e) = Len(r)
        /\ \A i \in 1..Len(name) - (Len(p) + 1) + 1 : e[i] = name[(Len(p) + 1) + i - 1]
    BY <1>1, <1>2, <2>1, SubSeqProperties
  <2> HIDE DEF e
  <2>3. ASSUME NEW i \in 1..Len(r) PROVE e[i] = r[i]
    <3>1. i \in 1..Len(name) - (Len(p) + 1) + 1 /\ (Len(p) + 1) + i - 1 = Len(p) + i
          /\ Len(p) + i \in 1..Len(p) + Len(r) /\ ~(Len(p) + i <= Len(p)) /\ (Len(p) + i) - Len(p) = i
      BY <1>1, <1>2
    <3>2. name[Len(p) + i] = r[i] BY <1>2, <3>1
    <3> QED BY <2>2, <3>1, <3>2
  <2>4. e = r BY <2>2, <2>3, SeqEqual
  <2> QED BY <2>4 DEF e
<1> QED BY <1>2, <1>10, <1>11, <1>12 DEF name

\* The flags that a file of each type may have, and no other: SourceName would
\* not spell the others.
KindFlags(type) ==
  CASE type \in {"file", "create"} -> FileFlags
    [] type = "modify" -> FileFlags \ {"empty"}
    [] OTHER -> {"template"}

\* The slots of each type, in their order.
LEMMA FileSlots ==
  ASSUME NEW type \in {"file", "create"}
  PROVE  LET s == Slots(type)
         IN /\ SlotsApart(s) /\ Len(s) = 5 /\ DOMAIN s = 1..5
            /\ s[1] = {"encrypted_"} /\ s[2] = {"private_"} /\ s[3] = {"readonly_"}
            /\ s[4] = {"empty_"} /\ s[5] = {"executable_"}
<1> DEFINE s == <<{"encrypted_"}, {"private_"}, {"readonly_"}, {"empty_"}, {"executable_"}>>
<1>1. Slots(type) = s BY DEF Slots
<1>2. /\ Len(s) = 5 /\ DOMAIN s = 1..5
      /\ s[1] = {"encrypted_"} /\ s[2] = {"private_"} /\ s[3] = {"readonly_"}
      /\ s[4] = {"empty_"} /\ s[5] = {"executable_"}
  OBVIOUS
<1>3. s \in Seq(SUBSET SlotWords) BY DEF SlotWords
<1> HIDE DEF s
<1>4. ASSUME NEW j \in 1..5, NEW l \in 1..5, j # l PROVE s[j] \cap s[l] = {}
  BY <1>2, <1>4
<1> QED BY <1>1, <1>2, <1>3, <1>4 DEF SlotsApart

LEMMA ModifySlots ==
  LET s == Slots("modify")
  IN /\ SlotsApart(s) /\ Len(s) = 4 /\ DOMAIN s = 1..4
     /\ s[1] = {"encrypted_"} /\ s[2] = {"private_"} /\ s[3] = {"readonly_"}
     /\ s[4] = {"executable_"}
<1> DEFINE s == <<{"encrypted_"}, {"private_"}, {"readonly_"}, {"executable_"}>>
<1>1. Slots("modify") = s BY DEF Slots
<1>2. /\ Len(s) = 4 /\ DOMAIN s = 1..4
      /\ s[1] = {"encrypted_"} /\ s[2] = {"private_"} /\ s[3] = {"readonly_"}
      /\ s[4] = {"executable_"}
  OBVIOUS
<1>3. s \in Seq(SUBSET SlotWords) BY DEF SlotWords
<1> HIDE DEF s
<1>4. ASSUME NEW j \in 1..4, NEW l \in 1..4, j # l PROVE s[j] \cap s[l] = {}
  BY <1>2, <1>4
<1> QED BY <1>1, <1>2, <1>3, <1>4 DEF SlotsApart

LEMMA ScriptSlots ==
  LET s == Slots("script")
  IN /\ SlotsApart(s) /\ Len(s) = 2 /\ DOMAIN s = 1..2
     /\ s[1] = {"once_", "onchange_"} /\ s[2] = {"before_", "after_"}
<1> DEFINE s == <<{"once_", "onchange_"}, {"before_", "after_"}>>
<1>1. Slots("script") = s BY DEF Slots
<1>2. /\ Len(s) = 2 /\ DOMAIN s = 1..2
      /\ s[1] = {"once_", "onchange_"} /\ s[2] = {"before_", "after_"}
  OBVIOUS
<1>3. s \in Seq(SUBSET SlotWords) BY DEF SlotWords
<1> HIDE DEF s
<1>4. ASSUME NEW j \in 1..2, NEW l \in 1..2, j # l PROVE s[j] \cap s[l] = {}
  BY <1>2, <1>4
<1> QED BY <1>1, <1>2, <1>3, <1>4 DEF SlotsApart

LEMMA NoSlots ==
  ASSUME NEW type \in {"symlink", "remove"}
  PROVE  SlotsApart(Slots(type)) /\ Len(Slots(type)) = 0 /\ DOMAIN Slots(type) = {}
<1>1. Slots(type) = <<>> BY DEF Slots
<1>2. Len(<<>>) = 0 /\ DOMAIN <<>> = {} /\ <<>> \in Seq(SUBSET SlotWords) OBVIOUS
<1> QED BY <1>1, <1>2 DEF SlotsApart

\* Nothing is in order, and an optional word that is not there changes nothing.
LEMMA NothingInOrder ==
  ASSUME NEW slots, NEW k PROVE InOrder(<<>>, slots, k) /\ WordsOf(<<>>) = {}
BY DEF InOrder, WordsOf

LEMMA OptFalse == \A b, s : ~b => Opt(b, s) = <<>> BY DEF Opt

\* The words that SourceName writes between the type and the target name, and
\* what they say.
Says(w, type, f, c, o) ==
  \/ w = "encrypted_" /\ "encrypted" \in f
  \/ w = "private_" /\ "private" \in f
  \/ w = "readonly_" /\ "readonly" \in f
  \/ w = "empty_" /\ "empty" \in f
  \/ w = "executable_" /\ "executable" \in f
  \/ type = "script" /\ w = "once_" /\ c = "once"
  \/ type = "script" /\ w = "onchange_" /\ c = "onchange"
  \/ type = "script" /\ w = "before_" /\ o = "before"
  \/ type = "script" /\ w = "after_" /\ o = "after"

Chain(type, f, c, o) ==
  LET slots == Slots(type)
      opt(k, w) == Opt(k \in f /\ \E i \in DOMAIN slots : w \in slots[i], <<w>>)
  IN opt("encrypted", "encrypted_") \o (opt("private", "private_")
       \o (opt("readonly", "readonly_") \o (opt("empty", "empty_")
       \o (opt("executable", "executable_")
       \o (Opt(type = "script" /\ c = "once", <<"once_">>)
       \o (Opt(type = "script" /\ c = "onchange", <<"onchange_">>)
       \o (Opt(type = "script" /\ o = "before", <<"before_">>)
       \o Opt(type = "script" /\ o = "after", <<"after_">>))))))))

LEMMA ChainOfFile ==
  ASSUME NEW type \in {"file", "create"}, NEW f \in SUBSET FileFlags, NEW c, NEW o
  PROVE  /\ InOrder(Chain(type, f, c, o), Slots(type), 1)
         /\ \A w : w \in WordsOf(Chain(type, f, c, o)) <=> Says(w, type, f, c, o)
<1> DEFINE slots == Slots(type)
           has(k, w) == k \in f /\ \E i \in DOMAIN slots : w \in slots[i]
           p6 == <<>>
           p5 == Opt("executable" \in f, <<"executable_">>) \o p6
           p4 == Opt("empty" \in f, <<"empty_">>) \o p5
           p3 == Opt("readonly" \in f, <<"readonly_">>) \o p4
           p2 == Opt("private" \in f, <<"private_">>) \o p3
           p1 == Opt("encrypted" \in f, <<"encrypted_">>) \o p2
<1>1. \A w \in Vocabulary : w \in Words BY WordsAssumption
<1>2. /\ "encrypted_" \in Words
      /\ "private_" \in Words
      /\ "readonly_" \in Words
      /\ "empty_" \in Words
      /\ "executable_" \in Words
  BY <1>1 DEF Vocabulary
<1>3. /\ SlotsApart(slots) /\ Len(slots) = 5 /\ DOMAIN slots = 1..5
      /\ slots[1] = {"encrypted_"}
      /\ slots[2] = {"private_"}
      /\ slots[3] = {"readonly_"}
      /\ slots[4] = {"empty_"}
      /\ slots[5] = {"executable_"}
  BY FileSlots
<1> HIDE DEF slots
<1>4. /\ Opt(has("encrypted", "encrypted_"), <<"encrypted_">>) = Opt("encrypted" \in f, <<"encrypted_">>)
      /\ Opt(has("private", "private_"), <<"private_">>) = Opt("private" \in f, <<"private_">>)
      /\ Opt(has("readonly", "readonly_"), <<"readonly_">>) = Opt("readonly" \in f, <<"readonly_">>)
      /\ Opt(has("empty", "empty_"), <<"empty_">>) = Opt("empty" \in f, <<"empty_">>)
      /\ Opt(has("executable", "executable_"), <<"executable_">>) = Opt("executable" \in f, <<"executable_">>)
  BY <1>3 DEF Opt
<1>5. Chain(type, f, c, o) =
        Opt(has("encrypted", "encrypted_"), <<"encrypted_">>)
        \o (Opt(has("private", "private_"), <<"private_">>)
        \o (Opt(has("readonly", "readonly_"), <<"readonly_">>)
        \o (Opt(has("empty", "empty_"), <<"empty_">>)
        \o (Opt(has("executable", "executable_"), <<"executable_">>) \o <<>>))))
  <2>1. <<>> \o <<>> = <<>> OBVIOUS
  <2>2. \A w : Opt(type = "script" /\ c = "once", <<w>>) = <<>>
               /\ Opt(type = "script" /\ c = "onchange", <<w>>) = <<>>
               /\ Opt(type = "script" /\ o = "before", <<w>>) = <<>>
               /\ Opt(type = "script" /\ o = "after", <<w>>) = <<>>
    BY OptFalse
  <2> QED BY <2>1, <2>2, Zenon DEF Chain, slots
<1>6. InOrder(p6, slots, 6) /\ WordsOf(p6) = {} /\ p6 = <<>> BY NothingInOrder
<1>7. p5 = Prefixed(f, "executable", "executable_", p6) BY DEF Prefixed
<1>8. p4 = Prefixed(f, "empty", "empty_", p5) BY DEF Prefixed
<1>9. p3 = Prefixed(f, "readonly", "readonly_", p4) BY DEF Prefixed
<1>10. p2 = Prefixed(f, "private", "private_", p3) BY DEF Prefixed
<1>11. p1 = Prefixed(f, "encrypted", "encrypted_", p2) BY DEF Prefixed
<1> HIDE DEF p6, p5, p4, p3, p2, p1, has
<1>12. InOrder(p5, slots, 5)
       /\ \A v : v \in WordsOf(p5) <=> v \in WordsOf(p6) \/ ("executable" \in f /\ v = "executable_")
  <2> DEFINE r == Prefixed(f, "executable", "executable_", p6)
  <2>1. InOrder(p6, slots, 6) /\ 5 \in Nat \ {0} BY <1>6
  <2>2. "executable" \in f => 5 \in 1..Len(slots) /\ "executable_" \in slots[5] BY <1>3
  <2>3. "executable_" \in Words /\ SlotsApart(slots) /\ 6 = 5 + 1 BY <1>2, <1>3
  <2>4. InOrder(r, slots, 5) /\ \A v : v \in WordsOf(r) <=> v \in WordsOf(p6) \/ ("executable" \in f /\ v = "executable_")
    BY <2>1, <2>2, <2>3, InOrderOpt
  <2> QED BY <1>7, <2>4
<1>13. InOrder(p4, slots, 4)
       /\ \A v : v \in WordsOf(p4) <=> v \in WordsOf(p5) \/ ("empty" \in f /\ v = "empty_")
  <2> DEFINE r == Prefixed(f, "empty", "empty_", p5)
  <2>1. InOrder(p5, slots, 5) /\ 4 \in Nat \ {0} BY <1>12
  <2>2. "empty" \in f => 4 \in 1..Len(slots) /\ "empty_" \in slots[4] BY <1>3
  <2>3. "empty_" \in Words /\ SlotsApart(slots) /\ 5 = 4 + 1 BY <1>2, <1>3
  <2>4. InOrder(r, slots, 4) /\ \A v : v \in WordsOf(r) <=> v \in WordsOf(p5) \/ ("empty" \in f /\ v = "empty_")
    BY <2>1, <2>2, <2>3, InOrderOpt
  <2> QED BY <1>8, <2>4
<1>14. InOrder(p3, slots, 3)
       /\ \A v : v \in WordsOf(p3) <=> v \in WordsOf(p4) \/ ("readonly" \in f /\ v = "readonly_")
  <2> DEFINE r == Prefixed(f, "readonly", "readonly_", p4)
  <2>1. InOrder(p4, slots, 4) /\ 3 \in Nat \ {0} BY <1>13
  <2>2. "readonly" \in f => 3 \in 1..Len(slots) /\ "readonly_" \in slots[3] BY <1>3
  <2>3. "readonly_" \in Words /\ SlotsApart(slots) /\ 4 = 3 + 1 BY <1>2, <1>3
  <2>4. InOrder(r, slots, 3) /\ \A v : v \in WordsOf(r) <=> v \in WordsOf(p4) \/ ("readonly" \in f /\ v = "readonly_")
    BY <2>1, <2>2, <2>3, InOrderOpt
  <2> QED BY <1>9, <2>4
<1>15. InOrder(p2, slots, 2)
       /\ \A v : v \in WordsOf(p2) <=> v \in WordsOf(p3) \/ ("private" \in f /\ v = "private_")
  <2> DEFINE r == Prefixed(f, "private", "private_", p3)
  <2>1. InOrder(p3, slots, 3) /\ 2 \in Nat \ {0} BY <1>14
  <2>2. "private" \in f => 2 \in 1..Len(slots) /\ "private_" \in slots[2] BY <1>3
  <2>3. "private_" \in Words /\ SlotsApart(slots) /\ 3 = 2 + 1 BY <1>2, <1>3
  <2>4. InOrder(r, slots, 2) /\ \A v : v \in WordsOf(r) <=> v \in WordsOf(p3) \/ ("private" \in f /\ v = "private_")
    BY <2>1, <2>2, <2>3, InOrderOpt
  <2> QED BY <1>10, <2>4
<1>16. InOrder(p1, slots, 1)
       /\ \A v : v \in WordsOf(p1) <=> v \in WordsOf(p2) \/ ("encrypted" \in f /\ v = "encrypted_")
  <2> DEFINE r == Prefixed(f, "encrypted", "encrypted_", p2)
  <2>1. InOrder(p2, slots, 2) /\ 1 \in Nat \ {0} BY <1>15
  <2>2. "encrypted" \in f => 1 \in 1..Len(slots) /\ "encrypted_" \in slots[1] BY <1>3
  <2>3. "encrypted_" \in Words /\ SlotsApart(slots) /\ 2 = 1 + 1 BY <1>2, <1>3
  <2>4. InOrder(r, slots, 1) /\ \A v : v \in WordsOf(r) <=> v \in WordsOf(p2) \/ ("encrypted" \in f /\ v = "encrypted_")
    BY <2>1, <2>2, <2>3, InOrderOpt
  <2> QED BY <1>11, <2>4
<1>17. Chain(type, f, c, o) = p1
  BY <1>4, <1>5, <1>6, <1>7, <1>8, <1>9, <1>10, <1>11, Zenon DEF Prefixed
<1>18. ASSUME NEW w PROVE w \in WordsOf(p1) <=> Says(w, type, f, c, o)
  <2>1. type # "script" OBVIOUS
  <2> QED BY <1>6, <1>12, <1>13, <1>14, <1>15, <1>16, <2>1 DEF Says
<1> QED BY <1>16, <1>17, <1>18 DEF slots

LEMMA ChainOfModify ==
  ASSUME NEW f \in SUBSET (FileFlags \ {"empty"}), NEW c, NEW o
  PROVE  /\ InOrder(Chain("modify", f, c, o), Slots("modify"), 1)
         /\ \A w : w \in WordsOf(Chain("modify", f, c, o)) <=> Says(w, "modify", f, c, o)
<1> DEFINE slots == Slots("modify")
           has(k, w) == k \in f /\ \E i \in DOMAIN slots : w \in slots[i]
           p5 == <<>>
           p4 == Opt("executable" \in f, <<"executable_">>) \o p5
           p3 == Opt("readonly" \in f, <<"readonly_">>) \o p4
           p2 == Opt("private" \in f, <<"private_">>) \o p3
           p1 == Opt("encrypted" \in f, <<"encrypted_">>) \o p2
<1>1. \A w \in Vocabulary : w \in Words BY WordsAssumption
<1>2. /\ "encrypted_" \in Words
      /\ "private_" \in Words
      /\ "readonly_" \in Words
      /\ "executable_" \in Words
  BY <1>1 DEF Vocabulary
<1>3. /\ SlotsApart(slots) /\ Len(slots) = 4 /\ DOMAIN slots = 1..4
      /\ slots[1] = {"encrypted_"}
      /\ slots[2] = {"private_"}
      /\ slots[3] = {"readonly_"}
      /\ slots[4] = {"executable_"}
  BY ModifySlots
<1> HIDE DEF slots
<1>4. /\ Opt(has("encrypted", "encrypted_"), <<"encrypted_">>) = Opt("encrypted" \in f, <<"encrypted_">>)
      /\ Opt(has("private", "private_"), <<"private_">>) = Opt("private" \in f, <<"private_">>)
      /\ Opt(has("readonly", "readonly_"), <<"readonly_">>) = Opt("readonly" \in f, <<"readonly_">>)
      /\ Opt(has("executable", "executable_"), <<"executable_">>) = Opt("executable" \in f, <<"executable_">>)
      /\ Opt(has("empty", "empty_"), <<"empty_">>) = <<>>
  BY <1>3 DEF Opt
<1>5. Chain("modify", f, c, o) =
        Opt(has("encrypted", "encrypted_"), <<"encrypted_">>)
        \o (Opt(has("private", "private_"), <<"private_">>)
        \o (Opt(has("readonly", "readonly_"), <<"readonly_">>)
        \o (Opt(has("empty", "empty_"), <<"empty_">>)
        \o (Opt(has("executable", "executable_"), <<"executable_">>) \o <<>>))))
  <2>1. <<>> \o <<>> = <<>> OBVIOUS
  <2>2. \A w : Opt("modify" = "script" /\ c = "once", <<w>>) = <<>>
               /\ Opt("modify" = "script" /\ c = "onchange", <<w>>) = <<>>
               /\ Opt("modify" = "script" /\ o = "before", <<w>>) = <<>>
               /\ Opt("modify" = "script" /\ o = "after", <<w>>) = <<>>
    BY OptFalse
  <2> QED BY <2>1, <2>2, Zenon DEF Chain, slots
<1>6. InOrder(p5, slots, 5) /\ WordsOf(p5) = {} /\ p5 = <<>> BY NothingInOrder
<1>7. p4 = Prefixed(f, "executable", "executable_", p5) BY DEF Prefixed
<1>8. p3 = Prefixed(f, "readonly", "readonly_", p4) BY DEF Prefixed
<1>9. p2 = Prefixed(f, "private", "private_", p3) BY DEF Prefixed
<1>10. p1 = Prefixed(f, "encrypted", "encrypted_", p2) BY DEF Prefixed
<1> HIDE DEF p5, p4, p3, p2, p1, has
<1>11. InOrder(p4, slots, 4)
       /\ \A v : v \in WordsOf(p4) <=> v \in WordsOf(p5) \/ ("executable" \in f /\ v = "executable_")
  <2> DEFINE r == Prefixed(f, "executable", "executable_", p5)
  <2>1. InOrder(p5, slots, 5) /\ 4 \in Nat \ {0} BY <1>6
  <2>2. "executable" \in f => 4 \in 1..Len(slots) /\ "executable_" \in slots[4] BY <1>3
  <2>3. "executable_" \in Words /\ SlotsApart(slots) /\ 5 = 4 + 1 BY <1>2, <1>3
  <2>4. InOrder(r, slots, 4) /\ \A v : v \in WordsOf(r) <=> v \in WordsOf(p5) \/ ("executable" \in f /\ v = "executable_")
    BY <2>1, <2>2, <2>3, InOrderOpt
  <2> QED BY <1>7, <2>4
<1>12. InOrder(p3, slots, 3)
       /\ \A v : v \in WordsOf(p3) <=> v \in WordsOf(p4) \/ ("readonly" \in f /\ v = "readonly_")
  <2> DEFINE r == Prefixed(f, "readonly", "readonly_", p4)
  <2>1. InOrder(p4, slots, 4) /\ 3 \in Nat \ {0} BY <1>11
  <2>2. "readonly" \in f => 3 \in 1..Len(slots) /\ "readonly_" \in slots[3] BY <1>3
  <2>3. "readonly_" \in Words /\ SlotsApart(slots) /\ 4 = 3 + 1 BY <1>2, <1>3
  <2>4. InOrder(r, slots, 3) /\ \A v : v \in WordsOf(r) <=> v \in WordsOf(p4) \/ ("readonly" \in f /\ v = "readonly_")
    BY <2>1, <2>2, <2>3, InOrderOpt
  <2> QED BY <1>8, <2>4
<1>13. InOrder(p2, slots, 2)
       /\ \A v : v \in WordsOf(p2) <=> v \in WordsOf(p3) \/ ("private" \in f /\ v = "private_")
  <2> DEFINE r == Prefixed(f, "private", "private_", p3)
  <2>1. InOrder(p3, slots, 3) /\ 2 \in Nat \ {0} BY <1>12
  <2>2. "private" \in f => 2 \in 1..Len(slots) /\ "private_" \in slots[2] BY <1>3
  <2>3. "private_" \in Words /\ SlotsApart(slots) /\ 3 = 2 + 1 BY <1>2, <1>3
  <2>4. InOrder(r, slots, 2) /\ \A v : v \in WordsOf(r) <=> v \in WordsOf(p3) \/ ("private" \in f /\ v = "private_")
    BY <2>1, <2>2, <2>3, InOrderOpt
  <2> QED BY <1>9, <2>4
<1>14. InOrder(p1, slots, 1)
       /\ \A v : v \in WordsOf(p1) <=> v \in WordsOf(p2) \/ ("encrypted" \in f /\ v = "encrypted_")
  <2> DEFINE r == Prefixed(f, "encrypted", "encrypted_", p2)
  <2>1. InOrder(p2, slots, 2) /\ 1 \in Nat \ {0} BY <1>13
  <2>2. "encrypted" \in f => 1 \in 1..Len(slots) /\ "encrypted_" \in slots[1] BY <1>3
  <2>3. "encrypted_" \in Words /\ SlotsApart(slots) /\ 2 = 1 + 1 BY <1>2, <1>3
  <2>4. InOrder(r, slots, 1) /\ \A v : v \in WordsOf(r) <=> v \in WordsOf(p2) \/ ("encrypted" \in f /\ v = "encrypted_")
    BY <2>1, <2>2, <2>3, InOrderOpt
  <2> QED BY <1>10, <2>4
<1>15. <<>> \o p4 = p4
  <2>1. p4 \in Seq(Words) BY <1>11 DEF InOrder
  <2> QED BY <2>1, ConcatEmptySeq
<1>16. Chain("modify", f, c, o) = p1
  BY <1>4, <1>5, <1>6, <1>7, <1>8, <1>9, <1>10, <1>15, Zenon DEF Prefixed
<1>17. ASSUME NEW w PROVE w \in WordsOf(p1) <=> Says(w, "modify", f, c, o)
  <2>1. "modify" # "script" /\ "empty" \notin f OBVIOUS
  <2> QED BY <1>6, <1>11, <1>12, <1>13, <1>14, <2>1 DEF Says
<1> QED BY <1>14, <1>16, <1>17 DEF slots

LEMMA ChainOfScript ==
  ASSUME NEW f \in SUBSET {"template"}, NEW c, NEW o
  PROVE  /\ InOrder(Chain("script", f, c, o), Slots("script"), 1)
         /\ \A w : w \in WordsOf(Chain("script", f, c, o)) <=> Says(w, "script", f, c, o)
<1> DEFINE slots == Slots("script")
           w1 == IF c = "onchange" THEN "onchange_" ELSE "once_"
           w2 == IF o = "after" THEN "after_" ELSE "before_"
           p3 == <<>>
           p2 == Opt(o \in {"before", "after"}, <<w2>>) \o p3
           p1 == Opt(c \in {"once", "onchange"}, <<w1>>) \o p2
<1>0. /\ p2 = Prefixed({"before", "after"}, o, w2, p3)
      /\ p1 = Prefixed({"once", "onchange"}, c, w1, p2)
  BY DEF Prefixed
<1>1. \A w \in Vocabulary : w \in Words BY WordsAssumption
<1>2. w1 \in Words /\ w2 \in Words BY <1>1 DEF Vocabulary
<1>3. /\ SlotsApart(slots) /\ Len(slots) = 2
      /\ slots[1] = {"once_", "onchange_"} /\ slots[2] = {"before_", "after_"}
  BY ScriptSlots
<1> HIDE DEF slots
<1>4. InOrder(p3, slots, 3) /\ WordsOf(p3) = {} BY NothingInOrder
<1> HIDE DEF p3, p2, p1
<1>5. InOrder(p2, slots, 2)
      /\ \A v : v \in WordsOf(p2) <=> v \in WordsOf(p3) \/ (o \in {"before", "after"} /\ v = w2)
  <2>1. o \in {"before", "after"} => 2 \in 1..Len(slots) /\ w2 \in slots[2] BY <1>3
  <2>2. 2 \in Nat \ {0} OBVIOUS
  <2> HIDE DEF w2
  <2> QED BY <1>0, <1>2, <1>3, <1>4, <2>1, <2>2, InOrderOpt
<1>6. InOrder(p1, slots, 1)
      /\ \A v : v \in WordsOf(p1) <=> v \in WordsOf(p2) \/ (c \in {"once", "onchange"} /\ v = w1)
  <2>1. c \in {"once", "onchange"} => 1 \in 1..Len(slots) /\ w1 \in slots[1] BY <1>3
  <2>2. InOrder(p2, slots, 2) /\ 1 \in Nat \ {0} BY <1>5
  <2> HIDE DEF w1
  <2> QED BY <1>0, <1>2, <1>3, <2>1, <2>2, InOrderOpt
<1>7. Chain("script", f, c, o) = Opt(c = "once", <<"once_">>)
        \o (Opt(c = "onchange", <<"onchange_">>)
        \o (Opt(o = "before", <<"before_">>) \o Opt(o = "after", <<"after_">>)))
  <2> DEFINE x == Opt("script" = "script" /\ c = "once", <<"once_">>)
                    \o (Opt("script" = "script" /\ c = "onchange", <<"onchange_">>)
                    \o (Opt("script" = "script" /\ o = "before", <<"before_">>)
                    \o Opt("script" = "script" /\ o = "after", <<"after_">>)))
  <2>1. "encrypted" \notin f /\ "private" \notin f /\ "readonly" \notin f /\ "empty" \notin f
        /\ "executable" \notin f
    OBVIOUS
  <2>2. \A k, w : k \notin f => Opt(k \in f /\ \E i \in DOMAIN slots : w \in slots[i], <<w>>) = <<>>
    BY OptFalse
  <2>3. x \in Seq(Words)
    <3>1. \A w \in {"once_", "onchange_", "before_", "after_"}, b \in BOOLEAN : Opt(b, <<w>>) \in Seq(Words)
      BY <1>1 DEF Opt, Vocabulary
    <3> DEFINE y1 == Opt("script" = "script" /\ c = "once", <<"once_">>)
               y2 == Opt("script" = "script" /\ c = "onchange", <<"onchange_">>)
               y3 == Opt("script" = "script" /\ o = "before", <<"before_">>)
               y4 == Opt("script" = "script" /\ o = "after", <<"after_">>)
    <3>2. y1 \in Seq(Words) /\ y2 \in Seq(Words) /\ y3 \in Seq(Words) /\ y4 \in Seq(Words)
      BY <3>1
    <3> HIDE DEF y1, y2, y3, y4
    <3>3. y1 \o (y2 \o (y3 \o y4)) \in Seq(Words) BY <3>2
    <3> QED BY <3>3 DEF y1, y2, y3, y4
  <2>4. Chain("script", f, c, o) = <<>> \o (<<>> \o (<<>> \o (<<>> \o (<<>> \o x))))
    BY <2>1, <2>2, Zenon DEF Chain, slots
  <2> HIDE DEF x
  <2>5. <<>> \o x = x BY <2>3, ConcatEmptySeq
  <2>6. Chain("script", f, c, o) = x BY <2>4, <2>5
  <2> QED BY <2>6 DEF x
<1>8. Opt(o = "before", <<"before_">>) \o Opt(o = "after", <<"after_">>) = p2
  <2>1. <<"after_">> \o <<>> = <<"after_">> /\ <<>> \o <<"after_">> = <<"after_">>
        /\ <<"before_">> \o <<>> = <<"before_">> /\ <<>> \o <<>> = <<>>
    OBVIOUS
  <2>2. CASE o = "after" BY <2>1, <2>2 DEF p2, p3, Opt
  <2>3. CASE o = "before" BY <2>1, <2>3 DEF p2, p3, Opt
  <2>4. CASE o \notin {"before", "after"} BY <2>1, <2>4 DEF p2, p3, Opt
  <2> QED BY <2>2, <2>3, <2>4
<1>9. Opt(c = "once", <<"once_">>) \o (Opt(c = "onchange", <<"onchange_">>) \o p2) = p1
  <2>1. p2 \in Seq(Words) BY <1>5 DEF InOrder
  <2>2. <<>> \o p2 = p2 BY <2>1, ConcatEmptySeq
  <2>3. CASE c = "onchange"
    <3>1. <<"onchange_">> \o p2 \in Seq(Words) BY <1>1, <2>1 DEF Vocabulary
    <3>2. <<>> \o (<<"onchange_">> \o p2) = <<"onchange_">> \o p2 BY <3>1, ConcatEmptySeq
    <3> QED BY <2>3, <3>2 DEF p1, Opt
  <2>4. CASE c = "once" BY <2>2, <2>4 DEF p1, Opt
  <2>5. CASE c \notin {"once", "onchange"} BY <2>2, <2>5 DEF p1, Opt
  <2> QED BY <2>3, <2>4, <2>5
<1>10. Chain("script", f, c, o) = p1 BY <1>7, <1>8, <1>9
<1>11. ASSUME NEW w PROVE w \in WordsOf(p1) <=> Says(w, "script", f, c, o)
  <2>1. f \cap {"encrypted", "private", "readonly", "empty", "executable"} = {} OBVIOUS
  <2>2. w \in WordsOf(p1) <=> \/ w = w1 /\ c \in {"once", "onchange"}
                              \/ w = w2 /\ o \in {"before", "after"}
    <3> HIDE DEF w1, w2
    <3> QED BY <1>4, <1>5, <1>6
  <2> QED BY <2>1, <2>2 DEF Says
<1> QED BY <1>6, <1>10, <1>11 DEF slots

LEMMA ChainOfNone ==
  ASSUME NEW type \in {"symlink", "remove"}, NEW f \in SUBSET {"template"}, NEW c, NEW o
  PROVE  /\ InOrder(Chain(type, f, c, o), Slots(type), 1)
         /\ \A w : w \in WordsOf(Chain(type, f, c, o)) <=> Says(w, type, f, c, o)
<1> DEFINE slots == Slots(type)
<1>1. \A w : Opt(type = "script" /\ c = "once", <<w>>) = <<>>
             /\ Opt(type = "script" /\ c = "onchange", <<w>>) = <<>>
             /\ Opt(type = "script" /\ o = "before", <<w>>) = <<>>
             /\ Opt(type = "script" /\ o = "after", <<w>>) = <<>>
  BY DEF Opt
<1>2. "encrypted" \notin f /\ "private" \notin f /\ "readonly" \notin f /\ "empty" \notin f
      /\ "executable" \notin f
  OBVIOUS
<1>3. \A k, w : k \notin f => Opt(k \in f /\ \E i \in DOMAIN slots : w \in slots[i], <<w>>) = <<>>
  BY OptFalse
<1>4. <<>> \o <<>> = <<>> OBVIOUS
<1>5. Chain(type, f, c, o) = <<>>
  <2> HIDE DEF slots
  <2> QED BY <1>1, <1>2, <1>3, <1>4, Zenon DEF Chain, slots
<1>6. ASSUME NEW w PROVE ~Says(w, type, f, c, o)
  <2>1. f \cap {"encrypted", "private", "readonly", "empty", "executable"} = {} OBVIOUS
  <2>2. type # "script" OBVIOUS
  <2> QED BY <2>1, <2>2 DEF Says
<1> QED BY <1>5, <1>6, NothingInOrder

LEMMA ChainFacts ==
  ASSUME NEW type \in FileTypes, NEW f \in SUBSET KindFlags(type), NEW c, NEW o
  PROVE  /\ SlotsApart(Slots(type)) /\ InOrder(Chain(type, f, c, o), Slots(type), 1)
         /\ \A k \in DOMAIN Slots(type) : "onchange_" \in Slots(type)[k] => type = "script"
         /\ \A w : w \in WordsOf(Chain(type, f, c, o)) <=> Says(w, type, f, c, o)
<1>1. CASE type \in {"file", "create"}
  <2>1. f \in SUBSET FileFlags BY <1>1 DEF KindFlags
  <2>2. \A k \in DOMAIN Slots(type) : "onchange_" \notin Slots(type)[k]
    BY <1>1, FileSlots
  <2> QED BY <1>1, <2>1, <2>2, ChainOfFile, FileSlots
<1>2. CASE type = "modify"
  <2>1. f \in SUBSET (FileFlags \ {"empty"}) BY <1>2 DEF KindFlags
  <2>2. \A k \in DOMAIN Slots(type) : "onchange_" \notin Slots(type)[k]
    BY <1>2, ModifySlots
  <2> QED BY <1>2, <2>1, <2>2, ChainOfModify, ModifySlots
<1>3. CASE type = "script"
  <2>1. f \in SUBSET {"template"} BY <1>3 DEF KindFlags
  <2> QED BY <1>3, <2>1, ChainOfScript, ScriptSlots
<1>4. CASE type \in {"symlink", "remove"}
  <2>1. f \in SUBSET {"template"} BY <1>4 DEF KindFlags
  <2> QED BY <1>4, <2>1, ChainOfNone, NoSlots
<1> QED BY <1>1, <1>2, <1>3, <1>4 DEF FileTypes

\* The first word tells the type.
LEMMA TypeBack ==
  ASSUME NEW type \in FileTypes, NEW bare \in Seq(Words), \A w \in TypeWords : ~Starts(bare, w)
  PROVE  LET name == (IF type = "file" THEN <<>> ELSE <<TypePrefix[type]>>) \o bare
         IN /\ name \in Seq(Words) /\ TypeOf(name) = type
            /\ (IF type = "file" THEN name ELSE Tail(name)) = bare
<1> DEFINE Types == {"create", "remove", "script", "symlink", "modify"}
<1>1. /\ DOMAIN TypePrefix = Types
      /\ TypePrefix["create"] = "create_" /\ TypePrefix["remove"] = "remove_"
      /\ TypePrefix["script"] = "run_" /\ TypePrefix["symlink"] = "symlink_"
      /\ TypePrefix["modify"] = "modify_"
  BY DEF TypePrefix
<1>2. \A k \in Types : TypePrefix[k] \in TypeWords /\ \A h \in Types : TypePrefix[k] = TypePrefix[h] => k = h
  BY <1>1 DEF TypeWords
<1>3. CASE type = "file"
  <2>1. <<>> \o bare = bare BY ConcatEmptySeq
  <2>2. ~\E k \in DOMAIN TypePrefix : Starts(bare, TypePrefix[k]) BY <1>1, <1>2
  <2> QED BY <1>3, <2>1, <2>2 DEF TypeOf
<1>4. CASE type # "file"
  <2>1. type \in Types BY <1>4 DEF FileTypes
  <2> DEFINE w == TypePrefix[type]
  <2>2. w \in Words
    <3>1. \A v \in TypeWords : v \in Words BY WordsAssumption DEF TypeWords, Vocabulary
    <3> QED BY <1>2, <2>1, <3>1
  <2> HIDE DEF w
  <2> DEFINE name == <<w>> \o bare
  <2>3. name \in Seq(Words) /\ name # <<>> /\ Head(name) = w /\ Tail(name) = bare BY <2>2
  <2> HIDE DEF name
  <2>4. \A k \in DOMAIN TypePrefix : Starts(name, TypePrefix[k]) <=> k = type
    BY <1>1, <1>2, <2>1, <2>3 DEF Starts, w
  <2>5. TypeOf(name) = type
    <3>1. \E k \in DOMAIN TypePrefix : Starts(name, TypePrefix[k]) BY <1>1, <2>1, <2>4
    <3>2. (CHOOSE k \in DOMAIN TypePrefix : Starts(name, TypePrefix[k])) = type
      BY <3>1, <2>4
    <3> QED BY <3>1, <3>2 DEF TypeOf
  <2> QED BY <1>4, <2>3, <2>5 DEF name, w
<1> QED BY <1>3, <1>4

\* The attributes p are those of a source name made from these.
Spells(p, t, type, f, c, o) ==
  /\ p.target = t /\ p.type = type /\ p.flags = f
  /\ p.condition = IF type # "script" THEN "none"
                   ELSE IF c \in {"once", "onchange"} THEN c ELSE "always"
  /\ p.order = IF type = "script" /\ o \in {"before", "after"} THEN o ELSE "during"

\* What is cut off and what is left say the attributes that SourceName spelled.
LEMMA AttrBack ==
  ASSUME NEW type \in FileTypes, NEW f \in SUBSET KindFlags(type), NEW c, NEW o,
         NEW t \in Seq(Words), t # <<>>,
         NEW prefixes, \A w : w \in prefixes <=> Says(w, type, f, c, o)
  PROVE  Spells(FileAttr(type, prefixes, Spelled(t, FilePrefixes) \o NameEnd(t, f)), t, type, f, c, o)
<1> DEFINE b == "template" \in f
           x == NameEnd(t, f)
           s == Spelled(t, FilePrefixes)
           rest == s \o x
           u == Undotted(s)
           y == Dot(rest)
           body == IF "encrypted_" \in prefixes THEN CutEnd(Undotted(rest), EncryptedSuffix)
                   ELSE Undotted(rest)
           template == ~Ends(body, LiteralSuffix) /\ Ends(body, TemplateSuffix)
           flag == [encrypted |-> "encrypted_", private |-> "private_", readonly |-> "readonly_",
                    empty |-> "empty_", executable |-> "executable_"]
<1>2. x \in Seq(Words)
  <2>1. TemplateSuffix \in Seq(Words) /\ LiteralSuffix \in Seq(Words) /\ EncryptedSuffix \in Seq(Words)
    BY WordsAssumption DEF TemplateSuffix, LiteralSuffix, Vocabulary
  <2> QED BY <2>1 DEF NameEnd, Opt
<1>3. u \in Seq(Words) /\ y \in Seq(Words) /\ y \o u = t /\ Undotted(rest) = u \o x
  <2> HIDE DEF x
  <2> QED BY <1>2, RestFacts
<1>4. "encrypted_" \in prefixes <=> "encrypted" \in f BY DEF Says
<1>6. template = b /\ CutEnd(IF template THEN CutEnd(body, TemplateSuffix) ELSE body, LiteralSuffix) = u
  <2>1. body = Body(u, t, f) BY <1>3, <1>4 DEF Body
  <2>2. y \o u = t BY <1>3
  <2> HIDE DEF u, y, body
  <2>3. SpelledBody(u, t, f) BY <1>3, <2>2, BodyBack
  <2>4. template = b BY <2>1, <2>3 DEF SpelledBody
  <2> HIDE DEF template
  <2> QED BY <2>1, <2>3, <2>4 DEF SpelledBody
<1>7. {k \in DOMAIN flag : flag[k] \in prefixes} \cup {k \in {"template"} : b} = f
  <2>1. f \subseteq FileFlags BY DEF KindFlags, FileFlags, FileTypes
  <2>2. DOMAIN flag = FileFlags \ {"template"} BY DEF FileFlags
  <2>3. \A k \in DOMAIN flag : flag[k] \in prefixes <=> k \in f
    <3>1. /\ "encrypted_" \in prefixes <=> "encrypted" \in f
          /\ "private_" \in prefixes <=> "private" \in f
          /\ "readonly_" \in prefixes <=> "readonly" \in f
          /\ "empty_" \in prefixes <=> "empty" \in f
          /\ "executable_" \in prefixes <=> "executable" \in f
      BY DEF Says
    <3> QED BY <3>1
  <2> HIDE DEF flag
  <2> QED BY <2>1, <2>2, <2>3 DEF FileFlags
<1> DEFINE C == CASE type # "script" -> "none"
                  [] type = "script" /\ "once_" \in prefixes -> "once"
                  [] type = "script" /\ "onchange_" \in prefixes -> "onchange"
                  [] OTHER -> "always"
           O == CASE "before_" \in prefixes -> "before"
                  [] "after_" \in prefixes -> "after"
                  [] OTHER -> "during"
           g == {k \in DOMAIN flag : flag[k] \in prefixes} \cup {k \in {"template"} : template}
           v == CutEnd(IF template THEN CutEnd(body, TemplateSuffix) ELSE body, LiteralSuffix)
<1>8. /\ "once_" \in prefixes <=> type = "script" /\ c = "once"
      /\ "onchange_" \in prefixes <=> type = "script" /\ c = "onchange"
      /\ "before_" \in prefixes <=> type = "script" /\ o = "before"
      /\ "after_" \in prefixes <=> type = "script" /\ o = "after"
  BY DEF Says
<1>9. C = IF type # "script" THEN "none" ELSE IF c \in {"once", "onchange"} THEN c ELSE "always"
  BY <1>8
<1>10. O = IF type = "script" /\ o \in {"before", "after"} THEN o ELSE "during" BY <1>8
<1>11. FileAttr(type, prefixes, rest)
         = [target |-> y \o v, type |-> type, flags |-> g, condition |-> C, order |-> O]
  <2> HIDE DEF rest
  <2> QED BY Zenon DEF FileAttr
<1>12. g = f /\ y \o v = t
  <2> HIDE DEF y, u, body, flag
  <2> QED BY <1>3, <1>6, <1>7
<1> HIDE DEF C, O, g, v, y
<1> QED BY <1>9, <1>10, <1>11, <1>12 DEF Spells, rest, s, x

\* Words of the slots in front of a name that begins with no type leave it so.
LEMMA NoTypeInFront ==
  ASSUME NEW slots, SlotsApart(slots), NEW p, InOrder(p, slots, 1), NEW r \in Seq(Words),
         \A w \in TypeWords : ~Starts(r, w)
  PROVE  p \o r \in Seq(Words) /\ \A w \in TypeWords : ~Starts(p \o r, w)
<1>1. p \in Seq(Words) /\ Len(p) \in Nat /\ p \o r \in Seq(Words) BY LenProperties DEF InOrder
<1>2. CASE p = <<>>
  <2>1. p \o r = r BY <1>2, ConcatEmptySeq
  <2> QED BY <1>1, <2>1
<1>3. CASE p # <<>>
  <2>1. Head(p \o r) = p[1] /\ 1 \in 1..Len(p) BY <1>1, <1>3
  <2>2. PICK j \in 1..Len(slots) : p[1] \in slots[j] BY <2>1 DEF InOrder
  <2>3. slots[j] \subseteq SlotWords BY <2>2, ElementOfSeq DEF SlotsApart
  <2>4. p[1] \notin TypeWords BY <2>2, <2>3 DEF SlotWords, TypeWords
  <2> QED BY <1>1, <2>1, <2>4 DEF Starts
<1> QED BY <1>2, <1>3

\* The parser finds in the source name of a file the attributes it was made
\* from; the condition and the order are what SourceName spells of them.
LEMMA FileBack ==
  ASSUME NEW a, a.type \in FileTypes, a.flags \in SUBSET KindFlags(a.type),
         a.target \in Seq(Words), a.target # <<>>,
         a.type = "script" => ~Starts(a.target, "onchange_")
  PROVE  /\ FileSourceName(a) \in Seq(Words)
         /\ Spells(ParseFile(FileSourceName(a)), a.target, a.type, a.flags, a.condition, a.order)
<1> DEFINE type == a.type
           f == a.flags
           t == a.target
           chain == Chain(type, f, a.condition, a.order)
           front == IF type = "file" THEN <<>> ELSE <<TypePrefix[type]>>
           rest == Spelled(t, FilePrefixes) \o NameEnd(t, f)
           bare == chain \o rest
           name == FileSourceName(a)
           slots == Slots(type)
<1>1. SlotsApart(slots) /\ InOrder(chain, slots, 1)
      /\ \A w : w \in WordsOf(chain) <=> Says(w, type, f, a.condition, a.order)
  BY ChainFacts
<1>2. NameEnd(t, f) \in Seq(Words)
  <2>1. TemplateSuffix \in Seq(Words) /\ LiteralSuffix \in Seq(Words) /\ EncryptedSuffix \in Seq(Words)
    BY WordsAssumption DEF TemplateSuffix, LiteralSuffix, Vocabulary
  <2> QED BY <2>1 DEF NameEnd, Opt
<1>3. /\ rest \in Seq(Words)
      /\ \A w \in SlotWords \cup TypeWords : Starts(rest, w) => w = "onchange_" /\ Starts(t, w)
  BY <1>2, RestFacts
<1>4. \A w \in TypeWords : ~Starts(rest, w) BY <1>3 DEF TypeWords
<1>5. \A k \in DOMAIN slots, w \in SlotWords : w \in slots[k] => ~Starts(rest, w)
  BY <1>3, ChainFacts
<1>6. chain \in Seq(Words) BY <1>1 DEF InOrder
<1>7. name = (front \o chain) \o rest BY Zenon DEF FileSourceName, FilePrefix, Chain, NameEnd
<1>8. front \in Seq(Words)
  <2>1. type # "file" => TypePrefix[type] \in TypeWords BY DEF FileTypes, TypePrefix, TypeWords
  <2>2. \A v \in TypeWords : v \in Words BY WordsAssumption DEF TypeWords, Vocabulary
  <2> QED BY <2>1, <2>2
<1> HIDE DEF chain, rest, front, slots
<1>9. name = front \o bare BY <1>3, <1>6, <1>7, <1>8, Regroup, Zenon
<1>10. bare \in Seq(Words) /\ \A w \in TypeWords : ~Starts(bare, w)
  BY <1>1, <1>3, <1>4, NoTypeInFront
<1>11. /\ Taken(bare, slots) = Len(chain)
      /\ {bare[i] : i \in 1..Len(chain)} = WordsOf(chain)
      /\ SubSeq(bare, Len(chain) + 1, Len(bare)) = rest
  BY <1>1, <1>3, <1>5, TakenBack
<1> HIDE DEF bare
<1>12. name \in Seq(Words) /\ TypeOf(name) = type
       /\ (IF type = "file" THEN name ELSE Tail(name)) = bare
  BY <1>9, <1>10, TypeBack DEF front
<1> HIDE DEF name, type
<1>13. ParseFile(name) = FileAttr(type, WordsOf(chain), rest)
  BY <1>11, <1>12, Zenon DEF ParseFile, slots
<1>14. Spells(FileAttr(type, WordsOf(chain), rest), t, type, f, a.condition, a.order)
  <2>1. /\ type \in FileTypes /\ f \in SUBSET KindFlags(type)
        /\ t \in Seq(Words) /\ t # <<>>
    BY DEF type
  <2>2. \A w : w \in WordsOf(chain) <=> Says(w, type, f, a.condition, a.order) BY <1>1
  <2> HIDE DEF t, f
  <2> QED BY <2>1, <2>2, AttrBack DEF rest
<1> QED BY <1>12, <1>13, <1>14 DEF name, type

\* A parsed name has the attributes of its kind and no other field.
LEMMA ParseFileShape ==
  ASSUME NEW name
  PROVE  LET p == ParseFile(name)
         IN p = [target |-> p.target, type |-> p.type, flags |-> p.flags,
                 condition |-> p.condition, order |-> p.order]
<1>1. ASSUME NEW type, NEW prefixes, NEW rest
      PROVE  \E t, y, f, c, o : FileAttr(type, prefixes, rest)
               = [target |-> t, type |-> y, flags |-> f, condition |-> c, order |-> o]
  <2> DEFINE p == FileAttr(type, prefixes, rest)
  <2>1. p = [target |-> p.target, type |-> p.type, flags |-> p.flags,
             condition |-> p.condition, order |-> p.order]
    BY DEF FileAttr
  <2> HIDE DEF p
  <2>2. \E t, y, f, c, o :
          p = [target |-> t, type |-> y, flags |-> f, condition |-> c, order |-> o]
    BY <2>1
  <2> QED BY <2>2 DEF p
<1>2. \E type, prefixes, rest : ParseFile(name) = FileAttr(type, prefixes, rest)
  BY Zenon DEF ParseFile
<1>3. PICK t, y, f, c, o : ParseFile(name)
        = [target |-> t, type |-> y, flags |-> f, condition |-> c, order |-> o]
  BY <1>1, <1>2
<1> QED BY <1>3

\* The name that SourceName makes for a file is parsed back to the attributes
\* it was made from, whatever words the target name is made of, but for a script
\* whose target name begins with onchange_: filePrefixRx does not have that word.
THEOREM FileNamesReadBack ==
  ASSUME NEW type \in FileTypes, NEW f \in SUBSET KindFlags(type),
         NEW t \in Seq(Words), t # <<>>, type = "script" => ~Starts(t, "onchange_"),
         NEW c, c \in (IF type = "script" THEN Conditions \ {"none"} ELSE {"none"}),
         NEW o, o \in (IF type = "script" THEN Orders ELSE {"during"})
  PROVE  LET a == [target |-> t, type |-> type, flags |-> f, condition |-> c, order |-> o]
         IN ParseFile(SourceName(a)) = a
<1> DEFINE a == [target |-> t, type |-> type, flags |-> f, condition |-> c, order |-> o]
           p == ParseFile(FileSourceName(a))
<1>1. /\ a.target = t /\ a.type = type /\ a.flags = f /\ a.condition = c /\ a.order = o
  OBVIOUS
<1>2. SourceName(a) = FileSourceName(a) BY <1>1 DEF SourceName, FileTypes
<1>3. p = [target |-> p.target, type |-> p.type, flags |-> p.flags,
           condition |-> p.condition, order |-> p.order]
  BY ParseFileShape
<1>4. Spells(p, t, type, f, c, o)
  <2> HIDE DEF a
  <2> QED BY <1>1, FileBack
<1> HIDE DEF p
<1>5. p.target = t /\ p.type = type /\ p.flags = f /\ p.condition = c /\ p.order = o
  BY <1>4 DEF Spells, Conditions, Orders
<1>6. p = a BY <1>3, <1>5
<1> QED BY <1>2, <1>6 DEF p

----------------------------------------------------------------------------
(* Source directories                                                      *)

\* No entry of such a directory is in an external one: its attributes and
\* those of the directories above it are what their names spell.
AttrSpelled(dir, name) == IF dir THEN ParseDir(name) ELSE ParseFile(name)

LEMMA Spelling ==
  ASSUME NEW s, Placed(s), NEW p \in DOMAIN s
  PROVE  /\ p \in Seq(Seq(Words)) /\ Len(p) \in Nat \ {0} /\ DOMAIN p = 1..Len(p)
         /\ AttrIn(s, p) = AttrSpelled(s[p].dir, p[Len(p)])
         /\ TargetIn(s, p) = [i \in 1..Len(p) |-> AttrSpelled(s[p].dir \/ i # Len(p), p[i]).target]
<1>1. p \in Seq(Seq(Words)) /\ Len(p) \in Nat \ {0} /\ DOMAIN p = 1..Len(p)
  BY EmptySeq, LenProperties DEF Placed
<1>2. ~IsExternal(p)
  <2>1. SUFFICES ASSUME Len(p) > 1 PROVE "external" \notin ParseDir(p[1]).flags
    BY DEF IsExternal
  <2> DEFINE q == SubSeq(p, 1, 1)
  <2>2. 1 \in 1..Len(p) - 1 BY <1>1, <2>1
  <2>3. q \in DOMAIN s /\ s[q].dir BY <2>2 DEF Placed
  <2>4. Len(q) = 1 /\ q[1] = p[1] BY <1>1
  <2> HIDE DEF q
  <2>5. Last(q) = p[1] BY <2>4 DEF Last
  <2> QED BY <2>3, <2>5 DEF Placed
<1>3. AttrIn(s, p) = AttrSpelled(s[p].dir, p[Len(p)]) BY <1>2 DEF AttrIn, AttrSpelled, Last
<1>4. TargetIn(s, p) = [i \in 1..Len(p) |-> IF i = Len(p) THEN AttrIn(s, p).target
                                            ELSE ParseDir(p[i]).target]
  BY <1>1, <1>2, Zenon DEF TargetIn
<1>5. ASSUME NEW i \in 1..Len(p)
      PROVE  TargetIn(s, p)[i] = AttrSpelled(s[p].dir \/ i # Len(p), p[i]).target
  <2>1. CASE i = Len(p) BY <1>3, <1>4, <2>1 DEF AttrSpelled
  <2>2. CASE i # Len(p) BY <1>4, <2>2 DEF AttrSpelled
  <2> QED BY <2>1, <2>2
<1>6. TargetIn(s, p) = [i \in 1..Len(p) |-> AttrSpelled(s[p].dir \/ i # Len(p), p[i]).target]
  BY <1>4, <1>5
<1> QED BY <1>1, <1>3, <1>6

\* What the parsers return: records of one shape, with the type of the entry.
LEMMA ParseDirShape ==
  ASSUME NEW name
  PROVE  LET a == ParseDir(name)
         IN /\ a = [target |-> a.target, type |-> "dir", flags |-> a.flags,
                    condition |-> "none", order |-> "during"]
            /\ a.flags \in SUBSET DirFlags
<1>1. \E t, f : f \in SUBSET DirFlags /\ ParseDir(name)
        = [target |-> t, type |-> "dir", flags |-> f, condition |-> "none", order |-> "during"]
  <2> DEFINE a == ParseDir(name)
  <2>1. a = [target |-> a.target, type |-> "dir", flags |-> a.flags,
             condition |-> "none", order |-> "during"]
        /\ a.flags \in SUBSET DirFlags
    BY DEF ParseDir
  <2> HIDE DEF a
  <2>2. \E t, f : f \in SUBSET DirFlags /\ a
        = [target |-> t, type |-> "dir", flags |-> f, condition |-> "none", order |-> "during"]
    BY <2>1
  <2> QED BY <2>2 DEF a
<1> QED BY <1>1

LEMMA ParseFileType == ASSUME NEW name PROVE ParseFile(name).type \in FileTypes
<1>1. \A type, prefixes, rest : FileAttr(type, prefixes, rest).type = type BY DEF FileAttr
<1>2. \E prefixes, rest : ParseFile(name) = FileAttr(TypeOf(name), prefixes, rest)
  BY Zenon DEF ParseFile
<1>3. TypeOf(name) \in FileTypes
  <2>1. DOMAIN TypePrefix \subseteq FileTypes BY DEF TypePrefix, FileTypes
  <2> QED BY <2>1, Zenon DEF TypeOf, FileTypes
<1> QED BY <1>1, <1>2, <1>3

\* What parseModifier returns: a type that is set is one of a file, and
\* external is not set.
GoodModifier(m) ==
  /\ m["external"][1] # "set"
  /\ m["type"][1] = "set" => m["type"][2] \in FileTypes

LEMMA ModifyDir ==
  ASSUME NEW m, GoodModifier(m), NEW name, "external" \notin ParseDir(name).flags
  PROVE  LET a == ParseDir(name)
             f == {k \in DirFlags : Holds(m, k, a.flags)}
         IN /\ Modify(m, a) = [target |-> a.target, type |-> "dir", flags |-> f,
                               condition |-> "none", order |-> "during"]
            /\ f \in SUBSET DirFlags /\ "external" \notin f
<1> DEFINE a == ParseDir(name)
           f == {k \in DirFlags : Holds(m, k, a.flags)}
<1>1. a = [target |-> a.target, type |-> "dir", flags |-> a.flags,
           condition |-> "none", order |-> "during"]
  BY ParseDirShape
<1>2. "external" \notin f BY DEF Holds, GoodModifier
<1> HIDE DEF a, f
<1>3. [a EXCEPT !.flags = f] = [target |-> a.target, type |-> "dir", flags |-> f,
                               condition |-> "none", order |-> "during"]
  BY <1>1
<1>4. Modify(m, a) = [a EXCEPT !.flags = f] BY <1>1 DEF Modify, ModifyDirAttr, f
<1>5. f \in SUBSET DirFlags BY DEF f
<1> QED BY <1>2, <1>3, <1>4, <1>5 DEF a, f

LEMMA ModifyFile ==
  ASSUME NEW m, GoodModifier(m), NEW a, a.type \in FileTypes
  PROVE  LET b == Modify(m, a)
         IN b.target = a.target /\ b.type \in FileTypes /\ b.flags \in SUBSET KindFlags(b.type)
<1> DEFINE b == Modify(m, a)
           type == Alter(m["type"], a.type, "file")
<1>1. a.type # "dir" BY DEF FileTypes
<1>2. type \in FileTypes BY DEF Alter, GoodModifier, FileTypes
<1>3. b = ModifyFileAttr(m, a) BY <1>1 DEF Modify
<1> HIDE DEF b
<1>4. b.target = a.target /\ b.type = type BY <1>3 DEF ModifyFileAttr
<1> HIDE DEF type
<1>5. b.flags \in SUBSET KindFlags(type)
  <2> DEFINE kept == CASE type = "file" -> FileFlags
                       [] type = "create" -> FileFlags \ {"empty"}
                       [] type = "modify" -> {"executable", "private", "readonly", "template"}
                       [] type = "symlink" -> {"template"}
                       [] OTHER -> {}
             empty == type = "create"
                        /\ (m["encrypted"][1] = "set"
                            \/ (m["encrypted"][1] = "leave" /\ "empty" \in a.flags))
  <2>1. b.flags = {k \in kept : Holds(m, k, a.flags)} \cup {k \in {"empty"} : empty}
    BY <1>3 DEF ModifyFileAttr, type
  <2>2. kept \subseteq KindFlags(type)
    BY <1>2 DEF KindFlags, FileFlags, FileTypes
  <2>3. empty => "empty" \in KindFlags(type) BY DEF KindFlags, FileFlags
  <2> HIDE DEF kept, empty
  <2> QED BY <2>1, <2>2, <2>3
<1> QED BY <1>2, <1>4, <1>5 DEF b

LEMMA DirNameWords ==
  ASSUME NEW a, a.target \in Seq(Words) PROVE DirSourceName(a) \in Seq(Words)
<1>1. \A w \in Vocabulary : w \in Words BY WordsAssumption
<1>2. \A b : \A w \in Vocabulary : Opt(b, <<w>>) \in Seq(Words) BY <1>1 DEF Opt
<1>3. Spelled(a.target, DirPrefixes) \in Seq(Words)
  <2>1. "dot_" \in Vocabulary /\ "literal_" \in Vocabulary BY DEF Vocabulary
  <2>2. CASE Starts(a.target, ".")
    <3>1. Tail(a.target) \in Seq(Words) /\ <<"dot_">> \in Seq(Words)
      BY <1>1, <2>1, <2>2 DEF Starts
    <3> QED BY <2>2, <3>1, ConcatProperties DEF Spelled
  <2>3. CASE ~Starts(a.target, ".")
    <3>1. Opt(\E w \in DirPrefixes : Starts(a.target, w), <<"literal_">>) \in Seq(Words)
      BY <1>1, <2>1 DEF Opt
    <3> QED BY <2>3, <3>1, ConcatProperties DEF Spelled
  <2> QED BY <2>2, <2>3
<1> DEFINE o1 == Opt("remove" \in a.flags, <<"remove_">>)
           o2 == Opt("external" \in a.flags, <<"external_">>)
           o3 == Opt("exact" \in a.flags, <<"exact_">>)
           o4 == Opt("private" \in a.flags, <<"private_">>)
           o5 == Opt("readonly" \in a.flags, <<"readonly_">>)
<1>4. {o1, o2, o3, o4, o5} \subseteq Seq(Words) BY <1>1 DEF Vocabulary, Opt
<1>5. DirSourceName(a) = o1 \o (o2 \o (o3 \o (o4 \o (o5 \o Spelled(a.target, DirPrefixes)))))
  BY DEF DirSourceName
<1> HIDE DEF o1, o2, o3, o4, o5
<1> QED BY <1>3, <1>4, <1>5

\* The new name of an entry spells the same target, and the attributes that
\* the modifier makes of the old ones.
LEMMA NewName ==
  ASSUME NEW m, GoodModifier(m), NEW s, Placed(s), Named(s), NEW p \in DOMAIN s
  PROVE  LET a == AttrIn(s, p)
             b == Modify(m, a)
             c == AttrSpelled(s[p].dir, SourceName(b))
         IN /\ SourceName(b) \in Seq(Words)
            /\ c.target = a.target /\ c.type = b.type /\ c.flags = b.flags
            /\ s[p].dir => "external" \notin c.flags
<1> DEFINE a == AttrIn(s, p)
           b == Modify(m, a)
<1>1. a = AttrSpelled(s[p].dir, p[Len(p)]) /\ Len(p) \in Nat \ {0} BY Spelling
<1>2. a.target \in Seq(Words)
  <2>1. Len(p) \in 1..Len(p) BY <1>1
  <2>2. Len(p) \in DOMAIN TargetIn(s, p) /\ TargetIn(s, p)[Len(p)] = a.target
    BY <1>1, <2>1, Spelling DEF AttrSpelled
  <2>3. TargetIn(s, p) \in Targets BY DEF Named
  <2>4. TargetIn(s, p) \in Seq(Seq(Words))
    <3>1. PICK i \in DOMAIN Sorted : Sorted[i] = TargetIn(s, p) BY <2>3 DEF Targets
    <3>2. Sorted[i] \in Seq(Seq(Words)) BY ChattrAssumption, ElementOfSeq, LenProperties
    <3> QED BY <3>1, <3>2
  <2> HIDE DEF a
  <2> QED BY <2>2, <2>4, ElementOfSeq, LenProperties
<1>3. a.target # <<>> BY DEF Named, Valid
<1>4. CASE s[p].dir
  <2> DEFINE f == {k \in DirFlags : Holds(m, k, a.flags)}
  <2>1. a = ParseDir(p[Len(p)]) /\ "external" \notin a.flags
    BY <1>1, <1>4 DEF AttrSpelled, Placed, Last
  <2> HIDE DEF a
  <2>2. /\ b = [target |-> a.target, type |-> "dir", flags |-> f,
                condition |-> "none", order |-> "during"]
        /\ f \in SUBSET DirFlags /\ "external" \notin f
    BY <2>1, ModifyDir
  <2>3. ~Starts(a.target, "remove_") /\ ~Starts(a.target, "external_")
    BY <1>4 DEF Named, a
  <2> HIDE DEF b, f
  <2>4. ParseDir(SourceName(b)) = b BY <1>2, <2>2, <2>3, DirNamesReadBack
  <2>5. SourceName(b) \in Seq(Words) BY <1>2, <2>2, DirNameWords DEF SourceName
  <2> QED BY <1>4, <2>2, <2>4, <2>5 DEF AttrSpelled, a, b
<1>5. CASE ~s[p].dir
  <2>1. a.type \in FileTypes BY <1>1, <1>5, ParseFileType DEF AttrSpelled
  <2>2. ~Starts(a.target, "onchange_") BY <1>5 DEF Named
  <2> HIDE DEF a
  <2>3. b.target = a.target /\ b.type \in FileTypes /\ b.flags \in SUBSET KindFlags(b.type)
    BY <2>1, ModifyFile
  <2> HIDE DEF b
  <2>4. /\ FileSourceName(b) \in Seq(Words)
        /\ Spells(ParseFile(FileSourceName(b)), b.target, b.type, b.flags, b.condition, b.order)
    BY <1>2, <1>3, <2>2, <2>3, FileBack
  <2>5. SourceName(b) = FileSourceName(b) BY <2>3 DEF SourceName, FileTypes
  <2> QED BY <1>5, <2>3, <2>4, <2>5 DEF AttrSpelled, Spells, a, b
<1>6. s[p].dir \in BOOLEAN BY DEF Placed
<1> QED BY <1>4, <1>5, <1>6

\* The entry p is q or below it.
AtOrUnder(q, p) == Len(q) <= Len(p) /\ \A j \in 1..Len(q) : p[j] = q[j]

LEMMA Prefix ==
  ASSUME NEW S, NEW p \in Seq(S), NEW i \in 0..Len(p)
  PROVE  /\ SubSeq(p, 1, i) \in Seq(S) /\ Len(SubSeq(p, 1, i)) = i
         /\ \A j \in 1..i : SubSeq(p, 1, i)[j] = p[j]
<1>1. Len(p) \in Nat BY LenProperties
<1>2. \A j \in 1..Len(p) : p[j] \in S BY ElementOfSeq
<1>3. \A j \in 1..i : p[j] \in S BY <1>1, <1>2
<1>4. 1 \in Int /\ i \in Int /\ (IF 1 <= i THEN i - 1 + 1 ELSE 0) = i BY <1>1
<1> QED BY <1>3, <1>4

LEMMA UnderIs ==
  ASSUME NEW S, NEW p \in Seq(S), NEW q \in Seq(S)
  PROVE  Under(q, p) <=> AtOrUnder(q, p) /\ p # q
<1>1. Len(p) \in Nat /\ Len(q) \in Nat BY LenProperties
<1>2. CASE Len(q) < Len(p)
  <2> DEFINE h == SubSeq(p, 1, Len(q))
  <2>1. Len(q) \in 0..Len(p) BY <1>1, <1>2
  <2>2. h \in Seq(S) /\ Len(h) = Len(q) /\ \A j \in 1..Len(q) : h[j] = p[j] BY <2>1, Prefix
  <2> HIDE DEF h
  <2>3. h = q <=> \A j \in 1..Len(q) : p[j] = q[j]
    <3>1. ASSUME \A j \in 1..Len(q) : p[j] = q[j] PROVE h = q BY <2>2, <3>1, SeqEqual
    <3> QED BY <2>2, <3>1
  <2>4. p # q BY <1>1, <1>2
  <2> QED BY <1>1, <1>2, <2>3, <2>4 DEF Under, AtOrUnder, h
<1>3. CASE ~(Len(q) < Len(p))
  <2>1. ~Under(q, p) BY <1>3 DEF Under
  <2>2. AtOrUnder(q, p) => Len(p) = Len(q) BY <1>1, <1>3 DEF AtOrUnder
  <2>3. AtOrUnder(q, p) => p = q BY <2>2, SeqEqual DEF AtOrUnder
  <2> QED BY <2>1, <2>3
<1> QED BY <1>2, <1>3

\* What os.Rename does to a path: one name of it changes.
Replaced(r, p, old, n) ==
  /\ r \in Seq(Seq(Words)) /\ Len(r) = Len(p)
  /\ \A j \in 1..Len(p) : r[j] = IF AtOrUnder(old, p) /\ j = Len(old) THEN n ELSE p[j]

LEMMA MovedIs ==
  ASSUME NEW p \in Seq(Seq(Words)), NEW old \in Seq(Seq(Words)), old # <<>>, NEW n \in Seq(Words)
  PROVE  Replaced(Moved(p, old, Append(Front(old), n)), p, old, n)
<1> DEFINE S == Seq(Words)
           new == Append(Front(old), n)
           r == Moved(p, old, new)
<1>1. Len(p) \in Nat /\ Len(old) \in Nat \ {0} BY LenProperties, EmptySeq
<1>2. new \in Seq(S) /\ Len(new) = Len(old)
      /\ \A j \in 1..Len(old) : new[j] = IF j = Len(old) THEN n ELSE old[j]
  <2> DEFINE h == Front(old)
  <2>1. Len(old) - 1 \in 0..Len(old) BY <1>1
  <2>2. h \in Seq(S) /\ Len(h) = Len(old) - 1 /\ \A j \in 1..Len(old) - 1 : h[j] = old[j]
    BY <2>1, Prefix DEF Front
  <2> HIDE DEF h
  <2>3. Append(h, n) \in Seq(S) /\ Len(Append(h, n)) = Len(h) + 1
        /\ \A j \in 1..Len(h) : Append(h, n)[j] = h[j]
        /\ Append(h, n)[Len(h) + 1] = n
    BY <2>2, AppendProperties
  <2>4. ASSUME NEW j \in 1..Len(old) PROVE Append(h, n)[j] = IF j = Len(old) THEN n ELSE old[j]
    <3>1. CASE j = Len(old) BY <1>1, <2>2, <2>3, <3>1
    <3>2. CASE j # Len(old)
      <4>1. j \in 1..Len(old) - 1 BY <1>1, <3>2
      <4> QED BY <2>2, <2>3, <3>2, <4>1
    <3> QED BY <3>1, <3>2
  <2>5. Len(h) + 1 = Len(old) BY <1>1, <2>2
  <2> QED BY <2>3, <2>4, <2>5 DEF h
<1> HIDE DEF new
<1>3. p = old \/ Under(old, p) <=> AtOrUnder(old, p)
  <2>1. AtOrUnder(old, old) BY <1>1 DEF AtOrUnder
  <2> QED BY <2>1, UnderIs
<1>4. CASE AtOrUnder(old, p)
  <2> DEFINE e == SubSeq(p, Len(old) + 1, Len(p))
  <2>1. Len(old) <= Len(p) /\ \A j \in 1..Len(old) : p[j] = old[j] BY <1>4 DEF AtOrUnder
  <2>2. e \in Seq(S) /\ Len(e) = Len(p) - Len(old)
        /\ \A k \in 1..Len(p) - Len(old) : e[k] = p[Len(old) + k]
    <3>1. \A j \in Len(old) + 1..Len(p) : p[j] \in S BY <1>1, ElementOfSeq
    <3>2. Len(old) + 1 \in Int /\ Len(p) \in Int BY <1>1
    <3>3. e \in Seq(S)
          /\ Len(e) = (IF Len(old) + 1 <= Len(p) THEN Len(p) - (Len(old) + 1) + 1 ELSE 0)
          /\ \A k \in 1..Len(p) - (Len(old) + 1) + 1 : e[k] = p[(Len(old) + 1) + k - 1]
      BY <3>1, <3>2, SubSeqProperties
    <3> HIDE DEF e
    <3>4. Len(e) = Len(p) - Len(old) BY <1>1, <2>1, <3>3
    <3>5. ASSUME NEW k \in 1..Len(p) - Len(old) PROVE e[k] = p[Len(old) + k]
      <4>1. k \in 1..Len(p) - (Len(old) + 1) + 1 /\ (Len(old) + 1) + k - 1 = Len(old) + k
        BY <1>1
      <4> QED BY <3>3, <4>1
    <3> QED BY <3>3, <3>4, <3>5
  <2> HIDE DEF e
  <2>3. r = new \o e BY <1>3, <1>4 DEF Moved, e
  <2>4. new \o e \in Seq(S) /\ Len(new \o e) = Len(new) + Len(e)
        /\ \A j \in 1..Len(new) + Len(e) :
             (new \o e)[j] = IF j <= Len(new) THEN new[j] ELSE e[j - Len(new)]
    BY <1>2, <2>2, ConcatProperties
  <2> HIDE DEF r
  <2>5. Len(new) + Len(e) = Len(p) BY <1>1, <1>2, <2>2
  <2>6. ASSUME NEW j \in 1..Len(p) PROVE r[j] = IF j = Len(old) THEN n ELSE p[j]
    <3>1. r[j] = IF j <= Len(old) THEN new[j] ELSE e[j - Len(old)] BY <1>2, <2>3, <2>4, <2>5
    <3>2. CASE j <= Len(old)
      <4>1. j \in 1..Len(old) BY <1>1, <3>2
      <4> QED BY <1>2, <2>1, <3>1, <3>2, <4>1
    <3>3. CASE ~(j <= Len(old))
      <4>1. j - Len(old) \in 1..Len(p) - Len(old) /\ Len(old) + (j - Len(old)) = j
        BY <1>1, <3>3
      <4>2. e[j - Len(old)] = p[j] BY <2>2, <4>1
      <4> QED BY <1>1, <3>1, <3>3, <4>2
    <3> QED BY <3>2, <3>3
  <2> QED BY <1>4, <2>3, <2>4, <2>5, <2>6 DEF Replaced, r, new
<1>5. CASE ~AtOrUnder(old, p)
  <2>1. r = p BY <1>3, <1>5 DEF Moved
  <2> QED BY <1>5, <2>1 DEF Replaced, new
<1> QED BY <1>4, <1>5

LEMMA PrefixIn ==
  ASSUME NEW s, Placed(s), NEW p \in DOMAIN s, NEW i \in 1..Len(p)
  PROVE  SubSeq(p, 1, i) \in DOMAIN s /\ (i # Len(p) => s[SubSeq(p, 1, i)].dir)
<1>1. p \in Seq(Seq(Words)) /\ Len(p) \in Nat BY LenProperties DEF Placed
<1>2. CASE i = Len(p)
  <2>1. i \in 0..Len(p) BY <1>1
  <2>2. SubSeq(p, 1, i) = p BY <1>1, <1>2, <2>1, Prefix, SeqEqual
  <2> QED BY <1>2, <2>2
<1>3. CASE i # Len(p)
  <2>1. i \in 1..Len(p) - 1 BY <1>1, <1>3
  <2> QED BY <2>1 DEF Placed
<1> QED BY <1>2, <1>3

\* The path of what is above a moved entry is moved alike.
LEMMA PrefixMoved ==
  ASSUME NEW p \in Seq(Seq(Words)), NEW old \in Seq(Seq(Words)), old # <<>>, NEW n \in Seq(Words),
         NEW i \in 1..Len(p)
  PROVE  LET new == Append(Front(old), n)
         IN Moved(SubSeq(p, 1, i), old, new) = SubSeq(Moved(p, old, new), 1, i)
<1> DEFINE S == Seq(Words)
           new == Append(Front(old), n)
           q == SubSeq(p, 1, i)
           r == Moved(p, old, new)
           x == Moved(q, old, new)
           y == SubSeq(r, 1, i)
<1>1. Len(p) \in Nat /\ Len(old) \in Nat \ {0} /\ i \in 0..Len(p) BY LenProperties, EmptySeq
<1>2. q \in Seq(S) /\ Len(q) = i /\ \A j \in 1..i : q[j] = p[j] BY <1>1, Prefix
<1> HIDE DEF q
<1>3. r \in Seq(S) /\ Len(r) = Len(p)
      /\ \A j \in 1..Len(p) : r[j] = IF AtOrUnder(old, p) /\ j = Len(old) THEN n ELSE p[j]
  BY MovedIs DEF Replaced
<1>4. x \in Seq(S) /\ Len(x) = i
      /\ \A j \in 1..i : x[j] = IF AtOrUnder(old, q) /\ j = Len(old) THEN n ELSE q[j]
  BY <1>2, MovedIs DEF Replaced
<1> HIDE DEF r, x
<1>5. y \in Seq(S) /\ Len(y) = i /\ \A j \in 1..i : y[j] = r[j] BY <1>1, <1>3, Prefix
<1> HIDE DEF y
<1>6. Len(old) <= i => (AtOrUnder(old, q) <=> AtOrUnder(old, p))
  <2>1. SUFFICES ASSUME Len(old) <= i PROVE AtOrUnder(old, q) <=> AtOrUnder(old, p) OBVIOUS
  <2>2. Len(old) <= Len(p) /\ \A j \in 1..Len(old) : q[j] = p[j] BY <1>1, <1>2, <2>1
  <2> QED BY <1>2, <2>1, <2>2 DEF AtOrUnder
<1>7. ASSUME NEW j \in 1..i PROVE x[j] = y[j]
  <2>1. j \in 1..Len(p) /\ q[j] = p[j] BY <1>1, <1>2
  <2>2. j = Len(old) => Len(old) <= i BY <1>1
  <2> QED BY <1>3, <1>4, <1>5, <1>6, <2>1, <2>2
<1>8. x = y BY <1>4, <1>5, <1>7, SeqEqual
<1> QED BY <1>8 DEF x, y, q, r

LEMMA MovedSelf ==
  ASSUME NEW old \in Seq(Seq(Words)), old # <<>>, NEW n \in Seq(Words)
  PROVE  Moved(old, old, Append(Front(old), n)) = Append(Front(old), n)
<1> DEFINE new == Append(Front(old), n)
<1>1. Len(old) \in Nat \ {0} BY LenProperties, EmptySeq
<1>2. SubSeq(old, Len(old) + 1, Len(old)) = <<>> BY <1>1
<1>3. new \in Seq(Seq(Words))
  <2>1. Len(old) - 1 \in 0..Len(old) BY <1>1
  <2>2. Front(old) \in Seq(Seq(Words)) BY <2>1, Prefix DEF Front
  <2> QED BY <2>2, AppendProperties
<1> HIDE DEF new
<1>4. new \o <<>> = new BY <1>3, ConcatEmptySeq
<1>5. Moved(old, old, new) = new BY <1>2, <1>4 DEF Moved
<1> QED BY <1>5 DEF new

\* Two entries are not moved to one path, unless to one that was there.
LEMMA MovedApart ==
  ASSUME NEW s, Placed(s), NEW old \in DOMAIN s, NEW n \in Seq(Words),
         Append(Front(old), n) \notin DOMAIN s,
         NEW p \in DOMAIN s, NEW q \in DOMAIN s,
         Moved(p, old, Append(Front(old), n)) = Moved(q, old, Append(Front(old), n))
  PROVE  p = q
<1> DEFINE S == Seq(Words)
           new == Append(Front(old), n)
           Of(x) == Moved(x, old, new)
<1>1. p \in Seq(S) /\ q \in Seq(S) /\ old \in Seq(S) /\ old # <<>> BY DEF Placed
<1>2. Len(p) \in Nat /\ Len(q) \in Nat /\ Len(old) \in Nat \ {0} BY <1>1, LenProperties, EmptySeq
<1>3. \A x \in {p, q} :
        /\ Of(x) \in Seq(S) /\ Len(Of(x)) = Len(x)
        /\ \A j \in 1..Len(x) : Of(x)[j] = IF AtOrUnder(old, x) /\ j = Len(old) THEN n ELSE x[j]
  BY <1>1, MovedIs DEF Replaced
<1>4. /\ Len(p) = Len(q)
      /\ \A j \in 1..Len(p) :
           (IF AtOrUnder(old, p) /\ j = Len(old) THEN n ELSE p[j])
             = IF AtOrUnder(old, q) /\ j = Len(old) THEN n ELSE q[j]
  <2> HIDE DEF Of
  <2> QED BY <1>3 DEF Of
<1>5. ASSUME NEW x \in {p, q}, NEW z \in {p, q}, AtOrUnder(old, x), ~AtOrUnder(old, z)
      PROVE  FALSE
  <2>1. Len(old) <= Len(z) /\ Len(x) = Len(z) BY <1>4, <1>5 DEF AtOrUnder
  <2>2. \A j \in 1..Len(old) : z[j] = IF j = Len(old) THEN n ELSE old[j]
    <3>1. \A j \in 1..Len(z) : z[j] = IF j = Len(old) THEN n ELSE x[j] BY <1>4, <1>5
    <3>2. \A j \in 1..Len(old) : j \in 1..Len(z) BY <1>2, <2>1
    <3> QED BY <1>5, <3>1, <3>2 DEF AtOrUnder
  <2>3. SubSeq(z, 1, Len(old)) = new
    <3> DEFINE e == SubSeq(z, 1, Len(old))
               h == Moved(old, old, new)
    <3>1. Len(old) \in 0..Len(z) BY <1>2, <2>1
    <3>2. e \in Seq(S) /\ Len(e) = Len(old) /\ \A j \in 1..Len(old) : e[j] = z[j]
      BY <1>1, <3>1, Prefix
    <3>3. AtOrUnder(old, old) BY <1>2 DEF AtOrUnder
    <3>4. h \in Seq(S) /\ Len(h) = Len(old)
          /\ \A j \in 1..Len(old) : h[j] = IF j = Len(old) THEN n ELSE old[j]
      <4>1. h \in Seq(S) /\ Len(h) = Len(old)
            /\ \A j \in 1..Len(old) :
                 h[j] = IF AtOrUnder(old, old) /\ j = Len(old) THEN n ELSE old[j]
        BY <1>1, MovedIs DEF Replaced
      <4> QED BY <3>3, <4>1
    <3>5. h = new BY <1>1, MovedSelf
    <3> HIDE DEF e, h
    <3>6. Len(e) = Len(h) /\ \A j \in 1..Len(e) : e[j] = h[j] BY <2>2, <3>2, <3>4
    <3>7. e = h
      <4> HIDE DEF S
      <4> QED BY <3>2, <3>4, <3>6, SeqEqual
    <3> QED BY <3>5, <3>7 DEF e
  <2>4. Len(old) \in 1..Len(z) /\ z \in DOMAIN s BY <1>2, <2>1
  <2>5. SubSeq(z, 1, Len(old)) \in DOMAIN s BY <2>4, PrefixIn
  <2> QED BY <2>3, <2>5
<1>6. \A j \in 1..Len(p) : p[j] = q[j]
  <2>1. CASE AtOrUnder(old, p) /\ AtOrUnder(old, q)
    <3> SUFFICES ASSUME NEW j \in 1..Len(p) PROVE p[j] = q[j] OBVIOUS
    <3>1. CASE j = Len(old)
      <4>1. j \in 1..Len(old) BY <1>2, <3>1
      <4> QED BY <2>1, <4>1 DEF AtOrUnder
    <3>2. CASE j # Len(old) BY <1>4, <2>1, <3>2
    <3> QED BY <3>1, <3>2
  <2>2. CASE ~AtOrUnder(old, p) /\ ~AtOrUnder(old, q) BY <1>4, <2>2
  <2>3. AtOrUnder(old, p) <=> AtOrUnder(old, q) BY <1>5
  <2> QED BY <2>1, <2>2, <2>3
<1> QED BY <1>1, <1>4, <1>6, SeqEqual

\* The directory that a rename leaves.
Renamed(s, old, new) ==
  LET kept == DOMAIN s \ {new}
      from(q) == CHOOSE p \in kept : Moved(p, old, new) = q
  IN [q \in {Moved(p, old, new) : p \in kept} |-> s[from(q)]]

\* A name for the entry p that spells its target, and of a file whether it is
\* encrypted.
Respells(s, p, name) ==
  LET c == AttrSpelled(s[p].dir, name)
  IN /\ c.target = AttrIn(s, p).target
     /\ s[p].dir => "external" \notin c.flags
     /\ ~s[p].dir => ("encrypted" \in c.flags <=> "encrypted" \in AttrIn(s, p).flags)

LEMMA RenamedIs ==
  ASSUME NEW s, Placed(s), NEW old \in DOMAIN s, NEW n \in Seq(Words),
         Append(Front(old), n) \notin DOMAIN s
  PROVE  LET new == Append(Front(old), n)
             s2 == Renamed(s, old, new)
         IN /\ DOMAIN s2 = {Moved(p, old, new) : p \in DOMAIN s}
            /\ \A p \in DOMAIN s : s2[Moved(p, old, new)] = s[p]
<1> DEFINE new == Append(Front(old), n)
           s2 == Renamed(s, old, new)
           kept == DOMAIN s \ {new}
<1>0. \A p : p \in kept <=> p \in DOMAIN s OBVIOUS
<1>1. DOMAIN s2 = {Moved(p, old, new) : p \in DOMAIN s}
  <2>1. DOMAIN s2 = {Moved(p, old, new) : p \in kept} BY DEF Renamed
  <2> HIDE DEF kept, s2
  <2> QED BY <1>0, <2>1
<1>2. ASSUME NEW p \in DOMAIN s PROVE s2[Moved(p, old, new)] = s[p]
  <2> DEFINE c == CHOOSE x \in kept : Moved(x, old, new) = Moved(p, old, new)
  <2>1. c \in DOMAIN s /\ Moved(c, old, new) = Moved(p, old, new) OBVIOUS
  <2>2. s2[Moved(p, old, new)] = s[c] BY DEF Renamed
  <2> HIDE DEF c
  <2>3. c = p BY <2>1, MovedApart
  <2> QED BY <2>2, <2>3
<1> QED BY <1>1, <1>2

\* The directory stays well placed ...
LEMMA RenamedPlaced ==
  ASSUME NEW s, Placed(s), NEW old \in DOMAIN s, NEW n \in Seq(Words), Respells(s, old, n),
         Append(Front(old), n) \notin DOMAIN s
  PROVE  Placed(Renamed(s, old, Append(Front(old), n)))
<1> DEFINE new == Append(Front(old), n)
           s2 == Renamed(s, old, new)
           Of(p) == Moved(p, old, new)
<1>1. old \in Seq(Seq(Words)) /\ old # <<>> BY DEF Placed
<1>2. DOMAIN s2 = {Of(p) : p \in DOMAIN s} /\ \A p \in DOMAIN s : s2[Of(p)] = s[p]
  BY RenamedIs
<1> HIDE DEF s2, new
<1>3. ASSUME NEW p \in DOMAIN s
      PROVE  /\ Of(p) \in Seq(Seq(Words)) /\ Of(p) # <<>> /\ s2[Of(p)].dir \in BOOLEAN
             /\ \A i \in 1..Len(Of(p)) - 1 :
                  SubSeq(Of(p), 1, i) \in DOMAIN s2 /\ s2[SubSeq(Of(p), 1, i)].dir
             /\ s2[Of(p)].dir => "external" \notin ParseDir(Last(Of(p))).flags
  <2>1. p \in Seq(Seq(Words)) /\ p # <<>> /\ s[p].dir \in BOOLEAN BY DEF Placed
  <2>2. Replaced(Of(p), p, old, n) BY <1>1, <2>1, MovedIs DEF new
  <2>3. Len(p) \in Nat \ {0} BY <2>1, LenProperties, EmptySeq
  <2>4. s2[Of(p)] = s[p] BY <1>2
  <2>5. ASSUME NEW i \in 1..Len(p) - 1
        PROVE  SubSeq(Of(p), 1, i) \in DOMAIN s2 /\ s2[SubSeq(Of(p), 1, i)].dir
    <3>1. i \in 1..Len(p) BY <2>3
    <3>2. Of(SubSeq(p, 1, i)) = SubSeq(Of(p), 1, i) BY <1>1, <2>1, <3>1, PrefixMoved DEF new
    <3>3. SubSeq(p, 1, i) \in DOMAIN s /\ s[SubSeq(p, 1, i)].dir BY DEF Placed
    <3> QED BY <1>2, <3>2, <3>3
  <2>6. ASSUME s[p].dir PROVE "external" \notin ParseDir(Last(Of(p))).flags
    <3>1. Len(Of(p)) = Len(p)
          /\ Of(p)[Len(p)] = IF AtOrUnder(old, p) /\ Len(p) = Len(old) THEN n ELSE p[Len(p)]
      <4>1. Len(p) \in 1..Len(p) BY <2>3
      <4> QED BY <2>2, <4>1 DEF Replaced
    <3>2. AtOrUnder(old, p) /\ Len(p) = Len(old) => p = old
      BY <1>1, <2>1, SeqEqual DEF AtOrUnder
    <3>3. "external" \notin ParseDir(p[Len(p)]).flags BY <2>6 DEF Placed, Last
    <3>4. p = old => "external" \notin ParseDir(n).flags BY <2>6 DEF Respells, AttrSpelled
    <3> HIDE DEF Of
    <3> QED BY <3>1, <3>2, <3>3, <3>4 DEF Last
  <2>7. Of(p) \in Seq(Seq(Words)) /\ Len(Of(p)) = Len(p) BY <2>2 DEF Replaced
  <2> HIDE DEF Of
  <2>8. Of(p) # <<>> BY <2>3, <2>7
  <2> QED BY <2>1, <2>4, <2>5, <2>6, <2>7, <2>8
<1> HIDE DEF Of
<1>4. Placed(s2)
  <2> SUFFICES ASSUME NEW q \in DOMAIN s2
               PROVE  /\ q \in Seq(Seq(Words)) /\ q # <<>> /\ s2[q].dir \in BOOLEAN
                      /\ \A i \in 1..Len(q) - 1 :
                           SubSeq(q, 1, i) \in DOMAIN s2 /\ s2[SubSeq(q, 1, i)].dir
                      /\ s2[q].dir => "external" \notin ParseDir(Last(q)).flags
    BY Zenon DEF Placed
  <2>1. PICK p \in DOMAIN s : q = Of(p) BY <1>2
  <2> QED BY <1>3, <2>1
<1> QED BY <1>4 DEF s2, new

\* ... every entry keeps its target, every other entry its attributes ...
LEMMA RenamedSpells ==
  ASSUME NEW s, Placed(s), NEW old \in DOMAIN s, NEW n \in Seq(Words), Respells(s, old, n),
         Append(Front(old), n) \notin DOMAIN s, NEW p \in DOMAIN s
  PROVE  LET new == Append(Front(old), n)
             s2 == Renamed(s, old, new)
             r == Moved(p, old, new)
         IN /\ TargetIn(s2, r) = TargetIn(s, p)
            /\ AttrIn(s2, r) = IF p = old THEN AttrSpelled(s[p].dir, n) ELSE AttrIn(s, p)
<1> DEFINE new == Append(Front(old), n)
           s2 == Renamed(s, old, new)
           r == Moved(p, old, new)
<1>1. Placed(s2) BY RenamedPlaced
<1>2. r \in DOMAIN s2 /\ s2[r] = s[p]
  <2>1. DOMAIN s2 = {Moved(x, old, new) : x \in DOMAIN s} BY RenamedIs
  <2>2. s2[r] = s[p] BY RenamedIs
  <2> HIDE DEF s2, new
  <2> QED BY <2>1, <2>2
<1>3. old \in Seq(Seq(Words)) /\ old # <<>> /\ p \in Seq(Seq(Words)) BY DEF Placed
<1>4. Replaced(r, p, old, n) BY <1>3, MovedIs
<1> HIDE DEF s2, r, new
<1>5. Len(r) = Len(p) /\ Len(p) \in Nat \ {0} BY <1>4, Spelling DEF Replaced
<1>6. /\ TargetIn(s2, r) = [i \in 1..Len(p) |-> AttrSpelled(s[p].dir \/ i # Len(p), r[i]).target]
      /\ AttrIn(s2, r) = AttrSpelled(s[p].dir, r[Len(p)])
  BY <1>1, <1>2, <1>5, Spelling
<1>7. /\ TargetIn(s, p) = [i \in 1..Len(p) |-> AttrSpelled(s[p].dir \/ i # Len(p), p[i]).target]
      /\ AttrIn(s, p) = AttrSpelled(s[p].dir, p[Len(p)])
      /\ AttrIn(s, old) = AttrSpelled(s[old].dir, old[Len(old)])
      /\ Len(old) \in Nat \ {0}
  BY Spelling
<1>8. AtOrUnder(old, p) /\ Len(p) = Len(old) <=> p = old
  <2>1. AtOrUnder(old, old) BY <1>7 DEF AtOrUnder
  <2>2. AtOrUnder(old, p) /\ Len(p) = Len(old) => p = old BY <1>3, SeqEqual DEF AtOrUnder
  <2> QED BY <2>1, <2>2
<1>9. ASSUME NEW i \in 1..Len(p)
      PROVE  AttrSpelled(s[p].dir \/ i # Len(p), r[i]).target
               = AttrSpelled(s[p].dir \/ i # Len(p), p[i]).target
  <2>1. r[i] = IF AtOrUnder(old, p) /\ i = Len(old) THEN n ELSE p[i] BY <1>4 DEF Replaced
  <2>2. CASE AtOrUnder(old, p) /\ i = Len(old)
    <3>1. p[i] = old[Len(old)] BY <1>7, <2>2 DEF AtOrUnder
    <3>2. s[p].dir \/ i # Len(p) <=> s[old].dir
      <4>1. CASE i = Len(p) BY <1>8, <2>2, <4>1
      <4>2. CASE i # Len(p)
        <5>1. i \in 0..Len(p) BY <1>5
        <5>2. SubSeq(p, 1, i) = old BY <1>3, <2>2, <5>1, Prefix, SeqEqual DEF AtOrUnder
        <5>3. s[SubSeq(p, 1, i)].dir BY <4>2, PrefixIn
        <5> QED BY <4>2, <5>2, <5>3
      <4> QED BY <4>1, <4>2
    <3>3. AttrSpelled(s[old].dir, n).target = AttrSpelled(s[old].dir, old[Len(old)]).target
      BY <1>7 DEF Respells
    <3> QED BY <2>1, <2>2, <3>1, <3>2, <3>3 DEF AttrSpelled
  <2>3. CASE ~(AtOrUnder(old, p) /\ i = Len(old)) BY <2>1, <2>3
  <2> QED BY <2>2, <2>3
<1>10. TargetIn(s2, r) = TargetIn(s, p) BY <1>6, <1>7, <1>9
<1>11. AttrIn(s2, r) = IF p = old THEN AttrSpelled(s[p].dir, n) ELSE AttrIn(s, p)
  <2>1. Len(p) \in 1..Len(p) BY <1>5
  <2>2. r[Len(p)] = IF p = old THEN n ELSE p[Len(p)] BY <1>4, <1>8, <2>1 DEF Replaced
  <2> QED BY <1>6, <1>7, <2>2
<1> QED BY <1>10, <1>11 DEF s2, r, new

\* ... and the names go on telling what they told.
LEMMA RenamedNamed ==
  ASSUME NEW s, Placed(s), Named(s), NEW old \in DOMAIN s, NEW n \in Seq(Words),
         Respells(s, old, n), Append(Front(old), n) \notin DOMAIN s
  PROVE  Named(Renamed(s, old, Append(Front(old), n)))
<1> DEFINE new == Append(Front(old), n)
           s2 == Renamed(s, old, new)
<1>1. ASSUME NEW p \in DOMAIN s
      PROVE  LET r == Moved(p, old, new)
             IN /\ TargetIn(s2, r) \in Targets /\ Valid(AttrIn(s2, r))
                /\ s2[r].cipher \in BOOLEAN /\ (s2[r].dir <=> s2[r].text = NoText)
                /\ ~s2[r].dir => (s2[r].cipher <=> "encrypted" \in AttrIn(s2, r).flags)
                /\ \A w \in IF s2[r].dir THEN {"remove_", "external_"} ELSE {"onchange_"} :
                     ~Starts(AttrIn(s2, r).target, w)
  <2> DEFINE r == Moved(p, old, new)
  <2>1. s2[r] = s[p] BY RenamedIs
  <2>2. /\ TargetIn(s2, r) = TargetIn(s, p)
        /\ AttrIn(s2, r) = IF p = old THEN AttrSpelled(s[p].dir, n) ELSE AttrIn(s, p)
    BY RenamedSpells
  <2> HIDE DEF r, s2, new
  <2>3. /\ TargetIn(s, p) \in Targets /\ Valid(AttrIn(s, p))
        /\ s[p].cipher \in BOOLEAN /\ (s[p].dir <=> s[p].text = NoText)
        /\ ~s[p].dir => (s[p].cipher <=> "encrypted" \in AttrIn(s, p).flags)
        /\ \A w \in IF s[p].dir THEN {"remove_", "external_"} ELSE {"onchange_"} :
             ~Starts(AttrIn(s, p).target, w)
    BY DEF Named
  <2>4. AttrIn(s2, r).target = AttrIn(s, p).target BY <2>2 DEF Respells
  <2>5. ~s[p].dir => ("encrypted" \in AttrIn(s2, r).flags <=> "encrypted" \in AttrIn(s, p).flags)
    BY <2>2 DEF Respells
  <2> HIDE DEF Starts
  <2>6. Valid(AttrIn(s2, r)) BY <2>3, <2>4 DEF Valid
  <2> QED BY <2>1, <2>2, <2>3, <2>4, <2>5, <2>6 DEF r
<1>2. DOMAIN s2 = {Moved(p, old, new) : p \in DOMAIN s} BY RenamedIs
<1> HIDE DEF s2, new
<1>3. Named(s2)
  <2> SUFFICES ASSUME NEW q \in DOMAIN s2
               PROVE  /\ TargetIn(s2, q) \in Targets /\ Valid(AttrIn(s2, q))
                      /\ s2[q].cipher \in BOOLEAN /\ (s2[q].dir <=> s2[q].text = NoText)
                      /\ ~s2[q].dir => (s2[q].cipher <=> "encrypted" \in AttrIn(s2, q).flags)
                      /\ \A w \in IF s2[q].dir THEN {"remove_", "external_"} ELSE {"onchange_"} :
                           ~Starts(AttrIn(s2, q).target, w)
    BY Zenon DEF Named
  <2>1. PICK p \in DOMAIN s : q = Moved(p, old, new) BY <1>2
  <2> QED BY <1>1, <2>1
<1> QED BY <1>3 DEF s2, new

LEMMA RenamedUnique ==
  ASSUME NEW s, Placed(s), Unique(s), NEW old \in DOMAIN s, NEW n \in Seq(Words),
         Respells(s, old, n), Append(Front(old), n) \notin DOMAIN s
  PROVE  Unique(Renamed(s, old, Append(Front(old), n)))
<1> DEFINE new == Append(Front(old), n)
           s2 == Renamed(s, old, new)
<1>1. DOMAIN s2 = {Moved(p, old, new) : p \in DOMAIN s} BY RenamedIs
<1>2. \A p \in DOMAIN s : TargetIn(s2, Moved(p, old, new)) = TargetIn(s, p) BY RenamedSpells
<1> HIDE DEF s2, new
<1>3. ASSUME NEW q \in DOMAIN s2, NEW r \in DOMAIN s2, TargetIn(s2, q) = TargetIn(s2, r)
      PROVE  q = r
  <2>1. PICK x \in DOMAIN s : q = Moved(x, old, new) BY <1>1
  <2>2. PICK y \in DOMAIN s : r = Moved(y, old, new) BY <1>1
  <2>3. TargetIn(s, x) = TargetIn(s, y) BY <1>2, <1>3, <2>1, <2>2
  <2>4. x = y BY <2>3 DEF Unique
  <2> QED BY <2>1, <2>2, <2>4
<1>4. Unique(s2) BY <1>3 DEF Unique
<1> QED BY <1>4 DEF s2, new

\* An entry that is a directory in both or in neither spells the same.
LEMMA SameHere ==
  ASSUME NEW s, NEW s2, NEW p, s2[p].dir = s[p].dir
  PROVE  TargetIn(s2, p) = TargetIn(s, p) /\ AttrIn(s2, p) = AttrIn(s, p)
<1>1. AttrIn(s2, p) = AttrIn(s, p) BY DEF AttrIn
<1> QED BY <1>1 DEF TargetIn

\* The path of a file that is given the name n.
LEMMA Beside ==
  ASSUME NEW s, Placed(s), NEW old \in DOMAIN s, NEW n \in Seq(Words)
  PROVE  LET new == Append(Front(old), n)
         IN /\ new \in Seq(Seq(Words)) /\ Len(new) = Len(old) /\ new # <<>>
            /\ \A j \in 1..Len(old) : new[j] = IF j = Len(old) THEN n ELSE old[j]
            /\ \A i \in 1..Len(old) - 1 : SubSeq(new, 1, i) = SubSeq(old, 1, i)
<1> DEFINE new == Append(Front(old), n)
<1>1. old \in Seq(Seq(Words)) /\ old # <<>> BY DEF Placed
<1>2. Len(old) \in Nat \ {0} BY <1>1, LenProperties, EmptySeq
<1>3. AtOrUnder(old, old) BY <1>2 DEF AtOrUnder
<1>4. Replaced(new, old, old, n)
  <2>1. Replaced(Moved(old, old, new), old, old, n) BY <1>1, MovedIs
  <2>2. Moved(old, old, new) = new BY <1>1, MovedSelf
  <2> HIDE DEF new
  <2> QED BY <2>1, <2>2
<1> HIDE DEF new
<1>5. new \in Seq(Seq(Words)) /\ Len(new) = Len(old)
      /\ \A j \in 1..Len(old) : new[j] = IF j = Len(old) THEN n ELSE old[j]
  BY <1>3, <1>4 DEF Replaced
<1>6. new # <<>> BY <1>2, <1>5
<1>7. ASSUME NEW i \in 1..Len(old) - 1 PROVE SubSeq(new, 1, i) = SubSeq(old, 1, i)
  <2> DEFINE x == SubSeq(new, 1, i)
             y == SubSeq(old, 1, i)
  <2>1. i \in 0..Len(old) /\ i \in 0..Len(new) BY <1>2, <1>5
  <2>2. x \in Seq(Seq(Words)) /\ Len(x) = i /\ \A j \in 1..i : x[j] = new[j]
    BY <1>5, <2>1, Prefix
  <2>3. y \in Seq(Seq(Words)) /\ Len(y) = i /\ \A j \in 1..i : y[j] = old[j]
    BY <1>1, <2>1, Prefix
  <2> HIDE DEF x, y
  <2>4. ASSUME NEW j \in 1..i PROVE x[j] = y[j]
    <3>1. j \in 1..Len(old) /\ j # Len(old) BY <1>2
    <3> QED BY <1>5, <2>2, <2>3, <3>1
  <2>5. x = y BY <2>2, <2>3, <2>4, SeqEqual
  <2> QED BY <2>5 DEF x, y
<1> QED BY <1>5, <1>6, <1>7 DEF new

\* Files of one directory whose names spell one target are files of one target.
LEMMA BesideTarget ==
  ASSUME NEW s, Placed(s), NEW old \in DOMAIN s, ~s[old].dir, NEW n \in Seq(Words),
         NEW s2, Placed(s2), Append(Front(old), n) \in DOMAIN s2,
         ~s2[Append(Front(old), n)].dir, ParseFile(n).target = AttrIn(s, old).target
  PROVE  /\ TargetIn(s2, Append(Front(old), n)) = TargetIn(s, old)
         /\ AttrIn(s2, Append(Front(old), n)) = ParseFile(n)
<1> DEFINE new == Append(Front(old), n)
<1>1. Len(new) = Len(old) /\ \A j \in 1..Len(old) : new[j] = IF j = Len(old) THEN n ELSE old[j]
  BY Beside
<1> HIDE DEF new
<1>2. /\ TargetIn(s2, new)
           = [i \in 1..Len(new) |-> AttrSpelled(s2[new].dir \/ i # Len(new), new[i]).target]
      /\ AttrIn(s2, new) = AttrSpelled(s2[new].dir, new[Len(new)])
  BY Spelling DEF new
<1>3. /\ TargetIn(s, old)
           = [i \in 1..Len(old) |-> AttrSpelled(s[old].dir \/ i # Len(old), old[i]).target]
      /\ AttrIn(s, old) = AttrSpelled(s[old].dir, old[Len(old)])
      /\ Len(old) \in Nat \ {0}
  BY Spelling
<1>4. ~s2[new].dir BY DEF new
<1>5. ParseFile(n).target = ParseFile(old[Len(old)]).target
  BY <1>3 DEF AttrSpelled
<1>6. ASSUME NEW i \in 1..Len(old)
      PROVE  AttrSpelled(s2[new].dir \/ i # Len(new), new[i]).target
               = AttrSpelled(s[old].dir \/ i # Len(old), old[i]).target
  BY <1>1, <1>4, <1>5 DEF AttrSpelled
<1>7. TargetIn(s2, new) = TargetIn(s, old) BY <1>1, <1>2, <1>3, <1>6
<1>8. Len(old) \in 1..Len(old) BY <1>3
<1>9. AttrIn(s2, new) = ParseFile(n) BY <1>1, <1>2, <1>4, <1>8 DEF AttrSpelled
<1> QED BY <1>7, <1>9 DEF new

\* The directory that writing the new file leaves, and that removing a file
\* leaves.
Added(s, old, new, cipher) ==
  [p \in DOMAIN s \cup {new} |->
     IF p = new THEN [dir |-> FALSE, text |-> s[old].text, cipher |-> cipher] ELSE s[p]]

LEMMA AddedFacts ==
  ASSUME NEW s, Placed(s), Named(s), NEW old \in DOMAIN s, ~s[old].dir, NEW n \in Seq(Words),
         ParseFile(n).target = AttrIn(s, old).target, Append(Front(old), n) \notin DOMAIN s
  PROVE  LET new == Append(Front(old), n)
             s2 == Added(s, old, new, "encrypted" \in ParseFile(n).flags)
         IN /\ Placed(s2) /\ Named(s2)
            /\ DOMAIN s2 = DOMAIN s \cup {new} /\ ~s2[new].dir /\ s2[new].text = s[old].text
            /\ TargetIn(s2, new) = TargetIn(s, old) /\ AttrIn(s2, new) = ParseFile(n)
            /\ \A p \in DOMAIN s : /\ s2[p] = s[p] /\ TargetIn(s2, p) = TargetIn(s, p)
                                   /\ AttrIn(s2, p) = AttrIn(s, p)
<1> DEFINE new == Append(Front(old), n)
           e == "encrypted" \in ParseFile(n).flags
           s2 == Added(s, old, new, e)
<1>1. DOMAIN s2 = DOMAIN s \cup {new} BY DEF Added
<1>2. s2[new] = [dir |-> FALSE, text |-> s[old].text, cipher |-> e] BY DEF Added
<1>3. \A p \in DOMAIN s : s2[p] = s[p]
  <2> HIDE DEF new, e
  <2> QED BY DEF Added, new
<1>4. /\ new \in Seq(Seq(Words)) /\ Len(new) = Len(old) /\ new # <<>>
      /\ \A i \in 1..Len(old) - 1 : SubSeq(new, 1, i) = SubSeq(old, 1, i)
  BY Beside
<1> HIDE DEF s2, new
<1>5. ~s2[new].dir /\ s2[new].text = s[old].text /\ (s2[new].cipher <=> e)
      /\ s2[new].dir \in BOOLEAN /\ s2[new].cipher \in BOOLEAN
  <2>1. s2[new].dir = FALSE /\ s2[new].text = s[old].text BY <1>2
  <2>2. e \in BOOLEAN OBVIOUS
  <2> HIDE DEF e
  <2>3. s2[new].cipher = e BY <1>2
  <2> QED BY <2>1, <2>2, <2>3
<1>6. \A p \in DOMAIN s : TargetIn(s2, p) = TargetIn(s, p) /\ AttrIn(s2, p) = AttrIn(s, p)
  BY <1>3, SameHere
<1>7. Placed(s2)
  <2>1. ASSUME NEW p \in DOMAIN s
        PROVE  /\ p \in Seq(Seq(Words)) /\ p # <<>> /\ s2[p].dir \in BOOLEAN
               /\ \A i \in 1..Len(p) - 1 : SubSeq(p, 1, i) \in DOMAIN s2 /\ s2[SubSeq(p, 1, i)].dir
               /\ s2[p].dir => "external" \notin ParseDir(Last(p)).flags
    BY <1>1, <1>3 DEF Placed
  <2>2. \A i \in 1..Len(new) - 1 : SubSeq(new, 1, i) \in DOMAIN s2 /\ s2[SubSeq(new, 1, i)].dir
    <3>1. \A i \in 1..Len(old) - 1 : SubSeq(old, 1, i) \in DOMAIN s2 /\ s2[SubSeq(old, 1, i)].dir
      BY <2>1
    <3> QED BY <1>4, <3>1
  <2> QED BY <1>1, <1>4, <1>5, <2>1, <2>2 DEF Placed
<1>8. TargetIn(s2, new) = TargetIn(s, old) /\ AttrIn(s2, new) = ParseFile(n)
  BY <1>1, <1>5, <1>7, BesideTarget DEF new
<1>9. Named(s2)
  <2>1. /\ TargetIn(s, old) \in Targets /\ Valid(AttrIn(s, old)) /\ s[old].text # NoText
        /\ ~Starts(AttrIn(s, old).target, "onchange_")
    BY DEF Named
  <2>2. /\ TargetIn(s2, new) \in Targets /\ Valid(AttrIn(s2, new))
        /\ s2[new].cipher \in BOOLEAN /\ (s2[new].dir <=> s2[new].text = NoText)
        /\ ~s2[new].dir => (s2[new].cipher <=> "encrypted" \in AttrIn(s2, new).flags)
        /\ \A w \in IF s2[new].dir THEN {"remove_", "external_"} ELSE {"onchange_"} :
             ~Starts(AttrIn(s2, new).target, w)
    BY <1>5, <1>8, <2>1 DEF Valid
  <2>3. ASSUME NEW p \in DOMAIN s
        PROVE  /\ TargetIn(s2, p) \in Targets /\ Valid(AttrIn(s2, p))
               /\ s2[p].cipher \in BOOLEAN /\ (s2[p].dir <=> s2[p].text = NoText)
               /\ ~s2[p].dir => (s2[p].cipher <=> "encrypted" \in AttrIn(s2, p).flags)
               /\ \A w \in IF s2[p].dir THEN {"remove_", "external_"} ELSE {"onchange_"} :
                    ~Starts(AttrIn(s2, p).target, w)
    BY <1>3, <1>6 DEF Named
  <2> QED BY <1>1, <2>2, <2>3 DEF Named
<1> QED BY <1>1, <1>3, <1>5, <1>6, <1>7, <1>8, <1>9 DEF s2, new

LEMMA RemovedFacts ==
  ASSUME NEW s, Placed(s), Named(s), NEW p \in DOMAIN s, ~s[p].dir
  PROVE  LET s2 == [q \in DOMAIN s \ {p} |-> s[q]]
         IN /\ Placed(s2) /\ Named(s2) /\ DOMAIN s2 = DOMAIN s \ {p}
            /\ \A q \in DOMAIN s2 : /\ s2[q] = s[q] /\ TargetIn(s2, q) = TargetIn(s, q)
                                    /\ AttrIn(s2, q) = AttrIn(s, q)
<1> DEFINE s2 == [q \in DOMAIN s \ {p} |-> s[q]]
<1>1. DOMAIN s2 = DOMAIN s \ {p} /\ \A q \in DOMAIN s2 : s2[q] = s[q] OBVIOUS
<1> HIDE DEF s2
<1>2. \A q \in DOMAIN s2 : TargetIn(s2, q) = TargetIn(s, q) /\ AttrIn(s2, q) = AttrIn(s, q)
  BY <1>1, SameHere
<1>3. Placed(s2)
  <2> SUFFICES ASSUME NEW q \in DOMAIN s2
               PROVE  /\ q \in Seq(Seq(Words)) /\ q # <<>> /\ s2[q].dir \in BOOLEAN
                      /\ \A i \in 1..Len(q) - 1 :
                           SubSeq(q, 1, i) \in DOMAIN s2 /\ s2[SubSeq(q, 1, i)].dir
                      /\ s2[q].dir => "external" \notin ParseDir(Last(q)).flags
    BY Zenon DEF Placed
  <2>1. q \in DOMAIN s /\ s2[q] = s[q] BY <1>1
  <2>2. ASSUME NEW i \in 1..Len(q) - 1
        PROVE  SubSeq(q, 1, i) \in DOMAIN s2 /\ s2[SubSeq(q, 1, i)].dir
    <3>1. SubSeq(q, 1, i) \in DOMAIN s /\ s[SubSeq(q, 1, i)].dir BY <2>1 DEF Placed
    <3> QED BY <1>1, <3>1
  <2> QED BY <2>1, <2>2 DEF Placed
<1>4. Named(s2)
  <2> SUFFICES ASSUME NEW q \in DOMAIN s2
               PROVE  /\ TargetIn(s2, q) \in Targets /\ Valid(AttrIn(s2, q))
                      /\ s2[q].cipher \in BOOLEAN /\ (s2[q].dir <=> s2[q].text = NoText)
                      /\ ~s2[q].dir => (s2[q].cipher <=> "encrypted" \in AttrIn(s2, q).flags)
                      /\ \A w \in IF s2[q].dir THEN {"remove_", "external_"} ELSE {"onchange_"} :
                           ~Starts(AttrIn(s2, q).target, w)
    BY Zenon DEF Named
  <2>1. q \in DOMAIN s /\ s2[q] = s[q] BY <1>1
  <2> QED BY <1>2, <2>1 DEF Named
<1> QED BY <1>1, <1>2, <1>3, <1>4 DEF s2

----------------------------------------------------------------------------
(* The modifier argument                                                   *)

Smaller == OpToRel(<, Nat)

LEMMA Least ==
  ASSUME NEW T \in SUBSET Nat, T # {} PROVE \E n \in T : \A m \in T : n <= m
<1>1. IsWellFoundedOn(Smaller, Nat) BY NatLessThanWellFounded DEF Smaller
<1>2. \A x, y \in Nat : x < y => <<x, y>> \in Smaller BY DEF Smaller, OpToRel
<1>3. PICK x \in T : \A y \in T : ~(<<y, x>> \in Smaller) BY <1>1, WFMin, Zenon
<1>4. ASSUME NEW y \in T PROVE x <= y
  <2>1. ~(y < x) BY <1>2, <1>3
  <2> QED BY <2>1
<1> QED BY <1>4

\* There is a last item about a field if there is any.
LEMMA Greatest ==
  ASSUME NEW n \in Nat, NEW S \in SUBSET (1..n), S # {}
  PROVE  \E i \in S : \A j \in S : j <= i
<1> DEFINE T == {n - i : i \in S}
<1>1. T \in SUBSET Nat /\ T # {}
  <2>1. \A i \in S : n - i \in Nat OBVIOUS
  <2>2. T \subseteq Nat BY <2>1
  <2> QED BY <2>2
<1>2. PICK k \in T : \A m \in T : k <= m
  <2> HIDE DEF T
  <2> QED BY <1>1, Least
<1>3. PICK i \in S : k = n - i OBVIOUS
<1>4. ASSUME NEW j \in S PROVE j <= i
  <2>1. n - j \in T OBVIOUS
  <2>2. n - i <= n - j BY <1>2, <1>3, <2>1
  <2>3. i \in Int /\ j \in Int OBVIOUS
  <2> QED BY <2>2, <2>3
<1> QED BY <1>4

LEMMA NoItem == <<"leave", "">>[1] # "set" OBVIOUS

LEMMA ParsedModifier ==
  ASSUME NEW items \in Seq(Items) PROVE GoodModifier(ParseModifier(items))
<1> DEFINE About(k) == {i \in DOMAIN items : items[i][2] \in Field(k)}
           LastOf(k) == CHOOSE i \in About(k) : \A j \in About(k) : j <= i
           m == ParseModifier(items)
<1>1. \A k \in Fields : m[k] = IF About(k) = {} THEN <<"leave", "">> ELSE items[LastOf(k)]
  BY Zenon DEF ParseModifier
<1>2. "external" \in Fields /\ "type" \in Fields BY DEF Fields, DirFlags
<1>3. Len(items) \in Nat /\ DOMAIN items = 1..Len(items) BY LenProperties
<1>4. \A k \in Fields : About(k) # {} => LastOf(k) \in About(k)
  <2> SUFFICES ASSUME NEW k \in Fields, About(k) # {} PROVE LastOf(k) \in About(k) OBVIOUS
  <2>1. About(k) \in SUBSET (1..Len(items)) BY <1>3
  <2>2. \E i \in About(k) : \A j \in About(k) : j <= i
    <3> HIDE DEF About
    <3> QED BY <1>3, <2>1, Greatest
  <2> QED BY <2>2
<1>5. \A i \in DOMAIN items : items[i][2] # "external"
  <2> SUFFICES ASSUME NEW i \in DOMAIN items PROVE items[i][2] # "external" OBVIOUS
  <2>1. items[i] \in Items BY <1>3, ElementOfSeq
  <2> DEFINE X == UNION {Field(k) : k \in Fields}
  <2>2. items[i] \in {"set", "clear"} \X (X \ {"external"}) BY <2>1 DEF Items
  <2> HIDE DEF X
  <2> QED BY <2>2
<1>6. About("external") = {} BY <1>5 DEF Field, DirFlags, FileFlags
<1>7. m["external"][1] # "set"
  <2>1. m["external"] = <<"leave", "">> BY <1>1, <1>2, <1>6
  <2> QED BY <2>1, NoItem
<1>8. m["type"][1] = "set" => m["type"][2] \in FileTypes
  <2>1. CASE About("type") = {}
    <3>1. m["type"] = <<"leave", "">> BY <1>1, <1>2, <2>1
    <3> QED BY <3>1, NoItem
  <2>2. CASE About("type") # {}
    <3>1. m["type"] = items[LastOf("type")] BY <1>1, <1>2, <2>2
    <3>2. LastOf("type") \in About("type") BY <1>2, <1>4, <2>2
    <3> HIDE DEF m, LastOf
    <3>3. items[LastOf("type")][2] \in Field("type") BY <3>2
    <3>4. Field("type") \subseteq FileTypes BY DEF Field, FileTypes
    <3> QED BY <3>1, <3>3, <3>4
  <2> QED BY <2>1, <2>2
<1> QED BY <1>7, <1>8 DEF GoodModifier

----------------------------------------------------------------------------
(* The inductive invariant                                                 *)

\* The entries read of the targets left are still there, as they were read.
Entries ==
  /\ todo \subseteq DOMAIN entries
  /\ \A t \in todo : /\ Path(t) \in DOMAIN src /\ Target(Path(t)) = t
                     /\ entries[t].attr = AttrOf(Path(t))

\* The new file of the target visited is there, and so is the old one.
Half(t) ==
  /\ t \in todo /\ Visited(t) /\ Encrypts(t)
  /\ NewPath(t) \in DOMAIN src /\ NewPath(t) # Path(t)
  /\ ~src[NewPath(t)].dir /\ ~src[Path(t)].dir /\ Target(NewPath(t)) = t

\* Only files have one target, one that is being rewritten or one that a
\* stopped command left, and they hold one text.
Doubles ==
  \A p, q \in DOMAIN src : Target(p) = Target(q) /\ p # q =>
    /\ ~src[p].dir /\ ~src[q].dir /\ src[p].text = src[q].text
    /\ \/ todo = {} /\ stopped
       \/ written /\ \E t \in todo : Half(t) /\ {p, q} = {Path(t), NewPath(t)}

Writing == written \in BOOLEAN /\ (written => \E t \in todo : Half(t))

Kept == \A t \in DOMAIN original : \E p \in DOMAIN src : Target(p) = t /\ src[p].text = original[t]

IInv ==
  /\ Placed(src) /\ Named(src)
  /\ Entries /\ GoodModifier(mod) /\ Writing /\ Doubles /\ Kept
  /\ calls \in 0..MaxCalls /\ stopped \in BOOLEAN

\* Between the files of one target and while none is rewritten there is no
\* other.
LEMMA NoDoubles ==
  ASSUME Doubles, ~written, todo # {} \/ Consistent PROVE Unique(src)
<1>1. SUFFICES ASSUME NEW p \in DOMAIN src, NEW q \in DOMAIN src,
                      TargetIn(src, p) = TargetIn(src, q), p # q
               PROVE  FALSE
  BY DEF Unique
<1>2. Target(p) = Target(q) BY <1>1 DEF Target
<1>3. ~src[p].dir /\ ~src[q].dir /\ todo = {} BY <1>1, <1>2 DEF Doubles
<1>4. Consistent BY <1>3
<1> QED BY <1>1, <1>2, <1>3, <1>4 DEF Consistent

LEMMA TargetIsPath ==
  ASSUME NEW t \in Targets PROVE t \in Seq(Seq(Words))
<1>1. PICK i \in DOMAIN Sorted : Sorted[i] = t BY DEF Targets
<1>2. Sorted[i] \in Seq(Seq(Words)) BY ChattrAssumption, ElementOfSeq, LenProperties
<1> QED BY <1>1, <1>2

\* The targets left that are known to the source directory; one of them is
\* visited, and none below it is left then.
LEMMA TodoTargets ==
  ASSUME Entries, Named(src), NEW t \in todo PROVE t \in Targets
BY DEF Entries, Named, Target

LEMMA VisitOrder ==
  ASSUME Entries, Named(src), NEW t \in todo, Visited(t), NEW u \in todo
  PROVE  ~Under(t, u) /\ (Visited(u) => t = u)
<1> DEFINE at(x) == CHOOSE i \in DOMAIN Sorted : Sorted[i] = x
<1>1. \A x \in Targets : at(x) \in DOMAIN Sorted /\ Sorted[at(x)] = x BY DEF Targets
<1>2. t \in Targets /\ u \in Targets BY TodoTargets
<1>3. at(u) <= at(t) BY DEF Visited
<1>4. Visited(u) => at(t) <= at(u) BY DEF Visited
<1>5. at(t) \in Nat /\ at(u) \in Nat BY <1>1, <1>2, ChattrAssumption, LenProperties
<1>6. /\ at(t) \in DOMAIN Sorted /\ Sorted[at(t)] = t
      /\ at(u) \in DOMAIN Sorted /\ Sorted[at(u)] = u
  BY <1>1, <1>2
<1> HIDE DEF at
<1>7. Under(t, u) => at(t) < at(u) BY <1>6, ChattrAssumption
<1>8. at(t) = at(u) => t = u BY <1>6
<1> QED BY <1>3, <1>4, <1>5, <1>7, <1>8

\* What is below an entry has a target below its target.
LEMMA TargetUnder ==
  ASSUME NEW s, Placed(s), Named(s), NEW p \in DOMAIN s, NEW q \in DOMAIN s, Under(p, q)
  PROVE  Under(TargetIn(s, p), TargetIn(s, q))
<1> DEFINE x == TargetIn(s, p)
           y == TargetIn(s, q)
<1>1. x \in Seq(Seq(Words)) /\ y \in Seq(Seq(Words)) BY TargetIsPath DEF Named
<1>2. /\ p \in Seq(Seq(Words)) /\ Len(p) \in Nat \ {0}
      /\ x = [i \in 1..Len(p) |-> AttrSpelled(s[p].dir \/ i # Len(p), p[i]).target]
      /\ q \in Seq(Seq(Words)) /\ Len(q) \in Nat \ {0}
      /\ y = [i \in 1..Len(q) |-> AttrSpelled(s[q].dir \/ i # Len(q), q[i]).target]
  BY Spelling
<1>3. AtOrUnder(p, q) /\ p # q BY <1>2, UnderIs
<1>4. Len(p) < Len(q) /\ Len(p) \in Nat \ {0} /\ Len(q) \in Nat \ {0} BY <1>2 DEF Under
<1>5. s[p].dir
  <2>1. Len(p) \in 1..Len(q) /\ Len(p) # Len(q) BY <1>4
  <2>2. s[SubSeq(q, 1, Len(p))].dir BY <2>1, PrefixIn
  <2> QED BY <2>2 DEF Under
<1> HIDE DEF x, y
<1>6. Len(x) = Len(p) /\ Len(y) = Len(q)
  <2>1. DOMAIN x = 1..Len(p) /\ DOMAIN y = 1..Len(q) BY <1>2
  <2>2. DOMAIN x = 1..Len(x) /\ DOMAIN y = 1..Len(y) /\ Len(x) \in Nat /\ Len(y) \in Nat
    BY <1>1, LenProperties
  <2> QED BY <1>2, <2>1, <2>2
<1>7. ASSUME NEW i \in 1..Len(p) PROVE y[i] = x[i]
  <2>1. i \in 1..Len(q) /\ i # Len(q) BY <1>4
  <2>2. q[i] = p[i] BY <1>3 DEF AtOrUnder
  <2>3. x[i] = ParseDir(p[i]).target BY <1>2, <1>5 DEF AttrSpelled
  <2>4. y[i] = ParseDir(q[i]).target BY <1>2, <2>1 DEF AttrSpelled
  <2> QED BY <2>2, <2>3, <2>4
<1>8. AtOrUnder(x, y) /\ y # x BY <1>4, <1>6, <1>7 DEF AtOrUnder
<1>9. Under(x, y) BY <1>1, <1>8, UnderIs
<1> QED BY <1>9 DEF x, y

\* What the target visited is given: a name that spells it.
LEMMA VisitFacts ==
  ASSUME Placed(src), Named(src), Entries, GoodModifier(mod), NEW t \in todo
  PROVE  LET old == Path(t)
             a == AttrIn(src, old)
             b == NewAttr(t)
             c == AttrSpelled(src[old].dir, SourceName(b))
         IN /\ old \in DOMAIN src /\ TargetIn(src, old) = t /\ entries[t].attr = a
            /\ b = Modify(mod, a) /\ SourceName(b) \in Seq(Words)
            /\ c.target = a.target /\ c.type = b.type /\ c.flags = b.flags
            /\ src[old].dir => "external" \notin c.flags
<1> DEFINE old == Path(t)
           a == AttrIn(src, old)
<1>1. old \in DOMAIN src /\ TargetIn(src, old) = t /\ entries[t].attr = a
  BY DEF Entries, Target, AttrOf
<1>2. NewAttr(t) = Modify(mod, a) BY <1>1 DEF NewAttr
<1> HIDE DEF old
<1>3. LET b == Modify(mod, AttrIn(src, old))
          c == AttrSpelled(src[old].dir, SourceName(b))
      IN /\ SourceName(b) \in Seq(Words)
         /\ c.target = a.target /\ c.type = b.type /\ c.flags = b.flags
         /\ src[old].dir => "external" \notin c.flags
  BY <1>1, NewName
<1> QED BY <1>1, <1>2, <1>3 DEF old

\* The attribute that changes when a file is rewritten is one of files.
LEMMA EncryptsFile ==
  ASSUME Placed(src), Named(src), Entries, GoodModifier(mod), NEW t \in todo, Encrypts(t)
  PROVE  ~src[Path(t)].dir
<1>1. SUFFICES ASSUME src[Path(t)].dir PROVE FALSE BY DEF Placed, Entries
<1>2. AttrIn(src, Path(t)) = ParseDir(Path(t)[Len(Path(t))])
  BY <1>1, VisitFacts, Spelling DEF AttrSpelled
<1>3. /\ entries[t].attr = AttrIn(src, Path(t))
      /\ NewAttr(t).flags = ParseDir(SourceName(NewAttr(t))).flags
  BY <1>1, VisitFacts DEF AttrSpelled
<1>4. \A name : "encrypted" \notin ParseDir(name).flags BY ParseDirShape DEF DirFlags
<1> QED BY <1>2, <1>3, <1>4 DEF Encrypts

\* While no target has two entries, a file is not given the name of another.
LEMMA NewPathFree ==
  ASSUME Placed(src), Named(src), Entries, GoodModifier(mod), Unique(src), NEW t \in todo,
         NewPath(t) # Path(t),
         NewPath(t) \in DOMAIN src => ~src[NewPath(t)].dir /\ ~src[Path(t)].dir
  PROVE  NewPath(t) \notin DOMAIN src
<1> DEFINE old == Path(t)
           n == SourceName(NewAttr(t))
<1>1. SUFFICES ASSUME NewPath(t) \in DOMAIN src PROVE FALSE OBVIOUS
<1>2. old \in DOMAIN src /\ n \in Seq(Words)
      /\ AttrSpelled(src[old].dir, n).target = AttrIn(src, old).target
  BY VisitFacts
<1>3. ~src[old].dir /\ ~src[NewPath(t)].dir BY <1>1
<1>4. NewPath(t) = Append(Front(old), n) BY DEF NewPath
<1>5. ParseFile(n).target = AttrIn(src, old).target BY <1>2, <1>3 DEF AttrSpelled
<1> HIDE DEF old, n
<1>6. TargetIn(src, NewPath(t)) = TargetIn(src, old)
  BY <1>1, <1>2, <1>3, <1>4, <1>5, BesideTarget
<1>7. NewPath(t) = old BY <1>1, <1>2, <1>6 DEF Unique
<1> QED BY <1>7 DEF old

\* The entries read of the targets rest stay as they were read.
Stay(s, s2, rest) ==
  \A u \in rest : LET p == entries[u].path
                  IN p \in DOMAIN s2 /\ TargetIn(s2, p) = u /\ AttrIn(s2, p) = AttrIn(s, p)

\* What the next state keeps of a directory: every entry under a name of its
\* target, and those of the targets rest with their attributes.
Keeps(s, s2, rest) ==
  /\ Placed(s2) /\ Named(s2) /\ Unique(s2) /\ Stay(s, s2, rest)
  /\ \A p \in DOMAIN s : \E q \in DOMAIN s2 :
       TargetIn(s2, q) = TargetIn(s, p) /\ s2[q].text = s[p].text

\* The entry at p has the attributes b.
Has(s, p, t, b) ==
  p \in DOMAIN s /\ TargetIn(s, p) = t /\ AttrIn(s, p).type = b.type /\ AttrIn(s, p).flags = b.flags

LEMMA RenamedKeeps ==
  ASSUME Placed(src), Named(src), Entries, GoodModifier(mod), Unique(src), NEW t \in todo,
         Visited(t), ~Encrypts(t), NewPath(t) \notin DOMAIN src
  PROVE  LET s2 == Renamed(src, Path(t), NewPath(t))
         IN Keeps(src, s2, todo \ {t}) /\ Has(s2, NewPath(t), t, NewAttr(t))
<1> DEFINE old == Path(t)
           n == SourceName(NewAttr(t))
           new == Append(Front(old), n)
           s2 == Renamed(src, old, new)
<1>1. /\ old \in DOMAIN src /\ n \in Seq(Words) /\ TargetIn(src, old) = t
      /\ entries[t].attr = AttrIn(src, old)
      /\ AttrSpelled(src[old].dir, n).target = AttrIn(src, old).target
      /\ AttrSpelled(src[old].dir, n).type = NewAttr(t).type
      /\ AttrSpelled(src[old].dir, n).flags = NewAttr(t).flags
      /\ src[old].dir => "external" \notin AttrSpelled(src[old].dir, n).flags
  BY VisitFacts
<1>2. NewPath(t) = new BY DEF NewPath
<1>3. Respells(src, old, n)
  <2>1. ("encrypted" \in AttrIn(src, old).flags) <=> ("encrypted" \in NewAttr(t).flags)
    BY <1>1 DEF Encrypts
  <2> HIDE DEF old, n
  <2> QED BY <1>1, <2>1 DEF Respells
<1>4. new \notin DOMAIN src BY <1>2
<1> HIDE DEF old, n
<1>5. Placed(s2) /\ Named(s2) /\ Unique(s2)
  BY <1>1, <1>3, <1>4, RenamedPlaced, RenamedNamed, RenamedUnique
<1>6. /\ DOMAIN s2 = {Moved(p, old, new) : p \in DOMAIN src}
      /\ \A p \in DOMAIN src : s2[Moved(p, old, new)] = src[p]
  BY <1>1, <1>4, RenamedIs
<1>7. \A p \in DOMAIN src :
        /\ TargetIn(s2, Moved(p, old, new)) = TargetIn(src, p)
        /\ AttrIn(s2, Moved(p, old, new)) = IF p = old THEN AttrSpelled(src[p].dir, n)
                                            ELSE AttrIn(src, p)
  BY <1>1, <1>3, <1>4, RenamedSpells
<1>8. old \in Seq(Seq(Words)) /\ old # <<>> BY <1>1 DEF Placed
<1>9. Moved(old, old, new) = new BY <1>1, <1>8, MovedSelf
<1> HIDE DEF s2, new
<1>10. Has(s2, new, t, NewAttr(t)) BY <1>1, <1>6, <1>7, <1>9 DEF Has
<1>11. ASSUME NEW p \in DOMAIN src
       PROVE  \E q \in DOMAIN s2 : TargetIn(s2, q) = TargetIn(src, p) /\ s2[q].text = src[p].text
  <2>1. Moved(p, old, new) \in DOMAIN s2 BY <1>6
  <2> QED BY <1>6, <1>7, <2>1
<1>12. ASSUME NEW u \in todo \ {t}
       PROVE  LET p == entries[u].path
              IN p \in DOMAIN s2 /\ TargetIn(s2, p) = u /\ AttrIn(s2, p) = AttrIn(src, p)
  <2> DEFINE p == entries[u].path
  <2>1. p \in DOMAIN src /\ TargetIn(src, p) = u BY DEF Entries, Path, Target
  <2> HIDE DEF p
  <2>2. p # old BY <1>1, <2>1
  <2>3. ~Under(old, p)
    <3>1. Under(old, p) => Under(t, u) BY <1>1, <2>1, TargetUnder
    <3>2. ~Under(t, u) BY VisitOrder
    <3> QED BY <3>1, <3>2
  <2>4. Moved(p, old, new) = p BY <2>2, <2>3 DEF Moved
  <2>5. p \in DOMAIN s2 BY <1>6, <2>1, <2>4
  <2> QED BY <1>7, <2>1, <2>2, <2>4, <2>5 DEF p
<1>13. Keeps(src, s2, todo \ {t}) BY <1>5, <1>11, <1>12 DEF Keeps, Stay
<1> QED BY <1>2, <1>10, <1>13 DEF s2, old

\* A rename keeps what the others have and gives the target its attributes.
LEMMA RenameKeeps ==
  ASSUME Placed(src), Named(src), Entries, GoodModifier(mod), Unique(src), NEW t \in todo,
         RenameEntry(t)
  PROVE  Keeps(src, src', todo \ {t}) /\ Has(src', NewPath(t), t, NewAttr(t))
<1>1. Visited(t) /\ ~Encrypts(t) BY DEF RenameEntry
<1>2. CASE NewPath(t) = Path(t)
  <2> DEFINE old == Path(t)
             n == SourceName(NewAttr(t))
  <2>1. src' = src BY <1>2 DEF RenameEntry
  <2>2. /\ old \in DOMAIN src /\ TargetIn(src, old) = t /\ n \in Seq(Words)
        /\ AttrSpelled(src[old].dir, n).type = NewAttr(t).type
        /\ AttrSpelled(src[old].dir, n).flags = NewAttr(t).flags
    BY VisitFacts
  <2>3. NewPath(t) = Append(Front(old), n) BY DEF NewPath
  <2> HIDE DEF old, n
  <2>4. AttrIn(src, old) = AttrSpelled(src[old].dir, old[Len(old)]) /\ Len(old) \in Nat \ {0}
    BY <2>2, Spelling
  <2>5. Append(Front(old), n)[Len(old)] = n
    <3>1. Len(old) \in 1..Len(old) BY <2>4
    <3> QED BY <2>2, <3>1, Beside
  <2>6. old[Len(old)] = n BY <1>2, <2>3, <2>5 DEF old
  <2>7. Has(src, old, t, NewAttr(t)) BY <2>2, <2>4, <2>6 DEF Has
  <2>8. \A u \in todo \ {t} : entries[u].path \in DOMAIN src /\ TargetIn(src, entries[u].path) = u
    BY DEF Entries, Path, Target
  <2>9. Keeps(src, src, todo \ {t}) BY <2>8 DEF Keeps, Stay
  <2> QED BY <1>2, <2>1, <2>7, <2>9 DEF old
<1>3. CASE NewPath(t) # Path(t)
  <2>1. Rename(Path(t), NewPath(t)) BY <1>3 DEF RenameEntry
  <2>2. NewPath(t) \notin DOMAIN src BY <1>3, <2>1, NewPathFree DEF Rename
  <2>3. src' = Renamed(src, Path(t), NewPath(t))
    BY <2>1, Zenon DEF Rename, Renamed
  <2> QED BY <1>1, <2>2, <2>3, RenamedKeeps
<1> QED BY <1>2, <1>3

----------------------------------------------------------------------------
(* The invariant is inductive                                              *)

\* Whether the command goes on or ends, what it has read of the targets left
\* is right.
LEMMA LeaveKeeps ==
  ASSUME Entries, GoodModifier(mod), NEW rest \in SUBSET todo, Leave(rest),
         Stay(src, src', rest)
  PROVE  todo' = rest /\ Entries' /\ GoodModifier(mod)'
<1>1. todo' = rest BY DEF Leave
<1>2. CASE rest = {}
  <2>1. todo' = {} /\ mod' = ParseModifier(<<>>) BY <1>1, <1>2 DEF Leave
  <2>2. <<>> \in Seq(Items) OBVIOUS
  <2>3. GoodModifier(ParseModifier(<<>>)) BY <2>2, ParsedModifier
  <2>4. GoodModifier(mod') BY <2>1, <2>3
  <2> QED BY <1>1, <2>1, <2>4 DEF Entries, GoodModifier
<1>3. CASE rest # {}
  <2>1. entries' = entries /\ mod' = mod BY <1>3 DEF Leave
  <2>2. ASSUME NEW u \in rest
        PROVE  /\ u \in DOMAIN entries /\ Path(u)' \in DOMAIN src'
               /\ TargetIn(src', Path(u)') = u /\ entries[u].attr = AttrIn(src', Path(u)')
    BY <2>1, <2>2 DEF Entries, Stay, Path, AttrOf
  <2> QED BY <1>1, <2>1, <2>2 DEF Entries, GoodModifier, Target, AttrOf
<1> QED BY <1>2, <1>3

\* The first state.
LEMMA InitInv == ASSUME Init PROVE IInv
<1>1. Placed(src) /\ Named(src) /\ Unique(src) BY ChattrAssumption DEF Init
<1>2. todo = {} /\ ~written /\ written \in BOOLEAN /\ calls \in 0..MaxCalls /\ stopped \in BOOLEAN
  <2>1. todo = {} /\ written = FALSE /\ stopped = FALSE /\ calls = 0 BY Zenon DEF Init
  <2>2. 0 \in 0..MaxCalls BY ChattrAssumption
  <2> QED BY <2>1, <2>2
<1>3. Entries /\ Writing BY <1>2 DEF Entries, Writing
<1>4. GoodModifier(mod)
  <2>1. <<>> \in Seq(Items) OBVIOUS
  <2> QED BY <2>1, ParsedModifier DEF Init
<1>5. Doubles BY <1>1 DEF Doubles, Unique, Target
<1>6. Kept
  <2> DEFINE at(t) == CHOOSE q \in DOMAIN src : Target(q) = t
             files == {q \in DOMAIN src : ~src[q].dir}
  <2>1. original = [t \in {Target(p) : p \in files} |-> src[at(t)].text] BY Zenon DEF Init
  <2> HIDE DEF files
  <2>2. DOMAIN original = {Target(p) : p \in files} BY <2>1
  <2>3. ASSUME NEW t \in DOMAIN original
        PROVE  \E p \in DOMAIN src : Target(p) = t /\ src[p].text = original[t]
    <3>1. PICK p \in files : Target(p) = t BY <2>2
    <3>2. p \in DOMAIN src BY DEF files
    <3>3. at(t) \in DOMAIN src /\ Target(at(t)) = t BY <3>1, <3>2
    <3>4. original[t] = src[at(t)].text BY <2>1, <2>2
    <3> HIDE DEF at
    <3> QED BY <3>3, <3>4
  <2> QED BY <2>3 DEF Kept
<1> QED BY <1>1, <1>2, <1>3, <1>4, <1>5, <1>6 DEF IInv

LEMMA NothingDone == ASSUME IInv, UNCHANGED vars PROVE IInv'
<1>1. /\ src' = src /\ entries' = entries /\ todo' = todo /\ mod' = mod /\ written' = written
      /\ calls' = calls /\ stopped' = stopped /\ original' = original
  BY DEF vars
<1>2. Entries' BY <1>1 DEF IInv, Entries, Path, Target, AttrOf
<1>3. \A t : Half(t)' <=> Half(t)
  BY <1>1 DEF Half, Visited, Encrypts, NewPath, NewAttr, Path, Target
<1>4. Doubles' BY <1>1, <1>3 DEF IInv, Doubles, Target, Path, NewPath, NewAttr
<1>5. Writing' BY <1>1, <1>3 DEF IInv, Writing
<1>6. Kept' BY <1>1 DEF IInv, Kept, Target
<1> QED BY <1>1, <1>2, <1>4, <1>5, <1>6 DEF IInv

LEMMA UniqueDoubles == ASSUME Unique(src') PROVE Doubles'
BY DEF Unique, Doubles, Target

LEMMA KeepsTexts ==
  ASSUME Kept, original' = original,
         \A p \in DOMAIN src : \E q \in DOMAIN src' :
           TargetIn(src', q) = TargetIn(src, p) /\ src'[q].text = src[p].text
  PROVE  Kept'
<1>1. ASSUME NEW t \in DOMAIN original
      PROVE  \E q \in DOMAIN src' : TargetIn(src', q) = t /\ src'[q].text = original[t]
  <2>1. PICK p \in DOMAIN src : TargetIn(src, p) = t /\ src[p].text = original[t]
    BY DEF Kept, Target
  <2> QED BY <2>1
<1> QED BY <1>1 DEF Kept, Target


LEMMA BeginInv == ASSUME IInv, Begin PROVE IInv'
<1>1. /\ src' = src /\ original' = original /\ stopped' = stopped /\ written' = written
      /\ todo = {} /\ Consistent /\ calls < MaxCalls /\ calls' = calls + 1
  BY DEF Begin
<1>2. ~written /\ written \in BOOLEAN BY <1>1 DEF IInv, Writing
<1>3. Unique(src) BY <1>1, <1>2, NoDoubles DEF IInv
<1>4. Placed(src)' /\ Named(src)' /\ Doubles' BY <1>1, <1>3, UniqueDoubles DEF IInv
<1>5. Kept' BY <1>1, KeepsTexts DEF IInv
<1>6. GoodModifier(mod)'
  <2>1. PICK items \in Modifiers : mod' = ParseModifier(items) BY DEF Begin
  <2>2. GoodModifier(ParseModifier(items)) BY ChattrAssumption, ParsedModifier
  <2>3. GoodModifier(mod') BY <2>1, <2>2
  <2> QED BY <2>3 DEF GoodModifier
<1>7. Entries'
  <2>1. todo' \subseteq Managed BY DEF Begin
  <2>2. PICK read \in SUBSET DOMAIN src :
          /\ {Target(p) : p \in read} = Managed
          /\ entries' = [t \in Managed |->
               LET p == CHOOSE q \in read : Target(q) = t IN [path |-> p, attr |-> AttrOf(p)]]
    BY Zenon DEF Begin
  <2> DEFINE at(t) == CHOOSE q \in read : Target(q) = t
  <2>3. DOMAIN entries' = Managed
        /\ \A t \in Managed : entries'[t] = [path |-> at(t), attr |-> AttrOf(at(t))]
    BY <2>2
  <2>4. \A t \in Managed : at(t) \in DOMAIN src /\ Target(at(t)) = t
    <3>1. \A t \in Managed : \E p \in read : Target(p) = t
      <4> HIDE DEF Managed
      <4> QED BY <2>2
    <3> QED BY <3>1
  <2> HIDE DEF at, Managed
  <2>5. ASSUME NEW t \in todo'
        PROVE  /\ t \in DOMAIN entries' /\ entries'[t].path \in DOMAIN src'
               /\ TargetIn(src', entries'[t].path) = t
               /\ entries'[t].attr = AttrIn(src', entries'[t].path)
    <3>1. t \in Managed BY <2>1
    <3>2. entries'[t].path = at(t) /\ entries'[t].attr = AttrOf(at(t)) BY <2>3, <3>1
    <3> QED BY <1>1, <2>3, <2>4, <3>1, <3>2 DEF Target, AttrOf
  <2> QED BY <2>5 DEF Entries, Path, Target, AttrOf
<1>8. Writing' BY <1>1, <1>2 DEF Writing
<1>9. calls' \in 0..MaxCalls /\ stopped' \in BOOLEAN BY <1>1, ChattrAssumption DEF IInv
<1> QED BY <1>4, <1>5, <1>6, <1>7, <1>8, <1>9 DEF IInv

LEMMA RenameInv == ASSUME IInv, NEW t \in Targets, RenameEntry(t) PROVE IInv'
<1>1. /\ t \in todo /\ Visited(t) /\ ~Encrypts(t) /\ Leave(todo \ {t})
      /\ written' = written /\ calls' = calls /\ stopped' = stopped /\ original' = original
  BY DEF RenameEntry, Visited, Done
<1>2. ~written /\ written \in BOOLEAN
  <2>1. ASSUME NEW h \in todo, Half(h) PROVE h = t BY <1>1, <2>1, VisitOrder DEF IInv, Half
  <2> QED BY <1>1, <2>1 DEF IInv, Writing, Half
<1>3. Unique(src) BY <1>1, <1>2, NoDoubles DEF IInv
<1>4. Keeps(src, src', todo \ {t}) BY <1>1, <1>3, RenameKeeps DEF IInv
<1>5. Placed(src') /\ Named(src') /\ Unique(src') /\ Stay(src, src', todo \ {t})
  BY <1>4 DEF Keeps
<1>6. Kept' BY <1>1, <1>4, KeepsTexts DEF IInv, Keeps
<1>7. Entries' /\ GoodModifier(mod)' BY <1>1, <1>5, LeaveKeeps DEF IInv
<1>8. Writing' BY <1>1, <1>2 DEF Writing
<1>9. Doubles' BY <1>5, UniqueDoubles
<1> QED BY <1>1, <1>5, <1>6, <1>7, <1>8, <1>9 DEF IInv

LEMMA StopInv == ASSUME IInv, Stop PROVE IInv'
<1>1. /\ src' = src /\ calls' = calls /\ original' = original /\ Leave({})
      /\ ~written' /\ written' \in BOOLEAN /\ stopped'  /\ stopped' \in BOOLEAN
  <2>1. written' = FALSE /\ stopped' = TRUE BY DEF Stop
  <2> QED BY <2>1 DEF Stop
<1>2. todo' = {} /\ Entries' /\ GoodModifier(mod)'
  <2>1. Stay(src, src', {}) BY DEF Stay
  <2> QED BY <1>1, <2>1, LeaveKeeps DEF IInv
<1>3. Kept' BY <1>1, KeepsTexts DEF IInv
<1>4. Doubles' BY <1>1, <1>2 DEF IInv, Doubles, Target
<1> QED BY <1>1, <1>2, <1>3, <1>4 DEF IInv, Writing

\* Writing the new file: its name is free, and it holds what the old one does.
LEMMA WriteFacts ==
  ASSUME IInv, NEW t \in Targets, WriteNew(t)
  PROVE  LET old == Path(t)
             new == NewPath(t)
         IN /\ Unique(src) /\ old \in DOMAIN src /\ ~src[old].dir /\ TargetIn(src, old) = t
            /\ Placed(src') /\ Named(src') /\ new # old
            /\ DOMAIN src' = DOMAIN src \cup {new} /\ ~src'[new].dir
            /\ src'[new].text = src[old].text /\ TargetIn(src', new) = t
            /\ \A p \in DOMAIN src : /\ src'[p] = src[p] /\ TargetIn(src', p) = TargetIn(src, p)
                                     /\ AttrIn(src', p) = AttrIn(src, p)
<1> DEFINE old == Path(t)
           n == SourceName(NewAttr(t))
           new == Append(Front(old), n)
<1>1. t \in todo /\ Encrypts(t) /\ ~written /\ todo # {} BY DEF WriteNew, Visited
<1>2. Unique(src) BY <1>1, NoDoubles DEF IInv
<1>3. /\ old \in DOMAIN src /\ n \in Seq(Words) /\ TargetIn(src, old) = t
      /\ entries[t].attr = AttrIn(src, old)
      /\ AttrSpelled(src[old].dir, n).target = AttrIn(src, old).target
      /\ AttrSpelled(src[old].dir, n).flags = NewAttr(t).flags
  BY <1>1, VisitFacts DEF IInv
<1>4. ~src[old].dir BY <1>1, EncryptsFile DEF IInv
<1>5. NewPath(t) = new BY DEF NewPath
<1>6. ParseFile(n).target = AttrIn(src, old).target /\ ParseFile(n).flags = NewAttr(t).flags
  BY <1>3, <1>4 DEF AttrSpelled
<1>7. src' = Added(src, old, new, "encrypted" \in ParseFile(n).flags)
  <2>1. src' = Added(src, old, new, "encrypted" \in NewAttr(t).flags)
    BY <1>5, Zenon DEF WriteNew, Added
  <2> HIDE DEF new
  <2> QED BY <1>6, <2>1
<1>8. new \in DOMAIN src => ~src[new].dir BY <1>5 DEF WriteNew
<1>9. ("encrypted" \in AttrIn(src, old).flags) # ("encrypted" \in NewAttr(t).flags)
  BY <1>1, <1>3 DEF Encrypts
<1> HIDE DEF old, n
<1>10. new # old
  <2>1. SUFFICES ASSUME new = old PROVE FALSE OBVIOUS
  <2>2. AttrIn(src, old) = AttrSpelled(src[old].dir, old[Len(old)]) /\ Len(old) \in Nat \ {0}
    BY <1>3, Spelling DEF IInv
  <2>3. Len(old) \in 1..Len(old) BY <2>2
  <2>4. new[Len(old)] = n BY <1>3, <2>3, Beside DEF IInv
  <2>5. old[Len(old)] = n BY <2>1, <2>4
  <2>6. AttrIn(src, old).flags = NewAttr(t).flags BY <1>3, <2>2, <2>5
  <2> QED BY <1>9, <2>6
<1>11. new \notin DOMAIN src
  <2> HIDE DEF new
  <2> QED BY <1>1, <1>2, <1>4, <1>5, <1>8, <1>10, NewPathFree DEF IInv, old
<1>12. LET s2 == Added(src, old, new, "encrypted" \in ParseFile(n).flags)
       IN /\ Placed(s2) /\ Named(s2)
          /\ DOMAIN s2 = DOMAIN src \cup {new} /\ ~s2[new].dir /\ s2[new].text = src[old].text
          /\ TargetIn(s2, new) = TargetIn(src, old) /\ AttrIn(s2, new) = ParseFile(n)
          /\ \A p \in DOMAIN src : /\ s2[p] = src[p] /\ TargetIn(s2, p) = TargetIn(src, p)
                                   /\ AttrIn(s2, p) = AttrIn(src, p)
  BY <1>3, <1>4, <1>6, <1>11, AddedFacts DEF IInv
<1> HIDE DEF new
<1> QED BY <1>2, <1>3, <1>4, <1>5, <1>7, <1>10, <1>12 DEF old

LEMMA WriteInv == ASSUME IInv, NEW t \in Targets, WriteNew(t) PROVE IInv'
<1> DEFINE old == Path(t)
           new == NewPath(t)
<1>1. /\ t \in todo /\ Visited(t) /\ Encrypts(t) /\ written' = TRUE
      /\ entries' = entries /\ todo' = todo /\ mod' = mod /\ calls' = calls
      /\ stopped' = stopped /\ original' = original
  BY DEF WriteNew, Visited
<1>2. /\ Unique(src) /\ old \in DOMAIN src /\ ~src[old].dir /\ TargetIn(src, old) = t
      /\ Placed(src') /\ Named(src') /\ new # old
      /\ DOMAIN src' = DOMAIN src \cup {new} /\ ~src'[new].dir
      /\ src'[new].text = src[old].text /\ TargetIn(src', new) = t
      /\ \A p \in DOMAIN src : /\ src'[p] = src[p] /\ TargetIn(src', p) = TargetIn(src, p)
                               /\ AttrIn(src', p) = AttrIn(src, p)
  BY WriteFacts
<1>3. \A u : Path(u)' = Path(u) /\ NewPath(u)' = NewPath(u)
  BY <1>1 DEF Path, NewPath, NewAttr
<1>4. (written \in BOOLEAN)' /\ written' BY <1>1
<1>5. Half(t)'
  <2>1. Visited(t)' /\ Encrypts(t)' BY <1>1 DEF Visited, Encrypts, NewAttr
  <2>2. NewPath(t)' = new /\ Path(t)' = old BY <1>3
  <2> HIDE DEF old, new
  <2> QED BY <1>1, <1>2, <2>1, <2>2 DEF Half, Target
<1>6. Writing' BY <1>1, <1>4, <1>5 DEF Writing
<1>7. Entries'
  <2>1. ASSUME NEW u \in todo
        PROVE  /\ u \in DOMAIN entries /\ Path(u) \in DOMAIN src'
               /\ TargetIn(src', Path(u)) = u /\ entries[u].attr = AttrIn(src', Path(u))
    BY <1>2 DEF IInv, Entries, Target, AttrOf
  <2> QED BY <1>1, <1>3, <2>1 DEF Entries, Target, AttrOf
<1>8. Kept' BY <1>1, <1>2, KeepsTexts DEF IInv
<1>9. Doubles'
  <2>1. ASSUME NEW p \in DOMAIN src', NEW q \in DOMAIN src',
               TargetIn(src', p) = TargetIn(src', q), p # q
        PROVE  /\ ~src'[p].dir /\ ~src'[q].dir /\ src'[p].text = src'[q].text
               /\ {p, q} = {old, new}
    <3> HIDE DEF old, new
    <3>1. CASE p = new
      <4>1. q \in DOMAIN src /\ TargetIn(src, q) = t BY <1>2, <2>1, <3>1
      <4>2. q = old BY <1>2, <4>1 DEF Unique
      <4> QED BY <1>2, <3>1, <4>2
    <3>2. CASE q = new
      <4>1. p \in DOMAIN src /\ TargetIn(src, p) = t BY <1>2, <2>1, <3>2
      <4>2. p = old BY <1>2, <4>1 DEF Unique
      <4> QED BY <1>2, <3>2, <4>2
    <3>3. CASE p # new /\ q # new
      <4>1. TargetIn(src, p) = TargetIn(src, q) /\ p \in DOMAIN src /\ q \in DOMAIN src
        BY <1>2, <2>1, <3>3
      <4> QED BY <1>2, <2>1, <4>1 DEF Unique
    <3> QED BY <3>1, <3>2, <3>3
  <2>2. NewPath(t)' = new /\ Path(t)' = old BY <1>3
  <2> HIDE DEF old, new
  <2> QED BY <1>1, <1>4, <1>5, <2>1, <2>2 DEF Doubles, Target
<1> QED BY <1>1, <1>2, <1>6, <1>7, <1>8, <1>9 DEF IInv

\* Removing the old file: the new one keeps its text, and has the attributes
\* of the modifier.
LEMMA RemoveKeeps ==
  ASSUME IInv, NEW t \in Targets, RemoveOld(t)
  PROVE  Keeps(src, src', todo \ {t}) /\ Has(src', NewPath(t), t, NewAttr(t))
<1> DEFINE old == Path(t)
           n == SourceName(NewAttr(t))
           new == Append(Front(old), n)
<1>1. t \in todo /\ Visited(t) /\ written BY DEF RemoveOld, Visited
<1>2. Half(t)
  <2>1. PICK h \in todo : Half(h) BY <1>1 DEF IInv, Writing
  <2>2. h = t BY <1>1, <2>1, VisitOrder DEF IInv, Half
  <2> QED BY <2>1, <2>2
<1>3. /\ old \in DOMAIN src /\ n \in Seq(Words) /\ TargetIn(src, old) = t
      /\ AttrSpelled(src[old].dir, n).target = AttrIn(src, old).target
      /\ AttrSpelled(src[old].dir, n).type = NewAttr(t).type
      /\ AttrSpelled(src[old].dir, n).flags = NewAttr(t).flags
  BY <1>1, VisitFacts DEF IInv
<1>4. NewPath(t) = new BY DEF NewPath
<1> HIDE DEF old, n
<1>5. /\ new \in DOMAIN src /\ new # old /\ ~src[new].dir /\ ~src[old].dir
      /\ TargetIn(src, new) = t
  BY <1>2, <1>4 DEF Half, Target, old
<1>6. src' = [p \in DOMAIN src \ {old} |-> src[p]] BY DEF RemoveOld, old
<1>7. /\ Placed(src') /\ Named(src') /\ DOMAIN src' = DOMAIN src \ {old}
      /\ \A q \in DOMAIN src' : /\ src'[q] = src[q] /\ TargetIn(src', q) = TargetIn(src, q)
                                /\ AttrIn(src', q) = AttrIn(src, q)
  <2>1. Placed(src) /\ Named(src) BY DEF IInv
  <2>2. LET s2 == [q \in DOMAIN src \ {old} |-> src[q]]
        IN /\ Placed(s2) /\ Named(s2) /\ DOMAIN s2 = DOMAIN src \ {old}
           /\ \A q \in DOMAIN s2 : /\ s2[q] = src[q] /\ TargetIn(s2, q) = TargetIn(src, q)
                                   /\ AttrIn(s2, q) = AttrIn(src, q)
    BY <1>3, <1>5, <2>1, RemovedFacts
  <2> QED BY <1>6, <2>2
<1>8. ParseFile(n).target = AttrIn(src, old).target /\ ParseFile(n).type = NewAttr(t).type
      /\ ParseFile(n).flags = NewAttr(t).flags
  BY <1>3, <1>5 DEF AttrSpelled
<1>9. Has(src', new, t, NewAttr(t))
  <2>1. new \in DOMAIN src' /\ ~src'[new].dir BY <1>5, <1>7
  <2>2. TargetIn(src', new) = t /\ AttrIn(src', new) = ParseFile(n)
    <3>1. /\ Placed(src) /\ Placed(src') /\ ~src[old].dir
          /\ ParseFile(n).target = AttrIn(src, old).target /\ old \in DOMAIN src /\ n \in Seq(Words)
      BY <1>3, <1>5, <1>7, <1>8 DEF IInv
    <3>2. TargetIn(src', new) = TargetIn(src, old) /\ AttrIn(src', new) = ParseFile(n)
      BY <2>1, <3>1, BesideTarget
    <3> QED BY <1>3, <3>2
  <2> HIDE DEF new
  <2> QED BY <1>8, <2>1, <2>2 DEF Has
<1> HIDE DEF new
<1>10. Unique(src')
  <2>1. SUFFICES ASSUME NEW p \in DOMAIN src', NEW q \in DOMAIN src',
                        TargetIn(src', p) = TargetIn(src', q), p # q
                 PROVE  FALSE
    BY DEF Unique
  <2>2. Target(p) = Target(q) /\ p \in DOMAIN src /\ q \in DOMAIN src BY <1>7, <2>1 DEF Target
  <2>3. PICK h \in todo : Half(h) /\ {p, q} = {Path(h), NewPath(h)}
    BY <1>1, <2>1, <2>2 DEF IInv, Doubles
  <2>4. h = t BY <1>1, <2>3, VisitOrder DEF IInv, Half
  <2>5. old \in {p, q} BY <2>3, <2>4 DEF old
  <2> QED BY <1>7, <2>5
<1>11. ASSUME NEW p \in DOMAIN src
       PROVE  \E q \in DOMAIN src' : TargetIn(src', q) = TargetIn(src, p) /\ src'[q].text = src[p].text
  <2>1. CASE p = old
    <3>1. src[new].text = src[old].text
      <4>1. Target(new) = Target(old) BY <1>3, <1>5 DEF Target
      <4> QED BY <1>3, <1>5, <4>1 DEF IInv, Doubles
    <3>2. new \in DOMAIN src' BY <1>5, <1>7
    <3> QED BY <1>3, <1>5, <1>7, <2>1, <3>1, <3>2
  <2>2. CASE p # old
    <3>1. p \in DOMAIN src' BY <1>7, <2>2
    <3> QED BY <1>7, <3>1
  <2> QED BY <2>1, <2>2
<1>12. Stay(src, src', todo \ {t})
  <2>1. ASSUME NEW u \in todo \ {t}
        PROVE  LET p == entries[u].path
               IN p \in DOMAIN src' /\ TargetIn(src', p) = u /\ AttrIn(src', p) = AttrIn(src, p)
    <3> DEFINE p == entries[u].path
    <3>1. p \in DOMAIN src /\ TargetIn(src, p) = u BY DEF IInv, Entries, Path, Target
    <3> HIDE DEF p
    <3>2. p \in DOMAIN src' BY <1>3, <1>7, <3>1
    <3> QED BY <1>7, <3>1, <3>2 DEF p
  <2> QED BY <2>1 DEF Stay
<1> QED BY <1>4, <1>7, <1>9, <1>10, <1>11, <1>12 DEF Keeps

LEMMA RemoveInv == ASSUME IInv, NEW t \in Targets, RemoveOld(t) PROVE IInv'
<1>1. /\ t \in todo /\ Leave(todo \ {t}) /\ ~written' /\ written' \in BOOLEAN
      /\ calls' = calls /\ stopped' = stopped /\ original' = original
  <2>1. written' = FALSE BY DEF RemoveOld
  <2> QED BY <2>1 DEF RemoveOld, Visited, Done
<1>2. Keeps(src, src', todo \ {t}) BY RemoveKeeps
<1>3. Placed(src') /\ Named(src') /\ Unique(src') /\ Stay(src, src', todo \ {t})
  BY <1>2 DEF Keeps
<1>4. Kept' BY <1>1, <1>2, KeepsTexts DEF IInv, Keeps
<1>5. Entries' /\ GoodModifier(mod)' BY <1>1, <1>3, LeaveKeeps DEF IInv
<1>6. Writing' BY <1>1 DEF Writing
<1>7. Doubles' BY <1>3, UniqueDoubles
<1> QED BY <1>1, <1>3, <1>4, <1>5, <1>6, <1>7 DEF IInv

\* Whichever of the two the user deletes, the other holds its text.
LEMMA RepairInv == ASSUME IInv, Repair PROVE IInv'
<1>1. /\ todo = {} /\ entries' = entries /\ todo' = todo /\ mod' = mod /\ written' = written
      /\ calls' = calls /\ stopped' = stopped /\ original' = original
  BY DEF Repair
<1>2. PICK p \in DOMAIN src, r \in DOMAIN src :
        /\ p # r /\ Target(p) = Target(r) /\ ~src[p].dir
        /\ src' = [q \in DOMAIN src \ {p} |-> src[q]]
  BY Zenon DEF Repair
<1>3. src[p].text = src[r].text BY <1>2 DEF IInv, Doubles
<1>4. /\ Placed(src') /\ Named(src') /\ DOMAIN src' = DOMAIN src \ {p}
      /\ \A q \in DOMAIN src' : /\ src'[q] = src[q] /\ TargetIn(src', q) = TargetIn(src, q)
                                /\ AttrIn(src', q) = AttrIn(src, q)
  BY <1>2, RemovedFacts DEF IInv
<1>5. Kept'
  <2>1. ASSUME NEW x \in DOMAIN src
        PROVE  \E q \in DOMAIN src' : TargetIn(src', q) = TargetIn(src, x) /\ src'[q].text = src[x].text
    <3>1. r \in DOMAIN src' BY <1>2, <1>4
    <3>2. CASE x = p
      <4>1. TargetIn(src', r) = TargetIn(src, x) BY <1>2, <1>4, <3>1, <3>2 DEF Target
      <4> QED BY <1>3, <1>4, <3>1, <3>2, <4>1
    <3>3. CASE x # p
      <4>1. x \in DOMAIN src' BY <1>4, <3>3
      <4> QED BY <1>4, <4>1
    <3> QED BY <3>2, <3>3
  <2> QED BY <1>1, <2>1, KeepsTexts DEF IInv
<1>6. Entries' BY <1>1 DEF IInv, Entries
<1>7. Writing' BY <1>1 DEF IInv, Writing
<1>8. Doubles'
  <2>1. ASSUME NEW x \in DOMAIN src', NEW y \in DOMAIN src',
               TargetIn(src', x) = TargetIn(src', y), x # y
        PROVE  ~src'[x].dir /\ ~src'[y].dir /\ src'[x].text = src'[y].text /\ stopped
    <3>1. x \in DOMAIN src /\ y \in DOMAIN src /\ Target(x) = Target(y)
      BY <1>4, <2>1 DEF Target
    <3> QED BY <1>1, <1>4, <2>1, <3>1 DEF IInv, Doubles
  <2> QED BY <1>1, <2>1 DEF Doubles, Target
<1>9. GoodModifier(mod)' BY <1>1 DEF IInv, GoodModifier
<1> QED BY <1>1, <1>4, <1>5, <1>6, <1>7, <1>8, <1>9 DEF IInv

\* From every state that satisfies it, no step leaves it.
LEMMA StepInv == ASSUME IInv, [Next]_vars PROVE IInv'
<1>1. CASE Begin BY <1>1, BeginInv
<1>2. ASSUME NEW t \in Targets, RenameEntry(t) PROVE IInv' BY <1>2, RenameInv
<1>3. ASSUME NEW t \in Targets, WriteNew(t) PROVE IInv' BY <1>3, WriteInv
<1>4. ASSUME NEW t \in Targets, RemoveOld(t) PROVE IInv' BY <1>4, RemoveInv
<1>5. CASE Stop BY <1>5, StopInv
<1>6. CASE Repair BY <1>6, RepairInv
<1>7. CASE UNCHANGED vars BY <1>7, NothingDone
<1> QED BY <1>1, <1>2, <1>3, <1>4, <1>5, <1>6, <1>7, Zenon DEF Next

\* The invariant holds in every state that chattr reaches, at every step and
\* after every stop.
THEOREM Inductive == Spec => []IInv
<1>1. Init => IInv BY InitInv
<1>2. IInv /\ [Next]_vars => IInv' BY StepInv
<1> QED BY <1>1, <1>2, PTL DEF Spec

----------------------------------------------------------------------------
(* What chattr promises                                                    *)

\* A path that was read is still there when its turn comes: the directories
\* above it are renamed after it.
THEOREM TypeCorrect == Spec => []TypeOK
<1>1. IInv => TypeOK
  <2> SUFFICES ASSUME IInv PROVE TypeOK OBVIOUS
  <2>1. ASSUME NEW p \in DOMAIN src
        PROVE  /\ Valid(AttrOf(p))
               /\ src[p].cipher \in BOOLEAN /\ (src[p].dir <=> src[p].text = NoText)
               /\ Len(p) > 1 => Front(p) \in DOMAIN src /\ src[Front(p)].dir
    <3>1. Valid(AttrOf(p)) /\ src[p].cipher \in BOOLEAN /\ (src[p].dir <=> src[p].text = NoText)
      BY DEF IInv, Named, AttrOf
    <3>2. Len(p) \in Nat BY LenProperties DEF IInv, Placed
    <3>3. \A i \in 1..Len(p) - 1 : SubSeq(p, 1, i) \in DOMAIN src /\ src[SubSeq(p, 1, i)].dir
      BY DEF IInv, Placed
    <3>4. Len(p) > 1 => Len(p) - 1 \in 1..Len(p) - 1 BY <3>2
    <3> QED BY <3>1, <3>3, <3>4 DEF Front
  <2>2. todo \subseteq DOMAIN entries /\ \A t \in Targets : Visited(t) => Path(t) \in DOMAIN src
    BY DEF IInv, Entries, Visited
  <2>3. written => todo # {} BY DEF IInv, Writing
  <2>4. calls \in 0..MaxCalls /\ stopped \in BOOLEAN BY DEF IInv
  <2> QED BY <2>1, <2>2, <2>3, <2>4, Zenon DEF TypeOK
<1> QED BY <1>1, Inductive, PTL

\* A file is ciphertext exactly when its name says so.
THEOREM NamesTellTheTruth == Spec => []NamesTell
<1>1. IInv => NamesTell BY DEF IInv, Named, NamesTell, AttrOf
<1> QED BY <1>1, Inductive, PTL

\* The text of every file survives, whatever stops.
THEOREM TextsSurvive == Spec => []ContentsSurvive
<1>1. IInv => ContentsSurvive
  <2> SUFFICES ASSUME IInv PROVE ContentsSurvive OBVIOUS
  <2>1. \A t \in DOMAIN original : \E p \in DOMAIN src : Target(p) = t /\ src[p].text = original[t]
    BY DEF IInv, Kept
  <2>2. ~Consistent => stopped \/ written BY DEF IInv, Doubles, Consistent
  <2>3. \A p, q \in DOMAIN src : Target(p) = Target(q) => src[p].text = src[q].text
    BY DEF IInv, Doubles
  <2> QED BY <2>1, <2>2, <2>3 DEF ContentsSurvive
<1> QED BY <1>1, Inductive, PTL

\* What the modifier makes of an attribute it supports.
LEMMA ModifyTakes ==
  ASSUME NEW m, GoodModifier(m), NEW s, Placed(s), NEW p \in DOMAIN s
  PROVE  LET a == AttrIn(s, p)
             b == Modify(m, a)
         IN /\ m["type"][1] = "set" /\ a.type # "dir" => b.type = m["type"][2]
            /\ b.type = a.type =>
                 \A k \in Supported(a.type) : k \in b.flags <=> Holds(m, k, a.flags)
<1> DEFINE a == AttrIn(s, p)
           b == Modify(m, a)
<1>1. a = AttrSpelled(s[p].dir, p[Len(p)]) /\ s[p].dir \in BOOLEAN BY Spelling DEF Placed
<1>2. CASE s[p].dir
  <2>1. a = ParseDir(p[Len(p)]) /\ "external" \notin a.flags
    BY <1>1, <1>2 DEF AttrSpelled, Placed, Last
  <2>2. a.type = "dir" BY <2>1, ParseDirShape
  <2> HIDE DEF a
  <2>3. b.flags = {k \in DirFlags : Holds(m, k, a.flags)} BY <2>1, ModifyDir
  <2> HIDE DEF b
  <2>4. Supported(a.type) = DirFlags BY <2>2 DEF Supported
  <2> QED BY <2>2, <2>3, <2>4 DEF a, b
<1>3. CASE ~s[p].dir
  <2> DEFINE type == Alter(m["type"], a.type, "file")
             holds(k) == Holds(m, k, a.flags)
  <2>1. a.type \in FileTypes BY <1>1, <1>3, ParseFileType DEF AttrSpelled
  <2> HIDE DEF a
  <2>2. a.type # "dir" BY <2>1 DEF FileTypes
  <2>3. b = ModifyFileAttr(m, a) BY <2>2 DEF Modify
  <2> HIDE DEF b
  <2>4. b.type = type BY <2>3 DEF ModifyFileAttr
  <2>5. m["type"][1] = "set" => type = m["type"][2] BY DEF Alter
  <2> HIDE DEF type
  <2>6. type = "file" => b.flags = {k \in FileFlags : Holds(m, k, a.flags)}
    BY <2>3 DEF ModifyFileAttr, type
  <2>7. type = "symlink" => b.flags = {k \in {"template"} : Holds(m, k, a.flags)}
    BY <2>3 DEF ModifyFileAttr, type
  <2>8. /\ a.type = "file" => Supported(a.type) = FileFlags
        /\ a.type = "symlink" => Supported(a.type) = {"template"}
        /\ a.type \notin {"dir", "file", "symlink"} => Supported(a.type) = {}
    BY DEF Supported
  <2>9. ASSUME b.type = a.type, NEW k \in Supported(a.type)
        PROVE  k \in b.flags <=> Holds(m, k, a.flags)
    BY <2>2, <2>4, <2>6, <2>7, <2>8, <2>9
  <2> QED BY <2>4, <2>5, <2>9 DEF a, b
<1> QED BY <1>1, <1>2, <1>3

\* A target that was visited has the attributes its modifier names.
THEOREM VisitedTakesModifier == Spec => TakesModifier
<1> DEFINE Takes(t) ==
      \E p \in DOMAIN src' :
        /\ TargetIn(src', p) = t
        /\ LET old == entries[t].attr  new == AttrIn(src', p)
           IN /\ mod["type"][1] = "set" /\ old.type # "dir" => new.type = mod["type"][2]
              /\ new.type = old.type => \A k \in Supported(old.type) :
                   (k \in new.flags) <=> Holds(mod, k, old.flags)
<1>1. ASSUME IInv, NEW t \in todo, Has(src', NewPath(t), t, NewAttr(t)) PROVE Takes(t)
  <2>1. Path(t) \in DOMAIN src /\ entries[t].attr = AttrIn(src, Path(t))
        /\ NewAttr(t) = Modify(mod, AttrIn(src, Path(t)))
    BY <1>1, VisitFacts DEF IInv
  <2> DEFINE a == AttrIn(src, Path(t))
             b == Modify(mod, a)
  <2>2. /\ mod["type"][1] = "set" /\ a.type # "dir" => b.type = mod["type"][2]
        /\ b.type = a.type => \A k \in Supported(a.type) : k \in b.flags <=> Holds(mod, k, a.flags)
    BY <1>1, <2>1, ModifyTakes DEF IInv
  <2> HIDE DEF a, b
  <2>3. entries[t].attr = a /\ NewAttr(t) = b BY <2>1 DEF a, b
  <2>4. /\ NewPath(t) \in DOMAIN src' /\ TargetIn(src', NewPath(t)) = t
        /\ AttrIn(src', NewPath(t)).type = b.type /\ AttrIn(src', NewPath(t)).flags = b.flags
    BY <1>1, <2>3 DEF Has
  <2> QED BY <2>2, <2>3, <2>4
<1> HIDE DEF Takes
<1>2. ASSUME IInv, [Next]_vars, NEW t \in todo \ todo' PROVE stopped' \/ Takes(t)
  <2>1. CASE Begin BY <2>1, <1>2 DEF Begin
  <2>2. ASSUME NEW u \in Targets, RenameEntry(u) PROVE Takes(t)
    <3>1. u \in todo /\ Visited(u) /\ ~Encrypts(u) /\ todo' = todo \ {u}
      BY <2>2 DEF RenameEntry, Visited, Done, Leave
    <3>2. ~written
      <4>1. ASSUME NEW h \in todo, Half(h) PROVE h = u
        BY <1>2, <3>1, <4>1, VisitOrder DEF IInv, Half
      <4> QED BY <1>2, <3>1, <4>1 DEF IInv, Writing, Half
    <3>3. Unique(src) BY <1>2, <3>1, <3>2, NoDoubles DEF IInv
    <3>4. Has(src', NewPath(u), u, NewAttr(u)) BY <1>2, <2>2, <3>1, <3>3, RenameKeeps DEF IInv
    <3> QED BY <1>1, <1>2, <3>1, <3>4
  <2>3. ASSUME NEW u \in Targets, WriteNew(u) PROVE FALSE BY <1>2, <2>3 DEF WriteNew
  <2>4. ASSUME NEW u \in Targets, RemoveOld(u) PROVE Takes(t)
    <3>1. u \in todo /\ todo' = todo \ {u} BY <2>4 DEF RemoveOld, Visited, Done, Leave
    <3>2. Has(src', NewPath(u), u, NewAttr(u)) BY <1>2, <2>4, RemoveKeeps
    <3> QED BY <1>1, <1>2, <3>1, <3>2
  <2>5. CASE Stop
    <3>1. stopped' = TRUE BY <2>5 DEF Stop
    <3> QED BY <3>1
  <2>6. CASE Repair BY <1>2, <2>6 DEF Repair
  <2>7. CASE UNCHANGED vars BY <1>2, <2>7 DEF vars
  <2> QED BY <1>2, <2>1, <2>2, <2>3, <2>4, <2>5, <2>6, <2>7, Zenon DEF Next
<1>3. IInv /\ [Next]_vars =>
        [\A t \in todo \ todo' : stopped' \/ \E p \in DOMAIN src' :
           /\ TargetIn(src', p) = t
           /\ LET old == entries[t].attr  new == AttrIn(src', p)
              IN /\ mod["type"][1] = "set" /\ old.type # "dir" => new.type = mod["type"][2]
                 /\ new.type = old.type => \A k \in Supported(old.type) :
                      (k \in new.flags) <=> Holds(mod, k, old.flags)]_vars
  BY <1>2, Zenon DEF Takes
<1> QED BY <1>3, Inductive, PTL DEF Spec, TakesModifier
=============================================================================
