--------------------------- MODULE ExternalCases ---------------------------
(***************************************************************************)
(* Externals for External: files from one or two URLs, each of them remote *)
(* or local, and archives whose headers come in every awkward order.       *)
(***************************************************************************)
EXTENDS Integers, Sequences

Offline == "down"
Archives == {"a1", "a2", "a3", "a4", "a5"}
CaseContents == {"c1", "c2"} \cup Archives

H(kind, name) == [name |-> name, kind |-> kind]
CaseHeaders ==
  [c \in CaseContents |->
     CASE c = "a1" -> << H("dir", <<"d">>), H("reg", <<"d", "f">>), H("symlink", <<"d", "l">>), H("reg", <<"g">>) >>
       [] c = "a2" -> << H("reg", <<"d", "e", "f">>), H("dir", <<"d">>), H("reg", <<"d", "f">>), H("reg", <<"d", "f">>) >>
       [] c = "a3" -> << H("reg", <<"g">>), H("other", <<"d", "o">>), H("reg", <<"d", "f">>) >>
       [] c = "a4" -> << H("dir", <<"d">>), H("dir", <<"d", "e">>), H("apple", <<"d", "e", "f">>), H("symlink", <<"d", "f">>) >>
       [] OTHER  -> << >>]
In(path) == [of |-> path, include |-> TRUE]
Ex(path) == [of |-> path, include |-> FALSE]

Downloaded ==
  { e \in [urls : {<<"u">>, <<"u", "v">>}, local : SUBSET {"u", "v"}, serves : {{"c1", "c2"}}, period : {0, 2},
           checksum : {Offline, "c1"}, type : {"file"}, format : {"tar"}, patterns : {{}}, strip : {0},
           path : {<<>>}, ignored : {{}}] : e.local \subseteq { e.urls[i] : i \in DOMAIN e.urls } }
Walked ==
  [urls : {<<"u">>}, local : {{"u"}}, serves : {Archives}, period : {0}, checksum : {Offline},
   type : {"archive"}, format : {"tar", "zip", "rar"},
   patterns : {{}, {In(<<"d", "**">>)}, {In(<<"d", "f">>), In(<<"g">>)}, {Ex(<<"d", "e">>)}, {In(<<"**">>), Ex(<<"g">>)}},
   strip : {0, 1}, path : {<<>>}, ignored : {{}, {In(<<"d">>)}, {In(<<"e">>)}}]
Searched ==
  [urls : {<<"u">>}, local : {{"u"}}, serves : {Archives}, period : {0}, checksum : {Offline},
   type : {"archive-file"}, format : {"tar", "zip", "rar"}, patterns : {{}},
   strip : {0, 1}, path : {<<"d", "f">>, <<"f">>, <<"g">>}, ignored : {{}}]
CaseExternals == Downloaded \cup Walked \cup Searched
============================================================================
