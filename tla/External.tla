------------------------------ MODULE External ------------------------------
(***************************************************************************)
(* One external of type file, archive or archive-file, over several runs   *)
(* of chezmoi: its data comes from the cache of downloads or from one of   *)
(* its URLs (getExternalData, internal/chezmoi/sourcestate.go:1664), and   *)
(* the archive is walked header by header (internal/chezmoi/archive.go).   *)
(*                                                                         *)
(* Contents are model values.  An archive is the sequence of its headers:  *)
(* [name, kind], with kind "reg", "dir", "symlink", "apple" (the metadata  *)
(* files of macOS) or "other", and name the sequence of its components.    *)
(***************************************************************************)
EXTENDS Integers, Sequences, FiniteSets, SequencesExt, PatternSet

CONSTANTS
  Externals,      \* what is declared, see External below
  Contents,       \* what a URL may serve
  Headers,        \* [Contents -> Seq of headers]
  Down,           \* the URL does not answer, or answers an error
  MaxTime, MaxChanges, MaxRuns

ExternalAssumption ==
  /\ Down \notin Contents /\ MaxTime \in Nat /\ MaxChanges \in Nat /\ MaxRuns \in Nat
  /\ \A e \in Externals :
        /\ e.urls \in Seq(STRING) \ {<<>>}
        /\ e.local \subseteq STRING /\ e.serves \subseteq Contents /\ e.period \in Nat
        /\ e.checksum \in Contents \cup {Down} /\ e.type \in {"file", "archive", "archive-file"}

VARIABLES
  ext,            \* [urls, local, serves, period, checksum, type, format,
                  \*  patterns, strip, path, ignored]: local are those of its
                  \*  URLs that are file:// URLs, and serves is the contents
                  \*  that its URLs may serve
  refresh,        \* options.RefreshExternals of this run
  now,            \* the clock
  served,         \* [url -> what it serves now]
  history,        \* [url -> what it served, with the time it was replaced]
  cache,          \* external/<sha256 of the url>: [url -> [data, mtime, late]],
                  \* late being how long after the request mtime is
  job,            \* the read under way
  requests,       \* the requests that were answered and cached
  todo,           \* headers that the walk has still to process
  seen,           \* seenDirs
  skipped,        \* skippedDirPrefixes
  results,        \* the entries found so far
  run, changes

extVars == <<ext, refresh, now, served, history, cache, job, requests,
             todo, seen, skipped, results, run, changes>>
runVars == <<ext, refresh, run>>
worldVars == <<served, history, changes>>
walkVars == <<todo, seen, skipped, results>>

Idle == [at |-> "idle", url |-> 1, asked |-> -1, data |-> Down, failed |-> 0]
Urls == { ext.urls[i] : i \in DOMAIN ext.urls }
Url == ext.urls[job.url]

(* Local files are read in the same way whatever the clock says and earlier *)
(* runs did: where there is nothing else, they are read once, with the     *)
(* clock and the counters at their bounds.                                 *)
OnlyLocal == Urls \subseteq ext.local
Bound(max) == IF OnlyLocal THEN max ELSE 0

Init ==
  /\ ext \in Externals
  /\ refresh \in IF OnlyLocal THEN {"auto"} ELSE {"auto", "always", "never"}
  /\ now = Bound(MaxTime)
  /\ served \in [Urls -> ext.serves \cup {Down}]
  /\ history = [u \in Urls |-> <<>>]
  /\ cache = <<>>
  /\ job = Idle
  /\ requests = {}
  /\ todo = <<>> /\ seen = {} /\ skipped = {} /\ results = <<>>
  /\ run = IF OnlyLocal THEN MaxRuns ELSE 1
  /\ changes = Bound(MaxChanges)

-----------------------------------------------------------------------------
(* getExternalDataRaw, for one URL after another                           *)

Start ==
  /\ job = Idle
  /\ job' = [Idle EXCEPT !.at = "look"]
  /\ UNCHANGED <<runVars, worldVars, walkVars, now, cache, requests>>

(* A slip: the period may have passed.                                      *)
UsableLonger(url) ==
  /\ url \in DOMAIN cache
  /\ \/ refresh = "never"
     \/ refresh = "auto" /\ (ext.period = 0 \/ cache[url].mtime + ext.period >= now)

(* A slip: a period of zero is a period like any other.                     *)
UsableByPeriod(url) ==
  /\ url \in DOMAIN cache
  /\ \/ refresh = "never"
     \/ refresh = "auto" /\ cache[url].mtime + ext.period > now

Usable(url) ==
  /\ url \in DOMAIN cache
  /\ \/ refresh = "never"
     \/ refresh = "auto" /\ (ext.period = 0 \/ cache[url].mtime + ext.period > now)

(* A file:// URL is read from disk every time, and is not cached           *)
ReadLocal ==
  /\ job.at = "look" /\ Url \in ext.local
  /\ served[Url] # Down
  /\ job' = [job EXCEPT !.at = "got", !.data = served[Url]]
  /\ UNCHANGED <<runVars, worldVars, walkVars, now, cache, requests>>

FromCache ==
  /\ job.at = "look" /\ Url \notin ext.local
  /\ Usable(Url)
  /\ job' = [job EXCEPT !.at = "got", !.asked = now, !.data = cache[Url].data]
  /\ UNCHANGED <<runVars, worldVars, walkVars, now, cache, requests>>

(* The time that the cache file will bear is taken before the request      *)
Ask ==
  /\ job.at = "look" /\ Url \notin ext.local
  /\ ~Usable(Url)
  /\ job' = [job EXCEPT !.at = "asking", !.asked = now]
  /\ UNCHANGED <<runVars, worldVars, walkVars, now, cache, requests>>

(* No answer, no such file, or the cache cannot be written                 *)
Fails ==
  \/ job.at = "asking" /\ served[Url] = Down
  \/ job.at = "look" /\ Url \in ext.local /\ served[Url] = Down
  \/ job.at \in {"write", "chtimes"}

(* A slip: the URL after the last one is tried.                             *)
AskFailsBeyond ==
  /\ Fails
  /\ job' = [job EXCEPT !.at = "look", !.url = @ + 1, !.failed = @ + 1]
  /\ UNCHANGED <<runVars, worldVars, walkVars, now, cache, requests>>

(* The next URL is tried, and after the last one the first error counts    *)
AskFails ==
  /\ Fails
  /\ job' = IF job.url < Len(ext.urls)
            THEN [job EXCEPT !.at = "look", !.url = @ + 1, !.failed = @ + 1]
            ELSE [job EXCEPT !.at = "failed", !.failed = @ + 1]
  /\ UNCHANGED <<runVars, worldVars, walkVars, now, cache, requests>>

Answered ==
  /\ job.at = "asking" /\ served[Url] # Down
  /\ job' = [job EXCEPT !.at = "write", !.data = served[Url]]
  /\ UNCHANGED <<runVars, worldVars, walkVars, now, cache, requests>>

(* WriteFile and then Chtimes, before the data is verified.  A file whose   *)
(* writer is killed in between bears the time when it was written.         *)
WriteCache ==
  /\ job.at = "write"
  /\ cache' = [u \in DOMAIN cache \cup {Url} |->
                 IF u = Url THEN [data |-> job.data, mtime |-> now, late |-> now - job.asked] ELSE cache[u]]
  /\ job' = [job EXCEPT !.at = "chtimes"]
  /\ UNCHANGED <<runVars, worldVars, walkVars, now, requests>>

Chtimes ==
  /\ job.at = "chtimes"
  /\ cache' = [cache EXCEPT ![Url].mtime = job.asked, ![Url].late = 0]
  /\ requests' = requests \cup {[url |-> Url, at |-> job.asked, run |-> run]}
  /\ job' = [job EXCEPT !.at = "got"]
  /\ UNCHANGED <<runVars, worldVars, walkVars, now>>

(* getExternalData: no other URL is tried for data that is not as expected. *)
(* Decryption, decompression and the filter may fail too.                  *)
Verify ==
  /\ job.at = "got"
  /\ \/ /\ ext.checksum \in {Down, job.data}
        /\ job' = [job EXCEPT !.at = IF ext.type = "file" THEN "done" ELSE "walk"]
        /\ todo' = IF ext.type = "file" THEN <<>> ELSE Headers[job.data]
     \/ job' = [job EXCEPT !.at = "rejected"] /\ UNCHANGED todo
  /\ UNCHANGED <<runVars, worldVars, now, cache, requests, seen, skipped, results>>

-----------------------------------------------------------------------------
(* WalkArchive *)

Dirs(name) == { SubSeq(name, 1, i) : i \in 1..Len(name) - 1 }


(* The directories above a file come before it, as if they had headers     *)
Implicit(h) ==
  IF \/ h.kind \notin {"reg", "apple"}
     \/ ext.format = "rar"
  THEN <<>>
  ELSE [i \in 1..Len(h.name) - 1 |-> [name |-> SubSeq(h.name, 1, i), kind |-> "dir"]]

(* Files of a zip archive do not pass the filter of what was seen          *)
Filtered(h) == ext.format # "zip" \/ h.kind = "dir"

(* What readExternalArchive does with an entry: "skip" is fs.SkipDir, and   *)
(* entries of other kinds come to it only from rar archives                *)
Result(h) ==
  LET name == SubSeq(h.name, ext.strip + 1, Len(h.name))
      skip == IF h.kind = "dir" THEN "skip" ELSE "nothing"
  IN IF ext.patterns # {} /\ Match(ext.patterns, h.name) = "exclude"
     THEN IF \E p \in ext.patterns : ~p.include THEN skip ELSE "nothing"
     ELSE IF Len(h.name) <= ext.strip THEN "nothing"
     ELSE IF Match(ext.ignored, name) = "include" THEN skip
     ELSE IF h.kind = "apple" THEN "nothing"
     ELSE IF h.kind = "other" THEN "error"
     ELSE "entry"

(* What readExternalArchiveFile does with it, in search of one path        *)
Search(h) ==
  LET name == SubSeq(h.name, ext.strip + 1, Len(h.name))
  IN IF Len(h.name) <= ext.strip THEN "nothing"
     ELSE IF name # ext.path
          THEN IF h.kind = "dir" /\ ~IsPrefix(name, ext.path) THEN "skip" ELSE "nothing"
     ELSE IF h.kind = "apple" THEN "nothing"
     ELSE IF h.kind \in {"dir", "other"} THEN "error"
     ELSE "found"

Does(h) == IF ext.type = "archive" THEN Result(h) ELSE Search(h)

Found(h) == [name |-> SubSeq(h.name, ext.strip + 1, Len(h.name)), kind |-> h.kind]

(* One header, with those above it that stand for no header of the archive *)
Walk(headers, walk) ==
  LET Step(w, h) ==
        LET here == [w EXCEPT !.seen = IF Filtered(h) THEN @ \cup {h.name} ELSE @]
        IN CASE \/ w.end # "no"
                \/ \E p \in w.skipped : IsPrefix(p, h.name)
                \/ Filtered(h) /\ h.name \in w.seen -> w
             [] OTHER ->
                  CASE Does(h) = "skip"    -> [here EXCEPT !.skipped = @ \cup {h.name}]
                    [] Does(h) = "nothing" -> here
                    [] Does(h) = "error"   -> [here EXCEPT !.end = "rejected"]
                    [] Does(h) = "found"   -> [here EXCEPT !.results = << Found(h) >>, !.end = "done"]
                    [] Does(h) = "entry"   -> [here EXCEPT !.results = Append(@, Found(h))]
  IN FoldLeft(Step, walk, headers)

(* The kind of a header counts before its name: of other kinds, the walk of *)
(* tar archives accepts none, and that of zip archives sees none           *)
NextHeader ==
  /\ job.at = "walk" /\ todo # <<>>
  /\ LET h == Head(todo)
         w == Walk(IF ext.format = "zip" /\ h.kind = "other" THEN <<>> ELSE Append(Implicit(h), h),
                   [seen |-> seen, skipped |-> skipped, results |-> results,
                    end |-> IF ext.format = "tar" /\ h.kind = "other" THEN "rejected" ELSE "no"])
     IN /\ seen' = w.seen /\ skipped' = w.skipped /\ results' = w.results
        /\ job' = CASE w.end = "no" -> job
                    [] w.end = "done" -> [job EXCEPT !.at = "done"]
                    [] OTHER -> [job EXCEPT !.at = "rejected"]
  /\ todo' = Tail(todo)
  /\ UNCHANGED <<runVars, worldVars, now, cache, requests>>

ArchiveEnds ==
  /\ job.at = "walk" /\ todo = <<>>
  /\ job' = [job EXCEPT !.at = IF ext.type = "archive" THEN "done" ELSE "missing"]
  /\ UNCHANGED <<runVars, worldVars, walkVars, now, cache, requests>>

-----------------------------------------------------------------------------
(* The world around it *)

(* The run ends or is killed, and another begins                           *)
Rerun ==
  /\ job # Idle /\ run < MaxRuns
  /\ run' = run + 1
  /\ refresh' \in {"auto", "always", "never"}
  /\ job' = Idle
  /\ todo' = <<>> /\ seen' = {} /\ skipped' = {} /\ results' = <<>>
  /\ UNCHANGED <<ext, worldVars, now, cache, requests>>

Tick ==
  /\ now < MaxTime
  /\ now' = now + 1
  /\ UNCHANGED <<runVars, worldVars, walkVars, cache, job, requests>>

Change(url) ==
  /\ changes < MaxChanges
  /\ served[url] # Down => history' = [history EXCEPT ![url] = Append(@, [data |-> served[url], till |-> now])]
  /\ served[url] = Down => UNCHANGED history
  /\ served' \in { [served EXCEPT ![url] = c] : c \in (ext.serves \cup {Down}) \ {served[url]} }
  /\ changes' = changes + 1
  /\ UNCHANGED <<runVars, walkVars, now, cache, job, requests>>

Next ==
  \/ Start \/ ReadLocal \/ FromCache \/ Ask \/ AskFails \/ Answered \/ WriteCache \/ Chtimes
  \/ Verify \/ NextHeader \/ ArchiveEnds \/ Rerun \/ Tick
  \/ \E url \in Urls : Change(url)

Spec == Init /\ [][Next]_extVars

-----------------------------------------------------------------------------
(* Properties *)

Data   == Contents \cup {Down}
Places == {"idle", "look", "asking", "write", "chtimes", "got", "walk", "done", "failed", "rejected", "missing"}
Past   == [data : Contents, till : Nat]

TypeOK ==
  /\ ext \in Externals /\ refresh \in {"auto", "always", "never"}
  /\ now \in Nat /\ run \in Nat /\ changes \in Nat
  /\ served \in [Urls -> Data] /\ history \in [Urls -> Seq(Past)]
  /\ job \in [at : Places, url : DOMAIN ext.urls, asked : Nat \cup {-1}, data : Data, failed : Nat]
  /\ job.asked <= now
  /\ DOMAIN cache \subseteq Urls
  /\ \A u \in DOMAIN cache : cache[u] \in [data : Contents, mtime : Nat, late : Nat] /\ cache[u].late <= cache[u].mtime /\ cache[u].mtime <= now
  /\ requests \subseteq [url : Urls, at : Nat, run : Nat]

(* What is applied has the checksum that was declared, whether it was       *)
(* downloaded now or is an older download (sourcestate.go:1846).           *)
Verified ==
  (job.at = "done" /\ ext.checksum # Down) => job.data = ext.checksum

(* With --refresh-externals=auto, data that the URL replaced longer ago     *)
(* than the refresh period is not used, but from a file of the cache whose  *)
(* writer was killed before Chtimes: there the period begins as late as the *)
(* file was written after the request.                                     *)
NotStale ==
  (job.at = "got" /\ refresh = "auto" /\ ext.period > 0 /\ Url \notin ext.local) =>
    \/ served[Url] = job.data
    \/ \E i \in DOMAIN history[Url] :
         /\ history[Url][i].data = job.data
         /\ history[Url][i].till > job.asked - ext.period - cache[Url].late

(* A URL that fails takes nothing away: what was downloaded once can still  *)
(* be used with --refresh-externals=never.                                 *)
KeepsDownloads == DOMAIN cache \subseteq DOMAIN cache'

(* A read fails for want of data only after every URL was tried and failed, *)
(* be it a file or a server.                                               *)
EveryUrlTried ==
  job.at = "failed" => job.failed = Len(ext.urls)

(* A read of data that stays available never asks more than once a period.  *)
AsksAfterPeriod ==
  \A r \in requests' \ requests, q \in requests :
    (refresh = "auto" /\ r.url = q.url) => ext.period > 0 /\ r.at >= q.at + ext.period
(* The walk of an archive finds each of its entries once, and the           *)
(* directories above its files, without what is filtered or ignored and     *)
(* what is below it, in whatever order the headers come.  (The walk of rar *)
(* archives makes up no directories and takes the order as it is.)         *)
Wanted ==
  LET hs == ToSet(Headers[job.data])
      listed == hs \cup UNION { ToSet(Implicit(h)) : h \in hs }
      shut(name) == \E d \in listed : d.kind = "dir" /\ Result(d) = "skip" /\ IsStrictPrefix(d.name, name)
  IN { Found(h) : h \in { h \in listed : Result(h) = "entry" /\ ~shut(h.name) } }
FindsWanted ==
  (job.at = "done" /\ ext.type = "archive") =>
    /\ ext.format # "rar" => ToSet(results) = Wanted
    /\ ext.format # "zip" => Cardinality(ToSet(results)) = Len(results)

(* The directories above a file of the archive come with it and before it,  *)
(* unless an include pattern leaves them out: it can be written.           *)
DirectoriesFirst ==
  (ext.type = "archive" /\ ext.format # "rar" /\ \A p \in ext.patterns : ~p.include) =>
    \A i \in DOMAIN results : results[i].kind = "reg" =>
      \A d \in Dirs(results[i].name) :
        \E j \in 1..i - 1 : results[j] = [name |-> d, kind |-> "dir"]

(* The file that archive-file asks for is found if the archive has it.      *)
FindsFile ==
  ext.type = "archive-file" =>
    /\ job.at = "done" => results[1].name = ext.path
    /\ job.at = "missing" => \A h \in ToSet(Headers[job.data]) : Search(h) # "found"

(* What is used is what was asked for, not older than was agreed, and given *)
(* up only when there is no other way.                                     *)
DataTrusted == Verified /\ NotStale /\ EveryUrlTried

(* What is downloaded stays for later runs and is not downloaded again      *)
(* within the period.                                                      *)
DownloadsKept == [][KeepsDownloads /\ AsksAfterPeriod]_extVars

=============================================================================
