---------------------------- MODULE GitHubCache ----------------------------
(***************************************************************************)
(* The gitHub* template functions (internal/cmd/githubtemplatefuncs.go).   *)
(* An answer comes from the memory of the run, or from the persistent      *)
(* state while it is younger than the refresh period, or from the GitHub   *)
(* API; only the API's answer is stored, in both places.  A release, a tag *)
(* or a key that GitHub serves is abstracted to its version: what is       *)
(* published replaces what was.                                            *)
(*                                                                         *)
(* The templates of .chezmoiexternals are executed by goroutines that hold *)
(* no lock, and commands like diff and archive store what they are         *)
(* answered in a state of their own that ends with them.                   *)
(***************************************************************************)
EXTENDS Integers, FiniteSets, Sequences

CONSTANTS
  Functions,      \* the template functions that are called
  Repos,          \* the repositories of one owner, or users for keys
  Goroutines,     \* those that execute templates at the same time
  Periods,        \* values of github.refreshPeriod, 0 among them
  MaxTime,        \* bound on the clock
  MaxVersion,     \* bound on what is published
  MaxRuns,        \* bound on the runs of chezmoi
  MaxRequests     \* bound on the requests that are recorded or under way

GitHubAssumption ==
  /\ Periods \subseteq Nat
  /\ MaxTime \in Nat /\ MaxVersion \in Nat

VARIABLES
  period,         \* c.GitHub.RefreshPeriod
  now,            \* the clock
  published,      \* [version of every resource, when each version was replaced]
  stored,         \* the buckets of the persistent state
  mode,           \* how the run uses it: see Modes
  recorded,       \* the buckets that the run reads and writes
  memory,         \* keysCache, latestReleaseCache, releasesCache, tagsCache, ...
  client,         \* "none", "made" or "failed"
  asking,         \* [goroutine -> the request that it makes, or None]
  run,            \* the number of this run
  began,          \* when it began
  requests,       \* the requests that were recorded, in that order
  answer          \* what the last step answered, or None, for the properties

gitHubVars ==
  <<period, now, published, stored, mode, recorded, memory, client, asking, run, began, requests, answer>>
runVars == <<period, stored, mode, recorded, run, began, requests>>

(* after is how many requests were recorded when this one was made, and     *)
(* makes that it found no cache of its kind in the memory of the run       *)
None == [key |-> <<>>, at |-> -1, after |-> 0, version |-> -1, place |-> "none", makes |-> FALSE]

(* "keeps" is the persistent state itself, "copy" a mock that starts as a   *)
(* copy of it (diff, status, dump, --dry-run) and "empty" one that does not *)
(* (archive)                                                               *)
Modes == {"keeps", "copy", "empty"}

(* The functions, and the bucket and the cache that each of them uses: the  *)
(* asset URLs are picked from a release, the latest tag from the tags.      *)
(* Releases of a given version, whose cache is made before it is looked at, *)
(* are left out.                                                           *)
Bucket(fn) ==
  CASE fn = "latestReleaseAssetURL" -> "latestRelease"
    [] fn = "latestTag"             -> "tags"
    [] OTHER                        -> fn

Key(fn, repo) == <<Bucket(fn), repo>>
Keys == { Key(fn, repo) : fn \in Functions, repo \in Repos }

Answer(key, version, at) == [key |-> key, version |-> version, at |-> at]

Init ==
  /\ period \in Periods
  /\ now = 0
  /\ published = [version |-> 0, replaced |-> <<>>]
  /\ stored = <<>> /\ recorded = <<>> /\ mode \in Modes
  /\ memory = <<>>
  /\ client = "none"
  /\ asking = [g \in Goroutines |-> None]
  /\ run = 1 /\ began = 0
  /\ requests = <<>>
  /\ answer = None

Insert(f, key, value) == [k \in DOMAIN f \cup {key} |-> IF k = key THEN value ELSE f[k]]

(* The cache of one function of one kind is a map of its own               *)
OfKind(key) == { k \in DOMAIN memory : k[1] = key[1] }

FromMemory(g, key) ==
  /\ asking[g] = None
  /\ key \in DOMAIN memory
  /\ answer' = Answer(key, memory[key], now)
  /\ UNCHANGED <<runVars, now, published, memory, client, asking>>

Young(key) == key \in DOMAIN recorded /\ now < recorded[key].at + period

(* With a period of zero the state is not read.  What it holds does not go  *)
(* to the memory of the run.                                               *)
FromState(g, key) ==
  /\ asking[g] = None
  /\ key \notin DOMAIN memory
  /\ period # 0 /\ Young(key)
  /\ answer' = Answer(key, recorded[key].version, now)
  /\ UNCHANGED <<runVars, now, published, memory, client, asking>>

Bounded == Len(requests) + Cardinality({ g \in Goroutines : asking[g] # None }) < MaxRequests

(* What is neither remembered nor young enough is asked for: getGitHubClient *)
(* makes the client once, and keeps the error if it fails                  *)
Lacks(g, key) ==
  /\ asking[g] = None
  /\ key \notin DOMAIN memory
  /\ period = 0 \/ ~Young(key)

ClientFails(g, key) ==
  /\ Lacks(g, key)
  /\ client = "none"
  /\ client' = "failed"
  /\ answer' = None
  /\ UNCHANGED <<runVars, now, published, memory, asking>>

Request(g, key) ==
  /\ Lacks(g, key) /\ Bounded
  /\ client \in {"none", "made"}
  /\ client' = "made"
  /\ asking' = [asking EXCEPT ![g] =
                 [key |-> key, at |-> now, after |-> Len(requests), version |-> -1, place |-> "asked", makes |-> FALSE]]
  /\ answer' = None
  /\ UNCHANGED <<runVars, now, published, memory>>

(* GitHub answers the request with what is published at that moment        *)
Serve(g) ==
  /\ asking[g].place = "asked"
  /\ asking' = [asking EXCEPT ![g].place = "answered", ![g].version = published.version]
  /\ answer' = None
  /\ UNCHANGED <<runVars, now, published, memory, client>>

RequestFails(g) ==
  /\ asking[g].place \in {"asked", "answered"}
  /\ asking' = [asking EXCEPT ![g] = None]
  /\ answer' = None
  /\ UNCHANGED <<runVars, now, published, memory, client>>

(* A slip: the answer is dated with the time it came.                       *)
RecordLate(g) ==
  /\ asking[g].place = "answered"
  /\ LET r == asking[g]
     IN /\ recorded' = Insert(recorded, r.key, [at |-> now, version |-> r.version])
        /\ stored' = IF mode = "keeps" THEN recorded' ELSE stored
        /\ requests' = Append(requests, [key |-> r.key, at |-> r.at, after |-> r.after, run |-> run, mode |-> mode, by |-> g])
        /\ asking' = [asking EXCEPT ![g].place = "recorded", ![g].makes = OfKind(r.key) = {}]
  /\ answer' = None
  /\ UNCHANGED <<period, now, published, mode, memory, client, run, began>>

(* The answer is dated with the time before the request.  Then the cache of *)
(* its kind is made if there is none                                       *)
Record(g) ==
  /\ asking[g].place = "answered"
  /\ LET r == asking[g]
     IN /\ recorded' = Insert(recorded, r.key, [at |-> r.at, version |-> r.version])
        /\ stored' = IF mode = "keeps" THEN recorded' ELSE stored
        /\ requests' = Append(requests, [key |-> r.key, at |-> r.at, after |-> r.after, run |-> run, mode |-> mode, by |-> g])
        /\ asking' = [asking EXCEPT ![g].place = "recorded", ![g].makes = OfKind(r.key) = {}]
  /\ answer' = None
  /\ UNCHANGED <<period, now, published, mode, memory, client, run, began>>

(* The goroutine that makes the cache loses what others have put in the one *)
(* that they made meanwhile, if its own takes the place of theirs          *)
Remember(g) ==
  /\ asking[g].place = "recorded"
  /\ LET r == asking[g]
     IN /\ \E lost \in {{}} \cup { OfKind(r.key) : makes \in {r.makes} \cap {TRUE} } :
             memory' = Insert([k \in DOMAIN memory \ lost |-> memory[k]], r.key, r.version)
        /\ answer' = Answer(r.key, r.version, now)
  /\ asking' = [asking EXCEPT ![g] = None]
  /\ UNCHANGED <<runVars, now, published, client>>

(* The program ends, is killed or panics, and a later run begins           *)
Restart ==
  /\ run < MaxRuns
  /\ run' = run + 1 /\ began' = now
  /\ mode' \in Modes
  /\ recorded' = IF mode' = "empty" THEN <<>> ELSE stored
  /\ memory' = <<>>
  /\ client' = "none"
  /\ asking' = [g \in Goroutines |-> None]
  /\ answer' = None
  /\ UNCHANGED <<period, now, published, stored, requests>>

Tick ==
  /\ now < MaxTime
  /\ now' = now + 1
  /\ answer' = None
  /\ UNCHANGED <<runVars, published, memory, client, asking>>

Publish ==
  /\ published.version < MaxVersion
  /\ published' = [version |-> published.version + 1, replaced |-> Append(published.replaced, now)]
  /\ answer' = None
  /\ UNCHANGED <<runVars, now, memory, client, asking>>

Next ==
  \/ \E g \in Goroutines, fn \in Functions, repo \in Repos :
       \/ FromMemory(g, Key(fn, repo)) \/ FromState(g, Key(fn, repo))
       \/ Request(g, Key(fn, repo)) \/ ClientFails(g, Key(fn, repo))
  \/ \E g \in Goroutines : Serve(g) \/ RequestFails(g) \/ Record(g) \/ Remember(g)
  \/ Restart \/ Tick \/ Publish

Spec == Init /\ [][Next]_gitHubVars

-----------------------------------------------------------------------------
(* Properties *)

TypeOK ==
  /\ period \in Periods
  /\ now \in 0..MaxTime
  /\ DOMAIN stored \subseteq Keys /\ DOMAIN recorded \subseteq Keys /\ DOMAIN memory \subseteq Keys
  /\ mode \in Modes
  /\ client \in {"none", "made", "failed"}
  /\ \A g \in Goroutines : asking[g].at <= now
  /\ began <= now

(* An answer was still the published one less than a period ago, or at some *)
(* time since this run began: what GitHub replaced earlier is not served.   *)
Fresh ==
  (answer # None /\ answer.version < published.version) =>
    LET replaced == published.replaced[answer.version + 1]
    IN replaced >= began \/ replaced > answer.at - period

(* What the request r finds in the state that its run uses: what was asked  *)
(* by the same run before, or by one that kept it.                         *)
Finds(r, i) ==
  /\ i <= r.after /\ requests[i].key = r.key
  /\ \/ requests[i].run = r.run
     \/ requests[i].mode = "keeps" /\ r.mode # "empty"

(* The k-th request was made before the i-th was recorded, and recorded     *)
(* after it: two goroutines of one run.                                    *)
Overtook(i, k) == i < k /\ requests[k].after < i /\ requests[k].key = requests[i].key

(* A resource is not requested again within the period, counted from the    *)
(* answer that was recorded last: that is older where goroutines overtook.  *)
OncePerPeriod ==
  \A j \in DOMAIN requests : \A i \in 1..requests[j].after :
    Finds(requests[j], i) =>
      \E k \in DOMAIN requests :
        (k = i \/ Overtook(i, k)) /\ requests[k].at + period <= requests[j].at

(* Nor is it by the run that has its answer, whatever the period, unless    *)
(* another goroutine asked for one of that kind too.                       *)
OncePerRun ==
  \A j \in DOMAIN requests : \A i \in 1..requests[j].after :
    (Finds(requests[j], i) /\ requests[i].run = requests[j].run) =>
      \E k \in DOMAIN requests :
        /\ requests[k].run = requests[j].run /\ requests[k].by # requests[j].by
        /\ requests[k].key[1] = requests[j].key[1]

(* No answer is too old, and no request is made too early.                  *)
AnswersFresh == Fresh /\ OncePerPeriod /\ OncePerRun
=============================================================================
