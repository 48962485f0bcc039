---------------------------- MODULE ReadingProofs ----------------------------
(***************************************************************************)
(* What is proved of the parts that work while the source state is read:   *)
(* of the answers of GitHub, for any functions, repositories, goroutines,  *)
(* periods and times; of the externals, for any externals with any         *)
(* URLs and archives, and any times, runs and changes of what is served;   *)
(* and of the password managers, for which SecretsProofs has the argument. *)
(***************************************************************************)
EXTENDS Reading, FiniteSetTheorems, SequenceTheorems, WellFoundedInduction, TLAPS

(***************************************************************************)
(* The answers of GitHub. Versions and times are kept apart from the       *)
(* history of the requests: first that what is recorded covers every       *)
(* request that its run can find (Kept), then that what is not remembered  *)
(* any more was lost to another goroutine (InMemory).                      *)
(***************************************************************************)

\* The version v was the published one at the time t or later.
Current(p, v, t) == v \in 0 .. p.version /\ (v < p.version => p.replaced[v + 1] >= t)

Stages == {"none", "asked", "answered", "recorded"}
Asked  == [key : GitHub!Keys \cup {<<>>}, at : Int, after : Nat, version : Int, place : Stages, makes : BOOLEAN]
Made   == [key : GitHub!Keys, at : Nat, after : Nat, run : Nat, mode : GitHub!Modes, by : Goroutines]

GitHubTyped ==
  /\ period \in Periods /\ period \in Nat /\ now \in 0..MaxTicks /\ now \in Nat /\ run \in Nat
  /\ began \in Nat /\ began <= now /\ mode \in GitHub!Modes /\ client \in {"none", "made", "failed"}
  /\ published.version \in Nat /\ published.replaced \in Seq(Nat)
  /\ published = [version |-> published.version, replaced |-> published.replaced]
  /\ Len(published.replaced) = published.version
  /\ DOMAIN stored \subseteq GitHub!Keys /\ DOMAIN recorded \subseteq GitHub!Keys /\ DOMAIN memory \subseteq GitHub!Keys
  /\ asking \in [Goroutines -> Asked]
  /\ requests \in Seq(Made)

\* What is recorded, or remembered, is a version GitHub has published.
Dated(buckets) ==
  \A key \in DOMAIN buckets :
    /\ buckets[key].at \in Nat /\ buckets[key].at <= now
    /\ Current(published, buckets[key].version, buckets[key].at)

Recorded == Dated(recorded) /\ Dated(stored) /\ (mode = "keeps" => stored = recorded)

Remembered == \A key \in DOMAIN memory : Current(published, memory[key], began)

\* The answer to a request was current since it was made.
GitHubAsking ==
  \A g \in Goroutines :
    /\ asking[g].place = "none" => asking[g].at = -1
    /\ asking[g].place # "none" =>
         /\ asking[g].key \in GitHub!Keys /\ asking[g].at \in Nat
         /\ began <= asking[g].at /\ asking[g].at <= now
    /\ asking[g].place \in {"answered", "recorded"} =>
         Current(published, asking[g].version, asking[g].at)

GitHubAnswered ==
  answer # GitHub!None =>
    \/ Current(published, answer.version, began)
    \/ Current(published, answer.version, answer.at - period + 1) /\ answer.at \in Nat

AnswersDated == GitHubTyped /\ Recorded /\ Remembered /\ GitHubAsking /\ GitHubAnswered

\* The requests are listed in the order in which they were recorded.
InOrder ==
  /\ \A i \in DOMAIN requests :
       /\ requests[i].after < i /\ requests[i].at <= now /\ requests[i].run <= run
       /\ requests[i].run = run => requests[i].mode = mode
  /\ \A g \in Goroutines : asking[g].place # "none" =>
       /\ asking[g].after <= Len(requests)
       /\ \A i \in 1..asking[g].after : requests[i].at <= asking[g].at

\* What this run finds in the state: its own, and what was kept.
Visible(i) == requests[i].run = run \/ (requests[i].mode = "keeps" /\ mode # "empty")

\* The time on record is not before that of a request, nor of all that overtook it.
Since(i, t) ==
  \E k \in DOMAIN requests : (k = i \/ GitHub!Overtook(i, k)) /\ requests[k].at <= t
Covered(buckets, i) ==
  requests[i].key \in DOMAIN buckets /\ Since(i, buckets[requests[i].key].at)

Kept ==
  \A i \in DOMAIN requests :
    /\ requests[i].mode = "keeps" => Covered(stored, i)
    /\ Visible(i) => Covered(recorded, i)

\* What is being asked for was not found, or too old.
AskedInTime ==
  \A g \in Goroutines : asking[g].place \in {"asked", "answered"} =>
    \A i \in 1..asking[g].after :
      requests[i].key = asking[g].key /\ Visible(i) => Since(i, asking[g].at - period)

RequestsSpared == InOrder /\ Kept /\ AskedInTime /\ GitHub!OncePerPeriod

\* Two goroutines of this run have asked for something of the kind.
Raced(kind) ==
  \E k, l \in DOMAIN requests :
    /\ requests[k].run = run /\ requests[l].run = run /\ requests[k].by # requests[l].by
    /\ requests[k].key[1] = kind /\ requests[l].key[1] = kind

InMemory ==
  \A i \in DOMAIN requests : requests[i].run = run =>
    \/ requests[i].key \in DOMAIN memory
    \/ asking[requests[i].by].place = "recorded" /\ asking[requests[i].by].key = requests[i].key
    \/ Raced(requests[i].key[1])

\* A goroutine that makes the cache of a kind has had no answer of that kind.
Making ==
  \A g \in Goroutines : asking[g].place = "recorded" =>
    /\ \E k \in DOMAIN requests :
         requests[k].run = run /\ requests[k].by = g /\ requests[k].key = asking[g].key
    /\ asking[g].makes => \A i \in DOMAIN requests :
         requests[i].run = run /\ requests[i].by = g /\ requests[i].key[1] = asking[g].key[1] =>
           requests[i].key = asking[g].key \/ Raced(asking[g].key[1])

Rival(g, kind) ==
  \E k \in DOMAIN requests : requests[k].run = run /\ requests[k].by # g /\ requests[k].key[1] = kind

AskedAgain ==
  \A g \in Goroutines : asking[g].place \in {"asked", "answered"} =>
    \A i \in 1..asking[g].after :
      requests[i].key = asking[g].key /\ requests[i].run = run => Rival(g, asking[g].key[1])

RunsRemember == InMemory /\ Making /\ AskedAgain /\ GitHub!OncePerRun

GitHubIInv == AnswersDated /\ RequestsSpared /\ RunsRemember

LEMMA GitHubInit == ASSUME GitHub!GitHubAssumption, GitHub!Init PROVE GitHubIInv
  <1>0. /\ DOMAIN <<>> = {} /\ requests = <<>> /\ Len(requests) = 0 /\ DOMAIN requests = {}
        /\ \A g \in Goroutines : asking[g] = GitHub!None
        /\ GitHub!None = [key |-> <<>>, at |-> -1, after |-> 0, version |-> -1, place |-> "none", makes |-> FALSE]
    BY DEF GitHub!Init, GitHub!None
  <1>1. GitHubTyped
    <2>1. GitHub!None \in Asked
      BY <1>0 DEF Asked, Stages
    <2>2. asking \in [Goroutines -> Asked] /\ requests \in Seq(Made)
      BY <2>1 DEF GitHub!Init
    <2>3. period \in Nat /\ now = 0 /\ mode \in GitHub!Modes /\ 0 \in 0..MaxTicks
      BY DEF GitHub!GitHubAssumption, GitHub!Init
    <2>4. /\ published.version = 0 /\ published.replaced = <<>> /\ <<>> \in Seq(Nat)
          /\ published = [version |-> published.version, replaced |-> published.replaced]
      BY DEF GitHub!Init
    <2>5. DOMAIN stored = {} /\ DOMAIN recorded = {} /\ DOMAIN memory = {}
      BY <1>0 DEF GitHub!Init
    <2> QED
      BY <1>0, <2>2, <2>3, <2>4, <2>5 DEF GitHubTyped, GitHub!Init
  <1>2. Recorded /\ Remembered /\ GitHubAsking /\ GitHubAnswered
    BY <1>0 DEF GitHub!Init, Recorded, Dated, Remembered, GitHubAsking, GitHubAnswered
  <1>3. RequestsSpared
    BY <1>0 DEF RequestsSpared, InOrder, Kept, AskedInTime, GitHub!OncePerPeriod
  <1>4. RunsRemember
    BY <1>0 DEF RunsRemember, InMemory, Making, AskedAgain, GitHub!OncePerRun
  <1> QED
    BY <1>1, <1>2, <1>3, <1>4 DEF GitHubIInv, AnswersDated

LEMMA Listed ==
  ASSUME GitHubTyped
  PROVE  /\ Len(requests) \in Nat /\ DOMAIN requests = 1 .. Len(requests)
         /\ \A i \in DOMAIN requests :
              /\ requests[i].key \in GitHub!Keys /\ requests[i].at \in Nat /\ requests[i].after \in Nat
              /\ requests[i].run \in Nat /\ requests[i].mode \in GitHub!Modes /\ requests[i].by \in Goroutines
  <1>1. requests \in Seq(Made)
    BY DEF GitHubTyped
  <1>2. /\ Len(requests) \in Nat /\ DOMAIN requests = 1 .. Len(requests)
        /\ \A i \in 1 .. Len(requests) : requests[i] \in Made
    BY <1>1, ElementOfSeq, LenProperties
  <1> QED
    BY <1>2 DEF Made

\* Steps that leave the requests alone.
LEMMA Undisturbed ==
  ASSUME GitHubIInv, UNCHANGED <<period, stored, mode, recorded, run, requests, memory, asking>>,
         now' \in Nat, now <= now'
  PROVE  RequestsSpared' /\ RunsRemember'
  <1>1. InOrder'
    <2>1. \A i \in DOMAIN requests : requests[i].at \in Nat
      BY Listed DEF GitHubIInv, AnswersDated
    <2> QED
      BY <2>1 DEF GitHubIInv, AnswersDated, GitHubTyped, RequestsSpared, InOrder
  <1>2. Kept' /\ AskedInTime' /\ GitHub!OncePerPeriod'
    BY DEF GitHubIInv, RequestsSpared, Kept, AskedInTime, GitHub!OncePerPeriod, Covered, Since, Visible,
       GitHub!Overtook, GitHub!Finds
  <1>3. RunsRemember'
    BY DEF GitHubIInv, RunsRemember, InMemory, Making, AskedAgain, GitHub!OncePerRun, Raced, Rival, GitHub!Finds
  <1> QED
    BY <1>1, <1>2, <1>3 DEF RequestsSpared

\* A goroutine that waits for an answer goes on waiting, or stops.
LEMMA Waiting ==
  ASSUME GitHubIInv, NEW g \in Goroutines, NEW new \in Asked,
         UNCHANGED <<period, stored, mode, recorded, run, requests, memory, now>>,
         asking' = [asking EXCEPT ![g] = new], asking[g].place # "recorded",
         \/ new.place = "none"
         \/ /\ new.place = "answered" /\ asking[g].place = "asked"
            /\ new.key = asking[g].key /\ new.at = asking[g].at /\ new.after = asking[g].after
  PROVE  RequestsSpared' /\ RunsRemember'
  <1>0. asking \in [Goroutines -> Asked] /\ requests \in Seq(Made)
    BY DEF GitHubIInv, AnswersDated, GitHubTyped
  <1>a. asking'[g] = new /\ \A h \in Goroutines : h # g => asking'[h] = asking[h]
    BY <1>0
  <1>b. new.place # "recorded"
    OBVIOUS
  <1>1. InOrder'
    BY <1>a DEF GitHubIInv, RequestsSpared, InOrder
  <1>2. AskedInTime'
    BY <1>a DEF GitHubIInv, RequestsSpared, AskedInTime, Since, Visible, GitHub!Overtook
  <1>3. Kept' /\ GitHub!OncePerPeriod'
    BY DEF GitHubIInv, RequestsSpared, Kept, GitHub!OncePerPeriod, Covered, Since, Visible,
       GitHub!Overtook, GitHub!Finds
  <1>4. InMemory'
    <2>1. \A i \in DOMAIN requests : requests[i].by \in Goroutines
      BY Listed DEF GitHubIInv, AnswersDated
    <2> SUFFICES ASSUME NEW i \in DOMAIN requests, requests[i].run = run
                 PROVE  \/ requests[i].key \in DOMAIN memory
                        \/ asking'[requests[i].by].place = "recorded" /\ asking'[requests[i].by].key = requests[i].key
                        \/ Raced(requests[i].key[1])
      BY DEF InMemory, Raced
    <2>2. \/ requests[i].key \in DOMAIN memory
          \/ asking[requests[i].by].place = "recorded" /\ asking[requests[i].by].key = requests[i].key
          \/ Raced(requests[i].key[1])
      BY DEF GitHubIInv, RunsRemember, InMemory
    <2>3. CASE asking[requests[i].by].place = "recorded" /\ asking[requests[i].by].key = requests[i].key
      BY <1>a, <2>1, <2>3
    <2> QED
      BY <2>2, <2>3
  <1>5. Making'
    BY <1>a, <1>b DEF GitHubIInv, RunsRemember, Making, Raced
  <1>6. AskedAgain'
    BY <1>a DEF GitHubIInv, RunsRemember, AskedAgain, Rival
  <1>7. GitHub!OncePerRun'
    BY DEF GitHubIInv, RunsRemember, GitHub!OncePerRun, GitHub!Finds
  <1> QED
    BY <1>1, <1>2, <1>3, <1>4, <1>5, <1>6, <1>7 DEF RequestsSpared, RunsRemember


\* What is published next replaces the current version now.
LEMMA CurrentStays ==
  ASSUME NEW p, NEW t0 \in Nat, p.version \in Nat, p.replaced \in Seq(Nat), Len(p.replaced) = p.version,
         NEW q, q = [version |-> p.version + 1, replaced |-> Append(p.replaced, t0)]
  PROVE  \A v, t \in Int : Current(p, v, t) /\ t <= t0 => Current(q, v, t)
  <1> SUFFICES ASSUME NEW v \in Int, NEW t \in Int, Current(p, v, t), t <= t0
               PROVE  Current(q, v, t)
    OBVIOUS
  <1>1. v \in 0 .. p.version /\ v \in 0 .. q.version /\ q.version = p.version + 1
    BY DEF Current
  <1>2. CASE v < p.version
    <2>1. v + 1 \in 1 .. Len(p.replaced) /\ p.replaced[v + 1] >= t
      BY <1>1, <1>2 DEF Current
    <2>2. q.replaced[v + 1] = p.replaced[v + 1]
      BY <2>1
    <2> QED
      BY <1>1, <2>1, <2>2 DEF Current
  <1>3. CASE v = p.version
    <2>1. q.replaced[v + 1] = t0
      BY <1>3
    <2> QED
      BY <1>1, <2>1 DEF Current
  <1> QED
    BY <1>1, <1>2, <1>3

LEMMA PublishStep == ASSUME GitHubIInv, GitHub!Publish PROVE GitHubIInv'
  <1>1. /\ published' = [version |-> published.version + 1, replaced |-> Append(published.replaced, now)]
        /\ UNCHANGED <<period, now, stored, mode, recorded, memory, client, asking, run, began, requests>>
        /\ answer' = GitHub!None
    BY DEF GitHub!Publish, GitHub!runVars
  <1>2. /\ published.version \in Nat /\ published.replaced \in Seq(Nat) /\ now \in Nat
        /\ Len(published.replaced) = published.version /\ began \in Nat /\ began <= now
    BY DEF GitHubIInv, AnswersDated, GitHubTyped
  <1>3. GitHubTyped'
    <2>1. /\ published'.replaced \in Seq(Nat) /\ Len(published'.replaced) = published'.version
          /\ published'.version \in Nat
          /\ published' = [version |-> published'.version, replaced |-> published'.replaced]
      BY <1>1, <1>2
    <2> QED
      BY <1>1, <2>1 DEF GitHubIInv, AnswersDated, GitHubTyped
  <1>4. \A v, t \in Int : Current(published, v, t) /\ t <= now => Current(published', v, t)
    BY <1>1, <1>2, CurrentStays
  <1>5. \A v, t : Current(published, v, t) => v \in Int
    BY <1>2 DEF Current
  <1>6. Recorded'
    <2>1. \A b : Dated(b) => \A key \in DOMAIN b :
            b[key].at \in Nat /\ b[key].at <= now /\ Current(published', b[key].version, b[key].at)
      BY <1>4, <1>5 DEF Dated
    <2> QED
      BY <1>1, <2>1 DEF GitHubIInv, AnswersDated, Recorded, Dated
  <1>7. Remembered'
    <2>1. \A key \in DOMAIN memory : memory[key] \in Int /\ Current(published, memory[key], began)
      BY <1>5 DEF GitHubIInv, AnswersDated, Remembered
    <2>2. \A key \in DOMAIN memory : Current(published', memory[key], began)
      BY <1>2, <1>4, <2>1
    <2> QED
      BY <1>1, <2>2 DEF Remembered
  <1>8. GitHubAsking'
    <2>1. \A g \in Goroutines : asking[g].place # "none" => asking[g].at \in Int /\ asking[g].at <= now
      BY <1>2 DEF GitHubIInv, AnswersDated, GitHubAsking
    <2>2. \A g \in Goroutines : asking[g].place \in {"answered", "recorded"} =>
            Current(published', asking[g].version, asking[g].at)
      BY <1>4, <1>5, <2>1 DEF GitHubIInv, AnswersDated, GitHubAsking
    <2> QED
      BY <1>1, <2>2 DEF GitHubIInv, AnswersDated, GitHubAsking
  <1>9. GitHubAnswered'
    BY <1>1 DEF GitHubAnswered, GitHub!None
  <1>10. RequestsSpared' /\ RunsRemember'
    BY <1>1, <1>2, Undisturbed
  <1> QED
    BY <1>3, <1>6, <1>7, <1>8, <1>9, <1>10 DEF GitHubIInv, AnswersDated

LEMMA TickStep == ASSUME GitHubIInv, GitHub!Tick PROVE GitHubIInv'
  <1>1. /\ now < MaxTicks /\ now' = now + 1 /\ answer' = GitHub!None
        /\ UNCHANGED <<period, published, stored, mode, recorded, memory, client, asking, run, began, requests>>
    BY DEF GitHub!Tick, GitHub!runVars
  <1>2. now \in Nat /\ now \in 0 .. MaxTicks /\ now' \in Nat /\ now <= now' /\ began \in Nat /\ began <= now
    BY <1>1 DEF GitHubIInv, AnswersDated, GitHubTyped
  <1>3. GitHubTyped'
    <2>1. now' \in 0 .. MaxTicks /\ began <= now'
      BY <1>1, <1>2, ReadingAssumption DEF GitHub!GitHubAssumption
    <2> QED
      BY <1>1, <1>2, <2>1 DEF GitHubIInv, AnswersDated, GitHubTyped
  <1>4. Recorded' /\ Remembered'
    BY <1>1, <1>2 DEF GitHubIInv, AnswersDated, Recorded, Dated, Remembered
  <1>5. GitHubAsking'
    BY <1>1, <1>2 DEF GitHubIInv, AnswersDated, GitHubAsking
  <1>6. GitHubAnswered'
    BY <1>1 DEF GitHubAnswered, GitHub!None
  <1>7. RequestsSpared' /\ RunsRemember'
    BY <1>1, <1>2, Undisturbed
  <1> QED
    BY <1>3, <1>4, <1>5, <1>6, <1>7 DEF GitHubIInv, AnswersDated

\* The client, and steps that change nothing.
LEMMA IdleStep ==
  ASSUME GitHubIInv,
         UNCHANGED <<period, now, published, stored, mode, recorded, memory, asking, run, began, requests>>,
         client' \in {"none", "made", "failed"}, answer' \in {answer, GitHub!None}
  PROVE  GitHubIInv'
  <1>1. now \in Nat /\ now' = now /\ now <= now'
    BY DEF GitHubIInv, AnswersDated, GitHubTyped
  <1>2. GitHubTyped' /\ Recorded' /\ Remembered' /\ GitHubAsking'
    BY DEF GitHubIInv, AnswersDated, GitHubTyped, Recorded, Dated, Remembered, GitHubAsking
  <1>3. GitHubAnswered'
    BY DEF GitHubIInv, AnswersDated, GitHubAnswered, GitHub!None
  <1>4. RequestsSpared' /\ RunsRemember'
    BY <1>1, Undisturbed
  <1> QED
    BY <1>2, <1>3, <1>4 DEF GitHubIInv, AnswersDated

LEMMA AnswerStep ==
  ASSUME GitHubIInv, NEW g \in Goroutines, NEW key,
         GitHub!FromMemory(g, key) \/ GitHub!FromState(g, key)
  PROVE  GitHubIInv'
  <1>1. UNCHANGED <<period, now, published, stored, mode, recorded, memory, client, asking, run, began, requests>>
    BY DEF GitHub!FromMemory, GitHub!FromState, GitHub!runVars
  <1>2. now \in Nat /\ now' = now /\ now <= now' /\ period \in Nat /\ published.version \in Nat
        /\ published.replaced \in Seq(Nat) /\ Len(published.replaced) = published.version
    BY <1>1 DEF GitHubIInv, AnswersDated, GitHubTyped
  <1>3. GitHubTyped' /\ Recorded' /\ Remembered' /\ GitHubAsking'
    BY <1>1 DEF GitHubIInv, AnswersDated, GitHubTyped, Recorded, Dated, Remembered, GitHubAsking
  <1>4. GitHubAnswered'
    <2>1. CASE GitHub!FromMemory(g, key)
      <3>1. key \in DOMAIN memory /\ answer' = [key |-> key, version |-> memory[key], at |-> now]
        BY <2>1 DEF GitHub!FromMemory, GitHub!Answer
      <3>2. Current(published, memory[key], began)
        BY <3>1 DEF GitHubIInv, AnswersDated, Remembered
      <3> QED
        BY <1>1, <3>1, <3>2 DEF GitHubAnswered
    <2>2. CASE GitHub!FromState(g, key)
      <3>1. /\ key \in DOMAIN recorded /\ now < recorded[key].at + period
            /\ answer' = [key |-> key, version |-> recorded[key].version, at |-> now]
        BY <2>2 DEF GitHub!FromState, GitHub!Young, GitHub!Answer
      <3>2. recorded[key].at \in Nat /\ Current(published, recorded[key].version, recorded[key].at)
        BY <3>1 DEF GitHubIInv, AnswersDated, Recorded, Dated
      <3>3. Current(published, recorded[key].version, now - period + 1)
        <4>1. recorded[key].version \in 0 .. published.version
          BY <3>2 DEF Current
        <4>2. CASE recorded[key].version < published.version
          <5>1. recorded[key].version + 1 \in 1 .. Len(published.replaced)
            BY <1>2, <4>1, <4>2
          <5>2. published.replaced[recorded[key].version + 1] \in Nat
            BY <1>2, <5>1
          <5>3. published.replaced[recorded[key].version + 1] >= recorded[key].at
            BY <3>2, <4>2 DEF Current
          <5>4. recorded[key].at >= now - period + 1
            BY <1>2, <3>1, <3>2
          <5>5. published.replaced[recorded[key].version + 1] >= now - period + 1
            BY <1>2, <3>2, <5>2, <5>3, <5>4
          <5> QED
            BY <4>1, <5>5 DEF Current
        <4> QED
          BY <4>1, <4>2 DEF Current
      <3> QED
        BY <1>1, <1>2, <3>1, <3>3 DEF GitHubAnswered
    <2> QED
      BY <2>1, <2>2
  <1>5. RequestsSpared' /\ RunsRemember'
    BY <1>1, <1>2, Undisturbed
  <1> QED
    BY <1>3, <1>4, <1>5 DEF GitHubIInv, AnswersDated

\* A goroutine asks for what its run has neither in memory nor young enough.
LEMMA RequestStep ==
  ASSUME GitHubIInv, NEW g \in Goroutines, NEW key \in GitHub!Keys, GitHub!Request(g, key)
  PROVE  GitHubIInv'
  <1> DEFINE new == [key |-> key, at |-> now, after |-> Len(requests), version |-> -1, place |-> "asked", makes |-> FALSE]
  <1>1. /\ UNCHANGED <<period, now, published, stored, mode, recorded, memory, run, began, requests>>
        /\ client' = "made" /\ answer' = GitHub!None
        /\ asking[g] = GitHub!None /\ key \notin DOMAIN memory /\ (period = 0 \/ ~GitHub!Young(key))
        /\ asking' = [asking EXCEPT ![g] = new]
    BY DEF GitHub!Request, GitHub!Lacks, GitHub!runVars
  <1>2. /\ now \in Nat /\ period \in Nat /\ began \in Nat /\ began <= now
        /\ asking \in [Goroutines -> Asked] /\ GitHubTyped
    BY DEF GitHubIInv, AnswersDated, GitHubTyped
  <1>3. /\ Len(requests) \in Nat /\ DOMAIN requests = 1 .. Len(requests)
        /\ \A i \in DOMAIN requests : requests[i].at \in Nat /\ requests[i].by \in Goroutines
    BY <1>2, Listed
  <1>4. /\ asking'[g] = new /\ \A h \in Goroutines : h # g => asking'[h] = asking[h]
        /\ new = [key |-> key, at |-> now, after |-> Len(requests), version |-> -1, place |-> "asked", makes |-> FALSE]
        /\ new \in Asked /\ asking' \in [Goroutines -> Asked]
    <2>1. new \in Asked
      BY <1>2, <1>3 DEF Asked, Stages
    <2> QED
      BY <1>1, <1>2, <2>1
  <1> HIDE DEF new
  <1>5. GitHubTyped' /\ Recorded' /\ Remembered'
    BY <1>1, <1>4 DEF GitHubIInv, AnswersDated, GitHubTyped, Recorded, Dated, Remembered
  <1>6. GitHubAsking'
    <2> SUFFICES ASSUME NEW h \in Goroutines
                 PROVE  /\ asking'[h].place = "none" => asking'[h].at = -1
                        /\ asking'[h].place # "none" =>
                             /\ asking'[h].key \in GitHub!Keys /\ asking'[h].at \in Nat
                             /\ began <= asking'[h].at /\ asking'[h].at <= now
                        /\ asking'[h].place \in {"answered", "recorded"} =>
                             Current(published, asking'[h].version, asking'[h].at)
      BY <1>1 DEF GitHubAsking
    <2>1. CASE h = g
      BY <1>2, <1>4, <2>1
    <2>2. CASE h # g
      BY <1>4, <2>2 DEF GitHubIInv, AnswersDated, GitHubAsking
    <2> QED
      BY <2>1, <2>2
  <1>7. GitHubAnswered'
    BY <1>1 DEF GitHubAnswered, GitHub!None
  <1>8. InOrder'
    <2>1. \A h \in Goroutines : asking'[h].place # "none" =>
            /\ asking'[h].after <= Len(requests)
            /\ \A i \in 1..asking'[h].after : requests[i].at <= asking'[h].at
      <3> SUFFICES ASSUME NEW h \in Goroutines, asking'[h].place # "none"
                   PROVE  /\ asking'[h].after <= Len(requests)
                          /\ \A i \in 1..asking'[h].after : requests[i].at <= asking'[h].at
        OBVIOUS
      <3>1. CASE h = g
        BY <1>3, <1>4, <3>1 DEF GitHubIInv, RequestsSpared, InOrder
      <3>2. CASE h # g
        BY <1>4, <3>2 DEF GitHubIInv, RequestsSpared, InOrder
      <3> QED
        BY <3>1, <3>2
    <2> QED
      BY <1>1, <2>1 DEF GitHubIInv, RequestsSpared, InOrder
  <1>9. Kept' /\ GitHub!OncePerPeriod' /\ GitHub!OncePerRun'
    BY <1>1 DEF GitHubIInv, RequestsSpared, RunsRemember, Kept, GitHub!OncePerPeriod, GitHub!OncePerRun, Covered, Since,
       Visible, GitHub!Overtook, GitHub!Finds
  <1>10. \A i \in DOMAIN requests : requests[i].key = key /\ Visible(i) => Since(i, now - period)
    <2> SUFFICES ASSUME NEW i \in DOMAIN requests, requests[i].key = key, Visible(i)
                 PROVE  Since(i, now - period)
      OBVIOUS
    <2>1. CASE period = 0
      BY <1>2, <1>3, <2>1 DEF Since, GitHubIInv, RequestsSpared, InOrder
    <2>2. CASE period # 0
      <3>1. key \in DOMAIN recorded /\ Since(i, recorded[key].at)
        BY DEF GitHubIInv, RequestsSpared, Kept, Covered
      <3>2. recorded[key].at \in Nat /\ recorded[key].at <= now - period
        BY <1>1, <1>2, <2>2, <3>1 DEF GitHub!Young, GitHubIInv, AnswersDated, Recorded, Dated
      <3>3. PICK k \in DOMAIN requests :
              (k = i \/ GitHub!Overtook(i, k)) /\ requests[k].at <= recorded[key].at
        BY <3>1 DEF Since
      <3>4. requests[k].at <= now - period
        BY <1>2, <1>3, <3>2, <3>3
      <3> QED
        BY <3>3, <3>4 DEF Since
    <2> QED
      BY <2>1, <2>2
  <1>11. AskedInTime'
    <2> SUFFICES ASSUME NEW h \in Goroutines, asking'[h].place \in {"asked", "answered"},
                        NEW i \in 1..asking'[h].after, requests[i].key = asking'[h].key, Visible(i)
                 PROVE  Since(i, asking'[h].at - period)
      BY <1>1 DEF AskedInTime, Since, Visible, GitHub!Overtook
    <2>1. CASE h = g
      BY <1>3, <1>4, <1>10, <2>1
    <2>2. CASE h # g
      BY <1>4, <2>2 DEF GitHubIInv, RequestsSpared, AskedInTime
    <2> QED
      BY <2>1, <2>2
  <1>12. InMemory'
    <2> SUFFICES ASSUME NEW i \in DOMAIN requests, requests[i].run = run
                 PROVE  \/ requests[i].key \in DOMAIN memory
                        \/ asking'[requests[i].by].place = "recorded" /\ asking'[requests[i].by].key = requests[i].key
                        \/ Raced(requests[i].key[1])
      BY <1>1 DEF InMemory, Raced
    <2>1. \/ requests[i].key \in DOMAIN memory
          \/ asking[requests[i].by].place = "recorded" /\ asking[requests[i].by].key = requests[i].key
          \/ Raced(requests[i].key[1])
      BY DEF GitHubIInv, RunsRemember, InMemory
    <2>2. CASE asking[requests[i].by].place = "recorded" /\ asking[requests[i].by].key = requests[i].key
      BY <1>1, <1>3, <1>4, <2>2 DEF GitHub!None
    <2> QED
      BY <2>1, <2>2
  <1>13. Making'
    <2>1. \A h \in Goroutines : asking'[h].place = "recorded" => asking'[h] = asking[h]
      BY <1>4
    <2> QED
      BY <1>1, <2>1 DEF GitHubIInv, RunsRemember, Making, Raced
  <1>14. \A i \in DOMAIN requests : requests[i].key = key /\ requests[i].run = run => Rival(g, key[1])
    <2> SUFFICES ASSUME NEW i \in DOMAIN requests, requests[i].key = key, requests[i].run = run
                 PROVE  Rival(g, key[1])
      OBVIOUS
    <2>1. \/ asking[requests[i].by].place = "recorded" /\ asking[requests[i].by].key = requests[i].key
          \/ Raced(requests[i].key[1])
      BY <1>1 DEF GitHubIInv, RunsRemember, InMemory
    <2>2. CASE asking[requests[i].by].place = "recorded"
      <3>1. requests[i].by # g
        BY <1>1, <2>2 DEF GitHub!None
      <3> QED
        BY <3>1 DEF Rival
    <2>3. CASE Raced(requests[i].key[1])
      <3>1. PICK k, l \in DOMAIN requests :
              /\ requests[k].run = run /\ requests[l].run = run /\ requests[k].by # requests[l].by
              /\ requests[k].key[1] = key[1] /\ requests[l].key[1] = key[1]
        BY <2>3 DEF Raced
      <3> QED
        BY <3>1 DEF Rival
    <2> QED
      BY <2>1, <2>2, <2>3
  <1>15. AskedAgain'
    <2> SUFFICES ASSUME NEW h \in Goroutines, asking'[h].place \in {"asked", "answered"},
                        NEW i \in 1..asking'[h].after, requests[i].key = asking'[h].key, requests[i].run = run
                 PROVE  Rival(h, asking'[h].key[1])
      BY <1>1 DEF AskedAgain, Rival
    <2>1. CASE h = g
      BY <1>3, <1>4, <1>14, <2>1
    <2>2. CASE h # g
      BY <1>4, <2>2 DEF GitHubIInv, RunsRemember, AskedAgain
    <2> QED
      BY <2>1, <2>2
  <1> QED
    BY <1>5, <1>6, <1>7, <1>8, <1>9, <1>11, <1>12, <1>13, <1>15
    DEF GitHubIInv, AnswersDated, RequestsSpared, RunsRemember

\* An answer arrives, or the request fails.
LEMMA WaitStep ==
  ASSUME GitHubIInv, NEW g \in Goroutines, GitHub!Serve(g) \/ (GitHub!RequestFails(g))
  PROVE  GitHubIInv'
  <1>1. /\ UNCHANGED <<period, now, published, stored, mode, recorded, memory, client, run, began, requests>>
        /\ answer' = GitHub!None
    BY DEF GitHub!Serve, GitHub!RequestFails, GitHub!runVars
  <1>2. /\ asking \in [Goroutines -> Asked] /\ asking[g] \in Asked /\ GitHub!None \in Asked
        /\ published.version \in Nat
    BY DEF GitHubIInv, AnswersDated, GitHubTyped, Asked, GitHub!None, Stages
  <1>3. \E new \in Asked :
          /\ asking' = [asking EXCEPT ![g] = new] /\ asking[g].place # "recorded"
          /\ \/ new = GitHub!None
             \/ /\ new.place = "answered" /\ asking[g].place = "asked"
                /\ new.key = asking[g].key /\ new.at = asking[g].at /\ new.after = asking[g].after
                /\ new.version = published.version
    <2>1. CASE GitHub!Serve(g)
      <3> DEFINE new == [asking[g] EXCEPT !.place = "answered", !.version = published.version]
      <3>1. asking[g].place = "asked" /\ asking' = [asking EXCEPT ![g] = new]
        BY <1>2, <2>1 DEF GitHub!Serve
      <3>2. new \in Asked
        <4>1. \A v \in Int : [asking[g] EXCEPT !.place = "answered", !.version = v] \in Asked
          BY <1>2 DEF Asked, Stages
        <4>2. published.version \in Int
          BY <1>2
        <4> QED
          BY <4>1, <4>2, Zenon
      <3>3. /\ new.place = "answered" /\ new.version = published.version
            /\ new.key = asking[g].key /\ new.at = asking[g].at /\ new.after = asking[g].after
        BY <1>2 DEF Asked
      <3> QED
        BY <3>1, <3>2, <3>3
    <2>2. CASE GitHub!RequestFails(g)
      BY <1>2, <2>2 DEF GitHub!RequestFails
    <2> QED
      BY <2>1, <2>2
  <1>4. PICK new \in Asked :
          /\ asking' = [asking EXCEPT ![g] = new] /\ asking[g].place # "recorded"
          /\ \/ new = GitHub!None
             \/ /\ new.place = "answered" /\ asking[g].place = "asked"
                /\ new.key = asking[g].key /\ new.at = asking[g].at /\ new.after = asking[g].after
                /\ new.version = published.version
    BY <1>3
  <1>5. asking' \in [Goroutines -> Asked] /\ asking'[g] = new /\ \A h \in Goroutines : h # g => asking'[h] = asking[h]
    BY <1>2, <1>4
  <1>6. GitHubTyped' /\ Recorded' /\ Remembered'
    BY <1>1, <1>5 DEF GitHubIInv, AnswersDated, GitHubTyped, Recorded, Dated, Remembered
  <1>7. GitHubAsking'
    <2> SUFFICES ASSUME NEW h \in Goroutines
                 PROVE  /\ asking'[h].place = "none" => asking'[h].at = -1
                        /\ asking'[h].place # "none" =>
                             /\ asking'[h].key \in GitHub!Keys /\ asking'[h].at \in Nat
                             /\ began <= asking'[h].at /\ asking'[h].at <= now
                        /\ asking'[h].place \in {"answered", "recorded"} =>
                             Current(published, asking'[h].version, asking'[h].at)
      BY <1>1 DEF GitHubAsking
    <2>1. CASE h # g
      BY <1>5, <2>1 DEF GitHubIInv, AnswersDated, GitHubAsking
    <2>2. CASE h = g /\ new = GitHub!None
      BY <1>5, <2>2 DEF GitHub!None
    <2>3. CASE h = g /\ new # GitHub!None
      <3>1. /\ asking[g].key \in GitHub!Keys /\ asking[g].at \in Nat
            /\ began <= asking[g].at /\ asking[g].at <= now
        BY <1>4, <2>3 DEF GitHubIInv, AnswersDated, GitHubAsking
      <3>2. Current(published, new.version, new.at)
        BY <1>2, <1>4, <2>3 DEF Current
      <3> QED
        BY <1>4, <1>5, <2>3, <3>1, <3>2
    <2> QED
      BY <2>1, <2>2, <2>3
  <1>8. GitHubAnswered'
    BY <1>1 DEF GitHubAnswered, GitHub!None
  <1>9. RequestsSpared' /\ RunsRemember'
    BY <1>1, <1>4, Waiting DEF GitHub!None
  <1> QED
    BY <1>6, <1>7, <1>8, <1>9 DEF GitHubIInv, AnswersDated

\* A new run knows what was kept, and none of its requests has been made.
LEMMA RestartStep == ASSUME GitHubIInv, GitHub!Restart PROVE GitHubIInv'
  <1>1. /\ run' = run + 1 /\ began' = now /\ mode' \in GitHub!Modes
        /\ recorded' = (IF mode' = "empty" THEN <<>> ELSE stored) /\ memory' = <<>> /\ client' = "none"
        /\ asking' = [g \in Goroutines |-> GitHub!None] /\ answer' = GitHub!None
        /\ UNCHANGED <<period, now, published, stored, requests>>
    BY DEF GitHub!Restart
  <1>2. /\ run \in Nat /\ now \in Nat /\ DOMAIN <<>> = {} /\ GitHub!None \in Asked
        /\ GitHub!None.place = "none" /\ GitHub!None.at = -1
        /\ \A g \in Goroutines : asking'[g] = GitHub!None
    BY <1>1 DEF GitHubIInv, AnswersDated, GitHubTyped, Asked, Stages, GitHub!None
  <1>3. \A i \in DOMAIN requests : requests[i].run \in Nat /\ requests[i].run <= run /\ requests[i].run # run'
    <2>1. \A i \in DOMAIN requests : requests[i].run \in Nat
      BY Listed DEF GitHubIInv, AnswersDated
    <2> QED
      BY <1>1, <1>2, <2>1 DEF GitHubIInv, RequestsSpared, InOrder
  <1>4. GitHubTyped'
    <2>1. DOMAIN recorded' \subseteq GitHub!Keys /\ DOMAIN memory' \subseteq GitHub!Keys
      BY <1>1, <1>2 DEF GitHubIInv, AnswersDated, GitHubTyped
    <2>2. run' \in Nat /\ asking' \in [Goroutines -> Asked] /\ began' \in Nat /\ began' <= now
      BY <1>1, <1>2
    <2> QED
      BY <1>1, <1>2, <2>1, <2>2 DEF GitHubIInv, AnswersDated, GitHubTyped
  <1>5. Recorded' /\ Remembered'
    <2>1. Dated(recorded)' /\ Dated(stored)'
      BY <1>1, <1>2 DEF GitHubIInv, AnswersDated, Recorded, Dated
    <2> QED
      BY <1>1, <1>2, <2>1 DEF Recorded, Remembered
  <1>6. GitHubAsking' /\ GitHubAnswered'
    BY <1>1, <1>2 DEF GitHubAsking, GitHubAnswered
  <1>7. InOrder'
    BY <1>1, <1>2, <1>3 DEF GitHubIInv, RequestsSpared, InOrder
  <1>8. Kept'
    <2>1. \A i \in DOMAIN requests : requests[i].mode = "keeps" => Covered(stored, i)
      BY DEF GitHubIInv, RequestsSpared, Kept
    <2>2. \A i \in DOMAIN requests : Visible(i)' => requests[i].mode = "keeps" /\ recorded' = stored
      BY <1>1, <1>3 DEF Visible
    <2> QED
      BY <1>1, <2>1, <2>2 DEF Kept, Covered, Since, GitHub!Overtook
  <1>9. AskedInTime' /\ Making' /\ AskedAgain' /\ InMemory'
    BY <1>1, <1>2, <1>3 DEF AskedInTime, Making, AskedAgain, InMemory
  <1>10. GitHub!OncePerPeriod' /\ GitHub!OncePerRun'
    BY <1>1 DEF GitHubIInv, RequestsSpared, RunsRemember, GitHub!OncePerPeriod, GitHub!OncePerRun, GitHub!Finds, GitHub!Overtook
  <1> QED
    BY <1>4, <1>5, <1>6, <1>7, <1>8, <1>9, <1>10 DEF GitHubIInv, AnswersDated, RequestsSpared, RunsRemember

\* A goroutine remembers its answer, and may lose what another remembered.
LEMMA RememberStep ==
  ASSUME GitHubIInv, NEW g \in Goroutines, GitHub!Remember(g)
  PROVE  GitHubIInv'
  <1>1. /\ UNCHANGED <<period, now, published, stored, mode, recorded, client, run, began, requests>>
        /\ asking[g].place = "recorded" /\ asking' = [asking EXCEPT ![g] = GitHub!None]
        /\ answer' = [key |-> asking[g].key, version |-> asking[g].version, at |-> now]
    BY DEF GitHub!Remember, GitHub!runVars, GitHub!Answer
  <1>2. PICK lost \in {{}} \cup { GitHub!OfKind(asking[g].key) : makes \in {asking[g].makes} \cap {TRUE} } :
          memory' = GitHub!Insert([k \in DOMAIN memory \ lost |-> memory[k]], asking[g].key, asking[g].version)
    BY DEF GitHub!Remember
  <1>3. /\ DOMAIN memory' = (DOMAIN memory \ lost) \cup {asking[g].key}
        /\ memory'[asking[g].key] = asking[g].version
        /\ \A k \in DOMAIN memory \ lost : k # asking[g].key => memory'[k] = memory[k]
    BY <1>2 DEF GitHub!Insert
  <1>4. \A k \in lost : asking[g].makes /\ k[1] = asking[g].key[1]
    BY <1>2 DEF GitHub!OfKind
  <1>5. /\ asking \in [Goroutines -> Asked] /\ GitHub!None \in Asked /\ GitHubTyped
        /\ published.version \in Nat /\ published.replaced \in Seq(Nat) /\ Len(published.replaced) = published.version
        /\ began \in Nat /\ GitHub!None.place = "none" /\ GitHub!None.at = -1
    BY DEF GitHubIInv, AnswersDated, GitHubTyped, Asked, Stages, GitHub!None
  <1>6. /\ asking' \in [Goroutines -> Asked] /\ asking'[g] = GitHub!None
        /\ \A h \in Goroutines : h # g => asking'[h] = asking[h]
    BY <1>1, <1>5
  <1>7. /\ asking[g].key \in GitHub!Keys /\ asking[g].at \in Nat /\ began <= asking[g].at /\ asking[g].at <= now
        /\ Current(published, asking[g].version, asking[g].at)
    BY <1>1 DEF GitHubIInv, AnswersDated, GitHubAsking
  <1>8. Current(published, asking[g].version, began)
    <2>1. asking[g].version \in 0 .. published.version
      BY <1>7 DEF Current
    <2>2. CASE asking[g].version < published.version
      <3>1. asking[g].version + 1 \in 1 .. Len(published.replaced)
        BY <1>5, <2>1, <2>2
      <3>2. published.replaced[asking[g].version + 1] \in Nat
        BY <1>5, <3>1
      <3> QED
        BY <1>5, <1>7, <2>1, <3>2 DEF Current
    <2> QED
      BY <2>1, <2>2 DEF Current
  <1>9. GitHubTyped' /\ Recorded'
    <2>1. DOMAIN memory' \subseteq GitHub!Keys
      BY <1>3, <1>5, <1>7 DEF GitHubTyped
    <2> QED
      BY <1>1, <1>6, <2>1 DEF GitHubIInv, AnswersDated, GitHubTyped, Recorded, Dated
  <1>10. Remembered'
    <2>1. \A k \in DOMAIN memory' : Current(published, memory'[k], began)
      BY <1>3, <1>8 DEF GitHubIInv, AnswersDated, Remembered
    <2> QED
      BY <1>1, <2>1 DEF Remembered
  <1>11. GitHubAsking'
    BY <1>1, <1>5, <1>6 DEF GitHubIInv, AnswersDated, GitHubAsking
  <1>12. GitHubAnswered'
    BY <1>1, <1>8 DEF GitHubAnswered
  <1>13. RequestsSpared'
    <2>1. InOrder'
      <3>1. \A h \in Goroutines : asking'[h].place # "none" => asking'[h] = asking[h]
        BY <1>5, <1>6
      <3> QED
        BY <1>1, <3>1 DEF GitHubIInv, RequestsSpared, InOrder
    <2>2. AskedInTime'
      <3>1. \A h \in Goroutines : asking'[h].place \in {"asked", "answered"} => asking'[h] = asking[h]
        BY <1>5, <1>6
      <3> QED
        BY <1>1, <3>1 DEF GitHubIInv, RequestsSpared, AskedInTime, Since, Visible, GitHub!Overtook
    <2>3. Kept' /\ GitHub!OncePerPeriod'
      BY <1>1 DEF GitHubIInv, RequestsSpared, Kept, GitHub!OncePerPeriod, Covered, Since, Visible,
         GitHub!Overtook, GitHub!Finds
    <2> QED
      BY <2>1, <2>2, <2>3 DEF RequestsSpared
  <1>14. InMemory'
    <2> SUFFICES ASSUME NEW i \in DOMAIN requests, requests[i].run = run
                 PROVE  \/ requests[i].key \in DOMAIN memory'
                        \/ asking'[requests[i].by].place = "recorded" /\ asking'[requests[i].by].key = requests[i].key
                        \/ Raced(requests[i].key[1])
      BY <1>1 DEF InMemory, Raced
    <2>0. requests[i].by \in Goroutines
      BY <1>5, Listed
    <2>1. \/ requests[i].key \in DOMAIN memory
          \/ asking[requests[i].by].place = "recorded" /\ asking[requests[i].by].key = requests[i].key
          \/ Raced(requests[i].key[1])
      BY DEF GitHubIInv, RunsRemember, InMemory
    <2>2. CASE asking[requests[i].by].place = "recorded" /\ asking[requests[i].by].key = requests[i].key
      BY <1>3, <1>6, <2>0, <2>2
    <2>3. CASE requests[i].key \in lost
      <3>1. PICK k \in DOMAIN requests :
              requests[k].run = run /\ requests[k].by = g /\ requests[k].key = asking[g].key
        BY <1>1 DEF GitHubIInv, RunsRemember, Making
      <3>2. CASE requests[i].by # g
        BY <1>4, <2>3, <3>1, <3>2 DEF Raced
      <3>3. CASE requests[i].by = g
        <4>1. requests[i].key = asking[g].key \/ Raced(asking[g].key[1])
          BY <1>1, <1>4, <2>3, <3>3 DEF GitHubIInv, RunsRemember, Making
        <4> QED
          BY <1>3, <1>4, <2>3, <4>1
      <3> QED
        BY <3>2, <3>3
    <2>4. CASE requests[i].key \in DOMAIN memory /\ requests[i].key \notin lost
      BY <1>3, <2>4
    <2> QED
      BY <2>1, <2>2, <2>3, <2>4
  <1>15. Making'
    <2>1. \A h \in Goroutines : asking'[h].place = "recorded" => asking'[h] = asking[h]
      BY <1>5, <1>6
    <2> QED
      BY <1>1, <2>1 DEF GitHubIInv, RunsRemember, Making, Raced
  <1>16. AskedAgain' /\ GitHub!OncePerRun'
    BY <1>1, <1>5, <1>6 DEF GitHubIInv, RunsRemember, AskedAgain, Rival, GitHub!OncePerRun, GitHub!Finds
  <1> QED
    BY <1>9, <1>10, <1>11, <1>12, <1>13, <1>14, <1>15, <1>16 DEF GitHubIInv, AnswersDated, RunsRemember

\* The answer is recorded with the time of the request, over what was
\* recorded since.
LEMMA RecordStep ==
  ASSUME GitHubIInv, NEW g \in Goroutines, GitHub!Record(g)
  PROVE  GitHubIInv'
  <1> DEFINE n   == Len(requests) + 1
             req == [key |-> asking[g].key, at |-> asking[g].at, after |-> asking[g].after, run |-> run, mode |-> mode, by |-> g]
             new == [asking[g] EXCEPT !.place = "recorded", !.makes = GitHub!OfKind(asking[g].key) = {}]
  <1>1. /\ UNCHANGED <<period, now, published, mode, memory, client, run, began>>
        /\ asking[g].place = "answered" /\ answer' = GitHub!None
        /\ recorded' = GitHub!Insert(recorded, asking[g].key, [at |-> asking[g].at, version |-> asking[g].version])
        /\ stored' = (IF mode = "keeps" THEN recorded' ELSE stored)
        /\ requests' = Append(requests, req) /\ asking' = [asking EXCEPT ![g] = new]
    BY DEF GitHub!Record
  <1>2. /\ GitHubTyped /\ asking \in [Goroutines -> Asked] /\ asking[g] \in Asked /\ requests \in Seq(Made)
        /\ now \in Nat /\ run \in Nat /\ period \in Nat /\ mode \in GitHub!Modes
    BY DEF GitHubIInv, AnswersDated, GitHubTyped
  <1>3. /\ asking[g].key \in GitHub!Keys /\ asking[g].at \in Nat /\ began <= asking[g].at /\ asking[g].at <= now
        /\ Current(published, asking[g].version, asking[g].at) /\ asking[g].after \in Nat
        /\ asking[g].after <= Len(requests)
        /\ \A i \in 1..asking[g].after : requests[i].at <= asking[g].at
    BY <1>1, <1>2 DEF GitHubIInv, AnswersDated, RequestsSpared, GitHubAsking, InOrder, Asked
  <1>4. /\ Len(requests) \in Nat /\ DOMAIN requests = 1 .. Len(requests) /\ n \in Nat
        /\ DOMAIN requests' = 1 .. n /\ requests'[n] = req /\ requests' \in Seq(Made)
        /\ \A i \in DOMAIN requests : i \in 1 .. n /\ i < n /\ i # n /\ requests'[i] = requests[i]
        /\ \A i \in 1 .. n : i \in DOMAIN requests \/ i = n
    <2>1. req \in Made
      BY <1>2, <1>3 DEF Made
    <2>2. Len(requests) \in Nat /\ DOMAIN requests = 1 .. Len(requests)
      BY <1>2, LenProperties
    <2>3. /\ requests' \in Seq(Made) /\ Len(requests') = n /\ requests'[n] = req
          /\ \A i \in 1 .. Len(requests) : requests'[i] = requests[i]
      BY <1>1, <1>2, <2>1, AppendProperties
    <2>4. DOMAIN requests' = 1 .. n
      BY <2>3, LenProperties
    <2> QED
      BY <2>2, <2>3, <2>4
  <1>5. /\ asking' \in [Goroutines -> Asked] /\ asking'[g] = new
        /\ \A h \in Goroutines : h # g => asking'[h] = asking[h]
        /\ new.place = "recorded" /\ new.makes = (GitHub!OfKind(asking[g].key) = {}) /\ new.key = asking[g].key
        /\ new.at = asking[g].at /\ new.after = asking[g].after /\ new.version = asking[g].version
    <2>1. new \in Asked
      BY <1>2 DEF Asked, Stages
    <2>2. /\ new.place = "recorded" /\ new.makes = (GitHub!OfKind(asking[g].key) = {}) /\ new.key = asking[g].key
          /\ new.at = asking[g].at /\ new.after = asking[g].after /\ new.version = asking[g].version
      BY <1>2 DEF Asked
    <2>3. asking' \in [Goroutines -> Asked] /\ asking'[g] = new /\ \A h \in Goroutines : h # g => asking'[h] = asking[h]
      BY <1>1, <1>2, <2>1
    <2> QED
      BY <2>2, <2>3
  <1>6. /\ requests'[n].key = asking[g].key /\ requests'[n].at = asking[g].at /\ requests'[n].after = asking[g].after
        /\ requests'[n].run = run /\ requests'[n].mode = mode /\ requests'[n].by = g
    BY <1>4
  <1>7. \A i \in DOMAIN requests : requests[i].after \in Nat /\ requests[i].at \in Nat /\ requests[i].by \in Goroutines
    BY <1>2, Listed
  <1>8. /\ DOMAIN recorded' = DOMAIN recorded \cup {asking[g].key}
        /\ recorded'[asking[g].key] = [at |-> asking[g].at, version |-> asking[g].version]
        /\ \A k \in DOMAIN recorded : k # asking[g].key => recorded'[k] = recorded[k]
    BY <1>1 DEF GitHub!Insert
  <1> HIDE DEF n, req, new
  \* What holds of the earlier requests goes on holding.
  <1>9. \A t : \A i \in DOMAIN requests : Since(i, t) => Since(i, t)'
    BY <1>4 DEF Since, GitHub!Overtook
  <1>10. \A kind : Raced(kind) => Raced(kind)'
    BY <1>1, <1>4 DEF Raced
  <1>11. \A h, kind : Rival(h, kind) => Rival(h, kind)'
    BY <1>1, <1>4 DEF Rival
  \* The new request covers those it overtook, and is no older than the rest.
  <1>12. \A i \in 1 .. n : requests'[i].key = asking[g].key =>
           \E k \in 1 .. n :
             /\ k = i \/ (i < k /\ requests'[k].after < i /\ requests'[k].key = requests'[i].key)
             /\ requests'[k].at <= asking[g].at
    <2> SUFFICES ASSUME NEW i \in 1 .. n, requests'[i].key = asking[g].key
                 PROVE  \E k \in 1 .. n :
                          /\ k = i \/ (i < k /\ requests'[k].after < i /\ requests'[k].key = requests'[i].key)
                          /\ requests'[k].at <= asking[g].at
      OBVIOUS
    <2>1. n \in 1 .. n
      BY <1>4 DEF n
    <2>2. CASE i \in 1 .. asking[g].after
      <3>1. i \in DOMAIN requests /\ requests[i].at <= asking[g].at
        BY <1>3, <1>4, <2>2
      <3> QED
        BY <1>4, <3>1
    <2>3. CASE i \in DOMAIN requests /\ asking[g].after < i
      BY <1>3, <1>4, <1>6, <2>1, <2>3
    <2>4. CASE i = n
      BY <1>3, <1>6, <2>4
    <2> QED
      BY <1>3, <1>4, <2>2, <2>3, <2>4
  <1>13. GitHubTyped' /\ Recorded' /\ Remembered' /\ GitHubAsking' /\ GitHubAnswered'
    <2>1. GitHubTyped'
      <3>1. DOMAIN recorded' \subseteq GitHub!Keys /\ DOMAIN stored' \subseteq GitHub!Keys
        BY <1>1, <1>2, <1>3, <1>8 DEF GitHubTyped
      <3> QED
        BY <1>1, <1>4, <1>5, <3>1 DEF GitHubIInv, AnswersDated, GitHubTyped
    <2>2. Recorded'
      <3>1. Dated(recorded)'
        <4> SUFFICES ASSUME NEW k \in DOMAIN recorded'
                     PROVE  /\ recorded'[k].at \in Nat /\ recorded'[k].at <= now
                            /\ Current(published, recorded'[k].version, recorded'[k].at)
          BY <1>1 DEF Dated
        <4>1. CASE k = asking[g].key
          BY <1>3, <1>8, <4>1
        <4>2. CASE k # asking[g].key
          BY <1>8, <4>2 DEF GitHubIInv, AnswersDated, Recorded, Dated
        <4> QED
          BY <4>1, <4>2
      <3>2. Dated(stored)'
        <4>1. CASE mode = "keeps"
          BY <1>1, <3>1, <4>1 DEF Dated
        <4>2. CASE mode # "keeps"
          BY <1>1, <4>2 DEF GitHubIInv, AnswersDated, Recorded, Dated
        <4> QED
          BY <4>1, <4>2
      <3> QED
        BY <1>1, <3>1, <3>2 DEF Recorded
    <2>3. Remembered' /\ GitHubAnswered'
      BY <1>1 DEF GitHubIInv, AnswersDated, Remembered, GitHubAnswered
    <2>4. GitHubAsking'
      <3> SUFFICES ASSUME NEW h \in Goroutines
                   PROVE  /\ asking'[h].place = "none" => asking'[h].at = -1
                          /\ asking'[h].place # "none" =>
                               /\ asking'[h].key \in GitHub!Keys /\ asking'[h].at \in Nat
                               /\ began <= asking'[h].at /\ asking'[h].at <= now
                          /\ asking'[h].place \in {"answered", "recorded"} =>
                               Current(published, asking'[h].version, asking'[h].at)
        BY <1>1 DEF GitHubAsking
      <3>1. CASE h = g
        BY <1>3, <1>5, <3>1
      <3>2. CASE h # g
        BY <1>5, <3>2 DEF GitHubIInv, AnswersDated, GitHubAsking
      <3> QED
        BY <3>1, <3>2
    <2> QED
      BY <2>1, <2>2, <2>3, <2>4
  <1>14. InOrder'
    <2>1. \A i \in DOMAIN requests' :
            /\ requests'[i].after < i /\ requests'[i].at <= now /\ requests'[i].run <= run
            /\ requests'[i].run = run => requests'[i].mode = mode
      <3> SUFFICES ASSUME NEW i \in 1 .. n
                   PROVE  /\ requests'[i].after < i /\ requests'[i].at <= now /\ requests'[i].run <= run
                          /\ requests'[i].run = run => requests'[i].mode = mode
        BY <1>4
      <3>1. CASE i \in DOMAIN requests
        BY <1>4, <3>1 DEF GitHubIInv, RequestsSpared, InOrder
      <3>2. CASE i = n
        BY <1>2, <1>3, <1>4, <1>6, <3>2 DEF n
      <3> QED
        BY <1>4, <3>1, <3>2
    <2>2. \A h \in Goroutines : asking'[h].place # "none" =>
            /\ asking'[h].after <= Len(requests) /\ asking'[h].after \in Nat
            /\ \A i \in 1..asking'[h].after : i \in DOMAIN requests /\ requests[i].at <= asking'[h].at
      <3> SUFFICES ASSUME NEW h \in Goroutines, asking'[h].place # "none"
                   PROVE  /\ asking'[h].after <= Len(requests) /\ asking'[h].after \in Nat
                          /\ \A i \in 1..asking'[h].after : i \in DOMAIN requests /\ requests[i].at <= asking'[h].at
        OBVIOUS
      <3>1. CASE h = g
        BY <1>3, <1>4, <1>5, <3>1
      <3>2. CASE h # g
        <4>1. asking'[h] = asking[h] /\ asking[h].after \in Nat
          BY <1>2, <1>5, <3>2 DEF Asked
        <4>2. asking[h].after <= Len(requests) /\ \A i \in 1..asking[h].after : requests[i].at <= asking[h].at
          BY <4>1 DEF GitHubIInv, RequestsSpared, InOrder
        <4> QED
          BY <1>4, <4>1, <4>2
      <3> QED
        BY <3>1, <3>2
    <2>3. Len(requests') = n /\ Len(requests) <= n
      BY <1>1, <1>2, <1>4, LenProperties DEF n
    <2>4. \A h \in Goroutines : asking'[h].place # "none" =>
            /\ asking'[h].after <= Len(requests')
            /\ \A i \in 1..asking'[h].after : requests'[i].at <= asking'[h].at
      BY <1>4, <2>2, <2>3
    <2> QED
      BY <1>1, <2>1, <2>4 DEF InOrder
  <1>15. Kept'
    <2>1. \A i \in 1 .. n : requests'[i].key = asking[g].key => Covered(recorded, i)'
      BY <1>4, <1>8, <1>12 DEF Covered, Since, GitHub!Overtook
    <2>2. \A i \in DOMAIN requests : Covered(recorded, i) => Covered(recorded, i)'
      <3> SUFFICES ASSUME NEW i \in DOMAIN requests, Covered(recorded, i)
                   PROVE  Covered(recorded, i)'
        OBVIOUS
      <3>1. CASE requests[i].key = asking[g].key
        BY <1>4, <2>1, <3>1
      <3>2. CASE requests[i].key # asking[g].key
        <4>1. requests'[i].key = requests[i].key /\ recorded'[requests[i].key] = recorded[requests[i].key]
          BY <1>4, <1>8, <3>2 DEF Covered
        <4>2. \A t : Since(i, t) => Since(i, t)'
          BY <1>9
        <4> QED
          BY <1>8, <4>1, <4>2 DEF Covered
      <3> QED
        BY <3>1, <3>2
    <2>3. \A i \in DOMAIN requests : Covered(stored, i) => Covered(stored, i)'
      <3>1. CASE mode = "keeps"
        BY <1>1, <2>2, <3>1 DEF GitHubIInv, AnswersDated, Recorded, Covered
      <3>2. CASE mode # "keeps"
        <4> SUFFICES ASSUME NEW i \in DOMAIN requests, Covered(stored, i)
                     PROVE  Covered(stored, i)'
          OBVIOUS
        <4>1. \A t : Since(i, t) => Since(i, t)'
          BY <1>9
        <4> QED
          BY <1>1, <1>4, <3>2, <4>1 DEF Covered
      <3> QED
        BY <3>1, <3>2
    <2>4. \A i \in DOMAIN requests :
            /\ requests'[i].mode = "keeps" => Covered(stored, i)'
            /\ Visible(i)' => Covered(recorded, i)'
      BY <1>1, <1>4, <2>2, <2>3 DEF GitHubIInv, RequestsSpared, Kept, Visible
    <2>5. \A i \in 1 .. n : i = n =>
            /\ requests'[i].mode = "keeps" => Covered(stored, i)'
            /\ Visible(i)' => Covered(recorded, i)'
      BY <1>1, <1>6, <2>1 DEF Covered
    <2> QED
      BY <1>4, <2>4, <2>5 DEF Kept
  <1>16. AskedInTime'
    <2> SUFFICES ASSUME NEW h \in Goroutines, asking'[h].place \in {"asked", "answered"},
                        NEW i \in 1..asking'[h].after, requests'[i].key = asking'[h].key, Visible(i)'
                 PROVE  Since(i, asking[h].at - period)'
      BY <1>1 DEF AskedInTime
    <2>1. h # g /\ asking'[h] = asking[h]
      BY <1>5
    <2>2. asking[h].after \in Nat /\ asking[h].after <= Len(requests)
      BY <1>2, <2>1 DEF Asked, GitHubIInv, RequestsSpared, InOrder
    <2>3. i \in DOMAIN requests /\ requests'[i] = requests[i] /\ Visible(i)
      BY <1>1, <1>4, <2>1, <2>2 DEF Visible
    <2>4. Since(i, asking[h].at - period)
      BY <2>1, <2>3 DEF GitHubIInv, RequestsSpared, AskedInTime
    <2> QED
      BY <1>1, <1>4, <2>1, <2>3, <2>4 DEF Since, GitHub!Overtook
  <1>17. GitHub!OncePerPeriod'
    <2> SUFFICES ASSUME NEW j \in 1 .. n, NEW i \in 1..requests'[j].after, GitHub!Finds(requests[j], i)'
                 PROVE  \E k \in 1 .. n :
                          /\ k = i \/ GitHub!Overtook(i, k)'
                          /\ requests'[k].at + period <= requests'[j].at
      BY <1>1, <1>4 DEF GitHub!OncePerPeriod
    <2>1. i \in DOMAIN requests /\ requests'[i] = requests[i]
      <3>1. requests'[j].after \in Nat /\ requests'[j].after < j
        BY <1>2, <1>3, <1>4, <1>6, <1>7 DEF GitHubIInv, RequestsSpared, InOrder, n
      <3> QED
        BY <1>4, <3>1 DEF n
    <2>2. CASE j \in DOMAIN requests
      <3>1. GitHub!Finds(requests[j], i) /\ i \in 1..requests[j].after
        BY <1>4, <2>1, <2>2 DEF GitHub!Finds
      <3>2. PICK k \in DOMAIN requests :
              (k = i \/ GitHub!Overtook(i, k)) /\ requests[k].at + period <= requests[j].at
        BY <2>2, <3>1 DEF GitHubIInv, RequestsSpared, GitHub!OncePerPeriod
      <3> QED
        BY <1>4, <2>1, <2>2, <3>2 DEF GitHub!Overtook
    <2>3. CASE j = n
      <3>1. i \in 1..asking[g].after /\ requests[i].key = asking[g].key /\ Visible(i)
        BY <1>6, <2>1, <2>3 DEF GitHub!Finds, Visible
      <3>2. Since(i, asking[g].at - period)
        BY <1>1, <3>1 DEF GitHubIInv, RequestsSpared, AskedInTime
      <3>3. PICK k \in DOMAIN requests :
              (k = i \/ GitHub!Overtook(i, k)) /\ requests[k].at <= asking[g].at - period
        BY <3>2 DEF Since
      <3>4. requests[k].at + period <= asking[g].at
        BY <1>2, <1>3, <1>7, <3>3
      <3> QED
        BY <1>4, <1>6, <2>1, <2>3, <3>3, <3>4 DEF GitHub!Overtook
    <2> QED
      BY <1>4, <2>2, <2>3
  <1>18. InMemory'
    <2> SUFFICES ASSUME NEW i \in 1 .. n, requests'[i].run = run
                 PROVE  \/ requests'[i].key \in DOMAIN memory
                        \/ asking'[requests'[i].by].place = "recorded" /\ asking'[requests'[i].by].key = requests'[i].key
                        \/ Raced(requests[i].key[1])'
      BY <1>1, <1>4 DEF InMemory
    <2>1. CASE i = n
      BY <1>5, <1>6, <2>1
    <2>2. CASE i \in DOMAIN requests
      <3>1. \/ requests[i].key \in DOMAIN memory
            \/ asking[requests[i].by].place = "recorded" /\ asking[requests[i].by].key = requests[i].key
            \/ Raced(requests[i].key[1])
        BY <1>4, <2>2 DEF GitHubIInv, RunsRemember, InMemory
      <3>2. CASE asking[requests[i].by].place = "recorded" /\ asking[requests[i].by].key = requests[i].key
        BY <1>1, <1>4, <1>5, <1>7, <2>2, <3>2
      <3>3. CASE Raced(requests[i].key[1])
        BY <1>1, <1>4, <2>2, <3>3 DEF Raced
      <3> QED
        BY <1>4, <2>2, <3>1, <3>2, <3>3
    <2> QED
      BY <1>4, <2>1, <2>2
  <1>19. Making'
    <2> SUFFICES ASSUME NEW h \in Goroutines, asking'[h].place = "recorded"
                 PROVE  /\ \E k \in 1 .. n :
                             requests'[k].run = run /\ requests'[k].by = h /\ requests'[k].key = asking'[h].key
                        /\ asking'[h].makes => \A i \in 1 .. n :
                             requests'[i].run = run /\ requests'[i].by = h /\ requests'[i].key[1] = asking'[h].key[1] =>
                               requests'[i].key = asking'[h].key \/ Raced(asking[h].key[1])'
      BY <1>1, <1>4, Zenon DEF Making
    <2>0. n \in 1 .. n
      BY <1>4 DEF n
    <2>1. CASE h = g
      <3>1. \E k \in 1 .. n :
              requests'[k].run = run /\ requests'[k].by = h /\ requests'[k].key = asking'[h].key
        BY <1>5, <1>6, <2>0, <2>1
      <3>2. ASSUME asking'[h].makes, NEW i \in 1 .. n, requests'[i].run = run, requests'[i].by = h,
                   requests'[i].key[1] = asking'[h].key[1]
            PROVE  requests'[i].key = asking'[h].key \/ Raced(asking[h].key[1])'
        <4>1. CASE i = n
          BY <1>5, <1>6, <2>1, <4>1
        <4>2. CASE i \in DOMAIN requests
          <5>1. requests[i].key \notin DOMAIN memory
            BY <1>4, <1>5, <2>1, <3>2, <4>2 DEF GitHub!OfKind
          <5>2. Raced(requests[i].key[1])
            BY <1>1, <1>4, <2>1, <3>2, <4>2, <5>1 DEF GitHubIInv, RunsRemember, InMemory
          <5> QED
            BY <1>1, <1>4, <1>5, <2>1, <3>2, <4>2, <5>2 DEF Raced
        <4> QED
          BY <1>4, <4>1, <4>2
      <3> QED
        BY <3>1, <3>2
    <2>2. CASE h # g
      <3>1. asking'[h] = asking[h] /\ requests'[n].by # h
        BY <1>5, <1>6, <2>2
      <3>2. PICK k \in DOMAIN requests :
              requests[k].run = run /\ requests[k].by = h /\ requests[k].key = asking[h].key
        BY <3>1 DEF GitHubIInv, RunsRemember, Making
      <3>3. ASSUME asking[h].makes, NEW i \in 1 .. n, requests'[i].run = run, requests'[i].by = h,
                   requests'[i].key[1] = asking[h].key[1]
            PROVE  requests'[i].key = asking[h].key \/ Raced(asking[h].key[1])'
        <4>1. i \in DOMAIN requests
          BY <1>4, <3>1, <3>3
        <4>2. requests[i].key = asking[h].key \/ Raced(asking[h].key[1])
          BY <1>4, <3>1, <3>3, <4>1 DEF GitHubIInv, RunsRemember, Making
        <4> QED
          BY <1>1, <1>4, <3>1, <4>1, <4>2 DEF Raced
      <3> QED
        BY <1>4, <3>1, <3>2, <3>3
    <2> QED
      BY <2>1, <2>2
  <1>20. AskedAgain'
    <2> SUFFICES ASSUME NEW h \in Goroutines, asking'[h].place \in {"asked", "answered"},
                        NEW i \in 1..asking'[h].after, requests'[i].key = asking'[h].key, requests'[i].run = run'
                 PROVE  Rival(h, asking[h].key[1])'
      BY <1>1, <1>5, Zenon DEF AskedAgain
    <2>1. h # g /\ asking'[h] = asking[h]
      BY <1>5
    <2>2. asking[h].after \in Nat /\ asking[h].after <= Len(requests)
      BY <1>2, <2>1 DEF Asked, GitHubIInv, RequestsSpared, InOrder
    <2>3. i \in DOMAIN requests /\ requests'[i] = requests[i]
      BY <1>4, <2>1, <2>2
    <2>4. Rival(h, asking[h].key[1])
      BY <1>1, <2>1, <2>3 DEF GitHubIInv, RunsRemember, AskedAgain
    <2> QED
      BY <1>1, <1>4, <2>1, <2>4 DEF Rival
  <1>21. GitHub!OncePerRun'
    <2> SUFFICES ASSUME NEW j \in 1 .. n, NEW i \in 1..requests'[j].after,
                        GitHub!Finds(requests[j], i)', requests'[i].run = requests'[j].run
                 PROVE  \E k \in 1 .. n :
                          /\ requests'[k].run = requests'[j].run /\ requests'[k].by # requests'[j].by
                          /\ requests'[k].key[1] = requests'[j].key[1]
      BY <1>4, Zenon DEF GitHub!OncePerRun
    <2>1. i \in DOMAIN requests /\ requests'[i] = requests[i]
      <3>1. requests'[j].after \in Nat /\ requests'[j].after < j
        BY <1>2, <1>3, <1>4, <1>6, <1>7 DEF GitHubIInv, RequestsSpared, InOrder, n
      <3> QED
        BY <1>4, <3>1 DEF n
    <2>2. CASE j \in DOMAIN requests
      <3>1. GitHub!Finds(requests[j], i) /\ i \in 1..requests[j].after /\ requests[i].run = requests[j].run
        BY <1>4, <2>1, <2>2 DEF GitHub!Finds
      <3>2. PICK k \in DOMAIN requests :
              /\ requests[k].run = requests[j].run /\ requests[k].by # requests[j].by
              /\ requests[k].key[1] = requests[j].key[1]
        BY <2>2, <3>1 DEF GitHubIInv, RunsRemember, GitHub!OncePerRun
      <3> QED
        BY <1>4, <2>2, <3>2
    <2>3. CASE j = n
      <3>1. i \in 1..asking[g].after /\ requests[i].key = asking[g].key /\ requests[i].run = run
        BY <1>6, <2>1, <2>3 DEF GitHub!Finds
      <3>2. Rival(g, asking[g].key[1])
        BY <1>1, <3>1 DEF GitHubIInv, RunsRemember, AskedAgain
      <3> QED
        BY <1>4, <1>6, <2>3, <3>2 DEF Rival
    <2> QED
      BY <1>4, <2>2, <2>3
  <1> QED
    BY <1>13, <1>14, <1>15, <1>16, <1>17, <1>18, <1>19, <1>20, <1>21
    DEF GitHubIInv, AnswersDated, RequestsSpared, RunsRemember

LEMMA GitHubStep == ASSUME GitHubIInv, [GitHub!Next]_(GitHub!gitHubVars) PROVE GitHubIInv'
  <1>1. CASE \E g \in Goroutines, fn \in Functions, repo \in Repos :
               \/ GitHub!FromMemory(g, GitHub!Key(fn, repo)) \/ GitHub!FromState(g, GitHub!Key(fn, repo))
               \/ GitHub!Request(g, GitHub!Key(fn, repo)) \/ GitHub!ClientFails(g, GitHub!Key(fn, repo))
    <2>1. PICK g \in Goroutines, fn \in Functions, repo \in Repos :
            \/ GitHub!FromMemory(g, GitHub!Key(fn, repo)) \/ GitHub!FromState(g, GitHub!Key(fn, repo))
            \/ GitHub!Request(g, GitHub!Key(fn, repo)) \/ GitHub!ClientFails(g, GitHub!Key(fn, repo))
      BY <1>1
    <2>2. GitHub!Key(fn, repo) \in GitHub!Keys
      BY DEF GitHub!Keys
    <2>3. CASE GitHub!ClientFails(g, GitHub!Key(fn, repo))
      BY <2>3, IdleStep DEF GitHub!ClientFails, GitHub!runVars
    <2> QED
      BY <2>1, <2>2, <2>3, AnswerStep, RequestStep
  <1>2. CASE \E g \in Goroutines :
               GitHub!Serve(g) \/ GitHub!RequestFails(g) \/ GitHub!Record(g) \/ GitHub!Remember(g)
    BY <1>2, WaitStep, RecordStep, RememberStep
  <1>3. CASE UNCHANGED GitHub!gitHubVars
    <2>1. client \in {"none", "made", "failed"}
      BY DEF GitHubIInv, AnswersDated, GitHubTyped
    <2> QED
      BY <1>3, <2>1, IdleStep DEF GitHub!gitHubVars
  <1> QED
    BY <1>1, <1>2, <1>3, RestartStep, TickStep, PublishStep DEF GitHub!Next

\* The invariant gives what is promised of the answers.
LEMMA GitHubFresh == ASSUME GitHubIInv PROVE GitHub!AnswersFresh
  <1>1. GitHub!Fresh
    <2> SUFFICES ASSUME answer # GitHub!None, answer.version < published.version
                 PROVE  \/ published.replaced[answer.version + 1] >= began
                        \/ published.replaced[answer.version + 1] > answer.at - period
      BY DEF GitHub!Fresh
    <2>1. /\ published.version \in Nat /\ published.replaced \in Seq(Nat) /\ period \in Nat
          /\ Len(published.replaced) = published.version
      BY DEF GitHubIInv, AnswersDated, GitHubTyped
    <2>2. \/ Current(published, answer.version, began)
          \/ Current(published, answer.version, answer.at - period + 1) /\ answer.at \in Nat
      BY DEF GitHubIInv, AnswersDated, GitHubAnswered
    <2>3. answer.version + 1 \in 1 .. Len(published.replaced)
      BY <2>1, <2>2 DEF Current
    <2>4. published.replaced[answer.version + 1] \in Nat
      BY <2>1, <2>3
    <2> QED
      BY <2>1, <2>2, <2>4 DEF Current
  <1> QED
    BY <1>1 DEF GitHubIInv, RequestsSpared, RunsRemember, GitHub!AnswersFresh

\* While GitHub is asked, the invariant holds.
GitHubInv == part = "github" => GitHubIInv

LEMMA GitHubInvariant == Spec => []GitHubInv
  <1>1. Init => GitHubInv
    BY ReadingAssumption, GitHubInit DEF Init, GitHubInv
  <1>2. GitHubInv /\ [Next]_readingVars => GitHubInv'
    <2> SUFFICES ASSUME GitHubInv, [Next]_readingVars, part' = "github" PROVE GitHubIInv'
      BY DEF GitHubInv
    <2>1. part = "github" /\ [GitHub!Next]_(GitHub!gitHubVars)
      BY DEF Next, SourceNext, ExternalNext, GitHubNext, SecretsNext, readingVars, gitHubVars, GitHub!gitHubVars
    <2> QED
      BY <2>1, GitHubStep DEF GitHubInv
  <1> QED
    BY <1>1, <1>2, PTL DEF Spec

\* Whatever GitHub publishes, however runs and requests end, and whatever the
\* goroutines of a run do at the same time: no answer is older than the refresh
\* period but one that the run already gave; what a run finds in its state is not
\* requested again within the period, counted from the oldest answer that can be
\* on record; and what a run has asked for it asks for again only after another
\* goroutine asked for something of that kind (githubtemplatefuncs.go).
THEOREM AnswersStayFresh == Spec => []AnswersFresh
  <1>1. GitHubInv => AnswersFresh
    BY GitHubFresh DEF GitHubInv, AnswersFresh
  <1> QED
    BY <1>1, GitHubInvariant, PTL

LEMMA GitHubTypeOK == ASSUME GitHubIInv PROVE GitHub!TypeOK
  <1>1. \A g \in Goroutines : asking[g].at <= now
    <2>1. now \in Nat /\ \A g \in Goroutines : asking[g].place \in Stages /\ asking[g].at \in Int
      BY DEF GitHubIInv, AnswersDated, GitHubTyped, Asked
    <2> QED
      BY <2>1 DEF GitHubIInv, AnswersDated, GitHubAsking, Stages
  <1> QED
    BY <1>1 DEF GitHubIInv, AnswersDated, GitHubTyped, GitHub!TypeOK

(***************************************************************************)
(* The externals. A file of the cache bears the time before its request,   *)
(* or when it was written, and holds what was served at the request or     *)
(* later: that is CacheServed, which needs what is known of a request      *)
(* under way (AsksInTime, AnswerServed).                                   *)
(***************************************************************************)

\* The URL has served the data since the time, or does now.
ServedSince(u, d, t) ==
    \/ served[u] = d
    \/ \E i \in DOMAIN history[u] : history[u][i].data = d /\ history[u][i].till >= t

\* What was requested is in the cache, or what was written over it later.
RequestsCached == \A r \in requests : r.url \in DOMAIN cache /\ r.at <= cache[r.url].mtime

\* A file of the cache holds what was served since it was asked for.
CacheServed ==
    \A u \in DOMAIN cache : ServedSince(u, cache[u].data, cache[u].mtime - cache[u].late)

\* A request is made when there is no other within the period.
AsksInTime ==
    job.at \in {"asking", "write", "chtimes"} =>
        /\ Ext!Url \notin ext.local /\ job.asked \in Nat
        /\ \A r \in requests :
              /\ r.at <= job.asked
              /\ refresh = "auto" /\ r.url = Ext!Url => ext.period > 0 /\ r.at + ext.period <= job.asked

\* What is written to the cache was served after it was asked for.
AnswerServed ==
    /\ job.at \in {"write", "chtimes"} => job.data # Down /\ ServedSince(Ext!Url, job.data, job.asked)
    /\ job.at = "chtimes" => Ext!Url \in DOMAIN cache /\ cache[Ext!Url].data = job.data

\* What a run has got is in the cache, and young enough.
GotFromCache ==
    job.at = "got" /\ Ext!Url \notin ext.local =>
        /\ Ext!Url \in DOMAIN cache /\ cache[Ext!Url].data = job.data
        /\ refresh = "auto" /\ ext.period > 0 => cache[Ext!Url].mtime + ext.period > job.asked

\* Every URL before the present one has failed.
TriedBefore ==
    /\ job.at # "failed" => job.failed = job.url - 1
    /\ job.at = "failed" => job.failed = Len(ext.urls)

\* What is walked or used has the checksum.
CheckedBefore == job.at \in {"walk", "done"} => ext.checksum \in {Down, job.data}

XInv ==
    /\ Ext!TypeOK /\ RequestsCached /\ CacheServed /\ AsksInTime /\ AnswerServed /\ GotFromCache
    /\ TriedBefore /\ CheckedBefore

ExternalInv == part = "external" => XInv

LEMMA ExternalFacts == Ext!ExternalAssumption
  BY ReadingAssumption

\* The declaration of the external, and the URL that is tried.
ExternalFits ==
    /\ Len(ext.urls) \in Nat /\ Len(ext.urls) > 0 /\ DOMAIN ext.urls = 1 .. Len(ext.urls) /\ 1 \in DOMAIN ext.urls
    /\ Ext!Url \in Ext!Urls /\ job.url \in 1 .. Len(ext.urls)
    /\ ext.period \in Nat /\ ext.serves \subseteq Contents /\ Down \notin Contents
    /\ now \in Nat /\ (job.asked \in Nat \/ job.asked = -1)

LEMMA ExternalIsFit ==
    ASSUME Ext!TypeOK
    PROVE  ExternalFits
  <1>1. /\ ext.urls \in Seq(STRING) /\ ext.urls # <<>> /\ Down \notin Contents
        /\ ext.period \in Nat /\ ext.serves \subseteq Contents
    BY ExternalFacts DEF Ext!TypeOK, Ext!ExternalAssumption
  <1>2. Len(ext.urls) \in Nat /\ DOMAIN ext.urls = 1 .. Len(ext.urls) /\ Len(ext.urls) > 0
    BY <1>1
  <1>3. 1 \in DOMAIN ext.urls
    BY <1>2
  <1>4. job.url \in DOMAIN ext.urls /\ now \in Nat /\ job.asked \in Nat \cup {-1}
    BY DEF Ext!TypeOK
  <1>5. Ext!Url \in Ext!Urls
    BY <1>4 DEF Ext!Url, Ext!Urls
  <1> QED
    BY <1>1, <1>2, <1>3, <1>4, <1>5 DEF ExternalFits

LEMMA ExternalInit == Ext!Init => XInv
  <1> SUFFICES ASSUME Ext!Init PROVE XInv
    OBVIOUS
  <1>1. /\ ext \in Externals /\ ext.urls \in Seq(STRING) /\ ext.urls # <<>> /\ ext.serves \subseteq Contents
        /\ MaxTime \in Nat /\ MaxRuns \in Nat /\ MaxChanges \in Nat
    BY ExternalFacts DEF Ext!Init, Ext!ExternalAssumption
  <1>2. now \in Nat /\ run \in Nat /\ changes \in Nat
    BY <1>1 DEF Ext!Init, Ext!Bound
  <1>3. 1 \in DOMAIN ext.urls
    BY <1>1
  <1>4. job = [at |-> "idle", url |-> 1, asked |-> -1, data |-> Down, failed |-> 0]
    BY DEF Ext!Init, Ext!Idle
  <1>5. served \in [Ext!Urls -> Ext!Data]
    BY <1>1 DEF Ext!Init, Ext!Data
  <1>6. history \in [Ext!Urls -> Seq(Ext!Past)]
    BY DEF Ext!Init
  <1>7. job \in [at : Ext!Places, url : DOMAIN ext.urls, asked : Nat \cup {-1}, data : Ext!Data, failed : Nat]
    BY <1>3, <1>4 DEF Ext!Places, Ext!Data
  <1>8. refresh \in {"auto", "always", "never"} /\ job.asked <= now
    BY <1>2, <1>4 DEF Ext!Init
  <1>9. requests = {} /\ DOMAIN cache = {}
    BY DEF Ext!Init
  <1>10. Ext!TypeOK
    BY <1>1, <1>2, <1>5, <1>6, <1>7, <1>8, <1>9 DEF Ext!TypeOK
  <1>11. RequestsCached /\ CacheServed /\ AsksInTime /\ AnswerServed /\ GotFromCache /\ TriedBefore /\ CheckedBefore
    BY <1>4, <1>9 DEF RequestsCached, CacheServed, AsksInTime, AnswerServed, GotFromCache, TriedBefore,
       CheckedBefore
  <1> QED
    BY <1>10, <1>11 DEF XInv

LEMMA StartExternal ==
    ASSUME XInv, Ext!Start
    PROVE  XInv'
  <1>0. ExternalFits /\ Ext!TypeOK
    BY ExternalIsFit DEF XInv
  <1>1. Ext!TypeOK'
    BY <1>0 DEF ExternalFits, XInv, Ext!TypeOK, Ext!Start, Ext!Urls, Ext!Places, Ext!runVars,
       Ext!worldVars, Ext!walkVars, Ext!Idle
  <1>2. RequestsCached'
    BY <1>0 DEF ExternalFits, XInv, Ext!TypeOK, Ext!Start, RequestsCached, Ext!runVars, Ext!worldVars,
       Ext!walkVars, Ext!Idle
  <1>3. CacheServed'
    BY <1>0 DEF ExternalFits, XInv, Ext!TypeOK, Ext!Start, CacheServed, ServedSince, Ext!runVars,
       Ext!worldVars, Ext!walkVars, Ext!Idle
  <1>4. AsksInTime'
    BY <1>0 DEF ExternalFits, XInv, Ext!TypeOK, Ext!Start, AsksInTime, Ext!Url, Ext!runVars,
       Ext!worldVars, Ext!walkVars, Ext!Idle
  <1>5. AnswerServed'
    BY <1>0 DEF ExternalFits, XInv, Ext!TypeOK, Ext!Start, AnswerServed, ServedSince, Ext!Url,
       Ext!runVars, Ext!worldVars, Ext!walkVars, Ext!Idle
  <1>6. GotFromCache'
    BY <1>0 DEF ExternalFits, XInv, Ext!TypeOK, Ext!Start, GotFromCache, Ext!Url, Ext!runVars,
       Ext!worldVars, Ext!walkVars, Ext!Idle
  <1>7. TriedBefore'
    BY <1>0 DEF ExternalFits, XInv, Ext!TypeOK, Ext!Start, TriedBefore, Ext!runVars, Ext!worldVars,
       Ext!walkVars, Ext!Idle
  <1>8. CheckedBefore'
    BY <1>0 DEF ExternalFits, XInv, Ext!TypeOK, Ext!Start, CheckedBefore, Ext!runVars, Ext!worldVars,
       Ext!walkVars, Ext!Idle
  <1> QED
    BY <1>1, <1>2, <1>3, <1>4, <1>5, <1>6, <1>7, <1>8 DEF XInv

LEMMA ReadLocalExternal ==
    ASSUME XInv, Ext!ReadLocal
    PROVE  XInv'
  <1>0. ExternalFits /\ Ext!TypeOK
    BY ExternalIsFit DEF XInv
  <1>1. Ext!TypeOK'
    <2>1. job' \in [at : Ext!Places, url : DOMAIN ext.urls, asked : Nat \cup {-1}, data : Ext!Data, failed : Nat]
      BY <1>0 DEF ExternalFits, Ext!TypeOK, Ext!ReadLocal, Ext!Places, Ext!Data
    <2>2. job'.asked <= now
      BY <1>0 DEF ExternalFits, Ext!TypeOK, Ext!ReadLocal, Ext!Data
    <2> QED
      BY <1>0, <2>1, <2>2 DEF Ext!TypeOK, Ext!ReadLocal, Ext!runVars, Ext!worldVars, Ext!walkVars, Ext!Urls
  <1>2. RequestsCached'
    BY <1>0 DEF ExternalFits, XInv, Ext!TypeOK, Ext!ReadLocal, RequestsCached, Ext!runVars,
       Ext!worldVars, Ext!walkVars
  <1>3. CacheServed'
    BY <1>0 DEF ExternalFits, XInv, Ext!TypeOK, Ext!ReadLocal, CacheServed, ServedSince, Ext!runVars,
       Ext!worldVars, Ext!walkVars
  <1>4. AsksInTime'
    BY <1>0 DEF ExternalFits, XInv, Ext!TypeOK, Ext!ReadLocal, AsksInTime, Ext!Url, Ext!runVars,
       Ext!worldVars, Ext!walkVars
  <1>5. AnswerServed'
    BY <1>0 DEF ExternalFits, XInv, Ext!TypeOK, Ext!ReadLocal, AnswerServed, ServedSince, Ext!Url,
       Ext!runVars, Ext!worldVars, Ext!walkVars
  <1>6. GotFromCache'
    BY <1>0 DEF ExternalFits, XInv, Ext!TypeOK, Ext!ReadLocal, GotFromCache, Ext!Url, Ext!runVars,
       Ext!worldVars, Ext!walkVars
  <1>7. TriedBefore'
    BY <1>0 DEF ExternalFits, XInv, Ext!TypeOK, Ext!ReadLocal, TriedBefore, Ext!runVars, Ext!worldVars,
       Ext!walkVars
  <1>8. CheckedBefore'
    BY <1>0 DEF ExternalFits, XInv, Ext!TypeOK, Ext!ReadLocal, CheckedBefore, Ext!runVars, Ext!worldVars,
       Ext!walkVars
  <1> QED
    BY <1>1, <1>2, <1>3, <1>4, <1>5, <1>6, <1>7, <1>8 DEF XInv

LEMMA FromCacheExternal ==
    ASSUME XInv, Ext!FromCache
    PROVE  XInv'
  <1>0. ExternalFits /\ Ext!TypeOK
    BY ExternalIsFit DEF XInv
  <1>1. Ext!TypeOK'
    <2>1. job' \in [at : Ext!Places, url : DOMAIN ext.urls, asked : Nat \cup {-1}, data : Ext!Data, failed : Nat]
      BY <1>0 DEF ExternalFits, Ext!TypeOK, Ext!FromCache, Ext!Places, Ext!Data, Ext!Usable
    <2>2. job'.asked <= now
      BY <1>0 DEF ExternalFits, Ext!TypeOK, Ext!FromCache, Ext!Data, Ext!Usable
    <2> QED
      BY <1>0, <2>1, <2>2 DEF Ext!TypeOK, Ext!FromCache, Ext!runVars, Ext!worldVars, Ext!walkVars, Ext!Urls
  <1>2. RequestsCached'
    BY <1>0 DEF ExternalFits, XInv, Ext!TypeOK, Ext!FromCache, RequestsCached, Ext!runVars,
       Ext!worldVars, Ext!walkVars, Ext!Usable
  <1>3. CacheServed'
    BY <1>0 DEF ExternalFits, XInv, Ext!TypeOK, Ext!FromCache, CacheServed, ServedSince, Ext!runVars,
       Ext!worldVars, Ext!walkVars, Ext!Usable
  <1>4. AsksInTime'
    BY <1>0 DEF ExternalFits, XInv, Ext!TypeOK, Ext!FromCache, AsksInTime, Ext!Url, Ext!runVars,
       Ext!worldVars, Ext!walkVars, Ext!Usable
  <1>5. AnswerServed'
    BY <1>0 DEF ExternalFits, XInv, Ext!TypeOK, Ext!FromCache, AnswerServed, ServedSince, Ext!Url,
       Ext!runVars, Ext!worldVars, Ext!walkVars, Ext!Usable
  <1>6. GotFromCache'
    BY <1>0 DEF ExternalFits, XInv, Ext!TypeOK, Ext!FromCache, GotFromCache, Ext!Url, Ext!runVars,
       Ext!worldVars, Ext!walkVars, Ext!Usable
  <1>7. TriedBefore'
    BY <1>0 DEF ExternalFits, XInv, Ext!TypeOK, Ext!FromCache, TriedBefore, Ext!runVars, Ext!worldVars,
       Ext!walkVars, Ext!Usable
  <1>8. CheckedBefore'
    BY <1>0 DEF ExternalFits, XInv, Ext!TypeOK, Ext!FromCache, CheckedBefore, Ext!runVars, Ext!worldVars,
       Ext!walkVars, Ext!Usable
  <1> QED
    BY <1>1, <1>2, <1>3, <1>4, <1>5, <1>6, <1>7, <1>8 DEF XInv

LEMMA AskExternal ==
    ASSUME XInv, Ext!Ask
    PROVE  XInv'
  <1>0. ExternalFits /\ Ext!TypeOK
    BY ExternalIsFit DEF XInv
  <1>a. ASSUME refresh = "auto", NEW r \in requests, r.url = Ext!Url
        PROVE  ext.period > 0 /\ r.at + ext.period <= now
    <2>1. r.url \in DOMAIN cache /\ r.at <= cache[r.url].mtime /\ r.at \in Nat /\ cache[r.url].mtime \in Nat
      BY <1>0, <1>a DEF XInv, RequestsCached, Ext!TypeOK
    <2>2. ~(ext.period = 0 \/ cache[r.url].mtime + ext.period > now)
      BY <1>a, <2>1 DEF Ext!Ask, Ext!Usable
    <2> QED
      BY <1>0, <2>1, <2>2 DEF ExternalFits
  <1>b. \A r \in requests : r.at <= now /\ r.at \in Nat
    <2>1. SUFFICES ASSUME NEW r \in requests PROVE r.at <= now /\ r.at \in Nat
      OBVIOUS
    <2>2. r.url \in DOMAIN cache /\ r.at <= cache[r.url].mtime /\ r.at \in Nat /\ cache[r.url].mtime \in Nat /\ cache[r.url].mtime <= now
      BY <1>0, <2>1 DEF XInv, RequestsCached, Ext!TypeOK
    <2> QED
      BY <1>0, <2>2 DEF ExternalFits
  <1>1. Ext!TypeOK'
    <2>1. job' \in [at : Ext!Places, url : DOMAIN ext.urls, asked : Nat \cup {-1}, data : Ext!Data, failed : Nat]
      BY <1>0 DEF ExternalFits, Ext!TypeOK, Ext!Ask, Ext!Places
    <2>2. job'.asked <= now
      BY <1>0 DEF ExternalFits, Ext!TypeOK, Ext!Ask
    <2> QED
      BY <1>0, <2>1, <2>2 DEF Ext!TypeOK, Ext!Ask, Ext!runVars, Ext!worldVars, Ext!walkVars, Ext!Urls
  <1>2. RequestsCached'
    BY <1>0 DEF ExternalFits, XInv, Ext!TypeOK, Ext!Ask, RequestsCached, Ext!runVars, Ext!worldVars,
       Ext!walkVars, Ext!Usable
  <1>3. CacheServed'
    BY <1>0 DEF ExternalFits, XInv, Ext!TypeOK, Ext!Ask, CacheServed, ServedSince, Ext!runVars,
       Ext!worldVars, Ext!walkVars, Ext!Usable
  <1>4. AsksInTime'
    <2>1. /\ job'.asked = now /\ job'.at = "asking" /\ job'.url = job.url /\ Ext!Url \notin ext.local
          /\ UNCHANGED <<ext, refresh, requests>>
      BY <1>0 DEF Ext!Ask, Ext!runVars, Ext!TypeOK
    <2>2. Ext!Url' = Ext!Url
      BY <2>1 DEF Ext!Url
    <2> QED
      BY <1>0, <1>a, <1>b, <2>1, <2>2 DEF ExternalFits, AsksInTime
  <1>5. AnswerServed'
    BY <1>0 DEF ExternalFits, XInv, Ext!TypeOK, Ext!Ask, AnswerServed, ServedSince, Ext!Url, Ext!runVars,
       Ext!worldVars, Ext!walkVars, Ext!Usable
  <1>6. GotFromCache'
    BY <1>0 DEF ExternalFits, XInv, Ext!TypeOK, Ext!Ask, GotFromCache, Ext!Url, Ext!runVars,
       Ext!worldVars, Ext!walkVars, Ext!Usable
  <1>7. TriedBefore'
    BY <1>0 DEF ExternalFits, XInv, Ext!TypeOK, Ext!Ask, TriedBefore, Ext!runVars, Ext!worldVars,
       Ext!walkVars, Ext!Usable
  <1>8. CheckedBefore'
    BY <1>0 DEF ExternalFits, XInv, Ext!TypeOK, Ext!Ask, CheckedBefore, Ext!runVars, Ext!worldVars,
       Ext!walkVars, Ext!Usable
  <1> QED
    BY <1>1, <1>2, <1>3, <1>4, <1>5, <1>6, <1>7, <1>8 DEF XInv

LEMMA AskFailsExternal ==
    ASSUME XInv, Ext!AskFails
    PROVE  XInv'
  <1>0. ExternalFits /\ Ext!TypeOK
    BY ExternalIsFit DEF XInv
  <1>1. Ext!TypeOK'
    <2>1. job.url \in DOMAIN ext.urls /\ job.failed + 1 \in Nat
      BY <1>0 DEF Ext!TypeOK
    <2>2. job.url < Len(ext.urls) => job.url + 1 \in DOMAIN ext.urls
      BY <1>0, <2>1 DEF ExternalFits
    <2>3. job' \in [at : Ext!Places, url : DOMAIN ext.urls, asked : Nat \cup {-1}, data : Ext!Data, failed : Nat]
      BY <1>0, <2>1, <2>2 DEF Ext!TypeOK, Ext!AskFails, Ext!Fails, Ext!Places
    <2>4. job'.asked <= now
      BY <1>0 DEF Ext!TypeOK, Ext!AskFails
    <2> QED
      BY <1>0, <2>3, <2>4 DEF Ext!TypeOK, Ext!AskFails, Ext!Fails, Ext!runVars, Ext!worldVars, Ext!walkVars, Ext!Urls
  <1>2. RequestsCached'
    BY <1>0 DEF ExternalFits, XInv, Ext!TypeOK, Ext!AskFails, Ext!Fails, RequestsCached, Ext!runVars, Ext!worldVars,
       Ext!walkVars
  <1>3. CacheServed'
    BY <1>0 DEF ExternalFits, XInv, Ext!TypeOK, Ext!AskFails, Ext!Fails, CacheServed, ServedSince, Ext!runVars,
       Ext!worldVars, Ext!walkVars
  <1>4. AsksInTime'
    BY <1>0 DEF ExternalFits, XInv, Ext!TypeOK, Ext!AskFails, Ext!Fails, AsksInTime, Ext!Url, Ext!runVars,
       Ext!worldVars, Ext!walkVars
  <1>5. AnswerServed'
    BY <1>0 DEF ExternalFits, XInv, Ext!TypeOK, Ext!AskFails, Ext!Fails, AnswerServed, ServedSince, Ext!Url,
       Ext!runVars, Ext!worldVars, Ext!walkVars
  <1>6. GotFromCache'
    BY <1>0 DEF ExternalFits, XInv, Ext!TypeOK, Ext!AskFails, Ext!Fails, GotFromCache, Ext!Url, Ext!runVars,
       Ext!worldVars, Ext!walkVars
  <1>7. TriedBefore'
    BY <1>0 DEF ExternalFits, XInv, Ext!TypeOK, Ext!AskFails, Ext!Fails, TriedBefore, Ext!runVars, Ext!worldVars,
       Ext!walkVars
  <1>8. CheckedBefore'
    BY <1>0 DEF ExternalFits, XInv, Ext!TypeOK, Ext!AskFails, Ext!Fails, CheckedBefore, Ext!runVars, Ext!worldVars,
       Ext!walkVars
  <1> QED
    BY <1>1, <1>2, <1>3, <1>4, <1>5, <1>6, <1>7, <1>8 DEF XInv

LEMMA AnsweredExternal ==
    ASSUME XInv, Ext!Answered
    PROVE  XInv'
  <1>0. ExternalFits /\ Ext!TypeOK
    BY ExternalIsFit DEF XInv
  <1>1. Ext!TypeOK'
    <2>1. job' \in [at : Ext!Places, url : DOMAIN ext.urls, asked : Nat \cup {-1}, data : Ext!Data, failed : Nat]
      BY <1>0 DEF ExternalFits, Ext!TypeOK, Ext!Answered, Ext!Places
    <2>2. job'.asked <= now
      BY <1>0 DEF ExternalFits, Ext!TypeOK, Ext!Answered
    <2> QED
      BY <1>0, <2>1, <2>2 DEF Ext!TypeOK, Ext!Answered, Ext!runVars, Ext!worldVars, Ext!walkVars, Ext!Urls
  <1>2. RequestsCached'
    BY <1>0 DEF ExternalFits, XInv, Ext!TypeOK, Ext!Answered, RequestsCached, Ext!runVars, Ext!worldVars,
       Ext!walkVars
  <1>3. CacheServed'
    BY <1>0 DEF ExternalFits, XInv, Ext!TypeOK, Ext!Answered, CacheServed, ServedSince, Ext!runVars,
       Ext!worldVars, Ext!walkVars
  <1>4. AsksInTime'
    BY <1>0 DEF ExternalFits, XInv, Ext!TypeOK, Ext!Answered, AsksInTime, Ext!Url, Ext!runVars,
       Ext!worldVars, Ext!walkVars
  <1>5. AnswerServed'
    BY <1>0 DEF ExternalFits, XInv, Ext!TypeOK, Ext!Answered, AnswerServed, ServedSince, Ext!Url,
       Ext!runVars, Ext!worldVars, Ext!walkVars
  <1>6. GotFromCache'
    BY <1>0 DEF ExternalFits, XInv, Ext!TypeOK, Ext!Answered, GotFromCache, Ext!Url, Ext!runVars,
       Ext!worldVars, Ext!walkVars
  <1>7. TriedBefore'
    BY <1>0 DEF ExternalFits, XInv, Ext!TypeOK, Ext!Answered, TriedBefore, Ext!runVars, Ext!worldVars,
       Ext!walkVars
  <1>8. CheckedBefore'
    BY <1>0 DEF ExternalFits, XInv, Ext!TypeOK, Ext!Answered, CheckedBefore, Ext!runVars, Ext!worldVars,
       Ext!walkVars
  <1> QED
    BY <1>1, <1>2, <1>3, <1>4, <1>5, <1>6, <1>7, <1>8 DEF XInv

LEMMA WriteCacheExternal ==
    ASSUME XInv, Ext!WriteCache
    PROVE  XInv'
  <1>0. ExternalFits /\ Ext!TypeOK
    BY ExternalIsFit DEF XInv
  <1>a. /\ job' = [job EXCEPT !.at = "chtimes"] /\ job.at = "write"
        /\ cache' = [u \in DOMAIN cache \cup {Ext!Url} |->
                        IF u = Ext!Url THEN [data |-> job.data, mtime |-> now, late |-> now - job.asked] ELSE cache[u]]
        /\ UNCHANGED <<ext, refresh, run, served, history, changes, now, requests>>
    BY DEF Ext!WriteCache, Ext!runVars, Ext!worldVars
  <1>b. Ext!Url' = Ext!Url /\ job'.asked = job.asked /\ job'.at = "chtimes"
    BY <1>0, <1>a DEF Ext!Url, Ext!TypeOK
  <1>c. job.data \in Contents /\ job.asked \in Nat /\ job.asked <= now
    BY <1>0, <1>a DEF XInv, AnswerServed, AsksInTime, Ext!TypeOK, Ext!Data
  <1>d. now - job.asked \in Nat /\ now - job.asked <= now /\ now - (now - job.asked) = job.asked
    BY <1>0, <1>c DEF ExternalFits
  <1>1. Ext!TypeOK'
    <2>1. job' \in [at : Ext!Places, url : DOMAIN ext.urls, asked : Nat \cup {-1}, data : Ext!Data, failed : Nat]
      BY <1>0 DEF ExternalFits, Ext!TypeOK, Ext!WriteCache, Ext!Places
    <2>2. job'.asked <= now
      BY <1>0 DEF ExternalFits, Ext!TypeOK, Ext!WriteCache
    <2>3. DOMAIN cache' \subseteq Ext!Urls
      BY <1>0, <1>a DEF ExternalFits, Ext!TypeOK
    <2>4. /\ \A u \in DOMAIN cache' : cache'[u] \in [data : Contents, mtime : Nat, late : Nat]
          /\ \A u \in DOMAIN cache' : cache'[u].late <= cache'[u].mtime /\ cache'[u].mtime <= now
      BY <1>0, <1>a, <1>c, <1>d DEF ExternalFits, Ext!TypeOK
    <2>5. UNCHANGED <<ext, refresh, run, served, history, changes, now, requests>>
      BY <1>a
    <2> QED
      BY <1>0, <2>1, <2>2, <2>3, <2>4, <2>5 DEF Ext!TypeOK, Ext!Urls
  <1>2. RequestsCached'
    BY <1>0 DEF ExternalFits, XInv, Ext!TypeOK, Ext!WriteCache, RequestsCached, Ext!runVars,
       Ext!worldVars, Ext!walkVars
  <1>3. CacheServed'
    <2>1. SUFFICES ASSUME NEW u \in DOMAIN cache'
                   PROVE  ServedSince(u, cache'[u].data, cache'[u].mtime - cache'[u].late)
      BY <1>a DEF CacheServed, ServedSince
    <2>2. CASE u # Ext!Url
      BY <1>a, <2>1, <2>2 DEF XInv, CacheServed
    <2>3. CASE u = Ext!Url
      <3>1. cache'[u].data = job.data /\ cache'[u].mtime - cache'[u].late = job.asked
        BY <1>a, <1>d, <2>3
      <3> QED
        BY <1>a, <2>3, <3>1 DEF XInv, AnswerServed
    <2> QED
      BY <2>2, <2>3
  <1>4. AsksInTime'
    BY <1>0 DEF ExternalFits, XInv, Ext!TypeOK, Ext!WriteCache, AsksInTime, Ext!Url, Ext!runVars,
       Ext!worldVars, Ext!walkVars
  <1>5. AnswerServed'
    BY <1>0 DEF ExternalFits, XInv, Ext!TypeOK, Ext!WriteCache, AnswerServed, ServedSince, Ext!Url,
       Ext!runVars, Ext!worldVars, Ext!walkVars
  <1>6. GotFromCache'
    BY <1>0 DEF ExternalFits, XInv, Ext!TypeOK, Ext!WriteCache, GotFromCache, Ext!Url, Ext!runVars,
       Ext!worldVars, Ext!walkVars
  <1>7. TriedBefore'
    BY <1>0 DEF ExternalFits, XInv, Ext!TypeOK, Ext!WriteCache, TriedBefore, Ext!runVars, Ext!worldVars,
       Ext!walkVars
  <1>8. CheckedBefore'
    BY <1>0 DEF ExternalFits, XInv, Ext!TypeOK, Ext!WriteCache, CheckedBefore, Ext!runVars,
       Ext!worldVars, Ext!walkVars
  <1> QED
    BY <1>1, <1>2, <1>3, <1>4, <1>5, <1>6, <1>7, <1>8 DEF XInv

LEMMA ChtimesExternal ==
    ASSUME XInv, Ext!Chtimes
    PROVE  XInv'
  <1>0. ExternalFits /\ Ext!TypeOK
    BY ExternalIsFit DEF XInv
  <1>a. /\ job.at = "chtimes" /\ job' = [job EXCEPT !.at = "got"] /\ cache' = [cache EXCEPT ![Ext!Url].mtime = job.asked, ![Ext!Url].late = 0]
        /\ requests' = requests \cup {[url |-> Ext!Url, at |-> job.asked, run |-> run]}
        /\ UNCHANGED <<ext, refresh, run, served, history, changes, now>>
    BY DEF Ext!Chtimes, Ext!runVars, Ext!worldVars
  <1>b. Ext!Url' = Ext!Url /\ job'.asked = job.asked /\ job'.at = "got" /\ job'.data = job.data
    BY <1>0, <1>a DEF Ext!Url, Ext!TypeOK
  <1>c. /\ Ext!Url \notin ext.local /\ job.asked \in Nat /\ job.asked <= now /\ \A r \in requests : r.at <= job.asked
        /\ ServedSince(Ext!Url, job.data, job.asked)
        /\ Ext!Url \in DOMAIN cache /\ cache[Ext!Url].data = job.data
    BY <1>0, <1>a DEF XInv, AsksInTime, AnswerServed, Ext!TypeOK
  <1>e. /\ [data |-> job.data, mtime |-> job.asked, late |-> 0] \in [data : Contents, mtime : Nat, late : Nat]
        /\ 0 <= job.asked /\ job.asked - 0 = job.asked
    BY <1>0, <1>c DEF Ext!TypeOK
  <1>d. /\ DOMAIN cache' = DOMAIN cache
        /\ cache'[Ext!Url] = [data |-> job.data, mtime |-> job.asked, late |-> 0]
        /\ \A u \in DOMAIN cache : u # Ext!Url => cache'[u] = cache[u]
    BY <1>0, <1>a, <1>c DEF Ext!TypeOK
  <1>1. Ext!TypeOK'
    <2>1. job' \in [at : Ext!Places, url : DOMAIN ext.urls, asked : Nat \cup {-1}, data : Ext!Data, failed : Nat]
      BY <1>0 DEF ExternalFits, Ext!TypeOK, Ext!Chtimes, Ext!Places
    <2>2. job'.asked <= now
      BY <1>0 DEF ExternalFits, Ext!TypeOK, Ext!Chtimes
    <2>3. \A u \in DOMAIN cache' : /\ cache'[u] \in [data : Contents, mtime : Nat, late : Nat]
                                   /\ cache'[u].late <= cache'[u].mtime /\ cache'[u].mtime <= now
      <3>1. SUFFICES ASSUME NEW u \in DOMAIN cache
                     PROVE  /\ cache'[u] \in [data : Contents, mtime : Nat, late : Nat]
                            /\ cache'[u].late <= cache'[u].mtime /\ cache'[u].mtime <= now
        BY <1>d
      <3>2. CASE u = Ext!Url
        BY <1>c, <1>d, <1>e, <3>2
      <3>3. CASE u # Ext!Url
        BY <1>0, <1>d, <3>3 DEF Ext!TypeOK
      <3> QED
        BY <3>2, <3>3
    <2>4. requests' \subseteq [url : Ext!Urls, at : Nat, run : Nat]
      BY <1>0, <1>a, <1>c DEF ExternalFits, Ext!TypeOK
    <2>5. DOMAIN cache' \subseteq Ext!Urls
      BY <1>0, <1>d DEF Ext!TypeOK
    <2>6. UNCHANGED <<ext, refresh, run, served, history, changes, now>>
      BY <1>a
    <2> QED
      BY <1>0, <2>1, <2>2, <2>3, <2>4, <2>5, <2>6 DEF Ext!TypeOK, Ext!Urls
  <1>2. RequestsCached'
    <2>1. SUFFICES ASSUME NEW r \in requests' PROVE r.url \in DOMAIN cache' /\ r.at <= cache'[r.url].mtime
      BY DEF RequestsCached
    <2>2. CASE r \in requests
      BY <1>c, <1>d, <2>2 DEF XInv, RequestsCached
    <2>3. CASE r = [url |-> Ext!Url, at |-> job.asked, run |-> run]
      BY <1>c, <1>d, <2>3
    <2> QED
      BY <1>a, <2>2, <2>3
  <1>3. CacheServed'
    <2>1. SUFFICES ASSUME NEW u \in DOMAIN cache
                   PROVE  ServedSince(u, cache'[u].data, cache'[u].mtime - cache'[u].late)
      BY <1>a, <1>d DEF CacheServed, ServedSince
    <2>2. CASE u = Ext!Url
      BY <1>c, <1>d, <1>e, <2>2
    <2>3. CASE u # Ext!Url
      BY <1>d, <2>3 DEF XInv, CacheServed
    <2> QED
      BY <2>2, <2>3
  <1>4. AsksInTime'
    BY <1>0 DEF ExternalFits, XInv, Ext!TypeOK, Ext!Chtimes, AsksInTime, Ext!Url, Ext!runVars,
       Ext!worldVars, Ext!walkVars
  <1>5. AnswerServed'
    BY <1>0 DEF ExternalFits, XInv, Ext!TypeOK, Ext!Chtimes, AnswerServed, ServedSince, Ext!Url,
       Ext!runVars, Ext!worldVars, Ext!walkVars
  <1>6. GotFromCache'
    <2>1. ext.period > 0 => job.asked + ext.period > job.asked
      BY <1>0, <1>c DEF ExternalFits
    <2> QED
      BY <1>a, <1>b, <1>c, <1>d, <2>1 DEF GotFromCache
  <1>7. TriedBefore'
    BY <1>0 DEF ExternalFits, XInv, Ext!TypeOK, Ext!Chtimes, TriedBefore, Ext!runVars, Ext!worldVars,
       Ext!walkVars
  <1>8. CheckedBefore'
    BY <1>0 DEF ExternalFits, XInv, Ext!TypeOK, Ext!Chtimes, CheckedBefore, Ext!runVars, Ext!worldVars,
       Ext!walkVars
  <1> QED
    BY <1>1, <1>2, <1>3, <1>4, <1>5, <1>6, <1>7, <1>8 DEF XInv

LEMMA VerifyExternal ==
    ASSUME XInv, Ext!Verify
    PROVE  XInv'
  <1>0. ExternalFits /\ Ext!TypeOK
    BY ExternalIsFit DEF XInv
  <1>1. Ext!TypeOK'
    <2>1. job' \in [at : Ext!Places, url : DOMAIN ext.urls, asked : Nat \cup {-1}, data : Ext!Data, failed : Nat]
      BY <1>0 DEF ExternalFits, Ext!TypeOK, Ext!Verify, Ext!Places
    <2>2. job'.asked <= now
      BY <1>0 DEF ExternalFits, Ext!TypeOK, Ext!Verify
    <2> QED
      BY <1>0, <2>1, <2>2 DEF Ext!TypeOK, Ext!Verify, Ext!runVars, Ext!worldVars, Ext!Urls
  <1>2. RequestsCached'
    BY <1>0 DEF ExternalFits, XInv, Ext!TypeOK, Ext!Verify, RequestsCached, Ext!runVars, Ext!worldVars
  <1>3. CacheServed'
    BY <1>0 DEF ExternalFits, XInv, Ext!TypeOK, Ext!Verify, CacheServed, ServedSince, Ext!runVars,
       Ext!worldVars
  <1>4. AsksInTime'
    BY <1>0 DEF ExternalFits, XInv, Ext!TypeOK, Ext!Verify, AsksInTime, Ext!Url, Ext!runVars, Ext!worldVars
  <1>5. AnswerServed'
    BY <1>0 DEF ExternalFits, XInv, Ext!TypeOK, Ext!Verify, AnswerServed, ServedSince, Ext!Url,
       Ext!runVars, Ext!worldVars
  <1>6. GotFromCache'
    BY <1>0 DEF ExternalFits, XInv, Ext!TypeOK, Ext!Verify, GotFromCache, Ext!Url, Ext!runVars,
       Ext!worldVars
  <1>7. TriedBefore'
    BY <1>0 DEF ExternalFits, XInv, Ext!TypeOK, Ext!Verify, TriedBefore, Ext!runVars, Ext!worldVars
  <1>8. CheckedBefore'
    BY <1>0 DEF ExternalFits, XInv, Ext!TypeOK, Ext!Verify, CheckedBefore, Ext!runVars, Ext!worldVars
  <1> QED
    BY <1>1, <1>2, <1>3, <1>4, <1>5, <1>6, <1>7, <1>8 DEF XInv

LEMMA NextHeaderExternal ==
    ASSUME XInv, Ext!NextHeader
    PROVE  XInv'
  <1>0. ExternalFits /\ Ext!TypeOK
    BY ExternalIsFit DEF XInv
  <1>a. job' \in {job, [job EXCEPT !.at = "done"], [job EXCEPT !.at = "rejected"]}
    BY DEF Ext!NextHeader
  <1>1. Ext!TypeOK'
    <2>1. job' \in [at : Ext!Places, url : DOMAIN ext.urls, asked : Nat \cup {-1}, data : Ext!Data, failed : Nat]
      BY <1>0, <1>a DEF ExternalFits, Ext!TypeOK, Ext!NextHeader, Ext!Places
    <2>2. job'.asked <= now
      BY <1>0, <1>a DEF ExternalFits, Ext!TypeOK, Ext!NextHeader
    <2> QED
      BY <1>0, <2>1, <2>2 DEF Ext!TypeOK, Ext!NextHeader, Ext!runVars, Ext!worldVars, Ext!Urls
  <1>2. RequestsCached'
    BY <1>0 DEF ExternalFits, XInv, Ext!TypeOK, Ext!NextHeader, RequestsCached, Ext!runVars, Ext!worldVars
  <1>3. CacheServed'
    BY <1>0 DEF ExternalFits, XInv, Ext!TypeOK, Ext!NextHeader, CacheServed, ServedSince, Ext!runVars,
       Ext!worldVars
  <1>4. AsksInTime'
    BY <1>0 DEF ExternalFits, XInv, Ext!TypeOK, Ext!NextHeader, AsksInTime, Ext!Url, Ext!runVars,
       Ext!worldVars
  <1>5. AnswerServed'
    BY <1>0 DEF ExternalFits, XInv, Ext!TypeOK, Ext!NextHeader, AnswerServed, ServedSince, Ext!Url,
       Ext!runVars, Ext!worldVars
  <1>6. GotFromCache'
    BY <1>0 DEF ExternalFits, XInv, Ext!TypeOK, Ext!NextHeader, GotFromCache, Ext!Url, Ext!runVars,
       Ext!worldVars
  <1>7. TriedBefore'
    BY <1>0 DEF ExternalFits, XInv, Ext!TypeOK, Ext!NextHeader, TriedBefore, Ext!runVars, Ext!worldVars
  <1>8. CheckedBefore'
    BY <1>0 DEF ExternalFits, XInv, Ext!TypeOK, Ext!NextHeader, CheckedBefore, Ext!runVars, Ext!worldVars
  <1> QED
    BY <1>1, <1>2, <1>3, <1>4, <1>5, <1>6, <1>7, <1>8 DEF XInv

LEMMA ArchiveEndsExternal ==
    ASSUME XInv, Ext!ArchiveEnds
    PROVE  XInv'
  <1>0. ExternalFits /\ Ext!TypeOK
    BY ExternalIsFit DEF XInv
  <1>1. Ext!TypeOK'
    <2>1. job' \in [at : Ext!Places, url : DOMAIN ext.urls, asked : Nat \cup {-1}, data : Ext!Data, failed : Nat]
      BY <1>0 DEF ExternalFits, Ext!TypeOK, Ext!ArchiveEnds, Ext!Places
    <2>2. job'.asked <= now
      BY <1>0 DEF ExternalFits, Ext!TypeOK, Ext!ArchiveEnds
    <2> QED
      BY <1>0, <2>1, <2>2 DEF Ext!TypeOK, Ext!ArchiveEnds, Ext!runVars, Ext!worldVars, Ext!walkVars,
         Ext!Urls
  <1>2. RequestsCached'
    BY <1>0 DEF ExternalFits, XInv, Ext!TypeOK, Ext!ArchiveEnds, RequestsCached, Ext!runVars,
       Ext!worldVars, Ext!walkVars
  <1>3. CacheServed'
    BY <1>0 DEF ExternalFits, XInv, Ext!TypeOK, Ext!ArchiveEnds, CacheServed, ServedSince, Ext!runVars,
       Ext!worldVars, Ext!walkVars
  <1>4. AsksInTime'
    BY <1>0 DEF ExternalFits, XInv, Ext!TypeOK, Ext!ArchiveEnds, AsksInTime, Ext!Url, Ext!runVars,
       Ext!worldVars, Ext!walkVars
  <1>5. AnswerServed'
    BY <1>0 DEF ExternalFits, XInv, Ext!TypeOK, Ext!ArchiveEnds, AnswerServed, ServedSince, Ext!Url,
       Ext!runVars, Ext!worldVars, Ext!walkVars
  <1>6. GotFromCache'
    BY <1>0 DEF ExternalFits, XInv, Ext!TypeOK, Ext!ArchiveEnds, GotFromCache, Ext!Url, Ext!runVars,
       Ext!worldVars, Ext!walkVars
  <1>7. TriedBefore'
    BY <1>0 DEF ExternalFits, XInv, Ext!TypeOK, Ext!ArchiveEnds, TriedBefore, Ext!runVars, Ext!worldVars,
       Ext!walkVars
  <1>8. CheckedBefore'
    BY <1>0 DEF ExternalFits, XInv, Ext!TypeOK, Ext!ArchiveEnds, CheckedBefore, Ext!runVars,
       Ext!worldVars, Ext!walkVars
  <1> QED
    BY <1>1, <1>2, <1>3, <1>4, <1>5, <1>6, <1>7, <1>8 DEF XInv

LEMMA RerunExternal ==
    ASSUME XInv, Ext!Rerun
    PROVE  XInv'
  <1>0. ExternalFits /\ Ext!TypeOK
    BY ExternalIsFit DEF XInv
  <1>1. Ext!TypeOK'
    <2>1. job' \in [at : Ext!Places, url : DOMAIN ext.urls, asked : Nat \cup {-1}, data : Ext!Data, failed : Nat]
      BY <1>0 DEF ExternalFits, Ext!TypeOK, Ext!Rerun, Ext!Places, Ext!Idle, Ext!Data
    <2>2. job'.asked <= now
      BY <1>0 DEF ExternalFits, Ext!TypeOK, Ext!Rerun, Ext!Idle, Ext!Data
    <2> QED
      BY <1>0, <2>1, <2>2 DEF Ext!TypeOK, Ext!Rerun, Ext!worldVars, Ext!Urls
  <1>2. RequestsCached'
    BY <1>0 DEF ExternalFits, XInv, Ext!TypeOK, Ext!Rerun, RequestsCached, Ext!worldVars, Ext!Idle
  <1>3. CacheServed'
    BY <1>0 DEF ExternalFits, XInv, Ext!TypeOK, Ext!Rerun, CacheServed, ServedSince, Ext!worldVars, Ext!Idle
  <1>4. AsksInTime'
    BY <1>0 DEF ExternalFits, XInv, Ext!TypeOK, Ext!Rerun, AsksInTime, Ext!Url, Ext!worldVars, Ext!Idle
  <1>5. AnswerServed'
    BY <1>0 DEF ExternalFits, XInv, Ext!TypeOK, Ext!Rerun, AnswerServed, ServedSince, Ext!Url,
       Ext!worldVars, Ext!Idle
  <1>6. GotFromCache'
    BY <1>0 DEF ExternalFits, XInv, Ext!TypeOK, Ext!Rerun, GotFromCache, Ext!Url, Ext!worldVars, Ext!Idle
  <1>7. TriedBefore'
    BY <1>0 DEF ExternalFits, XInv, Ext!TypeOK, Ext!Rerun, TriedBefore, Ext!worldVars, Ext!Idle
  <1>8. CheckedBefore'
    BY <1>0 DEF ExternalFits, XInv, Ext!TypeOK, Ext!Rerun, CheckedBefore, Ext!worldVars, Ext!Idle
  <1> QED
    BY <1>1, <1>2, <1>3, <1>4, <1>5, <1>6, <1>7, <1>8 DEF XInv

LEMMA TickExternal ==
    ASSUME XInv, Ext!Tick
    PROVE  XInv'
  <1>0. ExternalFits /\ Ext!TypeOK
    BY ExternalIsFit DEF XInv
  <1>1. Ext!TypeOK'
    BY <1>0 DEF ExternalFits, XInv, Ext!TypeOK, Ext!Tick, Ext!Urls, Ext!Places, Ext!runVars,
       Ext!worldVars, Ext!walkVars
  <1>2. RequestsCached'
    BY <1>0 DEF ExternalFits, XInv, Ext!TypeOK, Ext!Tick, RequestsCached, Ext!runVars, Ext!worldVars,
       Ext!walkVars
  <1>3. CacheServed'
    BY <1>0 DEF ExternalFits, XInv, Ext!TypeOK, Ext!Tick, CacheServed, ServedSince, Ext!runVars,
       Ext!worldVars, Ext!walkVars
  <1>4. AsksInTime'
    BY <1>0 DEF ExternalFits, XInv, Ext!TypeOK, Ext!Tick, AsksInTime, Ext!Url, Ext!runVars,
       Ext!worldVars, Ext!walkVars
  <1>5. AnswerServed'
    BY <1>0 DEF ExternalFits, XInv, Ext!TypeOK, Ext!Tick, AnswerServed, ServedSince, Ext!Url,
       Ext!runVars, Ext!worldVars, Ext!walkVars
  <1>6. GotFromCache'
    BY <1>0 DEF ExternalFits, XInv, Ext!TypeOK, Ext!Tick, GotFromCache, Ext!Url, Ext!runVars,
       Ext!worldVars, Ext!walkVars
  <1>7. TriedBefore'
    BY <1>0 DEF ExternalFits, XInv, Ext!TypeOK, Ext!Tick, TriedBefore, Ext!runVars, Ext!worldVars,
       Ext!walkVars
  <1>8. CheckedBefore'
    BY <1>0 DEF ExternalFits, XInv, Ext!TypeOK, Ext!Tick, CheckedBefore, Ext!runVars, Ext!worldVars,
       Ext!walkVars
  <1> QED
    BY <1>1, <1>2, <1>3, <1>4, <1>5, <1>6, <1>7, <1>8 DEF XInv

LEMMA ChangeExternal ==
    ASSUME XInv, NEW u \in Ext!Urls, Ext!Change(u)
    PROVE  XInv'
  <1>0. ExternalFits /\ Ext!TypeOK
    BY ExternalIsFit DEF XInv
  <1>a. /\ \/ served[u] # Down /\ history' = [history EXCEPT ![u] = Append(@, [data |-> served[u], till |-> now])]
           \/ served[u] = Down /\ history' = history
        /\ \E c \in (ext.serves \cup {Down}) \ {served[u]} : served' = [served EXCEPT ![u] = c]
        /\ changes' = changes + 1
        /\ UNCHANGED <<ext, refresh, run, now, cache, job, requests>>
    BY DEF Ext!Change, Ext!runVars
  <1>b. served[u] \in Contents \cup {Down} /\ history[u] \in Seq(Ext!Past)
    BY <1>0 DEF Ext!TypeOK, Ext!Data
  <1>c. served[u] # Down => [data |-> served[u], till |-> now] \in Ext!Past
    BY <1>0, <1>b DEF ExternalFits, Ext!Past
  <1>h. history' \in [Ext!Urls -> Seq(Ext!Past)]
    <2>1. served[u] # Down => Append(history[u], [data |-> served[u], till |-> now]) \in Seq(Ext!Past)
      BY <1>b, <1>c
    <2> QED
      BY <1>0, <1>a, <2>1 DEF Ext!TypeOK
  <1>d. ASSUME NEW v \in Ext!Urls, NEW d \in Contents, NEW t \in Nat, t <= now, ServedSince(v, d, t)
        PROVE  ServedSince(v, d, t)'
    <2>1. CASE v # u
      BY <1>0, <1>a, <1>d, <2>1 DEF ServedSince, Ext!TypeOK
    <2>2. CASE v = u /\ served[u] = d
      <3>1. served[u] # Down
        BY <1>0, <2>2 DEF ExternalFits
      <3>2. history'[u] = Append(history[u], [data |-> d, till |-> now])
        BY <1>0, <1>a, <2>2, <3>1 DEF Ext!TypeOK
      <3>3. /\ Len(history[u]) + 1 \in DOMAIN history'[u]
            /\ history'[u][Len(history[u]) + 1] = [data |-> d, till |-> now]
        BY <1>b, <1>c, <2>2, <3>1, <3>2
      <3> QED
        BY <1>d, <2>2, <3>3 DEF ServedSince
    <2>3. CASE v = u /\ served[u] # d
      <3>1. PICK i \in DOMAIN history[u] : history[u][i].data = d /\ history[u][i].till >= t
        BY <1>d, <2>3 DEF ServedSince
      <3>2. i \in DOMAIN history'[u] /\ history'[u][i] = history[u][i]
        <4>1. CASE served[u] # Down
          <5>1. history'[u] = Append(history[u], [data |-> served[u], till |-> now])
            BY <1>0, <1>a, <4>1 DEF Ext!TypeOK
          <5> QED
            BY <1>b, <1>c, <3>1, <4>1, <5>1
        <4>2. CASE served[u] = Down
          BY <1>a, <3>1, <4>2
        <4> QED
          BY <4>1, <4>2
      <3> QED
        BY <2>3, <3>1, <3>2 DEF ServedSince
    <2> QED
      BY <2>1, <2>2, <2>3
  <1>1. Ext!TypeOK'
    <2>1. served' \in [Ext!Urls -> Ext!Data]
      BY <1>0, <1>a DEF ExternalFits, Ext!TypeOK, Ext!Data
    <2>2. changes' \in Nat
      BY <1>0, <1>a DEF Ext!TypeOK
    <2> QED
      BY <1>0, <1>a, <1>h, <2>1, <2>2 DEF Ext!TypeOK, Ext!Urls
  <1>2. RequestsCached'
    BY <1>0 DEF ExternalFits, XInv, Ext!TypeOK, Ext!Change, RequestsCached, Ext!runVars, Ext!walkVars
  <1>3. CacheServed'
    <2>1. SUFFICES ASSUME NEW w \in DOMAIN cache
                   PROVE  ServedSince(w, cache[w].data, cache[w].mtime - cache[w].late)'
      BY <1>a DEF CacheServed, ServedSince
    <2>2. /\ w \in Ext!Urls /\ cache[w].data \in Contents
          /\ cache[w].mtime \in Nat /\ cache[w].late \in Nat /\ cache[w].late <= cache[w].mtime /\ cache[w].mtime <= now
          /\ ServedSince(w, cache[w].data, cache[w].mtime - cache[w].late)
      BY <1>0, <2>1 DEF XInv, CacheServed, Ext!TypeOK
    <2>3. cache[w].mtime - cache[w].late \in Nat /\ cache[w].mtime - cache[w].late <= now
      BY <1>0, <2>2 DEF ExternalFits
    <2> QED
      BY <1>a, <1>d, <2>2, <2>3
  <1>4. AsksInTime'
    BY <1>0 DEF ExternalFits, XInv, Ext!TypeOK, Ext!Change, AsksInTime, Ext!Url, Ext!runVars, Ext!walkVars
  <1>5. AnswerServed'
    <2>1. Ext!Url' = Ext!Url
      BY <1>a DEF Ext!Url
    <2>2. ASSUME job.at \in {"write", "chtimes"} PROVE ServedSince(Ext!Url, job.data, job.asked)'
      <3>1. job.data \in Contents /\ job.asked \in Nat /\ job.asked <= now /\ ServedSince(Ext!Url, job.data, job.asked)
        BY <1>0, <2>2 DEF XInv, AnswerServed, AsksInTime, Ext!TypeOK, Ext!Data
      <3> QED
        BY <1>0, <1>a, <1>d, <3>1 DEF ExternalFits, Ext!Url
    <2> QED
      BY <1>a, <2>1, <2>2 DEF XInv, AnswerServed, ServedSince
  <1>6. GotFromCache'
    BY <1>0 DEF ExternalFits, XInv, Ext!TypeOK, Ext!Change, GotFromCache, Ext!Url, Ext!runVars, Ext!walkVars
  <1>7. TriedBefore'
    BY <1>0 DEF ExternalFits, XInv, Ext!TypeOK, Ext!Change, TriedBefore, Ext!runVars, Ext!walkVars
  <1>8. CheckedBefore'
    BY <1>0 DEF ExternalFits, XInv, Ext!TypeOK, Ext!Change, CheckedBefore, Ext!runVars, Ext!walkVars
  <1> QED
    BY <1>1, <1>2, <1>3, <1>4, <1>5, <1>6, <1>7, <1>8 DEF XInv

LEMMA ExternalStep ==
    ASSUME XInv, [Ext!Next]_(Ext!extVars)
    PROVE  XInv'
  <1>1. CASE UNCHANGED Ext!extVars
    <2>1. UNCHANGED <<ext, refresh, now, served, history, cache, job, requests, todo, seen, skipped, results, run, changes>>
      BY <1>1 DEF Ext!extVars
    <2>2. Ext!TypeOK'
      BY <2>1 DEF XInv, Ext!TypeOK, Ext!Urls
    <2> QED
      BY <2>1, <2>2 DEF XInv, RequestsCached, CacheServed, AsksInTime, AnswerServed, GotFromCache,
         TriedBefore,
         CheckedBefore, ServedSince, Ext!Url
  <1>2. CASE Ext!Next
    BY <1>2, StartExternal, ReadLocalExternal, FromCacheExternal, AskExternal, AskFailsExternal,
       AnsweredExternal,
       WriteCacheExternal, ChtimesExternal, VerifyExternal, NextHeaderExternal, ArchiveEndsExternal, RerunExternal,
       TickExternal, ChangeExternal DEF Ext!Next
  <1> QED
    BY <1>1, <1>2

LEMMA OnlyExternal ==
    ASSUME [Next]_readingVars, part = "external"
    PROVE  part' = "external" /\ [Ext!Next]_(Ext!extVars)
  BY DEF Next, SourceNext, ExternalNext, GitHubNext, SecretsNext, readingVars, externalVars, Ext!extVars

LEMMA ExternalInvariant == Spec => []ExternalInv
  <1>1. Init => ExternalInv
    BY ExternalInit DEF Init, ExternalInv
  <1>2. ExternalInv /\ [Next]_readingVars => ExternalInv'
    <2> SUFFICES ASSUME ExternalInv, [Next]_readingVars, part' = "external" PROVE XInv'
      BY DEF ExternalInv
    <2>1. part = "external"
      BY DEF Next, SourceNext, ExternalNext, GitHubNext, SecretsNext, readingVars
    <2> QED
      BY <2>1, OnlyExternal, ExternalStep DEF ExternalInv
  <1> QED
    BY <1>1, <1>2, PTL DEF Spec

\* Whatever the URLs serve, and whenever runs are killed between the request
\* and the two writes of the cache, what is used of an external has its
\* checksum, and is older than the refresh period by no more than the time that
\* a killed run took to write it; and a read fails only when every URL, of a
\* server or of a file, was tried (getExternalDataAndURL, getExternalDataRaw).
THEOREM ExternalsAreTrusted == Spec => []DataTrusted
  <1>1. ExternalInv => DataTrusted
    <2> SUFFICES ASSUME XInv PROVE Ext!DataTrusted
      BY DEF ExternalInv, DataTrusted
    <2>0. ExternalFits /\ Ext!TypeOK
      BY ExternalIsFit DEF XInv
    <2>1. Ext!Verified /\ Ext!EveryUrlTried
      BY DEF XInv, CheckedBefore, TriedBefore, Ext!Verified, Ext!EveryUrlTried
    <2>2. Ext!NotStale
      <3>1. SUFFICES ASSUME job.at = "got", refresh = "auto", ext.period > 0, Ext!Url \notin ext.local,
                            served[Ext!Url] # job.data
                     PROVE  \E i \in DOMAIN history[Ext!Url] :
                               /\ history[Ext!Url][i].data = job.data
                               /\ history[Ext!Url][i].till > job.asked - ext.period - cache[Ext!Url].late
        BY DEF Ext!NotStale
      <3>2. PICK i \in DOMAIN history[Ext!Url] :
                   /\ history[Ext!Url][i].data = job.data
                   /\ history[Ext!Url][i].till >= cache[Ext!Url].mtime - cache[Ext!Url].late
        BY <3>1 DEF XInv, CacheServed, GotFromCache, ServedSince
      <3>3. /\ cache[Ext!Url].mtime + ext.period > job.asked
            /\ cache[Ext!Url].mtime \in Nat /\ cache[Ext!Url].late \in Nat
        BY <2>0, <3>1 DEF XInv, GotFromCache, Ext!TypeOK
      <3>4. history[Ext!Url][i].till \in Nat
        <4>1. history[Ext!Url] \in Seq(Ext!Past)
          BY <2>0 DEF ExternalFits, Ext!TypeOK
        <4>2. history[Ext!Url][i] \in Ext!Past
          BY <4>1
        <4> QED
          BY <4>2 DEF Ext!Past
      <3>5. history[Ext!Url][i].till > job.asked - ext.period - cache[Ext!Url].late
        BY <2>0, <3>2, <3>3, <3>4 DEF ExternalFits
      <3> QED
        BY <3>2, <3>5
    <2> QED
      BY <2>1, <2>2 DEF Ext!DataTrusted
  <1> QED
    BY <1>1, ExternalInvariant, PTL

\* A download that was cached stays so, whatever fails later, and unless it is
\* forced no URL is asked again within the period (getExternalDataRaw).
THEOREM DownloadsAreKept == Spec => DownloadsKept
  <1>1. ExternalInv /\ [Next]_readingVars =>
           [part = "external" => Ext!KeepsDownloads /\ Ext!AsksAfterPeriod]_readingVars
    <2> SUFFICES ASSUME ExternalInv, [Next]_readingVars, part = "external"
                 PROVE  Ext!KeepsDownloads /\ Ext!AsksAfterPeriod
      OBVIOUS
    <2>1. XInv /\ [Ext!Next]_(Ext!extVars)
      BY OnlyExternal DEF ExternalInv
    <2>2. CASE Ext!Chtimes
      <3>1. /\ job.at = "chtimes" /\ cache' = [cache EXCEPT ![Ext!Url].mtime = job.asked, ![Ext!Url].late = 0]
            /\ requests' = requests \cup {[url |-> Ext!Url, at |-> job.asked, run |-> run]} /\ refresh' = refresh
        BY <2>2 DEF Ext!Chtimes, Ext!runVars
      <3>2. DOMAIN cache' = DOMAIN cache
        BY <3>1
      <3>3. \A q \in requests : refresh = "auto" /\ q.url = Ext!Url => ext.period > 0 /\ job.asked >= q.at + ext.period
        <4>1. SUFFICES ASSUME NEW q \in requests, refresh = "auto", q.url = Ext!Url
                       PROVE  ext.period > 0 /\ job.asked >= q.at + ext.period
          OBVIOUS
        <4>2. ext.period > 0 /\ q.at + ext.period <= job.asked /\ q.at \in Nat /\ job.asked \in Nat
          BY <2>1, <3>1, <4>1 DEF XInv, AsksInTime, Ext!TypeOK
        <4>3. ext.period \in Nat
          BY <2>1, ExternalIsFit DEF XInv, ExternalFits
        <4> QED
          BY <4>2, <4>3
      <3> QED
        BY <3>1, <3>2, <3>3 DEF Ext!KeepsDownloads, Ext!AsksAfterPeriod
    <2>3. CASE Ext!WriteCache
      BY <2>3 DEF Ext!WriteCache, Ext!KeepsDownloads, Ext!AsksAfterPeriod
    <2>4. CASE ~Ext!Chtimes /\ ~Ext!WriteCache
      <3>1. requests' = requests /\ cache' = cache
        BY <2>1, <2>4 DEF Ext!Next, Ext!extVars, Ext!Start, Ext!ReadLocal, Ext!FromCache, Ext!Ask,
           Ext!AskFails, Ext!Answered,
           Ext!Verify, Ext!NextHeader, Ext!ArchiveEnds, Ext!Rerun, Ext!Tick, Ext!Change
      <3> QED
        BY <3>1 DEF Ext!KeepsDownloads, Ext!AsksAfterPeriod
    <2> QED
      BY <2>2, <2>3, <2>4
  <1> QED
    BY <1>1, ExternalInvariant, PTL DEF Spec, DownloadsKept

(***************************************************************************)
(* The password managers. SecretsProofs is about the module on its own.    *)
(***************************************************************************)

SecretProof == INSTANCE SecretsProofs

\* While a manager is asked, the invariant of SecretsProofs holds.
SecretInv == part = "secrets" => SecretProof!SInv

\* Secrets is the same module here and there.
LEMMA SameInit == Secret!Init <=> SecretProof!Init
  BY Zenon
     DEF Secret!Init, SecretProof!Init, Secret!Configurations, SecretProof!Configurations, Secret!Modes,
         SecretProof!Modes, Secret!Idle, SecretProof!Idle, Secret!CacheNames, SecretProof!CacheNames, Secret!Call,
         SecretProof!Call

LEMMA SameRequests == ASSUME NEW c PROVE Secret!Requests(c) = SecretProof!Requests(c)
  <1>1. \A x : x = Secret!Requests(c) <=> x = SecretProof!Requests(c)
    BY DEF Secret!Requests, SecretProof!Requests, Secret!NoGate, SecretProof!NoGate, Secret!Gate, SecretProof!Gate,
           Secret!Request, SecretProof!Request, Secret!Cached, SecretProof!Cached, Secret!Call, SecretProof!Call,
           Secret!Calls, SecretProof!Calls, Secret!One, SecretProof!One, Secret!Two, SecretProof!Two, Secret!Vault,
           SecretProof!Vault, Secret!PassStore, SecretProof!PassStore, Secret!RBW, SecretProof!RBW, Secret!Secret,
           SecretProof!Secret, Secret!Keeper, SecretProof!Keeper, Secret!ProtonPassStore,
           SecretProof!ProtonPassStore, Secret!Doppler, SecretProof!Doppler, Secret!Dashlane, SecretProof!Dashlane,
           Secret!Keyring, SecretProof!Keyring, Secret!AzureKeyVault, SecretProof!AzureKeyVault,
           Secret!AWSSecretsManager, SecretProof!AWSSecretsManager, Secret!EJSON, SecretProof!EJSON,
           Secret!LastPassStore, SecretProof!LastPassStore, Secret!BitwardenSecrets, SecretProof!BitwardenSecrets,
           Secret!Passhole, SecretProof!Passhole, Secret!Gopass, SecretProof!Gopass, Secret!Unlock,
           SecretProof!Unlock, Secret!Bitwarden, SecretProof!Bitwarden, Secret!SessionToken,
           SecretProof!SessionToken, Secret!Accounts, SecretProof!Accounts, Secret!OnePassword,
           SecretProof!OnePassword, Secret!KeepassxcGate, SecretProof!KeepassxcGate, Secret!KeepassxcBuiltin,
           SecretProof!KeepassxcBuiltin, Secret!Keepassxc, SecretProof!Keepassxc
  <1> QED
    BY <1>1

LEMMA SameNext == Secret!Next <=> SecretProof!Next
  BY DEF Secret!NoGate, SecretProof!NoGate, Secret!Gate, SecretProof!Gate, Secret!Request, SecretProof!Request,
         Secret!Cached, SecretProof!Cached, Secret!Call, SecretProof!Call, Secret!Calls, SecretProof!Calls,
         Secret!One, SecretProof!One, Secret!Two, SecretProof!Two, Secret!Vault, SecretProof!Vault,
         Secret!PassStore, SecretProof!PassStore, Secret!RBW, SecretProof!RBW, Secret!Secret, SecretProof!Secret,
         Secret!Keeper, SecretProof!Keeper, Secret!ProtonPassStore, SecretProof!ProtonPassStore, Secret!Doppler,
         SecretProof!Doppler, Secret!Dashlane, SecretProof!Dashlane, Secret!Keyring, SecretProof!Keyring,
         Secret!AzureKeyVault, SecretProof!AzureKeyVault, Secret!AWSSecretsManager, SecretProof!AWSSecretsManager,
         Secret!EJSON, SecretProof!EJSON, Secret!LastPassStore, SecretProof!LastPassStore, Secret!BitwardenSecrets,
         SecretProof!BitwardenSecrets, Secret!Passhole, SecretProof!Passhole, Secret!Gopass, SecretProof!Gopass,
         Secret!Unlock, SecretProof!Unlock, Secret!Bitwarden, SecretProof!Bitwarden, Secret!SessionToken,
         SecretProof!SessionToken, Secret!Accounts, SecretProof!Accounts, Secret!OnePassword,
         SecretProof!OnePassword, Secret!KeepassxcGate, SecretProof!KeepassxcGate, Secret!KeepassxcBuiltin,
         SecretProof!KeepassxcBuiltin, Secret!Keepassxc, SecretProof!Keepassxc, Secret!Uses, SecretProof!Uses,
         Secret!Requests, SecretProof!Requests, Secret!CacheNames, SecretProof!CacheNames, Secret!Idle,
         SecretProof!Idle, Secret!Output, SecretProof!Output, Secret!Stored, SecretProof!Stored, Secret!Fetch,
         SecretProof!Fetch, Secret!Put, SecretProof!Put, Secret!Set, SecretProof!Set, Secret!Now, SecretProof!Now,
         Secret!Log, SecretProof!Log, Secret!Entry, SecretProof!Entry, Secret!ChecksMode, SecretProof!ChecksMode,
         Secret!Refused, SecretProof!Refused, Secret!Begin, SecretProof!Begin, Secret!Finish, SecretProof!Finish,
         Secret!Parses, SecretProof!Parses, Secret!Parsed, SecretProof!Parsed, Secret!Hit, SecretProof!Hit,
         Secret!Panic, SecretProof!Panic, Secret!Miss, SecretProof!Miss, Secret!Ready, SecretProof!Ready,
         Secret!Obtain, SecretProof!Obtain, Secret!Execute, SecretProof!Execute, Secret!NoMap, SecretProof!NoMap,
         Secret!Store, SecretProof!Store, Secret!Touches, SecretProof!Touches, Secret!Collide, SecretProof!Collide,
         Secret!Finalize, SecretProof!Finalize, Secret!Next, SecretProof!Next

LEMMA SecretInvariant == Spec => []SecretInv
  <1>1. Init => SecretInv
    <2> SUFFICES ASSUME Init, part = "secrets" PROVE SecretProof!SInv
      BY DEF SecretInv
    <2>1. SecretProof!SecretsAssumption
      BY ReadingAssumption DEF Secret!SecretsAssumption, SecretProof!SecretsAssumption
    <2>2. SecretProof!Init
      BY SameInit DEF Init
    <2> QED
      BY <2>1, <2>2, SecretProof!SecretsInit
  <1>2. SecretInv /\ [Next]_readingVars => SecretInv'
    <2> SUFFICES ASSUME SecretInv, [Next]_readingVars, part' = "secrets" PROVE SecretProof!SInv'
      BY DEF SecretInv
    <2>1. SecretProof!SInv /\ (Secret!Next \/ UNCHANGED SecretProof!secretVars)
      BY DEF SecretInv, Next, SourceNext, ExternalNext, GitHubNext, SecretsNext, readingVars, secretVars,
             SecretProof!secretVars
    <2> QED
      BY <2>1, SameNext, SecretProof!SecretsNext, SecretProof!SecretsStutter
  <1> QED
    BY <1>1, <1>2, PTL DEF Spec

\* Every template gets the output of its own command, nothing that is kept is
\* asked for again, op runs with the token of its account, and a vault that was
\* unlocked is locked at the end (internal/cmd/*templatefuncs.go).
THEOREM SecretsAreGuarded == Spec => []SecretsGuarded
  <1>1. SecretInv => SecretsGuarded
    <2> SUFFICES ASSUME SecretProof!SInv PROVE Secret!SecretsGuarded
      BY DEF SecretInv, SecretsGuarded
    <2>1. SecretProof!SecretsGuarded
      BY SecretProof!SecretsAreSafe
    <2>2. \A c : Secret!Requests(c) = SecretProof!Requests(c)
      BY SameRequests
    <2>3. Secret!OwnAnswers <=> SecretProof!OwnAnswers
      <3>1. \A c : Secret!LastRequest(c) = SecretProof!LastRequest(c)
        BY <2>2 DEF Secret!LastRequest, SecretProof!LastRequest
      <3> QED
        BY <3>1 DEF Secret!OwnAnswers, SecretProof!OwnAnswers
    <2>4. Secret!AskedOnce <=> SecretProof!AskedOnce
      <3>1. Secret!Sequential <=> SecretProof!Sequential
        BY DEF Secret!Sequential, SecretProof!Sequential, Secret!Cardinality, SecretProof!Cardinality
      <3>2. \A argv : Secret!NeverCached(argv) <=> SecretProof!NeverCached(argv)
        BY DEF Secret!NeverCached, SecretProof!NeverCached, Secret!Uncached, SecretProof!Uncached
      <3> QED
        BY <3>1, <3>2 DEF Secret!AskedOnce, SecretProof!AskedOnce
    <2>5. Secret!OwnToken <=> SecretProof!OwnToken
      BY DEF Secret!OwnToken, SecretProof!OwnToken
    <2>6. Secret!LockedAtEnd <=> SecretProof!LockedAtEnd
      BY DEF Secret!LockedAtEnd, SecretProof!LockedAtEnd
    <2> QED
      BY <2>1, <2>3, <2>4, <2>5, <2>6 DEF Secret!SecretsGuarded, SecretProof!SecretsGuarded
  <1> QED
    BY <1>1, SecretInvariant, PTL

(***************************************************************************)
(* Reading the source directory.                                           *)
(***************************************************************************)

\* The module that is instantiated has operators of the same definitions.
LEMMA SameCardinality == \A S : Source!Cardinality(S) = Cardinality(S)
  BY DEF Source!Cardinality, Cardinality

LEMMA SameFinite == \A S : Source!IsFiniteSet(S) <=> IsFiniteSet(S)
  BY DEF Source!IsFiniteSet, IsFiniteSet

\* What is collected of a finite set, in any order.
LEMMA AnyOrder ==
  ASSUME NEW S, IsFiniteSet(S)
  PROVE  Source!SetToSeq(S) \in Seq(S) /\ (S # {} => Source!SetToSeq(S) # <<>>)
  <1>1. Cardinality(S) \in Nat /\ ExistsBijection(1..Cardinality(S), S)
    BY FS_CardinalityType
  <1>2. \E f \in [1..Cardinality(S) -> S] : IsInjective(f)
    BY <1>1 DEF ExistsBijection, Bijection, Injection
  <1>3. Source!SetToSeq(S) = CHOOSE f \in [1..Cardinality(S) -> S] : IsInjective(f)
    BY SameCardinality DEF Source!SetToSeq, Source!IsInjective, IsInjective
  <1>4. Source!SetToSeq(S) \in [1..Cardinality(S) -> S]
    BY <1>2, <1>3
  <1>5. S # {} => 1 \in 1..Cardinality(S)
    BY <1>1, FS_EmptySet
  <1> QED
    BY <1>1, <1>4, <1>5

LEMMA SeqOver ==
  ASSUME NEW S, NEW T, S \subseteq T, NEW q \in Seq(S)
  PROVE  q \in Seq(T)
  <1>1. Len(q) \in Nat /\ q \in [1..Len(q) -> S]
    BY LenProperties
  <1>2. \A i \in 1..Len(q) : q[i] \in T
    BY ElementOfSeq
  <1>3. q \in [1..Len(q) -> T]
    BY <1>1, <1>2
  <1> QED
    BY <1>1, <1>3

LEMMA ImageFinite ==
  ASSUME NEW f, IsFiniteSet(DOMAIN f)
  PROVE  IsFiniteSet({f[x] : x \in DOMAIN f})
  <1> DEFINE T == {f[x] : x \in DOMAIN f}
             g == [x \in DOMAIN f |-> f[x]]
  <1>1. g \in Surjection(DOMAIN f, T)
    BY DEF Surjection
  <1> HIDE DEF g, T
  <1>2. IsFiniteSet(T)
    BY <1>1, FS_Surjection
  <1> QED
    BY <1>2 DEF T

\* A set of numbers has a least one, and a set of places a last one.
NumbersBelow == OpToRel(<, Nat)

LEMMA LeastNumber ==
  ASSUME NEW T \in SUBSET Nat, T # {} PROVE \E n \in T : \A m \in T : n <= m
  <1>1. IsWellFoundedOn(NumbersBelow, Nat)
    BY NatLessThanWellFounded DEF NumbersBelow
  <1>2. \A x, y \in Nat : x < y => <<x, y>> \in NumbersBelow
    BY DEF NumbersBelow, OpToRel
  <1>3. PICK x \in T : \A y \in T : ~(<<y, x>> \in NumbersBelow)
    BY <1>1, WFMin, Zenon
  <1>4. ASSUME NEW y \in T PROVE x <= y
    <2>1. ~(y < x)
      BY <1>2, <1>3
    <2> QED
      BY <2>1
  <1> QED
    BY <1>4

LEMMA LastPlace ==
  ASSUME NEW n \in Nat, NEW S \in SUBSET (1..n), S # {}
  PROVE  \E i \in S : \A j \in S : j <= i
  <1> DEFINE T == {n - i : i \in S}
  <1>1. T \in SUBSET Nat /\ T # {}
    <2>1. \A i \in S : n - i \in Nat
      OBVIOUS
    <2>2. T \subseteq Nat
      BY <2>1
    <2> QED
      BY <2>2
  <1>2. PICK k \in T : \A m \in T : k <= m
    <2> HIDE DEF T
    <2> QED
      BY <1>1, LeastNumber
  <1>3. PICK i \in S : k = n - i
    OBVIOUS
  <1>4. ASSUME NEW j \in S PROVE j <= i
    <2>1. n - j \in T
      OBVIOUS
    <2>2. n - i <= n - j
      BY <1>2, <1>3, <2>1
    <2>3. i \in Int /\ j \in Int
      OBVIOUS
    <2> QED
      BY <2>2, <2>3
  <1> QED
    BY <1>4

LEMMA PrefixFacts ==
  ASSUME NEW s \in Seq(STRING), NEW t \in Seq(STRING), NEW x \in STRING
  PROVE  /\ Source!IsPrefix(t, t)
         /\ Append(t, x) \in Seq(STRING) /\ Len(Append(t, x)) = Len(t) + 1
         /\ Source!IsPrefix(s, Append(t, x)) => s = Append(t, x) \/ Source!IsPrefix(s, t)
  <1>1. Len(t) \in Nat /\ Len(s) \in Nat
    BY LenProperties
  <1>2. Source!IsPrefix(t, t)
    BY <1>1 DEF Source!IsPrefix
  <1>3. Append(t, x) \in Seq(STRING) /\ Len(Append(t, x)) = Len(t) + 1
    BY AppendProperties
  <1>4. \A i \in 1..Len(t) : Append(t, x)[i] = t[i]
    BY AppendProperties
  <1>5. ASSUME NEW a \in Seq(STRING), Len(a) = Len(t) + 1, \A i \in 1..Len(t) : a[i] = t[i], Source!IsPrefix(s, a)
        PROVE  s = a \/ Source!IsPrefix(s, t)
    <2> DEFINE f == SubSeq(a, 1, Len(s))
               g == SubSeq(t, 1, Len(s))
    <2>1. Len(s) <= Len(a) /\ SubSeq(s, 1, Len(s)) = f
      BY <1>5 DEF Source!IsPrefix
    <2>2. SubSeq(s, 1, Len(s)) = s
      BY <1>1
    <2>3. CASE Len(s) = Len(a)
      <3>1. f = a
        BY <1>5, <2>3
      <3> QED
        BY <2>1, <2>2, <3>1
    <2>4. CASE Len(s) <= Len(t)
      <3>1. \A i \in 1..Len(s) : a[i] = t[i] /\ a[i] \in STRING
        BY <1>1, <1>5, <2>4, ElementOfSeq
      <3>2. f = [i \in 1..Len(s) |-> a[i]] /\ g = [i \in 1..Len(s) |-> t[i]]
        BY <1>1
      <3>3. f = g
        BY <3>1, <3>2
      <3> QED
        BY <2>1, <2>4, <3>3 DEF Source!IsPrefix
    <2> QED
      BY <1>1, <1>5, <2>1, <2>3, <2>4
  <1> QED
    BY <1>2, <1>3, <1>4, <1>5

LEMMA NoPrefix ==
  ASSUME NEW s \in Seq(STRING), Source!IsPrefix(s, <<>>) PROVE s = <<>>
  <1>1. Len(s) <= 0 /\ Len(s) \in Nat
    BY LenProperties DEF Source!IsPrefix
  <1> QED
    BY <1>1

-----------------------------------------------------------------------------
(* The order of the names in a directory.                                   *)

LEMMA TreeNodes ==
  ASSUME NEW tree, Source!IsTree(tree)
  PROVE  /\ IsFiniteSet(tree)
         /\ \A n \in tree : /\ n.at \in Seq(STRING) /\ n.src \in STRING /\ n.pos \in Nat
                            /\ n.kind = "dir" => n.val \subseteq STRING
                            /\ Source!Path(n) \in Seq(STRING)
         /\ \A n, m \in tree : n.at = m.at /\ n # m /\ Source!Order(n) = Source!Order(m) => n.pos # m.pos
  <1>1. IsFiniteSet(tree) /\ \A n \in tree : Source!IsNode(n)
    BY SameFinite, Zenon DEF Source!IsTree
  <1>2. \A n, m \in tree : n.at = m.at /\ n # m /\ Source!Order(n) = Source!Order(m) => n.pos # m.pos
    BY Zenon DEF Source!IsTree
  <1>3. \A n \in tree : n.at \in Seq(STRING) /\ n.src \in STRING /\ n.pos \in Nat /\ (n.kind = "dir" => n.val \subseteq STRING)
    BY <1>1, Zenon DEF Source!IsNode
  <1>4. \A n \in tree : Source!Path(n) \in Seq(STRING)
    BY <1>3 DEF Source!Path
  <1> QED
    BY <1>1, <1>2, <1>3, <1>4

LEMMA OrderIsInt == \A n : Source!Order(n) \in Int
  BY DEF Source!Order

LEMMA PrecedesFacts ==
  ASSUME NEW tree, Source!IsTree(tree), NEW n \in tree, NEW m \in tree
  PROVE  /\ ~(Source!Precedes(n, m) /\ Source!Precedes(m, n))
         /\ n.at = m.at /\ n # m => Source!Precedes(n, m) \/ Source!Precedes(m, n)
         /\ \A k \in tree : Source!Precedes(k, n) /\ Source!Precedes(n, m) => Source!Precedes(k, m)
  <1>1. \A k \in tree : k.pos \in Nat /\ Source!Order(k) \in Int
    BY TreeNodes, OrderIsInt
  <1>2. n.at = m.at /\ n # m /\ Source!Order(n) = Source!Order(m) => n.pos # m.pos
    BY TreeNodes
  <1> QED
    BY <1>1, <1>2 DEF Source!Precedes

\* Sorted makes a sequence of the names of a directory, of every one and in
\* their order: how many precede a name is different for each of them.
Ahead(S, n) == Source!Cardinality({m \in S : Source!Precedes(m, n)})

LEMMA SortedFacts ==
  ASSUME NEW tree, Source!IsTree(tree), NEW S \in SUBSET tree, \A n, m \in S : n.at = m.at
  PROVE  /\ Source!Sorted(S) \in Seq(S)
         /\ \A n \in S : \E i \in 1..Len(Source!Sorted(S)) : Source!Sorted(S)[i] = n
         /\ \A i, j \in 1..Len(Source!Sorted(S)) : i < j => Source!Precedes(Source!Sorted(S)[i], Source!Sorted(S)[j])
  <1> DEFINE ahead(n) == {m \in S : Source!Precedes(m, n)}
             rank  == [n \in S |-> Ahead(S, n) + 1]
             c     == Source!Cardinality(S)
  <1>1. IsFiniteSet(S) /\ c \in Nat /\ c = Cardinality(S)
    BY TreeNodes, FS_Subset, FS_CardinalityType, SameCardinality
  <1>a. \A n : Ahead(S, n) = Cardinality(ahead(n))
    BY SameCardinality DEF Ahead
  <1>2. ASSUME NEW n \in S
        PROVE  IsFiniteSet(ahead(n)) /\ Ahead(S, n) \in Nat /\ Ahead(S, n) < c
    <2>1. ahead(n) \in SUBSET S /\ n \notin ahead(n)
      BY PrecedesFacts
    <2>2. IsFiniteSet(ahead(n)) /\ Cardinality(ahead(n)) <= c /\ Cardinality(ahead(n)) # c
      BY <1>1, <2>1, FS_Subset
    <2>3. Cardinality(ahead(n)) \in Nat
      BY <2>2, FS_CardinalityType
    <2> QED
      BY <1>1, <1>a, <2>2, <2>3
  <1>3. ASSUME NEW n \in S, NEW m \in S, Source!Precedes(n, m)
        PROVE  Ahead(S, n) < Ahead(S, m)
    <2>1. ahead(n) \in SUBSET ahead(m) /\ n \in ahead(m) /\ n \notin ahead(n)
      BY <1>3, PrecedesFacts
    <2>2. Cardinality(ahead(n)) <= Cardinality(ahead(m)) /\ Cardinality(ahead(n)) # Cardinality(ahead(m))
      BY <1>2, <2>1, FS_Subset
    <2>3. Ahead(S, n) <= Ahead(S, m) /\ Ahead(S, n) # Ahead(S, m)
      <3> HIDE DEF ahead
      <3> QED
        BY <1>a, <2>2
    <2>4. Ahead(S, n) \in Nat /\ Ahead(S, m) \in Nat
      BY <1>2
    <2> QED
      BY <2>3, <2>4
  <1>4. \A n, m \in S : n # m => Source!Precedes(n, m) \/ Source!Precedes(m, n)
    BY PrecedesFacts
  <1> DEFINE sorted == [k \in 1..c |-> CHOOSE n \in S : Ahead(S, n) = k - 1]
  <1>8. Source!Sorted(S) = sorted
    BY DEF Source!Sorted, Ahead
  <1> HIDE DEF ahead, c
  <1>5. rank \in Injection(S, 1..c)
    <2>1. \A n \in S : Ahead(S, n) + 1 \in 1..c
      BY <1>1, <1>2
    <2>2. \A n, m \in S : Ahead(S, n) + 1 = Ahead(S, m) + 1 => n = m
      <3> SUFFICES ASSUME NEW n \in S, NEW m \in S, Ahead(S, n) + 1 = Ahead(S, m) + 1, n # m PROVE FALSE
        OBVIOUS
      <3>1. Ahead(S, n) \in Nat /\ Ahead(S, m) \in Nat
        BY <1>2
      <3>2. Ahead(S, n) < Ahead(S, m) \/ Ahead(S, m) < Ahead(S, n)
        BY <1>3, <1>4
      <3> QED
        BY <3>1, <3>2
    <2> QED
      BY <2>1, <2>2 DEF Injection, IsInjective
  <1>6. rank \in Surjection(S, 1..c)
    <2>1. IsFiniteSet(1..c) /\ Cardinality(1..c) = c
      BY <1>1, FS_Interval
    <2> QED
      BY <1>1, <1>5, <2>1, FS_Injection
  <1>7. \A k \in 1..c : \E n \in S : Ahead(S, n) = k - 1
    <2>1. \A k \in 1..c : \E n \in S : Ahead(S, n) + 1 = k
      BY <1>6 DEF Surjection
    <2> SUFFICES ASSUME NEW k \in 1..c PROVE \E n \in S : Ahead(S, n) = k - 1
      OBVIOUS
    <2>2. PICK n \in S : Ahead(S, n) + 1 = k
      BY <2>1
    <2>3. Ahead(S, n) \in Nat
      BY <1>2
    <2> QED
      BY <1>1, <2>2, <2>3
  <1>9. \A k \in 1..c : sorted[k] \in S /\ Ahead(S, sorted[k]) = k - 1
    BY <1>7
  <1>10. DOMAIN sorted = 1..c /\ sorted \in [1..c -> S]
    BY <1>9
  <1> HIDE DEF sorted, rank
  <1>11. sorted \in Seq(S) /\ Len(sorted) = c
    BY <1>1, <1>10
  <1>12. ASSUME NEW n \in S PROVE \E i \in 1..c : sorted[i] = n
    <2> DEFINE i == Ahead(S, n) + 1
    <2>1. i \in 1..c /\ i - 1 = Ahead(S, n)
      BY <1>1, <1>2
    <2>2. sorted[i] \in S /\ Ahead(S, sorted[i]) = Ahead(S, n)
      BY <1>9, <2>1
    <2>4. sorted[i] = n
      <3>1. Ahead(S, n) \in Nat
        BY <1>2
      <3>2. sorted[i] # n => Ahead(S, n) < Ahead(S, sorted[i]) \/ Ahead(S, sorted[i]) < Ahead(S, n)
        BY <1>3, <1>4, <2>2
      <3> QED
        BY <2>2, <3>1, <3>2
    <2> QED
      BY <2>1, <2>4
  <1>13. ASSUME NEW i \in 1..c, NEW j \in 1..c, i < j PROVE Source!Precedes(sorted[i], sorted[j])
    <2>1. sorted[i] \in S /\ sorted[j] \in S
      BY <1>9
    <2>2. Ahead(S, sorted[i]) = i - 1 /\ Ahead(S, sorted[j]) = j - 1
      BY <1>9
    <2>4. i - 1 < j - 1 /\ ~(j - 1 < i - 1) /\ i - 1 # j - 1
      BY <1>1, <1>13
    <2>3. ~Source!Precedes(sorted[j], sorted[i]) /\ sorted[i] # sorted[j]
      BY <1>3, <2>1, <2>2, <2>4
    <2> QED
      BY <1>4, <2>1, <2>3
  <1> QED
    BY <1>8, <1>11, <1>12, <1>13

-----------------------------------------------------------------------------
(* The walk.                                                                *)

\* What data there is for a name: that of its directory and of those above.
DataFor(tree, x) == {n \in tree : Source!IsData(n) /\ Source!IsPrefix(n.at, x.at)}
Merged(dt, tree, x) == \A n \in DataFor(tree, x) : Source!Path(n) \in dt

\* The names to be visited, deeper ones first and those of a directory in
\* their order.
Ordered(td) ==
  \A i, j \in 1..Len(td) : i < j =>
    Len(td[j].at) <= Len(td[i].at) /\ (td[j].at = td[i].at => Source!Precedes(td[i], td[j]))

\* The data for a name is merged, or will be merged in its directory.
Pending(td, dt, tree) ==
  \A i \in 1..Len(td) : \A n \in DataFor(tree, td[i]) :
    Source!Path(n) \in dt \/ (n.at = td[i].at /\ \E j \in 1..Len(td) : td[j] = n)

Walk(td, dt, tree) == td \in Seq(tree) /\ Ordered(td) /\ Pending(td, dt, tree)

UsesData(n) == n.kind \in {"external", "externals", "ignore", "remove", "scripts", "dir"}

LEMMA WalkHead ==
  ASSUME NEW tree, Source!IsTree(tree), NEW td, NEW dt, Walk(td, dt, tree), td # <<>>, UsesData(Head(td))
  PROVE  Merged(dt, tree, Head(td))
  <1> DEFINE x == Head(td)
  <1>1. td \in Seq(tree) /\ Len(td) \in Nat /\ 1 \in 1..Len(td) /\ x = td[1] /\ x \in tree
    <2>1. td \in Seq(tree)
      BY DEF Walk
    <2> QED
      BY <2>1, LenProperties, HeadTailProperties, EmptySeq
  <1> SUFFICES ASSUME NEW n \in DataFor(tree, x), Source!Path(n) \notin dt PROVE FALSE
    BY DEF Merged
  <1>2. n \in tree /\ Source!IsData(n)
    BY DEF DataFor
  <1>3. n.at = x.at /\ \E j \in 1..Len(td) : td[j] = n
    BY <1>1 DEF Walk, Pending
  <1>4. PICK j \in 1..Len(td) : td[j] = n
    BY <1>3
  <1>5. Source!Precedes(n, x)
    BY <1>1, <1>2, <1>3, Zenon DEF Source!IsTree, UsesData
  <1>6. ~Source!Precedes(x, n)
    BY <1>1, <1>2, <1>5, PrecedesFacts
  <1>7. j = 1
    BY <1>1, <1>3, <1>4, <1>6 DEF Walk, Ordered
  <1>8. n = x
    BY <1>1, <1>4, <1>7
  <1> QED
    BY <1>5, <1>6, <1>8

LEMMA WalkContinues ==
  ASSUME NEW tree, NEW td, NEW dt, NEW more, Walk(td, dt, tree), td # <<>>,
         dt \subseteq more, Source!IsData(Head(td)) => Source!Path(Head(td)) \in more
  PROVE  Walk(Tail(td), more, tree)
  <1> DEFINE x == Head(td)
             tl == Tail(td)
  <1>1. td \in Seq(tree) /\ Len(td) \in Nat /\ x = td[1]
    BY LenProperties DEF Walk
  <1>2. tl \in Seq(tree) /\ Len(tl) = Len(td) - 1 /\ \A i \in 1..Len(tl) : tl[i] = td[i + 1]
    BY <1>1, HeadTailProperties
  <1>3. \A i \in 1..Len(tl) : i \in Nat /\ i + 1 \in 1..Len(td)
    BY <1>1, <1>2
  <1> HIDE DEF x, tl
  <1>4. Ordered(tl)
    <2> SUFFICES ASSUME NEW i \in 1..Len(tl), NEW j \in 1..Len(tl), i < j
                 PROVE  Len(tl[j].at) <= Len(tl[i].at) /\ (tl[j].at = tl[i].at => Source!Precedes(tl[i], tl[j]))
      BY DEF Ordered
    <2>1. i + 1 < j + 1 /\ i + 1 \in 1..Len(td) /\ j + 1 \in 1..Len(td)
      BY <1>3
    <2>2. Len(td[j + 1].at) <= Len(td[i + 1].at) /\ (td[j + 1].at = td[i + 1].at => Source!Precedes(td[i + 1], td[j + 1]))
      BY <2>1 DEF Walk, Ordered
    <2> QED
      BY <1>2, <2>2
  <1>5. Pending(tl, more, tree)
    <2> SUFFICES ASSUME NEW i \in 1..Len(tl), NEW n \in DataFor(tree, tl[i]), Source!Path(n) \notin more
                 PROVE  n.at = tl[i].at /\ \E j \in 1..Len(tl) : tl[j] = n
      BY DEF Pending
    <2>1. tl[i] = td[i + 1] /\ i + 1 \in 1..Len(td)
      BY <1>2, <1>3
    <2>2. n.at = tl[i].at /\ \E j \in 1..Len(td) : td[j] = n
      BY <2>1 DEF Walk, Pending
    <2>3. PICK j \in 1..Len(td) : td[j] = n
      BY <2>2
    <2>4. n # x
      BY DEF DataFor, x
    <2>5. j # 1
      BY <1>1, <2>3, <2>4
    <2>6. j - 1 \in 1..Len(tl) /\ tl[j - 1] = n
      <3>1. j - 1 \in 1..Len(tl) /\ (j - 1) + 1 = j
        BY <1>1, <1>2, <2>5
      <3>2. tl[j - 1] = td[(j - 1) + 1]
        BY <1>2, <3>1
      <3> QED
        BY <2>3, <3>1, <3>2
    <2> QED
      BY <2>2, <2>6
  <1> QED
    BY <1>2, <1>4, <1>5 DEF Walk, tl

LEMMA WalkStarts ==
  ASSUME NEW tree, Source!IsTree(tree), NEW S, S = {n \in tree : n.at = <<>>}
  PROVE  Walk(Source!Sorted(S), {}, tree)
  <1> DEFINE td == Source!Sorted(S)
  <1>1. /\ td \in Seq(S)
        /\ \A n \in S : \E i \in 1..Len(td) : td[i] = n
        /\ \A i, j \in 1..Len(td) : i < j => Source!Precedes(td[i], td[j])
    <2>1. S \in SUBSET tree /\ \A n, m \in S : n.at = m.at
      OBVIOUS
    <2> QED
      BY <2>1, SortedFacts
  <1> HIDE DEF td
  <1>2. \A i \in 1..Len(td) : td[i] \in S
    BY <1>1, ElementOfSeq
  <1>3. td \in Seq(tree)
    <2>1. Len(td) \in Nat /\ td \in [1..Len(td) -> S]
      BY <1>1, LenProperties
    <2> QED
      BY <2>1
  <1>4. \A i \in 1..Len(td) : td[i].at = <<>> /\ Len(td[i].at) = 0
    BY <1>2
  <1>5. Ordered(td)
    BY <1>1, <1>4 DEF Ordered
  <1>6. \A i \in 1..Len(td) : \A n \in DataFor(tree, td[i]) : n \in S
    <2> SUFFICES ASSUME NEW i \in 1..Len(td), NEW n \in DataFor(tree, td[i]) PROVE n \in S
      OBVIOUS
    <2>1. n \in tree /\ Source!IsPrefix(n.at, <<>>)
      BY <1>4 DEF DataFor
    <2>2. n.at \in Seq(STRING)
      BY <2>1, TreeNodes
    <2> QED
      BY <2>1, <2>2, NoPrefix
  <1>7. Pending(td, {}, tree)
    BY <1>1, <1>4, <1>6 DEF Pending
  <1> QED
    BY <1>3, <1>5, <1>7 DEF Walk, td

LEMMA WalkDescends ==
  ASSUME NEW tree, Source!IsTree(tree), NEW td, NEW dt, Walk(td, dt, tree), td # <<>>, Head(td).kind = "dir",
         NEW S, S = {n \in tree : n.at = Source!Path(Head(td))}
  PROVE  Walk(Source!Sorted(S) \o Tail(td), dt, tree)
  <1> DEFINE x  == Head(td)
             a  == Source!Sorted(S)
             tl == Tail(td)
             d  == a \o tl
             la == Len(a)
             lt == Len(tl)
  <1>1. td \in Seq(tree) /\ Len(td) \in Nat /\ 1 \in 1..Len(td) /\ x = td[1] /\ x \in tree
    BY LenProperties, EmptySeq, HeadTailProperties DEF Walk
  <1>2. Walk(tl, dt, tree)
    BY WalkContinues, <1>1 DEF Source!IsData
  <1>3. Merged(dt, tree, x)
    BY WalkHead DEF UsesData
  <1>4. /\ a \in Seq(S)
        /\ \A n \in S : \E i \in 1..la : a[i] = n
        /\ \A i, j \in 1..la : i < j => Source!Precedes(a[i], a[j])
    <2>1. S \in SUBSET tree /\ \A n, m \in S : n.at = m.at
      OBVIOUS
    <2> QED
      BY <2>1, SortedFacts
  <1>5. \A i \in 1..lt : Len(tl[i].at) \in Nat /\ Len(tl[i].at) <= Len(x.at)
    <2> SUFFICES ASSUME NEW i \in 1..lt PROVE Len(tl[i].at) \in Nat /\ Len(tl[i].at) <= Len(x.at)
      OBVIOUS
    <2>1. lt = Len(td) - 1 /\ tl[i] = td[i + 1] /\ lt \in Nat
      BY <1>1, HeadTailProperties, LenProperties
    <2>2. i + 1 \in 1..Len(td) /\ 1 < i + 1
      BY <1>1, <2>1
    <2>3. Len(td[i + 1].at) <= Len(td[1].at)
      BY <1>1, <2>2 DEF Walk, Ordered
    <2>4. tl[i] \in tree
      BY <1>2, ElementOfSeq DEF Walk
    <2> QED
      BY <1>1, <2>1, <2>3, <2>4, TreeNodes, LenProperties
  <1>6. x.at \in Seq(STRING) /\ x.src \in STRING /\ Source!Path(x) = Append(x.at, x.src)
    BY <1>1, TreeNodes DEF Source!Path
  <1>7. Len(x.at) \in Nat /\ Source!Path(x) \in Seq(STRING) /\ Len(Source!Path(x)) = Len(x.at) + 1
    BY <1>6, AppendProperties, LenProperties
  <1> HIDE DEF x, a, tl
  <1>8. \A i \in 1..la : a[i] \in S /\ a[i] \in tree /\ a[i].at = Source!Path(x)
    <2>1. \A i \in 1..la : a[i] \in S
      BY <1>4, ElementOfSeq
    <2> QED
      BY <2>1 DEF x
  <1>9. a \in Seq(tree) /\ tl \in Seq(tree) /\ la \in Nat /\ lt \in Nat
    <2>1. la \in Nat /\ a \in [1..la -> S]
      BY <1>4, LenProperties
    <2>2. a \in Seq(tree)
      BY <2>1, <1>8
    <2>3. tl \in Seq(tree)
      BY <1>2 DEF Walk
    <2> QED
      BY <2>1, <2>2, <2>3, LenProperties
  <1>10. d \in Seq(tree) /\ Len(d) = la + lt /\ \A i \in 1..(la + lt) : d[i] = IF i <= la THEN a[i] ELSE tl[i - la]
    BY <1>9, ConcatProperties
  <1> HIDE DEF d, la, lt
  <1>11. \A i \in 1..Len(d) : (i \in 1..la /\ d[i] = a[i]) \/ (i - la \in 1..lt /\ d[i] = tl[i - la])
    BY <1>9, <1>10
  <1>12. Ordered(d)
    <2> SUFFICES ASSUME NEW i \in 1..Len(d), NEW j \in 1..Len(d), i < j
                 PROVE  Len(d[j].at) <= Len(d[i].at) /\ (d[j].at = d[i].at => Source!Precedes(d[i], d[j]))
      BY DEF Ordered
    <2>1. CASE i \in 1..la /\ d[i] = a[i] /\ j \in 1..la /\ d[j] = a[j]
      <3>1. d[i].at = Source!Path(x) /\ d[j].at = Source!Path(x)
        BY <1>8, <2>1
      <3>2. Len(d[j].at) <= Len(d[i].at)
        BY <1>7, <3>1
      <3>3. Source!Precedes(a[i], a[j])
        BY <1>4, <2>1 DEF la
      <3> QED
        BY <2>1, <3>2, <3>3
    <2>2. CASE i \in 1..la /\ d[i] = a[i] /\ j - la \in 1..lt /\ d[j] = tl[j - la]
      <3>1. d[i].at = Source!Path(x)
        BY <1>8, <2>2
      <3>2. Len(d[j].at) \in Nat /\ Len(d[j].at) <= Len(x.at)
        BY <1>5, <2>2
      <3>3. Len(d[i].at) = Len(x.at) + 1
        BY <1>7, <3>1
      <3>4. Len(d[j].at) <= Len(d[i].at) /\ Len(d[j].at) # Len(d[i].at)
        BY <1>7, <3>2, <3>3
      <3>5. d[j].at # d[i].at
        BY <3>4
      <3> QED
        BY <3>4, <3>5
    <2>3. CASE i - la \in 1..lt /\ d[i] = tl[i - la] /\ j - la \in 1..lt /\ d[j] = tl[j - la]
      <3>1. i - la < j - la
        BY <1>9, <1>10
      <3>2. Ordered(tl)
        BY <1>2 DEF Walk
      <3> QED
        BY <2>3, <3>1, <3>2 DEF Ordered, lt
    <2>4. ~(i - la \in 1..lt /\ j \in 1..la)
      BY <1>9, <1>10
    <2> QED
      BY <1>11, <2>1, <2>2, <2>3, <2>4
  <1>13. \A i \in 1..la : i \in 1..Len(d) /\ d[i] = a[i]
    BY <1>9, <1>10
  <1>14. \A i \in 1..lt : i + la \in 1..Len(d) /\ d[i + la] = tl[i]
    <2> SUFFICES ASSUME NEW i \in 1..lt PROVE i + la \in 1..Len(d) /\ d[i + la] = tl[i]
      OBVIOUS
    <2>1. i + la \in 1..(la + lt) /\ ~(i + la <= la) /\ (i + la) - la = i
      BY <1>9
    <2>2. d[i + la] = tl[(i + la) - la]
      BY <1>10, <2>1
    <2> QED
      BY <1>10, <2>1, <2>2
  <1>15. Pending(d, dt, tree)
    <2> SUFFICES ASSUME NEW i \in 1..Len(d), NEW n \in DataFor(tree, d[i]), Source!Path(n) \notin dt
                 PROVE  n.at = d[i].at /\ \E j \in 1..Len(d) : d[j] = n
      BY DEF Pending
    <2>1. n \in tree /\ Source!IsData(n) /\ Source!IsPrefix(n.at, d[i].at)
      BY DEF DataFor
    <2>2. CASE i \in 1..la /\ d[i] = a[i]
      <3>1. Source!IsPrefix(n.at, Append(x.at, x.src)) /\ d[i].at = Source!Path(x)
        BY <1>6, <1>8, <2>1, <2>2
      <3>2. ~Source!IsPrefix(n.at, x.at)
        BY <1>3, <2>1 DEF Merged, DataFor, x
      <3>3. n.at = Source!Path(x)
        BY <1>6, <2>1, <3>1, <3>2, PrefixFacts, TreeNodes
      <3>4. n \in S
        BY <2>1, <3>3 DEF x
      <3> QED
        BY <1>4, <1>13, <3>1, <3>3, <3>4 DEF la
    <2>3. CASE i - la \in 1..lt /\ d[i] = tl[i - la]
      <3>1. n.at = tl[i - la].at /\ \E j \in 1..lt : tl[j] = n
        BY <1>2, <2>3 DEF Walk, Pending, lt
      <3> QED
        BY <1>14, <2>3, <3>1
    <2> QED
      BY <1>11, <2>2, <2>3
  <1> QED
    BY <1>10, <1>12, <1>15 DEF Walk, d, a, tl

\* What lies in .chezmoiexternals and .chezmoiscripts sees the data that there is.
LEMMA PooledMerged ==
  ASSUME NEW tree, Source!IsTree(tree), NEW td, NEW dt, Walk(td, dt, tree), td # <<>>,
         Head(td).kind \in {"externals", "scripts"},
         NEW y \in tree, y.at = Source!Path(Head(td))
  PROVE  Merged(dt, tree, y)
  <1> DEFINE x == Head(td)
  <1>1. x \in tree
    BY HeadTailProperties DEF Walk
  <1>2. Merged(dt, tree, x)
    BY WalkHead DEF UsesData
  <1>3. x.at \in Seq(STRING) /\ x.src \in STRING /\ Source!Path(x) = Append(x.at, x.src) /\ Source!Path(x) \in Seq(STRING)
    BY <1>1, TreeNodes DEF Source!Path
  <1> SUFFICES ASSUME NEW n \in tree, Source!IsData(n), Source!IsPrefix(n.at, y.at)
               PROVE  Source!Path(n) \in dt
    BY DEF Merged, DataFor
  <1>4. n.at # Source!Path(x)
    <2>1. Source!IsPrefix(Source!Path(x), Source!Path(x))
      BY <1>3, PrefixFacts
    <2> QED
      BY <1>1, <2>1, Zenon DEF Source!IsTree
  <1>5. Source!IsPrefix(n.at, x.at)
    <2>1. n.at \in Seq(STRING) /\ Source!IsPrefix(n.at, Append(x.at, x.src))
      BY <1>3, TreeNodes
    <2> HIDE DEF x
    <2> QED
      BY <1>3, <1>4, <2>1, PrefixFacts
  <1> QED
    BY <1>2, <1>5 DEF Merged, DataFor

-----------------------------------------------------------------------------
(* Entries.                                                                 *)

EntryTypes == {"dir", "implicit", "file", "script", "remove", "command"}
Froms == STRING \cup Seq(STRING) \cup {".chezmoiremove", "pull", "clone"}
Attributes == STRING \cup {"exact"}
EntrySet == [type : EntryTypes, from : Froms, attr : SUBSET Attributes]
EntriesTyped(es) == \A t \in DOMAIN es : es[t] \in Seq(EntrySet) /\ es[t] # <<>>
ExternalsTyped(x) == IsFiniteSet(DOMAIN x) /\ \A t \in DOMAIN x : x[t] \in Seq(Source!ExternalsDeclared)

LEMMA EntryTyped ==
  ASSUME NEW type \in EntryTypes, NEW from \in Froms, NEW attr \in SUBSET Attributes
  PROVE  Source!Entry(type, from, attr) \in EntrySet
  BY DEF Source!Entry, EntrySet

LEMMA PlainEntry ==
  /\ Source!Plain \in SUBSET Attributes
  /\ {"dir", "implicit", "file", "script", "remove", "command"} \subseteq EntryTypes
  /\ \A f \in STRING : f \in Froms
  /\ \A f \in Seq(STRING) : f \in Froms
  BY DEF Source!Plain, EntryTypes, Froms, Attributes

LEMMA Words ==
  /\ ".chezmoiremove" \in Froms /\ "pull" \in Froms /\ "clone" \in Froms
  /\ {"exact"} \in SUBSET Attributes
  BY DEF Froms, Attributes

LEMMA TypedEntry == \A e \in EntrySet : e.type \in EntryTypes /\ e.from \in Froms /\ e.attr \in SUBSET Attributes
  BY DEF EntrySet

LEMMA ConcatNonEmpty ==
  ASSUME NEW S, NEW a \in Seq(S), NEW b \in Seq(S), a # <<>> \/ b # <<>>
  PROVE  a \o b \in Seq(S) /\ a \o b # <<>>
  <1>1. Len(a) \in Nat /\ Len(b) \in Nat /\ (Len(a) # 0 \/ Len(b) # 0)
    BY LenProperties
  <1>2. a \o b \in Seq(S) /\ Len(a \o b) = Len(a) + Len(b)
    BY ConcatProperties
  <1>3. Len(a \o b) # 0
    BY <1>1, <1>2
  <1>4. a \o b = <<>> => Len(a \o b) = 0
    BY EmptySeq
  <1> QED
    BY <1>2, <1>3, <1>4

LEMMA PutTyped ==
  ASSUME NEW es, EntriesTyped(es), NEW t, NEW e \in EntrySet
  PROVE  EntriesTyped(Source!Put(es, t, e))
  <1> DEFINE more == [u \in DOMAIN es \cup {t} |->
                        IF u # t THEN es[u] ELSE IF t \in DOMAIN es THEN Append(es[t], e) ELSE <<e>>]
  <1>1. <<e>> \in Seq(EntrySet) /\ <<e>> # <<>>
    OBVIOUS
  <1>2. t \in DOMAIN es => Append(es[t], e) \in Seq(EntrySet) /\ Append(es[t], e) # <<>>
    BY AppendProperties DEF EntriesTyped
  <1>3. \A u \in DOMAIN es \cup {t} : more[u] \in Seq(EntrySet) /\ more[u] # <<>>
    BY <1>1, <1>2 DEF EntriesTyped
  <1>4. EntriesTyped(more)
    BY <1>3 DEF EntriesTyped
  <1> QED
    BY <1>4 DEF Source!Put

\* Entries that are added at the end of what there is.
Added(es, T, new) ==
  [t \in DOMAIN es \cup T |-> (IF t \in DOMAIN es THEN es[t] ELSE <<>>) \o (IF t \in T THEN new[t] ELSE <<>>)]

LEMMA AddedTyped ==
  ASSUME NEW es, EntriesTyped(es), NEW T, NEW new, \A t \in T : new[t] \in Seq(EntrySet) /\ new[t] # <<>>
  PROVE  EntriesTyped(Added(es, T, new))
  <1> DEFINE a(t) == IF t \in DOMAIN es THEN es[t] ELSE <<>>
             b(t) == IF t \in T THEN new[t] ELSE <<>>
             more == [t \in DOMAIN es \cup T |-> a(t) \o b(t)]
  <1>1. <<>> \in Seq(EntrySet)
    BY EmptySeq
  <1>2. \A t : a(t) \in Seq(EntrySet) /\ b(t) \in Seq(EntrySet)
    BY <1>1 DEF EntriesTyped
  <1>5. \A t \in DOMAIN es \cup T : a(t) # <<>> \/ b(t) # <<>>
    BY DEF EntriesTyped
  <1> HIDE DEF a, b
  <1>3. \A t \in DOMAIN es \cup T : a(t) \o b(t) \in Seq(EntrySet) /\ a(t) \o b(t) # <<>>
    BY <1>2, <1>5, ConcatNonEmpty
  <1>4. EntriesTyped(more)
    BY <1>3 DEF EntriesTyped
  <1> QED
    BY <1>4 DEF a, b, Added

\* What one target has of results.
Of(rs, u) == {r[2] : r \in {r \in rs : r[1] = u}}

LEMMA PutAllTyped ==
  ASSUME NEW es, EntriesTyped(es), NEW rs,
         \A u : IsFiniteSet(Of(rs, u)) /\ Of(rs, u) \subseteq EntrySet
  PROVE  EntriesTyped(Source!PutAll(es, rs))
  <1> DEFINE a(u) == IF u \in DOMAIN es THEN es[u] ELSE <<>>
             b(u) == Source!SetToSeq(Of(rs, u))
             more == [u \in DOMAIN es \cup {r[1] : r \in rs} |-> a(u) \o b(u)]
  <1>1. \A u : a(u) \in Seq(EntrySet)
    BY EmptySeq DEF EntriesTyped
  <1>2. \A u : b(u) \in Seq(EntrySet) /\ (Of(rs, u) # {} => b(u) # <<>>)
    <2> SUFFICES ASSUME NEW u PROVE b(u) \in Seq(EntrySet) /\ (Of(rs, u) # {} => b(u) # <<>>)
      OBVIOUS
    <2> DEFINE s == Of(rs, u)
               q == Source!SetToSeq(s)
    <2>1. IsFiniteSet(s) /\ s \subseteq EntrySet
      OBVIOUS
    <2>2. q \in Seq(s) /\ (s # {} => q # <<>>)
      <3> HIDE DEF s
      <3> QED
        BY <2>1, AnyOrder
    <2> HIDE DEF s, q
    <2>4. q \in Seq(EntrySet)
      BY <2>1, <2>2, SeqOver
    <2> QED
      BY <2>2, <2>4 DEF q, s
  <1>6. \A u \in DOMAIN es \cup {r[1] : r \in rs} : u \in DOMAIN es \/ Of(rs, u) # {}
    BY DEF Of
  <1>7. \A u \in DOMAIN es \cup {r[1] : r \in rs} : a(u) # <<>> \/ b(u) # <<>>
    BY <1>2, <1>6 DEF EntriesTyped
  <1> HIDE DEF a, b
  <1>3. \A u \in DOMAIN es \cup {r[1] : r \in rs} : a(u) \o b(u) \in Seq(EntrySet) /\ a(u) \o b(u) # <<>>
    BY <1>1, <1>2, <1>7, ConcatNonEmpty
  <1>4. EntriesTyped(more)
    BY <1>3 DEF EntriesTyped
  <1>5. Source!PutAll(es, rs) = more
    BY Zenon DEF Source!PutAll, Of, a, b
  <1> QED
    BY <1>4, <1>5

LEMMA OneResult ==
  ASSUME NEW T, NEW entry, NEW rs, rs = {<<t, entry[t]>> : t \in T}, \A t \in T : entry[t] \in EntrySet
  PROVE  \A u : IsFiniteSet(Of(rs, u)) /\ Of(rs, u) \subseteq EntrySet
  <1> SUFFICES ASSUME NEW u PROVE IsFiniteSet(Of(rs, u)) /\ Of(rs, u) \subseteq EntrySet
    OBVIOUS
  <1>1. Of(rs, u) \subseteq {entry[u]} /\ Of(rs, u) \subseteq EntrySet
    BY DEF Of
  <1>2. IsFiniteSet({entry[u]})
    BY FS_Singleton
  <1> QED
    BY <1>1, <1>2, FS_Subset

LEMMA ResultsTyped ==
  ASSUME NEW t, NEW e \in Source!ExternalsDeclared, NEW rs \in SUBSET Source!Results(t, e)
  PROVE  \A u : IsFiniteSet(Of(rs, u)) /\ Of(rs, u) \subseteq EntrySet
  <1> DEFINE attr == IF e.exact THEN {"exact"} ELSE Source!Plain
             E1 == Source!Entry("implicit", e.of, Source!Plain)
             E2 == Source!Entry("file", e.of, Source!Plain)
             E3 == Source!Entry("dir", e.of, attr)
             K  == {E1, E2, E3}
  <1>1. /\ e.of \in STRING /\ e.type \in {"file", "archive", "archive-file", "git-repo"}
        /\ \A c \in e.contents : c.kind \in {"dir", "file"}
    BY DEF Source!ExternalsDeclared
  <1>2. K \subseteq EntrySet
    <2>1. attr \in SUBSET Attributes
      BY Words, PlainEntry
    <2>2. E1 \in EntrySet /\ E2 \in EntrySet
      BY <1>1, EntryTyped, PlainEntry
    <2> HIDE DEF attr
    <2>3. E3 \in EntrySet
      BY <1>1, <2>1, EntryTyped, PlainEntry
    <2> HIDE DEF E1, E2, E3
    <2> QED
      BY <2>2, <2>3
  <1>3. IsFiniteSet(K)
    <2> HIDE DEF E1, E2, E3
    <2>1. IsFiniteSet({E1})
      BY FS_Singleton
    <2>2. IsFiniteSet({E1} \cup {E2})
      BY <2>1, FS_AddElement
    <2>3. IsFiniteSet(({E1} \cup {E2}) \cup {E3})
      BY <2>2, FS_AddElement
    <2>4. K = ({E1} \cup {E2}) \cup {E3}
      OBVIOUS
    <2> QED
      BY <2>3, <2>4
  <1>4. \A r \in Source!ImplicitParents(t, e.of) : r[2] = E1
    BY DEF Source!ImplicitParents
  <1>5. \A r \in Source!Results(t, e) : r[2] \in K
    <2>1. CASE e.type = "git-repo"
      BY <2>1 DEF Source!Results
    <2>2. CASE e.type \in {"file", "archive-file"}
      BY <1>4, <2>2 DEF Source!Results
    <2>3. CASE e.type = "archive"
      <3> SUFFICES ASSUME NEW r \in Source!Results(t, e) PROVE r[2] \in K
        OBVIOUS
      <3>1. \/ r[2] = E3
            \/ r \in Source!ImplicitParents(t, e.of)
            \/ \E c \in e.contents : r[2] = Source!Entry(c.kind, e.of, IF c.kind = "dir" THEN attr ELSE Source!Plain)
        BY <2>3 DEF Source!Results
      <3> QED
        BY <1>1, <1>4, <3>1
    <2> QED
      BY <1>1, <2>1, <2>2, <2>3
  <1> HIDE DEF K
  <1>6. \A u : Of(rs, u) \subseteq K
    BY <1>5 DEF Of
  <1> QED
    BY <1>2, <1>3, <1>6, FS_Subset

LEMMA CanonicalTyped ==
  ASSUME NEW seq \in Seq(EntrySet), seq # <<>>
  PROVE  Source!Canonical(seq) \in Seq(EntrySet) /\ Source!Canonical(seq) # <<>>
  <1> DEFINE real == {i \in DOMAIN seq : seq[i].type = "dir"}
             last == CHOOSE i \in real : \A j \in real : j <= i
  <1>1. Len(seq) \in Nat /\ DOMAIN seq = 1..Len(seq) /\ 1 \in DOMAIN seq
    BY LenProperties, EmptySeq
  <1>2. \A i \in DOMAIN seq : <<seq[i]>> \in Seq(EntrySet) /\ <<seq[i]>> # <<>>
    BY <1>1, ElementOfSeq
  <1>3. real # {} => last \in DOMAIN seq
    <2>1. real \in SUBSET (1..Len(seq))
      BY <1>1
    <2>2. real # {} => \E i \in real : \A j \in real : j <= i
      <3> HIDE DEF real
      <3> QED
        BY <1>1, <2>1, LastPlace
    <2> HIDE DEF real
    <2>3. real # {} => last \in real
      BY <2>2
    <2> QED
      BY <1>1, <2>1, <2>3
  <1>4. Source!Canonical(seq) \in {seq, <<seq[last]>>, <<seq[1]>>} /\ (Source!Canonical(seq) = <<seq[last]>> => real # {} \/ Source!Canonical(seq) \in {seq, <<seq[1]>>})
    BY DEF Source!Canonical
  <1> QED
    BY <1>1, <1>2, <1>3, <1>4

LEMMA WithoutIgnoredTyped ==
  ASSUME NEW es, EntriesTyped(es) PROVE EntriesTyped(Source!WithoutIgnored(es))
  BY DEF EntriesTyped, Source!WithoutIgnored

LEMMA CanonicalsTyped ==
  ASSUME NEW es, EntriesTyped(es) PROVE EntriesTyped(Source!Canonicals(es))
  BY CanonicalTyped DEF EntriesTyped, Source!Canonicals

LEMMA WithRemovesTyped ==
  ASSUME NEW es, EntriesTyped(es) PROVE EntriesTyped(Source!WithRemoves(es))
  <1> DEFINE e == Source!Entry("remove", ".chezmoiremove", Source!Plain)
             T == {t \in source.dest : /\ \E p \in remove : p.include /\ Source!Glob(p, t)
                                       /\ ~\E p \in remove : ~p.include /\ Source!Glob(p, t)
                                       /\ ~Source!Ignored(ignore, t)}
             entry == [t \in T |-> e]
             rs == {<<t, entry[t]>> : t \in T}
  <1>1. e \in EntrySet
    <2>1. ".chezmoiremove" \in Froms /\ "remove" \in EntryTypes
      BY Words DEF EntryTypes
    <2> QED
      BY <2>1, EntryTyped, PlainEntry
  <1>2. Source!WithRemoves(es) = Source!PutAll(es, {<<t, e>> : t \in T})
    BY Zenon DEF Source!WithRemoves
  <1> HIDE DEF e, T
  <1>3. {<<t, e>> : t \in T} = rs
    OBVIOUS
  <1>4. \A t \in T : entry[t] \in EntrySet
    BY <1>1
  <1> HIDE DEF entry
  <1>5. \A u : IsFiniteSet(Of(rs, u)) /\ Of(rs, u) \subseteq EntrySet
    BY <1>4, OneResult
  <1> HIDE DEF rs
  <1> QED
    BY <1>2, <1>3, <1>5, PutAllTyped

LEMMA WithExactTyped ==
  ASSUME NEW es, EntriesTyped(es) PROVE EntriesTyped(Source!WithExact(es))
  <1> DEFINE exact == {t \in DOMAIN es : Len(es[t]) = 1 /\ es[t][1].type = "dir" /\ "exact" \in es[t][1].attr}
             e(t) == Source!Entry("remove", es[Source!Front(t)][1].from, Source!Plain)
             T == {t \in source.dest \ DOMAIN es : Source!Front(t) \in exact /\ ~Source!Ignored(ignore, t)}
             entry == [t \in T |-> e(t)]
             rs == {<<t, entry[t]>> : t \in T}
  <1>1. \A t \in T : e(t) \in EntrySet
    <2> SUFFICES ASSUME NEW t \in T PROVE e(t) \in EntrySet
      OBVIOUS
    <2> DEFINE f == Source!Front(t)
    <2>1. f \in DOMAIN es /\ Len(es[f]) = 1 /\ es[f] \in Seq(EntrySet)
      BY DEF EntriesTyped
    <2> HIDE DEF f
    <2>5. 1 \in 1..Len(es[f])
      BY <2>1
    <2>2. es[f][1] \in EntrySet
      BY <2>1, <2>5, ElementOfSeq
    <2>3. es[f][1].from \in Froms
      BY <2>2, TypedEntry
    <2>4. Source!Entry("remove", es[f][1].from, Source!Plain) \in EntrySet
      BY <2>3, EntryTyped, PlainEntry
    <2> QED
      BY <2>4 DEF f
  <1>2. Source!WithExact(es) = Source!PutAll(es, {<<t, e(t)>> : t \in T})
    BY Zenon DEF Source!WithExact
  <1> HIDE DEF e, T
  <1>3. {<<t, e(t)>> : t \in T} = rs
    OBVIOUS
  <1>4. \A t \in T : entry[t] \in EntrySet
    BY <1>1
  <1> HIDE DEF entry
  <1>5. \A u : IsFiniteSet(Of(rs, u)) /\ Of(rs, u) \subseteq EntrySet
    BY <1>4, OneResult
  <1> HIDE DEF rs
  <1> QED
    BY <1>2, <1>3, <1>5, PutAllTyped

LEMMA WithReposTyped ==
  ASSUME NEW es, EntriesTyped(es), ExternalsTyped(externals) PROVE EntriesTyped(Source!WithRepos(es))
  <1> DEFINE repos(t) == {i \in DOMAIN externals[t] : externals[t][i].type = "git-repo"}
             count(t) == Source!Cardinality(repos(t)) * Len(externals[t])
             T == {t \in DOMAIN externals : ~Source!Ignored(ignore, t) /\ count(t) > 0}
             command(t) == Source!Entry("command", IF t \in source.dest THEN "pull" ELSE "clone", Source!Plain)
             new == [t \in T |-> [i \in 1..count(t) |-> command(t)]]
             more == Added(es, T, new)
  <1>1. \A t : command(t) \in EntrySet
    <2> DEFINE how(t) == IF t \in source.dest THEN "pull" ELSE "clone"
    <2>1. \A t : how(t) \in Froms
      BY Words
    <2> HIDE DEF how
    <2>2. \A t : Source!Entry("command", how(t), Source!Plain) \in EntrySet
      BY <2>1, EntryTyped, PlainEntry
    <2> QED
      BY <2>2 DEF how
  <1>2. \A t \in DOMAIN externals : count(t) \in Nat
    <2> SUFFICES ASSUME NEW t \in DOMAIN externals PROVE count(t) \in Nat
      OBVIOUS
    <2>1. Len(externals[t]) \in Nat /\ DOMAIN externals[t] = 1..Len(externals[t])
      BY LenProperties DEF ExternalsTyped
    <2>4. repos(t) \in SUBSET (1..Len(externals[t]))
      BY <2>1
    <2>5. IsFiniteSet(1..Len(externals[t]))
      BY <2>1, FS_Interval
    <2>2. IsFiniteSet(repos(t))
      BY <2>4, <2>5, FS_Subset
    <2>3. Source!Cardinality(repos(t)) \in Nat
      BY <2>2, FS_CardinalityType, SameCardinality
    <2> HIDE DEF repos
    <2> QED
      BY <2>1, <2>3
  <1>3. Source!WithRepos(es) = [t \in DOMAIN es \cup T |->
          (IF t \in DOMAIN es THEN es[t] ELSE <<>>) \o (IF t \in T THEN [i \in 1..count(t) |-> command(t)] ELSE <<>>)]
    BY Zenon DEF Source!WithRepos
  <1>4. \A t \in T : count(t) \in Nat /\ 1 \in 1..count(t)
    BY <1>2
  <1> HIDE DEF command, count, T
  <1>5. \A t \in T : new[t] \in Seq(EntrySet) /\ new[t] # <<>>
    BY <1>1, <1>4
  <1>6. Source!WithRepos(es) = more
    BY <1>3 DEF Added
  <1> HIDE DEF new
  <1>7. EntriesTyped(more)
    BY <1>5, AddedTyped
  <1> QED
    BY <1>6, <1>7

-----------------------------------------------------------------------------
(* Reading the source directory: the invariant.                             *)

Places(x) == UNION {{<<t, i>> : i \in DOMAIN x[t]} : t \in DOMAIN x}

SourceTree ==
  /\ "tree" \in DOMAIN source /\ Source!IsTree(source.tree)
  /\ phase \in Source!Phases /\ round \in 1..MaxRounds

SourceEntries ==
  /\ EntriesTyped(entries) /\ ExternalsTyped(externals)
  /\ \A t \in DOMAIN root : root[t] \in EntrySet

SourceWalk ==
  /\ phase = "walk" => Walk(todo, data, source.tree)
  /\ phase = "externals" => todo \in Seq(Places(externals))

\* What a template sees is all the data there is for it.
SourceSeen ==
  /\ pool \subseteq source.tree
  /\ cached \in {Source!NoData, data}
  /\ \A y \in pool : Merged(data, source.tree, y)
  /\ \A x \in executed : Merged(x.saw, source.tree, x.node)

SourceInv == SourceTree /\ SourceEntries /\ SourceWalk /\ SourceSeen

LEMMA NothingTyped ==
  /\ EntriesTyped(<<>>) /\ ExternalsTyped(<<>>) /\ \A r : r = <<>> => \A t \in DOMAIN r : r[t] \in EntrySet
  <1>1. DOMAIN <<>> = {}
    OBVIOUS
  <1> QED
    BY <1>1, FS_EmptySet DEF EntriesTyped, ExternalsTyped

LEMMA SourceInitInv == ASSUME Source!SourceAssumption, Source!Init PROVE SourceInv
  <1>1. "tree" \in DOMAIN source /\ Source!IsTree(source.tree) /\ MaxRounds \in Nat \ {0}
    BY DEF Source!Init, Source!SourceAssumption
  <1>2. SourceTree
    BY <1>1 DEF SourceTree, Source!Init, Source!Phases
  <1>3. SourceEntries
    BY NothingTyped DEF SourceEntries, Source!Init
  <1>4. SourceWalk
    <2>1. Walk(Source!Sorted({n \in source.tree : n.at = <<>>}), {}, source.tree)
      BY <1>1, WalkStarts
    <2> QED
      BY <2>1 DEF SourceWalk, Source!Init, Source!Below
  <1>5. SourceSeen
    BY DEF SourceSeen, Source!Init
  <1> QED
    BY <1>2, <1>3, <1>4, <1>5 DEF SourceInv

LEMMA HeadNode ==
  ASSUME SourceInv, phase = "walk", todo # <<>>
  PROVE  /\ Source!IsTree(source.tree) /\ Walk(todo, data, source.tree) /\ Head(todo) \in source.tree
  BY HeadTailProperties DEF SourceInv, SourceTree, SourceWalk, Walk

\* A node whose data does not come later is executed with all there is for it.
LEMMA ExecuteSeen ==
  ASSUME SourceInv, NEW n, Merged(data, source.tree, n), Source!Execute(n)
  PROVE  /\ cached' = data
         /\ \A x \in executed' : Merged(x.saw, source.tree, x.node)
  <1>1. Source!TemplateData = data
    BY DEF Source!TemplateData, SourceInv, SourceSeen
  <1>2. executed' = executed \cup {[node |-> n, saw |-> data]} /\ cached' = data
    BY <1>1 DEF Source!Execute
  <1> QED
    BY <1>2 DEF SourceInv, SourceSeen

\* The head of the walk is passed; nothing of the source directory changes.
LEMMA Passed ==
  ASSUME SourceInv, phase = "walk", todo # <<>>, Source!Continue, UNCHANGED <<source, phase, round, root>>,
         data \subseteq data', Source!IsData(Head(todo)) => Source!Path(Head(todo)) \in data'
  PROVE  SourceTree' /\ SourceWalk'
  <1>1. Walk(Tail(todo), data', source.tree)
    BY HeadNode, WalkContinues
  <1>2. SourceTree'
    BY DEF SourceInv, SourceTree
  <1>3. SourceWalk'
    BY <1>1 DEF SourceWalk, Source!Continue
  <1> QED
    BY <1>2, <1>3

LEMMA Went ==
  ASSUME SourceInv, phase = "walk", todo # <<>>, Head(todo).kind = "dir", Source!Descend(Head(todo)),
         UNCHANGED <<source, phase, round, root, data>>
  PROVE  SourceTree' /\ SourceWalk'
  <1>1. Walk(Source!Sorted({n \in source.tree : n.at = Source!Path(Head(todo))}) \o Tail(todo), data, source.tree)
    BY HeadNode, WalkDescends
  <1>2. Walk(todo', data', source.tree')
    BY <1>1 DEF Source!Descend, Source!Below
  <1>3. SourceTree'
    BY DEF SourceInv, SourceTree
  <1>4. SourceWalk'
    BY <1>2 DEF SourceWalk
  <1> QED
    BY <1>3, <1>4

LEMMA VisitDataSource == ASSUME SourceInv, Source!VisitData PROVE SourceInv'
  <1>1. /\ phase = "walk" /\ todo # <<>> /\ pool = {} /\ Source!Continue
        /\ data' = data \cup {Source!Path(Head(todo))} /\ cached' = Source!NoData
        /\ UNCHANGED <<source, phase, root, before, round, pool, entries, externals, executed>>
    BY DEF Source!VisitData, Source!Visiting, Source!walkVars
  <1>2. SourceTree' /\ SourceWalk'
    BY <1>1, Passed
  <1>3. SourceEntries'
    BY <1>1 DEF SourceInv, SourceEntries
  <1>4. SourceSeen'
    BY <1>1 DEF SourceInv, SourceSeen
  <1> QED
    BY <1>2, <1>3, <1>4 DEF SourceInv

LEMMA VisitOtherSource == ASSUME SourceInv, Source!VisitOther PROVE SourceInv'
  <1>1. /\ phase = "walk" /\ todo # <<>> /\ Source!Continue /\ Head(todo).kind \in {"version", "templates", "dot"}
        /\ UNCHANGED <<source, phase, root, before, round, pool, entries, externals, executed, data, cached>>
    BY DEF Source!VisitOther, Source!Visiting, Source!walkVars
  <1>2. ~Source!IsData(Head(todo))
    BY <1>1 DEF Source!IsData
  <1>3. SourceTree' /\ SourceWalk'
    BY <1>1, <1>2, Passed
  <1>4. SourceEntries'
    BY <1>1 DEF SourceInv, SourceEntries
  <1>5. SourceSeen'
    BY <1>1 DEF SourceInv, SourceSeen
  <1> QED
    BY <1>3, <1>4, <1>5 DEF SourceInv

LEMMA VisitNothingSource == ASSUME SourceInv, Source!VisitNothing PROVE SourceInv'
  <1>1. /\ phase = "walk" /\ todo # <<>>
        /\ Head(todo).kind \in {"external", "externals", "ignore", "remove", "scripts", "dir", "file"}
        /\ IF Head(todo).kind = "dir" THEN Source!Descend(Head(todo)) ELSE Source!Continue
        /\ UNCHANGED <<source, phase, root, before, round, pool, entries, externals, executed, data, cached>>
    BY DEF Source!VisitNothing, Source!Visiting, Source!walkVars
  <1>2. ~Source!IsData(Head(todo))
    BY <1>1 DEF Source!IsData
  <1>3. SourceTree' /\ SourceWalk'
    BY <1>1, <1>2, Passed, Went
  <1>4. SourceEntries'
    BY <1>1 DEF SourceInv, SourceEntries
  <1>5. SourceSeen'
    BY <1>1 DEF SourceInv, SourceSeen
  <1> QED
    BY <1>3, <1>4, <1>5 DEF SourceInv

LEMMA FailsSource == ASSUME SourceInv, Source!VisitFails \/ Source!ExternalFails PROVE SourceInv'
  <1>1. /\ phase' = "failed"
        /\ UNCHANGED <<source, pool, entries, externals, data, cached, executed, root, round>>
    BY DEF Source!VisitFails, Source!ExternalFails
  <1>2. SourceTree' /\ SourceWalk'
    BY <1>1 DEF SourceInv, SourceTree, SourceWalk, Source!Phases
  <1>3. SourceEntries' /\ SourceSeen'
    BY <1>1 DEF SourceInv, SourceEntries, SourceSeen
  <1> QED
    BY <1>2, <1>3 DEF SourceInv

LEMMA VisitPatternsSource == ASSUME SourceInv, Source!VisitPatterns PROVE SourceInv'
  <1>1. /\ phase = "walk" /\ todo # <<>> /\ Source!Continue /\ Head(todo).kind \in {"ignore", "remove"}
        /\ Source!Execute(Head(todo))
        /\ UNCHANGED <<source, phase, root, before, round, pool, entries, externals, data>>
    BY DEF Source!VisitPatterns, Source!Visiting, Source!walkVars
  <1>2. ~Source!IsData(Head(todo)) /\ UsesData(Head(todo))
    BY <1>1 DEF Source!IsData, UsesData
  <1>3. SourceTree' /\ SourceWalk'
    BY <1>1, <1>2, Passed
  <1>4. SourceEntries'
    BY <1>1 DEF SourceInv, SourceEntries
  <1>5. Merged(data, source.tree, Head(todo))
    BY <1>1, <1>2, HeadNode, WalkHead
  <1>6. SourceSeen'
    BY <1>1, <1>5, ExecuteSeen DEF SourceInv, SourceSeen
  <1> QED
    BY <1>3, <1>4, <1>6 DEF SourceInv

LEMMA ExternalsAdded ==
  ASSUME SourceInv, NEW n \in source.tree, n.kind = "external", Source!AddExternals(n)
  PROVE  ExternalsTyped(externals')
  <1> DEFINE a(t) == IF t \in DOMAIN externals THEN externals[t] ELSE <<>>
             b(t) == IF t \in DOMAIN n.val THEN <<n.val[t]>> ELSE <<>>
             D == Source!ExternalsDeclared
  <1>1. IsFiniteSet(DOMAIN n.val) /\ \A t \in DOMAIN n.val : n.val[t] \in D
    <2>1. Source!IsNode(n)
      BY Zenon DEF SourceInv, SourceTree, Source!IsTree
    <2> QED
      BY <2>1, SameFinite, Zenon DEF Source!IsNode
  <1>2. IsFiniteSet(DOMAIN externals) /\ \A t \in DOMAIN externals : externals[t] \in Seq(D)
    BY DEF SourceInv, SourceEntries, ExternalsTyped
  <1> HIDE DEF D
  <1>3. \A t : a(t) \in Seq(D) /\ b(t) \in Seq(D)
    BY <1>1, <1>2
  <1>4. externals' = [t \in DOMAIN externals \cup DOMAIN n.val |-> a(t) \o b(t)]
    BY DEF Source!AddExternals
  <1>5. IsFiniteSet(DOMAIN externals \cup DOMAIN n.val)
    BY <1>1, <1>2, FS_Union
  <1> HIDE DEF a, b
  <1>6. \A t : a(t) \o b(t) \in Seq(D)
    BY <1>3, ConcatProperties
  <1> QED
    BY <1>4, <1>5, <1>6 DEF ExternalsTyped, D

LEMMA VisitExternalSource == ASSUME SourceInv, Source!VisitExternal PROVE SourceInv'
  <1>1. /\ phase = "walk" /\ todo # <<>> /\ Source!Continue /\ Head(todo).kind = "external"
        /\ Source!AddExternals(Head(todo)) /\ Source!Execute(Head(todo))
        /\ UNCHANGED <<source, phase, root, before, round, pool, entries, data>>
    BY DEF Source!VisitExternal, Source!Visiting, Source!walkVars
  <1>2. ~Source!IsData(Head(todo)) /\ UsesData(Head(todo))
    BY <1>1 DEF Source!IsData, UsesData
  <1>3. SourceTree' /\ SourceWalk'
    BY <1>1, <1>2, Passed
  <1>4. SourceEntries'
    BY <1>1, HeadNode, ExternalsAdded DEF SourceInv, SourceEntries
  <1>5. Merged(data, source.tree, Head(todo))
    BY <1>1, <1>2, HeadNode, WalkHead
  <1>6. SourceSeen'
    BY <1>1, <1>5, ExecuteSeen DEF SourceInv, SourceSeen
  <1> QED
    BY <1>3, <1>4, <1>6 DEF SourceInv

LEMMA VisitConcurrentlySource == ASSUME SourceInv, Source!VisitConcurrently PROVE SourceInv'
  <1>1. /\ phase = "walk" /\ todo # <<>> /\ Source!Continue /\ Head(todo).kind \in {"externals", "scripts"}
        /\ pool' = {n \in source.tree : n.at = Source!Path(Head(todo))}
        /\ UNCHANGED <<source, phase, root, before, round, entries, externals, data, cached, executed>>
    BY DEF Source!VisitConcurrently, Source!Visiting, Source!walkVars, Source!Below
  <1>2. ~Source!IsData(Head(todo))
    BY <1>1 DEF Source!IsData
  <1>3. SourceTree' /\ SourceWalk'
    BY <1>1, <1>2, Passed
  <1>4. SourceEntries'
    BY <1>1 DEF SourceInv, SourceEntries
  <1>5. \A y \in pool' : Merged(data, source.tree, y)
    BY <1>1, HeadNode, PooledMerged
  <1>6. SourceSeen'
    BY <1>1, <1>5 DEF SourceInv, SourceSeen
  <1> QED
    BY <1>3, <1>4, <1>6 DEF SourceInv

LEMMA NamedEntry ==
  ASSUME SourceInv, NEW n \in source.tree, NEW type \in EntryTypes, NEW attr \in SUBSET Attributes
  PROVE  Source!Entry(type, Source!Path(n), attr) \in EntrySet
  <1>1. Source!Path(n) \in Seq(STRING)
    BY TreeNodes DEF SourceInv, SourceTree
  <1> QED
    BY <1>1, EntryTyped, PlainEntry

LEMMA VisitPooledSource == ASSUME SourceInv, NEW n \in pool, Source!VisitPooled(n) PROVE SourceInv'
  <1>1. /\ n \in source.tree /\ phase = "walk" /\ pool' = pool \ {n}
        /\ UNCHANGED <<source, phase, root, before, round, todo, data>>
    BY DEF Source!VisitPooled, Source!walkVars, SourceInv, SourceSeen
  <1>2. SourceTree' /\ SourceWalk'
    BY <1>1 DEF SourceInv, SourceTree, SourceWalk
  <1>3. CASE n.kind = "external"
    <2>1. Source!AddExternals(n) /\ Source!Execute(n) /\ entries' = entries
      BY <1>3 DEF Source!VisitPooled
    <2>2. SourceEntries'
      BY <1>1, <1>3, <2>1, ExternalsAdded DEF SourceInv, SourceEntries
    <2>3. Merged(data, source.tree, n)
      BY DEF SourceInv, SourceSeen
    <2>4. SourceSeen'
      BY <1>1, <2>1, <2>3, ExecuteSeen DEF SourceInv, SourceSeen
    <2> QED
      BY <1>2, <2>2, <2>4 DEF SourceInv
  <1>4. CASE n.kind # "external"
    <2>1. /\ entries' \in {entries, Source!Put(entries, n.target, Source!Entry("script", Source!Path(n), Source!Plain))}
          /\ UNCHANGED <<externals, cached, executed>>
      BY <1>4 DEF Source!VisitPooled
    <2>2. Source!Entry("script", Source!Path(n), Source!Plain) \in EntrySet
      BY <1>1, NamedEntry, PlainEntry DEF EntryTypes
    <2>3. EntriesTyped(entries) /\ EntriesTyped(entries')
      BY <2>1, <2>2, PutTyped DEF SourceInv, SourceEntries
    <2>4. SourceEntries'
      BY <1>1, <2>1, <2>3 DEF SourceInv, SourceEntries
    <2>5. SourceSeen'
      BY <1>1, <2>1 DEF SourceInv, SourceSeen
    <2> QED
      BY <1>2, <2>4, <2>5 DEF SourceInv
  <1> QED
    BY <1>3, <1>4

LEMMA VisitFileSource == ASSUME SourceInv, Source!VisitFile PROVE SourceInv'
  <1> DEFINE n == Head(todo)
  <1>1. /\ phase = "walk" /\ todo # <<>> /\ Source!Continue /\ n.kind = "file"
        /\ entries' \in {entries, Source!Put(entries, n.target, Source!Entry("file", Source!Path(n), Source!Plain))}
        /\ UNCHANGED <<source, phase, root, before, round, pool, externals, data, cached, executed>>
    BY DEF Source!VisitFile, Source!Visiting, Source!walkVars
  <1>2. ~Source!IsData(n)
    BY <1>1 DEF Source!IsData
  <1>3. SourceTree' /\ SourceWalk'
    BY <1>1, <1>2, Passed
  <1>4. n \in source.tree
    BY <1>1, HeadNode
  <1> HIDE DEF n
  <1>5. Source!Entry("file", Source!Path(n), Source!Plain) \in EntrySet
    BY <1>4, NamedEntry, PlainEntry DEF EntryTypes
  <1>6. EntriesTyped(entries) /\ EntriesTyped(entries')
    BY <1>1, <1>5, PutTyped DEF SourceInv, SourceEntries
  <1>7. SourceEntries'
    BY <1>1, <1>6 DEF SourceInv, SourceEntries
  <1>8. SourceSeen'
    BY <1>1 DEF SourceInv, SourceSeen
  <1> QED
    BY <1>3, <1>7, <1>8 DEF SourceInv

\* What an external_ directory holds becomes entries of their targets.
LEMMA HeldTyped ==
  ASSUME SourceInv, NEW n \in source.tree, n.kind = "dir", "external" \in n.val,
         NEW S \in SUBSET Source!Inside(Source!Path(n)), S # {},
         NEW es, es = {Source!Entry(m.kind, Source!Path(m), IF m.kind = "dir" THEN {"exact"} ELSE Source!Plain) : m \in S}
  PROVE  Source!SetToSeq(es) \in Seq(EntrySet) /\ Source!SetToSeq(es) # <<>>
  <1> DEFINE attr(m) == IF m.kind = "dir" THEN {"exact"} ELSE Source!Plain
             e(m) == Source!Entry(m.kind, Source!Path(m), attr(m))
             f == [m \in S |-> e(m)]
             q == Source!SetToSeq(es)
  <1>1. S \in SUBSET source.tree /\ IsFiniteSet(S)
    <2>1. S \in SUBSET source.tree
      BY DEF Source!Inside
    <2> QED
      BY <2>1, TreeNodes, FS_Subset DEF SourceInv, SourceTree
  <1>2. \A m \in S : m.kind \in {"dir", "file"}
    <2>1. \A m \in S : m \in source.tree /\ Source!IsPrefix(Source!Path(n), m.at)
      BY DEF Source!Inside
    <2>2. Source!IsTree(source.tree)
      BY DEF SourceInv, SourceTree
    <2> QED
      BY <2>1, <2>2, Zenon DEF Source!IsTree
  <1>3. \A m : attr(m) \in SUBSET Attributes
    BY Words, PlainEntry
  <1>4. es = {e(m) : m \in S}
    OBVIOUS
  <1> HIDE DEF attr
  <1>5. \A m \in S : e(m) \in EntrySet
    <2>1. \A m \in S : m \in source.tree /\ m.kind \in EntryTypes
      BY <1>1, <1>2 DEF EntryTypes
    <2> QED
      BY <1>3, <2>1, NamedEntry
  <1> HIDE DEF e
  <1>6. es = {f[m] : m \in DOMAIN f} /\ DOMAIN f = S
    BY <1>4
  <1> HIDE DEF f
  <1>7. IsFiniteSet(es)
    <2>1. IsFiniteSet({f[m] : m \in DOMAIN f})
      BY <1>1, <1>6, ImageFinite
    <2> QED
      BY <1>6, <2>1
  <1>8. es \subseteq EntrySet /\ es # {}
    BY <1>4, <1>5
  <1>9. q \in Seq(es) /\ q # <<>>
    BY <1>7, <1>8, AnyOrder
  <1> HIDE DEF q
  <1>11. q \in Seq(EntrySet)
    BY <1>8, <1>9, SeqOver
  <1> QED
    BY <1>9, <1>11 DEF q

LEMMA ExternalDirTyped ==
  ASSUME SourceInv, NEW n \in source.tree, n.kind = "dir", "external" \in n.val,
         NEW here, EntriesTyped(here), NEW inside \in SUBSET Source!Inside(Source!Path(n))
  PROVE  EntriesTyped([t \in DOMAIN here \cup {m.target : m \in inside} |->
           (IF t \in DOMAIN here THEN here[t] ELSE <<>>)
           \o Source!SetToSeq({Source!Entry(m.kind, Source!Path(m), IF m.kind = "dir" THEN {"exact"} ELSE Source!Plain) :
                                 m \in {m \in inside : m.target = t}})])
  <1> DEFINE at(t) == {m \in inside : m.target = t}
             es(t) == {Source!Entry(m.kind, Source!Path(m), IF m.kind = "dir" THEN {"exact"} ELSE Source!Plain) : m \in at(t)}
             a(t) == IF t \in DOMAIN here THEN here[t] ELSE <<>>
             b(t) == Source!SetToSeq(es(t))
             D == DOMAIN here \cup {m.target : m \in inside}
             more == [t \in D |-> a(t) \o b(t)]
  <1>1. \A t : at(t) # {} => b(t) \in Seq(EntrySet) /\ b(t) # <<>>
    <2> SUFFICES ASSUME NEW t, at(t) # {} PROVE b(t) \in Seq(EntrySet) /\ b(t) # <<>>
      OBVIOUS
    <2> DEFINE S == at(t)
               s == es(t)
    <2>1. S \in SUBSET Source!Inside(Source!Path(n)) /\ S # {}
      OBVIOUS
    <2>2. s = {Source!Entry(m.kind, Source!Path(m), IF m.kind = "dir" THEN {"exact"} ELSE Source!Plain) : m \in S}
      OBVIOUS
    <2> HIDE DEF S, s
    <2>3. Source!SetToSeq(s) \in Seq(EntrySet) /\ Source!SetToSeq(s) # <<>>
      BY <2>1, <2>2, HeldTyped
    <2> QED
      BY <2>3 DEF s
  <1>2. \A t : at(t) = {} => b(t) \in Seq(EntrySet)
    <2> SUFFICES ASSUME NEW t, at(t) = {} PROVE b(t) \in Seq(EntrySet)
      OBVIOUS
    <2>1. es(t) = {}
      OBVIOUS
    <2> HIDE DEF es, at
    <2>2. IsFiniteSet({})
      BY FS_EmptySet
    <2>3. Source!SetToSeq({}) \in Seq({})
      BY <2>2, AnyOrder
    <2>4. Source!SetToSeq({}) \in Seq(EntrySet)
      BY <2>3, SeqOver
    <2> QED
      BY <2>1, <2>4
  <1>3. \A t : a(t) \in Seq(EntrySet)
    BY EmptySeq DEF EntriesTyped
  <1>4. \A t \in D : a(t) # <<>> \/ at(t) # {}
    BY DEF EntriesTyped
  <1> HIDE DEF a, es, at
  <1>5. \A t \in D : a(t) \o b(t) \in Seq(EntrySet) /\ a(t) \o b(t) # <<>>
    <2> SUFFICES ASSUME NEW t \in D PROVE a(t) \o b(t) \in Seq(EntrySet) /\ a(t) \o b(t) # <<>>
      OBVIOUS
    <2>1. a(t) \in Seq(EntrySet) /\ b(t) \in Seq(EntrySet) /\ (a(t) # <<>> \/ b(t) # <<>>)
      BY <1>1, <1>2, <1>3, <1>4
    <2> HIDE DEF b
    <2> QED
      BY <2>1, ConcatNonEmpty
  <1> HIDE DEF b, D
  <1>6. EntriesTyped(more)
    BY <1>5 DEF EntriesTyped
  <1> QED
    BY <1>6 DEF a, b, es, at, D

LEMMA VisitDirSource == ASSUME SourceInv, Source!VisitDir PROVE SourceInv'
  <1> DEFINE n == Head(todo)
             here == Source!Put(entries, n.target, Source!Entry("dir", Source!Path(n), n.val))
             inside == Source!ExternalDir(n)
             more == [t \in DOMAIN here \cup {m.target : m \in inside} |->
                       (IF t \in DOMAIN here THEN here[t] ELSE <<>>)
                       \o Source!SetToSeq({Source!Entry(m.kind, Source!Path(m), IF m.kind = "dir" THEN {"exact"} ELSE Source!Plain) :
                                             m \in {m \in inside : m.target = t}})]
  <1>1. /\ phase = "walk" /\ todo # <<>> /\ n.kind = "dir"
        /\ UNCHANGED <<source, phase, root, before, round, pool, externals, data, cached, executed>>
    BY DEF Source!VisitDir, Source!Visiting, Source!walkVars
  <1>2. \/ Source!Continue /\ entries' = entries
        \/ Source!Descend(n) /\ entries' = here
        \/ Source!Continue /\ "external" \in n.val /\ entries' = more
    BY Zenon DEF Source!VisitDir
  <1>3. n \in source.tree /\ ~Source!IsData(n)
    BY <1>1, HeadNode DEF Source!IsData
  <1>4. SourceTree' /\ SourceWalk'
    <2>1. CASE Source!Continue
      BY <1>1, <1>3, <2>1, Passed
    <2>2. CASE Source!Descend(n)
      BY <1>1, <2>2, Went
    <2> QED
      BY <1>2, <2>1, <2>2
  <1>5. EntriesTyped(here)
    <2>1. n.val \in SUBSET Attributes
      BY <1>1, <1>3, TreeNodes DEF SourceInv, SourceTree, Attributes
    <2>2. Source!Entry("dir", Source!Path(n), n.val) \in EntrySet
      <3> HIDE DEF n
      <3> QED
        BY <1>3, <2>1, NamedEntry, PlainEntry
    <2>3. EntriesTyped(entries)
      BY DEF SourceInv, SourceEntries
    <2> DEFINE e == Source!Entry("dir", Source!Path(n), n.val)
    <2> HIDE DEF n, e
    <2> QED
      BY <2>2, <2>3, PutTyped DEF e
  <1>6. "external" \in n.val => EntriesTyped(more)
    <2>1. inside \in SUBSET Source!Inside(Source!Path(n))
      BY DEF Source!ExternalDir
    <2> HIDE DEF n, here, inside
    <2> QED
      BY <1>1, <1>3, <1>5, <2>1, ExternalDirTyped
  <1> HIDE DEF here, more
  <1>7. EntriesTyped(entries')
    BY <1>2, <1>5, <1>6 DEF SourceInv, SourceEntries
  <1>8. SourceEntries'
    BY <1>1, <1>7 DEF SourceInv, SourceEntries
  <1>9. SourceSeen'
    BY <1>1 DEF SourceInv, SourceSeen
  <1> QED
    BY <1>4, <1>8, <1>9 DEF SourceInv

\* The externals that are to be read, in any order.
LEMMA PlacesFinite ==
  ASSUME NEW x, ExternalsTyped(x), NEW T \in SUBSET DOMAIN x
  PROVE  Source!SetToSeq(UNION {{<<t, i>> : i \in DOMAIN x[t]} : t \in T}) \in Seq(Places(x))
  <1> DEFINE row(t) == {<<t, i>> : i \in DOMAIN x[t]}
             f == [t \in T |-> row(t)]
             U == UNION {row(t) : t \in T}
             q == Source!SetToSeq(U)
  <1>1. IsFiniteSet(T)
    BY FS_Subset DEF ExternalsTyped
  <1>2. \A t \in T : IsFiniteSet(row(t))
    <2> SUFFICES ASSUME NEW t \in T PROVE IsFiniteSet(row(t))
      OBVIOUS
    <2> DEFINE g == [i \in DOMAIN x[t] |-> <<t, i>>]
    <2>1. Len(x[t]) \in Nat /\ DOMAIN x[t] = 1..Len(x[t])
      BY LenProperties DEF ExternalsTyped
    <2>2. IsFiniteSet(DOMAIN x[t])
      BY <2>1, FS_Interval
    <2>3. DOMAIN g = DOMAIN x[t] /\ {g[i] : i \in DOMAIN g} = row(t)
      OBVIOUS
    <2> HIDE DEF g, row
    <2> QED
      BY <2>2, <2>3, ImageFinite
  <1>3. U \subseteq Places(x)
    BY DEF Places
  <1>4. IsFiniteSet(U)
    <2> DEFINE rows == {row(t) : t \in T}
    <2>1. DOMAIN f = T /\ {f[t] : t \in DOMAIN f} = rows
      <3> HIDE DEF row
      <3> QED
        OBVIOUS
    <2>2. IsFiniteSet(rows)
      <3> HIDE DEF f, rows
      <3> QED
        BY <1>1, <2>1, ImageFinite
    <2>3. \A r \in rows : IsFiniteSet(r)
      BY <1>2
    <2> HIDE DEF rows
    <2>4. IsFiniteSet(UNION rows)
      BY <2>2, <2>3, FS_UNION
    <2> QED
      BY <2>4 DEF rows
  <1> HIDE DEF U
  <1>5. q \in Seq(U)
    BY <1>4, AnyOrder
  <1> HIDE DEF q
  <1>7. q \in Seq(Places(x))
    BY <1>3, <1>5, SeqOver
  <1> QED
    BY <1>7 DEF q, U

LEMMA WalkEndsSource == ASSUME SourceInv, Source!WalkEnds PROVE SourceInv'
  <1> DEFINE T == {t \in DOMAIN externals : ~Source!Ignored(ignore, t)}
             all == Source!SetToSeq(UNION {{<<t, i>> : i \in DOMAIN externals[t]} : t \in T})
  <1>1. /\ phase' \in {"done", "externals"}
        /\ phase' = "externals" => todo' = all
        /\ UNCHANGED <<source, pool, entries, externals, data, cached, executed, root, round>>
    BY Zenon DEF Source!WalkEnds
  <1>2. all \in Seq(Places(externals))
    <2>1. T \in SUBSET DOMAIN externals /\ ExternalsTyped(externals)
      BY DEF SourceInv, SourceEntries
    <2> HIDE DEF T
    <2> QED
      BY <2>1, PlacesFinite
  <1> HIDE DEF all
  <1>3. SourceTree' /\ SourceWalk'
    BY <1>1, <1>2 DEF SourceInv, SourceTree, SourceWalk, Source!Phases
  <1>4. SourceEntries' /\ SourceSeen'
    BY <1>1 DEF SourceInv, SourceEntries, SourceSeen
  <1> QED
    BY <1>3, <1>4 DEF SourceInv

LEMMA ReadExternalSource == ASSUME SourceInv, Source!ReadExternal PROVE SourceInv'
  <1> DEFINE t == Head(todo)[1]
             e == externals[t][Head(todo)[2]]
             rs == {r \in Source!Results(t, e) : ~Source!Ignored(ignore, r[1])}
             dir == Source!Entry("dir", e.of, Source!Plain)
  <1>1. /\ phase = "externals" /\ todo # <<>> /\ todo' = Tail(todo)
        /\ UNCHANGED <<source, phase, pool, externals, data, cached, executed, round>>
    BY DEF Source!ReadExternal
  <1>2. /\ root' = [p \in DOMAIN root \cup Source!Parents(t) |-> IF p \in DOMAIN root THEN root[p] ELSE dir]
        /\ entries' = Source!PutAll(entries, rs)
    BY Zenon DEF Source!ReadExternal
  <1>3. e \in Source!ExternalsDeclared /\ Tail(todo) \in Seq(Places(externals))
    <2>1. todo \in Seq(Places(externals)) /\ ExternalsTyped(externals)
      BY <1>1 DEF SourceInv, SourceEntries, SourceWalk
    <2>2. Head(todo) \in Places(externals) /\ Tail(todo) \in Seq(Places(externals))
      BY <1>1, <2>1, HeadTailProperties
    <2>3. t \in DOMAIN externals /\ Head(todo)[2] \in DOMAIN externals[t]
      BY <2>2 DEF Places
    <2>4. externals[t] \in Seq(Source!ExternalsDeclared) /\ Head(todo)[2] \in 1..Len(externals[t])
      <3> HIDE DEF t
      <3> QED
        BY <2>1, <2>3, LenProperties DEF ExternalsTyped
    <2>5. e \in Source!ExternalsDeclared
      BY <2>4, ElementOfSeq
    <2> QED
      BY <2>2, <2>5
  <1> HIDE DEF t, e
  <1>4. e.of \in STRING
    BY <1>3 DEF Source!ExternalsDeclared
  <1>5. dir \in EntrySet
    BY <1>4, EntryTyped, PlainEntry DEF Froms
  <1>6. EntriesTyped(entries')
    <2>1. rs \in SUBSET Source!Results(t, e)
      OBVIOUS
    <2> HIDE DEF rs
    <2>2. \A u : IsFiniteSet(Of(rs, u)) /\ Of(rs, u) \subseteq EntrySet
      BY <1>3, <2>1, ResultsTyped
    <2>3. EntriesTyped(entries)
      BY DEF SourceInv, SourceEntries
    <2> QED
      BY <1>2, <2>2, <2>3, PutAllTyped
  <1> HIDE DEF rs, dir
  <1>7. SourceEntries'
    BY <1>1, <1>2, <1>5, <1>6 DEF SourceInv, SourceEntries
  <1>8. SourceTree' /\ SourceWalk'
    BY <1>1, <1>3 DEF SourceInv, SourceTree, SourceWalk
  <1>9. SourceSeen'
    BY <1>1 DEF SourceInv, SourceSeen
  <1> QED
    BY <1>7, <1>8, <1>9 DEF SourceInv

LEMMA AssembleSource == ASSUME SourceInv, Source!Assemble PROVE SourceInv'
  <1> DEFINE es == Source!WithRepos(Source!WithExact(Source!Canonicals(Source!WithRemoves(Source!WithoutIgnored(entries)))))
  <1>1. EntriesTyped(es)
    <2>1. EntriesTyped(entries) /\ ExternalsTyped(externals)
      BY DEF SourceInv, SourceEntries
    <2>2. EntriesTyped(Source!WithoutIgnored(entries))
      BY <2>1, WithoutIgnoredTyped
    <2>3. EntriesTyped(Source!WithRemoves(Source!WithoutIgnored(entries)))
      BY <2>2, WithRemovesTyped
    <2>4. EntriesTyped(Source!Canonicals(Source!WithRemoves(Source!WithoutIgnored(entries))))
      BY <2>3, CanonicalsTyped
    <2>5. EntriesTyped(Source!WithExact(Source!Canonicals(Source!WithRemoves(Source!WithoutIgnored(entries)))))
      BY <2>4, WithExactTyped
    <2> QED
      BY <2>1, <2>5, WithReposTyped
  <1> HIDE DEF es
  <1>2. /\ entries' = es
        /\ phase' \in {"inconsistent", "done"}
        /\ \/ root' = root
           \/ root' = [t \in DOMAIN root \cup DOMAIN es |-> IF t \in DOMAIN es THEN es[t][1] ELSE root[t]]
        /\ UNCHANGED <<source, pool, externals, data, cached, executed, round>>
    BY Zenon DEF Source!Assemble, es
  <1>3. \A t \in DOMAIN es : es[t][1] \in EntrySet
    <2> SUFFICES ASSUME NEW t \in DOMAIN es PROVE es[t][1] \in EntrySet
      OBVIOUS
    <2>1. es[t] \in Seq(EntrySet) /\ es[t] # <<>>
      BY <1>1 DEF EntriesTyped
    <2>2. 1 \in 1..Len(es[t])
      BY <2>1, LenProperties, EmptySeq
    <2> QED
      BY <2>1, <2>2, ElementOfSeq
  <1>4. SourceEntries'
    BY <1>1, <1>2, <1>3 DEF SourceInv, SourceEntries
  <1>5. SourceTree' /\ SourceWalk'
    BY <1>2 DEF SourceInv, SourceTree, SourceWalk, Source!Phases
  <1>6. SourceSeen'
    BY <1>2 DEF SourceInv, SourceSeen
  <1> QED
    BY <1>4, <1>5, <1>6 DEF SourceInv

LEMMA ReadAgainSource == ASSUME Source!SourceAssumption, SourceInv, Source!ReadAgain PROVE SourceInv'
  <1>1. /\ source' = [source EXCEPT !.dest = Source!AppliedTo(@)] /\ round < MaxRounds /\ round' = round + 1
        /\ phase' = "walk" /\ todo' = Source!Sorted({n \in source.tree : n.at = <<>>}) /\ pool' = {}
        /\ entries' = <<>> /\ externals' = <<>> /\ data' = {} /\ cached' = Source!NoData /\ executed' = {} /\ root' = <<>>
    BY DEF Source!ReadAgain, Source!Below
  <1>2. source'.tree = source.tree /\ "tree" \in DOMAIN source'
    BY <1>1 DEF SourceInv, SourceTree
  <1>3. round' \in 1..MaxRounds
    BY <1>1 DEF SourceInv, SourceTree, Source!SourceAssumption
  <1>4. SourceTree'
    BY <1>1, <1>2, <1>3 DEF SourceInv, SourceTree, Source!Phases
  <1>5. SourceEntries'
    BY <1>1, NothingTyped DEF SourceEntries
  <1>6. Walk(Source!Sorted({n \in source.tree : n.at = <<>>}), {}, source.tree)
    BY WalkStarts DEF SourceInv, SourceTree
  <1>7. SourceWalk'
    BY <1>1, <1>2, <1>6 DEF SourceWalk
  <1>8. SourceSeen'
    BY <1>1 DEF SourceSeen
  <1> QED
    BY <1>4, <1>5, <1>7, <1>8 DEF SourceInv

LEMMA SourceStep == ASSUME Source!SourceAssumption, SourceInv, Source!Next PROVE SourceInv'
  BY VisitDataSource, VisitOtherSource, VisitNothingSource, FailsSource, VisitPatternsSource,
     VisitExternalSource, VisitConcurrentlySource, VisitFileSource, VisitDirSource, VisitPooledSource,
     WalkEndsSource, ReadExternalSource, AssembleSource, ReadAgainSource DEF Source!Next

LEMMA SourceTypeOK == ASSUME SourceInv PROVE Source!TypeOK
  <1>1. \A t \in DOMAIN root : root[t].type \in {"dir", "implicit", "file", "script", "remove", "command"}
    BY TypedEntry DEF SourceInv, SourceEntries, EntryTypes
  <1> QED
    BY <1>1 DEF SourceInv, SourceTree, SourceSeen, Source!TypeOK

LEMMA SourceSeesData == ASSUME SourceInv PROVE Source!TemplatesSeeData
  BY DEF SourceInv, SourceSeen, Merged, DataFor, Source!IsData, Source!TemplatesSeeData

\* While the source directory is read, the invariant holds.
SourceInvariantHolds == part = "source" => SourceInv

LEMMA SourceStutter ==
  ASSUME SourceInv, UNCHANGED <<source, phase, todo, pool, entries, externals, data, cached, executed, root, round>>
  PROVE  SourceInv'
  BY DEF SourceInv, SourceTree, SourceEntries, SourceWalk, SourceSeen

LEMMA SourceInvariant == Spec => []SourceInvariantHolds
  <1>1. Init => SourceInvariantHolds
    BY ReadingAssumption, SourceInitInv DEF Init, SourceInvariantHolds
  <1>2. SourceInvariantHolds /\ [Next]_readingVars => SourceInvariantHolds'
    <2> SUFFICES ASSUME SourceInvariantHolds, [Next]_readingVars, part' = "source" PROVE SourceInv'
      BY DEF SourceInvariantHolds
    <2>1. \/ Source!Next
          \/ UNCHANGED <<source, phase, todo, pool, entries, externals, data, cached, executed, root, round>>
      BY DEF Next, SourceNext, ExternalNext, GitHubNext, SecretsNext, readingVars, sourceVars
    <2>2. part = "source"
      BY DEF Next, SourceNext, ExternalNext, GitHubNext, SecretsNext, readingVars
    <2>3. SourceInv
      BY <2>2 DEF SourceInvariantHolds
    <2> QED
      BY <2>1, <2>3, ReadingAssumption, SourceStep, SourceStutter
  <1> QED
    BY <1>1, <1>2, PTL DEF Spec

\* A template of the source directory, executed by the walk or by a goroutine,
\* sees the data of its directory and of those above, whatever the data that an
\* earlier one was given and that was kept (sourcestate.go TemplateData).
THEOREM TemplatesSeeTheirData == Spec => [](part = "source" => Source!TemplatesSeeData)
  <1>1. SourceInvariantHolds => (part = "source" => Source!TemplatesSeeData)
    BY SourceSeesData DEF SourceInvariantHolds
  <1> QED
    BY <1>1, SourceInvariant, PTL

(***************************************************************************)
(* Types.                                                                  *)
(***************************************************************************)

LEMMA SecretTypeOK == ASSUME SecretProof!SInv PROVE Secret!TypeOK
  <1>1. conf \in SecretProof!Configurations /\ DOMAIN cache = SecretProof!CacheNames
        /\ checked \in BOOLEAN /\ run \in {"on", "ended", "crashed"}
    BY DEF SecretProof!SInv, SecretProof!Typed
  <1>2. Secret!Configurations = SecretProof!Configurations /\ Secret!CacheNames = SecretProof!CacheNames
    BY Zenon DEF Secret!Configurations, SecretProof!Configurations, Secret!Modes, SecretProof!Modes,
       Secret!CacheNames, SecretProof!CacheNames
  <1>3. \A w \in conf.team : SecretProof!JobFits(job[w])
    BY DEF SecretProof!SInv, SecretProof!JobsSound
  <1>4. \A w \in conf.team : job[w].pc \in {"idle", "look", "gate", "run", "store"} /\ (job[w].pc # "idle" => job[w].todo # <<>>)
    BY <1>3 DEF SecretProof!JobFits, SecretProof!Jobs
  <1> QED
    BY <1>1, <1>2, <1>4 DEF Secret!TypeOK

\* Whatever is read, and in whatever order, each part keeps to its types: among
\* them that what a template is given never goes beyond the data that was read,
\* and that every target has an entry of a type that can be applied.
THEOREM TypeCorrect == Spec => []TypeOK
  <1>1. SourceInvariantHolds /\ ExternalInv /\ GitHubInv /\ SecretInv => TypeOK
    <2> SUFFICES ASSUME SourceInvariantHolds, ExternalInv, GitHubInv, SecretInv PROVE TypeOK
      OBVIOUS
    <2>1. part = "source" => Source!TypeOK
      BY SourceTypeOK DEF SourceInvariantHolds
    <2>2. part = "external" => Ext!TypeOK
      BY DEF ExternalInv, XInv
    <2>3. part = "github" => GitHub!TypeOK
      BY GitHubTypeOK DEF GitHubInv
    <2>4. part = "secrets" => Secret!TypeOK
      BY SecretTypeOK DEF SecretInv
    <2> QED
      BY <2>1, <2>2, <2>3, <2>4 DEF TypeOK
  <1> QED
    BY <1>1, SourceInvariant, ExternalInvariant, GitHubInvariant, SecretInvariant, PTL
=============================================================================
