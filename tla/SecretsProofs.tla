---------------------------- MODULE SecretsProofs ----------------------------
(***************************************************************************)
(* What is proved of the password managers, for every one of the nineteen, *)
(* any items and number of calls, and the goroutines of .chezmoiexternals: *)
(* a template gets the output of its own command, no command that is kept  *)
(* and no question is repeated, op runs with the token of the account it   *)
(* names, and an unlocked vault is locked at the end.                      *)
(*                                                                         *)
(* The proof has two parts.  Fits says what the requests of a manager have *)
(* to do with each other: those that meet in a cache under one key want    *)
(* the same.  It is proved for each manager, from what its functions make  *)
(* of their arguments.  SInv says what the machine makes of requests that  *)
(* fit, and knows no manager.                                              *)
(***************************************************************************)
EXTENDS Secrets, TLAPS, SequenceTheorems, FiniteSetTheorems

-----------------------------------------------------------------------------
(* What the requests of a manager have to do with each other *)

\* What commands and keys are made of.
Words ==
    Items \cup
    {"", "--account", "--attributes", "--field", "--format=json", "--json", "--no-newline",
     "--noparsing", "--output", "--output=json", "--password", "--project", "--raw", "-format=json",
     "DecryptFile", "GetSecret", "GetSecretValue", "account", "api.New", "attachment",
     "attachment-export", "attachments", "client.Get", "configured", "console", "default",
     "document", "download", "file", "find-password", "get", "gopass", "gopassRaw", "item", "json",
     "keepassxc", "kv", "list", "lock", "note", "op", "passhole", "password", "read", "secret",
     "secrets", "show", "signin", "unlock", "user", "values", "view"}

\* What no command begins with: the entries of the log that are questions, and the lock.
Asking == {"user", "signin", "console"}
Reserved == Asking \cup {"lock"}

\* What the templates of the run may request.
Asks == UNION { { Requests(c)[k] : k \in DOMAIN Requests(c) } : c \in Uses(conf.manager) }

ByEntry == conf.manager = "ejson" \/ (conf.mode = "builtin" /\ conf.manager = "keepassxc")

\* What a template can tell of a command by its output.
Sig(argv) == IF ByEntry THEN argv[2] ELSE argv

GateFits(r) ==
    \/ r.gate = NoGate
    \/ r.gate.ask \in Asking /\ r.gate.of \in Seq(Words) /\ r.gate.of # <<>> /\ r.gate # NoGate /\ r.gate.keepsEmpty \in BOOLEAN

Suits(r) ==
    /\ r.looks \in Seq(CacheNames) /\ r.puts \in Seq(CacheNames)
    /\ r.argv \in Seq(Words) /\ r.argv # <<>> /\ r.argv[1] \notin Reserved
    /\ GateFits(r)

\* Two requests that share a place in a cache get the same, and those of one
\* command share a place, but for those that no cache keeps.
Agree(r, q) ==
    /\ r.key = q.key /\ (Range(r.looks) \cup Range(r.puts)) \cap Range(q.looks) # {} => Sig(r.argv) = Sig(q.argv)
    /\ r.argv = q.argv => NeverCached(r.argv) \/ (r.key = q.key /\ Range(r.puts) \cap Range(q.looks) # {})
    /\ r.puts # r.looks /\ conf.manager = "keepassxc" => NeverCached(r.argv)

\* op runs with the token of the account that it names.
TokenFits(token, argv) ==
    IF \E k \in DOMAIN argv : argv[k] = "--account" THEN token[2] = argv[Len(argv)] ELSE token[2] = ""

Fits ==
    /\ \A c \in Uses(conf.manager) :
         /\ Requests(c) \in Seq(Asks) /\ Requests(c) # <<>>
         /\ ByEntry => LastRequest(c).argv[2] = c.args[1]
    /\ \A r \in Asks : Suits(r) /\ (conf.manager = "op" /\ r.gate.of # <<>> => TokenFits(r.gate.of, r.argv))
    /\ \A r, q \in Asks : Agree(r, q)

Pairs(S, T) == {<<i, j>> : i \in S, j \in T}
-----------------------------------------------------------------------------
(* The machine *)

Outputs == [argv : { r.argv : r \in Asks }, n : Nat, parsed : BOOLEAN]
Entries == [argv : Seq(Words), token : Seq(Words), ok : BOOLEAN]
Jobs ==
    [pc : {"idle", "look", "gate", "run", "store"}, call : Uses(conf.manager) \cup {Call("none", <<>>)},
     todo : Seq(Asks), out : Outputs \cup {[argv |-> <<>>]}]

\* A job works on requests of its call, and carries the output of its request.
JobFits(j) ==
    /\ j \in Jobs
    /\ j.pc # "idle" =>
         /\ j.call \in Uses(conf.manager) /\ j.todo # <<>>
         /\ \A c \in Uses(conf.manager) : j.call = c => j.todo[Len(j.todo)] = LastRequest(c)
    /\ j.pc = "store" => j.out \in Outputs /\ j.out.argv = Head(j.todo).argv

\* The assumption on the constants comes along, for what a configuration may ask.
Typed ==
    /\ SecretsAssumption /\ conf \in Configurations
    /\ DOMAIN cache = CacheNames
    /\ checked \in BOOLEAN
    /\ log \in Seq(Entries)
    /\ run \in {"on", "ended", "crashed"}

JobsSound == job \in [conf.team -> Jobs] /\ \A w \in conf.team : JobFits(job[w])

\* What lies in a cache is what any request that looks there asks for.
CacheSound ==
    \A name \in CacheNames : \A key \in DOMAIN cache[name] :
      /\ cache[name][key] \in Outputs
      /\ \A r \in Asks : name \in Range(r.looks) /\ r.key = key => Sig(cache[name][key].argv) = Sig(r.argv)

AnswersSound ==
    \A a \in answered : a.call \in Uses(conf.manager) /\ Sig(a.out.argv) = Sig(LastRequest(a.call).argv)

TokensSound ==
    \A i \in DOMAIN log : log[i].token # <<>> /\ conf.manager = "op" => TokenFits(log[i].token, log[i].argv)

\* The session of an unlocked vault is known, or about to be.
UnlockArgv == <<"unlock", "--raw">>
Storing(argv) == \E w \in conf.team : job[w].pc = "store" /\ job[w].out.argv = argv
Done == { log[i].argv : i \in { j \in DOMAIN log : log[j].ok } }
UnlockSound == UnlockArgv \in Done => <<"bitwarden", "session">> \in held \/ Storing(UnlockArgv)

NotYetLocked == run = "on" => \A i \in DOMAIN log : log[i].argv # <<"lock">>

\* Templates executed one after another: what succeeded is kept, so no request
\* that is under way has what it asks for.
StoredFor(r) == \E k \in DOMAIN r.looks : Stored(r.looks[k], r.key)
Settled(argv) ==
    \/ NeverCached(argv)
    \/ argv[1] \in Asking /\ Tail(argv) \in held
    \/ argv[1] \notin Asking /\ (Storing(argv) \/ \A r \in Asks : r.argv = argv => StoredFor(r))
KeptSound ==
    Sequential /\ run = "on" =>
      /\ \A a \in Done : Settled(a)
      /\ \A w \in conf.team, r \in Asks : job[w].pc \in {"gate", "run"} /\ r = Now(w) => ~StoredFor(r)

SInv ==
    /\ Typed /\ JobsSound /\ CacheSound /\ AnswersSound /\ TokensSound /\ UnlockSound /\ NotYetLocked /\ KeptSound
    /\ AskedOnce /\ LockedAtEnd

-----------------------------------------------------------------------------
(* Commands, keys and arguments *)

LEMMA Joined ==
    ASSUME NEW p \in Seq(Words), NEW s \in Seq(Words), p # <<>>
    PROVE  /\ p \o s \in Seq(Words) /\ p \o s # <<>> /\ (p \o s)[1] = p[1]
           /\ Len(p \o s) = Len(p) + Len(s)
           /\ \A i \in 1 .. Len(s) : (p \o s)[Len(p) + i] = s[i]
           /\ \A i \in 1 .. Len(p) : (p \o s)[i] = p[i]
  <1>1. /\ p \o s \in Seq(Words)
        /\ Len(p \o s) = Len(p) + Len(s)
        /\ \A i \in 1 .. Len(p) + Len(s) : (p \o s)[i] = IF i <= Len(p) THEN p[i] ELSE s[i - Len(p)]
    BY ConcatProperties
  <1>2. Len(p) \in Nat /\ Len(s) \in Nat /\ Len(p) > 0
    BY EmptySeq, LenProperties
  <1>3. 1 \in 1 .. Len(p) + Len(s) /\ 1 <= Len(p)
    BY <1>2
  <1>4. p \o s # <<>>
    BY <1>1, <1>2, EmptySeq
  <1>5. ASSUME NEW i \in 1 .. Len(s) PROVE (p \o s)[Len(p) + i] = s[i]
    <2>1. Len(p) + i \in 1 .. Len(p) + Len(s) /\ ~(Len(p) + i <= Len(p)) /\ Len(p) + i - Len(p) = i
      BY <1>2
    <2> QED BY <2>1, <1>1
  <1>6. ASSUME NEW i \in 1 .. Len(p) PROVE (p \o s)[i] = p[i]
    <2>1. i \in 1 .. Len(p) + Len(s) /\ i <= Len(p)
      BY <1>2
    <2> QED BY <2>1, <1>1
  <1> QED BY <1>1, <1>3, <1>4, <1>5, <1>6

LEMMA Ranges ==
    ASSUME NEW a, NEW b
    PROVE  Range(<<a>>) = {a} /\ Range(<<a, b>>) = {a, b}
  <1>1. DOMAIN <<a>> = {1} /\ <<a>>[1] = a OBVIOUS
  <1>2. DOMAIN <<a, b>> = {1, 2} /\ <<a, b>>[1] = a /\ <<a, b>>[2] = b OBVIOUS
  <1> QED BY <1>1, <1>2 DEF Range

\* Managers whose functions make one request each.
LEMMA OneEach ==
    ASSUME \A c \in Uses(conf.manager) :
             /\ Requests(c) = << Requests(c)[1] >> /\ Suits(Requests(c)[1])
             /\ ByEntry => Requests(c)[1].argv[2] = c.args[1]
             /\ \A d \in Uses(conf.manager) : Agree(Requests(c)[1], Requests(d)[1]),
           conf.manager # "op"
    PROVE  Fits
  <1>1. ASSUME NEW c \in Uses(conf.manager)
        PROVE  /\ { Requests(c)[k] : k \in DOMAIN Requests(c) } = { Requests(c)[1] }
               /\ Len(Requests(c)) = 1 /\ Requests(c) # <<>>
    <2> DEFINE r == Requests(c)[1]
    <2>1. Requests(c) = <<r>> OBVIOUS
    <2>2. DOMAIN <<r>> = {1} /\ Len(<<r>>) = 1 /\ <<r>> # <<>> OBVIOUS
    <2>3. DOMAIN Requests(c) = {1} /\ Len(Requests(c)) = 1 /\ Requests(c) # <<>> BY <2>1, <2>2
    <2> QED BY <2>3
  <1>2. Asks = { Requests(c)[1] : c \in Uses(conf.manager) }
    BY <1>1 DEF Asks
  <1>3. ASSUME NEW c \in Uses(conf.manager) PROVE Requests(c) \in Seq(Asks) /\ LastRequest(c) = Requests(c)[1]
    <2> DEFINE r == Requests(c)[1]
    <2>1. Requests(c) = <<r>> /\ r \in Asks BY <1>2
    <2>2. <<r>> \in Seq(Asks) BY <2>1
    <2>3. Len(Requests(c)) = 1 BY <1>1
    <2> QED BY <2>1, <2>2, <2>3 DEF LastRequest
  <1> QED
    BY <1>1, <1>2, <1>3 DEF Fits

\* The arguments of a function are the key, and follow what the command begins with.
LEMMA Prefixed ==
    ASSUME NEW n \in CacheNames, NEW p \in Seq(Words), p # <<>>, p[1] \notin Reserved,
           \A c \in Uses(conf.manager) : c.args \in Seq(Words) /\ Requests(c) = Cached(n, c.args, p \o c.args),
           conf.manager \notin {"op", "ejson", "keepassxc"}
    PROVE  Fits
  <1>1. ASSUME NEW c \in Uses(conf.manager)
        PROVE  /\ Requests(c) = << Requests(c)[1] >> /\ Suits(Requests(c)[1])
               /\ Requests(c)[1] = Request(<<n>>, c.args, p \o c.args)
    <2> DEFINE r == Request(<<n>>, c.args, p \o c.args)
    <2>1. Requests(c) = <<r>> BY DEF Cached
    <2>2. Requests(c)[1] = r BY <2>1
    <2>3. <<n>> \in Seq(CacheNames) OBVIOUS
    <2>4. p \o c.args \in Seq(Words) /\ p \o c.args # <<>> /\ (p \o c.args)[1] = p[1] BY Joined
    <2>5. Suits(r) BY <2>3, <2>4 DEF Suits, Request, GateFits
    <2> QED BY <2>1, <2>2, <2>5
  <1>2. ASSUME NEW c \in Uses(conf.manager), NEW d \in Uses(conf.manager)
        PROVE  Agree(Requests(c)[1], Requests(d)[1])
    <2>1. p \o c.args = p \o d.args => c.args = d.args
      BY ConcatSimplifications
    <2>2. n \in Range(<<n>>) /\ Range(<<n>>) = {n}
      BY Ranges
    <2>3. Agree(Request(<<n>>, c.args, p \o c.args), Request(<<n>>, d.args, p \o d.args))
      BY <2>1, <2>2 DEF Agree, Request, Sig
    <2> QED BY <1>1, <2>3
  <1>3. ~ByEntry
    BY DEF ByEntry
  <1> QED
    BY <1>1, <1>2, <1>3, OneEach

\* The command is the key.
LEMMA SelfKeyed ==
    ASSUME NEW n \in CacheNames, conf.manager \notin {"op", "ejson", "keepassxc"},
           \A c \in Uses(conf.manager) : \E a \in Seq(Words) :
             a # <<>> /\ a[1] \notin Reserved /\ Requests(c) = Cached(n, a, a)
    PROVE  Fits
  <1>1. ASSUME NEW c \in Uses(conf.manager)
        PROVE  /\ Requests(c) = << Requests(c)[1] >> /\ Suits(Requests(c)[1])
               /\ Requests(c)[1] = Request(<<n>>, Requests(c)[1].argv, Requests(c)[1].argv)
    <2>1. PICK a \in Seq(Words) : a # <<>> /\ a[1] \notin Reserved /\ Requests(c) = Cached(n, a, a)
      OBVIOUS
    <2> DEFINE r == Request(<<n>>, a, a)
    <2>2. Requests(c) = <<r>> BY <2>1 DEF Cached
    <2>3. Requests(c)[1] = r BY <2>2
    <2>4. <<n>> \in Seq(CacheNames) OBVIOUS
    <2>5. r.argv = a BY DEF Request
    <2>6. Suits(r) BY <2>1, <2>4 DEF Suits, Request, GateFits
    <2> QED BY <2>2, <2>3, <2>5, <2>6
  <1>2. ASSUME NEW c \in Uses(conf.manager), NEW d \in Uses(conf.manager)
        PROVE  Agree(Requests(c)[1], Requests(d)[1])
    <2> DEFINE a == Requests(c)[1].argv b == Requests(d)[1].argv
    <2>1. Requests(c)[1] = Request(<<n>>, a, a) /\ Requests(d)[1] = Request(<<n>>, b, b)
      BY <1>1
    <2> HIDE DEF a, b
    <2>2. Range(<<n>>) = {n}
      BY Ranges
    <2>3. Agree(Request(<<n>>, a, a), Request(<<n>>, b, b))
      BY <2>2 DEF Agree, Request, Sig
    <2> QED BY <2>1, <2>3
  <1>3. ~ByEntry
    BY DEF ByEntry
  <1> QED
    BY <1>1, <1>2, <1>3, OneEach

LEMMA Tuples ==
    ASSUME NEW i \in Words, NEW j \in Words
    PROVE  <<i>> \in Seq(Words) /\ <<i, j>> \in Seq(Words)
  OBVIOUS

LEMMA Arguments ==
    ASSUME NEW i \in Items \cup {""}, NEW j \in Items \cup {""}
    PROVE  <<i>> \in Seq(Words) /\ <<i, j>> \in Seq(Words) /\ <<>> \in Seq(Words)
  <1>1. i \in Words /\ j \in Words
    BY DEF Words
  <1>2. <<>> \in Seq(Words)
    BY EmptySeq
  <1> QED BY ONLY <1>1, <1>2, Tuples

LEMMA CallsAre ==
    ASSUME NEW fns, NEW argss, NEW c \in Calls(fns, argss)
    PROVE  c.fn \in fns /\ c.args \in argss
  BY DEF Calls, Call
LEMMA PairsAre ==
    ASSUME NEW S, NEW T, NEW a \in Pairs(S, T)
    PROVE  \E i \in S, j \in T : a = <<i, j>>
  BY DEF Pairs

LEMMA ArgumentsAre ==
    ASSUME NEW fns, NEW c
    PROVE  /\ c \in Calls(fns, One) => c.fn \in fns /\ c.args \in Seq(Words) /\ \E i \in Items : c.args = <<i>>
           /\ c \in Calls(fns, Two) => c.fn \in fns /\ c.args \in Seq(Words) /\ \E i, j \in Items : c.args = <<i, j>>
  <1>1. ASSUME c \in Calls(fns, One)
        PROVE  c.fn \in fns /\ c.args \in Seq(Words) /\ \E i \in Items : c.args = <<i>>
    <2>1. PICK f \in fns, i \in Items : c = [fn |-> f, args |-> <<i>>]
      BY <1>1 DEF Calls, Call, One
    <2>2. <<i>> \in Seq(Words)
      BY Arguments
    <2> QED BY <2>1, <2>2
  <1>2. ASSUME c \in Calls(fns, Two)
        PROVE  c.fn \in fns /\ c.args \in Seq(Words) /\ \E i, j \in Items : c.args = <<i, j>>
    <2>1. PICK f \in fns, i \in Items, j \in Items : c = [fn |-> f, args |-> <<i, j>>]
      BY <1>2 DEF Calls, Call, Two
    <2>2. <<i, j>> \in Seq(Words)
      BY Arguments
    <2> QED BY <2>1, <2>2
  <1> QED BY <1>1, <1>2

LEMMA RequestsAre ==
    ASSUME NEW c
    PROVE  /\ conf.manager = "vault" => Requests(c) = Vault(c)
           /\ conf.manager = "pass" => Requests(c) = PassStore(c)
           /\ conf.manager = "rbw" => Requests(c) = RBW(c)
           /\ conf.manager = "secret" => Requests(c) = Secret(c)
           /\ conf.manager = "keeper" => Requests(c) = Keeper(c)
           /\ conf.manager = "protonPass" => Requests(c) = ProtonPassStore(c)
           /\ conf.manager = "doppler" => Requests(c) = Doppler(c)
           /\ conf.manager = "dashlane" => Requests(c) = Dashlane(c)
           /\ conf.manager = "keyring" => Requests(c) = Keyring(c)
           /\ conf.manager = "azure" => Requests(c) = AzureKeyVault(c)
           /\ conf.manager = "aws" => Requests(c) = AWSSecretsManager(c)
           /\ conf.manager = "ejson" => Requests(c) = EJSON(c)
           /\ conf.manager = "lastpass" => Requests(c) = LastPassStore(c)
           /\ conf.manager = "bws" => Requests(c) = BitwardenSecrets(c)
           /\ conf.manager = "passhole" => Requests(c) = Passhole(c)
           /\ conf.manager = "gopass" => Requests(c) = Gopass(c)
           /\ conf.manager = "bitwarden" => Requests(c) = Bitwarden(c)
           /\ conf.manager = "op" => Requests(c) = OnePassword(c)
           /\ conf.manager = "keepassxc" => Requests(c) = Keepassxc(c)
  BY Zenon DEF Requests

LEMMA VaultFits == conf.manager = "vault" => Fits
  <1> SUFFICES ASSUME conf.manager = "vault" PROVE Fits
    OBVIOUS
  <1> DEFINE p == <<"kv", "get", "-format=json">>
  <1>1. p \in Seq(Words) /\ p # <<>> /\ p[1] \notin Reserved
    BY DEF Words, Reserved, Asking
  <1>2. \A c : Requests(c) = Cached("vault", c.args, p \o c.args)
    BY RequestsAre DEF Vault
  <1>3. Uses("vault") = Calls({"vault"}, One)
    BY DEF Uses
  <1>4. \A c \in Uses(conf.manager) : c.args \in Seq(Words)
    BY <1>3, ArgumentsAre
  <1>5. "vault" \in CacheNames
    BY DEF CacheNames
  <1> HIDE DEF p
  <1> QED
    BY <1>1, <1>2, <1>4, <1>5, Prefixed

LEMMA PassFits == conf.manager = "pass" => Fits
  <1> SUFFICES ASSUME conf.manager = "pass" PROVE Fits
    OBVIOUS
  <1> DEFINE p == <<"show">>
  <1>1. p \in Seq(Words) /\ p # <<>> /\ p[1] \notin Reserved
    BY DEF Words, Reserved, Asking
  <1>2. \A c : Requests(c) = Cached("pass", c.args, p \o c.args)
    BY RequestsAre DEF PassStore
  <1>3. Uses("pass") = Calls({"pass", "passFields", "passRaw"}, One)
    BY DEF Uses
  <1>4. \A c \in Uses(conf.manager) : c.args \in Seq(Words)
    BY <1>3, ArgumentsAre
  <1>5. "pass" \in CacheNames
    BY DEF CacheNames
  <1> HIDE DEF p
  <1> QED
    BY <1>1, <1>2, <1>4, <1>5, Prefixed

LEMMA SecretFits == conf.manager = "secret" => Fits
  <1> SUFFICES ASSUME conf.manager = "secret" PROVE Fits
    OBVIOUS
  <1> DEFINE p == <<"configured">>
  <1>1. p \in Seq(Words) /\ p # <<>> /\ p[1] \notin Reserved
    BY DEF Words, Reserved, Asking
  <1>2. \A c : Requests(c) = Cached("secret", c.args, p \o c.args)
    BY RequestsAre DEF Secret
  <1>3. Uses("secret") = Calls({"secret", "secretJSON"}, Two)
    BY DEF Uses
  <1>4. \A c \in Uses(conf.manager) : c.args \in Seq(Words)
    BY <1>3, ArgumentsAre
  <1>5. "secret" \in CacheNames
    BY DEF CacheNames
  <1> HIDE DEF p
  <1> QED
    BY <1>1, <1>2, <1>4, <1>5, Prefixed

LEMMA KeyringFits == conf.manager = "keyring" => Fits
  <1> SUFFICES ASSUME conf.manager = "keyring" PROVE Fits
    OBVIOUS
  <1> DEFINE p == <<"get">>
  <1>1. p \in Seq(Words) /\ p # <<>> /\ p[1] \notin Reserved
    BY DEF Words, Reserved, Asking
  <1>2. \A c : Requests(c) = Cached("keyring", c.args, p \o c.args)
    BY RequestsAre DEF Keyring
  <1>3. Uses("keyring") = Calls({"keyring"}, Two)
    BY DEF Uses
  <1>4. \A c \in Uses(conf.manager) : c.args \in Seq(Words)
    BY <1>3, ArgumentsAre
  <1>5. "keyring" \in CacheNames
    BY DEF CacheNames
  <1> HIDE DEF p
  <1> QED
    BY <1>1, <1>2, <1>4, <1>5, Prefixed

LEMMA LastPassFits == conf.manager = "lastpass" => Fits
  <1> SUFFICES ASSUME conf.manager = "lastpass" PROVE Fits
    OBVIOUS
  <1> DEFINE p == <<"show", "--json">>
  <1>1. p \in Seq(Words) /\ p # <<>> /\ p[1] \notin Reserved
    BY DEF Words, Reserved, Asking
  <1>2. \A c : Requests(c) = Cached("lastpass", c.args, p \o c.args)
    BY RequestsAre DEF LastPassStore
  <1>3. Uses("lastpass") = Calls({"lastpass", "lastpassRaw"}, One)
    BY DEF Uses
  <1>4. \A c \in Uses(conf.manager) : c.args \in Seq(Words)
    BY <1>3, ArgumentsAre
  <1>5. "lastpass" \in CacheNames
    BY DEF CacheNames
  <1> HIDE DEF p
  <1> QED
    BY <1>1, <1>2, <1>4, <1>5, Prefixed

LEMMA RBWFits == conf.manager = "rbw" => Fits
  <1> SUFFICES ASSUME conf.manager = "rbw" PROVE Fits
    OBVIOUS
  <1> DEFINE p == <<"get", "--raw">>
  <1>1. p \in Seq(Words) /\ p # <<>> /\ p[1] \notin Reserved
    BY DEF Words, Reserved, Asking
  <1>2. \A c : Requests(c) = Cached("rbw", p \o c.args, p \o c.args)
    BY RequestsAre DEF RBW
  <1>3. Uses("rbw") = Calls({"rbw", "rbwFields"}, Two)
    BY DEF Uses
  <1>4. \A c \in Uses(conf.manager) : c.args \in Seq(Words)
    BY <1>3, ArgumentsAre
  <1>5. "rbw" \in CacheNames
    BY DEF CacheNames
  <1> HIDE DEF p
  <1>6. \A c \in Uses(conf.manager) : p \o c.args \in Seq(Words) /\ p \o c.args # <<>> /\ (p \o c.args)[1] \notin Reserved
    BY <1>1, <1>4, Joined
  <1> QED
    BY <1>2, <1>5, <1>6, SelfKeyed

LEMMA ProtonPassFits == conf.manager = "protonPass" => Fits
  <1> SUFFICES ASSUME conf.manager = "protonPass" PROVE Fits
    OBVIOUS
  <1> DEFINE p == <<"item", "view">>
             q(c) == IF c.fn = "protonPassJSON" THEN <<"--output=json">> ELSE <<>>
  <1>1. p \in Seq(Words) /\ p # <<>> /\ p[1] \notin Reserved
    BY DEF Words, Reserved, Asking
  <1>2. \A c : Requests(c) = Cached("protonPass", p \o c.args \o q(c), p \o c.args \o q(c))
    BY RequestsAre DEF ProtonPassStore
  <1>3. Uses("protonPass") = Calls({"protonPass", "protonPassJSON"}, One)
    BY DEF Uses
  <1>4. \A c \in Uses(conf.manager) : c.args \in Seq(Words)
    BY <1>3, ArgumentsAre
  <1>5. "protonPass" \in CacheNames
    BY DEF CacheNames
  <1>6. \A c : q(c) \in Seq(Words)
    <2>1. "--output=json" \in Words
      BY DEF Words
    <2>2. <<"--output=json">> \in Seq(Words) /\ <<>> \in Seq(Words)
      BY ONLY <2>1, Tuples, EmptySeq
    <2> QED BY <2>2
  <1> HIDE DEF p, q
  <1>7. \A c \in Uses(conf.manager) : p \o c.args \in Seq(Words) /\ p \o c.args # <<>> /\ (p \o c.args)[1] \notin Reserved
    BY <1>1, <1>4, Joined
  <1>8. \A c \in Uses(conf.manager) :
          p \o c.args \o q(c) \in Seq(Words) /\ p \o c.args \o q(c) # <<>> /\ (p \o c.args \o q(c))[1] \notin Reserved
    BY <1>7, <1>6, Joined
  <1> QED
    BY <1>2, <1>5, <1>8, SelfKeyed

LEMMA DopplerFits == conf.manager = "doppler" => Fits
  <1> SUFFICES ASSUME conf.manager = "doppler" PROVE Fits
    OBVIOUS
  <1> DEFINE p == <<"secrets", "download">>
             args(c) == IF c.fn = "doppler" THEN Tail(c.args) ELSE c.args
             q(c) == IF args(c) # <<>> /\ args(c)[1] # "" THEN <<"--project", args(c)[1]>>
                     ELSE <<"--project", "default">>
  <1>1. p \in Seq(Words) /\ p # <<>> /\ p[1] \notin Reserved
    BY DEF Words, Reserved, Asking
  <1>2. \A c : Requests(c) = Cached("doppler", p \o q(c), p \o q(c))
    BY RequestsAre DEF Doppler
  <1> DEFINE P == Items \cup {""}
             A == Calls({"doppler"}, Pairs(Items, P))
             B == Calls({"dopplerProjectJson"}, {<<>>} \cup One)
  <1>3. Uses("doppler") = A \cup B
    BY DEF Uses, Pairs
  <1>4. ASSUME NEW c \in Uses(conf.manager)
        PROVE  args(c) = <<>> \/ \E x \in Words : args(c) = <<x>>
    <2>1. Items \subseteq Words /\ P \subseteq Words
      BY DEF Words
    <2> HIDE DEF P
    <2>2. CASE c \in A
      <3>1. c.fn = "doppler" /\ c.args \in Pairs(Items, P)
        BY <2>2, CallsAre
      <3>2. PICK i \in Items, x \in P : c.args = <<i, x>>
        BY <3>1, PairsAre
      <3>3. Tail(<<i, x>>) = <<x>>
        OBVIOUS
      <3> QED BY <2>1, <3>1, <3>2, <3>3
    <2>3. CASE c \in B
      <3>1. c.fn = "dopplerProjectJson" /\ c.args \in {<<>>} \cup One
        BY <2>3, CallsAre
      <3> QED BY <2>1, <3>1 DEF One
    <2> HIDE DEF A, B, args
    <2> QED BY <1>3, <2>2, <2>3
  <1>5. "doppler" \in CacheNames
    BY DEF CacheNames
  <1>6. ASSUME NEW c \in Uses(conf.manager) PROVE q(c) \in Seq(Words)
    <2>1. args(c) # <<>> => args(c)[1] \in Words
      <3>1. \A x : <<x>>[1] = x
        OBVIOUS
      <3> QED BY <1>4, <3>1
    <2>2. "--project" \in Words /\ "default" \in Words
      BY DEF Words
    <2> HIDE DEF args
    <2>3. \A x \in Words : <<"--project", x>> \in Seq(Words)
      BY ONLY <2>2, Tuples
    <2> QED BY <2>1, <2>2, <2>3
  <1> HIDE DEF p, q
  <1>7. \A c \in Uses(conf.manager) : p \o q(c) \in Seq(Words) /\ p \o q(c) # <<>> /\ (p \o q(c))[1] \notin Reserved
    BY <1>1, <1>6, Joined
  <1> QED
    BY <1>2, <1>5, <1>7, SelfKeyed

LEMMA KeeperFits == conf.manager = "keeper" => Fits
  <1> SUFFICES ASSUME conf.manager = "keeper" PROVE Fits
    OBVIOUS
  <1> DEFINE args(c) == IF c.fn = "keeperFindPassword" THEN <<"find-password">> \o c.args
                        ELSE <<"get", "--format=json">> \o c.args
             q == <<"configured">>
             r(c) == Request(<<"keeper">>, args(c), args(c) \o q)
  <1>1. /\ <<"find-password">> \in Seq(Words) /\ <<"find-password">> # <<>> /\ <<"find-password">>[1] \notin Reserved
        /\ <<"get", "--format=json">> \in Seq(Words) /\ <<"get", "--format=json">> # <<>>
        /\ <<"get", "--format=json">>[1] \notin Reserved /\ q \in Seq(Words)
    BY DEF Words, Reserved, Asking
  <1>2. \A c : Requests(c) = << r(c) >>
    BY RequestsAre DEF Keeper, Cached
  <1>3. Uses("keeper") = Calls({"keeper", "keeperDataFields", "keeperFindPassword"}, One)
    BY DEF Uses
  <1>4. \A c \in Uses(conf.manager) : c.args \in Seq(Words)
    BY <1>3, ArgumentsAre
  <1>5. \A c \in Uses(conf.manager) : args(c) \in Seq(Words) /\ args(c) # <<>> /\ args(c)[1] \notin Reserved
    BY <1>1, <1>4, Joined
  <1> HIDE DEF q, args
  <1>6. ASSUME NEW c \in Uses(conf.manager)
        PROVE  Requests(c) = << Requests(c)[1] >> /\ Requests(c)[1] = r(c) /\ Suits(r(c))
    <2>1. <<"keeper">> \in Seq(CacheNames) BY DEF CacheNames
    <2>2. args(c) \o q \in Seq(Words) /\ args(c) \o q # <<>> /\ (args(c) \o q)[1] \notin Reserved
      BY <1>1, <1>5, Joined
    <2>3. Suits(r(c)) BY <2>1, <2>2 DEF Suits, Request, GateFits
    <2> HIDE DEF r
    <2> QED BY <1>2, <2>3
  <1>7. ASSUME NEW c \in Uses(conf.manager), NEW d \in Uses(conf.manager) PROVE Agree(r(c), r(d))
    <2>1. args(c) \o q = args(d) \o q => args(c) = args(d)
      BY <1>1, <1>5, ConcatSimplifications
    <2>2. Range(<<"keeper">>) = {"keeper"}
      BY Ranges
    <2> QED BY <2>1, <2>2 DEF Agree, Request, Sig, ByEntry
  <1>8. ~ByEntry BY DEF ByEntry
  <1> HIDE DEF r
  <1> QED
    BY <1>6, <1>7, <1>8, OneEach

LEMMA UncachedAre ==
    ASSUME NEW argv \in Seq(Words), argv # <<>>
    PROVE  /\ argv[1] \in {"attachments", "attachment-export"} => NeverCached(argv)
           /\ Len(argv) >= 2 /\ argv[1] = "secret" /\ argv[2] = "get" => NeverCached(argv)
  <1>1. Len(argv) \in Nat \ {0} /\ \A i \in 1 .. Len(argv) : argv[i] \in Words
    BY EmptySeq
  <1>2. ASSUME argv[1] \in {"attachments", "attachment-export"} PROVE NeverCached(argv)
    <2> DEFINE u == <<argv[1]>> v == SubSeq(argv, 1, 1)
    <2>1. u \in Uncached /\ Len(u) = 1 /\ u[1] = argv[1] /\ u \in Seq(Words)
      BY <1>1, <1>2 DEF Uncached
    <2>2. v \in Seq(Words) /\ Len(v) = 1 /\ v[1] = argv[1]
      BY <1>1, SubSeqProperties
    <2> HIDE DEF u, v
    <2>3. v = u
      BY <2>1, <2>2, SeqEqual
    <2>4. SubSeq(argv, 1, Len(u)) = u /\ Len(argv) >= Len(u)
      BY <1>1, <2>1, <2>3 DEF v
    <2> QED BY <2>1, <2>4 DEF NeverCached
  <1>3. ASSUME Len(argv) >= 2, argv[1] = "secret", argv[2] = "get" PROVE NeverCached(argv)
    <2> DEFINE u == <<"secret", "get">> v == SubSeq(argv, 1, 2)
    <2>0. argv[1] \in Words /\ argv[2] \in Words
      BY <1>1, <1>3
    <2>1. u \in Uncached /\ Len(u) = 2 /\ u[1] = argv[1] /\ u[2] = argv[2]
      BY <1>3 DEF Uncached
    <2>2. v \in Seq(Words) /\ Len(v) = 2 /\ v[1] = argv[1] /\ v[2] = argv[2]
      BY <1>1, <1>3, SubSeqProperties
    <2>3. u \in Seq(Words)
      <3>1. "secret" \in Words /\ "get" \in Words
        BY <2>0, <1>3
      <3> QED BY <3>1, Tuples
    <2> HIDE DEF u, v
    <2>4. \A i \in 1 .. Len(v) : v[i] = u[i]
      BY <2>1, <2>2
    <2>5. v = u
      BY <2>1, <2>2, <2>3, <2>4, SeqEqual
    <2>6. SubSeq(argv, 1, Len(u)) = u /\ Len(argv) >= Len(u)
      BY <1>1, <1>3, <2>1, <2>5 DEF v
    <2> QED BY <2>1, <2>6 DEF NeverCached
  <1> QED BY <1>2, <1>3

LEMMA DashlaneFits == conf.manager = "dashlane" => Fits
  <1> SUFFICES ASSUME conf.manager = "dashlane" PROVE Fits
    OBVIOUS
  <1> DEFINE p == <<"note">> q == <<"password", "--output", "json">>
             r(c) == IF c.fn = "dashlaneNote" THEN Request(<<"dashlaneNote">>, c.args, p \o c.args)
                     ELSE Request(<<"dashlanePassword">>, c.args, q \o c.args)
  <1>1. /\ p \in Seq(Words) /\ p # <<>> /\ p[1] = "note"
        /\ q \in Seq(Words) /\ q # <<>> /\ q[1] = "password"
    BY DEF Words
  <1>2. \A c : Requests(c) = << r(c) >>
    BY RequestsAre DEF Dashlane, Cached
  <1>3. Uses("dashlane") = Calls({"dashlaneNote", "dashlanePassword"}, One)
    BY DEF Uses
  <1>4. \A c \in Uses(conf.manager) : c.args \in Seq(Words)
    BY <1>3, ArgumentsAre
  <1> HIDE DEF p, q
  <1>5. ASSUME NEW c \in Uses(conf.manager) PROVE Suits(r(c))
    <2>1. <<"dashlaneNote">> \in Seq(CacheNames) /\ <<"dashlanePassword">> \in Seq(CacheNames)
      BY DEF CacheNames
    <2>2. /\ p \o c.args \in Seq(Words) /\ p \o c.args # <<>> /\ (p \o c.args)[1] = "note"
          /\ q \o c.args \in Seq(Words) /\ q \o c.args # <<>> /\ (q \o c.args)[1] = "password"
      BY <1>1, <1>4, Joined
    <2> QED BY <2>1, <2>2 DEF Suits, Request, GateFits, Reserved, Asking
  <1>6. ASSUME NEW c \in Uses(conf.manager), NEW d \in Uses(conf.manager) PROVE Agree(r(c), r(d))
    <2>1. /\ p \o c.args = p \o d.args => c.args = d.args
          /\ q \o c.args = q \o d.args => c.args = d.args
      BY <1>1, <1>4, ConcatSimplifications
    <2>2. p \o c.args # q \o d.args /\ q \o c.args # p \o d.args
      BY <1>1, <1>4, Joined
    <2>3. Range(<<"dashlaneNote">>) = {"dashlaneNote"} /\ Range(<<"dashlanePassword">>) = {"dashlanePassword"}
      BY Ranges
    <2> QED BY <2>1, <2>2, <2>3 DEF Agree, Request, Sig, ByEntry
  <1>7. ~ByEntry BY DEF ByEntry
  <1> HIDE DEF r
  <1>8. ASSUME NEW c \in Uses(conf.manager) PROVE Requests(c) = << Requests(c)[1] >> /\ Requests(c)[1] = r(c)
    BY <1>2
  <1> QED
    BY <1>5, <1>6, <1>7, <1>8, OneEach

LEMMA AzureFits == conf.manager = "azure" => Fits
  <1> SUFFICES ASSUME conf.manager = "azure" PROVE Fits
    OBVIOUS
  <1> DEFINE vault(c) == IF Len(c.args) = 1 THEN "default" ELSE c.args[2]
             r(c) == Request(<<"azureKeyVault">>, <<vault(c), c.args[1]>>, <<"GetSecret", vault(c), c.args[1]>>)
  <1>1. \A c : Requests(c) = << r(c) >>
    BY RequestsAre DEF AzureKeyVault, Cached
  <1>2. Uses("azure") = Calls({"azureKeyVault"}, One \cup Two)
    BY DEF Uses
  <1>3. ASSUME NEW c \in Uses(conf.manager) PROVE vault(c) \in Words /\ c.args[1] \in Words
    <2>1. c.args \in One \cup Two
      BY <1>2, CallsAre
    <2>2. Items \subseteq Words /\ "default" \in Words
      BY DEF Words
    <2>3. CASE c.args \in One
      BY <2>2, <2>3 DEF One
    <2>4. CASE c.args \in Two
      <3>1. PICK i \in Items, j \in Items : c.args = <<i, j>>
        BY <2>4 DEF Two
      <3> QED BY <3>1, <2>2
    <2> QED BY <2>1, <2>3, <2>4
  <1> HIDE DEF vault
  <1>4. ASSUME NEW c \in Uses(conf.manager) PROVE Suits(r(c))
    <2>1. <<"azureKeyVault">> \in Seq(CacheNames)
      BY DEF CacheNames
    <2>2. "GetSecret" \in Words
      BY DEF Words
    <2>3. <<"GetSecret", vault(c), c.args[1]>> \in Seq(Words)
      BY <2>2, <1>3
    <2> QED BY <2>1, <2>3 DEF Suits, Request, GateFits, Reserved, Asking
  <1>5. ASSUME NEW c \in Uses(conf.manager), NEW d \in Uses(conf.manager) PROVE Agree(r(c), r(d))
    <2>1. Range(<<"azureKeyVault">>) = {"azureKeyVault"}
      BY Ranges
    <2> QED BY <2>1 DEF Agree, Request, Sig, ByEntry
  <1>6. ~ByEntry BY DEF ByEntry
  <1> HIDE DEF r
  <1>7. ASSUME NEW c \in Uses(conf.manager) PROVE Requests(c) = << Requests(c)[1] >> /\ Requests(c)[1] = r(c)
    BY <1>1
  <1> QED
    BY <1>4, <1>5, <1>6, <1>7, OneEach

LEMMA AWSFits == conf.manager = "aws" => Fits
  <1> SUFFICES ASSUME conf.manager = "aws" PROVE Fits
    OBVIOUS
  <1> DEFINE p == <<"GetSecretValue">>
             looks(c) == (IF c.fn = "awsSecretsManager" THEN <<"awsJSON">> ELSE <<>>) \o <<"aws">>
             r(c) == Request(looks(c), c.args, p \o c.args)
  <1>1. p \in Seq(Words) /\ p # <<>> /\ p[1] = "GetSecretValue"
    BY DEF Words
  <1>2. \A c : Requests(c) = << r(c) >>
    BY RequestsAre DEF AWSSecretsManager
  <1>3. Uses("aws") = Calls({"awsSecretsManager", "awsSecretsManagerRaw"}, One)
    BY DEF Uses
  <1>4. \A c \in Uses(conf.manager) : c.args \in Seq(Words)
    BY <1>3, ArgumentsAre
  <1>5. ASSUME NEW c PROVE looks(c) \in Seq(CacheNames) /\ "aws" \in Range(looks(c))
    <2> DEFINE l == IF c.fn = "awsSecretsManager" THEN <<"awsJSON">> ELSE <<>>
               a == <<"aws">>
    <2>1. <<"awsJSON">> \in Seq(CacheNames) /\ a \in Seq(CacheNames)
      BY DEF CacheNames
    <2>2. <<>> \in Seq(CacheNames)
      BY EmptySeq
    <2>3. l \in Seq(CacheNames)
      BY <2>1, <2>2
    <2>4. Range(a) = {"aws"}
      BY Ranges
    <2> HIDE DEF l, a
    <2>5. l \o a \in Seq(CacheNames) /\ Range(l \o a) = Range(l) \cup Range(a)
      BY <2>1, <2>3, ConcatProperties, RangeConcatenation
    <2>6. looks(c) = l \o a
      BY DEF l, a
    <2> HIDE DEF looks
    <2> QED BY <2>4, <2>5, <2>6
  <1> HIDE DEF p, looks
  <1>6. ASSUME NEW c \in Uses(conf.manager) PROVE Suits(r(c))
    <2>1. p \o c.args \in Seq(Words) /\ p \o c.args # <<>> /\ (p \o c.args)[1] = "GetSecretValue"
      BY <1>1, <1>4, Joined
    <2> QED BY <1>5, <2>1 DEF Suits, Request, GateFits, Reserved, Asking
  <1>7. ASSUME NEW c \in Uses(conf.manager), NEW d \in Uses(conf.manager) PROVE Agree(r(c), r(d))
    <2>1. p \o c.args = p \o d.args => c.args = d.args
      BY <1>1, <1>4, ConcatSimplifications
    <2>2. "aws" \in Range(looks(c)) /\ "aws" \in Range(looks(d))
      BY <1>5
    <2> QED BY <2>1, <2>2 DEF Agree, Request, Sig, ByEntry
  <1>8. ~ByEntry BY DEF ByEntry
  <1> HIDE DEF r
  <1>9. ASSUME NEW c \in Uses(conf.manager) PROVE Requests(c) = << Requests(c)[1] >> /\ Requests(c)[1] = r(c)
    BY <1>2
  <1> QED
    BY <1>6, <1>7, <1>8, <1>9, OneEach

LEMMA EJSONFits == conf.manager = "ejson" => Fits
  <1> SUFFICES ASSUME conf.manager = "ejson" PROVE Fits
    OBVIOUS
  <1> DEFINE p == <<"DecryptFile">>
             r(c) == Request(<<"ejson">>, << c.args[1] >>, p \o c.args)
  <1>1. p \in Seq(Words) /\ p # <<>> /\ p[1] = "DecryptFile" /\ Len(p) = 1
    BY DEF Words
  <1>2. \A c : Requests(c) = << r(c) >>
    BY RequestsAre DEF EJSON, Cached
  <1>3. Uses("ejson") = Calls({"ejsonDecryptWithKey"}, Two)
    BY DEF Uses
  <1>4. ASSUME NEW c \in Uses(conf.manager) PROVE c.args \in Seq(Words) /\ 1 \in 1 .. Len(c.args)
    <2>1. c.args \in Seq(Words) /\ \E i, j \in Items : c.args = <<i, j>>
      BY <1>3, ArgumentsAre
    <2>2. PICK i \in Items, j \in Items : c.args = <<i, j>>
      BY <2>1
    <2>3. Len(<<i, j>>) = 2
      OBVIOUS
    <2> QED BY <2>1, <2>2, <2>3
  <1> HIDE DEF p
  <1>5. ASSUME NEW c \in Uses(conf.manager) PROVE Suits(r(c)) /\ r(c).argv = p \o c.args /\ (p \o c.args)[2] = c.args[1]
    <2>1. /\ p \o c.args \in Seq(Words) /\ p \o c.args # <<>> /\ (p \o c.args)[1] = "DecryptFile"
          /\ \A i \in 1 .. Len(c.args) : (p \o c.args)[Len(p) + i] = c.args[i]
      BY <1>1, <1>4, Joined
    <2>2. (p \o c.args)[2] = c.args[1]
      <3>1. (p \o c.args)[Len(p) + 1] = c.args[1]
        BY ONLY <2>1, <1>4
      <3>2. Len(p) + 1 = 2
        BY <1>1
      <3> QED BY ONLY <3>1, <3>2
    <2>3. <<"ejson">> \in Seq(CacheNames)
      BY DEF CacheNames
    <2> QED BY <2>1, <2>2, <2>3 DEF Suits, Request, GateFits, Reserved, Asking
  <1>6. ASSUME NEW c \in Uses(conf.manager), NEW d \in Uses(conf.manager) PROVE Agree(r(c), r(d))
    <2>1. p \o c.args = p \o d.args => c.args = d.args
      BY <1>1, <1>4, ConcatSimplifications
    <2>2. Range(<<"ejson">>) = {"ejson"}
      BY Ranges
    <2>3. << c.args[1] >> = << d.args[1] >> => c.args[1] = d.args[1]
      OBVIOUS
    <2>4. (p \o c.args)[2] = c.args[1] /\ (p \o d.args)[2] = d.args[1]
      BY <1>5
    <2> QED BY <2>1, <2>2, <2>3, <2>4 DEF Agree, Request, Sig, ByEntry
  <1> HIDE DEF r
  <1>7. ASSUME NEW c \in Uses(conf.manager) PROVE Requests(c) = << Requests(c)[1] >> /\ Requests(c)[1] = r(c)
    BY <1>2
  <1> QED
    BY <1>5, <1>6, <1>7, OneEach

LEMMA BitwardenSecretsFits == conf.manager = "bws" => Fits
  <1> SUFFICES ASSUME conf.manager = "bws" PROVE Fits
    OBVIOUS
  <1> DEFINE p == <<"secret", "get">>
             r(c) == [Request(<<"bitwarden">>, p \o c.args, p \o c.args) EXCEPT !.puts = <<"bitwardenSecrets">>]
  <1>1. p \in Seq(Words) /\ p # <<>> /\ p[1] = "secret" /\ p[2] = "get" /\ Len(p) = 2
    BY DEF Words
  <1>2. \A c : Requests(c) = << r(c) >>
    BY RequestsAre DEF BitwardenSecrets
  <1>3. Uses("bws") = Calls({"bitwardenSecrets"}, One)
    BY DEF Uses
  <1>4. \A c \in Uses(conf.manager) : c.args \in Seq(Words)
    BY <1>3, ArgumentsAre
  <1> HIDE DEF p
  <1>5. ASSUME NEW c \in Uses(conf.manager) PROVE Suits(r(c)) /\ NeverCached(p \o c.args)
    <2>1. /\ p \o c.args \in Seq(Words) /\ p \o c.args # <<>> /\ (p \o c.args)[1] = "secret"
          /\ Len(p \o c.args) = Len(p) + Len(c.args)
          /\ \A i \in 1 .. Len(p) : (p \o c.args)[i] = p[i]
      BY <1>1, <1>4, Joined
    <2>2. (p \o c.args)[2] = "get" /\ Len(p \o c.args) >= 2
      <3>1. Len(c.args) \in Nat
        BY <1>4
      <3> QED BY <1>1, <2>1, <3>1
    <2>3. <<"bitwarden">> \in Seq(CacheNames) /\ <<"bitwardenSecrets">> \in Seq(CacheNames)
      BY DEF CacheNames
    <2>4. NeverCached(p \o c.args)
      BY <2>1, <2>2, UncachedAre
    <2> QED BY <2>1, <2>3, <2>4 DEF Suits, Request, GateFits, Reserved, Asking
  <1>6. ASSUME NEW c \in Uses(conf.manager), NEW d \in Uses(conf.manager) PROVE Agree(r(c), r(d))
    BY <1>5 DEF Agree, Request, Sig, ByEntry
  <1>7. ~ByEntry BY DEF ByEntry
  <1> HIDE DEF r
  <1>8. ASSUME NEW c \in Uses(conf.manager) PROVE Requests(c) = << Requests(c)[1] >> /\ Requests(c)[1] = r(c)
    BY <1>2
  <1> QED
    BY <1>5, <1>6, <1>7, <1>8, OneEach

LEMMA PassholeFits == conf.manager = "passhole" => Fits
  <1> SUFFICES ASSUME conf.manager = "passhole" PROVE Fits
    OBVIOUS
  <1> DEFINE p == <<"show", "--field">>
             g == IF conf.prompt THEN Gate(<<"passhole">>, "user", FALSE) ELSE NoGate
             r(c) == [Request(<<"passhole">>, c.args, p \o c.args) EXCEPT !.gate = g]
  <1>1. p \in Seq(Words) /\ p # <<>> /\ p[1] = "show"
    BY DEF Words
  <1>2. \A c : Requests(c) = << r(c) >>
    BY RequestsAre DEF Passhole
  <1>3. Uses("passhole") = Calls({"passhole"}, Two)
    BY DEF Uses
  <1>4. \A c \in Uses(conf.manager) : c.args \in Seq(Words)
    BY <1>3, ArgumentsAre
  <1> HIDE DEF p
  <1>5. ASSUME NEW c \in Uses(conf.manager) PROVE Suits(r(c))
    <2>1. p \o c.args \in Seq(Words) /\ p \o c.args # <<>> /\ (p \o c.args)[1] = "show"
      BY <1>1, <1>4, Joined
    <2>2. <<"passhole">> \in Seq(CacheNames)
      BY DEF CacheNames
    <2>3. "passhole" \in Words
      BY DEF Words
    <2>4. <<"passhole">> \in Seq(Words) /\ <<"passhole">> # <<>>
      BY <2>3
    <2>5. g = NoGate \/ (g.ask \in Asking /\ g.of \in Seq(Words) /\ g.of # <<>> /\ g # NoGate /\ g.keepsEmpty \in BOOLEAN)
      BY <2>4 DEF Gate, NoGate, Asking
    <2> HIDE DEF g
    <2> QED BY <2>1, <2>2, <2>5 DEF Suits, Request, GateFits, Reserved, Asking
  <1>6. ASSUME NEW c \in Uses(conf.manager), NEW d \in Uses(conf.manager) PROVE Agree(r(c), r(d))
    <2>1. p \o c.args = p \o d.args => c.args = d.args
      BY <1>1, <1>4, ConcatSimplifications
    <2>2. Range(<<"passhole">>) = {"passhole"}
      BY Ranges
    <2> QED BY <2>1, <2>2 DEF Agree, Request, Sig, ByEntry
  <1>7. ~ByEntry BY DEF ByEntry
  <1> HIDE DEF r
  <1>8. ASSUME NEW c \in Uses(conf.manager) PROVE Requests(c) = << Requests(c)[1] >> /\ Requests(c)[1] = r(c)
    BY <1>2
  <1> QED
    BY <1>5, <1>6, <1>7, <1>8, OneEach

\* Managers whose functions make requests out of a set.
LEMMA AllOf ==
    ASSUME NEW R,
           \A c \in Uses(conf.manager) : Requests(c) \in Seq(R) /\ Requests(c) # <<>>,
           ~ByEntry,
           \A r \in R : Suits(r) /\ (conf.manager = "op" /\ r.gate.of # <<>> => TokenFits(r.gate.of, r.argv)),
           \A r, q \in R : Agree(r, q)
    PROVE  Fits
  <1>1. ASSUME NEW c \in Uses(conf.manager), NEW k \in DOMAIN Requests(c)
        PROVE  Requests(c)[k] \in R
    <2>1. Requests(c) \in Seq(R) /\ DOMAIN Requests(c) = 1 .. Len(Requests(c))
      BY LenProperties
    <2> QED BY <2>1, ElementOfSeq
  <1>2. Asks \subseteq R
    BY <1>1 DEF Asks
  <1>3. ASSUME NEW c \in Uses(conf.manager) PROVE Requests(c) \in Seq(Asks)
    <2> DEFINE s == Requests(c)
    <2>1. \A k \in DOMAIN s : s[k] \in Asks
      BY DEF Asks
    <2>2. s \in Seq(R)
      OBVIOUS
    <2> HIDE DEF s
    <2>3. Len(s) \in Nat /\ s \in [1 .. Len(s) -> R] /\ DOMAIN s = 1 .. Len(s)
      BY <2>2, LenProperties
    <2>4. s \in [1 .. Len(s) -> Asks]
      BY <2>1, <2>3
    <2>5. s \in Seq(Asks)
      BY <2>3, <2>4
    <2> QED BY <2>5 DEF s
  <1> QED
    BY <1>2, <1>3 DEF Fits

LEMMA GopassFits == conf.manager = "gopass" => Fits
  <1> SUFFICES ASSUME conf.manager = "gopass" PROVE Fits
    OBVIOUS
  <1> DEFINE name(c) == IF c.fn = "gopass" THEN "gopass" ELSE "gopassRaw"
             p(n) == IF conf.mode = "builtin" THEN <<"client.Get", n>>
                     ELSE IF n = "gopass" THEN <<"show", "--password">> ELSE <<"show", "--noparsing">>
             g == IF conf.mode = "builtin" THEN Gate(<<"gopass", "file">>, "user", TRUE) ELSE NoGate
             client == [Request(<<"gopassClient">>, <<>>, <<"api.New">>) EXCEPT !.keepsError = TRUE]
             r(n, a) == IF conf.mode = "builtin" THEN [Request(<<n>>, a, p(n) \o a) EXCEPT !.gate = g]
                        ELSE Request(<<n>>, a, p(n) \o a)
             Two2 == {"gopass", "gopassRaw"}
             A == { a \in Seq(Words) : TRUE }
             R == {client} \cup { r(n, a) : n \in Two2, a \in A }
  <1>1. ASSUME NEW n \in Two2
        PROVE  p(n) \in Seq(Words) /\ p(n) # <<>> /\ p(n)[1] \in {"client.Get", "show"} /\ Len(p(n)) = 2
    <2>1. {"client.Get", "show", "--password", "--noparsing", "gopass", "gopassRaw"} \subseteq Words
      BY DEF Words
    <2>2. /\ <<"client.Get", n>> \in Seq(Words) /\ <<"show", "--password">> \in Seq(Words)
          /\ <<"show", "--noparsing">> \in Seq(Words)
      BY <2>1
    <2>3. /\ <<"client.Get", n>> # <<>> /\ <<"client.Get", n>>[1] = "client.Get" /\ Len(<<"client.Get", n>>) = 2
          /\ <<"show", "--password">> # <<>> /\ <<"show", "--password">>[1] = "show" /\ Len(<<"show", "--password">>) = 2
          /\ <<"show", "--noparsing">> # <<>> /\ <<"show", "--noparsing">>[1] = "show" /\ Len(<<"show", "--noparsing">>) = 2
      OBVIOUS
    <2> QED BY <2>2, <2>3
  <1>2. p("gopass")[2] # p("gopassRaw")[2]
    BY DEF p
  <1>3. \A c : Requests(c) = IF conf.mode = "builtin" THEN << client, r(name(c), c.args) >> ELSE << r(name(c), c.args) >>
    <2>1. CASE conf.mode = "builtin"
      BY <2>1, RequestsAre DEF Gopass, Cached, Request
    <2>2. CASE conf.mode # "builtin"
      <3>1. \A n, a : r(n, a) = Request(<<n>>, a, p(n) \o a)
        BY <2>2
      <3>2. \A c : Requests(c) = << Request(<<name(c)>>, c.args, p(name(c)) \o c.args) >>
        BY <2>2, RequestsAre DEF Gopass, Cached
      <3> HIDE DEF r
      <3> QED BY <2>2, <3>1, <3>2
    <2> QED BY <2>1, <2>2
  <1>4. Uses("gopass") = Calls({"gopass", "gopassRaw"}, One)
    BY DEF Uses
  <1>5. \A c \in Uses(conf.manager) : c.args \in A /\ name(c) \in Two2
    BY <1>4, ArgumentsAre
  <1>6. g = NoGate \/ (g.ask \in Asking /\ g.of \in Seq(Words) /\ g.of # <<>> /\ g # NoGate /\ g.keepsEmpty \in BOOLEAN)
    <2>1. "gopass" \in Words /\ "file" \in Words
      BY DEF Words
    <2>2. <<"gopass", "file">> \in Seq(Words) /\ <<"gopass", "file">> # <<>>
      BY <2>1
    <2> QED BY <2>2 DEF Gate, NoGate, Asking
  <1> HIDE DEF p, g
  <1>20. ASSUME NEW n, NEW a
         PROVE  /\ r(n, a).looks = <<n>> /\ r(n, a).puts = <<n>> /\ r(n, a).key = a /\ r(n, a).argv = p(n) \o a
                /\ r(n, a).gate = NoGate \/ r(n, a).gate = g
    BY DEF Request
  <1>7. Suits(client)
    <2>1. "api.New" \in Words /\ "gopassClient" \in CacheNames
      BY DEF Words, CacheNames
    <2>2. <<"api.New">> \in Seq(Words) /\ <<"gopassClient">> \in Seq(CacheNames)
      BY <2>1
    <2> QED BY <2>2 DEF Suits, Request, GateFits, Reserved, Asking
  <1> HIDE DEF r, R, name
  <1>8. ASSUME NEW n \in Two2, NEW a \in A PROVE Suits(r(n, a))
    <2>0. r(n, a).looks = <<n>> /\ r(n, a).puts = <<n>> /\ r(n, a).key = a /\ r(n, a).argv = p(n) \o a /\ (r(n, a).gate = NoGate \/ r(n, a).gate = g)
      BY <1>20
    <2>1. <<n>> \in Seq(CacheNames)
      BY DEF CacheNames
    <2>2. p(n) \o a \in Seq(Words) /\ p(n) \o a # <<>> /\ (p(n) \o a)[1] \notin Reserved
      BY <1>1, Joined DEF Reserved, Asking
    <2> QED BY <1>6, <2>0, <2>1, <2>2 DEF Suits, GateFits
  <1>9. ASSUME NEW n \in Two2, NEW a \in A, NEW m \in Two2, NEW b \in A PROVE Agree(r(n, a), r(m, b))
    <2>0. r(n, a).looks = <<n>> /\ r(n, a).puts = <<n>> /\ r(n, a).key = a /\ r(n, a).argv = p(n) \o a
      BY <1>20
    <2>00. r(m, b).looks = <<m>> /\ r(m, b).puts = <<m>> /\ r(m, b).key = b /\ r(m, b).argv = p(m) \o b
      BY <1>20
    <2>1. p(n) \o a = p(m) \o b => n = m
      <3>1. (p(n) \o a)[2] = p(n)[2] /\ (p(m) \o b)[2] = p(m)[2]
        <4>1. (\A i \in 1 .. Len(p(n)) : (p(n) \o a)[i] = p(n)[i]) /\ (\A i \in 1 .. Len(p(m)) : (p(m) \o b)[i] = p(m)[i])
          BY <1>1, Joined
        <4> QED BY <4>1, <1>1
      <3> QED BY <1>2, <3>1
    <2>2. p(n) \o a = p(n) \o b => a = b
      BY <1>1, ConcatSimplifications
    <2>3. Range(<<n>>) = {n} /\ Range(<<m>>) = {m}
      BY Ranges
    <2> DEFINE x == r(n, a)
               y == r(m, b)
    <2>4. x.puts = x.looks /\ Range(x.looks) = {n} /\ Range(x.puts) = {n} /\ Range(y.looks) = {m} /\ x.key = a /\ y.key = b
      BY <2>0, <2>00, <2>3
    <2>5. Sig(x.argv) = x.argv /\ Sig(y.argv) = y.argv
      BY DEF Sig, ByEntry
    <2>6. x.argv = y.argv <=> n = m /\ a = b
      BY <2>0, <2>00, <2>1, <2>2
    <2> HIDE DEF x, y
    <2>7. Agree(x, y)
      BY <2>4, <2>5, <2>6 DEF Agree
    <2> QED BY <2>7 DEF x, y
  <1>10. ASSUME NEW n \in Two2, NEW a \in A PROVE Agree(client, r(n, a)) /\ Agree(r(n, a), client)
    <2>0. r(n, a).looks = <<n>> /\ r(n, a).puts = <<n>> /\ r(n, a).key = a /\ r(n, a).argv = p(n) \o a
      BY <1>20
    <2>1. Range(<<n>>) = {n} /\ Range(<<"gopassClient">>) = {"gopassClient"}
      BY Ranges
    <2>2. (p(n) \o a)[1] \in {"client.Get", "show"}
      BY <1>1, Joined
    <2>3. p(n) \o a # <<"api.New">>
      <3>1. <<"api.New">>[1] = "api.New"
        OBVIOUS
      <3> QED BY <2>2, <3>1
    <2> QED BY <2>0, <2>1, <2>3 DEF Agree, Request, Sig, ByEntry
  <1>11. Agree(client, client)
    <2>1. Range(<<"gopassClient">>) = {"gopassClient"}
      BY Ranges
    <2> QED BY <2>1 DEF Agree, Request, Sig, ByEntry
  <1>12. ~ByEntry BY DEF ByEntry
  <1> HIDE DEF client, r, name, A
  <1>13. \A x \in R : Suits(x)
    BY <1>7, <1>8 DEF R
  <1>14. \A x, y \in R : Agree(x, y)
    BY <1>9, <1>10, <1>11 DEF R
  <1>15. ASSUME NEW c \in Uses(conf.manager) PROVE Requests(c) \in Seq(R) /\ Requests(c) # <<>>
    <2>1. client \in R /\ r(name(c), c.args) \in R
      BY <1>5 DEF R
    <2>2. <<client, r(name(c), c.args)>> \in Seq(R) /\ <<r(name(c), c.args)>> \in Seq(R)
      BY <2>1
    <2>3. <<client, r(name(c), c.args)>> # <<>> /\ <<r(name(c), c.args)>> # <<>>
      OBVIOUS
    <2> QED BY <1>3, <2>2, <2>3
  <1> HIDE DEF R
  <1> QED
    BY <1>12, <1>13, <1>14, <1>15, AllOf

LEMMA ConcatNonEmpty ==
    ASSUME NEW R, NEW s \in Seq(R), NEW t \in Seq(R), t # <<>>
    PROVE  s \o t \in Seq(R) /\ s \o t # <<>>
  <1>1. s \o t \in Seq(R) /\ Len(s \o t) = Len(s) + Len(t)
    BY ConcatProperties
  <1>2. Len(s) \in Nat /\ Len(t) \in Nat /\ Len(t) > 0
    BY EmptySeq, LenProperties
  <1> QED BY <1>1, <1>2, EmptySeq

LEMMA BitwardenFits == conf.manager = "bitwarden" => Fits
  <1> SUFFICES ASSUME conf.manager = "bitwarden" PROVE Fits
    OBVIOUS
  <1> DEFINE A == { a \in Seq(Words) : a # <<>> /\ a[1] \notin Reserved }
             r(a) == Request(<<"bitwarden">>, a, a)
             R == { r(a) : a \in A }
             u == <<"unlock", "--raw">>
             i(c) == <<"get", "item", c.args[1]>>
             p == <<"get", "attachment">>
             t(c) == p \o c.args
  <1>1. u \in A
    <2>1. "unlock" \in Words /\ "--raw" \in Words /\ u[1] = "unlock"
      BY DEF Words
    <2>2. u \in Seq(Words) /\ u # <<>>
      BY <2>1
    <2> QED BY <2>1, <2>2 DEF Reserved, Asking
  <1>2. ASSUME NEW c, \E x \in Items : c.args[1] = x PROVE i(c) \in A
    <2>1. "get" \in Words /\ "item" \in Words /\ c.args[1] \in Words /\ i(c)[1] = "get"
      BY <1>2 DEF Words
    <2>2. i(c) \in Seq(Words) /\ i(c) # <<>>
      BY <2>1
    <2> QED BY <2>1, <2>2 DEF Reserved, Asking
  <1>3. ASSUME NEW c, c.args \in Seq(Words) PROVE t(c) \in A
    <2>1. "get" \in Words /\ "attachment" \in Words /\ p[1] = "get"
      BY DEF Words
    <2>2. p \in Seq(Words) /\ p # <<>>
      BY <2>1
    <2>3. t(c) \in Seq(Words) /\ t(c) # <<>> /\ t(c)[1] = p[1]
      BY <2>2, <1>3, Joined
    <2> QED BY <2>1, <2>3 DEF Reserved, Asking
  <1>4. Uses("bitwarden") = Calls({"bitwarden", "bitwardenFields"}, One)
                           \cup Calls({"bitwardenAttachment", "bitwardenAttachmentByRef"}, Two)
    BY DEF Uses
  <1>5. ASSUME NEW c \in Uses(conf.manager)
        PROVE  /\ c.args \in Seq(Words) /\ \E x \in Items : c.args[1] = x
               /\ c.fn \in {"bitwarden", "bitwardenFields", "bitwardenAttachment", "bitwardenAttachmentByRef"}
    <2>1. CASE c \in Calls({"bitwarden", "bitwardenFields"}, One)
      <3>1. PICK x \in Items : c.args = <<x>>
        BY <2>1, ArgumentsAre
      <3>2. <<x>>[1] = x
        OBVIOUS
      <3>3. c.args \in Seq(Words) /\ c.fn \in {"bitwarden", "bitwardenFields"}
        BY <2>1, ArgumentsAre
      <3> QED BY <3>1, <3>2, <3>3
    <2>2. CASE c \in Calls({"bitwardenAttachment", "bitwardenAttachmentByRef"}, Two)
      <3>1. PICK x, y \in Items : c.args = <<x, y>>
        BY <2>2, ArgumentsAre
      <3>2. <<x, y>>[1] = x
        OBVIOUS
      <3>3. c.args \in Seq(Words) /\ c.fn \in {"bitwardenAttachment", "bitwardenAttachmentByRef"}
        BY <2>2, ArgumentsAre
      <3> QED BY <3>1, <3>2, <3>3
    <2> QED BY <1>4, <2>1, <2>2
  <1> DEFINE one(a) == Cached("bitwarden", a, a)
             g(a) == Unlock \o one(a)
  <1>6. \A c : Requests(c) = IF c.fn = "bitwardenAttachment" THEN g(t(c))
                             ELSE IF c.fn = "bitwardenAttachmentByRef" THEN g(i(c)) \o g(t(c)) ELSE g(i(c))
    BY RequestsAre DEF Bitwarden
  <1>7. Unlock = IF conf.unlock THEN one(u) ELSE <<>>
    BY DEF Unlock
  <1>8. \A x : one(x) = << r(x) >>
    BY DEF Cached
  <1> HIDE DEF A, u, i, t, one, p
  <1>9. ASSUME NEW x \in A PROVE Suits(r(x))
    <2>1. x \in Seq(Words) /\ x # <<>> /\ x[1] \notin Reserved
      BY DEF A
    <2>2. <<"bitwarden">> \in Seq(CacheNames)
      BY DEF CacheNames
    <2> QED BY <2>1, <2>2 DEF Suits, Request, GateFits
  <1>10. ASSUME NEW x \in A, NEW y \in A PROVE Agree(r(x), r(y))
    <2>1. Range(<<"bitwarden">>) = {"bitwarden"}
      BY Ranges
    <2> QED BY <2>1 DEF Agree, Request, Sig, ByEntry
  <1>11. ~ByEntry BY DEF ByEntry
  <1> HIDE DEF r
  <1>12. ASSUME NEW x \in A PROVE one(x) \in Seq(R) /\ one(x) # <<>>
    <2>1. r(x) \in R
      OBVIOUS
    <2> HIDE DEF R
    <2>2. << r(x) >> \in Seq(R) /\ << r(x) >> # <<>>
      BY <2>1
    <2> QED BY <1>8, <2>2
  <1>13. \A x \in R : Suits(x)
    BY <1>9
  <1>14. \A x, y \in R : Agree(x, y)
    BY <1>10
  <1> HIDE DEF R
  <1>15. Unlock \in Seq(R)
    <2>1. <<>> \in Seq(R)
      BY EmptySeq
    <2> QED BY <1>1, <1>7, <1>12, <2>1
  <1>16. ASSUME NEW x \in A PROVE g(x) \in Seq(R) /\ g(x) # <<>>
    BY <1>12, <1>15, ConcatNonEmpty
  <1> HIDE DEF g
  <1>17. ASSUME NEW c \in Uses(conf.manager) PROVE Requests(c) \in Seq(R) /\ Requests(c) # <<>>
    <2>1. i(c) \in A /\ t(c) \in A
      BY <1>2, <1>3, <1>5
    <2>2. /\ g(i(c)) \in Seq(R) /\ g(i(c)) # <<>> /\ g(t(c)) \in Seq(R) /\ g(t(c)) # <<>>
      BY <2>1, <1>16
    <2>3. g(i(c)) \o g(t(c)) \in Seq(R) /\ g(i(c)) \o g(t(c)) # <<>>
      BY <2>2, ConcatNonEmpty
    <2> QED BY <2>2, <2>3, <1>6
  <1> QED
    BY <1>11, <1>13, <1>14, <1>17, AllOf

LEMMA OnePasswordUses ==
    Uses("op") = Calls({"onepassword", "onepasswordItemFields", "onepasswordDocument", "onepasswordRead"},
                       Pairs(Items, Items \cup {""}))
  BY DEF Uses, Pairs

LEMMA OnePasswordFits == SecretsAssumption /\ conf.manager = "op" => Fits
  <1> SUFFICES ASSUME SecretsAssumption, conf.manager = "op" PROVE Fits
    OBVIOUS
  <1> DEFINE v(f) == CASE f = "onepasswordDocument" -> <<"document", "get">>
                       [] f = "onepasswordRead"     -> <<"read", "--no-newline">>
                       [] OTHER                     -> <<"item", "get">>
             b(f, i) == v(f) \o <<i>>
             s(a) == IF a = "" THEN <<>> ELSE <<"--account", a>>
             w(f, i, a) == b(f, i) \o s(a)
             r(x, a) == [Request(<<"op">>, x, x) EXCEPT !.gate = SessionToken(a)]
             F == {"onepassword", "onepasswordItemFields", "onepasswordDocument", "onepasswordRead"}
             N == Items \cup {""}
             R == {Accounts} \cup { r(w(f, i, a), a) : f \in F, i \in Items, a \in N }
  <1>1. ASSUME NEW f \in F
        PROVE  /\ v(f) \in Seq(Words) /\ v(f) # <<>> /\ Len(v(f)) = 2
               /\ v(f)[1] \in {"document", "read", "item"} /\ v(f)[1] # "--account" /\ v(f)[2] # "--account"
    <2>1. {"document", "get", "read", "--no-newline", "item"} \subseteq Words
      BY DEF Words
    <2>2. /\ <<"document", "get">> \in Seq(Words) /\ <<"read", "--no-newline">> \in Seq(Words) /\ <<"item", "get">> \in Seq(Words)
      BY <2>1
    <2>3. /\ <<"document", "get">> # <<>> /\ Len(<<"document", "get">>) = 2
          /\ <<"read", "--no-newline">> # <<>> /\ Len(<<"read", "--no-newline">>) = 2
          /\ <<"item", "get">> # <<>> /\ Len(<<"item", "get">>) = 2
          /\ <<"document", "get">>[1] = "document" /\ <<"document", "get">>[2] = "get"
          /\ <<"read", "--no-newline">>[1] = "read" /\ <<"read", "--no-newline">>[2] = "--no-newline"
          /\ <<"item", "get">>[1] = "item" /\ <<"item", "get">>[2] = "get"
      OBVIOUS
    <2> QED BY <2>2, <2>3
  <1>2. \A c : Requests(c) = IF c.args[2] = "" THEN << r(w(c.fn, c.args[1], c.args[2]), c.args[2]) >>
                             ELSE << Accounts, r(w(c.fn, c.args[1], c.args[2]), c.args[2]) >>
    BY RequestsAre DEF OnePassword
  <1> HIDE DEF v, R, F, N
  <1>3. ASSUME NEW f \in F, NEW i \in Items
        PROVE  /\ b(f, i) \in Seq(Words) /\ b(f, i) # <<>> /\ Len(b(f, i)) = 3
               /\ b(f, i)[1] = v(f)[1] /\ b(f, i)[2] = v(f)[2] /\ b(f, i)[3] = i
    <2> DEFINE t == <<i>>
    <2>0. v(f) \in Seq(Words) /\ v(f) # <<>> /\ Len(v(f)) = 2
      BY <1>1
    <2>1. t \in Seq(Words) /\ Len(t) = 1 /\ t[1] = i
      <3>1. i \in Words
        BY DEF Words
      <3> QED BY <3>1
    <2> HIDE DEF t
    <2>2. /\ v(f) \o t \in Seq(Words) /\ v(f) \o t # <<>> /\ Len(v(f) \o t) = Len(v(f)) + Len(t)
          /\ \A k \in 1 .. Len(t) : (v(f) \o t)[Len(v(f)) + k] = t[k]
          /\ \A k \in 1 .. Len(v(f)) : (v(f) \o t)[k] = v(f)[k]
      BY <1>1, <2>1, Joined
    <2>3. (v(f) \o t)[1] = v(f)[1] /\ (v(f) \o t)[2] = v(f)[2]
      BY <1>1, <2>2
    <2>4. (v(f) \o t)[3] = i
      <3>1. (v(f) \o t)[Len(v(f)) + 1] = t[1]
        BY ONLY <2>1, <2>2
      <3>2. Len(v(f)) + 1 = 3
        BY <2>0
      <3> QED BY ONLY <3>1, <3>2, <2>1
    <2>5. Len(v(f) \o t) = 3
      BY <2>0, <2>1, <2>2
    <2>6. b(f, i) = v(f) \o t
      BY DEF t
    <2> HIDE DEF b
    <2> QED BY <2>2, <2>3, <2>4, <2>5, <2>6
  <1> HIDE DEF b
  <1>4. ASSUME NEW f \in F, NEW i \in Items, NEW a \in N
        PROVE  /\ w(f, i, a) \in Seq(Words) /\ w(f, i, a) # <<>> /\ w(f, i, a)[1] = v(f)[1]
               /\ a = "" => \A k \in DOMAIN w(f, i, a) : w(f, i, a)[k] # "--account"
               /\ a # "" => /\ Len(w(f, i, a)) = 5 /\ w(f, i, a)[4] = "--account" /\ w(f, i, a)[5] = a
                            /\ 4 \in DOMAIN w(f, i, a)
    <2>0. /\ b(f, i) \in Seq(Words) /\ b(f, i) # <<>> /\ Len(b(f, i)) = 3
          /\ b(f, i)[1] = v(f)[1] /\ b(f, i)[2] = v(f)[2] /\ b(f, i)[3] = i
      BY <1>3
    <2>1. CASE a = ""
      <3>1. b(f, i) \o <<>> = b(f, i)
        BY <2>0, ConcatEmptySeq
      <3>2. w(f, i, a) = b(f, i)
        BY <2>1, <3>1
      <3>3. ASSUME NEW k \in DOMAIN b(f, i) PROVE b(f, i)[k] # "--account"
        <4>1. k \in 1 .. 3
          BY <2>0, LenProperties
        <4>2. k = 1 \/ k = 2 \/ k = 3
          BY <4>1
        <4> QED BY <2>0, <4>2, <1>1 DEF SecretsAssumption
      <3> HIDE DEF w
      <3> QED BY <2>0, <2>1, <3>2, <3>3
    <2>2. CASE a # ""
      <3> DEFINE t == <<"--account", a>>
      <3>1. t \in Seq(Words) /\ Len(t) = 2 /\ t[1] = "--account" /\ t[2] = a
        <4>1. a \in Words /\ "--account" \in Words
          BY DEF Words, N
        <4> QED BY <4>1
      <3>2. w(f, i, a) = b(f, i) \o t
        BY <2>2
      <3> HIDE DEF t, w
      <3>3. /\ b(f, i) \o t \in Seq(Words) /\ b(f, i) \o t # <<>> /\ Len(b(f, i) \o t) = Len(b(f, i)) + Len(t)
            /\ (b(f, i) \o t)[1] = b(f, i)[1]
            /\ \A k \in 1 .. Len(t) : (b(f, i) \o t)[Len(b(f, i)) + k] = t[k]
        BY <2>0, <3>1, Joined
      <3>4. (b(f, i) \o t)[4] = "--account"
        <4>1. (b(f, i) \o t)[Len(b(f, i)) + 1] = t[1]
          BY ONLY <3>1, <3>3
        <4>2. Len(b(f, i)) + 1 = 4
          BY <2>0
        <4> QED BY ONLY <4>1, <4>2, <3>1
      <3>5. (b(f, i) \o t)[5] = a
        <4>1. (b(f, i) \o t)[Len(b(f, i)) + 2] = t[2]
          BY ONLY <3>1, <3>3
        <4>2. Len(b(f, i)) + 2 = 5
          BY <2>0
        <4> QED BY ONLY <4>1, <4>2, <3>1
      <3>6. Len(b(f, i) \o t) = 5
        BY <2>0, <3>1, <3>3
      <3>7. 4 \in DOMAIN (b(f, i) \o t)
        BY <3>3, <3>6
      <3> QED BY <2>0, <2>2, <3>2, <3>3, <3>4, <3>5, <3>6, <3>7
    <2> QED BY <2>1, <2>2
  <1> HIDE DEF w, s
  <1>5. ASSUME NEW a \in N
        PROVE  LET g == SessionToken(a)
               IN  /\ g = NoGate \/ (g.ask \in Asking /\ g.of \in Seq(Words) /\ g.of # <<>> /\ g # NoGate /\ g.keepsEmpty \in BOOLEAN)
                   /\ g.of # <<>> => g.of[2] = a
    <2> DEFINE o == <<"op", a>>
    <2>1. "op" \in Words /\ a \in Words
      BY DEF Words, N
    <2>2. o \in Seq(Words) /\ o # <<>> /\ o[2] = a
      <3>1. o \in Seq(Words)
        BY <2>1, Tuples
      <3> QED BY <3>1
    <2>3. SessionToken(a) = Gate(o, "signin", TRUE) \/ SessionToken(a) = NoGate
      BY DEF SessionToken
    <2> DEFINE g == SessionToken(a)
    <2> HIDE DEF o, g
    <2>4. CASE g = NoGate
      <3>1. g.of = <<>>
        BY <2>4 DEF NoGate
      <3> QED BY <2>4, <3>1 DEF g
    <2>5. CASE g = Gate(o, "signin", TRUE)
      <3>1. g.of = o /\ g.ask = "signin" /\ g.keepsEmpty = TRUE /\ g # NoGate
        BY <2>5, <2>2 DEF Gate, NoGate
      <3>2. g.ask \in Asking /\ g.of \in Seq(Words) /\ g.of # <<>> /\ g # NoGate /\ g.keepsEmpty \in BOOLEAN /\ g.of[2] = a
        BY <3>1, <2>2 DEF Asking
      <3> QED BY <3>2 DEF g
    <2> QED BY <2>3, <2>4, <2>5 DEF g
  <1>6. ASSUME NEW x, NEW a
        PROVE  /\ r(x, a).looks = <<"op">> /\ r(x, a).puts = <<"op">> /\ r(x, a).key = x /\ r(x, a).argv = x
               /\ r(x, a).gate = SessionToken(a)
    BY DEF Request
  <1>7. /\ Accounts.looks = <<"opAccounts", "op">> /\ Accounts.puts = <<"opAccounts", "op">>
        /\ Accounts.key = <<"account", "list">> /\ Accounts.argv = <<"account", "list">> /\ Accounts.gate = NoGate
    BY DEF Accounts, Request
  <1> HIDE DEF r
  <1>8. <<"op">> \in Seq(CacheNames) /\ <<"opAccounts", "op">> \in Seq(CacheNames)
    <2>1. "op" \in CacheNames /\ "opAccounts" \in CacheNames
      BY DEF CacheNames
    <2> QED BY <2>1
  <1>9. /\ Suits(Accounts) /\ Accounts.key = Accounts.argv /\ Accounts.puts = Accounts.looks
        /\ "op" \in Range(Accounts.looks) /\ Accounts.gate.of = <<>>
    <2>1. "account" \in Words /\ "list" \in Words
      BY DEF Words
    <2> DEFINE x == <<"account", "list">>
    <2>2. x \in Seq(Words) /\ x # <<>> /\ x[1] = "account"
      BY <2>1
    <2> HIDE DEF x
    <2>3. Accounts.argv = x /\ Accounts.key = x
      BY <1>7 DEF x
    <2>4. Range(<<"opAccounts", "op">>) = {"opAccounts", "op"}
      BY Ranges
    <2> QED BY <1>7, <1>8, <2>2, <2>3, <2>4 DEF Suits, GateFits, Reserved, Asking, NoGate
  <1>10. ASSUME NEW f \in F, NEW i \in Items, NEW a \in N
         PROVE  LET q == r(w(f, i, a), a)
                IN  /\ Suits(q) /\ q.key = q.argv /\ q.puts = q.looks /\ "op" \in Range(q.looks)
                    /\ q.gate.of # <<>> => TokenFits(q.gate.of, q.argv)
    <2>0. /\ w(f, i, a) \in Seq(Words) /\ w(f, i, a) # <<>> /\ w(f, i, a)[1] = v(f)[1]
          /\ a = "" => \A k \in DOMAIN w(f, i, a) : w(f, i, a)[k] # "--account"
          /\ a # "" => Len(w(f, i, a)) = 5 /\ w(f, i, a)[4] = "--account" /\ w(f, i, a)[5] = a /\ 4 \in DOMAIN w(f, i, a)
      BY <1>4
    <2>00. v(f)[1] \in {"document", "read", "item"}
      BY <1>1
    <2> DEFINE x == w(f, i, a)
               q == r(x, a)
    <2>1. /\ q.looks = <<"op">> /\ q.puts = <<"op">> /\ q.key = x /\ q.argv = x /\ q.gate = SessionToken(a)
      BY <1>6
    <2>2. x \in Seq(Words) /\ x # <<>> /\ x[1] \in {"document", "read", "item"}
      BY <2>0, <2>00
    <2>3. GateFits(q) /\ (q.gate.of # <<>> => q.gate.of[2] = a)
      BY <1>5, <2>1 DEF GateFits
    <2>4. /\ a = "" => \A k \in DOMAIN x : x[k] # "--account"
          /\ a # "" => Len(x) = 5 /\ x[4] = "--account" /\ x[5] = a /\ 4 \in DOMAIN x
      BY <2>0
    <2>5. Range(<<"op">>) = {"op"}
      BY Ranges
    <2> HIDE DEF x, q
    <2>6. Suits(q)
      BY <1>8, <2>1, <2>2, <2>3 DEF Suits, Reserved, Asking
    <2>7. q.gate.of # <<>> => TokenFits(q.gate.of, q.argv)
      BY <2>1, <2>3, <2>4 DEF TokenFits
    <2>8. q.key = q.argv /\ q.puts = q.looks /\ "op" \in Range(q.looks)
      BY <2>1, <2>5
    <2> QED BY <2>6, <2>7, <2>8 DEF q, x
  <1>11. ASSUME NEW x \in R
         PROVE  /\ Suits(x) /\ x.key = x.argv /\ x.puts = x.looks /\ "op" \in Range(x.looks)
                /\ x.gate.of # <<>> => TokenFits(x.gate.of, x.argv)
    BY <1>9, <1>10 DEF R
  <1>12. ASSUME NEW c \in Uses(conf.manager)
         PROVE  c.fn \in F /\ c.args[1] \in Items /\ c.args[2] \in N
    <2>1. Uses("op") = Calls(F, Pairs(Items, N))
      BY OnePasswordUses DEF F, N
    <2>2. c.fn \in F /\ c.args \in Pairs(Items, N)
      <3> DEFINE P == Pairs(Items, N)
      <3>1. c \in Calls(F, P)
        BY <2>1
      <3> HIDE DEF P
      <3>2. c.fn \in F /\ c.args \in P
        BY <3>1, CallsAre
      <3> QED BY <3>2 DEF P
    <2>3. PICK i \in Items, a \in N : c.args = <<i, a>>
      BY <2>2, PairsAre
    <2>4. <<i, a>>[1] = i /\ <<i, a>>[2] = a
      OBVIOUS
    <2> QED BY <2>2, <2>3, <2>4
  <1>13. ASSUME NEW c \in Uses(conf.manager) PROVE Requests(c) \in Seq(R) /\ Requests(c) # <<>>
    <2> DEFINE q == r(w(c.fn, c.args[1], c.args[2]), c.args[2])
    <2>1. q \in R /\ Accounts \in R
      BY <1>12 DEF R
    <2>2. Requests(c) = <<q>> \/ Requests(c) = <<Accounts, q>>
      BY <1>2
    <2> HIDE DEF q
    <2>3. <<q>> \in Seq(R) /\ <<Accounts, q>> \in Seq(R) /\ <<q>> # <<>> /\ <<Accounts, q>> # <<>>
      BY <2>1
    <2> QED BY <2>2, <2>3
  <1>14. ~ByEntry BY DEF ByEntry
  <1> HIDE DEF R
  <1>15. ASSUME NEW x \in R, NEW y \in R PROVE Agree(x, y)
    <2>1. /\ x.key = x.argv /\ x.puts = x.looks /\ "op" \in Range(x.looks)
          /\ y.key = y.argv /\ y.puts = y.looks /\ "op" \in Range(y.looks)
      BY <1>11
    <2> QED BY <2>1, <1>14 DEF Agree, Sig
  <1> QED
    BY <1>11, <1>13, <1>14, <1>15, AllOf

LEMMA KeepassxcGateFits ==
    ASSUME NEW r, r.gate = KeepassxcGate
    PROVE  GateFits(r)
  <1> DEFINE g == KeepassxcGate
             a == <<"keepassxc", "console">>
             b == <<"keepassxc", "password">>
  <1>1. {"keepassxc", "console", "password"} \subseteq Words
    BY DEF Words
  <1>2. a \in Seq(Words) /\ b \in Seq(Words) /\ a # <<>> /\ b # <<>>
    BY <1>1
  <1>3. g = Gate(a, "console", TRUE) \/ g = Gate(b, "user", FALSE) \/ g = NoGate
    BY DEF KeepassxcGate
  <1> HIDE DEF a, b, g
  <1>4. g = NoGate \/ (g.ask \in Asking /\ g.of \in Seq(Words) /\ g.of # <<>> /\ g # NoGate /\ g.keepsEmpty \in BOOLEAN)
    <2>1. CASE g = Gate(a, "console", TRUE)
      <3>1. g.of = a /\ g.ask = "console" /\ g.keepsEmpty = TRUE /\ g # NoGate
        BY <1>2, <2>1 DEF Gate, NoGate
      <3> QED BY <1>2, <3>1 DEF Asking
    <2>2. CASE g = Gate(b, "user", FALSE)
      <3>1. g.of = b /\ g.ask = "user" /\ g.keepsEmpty = FALSE /\ g # NoGate
        BY <1>2, <2>2 DEF Gate, NoGate
      <3> QED BY <1>2, <3>1 DEF Asking
    <2> QED BY <1>3, <2>1, <2>2
  <1>5. g = r.gate
    BY DEF g
  <1> QED BY <1>4, <1>5 DEF GateFits

LEMMA KeepassxcUses ==
    ASSUME NEW c \in Uses("keepassxc")
    PROVE  /\ c.fn \in {"keepassxc", "keepassxcAttribute", "keepassxcAttachment"} /\ c.args \in Seq(Words)
           /\ c.args[1] \in Words
           /\ Len(c.args) = IF c.fn = "keepassxc" THEN 1 ELSE 2
  <1>0. Items \subseteq Words
    BY DEF Words
  <1>1. Uses("keepassxc") = Calls({"keepassxc"}, One) \cup Calls({"keepassxcAttribute", "keepassxcAttachment"}, Two)
    BY DEF Uses
  <1>2. CASE c \in Calls({"keepassxc"}, One)
    <2>1. PICK x \in Items : c.args = <<x>>
      BY <1>2, ArgumentsAre
    <2>2. <<x>>[1] = x /\ Len(<<x>>) = 1
      OBVIOUS
    <2>3. c.args \in Seq(Words) /\ c.fn = "keepassxc"
      BY <1>2, ArgumentsAre
    <2> QED BY <1>0, <2>1, <2>2, <2>3
  <1>3. CASE c \in Calls({"keepassxcAttribute", "keepassxcAttachment"}, Two)
    <2>1. PICK x, y \in Items : c.args = <<x, y>>
      BY <1>3, ArgumentsAre
    <2>2. <<x, y>>[1] = x /\ Len(<<x, y>>) = 2
      OBVIOUS
    <2>3. c.args \in Seq(Words) /\ c.fn \in {"keepassxcAttribute", "keepassxcAttachment"}
      BY <1>3, ArgumentsAre
    <2> QED BY <1>0, <2>1, <2>2, <2>3
  <1> QED BY <1>1, <1>2, <1>3

LEMMA BuiltinKeepassxcFits == conf.manager = "keepassxc" /\ conf.mode = "builtin" => Fits
  <1> SUFFICES ASSUME conf.manager = "keepassxc", conf.mode = "builtin" PROVE Fits
    OBVIOUS
  <1> DEFINE att(c) == c.fn = "keepassxcAttachment"
             p(c) == IF att(c) THEN <<"attachments">> ELSE <<"values">>
             k(c) == << c.args[1] >>
             x(c) == p(c) \o k(c)
             r(c) == IF att(c)
                     THEN [Request(<<>>, k(c), x(c)) EXCEPT !.puts = <<"keepassxc">>, !.gate = KeepassxcGate]
                     ELSE [Request(<<"keepassxc">>, k(c), x(c)) EXCEPT !.gate = KeepassxcGate]
  <1>1. \A c : Requests(c) = << r(c) >>
    <2>1. \A c : Requests(c) = Keepassxc(c)
      BY RequestsAre
    <2>2. \A c : Keepassxc(c) = KeepassxcBuiltin(c)
      BY DEF Keepassxc
    <2>3. ASSUME NEW c PROVE KeepassxcBuiltin(c) = << r(c) >>
      <3>1. CASE att(c)
        BY <3>1 DEF KeepassxcBuiltin
      <3>2. CASE ~att(c)
        BY <3>2 DEF KeepassxcBuiltin
      <3> QED BY <3>1, <3>2
    <2> QED BY <2>1, <2>2, <2>3
  <1>2. ASSUME NEW c \in Uses(conf.manager)
        PROVE  /\ x(c) \in Seq(Words) /\ x(c) # <<>> /\ x(c)[2] = c.args[1] /\ k(c)[1] = c.args[1]
               /\ x(c)[1] = IF att(c) THEN "attachments" ELSE "values"
    <2> DEFINE w == IF att(c) THEN "attachments" ELSE "values"
               a == <<w>>
               b == <<c.args[1]>>
    <2>1. w \in Words /\ c.args[1] \in Words
      <3>1. "attachments" \in Words /\ "values" \in Words
        BY DEF Words
      <3> QED BY <3>1, KeepassxcUses
    <2> HIDE DEF w
    <2>2. a \in Seq(Words) /\ b \in Seq(Words) /\ a # <<>> /\ Len(a) = 1 /\ Len(b) = 1 /\ a[1] = w /\ b[1] = c.args[1]
      BY <2>1
    <2>3. p(c) = a /\ k(c) = b
      BY DEF w
    <2> HIDE DEF a, b, p, k
    <2>4. /\ a \o b \in Seq(Words) /\ a \o b # <<>> /\ (a \o b)[1] = a[1]
          /\ \A i \in 1 .. Len(b) : (a \o b)[Len(a) + i] = b[i]
      BY <2>2, Joined
    <2>5. (a \o b)[2] = b[1]
      <3>1. (a \o b)[Len(a) + 1] = b[1]
        BY ONLY <2>2, <2>4
      <3>2. Len(a) + 1 = 2
        BY <2>2
      <3> QED BY ONLY <3>1, <3>2
    <2>6. x(c) = a \o b
      BY <2>3
    <2> HIDE DEF x
    <2> QED BY <2>2, <2>3, <2>4, <2>5, <2>6 DEF w
  <1>3. ASSUME NEW c
        PROVE  /\ r(c).looks = IF att(c) THEN <<>> ELSE <<"keepassxc">>
               /\ r(c).puts = <<"keepassxc">> /\ r(c).key = k(c) /\ r(c).argv = x(c) /\ r(c).gate = KeepassxcGate
    BY DEF Request
  <1> HIDE DEF r, x, p
  <1>4. <<"keepassxc">> \in Seq(CacheNames) /\ <<>> \in Seq(CacheNames)
    <2>1. "keepassxc" \in CacheNames
      BY DEF CacheNames
    <2> QED BY <2>1, EmptySeq
  <1>5. ASSUME NEW c \in Uses(conf.manager) PROVE Suits(r(c)) /\ r(c).argv[2] = c.args[1]
    <2>1. x(c) \in Seq(Words) /\ x(c) # <<>> /\ x(c)[1] \in {"attachments", "values"} /\ x(c)[2] = c.args[1]
      BY <1>2
    <2>2. /\ r(c).looks = (IF att(c) THEN <<>> ELSE <<"keepassxc">>)
          /\ r(c).puts = <<"keepassxc">> /\ r(c).argv = x(c) /\ r(c).gate = KeepassxcGate
      BY <1>3
    <2>3. GateFits(r(c))
      BY <2>2, KeepassxcGateFits
    <2> QED BY <1>4, <2>1, <2>2, <2>3 DEF Suits, Reserved, Asking
  <1>6. ASSUME NEW c \in Uses(conf.manager), NEW d \in Uses(conf.manager) PROVE Agree(r(c), r(d))
    <2>1. /\ r(c).looks = (IF att(c) THEN <<>> ELSE <<"keepassxc">>)
          /\ r(c).puts = <<"keepassxc">> /\ r(c).argv = x(c) /\ r(c).key = << c.args[1] >>
      BY <1>3
    <2>2. /\ r(d).looks = (IF att(d) THEN <<>> ELSE <<"keepassxc">>)
          /\ r(d).puts = <<"keepassxc">> /\ r(d).argv = x(d) /\ r(d).key = << d.args[1] >>
      BY <1>3
    <2>3. /\ x(c)[2] = c.args[1] /\ x(c)[1] = (IF att(c) THEN "attachments" ELSE "values")
          /\ x(d)[2] = d.args[1] /\ x(d)[1] = (IF att(d) THEN "attachments" ELSE "values")
      BY <1>2
    <2>4. << c.args[1] >> = << d.args[1] >> <=> c.args[1] = d.args[1]
      OBVIOUS
    <2>5. att(c) => NeverCached(x(c))
      BY <1>2, UncachedAre
    <2>6. ~att(d) => Range(r(d).looks) = {"keepassxc"}
      BY <2>2, Ranges
    <2>7. Range(r(c).puts) = {"keepassxc"}
      BY <2>1, Ranges
    <2>8. \A y : Sig(y) = y[2]
      BY DEF Sig, ByEntry
    <2>9. r(c).key = r(d).key => Sig(r(c).argv) = Sig(r(d).argv)
      BY <2>1, <2>2, <2>3, <2>4, <2>8
    <2>10. r(c).argv = r(d).argv => NeverCached(r(c).argv) \/ (r(c).key = r(d).key /\ Range(r(c).puts) \cap Range(r(d).looks) # {})
      BY <2>1, <2>2, <2>3, <2>4, <2>5, <2>6, <2>7
    <2>11. r(c).puts # r(c).looks => NeverCached(r(c).argv)
      BY <2>1, <2>5
    <2> QED BY <2>9, <2>10, <2>11 DEF Agree
  <1>7. ASSUME NEW c \in Uses(conf.manager) PROVE Requests(c) = << Requests(c)[1] >> /\ Requests(c)[1] = r(c)
    BY <1>1
  <1> HIDE DEF k, att
  <1> QED
    BY <1>5, <1>6, <1>7, OneEach

LEMMA OutsideKeepassxcFits == conf.manager = "keepassxc" /\ conf.mode # "builtin" => Fits
  <1> SUFFICES ASSUME conf.manager = "keepassxc", conf.mode # "builtin" PROVE Fits
    OBVIOUS
  <1> DEFINE p(f) == IF f = "keepassxc" THEN <<"show">>
                     ELSE IF f = "keepassxcAttribute" THEN <<"show", "--attributes">> ELSE <<"attachment-export">>
             l(f) == IF f = "keepassxc" THEN <<"keepassxc">>
                     ELSE IF f = "keepassxcAttribute" THEN <<"keepassxcAttributes">> ELSE <<>>
             x(c) == p(c.fn) \o c.args
             r(c) == [Request(l(c.fn), c.args, x(c)) EXCEPT !.gate = KeepassxcGate]
             F == {"keepassxc", "keepassxcAttribute", "keepassxcAttachment"}
  <1>1. \A c : Requests(c) = << r(c) >>
    BY RequestsAre DEF Keepassxc
  <1>2. ASSUME NEW f \in F
        PROVE  /\ p(f) \in Seq(Words) /\ p(f) # <<>> /\ Len(p(f)) = (IF f = "keepassxcAttribute" THEN 2 ELSE 1)
               /\ p(f)[1] = (IF f = "keepassxcAttachment" THEN "attachment-export" ELSE "show")
               /\ l(f) \in Seq(CacheNames)
               /\ Range(l(f)) = (IF f = "keepassxc" THEN {"keepassxc"}
                                 ELSE IF f = "keepassxcAttribute" THEN {"keepassxcAttributes"} ELSE {})
    <2>1. {"show", "--attributes", "attachment-export"} \subseteq Words
      BY DEF Words
    <2>2. {"keepassxc", "keepassxcAttributes"} \subseteq CacheNames
      BY DEF CacheNames
    <2>3. <<>> \in Seq(CacheNames) /\ Range(<<>>) = {}
      BY EmptySeq DEF Range
    <2>4. Range(<<"keepassxc">>) = {"keepassxc"} /\ Range(<<"keepassxcAttributes">>) = {"keepassxcAttributes"}
      BY Ranges
    <2>5. CASE f = "keepassxc"
      BY <2>1, <2>2, <2>4, <2>5
    <2>6. CASE f = "keepassxcAttribute"
      BY <2>1, <2>2, <2>4, <2>6
    <2>7. CASE f = "keepassxcAttachment"
      BY <2>1, <2>3, <2>7
    <2> QED BY <2>5, <2>6, <2>7
  <1> HIDE DEF p, l, F
  <1>3. ASSUME NEW c
        PROVE  /\ r(c).looks = l(c.fn) /\ r(c).puts = l(c.fn) /\ r(c).key = c.args /\ r(c).argv = x(c)
               /\ r(c).gate = KeepassxcGate
    BY DEF Request
  <1> HIDE DEF r
  <1>4. ASSUME NEW c \in Uses(conf.manager)
        PROVE  /\ c.fn \in F /\ c.args \in Seq(Words)
               /\ Len(c.args) = (IF c.fn = "keepassxc" THEN 1 ELSE 2)
               /\ p(c.fn) \in Seq(Words) /\ p(c.fn) # <<>>
    <2>1. c.fn \in F /\ c.args \in Seq(Words) /\ Len(c.args) = (IF c.fn = "keepassxc" THEN 1 ELSE 2)
      BY KeepassxcUses DEF F
    <2> QED BY <2>1, <1>2
  <1>5. ASSUME NEW c \in Uses(conf.manager)
        PROVE  /\ x(c) \in Seq(Words) /\ x(c) # <<>>
               /\ x(c)[1] = (IF c.fn = "keepassxcAttachment" THEN "attachment-export" ELSE "show")
               /\ Len(x(c)) = (IF c.fn = "keepassxc" THEN 2 ELSE IF c.fn = "keepassxcAttribute" THEN 4 ELSE 3)
    <2>0. p(c.fn) \in Seq(Words) /\ p(c.fn) # <<>> /\ c.args \in Seq(Words) /\ c.fn \in F
      BY <1>4
    <2>1. /\ x(c) \in Seq(Words) /\ x(c) # <<>> /\ x(c)[1] = p(c.fn)[1] /\ Len(x(c)) = Len(p(c.fn)) + Len(c.args)
      BY <2>0, Joined
    <2> HIDE DEF x
    <2>2. /\ Len(p(c.fn)) = (IF c.fn = "keepassxcAttribute" THEN 2 ELSE 1)
          /\ p(c.fn)[1] = (IF c.fn = "keepassxcAttachment" THEN "attachment-export" ELSE "show")
      BY <1>2, <2>0
    <2>3. Len(c.args) = (IF c.fn = "keepassxc" THEN 1 ELSE 2)
      BY <1>4
    <2> QED BY <2>0, <2>1, <2>2, <2>3 DEF F
  <1>6. ASSUME NEW c \in Uses(conf.manager) PROVE Suits(r(c))
    <2>1. x(c) \in Seq(Words) /\ x(c) # <<>> /\ x(c)[1] \in {"attachment-export", "show"}
      BY <1>5
    <2>2. r(c).looks = l(c.fn) /\ r(c).puts = l(c.fn) /\ r(c).argv = x(c) /\ r(c).gate = KeepassxcGate
      BY <1>3
    <2>3. GateFits(r(c))
      BY <2>2, KeepassxcGateFits
    <2>4. l(c.fn) \in Seq(CacheNames)
      BY <1>2, <1>4
    <2> QED BY <2>1, <2>2, <2>3, <2>4 DEF Suits, Reserved, Asking
  <1>7. ASSUME NEW c \in Uses(conf.manager), NEW d \in Uses(conf.manager) PROVE Agree(r(c), r(d))
    <2> DEFINE a == r(c) b == r(d)
    <2>1. a.looks = l(c.fn) /\ a.puts = l(c.fn) /\ a.argv = x(c) /\ a.key = c.args
      BY <1>3
    <2>2. b.looks = l(d.fn) /\ b.puts = l(d.fn) /\ b.argv = x(d) /\ b.key = d.args
      BY <1>3
    <2>3. /\ Range(l(c.fn)) = (IF c.fn = "keepassxc" THEN {"keepassxc"}
                               ELSE IF c.fn = "keepassxcAttribute" THEN {"keepassxcAttributes"} ELSE {})
          /\ Range(l(d.fn)) = (IF d.fn = "keepassxc" THEN {"keepassxc"}
                               ELSE IF d.fn = "keepassxcAttribute" THEN {"keepassxcAttributes"} ELSE {})
      BY <1>2, <1>4
    <2>4. /\ c.fn \in F /\ d.fn \in F /\ c.args \in Seq(Words) /\ d.args \in Seq(Words) /\ p(c.fn) \in Seq(Words)
      BY <1>4
    <2>5. \A y : Sig(y) = y
      BY DEF Sig, ByEntry
    <2>6. x(c) = x(d) => c.fn = d.fn
      <3>1. /\ Len(x(c)) = (IF c.fn = "keepassxc" THEN 2 ELSE IF c.fn = "keepassxcAttribute" THEN 4 ELSE 3)
            /\ Len(x(d)) = (IF d.fn = "keepassxc" THEN 2 ELSE IF d.fn = "keepassxcAttribute" THEN 4 ELSE 3)
        BY <1>5
      <3> HIDE DEF x
      <3> SUFFICES ASSUME x(c) = x(d) PROVE c.fn = d.fn
        OBVIOUS
      <3>2. Len(x(c)) = Len(x(d))
        OBVIOUS
      <3>3. c.fn \in F /\ d.fn \in F
        BY <2>4
      <3> QED BY ONLY <3>1, <3>2, <3>3 DEF F
    <2>7. c.fn = d.fn /\ x(c) = x(d) => c.args = d.args
      BY <2>4, ConcatSimplifications
    <2>8. c.fn = "keepassxcAttachment" => NeverCached(x(c))
      BY <1>5, UncachedAre
    <2>9. c.fn = d.fn /\ c.args = d.args => x(c) = x(d)
      OBVIOUS
    <2> HIDE DEF a, b, x
    <2>10. a.key = b.key /\ (Range(a.looks) \cup Range(a.puts)) \cap Range(b.looks) # {} => Sig(a.argv) = Sig(b.argv)
      <3>1. (Range(a.looks) \cup Range(a.puts)) \cap Range(b.looks) # {} => c.fn = d.fn
        BY <2>1, <2>2, <2>3, <2>4 DEF F
      <3> QED BY <3>1, <2>1, <2>2, <2>5, <2>9
    <2>11. a.argv = b.argv => NeverCached(a.argv) \/ (a.key = b.key /\ Range(a.puts) \cap Range(b.looks) # {})
      <3> SUFFICES ASSUME a.argv = b.argv, c.fn # "keepassxcAttachment"
                   PROVE  a.key = b.key /\ Range(a.puts) \cap Range(b.looks) # {}
        BY <2>1, <2>8
      <3>1. c.fn = d.fn /\ c.args = d.args
        BY <2>1, <2>2, <2>6, <2>7
      <3>2. Range(l(c.fn)) # {}
        BY <2>3, <2>4 DEF F
      <3> QED BY <2>1, <2>2, <3>1, <3>2
    <2>12. a.puts = a.looks
      BY <2>1
    <2>13. Agree(a, b)
      BY <2>10, <2>11, <2>12 DEF Agree
    <2> QED BY <2>13 DEF a, b
  <1>8. ~ByEntry BY DEF ByEntry
  <1>9. ASSUME NEW c \in Uses(conf.manager) PROVE Requests(c) = << Requests(c)[1] >> /\ Requests(c)[1] = r(c)
    BY <1>1
  <1> HIDE DEF x
  <1> QED
    BY <1>6, <1>7, <1>8, <1>9, OneEach

-----------------------------------------------------------------------------
(* The requests of every configuration fit *)

LEMMA Configured ==
    ASSUME conf \in Configurations
    PROVE  /\ conf.manager \in Managers /\ conf.team \in {{1}, {1, 2}} /\ conf.tokens \in {0, 1}
  <1>1. PICK m \in Managers :
          conf \in [manager : {m}, mode : Modes(m),
                    prompt : IF m \in {"passhole", "op", "keepassxc"} THEN BOOLEAN ELSE {TRUE}, unlock : {m = "bitwarden"},
                    tokens : IF m = "op" THEN 0..1 ELSE {0}, envOK : IF m = "op" THEN BOOLEAN ELSE {TRUE},
                    team : IF m \in Racing THEN {{1}, {1, 2}} ELSE {{1}}]
    BY DEF Configurations
  <1>2. conf.manager = m
    BY <1>1
  <1>3. conf.team \in {{1}, {1, 2}}
    BY <1>1
  <1>4. conf.tokens \in {0, 1}
    BY <1>1
  <1> QED BY <1>2, <1>3, <1>4

LEMMA AllFit ==
    ASSUME SecretsAssumption, conf \in Configurations
    PROVE  Fits
  <1>1. conf.manager \in
          {"vault", "pass", "rbw", "secret", "keeper", "protonPass", "doppler", "dashlane", "keyring",
           "azure", "aws", "ejson", "lastpass", "bws", "passhole", "gopass", "bitwarden", "op", "keepassxc"}
    BY Configured DEF SecretsAssumption
  <1> QED
    BY <1>1, VaultFits, PassFits, RBWFits, SecretFits, KeeperFits, ProtonPassFits, DopplerFits, DashlaneFits,
       KeyringFits, AzureFits, AWSFits, EJSONFits, LastPassFits, BitwardenSecretsFits, PassholeFits, GopassFits,
       BitwardenFits, OnePasswordFits, BuiltinKeepassxcFits, OutsideKeepassxcFits

\* What the templates may ask depends on the configuration alone.
LEMMA RequestsFixed ==
    ASSUME NEW c, conf' = conf
    PROVE  Requests(c)' = Requests(c)
  <1>1. OnePassword(c)' = OnePassword(c)
    BY DEF OnePassword, SessionToken
  <1>2. Bitwarden(c)' = Bitwarden(c)
    BY DEF Bitwarden, Unlock
  <1>3. Gopass(c)' = Gopass(c)
    BY DEF Gopass
  <1>4. Passhole(c)' = Passhole(c)
    BY DEF Passhole
  <1>5. KeepassxcBuiltin(c)' = KeepassxcBuiltin(c)
    BY DEF KeepassxcBuiltin, KeepassxcGate
  <1>6. Keepassxc(c)' = Keepassxc(c)
    BY <1>5 DEF Keepassxc, KeepassxcGate
  <1> QED BY <1>1, <1>2, <1>3, <1>4, <1>6, Zenon DEF Requests

LEMMA AsksFixed ==
    ASSUME conf' = conf
    PROVE  Asks' = Asks
  BY RequestsFixed DEF Asks

-----------------------------------------------------------------------------
(* What a step leaves as it was *)

LEMMA Steady ==
    ASSUME conf' = conf
    PROVE  /\ Asks' = Asks /\ Outputs' = Outputs /\ Jobs' = Jobs /\ (ByEntry' <=> ByEntry)
           /\ \A c : LastRequest(c)' = LastRequest(c)
           /\ \A a : Sig(a)' = Sig(a)
  <1>1. Asks' = Asks
    BY AsksFixed
  <1>2. Outputs' = Outputs
    BY <1>1 DEF Outputs
  <1>3. Jobs' = Jobs
    BY <1>1, <1>2 DEF Jobs
  <1>4. \A c : LastRequest(c)' = LastRequest(c)
    BY RequestsFixed DEF LastRequest
  <1>5. \A a : Sig(a)' = Sig(a)
    BY DEF Sig, ByEntry
  <1>6. ByEntry' <=> ByEntry
    BY DEF ByEntry
  <1> QED BY <1>1, <1>2, <1>3, <1>4, <1>5, <1>6

LEMMA JobsKept ==
    ASSUME conf' = conf, JobsSound, NEW w \in conf.team, NEW j, JobFits(j), job' = [job EXCEPT ![w] = j]
    PROVE  /\ JobsSound'
           /\ job'[w] = j /\ \A v \in conf.team \ {w} : job'[v] = job[v]
  <1>1. job \in [conf.team -> Jobs] /\ j \in Jobs
    BY DEF JobsSound, JobFits
  <1>2. /\ job' \in [conf.team -> Jobs]
        /\ job'[w] = j /\ \A v \in conf.team \ {w} : job'[v] = job[v]
    BY <1>1
  <1>3. ASSUME NEW v \in conf.team PROVE JobFits(job'[v])
    <2>1. CASE v = w
      BY <1>2, <2>1
    <2>2. CASE v # w
      <3>1. job'[v] = job[v] /\ JobFits(job[v])
        BY <1>2, <2>2 DEF JobsSound
      <3> QED BY <3>1
    <2> QED BY <2>1, <2>2
  <1>4. ASSUME NEW v \in conf.team PROVE JobFits(job[v])'
    BY <1>3, Steady DEF JobFits
  <1>5. JobsSound'
    BY <1>2, <1>4, Steady DEF JobsSound
  <1> QED BY <1>2, <1>5

LEMMA IdleFits == JobFits(Idle)
  <1>1. <<>> \in Seq(Asks)
    BY EmptySeq
  <1> QED BY <1>1 DEF JobFits, Idle, Jobs

\* What a job that is not idle is at.
LEMMA AtWork ==
    ASSUME NEW j, JobFits(j), j.pc # "idle"
    PROVE  /\ j.todo \in Seq(Asks) /\ Head(j.todo) \in Asks /\ Len(j.todo) \in Nat \ {0}
           /\ Tail(j.todo) \in Seq(Asks)
           /\ j.call \in Uses(conf.manager)
           /\ Len(j.todo) > 1 => Tail(j.todo) # <<>> /\ Tail(j.todo)[Len(Tail(j.todo))] = j.todo[Len(j.todo)]
           /\ ~(Len(j.todo) > 1) => Head(j.todo) = LastRequest(j.call)
  <1> DEFINE s == j.todo
  <1>1. s \in Seq(Asks) /\ s # <<>> /\ j.call \in Uses(conf.manager) /\ s[Len(s)] = LastRequest(j.call)
    BY DEF JobFits, Jobs
  <1> HIDE DEF s
  <1>2. Len(s) \in Nat \ {0} /\ Head(s) = s[1] /\ s[1] \in Asks
    BY <1>1, EmptySeq, ElementOfSeq
  <1>3. /\ Tail(s) \in Seq(Asks) /\ Len(Tail(s)) = Len(s) - 1
        /\ \A i \in 1 .. Len(Tail(s)) : Tail(s)[i] = s[i + 1]
    BY <1>1, HeadTailProperties
  <1>4. ASSUME Len(s) > 1 PROVE Tail(s) # <<>> /\ Tail(s)[Len(Tail(s))] = s[Len(s)]
    <2>1. Len(Tail(s)) \in 1 .. Len(Tail(s)) /\ Len(Tail(s)) + 1 = Len(s)
      BY <1>2, <1>3, <1>4
    <2>2. Tail(s)[Len(Tail(s))] = s[Len(Tail(s)) + 1]
      BY <1>3, <2>1
    <2>3. Tail(s) # <<>>
      <3>1. Len(<<>>) = 0
        OBVIOUS
      <3>2. Len(Tail(s)) # 0
        <4> DEFINE m == Len(Tail(s))
        <4>1. m \in 1 .. m
          BY <2>1
        <4> HIDE DEF m
        <4>2. m # 0
          BY <4>1
        <4> QED BY <4>2 DEF m
      <3> QED BY <3>1, <3>2
    <2> QED BY <2>1, <2>2, <2>3
  <1>5. ~(Len(s) > 1) => Len(s) = 1
    <2> DEFINE n == Len(s)
    <2>1. n \in Nat \ {0}
      BY <1>2
    <2> HIDE DEF n
    <2>2. ~(n > 1) => n = 1
      BY <2>1
    <2> QED BY <2>2 DEF n
  <1> QED BY <1>1, <1>2, <1>3, <1>4, <1>5 DEF s

LEMMA Paced ==
    ASSUME NEW j, JobFits(j), j.pc # "idle"
    PROVE  /\ \A p \in {"gate", "run", "look"} : JobFits([[j EXCEPT !.pc = p] EXCEPT !.todo = j.todo])
           /\ Len(j.todo) > 1 => JobFits([[j EXCEPT !.pc = "look"] EXCEPT !.todo = Tail(j.todo)])
  <1>1. /\ j.todo \in Seq(Asks) /\ Tail(j.todo) \in Seq(Asks) /\ j.call \in Uses(conf.manager)
        /\ Len(j.todo) > 1 => Tail(j.todo) # <<>> /\ Tail(j.todo)[Len(Tail(j.todo))] = j.todo[Len(j.todo)]
    BY AtWork
  <1>2. j \in Jobs /\ j.todo # <<>> /\ \A c \in Uses(conf.manager) : j.call = c => j.todo[Len(j.todo)] = LastRequest(c)
    BY DEF JobFits
  <1>3. ASSUME NEW p \in {"gate", "run", "look"} PROVE JobFits([[j EXCEPT !.pc = p] EXCEPT !.todo = j.todo])
    <2> DEFINE i == [[j EXCEPT !.pc = p] EXCEPT !.todo = j.todo]
    <2>1. i \in Jobs /\ i.pc = p /\ i.call = j.call /\ i.todo = j.todo
      BY <1>2 DEF Jobs
    <2> HIDE DEF i
    <2>2. JobFits(i)
      BY <1>1, <1>2, <2>1 DEF JobFits
    <2> QED BY <2>2 DEF i
  <1>4. ASSUME Len(j.todo) > 1 PROVE JobFits([[j EXCEPT !.pc = "look"] EXCEPT !.todo = Tail(j.todo)])
    <2> DEFINE t == Tail(j.todo)
    <2>1. t \in Seq(Asks) /\ t # <<>> /\ t[Len(t)] = j.todo[Len(j.todo)]
      BY <1>1, <1>4
    <2> HIDE DEF t
    <2> DEFINE i == [[j EXCEPT !.pc = "look"] EXCEPT !.todo = t]
    <2>2. i \in Jobs /\ i.pc = "look" /\ i.call = j.call /\ i.todo = t
      BY <1>2, <2>1 DEF Jobs
    <2> HIDE DEF i
    <2>3. JobFits(i)
      BY <1>1, <1>2, <2>1, <2>2 DEF JobFits
    <2> QED BY <2>3 DEF i, t
  <1> QED BY <1>3, <1>4

LEMMA Putting ==
    ASSUME conf' = conf, Typed, CacheSound, Fits,
           NEW r \in Asks, NEW names \in Seq(CacheNames), Range(names) \subseteq Range(r.looks) \cup Range(r.puts),
           NEW out \in Outputs, Sig(out.argv) = Sig(r.argv),
           cache' = Put(names, r.key, out)
    PROVE  /\ DOMAIN cache' = CacheNames /\ CacheSound'
           /\ \A k : \A n \in CacheNames : Stored(n, k) => Stored(n, k)'
           /\ \A n \in CacheNames : n \in Range(names) => Stored(n, r.key)'
  <1>0. \A n : n \in Range(names) <=> \E k \in DOMAIN names : names[k] = n
    BY DEF Range
  <1>1. /\ DOMAIN cache' = CacheNames
        /\ \A n \in CacheNames :
             cache'[n] = IF n \in Range(names)
                         THEN [k \in DOMAIN cache[n] \cup {r.key} |-> IF k = r.key THEN out ELSE cache[n][k]]
                         ELSE cache[n]
    BY <1>0 DEF Put
  <1>2. ASSUME NEW n \in CacheNames, NEW k
        PROVE  /\ k \in DOMAIN cache'[n] => \/ cache'[n][k] = out /\ n \in Range(names) /\ k = r.key
                                            \/ k \in DOMAIN cache[n] /\ cache'[n][k] = cache[n][k]
               /\ k \in DOMAIN cache[n] => k \in DOMAIN cache'[n]
               /\ n \in Range(names) => r.key \in DOMAIN cache'[n]
    <2>1. CASE n \in Range(names)
      <3>1. cache'[n] = [x \in DOMAIN cache[n] \cup {r.key} |-> IF x = r.key THEN out ELSE cache[n][x]]
        BY <1>1, <2>1
      <3> QED BY <2>1, <3>1
    <2>2. CASE n \notin Range(names)
      <3>1. cache'[n] = cache[n]
        BY <1>1, <2>2
      <3> QED BY <2>2, <3>1
    <2> QED BY <2>1, <2>2
  <1>3. ASSUME NEW n \in CacheNames, NEW k, k \in DOMAIN cache'[n]
        PROVE  /\ cache'[n][k] \in Outputs
               /\ \A q \in Asks : n \in Range(q.looks) /\ q.key = k => Sig(cache'[n][k].argv) = Sig(q.argv)
    <2>1. CASE cache'[n][k] = out /\ n \in Range(names) /\ k = r.key
      <3>1. ASSUME NEW q \in Asks, n \in Range(q.looks), q.key = k PROVE Sig(r.argv) = Sig(q.argv)
        <4>1. (Range(r.looks) \cup Range(r.puts)) \cap Range(q.looks) # {}
          BY <2>1, <3>1
        <4> QED BY <2>1, <3>1, <4>1 DEF Fits, Agree
      <3> QED BY <2>1, <3>1
    <2>2. CASE k \in DOMAIN cache[n] /\ cache'[n][k] = cache[n][k]
      BY <2>2 DEF CacheSound
    <2> QED BY <1>2, <1>3, <2>1, <2>2
  <1>4. CacheSound'
    <2> SUFFICES ASSUME NEW n \in CacheNames, NEW k \in DOMAIN cache'[n]
                 PROVE  /\ cache'[n][k] \in Outputs'
                        /\ \A q \in Asks' : n \in Range(q.looks) /\ q.key = k => Sig(cache[n][k].argv)' = Sig(q.argv)'
      BY DEF CacheSound
    <2>1. Sig(cache[n][k].argv)' = Sig(cache'[n][k].argv)
      BY DEF Sig, ByEntry
    <2> QED BY <1>3, <2>1, Steady
  <1> QED BY <1>1, <1>2, <1>4 DEF Stored

\* The caches, what was answered and what was asked stay as they are.
LEMMA CacheKept ==
    ASSUME conf' = conf, cache' = cache, CacheSound
    PROVE  CacheSound'
  <1> SUFFICES ASSUME NEW n \in CacheNames, NEW k \in DOMAIN cache'[n]
               PROVE  /\ cache'[n][k] \in Outputs'
                      /\ \A q \in Asks' : n \in Range(q.looks) /\ q.key = k => Sig(cache[n][k].argv)' = Sig(q.argv)'
    BY DEF CacheSound
  <1>1. Sig(cache[n][k].argv)' = Sig(cache[n][k].argv)
    BY DEF Sig, ByEntry
  <1> QED BY <1>1, Steady DEF CacheSound

LEMMA AnswersKept ==
    ASSUME conf' = conf, AnswersSound, NEW S,
           answered' = answered \cup S,
           \A a \in S : a.call \in Uses(conf.manager) /\ Sig(a.out.argv) = Sig(LastRequest(a.call).argv)
    PROVE  AnswersSound'
  <1> SUFFICES ASSUME NEW a \in answered'
               PROVE  a.call \in Uses(conf'.manager) /\ Sig(a.out.argv)' = Sig(LastRequest(a.call).argv)'
    BY DEF AnswersSound
  <1>1. a.call \in Uses(conf.manager) /\ Sig(a.out.argv) = Sig(LastRequest(a.call).argv)
    BY DEF AnswersSound
  <1>2. Sig(a.out.argv)' = Sig(a.out.argv)
    BY DEF Sig, ByEntry
  <1>3. LastRequest(a.call)' = LastRequest(a.call)
    BY Steady
  <1>4. Sig(LastRequest(a.call).argv)' = Sig(LastRequest(a.call).argv)
    BY <1>3 DEF Sig, ByEntry
  <1> QED BY <1>1, <1>2, <1>4

LEMMA Logged ==
    ASSUME log \in Seq(Entries), NEW e \in Entries, log' = Append(log, e)
    PROVE  /\ log' \in Seq(Entries) /\ DOMAIN log' = DOMAIN log \cup {Len(log) + 1} /\ DOMAIN log = 1 .. Len(log)
           /\ \A i \in DOMAIN log : log'[i] = log[i]
           /\ log'[Len(log) + 1] = e /\ Len(log') = Len(log) + 1 /\ Len(log) + 1 \notin DOMAIN log
           /\ Len(log) \in Nat
  <1>1. /\ log' \in Seq(Entries) /\ Len(log') = Len(log) + 1
        /\ \A i \in 1 .. Len(log) : log'[i] = log[i]
        /\ log'[Len(log) + 1] = e
    BY AppendProperties
  <1>2. Len(log) \in Nat /\ DOMAIN log = 1 .. Len(log) /\ DOMAIN log' = 1 .. Len(log')
    BY <1>1, LenProperties
  <1>3. DOMAIN log' = DOMAIN log \cup {Len(log) + 1}
    <2> DEFINE n == Len(log)
    <2>1. n \in Nat /\ DOMAIN log = 1 .. n /\ DOMAIN log' = 1 .. n + 1
      BY <1>1, <1>2
    <2> HIDE DEF n
    <2>2. 1 .. n + 1 = (1 .. n) \cup {n + 1}
      BY <2>1
    <2> QED BY <2>1, <2>2 DEF n
  <1> QED BY <1>1, <1>2, <1>3

LEMMA TokensKept ==
    ASSUME conf' = conf, TokensSound, log \in Seq(Entries), NEW e \in Entries, log' = Append(log, e),
           e.token # <<>> /\ conf.manager = "op" => TokenFits(e.token, e.argv)
    PROVE  TokensSound'
  <1>1. ASSUME NEW i \in DOMAIN log' PROVE log'[i].token # <<>> /\ conf'.manager = "op" => TokenFits(log'[i].token, log'[i].argv)
    <2>1. CASE i \in DOMAIN log
      <3>1. log'[i] = log[i]
        BY <2>1, Logged
      <3> QED BY <2>1, <3>1 DEF TokensSound
    <2>2. CASE i = Len(log) + 1
      <3>1. log'[i] = e
        BY <2>2, Logged
      <3> QED BY <3>1
    <2> QED BY <2>1, <2>2, Logged
  <1>2. ASSUME NEW i \in DOMAIN log' PROVE TokenFits(log[i].token, log[i].argv)' <=> TokenFits(log'[i].token, log'[i].argv)
    BY DEF TokenFits
  <1> QED BY <1>1, <1>2 DEF TokensSound

LEMMA OneWorker == ASSUME conf \in Configurations, Sequential PROVE conf.team = {1}
  <1>1. conf.team \in {{1}, {1, 2}}
    BY Configured
  <1>2. Cardinality({1, 2}) = 2
    <2>1. IsFiniteSet({1}) /\ Cardinality({1}) = 1
      BY FS_Singleton
    <2>2. {1, 2} = {1} \cup {2} /\ 2 \notin {1}
      OBVIOUS
    <2>3. Cardinality({1} \cup {2}) = 1 + 1
      BY <2>1, <2>2, FS_AddElement
    <2> QED BY <2>2, <2>3
  <1> QED BY <1>1, <1>2 DEF Sequential

LEMMA DoneGrows ==
    ASSUME log \in Seq(Entries), NEW e \in Entries, log' = Append(log, e)
    PROVE  Done' = IF e.ok THEN Done \cup {e.argv} ELSE Done
  <1> DEFINE n == Len(log) + 1
  <1>1. /\ DOMAIN log' = DOMAIN log \cup {n} /\ n \notin DOMAIN log
        /\ (\A i \in DOMAIN log : log'[i] = log[i]) /\ log'[n] = e
    BY Logged
  <1> HIDE DEF n
  <1>2. { j \in DOMAIN log' : log'[j].ok } = { j \in DOMAIN log : log[j].ok } \cup (IF e.ok THEN {n} ELSE {})
    BY <1>1
  <1> QED BY <1>1, <1>2 DEF Done

LEMMA StoringKept ==
    ASSUME conf' = conf, NEW w \in conf.team, job[w].pc # "store", \A v \in conf.team \ {w} : job'[v] = job[v]
    PROVE  \A a : Storing(a) => Storing(a)'
  <1> SUFFICES ASSUME NEW a, NEW v \in conf.team, job[v].pc = "store", job[v].out.argv = a
               PROVE  \E u \in conf'.team : job'[u].pc = "store" /\ job'[u].out.argv = a
    BY DEF Storing
  <1>1. v # w
    OBVIOUS
  <1> QED BY <1>1

LEMMA SettledKept ==
    ASSUME Fits, conf' = conf, held \subseteq held',
           \A k : \A n \in CacheNames : Stored(n, k) => Stored(n, k)',
           NEW a, Settled(a), Storing(a) => Storing(a)' \/ NeverCached(a) \/ \A r \in Asks : r.argv = a => StoredFor(r)'
    PROVE  Settled(a)'
  <1>1. Asks' = Asks
    BY Steady
  <1>2. ASSUME NEW r \in Asks, StoredFor(r) PROVE StoredFor(r)'
    <2>1. PICK k \in DOMAIN r.looks : Stored(r.looks[k], r.key)
      BY <1>2 DEF StoredFor
    <2>2. r.looks[k] \in CacheNames
      <3>1. r.looks \in Seq(CacheNames)
        BY DEF Fits, Suits
      <3> QED BY <3>1, LenProperties, ElementOfSeq
    <2>3. Stored(r.looks[k], r.key)'
      BY <2>1, <2>2
    <2> QED BY <2>3 DEF StoredFor
  <1>3. CASE NeverCached(a)
    BY <1>3 DEF Settled
  <1>4. CASE a[1] \in Asking /\ Tail(a) \in held
    BY <1>4 DEF Settled
  <1>5. CASE a[1] \notin Asking /\ Storing(a)
    BY <1>1, <1>3, <1>5 DEF Settled
  <1>6. CASE a[1] \notin Asking /\ \A r \in Asks : r.argv = a => StoredFor(r)
    BY <1>1, <1>2, <1>6 DEF Settled
  <1> QED BY <1>3, <1>4, <1>5, <1>6 DEF Settled

\* Steps that neither log anything nor end the run.
LEMMA Quiet ==
    ASSUME SInv, conf' = conf, log' = log, run' = run, run = "on"
    PROVE  TokensSound' /\ NotYetLocked' /\ AskedOnce' /\ LockedAtEnd' /\ log' \in Seq(Entries) /\ Done' = Done
  <1>1. TokensSound'
    <2>1. ASSUME NEW i \in DOMAIN log PROVE TokenFits(log[i].token, log[i].argv)' <=> TokenFits(log[i].token, log[i].argv)
      BY DEF TokenFits
    <2> QED BY <2>1 DEF SInv, TokensSound
  <1>2. NotYetLocked'
    BY DEF SInv, NotYetLocked
  <1>3. AskedOnce'
    BY DEF SInv, AskedOnce, Sequential
  <1>4. LockedAtEnd'
    BY DEF LockedAtEnd
  <1>5. Done' = Done
    BY DEF Done
  <1> QED BY <1>1, <1>2, <1>3, <1>4, <1>5 DEF SInv, Typed

\* They keep what holds of the log when nothing is lost.
LEMMA QuietKeeps ==
    ASSUME SInv, Fits, conf' = conf, log' = log, run' = run, run = "on", held \subseteq held',
           \A k : \A n \in CacheNames : Stored(n, k) => Stored(n, k)',
           \A a : Storing(a) => Storing(a)' \/ NeverCached(a) \/ \A r \in Asks : r.argv = a => StoredFor(r)',
           \A a : Storing(a) /\ a = UnlockArgv => Storing(a)' \/ <<"bitwarden", "session">> \in held',
           Sequential => \A v \in conf.team, r \in Asks : job'[v].pc \in {"gate", "run"} /\ r = Now(v)' => ~StoredFor(r)'
    PROVE  UnlockSound' /\ KeptSound'
  <1>1. Done' = Done /\ Asks' = Asks
    BY Quiet, Steady
  <1>2. UnlockSound'
    <2>1. ASSUME UnlockArgv \in Done', NEW a, a = UnlockArgv
          PROVE  <<"bitwarden", "session">> \in held' \/ \E v \in conf'.team : job'[v].pc = "store" /\ job'[v].out.argv = a
      <3>1. <<"bitwarden", "session">> \in held \/ Storing(a)
        BY <1>1, <2>1 DEF SInv, UnlockSound
      <3>2. <<"bitwarden", "session">> \in held' \/ Storing(a)'
        BY <2>1, <3>1
      <3> QED BY <3>2 DEF Storing
    <2>2. UnlockArgv \in Done' => <<"bitwarden", "session">> \in held' \/ \E v \in conf'.team : job'[v].pc = "store" /\ job'[v].out.argv = UnlockArgv
      BY <2>1
    <2>3. UnlockArgv' = UnlockArgv
      BY DEF UnlockArgv
    <2> QED BY <2>2, <2>3 DEF UnlockSound, Storing, UnlockArgv
  <1>3. KeptSound'
    <2> SUFFICES ASSUME Sequential'
                 PROVE  /\ \A a \in Done' : Settled(a)'
                        /\ \A v \in conf'.team, r \in Asks' : job'[v].pc \in {"gate", "run"} /\ r = Now(v)' => ~StoredFor(r)'
      BY DEF KeptSound
    <2>1. Sequential
      BY DEF Sequential
    <2>2. \A a \in Done : Settled(a)
      BY <2>1 DEF SInv, KeptSound
    <2>3. \A a \in Done : Settled(a)'
      BY <2>2, SettledKept
    <2> QED BY <1>1, <2>1, <2>3
  <1> QED BY <1>2, <1>3

LEMMA AnswersStay == ASSUME conf' = conf, answered' = answered, AnswersSound PROVE AnswersSound'
  <1> DEFINE S == {}
  <1>1. answered' = answered \cup S /\ \A a \in S : a.call \in Uses(conf.manager) /\ Sig(a.out.argv) = Sig(LastRequest(a.call).argv)
    OBVIOUS
  <1> HIDE DEF S
  <1> QED BY <1>1, AnswersKept

LEMMA BeginKeeps ==
    ASSUME SInv, NEW w \in conf.team, NEW c \in Uses(conf.manager), Begin(w, c)
    PROVE  SInv'
  <1>0. Fits
    BY AllFit DEF SInv, Typed
  <1>1. /\ run = "on" /\ job[w].pc = "idle" /\ held \subseteq held'
        /\ conf' = conf /\ cache' = cache /\ log' = log /\ answered' = answered /\ run' = run
        /\ checked' = (checked \/ ChecksMode(c))
    BY DEF Begin
  <1> DEFINE j == IF Refused(c) THEN Idle ELSE [Idle EXCEPT !.pc = "look", !.call = c, !.todo = Requests(c)]
  <1>2. job' = [job EXCEPT ![w] = j]
    BY DEF Begin
  <1>3. JobFits(j) /\ j.pc \in {"idle", "look"}
    <2>1. CASE Refused(c)
      BY <2>1, IdleFits DEF Idle
    <2>2. CASE ~Refused(c)
      <3> DEFINE i == [Idle EXCEPT !.pc = "look", !.call = c, !.todo = Requests(c)]
      <3>1. /\ Requests(c) \in Seq(Asks) /\ Requests(c) # <<>>
        BY <1>0 DEF Fits
      <3>2. i \in Jobs /\ i.pc = "look" /\ i.call = c /\ i.todo = Requests(c)
        BY <3>1 DEF Jobs, Idle
      <3>3. Requests(c)[Len(Requests(c))] = LastRequest(c)
        BY DEF LastRequest
      <3> HIDE DEF i
      <3>4. JobFits(i)
        BY <3>1, <3>2, <3>3 DEF JobFits
      <3>5. j = i
        BY <2>2 DEF i
      <3> QED BY <3>2, <3>4, <3>5
    <2> QED BY <2>1, <2>2
  <1> HIDE DEF j
  <1>4. /\ JobsSound' /\ job'[w] = j /\ \A v \in conf.team \ {w} : job'[v] = job[v]
    BY <1>1, <1>2, <1>3, JobsKept DEF SInv
  <1>5. \A k : \A n \in CacheNames : Stored(n, k) => Stored(n, k)'
    BY <1>1 DEF Stored
  <1>6. \A a : Storing(a) => Storing(a)'
    BY <1>1, <1>4, StoringKept
  <1>7. Sequential => \A v \in conf.team, r \in Asks : job'[v].pc \in {"gate", "run"} /\ r = Now(v)' => ~StoredFor(r)'
    <2>1. Sequential => conf.team = {w}
      BY OneWorker DEF SInv, Typed
    <2> QED BY <1>3, <1>4, <2>1
  <1>8. UnlockSound' /\ KeptSound'
    BY <1>0, <1>1, <1>5, <1>6, <1>7, QuietKeeps
  <1>9. TokensSound' /\ NotYetLocked' /\ AskedOnce' /\ LockedAtEnd' /\ log' \in Seq(Entries)
    BY <1>1, Quiet
  <1>10. CacheSound' /\ AnswersSound'
    <2>1. CacheSound'
      BY <1>1, CacheKept DEF SInv
    <2>2. AnswersSound'
      BY <1>1, AnswersStay DEF SInv
    <2> QED BY <2>1, <2>2
  <1>11. Typed'
    <2>1. checked' \in BOOLEAN
      BY <1>1 DEF SInv, Typed, ChecksMode
    <2>2. conf' \in Configurations /\ DOMAIN cache' = CacheNames /\ run' \in {"on", "ended", "crashed"}
      BY <1>1 DEF SInv, Typed
    <2> QED BY <1>9, <2>1, <2>2 DEF SInv, Typed, SecretsAssumption
  <1> QED BY <1>4, <1>8, <1>9, <1>10, <1>11 DEF SInv

\* Steps of one job that touch neither caches nor the log.
LEMMA JobMoves ==
    ASSUME SInv, NEW w \in conf.team, NEW j, JobFits(j), job' = [job EXCEPT ![w] = j],
           UNCHANGED <<conf, cache, held, checked, log, answered, run>>,
           run = "on", job[w].pc # "store",
           Sequential /\ j.pc \in {"gate", "run"} => \A r \in Asks : r = Head(j.todo) => ~StoredFor(r)
    PROVE  SInv'
  <1>0. Fits
    BY AllFit DEF SInv, Typed
  <1>1. /\ conf' = conf /\ cache' = cache /\ held' = held /\ checked' = checked /\ log' = log /\ answered' = answered
        /\ run' = run
    OBVIOUS
  <1>4. /\ JobsSound' /\ job'[w] = j /\ \A v \in conf.team \ {w} : job'[v] = job[v]
    BY <1>1, JobsKept DEF SInv
  <1>5. \A k : \A n \in CacheNames : Stored(n, k) => Stored(n, k)'
    BY <1>1 DEF Stored
  <1>6. \A a : Storing(a) => Storing(a)'
    BY <1>1, <1>4, StoringKept
  <1>7. Sequential => \A v \in conf.team, r \in Asks : job'[v].pc \in {"gate", "run"} /\ r = Now(v)' => ~StoredFor(r)'
    <2> SUFFICES ASSUME Sequential, NEW v \in conf.team, NEW r \in Asks, job'[v].pc \in {"gate", "run"}, r = Now(v)'
                 PROVE  ~StoredFor(r)'
      OBVIOUS
    <2>1. conf.team = {w}
      BY OneWorker DEF SInv, Typed
    <2>2. v = w
      BY <2>1
    <2>3. r = Head(j.todo)
      BY <1>4, <2>2 DEF Now
    <2>4. ~StoredFor(r)
      BY <1>4, <2>2, <2>3
    <2> QED BY <1>1, <2>4 DEF StoredFor, Stored
  <1>8. UnlockSound' /\ KeptSound'
    BY <1>0, <1>1, <1>5, <1>6, <1>7, QuietKeeps
  <1>9. TokensSound' /\ NotYetLocked' /\ AskedOnce' /\ LockedAtEnd' /\ log' \in Seq(Entries)
    BY <1>1, Quiet
  <1>10. CacheSound' /\ AnswersSound'
    <2>1. CacheSound'
      BY <1>1, CacheKept DEF SInv
    <2>2. AnswersSound'
      BY <1>1, AnswersStay DEF SInv
    <2> QED BY <2>1, <2>2
  <1>11. Typed'
    <2>2. conf' \in Configurations /\ DOMAIN cache' = CacheNames /\ run' \in {"on", "ended", "crashed"} /\ checked' \in BOOLEAN
      BY <1>1 DEF SInv, Typed
    <2> QED BY <1>9, <2>2 DEF SInv, Typed, SecretsAssumption
  <1> QED BY <1>4, <1>8, <1>9, <1>10, <1>11 DEF SInv

LEMMA MissKeeps ==
    ASSUME SInv, NEW w \in conf.team, Miss(w)
    PROVE  SInv'
  <1>1. /\ run = "on" /\ job[w].pc = "look" /\ ~StoredFor(Now(w))
        /\ UNCHANGED <<conf, cache, held, checked, log, answered, run>>
    BY DEF Miss, StoredFor
  <1>2. JobFits(job[w]) /\ job \in [conf.team -> Jobs]
    BY DEF SInv, JobsSound
  <1>3. CASE Now(w).argv \in broken
    <2>1. job' = [job EXCEPT ![w] = Idle]
      BY <1>3 DEF Miss, Panic
    <2>2. Idle.pc = "idle"
      BY DEF Idle
    <2> QED BY <1>1, <2>1, <2>2, IdleFits, JobMoves
  <1>4. CASE Now(w).argv \notin broken
    <2> DEFINE j == [[job[w] EXCEPT !.pc = "gate"] EXCEPT !.todo = job[w].todo]
    <2>1. job' = [job EXCEPT ![w] = j]
      BY <1>2, <1>4 DEF Miss, Set
    <2>2. JobFits(j)
      BY <1>1, <1>2, Paced
    <2>3. Head(j.todo) = Now(w)
      BY <1>2 DEF Now, Jobs
    <2> HIDE DEF j
    <2> QED BY <1>1, <2>1, <2>2, <2>3, JobMoves
  <1> QED BY <1>3, <1>4

LEMMA ReadyKeeps ==
    ASSUME SInv, NEW w \in conf.team, Ready(w)
    PROVE  SInv'
  <1>1. /\ run = "on" /\ job[w].pc = "gate"
        /\ UNCHANGED <<conf, cache, held, checked, log, answered, run>>
    BY DEF Ready
  <1>2. JobFits(job[w]) /\ job \in [conf.team -> Jobs]
    BY DEF SInv, JobsSound
  <1> DEFINE j == [[job[w] EXCEPT !.pc = "run"] EXCEPT !.todo = job[w].todo]
  <1>3. job' = [job EXCEPT ![w] = j]
    BY <1>2 DEF Ready, Set
  <1>4. JobFits(j)
    BY <1>1, <1>2, Paced
  <1>5. Head(j.todo) = Now(w)
    BY <1>2 DEF Now, Jobs
  <1>6. Sequential => \A r \in Asks : r = Now(w) => ~StoredFor(r)
    BY <1>1 DEF SInv, KeptSound
  <1> HIDE DEF j
  <1> QED BY <1>1, <1>3, <1>4, <1>5, <1>6, JobMoves

LEMMA Finishing ==
    ASSUME SInv, conf' = conf, NEW w \in conf.team, job[w].pc # "idle",
           NEW out, Sig(out.argv) = Sig(Now(w).argv), Finish(w, out)
    PROVE  /\ JobsSound' /\ job'[w].pc \in {"look", "idle"} /\ \A v \in conf.team \ {w} : job'[v] = job[v]
           /\ AnswersSound'
  <1>1. JobFits(job[w]) /\ job \in [conf.team -> Jobs]
    BY DEF SInv, JobsSound
  <1>2. CASE Len(job[w].todo) > 1
    <2> DEFINE j == [[job[w] EXCEPT !.pc = "look"] EXCEPT !.todo = Tail(job[w].todo)]
    <2>1. job' = [job EXCEPT ![w] = j] /\ answered' = answered
      BY <1>1, <1>2 DEF Finish, Set
    <2>2. JobFits(j)
      BY <1>1, <1>2, Paced
    <2>3. j.pc = "look"
      BY <1>1 DEF Jobs
    <2> HIDE DEF j
    <2> QED BY <2>1, <2>2, <2>3, JobsKept, AnswersStay DEF SInv
  <1>3. CASE ~(Len(job[w].todo) > 1)
    <2> DEFINE S == {[call |-> job[w].call, out |-> out]}
    <2>1. job' = [job EXCEPT ![w] = Idle] /\ answered' = answered \cup S
      BY <1>3 DEF Finish
    <2>2. job[w].call \in Uses(conf.manager) /\ Now(w) = LastRequest(job[w].call)
      BY <1>1, <1>3, AtWork DEF Now
    <2>3. \A a \in S : a.call \in Uses(conf.manager) /\ Sig(a.out.argv) = Sig(LastRequest(a.call).argv)
      BY <2>2
    <2>4. Idle.pc = "idle"
      BY DEF Idle
    <2> HIDE DEF S
    <2>5. AnswersSound'
      BY <2>1, <2>3, AnswersKept DEF SInv
    <2> QED BY <2>1, <2>4, <2>5, JobsKept, IdleFits DEF SInv
  <1> QED BY <1>2, <1>3

LEMMA ParsedIs ==
    ASSUME NEW w, NEW out \in Outputs
    PROVE  Parsed(w, out) \in Outputs /\ Parsed(w, out).argv = out.argv
  BY DEF Parsed, Outputs

LEMMA HitKeeps ==
    ASSUME SInv, NEW w \in conf.team, Hit(w)
    PROVE  SInv'
  <1>0. Fits
    BY AllFit DEF SInv, Typed
  <1>1. /\ run = "on" /\ job[w].pc = "look"
        /\ conf' = conf /\ held' = held /\ checked' = checked /\ log' = log /\ run' = run
    BY DEF Hit
  <1>2. JobFits(job[w])
    BY DEF SInv, JobsSound
  <1> DEFINE r == Now(w)
  <1>3. r \in Asks /\ r.looks \in Seq(CacheNames)
    BY <1>0, <1>1, <1>2, AtWork DEF Now, Fits, Suits
  <1>4. PICK k \in DOMAIN r.looks :
          /\ Stored(r.looks[k], r.key)
          /\ LET out == Parsed(w, Fetch(r.looks[k], r.key))
             IN /\ cache' = Put(SubSeq(r.looks, 1, k), r.key, out)
                /\ Finish(w, out)
    BY DEF Hit
  <1> DEFINE names == SubSeq(r.looks, 1, k)
             out == Parsed(w, Fetch(r.looks[k], r.key))
  <1>5. r.looks[k] \in CacheNames /\ k \in 1 .. Len(r.looks) /\ r.looks[k] \in Range(r.looks)
    BY <1>3, LenProperties, ElementOfSeq DEF Range
  <1>6. names \in Seq(CacheNames) /\ Range(names) \subseteq Range(r.looks)
    <2> DEFINE s == r.looks
    <2>1. s \in Seq(CacheNames) /\ k \in 1 .. Len(s) /\ DOMAIN s = 1 .. Len(s) /\ Len(s) \in Nat
      BY <1>3, <1>5, LenProperties
    <2> HIDE DEF s, r
    <2>2. SubSeq(s, 1, k) \in Seq(CacheNames)
      BY <2>1, SubSeqProperties
    <2>3. Len(SubSeq(s, 1, k)) = k /\ \A i \in 1 .. k : SubSeq(s, 1, k)[i] = s[i]
      BY <2>1, SubSeqProperties
    <2>4. DOMAIN SubSeq(s, 1, k) = 1 .. k
      BY <2>2, <2>3, LenProperties
    <2>5. ASSUME NEW i \in 1 .. k PROVE i \in DOMAIN s
      BY <2>1
    <2>6. Range(SubSeq(s, 1, k)) \subseteq Range(s)
      BY <2>3, <2>4, <2>5 DEF Range
    <2> QED BY <2>2, <2>6 DEF s
  <1>7. out \in Outputs /\ Sig(out.argv) = Sig(r.argv)
    <2> DEFINE f == cache[r.looks[k]][r.key]
    <2>1. f \in Outputs /\ Sig(f.argv) = Sig(r.argv)
      BY <1>3, <1>4, <1>5 DEF SInv, CacheSound, Stored
    <2>2. out = Parsed(w, f)
      BY DEF Fetch
    <2> HIDE DEF f, out, r
    <2>3. Parsed(w, f) \in Outputs /\ Parsed(w, f).argv = f.argv
      BY <2>1, ParsedIs
    <2> QED BY <2>1, <2>2, <2>3
  <1>8. cache' = Put(names, r.key, out) /\ Finish(w, out)
    BY <1>4
  <1> HIDE DEF out, names
  <1>9. /\ DOMAIN cache' = CacheNames /\ CacheSound'
        /\ \A x : \A n \in CacheNames : Stored(n, x) => Stored(n, x)'
    <2> HIDE DEF r
    <2> QED BY <1>0, <1>1, <1>3, <1>6, <1>7, <1>8, Putting DEF SInv
  <1>10. /\ JobsSound' /\ job'[w].pc \in {"look", "idle"} /\ \A v \in conf.team \ {w} : job'[v] = job[v]
         /\ AnswersSound'
    BY <1>1, <1>7, <1>8, Finishing
  <1>11. \A a : Storing(a) => Storing(a)'
    BY <1>1, <1>10, StoringKept
  <1>12. Sequential => \A v \in conf.team, q \in Asks : job'[v].pc \in {"gate", "run"} /\ q = Now(v)' => ~StoredFor(q)'
    <2>1. Sequential => conf.team = {w}
      BY OneWorker DEF SInv, Typed
    <2> QED BY <1>10, <2>1
  <1>13. UnlockSound' /\ KeptSound'
    BY <1>0, <1>1, <1>9, <1>11, <1>12, QuietKeeps
  <1>14. TokensSound' /\ NotYetLocked' /\ AskedOnce' /\ LockedAtEnd' /\ log' \in Seq(Entries)
    BY <1>1, Quiet
  <1>15. Typed'
    BY <1>1, <1>9, <1>14 DEF SInv, Typed
  <1> QED BY <1>9, <1>10, <1>13, <1>14, <1>15 DEF SInv

\* Unlocking the vault goes through a cache.
LEMMA UnlockCached == ~NeverCached(UnlockArgv)
  <1> DEFINE u == UnlockArgv
  <1>1. u[1] = "unlock" /\ Len(u) = 2 /\ u \in Seq({"unlock", "--raw"})
    BY DEF UnlockArgv
  <1> HIDE DEF u
  <1>2. \A n \in {1, 2} : SubSeq(u, 1, n)[1] = "unlock"
    BY <1>1, SubSeqProperties
  <1>3. \A v \in Uncached : v[1] # "unlock" /\ Len(v) \in {1, 2}
    BY DEF Uncached
  <1>4. ~NeverCached(u)
    BY <1>2, <1>3 DEF NeverCached
  <1> QED BY <1>4 DEF u

LEMMA StoreKeeps ==
    ASSUME SInv, NEW w \in conf.team, Store(w)
    PROVE  SInv'
  <1>0. Fits
    BY AllFit DEF SInv, Typed
  <1>1. /\ run = "on" /\ job[w].pc = "store"
        /\ conf' = conf /\ checked' = checked /\ log' = log /\ run' = run
    BY DEF Store
  <1>2. JobFits(job[w])
    BY DEF SInv, JobsSound
  <1> DEFINE r == Now(w)
             f == job[w].out
  <1>3. r \in Asks /\ f \in Outputs /\ f.argv = r.argv /\ r.puts \in Seq(CacheNames)
    BY <1>0, <1>1, <1>2, AtWork DEF Now, Fits, Suits, JobFits
  <1>4. \A a : Storing(a) => a = r.argv \/ \E v \in conf.team \ {w} : job[v].pc = "store" /\ job[v].out.argv = a
    BY <1>3 DEF Storing
  <1>5. CASE NoMap(w)
    <2>1. /\ job' = [job EXCEPT ![w] = Idle]
          /\ cache' = cache /\ held' = held /\ answered' = answered
      BY <1>5 DEF Store, Panic
    <2>2. NeverCached(r.argv)
      BY <1>0, <1>3, <1>5 DEF NoMap, Fits, Agree
    <2> HIDE DEF r, f
    <2>3. Idle.pc = "idle"
      BY DEF Idle
    <2>4. JobsSound' /\ job'[w] = Idle /\ \A v \in conf.team \ {w} : job'[v] = job[v]
      BY <1>1, <2>1, IdleFits, JobsKept DEF SInv
    <2>5. \A a : Storing(a) => Storing(a)' \/ NeverCached(a)
      <3> SUFFICES ASSUME NEW a, Storing(a), a # r.argv PROVE Storing(a)'
        BY <2>2
      <3>1. \E v \in conf.team \ {w} : job[v].pc = "store" /\ job[v].out.argv = a
        BY <1>4
      <3>2. \E v \in conf'.team : job'[v].pc = "store" /\ job'[v].out.argv = a
        BY <3>1, <2>4, <1>1
      <3> QED BY <3>2 DEF Storing
    <2>6. \A a : Storing(a) /\ a = UnlockArgv => Storing(a)'
      BY <2>5, UnlockCached
    <2>7. \A x : \A n \in CacheNames : Stored(n, x) => Stored(n, x)'
      BY <2>1 DEF Stored
    <2>8. Sequential => \A v \in conf.team, q \in Asks : job'[v].pc \in {"gate", "run"} /\ q = Now(v)' => ~StoredFor(q)'
      <3>1. Sequential => conf.team = {w}
        BY OneWorker DEF SInv, Typed
      <3> QED BY <2>3, <2>4, <3>1
    <2>9. UnlockSound' /\ KeptSound'
      BY <1>0, <1>1, <2>1, <2>5, <2>6, <2>7, <2>8, QuietKeeps
    <2>10. TokensSound' /\ NotYetLocked' /\ AskedOnce' /\ LockedAtEnd' /\ log' \in Seq(Entries)
      BY <1>1, Quiet
    <2>11. CacheSound' /\ AnswersSound'
      BY <1>1, <2>1, CacheKept, AnswersStay DEF SInv
    <2>12. Typed'
      BY <1>1, <2>1, <2>10 DEF SInv, Typed
    <2> QED BY <2>4, <2>9, <2>10, <2>11, <2>12 DEF SInv
  <1>6. CASE ~NoMap(w)
    <2> DEFINE out == Parsed(w, f)
    <2>1. /\ cache' = Put(r.puts, r.key, out)
          /\ held' = IF out.argv = <<"unlock", "--raw">> THEN held \cup {<<"bitwarden", "session">>} ELSE held
          /\ Finish(w, out)
      BY <1>6 DEF Store
    <2>2. out \in Outputs /\ out.argv = r.argv
      <3> HIDE DEF f
      <3> QED BY <1>3, ParsedIs
    <2> HIDE DEF out
    <2>3. JobsSound' /\ job'[w].pc \in {"look", "idle"} /\ (\A v \in conf.team \ {w} : job'[v] = job[v]) /\ AnswersSound'
      BY <1>1, <2>1, <2>2, Finishing
    <2> HIDE DEF r, f
    <2>4. /\ DOMAIN cache' = CacheNames /\ CacheSound'
          /\ \A x : \A n \in CacheNames : Stored(n, x) => Stored(n, x)'
          /\ \A key : key = r.key => \A n \in CacheNames : n \in Range(r.puts) => Stored(n, key)'
      BY <1>0, <1>1, <1>3, <2>1, <2>2, Putting DEF SInv
    <2>5. \A a : Storing(a) => Storing(a)' \/ a = r.argv
      <3> SUFFICES ASSUME NEW a, Storing(a), a # r.argv PROVE Storing(a)'
        OBVIOUS
      <3>1. \E v \in conf.team \ {w} : job[v].pc = "store" /\ job[v].out.argv = a
        BY <1>4
      <3>2. \E v \in conf'.team : job'[v].pc = "store" /\ job'[v].out.argv = a
        BY <3>1, <2>3, <1>1
      <3> QED BY <3>2 DEF Storing
    <2>6. NeverCached(r.argv) \/ \A q \in Asks : q.argv = r.argv => StoredFor(q)'
      <3> SUFFICES ASSUME ~NeverCached(r.argv), NEW q \in Asks, q.argv = r.argv PROVE StoredFor(q)'
        OBVIOUS
      <3>1. r.key = q.key /\ Range(r.puts) \cap Range(q.looks) # {}
        BY <1>0, <1>3 DEF Fits, Agree
      <3>2. PICK n : n \in Range(r.puts) /\ n \in Range(q.looks)
        BY <3>1
      <3>3. PICK k \in DOMAIN q.looks : q.looks[k] = n
        BY <3>2 DEF Range
      <3>4. n \in CacheNames
        <4>1. q.looks \in Seq(CacheNames)
          BY <1>0 DEF Fits, Suits
        <4> QED BY <3>3, <4>1, LenProperties, ElementOfSeq
      <3>5. Stored(n, q.key)'
        BY <2>4, <3>1, <3>2, <3>4
      <3> QED BY <3>3, <3>5 DEF StoredFor
    <2>7. \A a : Storing(a) => Storing(a)' \/ NeverCached(a) \/ \A q \in Asks : q.argv = a => StoredFor(q)'
      BY <2>5, <2>6
    <2>8. \A a : Storing(a) /\ a = UnlockArgv => Storing(a)' \/ <<"bitwarden", "session">> \in held'
      BY <2>1, <2>2, <2>5 DEF UnlockArgv
    <2>9. held \subseteq held'
      BY <2>1
    <2>10. Sequential => \A v \in conf.team, q \in Asks : job'[v].pc \in {"gate", "run"} /\ q = Now(v)' => ~StoredFor(q)'
      <3>1. Sequential => conf.team = {w}
        BY OneWorker DEF SInv, Typed
      <3> QED BY <2>3, <3>1
    <2>11. UnlockSound' /\ KeptSound'
      BY <1>0, <1>1, <2>4, <2>7, <2>8, <2>9, <2>10, QuietKeeps
    <2>12. TokensSound' /\ NotYetLocked' /\ AskedOnce' /\ LockedAtEnd' /\ log' \in Seq(Entries)
      BY <1>1, Quiet
    <2>13. Typed'
      BY <1>1, <2>4, <2>12 DEF SInv, Typed
    <2> QED BY <2>3, <2>4, <2>11, <2>12, <2>13 DEF SInv
  <1> QED BY <1>5, <1>6

LEMMA AskedOnceKept ==
    ASSUME SInv, conf' = conf, NEW e \in Entries, log' = Append(log, e),
           Sequential /\ e.ok /\ e.argv \in Done => NeverCached(e.argv)
    PROVE  AskedOnce'
  <1> DEFINE n == Len(log) + 1
  <1>1. /\ DOMAIN log' = DOMAIN log \cup {n} /\ n \notin DOMAIN log
        /\ (\A i \in DOMAIN log : log'[i] = log[i]) /\ log'[n] = e
    BY Logged DEF SInv, Typed
  <1> HIDE DEF n
  <1> SUFFICES ASSUME Sequential, NEW i \in DOMAIN log', NEW j \in DOMAIN log', i # j,
                      log'[i].ok, log'[j].ok, log'[i].argv = log'[j].argv
               PROVE  NeverCached(log'[i].argv)
    BY DEF AskedOnce, Sequential
  <1>2. CASE i \in DOMAIN log /\ j \in DOMAIN log
    BY <1>1, <1>2 DEF SInv, AskedOnce
  <1>3. CASE i = n /\ j \in DOMAIN log
    <2>1. log[j].argv \in Done /\ log[j].argv = e.argv /\ e.ok
      BY <1>1, <1>3 DEF Done
    <2> QED BY <1>1, <1>3, <2>1
  <1>4. CASE j = n /\ i \in DOMAIN log
    <2>1. log[i].argv \in Done /\ log[i].argv = e.argv /\ e.ok
      BY <1>1, <1>4 DEF Done
    <2> QED BY <1>1, <1>4, <2>1
  <1> QED BY <1>1, <1>2, <1>3, <1>4

\* Steps that log a question or a command.
LEMMA Loud ==
    ASSUME SInv, Fits, NEW w \in conf.team, NEW e \in Entries, log' = Append(log, e),
           UNCHANGED <<conf, cache, checked, answered, run>>, run = "on", held \subseteq held',
           JobsSound', job[w].pc # "store", \A v \in conf.team \ {w} : job'[v] = job[v],
           e.argv # <<"lock">>,
           e.token # <<>> /\ conf.manager = "op" => TokenFits(e.token, e.argv),
           Sequential /\ e.ok /\ e.argv \in Done => NeverCached(e.argv),
           \A a : e.ok /\ a = e.argv => Settled(a)',
           \A a : e.ok /\ a = e.argv /\ a = UnlockArgv => Storing(a)',
           Sequential => \A v \in conf.team, r \in Asks : job'[v].pc \in {"gate", "run"} /\ r = Now(v)' => ~StoredFor(r)'
    PROVE  SInv'
  <1>1. conf' = conf /\ cache' = cache /\ checked' = checked /\ answered' = answered /\ run' = run
    OBVIOUS
  <1>2. Done' = (IF e.ok THEN Done \cup {e.argv} ELSE Done) /\ Asks' = Asks
    BY <1>1, DoneGrows, Steady DEF SInv, Typed
  <1>3. AskedOnce'
    BY <1>1, AskedOnceKept
  <1>4. TokensSound'
    BY <1>1, TokensKept DEF SInv, Typed
  <1>5. CacheSound' /\ AnswersSound'
    BY <1>1, CacheKept, AnswersStay DEF SInv
  <1>6. NotYetLocked'
    <2> DEFINE n == Len(log) + 1
    <2>1. /\ DOMAIN log' = DOMAIN log \cup {n}
          /\ (\A i \in DOMAIN log : log'[i] = log[i]) /\ log'[n] = e
      BY Logged DEF SInv, Typed
    <2> HIDE DEF n
    <2> QED BY <2>1, <1>1 DEF SInv, NotYetLocked
  <1>7. LockedAtEnd'
    BY <1>1 DEF LockedAtEnd
  <1>8. Typed'
    <2>1. log' \in Seq(Entries)
      BY Logged DEF SInv, Typed
    <2> QED BY <1>1, <2>1 DEF SInv, Typed
  <1>9. \A a : Storing(a) => Storing(a)'
    BY <1>1, StoringKept
  <1>10. UnlockSound'
    <2>1. ASSUME UnlockArgv \in Done', NEW a, a = UnlockArgv
          PROVE  <<"bitwarden", "session">> \in held' \/ \E v \in conf'.team : job'[v].pc = "store" /\ job'[v].out.argv = a
      <3>1. CASE a \in Done
        <4>1. <<"bitwarden", "session">> \in held \/ Storing(a)
          BY <2>1, <3>1 DEF SInv, UnlockSound
        <4>2. <<"bitwarden", "session">> \in held' \/ Storing(a)'
          BY <4>1, <1>9
        <4> QED BY <4>2 DEF Storing
      <3>2. CASE a \notin Done
        <4>1. Storing(a)'
          BY <1>2, <2>1, <3>2
        <4> QED BY <4>1 DEF Storing
      <3> QED BY <3>1, <3>2
    <2>2. UnlockArgv \in Done' => <<"bitwarden", "session">> \in held' \/ \E v \in conf'.team : job'[v].pc = "store" /\ job'[v].out.argv = UnlockArgv
      BY <2>1
    <2>3. UnlockArgv' = UnlockArgv
      BY DEF UnlockArgv
    <2> QED BY <2>2, <2>3 DEF UnlockSound, Storing, UnlockArgv
  <1>11. KeptSound'
    <2> SUFFICES ASSUME Sequential'
                 PROVE  /\ \A a \in Done' : Settled(a)'
                        /\ \A v \in conf'.team, r \in Asks' : job'[v].pc \in {"gate", "run"} /\ r = Now(v)' => ~StoredFor(r)'
      BY DEF KeptSound
    <2>1. Sequential
      BY <1>1 DEF Sequential
    <2>2. \A k : \A n \in CacheNames : Stored(n, k) => Stored(n, k)'
      BY <1>1 DEF Stored
    <2>3. \A a \in Done : Settled(a)'
      <3>1. \A a \in Done : Settled(a)
        BY <2>1 DEF SInv, KeptSound
      <3> QED BY <1>1, <1>9, <2>2, <3>1, SettledKept
    <2> QED BY <1>1, <1>2, <2>1, <2>3
  <1> QED BY <1>3, <1>4, <1>5, <1>6, <1>7, <1>8, <1>10, <1>11 DEF SInv

LEMMA CollideKeeps ==
    ASSUME SInv, NEW w \in conf.team, NEW v \in conf.team, Collide(w, v)
    PROVE  SInv'
  <1>1. /\ conf' = conf /\ cache' = cache /\ held' = held /\ checked' = checked /\ job' = job /\ log' = log
        /\ answered' = answered /\ run' = "crashed"
    BY DEF Collide
  <1>2. Done' = Done
    BY <1>1 DEF Done
  <1>3. JobsSound'
    <2>1. ASSUME NEW u \in conf.team PROVE JobFits(job[u])'
      <3>1. JobFits(job[u])
        BY DEF SInv, JobsSound
      <3> QED BY <1>1, <3>1, Steady DEF JobFits
    <2> QED BY <1>1, <2>1, Steady DEF SInv, JobsSound
  <1>4. CacheSound' /\ AnswersSound'
    BY <1>1, CacheKept, AnswersStay DEF SInv
  <1>5. TokensSound'
    <2>1. ASSUME NEW i \in DOMAIN log PROVE TokenFits(log[i].token, log[i].argv)' <=> TokenFits(log[i].token, log[i].argv)
      BY <1>1 DEF TokenFits
    <2> QED BY <1>1, <2>1 DEF SInv, TokensSound
  <1>6. UnlockSound'
    BY <1>1, <1>2 DEF SInv, UnlockSound, Storing, UnlockArgv
  <1>7. NotYetLocked' /\ KeptSound' /\ LockedAtEnd'
    BY <1>1 DEF NotYetLocked, KeptSound, LockedAtEnd
  <1>8. AskedOnce'
    BY <1>1 DEF SInv, AskedOnce, Sequential
  <1>9. Typed'
    BY <1>1 DEF SInv, Typed
  <1> QED BY <1>3, <1>4, <1>5, <1>6, <1>7, <1>8, <1>9 DEF SInv

LEMMA Question ==
    ASSUME NEW a \in Asking, NEW s \in Seq(Words)
    PROVE  <<a>> \o s \in Seq(Words) /\ (<<a>> \o s)[1] = a /\ Tail(<<a>> \o s) = s
  <1> DEFINE p == <<a>>
  <1>1. Asking \subseteq Words
    BY DEF Asking, Words
  <1>2. p \in Seq(Words) /\ p # <<>> /\ Len(p) = 1 /\ p[1] = a
    <2>1. a \in Words
      BY <1>1
    <2> QED BY <2>1
  <1> HIDE DEF p
  <1> DEFINE t == p \o s
  <1>3. /\ t \in Seq(Words) /\ t # <<>> /\ t[1] = a /\ Len(t) = Len(p) + Len(s)
        /\ \A i \in 1 .. Len(s) : t[Len(p) + i] = s[i]
    BY <1>2, Joined
  <1> HIDE DEF t
  <1>4. /\ Tail(t) \in Seq(Words) /\ Len(Tail(t)) = Len(t) - 1
        /\ \A i \in 1 .. Len(Tail(t)) : Tail(t)[i] = t[i + 1]
    BY <1>3, HeadTailProperties
  <1>5. Len(Tail(t)) = Len(s)
    <2> DEFINE m == Len(s)
    <2>1. m \in Nat /\ Len(t) = 1 + m
      BY <1>2, <1>3
    <2> HIDE DEF m
    <2>2. Len(t) - 1 = m
      BY <2>1
    <2> QED BY <1>4, <2>2 DEF m
  <1>6. ASSUME NEW i \in 1 .. Len(s) PROVE Tail(t)[i] = s[i]
    <2>1. Tail(t)[i] = t[i + 1]
      BY <1>4, <1>5
    <2>2. t[Len(p) + i] = s[i] /\ Len(p) + i = i + 1
      BY <1>2, <1>3
    <2> QED BY <2>1, <2>2
  <1>7. Tail(t) = s
    BY <1>4, <1>5, <1>6, SeqEqual
  <1> QED BY <1>3, <1>7 DEF t, p

LEMMA ObtainKeeps ==
    ASSUME SInv, NEW w \in conf.team, NEW answer \in {"error", "empty", "given"}, Obtain(w, answer)
    PROVE  SInv'
  <1>0. Fits
    BY AllFit DEF SInv, Typed
  <1> DEFINE r == Now(w)
             ask == r.gate.ask
             of == r.gate.of
             ok == \/ answer = "given"
                   \/ answer = "empty" /\ r.gate.keepsEmpty
             argv == <<ask>> \o of
             e == Entry(argv, <<>>, ok)
  <1>1. /\ run = "on" /\ job[w].pc = "gate" /\ r.gate # NoGate /\ of \notin held
        /\ UNCHANGED <<conf, cache, checked, answered, run>>
        /\ log' = Append(log, e)
    BY DEF Obtain, Log
  <1>2. JobFits(job[w]) /\ job \in [conf.team -> Jobs]
    BY DEF SInv, JobsSound
  <1>3. r \in Asks /\ ask \in Asking /\ of \in Seq(Words) /\ r.gate.keepsEmpty \in BOOLEAN
    <2>1. r \in Asks
      BY <1>1, <1>2, AtWork DEF Now
    <2>2. GateFits(r)
      BY <1>0, <2>1 DEF Fits, Suits
    <2> QED BY <1>1, <2>1, <2>2 DEF GateFits
  <1>4. argv \in Seq(Words) /\ argv[1] = ask /\ Tail(argv) = of
    <2> HIDE DEF r
    <2> QED BY <1>3, Question
  <1>5. held \subseteq held' /\ (ok => of \in held')
    BY <1>1 DEF Obtain
  <1>6. ok \in BOOLEAN
    OBVIOUS
  <1> DEFINE again == [[job[w] EXCEPT !.pc = "run"] EXCEPT !.todo = job[w].todo]
  <1>7. job' = [job EXCEPT ![w] = Idle] \/ job' = [job EXCEPT ![w] = again]
    <2>1. CASE answer = "error"
      BY <2>1 DEF Obtain, Panic
    <2>2. CASE answer \in {"empty", "given"}
      <3>1. Set(w, "run", job[w].todo)
        BY <2>2 DEF Obtain
      <3> QED BY <1>2, <3>1 DEF Set
    <2> QED BY <2>1, <2>2
  <1>8. JobFits(again) /\ Head(again.todo) = r /\ again.pc = "run"
    <2>1. JobFits(again)
      BY <1>1, <1>2, Paced
    <2>2. again.todo = job[w].todo /\ again.pc = "run"
      BY <1>2 DEF Jobs
    <2> QED BY <2>1, <2>2 DEF Now
  <1> HIDE DEF again
  <1>9. /\ JobsSound' /\ \A v \in conf.team \ {w} : job'[v] = job[v]
        /\ job'[w].pc \in {"gate", "run"} => Head(job'[w].todo) = r
    <2>1. Idle.pc = "idle"
      BY DEF Idle
    <2>2. CASE job' = [job EXCEPT ![w] = Idle]
      BY <1>1, <2>1, <2>2, IdleFits, JobsKept DEF SInv
    <2>3. CASE job' = [job EXCEPT ![w] = again]
      BY <1>1, <1>8, <2>3, JobsKept DEF SInv
    <2> QED BY <1>7, <2>2, <2>3
  <1>10. Sequential => \A v \in conf.team, q \in Asks : job'[v].pc \in {"gate", "run"} /\ q = Now(v)' => ~StoredFor(q)'
    <2> SUFFICES ASSUME Sequential, NEW v \in conf.team, NEW q \in Asks, job'[v].pc \in {"gate", "run"}, q = Now(v)'
                 PROVE  ~StoredFor(q)'
      OBVIOUS
    <2>1. v = w
      BY OneWorker DEF SInv, Typed
    <2>2. q = r
      BY <1>9, <2>1 DEF Now
    <2>3. ~StoredFor(q)
      BY <1>1, <1>3, <2>2 DEF SInv, KeptSound
    <2> QED BY <1>1, <2>3 DEF StoredFor, Stored
  <1> HIDE DEF ok, r, argv
  <1>11. e \in Entries /\ e.argv = argv /\ e.token = <<>> /\ e.ok = ok
    <2>1. <<>> \in Seq(Words)
      BY EmptySeq
    <2> QED BY <1>4, <1>6, <2>1 DEF Entry, Entries
  <1> HIDE DEF e
  <1>12. argv # <<"lock">> /\ argv # UnlockArgv
    <2>1. <<"lock">>[1] = "lock" /\ UnlockArgv[1] = "unlock"
      BY DEF UnlockArgv
    <2> QED BY <1>3, <1>4, <2>1 DEF Asking
  <1>13. Sequential /\ argv \in Done => NeverCached(argv)
    <2> SUFFICES ASSUME Sequential, argv \in Done PROVE NeverCached(argv)
      OBVIOUS
    <2>1. Settled(argv)
      BY <1>1 DEF SInv, KeptSound
    <2> QED BY <1>1, <1>3, <1>4, <2>1 DEF Settled
  <1>14. \A a : e.ok /\ a = e.argv => Settled(a)'
    <2> SUFFICES ASSUME NEW a, ok, a = argv PROVE Settled(a)'
      BY <1>11
    <2>1. a[1] \in Asking /\ Tail(a) \in held'
      BY <1>3, <1>4, <1>5
    <2> QED BY <2>1 DEF Settled
  <1> QED
    BY <1>0, <1>1, <1>5, <1>9, <1>10, <1>11, <1>12, <1>13, <1>14, Loud

LEMMA ExecuteKeeps ==
    ASSUME SInv, NEW w \in conf.team, NEW ok \in BOOLEAN, Execute(w, ok)
    PROVE  SInv'
  <1>0. Fits
    BY AllFit DEF SInv, Typed
  <1> DEFINE r == Now(w)
             argv == r.argv
             e == Entry(argv, r.gate.of, ok)
  <1>1. /\ run = "on" /\ job[w].pc = "run"
        /\ UNCHANGED <<conf, cache, checked, answered, run>> /\ held' = held
        /\ log' = Append(log, e)
    BY DEF Execute, Log
  <1>2. JobFits(job[w]) /\ job \in [conf.team -> Jobs]
    BY DEF SInv, JobsSound
  <1>3. /\ r \in Asks /\ argv \in Seq(Words) /\ argv[1] \notin Reserved /\ r.gate.of \in Seq(Words)
        /\ conf.manager = "op" /\ r.gate.of # <<>> => TokenFits(r.gate.of, argv)
    <2>1. r \in Asks
      BY <1>1, <1>2, AtWork DEF Now
    <2>2. Suits(r) /\ (conf.manager = "op" /\ r.gate.of # <<>> => TokenFits(r.gate.of, argv))
      BY <1>0, <2>1 DEF Fits
    <2>3. r.gate.of \in Seq(Words)
      <3>1. CASE r.gate = NoGate
        BY <3>1, EmptySeq DEF NoGate
      <3>2. CASE r.gate # NoGate
        BY <2>2, <3>2 DEF Suits, GateFits
      <3> QED BY <3>1, <3>2
    <2> QED BY <2>1, <2>2, <2>3 DEF Suits
  <1> DEFINE out == Output(argv)
             done == [[job[w] EXCEPT !.pc = "store"] EXCEPT !.out = out]
  <1>4. job' = [job EXCEPT ![w] = IF ok THEN done ELSE Idle]
    <2>1. CASE ok
      BY <1>2, <2>1 DEF Execute
    <2>2. CASE ~ok
      BY <2>2 DEF Execute, Panic
    <2> QED BY <2>1, <2>2
  <1>5. out \in Outputs /\ out.argv = argv
    <2>1. Len(log) + 1 \in Nat
      BY Logged, LenProperties DEF SInv, Typed
    <2> HIDE DEF r
    <2> QED BY <1>3, <2>1 DEF Output, Outputs
  <1> HIDE DEF out
  <1>6. done.pc = "store" /\ done.out = out /\ JobFits(done)
    <2>1. done \in Jobs /\ done.pc = "store" /\ done.out = out /\ done.todo = job[w].todo /\ done.call = job[w].call
      BY <1>2, <1>5 DEF Jobs
    <2> HIDE DEF done
    <2>2. /\ job[w].call \in Uses(conf.manager) /\ job[w].todo # <<>>
          /\ \A c \in Uses(conf.manager) : job[w].call = c => job[w].todo[Len(job[w].todo)] = LastRequest(c)
      BY <1>1, <1>2 DEF JobFits
    <2>3. Head(done.todo).argv = argv
      BY <2>1 DEF Now
    <2> QED BY <1>5, <2>1, <2>2, <2>3 DEF JobFits
  <1> HIDE DEF done
  <1>7. /\ JobsSound' /\ (\A v \in conf.team \ {w} : job'[v] = job[v])
        /\ job'[w].pc \notin {"gate", "run"}
        /\ ok => job'[w].pc = "store" /\ job'[w].out.argv = argv
    <2>1. Idle.pc = "idle"
      BY DEF Idle
    <2>2. CASE ok
      BY <1>1, <1>4, <1>5, <1>6, <2>2, JobsKept DEF SInv
    <2>3. CASE ~ok
      BY <1>1, <1>4, <2>1, <2>3, IdleFits, JobsKept DEF SInv
    <2> QED BY <2>2, <2>3
  <1>8. Sequential => \A v \in conf.team, q \in Asks : job'[v].pc \in {"gate", "run"} /\ q = Now(v)' => ~StoredFor(q)'
    <2>1. Sequential => conf.team = {w}
      BY OneWorker DEF SInv, Typed
    <2> QED BY <1>7, <2>1
  <1>9. Sequential /\ argv \in Done => NeverCached(argv)
    <2> SUFFICES ASSUME Sequential, argv \in Done PROVE NeverCached(argv)
      OBVIOUS
    <2>1. Settled(argv) /\ ~StoredFor(r)
      BY <1>1, <1>3 DEF SInv, KeptSound
    <2>2. ~Storing(argv)
      <3>1. conf.team = {w}
        BY OneWorker DEF SInv, Typed
      <3> QED BY <1>1, <3>1 DEF Storing
    <2> QED BY <1>3, <2>1, <2>2 DEF Settled, Reserved
  <1> HIDE DEF r, argv
  <1>10. e \in Entries /\ e.argv = argv /\ e.token = r.gate.of /\ e.ok = ok
    BY <1>3 DEF Entry, Entries
  <1> HIDE DEF e
  <1>11. argv # <<"lock">>
    <2>1. <<"lock">>[1] = "lock"
      OBVIOUS
    <2> QED BY <1>3, <2>1 DEF Reserved
  <1>12. \A a : e.ok /\ a = e.argv => Storing(a)'
    <2> SUFFICES ASSUME NEW a, ok, a = argv PROVE Storing(a)'
      BY <1>10
    <2> QED BY <1>1, <1>7 DEF Storing
  <1>13. \A a : e.ok /\ a = e.argv => Settled(a)'
    <2> SUFFICES ASSUME NEW a, e.ok, a = e.argv PROVE Settled(a)'
      OBVIOUS
    <2>1. a[1] \notin Asking /\ Storing(a)'
      BY <1>3, <1>10, <1>12 DEF Reserved
    <2> QED BY <2>1 DEF Settled
  <1> QED
    BY <1>0, <1>1, <1>3, <1>7, <1>8, <1>9, <1>10, <1>11, <1>12, <1>13, Loud

LEMMA FinalizeKeeps ==
    ASSUME SInv, NEW ok \in BOOLEAN, Finalize(ok)
    PROVE  SInv'
  <1>1. /\ run = "on" /\ run' = "ended" /\ \A w \in conf.team : job[w].pc = "idle"
        /\ conf' = conf /\ cache' = cache /\ held' = held /\ checked' = checked /\ job' = job /\ answered' = answered
    BY DEF Finalize
  <1> DEFINE e == Entry(<<"lock">>, <<>>, ok)
  <1>2. IF <<"bitwarden", "session">> \in held THEN log' = Append(log, e) ELSE log' = log
    BY DEF Finalize, Log
  <1>3. e \in Entries /\ e.argv = <<"lock">> /\ e.token = <<>>
    <2>1. "lock" \in Words
      BY DEF Words
    <2>2. <<"lock">> \in Seq(Words) /\ <<>> \in Seq(Words)
      BY <2>1, EmptySeq
    <2> QED BY <2>2 DEF Entry, Entries
  <1> HIDE DEF e
  <1>4. JobsSound'
    <2>1. ASSUME NEW u \in conf.team PROVE JobFits(job[u])'
      <3>1. JobFits(job[u])
        BY DEF SInv, JobsSound
      <3> QED BY <1>1, <3>1, Steady DEF JobFits
    <2> QED BY <1>1, <2>1, Steady DEF SInv, JobsSound
  <1>5. CacheSound' /\ AnswersSound'
    BY <1>1, CacheKept, AnswersStay DEF SInv
  <1>6. NotYetLocked' /\ KeptSound'
    BY <1>1 DEF NotYetLocked, KeptSound
  <1>7. ~Storing(UnlockArgv)
    BY <1>1 DEF Storing
  <1>8. UnlockArgv \in Done => <<"bitwarden", "session">> \in held
    BY <1>7 DEF SInv, UnlockSound
  <1>9. CASE <<"bitwarden", "session">> \in held
    <2>1. log' = Append(log, e)
      BY <1>2, <1>9
    <2>2. log' \in Seq(Entries) /\ Len(log') = Len(log) + 1 /\ log'[Len(log) + 1] = e
      BY <1>3, <2>1, Logged DEF SInv, Typed
    <2>3. TokensSound'
      BY <1>1, <1>3, <2>1, TokensKept DEF SInv, Typed
    <2>4. AskedOnce'
      <3>1. <<"lock">> \notin Done
        BY <1>1 DEF SInv, NotYetLocked, Done
      <3> QED BY <1>1, <1>3, <2>1, <3>1, AskedOnceKept
    <2>5. UnlockSound'
      BY <1>1, <1>9 DEF UnlockSound
    <2>6. LockedAtEnd'
      BY <1>3, <2>2 DEF LockedAtEnd
    <2>7. Typed'
      BY <1>1, <2>2 DEF SInv, Typed
    <2> QED BY <1>4, <1>5, <1>6, <2>3, <2>4, <2>5, <2>6, <2>7 DEF SInv
  <1>10. CASE <<"bitwarden", "session">> \notin held
    <2>1. log' = log
      BY <1>2, <1>10
    <2>2. UnlockArgv \notin Done
      BY <1>8, <1>10
    <2>3. TokensSound'
      <3>1. ASSUME NEW i \in DOMAIN log PROVE TokenFits(log[i].token, log[i].argv)' <=> TokenFits(log[i].token, log[i].argv)
        BY <2>1 DEF TokenFits
      <3> QED BY <1>1, <2>1, <3>1 DEF SInv, TokensSound
    <2>4. AskedOnce'
      BY <1>1, <2>1 DEF SInv, AskedOnce, Sequential
    <2>5. UnlockArgv' = UnlockArgv /\ Done' = Done
      BY <2>1 DEF UnlockArgv, Done
    <2>6. UnlockSound'
      BY <2>2, <2>5 DEF UnlockSound
    <2>7. LockedAtEnd'
      BY <2>1, <2>2 DEF LockedAtEnd, Done, UnlockArgv
    <2>8. Typed'
      BY <1>1, <2>1 DEF SInv, Typed
    <2> QED BY <1>4, <1>5, <1>6, <2>3, <2>4, <2>6, <2>7, <2>8 DEF SInv
  <1> QED BY <1>9, <1>10

-----------------------------------------------------------------------------
(* The invariant *)

LEMMA SecretsInit == SecretsAssumption /\ Init => SInv
  <1> SUFFICES ASSUME SecretsAssumption, Init PROVE SInv
    OBVIOUS
  <1>1. /\ conf \in Configurations /\ cache = [name \in CacheNames |-> <<>>] /\ held = {} /\ checked = FALSE
        /\ job = [w \in conf.team |-> Idle] /\ log = <<>> /\ answered = {} /\ run = "on"
    BY DEF Init
  <1>2. log \in Seq(Entries) /\ DOMAIN log = {} /\ DOMAIN <<>> = {}
    BY <1>1, EmptySeq
  <1>3. Typed
    BY <1>1, <1>2 DEF Typed
  <1>4. JobsSound
    BY <1>1, IdleFits DEF JobsSound, JobFits
  <1>5. CacheSound
    BY <1>1, <1>2 DEF CacheSound
  <1>6. Done = {}
    BY <1>2 DEF Done
  <1>7. AnswersSound /\ TokensSound /\ NotYetLocked /\ LockedAtEnd /\ AskedOnce
    BY <1>1, <1>2 DEF AnswersSound, TokensSound, NotYetLocked, LockedAtEnd, AskedOnce
  <1>8. UnlockSound
    BY <1>6 DEF UnlockSound
  <1>9. KeptSound
    <2>1. \A w \in conf.team : job[w].pc = "idle"
      BY <1>1 DEF Idle
    <2> QED BY <1>6, <2>1 DEF KeptSound
  <1> QED BY <1>3, <1>4, <1>5, <1>7, <1>8, <1>9 DEF SInv

LEMMA SecretsNext == SInv /\ Next => SInv'
  <1> SUFFICES ASSUME SInv, Next PROVE SInv'
    OBVIOUS
  <1>1. ASSUME NEW w \in conf.team, NEW c \in Uses(conf.manager), Begin(w, c) PROVE SInv'
    BY <1>1, BeginKeeps
  <1>2. ASSUME NEW w \in conf.team, Hit(w) \/ Miss(w) \/ Ready(w) \/ Store(w) PROVE SInv'
    BY <1>2, HitKeeps, MissKeeps, ReadyKeeps, StoreKeeps
  <1>3. ASSUME NEW w \in conf.team, NEW answer \in {"error", "empty", "given"}, Obtain(w, answer) PROVE SInv'
    BY <1>3, ObtainKeeps
  <1>4. ASSUME NEW w \in conf.team, NEW ok \in BOOLEAN, Execute(w, ok) PROVE SInv'
    BY <1>4, ExecuteKeeps
  <1>5. ASSUME NEW w \in conf.team, NEW v \in conf.team, Collide(w, v) PROVE SInv'
    BY <1>5, CollideKeeps
  <1>6. ASSUME NEW ok \in BOOLEAN, Finalize(ok) PROVE SInv'
    BY <1>6, FinalizeKeeps
  <1> QED BY <1>1, <1>2, <1>3, <1>4, <1>5, <1>6 DEF Next

LEMMA SecretsStutter == ASSUME SInv, UNCHANGED secretVars PROVE SInv'
  <1>1. /\ conf' = conf /\ cache' = cache /\ held' = held /\ checked' = checked /\ job' = job /\ log' = log
        /\ answered' = answered /\ run' = run
    BY DEF secretVars
  <1>2. Done' = Done /\ UnlockArgv' = UnlockArgv
    BY <1>1 DEF Done, UnlockArgv
  <1>3. JobsSound'
    <2>1. ASSUME NEW u \in conf.team PROVE JobFits(job[u])'
      <3>1. JobFits(job[u])
        BY DEF SInv, JobsSound
      <3> QED BY <1>1, <3>1, Steady DEF JobFits
    <2> QED BY <1>1, <2>1, Steady DEF SInv, JobsSound
  <1>4. CacheSound' /\ AnswersSound'
    BY <1>1, CacheKept, AnswersStay DEF SInv
  <1>5. TokensSound'
    <2>1. ASSUME NEW i \in DOMAIN log PROVE TokenFits(log[i].token, log[i].argv)' <=> TokenFits(log[i].token, log[i].argv)
      BY <1>1 DEF TokenFits
    <2> QED BY <1>1, <2>1 DEF SInv, TokensSound
  <1>6. UnlockSound'
    BY <1>1, <1>2 DEF SInv, UnlockSound, Storing, UnlockArgv
  <1>7. NotYetLocked' /\ LockedAtEnd' /\ AskedOnce'
    BY <1>1 DEF SInv, NotYetLocked, LockedAtEnd, AskedOnce, Sequential
  <1>8. KeptSound'
    <2>1. Asks' = Asks
      BY <1>1, Steady
    <2> QED BY <1>1, <1>2, <2>1 DEF SInv, KeptSound, Sequential, Settled, Storing, StoredFor, Stored, Now
  <1>9. Typed'
    BY <1>1 DEF SInv, Typed
  <1> QED BY <1>3, <1>4, <1>5, <1>6, <1>7, <1>8, <1>9 DEF SInv

LEMMA SecretsAreSafe == SInv => TypeOK /\ SecretsGuarded
  <1> SUFFICES ASSUME SInv PROVE TypeOK /\ SecretsGuarded
    OBVIOUS
  <1>0. Fits
    BY AllFit DEF SInv, Typed
  <1>1. TypeOK
    <2>1. ASSUME NEW w \in conf.team
          PROVE  /\ job[w].pc \in {"idle", "look", "gate", "run", "store"}
                 /\ job[w].pc # "idle" => job[w].todo # <<>>
      BY DEF SInv, JobsSound, JobFits, Jobs
    <2> QED BY <2>1 DEF SInv, Typed, TypeOK
  <1>2. OwnAnswers
    <2>1. ASSUME NEW a \in answered
          PROVE  IF conf.manager = "ejson" THEN a.out.argv[2] = a.call.args[1]
                 ELSE IF conf.mode = "builtin" /\ conf.manager = "keepassxc" THEN a.out.argv[2] = a.call.args[1]
                 ELSE a.out.argv = LastRequest(a.call).argv
      <3>1. a.call \in Uses(conf.manager) /\ Sig(a.out.argv) = Sig(LastRequest(a.call).argv)
        BY DEF SInv, AnswersSound
      <3>2. ByEntry => LastRequest(a.call).argv[2] = a.call.args[1]
        BY <1>0, <3>1 DEF Fits
      <3> QED BY <3>1, <3>2 DEF Sig, ByEntry
    <2> QED BY <2>1 DEF OwnAnswers
  <1>3. OwnToken
    BY DEF SInv, TokensSound, TokenFits, OwnToken
  <1> QED BY <1>1, <1>2, <1>3 DEF SInv, SecretsGuarded
=============================================================================
