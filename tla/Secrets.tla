------------------------------- MODULE Secrets -------------------------------
(***************************************************************************)
(* The template functions that ask a password manager                      *)
(* (internal/cmd/*templatefuncs.go), over one run of chezmoi.              *)
(*                                                                         *)
(* Every function makes requests.  A request is looked up in one or more   *)
(* in-memory caches by a key; on a miss chezmoi gets what the command      *)
(* needs first (a password, a session token, a console), runs the command  *)
(* and stores the output under the key.  A failure panics: the template    *)
(* fails and nothing is stored.  What the functions do to an output        *)
(* (parsing JSON, cutting lines) depends on nothing else, so an output is  *)
(* abstracted to the command that made it and the number of the execution: *)
(* two executions of a command may differ.                                 *)
(*                                                                         *)
(* The templates of targets are executed one after another, those in       *)
(* .chezmoiexternals by the goroutines of an errgroup                      *)
(* (sourcestate.go:1474, system.go:244): the caches have no lock.          *)
(***************************************************************************)
EXTENDS Integers, Sequences, FiniteSets

CONSTANTS
  Managers,       \* the managers whose functions are modelled, by name
  Items,          \* names that a template gives to a manager
  MaxCalls,       \* calls that the templates of one run make
  Racing          \* the managers that .chezmoiexternals uses, by goroutines

(* An item is named by the user: it is no option of a command               *)
SecretsAssumption ==
  /\ "--account" \notin Items
  /\ Managers \subseteq
       {"vault", "pass", "rbw", "secret", "keeper", "protonPass", "doppler", "dashlane", "keyring",
        "azure", "aws", "ejson", "lastpass", "bws", "passhole", "gopass", "bitwarden", "op", "keepassxc"}

VARIABLES
  conf,           \* the manager in use and its configuration
  cache,          \* c.<Manager>.*cache*: [cache name -> [key -> output]]
  held,           \* passwords, tokens, sessions and consoles obtained so far
  broken,         \* errors that are kept: accountMapErr, clientErr
  checked,        \* c.Onepassword.modeChecked
  job,            \* what each goroutine is doing
  log,            \* the commands executed, and the questions asked
  answered,       \* the calls that returned, with what they returned
  left,           \* calls that the templates still make
  run             \* "on", "ended" or "crashed"

secretVars ==
  <<conf, cache, held, broken, checked, job, log, answered, left, run>>

-----------------------------------------------------------------------------
(* Requests *)

NoGate == [of |-> <<>>, ask |-> "nothing", keepsEmpty |-> FALSE]
Gate(of, ask, keepsEmpty) == [of |-> of, ask |-> ask, keepsEmpty |-> keepsEmpty]

(* looks: the caches that are read, in order; puts: those that are written *)
Request(looks, key, argv) ==
  [looks |-> looks, puts |-> looks, key |-> key, argv |-> argv,
   gate |-> NoGate, keepsError |-> FALSE]

Cached(name, key, argv) == << Request(<<name>>, key, argv) >>

Call(fn, args) == [fn |-> fn, args |-> args]
Calls(fns, argss) == { Call(f, a) : f \in fns, a \in argss }

One == { <<i>> : i \in Items }
Two == { <<i, j>> : i, j \in Items }

(***************************************************************************)
(* The managers that cache the output of one command                       *)
(***************************************************************************)
Vault(c) == Cached("vault", c.args, <<"kv", "get", "-format=json">> \o c.args)

PassStore(c) == Cached("pass", c.args, <<"show">> \o c.args)

RBW(c) == LET argv == <<"get", "--raw">> \o c.args IN Cached("rbw", argv, argv)

(* The configured arguments are not part of the key: they do not change    *)
Secret(c) == Cached("secret", c.args, <<"configured">> \o c.args)

Keeper(c) ==
  LET args == IF c.fn = "keeperFindPassword"
              THEN <<"find-password">> \o c.args
              ELSE <<"get", "--format=json">> \o c.args
  IN Cached("keeper", args, args \o <<"configured">>)

ProtonPassStore(c) ==
  LET argv == <<"item", "view">> \o c.args
              \o (IF c.fn = "protonPassJSON" THEN <<"--output=json">> ELSE <<>>)
  IN Cached("protonPass", argv, argv)

(* doppler looks its key up in the project that dopplerProjectJson returns; *)
(* an empty argument stands for the configured default                     *)
Doppler(c) ==
  LET args == IF c.fn = "doppler" THEN Tail(c.args) ELSE c.args
      project == IF args # <<>> /\ args[1] # "" THEN <<"--project", args[1]>>
                 ELSE <<"--project", "default">>
      argv == <<"secrets", "download">> \o project
  IN Cached("doppler", argv, argv)

Dashlane(c) ==
  IF c.fn = "dashlaneNote"
  THEN Cached("dashlaneNote", c.args, <<"note">> \o c.args)
  ELSE Cached("dashlanePassword", c.args, <<"password", "--output", "json">> \o c.args)

Keyring(c) == Cached("keyring", c.args, <<"get">> \o c.args)

AzureKeyVault(c) ==
  LET vault == IF Len(c.args) = 1 THEN "default" ELSE c.args[2]
  IN Cached("azureKeyVault", <<vault, c.args[1]>>, <<"GetSecret", vault, c.args[1]>>)

(* The parsed secrets lie in a cache on top of the raw ones                *)
AWSSecretsManager(c) ==
  << Request((IF c.fn = "awsSecretsManager" THEN <<"awsJSON">> ELSE <<>>) \o <<"aws">>,
             c.args, <<"GetSecretValue">> \o c.args) >>

(* Keyed by the file alone; args is the file and the key                   *)
EJSON(c) == Cached("ejson", << c.args[1] >>, <<"DecryptFile">> \o c.args)

LastPassStore(c) == Cached("lastpass", c.args, <<"show", "--json">> \o c.args)

(* bitwardenSecretsOutput reads the cache of bitwarden and writes its own  *)
BitwardenSecrets(c) ==
  LET argv == <<"secret", "get">> \o c.args
  IN << [Request(<<"bitwarden">>, argv, argv) EXCEPT !.puts = <<"bitwardenSecrets">>] >>

(***************************************************************************)
(* The managers that need something first                                  *)
(***************************************************************************)
(* An empty password is not kept: the next call asks again                 *)
Passhole(c) ==
  << [Request(<<"passhole">>, c.args, <<"show", "--field">> \o c.args) EXCEPT
        !.gate = IF conf.prompt THEN Gate(<<"passhole">>, "user", FALSE) ELSE NoGate] >>

(* The library asks for the passphrase of the file, any answer is kept; an  *)
(* error of the client is kept too.  gopass and gopassRaw have each a cache *)
Gopass(c) ==
  LET name == IF c.fn = "gopass" THEN "gopass" ELSE "gopassRaw"
      argv == IF c.fn = "gopass" THEN <<"show", "--password">> \o c.args
              ELSE <<"show", "--noparsing">> \o c.args
      client == [Request(<<"gopassClient">>, <<>>, <<"api.New">>) EXCEPT !.keepsError = TRUE]
  IN IF conf.mode = "builtin"
     THEN << client,
             [Request(<<name>>, c.args, <<"client.Get", name>> \o c.args) EXCEPT
                !.gate = Gate(<<"gopass", "file">>, "user", TRUE)] >>
     ELSE Cached(name, c.args, argv)

(* bitwardenMaybeUnlock precedes every look at the cache.  Its command goes *)
(* through the same cache, so it runs once.                                *)
Unlock ==
  IF conf.unlock THEN Cached("bitwarden", <<"unlock", "--raw">>, <<"unlock", "--raw">>)
  ELSE <<>>
Bitwarden(c) ==
  LET get(argv) == Unlock \o Cached("bitwarden", argv, argv)
      item == get(<<"get", "item", c.args[1]>>)
      attachment == get(<<"get", "attachment">> \o c.args)
  IN CASE c.fn = "bitwardenAttachment"      -> attachment
       [] c.fn = "bitwardenAttachmentByRef" -> item \o attachment
       [] OTHER                             -> item

(* A slip: the first session token serves every account.                    *)
SessionTokenShared(account) ==
  IF conf.mode = "account" /\ conf.prompt /\ ~(account = "" /\ conf.tokens = 1)
  THEN Gate(<<"op", "">>, "signin", TRUE) ELSE NoGate

(* The session token of an account, unless the environment holds exactly   *)
(* one and no account is named                                             *)
SessionToken(account) ==
  IF conf.mode = "account" /\ conf.prompt /\ ~(account = "" /\ conf.tokens = 1)
  THEN Gate(<<"op", account>>, "signin", TRUE) ELSE NoGate

(* onepasswordAccounts keeps the map, or the error, for the rest of the run *)
Accounts ==
  [Request(<<"opAccounts", "op">>, <<"account", "list">>, <<"account", "list">>)
     EXCEPT !.keepsError = TRUE]

(* args is the item, or the reference, and the account: empty for none     *)
OnePassword(c) ==
  LET verb == CASE c.fn = "onepasswordDocument" -> <<"document", "get">>
                [] c.fn = "onepasswordRead"     -> <<"read", "--no-newline">>
                [] OTHER                        -> <<"item", "get">>
      account == c.args[2]
      argv == verb \o << c.args[1] >>
              \o (IF account = "" THEN <<>> ELSE <<"--account", account>>)
      request == [Request(<<"op">>, argv, argv) EXCEPT !.gate = SessionToken(account)]
  IN IF account = "" THEN <<request>> ELSE <<Accounts, request>>

(* The three ways to talk to KeePassXC.  The builtin one keeps the entry    *)
(* with all its attributes; keepassxcAttachment extracts the attachments    *)
(* every time and stores them in the place of the entry.                   *)
KeepassxcGate ==
  IF conf.mode = "open" THEN Gate(<<"keepassxc", "console">>, "console", TRUE)
  ELSE IF conf.prompt THEN Gate(<<"keepassxc", "password">>, "user", FALSE)
  ELSE NoGate
KeepassxcBuiltin(c) ==
  LET entry == << c.args[1] >>
  IN IF c.fn = "keepassxcAttachment"
     THEN << [Request(<<>>, entry, <<"attachments">> \o entry) EXCEPT
                !.puts = <<"keepassxc">>, !.gate = KeepassxcGate] >>
     ELSE << [Request(<<"keepassxc">>, entry, <<"values">> \o entry) EXCEPT
                !.gate = KeepassxcGate] >>
Keepassxc(c) ==
  LET request(looks, argv) == << [Request(looks, c.args, argv) EXCEPT !.gate = KeepassxcGate] >>
  IN IF conf.mode = "builtin" THEN KeepassxcBuiltin(c)
     ELSE CASE c.fn = "keepassxc" -> request(<<"keepassxc">>, <<"show">> \o c.args)
            [] c.fn = "keepassxcAttribute" ->
                 request(<<"keepassxcAttributes">>, <<"show", "--attributes">> \o c.args)
            [] OTHER -> request(<<>>, <<"attachment-export">> \o c.args)

-----------------------------------------------------------------------------
(* What the templates of a run may call, by manager *)
Uses(m) ==
  CASE m = "vault"      -> Calls({"vault"}, One)
    [] m = "pass"       -> Calls({"pass", "passFields", "passRaw"}, One)
    [] m = "rbw"        -> Calls({"rbw", "rbwFields"}, Two)
    [] m = "secret"     -> Calls({"secret", "secretJSON"}, Two)
    [] m = "keeper"     -> Calls({"keeper", "keeperDataFields", "keeperFindPassword"}, One)
    [] m = "protonPass" -> Calls({"protonPass", "protonPassJSON"}, One)
    [] m = "doppler"    -> Calls({"doppler"}, {<<i, p>> : i \in Items, p \in Items \cup {""}})
                           \cup Calls({"dopplerProjectJson"}, {<<>>} \cup One)
    [] m = "dashlane"   -> Calls({"dashlaneNote", "dashlanePassword"}, One)
    [] m = "keyring"    -> Calls({"keyring"}, Two)
    [] m = "azure"      -> Calls({"azureKeyVault"}, One \cup Two)
    [] m = "aws"        -> Calls({"awsSecretsManager", "awsSecretsManagerRaw"}, One)
    [] m = "ejson"      -> Calls({"ejsonDecryptWithKey"}, Two)
    [] m = "lastpass"   -> Calls({"lastpass", "lastpassRaw"}, One)
    [] m = "bws"        -> Calls({"bitwardenSecrets"}, One)
    [] m = "passhole"   -> Calls({"passhole"}, Two)
    [] m = "gopass"     -> Calls({"gopass", "gopassRaw"}, One)
    [] m = "bitwarden"  -> Calls({"bitwarden", "bitwardenFields"}, One)
                           \cup Calls({"bitwardenAttachment", "bitwardenAttachmentByRef"}, Two)
    [] m = "op"         -> Calls({"onepassword", "onepasswordItemFields", "onepasswordDocument",
                                  "onepasswordRead"},
                                 {<<i, a>> : i \in Items, a \in Items \cup {""}})
    [] m = "keepassxc"  -> Calls({"keepassxc"}, One)
                           \cup Calls({"keepassxcAttribute", "keepassxcAttachment"}, Two)

Requests(c) ==
  CASE conf.manager = "vault"      -> Vault(c)
    [] conf.manager = "pass"       -> PassStore(c)
    [] conf.manager = "rbw"        -> RBW(c)
    [] conf.manager = "secret"     -> Secret(c)
    [] conf.manager = "keeper"     -> Keeper(c)
    [] conf.manager = "protonPass" -> ProtonPassStore(c)
    [] conf.manager = "doppler"    -> Doppler(c)
    [] conf.manager = "dashlane"   -> Dashlane(c)
    [] conf.manager = "keyring"    -> Keyring(c)
    [] conf.manager = "azure"      -> AzureKeyVault(c)
    [] conf.manager = "aws"        -> AWSSecretsManager(c)
    [] conf.manager = "ejson"      -> EJSON(c)
    [] conf.manager = "lastpass"   -> LastPassStore(c)
    [] conf.manager = "bws"        -> BitwardenSecrets(c)
    [] conf.manager = "passhole"   -> Passhole(c)
    [] conf.manager = "gopass"     -> Gopass(c)
    [] conf.manager = "bitwarden"  -> Bitwarden(c)
    [] conf.manager = "op"         -> OnePassword(c)
    [] conf.manager = "keepassxc"  -> Keepassxc(c)

(* The configurations that differ in what the functions do *)
Modes(m) ==
  CASE m = "op"        -> {"account", "connect", "service"}
    [] m = "keepassxc" -> {"cache-password", "open", "builtin"}
    [] m = "gopass"    -> {"builtin", ""}
    [] OTHER           -> {""}

CacheNames ==
  {"vault", "pass", "rbw", "secret", "keeper", "protonPass", "doppler", "dashlaneNote",
   "dashlanePassword", "keyring", "azureKeyVault", "awsJSON", "aws", "ejson", "lastpass",
   "bitwarden", "bitwardenSecrets", "passhole", "gopass", "gopassRaw", "gopassClient",
   "opAccounts", "op", "keepassxc", "keepassxcAttributes"}

-----------------------------------------------------------------------------
(* The machine *)

Idle == [pc |-> "idle", call |-> Call("none", <<>>), todo |-> <<>>, out |-> [argv |-> <<>>]]

(* An output: the command, its place in the log, and for lastpass whether   *)
(* the notes in it were replaced by their parsed form                      *)
Output(argv) == [argv |-> argv, n |-> Len(log) + 1, parsed |-> FALSE]

Stored(name, key) == key \in DOMAIN cache[name]
Fetch(name, key) == cache[name][key]
Put(names, key, out) ==
  [name \in CacheNames |->
     IF \E k \in DOMAIN names : names[k] = name
     THEN [key2 \in DOMAIN cache[name] \cup {key} |-> IF key2 = key THEN out ELSE cache[name][key2]]
     ELSE cache[name]]

Configurations ==
  UNION { [manager : {m}, mode : Modes(m),
           prompt : IF m \in {"passhole", "op", "keepassxc"} THEN BOOLEAN ELSE {TRUE}, unlock : {m = "bitwarden"},
           tokens : IF m = "op" THEN 0..1 ELSE {0}, envOK : IF m = "op" THEN BOOLEAN ELSE {TRUE},
           team : IF m \in Racing THEN {{1}, {1, 2}} ELSE {{1}}] : m \in Managers }

Init ==
  /\ conf \in Configurations
  /\ cache = [name \in CacheNames |-> <<>>]
  /\ held = {}
  /\ broken = {}
  /\ checked = FALSE
  /\ job = [w \in conf.team |-> Idle]
  /\ log = <<>>
  /\ answered = {}
  /\ left = MaxCalls
  /\ run = "on"

Set(w, pc, todo) == job' = [job EXCEPT ![w].pc = pc, ![w].todo = todo]
Now(w) == Head(job[w].todo)
Log(entry) == log' = Append(log, entry)
Entry(argv, token, ok) == [argv |-> argv, token |-> token, ok |-> ok]

(* onepasswordItem and the arguments refused before any command runs.       *)
(* A check that failed is not made again.                                  *)
ChecksMode(c) == c.fn \in {"onepassword", "onepasswordDocument", "onepasswordRead"}
Refused(c) ==
  /\ conf.manager = "op"
  /\ \/ ChecksMode(c) /\ ~checked /\ ~conf.envOK
     \/ c.args[2] # "" /\ conf.mode # "account"
     \/ c.fn = "onepasswordDocument" /\ conf.mode = "connect"

Begin(w, c) ==
  /\ run = "on"
  /\ job[w].pc = "idle"
  /\ left > 0
  /\ checked' = (checked \/ ChecksMode(c))
  /\ held' = IF conf.mode = "builtin" /\ c.fn \in {"keepassxc", "keepassxcAttribute"}
             THEN held \cup {<<"keepassxc", "map">>} ELSE held
  /\ job' = [job EXCEPT ![w] =
               IF Refused(c) THEN Idle ELSE [Idle EXCEPT !.pc = "look", !.call = c, !.todo = Requests(c)]]
  /\ left' = left - 1
  /\ UNCHANGED <<conf, cache, broken, log, answered, run>>

(* A request is done: go on with the next one, or return to the template    *)
Finish(w, out) ==
  IF Len(job[w].todo) > 1
  THEN Set(w, "look", Tail(job[w].todo)) /\ UNCHANGED answered
  ELSE /\ job' = [job EXCEPT ![w] = Idle]
       /\ answered' = answered \cup {[call |-> job[w].call, out |-> out]}

(* lastpass parses the notes of the cached data in place *)
Parses(w) == job[w].call.fn = "lastpass"
Parsed(w, out) == IF Parses(w) THEN [out EXCEPT !.parsed = TRUE] ELSE out

Hit(w) ==
  /\ run = "on"
  /\ job[w].pc = "look"
  /\ \E k \in DOMAIN Now(w).looks :
       /\ Stored(Now(w).looks[k], Now(w).key)
       /\ \A j \in 1..k - 1 : ~Stored(Now(w).looks[j], Now(w).key)
       /\ LET out == Parsed(w, Fetch(Now(w).looks[k], Now(w).key))
          IN /\ cache' = Put(SubSeq(Now(w).looks, 1, k), Now(w).key, out)
             /\ Finish(w, out)
  /\ UNCHANGED <<conf, held, broken, checked, log, left, run>>

(* The template panics: nothing is stored *)
Panic(w) == job' = [job EXCEPT ![w] = Idle]

Miss(w) ==
  /\ run = "on"
  /\ job[w].pc = "look"
  /\ \A k \in DOMAIN Now(w).looks : ~Stored(Now(w).looks[k], Now(w).key)
  /\ IF Now(w).argv \in broken THEN Panic(w) ELSE Set(w, "gate", job[w].todo)
  /\ UNCHANGED <<conf, cache, held, broken, checked, log, answered, left, run>>

(* What the request needs is there already *)
Ready(w) ==
  /\ run = "on"
  /\ job[w].pc = "gate"
  /\ Now(w).gate = NoGate \/ Now(w).gate.of \in held
  /\ Set(w, "run", job[w].todo)
  /\ UNCHANGED <<conf, cache, held, broken, checked, log, answered, left, run>>

(* The user is asked, signs in, or opens the console *)
Obtain(w, answer) ==
  /\ run = "on"
  /\ job[w].pc = "gate"
  /\ Now(w).gate # NoGate /\ Now(w).gate.of \notin held
  /\ Log(Entry(<<Now(w).gate.ask>> \o Now(w).gate.of, <<>>,
                \/ answer = "given"
                \/ answer = "empty" /\ Now(w).gate.keepsEmpty))
  /\ CASE answer = "error" -> Panic(w) /\ UNCHANGED held
       [] answer = "empty" -> /\ Now(w).gate.ask = "user"
                              /\ Set(w, "run", job[w].todo)
                              /\ held' = IF Now(w).gate.keepsEmpty
                                         THEN held \cup {Now(w).gate.of} ELSE held
       [] answer = "given" -> /\ Set(w, "run", job[w].todo)
                              /\ held' = held \cup {Now(w).gate.of}
  /\ UNCHANGED <<conf, cache, broken, checked, answered, left, run>>

Execute(w, ok) ==
  /\ run = "on"
  /\ job[w].pc = "run"
  /\ Log(Entry(Now(w).argv, Now(w).gate.of, ok))
  /\ IF ok
     THEN /\ job' = [job EXCEPT ![w].pc = "store", ![w].out = Output(Now(w).argv)]
          /\ UNCHANGED broken
     ELSE /\ Panic(w)
          /\ broken' = IF Now(w).keepsError THEN broken \cup {Now(w).argv} ELSE broken
  /\ UNCHANGED <<conf, cache, held, checked, answered, left, run>>

(* An assignment to a map that was never made panics *)
NoMap(w) ==
  /\ Now(w).puts # Now(w).looks /\ conf.manager = "keepassxc"
  /\ <<"keepassxc", "map">> \notin held

Store(w) ==
  /\ run = "on"
  /\ job[w].pc = "store"
  /\ IF NoMap(w) THEN Panic(w) /\ UNCHANGED <<cache, held, answered>>
     ELSE LET out == Parsed(w, job[w].out)
          IN /\ cache' = Put(Now(w).puts, Now(w).key, out)
             /\ held' = IF out.argv = <<"unlock", "--raw">> THEN held \cup {<<"bitwarden", "session">>}
                        ELSE held
             /\ Finish(w, out)
  /\ UNCHANGED <<conf, broken, checked, log, left, run>>

(* Two goroutines in the same map, one of them writing: the Go runtime may  *)
(* end the process                                                         *)
Touches(w) ==
  IF job[w].pc = "look" THEN { Now(w).looks[k] : k \in DOMAIN Now(w).looks }
  ELSE { Now(w).puts[k] : k \in DOMAIN Now(w).puts }
Collide(w, v) ==
  /\ run = "on"
  /\ w # v /\ job[w].pc = "store" /\ job[v].pc \in {"look", "store"}
  /\ Touches(w) \cap Touches(v) # {}
  /\ run' = "crashed"
  /\ UNCHANGED <<conf, cache, held, broken, checked, job, log, answered, left>>

(* finalize runs when the command has ended, also with an error.  A session *)
(* of chezmoi's own is closed: bw lock.                                    *)
Finalize(ok) ==
  /\ run = "on"
  /\ \A w \in conf.team : job[w].pc = "idle"
  /\ run' = "ended"
  /\ IF <<"bitwarden", "session">> \in held THEN Log(Entry(<<"lock">>, <<>>, ok))
     ELSE ok /\ UNCHANGED log
  /\ UNCHANGED <<conf, cache, held, broken, checked, job, answered, left>>

Next ==
  \/ \E w \in conf.team :
       \/ \E c \in Uses(conf.manager) : Begin(w, c)
       \/ Hit(w) \/ Miss(w) \/ Ready(w) \/ Store(w)
       \/ \E answer \in {"error", "empty", "given"} : Obtain(w, answer)
       \/ \E ok \in BOOLEAN : Execute(w, ok)
       \/ \E v \in conf.team : Collide(w, v)
  \/ \E ok \in BOOLEAN : Finalize(ok)

Spec == Init /\ [][Next]_secretVars

-----------------------------------------------------------------------------
(* Properties *)

TypeOK ==
  /\ conf \in Configurations
  /\ DOMAIN cache = CacheNames
  /\ checked \in BOOLEAN
  /\ \A w \in conf.team :
       /\ job[w].pc \in {"idle", "look", "gate", "run", "store"}
       /\ job[w].pc # "idle" => job[w].todo # <<>>
  /\ run \in {"on", "ended", "crashed"}

Sequential == Cardinality(conf.team) = 1

(* A template gets the output of its own command, whatever was asked        *)
(* before: no two commands share a key.  ejson shares the file between      *)
(* keys, and the builtin KeePassXC the entry between its functions.        *)
LastRequest(c) == LET r == Requests(c) IN r[Len(r)]
OwnAnswers ==
  \A a \in answered :
    IF conf.manager = "ejson" THEN a.out.argv[2] = a.call.args[1]
    ELSE IF conf.mode = "builtin" /\ conf.manager = "keepassxc" THEN a.out.argv[2] = a.call.args[1]
    ELSE a.out.argv = LastRequest(a.call).argv

(* Templates that run one after another never run a command again that      *)
(* succeeded, and never ask again for what was given: passwords, sign-ins,  *)
(* consoles.  Not so for the commands that no cache keeps.                 *)
Uncached == { <<"secret", "get">>, <<"attachments">>, <<"attachment-export">> }
NeverCached(argv) ==
  \E u \in Uncached : Len(argv) >= Len(u) /\ SubSeq(argv, 1, Len(u)) = u
AskedOnce ==
  Sequential =>
    \A i, j \in DOMAIN log :
      (i # j /\ log[i].ok /\ log[j].ok /\ log[i].argv = log[j].argv) => NeverCached(log[i].argv)

(* op runs with the session token of the account that its command names     *)
OwnToken ==
  \A i \in DOMAIN log :
    (log[i].token # <<>> /\ conf.manager = "op") =>
      IF \E k \in DOMAIN log[i].argv : log[i].argv[k] = "--account"
      THEN log[i].token[2] = log[i].argv[Len(log[i].argv)]
      ELSE log[i].token[2] = ""

(* A Bitwarden vault that chezmoi unlocked is locked when the run has ended,*)
(* whatever failed, unless the process was killed                          *)
LockedAtEnd ==
  (run = "ended" /\ \E i \in DOMAIN log : log[i].ok /\ log[i].argv = <<"unlock", "--raw">>)
    => log[Len(log)].argv = <<"lock">>

(* Secrets come from the request that a template made, are asked for once,  *)
(* with the token of their account, and the vault is locked again.         *)
SecretsGuarded == OwnAnswers /\ AskedOnce /\ OwnToken /\ LockedAtEnd
=============================================================================
