-------------------------- MODULE GlobalInstances --------------------------
(***************************************************************************)
(* How a program gets its services: every package of the kit keeps one     *)
(* global instance that Init makes at most once (sync.Once), from a given  *)
(* configuration or from one that config.Load reads out of the process     *)
(* environment and a .env file (cache, captcha, urlsigner, slack, oauth    *)
(* and database).  Goroutines call the package functions concurrently.     *)
(*                                                                         *)
(* A behaviour is about one package, in one environment, with one .env     *)
(* file: they are chosen by Init among Scenarios.  defaultX is inst,       *)
(* defaultErr is err; the database also keeps its configuration and GORM.  *)
(* What lies outside the process answers or not, as the scenario says.     *)
(***************************************************************************)
EXTENDS ConfigLoader

CONSTANTS Goroutines, Scenarios,
          MaxCalls      \* bound: calls a goroutine makes

Packages == {"cache", "captcha", "urlsigner", "slack", "oauth", "database"}

ASSUME ScenarioAssumption ==
    \A s \in Scenarios :
        /\ s.pkg \in Packages
        /\ s.file \in Seq({s.file[i] : i \in DOMAIN s.file})
        /\ \A i \in DOMAIN s.file : s.file[i].wellFormed \in BOOLEAN

None == "none"
Nil == [kind |-> "nil"]
Usable(cfg) == [kind |-> "usable", cfg |-> cfg]

(* What New of a package answers. *)
Made(cfg) == [inst |-> Usable(cfg), err |-> FALSE]
Failed == [inst |-> Nil, err |-> TRUE]

(***************************************************************************)
(* drivers.go returns the (nil, err) of a driver's New as a Cache: an      *)
(* interface that holds a nil pointer is not nil.                          *)
(***************************************************************************)
FailedDriver == [inst |-> [kind |-> "typed nil"], err |-> TRUE]

Positive == {"1", "2", "3", "5", "10", "40000", "40001", "10s", "60s", "30m", "5m", "1h", "30s", "1s"}
Negative == {"-1"}

-----------------------------------------------------------------------------
(* The structs: the fields that decide whether a service can be made. *)

CacheFields ==
    <<Field("CACHE_DRIVER", "string", "memory"), Text("CACHE_URL"),
      Field("CACHE_DATABASE", "int", "0"), Field("CACHE_USE_TLS", "bool", "false"),
      Text("CACHE_CERT_FILE"), Text("CACHE_KEY_FILE")>>

CaptchaFields ==
    <<Field("CAPTCHA_PROVIDER", "string", "recaptcha"), Text("CAPTCHA_SITE_KEY"),
      Text("CAPTCHA_SECRET_KEY"), Field("CAPTCHA_VERSION", "int", "2"),
      Field("CAPTCHA_ENABLED", "bool", "false")>>

(* The signer's expiry is read as text and parsed afterwards, with the same end. *)
SignerFields ==
    <<RequiredText("URLSIGNER_SECRET_KEY"), Field("URLSIGNER_DEFAULT_EXPIRY", "duration", "30m"),
      Field("URLSIGNER_ALGORITHM", "string", "sha256")>>

SlackFields ==
    <<Text("WEBHOOK_URL"), Text("ICON_EMOJI"), Text("ICON_URL"),
      Field("TIMEOUT", "duration", "10s"), Field("MAX_RETRIES", "int", "3"),
      Field("RETRY_DELAY", "duration", "1s"), Field("RATE_LIMIT", "int", "1"),
      Field("CIRCUIT_THRESHOLD", "int", "5"), Field("MAX_MESSAGE_SIZE", "int", "40000")>>

OAuthFields ==
    <<Field("OAUTH_PROVIDER", "string", "google"), RequiredText("OAUTH_CLIENT_ID"),
      RequiredText("OAUTH_CLIENT_SECRET"), RequiredText("OAUTH_REDIRECT_URL"),
      Field("OAUTH_STATE_GENERATOR", "string", "secure"),
      Field("OAUTH_PKCE_ENABLED", "bool", "true"), Field("OAUTH_PKCE_METHOD", "string", "S256"),
      Text("OAUTH_AUTH_URL"), Text("OAUTH_TOKEN_URL"), Text("OAUTH_APPLE_TEAM_ID"),
      Text("OAUTH_APPLE_KEY_ID"), Text("OAUTH_APPLE_PRIVATE_KEY")>>

DatabaseFields ==
    <<Field("DB_DRIVER", "string", "sqlite"), Field("DB_HOST", "string", "localhost"),
      Field("DB_DATABASE", "string", "beaver.db"), Text("DATABASE_URL"), Text("DB_URL"),
      Text("DB_ORM")>>

Fields == [cache |-> CacheFields, captcha |-> CaptchaFields, urlsigner |-> SignerFields,
           slack |-> SlackFields, oauth |-> OAuthFields, database |-> DatabaseFields]

(* The prefix GetConfig reads with when none is given. *)
DefaultPrefix(p) == IF p = "slack" THEN "BEAVER_SLACK_" ELSE "BEAVER_"

(* GetConfig of the cache lowers the driver's name; the builders do not. *)
GetConfig(p, cfg) ==
    IF p = "cache" /\ cfg["CACHE_DRIVER"] = "REDIS" THEN [cfg EXCEPT !["CACHE_DRIVER"] = "redis"]
    ELSE cfg

-----------------------------------------------------------------------------
(* New of each package.  up: the addresses and files that answer. *)

(* redis.New: the URL, the certificate and the connection may each fail. *)
NewRedis(cfg, up) ==
    IF \/ cfg["CACHE_URL"] = "malformed"
       \/ /\ cfg["CACHE_USE_TLS"] = "true"
          /\ cfg["CACHE_CERT_FILE"] # "" /\ cfg["CACHE_KEY_FILE"] # ""
          /\ "certificate" \notin up
       \/ "redis" \notin up
    THEN FailedDriver ELSE Made(cfg)

(* memory.New never fails. *)
NewCache(cfg, up) ==
    CASE cfg["CACHE_DRIVER"] \in {"memory", "builtin"} -> Made(cfg)
      [] cfg["CACHE_DRIVER"] = "redis" -> NewRedis(cfg, up)
      [] OTHER -> Failed

NewCaptcha(cfg) ==
    IF \/ cfg["CAPTCHA_ENABLED"] # "true"
       \/ /\ cfg["CAPTCHA_PROVIDER"] \in {"recaptcha", "hcaptcha", "turnstile"}
          /\ cfg["CAPTCHA_SITE_KEY"] # "" /\ cfg["CAPTCHA_SECRET_KEY"] # ""
          /\ cfg["CAPTCHA_PROVIDER"] = "recaptcha" => cfg["CAPTCHA_VERSION"] \in {"2", "3"}
    THEN Made(cfg) ELSE Failed

NewSigner(cfg) ==
    IF /\ cfg["URLSIGNER_SECRET_KEY"] # ""
       /\ cfg["URLSIGNER_DEFAULT_EXPIRY"] \in Positive
       /\ cfg["URLSIGNER_ALGORITHM"] = "sha256"
    THEN Made(cfg) ELSE Failed

NewSlack(cfg) ==
    IF /\ cfg["WEBHOOK_URL"] \notin {"", "malformed"}
       /\ cfg["ICON_EMOJI"] = "" \/ cfg["ICON_URL"] = ""
       /\ cfg["TIMEOUT"] \in Positive
       /\ cfg["MAX_RETRIES"] \notin Negative
       /\ cfg["RETRY_DELAY"] \in Positive
       /\ cfg["RATE_LIMIT"] \notin Negative
       /\ cfg["CIRCUIT_THRESHOLD"] \in Positive
       /\ cfg["MAX_MESSAGE_SIZE"] \in Positive \ {"40001"}
    THEN Made(cfg) ELSE Failed

ValidOAuth(cfg) ==
    /\ cfg["OAUTH_CLIENT_ID"] # "" /\ cfg["OAUTH_REDIRECT_URL"] # ""
    /\ cfg["OAUTH_CLIENT_SECRET"] # "" \/ cfg["OAUTH_PROVIDER"] = "apple"
    /\ cfg["OAUTH_PROVIDER"] \in {"google", "github", "apple", "twitter", "custom"}
    /\ cfg["OAUTH_PROVIDER"] = "custom" =>
         cfg["OAUTH_AUTH_URL"] # "" /\ cfg["OAUTH_TOKEN_URL"] # ""
    /\ cfg["OAUTH_PROVIDER"] = "apple" =>
         \A k \in {"OAUTH_APPLE_TEAM_ID", "OAUTH_APPLE_KEY_ID", "OAUTH_APPLE_PRIVATE_KEY"} :
            cfg[k] # ""
    /\ cfg["OAUTH_PKCE_ENABLED"] = "true" => cfg["OAUTH_PKCE_METHOD"] \in {"S256", "plain"}

(* NewCustomProvider is a placeholder that always fails. *)
NewOAuth(cfg) ==
    IF /\ ValidOAuth(cfg)
       /\ cfg["OAUTH_PROVIDER"] # "custom"
       /\ cfg["OAUTH_APPLE_PRIVATE_KEY"] # "malformed"
       /\ cfg["OAUTH_STATE_GENERATOR"] \in {"uuid", "secure"}
    THEN Made(cfg) ELSE Failed

(* The SQL driver a URL's scheme names; other text is a DSN for the configured driver. *)
ParseURLForDriver(url) ==
    CASE url = "postgres://" -> "pgx" [] url = "mysql://" -> "mysql"
      [] url = "sqlite://" -> "sqlite" [] url = "libsql://" -> "libsql" [] OTHER -> ""

SQLDriver(driver) ==
    CASE driver = "mysql" -> "mysql" [] driver \in {"postgres", "postgresql"} -> "pgx"
      [] driver \in {"sqlite", "sqlite3"} -> "sqlite" [] driver \in {"libsql", "turso"} -> "libsql"
      [] OTHER -> ""

EffectiveURL(cfg) == IF cfg["DATABASE_URL"] # "" THEN cfg["DATABASE_URL"] ELSE cfg["DB_URL"]

(* The driver of the connection, "" when none can be told. *)
ConnectionDriver(cfg) ==
    IF ParseURLForDriver(EffectiveURL(cfg)) # "" THEN ParseURLForDriver(EffectiveURL(cfg))
    ELSE SQLDriver(cfg["DB_DRIVER"])

ValidDatabase(cfg) ==
    /\ cfg["DB_DRIVER"] # ""
    /\ EffectiveURL(cfg) = "" =>
         CASE cfg["DB_DRIVER"] \in {"libsql", "turso"} -> cfg["DB_HOST"] # ""
           [] cfg["DB_DRIVER"] \in {"sqlite", "sqlite3"} -> TRUE
           [] OTHER -> cfg["DB_HOST"] # "" /\ cfg["DB_DATABASE"] # ""

(* NewSQL: a connection that does not answer the ping is closed again. *)
NewSQL(cfg, up) ==
    IF ValidDatabase(cfg) /\ ConnectionDriver(cfg) # "" /\ ConnectionDriver(cfg) \in up
    THEN Made(cfg) ELSE Failed

(***************************************************************************)
(* NewGORM chooses the dialect by DB_DRIVER, whatever driver the URL chose *)
(* for the connection; gorm.Open asks the server for its version in that   *)
(* dialect.  libsql speaks sqlite.                                         *)
(***************************************************************************)
Dialect(cfg) == IF SQLDriver(cfg["DB_DRIVER"]) = "libsql" THEN "sqlite"
                ELSE SQLDriver(cfg["DB_DRIVER"])

NewGORM(cfg) ==
    IF \/ Dialect(cfg) = ConnectionDriver(cfg)
       \/ Dialect(cfg) = "sqlite" /\ ConnectionDriver(cfg) = "libsql"
    THEN Made(cfg) ELSE Failed

New(p, cfg, up) ==
    CASE p = "cache" -> NewCache(cfg, up) [] p = "captcha" -> NewCaptcha(cfg)
      [] p = "urlsigner" -> NewSigner(cfg) [] p = "slack" -> NewSlack(cfg)
      [] p = "oauth" -> NewOAuth(cfg) [] p = "database" -> NewSQL(cfg, up)

-----------------------------------------------------------------------------
VARIABLES world,    \* the scenario: package, the process's own variables, .env file, what answers
          environ,  \* the process environment
          once,     \* defaultOnce: "new", "running", "done"
          inst,     \* defaultCache, defaultService, defaultInstance, defaultDB
          err,      \* defaultErr is not nil
          stored,   \* the database's defaultConfig
          gorm,     \* gormOnce is done, defaultGORM and gormErr
          pc,       \* where each goroutine is
          call,     \* its call: operation and prefix
          unset,    \* the variables of the file it has still to set
          loaded,   \* what its last config.Load returned
          result,   \* what its last call returned
          calls     \* how many calls it has made

vars == <<world, environ, once, inst, err, stored, gorm, pc, call, unset, loaded, result, calls>>
instances == <<inst, err, stored, gorm>>

NoCall == [op |-> None, prefix |-> None]
NotLoaded == [err |-> FALSE, cfg |-> <<>>]

Init ==
    /\ world \in Scenarios
    /\ environ = world.own
    /\ once = "new" /\ inst = Nil /\ err = FALSE /\ stored = <<>>
    /\ gorm = [done |-> FALSE, inst |-> Nil, err |-> FALSE]
    /\ pc = [g \in Goroutines |-> "idle"]
    /\ call = [g \in Goroutines |-> NoCall]
    /\ unset = [g \in Goroutines |-> <<>>]
    /\ loaded = [g \in Goroutines |-> NotLoaded]
    /\ result = [g \in Goroutines |-> None]
    /\ calls = [g \in Goroutines |-> 0]

(* A goroutine that panics takes the process with it. *)
Down == \E g \in Goroutines : result[g] = "panic"

(* The builder's Init and InitWithGORM load a configuration before they call Init. *)
GivesConfig(op) == op \in {"builder", "InitWithGORM"}

(* shouldInitGORM *)
ShouldInitGORM(cfg) == cfg["DB_ORM"] \in {"gorm", "true", "TRUE"}

(* Leave a call with its result. *)
Return(g, out) ==
    /\ pc' = [pc EXCEPT ![g] = "idle"]
    /\ result' = [result EXCEPT ![g] = out]

Goto(g, where) ==
    /\ pc' = [pc EXCEPT ![g] = where]
    /\ UNCHANGED result

(* Init has returned failed: GORM goes on from there, the others answer. *)
AfterInit(g, failed, made) ==
    CASE call[g].op = "Default" -> Return(g, IF made = Nil THEN "nil" ELSE "ok")
      [] call[g].op = "GORM" /\ ~failed -> Goto(g, "gorm")
      [] OTHER -> Return(g, IF failed THEN "error" ELSE "ok")

Begin(g, op, prefix) ==
    /\ ~Down /\ pc[g] = "idle" /\ calls[g] < MaxCalls
    /\ calls' = [calls EXCEPT ![g] = @ + 1]
    /\ call' = [call EXCEPT ![g] = [op |-> op, prefix |-> prefix]]
    /\ loaded' = [loaded EXCEPT ![g] = NotLoaded]
    /\ UNCHANGED <<world, environ, once, instances, unset>>

(* Init: without a configuration it is loaded inside the once. *)
CallInit(g) ==
    /\ Begin(g, "Init", DefaultPrefix(world.pkg))
    /\ Goto(g, "once")

(* Builder.Init: a configuration that cannot be loaded never reaches the once. *)
CallBuilderInit(g, prefix) ==
    /\ Begin(g, "builder", prefix)
    /\ Goto(g, "load")

(* Default, Service, Slack, GetService, DB: Init runs only while there is no instance. *)
CallDefault(g) ==
    /\ Begin(g, "Default", DefaultPrefix(world.pkg))
    /\ IF inst = Nil THEN Goto(g, "once") ELSE Return(g, "ok")

(* Get, Set, Ping, IsHealthy of the cache; Health of Slack. *)
CallUse(g) ==
    /\ world.pkg \in {"cache", "slack"}
    /\ Begin(g, "use", None)
    /\ Return(g, CASE inst = Nil -> "not initialized"
                   [] inst.kind = "typed nil" -> "panic"
                   [] OTHER -> "ok")

CallInitWithGORM(g) ==
    /\ world.pkg = "database"
    /\ Begin(g, "InitWithGORM", DefaultPrefix(world.pkg))
    /\ Goto(g, "load")

CallGORM(g) ==
    /\ world.pkg = "database"
    /\ Begin(g, "GORM", DefaultPrefix(world.pkg))
    /\ Goto(g, IF inst = Nil THEN "once" ELSE "gorm")

-----------------------------------------------------------------------------
(* config.Load *)

(* loadFile, up to its loop: the file is read and the environment looked at. *)
LoadFile(g) ==
    /\ pc[g] = "load"
    /\ unset' = [unset EXCEPT ![g] = Unset(world.file, environ)]
    /\ Goto(g, "set")
    /\ UNCHANGED <<world, environ, once, instances, call, loaded, calls>>

(* os.Setenv of the variables of the file, in the order of a map's iteration. *)
SetVariable(g) ==
    /\ pc[g] = "set"
    /\ \E n \in DOMAIN unset[g] :
         /\ environ' = Setenv(environ, n, unset[g][n])
         /\ unset' = [unset EXCEPT ![g] = Restrict(@, DOMAIN @ \ {n})]
    /\ UNCHANGED <<world, once, instances, pc, call, loaded, result, calls>>

(* ParseWithOptions: inside the once an error is the one Init will always return. *)
ParseStruct(g) ==
    /\ pc[g] = "set" /\ DOMAIN unset[g] = {}
    /\ loaded' = [loaded EXCEPT ![g] = DoParse(Fields[world.pkg], call[g].prefix, environ)]
    /\ IF GivesConfig(call[g].op)
       THEN /\ IF loaded'[g].err THEN Return(g, "error") ELSE Goto(g, "once")
            /\ UNCHANGED <<once, err>>
       ELSE /\ err' = loaded'[g].err
            /\ once' = IF err' THEN "done" ELSE once
            /\ IF err' THEN AfterInit(g, TRUE, inst) ELSE Goto(g, "new")
    /\ UNCHANGED <<world, environ, inst, stored, gorm, call, unset, calls>>

(* The configuration New is called with. *)
Config(g) ==
    CASE call[g].op = "builder" -> loaded[g].cfg
      [] call[g].op = "InitWithGORM" -> [loaded[g].cfg EXCEPT !["DB_ORM"] = "gorm"]
      [] OTHER -> GetConfig(world.pkg, loaded[g].cfg)

-----------------------------------------------------------------------------
(* The once and what runs in it *)

(* A mutant of Once: a flag, set when initialisation begins, in its place. *)
OnceAsFlag(g) ==
    /\ pc[g] = "once"
    /\ \/ /\ once = "new"
          /\ once' = "running"
          /\ Goto(g, IF GivesConfig(call[g].op) THEN "new" ELSE "load")
       \/ /\ once # "new"
          /\ AfterInit(g, err, inst)
          /\ UNCHANGED once
    /\ UNCHANGED <<world, environ, instances, call, unset, loaded, calls>>

(* defaultOnce.Do: the first caller runs the function, the others wait for its end. *)
Once(g) ==
    /\ pc[g] = "once"
    /\ \/ /\ once = "new"
          /\ once' = "running"
          /\ Goto(g, IF GivesConfig(call[g].op) THEN "new" ELSE "load")
       \/ /\ once = "done"
          /\ AfterInit(g, err, inst)
          /\ UNCHANGED once
    /\ UNCHANGED <<world, environ, instances, call, unset, loaded, calls>>

(* defaultX, defaultErr = New of the configuration; the database goes on to GORM when it is asked for. *)
Make(g) ==
    /\ pc[g] = "new"
    /\ LET made == New(world.pkg, Config(g), world.up)
       IN  /\ inst' = made.inst /\ err' = made.err
           /\ stored' = IF world.pkg = "database" THEN Config(g) ELSE stored
           /\ IF world.pkg = "database" /\ ~made.err /\ ShouldInitGORM(Config(g))
              THEN /\ Goto(g, "new gorm")
                   /\ UNCHANGED once
              ELSE /\ once' = "done"
                   /\ AfterInit(g, made.err, made.inst)
    /\ UNCHANGED <<world, environ, gorm, call, unset, loaded, calls>>

(* gormOnce.Do of a NewGORM with the stored configuration. *)
GORMOnce ==
    IF gorm.done THEN gorm
    ELSE LET made == NewGORM(stored)
         IN  [done |-> TRUE, inst |-> made.inst, err |-> made.err]

(* The end of Init of the database: a GORM that fails fails Init, and the SQL *)
(* connection stays open, and global.                                         *)
MakeGORM(g) ==
    /\ pc[g] = "new gorm"
    /\ gorm' = GORMOnce
    /\ err' = gorm'.err
    /\ once' = "done"
    /\ AfterInit(g, gorm'.err, inst)
    /\ UNCHANGED <<world, environ, inst, stored, call, unset, loaded, calls>>

(* The rest of GORM(): the instance is made now if the configuration asks for it. *)
AnswerGORM(g) ==
    /\ pc[g] = "gorm"
    /\ gorm' = IF gorm.inst = Nil /\ stored # <<>> /\ ShouldInitGORM(stored) THEN GORMOnce ELSE gorm
    /\ Return(g, CASE gorm'.err -> "error"
                   [] ~gorm'.err /\ gorm'.inst = Nil -> "not enabled"
                   [] OTHER -> "ok")
    /\ UNCHANGED <<world, environ, once, inst, err, stored, call, unset, loaded, calls>>

-----------------------------------------------------------------------------
(* The end of an instance *)

Quiet == \A g \in Goroutines : pc[g] = "idle"

(* Shutdown of the cache closes the instance and leaves it in place. *)
Shutdown(g) ==
    /\ ~Down /\ Quiet /\ world.pkg = "cache" /\ calls[g] < MaxCalls
    /\ calls' = [calls EXCEPT ![g] = @ + 1]
    /\ inst' = IF inst.kind = "usable" THEN [inst EXCEPT !.kind = "closed"] ELSE inst
    /\ result' = [result EXCEPT ![g] = IF inst.kind = "typed nil" THEN "panic" ELSE None]
    /\ UNCHANGED <<world, environ, once, err, stored, gorm, pc, call, unset, loaded>>

(* Closing panics on a nil pointer, and on a memory driver that is closed already. *)
ClosePanics ==
    \/ inst.kind = "typed nil"
    \/ inst.kind = "closed" /\ inst.cfg["CACHE_DRIVER"] # "redis"

(***************************************************************************)
(* Reset ("for testing") writes the once under nobody's lock, so it is     *)
(* called in quiet moments; the database has none.  What earlier calls     *)
(* were told is history.                                                   *)
(***************************************************************************)
Reset(g) ==
    /\ ~Down /\ Quiet /\ world.pkg # "database" /\ calls[g] < MaxCalls
    /\ calls' = [calls EXCEPT ![g] = @ + 1]
    /\ IF ClosePanics
       THEN /\ result' = [result EXCEPT ![g] = "panic"]
            /\ UNCHANGED <<once, inst, err>>
       ELSE /\ result' = [h \in Goroutines |-> None]
            /\ once' = "new" /\ inst' = Nil /\ err' = FALSE
    /\ UNCHANGED <<world, environ, stored, gorm, pc, call, unset, loaded>>

(* The process is down, or every goroutine has made its calls. *)
Terminated ==
    /\ Down \/ (Quiet /\ \A g \in Goroutines : calls[g] = MaxCalls)
    /\ UNCHANGED vars

Next ==
    \/ \E g \in Goroutines :
         \/ CallInit(g) \/ CallDefault(g) \/ CallUse(g) \/ CallInitWithGORM(g) \/ CallGORM(g)
         \/ \E prefix \in world.prefixes : CallBuilderInit(g, prefix)
         \/ LoadFile(g) \/ SetVariable(g) \/ ParseStruct(g)
         \/ Once(g) \/ Make(g) \/ MakeGORM(g) \/ AnswerGORM(g)
         \/ Shutdown(g) \/ Reset(g)
    \/ Terminated

Spec == Init /\ [][Next]_vars

-----------------------------------------------------------------------------

(***************************************************************************)
(* Whatever goroutines load at the same time, and in whatever order their  *)
(* variables are set, config.Load fills a struct as documented: the        *)
(* process's own variable, else the .env file, else the default; it fails  *)
(* exactly when a required field stays absent or a typed field does not    *)
(* parse (config.go:32-69, godotenv.go:36 "it WILL NOT OVERRIDE an env     *)
(* variable that already exists").                                         *)
(***************************************************************************)
ConfigAsDocumented ==
    \A g \in Goroutines : loaded[g] # NotLoaded =>
        LET fields == Fields[world.pkg]
        IN  /\ loaded[g].err <=> ~Fillable(fields, call[g].prefix, world.file, world.own)
            /\ ~loaded[g].err => \A i \in DOMAIN fields :
                 loaded[g].cfg[fields[i].key] =
                    Documented(fields[i], call[g].prefix, world.file, world.own)

(***************************************************************************)
(* A caller that Init has told "no error" finds an instance that is there  *)
(* and finished, also when another goroutine was the one that made it; and *)
(* one that was told of an error was not told so about an instance that    *)
(* works, GORM of the database aside (service.go:203-211 leaves the SQL    *)
(* connection open and global).                                            *)
(***************************************************************************)
InitTellsTheTruth ==
    \A g \in Goroutines : pc[g] = "idle" /\ call[g].op \in {"Init", "builder", "InitWithGORM"} =>
        /\ result[g] = "ok" => once = "done" /\ inst.kind \in {"usable", "closed"}
        /\ (result[g] = "error" /\ once = "done" /\ ~loaded[g].err) =>
              (inst.kind # "usable" \/ gorm.err)
=============================================================================
