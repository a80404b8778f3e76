------------------------- MODULE GlobalInstancesMC -------------------------
(* Small instances of GlobalInstances for TLC. *)
EXTENDS GlobalInstances, TLC

MCLiterals == [int |-> {"0", "1", "2", "3", "5", "-1", "40000"}, bool |-> {"true", "false"},
               duration |-> {"0s", "1s", "10s", "30m"}]

(* A variable with the default prefix of its package. *)
B(key) == <<"BEAVER_", key>>
S(key) == <<"BEAVER_SLACK_", key>>
A(key) == <<"APP_", key>>

Scenario(pkg, own, file, up) ==
    [pkg |-> pkg, own |-> own, file |-> file, up |-> up, prefixes |-> {"APP_", "BEAVER_"}]

CacheScenarios ==
    { Scenario("cache", own, file, up) :
        own \in {<<>>, B("CACHE_DRIVER") :> "REDIS", B("CACHE_DRIVER") :> "",
                 B("CACHE_DATABASE") :> "one"},
        file \in {NoFile,
                  <<Assign(B("CACHE_DRIVER"), "redis"), Assign(A("CACHE_DRIVER"), "memory")>>,
                  <<Assign(B("CACHE_DRIVER"), "redis"), Garbage>>},
        up \in {{}, {"redis"}} }

CaptchaScenarios ==
    { Scenario("captcha", (B("CAPTCHA_ENABLED") :> "true") @@ own, file, {}) :
        own \in {<<>>, B("CAPTCHA_VERSION") :> "5", B("CAPTCHA_PROVIDER") :> "other"},
        file \in {<<Assign(B("KEY"), "k"), Refer(B("CAPTCHA_SITE_KEY"), B("KEY")),
                    Refer(B("CAPTCHA_SECRET_KEY"), B("KEY"))>>,
                  <<Refer(B("CAPTCHA_SITE_KEY"), B("KEY")), Assign(B("KEY"), "k")>>} }

SignerScenarios ==
    { Scenario("urlsigner", own, file, {}) :
        own \in {<<>>, B("URLSIGNER_DEFAULT_EXPIRY") :> "0s", B("URLSIGNER_SECRET_KEY") :> ""},
        file \in {NoFile, <<Assign(B("URLSIGNER_SECRET_KEY"), "k1"),
                            Assign(B("URLSIGNER_SECRET_KEY"), "k2")>>} }

SlackScenarios ==
    { Scenario("slack", own, <<Assign(S("WEBHOOK_URL"), "https://"), Assign(A("WEBHOOK_URL"), "")>>, {}) :
        own \in {<<>>, S("RATE_LIMIT") :> "-1", (S("ICON_URL") :> "u") @@ (S("ICON_EMOJI") :> "e")} }

OAuthScenarios ==
    { Scenario("oauth", (B("OAUTH_CLIENT_ID") :> "id") @@ (B("OAUTH_CLIENT_SECRET") :> "s") @@ own,
               <<Assign(B("OAUTH_REDIRECT_URL"), "https://")>>, {}) :
        own \in {<<>>, B("OAUTH_PROVIDER") :> "custom", B("OAUTH_PROVIDER") :> "apple",
                 B("OAUTH_PKCE_METHOD") :> "S512"} }

DatabaseScenarios ==
    { Scenario("database", own, file, up) :
        own \in {<<>>, B("DB_ORM") :> "gorm", B("DB_DRIVER") :> "postgres"},
        file \in {NoFile, <<Assign(B("DATABASE_URL"), "postgres://")>>,
                  <<Assign(B("DB_URL"), "postgres://"), Assign(B("DB_ORM"), "gorm")>>},
        up \in {{"sqlite"}, {"sqlite", "pgx"}} }

MCScenarios ==
    UNION {CacheScenarios, CaptchaScenarios, SignerScenarios, SlackScenarios, OAuthScenarios,
           DatabaseScenarios}
=============================================================================
