---------------------------- MODULE CredentialStore ----------------------------
(***************************************************************************)
(* The provisioning tool's two files (provision/src/store.rs): config.toml *)
(* maps a profile to the URL of an API and names the default profile,      *)
(* credentials.toml maps it to a token.  A run loads both, changes its     *)
(* copy and writes whole files back, one after the other, each by a rename *)
(* that either happens or does not.  Runs are processes: they can be cut   *)
(* short anywhere and, nothing forbids it, run side by side; and config.toml *)
(* "is an ordinary file a person edits".                                   *)
(*                                                                         *)
(* A token is named by the one URL whose API accepts it.                   *)
(***************************************************************************)
EXTENDS Naturals, FiniteSets

CONSTANTS
    Names,          \* profile names
    DefaultProfile, \* DEFAULT_PROFILE
    Urls,           \* APIs, which are also the tokens they accept
    Transport,      \* Transport[u]: how u is reached, see ParseUrl
    None,           \* an absent entry, option or argument
    Processes,      \* shells the tool is started from
    MaxRuns         \* bound: runs started

ASSUME StoreAssumption ==
    /\ DefaultProfile \in Names /\ None \notin Names \cup Urls
    /\ Transport \in [Urls -> {"https", "loopback", "plain", "other"}]
    /\ MaxRuns \in Nat

VARIABLES
    config,     \* config.toml: [default, url]
    tokens,     \* credentials.toml: profile -> token
    run,        \* run[r]: program counter, copies of the files, profile at hand
    half,       \* history: profiles whose last login saved config.toml only
    edited,     \* history: profiles whose URL a person changed in the file
    raced,      \* history: two runs, or a run and an editor, at once
    runs        \* bound counter

vars == <<config, tokens, run, half, edited, raced, runs>>

Optional(S) == S \cup {None}
Config == [default : Optional(Names), url : [Names -> Optional(Urls)]]
Tokens == [Names -> Optional(Urls)]
NoConfig == [default |-> None, url |-> [p \in Names |-> None]]
NoTokens == [p \in Names |-> None]
Idle == [pc |-> "idle", config |-> NoConfig, tokens |-> NoTokens, profile |-> None]

Active == {r \in Processes : run[r].pc # "idle"}

(* target_profile, with login's fallback where there is one.               *)
Target(c, arg, fallback) ==
    IF arg # None THEN arg ELSE IF c.default # None THEN c.default ELSE fallback

(* parse_url: https, or http to a loopback host, and nothing else.         *)
ParseUrl(u) ==
    IF u = None THEN None
    ELSE IF Transport[u] \in {"https", "loopback"} THEN u ELSE None

(* login_url: the one given, else what the profile points at; either is    *)
(* parsed.                                                                 *)
LoginUrl(c, p, arg) == ParseUrl(IF arg # None THEN arg ELSE c.url[p])

(* Mutants of login's edits: the built-in name becomes the default; only   *)
(* the entry at hand is kept.                                              *)
ConfigBuiltinDefault(c, p, u) ==
    [default |-> IF c.default = None THEN DefaultProfile ELSE c.default,
     url |-> [c.url EXCEPT ![p] = u]]
OneTokenOnly(t, p, token) == [NoTokens EXCEPT ![p] = token]

(* Store::login's edits: the first profile saved becomes the default.      *)
ConfigAfterLogin(c, p, u) ==
    [default |-> IF c.default = None THEN p ELSE c.default,
     url |-> [c.url EXCEPT ![p] = u]]
TokensWith(t, p, token) == [t EXCEPT ![p] = token]

Refused(why) == [says |-> why, url |-> None, token |-> None]

(* Mutant: a URL typed by hand falls back to the profile's stored token.   *)
DirectTargetOrStored(api, env) ==
    IF ParseUrl(api) = None THEN Refused("bad_url")
    ELSE [says |-> "target", url |-> api,
          token |-> IF env = None THEN tokens[DefaultProfile] ELSE env]

(* direct_target: --api-url takes its token from the environment only.     *)
DirectTarget(api, env) ==
    IF ParseUrl(api) = None THEN Refused("bad_url")
    ELSE IF env = None THEN Refused("no_token")
    ELSE [says |-> "target", url |-> api, token |-> env]

(* resolve: what a command would talk to, and with which token.            *)
Resolve(arg, api, env) ==
    LET p == Target(config, arg, None) IN
    CASE api # None -> DirectTarget(api, env)
      [] api = None /\ p = None -> Refused("no_profile")
      [] OTHER ->
          CASE config.url[p] = None -> Refused("unknown_profile")
            [] config.url[p] # None /\ tokens[p] = None -> Refused("run_login")
            [] config.url[p] # None /\ tokens[p] # None
                 /\ ParseUrl(config.url[p]) = None -> Refused("bad_url")
            [] OTHER -> [says |-> "target", url |-> config.url[p], token |-> tokens[p]]

Init ==
    /\ config = NoConfig /\ tokens = NoTokens
    /\ run = [r \in Processes |-> Idle]
    /\ half = {} /\ edited = {} /\ raced = FALSE /\ runs = 0

(* Store::at reads one file and then the other.                            *)
LoadConfig(r) ==
    /\ run[r].pc = "idle"
    /\ runs < MaxRuns /\ runs' = runs + 1
    /\ raced' = (raced \/ Active # {})
    /\ run' = [run EXCEPT ![r] = [Idle EXCEPT !.pc = "opened", !.config = config]]
    /\ UNCHANGED <<config, tokens, half, edited>>

LoadTokens(r) ==
    /\ run[r].pc = "opened"
    /\ run' = [run EXCEPT ![r].pc = "loaded", ![r].tokens = tokens]
    /\ UNCHANGED <<config, tokens, half, edited, raced, runs>>

(* check_auth asks the API at the URL that would be stored.                *)
CheckAuth(token, url) == token = url

(* login up to its saves: an unknown profile without a URL and a token the *)
(* API does not take end the run before anything is written.               *)
Login(r) ==
    /\ run[r].pc = "loaded"
    /\ \E name \in Optional(Names), arg \in Optional(Urls), token \in Urls :
           LET c == run[r].config
               p == Target(c, name, DefaultProfile)
               url == LoginUrl(c, p, arg) IN
           run' = [run EXCEPT ![r] =
               IF url = None \/ ~ CheckAuth(token, url) THEN Idle
               ELSE [pc |-> "saveConfig", profile |-> p,
                     config |-> ConfigAfterLogin(c, p, url),
                     tokens |-> TokensWith(run[r].tokens, p, token)]]
    /\ UNCHANGED <<config, tokens, half, edited, raced, runs>>

(* logout up to its save: nothing selected or nothing stored ends it.      *)
Logout(r) ==
    /\ run[r].pc = "loaded"
    /\ \E name \in Optional(Names) :
           LET p == Target(run[r].config, name, None) IN
           run' = [run EXCEPT ![r] =
               IF p = None THEN Idle
               ELSE IF run[r].tokens[p] = None THEN Idle
               ELSE [@ EXCEPT !.pc = "saveTokens", !.profile = p,
                              !.tokens = TokensWith(run[r].tokens, p, None)]]
    /\ UNCHANGED <<config, tokens, half, edited, raced, runs>>

(* write_atomic: a temporary file renamed over the old one, or an error    *)
(* and the old one stands.                                                 *)
WriteAtomic(old, new) == {[file |-> new, ok |-> TRUE], [file |-> old, ok |-> FALSE]}

(* save_config: the whole file.                                            *)
SaveConfig(r) ==
    /\ run[r].pc = "saveConfig"
    /\ \E w \in WriteAtomic(config, run[r].config) :
        /\ config' = w.file
        /\ half' = IF w.ok THEN half \cup {run[r].profile} ELSE half
        /\ run' = [run EXCEPT ![r] = IF w.ok THEN [@ EXCEPT !.pc = "saveTokens"] ELSE Idle]
    /\ UNCHANGED <<tokens, edited, raced, runs>>

(* save_credentials: likewise.                                             *)
SaveTokens(r) ==
    /\ run[r].pc = "saveTokens"
    /\ \E w \in WriteAtomic(tokens, run[r].tokens) :
        /\ tokens' = w.file
        /\ half' = IF w.ok THEN half \ {run[r].profile} ELSE half
    /\ run' = [run EXCEPT ![r] = Idle]
    /\ UNCHANGED <<config, edited, raced, runs>>

(* The process is killed, or a file it reads is refused (malformed, or     *)
(* credentials others can read): the run ends.                             *)
Cut(r) ==
    /\ run[r].pc # "idle"
    /\ run' = [run EXCEPT ![r] = Idle]
    /\ UNCHANGED <<config, tokens, half, edited, raced, runs>>

(* A person points a configured profile at another URL.                    *)
EditConfig ==
    \E p \in Names \ edited, u \in Urls :
        /\ config.url[p] \notin {None, u}
        /\ config' = [config EXCEPT !.url[p] = u]
        /\ edited' = edited \cup {p}
        /\ raced' = (raced \/ Active # {})
        /\ UNCHANGED <<tokens, run, half, runs>>

Next ==
    \/ \E r \in Processes :
        \/ LoadConfig(r) \/ LoadTokens(r) \/ Login(r) \/ Logout(r)
        \/ SaveConfig(r) \/ SaveTokens(r) \/ Cut(r)
    \/ EditConfig

Spec == Init /\ [][Next]_vars

-------------------------------------------------------------------------------

TypeOK ==
    /\ config \in Config /\ tokens \in Tokens
    /\ run \in [Processes -> [pc : {"idle", "opened", "loaded", "saveConfig", "saveTokens"},
                              config : Config, tokens : Tokens, profile : Optional(Names)]]
    /\ half \subseteq Names /\ edited \subseteq Names /\ raced \in BOOLEAN /\ runs \in 0 .. MaxRuns

(* The default profile is a configured one, even with runs side by side    *)
(* and cut short: no command without --profile fails for want of the       *)
(* profile the file itself names (Store::login, resolve).                  *)
DefaultConfigured == Resolve(None, None, None).says # "unknown_profile"

(* A command sends a token only over https or to the host it runs on, and  *)
(* only the environment's own or, unless runs overlapped, a login was cut  *)
(* between its two saves or a person edited the URL, one verified against  *)
(* that API (commands.rs login: "Verify before storing"; store.rs resolve: *)
(* "the no-fallback guarantee").                                           *)
TokenGoesHome ==
    \A p \in Names, api, env \in Optional(Urls) :
        LET to == Resolve(p, api, env) IN
        to.says = "target" =>
            /\ Transport[to.url] \in {"https", "loopback"}
            /\ to.token = env \/ raced \/ p \in half \cup edited \/ to.token = to.url

(* Runs one at a time touch the entries of their own profile only, in both *)
(* files (store.rs save: "writing a single entry would delete every other  *)
(* profile").                                                              *)
OthersKept ==
    [][~ raced' /\ edited' = edited =>
           \A p \in Names :
               (config'.url[p] # config.url[p] \/ tokens'[p] # tokens[p]) =>
                   \E r \in Active : run[r].profile = p]_vars

(* What store.rs says of a login whose second write failed: the profile    *)
(* exists without credentials and resolve says to log in.                  *)
HalfMeansRunLogin ==
    (~ raced /\ Active = {}) => \A p \in half : Resolve(p, None, None).says = "run_login"
===============================================================================
