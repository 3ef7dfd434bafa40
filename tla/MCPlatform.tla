----------------------------- MODULE MCPlatform -----------------------------
(* One run for the parts of the server that share no state in these        *)
(* models: part says which of them moves, the others keep their first      *)
(* state.  Mail is two parts, what comes in and what goes out.             *)
EXTENDS Firewall, ImageCache, Accounts, AdminPanel, ApiExec, Arena,
        LLMGateway, Mail, WebAccess

VARIABLE part

Parts == {"firewall", "images", "accounts", "admin", "api", "arena", "llm",
          "smtp", "relay", "web"}

Token(kind, nbf, exp, cmds) ==
    [kind |-> kind, user |-> "u1", key |-> "k1", nbf |-> nbf, exp |-> exp, cmds |-> cmds]

MCTokens == {Token("usy0", 1, 3, {"ls"}), Token("usy1", 9, 0, {})}

(* Where a model may start in several states, only its own part does.      *)
PlatformInit ==
    /\ part \in Parts
    /\ Init /\ AcctInit /\ ApiInit /\ ArenaInit /\ MailInit /\ WebInit
    /\ ImageInit
    /\ registry = [r \in Refs |-> "d1"]
    /\ \A r \in Refs : docker[r] \in {"d2", "absent"}
    /\ part # "images" => \A r \in Refs : docker[r] = "d2"
    /\ AdminInit
    /\ trust["p1"] = "admin"
    /\ LlmInit
    /\ part # "llm" => secret = "unset"

Still(p, v) == IF part = p THEN TRUE ELSE UNCHANGED v
AllStill ==
    /\ Still("firewall", vars) /\ Still("images", imageVars)
    /\ Still("accounts", acctVars) /\ Still("admin", adminVars)
    /\ Still("api", apiVars) /\ Still("arena", arenaVars)
    /\ Still("llm", llmVars) /\ Still("web", webVars)
    /\ IF part \in {"smtp", "relay"} THEN TRUE ELSE UNCHANGED mailVars
    /\ UNCHANGED part

PlatformNext ==
    \/ part = "firewall" /\ Next /\ AllStill
    \/ part = "images" /\ ImageNext /\ AllStill
    \/ part = "accounts" /\ AcctNext /\ AllStill
    \/ part = "admin" /\ AdminNext /\ AllStill
    \/ part = "api" /\ ApiNext /\ AllStill
    \/ part = "arena" /\ ArenaNext /\ AllStill
    \/ part = "llm" /\ LlmNext /\ AllStill
    \/ part = "smtp" /\ (InboundNext \/ CrashMail) /\ AllStill
    \/ part = "relay" /\ (OutboundNext \/ Ambient) /\ AllStill
    \/ part = "web" /\ WebNext /\ AllStill

platformVars == <<vars, imageVars, acctVars, adminVars, apiVars, arenaVars, llmVars,
                  mailVars, webVars, part>>

PlatformSpec == PlatformInit /\ [][PlatformNext]_platformVars
=============================================================================
