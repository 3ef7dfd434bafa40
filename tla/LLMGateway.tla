----------------------------- MODULE LLMGateway -----------------------------
(***************************************************************************)
(* The LLM gateway: internal/gateway/llm.go behind the metadata server's   *)
(* /gateway/llm/ handler, and the llm-key commands of the shell.           *)
(*                                                                         *)
(* One ReverseProxy per provider serves every request, each on a goroutine *)
(* of its own; a request stores its own director in the proxy and then     *)
(* calls ServeHTTP, which reads the director back.  A key is a record of   *)
(* whose it is, so that a forwarded request shows whose key it carries.    *)
(* Time is counted in halves of the interval that earns one token.         *)
(***************************************************************************)
EXTENDS Integers

CONSTANTS
    Guests,       \* users whose VMs call the gateway
    Byok,         \* providers that need the user's key
    SelfHosted,   \* providers that need none
    Versions,     \* keys a user may set for one provider
    Secrets,      \* encryption secrets a start of the server may be given
    LlmReqs,      \* requests, each used once
    Capacity,     \* tokens in a full bucket
    MaxLlmTime,   \* bound: clock
    MaxLlmStarts  \* bound: restarts of the server

Providers == Byok \cup SelfHosted

ASSUME LlmAssumption ==
    /\ Byok \cap SelfHosted = {}
    /\ Capacity \in Nat \ {0} /\ MaxLlmTime \in Nat /\ MaxLlmStarts \in Nat
    /\ "unset" \notin Secrets

VARIABLES
    stored,     \* llm_keys: the key and the secret it is encrypted with
    secret,     \* LLMEncryptSecret, "unset" for no encryptor
    director,   \* Director of a provider's proxy: the key it injects
    llmReq,     \* a request
    tokens,     \* rateLimiterMap.buckets, in half tokens
    usage,      \* llm_usage.request_count
    llmTime, llmStarts

llmVars == <<stored, secret, director, llmReq, tokens, usage, llmTime, llmStarts>>

NoLlmKey == [user |-> "nobody", provider |-> "none", version |-> 0]
NoLlmRow == [key |-> NoLlmKey, secret |-> "unset"]
NoBucket == [amount |-> -1, last |-> 0]
Fresh == [pc |-> "new", user |-> "nobody", provider |-> "none", key |-> NoLlmKey,
          track |-> "no", alone |-> TRUE, may |-> {}]

LlmInit ==
    /\ stored = [u \in Guests |-> [p \in Byok |-> NoLlmRow]]
    /\ secret \in Secrets \cup {"unset"}
    /\ director = [p \in Providers |-> NoLlmKey]
    /\ llmReq = [r \in LlmReqs |-> Fresh]
    /\ tokens = [u \in Guests |-> NoBucket]
    /\ usage = [u \in Guests |-> [p \in Providers |-> 0]]
    /\ llmTime = 0 /\ llmStarts = 0

Flying(r) == llmReq[r].pc \notin {"new", "sent", "refused"}
Flight(u, p) == {r \in LlmReqs : Flying(r) /\ llmReq[r].user = u /\ llmReq[r].provider = p}
Peers(p) == {r \in LlmReqs : Flying(r) /\ llmReq[r].provider = p}

(* A key that was encrypted with another secret does not decrypt.          *)
Encrypt(key) == [key |-> key, secret |-> secret]
Decrypts(row) == row # NoLlmRow /\ row.secret = secret

-----------------------------------------------------------------------------
(* llm-key set and rm.  A key set while a request is under way is one the  *)
(* request may carry.                                                      *)

SetUserKey(u, p, v) ==
    /\ secret # "unset"
    /\ LET k == [user |-> u, provider |-> p, version |-> v] IN
          /\ stored' = [stored EXCEPT ![u][p] = Encrypt(k)]
          /\ llmReq' = [r \in LlmReqs |->
                          IF r \in Flight(u, p)
                          THEN [llmReq[r] EXCEPT !.may = @ \cup {k}] ELSE llmReq[r]]
    /\ UNCHANGED <<secret, director, tokens, usage, llmTime, llmStarts>>

DeleteLLMKey(u, p) ==
    /\ stored[u][p] # NoLlmRow
    /\ stored' = [stored EXCEPT ![u][p] = NoLlmRow]
    /\ UNCHANGED <<secret, director, llmReq, tokens, usage, llmTime, llmStarts>>

-----------------------------------------------------------------------------
(* Proxy, one step between two things another goroutine can see.           *)

(* handleLLMProxy names the user by the address the request came from.     *)
HandleLLMProxy(r, u, p) ==
    /\ llmReq[r].pc = "new"
    /\ llmReq' = [q \in LlmReqs |->
                    IF q = r
                    THEN [Fresh EXCEPT !.pc = "limit", !.user = u, !.provider = p,
                                       !.alone = Peers(p) = {},
                                       !.may = {IF p \in Byok THEN stored[u][p].key ELSE NoLlmKey}]
                    ELSE IF q \in Peers(p) THEN [llmReq[q] EXCEPT !.alone = FALSE]
                    ELSE llmReq[q]]
    /\ UNCHANGED <<stored, secret, director, tokens, usage, llmTime, llmStarts>>

(* What the user's bucket holds after the refill; a new one is full.       *)
Refilled(u) ==
    IF tokens[u] = NoBucket THEN 2 * Capacity
    ELSE LET sum == tokens[u].amount + (llmTime - tokens[u].last)
         IN IF sum > 2 * Capacity THEN 2 * Capacity ELSE sum

Admit(r) ==
    /\ llmReq[r].pc = "limit"
    /\ LET u == llmReq[r].user
           admitted == Refilled(u) >= 2
       IN /\ tokens' = [tokens EXCEPT ![u] =
                          [amount |-> Refilled(u) - (IF admitted THEN 2 ELSE 0),
                           last |-> llmTime]]
          /\ llmReq' = [llmReq EXCEPT ![r].pc = IF admitted THEN "key" ELSE "refused"]
    /\ UNCHANGED <<stored, secret, director, usage, llmTime, llmStarts>>

(* GetUserKey, and the start of the goroutine that counts the request.     *)
GetUserKey(r) ==
    /\ llmReq[r].pc = "key"
    /\ LET p == llmReq[r].provider
           row == stored[llmReq[r].user][p]
       IN IF p \in SelfHosted
          THEN llmReq' = [llmReq EXCEPT ![r].pc = "direct", ![r].track = "pending"]
          ELSE IF secret # "unset" /\ Decrypts(row)
          THEN llmReq' = [llmReq EXCEPT ![r].pc = "direct", ![r].track = "pending",
                                        ![r].key = row.key]
          ELSE llmReq' = [llmReq EXCEPT ![r].pc = "refused"]
    /\ UNCHANGED <<stored, secret, director, tokens, usage, llmTime, llmStarts>>

IncrementLLMUsage(r) ==
    /\ llmReq[r].track = "pending"
    /\ llmReq' = [llmReq EXCEPT ![r].track = "done"]
    /\ usage' = [usage EXCEPT ![llmReq[r].user][llmReq[r].provider] = @ + 1]
    /\ UNCHANGED <<stored, secret, director, tokens, llmTime, llmStarts>>

MutantSetDirector(r) ==
    /\ llmReq[r].pc = "direct"
    /\ LET p == llmReq[r].provider IN
          director' = [director EXCEPT ![p] = IF @ = NoLlmKey THEN llmReq[r].key ELSE @]
    /\ llmReq' = [llmReq EXCEPT ![r].pc = "serve"]
    /\ UNCHANGED <<stored, secret, tokens, usage, llmTime, llmStarts>>

(* pp.proxy.Director = func...: no lock, one field for every request.      *)
SetDirector(r) ==
    /\ llmReq[r].pc = "direct"
    /\ director' = [director EXCEPT ![llmReq[r].provider] = llmReq[r].key]
    /\ llmReq' = [llmReq EXCEPT ![r].pc = "serve"]
    /\ UNCHANGED <<stored, secret, tokens, usage, llmTime, llmStarts>>

(* ReverseProxy calls the director it finds.  From here on key is the key  *)
(* the request left with.                                                  *)
ServeHTTP(r) ==
    /\ llmReq[r].pc = "serve"
    /\ llmReq' = [llmReq EXCEPT ![r].pc = "sent", ![r].key = director[llmReq[r].provider]]
    /\ UNCHANGED <<stored, secret, director, tokens, usage, llmTime, llmStarts>>

-----------------------------------------------------------------------------
PassLlmTime ==
    /\ llmTime < MaxLlmTime
    /\ llmTime' = llmTime + 1
    /\ UNCHANGED <<stored, secret, director, llmReq, tokens, usage, llmStarts>>

(* A restart keeps the table and may be given another secret.              *)
RestartLlm(s) ==
    /\ llmStarts < MaxLlmStarts
    /\ llmStarts' = llmStarts + 1
    /\ secret' = s
    /\ director' = [p \in Providers |-> NoLlmKey]
    /\ tokens' = [u \in Guests |-> NoBucket]
    /\ llmReq' = [r \in LlmReqs |->
                    IF Flying(r) THEN [Fresh EXCEPT !.pc = "refused"]
                    ELSE IF llmReq[r].track = "pending"
                    THEN [llmReq[r] EXCEPT !.track = "lost"] ELSE llmReq[r]]
    /\ UNCHANGED <<stored, usage, llmTime>>

LlmNext ==
    \/ PassLlmTime
    \/ \E s \in Secrets \cup {"unset"} : RestartLlm(s)
    \/ \E u \in Guests, p \in Byok :
          DeleteLLMKey(u, p) \/ \E v \in Versions : SetUserKey(u, p, v)
    \/ \E r \in LlmReqs :
          \/ \E u \in Guests, p \in Providers : HandleLLMProxy(r, u, p)
          \/ Admit(r) \/ GetUserKey(r) \/ IncrementLLMUsage(r) \/ SetDirector(r) \/ ServeHTTP(r)

LlmSpec == LlmInit /\ [][LlmNext]_llmVars

-----------------------------------------------------------------------------
(* A key leaves only for the provider it was set for, and a self-hosted    *)
(* provider gets none, however requests interleave.                        *)
KeysStayHome ==
    \A r \in LlmReqs :
        llmReq[r].pc = "sent" =>
            llmReq[r].key.provider = IF llmReq[r].provider \in Byok
                                     THEN llmReq[r].provider ELSE "none"

(* A request that was alone with its provider from beginning to end left   *)
(* with a key its own user had there while it was under way: not with one  *)
(* an earlier request put into the director, and not with a removed one.   *)
AloneCarriesOwn ==
    \A r \in LlmReqs :
        llmReq[r].pc = "sent" /\ llmReq[r].alone => llmReq[r].key \in llmReq[r].may

(* Keys go where they belong while requests do not overlap, and never to   *)
(* another provider.                                                       *)
KeysKept == KeysStayHome /\ AloneCarriesOwn

(* "Build a per-request director that rewrites the URL and injects auth"   *)
(* (llm.go): every request leaves with its own user's key.                 *)
EveryRequestCarriesOwn ==
    \A r \in LlmReqs : llmReq[r].pc = "sent" => llmReq[r].key \in llmReq[r].may

=============================================================================
