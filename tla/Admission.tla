----------------------------- MODULE Admission -----------------------------
(***************************************************************************)
(* How a WebSocket is let in (_resolve_project in api/chat.py): key or      *)
(* token, rate limit, project, tenant, origin, suspension, daily quota and  *)
(* session cap, for concurrent handshakes on one project, beside the        *)
(* minting of tokens (api/tokens) and the changes that administrators,      *)
(* other sessions and the clock make to what the checks read.               *)
(*                                                                          *)
(* One action is one database command with the local code after it.         *)
(***************************************************************************)
EXTENDS Naturals, FiniteSets

CONSTANTS
    Handshakes,   \* WebSocket connections
    Mints,        \* POST /v1/tokens requests; also the tokens they create
    Keys,         \* API keys of the project
    SecretKeys,   \* those of key_type "secret"
    Rpm,          \* key -> rate_limit_rpm
    TokenBucket,  \* the rate-limit counter "tok:{project_id}"
    Plans,
    Quota,        \* plan -> daily_token_quota, None for unlimited
    MaxTokens,    \* tokens a session uses at most (a bound)
    LastWindow,   \* number of the last one-minute window (a bound)
    LastDay,      \* number of the last day (a bound)
    Origins,      \* Origin headers, apart from a missing one
    Allowed,      \* project.allowed_origins
    None

ASSUME FiniteRequests == IsFiniteSet(Handshakes) /\ IsFiniteSet(Mints)
ASSUME DistinctNames ==
    /\ Keys \cap Mints = {} /\ Handshakes \cap Mints = {} /\ TokenBucket \notin Keys
    /\ None \notin Keys \cup Mints \cup Origins \cup Nat
ASSUME LimitsAreNumbers ==
    /\ SecretKeys \subseteq Keys
    /\ Rpm \in [Keys -> Nat]
    /\ Quota \in [Plans -> Nat \cup {None}]
    /\ MaxTokens \in Nat /\ LastWindow \in Nat /\ LastDay \in Nat

VARIABLES
    revoked,    \* keys with revoked = True
    active,     \* the project's is_active
    cached,     \* its configuration is in the Redis cache
    tenant,     \* the tenant document: "normal", "suspended", "deleted"
    plan,       \* tenant.plan
    window,     \* int(time) // 60
    day,        \* today (UTC)
    hits,       \* bucket -> window -> the Redis counter
    usage,      \* day -> recorded tokens of the sessions started then or later
    mint,       \* where each mint is
    mintKey,    \* the key it presents
    token,      \* its token's Redis key: "none", "live", "gone"
    hs,         \* where each handshake is, or the code it was closed with
    cred,       \* the key or token it presents
    arrival,    \* the window its rate-limit counter is for
    quota,      \* the quota of the plan it has read
    today,      \* start_of_day of its quota check; then the session's day
    resent,     \* handshakes whose INCR was sent a second time
    standing    \* obstacles that have stood since the request began

envVars  == <<revoked, active, cached, tenant, plan>>
timeVars == <<window, day>>
mintVars == <<mint, mintKey, token>>
hsVars   == <<hs, cred, arrival, quota, today, resent>>
vars == <<envVars, timeVars, hits, usage, mintVars, hsVars, standing>>

Windows == 0..LastWindow
Days    == 0..LastDay
Buckets == Keys \cup {TokenBucket}

Codes    == {"4001", "4002", "4003", "4004", "4005", "4006", "4007", "4008"}
Checking == {"config", "fill", "tenant", "quota"}
Underway == {"limit", "limitAgain"} \cup Checking
Admitted == {"open", "joined", "closed"}

Init ==
    /\ revoked = {} /\ active = TRUE /\ cached \in BOOLEAN
    /\ tenant = "normal" /\ plan \in Plans
    /\ window = 0 /\ day = 0
    /\ hits = [b \in Buckets |-> [w \in Windows |-> 0]]
    /\ usage = [d \in Days |-> 0]
    /\ mint = [m \in Mints |-> "new"]
    /\ mintKey = [m \in Mints |-> None]
    /\ token = [m \in Mints |-> "none"]
    /\ hs = [h \in Handshakes |-> "new"]
    /\ cred = [h \in Handshakes |-> None]
    /\ arrival = [h \in Handshakes |-> 0]
    /\ quota = [h \in Handshakes |-> None]
    /\ today = [h \in Handshakes |-> 0]
    /\ resent = {}
    /\ standing = [r \in Handshakes \cup Mints |-> {}]

-----------------------------------------------------------------------------
(* Lookups shared by handshakes and mints.                                  *)

\* get_by_raw_key: the query is for keys that are not revoked.
KeyFound(k) == k \notin revoked

\* The configuration comes from the cache, or from an active project's
\* document, which the request then puts into the cache.
ConfigFrom == IF cached THEN "cache" ELSE IF active THEN "document" ELSE "nowhere"

-----------------------------------------------------------------------------
(* The handshake.                                                           *)

HsGo(h, from, to) == hs[h] = from /\ hs' = [hs EXCEPT ![h] = to]

NoCredential(h) ==
    /\ HsGo(h, "new", "4001")
    /\ UNCHANGED <<envVars, timeVars, hits, usage, mintVars, cred, arrival,
                   quota, today, resent>>

PresentKey(h, k) ==
    /\ HsGo(h, "new", IF KeyFound(k) THEN "limit" ELSE "4001")
    /\ cred' = [cred EXCEPT ![h] = k]
    /\ arrival' = [arrival EXCEPT ![h] = window]
    /\ UNCHANGED <<envVars, timeVars, hits, usage, mintVars, quota, today, resent>>

\* redeem_ephemeral_token.  When the reply is lost the client library sends
\* the script again, and it finds nothing the second time.
PresentToken(h, m) ==
    /\ token[m] # "none"
    /\ \/ token[m] = "live" /\ HsGo(h, "new", "limit")
       \/ HsGo(h, "new", "4005")
    /\ token' = [token EXCEPT ![m] = "gone"]
    /\ cred' = [cred EXCEPT ![h] = m]
    /\ arrival' = [arrival EXCEPT ![h] = window]
    /\ UNCHANGED <<envVars, timeVars, hits, usage, mint, mintKey, quota, today,
                   resent>>

(* check_and_increment_rate_limit.  Every key has a counter, and so have the *)
(* tokens of the project; the limit of a token is that of its secret key.    *)
(* A counter outlives its window, so its expiry is left out.                 *)

Bucket(c) == IF c \in Keys THEN c ELSE TokenBucket
Limit(c)  == IF c \in Keys THEN Rpm[c] ELSE Rpm[mintKey[c]]

MutantSlot(h) == 0
Slot(h) == arrival[h]

Incr(h) == hits' = [hits EXCEPT ![Bucket(cred[h])][Slot(h)] = @ + 1]

MutantWithinLimit(h) == hits[Bucket(cred[h])][Slot(h)] <= Limit(cred[h])
WithinLimit(h) == hits[Bucket(cred[h])][Slot(h)] + 1 <= Limit(cred[h])

Count(h) ==
    /\ \E pc \in {"limit", "limitAgain"} :
         HsGo(h, pc, IF WithinLimit(h) THEN "config" ELSE "4003")
    /\ Incr(h)
    /\ UNCHANGED <<envVars, timeVars, usage, mintVars, cred, arrival, quota, today,
                   resent>>

\* INCR was executed and its reply lost; the client library sends it again.
CountUnheard(h) ==
    /\ HsGo(h, "limit", "limitAgain")
    /\ Incr(h)
    /\ resent' = resent \cup {h}
    /\ UNCHANGED <<envVars, timeVars, usage, mintVars, cred, arrival, quota, today>>

\* get_config_for_key and get_config_by_id
GetConfig(h) ==
    /\ HsGo(h, "config", CASE ConfigFrom = "cache"    -> "tenant"
                           [] ConfigFrom = "document" -> "fill"
                           [] ConfigFrom = "nowhere"  -> "4002")
    /\ UNCHANGED <<envVars, timeVars, hits, usage, mintVars, cred, arrival, quota,
                   today, resent>>

Fill(h) ==
    /\ HsGo(h, "fill", "tenant")
    /\ cached' = TRUE
    /\ UNCHANGED <<revoked, active, tenant, plan, timeVars, hits, usage, mintVars,
                   cred, arrival, quota, today, resent>>

\* _origin_allowed
OriginAllowed(o) == Allowed = {} \/ o = None \/ o \in Allowed

(* get_or_create, which does not suspend: a new session, one that is running *)
(* already, or no room under the cap (SessionManager looks into that).       *)
Enters(h, from) ==
    \/ HsGo(h, from, "open") /\ today' = [today EXCEPT ![h] = day]
    \/ (\E g \in Handshakes : hs[g] = "open") /\ HsGo(h, from, "joined") /\ UNCHANGED today
    \/ HsGo(h, from, "4004") /\ UNCHANGED today

MutantLimited(q) == TRUE
Limited(q) == q # None

\* tenants.get_by_id, the origin and the suspension; without a quota nothing
\* else is awaited.
Suspended == tenant = "suspended"

GetTenant(h) ==
    /\ \/ tenant = "deleted" /\ HsGo(h, "tenant", "4001") /\ UNCHANGED <<quota, today>>
       \/ /\ tenant # "deleted"
          /\ \E o \in Origins \cup {None} :
               \/ ~OriginAllowed(o) /\ HsGo(h, "tenant", "4006") /\ UNCHANGED <<quota, today>>
               \/ /\ OriginAllowed(o) /\ Suspended
                  /\ HsGo(h, "tenant", "4007") /\ UNCHANGED <<quota, today>>
               \/ /\ OriginAllowed(o) /\ ~Suspended
                  /\ quota' = [quota EXCEPT ![h] = Quota[plan]]
                  /\ \/ ~Limited(Quota[plan]) /\ Enters(h, "tenant")
                     \/ /\ Limited(Quota[plan]) /\ HsGo(h, "tenant", "quota")
                        /\ today' = [today EXCEPT ![h] = day]
    /\ UNCHANGED <<envVars, timeVars, hits, usage, mintVars, cred, arrival, resent>>

\* get_daily_token_usage
MutantQuotaLeft(h) == usage[today[h]] <= quota[h]
QuotaLeft(h) == usage[today[h]] < quota[h]

CheckQuota(h) ==
    /\ hs[h] = "quota"
    /\ IF QuotaLeft(h) THEN Enters(h, "quota")
                       ELSE HsGo(h, "quota", "4008") /\ UNCHANGED today
    /\ UNCHANGED <<envVars, timeVars, hits, usage, mintVars, cred, arrival, quota,
                   resent>>

\* A command raises, and with it the handler.
HsFails(h) ==
    /\ hs[h] \in {"new"} \cup Underway
    /\ hs' = [hs EXCEPT ![h] = "failed"]
    /\ UNCHANGED <<envVars, timeVars, hits, usage, mintVars, cred, arrival, quota,
                   today, resent>>

\* The session ends and its tokens are recorded (close_session), for the day
\* on which it started; none if it used none or the insert fails.
Close(h) ==
    /\ HsGo(h, "open", "closed")
    /\ \E t \in 0..MaxTokens :
         usage' = [d \in Days |-> IF d <= today[h] THEN usage[d] + t ELSE usage[d]]
    /\ UNCHANGED <<envVars, timeVars, hits, mintVars, cred, arrival, quota, today,
                   resent>>

-----------------------------------------------------------------------------
(* POST /v1/tokens                                                          *)

MintGo(m, from, to) == mint[m] = from /\ mint' = [mint EXCEPT ![m] = to]

\* _require_secret_key: 401 for an unknown key, 403 for a publishable one.
MintWithKey(m, k) ==
    /\ MintGo(m, "new", IF KeyFound(k) /\ k \in SecretKeys THEN "config" ELSE "failed")
    /\ mintKey' = [mintKey EXCEPT ![m] = k]
    /\ UNCHANGED <<envVars, timeVars, hits, usage, token, hsVars>>

MintGetConfig(m) ==
    /\ MintGo(m, "config", CASE ConfigFrom = "cache"    -> "create"
                             [] ConfigFrom = "document" -> "fill"
                             [] ConfigFrom = "nowhere"  -> "failed")
    /\ UNCHANGED <<envVars, timeVars, hits, usage, mintKey, token, hsVars>>

MintFill(m) ==
    /\ MintGo(m, "fill", "create")
    /\ cached' = TRUE
    /\ UNCHANGED <<revoked, active, tenant, plan, timeVars, hits, usage, mintKey,
                   token, hsVars>>

MintCreate(m) ==
    /\ MintGo(m, "create", "done")
    /\ token' = [token EXCEPT ![m] = "live"]
    /\ UNCHANGED <<envVars, timeVars, hits, usage, mintKey, hsVars>>

MintFails(m) ==
    /\ \E pc \in {"config", "fill", "create"} : MintGo(m, pc, "failed")
    /\ UNCHANGED <<envVars, timeVars, hits, usage, mintKey, token, hsVars>>

TokenExpires(m) ==
    /\ token[m] = "live"
    /\ token' = [token EXCEPT ![m] = "gone"]
    /\ UNCHANGED <<envVars, timeVars, hits, usage, mint, mintKey, hsVars>>

-----------------------------------------------------------------------------
(* What changes beside them.                                                *)

RevokeKey(k) ==
    /\ revoked' = revoked \cup {k}
    /\ UNCHANGED <<active, cached, tenant, plan, timeVars, hits, usage, mintVars, hsVars>>

\* suspend and unsuspend; delete, which is for good.
SetTenant(s) ==
    /\ tenant # "deleted"
    /\ tenant' = s
    /\ UNCHANGED <<revoked, active, cached, plan, timeVars, hits, usage, mintVars, hsVars>>

UpdatePlan(p) ==
    /\ tenant # "deleted"
    /\ plan' = p
    /\ UNCHANGED <<revoked, active, cached, tenant, timeVars, hits, usage, mintVars, hsVars>>

\* soft_delete; the cache entry goes later, or its TTL runs out.
DeleteProject ==
    /\ active' = FALSE
    /\ UNCHANGED <<revoked, cached, tenant, plan, timeVars, hits, usage, mintVars, hsVars>>

Evict ==
    /\ cached' = FALSE
    /\ UNCHANGED <<revoked, active, tenant, plan, timeVars, hits, usage, mintVars, hsVars>>

\* The next minute begins, and with it perhaps the next day.
Tick ==
    /\ window < LastWindow
    /\ window' = window + 1
    /\ day' \in {day} \cup ({day + 1} \cap Days)
    /\ UNCHANGED <<envVars, hits, usage, mintVars, hsVars>>

-----------------------------------------------------------------------------
(* What stands in the way of a request, and has done so since it began.     *)

Spent == Quota[plan] # None /\ usage[day] >= Quota[plan]

Obstacles(c) ==
    {o \in {"key", "project", "tenant", "suspended", "quota"} :
        \/ o = "key" /\ c \in revoked
        \/ o = "project" /\ ConfigFrom = "nowhere"
        \/ o = "tenant" /\ tenant = "deleted"
        \/ o = "suspended" /\ tenant = "suspended"
        \/ o = "quota" /\ Spent}

StandingOf(h) ==
    CASE hs[h] = "new"     -> Obstacles(cred'[h])
      [] hs[h] \in Underway -> standing[h] \cap Obstacles(cred[h])
      [] OTHER             -> standing[h]

MintObstacles(k) == Obstacles(k) \cap {"key", "project"}

StandingOfMint(m) ==
    CASE mint[m] = "new"                       -> MintObstacles(mintKey'[m])
      [] mint[m] \in {"config", "fill", "create"} -> standing[m] \cap MintObstacles(mintKey[m])
      [] OTHER                                 -> standing[m]

\* The record is kept from a request's first command to its last.
Observe ==
    standing' = [r \in Handshakes \cup Mints |->
        IF r \in Handshakes
        THEN IF hs'[r] \in Underway \cup {"open", "joined", "closed"} THEN StandingOf(r) ELSE {}
        ELSE IF mint'[r] \in {"config", "fill", "create", "done"} THEN StandingOfMint(r) ELSE {}]

-----------------------------------------------------------------------------
HandshakeStep(h) ==
    \/ NoCredential(h)
    \/ \E k \in Keys : PresentKey(h, k)
    \/ \E m \in Mints : PresentToken(h, m)
    \/ Count(h) \/ CountUnheard(h)
    \/ GetConfig(h) \/ Fill(h) \/ GetTenant(h) \/ CheckQuota(h)
    \/ HsFails(h) \/ Close(h)

MintStep(m) ==
    \/ \E k \in Keys : MintWithKey(m, k)
    \/ MintGetConfig(m) \/ MintFill(m) \/ MintCreate(m) \/ MintFails(m)
    \/ TokenExpires(m)

Change ==
    \/ \E k \in Keys : RevokeKey(k)
    \/ \E s \in {"normal", "suspended", "deleted"} : SetTenant(s)
    \/ \E p \in Plans : UpdatePlan(p)
    \/ DeleteProject \/ Evict \/ Tick

Next ==
    /\ \/ \E h \in Handshakes : HandshakeStep(h)
       \/ \E m \in Mints : MintStep(m)
       \/ Change
    /\ Observe

Spec == Init /\ [][Next]_vars

-----------------------------------------------------------------------------
(* Properties.                                                              *)

\* The values the variables take; requests past their lookup have a credential.
TypeOK ==
    /\ revoked \subseteq Keys /\ active \in BOOLEAN /\ cached \in BOOLEAN
    /\ tenant \in {"normal", "suspended", "deleted"} /\ plan \in Plans
    /\ window \in Windows /\ day \in Days
    /\ hits \in [Buckets -> [Windows -> Nat]]
    /\ usage \in [Days -> Nat]
    /\ mint \in [Mints -> {"new", "config", "fill", "create", "done", "failed"}]
    /\ mintKey \in [Mints -> Keys \cup {None}]
    /\ token \in [Mints -> {"none", "live", "gone"}]
    /\ \A m \in Mints : token[m] # "none" => mintKey[m] \in SecretKeys
    /\ hs \in [Handshakes -> {"new", "failed"} \cup Codes \cup Underway \cup Admitted]
    /\ cred \in [Handshakes -> Keys \cup Mints \cup {None}]
    /\ arrival \in [Handshakes -> Windows]
    /\ quota \in [Handshakes -> Nat \cup {None}]
    /\ today \in [Handshakes -> Days]
    /\ \A h \in Handshakes : hs[h] = "quota" => quota[h] \in Nat
    /\ resent \subseteq Handshakes
    /\ DOMAIN standing = Handshakes \cup Mints

SameCounter(g, h) ==
    /\ cred[g] # None
    /\ Bucket(cred[g]) = Bucket(cred[h]) /\ arrival[g] = arrival[h]

\* Handshakes that the counter of h has let pass.
Passed(h) ==
    {g \in Handshakes : hs[g] \in Admitted \cup Checking /\ SameCounter(g, h)}

\* In one window at most `limit` handshakes get past the counter of a key, or
\* of the project's tokens, a lost reply and a late arrival included; where
\* tokens of several keys share a counter, each limit holds for those that have
\* it or a lower one.  So two windows side by side let through twice the limit
\* at most (check_and_increment_rate_limit).
WindowLimit ==
    \A h \in Handshakes : h \in Passed(h) =>
        Cardinality({g \in Passed(h) : Limit(cred[g]) <= Limit(cred[h])}) <= Limit(cred[h])

\* A handshake is closed with 4003 only when its counter had a reason to count
\* more than `limit`: so many handshakes that got as far as the counter in that
\* window, whatever became of them, plus those that a lost reply made it count
\* a second time.
RefusalsAreEarned ==
    \A h \in Handshakes : hs[h] = "4003" =>
        LET Reached == {g \in Handshakes : /\ hs[g] \notin {"limit", "4005"}
                                           /\ SameCounter(g, h)}
        IN Cardinality(Reached) + Cardinality(Reached \cap resent) > Limit(cred[h])

\* No handshake is admitted, and no token minted, against an obstacle that stood
\* from its first command to its last: a revoked key, a deleted project or
\* tenant, a suspension, a daily quota that recorded sessions have used up.  The
\* checks are made one after the other, on a cache, while all of that changes,
\* the plan and the day included (_resolve_project, create_token).
NoStandingObstacle ==
    /\ \A h \in Handshakes : hs[h] \in Admitted => standing[h] = {}
    /\ \A m \in Mints : mint[m] = "done" => standing[m] = {}
=============================================================================
