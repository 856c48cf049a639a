--------------------------- MODULE RefreshTokens ---------------------------
(***************************************************************************)
(* Accounts and refresh tokens of the dashboard: register opens an account, *)
(* it and login create a token, refresh rotates it, logout deletes all of a *)
(* tenant's (api/auth, repositories/auth_token_repo, tenant_repo).  Each    *)
(* command sent to MongoDB is an action; a token is named by itself, its    *)
(* hash being a bijection here, and a tenant by its e-mail address.         *)
(***************************************************************************)
EXTENDS Naturals, FiniteSets

CONSTANTS
    Tokens,     \* raw refresh tokens, drawn at random and so never drawn twice
    Tenants,
    Entries,    \* POST /v1/auth/register and /v1/auth/login requests
    Refreshes,  \* POST /v1/auth/refresh requests
    None

ASSUME NoneIsNothing == None \notin Tokens \cup Tenants

VARIABLES
    account,   \* each tenant's document: "none", "bare" (no password), "open"
    enabled,   \* tenant.is_active
    entry,     \* where each register or login request is
    entryOf,   \* the tenant it is about
    doc,       \* each token's document: "fresh" (never stored), "stored",
               \* "expired" (past expires_at, not yet purged), "deleted"
    tenant,    \* doc.tenant_id
    family,    \* doc.token_family, named by the token its login created
    ref,       \* where each refresh request is
    refToken,  \* the cookie it carries
    loggedOut  \* history: the tenant has logged out and not in again

accountVars == <<account, enabled>>
entryVars == <<entry, entryOf>>
docVars == <<doc, tenant, family>>
refVars == <<ref, refToken>>
vars == <<accountVars, entryVars, docVars, refVars, loggedOut>>

Init ==
    /\ account = [n \in Tenants |-> "none"]
    /\ enabled = [n \in Tenants |-> TRUE]
    /\ entry = [e \in Entries |-> "new"]
    /\ entryOf = [e \in Entries |-> None]
    /\ doc = [t \in Tokens |-> "fresh"]
    /\ tenant = [t \in Tokens |-> None]
    /\ family = [t \in Tokens |-> None]
    /\ ref = [r \in Refreshes |-> "new"]
    /\ refToken = [r \in Refreshes |-> None]
    /\ loggedOut = [n \in Tenants |-> FALSE]

-----------------------------------------------------------------------------
(* AuthTokenRepository.create                                               *)

Store(t, n, f) ==
    /\ doc[t] = "fresh"
    /\ doc' = [doc EXCEPT ![t] = "stored"]
    /\ tenant' = [tenant EXCEPT ![t] = n]
    /\ family' = [family EXCEPT ![t] = f]

-----------------------------------------------------------------------------
(* POST /v1/auth/register and /v1/auth/login                                *)

EntryGo(e, from, to) == entry[e] = from /\ entry' = [entry EXCEPT ![e] = to]

\* TenantRepository.create; 409 when the e-mail address is taken.
MutantRegister(e, n) ==
    /\ EntryGo(e, "new", IF account[n] = "none" THEN "token" ELSE "refused")
    /\ account' = [account EXCEPT ![n] = IF @ = "none" THEN "bare" ELSE @]
    /\ entryOf' = [entryOf EXCEPT ![e] = n]
    /\ UNCHANGED <<enabled, docVars, refVars, loggedOut>>

Register(e, n) ==
    /\ EntryGo(e, "new", IF account[n] = "none" THEN "password" ELSE "refused")
    /\ account' = [account EXCEPT ![n] = IF @ = "none" THEN "bare" ELSE @]
    /\ entryOf' = [entryOf EXCEPT ![e] = n]
    /\ UNCHANGED <<enabled, docVars, refVars, loggedOut>>

\* update_password_hash
SetPassword(e) ==
    /\ EntryGo(e, "password", "token")
    /\ account' = [account EXCEPT ![entryOf[e]] = "open"]
    /\ UNCHANGED <<enabled, entryOf, docVars, refVars, loggedOut>>

\* get_by_email and verify_password, which is false for an empty hash.  Writing
\* a password's new hash in between leaves the account as it is.
LogIn(e, n) ==
    /\ \/ account[n] = "open" /\ enabled[n] /\ EntryGo(e, "new", "token")
       \/ EntryGo(e, "new", "refused")
    /\ entryOf' = [entryOf EXCEPT ![e] = n]
    /\ UNCHANGED <<accountVars, docVars, refVars, loggedOut>>

\* A token of a new family.
MutantEnter(e, t) ==
    /\ EntryGo(e, "token", "done")
    /\ \E f \in {t} \cup {g \in Tokens : doc[g] = "stored"} : Store(t, entryOf[e], f)
    /\ loggedOut' = [loggedOut EXCEPT ![entryOf[e]] = FALSE]
    /\ UNCHANGED <<accountVars, entryOf, refVars>>

Enter(e, t) ==
    /\ EntryGo(e, "token", "done")
    /\ Store(t, entryOf[e], t)
    /\ loggedOut' = [loggedOut EXCEPT ![entryOf[e]] = FALSE]
    /\ UNCHANGED <<accountVars, entryOf, refVars>>

\* The process stops, or MongoDB fails: an account may stay without a password.
EntryFails(e) ==
    /\ EntryGo(e, "password", "failed") \/ EntryGo(e, "token", "failed")
    /\ UNCHANGED <<accountVars, entryOf, docVars, refVars, loggedOut>>

\* TenantRepository.set_active
SetActive(n, b) ==
    /\ account[n] # "none"
    /\ enabled' = [enabled EXCEPT ![n] = b]
    /\ UNCHANGED <<account, entryVars, docVars, refVars, loggedOut>>

\* logout, with an access token: revoke_for_tenant deletes every token of the
\* tenant, which was active when the request looked it up.
Logout(n) ==
    /\ account[n] = "open"
    /\ doc' = [t \in Tokens |-> IF tenant[t] = n THEN "deleted" ELSE doc[t]]
    /\ loggedOut' = [loggedOut EXCEPT ![n] = TRUE]
    /\ UNCHANGED <<accountVars, entryVars, tenant, family, refVars>>

-----------------------------------------------------------------------------
(* POST /v1/auth/refresh                                                    *)

RefGo(r, from, to) == ref[r] = from /\ ref' = [ref EXCEPT ![r] = to]

\* The find returns the tokens that have not expired and the request's own is
\* looked for among them; without a match the request is answered with 401.
MutantMatches(t) == doc[t] \in {"stored", "expired"}
Matches(t) == doc[t] = "stored"

Match(r, t) ==
    /\ doc[t] # "fresh"
    /\ RefGo(r, "new", IF Matches(t) THEN "delete" ELSE "rejected")
    /\ refToken' = [refToken EXCEPT ![r] = t]
    /\ UNCHANGED <<accountVars, entryVars, docVars, loggedOut>>

\* delete_one, whose deleted_count is not looked at.
MutantDelete(r) ==
    /\ RefGo(r, "delete", "create")
    /\ UNCHANGED <<accountVars, entryVars, docVars, refToken, loggedOut>>

Delete(r) ==
    /\ RefGo(r, "delete", "create")
    /\ doc' = [doc EXCEPT ![refToken[r]] = "deleted"]
    /\ UNCHANGED <<accountVars, entryVars, tenant, family, refToken, loggedOut>>

MutantCreate(r, t) ==
    /\ RefGo(r, "create", "created")
    /\ Store(t, tenant[refToken[r]], t)
    /\ UNCHANGED <<accountVars, entryVars, refToken, loggedOut>>

Create(r, t) ==
    /\ RefGo(r, "create", "answer")
    /\ Store(t, tenant[refToken[r]], family[refToken[r]])
    /\ UNCHANGED <<accountVars, entryVars, refToken, loggedOut>>

\* The process stops, or MongoDB fails, before the new token is stored.
Fail(r) ==
    /\ RefGo(r, "delete", "failed") \/ RefGo(r, "create", "failed")
    /\ UNCHANGED <<accountVars, entryVars, docVars, refToken, loggedOut>>

\* The tenant is looked up: the cookies are set, or 401 for a deactivated
\* account or an error, and the new token reaches nobody.
Answer(r) ==
    /\ \/ RefGo(r, "answer", "done") /\ enabled[tenant[refToken[r]]]
       \/ RefGo(r, "answer", "failed")
    /\ UNCHANGED <<accountVars, entryVars, docVars, refToken, loggedOut>>

-----------------------------------------------------------------------------
(* Time: expires_at passes, and the TTL index purges what has expired.      *)

Expire(t) ==
    /\ doc[t] = "stored"
    /\ doc' = [doc EXCEPT ![t] = "expired"]
    /\ UNCHANGED <<accountVars, entryVars, tenant, family, refVars, loggedOut>>

Purge(t) ==
    /\ doc[t] = "expired"
    /\ doc' = [doc EXCEPT ![t] = "deleted"]
    /\ UNCHANGED <<accountVars, entryVars, tenant, family, refVars, loggedOut>>

-----------------------------------------------------------------------------
Next ==
    \/ \E e \in Entries :
         \/ \E n \in Tenants : Register(e, n) \/ LogIn(e, n)
         \/ SetPassword(e) \/ EntryFails(e)
         \/ \E t \in Tokens : Enter(e, t)
    \/ \E n \in Tenants : Logout(n) \/ \E b \in BOOLEAN : SetActive(n, b)
    \/ \E r \in Refreshes :
         \/ Delete(r) \/ Fail(r) \/ Answer(r)
         \/ \E t \in Tokens : Match(r, t) \/ Create(r, t)
    \/ \E t \in Tokens : Expire(t) \/ Purge(t)

Spec == Init /\ [][Next]_vars

-----------------------------------------------------------------------------
(* Properties.                                                              *)

\* The values the variables take.
TypeOK ==
    /\ account \in [Tenants -> {"none", "bare", "open"}]
    /\ enabled \in [Tenants -> BOOLEAN]
    /\ entry \in [Entries -> {"new", "password", "token", "done", "failed", "refused"}]
    /\ entryOf \in [Entries -> Tenants \cup {None}]
    /\ doc \in [Tokens -> {"fresh", "stored", "expired", "deleted"}]
    /\ tenant \in [Tokens -> Tenants \cup {None}]
    /\ family \in [Tokens -> Tokens \cup {None}]
    /\ ref \in [Refreshes -> {"new", "delete", "create", "answer", "done",
                              "failed", "rejected"}]
    /\ refToken \in [Refreshes -> Tokens \cup {None}]
    /\ loggedOut \in [Tenants -> BOOLEAN]

\* What keeps a family alive: its stored tokens, and the refreshes that have
\* matched one of its tokens and have not yet stored the next.
Stored(f)   == {t \in Tokens : doc[t] = "stored" /\ family[t] = f}
InFlight(f) == {r \in Refreshes : ref[r] \in {"delete", "create"} /\ family[refToken[r]] = f}

\* A refresh in "delete" still counts on the token it is about to delete.
Heirs(f) == Stored(f) \ {refToken[r] : r \in {q \in InFlight(f) : ref[q] = "delete"}}

Matched(r) == ref[r] \notin {"new", "rejected"}

\* A rotation chain has one end.  It forks only where two refreshes matched the
\* same token, both before either had deleted it; without such a pair a family
\* has one stored token or one refresh about to store it.
ForkNeedsRace ==
    \A f \in Tokens :
        \/ Cardinality(Heirs(f)) + Cardinality(InFlight(f)) <= 1
        \/ \E q, r \in Refreshes :
             /\ q # r /\ Matched(q) /\ Matched(r)
             /\ refToken[q] = refToken[r] /\ family[refToken[r]] = f

\* A family stays with the tenant that logged in, across rotations.
FamilyHasOneTenant ==
    \A t \in Tokens : doc[t] # "fresh" =>
        family[t] \in Tokens /\ tenant[t] = tenant[family[t]]

\* An account answers with tokens only when it can be logged in to: whoever has
\* registered and whatever stopped halfway, a tenant without a password has no
\* refresh token, and at most one register request has it in hand.
TokensNeedPassword ==
    \A n \in Tenants : account[n] # "open" =>
        /\ \A t \in Tokens : tenant[t] # n
        /\ Cardinality({e \in Entries : entryOf[e] = n /\ entry[e] = "password"}) <= 1
        /\ \A e \in Entries : entryOf[e] = n => entry[e] # "token"

\* Families implement login sessions: nothing revives one that has no stored
\* token and no refresh under way.
SessionOf(f) ==
    CASE family[f] # f                                  -> "none"
      [] family[f] = f /\ Stored(f) \cup InFlight(f) # {} -> "active"
      [] family[f] = f /\ Stored(f) \cup InFlight(f) = {} -> "over"

Session == INSTANCE LoginSessions WITH
               Logins  <- Tokens,
               session <- [f \in Tokens |-> SessionOf(f)]

\* Expiry, logout, failed and rejected refreshes end sessions for good.
SessionSpec == Session!Spec

-----------------------------------------------------------------------------
(* What the documentation promises and the code does not keep.              *)

\* repositories/auth_token_repo.py:18-19: on logout the token is "invalidated
\* immediately"; until the next login the tenant has no token that works.
LogoutIsFinal ==
    \A t \in Tokens : doc[t] = "stored" => ~loggedOut[tenant[t]]

=============================================================================
