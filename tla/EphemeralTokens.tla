-------------------------- MODULE EphemeralTokens --------------------------
(***************************************************************************)
(* Single-use tokens: minting and rotation by customers' backends (api/     *)
(* tokens), redemption by WebSocket handshakes (api/chat), and the Redis    *)
(* keys behind them (db/redis_client).                                      *)
(*                                                                          *)
(* Each await of a handler is a point where others interleave, so each      *)
(* Redis command is an action; the redeem script is atomic in Redis.        *)
(***************************************************************************)
CONSTANTS
    Tokens,      \* token values, drawn at random and so never drawn twice
    Projects,
    Handshakes,  \* WebSocket connections that present a token
    Rotations,   \* POST /v1/tokens/rotate requests
    None

ASSUME NoneIsNothing == None \notin Tokens \cup Projects

VARIABLES
    store,      \* each token's Redis key: "fresh" (never set), "live", "gone"
    project,    \* payload["project_id"] of each token
    mint,       \* the token each token descends from through rotations
    hs,         \* where each handshake is
    hsToken,    \* the token it presents
    rot,        \* where each rotation is
    rotToken,   \* body.current_token
    rotProject  \* the project of its secret key

tokenVars == <<store, project, mint>>
hsVars    == <<hs, hsToken>>
rotVars   == <<rot, rotToken, rotProject>>
vars == <<tokenVars, hsVars, rotVars>>

Issued(t) == store[t] # "fresh"

Init ==
    /\ store = [t \in Tokens |-> "fresh"]
    /\ project = [t \in Tokens |-> None]
    /\ mint = [t \in Tokens |-> None]
    /\ hs = [h \in Handshakes |-> "new"]
    /\ hsToken = [h \in Handshakes |-> None]
    /\ rot = [r \in Rotations |-> "new"]
    /\ rotToken = [r \in Rotations |-> None]
    /\ rotProject = [r \in Rotations |-> None]

-----------------------------------------------------------------------------
(* Redis.                                                                   *)

\* create_ephemeral_token: SET under a fresh random key.
Store(t, p, m) ==
    /\ store[t] = "fresh"
    /\ store' = [store EXCEPT ![t] = "live"]
    /\ project' = [project EXCEPT ![t] = p]
    /\ mint' = [mint EXCEPT ![t] = m]

\* redeem_ephemeral_token: GET and DEL in one script.  When its reply is lost the
\* client library (retry_on_timeout) runs it again, which finds nothing: the token
\* is gone, and the caller is told that it was not there.
MutantRedeem(t) == store[t] = "live" /\ store' = store
Redeem(t) == store[t] = "live" /\ store' = [store EXCEPT ![t] = "gone"]

\* The key's TTL runs out.
Expire(t) ==
    /\ store[t] = "live"
    /\ store' = [store EXCEPT ![t] = "gone"]
    /\ UNCHANGED <<project, mint, hsVars, rotVars>>

-----------------------------------------------------------------------------
(* POST /v1/tokens                                                          *)

Mint(t, p) ==
    /\ Store(t, p, t)
    /\ UNCHANGED <<hsVars, rotVars>>

-----------------------------------------------------------------------------
(* The WebSocket handshake (token path of _resolve_project).                *)

HsGo(h, from, to) == hs[h] = from /\ hs' = [hs EXCEPT ![h] = to]

Present(h, t) ==
    /\ Issued(t)
    /\ hsToken' = [hsToken EXCEPT ![h] = t]
    /\ \/ Redeem(t) /\ HsGo(h, "new", "checking")
       \/ Redeem(t) /\ HsGo(h, "new", "close4005")
       \/ store[t] # "live" /\ HsGo(h, "new", "close4005") /\ UNCHANGED store
    /\ UNCHANGED <<project, mint, rotVars>>

\* After the token is gone come the rate limit, the project config, the
\* tenant, the origin, the suspension and the quota, any of which may refuse
\* the client; the concurrency cap follows in get_or_create.
Admit(h) ==
    /\ HsGo(h, "checking", "admitted")
    /\ UNCHANGED <<tokenVars, hsToken, rotVars>>

Refuse(h) ==
    /\ HsGo(h, "checking", "refused")
    /\ UNCHANGED <<tokenVars, hsToken, rotVars>>

-----------------------------------------------------------------------------
(* POST /v1/tokens/rotate                                                   *)

RotGo(r, from, to) == rot[r] = from /\ rot' = [rot EXCEPT ![r] = to]

\* get_ephemeral_token_ttl
CheckTtl(r, t, p) ==
    /\ Issued(t)
    /\ rotToken' = [rotToken EXCEPT ![r] = t]
    /\ rotProject' = [rotProject EXCEPT ![r] = p]
    /\ RotGo(r, "new", IF store[t] = "live" THEN "peek" ELSE "failed")
    /\ UNCHANGED <<tokenVars, hsVars>>

\* peek_ephemeral_token, then the project check
MutantMayRotate(r) == store[rotToken[r]] = "live"
MayRotate(r) == store[rotToken[r]] = "live" /\ project[rotToken[r]] = rotProject[r]

Peek(r) ==
    /\ RotGo(r, "peek", IF MayRotate(r) THEN "redeem" ELSE "failed")
    /\ UNCHANGED <<tokenVars, hsVars, rotToken, rotProject>>

MutantConsume(r) ==
    /\ RotGo(r, "redeem", "create")
    /\ store' = [store EXCEPT ![rotToken[r]] = "gone"]
    /\ UNCHANGED <<project, mint, hsVars, rotToken, rotProject>>

Consume(r) ==
    /\ \/ RotGo(r, "redeem", "create") /\ Redeem(rotToken[r])
       \/ RotGo(r, "redeem", "failed") /\ Redeem(rotToken[r])
       \/ RotGo(r, "redeem", "failed") /\ store[rotToken[r]] # "live" /\ UNCHANGED store
    /\ UNCHANGED <<project, mint, hsVars, rotToken, rotProject>>

Replace(r, t) ==
    /\ RotGo(r, "create", "done")
    /\ Store(t, rotProject[r], mint[rotToken[r]])
    /\ UNCHANGED <<hsVars, rotToken, rotProject>>

\* The process dies, or Redis fails, between the redeem and the SET.
MutantAbort(r) ==
    /\ RotGo(r, "create", "crashed")
    /\ UNCHANGED <<tokenVars, hsVars, rotToken, rotProject>>

Abort(r) ==
    /\ RotGo(r, "create", "failed")
    /\ UNCHANGED <<tokenVars, hsVars, rotToken, rotProject>>

-----------------------------------------------------------------------------
Next ==
    \/ \E t \in Tokens : Expire(t) \/ \E p \in Projects : Mint(t, p)
    \/ \E h \in Handshakes : Admit(h) \/ Refuse(h) \/ \E t \in Tokens : Present(h, t)
    \/ \E r \in Rotations :
         \/ \E t \in Tokens, p \in Projects : CheckTtl(r, t, p)
         \/ Peek(r) \/ Consume(r) \/ Abort(r)
         \/ \E t \in Tokens : Replace(r, t)

Spec == Init /\ [][Next]_vars

-----------------------------------------------------------------------------
(* Properties.                                                              *)

\* The values the variables take.
TypeOK ==
    /\ store \in [Tokens -> {"fresh", "live", "gone"}]
    /\ project \in [Tokens -> Projects \cup {None}]
    /\ mint \in [Tokens -> Tokens \cup {None}]
    /\ hs \in [Handshakes -> {"new", "checking", "admitted", "refused", "close4005"}]
    /\ hsToken \in [Handshakes -> Tokens \cup {None}]
    /\ rot \in [Rotations -> {"new", "peek", "redeem", "create", "done", "failed"}]
    /\ rotToken \in [Rotations -> Tokens \cup {None}]
    /\ rotProject \in [Rotations -> Projects \cup {None}]

\* Who can still turn the mint m into a session, or has done so: its live
\* tokens, the handshakes that redeemed one, the rotations holding one.
LiveTokens(m) == {t \in Tokens : store[t] = "live" /\ mint[t] = m}
Admitting(m)  == {h \in Handshakes : hs[h] \in {"checking", "admitted"} /\ mint[hsToken[h]] = m}
Rotating(m)   == {r \in Rotations : rot[r] = "create" /\ mint[rotToken[r]] = m}

AtMostOne(S) == \A x, y \in S : x = y

\* Single use, across rotations: the mint has at most one claim on a session,
\* however handshakes, replays and rotations of its tokens interleave.
SingleUse ==
    \A m \in Tokens :
        /\ AtMostOne(LiveTokens(m))
        /\ AtMostOne(Admitting(m))
        /\ AtMostOne(Rotating(m))
        /\ LiveTokens(m) = {} \/ (Admitting(m) = {} /\ Rotating(m) = {})
        /\ Admitting(m) = {} \/ Rotating(m) = {}

\* "cross-project token rotation is impossible": a token belongs to the
\* project its mint was for, through any number of rotations.
SameProject == \A t \in Tokens : Issued(t) => project[t] = project[mint[t]]

\* Tokens implement tickets: the ticket of a mint is where its claim is.
TicketOf(m) ==
    CASE mint[m] # m                                   -> "none"
      [] LiveTokens(m) # {}                            -> "valid"
      [] \E h \in Admitting(m) : hs[h] = "admitted"    -> "admitted"
      [] Admitting(m) \cup Rotating(m) # {}
         /\ \A h \in Admitting(m) : hs[h] # "admitted" -> "taken"
      [] OTHER                                         -> "void"

Ticket == INSTANCE Tickets WITH
              Mints  <- Tokens,
              ticket <- [m \in Tokens |-> TicketOf(m)]

\* Every mint is a ticket that admits at most one session and that is never
\* valid again once it has admitted one or lapsed.
TicketSpec == Ticket!Spec

=============================================================================
