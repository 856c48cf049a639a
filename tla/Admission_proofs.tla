-------------------------- MODULE Admission_proofs --------------------------
(***************************************************************************)
(* Proofs about Admission, for any number of handshakes, mints, keys and   *)
(* plans and any limits: the types, the obstacles a request cannot get     *)
(* past, and the rate limit in both directions.                            *)
(***************************************************************************)
EXTENDS Admission, FiniteSetTheorems, TLAPS

-----------------------------------------------------------------------------
(* Types.                                                                   *)

EnvOK ==
    /\ revoked \subseteq Keys /\ active \in BOOLEAN /\ cached \in BOOLEAN
    /\ tenant \in {"normal", "suspended", "deleted"} /\ plan \in Plans
    /\ window \in Windows /\ day \in Days

CountsOK ==
    /\ hits \in [Buckets -> [Windows -> Nat]]
    /\ usage \in [Days -> Nat]

MintsOK ==
    /\ mint \in [Mints -> {"new", "config", "fill", "create", "done", "failed"}]
    /\ mintKey \in [Mints -> Keys \cup {None}]
    /\ token \in [Mints -> {"none", "live", "gone"}]
    /\ \A m \in Mints : token[m] # "none" => mintKey[m] \in SecretKeys

HsStates == {"new", "failed"} \cup Codes \cup Underway \cup Admitted

HsOK ==
    /\ hs \in [Handshakes -> HsStates]
    /\ cred \in [Handshakes -> Keys \cup Mints \cup {None}]
    /\ arrival \in [Handshakes -> Windows]
    /\ quota \in [Handshakes -> Nat \cup {None}]
    /\ today \in [Handshakes -> Days]
    /\ \A h \in Handshakes : hs[h] = "quota" => quota[h] \in Nat
    /\ resent \subseteq Handshakes

\* Who has presented what: a credential that is a token has been minted, a
\* minting under way or over had a secret key.
Presented ==
    /\ \A m \in Mints : mint[m] \in {"config", "fill", "create"} => mintKey[m] \in SecretKeys
    /\ \A m \in Mints : token[m] # "none" => mint[m] = "done"
    /\ \A h \in Handshakes :
         /\ hs[h] = "new" => cred[h] = None
         /\ hs[h] \in Underway \cup Admitted \cup {"4003"} => cred[h] # None
         /\ cred[h] \in Mints => token[cred[h]] # "none"
         /\ hs[h] = "limitAgain" => h \in resent

\* The parts are the type invariant.
LEMMA TypesInParts ==
    TypeOK <=> EnvOK /\ CountsOK /\ MintsOK /\ HsOK /\ DOMAIN standing = Handshakes \cup Mints
BY Zenon DEF TypeOK, EnvOK, CountsOK, MintsOK, HsOK, HsStates

\* Nobody else's handshake is touched.
Others(h) ==
    \A g \in Handshakes \ {h} :
        /\ hs'[g] = hs[g] /\ cred'[g] = cred[g] /\ arrival'[g] = arrival[g]
        /\ quota'[g] = quota[g] /\ today'[g] = today[g]
        /\ g \in resent' <=> g \in resent

\* A step of one handshake.
LEMMA StepIsOnes ==
    ASSUME HsOK, NEW h \in Handshakes, HandshakeStep(h)
    PROVE  Others(h)
BY DEF HandshakeStep, NoCredential, PresentKey, PresentToken, Count, CountUnheard, GetConfig, Fill,
       GetTenant, Enters, CheckQuota, HsFails, Close, HsGo, Incr, HsOK, Others

\* INCR counts one more.
LEMMA IncrCounts ==
    ASSUME CountsOK, HsOK, Presented, NEW h \in Handshakes, cred[h] # None, Incr(h)
    PROVE  /\ hits' \in [Buckets -> [Windows -> Nat]]
           /\ Bucket(cred[h]) \in Buckets /\ arrival[h] \in Windows
           /\ \A b \in Buckets, w \in Windows :
                hits'[b][w] = IF b = Bucket(cred[h]) /\ w = arrival[h]
                              THEN hits[b][w] + 1 ELSE hits[b][w]
<1>1. Bucket(cred[h]) \in Buckets /\ arrival[h] \in Windows
    BY DEF Bucket, Buckets, HsOK
<1>. QED
    BY <1>1 DEF Incr, Slot, CountsOK

-----------------------------------------------------------------------------
(* What the steps of a handshake do to its place.                           *)

Moves(h, to) == hs' = [hs EXCEPT ![h] = hs'[h]] /\ hs'[h] \in to

\* A lookup of the configuration that finds none refuses the handshake.
LEMMA GetConfigMoves ==
    ASSUME HsOK, NEW h \in Handshakes, GetConfig(h)
    PROVE  /\ hs[h] = "config" /\ Moves(h, {"tenant", "fill", "4002"})
           /\ ConfigFrom = "nowhere" => hs'[h] = "4002"
<1>1. ConfigFrom \in {"cache", "document", "nowhere"}
    BY DEF ConfigFrom
<1>2. hs[h] = "config" /\ hs' = [hs EXCEPT ![h] = CASE ConfigFrom = "cache"    -> "tenant"
                                                    [] ConfigFrom = "document" -> "fill"
                                                    [] ConfigFrom = "nowhere"  -> "4002"]
    BY DEF GetConfig, HsGo
<1>3. hs'[h] = CASE ConfigFrom = "cache"    -> "tenant"
                 [] ConfigFrom = "document" -> "fill"
                 [] ConfigFrom = "nowhere"  -> "4002"
    BY <1>2, Zenon DEF HsOK
<1>4. hs' = [hs EXCEPT ![h] = hs'[h]]
    BY <1>2, <1>3, Zenon
<1>5. /\ ConfigFrom = "cache" => hs'[h] = "tenant"
      /\ ConfigFrom = "document" => hs'[h] = "fill"
      /\ ConfigFrom = "nowhere" => hs'[h] = "4002"
    BY <1>3, Zenon
<1>. QED  BY <1>1, <1>2, <1>4, <1>5 DEF Moves

\* Past the tenant are only handshakes of a tenant in good standing, whose
\* quota they have read.
LEMMA GetTenantMoves ==
    ASSUME HsOK, NEW h \in Handshakes, GetTenant(h)
    PROVE  /\ hs[h] = "tenant"
           /\ \/ /\ Moves(h, {"4001", "4006", "4007"})
                 /\ UNCHANGED <<quota, today>>
              \/ /\ tenant = "normal" \/ (tenant # "deleted" /\ tenant # "suspended")
                 /\ quota' = [quota EXCEPT ![h] = Quota[plan]]
                 /\ \/ /\ Quota[plan] = None
                       /\ Moves(h, {"open", "joined", "4004"})
                       /\ today' \in {today, [today EXCEPT ![h] = day]}
                    \/ /\ Quota[plan] # None
                       /\ Moves(h, {"quota"})
                       /\ today' = [today EXCEPT ![h] = day]
BY DEF GetTenant, Enters, Suspended, Limited, HsGo, HsOK, Moves

\* Past the quota are only handshakes whose quota has something left.
LEMMA CheckQuotaMoves ==
    ASSUME HsOK, NEW h \in Handshakes, CheckQuota(h)
    PROVE  /\ hs[h] = "quota"
           /\ \/ Moves(h, {"4008"})
              \/ QuotaLeft(h) /\ Moves(h, {"open", "joined", "4004"})
           /\ today' \in {today, [today EXCEPT ![h] = day]}
BY DEF CheckQuota, Enters, HsGo, HsOK, Moves

\* The other steps.
LEMMA PlainMoves ==
    ASSUME HsOK, NEW h \in Handshakes
    PROVE  /\ NoCredential(h) => hs[h] = "new" /\ Moves(h, {"4001"})
           /\ \A k \in Keys : PresentKey(h, k) =>
                /\ hs[h] = "new" /\ Moves(h, {"limit", "4001"})
                /\ hs'[h] = "limit" => k \notin revoked
           /\ \A m \in Mints : PresentToken(h, m) => hs[h] = "new" /\ Moves(h, {"limit", "4005"})
           /\ Count(h) =>
                /\ hs[h] \in {"limit", "limitAgain"}
                /\ \/ WithinLimit(h) /\ Moves(h, {"config"})
                   \/ ~WithinLimit(h) /\ Moves(h, {"4003"})
           /\ CountUnheard(h) => hs[h] = "limit" /\ Moves(h, {"limitAgain"})
           /\ Fill(h) => hs[h] = "fill" /\ Moves(h, {"tenant"})
           /\ HsFails(h) => hs[h] \in {"new"} \cup Underway /\ Moves(h, {"failed"})
           /\ Close(h) => hs[h] = "open" /\ Moves(h, {"closed"})
BY DEF NoCredential, PresentKey, KeyFound, PresentToken, Count, CountUnheard, Fill, HsFails, Close,
       HsGo, HsOK, Moves

\* A handshake moves among the places there are.
LEMMA MovesTyped ==
    ASSUME HsOK, NEW h \in Handshakes, NEW to \in SUBSET HsStates, Moves(h, to)
    PROVE  hs' \in [Handshakes -> HsStates]
BY DEF Moves, HsOK

\* Every handshake is in a place there is, none newly at the quota.
PlacedAnew ==
    /\ hs' \in [Handshakes -> HsStates]
    /\ \A g \in Handshakes : hs'[g] = "quota" => hs[g] = "quota"

\* Handshakes keep the types of what they write.
LEMMA HandshakeTyped ==
    ASSUME EnvOK, CountsOK, MintsOK, HsOK, Presented, NEW h \in Handshakes, HandshakeStep(h)
    PROVE  EnvOK' /\ CountsOK' /\ MintsOK' /\ HsOK'
<1>1. CASE NoCredential(h) \/ HsFails(h) \/ GetConfig(h) \/ Fill(h)
    <2>1. Moves(h, {"4001", "failed", "tenant", "fill", "4002"})
        BY <1>1, PlainMoves, GetConfigMoves DEF Moves
    <2>2. PlacedAnew
        BY <2>1, MovesTyped DEF PlacedAnew, Moves, HsOK, HsStates, Codes, Underway, Checking
    <2>. QED
        BY <1>1, <2>2
           DEF PlacedAnew, NoCredential, HsFails, GetConfig, Fill, EnvOK, CountsOK, MintsOK, HsOK,
               envVars, timeVars, mintVars
<1>2. ASSUME NEW k \in Keys, PresentKey(h, k)
      PROVE  EnvOK' /\ CountsOK' /\ MintsOK' /\ HsOK'
    <2>1. PlacedAnew
        BY <1>2, PlainMoves, MovesTyped DEF PlacedAnew, Moves, HsOK, HsStates, Codes, Underway
    <2>. QED
        BY <1>2, <2>1
           DEF PlacedAnew, PresentKey, EnvOK, CountsOK, MintsOK, HsOK, envVars, timeVars, mintVars
<1>3. ASSUME NEW m \in Mints, PresentToken(h, m)
      PROVE  EnvOK' /\ CountsOK' /\ MintsOK' /\ HsOK'
    <2>1. PlacedAnew
        BY <1>3, PlainMoves, MovesTyped DEF PlacedAnew, Moves, HsOK, HsStates, Codes, Underway
    <2>2. EnvOK' /\ CountsOK' /\ HsOK'
        BY <1>3, <2>1 DEF PlacedAnew, PresentToken, EnvOK, CountsOK, HsOK, envVars, timeVars
    <2>3. MintsOK'
        BY <1>3 DEF PresentToken, MintsOK
    <2>. QED  BY <2>2, <2>3
<1>4. CASE Count(h) \/ CountUnheard(h)
    <2>1. Moves(h, {"config", "4003", "limitAgain"})
        BY <1>4, PlainMoves DEF Moves
    <2>2. PlacedAnew
        BY <2>1, MovesTyped DEF PlacedAnew, Moves, HsOK, HsStates, Codes, Underway, Checking
    <2>3. cred[h] # None
        BY <1>4, PlainMoves DEF Presented, Underway
    <2>4. hits' \in [Buckets -> [Windows -> Nat]]
        BY <1>4, <2>3, IncrCounts DEF Count, CountUnheard
    <2>5. resent' \subseteq Handshakes
        BY <1>4 DEF Count, CountUnheard, HsOK
    <2>. QED
        BY <1>4, <2>2, <2>4, <2>5
           DEF PlacedAnew, Count, CountUnheard, EnvOK, CountsOK, MintsOK, HsOK, envVars, timeVars,
               mintVars
<1>5. CASE GetTenant(h)
    <2>1. Moves(h, {"4001", "4006", "4007", "open", "joined", "4004", "quota"})
        BY <1>5, GetTenantMoves DEF Moves
    <2>2. hs' \in [Handshakes -> HsStates]
        BY <2>1, MovesTyped DEF HsStates, Codes, Underway, Checking, Admitted
    <2>3. today' \in [Handshakes -> Days] /\ quota' \in [Handshakes -> Nat \cup {None}]
        BY <1>5, GetTenantMoves, LimitsAreNumbers DEF HsOK, EnvOK
    <2>4. \A g \in Handshakes : hs'[g] = "quota" => quota'[g] \in Nat
        BY <1>5, GetTenantMoves, LimitsAreNumbers DEF Moves, HsOK, EnvOK
    <2>. QED
        BY <1>5, <2>2, <2>3, <2>4
           DEF GetTenant, EnvOK, CountsOK, MintsOK, HsOK, envVars, timeVars, mintVars
<1>6. CASE CheckQuota(h)
    <2>1. Moves(h, {"4008", "open", "joined", "4004"})
        BY <1>6, CheckQuotaMoves DEF Moves
    <2>2. PlacedAnew
        BY <2>1, MovesTyped
           DEF PlacedAnew, Moves, HsOK, HsStates, Codes, Underway, Checking, Admitted
    <2>3. today' \in [Handshakes -> Days]
        BY <1>6, CheckQuotaMoves DEF HsOK, EnvOK
    <2>. QED
        BY <1>6, <2>2, <2>3
           DEF PlacedAnew, CheckQuota, EnvOK, CountsOK, MintsOK, HsOK, envVars, timeVars, mintVars
<1>7. CASE Close(h)
    <2>1. PlacedAnew
        BY <1>7, PlainMoves, MovesTyped DEF PlacedAnew, Moves, HsOK, HsStates, Admitted
    <2>2. usage' \in [Days -> Nat]
        BY <1>7, LimitsAreNumbers DEF Close, CountsOK
    <2>. QED
        BY <1>7, <2>1, <2>2
           DEF PlacedAnew, Close, EnvOK, CountsOK, MintsOK, HsOK, envVars, timeVars, mintVars
<1>. QED
    BY <1>1, <1>2, <1>3, <1>4, <1>5, <1>6, <1>7 DEF HandshakeStep

\* What a step of a mint keeps.
MintKept ==
    /\ MintsOK'
    /\ \A n \in Mints : token[n] # "none" => token'[n] # "none"
    /\ \A n \in Mints : mint'[n] \in {"config", "fill", "create"} => mintKey'[n] \in SecretKeys
    /\ \A n \in Mints : token'[n] # "none" => mint'[n] = "done"

\* A step that moves one mint, without a token yet, along its way.
LEMMA MintMoves ==
    ASSUME MintsOK, Presented, NEW m \in Mints, token[m] = "none", token' = token,
           NEW to \in {"config", "fill", "create", "failed"}, mint' = [mint EXCEPT ![m] = to],
           \/ mintKey' = mintKey /\ (to # "failed" => mintKey[m] \in SecretKeys)
           \/ \E k \in Keys : /\ mintKey' = [mintKey EXCEPT ![m] = k]
                              /\ to # "failed" => k \in SecretKeys
    PROVE  MintKept
<1>1. MintsOK'
    BY DEF MintsOK
<1>2. \A n \in Mints : mint'[n] \in {"config", "fill", "create"} => mintKey'[n] \in SecretKeys
    BY DEF MintsOK, Presented
<1>3. \A n \in Mints : token'[n] # "none" => mint'[n] = "done"
    BY DEF MintsOK, Presented
<1>. QED  BY <1>1, <1>2, <1>3 DEF MintKept

\* So do mints.
LEMMA MintTyped ==
    ASSUME EnvOK, CountsOK, MintsOK, HsOK, Presented, NEW m \in Mints, MintStep(m)
    PROVE  EnvOK' /\ CountsOK' /\ MintsOK' /\ HsOK' /\ Presented'
<1>1. /\ UNCHANGED <<timeVars, hits, usage, hsVars, revoked, active, tenant, plan>>
      /\ cached' \in {cached, TRUE}
    BY DEF MintStep, MintWithKey, MintGetConfig, MintFill, MintCreate, MintFails, TokenExpires,
           envVars
<1>2. EnvOK' /\ CountsOK' /\ HsOK'
    BY <1>1 DEF EnvOK, CountsOK, HsOK, timeVars, hsVars
<1>3. mint[m] # "done" => token[m] = "none"
    BY DEF Presented
<1>4. ASSUME NEW k \in Keys, MintWithKey(m, k)
      PROVE  MintKept
    <2>1. PICK to : to = IF KeyFound(k) /\ k \in SecretKeys THEN "config" ELSE "failed"
        OBVIOUS
    <2>2. /\ to \in {"config", "fill", "create", "failed"} /\ (to # "failed" => k \in SecretKeys)
          /\ mint[m] = "new" /\ token' = token
          /\ mint' = [mint EXCEPT ![m] = to] /\ mintKey' = [mintKey EXCEPT ![m] = k]
        BY <1>4, <2>1 DEF MintWithKey, MintGo
    <2>. QED  BY <1>3, <2>2, MintMoves
<1>5. ASSUME MintGetConfig(m) \/ MintFill(m) \/ MintFails(m) PROVE MintKept
    <2>1. mint[m] \in {"config", "fill", "create"} /\ UNCHANGED <<mintKey, token>>
        BY <1>5 DEF MintGetConfig, MintFill, MintFails, MintGo
    <2>2. ConfigFrom \in {"cache", "document", "nowhere"}
        BY DEF ConfigFrom
    <2>3. PICK to \in {"config", "fill", "create", "failed"} : mint' = [mint EXCEPT ![m] = to]
        <3>1. CASE MintGetConfig(m)
            <4>1. mint' = [mint EXCEPT ![m] = CASE ConfigFrom = "cache"    -> "create"
                                                [] ConfigFrom = "document" -> "fill"
                                                [] ConfigFrom = "nowhere"  -> "failed"]
                BY <3>1 DEF MintGetConfig, MintGo
            <4>. QED  BY <2>2, <4>1, Zenon
        <3>. QED  BY <1>5, <3>1 DEF MintFill, MintFails, MintGo
    <2>4. mintKey[m] \in SecretKeys /\ token[m] = "none"
        BY <1>3, <2>1 DEF Presented
    <2>. QED  BY <2>1, <2>3, <2>4, MintMoves
<1>6. ASSUME MintCreate(m) PROVE MintKept
    <2>1. /\ mint[m] = "create" /\ mint' = [mint EXCEPT ![m] = "done"]
          /\ token' = [token EXCEPT ![m] = "live"] /\ mintKey' = mintKey
        BY <1>6 DEF MintCreate, MintGo
    <2>2. mintKey[m] \in SecretKeys
        BY <2>1 DEF Presented
    <2>3. MintsOK'
        BY <2>1, <2>2 DEF MintsOK
    <2>. QED  BY <2>1, <2>3 DEF MintsOK, Presented, MintKept
<1>7. ASSUME TokenExpires(m) PROVE MintKept
    <2>1. /\ token[m] = "live" /\ token' = [token EXCEPT ![m] = "gone"]
          /\ mint' = mint /\ mintKey' = mintKey
        BY <1>7 DEF TokenExpires
    <2>2. MintsOK'
        BY <2>1 DEF MintsOK
    <2>. QED  BY <2>1, <2>2 DEF MintsOK, Presented, MintKept
<1>8. MintKept
    BY <1>4, <1>5, <1>6, <1>7 DEF MintStep
<1>9. UNCHANGED <<hs, cred, resent>>
    BY <1>1 DEF hsVars
<1>10. Presented'
    BY <1>8, <1>9 DEF MintKept, Presented
<1>. QED  BY <1>2, <1>8, <1>10 DEF MintKept

\* And so do administrators and the clock.
LEMMA ChangeTyped ==
    ASSUME EnvOK, CountsOK, MintsOK, HsOK, Presented, Change
    PROVE  EnvOK' /\ CountsOK' /\ MintsOK' /\ HsOK' /\ Presented'
<1>1. UNCHANGED <<hits, usage, mintVars, hsVars>>
    BY DEF Change, RevokeKey, SetTenant, UpdatePlan, DeleteProject, Evict, Tick
<1>2. CountsOK' /\ MintsOK' /\ HsOK' /\ Presented'
    BY <1>1 DEF CountsOK, MintsOK, HsOK, Presented, mintVars, hsVars
<1>3. EnvOK'
    <2>1. CASE Tick
        <3>1. window' \in Windows
            BY <2>1, LimitsAreNumbers DEF Tick, EnvOK, Windows
        <3>2. day' \in Days
            BY <2>1 DEF Tick, EnvOK
        <3>. QED  BY <2>1, <3>1, <3>2 DEF Tick, EnvOK, envVars
    <2>2. CASE DeleteProject \/ Evict
        BY <2>2 DEF DeleteProject, Evict, EnvOK, timeVars
    <2>3. CASE \/ \E k \in Keys : RevokeKey(k)
               \/ \E s \in {"normal", "suspended", "deleted"} : SetTenant(s)
               \/ \E p \in Plans : UpdatePlan(p)
        BY <2>3 DEF RevokeKey, SetTenant, UpdatePlan, EnvOK, timeVars
    <2>. QED  BY <2>1, <2>2, <2>3 DEF Change
<1>. QED  BY <1>2, <1>3

\* A handshake shows its credential in its first step and keeps it.
LEMMA HandshakePresents ==
    ASSUME EnvOK, CountsOK, MintsOK, HsOK, Presented, NEW h \in Handshakes, HandshakeStep(h)
    PROVE  Presented'
<1>1. Others(h) /\ mint' = mint /\ mintKey' = mintKey
    BY StepIsOnes
       DEF HandshakeStep, NoCredential, PresentKey, PresentToken, Count, CountUnheard, GetConfig,
           Fill, GetTenant, CheckQuota, HsFails, Close, mintVars
<1>2. \A m \in Mints : token'[m] # "none" <=> token[m] # "none"
    BY DEF HandshakeStep, NoCredential, PresentKey, PresentToken, Count, CountUnheard, GetConfig,
           Fill, GetTenant, CheckQuota, HsFails, Close, mintVars, MintsOK
<1>3. \/ hs[h] = "new" /\ hs'[h] # "new" /\ cred'[h] \in Keys \cup Mints
         /\ hs'[h] # "limitAgain" /\ (cred'[h] \in Mints => token[cred'[h]] # "none")
      \/ hs[h] = "new" /\ hs'[h] \in {"4001", "failed"} /\ cred'[h] = cred[h]
      \/ hs[h] # "new" /\ hs'[h] # "new" /\ cred'[h] = cred[h]
         /\ (hs[h] \in Underway \cup Admitted)
         /\ (hs'[h] = "limitAgain" => h \in resent')
    <2>1. CASE NoCredential(h) \/ \E k \in Keys : PresentKey(h, k)
        BY <2>1, PlainMoves, DistinctNames DEF NoCredential, PresentKey, Moves, HsOK
    <2>2. CASE \E m \in Mints : PresentToken(h, m)
        BY <2>2, PlainMoves DEF PresentToken, Moves, HsOK
    <2>3. CASE HsFails(h)
        BY <2>3, PlainMoves DEF HsFails, Moves, Underway, Checking
    <2>4. CASE Count(h) \/ CountUnheard(h)
        BY <2>4, PlainMoves DEF Count, CountUnheard, Moves, Underway, Checking
    <2>5. CASE Fill(h) \/ Close(h) \/ GetConfig(h)
        BY <2>5, PlainMoves, GetConfigMoves
           DEF Fill, Close, GetConfig, Moves, Underway, Checking, Admitted
    <2>6. CASE GetTenant(h) \/ CheckQuota(h)
        BY <2>6, GetTenantMoves, CheckQuotaMoves
           DEF GetTenant, CheckQuota, Moves, Underway, Checking
    <2>. QED
        BY <2>1, <2>2, <2>3, <2>4, <2>5, <2>6 DEF HandshakeStep
<1>4. \A g \in Handshakes \ {h} :
         /\ hs'[g] = "new" => cred'[g] = None
         /\ hs'[g] \in Underway \cup Admitted \cup {"4003"} => cred'[g] # None
         /\ cred'[g] \in Mints => token'[cred'[g]] # "none"
         /\ hs'[g] = "limitAgain" => g \in resent'
    BY <1>1, <1>2 DEF Others, Presented
<1>5. /\ hs'[h] = "new" => cred'[h] = None
      /\ hs'[h] \in Underway \cup Admitted \cup {"4003"} => cred'[h] # None
      /\ cred'[h] \in Mints => token'[cred'[h]] # "none"
      /\ hs'[h] = "limitAgain" => h \in resent'
    BY <1>2, <1>3, DistinctNames DEF Presented, Underway, Checking, Admitted
<1>6. /\ \A m \in Mints : mint'[m] \in {"config", "fill", "create"} => mintKey'[m] \in SecretKeys
      /\ \A m \in Mints : token'[m] # "none" => mint'[m] = "done"
    BY <1>1, <1>2 DEF Presented
<1>. QED  BY <1>4, <1>5, <1>6 DEF Presented

\* Every step keeps the types, and what has been presented.
LEMMA NextTyped ==
    ASSUME TypeOK, Presented, [Next]_vars
    PROVE  TypeOK' /\ Presented'
<1>. EnvOK /\ CountsOK /\ MintsOK /\ HsOK /\ DOMAIN standing = Handshakes \cup Mints
    BY TypesInParts
<1>1. EnvOK' /\ CountsOK' /\ MintsOK' /\ HsOK' /\ Presented'
    <2>1. CASE UNCHANGED vars
        BY <2>1
           DEF vars, envVars, timeVars, mintVars, hsVars, EnvOK, CountsOK, MintsOK, HsOK, Presented
    <2>. QED
        BY <2>1, HandshakeTyped, HandshakePresents, MintTyped, ChangeTyped DEF Next
<1>2. DOMAIN standing' = Handshakes \cup Mints
    BY DEF Next, Observe, vars
<1>3. (EnvOK /\ CountsOK /\ MintsOK /\ HsOK /\ DOMAIN standing = Handshakes \cup Mints => TypeOK)'
    BY TypesInParts, PTL
<1>. QED  BY <1>1, <1>2, <1>3

-----------------------------------------------------------------------------
(* Obstacles.                                                               *)

AllObstacles == {"key", "project", "tenant", "suspended", "quota"}

\* What a request has got past so far has not stood since its first command.
HsCleared(h) ==
    /\ hs[h] \in Underway \cup Admitted => standing[h] \subseteq AllObstacles \ {"key"}
    /\ hs[h] \in {"fill", "tenant", "quota"} => "project" \notin standing[h]
    /\ hs[h] = "quota" =>
         /\ standing[h] \subseteq {"quota"}
         /\ "quota" \in standing[h] => usage[today[h]] >= quota[h]
    /\ hs[h] \in Admitted => standing[h] = {}

MintCleared(m) ==
    /\ mint[m] = "config" => standing[m] \subseteq {"project"}
    /\ mint[m] \in {"fill", "create", "done"} => standing[m] = {}

Cleared == (\A h \in Handshakes : HsCleared(h)) /\ (\A m \in Mints : MintCleared(m))

\* Recorded usage only grows.
LEMMA UsageGrows ==
    ASSUME TypeOK, [Next]_vars
    PROVE  \A d \in Days : usage[d] \in Nat /\ usage'[d] \in Nat /\ usage'[d] >= usage[d]
<1>1. usage \in [Days -> Nat] /\ \A t \in 0 .. MaxTokens : t \in Nat
    BY LimitsAreNumbers DEF TypeOK
<1>2. ASSUME NEW h \in Handshakes, Close(h)
      PROVE  \A d \in Days : usage'[d] \in Nat /\ usage'[d] >= usage[d]
    <2>1. PICK t \in 0 .. MaxTokens :
            usage' = [d \in Days |-> IF d <= today[h] THEN usage[d] + t ELSE usage[d]]
        BY <1>2 DEF Close
    <2>. QED  BY <1>1, <2>1
<1>3. (\E h \in Handshakes : Close(h)) \/ usage' = usage
    BY DEF Next, vars, HandshakeStep, NoCredential, PresentKey, PresentToken, Count, CountUnheard,
           GetConfig, Fill, GetTenant, CheckQuota, HsFails, MintStep, MintWithKey, MintGetConfig,
           MintFill, MintCreate, MintFails, TokenExpires, Change, RevokeKey, SetTenant, UpdatePlan,
           DeleteProject, Evict, Tick
<1>. QED  BY <1>1, <1>2, <1>3

\* What Observe records of a handshake that goes on.
LEMMA Observed ==
    ASSUME Observe, NEW h \in Handshakes
    PROVE  /\ Obstacles(cred[h]) \subseteq AllObstacles
           /\ Obstacles(cred'[h]) \subseteq AllObstacles
           /\ hs'[h] \in Underway \cup Admitted /\ hs[h] = "new" =>
                standing'[h] = Obstacles(cred'[h])
           /\ hs'[h] \in Underway \cup Admitted /\ hs[h] \in Underway =>
                standing'[h] = standing[h] \cap Obstacles(cred[h])
           /\ hs'[h] \in Underway \cup Admitted /\ hs[h] \in Admitted =>
                standing'[h] = standing[h]
<1>1. Obstacles(cred[h]) \subseteq AllObstacles /\ Obstacles(cred'[h]) \subseteq AllObstacles
    BY DEF Obstacles, AllObstacles
<1>2. hs'[h] \in Underway \cup Admitted => standing'[h] = StandingOf(h)
    BY DEF Observe, Admitted
<1>3. /\ hs[h] = "new" => hs[h] \notin Underway
      /\ hs[h] \in Admitted => hs[h] # "new" /\ hs[h] \notin Underway
    BY DEF Underway, Checking, Admitted
<1>4. hs[h] = "new" => StandingOf(h) = Obstacles(cred'[h])
    BY <1>3, Zenon DEF StandingOf
<1>5. hs[h] # "new" /\ hs[h] \in Underway => StandingOf(h) = standing[h] \cap Obstacles(cred[h])
    BY Zenon DEF StandingOf
<1>6. hs[h] # "new" /\ hs[h] \notin Underway => StandingOf(h) = standing[h]
    BY Zenon DEF StandingOf
<1>. QED
    BY <1>1, <1>2, <1>3, <1>4, <1>5, <1>6, Zenon

\* Which obstacles a step finds standing.
LEMMA ObstaclesNow ==
    ASSUME NEW c
    PROVE  /\ "key" \in Obstacles(c) => c \in revoked
           /\ "project" \in Obstacles(c) => ConfigFrom = "nowhere"
           /\ "tenant" \in Obstacles(c) => tenant = "deleted"
           /\ "suspended" \in Obstacles(c) => tenant = "suspended"
           /\ "quota" \in Obstacles(c) => Quota[plan] # None /\ usage[day] >= Quota[plan]
BY DEF Obstacles, Spent

\* A handshake that takes no step stays clear of what it has got past.
LEMMA RestKeepsCleared ==
    ASSUME TypeOK, Observe, NEW h \in Handshakes, HsCleared(h),
           hs'[h] = hs[h], today'[h] = today[h], quota'[h] = quota[h],
           \A d \in Days : usage[d] \in Nat /\ usage'[d] \in Nat /\ usage'[d] >= usage[d]
    PROVE  HsCleared(h)'
<1>1. hs[h] \in Underway \cup Admitted => standing'[h] \subseteq standing[h]
    BY Observed
<1>2. {"fill", "tenant", "quota"} \subseteq Underway
    BY DEF Underway, Checking
<1>3. hs[h] = "quota" /\ usage[today[h]] >= quota[h] => usage'[today'[h]] >= quota'[h]
    <2>1. today[h] \in Days /\ (hs[h] = "quota" => quota[h] \in Nat)
        BY DEF TypeOK
    <2>. QED  BY <2>1
<1>. QED  BY <1>1, <1>2, <1>3 DEF HsCleared

\* A handshake that takes a step gets past what the step looks at.
LEMMA StepClears ==
    ASSUME TypeOK, Presented, NEW h \in Handshakes, HandshakeStep(h), Observe, HsCleared(h),
           \A d \in Days : usage[d] \in Nat /\ usage'[d] \in Nat /\ usage'[d] >= usage[d]
    PROVE  HsCleared(h)'
<1>. HsOK /\ EnvOK
    BY TypesInParts
<1>1. CASE NoCredential(h) \/ HsFails(h)
    <2>1. hs'[h] \in {"4001", "failed"}
        BY <1>1, PlainMoves DEF Moves
    <2>. QED  BY <2>1 DEF HsCleared, Underway, Checking, Admitted
<1>2. ASSUME NEW k \in Keys, PresentKey(h, k)
      PROVE  HsCleared(h)'
    <2>1. /\ hs[h] = "new" /\ hs'[h] \in {"limit", "4001"} /\ cred'[h] = k
          /\ hs'[h] = "limit" => k \notin revoked
        BY <1>2, PlainMoves DEF PresentKey, Moves, HsOK
    <2>2. hs'[h] = "limit" => standing'[h] \subseteq AllObstacles \ {"key"}
        BY <2>1, Observed, ObstaclesNow DEF Underway, AllObstacles
    <2>. QED  BY <2>1, <2>2 DEF HsCleared, Underway, Checking, Admitted
<1>3. ASSUME NEW m \in Mints, PresentToken(h, m)
      PROVE  HsCleared(h)'
    <2>1. hs[h] = "new" /\ hs'[h] \in {"limit", "4005"} /\ cred'[h] = m
        BY <1>3, PlainMoves DEF PresentToken, Moves, HsOK
    <2>2. m \notin revoked
        BY DistinctNames DEF EnvOK
    <2>3. hs'[h] = "limit" => standing'[h] \subseteq AllObstacles \ {"key"}
        BY <2>1, <2>2, Observed, ObstaclesNow DEF Underway, AllObstacles
    <2>. QED  BY <2>1, <2>3 DEF HsCleared, Underway, Checking, Admitted
<1>4. CASE Count(h) \/ CountUnheard(h)
    <2>1. hs[h] \in Underway /\ hs'[h] \in {"config", "4003", "limitAgain"}
        BY <1>4, PlainMoves DEF Moves, Underway
    <2>2. hs'[h] \in Underway => standing'[h] \subseteq standing[h]
        BY <2>1, Observed
    <2>. QED  BY <2>1, <2>2 DEF HsCleared, Underway, Checking, Admitted
<1>5. CASE GetConfig(h)
    <2>1. /\ hs[h] \in Underway /\ hs'[h] \in {"tenant", "fill", "4002"}
          /\ ConfigFrom = "nowhere" => hs'[h] = "4002"
        BY <1>5, GetConfigMoves DEF Moves, Underway, Checking
    <2>2. hs'[h] \in {"tenant", "fill"} => standing'[h] \subseteq standing[h] \ {"project"}
        BY <2>1, Observed, ObstaclesNow DEF Underway, Checking
    <2>. QED  BY <2>1, <2>2 DEF HsCleared, Underway, Checking, Admitted
<1>6. CASE Fill(h)
    <2>1. hs[h] = "fill" /\ hs'[h] = "tenant"
        BY <1>6, PlainMoves DEF Moves
    <2>2. standing'[h] \subseteq standing[h]
        BY <2>1, Observed DEF Underway, Checking
    <2>. QED  BY <2>1, <2>2 DEF HsCleared, Underway, Checking, Admitted
<1>7. CASE GetTenant(h)
    <2>1. hs[h] = "tenant" /\ "project" \notin standing[h]
          /\ standing[h] \subseteq AllObstacles \ {"key"}
        BY <1>7, GetTenantMoves DEF HsCleared, Underway, Checking
    <2>2. CASE hs'[h] \in {"4001", "4006", "4007", "4004"}
        BY <2>2 DEF HsCleared, Underway, Checking, Admitted
    <2>3. CASE hs'[h] \in {"open", "joined"}
        <3>1. tenant # "deleted" /\ tenant # "suspended" /\ Quota[plan] = None
            BY <1>7, <2>3, GetTenantMoves DEF Moves
        <3>2. standing'[h] = standing[h] \cap Obstacles(cred[h])
            BY <2>1, <2>3, Observed DEF Underway, Checking, Admitted
        <3>3. \A o \in standing'[h] : o \in AllObstacles /\ o \notin AllObstacles
            BY <2>1, <3>1, <3>2, ObstaclesNow DEF AllObstacles
        <3>4. standing'[h] = {}
            BY <3>3
        <3>. QED  BY <2>3, <3>4 DEF HsCleared, Underway, Checking, Admitted
    <2>4. CASE hs'[h] = "quota"
        <3>1. /\ tenant # "deleted" /\ tenant # "suspended" /\ Quota[plan] # None
              /\ quota'[h] = Quota[plan] /\ today'[h] = day
            BY <1>7, <2>4, GetTenantMoves DEF Moves, HsOK
        <3>2. standing'[h] \subseteq {"quota"}
            <4>1. standing'[h] = standing[h] \cap Obstacles(cred[h])
                BY <2>1, <2>4, Observed DEF Underway, Checking
            <4>. QED  BY <2>1, <3>1, <4>1, ObstaclesNow DEF AllObstacles
        <3>3. "quota" \in standing'[h] => usage[day] >= Quota[plan]
            BY <2>1, <2>4, Observed, ObstaclesNow DEF Underway, Checking
        <3>4. "quota" \in standing'[h] => usage'[today'[h]] >= quota'[h]
            <4>1. day \in Days /\ Quota[plan] \in Nat
                BY <3>1, LimitsAreNumbers DEF EnvOK
            <4>. QED  BY <3>1, <3>3, <4>1
        <3>. QED  BY <2>4, <3>2, <3>4 DEF HsCleared, Underway, Checking, Admitted, AllObstacles
    <2>. QED  BY <1>7, <2>2, <2>3, <2>4, GetTenantMoves DEF Moves
<1>8. CASE CheckQuota(h)
    <2>1. /\ hs[h] = "quota" /\ standing[h] \subseteq {"quota"}
          /\ "quota" \in standing[h] => usage[today[h]] >= quota[h]
        BY <1>8, CheckQuotaMoves DEF HsCleared
    <2>2. CASE hs'[h] \in {"4008", "4004"}
        BY <2>2 DEF HsCleared, Underway, Checking, Admitted
    <2>3. CASE hs'[h] \in {"open", "joined"}
        <3>1. usage[today[h]] < quota[h]
            BY <1>8, <2>3, CheckQuotaMoves DEF Moves, QuotaLeft
        <3>2. usage[today[h]] \in Nat /\ quota[h] \in Nat
            BY <2>1 DEF HsOK
        <3>3. "quota" \notin standing[h]
            BY <2>1, <3>1, <3>2
        <3>4. standing'[h] = {}
            BY <2>1, <2>3, <3>3, Observed DEF Underway, Checking, Admitted
        <3>. QED  BY <2>3, <3>4 DEF HsCleared, Underway, Checking, Admitted
    <2>. QED  BY <1>8, <2>2, <2>3, CheckQuotaMoves DEF Moves
<1>9. CASE Close(h)
    <2>1. hs[h] = "open" /\ hs'[h] = "closed"
        BY <1>9, PlainMoves DEF Moves
    <2>2. standing'[h] = {}
        BY <2>1, Observed DEF HsCleared, Underway, Checking, Admitted
    <2>. QED  BY <2>1, <2>2 DEF HsCleared, Underway, Checking, Admitted
<1>. QED
    BY <1>1, <1>2, <1>3, <1>4, <1>5, <1>6, <1>7, <1>8, <1>9 DEF HandshakeStep

\* What Observe records of a mint that goes on.
LEMMA MintObserved ==
    ASSUME Observe, NEW m \in Mints
    PROVE  /\ mint'[m] \in {"config", "fill", "create", "done"} /\ mint[m] = "new" =>
                standing'[m] = MintObstacles(mintKey'[m])
           /\ mint'[m] \in {"config", "fill", "create", "done"}
              /\ mint[m] \in {"config", "fill", "create"} =>
                standing'[m] = standing[m] \cap MintObstacles(mintKey[m])
           /\ mint'[m] \in {"config", "fill", "create", "done"} /\ mint[m] = "done" =>
                standing'[m] = standing[m]
<1>1. mint'[m] \in {"config", "fill", "create", "done"} => standing'[m] = StandingOfMint(m)
    BY DistinctNames DEF Observe
<1>2. /\ mint[m] = "new" => StandingOfMint(m) = MintObstacles(mintKey'[m])
      /\ mint[m] # "new" /\ mint[m] \in {"config", "fill", "create"} =>
           StandingOfMint(m) = standing[m] \cap MintObstacles(mintKey[m])
      /\ mint[m] # "new" /\ mint[m] \notin {"config", "fill", "create"} =>
           StandingOfMint(m) = standing[m]
    BY Zenon DEF StandingOfMint
<1>3. /\ mint[m] \in {"config", "fill", "create"} => mint[m] # "new"
      /\ mint[m] = "done" => mint[m] # "new" /\ mint[m] \notin {"config", "fill", "create"}
    OBVIOUS
<1>. QED  BY <1>1, <1>2, <1>3

\* A mint that takes a step gets past what the step looks at; the others stay
\* clear.
LEMMA MintClears ==
    ASSUME TypeOK, Presented, [Next]_vars, Observe, NEW m \in Mints, MintCleared(m)
    PROVE  MintCleared(m)'
<1>1. CASE mint'[m] = mint[m]
    BY <1>1, MintObserved DEF MintCleared
<1>2. CASE mint'[m] # mint[m]
    <2>1. mint \in [Mints -> {"new", "config", "fill", "create", "done", "failed"}]
          /\ mintKey \in [Mints -> Keys \cup {None}]
        BY DEF TypeOK
    <2>2. \/ \E k \in Keys : MintWithKey(m, k)
          \/ MintGetConfig(m) \/ MintFill(m) \/ MintCreate(m) \/ MintFails(m)
        BY <1>2, <2>1, ZenonT(60)
           DEF Next, vars, mintVars, HandshakeStep, NoCredential, PresentKey, PresentToken, Count,
               CountUnheard, GetConfig, Fill, GetTenant, CheckQuota, HsFails, Close, MintStep,
               MintWithKey, MintGetConfig, MintFill, MintCreate, MintFails, TokenExpires, MintGo,
               Change, RevokeKey, SetTenant, UpdatePlan, DeleteProject, Evict, Tick
    <2>3. ASSUME NEW k \in Keys, MintWithKey(m, k) PROVE MintCleared(m)'
        <3>1. /\ mint[m] = "new" /\ mint'[m] \in {"config", "failed"} /\ mintKey'[m] = k
              /\ mint'[m] = "config" => k \notin revoked
            BY <2>1, <2>3 DEF MintWithKey, MintGo, KeyFound
        <3>2. mint'[m] = "config" => standing'[m] \subseteq {"project"}
            BY <3>1, MintObserved, ObstaclesNow DEF MintObstacles
        <3>. QED  BY <3>1, <3>2 DEF MintCleared
    <2>4. CASE MintGetConfig(m)
        <3>1. /\ mint[m] = "config" /\ mint'[m] \in {"create", "fill", "failed"}
              /\ ConfigFrom = "nowhere" => mint'[m] = "failed"
            <4>1. mint[m] = "config" /\ mint'[m] = CASE ConfigFrom = "cache"    -> "create"
                                                     [] ConfigFrom = "document" -> "fill"
                                                     [] ConfigFrom = "nowhere"  -> "failed"
                BY <2>1, <2>4, Zenon DEF MintGetConfig, MintGo
            <4>2. ConfigFrom \in {"cache", "document", "nowhere"}
                BY DEF ConfigFrom
            <4>. QED  BY <4>1, <4>2, Zenon
        <3>2. mint'[m] \in {"create", "fill"} => standing'[m] = {}
            BY <3>1, MintObserved, ObstaclesNow DEF MintCleared, MintObstacles
        <3>. QED  BY <3>1, <3>2 DEF MintCleared
    <2>5. CASE MintFill(m) \/ MintCreate(m) \/ MintFails(m)
        <3>1. \/ mint[m] \in {"fill", "create"} /\ mint'[m] \in {"create", "done"}
              \/ mint'[m] = "failed"
            BY <2>1, <2>5 DEF MintFill, MintCreate, MintFails, MintGo
        <3>2. mint'[m] # "failed" => standing'[m] = {}
            BY <3>1, MintObserved DEF MintCleared
        <3>. QED  BY <3>1, <3>2 DEF MintCleared
    <2>. QED  BY <2>2, <2>3, <2>4, <2>5
<1>. QED  BY <1>1, <1>2

\* Every step keeps requests clear of what they have got past.
LEMMA ClearedStep ==
    ASSUME TypeOK, Presented, Cleared, [Next]_vars
    PROVE  Cleared'
<1>. HsOK
    BY TypesInParts
<1>1. CASE UNCHANGED vars
    BY <1>1 DEF vars, hsVars, mintVars, Cleared, HsCleared, MintCleared
<1>2. CASE Next
    <2>. Observe
        BY <1>2 DEF Next
    <2>1. ASSUME NEW h \in Handshakes PROVE HsCleared(h)'
        <3>1. CASE HandshakeStep(h)
            BY <3>1, StepClears, UsageGrows DEF Cleared
        <3>2. CASE ~HandshakeStep(h)
            <4>1. hs'[h] = hs[h] /\ today'[h] = today[h] /\ quota'[h] = quota[h]
                <5>1. ASSUME NEW g \in Handshakes, HandshakeStep(g)
                      PROVE  hs'[h] = hs[h] /\ today'[h] = today[h] /\ quota'[h] = quota[h]
                    BY <3>2, <5>1, StepIsOnes DEF Others
                <5>2. ASSUME Change \/ \E m \in Mints : MintStep(m)
                      PROVE  UNCHANGED <<hs, today, quota>>
                    BY <5>2
                       DEF hsVars, MintStep, MintWithKey, MintGetConfig, MintFill, MintCreate,
                           MintFails, TokenExpires, Change, RevokeKey, SetTenant, UpdatePlan,
                           DeleteProject, Evict, Tick
                <5>. QED  BY <1>2, <5>1, <5>2 DEF Next
            <4>. QED  BY <4>1, RestKeepsCleared, UsageGrows DEF Cleared
        <3>. QED  BY <3>1, <3>2
    <2>2. \A m \in Mints : MintCleared(m)'
        BY MintClears DEF Cleared
    <2>. QED  BY <2>1, <2>2 DEF Cleared
<1>. QED  BY <1>1, <1>2

\* Types, credentials and cleared obstacles hold in every reachable state.
LEMMA ClearedHolds == Spec => [](TypeOK /\ Presented /\ Cleared)
<1>1. Init => TypeOK /\ Presented /\ Cleared
    <2>. SUFFICES ASSUME Init PROVE TypeOK /\ Presented /\ Cleared
        OBVIOUS
    <2>1. EnvOK
        BY LimitsAreNumbers DEF Init, EnvOK, Windows, Days
    <2>2. CountsOK
        BY LimitsAreNumbers DEF Init, CountsOK, Windows, Days
    <2>3. MintsOK
        BY DEF Init, MintsOK
    <2>4. HsOK
        BY LimitsAreNumbers DEF Init, HsOK, HsStates, Windows, Days
    <2>5. DOMAIN standing = Handshakes \cup Mints
        BY DEF Init
    <2>6. Presented
        BY DistinctNames DEF Init, Presented, Underway, Checking, Admitted
    <2>7. Cleared
        BY DEF Init, Cleared, HsCleared, MintCleared, Underway, Checking, Admitted
    <2>. QED  BY <2>1, <2>2, <2>3, <2>4, <2>5, <2>6, <2>7, TypesInParts
<1>2. TypeOK /\ Presented /\ Cleared /\ [Next]_vars => TypeOK' /\ Presented' /\ Cleared'
    BY NextTyped, ClearedStep
<1>. QED  BY <1>1, <1>2, PTL DEF Spec

\* The variables keep their types; requests past their lookup have presented a
\* credential.
THEOREM AdmissionTypeCorrect == Spec => []TypeOK
BY ClearedHolds, PTL

\* No handshake is admitted and no token minted against an obstacle that stood
\* from its first command to its last.
THEOREM AdmissionIsClear == Spec => []NoStandingObstacle
<1>1. Cleared => NoStandingObstacle
    BY DEF Cleared, HsCleared, MintCleared, NoStandingObstacle
<1>. QED  BY <1>1, ClearedHolds, PTL

-----------------------------------------------------------------------------
(* The rate limit.                                                          *)

\* The counter of a handshake: a bucket and a window.
At(g, b, w) == cred[g] # None /\ Bucket(cred[g]) = b /\ arrival[g] = w

PassedAt(b, w) == {g \in Handshakes : hs[g] \in Admitted \cup Checking /\ At(g, b, w)}

\* Of those, the ones that have this limit or a lower one.
UnderAt(b, w, l) == {g \in PassedAt(b, w) : Limit(cred[g]) <= l}

\* Handshakes that have got as far as the counter, and those among them that a
\* lost reply may have made it count twice.
ReachedAt(b, w) == {g \in Handshakes : hs[g] \notin {"limit", "4005"} /\ At(g, b, w)}
TwiceAt(b, w)   == {g \in ReachedAt(b, w) : g \in resent /\ hs[g] # "limitAgain"}

\* A counter is no lower than the number of those it let pass, and no higher
\* than what got as far as it explains; nobody is refused below the limit.
CountedAt(b, w) ==
    /\ Cardinality(PassedAt(b, w)) <= hits[b][w]
    /\ hits[b][w] <= Cardinality(ReachedAt(b, w)) + Cardinality(TwiceAt(b, w))
    /\ \A k \in Keys : Cardinality(UnderAt(b, w, Rpm[k])) <= Rpm[k]

Refused == \A h \in Handshakes :
    hs[h] = "4003" => hits[Bucket(cred[h])][arrival[h]] > Limit(cred[h])

CounterInv == Refused /\ \A b \in Buckets, w \in Windows : CountedAt(b, w)

\* Sets of handshakes have sizes; one more handshake is one more.
LEMMA Sizes ==
    ASSUME NEW S \in SUBSET Handshakes, NEW T \in SUBSET Handshakes
    PROVE  /\ Cardinality(S) \in Nat /\ Cardinality(T) \in Nat
           /\ S \subseteq T => Cardinality(S) <= Cardinality(T)
           /\ \A h \in Handshakes : T \subseteq S \cup {h} => Cardinality(T) <= Cardinality(S) + 1
           /\ \A h \in Handshakes : h \notin S /\ S \cup {h} \subseteq T =>
                Cardinality(S) + 1 <= Cardinality(T)
<1>1. IsFiniteSet(S) /\ IsFiniteSet(T)
    BY FiniteRequests, FS_Subset
<1>2. Cardinality(S) \in Nat /\ Cardinality(T) \in Nat
    BY <1>1, FS_CardinalityType
<1>3. S \subseteq T => Cardinality(S) <= Cardinality(T)
    BY <1>1, FS_Subset
<1>4. ASSUME NEW h \in Handshakes
      PROVE  /\ IsFiniteSet(S \cup {h})
             /\ Cardinality(S \cup {h}) \in Nat
             /\ Cardinality(S \cup {h}) <= Cardinality(S) + 1
             /\ h \notin S => Cardinality(S \cup {h}) = Cardinality(S) + 1
    <2>1. CASE h \in S
        <3>1. S \cup {h} = S
            BY <2>1
        <3>. QED  BY <1>1, <1>2, <2>1, <3>1
    <2>2. CASE h \notin S
        BY <1>1, <1>2, <2>2, FS_AddElement
    <2>. QED  BY <2>1, <2>2
<1>5. ASSUME NEW h \in Handshakes, T \subseteq S \cup {h}
      PROVE  Cardinality(T) <= Cardinality(S) + 1
    <2>1. Cardinality(T) <= Cardinality(S \cup {h})
        BY <1>4, <1>5, FS_Subset
    <2>. QED  BY <1>2, <1>4, <2>1
<1>6. ASSUME NEW h \in Handshakes, h \notin S, S \cup {h} \subseteq T
      PROVE  Cardinality(S) + 1 <= Cardinality(T)
    <2>1. Cardinality(S \cup {h}) <= Cardinality(T)
        BY <1>1, <1>6, FS_Subset
    <2>. QED  BY <1>4, <1>6, <2>1
<1>. QED  BY <1>2, <1>3, <1>5, <1>6

\* The limit of whoever has a credential is that of one of the keys.
LEMMA LimitIsAKeys ==
    ASSUME MintsOK, HsOK, Presented, NEW h \in Handshakes, cred[h] # None
    PROVE  /\ Bucket(cred[h]) \in Buckets /\ arrival[h] \in Windows
           /\ Limit(cred[h]) \in Nat /\ \E k \in Keys : Limit(cred[h]) = Rpm[k]
<1>1. CASE cred[h] \in Keys
    BY <1>1, LimitsAreNumbers DEF Bucket, Buckets, Limit, HsOK
<1>2. CASE cred[h] \in Mints
    <2>1. mintKey[cred[h]] \in Keys
        BY <1>2, LimitsAreNumbers DEF MintsOK, Presented
    <2>2. cred[h] \notin Keys
        BY <1>2, DistinctNames
    <2>. QED  BY <2>1, <2>2, LimitsAreNumbers DEF Bucket, Buckets, Limit, HsOK
<1>. QED  BY <1>1, <1>2 DEF HsOK

\* A credential once presented, its counter and its limit stay.
LEMMA CredentialStays ==
    ASSUME EnvOK, CountsOK, MintsOK, HsOK, Presented, Next, NEW g \in Handshakes, cred[g] # None
    PROVE  cred'[g] = cred[g] /\ arrival'[g] = arrival[g] /\ Limit(cred[g])' = Limit(cred[g])
<1>1. hs[g] # "new"
    BY DEF Presented
<1>2. cred'[g] = cred[g] /\ arrival'[g] = arrival[g]
    <2>1. ASSUME NEW h \in Handshakes, HandshakeStep(h)
          PROVE  cred'[g] = cred[g] /\ arrival'[g] = arrival[g]
        BY <1>1, <2>1
           DEF HandshakeStep, NoCredential, PresentKey, PresentToken, Count, CountUnheard, HsGo,
               GetConfig, Fill, GetTenant, CheckQuota, HsFails, Close, HsOK
    <2>2. ASSUME Change \/ \E m \in Mints : MintStep(m)
          PROVE  UNCHANGED <<cred, arrival>>
        BY <2>2
           DEF hsVars, MintStep, MintWithKey, MintGetConfig, MintFill, MintCreate, MintFails,
               TokenExpires, Change, RevokeKey, SetTenant, UpdatePlan, DeleteProject, Evict, Tick
    <2>. QED  BY <2>1, <2>2 DEF Next
<1>3. cred[g] \in Mints => mintKey'[cred[g]] = mintKey[cred[g]]
    <2>. SUFFICES ASSUME cred[g] \in Mints PROVE mintKey'[cred[g]] = mintKey[cred[g]]
        OBVIOUS
    <2>1. mint[cred[g]] = "done"
        BY DEF Presented
    <2>2. ASSUME NEW m \in Mints, NEW k \in Keys, MintWithKey(m, k)
          PROVE  mintKey'[cred[g]] = mintKey[cred[g]]
        BY <2>1, <2>2 DEF MintWithKey, MintGo, MintsOK
    <2>3. (\E m \in Mints, k \in Keys : MintWithKey(m, k)) \/ mintKey' = mintKey
        BY DEF Next, mintVars, HandshakeStep, NoCredential, PresentKey, PresentToken, Count,
               CountUnheard, GetConfig, Fill, GetTenant, CheckQuota, HsFails, Close, MintStep,
               MintGetConfig, MintFill, MintCreate, MintFails, TokenExpires, Change, RevokeKey,
               SetTenant, UpdatePlan, DeleteProject, Evict, Tick
    <2>. QED  BY <2>2, <2>3
<1>4. cred[g] \in Keys \cup Mints
    BY DEF HsOK
<1>. QED  BY <1>2, <1>3, <1>4 DEF Limit

\* Handshakes that have presented a credential keep their counter; the rest
\* come before it, or have none.
LEMMA AtStays ==
    ASSUME EnvOK, CountsOK, MintsOK, HsOK, Presented, Next, NEW g \in Handshakes, NEW b, NEW w
    PROVE  /\ At(g, b, w) => At(g, b, w)'
           /\ At(g, b, w)' /\ ~At(g, b, w) => cred[g] = None
BY CredentialStays DEF At, Bucket

\* What a step that does not count does to the standing of a handshake before
\* its counter.
LEMMA UncountedMoves ==
    ASSUME EnvOK, CountsOK, MintsOK, HsOK, Presented, Next, NEW g \in Handshakes,
           ~Count(g), ~CountUnheard(g)
    PROVE  /\ hs'[g] \in Admitted \cup Checking => hs[g] \in Admitted \cup Checking
           /\ hs'[g] = "4003" => hs[g] = "4003"
           /\ hs'[g] \in {"limit", "4005"} => hs[g] \in {"limit", "4005", "new"}
           /\ hs'[g] = "limitAgain" => hs[g] = "limitAgain"
           /\ g \in resent' <=> g \in resent
<1>1. CASE HandshakeStep(g)
    <2>1. CASE NoCredential(g) \/ (\E k \in Keys : PresentKey(g, k))
               \/ (\E m \in Mints : PresentToken(g, m)) \/ HsFails(g)
        <3>1. resent' = resent
            BY <2>1 DEF NoCredential, PresentKey, PresentToken, HsFails
        <3>2. /\ hs'[g] \in {"4001", "limit", "4005", "failed"}
              /\ hs'[g] \in {"limit", "4005"} => hs[g] = "new"
            BY <2>1, PlainMoves DEF Moves
        <3>. QED  BY <3>1, <3>2 DEF Admitted, Checking
    <2>2. CASE GetConfig(g) \/ Fill(g) \/ GetTenant(g) \/ CheckQuota(g) \/ Close(g)
        <3>1. resent' = resent
            BY <2>2 DEF GetConfig, Fill, GetTenant, CheckQuota, Close
        <3>2. hs[g] \in Admitted \cup Checking
            BY <2>2, GetConfigMoves, GetTenantMoves, CheckQuotaMoves, PlainMoves
               DEF Admitted, Checking
        <3>3. hs'[g] \in Admitted \cup {"4001", "4002", "4004", "4006", "4007", "4008",
                                       "tenant", "fill", "quota"}
            <4>1. CASE GetConfig(g)
                BY <4>1, GetConfigMoves DEF Moves
            <4>2. CASE GetTenant(g)
                BY <4>2, GetTenantMoves DEF Moves, Admitted
            <4>3. CASE CheckQuota(g)
                BY <4>3, CheckQuotaMoves DEF Moves, Admitted
            <4>. QED  BY <2>2, <4>1, <4>2, <4>3, PlainMoves DEF Moves, Admitted
        <3>. QED  BY <3>1, <3>2, <3>3 DEF Admitted
    <2>. QED  BY <1>1, <2>1, <2>2 DEF HandshakeStep
<1>2. CASE ~HandshakeStep(g)
    <2>1. hs'[g] = hs[g] /\ (g \in resent' <=> g \in resent)
        <3>1. ASSUME NEW h \in Handshakes, HandshakeStep(h)
              PROVE  hs'[g] = hs[g] /\ (g \in resent' <=> g \in resent)
            BY <1>2, <3>1, StepIsOnes DEF Others
        <3>2. ASSUME Change \/ \E m \in Mints : MintStep(m)
              PROVE  UNCHANGED <<hs, resent>>
            BY <3>2
               DEF hsVars, MintStep, MintWithKey, MintGetConfig, MintFill, MintCreate, MintFails,
                   TokenExpires, Change, RevokeKey, SetTenant, UpdatePlan, DeleteProject, Evict, Tick
        <3>. QED  BY <3>1, <3>2 DEF Next
    <2>. QED  BY <2>1
<1>. QED  BY <1>1, <1>2

\* The five sets of a counter are sets of handshakes, after a step as before it.
LEMMA Groups ==
    ASSUME NEW b, NEW w, NEW k
    PROVE  /\ PassedAt(b, w) \in SUBSET Handshakes /\ PassedAt(b, w)' \in SUBSET Handshakes
           /\ ReachedAt(b, w) \in SUBSET Handshakes /\ ReachedAt(b, w)' \in SUBSET Handshakes
           /\ TwiceAt(b, w) \in SUBSET Handshakes /\ TwiceAt(b, w)' \in SUBSET Handshakes
           /\ UnderAt(b, w, Rpm[k]) \in SUBSET Handshakes
           /\ UnderAt(b, w, Rpm[k])' \in SUBSET Handshakes
           /\ UnderAt(b, w, Rpm[k])' \subseteq PassedAt(b, w)'
BY DEF PassedAt, ReachedAt, TwiceAt, UnderAt

\* A counter that does not count stays explained when nobody else gets past it
\* and nobody who reached it is forgotten.
LEMMA StaysCounted ==
    ASSUME CountsOK, NEW b \in Buckets, NEW w \in Windows, CountedAt(b, w),
           hits'[b][w] = hits[b][w],
           PassedAt(b, w)' \subseteq PassedAt(b, w),
           ReachedAt(b, w) \subseteq ReachedAt(b, w)',
           TwiceAt(b, w) \subseteq TwiceAt(b, w)',
           \A k \in Keys : UnderAt(b, w, Rpm[k])' \subseteq UnderAt(b, w, Rpm[k])
    PROVE  CountedAt(b, w)'
<1>1. hits[b][w] \in Nat /\ \A k \in Keys : Rpm[k] \in Nat
    BY LimitsAreNumbers DEF CountsOK
<1>2. Cardinality(PassedAt(b, w)') <= hits[b][w]
    <2>1. /\ Cardinality(PassedAt(b, w)) \in Nat /\ Cardinality(PassedAt(b, w)') \in Nat
          /\ Cardinality(PassedAt(b, w)') <= Cardinality(PassedAt(b, w))
        BY Groups, Sizes
    <2>. QED  BY <1>1, <2>1 DEF CountedAt
<1>3. hits[b][w] <= Cardinality(ReachedAt(b, w)') + Cardinality(TwiceAt(b, w)')
    <2>1. /\ Cardinality(ReachedAt(b, w)) \in Nat /\ Cardinality(ReachedAt(b, w)') \in Nat
          /\ Cardinality(ReachedAt(b, w)) <= Cardinality(ReachedAt(b, w)')
        BY Groups, Sizes
    <2>2. /\ Cardinality(TwiceAt(b, w)) \in Nat /\ Cardinality(TwiceAt(b, w)') \in Nat
          /\ Cardinality(TwiceAt(b, w)) <= Cardinality(TwiceAt(b, w)')
        BY Groups, Sizes
    <2>. QED  BY <1>1, <2>1, <2>2 DEF CountedAt
<1>4. ASSUME NEW k \in Keys PROVE Cardinality(UnderAt(b, w, Rpm[k])') <= Rpm[k]
    <2>1. /\ Cardinality(UnderAt(b, w, Rpm[k])) \in Nat
          /\ Cardinality(UnderAt(b, w, Rpm[k])') \in Nat
          /\ Cardinality(UnderAt(b, w, Rpm[k])') <= Cardinality(UnderAt(b, w, Rpm[k]))
        BY Groups, Sizes
    <2>. QED  BY <1>1, <2>1 DEF CountedAt
<1>. QED  BY <1>2, <1>3, <1>4 DEF CountedAt

\* A step that counts nothing keeps the counters explained.
LEMMA UncountedKeeps ==
    ASSUME EnvOK, CountsOK, MintsOK, HsOK, Presented, Next, CounterInv, hits' = hits,
           \A h \in Handshakes : ~Count(h) /\ ~CountUnheard(h)
    PROVE  CounterInv'
<1>1. Checking \subseteq Underway
    BY DEF Underway
<1>2. Refused'
    <2>. SUFFICES ASSUME NEW g \in Handshakes, hs'[g] = "4003"
                  PROVE  hits'[Bucket(cred'[g])][arrival'[g]] > Limit(cred[g])'
        BY DEF Refused, Bucket
    <2>1. hs[g] = "4003" /\ cred[g] # None
        BY UncountedMoves DEF Presented
    <2>. QED  BY <2>1, CredentialStays DEF CounterInv, Refused, Bucket
<1>3. ASSUME NEW b \in Buckets, NEW w \in Windows PROVE CountedAt(b, w)'
    <2>1. ASSUME NEW g \in Handshakes, g \in PassedAt(b, w)'
          PROVE  g \in PassedAt(b, w) /\ Limit(cred[g])' = Limit(cred[g])
        <3>1. hs[g] \in Admitted \cup Checking /\ At(g, b, w)'
            BY <2>1, UncountedMoves DEF PassedAt, Admitted, Checking
        <3>2. cred[g] # None
            BY <1>1, <3>1 DEF Presented
        <3>. QED  BY <3>1, <3>2, AtStays, CredentialStays DEF PassedAt
    <2>2. PassedAt(b, w)' \subseteq PassedAt(b, w)
        BY <2>1, Groups
    <2>3. ASSUME NEW k \in Keys PROVE UnderAt(b, w, Rpm[k])' \subseteq UnderAt(b, w, Rpm[k])
        BY <2>1, Groups DEF UnderAt
    <2>4. ASSUME NEW g \in Handshakes, g \in ReachedAt(b, w) PROVE g \in ReachedAt(b, w)'
        <3>1. hs[g] # "new" /\ hs[g] \notin {"limit", "4005"} /\ At(g, b, w)
            BY <2>4 DEF ReachedAt, At, Presented
        <3>. QED  BY <3>1, UncountedMoves, AtStays DEF ReachedAt
    <2>5. ASSUME NEW g \in Handshakes, g \in TwiceAt(b, w) PROVE g \in TwiceAt(b, w)'
        BY <2>4, <2>5, UncountedMoves DEF TwiceAt
    <2>6. ReachedAt(b, w) \subseteq ReachedAt(b, w)' /\ TwiceAt(b, w) \subseteq TwiceAt(b, w)'
        BY <2>4, <2>5, Groups
    <2>. QED  BY <2>2, <2>3, <2>6, StaysCounted DEF CounterInv
<1>. QED  BY <1>2, <1>3 DEF CounterInv

\* What a step that counts does to the handshake it counts.
LEMMA CountedMoves ==
    ASSUME EnvOK, CountsOK, MintsOK, HsOK, Presented, NEW h \in Handshakes,
           Count(h) \/ CountUnheard(h)
    PROVE  /\ HandshakeStep(h) /\ Others(h)
           /\ cred[h] # None /\ cred'[h] = cred[h] /\ arrival'[h] = arrival[h]
           /\ UNCHANGED <<mintKey, cred, arrival>>
           /\ \/ hs[h] = "limit"
              \/ hs[h] = "limitAgain" /\ h \in resent /\ resent' = resent
           /\ \/ hs'[h] = "config" /\ WithinLimit(h)
              \/ hs'[h] = "4003" /\ ~WithinLimit(h)
              \/ hs'[h] = "limitAgain" /\ h \in resent' /\ hs[h] = "limit"
           /\ \A b \in Buckets, w \in Windows :
                hits'[b][w] = IF b = Bucket(cred[h]) /\ w = arrival[h]
                              THEN hits[b][w] + 1 ELSE hits[b][w]
<1>1. HandshakeStep(h) /\ Others(h)
    BY StepIsOnes DEF HandshakeStep
<1>2. /\ UNCHANGED <<mintKey, cred, arrival>> /\ Incr(h)
    BY DEF Count, CountUnheard, mintVars
<1>3. CASE Count(h)
    <2>1. /\ hs[h] \in {"limit", "limitAgain"} /\ resent' = resent
          /\ \/ hs'[h] = "config" /\ WithinLimit(h)
             \/ hs'[h] = "4003" /\ ~WithinLimit(h)
        BY <1>3, PlainMoves DEF Count, Moves
    <2>2. cred[h] # None /\ (hs[h] = "limitAgain" => h \in resent)
        BY <2>1 DEF Presented, Underway
    <2>. QED  BY <1>1, <1>2, <2>1, <2>2, IncrCounts
<1>4. CASE CountUnheard(h)
    <2>1. hs[h] = "limit" /\ hs'[h] = "limitAgain" /\ h \in resent'
        BY <1>4, PlainMoves DEF CountUnheard, Moves
    <2>2. cred[h] # None
        BY <2>1 DEF Presented, Underway
    <2>. QED  BY <1>1, <1>2, <2>1, <2>2, IncrCounts
<1>. QED  BY <1>3, <1>4

\* A step that counts keeps the counters explained: who gets past the counter
\* is one, and was within the limit.
LEMMA CountedKeeps ==
    ASSUME EnvOK, CountsOK, MintsOK, HsOK, Presented, Next, CounterInv,
           NEW h \in Handshakes, Count(h) \/ CountUnheard(h)
    PROVE  CounterInv'
<1>. DEFINE b0 == Bucket(cred[h])
            w0 == arrival[h]
<1>1. /\ Others(h) /\ cred[h] # None /\ UNCHANGED <<mintKey, cred, arrival>>
      /\ hs[h] = "limit" \/ (hs[h] = "limitAgain" /\ h \in resent /\ resent' = resent)
      /\ \/ hs'[h] = "config" /\ WithinLimit(h)
         \/ hs'[h] = "4003" /\ ~WithinLimit(h)
         \/ hs'[h] = "limitAgain" /\ h \in resent' /\ hs[h] = "limit"
    BY CountedMoves
<1>2. \A b \in Buckets, w \in Windows :
        /\ b = b0 /\ w = w0 => hits'[b][w] = hits[b][w] + 1
        /\ b # b0 \/ w # w0 => hits'[b][w] = hits[b][w]
        /\ hits[b][w] \in Nat
    BY CountedMoves DEF CountsOK
<1>3. b0 \in Buckets /\ w0 \in Windows /\ Limit(cred[h]) \in Nat
    BY <1>1, LimitIsAKeys
<1>4. /\ WithinLimit(h) <=> hits[b0][w0] + 1 <= Limit(cred[h])
      /\ \A g \in Handshakes : Limit(cred[g])' = Limit(cred[g])
      /\ \A g \in Handshakes : \A b, w : At(g, b, w)' <=> At(g, b, w)
    BY <1>1 DEF WithinLimit, Slot, Limit, At, Bucket
<1>5. Refused'
    <2>. SUFFICES ASSUME NEW g \in Handshakes, hs'[g] = "4003"
                  PROVE  hits'[Bucket(cred[g])][arrival[g]] > Limit(cred[g])
        BY <1>1, <1>4 DEF Refused, Bucket
    <2>1. CASE g = h
        <3>1. hits[b0][w0] \in Nat /\ ~(hits[b0][w0] + 1 <= Limit(cred[h]))
              /\ hits'[b0][w0] = hits[b0][w0] + 1
            BY <1>1, <1>2, <1>3, <1>4, <2>1
        <3>. QED  BY <1>3, <2>1, <3>1
    <2>2. CASE g # h
        <3>1. hs[g] = "4003" /\ cred[g] # None
            BY <1>1, <2>2 DEF Others, Presented
        <3>2. /\ Bucket(cred[g]) \in Buckets /\ arrival[g] \in Windows /\ Limit(cred[g]) \in Nat
              /\ hits[Bucket(cred[g])][arrival[g]] > Limit(cred[g])
            BY <3>1, LimitIsAKeys DEF CounterInv, Refused
        <3>3. PICK b \in Buckets, w \in Windows : b = Bucket(cred[g]) /\ w = arrival[g]
            BY <3>2
        <3>4. hits[b][w] \in Nat /\ hits'[b][w] \in {hits[b][w], hits[b][w] + 1}
            BY <1>2
        <3>. QED  BY <3>2, <3>3, <3>4
    <2>. QED  BY <2>1, <2>2
<1>6. ASSUME NEW b \in Buckets, NEW w \in Windows PROVE CountedAt(b, w)'
    <2>1. ASSUME NEW g \in Handshakes \ {h}
          PROVE  /\ g \in PassedAt(b, w)' <=> g \in PassedAt(b, w)
                 /\ \A k \in Keys : g \in UnderAt(b, w, Rpm[k])' <=> g \in UnderAt(b, w, Rpm[k])
                 /\ g \in ReachedAt(b, w)' <=> g \in ReachedAt(b, w)
                 /\ g \in TwiceAt(b, w)' <=> g \in TwiceAt(b, w)
        <3>1. hs'[g] = hs[g] /\ (g \in resent' <=> g \in resent)
            BY <1>1 DEF Others
        <3>. QED  BY <1>4, <3>1 DEF PassedAt, UnderAt, ReachedAt, TwiceAt
    <2>2. CASE b # b0 \/ w # w0
        <3>1. ~At(h, b, w) /\ ~At(h, b, w)'
            BY <1>4, <2>2 DEF At
        <3>2. /\ h \notin PassedAt(b, w) /\ h \notin PassedAt(b, w)'
              /\ \A k \in Keys : h \notin UnderAt(b, w, Rpm[k]) /\ h \notin UnderAt(b, w, Rpm[k])'
              /\ h \notin ReachedAt(b, w) /\ h \notin TwiceAt(b, w)
            BY <3>1 DEF PassedAt, UnderAt, ReachedAt, TwiceAt
        <3>3. /\ PassedAt(b, w)' \subseteq PassedAt(b, w)
              /\ ReachedAt(b, w) \subseteq ReachedAt(b, w)'
              /\ TwiceAt(b, w) \subseteq TwiceAt(b, w)'
              /\ \A k \in Keys : UnderAt(b, w, Rpm[k])' \subseteq UnderAt(b, w, Rpm[k])
            BY <2>1, <3>2, Groups
        <3>. QED  BY <1>2, <2>2, <3>3, StaysCounted DEF CounterInv
    <2>3. CASE b = b0 /\ w = w0
        <3>1. At(h, b, w) /\ At(h, b, w)'
            BY <1>1, <1>4, <2>3 DEF At
        <3>2. /\ hits'[b][w] = hits[b][w] + 1 /\ hits[b][w] \in Nat
              /\ \A k \in Keys : Rpm[k] \in Nat
            BY <1>2, <2>3, LimitsAreNumbers
        <3>3. CountedAt(b, w)
            BY DEF CounterInv
        <3>4. Cardinality(PassedAt(b, w)') <= hits'[b][w]
            <4>1. PassedAt(b, w)' \subseteq PassedAt(b, w) \cup {h}
                BY <2>1, Groups
            <4>2. /\ Cardinality(PassedAt(b, w)) \in Nat /\ Cardinality(PassedAt(b, w)') \in Nat
                  /\ Cardinality(PassedAt(b, w)') <= Cardinality(PassedAt(b, w)) + 1
                BY <4>1, Groups, Sizes
            <4>. QED  BY <3>2, <3>3, <4>2 DEF CountedAt
        <3>5. hits'[b][w] <= Cardinality(ReachedAt(b, w)') + Cardinality(TwiceAt(b, w)')
            <4>1. h \in ReachedAt(b, w)' /\ ReachedAt(b, w) \subseteq ReachedAt(b, w)'
                BY <1>1, <2>1, <3>1, Groups DEF ReachedAt
            <4>2. TwiceAt(b, w) \subseteq TwiceAt(b, w)' /\ h \notin TwiceAt(b, w)
                BY <1>1, <2>1, <3>1, Groups DEF TwiceAt, ReachedAt
            <4>3. /\ Cardinality(ReachedAt(b, w)) \in Nat /\ Cardinality(ReachedAt(b, w)') \in Nat
                  /\ Cardinality(ReachedAt(b, w)) <= Cardinality(ReachedAt(b, w)')
                BY <4>1, Groups, Sizes
            <4>4. /\ Cardinality(TwiceAt(b, w)) \in Nat /\ Cardinality(TwiceAt(b, w)') \in Nat
                  /\ Cardinality(TwiceAt(b, w)) <= Cardinality(TwiceAt(b, w)')
                BY <4>2, Groups, Sizes
            <4>5. CASE hs[h] = "limit"
                <5>1. h \notin ReachedAt(b, w)
                    BY <4>5 DEF ReachedAt
                <5>2. Cardinality(ReachedAt(b, w)) + 1 <= Cardinality(ReachedAt(b, w)')
                    BY <4>1, <5>1, Groups, Sizes
                <5>. QED  BY <3>2, <3>3, <4>3, <4>4, <5>2 DEF CountedAt
            <4>6. CASE hs[h] = "limitAgain" /\ h \in resent /\ resent' = resent
                <5>1. h \in TwiceAt(b, w)'
                    BY <1>1, <4>1, <4>6 DEF TwiceAt
                <5>2. Cardinality(TwiceAt(b, w)) + 1 <= Cardinality(TwiceAt(b, w)')
                    BY <4>2, <5>1, Groups, Sizes
                <5>. QED  BY <3>2, <3>3, <4>3, <4>4, <5>2 DEF CountedAt
            <4>. QED  BY <1>1, <4>5, <4>6
        <3>6. ASSUME NEW k \in Keys PROVE Cardinality(UnderAt(b, w, Rpm[k])') <= Rpm[k]
            <4>1. /\ Cardinality(UnderAt(b, w, Rpm[k])) \in Nat
                  /\ Cardinality(UnderAt(b, w, Rpm[k])') \in Nat
                  /\ Cardinality(UnderAt(b, w, Rpm[k])) <= Rpm[k]
                BY <3>3, Groups, Sizes DEF CountedAt
            <4>2. CASE h \in UnderAt(b, w, Rpm[k])'
                <5>1. WithinLimit(h) /\ Limit(cred[h]) <= Rpm[k]
                    BY <1>1, <1>4, <4>2 DEF UnderAt, PassedAt, Admitted, Checking
                <5>2. /\ Cardinality(PassedAt(b, w)') \in Nat
                      /\ Cardinality(UnderAt(b, w, Rpm[k])') <= Cardinality(PassedAt(b, w)')
                    BY Groups, Sizes
                <5>3. hits'[b][w] <= Limit(cred[h])
                    BY <1>4, <2>3, <3>2, <5>1
                <5>. QED  BY <1>3, <3>2, <3>4, <4>1, <5>1, <5>2, <5>3
            <4>3. CASE h \notin UnderAt(b, w, Rpm[k])'
                <5>1. UnderAt(b, w, Rpm[k])' \subseteq UnderAt(b, w, Rpm[k])
                    BY <2>1, <4>3, Groups
                <5>2. Cardinality(UnderAt(b, w, Rpm[k])') <= Cardinality(UnderAt(b, w, Rpm[k]))
                    BY <5>1, Groups, Sizes
                <5>. QED  BY <3>2, <4>1, <5>2
            <4>. QED  BY <4>2, <4>3
        <3>. QED  BY <3>4, <3>5, <3>6 DEF CountedAt
    <2>. QED  BY <2>2, <2>3
<1>. QED  BY <1>5, <1>6 DEF CounterInv

\* Every step keeps the counters explained.
LEMMA CounterStep ==
    ASSUME TypeOK, Presented, CounterInv, [Next]_vars
    PROVE  CounterInv'
<1>. EnvOK /\ CountsOK /\ MintsOK /\ HsOK
    BY TypesInParts
<1>1. CASE UNCHANGED vars
    <2>1. UNCHANGED <<hs, cred, arrival, resent, mintKey, hits>>
        BY <1>1 DEF vars, mintVars, hsVars
    <2>2. Refused'
        BY <2>1 DEF CounterInv, Refused, Limit, Bucket
    <2>3. ASSUME NEW b \in Buckets, NEW w \in Windows PROVE CountedAt(b, w)'
        <3>1. /\ PassedAt(b, w)' = PassedAt(b, w) /\ ReachedAt(b, w)' = ReachedAt(b, w)
              /\ TwiceAt(b, w)' = TwiceAt(b, w)
              /\ \A k \in Keys : UnderAt(b, w, Rpm[k])' = UnderAt(b, w, Rpm[k])
            BY <2>1 DEF PassedAt, UnderAt, ReachedAt, TwiceAt, At, Limit, Bucket
        <3>. QED  BY <2>1, <3>1, StaysCounted DEF CounterInv
    <2>. QED  BY <2>2, <2>3 DEF CounterInv
<1>2. CASE Next /\ \E h \in Handshakes : Count(h) \/ CountUnheard(h)
    BY <1>2, CountedKeeps
<1>3. CASE Next /\ \A h \in Handshakes : ~Count(h) /\ ~CountUnheard(h)
    <2>1. hits' = hits
        BY <1>3
           DEF Next, HandshakeStep, NoCredential, PresentKey, PresentToken, GetConfig, Fill,
               GetTenant, CheckQuota, HsFails, Close, MintStep, MintWithKey, MintGetConfig,
               MintFill, MintCreate, MintFails, TokenExpires, Change, RevokeKey, SetTenant,
               UpdatePlan, DeleteProject, Evict, Tick
    <2>. QED  BY <1>3, <2>1, UncountedKeeps
<1>. QED  BY <1>1, <1>2, <1>3

\* The counters explain themselves in every reachable state.
LEMMA CountersHold == Spec => [](TypeOK /\ Presented /\ CounterInv)
<1>1. Init => CounterInv
    <2>. SUFFICES ASSUME Init PROVE CounterInv
        OBVIOUS
    <2>1. Refused
        BY DEF Init, Refused
    <2>2. ASSUME NEW b \in Buckets, NEW w \in Windows PROVE CountedAt(b, w)
        <3>1. /\ PassedAt(b, w) = {} /\ \A k \in Keys : UnderAt(b, w, Rpm[k]) = {}
              /\ ReachedAt(b, w) = {} /\ TwiceAt(b, w) = {} /\ hits[b][w] = 0
            BY <2>2 DEF Init, PassedAt, UnderAt, ReachedAt, TwiceAt, At
        <3>. QED  BY <3>1, FS_EmptySet, LimitsAreNumbers DEF CountedAt
    <2>. QED  BY <2>1, <2>2 DEF CounterInv
<1>2. TypeOK /\ Presented /\ CounterInv /\ [Next]_vars => CounterInv'
    BY CounterStep
<1>. QED  BY <1>1, <1>2, ClearedHolds, PTL DEF Spec

\* In one window at most `limit` handshakes get past the counter of a key, or
\* of the project's tokens.
THEOREM RateLimitHolds == Spec => []WindowLimit
<1>1. TypeOK /\ Presented /\ CounterInv => WindowLimit
    <2>. SUFFICES ASSUME TypeOK, Presented, CounterInv, NEW h \in Handshakes, h \in Passed(h)
                  PROVE  Cardinality({g \in Passed(h) : Limit(cred[g]) <= Limit(cred[h])})
                            <= Limit(cred[h])
        BY DEF WindowLimit
    <2>1. cred[h] # None
        BY DEF Passed, SameCounter
    <2>2. PICK b \in Buckets, w \in Windows, k \in Keys :
            b = Bucket(cred[h]) /\ w = arrival[h] /\ Limit(cred[h]) = Rpm[k]
        BY <2>1, LimitIsAKeys, TypesInParts
    <2>3. {g \in Passed(h) : Limit(cred[g]) <= Limit(cred[h])} = UnderAt(b, w, Rpm[k])
        BY <2>2 DEF Passed, SameCounter, UnderAt, PassedAt, At
    <2>. QED  BY <2>2, <2>3 DEF CounterInv, CountedAt
<1>. QED  BY <1>1, CountersHold, PTL

\* Whoever is refused with 4003 was refused because of that many handshakes
\* that got as far as the counter, or a lost reply that counted one twice.
THEOREM RefusalsHaveCauses == Spec => []RefusalsAreEarned
<1>1. TypeOK /\ Presented /\ CounterInv => RefusalsAreEarned
    <2>. SUFFICES ASSUME TypeOK, Presented, CounterInv, NEW h \in Handshakes, hs[h] = "4003",
                         NEW R, R = {g \in Handshakes : /\ hs[g] \notin {"limit", "4005"}
                                                        /\ SameCounter(g, h)}
                  PROVE  Cardinality(R) + Cardinality(R \cap resent) > Limit(cred[h])
        BY DEF RefusalsAreEarned
    <2>1. cred[h] # None
        BY DEF Presented
    <2>2. PICK b \in Buckets, w \in Windows : b = Bucket(cred[h]) /\ w = arrival[h]
        BY <2>1, LimitIsAKeys, TypesInParts
    <2>3. Limit(cred[h]) \in Nat /\ hits[b][w] \in Nat /\ hits[b][w] > Limit(cred[h])
        BY <2>1, <2>2, LimitIsAKeys, TypesInParts DEF CounterInv, Refused, CountsOK
    <2>4. R = ReachedAt(b, w) /\ TwiceAt(b, w) \subseteq R \cap resent
        BY <2>2 DEF SameCounter, ReachedAt, TwiceAt, At
    <2>5. R \in SUBSET Handshakes /\ TwiceAt(b, w) \in SUBSET Handshakes
          /\ (R \cap resent) \in SUBSET Handshakes
        BY <2>4 DEF ReachedAt, TwiceAt
    <2>6. /\ Cardinality(R) \in Nat /\ Cardinality(TwiceAt(b, w)) \in Nat
          /\ Cardinality(R \cap resent) \in Nat
          /\ Cardinality(TwiceAt(b, w)) <= Cardinality(R \cap resent)
        BY <2>4, <2>5, Sizes
    <2>7. hits[b][w] <= Cardinality(R) + Cardinality(TwiceAt(b, w))
        BY <2>4 DEF CounterInv, CountedAt
    <2>. QED  BY <2>3, <2>6, <2>7
<1>. QED  BY <1>1, CountersHold, PTL

=============================================================================
