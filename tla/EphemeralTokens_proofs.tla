----------------------- MODULE EphemeralTokens_proofs -----------------------
(* Theorems about EphemeralTokens, for any number of tokens, projects,      *)
(* handshakes and rotations.                                                *)
EXTENDS EphemeralTokens, TLAPS

USE DEF Issued, vars, tokenVars, hsVars, rotVars

\* What tokens, handshakes and rotations know of their mints: a token that was
\* never set has none, and the mint of any other has been issued itself, as its
\* own mint.
Lineage ==
    /\ \A t \in Tokens :
         IF Issued(t) THEN mint[t] \in Tokens /\ Issued(mint[t]) /\ mint[mint[t]] = mint[t]
                      ELSE mint[t] = None
    /\ \A h \in Handshakes : hs[h] # "new" => hsToken[h] \in Tokens /\ Issued(hsToken[h])
    /\ \A r \in Rotations : rot[r] # "new" => rotToken[r] \in Tokens /\ Issued(rotToken[r])

\* A rotation that passed the project check holds a token of its own project.
CheckedProject ==
    \A r \in Rotations : rot[r] \in {"redeem", "create"} => rotProject[r] = project[rotToken[r]]

\* The inductive invariant.
TokenInv == TypeOK /\ Lineage /\ CheckedProject /\ SameProject /\ SingleUse

\* Every step keeps the types.
LEMMA TypeStep == TypeOK /\ Lineage /\ [Next]_vars => TypeOK'
<1>. SUFFICES ASSUME TypeOK, Lineage, [Next]_vars PROVE TypeOK'
    OBVIOUS
<1>. USE DEF TypeOK
<1>1. CASE UNCHANGED vars
    BY <1>1
<1>2. ASSUME NEW t \in Tokens, Expire(t) PROVE TypeOK'
    BY <1>2 DEF Expire
<1>3. ASSUME NEW t \in Tokens, NEW p \in Projects, Mint(t, p) PROVE TypeOK'
    BY <1>3 DEF Mint, Store
<1>4. ASSUME NEW h \in Handshakes, Admit(h) PROVE TypeOK'
    BY <1>4 DEF Admit, HsGo
<1>5. ASSUME NEW h \in Handshakes, Refuse(h) PROVE TypeOK'
    BY <1>5 DEF Refuse, HsGo
<1>6. ASSUME NEW h \in Handshakes, NEW t \in Tokens, Present(h, t) PROVE TypeOK'
    BY <1>6 DEF Present, HsGo, Redeem
<1>7. ASSUME NEW r \in Rotations, NEW t \in Tokens, NEW p \in Projects, CheckTtl(r, t, p)
      PROVE  TypeOK'
    BY <1>7 DEF CheckTtl, RotGo
<1>8. ASSUME NEW r \in Rotations, Peek(r) PROVE TypeOK'
    BY <1>8 DEF Peek, RotGo
<1>9. ASSUME NEW r \in Rotations, Consume(r) PROVE TypeOK'
    BY <1>9 DEF Consume, RotGo, Redeem
<1>10. ASSUME NEW r \in Rotations, Abort(r) PROVE TypeOK'
    BY <1>10 DEF Abort, RotGo
<1>11. ASSUME NEW r \in Rotations, NEW t \in Tokens, Replace(r, t) PROVE TypeOK'
    <2>1. mint[rotToken[r]] \in Tokens
        BY <1>11 DEF Replace, RotGo, Lineage
    <2>. QED  BY <1>11, <2>1 DEF Replace, Store, RotGo
<1>. QED
    BY <1>1, <1>2, <1>3, <1>4, <1>5, <1>6, <1>7, <1>8, <1>9, <1>10, <1>11 DEF Next

\* Every step keeps what is known of mints.
LEMMA LineageStep == TypeOK /\ Lineage /\ [Next]_vars => Lineage'
<1>. SUFFICES ASSUME TypeOK, Lineage, [Next]_vars PROVE Lineage'
    OBVIOUS
<1>. USE DEF TypeOK, Lineage
<1>1. CASE UNCHANGED vars
    BY <1>1
<1>2. ASSUME NEW t \in Tokens, Expire(t) PROVE Lineage'
    BY <1>2 DEF Expire
<1>3. ASSUME NEW t \in Tokens, NEW p \in Projects, Mint(t, p) PROVE Lineage'
    BY <1>3 DEF Mint, Store
<1>4. ASSUME NEW h \in Handshakes, Admit(h) \/ Refuse(h) PROVE Lineage'
    BY <1>4 DEF Admit, Refuse, HsGo
<1>5. ASSUME NEW h \in Handshakes, NEW t \in Tokens, Present(h, t) PROVE Lineage'
    BY <1>5 DEF Present, HsGo, Redeem
<1>6. ASSUME NEW r \in Rotations, NEW t \in Tokens, NEW p \in Projects, CheckTtl(r, t, p)
      PROVE  Lineage'
    BY <1>6 DEF CheckTtl, RotGo
<1>7. ASSUME NEW r \in Rotations, Peek(r) \/ Consume(r) \/ Abort(r) PROVE Lineage'
    BY <1>7 DEF Peek, Consume, Abort, RotGo, Redeem
<1>8. ASSUME NEW r \in Rotations, NEW t \in Tokens, Replace(r, t) PROVE Lineage'
    <2>1. mint[rotToken[r]] \in Tokens /\ Issued(mint[rotToken[r]])
        BY <1>8 DEF Replace, RotGo
    <2>. QED  BY <1>8, <2>1 DEF Replace, Store, RotGo
<1>. QED
    BY <1>1, <1>2, <1>3, <1>4, <1>5, <1>6, <1>7, <1>8 DEF Next

\* Every step keeps tokens within the project of their mint.
LEMMA ProjectStep ==
    TypeOK /\ Lineage /\ CheckedProject /\ SameProject /\ [Next]_vars
        => CheckedProject' /\ SameProject'
<1>. SUFFICES ASSUME TypeOK, Lineage, CheckedProject, SameProject, [Next]_vars
              PROVE  CheckedProject' /\ SameProject'
    OBVIOUS
<1>. USE DEF TypeOK, Lineage, CheckedProject, SameProject
<1>1. CASE UNCHANGED vars
    BY <1>1
<1>2. ASSUME NEW t \in Tokens, Expire(t) PROVE CheckedProject' /\ SameProject'
    BY <1>2 DEF Expire
<1>3. ASSUME NEW t \in Tokens, NEW p \in Projects, Mint(t, p)
      PROVE  CheckedProject' /\ SameProject'
    BY <1>3 DEF Mint, Store
<1>4. ASSUME NEW h \in Handshakes, Admit(h) \/ Refuse(h)
      PROVE  CheckedProject' /\ SameProject'
    BY <1>4 DEF Admit, Refuse
<1>5. ASSUME NEW h \in Handshakes, NEW t \in Tokens, Present(h, t)
      PROVE  CheckedProject' /\ SameProject'
    BY <1>5 DEF Present, Redeem
<1>6. ASSUME NEW r \in Rotations, NEW t \in Tokens, NEW p \in Projects, CheckTtl(r, t, p)
      PROVE  CheckedProject' /\ SameProject'
    BY <1>6 DEF CheckTtl, RotGo
<1>7. ASSUME NEW r \in Rotations, Peek(r) PROVE CheckedProject' /\ SameProject'
    BY <1>7 DEF Peek, MayRotate, RotGo
<1>8. ASSUME NEW r \in Rotations, Consume(r) \/ Abort(r)
      PROVE  CheckedProject' /\ SameProject'
    BY <1>8 DEF Consume, Abort, Redeem, RotGo
<1>9. ASSUME NEW r \in Rotations, NEW t \in Tokens, Replace(r, t)
      PROVE  CheckedProject' /\ SameProject'
    <2>1. /\ rotToken[r] \in Tokens /\ Issued(rotToken[r])
          /\ mint[rotToken[r]] \in Tokens /\ Issued(mint[rotToken[r]])
          /\ rotProject[r] = project[mint[rotToken[r]]]
        BY <1>9 DEF Replace, RotGo
    <2>. QED  BY <1>9, <2>1 DEF Replace, Store, RotGo
<1>. QED
    BY <1>1, <1>2, <1>3, <1>4, <1>5, <1>6, <1>7, <1>8, <1>9 DEF Next

-----------------------------------------------------------------------------
(* Single use.                                                              *)

USE DEF AtMostOne

\* A mint keeps its single claim when its claims only get fewer.
Fewer(m) ==
    /\ LiveTokens(m)' \subseteq LiveTokens(m)
    /\ Admitting(m)'  \subseteq Admitting(m)
    /\ Rotating(m)'   \subseteq Rotating(m)

\* All the claims of a mint after a step are one token, handshake or rotation.
Sole(L, A, R) ==
    \/ \E t : L = {t} /\ A = {} /\ R = {}
    \/ \E h : L = {} /\ A = {h} /\ R = {}
    \/ \E r : L = {} /\ A = {} /\ R = {r}

\* A step that gives each mint fewer claims, or a sole one, keeps SingleUse.
LEMMA ClaimsKept ==
    ASSUME SingleUse,
           \A m \in Tokens :
               Fewer(m) \/ Sole(LiveTokens(m)', Admitting(m)', Rotating(m)')
    PROVE  SingleUse'
<1>. SUFFICES ASSUME NEW m \in Tokens
              PROVE  /\ AtMostOne(LiveTokens(m)') /\ AtMostOne(Admitting(m)')
                     /\ AtMostOne(Rotating(m)')
                     /\ LiveTokens(m)' = {} \/ (Admitting(m)' = {} /\ Rotating(m)' = {})
                     /\ Admitting(m)' = {} \/ Rotating(m)' = {}
    BY DEF SingleUse
<1>1. CASE Fewer(m)
    <2>1. /\ AtMostOne(LiveTokens(m)) /\ AtMostOne(Admitting(m)) /\ AtMostOne(Rotating(m))
          /\ LiveTokens(m) = {} \/ (Admitting(m) = {} /\ Rotating(m) = {})
          /\ Admitting(m) = {} \/ Rotating(m) = {}
        BY DEF SingleUse
    <2>. QED  BY <1>1, <2>1 DEF Fewer
<1>2. CASE Sole(LiveTokens(m)', Admitting(m)', Rotating(m)')
    BY <1>2 DEF Sole
<1>. QED  BY <1>1, <1>2

\* A fresh token is the mint of nothing yet.
LEMMA FreshHasNoClaims ==
    ASSUME TypeOK, Lineage, NEW t \in Tokens, store[t] = "fresh"
    PROVE  /\ \A u \in Tokens : Issued(u) => mint[u] # t
           /\ \A h \in Handshakes : hs[h] # "new" => hsToken[h] # t /\ mint[hsToken[h]] # t
           /\ \A r \in Rotations : rot[r] # "new" => rotToken[r] # t /\ mint[rotToken[r]] # t
BY DEF Lineage

\* Minting gives the new mint its first claim, its own token.
LEMMA MintKeeps ==
    ASSUME TypeOK, Lineage, SingleUse, NEW t \in Tokens, NEW p \in Projects, Mint(t, p)
    PROVE  SingleUse'
<1>1. /\ store[t] = "fresh"
      /\ store' = [store EXCEPT ![t] = "live"]
      /\ mint' = [mint EXCEPT ![t] = t]
      /\ UNCHANGED <<hs, hsToken, rot, rotToken>>
    BY DEF Mint, Store
<1>2. /\ \A u \in Tokens : Issued(u) => mint[u] # t
      /\ \A h \in Handshakes : hs[h] # "new" => hsToken[h] # t /\ mint[hsToken[h]] # t
      /\ \A r \in Rotations : rot[r] # "new" => rotToken[r] # t /\ mint[rotToken[r]] # t
    BY <1>1, FreshHasNoClaims
<1>3. LiveTokens(t)' = {t}
    BY <1>1, <1>2 DEF LiveTokens, TypeOK
<1>4. Admitting(t)' = {} /\ Rotating(t)' = {}
    BY <1>1, <1>2 DEF Admitting, Rotating, Lineage, TypeOK
<1>5. ASSUME NEW m \in Tokens, m # t PROVE Fewer(m)
    <2>1. LiveTokens(m)' \subseteq LiveTokens(m)
        BY <1>1, <1>5 DEF LiveTokens, TypeOK
    <2>2. Admitting(m)' \subseteq Admitting(m) /\ Rotating(m)' \subseteq Rotating(m)
        BY <1>1, <1>2 DEF Admitting, Rotating, Lineage, TypeOK
    <2>. QED  BY <2>1, <2>2 DEF Fewer
<1>. QED  BY <1>3, <1>4, <1>5, ClaimsKept DEF Sole

\* Redeeming moves the claim from the token to the handshake.
LEMMA PresentKeeps ==
    ASSUME TypeOK, Lineage, SingleUse, NEW h \in Handshakes, NEW t \in Tokens,
           Present(h, t)
    PROVE  SingleUse'
<1>1. /\ hs[h] = "new" /\ Issued(t) /\ mint[t] \in Tokens
      /\ hsToken' = [hsToken EXCEPT ![h] = t]
      /\ UNCHANGED <<mint, rot, rotToken>>
    BY DEF Present, HsGo, Lineage
<1>2. \A m \in Tokens : Rotating(m)' = Rotating(m)
    BY <1>1 DEF Rotating
<1>3. CASE Redeem(t) /\ HsGo(h, "new", "checking")
    <2>1. /\ store[t] = "live" /\ store' = [store EXCEPT ![t] = "gone"]
          /\ hs' = [hs EXCEPT ![h] = "checking"]
        BY <1>3 DEF Redeem, HsGo
    <2>2. t \in LiveTokens(mint[t])
        BY <2>1 DEF LiveTokens
    <2>3. LiveTokens(mint[t]) = {t} /\ Admitting(mint[t]) = {} /\ Rotating(mint[t]) = {}
        BY <1>1, <2>2 DEF SingleUse
    <2>4. LiveTokens(mint[t])' = {} 
        BY <1>1, <2>1, <2>3 DEF LiveTokens, TypeOK
    <2>5. Admitting(mint[t])' = {h}
        BY <1>1, <2>1, <2>3 DEF Admitting, TypeOK
    <2>6. ASSUME NEW m \in Tokens, m # mint[t] PROVE Fewer(m)
        <3>1. LiveTokens(m)' \subseteq LiveTokens(m)
            BY <1>1, <2>1 DEF LiveTokens, TypeOK
        <3>2. Admitting(m)' \subseteq Admitting(m)
            BY <1>1, <2>1, <2>6 DEF Admitting, TypeOK
        <3>. QED  BY <1>2, <3>1, <3>2 DEF Fewer
    <2>7. Sole(LiveTokens(mint[t])', Admitting(mint[t])', Rotating(mint[t])')
        BY <1>1, <1>2, <2>3, <2>4, <2>5 DEF Sole
    <2>. QED  BY <1>1, <2>6, <2>7, ClaimsKept
<1>4. CASE HsGo(h, "new", "close4005") /\ UNCHANGED store
    <2>1. \A m \in Tokens : LiveTokens(m)' = LiveTokens(m)
        BY <1>1, <1>4 DEF LiveTokens
    <2>2. \A m \in Tokens : Admitting(m)' \subseteq Admitting(m)
        BY <1>1, <1>4 DEF Admitting, HsGo, TypeOK
    <2>. QED  BY <1>2, <2>1, <2>2, ClaimsKept DEF Fewer
<1>5. CASE Redeem(t) /\ HsGo(h, "new", "close4005")
    <2>1. \A m \in Tokens : LiveTokens(m)' \subseteq LiveTokens(m)
        BY <1>1, <1>5 DEF LiveTokens, Redeem, TypeOK
    <2>2. \A m \in Tokens : Admitting(m)' \subseteq Admitting(m)
        BY <1>1, <1>5 DEF Admitting, HsGo, TypeOK
    <2>. QED  BY <1>2, <2>1, <2>2, ClaimsKept DEF Fewer
<1>. QED  BY <1>3, <1>4, <1>5 DEF Present

\* Consuming moves the claim from the token to the rotation.
LEMMA ConsumeKeeps ==
    ASSUME TypeOK, Lineage, SingleUse, NEW r \in Rotations, Consume(r)
    PROVE  SingleUse'
<1>. DEFINE t == rotToken[r]
<1>1. /\ rot[r] = "redeem" /\ t \in Tokens /\ mint[t] \in Tokens
      /\ UNCHANGED <<mint, hs, hsToken, rotToken>>
    BY DEF Consume, RotGo, Lineage
<1>2. \A m \in Tokens : Admitting(m)' = Admitting(m)
    BY <1>1 DEF Admitting
<1>3. CASE RotGo(r, "redeem", "create") /\ Redeem(t)
    <2>1. /\ store[t] = "live" /\ store' = [store EXCEPT ![t] = "gone"]
          /\ rot' = [rot EXCEPT ![r] = "create"]
        BY <1>3 DEF Redeem, RotGo
    <2>2. t \in LiveTokens(mint[t])
        BY <1>1, <2>1 DEF LiveTokens
    <2>3. LiveTokens(mint[t]) = {t} /\ Admitting(mint[t]) = {} /\ Rotating(mint[t]) = {}
        BY <1>1, <2>2 DEF SingleUse
    <2>4. LiveTokens(mint[t])' = {}
        BY <1>1, <2>1, <2>3 DEF LiveTokens, TypeOK
    <2>5. Rotating(mint[t])' = {r}
        BY <1>1, <2>1, <2>3 DEF Rotating, TypeOK
    <2>6. ASSUME NEW m \in Tokens, m # mint[t] PROVE Fewer(m)
        <3>1. LiveTokens(m)' \subseteq LiveTokens(m)
            BY <1>1, <2>1 DEF LiveTokens, TypeOK
        <3>2. Rotating(m)' \subseteq Rotating(m)
            BY <1>1, <2>1, <2>6 DEF Rotating, TypeOK
        <3>. QED  BY <1>2, <3>1, <3>2 DEF Fewer
    <2>7. Sole(LiveTokens(mint[t])', Admitting(mint[t])', Rotating(mint[t])')
        BY <1>1, <1>2, <2>3, <2>4, <2>5 DEF Sole
    <2>. QED  BY <1>1, <2>6, <2>7, ClaimsKept
<1>4. CASE RotGo(r, "redeem", "failed") /\ UNCHANGED store
    <2>1. \A m \in Tokens : LiveTokens(m)' = LiveTokens(m)
        BY <1>1, <1>4 DEF LiveTokens
    <2>2. \A m \in Tokens : Rotating(m)' \subseteq Rotating(m)
        BY <1>1, <1>4 DEF Rotating, RotGo, TypeOK
    <2>. QED  BY <1>2, <2>1, <2>2, ClaimsKept DEF Fewer
<1>5. CASE RotGo(r, "redeem", "failed") /\ Redeem(t)
    <2>1. \A m \in Tokens : LiveTokens(m)' \subseteq LiveTokens(m)
        BY <1>1, <1>5 DEF LiveTokens, Redeem, TypeOK
    <2>2. \A m \in Tokens : Rotating(m)' \subseteq Rotating(m)
        BY <1>1, <1>5 DEF Rotating, RotGo, TypeOK
    <2>. QED  BY <1>2, <2>1, <2>2, ClaimsKept DEF Fewer
<1>. QED  BY <1>3, <1>4, <1>5 DEF Consume

\* Replacing moves the claim from the rotation to the new token.
LEMMA ReplaceKeeps ==
    ASSUME TypeOK, Lineage, SingleUse, NEW r \in Rotations, NEW t \in Tokens,
           Replace(r, t)
    PROVE  SingleUse'
<1>. DEFINE n == mint[rotToken[r]]
<1>1. /\ rot[r] = "create" /\ rot' = [rot EXCEPT ![r] = "done"]
      /\ rotToken[r] \in Tokens /\ n \in Tokens
      /\ store[t] = "fresh"
      /\ store' = [store EXCEPT ![t] = "live"]
      /\ mint' = [mint EXCEPT ![t] = n]
      /\ UNCHANGED <<hs, hsToken, rotToken>>
    BY DEF Replace, Store, RotGo, Lineage
<1>2. /\ \A u \in Tokens : Issued(u) => mint[u] # t
      /\ \A h \in Handshakes : hs[h] # "new" => hsToken[h] # t /\ mint[hsToken[h]] # t
      /\ \A q \in Rotations : rot[q] # "new" => rotToken[q] # t /\ mint[rotToken[q]] # t
    BY <1>1, FreshHasNoClaims
<1>3. r \in Rotating(n)
    BY <1>1 DEF Rotating
<1>4. LiveTokens(n) = {} /\ Admitting(n) = {} /\ Rotating(n) = {r}
    BY <1>1, <1>3 DEF SingleUse
<1>5. \A m \in Tokens : Admitting(m)' = Admitting(m)
    BY <1>1, <1>2 DEF Admitting, Lineage, TypeOK
<1>6. \A m \in Tokens : Rotating(m)' = Rotating(m) \ {r}
    BY <1>1, <1>2 DEF Rotating, Lineage, TypeOK
<1>7. LiveTokens(n)' = {t}
    BY <1>1, <1>4 DEF LiveTokens, TypeOK
<1>8. ASSUME NEW m \in Tokens, m # n PROVE Fewer(m)
    <2>1. LiveTokens(m)' \subseteq LiveTokens(m)
        BY <1>1, <1>8 DEF LiveTokens, TypeOK
    <2>. QED  BY <1>5, <1>6, <2>1 DEF Fewer
<1>9. Sole(LiveTokens(n)', Admitting(n)', Rotating(n)')
    <2>1. Admitting(n)' = {} /\ Rotating(n)' = {}
        BY <1>1, <1>4, <1>5, <1>6
    <2>. QED  BY <1>7, <2>1 DEF Sole
<1>. QED  BY <1>1, <1>8, <1>9, ClaimsKept

\* Every step keeps the single claim of each mint.
LEMMA SingleUseStep == TypeOK /\ Lineage /\ SingleUse /\ [Next]_vars => SingleUse'
<1>. SUFFICES ASSUME TypeOK, Lineage, SingleUse, [Next]_vars PROVE SingleUse'
    OBVIOUS
<1>. USE DEF TypeOK, LiveTokens, Admitting, Rotating, Fewer
<1>1. CASE UNCHANGED vars
    BY <1>1, ClaimsKept
<1>2. ASSUME NEW t \in Tokens, Expire(t) PROVE SingleUse'
    BY <1>2, ClaimsKept DEF Expire
<1>3. ASSUME NEW t \in Tokens, NEW p \in Projects, Mint(t, p) PROVE SingleUse'
    BY <1>3, MintKeeps
<1>4. ASSUME NEW h \in Handshakes, Admit(h) \/ Refuse(h) PROVE SingleUse'
    BY <1>4, ClaimsKept DEF Admit, Refuse, HsGo
<1>5. ASSUME NEW h \in Handshakes, NEW t \in Tokens, Present(h, t) PROVE SingleUse'
    BY <1>5, PresentKeeps
<1>6. ASSUME NEW r \in Rotations, NEW t \in Tokens, NEW p \in Projects, CheckTtl(r, t, p)
      PROVE  SingleUse'
    BY <1>6, ClaimsKept DEF CheckTtl, RotGo
<1>7. ASSUME NEW r \in Rotations, Peek(r) \/ Abort(r) PROVE SingleUse'
    BY <1>7, ClaimsKept DEF Peek, Abort, RotGo
<1>8. ASSUME NEW r \in Rotations, Consume(r) PROVE SingleUse'
    BY <1>8, ConsumeKeeps
<1>9. ASSUME NEW r \in Rotations, NEW t \in Tokens, Replace(r, t) PROVE SingleUse'
    BY <1>9, ReplaceKeeps
<1>. QED
    BY <1>1, <1>2, <1>3, <1>4, <1>5, <1>6, <1>7, <1>8, <1>9 DEF Next

-----------------------------------------------------------------------------
(* The theorems.                                                            *)

\* The invariant holds in every reachable state.
LEMMA TokenInvHolds == Spec => []TokenInv
<1>1. Init => TokenInv
    BY DEF Init, TokenInv, TypeOK, Lineage, CheckedProject, SameProject, SingleUse,
           LiveTokens, Admitting, Rotating
<1>2. TokenInv /\ [Next]_vars => TokenInv'
    BY TypeStep, LineageStep, ProjectStep, SingleUseStep DEF TokenInv
<1>. QED  BY <1>1, <1>2, PTL DEF Spec

\* Tokens, handshakes and rotations have the types of TypeOK in every
\* reachable state.
THEOREM TokensTypeCorrect == Spec => []TypeOK
<1>1. TokenInv => TypeOK
    BY DEF TokenInv
<1>. QED  BY <1>1, TokenInvHolds, PTL

\* A mint and everything rotated from it has at most one claim on a session,
\* for any number of concurrent handshakes and rotations.
THEOREM TokensAreSingleUse == Spec => []SingleUse
<1>1. TokenInv => SingleUse
    BY DEF TokenInv
<1>. QED  BY <1>1, TokenInvHolds, PTL

\* No sequence of rotations carries a token into another project.
THEOREM RotationStaysInProject == Spec => []SameProject
<1>1. TokenInv => SameProject
    BY DEF TokenInv
<1>. QED  BY <1>1, TokenInvHolds, PTL

-----------------------------------------------------------------------------
(* EphemeralTokens implements Tickets.                                      *)

\* Where the claim of a mint is.
Valid(m) == \E t \in Tokens : store[t] = "live" /\ mint[t] = m
In(m)    == \E h \in Handshakes : hs[h] = "admitted" /\ mint[hsToken[h]] = m
Held(m)  == \/ \E h \in Handshakes : hs[h] = "checking" /\ mint[hsToken[h]] = m
            \/ \E r \in Rotations : rot[r] = "create" /\ mint[rotToken[r]] = m

\* The ticket of a mint, the claims looked for one after the other.
ClaimOf(m) == IF mint[m] # m THEN "none"
              ELSE IF Valid(m) THEN "valid"
              ELSE IF In(m) THEN "admitted"
              ELSE IF Held(m) THEN "taken" ELSE "void"

\* As a mint has one claim only, the order does not matter.
LEMMA TicketIsClaim == TokenInv => \A m \in Tokens : TicketOf(m) = ClaimOf(m)
<1>. SUFFICES ASSUME TokenInv, NEW m \in Tokens PROVE TicketOf(m) = ClaimOf(m)
    OBVIOUS
<1>1. Valid(m) <=> LiveTokens(m) # {}
    BY DEF Valid, LiveTokens
<1>2. In(m) <=> \E h \in Admitting(m) : hs[h] = "admitted"
    BY DEF In, Admitting
<1>3. ~In(m) => (Held(m) <=> Admitting(m) \cup Rotating(m) # {})
    BY DEF In, Held, Admitting, Rotating
<1>4. Valid(m) => ~In(m) /\ ~Held(m) /\ mint[m] = m
    BY <1>1 DEF TokenInv, SingleUse, Lineage, Valid, In, Held, LiveTokens, Admitting, Rotating
<1>5. In(m) => ~Held(m) /\ mint[m] = m
    BY DEF TokenInv, SingleUse, Lineage, In, Held, Admitting, Rotating
<1>6. Held(m) => mint[m] = m
    BY DEF TokenInv, Lineage, Held
<1>. QED
    BY <1>1, <1>2, <1>3, <1>4, <1>5, <1>6, Zenon DEF TicketOf, ClaimOf

\* The tickets that the mints stand for.
ticketBar == [m \in Tokens |-> TicketOf(m)]

\* A step moves the ticket of mint m.
Moves(m, from, to) ==
    /\ ClaimOf(m) = from
    /\ \A n \in Tokens : ClaimOf(n)' = IF n = m THEN to ELSE ClaimOf(n)

\* A mint whose claims stay keeps its ticket.
LEMMA ClaimStays ==
    ASSUME NEW m, mint'[m] = m <=> mint[m] = m, Valid(m)' <=> Valid(m),
           In(m)' <=> In(m), Held(m)' <=> Held(m)
    PROVE  ClaimOf(m)' = ClaimOf(m)
BY DEF ClaimOf

\* Minting issues a ticket.
LEMMA MintIssues ==
    ASSUME TokenInv, NEW t \in Tokens, NEW p \in Projects, Mint(t, p)
    PROVE  Moves(t, "none", "valid")
<1>. USE DEF TokenInv, TypeOK, Mint, Store
<1>1. \A u \in Tokens : mint[u] # t
    BY NoneIsNothing DEF Lineage
<1>2. ClaimOf(t) = "none"
    BY <1>1 DEF ClaimOf
<1>3. ClaimOf(t)' = "valid"
    BY DEF ClaimOf, Valid
<1>4. ASSUME NEW n \in Tokens, n # t PROVE ClaimOf(n)' = ClaimOf(n)
    <2>1. Valid(n)' <=> Valid(n)
        BY <1>4 DEF Valid
    <2>2. (In(n)' <=> In(n)) /\ (Held(n)' <=> Held(n))
        BY <1>4 DEF In, Held, Lineage
    <2>. QED  BY <1>4, <2>1, <2>2, ClaimStays
<1>. QED  BY <1>2, <1>3, <1>4 DEF Moves

\* Redeeming and expiring take a valid ticket away; in whose hands it is then
\* is said by h or r, if by any.
LEMMA RedeemTakes ==
    ASSUME TokenInv, NEW t \in Tokens, Redeem(t), UNCHANGED mint,
           NEW to \in {"taken", "void"},
           \A n \in Tokens : In(n)' <=> In(n),
           \A n \in Tokens : Held(n)' <=> Held(n) \/ (n = mint[t] /\ to = "taken")
    PROVE  mint[t] \in Tokens /\ Moves(mint[t], "valid", to)
<1>. USE DEF TokenInv, TypeOK, Redeem
<1>1. PICK m \in Tokens : m = mint[t] /\ mint[m] = m
    BY DEF Lineage
<1>2. Valid(m) /\ ~In(m) /\ ~Held(m)
    BY <1>1 DEF SingleUse, Valid, In, Held, LiveTokens, Admitting, Rotating
<1>3. ~Valid(m)'
    BY <1>1 DEF SingleUse, Valid, LiveTokens
<1>4. \A n \in Tokens : n # m => (Valid(n)' <=> Valid(n))
    BY <1>1 DEF Valid
<1>5. ClaimOf(m) = "valid" /\ ClaimOf(m)' = to
    BY <1>1, <1>2, <1>3 DEF ClaimOf
<1>6. \A n \in Tokens : n # m => ClaimOf(n)' = ClaimOf(n)
    BY <1>1, <1>4, ClaimStays
<1>. QED  BY <1>1, <1>5, <1>6 DEF Moves

\* A handshake that has redeemed its token is admitted or lets the ticket lapse.
LEMMA HandshakeEnds ==
    ASSUME TokenInv, NEW h \in Handshakes, Admit(h) \/ Refuse(h)
    PROVE  /\ mint[hsToken[h]] \in Tokens
           /\ Moves(mint[hsToken[h]], "taken", IF Admit(h) THEN "admitted" ELSE "void")
<1>. DEFINE to == IF Admit(h) THEN "admitted" ELSE "refused"
<1>. USE DEF TokenInv, TypeOK
<1>1. hs[h] = "checking" /\ hs' = [hs EXCEPT ![h] = to] /\ UNCHANGED <<tokenVars, hsToken, rotVars>>
    BY DEF Admit, Refuse, HsGo
<1>2. PICK m \in Tokens : m = mint[hsToken[h]] /\ mint[m] = m
    BY <1>1 DEF Lineage
<1>3. ~Valid(m) /\ ~In(m) /\ Held(m) /\ h \in Admitting(m)
    BY <1>1, <1>2 DEF SingleUse, Valid, In, Held, LiveTokens, Admitting, Rotating
<1>4. \A n \in Tokens : Valid(n)' <=> Valid(n)
    BY <1>1 DEF Valid
<1>5. ~Held(m)'
    BY <1>1, <1>2, <1>3 DEF SingleUse, Held, Admitting, Rotating
<1>6. In(m)' <=> Admit(h)
    BY <1>1, <1>2, <1>3 DEF In
<1>7. \A n \in Tokens : n # m => (In(n)' <=> In(n)) /\ (Held(n)' <=> Held(n))
    BY <1>1, <1>2 DEF In, Held
<1>8. ClaimOf(m) = "taken" /\ ClaimOf(m)' = IF Admit(h) THEN "admitted" ELSE "void"
    BY <1>1, <1>2, <1>3, <1>4, <1>5, <1>6 DEF ClaimOf
<1>9. \A n \in Tokens : n # m => ClaimOf(n)' = ClaimOf(n)
    BY <1>1, <1>4, <1>7, ClaimStays
<1>. QED  BY <1>2, <1>8, <1>9 DEF Moves

\* A rotation that has redeemed its token returns the ticket with the new
\* token, or loses it.
LEMMA RotationEnds ==
    ASSUME TokenInv, NEW r \in Rotations, Abort(r) \/ \E t \in Tokens : Replace(r, t)
    PROVE  /\ mint[rotToken[r]] \in Tokens
           /\ Moves(mint[rotToken[r]], "taken", IF Abort(r) THEN "void" ELSE "valid")
<1>. USE DEF TokenInv, TypeOK
<1>1. rot[r] = "create" /\ rotToken[r] \in Tokens /\ Issued(rotToken[r])
      /\ UNCHANGED <<hsVars, rotToken>>
    BY DEF Abort, Replace, RotGo, Lineage
<1>2. PICK m \in Tokens : m = mint[rotToken[r]] /\ mint[m] = m /\ Issued(m)
    BY <1>1 DEF Lineage
<1>3. ~Valid(m) /\ ~In(m) /\ Held(m) /\ r \in Rotating(m)
    BY <1>1, <1>2 DEF SingleUse, Valid, In, Held, LiveTokens, Admitting, Rotating
<1>4. ClaimOf(m) = "taken"
    BY <1>2, <1>3 DEF ClaimOf
<1>5. CASE Abort(r)
    <2>1. ~Held(m)'
        BY <1>1, <1>2, <1>3, <1>5 DEF SingleUse, Held, Admitting, Rotating, Abort, RotGo
    <2>2. \A n \in Tokens : n # m => (Held(n)' <=> Held(n))
        BY <1>1, <1>2, <1>5 DEF Held, Abort, RotGo
    <2>3. \A n \in Tokens : (Valid(n)' <=> Valid(n)) /\ (In(n)' <=> In(n)) /\ mint'[n] = mint[n]
        BY <1>5 DEF Valid, In, Abort
    <2>4. ClaimOf(m)' = "void"
        BY <1>2, <1>3, <2>1, <2>3 DEF ClaimOf
    <2>5. \A n \in Tokens : n # m => ClaimOf(n)' = ClaimOf(n)
        BY <2>2, <2>3, ClaimStays
    <2>. QED  BY <1>2, <1>4, <1>5, <2>4, <2>5 DEF Moves
<1>6. ASSUME NEW t \in Tokens, Replace(r, t)
      PROVE  Moves(m, "taken", "valid") /\ ~Abort(r)
    <2>1. /\ store[t] = "fresh" /\ store' = [store EXCEPT ![t] = "live"]
          /\ mint' = [mint EXCEPT ![t] = m] /\ rot' = [rot EXCEPT ![r] = "done"]
        BY <1>2, <1>6 DEF Replace, RotGo, Store
    <2>2. t # m /\ mint[t] = None /\ \A u \in Tokens : Issued(u) => mint[u] # t
        BY <1>2, <2>1 DEF Lineage
    <2>3. Valid(m)' /\ mint'[m] = m
        BY <1>2, <2>1, <2>2 DEF Valid
    <2>4. ASSUME NEW n \in Tokens, n # m PROVE ClaimOf(n)' = ClaimOf(n)
        <3>1. (mint'[n] = n <=> mint[n] = n) /\ (Valid(n)' <=> Valid(n))
            BY <2>1, <2>2, <2>4, NoneIsNothing DEF Valid
        <3>2. In(n)' <=> In(n)
            BY <1>1, <2>1, <2>2 DEF In, Lineage
        <3>3. Held(n)' <=> Held(n)
            BY <1>1, <1>2, <2>1, <2>2, <2>4 DEF Held, Lineage
        <3>. QED  BY <3>1, <3>2, <3>3, ClaimStays
    <2>5. ClaimOf(m)' = "valid"
        BY <2>3 DEF ClaimOf
    <2>6. ~Abort(r)
        BY <1>1, <2>1 DEF Abort, RotGo
    <2>. QED  BY <1>4, <2>4, <2>5, <2>6 DEF Moves
<1>. QED  BY <1>2, <1>5, <1>6

\* Presenting a token takes its ticket, loses it, or finds it gone.
LEMMA PresentTakes ==
    ASSUME TokenInv, NEW h \in Handshakes, NEW t \in Tokens, Present(h, t)
    PROVE  \/ \A n \in Tokens : ClaimOf(n)' = ClaimOf(n)
           \/ /\ mint[t] \in Tokens
              /\ \E to \in {"taken", "void"} : Moves(mint[t], "valid", to)
<1>. USE DEF TypeOK
<1>1. /\ hs[h] = "new" /\ hsToken' = [hsToken EXCEPT ![h] = t]
      /\ UNCHANGED <<mint, rotVars>> /\ TypeOK
    BY DEF TokenInv, Present, HsGo
<1>2. \A n \in Tokens : In(n)' <=> In(n)
    BY <1>1 DEF In, Present, HsGo
<1>3. CASE Redeem(t) /\ HsGo(h, "new", "checking")
    <2>1. \A n \in Tokens : Held(n)' <=> Held(n) \/ n = mint[t]
        BY <1>1, <1>3 DEF Held, HsGo
    <2>. QED  BY <1>1, <1>2, <1>3, <2>1, RedeemTakes
<1>4. CASE HsGo(h, "new", "close4005")
    <2>1. \A n \in Tokens : Held(n)' <=> Held(n)
        BY <1>1, <1>4 DEF Held, HsGo
    <2>2. CASE Redeem(t)
        BY <1>1, <1>2, <2>1, <2>2, RedeemTakes
    <2>3. CASE UNCHANGED store
        <3>1. \A n \in Tokens : Valid(n)' <=> Valid(n)
            BY <1>1, <2>3 DEF Valid
        <3>. QED  BY <1>1, <1>2, <2>1, <3>1, ClaimStays
    <2>. QED  BY <1>4, <2>2, <2>3 DEF Present
<1>. QED  BY <1>3, <1>4 DEF Present

\* So does the redeem of a rotation.
LEMMA ConsumeTakes ==
    ASSUME TokenInv, NEW r \in Rotations, Consume(r)
    PROVE  \/ \A n \in Tokens : ClaimOf(n)' = ClaimOf(n)
           \/ /\ mint[rotToken[r]] \in Tokens
              /\ \E to \in {"taken", "void"} : Moves(mint[rotToken[r]], "valid", to)
<1>. USE DEF TypeOK
<1>1. /\ rot[r] = "redeem" /\ rotToken[r] \in Tokens
      /\ UNCHANGED <<mint, hsVars, rotToken>> /\ TypeOK
    BY DEF TokenInv, Lineage, Consume, RotGo
<1>2. \A n \in Tokens : In(n)' <=> In(n)
    BY <1>1 DEF In
<1>3. CASE RotGo(r, "redeem", "create") /\ Redeem(rotToken[r])
    <2>1. \A n \in Tokens : Held(n)' <=> Held(n) \/ n = mint[rotToken[r]]
        BY <1>1, <1>3 DEF Held, RotGo
    <2>. QED  BY <1>1, <1>2, <1>3, <2>1, RedeemTakes
<1>4. CASE RotGo(r, "redeem", "failed")
    <2>1. \A n \in Tokens : Held(n)' <=> Held(n)
        BY <1>1, <1>4 DEF Held, RotGo
    <2>2. CASE Redeem(rotToken[r])
        BY <1>1, <1>2, <2>1, <2>2, RedeemTakes
    <2>3. CASE UNCHANGED store
        <3>1. \A n \in Tokens : Valid(n)' <=> Valid(n)
            BY <1>1, <2>3 DEF Valid
        <3>. QED  BY <1>1, <1>2, <2>1, <3>1, ClaimStays
    <2>. QED  BY <1>4, <2>2, <2>3 DEF Consume
<1>. QED  BY <1>3, <1>4 DEF Consume

\* An expiring token takes its ticket with it.
LEMMA ExpireLapses ==
    ASSUME TokenInv, NEW t \in Tokens, Expire(t)
    PROVE  mint[t] \in Tokens /\ Moves(mint[t], "valid", "void")
<1>1. Redeem(t) /\ UNCHANGED mint
    BY DEF Expire, Redeem
<1>2. \A n \in Tokens : (In(n)' <=> In(n)) /\ (Held(n)' <=> Held(n))
    BY DEF Expire, In, Held
<1>. QED  BY <1>1, <1>2, RedeemTakes

\* A rotation that only looks moves no ticket.
LEMMA LookingKeeps ==
    ASSUME TokenInv, NEW r \in Rotations,
           Peek(r) \/ \E t \in Tokens, p \in Projects : CheckTtl(r, t, p)
    PROVE  \A n \in Tokens : ClaimOf(n)' = ClaimOf(n)
<1>1. /\ UNCHANGED <<tokenVars, hsVars>>
      /\ \A q \in Rotations : /\ rot'[q] = "create" <=> rot[q] = "create"
                              /\ rot[q] = "create" => rotToken'[q] = rotToken[q]
    BY DEF TokenInv, TypeOK, Peek, CheckTtl, RotGo
<1>2. \A n \in Tokens : /\ Valid(n)' <=> Valid(n)
                        /\ In(n)' <=> In(n)
                        /\ Held(n)' <=> Held(n)
    BY <1>1 DEF Valid, In, Held
<1>. QED  BY <1>1, <1>2, ClaimStays

\* Every step moves one ticket, as Tickets allows, or none.
LEMMA ClaimStep ==
    ASSUME TokenInv, [Next]_vars
    PROVE  \/ \A n \in Tokens : ClaimOf(n)' = ClaimOf(n)
           \/ \E m \in Tokens :
                \/ Moves(m, "none", "valid")
                \/ \E to \in {"taken", "void"} : Moves(m, "valid", to)
                \/ \E to \in {"valid", "admitted", "void"} : Moves(m, "taken", to)
<1>1. CASE UNCHANGED vars
    BY <1>1 DEF ClaimOf, Valid, In, Held
<1>2. ASSUME NEW t \in Tokens, Expire(t) \/ \E p \in Projects : Mint(t, p)
      PROVE  \E m \in Tokens :
                Moves(m, "none", "valid") \/ \E to \in {"taken", "void"} : Moves(m, "valid", to)
    BY <1>2, ExpireLapses, MintIssues
<1>3. ASSUME NEW h \in Handshakes, Admit(h) \/ Refuse(h)
      PROVE  \E m \in Tokens, to \in {"valid", "admitted", "void"} : Moves(m, "taken", to)
    BY <1>3, HandshakeEnds
<1>4. ASSUME NEW r \in Rotations, Abort(r) \/ \E t \in Tokens : Replace(r, t)
      PROVE  \E m \in Tokens, to \in {"valid", "admitted", "void"} : Moves(m, "taken", to)
    BY <1>4, RotationEnds
<1>. QED
    BY <1>1, <1>2, <1>3, <1>4, PresentTakes, ConsumeTakes, LookingKeeps DEF Next

\* A step that moves a ticket is one of Tickets.
LEMMA TicketStep ==
    ASSUME \A n \in Tokens : TicketOf(n) = ClaimOf(n),
           \A n \in Tokens : TicketOf(n)' = ClaimOf(n)',
           TokenInv, [Next]_vars
    PROVE  [Ticket!Next]_ticketBar
<1>1. CASE \A n \in Tokens : ClaimOf(n)' = ClaimOf(n)
    BY <1>1 DEF ticketBar
<1>2. ASSUME NEW m \in Tokens, NEW from, NEW to, Moves(m, from, to)
      PROVE  Ticket!Step(m, from, to)
    <2>1. ticketBar[m] = from
        BY <1>2 DEF ticketBar, Moves
    <2>2. ticketBar' = [ticketBar EXCEPT ![m] = to]
        <3>1. \A n \in Tokens : TicketOf(n)' = IF n = m THEN to ELSE TicketOf(n)
            BY <1>2 DEF Moves
        <3>. QED  BY <3>1 DEF ticketBar
    <2>. QED  BY <2>1, <2>2 DEF Ticket!Step, ticketBar
<1>. QED
    BY <1>1, <1>2, ClaimStep
       DEF Ticket!Next, Ticket!Issue, Ticket!Take, Ticket!Return, Ticket!Admit, Ticket!Lapse

\* Initial states map to initial states.
LEMMA TicketInit == Init => Ticket!Init
<1>. SUFFICES ASSUME Init PROVE \A m \in Tokens : TicketOf(m) = "none"
    BY DEF Ticket!Init
<1>. QED  BY NoneIsNothing, Zenon DEF Init, TicketOf, LiveTokens, Admitting, Rotating

\* Ephemeral tokens implement tickets: every mint admits at most one session,
\* and its ticket is never valid again once it has admitted one or lapsed.
THEOREM ImplementsTickets == Spec => TicketSpec
<1>1. TokenInv /\ TokenInv' /\ [Next]_vars => [Ticket!Next]_ticketBar
    <2>1. (TokenInv => \A m \in Tokens : TicketOf(m) = ClaimOf(m))'
        BY TicketIsClaim, PTL
    <2>. QED  BY <2>1, TicketIsClaim, TicketStep
<1>. QED
    BY <1>1, TicketInit, TokenInvHolds, PTL DEF Spec, TicketSpec, Ticket!Spec, ticketBar

=============================================================================
