------------------------ MODULE RefreshTokens_proofs ------------------------
(* Theorems about RefreshTokens, for any number of tokens, tenants and      *)
(* requests.                                                                *)
EXTENDS RefreshTokens, FiniteSetTheorems, TLAPS

USE DEF vars, accountVars, entryVars, docVars, refVars

\* What requests and documents name: a request its tenant or the token it has
\* found, a token's document its tenant and the token its family began with.
Known ==
    /\ \A e \in Entries : entry[e] # "new" => entryOf[e] \in Tenants
    /\ \A r \in Refreshes :
         ref[r] # "new" => refToken[r] \in Tokens /\ doc[refToken[r]] # "fresh"
    /\ \A t \in Tokens :
         IF doc[t] = "fresh" THEN tenant[t] = None /\ family[t] = None
         ELSE /\ tenant[t] \in Tenants /\ family[t] \in Tokens
              /\ doc[family[t]] # "fresh" /\ family[family[t]] = family[t]
              /\ tenant[t] = tenant[family[t]]

\* Accounts open in one order: while a register request has the password to
\* write the account is bare, and no other request has it; tokens are for
\* accounts that are open.
Opened ==
    /\ \A e \in Entries : entry[e] = "password" => account[entryOf[e]] = "bare"
    /\ \A e \in Entries : entry[e] = "token" => account[entryOf[e]] = "open"
    /\ \A d, e \in Entries :
         entry[d] = "password" /\ entry[e] = "password" /\ entryOf[d] = entryOf[e] => d = e
    /\ \A t \in Tokens : doc[t] # "fresh" => account[tenant[t]] = "open"

\* Two refreshes have matched the same token of family f.
Race(f) ==
    \E q, r \in Refreshes :
        /\ q # r /\ Matched(q) /\ Matched(r)
        /\ refToken[q] = refToken[r] /\ family[refToken[r]] = f

\* The family has one stored token or one refresh under way; both only while
\* the refresh is about to delete that very token.
OneEnd(f) ==
    /\ \A q, r \in InFlight(f) : q = r
    /\ \A s, t \in Stored(f) : s = t
    /\ \A r \in InFlight(f), t \in Stored(f) : ref[r] = "delete" /\ refToken[r] = t

Unforked == \A f \in Tokens : Race(f) \/ OneEnd(f)

\* The inductive invariant.
TokenInv == TypeOK /\ Known /\ Opened /\ Unforked

-----------------------------------------------------------------------------

\* The invariant holds before the first request.
LEMMA TokenInit == Init => TokenInv
<1>. SUFFICES ASSUME Init PROVE TokenInv
    OBVIOUS
<1>1. TypeOK /\ Known /\ Opened
    BY DEF Init, TypeOK, Known, Opened
<1>2. Unforked
    BY DEF Init, Unforked, OneEnd, InFlight, Stored
<1>. QED
    BY <1>1, <1>2 DEF TokenInv

\* Every step keeps types and names.
LEMMA KnownStep == TypeOK /\ Known /\ [Next]_vars => TypeOK' /\ Known'
<1>. SUFFICES ASSUME TypeOK, Known, [Next]_vars PROVE TypeOK' /\ Known'
    OBVIOUS
<1>. USE NoneIsNothing DEF TypeOK, Known, EntryGo, RefGo, Store
<1>1. CASE UNCHANGED vars
    BY <1>1
<1>2. ASSUME NEW e \in Entries, NEW n \in Tenants, Register(e, n) PROVE TypeOK' /\ Known'
    BY <1>2 DEF Register
<1>3. ASSUME NEW e \in Entries, NEW n \in Tenants, LogIn(e, n) PROVE TypeOK' /\ Known'
    BY <1>3 DEF LogIn
<1>4. ASSUME NEW e \in Entries, SetPassword(e) \/ EntryFails(e) PROVE TypeOK' /\ Known'
    BY <1>4 DEF SetPassword, EntryFails
<1>5. ASSUME NEW e \in Entries, NEW t \in Tokens, Enter(e, t) PROVE TypeOK' /\ Known'
    BY <1>5 DEF Enter
<1>6. ASSUME NEW n \in Tenants, Logout(n) PROVE TypeOK' /\ Known'
    BY <1>6 DEF Logout
<1>7. ASSUME NEW n \in Tenants, NEW b \in BOOLEAN, SetActive(n, b) PROVE TypeOK' /\ Known'
    BY <1>7 DEF SetActive
<1>8. ASSUME NEW r \in Refreshes, Delete(r) PROVE TypeOK' /\ Known'
    BY <1>8 DEF Delete
<1>9. ASSUME NEW r \in Refreshes, Fail(r) \/ Answer(r) PROVE TypeOK' /\ Known'
    BY <1>9 DEF Fail, Answer
<1>10. ASSUME NEW r \in Refreshes, NEW t \in Tokens, Match(r, t) PROVE TypeOK' /\ Known'
    BY <1>10 DEF Match
<1>11. ASSUME NEW r \in Refreshes, NEW t \in Tokens, Create(r, t) PROVE TypeOK' /\ Known'
    BY <1>11 DEF Create
<1>12. ASSUME NEW t \in Tokens, Expire(t) \/ Purge(t) PROVE TypeOK' /\ Known'
    BY <1>12 DEF Expire, Purge
<1>. QED
    BY <1>1, <1>2, <1>3, <1>4, <1>5, <1>6, <1>7, <1>8, <1>9, <1>10, <1>11, <1>12 DEF Next

\* Every step keeps the order in which accounts open.
LEMMA OpenedStep == TypeOK /\ Known /\ Opened /\ [Next]_vars => Opened'
<1>. SUFFICES ASSUME TypeOK, Known, Opened, [Next]_vars PROVE Opened'
    OBVIOUS
<1>. USE DEF TypeOK, Known, Opened, EntryGo, RefGo, Store
<1>1. CASE UNCHANGED vars
    BY <1>1
<1>2. ASSUME NEW e \in Entries, NEW n \in Tenants, Register(e, n) PROVE Opened'
    BY <1>2 DEF Register
<1>3. ASSUME NEW e \in Entries, NEW n \in Tenants, LogIn(e, n) PROVE Opened'
    BY <1>3 DEF LogIn
<1>4. ASSUME NEW e \in Entries, SetPassword(e) PROVE Opened'
    BY <1>4 DEF SetPassword
<1>5. ASSUME NEW e \in Entries, EntryFails(e) PROVE Opened'
    BY <1>5 DEF EntryFails
<1>6. ASSUME NEW e \in Entries, NEW t \in Tokens, Enter(e, t) PROVE Opened'
    BY <1>6 DEF Enter
<1>7. ASSUME NEW n \in Tenants, Logout(n) PROVE Opened'
    BY <1>7, NoneIsNothing DEF Logout
<1>8. ASSUME NEW n \in Tenants, NEW b \in BOOLEAN, SetActive(n, b) PROVE Opened'
    BY <1>8 DEF SetActive
<1>9. ASSUME NEW r \in Refreshes, Delete(r) \/ Fail(r) \/ Answer(r) PROVE Opened'
    BY <1>9 DEF Delete, Fail, Answer
<1>10. ASSUME NEW r \in Refreshes, NEW t \in Tokens, Match(r, t) PROVE Opened'
    BY <1>10 DEF Match
<1>11. ASSUME NEW r \in Refreshes, NEW t \in Tokens, Create(r, t) PROVE Opened'
    BY <1>11 DEF Create
<1>12. ASSUME NEW t \in Tokens, Expire(t) \/ Purge(t) PROVE Opened'
    BY <1>12 DEF Expire, Purge
<1>. QED
    BY <1>1, <1>2, <1>3, <1>4, <1>5, <1>6, <1>7, <1>8, <1>9, <1>10, <1>11, <1>12 DEF Next

\* A race, once it has happened, stays in the record of the refreshes.
LEMMA RaceStays ==
    ASSUME TypeOK, Known, [Next]_vars, NEW f \in Tokens, Race(f)
    PROVE  Race(f)'
<1>1. \A r \in Refreshes : Matched(r) =>
        Matched(r)' /\ refToken'[r] = refToken[r]
        /\ family'[refToken[r]] = family[refToken[r]]
    BY DEF TypeOK, Known, Next, Register, LogIn, SetPassword, EntryFails, Enter, Logout,
           SetActive, Delete, Fail, Answer, Match, Create, Expire, Purge, EntryGo, RefGo, Store,
           Matched
<1>. QED
    BY <1>1 DEF Race

\* Every step leaves a family without a race with one end.
LEMMA UnforkedStep == TypeOK /\ Known /\ Unforked /\ [Next]_vars => Unforked'
<1>. SUFFICES ASSUME TypeOK, Known, Unforked, [Next]_vars, NEW f \in Tokens, ~Race(f)'
              PROVE  OneEnd(f)'
    BY DEF Unforked
<1>1. OneEnd(f)
    BY RaceStays DEF Unforked
<1>. USE <1>1 DEF TypeOK, Known, OneEnd, InFlight, Stored, RefGo, Store
<1>2. CASE UNCHANGED <<docVars, refVars>>
    BY <1>2
<1>3. ASSUME NEW e \in Entries, NEW t \in Tokens, Enter(e, t) PROVE OneEnd(f)'
    BY <1>3, NoneIsNothing DEF Enter
<1>4. ASSUME NEW n \in Tenants, Logout(n) PROVE OneEnd(f)'
    BY <1>4 DEF Logout
<1>5. ASSUME NEW r \in Refreshes, Delete(r) PROVE OneEnd(f)'
    BY <1>5 DEF Delete
<1>6. ASSUME NEW r \in Refreshes, Fail(r) \/ Answer(r) PROVE OneEnd(f)'
    BY <1>6 DEF Fail, Answer
<1>7. ASSUME NEW r \in Refreshes, NEW t \in Tokens, Match(r, t) PROVE OneEnd(f)'
    BY <1>7 DEF Match, Matches, Race, Matched
<1>8. ASSUME NEW r \in Refreshes, NEW t \in Tokens, Create(r, t) PROVE OneEnd(f)'
    BY <1>8, NoneIsNothing DEF Create
<1>9. ASSUME NEW t \in Tokens, Expire(t) \/ Purge(t) PROVE OneEnd(f)'
    BY <1>9 DEF Expire, Purge
<1>. QED
    BY <1>2, <1>3, <1>4, <1>5, <1>6, <1>7, <1>8, <1>9
       DEF Next, Register, LogIn, SetPassword, EntryFails, SetActive

\* Every step keeps the invariant.
LEMMA TokenStep == TokenInv /\ [Next]_vars => TokenInv'
BY KnownStep, OpenedStep, UnforkedStep DEF TokenInv

\* The invariant holds throughout.
THEOREM TokenInvHolds == Spec => []TokenInv
BY TokenInit, TokenStep, PTL DEF Spec

-----------------------------------------------------------------------------

\* The values the variables take.
THEOREM RefreshTypeCorrect == Spec => []TypeOK
<1>1. TokenInv => TypeOK
    BY DEF TokenInv
<1>. QED
    BY <1>1, TokenInvHolds, PTL

\* A family stays with the tenant that logged in, across rotations.
THEOREM OneTenantPerFamily == Spec => []FamilyHasOneTenant
<1>1. TokenInv => FamilyHasOneTenant
    BY DEF TokenInv, Known, FamilyHasOneTenant
<1>. QED
    BY <1>1, TokenInvHolds, PTL

\* A set whose members are all the same has at most one.
LEMMA AtMostOne ==
    ASSUME NEW S, \A x, y \in S : x = y
    PROVE  IsFiniteSet(S) /\ Cardinality(S) \in {0, 1}
<1>1. CASE S = {}
    BY <1>1, FS_EmptySet
<1>2. ASSUME NEW x \in S PROVE IsFiniteSet(S) /\ Cardinality(S) = 1
    <2>1. S = {x}
        BY <1>2
    <2>. QED  BY <2>1, FS_Singleton
<1>. QED
    BY <1>1, <1>2

\* A tenant without a password has no refresh token, whatever registration has
\* stopped halfway, and at most one request is about to set the password.
THEOREM PasswordBeforeTokens == Spec => []TokensNeedPassword
<1>1. TokenInv => TokensNeedPassword
    <2>. SUFFICES ASSUME TokenInv, NEW n \in Tenants, account[n] # "open"
                  PROVE  /\ \A t \in Tokens : tenant[t] # n
                         /\ Cardinality({e \in Entries : entryOf[e] = n /\ entry[e] = "password"}) <= 1
                         /\ \A e \in Entries : entryOf[e] = n => entry[e] # "token"
        BY DEF TokensNeedPassword
    <2>1. \A t \in Tokens : tenant[t] # n
        BY NoneIsNothing DEF TokenInv, Known, Opened
    <2>2. Cardinality({e \in Entries : entryOf[e] = n /\ entry[e] = "password"}) \in {0, 1}
        BY AtMostOne DEF TokenInv, Opened
    <2>3. \A e \in Entries : entryOf[e] = n => entry[e] # "token"
        BY DEF TokenInv, Opened
    <2>. QED  BY <2>1, <2>2, <2>3
<1>. QED
    BY <1>1, TokenInvHolds, PTL

\* A rotation chain forks only where two refreshes had matched one token.
THEOREM ForksAreRaces == Spec => []ForkNeedsRace
<1>1. TokenInv => ForkNeedsRace
    <2>. SUFFICES ASSUME TokenInv, NEW f \in Tokens, OneEnd(f)
                  PROVE  Cardinality(Heirs(f)) + Cardinality(InFlight(f)) <= 1
        BY DEF TokenInv, Unforked, Race, ForkNeedsRace
    <2>1. Cardinality(InFlight(f)) \in {0, 1}
        BY AtMostOne DEF OneEnd
    <2>2. Cardinality(Heirs(f)) \in {0, 1}
        <3>1. \A s, t \in Heirs(f) : s = t
            BY DEF OneEnd, Heirs
        <3>. QED  BY <3>1, AtMostOne
    <2>3. InFlight(f) # {} => Heirs(f) = {}
        BY DEF OneEnd, Heirs
    <2>. QED  BY <2>1, <2>2, <2>3, FS_EmptySet
<1>. QED
    BY <1>1, TokenInvHolds, PTL

-----------------------------------------------------------------------------
(* RefreshTokens implements LoginSessions.                                  *)

\* A family is alive as long as it has a stored token or a refresh under way.
Alive(f) == Stored(f) \cup InFlight(f) # {}

\* What a family is for LoginSessions.
LEMMA SessionCases ==
    ASSUME NEW f
    PROVE  SessionOf(f) = IF family[f] # f THEN "none"
                          ELSE IF Alive(f) THEN "active" ELSE "over"
BY DEF SessionOf, Alive

\* Only Enter begins a family, and nothing else brings one back to life.
LEMMA FamiliesDie ==
    ASSUME TypeOK, Known, [Next]_vars,
           ~ \E e \in Entries, t \in Tokens : Enter(e, t),
           NEW f \in Tokens
    PROVE  /\ family'[f] = f <=> family[f] = f
           /\ family[f] = f /\ Alive(f)' => Alive(f)
<1>. USE NoneIsNothing DEF TypeOK, Known, Alive, InFlight, Stored, RefGo, Store
<1>1. CASE UNCHANGED <<docVars, refVars>>
    BY <1>1
<1>2. ASSUME NEW n \in Tenants, Logout(n)
      PROVE  family' = family /\ (Alive(f)' => Alive(f))
    BY <1>2 DEF Logout
<1>3. ASSUME NEW r \in Refreshes, Delete(r) \/ Fail(r) \/ Answer(r)
      PROVE  family' = family /\ (Alive(f)' => Alive(f))
    BY <1>3 DEF Delete, Fail, Answer
<1>4. ASSUME NEW r \in Refreshes, NEW t \in Tokens, Match(r, t)
      PROVE  family' = family /\ (Alive(f)' => Alive(f))
    BY <1>4 DEF Match, Matches
<1>5. ASSUME NEW r \in Refreshes, NEW t \in Tokens, Create(r, t)
      PROVE  (family'[f] = f <=> family[f] = f) /\ (family[f] = f /\ Alive(f)' => Alive(f))
    BY <1>5 DEF Create
<1>6. ASSUME NEW t \in Tokens, Expire(t) \/ Purge(t)
      PROVE  family' = family /\ (Alive(f)' => Alive(f))
    BY <1>6 DEF Expire, Purge
<1>. QED
    BY <1>1, <1>2, <1>3, <1>4, <1>5, <1>6
       DEF Next, Register, LogIn, SetPassword, EntryFails, SetActive

\* Enter begins the session of its token and leaves the others as they are.
LEMMA EnterBegins ==
    ASSUME TypeOK, Known, NEW e \in Entries, NEW t \in Tokens, Enter(e, t)
    PROVE  /\ family[t] # t /\ family'[t] = t /\ Alive(t)'
           /\ \A f \in Tokens \ {t} :
                (family'[f] = f <=> family[f] = f) /\ (Alive(f)' <=> Alive(f))
BY NoneIsNothing DEF TypeOK, Known, Alive, InFlight, Stored, Enter, Store, EntryGo

\* The sessions of LoginSessions that the tokens stand for.
sessionBar == [f \in Tokens |-> SessionOf(f)]

\* Initial states map to initial states.
LEMMA SessionInit == Init => Session!Init
<1>. SUFFICES ASSUME Init PROVE sessionBar = [f \in Tokens |-> "none"]
    BY DEF Session!Init, sessionBar
<1>1. \A f \in Tokens : family[f] # f
    BY NoneIsNothing DEF Init
<1>. QED
    BY <1>1, SessionCases DEF sessionBar

\* Every step begins a session, ends some, or leaves them all as they are.
LEMMA SessionStep == TypeOK /\ Known /\ [Next]_vars => [Session!Next]_sessionBar
<1>. SUFFICES ASSUME TypeOK, Known, [Next]_vars PROVE Session!Next
    OBVIOUS
<1>1. ASSUME NEW e \in Entries, NEW t \in Tokens, Enter(e, t) PROVE Session!Begin(t)
    <2>1. sessionBar[t] = "none"
        BY <1>1, EnterBegins, SessionCases DEF sessionBar
    <2>2. sessionBar' = [sessionBar EXCEPT ![t] = "active"]
        <3>1. \A f \in Tokens :
                SessionOf(f)' = IF f = t THEN "active" ELSE SessionOf(f)
            BY <1>1, EnterBegins DEF SessionOf, Alive
        <3>. QED  BY <3>1 DEF sessionBar
    <2>. QED  BY <2>1, <2>2 DEF Session!Begin, sessionBar
<1>2. ASSUME ~ \E e \in Entries, t \in Tokens : Enter(e, t)
      PROVE  Session!End({f \in Tokens : SessionOf(f) # SessionOf(f)'})
    <2>. DEFINE S == {f \in Tokens : SessionOf(f) # SessionOf(f)'}
    <2>1. \A f \in Tokens : /\ SessionOf(f)' = IF f \in S THEN "over" ELSE SessionOf(f)
                            /\ f \in S => SessionOf(f) = "active"
        BY <1>2, FamiliesDie DEF SessionOf, Alive
    <2>2. sessionBar' = [f \in Tokens |-> IF f \in S THEN "over" ELSE sessionBar[f]]
        BY <2>1 DEF sessionBar
    <2>. QED  BY <2>1, <2>2 DEF Session!End, sessionBar
<1>. QED
    BY <1>1, <1>2 DEF Session!Next

\* Refresh tokens implement login sessions: what is over stays over.
THEOREM ImplementsLoginSessions == Spec => SessionSpec
<1>1. TokenInv /\ [Next]_vars => [Session!Next]_sessionBar
    BY SessionStep DEF TokenInv
<1>. QED
    BY <1>1, SessionInit, TokenInvHolds, PTL DEF Spec, SessionSpec, Session!Spec, sessionBar

=============================================================================
