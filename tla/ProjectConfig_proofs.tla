------------------------ MODULE ProjectConfig_proofs ------------------------
(***************************************************************************)
(* Proofs about ProjectConfig, for any number of edits and connections and *)
(* any limit on the tools: the tools array keeps its names apart and stays *)
(* within the plan, and a stale cache has one of the two causes it may     *)
(* have.                                                                   *)
(***************************************************************************)
EXTENDS ProjectConfig, FiniteSetTheorems, SequenceTheorems, TLAPS

-----------------------------------------------------------------------------
(* The filter of delete_tool.                                               *)

\* Finitely many positions can be listed in increasing order, so that InOrder
\* picks such a list: a position goes where its rank among them is.
LEMMA PositionsInOrder ==
    ASSUME NEW n \in Nat, NEW K \in SUBSET (1 .. n)
    PROVE  /\ InOrder(K) \in [1 .. Cardinality(K) -> K]
           /\ \A i, j \in 1 .. Cardinality(K) : i < j => InOrder(K)[i] < InOrder(K)[j]
<1>. DEFINE c == Cardinality(K)
            Upto(k) == {j \in K : j <= k}
            rank == [k \in K |-> Cardinality(Upto(k))]
<1>1. IsFiniteSet(K) /\ c \in Nat /\ K \subseteq Nat
    <2>1. IsFiniteSet(1 .. n)
        BY FS_Interval
    <2>2. IsFiniteSet(K)
        BY <2>1, FS_Subset
    <2>. QED  BY <2>2, FS_CardinalityType
<1>2. ASSUME NEW k \in K
      PROVE  IsFiniteSet(Upto(k)) /\ rank[k] \in 1 .. c
    <2>1. Upto(k) \in SUBSET K /\ k \in Upto(k)
        OBVIOUS
    <2>2. IsFiniteSet(Upto(k)) /\ Cardinality(Upto(k)) <= c
        BY <1>1, <2>1, FS_Subset, Zenon
    <2>3. Cardinality(Upto(k)) \in Nat /\ Cardinality(Upto(k)) # 0
        BY <2>1, <2>2, FS_CardinalityType, FS_EmptySet
    <2>. QED  BY <1>1, <2>2, <2>3
<1>3. ASSUME NEW k \in K, NEW l \in K, k < l
      PROVE  rank[k] < rank[l]
    <2>. k \in Nat /\ l \in Nat /\ \A j \in K : j \in Nat
        BY <1>1
    <2>1. Upto(k) \in SUBSET Upto(l) /\ l \in Upto(l) /\ l \notin Upto(k)
        <3>1. l <= l /\ ~(l <= k) /\ \A j \in K : j <= k => j <= l
            BY <1>3
        <3>. QED  BY <3>1, Zenon
    <2>2. /\ Cardinality(Upto(k)) <= Cardinality(Upto(l))
          /\ Cardinality(Upto(k)) = Cardinality(Upto(l)) => Upto(k) = Upto(l)
        BY <1>2, <2>1, FS_Subset, Zenon
    <2>3. Cardinality(Upto(k)) # Cardinality(Upto(l))
        BY <2>1, <2>2
    <2>. QED  BY <1>2, <2>2, <2>3
<1>. HIDE DEF rank
<1>4. rank \in [K -> 1 .. c]
    BY <1>2 DEF rank
<1>5. \A k, l \in K : rank[k] = rank[l] => k = l
    BY <1>3, <1>4
<1>6. rank \in Injection(K, 1 .. c)
    BY <1>4, <1>5 DEF Injection, IsInjective
<1>7. rank \in Surjection(K, 1 .. c)
    <2>1. IsFiniteSet(1 .. c) /\ Cardinality(1 .. c) = c
        BY <1>1, FS_Interval
    <2>. QED  BY <1>6, <2>1, FS_Injection
<1>8. \A i \in 1 .. c : \E k \in K : rank[k] = i
    BY <1>7 DEF Surjection
<1>. DEFINE f == [i \in 1 .. c |-> CHOOSE k \in K : rank[k] = i]
<1>9. f \in [1 .. c -> K] /\ \A i \in 1 .. c : rank[f[i]] = i
    BY <1>8
<1>. HIDE DEF f
<1>10. \A i, j \in DOMAIN f : i < j => f[i] < f[j]
    <2>. SUFFICES ASSUME NEW i \in 1 .. c, NEW j \in 1 .. c, i < j, ~(f[i] < f[j])
                  PROVE  FALSE
        BY <1>9
    <2>1. f[i] \in K /\ f[j] \in K /\ rank[f[i]] = i /\ rank[f[j]] = j
        BY <1>9
    <2>. f[i] \in Nat /\ f[j] \in Nat
        BY <1>1, <2>1
    <2>2. f[i] = f[j] \/ f[j] < f[i]
        OBVIOUS
    <2>3. f[i] # f[j] /\ ~(j < i)
        BY <1>1, <2>1
    <2>4. ~(f[j] < f[i])
        BY <1>3, <2>1, <2>3
    <2>. QED  BY <2>2, <2>3, <2>4
<1>11. /\ InOrder(K) \in [1 .. c -> K]
       /\ \A i, j \in DOMAIN InOrder(K) : i < j => InOrder(K)[i] < InOrder(K)[j]
    BY <1>9, <1>10 DEF InOrder
<1>. QED  BY <1>11

\* No two entries of an array have one name.
Distinct(s) == \A j, k \in DOMAIN s : s[j] = s[k] => j = k

\* Deleting a tool leaves a subsequence: it is no longer than the array, and
\* distinct names stay distinct.
LEMMA WithoutShrinks ==
    ASSUME tools \in Seq(Names), Distinct(tools), NEW n \in Names
    PROVE  /\ Without(n) \in Seq(Names) /\ Distinct(Without(n))
           /\ Len(Without(n)) <= Len(tools)
<1>. DEFINE K == {k \in DOMAIN tools : tools[k] # n}
            c == Cardinality(K)
<1>1. Len(tools) \in Nat /\ K \in SUBSET (1 .. Len(tools))
    BY LenProperties
<1>2. c \in Nat /\ c <= Len(tools)
    <2>1. IsFiniteSet(1 .. Len(tools)) /\ Cardinality(1 .. Len(tools)) = Len(tools)
        BY <1>1, FS_Interval, SMTT(30)
    <2>. QED  BY <1>1, <2>1, FS_Subset, FS_CardinalityType
<1>3. /\ InOrder(K) \in [1 .. c -> K]
      /\ \A i, j \in 1 .. c : i < j => InOrder(K)[i] < InOrder(K)[j]
    BY <1>1, PositionsInOrder
<1>4. Without(n) = [i \in 1 .. c |-> tools[InOrder(K)[i]]]
    BY DEF Without
<1>. HIDE DEF K, c
<1>5. \A k \in K : k \in DOMAIN tools /\ tools[k] \in Names /\ k \in Nat
    BY <1>1
<1>6. Without(n) \in [1 .. c -> Names]
    BY <1>3, <1>4, <1>5
<1>7. Without(n) \in Seq(Names) /\ Len(Without(n)) = c
    BY <1>2, <1>6
<1>8. ASSUME NEW i \in 1 .. c, NEW j \in 1 .. c, Without(n)[i] = Without(n)[j]
      PROVE  i = j
    <2>1. InOrder(K)[i] \in K /\ InOrder(K)[j] \in K /\ InOrder(K)[i] = InOrder(K)[j]
        BY <1>3, <1>4, <1>5, <1>8 DEF Distinct
    <2>2. InOrder(K)[i] \in Nat
        BY <1>5, <2>1
    <2>. QED  BY <1>2, <1>3, <2>1, <2>2
<1>. QED  BY <1>2, <1>6, <1>7, <1>8 DEF Distinct

\* Adding a tool whose name is new keeps the names apart.
LEMMA AppendKeeps ==
    ASSUME tools \in Seq(Names), Distinct(tools), NEW n \in Names, ~HasTool(n)
    PROVE  /\ Append(tools, n) \in Seq(Names) /\ Distinct(Append(tools, n))
           /\ Len(Append(tools, n)) = Len(tools) + 1
BY AppendProperties, LenProperties DEF Distinct, HasTool

-----------------------------------------------------------------------------
(* The inductive invariant.                                                 *)

\* What an edit is going to write is an array it has checked.
Prepared == \A e \in Edits : Distinct(newTools[e]) /\ Len(newTools[e]) <= MaxTools

\* What a connection is going to cache is no newer than the document, and
\* the document it has read was that of an active project.
Behind ==
    \A c \in Connections : conn[c] = "fill" =>
        got[c] <= rev /\ (got[c] = rev => active)

ConfigInv ==
    /\ TypeOK
    /\ NamesUnique /\ ToolsWithinPlan
    /\ Prepared
    /\ Behind
    /\ StaleIsExplained

\* The arrays that an edit prepares keep their names apart and within the plan.
LEMMA EditedIsSound ==
    ASSUME ConfigInv, NEW o \in Ops, NEW n \in Names, Allowed(o, n)
    PROVE  /\ Edited(o, n) \in Seq(Names) /\ Distinct(Edited(o, n))
           /\ Len(Edited(o, n)) <= MaxTools
<1>1. tools \in Seq(Names) /\ Distinct(tools) /\ Len(tools) <= MaxTools /\ Len(tools) \in Nat
    BY LenProperties DEF ConfigInv, TypeOK, NamesUnique, ToolsWithinPlan, Distinct
<1>2. CASE o = "addTool"
    <2>1. ~HasTool(n) /\ WithinToolLimit /\ Edited(o, n) = Append(tools, n)
        BY <1>2, Zenon DEF Allowed, Edited
    <2>. QED  BY <1>1, <2>1, AppendKeeps, LimitIsNumber DEF WithinToolLimit
<1>3. CASE o = "dropTool"
    <2>1. Edited(o, n) = Without(n)
        BY <1>3 DEF Edited
    <2>2. Len(Without(n)) \in Nat
        BY <1>1, WithoutShrinks, LenProperties
    <2>. QED  BY <1>1, <2>1, <2>2, WithoutShrinks, LimitIsNumber
<1>4. CASE o = "setTool"
    <2>1. Edited(o, n) = tools
        BY <1>4 DEF Edited
    <2>. QED  BY <1>1, <2>1
<1>5. CASE o \in {"set", "delete"}
    <2>1. Edited(o, n) = <<>>
        BY <1>5 DEF Edited
    <2>2. Distinct(<<>>) /\ <<>> \in Seq(Names) /\ Len(<<>>) = 0
        BY EmptySeq DEF Distinct
    <2>. QED  BY <2>1, <2>2, LimitIsNumber
<1>. QED  BY <1>2, <1>3, <1>4, <1>5 DEF Ops

\* Before any request the document is within its limits and nothing is cached.
LEMMA InitInv == Init => ConfigInv
<1>. SUFFICES ASSUME Init PROVE ConfigInv
    OBVIOUS
<1>1. tools \in Seq(Names) /\ NamesUnique
    <2>1. CASE tools = <<>>
        BY <2>1, EmptySeq DEF NamesUnique
    <2>2. CASE \E n \in Names : tools = <<n>>
        BY <2>2 DEF NamesUnique
    <2>. QED  BY <2>1, <2>2 DEF Init
<1>2. Prepared /\ Behind /\ StaleIsExplained /\ ToolsWithinPlan
    BY LimitIsNumber, EmptySeq
       DEF Init, Prepared, Distinct, Behind, StaleIsExplained, ToolsWithinPlan
<1>3. TypeOK
    BY <1>1, EmptySeq DEF Init, TypeOK, Ops
<1>. QED  BY <1>1, <1>2, <1>3 DEF ConfigInv

\* An edit's first command prepares what its later ones write.
LEMMA ReadKeeps ==
    ASSUME ConfigInv, NEW e \in Edits, NEW o \in Ops, NEW n \in Names, Read(e, o, n)
    PROVE  ConfigInv'
<1>1. /\ Edited(o, n) \in Seq(Names) /\ Distinct(Edited(o, n))
      /\ Len(Edited(o, n)) <= MaxTools
    BY EditedIsSound DEF Read
<1>2. UNCHANGED <<docVars, cacheVars, connVars>>
    BY DEF Read
<1>3. newTools' = [newTools EXCEPT ![e] = Edited(o, n)] /\ newTools \in [Edits -> Seq(Names)]
    BY DEF Read, ConfigInv, TypeOK
<1>4. Prepared'
    BY <1>1, <1>3 DEF ConfigInv, Prepared
<1>5. TypeOK'
    BY <1>1, <1>2, <1>3 DEF Read, ConfigInv, TypeOK, docVars, cacheVars, connVars
<1>6. NamesUnique' /\ ToolsWithinPlan' /\ Behind'
    BY <1>2 DEF ConfigInv, NamesUnique, ToolsWithinPlan, Behind, docVars, connVars
<1>7. StaleIsExplained'
    BY <1>2 DEF Read, ConfigInv, TypeOK, StaleIsExplained, docVars, cacheVars
<1>. QED  BY <1>4, <1>5, <1>6, <1>7 DEF ConfigInv

\* A write puts the prepared array in place and owes an invalidation.
LEMMA WriteKeeps ==
    ASSUME ConfigInv, NEW e \in Edits, Write(e)
    PROVE  ConfigInv'
<1>1. /\ Tools(e) \in Seq(Names) /\ Distinct(Tools(e)) /\ Len(Tools(e)) <= MaxTools
    BY DEF ConfigInv, TypeOK, NamesUnique, ToolsWithinPlan, Prepared, Distinct, Tools
<1>2. TypeOK'
    BY <1>1 DEF Write, ConfigInv, TypeOK, cacheVars, connVars
<1>3. NamesUnique' /\ ToolsWithinPlan'
    BY <1>1 DEF Write, NamesUnique, ToolsWithinPlan, Distinct
<1>4. Prepared'
    BY DEF Write, ConfigInv, Prepared
<1>5. Behind'
    BY DEF Write, ConfigInv, TypeOK, Behind, connVars
<1>6. StaleIsExplained'
    BY DEF Write, ConfigInv, TypeOK, StaleIsExplained
<1>. QED  BY <1>2, <1>3, <1>4, <1>5, <1>6 DEF ConfigInv

\* An invalidation empties the cache; one that fails stays on record.
LEMMA InvalidateKeeps ==
    ASSUME ConfigInv, NEW e \in Edits, Invalidate(e) \/ InvalidateFails(e)
    PROVE  ConfigInv'
<1>1. UNCHANGED <<docVars, newTools, op, connVars>>
    BY DEF Invalidate, InvalidateFails
<1>2. NamesUnique' /\ ToolsWithinPlan' /\ Prepared' /\ Behind'
    BY <1>1 DEF ConfigInv, NamesUnique, ToolsWithinPlan, Prepared, Behind, docVars, connVars
<1>3. TypeOK'
    BY <1>1 DEF Invalidate, InvalidateFails, Evict, ConfigInv, TypeOK, docVars, connVars, cacheVars
<1>4. StaleIsExplained'
    BY <1>1
       DEF Invalidate, InvalidateFails, Evict, ConfigInv, TypeOK, StaleIsExplained, docVars,
           cacheVars
<1>. QED  BY <1>2, <1>3, <1>4 DEF ConfigInv

\* A connection caches the document's configuration, or an older one and then
\* says so.
LEMMA ConnectionKeeps ==
    ASSUME ConfigInv, NEW c \in Connections, ReadCache(c) \/ ReadDoc(c) \/ Fill(c)
    PROVE  ConfigInv'
<1>1. UNCHANGED <<docVars, editVars>>
    BY DEF ReadCache, ReadDoc, Fill
<1>2. NamesUnique' /\ ToolsWithinPlan' /\ Prepared'
    BY <1>1 DEF ConfigInv, NamesUnique, ToolsWithinPlan, Prepared, docVars, editVars
<1>3. Behind'
    BY <1>1 DEF ReadCache, ReadDoc, Fill, ConfigInv, TypeOK, Behind, docVars
<1>4. TypeOK'
    <2>1. CASE ReadCache(c)
        BY <1>1, <2>1 DEF ReadCache, ConfigInv, TypeOK, docVars, editVars, cacheVars
    <2>2. CASE ReadDoc(c)
        BY <1>1, <2>2 DEF ReadDoc, ConfigInv, TypeOK, docVars, editVars, cacheVars
    <2>3. CASE Fill(c)
        BY <1>1, <2>3 DEF Fill, ConfigInv, TypeOK, docVars, editVars
    <2>. QED  BY <2>1, <2>2, <2>3
<1>5. StaleIsExplained'
    <2>1. CASE ReadCache(c) \/ ReadDoc(c)
        <3>1. UNCHANGED cacheVars
            BY <2>1 DEF ReadCache, ReadDoc
        <3>. QED
            BY <1>1, <3>1 DEF ConfigInv, StaleIsExplained, docVars, editVars, cacheVars
    <2>2. CASE Fill(c) /\ got[c] = rev
        BY <1>1, <2>2 DEF Fill, ConfigInv, Behind, StaleIsExplained, docVars
    <2>3. CASE Fill(c) /\ got[c] # rev
        <3>1. heldBack'
            BY <2>3, Zenon DEF Fill
        <3>. QED  BY <3>1 DEF StaleIsExplained
    <2>. QED  BY <2>1, <2>2, <2>3
<1>. QED  BY <1>2, <1>3, <1>4, <1>5 DEF ConfigInv

\* Every step keeps the invariant.
LEMMA NextKeeps == ConfigInv /\ [Next]_vars => ConfigInv'
<1>. SUFFICES ASSUME ConfigInv, [Next]_vars PROVE ConfigInv'
    OBVIOUS
<1>1. CASE UNCHANGED vars
    BY <1>1
       DEF vars, docVars, cacheVars, editVars, connVars, ConfigInv, TypeOK, NamesUnique,
           ToolsWithinPlan, Prepared, Behind, StaleIsExplained
<1>2. CASE Expire
    <2>1. UNCHANGED <<docVars, editVars, connVars>>
        BY <1>2 DEF Expire
    <2>2. NamesUnique' /\ ToolsWithinPlan' /\ Prepared' /\ Behind'
        BY <2>1
           DEF ConfigInv, NamesUnique, ToolsWithinPlan, Prepared, Behind, docVars, editVars,
               connVars
    <2>3. TypeOK' /\ StaleIsExplained'
        BY <1>2, <2>1
           DEF Expire, Evict, ConfigInv, TypeOK, StaleIsExplained, docVars, editVars, connVars
    <2>. QED  BY <2>2, <2>3 DEF ConfigInv
<1>. QED
    BY <1>1, <1>2, ReadKeeps, WriteKeeps, InvalidateKeeps, ConnectionKeeps DEF Next

-----------------------------------------------------------------------------
(* Theorems.                                                                *)

\* The invariant holds in every reachable state.
THEOREM ConfigInvHolds == Spec => []ConfigInv
BY InitInv, NextKeeps, PTL DEF Spec

\* The variables keep their types, and a connection that goes on holds a
\* configuration, for every limit, edit and connection.
THEOREM ConfigTypeCorrect == Spec => []TypeOK
<1>1. ConfigInv => TypeOK
    BY DEF ConfigInv
<1>. QED  BY <1>1, ConfigInvHolds, PTL

\* However many edits overlap, add_tool, update_tool and delete_tool leave no
\* two tools with one name.
THEOREM ToolNamesStayUnique == Spec => []NamesUnique
<1>1. ConfigInv => NamesUnique
    BY DEF ConfigInv
<1>. QED  BY <1>1, ConfigInvHolds, PTL

\* However many edits overlap, the tools stay within max_tools_per_project.
THEOREM ToolLimitHolds == Spec => []ToolsWithinPlan
<1>1. ConfigInv => ToolsWithinPlan
    BY DEF ConfigInv
<1>. QED  BY <1>1, ConfigInvHolds, PTL

\* A cached configuration that is not the document's was old when a connection
\* cached it, or an edit's invalidation is outstanding or has failed.
THEOREM StaleOnlyFromTwoCauses == Spec => []StaleIsExplained
<1>1. ConfigInv => StaleIsExplained
    BY DEF ConfigInv
<1>. QED  BY <1>1, ConfigInvHolds, PTL

=============================================================================
