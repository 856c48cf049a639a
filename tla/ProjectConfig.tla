--------------------------- MODULE ProjectConfig ---------------------------
(***************************************************************************)
(* One project: its MongoDB document, the copy of its configuration in     *)
(* Redis, the dashboard requests that edit the document (api/projects,     *)
(* repositories/project_repo) and the connections that resolve the         *)
(* configuration through the cache.                                        *)
(*                                                                         *)
(* Every edit reads the document, checks, writes and invalidates; every    *)
(* connection reads the cache, then perhaps the document, then fills the   *)
(* cache.  Each of these database commands is an action.                   *)
(***************************************************************************)
EXTENDS Naturals, Sequences, FiniteSets

CONSTANTS
    Edits,        \* dashboard requests that change the project
    Connections,  \* requests that resolve its configuration
    Names,        \* tool names
    MaxTools,     \* plan.max_tools_per_project
    None

ASSUME LimitIsNumber == MaxTools \in Nat

VARIABLES
    rev,       \* the document's revision: each $set writes a new updated_at
    active,    \* is_active
    tools,     \* the names in the tools array
    cache,     \* revision of the cached configuration, or None
    expires,   \* the cache key has a TTL
    edit,      \* where each edit is
    op,        \* what it does
    newTools,  \* the tools array it is going to write
    conn,      \* where each connection is
    got,       \* revision of the configuration it holds
    heldBack   \* the cached revision was already old when it was cached

docVars   == <<rev, active, tools>>
cacheVars == <<cache, expires, heldBack>>
editVars  == <<edit, op, newTools>>
connVars  == <<conn, got>>
vars == <<docVars, cacheVars, editVars, connVars>>

Ops == {"set", "delete", "addTool", "setTool", "dropTool"}

Init ==
    /\ rev = 0 /\ active = TRUE
    /\ tools \in {<<>>} \cup {<<n>> : n \in Names}
    /\ Len(tools) <= MaxTools
    /\ cache = None /\ expires = FALSE /\ heldBack = FALSE
    /\ edit = [e \in Edits |-> "new"]
    /\ op = [e \in Edits |-> None]
    /\ newTools = [e \in Edits |-> <<>>]
    /\ conn = [c \in Connections |-> "new"]
    /\ got = [c \in Connections |-> None]

-----------------------------------------------------------------------------
(* Edits.  The document is found whether or not it is active.               *)

\* The tools array each kind of edit writes, and whether its checks pass.
HasTool(n) == \E k \in DOMAIN tools : tools[k] = n

MutantWithinToolLimit == Len(tools) <= MaxTools
WithinToolLimit == Len(tools) < MaxTools

Allowed(o, n) ==
    CASE o = "addTool"                 -> ~HasTool(n) /\ WithinToolLimit
      [] o \in {"setTool", "dropTool"} -> HasTool(n)
      [] OTHER                         -> TRUE

\* The filter of delete_tool: the entries at the positions to keep, in order.
InOrder(K) ==
    CHOOSE f \in [1 .. Cardinality(K) -> K] :
        \A i, j \in DOMAIN f : i < j => f[i] < f[j]

Without(n) ==
    LET kept == {k \in DOMAIN tools : tools[k] # n}
    IN  [i \in 1 .. Cardinality(kept) |-> tools[InOrder(kept)[i]]]

Edited(o, n) ==
    CASE o = "addTool"  -> Append(tools, n)
      [] o = "dropTool" -> Without(n)
      [] o = "setTool"  -> tools
      [] OTHER          -> <<>>

\* get_by_id and the checks; 404, 403, 409 and 422 change nothing.
Read(e, o, n) ==
    /\ edit[e] = "new"
    /\ Allowed(o, n)
    /\ edit' = [edit EXCEPT ![e] = "write"]
    /\ op' = [op EXCEPT ![e] = o]
    /\ newTools' = [newTools EXCEPT ![e] = Edited(o, n)]
    /\ UNCHANGED <<docVars, cacheVars, connVars>>

\* update_one: the fields of the edit, the tools array as a whole.
MutantTools(e) ==
    IF op[e] = "addTool" THEN Append(tools, newTools[e][Len(newTools[e])])
    ELSE IF op[e] \in {"setTool", "dropTool"} THEN newTools[e] ELSE tools
Tools(e) == IF op[e] \in {"set", "delete"} THEN tools ELSE newTools[e]

MutantWrite(e) ==
    /\ edit[e] = "write"
    /\ rev' = rev + 1
    /\ active' = (active /\ op[e] # "delete")
    /\ tools' = Tools(e)
    /\ edit' = [edit EXCEPT ![e] = IF op[e] = "set" THEN "done" ELSE "invalidate"]
    /\ UNCHANGED <<cacheVars, op, newTools, connVars>>

Write(e) ==
    /\ edit[e] = "write"
    /\ rev' = rev + 1
    /\ active' = (active /\ op[e] # "delete")
    /\ tools' = Tools(e)
    /\ edit' = [edit EXCEPT ![e] = "invalidate"]
    /\ UNCHANGED <<cacheVars, op, newTools, connVars>>

\* update() invalidates; soft_delete() does so once more.
Evict == cache' = None /\ expires' = FALSE /\ heldBack' = FALSE

Invalidate(e) ==
    /\ \/ edit[e] = "invalidate"
          /\ edit' = [edit EXCEPT ![e] = IF op[e] = "delete" THEN "again" ELSE "done"]
       \/ edit[e] = "again" /\ edit' = [edit EXCEPT ![e] = "done"]
    /\ Evict
    /\ UNCHANGED <<docVars, op, newTools, connVars>>

\* Redis fails or the process stops: the write stays, the cache is not told.
InvalidateFails(e) ==
    /\ edit[e] \in {"invalidate", "again"}
    /\ edit' = [edit EXCEPT ![e] = "failed"]
    /\ UNCHANGED <<docVars, cacheVars, op, newTools, connVars>>

-----------------------------------------------------------------------------
(* Connections: get_config_for_key and get_config_by_id.                    *)

MutantReadCache(c) ==
    /\ conn[c] = "new"
    /\ conn' = [conn EXCEPT ![c] = "served"]
    /\ got' = [got EXCEPT ![c] = cache]
    /\ UNCHANGED <<docVars, cacheVars, editVars>>

ReadCache(c) ==
    /\ conn[c] = "new"
    /\ conn' = [conn EXCEPT ![c] = IF cache = None THEN "miss" ELSE "served"]
    /\ got' = [got EXCEPT ![c] = cache]
    /\ UNCHANGED <<docVars, cacheVars, editVars>>

ReadDoc(c) ==
    /\ conn[c] = "miss"
    /\ conn' = [conn EXCEPT ![c] = IF active THEN "fill" ELSE "refused"]
    /\ got' = [got EXCEPT ![c] = IF active THEN rev ELSE None]
    /\ UNCHANGED <<docVars, cacheVars, editVars>>

MutantFill(c) ==
    /\ conn[c] = "fill"
    /\ conn' = [conn EXCEPT ![c] = "served"]
    /\ cache' = got[c] /\ expires' = FALSE
    /\ heldBack' = (got[c] # rev)
    /\ UNCHANGED <<docVars, editVars, got>>

Fill(c) ==
    /\ conn[c] = "fill"
    /\ conn' = [conn EXCEPT ![c] = "served"]
    /\ cache' = got[c] /\ expires' = TRUE
    /\ heldBack' = (got[c] # rev)
    /\ UNCHANGED <<docVars, editVars, got>>

\* The key's TTL runs out.
Expire ==
    /\ cache # None /\ expires
    /\ Evict
    /\ UNCHANGED <<docVars, editVars, connVars>>

-----------------------------------------------------------------------------
Next ==
    \/ \E e \in Edits :
         \/ \E o \in Ops, n \in Names : Read(e, o, n)
         \/ Write(e) \/ Invalidate(e) \/ InvalidateFails(e)
    \/ \E c \in Connections : ReadCache(c) \/ ReadDoc(c) \/ Fill(c)
    \/ Expire

Spec == Init /\ [][Next]_vars

(* Fairness.  Requests that have begun go on, and Redis drops expired keys. *)
Fairness ==
    /\ \A e \in Edits : WF_vars(Write(e)) /\ WF_vars(Invalidate(e))
    /\ \A c \in Connections : WF_vars(ReadDoc(c)) /\ WF_vars(Fill(c))
    /\ WF_vars(Expire)

FairSpec == Spec /\ Fairness

-----------------------------------------------------------------------------
(* Properties.                                                              *)

\* The values the variables take; a connection that goes on has a configuration.
TypeOK ==
    /\ rev \in Nat /\ active \in BOOLEAN /\ tools \in Seq(Names)
    /\ cache \in Nat \cup {None}
    /\ expires \in BOOLEAN /\ heldBack \in BOOLEAN
    /\ edit \in [Edits -> {"new", "write", "invalidate", "again", "done", "failed"}]
    /\ op \in [Edits -> Ops \cup {None}]
    /\ newTools \in [Edits -> Seq(Names)]
    /\ conn \in [Connections -> {"new", "miss", "fill", "served", "refused"}]
    /\ got \in [Connections -> Nat \cup {None}]
    /\ \A c \in Connections : conn[c] \in {"fill", "served"} => got[c] \in Nat

\* However edits overlap, the tools array never holds two tools of one name:
\* each edit writes back, as a whole, an array it has checked.
NamesUnique == \A j, k \in DOMAIN tools : tools[j] = tools[k] => j = k

\* Nor does it outgrow the plan, although the count is checked one database
\* command before the write.
ToolsWithinPlan == Len(tools) <= MaxTools

\* A cached configuration that is not the document's has one of two causes: an
\* edit whose invalidation is outstanding or has failed, or a connection that
\* filled the cache with what it had read before an edit.
StaleIsExplained ==
    cache # None /\ (cache # rev \/ ~active) =>
        \/ heldBack
        \/ \E e \in Edits : edit[e] \in {"invalidate", "again", "failed"}

\* Once edits and connections have come to rest, so has the cache: it is empty
\* or holds the document's configuration, and is empty for a deleted project.
CacheSettles == <>[](cache # None => cache = rev /\ active)

=============================================================================
