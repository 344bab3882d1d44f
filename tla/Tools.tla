------------------------------- MODULE Tools -------------------------------
(***************************************************************************)
(* The tools an agent may use: the native ones and one tool of an external *)
(* MCP server, the administration that governs them, the calls of agents'  *)
(* turns and their audit (application/tools.py, mcp_tools.py,              *)
(* run_policy.py, mcp_connections.py, agent_tool_policy.py, the management *)
(* routes of api/routers/teams.py, and Database.uow).                      *)
(*                                                                         *)
(* A turn is one unit of work: it is bound to a snapshot of the native     *)
(* grants, calls tools, and commits or rolls back; the audit records are   *)
(* written by a transaction of their own after that.  Reads are            *)
(* transactions of their own.  What a native tool does is module Board; an *)
(* argument too large or not of the schema is a call that fails.  The      *)
(* definition of the external tool is a version number.                    *)
(***************************************************************************)
EXTENDS Integers, FiniteSets

CONSTANTS
  Turns,      \* units of work in which tools are called
  Admins,     \* concurrent management requests
  Versions,   \* definitions the server of the tool may offer
  NoVersion,
  Keep,       \* audit rows that are retained
  MaxOps      \* bound of the model: management requests and tool calls

ASSUME VersionAssumption == NoVersion \notin Versions
ASSUME BoundAssumption == Keep \in Nat \ {0} /\ MaxOps \in Nat

VARIABLES
  offered,    \* what the server offers now
  conn,       \* mcp_connection: none, off or on
  tool,       \* mcp_discovered_tool: its definition and approval state
  grant,      \* agent_tool_permission of the external tool
  native,     \* ... of the native one
  admin,      \* what each management request is at
  turn,       \* what each turn is at
  calls,      \* the AgentToolCall objects, in the order of their creation
  audit,      \* agent_tool_call
  ops,
  held,       \* history: conditions that held at some time since the call began
  signed,     \* history: definitions that were in the row when it was approved
  lost        \* history: calls whose records a crash or an error has cost

history == <<held, signed, lost>>
vars == <<offered, conn, tool, grant, native, admin, turn, calls, audit, ops, history>>

Offers == Versions \union {NoVersion}
Unknown == [ver |-> NoVersion, state |-> "none"]
Idle == [pc |-> "idle", offer |-> NoVersion, row |-> Unknown, pick |-> FALSE]
NoTurn == [pc |-> "idle", human |-> FALSE, permitted |-> FALSE, trusted |-> FALSE,
           native |-> FALSE, catalog |-> FALSE, seen |-> {}, call |-> 0]
Call == [by : Turns, external : BOOLEAN, acted : BOOLEAN,
         status : {"allowed", "blocked", "failed", "succeeded"}]

-----------------------------------------------------------------------------
\* Conditions of an external call.

Conditions ==
  {c \in {"connection", "tool", "grant"} :
     \/ c = "connection" /\ conn = "on"
     \/ c = "tool" /\ tool.state = "approved"
     \/ c = "grant" /\ grant}

All == {"connection", "tool", "grant"}

\* The history of the calls under way, after a step that changes the conditions.
Observed ==
  held' = [t \in Turns |-> IF turn[t].call = 0 THEN {} ELSE held[t] \union Conditions']

Written == ops < MaxOps /\ ops' = ops + 1

-----------------------------------------------------------------------------
\* The policy of a run, for the action class external_mcp, which is known.

\* RunPolicy.resolve.
Resolve(allowed, approved) == IF allowed \/ approved THEN "granted" ELSE "denied"

\* evaluate_action: an earlier decision that is not a grant blocks; a grant
\* counts for the classes that are approved; otherwise the policy decides.
Decision(allowed, approved, prior) ==
  CASE prior = "granted" -> IF approved THEN "granted" ELSE "requested"
    [] prior \in {"denied", "expired", "requested"} -> "requested"
    [] OTHER -> IF Resolve(allowed, approved) = "granted" THEN "granted" ELSE "requested"

\* The checkpoint of an external call, with no policy or one of them: the run's
\* approvals are those of the policy.
Permitted(policy, prior) ==
  policy = "none" \/ Decision(policy = "allows", policy = "allows", prior) = "granted"

-----------------------------------------------------------------------------
\* The management of connection, tool and grants.

ServerChanges(version) ==
  /\ version # offered
  /\ offered' = version
  /\ UNCHANGED <<conn, tool, grant, native, admin, turn, calls, audit, ops, history>>

\* McpConnectionService.create: a new connection is off; its namespace is free.
CreateConnection(a) ==
  /\ Written
  /\ admin[a].pc = "idle"
  /\ conn = "none"
  /\ conn' = "off"
  /\ UNCHANGED <<offered, tool, grant, native, admin, turn, calls, audit, history>>

SetEnabled(a, enabled) ==
  /\ Written
  /\ admin[a].pc = "idle"
  /\ conn # "none"
  /\ conn' = IF enabled THEN "on" ELSE "off"
  /\ UNCHANGED <<offered, tool, grant, native, admin, turn, calls, audit, signed, lost>>
  /\ Observed

\* set_tool_approval_state: of the row as it is now.
SetToolApproval(a, state) ==
  /\ Written
  /\ admin[a].pc = "idle"
  /\ tool.state # "none"
  /\ tool' = [tool EXCEPT !.state = state]
  /\ signed' = IF state = "approved" THEN signed \union {tool.ver} ELSE signed
  /\ UNCHANGED <<offered, conn, grant, native, admin, turn, calls, audit, lost>>
  /\ Observed

\* discover_mcp_tools: the server is asked; a catalog that is refused, or a
\* server that does not answer, ends the request with nothing written.
ListTools(a) ==
  /\ Written
  /\ admin[a].pc = "idle"
  /\ conn # "none"
  /\ admin' = [admin EXCEPT ![a] = [Idle EXCEPT !.pc = "listed", !.offer = offered]]
  /\ UNCHANGED <<offered, conn, tool, grant, native, turn, calls, audit, history>>

\* upsert_discovered_tool reads the row ...
ReadDiscovered(a) ==
  /\ admin[a].pc = "listed"
  /\ admin[a].offer # NoVersion
  /\ admin' = [admin EXCEPT ![a].pc = "upsert", ![a].row = tool]
  /\ UNCHANGED <<offered, conn, tool, grant, native, turn, calls, audit, ops, history>>

\* Mutant: an approved tool stays approved whatever it has become.
UpsertedStays(row, version) ==
  [ver |-> version, state |-> IF row.state = "none" THEN "pending" ELSE row.state]

\* The state of a tool that was discovered again.
Upserted(row, version) ==
  [ver |-> version,
   state |-> CASE row.state = "none" -> "pending"
               [] row.state # "none" /\ row.ver = version -> row.state
               [] OTHER -> "changed"]

\* ... and writes over it.
UpsertDiscovered(a) ==
  /\ admin[a].pc = "upsert"
  /\ tool' = Upserted(admin[a].row, admin[a].offer)
  /\ admin' = [admin EXCEPT ![a] = Idle]
  /\ UNCHANGED <<offered, conn, grant, native, turn, calls, audit, ops, signed, lost>>
  /\ Observed

\* disable_missing_tools.
DisableMissing(a) ==
  /\ admin[a].pc = "listed"
  /\ admin[a].offer = NoVersion
  /\ tool' = IF tool.state = "none" THEN tool ELSE [tool EXCEPT !.state = "disabled"]
  /\ admin' = [admin EXCEPT ![a] = Idle]
  /\ UNCHANGED <<offered, conn, grant, native, turn, calls, audit, ops, signed, lost>>
  /\ Observed

\* replace_tool_access: an external tool can be picked while it is active ...
PickTools(a, pick) ==
  /\ Written
  /\ admin[a].pc = "idle"
  /\ pick => conn = "on" /\ tool.state = "approved"
  /\ admin' = [admin EXCEPT ![a] = [Idle EXCEPT !.pc = "picked", !.pick = pick]]
  /\ UNCHANGED <<offered, conn, tool, grant, native, turn, calls, audit, history>>

\* ... and both sets of grants are replaced.
ReplaceTools(a, some) ==
  /\ admin[a].pc = "picked"
  /\ native' = some
  /\ grant' = admin[a].pick
  /\ admin' = [admin EXCEPT ![a] = Idle]
  /\ UNCHANGED <<offered, conn, tool, turn, calls, audit, ops, signed, lost>>
  /\ Observed

\* The management request fails or is cancelled.
AdminFails(a) ==
  /\ admin[a].pc # "idle"
  /\ admin' = [admin EXCEPT ![a] = Idle]
  /\ UNCHANGED <<offered, conn, tool, grant, native, turn, calls, audit, ops, history>>

-----------------------------------------------------------------------------
\* A turn.

Goto(t, state) == turn' = [turn EXCEPT ![t] = state]

\* build_agent_tool_runtime, for a built-in agent that somebody has mentioned.
Bind(t, human, permitted) ==
  /\ turn[t].pc = "idle"
  /\ Goto(t, [NoTurn EXCEPT !.pc = "bound", !.human = human, !.permitted = permitted,
                            !.native = native, !.catalog = tool.state # "none"])
  /\ UNCHANGED <<offered, conn, tool, grant, native, admin, calls, audit, ops, history>>

\* bind_trusted, for a tool frame of a connected agent: every native tool.
BindTrusted(t) ==
  /\ turn[t].pc = "idle"
  /\ Goto(t, [NoTurn EXCEPT !.pc = "bound", !.trusted = TRUE])
  /\ UNCHANGED <<offered, conn, tool, grant, native, admin, calls, audit, ops, history>>

NextCall == Cardinality(DOMAIN calls) + 1

\* The call is queued for the audit before anything is decided.
Queued(t, external, acted, status) ==
  /\ Written
  /\ calls' = [c \in DOMAIN calls \union {NextCall} |->
                 IF c = NextCall
                 THEN [by |-> t, external |-> external, acted |-> acted, status |-> status]
                 ELSE calls[c]]

\* _BoundRunner.run: a native tool that was not allowed when the turn began is
\* refused.
RefuseNative(t) ==
  /\ turn[t].pc = "bound"
  /\ ~turn[t].trusted /\ ~turn[t].native
  /\ Queued(t, FALSE, FALSE, "blocked")
  /\ UNCHANGED <<offered, conn, tool, grant, native, admin, turn, audit, history>>

\* Or its handler writes, or raises, with or without having written: the turn
\* goes on either way.
RunNative(t, acted, status) ==
  /\ turn[t].pc = "bound"
  /\ turn[t].trusted \/ turn[t].native
  /\ status = "succeeded" => acted
  /\ Queued(t, FALSE, acted, status)
  /\ UNCHANGED <<offered, conn, tool, grant, native, admin, turn, audit, history>>

\* _CompositeAgentToolRunner.run: every tool of the catalog may be asked for; the
\* run's policy comes first.
StartExternal(t) ==
  /\ turn[t].pc = "bound"
  /\ turn[t].catalog
  /\ Queued(t, TRUE, FALSE, IF turn[t].permitted THEN "allowed" ELSE "blocked")
  /\ Goto(t, IF turn[t].permitted
             THEN [turn[t] EXCEPT !.pc = "connection", !.seen = {}, !.call = NextCall]
             ELSE turn[t])
  /\ held' = [held EXCEPT ![t] = IF turn[t].permitted THEN Conditions ELSE {}]
  /\ UNCHANGED <<offered, conn, tool, grant, native, admin, audit, signed, lost>>

\* Mutant: the connection the turn was bound to.
ReadConnectionBound(t) ==
  /\ turn[t].pc = "connection"
  /\ Goto(t, [turn[t] EXCEPT !.pc = "tool", !.seen = {"connection"}])
  /\ UNCHANGED <<offered, conn, tool, grant, native, admin, calls, audit, ops, history>>

\* What it may do is read again, row by row.
ReadConnection(t) ==
  /\ turn[t].pc = "connection"
  /\ Goto(t, [turn[t] EXCEPT !.pc = "tool", !.seen = Conditions \intersect {"connection"}])
  /\ UNCHANGED <<offered, conn, tool, grant, native, admin, calls, audit, ops, history>>

ReadTool(t) ==
  /\ turn[t].pc = "tool"
  /\ Goto(t, [turn[t] EXCEPT !.pc = "grant", !.seen = @ \union (Conditions \intersect {"tool"})])
  /\ UNCHANGED <<offered, conn, tool, grant, native, admin, calls, audit, ops, history>>

ReadGrant(t) ==
  /\ turn[t].pc = "grant"
  /\ Goto(t, [turn[t] EXCEPT !.pc = "send", !.seen = @ \union (Conditions \intersect {"grant"})])
  /\ UNCHANGED <<offered, conn, tool, grant, native, admin, calls, audit, ops, history>>

Back(t) == [turn[t] EXCEPT !.pc = "bound", !.seen = {}, !.call = 0]

RefuseExternal(t) ==
  /\ turn[t].pc = "send"
  /\ ~turn[t].human \/ turn[t].seen # All
  /\ calls' = [calls EXCEPT ![turn[t].call].status = "blocked"]
  /\ Goto(t, Back(t))
  /\ held' = [held EXCEPT ![t] = {}]
  /\ UNCHANGED <<offered, conn, tool, grant, native, admin, audit, ops, signed, lost>>

\* The server is called, and answers or not.
Send(t) ==
  /\ turn[t].pc = "send"
  /\ turn[t].human /\ turn[t].seen = All
  /\ calls' = [calls EXCEPT ![turn[t].call].acted = TRUE]
  /\ Goto(t, [turn[t] EXCEPT !.pc = "sent"])
  /\ UNCHANGED <<offered, conn, tool, grant, native, admin, audit, ops, history>>

\* Arguments too large or not of the schema fail before the server is called.
FinishExternal(t, status) ==
  /\ \/ turn[t].pc = "sent"
     \/ turn[t].pc = "send" /\ turn[t].human /\ turn[t].seen = All /\ status = "failed"
  /\ calls' = [calls EXCEPT ![turn[t].call].status = status]
  /\ Goto(t, Back(t))
  /\ held' = [held EXCEPT ![t] = {}]
  /\ UNCHANGED <<offered, conn, tool, grant, native, admin, audit, ops, signed, lost>>

-----------------------------------------------------------------------------
\* The end of the unit of work.

Open(t) == turn[t].pc \in {"bound", "connection", "tool", "grant", "send", "sent"}

Mine(t) == {c \in DOMAIN calls : calls[c].by = t /\ c \notin audit \union lost}

\* A turn that has no call under way commits; one may fail or be cancelled at
\* any point, and what its native tools wrote is rolled back.
EndUnit(t, commit) ==
  /\ Open(t)
  /\ commit => turn[t].pc = "bound"
  /\ calls' = [c \in DOMAIN calls |->
                 IF c = turn[t].call THEN [calls[c] EXCEPT !.status = "failed"]
                 ELSE IF c \in Mine(t) /\ ~calls[c].external /\ ~commit
                 THEN [calls[c] EXCEPT !.acted = FALSE]
                 ELSE calls[c]]
  /\ Goto(t, [NoTurn EXCEPT !.pc = "ended"])
  /\ held' = [held EXCEPT ![t] = {}]
  /\ UNCHANGED <<offered, conn, tool, grant, native, admin, audit, ops, signed, lost>>

\* prune: the newest are kept.
Pruned(rows) == {c \in rows : Cardinality({d \in rows : d > c}) < Keep}

\* Mutant: what was blocked is not recorded.
PersistActed(t) ==
  /\ turn[t].pc = "ended"
  /\ audit' = Pruned(audit \union {c \in Mine(t) : calls[c].status # "blocked"})
  /\ Goto(t, NoTurn)
  /\ UNCHANGED <<offered, conn, tool, grant, native, admin, calls, ops, history>>

\* The audit records are written in a transaction of their own, after a rollback
\* too.
Persist(t) ==
  /\ turn[t].pc = "ended"
  /\ audit' = Pruned(audit \union Mine(t))
  /\ Goto(t, NoTurn)
  /\ UNCHANGED <<offered, conn, tool, grant, native, admin, calls, ops, history>>

\* That transaction fails, which is only logged; or the process has died.
PersistFails(t) ==
  /\ turn[t].pc # "idle"
  /\ turn[t].pc = "ended" \/ turn[t].call = 0
  /\ lost' = lost \union Mine(t)
  /\ calls' = [c \in DOMAIN calls |->
                 IF c \in Mine(t) /\ ~calls[c].external /\ Open(t)
                 THEN [calls[c] EXCEPT !.acted = FALSE] ELSE calls[c]]
  /\ Goto(t, NoTurn)
  /\ UNCHANGED <<offered, conn, tool, grant, native, admin, audit, ops, held, signed>>

-----------------------------------------------------------------------------

\* A new connection, or one that has been set up: discovered, approved, enabled
\* and granted.
Init ==
  /\ offered \in Versions
  /\ \/ /\ conn = "none" /\ tool = Unknown
        /\ grant = FALSE /\ signed = {}
     \/ /\ conn = "on" /\ tool = [ver |-> offered, state |-> "approved"]
        /\ grant = TRUE /\ signed = {offered}
  /\ native = TRUE
  /\ admin = [a \in Admins |-> Idle]
  /\ turn = [t \in Turns |-> NoTurn]
  /\ calls = [c \in {} |-> 0]
  /\ audit = {}
  /\ ops = 0
  /\ held = [t \in Turns |-> {}] /\ lost = {}

AdminStep(a) ==
  \/ CreateConnection(a)
  \/ ListTools(a) \/ ReadDiscovered(a) \/ UpsertDiscovered(a) \/ DisableMissing(a)
  \/ AdminFails(a)
  \/ \E state \in {"approved", "pending", "disabled"} : SetToolApproval(a, state)
  \/ \E flag \in BOOLEAN : SetEnabled(a, flag) \/ PickTools(a, flag) \/ ReplaceTools(a, flag)

TurnStep(t) ==
  \/ \E human \in BOOLEAN, policy \in {"none", "allows", "denies"},
        prior \in {"none", "granted", "denied", "expired", "requested"} :
        Bind(t, human, Permitted(policy, prior))
  \/ BindTrusted(t)
  \/ RefuseNative(t)
  \/ \E acted \in BOOLEAN, status \in {"failed", "succeeded"} : RunNative(t, acted, status)
  \/ StartExternal(t)
  \/ ReadConnection(t) \/ ReadTool(t) \/ ReadGrant(t)
  \/ RefuseExternal(t) \/ Send(t)
  \/ \E status \in {"failed", "succeeded"} : FinishExternal(t, status)
  \/ \E commit \in BOOLEAN : EndUnit(t, commit)
  \/ Persist(t) \/ PersistFails(t)

Next ==
  \/ \E version \in Offers : ServerChanges(version)
  \/ \E a \in Admins : AdminStep(a)
  \/ \E t \in Turns : TurnStep(t)

Spec == Init /\ [][Next]_vars

-----------------------------------------------------------------------------

\* The values the rows, the requests and the turns range over.
TypeOK ==
  /\ offered \in Offers
  /\ conn \in {"none", "off", "on"}
  /\ tool \in [ver : Offers, state : {"none", "pending", "approved", "changed", "disabled"}]
  /\ grant \in BOOLEAN /\ native \in BOOLEAN
  /\ \A c \in DOMAIN calls : calls[c] \in Call
  /\ audit \subseteq DOMAIN calls /\ lost \subseteq DOMAIN calls
  /\ ops \in 0..MaxOps
  /\ \A t \in Turns : turn[t].seen \subseteq All /\ held[t] \subseteq All

\* A call goes out to the server only if connection, approval and grant were
\* each in force at some time after the call began: what was taken back before
\* that is heeded, whatever the turn was bound to.
RevocationHonoured ==
  \A t \in Turns : turn[t].pc = "sent" => held[t] = All /\ turn[t].permitted

\* An approved tool has a definition that was in its row when somebody approved
\* it: a definition that changes has to be approved again, also if two
\* discoveries and an approval overlap.
ApprovedAsSigned == tool.state = "approved" => tool.ver \in signed

\* When the unit of work of a call is over, its record is in the audit, whether
\* the unit was committed, rolled back or cancelled, unless that record could not
\* be written or enough newer ones have displaced it; and a call recorded as
\* blocked has done nothing.
AuditTrue ==
  \A c \in DOMAIN calls :
    /\ calls[c].status = "blocked" => ~calls[c].acted
    /\ \/ c \in audit \union lost
       \/ turn[calls[c].by].pc # "idle"
       \/ Cardinality({d \in audit : d > c}) >= Keep

=============================================================================
