----------------------------- MODULE AgentConn -----------------------------
(***************************************************************************)
(* AgentConnectionManager (api/connection.py) with the receive loop that   *)
(* feeds it (api/routers/agents.py, agent_ws).                             *)
(*                                                                         *)
(* Every dictionary of the manager is keyed by agent id and no operation   *)
(* reads the entry of a second agent, so the module is the slice of ONE    *)
(* agent.  A WebSocket object is connected once: a reconnect is a new      *)
(* member of Sockets.  A request id is generated per request, so a member  *)
(* of Requests is issued once.  Code between two awaits runs without       *)
(* interleaving on the event loop: each such stretch is one action.        *)
(***************************************************************************)
EXTENDS Integers, FiniteSets, Sequences

CONSTANTS
  Sockets,            \* WebSocket objects
  NoSocket,           \* _conns has no entry for the agent
  ChatRequests,       \* send_and_wait calls
  CodingRequests,     \* send_coding_run calls
  WorkspaceRequests,  \* send_workspace_action calls
  MaxConcurrency,     \* the largest max_concurrency a hello may claim (64)
  ProgressFrames,     \* progress frames one request may deliver (256)
  SeqBound            \* bound of the model: largest frame number an agent uses

Requests == ChatRequests \union CodingRequests \union WorkspaceRequests

ASSUME SocketAssumption == NoSocket \notin Sockets
ASSUME FiniteAssumption == IsFiniteSet(Requests)
ASSUME BoundAssumption ==
  /\ MaxConcurrency \in Nat \ {0}
  /\ ProgressFrames \in Nat
  /\ SeqBound \in Nat

VARIABLES
  conn,      \* _conns[agent], or NoSocket
  seen,      \* sockets that connect() has accepted so far
  open,      \* sockets whose agent_ws receive loop is still running
  profile,   \* _capability_profiles[agent]; max = 0 stands for no entry
  reported,  \* _reported_activity[agent]
  slots,     \* _reserved_slots[(agent, ws)], 0 for no entry
  lastSeq,   \* _frame_sessions[ws]: last frame number, NoSession for no entry
  accepted,  \* history: frame numbers applied in the session of each socket
  phase,     \* where the caller of each request is
  owner,     \* reserved_socket of each request
  result,    \* what the request's future was settled with
  handlers,  \* chat requests with an entry in _progress_handlers
  usage,     \* _progress_usage: progress frames delivered
  tasks      \* _progress_tasks: progress broadcasts still running

connVars == <<conn, seen, open>>
capVars  == <<profile, reported, slots>>
seqVars  == <<lastSeq, accepted>>
reqVars  == <<phase, owner, result>>
progVars == <<handlers, usage, tasks>>
vars == <<connVars, capVars, seqVars, reqVars, progVars>>

NoSession == -1

\* The capabilities that supports() is asked about on a state-changing path.
Capabilities == {"coding_workspace", "progress"}

Profiles ==
  [max : 0..MaxConcurrency, active : Nat, legacy : BOOLEAN, caps : SUBSET Capabilities]

NoProfile == [max |-> 0, active |-> 0, legacy |-> TRUE, caps |-> {}]

\* LEGACY_AGENT_PROFILE: one run at a time, progress and tools, no coding.
LegacyProfile == [max |-> 1, active |-> 0, legacy |-> TRUE, caps |-> {"progress"}]

\* "settled": the future is done, the caller has not resumed; "done": its
\* finally block has run.
Phases == {"idle", "waiting", "settled", "done"}

\* An answer is a reply, a result or a reported failure.
Results == {"none", "answer", "lost", "expired"}

\* Requests whose slot the caller has not given back.
Held(ws) == {r \in Requests : phase[r] \in {"waiting", "settled"} /\ owner[r] = ws}

\* _active_reserved_slots + _reported_activity over a changed slot table.
EffectiveActive(sl) == reported + (IF conn = NoSocket THEN 0 ELSE sl[conn])

\* Requests _fail_socket_requests finds by their waiter socket.
PendingOn(ws) == {r \in Requests : phase[r] = "waiting" /\ owner[r] = ws}

-----------------------------------------------------------------------------

\* Mutant: the waiters of a replaced socket are left to their timeouts.
FailNobody(S) == UNCHANGED <<reqVars, progVars>>

\* _fail_socket_requests for the sockets in S: every unresolved future fails,
\* the progress handlers and tasks go, the slots of the socket are dropped.
FailSocketRequests(S) ==
  LET lost == UNION {PendingOn(ws) : ws \in S}
      mine == {r \in Requests : phase[r] \in {"waiting", "settled"} /\ owner[r] \in S}
  IN  /\ phase'  = [r \in Requests |-> IF r \in lost THEN "settled" ELSE phase[r]]
      /\ result' = [r \in Requests |-> IF r \in lost THEN "lost" ELSE result[r]]
      /\ handlers' = handlers \ mine
      /\ tasks' = [r \in ChatRequests |-> IF r \in mine THEN 0 ELSE tasks[r]]
      /\ usage' = [r \in ChatRequests |-> IF r \in mine THEN 0 ELSE usage[r]]
      /\ UNCHANGED owner

\* connect(): the new socket replaces the entry and, when there was another
\* one, its requests fail and its frame session is dropped.
Connect(ws) ==
  /\ ws \notin seen
  /\ conn' = ws
  /\ seen' = seen \union {ws}
  /\ open' = open \union {ws}
  /\ FailSocketRequests({conn} \ {NoSocket})
  /\ slots' = [s \in Sockets |-> IF s = conn THEN 0 ELSE slots[s]]
  /\ lastSeq' = [s \in Sockets |-> IF s = conn THEN NoSession ELSE lastSeq[s]]
  /\ profile' = LegacyProfile
  /\ reported' = 0
  /\ UNCHANGED accepted

\* What disconnect(), close() and reset() do to the agent's live entry.
DropConnection ==
  /\ conn' = NoSocket
  /\ profile' = NoProfile
  /\ reported' = 0
  /\ FailSocketRequests({conn} \ {NoSocket})
  /\ lastSeq' = [s \in Sockets |-> IF s = conn THEN NoSession ELSE lastSeq[s]]
  /\ UNCHANGED accepted

\* The receive loop of ws ends and calls disconnect(): a no-op for a socket
\* that has been replaced or closed.  The on_disconnect callback it schedules
\* is the reconciler of module CodingRun.
Disconnect(ws) ==
  /\ ws \in open
  /\ open' = open \ {ws}
  /\ IF conn = ws
     THEN /\ DropConnection
          /\ slots' = [slots EXCEPT ![ws] = 0]
     ELSE UNCHANGED <<conn, capVars, seqVars, reqVars, progVars>>
  /\ UNCHANGED seen

\* close(): the agent is archived, deleted or re-keyed while connected.  All of
\* its slot entries go, whatever their socket.
Close ==
  /\ conn # NoSocket
  /\ DropConnection
  /\ slots' = [s \in Sockets |-> 0]
  /\ UNCHANGED <<seen, open>>

\* reset(): application shutdown.  Every future is cancelled and every table is
\* cleared; a receive loop that is still running finds itself stale.  Without
\* a connection there is nothing left to clear.
Reset ==
  /\ conn # NoSocket
  /\ conn' = NoSocket
  /\ profile' = NoProfile
  /\ reported' = 0
  /\ slots' = [s \in Sockets |-> 0]
  /\ lastSeq' = [s \in Sockets |-> NoSession]
  /\ FailSocketRequests(Sockets)
  /\ UNCHANGED <<seen, open, accepted>>

-----------------------------------------------------------------------------

\* agent_ws and validate_frame_sequence: a frame signed for session s with
\* number n arrives on ws.  A socket that has not negotiated takes any frame.
FrameAccepted(ws, s, n) ==
  /\ ws \in open
  /\ conn = ws
  /\ IF profile.legacy
     THEN UNCHANGED seqVars
     ELSE /\ lastSeq[ws] # NoSession
          /\ s = ws
          /\ n > lastSeq[ws]
          /\ lastSeq' = [lastSeq EXCEPT ![ws] = n]
          /\ accepted' = [accepted EXCEPT ![s] = Append(@, n)]

\* negotiate_capabilities(): once per socket, and never below what is running.
\* The hello frame itself is not sequenced.
Negotiate(ws, m, caps) ==
  /\ ws \in open
  /\ conn = ws
  /\ lastSeq[ws] = NoSession
  /\ EffectiveActive(slots) <= m
  /\ profile' = [max |-> m, active |-> EffectiveActive(slots),
                 legacy |-> FALSE, caps |-> caps]
  /\ lastSeq' = [lastSeq EXCEPT ![ws] = 0]
  /\ UNCHANGED <<connVars, reported, slots, accepted, reqVars, progVars>>

\* update_activity(): the agent reports work the server did not dispatch.
UpdateActivity(ws, k, s, n) ==
  /\ ~profile.legacy
  /\ FrameAccepted(ws, s, n)
  /\ k + slots[ws] <= profile.max
  /\ reported' = k
  /\ profile' = [profile EXCEPT !.active = k + slots[ws]]
  /\ UNCHANGED <<connVars, slots, reqVars, progVars>>

-----------------------------------------------------------------------------

\* _reserve_slot on the active socket.
ReserveSlot ==
  /\ profile.active < profile.max
  /\ slots' = [slots EXCEPT ![conn] = @ + 1]
  /\ profile' = [profile EXCEPT !.active = EffectiveActive(slots')]

\* send_and_wait / send_coding_run / send_workspace_action up to their first
\* await: a slot, a future and its bookkeeping.
Issue(r) ==
  /\ phase[r] = "idle"
  /\ conn # NoSocket
  /\ r \notin ChatRequests => "coding_workspace" \in profile.caps
  /\ ReserveSlot
  /\ phase' = [phase EXCEPT ![r] = "waiting"]
  /\ owner' = [owner EXCEPT ![r] = conn]
  /\ handlers' = IF r \in ChatRequests THEN handlers \union {r} ELSE handlers
  /\ UNCHANGED <<connVars, reported, seqVars, result, usage, tasks>>

\* deliver_reply, deliver_coding_* and deliver_workspace_action_*: the frame
\* settles the correlated future if it is still pending.  Workspace results
\* must come in on the socket the request went out on; the other kinds rely on
\* the active-socket test of the loop.
Deliver(ws, r, s, n) ==
  /\ FrameAccepted(ws, s, n)
  /\ phase[r] = "waiting"
  /\ r \notin ChatRequests => "coding_workspace" \in profile.caps
  /\ r \in WorkspaceRequests => owner[r] = ws
  /\ phase' = [phase EXCEPT ![r] = "settled"]
  /\ result' = [result EXCEPT ![r] = "answer"]
  /\ UNCHANGED <<connVars, capVars, owner, progVars>>

\* deliver_progress: bounded frames, one broadcast task per frame.
DeliverProgress(ws, r, s, n) ==
  /\ FrameAccepted(ws, s, n)
  /\ "progress" \in profile.caps
  /\ r \in handlers
  /\ usage[r] < ProgressFrames
  /\ usage' = [usage EXCEPT ![r] = @ + 1]
  /\ tasks' = [tasks EXCEPT ![r] = @ + 1]
  /\ UNCHANGED <<connVars, capVars, reqVars, handlers>>

\* Any other frame that passes the sequence test: a tool call, a late or
\* duplicate reply, a report or a progress frame that is refused.
OtherFrame(ws, s, n) ==
  /\ FrameAccepted(ws, s, n)
  /\ UNCHANGED <<connVars, capVars, reqVars, progVars>>

\* A progress broadcast reaches its channel clients and ends.
ProgressTaskEnds(r) ==
  /\ tasks[r] > 0
  /\ tasks' = [tasks EXCEPT ![r] = @ - 1]
  /\ UNCHANGED <<connVars, capVars, seqVars, reqVars, handlers, usage>>

\* Mutant: only the chat sender bounds its wait.
ExpireChatOnly(r) ==
  /\ r \in ChatRequests
  /\ phase[r] = "waiting"
  /\ phase' = [phase EXCEPT ![r] = "settled"]
  /\ result' = [result EXCEPT ![r] = "expired"]
  /\ UNCHANGED <<connVars, capVars, seqVars, owner, progVars>>

\* wait_for runs into its timeout, the send fails or the caller is cancelled.
Expire(r) ==
  /\ phase[r] = "waiting"
  /\ phase' = [phase EXCEPT ![r] = "settled"]
  /\ result' = [result EXCEPT ![r] = "expired"]
  /\ UNCHANGED <<connVars, capVars, seqVars, owner, progVars>>

\* max(0, reserved - 1): a slot that was dropped with its socket stays dropped.
Released(k) == IF k = 0 THEN 0 ELSE k - 1

\* Mutant: the slot of a finished request is forgotten.
ReleaseNothing(ws) == UNCHANGED <<slots, profile>>

\* _release_slot: the profile is refreshed only while ws is the active socket.
ReleaseSlot(ws) ==
  /\ slots' = [slots EXCEPT ![ws] = Released(@)]
  /\ profile' = IF conn = ws
                THEN [profile EXCEPT !.active = EffectiveActive(slots')]
                ELSE profile

\* The finally block of the three senders.
Finish(r) ==
  /\ phase[r] = "settled"
  /\ phase' = [phase EXCEPT ![r] = "done"]
  /\ handlers' = handlers \ {r}
  /\ tasks' = [q \in ChatRequests |-> IF q = r THEN 0 ELSE tasks[q]]
  /\ usage' = [q \in ChatRequests |-> IF q = r THEN 0 ELSE usage[q]]
  /\ ReleaseSlot(owner[r])
  /\ UNCHANGED <<connVars, reported, seqVars, owner, result>>

-----------------------------------------------------------------------------

Init ==
  /\ conn = NoSocket
  /\ seen = {}
  /\ open = {}
  /\ profile = NoProfile
  /\ reported = 0
  /\ slots = [ws \in Sockets |-> 0]
  /\ lastSeq = [ws \in Sockets |-> NoSession]
  /\ accepted = [ws \in Sockets |-> <<>>]
  /\ phase = [r \in Requests |-> "idle"]
  /\ owner = [r \in Requests |-> NoSocket]
  /\ result = [r \in Requests |-> "none"]
  /\ handlers = {}
  /\ usage = [r \in ChatRequests |-> 0]
  /\ tasks = [r \in ChatRequests |-> 0]

Next ==
  \/ \E ws \in Sockets : Connect(ws)
  \/ \E ws \in Sockets : Disconnect(ws)
  \/ Close
  \/ Reset
  \/ \E ws \in Sockets, m \in 1..MaxConcurrency, c \in SUBSET Capabilities :
       Negotiate(ws, m, c)
  \/ \E ws, s \in Sockets, k \in 0..MaxConcurrency, n \in 1..SeqBound :
       UpdateActivity(ws, k, s, n)
  \/ \E r \in Requests : Issue(r)
  \/ \E ws, s \in Sockets, r \in Requests, n \in 1..SeqBound :
       Deliver(ws, r, s, n)
  \/ \E ws, s \in Sockets, r \in ChatRequests, n \in 1..SeqBound :
       DeliverProgress(ws, r, s, n)
  \/ \E ws, s \in Sockets, n \in 1..SeqBound : OtherFrame(ws, s, n)
  \/ \E r \in ChatRequests : ProgressTaskEnds(r)
  \/ \E r \in Requests : Expire(r)
  \/ \E r \in Requests : Finish(r)

\* Every await of a sender is bounded by wait_for, and a settled future
\* resumes its caller: both are the event loop's own doing.
Fairness == \A r \in Requests : WF_vars(Expire(r)) /\ WF_vars(Finish(r))

Spec == Init /\ [][Next]_vars /\ Fairness

-----------------------------------------------------------------------------

\* The values the manager's tables range over; no slot or frame count is negative.
TypeOK ==
  /\ conn \in Sockets \union {NoSocket}
  /\ seen \subseteq Sockets
  /\ open \subseteq seen
  /\ profile \in Profiles
  /\ reported \in Nat
  /\ slots \in [Sockets -> Nat]
  /\ lastSeq \in [Sockets -> Nat \union {NoSession}]
  /\ accepted \in [Sockets -> Seq(Nat)]
  /\ phase \in [Requests -> Phases]
  /\ owner \in [Requests -> Sockets \union {NoSocket}]
  /\ result \in [Requests -> Results]
  /\ handlers \subseteq ChatRequests
  /\ usage \in [ChatRequests -> Nat]
  /\ tasks \in [ChatRequests -> Nat]

\* Reserved slots are exactly the unfinished requests of the active socket, and
\* a socket that was replaced or closed keeps none, however late its callers
\* run their finally blocks (_reserve_slot, _release_slot, close).
SlotAccounting ==
  \A ws \in Sockets :
    slots[ws] = IF ws = conn THEN Cardinality(Held(ws)) ELSE 0

\* "Capacity is a server invariant" (send_and_wait): what the server dispatched
\* plus what the agent reported never exceeds the negotiated concurrency.
CapacityRespected ==
  conn # NoSocket =>
    /\ profile.active = reported + slots[conn]
    /\ profile.active <= profile.max

\* A caller only ever waits on the socket that is the agent's active one: a
\* replaced, closed or dropped socket fails all of its requests.
NoOrphanWaiter ==
  \A r \in Requests : phase[r] = "waiting" => owner[r] = conn /\ conn # NoSocket

\* Within a negotiated session frame numbers are applied in increasing order,
\* so a replayed or reordered frame is never applied (validate_frame_sequence).
FramesAppliedOnce ==
  \A ws \in Sockets : \A i, j \in 1..Len(accepted[ws]) :
    i < j => accepted[ws][i] < accepted[ws][j]

\* A request delivers at most ProgressFrames frames, and no broadcast of a
\* finished request is left running or can start (send_and_wait's finally).
ProgressBounded ==
  \A r \in ChatRequests :
    /\ usage[r] <= ProgressFrames
    /\ tasks[r] <= usage[r]
    /\ phase[r] \in {"idle", "done"} => r \notin handlers /\ tasks[r] = 0

\* Every caller gets an answer or an error (wait_for bounds each wait).
RequestsEnd == \A r \in Requests : phase[r] = "waiting" ~> phase[r] = "done"

=============================================================================
