--------------------------- MODULE SessionProofs ---------------------------
(***************************************************************************)
(* Proofs about what the server keeps in memory for those connected to it: *)
(* the agents' connections and requests (AgentConn), for every number of   *)
(* sockets and requests, every concurrency limit and every bound; and the  *)
(* inbox with the stream its pages follow (Inbox), for every set of        *)
(* records, pages and owners and however many changes and restarts.  The   *)
(* parts argue about specifications of their own and do not rest on each   *)
(* other.                                                                  *)
(***************************************************************************)
EXTENDS AgentConn, Inbox, FiniteSetTheorems, SequenceTheorems, TLAPS

-----------------------------------------------------------------------------

\* PART I.  The connection manager.


\* Init and every step keep each variable in its type.
LEMMA TypeInit == Init => TypeOK
BY SocketAssumption, BoundAssumption
   DEF Init, TypeOK, Profiles, NoProfile, Capabilities, Phases, Results, NoSession

LEMMA TypeStep == TypeOK /\ [Next]_vars => TypeOK'
<1> SUFFICES ASSUME TypeOK, [Next]_vars PROVE TypeOK'
  OBVIOUS
<1> USE SocketAssumption, BoundAssumption
    DEF TypeOK, Profiles, Capabilities, Phases, Results, NoSession,
        connVars, capVars, seqVars, reqVars, progVars
<1>1. ASSUME NEW ws \in Sockets, Connect(ws) PROVE TypeOK'
  BY <1>1 DEF Connect, FailSocketRequests, LegacyProfile
<1>2. ASSUME NEW ws \in Sockets, Disconnect(ws) PROVE TypeOK'
  <2>1. CASE conn = ws
    <3>1. DropConnection /\ slots' = [slots EXCEPT ![ws] = 0]
      BY <1>2, <2>1 DEF Disconnect
    <3>2. open' = open \ {ws} /\ seen' = seen
      BY <1>2 DEF Disconnect
    <3>3. QED
      BY <3>1, <3>2 DEF DropConnection, FailSocketRequests, NoProfile
  <2>2. CASE conn # ws
    BY <1>2, <2>2 DEF Disconnect
  <2>3. QED
    BY <2>1, <2>2
<1>3. ASSUME Close PROVE TypeOK'
  BY <1>3 DEF Close, DropConnection, FailSocketRequests, NoProfile
<1>4. ASSUME Reset PROVE TypeOK'
  BY <1>4 DEF Reset, FailSocketRequests, NoProfile
<1>5. ASSUME NEW ws \in Sockets, NEW m \in 1..MaxConcurrency,
             NEW c \in SUBSET Capabilities, Negotiate(ws, m, c)
      PROVE  TypeOK'
  BY <1>5 DEF Negotiate, EffectiveActive
<1>6. ASSUME NEW ws \in Sockets, NEW s \in Sockets, NEW n \in 1..SeqBound,
             FrameAccepted(ws, s, n)
      PROVE  /\ lastSeq' \in [Sockets -> Nat \union {NoSession}]
             /\ accepted' \in [Sockets -> Seq(Nat)]
  <2>1. CASE profile.legacy
    BY <1>6, <2>1 DEF FrameAccepted
  <2>2. CASE ~profile.legacy
    <3>1. /\ lastSeq' = [lastSeq EXCEPT ![ws] = n]
          /\ accepted' = [accepted EXCEPT ![s] = Append(accepted[s], n)]
      BY <1>6, <2>2 DEF FrameAccepted
    <3>2. Append(accepted[s], n) \in Seq(Nat)
      OBVIOUS
    <3>3. QED
      BY <3>1, <3>2
  <2>3. QED
    BY <2>1, <2>2
<1>7. ASSUME NEW ws \in Sockets, NEW s \in Sockets, NEW k \in 0..MaxConcurrency,
             NEW n \in 1..SeqBound, UpdateActivity(ws, k, s, n)
      PROVE  TypeOK'
  <2>1. lastSeq' \in [Sockets -> Nat \union {NoSession}] /\ accepted' \in [Sockets -> Seq(Nat)]
    BY <1>6, <1>7 DEF UpdateActivity
  <2>2. profile' = [profile EXCEPT !.active = k + slots[ws]] /\ reported' = k
    BY <1>7 DEF UpdateActivity
  <2>3. k \in Nat /\ k + slots[ws] \in Nat
    OBVIOUS
  <2>6. profile' \in Profiles /\ reported' \in Nat
    BY <2>2, <2>3
  <2>4. UNCHANGED <<connVars, slots, reqVars, progVars>>
    BY <1>7 DEF UpdateActivity
  <2>5. QED
    BY <2>1, <2>4, <2>6
<1>8. ASSUME NEW r \in Requests, Issue(r) PROVE TypeOK'
  <2>1. conn \in Sockets
    BY <1>8 DEF Issue
  <2>2. slots' \in [Sockets -> Nat]
    BY <1>8, <2>1 DEF Issue, ReserveSlot
  <2>3. EffectiveActive(slots') \in Nat
    BY <2>1, <2>2 DEF EffectiveActive
  <2>4. profile' \in Profiles
    BY <1>8, <2>3 DEF Issue, ReserveSlot
  <2>5. handlers' \subseteq ChatRequests
    BY <1>8 DEF Issue
  <2>6. QED
    BY <1>8, <2>1, <2>2, <2>4, <2>5 DEF Issue
<1>9. ASSUME NEW ws \in Sockets, NEW s \in Sockets, NEW r \in Requests,
             NEW n \in 1..SeqBound, Deliver(ws, r, s, n)
      PROVE  TypeOK'
  BY <1>6, <1>9 DEF Deliver
<1>10. ASSUME NEW ws \in Sockets, NEW s \in Sockets, NEW r \in ChatRequests,
              NEW n \in 1..SeqBound, DeliverProgress(ws, r, s, n)
       PROVE  TypeOK'
  <2>1. lastSeq' \in [Sockets -> Nat \union {NoSession}] /\ accepted' \in [Sockets -> Seq(Nat)]
    BY <1>6, <1>10 DEF DeliverProgress
  <2>2. usage' \in [ChatRequests -> Nat] /\ tasks' \in [ChatRequests -> Nat]
    <3>1. /\ usage' = [usage EXCEPT ![r] = usage[r] + 1]
          /\ tasks' = [tasks EXCEPT ![r] = tasks[r] + 1]
      BY <1>10 DEF DeliverProgress
    <3>2. QED
      BY <3>1
  <2>3. UNCHANGED <<connVars, capVars, reqVars, handlers>>
    BY <1>10 DEF DeliverProgress
  <2>4. QED
    BY <2>1, <2>2, <2>3
<1>11. ASSUME NEW ws \in Sockets, NEW s \in Sockets,
              NEW n \in 1..SeqBound, OtherFrame(ws, s, n)
       PROVE  TypeOK'
  BY <1>6, <1>11 DEF OtherFrame
<1>12. ASSUME NEW r \in ChatRequests, ProgressTaskEnds(r) PROVE TypeOK'
  BY <1>12 DEF ProgressTaskEnds
<1>13. ASSUME NEW r \in Requests, Expire(r) PROVE TypeOK'
  BY <1>13 DEF Expire
<1>14. ASSUME NEW r \in Requests, Finish(r) PROVE TypeOK'
  <2>0. slots' = [slots EXCEPT ![owner[r]] = Released(slots[owner[r]])]
    BY <1>14 DEF Finish, ReleaseSlot
  <2>1. slots' \in [Sockets -> Nat]
    <3>1. \A k \in Nat : Released(k) \in Nat
      BY DEF Released
    <3>2. slots \in [Sockets -> Nat]
      OBVIOUS
    <3> HIDE DEF TypeOK
    <3>3. QED
      BY <2>0, <3>1, <3>2
  <2>2. EffectiveActive(slots') \in Nat
    BY <2>1 DEF EffectiveActive
  <2>3. profile' \in Profiles
    BY <1>14, <2>2 DEF Finish, ReleaseSlot
  <2>4. QED
    BY <1>14, <2>1, <2>3 DEF Finish
<1>15. CASE UNCHANGED vars
  BY <1>15 DEF vars
<1>16. QED
  BY <1>1, <1>2, <1>3, <1>4, <1>5, <1>7, <1>8, <1>9, <1>10, <1>11, <1>12,
     <1>13, <1>14, <1>15 DEF Next

\* Type correctness of the connection manager.
THEOREM TypeCorrect == Spec => []TypeOK
BY TypeInit, TypeStep, PTL DEF Spec

-----------------------------------------------------------------------------

\* The strengthening: sockets in use have been connected, and the three
\* accounting facts hold together.  A fresh socket therefore owns no request,
\* which is what makes SlotAccounting survive a replacement.
ConnInv ==
  /\ conn # NoSocket => conn \in seen
  /\ \A r \in Requests : phase[r] # "idle" => owner[r] \in seen
  /\ SlotAccounting
  /\ CapacityRespected
  /\ NoOrphanWaiter

\* What a request holds is finite, so its cardinality is a number.
LEMMA HeldFinite ==
  ASSUME NEW ws PROVE IsFiniteSet(Held(ws)) /\ Cardinality(Held(ws)) \in Nat
BY FiniteAssumption, FS_Subset, FS_CardinalityType DEF Held

LEMMA ConnInit == Init => ConnInv
<1> SUFFICES ASSUME Init PROVE ConnInv
  OBVIOUS
<1>1. \A ws \in Sockets : slots[ws] = 0
  BY DEF Init
<1>2. QED
  BY <1>1, SocketAssumption
     DEF Init, ConnInv, SlotAccounting, CapacityRespected, NoOrphanWaiter

\* Steps that leave the sockets, the slots and the set of unfinished requests
\* alone keep the accounting.
LEMMA HeldUnchanged ==
  ASSUME TypeOK, ConnInv, UNCHANGED <<conn, seen, slots, owner>>,
         phase' \in [Requests -> Phases],
         \A r \in Requests :
           /\ (phase'[r] \in {"waiting", "settled"}) <=> (phase[r] \in {"waiting", "settled"})
           /\ phase'[r] = "waiting" => phase[r] = "waiting"
           /\ (phase'[r] = "idle") <=> (phase[r] = "idle")
  PROVE  /\ SlotAccounting'
         /\ NoOrphanWaiter'
         /\ (conn # NoSocket => conn \in seen)'
         /\ (\A r \in Requests : phase[r] # "idle" => owner[r] \in seen)'
<1>1. ASSUME NEW ws PROVE Held(ws)' = Held(ws)
  <2>1. \A r \in Requests : (r \in Held(ws))' <=> r \in Held(ws)
    BY DEF Held
  <2>2. QED
    BY <2>1 DEF Held
<1>2. SlotAccounting'
  BY <1>1 DEF ConnInv, SlotAccounting
<1>3. NoOrphanWaiter'
  BY DEF ConnInv, NoOrphanWaiter
<1>4. QED
  BY <1>2, <1>3 DEF ConnInv

\* Failing the requests of the sockets in S moves exactly the waiting ones of
\* those sockets to "settled" and leaves the holders as they were.
LEMMA FailKeepsHolders ==
  ASSUME TypeOK, NEW S, FailSocketRequests(S)
  PROVE  /\ \A ws : Held(ws)' = Held(ws)
         /\ \A r \in Requests :
              /\ owner'[r] = owner[r]
              /\ (phase'[r] = "idle") <=> (phase[r] = "idle")
              /\ phase'[r] = "waiting" => phase[r] = "waiting" /\ owner[r] \notin S
<1>1. \A r \in Requests :
        /\ phase'[r] = IF phase[r] = "waiting" /\ owner[r] \in S THEN "settled" ELSE phase[r]
        /\ owner'[r] = owner[r]
  <2> TAKE r \in Requests
  <2>1. (r \in UNION {PendingOn(ws) : ws \in S}) <=> phase[r] = "waiting" /\ owner[r] \in S
    BY DEF PendingOn
  <2>2. QED
    BY <2>1 DEF FailSocketRequests
<1>2. ASSUME NEW ws PROVE Held(ws)' = Held(ws)
  <2>1. \A r \in Requests : (r \in Held(ws))' <=> r \in Held(ws)
    BY <1>1 DEF Held
  <2>2. QED
    BY <2>1 DEF Held
<1>3. QED
  BY <1>1, <1>2

\* Losing the active socket: afterwards there is no connection or a fresh one.
LEMMA LossKeepsInv ==
  ASSUME TypeOK, TypeOK', ConnInv, NEW S, FailSocketRequests(S),
         \A r \in Requests : phase[r] = "waiting" => owner[r] \in S,
         seen \subseteq seen',
         \/ conn' = NoSocket
         \/ conn' \in seen' \ seen /\ profile' = LegacyProfile /\ reported' = 0,
         \A ws \in Sockets : slots'[ws] = 0
  PROVE  ConnInv'
<1> USE FailKeepsHolders
<1>1. NoOrphanWaiter'
  BY DEF NoOrphanWaiter
<1>2. (\A r \in Requests : phase[r] # "idle" => owner[r] \in seen)'
  BY DEF ConnInv
<1>3. SlotAccounting'
  <2> SUFFICES ASSUME NEW ws \in Sockets, ws = conn'
               PROVE  Cardinality(Held(ws)') = 0
    BY DEF SlotAccounting
  <2>1. ws \notin seen
    BY SocketAssumption
  <2>2. Held(ws) = {}
    BY <2>1 DEF ConnInv, Held
  <2>3. QED
    BY <2>2, FS_EmptySet
<1>4. CapacityRespected'
  <2> SUFFICES ASSUME conn' # NoSocket
               PROVE  /\ profile'.active = reported' + slots'[conn']
                      /\ profile'.active <= profile'.max
    BY DEF CapacityRespected
  <2>1. slots'[conn'] = 0
    BY DEF TypeOK
  <2>2. QED
    BY <2>1 DEF LegacyProfile
<1>5. QED
  BY <1>1, <1>2, <1>3, <1>4 DEF ConnInv

LEMMA ConnStep == TypeOK /\ TypeOK' /\ ConnInv /\ [Next]_vars => ConnInv'
<1> SUFFICES ASSUME TypeOK, TypeOK', ConnInv, [Next]_vars PROVE ConnInv'
  OBVIOUS
<1> USE SocketAssumption
<1>a. \A ws \in Sockets : ws # conn => slots[ws] = 0
  BY DEF ConnInv, SlotAccounting
<1>b. \A r \in Requests : phase[r] = "waiting" => owner[r] = conn /\ conn \in Sockets
  BY DEF ConnInv, NoOrphanWaiter, TypeOK
<1>1. ASSUME NEW ws \in Sockets, Connect(ws) PROVE ConnInv'
  <2>1. \A s \in Sockets : slots'[s] = 0
    BY <1>1, <1>a DEF Connect
  <2>2. \A r \in Requests : phase[r] = "waiting" => owner[r] \in {conn} \ {NoSocket}
    BY <1>b
  <2>3. FailSocketRequests({conn} \ {NoSocket})
    BY <1>1 DEF Connect
  <2>4. seen \subseteq seen' /\ conn' \in seen' \ seen /\ profile' = LegacyProfile /\ reported' = 0
    BY <1>1 DEF Connect
  <2>5. QED
    BY <2>1, <2>2, <2>3, <2>4, LossKeepsInv
<1>2. ASSUME DropConnection, UNCHANGED seen, \A s \in Sockets : slots'[s] = 0
      PROVE  ConnInv'
  <2>1. \A r \in Requests : phase[r] = "waiting" => owner[r] \in {conn} \ {NoSocket}
    BY <1>b
  <2>2. FailSocketRequests({conn} \ {NoSocket}) /\ conn' = NoSocket
    BY <1>2 DEF DropConnection
  <2>3. QED
    BY <1>2, <2>1, <2>2, LossKeepsInv
<1>3. ASSUME NEW ws \in Sockets, Disconnect(ws) PROVE ConnInv'
  <2>1. CASE conn = ws
    <3>1. DropConnection /\ seen' = seen /\ slots' = [slots EXCEPT ![ws] = 0]
      BY <1>3, <2>1 DEF Disconnect
    <3>2. \A s \in Sockets : slots'[s] = 0
      BY <1>a, <2>1, <3>1 DEF TypeOK
    <3>3. QED
      BY <1>2, <3>1, <3>2
  <2>2. CASE conn # ws
    <3>1. UNCHANGED <<conn, seen, profile, reported, slots, phase, owner>>
      BY <1>3, <2>2 DEF Disconnect, capVars, reqVars
    <3>2. CapacityRespected'
      BY <3>1 DEF ConnInv, CapacityRespected
    <3>3. QED
      BY <3>1, <3>2, HeldUnchanged DEF ConnInv, TypeOK
  <2>3. QED
    BY <2>1, <2>2
<1>4. ASSUME Close PROVE ConnInv'
  BY <1>2, <1>4 DEF Close
<1>5. ASSUME Reset PROVE ConnInv'
  <2>1. \A r \in Requests : phase[r] = "waiting" => owner[r] \in Sockets
    BY <1>b
  <2>2. FailSocketRequests(Sockets) /\ conn' = NoSocket /\ seen' = seen
        /\ \A s \in Sockets : slots'[s] = 0
    BY <1>5 DEF Reset
  <2>3. QED
    BY <2>1, <2>2, LossKeepsInv
<1>6. ASSUME NEW ws \in Sockets, NEW m \in 1..MaxConcurrency,
             NEW c \in SUBSET Capabilities, Negotiate(ws, m, c)
      PROVE  ConnInv'
  <2>1. /\ UNCHANGED <<conn, seen, slots, owner, phase, reported>>
        /\ conn = ws
        /\ profile'.active = EffectiveActive(slots)
        /\ profile'.max = m
        /\ EffectiveActive(slots) <= m
    BY <1>6 DEF Negotiate, connVars, reqVars
  <2>2. EffectiveActive(slots) = reported + slots[ws]
    BY <2>1 DEF EffectiveActive
  <2>3. CapacityRespected'
    BY <2>1, <2>2 DEF CapacityRespected
  <2>4. QED
    BY <2>1, <2>3, HeldUnchanged DEF ConnInv, TypeOK
<1>7. ASSUME NEW ws \in Sockets, NEW s \in Sockets, NEW k \in 0..MaxConcurrency,
             NEW n \in 1..SeqBound, UpdateActivity(ws, k, s, n)
      PROVE  ConnInv'
  <2>1. /\ UNCHANGED <<conn, seen, slots, owner, phase>>
        /\ conn = ws
        /\ reported' = k
        /\ k + slots[ws] <= profile.max
        /\ profile' = [profile EXCEPT !.active = k + slots[ws]]
    BY <1>7 DEF UpdateActivity, FrameAccepted, connVars, reqVars
  <2>2. profile'.active = k + slots[ws] /\ profile'.max = profile.max
    BY <2>1 DEF TypeOK, Profiles
  <2>3. CapacityRespected'
    BY <2>1, <2>2 DEF CapacityRespected
  <2>4. QED
    BY <2>1, <2>3, HeldUnchanged DEF ConnInv, TypeOK
<1>8. ASSUME NEW r \in Requests, Issue(r) PROVE ConnInv'
  <2>1. /\ UNCHANGED <<conn, seen, open, reported>>
        /\ phase[r] = "idle"
        /\ conn \in Sockets
        /\ profile.active < profile.max
        /\ slots' = [slots EXCEPT ![conn] = slots[conn] + 1]
        /\ profile' = [profile EXCEPT !.active = EffectiveActive(slots')]
        /\ phase' = [phase EXCEPT ![r] = "waiting"]
        /\ owner' = [owner EXCEPT ![r] = conn]
    BY <1>8 DEF Issue, ReserveSlot, connVars, TypeOK
  <2>2. slots[conn] \in Nat /\ slots'[conn] = slots[conn] + 1
    BY <2>1 DEF TypeOK
  <2>3. \A q \in Requests :
          /\ phase'[q] = IF q = r THEN "waiting" ELSE phase[q]
          /\ owner'[q] = IF q = r THEN conn ELSE owner[q]
    BY <2>1 DEF TypeOK
  <2>4. Held(conn)' = Held(conn) \union {r} /\ r \notin Held(conn)
    BY <2>1, <2>3 DEF Held
  <2>5. Cardinality(Held(conn)') = Cardinality(Held(conn)) + 1
    BY <2>4, HeldFinite, FS_AddElement
  <2>6. \A s \in Sockets : s # conn => slots'[s] = 0
    BY <2>1, <1>a DEF TypeOK
  <2>7. SlotAccounting'
    BY <2>1, <2>2, <2>5, <2>6 DEF ConnInv, SlotAccounting
  <2>8. CapacityRespected'
    <3>0. EffectiveActive(slots') = reported + slots'[conn] /\ reported \in Nat
      BY <2>1 DEF EffectiveActive, TypeOK
    <3>1. EffectiveActive(slots') = reported + slots[conn] + 1
      BY <2>2, <3>0
    <3>2. profile.active = reported + slots[conn]
      BY <2>1 DEF ConnInv, CapacityRespected
    <3>3. profile'.active = reported + slots[conn] + 1 /\ profile'.max = profile.max
      BY <2>1, <3>1 DEF TypeOK, Profiles
    <3>4. profile.active \in Nat /\ profile.max \in Nat /\ reported \in Nat
      BY DEF TypeOK, Profiles
    <3>5. QED
      BY <2>1, <2>2, <3>2, <3>3, <3>4 DEF CapacityRespected
  <2>9. NoOrphanWaiter' /\ (\A q \in Requests : phase[q] # "idle" => owner[q] \in seen)'
    BY <2>1, <2>3 DEF ConnInv, NoOrphanWaiter
  <2>10. QED
    BY <2>1, <2>7, <2>8, <2>9 DEF ConnInv
<1>9. ASSUME NEW r \in Requests, phase[r] = "waiting",
             phase' = [phase EXCEPT ![r] = "settled"],
             UNCHANGED <<conn, seen, owner, profile, reported, slots>>
      PROVE  ConnInv'
  <2>1. CapacityRespected'
    BY <1>9 DEF ConnInv, CapacityRespected
  <2>2. \A q \in Requests : phase'[q] = IF q = r THEN "settled" ELSE phase[q]
    BY <1>9 DEF TypeOK
  <2>3. QED
    BY <1>9, <2>1, <2>2, HeldUnchanged DEF ConnInv, TypeOK
<1>10. ASSUME NEW ws \in Sockets, NEW s \in Sockets, NEW r \in Requests,
              NEW n \in 1..SeqBound, Deliver(ws, r, s, n)
       PROVE  ConnInv'
  BY <1>9, <1>10 DEF Deliver, connVars, capVars
<1>11. ASSUME NEW r \in Requests, Expire(r) PROVE ConnInv'
  BY <1>9, <1>11 DEF Expire, connVars, capVars
<1>12. ASSUME UNCHANGED <<connVars, capVars, reqVars>> PROVE ConnInv'
  <2>1. UNCHANGED <<conn, seen, owner, profile, reported, slots, phase>>
    BY <1>12 DEF connVars, capVars, reqVars
  <2>2. CapacityRespected'
    BY <2>1 DEF ConnInv, CapacityRespected
  <2>3. QED
    BY <2>1, <2>2, HeldUnchanged DEF ConnInv, TypeOK
<1>13. ASSUME NEW r \in Requests, Finish(r) PROVE ConnInv'
  <2>1. /\ UNCHANGED <<conn, seen, open, reported, owner>>
        /\ phase[r] = "settled"
        /\ phase' = [phase EXCEPT ![r] = "done"]
        /\ slots' = [slots EXCEPT ![owner[r]] = Released(slots[owner[r]])]
        /\ profile' = IF conn = owner[r]
                      THEN [profile EXCEPT !.active = EffectiveActive(slots')]
                      ELSE profile
    BY <1>13 DEF Finish, ReleaseSlot, connVars
  <2>2. owner[r] \in Sockets
    BY <2>1 DEF ConnInv, TypeOK
  <2>3. \A q \in Requests : phase'[q] = IF q = r THEN "done" ELSE phase[q]
    BY <2>1 DEF TypeOK
  <2>4. NoOrphanWaiter' /\ (\A q \in Requests : phase[q] # "idle" => owner[q] \in seen)'
    BY <2>1, <2>3 DEF ConnInv, NoOrphanWaiter
  <2>5. CASE conn = owner[r]
    <3>1. Held(conn)' = Held(conn) \ {r} /\ r \in Held(conn)
      BY <2>1, <2>3, <2>5 DEF Held
    <3>2. /\ Cardinality(Held(conn)') = Cardinality(Held(conn)) - 1
          /\ Cardinality(Held(conn)) \in Nat \ {0}
      BY <3>1, HeldFinite, FS_RemoveElement, FS_EmptySet
    <3>3. slots[conn] = Cardinality(Held(conn))
      BY <2>2, <2>5 DEF ConnInv, SlotAccounting
    <3>4. slots'[conn] = slots[conn] - 1
      BY <2>1, <2>2, <2>5, <3>2, <3>3 DEF Released, TypeOK
    <3>5. \A s \in Sockets : s # conn => slots'[s] = 0
      BY <2>1, <2>5, <1>a DEF TypeOK
    <3>6. SlotAccounting'
      BY <2>1, <3>2, <3>3, <3>4, <3>5 DEF SlotAccounting
    <3>7. CapacityRespected'
      <4>1. EffectiveActive(slots') = reported + slots[conn] - 1
        BY <2>2, <2>5, <3>2, <3>3, <3>4 DEF EffectiveActive, TypeOK
      <4>2. profile.active = reported + slots[conn] /\ profile.active <= profile.max
        BY <2>2, <2>5 DEF ConnInv, CapacityRespected
      <4>3. profile'.active = reported + slots[conn] - 1 /\ profile'.max = profile.max
        BY <2>1, <2>5, <4>1 DEF TypeOK, Profiles
      <4>4. profile.active \in Nat /\ profile.max \in Nat /\ reported \in Nat
        BY DEF TypeOK, Profiles
      <4>5. QED
        BY <2>1, <3>2, <3>3, <3>4, <4>2, <4>3, <4>4 DEF CapacityRespected
    <3>8. QED
      BY <2>1, <2>4, <3>6, <3>7 DEF ConnInv
  <2>6. CASE conn # owner[r]
    <3>1. slots[owner[r]] = 0
      BY <1>a, <2>2, <2>6
    <3>2. \A s \in Sockets : slots'[s] = slots[s]
      BY <2>1, <2>2, <3>1 DEF Released, TypeOK
    <3>3. conn \in Sockets => Held(conn)' = Held(conn)
      BY <2>1, <2>3, <2>6 DEF Held
    <3>4. SlotAccounting'
      BY <2>1, <3>2, <3>3 DEF ConnInv, SlotAccounting
    <3>5. CapacityRespected'
      BY <2>1, <2>6, <3>2 DEF ConnInv, CapacityRespected, TypeOK
    <3>6. QED
      BY <2>1, <2>4, <3>4, <3>5 DEF ConnInv
  <2>7. QED
    BY <2>5, <2>6
<1>14. CASE UNCHANGED vars
  BY <1>12, <1>14 DEF vars
<1>15. ASSUME NEW ws \in Sockets, NEW s \in Sockets, NEW r \in ChatRequests,
              NEW n \in 1..SeqBound, DeliverProgress(ws, r, s, n)
       PROVE  ConnInv'
  BY <1>12, <1>15 DEF DeliverProgress
<1>16. ASSUME NEW ws \in Sockets, NEW s \in Sockets, NEW n \in 1..SeqBound,
              OtherFrame(ws, s, n)
       PROVE  ConnInv'
  BY <1>12, <1>16 DEF OtherFrame
<1>17. ASSUME NEW r \in ChatRequests, ProgressTaskEnds(r) PROVE ConnInv'
  BY <1>12, <1>17 DEF ProgressTaskEnds
<1>18. QED
  BY <1>1, <1>3, <1>4, <1>5, <1>6, <1>7, <1>8, <1>10, <1>11, <1>13, <1>14,
     <1>15, <1>16, <1>17 DEF Next

LEMMA ConnInvariant == Spec => []ConnInv
<1>1. Spec => []TypeOK
  BY TypeCorrect
<1>2. QED
  BY <1>1, ConnInit, ConnStep, PTL DEF Spec

\* Slots always equal the unfinished requests of the active socket.
THEOREM SlotsExact == Spec => []SlotAccounting
BY ConnInvariant, PTL DEF ConnInv

\* The agent is never over-committed.
THEOREM CapacityHolds == Spec => []CapacityRespected
BY ConnInvariant, PTL DEF ConnInv

\* No caller waits on a socket that is gone.
THEOREM NoCallerStranded == Spec => []NoOrphanWaiter
BY ConnInvariant, PTL DEF ConnInv

-----------------------------------------------------------------------------

\* The strengthening for frame numbers: only the active socket has a session,
\* a socket without one has applied no frame unless it is gone for good, and
\* the session's number bounds everything applied in it.
SessionInv ==
  /\ conn # NoSocket => conn \in seen
  /\ \A ws \in Sockets : ws \notin seen => accepted[ws] = <<>>
  /\ \A ws \in Sockets : ws = conn /\ lastSeq[ws] = NoSession => accepted[ws] = <<>>
  /\ \A ws \in Sockets : ws = conn /\ lastSeq[ws] # NoSession =>
       \A i \in 1..Len(accepted[ws]) : accepted[ws][i] <= lastSeq[ws]
  /\ \A ws \in Sockets : ws # conn => lastSeq[ws] = NoSession
  /\ FramesAppliedOnce

LEMMA SessionInit == Init => SessionInv
BY SocketAssumption DEF Init, SessionInv, FramesAppliedOnce

LEMMA SessionStep == TypeOK /\ SessionInv /\ [Next]_vars => SessionInv'
<1> SUFFICES ASSUME TypeOK, SessionInv, [Next]_vars PROVE SessionInv'
  OBVIOUS
<1> USE SocketAssumption DEF connVars, capVars, seqVars
<1>1. ASSUME UNCHANGED <<conn, seen, lastSeq, accepted>> PROVE SessionInv'
  BY <1>1 DEF SessionInv, FramesAppliedOnce
<1>2. ASSUME NEW ws \in Sockets, Connect(ws) PROVE SessionInv'
  <2>1. /\ ws \notin seen /\ conn' = ws /\ seen' = seen \union {ws}
        /\ accepted' = accepted
        /\ lastSeq' = [s \in Sockets |-> IF s = conn THEN NoSession ELSE lastSeq[s]]
    BY <1>2 DEF Connect
  <2>2. \A s \in Sockets : lastSeq'[s] = NoSession
    BY <2>1 DEF SessionInv
  <2>3. QED
    BY <2>1, <2>2 DEF SessionInv, FramesAppliedOnce
<1>3. ASSUME conn' = NoSocket, seen' = seen, accepted' = accepted,
             \A s \in Sockets : lastSeq'[s] = NoSession
      PROVE  SessionInv'
  BY <1>3 DEF SessionInv, FramesAppliedOnce
<1>4. ASSUME DropConnection, seen' = seen PROVE SessionInv'
  <2>1. \A s \in Sockets : lastSeq'[s] = NoSession
    BY <1>4 DEF DropConnection, SessionInv
  <2>2. QED
    BY <1>3, <1>4, <2>1 DEF DropConnection
<1>5. ASSUME NEW ws \in Sockets, Disconnect(ws) PROVE SessionInv'
  BY <1>1, <1>4, <1>5 DEF Disconnect
<1>6. ASSUME Close PROVE SessionInv'
  BY <1>4, <1>6 DEF Close
<1>7. ASSUME Reset PROVE SessionInv'
  BY <1>3, <1>7 DEF Reset
<1>8. ASSUME NEW ws \in Sockets, NEW m \in 1..MaxConcurrency,
             NEW c \in SUBSET Capabilities, Negotiate(ws, m, c)
      PROVE  SessionInv'
  <2>1. /\ conn = ws /\ lastSeq[ws] = NoSession /\ UNCHANGED <<conn, seen, accepted>>
        /\ lastSeq' = [lastSeq EXCEPT ![ws] = 0]
    BY <1>8 DEF Negotiate
  <2>2. accepted[ws] = <<>>
    BY <2>1 DEF SessionInv
  <2>3. QED
    BY <2>1, <2>2 DEF SessionInv, FramesAppliedOnce, TypeOK
<1>9. ASSUME NEW ws \in Sockets, NEW s \in Sockets, NEW n \in 1..SeqBound,
             FrameAccepted(ws, s, n), UNCHANGED <<conn, seen>>
      PROVE  SessionInv'
  <2>1. CASE profile.legacy
    BY <1>1, <1>9, <2>1 DEF FrameAccepted
  <2>2. CASE ~profile.legacy
    <3>1. /\ conn = ws /\ lastSeq[ws] # NoSession /\ n > lastSeq[ws]
          /\ lastSeq' = [lastSeq EXCEPT ![ws] = n]
          /\ accepted' = [accepted EXCEPT ![ws] = Append(accepted[ws], n)]
      BY <1>9, <2>2 DEF FrameAccepted
    <3> DEFINE old == accepted[ws]
               new == accepted'[ws]
    <3>2. /\ old \in Seq(Nat) /\ lastSeq[ws] \in Nat /\ n \in Nat
          /\ new = Append(old, n)
      BY <3>1 DEF TypeOK
    <3>3. \A i \in 1..Len(old) : old[i] <= lastSeq[ws] /\ old[i] \in Nat
      BY <3>1, <3>2 DEF SessionInv
    <3>4. /\ Len(new) = Len(old) + 1 /\ Len(old) \in Nat
          /\ new[Len(old) + 1] = n
          /\ \A i \in 1..Len(old) : new[i] = old[i]
      BY <3>2
    <3>5. \A i \in 1..Len(new) : new[i] <= n
      BY <3>1, <3>2, <3>3, <3>4
    <3>6. \A i, j \in 1..Len(old) : i < j => old[i] < old[j]
      BY DEF SessionInv, FramesAppliedOnce
    <3>7. \A i, j \in 1..Len(new) : i < j => new[i] < new[j]
      <4> SUFFICES ASSUME NEW i \in 1..Len(new), NEW j \in 1..Len(new), i < j
                   PROVE  new[i] < new[j]
        OBVIOUS
      <4>1. i \in 1..Len(old)
        BY <3>4
      <4>2. CASE j \in 1..Len(old)
        BY <3>4, <3>6, <4>1, <4>2
      <4>3. CASE j = Len(old) + 1
        BY <3>1, <3>2, <3>3, <3>4, <4>1, <4>3
      <4>4. QED
        BY <3>4, <4>2, <4>3
    <3>8. \A t \in Sockets : t # ws => accepted'[t] = accepted[t] /\ lastSeq'[t] = lastSeq[t]
      BY <3>1 DEF TypeOK
    <3>9. lastSeq'[ws] = n /\ n # NoSession
      BY <3>1 DEF TypeOK, NoSession
    <3>10. FramesAppliedOnce'
      BY <3>7, <3>8 DEF SessionInv, FramesAppliedOnce
    <3>11. ws \in seen
      BY <3>1 DEF SessionInv
    <3>12. QED
      BY <1>9, <3>1, <3>5, <3>8, <3>9, <3>10, <3>11 DEF SessionInv
  <2>3. QED
    BY <2>1, <2>2
<1>10. ASSUME NEW ws \in Sockets, NEW s \in Sockets, NEW k \in 0..MaxConcurrency,
              NEW n \in 1..SeqBound, UpdateActivity(ws, k, s, n)
       PROVE  SessionInv'
  BY <1>9, <1>10 DEF UpdateActivity
<1>11. ASSUME NEW ws \in Sockets, NEW s \in Sockets, NEW r \in Requests,
              NEW n \in 1..SeqBound, Deliver(ws, r, s, n)
       PROVE  SessionInv'
  BY <1>9, <1>11 DEF Deliver
<1>12. ASSUME NEW ws \in Sockets, NEW s \in Sockets, NEW r \in ChatRequests,
              NEW n \in 1..SeqBound, DeliverProgress(ws, r, s, n)
       PROVE  SessionInv'
  BY <1>9, <1>12 DEF DeliverProgress
<1>13. ASSUME NEW ws \in Sockets, NEW s \in Sockets, NEW n \in 1..SeqBound,
              OtherFrame(ws, s, n)
       PROVE  SessionInv'
  BY <1>9, <1>13 DEF OtherFrame
<1>14. ASSUME NEW r \in Requests, Issue(r) \/ Expire(r) \/ Finish(r) PROVE SessionInv'
  BY <1>1, <1>14 DEF Issue, Expire, Finish
<1>15. ASSUME NEW r \in ChatRequests, ProgressTaskEnds(r) PROVE SessionInv'
  BY <1>1, <1>15 DEF ProgressTaskEnds
<1>16. CASE UNCHANGED vars
  BY <1>1, <1>16 DEF vars
<1>17. QED
  BY <1>2, <1>5, <1>6, <1>7, <1>8, <1>10, <1>11, <1>12, <1>13, <1>14, <1>15,
     <1>16 DEF Next

\* Frames of a negotiated session are applied at most once and in order.
THEOREM NoReplay == Spec => []FramesAppliedOnce
<1>1. SessionInv => FramesAppliedOnce
  BY DEF SessionInv
<1>2. QED
  BY <1>1, TypeCorrect, SessionInit, SessionStep, PTL DEF Spec

-----------------------------------------------------------------------------
\* Progress frames.

\* What a failed, dropped or finished request leaves of its progress.
LEMMA FailProgress ==
  ASSUME TypeOK, ProgressBounded, NEW S, FailSocketRequests(S)
  PROVE  ProgressBounded'
<1> SUFFICES ASSUME NEW r \in ChatRequests
             PROVE  /\ usage'[r] <= ProgressFrames
                    /\ tasks'[r] <= usage'[r]
                    /\ phase'[r] \in {"idle", "done"} => r \notin handlers' /\ tasks'[r] = 0
  BY DEF ProgressBounded
<1>1. /\ r \in Requests
      /\ usage'[r] \in {0, usage[r]}
      /\ (usage'[r] = 0 /\ tasks'[r] = 0) \/ (usage'[r] = usage[r] /\ tasks'[r] = tasks[r])
      /\ handlers' \subseteq handlers
      /\ phase'[r] = "settled" \/ phase'[r] = phase[r]
  BY DEF FailSocketRequests, Requests
<1>2. usage[r] \in Nat /\ tasks[r] \in Nat /\ ProgressFrames \in Nat
  BY BoundAssumption DEF TypeOK
<1> QED BY <1>1, <1>2 DEF ProgressBounded

LEMMA ProgressStep == TypeOK /\ ProgressBounded /\ [Next]_vars => ProgressBounded'
<1> SUFFICES ASSUME TypeOK, ProgressBounded, [Next]_vars PROVE ProgressBounded'
  OBVIOUS
<1>1. /\ usage \in [ChatRequests -> Nat] /\ tasks \in [ChatRequests -> Nat]
      /\ phase \in [Requests -> Phases] /\ ChatRequests \subseteq Requests /\ ProgressFrames \in Nat
  BY BoundAssumption DEF TypeOK, Requests
<1>2. ASSUME UNCHANGED <<progVars, phase>> PROVE ProgressBounded'
  BY <1>2 DEF ProgressBounded, progVars
<1>3. ASSUME \E ws \in Sockets : Connect(ws) \/ Disconnect(ws) PROVE ProgressBounded'
  BY <1>2, <1>3, FailProgress DEF Connect, Disconnect, DropConnection, reqVars
<1>4. ASSUME Close \/ Reset PROVE ProgressBounded'
  BY <1>4, FailProgress DEF Close, DropConnection, Reset
<1>5. ASSUME \E ws, s \in Sockets, n \in 1..SeqBound :
               \/ OtherFrame(ws, s, n)
               \/ \E k \in 0..MaxConcurrency : UpdateActivity(ws, k, s, n)
      PROVE  ProgressBounded'
  BY <1>2, <1>5 DEF OtherFrame, UpdateActivity, reqVars
<1>6. ASSUME NEW ws \in Sockets, NEW m, NEW c, Negotiate(ws, m, c) PROVE ProgressBounded'
  BY <1>2, <1>6 DEF Negotiate, reqVars
<1>7. ASSUME NEW r \in Requests, Issue(r) PROVE ProgressBounded'
  BY <1>1, <1>7 DEF Issue, ProgressBounded
<1>8. ASSUME NEW ws \in Sockets, NEW s \in Sockets, NEW r \in Requests, NEW n, Deliver(ws, r, s, n)
      PROVE  ProgressBounded'
  BY <1>1, <1>8 DEF Deliver, ProgressBounded, progVars
<1>9. ASSUME NEW ws \in Sockets, NEW s \in Sockets, NEW r \in ChatRequests, NEW n,
             DeliverProgress(ws, r, s, n)
      PROVE  ProgressBounded'
  <2>1. /\ r \in handlers /\ usage[r] < ProgressFrames
        /\ usage' = [usage EXCEPT ![r] = usage[r] + 1] /\ tasks' = [tasks EXCEPT ![r] = tasks[r] + 1]
        /\ UNCHANGED <<phase, handlers>>
    BY <1>9 DEF DeliverProgress, reqVars
  <2> QED BY <1>1, <2>1 DEF ProgressBounded
<1>10. ASSUME NEW r \in ChatRequests, ProgressTaskEnds(r) PROVE ProgressBounded'
  <2>1. tasks[r] > 0 /\ tasks' = [tasks EXCEPT ![r] = tasks[r] - 1] /\ UNCHANGED <<phase, handlers, usage>>
    BY <1>10 DEF ProgressTaskEnds, reqVars
  <2> QED BY <1>1, <2>1 DEF ProgressBounded
<1>11. ASSUME NEW r \in Requests, Expire(r) PROVE ProgressBounded'
  BY <1>1, <1>11 DEF Expire, ProgressBounded, progVars
<1>12. ASSUME NEW r \in Requests, Finish(r) PROVE ProgressBounded'
  BY <1>1, <1>12 DEF Finish, ProgressBounded
<1>13. CASE UNCHANGED vars
  BY <1>2, <1>13 DEF vars, reqVars
<1> QED BY <1>3, <1>4, <1>5, <1>6, <1>7, <1>8, <1>9, <1>10, <1>11, <1>12, <1>13 DEF Next

\* A request delivers a bounded number of frames, and none of its broadcasts
\* outlives its finally block, however sockets and answers interleave.
THEOREM ProgressEnds == Spec => []ProgressBounded
<1>1. Init => ProgressBounded
  BY BoundAssumption DEF Init, ProgressBounded
<1> QED BY <1>1, TypeCorrect, ProgressStep, PTL DEF Spec

-----------------------------------------------------------------------------
\* PART II.  The inbox and its stream.  InboxInv says that the stream has an event
\* of an item whenever the store holds one, and that a page of this process
\* either shows the store or has an event of an item behind its cursor.  A page
\* starts at cursor 0 with what the store holds, and a publication that changes
\* the store appends an event of an item (PublishIs), so only the pages that are
\* going to be told are left behind.

USE SourceAssumption, OwnerAssumption, LimitAssumption

-----------------------------------------------------------------------------
\* The store.

Item == [status : Statuses, kind : {"run_failed", "review_requested"},
         acknowledged : BOOLEAN, owner : Owners \union {NoOwner}, resolved : BOOLEAN]
Items == UNION {[S -> Item] : S \in SUBSET Sources}

\* What a page has read: the runs first, then everything.
Reads == [Runs -> Statuses] \union [Sources -> Statuses] \union {Empty}
AnswerRow == [told : BOOLEAN, cursor : Nat, unread : Nat]
PageRow == [pc : {"closed", "runs", "read", "open", "asked"}, seen : Reads, items : Items,
            cursor : Nat, unread : Nat, answer : AnswerRow]

ReadSo(r) ==
  /\ r \in PageRow
  /\ r.pc = "runs" => r.seen \in [Runs -> Statuses]
  /\ r.pc = "read" => r.seen \in [Sources -> Statuses]

\* The store holds items of records, the stream knows what it holds, and what a
\* page has read are statuses.
StoreInv ==
  /\ src \in [Sources -> Statuses]
  /\ store \in Items
  /\ snap = store
  /\ page = [p \in Pages |-> page[p]]
  /\ \A p \in Pages : ReadSo(page[p])
  /\ restarts \in Nat

EventRow == [type : {"remove", "upsert", "unread_count"}, id : Sources \union {"none"}]

\* An event of an item behind a place of the stream.
ItemBehind(events, n) ==
  \E i \in 1..Len(events) : n < i /\ events[i].type \in {"upsert", "remove"}

LogInv ==
  /\ log \in Seq(EventRow)
  /\ store # Empty => ItemBehind(log, 0)

\* What a page goes by: Latest, of the page alone.
Point(r) ==
  IF r.pc = "asked" THEN r.answer ELSE [told |-> FALSE, cursor |-> r.cursor, unread |-> r.unread]

\* A page of this process is current or will be told.
Follows(r, items, events) ==
  /\ Point(r).cursor \in 0..Len(events)
  /\ \/ r.items = items /\ Point(r).unread = Unread(items)
     \/ Point(r).told
     \/ ItemBehind(events, Point(r).cursor)

PagesInv ==
  \A p \in Pages \ lapsed : page[p].pc \in {"open", "asked"} => Follows(page[p], store, log)

InboxInv == StoreInv /\ LogInv /\ PagesInv

-----------------------------------------------------------------------------
\* Sets of items and their counts.

LEMMA ItemsAre ==
  ASSUME NEW items
  PROVE  items \in Items <=>
           /\ DOMAIN items \subseteq Sources /\ items = [s \in DOMAIN items |-> items[s]]
           /\ \A s \in DOMAIN items : items[s] \in Item
<1>1. ASSUME items \in Items
      PROVE  /\ DOMAIN items \subseteq Sources /\ items = [s \in DOMAIN items |-> items[s]]
             /\ \A s \in DOMAIN items : items[s] \in Item
  <2>1. PICK S \in SUBSET Sources : items \in [S -> Item]
    BY <1>1 DEF Items
  <2> QED BY <2>1
<1>2. ASSUME DOMAIN items \subseteq Sources, items = [s \in DOMAIN items |-> items[s]],
             \A s \in DOMAIN items : items[s] \in Item
      PROVE  items \in Items
  <2>1. items \in [DOMAIN items -> Item]
    BY <1>2
  <2> QED BY <1>2, <2>1 DEF Items
<1> QED BY <1>1, <1>2

LEMMA EmptyIs == Empty \in Items /\ DOMAIN Empty = {} /\ Unread(Empty) = 0
<1>1. DOMAIN Empty = {}
  BY DEF Empty
<1>2. Empty \in [{} -> Item]
  BY DEF Empty
<1>3. Empty \in Items
  BY <1>2 DEF Items
<1>4. {s \in DOMAIN Empty : ~Empty[s].acknowledged /\ ~Empty[s].resolved} = {}
  BY <1>1
<1> QED BY <1>1, <1>3, <1>4, FS_EmptySet DEF Unread

LEMMA UnreadIs ==
  ASSUME NEW items, DOMAIN items \subseteq Sources
  PROVE  Unread(items) \in 0..Cardinality(Sources) /\ Unread(items) \in Nat
<1> DEFINE S == {s \in DOMAIN items : ~items[s].acknowledged /\ ~items[s].resolved}
<1>1. IsFiniteSet(Sources) /\ S \in SUBSET Sources
  BY DEF Sources
<1>2. IsFiniteSet(S) /\ Cardinality(S) <= Cardinality(Sources)
  BY <1>1, FS_Subset
<1>3. Cardinality(S) \in Nat /\ Cardinality(Sources) \in Nat
  BY <1>1, <1>2, FS_CardinalityType
<1> QED BY <1>2, <1>3 DEF Unread

LEMMA NewItemIs ==
  ASSUME NEW status \in Statuses
  PROVE  /\ Kind(status) \in {"none", "run_failed", "review_requested"}
         /\ Kind(status) # "none" => NewItem(status) \in Item
BY DEF Kind, NewItem, Item

LEMMA ClosedIs == ReadSo(Closed) /\ Closed.pc = "closed" /\ Closed.cursor = 0 /\ NoAnswer \in AnswerRow
<1>1. NoAnswer \in AnswerRow
  BY DEF NoAnswer, AnswerRow
<1>2. Empty \in Reads /\ Empty \in Items
  BY EmptyIs DEF Reads
<1>3. Closed \in PageRow
  BY <1>1, <1>2 DEF Closed, PageRow
<1> QED BY <1>1, <1>3 DEF Closed, ReadSo

-----------------------------------------------------------------------------
\* The stream.

LEMMA NoneBehind ==
  ASSUME NEW events \in Seq(EventRow)
  PROVE  Len(events) \in Nat /\ (Len(events) = 0 <=> events = <<>>)
OBVIOUS

\* What is behind a cursor of the stream, which OfItems asks of the events there.
LEMMA BehindIs ==
  ASSUME log \in Seq(EventRow), NEW n \in 0..Len(log)
  PROVE  OfItems(EventsAfter(n)) <=> ItemBehind(log, n)
<1> DEFINE tail == SubSeq(log, n + 1, Len(log))
<1>1. Len(log) \in Nat /\ n \in Nat /\ n <= Len(log)
  BY NoneBehind
<1>2. \A i \in n + 1..Len(log) : log[i] \in EventRow
  BY <1>1, ElementOfSeq
<1>3. n + 1 \in Int /\ Len(log) \in Int
  BY <1>1
<1>4. /\ Len(tail) = IF n + 1 <= Len(log) THEN Len(log) - (n + 1) + 1 ELSE 0
      /\ \A i \in 1..Len(log) - (n + 1) + 1 : tail[i] = log[(n + 1) + i - 1]
  BY <1>2, <1>3, SubSeqProperties
<1> HIDE DEF tail
<1>5. Len(tail) = Len(log) - n /\ Len(log) - (n + 1) + 1 = Len(log) - n
  BY ONLY <1>1, <1>4
<1>6. ASSUME NEW i \in 1..Len(tail) PROVE n + i \in 1..Len(log) /\ n < n + i /\ tail[i] = log[n + i]
  <2>1. i \in 1..Len(log) - (n + 1) + 1 /\ (n + 1) + i - 1 = n + i
    BY ONLY <1>1, <1>5, i \in 1..Len(tail)
  <2>2. n + i \in 1..Len(log) /\ n < n + i
    BY ONLY <1>1, <1>5, i \in 1..Len(tail)
  <2> QED BY ONLY <1>4, <2>1, <2>2
<1>7. ASSUME NEW k \in 1..Len(log), n < k PROVE k - n \in 1..Len(tail) /\ n + (k - n) = k
  BY ONLY <1>1, <1>5, k \in 1..Len(log), n < k
<1>8. EventsAfter(n) = tail
  BY DEF EventsAfter, tail
<1>9. ASSUME OfItems(tail) PROVE ItemBehind(log, n)
  <2>1. PICK i \in 1..Len(tail) : tail[i].type \in {"upsert", "remove"}
    BY <1>9 DEF OfItems
  <2>2. n + i \in 1..Len(log) /\ n < n + i /\ log[n + i].type \in {"upsert", "remove"}
    BY <1>6, <2>1
  <2> QED BY <2>2 DEF ItemBehind
<1>10. ASSUME ItemBehind(log, n) PROVE OfItems(tail)
  <2>1. PICK k \in 1..Len(log) : n < k /\ log[k].type \in {"upsert", "remove"}
    BY <1>10 DEF ItemBehind
  <2>2. k - n \in 1..Len(tail) /\ tail[k - n] = log[k]
    <3>1. k - n \in 1..Len(tail) /\ n + (k - n) = k
      BY <1>7, <2>1
    <3> QED BY <1>6, <3>1
  <2> QED BY <2>1, <2>2 DEF OfItems
<1> QED BY <1>8, <1>9, <1>10

LEMMA SeqOfFinite ==
  ASSUME NEW S, IsFiniteSet(S)
  PROVE  /\ SetToSeq(S) \in Seq(S)
         /\ \A s \in S : \E i \in 1..Len(SetToSeq(S)) : SetToSeq(S)[i] = s
<1> DEFINE n == Cardinality(S)
           f == SetToSeq(S)
<1>1. n \in Nat /\ ExistsBijection(1..n, S)
  BY FS_CardinalityType
<1>2. \E g \in [1..n -> S] : IsInjective(g)
  BY <1>1 DEF ExistsBijection, Bijection, Injection, IsInjective
<1>3. f \in [1..n -> S] /\ IsInjective(f)
  BY <1>2 DEF SetToSeq
<1>4. f \in Injection(1..n, S)
  BY <1>3 DEF Injection, IsInjective
<1>5. IsFiniteSet(1..n) /\ Cardinality(1..n) = n
  BY <1>1, FS_Interval
<1>6. f \in Surjection(1..n, S)
  BY <1>4, <1>5, FS_Injection
<1> HIDE DEF f
<1>7. f \in Seq(S) /\ Len(f) = n
  BY <1>1, <1>3
<1>8. \A s \in S : \E i \in 1..Len(f) : f[i] = s
  BY <1>6, <1>7 DEF Surjection
<1> QED BY <1>7, <1>8 DEF f

Gone(items) == DOMAIN snap \ DOMAIN items
Fresh(items) == {s \in DOMAIN items : s \notin DOMAIN snap \/ snap[s] # items[s]}

\* A sequence of events of items, with one at least if there is something to tell.
Parts(events, S) ==
  /\ events \in Seq(EventRow)
  /\ \A i \in 1..Len(events) : events[i].type \in {"upsert", "remove"}
  /\ S # {} => events # <<>>

\* The removals and the upserts: one event for each item that went or changed.
LEMMA PartsAre ==
  ASSUME NEW items \in Items, snap \in Items
  PROVE  Parts(Removals(items), Gone(items)) /\ Parts(Upserts(items), Fresh(items))
<1>1. Gone(items) \in SUBSET Sources /\ Fresh(items) \in SUBSET Sources /\ IsFiniteSet(Sources)
  BY ItemsAre DEF Gone, Fresh, Sources
<1>2. ASSUME NEW S \in SUBSET Sources, NEW type \in {"upsert", "remove"}, NEW events,
             events = [i \in 1..Len(SetToSeq(S)) |-> Event(type, SetToSeq(S)[i])]
      PROVE  Parts(events, S)
  <2> PICK ids : ids = SetToSeq(S)
    OBVIOUS
  <2>1. IsFiniteSet(S)
    BY <1>1, FS_Subset
  <2>2. ids \in Seq(S) /\ \A s \in S : \E i \in 1..Len(ids) : ids[i] = s
    BY <2>1, SeqOfFinite
  <2>3. Len(ids) \in Nat /\ \A i \in 1..Len(ids) : ids[i] \in Sources
    BY <2>2
  <2>4. \A i \in 1..Len(ids) : Event(type, ids[i]) \in EventRow /\ Event(type, ids[i]).type = type
    BY <2>3 DEF Event, EventRow
  <2>5. /\ events \in Seq(EventRow) /\ Len(events) = Len(ids)
        /\ \A i \in 1..Len(events) : events[i].type = type
    BY <1>2, <2>3, <2>4
  <2>6. S # {} => Len(ids) # 0
    BY <2>2
  <2> QED BY <2>5, <2>6, NoneBehind DEF Parts
<1>3. /\ Removals(items) = [i \in 1..Len(SetToSeq(Gone(items))) |-> Event("remove", SetToSeq(Gone(items))[i])]
      /\ Upserts(items) = [i \in 1..Len(SetToSeq(Fresh(items))) |-> Event("upsert", SetToSeq(Fresh(items))[i])]
  BY DEF Removals, Upserts, Gone, Fresh
<1> QED BY <1>1, <1>2, <1>3

\* Items that differ differ at one of them.
LEMMA Differ ==
  ASSUME NEW items \in Items, snap \in Items, items # snap
  PROVE  Gone(items) # {} \/ Fresh(items) # {}
<1>1. items = [s \in DOMAIN items |-> items[s]] /\ snap = [s \in DOMAIN snap |-> snap[s]]
  BY ItemsAre
<1>2. ASSUME Gone(items) = {}, Fresh(items) = {} PROVE FALSE
  <2>1. DOMAIN items = DOMAIN snap /\ \A s \in DOMAIN items : items[s] = snap[s]
    BY <1>2 DEF Gone, Fresh
  <2> QED BY <1>1, <2>1
<1> QED BY <1>2

Grows(old, new) ==
  /\ new \in Seq(EventRow) /\ Len(old) <= Len(new)
  /\ \A i \in 1..Len(old) : new[i] = old[i]

\* A publication leaves what was in the stream, and appends an event of an item
\* if it changes any.
LEMMA PublishIs ==
  ASSUME NEW items \in Items, snap \in Items, log \in Seq(EventRow), Publish(items)
  PROVE  /\ snap' = items /\ Grows(log, log')
         /\ items # snap => ItemBehind(log', Len(log))
<1> PICK l : l = log
  OBVIOUS
<1> PICK R : R = Removals(items)
  OBVIOUS
<1> PICK U : U = Upserts(items)
  OBVIOUS
<1> PICK e : e = Event("unread_count", "none")
  OBVIOUS
<1>1. l \in Seq(EventRow) /\ Parts(R, Gone(items)) /\ Parts(U, Fresh(items))
  BY PartsAre
<1>2. e \in EventRow
  BY DEF Event, EventRow
<1>3. snap' = items /\ (log' = Append(l \o R \o U, e) \/ log' = l \o R \o U)
  BY DEF Publish
<1> PICK all : all = l \o R \o U
  OBVIOUS
<1>4. R \in Seq(EventRow) /\ U \in Seq(EventRow)
  BY <1>1 DEF Parts
<1>5. /\ all \in Seq(EventRow) /\ Len(all) = Len(l) + Len(R) + Len(U)
      /\ Len(l) \in Nat /\ Len(R) \in Nat /\ Len(U) \in Nat
      /\ \A i \in 1..Len(l) : all[i] = l[i]
      /\ \A i \in 1..Len(R) : all[Len(l) + i] = R[i]
      /\ \A i \in 1..Len(U) : all[Len(l) + Len(R) + i] = U[i]
  BY ONLY <1>1, <1>4, all = l \o R \o U
<1>6. ASSUME items # snap
      PROVE  \E i \in 1..Len(all) : Len(l) < i /\ all[i].type \in {"upsert", "remove"}
  <2>1. Len(R) # 0 \/ Len(U) # 0
    BY <1>1, <1>4, <1>6, Differ, NoneBehind DEF Parts
  <2>2. CASE Len(R) # 0
    <3>1. 1 \in 1..Len(R) /\ Len(l) + 1 \in 1..Len(all) /\ Len(l) < Len(l) + 1
      BY ONLY <1>5, <2>2
    <3>2. R[1].type \in {"upsert", "remove"}
      BY <1>1, <3>1 DEF Parts
    <3> QED BY <1>5, <3>1, <3>2
  <2>3. CASE Len(U) # 0
    <3>1. 1 \in 1..Len(U) /\ Len(l) + Len(R) + 1 \in 1..Len(all) /\ Len(l) < Len(l) + Len(R) + 1
      BY ONLY <1>5, <2>3
    <3>2. U[1].type \in {"upsert", "remove"}
      BY <1>1, <3>1 DEF Parts
    <3> QED BY <1>5, <3>1, <3>2
  <2> QED BY <2>1, <2>2, <2>3
<1>7. Grows(all, log')
  <2>1. CASE log' = all
    BY <1>5, <2>1 DEF Grows
  <2>2. CASE log' = Append(all, e)
    <3>1. /\ Append(all, e) \in Seq(EventRow) /\ Len(Append(all, e)) = Len(all) + 1
          /\ \A i \in 1..Len(all) : Append(all, e)[i] = all[i]
      BY <1>2, <1>5, AppendProperties
    <3> QED BY <1>5, <2>2, <3>1 DEF Grows
  <2> QED BY <1>3, <2>1, <2>2
<1> PICK more : more = log'
  OBVIOUS
<1>8. /\ more \in Seq(EventRow) /\ Len(more) \in Nat /\ Len(all) <= Len(more)
      /\ \A i \in 1..Len(all) : more[i] = all[i]
  BY <1>7, NoneBehind DEF Grows
<1>9. Grows(l, more)
  <2>1. \A i \in 1..Len(l) : i \in 1..Len(all)
    BY ONLY <1>5
  <2>2. Len(l) <= Len(more)
    BY ONLY <1>5, <1>8
  <2> QED BY <1>5, <1>8, <2>1, <2>2 DEF Grows
<1>10. ASSUME items # snap PROVE ItemBehind(more, Len(l))
  <2>1. PICK i \in 1..Len(all) : Len(l) < i /\ all[i].type \in {"upsert", "remove"}
    BY <1>6, <1>10
  <2>2. i \in 1..Len(more) /\ more[i] = all[i]
    BY ONLY <1>5, <1>8, i \in 1..Len(all)
  <2> QED BY <2>1, <2>2 DEF ItemBehind
<1> QED BY <1>3, <1>9, <1>10

\* A stream that grows has what it had behind a place.
LEMMA BehindMore ==
  ASSUME NEW old \in Seq(EventRow), NEW new, Grows(old, new), NEW n
  PROVE  ItemBehind(old, n) => ItemBehind(new, n)
<1>1. Len(old) \in Nat /\ Len(new) \in Nat
  BY NoneBehind DEF Grows
<1>2. \A i \in 1..Len(old) : i \in 1..Len(new) /\ new[i] = old[i]
  BY <1>1 DEF Grows
<1> QED BY <1>2 DEF ItemBehind

-----------------------------------------------------------------------------
\* The steps.

\* A page follows on when the stream has told what changed in the store.
LEMMA FollowsMore ==
  ASSUME NEW r \in PageRow, NEW was, NEW now, NEW old \in Seq(EventRow), NEW new,
         Grows(old, new), Follows(r, was, old), now # was => ItemBehind(new, Len(old))
  PROVE  Follows(r, now, new)
<1> PICK at : at = Point(r)
  OBVIOUS
<1>1. Len(old) \in Nat /\ Len(new) \in Nat /\ Len(old) <= Len(new) /\ at.cursor \in 0..Len(old)
  BY NoneBehind DEF Grows, Follows
<1>2. at.cursor \in 0..Len(new)
  BY <1>1
<1>3. ItemBehind(old, at.cursor) => ItemBehind(new, at.cursor)
  BY BehindMore
<1>4. ASSUME now # was PROVE ItemBehind(new, at.cursor)
  <2>1. PICK i \in 1..Len(new) : Len(old) < i /\ new[i].type \in {"upsert", "remove"}
    BY <1>4 DEF ItemBehind
  <2>2. at.cursor < i
    BY <1>1, <2>1
  <2> QED BY <2>1, <2>2 DEF ItemBehind
<1> QED BY <1>2, <1>3, <1>4 DEF Follows

LEMMA PublishKeeps ==
  ASSUME InboxInv, NEW items \in Items, Publish(items), store' = items
  PROVE  /\ snap' = store' /\ LogInv'
         /\ \A p \in Pages : Follows(page[p], store, log) => Follows(page[p], store', log')
<1>1. /\ store \in Items /\ snap = store /\ log \in Seq(EventRow) /\ \A p \in Pages : page[p] \in PageRow
      /\ store # Empty => ItemBehind(log, 0)
  BY DEF InboxInv, StoreInv, LogInv, ReadSo
<1>2. snap' = items /\ Grows(log, log') /\ (items # store => ItemBehind(log', Len(log)))
  BY <1>1, PublishIs
<1>3. ASSUME items # Empty PROVE ItemBehind(log', 0)
  <2>1. CASE items = store
    BY <1>1, <1>2, <1>3, <2>1, BehindMore
  <2>2. CASE items # store
    <3>1. PICK i \in 1..Len(log') : Len(log) < i /\ log'[i].type \in {"upsert", "remove"}
      BY <1>2, <2>2 DEF ItemBehind
    <3>2. 0 < i
      OBVIOUS
    <3> QED BY <3>1, <3>2 DEF ItemBehind
  <2> QED BY <2>1, <2>2
<1>4. LogInv'
  BY <1>2, <1>3 DEF LogInv, Grows
<1>5. ASSUME NEW p \in Pages, Follows(page[p], store, log) PROVE Follows(page[p], items, log')
  BY <1>1, <1>2, <1>5, FollowsMore
<1> QED BY <1>2, <1>4, <1>5

LEMMA ReconciledIs ==
  ASSUME NEW old \in Items, NEW read \in [Sources -> Statuses]
  PROVE  /\ Reconciled(old, read) \in Items
         /\ \A s \in Sources : Kind(read[s]) # "none" =>
              /\ s \in DOMAIN Reconciled(old, read)
              /\ s \in DOMAIN old =>
                   /\ Reconciled(old, read)[s].acknowledged = old[s].acknowledged
                   /\ Reconciled(old, read)[s].owner = old[s].owner
<1> PICK new : new = Reconciled(old, read)
  OBVIOUS
<1> DEFINE D == {t \in Sources : Kind(read[t]) # "none"}
           fresh(s) == NewItem(read[s])
           kept(s) == [fresh(s) EXCEPT !.acknowledged = old[s].acknowledged, !.owner = old[s].owner]
<1>1. new = [s \in D |-> IF s \in DOMAIN old THEN kept(s) ELSE fresh(s)]
  BY DEF Reconciled, Project
<1>2. \A s \in DOMAIN old : old[s] \in Item
  BY ItemsAre
<1>3. ASSUME NEW s \in D PROVE fresh(s) \in Item
  BY NewItemIs
<1>4. ASSUME NEW s \in D, s \in DOMAIN old
      PROVE  kept(s) \in Item /\ kept(s).acknowledged = old[s].acknowledged /\ kept(s).owner = old[s].owner
  <2>1. fresh(s) \in Item /\ old[s] \in Item
    BY <1>2, <1>3, <1>4
  <2> HIDE DEF fresh
  <2> QED BY <2>1 DEF Item
<1> HIDE DEF kept, fresh
<1>5. new \in Items
  <2>1. \A s \in D : new[s] \in Item
    BY <1>1, <1>3, <1>4
  <2>2. DOMAIN new = D /\ D \subseteq Sources /\ new = [s \in DOMAIN new |-> new[s]]
    BY <1>1
  <2> QED BY <2>1, <2>2, ItemsAre
<1> QED BY <1>1, <1>4, <1>5

LEMMA ReconcileKeeps ==
  ASSUME InboxInv, NEW p \in Pages, Reconcile(p)
  PROVE  InboxInv'
<1>1. page[p].seen \in [Sources -> Statuses] /\ store \in Items
  BY DEF InboxInv, StoreInv, ReadSo, Reconcile
<1> PICK items : items = Reconciled(store, page[p].seen)
  OBVIOUS
<1> PICK r : r = [Closed EXCEPT !.pc = "open", !.items = items, !.unread = Unread(items)]
  OBVIOUS
<1>2. items \in Items /\ store' = items /\ Publish(items)
  BY <1>1, ReconciledIs DEF Reconcile
<1>3. /\ snap' = store' /\ LogInv'
      /\ \A q \in Pages : Follows(page[q], store, log) => Follows(page[q], store', log')
  BY <1>2, PublishKeeps
<1>4. page' = [page EXCEPT ![p] = r] /\ src' = src /\ restarts' = restarts /\ lapsed' = lapsed
  BY <1>2 DEF Reconcile
<1>5. /\ r \in PageRow /\ r.pc = "open" /\ r.cursor = 0 /\ r.items = items /\ r.unread = Unread(items)
  <2>1. Unread(items) \in Nat
    BY <1>2, ItemsAre, UnreadIs
  <2>2. Closed \in PageRow /\ Closed.cursor = 0
    BY ClosedIs DEF ReadSo
  <2> QED BY <1>2, <2>1, <2>2 DEF PageRow
<1>6. Follows(r, items, log')
  <2>1. 0 \in 0..Len(log')
    BY <1>3, NoneBehind DEF LogInv
  <2>2. Point(r).cursor = 0 /\ Point(r).unread = Unread(items)
    BY <1>5 DEF Point
  <2> QED BY <1>5, <2>1, <2>2 DEF Follows
<1>7. /\ page' = [q \in Pages |-> page'[q]]
      /\ \A q \in Pages : page'[q] = IF q = p THEN r ELSE page[q]
  BY <1>4 DEF InboxInv, StoreInv
<1>8. PagesInv'
  BY <1>2, <1>3, <1>4, <1>6, <1>7 DEF InboxInv, PagesInv
<1>9. StoreInv'
  BY <1>2, <1>3, <1>4, <1>5, <1>7 DEF InboxInv, StoreInv, ReadSo
<1> QED BY <1>3, <1>8, <1>9 DEF InboxInv

LEMMA UpdateKeeps ==
  ASSUME InboxInv, NEW s \in DOMAIN store, NEW item \in Item, Update(s, item)
  PROVE  InboxInv'
<1> PICK items : items = [store EXCEPT ![s] = item]
  OBVIOUS
<1>1. items \in Items
  BY ItemsAre DEF InboxInv, StoreInv
<1>2. store' = items /\ Publish(items)
  BY DEF Update
<1>3. /\ snap' = store' /\ LogInv'
      /\ \A q \in Pages : Follows(page[q], store, log) => Follows(page[q], store', log')
  BY <1>1, <1>2, PublishKeeps
<1>4. page' = page /\ src' = src /\ restarts' = restarts /\ lapsed' = lapsed
  BY DEF Update
<1>5. StoreInv' /\ PagesInv'
  BY <1>1, <1>2, <1>3, <1>4 DEF InboxInv, StoreInv, PagesInv
<1> QED BY <1>3, <1>5 DEF InboxInv

\* The three changes of an item make an item of it and take nothing away.
Adds(old, new) ==
  /\ old.acknowledged => new.acknowledged
  /\ old.owner # NoOwner => new.owner # NoOwner

LEMMA ItemChanges ==
  ASSUME StoreInv, NEW s \in DOMAIN store
  PROVE  /\ LET new == [store[s] EXCEPT !.acknowledged = TRUE]
            IN  new \in Item /\ Adds(store[s], new)
         /\ \A who \in Owners : LET new == [store[s] EXCEPT !.owner = who]
                                  IN  new \in Item /\ Adds(store[s], new)
         /\ LET new == [store[s] EXCEPT !.resolved = TRUE]
            IN  new \in Item /\ Adds(store[s], new)
<1> PICK i : i = store[s]
  OBVIOUS
<1>1. i \in Item
  BY ItemsAre DEF StoreInv
<1> QED BY <1>1 DEF Item, Adds

LEMMA SourceKeeps ==
  ASSUME InboxInv, SourceStep
  PROVE  InboxInv' /\ UNCHANGED <<store, restarts>>
<1>1. UNCHANGED <<store, snap, log, page, lapsed, restarts>>
  BY DEF SourceStep, RunEnds, Captured, Reviewed
<1>2. src' \in [Sources -> Statuses]
  <2>1. src \in [Sources -> Statuses]
    BY DEF InboxInv, StoreInv
  <2>2. PICK s \in Sources, status \in Statuses : src' = [src EXCEPT ![s] = status]
    BY DEF SourceStep, RunEnds, Captured, Reviewed, Sources, Statuses
  <2> QED BY <2>1, <2>2
<1>3. LogInv' /\ PagesInv'
  BY <1>1 DEF InboxInv, LogInv, PagesInv
<1>4. StoreInv'
  BY <1>1, <1>2 DEF InboxInv, StoreInv
<1> QED BY <1>1, <1>3, <1>4 DEF InboxInv

\* A step of a page alone: it keeps the invariant if what the page becomes does.
LEMMA PageAlone ==
  ASSUME InboxInv, NEW p \in Pages, NEW r, page' = [page EXCEPT ![p] = r], ReadSo(r),
         UNCHANGED <<src, store, snap, log, restarts>>, lapsed \ {p} \subseteq lapsed',
         r.pc \in {"open", "asked"} /\ p \notin lapsed => Follows(r, store, log),
         r.pc \in {"open", "asked"} => lapsed' = lapsed
  PROVE  InboxInv' /\ UNCHANGED <<store, restarts>>
<1>1. /\ page = [q \in Pages |-> page[q]] /\ \A q \in Pages : ReadSo(page[q])
  BY DEF InboxInv, StoreInv
<1>2. /\ page' = [q \in Pages |-> page'[q]]
      /\ \A q \in Pages : page'[q] = IF q = p THEN r ELSE page[q]
  BY <1>1
<1>3. PagesInv'
  <2> SUFFICES ASSUME NEW q \in Pages, q \notin lapsed', page'[q].pc \in {"open", "asked"}
               PROVE  Follows(page'[q], store, log)
    BY DEF PagesInv
  <2>1. CASE q = p
    BY <1>2, <2>1
  <2>2. CASE q # p
    BY <1>2, <2>2 DEF InboxInv, PagesInv
  <2> QED BY <2>1, <2>2
<1>4. StoreInv' /\ LogInv'
  BY <1>1, <1>2 DEF InboxInv, StoreInv, LogInv
<1> QED BY <1>3, <1>4 DEF InboxInv

LEMMA PageReadKeeps ==
  ASSUME InboxInv, NEW p \in Pages, PageRuns(p) \/ PageChangeSets(p) \/ LoadFails(p)
  PROVE  InboxInv' /\ UNCHANGED <<store, restarts>>
<1>1. /\ UNCHANGED <<src, store, snap, log, restarts>> /\ lapsed \ {p} \subseteq lapsed'
  BY DEF PageRuns, PageChangeSets, LoadFails
<1>2. src \in [Sources -> Statuses] /\ page = [q \in Pages |-> page[q]] /\ ReadSo(page[p])
  BY DEF InboxInv, StoreInv
<1>3. PICK r : page' = [page EXCEPT ![p] = r] /\ ReadSo(r) /\ r.pc \notin {"open", "asked"}
  <2>1. CASE PageRuns(p)
    <3> PICK read : read = [r \in Runs |-> src[r]]
      OBVIOUS
    <3>1. read \in [Runs -> Statuses] /\ read \in Reads
      BY <1>2 DEF Sources, Reads
    <3> PICK r : r = [Closed EXCEPT !.pc = "runs", !.seen = read]
      OBVIOUS
    <3>2. ReadSo(r) /\ r.pc = "runs"
      BY <3>1, ClosedIs DEF ReadSo, PageRow
    <3>3. page' = [page EXCEPT ![p] = r]
      BY <2>1 DEF PageRuns
    <3> QED BY <3>2, <3>3
  <2>2. CASE PageChangeSets(p)
    <3> PICK read : read = [s \in Sources |-> IF s \in Runs THEN page[p].seen[s] ELSE src[s]]
      OBVIOUS
    <3>1. page[p].seen \in [Runs -> Statuses] /\ page[p] \in PageRow
      BY <1>2, <2>2 DEF PageChangeSets, ReadSo
    <3>2. read \in [Sources -> Statuses]
      BY <1>2, <3>1
    <3>3. read \in Reads
      BY <3>2 DEF Reads
    <3> PICK r : r = [page[p] EXCEPT !.pc = "read", !.seen = read]
      OBVIOUS
    <3>4. ReadSo(r) /\ r.pc = "read"
      BY <3>1, <3>2, <3>3 DEF ReadSo, PageRow
    <3>5. page' = [page EXCEPT ![p] = r]
      BY <2>2 DEF PageChangeSets
    <3> QED BY <3>4, <3>5
  <2>3. CASE LoadFails(p)
    <3>1. page' = [page EXCEPT ![p] = Closed]
      BY <2>3 DEF LoadFails
    <3> QED BY <3>1, ClosedIs
  <2> QED BY <2>1, <2>2, <2>3
<1> QED BY <1>1, <1>3, PageAlone

\* The answer tells of what is behind the cursor, so a page that goes by it is
\* told or goes on from where nothing was missed.
LEMMA ReplayKeeps ==
  ASSUME InboxInv, NEW p \in Pages, Answer(p) \/ Handle(p)
  PROVE  InboxInv' /\ UNCHANGED <<store, restarts>>
<1>1. UNCHANGED <<src, store, snap, log, restarts>> /\ lapsed' = lapsed
  BY DEF Answer, Handle
<1> PICK old : old = page[p]
  OBVIOUS
<1>2. /\ store \in Items /\ log \in Seq(EventRow) /\ old \in PageRow
      /\ old.pc \in {"open", "asked"} /\ p \notin lapsed => Follows(old, store, log)
      /\ Len(log) \in Nat /\ Unread(store) \in Nat
  BY NoneBehind, ItemsAre, UnreadIs DEF InboxInv, StoreInv, LogInv, PagesInv, ReadSo
<1>3. PICK r : /\ page' = [page EXCEPT ![p] = r] /\ ReadSo(r)
               /\ r.pc \in {"open", "asked"} /\ p \notin lapsed => Follows(r, store, log)
  <2>1. CASE Answer(p)
    <3> PICK told : told = OfItems(EventsAfter(old.cursor))
      OBVIOUS
    <3> PICK answer : answer = [told |-> told, cursor |-> Len(log), unread |-> Unread(store)]
      OBVIOUS
    <3> PICK r : r = [old EXCEPT !.pc = "asked", !.answer = answer]
      OBVIOUS
    <3>1. page' = [page EXCEPT ![p] = r] /\ old.pc = "open"
      BY <2>1 DEF Answer
    <3>2. told \in BOOLEAN
      BY DEF OfItems
    <3>3. answer \in AnswerRow
      BY <1>2, <3>2 DEF AnswerRow
    <3>4. r \in PageRow /\ r.pc = "asked" /\ r.answer = answer /\ r.items = old.items
      BY <1>2, <3>3 DEF PageRow
    <3>5. ASSUME p \notin lapsed PROVE Follows(r, store, log)
      <4>1. Point(old).cursor = old.cursor /\ Point(old).told = FALSE /\ old.cursor \in 0..Len(log)
        BY <1>2, <3>1, <3>5 DEF Follows, Point
      <4>2. old.items = store \/ told
        <5>1. ItemBehind(log, old.cursor) => told
          BY <1>2, <4>1, BehindIs
        <5> QED BY <1>2, <3>1, <3>5, <4>1, <5>1 DEF Follows
      <4>3. Point(r) = answer
        BY <3>4 DEF Point
      <4> QED BY <1>2, <3>4, <4>2, <4>3 DEF Follows
    <3> QED BY <3>1, <3>4, <3>5 DEF ReadSo
  <2>2. CASE Handle(p) /\ old.answer.told
    <3>1. page' = [page EXCEPT ![p] = Closed]
      BY <2>2 DEF Handle
    <3> QED BY <3>1, ClosedIs
  <2>3. CASE Handle(p) /\ ~old.answer.told
    <3> PICK r : r = [old EXCEPT !.pc = "open", !.cursor = old.answer.cursor,
                                 !.unread = old.answer.unread, !.answer = NoAnswer]
      OBVIOUS
    <3>1. page' = [page EXCEPT ![p] = r] /\ old.pc = "asked"
      BY <2>3 DEF Handle
    <3>2. NoAnswer \in AnswerRow
      BY ClosedIs
    <3>3. /\ r \in PageRow /\ r.pc = "open" /\ r.items = old.items
          /\ r.cursor = old.answer.cursor /\ r.unread = old.answer.unread
      BY <1>2, <3>2 DEF PageRow, AnswerRow
    <3>4. /\ Point(old) = old.answer
          /\ Point(r) = [told |-> FALSE, cursor |-> old.answer.cursor, unread |-> old.answer.unread]
      BY <3>1, <3>3 DEF Point
    <3>5. ASSUME p \notin lapsed PROVE Follows(r, store, log)
      BY <1>2, <2>3, <3>1, <3>3, <3>4, <3>5 DEF Follows
    <3> QED BY <3>1, <3>3, <3>5 DEF ReadSo
  <2> QED BY <2>1, <2>2, <2>3
<1> QED BY <1>1, <1>3, PageAlone

LEMMA RestartKeeps ==
  ASSUME InboxInv, Restart
  PROVE  InboxInv' /\ restarts' # restarts
<1>1. /\ store' = Empty /\ snap' = Empty /\ log' = <<>> /\ src' = src
      /\ page' = [p \in Pages |-> IF page[p].pc \in {"open", "asked"} THEN page[p] ELSE Closed]
      /\ lapsed' = {p \in Pages : page[p].pc \in {"open", "asked"}}
  BY DEF Restart
<1>2. restarts \in Nat /\ restarts' = restarts + 1
  BY DEF InboxInv, StoreInv, Restart
<1>3. LogInv'
  BY <1>1, EmptySeq DEF LogInv
<1>4. PagesInv'
  <2>1. \A p \in Pages \ lapsed' : page'[p].pc = "closed"
    BY <1>1, ClosedIs
  <2> QED BY <2>1 DEF PagesInv
<1>5. StoreInv'
  <2>1. \A p \in Pages : ReadSo(page'[p])
    BY <1>1, ClosedIs DEF InboxInv, StoreInv
  <2> QED BY <1>1, <1>2, <2>1, EmptyIs DEF InboxInv, StoreInv
<1> QED BY <1>2, <1>3, <1>4, <1>5 DEF InboxInv

LEMMA InboxInvInit == InboxInit => InboxInv
<1> SUFFICES ASSUME InboxInit PROVE InboxInv
  OBVIOUS
<1>1. page = [p \in Pages |-> Closed] /\ store = Empty /\ snap = Empty /\ log = <<>> /\ restarts = 0
  BY DEF InboxInit
<1>2. src \in [Sources -> Statuses]
  BY DEF InboxInit, Sources, Statuses
<1>3. StoreInv
  BY <1>1, <1>2, EmptyIs, ClosedIs DEF StoreInv
<1>4. LogInv
  BY <1>1, EmptySeq DEF LogInv
<1>5. PagesInv
  BY <1>1, ClosedIs DEF PagesInv
<1> QED BY <1>3, <1>4, <1>5 DEF InboxInv

LEMMA InboxInvNext == InboxInv /\ [InboxNext]_inboxVars => InboxInv'
<1> SUFFICES ASSUME InboxInv, [InboxNext]_inboxVars PROVE InboxInv'
  OBVIOUS
<1>1. CASE SourceStep
  BY <1>1, SourceKeeps
<1>2. ASSUME NEW p \in Pages, PageStep(p) PROVE InboxInv'
  BY <1>2, PageReadKeeps, ReconcileKeeps, ReplayKeeps DEF PageStep
<1>3. ASSUME NEW s \in Sources, ItemStep(s) PROVE InboxInv'
  <2>1. StoreInv
    BY DEF InboxInv
  <2> QED BY <1>3, <2>1, ItemChanges, UpdateKeeps DEF ItemStep, Acknowledge, Assign, Resolve
<1>4. CASE Restart
  BY <1>4, RestartKeeps
<1>5. CASE UNCHANGED inboxVars
  BY <1>5 DEF inboxVars, InboxInv, StoreInv, LogInv, PagesInv
<1> QED BY <1>1, <1>2, <1>3, <1>4, <1>5 DEF InboxNext

LEMMA InboxInvHolds == InboxSpec => []InboxInv
BY InboxInvInit, InboxInvNext, PTL DEF InboxSpec

-----------------------------------------------------------------------------
\* The theorems.

\* What people have added to an item stays as long as its record needs attention:
\* a reconciliation projects the statuses its page has read, so it keeps the
\* items of the records that have not changed since, and copies what was added.
THEOREM LocalStateStays == InboxSpec => LocalStateKept
<1> DEFINE Keeps(s) ==
             \/ /\ s \in DOMAIN store'
                /\ store[s].acknowledged => store'[s].acknowledged
                /\ store[s].owner # NoOwner => store'[s].owner # NoOwner
             \/ \E p \in Pages : page[p].pc = "read" /\ page'[p].pc = "open" /\ page[p].seen[s] # src[s]
             \/ restarts' # restarts
<1>1. ASSUME InboxInv, [InboxNext]_inboxVars, NEW s \in DOMAIN store, Kind(src[s]) # "none"
      PROVE  Keeps(s)
  <2>1. store \in Items /\ s \in Sources
    BY <1>1, ItemsAre DEF InboxInv, StoreInv
  <2>2. ASSUME store' = store PROVE Keeps(s)
    BY <2>2
  <2>3. CASE SourceStep
    BY <1>1, <2>2, <2>3, SourceKeeps
  <2>4. ASSUME NEW p \in Pages, PageStep(p) PROVE Keeps(s)
    <3>1. CASE PageRuns(p) \/ PageChangeSets(p) \/ LoadFails(p)
      BY <1>1, <2>2, <3>1, PageReadKeeps
    <3>2. CASE Reconcile(p)
      <4>1. /\ page[p].pc = "read" /\ page[p].seen \in [Sources -> Statuses]
            /\ page'[p].pc = "open" /\ store' = Reconciled(store, page[p].seen)
        <5>1. page = [q \in Pages |-> page[q]] /\ Closed \in PageRow
          BY <1>1, ClosedIs DEF InboxInv, StoreInv, ReadSo
        <5> QED BY <1>1, <3>2, <5>1 DEF InboxInv, StoreInv, ReadSo, Reconcile, PageRow
      <4>2. CASE page[p].seen[s] # src[s]
        BY <4>1, <4>2
      <4>3. CASE page[p].seen[s] = src[s]
        <5>1. Kind(page[p].seen[s]) # "none"
          BY <1>1, <4>3
        <5>2. /\ s \in DOMAIN Reconciled(store, page[p].seen)
              /\ Reconciled(store, page[p].seen)[s].acknowledged = store[s].acknowledged
              /\ Reconciled(store, page[p].seen)[s].owner = store[s].owner
          BY <1>1, <2>1, <4>1, <5>1, ReconciledIs
        <5> QED BY <4>1, <5>2
      <4> QED BY <4>2, <4>3
    <3>3. CASE Answer(p) \/ Handle(p)
      BY <1>1, <2>2, <3>3, ReplayKeeps
    <3> QED BY <2>4, <3>1, <3>2, <3>3 DEF PageStep
  <2>5. ASSUME NEW t \in Sources, ItemStep(t) PROVE Keeps(s)
    <3>1. PICK item : store' = [store EXCEPT ![t] = item] /\ t \in DOMAIN store /\ Adds(store[t], item)
      <4>1. StoreInv
        BY <1>1 DEF InboxInv
      <4>2. CASE Acknowledge(t)
        <5>1. store' = [store EXCEPT ![t] = [store[t] EXCEPT !.acknowledged = TRUE]] /\ t \in DOMAIN store
          BY <4>2 DEF Acknowledge, Update
        <5> QED BY <4>1, <5>1, ItemChanges
      <4>3. CASE Resolve(t)
        <5>1. store' = [store EXCEPT ![t] = [store[t] EXCEPT !.resolved = TRUE]] /\ t \in DOMAIN store
          BY <4>3 DEF Resolve, Update
        <5> QED BY <4>1, <5>1, ItemChanges
      <4>4. ASSUME NEW who \in Owners, Assign(t, who)
            PROVE  \E item : store' = [store EXCEPT ![t] = item] /\ t \in DOMAIN store /\ Adds(store[t], item)
        <5>1. store' = [store EXCEPT ![t] = [store[t] EXCEPT !.owner = who]] /\ t \in DOMAIN store
          BY <4>4 DEF Assign, Update
        <5> QED BY <4>1, <5>1, ItemChanges
      <4> QED BY <2>5, <4>2, <4>3, <4>4 DEF ItemStep
    <3>2. store = [u \in DOMAIN store |-> store[u]]
      BY <2>1, ItemsAre
    <3> QED BY <1>1, <3>1, <3>2 DEF Adds
  <2>6. CASE Restart
    BY <1>1, <2>6, RestartKeeps
  <2>7. CASE UNCHANGED inboxVars
    BY <2>2, <2>7 DEF inboxVars
  <2> QED BY <1>1, <2>3, <2>4, <2>5, <2>6, <2>7 DEF InboxNext
<1>2. InboxInv /\ [InboxNext]_inboxVars
        => [\A s \in DOMAIN store : Kind(src[s]) # "none" => Keeps(s)]_inboxVars
  BY <1>1
<1> QED BY <1>2, InboxInvHolds, PTL DEF InboxSpec, LocalStateKept

\* An open page shows the store or will be told that it does not: a publication
\* that changes the store appends an event of an item, behind every cursor of this
\* process, and an answer passes none without telling.  A page that an earlier
\* process left open at cursor 0 is told of any item the new store holds.
THEOREM PagesAreCurrent == InboxSpec => []PageCurrent
<1>1. ASSUME InboxInv PROVE PageCurrent
  <2> SUFFICES ASSUME NEW p \in Pages, page[p].pc \in {"open", "asked"}
               PROVE  \/ page[p].items = store /\ Latest(p).unread = Unread(store)
                      \/ Latest(p).told \/ OfItems(EventsAfter(Latest(p).cursor))
                      \/ p \in lapsed /\ (Latest(p).cursor > 0 \/ store = Empty)
    BY DEF PageCurrent
  <2> PICK at : at = Latest(p)
    OBVIOUS
  <2>1. at = Point(page[p]) /\ at.cursor \in Nat
    <3>1. page[p] \in PageRow
      BY <1>1 DEF InboxInv, StoreInv, ReadSo
    <3>2. at = Point(page[p])
      BY DEF Latest, Point
    <3> QED BY <3>1, <3>2 DEF Point, PageRow, AnswerRow
  <2>2. log \in Seq(EventRow) /\ Len(log) \in Nat
    BY <1>1, NoneBehind DEF InboxInv, LogInv
  <2>3. CASE p \notin lapsed
    <3>1. Follows(page[p], store, log)
      BY <1>1, <2>3 DEF InboxInv, PagesInv
    <3>2. at.cursor \in 0..Len(log)
      BY <2>1, <3>1 DEF Follows
    <3>3. ItemBehind(log, at.cursor) => OfItems(EventsAfter(at.cursor))
      BY <2>2, <3>2, BehindIs
    <3> QED BY <2>1, <3>1, <3>3 DEF Follows
  <2>4. CASE p \in lapsed /\ ~(at.cursor > 0) /\ store # Empty
    <3>1. at.cursor = 0 /\ 0 \in 0..Len(log)
      BY <2>1, <2>2, <2>4
    <3>2. OfItems(EventsAfter(0))
      BY <1>1, <2>2, <2>4, <3>1, BehindIs DEF InboxInv, LogInv
    <3> QED BY <3>1, <3>2
  <2> QED BY <2>3, <2>4
<1> QED BY <1>1, InboxInvHolds, PTL

=============================================================================
