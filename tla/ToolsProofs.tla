---------------------------- MODULE ToolsProofs ----------------------------
(***************************************************************************)
(* Proofs about module Tools: an approved external tool is the one that    *)
(* was looked at (ApprovedAsSigned), a call goes out only if what it needs *)
(* was in force at some time after it began (RevocationHonoured), and the  *)
(* audit's record of a call that is over is true (AuditTrue).              *)
(*                                                                         *)
(* Base types what the invariants read.  SignedInv adds the rows that a    *)
(* discovery has read and will write over; HeldInv ties what a turn has    *)
(* seen to what was in force since its call began; AuditInv says which     *)
(* calls the bounded audit still holds and in which state each must be.    *)
(***************************************************************************)
EXTENDS Tools, FiniteSetTheorems, TLAPS

Tool == [ver : Offers, state : {"none", "pending", "approved", "changed", "disabled"}]

External == {"connection", "tool", "grant", "send", "sent"}

TurnStates ==
  [pc : {"idle", "bound", "ended"} \union External, human : BOOLEAN, permitted : BOOLEAN,
   trusted : BOOLEAN, native : BOOLEAN, catalog : BOOLEAN, seen : SUBSET All, call : Nat]

AdminStates == [pc : {"idle", "listed", "upsert", "picked"}, offer : Offers, row : Tool, pick : BOOLEAN]

Base ==
  /\ turn \in [Turns -> TurnStates]
  /\ admin \in [Admins -> AdminStates]
  /\ offered \in Offers
  /\ tool \in Tool
  /\ native \in BOOLEAN
  /\ held \in [Turns -> SUBSET All]
  /\ IsFiniteSet(DOMAIN calls)

\* The constants that are records.
LEMMA States ==
  /\ NoTurn \in TurnStates /\ Idle \in AdminStates /\ Unknown \in Tool
  /\ \A t \in Turns : turn[t] \in TurnStates => Back(t) \in TurnStates
<1> QED BY DEF NoTurn, TurnStates, External, Idle, AdminStates, Unknown, Tool, Offers, Back

LEMMA CallNumbers == ASSUME Base PROVE NextCall \in Nat /\ NextCall # 0
<1>1. Cardinality(DOMAIN calls) \in Nat
  BY FS_CardinalityType DEF Base
<1> QED BY <1>1 DEF NextCall

-----------------------------------------------------------------------------
\* What the steps of the requests and of the turns do to the types.

\* The conditions are in All.
LEMMA ConditionsType == Conditions \subseteq All
BY DEF Conditions, All

LEMMA ObservedType ==
  ASSUME Base, Observed, turn' = turn
  PROVE  held' \in [Turns -> SUBSET All]
<1>1. Conditions' \subseteq All
  BY DEF Conditions, All
<1> QED BY <1>1 DEF Base, Observed

\* A request changes neither turns nor calls, but for the history.
LEMMA AdminBase ==
  ASSUME Base, NEW a \in Admins, AdminStep(a)
  PROVE  Base' /\ turn' = turn
<1>1. ASSUME CreateConnection(a) \/ ListTools(a) \/ ReadDiscovered(a) \/ AdminFails(a)
      PROVE  Base' /\ turn' = turn
  <2>1. admin' \in [Admins -> AdminStates]
    <3>1. CASE CreateConnection(a)
      BY <3>1 DEF CreateConnection, Base
    <3>2. CASE ListTools(a)
      <4>1. [Idle EXCEPT !.pc = "listed", !.offer = offered] \in AdminStates
        BY States DEF AdminStates, Idle, Base
      <4> QED BY <3>2, <4>1 DEF ListTools, Base
    <3>3. CASE ReadDiscovered(a)
      BY <3>3 DEF ReadDiscovered, Base, AdminStates
    <3>4. CASE AdminFails(a)
      BY <3>4, States DEF AdminFails, Base
    <3> QED BY <1>1, <3>1, <3>2, <3>3, <3>4
  <2> QED BY <1>1, <2>1 DEF Base, CreateConnection, ListTools, ReadDiscovered, AdminFails, history
<1>2. ASSUME UpsertDiscovered(a) PROVE Base' /\ turn' = turn
  <2>1. tool' \in Tool
    BY <1>2 DEF UpsertDiscovered, Upserted, Base, AdminStates, Tool
  <2> QED BY <1>2, <2>1, States, ObservedType DEF Base, UpsertDiscovered
<1>3. ASSUME DisableMissing(a) PROVE Base' /\ turn' = turn
  <2>1. tool' \in Tool
    BY <1>3 DEF DisableMissing, Base, Tool
  <2> QED BY <1>3, <2>1, States, ObservedType DEF Base, DisableMissing
<1>4. ASSUME NEW state \in {"approved", "pending", "disabled"}, SetToolApproval(a, state)
      PROVE  Base' /\ turn' = turn
  <2>1. tool' \in Tool
    BY <1>4 DEF SetToolApproval, Base, Tool
  <2> QED BY <1>4, <2>1, ObservedType DEF Base, SetToolApproval
<1>5. ASSUME NEW flag \in BOOLEAN, SetEnabled(a, flag) PROVE Base' /\ turn' = turn
  BY <1>5, ObservedType DEF Base, SetEnabled
<1>6. ASSUME NEW flag \in BOOLEAN, PickTools(a, flag) PROVE Base' /\ turn' = turn
  BY <1>6, States DEF Base, PickTools, AdminStates, history
<1>7. ASSUME NEW flag \in BOOLEAN, ReplaceTools(a, flag) PROVE Base' /\ turn' = turn
  BY <1>7, States, ObservedType DEF Base, ReplaceTools
<1> QED BY <1>1, <1>2, <1>3, <1>4, <1>5, <1>6, <1>7 DEF AdminStep

\* The domain of the calls stays finite.
LEMMA QueuedFinite ==
  ASSUME Base, NEW t, NEW external, NEW acted, NEW status, Queued(t, external, acted, status)
  PROVE  IsFiniteSet(DOMAIN calls')
<1>1. DOMAIN calls' = DOMAIN calls \union {NextCall}
  BY DEF Queued
<1> QED BY <1>1, FS_AddElement DEF Base

\* A turn changes no row and no request.
LEMMA TurnBase ==
  ASSUME Base, NEW t \in Turns, TurnStep(t)
  PROVE  /\ Base'
         /\ UNCHANGED <<offered, conn, tool, grant, native, admin, signed>>
<1> DEFINE Rest == UNCHANGED <<offered, conn, tool, grant, native, admin, signed>>
<1>1. ASSUME NEW human \in BOOLEAN, NEW permitted \in BOOLEAN, Bind(t, human, permitted)
      PROVE  Base' /\ Rest
  <2>1. [NoTurn EXCEPT !.pc = "bound", !.human = human, !.permitted = permitted,
           !.native = native, !.catalog = tool.state # "none"] \in TurnStates
    BY <1>1 DEF Base, NoTurn, TurnStates
  <2>2. turn' \in [Turns -> TurnStates]
    BY <1>1, <2>1 DEF Base, Bind, Goto
  <2> QED BY <1>1, <2>2 DEF Base, Bind, history
<1>2. ASSUME BindTrusted(t) PROVE Base' /\ Rest
  <2>1. [NoTurn EXCEPT !.pc = "bound", !.trusted = TRUE] \in TurnStates
    BY DEF NoTurn, TurnStates
  <2>2. turn' \in [Turns -> TurnStates]
    BY <1>2, <2>1 DEF Base, BindTrusted, Goto
  <2> QED BY <1>2, <2>2 DEF Base, BindTrusted, history
<1>3. ASSUME RefuseNative(t) PROVE Base' /\ Rest
  BY <1>3, QueuedFinite DEF Base, RefuseNative, history
<1>4. ASSUME NEW acted, NEW status, RunNative(t, acted, status) PROVE Base' /\ Rest
  BY <1>4, QueuedFinite DEF Base, RunNative, history
<1>5. ASSUME StartExternal(t) PROVE Base' /\ Rest
  <2>1. IsFiniteSet(DOMAIN calls')
    BY <1>5, QueuedFinite DEF StartExternal
  <2>2. turn' \in [Turns -> TurnStates]
    <3>1. ASSUME NEW s \in TurnStates, turn' = [turn EXCEPT ![t] = s]
          PROVE  turn' \in [Turns -> TurnStates]
      BY <3>1 DEF Base
    <3>2. [turn[t] EXCEPT !.pc = "connection", !.seen = {}, !.call = NextCall] \in TurnStates
      BY CallNumbers DEF Base, TurnStates, External
    <3>3. turn[t] \in TurnStates
      BY DEF Base
    <3> QED BY <1>5, <3>1, <3>2, <3>3 DEF StartExternal, Goto
  <2>3. held' \in [Turns -> SUBSET All]
    BY <1>5, ConditionsType DEF Base, StartExternal
  <2> QED BY <1>5, <2>1, <2>2, <2>3 DEF Base, StartExternal
<1>6. ASSUME ReadConnection(t) \/ ReadTool(t) \/ ReadGrant(t) PROVE Base' /\ Rest
  <2>1. turn' \in [Turns -> TurnStates]
    <3>1. ASSUME NEW s \in TurnStates, turn' = [turn EXCEPT ![t] = s]
          PROVE  turn' \in [Turns -> TurnStates]
      BY <3>1 DEF Base
    <3>2. ASSUME NEW pc \in External, NEW seen \in SUBSET All
          PROVE  [turn[t] EXCEPT !.pc = pc, !.seen = seen] \in TurnStates
      BY DEF Base, TurnStates, External
    <3>3. /\ Conditions \intersect {"connection"} \in SUBSET All
          /\ \A c : turn[t].seen \union (Conditions \intersect {c}) \in SUBSET All
      BY ConditionsType DEF Base, TurnStates
    <3>4. CASE ReadConnection(t)
      <4>1. turn' = [turn EXCEPT ![t] = [turn[t] EXCEPT !.pc = "tool", !.seen = Conditions \intersect {"connection"}]]
        BY <3>4 DEF ReadConnection, Goto
      <4> QED BY <3>1, <3>2, <3>3, <4>1 DEF External
    <3>5. CASE ReadTool(t)
      <4>1. turn' = [turn EXCEPT ![t] = [turn[t] EXCEPT !.pc = "grant",
                       !.seen = turn[t].seen \union (Conditions \intersect {"tool"})]]
        BY <3>5 DEF ReadTool, Goto
      <4> QED BY <3>1, <3>2, <3>3, <4>1 DEF External
    <3>6. CASE ReadGrant(t)
      <4>1. turn' = [turn EXCEPT ![t] = [turn[t] EXCEPT !.pc = "send",
                       !.seen = turn[t].seen \union (Conditions \intersect {"grant"})]]
        BY <3>6 DEF ReadGrant, Goto
      <4> QED BY <3>1, <3>2, <3>3, <4>1 DEF External
    <3> QED BY <1>6, <3>4, <3>5, <3>6
  <2> QED BY <1>6, <2>1 DEF Base, ReadConnection, ReadTool, ReadGrant, history
<1>7. ASSUME RefuseExternal(t) \/ (\E status \in {"failed", "succeeded"} : FinishExternal(t, status))
      PROVE  Base' /\ Rest
  <2>1. DOMAIN calls' = DOMAIN calls
    BY <1>7 DEF RefuseExternal, FinishExternal
  <2>2. turn' \in [Turns -> TurnStates]
    BY <1>7, States DEF Base, RefuseExternal, FinishExternal, Goto
  <2>3. held' \in [Turns -> SUBSET All]
    BY <1>7 DEF Base, RefuseExternal, FinishExternal
  <2> QED BY <1>7, <2>1, <2>2, <2>3 DEF Base, RefuseExternal, FinishExternal
<1>8. ASSUME Send(t) PROVE Base' /\ Rest
  <2>1. DOMAIN calls' = DOMAIN calls
    BY <1>8 DEF Send
  <2>2. turn' \in [Turns -> TurnStates]
    BY <1>8 DEF Base, Send, Goto, TurnStates, External
  <2> QED BY <1>8, <2>1, <2>2 DEF Base, Send, history
<1>9. ASSUME NEW commit, EndUnit(t, commit) PROVE Base' /\ Rest
  <2>1. DOMAIN calls' = DOMAIN calls
    BY <1>9 DEF EndUnit
  <2>2. turn' \in [Turns -> TurnStates]
    BY <1>9, States DEF Base, EndUnit, Goto, TurnStates, External
  <2>3. held' \in [Turns -> SUBSET All]
    BY <1>9 DEF Base, EndUnit
  <2> QED BY <1>9, <2>1, <2>2, <2>3 DEF Base, EndUnit
<1>10. ASSUME Persist(t) \/ PersistFails(t) PROVE Base' /\ Rest
  <2>1. DOMAIN calls' = DOMAIN calls
    BY <1>10 DEF Persist, PersistFails
  <2>2. turn' \in [Turns -> TurnStates]
    BY <1>10, States DEF Base, Persist, PersistFails, Goto
  <2> QED BY <1>10, <2>1, <2>2 DEF Base, Persist, PersistFails, history
<1>11. \A policy, prior : Permitted(policy, prior) \in BOOLEAN
  BY DEF Permitted
<1> QED BY <1>1, <1>2, <1>3, <1>4, <1>5, <1>6, <1>7, <1>8, <1>9, <1>10, <1>11 DEF TurnStep

LEMMA BaseStep == ASSUME Base, [Next]_vars PROVE Base'
<1>1. ASSUME NEW version \in Offers, ServerChanges(version) PROVE Base'
  BY <1>1 DEF Base, ServerChanges, history
<1>2. CASE UNCHANGED vars
  BY <1>2 DEF vars, history, Base
<1> QED BY <1>1, <1>2, AdminBase, TurnBase DEF Next

LEMMA BaseInit == Init => Base
<1> SUFFICES ASSUME Init PROVE Base
  OBVIOUS
<1>1. DOMAIN calls = {} /\ IsFiniteSet({})
  BY FS_EmptySet DEF Init
<1>2. tool \in Tool
  BY States DEF Init, Tool, Offers
<1> QED BY <1>1, <1>2, States DEF Init, Base, Offers

-----------------------------------------------------------------------------
\* Approvals.

\* What a discovery read was signed too, when it was approved.
SignedInv ==
  /\ ApprovedAsSigned
  /\ \A a \in Admins : admin[a].pc = "upsert" /\ admin[a].row.state = "approved" =>
                         admin[a].row.ver \in signed

LEMMA SignedStep == ASSUME Base, SignedInv, [Next]_vars PROVE SignedInv'
<1> USE DEF SignedInv, ApprovedAsSigned
<1>1. ASSUME NEW a \in Admins, AdminStep(a) PROVE SignedInv'
  <2>1. ASSUME CreateConnection(a) PROVE SignedInv'
    BY <2>1 DEF CreateConnection, history
  <2>2. ASSUME ListTools(a) \/ AdminFails(a) PROVE SignedInv'
    <3>1. \A b \in Admins : admin'[b] = admin[b] \/ admin'[b].pc # "upsert"
      <4>1. Idle.pc = "idle" /\ [Idle EXCEPT !.pc = "listed", !.offer = offered].pc = "listed"
        BY DEF Idle
      <4> QED BY <2>2, <4>1 DEF ListTools, AdminFails, Base
    <3> QED BY <2>2, <3>1 DEF ListTools, AdminFails, history
  <2>3. ASSUME ReadDiscovered(a) PROVE SignedInv'
    BY <2>3 DEF ReadDiscovered, Base, AdminStates, history
  <2>4. ASSUME UpsertDiscovered(a) PROVE SignedInv'
    <3>1. tool'.state = "approved" => tool'.ver \in signed
      BY <2>4 DEF UpsertDiscovered, Upserted
    <3> QED BY <2>4, <3>1 DEF UpsertDiscovered, Base, AdminStates, Idle
  <2>5. ASSUME DisableMissing(a) PROVE SignedInv'
    BY <2>5 DEF DisableMissing, Base, AdminStates, Idle, Tool
  <2>6. ASSUME NEW state \in {"approved", "pending", "disabled"}, SetToolApproval(a, state)
        PROVE  SignedInv'
    BY <2>6 DEF SetToolApproval, Base, Tool
  <2>7. ASSUME NEW flag \in BOOLEAN, SetEnabled(a, flag) PROVE SignedInv'
    BY <2>7 DEF SetEnabled
  <2>8. ASSUME NEW flag \in BOOLEAN, PickTools(a, flag) PROVE SignedInv'
    BY <2>8 DEF PickTools, Base, AdminStates, Idle, history
  <2>9. ASSUME NEW flag \in BOOLEAN, ReplaceTools(a, flag) PROVE SignedInv'
    BY <2>9 DEF ReplaceTools, Base, AdminStates, Idle
  <2> QED BY <1>1, <2>1, <2>2, <2>3, <2>4, <2>5, <2>6, <2>7, <2>8, <2>9 DEF AdminStep
<1>2. ASSUME NEW t \in Turns, TurnStep(t) PROVE SignedInv'
  BY <1>2, TurnBase
<1>3. ASSUME NEW version \in Offers, ServerChanges(version) PROVE SignedInv'
  BY <1>3 DEF ServerChanges, history
<1>4. CASE UNCHANGED vars
  BY <1>4 DEF vars, history
<1> QED BY <1>1, <1>2, <1>3, <1>4 DEF Next

\* A definition that is approved was in the row when somebody approved it, with
\* any number of requests that discover, approve and withdraw.
THEOREM ApprovalsAreSigned == Spec => []ApprovedAsSigned
<1>1. Init => SignedInv
  BY DEF Init, SignedInv, ApprovedAsSigned, Unknown, Idle
<1>2. Base /\ SignedInv /\ [Next]_vars => (Base /\ SignedInv)'
  BY BaseStep, SignedStep
<1>3. SignedInv => ApprovedAsSigned
  BY DEF SignedInv
<1> QED BY <1>1, <1>2, <1>3, BaseInit, PTL DEF Spec

-----------------------------------------------------------------------------
\* Calls that go out.

\* A turn with a call under way has what is in force now in its history, and has
\* seen nothing that is not there.
HeldInv ==
  \A t \in Turns :
    /\ IF turn[t].pc \in External THEN turn[t].call # 0 /\ turn[t].permitted ELSE turn[t].call = 0
    /\ turn[t].call # 0 => Conditions \subseteq held[t] /\ turn[t].seen \subseteq held[t]
    /\ turn[t].pc = "sent" => turn[t].seen = All

LEMMA HeldSame ==
  ASSUME Base, HeldInv, turn' = turn, held' = held, Conditions' \subseteq Conditions
  PROVE  HeldInv'
BY DEF HeldInv

LEMMA HeldObserved ==
  ASSUME Base, HeldInv, turn' = turn, Observed
  PROVE  HeldInv'
BY DEF HeldInv, Observed

LEMMA HeldStep == ASSUME Base, HeldInv, [Next]_vars PROVE HeldInv'
<1>1. ASSUME NEW a \in Admins, AdminStep(a) PROVE HeldInv'
  <2>1. ASSUME CreateConnection(a) PROVE HeldInv'
    <3>1. Conditions' \subseteq Conditions
      BY <2>1 DEF CreateConnection, Conditions
    <3> QED BY <2>1, <3>1, HeldSame DEF CreateConnection, history
  <2>2. ASSUME \/ ListTools(a) \/ ReadDiscovered(a) \/ AdminFails(a)
               \/ \E flag \in BOOLEAN : PickTools(a, flag)
        PROVE  HeldInv'
    <3>1. UNCHANGED <<conn, tool, grant, turn, held>>
      BY <2>2 DEF ListTools, ReadDiscovered, AdminFails, PickTools, history
    <3>2. Conditions' = Conditions
      BY <3>1 DEF Conditions
    <3> QED BY <3>1, <3>2, HeldSame
  <2>3. ASSUME \/ UpsertDiscovered(a) \/ DisableMissing(a)
               \/ \E state \in {"approved", "pending", "disabled"} : SetToolApproval(a, state)
               \/ \E flag \in BOOLEAN : SetEnabled(a, flag) \/ ReplaceTools(a, flag)
        PROVE  HeldInv'
    <3>1. turn' = turn /\ Observed
      BY <2>3 DEF UpsertDiscovered, DisableMissing, SetToolApproval, SetEnabled, ReplaceTools
    <3> QED BY <3>1, HeldObserved
  <2> QED BY <1>1, <2>1, <2>2, <2>3 DEF AdminStep
<1>2. ASSUME NEW t \in Turns, TurnStep(t) PROVE HeldInv'
  <2>1. Conditions' = Conditions
    BY <1>2, TurnBase DEF Conditions
  <2> DEFINE Fine(s, h) ==
        /\ IF s.pc \in External THEN s.call # 0 /\ s.permitted ELSE s.call = 0
        /\ s.call # 0 => Conditions \subseteq h /\ s.seen \subseteq h
        /\ s.pc = "sent" => s.seen = All
  <2>2. ASSUME \A u \in Turns \ {t} : turn'[u] = turn[u] /\ held'[u] = held[u], Fine(turn'[t], held'[t])
        PROVE  HeldInv'
    BY <2>1, <2>2 DEF HeldInv
  <2>3. ASSUME NEW s, NEW h, turn' = [turn EXCEPT ![t] = s], Fine(s, h),
               (held' = held /\ h = held[t]) \/ held' = [held EXCEPT ![t] = h]
        PROVE  HeldInv'
    <3>1. turn'[t] = s /\ held'[t] = h /\ \A u \in Turns \ {t} : turn'[u] = turn[u] /\ held'[u] = held[u]
      BY <2>3 DEF Base
    <3> QED BY <2>2, <2>3, <3>1
  <2>4. turn[t] \in TurnStates /\ Fine(turn[t], held[t])
    BY DEF Base, HeldInv
  <2> HIDE DEF Fine
  <2>5. ASSUME NEW human, NEW permitted, Bind(t, human, permitted) PROVE HeldInv'
    <3> DEFINE s == turn'[t]
    <3>1. turn' = [turn EXCEPT ![t] = s] /\ s.pc = "bound" /\ s.call = 0
      BY <2>5 DEF Bind, Goto, NoTurn, Base
    <3>2. Fine(s, held[t])
      BY <3>1 DEF Fine, External
    <3> HIDE DEF s
    <3> QED BY <2>3, <2>5, <3>1, <3>2 DEF Bind, history
  <2>6. ASSUME BindTrusted(t) PROVE HeldInv'
    <3> DEFINE s == turn'[t]
    <3>1. turn' = [turn EXCEPT ![t] = s] /\ s.pc = "bound" /\ s.call = 0
      BY <2>6 DEF BindTrusted, Goto, NoTurn, Base
    <3>2. Fine(s, held[t])
      BY <3>1 DEF Fine, External
    <3> HIDE DEF s
    <3> QED BY <2>3, <2>6, <3>1, <3>2 DEF BindTrusted, history
  <2>7. ASSUME RefuseNative(t) \/ (\E acted, status : RunNative(t, acted, status)) PROVE HeldInv'
    BY <2>1, <2>7, HeldSame DEF RefuseNative, RunNative, history
  <2>8. ASSUME StartExternal(t) PROVE HeldInv'
    <3>1. CASE turn[t].permitted
      <4> DEFINE s == [turn[t] EXCEPT !.pc = "connection", !.seen = {}, !.call = NextCall]
      <4>1. s.pc = "connection" /\ s.seen = {} /\ s.call # 0 /\ s.permitted
        BY <2>4, <3>1, CallNumbers DEF TurnStates
      <4>2. turn' = [turn EXCEPT ![t] = s] /\ held' = [held EXCEPT ![t] = Conditions]
        BY <2>8, <3>1 DEF StartExternal, Goto
      <4> HIDE DEF s
      <4>3. Fine(s, Conditions)
        BY <4>1 DEF Fine, External
      <4> QED BY <2>3, <4>2, <4>3
    <3>2. CASE ~turn[t].permitted
      <4>1. turn' = [turn EXCEPT ![t] = turn[t]] /\ held' = [held EXCEPT ![t] = {}]
        BY <2>8, <3>2 DEF StartExternal, Goto
      <4>2. turn[t].pc = "bound"
        BY <2>8 DEF StartExternal
      <4>3. Fine(turn[t], {})
        BY <2>4, <4>2 DEF Fine, External
      <4> QED BY <2>3, <4>1, <4>3
    <3> QED BY <3>1, <3>2
  <2>9. ASSUME ReadConnection(t) \/ ReadTool(t) \/ ReadGrant(t) PROVE HeldInv'
    <3> DEFINE s == turn'[t]
    <3>1. turn' = [turn EXCEPT ![t] = s] /\ held' = held
      BY <2>9 DEF ReadConnection, ReadTool, ReadGrant, Goto, Base, history
    <3>2. /\ turn[t].pc \in External
          /\ s.pc \in {"tool", "grant", "send"} /\ s.call = turn[t].call
          /\ s.permitted = turn[t].permitted /\ s.seen \subseteq turn[t].seen \union Conditions
      <4>1. /\ turn[t].pc \in External
            /\ \E pc \in {"tool", "grant", "send"}, seen \in SUBSET (turn[t].seen \union Conditions) :
                 s = [turn[t] EXCEPT !.pc = pc, !.seen = seen]
        <5>1. CASE ReadConnection(t)
          <6>1. s = [turn[t] EXCEPT !.pc = "tool", !.seen = Conditions \intersect {"connection"}]
            BY <5>1 DEF ReadConnection, Goto, Base
          <6> QED BY <5>1, <6>1 DEF ReadConnection, External
        <5>2. CASE ReadTool(t)
          <6>1. s = [turn[t] EXCEPT !.pc = "grant", !.seen = turn[t].seen \union (Conditions \intersect {"tool"})]
            BY <5>2 DEF ReadTool, Goto, Base
          <6> QED BY <5>2, <6>1 DEF ReadTool, External
        <5>3. CASE ReadGrant(t)
          <6>1. s = [turn[t] EXCEPT !.pc = "send", !.seen = turn[t].seen \union (Conditions \intersect {"grant"})]
            BY <5>3 DEF ReadGrant, Goto, Base
          <6> QED BY <5>3, <6>1 DEF ReadGrant, External
        <5> QED BY <2>9, <5>1, <5>2, <5>3
      <4> QED BY <2>4, <4>1 DEF TurnStates
    <3>3. Fine(s, held[t])
      BY <2>4, <3>2 DEF Fine, External
    <3> HIDE DEF s
    <3> QED BY <2>3, <3>1, <3>3
  <2>10. ASSUME RefuseExternal(t) \/ (\E status : FinishExternal(t, status)) PROVE HeldInv'
    <3>1. turn' = [turn EXCEPT ![t] = Back(t)] /\ held' = [held EXCEPT ![t] = {}]
      BY <2>10 DEF RefuseExternal, FinishExternal, Goto
    <3>2. Back(t).pc = "bound" /\ Back(t).call = 0
      BY <2>4 DEF Back, TurnStates
    <3>3. Fine(Back(t), {})
      BY <3>2 DEF Fine, External
    <3> QED BY <2>3, <3>1, <3>3
  <2>11. ASSUME Send(t) PROVE HeldInv'
    <3> DEFINE s == [turn[t] EXCEPT !.pc = "sent"]
    <3>1. turn' = [turn EXCEPT ![t] = s] /\ held' = held /\ turn[t].seen = All /\ turn[t].pc = "send"
      BY <2>11 DEF Send, Goto, history
    <3>2. s.pc = "sent" /\ s.seen = turn[t].seen /\ s.call = turn[t].call /\ s.permitted = turn[t].permitted
      BY <2>4 DEF TurnStates
    <3> HIDE DEF s
    <3>3. Fine(s, held[t])
      BY <2>4, <3>1, <3>2 DEF Fine, External
    <3> QED BY <2>3, <3>1, <3>3
  <2>12. ASSUME NEW commit, EndUnit(t, commit) PROVE HeldInv'
    <3> DEFINE s == [NoTurn EXCEPT !.pc = "ended"]
    <3>1. turn' = [turn EXCEPT ![t] = s] /\ held' = [held EXCEPT ![t] = {}] /\ s.pc = "ended" /\ s.call = 0
      BY <2>12 DEF EndUnit, Goto, NoTurn
    <3> HIDE DEF s
    <3>2. Fine(s, {})
      BY <3>1 DEF Fine, External
    <3> QED BY <2>3, <3>1, <3>2
  <2>13. ASSUME Persist(t) \/ PersistFails(t) PROVE HeldInv'
    <3>1. turn' = [turn EXCEPT ![t] = NoTurn] /\ held' = held
      BY <2>13 DEF Persist, PersistFails, Goto, history
    <3>2. Fine(NoTurn, held[t])
      BY DEF NoTurn, Fine, External
    <3> QED BY <2>3, <3>1, <3>2
  <2> QED BY <1>2, <2>5, <2>6, <2>7, <2>8, <2>9, <2>10, <2>11, <2>12, <2>13 DEF TurnStep
<1>3. ASSUME NEW version \in Offers, ServerChanges(version) PROVE HeldInv'
  <2>1. UNCHANGED <<conn, tool, grant, turn, held>>
    BY <1>3 DEF ServerChanges, history
  <2> QED BY <2>1, HeldSame DEF Conditions
<1>4. CASE UNCHANGED vars
  <2>1. UNCHANGED <<conn, tool, grant, turn, held>>
    BY <1>4 DEF vars, history
  <2> QED BY <2>1, HeldSame DEF Conditions
<1> QED BY <1>1, <1>2, <1>3, <1>4 DEF Next

\* Connection, approval and grant of a call that goes out were each in force at
\* some time after it began, whatever administrators did in between.
THEOREM RevocationsHeeded == Spec => []RevocationHonoured
<1>1. Init => HeldInv
  BY DEF Init, HeldInv, NoTurn, External
<1>2. Base /\ HeldInv /\ [Next]_vars => (Base /\ HeldInv)'
  BY BaseStep, HeldStep
<1>3. Base /\ HeldInv => RevocationHonoured
  <2> SUFFICES ASSUME Base, HeldInv, NEW t \in Turns, turn[t].pc = "sent"
               PROVE  held[t] = All /\ turn[t].permitted
    BY DEF RevocationHonoured
  <2>1. held[t] \subseteq All
    BY DEF Base
  <2> QED BY <2>1 DEF HeldInv, External
<1> QED BY <1>1, <1>2, <1>3, BaseInit, PTL DEF Spec

-----------------------------------------------------------------------------
\* What is retained of the audit.

Newer(rows, c) == {d \in rows : d > c}

LEMMA NewerFinite ==
  ASSUME NEW rows, IsFiniteSet(rows), NEW c
  PROVE  IsFiniteSet(Newer(rows, c)) /\ Cardinality(Newer(rows, c)) \in Nat
<1>1. IsFiniteSet(Newer(rows, c))
  BY FS_Subset DEF Newer
<1> QED BY <1>1, FS_CardinalityType

\* A set of calls has an oldest one: the smallest set without one, less any
\* element of it, would have one.
LEMMA Oldest ==
  ASSUME NEW S \in SUBSET Nat, IsFiniteSet(S), S # {}
  PROVE  \E c \in S : \A d \in S : c <= d
<1> DEFINE Has(T) == \E c \in T : \A d \in T : c <= d
           Without == {T \in FiniteSubsetsOf(S) : T # {} /\ ~Has(T)}
<1>1. SUFFICES ASSUME Without # {} PROVE FALSE
  BY FS_Subset DEF FiniteSubsetsOf
<1>2. PICK T \in Without : \A U \in Without : <<U, T>> \notin StrictSubsetOrdering(S)
  <2>1. Without \subseteq FiniteSubsetsOf(S)
    OBVIOUS
  <2> HIDE DEF Without
  <2> QED BY <1>1, <2>1, FS_StrictSubsetOrderingWellFounded, WFMin, Zenon
<1>3. T \in SUBSET S /\ IsFiniteSet(T) /\ T # {} /\ ~Has(T)
  BY DEF FiniteSubsetsOf
<1>4. PICK c \in T : TRUE
  BY <1>3
<1> DEFINE U == T \ {c}
<1>5. IsFiniteSet(U) /\ U \in SUBSET S /\ U \in FiniteSubsetsOf(S)
  BY <1>3, FS_RemoveElement DEF FiniteSubsetsOf
<1>6. <<U, T>> \in StrictSubsetOrdering(S)
  BY <1>3, <1>4 DEF StrictSubsetOrdering
<1>7. U = {} \/ Has(U)
  BY <1>2, <1>5, <1>6
<1>8. CASE U = {}
  <2>1. T = {c} /\ c \in Nat
    BY <1>3, <1>4, <1>8
  <2> QED BY <1>3, <2>1
<1>9. CASE Has(U)
  <2>1. PICK m \in U : \A d \in U : m <= d
    BY <1>9
  <2>2. m \in Nat /\ c \in Nat /\ \A d \in T : d \in Nat /\ (d = c \/ d \in U)
    BY <1>3, <1>4
  <2>3. IF c <= m THEN \A d \in T : c <= d ELSE \A d \in T : m <= d
    BY <2>1, <2>2
  <2> QED BY <1>3, <1>4, <2>1, <2>3
<1> QED BY <1>7, <1>8, <1>9

\* Of Keep calls or more, Keep have fewer than Keep newer ones: without the
\* oldest the others have the same newer ones.
LEMMA KeepNewest ==
  ASSUME NEW S \in SUBSET Nat, IsFiniteSet(S), Cardinality(S) >= Keep
  PROVE  Cardinality(Pruned(S)) >= Keep
<1> DEFINE Few == {T \in FiniteSubsetsOf(S) : Cardinality(T) >= Keep /\ ~(Cardinality(Pruned(T)) >= Keep)}
<1>1. SUFFICES ASSUME Few # {} PROVE FALSE
  BY FS_Subset DEF FiniteSubsetsOf
<1>2. PICK T \in Few : \A U \in Few : <<U, T>> \notin StrictSubsetOrdering(S)
  <2>1. Few \subseteq FiniteSubsetsOf(S)
    OBVIOUS
  <2> HIDE DEF Few
  <2> QED BY <1>1, <2>1, FS_StrictSubsetOrderingWellFounded, WFMin, Zenon
<1>3. /\ T \in SUBSET S /\ IsFiniteSet(T) /\ Cardinality(T) >= Keep
      /\ ~(Cardinality(Pruned(T)) >= Keep) /\ Cardinality(T) \in Nat /\ Keep \in Nat \ {0}
  BY FS_CardinalityType, BoundAssumption DEF FiniteSubsetsOf
<1>4. \A c \in T : Cardinality(Newer(T, c)) \in Nat
  BY <1>3, NewerFinite
<1>5. CASE Cardinality(T) = Keep
  <2>1. ASSUME NEW c \in T PROVE Cardinality(Newer(T, c)) < Keep
    <3>1. Newer(T, c) \in SUBSET (T \ {c})
      BY <1>3 DEF Newer
    <3>2. IsFiniteSet(T \ {c}) /\ Cardinality(T \ {c}) = Cardinality(T) - 1
      BY <1>3, FS_RemoveElement
    <3>3. Cardinality(Newer(T, c)) <= Cardinality(T \ {c})
      BY <3>1, <3>2, FS_Subset
    <3> QED BY <1>3, <1>4, <1>5, <3>2, <3>3
  <2>2. Pruned(T) = T
    BY <2>1 DEF Pruned, Newer
  <2> QED BY <1>3, <2>2
<1>6. CASE Cardinality(T) # Keep
  <2>1. T # {}
    BY <1>3, FS_EmptySet
  <2>2. PICK m \in T : \A d \in T : m <= d
    BY <1>3, <2>1, Oldest
  <2> DEFINE U == T \ {m}
  <2>3. IsFiniteSet(U) /\ U \in SUBSET S /\ Cardinality(U) = Cardinality(T) - 1
    BY <1>3, <2>2, FS_RemoveElement
  <2>4. Cardinality(U) >= Keep
    BY <1>3, <1>6, <2>3
  <2>5. U \in FiniteSubsetsOf(S) /\ <<U, T>> \in StrictSubsetOrdering(S)
    BY <1>3, <2>2, <2>3 DEF StrictSubsetOrdering, FiniteSubsetsOf
  <2>6. Cardinality(Pruned(U)) >= Keep
    BY <1>2, <2>4, <2>5
  <2>7. \A c \in U : Newer(U, c) = Newer(T, c)
    BY <1>3, <2>2 DEF Newer
  <2>8. Pruned(U) \in SUBSET Pruned(T)
    BY <2>7 DEF Pruned, Newer
  <2>9. IsFiniteSet(Pruned(T)) /\ Cardinality(Pruned(T)) \in Nat
    <3>1. Pruned(T) \in SUBSET T
      BY DEF Pruned
    <3> QED BY <1>3, <3>1, FS_Subset, FS_CardinalityType
  <2>10. Cardinality(Pruned(U)) <= Cardinality(Pruned(T)) /\ Cardinality(Pruned(U)) \in Nat
    BY <2>8, <2>9, FS_Subset, FS_CardinalityType
  <2> QED BY <1>3, <2>6, <2>9, <2>10
<1> QED BY <1>5, <1>6

\* A call that has Keep newer ones has them still when the audit is pruned.
LEMMA PrunedNewer ==
  ASSUME NEW rows \in SUBSET Nat, IsFiniteSet(rows), NEW c \in Nat,
         Cardinality(Newer(rows, c)) >= Keep
  PROVE  Cardinality(Newer(Pruned(rows), c)) >= Keep
<1> DEFINE S == Newer(rows, c)
<1>1. S \in SUBSET Nat /\ IsFiniteSet(S)
  BY NewerFinite DEF Newer
<1>2. ASSUME NEW d \in S PROVE Newer(S, d) = Newer(rows, d)
  <2>1. \A e \in rows : e > d => e > c
    BY DEF Newer
  <2> QED BY <2>1 DEF Newer
<1>3. Pruned(S) = Newer(Pruned(rows), c)
  BY <1>2 DEF Pruned, Newer
<1>4. Cardinality(Pruned(S)) >= Keep
  BY <1>1, KeepNewest
<1> QED BY <1>3, <1>4

-----------------------------------------------------------------------------
\* Calls and their records.

\* A call on its way is of its turn, and has done nothing before it is sent.
Underway(t) ==
  LET c == turn[t].call IN
  turn[t].pc \in External =>
    /\ c \in DOMAIN calls /\ calls[c].by = t /\ calls[c].status = "allowed"
    /\ turn[t].pc # "sent" => ~calls[c].acted

Recorded(c) ==
  /\ calls[c].status = "blocked" => ~calls[c].acted
  /\ \/ c \in audit \union lost
     \/ turn[calls[c].by].pc # "idle"
     \/ Cardinality(Newer(audit, c)) >= Keep

AuditInv ==
  /\ calls \in [1..NextCall - 1 -> Call]
  /\ audit \subseteq DOMAIN calls
  /\ \A t \in Turns : Underway(t)
  /\ \A c \in DOMAIN calls : Recorded(c)

\* The parts of the invariant that no one's history is about.
LEMMA CallsAre ==
  ASSUME Base, AuditInv
  PROVE  /\ NextCall \in Nat /\ NextCall # 0 /\ NextCall \notin DOMAIN calls
         /\ DOMAIN calls = 1..NextCall - 1 /\ DOMAIN calls \subseteq Nat
         /\ \A c \in DOMAIN calls : calls[c] \in Call
         /\ IsFiniteSet(audit) /\ audit \subseteq Nat
         /\ \A t \in Turns : turn[t] \in TurnStates
<1>1. NextCall \in Nat /\ NextCall # 0
  BY CallNumbers
<1>2. DOMAIN calls = 1..NextCall - 1
  BY DEF AuditInv
<1>3. IsFiniteSet(audit)
  BY FS_Subset DEF Base, AuditInv
<1>4. NextCall \notin DOMAIN calls /\ DOMAIN calls \subseteq Nat
  BY <1>1, <1>2
<1>5. \A c \in DOMAIN calls : calls[c] \in Call
  BY <1>2 DEF AuditInv
<1>6. audit \subseteq Nat
  BY <1>4 DEF AuditInv
<1>7. \A t \in Turns : turn[t] \in TurnStates
  BY DEF Base
<1> QED BY <1>1, <1>2, <1>3, <1>4, <1>5, <1>6, <1>7

\* Calls that keep their numbers.
LEMMA SameNumbers ==
  ASSUME Base, AuditInv, DOMAIN calls' = DOMAIN calls, calls' \in [DOMAIN calls -> Call]
  PROVE  calls' \in [1..NextCall' - 1 -> Call]
<1>1. NextCall' = NextCall
  BY DEF NextCall
<1> QED BY <1>1, CallsAre

\* A step of one turn that leaves the records alone, and the calls of the others.
LEMMA TurnGoesOn ==
  ASSUME Base, AuditInv, NEW t \in Turns, NEW s, Goto(t, s), s.pc # "idle",
         calls' \in [1..NextCall' - 1 -> Call], DOMAIN calls \subseteq DOMAIN calls',
         UNCHANGED <<audit, lost>>,
         \A c \in DOMAIN calls : calls[c].by # t => calls'[c] = calls[c],
         \A c \in DOMAIN calls' : c \notin DOMAIN calls \/ calls[c].by = t =>
            calls'[c].by = t /\ (calls'[c].status = "blocked" => ~calls'[c].acted),
         Underway(t)'
  PROVE  AuditInv'
<1>1. turn'[t] = s /\ \A u \in Turns \ {t} : turn'[u] = turn[u]
  BY DEF Goto, Base
<1>2. ASSUME NEW u \in Turns PROVE Underway(u)'
  <2>1. CASE u = t
    BY <2>1
  <2>2. CASE u # t
    <3>1. Underway(u) /\ turn'[u] = turn[u]
      BY <1>1, <2>2 DEF AuditInv
    <3>2. turn[u].pc \in External =>
            /\ turn[u].call \in DOMAIN calls' /\ calls'[turn[u].call] = calls[turn[u].call]
      BY <2>2, <3>1 DEF Underway
    <3> QED BY <3>1, <3>2 DEF Underway
  <2> QED BY <2>1, <2>2
<1>3. ASSUME NEW c \in DOMAIN calls' PROVE Recorded(c)'
  <2>1. CASE c \notin DOMAIN calls \/ calls[c].by = t
    BY <1>1, <2>1 DEF Recorded
  <2>2. CASE c \in DOMAIN calls /\ calls[c].by # t
    <3>1. calls'[c] = calls[c] /\ Recorded(c) /\ calls[c].by \in Turns
      BY <2>2, CallsAre DEF AuditInv, Call
    <3>2. turn'[calls[c].by] = turn[calls[c].by]
      BY <1>1, <2>2, <3>1
    <3> QED BY <3>1, <3>2 DEF Recorded, Newer
  <2> QED BY <2>1, <2>2
<1>4. audit' \subseteq DOMAIN calls'
  BY DEF AuditInv
<1> QED BY <1>2, <1>3, <1>4 DEF AuditInv

\* A turn that goes on with the calls as they are.
LEMMA CallsStay ==
  ASSUME Base, AuditInv, NEW t \in Turns, NEW s, Goto(t, s), s.pc # "idle",
         UNCHANGED <<calls, audit, lost>>, Underway(t)'
  PROVE  AuditInv'
<1>1. calls' \in [1..NextCall' - 1 -> Call]
  BY DEF AuditInv, NextCall
<1>2. \A c \in DOMAIN calls : calls[c].status = "blocked" => ~calls[c].acted
  BY DEF AuditInv, Recorded
<1> QED BY <1>1, <1>2, TurnGoesOn

\* One more call.
LEMMA QueuedCall ==
  ASSUME Base, AuditInv, NEW t \in Turns, NEW external \in BOOLEAN, NEW acted \in BOOLEAN,
         NEW status \in {"allowed", "blocked", "failed", "succeeded"}, Queued(t, external, acted, status)
  PROVE  /\ calls' \in [1..NextCall' - 1 -> Call]
         /\ DOMAIN calls \subseteq DOMAIN calls' /\ \A c \in DOMAIN calls : calls'[c] = calls[c]
         /\ \A c \in DOMAIN calls' : c \in DOMAIN calls \/ c = NextCall
         /\ NextCall \in DOMAIN calls'
         /\ calls'[NextCall] = [by |-> t, external |-> external, acted |-> acted, status |-> status]
<1> DEFINE n == NextCall
           call == [by |-> t, external |-> external, acted |-> acted, status |-> status]
<1>1. n \in Nat /\ n # 0 /\ DOMAIN calls = 1..n - 1 /\ \A c \in DOMAIN calls : calls[c] \in Call
  BY CallsAre
<1>2. calls' = [c \in DOMAIN calls \union {n} |-> IF c = n THEN call ELSE calls[c]]
  BY DEF Queued
<1>3. call \in Call
  BY DEF Call
<1>n. NextCall = n
  OBVIOUS
<1> HIDE DEF n, call
<1>4. DOMAIN calls \union {n} = 1..n /\ n \notin DOMAIN calls
  BY <1>1
<1>5. /\ calls' \in [1..n -> Call] /\ calls'[n] = call
      /\ \A c \in DOMAIN calls : calls'[c] = calls[c]
  <2>1. \A c \in 1..n : c = n \/ (c # n /\ c \in DOMAIN calls)
    BY <1>4
  <2> QED BY <1>1, <1>2, <1>3, <1>4, <2>1
<1>6. NextCall' = n + 1
  <2>1. Cardinality(1..n) = n
    BY <1>1, FS_Interval
  <2>2. DOMAIN calls' = 1..n
    BY <1>5
  <2> QED BY <2>1, <2>2 DEF NextCall
<1>7. n + 1 - 1 = n
  BY <1>1
<1> QED BY <1>n, <1>1, <1>4, <1>5, <1>6, <1>7 DEF call

LEMMA AuditTurn ==
  ASSUME Base, HeldInv, AuditInv, NEW t \in Turns, TurnStep(t)
  PROVE  AuditInv'
<1>t. turn[t] \in TurnStates /\ Underway(t) /\ turn \in [Turns -> TurnStates]
  BY DEF Base, AuditInv
<1>d. DOMAIN calls \subseteq Nat /\ \A c \in DOMAIN calls : calls[c] \in Call /\ Recorded(c)
  BY CallsAre DEF AuditInv
<1>u. ASSUME NEW s, Goto(t, s) PROVE turn'[t] = s
  BY <1>t, <1>u DEF Goto
\* No call is on its way.
<1>n. turn'[t].pc \notin External => Underway(t)'
  BY DEF Underway
<1>1. ASSUME NEW human, NEW permitted, Bind(t, human, permitted) PROVE AuditInv'
  <2> DEFINE s == [NoTurn EXCEPT !.pc = "bound", !.human = human, !.permitted = permitted,
                                 !.native = native, !.catalog = tool.state # "none"]
  <2>1. s.pc = "bound"
    BY DEF NoTurn
  <2>2. Goto(t, s) /\ UNCHANGED <<calls, audit, lost>>
    BY <1>1 DEF Bind, history
  <2> HIDE DEF s
  <2> QED BY <1>n, <1>u, <2>1, <2>2, CallsStay DEF External
<1>2. ASSUME BindTrusted(t) PROVE AuditInv'
  <2> DEFINE s == [NoTurn EXCEPT !.pc = "bound", !.trusted = TRUE]
  <2>1. s.pc = "bound"
    BY DEF NoTurn
  <2>2. Goto(t, s) /\ UNCHANGED <<calls, audit, lost>>
    BY <1>2 DEF BindTrusted, history
  <2> HIDE DEF s
  <2> QED BY <1>n, <1>u, <2>1, <2>2, CallsStay DEF External
\* A call that is queued and decided.
<1>q. ASSUME NEW external \in BOOLEAN, NEW acted \in BOOLEAN, NEW status \in {"blocked", "failed", "succeeded"},
             Queued(t, external, acted, status), status = "blocked" => ~acted,
             turn[t].pc = "bound", turn' = turn, UNCHANGED <<audit, lost>>
      PROVE  AuditInv'
  <2>1. /\ calls' \in [1..NextCall' - 1 -> Call]
        /\ DOMAIN calls \subseteq DOMAIN calls' /\ \A c \in DOMAIN calls : calls'[c] = calls[c]
        /\ \A c \in DOMAIN calls' : c \in DOMAIN calls \/ c = NextCall
        /\ calls'[NextCall] = [by |-> t, external |-> external, acted |-> acted, status |-> status]
    BY <1>q, QueuedCall
  <2>2. calls'[NextCall].by = t /\ (calls'[NextCall].status = "blocked" => ~calls'[NextCall].acted)
    BY <1>q, <2>1
  <2>3. Goto(t, turn[t])
    BY <1>q, <1>t DEF Goto
  <2>4. \A c \in DOMAIN calls : calls[c].status = "blocked" => ~calls[c].acted
    BY <1>d DEF Recorded
  <2>5. turn[t].pc # "idle" /\ turn'[t].pc \notin External
    BY <1>q DEF External
  <2>6. \A c \in DOMAIN calls' : c \notin DOMAIN calls \/ calls[c].by = t =>
            calls'[c].by = t /\ (calls'[c].status = "blocked" => ~calls'[c].acted)
    BY <2>1, <2>2, <2>4
  <2> QED BY <1>n, <1>q, <2>1, <2>3, <2>5, <2>6, TurnGoesOn
<1>3. ASSUME RefuseNative(t) PROVE AuditInv'
  BY <1>3, <1>q DEF RefuseNative, history
<1>4. ASSUME NEW acted \in BOOLEAN, NEW status \in {"failed", "succeeded"}, RunNative(t, acted, status)
      PROVE  AuditInv'
  BY <1>4, <1>q DEF RunNative, history
<1>5. ASSUME StartExternal(t) PROVE AuditInv'
  <2>1. CASE ~turn[t].permitted
    <3>1. turn' = turn
      BY <1>5, <1>t, <2>1 DEF StartExternal, Goto
    <3> QED BY <1>5, <1>q, <2>1, <3>1 DEF StartExternal
  <2>2. CASE turn[t].permitted
    <3> DEFINE s == [turn[t] EXCEPT !.pc = "connection", !.seen = {}, !.call = NextCall]
    <3>1. Goto(t, s) /\ Queued(t, TRUE, FALSE, "allowed") /\ UNCHANGED <<audit, lost>>
      BY <1>5, <2>2 DEF StartExternal
    <3>2. s.pc = "connection" /\ s.call = NextCall
      BY <1>t DEF TurnStates
    <3> HIDE DEF s
    <3>3. /\ calls' \in [1..NextCall' - 1 -> Call]
          /\ DOMAIN calls \subseteq DOMAIN calls' /\ \A c \in DOMAIN calls : calls'[c] = calls[c]
          /\ \A c \in DOMAIN calls' : c \in DOMAIN calls \/ c = NextCall
          /\ NextCall \in DOMAIN calls'
          /\ calls'[NextCall] = [by |-> t, external |-> TRUE, acted |-> FALSE, status |-> "allowed"]
      BY <3>1, QueuedCall
    <3>4. calls'[NextCall].by = t /\ calls'[NextCall].status = "allowed" /\ ~calls'[NextCall].acted
      BY <3>3
    <3>5. turn'[t] = s
      BY <1>u, <3>1
    <3>6. Underway(t)'
      BY <3>2, <3>3, <3>4, <3>5 DEF Underway
    <3>7. \A c \in DOMAIN calls : calls[c].status = "blocked" => ~calls[c].acted
      BY <1>d DEF Recorded
    <3>8. \A c \in DOMAIN calls' : c \notin DOMAIN calls \/ calls[c].by = t =>
              calls'[c].by = t /\ (calls'[c].status = "blocked" => ~calls'[c].acted)
      BY <3>3, <3>4, <3>7
    <3> QED BY <3>1, <3>2, <3>3, <3>6, <3>8, TurnGoesOn
  <2> QED BY <2>1, <2>2
<1>6. ASSUME ReadConnection(t) \/ ReadTool(t) \/ ReadGrant(t) PROVE AuditInv'
  <2>0. PICK pc \in {"tool", "grant", "send"} : \E seen : Goto(t, [turn[t] EXCEPT !.pc = pc, !.seen = seen])
    BY <1>6 DEF ReadConnection, ReadTool, ReadGrant
  <2>1. PICK seen : Goto(t, [turn[t] EXCEPT !.pc = pc, !.seen = seen])
    BY <2>0
  <2> DEFINE s == [turn[t] EXCEPT !.pc = pc, !.seen = seen]
  <2>2. s.pc = pc /\ s.call = turn[t].call
    BY <1>t DEF TurnStates
  <2>3. Goto(t, s)
    BY <2>1
  <2> HIDE DEF s
  <2>4. turn[t].pc \in {"connection", "tool", "grant"} /\ UNCHANGED <<calls, audit, lost>>
    BY <1>6 DEF ReadConnection, ReadTool, ReadGrant, history
  <2>5. Underway(t)'
    BY <1>t, <1>u, <2>2, <2>3, <2>4 DEF Underway, External
  <2> QED BY <2>2, <2>3, <2>4, <2>5, CallsStay
\* The call on its way, after a step of it.
<1>c. ASSUME NEW status \in {"allowed", "blocked", "failed", "succeeded"}, NEW acted \in BOOLEAN,
             NEW s, Goto(t, s), s.pc # "idle", turn[t].pc \in External,
             calls' = [calls EXCEPT ![turn[t].call] = [calls[turn[t].call] EXCEPT !.status = status, !.acted = acted]],
             status = "blocked" => ~acted, UNCHANGED <<audit, lost>>,
             s.pc \in External => s.pc = "sent" /\ s.call = turn[t].call /\ status = "allowed"
      PROVE  AuditInv'
  <2> DEFINE k == turn[t].call
             call == [calls[k] EXCEPT !.status = status, !.acted = acted]
  <2>1. k \in DOMAIN calls /\ calls[k].by = t /\ calls[k] \in Call
    BY <1>c, <1>t, <1>d DEF Underway
  <2>2. call \in Call /\ call.by = t /\ call.status = status /\ call.acted = acted
    BY <2>1 DEF Call
  <2>3. calls' = [calls EXCEPT ![k] = call] /\ calls \in [DOMAIN calls -> Call]
    BY <1>c, CallsAre DEF AuditInv
  <2>s. turn'[t] = s
    BY <1>c, <1>u
  <2>k. k = turn[t].call
    OBVIOUS
  <2> HIDE DEF call, k
  <2>4. /\ DOMAIN calls' = DOMAIN calls /\ calls' \in [DOMAIN calls -> Call]
        /\ calls'[k] = call /\ \A c \in DOMAIN calls : c # k => calls'[c] = calls[c]
    BY <2>1, <2>2, <2>3
  <2>5. calls' \in [1..NextCall' - 1 -> Call]
    BY <2>4, SameNumbers
  <2>6. Underway(t)'
    BY <1>c, <2>1, <2>2, <2>4, <2>k, <2>s DEF Underway
  <2>7. \A c \in DOMAIN calls : calls[c].status = "blocked" => ~calls[c].acted
    BY <1>d DEF Recorded
  <2>8. \A c \in DOMAIN calls : calls[c].by # t => calls'[c] = calls[c]
    BY <2>1, <2>4
  <2>9. \A c \in DOMAIN calls' : c \notin DOMAIN calls \/ calls[c].by = t =>
            calls'[c].by = t /\ (calls'[c].status = "blocked" => ~calls'[c].acted)
    BY <1>c, <2>2, <2>4, <2>7
  <2> QED BY <1>c, <2>4, <2>5, <2>6, <2>8, <2>9, TurnGoesOn
<1>k. turn[t].pc \in External => calls[turn[t].call] \in Call
  BY <1>t, <1>d DEF Underway
<1>b. Back(t).pc = "bound"
  BY <1>t DEF Back, TurnStates
<1>7. ASSUME RefuseExternal(t) PROVE AuditInv'
  <2>1. turn[t].pc \in External /\ turn[t].pc # "sent" /\ Goto(t, Back(t)) /\ UNCHANGED <<audit, lost>>
    BY <1>7 DEF RefuseExternal, External
  <2>2. calls[turn[t].call] \in Call /\ calls[turn[t].call].acted = FALSE
    BY <1>t, <1>k, <2>1 DEF Underway, Call
  <2>3. [calls[turn[t].call] EXCEPT !.status = "blocked"] =
          [calls[turn[t].call] EXCEPT !.status = "blocked", !.acted = FALSE]
    BY <2>2 DEF Call
  <2>4. calls' = [calls EXCEPT ![turn[t].call] = [calls[turn[t].call] EXCEPT !.status = "blocked"]]
    BY <1>7 DEF RefuseExternal
  <2> QED BY <1>b, <1>c, <2>1, <2>3, <2>4 DEF External
<1>8. ASSUME Send(t) PROVE AuditInv'
  <2> DEFINE s == [turn[t] EXCEPT !.pc = "sent"]
  <2>1. turn[t].pc \in External /\ Goto(t, s) /\ UNCHANGED <<audit, lost>>
    BY <1>8 DEF Send, External, history
  <2>2. s.pc = "sent" /\ s.call = turn[t].call
    BY <1>t DEF TurnStates
  <2> HIDE DEF s
  <2>3. calls[turn[t].call] \in Call /\ calls[turn[t].call].status = "allowed"
    BY <1>t, <1>k, <2>1 DEF Underway
  <2>4. [calls[turn[t].call] EXCEPT !.acted = TRUE] =
          [calls[turn[t].call] EXCEPT !.status = "allowed", !.acted = TRUE]
    BY <2>3 DEF Call
  <2>5. calls' = [calls EXCEPT ![turn[t].call] = [calls[turn[t].call] EXCEPT !.acted = TRUE]]
    BY <1>8 DEF Send
  <2> QED BY <1>c, <2>1, <2>2, <2>4, <2>5
<1>9. ASSUME NEW status \in {"failed", "succeeded"}, FinishExternal(t, status) PROVE AuditInv'
  <2>1. turn[t].pc \in External /\ Goto(t, Back(t)) /\ UNCHANGED <<audit, lost>>
    BY <1>9 DEF FinishExternal, External
  <2>2. PICK acted \in BOOLEAN : acted = calls[turn[t].call].acted
    BY <1>k, <2>1 DEF Call
  <2>3. [calls[turn[t].call] EXCEPT !.status = status] =
          [calls[turn[t].call] EXCEPT !.status = status, !.acted = acted]
    BY <1>k, <2>1, <2>2 DEF Call
  <2>4. calls' = [calls EXCEPT ![turn[t].call] = [calls[turn[t].call] EXCEPT !.status = status]]
    BY <1>9 DEF FinishExternal
  <2> QED BY <1>b, <1>c, <2>1, <2>3, <2>4 DEF External
<1>10. ASSUME NEW commit, EndUnit(t, commit) PROVE AuditInv'
  <2> DEFINE s == [NoTurn EXCEPT !.pc = "ended"]
             after(c) == IF c = turn[t].call THEN [calls[c] EXCEPT !.status = "failed"]
                         ELSE IF c \in Mine(t) /\ ~calls[c].external /\ ~commit
                         THEN [calls[c] EXCEPT !.acted = FALSE]
                         ELSE calls[c]
  <2>1. s.pc = "ended" /\ s.pc \notin External
    BY DEF NoTurn, External
  <2>2. Goto(t, s) /\ UNCHANGED <<audit, lost>> /\ calls' = [c \in DOMAIN calls |-> after(c)]
    BY <1>10 DEF EndUnit
  <2>3. ASSUME NEW c \in DOMAIN calls
        PROVE  /\ after(c) \in Call /\ after(c).by = calls[c].by
               /\ calls[c].by # t => after(c) = calls[c]
               /\ after(c).status = "blocked" => ~after(c).acted
    <3>1. calls[c] \in Call /\ (calls[c].status = "blocked" => ~calls[c].acted)
      BY <1>d DEF Recorded
    <3>2. CASE c = turn[t].call
      <4>1. c # 0
        BY CallsAre
      <4>2. calls[c].by = t
        BY <1>t, <3>2, <4>1 DEF HeldInv, Underway
      <4>3. after(c) = [calls[c] EXCEPT !.status = "failed"]
        BY <3>2
      <4> HIDE DEF after
      <4> QED BY <3>1, <4>2, <4>3 DEF Call
    <3>3. CASE c # turn[t].call /\ c \in Mine(t) /\ ~calls[c].external /\ ~commit
      <4>1. after(c) = [calls[c] EXCEPT !.acted = FALSE] /\ calls[c].by = t
        BY <3>3 DEF Mine
      <4> HIDE DEF after
      <4> QED BY <3>1, <4>1 DEF Call
    <3>4. CASE c # turn[t].call /\ ~(c \in Mine(t) /\ ~calls[c].external /\ ~commit)
      <4>1. after(c) = calls[c]
        BY <3>4
      <4> HIDE DEF after
      <4> QED BY <3>1, <4>1
    <3> QED BY <3>2, <3>3, <3>4
  <2> HIDE DEF s, after
  <2>4. DOMAIN calls' = DOMAIN calls /\ \A c \in DOMAIN calls : calls'[c] = after(c)
    BY <2>2
  <2>5. calls' \in [1..NextCall' - 1 -> Call]
    <3>1. calls' \in [DOMAIN calls -> Call]
      BY <2>2, <2>3
    <3> QED BY <2>4, <3>1, SameNumbers
  <2>6. Underway(t)'
    BY <1>n, <1>u, <2>1, <2>2
  <2>7. \A c \in DOMAIN calls : calls[c].by # t => calls'[c] = calls[c]
    BY <2>3, <2>4
  <2>8. \A c \in DOMAIN calls' : c \notin DOMAIN calls \/ calls[c].by = t =>
            calls'[c].by = t /\ (calls'[c].status = "blocked" => ~calls'[c].acted)
    BY <2>3, <2>4
  <2> QED BY <2>1, <2>2, <2>4, <2>5, <2>6, <2>7, <2>8, TurnGoesOn
<1>11. ASSUME Persist(t) PROVE AuditInv'
  <2> DEFINE rows == audit \union Mine(t)
  <2>1. rows \in SUBSET Nat /\ rows \subseteq DOMAIN calls /\ IsFiniteSet(rows)
    <3>1. rows \subseteq DOMAIN calls
      BY DEF AuditInv, Mine
    <3> QED BY <1>d, <3>1, FS_Subset DEF Base
  <2>2. audit' = Pruned(rows) /\ Goto(t, NoTurn) /\ UNCHANGED <<calls, lost>>
    BY <1>11 DEF Persist, history
  <2>3. turn'[t] = NoTurn /\ \A u \in Turns \ {t} : turn'[u] = turn[u]
    BY <1>t, <2>2 DEF Goto
  <2>4. audit' \subseteq DOMAIN calls'
    BY <2>1, <2>2 DEF Pruned
  <2>5. \A u \in Turns : Underway(u)'
    <3>1. NoTurn.pc = "idle"
      BY DEF NoTurn
    <3> QED BY <2>2, <2>3, <3>1 DEF Underway, AuditInv, External
  <2>6. calls' \in [1..NextCall' - 1 -> Call]
    BY <2>2 DEF AuditInv, NextCall
  <2>7. ASSUME NEW c \in DOMAIN calls' PROVE Recorded(c)'
    <3>1. c \in DOMAIN calls /\ c \in Nat /\ Recorded(c) /\ calls'[c] = calls[c] /\ calls[c].by \in Turns
      BY <1>d, <2>2 DEF Call
    <3>2. CASE c \in lost
      BY <2>2, <3>1, <3>2 DEF Recorded
    <3>3. CASE c \notin lost /\ calls[c].by # t /\ turn[calls[c].by].pc # "idle"
      BY <2>2, <2>3, <3>1, <3>3 DEF Recorded
    <3>4. CASE c \in rows
      <4>1. CASE c \in Pruned(rows)
        BY <2>2, <3>1, <4>1 DEF Recorded
      <4>2. CASE c \notin Pruned(rows)
        <5>1. ~(Cardinality(Newer(rows, c)) < Keep) /\ Cardinality(Newer(rows, c)) \in Nat
          BY <2>1, <3>4, <4>2, NewerFinite DEF Pruned, Newer
        <5>2. Cardinality(Newer(rows, c)) >= Keep
          BY <5>1, BoundAssumption
        <5>3. Cardinality(Newer(audit', c)) >= Keep
          BY <2>1, <2>2, <3>1, <5>2, PrunedNewer
        <5> QED BY <3>1, <2>2, <5>3 DEF Recorded, Newer
      <4> QED BY <4>1, <4>2
    <3>5. CASE Cardinality(Newer(audit, c)) >= Keep
      <4>1. Newer(audit, c) \in SUBSET Newer(rows, c)
        BY DEF Newer
      <4>2. /\ IsFiniteSet(Newer(rows, c)) /\ Cardinality(Newer(rows, c)) \in Nat
            /\ Cardinality(Newer(audit, c)) \in Nat
        BY <2>1, CallsAre, NewerFinite
      <4>3. Cardinality(Newer(audit, c)) <= Cardinality(Newer(rows, c))
        BY <4>1, <4>2, FS_Subset
      <4>4. Cardinality(Newer(rows, c)) >= Keep
        BY <3>5, <4>2, <4>3, BoundAssumption
      <4>5. Cardinality(Newer(audit', c)) >= Keep
        BY <2>1, <2>2, <3>1, <4>4, PrunedNewer
      <4> QED BY <3>1, <2>2, <4>5 DEF Recorded, Newer
    <3>6. CASE c \notin lost /\ calls[c].by = t
      <4>1. c \in rows
        BY <3>1, <3>6 DEF Mine
      <4> QED BY <3>4, <4>1
    <3>7. CASE c \in audit
      BY <3>4, <3>7
    <3> QED BY <3>1, <3>2, <3>3, <3>5, <3>6, <3>7 DEF Recorded
  <2> QED BY <2>4, <2>5, <2>6, <2>7 DEF AuditInv
<1>12. ASSUME PersistFails(t) PROVE AuditInv'
  <2> DEFINE after(c) == IF c \in Mine(t) /\ ~calls[c].external /\ Open(t)
                         THEN [calls[c] EXCEPT !.acted = FALSE] ELSE calls[c]
  <2>1. /\ lost' = lost \union Mine(t) /\ Goto(t, NoTurn) /\ audit' = audit
        /\ calls' = [c \in DOMAIN calls |-> after(c)]
    BY <1>12 DEF PersistFails
  <2>2. ASSUME NEW c \in DOMAIN calls
        PROVE  /\ after(c) \in Call /\ after(c).by = calls[c].by
               /\ calls[c].by # t => after(c) = calls[c]
               /\ after(c).status = "blocked" => ~after(c).acted
    <3>1. calls[c] \in Call /\ (calls[c].status = "blocked" => ~calls[c].acted)
      BY <1>d DEF Recorded
    <3>2. CASE c \in Mine(t) /\ ~calls[c].external /\ Open(t)
      <4>1. after(c) = [calls[c] EXCEPT !.acted = FALSE] /\ calls[c].by = t
        BY <3>2 DEF Mine
      <4> HIDE DEF after
      <4> QED BY <3>1, <4>1 DEF Call
    <3>3. CASE ~(c \in Mine(t) /\ ~calls[c].external /\ Open(t))
      <4>1. after(c) = calls[c]
        BY <3>3
      <4> HIDE DEF after
      <4> QED BY <3>1, <4>1
    <3> QED BY <3>2, <3>3
  <2> HIDE DEF after
  <2>3. DOMAIN calls' = DOMAIN calls /\ \A c \in DOMAIN calls : calls'[c] = after(c)
    BY <2>1
  <2>4. calls' \in [1..NextCall' - 1 -> Call]
    <3>1. calls' \in [DOMAIN calls -> Call]
      BY <2>1, <2>2
    <3> QED BY <2>3, <3>1, SameNumbers
  <2>5. turn'[t] = NoTurn /\ \A u \in Turns \ {t} : turn'[u] = turn[u]
    BY <1>t, <2>1 DEF Goto
  <2>6. ASSUME NEW u \in Turns PROVE Underway(u)'
    <3>1. CASE u = t
      BY <2>5, <3>1 DEF NoTurn, Underway, External
    <3>2. CASE u # t
      <4>1. Underway(u) /\ turn'[u] = turn[u]
        BY <2>5, <3>2 DEF AuditInv
      <4>2. turn[u].pc \in External =>
              /\ turn[u].call \in DOMAIN calls' /\ calls'[turn[u].call] = calls[turn[u].call]
        BY <2>2, <2>3, <3>2, <4>1 DEF Underway
      <4> QED BY <4>1, <4>2 DEF Underway
    <3> QED BY <3>1, <3>2
  <2>7. ASSUME NEW c \in DOMAIN calls' PROVE Recorded(c)'
    <3>1. /\ c \in DOMAIN calls /\ Recorded(c) /\ calls[c].by \in Turns /\ calls'[c].by = calls[c].by
          /\ calls'[c].status = "blocked" => ~calls'[c].acted
      BY <1>d, <2>2, <2>3 DEF Call
    <3>2. CASE calls[c].by = t
      <4>1. c \in audit \union lost'
        BY <2>1, <3>1, <3>2 DEF Mine
      <4> QED BY <2>1, <3>1, <4>1 DEF Recorded
    <3>3. CASE calls[c].by # t
      <4>1. turn'[calls[c].by] = turn[calls[c].by]
        BY <2>5, <3>1, <3>3
      <4> QED BY <2>1, <3>1, <4>1 DEF Recorded, Newer
    <3> QED BY <3>2, <3>3
  <2>8. audit' \subseteq DOMAIN calls'
    BY <2>1, <2>3 DEF AuditInv
  <2> QED BY <2>4, <2>6, <2>7, <2>8 DEF AuditInv
<1> QED BY <1>1, <1>2, <1>3, <1>4, <1>5, <1>6, <1>7, <1>8, <1>9, <1>10, <1>11, <1>12 DEF TurnStep

LEMMA AuditStep == ASSUME Base, HeldInv, AuditInv, [Next]_vars PROVE AuditInv'
<1>s. UNCHANGED <<turn, calls, audit, lost>> => AuditInv'
  BY DEF AuditInv, Underway, Recorded, Newer, NextCall
<1>1. ASSUME NEW a \in Admins, AdminStep(a) PROVE AuditInv'
  <2>1. UNCHANGED <<turn, calls, audit, lost>>
    BY <1>1 DEF AdminStep, CreateConnection, ListTools, ReadDiscovered, UpsertDiscovered, DisableMissing,
       AdminFails, SetToolApproval, SetEnabled, PickTools, ReplaceTools, history
  <2> QED BY <1>s, <2>1
<1>2. ASSUME NEW version \in Offers, ServerChanges(version) PROVE AuditInv'
  BY <1>2, <1>s DEF ServerChanges, history
<1>3. CASE UNCHANGED vars
  BY <1>3, <1>s DEF vars, history
<1> QED BY <1>1, <1>2, <1>3, AuditTurn DEF Next

\* When the unit of work of a call is over its record is in the audit, unless it
\* could not be written or Keep newer ones are there, for any number of turns and
\* of rows that are kept; what is recorded as blocked did nothing.
THEOREM AuditsAreTrue == Spec => []AuditTrue
<1>1. Init => HeldInv /\ AuditInv
  <2> SUFFICES ASSUME Init PROVE HeldInv /\ AuditInv
    OBVIOUS
  <2>1. HeldInv
    BY DEF Init, HeldInv, NoTurn, External
  <2>2. DOMAIN calls = {} /\ Cardinality({}) = 0
    BY FS_EmptySet DEF Init
  <2>3. NextCall - 1 = 0
    BY <2>2 DEF NextCall
  <2>4. calls \in [1..0 -> Call]
    BY DEF Init
  <2>5. \A t \in Turns : Underway(t)
    BY DEF Init, Underway, NoTurn, External
  <2> QED BY <2>1, <2>2, <2>3, <2>4, <2>5 DEF Init, AuditInv
<1>2. Base /\ HeldInv /\ AuditInv /\ [Next]_vars => (Base /\ HeldInv /\ AuditInv)'
  BY BaseStep, HeldStep, AuditStep
<1>3. AuditInv => AuditTrue
  BY DEF AuditInv, AuditTrue, Recorded, Newer
<1> QED BY <1>1, <1>2, <1>3, BaseInit, PTL DEF Spec

=============================================================================
