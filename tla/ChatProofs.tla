----------------------------- MODULE ChatProofs -----------------------------
(***************************************************************************)
(* Proofs about membership (Members) and what is said in the channels      *)
(* (Chat), for every set of people, agents, channels, pages and requests.  *)
(*                                                                         *)
(* MembersInv: what a request has read still means what it did             *)
(* (MembersBase), an archived agent has no connection (LinkInv), and every *)
(* row that refers to something deleted is on the list of a deletion under *)
(* way, or one of the recorded slips (HangInv).  What a deletion takes,    *)
(* Doomed, is the smallest set closed under the references: the proofs use *)
(* only that it is closed and lies in every closed set.                    *)
(*                                                                         *)
(* ChatInv adds the turns: who holds the one write lock (TurnInv), that a  *)
(* message is committed before it is echoed or loaded, so that a page      *)
(* shows nothing that can be taken back (KeptInv, PageInv), and that what  *)
(* a page misses that joined before it loaded is yet to be told or drawn   *)
(* (Complete).                                                             *)
(***************************************************************************)
EXTENDS Chat, TLAPS

-----------------------------------------------------------------------------
\* The rows and the requests.

\* What a request at each point has read: what it will create is of a kind that can
\* be, what it will end is no person, and a list is of channels and the workspace.
Means(s) ==
  /\ s.pc = "create" => s.at \in Rooms \union {Workspace} /\ s.who \in People
  /\ s.pc = "direct" => s.at \in Directs
  /\ s.pc = "assign" => s.at \in Channels /\ s.who \in Everybody
  /\ s.pc \in {"archive", "delete"} => s.at \notin People
  /\ s.pc = "delete" /\ s.at \in Channels => s.list = {s.at}
  /\ s.pc = "delete" /\ s.at \in Agents => s.list \subseteq Directs

Asked ==
  [pc : {"idle", "create", "direct", "assign", "archive", "delete"}, at : Entities,
   who : Everybody \union {Idle.who}, list : SUBSET ({Workspace} \union Channels)]

AdminStates == {s \in Asked : Means(s)}

Rows == [Entities -> {"none", "live", "archived", "gone"}]

MembersBase ==
  /\ row \in Rows
  /\ member \subseteq ({Workspace} \union Channels) \X Everybody
  /\ link \in [Agents -> {"off", "admitted", "on"}]
  /\ adm \in [Requests -> AdminStates]

Ending(r, x) == adm[r].pc \in {"archive", "delete"} /\ adm[r].at = x
Deletes(r, x) == adm[r].pc = "delete" /\ x \in Removed(r)

\* An agent that is on and did not slip in is live, and nobody is at ending it.
LinkInv ==
  \A a \in Agents : link[a] = "on" /\ a \notin slipped =>
    row[a] = "live" /\ \A r \in Requests : ~Ending(r, a)

Stray(x) == <<x>> \in strays

\* What lies in what exists, and is on the list of whoever deletes that.
HangInv ==
  /\ \A x \in Entities : Stray(x) => Exists(x)
  /\ \A c \in Channels : Exists(c) /\ ~Stray(c) =>
       /\ Exists(Workspace)
       /\ \A r \in Requests : Deletes(r, Workspace) => c \in adm[r].list
  /\ Exists(Workspace) /\ ~Stray(Workspace) =>
       /\ Exists(Team)
       /\ \A r \in Requests : Deletes(r, Team) => Workspace \in adm[r].list
  /\ \A cm \in member : cm \in strays \/ Stray(cm[1])
                        \/ (Exists(cm[1]) /\ (cm[2] \in Agents => Exists(cm[2])))
  /\ \A d \in Directs : Exists(d) /\ ~Stray(d) =>
       \A a \in d \intersect Agents :
         /\ Exists(a)
         /\ \A r \in Requests : Deletes(r, a) => d \in adm[r].list

\* What a management request does to the rows: it reads ...
Reads(r) ==
  /\ \E s \in AdminStates : Goto(r, s) /\ s.pc \notin {"archive", "delete"}
  /\ UNCHANGED <<row, member, link, slipped, strays>>

\* ... or makes something live that is no channel and no workspace, or was there ...
Enlivens(r) ==
  /\ adm[r].pc = "idle"
  /\ \E x \in Entities : /\ x \in {Team} \union Everybody \/ Exists(x)
                         /\ row' = [row EXCEPT ![x] = "live"]
  /\ UNCHANGED <<member, link, adm, slipped, strays>>

\* ... or ends a membership, or nothing ...
Leaves(r) ==
  /\ adm[r].pc = "idle"
  /\ member' \subseteq member
  /\ UNCHANGED <<row, link, adm, slipped, strays>>

Hangs(r) ==
  \E x \in Entities \ People :
  /\ HangUp(x)
  /\ adm[r].pc = "idle" /\ Goto(r, [Idle EXCEPT !.pc = "archive", !.at = x])
  /\ UNCHANGED <<row, member, slipped, strays>>

LEMMA Kinds ==
  /\ Agents \intersect ({Team, Workspace} \union Channels \union People) = {}
  /\ Team # Workspace /\ {Team, Workspace} \intersect Channels = {}
  /\ {Team, Workspace} \subseteq Entities /\ Channels \subseteq Entities /\ Everybody \subseteq Entities
  /\ Agents \subseteq Everybody /\ People \subseteq Everybody /\ Rooms \subseteq Channels
  /\ Directs \subseteq Channels /\ Rooms \intersect Directs = {}
  /\ \A d \in Directs : d \subseteq Everybody
  /\ ({Team, Workspace} \union Channels) \intersect Everybody = {}
<1>1. \A d \in Directs : d \subseteq Everybody
  BY PeopleAssumption DEF Directs, Everybody
<1> HIDE DEF Directs
<1> QED BY <1>1, IdAssumption, PeopleAssumption DEF Everybody, Entities, Places, Channels

LEMMA IdleAsked == Idle \in Asked /\ Idle.pc = "idle" /\ Idle.list = {}
<1>1. Team \in Entities
  BY Kinds
<1> QED BY <1>1 DEF Idle, Asked

LEMMA IdleState == Idle \in AdminStates /\ Idle.pc = "idle"
BY IdleAsked DEF Means, AdminStates

LEMMA AdmStep ==
  ASSUME MembersBase, NEW r \in Requests, NEW s \in AdminStates, Goto(r, s)
  PROVE  /\ adm' \in [Requests -> AdminStates] /\ adm'[r] = s
         /\ \A q \in Requests \ {r} : adm'[q] = adm[q]
BY DEF MembersBase, Goto

LEMMA ManageDoes ==
  ASSUME MembersBase, NEW r \in Requests, Manage(r)
  PROVE  \/ Reads(r) \/ Enlivens(r) \/ Leaves(r) \/ Hangs(r)
         \/ InsertEntity(r) \/ InsertDirect(r) \/ AddMember(r) \/ Archive(r)
<1> USE Kinds
<1>1. CASE Abandon(r)
  BY <1>1, IdleState DEF Abandon, Reads, Done
<1>2. ASSUME NEW d \in Directs, OpenDirect(r, d) PROVE Reads(r)
  <2> DEFINE s == [Idle EXCEPT !.pc = "direct", !.at = d]
  <2>1. s = [Idle EXCEPT !.pc = "direct", !.at = d] /\ Goto(r, s)
    BY <1>2 DEF OpenDirect
  <2> HIDE DEF s
  <2>2. s \in Asked /\ s.pc = "direct" /\ s.at = d
    BY <2>1, IdleAsked DEF Asked
  <2>3. s \in AdminStates /\ s.pc \notin {"archive", "delete"}
    BY <2>2 DEF AdminStates, Means
  <2> QED BY <1>2, <2>1, <2>3 DEF OpenDirect, Reads
<1>3. ASSUME NEW a \in Agents, RegisterAgent(r, a) PROVE Enlivens(r)
  BY <1>3 DEF RegisterAgent, Enlivens
<1>4. ASSUME NEW p \in People, Register(r, p) PROVE Enlivens(r)
  BY <1>4 DEF Register, Enlivens
<1>5. ASSUME NEW who \in People, CreateWorkspace(r, who) PROVE Reads(r)
  <2> DEFINE s == [Idle EXCEPT !.pc = "create", !.at = Workspace, !.who = who]
  <2>1. s = [Idle EXCEPT !.pc = "create", !.at = Workspace, !.who = who] /\ Goto(r, s)
    BY <1>5 DEF CreateWorkspace
  <2> HIDE DEF s
  <2>2. s \in Asked /\ s.pc = "create" /\ s.at = Workspace /\ s.who = who
    BY <2>1, IdleAsked DEF Asked
  <2>3. s \in AdminStates /\ s.pc \notin {"archive", "delete"}
    BY <2>2 DEF AdminStates, Means
  <2> QED BY <1>5, <2>1, <2>3 DEF CreateWorkspace, Reads
<1>6. ASSUME NEW who \in People, NEW x \in Rooms, CreateChannel(r, x, who) PROVE Reads(r)
  <2> DEFINE s == [Idle EXCEPT !.pc = "create", !.at = x, !.who = who]
  <2>1. s = [Idle EXCEPT !.pc = "create", !.at = x, !.who = who] /\ Goto(r, s)
    BY <1>6 DEF CreateChannel
  <2> HIDE DEF s
  <2>2. s \in Asked /\ s.pc = "create" /\ s.at = x /\ s.who = who
    BY <2>1, IdleAsked DEF Asked
  <2>3. s \in AdminStates /\ s.pc \notin {"archive", "delete"}
    BY <2>2 DEF AdminStates, Means
  <2> QED BY <1>6, <2>1, <2>3 DEF CreateChannel, Reads
<1>7. ASSUME NEW who \in People, NEW p \in People, CreateTeam(r, who, p) PROVE Enlivens(r)
  BY <1>7 DEF CreateTeam, Enlivens
<1>8. ASSUME NEW who \in People, NEW p \in People, CreateHuman(r, who, p) PROVE Enlivens(r)
  BY <1>8 DEF CreateHuman, Enlivens
<1>9. ASSUME NEW who \in People, NEW p \in People, InviteTeamMember(r, who, p) PROVE Leaves(r)
  BY <1>9 DEF InviteTeamMember, Leaves
<1>10. ASSUME NEW who \in People, NEW c \in Channels, NEW m \in Everybody, AssignMember(r, c, m, who)
       PROVE  Reads(r)
  <2> DEFINE s == [Idle EXCEPT !.pc = "assign", !.at = c, !.who = m]
  <2>1. s = [Idle EXCEPT !.pc = "assign", !.at = c, !.who = m] /\ Goto(r, s)
    BY <1>10 DEF AssignMember
  <2> HIDE DEF s
  <2>2. s \in Asked /\ s.pc = "assign" /\ s.at = c /\ s.who = m
    BY <2>1, IdleAsked DEF Asked
  <2>3. s \in AdminStates /\ s.pc \notin {"archive", "delete"}
    BY <2>2 DEF AdminStates, Means
  <2> QED BY <1>10, <2>1, <2>3 DEF AssignMember, Reads
<1>11. ASSUME NEW who \in People, NEW c \in Channels, NEW m \in Everybody, RemoveMember(r, c, m, who)
       PROVE  Leaves(r)
  BY <1>11 DEF RemoveMember, Leaves
<1>12. ASSUME NEW who \in People, NEW x \in Entities, StartArchive(r, x, who) PROVE Hangs(r)
  BY <1>12 DEF StartArchive, Hangs
<1>13. ASSUME NEW who \in People, NEW x \in Entities, Restore(r, x, who) PROVE Enlivens(r)
  BY <1>13 DEF Restore, Enlivens, Exists
<1> QED BY <1>1, <1>2, <1>3, <1>4, <1>5, <1>6, <1>7, <1>8, <1>9, <1>10, <1>11, <1>12, <1>13 DEF Manage

\* The rows a request creates, and what it archives.
LEMMA Pending ==
  ASSUME MembersBase, NEW r \in Requests
  PROVE  LET x == adm[r].at IN
         /\ adm[r] \in AdminStates /\ x \in Entities /\ adm[r].list \subseteq {Workspace} \union Channels
         /\ adm[r].pc = "create" => x \in Rooms \union {Workspace} /\ adm[r].who \in People
         /\ adm[r].pc = "direct" => x \in Directs
         /\ adm[r].pc = "assign" => x \in Channels /\ adm[r].who \in Everybody
         /\ adm[r].pc \in {"archive", "delete"} => x \notin People
         /\ adm[r].pc = "delete" /\ x \in Channels => adm[r].list = {x}
         /\ adm[r].pc = "delete" /\ x \in Agents => adm[r].list \subseteq Directs
<1>1. adm[r] \in Asked /\ Means(adm[r])
  BY DEF MembersBase, AdminStates
<1> QED BY <1>1 DEF Means, Asked, AdminStates

\* A request that is done, fails or goes on to something else lists nothing new.
LEMMA NoNewDeletion ==
  ASSUME MembersBase, NEW r \in Requests, NEW s \in AdminStates, Goto(r, s), s.pc # "delete"
  PROVE  \A q \in Requests : \A y : Deletes(q, y)' => Deletes(q, y) /\ adm'[q].list = adm[q].list
BY AdmStep DEF Deletes, Removed

LEMMA ListedPlaces ==
  ASSUME NEW x \in Entities \ People
  PROVE  /\ Listed(x) \subseteq {Workspace} \union Channels
         /\ x \in Channels => Listed(x) = {x}
         /\ x \in Agents => Listed(x) = {d \in Directs : x \in d /\ Exists(d)}
         /\ x = Workspace => Listed(x) = Inside(x)
         /\ x = Team => Listed(x) = Inside(x) \union {y \in {Workspace} : Exists(y)}
<1>1. x \in {Team, Workspace} \union Channels \union Agents
  BY DEF Entities, Places, Everybody
<1>2. Inside(x) \subseteq Channels
  BY DEF Inside
<1> QED BY <1>1, <1>2, Kinds DEF Listed

LEMMA DeletionBegins ==
  ASSUME MembersBase, NEW r \in Requests, NEW x \in Entities, NEW who, StartDelete(r, x, who)
  PROVE  /\ adm'[r].pc = "delete" /\ adm'[r].at = x /\ adm'[r].list = Listed(x)
         /\ adm' \in [Requests -> AdminStates]
         /\ x \notin People /\ Exists(x)
<1> DEFINE s == [Idle EXCEPT !.pc = "delete", !.at = x, !.list = Listed(x)]
<1>1. x \in Entities \ People /\ Exists(x)
  BY DEF StartDelete
<1>2. s \in Asked /\ s.pc = "delete" /\ s.at = x /\ s.list = Listed(x)
  BY <1>1, IdleAsked, ListedPlaces DEF Asked
<1>3. Goto(r, s)
  BY DEF StartDelete
<1> HIDE DEF s
<1>4. s \in AdminStates
  BY <1>1, <1>2, ListedPlaces DEF AdminStates, Means
<1> QED BY <1>1, <1>2, <1>3, <1>4, AdmStep

LEMMA ArchivalBegins ==
  ASSUME MembersBase, NEW r \in Requests, NEW x \in Entities \ People,
         Goto(r, [Idle EXCEPT !.pc = "archive", !.at = x])
  PROVE  /\ adm'[r].pc = "archive" /\ adm'[r].at = x
         /\ adm' \in [Requests -> AdminStates]
         /\ \A q \in Requests : \A y : Deletes(q, y)' => Deletes(q, y) /\ adm'[q].list = adm[q].list
<1> DEFINE s == [Idle EXCEPT !.pc = "archive", !.at = x]
<1>1. s \in Asked /\ s.pc = "archive" /\ s.at = x
  BY IdleAsked DEF Asked
<1>2. Goto(r, s)
  OBVIOUS
<1> HIDE DEF s
<1>3. s \in AdminStates
  BY <1>1 DEF AdminStates, Means
<1> QED BY <1>1, <1>2, <1>3, AdmStep, NoNewDeletion

\* What exists after a deletion.
LEMMA DeletionTakes ==
  ASSUME MembersBase, NEW r \in Requests, Delete(r)
  PROVE  /\ row' \in Rows
         /\ \A y \in Entities : Exists(y)' <=> Exists(y) /\ y \notin Removed(r)
         /\ \A y \in Entities : y \notin Removed(r) => row'[y] = row[y]
         /\ Removed(r) \subseteq Entities
         /\ Goto(r, Idle)
<1>1. row' \in Rows
  BY DEF MembersBase, Delete, Rows
<1>2. \A y \in Entities : Exists(y)' <=> Exists(y) /\ y \notin Removed(r)
  BY DEF Delete, Exists
<1>3. \A y \in Entities : y \notin Removed(r) => row'[y] = row[y]
  BY DEF Delete
<1>4. Removed(r) \subseteq Entities
  BY Pending, Kinds DEF Removed
<1> QED BY <1>1, <1>2, <1>3, <1>4 DEF Delete, Done

LEMMA MembersBaseStep ==
  ASSUME MembersBase, NEW r \in Requests,
         Manage(r) \/ (\E x \in Entities : \E who : StartDelete(r, x, who)) \/ Delete(r)
  PROVE  MembersBase'
<1>1. CASE Reads(r)
  BY <1>1, AdmStep DEF Reads, MembersBase
<1>2. CASE Enlivens(r)
  BY <1>2 DEF Enlivens, MembersBase, Rows
<1>3. CASE Leaves(r)
  BY <1>3 DEF Leaves, MembersBase
<1>4. CASE Hangs(r)
  BY <1>4, ArchivalBegins DEF Hangs, HangUp, MembersBase
<1>5. CASE InsertEntity(r)
  <2>1. adm' \in [Requests -> AdminStates]
    BY <1>5, IdleState, AdmStep DEF InsertEntity, Done
  <2>2. <<adm[r].at, adm[r].who>> \in ({Workspace} \union Channels) \X Everybody
    BY <1>5, Pending, Kinds DEF InsertEntity
  <2> QED BY <1>5, <2>1, <2>2 DEF InsertEntity, MembersBase, Rows
<1>6. CASE InsertDirect(r)
  <2>1. adm' \in [Requests -> AdminStates]
    BY <1>6, IdleState, AdmStep DEF InsertDirect, Done
  <2>2. adm[r].at \in Channels /\ adm[r].at \subseteq Everybody
    BY <1>6, Pending, Kinds DEF InsertDirect
  <2>3. row' \in Rows /\ link' = link
    BY <1>6, <2>2, Kinds DEF InsertDirect, MembersBase, Rows
  <2>4. {<<adm[r].at, m>> : m \in adm[r].at} \subseteq ({Workspace} \union Channels) \X Everybody
    BY <2>2
  <2>5. member' \subseteq ({Workspace} \union Channels) \X Everybody
    BY <1>6, <2>4 DEF InsertDirect, MembersBase
  <2> QED BY <2>1, <2>3, <2>5 DEF MembersBase
<1>7. CASE AddMember(r)
  <2>1. adm' \in [Requests -> AdminStates]
    BY <1>7, IdleState, AdmStep DEF AddMember, Done
  <2>2. <<adm[r].at, adm[r].who>> \in ({Workspace} \union Channels) \X Everybody
    BY <1>7, Pending DEF AddMember
  <2> QED BY <1>7, <2>1, <2>2 DEF AddMember, MembersBase
<1>8. CASE Archive(r)
  <2>1. adm' \in [Requests -> AdminStates]
    BY <1>8, IdleState, AdmStep DEF Archive, Done
  <2> QED BY <1>8, <2>1 DEF Archive, MembersBase, Rows
<1>9. ASSUME NEW x \in Entities, NEW who, StartDelete(r, x, who) PROVE MembersBase'
  BY <1>9, DeletionBegins DEF StartDelete, HangUp, MembersBase
<1>10. CASE Delete(r)
  <2>1. adm' \in [Requests -> AdminStates]
    BY <1>10, IdleState, AdmStep DEF Delete, Done
  <2> QED BY <1>10, <2>1, DeletionTakes DEF Delete, MembersBase
<1> QED BY <1>1, <1>2, <1>3, <1>4, <1>5, <1>6, <1>7, <1>8, <1>9, <1>10, ManageDoes

LEMMA MembersBaseSocket == ASSUME MembersBase, NEW a \in Agents, Socket(a) PROVE MembersBase'
BY DEF Socket, Claim, Connect, Disconnect, MembersBase

LEMMA MembersBaseInit == MembersInit => MembersBase
<1> SUFFICES ASSUME MembersInit PROVE MembersBase
  OBVIOUS
<1>1. {Home, Workspace} \subseteq {Workspace} \union Channels /\ Agents \subseteq Everybody
      /\ {p \in People : Role[p] = "superadmin"} \subseteq Everybody
  BY HomeAssumption, Kinds
<1>2. adm \in [Requests -> AdminStates] /\ link \in [Agents -> {"off", "admitted", "on"}]
  BY IdleState DEF MembersInit
<1>3. row \in Rows
  BY DEF MembersInit, Rows
<1>4. member \subseteq ({Workspace} \union Channels) \X Everybody
  BY <1>1 DEF MembersInit
<1> QED BY <1>2, <1>3, <1>4 DEF MembersBase

-----------------------------------------------------------------------------
\* Agents that are on.

LEMMA LinkStep ==
  ASSUME MembersBase, LinkInv, NEW r \in Requests,
         Manage(r) \/ (\E x \in Entities : \E who : StartDelete(r, x, who)) \/ Delete(r)
  PROVE  LinkInv'
\* It suffices that who stays on stays live, and that nobody new is at ending it.
<1>s. ASSUME slipped' = slipped,
             \A a \in Agents : link'[a] = "on" /\ a \notin slipped => 
               /\ link[a] = "on"
               /\ row[a] = "live" /\ (\A q \in Requests : ~Ending(q, a)) =>
                    row'[a] = "live" /\ \A q \in Requests : ~Ending(q, a)'
      PROVE  LinkInv'
  BY <1>s DEF LinkInv
<1>q. ASSUME NEW s \in AdminStates, Goto(r, s), s.pc \notin {"archive", "delete"}
      PROVE  \A q \in Requests : \A a : Ending(q, a)' => Ending(q, a)
  BY <1>q, AdmStep DEF Ending
<1> USE Kinds
<1>1. CASE Reads(r)
  BY <1>1, <1>s, <1>q DEF Reads
<1>2. CASE Enlivens(r)
  <2>1. \A a \in Agents : row[a] = "live" => row'[a] = "live"
    BY <1>2 DEF Enlivens, MembersBase, Rows
  <2> QED BY <1>2, <1>s, <2>1 DEF Enlivens, Ending
<1>3. CASE Leaves(r)
  BY <1>3, <1>s DEF Leaves, Ending
<1>4. ASSUME NEW x \in Entities \ People, HangUp(x), adm'[r].at = x, slipped' = slipped, row' = row,
             \A q \in Requests \ {r} : adm'[q] = adm[q]
      PROVE  LinkInv'
  <2>1. ASSUME NEW a \in Agents, link'[a] = "on" PROVE link[a] = "on" /\ a # x
    BY <1>4, <2>1 DEF HangUp, MembersBase
  <2>2. \A q \in Requests : \A a : Ending(q, a)' => Ending(q, a) \/ a = x
    BY <1>4 DEF Ending
  <2> QED BY <1>4, <1>s, <2>1, <2>2
<1>5. CASE Hangs(r)
  <2>1. PICK x \in Entities \ People :
          HangUp(x) /\ Goto(r, [Idle EXCEPT !.pc = "archive", !.at = x])
    BY <1>5 DEF Hangs
  <2>2. adm'[r].at = x /\ \A q \in Requests \ {r} : adm'[q] = adm[q]
    BY <2>1, ArchivalBegins DEF Goto, MembersBase
  <2> QED BY <1>4, <1>5, <2>1, <2>2 DEF Hangs
<1>6. CASE InsertEntity(r)
  <2>1. \A a \in Agents : row'[a] = row[a]
    BY <1>6, Pending DEF InsertEntity
  <2> QED BY <1>6, <1>s, <1>q, <2>1, IdleState DEF InsertEntity, Done
<1>7. CASE InsertDirect(r)
  <2>1. \A a \in Agents : row'[a] = row[a]
    BY <1>7, Pending DEF InsertDirect
  <2> QED BY <1>7, <1>s, <1>q, <2>1, IdleState DEF InsertDirect, Done
<1>8. CASE AddMember(r)
  BY <1>8, <1>s, <1>q, IdleState DEF AddMember, Done
<1>9. CASE Archive(r)
  <2>1. \A a \in Agents : ~Ending(r, a) => row'[a] = row[a]
    BY <1>9 DEF Archive, Ending
  <2> QED BY <1>9, <1>s, <1>q, <2>1, IdleState DEF Archive, Done
<1>10. ASSUME NEW x \in Entities, NEW who, StartDelete(r, x, who) PROVE LinkInv'
  <2>1. adm'[r].at = x /\ x \in Entities \ People
    BY <1>10, DeletionBegins
  <2>2. HangUp(x) /\ slipped' = slipped /\ row' = row /\ \A q \in Requests \ {r} : adm'[q] = adm[q]
    BY <1>10 DEF StartDelete, Goto, MembersBase
  <2> QED BY <1>4, <2>1, <2>2
<1>11. CASE Delete(r)
  <2>1. \A a \in Agents : ~Ending(r, a) => row'[a] = row[a]
    BY <1>11, DeletionTakes, Pending DEF Delete, Ending, Removed
  <2> QED BY <1>11, <1>s, <1>q, <2>1, IdleState, DeletionTakes DEF Delete
<1> QED BY <1>1, <1>2, <1>3, <1>5, <1>6, <1>7, <1>8, <1>9, <1>10, <1>11, ManageDoes

LEMMA LinkSocket == ASSUME MembersBase, LinkInv, NEW a \in Agents, Socket(a) PROVE LinkInv'
<1>1. row' = row /\ adm' = adm /\ \A b \in Agents \ {a} : link'[b] = link[b]
  BY DEF Socket, Claim, Connect, Disconnect, MembersBase
<1>2. \A q \in Requests : \A b : Ending(q, b)' <=> Ending(q, b)
  BY <1>1 DEF Ending
<1>3. CASE Claim(a) \/ Disconnect(a)
  <2>1. link'[a] # "on" /\ slipped' = slipped
    BY <1>3 DEF Claim, Disconnect, MembersBase
  <2> QED BY <1>1, <1>2, <2>1 DEF LinkInv
<1>4. CASE Connect(a)
  <2>1. \A b \in Agents \ {a} : b \in slipped' <=> b \in slipped
    BY <1>4 DEF Connect
  <2>2. a \notin slipped' => row[a] = "live" /\ \A q \in Requests : ~Ending(q, a)
    BY <1>4 DEF Connect, Ending
  <2> QED BY <1>1, <1>2, <2>1, <2>2 DEF LinkInv
<1> QED BY <1>3, <1>4 DEF Socket

-----------------------------------------------------------------------------
\* What a deletion takes with it.

LEMMA HangStep ==
  ASSUME MembersBase, HangInv, NEW r \in Requests,
         Manage(r) \/ (\E x \in Entities : \E who : StartDelete(r, x, who)) \/ Delete(r)
  PROVE  HangInv'
<1> USE Kinds
\* Nothing comes or goes, and no deletion begins.
<1>s. ASSUME \A x \in Entities : Exists(x)' <=> Exists(x),
             strays' = strays, member' \subseteq member,
             \A q \in Requests : \A y : Deletes(q, y)' => Deletes(q, y) /\ adm'[q].list = adm[q].list
      PROVE  HangInv'
  <2>1. \A x : Stray(x)' <=> Stray(x)
    BY <1>s DEF Stray
  <2>2. \A c \in Channels : Exists(c)' /\ ~Stray(c)' =>
          /\ Exists(Workspace)'
          /\ \A q \in Requests : Deletes(q, Workspace)' => c \in adm'[q].list
    BY <1>s, <2>1 DEF HangInv
  <2>3. Exists(Workspace)' /\ ~Stray(Workspace)' =>
          /\ Exists(Team)'
          /\ \A q \in Requests : Deletes(q, Team)' => Workspace \in adm'[q].list
    BY <1>s, <2>1 DEF HangInv
  <2>4. \A cm \in member' : cm \in strays' \/ Stray(cm[1])'
                        \/ (Exists(cm[1])' /\ (cm[2] \in Agents => Exists(cm[2])'))
    BY <1>s, <2>1 DEF HangInv, MembersBase
  <2>5. \A d \in Directs : Exists(d)' /\ ~Stray(d)' =>
          \A a \in d \intersect Agents :
            Exists(a)' /\ \A q \in Requests : Deletes(q, a)' => d \in adm'[q].list
    BY <1>s, <2>1 DEF HangInv
  <2>6. \A x \in Entities : Stray(x)' => Exists(x)'
    BY <1>s, <2>1 DEF HangInv
  <2> QED BY <2>2, <2>3, <2>4, <2>5, <2>6 DEF HangInv
<1>d. ASSUME Done(r)
      PROVE  \A q \in Requests : \A y : Deletes(q, y)' => Deletes(q, y) /\ adm'[q].list = adm[q].list
  BY <1>d, IdleState, NoNewDeletion DEF Done
<1>1. CASE Reads(r)
  BY <1>1, <1>s, NoNewDeletion DEF Reads, Exists
<1>3. CASE Leaves(r)
  BY <1>3, <1>s DEF Leaves, Exists, Deletes, Removed
<1>4. CASE Hangs(r)
  BY <1>4, <1>s, ArchivalBegins DEF Hangs, Exists
<1>9. CASE Archive(r)
  <2>1. \A x \in Entities : Exists(x)' <=> Exists(x)
    BY <1>9 DEF Archive, Exists, MembersBase, Rows
  <2> QED BY <1>9, <1>s, <1>d, <2>1 DEF Archive
<1>2. CASE Enlivens(r)
  <2>1. PICK x \in Entities : (x \in {Team} \union Everybody \/ Exists(x)) /\ row' = [row EXCEPT ![x] = "live"]
    BY <1>2 DEF Enlivens
  <2>2. \A y \in Entities : Exists(y)' <=> Exists(y) \/ y = x
    BY <2>1 DEF Exists, MembersBase, Rows
  <2>3. \A y \in Channels \union {Workspace} : Exists(y)' <=> Exists(y)
    BY <2>1, <2>2
  <2>4. /\ \A y : Stray(y)' <=> Stray(y)
        /\ \A q \in Requests : \A y : (Deletes(q, y)' <=> Deletes(q, y)) /\ adm'[q].list = adm[q].list
        /\ strays' = strays /\ member' = member
    BY <1>2 DEF Enlivens, Stray, Deletes, Removed
  <2>5. \A c \in Channels : Exists(c)' /\ ~Stray(c)' =>
          /\ Exists(Workspace)'
          /\ \A q \in Requests : Deletes(q, Workspace)' => c \in adm'[q].list
    BY <2>3, <2>4 DEF HangInv
  <2>6. Exists(Workspace)' /\ ~Stray(Workspace)' =>
          /\ Exists(Team)'
          /\ \A q \in Requests : Deletes(q, Team)' => Workspace \in adm'[q].list
    BY <2>2, <2>3, <2>4 DEF HangInv
  <2>7. \A cm \in member' : cm \in strays' \/ Stray(cm[1])'
                        \/ (Exists(cm[1])' /\ (cm[2] \in Agents => Exists(cm[2])'))
    BY <2>2, <2>4 DEF HangInv, MembersBase
  <2>8. \A d \in Directs : Exists(d)' /\ ~Stray(d)' =>
          \A a \in d \intersect Agents :
            Exists(a)' /\ \A q \in Requests : Deletes(q, a)' => d \in adm'[q].list
    BY <2>2, <2>3, <2>4 DEF HangInv
  <2>9. \A y \in Entities : Stray(y)' => Exists(y)'
    BY <2>2, <2>4 DEF HangInv
  <2> QED BY <2>5, <2>6, <2>7, <2>8, <2>9 DEF HangInv
\* A channel or the workspace comes to be; it is a stray if what it lies in does
\* not stay.
<1>i. ASSUME NEW x \in {Workspace} \union Channels, ~Exists(x), Done(r), row' = [row EXCEPT ![x] = "live"],
             \A y : y # x => (Stray(y)' <=> Stray(y)),
             \A cm : cm \in strays => cm \in strays' \/ cm = <<x>>,
             x \in Channels /\ ~Stray(x)' => Stays(Workspace),
             x = Workspace /\ ~Stray(x)' => Stays(Team),
             x \in Directs /\ ~Stray(x)' => \A a \in x \intersect Agents : Stays(a),
             NEW M \in SUBSET Everybody, member' = member \union {<<x, m>> : m \in M},
             Stray(x)' \/ \A a \in M \intersect Agents : Exists(a)
      PROVE  HangInv'
  <2>1. \A y \in Entities : Exists(y)' <=> Exists(y) \/ y = x
    BY <1>i DEF Exists, MembersBase, Rows
  <2>2. ~Stray(x)
    BY <1>i DEF HangInv
  <2>3. \A q \in Requests : \A y : Deletes(q, y)' => Deletes(q, y) /\ adm'[q].list = adm[q].list
    BY <1>i, <1>d
  <2>p. \A q \in Requests : adm[q].list \subseteq {Workspace} \union Channels /\ adm[q].at \in Entities
    BY Pending
  <2>4. ASSUME NEW y, Stays(y), NEW q \in Requests, Deletes(q, y) PROVE y \in adm[q].list
    BY <2>4 DEF Stays, Deletes, Removed
  <2>5. ASSUME NEW c \in Channels, Exists(c)', ~Stray(c)'
        PROVE  /\ Exists(Workspace)'
               /\ \A q \in Requests : Deletes(q, Workspace)' => c \in adm'[q].list
    <3>1. CASE c = x
      <4>1. Stays(Workspace) /\ Exists(Workspace)
        BY <1>i, <2>5, <3>1 DEF Stays
      <4>2. ASSUME NEW q \in Requests, Deletes(q, Workspace) PROVE FALSE
        <5>1. adm[q].pc = "delete" /\ adm[q].at # Workspace /\ adm[q].at # Team
          BY <4>1, <4>2 DEF Stays, Deletes
        <5>2. Workspace \in adm[q].list
          BY <4>2, <5>1 DEF Deletes, Removed
        <5>3. adm[q].at \in Channels \union Agents
          BY <5>1, Pending DEF Entities, Places, Everybody
        <5> QED BY <5>1, <5>2, <5>3, Pending
      <4> QED BY <2>1, <2>3, <4>1, <4>2
    <3>2. CASE c # x
      <4>1. Exists(c) /\ ~Stray(c)
        BY <1>i, <2>1, <2>5, <3>2
      <4> QED BY <2>1, <2>3, <4>1 DEF HangInv
    <3> QED BY <3>1, <3>2
  <2>6. ASSUME Exists(Workspace)', ~Stray(Workspace)'
        PROVE  /\ Exists(Team)'
               /\ \A q \in Requests : Deletes(q, Team)' => Workspace \in adm'[q].list
    <3>1. CASE Workspace = x
      <4>1. Stays(Team) /\ Exists(Team)
        BY <1>i, <2>6, <3>1 DEF Stays
      <4>2. ASSUME NEW q \in Requests, Deletes(q, Team) PROVE FALSE
        BY <2>p, <4>1, <4>2 DEF Stays, Deletes, Removed
      <4> QED BY <2>1, <2>3, <4>1, <4>2
    <3>2. CASE Workspace # x
      <4>1. Exists(Workspace) /\ ~Stray(Workspace)
        BY <1>i, <2>1, <2>6, <3>2
      <4> QED BY <2>1, <2>3, <4>1 DEF HangInv
    <3> QED BY <3>1, <3>2
  <2>7. ASSUME NEW cm \in member'
        PROVE  cm \in strays' \/ Stray(cm[1])' \/ (Exists(cm[1])' /\ (cm[2] \in Agents => Exists(cm[2])'))
    <3>1. CASE cm \in member
      <4>1. cm[1] \in Entities /\ cm[2] \in Entities /\ cm = <<cm[1], cm[2]>>
        BY <3>1 DEF MembersBase
      <4>2. cm # <<x>>
        BY <4>1
      <4>3. cm \in strays \/ Stray(cm[1]) \/ (Exists(cm[1]) /\ (cm[2] \in Agents => Exists(cm[2])))
        BY <3>1 DEF HangInv
      <4>4. CASE cm \in strays
        BY <1>i, <4>2, <4>4
      <4>5. CASE Stray(cm[1])
        BY <1>i, <2>2, <4>5
      <4>6. CASE Exists(cm[1]) /\ (cm[2] \in Agents => Exists(cm[2]))
        BY <2>1, <4>1, <4>6
      <4> QED BY <4>3, <4>4, <4>5, <4>6
    <3>2. CASE cm \notin member
      <4>1. PICK m \in M : cm = <<x, m>>
        BY <1>i, <3>2
      <4>2. cm[1] = x /\ cm[2] = m
        BY <4>1
      <4> QED BY <1>i, <2>1, <4>2
    <3> QED BY <3>1, <3>2
  <2>8. ASSUME NEW d \in Directs, Exists(d)', ~Stray(d)', NEW a \in d \intersect Agents
        PROVE  Exists(a)' /\ \A q \in Requests : Deletes(q, a)' => d \in adm'[q].list
    <3>1. CASE d = x
      <4>1. Stays(a) /\ Exists(a)
        BY <1>i, <2>8, <3>1 DEF Stays
      <4>2. ASSUME NEW q \in Requests, Deletes(q, a) PROVE FALSE
        BY <2>p, <4>1, <4>2 DEF Stays, Deletes, Removed
      <4> QED BY <2>1, <2>3, <4>1, <4>2
    <3>2. CASE d # x
      <4>1. Exists(d) /\ ~Stray(d)
        BY <1>i, <2>1, <2>8, <3>2
      <4> QED BY <2>1, <2>3, <4>1 DEF HangInv
    <3> QED BY <3>1, <3>2
  <2>9. \A y \in Entities : Stray(y)' => Exists(y)'
    BY <1>i, <2>1 DEF HangInv
  <2> QED BY <2>5, <2>6, <2>7, <2>8, <2>9 DEF HangInv
<1>5. CASE InsertEntity(r)
  <2>0. PICK x, M : x = adm[r].at /\ M = {adm[r].who}
    OBVIOUS
  <2>1. x \in Rooms \union {Workspace} /\ M \subseteq People
    BY <1>5, <2>0, Pending DEF InsertEntity
  <2>2. /\ ~Exists(x) /\ Done(r) /\ row' = [row EXCEPT ![x] = "live"]
        /\ member' = member \union {<<x, m>> : m \in M}
        /\ strays' = IF Stays(Parent(x)) THEN strays ELSE strays \union {<<x>>}
    BY <1>5, <2>0 DEF InsertEntity, Exists
  <2>3. /\ \A y : y # x => (Stray(y)' <=> Stray(y))
        /\ \A cm : cm \in strays => cm \in strays'
    BY <2>2 DEF Stray
  <2>4. Stray(x)' \/ Stays(Parent(x))
    <3>1. ASSUME ~Stays(Parent(x)) PROVE <<x>> \in strays'
      BY <2>2, <3>1
    <3> QED BY <3>1 DEF Stray
  <2>5. Parent(x) = IF x = Workspace THEN Team ELSE Workspace
    BY <2>1 DEF Parent
  <2>6. M \in SUBSET Everybody /\ M \intersect Agents = {}
    BY <2>1
  <2>7. member' = member \union {<<x, m>> : m \in M}
    BY <2>2
  <2>8. x \in {Workspace} \union Channels /\ ~Exists(x) /\ Done(r) /\ row' = [row EXCEPT ![x] = "live"]
    BY <2>1, <2>2
  <2>9. \A cm : cm \in strays => cm \in strays' \/ cm = <<x>>
    BY <2>3
  <2>10. x \in Channels /\ ~Stray(x)' => Stays(Workspace)
    BY <2>4, <2>5
  <2>11. x = Workspace /\ ~Stray(x)' => Stays(Team)
    BY <2>4, <2>5
  <2>12. x \in Directs /\ ~Stray(x)' => \A a \in x \intersect Agents : Stays(a)
    BY <2>1
  <2>13. Stray(x)' \/ \A a \in M \intersect Agents : Exists(a)
    BY <2>6
  <2> QED BY <1>i, <2>3, <2>6, <2>7, <2>8, <2>9, <2>10, <2>11, <2>12, <2>13
<1>6. CASE InsertDirect(r)
  <2>0. PICK x : x = adm[r].at
    OBVIOUS
  <2>1. x \in Directs /\ x \subseteq Everybody
    BY <1>6, <2>0, Pending DEF InsertDirect
  <2>2. /\ ~Exists(x) /\ Done(r) /\ row' = [row EXCEPT ![x] = "live"]
        /\ member' = member \union {<<x, m>> : m \in x}
        /\ strays' = IF Stays(Workspace) /\ \A a \in x \intersect Agents : Stays(a)
                     THEN strays \ {<<x>>} ELSE strays \union {<<x>>}
    BY <1>6, <2>0 DEF InsertDirect
  <2>3. /\ \A y : y # x => (Stray(y)' <=> Stray(y))
        /\ \A cm : cm \in strays => cm \in strays' \/ cm = <<x>>
    BY <2>2 DEF Stray
  <2>4. Stray(x)' \/ (Stays(Workspace) /\ \A a \in x \intersect Agents : Stays(a))
    <3>1. ASSUME ~(Stays(Workspace) /\ \A a \in x \intersect Agents : Stays(a))
          PROVE  <<x>> \in strays'
      BY <2>2, <3>1
    <3> QED BY <3>1 DEF Stray
  <2>5. Stray(x)' \/ \A a \in x \intersect Agents : Exists(a)
    BY <2>4 DEF Stays
  <2>6. x \in {Workspace} \union Channels /\ x \in SUBSET Everybody /\ x # Workspace
    BY <2>1
  <2>7. x \in Channels /\ ~Stray(x)' => Stays(Workspace)
    BY <2>4
  <2>8. x \in Directs /\ ~Stray(x)' => \A a \in x \intersect Agents : Stays(a)
    BY <2>4
  <2> QED BY <1>i, <2>2, <2>3, <2>5, <2>6, <2>7, <2>8
<1>7. CASE AddMember(r)
  <2> DEFINE c == adm[r].at
             m == adm[r].who
  <2>1. c \in Channels /\ m \in Everybody
    BY <1>7, Pending DEF AddMember
  <2>2. /\ row' = row /\ Done(r) /\ member' = member \union {<<c, m>>}
        /\ strays' = IF Exists(c) /\ (m \in Agents => Exists(m)) THEN strays ELSE strays \union {<<c, m>>}
    BY <1>7 DEF AddMember
  <2> HIDE DEF c, m
  <2>3. \A y : Exists(y)' <=> Exists(y)
    BY <2>2 DEF Exists
  <2>4. \A y : <<c, m>> # <<y>>
    OBVIOUS
  <2>5. /\ \A y : Stray(y)' <=> Stray(y)
        /\ strays \subseteq strays'
    BY <2>2, <2>4 DEF Stray
  <2>6. \A q \in Requests : \A y : Deletes(q, y)' => Deletes(q, y) /\ adm'[q].list = adm[q].list
    BY <2>2, <1>d
  <2>7. ASSUME NEW cm \in member'
        PROVE  cm \in strays' \/ Stray(cm[1])' \/ (Exists(cm[1])' /\ (cm[2] \in Agents => Exists(cm[2])'))
    <3>1. CASE cm \in member
      BY <2>3, <2>5, <3>1 DEF HangInv
    <3>2. CASE cm \notin member
      <4>1. cm = <<c, m>> /\ cm[1] = c /\ cm[2] = m
        BY <2>2, <3>2
      <4> QED BY <2>2, <2>3, <4>1
    <3> QED BY <3>1, <3>2
  <2> QED BY <2>3, <2>5, <2>6, <2>7 DEF HangInv
\* A deletion begins with the list of what there is.
<1>10. ASSUME NEW x \in Entities, NEW who, StartDelete(r, x, who) PROVE HangInv'
  <2>0. adm'[r].pc = "delete" /\ adm'[r].at = x /\ adm'[r].list = Listed(x) /\ x \notin People
    BY <1>10, DeletionBegins
  <2>1. /\ adm'[r].pc = "delete" /\ adm'[r].at = x /\ adm'[r].list = Listed(x) /\ x \notin People
        /\ \A q \in Requests \ {r} : adm'[q] = adm[q]
        /\ row' = row /\ member' = member /\ strays' = strays
    BY <1>10, <2>0 DEF StartDelete, Goto, MembersBase
  <2>2. \A y : (Exists(y)' <=> Exists(y)) /\ (Stray(y)' <=> Stray(y))
    BY <2>1 DEF Exists, Stray
  <2>3. /\ \A q \in Requests \ {r} : \A y : Deletes(q, y)' => Deletes(q, y) /\ adm'[q].list = adm[q].list
        /\ \A y : Deletes(r, y)' => y = x \/ y \in Listed(x)
    BY <2>1 DEF Deletes, Removed
  <2>l. /\ Listed(x) \subseteq {Workspace} \union Channels
        /\ x \in Channels => Listed(x) = {x}
        /\ x \in Agents => Listed(x) = {d \in Directs : x \in d /\ Exists(d)}
        /\ x = Workspace => Listed(x) = Inside(x)
        /\ x = Team => Listed(x) = Inside(x) \union {y \in {Workspace} : Exists(y)}
    BY <2>1, ListedPlaces
  <2>x. x \in {Team, Workspace} \union Channels \union Agents
    BY <2>1 DEF Entities, Places, Everybody
  <2>4. ASSUME NEW c \in Channels, Exists(c), Deletes(r, Workspace)' PROVE c \in Listed(x)
    <3>1. x \in {Team, Workspace}
      BY <2>3, <2>4, <2>l, <2>x
    <3> QED BY <2>4, <2>l, <3>1 DEF Inside
  <2>5. ASSUME Exists(Workspace), Deletes(r, Team)' PROVE Workspace \in Listed(x)
    <3>1. x = Team
      BY <2>3, <2>5, <2>l
    <3> QED BY <2>5, <2>l, <3>1
  <2>6. ASSUME NEW d \in Directs, Exists(d), NEW a \in d \intersect Agents, Deletes(r, a)'
        PROVE  d \in Listed(x)
    <3>1. x = a
      BY <2>3, <2>6, <2>l
    <3> QED BY <2>6, <2>l, <3>1
  <2>7. \A c \in Channels : Exists(c)' /\ ~Stray(c)' =>
          /\ Exists(Workspace)'
          /\ \A q \in Requests : Deletes(q, Workspace)' => c \in adm'[q].list
    BY <2>1, <2>2, <2>3, <2>4 DEF HangInv
  <2>8. Exists(Workspace)' /\ ~Stray(Workspace)' =>
          /\ Exists(Team)'
          /\ \A q \in Requests : Deletes(q, Team)' => Workspace \in adm'[q].list
    BY <2>1, <2>2, <2>3, <2>5 DEF HangInv
  <2>9. \A d \in Directs : Exists(d)' /\ ~Stray(d)' =>
          \A a \in d \intersect Agents :
            Exists(a)' /\ \A q \in Requests : Deletes(q, a)' => d \in adm'[q].list
    BY <2>1, <2>2, <2>3, <2>6 DEF HangInv
  <2>10. \A cm \in member' : cm \in strays' \/ Stray(cm[1])'
                        \/ (Exists(cm[1])' /\ (cm[2] \in Agents => Exists(cm[2])'))
    BY <2>1, <2>2 DEF HangInv
  <2>11. \A y \in Entities : Stray(y)' => Exists(y)'
    BY <2>2 DEF HangInv
  <2> QED BY <2>7, <2>8, <2>9, <2>10, <2>11 DEF HangInv
\* ... and ends with all of it, and all that hung on it.
<1>11. CASE Delete(r)
  <2>1. /\ \A y \in Entities : Exists(y)' <=> Exists(y) /\ y \notin Removed(r)
        /\ Removed(r) \subseteq Entities /\ Done(r)
    BY <1>11, DeletionTakes DEF Done
  <2>2. /\ strays' = strays \ {<<y>> : y \in Removed(r)}
        /\ member' = {cm \in member : cm[1] \notin Removed(r) /\ cm[2] # adm[r].at}
        /\ \A y \in Removed(r) : Deletes(r, y)
    BY <1>11 DEF Delete, Deletes
  <2>3. \A y : y \notin Removed(r) => (Stray(y)' <=> Stray(y))
    BY <2>2 DEF Stray
  <2>4. \A q \in Requests : \A y : Deletes(q, y)' => Deletes(q, y) /\ adm'[q].list = adm[q].list
    BY <1>d, <2>1
  <2>l. adm[r].list \subseteq Removed(r) /\ Removed(r) = {adm[r].at} \union adm[r].list
        /\ adm[r].list \subseteq {Workspace} \union Channels
    BY Pending DEF Removed
  <2>5. ASSUME NEW c \in Channels, Exists(c)', ~Stray(c)'
        PROVE  /\ Exists(Workspace)'
               /\ \A q \in Requests : Deletes(q, Workspace)' => c \in adm'[q].list
    <3>1. Exists(c) /\ c \notin Removed(r) /\ ~Stray(c)
      BY <2>1, <2>3, <2>5
    <3>2. Workspace \notin Removed(r)
      BY <2>2, <2>l, <3>1 DEF HangInv
    <3> QED BY <2>1, <2>4, <3>1, <3>2 DEF HangInv
  <2>6. ASSUME Exists(Workspace)', ~Stray(Workspace)'
        PROVE  /\ Exists(Team)'
               /\ \A q \in Requests : Deletes(q, Team)' => Workspace \in adm'[q].list
    <3>1. Exists(Workspace) /\ Workspace \notin Removed(r) /\ ~Stray(Workspace)
      BY <2>1, <2>3, <2>6
    <3>2. Team \notin Removed(r)
      BY <2>2, <2>l, <3>1 DEF HangInv
    <3> QED BY <2>1, <2>4, <3>1, <3>2 DEF HangInv
  <2>7. ASSUME NEW d \in Directs, Exists(d)', ~Stray(d)', NEW a \in d \intersect Agents
        PROVE  Exists(a)' /\ \A q \in Requests : Deletes(q, a)' => d \in adm'[q].list
    <3>1. Exists(d) /\ d \notin Removed(r) /\ ~Stray(d)
      BY <2>1, <2>3, <2>7
    <3>2. a \notin Removed(r)
      BY <2>2, <2>l, <3>1 DEF HangInv
    <3> QED BY <2>1, <2>4, <3>1, <3>2 DEF HangInv
  <2>8. ASSUME NEW cm \in member'
        PROVE  cm \in strays' \/ Stray(cm[1])' \/ (Exists(cm[1])' /\ (cm[2] \in Agents => Exists(cm[2])'))
    <3>1. cm \in member /\ cm[1] \notin Removed(r) /\ cm[2] # adm[r].at
      BY <2>2
    <3>2. cm[1] \in Entities /\ cm[2] \in Entities /\ cm = <<cm[1], cm[2]>>
      BY <3>1 DEF MembersBase
    <3>3. \A y : cm # <<y>>
      BY <3>2
    <3>4. CASE cm \in strays
      BY <2>2, <3>3, <3>4
    <3>5. CASE Stray(cm[1])
      BY <2>3, <3>1, <3>5
    <3>6. CASE Exists(cm[1]) /\ (cm[2] \in Agents => Exists(cm[2]))
      <4>1. cm[2] \in Agents => cm[2] \notin Removed(r)
        BY <2>l, <3>1
      <4> QED BY <2>1, <3>1, <3>2, <3>6, <4>1
    <3> QED BY <3>1, <3>4, <3>5, <3>6 DEF HangInv
  <2>9. ASSUME NEW y \in Entities, Stray(y)' PROVE Exists(y)'
    <3>1. Stray(y) /\ y \notin Removed(r)
      BY <2>2, <2>9 DEF Stray
    <3> QED BY <2>1, <3>1 DEF HangInv
  <2> QED BY <2>5, <2>6, <2>7, <2>8, <2>9 DEF HangInv
<1> QED BY <1>1, <1>2, <1>3, <1>4, <1>5, <1>6, <1>7, <1>9, <1>10, <1>11, ManageDoes

LEMMA HangInit == MembersInit => HangInv
<1> SUFFICES ASSUME MembersInit PROVE HangInv
  OBVIOUS
<1> USE Kinds
<1>1. strays = {} /\ \A r \in Requests : \A y : ~Deletes(r, y)
  BY IdleState DEF MembersInit, Deletes
<1>2. PICK seeded \in BOOLEAN :
        LET first == {p \in People : Role[p] = "superadmin"}
            rows == IF seeded THEN {Team, Workspace, Home} \union first \union Agents ELSE first
        IN  /\ row = [y \in Entities |-> IF y \in rows THEN "live" ELSE "none"]
            /\ member = IF seeded THEN {Home, Workspace} \X (first \union Agents) ELSE {}
  BY DEF MembersInit
<1>3. Home \in Channels /\ Home \notin Directs
  BY HomeAssumption
<1>4. CASE seeded
  <2>1. Exists(Workspace) /\ Exists(Team) /\ Exists(Home) /\ (\A a \in Agents : Exists(a))
    BY <1>2, <1>3, <1>4 DEF Exists
  <2>2. ASSUME NEW d \in Directs PROVE ~Exists(d)
    <3>1. d \notin {Team, Workspace, Home} \union Everybody /\ d \in Entities
      BY <1>3
    <3>2. row[d] = "none"
      BY <1>2, <1>4, <3>1
    <3> QED BY <3>2 DEF Exists
  <2>3. \A cm \in member : Exists(cm[1])
    BY <1>2, <1>4, <2>1
  <2> QED BY <1>1, <2>1, <2>2, <2>3 DEF HangInv, Stray
<1>5. CASE ~seeded
  <2>1. \A y \in {Workspace} \union Channels : y \notin Everybody /\ y \in Entities
    OBVIOUS
  <2>2. \A y \in {Workspace} \union Channels : row[y] = "none"
    BY <1>2, <1>5, <2>1
  <2>3. member = {} /\ ~Exists(Workspace) /\ (\A c \in Channels : ~Exists(c))
    BY <1>2, <1>5, <2>2 DEF Exists
  <2> QED BY <1>1, <2>3 DEF HangInv, Stray
<1> QED BY <1>4, <1>5

-----------------------------------------------------------------------------
\* The messages.

Msgs == [by : Everybody \union {Builtin}, ch : Channels, root : Ids \union {0},
         via : {"turn", "tool", "card"}, st : {"new", "open", "kept", "gone", "void"}]
TurnStates ==
  [pc : {"idle", "say", "open", "echo", "ask", "reply", "tell", "react"}, ch : Channels,
   root : Ids \union {0}, id : Ids \union {0}, agent : Agents \union {Builtin}]
PageStates ==
  {s \in [ch : Channels, on : BOOLEAN, ids : SUBSET Ids, load : {"no", "reading", "shown"},
          rows : SUBSET Ids, whole : BOOLEAN] : s.load # "reading" => s.rows = {}}

\* A page has read the history; what it was given, drawn or on the way.
Begun(s) == s.load # "no"
Given(s) == s.ids \union s.rows

ChatBase ==
  /\ msg \in [Ids -> Msgs]
  /\ react \subseteq Ids \X Readers
  /\ page \in [Readers -> PageStates]
  /\ turn \in [Writers -> TurnStates]
  /\ doomed \in [Requests -> SUBSET Ids]

Settled(i) == msg[i].st \in {"kept", "gone"}

\* What a writer is about to have committed.
Draft(w) == IF At(w, "reply") THEN Answering(w) ELSE Saying(w)
Writing(w) == turn[w].pc \in {"open", "reply"}

\* What a turn refers to was committed, in the channel of the turn.
Refers(s) ==
  /\ s.root # 0 => Settled(s.root) /\ msg[s.root].ch = s.ch
  /\ s.pc \in {"echo", "ask", "reply", "tell"} =>
       s.id \in Ids /\ Settled(s.id) /\ msg[s.id].ch = s.ch
  /\ s.pc \in {"ask", "reply"} => s.agent \in Agents
  /\ s.pc = "react" => s.id \in Ids

\* What is open is the one message of the one turn that has the write lock, or an
\* announcement.
TurnInv ==
  /\ \A i, j \in Ids : msg[i].st = "open" /\ msg[j].st = "open" => i = j
  /\ \A w \in Writers : Refers(turn[w])
  /\ \A w \in Writers : Writing(w) => \E i \in Ids : msg[i] = [Draft(w) EXCEPT !.st = "open"]
  /\ \A v, w \in Writers : Writing(v) /\ Writing(w) => v = w
  /\ \A i \in Ids : msg[i].root # 0 => Settled(msg[i].root) /\ msg[msg[i].root].ch = msg[i].ch

\* What a message that was committed in time refers to is there, and a deletion
\* under way that takes it takes the message.
KeptInv ==
  /\ \A i \in Kept : <<i>> \notin stale =>
       /\ Exists(msg[i].ch) /\ Author(msg[i])
       /\ msg[i].root # 0 => msg[i].root \in Kept
       /\ \A r \in Requests : adm[r].pc = "delete" /\ adm[r].at \in Agents /\ adm[r].list = {} =>
            (msg[i].by = adm[r].at \/ msg[i].root \in doomed[r] => i \in doomed[r])
  /\ \A r \in Requests : \A i \in doomed[r] : Settled(i)
  /\ \A ip \in react : ip[1] \in Kept \/ ip \in stale

\* A page is given nothing that was not inserted, and one that is whole is in its room.
PageInv ==
  /\ \A p \in Readers : page[p].whole /\ Begun(page[p]) => page[p].on
  /\ \A p \in Readers : \A i \in Given(page[p]) :
       msg[i].st # "new" /\ (msg[i].via = "card" \/ Settled(i))

\* PageComplete, from the reading of the history on: what was read will be drawn.
Complete ==
  \A p \in Readers, i \in Kept :
    /\ page[p].whole /\ Begun(page[p])
    /\ msg[i].ch = page[p].ch /\ msg[i].root = 0 /\ msg[i].via = "turn"
    => \/ i \in Given(page[p]) \/ <<i>> \in stale
       \/ \E w \in Readers : turn[w].pc \in {"echo", "tell"} /\ turn[w].id = i

-----------------------------------------------------------------------------

LEMMA ChatKinds ==
  /\ NoTurn \in TurnStates /\ NoMsg \in Msgs /\ NoPage \in PageStates
  /\ Home \in Channels /\ Writers \subseteq Everybody /\ 0 \notin Ids
  /\ Readers \intersect Agents = {} /\ Readers \subseteq Writers /\ Agents \subseteq Writers
  /\ Builtin \notin Everybody
<1>1. Home \in Channels
  BY HomeAssumption, Kinds
<1>2. 0 \notin Ids
  BY DEF Ids
<1> QED BY <1>1, <1>2, PeopleAssumption, BuiltinAssumption
    DEF NoTurn, NoMsg, NoPage, TurnStates, Msgs, PageStates, Writers, Everybody

\* What is said and answered is a message.
LEMMA Drafts ==
  ASSUME ChatBase, NEW w \in Writers
  PROVE  /\ Saying(w) \in Msgs /\ Saying(w).ch = turn[w].ch /\ Saying(w).root = turn[w].root
         /\ Saying(w).by = w /\ Saying(w).via = IF w \in Readers THEN "turn" ELSE "tool"
         /\ Answering(w) \in Msgs /\ Answering(w).ch = turn[w].ch /\ Answering(w).by = turn[w].agent
         /\ Answering(w).root \in {0, turn[w].root, turn[w].id} /\ Answering(w).via = "turn"
<1>1. turn[w] \in TurnStates
  BY DEF ChatBase
<1>2. w \in Everybody /\ NoMsg \in Msgs /\ NoMsg.via = "turn"
  BY ChatKinds DEF NoMsg
<1>3. /\ Saying(w) \in Msgs /\ Saying(w).ch = turn[w].ch /\ Saying(w).root = turn[w].root
      /\ Saying(w).by = w /\ Saying(w).via = IF w \in Readers THEN "turn" ELSE "tool"
  BY <1>1, <1>2 DEF Saying, Msgs, TurnStates
<1>4. PICK root : root = IF turn[w].root # 0 THEN turn[w].root
                         ELSE IF IsDm(turn[w].ch) THEN 0 ELSE turn[w].id
  OBVIOUS
<1>5. root \in Ids \union {0} /\ root \in {0, turn[w].root, turn[w].id}
  BY <1>1, <1>4 DEF TurnStates
<1>6. Answering(w) = [NoMsg EXCEPT !.by = turn[w].agent, !.ch = turn[w].ch, !.root = root]
  BY <1>4 DEF Answering
<1>7. turn[w].agent \in Everybody \union {Builtin} /\ turn[w].ch \in Channels
  BY <1>1, Kinds DEF TurnStates
<1>8. /\ Answering(w) \in Msgs /\ Answering(w).ch = turn[w].ch /\ Answering(w).by = turn[w].agent
      /\ Answering(w).root = root /\ Answering(w).via = "turn"
  BY <1>2, <1>5, <1>6, <1>7 DEF Msgs
<1> QED BY <1>3, <1>5, <1>8

\* An insertion: the row is new, the lock free.
LEMMA Inserts ==
  ASSUME ChatBase, NEW m \in Msgs, Insert(m)
  PROVE  /\ Free /\ msg' \in [Ids -> Msgs]
         /\ \E i \in Ids : /\ msg[i].st = "new" /\ msg'[i] = [m EXCEPT !.st = "open"]
                           /\ \A j \in Ids \ {i} : msg'[j] = msg[j]
<1>1. PICK i \in Ids : msg[i].st = "new" /\ Free /\ msg' = [msg EXCEPT ![i] = [m EXCEPT !.st = "open"]]
  BY DEF Insert
<1>2. [m EXCEPT !.st = "open"] \in Msgs
  BY DEF Msgs
<1> QED BY <1>1, <1>2 DEF ChatBase

\* Messages that are committed, rolled back or deleted stay what they are.
LEMMA Settles ==
  ASSUME ChatBase, NEW S, NEW st \in {"kept", "gone", "void"}, Settle(S, st)
  PROVE  /\ msg' \in [Ids -> Msgs]
         /\ \A i \in Ids : /\ msg'[i].by = msg[i].by /\ msg'[i].ch = msg[i].ch
                           /\ msg'[i].root = msg[i].root /\ msg'[i].via = msg[i].via
                           /\ msg'[i].st = IF i \in S THEN st ELSE msg[i].st
<1>1. ASSUME NEW i \in Ids
      PROVE  LET n == IF i \in S THEN [msg[i] EXCEPT !.st = st] ELSE msg[i]
             IN  /\ n \in Msgs /\ n.by = msg[i].by /\ n.ch = msg[i].ch
                 /\ n.root = msg[i].root /\ n.via = msg[i].via
                 /\ n.st = IF i \in S THEN st ELSE msg[i].st
  <2>1. msg[i] \in Msgs
    BY DEF ChatBase
  <2> QED BY <2>1 DEF Msgs
<1> DEFINE n(i) == IF i \in S THEN [msg[i] EXCEPT !.st = st] ELSE msg[i]
<1>2. msg' = [i \in Ids |-> n(i)]
  BY DEF Settle
<1>3. \A i \in Ids : /\ n(i) \in Msgs /\ n(i).by = msg[i].by /\ n(i).ch = msg[i].ch
                     /\ n(i).root = msg[i].root /\ n(i).via = msg[i].via
                     /\ n(i).st = IF i \in S THEN st ELSE msg[i].st
  BY <1>1
<1> HIDE DEF n
<1> QED BY <1>2, <1>3

\* There is one open message, and where a turn writes it is that turn's.
LEMMA OneOpen ==
  ASSUME ChatBase, TurnInv, NEW i \in Ids, msg[i].st = "open"
  PROVE  Opened = i /\ \A j \in Ids : msg[j].st = "open" <=> j = i
<1>1. \A j \in Ids : msg[j].st = "open" <=> j = i
  BY DEF TurnInv
<1> QED BY <1>1 DEF Opened

LEMMA Writes ==
  ASSUME ChatBase, TurnInv, NEW w \in Writers, Writing(w)
  PROVE  /\ Opened \in Ids /\ msg[Opened] = [Draft(w) EXCEPT !.st = "open"]
         /\ msg[Opened].st = "open" /\ msg[Opened].ch = turn[w].ch
         /\ msg[Opened].via = IF w \in Readers \/ At(w, "reply") THEN "turn" ELSE "tool"
         /\ \A j \in Ids : msg[j].st = "open" <=> j = Opened
         /\ \A v \in Writers \ {w} : ~Writing(v)
<1>1. PICK i \in Ids : msg[i] = [Draft(w) EXCEPT !.st = "open"]
  BY DEF TurnInv
<1>2. Draft(w) \in Msgs /\ Draft(w).ch = turn[w].ch
      /\ Draft(w).via = IF w \in Readers \/ At(w, "reply") THEN "turn" ELSE "tool"
  BY Drafts DEF Draft
<1>3. msg[i].st = "open" /\ msg[i].ch = turn[w].ch
      /\ msg[i].via = IF w \in Readers \/ At(w, "reply") THEN "turn" ELSE "tool"
  BY <1>1, <1>2 DEF Msgs
<1>4. \A v \in Writers \ {w} : ~Writing(v)
  BY DEF TurnInv
<1> QED BY <1>1, <1>3, <1>4, OneOpen

LEMMA FreeWrites == ASSUME ChatBase, TurnInv, Free PROVE \A w \in Writers : ~Writing(w)
BY Writes DEF Free

-----------------------------------------------------------------------------
\* The steps of the turns.

TurnPcs == {"idle", "say", "open", "echo", "ask", "reply", "tell", "react"}

LEMMA Turned ==
  ASSUME ChatBase, NEW w \in Writers, NEW s \in TurnStates, turn' = [turn EXCEPT ![w] = s]
  PROVE  /\ turn' \in [Writers -> TurnStates] /\ turn'[w] = s
         /\ \A v \in Writers \ {w} : turn'[v] = turn[v]
BY DEF ChatBase

LEMMA Stepped ==
  ASSUME ChatBase, NEW w \in Writers, NEW pc \in TurnPcs
  PROVE  /\ [turn[w] EXCEPT !.pc = pc] \in TurnStates
         /\ [turn[w] EXCEPT !.pc = pc].pc = pc /\ [turn[w] EXCEPT !.pc = pc].ch = turn[w].ch
         /\ [turn[w] EXCEPT !.pc = pc].root = turn[w].root /\ [turn[w] EXCEPT !.pc = pc].id = turn[w].id
         /\ [turn[w] EXCEPT !.pc = pc].agent = turn[w].agent
BY DEF ChatBase, TurnStates, TurnPcs

LEMMA Told ==
  ASSUME ChatBase, NEW c, NEW i \in Ids, Broadcast(c, i)
  PROVE  /\ page' \in [Readers -> PageStates]
         /\ \A p \in Readers :
              /\ page'[p].ch = page[p].ch /\ page'[p].on = page[p].on
              /\ Begun(page'[p]) = Begun(page[p]) /\ page'[p].whole = page[p].whole
              /\ Given(page'[p]) = IF page[p].on /\ page[p].ch = c THEN Given(page[p]) \union {i} ELSE Given(page[p])
<1> DEFINE n(p) == IF page[p].on /\ page[p].ch = c THEN [page[p] EXCEPT !.ids = @ \union {i}] ELSE page[p]
<1>1. ASSUME NEW p \in Readers
      PROVE  /\ n(p) \in PageStates /\ n(p).ch = page[p].ch /\ n(p).on = page[p].on
             /\ Begun(n(p)) = Begun(page[p]) /\ n(p).whole = page[p].whole
             /\ Given(n(p)) = IF page[p].on /\ page[p].ch = c THEN Given(page[p]) \union {i} ELSE Given(page[p])
  <2>1. page[p] \in PageStates
    BY DEF ChatBase
  <2> QED BY <2>1 DEF PageStates, Begun, Given
<1>2. page' = [p \in Readers |-> n(p)]
  BY DEF Broadcast
<1> HIDE DEF n
<1> QED BY <1>1, <1>2

\* What a turn refers to stays.
LEMMA RefersOn ==
  ASSUME ChatBase, NEW s \in TurnStates, Refers(s),
         \A i \in Ids : Settled(i) => Settled(i)' /\ msg'[i].ch = msg[i].ch
  PROVE  Refers(s)'
BY DEF Refers, TurnStates

LEMMA DraftOn ==
  ASSUME NEW w \in Writers, turn'[w] = turn[w]
  PROVE  Draft(w)' = Draft(w)
BY DEF Draft, At, Answering, Saying

\* A step of a turn that writes no message.
LEMMA TurnTalks ==
  ASSUME ChatBase, TurnInv, NEW w \in Writers, NEW s \in TurnStates, turn' = [turn EXCEPT ![w] = s],
         msg' = msg, s.pc \notin {"open", "reply"}, Refers(s)
  PROVE  TurnInv'
<1>1. turn'[w] = s /\ \A v \in Writers \ {w} : turn'[v] = turn[v]
  BY Turned
<1>2. \A v \in Writers : (Writing(v)' => v # w /\ Writing(v))
  BY <1>1 DEF Writing
<1>3. ASSUME NEW v \in Writers, Writing(v)'
      PROVE  \E i \in Ids : msg'[i] = [Draft(v)' EXCEPT !.st = "open"]
  BY <1>1, <1>2, <1>3, DraftOn DEF TurnInv
<1>4. \A v \in Writers : Refers(turn[v])'
  BY <1>1 DEF TurnInv, Refers, Settled
<1> QED BY <1>2, <1>3, <1>4 DEF TurnInv, Settled

\* An insertion, by a turn or by nobody.
LEMMA TurnInserts ==
  ASSUME ChatBase, TurnInv, NEW m \in Msgs, Insert(m),
         m.root # 0 => Settled(m.root) /\ msg[m.root].ch = m.ch,
         \A v \in Writers : turn'[v] = turn[v] \/ (Writing(v)' /\ Draft(v)' = m /\ Refers(turn[v])'),
         \A u, v \in Writers : turn'[u] # turn[u] /\ turn'[v] # turn[v] => u = v
  PROVE  TurnInv'
<1>1. PICK i \in Ids : /\ msg[i].st = "new" /\ msg'[i] = [m EXCEPT !.st = "open"]
                       /\ \A j \in Ids \ {i} : msg'[j] = msg[j]
  BY Inserts
<1>2. \A v \in Writers : ~Writing(v)
  BY Inserts, FreeWrites
<1>3. \A j \in Ids : msg[j].st # "open"
  BY Inserts DEF Free
<1>4. msg'[i].st = "open" /\ msg'[i].root = m.root /\ msg'[i].ch = m.ch
  BY <1>1 DEF Msgs
<1>5. \A j \in Ids : Settled(j) => j # i /\ Settled(j)' /\ msg'[j].ch = msg[j].ch
  BY <1>1 DEF Settled
<1>6. \A v \in Writers : Writing(v)' => turn'[v] # turn[v]
  BY <1>2 DEF Writing
<1>7. ASSUME NEW v \in Writers PROVE Refers(turn[v])'
  <2>1. CASE turn'[v] = turn[v]
    <3>1. PICK s \in TurnStates : s = turn[v] /\ Refers(s)
      BY DEF ChatBase, TurnInv
    <3> QED BY <1>5, <2>1, <3>1, RefersOn
  <2>2. CASE turn'[v] # turn[v]
    BY <2>2
  <2> QED BY <2>1, <2>2
<1>8. ASSUME NEW v \in Writers, Writing(v)'
      PROVE  \E j \in Ids : msg'[j] = [Draft(v)' EXCEPT !.st = "open"]
  BY <1>1, <1>6, <1>8
<1>9. \A v, w \in Writers : Writing(v)' /\ Writing(w)' => v = w
  BY <1>6
<1>10. ASSUME NEW j \in Ids, msg'[j].root # 0
       PROVE  Settled(msg[j].root)' /\ msg'[msg'[j].root].ch = msg'[j].ch
  <2>1. CASE j = i
    <3>1. m.root \in Ids /\ Settled(m.root) /\ msg[m.root].ch = m.ch
      BY <1>4, <1>10, <2>1 DEF Msgs
    <3> QED BY <1>4, <1>5, <2>1, <3>1 DEF Settled
  <2>2. CASE j # i
    <3>1. msg'[j] = msg[j] /\ msg[j] \in Msgs
      BY <1>1, <2>2 DEF ChatBase
    <3>2. msg[j].root \in Ids /\ Settled(msg[j].root) /\ msg[msg[j].root].ch = msg[j].ch
      BY <1>10, <3>1 DEF TurnInv, Msgs
    <3> QED BY <1>5, <3>1, <3>2 DEF Settled
  <2> QED BY <2>1, <2>2
<1>11. \A j, k \in Ids : msg'[j].st = "open" /\ msg'[k].st = "open" => j = k
  BY <1>1, <1>3
<1> QED BY <1>7, <1>8, <1>9, <1>10, <1>11 DEF TurnInv

\* What was open is committed or rolled back, or what was committed deleted, and
\* nobody is left writing.
LEMMA TurnSettles ==
  ASSUME ChatBase, TurnInv, NEW S, NEW st \in {"kept", "gone", "void"}, Settle(S, st),
         \A i \in Ids : msg[i].st = "open" => i \in S,
         st = "void" => \A i \in Ids : i \in S => msg[i].st = "open",
         \A v \in Writers : ~Writing(v)' /\ (turn'[v] = turn[v] \/ Refers(turn[v])')
  PROVE  TurnInv'
<1>1. \A i \in Ids : /\ msg'[i].ch = msg[i].ch /\ msg'[i].root = msg[i].root
                     /\ msg'[i].st = IF i \in S THEN st ELSE msg[i].st
  BY Settles
<1>2. \A i \in Ids : msg'[i].st # "open"
  BY <1>1
<1>3. \A i \in Ids : Settled(i) => Settled(i)' /\ msg'[i].ch = msg[i].ch
  BY <1>1 DEF Settled
<1>4. ASSUME NEW v \in Writers PROVE Refers(turn[v])'
  <2>1. CASE turn'[v] = turn[v]
    <3>1. PICK s \in TurnStates : s = turn[v] /\ Refers(s)
      BY DEF ChatBase, TurnInv
    <3> QED BY <1>3, <2>1, <3>1, RefersOn
  <2>2. CASE turn'[v] # turn[v]
    BY <2>2
  <2> QED BY <2>1, <2>2
<1>5. ASSUME NEW j \in Ids, msg'[j].root # 0
      PROVE  Settled(msg[j].root)' /\ msg'[msg'[j].root].ch = msg'[j].ch
  <2>1. msg'[j].root = msg[j].root /\ msg'[j].ch = msg[j].ch /\ msg[j] \in Msgs
    BY <1>1 DEF ChatBase
  <2>2. msg[j].root \in Ids /\ Settled(msg[j].root) /\ msg[msg[j].root].ch = msg[j].ch
    BY <1>5, <2>1 DEF TurnInv, Msgs
  <2> QED BY <1>3, <2>1, <2>2 DEF Settled
<1> QED BY <1>2, <1>4, <1>5 DEF TurnInv

-----------------------------------------------------------------------------
\* The messages a deletion of an agent reads: the least set with what the agent
\* wrote and, with each message, the replies below it.

LEMMA DoomedIs ==
  ASSUME ChatBase, NEW a
  PROVE  /\ Doomed(a) \subseteq Kept
         /\ \A i \in Kept : msg[i].by = a \/ (msg[i].root # 0 /\ msg[i].root \in Doomed(a)) => i \in Doomed(a)
<1> DEFINE Under(i, T) == msg[i].by = a \/ (msg[i].root # 0 /\ msg[i].root \in T)
           Closed(T) == \A i \in Kept : Under(i, T) => i \in T
           Least == {i \in Kept : \A T \in SUBSET Kept : Closed(T) => i \in T}
           Below(f) == [i \in Ids |-> i \in Kept /\ (msg[i].by = a \/ (msg[i].root # 0 /\ f[msg[i].root]))]
           least == [i \in Ids |-> i \in Least]
<1>1. \A i \in Kept : msg[i].root \in Ids \union {0}
  BY DEF ChatBase, Msgs, Kept
<1>2. \A i \in Kept : Under(i, Least) => i \in Least
  OBVIOUS
<1>3. ASSUME NEW i \in Least PROVE i \in Kept /\ Under(i, Least)
  <2>1. SUFFICES ASSUME ~Under(i, Least) PROVE FALSE
    OBVIOUS
  <2>2. Least \ {i} \in SUBSET Kept
    OBVIOUS
  <2>3. Closed(Least \ {i})
    <3> SUFFICES ASSUME NEW j \in Kept, Under(j, Least \ {i}) PROVE j \in Least \ {i}
      OBVIOUS
    <3>1. Under(j, Least)
      OBVIOUS
    <3>2. j # i
      BY <2>1, <3>1
    <3> HIDE DEF Least
    <3> QED BY <1>2, <3>1, <3>2
  <2> QED BY <2>2, <2>3
<1> HIDE DEF Least
<1>4. \A i \in Ids : least[i] <=> i \in Kept /\ (msg[i].by = a \/ (msg[i].root # 0 /\ least[msg[i].root]))
  BY <1>1, <1>2, <1>3
<1>5. least = Below(least)
  <2>1. ASSUME NEW i \in Ids
        PROVE  least[i] = (i \in Kept /\ (msg[i].by = a \/ (msg[i].root # 0 /\ least[msg[i].root])))
    <3>1. CASE least[i]
      <4>1. least[i] = TRUE
        BY <3>1
      <4>2. (i \in Kept /\ (msg[i].by = a \/ (msg[i].root # 0 /\ least[msg[i].root]))) = TRUE
        BY <1>4, <3>1
      <4> QED BY <4>1, <4>2
    <3>2. CASE ~least[i]
      <4>1. least[i] = FALSE
        BY <3>2
      <4>2. (i \in Kept /\ (msg[i].by = a \/ (msg[i].root # 0 /\ least[msg[i].root]))) = FALSE
        BY <1>4, <3>2
      <4> QED BY <4>1, <4>2
    <3> QED BY <3>1, <3>2
  <2>2. least = [i \in Ids |-> least[i]]
    OBVIOUS
  <2> HIDE DEF least
  <2> QED BY <2>1, <2>2
<1> HIDE DEF least
<1>6. Doomed(a) = {i \in Ids : (CHOOSE f : f = Below(f))[i]}
  BY DEF Doomed
<1>7. PICK f : f = Below(f) /\ Doomed(a) = {i \in Ids : f[i]}
  BY <1>5, <1>6
<1>8. \A i \in Ids : f[i] <=> i \in Kept /\ (msg[i].by = a \/ (msg[i].root # 0 /\ f[msg[i].root]))
  BY <1>7
<1> QED BY <1>1, <1>7, <1>8 DEF Kept

-----------------------------------------------------------------------------
\* What the steps do to messages and turns, and to the types.

\* What goes wrong on the way: the socket is closed.
LEMMA Closed ==
  ASSUME ChatBase, NEW p \in Readers
  PROVE  /\ [page[p] EXCEPT !.on = FALSE, !.whole = FALSE] \in PageStates
         /\ Given([page[p] EXCEPT !.on = FALSE, !.whole = FALSE]) = Given(page[p])
         /\ [page[p] EXCEPT !.on = FALSE, !.whole = FALSE].whole = FALSE
         /\ [page[p] EXCEPT !.on = FALSE, !.whole = FALSE].ch = page[p].ch
BY DEF ChatBase, PageStates, Given

\* The pages: opened, joined, loaded, drawn and cut.
PageMoves(p) ==
  \/ \E c \in Channels : Visit(p, c)
  \/ Join(p) \/ Load(p) \/ Render(p) \/ Cut(p)

\* What such a step leaves of a page: nothing to be complete about, the history on top of
\* what it was given, or what it was given.
PageTo(old, s) ==
  /\ Given(s) \subseteq Given(old) \union History(old.ch)
  /\ s.whole /\ Begun(s) =>
       /\ s.ch = old.ch
       /\ \/ s.on /\ Given(s) = Given(old) \union History(old.ch)
          \/ old.whole /\ Begun(old) /\ s.on = old.on /\ Given(s) = Given(old)

LEMMA PageMoved ==
  ASSUME ChatBase, NEW p \in Readers, PageMoves(p)
  PROVE  /\ page' \in [Readers -> PageStates]
         /\ \A q \in Readers \ {p} : page'[q] = page[q]
         /\ UNCHANGED <<row, adm, msg, react, turn, doomed, stale>>
         /\ PageTo(page[p], page'[p])
<1>1. page[p] \in PageStates /\ History(page[p].ch) \subseteq Ids
  BY DEF ChatBase, History, Legible, Kept
<1>2. ASSUME NEW c \in Channels, Visit(p, c)
      PROVE  LET s == [NoPage EXCEPT !.ch = c, !.load = "no", !.whole = TRUE]
             IN  page' = [page EXCEPT ![p] = s] /\ s \in PageStates /\ PageTo(page[p], s)
  BY <1>2, ChatKinds DEF Visit, PageStates, NoPage, PageTo, Begun, Given
<1>3. ASSUME Join(p)
      PROVE  LET s == [page[p] EXCEPT !.on = TRUE, !.whole = @ /\ page[p].load = "no"]
             IN  page' = [page EXCEPT ![p] = s] /\ s \in PageStates /\ PageTo(page[p], s)
  BY <1>1, <1>3 DEF Join, PageStates, PageTo, Begun, Given
<1>4. ASSUME Load(p)
      PROVE  LET s == [page[p] EXCEPT !.load = "reading", !.rows = History(page[p].ch),
                                      !.whole = @ /\ page[p].on]
             IN  page' = [page EXCEPT ![p] = s] /\ s \in PageStates /\ PageTo(page[p], s)
  <2>1. PICK H : H = History(page[p].ch) /\ H \subseteq Ids
    BY <1>1
  <2>2. PICK s : s = [page[p] EXCEPT !.load = "reading", !.rows = H, !.whole = @ /\ page[p].on]
    OBVIOUS
  <2>3. /\ s \in PageStates /\ s.ch = page[p].ch /\ s.on = page[p].on /\ s.ids = page[p].ids
        /\ s.rows = H /\ (s.whole => s.on)
    BY <1>1, <2>1, <2>2 DEF PageStates
  <2>4. page[p].rows \subseteq H
    <3>1. page[p].rows = {}
      BY <1>1, <1>4 DEF Load, PageStates
    <3> QED BY <3>1
  <2>5. Given(s) = Given(page[p]) \union H
    BY <2>3, <2>4 DEF Given
  <2>6. PageTo(page[p], s)
    BY <2>1, <2>3, <2>5 DEF PageTo
  <2>7. page' = [page EXCEPT ![p] = s]
    BY <1>4, <2>1, <2>2 DEF Load
  <2> QED BY <2>1, <2>2, <2>3, <2>6, <2>7
<1>5. ASSUME Render(p)
      PROVE  LET s == [page[p] EXCEPT !.load = "shown", !.ids = @ \union page[p].rows, !.rows = {}]
             IN  page' = [page EXCEPT ![p] = s] /\ s \in PageStates /\ PageTo(page[p], s)
  BY <1>1, <1>5 DEF Render, PageStates, PageTo, Begun, Given
<1>6. ASSUME Cut(p)
      PROVE  LET s == [page[p] EXCEPT !.on = FALSE, !.whole = FALSE]
             IN  page' = [page EXCEPT ![p] = s] /\ s \in PageStates /\ PageTo(page[p], s)
  BY <1>1, <1>6 DEF Cut, PageStates, PageTo, Begun, Given
<1>7. PICK s \in PageStates : page' = [page EXCEPT ![p] = s] /\ PageTo(page[p], s)
  BY <1>2, <1>3, <1>4, <1>5, <1>6 DEF PageMoves
<1>8. UNCHANGED <<row, adm, msg, react, turn, doomed, stale>>
  BY DEF PageMoves, Visit, Join, Load, Render, Cut, others, mvars
<1> QED BY <1>7, <1>8 DEF ChatBase

LEMMA ChatBasePerson == ASSUME ChatBase, TurnInv, NEW p \in Readers, Person(p) PROVE ChatBase'
<1>p. p \in Writers /\ NoTurn \in TurnStates
  BY ChatKinds
<1>e. EndTurn(p) => turn' \in [Writers -> TurnStates]
  BY <1>p, Turned DEF EndTurn
<1>s. ASSUME NEW pc \in TurnPcs, Step(p, pc) PROVE turn' \in [Writers -> TurnStates]
  BY <1>p, <1>s, Turned, Stepped DEF Step
<1>o. ASSUME NEW pc \in TurnPcs, Writing(p), turn' = [turn EXCEPT ![p].pc = pc, ![p].id = Opened]
      PROVE  turn' \in [Writers -> TurnStates]
  <2>1. Opened \in Ids
    BY <1>p, <1>o, Writes
  <2>2. [[turn[p] EXCEPT !.pc = pc] EXCEPT !.id = Opened] \in TurnStates
    BY <1>p, <2>1 DEF ChatBase, TurnStates, TurnPcs
  <2>3. turn' = [turn EXCEPT ![p] = [[turn[p] EXCEPT !.pc = pc] EXCEPT !.id = Opened]]
    BY <1>o, <1>p DEF ChatBase
  <2> QED BY <1>p, <2>2, <2>3, Turned
<1>k. ASSUME Commit, Opened \in Ids PROVE msg' \in [Ids -> Msgs]
  BY <1>k, Settles DEF Commit
<1>1. CASE PageMoves(p)
  BY <1>1, PageMoved DEF ChatBase
<1>2. ASSUME NEW root \in Ids \union {0}, Say(p, root) PROVE ChatBase'
  <2>1. page[p].ch \in Channels
    BY DEF ChatBase, PageStates
  <2>2. [NoTurn EXCEPT !.pc = "say", !.ch = page[p].ch, !.root = root] \in TurnStates
    BY <1>p, <1>2, <2>1 DEF TurnStates
  <2> QED BY <1>2, <1>p, <2>2, Turned DEF Say, ChatBase
<1>3. CASE Post(p)
  BY <1>3, <1>p, <1>s, Drafts, Inserts DEF Post, ChatBase, TurnPcs
<1>4. CASE CommitPost(p)
  <2>1. Writing(p)
    BY <1>4 DEF CommitPost, At, Writing
  <2>2. Opened \in Ids
    BY <1>p, <2>1, Writes
  <2>3. turn' \in [Writers -> TurnStates]
    BY <1>4, <1>o, <2>1 DEF CommitPost, TurnPcs
  <2> QED BY <1>4, <1>k, <2>2, <2>3 DEF CommitPost, ChatBase
<1>5. CASE Echo(p)
  <2>1. turn[p].id \in Ids
    BY <1>5, <1>p DEF Echo, At, TurnInv, Refers
  <2>2. page' \in [Readers -> PageStates]
    BY <1>5, <2>1, Told DEF Echo
  <2>3. ASSUME NEW a \in Agents, turn' = [turn EXCEPT ![p].pc = "ask", ![p].agent = a]
        PROVE  turn' \in [Writers -> TurnStates]
    <3>1. [[turn[p] EXCEPT !.pc = "ask"] EXCEPT !.agent = a] \in TurnStates
      BY <1>p DEF ChatBase, TurnStates
    <3>2. turn' = [turn EXCEPT ![p] = [[turn[p] EXCEPT !.pc = "ask"] EXCEPT !.agent = a]]
      BY <1>p, <2>3 DEF ChatBase
    <3> QED BY <1>p, <3>1, <3>2, Turned
  <2> QED BY <1>5, <1>e, <2>2, <2>3 DEF Echo, ChatBase
<1>6. CASE Answer(p)
  BY <1>6, <1>p, <1>s, Drafts, Inserts DEF Answer, ChatBase, TurnPcs
<1>7. CASE Silence(p)
  BY <1>7, <1>e DEF Silence, ChatBase
<1>8. CASE CommitTurn(p)
  <2>1. Writing(p)
    BY <1>8 DEF CommitTurn, At, Writing
  <2>2. Opened \in Ids
    BY <1>p, <2>1, Writes
  <2>3. turn' \in [Writers -> TurnStates]
    BY <1>8, <1>o, <2>1 DEF CommitTurn, TurnPcs
  <2> QED BY <1>8, <1>k, <2>2, <2>3 DEF CommitTurn, ChatBase
<1>9. CASE Tell(p)
  <2>1. turn[p].id \in Ids
    BY <1>9, <1>p DEF Tell, At, TurnInv, Refers
  <2>2. page' \in [Readers -> PageStates]
    BY <1>9, <2>1, Told DEF Tell
  <2> QED BY <1>9, <1>e, <2>2 DEF Tell, ChatBase
<1>10. CASE Fail(p)
  <2>1. msg' \in [Ids -> Msgs]
    BY <1>10, Settles DEF Fail
  <2>2. page' = [page EXCEPT ![p] = [page[p] EXCEPT !.on = FALSE, !.whole = FALSE]]
    BY <1>10 DEF Fail, ChatBase
  <2>3. page' \in [Readers -> PageStates]
    BY <2>2, Closed DEF ChatBase
  <2> QED BY <1>10, <1>e, <2>1, <2>3 DEF Fail, ChatBase
<1>11. ASSUME NEW i \in Ids, React(p, i) PROVE ChatBase'
  <2>1. [NoTurn EXCEPT !.pc = "react", !.id = i] \in TurnStates
    BY <1>p, <1>11 DEF TurnStates
  <2> QED BY <1>11, <1>p, <2>1, Turned DEF React, ChatBase
<1>12. CASE Toggle(p)
  <2>1. turn[p].id \in Ids
    BY <1>12, <1>p DEF Toggle, At, TurnInv, Refers
  <2> QED BY <1>12, <1>e, <2>1 DEF Toggle, ChatBase
<1> QED BY <1>1, <1>2, <1>3, <1>4, <1>5, <1>6, <1>7, <1>8, <1>9, <1>10, <1>11, <1>12 DEF Person, PageMoves

LEMMA ChatBaseAgent == ASSUME ChatBase, TurnInv, NEW a \in Agents, Agent(a) PROVE ChatBase'
<1>p. a \in Writers /\ NoTurn \in TurnStates
  BY ChatKinds
<1>1. CASE Socket(a) /\ UNCHANGED cvars
  BY <1>1 DEF ChatBase, cvars
<1>2. ASSUME NEW c \in Channels, AgentPost(a, c) PROVE ChatBase'
  <2>1. [NoTurn EXCEPT !.pc = "say", !.ch = c] \in TurnStates
    BY <1>p, <1>2 DEF TurnStates
  <2> QED BY <1>2, <1>p, <2>1, Turned DEF AgentPost, ChatBase
<1>3. CASE AgentWrite(a)
  <2>1. turn' \in [Writers -> TurnStates]
    BY <1>3, <1>p, Turned, Stepped DEF AgentWrite, Step, TurnPcs
  <2> QED BY <1>3, <1>p, <2>1, Drafts, Inserts DEF AgentWrite, ChatBase
<1>4. CASE AgentCommit(a)
  <2>1. Writing(a)
    BY <1>4 DEF AgentCommit, At, Writing
  <2>2. Opened \in Ids
    BY <1>p, <2>1, Writes
  <2>3. msg' \in [Ids -> Msgs]
    BY <1>4, <2>2, Settles DEF AgentCommit, Commit
  <2>4. turn' \in [Writers -> TurnStates]
    BY <1>4, <1>p, Turned DEF AgentCommit, EndTurn
  <2> QED BY <1>4, <2>3, <2>4 DEF AgentCommit, ChatBase
<1> QED BY <1>1, <1>2, <1>3, <1>4 DEF Agent

LEMMA ChatBaseRequest == ASSUME ChatBase, NEW r \in Requests, Request(r) PROVE ChatBase'
<1>1. CASE Manage(r) /\ doomed' = [doomed EXCEPT ![r] = {}] /\ UNCHANGED <<msg, react, page, turn, stale>>
  BY <1>1 DEF ChatBase
<1>2. ASSUME NEW x, NEW who, StartDeleteAll(r, x, who) PROVE ChatBase'
  <2>1. Doomed(x) \in SUBSET Ids
    BY DEF Doomed
  <2> QED BY <1>2, <2>1 DEF StartDeleteAll, ReadDoomed, ChatBase
<1>3. CASE DeleteAll(r)
  <2>1. msg' \in [Ids -> Msgs]
    BY <1>3, Settles DEF DeleteAll
  <2> QED BY <1>3, <2>1 DEF DeleteAll, ChatBase
<1> QED BY <1>1, <1>2, <1>3 DEF Request

LEMMA Announcement ==
  /\ [NoMsg EXCEPT !.via = "card"] \in Msgs /\ [NoMsg EXCEPT !.via = "card"].via = "card"
  /\ [NoMsg EXCEPT !.via = "card"].root = 0
BY ChatKinds DEF Msgs, NoMsg

\* The row that is announced is the one inserted.
LEMMA Announces ==
  ASSUME ChatBase, Announce
  PROVE  \E i \in Ids : /\ msg[i].st = "new" /\ msg'[i] = [[NoMsg EXCEPT !.via = "card"] EXCEPT !.st = "open"]
                        /\ \A j \in Ids \ {i} : msg'[j] = msg[j]
                        /\ Broadcast(Home, i)
<1> DEFINE m == [NoMsg EXCEPT !.via = "card"]
<1>1. m \in Msgs /\ Insert(m)
  BY Announcement DEF Announce
<1>2. PICK i \in Ids : /\ msg[i].st = "new" /\ msg'[i] = [m EXCEPT !.st = "open"]
                       /\ \A j \in Ids \ {i} : msg'[j] = msg[j]
  BY <1>1, Inserts
<1>3. msg'[i].st = "open"
  BY <1>1, <1>2 DEF Msgs
<1>4. \A j \in Ids : msg[j].st = "new" /\ msg'[j].st = "open" <=> j = i
  BY <1>2, <1>3
<1>5. (CHOOSE j \in Ids : msg[j].st = "new" /\ msg'[j].st = "open") = i
  BY <1>4
<1> QED BY <1>2, <1>5 DEF Announce

\* What is announced is no turn's.
LEMMA AnnounceOpen ==
  ASSUME ChatBase, TurnInv, AnnounceEnd
  PROVE  /\ Opened \in Ids /\ msg[Opened].st = "open" /\ msg[Opened].via = "card"
         /\ \A j \in Ids : msg[j].st = "open" <=> j = Opened
         /\ \A w \in Writers : ~Writing(w)
<1>1. PICK i \in Ids : msg[i].st = "open"
  BY DEF AnnounceEnd, Free
<1>2. Opened = i /\ \A j \in Ids : msg[j].st = "open" <=> j = i
  BY <1>1, OneOpen
<1>3. msg[Opened].via = "card"
  BY DEF AnnounceEnd
<1>4. \A w \in Writers : ~Writing(w)
  BY <1>3, Writes
<1> QED BY <1>1, <1>2, <1>3, <1>4

LEMMA ChatBaseServer ==
  ASSUME ChatBase, TurnInv, Announce \/ AnnounceEnd \/ Restart
  PROVE  ChatBase'
<1>1. CASE Announce
  <2>1. msg' \in [Ids -> Msgs]
    BY <1>1, Announcement, Inserts DEF Announce
  <2>2. page' \in [Readers -> PageStates]
    BY <1>1, Announces, Told
  <2> QED BY <1>1, <2>1, <2>2 DEF Announce, ChatBase
<1>2. CASE AnnounceEnd
  <2>1. msg' \in [Ids -> Msgs]
    BY <1>2, Settles DEF AnnounceEnd, Commit
  <2> QED BY <1>2, <2>1 DEF AnnounceEnd, ChatBase
<1>3. CASE Restart
  <2>1. msg' \in [Ids -> Msgs]
    BY <1>3, Settles DEF Restart
  <2>2. page' \in [Readers -> PageStates]
    <3> DEFINE n(p) == [page[p] EXCEPT !.on = FALSE, !.whole = FALSE]
    <3>1. \A p \in Readers : n(p) \in PageStates
      BY Closed
    <3>2. page' = [p \in Readers |-> n(p)]
      BY <1>3 DEF Restart
    <3> HIDE DEF n
    <3> QED BY <3>1, <3>2
  <2> QED BY <1>3, <2>1, <2>2, ChatKinds DEF Restart, ChatBase
<1> QED BY <1>1, <1>2, <1>3

LEMMA ChatInit == ASSUME Init PROVE ChatBase /\ TurnInv /\ KeptInv /\ PageInv /\ Complete
<1>1. ChatBase
  BY ChatKinds DEF Init, ChatBase
<1>2. /\ \A i \in Ids : msg[i].st = "new" /\ msg[i].root = 0
      /\ \A w \in Writers : turn[w].pc = "idle" /\ turn[w].root = 0
      /\ \A p \in Readers : Given(page[p]) = {} /\ ~page[p].whole
  BY DEF Init, NoMsg, NoTurn, NoPage, Given
<1>3. TurnInv
  BY <1>2 DEF TurnInv, Refers, Writing
<1>4. Kept = {} /\ react = {} /\ \A r \in Requests : doomed[r] = {}
  BY <1>2 DEF Init, Kept
<1> QED BY <1>1, <1>2, <1>3, <1>4 DEF KeptInv, PageInv, Complete

-----------------------------------------------------------------------------
\* The turns and what they write.

LEMMA Insertion ==
  ASSUME ChatBase, NEW m \in Msgs, Insert(m)
  PROVE  \A i \in Ids : Settled(i) => Settled(i)' /\ msg'[i].ch = msg[i].ch
<1>1. PICK i \in Ids : /\ msg[i].st = "new"
                       /\ \A j \in Ids \ {i} : msg'[j] = msg[j]
  BY Inserts
<1> QED BY <1>1 DEF Settled

LEMMA TurnSame == ASSUME TurnInv, UNCHANGED <<msg, turn>> PROVE TurnInv'
<1>1. \A v \in Writers : (Writing(v)' <=> Writing(v)) /\ Refers(turn[v])'
  BY DEF TurnInv, Writing, Refers, Settled
<1>2. ASSUME NEW v \in Writers, Writing(v)'
      PROVE  \E i \in Ids : msg'[i] = [Draft(v)' EXCEPT !.st = "open"]
  BY <1>1, <1>2, DraftOn DEF TurnInv
<1>3. \A v, w \in Writers : Writing(v)' /\ Writing(w)' => v = w
  BY <1>1 DEF TurnInv
<1>4. /\ \A i, j \in Ids : msg'[i].st = "open" /\ msg'[j].st = "open" => i = j
      /\ \A i \in Ids : msg'[i].root # 0 => Settled(msg[i].root)' /\ msg'[msg'[i].root].ch = msg'[i].ch
  BY DEF TurnInv, Settled
<1> QED BY <1>1, <1>2, <1>3, <1>4 DEF TurnInv

LEMMA NoRefers == NoTurn \in TurnStates /\ NoTurn.pc = "idle" /\ Refers(NoTurn)
BY ChatKinds DEF NoTurn, Refers

LEMMA TurnEnds ==
  ASSUME ChatBase, TurnInv, NEW w \in Writers, EndTurn(w), msg' = msg
  PROVE  TurnInv'
BY NoRefers, TurnTalks DEF EndTurn

\* What a writer says, of a thread that is in the channel.
LEMMA TurnSays ==
  ASSUME ChatBase, TurnInv, NEW w \in Writers, At(w, "say"), Insert(Saying(w)), Step(w, "open")
  PROVE  TurnInv'
<1>s. PICK s : s = [turn[w] EXCEPT !.pc = "open"]
  OBVIOUS
<1>1. /\ s \in TurnStates /\ s.pc = "open" /\ s.ch = turn[w].ch /\ s.root = turn[w].root
      /\ turn' = [turn EXCEPT ![w] = s]
  BY <1>s, Stepped DEF Step, TurnPcs
<1>2. turn'[w] = s /\ \A v \in Writers \ {w} : turn'[v] = turn[v]
  BY <1>1, Turned
<1>3. Refers(turn[w]) /\ Refers(s)
  BY <1>1 DEF TurnInv, Refers
<1>4. Refers(s)'
  <2>1. \A i \in Ids : Settled(i) => Settled(i)' /\ msg'[i].ch = msg[i].ch
    BY Drafts, Insertion
  <2> QED BY <1>1, <1>3, <2>1, RefersOn
<1>5. Writing(w)' /\ Draft(w)' = Saying(w)
  BY <1>1, <1>2 DEF Writing, Draft, At, Saying
<1>6. ASSUME NEW v \in Writers, turn'[v] # turn[v]
      PROVE  Writing(v)' /\ Draft(v)' = Saying(w) /\ Refers(turn[v])'
  <2>1. v = w
    BY <1>2, <1>6
  <2>2. Refers(turn[w])'
    BY <1>2, <1>4 DEF Refers, Settled
  <2> QED BY <1>5, <2>1, <2>2
<1>7. Saying(w) \in Msgs /\ (Saying(w).root # 0 => Settled(Saying(w).root) /\ msg[Saying(w).root].ch = Saying(w).ch)
  BY <1>3, Drafts DEF Refers
<1>8. \A u, v \in Writers : turn'[u] # turn[u] /\ turn'[v] # turn[v] => u = v
  BY <1>2
<1> QED BY <1>6, <1>7, <1>8, TurnInserts

LEMMA TurnAnswers ==
  ASSUME ChatBase, TurnInv, NEW w \in Writers, At(w, "ask"), Insert(Answering(w)), Step(w, "reply")
  PROVE  TurnInv'
<1>s. PICK s : s = [turn[w] EXCEPT !.pc = "reply"]
  OBVIOUS
<1>1. /\ s \in TurnStates /\ s.pc = "reply" /\ s.ch = turn[w].ch /\ s.root = turn[w].root
      /\ s.id = turn[w].id /\ s.agent = turn[w].agent
      /\ turn' = [turn EXCEPT ![w] = s]
  BY <1>s, Stepped DEF Step, TurnPcs
<1>2. turn'[w] = s /\ \A v \in Writers \ {w} : turn'[v] = turn[v]
  BY <1>1, Turned
<1>3. Refers(turn[w]) /\ Refers(s)
  BY <1>1 DEF TurnInv, Refers, At
<1>4. Refers(s)'
  <2>1. \A i \in Ids : Settled(i) => Settled(i)' /\ msg'[i].ch = msg[i].ch
    BY Drafts, Insertion
  <2> QED BY <1>1, <1>3, <2>1, RefersOn
<1>5. Writing(w)' /\ Draft(w)' = Answering(w)
  BY <1>1, <1>2 DEF Writing, Draft, At, Answering
<1>6. ASSUME NEW v \in Writers, turn'[v] # turn[v]
      PROVE  Writing(v)' /\ Draft(v)' = Answering(w) /\ Refers(turn[v])'
  <2>1. v = w
    BY <1>2, <1>6
  <2>2. Refers(turn[w])'
    BY <1>2, <1>4 DEF Refers, Settled
  <2> QED BY <1>5, <2>1, <2>2
<1>7. /\ Answering(w) \in Msgs
      /\ Answering(w).root # 0 => Settled(Answering(w).root) /\ msg[Answering(w).root].ch = Answering(w).ch
  <2>1. turn[w].id \in Ids /\ Settled(turn[w].id) /\ msg[turn[w].id].ch = turn[w].ch
    BY <1>3 DEF Refers, At
  <2> QED BY <1>3, <2>1, Drafts DEF Refers
<1>8. \A u, v \in Writers : turn'[u] # turn[u] /\ turn'[v] # turn[v] => u = v
  BY <1>2
<1> QED BY <1>6, <1>7, <1>8, TurnInserts

\* It is committed, or rolled back.
LEMMA TurnCommits ==
  ASSUME ChatBase, TurnInv, NEW w \in Writers, Writing(w), NEW st \in {"kept", "void"},
         Settle({Opened}, st), NEW s \in TurnStates, turn' = [turn EXCEPT ![w] = s],
         \/ s = NoTurn
         \/ /\ st = "kept" /\ s.pc \in {"echo", "tell"} /\ s.id = Opened
            /\ s.ch = turn[w].ch /\ s.root = turn[w].root
  PROVE  TurnInv'
<1>1. turn'[w] = s /\ \A v \in Writers \ {w} : turn'[v] = turn[v]
  BY Turned
<1>2. /\ Opened \in Ids /\ msg[Opened].st = "open" /\ msg[Opened].ch = turn[w].ch
      /\ \A j \in Ids : msg[j].st = "open" <=> j = Opened
      /\ \A v \in Writers \ {w} : ~Writing(v)
  BY Writes
<1>3. \A v \in Writers : ~Writing(v)'
  BY <1>1, <1>2, NoRefers DEF Writing
<1>4. /\ \A i \in Ids : msg'[i].ch = msg[i].ch /\ (Settled(i) => Settled(i)')
      /\ msg'[Opened].st = st
  BY <1>2, Settles DEF Settled
<1>5. Refers(s)'
  <2>1. CASE s = NoTurn
    BY <2>1, NoRefers DEF NoTurn, Refers
  <2>2. CASE st = "kept" /\ s.pc \in {"echo", "tell"} /\ s.id = Opened /\ s.ch = turn[w].ch
             /\ s.root = turn[w].root
    <3>1. Settled(s.id)' /\ msg'[s.id].ch = s.ch /\ s.id \in Ids
      BY <1>2, <1>4, <2>2 DEF Settled
    <3>2. s.root # 0 => Settled(s.root)' /\ msg'[s.root].ch = s.ch
      BY <1>4, <2>2 DEF TurnInv, Refers, TurnStates
    <3> QED BY <2>2, <3>1, <3>2 DEF Refers
  <2> QED BY <2>1, <2>2
<1>6. \A v \in Writers : ~Writing(v)' /\ (turn'[v] = turn[v] \/ Refers(turn[v])')
  BY <1>1, <1>3, <1>5
<1> QED BY <1>2, <1>6, TurnSettles

LEMMA NothingSettled == ASSUME ChatBase, NEW st, Settle({}, st) PROVE msg' = msg
BY DEF Settle, ChatBase

LEMMA TurnStepPerson == ASSUME ChatBase, TurnInv, NEW p \in Readers, Person(p) PROVE TurnInv'
<1>p. p \in Writers
  BY ChatKinds
<1>o. ASSUME NEW pc \in {"echo", "tell"}, Writing(p), Settle({Opened}, "kept"),
             turn' = [turn EXCEPT ![p].pc = pc, ![p].id = Opened]
      PROVE  TurnInv'
  <2> DEFINE s == [[turn[p] EXCEPT !.pc = pc] EXCEPT !.id = Opened]
  <2>1. Opened \in Ids
    BY <1>p, <1>o, Writes
  <2>2. /\ s \in TurnStates /\ s.pc = pc /\ s.id = Opened /\ s.ch = turn[p].ch /\ s.root = turn[p].root
        /\ turn' = [turn EXCEPT ![p] = s]
    BY <1>p, <1>o, <2>1 DEF ChatBase, TurnStates
  <2> HIDE DEF s
  <2> QED BY <1>p, <1>o, <2>2, TurnCommits
<1>1. CASE PageMoves(p)
  BY <1>1, PageMoved, TurnSame
<1>2. ASSUME NEW root \in Ids \union {0}, Say(p, root) PROVE TurnInv'
  <2>1. page[p].ch \in Channels
    BY DEF ChatBase, PageStates
  <2>2. PICK s : s = [NoTurn EXCEPT !.pc = "say", !.ch = page[p].ch, !.root = root]
    OBVIOUS
  <2>3. s \in TurnStates /\ s.pc = "say" /\ s.ch = page[p].ch /\ s.root = root
    BY <2>1, <2>2, NoRefers DEF TurnStates
  <2>4. root # 0 => Settled(root) /\ msg[root].ch = page[p].ch
    BY <1>2 DEF Say, Legible, Kept, Settled
  <2>5. Refers(s)
    BY <2>3, <2>4 DEF Refers
  <2>6. turn' = [turn EXCEPT ![p] = s] /\ msg' = msg
    BY <1>2, <2>2 DEF Say
  <2> QED BY <1>p, <2>3, <2>5, <2>6, TurnTalks
<1>3. CASE Post(p)
  BY <1>3, <1>p, TurnSays DEF Post
<1>4. CASE CommitPost(p)
  BY <1>4, <1>o DEF CommitPost, Commit, At, Writing
<1>5. CASE Echo(p)
  <2>1. ASSUME NEW a \in Agents, turn' = [turn EXCEPT ![p].pc = "ask", ![p].agent = a]
        PROVE  TurnInv'
    <3> DEFINE s == [[turn[p] EXCEPT !.pc = "ask"] EXCEPT !.agent = a]
    <3>1. /\ s \in TurnStates /\ s.pc = "ask" /\ s.agent = a /\ s.ch = turn[p].ch
          /\ s.root = turn[p].root /\ s.id = turn[p].id /\ turn' = [turn EXCEPT ![p] = s]
      BY <1>p, <2>1 DEF ChatBase, TurnStates
    <3> HIDE DEF s
    <3>2. turn[p].pc = "echo" /\ Refers(turn[p]) /\ msg' = msg
      BY <1>5, <1>p DEF Echo, At, TurnInv
    <3>3. Refers(s)
      BY <3>1, <3>2 DEF Refers
    <3> QED BY <1>p, <3>1, <3>2, <3>3, TurnTalks
  <2> QED BY <1>5, <1>p, <2>1, TurnEnds DEF Echo
<1>6. CASE Answer(p)
  BY <1>6, <1>p, TurnAnswers DEF Answer
<1>7. CASE Silence(p)
  BY <1>7, <1>p, TurnEnds DEF Silence
<1>8. CASE CommitTurn(p)
  BY <1>8, <1>o DEF CommitTurn, Commit, At, Writing
<1>9. CASE Tell(p)
  BY <1>9, <1>p, TurnEnds DEF Tell
<1>10. CASE Fail(p)
  <2>1. CASE Writing(p)
    BY <1>10, <1>p, <2>1, NoRefers, TurnCommits DEF Fail, Writing, EndTurn
  <2>2. CASE ~Writing(p)
    BY <1>10, <1>p, <2>2, NothingSettled, TurnEnds DEF Fail, Writing
  <2> QED BY <2>1, <2>2
<1>11. ASSUME NEW i \in Ids, React(p, i) PROVE TurnInv'
  <2>1. PICK s : s = [NoTurn EXCEPT !.pc = "react", !.id = i]
    OBVIOUS
  <2>2. s \in TurnStates /\ s.pc = "react" /\ s.id = i /\ s.root = NoTurn.root
    BY <2>1, NoRefers DEF TurnStates
  <2>3. Refers(s)
    BY <2>2 DEF Refers, NoTurn
  <2>4. turn' = [turn EXCEPT ![p] = s] /\ msg' = msg
    BY <1>11, <2>1 DEF React
  <2> QED BY <1>p, <2>2, <2>3, <2>4, TurnTalks
<1>12. CASE Toggle(p)
  BY <1>12, <1>p, TurnEnds DEF Toggle
<1> QED BY <1>1, <1>2, <1>3, <1>4, <1>5, <1>6, <1>7, <1>8, <1>9, <1>10, <1>11, <1>12 DEF Person, PageMoves

LEMMA TurnStepOthers ==
  ASSUME ChatBase, TurnInv,
         (\E a \in Agents : Agent(a)) \/ (\E r \in Requests : Request(r)) \/ Announce \/ AnnounceEnd \/ Restart
  PROVE  TurnInv'
<1>1. ASSUME NEW a \in Agents, Agent(a) PROVE TurnInv'
  <2>p. a \in Writers
    BY ChatKinds
  <2>1. CASE Socket(a) /\ UNCHANGED cvars
    BY <2>1, TurnSame DEF cvars
  <2>2. ASSUME NEW c \in Channels, AgentPost(a, c) PROVE TurnInv'
    <3>1. PICK s : s = [NoTurn EXCEPT !.pc = "say", !.ch = c]
      OBVIOUS
    <3>2. s \in TurnStates /\ s.pc = "say" /\ s.root = NoTurn.root
      BY <3>1, NoRefers DEF TurnStates
    <3>3. Refers(s)
      BY <3>2 DEF Refers, NoTurn
    <3>4. turn' = [turn EXCEPT ![a] = s] /\ msg' = msg
      BY <2>2, <3>1 DEF AgentPost
    <3> QED BY <2>p, <3>2, <3>3, <3>4, TurnTalks
  <2>3. CASE AgentWrite(a)
    BY <2>3, <2>p, TurnSays DEF AgentWrite
  <2>4. CASE AgentCommit(a)
    BY <2>4, <2>p, NoRefers, TurnCommits DEF AgentCommit, Commit, EndTurn, At, Writing
  <2> QED BY <1>1, <2>1, <2>2, <2>3, <2>4 DEF Agent
<1>2. ASSUME NEW r \in Requests, Request(r) PROVE TurnInv'
  <2>1. CASE UNCHANGED <<msg, turn>>
    BY <2>1, TurnSame
  <2>2. CASE DeleteAll(r)
    <3>1. \A i \in Ids : msg[i].st # "open"
      BY <2>2 DEF DeleteAll, Free
    <3>2. turn' = turn /\ \A v \in Writers : ~Writing(v)
      BY <2>2, FreeWrites DEF DeleteAll
    <3>3. \A v \in Writers : ~Writing(v)' /\ turn'[v] = turn[v]
      BY <3>2 DEF Writing
    <3> QED BY <2>2, <3>1, <3>3, TurnSettles DEF DeleteAll
  <2> QED BY <1>2, <2>1, <2>2 DEF Request, StartDeleteAll
<1>3. CASE Announce
  BY <1>3, Announcement, TurnInserts DEF Announce
<1>4. CASE AnnounceEnd
  <2>1. PICK st \in {"kept", "void"} : Settle({Opened}, st) /\ turn' = turn
    BY <1>4 DEF AnnounceEnd, Commit
  <2>2. \A v \in Writers : ~Writing(v)' /\ turn'[v] = turn[v]
    BY <1>4, <2>1, AnnounceOpen DEF Writing
  <2> QED BY <1>4, <2>1, <2>2, AnnounceOpen, TurnSettles
<1>5. CASE Restart
  <2>1. \A v \in Writers : turn'[v] = NoTurn
    BY <1>5 DEF Restart
  <2>2. ASSUME NEW v \in Writers PROVE ~Writing(v)' /\ Refers(turn[v])'
    <3>1. turn'[v].pc = "idle" /\ turn'[v].root = 0
      BY <2>1 DEF NoTurn
    <3> QED BY <3>1 DEF Writing, Refers
  <2>3. PICK S : S = {i \in Ids : msg[i].st = "open"}
    OBVIOUS
  <2>4. Settle(S, "void")
    BY <1>5, <2>3 DEF Restart
  <2>5. (\A i \in Ids : msg[i].st = "open" => i \in S) /\ (\A i \in Ids : i \in S => msg[i].st = "open")
    BY <2>3
  <2> QED BY <2>2, <2>4, <2>5, TurnSettles
<1> QED BY <1>1, <1>2, <1>3, <1>4, <1>5

-----------------------------------------------------------------------------
\* What was kept, and what a deletion takes.

\* What is in a row stays in it, and what was committed stays committed.
Onward ==
  \A i \in Ids : /\ Settled(i) => Settled(i)'
                 /\ msg[i].st # "new" =>
                      /\ msg'[i].st # "new" /\ msg'[i].by = msg[i].by /\ msg'[i].ch = msg[i].ch
                      /\ msg'[i].root = msg[i].root /\ msg'[i].via = msg[i].via

LEMMA SameOn == ASSUME msg' = msg PROVE Onward /\ \A i \in Ids : i \in Kept' <=> i \in Kept
BY DEF Onward, Settled, Kept

LEMMA InsertOn ==
  ASSUME ChatBase, NEW m \in Msgs, Insert(m)
  PROVE  Onward /\ \A i \in Ids : i \in Kept' <=> i \in Kept
<1>1. PICK i \in Ids : /\ msg[i].st = "new" /\ msg'[i] = [m EXCEPT !.st = "open"]
                       /\ \A j \in Ids \ {i} : msg'[j] = msg[j]
  BY Inserts
<1>2. msg'[i].st = "open"
  BY <1>1 DEF Msgs
<1> QED BY <1>1, <1>2 DEF Onward, Settled, Kept

LEMMA VoidOn ==
  ASSUME ChatBase, NEW S, Settle(S, "void"), \A i \in Ids : i \in S => msg[i].st = "open"
  PROVE  Onward /\ \A i \in Ids : i \in Kept' <=> i \in Kept
<1>1. \A i \in Ids : /\ msg'[i].by = msg[i].by /\ msg'[i].ch = msg[i].ch
                     /\ msg'[i].root = msg[i].root /\ msg'[i].via = msg[i].via
                     /\ msg'[i].st = IF i \in S THEN "void" ELSE msg[i].st
  BY Settles
<1> QED BY <1>1 DEF Onward, Settled, Kept

LEMMA SettleOn ==
  ASSUME ChatBase, NEW S, NEW st \in {"kept", "gone"}, Settle(S, st)
  PROVE  /\ Onward
         /\ \A i \in Ids : i \in Kept' <=> IF i \in S THEN st = "kept" ELSE i \in Kept
         /\ \A i \in Ids : /\ msg'[i].by = msg[i].by /\ msg'[i].ch = msg[i].ch
                           /\ msg'[i].root = msg[i].root /\ msg'[i].via = msg[i].via
<1>1. \A i \in Ids : /\ msg'[i].by = msg[i].by /\ msg'[i].ch = msg[i].ch
                     /\ msg'[i].root = msg[i].root /\ msg'[i].via = msg[i].via
                     /\ msg'[i].st = IF i \in S THEN st ELSE msg[i].st
  BY Settles
<1> QED BY <1>1 DEF Onward, Settled, Kept

\* A deletion of an agent that has listed no channel has read what it will delete.
Reading(r) == adm[r].pc = "delete" /\ adm[r].at \in Agents /\ adm[r].list = {}

\* Nothing is kept that was not, nothing deleted, and no deletion begins.
LEMMA KeptOn ==
  ASSUME ChatBase, KeptInv, Onward, \A i \in Ids : i \in Kept' <=> i \in Kept,
         \A i \in Kept : Exists(msg[i].ch) /\ Author(msg[i]) => Exists(msg[i].ch)' /\ (msg[i].by \in Agents => Exists(msg[i].by)'),
         \A r \in Requests : Reading(r)' => Reading(r) /\ adm'[r] = adm[r] /\ doomed'[r] = doomed[r],
         \A r \in Requests : doomed'[r] \subseteq doomed[r],
         UNCHANGED <<react, stale>>
  PROVE  KeptInv'
<1>1. ASSUME NEW i \in Ids, i \in Kept', <<i>> \notin stale'
      PROVE  /\ Exists(msg[i].ch)' /\ Author(msg[i])'
             /\ msg'[i].root # 0 => msg'[i].root \in Kept'
             /\ \A r \in Requests : Reading(r)' =>
                  (msg'[i].by = adm'[r].at \/ msg'[i].root \in doomed'[r] => i \in doomed'[r])
  <2>1. i \in Ids /\ i \in Kept /\ <<i>> \notin stale
    BY <1>1 DEF Kept
  <2>2. msg'[i].by = msg[i].by /\ msg'[i].ch = msg[i].ch /\ msg'[i].root = msg[i].root
    BY <2>1 DEF Onward, Kept
  <2>3. Exists(msg[i].ch) /\ Author(msg[i]) /\ (msg[i].root # 0 => msg[i].root \in Kept)
    BY <2>1 DEF KeptInv
  <2>4. \A r \in Requests : Reading(r) => (msg[i].by = adm[r].at \/ msg[i].root \in doomed[r] => i \in doomed[r])
    BY <2>1 DEF KeptInv, Reading
  <2>5. Exists(msg[i].ch)' /\ (msg[i].by \in Agents => Exists(msg[i].by)')
    BY <2>1, <2>3
  <2>6. msg[i].root # 0 => msg[i].root \in Kept'
    BY <2>3 DEF Kept
  <2>7. PICK b, c : b = msg[i].by /\ c = msg[i].ch
    OBVIOUS
  <2> QED BY <2>2, <2>4, <2>5, <2>6, <2>7 DEF Author, Exists
<1>2. ASSUME NEW r \in Requests, NEW i \in Ids, i \in doomed'[r] PROVE Settled(i)'
  <2>1. i \in Ids /\ Settled(i)
    BY <1>2 DEF KeptInv, ChatBase
  <2> QED BY <2>1 DEF Onward
<1>3. \A ip \in react' : ip[1] \in Kept' \/ ip \in stale'
  BY DEF KeptInv, Kept
<1>4. Kept' \subseteq Ids /\ \A r \in Requests : doomed'[r] \subseteq Ids
  BY DEF Kept, ChatBase
<1> QED BY <1>1, <1>2, <1>3, <1>4 DEF KeptInv, Reading

\* The usual case: of the rows and requests nothing changes.
LEMMA KeptSame ==
  ASSUME ChatBase, KeptInv, Onward, \A i \in Ids : i \in Kept' <=> i \in Kept,
         UNCHANGED <<row, adm, doomed, react, stale>>
  PROVE  KeptInv'
<1>1. \A x : Exists(x)' <=> Exists(x)
  BY DEF Exists
<1>2. ASSUME NEW i \in Kept, Author(msg[i])
      PROVE  Exists(msg[i].ch) => Exists(msg[i].ch)' /\ (msg[i].by \in Agents => Exists(msg[i].by)')
  <2>1. i \in Ids /\ msg[i].st # "new"
    BY DEF Kept
  <2>2. msg'[i].ch = msg[i].ch /\ msg'[i].by = msg[i].by
    BY <2>1 DEF Onward
  <2> QED BY <1>2, <2>2 DEF Author, Exists
<1>3. \A r \in Requests : Reading(r)' => Reading(r) /\ adm'[r] = adm[r] /\ doomed'[r] = doomed[r]
  BY DEF Reading
<1> QED BY <1>2, <1>3, KeptOn

LEMMA KeptCommit ==
  ASSUME ChatBase, KeptInv, Opened \in Ids, msg[Opened].st = "open", Commit,
         UNCHANGED <<row, adm, doomed, react>>
  PROVE  KeptInv'
<1>0. PICK o : o = Opened
  OBVIOUS
<1>1. /\ o \in Ids /\ Onward
      /\ \A i \in Ids : i \in Kept' <=> (i = o \/ i \in Kept)
      /\ \A i \in Ids : /\ msg'[i].by = msg[i].by /\ msg'[i].ch = msg[i].ch
                        /\ msg'[i].root = msg[i].root
  <2>1. Settle({o}, "kept")
    BY <1>0 DEF Commit
  <2> QED BY <1>0, <2>1, SettleOn
<1>2. stale \subseteq stale' /\ (<<o>> \notin stale' => ~Overtaken(msg[o]))
  BY <1>0 DEF Commit
<1>3. \A x : Exists(x)' <=> Exists(x)
  BY DEF Exists
<1>4. ASSUME NEW i \in Ids, i \in Kept', <<i>> \notin stale'
      PROVE  /\ Exists(msg[i].ch)' /\ Author(msg[i])'
             /\ msg'[i].root # 0 => msg'[i].root \in Kept'
             /\ \A r \in Requests : Reading(r)' =>
                  (msg'[i].by = adm'[r].at \/ msg'[i].root \in doomed'[r] => i \in doomed'[r])
  <2>1. i \in Ids /\ <<i>> \notin stale
    BY <1>2, <1>4 DEF Kept
  <2>2. /\ Exists(msg[i].ch) /\ Author(msg[i])
        /\ msg[i].root # 0 => msg[i].root \in Kept
        /\ \A r \in Requests : Reading(r) => (msg[i].by = adm[r].at \/ msg[i].root \in doomed[r] => i \in doomed[r])
    <3>1. CASE i \in Kept
      BY <2>1, <3>1 DEF KeptInv, Reading
    <3>2. CASE i = o
      BY <1>2, <1>4, <3>2 DEF Overtaken, Reading
    <3> QED BY <1>1, <1>4, <2>1, <3>1, <3>2
  <2>3. msg'[i].by = msg[i].by /\ msg'[i].ch = msg[i].ch /\ msg'[i].root = msg[i].root
    BY <1>1, <2>1
  <2>4. \A j \in Kept : j \in Kept'
    BY <1>1 DEF Kept
  <2> QED BY <2>2, <2>3, <2>4 DEF Author, Exists, Reading
<1>5. ASSUME NEW r \in Requests, NEW i \in Ids, i \in doomed'[r] PROVE Settled(i)'
  <2>1. i \in Ids /\ Settled(i)
    BY <1>5 DEF KeptInv, ChatBase
  <2> QED BY <1>1, <2>1 DEF Onward
<1>6. \A ip \in react' : ip[1] \in Kept' \/ ip \in stale'
  BY <1>1, <1>2 DEF KeptInv, Kept
<1>7. Kept' \subseteq Ids /\ \A r \in Requests : doomed'[r] \subseteq Ids
  BY DEF Kept, ChatBase
<1> QED BY <1>4, <1>5, <1>6, <1>7 DEF KeptInv, Reading

\* A management request ends nothing: what exists goes on to, and it deletes nothing.
LEMMA ManageKeeps ==
  ASSUME MembersBase, NEW r \in Requests, Manage(r)
  PROVE  /\ \A x \in Entities : Exists(x) => Exists(x)'
         /\ \A q \in Requests : adm'[q].pc = "delete" => q # r /\ adm'[q] = adm[q]
<1>g. ASSUME NEW s \in AdminStates, Goto(r, s), s.pc # "delete"
      PROVE  \A q \in Requests : adm'[q].pc = "delete" => q # r /\ adm'[q] = adm[q]
  BY <1>g, AdmStep
<1>l. ASSUME NEW x \in Entities, NEW st \in {"live", "archived"}, row' = [row EXCEPT ![x] = st]
      PROVE  \A y \in Entities : Exists(y) => Exists(y)'
  BY <1>l DEF Exists, MembersBase, Rows
<1>i. ASSUME adm' = adm, adm[r].pc = "idle"
      PROVE  \A q \in Requests : adm'[q].pc = "delete" => q # r /\ adm'[q] = adm[q]
  BY <1>i
<1>1. CASE Reads(r)
  BY <1>1, <1>g DEF Reads, Exists
<1>2. CASE Enlivens(r)
  BY <1>2, <1>i, <1>l DEF Enlivens
<1>3. CASE Leaves(r)
  BY <1>3, <1>i DEF Leaves, Exists
<1>4. CASE Hangs(r)
  <2>1. PICK s : s.pc = "archive" /\ Goto(r, s) /\ row' = row /\ adm[r].pc = "idle"
    BY <1>4, IdleAsked DEF Hangs, Asked
  <2>2. \A q \in Requests : adm'[q].pc = "delete" => q # r /\ adm'[q] = adm[q]
    BY <2>1 DEF Goto, MembersBase
  <2> QED BY <2>1, <2>2 DEF Exists
<1>5. CASE InsertEntity(r) \/ InsertDirect(r)
  <2>1. PICK x \in Entities : row' = [row EXCEPT ![x] = "live"]
    BY <1>5, Pending DEF InsertEntity, InsertDirect
  <2> QED BY <1>5, <1>g, <1>l, <2>1, IdleState DEF InsertEntity, InsertDirect, Done
<1>6. CASE AddMember(r)
  BY <1>6, <1>g, IdleState DEF AddMember, Done, Exists
<1>7. CASE Archive(r)
  <2>1. adm[r].at \in Entities
    BY Pending
  <2>2. \A y \in Entities : Exists(y) => Exists(y)'
    <3>1. CASE row' = row
      BY <3>1 DEF Exists
    <3>2. CASE row' = [row EXCEPT ![adm[r].at] = "archived"]
      BY <1>l, <2>1, <3>2
    <3> QED BY <1>7, <3>1, <3>2 DEF Archive
  <2> QED BY <1>7, <1>g, <2>2, IdleState DEF Archive, Done
<1> QED BY <1>1, <1>2, <1>3, <1>4, <1>5, <1>6, <1>7, ManageDoes

LEMMA KeptRequest ==
  ASSUME MembersBase, ChatBase, TurnInv, KeptInv, NEW r \in Requests, Request(r)
  PROVE  KeptInv'
<1>e. \A i \in Kept : msg[i].ch \in Entities /\ (msg[i].by \in Agents => msg[i].by \in Entities)
  BY Kinds DEF Kept, ChatBase, Msgs
<1>1. CASE Manage(r) /\ doomed' = [doomed EXCEPT ![r] = {}] /\ UNCHANGED <<msg, react, page, turn, stale>>
  <2>1. Onward /\ \A i \in Ids : i \in Kept' <=> i \in Kept
    BY <1>1, SameOn
  <2>2. \A i \in Kept : Exists(msg[i].ch) /\ Author(msg[i]) =>
          Exists(msg[i].ch)' /\ (msg[i].by \in Agents => Exists(msg[i].by)')
    <3>1. \A x \in Entities : Exists(x) => Exists(x)'
      BY <1>1, ManageKeeps
    <3>2. UNCHANGED msg
      BY <1>1
    <3> QED BY <1>e, <3>1, <3>2 DEF Author, Exists
  <2>3. \A q \in Requests : Reading(q)' => Reading(q) /\ adm'[q] = adm[q] /\ doomed'[q] = doomed[q]
    BY <1>1, ManageKeeps DEF Reading, ChatBase
  <2>4. \A q \in Requests : doomed'[q] \subseteq doomed[q]
    BY <1>1 DEF ChatBase
  <2> QED BY <1>1, <2>1, <2>2, <2>3, <2>4, KeptOn
<1>2. ASSUME NEW x \in Entities, NEW who, StartDeleteAll(r, x, who) PROVE KeptInv'
  <2>1. /\ adm'[r].pc = "delete" /\ adm'[r].at = x /\ adm'[r].list = Listed(x)
        /\ \A q \in Requests \ {r} : adm'[q] = adm[q]
        /\ UNCHANGED <<row, msg, react, stale>>
    <3>1. StartDelete(r, x, who) /\ UNCHANGED <<msg, react, stale>> /\ x \in Entities
      BY <1>2 DEF StartDeleteAll
    <3>2. adm'[r].pc = "delete" /\ adm'[r].at = x /\ adm'[r].list = Listed(x)
      BY <3>1, DeletionBegins
    <3> QED BY <3>1, <3>2 DEF StartDelete, Goto, MembersBase
  <2>2. /\ doomed'[r] = IF x \in Agents /\ Listed(x) = {} THEN Doomed(x) ELSE {}
        /\ \A q \in Requests \ {r} : doomed'[q] = doomed[q]
    BY <1>2 DEF StartDeleteAll, ReadDoomed, ChatBase
  <2>3. /\ Doomed(x) \subseteq Kept
        /\ \A i \in Kept : msg[i].by = x \/ (msg[i].root # 0 /\ msg[i].root \in Doomed(x)) => i \in Doomed(x)
    BY DoomedIs
  <2>4. 0 \notin Kept
    BY ChatKinds DEF Kept
  <2>5. ASSUME NEW i \in Kept, <<i>> \notin stale, Reading(r)', msg[i].by = adm'[r].at \/ msg[i].root \in doomed'[r]
        PROVE  i \in doomed'[r]
    <3>1. doomed'[r] = Doomed(x) /\ adm'[r].at = x
      BY <2>1, <2>2, <2>5 DEF Reading
    <3> QED BY <2>3, <2>4, <2>5, <3>1
  <2>6. ASSUME NEW i \in Kept, <<i>> \notin stale
        PROVE  \A q \in Requests : Reading(q)' =>
                 (msg[i].by = adm'[q].at \/ msg[i].root \in doomed'[q] => i \in doomed'[q])
    BY <2>1, <2>2, <2>5, <2>6 DEF KeptInv, Reading
  <2>7. Kept' = Kept /\ (\A y : Exists(y)' <=> Exists(y)) /\ (\A i : Settled(i)' <=> Settled(i))
    BY <2>1 DEF Kept, Exists, Settled
  <2>8. \A q \in Requests : \A i \in doomed'[q] : Settled(i)'
    BY <2>2, <2>3, <2>7 DEF KeptInv, Kept, Settled
  <2>9. \A i \in Kept' : <<i>> \notin stale' =>
          /\ Exists(msg[i].ch)' /\ Author(msg[i])'
          /\ msg'[i].root # 0 => msg'[i].root \in Kept'
    BY <2>1, <2>7 DEF KeptInv, Author, Exists
  <2> QED BY <2>1, <2>6, <2>7, <2>8, <2>9 DEF KeptInv, Reading
<1>3. CASE DeleteAll(r)
  <2>0. PICK x, L, S : x = adm[r].at /\ L = adm[r].list /\ S = Swept(r)
    OBVIOUS
  <2>1. /\ Settle(S, "gone") /\ react' = {ip \in react : ip[1] \notin S} /\ stale' = stale
        /\ doomed' = [doomed EXCEPT ![r] = {}] /\ Delete(r)
    BY <1>3, <2>0 DEF DeleteAll
  <2>2. /\ Onward /\ \A i \in Ids : i \in Kept' <=> (i \in Kept /\ i \notin S)
        /\ \A i \in Ids : /\ msg'[i].by = msg[i].by /\ msg'[i].ch = msg[i].ch
                          /\ msg'[i].root = msg[i].root
    BY <2>1, SettleOn
  <2>3. /\ \A y \in Entities : Exists(y)' <=> Exists(y) /\ y \notin {x} \union L
        /\ adm'[r].pc = "idle" /\ \A q \in Requests \ {r} : adm'[q] = adm[q]
    BY <2>0, <2>1, DeletionTakes, IdleState, AdmStep DEF Removed
  <2>4. /\ L \subseteq {Workspace} \union Channels /\ (x \in Channels => L = {x})
        /\ adm[r].pc = "delete"
    BY <2>0, <2>1, Pending DEF Delete
  <2>5. \A i \in Kept : msg[i].ch \in L => i \in S
    BY <2>0 DEF Swept
  <2>6. x \in Agents => S = {i \in Kept : msg[i].ch \in L} \union (IF L = {} THEN doomed[r] ELSE Doomed(x))
    BY <2>0 DEF Swept
  <2>6a. x \notin Agents => S = {i \in Kept : msg[i].ch \in L}
    BY <2>0 DEF Swept
  <2>7. ASSUME NEW i \in Ids, i \in Kept', <<i>> \notin stale'
        PROVE  /\ Exists(msg[i].ch)' /\ (msg'[i].by \in Agents => Exists(msg[i].by)')
               /\ msg'[i].root # 0 => msg'[i].root \in Kept'
               /\ \A q \in Requests : Reading(q)' =>
                    (msg'[i].by = adm'[q].at \/ msg'[i].root \in doomed'[q] => i \in doomed'[q])
    <3>1. i \in Ids /\ i \in Kept /\ i \notin S /\ <<i>> \notin stale
      BY <2>1, <2>2, <2>7 DEF Kept
    <3>2. PICK b, c, h : b = msg[i].by /\ c = msg[i].ch /\ h = msg[i].root
      OBVIOUS
    <3>3. /\ Exists(c) /\ c \in Channels /\ (b \in Agents => Exists(b) /\ b \in Entities)
          /\ h # 0 => h \in Kept /\ h \in Ids /\ msg[h].ch = c
      BY <1>e, <3>1, <3>2 DEF KeptInv, TurnInv, Author, Kept, ChatBase, Msgs
    <3>4. c \notin {x} \union L
      BY <2>4, <2>5, <3>1, <3>2, <3>3
    <3>r. L = {} /\ x \in Agents => (b = x \/ h \in doomed[r] => i \in doomed[r])
      BY <2>0, <2>4, <3>1, <3>2 DEF KeptInv
    <3>d. b = x \/ (h # 0 /\ h \in Doomed(x)) => i \in Doomed(x)
      BY <3>1, <3>2, DoomedIs
    <3>5. b \in Agents => b \notin {x} \union L
      <4>1. SUFFICES ASSUME b \in Agents, b = x PROVE FALSE
        BY <2>4, Kinds
      <4> QED BY <2>6, <3>1, <3>r, <3>d, <4>1
    <3>6. h # 0 => h \in Kept /\ h \notin S
      <4>1. SUFFICES ASSUME h # 0, h \in S PROVE FALSE
        BY <3>3
      <4>2. msg[h].ch \notin L
        BY <3>3, <3>4, <4>1
      <4>3. x \in Agents
        BY <2>6a, <4>1, <4>2
      <4> QED BY <2>6, <3>1, <3>r, <3>d, <4>1, <4>2, <4>3
    <3>7. Exists(c)' /\ (b \in Agents => Exists(b)') /\ (h # 0 => h \in Kept')
      BY <2>2, <2>3, <3>3, <3>4, <3>5, <3>6, Kinds
    <3>8. \A q \in Requests : Reading(q)' => (b = adm'[q].at \/ h \in doomed'[q] => i \in doomed'[q])
      <4>1. SUFFICES ASSUME NEW q \in Requests, Reading(q)'
                     PROVE  b = adm'[q].at \/ h \in doomed'[q] => i \in doomed'[q]
        OBVIOUS
      <4>2. q # r /\ adm'[q] = adm[q] /\ doomed'[q] = doomed[q]
        BY <2>1, <2>3, <4>1 DEF Reading, ChatBase
      <4> QED BY <3>1, <3>2, <4>1, <4>2 DEF KeptInv, Reading
    <3> QED BY <2>2, <3>1, <3>2, <3>7, <3>8 DEF Exists
  <2>8. ASSUME NEW q \in Requests, NEW i \in Ids, i \in doomed'[q] PROVE Settled(i)'
    <3>1. i \in Ids /\ Settled(i)
      BY <2>1, <2>8 DEF KeptInv, ChatBase
    <3> QED BY <2>2, <3>1 DEF Onward
  <2>9. \A ip \in react' : ip[1] \in Kept' \/ ip \in stale'
    BY <2>1, <2>2 DEF KeptInv, Kept
  <2>10. Kept' \subseteq Ids /\ \A q \in Requests : doomed'[q] \subseteq Ids
    BY <2>1 DEF Kept, ChatBase
  <2> QED BY <2>7, <2>8, <2>9, <2>10 DEF KeptInv, Author, Reading
<1> QED BY <1>1, <1>2, <1>3 DEF Request

-----------------------------------------------------------------------------
\* What the pages show.

Shows == KeptInv /\ PageInv /\ Complete

\* What a turn is yet to tell.
Telling(w, i) == turn[w].pc \in {"echo", "tell"} /\ turn[w].id = i

\* What comes to a page is in its row, and of a card or settled.
LEMMA PageOn ==
  ASSUME ChatBase, PageInv, Onward,
         \A p \in Readers : page'[p].whole /\ Begun(page'[p]) => page'[p].on,
         \A p \in Readers : \A i \in Given(page'[p]) :
           i \in Given(page[p]) \/ (msg'[i].st # "new" /\ (msg'[i].via = "card" \/ Settled(i)'))
  PROVE  PageInv'
<1>1. ASSUME NEW p \in Readers, NEW i, i \in Given(page[p])
      PROVE  msg'[i].st # "new" /\ (msg'[i].via = "card" \/ Settled(i)')
  <2>1. i \in Ids /\ msg[i].st # "new" /\ (msg[i].via = "card" \/ Settled(i))
    BY <1>1 DEF PageInv, ChatBase, PageStates, Given
  <2> QED BY <2>1 DEF Onward
<1> QED BY <1>1 DEF PageInv

\* What is newly kept is not a turn's or is about to be told, what was told is shown
\* by the pages that are whole, and these show what they showed.
LEMMA CompleteOn ==
  ASSUME ChatBase, Complete, Onward, stale \subseteq stale',
         \A i \in Ids : i \in Kept' =>
           i \in Kept \/ msg'[i].via # "turn" \/ \E w \in Readers : Telling(w, i)',
         \A p \in Readers : page'[p].whole /\ Begun(page'[p]) =>
           /\ page[p].whole /\ Begun(page[p]) /\ page'[p].ch = page[p].ch
           /\ Given(page[p]) \subseteq Given(page'[p]),
         \A w \in Readers : turn[w].pc \in {"echo", "tell"} =>
           \/ turn'[w] = turn[w]
           \/ \A p \in Readers : page'[p].whole /\ Begun(page'[p]) /\ page'[p].ch = msg[turn[w].id].ch =>
                turn[w].id \in Given(page'[p])
  PROVE  Complete'
<1>1. ASSUME NEW p \in Readers, NEW i \in Ids, i \in Kept', page'[p].whole, Begun(page'[p]),
             msg'[i].ch = page'[p].ch, msg'[i].root = 0, msg'[i].via = "turn"
      PROVE  i \in Given(page'[p]) \/ <<i>> \in stale' \/ \E w \in Readers : Telling(w, i)'
  <2>1. /\ page[p].whole /\ Begun(page[p]) /\ page'[p].ch = page[p].ch
        /\ Given(page[p]) \subseteq Given(page'[p])
    BY <1>1
  <2>2. CASE i \in Kept
    <3>1. msg'[i].ch = msg[i].ch /\ msg'[i].root = msg[i].root /\ msg'[i].via = msg[i].via
      BY <2>2 DEF Onward, Kept
    <3>2. i \in Given(page[p]) \/ <<i>> \in stale \/ \E w \in Readers : Telling(w, i)
      BY <1>1, <2>1, <2>2, <3>1 DEF Complete, Telling
    <3>3. ASSUME NEW w \in Readers, Telling(w, i) PROVE i \in Given(page'[p]) \/ Telling(w, i)'
      BY <1>1, <3>1, <3>3 DEF Telling
    <3> QED BY <2>1, <3>2, <3>3
  <2>3. CASE i \notin Kept
    BY <1>1, <2>3
  <2> QED BY <2>2, <2>3
<1>2. ASSUME NEW p \in Readers, NEW i \in Kept'
      PROVE  /\ page'[p].whole /\ Begun(page'[p])
             /\ msg'[i].ch = page'[p].ch /\ msg'[i].root = 0 /\ msg'[i].via = "turn"
             => \/ i \in Given(page'[p]) \/ <<i>> \in stale'
                \/ \E w \in Readers : turn'[w].pc \in {"echo", "tell"} /\ turn'[w].id = i
  <2>1. i \in Ids
    BY <1>2 DEF Kept
  <2>2. \A w \in Readers : Telling(w, i)' <=> turn'[w].pc \in {"echo", "tell"} /\ turn'[w].id = i
    BY DEF Telling
  <2> QED BY <1>1, <1>2, <2>1, <2>2
<1> QED BY ONLY <1>2 DEF Complete, Begun, Given

\* A step that concerns no page and keeps nothing.
LEMMA Quiet ==
  ASSUME ChatBase, Shows, Onward, \A i \in Ids : i \in Kept' <=> i \in Kept,
         UNCHANGED <<row, adm, doomed, react, stale, page>>,
         \A w \in Readers : turn[w].pc \in {"echo", "tell"} => turn'[w] = turn[w]
  PROVE  Shows'
<1>1. KeptInv'
  BY KeptSame DEF Shows
<1>2. PageInv'
  BY PageOn DEF Shows, PageInv
<1>3. Complete'
  BY CompleteOn DEF Shows
<1> QED BY <1>1, <1>2, <1>3 DEF Shows

LEMMA CommitShows ==
  ASSUME ChatBase, Shows, Opened \in Ids, msg[Opened].st = "open", Commit,
         UNCHANGED <<row, adm, doomed, react, page>>,
         msg[Opened].via # "turn" \/ \E w \in Readers : turn'[w].pc \in {"echo", "tell"} /\ turn'[w].id = Opened,
         \A w \in Readers : turn[w].pc \in {"echo", "tell"} => turn'[w] = turn[w]
  PROVE  Shows'
<1>0. PICK o : o = Opened
  OBVIOUS
<1>1. KeptInv'
  BY KeptCommit DEF Shows
<1>2. /\ Onward /\ \A i \in Ids : i \in Kept' => i = o \/ i \in Kept
      /\ msg'[o].via = msg[o].via /\ stale \subseteq stale'
  <2>1. Settle({o}, "kept") /\ stale \subseteq stale'
    BY <1>0 DEF Commit
  <2> QED BY <1>0, <2>1, SettleOn
<1>3. PageInv'
  BY <1>2, PageOn DEF Shows, PageInv
<1>4. msg'[o].via # "turn" \/ \E w \in Readers : Telling(w, o)'
  BY <1>0, <1>2 DEF Telling
<1>5. Complete'
  BY <1>2, <1>4, CompleteOn DEF Shows
<1> QED BY <1>1, <1>3, <1>5 DEF Shows

\* A turn tells its channel what it wrote.
LEMMA TellShows ==
  ASSUME ChatBase, TurnInv, Shows, NEW p \in Readers, turn[p].pc \in {"echo", "tell"},
         Broadcast(turn[p].ch, turn[p].id), UNCHANGED <<row, adm, msg, react, doomed, stale>>,
         \A w \in Readers \ {p} : turn'[w] = turn[w]
  PROVE  Shows'
<1>1. Onward /\ \A i \in Ids : i \in Kept' <=> i \in Kept
  BY SameOn
<1>2. PICK i, c : i = turn[p].id /\ c = turn[p].ch
  OBVIOUS
<1>3. i \in Ids /\ Settled(i) /\ msg[i].ch = c
  BY <1>2, ChatKinds DEF TurnInv, Refers
<1>4. \A q \in Readers :
        /\ page'[q].ch = page[q].ch /\ page'[q].on = page[q].on
        /\ Begun(page'[q]) = Begun(page[q]) /\ page'[q].whole = page[q].whole
        /\ Given(page'[q]) = IF page[q].on /\ page[q].ch = c THEN Given(page[q]) \union {i} ELSE Given(page[q])
  BY <1>2, <1>3, Told
<1>5. KeptInv'
  BY <1>1, KeptSame DEF Shows
<1>6. \A q \in Readers : page[q].whole /\ Begun(page[q]) => page[q].on
  BY DEF Shows, PageInv
<1>7. msg'[i].st # "new" /\ Settled(i)'
  BY <1>3 DEF Settled
<1>8. PageInv'
  <2>1. \A q \in Readers : \A j \in Given(page'[q]) :
          j \in Given(page[q]) \/ (msg'[j].st # "new" /\ (msg'[j].via = "card" \/ Settled(j)'))
    BY <1>4, <1>7
  <2> QED BY <1>1, <1>4, <1>6, <2>1, PageOn DEF Shows
<1>9. \A q \in Readers : page'[q].whole /\ Begun(page'[q]) =>
        /\ page[q].whole /\ Begun(page[q]) /\ page'[q].ch = page[q].ch
        /\ Given(page[q]) \subseteq Given(page'[q])
        /\ page'[q].ch = c => i \in Given(page'[q])
  BY <1>4, <1>6
<1>10. Complete'
  <2>1. \A w \in Readers : turn[w].pc \in {"echo", "tell"} =>
          \/ turn'[w] = turn[w]
          \/ \A q \in Readers : page'[q].whole /\ Begun(page'[q]) /\ page'[q].ch = msg[turn[w].id].ch =>
               turn[w].id \in Given(page'[q])
    BY <1>2, <1>3, <1>9
  <2> QED BY <1>1, <1>9, <2>1, CompleteOn DEF Shows
<1> QED BY <1>5, <1>8, <1>10 DEF Shows

\* A page is opened, joined, loaded, drawn or cut.
LEMMA MovesShow ==
  ASSUME ChatBase, Shows, NEW p \in Readers, PageMoves(p)
  PROVE  Shows'
<1>1. /\ \A q \in Readers \ {p} : page'[q] = page[q]
      /\ UNCHANGED <<row, adm, msg, react, turn, doomed, stale>>
      /\ PageTo(page[p], page'[p])
  BY PageMoved
<1>2. Onward /\ (\A i \in Ids : i \in Kept' <=> i \in Kept) /\ Kept' = Kept
  BY <1>1, SameOn DEF Kept
<1>3. KeptInv'
  BY <1>1, <1>2, KeptSame DEF Shows
<1>4. PageInv'
  <2>1. \A i \in History(page[p].ch) : msg'[i].st # "new" /\ Settled(i)'
    BY <1>1 DEF History, Legible, Kept, Settled
  <2>2. \A q \in Readers : \A i \in Given(page'[q]) :
          i \in Given(page[q]) \/ (msg'[i].st # "new" /\ (msg'[i].via = "card" \/ Settled(i)'))
    BY <1>1, <2>1 DEF PageTo
  <2>3. \A q \in Readers : page'[q].whole /\ Begun(page'[q]) => page'[q].on
    BY <1>1 DEF Shows, PageInv, PageTo
  <2> QED BY <1>2, <2>2, <2>3, PageOn DEF Shows
<1>5. Complete'
  <2>1. ASSUME NEW q \in Readers, NEW i \in Kept, page'[q].whole, Begun(page'[q]),
               msg[i].ch = page'[q].ch, msg[i].root = 0, msg[i].via = "turn"
        PROVE  i \in Given(page'[q]) \/ <<i>> \in stale
               \/ \E w \in Readers : turn[w].pc \in {"echo", "tell"} /\ turn[w].id = i
    <3>1. CASE /\ page[q].whole /\ Begun(page[q]) /\ page'[q].ch = page[q].ch
               /\ Given(page'[q]) = Given(page[q])
      BY <2>1, <3>1 DEF Shows, Complete
    <3>2. CASE page'[q].ch = page[q].ch /\ History(page[q].ch) \subseteq Given(page'[q])
      <4>1. <<i>> \in stale \/ Author(msg[i])
        BY DEF Shows, KeptInv
      <4> QED BY <2>1, <3>2, <4>1 DEF History, Legible
    <3> QED BY <1>1, <2>1, <3>1, <3>2 DEF PageTo
  <2> QED BY ONLY <1>1, <1>2, <2>1 DEF Complete, Begun, Given
<1> QED BY <1>3, <1>4, <1>5 DEF Shows

\* A turn fails, or all do: the sockets are closed, and nothing is lost that was kept.
LEMMA ClosedShows ==
  ASSUME ChatBase, Shows, Onward, \A i \in Ids : i \in Kept' <=> i \in Kept, KeptInv', stale' = stale,
         \A p \in Readers : page'[p] = page[p] \/ (~page'[p].whole /\ Given(page'[p]) = Given(page[p])),
         \A w \in Readers : turn[w].pc \in {"echo", "tell"} =>
           turn'[w] = turn[w] \/ \A p \in Readers : ~page'[p].whole
  PROVE  Shows'
<1>1. PageInv'
  <2>1. \A p \in Readers : Given(page'[p]) = Given(page[p])
    OBVIOUS
  <2>2. \A p \in Readers : page'[p].whole /\ Begun(page'[p]) => page'[p].on
    BY DEF Shows, PageInv
  <2> QED BY <2>1, <2>2, PageOn DEF Shows
<1>2. Complete'
  <2>1. \A p \in Readers : page'[p].whole /\ Begun(page'[p]) =>
          /\ page[p].whole /\ Begun(page[p]) /\ page'[p].ch = page[p].ch
          /\ Given(page[p]) \subseteq Given(page'[p])
    OBVIOUS
  <2> QED BY <2>1, CompleteOn DEF Shows
<1> QED BY <1>1, <1>2 DEF Shows

LEMMA FailShows == ASSUME ChatBase, TurnInv, Shows, NEW p \in Readers, Fail(p) PROVE Shows'
<1>p. p \in Writers
  BY ChatKinds
<1>1. Onward /\ \A i \in Ids : i \in Kept' <=> i \in Kept
  <2>1. PICK S : /\ S = IF turn[p].pc \in {"open", "reply"} THEN {Opened} ELSE {}
                 /\ Settle(S, "void")
    BY DEF Fail
  <2>2. \A i \in Ids : i \in S => msg[i].st = "open"
    BY <1>p, <2>1, Writes DEF Writing
  <2> QED BY <2>1, <2>2, VoidOn
<1>2. UNCHANGED <<row, adm, doomed, react, stale>> /\ turn[p].pc \notin {"echo", "tell"}
  BY DEF Fail, mvars
<1>3. KeptInv'
  BY <1>1, <1>2, KeptSame DEF Shows
<1>4. page' = [page EXCEPT ![p] = [page[p] EXCEPT !.on = FALSE, !.whole = FALSE]]
  BY DEF Fail, ChatBase
<1>5. \A q \in Readers : page'[q] = page[q] \/ (~page'[q].whole /\ Given(page'[q]) = Given(page[q]))
  BY <1>4, Closed DEF ChatBase
<1>6. \A w \in Readers : turn[w].pc \in {"echo", "tell"} => turn'[w] = turn[w]
  BY <1>2 DEF Fail, EndTurn, ChatBase
<1> QED BY <1>1, <1>2, <1>3, <1>5, <1>6, ClosedShows

LEMMA ToggleShows == ASSUME ChatBase, Shows, NEW p \in Readers, Toggle(p) PROVE Shows'
<1>1. PICK i : i = turn[p].id
  OBVIOUS
<1>2. /\ UNCHANGED <<row, adm, msg, page, doomed>> /\ turn[p].pc = "react"
      /\ react' \subseteq react \union {<<i, p>>}
      /\ stale' = IF i \in Kept /\ \A r \in Requests : i \notin doomed[r] THEN stale ELSE stale \union {<<i, p>>}
      /\ \A w \in Readers \ {p} : turn'[w] = turn[w]
  BY <1>1 DEF Toggle, mvars, At, EndTurn, ChatBase
<1>3. Onward /\ (\A j \in Ids : j \in Kept' <=> j \in Kept) /\ Kept' = Kept
  BY <1>2, SameOn DEF Kept
<1>4. KeptInv'
  <2>1. \A j : <<j>> # <<i, p>>
    OBVIOUS
  <2>2. \A j : <<j>> \notin stale' => <<j>> \notin stale
    BY <1>2, <2>1
  <2>3. \A ip \in react' : ip[1] \in Kept' \/ ip \in stale'
    BY <1>2, <1>3 DEF Shows, KeptInv
  <2>4. \A x : Exists(x)' <=> Exists(x)
    BY <1>2 DEF Exists
  <2>5. \A j : Settled(j)' <=> Settled(j)
    BY <1>2 DEF Settled
  <2> QED BY <1>2, <1>3, <2>2, <2>3, <2>4, <2>5 DEF Shows, KeptInv, Author
<1>5. PageInv'
  BY <1>2, <1>3, PageOn DEF Shows, PageInv
<1>6. Complete'
  BY <1>2, <1>3, CompleteOn DEF Shows
<1> QED BY <1>4, <1>5, <1>6 DEF Shows

LEMMA PersonTouches ==
  ASSUME NEW p \in Readers, Person(p)
  PROVE  UNCHANGED <<row, member, link, adm, slipped, strays, doomed>>
BY DEF Person, Visit, Join, Load, Render, Cut, Say, Post, CommitPost, Echo, Answer, Silence, CommitTurn,
       Tell, Fail, React, Toggle, mvars, others

LEMMA ShowsPerson == ASSUME ChatBase, TurnInv, Shows, NEW p \in Readers, Person(p) PROVE Shows'
<1>p. p \in Writers
  BY ChatKinds
<1>t. UNCHANGED <<row, adm, doomed>>
  BY PersonTouches
<1>q. ASSUME turn[p].pc \notin {"echo", "tell"},
             Onward, \A i \in Ids : i \in Kept' <=> i \in Kept, UNCHANGED <<react, stale, page>>,
             \A w \in Writers \ {p} : turn'[w] = turn[w]
      PROVE  Shows'
  BY <1>q, <1>t, ChatKinds, Quiet
<1>w. \A s : turn' = [turn EXCEPT ![p] = s] => \A w \in Writers \ {p} : turn'[w] = turn[w]
  BY DEF ChatBase
<1>c. ASSUME NEW pc \in {"echo", "tell"}, Writing(p), Commit, UNCHANGED <<react, page>>,
             turn' = [turn EXCEPT ![p].pc = pc, ![p].id = Opened]
      PROVE  Shows'
  <2>1. Opened \in Ids /\ msg[Opened].st = "open"
    BY <1>p, <1>c, Writes
  <2>2. turn'[p].pc = pc /\ turn'[p].id = Opened /\ \A w \in Writers \ {p} : turn'[w] = turn[w]
    BY <1>p, <1>c DEF ChatBase, TurnStates
  <2>3. turn[p].pc \notin {"echo", "tell"}
    BY <1>c DEF Writing
  <2>4. \A w \in Readers : turn[w].pc \in {"echo", "tell"} => turn'[w] = turn[w]
    BY <2>2, <2>3, ChatKinds
  <2>5. \E w \in Readers : turn'[w].pc \in {"echo", "tell"} /\ turn'[w].id = Opened
    BY <2>2
  <2> QED BY <1>c, <1>t, <2>1, <2>4, <2>5, CommitShows
<1>1. CASE PageMoves(p)
  BY <1>1, MovesShow
<1>2. ASSUME NEW root \in Ids \union {0}, Say(p, root) PROVE Shows'
  <2>1. Onward /\ (\A i \in Ids : i \in Kept' <=> i \in Kept) /\ UNCHANGED <<react, stale, page>>
    BY <1>2, SameOn DEF Say
  <2> QED BY <1>2, <1>q, <1>w, <2>1 DEF Say, At
<1>3. CASE Post(p)
  <2>1. Onward /\ (\A i \in Ids : i \in Kept' <=> i \in Kept) /\ UNCHANGED <<react, stale, page>>
    BY <1>3, <1>p, Drafts, InsertOn DEF Post
  <2> QED BY <1>3, <1>q, <1>w, <2>1 DEF Post, At, Step
<1>4. CASE CommitPost(p)
  BY <1>4, <1>c DEF CommitPost, At, Writing
<1>5. CASE Echo(p)
  <2>1. \A w \in Readers \ {p} : turn'[w] = turn[w]
    BY <1>5, ChatKinds DEF Echo, EndTurn, ChatBase
  <2> QED BY <1>5, <1>t, <2>1, TellShows DEF Echo, At
<1>6. CASE Answer(p)
  <2>1. Onward /\ (\A i \in Ids : i \in Kept' <=> i \in Kept) /\ UNCHANGED <<react, stale, page>>
    BY <1>6, <1>p, Drafts, InsertOn DEF Answer
  <2> QED BY <1>6, <1>q, <1>w, <2>1 DEF Answer, At, Step
<1>7. CASE Silence(p)
  <2>1. Onward /\ (\A i \in Ids : i \in Kept' <=> i \in Kept) /\ UNCHANGED <<react, stale, page>>
    BY <1>7, SameOn DEF Silence
  <2> QED BY <1>7, <1>q, <1>w, <2>1 DEF Silence, At, EndTurn
<1>8. CASE CommitTurn(p)
  BY <1>8, <1>c DEF CommitTurn, At, Writing
<1>9. CASE Tell(p)
  <2>1. \A w \in Readers \ {p} : turn'[w] = turn[w]
    BY <1>9, ChatKinds DEF Tell, EndTurn, ChatBase
  <2> QED BY <1>9, <1>t, <2>1, TellShows DEF Tell, At
<1>10. CASE Fail(p)
  BY <1>10, FailShows
<1>11. ASSUME NEW i \in Ids, React(p, i) PROVE Shows'
  <2>1. Onward /\ (\A j \in Ids : j \in Kept' <=> j \in Kept) /\ UNCHANGED <<react, stale, page>>
    BY <1>11, SameOn DEF React
  <2> QED BY <1>11, <1>q, <1>w, <2>1 DEF React, At
<1>12. CASE Toggle(p)
  BY <1>12, ToggleShows
<1> QED BY <1>1, <1>2, <1>3, <1>4, <1>5, <1>6, <1>7, <1>8, <1>9, <1>10, <1>11, <1>12 DEF Person, PageMoves

LEMMA ShowsAgent == ASSUME ChatBase, TurnInv, Shows, NEW a \in Agents, Agent(a) PROVE Shows'
<1>p. a \in Writers /\ a \notin Readers
  BY ChatKinds
<1>w. \A s : turn' = [turn EXCEPT ![a] = s] => \A w \in Readers : turn'[w] = turn[w]
  BY <1>p, ChatKinds DEF ChatBase
<1>1. CASE Socket(a) /\ UNCHANGED cvars
  <2>1. Onward /\ \A i \in Ids : i \in Kept' <=> i \in Kept
    BY <1>1, SameOn DEF cvars
  <2> QED BY <1>1, <2>1, Quiet DEF cvars, Socket, Claim, Connect, Disconnect
<1>2. ASSUME NEW c \in Channels, AgentPost(a, c) PROVE Shows'
  <2>1. Onward /\ \A i \in Ids : i \in Kept' <=> i \in Kept
    BY <1>2, SameOn DEF AgentPost
  <2> QED BY <1>2, <1>w, <2>1, Quiet DEF AgentPost, others
<1>3. CASE AgentWrite(a)
  <2>1. Onward /\ \A i \in Ids : i \in Kept' <=> i \in Kept
    BY <1>3, <1>p, Drafts, InsertOn DEF AgentWrite
  <2> QED BY <1>3, <1>w, <2>1, Quiet DEF AgentWrite, Step, mvars
<1>4. CASE AgentCommit(a)
  <2>1. Writing(a) /\ ~At(a, "reply")
    BY <1>4 DEF AgentCommit, At, Writing
  <2>2. Opened \in Ids /\ msg[Opened].st = "open" /\ msg[Opened].via # "turn"
    BY <1>p, <2>1, Writes
  <2> QED BY <1>4, <1>w, <2>2, CommitShows DEF AgentCommit, EndTurn, mvars
<1> QED BY <1>1, <1>2, <1>3, <1>4 DEF Agent

LEMMA ShowsRequest ==
  ASSUME MembersBase, ChatBase, TurnInv, Shows, NEW r \in Requests, Request(r)
  PROVE  Shows'
<1>1. KeptInv'
  BY KeptRequest DEF Shows
<1>2. UNCHANGED <<page, turn, stale>>
  BY DEF Request, StartDeleteAll, DeleteAll
<1>3. Onward /\ \A i \in Ids : i \in Kept' => i \in Kept
  <2>1. CASE msg' = msg
    BY <2>1, SameOn
  <2>2. CASE DeleteAll(r)
    BY <2>2, SettleOn DEF DeleteAll
  <2> QED BY <2>1, <2>2 DEF Request, StartDeleteAll
<1>4. PageInv'
  BY <1>2, <1>3, PageOn DEF Shows, PageInv
<1>5. Complete'
  BY <1>2, <1>3, CompleteOn DEF Shows
<1> QED BY <1>1, <1>4, <1>5 DEF Shows

LEMMA ShowsServer ==
  ASSUME ChatBase, TurnInv, Shows, Announce \/ AnnounceEnd \/ Restart
  PROVE  Shows'
<1>1. CASE Announce
  <2>1. PICK i \in Ids : /\ msg[i].st = "new" /\ msg'[i] = [[NoMsg EXCEPT !.via = "card"] EXCEPT !.st = "open"]
                         /\ Broadcast(Home, i)
    BY <1>1, Announces
  <2>2. \A q \in Readers :
          /\ page'[q].ch = page[q].ch /\ page'[q].on = page[q].on
          /\ Begun(page'[q]) = Begun(page[q]) /\ page'[q].whole = page[q].whole
          /\ Given(page'[q]) = IF page[q].on /\ page[q].ch = Home THEN Given(page[q]) \union {i} ELSE Given(page[q])
    BY <2>1, Told
  <2>3. msg'[i].st # "new" /\ msg'[i].via = "card"
    BY <2>1, Announcement DEF Msgs
  <2>4. Onward /\ \A j \in Ids : j \in Kept' <=> j \in Kept
    BY <1>1, Announcement, InsertOn DEF Announce
  <2>5. UNCHANGED <<row, adm, doomed, react, stale, turn>>
    BY <1>1 DEF Announce, others
  <2>6. KeptInv'
    BY <2>4, <2>5, KeptSame DEF Shows
  <2>7. PageInv'
    <3>1. \A q \in Readers : \A j \in Given(page'[q]) :
            j \in Given(page[q]) \/ (msg'[j].st # "new" /\ (msg'[j].via = "card" \/ Settled(j)'))
      BY <2>2, <2>3
    <3>2. \A q \in Readers : page'[q].whole /\ Begun(page'[q]) => page'[q].on
      BY <2>2 DEF Shows, PageInv
    <3> QED BY <2>4, <3>1, <3>2, PageOn DEF Shows
  <2>8. Complete'
    <3>1. \A q \in Readers : page'[q].whole /\ Begun(page'[q]) =>
            /\ page[q].whole /\ Begun(page[q]) /\ page'[q].ch = page[q].ch
            /\ Given(page[q]) \subseteq Given(page'[q])
      BY <2>2
    <3> QED BY <2>4, <2>5, <3>1, CompleteOn DEF Shows
  <2> QED BY <2>6, <2>7, <2>8 DEF Shows
<1>2. CASE AnnounceEnd
  <2>1. /\ Opened \in Ids /\ msg[Opened].st = "open" /\ msg[Opened].via = "card"
        /\ UNCHANGED <<row, adm, doomed, react, page, turn>>
    BY <1>2, AnnounceOpen DEF AnnounceEnd, mvars
  <2>2. CASE Commit
    BY <2>1, <2>2, CommitShows
  <2>3. CASE Settle({Opened}, "void") /\ UNCHANGED stale
    <3>1. Onward /\ \A i \in Ids : i \in Kept' <=> i \in Kept
      BY <2>1, <2>3, VoidOn
    <3> QED BY <2>1, <2>3, <3>1, Quiet
  <2> QED BY <1>2, <2>2, <2>3 DEF AnnounceEnd
<1>3. CASE Restart
  <2>1. Onward /\ \A i \in Ids : i \in Kept' <=> i \in Kept
    <3>1. PICK S : S = {i \in Ids : msg[i].st = "open"} /\ Settle(S, "void")
      BY <1>3 DEF Restart
    <3>2. \A i \in Ids : i \in S => msg[i].st = "open"
      BY <3>1
    <3> QED BY <3>1, <3>2, VoidOn
  <2>2. KeptInv'
    <3>1. /\ \A r \in Requests : adm'[r].pc = "idle" /\ doomed'[r] = {}
          /\ UNCHANGED <<row, react, stale>>
      BY <1>3, IdleState DEF Restart
    <3>2. \A i \in Kept : Exists(msg[i].ch) /\ Author(msg[i]) =>
            Exists(msg[i].ch)' /\ (msg[i].by \in Agents => Exists(msg[i].by)')
      <4>1. \A x : Exists(x)' <=> Exists(x)
        BY <3>1 DEF Exists
      <4>2. ASSUME NEW i \in Kept PROVE msg'[i].ch = msg[i].ch /\ msg'[i].by = msg[i].by
        BY <2>1 DEF Onward, Kept
      <4> QED BY <3>1, <4>1, <4>2 DEF Author, Exists
    <3>3. \A r \in Requests : ~Reading(r)'
      BY <3>1 DEF Reading
    <3> QED BY <2>1, <3>1, <3>2, <3>3, KeptOn DEF Shows
  <2>3. \A p \in Readers : ~page'[p].whole /\ Given(page'[p]) = Given(page[p])
    <3> DEFINE n(p) == [page[p] EXCEPT !.on = FALSE, !.whole = FALSE]
    <3>1. \A p \in Readers : ~n(p).whole /\ Given(n(p)) = Given(page[p])
      BY Closed
    <3>2. page' = [p \in Readers |-> n(p)]
      BY <1>3 DEF Restart
    <3> HIDE DEF n
    <3> QED BY <3>1, <3>2
  <2>4. stale' = stale
    BY <1>3 DEF Restart
  <2> QED BY <2>1, <2>2, <2>3, <2>4, ClosedShows
<1> QED BY <1>1, <1>2, <1>3

-----------------------------------------------------------------------------
\* The invariants of the rows, along every step.

MembersInv == MembersBase /\ LinkInv /\ HangInv

LEMMA MembersSame ==
  ASSUME MembersInv, UNCHANGED <<row, member, link, adm, slipped, strays>>
  PROVE  MembersInv'
<1>1. /\ \A r \in Requests : \A x : (Ending(r, x)' <=> Ending(r, x)) /\ (Deletes(r, x)' <=> Deletes(r, x))
      /\ \A x : (Exists(x)' <=> Exists(x)) /\ (Stray(x)' <=> Stray(x))
  BY DEF Ending, Deletes, Removed, Exists, Stray
<1>2. MembersBase' /\ LinkInv'
  BY <1>1 DEF MembersInv, MembersBase, LinkInv
<1>3. HangInv'
  BY <1>1 DEF MembersInv, HangInv
<1> QED BY <1>2, <1>3 DEF MembersInv

LEMMA HangSame ==
  ASSUME HangInv, UNCHANGED <<row, member, strays>>,
         \A r \in Requests : \A x : Deletes(r, x)' => Deletes(r, x) /\ adm'[r] = adm[r]
  PROVE  HangInv'
<1>1. \A x : (Exists(x)' <=> Exists(x)) /\ (Stray(x)' <=> Stray(x))
  BY DEF Exists, Stray
<1> QED BY <1>1 DEF HangInv

LEMMA MembersSocket == ASSUME MembersInv, NEW a \in Agents, Socket(a) PROVE MembersInv'
<1>1. UNCHANGED <<row, member, strays, adm>>
  BY DEF Socket, Claim, Connect, Disconnect
<1>2. \A r \in Requests : \A x : Deletes(r, x)' => Deletes(r, x) /\ adm'[r] = adm[r]
  BY <1>1 DEF Deletes, Removed
<1>3. HangInv'
  BY <1>1, <1>2, HangSame DEF MembersInv
<1> QED BY <1>3, MembersBaseSocket, LinkSocket DEF MembersInv

LEMMA MembersRequest == ASSUME MembersInv, NEW r \in Requests, Request(r) PROVE MembersInv'
<1>1. Manage(r) \/ (\E x \in Entities : \E who : StartDelete(r, x, who)) \/ Delete(r)
  BY DEF Request, StartDeleteAll, DeleteAll
<1> QED BY <1>1, MembersBaseStep, LinkStep, HangStep DEF MembersInv

LEMMA MembersRestart == ASSUME MembersInv, Restart PROVE MembersInv'
<1>1. /\ \A r \in Requests : adm'[r].pc = "idle"
      /\ adm' \in [Requests -> AdminStates]
      /\ link' \in [Agents -> {"off", "admitted", "on"}] /\ \A a \in Agents : link'[a] # "on"
      /\ UNCHANGED <<row, member, strays, slipped>>
  BY IdleState DEF Restart
<1>2. MembersBase'
  BY <1>1 DEF MembersInv, MembersBase
<1>3. LinkInv'
  BY <1>1 DEF LinkInv
<1>4. \A r \in Requests : \A x : ~Deletes(r, x)'
  BY <1>1 DEF Deletes
<1>5. HangInv'
  BY <1>1, <1>4, HangSame DEF MembersInv
<1> QED BY <1>2, <1>3, <1>5 DEF MembersInv

LEMMA MembersNext == ASSUME MembersInv, [Next]_vars PROVE MembersInv'
<1>1. ASSUME NEW p \in Readers, Person(p) PROVE MembersInv'
  BY <1>1, PersonTouches, MembersSame
<1>2. ASSUME NEW a \in Agents, Agent(a) PROVE MembersInv'
  <2>1. Socket(a) \/ UNCHANGED <<row, member, link, adm, slipped, strays>>
    BY <1>2 DEF Agent, AgentPost, AgentWrite, AgentCommit, mvars, others
  <2> QED BY <2>1, MembersSocket, MembersSame
<1>3. ASSUME NEW r \in Requests, Request(r) PROVE MembersInv'
  BY <1>3, MembersRequest
<1>4. CASE Announce \/ AnnounceEnd
  <2>1. UNCHANGED <<row, member, link, adm, slipped, strays>>
    BY <1>4 DEF Announce, AnnounceEnd, mvars, others
  <2> QED BY <2>1, MembersSame
<1>5. CASE Restart
  BY <1>5, MembersRestart
<1>6. CASE UNCHANGED vars
  BY <1>6, MembersSame DEF vars, mvars
<1> QED BY <1>1, <1>2, <1>3, <1>4, <1>5, <1>6 DEF Next

LEMMA MembersHold == Spec => []MembersInv
<1>1. Init => MembersInv
  <2> SUFFICES ASSUME Init PROVE MembersInv
    OBVIOUS
  <2>1. MembersBase /\ HangInv
    BY MembersBaseInit, HangInit DEF Init
  <2>2. LinkInv
    BY DEF Init, MembersInit, LinkInv
  <2> QED BY <2>1, <2>2 DEF MembersInv
<1>2. MembersInv /\ [Next]_vars => MembersInv'
  BY MembersNext
<1> QED BY <1>1, <1>2, PTL DEF Spec

-----------------------------------------------------------------------------
\* The theorems.

ChatInv == ChatBase /\ TurnInv /\ Shows

LEMMA ChatNext == ASSUME MembersInv, ChatInv, [Next]_vars PROVE ChatInv'
<1> USE DEF ChatInv
<1>1. ASSUME NEW p \in Readers, Person(p) PROVE ChatInv'
  BY <1>1, ChatBasePerson, TurnStepPerson, ShowsPerson
<1>2. ASSUME NEW a \in Agents, Agent(a) PROVE ChatInv'
  BY <1>2, ChatBaseAgent, TurnStepOthers, ShowsAgent
<1>3. ASSUME NEW r \in Requests, Request(r) PROVE ChatInv'
  BY <1>3, ChatBaseRequest, TurnStepOthers, ShowsRequest DEF MembersInv
<1>4. CASE Announce \/ AnnounceEnd \/ Restart
  BY <1>4, ChatBaseServer, TurnStepOthers, ShowsServer
<1>5. CASE UNCHANGED vars
  <2>1. UNCHANGED <<row, adm, msg, react, page, turn, doomed, stale>>
    BY <1>5 DEF vars, mvars, cvars
  <2>2. Onward /\ \A i \in Ids : i \in Kept' <=> i \in Kept
    BY <2>1, SameOn
  <2>3. ChatBase'
    BY <2>1 DEF ChatBase
  <2> QED BY <2>1, <2>2, <2>3, TurnSame, Quiet
<1> QED BY <1>1, <1>2, <1>3, <1>4, <1>5 DEF Next

LEMMA ChatHolds == Spec => []ChatInv
<1>1. Init => ChatInv
  BY ChatInit DEF ChatInv, Shows
<1>2. MembersInv /\ ChatInv /\ [Next]_vars => ChatInv'
  BY ChatNext
<1> QED BY <1>1, <1>2, MembersHold, PTL DEF Spec

\* An archived or deleted agent is off line: agent_manager.close hangs it up before
\* the row is written, and from then on until the write nobody who was not verified
\* already comes on.
THEOREM ArchivedAreOffline == Spec => []ArchivedIsOffline
<1>1. MembersInv => ArchivedIsOffline
  BY DEF MembersInv, LinkInv, ArchivedIsOffline
<1> QED BY <1>1, MembersHold, PTL

\* A permanent deletion leaves no row, membership, message or reaction behind that
\* refers to what it took, but those written after it had listed or deleted it: of
\* what delete_permanently listed nothing is left, and nothing that was there when it
\* listed is missing from the list.
THEOREM NothingLeftDangling == Spec => []NothingDangles
<1>1. ASSUME MembersInv, ChatInv PROVE NothingDangles
  <2>1. RowsHang
    <3>1. /\ \A c \in Channels : Exists(c) => <<c>> \in strays \/ Exists(Workspace)
          /\ Exists(Workspace) => Exists(Team) \/ <<Workspace>> \in strays
      BY <1>1 DEF MembersInv, HangInv, Stray
    <3>2. /\ \A cm \in member : cm \in strays \/ <<cm[1]>> \in strays
                                \/ (Exists(cm[1]) /\ (cm[2] \in Agents => Exists(cm[2])))
          /\ \A d \in Directs : Exists(d) => <<d>> \in strays \/ \A a \in d \intersect Agents : Exists(a)
      BY <1>1 DEF MembersInv, HangInv, Stray
    <3> QED BY <3>1, <3>2 DEF RowsHang
  <2>2. /\ \A i \in Kept : \/ <<i>> \in stale
                           \/ /\ Exists(msg[i].ch) /\ Author(msg[i])
                              /\ msg[i].root # 0 => msg[i].root \in Kept
        /\ \A ip \in react : ip[1] \in Kept \/ ip \in stale
    BY <1>1 DEF ChatInv, Shows, KeptInv
  <2> QED BY <2>1, <2>2 DEF NothingDangles
<1> QED BY <1>1, MembersHold, ChatHolds, PTL

\* A page shows no message of a turn or of an agent's tool that was not committed: the
\* turn commits before it echoes or tells.
THEOREM ShownStays == Spec => []ShownIsDurable
<1>1. ASSUME ChatInv PROVE ShownIsDurable
  BY <1>1 DEF ChatInv, Shows, PageInv, ShownIsDurable, Settled, Given
<1> QED BY <1>1, ChatHolds, PTL

\* A page that joined its room before it read the history, and whose socket has not
\* dropped, misses nothing of the main line but what is being told.
THEOREM PagesComplete == Spec => []PageComplete
<1>1. ASSUME ChatInv PROVE PageComplete
  <2>1. Complete /\ ChatBase
    BY <1>1 DEF ChatInv, Shows
  <2>2. ASSUME NEW p \in Readers, page[p].load = "shown"
        PROVE  Begun(page[p]) /\ Given(page[p]) = page[p].ids
    BY <2>1, <2>2 DEF ChatBase, PageStates, Begun, Given
  <2> QED BY <2>1, <2>2 DEF Complete, PageComplete
<1> QED BY <1>1, ChatHolds, PTL

=============================================================================
