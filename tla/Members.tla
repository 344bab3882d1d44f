------------------------------- MODULE Members -------------------------------
(***************************************************************************)
(* A team with its workspace and channels, who belongs to a channel, the   *)
(* agents and their sockets, and the management requests that create,      *)
(* archive, restore and permanently delete them (WorkspaceService, the     *)
(* team, workspace and channel repositories, infrastructure/lifecycle.py,  *)
(* api/routers/teams.py, pages.py and auth.py).                            *)
(*                                                                         *)
(* A request reads in transactions of its own and writes in a last one.    *)
(* SQLite checks no foreign keys here, so that one may write over rows     *)
(* another has deleted.  A direct conversation is the channel of a pair,   *)
(* with the id of the pair.  What is said in a channel is module Chat,     *)
(* what happens on an agent's socket module AgentConn.                     *)
(***************************************************************************)
EXTENDS Naturals, FiniteSets

CONSTANTS
  Team, Workspace, Rooms,   \* ids; of the rooms, those not created yet too
  Home,                     \* the room the seed creates
  People, Role,             \* Role: of each person, as member.role has it
  Readers,                  \* bound of the model: the people whose pages are followed
  Agents,
  Requests,                 \* concurrent management requests
  MaxOps                    \* bound of the model: what is begun, all told

ASSUME HomeAssumption == Home \in Rooms
ASSUME PeopleAssumption == Readers \subseteq People /\ People \intersect Agents = {}
ASSUME RoleAssumption == Role \in [People -> {"superadmin", "engineering_manager", "team_member"}]
ASSUME OpsAssumption == MaxOps \in Nat

Everybody == People \union Agents
Directs == {{p, q} : p \in Readers, q \in Everybody} \ {{p} : p \in Readers}
Channels == Rooms \union Directs
Places == {Team, Workspace} \union Channels
Entities == Places \union Everybody

\* The ids are of rows in tables of their own.
ASSUME IdAssumption ==
  /\ Team # Workspace /\ {Team, Workspace} \intersect (Channels \union Everybody) = {}
  /\ Rooms \intersect Directs = {} /\ Channels \intersect Everybody = {}

VARIABLES
  row,       \* of each entity: none, live, archived or gone
  member,    \* who belongs to a channel or to the workspace
  staff,     \* what each person is in the team
  link,      \* of each agent: off, admitted (its claim is verified) or on
  adm,       \* what each management request is at
  ops,       \* what was begun, against MaxOps
  slipped,   \* history: agents that came on while they were being archived or deleted
  strays     \* history: <<row>> and <<channel, member>> written over what was deleted
             \* already, or into what a deletion had listed

mvars == <<row, member, staff, link, adm, ops, slipped, strays>>

Idle == [pc |-> "idle", at |-> Team, who |-> CHOOSE p \in People : TRUE, list |-> {}]
Exists(x) == row[x] \in {"live", "archived"}
Parent(x) == IF x \in Channels THEN Workspace ELSE Team
Inside(x) == {c \in Channels : Exists(c)} \* of the one workspace, or its team

\* x exists, and no deletion under way has listed what is in it.
Stays(x) ==
  /\ Exists(x)
  /\ \A r \in Requests : adm[r].pc = "delete" => adm[r].at # x /\ (x = Workspace => adm[r].at # Team)

\* can_manage_team: the team itself is not looked at.
CanManage(p) ==
  \/ Role[p] = "superadmin"
  \/ Role[p] = "engineering_manager" /\ staff[p] # "none"
  \/ Role[p] = "team_member" /\ staff[p] = "leader"

\* manageable_teams: those that are live.
Offered(p) == CanManage(p) /\ row[Team] = "live"

\* _lifecycle_entity: team_scope and can_manage_archived_team; agents are the
\* superadmins' to manage.
MayEnd(p, x) ==
  \/ Role[p] = "superadmin"
  \/ x \in Places /\ Exists(Parent(x)) /\ CanManage(p)

\* can_member_access: the channel and what it lies in are live.
Access(c, m) ==
  /\ <<c, m>> \in member
  /\ row[c] = "live" /\ row[Workspace] = "live" /\ row[Team] = "live"

Begin == ops < MaxOps /\ ops' = ops + 1
Goto(r, state) == adm' = [adm EXCEPT ![r] = state]
Done(r) == Goto(r, Idle)

-----------------------------------------------------------------------------
\* Creation.

\* The form offers the live teams; its twin for one team looks at nothing but who asks.
CreateWorkspace(r, who) ==
  /\ adm[r].pc = "idle" /\ Begin
  /\ row[Workspace] = "none"
  /\ Offered(who) \/ (CanManage(who) /\ Exists(Team))
  /\ Goto(r, [Idle EXCEPT !.pc = "create", !.at = Workspace, !.who = who])
  /\ UNCHANGED <<row, member, staff, link, slipped, strays>>

\* create_channel.
CreateChannel(r, x, who) ==
  /\ adm[r].pc = "idle" /\ Begin
  /\ x \in Rooms /\ row[x] = "none"
  /\ row[Workspace] = "live" /\ CanManage(who)
  /\ Goto(r, [Idle EXCEPT !.pc = "create", !.at = x, !.who = who])
  /\ UNCHANGED <<row, member, staff, link, slipped, strays>>

\* Who creates a workspace or a channel is its first member.
InsertEntity(r) ==
  LET x == adm[r].at IN
  /\ adm[r].pc = "create"
  /\ row[x] = "none"
  /\ row' = [row EXCEPT ![x] = "live"]
  /\ member' = member \union {<<x, adm[r].who>>}
  /\ strays' = IF Stays(Parent(x)) THEN strays ELSE strays \union {<<x>>}
  /\ Done(r)
  /\ UNCHANGED <<staff, link, ops, slipped>>

\* create_team names the team's leader.
CreateTeam(r, who, leader) ==
  /\ adm[r].pc = "idle" /\ Begin
  /\ row[Team] = "none"
  /\ Role[who] = "superadmin" /\ row[leader] = "live"
  /\ row' = [row EXCEPT ![Team] = "live"]
  /\ staff' = [staff EXCEPT ![leader] = "leader"]
  /\ UNCHANGED <<member, link, adm, slipped, strays>>

\* add_team_member.
InviteTeamMember(r, who, m) ==
  /\ adm[r].pc = "idle" /\ Begin
  /\ Exists(Team) /\ CanManage(who) /\ row[m] = "live"
  /\ staff[m] = "none"                  \* else the key is taken
  /\ staff' = [staff EXCEPT ![m] = "member"]
  /\ UNCHANGED <<row, member, link, adm, slipped, strays>>

\* create_human, in a team of one's own, and register, in none.
CreateHuman(r, who, p) ==
  /\ adm[r].pc = "idle" /\ Begin
  /\ Offered(who) /\ row[p] = "none"
  /\ row' = [row EXCEPT ![p] = "live"]
  /\ staff' = [staff EXCEPT ![p] = "member"]
  /\ UNCHANGED <<member, link, adm, slipped, strays>>

Register(r, p) ==
  /\ adm[r].pc = "idle" /\ Begin
  /\ row[p] = "none"
  /\ row' = [row EXCEPT ![p] = "live"]
  /\ UNCHANGED <<member, staff, link, adm, slipped, strays>>

\* get_or_create_direct: one that exists is returned if it is live; else peer and
\* workspace are looked up ...
OpenDirect(r, d) ==
  /\ adm[r].pc = "idle" /\ Begin
  /\ d \in Directs /\ ~Exists(d)
  /\ \A a \in d : row[a] = "live"
  /\ Exists(Workspace) /\ \E p \in d : <<Workspace, p>> \in member
  /\ Goto(r, [Idle EXCEPT !.pc = "direct", !.at = d])
  /\ UNCHANGED <<row, member, staff, link, slipped, strays>>

\* ... and the channel, the pair and both memberships inserted; the second of two
\* requests runs into the key and is rolled back.
InsertDirect(r) ==
  LET d == adm[r].at IN
  /\ adm[r].pc = "direct"
  /\ ~Exists(d)
  /\ row' = [row EXCEPT ![d] = "live"]
  /\ member' = member \union {<<d, m>> : m \in d}
  /\ strays' = IF Stays(Workspace) /\ \A a \in d \intersect Agents : Stays(a)
               THEN strays \ {<<d>>} ELSE strays \union {<<d>>}
  /\ Done(r)
  /\ UNCHANGED <<staff, link, ops, slipped>>

\* The id is made of the name: one that was deleted can be registered again.
RegisterAgent(r, a) ==
  /\ adm[r].pc = "idle" /\ Begin
  /\ row[a] \in {"none", "gone"}
  /\ row' = [row EXCEPT ![a] = "live"]
  /\ UNCHANGED <<member, staff, link, adm, slipped, strays>>

-----------------------------------------------------------------------------
\* Membership.

\* assign_channel_member looks at the member, the channel and the workspace ...
AssignMember(r, c, m, who) ==
  /\ adm[r].pc = "idle" /\ Begin
  /\ row[c] = "live" /\ row[Workspace] = "live" /\ row[m] = "live"
  /\ CanManage(who)
  /\ Goto(r, [Idle EXCEPT !.pc = "assign", !.at = c, !.who = m])
  /\ UNCHANGED <<row, member, staff, link, slipped, strays>>

\* ... and updates or inserts the membership.
AddMember(r) ==
  LET c == adm[r].at
      m == adm[r].who
  IN  /\ adm[r].pc = "assign"
      /\ member' = member \union {<<c, m>>}
      /\ strays' = IF Exists(c) /\ (m \in Agents => Exists(m)) THEN strays
                   ELSE strays \union {<<c, m>>}
      /\ Done(r)
      /\ UNCHANGED <<row, staff, link, ops, slipped>>

RemoveMember(r, c, m, who) ==
  /\ adm[r].pc = "idle" /\ Begin
  /\ row[c] = "live" /\ row[Workspace] = "live" /\ CanManage(who)
  /\ <<c, m>> \in member
  /\ member' = member \ {<<c, m>>}
  /\ UNCHANGED <<row, staff, link, adm, slipped, strays>>

-----------------------------------------------------------------------------
\* Lifecycle.

\* Mutant: the socket is left alone.
HangUpNot(x) == UNCHANGED link

\* agent_manager.close, before anything is written.
HangUp(x) == link' = IF x \in Agents /\ link[x] = "on" THEN [link EXCEPT ![x] = "off"] ELSE link

StartArchive(r, x, who) ==
  /\ adm[r].pc = "idle" /\ Begin
  /\ x \notin People /\ Exists(x) /\ MayEnd(who, x)
  /\ HangUp(x)
  /\ Goto(r, [Idle EXCEPT !.pc = "archive", !.at = x])
  /\ UNCHANGED <<row, member, staff, slipped, strays>>

\* set_archived.
Archive(r) ==
  LET x == adm[r].at IN
  /\ adm[r].pc = "archive"
  /\ row' = IF Exists(x) THEN [row EXCEPT ![x] = "archived"] ELSE row
  /\ Done(r)
  /\ UNCHANGED <<member, staff, link, ops, slipped, strays>>

Restore(r, x, who) ==
  /\ adm[r].pc = "idle" /\ Begin
  /\ row[x] = "archived" /\ MayEnd(who, x)
  /\ row' = [row EXCEPT ![x] = "live"]
  /\ UNCHANGED <<member, staff, link, adm, slipped, strays>>

\* Mutant: the channels are those list_channels_for_workspace shows.
ListedShown(x) ==
  CASE x = Team -> {y \in Rooms \union {Workspace} : row[y] = "live"}
    [] x = Workspace -> {y \in Rooms : row[y] = "live"}
    [] x \in Channels -> {x}
    [] x \in Agents -> {d \in Directs : x \in d /\ Exists(d)}

\* delete_permanently lists what it will delete: the team's workspace and its
\* channels, or the agent's direct ones.
Listed(x) ==
  CASE x = Team -> Inside(x) \union {y \in {Workspace} : Exists(y)}
    [] x = Workspace -> Inside(x)
    [] x \in Channels -> {x}
    [] x \in Agents -> {d \in Directs : x \in d /\ Exists(d)}

StartDelete(r, x, who) ==
  /\ adm[r].pc = "idle" /\ Begin
  /\ x \notin People /\ Exists(x) /\ Role[who] = "superadmin"
  /\ HangUp(x)
  /\ Goto(r, [Idle EXCEPT !.pc = "delete", !.at = x, !.list = Listed(x)])
  /\ UNCHANGED <<row, member, staff, slipped, strays>>

\* What the deletion takes with it.
Removed(r) == {adm[r].at} \union adm[r].list

Delete(r) ==
  LET x == adm[r].at IN
  /\ adm[r].pc = "delete"
  /\ row' = [y \in Entities |-> IF y \in Removed(r) /\ Exists(y) THEN "gone" ELSE row[y]]
  /\ member' = {cm \in member : cm[1] \notin Removed(r) /\ cm[2] # x}
  /\ staff' = IF x = Team THEN [p \in People |-> "none"] ELSE staff
  /\ strays' = strays \ {<<y>> : y \in Removed(r)}
  /\ Done(r)
  /\ UNCHANGED <<link, ops, slipped>>

\* The request fails, is refused or is cancelled.
Abandon(r) ==
  /\ adm[r].pc # "idle"
  /\ Done(r)
  /\ UNCHANGED <<row, member, staff, link, ops, slipped, strays>>

-----------------------------------------------------------------------------
\* The agents' sockets.

\* agent_ws reads the key of a live agent and verifies the claim ...
Claim(a) ==
  /\ link[a] = "off" /\ Begin
  /\ row[a] = "live"
  /\ link' = [link EXCEPT ![a] = "admitted"]
  /\ UNCHANGED <<row, member, staff, adm, slipped, strays>>

\* ... and the connection is accepted.
Connect(a) ==
  /\ link[a] = "admitted"
  /\ link' = [link EXCEPT ![a] = "on"]
  /\ slipped' = IF row[a] # "live" \/ \E r \in Requests : adm[r].pc \in {"archive", "delete"} /\ adm[r].at = a
                THEN slipped \union {a} ELSE slipped \ {a}
  /\ UNCHANGED <<row, member, staff, adm, ops, strays>>

Disconnect(a) ==
  /\ link[a] # "off"
  /\ link' = [link EXCEPT ![a] = "off"]
  /\ UNCHANGED <<row, member, staff, adm, ops, slipped, strays>>

-----------------------------------------------------------------------------

\* The seed, whose person leads the team, or no more than the first superadmin.
MembersInit ==
  /\ \E seeded \in BOOLEAN :
       LET first == {p \in People : Role[p] = "superadmin"}
           rows == IF seeded THEN {Team, Workspace, Home} \union first \union Agents ELSE first
       IN  /\ row = [y \in Entities |-> IF y \in rows THEN "live" ELSE "none"]
           /\ member = IF seeded THEN {Home, Workspace} \X (first \union Agents) ELSE {}
           /\ staff = [p \in People |-> IF seeded /\ p \in first THEN "leader" ELSE "none"]
  /\ link = [a \in Agents |-> "off"]
  /\ adm = [r \in Requests |-> Idle]
  /\ ops = 0
  /\ slipped = {} /\ strays = {}

\* The steps that delete nothing.
Manage(r) ==
  \/ InsertEntity(r) \/ InsertDirect(r) \/ AddMember(r) \/ Archive(r) \/ Abandon(r)
  \/ \E d \in Directs : OpenDirect(r, d)
  \/ \E a \in Agents : RegisterAgent(r, a)
  \/ \E p \in People : Register(r, p)
  \/ \E who \in {p \in People : row[p] = "live"} :
       \/ CreateWorkspace(r, who)
       \/ \E x \in Rooms : CreateChannel(r, x, who)
       \/ \E p \in People :
            CreateTeam(r, who, p) \/ CreateHuman(r, who, p) \/ InviteTeamMember(r, who, p)
       \/ \E c \in Channels, m \in Everybody :
            AssignMember(r, c, m, who) \/ RemoveMember(r, c, m, who)
       \/ \E x \in Entities : StartArchive(r, x, who) \/ Restore(r, x, who)

Socket(a) == Claim(a) \/ Connect(a) \/ Disconnect(a)

-----------------------------------------------------------------------------

\* An archived or deleted agent is not connected: it is hung up before it is
\* archived, and can come on afterwards only if its claim was verified, or it
\* connected again, before the archival was committed.
ArchivedIsOffline ==
  \A a \in Agents : link[a] = "on" => row[a] = "live" \/ a \in slipped

\* What a permanent deletion takes, it takes whole: channels lie in a workspace
\* that exists, memberships join a channel and a member that exist, and a direct
\* channel has its peers; the exceptions were written by requests that had read
\* the row before it was deleted.
RowsHang ==
  /\ \A c \in Channels : Exists(c) => <<c>> \in strays \/ Exists(Workspace)
  /\ Exists(Workspace) => Exists(Team) \/ <<Workspace>> \in strays
  /\ \A cm \in member :
       cm \in strays \/ <<cm[1]>> \in strays \/ (Exists(cm[1]) /\ (cm[2] \in Agents => Exists(cm[2])))
  /\ \A d \in Directs : Exists(d) => <<d>> \in strays \/ \A a \in d \intersect Agents : Exists(a)

=============================================================================
