--------------------------------- MODULE Chat ---------------------------------
(***************************************************************************)
(* What is said in the channels of module Members: the pages that show a   *)
(* channel, the chat socket's turn for each thing a person says (store it, *)
(* echo it, ask the agent it mentions, store and tell the answer), what    *)
(* agents post with a tool, the announcements of moved cards, reactions,   *)
(* and what a permanent deletion takes of all that (api/routers/chat.py,   *)
(* ChatService, ConnectionManager, MultiAgentProvider, the chat            *)
(* repository, infrastructure/lifecycle.py).                               *)
(*                                                                         *)
(* A message is open from its insertion to the commit of its transaction;  *)
(* the first write takes SQLite's one write lock, and whoever else writes  *)
(* waits.  A page is a browser's: it joins the channel's room and loads    *)
(* the history, in either order, and draws what came later.  Of replies it *)
(* shows numbers, counted one thread after the other and raised as replies *)
(* are told; the numbers are left out, and who was told of a reply is not. *)
(***************************************************************************)
EXTENDS Members

CONSTANTS Builtin, MaxMsgs   \* the assistant that announces; a bound of the model

ASSUME BuiltinAssumption == Builtin \notin Everybody
ASSUME MsgsAssumption == MaxMsgs \in Nat

Ids == 1..MaxMsgs
Writers == Readers \union Agents

VARIABLES
  msg,      \* message rows; st is new, open, kept, gone (deleted) or void (rolled back)
  react,    \* message_reaction
  page,     \* the page each reader has open, its renderedIds and what it is loading
  turn,     \* what the socket of a person, or the tool frame of an agent, is at
  doomed,   \* what a deletion of an agent read that it will delete
  stale     \* history: <<message>> and <<message, person>> written over what was deleted already

cvars == <<msg, react, page, turn, doomed, stale>>
vars == <<mvars, cvars>>
others == <<row, member, staff, link, adm, slipped, strays>>

NoMsg == [by |-> Builtin, ch |-> Home, root |-> 0, via |-> "turn", st |-> "new"]
NoTurn == [pc |-> "idle", ch |-> Home, root |-> 0, id |-> 0, agent |-> Builtin]
\* A page of the seeded channel from before anything was said, its socket lost.
NoPage == [ch |-> Home, on |-> FALSE, ids |-> {}, load |-> "shown", rows |-> {}, whole |-> FALSE]

Kept == {i \in Ids : msg[i].st = "kept"}
Free == \A i \in Ids : msg[i].st # "open"     \* nobody holds the write lock
Author(m) == m.by \in Agents => Exists(m.by)  \* the JOIN with member finds it
IsDm(c) == c \in Directs

At(w, pc) == turn[w].pc = pc
Step(w, pc) == turn' = [turn EXCEPT ![w].pc = pc]
EndTurn(w) == turn' = [turn EXCEPT ![w] = NoTurn]

\* ConnectionManager.broadcast, to who has joined the channel's room; render notes
\* the id and draws a message of the main line.  A reply raises its thread's number
\* if that is on the page, and is otherwise only noted.
Broadcast(c, i) ==
  page' = [p \in Readers |-> IF page[p].on /\ page[p].ch = c
                            THEN [page[p] EXCEPT !.ids = @ \union {i}] ELSE page[p]]

\* What a row to be written refers to has been deleted, or is on the list of a
\* deletion under way.
Overtaken(m) ==
  \/ ~Exists(m.ch) \/ ~Author(m) \/ (m.root # 0 /\ m.root \notin Kept)
  \/ \E r \in Requests : /\ adm[r].pc = "delete" /\ adm[r].at \in Agents
                         /\ adm[r].list = {}
                         /\ m.by = adm[r].at \/ m.root \in doomed[r]

\* add_message: an uncommitted row.
Insert(m) ==
  \E i \in Ids :
    /\ msg[i].st = "new" /\ \A j \in 1..(i - 1) : msg[j].st # "new"
    /\ Free
    /\ msg' = [msg EXCEPT ![i] = [m EXCEPT !.st = "open"]]

Settle(S, st) == msg' = [i \in Ids |-> IF i \in S THEN [msg[i] EXCEPT !.st = st] ELSE msg[i]]
Opened == CHOOSE i \in Ids : msg[i].st = "open"
Commit ==
  /\ Settle({Opened}, "kept")
  /\ stale' = IF Overtaken(msg[Opened]) THEN stale \union {<<Opened>>} ELSE stale

-----------------------------------------------------------------------------
\* Pages.

\* A page of the channel is opened; what was open before is left.
Visit(p, c) ==
  /\ Begin
  /\ At(p, "idle")
  /\ Access(c, p)
  /\ page' = [page EXCEPT ![p] = [NoPage EXCEPT !.ch = c, !.load = "no", !.whole = TRUE]]
  /\ UNCHANGED <<others, msg, react, turn, doomed, stale>>

\* chat_ws: membership is looked at here and not again.
Join(p) ==
  /\ ~page[p].on
  /\ Access(page[p].ch, p)
  /\ page' = [page EXCEPT ![p].on = TRUE, ![p].whole = @ /\ page[p].load = "no"]
  /\ UNCHANGED <<mvars, msg, react, turn, doomed, stale>>

\* What can be read of a channel: the author is joined to the row.
Legible(c) == {i \in Kept : msg[i].ch = c /\ Author(msg[i])}

\* list_messages: the main line of the channel; the numbers of replies come after.
History(c) == {i \in Legible(c) : msg[i].root = 0}

\* resync, once for a page: not when its socket reconnects.  The rows are read ...
Load(p) ==
  /\ page[p].load = "no"
  /\ Access(page[p].ch, p)
  /\ page' = [page EXCEPT ![p] =
       [page[p] EXCEPT !.load = "reading", !.rows = History(page[p].ch), !.whole = @ /\ page[p].on]]
  /\ UNCHANGED <<mvars, msg, react, turn, doomed, stale>>

\* Mutant: what came is drawn in place of what has been told.
RenderOver(p) ==
  /\ page[p].load = "reading"
  /\ page' = [page EXCEPT ![p] =
       [page[p] EXCEPT !.load = "shown", !.ids = page[p].rows, !.rows = {}]]
  /\ UNCHANGED <<mvars, msg, react, turn, doomed, stale>>

\* ... and drawn when the response has come, beside what has been told.
Render(p) ==
  /\ page[p].load = "reading"
  /\ page' = [page EXCEPT ![p] =
       [page[p] EXCEPT !.load = "shown", !.ids = @ \union page[p].rows, !.rows = {}]]
  /\ UNCHANGED <<mvars, msg, react, turn, doomed, stale>>

\* The socket drops; a turn it is in goes on.
Cut(p) ==
  /\ Begin
  /\ page[p].on
  /\ page' = [page EXCEPT ![p].on = FALSE, ![p].whole = FALSE]
  /\ UNCHANGED <<others, msg, react, turn, doomed, stale>>

-----------------------------------------------------------------------------
\* A person's turn.

\* receive_json; a reply's thread has to be in the channel.
Say(p, root) ==
  /\ Begin
  /\ At(p, "idle") /\ page[p].on
  /\ root # 0 => root \in Legible(page[p].ch)
  /\ turn' = [turn EXCEPT ![p] = [NoTurn EXCEPT !.pc = "say", !.ch = page[p].ch, !.root = root]]
  /\ UNCHANGED <<others, msg, react, page, doomed, stale>>

Saying(w) == [NoMsg EXCEPT !.by = w, !.ch = turn[w].ch, !.root = turn[w].root,
                           !.via = IF w \in Readers THEN "turn" ELSE "tool"]

Post(p) ==
  /\ p \in Readers /\ At(p, "say")
  /\ Insert(Saying(p))
  /\ Step(p, "open")
  /\ UNCHANGED <<mvars, react, page, doomed, stale>>

\* Mutant: the transaction is left open until the turn ends.
CommitPostLater(p) ==
  /\ At(p, "open")
  /\ turn' = [turn EXCEPT ![p].pc = "echo", ![p].id = Opened]
  /\ UNCHANGED <<mvars, msg, react, page, doomed, stale>>

\* It is committed before anybody is told or asked.
CommitPost(p) ==
  /\ At(p, "open")
  /\ Commit
  /\ turn' = [turn EXCEPT ![p].pc = "echo", ![p].id = Opened]
  /\ UNCHANGED <<mvars, react, page, doomed>>

\* It is echoed, and the agent it is for looked up among the live ones.
Echo(p) ==
  /\ At(p, "echo")
  /\ Broadcast(turn[p].ch, turn[p].id)
  /\ \/ EndTurn(p)
     \/ \E a \in Agents : /\ row[a] = "live"
                          /\ turn' = [turn EXCEPT ![p].pc = "ask", ![p].agent = a]
  /\ UNCHANGED <<mvars, msg, react, doomed, stale>>

\* The agent, or a notice in its name, answers: in a thread under what was said,
\* or in line in a direct channel.  The author is read back with the row.
Answering(p) ==
  [NoMsg EXCEPT !.by = turn[p].agent, !.ch = turn[p].ch,
                !.root = IF turn[p].root # 0 THEN turn[p].root
                         ELSE IF IsDm(turn[p].ch) THEN 0 ELSE turn[p].id]

Answer(p) ==
  /\ At(p, "ask")
  /\ Exists(turn[p].agent)
  /\ Insert(Answering(p))
  /\ Step(p, "reply")
  /\ UNCHANGED <<mvars, react, page, doomed, stale>>

Silence(p) ==
  /\ At(p, "ask")
  /\ EndTurn(p)
  /\ UNCHANGED <<mvars, msg, react, page, doomed, stale>>

CommitTurn(p) ==
  /\ At(p, "reply")
  /\ Commit
  /\ turn' = [turn EXCEPT ![p].pc = "tell", ![p].id = Opened]
  /\ UNCHANGED <<mvars, react, page, doomed>>

Tell(p) ==
  /\ At(p, "tell")
  /\ Broadcast(turn[p].ch, turn[p].id)
  /\ EndTurn(p)
  /\ UNCHANGED <<mvars, msg, react, doomed, stale>>

\* An exception of the turn, as when the agent was deleted: what is open is rolled
\* back and the socket closed.
Fail(p) ==
  /\ turn[p].pc \in {"say", "open", "ask", "reply"}
  /\ Settle(IF turn[p].pc \in {"open", "reply"} THEN {Opened} ELSE {}, "void")
  /\ page' = [page EXCEPT ![p].on = FALSE, ![p].whole = FALSE]
  /\ EndTurn(p)
  /\ UNCHANGED <<mvars, react, doomed, stale>>

-----------------------------------------------------------------------------
\* What agents post, announcements and reactions.

\* The tool post_message of a connected agent looks at the channel ...
AgentPost(a, c) ==
  /\ Begin
  /\ At(a, "idle") /\ link[a] = "on"
  /\ Access(c, a)
  /\ turn' = [turn EXCEPT ![a] = [NoTurn EXCEPT !.pc = "say", !.ch = c]]
  /\ UNCHANGED <<others, msg, react, page, doomed, stale>>

\* ... and writes, whatever has become of it and of the agent: an exception is made
\* the tool's result and what was inserted committed.
AgentWrite(a) ==
  /\ a \in Agents /\ At(a, "say")
  /\ Insert(Saying(a))
  /\ Step(a, "open")
  /\ UNCHANGED <<mvars, react, page, doomed, stale>>

\* The page is not told.
AgentCommit(a) ==
  /\ a \in Agents /\ At(a, "open")
  /\ Commit
  /\ EndTurn(a)
  /\ UNCHANGED <<mvars, react, page, doomed>>

\* A moved card is announced in the seeded channel, to the pages before the commit.
Announce ==
  /\ Begin
  /\ row[Home] # "none"
  /\ Insert([NoMsg EXCEPT !.via = "card"])
  /\ Broadcast(Home, CHOOSE i \in Ids : msg[i].st = "new" /\ msg'[i].st = "open")
  /\ UNCHANGED <<others, react, turn, doomed, stale>>

AnnounceEnd ==
  /\ ~Free /\ msg[Opened].via = "card"
  /\ Commit \/ (Settle({Opened}, "void") /\ UNCHANGED stale)
  /\ UNCHANGED <<mvars, react, page, turn, doomed>>

\* toggle_message_reaction looks at the message ...
React(p, i) ==
  /\ Begin
  /\ At(p, "idle")
  /\ i \in Kept /\ Access(msg[i].ch, p)
  /\ turn' = [turn EXCEPT ![p] = [NoTurn EXCEPT !.pc = "react", !.id = i]]
  /\ UNCHANGED <<others, msg, react, page, doomed, stale>>

\* ... and inserts a reaction or deletes it.
Toggle(p) ==
  LET i == turn[p].id IN
  /\ At(p, "react") /\ Free
  /\ react' = IF <<i, p>> \in react THEN react \ {<<i, p>>} ELSE react \union {<<i, p>>}
  /\ stale' = IF i \in Kept /\ \A r \in Requests : i \notin doomed[r]
              THEN stale ELSE stale \union {<<i, p>>}
  /\ EndTurn(p)
  /\ UNCHANGED <<mvars, msg, page, doomed>>

-----------------------------------------------------------------------------
\* Deletion.

\* _agent_message_ids: what the agent wrote, and the replies below.
Doomed(a) ==
  LET below[i \in Ids] ==
        i \in Kept /\ (msg[i].by = a \/ (msg[i].root # 0 /\ below[msg[i].root]))
  IN  {i \in Ids : below[i]}

\* With no direct channel to delete before, these are read before the write lock
\* is taken.
ReadDoomed(r, x) ==
  doomed' = [doomed EXCEPT ![r] = IF x \in Agents /\ Listed(x) = {} THEN Doomed(x) ELSE {}]

\* The messages the deletion deletes.
Swept(r) ==
  {i \in Kept : msg[i].ch \in adm[r].list} \union
  (IF adm[r].at \in Agents THEN IF adm[r].list = {} THEN doomed[r] ELSE Doomed(adm[r].at) ELSE {})

StartDeleteAll(r, x, who) ==
  /\ StartDelete(r, x, who)
  /\ ReadDoomed(r, x)
  /\ UNCHANGED <<msg, react, page, turn, stale>>

DeleteAll(r) ==
  /\ Free
  /\ Delete(r)
  /\ Settle(Swept(r), "gone")
  /\ react' = {ip \in react : ip[1] \notin Swept(r)}
  /\ doomed' = [doomed EXCEPT ![r] = {}]
  /\ UNCHANGED <<page, turn, stale>>

\* The server restarts: every socket, turn and request is lost.
Restart ==
  /\ Begin
  /\ Settle({i \in Ids : msg[i].st = "open"}, "void")
  /\ page' = [p \in Readers |-> [page[p] EXCEPT !.on = FALSE, !.whole = FALSE]]
  /\ turn' = [w \in Writers |-> NoTurn]
  /\ link' = [a \in Agents |-> "off"]
  /\ adm' = [r \in Requests |-> Idle]
  /\ doomed' = [r \in Requests |-> {}]
  /\ UNCHANGED <<row, member, staff, slipped, strays, react, stale>>

-----------------------------------------------------------------------------

Init ==
  /\ MembersInit
  /\ msg = [i \in Ids |-> NoMsg]
  /\ react = {}
  /\ page = [p \in Readers |-> NoPage]
  /\ turn = [w \in Writers |-> NoTurn]
  /\ doomed = [r \in Requests |-> {}]
  /\ stale = {}

Person(p) ==
  \/ \E c \in Channels : Visit(p, c)
  \/ Join(p) \/ Load(p) \/ Render(p) \/ Cut(p)
  \/ \E root \in Ids \union {0} : Say(p, root)
  \/ Post(p) \/ CommitPost(p) \/ Echo(p) \/ Answer(p) \/ Silence(p)
  \/ CommitTurn(p) \/ Tell(p) \/ Fail(p)
  \/ \E i \in Ids : React(p, i)
  \/ Toggle(p)

Agent(a) ==
  \/ Socket(a) /\ UNCHANGED cvars
  \/ \E c \in Channels : AgentPost(a, c)
  \/ AgentWrite(a) \/ AgentCommit(a)

Request(r) ==
  \/ Free /\ Manage(r) /\ doomed' = [doomed EXCEPT ![r] = {}]
          /\ UNCHANGED <<msg, react, page, turn, stale>>
  \/ \E x \in Entities, who \in {p \in People : row[p] = "live"} : StartDeleteAll(r, x, who)
  \/ DeleteAll(r)

Next ==
  \/ \E p \in Readers : Person(p)
  \/ \E a \in Agents : Agent(a)
  \/ \E r \in Requests : Request(r)
  \/ Announce \/ AnnounceEnd \/ Restart

Spec == Init /\ [][Next]_vars

-----------------------------------------------------------------------------

\* Of workspaces, channels, memberships, direct channels, messages and reactions a
\* deletion leaves none behind that refers to what it took: a message is in a channel
\* that exists, by an author who exists, under a message that exists, and a reaction
\* is to one.  The exceptions were written after the deletion had listed or deleted
\* what they refer to.
NothingDangles ==
  /\ RowsHang
  /\ \A i \in Kept : \/ <<i>> \in stale
                     \/ /\ Exists(msg[i].ch) /\ Author(msg[i])
                        /\ msg[i].root # 0 => msg[i].root \in Kept
  /\ \A ip \in react : ip[1] \in Kept \/ ip \in stale

\* What a page was given of what people and agents said was committed when it was
\* given, however the turn ended: it is there, or was deleted since.
ShownIsDurable ==
  \A p \in Readers, i \in Ids :
    i \in page[p].ids /\ msg[i].via # "card" => msg[i].st \in {"kept", "gone"}

\* A page that joined before it read the history, and was never cut, shows all that
\* was said in its channel's main line, but for what a turn has yet to broadcast:
\* nothing slips through between the read, the drawing and the broadcasts.
PageComplete ==
  \A p \in Readers, i \in Kept :
    /\ page[p].whole /\ page[p].load = "shown"
    /\ msg[i].ch = page[p].ch /\ msg[i].root = 0 /\ msg[i].via = "turn"
    => \/ i \in page[p].ids \/ <<i>> \in stale
       \/ \E w \in Readers : turn[w].pc \in {"echo", "tell"} /\ turn[w].id = i

=============================================================================
