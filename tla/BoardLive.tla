----------------------------- MODULE BoardLive -----------------------------
(***************************************************************************)
(* The pages of a board and the changes they are sent while they are open  *)
(* (api/routers/boards.py and cards.py, api/board_live.py, the tools of    *)
(* application/tools.py, static/board_live.js).                            *)
(*                                                                         *)
(* A request writes under SQLite's one write lock, sends the change to the *)
(* pages before it commits, and commits or rolls back.  A move that starts *)
(* a workflow is committed before the workflow runs and sent after it; an  *)
(* edit that changes nothing takes no lock.  Pages read column by column,  *)
(* each read a transaction of its own.  What a page that shows a planning  *)
(* view (module Planning) does with changes is left out; how cards come by *)
(* places and workflows by their rules is in modules Cards and Board.      *)
(***************************************************************************)
EXTENDS Planning

CONSTANTS
  Cards,
  Contents,    \* what the fields of a card may hold
  Blank,       \* ... of a new one
  Pages,       \* browser pages of somebody with access to the board
  Requests,    \* concurrent requests and tool calls
  Nobody,
  Raw,         \* settings that may stand in a page's address
  MaxToday,    \* bound of the model: days that pass
  MaxOps       \* bound of the model: requests, pages and losses of access

ASSUME CardAssumption ==
  /\ IsFiniteSet(Cards)
  /\ Blank \in Contents
  /\ \A data \in Contents : data.due \in [form : Forms, day : Nat]
ASSUME RequestAssumption == Nobody \notin Requests \union Cards \union Pages
ASSUME RawAssumption ==
  \A raw \in Raw : DOMAIN raw.filter = {"who", "agent", "label", "priority", "due", "status"}
ASSUME BoundAssumption == MaxToday \in Nat /\ MaxOps \in Nat

VARIABLES
  row,       \* card and its comments, as committed
  lock,      \* the request that holds the write lock
  written,   \* ... and what it sees
  req,       \* what each request is at
  page,      \* the pages
  queue,     \* changes on their way to each page
  late,      \* history: cards a page was told something outdated of, or nothing
  saved,     \* board_saved_view, with the settings of the page it was saved from
  reach,     \* the board is live and the person in its workspace
  today, ops

vars == <<row, lock, written, req, page, queue, late, saved, reach, today, ops>>

Absent == [there |-> FALSE, at |-> CHOOSE k \in Columns : TRUE, data |-> Blank, notes |-> {}]
Idle == [pc |-> "idle", kind |-> "none", id |-> Nobody, copy |-> Absent, by |-> Nobody]
NoSettings == [view |-> "board", by |-> "none", filter |-> Every]
Closed == [pc |-> "closed", on |-> FALSE, left |-> {}, got |-> {}, shows |-> {},
           resp |-> {}, over |-> {}, whole |-> FALSE, set |-> NoSettings]

Begin == ops < MaxOps /\ ops' = ops + 1
Goto(r, state) == req' = [req EXCEPT ![r] = state]
Sees(r) == IF lock = r THEN written ELSE row

\* The columns themselves, whatever the filter.
Plain(set) == set.view = "board" /\ set.by = "none"

\* A card as a fragment shows it.
Fragment(c, copy) == [id |-> c, at |-> copy.at, data |-> copy.data, notes |-> copy.notes]
Board(rows) == {Fragment(c, rows[c]) : c \in {d \in Cards : rows[d].there}}

Late(S) == late' = [p \in Pages |-> late[p] \union S]

\* A write, which takes the lock or has it.
Write(r, c, new) ==
  /\ lock \in {Nobody, r}
  /\ lock' = r
  /\ written' = [Sees(r) EXCEPT ![c] = new]

Unlock == lock' = Nobody /\ written' = row'

-----------------------------------------------------------------------------
\* Requests: "by" is the page a request comes from, whose board it gives back.

CreateCard(r, c, k, p) ==
  LET new == [Absent EXCEPT !.there = TRUE, !.at = k] IN
  /\ req[r].pc = "idle" /\ Begin /\ reach
  /\ ~row[c].there
  /\ Write(r, c, new)
  /\ Goto(r, [pc |-> "tell", kind |-> "created", id |-> c, copy |-> new, by |-> p])
  /\ UNCHANGED <<row, page, queue, late, saved, reach, today>>

MoveCard(r, c, k, p) ==
  LET new == [row[c] EXCEPT !.at = k] IN
  /\ req[r].pc = "idle" /\ Begin /\ reach
  /\ row[c].there
  /\ Write(r, c, new)
  /\ Goto(r, [pc |-> "move", kind |-> "moved", id |-> c, copy |-> new, by |-> p])
  /\ UNCHANGED <<row, page, queue, late, saved, reach, today>>

MoveOnly(r) ==
  /\ req[r].pc = "move"
  /\ Goto(r, [req[r] EXCEPT !.pc = "tell"])
  /\ UNCHANGED <<row, lock, written, page, queue, late, saved, reach, today, ops>>

\* What a page reads while a change is committed it may read in part.
Torn == [p \in Pages |-> IF page[p].pc = "fetch" THEN [page[p] EXCEPT !.whole = FALSE] ELSE page[p]]

\* The column has a workflow: start_run commits what was written with it.
MoveStarts(r) ==
  /\ req[r].pc = "move"
  /\ row' = written
  /\ Unlock
  /\ page' = Torn
  /\ Goto(r, [req[r] EXCEPT !.pc = "flow"])
  /\ UNCHANGED <<queue, late, saved, reach, today, ops>>

\* It has run, and bind_column_move_trigger writes: the card is as it was moved.
FlowEnds(r) ==
  /\ req[r].pc = "flow"
  /\ lock = Nobody
  /\ lock' = r /\ written' = row
  /\ Goto(r, [req[r] EXCEPT !.pc = "tell"])
  /\ UNCHANGED <<row, page, queue, late, saved, reach, today, ops>>

\* update_card reads the card ...
EditCard(r, c, data) ==
  /\ req[r].pc = "idle" /\ Begin /\ reach
  /\ row[c].there
  /\ Goto(r, [pc |-> "edit", kind |-> "updated", id |-> c, copy |-> [row[c] EXCEPT !.data = data],
              by |-> Nobody])
  /\ UNCHANGED <<row, lock, written, page, queue, late, saved, reach, today>>

\* ... and writes it if something is different, and what is sent is read again.
WriteEdit(r) ==
  LET c == req[r].id
      new == [Sees(r)[c] EXCEPT !.data = req[r].copy.data]
  IN  /\ req[r].pc = "edit"
      /\ Write(r, c, new)
      /\ Goto(r, [req[r] EXCEPT !.pc = "tell", !.copy = new])
      /\ UNCHANGED <<row, page, queue, late, saved, reach, today, ops>>

EditNothing(r) ==
  /\ req[r].pc = "edit"
  /\ req[r].copy.data = row[req[r].id].data
  /\ Goto(r, [req[r] EXCEPT !.pc = "tell", !.copy = row[req[r].id]])
  /\ UNCHANGED <<row, lock, written, page, queue, late, saved, reach, today, ops>>

AddComment(r, c) ==
  LET new == [row[c] EXCEPT !.notes = @ \union {ops'}] IN
  /\ req[r].pc = "idle" /\ Begin /\ reach
  /\ row[c].there
  /\ Write(r, c, new)
  /\ Goto(r, [pc |-> "tell", kind |-> "comment", id |-> c, copy |-> new, by |-> Nobody])
  /\ UNCHANGED <<row, page, queue, late, saved, reach, today>>

\* What the pages have been told of a card.
Announced(r, c) ==
  IF lock = r \/ (lock # Nobody /\ req[lock].pc = "told") THEN written[c] ELSE row[c]

\* The board is read for the page the request comes from, and the change sent to
\* all that have joined; who has not misses it.
Tell(r) ==
  LET c == req[r].id
      delta == [kind |-> req[r].kind, card |-> Fragment(c, req[r].copy)]
      open == {p \in Pages : page[p].pc # "closed"}
  IN  /\ req[r].pc = "tell"
      /\ page' = [p \in Pages |->
           IF p \notin open THEN page[p]
           ELSE [page[p] EXCEPT
                   !.whole = @ /\ page[p].on,
                   !.resp = IF p = req[r].by /\ page[p].pc = "shown" THEN {Board(Sees(r))} ELSE @,
                   !.over = IF p = req[r].by THEN {} ELSE @]]
      /\ queue' = [p \in Pages |-> IF page[p].on THEN Append(queue[p], delta) ELSE queue[p]]
      /\ IF req[r].copy = Announced(r, c) THEN UNCHANGED late ELSE Late({c})
      /\ Goto(r, [req[r] EXCEPT !.pc = "told"])
      /\ UNCHANGED <<row, lock, written, saved, reach, today, ops>>

Commit(r) ==
  /\ req[r].pc = "told"
  /\ IF lock = r
     THEN row' = written /\ Unlock /\ page' = IF row' = row THEN page ELSE Torn
     ELSE UNCHANGED <<row, lock, written, page>>
  /\ Goto(r, Idle)
  /\ UNCHANGED <<queue, late, saved, reach, today, ops>>

\* An exception, a cancelled request, or a tool whose turn is rolled back.
Rollback(r) ==
  /\ req[r].pc # "idle"
  /\ IF lock = r THEN lock' = Nobody /\ written' = row ELSE UNCHANGED <<lock, written>>
  /\ Late({req[r].id} \ {Nobody})
  /\ Goto(r, Idle)
  /\ UNCHANGED <<row, page, queue, saved, reach, today, ops>>

-----------------------------------------------------------------------------
\* Pages.

\* A page is opened or loaded again; what was there is gone.
Load(p, set) ==
  page' = [page EXCEPT ![p] = [Closed EXCEPT !.pc = "fetch", !.left = Columns, !.set = Shown(set),
             !.whole = \A r \in Requests : req[r].pc # "told"]]

OpenPage(p, raw) ==
  /\ Begin /\ reach
  /\ Load(p, raw)
  /\ queue' = [queue EXCEPT ![p] = <<>>]
  /\ UNCHANGED <<row, lock, written, req, late, saved, reach, today>>

\* _column_with_cards, once for each column.
ReadColumn(p, k) ==
  /\ page[p].pc = "fetch" /\ k \in page[p].left
  /\ page' = [page EXCEPT ![p].left = @ \ {k},
                          ![p].got = @ \union {card \in Board(row) : card.at = k}]
  /\ UNCHANGED <<row, lock, written, req, queue, late, saved, reach, today, ops>>

Render(p) ==
  /\ page[p].pc = "fetch" /\ page[p].left = {}
  /\ page' = [page EXCEPT ![p].pc = "shown", ![p].shows = page[p].got]
  /\ late' = [late EXCEPT ![p] = {}]
  /\ UNCHANGED <<row, lock, written, req, queue, saved, reach, today, ops>>

\* board_ws asks for access once; connectLive connects again without a reload.
Join(p) ==
  /\ page[p].pc = "shown" /\ ~page[p].on /\ reach
  /\ Plain(page[p].set)
  /\ page' = [page EXCEPT ![p].on = TRUE]
  /\ UNCHANGED <<row, lock, written, req, queue, late, saved, reach, today, ops>>

Cut(p) ==
  /\ Begin
  /\ page[p].on
  /\ page' = [page EXCEPT ![p].on = FALSE, ![p].whole = FALSE]
  /\ queue' = [queue EXCEPT ![p] = <<>>]
  /\ UNCHANGED <<row, lock, written, req, late, saved, reach, today>>

\* Mutant: a moved card is replaced where it is.
AppliedInPlace(shows, delta) ==
  LET same == {card \in shows : card.id = delta.card.id} IN
  CASE delta.kind = "created" /\ same = {} -> shows \union {delta.card}
    [] delta.kind \in {"moved", "updated"} ->
         (shows \ same) \union {[delta.card EXCEPT !.at = card.at] : card \in same}
    [] delta.kind = "comment" ->
         (shows \ same) \union {[card EXCEPT !.notes = @ \union delta.card.notes] : card \in same}
    [] OTHER -> shows

\* applyBoardDelta.
Applied(shows, delta) ==
  LET same == {card \in shows : card.id = delta.card.id} IN
  CASE delta.kind = "created" /\ same = {} -> shows \union {delta.card}
    [] delta.kind = "moved" /\ same # {} -> (shows \ same) \union {delta.card}
    [] delta.kind = "updated" ->
         (shows \ same) \union {[delta.card EXCEPT !.at = card.at] : card \in same}
    [] delta.kind = "comment" ->
         (shows \ same) \union {[card EXCEPT !.notes = @ \union delta.card.notes] : card \in same}
    [] OTHER -> shows

Deliver(p) ==
  LET delta == Head(queue[p]) IN
  /\ page[p].on /\ queue[p] # <<>>
  /\ page' = [page EXCEPT ![p].shows = Applied(@, delta),
                          ![p].over = IF \A board \in page[p].resp : delta.card \in board THEN @
                                      ELSE @ \union {delta.card.id}]
  /\ queue' = [queue EXCEPT ![p] = Tail(@)]
  /\ UNCHANGED <<row, lock, written, req, late, saved, reach, today, ops>>

\* The board the request of the page gave back takes the place of what is shown.
Swap(p) ==
  \E board \in page[p].resp :
  /\ page' = [page EXCEPT ![p].shows = board, ![p].resp = {}, ![p].over = {}]
  /\ late' = [late EXCEPT ![p] = @ \union page[p].over]
  /\ UNCHANGED <<row, lock, written, req, queue, saved, reach, today, ops>>

-----------------------------------------------------------------------------
\* Saved views, access and the day.

SaveView(p) ==
  /\ Begin /\ reach
  /\ page[p].pc = "shown"
  /\ saved' = saved \union {[view |-> Saved(page[p].set), from |-> page[p].set]}
  /\ UNCHANGED <<row, lock, written, req, page, queue, late, reach, today>>

\* The owner's, on a board within reach: a redirect to the page.
OpenView(p, v) ==
  /\ Begin /\ reach
  /\ v \in saved
  /\ Load(p, Params(v.view))
  /\ queue' = [queue EXCEPT ![p] = <<>>]
  /\ UNCHANGED <<row, lock, written, req, late, saved, reach, today>>

DeleteView(v) ==
  /\ Begin /\ reach
  /\ v \in saved
  /\ saved' = saved \ {v}
  /\ UNCHANGED <<row, lock, written, req, page, queue, late, reach, today>>

ReachChanges ==
  /\ Begin
  /\ reach' = ~reach
  /\ UNCHANGED <<row, lock, written, req, page, queue, late, saved, today>>

NextDay ==
  /\ today < MaxToday /\ today' = today + 1
  /\ UNCHANGED <<row, lock, written, req, page, queue, late, saved, reach, ops>>

-----------------------------------------------------------------------------

Init ==
  /\ \E c \in Cards, k \in Columns :
       row = [d \in Cards |-> IF d = c THEN [Absent EXCEPT !.there = TRUE, !.at = k] ELSE Absent]
  /\ lock = Nobody /\ written = row
  /\ req = [r \in Requests |-> Idle]
  /\ page = [p \in Pages |-> Closed]
  /\ queue = [p \in Pages |-> <<>>]
  /\ late = [p \in Pages |-> {}]
  /\ saved = {}
  /\ reach = TRUE
  /\ today = 0 /\ ops = 0

RequestStep(r) ==
  \/ \E c \in Cards :
       \/ \E k \in Columns, p \in Pages \union {Nobody} : CreateCard(r, c, k, p) \/ MoveCard(r, c, k, p)
       \/ \E data \in Contents : EditCard(r, c, data)
       \/ AddComment(r, c)
  \/ MoveOnly(r) \/ MoveStarts(r) \/ FlowEnds(r)
  \/ WriteEdit(r) \/ EditNothing(r)
  \/ Tell(r) \/ Commit(r) \/ Rollback(r)

PageStep(p) ==
  \/ \E raw \in Raw : OpenPage(p, raw)
  \/ \E k \in Columns : ReadColumn(p, k)
  \/ Render(p) \/ Join(p) \/ Cut(p) \/ Deliver(p) \/ Swap(p)
  \/ SaveView(p)
  \/ \E v \in saved : OpenView(p, v)

Next ==
  \/ \E r \in Requests : RequestStep(r)
  \/ \E p \in Pages : PageStep(p)
  \/ \E v \in saved : DeleteView(v)
  \/ ReachChanges \/ NextDay

Spec == Init /\ [][Next]_vars

-----------------------------------------------------------------------------

\* The requests that have not yet told of a card, or may take it back.
Open(c) == {r \in Requests : req[r].pc # "idle" /\ req[r].id = c}

\* A page that has joined before anything changed, and was never cut, shows a card
\* once, where and as it is, as soon as nobody is at it and nothing is on its way:
\* whatever order moves, edits, comments, answers and changes came in.  The
\* exceptions are cards of which the pages were told something outdated, as after
\* a workflow that took its time, or that was rolled back.
LiveTrue ==
  \A p \in Pages : page[p].pc = "shown" /\ page[p].whole /\ page[p].resp = {} /\ queue[p] = <<>> =>
    \A c \in Cards : Open(c) = {} /\ c \notin late[p] =>
      {card \in page[p].shows : card.id = c} = {card \in Board(row) : card.id = c}

\* The cards of the board in the shape of module Planning.
Planned ==
  {[id |-> card.id, at |-> card.at, who |-> card.data.who, priority |-> card.data.priority,
    labels |-> card.data.labels, due |-> card.data.due] : card \in Board(row)}

\* What the planning views of the board show agrees, under every filter there is,
\* and a saved view opens as the page it was saved from.
PlanningAgrees ==
  /\ \A raw \in Raw : Agree(Planned, raw.filter, today)
  /\ \A v \in saved : Shown(Params(v.view)) = v.from

=============================================================================
