------------------------------- MODULE Board -------------------------------
(***************************************************************************)
(* One board: its columns and their order, a card that people and agents   *)
(* move between them, and the rules that start a workflow when a card      *)
(* enters a column (BoardService in application/services.py, the board     *)
(* repository, application/column_triggers.py, api/routers/boards.py and   *)
(* cards.py, and the board tools of application/tools.py, which make the   *)
(* same calls).                                                            *)
(*                                                                         *)
(* A request reads in transactions of its own and writes in a last one,    *)
(* which holds the write lock of the database from its first UPDATE to its *)
(* commit: what it has read before may be stale by then.  The version of   *)
(* the card is its updated_at.  What a started workflow does is module     *)
(* Workflow; who may use the board is module Members.                      *)
(***************************************************************************)
EXTENDS Integers, FiniteSets

CONSTANTS
  Columns,    \* column ids, those not created yet included
  Seeded,     \* the columns a new board is given
  NoColumn,
  Requests,   \* concurrent requests and tool calls
  MaxOps      \* bound of the model: requests that write

ASSUME ColumnAssumption ==
  /\ NoColumn \notin Columns
  /\ Seeded \subseteq Columns /\ Seeded # {}
  /\ IsFiniteSet(Columns)
ASSUME OpsAssumption == MaxOps \in Nat

VARIABLES
  archived,   \* the board is archived
  col,        \* board_column
  card,       \* the card: its column and its version
  rule,       \* column_workflow_rule: none, off or on
  flow,       \* the workflow the rules name: enabled, and in this workspace
  claims,     \* column_move_trigger
  bound,      \* ... of them, those that carry their run
  req,        \* what each request is at
  ops,        \* counted against MaxOps
  runs,       \* history: how often a move into a column started the workflow
  tied        \* history: columns whose place was written without seeing the others

boardHistory == <<runs, tied>>
boardVars == <<archived, col, card, rule, flow, claims, bound, req, ops, boardHistory>>

Ends == Columns \union {NoColumn}
Versions == 0..MaxOps
Keys == Columns \X Ends \X Versions
Absent == [live |-> FALSE, archived |-> FALSE, pos |-> 0]
AtRest == [pc |-> "idle", at |-> NoColumn, places |-> [c \in {} |-> 0], top |-> -1,
           copy |-> [at |-> NoColumn, ver |-> 0]]

LiveColumns == {c \in Columns : col[c].live}
Active == {c \in LiveColumns : ~col[c].archived}

\* COALESCE(MAX(position), -1), over the archived ones too.
\* Mutant: the number of the active ones.
TopByCount == Cardinality(Active) - 1

Top == IF LiveColumns = {} THEN -1
       ELSE CHOOSE p \in {col[c].pos : c \in LiveColumns} : \A c \in LiveColumns : col[c].pos <= p

Enter(r, state) == req' = [req EXCEPT ![r] = state]

Written == ops < MaxOps /\ ops' = ops + 1

\* require_board_access, for a member of the workspace.
Opened(r) == req[r].pc = "idle" /\ ~archived

-----------------------------------------------------------------------------
\* Columns.

\* create_column reads the highest position ...
CreateColumn(r) ==
  /\ Opened(r)
  /\ Enter(r, [AtRest EXCEPT !.pc = "create", !.top = Top])
  /\ UNCHANGED <<archived, col, card, rule, flow, claims, bound, ops, boardHistory>>

\* ... and inserts behind it.
InsertColumn(r, c) ==
  /\ Written
  /\ req[r].pc = "create"
  /\ ~col[c].live
  /\ col' = [col EXCEPT ![c] = [live |-> TRUE, archived |-> FALSE, pos |-> req[r].top + 1]]
  /\ tied' = IF req[r].top = Top THEN tied ELSE tied \union {c}
  /\ Enter(r, AtRest)
  /\ UNCHANGED <<archived, card, rule, flow, claims, bound, runs>>

\* The active ids in the order of their positions, with c taken out and put before
\* "before" or at the end: g is the place of each.
Placed(c, before, g) ==
  LET others == Active \ {c}
  IN  /\ \A d, e \in Active : d # e => g[d] # g[e]
      /\ \A d, e \in others : col[d].pos < col[e].pos => g[d] < g[e]
      /\ IF before \in others THEN g[c] = g[before] - 1
         ELSE \A d \in others : g[d] < g[c]

\* The page has checked c and before; reorder_column reads the active ids ...
Reorder(r, c, before) ==
  /\ Opened(r)
  /\ c \in Active
  /\ before \in Active \union {NoColumn}
  /\ \E g \in [Active -> 0..Cardinality(Active) - 1] :
       /\ Placed(c, before, g)
       /\ Enter(r, [AtRest EXCEPT !.pc = "reorder", !.places = g])
  /\ UNCHANGED <<archived, col, card, rule, flow, claims, bound, ops, boardHistory>>

\* ... and writes the place of each, one UPDATE after the other.
Renumber(r) ==
  LET g == req[r].places
      ids == DOMAIN g
  IN  /\ Written
      /\ req[r].pc = "reorder"
      /\ col' = [c \in Columns |-> IF c \in ids THEN [col[c] EXCEPT !.pos = g[c]] ELSE col[c]]
      /\ tied' = IF ids = Active THEN tied \ Active ELSE tied \union ids
      /\ Enter(r, AtRest)
      /\ UNCHANGED <<archived, card, rule, flow, claims, bound, runs>>

\* The cards stay in it, and are not shown.
ArchiveColumn(r, c) ==
  /\ Opened(r) /\ Written
  /\ c \in LiveColumns
  /\ col' = [col EXCEPT ![c].archived = TRUE]
  /\ UNCHANGED <<archived, card, rule, flow, claims, bound, req, boardHistory>>

\* It comes back with the position it had.
RestoreColumn(r, c) ==
  /\ Opened(r) /\ Written
  /\ c \in LiveColumns
  /\ col' = [col EXCEPT ![c].archived = FALSE]
  /\ tied' = IF col[c].archived THEN tied \union {c} ELSE tied
  /\ UNCHANGED <<archived, card, rule, flow, claims, bound, req, runs>>

-----------------------------------------------------------------------------
\* The board, its rules and the workflow they name.

ArchiveBoard(r) ==
  /\ Opened(r) /\ Written
  /\ archived' = TRUE
  /\ UNCHANGED <<col, card, rule, flow, claims, bound, req, boardHistory>>

\* can_manage_archived_board.
RestoreBoard(r) ==
  /\ req[r].pc = "idle" /\ Written
  /\ archived' = FALSE
  /\ UNCHANGED <<col, card, rule, flow, claims, bound, req, boardHistory>>

\* set_column_trigger: a rule for a workflow that exists, is enabled and belongs
\* to the workspace; or, with none given, the rule switched off.
SetColumnTrigger(r, c, enabled, given) ==
  /\ Opened(r) /\ Written
  /\ c \in LiveColumns
  /\ IF given THEN flow.on /\ flow.here ELSE ~enabled
  /\ rule' = [rule EXCEPT ![c] = IF given \/ @ # "none"
                                 THEN IF enabled THEN "on" ELSE "off" ELSE @]
  /\ UNCHANGED <<archived, col, card, flow, claims, bound, req, boardHistory>>

\* The pages of the workflows: enabled, disabled, given another channel.
ChangeFlow(on, here) ==
  /\ Written
  /\ flow' = [on |-> on, here |-> here]
  /\ UNCHANGED <<archived, col, card, rule, claims, bound, req, boardHistory>>

-----------------------------------------------------------------------------
\* The card.

\* update_card and set_assignee: a change of any field is a new version.
EditCard(r) ==
  /\ Opened(r) /\ Written
  /\ card' = [card EXCEPT !.ver = ops + 1]
  /\ UNCHANGED <<archived, col, rule, flow, claims, bound, req, boardHistory>>

\* The page and the tool look at the target ...
MoveCard(r, target) ==
  /\ Opened(r)
  /\ target \in Active
  /\ Enter(r, [AtRest EXCEPT !.pc = "checked", !.at = target])
  /\ UNCHANGED <<archived, col, card, rule, flow, claims, bound, ops, boardHistory>>

\* ... then BoardService.move_card reads the card.
ReadCard(r) ==
  /\ req[r].pc = "checked"
  /\ Enter(r, [req[r] EXCEPT !.pc = "move", !.copy = card])
  /\ UNCHANGED <<archived, col, card, rule, flow, claims, bound, ops, boardHistory>>

\* Mutant: the key does not say which visit it was.
EventKeyTimeless(target, copy) == <<target, copy.at, 0>>

\* The unique key of a trigger: where the card came from, and its updated_at.
EventKey(target, copy) == <<target, copy.at, copy.ver>>

\* trigger_column_workflow up to the claim, for a copy that was elsewhere.
MayStart(target, copy) ==
  /\ copy.at # target
  /\ rule[target] = "on"
  /\ flow.on /\ flow.here

\* Mutant: the outcome of the INSERT is not looked at.
ClaimedAlways(target, copy) == MayStart(target, copy)

\* claim_column_move_trigger: ON CONFLICT DO NOTHING.
Claimed(target, copy) == MayStart(target, copy) /\ EventKey(target, copy) \notin claims

\* The UPDATE of the card, the claim and the insert of the workflow run are
\* committed together; a move that starts nothing is committed as it is.
WriteMove(r) ==
  LET target == req[r].at
      copy == req[r].copy
      starts == Claimed(target, copy)
  IN  /\ req[r].pc = "move" /\ Written
      /\ card' = [at |-> target, ver |-> ops + 1]
      /\ claims' = IF starts THEN claims \union {EventKey(target, copy)} ELSE claims
      /\ runs' = [runs EXCEPT ![target] = IF starts THEN @ + 1 ELSE @]
      /\ Enter(r, IF starts THEN [req[r] EXCEPT !.pc = "running"] ELSE AtRest)
      /\ UNCHANGED <<archived, col, rule, flow, bound, tied>>

\* The workflow has ended or waits: bind_column_move_trigger.
BindTrigger(r) ==
  /\ req[r].pc = "running"
  /\ bound' = bound \union {EventKey(req[r].at, req[r].copy)}
  /\ Enter(r, AtRest)
  /\ UNCHANGED <<archived, col, card, rule, flow, claims, ops, boardHistory>>

\* The request is cancelled, its process dies, or its transaction fails: what is
\* committed stays.
Dies(r) ==
  /\ req[r].pc # "idle"
  /\ Enter(r, AtRest)
  /\ UNCHANGED <<archived, col, card, rule, flow, claims, bound, ops, boardHistory>>

-----------------------------------------------------------------------------

\* create_board: the default columns in their order; then a card and the rules.
BoardInit ==
  /\ archived = FALSE
  /\ LET g == CHOOSE f \in [Seeded -> 0..Cardinality(Seeded) - 1] :
                \A c, d \in Seeded : c # d => f[c] # f[d]
     IN  col = [c \in Columns |-> IF c \in Seeded
                  THEN [live |-> TRUE, archived |-> FALSE, pos |-> g[c]] ELSE Absent]
  /\ \E c \in Seeded : card = [at |-> c, ver |-> 0]
  /\ rule = [c \in Columns |-> IF c \in Seeded THEN "on" ELSE "none"]
  /\ flow = [on |-> TRUE, here |-> TRUE]
  /\ claims = {} /\ bound = {}
  /\ req = [r \in Requests |-> AtRest]
  /\ ops = 0
  /\ runs = [c \in Columns |-> 0]
  /\ tied = {}

ColumnStep(r) ==
  \/ CreateColumn(r)
  \/ Renumber(r)
  \/ \E c \in Columns :
       \/ InsertColumn(r, c)
       \/ \E before \in Ends : Reorder(r, c, before)
       \/ ArchiveColumn(r, c)
       \/ RestoreColumn(r, c)

BoardStep(r) ==
  \/ ArchiveBoard(r)
  \/ RestoreBoard(r)
  \/ \E c \in Columns, enabled, given \in BOOLEAN : SetColumnTrigger(r, c, enabled, given)

CardStep(r) ==
  \/ EditCard(r)
  \/ \E target \in Columns : MoveCard(r, target)
  \/ ReadCard(r)
  \/ WriteMove(r)
  \/ BindTrigger(r)

BoardNext ==
  \/ \E r \in Requests : ColumnStep(r) \/ BoardStep(r) \/ CardStep(r) \/ Dies(r)
  \/ \E on, here \in BOOLEAN : ChangeFlow(on, here)

BoardSpec == BoardInit /\ [][BoardNext]_boardVars

-----------------------------------------------------------------------------

\* The values the rows, the requests and the histories range over.
BoardTypeOK ==
  /\ archived \in BOOLEAN
  /\ col \in [Columns -> [live : BOOLEAN, archived : BOOLEAN, pos : Nat]]
  /\ card \in [at : Columns, ver : Versions]
  /\ rule \in [Columns -> {"none", "off", "on"}]
  /\ flow \in [on : BOOLEAN, here : BOOLEAN]
  /\ claims \subseteq Keys /\ bound \subseteq claims
  /\ ops \in 0..MaxOps
  /\ runs \in [Columns -> Nat]
  /\ tied \subseteq Columns

\* The active columns have an order of their own: two share a place only if one
\* was restored, or created or renumbered over a list that had changed since it
\* was read; a renumbering that saw all of them puts it right.
OrderDeterministic ==
  \A c, d \in Active \ tied : c # d => col[c].pos # col[d].pos

\* A trigger is claimed once: the workflow ran as often as there are claims,
\* however many requests moved the card over the same copy.
ClaimedOnce ==
  \A c \in Columns : runs[c] = Cardinality({k \in claims : k[1] = c})

\* A move over a fresh copy of the card starts the workflow if and only if the
\* card comes from elsewhere and rule and workflow are on, however often it has
\* made the same move before.
FreshMoveStarts ==
  [][\A r \in Requests :
       req[r].pc = "move" /\ req[r].copy = card /\ card' # card /\ req'[r] # req[r] =>
         LET c == req[r].at IN
         runs'[c] - runs[c] = IF card.at # c /\ rule[c] = "on" /\ flow = [on |-> TRUE, here |-> TRUE]
                              THEN 1 ELSE 0]_boardVars

=============================================================================
