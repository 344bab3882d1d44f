------------------------------- MODULE Cards -------------------------------
(***************************************************************************)
(* The cards of a board: their place in a column, the fields people and    *)
(* agents edit, the activity that records each change, the assignee, and   *)
(* the coding runs an agent starts from a card (the card part of the board *)
(* repository, BoardService, the card pages of api/routers/boards.py, and  *)
(* the card tools of application/tools.py).                                *)
(*                                                                         *)
(* An edit reads the card, in a transaction of its own, compares, and      *)
(* writes all fields back in the transaction that also records the         *)
(* changes.  A value is a model value; an empty one is NoValue.  Columns   *)
(* and the workflows a move starts are module Board; what a coding run     *)
(* does is module CodingRun.                                               *)
(***************************************************************************)
EXTENDS Integers, SequencesExt

CONSTANTS
  Cards,      \* card ids, those not created yet included
  Columns,
  Fields,     \* title, description, due_date, priority, labels
  Values,     \* what a field can hold
  NoValue,    \* an optional field that is empty, or nobody
  Keep,       \* a field an edit does not give
  People,     \* members a card can be assigned to
  Requests,   \* concurrent requests and tool calls
  MaxOps      \* bound of the model: requests

ASSUME ValueAssumption == NoValue \notin Values \union People /\ Keep \notin Values \union {NoValue}
ASSUME CardAssumption == IsFiniteSet(Cards) /\ IsFiniteSet(Fields) /\ "assignee" \notin Fields
ASSUME OpsAssumption == MaxOps \in Nat

VARIABLES
  card,       \* card
  trail,      \* card_activity, in the order of created_at
  runs,       \* coding runs started from cards: <<card, request that did it>>
  links,      \* card_run_link: <<card, request whose run it is>>
  req,        \* what each request is at
  ops,        \* counted against MaxOps
  tied,       \* history: cards placed over a column that had changed since it was read
  stale       \* history: <<card, field>> an edit has set back to what it had read

history == <<tied, stale>>
vars == <<card, trail, runs, links, req, ops, history>>

Entries == Values \union {NoValue}
Absent == [live |-> FALSE, at |-> CHOOSE k \in Columns : TRUE, pos |-> 0,
           field |-> [f \in Fields |-> NoValue], new |-> NoValue, who |-> NoValue]
NoPatch == [f \in Fields |-> Keep]
Idle == [pc |-> "idle", id |-> NoValue, copy |-> Absent, patch |-> NoPatch, who |-> Keep,
         top |-> -1]

Live == {c \in Cards : card[c].live}
In(k) == {c \in Live : card[c].at = k}

\* COALESCE(MAX(position), -1) of a column.
Top(k) == IF In(k) = {} THEN -1
          ELSE CHOOSE p \in {card[c].pos : c \in In(k)} : \A c \in In(k) : card[c].pos <= p

Goto(r, state) == req' = [req EXCEPT ![r] = state]
Started(r) == req[r].pc = "idle" /\ ops < MaxOps /\ ops' = ops + 1

-----------------------------------------------------------------------------
\* A new card, and its place.

\* The page and the tool check the column; add_card reads its highest position ...
CreateCard(r, k) ==
  /\ Started(r)
  /\ Goto(r, [Idle EXCEPT !.pc = "create", !.top = Top(k), !.copy.at = k])
  /\ UNCHANGED <<card, trail, runs, links, history>>

\* ... and inserts it below.
AddCard(r, c, given) ==
  LET k == req[r].copy.at IN
  /\ req[r].pc = "create"
  /\ ~card[c].live
  /\ card' = [card EXCEPT ![c] = [live |-> TRUE, at |-> k, pos |-> req[r].top + 1, new |-> given,
                                   field |-> [f \in Fields |-> given], who |-> NoValue]]
  /\ tied' = IF req[r].top = Top(k) THEN tied ELSE tied \union {c}
  /\ Goto(r, Idle)
  /\ UNCHANGED <<trail, runs, links, ops, stale>>

\* Mutant: behind as many as the column has.
PlaceByCount(c, k) == Cardinality(In(k) \ {c})

\* The subquery of the UPDATE: the card itself counts if it is in the column.
Place(c, k) == Top(k) + 1

MoveCard(r, c, k) ==
  /\ Started(r)
  /\ c \in Live
  /\ card' = [card EXCEPT ![c].at = k, ![c].pos = Place(c, k)]
  /\ tied' = tied \ {c}
  /\ UNCHANGED <<trail, runs, links, req, stale>>

-----------------------------------------------------------------------------
\* An edit.

\* The page gives every field and the assignee, the tool some of the fields.
UpdateCard(r, c, patch, who) ==
  /\ Started(r)
  /\ c \in Live
  /\ \/ \A f \in Fields : patch[f] # Keep
     \/ who = Keep
  /\ Goto(r, [Idle EXCEPT !.pc = "edit", !.id = c, !.copy = card[c], !.patch = patch, !.who = who])
  /\ UNCHANGED <<card, trail, runs, links, history>>

\* Mutant: a field that is emptied is not looked at.
ChangesGiven(copy, patch) ==
  {f \in Fields : patch[f] \notin {Keep, NoValue} /\ patch[f] # copy.field[f]}

\* The fields that are given and differ from the copy.
Changes(copy, patch) == {f \in Fields : patch[f] # Keep /\ patch[f] # copy.field[f]}

\* What the UPDATE writes: the copy where nothing is given.
Applied(copy, patch) ==
  [f \in Fields |-> IF patch[f] = Keep THEN copy.field[f] ELSE patch[f]]

\* set_assignee compares with what it has read: under the write lock if there were
\* changes, before it otherwise.
Assigns(seen, who) == who \notin {Keep, seen}

Row(c, f, old, new) == [id |-> c, field |-> f, old |-> old, new |-> new]

\* The fields, their activity and the assignee are committed together; an edit
\* that changes nothing writes nothing.
WriteEdit(r) ==
  LET c == req[r].id
      copy == req[r].copy
      patch == req[r].patch
      changes == Changes(copy, patch)
      seen == IF changes = {} THEN copy.who ELSE card[c].who
      assigns == Assigns(seen, req[r].who)
      after == IF changes = {} THEN card[c].field ELSE Applied(copy, patch)
  IN  /\ req[r].pc = "edit"
      /\ card' = [card EXCEPT ![c].field = after,
                              ![c].who = IF assigns THEN req[r].who ELSE @]
      /\ trail' = trail \o SetToSeq({Row(c, f, copy.field[f], patch[f]) : f \in changes})
                        \o IF assigns THEN <<Row(c, "assignee", seen, req[r].who)>> ELSE <<>>
      /\ stale' = (stale \ {<<c, f>> : f \in changes})
                    \union {<<c, f>> : f \in {g \in Fields \ changes :
                              after[g] # card[c].field[g] /\ copy.field[g] # card[c].field[g]}}
      /\ Goto(r, Idle)
      /\ UNCHANGED <<runs, links, ops, tied>>

-----------------------------------------------------------------------------
\* A coding run from a card.

\* dispatch_coding_run commits the run before it is sent to the agent ...
SpawnRun(r, c) ==
  /\ Started(r)
  /\ c \in Live
  /\ \A d \in Cards : <<d, r>> \notin runs
  /\ runs' = runs \union {<<c, r>>}
  /\ Goto(r, [Idle EXCEPT !.pc = "spawned", !.id = c])
  /\ UNCHANGED <<card, trail, links, history>>

\* ... and the link follows when the agent has taken it: ON CONFLICT DO NOTHING.
LinkCardRun(r) ==
  /\ req[r].pc = "spawned"
  /\ links' = links \union {<<req[r].id, r>>}
  /\ Goto(r, Idle)
  /\ UNCHANGED <<card, trail, runs, ops, history>>

\* link_card_to_run: somebody who may manage both links a run to a card.
LinkCardToRun(r, c, run) ==
  /\ Started(r)
  /\ c \in Live
  /\ run \in runs
  /\ links' = links \union {<<c, run[2]>>}
  /\ UNCHANGED <<card, trail, runs, req, history>>

\* The request fails or is cancelled, or the agent does not take the run: what is
\* not committed is gone.
Dies(r) ==
  /\ req[r].pc # "idle"
  /\ Goto(r, Idle)
  /\ UNCHANGED <<card, trail, runs, links, ops, tied, stale>>

-----------------------------------------------------------------------------

Init ==
  /\ card = [c \in Cards |-> Absent]
  /\ trail = <<>>
  /\ runs = {}
  /\ links = {}
  /\ req = [r \in Requests |-> Idle]
  /\ ops = 0
  /\ tied = {} /\ stale = {}

Patches == [Fields -> Entries \union {Keep}] \ {NoPatch}

CardStep(r, c) ==
  \/ \E given \in Entries : AddCard(r, c, given)
  \/ \E k \in Columns : MoveCard(r, c, k)
  \/ \E patch \in Patches, who \in People \union {NoValue, Keep} : UpdateCard(r, c, patch, who)
  \/ SpawnRun(r, c)
  \/ \E run \in runs : LinkCardToRun(r, c, run)

Next ==
  \E r \in Requests :
    \/ \E k \in Columns : CreateCard(r, k)
    \/ \E c \in Cards : CardStep(r, c)
    \/ WriteEdit(r) \/ LinkCardRun(r) \/ Dies(r)

Spec == Init /\ [][Next]_vars

-----------------------------------------------------------------------------

\* The values the rows and the requests range over.
TypeOK ==
  /\ card \in [Cards -> [live : BOOLEAN, at : Columns, pos : Nat, new : Entries,
                         field : [Fields -> Entries], who : People \union {NoValue}]]
  /\ runs \subseteq Cards \X Requests /\ links \subseteq Cards \X Requests
  /\ ops \in 0..MaxOps

\* The rows of one field of one card, by their places in the trail.
Rows(c, f) == {i \in DOMAIN trail : trail[i].id = c /\ trail[i].field = f}

Explained(c, f, value, first) ==
  IF Rows(c, f) = {}
  THEN value = first
  ELSE \E i \in Rows(c, f) : value = trail[i].new /\ \A j \in Rows(c, f) : j <= i

\* The activity of a card ends in what the card shows, whatever edits overlapped:
\* each field has the value its last row gives it, or the one it began with; the
\* exception is a field that an edit of another one has set back to the value it
\* had read.  The assignee has no such exception.
TrailExplains ==
  \A c \in Live :
    /\ \A f \in Fields : <<c, f>> \notin stale => Explained(c, f, card[c].field[f], card[c].new)
    /\ Explained(c, "assignee", card[c].who, NoValue)

\* The cards of a column have an order of their own, however they came into it:
\* two share a place only if one was created over a column that had changed since
\* it was read.
CardsOrdered ==
  \A c, d \in Live \ tied :
    c # d /\ card[c].at = card[d].at => card[c].pos # card[d].pos

=============================================================================
