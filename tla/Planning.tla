------------------------------ MODULE Planning ------------------------------
(***************************************************************************)
(* The planning views of a board (application/board_views.py): the cards a *)
(* filter lets through, their grouping into lanes, the timeline of their   *)
(* due dates and the three counts below them; and the settings of such a   *)
(* view as the page reads them, saves them and opens them again            *)
(* (api/routers/boards.py).                                                *)
(*                                                                         *)
(* A due date is free text.  Its day counts only if it is an ISO date, in  *)
(* the extended form or in the basic one, without dashes.                  *)
(***************************************************************************)
EXTENDS Naturals, FiniteSets, Sequences, Ordering

CONSTANTS
  Columns, Done,       \* columns; Done: those called so
  Agents, Humans,      \* members a card may be assigned to
  NoOne,
  Every                  \* what a filter does not ask about

ASSUME MemberAssumption == Agents \intersect Humans = {} /\ NoOne \notin Agents \union Humans
ASSUME ColumnAssumption == Done \subseteq Columns
ASSUME EveryAssumption == Every \notin {"unscheduled", "overdue", "today", "upcoming"}

Forms == {"none", "bad", "extended", "basic"}
NoText == [form |-> "none", day |-> 0]
Dated(text) == text.form \in {"extended", "basic"}

\* As text, "2026-..." comes before "2026...".
TextBefore(a, b) == IF a.form = b.form THEN a.day < b.day ELSE a.form = "extended"

\* Mutant: due today is overdue already.
BucketEarly(card, today) ==
  CASE ~Dated(card.due) -> "unscheduled"
    [] Dated(card.due) /\ card.due.day <= today -> "overdue"
    [] OTHER -> "upcoming"

\* _due_bucket.
Bucket(card, today) ==
  CASE ~Dated(card.due) -> "unscheduled"
    [] Dated(card.due) /\ card.due.day < today -> "overdue"
    [] Dated(card.due) /\ card.due.day = today -> "today"
    [] OTHER -> "upcoming"

Asks(wanted, value) == wanted = Every \/ wanted = value

\* _matches.
Matches(card, f, today) ==
  /\ Asks(f.who, card.who)
  /\ f.agent = Every \/ (card.who = f.agent /\ card.who \in Agents)
  /\ f.label = Every \/ f.label \in card.labels
  /\ Asks(f.priority, card.priority)
  /\ Asks(f.due, Bucket(card, today))
  /\ Asks(f.status, card.at)

Filtered(board, f, today) == {card \in board : Matches(card, f, today)}

\* _group_status, _group_label, _group_priority, _group_due and _group_assignee:
\* the lanes a card is in.
Lanes(by, card, today) ==
  CASE by = "status" -> {card.at}
    [] by = "label" -> card.labels
    [] by = "priority" -> {IF card.priority = "none" THEN "unassigned" ELSE card.priority}
    [] by = "due" -> {Bucket(card, today)}
    [] by = "assignee" -> {card.who}
    [] by = "agent" -> {card.who} \ Humans

Groups(cards, by, today) ==
  [k \in UNION {Lanes(by, card, today) : card \in cards} |->
     {card \in cards : k \in Lanes(by, card, today)}]

\* _timeline: the dated cards by the text of their date, then the others.
Timeline(cards, today) ==
  LET texts == {card.due : card \in {d \in cards : Dated(d.due)}}
      rest == {card \in cards : ~Dated(card.due)}
      bucket(text) == [key |-> text, overdue |-> text.day < today,
                       cards |-> {card \in cards : card.due = text}]
      dated == Sorted(texts, TextBefore)
  IN  [i \in 1..Len(dated) |-> bucket(dated[i])]
        \o IF rest = {} THEN <<>> ELSE <<[key |-> NoText, overdue |-> FALSE, cards |-> rest]>>

\* The counts of build_board_planning_view.
Metrics(cards, today) ==
  [total |-> Cardinality(cards),
   completed |-> Cardinality({card \in cards : card.at \in Done}),
   overdue |-> Cardinality({card \in cards : Bucket(card, today) = "overdue"})]

-----------------------------------------------------------------------------
\* The settings of a view.

Views == {"board", "swimlane", "timeline"}
Grouping == {"assignee", "agent", "label", "priority", "due", "status"}

\* board_page: what it does not know is left out, and a swimlane has lanes.
Shown(raw) ==
  LET view == IF raw.view \in Views THEN raw.view ELSE "board"
      by == IF raw.by \in Grouping THEN raw.by ELSE "none"
  IN  [view |-> view, filter |-> raw.filter,
       by |-> IF view = "swimlane" /\ by = "none" THEN "assignee" ELSE by]

\* save_board_view, behind the form of the page.
Saved(raw) ==
  [view |-> raw.view, filter |-> raw.filter,
   by |-> IF raw.by \in Grouping THEN raw.by ELSE "none"]

\* The parameters open_saved_board_view redirects to.
Params(view) == [view |-> view.view, filter |-> view.filter, by |-> view.by]

-----------------------------------------------------------------------------

\* The views of one set of cards tell one story, whatever the filter: each card in
\* its lane, once, but for labels and for people in the view of agents; the lane
\* of the overdue, the overdue stretch of the timeline and the count are the same;
\* a filter by due date gives the lane of that name; and the timeline holds every
\* card once, in the order of the days where the texts have one form.
Agree(board, f, today) ==
  LET cards == Filtered(board, f, today)
      due == Groups(cards, "due", today)
      line == Timeline(cards, today)
      late == UNION {line[i].cards : i \in {j \in DOMAIN line : line[j].overdue}}
  IN  /\ \A by \in Grouping \ {"label", "agent"}, card \in cards :
           Cardinality({k \in DOMAIN Groups(cards, by, today) :
                          card \in Groups(cards, by, today)[k]}) = 1
      /\ \A card \in cards :
           \/ \E k \in DOMAIN Groups(cards, "agent", today) : card \in Groups(cards, "agent", today)[k]
           \/ card.who \in Humans
      /\ late = IF "overdue" \in DOMAIN due THEN due["overdue"] ELSE {}
      /\ Cardinality(late) = Metrics(cards, today).overdue
      /\ \A k \in DOMAIN due : f.due = Every =>
           due[k] = Filtered(board, [f EXCEPT !.due = k], today)
      /\ \A card \in cards : Cardinality({i \in DOMAIN line : card \in line[i].cards}) = 1
      /\ \A i, j \in DOMAIN line :
           i < j /\ line[i].key.form = line[j].key.form => line[i].key.day < line[j].key.day

=============================================================================
