------------------------------- MODULE Inbox -------------------------------
(***************************************************************************)
(* The operational inbox of one team: items projected from source records, *)
(* the local state people add to them, and the stream of changes by which  *)
(* open pages learn that they have to load again (application/inbox.py,    *)
(* inbox_store.py, inbox_events.py, api/routers/inbox.py and the script of *)
(* templates/inbox.html).                                                  *)
(*                                                                         *)
(* The routes build records from coding runs and change sets only, and the *)
(* records carry no owner.  A load reads the runs, then the change sets,   *)
(* then reconciles the store and renders it in one go; other pages may     *)
(* come in between.  The stream tells a page what kind of change there was *)
(* and never the item: the page takes the count, and loads again when an   *)
(* item came, changed or went.  Store and stream live in the memory of the *)
(* process.  The order and the filters of a page are left out.             *)
(***************************************************************************)
EXTENDS Integers, FiniteSets, Sequences, SequencesExt

CONSTANTS
  Runs, ChangeSets,   \* the source records of the team
  Pages,              \* browser tabs with the page
  Owners, NoOwner,
  MaxOps,             \* bound of the model: changes of the store
  MaxRestarts         \* bound of the model

ASSUME SourceAssumption ==
  /\ Runs \intersect ChangeSets = {}
  /\ IsFiniteSet(Runs \union ChangeSets) /\ "none" \notin Runs \union ChangeSets
ASSUME OwnerAssumption == NoOwner \notin Owners
ASSUME LimitAssumption == MaxOps \in Nat /\ MaxRestarts \in Nat

VARIABLES
  src,       \* the status of each record
  store,     \* InboxStore._items
  snap,      \* InboxEventStream._snapshots
  log,       \* InboxEventStream._events: the sequence number is the place
  page,      \* what each page has read, shows, and knows of the stream
  lapsed,    \* history: pages that were open when a process ended
  ops, restarts

inboxVars == <<src, store, snap, log, page, lapsed, ops, restarts>>

Sources == Runs \union ChangeSets
Statuses == {"none", "running", "failed", "succeeded", "captured", "reviewed"}
Empty == <<>>
NoAnswer == [told |-> FALSE, cursor |-> 0, unread |-> 0]
Closed == [pc |-> "closed", seen |-> Empty, items |-> Empty,
           cursor |-> 0, unread |-> 0, answer |-> NoAnswer]

-----------------------------------------------------------------------------
\* The projection.

\* INBOX_RULES, of the statuses the routes' records can have.
Kind(status) == CASE status = "failed" -> "run_failed"
                  [] status = "captured" -> "review_requested"
                  [] OTHER -> "none"

\* build_inbox_item.
NewItem(status) ==
  [status |-> status, kind |-> Kind(status), acknowledged |-> FALSE,
   owner |-> NoOwner, resolved |-> FALSE]

\* project_inbox_for_team: one item per record that needs attention.
Project(seen) == [s \in {t \in DOMAIN seen : Kind(seen[t]) # "none"} |-> NewItem(seen[s])]

\* Mutant: the fresh item, as it is projected.
ReconciledAfresh(previous, seen) == Project(seen)

\* reconcile_inbox_for_team: acknowledgement and owner are kept.
Reconciled(previous, seen) ==
  LET fresh == Project(seen)
  IN  [s \in DOMAIN fresh |->
         IF s \in DOMAIN previous
         THEN [fresh[s] EXCEPT !.acknowledged = previous[s].acknowledged,
                               !.owner = previous[s].owner]
         ELSE fresh[s]]

\* count_unread.
Unread(items) ==
  Cardinality({s \in DOMAIN items : ~items[s].acknowledged /\ ~items[s].resolved})

-----------------------------------------------------------------------------
\* The stream.

Event(type, id) == [type |-> type, id |-> id]

Removals(items) ==
  LET gone == SetToSeq(DOMAIN snap \ DOMAIN items)
  IN  [i \in 1..Len(gone) |-> Event("remove", gone[i])]

Upserts(items) ==
  LET new == SetToSeq({s \in DOMAIN items : s \notin DOMAIN snap \/ snap[s] # items[s]})
  IN  [i \in 1..Len(new) |-> Event("upsert", new[i])]

\* publish: removals, then new and changed items, then the count if it differs.
Publish(items) ==
  LET changed == log \o Removals(items) \o Upserts(items)
  IN  /\ log' = IF changed = <<>> \/ Unread(snap) # Unread(items)
                THEN Append(changed, Event("unread_count", "none")) ELSE changed
      /\ snap' = items

Counted == IF store' = store THEN UNCHANGED ops ELSE ops < MaxOps /\ ops' = ops + 1

\* Mutant: the first event after the cursor is taken for a known one.
EventsFromNext(cursor) == SubSeq(log, cursor + 2, Len(log))

\* events_after: what comes after the cursor, nothing if that is beyond the end.
EventsAfter(cursor) == SubSeq(log, cursor + 1, Len(log))

\* What makes a page load again.
OfItems(events) == \E i \in 1..Len(events) : events[i].type \in {"upsert", "remove"}

-----------------------------------------------------------------------------
\* The records, as modules CodingRun and ChangeSet change them.

RunEnds(r, status) ==
  /\ src[r] = "running"
  /\ src' = [src EXCEPT ![r] = status]
  /\ UNCHANGED <<store, snap, log, page, lapsed, ops, restarts>>

Captured(c) ==
  /\ src[c] = "none"
  /\ src' = [src EXCEPT ![c] = "captured"]
  /\ UNCHANGED <<store, snap, log, page, lapsed, ops, restarts>>

Reviewed(c) ==
  /\ src[c] = "captured"
  /\ src' = [src EXCEPT ![c] = "reviewed"]
  /\ UNCHANGED <<store, snap, log, page, lapsed, ops, restarts>>

-----------------------------------------------------------------------------
\* GET /inbox, by a visit, a reload or the redirect after an action on an item.
\* The page that was open is gone, and so is the answer it was waiting for.

\* _source_records: the runs ...
PageRuns(p) ==
  /\ page[p].pc \in {"closed", "open", "asked"}
  /\ page' = [page EXCEPT ![p] = [Closed EXCEPT !.pc = "runs", !.seen = [r \in Runs |-> src[r]]]]
  /\ lapsed' = lapsed \ {p}
  /\ UNCHANGED <<src, store, snap, log, ops, restarts>>

\* ... and the change sets.
PageChangeSets(p) ==
  /\ page[p].pc = "runs"
  /\ page' = [page EXCEPT ![p].pc = "read",
        ![p].seen = [s \in Sources |-> IF s \in Runs THEN page[p].seen[s] ELSE src[s]]]
  /\ UNCHANGED <<src, store, snap, log, lapsed, ops, restarts>>

\* InboxStore.reconcile, and the page rendered from the store; it follows the
\* stream from its beginning.
Reconcile(p) ==
  /\ page[p].pc = "read"
  /\ store' = Reconciled(store, page[p].seen)
  /\ Publish(store')
  /\ page' = [page EXCEPT ![p] =
       [Closed EXCEPT !.pc = "open", !.items = store', !.unread = Unread(store')]]
  /\ Counted
  /\ UNCHANGED <<src, lapsed, restarts>>

\* One of the two queries fails.
LoadFails(p) ==
  /\ page[p].pc \in {"runs", "read"}
  /\ page' = [page EXCEPT ![p] = Closed]
  /\ UNCHANGED <<src, store, snap, log, lapsed, ops, restarts>>

-----------------------------------------------------------------------------
\* The actions on one item; an unknown one is not found.

Update(s, item) ==
  /\ store' = [store EXCEPT ![s] = item]
  /\ Publish(store')
  /\ Counted
  /\ UNCHANGED <<src, page, lapsed, restarts>>

Acknowledge(s) ==
  /\ s \in DOMAIN store
  /\ Update(s, [store[s] EXCEPT !.acknowledged = TRUE])

Assign(s, owner) ==
  /\ s \in DOMAIN store
  /\ Update(s, [store[s] EXCEPT !.owner = owner])

Resolve(s) ==
  /\ s \in DOMAIN store
  /\ Update(s, [store[s] EXCEPT !.resolved = TRUE])

-----------------------------------------------------------------------------
\* replay() of an open page, one request at a time.  One that fails or whose
\* answer is lost leaves everything as it is.

\* GET /inbox/events.
Answer(p) ==
  /\ page[p].pc = "open"
  /\ page' = [page EXCEPT ![p].pc = "asked",
        ![p].answer = [told |-> OfItems(EventsAfter(page[p].cursor)),
                       cursor |-> Len(log), unread |-> Unread(store)]]
  /\ UNCHANGED <<src, store, snap, log, lapsed, ops, restarts>>

\* The page has the answer: it loads again, or goes on with the new cursor.
Handle(p) ==
  /\ page[p].pc = "asked"
  /\ LET answer == page[p].answer
     IN  page' = [page EXCEPT ![p] =
           IF answer.told THEN Closed
           ELSE [@ EXCEPT !.pc = "open", !.cursor = answer.cursor,
                          !.unread = answer.unread, !.answer = NoAnswer]]
  /\ UNCHANGED <<src, store, snap, log, lapsed, ops, restarts>>

\* The process ends: its loads fail, store and stream are reset, the records stay,
\* and so do the open pages, with the cursors they have.
Restart ==
  /\ restarts < MaxRestarts /\ restarts' = restarts + 1
  /\ store' = Empty /\ snap' = Empty /\ log' = <<>>
  /\ page' = [p \in Pages |-> IF page[p].pc \in {"open", "asked"} THEN page[p] ELSE Closed]
  /\ lapsed' = {p \in Pages : page[p].pc \in {"open", "asked"}}
  /\ UNCHANGED <<src, ops>>

-----------------------------------------------------------------------------

InboxInit ==
  /\ src = [s \in Sources |-> IF s \in Runs THEN "running" ELSE "none"]
  /\ store = Empty /\ snap = Empty /\ log = <<>>
  /\ page = [p \in Pages |-> Closed]
  /\ lapsed = {}
  /\ ops = 0 /\ restarts = 0

SourceStep ==
  \/ \E r \in Runs, status \in {"failed", "succeeded"} : RunEnds(r, status)
  \/ \E c \in ChangeSets : Captured(c) \/ Reviewed(c)

PageStep(p) ==
  \/ PageRuns(p) \/ PageChangeSets(p) \/ Reconcile(p) \/ LoadFails(p)
  \/ Answer(p) \/ Handle(p)

ItemStep(s) ==
  \/ Acknowledge(s)
  \/ Resolve(s)
  \/ \E owner \in Owners : Assign(s, owner)

InboxNext ==
  \/ SourceStep
  \/ \E p \in Pages : PageStep(p)
  \/ \E s \in Sources : ItemStep(s)
  \/ Restart

InboxSpec == InboxInit /\ [][InboxNext]_inboxVars

-----------------------------------------------------------------------------

\* What the page will go by once it has the answer that is under way.
Latest(p) ==
  IF page[p].pc = "asked" THEN page[p].answer
  ELSE [told |-> FALSE, cursor |-> page[p].cursor, unread |-> page[p].unread]

\* An open page shows the items of the store and their unread count, or it will
\* be told to load again, by the answer under way or by the stream behind its
\* cursor, however loads, actions on items and answers interleave.  A page left
\* open by an earlier process is told as well once the new store has items,
\* unless it goes by a cursor of the earlier stream.
PageCurrent ==
  \A p \in Pages : page[p].pc \in {"open", "asked"} =>
    \/ page[p].items = store /\ Latest(p).unread = Unread(store)
    \/ Latest(p).told \/ OfItems(EventsAfter(Latest(p).cursor))
    \/ p \in lapsed /\ (Latest(p).cursor > 0 \/ store = Empty)

\* Acknowledgement and owner of an item stay while its record needs attention: a
\* page loses them only if it had read the record before it came to that, or the
\* process ends.
LocalStateKept ==
  [][\A s \in DOMAIN store :
       Kind(src[s]) # "none" =>
         \/ /\ s \in DOMAIN store'
            /\ store[s].acknowledged => store'[s].acknowledged
            /\ store[s].owner # NoOwner => store'[s].owner # NoOwner
         \/ \E p \in Pages : page[p].pc = "read" /\ page'[p].pc = "open" /\ page[p].seen[s] # src[s]
         \/ restarts' # restarts]_inboxVars

=============================================================================
