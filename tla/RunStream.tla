----------------------------- MODULE RunStream -----------------------------
(***************************************************************************)
(* The events a coding run is shown and audited by (dto/events.py): each   *)
(* reader derives them anew from the row (get_coding_run and the export of *)
(* api/routers/coding_runs.py), puts them in an order of its own and goes  *)
(* on from the event it has seen last.                                     *)
(*                                                                         *)
(* One run's events have no sequence numbers, so the order for resuming is *)
(* that of their ids.  dispatch_coding_run takes one time for the creation *)
(* and the start; a run ends later.                                        *)
(***************************************************************************)
EXTENDS CodingRun, Ordering, Sequences

\* As text, "evt_<run>_cmd" comes before "..._plan" and that before "..._term".
IdRank == [plan |-> 1, command |-> 0, terminal |-> 2]

\* run_to_activity: the order of a run's life.
Priority == [plan |-> 0, command |-> 1, terminal |-> 2]

At(type) == IF type = "terminal" THEN 1 ELSE 0

\* Mutant: an id is made up whenever the events are derived.
EventMadeUp(type, st) ==
  [id |-> <<type, st>>, at |-> At(type), type |-> type,
   status |-> IF type = "terminal" THEN st ELSE "none"]

Event(type, st) ==
  [id |-> <<type>>, at |-> At(type), type |-> type,
   status |-> IF type = "terminal" THEN st ELSE "none"]

\* run_to_events, of a row with the status.
DerivedEvents(st) ==
  {Event(type, st) : type \in
     IF st = "none" THEN {}
     ELSE {"plan", "command"} \union IF st \in Terminal THEN {"terminal"} ELSE {}}

\* order_key: the total order for resuming.
KeyBefore(e, f) == IdRank[e.type] < IdRank[f.type]

LifeBefore(e, f) == e.at < f.at \/ (e.at = f.at /\ Priority[e.type] < Priority[f.type])

Activity(events) == Sorted(events, LifeBefore)

\* export_events_json and export_events_csv: "command" is before "plan".
AuditBefore(e, f) == e.at < f.at \/ (e.at = f.at /\ IdRank[e.type] < IdRank[f.type])

Exported(events) == Sorted(events, AuditBefore)

\* ResumeCursor.from_event, of the last one in the order.
Cursor(events) == {e \in events : \A f \in events : ~KeyBefore(e, f)}

\* events_after.
EventsAfter(cursor, events) == {e \in events : \A c \in cursor : KeyBefore(c, e)}

\* EventDedupeStore, which has observed the ids of "known".
Unseen(known, events) == {e \in events : \A f \in known : f.id # e.id}

\* The events of a list.
In(list) == {list[i] : i \in DOMAIN list}

\* read_after of a transport, by the position of the last event read.
ReadAfter(log, position) == SubSeq(log, position + 2, Len(log))

-----------------------------------------------------------------------------

\* Whoever has seen all events of a run, and goes on from the last one in the
\* order, or drops those whose ids it knows, or reads on in a log they were
\* appended to, gets what has come since, once, and nothing else: although the
\* order of the ids is not that of the run's life, and whatever ends the run.  The
\* export shows the same as the activity, but for events of one instant.
ResumeTellsAll ==
  [][\A r \in {q \in Runs : status'[q] # status[q]} :
       LET before == DerivedEvents(status[r])
           after == DerivedEvents(status'[r])
           came == after \ before
           shown == Activity(after)
           audit == Exported(after)
       IN  /\ before \subseteq after
           /\ EventsAfter(Cursor(before), after) = came
           /\ Unseen(before, after) = came
           /\ In(ReadAfter(shown, Len(Activity(before)) - 1)) = came
           /\ In(audit) = In(shown)
           /\ \A i, j \in DOMAIN shown : shown[i].at < shown[j].at =>
                \E k, l \in DOMAIN audit : k < l /\ audit[k] = shown[i] /\ audit[l] = shown[j]]_vars

=============================================================================
