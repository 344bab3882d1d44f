---------------------------- MODULE MCBoardLive ----------------------------
(* Two cards, two columns, one page and two requests at a time; one edit gives a
   card all fields, with a date whose text has one form or the other. *)
EXTENDS BoardLive, TLC

CONSTANTS k1, k2, u1, a1, l1

MCColumns == {k1, k2}
MCDone == {k2}
MCBlank == [who |-> NoOne, priority |-> "none", labels |-> {}, due |-> NoText]
MCContents ==
  {MCBlank,
   [who |-> a1, priority |-> "high", labels |-> {l1}, due |-> [form |-> "extended", day |-> 1]],
   [who |-> u1, priority |-> "none", labels |-> {}, due |-> [form |-> "extended", day |-> 0]],
   [who |-> NoOne, priority |-> "none", labels |-> {l1}, due |-> [form |-> "basic", day |-> 0]]}

Nothing == [who |-> Every, agent |-> Every, label |-> Every, priority |-> Every, due |-> Every, status |-> Every]
MCRaw ==
  {[view |-> "board", by |-> "none", filter |-> Nothing],
   [view |-> "swimlane", by |-> "none", filter |-> [Nothing EXCEPT !.label = l1]],
   [view |-> "timeline", by |-> "due", filter |-> [Nothing EXCEPT !.agent = a1, !.status = k1]]}

CardSymmetry == Permutations(Cards) \union Permutations(Requests)

=============================================================================
