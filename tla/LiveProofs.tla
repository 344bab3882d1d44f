----------------------------- MODULE LiveProofs -----------------------------
(***************************************************************************)
(* Proofs about the pages of a board, for any cards, columns, members,     *)
(* pages, requests and days: the planning views agree under every filter   *)
(* and a saved view opens as what was saved (PlanningAgrees); a page at    *)
(* rest shows the board (LiveTrue).                                        *)
(*                                                                         *)
(* PlanningAgrees is a fact of the operators (part I) and needs only the   *)
(* types (parts II and III): the sorted dates of the cards are a sequence  *)
(* that holds each of them once, so every card is in one bucket, one day   *)
(* and one bar of the views.                                               *)
(*                                                                         *)
(* LiveTrue speaks of pages at rest, the inductive invariant Follow of     *)
(* all. A page follows a card when what it shows of it, changed by the     *)
(* deltas on their way in their order, is what the pages were told of last *)
(* (Comes), or is in a place that a request has yet to tell of (Behind).   *)
(* Part IV is about the queues: what one change makes of a card, and where *)
(* a whole queue leads. Part V adds what holds of the requests and of a    *)
(* page that is being loaded (Doing, Quiet), and shows that every step     *)
(* keeps it all.                                                           *)
(***************************************************************************)
EXTENDS BoardLive, FiniteSetTheorems, SequenceTheorems, WellFoundedInduction, TLAPS

-----------------------------------------------------------------------------

\* PART I.  The planning views.

Texts == [form : Forms, day : Nat]
Dates == {text \in Texts : Dated(text)}

\* The texts of dates have a total order.
LEMMA TextOrder ==
  ASSUME NEW a \in Dates, NEW b \in Dates
  PROVE  /\ ~TextBefore(a, a)
         /\ a # b => TextBefore(a, b) \/ TextBefore(b, a)
         /\ ~(TextBefore(a, b) /\ TextBefore(b, a))
         /\ \A c \in Dates : TextBefore(a, b) /\ TextBefore(b, c) => TextBefore(a, c)
<1>1. a = [form |-> a.form, day |-> a.day] /\ b = [form |-> b.form, day |-> b.day]
  BY DEF Dates, Texts
<1> QED BY <1>1 DEF Dates, Texts, Dated, TextBefore, Forms

\* The place of x in S.
Earlier(S, x) == {y \in S : TextBefore(y, x)}
Rank(S, x) == 1 + Cardinality(Earlier(S, x))

LEMMA RanksFollow ==
  ASSUME NEW S \in SUBSET Dates, IsFiniteSet(S), NEW x \in S
  PROVE  /\ Rank(S, x) \in 1..Cardinality(S)
         /\ \A y \in S : TextBefore(y, x) => Rank(S, y) < Rank(S, x)
<1>1. x \in Dates /\ Cardinality(S) \in Nat
  BY FS_CardinalityType
<1>2. IsFiniteSet(S \ {x}) /\ Cardinality(S \ {x}) = Cardinality(S) - 1
  BY FS_RemoveElement
<1>3. Earlier(S, x) \subseteq S \ {x}
  BY <1>1, TextOrder DEF Earlier
<1>4. IsFiniteSet(Earlier(S, x)) /\ Cardinality(Earlier(S, x)) <= Cardinality(S) - 1
  BY <1>2, <1>3, FS_Subset
<1>5. Cardinality(Earlier(S, x)) \in Nat
  BY <1>4, FS_CardinalityType
<1>6. ASSUME NEW y \in S, TextBefore(y, x) PROVE Rank(S, y) < Rank(S, x)
  <2>1. y \in Dates
    OBVIOUS
  <2>2. Earlier(S, y) \subseteq Earlier(S, x)
    BY <1>1, <1>6, <2>1, TextOrder DEF Earlier
  <2>3. y \in Earlier(S, x) /\ y \notin Earlier(S, y)
    BY <1>6, <2>1, TextOrder DEF Earlier
  <2>4. /\ IsFiniteSet(Earlier(S, y)) /\ Cardinality(Earlier(S, y)) <= Cardinality(Earlier(S, x))
        /\ Cardinality(Earlier(S, y)) # Cardinality(Earlier(S, x))
    BY <1>4, <2>2, <2>3, FS_Subset
  <2>5. Cardinality(Earlier(S, y)) \in Nat
    BY <2>4, FS_CardinalityType
  <2> QED BY <1>5, <2>4, <2>5 DEF Rank
<1> QED BY <1>1, <1>4, <1>5, <1>6 DEF Rank

\* Sorting a finite set of dates gives each of them a place, in their order.
LEMMA SortedDates ==
  ASSUME NEW S \in SUBSET Dates, IsFiniteSet(S)
  PROVE  LET f == Sorted(S, TextBefore) IN
         /\ Cardinality(S) \in Nat
         /\ f \in [1..Cardinality(S) -> S]
         /\ \A i, j \in 1..Cardinality(S) : i < j => TextBefore(f[i], f[j])
         /\ \A x \in S : \E i \in 1..Cardinality(S) : f[i] = x
<1> DEFINE n == Cardinality(S)
           r == [x \in S |-> Rank(S, x)]
           Sorts(f) == \A i, j \in 1..n : i < j => TextBefore(f[i], f[j])
<1>1. n \in Nat /\ IsFiniteSet(1..n) /\ Cardinality(1..n) = n
  <2>1. n \in Nat
    BY FS_CardinalityType
  <2> QED BY <2>1, FS_Interval
<1>2. r \in [S -> 1..n]
  BY RanksFollow
<1>3. ASSUME NEW x \in S, NEW y \in S, r[x] = r[y] PROVE x = y
  <2>1. x \in Dates /\ y \in Dates
    OBVIOUS
  <2>2. r[x] \in Nat /\ ~(Rank(S, x) < Rank(S, y)) /\ ~(Rank(S, y) < Rank(S, x))
    BY <1>2, <1>3
  <2>3. ~TextBefore(x, y) /\ ~TextBefore(y, x)
    BY <2>2, RanksFollow
  <2> QED BY <2>1, <2>3, TextOrder
<1>4. r \in Injection(S, 1..n)
  BY <1>2, <1>3 DEF Injection, IsInjective
<1>5. r \in Surjection(S, 1..n)
  BY <1>1, <1>4, FS_Injection
<1>6. \A i \in 1..n : \E x \in S : r[x] = i
  BY <1>5 DEF Surjection
<1> DEFINE g == [i \in 1..n |-> CHOOSE x \in S : r[x] = i]
<1>7. g \in [1..n -> S] /\ \A i \in 1..n : r[g[i]] = i
  BY <1>6
<1>8. Sorts(g)
  <2> SUFFICES ASSUME NEW i \in 1..n, NEW j \in 1..n, i < j PROVE TextBefore(g[i], g[j])
    OBVIOUS
  <2>1. g[i] \in S /\ g[j] \in S /\ Rank(S, g[i]) = i /\ Rank(S, g[j]) = j
    BY <1>7
  <2>2. i \in Nat /\ j \in Nat /\ ~(j < i) /\ i # j
    BY <1>1
  <2>3. ~TextBefore(g[j], g[i]) /\ g[i] # g[j]
    BY <2>1, <2>2, RanksFollow
  <2> QED BY <2>1, <2>3, TextOrder
<1> DEFINE f == Sorted(S, TextBefore)
<1>9. f = CHOOSE h \in [1..n -> S] : \A i, j \in DOMAIN h : i < j => TextBefore(h[i], h[j])
  BY DEF Sorted
<1>10. \A h \in [1..n -> S] : Sorts(h) <=> \A i, j \in DOMAIN h : i < j => TextBefore(h[i], h[j])
  OBVIOUS
<1> HIDE DEF n, r, g, f, Sorts
<1>11. f \in [1..n -> S] /\ Sorts(f)
  BY <1>7, <1>8, <1>9, <1>10
<1>12. \A i, j \in 1..n : f[i] = f[j] => i = j
  <2> SUFFICES ASSUME NEW i \in 1..n, NEW j \in 1..n, f[i] = f[j], i < j PROVE FALSE
    BY <1>1
  <2>1. TextBefore(f[i], f[j]) /\ f[i] \in Dates
    BY <1>11 DEF Sorts
  <2> QED BY <2>1, TextOrder
<1>13. f \in Injection(1..n, S)
  BY <1>11, <1>12 DEF Injection, IsInjective
<1>14. f \in Surjection(1..n, S)
  BY <1>1, <1>13, FS_Injection DEF n
<1>15. \A x \in S : \E i \in 1..n : f[i] = x
  BY <1>14 DEF Surjection
<1> QED BY <1>1, <1>11, <1>15 DEF n, f, Sorts

-----------------------------------------------------------------------------
\* The parts of Agree.

FilterFields == {"who", "agent", "label", "priority", "due", "status"}
Buckets == {"unscheduled", "overdue", "today", "upcoming"}

\* A card has one bucket, and one overdue is dated.
LEMMA BucketIs ==
  ASSUME NEW card, card.due \in Texts, NEW now \in Nat
  PROVE  /\ Bucket(card, now) \in Buckets
         /\ Bucket(card, now) = "overdue" <=> Dated(card.due) /\ card.due.day < now
<1>0. card.due.day \in Nat
  BY DEF Texts
<1>1. CASE ~Dated(card.due)
  BY <1>1 DEF Bucket, Buckets
<1>2. CASE Dated(card.due) /\ card.due.day < now
  BY <1>0, <1>2 DEF Bucket, Buckets
<1>3. CASE Dated(card.due) /\ ~(card.due.day < now) /\ card.due.day = now
  BY <1>0, <1>3 DEF Bucket, Buckets
<1>4. CASE Dated(card.due) /\ ~(card.due.day < now) /\ card.due.day # now
  BY <1>0, <1>4 DEF Bucket, Buckets
<1> QED BY <1>1, <1>2, <1>3, <1>4

\* Each card is in the lanes it has.
LEMMA GroupsAre ==
  ASSUME NEW cards, NEW by, NEW now
  PROVE  /\ \A k : k \in DOMAIN Groups(cards, by, now) <=> \E card \in cards : k \in Lanes(by, card, now)
         /\ \A k \in DOMAIN Groups(cards, by, now) :
              Groups(cards, by, now)[k] = {card \in cards : k \in Lanes(by, card, now)}
BY DEF Groups

LEMMA OneLane ==
  ASSUME NEW by \in Grouping \ {"label", "agent"}, NEW card, NEW now
  PROVE  \E k : Lanes(by, card, now) = {k}
<1>1. CASE by = "status"
  BY <1>1 DEF Lanes
<1>2. CASE by = "priority"
  BY <1>2 DEF Lanes
<1>3. CASE by = "due"
  BY <1>3 DEF Lanes
<1>4. CASE by = "assignee"
  BY <1>4 DEF Lanes
<1> QED BY <1>1, <1>2, <1>3, <1>4 DEF Grouping

LEMMA OnceInItsLane ==
  ASSUME NEW cards, NEW by \in Grouping \ {"label", "agent"}, NEW card \in cards, NEW now
  PROVE  Cardinality({k \in DOMAIN Groups(cards, by, now) :
                        card \in Groups(cards, by, now)[k]}) = 1
<1>1. PICK k : Lanes(by, card, now) = {k}
  BY OneLane
<1> DEFINE G == Groups(cards, by, now)
<1>2. \A l : l \in DOMAIN G <=> \E d \in cards : l \in Lanes(by, d, now)
  BY GroupsAre
<1>3. \A l \in DOMAIN G : G[l] = {d \in cards : l \in Lanes(by, d, now)}
  BY GroupsAre
<1> HIDE DEF G
<1>4. {l \in DOMAIN G : card \in G[l]} = {k}
  BY <1>1, <1>2, <1>3
<1> QED BY <1>4, FS_Singleton DEF G

LEMMA AgentsHaveLanes ==
  ASSUME NEW cards, NEW card \in cards, NEW now
  PROVE  \/ \E k \in DOMAIN Groups(cards, "agent", now) : card \in Groups(cards, "agent", now)[k]
         \/ card.who \in Humans
<1> SUFFICES ASSUME card.who \notin Humans
             PROVE  \E k \in DOMAIN Groups(cards, "agent", now) :
                      card \in Groups(cards, "agent", now)[k]
  OBVIOUS
<1>1. card.who \in Lanes("agent", card, now)
  BY DEF Lanes
<1> DEFINE G == Groups(cards, "agent", now)
<1>2. card.who \in DOMAIN G
  BY <1>1, GroupsAre
<1>3. G[card.who] = {d \in cards : card.who \in Lanes("agent", d, now)}
  BY <1>2, GroupsAre
<1> QED BY <1>1, <1>2, <1>3

\* The lane of a bucket is the filter by that bucket.
LEMMA LanesAreFilters ==
  ASSUME NEW board, \A card \in board : card.due \in Texts, NEW f, DOMAIN f = FilterFields,
         f.due = Every, NEW now \in Nat,
         NEW k \in DOMAIN Groups(Filtered(board, f, now), "due", now)
  PROVE  Groups(Filtered(board, f, now), "due", now)[k] =
           Filtered(board, [f EXCEPT !.due = k], now)
<1> DEFINE cards == Filtered(board, f, now)
           g == [f EXCEPT !.due = k]
<1>1. \A card : Lanes("due", card, now) = {Bucket(card, now)}
  BY DEF Lanes
<1> DEFINE G == Groups(cards, "due", now)
<1>6. \A l : l \in DOMAIN G <=> \E card \in cards : l \in Lanes("due", card, now)
  BY GroupsAre
<1>7. \A l \in DOMAIN G : G[l] = {card \in cards : l \in Lanes("due", card, now)}
  BY GroupsAre
<1>2. k \in Buckets
  <2>1. PICK card \in cards : k \in Lanes("due", card, now)
    BY <1>6
  <2>2. card.due \in Texts
    BY DEF Filtered
  <2> QED BY <1>1, <2>1, <2>2, BucketIs
<1>3. k # Every
  BY <1>2, EveryAssumption DEF Buckets
<1>4. /\ g.who = f.who /\ g.agent = f.agent /\ g.label = f.label /\ g.priority = f.priority
      /\ g.status = f.status /\ g.due = k
  BY DEF FilterFields
<1>5. \A card : Matches(card, g, now) <=> Matches(card, f, now) /\ k = Bucket(card, now)
  BY <1>3, <1>4 DEF Matches, Asks
<1>8. G[k] = {card \in cards : k = Bucket(card, now)}
  BY <1>1, <1>7
<1> QED BY <1>5, <1>8 DEF Filtered

\* The timeline of cards whose dates are sorted: a bucket per date, and the rest.
Dues(cards) == {card.due : card \in {d \in cards : Dated(d.due)}}
Undated(cards) == {card \in cards : ~Dated(card.due)}

LEMMA DuesAre ==
  ASSUME NEW cards, IsFiniteSet(cards), \A card \in cards : card.due \in Texts
  PROVE  Dues(cards) \in SUBSET Dates /\ IsFiniteSet(Dues(cards))
<1> DEFINE D == {d \in cards : Dated(d.due)}
           h == [card \in D |-> card.due]
<1>1. IsFiniteSet(D)
  BY FS_Subset
<1>2. h \in Surjection(D, Dues(cards))
  BY DEF Surjection, Dues
<1>3. IsFiniteSet(Dues(cards))
  BY <1>1, <1>2, FS_Surjection
<1> QED BY <1>3 DEF Dues, Dates

LEMMA TimelineIs ==
  ASSUME NEW cards, IsFiniteSet(cards), \A card \in cards : card.due \in Texts, NEW now
  PROVE  LET line == Timeline(cards, now)
             n == Cardinality(Dues(cards))
             dated == Sorted(Dues(cards), TextBefore)
         IN  /\ n \in Nat
             /\ DOMAIN line = 1..n \union (IF Undated(cards) = {} THEN {} ELSE {n + 1})
             /\ \A i \in 1..n :
                  /\ line[i].key = dated[i]
                  /\ line[i].overdue <=> dated[i].day < now
                  /\ \A card : card \in line[i].cards <=> card \in cards /\ card.due = dated[i]
             /\ Undated(cards) # {} =>
                  /\ line[n + 1].key = NoText /\ ~line[n + 1].overdue
                  /\ line[n + 1].cards = Undated(cards)
<1> DEFINE n == Cardinality(Dues(cards))
           dated == Sorted(Dues(cards), TextBefore)
           bucket(text) == [key |-> text, overdue |-> text.day < now,
                            cards |-> {card \in cards : card.due = text}]
           head == [i \in 1..n |-> bucket(dated[i])]
           rest == Undated(cards)
           last == [key |-> NoText, overdue |-> FALSE, cards |-> rest]
           tail == IF rest = {} THEN <<>> ELSE <<last>>
<1>1. n \in Nat /\ dated \in [1..n -> Dues(cards)]
  BY DuesAre, SortedDates
<1>2. Len(dated) = n
  BY <1>1
<1>3. Timeline(cards, now) = head \o tail
  BY <1>2 DEF Timeline, Dues, Undated
<1> DEFINE Anything == {bucket(dated[i]) : i \in 1..n} \union {last}
<1>4. head \in Seq(Anything) /\ Len(head) = n /\ tail \in Seq(Anything)
      /\ Len(tail) = (IF rest = {} THEN 0 ELSE 1) /\ (rest # {} => tail[1] = last)
  <2>1. head \in [1..n -> Anything]
    OBVIOUS
  <2> HIDE DEF head, Anything, rest, last, bucket
  <2>2. head \in Seq(Anything) /\ Len(head) = n
    BY <1>1, <2>1
  <2>3. last \in Anything
    BY DEF Anything
  <2>4. tail \in Seq(Anything) /\ Len(tail) = (IF rest = {} THEN 0 ELSE 1) /\ (rest # {} => tail[1] = last)
    BY <2>3
  <2> QED BY <2>2, <2>4
<1>5. \A i \in 1..n : head[i] = bucket(dated[i])
  OBVIOUS
<1> HIDE DEF head, tail, Anything, bucket, last, rest, dated, n
<1>6. Len(head \o tail) = n + Len(tail)
      /\ \A i \in 1..Len(head) + Len(tail) :
           (head \o tail)[i] = IF i <= Len(head) THEN head[i] ELSE tail[i - Len(head)]
  BY <1>4, ConcatProperties
<1>7. DOMAIN (head \o tail) = 1..n + Len(tail)
  <2>1. head \o tail \in Seq(Anything)
    BY <1>4, ConcatProperties
  <2> QED BY <1>6, <2>1
<1>8. DOMAIN (head \o tail) = 1..n \union (IF rest = {} THEN {} ELSE {n + 1})
  BY <1>1, <1>4, <1>7
<1>9. \A i \in 1..n : (head \o tail)[i] = bucket(dated[i])
  BY <1>1, <1>4, <1>5, <1>6
<1>10. rest # {} => (head \o tail)[n + 1] = last
  BY <1>1, <1>4, <1>6
<1>11. \A text : /\ bucket(text).key = text
                 /\ bucket(text).overdue <=> text.day < now
                 /\ \A card : card \in bucket(text).cards <=> card \in cards /\ card.due = text
  BY DEF bucket
<1>12. last.key = NoText /\ ~last.overdue /\ last.cards = rest
  BY DEF last
<1>13. \A i \in 1..n :
         /\ (head \o tail)[i].key = dated[i]
         /\ (head \o tail)[i].overdue <=> dated[i].day < now
         /\ \A card : card \in (head \o tail)[i].cards <=> card \in cards /\ card.due = dated[i]
  <2> TAKE i \in 1..n
  <2>1. (head \o tail)[i] = bucket(dated[i])
    BY <1>9
  <2> DEFINE b == bucket(dated[i])
  <2>2. b.key = dated[i] /\ (b.overdue <=> dated[i].day < now)
    BY <1>11
  <2>3. \A card : card \in b.cards <=> card \in cards /\ card.due = dated[i]
    BY <1>11
  <2>4. (head \o tail)[i] = b
    BY <2>1
  <2> HIDE DEF b
  <2> QED BY <2>2, <2>3, <2>4
<1>14. rest # {} => /\ (head \o tail)[n + 1].key = NoText /\ ~(head \o tail)[n + 1].overdue
                    /\ (head \o tail)[n + 1].cards = rest
  BY <1>10, <1>12
<1> QED BY <1>1, <1>3, <1>8, <1>13, <1>14 DEF rest, dated, n

-----------------------------------------------------------------------------
\* All of them together.

LEMMA ViewsAgree ==
  ASSUME NEW board, IsFiniteSet(board), \A card \in board : card.due \in Texts,
         NEW f, DOMAIN f = FilterFields, NEW now \in Nat
  PROVE  Agree(board, f, now)
<1> DEFINE cards == Filtered(board, f, now)
           due == Groups(cards, "due", now)
           line == Timeline(cards, now)
           n == Cardinality(Dues(cards))
           dated == Sorted(Dues(cards), TextBefore)
           rest == Undated(cards)
           lost == UNION {line[i].cards : i \in {j \in DOMAIN line : line[j].overdue}}
           behind == {card \in cards : Bucket(card, now) = "overdue"}
<1>1. IsFiniteSet(cards) /\ \A card \in cards : card.due \in Texts
  <2>1. cards \in SUBSET board
    BY DEF Filtered
  <2> QED BY <2>1, FS_Subset
<1>2. \A card \in cards : Lanes("due", card, now) = {Bucket(card, now)}
  BY DEF Lanes
<1>3. \A card \in cards : Bucket(card, now) = "overdue" <=> Dated(card.due) /\ card.due.day < now
  BY <1>1, BucketIs
<1>4. /\ n \in Nat
      /\ DOMAIN line = 1..n \union (IF rest = {} THEN {} ELSE {n + 1})
      /\ \A i \in 1..n :
           /\ line[i].key = dated[i]
           /\ line[i].overdue <=> dated[i].day < now
           /\ \A card : card \in line[i].cards <=> card \in cards /\ card.due = dated[i]
      /\ rest # {} => /\ line[n + 1].key = NoText /\ ~line[n + 1].overdue
                      /\ line[n + 1].cards = rest
  BY <1>1, TimelineIs
<1>5. /\ dated \in [1..n -> Dues(cards)] /\ Dues(cards) \in SUBSET Dates
      /\ \A i, j \in 1..n : i < j => TextBefore(dated[i], dated[j])
      /\ \A x \in Dues(cards) : \E i \in 1..n : dated[i] = x
  BY <1>1, DuesAre, SortedDates
<1>6. \A by \in Grouping \ {"label", "agent"}, card \in cards :
        Cardinality({k \in DOMAIN Groups(cards, by, now) : card \in Groups(cards, by, now)[k]}) = 1
  BY OnceInItsLane
<1>7. \A card \in cards :
        \/ \E k \in DOMAIN Groups(cards, "agent", now) : card \in Groups(cards, "agent", now)[k]
        \/ card.who \in Humans
  BY AgentsHaveLanes
<1>8. behind = IF "overdue" \in DOMAIN due THEN due["overdue"] ELSE {}
  <2>1. \A k : k \in DOMAIN due <=> \E card \in cards : k \in Lanes("due", card, now)
    BY GroupsAre
  <2>2. \A k \in DOMAIN due : due[k] = {card \in cards : k \in Lanes("due", card, now)}
    BY GroupsAre
  <2> HIDE DEF due, cards
  <2> QED BY <1>2, <2>1, <2>2
<1>9. \A k \in DOMAIN due : f.due = Every => due[k] = Filtered(board, [f EXCEPT !.due = k], now)
  BY LanesAreFilters
<1>10. \A card \in cards : Dated(card.due) => card.due \in Dues(cards)
  BY DEF Dues
<1>11. \A card \in cards : card \in rest <=> ~Dated(card.due)
  BY DEF Undated
<1>12. \A i \in 1..n : Dated(dated[i]) /\ dated[i] \in Dates
  BY <1>5 DEF Dates
<1>13. rest \subseteq cards
  BY DEF Undated
<1>14. n + 1 \notin 1..n
  BY <1>4
<1> HIDE DEF due, line, n, dated, rest, cards
<1>15. lost = behind
  <2>1. ASSUME NEW card \in lost PROVE card \in behind
    <3>1. PICK i \in DOMAIN line : line[i].overdue /\ card \in line[i].cards
      OBVIOUS
    <3>2. i \in 1..n
      BY <1>4, <3>1
    <3>3. card \in cards /\ card.due = dated[i] /\ dated[i].day < now
      BY <1>4, <3>1, <3>2
    <3> QED BY <1>3, <1>12, <3>2, <3>3
  <2>2. ASSUME NEW card \in behind PROVE card \in lost
    <3>1. card \in cards /\ Dated(card.due) /\ card.due.day < now
      BY <1>3
    <3>2. PICK i \in 1..n : dated[i] = card.due
      BY <1>5, <1>10, <3>1
    <3>3. i \in DOMAIN line /\ line[i].overdue /\ card \in line[i].cards
      BY <1>4, <3>1, <3>2
    <3> QED BY <3>3
  <2> QED BY <2>1, <2>2
<1>16. ASSUME NEW card \in cards
       PROVE  Cardinality({i \in DOMAIN line : card \in line[i].cards}) = 1
  <2>1. CASE Dated(card.due)
    <3>1. PICK i \in 1..n : dated[i] = card.due
      BY <1>5, <1>10, <2>1
    <3>2. \A j \in 1..n : dated[j] = card.due => j = i
      <4> SUFFICES ASSUME NEW j \in 1..n, dated[j] = card.due, j # i PROVE FALSE
        OBVIOUS
      <4>1. j < i \/ i < j
        BY <1>4
      <4>2. TextBefore(dated[i], dated[i])
        BY <1>5, <3>1, <4>1
      <4> QED BY <1>12, <4>2, TextOrder
    <3>3. card \notin rest
      BY <1>11, <2>1
    <3>4. {j \in DOMAIN line : card \in line[j].cards} = {i}
      <4>1. i \in DOMAIN line /\ card \in line[i].cards
        BY <1>4, <3>1
      <4>2. ASSUME NEW j \in DOMAIN line, card \in line[j].cards PROVE j = i
        <5>1. CASE j \in 1..n
          BY <1>4, <3>2, <4>2, <5>1
        <5>2. CASE j \notin 1..n
          BY <1>4, <3>3, <4>2, <5>2
        <5> QED BY <5>1, <5>2
      <4> QED BY <4>1, <4>2
    <3> QED BY <3>4, FS_Singleton
  <2>2. CASE ~Dated(card.due)
    <3>1. card \in rest
      BY <1>11, <2>2
    <3>2. {j \in DOMAIN line : card \in line[j].cards} = {n + 1}
      <4>1. n + 1 \in DOMAIN line /\ card \in line[n + 1].cards
        BY <1>4, <3>1
      <4>2. ASSUME NEW j \in DOMAIN line, card \in line[j].cards PROVE j = n + 1
        <5>1. CASE j \in 1..n
          BY <1>4, <1>12, <2>2, <4>2, <5>1
        <5>2. CASE j \notin 1..n
          BY <1>4, <3>1, <5>2
        <5> QED BY <5>1, <5>2
      <4> QED BY <4>1, <4>2
    <3> QED BY <3>2, FS_Singleton
  <2> QED BY <2>1, <2>2
<1>17. ASSUME NEW i \in DOMAIN line, NEW j \in DOMAIN line, i < j,
              line[i].key.form = line[j].key.form
       PROVE  line[i].key.day < line[j].key.day
  <2>1. CASE j \in 1..n
    <3>1. i \in 1..n
      BY <1>4, <1>17, <2>1
    <3>2. line[i].key = dated[i] /\ line[j].key = dated[j] /\ TextBefore(dated[i], dated[j])
      BY <1>4, <1>5, <1>17, <2>1, <3>1
    <3> QED BY <1>17, <3>2 DEF TextBefore
  <2>2. CASE j \notin 1..n
    <3>1. j = n + 1 /\ line[j].key = NoText
      BY <1>4, <2>2
    <3>2. i \in 1..n /\ line[i].key = dated[i]
      BY <1>4, <1>17, <2>2, <3>1
    <3>3. dated[i].form # "none"
      BY <1>12, <3>2 DEF Dated
    <3> QED BY <1>17, <3>1, <3>2, <3>3 DEF NoText
  <2> QED BY <2>1, <2>2
<1>18. Metrics(cards, now).overdue = Cardinality(behind)
  BY DEF Metrics
<1> QED
  BY <1>6, <1>7, <1>8, <1>9, <1>15, <1>16, <1>17, <1>18 DEF Agree, due, line, cards

-----------------------------------------------------------------------------

\* PART II.  The pages.

Row == [there : BOOLEAN, at : Columns, data : Contents, notes : SUBSET Nat]
Rows == [Cards -> Row]
Shape == [id : Cards, at : Columns, data : Contents, notes : SUBSET Nat]
Delta == [kind : {"created", "moved", "updated", "comment"}, card : Shape]

\* A card of what a page shows, and what a change makes of it.
Of(S, c) == {card \in S : card.id = c}
Took(X, d, c) == IF d.card.id = c THEN Applied(X, d) ELSE X

\* No card, or one of that id.
AtMostOne(X, c) == X = {} \/ \E x \in Shape : x.id = c /\ X = {x}

\* What becomes of a card as the changes of a queue come in, of which only the
\* first may be of a card that is not there.
Walk(f, S, q, c) ==
  /\ f \in [0..Len(q) -> SUBSET Shape]
  /\ f[0] = Of(S, c)
  /\ \A i \in 1..Len(q) :
       /\ f[i] = Took(f[i - 1], q[i], c)
       /\ q[i].card.id = c /\ q[i].kind # "created" => f[i - 1] # {}

Leads(S, q, c, X) == \E f \in [0..Len(q) -> SUBSET Shape] : Walk(f, S, q, c) /\ f[Len(q)] = X

LEMMA TookIs ==
  ASSUME NEW X \in SUBSET Shape, NEW d \in Delta, NEW c
  PROVE  /\ Took(X, d, c) \in SUBSET Shape
         /\ X # {} => Took(X, d, c) # {}
<1>1. \A x \in Shape : x = [id |-> x.id, at |-> x.at, data |-> x.data, notes |-> x.notes]
  BY DEF Shape
<1>2. d.card \in Shape
  BY DEF Delta
<1>3. \A x \in X : /\ [d.card EXCEPT !.at = x.at] \in Shape
                   /\ [x EXCEPT !.notes = @ \union d.card.notes] \in Shape
  BY <1>2 DEF Shape
<1> DEFINE same == {card \in X : card.id = d.card.id}
<1>4. CASE d.kind = "created"
  BY <1>2, <1>4 DEF Took, Applied
<1>5. CASE d.kind = "moved"
  BY <1>2, <1>5 DEF Took, Applied
<1>6. CASE d.kind = "updated"
  <2> DEFINE T == {[d.card EXCEPT !.at = card.at] : card \in same}
  <2>1. Took(X, d, c) = X \/ Took(X, d, c) = (X \ same) \union T
    BY <1>6 DEF Took, Applied
  <2>2. T \subseteq Shape
    BY <1>3
  <2>3. same # {} => T # {}
    OBVIOUS
  <2> HIDE DEF T
  <2> QED BY <2>1, <2>2, <2>3
<1>7. CASE d.kind = "comment"
  <2> DEFINE T == {[card EXCEPT !.notes = @ \union d.card.notes] : card \in same}
  <2>1. Took(X, d, c) = X \/ Took(X, d, c) = (X \ same) \union T
    BY <1>7 DEF Took, Applied
  <2>2. T \subseteq Shape
    BY <1>3
  <2>3. same # {} => T # {}
    OBVIOUS
  <2> HIDE DEF T
  <2> QED BY <2>1, <2>2, <2>3
<1> QED BY <1>4, <1>5, <1>6, <1>7 DEF Delta

\* What a change makes of one card.
Made(Y, X, d) ==
  /\ d.kind = "created" => Y = IF X = {} THEN {d.card} ELSE X
  /\ d.kind # "created" /\ X = {} => Y = {}
  /\ \A x : X = {x} =>
       /\ d.kind = "moved" => Y = {d.card}
       /\ d.kind = "updated" => Y = {[d.card EXCEPT !.at = x.at]}
       /\ d.kind = "comment" => Y = {[x EXCEPT !.notes = @ \union d.card.notes]}

LEMMA TookOne ==
  ASSUME NEW d \in Delta, NEW c, NEW X, AtMostOne(X, c), d.card.id = c
  PROVE  Made(Took(X, d, c), X, d)
<1>1. Took(X, d, c) = Applied(X, d)
  BY DEF Took
<1>2. CASE X = {}
  BY <1>1, <1>2 DEF Applied, Delta, Made
<1>3. CASE X # {}
  <2>1. PICK x \in Shape : x.id = c /\ X = {x}
    BY <1>3 DEF AtMostOne
  <2>2. {card \in X : card.id = d.card.id} = X
    BY <2>1
  <2>3. d.kind = "created" => Applied(X, d) = X
    BY <1>3, <2>2 DEF Applied
  <2>4. d.kind = "moved" => Applied(X, d) = {d.card}
    BY <1>3, <2>2 DEF Applied
  <2>5. d.kind = "updated" => Applied(X, d) = {[d.card EXCEPT !.at = card.at] : card \in X}
    BY <2>2 DEF Applied
  <2>6. d.kind = "comment" => Applied(X, d) = {[card EXCEPT !.notes = @ \union d.card.notes] : card \in X}
    BY <2>2 DEF Applied
  <2> QED BY <1>1, <1>3, <2>1, <2>3, <2>4, <2>5, <2>6 DEF Made
<1> QED BY <1>2, <1>3

LEMMA TookStaysOne ==
  ASSUME NEW d \in Delta, NEW c, NEW X, AtMostOne(X, c)
  PROVE  AtMostOne(Took(X, d, c), c)
<1>1. d.card \in Shape /\ d.kind \in {"created", "moved", "updated", "comment"}
  BY DEF Delta
<1>2. CASE d.card.id # c
  BY <1>2 DEF Took
<1>3. CASE d.card.id = c /\ X = {}
  <2>1. Made(Took(X, d, c), X, d)
    BY <1>3, TookOne
  <2> QED BY <1>1, <1>3, <2>1 DEF AtMostOne, Made
<1>4. CASE d.card.id = c /\ X # {}
  <2>1. PICK x \in Shape : x.id = c /\ X = {x}
    BY <1>4 DEF AtMostOne
  <2>2. /\ [d.card EXCEPT !.at = x.at] \in Shape /\ [d.card EXCEPT !.at = x.at].id = c
        /\ [x EXCEPT !.notes = @ \union d.card.notes] \in Shape
        /\ [x EXCEPT !.notes = @ \union d.card.notes].id = c
    BY <1>1, <1>4, <2>1 DEF Shape
  <2> DEFINE Y == Took(X, d, c)
  <2>3. /\ d.kind = "created" => Y = X
        /\ d.kind = "moved" => Y = {d.card}
        /\ d.kind = "updated" => Y = {[d.card EXCEPT !.at = x.at]}
        /\ d.kind = "comment" => Y = {[x EXCEPT !.notes = @ \union d.card.notes]}
    <3>1. Made(Y, X, d)
      BY <1>4, TookOne
    <3> HIDE DEF Y
    <3> QED BY <1>4, <2>1, <3>1 DEF Made
  <2> HIDE DEF Y
  <2>4. AtMostOne(Y, c)
    BY <1>1, <1>4, <2>1, <2>2, <2>3 DEF AtMostOne
  <2> QED BY <2>4 DEF Y
<1> QED BY <1>2, <1>3, <1>4

\* Applied changes the card it is about.
LEMMA AppliedTo ==
  ASSUME NEW S \in SUBSET Shape, NEW d \in Delta, NEW c
  PROVE  Of(Applied(S, d), c) = Took(Of(S, c), d, c)
<1> DEFINE same == {card \in S : card.id = d.card.id}
<1>1. d.card \in Shape
  BY DEF Delta
<1>2. \A card \in same : /\ [d.card EXCEPT !.at = card.at].id = d.card.id
                         /\ [card EXCEPT !.notes = @ \union d.card.notes].id = d.card.id
  BY <1>1 DEF Shape
<1>3. CASE d.card.id # c
  <2>1. Took(Of(S, c), d, c) = Of(S, c)
    BY <1>3 DEF Took
  <2>2. \A T : (\A t \in T : t.id = d.card.id) => Of(S \ same, c) = Of(S, c) /\ Of(T, c) = {}
    BY <1>3 DEF Of
  <2>3. d.kind = "created" => Of(Applied(S, d), c) = Of(S, c)
    BY <1>3 DEF Applied, Of
  <2>4. d.kind = "moved" => Of(Applied(S, d), c) = Of(S, c)
    BY <1>3 DEF Applied, Of
  <2>5. d.kind = "updated" => Of(Applied(S, d), c) = Of(S, c)
    <3> DEFINE T == {[d.card EXCEPT !.at = card.at] : card \in same}
    <3>1. d.kind = "updated" => Applied(S, d) = (S \ same) \union T
      BY DEF Applied
    <3>2. \A t \in T : t.id = d.card.id
      BY <1>2
    <3> HIDE DEF T
    <3> QED BY <1>3, <3>1, <3>2 DEF Of
  <2>6. d.kind = "comment" => Of(Applied(S, d), c) = Of(S, c)
    <3> DEFINE T == {[card EXCEPT !.notes = @ \union d.card.notes] : card \in same}
    <3>1. d.kind = "comment" => Applied(S, d) = (S \ same) \union T
      BY DEF Applied
    <3>2. \A t \in T : t.id = d.card.id
      BY <1>2
    <3> HIDE DEF T
    <3> QED BY <1>3, <3>1, <3>2 DEF Of
  <2> QED BY <2>1, <2>3, <2>4, <2>5, <2>6 DEF Delta
<1>4. CASE d.card.id = c
  <2>1. Took(Of(S, c), d, c) = Applied(same, d)
    BY <1>4 DEF Took, Of
  <2>2. {card \in same : card.id = d.card.id} = same
    OBVIOUS
  <2>3. d.kind = "created" => Of(Applied(S, d), c) = Applied(same, d)
    BY <1>4, <2>2 DEF Applied, Of
  <2>4. d.kind = "moved" => Of(Applied(S, d), c) = Applied(same, d)
    BY <1>4, <2>2 DEF Applied, Of
  <2>5. d.kind = "updated" => Of(Applied(S, d), c) = Applied(same, d)
    <3> DEFINE T == {[d.card EXCEPT !.at = card.at] : card \in same}
    <3>1. d.kind = "updated" => Applied(S, d) = (S \ same) \union T /\ Applied(same, d) = (same \ same) \union T
      BY <2>2 DEF Applied
    <3>2. \A t \in T : t.id = d.card.id
      BY <1>2
    <3> HIDE DEF T
    <3> QED BY <1>4, <3>1, <3>2 DEF Of
  <2>6. d.kind = "comment" => Of(Applied(S, d), c) = Applied(same, d)
    <3> DEFINE T == {[card EXCEPT !.notes = @ \union d.card.notes] : card \in same}
    <3>1. d.kind = "comment" => Applied(S, d) = (S \ same) \union T /\ Applied(same, d) = (same \ same) \union T
      BY <2>2 DEF Applied
    <3>2. \A t \in T : t.id = d.card.id
      BY <1>2
    <3> HIDE DEF T
    <3> QED BY <1>4, <3>1, <3>2 DEF Of
  <2> QED BY <2>1, <2>3, <2>4, <2>5, <2>6 DEF Delta
<1> QED BY <1>3, <1>4

-----------------------------------------------------------------------------

\* PART III.  What the variables hold.

Kinds == {"created", "moved", "updated", "comment"}
Boards == {Board(rows) : rows \in Rows}
Settings ==
  {set \in [view : Views, by : Grouping \union {"none"}, filter : {raw.filter : raw \in Raw} \union {Every}] :
     set.view = "swimlane" => set.by # "none"}
Doings == [pc : {"idle", "move", "flow", "edit", "tell", "told"}, kind : Kinds \union {"none"},
           id : Cards \union {Nobody}, copy : Row, by : Pages \union {Nobody}]
Sheets == [pc : {"closed", "fetch", "shown"}, on : BOOLEAN, left : SUBSET Columns,
           got : SUBSET Shape, shows : SUBSET Shape, resp : SUBSET Boards, over : SUBSET Cards,
           whole : BOOLEAN, set : Settings]

Stored == row \in Rows /\ written \in Rows /\ lock \in Requests \union {Nobody} /\ today \in Nat /\ ops \in Nat
Asked ==
  /\ Absent \in Row
  /\ req \in [Requests -> Doings]
  /\ \A r \in Requests : req[r].pc # "idle" => req[r].id \in Cards /\ req[r].kind \in Kinds
Seen == page \in [Pages -> Sheets]
Sent == queue \in [Pages -> Seq(Delta)] /\ late \in [Pages -> SUBSET Cards]
Kept == saved \subseteq {[view |-> Saved(set), from |-> set] : set \in Settings}
Types == Stored /\ Asked /\ Seen /\ Sent /\ Kept

\* What is shown of a row is the row.
LEMMA FragmentIs ==
  ASSUME NEW c \in Cards, NEW copy \in Row
  PROVE  Fragment(c, copy) \in Shape /\ Fragment(c, copy).id = c /\ Fragment(c, copy).at = copy.at
BY DEF Fragment, Shape, Row

LEMMA BoardIs ==
  ASSUME NEW rows \in Rows
  PROVE  /\ Board(rows) \in SUBSET Shape /\ Board(rows) \in Boards
         /\ \A c \in Cards : Of(Board(rows), c) = IF rows[c].there THEN {Fragment(c, rows[c])} ELSE {}
<1>1. \A c \in Cards : rows[c] \in Row
  BY DEF Rows
<1>2. \A c \in Cards : Fragment(c, rows[c]) \in Shape /\ Fragment(c, rows[c]).id = c
  BY <1>1, FragmentIs
<1>3. Board(rows) = {Fragment(c, rows[c]) : c \in {d \in Cards : rows[d].there}}
  BY DEF Board
<1> QED BY <1>2, <1>3 DEF Of, Boards

\* A page of settings the program shows is one that opens as it was saved.
LEMMA SavedOpens ==
  ASSUME NEW set \in Settings
  PROVE  Shown(Params(Saved(set))) = set
<1>1. set = [view |-> set.view, filter |-> set.filter, by |-> set.by]
  BY DEF Settings
<1>2. Params(Saved(set)).view = set.view /\ Params(Saved(set)).filter = set.filter
      /\ Params(Saved(set)).by = IF set.by \in Grouping THEN set.by ELSE "none"
  BY DEF Params, Saved
<1>3. set.view \in Views /\ set.by \in Grouping \union {"none"} /\ (set.view = "swimlane" => set.by # "none")
  BY DEF Settings
<1>4. "none" \notin Grouping
  BY DEF Grouping
<1>5. Shown(Params(Saved(set))) = [view |-> set.view, filter |-> set.filter, by |-> set.by]
  BY <1>2, <1>3, <1>4 DEF Shown
<1> QED BY <1>1, <1>5

LEMMA ShownIs ==
  ASSUME NEW raw \in Raw
  PROVE  Shown(raw) \in Settings
BY DEF Shown, Settings, Views, Grouping

LEMMA TypesAtFirst ==
  ASSUME Init
  PROVE  Types
<1>1. PICK c \in Cards, k \in Columns :
        row = [d \in Cards |-> IF d = c THEN [Absent EXCEPT !.there = TRUE, !.at = k] ELSE Absent]
  BY DEF Init
<1>2. Absent \in Row
  BY <1>1, CardAssumption DEF Absent, Row
<1>3. [Absent EXCEPT !.there = TRUE, !.at = k] \in Row
  BY <1>2 DEF Row
<1>4. Stored
  BY <1>1, <1>2, <1>3 DEF Stored, Rows, Init
<1>5. Asked
  BY <1>2 DEF Asked, Init, Idle, Doings
<1>6. NoSettings \in Settings
  BY DEF NoSettings, Settings, Views
<1>7. Seen
  BY <1>6 DEF Seen, Init, Closed, Sheets
<1>8. Sent
  BY DEF Sent, Init
<1> QED BY <1>4, <1>5, <1>7, <1>8 DEF Types, Kept, Init

\* What a request becomes is a request, what a page becomes a page.
LEMMA Goes ==
  ASSUME Asked, NEW r \in Requests, NEW state \in Doings, Goto(r, state),
         state.pc # "idle" => state.id \in Cards /\ state.kind \in Kinds
  PROVE  Asked'
<1>1. req' \in [Requests -> Doings] /\ \A s \in Requests : req'[s] = IF s = r THEN state ELSE req[s]
  BY DEF Goto, Asked
<1>2. Absent' \in Row'
  BY DEF Asked, Absent, Row
<1> QED BY <1>1, <1>2 DEF Asked

LEMMA Turns ==
  ASSUME Seen, NEW p \in Pages, NEW sheet \in Sheets, page' = [page EXCEPT ![p] = sheet]
  PROVE  Seen'
BY DEF Seen

LEMMA Tears ==
  ASSUME Seen, page' = page \/ page' = Torn
  PROVE  Seen'
<1>1. \A p \in Pages : [page[p] EXCEPT !.whole = FALSE] \in Sheets
  BY DEF Seen, Sheets
<1> QED BY <1>1 DEF Seen, Torn

\* What a write makes of the rows.
LEMMA Writes ==
  ASSUME Stored, NEW r \in Requests, NEW c \in Cards, NEW new \in Row, Write(r, c, new)
  PROVE  /\ written' \in Rows /\ lock' = r
         /\ Sees(r) \in Rows
         /\ written' = [Sees(r) EXCEPT ![c] = new]
BY DEF Stored, Write, Sees, Rows

LEMMA RequestKeepsTypes ==
  ASSUME Types, NEW r \in Requests, RequestStep(r)
  PROVE  Types'
<1> USE DEF Types
<1>0. /\ req[r] \in Doings /\ req[r].copy \in Row /\ req[r].id \in Cards \union {Nobody}
      /\ req[r].pc # "idle" => req[r].id \in Cards /\ req[r].kind \in Kinds
      /\ \A c \in Cards : row[c] \in Row /\ written[c] \in Row
      /\ Absent \in Row
      /\ row \in Rows /\ written \in Rows /\ ops \in Nat /\ today \in Nat
  BY DEF Asked, Stored, Rows, Doings
<1>1. ASSUME NEW c \in Cards, NEW k \in Columns, NEW p \in Pages \union {Nobody}, CreateCard(r, c, k, p)
      PROVE  Types'
  <2> DEFINE new == [Absent EXCEPT !.there = TRUE, !.at = k]
             state == [pc |-> "tell", kind |-> "created", id |-> c, copy |-> new, by |-> p]
  <2>1. new \in Row
    BY <1>0 DEF Row
  <2>2. Write(r, c, new) /\ Goto(r, state) /\ UNCHANGED <<row, page, queue, late, saved, reach, today>> /\ ops' = ops + 1
    BY <1>1 DEF CreateCard, Begin
  <2> HIDE DEF new
  <2>3. state \in Doings
    BY <2>1 DEF Doings, Kinds
  <2>4. Asked'
    BY <2>2, <2>3, Goes DEF Kinds
  <2>5. Stored'
    BY <1>0, <2>1, <2>2, Writes DEF Stored
  <2> QED BY <2>2, <2>4, <2>5 DEF Seen, Sent, Kept
<1>2. ASSUME NEW c \in Cards, NEW k \in Columns, NEW p \in Pages \union {Nobody}, MoveCard(r, c, k, p)
      PROVE  Types'
  <2> DEFINE new == [row[c] EXCEPT !.at = k]
             state == [pc |-> "move", kind |-> "moved", id |-> c, copy |-> new, by |-> p]
  <2>1. new \in Row
    BY <1>0 DEF Row
  <2>2. Write(r, c, new) /\ Goto(r, state) /\ UNCHANGED <<row, page, queue, late, saved, reach, today>> /\ ops' = ops + 1
    BY <1>2 DEF MoveCard, Begin
  <2> HIDE DEF new
  <2>3. state \in Doings
    BY <2>1 DEF Doings, Kinds
  <2>4. Asked'
    BY <2>2, <2>3, Goes DEF Kinds
  <2>5. Stored'
    BY <1>0, <2>1, <2>2, Writes DEF Stored
  <2> QED BY <2>2, <2>4, <2>5 DEF Seen, Sent, Kept
<1>3. ASSUME NEW c \in Cards, NEW data \in Contents, EditCard(r, c, data)
      PROVE  Types'
  <2> DEFINE new == [row[c] EXCEPT !.data = data]
             state == [pc |-> "edit", kind |-> "updated", id |-> c, copy |-> new, by |-> Nobody]
  <2>1. new \in Row
    BY <1>0 DEF Row
  <2>2. Goto(r, state) /\ UNCHANGED <<row, lock, written, page, queue, late, saved, reach, today>> /\ ops' = ops + 1
    BY <1>3 DEF EditCard, Begin
  <2> HIDE DEF new
  <2>3. state \in Doings
    BY <2>1 DEF Doings, Kinds
  <2>4. Asked'
    BY <2>2, <2>3, Goes DEF Kinds
  <2> QED BY <1>0, <2>2, <2>4 DEF Stored, Seen, Sent, Kept
<1>4. ASSUME NEW c \in Cards, AddComment(r, c)
      PROVE  Types'
  <2> DEFINE new == [row[c] EXCEPT !.notes = @ \union {ops + 1}]
             state == [pc |-> "tell", kind |-> "comment", id |-> c, copy |-> new, by |-> Nobody]
  <2>1. new \in Row
    BY <1>0 DEF Row
  <2>2. Write(r, c, new) /\ Goto(r, state) /\ UNCHANGED <<row, page, queue, late, saved, reach, today>> /\ ops' = ops + 1
    BY <1>4 DEF AddComment, Begin
  <2> HIDE DEF new
  <2>3. state \in Doings
    BY <2>1 DEF Doings, Kinds
  <2>4. Asked'
    BY <2>2, <2>3, Goes DEF Kinds
  <2>5. Stored'
    BY <1>0, <2>1, <2>2, Writes DEF Stored
  <2> QED BY <2>2, <2>4, <2>5 DEF Seen, Sent, Kept
<1>5. ASSUME NEW at \in {"tell", "flow"}, Goto(r, [req[r] EXCEPT !.pc = at]), req[r].pc # "idle"
      PROVE  Asked'
  <2> DEFINE state == [req[r] EXCEPT !.pc = at]
  <2>1. state \in Doings /\ state.id \in Cards /\ state.kind \in Kinds
    BY <1>0, <1>5 DEF Doings
  <2> QED BY <1>5, <2>1, Goes
<1>6. CASE MoveOnly(r)
  <2>1. Asked'
    BY <1>5, <1>6 DEF MoveOnly
  <2> QED BY <1>6, <2>1 DEF MoveOnly, Stored, Seen, Sent, Kept
<1>7. CASE MoveStarts(r)
  <2>1. Asked'
    BY <1>5, <1>7 DEF MoveStarts
  <2>2. Seen'
    BY <1>7, Tears DEF MoveStarts
  <2> QED BY <1>0, <1>7, <2>1, <2>2 DEF MoveStarts, Unlock, Stored, Sent, Kept
<1>8. CASE FlowEnds(r)
  <2>1. Asked'
    BY <1>5, <1>8 DEF FlowEnds
  <2> QED BY <1>0, <1>8, <2>1 DEF FlowEnds, Stored, Seen, Sent, Kept
<1>9. CASE WriteEdit(r)
  <2> DEFINE c == req[r].id
             new == [Sees(r)[c] EXCEPT !.data = req[r].copy.data]
             state == [req[r] EXCEPT !.pc = "tell", !.copy = new]
  <2>1. Write(r, c, new) /\ Goto(r, state) /\ UNCHANGED <<row, page, queue, late, saved, reach, today, ops>>
        /\ req[r].pc = "edit"
    BY <1>9 DEF WriteEdit
  <2>2. c \in Cards /\ Sees(r)[c] \in Row
    BY <1>0, <2>1 DEF Sees
  <2>3. new \in Row
    BY <1>0, <2>2 DEF Row
  <2> HIDE DEF new
  <2>4. state \in Doings /\ state.id \in Cards /\ state.kind \in Kinds
    BY <1>0, <2>1, <2>3 DEF Doings
  <2>5. Asked'
    BY <2>1, <2>4, Goes
  <2>6. Stored'
    BY <1>0, <2>1, <2>2, <2>3, Writes DEF Stored
  <2> QED BY <2>1, <2>5, <2>6 DEF Seen, Sent, Kept
<1>10. CASE EditNothing(r)
  <2> DEFINE c == req[r].id
             state == [req[r] EXCEPT !.pc = "tell", !.copy = row[c]]
  <2>1. Goto(r, state) /\ req[r].pc = "edit"
    BY <1>10 DEF EditNothing
  <2>2. c \in Cards
    BY <1>0, <2>1
  <2>3. state \in Doings /\ state.id \in Cards /\ state.kind \in Kinds
    BY <1>0, <2>1, <2>2 DEF Doings
  <2>4. Asked'
    BY <2>1, <2>3, Goes
  <2> QED BY <1>10, <2>4 DEF EditNothing, Stored, Seen, Sent, Kept
<1>11. CASE Tell(r)
  <2> DEFINE c == req[r].id
             delta == [kind |-> req[r].kind, card |-> Fragment(c, req[r].copy)]
  <2>1. c \in Cards /\ req[r].kind \in Kinds /\ req[r].pc = "tell"
    BY <1>0, <1>11 DEF Tell
  <2>2. delta \in Delta
    BY <1>0, <2>1, FragmentIs DEF Delta, Kinds
  <2>3. Board(Sees(r)) \in Boards
    BY <1>0, BoardIs DEF Sees
  <2>4. \A p \in Pages :
          [page[p] EXCEPT
             !.whole = @ /\ page[p].on,
             !.resp = IF p = req[r].by /\ page[p].pc = "shown" THEN {Board(Sees(r))} ELSE @,
             !.over = IF p = req[r].by THEN {} ELSE @] \in Sheets
    <3>1. ASSUME NEW s \in Sheets, NEW w \in BOOLEAN, NEW b \in SUBSET Boards, NEW o \in SUBSET Cards
          PROVE  [s EXCEPT !.whole = w, !.resp = b, !.over = o] \in Sheets
      BY DEF Sheets
    <3>2. ASSUME NEW s \in Sheets
          PROVE  s.whole \in BOOLEAN /\ s.on \in BOOLEAN /\ s.resp \subseteq Boards /\ s.over \subseteq Cards
      BY DEF Sheets
    <3> QED BY <2>3, <3>1, <3>2 DEF Seen
  <2>5. Seen'
    BY <1>11, <2>4 DEF Seen, Tell
  <2>6. queue' = [p \in Pages |-> IF page[p].on THEN Append(queue[p], delta) ELSE queue[p]]
        /\ (UNCHANGED late \/ Late({c}))
    BY <1>11 DEF Tell
  <2> HIDE DEF delta
  <2>7. Sent'
    BY <2>1, <2>2, <2>6 DEF Sent, Late
  <2> DEFINE state == [req[r] EXCEPT !.pc = "told"]
  <2>8. state \in Doings /\ state.id \in Cards /\ state.kind \in Kinds
    BY <1>0, <2>1 DEF Doings
  <2>9. Asked'
    BY <1>11, <2>8, Goes DEF Tell
  <2> QED BY <1>11, <2>5, <2>7, <2>9 DEF Tell, Stored, Kept
<1>12. CASE Commit(r)
  <2>1. Goto(r, Idle) /\ Idle \in Doings /\ Idle.pc = "idle"
    BY <1>0, <1>12 DEF Commit, Idle, Doings
  <2>2. Asked'
    BY <2>1, Goes
  <2>3. Seen'
    BY <1>12, Tears DEF Commit
  <2> QED BY <1>0, <1>12, <2>2, <2>3 DEF Commit, Unlock, Stored, Sent, Kept
<1>13. CASE Rollback(r)
  <2>1. Goto(r, Idle) /\ Idle \in Doings /\ Idle.pc = "idle"
    BY <1>0, <1>13 DEF Rollback, Idle, Doings
  <2>2. Asked'
    BY <2>1, Goes
  <2>3. Sent'
    BY <1>0, <1>13 DEF Rollback, Late, Sent
  <2> QED BY <1>0, <1>13, <2>2, <2>3 DEF Rollback, Seen, Stored, Kept
<1> QED BY <1>1, <1>2, <1>3, <1>4, <1>6, <1>7, <1>8, <1>9, <1>10, <1>11, <1>12, <1>13 DEF RequestStep

LEMMA AppliedIs ==
  ASSUME NEW S \in SUBSET Shape, NEW d \in Delta
  PROVE  Applied(S, d) \in SUBSET Shape
<1>1. Took(S, d, d.card.id) = Applied(S, d)
  BY DEF Took
<1> QED BY <1>1, TookIs

LEMMA LoadIs ==
  ASSUME Seen, NEW p \in Pages, NEW set, Shown(set) \in Settings, Load(p, set)
  PROVE  Seen'
<1> DEFINE sheet == [Closed EXCEPT !.pc = "fetch", !.left = Columns, !.set = Shown(set),
                       !.whole = \A r \in Requests : req[r].pc # "told"]
<1>1. sheet \in Sheets
  BY DEF Sheets, Closed
<1>2. page' = [page EXCEPT ![p] = sheet]
  BY DEF Load
<1> QED BY <1>1, <1>2, Turns

LEMMA PageKeepsTypes ==
  ASSUME Types, NEW p \in Pages, PageStep(p)
  PROVE  Types'
<1> USE DEF Types
<1>0. /\ page[p] \in Sheets /\ page[p].shows \in SUBSET Shape /\ page[p].got \in SUBSET Shape
      /\ page[p].left \in SUBSET Columns /\ page[p].resp \in SUBSET Boards
      /\ page[p].over \in SUBSET Cards /\ page[p].set \in Settings
      /\ queue[p] \in Seq(Delta) /\ late[p] \in SUBSET Cards
      /\ Board(row) \in SUBSET Shape /\ ops \in Nat
  BY BoardIs DEF Seen, Sheets, Sent, Stored
<1>1. ASSUME NEW raw \in Raw, OpenPage(p, raw)
      PROVE  Types'
  <2>1. Load(p, raw) /\ ops' = ops + 1 /\ queue' = [queue EXCEPT ![p] = <<>>]
        /\ UNCHANGED <<row, lock, written, req, late, saved, reach, today>>
    BY <1>1 DEF OpenPage, Begin
  <2>2. Seen'
    BY <2>1, ShownIs, LoadIs
  <2> QED BY <1>0, <2>1, <2>2 DEF Stored, Asked, Sent, Kept
<1>2. ASSUME NEW v \in saved, OpenView(p, v)
      PROVE  Types'
  <2>1. Load(p, Params(v.view)) /\ ops' = ops + 1 /\ queue' = [queue EXCEPT ![p] = <<>>]
        /\ UNCHANGED <<row, lock, written, req, late, saved, reach, today>>
    BY <1>2 DEF OpenView, Begin
  <2>2. PICK set \in Settings : v = [view |-> Saved(set), from |-> set]
    BY DEF Kept
  <2>3. Shown(Params(v.view)) \in Settings
    BY <2>2, SavedOpens
  <2>4. Seen'
    BY <2>1, <2>3, LoadIs
  <2> QED BY <1>0, <2>1, <2>4 DEF Stored, Asked, Sent, Kept
<1>3. ASSUME NEW k \in Columns, ReadColumn(p, k)
      PROVE  Types'
  <2> DEFINE sheet == [page[p] EXCEPT !.left = @ \ {k}, !.got = @ \union {card \in Board(row) : card.at = k}]
  <2>1. sheet \in Sheets
    BY <1>0 DEF Sheets
  <2>2. page' = [page EXCEPT ![p] = sheet]
    BY <1>0, <1>3 DEF ReadColumn, Seen, Sheets
  <2>3. Seen'
    BY <2>1, <2>2, Turns
  <2> QED BY <1>3, <2>3 DEF ReadColumn, Stored, Asked, Sent, Kept
<1>4. CASE Render(p)
  <2> DEFINE sheet == [page[p] EXCEPT !.pc = "shown", !.shows = page[p].got]
  <2>1. sheet \in Sheets
    BY <1>0 DEF Sheets
  <2>2. page' = [page EXCEPT ![p] = sheet]
    BY <1>0, <1>4 DEF Render, Seen, Sheets
  <2>3. Seen'
    BY <2>1, <2>2, Turns
  <2> QED BY <1>4, <2>3 DEF Render, Stored, Asked, Sent, Kept
<1>5. CASE Join(p)
  <2> DEFINE sheet == [page[p] EXCEPT !.on = TRUE]
  <2>1. sheet \in Sheets
    BY <1>0 DEF Sheets
  <2>2. page' = [page EXCEPT ![p] = sheet]
    BY <1>0, <1>5 DEF Join, Seen, Sheets
  <2>3. Seen'
    BY <2>1, <2>2, Turns
  <2> QED BY <1>5, <2>3 DEF Join, Stored, Asked, Sent, Kept
<1>6. CASE Cut(p)
  <2> DEFINE sheet == [page[p] EXCEPT !.on = FALSE, !.whole = FALSE]
  <2>1. sheet \in Sheets
    BY <1>0 DEF Sheets
  <2>2. page' = [page EXCEPT ![p] = sheet]
    BY <1>0, <1>6 DEF Cut, Seen, Sheets
  <2>3. Seen'
    BY <2>1, <2>2, Turns
  <2>4. Sent'
    BY <1>6 DEF Cut, Sent
  <2> QED BY <1>0, <1>6, <2>3, <2>4 DEF Cut, Begin, Stored, Asked, Kept
<1>7. CASE Deliver(p)
  <2> DEFINE delta == Head(queue[p])
             known == \A board \in page[p].resp : delta.card \in board
             sheet == [page[p] EXCEPT !.shows = Applied(@, delta),
                                      !.over = IF known THEN @ ELSE @ \union {delta.card.id}]
  <2>1. delta \in Delta /\ Tail(queue[p]) \in Seq(Delta)
    BY <1>0, <1>7, HeadTailProperties DEF Deliver
  <2>2. delta.card.id \in Cards /\ Applied(page[p].shows, delta) \in SUBSET Shape
    BY <1>0, <2>1, AppliedIs DEF Delta, Shape
  <2>3. page' = [page EXCEPT ![p] = sheet]
    BY <1>0, <1>7 DEF Deliver, Seen, Sheets
  <2>4. queue' = [queue EXCEPT ![p] = Tail(@)]
        /\ UNCHANGED <<row, lock, written, req, late, saved, reach, today, ops>>
    BY <1>7 DEF Deliver
  <2> HIDE DEF delta, known
  <2>5. sheet \in Sheets
    BY <1>0, <2>2 DEF Sheets
  <2>6. Seen'
    BY <2>3, <2>5, Turns
  <2>7. Sent'
    BY <2>1, <2>4 DEF Sent
  <2> QED BY <2>4, <2>6, <2>7 DEF Stored, Asked, Kept
<1>8. CASE Swap(p)
  <2>1. PICK board \in page[p].resp :
          /\ page' = [page EXCEPT ![p].shows = board, ![p].resp = {}, ![p].over = {}]
          /\ late' = [late EXCEPT ![p] = @ \union page[p].over]
          /\ UNCHANGED <<row, lock, written, req, queue, saved, reach, today, ops>>
    BY <1>8 DEF Swap
  <2> DEFINE sheet == [page[p] EXCEPT !.shows = board, !.resp = {}, !.over = {}]
  <2>2. board \in SUBSET Shape
    BY <1>0, BoardIs DEF Boards
  <2>3. sheet \in Sheets
    BY <1>0, <2>2 DEF Sheets
  <2>4. page' = [page EXCEPT ![p] = sheet]
    BY <1>0, <2>1 DEF Seen, Sheets
  <2>5. Seen'
    BY <2>3, <2>4, Turns
  <2>6. Sent'
    BY <1>0, <2>1 DEF Sent
  <2> QED BY <2>1, <2>5, <2>6 DEF Stored, Asked, Kept
<1>9. CASE SaveView(p)
  BY <1>0, <1>9 DEF SaveView, Begin, Stored, Asked, Seen, Sent, Kept
<1> QED BY <1>1, <1>2, <1>3, <1>4, <1>5, <1>6, <1>7, <1>8, <1>9 DEF PageStep

LEMMA TypesGoOn ==
  ASSUME Types, [Next]_vars
  PROVE  Types'
<1>1. ASSUME NEW r \in Requests, RequestStep(r) PROVE Types'
  BY <1>1, RequestKeepsTypes
<1>2. ASSUME NEW p \in Pages, PageStep(p) PROVE Types'
  BY <1>2, PageKeepsTypes
<1>3. ASSUME NEW v \in saved, DeleteView(v) PROVE Types'
  BY <1>3 DEF DeleteView, Begin, Types, Stored, Asked, Seen, Sent, Kept
<1>4. CASE ReachChanges
  BY <1>4 DEF ReachChanges, Begin, Types, Stored, Asked, Seen, Sent, Kept
<1>5. CASE NextDay
  BY <1>5 DEF NextDay, Types, Stored, Asked, Seen, Sent, Kept
<1>6. CASE UNCHANGED vars
  BY <1>6 DEF vars, Types, Stored, Asked, Seen, Sent, Kept
<1> QED BY <1>1, <1>2, <1>3, <1>4, <1>5, <1>6 DEF Next

\* The variables hold what they should.
THEOREM TypesStay == Spec => []Types
<1>1. Types /\ [Next]_vars => Types'
  BY TypesGoOn
<1> QED BY <1>1, TypesAtFirst, PTL DEF Spec

-----------------------------------------------------------------------------

\* The cards are finitely many, and their dates texts.
LEMMA PlannedIs ==
  ASSUME Types
  PROVE  IsFiniteSet(Planned) /\ \A card \in Planned : card.due \in Texts
<1> DEFINE plan(card) == [id |-> card.id, at |-> card.at, who |-> card.data.who, priority |-> card.data.priority,
                          labels |-> card.data.labels, due |-> card.data.due]
           D == {d \in Cards : row[d].there}
           h == [d \in D |-> plan(Fragment(d, row[d]))]
<1>1. IsFiniteSet(D)
  BY CardAssumption, FS_Subset
<1>2. Planned = {plan(Fragment(d, row[d])) : d \in D}
  BY DEF Planned, Board
<1>3. \A d \in D : plan(Fragment(d, row[d])).due \in Texts
  <2> TAKE d \in D
  <2>1. row[d].data \in Contents
    BY DEF Types, Stored, Rows, Row
  <2>2. plan(Fragment(d, row[d])).due = row[d].data.due
    BY DEF Fragment
  <2> QED BY <2>1, <2>2, CardAssumption DEF Texts
<1> HIDE DEF plan, D
<1>4. h \in Surjection(D, Planned)
  BY <1>2 DEF Surjection
<1> QED BY <1>1, <1>2, <1>3, <1>4, FS_Surjection

\* Whatever the cards, the columns, the members and the day, the planning views of
\* a board agree under every filter, and a saved view opens as the page it was
\* saved from (board_views.py, board_page, save_board_view, open_saved_board_view).
THEOREM ViewsOfTheBoardAgree == Spec => []PlanningAgrees
<1>1. ASSUME Types PROVE PlanningAgrees
  <2>1. ASSUME NEW raw \in Raw PROVE Agree(Planned, raw.filter, today)
    <3>1. DOMAIN raw.filter = FilterFields
      BY RawAssumption DEF FilterFields
    <3>2. today \in Nat
      BY <1>1 DEF Types, Stored
    <3> QED BY <1>1, <3>1, <3>2, PlannedIs, ViewsAgree
  <2>2. ASSUME NEW v \in saved PROVE Shown(Params(v.view)) = v.from
    <3>1. PICK set \in Settings : v = [view |-> Saved(set), from |-> set]
      BY <1>1 DEF Types, Kept
    <3> QED BY <3>1, SavedOpens
  <2> QED BY <2>1, <2>2 DEF PlanningAgrees
<1>2. Types => PlanningAgrees
  BY <1>1
<1> QED BY <1>2, TypesStay, PTL

-----------------------------------------------------------------------------

\* PART IV.  What the changes on their way make of a card.

LEMMA NatLeast ==
  ASSUME NEW T \in SUBSET Nat, T # {}
  PROVE  \E m \in T : \A k \in T : m <= k
<1>1. PICK m \in T : \A k \in T : ~(<<k, m>> \in OpToRel(<, Nat))
  BY NatLessThanWellFounded, WFMin
<1>2. \A k \in T : ~(k < m)
  BY <1>1 DEF OpToRel
<1> QED BY <1>2

LEMMA LeadsNowhere ==
  ASSUME NEW S \in SUBSET Shape, NEW c
  PROVE  Leads(S, <<>>, c, Of(S, c))
<1> DEFINE f == [i \in 0..0 |-> Of(S, c)]
<1>1. f \in [0..Len(<<>>) -> SUBSET Shape]
  BY DEF Of
<1>2. Walk(f, S, <<>>, c)
  BY <1>1 DEF Walk
<1> QED BY <1>1, <1>2 DEF Leads

\* One more change on its way.
LEMMA LeadsOn ==
  ASSUME NEW S, NEW q \in Seq(Delta), NEW c, NEW X, Leads(S, q, c, X), NEW d \in Delta,
         d.card.id = c /\ d.kind # "created" => X # {}
  PROVE  Leads(S, Append(q, d), c, Took(X, d, c))
<1>1. PICK f \in [0..Len(q) -> SUBSET Shape] : Walk(f, S, q, c) /\ f[Len(q)] = X
  BY DEF Leads
<1> DEFINE n == Len(q)
           Y == Took(X, d, c)
           g == [i \in 0..n + 1 |-> IF i = n + 1 THEN Y ELSE f[i]]
           s == Append(q, d)
<1>2. n \in Nat /\ Len(s) = n + 1 /\ (\A i \in 1..n : s[i] = q[i]) /\ s[n + 1] = d
  BY AppendProperties
<1>3. X \in SUBSET Shape
  BY <1>1
<1>4. Y \in SUBSET Shape
  BY <1>3, TookIs
<1> HIDE DEF Y
<1>5. g \in [0..n + 1 -> SUBSET Shape]
  BY <1>1, <1>4
<1>6. g[n + 1] = Y /\ \A i \in 0..n : g[i] = f[i]
  BY <1>2
<1> HIDE DEF g, s, n
<1>7. g[0] = Of(S, c)
  BY <1>1, <1>2, <1>6 DEF Walk, n
<1>8. ASSUME NEW i \in 1..n + 1
      PROVE  /\ g[i] = Took(g[i - 1], s[i], c)
             /\ s[i].card.id = c /\ s[i].kind # "created" => g[i - 1] # {}
  <2>1. CASE i \in 1..n
    <3>1. g[i] = f[i] /\ g[i - 1] = f[i - 1] /\ s[i] = q[i]
      BY <1>2, <1>6, <2>1
    <3> QED BY <1>1, <2>1, <3>1 DEF Walk, n
  <2>2. CASE i = n + 1
    <3>1. g[i] = Y /\ g[i - 1] = X /\ s[i] = d
      BY <1>1, <1>2, <1>6, <2>2 DEF n
    <3> QED BY <3>1 DEF Y
  <2> QED BY <1>2, <2>1, <2>2
<1>9. Walk(g, S, s, c)
  BY <1>2, <1>5, <1>7, <1>8 DEF Walk
<1> QED BY <1>2, <1>5, <1>6, <1>9 DEF Leads, Y, s

\* The first of them comes in, at a set that is afterwards what it would be.
LEMMA LeadsPast ==
  ASSUME NEW S, NEW q \in Seq(Delta), q # <<>>, NEW c, NEW X, Leads(S, q, c, X),
         NEW T, Of(T, c) = Took(Of(S, c), Head(q), c)
  PROVE  Leads(T, Tail(q), c, X)
<1>1. PICK f \in [0..Len(q) -> SUBSET Shape] : Walk(f, S, q, c) /\ f[Len(q)] = X
  BY DEF Leads
<1> DEFINE n == Len(q)
           s == Tail(q)
           g == [i \in 0..n - 1 |-> f[i + 1]]
<1>2. n \in Nat /\ n > 0 /\ Len(s) = n - 1 /\ \A i \in 1..n - 1 : s[i] = q[i + 1]
  BY HeadTailProperties, EmptySeq
<1>3. Head(q) = q[1]
  OBVIOUS
<1>4. g \in [0..n - 1 -> SUBSET Shape] /\ \A i \in 0..n - 1 : g[i] = f[i + 1]
  BY <1>1, <1>2
<1> HIDE DEF g, s, n
<1>5. f[1] = Took(f[0], q[1], c) /\ f[0] = Of(S, c)
  BY <1>1, <1>2 DEF Walk, n
<1>6. g[0] = Of(T, c)
  BY <1>2, <1>3, <1>4, <1>5
<1>7. ASSUME NEW i \in 1..n - 1
      PROVE  /\ g[i] = Took(g[i - 1], s[i], c)
             /\ s[i].card.id = c /\ s[i].kind # "created" => g[i - 1] # {}
  <2>1. g[i] = f[i + 1] /\ g[i - 1] = f[i] /\ s[i] = q[i + 1] /\ i + 1 \in 1..n /\ (i + 1) - 1 = i
    BY <1>2, <1>4
  <2>2. /\ f[i + 1] = Took(f[(i + 1) - 1], q[i + 1], c)
        /\ q[i + 1].card.id = c /\ q[i + 1].kind # "created" => f[(i + 1) - 1] # {}
    BY <1>1, <2>1 DEF Walk, n
  <2> QED BY <2>1, <2>2
<1>8. Walk(g, T, s, c)
  BY <1>2, <1>4, <1>6, <1>7 DEF Walk
<1>9. g[n - 1] = X
  BY <1>1, <1>2, <1>4 DEF n
<1> QED BY <1>2, <1>4, <1>8, <1>9 DEF Leads, s

\* A card that is there comes to be something, whatever is on its way.
LEMMA LeadsSomewhere ==
  ASSUME NEW S, NEW q \in Seq(Delta), NEW c, Of(S, c) # {}, AtMostOne(Of(S, c), c)
  PROVE  \E X : Leads(S, q, c, X) /\ X # {} /\ AtMostOne(X, c)
<1> DEFINE n == Len(q)
           W(f, m) == /\ f \in [0..m -> SUBSET Shape]
                      /\ f[0] = Of(S, c)
                      /\ \A i \in 1..m : f[i] = Took(f[i - 1], q[i], c)
                      /\ \A i \in 0..m : f[i] # {} /\ AtMostOne(f[i], c)
           Some(m) == \E f \in [0..m -> SUBSET Shape] : W(f, m)
           Bad == {m \in 0..n : ~Some(m)}
<1>1. n \in Nat /\ \A i \in 1..n : q[i] \in Delta
  OBVIOUS
<1>2. Some(n)
  <2> HIDE DEF Some
  <2> SUFFICES ASSUME Bad # {} PROVE FALSE
    BY <1>1
  <2>1. PICK m \in Bad : \A k \in Bad : m <= k
    <3>1. Bad \in SUBSET Nat
      BY <1>1
    <3> HIDE DEF Bad
    <3> QED BY <3>1, NatLeast
  <2>2. m \in 0..n /\ ~Some(m)
    BY <2>1
  <2>3. m # 0
    <3> DEFINE f == [i \in 0..0 |-> Of(S, c)]
    <3>1. Of(S, c) \in SUBSET Shape
      BY DEF AtMostOne
    <3>2. W(f, 0) /\ f \in [0..0 -> SUBSET Shape]
      BY <3>1
    <3> QED BY <2>2, <3>2 DEF Some
  <2>4. m \in Nat /\ m - 1 \in 0..n /\ Some(m - 1) /\ m \in 1..n
    BY <1>1, <2>1, <2>2, <2>3
  <2>5. PICK f \in [0..m - 1 -> SUBSET Shape] : W(f, m - 1)
    BY <2>4 DEF Some
  <2> DEFINE Y == Took(f[m - 1], q[m], c)
             g == [i \in 0..m |-> IF i = m THEN Y ELSE f[i]]
  <2>6. f[m - 1] \in SUBSET Shape /\ f[m - 1] # {} /\ AtMostOne(f[m - 1], c)
    BY <2>4, <2>5
  <2>7. Y \in SUBSET Shape /\ Y # {} /\ AtMostOne(Y, c)
    BY <1>1, <2>4, <2>6, TookIs, TookStaysOne
  <2> HIDE DEF Y
  <2>8. g \in [0..m -> SUBSET Shape] /\ g[m] = Y /\ \A i \in 0..m - 1 : g[i] = f[i]
    BY <2>4, <2>7
  <2> HIDE DEF g, Bad
  <2>9. \A i \in 1..m : g[i] = Took(g[i - 1], q[i], c)
    <3> TAKE i \in 1..m
    <3>1. CASE i = m
      BY <2>4, <2>8, <3>1 DEF Y
    <3>2. CASE i # m
      <4>1. i \in 1..m - 1 /\ i - 1 \in 0..m - 1
        BY <2>4, <3>2
      <4> QED BY <2>5, <2>8, <4>1
    <3> QED BY <3>1, <3>2
  <2>10. \A i \in 0..m : g[i] # {} /\ AtMostOne(g[i], c)
    <3> TAKE i \in 0..m
    <3>1. i = m \/ i \in 0..m - 1
      BY <2>4
    <3> QED BY <2>5, <2>7, <2>8, <3>1
  <2>11. g[0] = Of(S, c)
    BY <2>4, <2>5, <2>8
  <2>12. W(g, m)
    BY <2>8, <2>9, <2>10, <2>11
  <2> QED BY <2>2, <2>8, <2>12 DEF Some
<1>3. PICK f \in [0..n -> SUBSET Shape] : W(f, n)
  BY <1>1, <1>2
<1>4. Walk(f, S, q, c)
  <2>1. \A i \in 1..n : i - 1 \in 0..n
    BY <1>1
  <2> QED BY <1>3, <2>1 DEF Walk
<1>5. f[n] # {} /\ AtMostOne(f[n], c)
  BY <1>1, <1>3
<1> QED BY <1>3, <1>4, <1>5 DEF Leads

\* Z is one card, and differs from Y only where it is x.
Near(Y, Z, x) ==
  \E z \in Shape :
    /\ Z = {z} /\ z.id = x.id
    /\ Y = {} => z = x
    /\ \A y : Y = {y} =>
         /\ z.at \in {y.at, x.at} /\ z.data \in {y.data, x.data}
         /\ z.notes \subseteq y.notes \union x.notes
         /\ y.notes \subseteq z.notes \/ x.notes \subseteq z.notes

LEMMA StaysNear ==
  ASSUME NEW x \in Shape, NEW Y, AtMostOne(Y, x.id), NEW Z, Near(Y, Z, x), NEW d \in Delta,
         d.card.id = x.id /\ d.kind # "created" => Y # {}
  PROVE  Near(Took(Y, d, x.id), Took(Z, d, x.id), x)
<1>1. PICK z \in Shape :
        /\ Z = {z} /\ z.id = x.id
        /\ Y = {} => z = x
        /\ \A y : Y = {y} =>
             /\ z.at \in {y.at, x.at} /\ z.data \in {y.data, x.data}
             /\ z.notes \subseteq y.notes \union x.notes
             /\ y.notes \subseteq z.notes \/ x.notes \subseteq z.notes
  BY DEF Near
<1>2. CASE d.card.id # x.id
  BY <1>2 DEF Took
<1>3. CASE d.card.id = x.id
  <2> DEFINE A == Took(Y, d, x.id)
             B == Took(Z, d, x.id)
  <2>0. d.card \in Shape /\ d.kind \in {"created", "moved", "updated", "comment"}
    BY DEF Delta
  <2>1. AtMostOne(Z, x.id)
    BY <1>1 DEF AtMostOne
  <2>2. Made(A, Y, d) /\ Made(B, Z, d)
    BY <1>3, <2>1, TookOne
  <2> HIDE DEF A, B
  <2>3. CASE Y = {}
    <3>1. d.kind = "created" /\ A = {d.card} /\ B = {z}
      BY <1>1, <1>3, <2>2, <2>3 DEF Made
    <3>2. z = x
      BY <1>1, <2>3
    <3>3. \A y : A = {y} => y = d.card
      BY <3>1
    <3>4. Near(A, B, x)
      BY <3>1, <3>2, <3>3 DEF Near
    <3> QED BY <3>4 DEF A, B
  <2>4. CASE Y # {}
    <3>1. PICK y \in Shape : y.id = x.id /\ Y = {y}
      BY <2>4 DEF AtMostOne
    <3>2. /\ z.at \in {y.at, x.at} /\ z.data \in {y.data, x.data}
          /\ z.notes \subseteq y.notes \union x.notes
          /\ y.notes \subseteq z.notes \/ x.notes \subseteq z.notes
      BY <1>1, <3>1
    <3>3. CASE d.kind = "created"
      <4>1. A = Y /\ B = Z
        BY <1>1, <2>2, <2>4, <3>3 DEF Made
      <4> QED BY <4>1 DEF A, B
    <3>4. CASE d.kind = "moved"
      <4>1. A = {d.card} /\ B = {d.card}
        BY <1>1, <2>2, <3>1, <3>4 DEF Made
      <4>2. Near(A, B, x)
        BY <1>3, <2>0, <4>1 DEF Near
      <4> QED BY <4>2 DEF A, B
    <3>5. CASE d.kind = "updated"
      <4> DEFINE a == [d.card EXCEPT !.at = y.at]
                 b == [d.card EXCEPT !.at = z.at]
      <4>1. A = {a} /\ B = {b}
        BY <1>1, <2>2, <3>1, <3>5 DEF Made
      <4>2. /\ b \in Shape /\ b.id = d.card.id /\ b.at = z.at /\ b.data = d.card.data /\ b.notes = d.card.notes
            /\ a.at = y.at /\ a.data = d.card.data /\ a.notes = d.card.notes
        BY <2>0 DEF Shape
      <4> HIDE DEF a, b
      <4>3. \A u : A = {u} => u = a
        BY <4>1
      <4>4. Near(A, B, x)
        BY <1>3, <3>2, <4>1, <4>2, <4>3 DEF Near
      <4> QED BY <4>4 DEF A, B
    <3>6. CASE d.kind = "comment"
      <4> DEFINE a == [y EXCEPT !.notes = @ \union d.card.notes]
                 b == [z EXCEPT !.notes = @ \union d.card.notes]
      <4>1. A = {a} /\ B = {b}
        BY <1>1, <2>2, <3>1, <3>6 DEF Made
      <4>2. /\ b \in Shape /\ b.id = z.id /\ b.at = z.at /\ b.data = z.data
            /\ b.notes = z.notes \union d.card.notes
            /\ a.at = y.at /\ a.data = y.data /\ a.notes = y.notes \union d.card.notes
        BY <2>0 DEF Shape
      <4> HIDE DEF a, b
      <4>3. \A u : A = {u} => u = a
        BY <4>1
      <4>4. Near(A, B, x)
        BY <1>1, <3>2, <4>1, <4>2, <4>3 DEF Near
      <4> QED BY <4>4 DEF A, B
    <3> QED BY <2>0, <3>3, <3>4, <3>5, <3>6
  <2> QED BY <2>3, <2>4
<1> QED BY <1>2, <1>3

\* Where the changes lead to what is there already, they lead there from it, too.
LEMMA LeadsLikewise ==
  ASSUME NEW S \in SUBSET Shape, NEW B \in SUBSET Shape, NEW q \in Seq(Delta), NEW x \in Shape,
         AtMostOne(Of(S, x.id), x.id), Leads(S, q, x.id, {x}), Of(B, x.id) = {x}
  PROVE  Leads(B, q, x.id, {x})
<1> DEFINE c == x.id
           n == Len(q)
<1>1. PICK f \in [0..n -> SUBSET Shape] : Walk(f, S, q, c) /\ f[n] = {x}
  BY DEF Leads
<1>2. PICK X : Leads(B, q, c, X)
  <2>1. AtMostOne(Of(B, c), c)
    BY DEF AtMostOne
  <2> QED BY <2>1, LeadsSomewhere
<1>3. PICK g \in [0..n -> SUBSET Shape] : Walk(g, B, q, c) /\ g[n] = X
  BY <1>2 DEF Leads
<1>4. n \in Nat /\ \A i \in 1..n : q[i] \in Delta
  OBVIOUS
<1> DEFINE Fits(i) == AtMostOne(f[i], c) /\ Near(f[i], g[i], x)
           Bad == {i \in 0..n : ~Fits(i)}
<1>5. Fits(0)
  <2>1. f[0] = Of(S, c) /\ g[0] = {x}
    BY <1>1, <1>3 DEF Walk
  <2>2. \A y \in f[0] : y \in Shape /\ y.id = c
    BY <2>1 DEF Of
  <2>3. Near(f[0], {x}, x)
    <3>1. AtMostOne(f[0], c)
      BY <2>1
    <3>2. CASE f[0] = {}
      BY <3>2 DEF Near
    <3>3. CASE f[0] # {}
      BY <3>3 DEF Near
    <3> QED BY <3>2, <3>3
  <2> QED BY <2>1, <2>3
<1>6. ASSUME NEW i \in 1..n, Fits(i - 1) PROVE Fits(i)
  <2>1. /\ f[i] = Took(f[i - 1], q[i], c) /\ g[i] = Took(g[i - 1], q[i], c)
        /\ q[i].card.id = c /\ q[i].kind # "created" => f[i - 1] # {}
    BY <1>1, <1>3 DEF Walk
  <2>2. q[i] \in Delta
    BY <1>4
  <2> QED BY <1>6, <2>1, <2>2, StaysNear, TookStaysOne
<1> HIDE DEF Fits
<1>7. Fits(n)
  <2> SUFFICES ASSUME Bad # {} PROVE FALSE
    BY <1>4
  <2>1. PICK m \in Bad : \A k \in Bad : m <= k
    <3>1. Bad \in SUBSET Nat
      BY <1>4
    <3> HIDE DEF Bad
    <3> QED BY <3>1, NatLeast
  <2>2. m \in 0..n /\ ~Fits(m) /\ m # 0
    BY <1>5, <2>1
  <2>3. m \in 1..n /\ Fits(m - 1)
    BY <1>4, <2>1, <2>2
  <2> QED BY <1>6, <2>2, <2>3
<1>8. Near({x}, X, x)
  BY <1>1, <1>3, <1>7 DEF Fits
<1>9. X = {x}
  <2>1. PICK z \in Shape :
          /\ X = {z} /\ z.id = x.id
          /\ z.at \in {x.at} /\ z.data \in {x.data}
          /\ z.notes \subseteq x.notes \union x.notes
          /\ x.notes \subseteq z.notes
    BY <1>8 DEF Near
  <2>2. z = x
    <3>1. z.notes = x.notes
      BY <2>1
    <3>2. z = [id |-> z.id, at |-> z.at, data |-> z.data, notes |-> z.notes]
      BY DEF Shape
    <3>3. x = [id |-> x.id, at |-> x.at, data |-> x.data, notes |-> x.notes]
      BY DEF Shape
    <3> QED BY <2>1, <3>1, <3>2, <3>3
  <2> QED BY <2>1, <2>2
<1> QED BY <1>2, <1>9

\* ... and where they lead to no card, there was none.
LEMMA LeadsToNothing ==
  ASSUME NEW S, NEW B \in SUBSET Shape, NEW q \in Seq(Delta), NEW c,
         Leads(S, q, c, {}), Of(B, c) = {}
  PROVE  Leads(B, q, c, {})
<1> DEFINE n == Len(q)
<1>1. PICK f \in [0..n -> SUBSET Shape] : Walk(f, S, q, c) /\ f[n] = {}
  BY DEF Leads
<1>2. n \in Nat /\ \A i \in 1..n : q[i] \in Delta
  OBVIOUS
<1> DEFINE Bad == {k \in 0..n : f[n - k] # {}}
<1>3. ASSUME NEW i \in 1..n, f[i] = {} PROVE f[i - 1] = {}
  <2>1. f[i] = Took(f[i - 1], q[i], c) /\ f[i - 1] \in SUBSET Shape /\ q[i] \in Delta
    BY <1>1, <1>2 DEF Walk
  <2> QED BY <1>3, <2>1, TookIs
<1>4. f[0] = {}
  <2> SUFFICES ASSUME Bad # {} PROVE FALSE
    <3>1. n \in 0..n /\ n - n = 0
      BY <1>2
    <3> QED BY <3>1
  <2>1. PICK m \in Bad : \A k \in Bad : m <= k
    <3>1. Bad \in SUBSET Nat
      BY <1>2
    <3> HIDE DEF Bad
    <3> QED BY <3>1, NatLeast
  <2>2. m \in 0..n /\ f[n - m] # {}
    BY <2>1
  <2>3. m # 0
    BY <1>1, <1>2, <2>2
  <2>4. m - 1 \in 0..n /\ m - 1 \notin Bad
    <3> HIDE DEF Bad
    <3> QED BY <1>2, <2>1, <2>2, <2>3
  <2>5. f[n - (m - 1)] = {} /\ n - (m - 1) \in 1..n /\ (n - (m - 1)) - 1 = n - m
    BY <1>2, <2>2, <2>3, <2>4
  <2>6. f[n - m] = {}
    BY <1>3, <2>5
  <2> QED BY <2>2, <2>6
<1>5. Walk(f, B, q, c)
  BY <1>1, <1>4 DEF Walk
<1> QED BY <1>1, <1>5 DEF Leads

-----------------------------------------------------------------------------

\* PART V.  What a page shows follows what the board holds.

\* What the pages were told last, and the cards they are yet to be told of.
Known == IF lock # Nobody /\ req[lock].pc = "told" THEN written ELSE row
Behind(c) == \E r \in Requests : req[r].id = c /\ req[r].kind = "moved" /\ req[r].pc \in {"flow", "tell"}

Right(c, X) ==
  /\ AtMostOne(X, c)
  /\ Known[c].there <=> X # {}
  /\ X = Of(Board(Known), c) \/ Behind(c)

\* A card of what a page shows is what it should be when what is on its way is in.
Comes(S, q, c) ==
  /\ AtMostOne(Of(S, c), c)
  /\ \E X \in SUBSET Shape : Leads(S, q, c, X) /\ Right(c, X)

\* The request that has the lock has changed its card as it says.
Holder(r) ==
  LET id == req[r].id
      copy == req[r].copy
  IN  /\ req[r].pc \in {"move", "tell", "told"}
      /\ \A c \in Cards \ {id} : written[c] = row[c]
      /\ written[id].there
      /\ req[r].pc = "tell" =>
           /\ req[r].kind = "created" => ~row[id].there
           /\ req[r].kind # "moved" => written[id] = copy
           /\ req[r].kind = "updated" => copy.at = row[id].at /\ copy.notes = row[id].notes
           /\ req[r].kind = "comment" =>
                copy.at = row[id].at /\ copy.data = row[id].data /\ row[id].notes \subseteq copy.notes

Doing(r) ==
  /\ lock = r => Holder(r)
  /\ req[r].pc = "move" => lock = r /\ req[r].kind = "moved"
  /\ req[r].pc = "flow" => req[r].kind = "moved"
  /\ req[r].pc = "edit" => req[r].kind = "updated"
  /\ req[r].pc = "tell" /\ req[r].kind # "updated" => lock = r
  /\ req[r].pc \in {"move", "flow", "edit", "tell"} /\ req[r].kind # "created" => row[req[r].id].there
  /\ req[r].kind \in {"updated", "comment"} => req[r].by = Nobody

Follows(p) ==
  page[p].pc = "shown" /\ page[p].whole =>
    \A c \in Cards \ late[p] :
      /\ Comes(page[p].shows, queue[p], c)
      /\ c \notin page[p].over => \A board \in page[p].resp : Comes(board, queue[p], c)

Quiet(p) ==
  /\ page[p].on => page[p].pc = "shown"
  /\ ~page[p].on => queue[p] = <<>>
  /\ page[p].pc # "shown" => page[p].resp = {}
  /\ page[p].pc = "fetch" /\ page[p].whole =>
       /\ page[p].got = {card \in Board(row) : card.at \notin page[p].left}
       /\ \A r \in Requests : req[r].pc # "told"

Work == (lock = Nobody => written = row) /\ \A r \in Requests : Doing(r)
Follow == Types /\ Work /\ \A p \in Pages : Follows(p) /\ Quiet(p)

\* A request that does nothing is undisturbed by one that does.
LEMMA OthersDo ==
  ASSUME Work, NEW r \in Requests, NEW state, req' = [req EXCEPT ![r] = state], req \in [Requests -> Doings],
         \/ UNCHANGED <<lock, row, written>>
         \/ lock \in {Nobody, r} /\ lock' \in {Nobody, r} /\ \A c \in Cards : row[c].there => row'[c].there,
         NEW s \in Requests, s # r,
         req[s].pc # "idle" => req[s].id \in Cards
  PROVE  Doing(s)'
<1>1. req'[s] = req[s] /\ Doing(s)
  BY DEF Work
<1>2. s # Nobody
  BY RequestAssumption
<1>3. CASE UNCHANGED <<lock, row, written>>
  BY <1>1, <1>3 DEF Doing, Holder
<1>4. CASE lock \in {Nobody, r} /\ lock' \in {Nobody, r} /\ \A c \in Cards : row[c].there => row'[c].there
  BY <1>1, <1>2, <1>4 DEF Doing
<1> QED BY <1>3, <1>4

LEMMA RequestKeepsWork ==
  ASSUME Types, Work, NEW r \in Requests, RequestStep(r)
  PROVE  Work'
<1>0. /\ req[r] \in Doings /\ req[r].copy \in Row /\ req[r].id \in Cards \union {Nobody}
      /\ req \in [Requests -> Doings]
      /\ \A s \in Requests : req[s].pc # "idle" => req[s].id \in Cards /\ req[s].kind \in Kinds
      /\ \A c \in Cards : row[c] \in Row /\ written[c] \in Row
      /\ Absent \in Row
      /\ row \in Rows /\ written \in Rows /\ ops \in Nat
      /\ r # Nobody
      /\ Doing(r) /\ (lock = Nobody => written = row)
  BY RequestAssumption DEF Types, Asked, Stored, Rows, Doings, Work
<1>1. ASSUME NEW state, req' = [req EXCEPT ![r] = state],
             \/ UNCHANGED <<lock, row, written>>
             \/ lock \in {Nobody, r} /\ lock' \in {Nobody, r} /\ \A c \in Cards : row[c].there => row'[c].there,
             Doing(r)', (lock = Nobody => written = row)'
      PROVE  Work'
  <2>1. ASSUME NEW s \in Requests PROVE Doing(s)'
    <3>1. CASE s = r
      BY <1>1, <3>1
    <3>2. CASE s # r
      BY <1>0, <1>1, <3>2, OthersDo
    <3> QED BY <3>1, <3>2
  <2> QED BY <1>1, <2>1 DEF Work
<1>2. ASSUME NEW c \in Cards, NEW k \in Columns, NEW p \in Pages \union {Nobody}, CreateCard(r, c, k, p)
      PROVE  Work'
  <2> DEFINE new == [Absent EXCEPT !.there = TRUE, !.at = k]
             state == [pc |-> "tell", kind |-> "created", id |-> c, copy |-> new, by |-> p]
  <2>1. /\ req[r].pc = "idle" /\ ~row[c].there /\ Write(r, c, new)
        /\ req' = [req EXCEPT ![r] = state] /\ row' = row
    BY <1>2 DEF CreateCard, Goto
  <2>2. lock = Nobody /\ lock' = r /\ written' = [row EXCEPT ![c] = new]
    BY <1>0, <2>1 DEF Write, Sees, Doing, Holder
  <2>3. new \in Row /\ new.there
    BY <1>0 DEF Row
  <2>4. req'[r] = state
    BY <1>0, <2>1
  <2> HIDE DEF new
  <2>5. Doing(r)'
    BY <1>0, <2>1, <2>2, <2>3, <2>4 DEF Doing, Holder, Rows
  <2> QED BY <1>0, <1>1, <2>1, <2>2, <2>5
<1>3. ASSUME NEW c \in Cards, NEW k \in Columns, NEW p \in Pages \union {Nobody}, MoveCard(r, c, k, p)
      PROVE  Work'
  <2> DEFINE new == [row[c] EXCEPT !.at = k]
             state == [pc |-> "move", kind |-> "moved", id |-> c, copy |-> new, by |-> p]
  <2>1. /\ req[r].pc = "idle" /\ row[c].there /\ Write(r, c, new)
        /\ req' = [req EXCEPT ![r] = state] /\ row' = row
    BY <1>3 DEF MoveCard, Goto
  <2>2. lock = Nobody /\ lock' = r /\ written' = [row EXCEPT ![c] = new]
    BY <1>0, <2>1 DEF Write, Sees, Doing, Holder
  <2>3. new \in Row /\ new.there
    BY <1>0, <2>1 DEF Row
  <2>4. req'[r] = state
    BY <1>0, <2>1
  <2> HIDE DEF new
  <2>5. Doing(r)'
    BY <1>0, <2>1, <2>2, <2>3, <2>4 DEF Doing, Holder, Rows
  <2> QED BY <1>0, <1>1, <2>1, <2>2, <2>5
<1>4. ASSUME NEW c \in Cards, NEW data \in Contents, EditCard(r, c, data)
      PROVE  Work'
  <2> DEFINE new == [row[c] EXCEPT !.data = data]
             state == [pc |-> "edit", kind |-> "updated", id |-> c, copy |-> new, by |-> Nobody]
  <2>1. /\ req[r].pc = "idle" /\ row[c].there
        /\ req' = [req EXCEPT ![r] = state] /\ UNCHANGED <<row, lock, written>>
    BY <1>4 DEF EditCard, Goto
  <2>2. req'[r] = state
    BY <1>0, <2>1
  <2>3. lock # r
    BY <1>0, <2>1 DEF Doing, Holder
  <2>4. Doing(r)'
    BY <2>1, <2>2, <2>3 DEF Doing
  <2> QED BY <1>0, <1>1, <2>1, <2>4
<1>5. ASSUME NEW c \in Cards, AddComment(r, c)
      PROVE  Work'
  <2> DEFINE new == [row[c] EXCEPT !.notes = @ \union {ops + 1}]
             state == [pc |-> "tell", kind |-> "comment", id |-> c, copy |-> new, by |-> Nobody]
  <2>1. /\ req[r].pc = "idle" /\ row[c].there /\ Write(r, c, new)
        /\ req' = [req EXCEPT ![r] = state] /\ row' = row
    BY <1>5 DEF AddComment, Begin, Goto
  <2>2. lock = Nobody /\ lock' = r /\ written' = [row EXCEPT ![c] = new]
    BY <1>0, <2>1 DEF Write, Sees, Doing, Holder
  <2>3. /\ new \in Row /\ new.there
        /\ new.at = row[c].at /\ new.data = row[c].data /\ row[c].notes \subseteq new.notes
    BY <1>0, <2>1 DEF Row
  <2>4. req'[r] = state
    BY <1>0, <2>1
  <2> HIDE DEF new
  <2>5. Doing(r)'
    BY <1>0, <2>1, <2>2, <2>3, <2>4 DEF Doing, Holder, Rows
  <2> QED BY <1>0, <1>1, <2>1, <2>2, <2>5
<1>6. CASE MoveOnly(r)
  <2>1. /\ req[r].pc = "move" /\ req' = [req EXCEPT ![r] = [req[r] EXCEPT !.pc = "tell"]]
        /\ UNCHANGED <<row, lock, written>>
    BY <1>6 DEF MoveOnly, Goto
  <2>2. /\ req'[r].pc = "tell" /\ req'[r].kind = req[r].kind /\ req'[r].id = req[r].id
        /\ req'[r].by = req[r].by
    BY <1>0, <2>1 DEF Doings
  <2>3. Doing(r)'
    BY <1>0, <2>1, <2>2 DEF Doing, Holder
  <2> QED BY <1>0, <1>1, <2>1, <2>3
<1>7. CASE MoveStarts(r)
  <2>1. /\ req[r].pc = "move" /\ req' = [req EXCEPT ![r] = [req[r] EXCEPT !.pc = "flow"]]
        /\ row' = written /\ lock' = Nobody /\ written' = row'
    BY <1>7 DEF MoveStarts, Unlock, Goto
  <2>2. /\ req'[r].pc = "flow" /\ req'[r].kind = req[r].kind /\ req'[r].id = req[r].id
        /\ req'[r].by = req[r].by
    BY <1>0, <2>1 DEF Doings
  <2>3. lock = r /\ Holder(r)
    BY <1>0, <2>1 DEF Doing
  <2>4. \A c \in Cards : row[c].there => row'[c].there
    BY <2>1, <2>3 DEF Holder
  <2>5. Doing(r)'
    BY <1>0, <2>1, <2>2, <2>3 DEF Doing, Holder
  <2> QED BY <1>0, <1>1, <2>1, <2>3, <2>4, <2>5
<1>8. CASE FlowEnds(r)
  <2>1. /\ req[r].pc = "flow" /\ req' = [req EXCEPT ![r] = [req[r] EXCEPT !.pc = "tell"]]
        /\ row' = row /\ lock = Nobody /\ lock' = r /\ written' = row
    BY <1>8 DEF FlowEnds, Goto
  <2>2. /\ req'[r].pc = "tell" /\ req'[r].kind = req[r].kind /\ req'[r].id = req[r].id
        /\ req'[r].by = req[r].by
    BY <1>0, <2>1 DEF Doings
  <2>3. Doing(r)'
    BY <1>0, <2>1, <2>2 DEF Doing, Holder
  <2> QED BY <1>0, <1>1, <2>1, <2>3
<1>9. CASE WriteEdit(r)
  <2> DEFINE c == req[r].id
             new == [Sees(r)[c] EXCEPT !.data = req[r].copy.data]
             state == [req[r] EXCEPT !.pc = "tell", !.copy = new]
  <2>1. /\ Write(r, c, new) /\ req' = [req EXCEPT ![r] = state] /\ row' = row
        /\ req[r].pc = "edit"
    BY <1>9 DEF WriteEdit, Goto
  <2>2. c \in Cards /\ lock = Nobody /\ lock' = r /\ Sees(r) = row
    BY <1>0, <2>1 DEF Sees, Write, Doing, Holder
  <2>3. row[c].there /\ req[r].kind = "updated"
    BY <1>0, <2>1 DEF Doing
  <2>4. new \in Row /\ new.there /\ new.at = row[c].at /\ new.notes = row[c].notes
    BY <1>0, <2>2, <2>3 DEF Row
  <2>5. written' = [row EXCEPT ![c] = new]
    BY <2>1, <2>2 DEF Write
  <2> HIDE DEF new
  <2>6. /\ req'[r].pc = "tell" /\ req'[r].kind = "updated" /\ req'[r].id = c
        /\ req'[r].by = req[r].by /\ req'[r].copy = new
    BY <1>0, <2>1, <2>3 DEF Doings
  <2>7. Doing(r)'
    BY <1>0, <2>1, <2>2, <2>3, <2>4, <2>5, <2>6 DEF Doing, Holder, Rows
  <2> QED BY <1>0, <1>1, <2>1, <2>2, <2>7
<1>10. CASE EditNothing(r)
  <2> DEFINE c == req[r].id
             state == [req[r] EXCEPT !.pc = "tell", !.copy = row[c]]
  <2>1. /\ req' = [req EXCEPT ![r] = state] /\ UNCHANGED <<row, lock, written>>
        /\ req[r].pc = "edit"
    BY <1>10 DEF EditNothing, Goto
  <2>2. lock # r /\ row[c].there /\ req[r].kind = "updated"
    BY <1>0, <2>1 DEF Doing, Holder
  <2>3. /\ req'[r].pc = "tell" /\ req'[r].kind = "updated" /\ req'[r].id = c
        /\ req'[r].by = req[r].by
    BY <1>0, <2>1, <2>2 DEF Doings
  <2>4. Doing(r)'
    BY <1>0, <2>1, <2>2, <2>3 DEF Doing
  <2> QED BY <1>0, <1>1, <2>1, <2>4
<1>11. CASE Tell(r)
  <2>1. /\ req' = [req EXCEPT ![r] = [req[r] EXCEPT !.pc = "told"]] /\ UNCHANGED <<row, lock, written>>
        /\ req[r].pc = "tell"
    BY <1>11 DEF Tell, Goto
  <2>2. /\ req'[r].pc = "told" /\ req'[r].kind = req[r].kind /\ req'[r].id = req[r].id
        /\ req'[r].by = req[r].by
    BY <1>0, <2>1 DEF Doings
  <2>3. Doing(r)'
    BY <1>0, <2>1, <2>2 DEF Doing, Holder
  <2> QED BY <1>0, <1>1, <2>1, <2>3
<1>12. ASSUME Goto(r, Idle), lock' # r PROVE Doing(r)'
  BY <1>0, <1>12 DEF Goto, Idle, Doing
<1>13. CASE Commit(r)
  <2>1. Goto(r, Idle) /\ req' = [req EXCEPT ![r] = Idle] /\ req[r].pc = "told"
    BY <1>13 DEF Commit, Goto
  <2>2. CASE lock = r
    <3>1. row' = written /\ lock' = Nobody /\ written' = row'
      BY <1>13, <2>2 DEF Commit, Unlock
    <3>2. Holder(r)
      BY <1>0, <2>2 DEF Doing
    <3>3. \A c \in Cards : row[c].there => row'[c].there
      BY <3>1, <3>2 DEF Holder
    <3> QED BY <1>0, <1>1, <1>12, <2>1, <2>2, <3>1, <3>3
  <2>3. CASE lock # r
    <3>1. UNCHANGED <<row, lock, written>>
      BY <1>13, <2>3 DEF Commit
    <3> QED BY <1>0, <1>1, <1>12, <2>1, <2>3, <3>1
  <2> QED BY <2>2, <2>3
<1>14. CASE Rollback(r)
  <2>1. Goto(r, Idle) /\ req' = [req EXCEPT ![r] = Idle] /\ row' = row
    BY <1>14 DEF Rollback, Goto
  <2>2. CASE lock = r
    <3>1. lock' = Nobody /\ written' = row
      BY <1>14, <2>2 DEF Rollback
    <3> QED BY <1>0, <1>1, <1>12, <2>1, <2>2, <3>1
  <2>3. CASE lock # r
    <3>1. UNCHANGED <<lock, written>>
      BY <1>14, <2>3 DEF Rollback
    <3> QED BY <1>0, <1>1, <1>12, <2>1, <2>3, <3>1
  <2> QED BY <2>2, <2>3
<1> QED BY <1>2, <1>3, <1>4, <1>5, <1>6, <1>7, <1>8, <1>9, <1>10, <1>11, <1>13, <1>14 DEF RequestStep

\* A step after which what a page should show of a card is the same, or is settled
\* by a change that is yet to be told.
Undisturbed(c) ==
  /\ Known[c].there <=> Known'[c].there
  /\ Behind(c)' \/ (~Behind(c) /\ Known'[c] = Known[c])

LEMMA KnownIs ==
  ASSUME Types
  PROVE  Known \in Rows
BY DEF Types, Stored, Known

LEMMA RightStays ==
  ASSUME Types, Types', NEW c \in Cards, Undisturbed(c), NEW X, Right(c, X)
  PROVE  Right(c, X)'
<1>1. Known \in Rows /\ Known' \in Rows
  <2>1. Known \in Rows /\ (Known \in Rows)'
    BY KnownIs, PTL
  <2>2. Rows' = Rows
    BY DEF Rows, Row
  <2> QED BY <2>1, <2>2
<1>2. /\ Of(Board(Known), c) = IF Known[c].there THEN {Fragment(c, Known[c])} ELSE {}
      /\ Of(Board(Known'), c) = IF Known'[c].there THEN {Fragment(c, Known'[c])} ELSE {}
  BY <1>1, BoardIs
<1>3. Of(Board(Known), c)' = Of(Board(Known'), c)
  BY DEF Of, Board, Fragment
<1>4. AtMostOne(X, c)'
  BY DEF Right, AtMostOne, Shape
<1>5. CASE Behind(c)'
  BY <1>4, <1>5 DEF Right, Undisturbed
<1>6. CASE ~Behind(c)' /\ ~Behind(c) /\ Known'[c] = Known[c]
  BY <1>2, <1>3, <1>4, <1>6 DEF Right
<1> QED BY <1>5, <1>6 DEF Undisturbed

LEMMA ComesStill ==
  ASSUME Types, Types', NEW c \in Cards, Undisturbed(c), NEW S, NEW q, Comes(S, q, c)
  PROVE  AtMostOne(Of(S, c), c) /\ \E X \in SUBSET Shape : Leads(S, q, c, X) /\ Right(c, X)'
BY RightStays DEF Comes

\* A page that nothing came to follows the board after such a step.
LEMMA FollowsStill ==
  ASSUME Types, Types', NEW p \in Pages, Follows(p),
         (page[p].pc = "shown" /\ page[p].whole)' =>
           /\ page[p].pc = "shown" /\ page[p].whole
           /\ page'[p].shows = page[p].shows /\ page'[p].resp = page[p].resp
           /\ page'[p].over = page[p].over /\ queue'[p] = queue[p]
           /\ late[p] \subseteq late'[p]
           /\ \A c \in Cards \ late'[p] : Undisturbed(c)
  PROVE  Follows(p)'
<1> SUFFICES ASSUME (page[p].pc = "shown" /\ page[p].whole)', NEW c \in Cards \ late'[p]
             PROVE  /\ Comes(page[p].shows, queue[p], c)'
                    /\ (c \notin page[p].over)' => \A board \in page'[p].resp : Comes(board, queue[p], c)'
  BY DEF Follows
<1>1. /\ page[p].pc = "shown" /\ page[p].whole /\ c \notin late[p] /\ Undisturbed(c)
      /\ page'[p].shows = page[p].shows /\ page'[p].resp = page[p].resp
      /\ page'[p].over = page[p].over /\ queue'[p] = queue[p]
  OBVIOUS
<1>2. ASSUME NEW S, Comes(S, queue[p], c)
      PROVE  AtMostOne(Of(S, c), c) /\ \E X \in SUBSET Shape : Leads(S, queue'[p], c, X) /\ Right(c, X)'
  BY <1>1, <1>2, ComesStill
<1>3. Comes(page[p].shows, queue[p], c)'
  <2>1. Comes(page[p].shows, queue[p], c)
    BY <1>1 DEF Follows
  <2>2. AtMostOne(Of(page'[p].shows, c), c)
        /\ \E X \in SUBSET Shape : Leads(page'[p].shows, queue'[p], c, X) /\ Right(c, X)'
    BY <1>1, <1>2, <2>1
  <2> QED BY <2>2 DEF Comes, AtMostOne, Of, Shape
<1>4. ASSUME c \notin page'[p].over, NEW board \in page'[p].resp PROVE Comes(board, queue[p], c)'
  <2>1. Comes(board, queue[p], c)
    BY <1>1, <1>4 DEF Follows
  <2>2. AtMostOne(Of(board, c), c)
        /\ \E X \in SUBSET Shape : Leads(board, queue'[p], c, X) /\ Right(c, X)'
    BY <1>2, <2>1
  <2> QED BY <2>2 DEF Comes
<1> QED BY <1>3, <1>4

\* What a request is at before it tells the pages, and after, settles nothing but
\* its own card.
LEMMA BehindIs ==
  ASSUME NEW r \in Requests, NEW state, req \in [Requests -> Doings], Goto(r, state), NEW c,
         req[r].id = c /\ req[r].kind = "moved" /\ req[r].pc \in {"flow", "tell"} =>
           state.id = c /\ state.kind = "moved" /\ state.pc \in {"flow", "tell"}
  PROVE  /\ Behind(c) => Behind(c)'
         /\ state.id = c /\ state.kind = "moved" /\ state.pc \in {"flow", "tell"} => Behind(c)'
         /\ ~(state.id = c /\ state.kind = "moved" /\ state.pc \in {"flow", "tell"}) /\ Behind(c)' => Behind(c)
<1>1. req'[r] = state /\ \A s \in Requests \ {r} : req'[s] = req[s]
  BY DEF Goto
<1> QED BY <1>1 DEF Behind

LEMMA RequestDisturbsNothing ==
  ASSUME Types, Types', Work, NEW r \in Requests, RequestStep(r), ~Tell(r), NEW c \in Cards
  PROVE  Undisturbed(c) \/ \A p \in Pages : c \in late'[p]
<1>0. /\ req[r] \in Doings /\ req \in [Requests -> Doings]
      /\ \A s \in Requests : req[s].pc # "idle" => req[s].id \in Cards /\ req[s].kind \in Kinds
      /\ row \in Rows /\ written \in Rows
      /\ lock \in Requests \union {Nobody}
      /\ r # Nobody
      /\ Doing(r) /\ (lock = Nobody => written = row)
  BY RequestAssumption DEF Types, Asked, Stored, Work
<1>1. ASSUME NEW state, Goto(r, state), Known'[c] = Known[c],
             req[r].id = c /\ req[r].kind = "moved" /\ req[r].pc \in {"flow", "tell"} =>
               state.id = c /\ state.kind = "moved" /\ state.pc \in {"flow", "tell"}
      PROVE  Undisturbed(c)
  <2>1. Behind(c) => Behind(c)'
    BY <1>0, <1>1, BehindIs
  <2> QED BY <1>1, <2>1 DEF Undisturbed
<1>2. ASSUME NEW state, Goto(r, state), state.pc # "told", lock = Nobody, lock' \in {r, Nobody}, row' = row
      PROVE  Known'[c] = Known[c]
  BY <1>0, <1>2 DEF Known, Goto
<1>3. ASSUME NEW state, Goto(r, state), lock # r, UNCHANGED <<lock, row, written>>
      PROVE  Known'[c] = Known[c]
  BY <1>0, <1>3 DEF Known, Goto
<1>4. ASSUME NEW d \in Cards, NEW k \in Columns, NEW p \in Pages \union {Nobody}, CreateCard(r, d, k, p)
      PROVE  Undisturbed(c)
  <2>1. /\ req[r].pc = "idle" /\ lock \in {Nobody, r} /\ lock' = r /\ row' = row
        /\ Goto(r, [pc |-> "tell", kind |-> "created", id |-> d, copy |-> [Absent EXCEPT !.there = TRUE, !.at = k], by |-> p])
    BY <1>4 DEF CreateCard, Write
  <2>2. lock = Nobody
    BY <1>0, <2>1 DEF Doing, Holder
  <2> QED BY <1>1, <1>2, <2>1, <2>2
<1>5. ASSUME NEW d \in Cards, NEW k \in Columns, NEW p \in Pages \union {Nobody}, MoveCard(r, d, k, p)
      PROVE  Undisturbed(c)
  <2>1. /\ req[r].pc = "idle" /\ lock \in {Nobody, r} /\ lock' = r /\ row' = row
        /\ Goto(r, [pc |-> "move", kind |-> "moved", id |-> d, copy |-> [row[d] EXCEPT !.at = k], by |-> p])
    BY <1>5 DEF MoveCard, Write
  <2>2. lock = Nobody
    BY <1>0, <2>1 DEF Doing, Holder
  <2> QED BY <1>1, <1>2, <2>1, <2>2
<1>6. ASSUME NEW d \in Cards, NEW data \in Contents, EditCard(r, d, data)
      PROVE  Undisturbed(c)
  <2>1. /\ req[r].pc = "idle" /\ UNCHANGED <<lock, row, written>>
        /\ Goto(r, [pc |-> "edit", kind |-> "updated", id |-> d, copy |-> [row[d] EXCEPT !.data = data], by |-> Nobody])
    BY <1>6 DEF EditCard
  <2>2. lock # r
    BY <1>0, <2>1 DEF Doing, Holder
  <2> QED BY <1>1, <1>3, <2>1, <2>2
<1>7. ASSUME NEW d \in Cards, AddComment(r, d)
      PROVE  Undisturbed(c)
  <2>1. /\ req[r].pc = "idle" /\ lock \in {Nobody, r} /\ lock' = r /\ row' = row
        /\ Goto(r, [pc |-> "tell", kind |-> "comment", id |-> d,
                    copy |-> [row[d] EXCEPT !.notes = @ \union {ops'}], by |-> Nobody])
    BY <1>7 DEF AddComment, Write
  <2>2. lock = Nobody
    BY <1>0, <2>1 DEF Doing, Holder
  <2> QED BY <1>1, <1>2, <2>1, <2>2
<1>8. CASE MoveOnly(r)
  <2> DEFINE state == [req[r] EXCEPT !.pc = "tell"]
  <2>1. req[r].pc = "move" /\ Goto(r, state) /\ UNCHANGED <<lock, row, written>>
    BY <1>8 DEF MoveOnly
  <2>2. lock = r
    BY <1>0, <2>1 DEF Doing
  <2>3. state.pc = "tell"
    BY <1>0 DEF Doings
  <2>4. Known'[c] = Known[c]
    BY <1>0, <2>1, <2>2, <2>3 DEF Known, Goto
  <2> QED BY <1>1, <2>1, <2>4
<1>9. CASE MoveStarts(r)
  <2> DEFINE state == [req[r] EXCEPT !.pc = "flow"]
  <2>1. /\ req[r].pc = "move" /\ Goto(r, state) /\ row' = written /\ lock' = Nobody /\ written' = row'
    BY <1>9 DEF MoveStarts, Unlock
  <2>2. lock = r /\ Holder(r) /\ req[r].kind = "moved" /\ row[req[r].id].there /\ req[r].id \in Cards
    BY <1>0, <2>1 DEF Doing
  <2>3. state.pc = "flow" /\ state.kind = "moved" /\ state.id = req[r].id
    BY <1>0, <2>2 DEF Doings
  <2>4. Known = row /\ Known' = written
    BY <2>1, <2>2 DEF Known
  <2>5. CASE c = req[r].id
    <3>1. Behind(c)'
      BY <1>0, <2>1, <2>3, <2>5, BehindIs
    <3>2. Known[c].there /\ Known'[c].there
      BY <2>2, <2>4, <2>5 DEF Holder
    <3> QED BY <3>1, <3>2 DEF Undisturbed
  <2>6. CASE c # req[r].id
    <3>1. Known'[c] = Known[c]
      BY <2>2, <2>4, <2>6 DEF Holder
    <3> QED BY <1>1, <2>1, <2>6, <3>1
  <2> QED BY <2>5, <2>6
<1>10. CASE FlowEnds(r)
  <2> DEFINE state == [req[r] EXCEPT !.pc = "tell"]
  <2>1. /\ req[r].pc = "flow" /\ Goto(r, state) /\ lock = Nobody /\ lock' = r /\ row' = row
    BY <1>10 DEF FlowEnds
  <2>2. state.pc = "tell" /\ state.kind = req[r].kind /\ state.id = req[r].id
    BY <1>0 DEF Doings
  <2> QED BY <1>1, <1>2, <2>1, <2>2
<1>11. CASE WriteEdit(r)
  <2> DEFINE state == [req[r] EXCEPT !.pc = "tell", !.copy = [Sees(r)[req[r].id] EXCEPT !.data = req[r].copy.data]]
  <2>1. /\ req[r].pc = "edit" /\ Goto(r, state) /\ lock \in {Nobody, r} /\ lock' = r /\ row' = row
    BY <1>11 DEF WriteEdit, Write
  <2>2. lock = Nobody
    BY <1>0, <2>1 DEF Doing, Holder
  <2>3. state.pc = "tell"
    BY <1>0 DEF Doings
  <2> QED BY <1>1, <1>2, <2>1, <2>2, <2>3
<1>12. CASE EditNothing(r)
  <2> DEFINE state == [req[r] EXCEPT !.pc = "tell", !.copy = row[req[r].id]]
  <2>1. /\ req[r].pc = "edit" /\ Goto(r, state) /\ UNCHANGED <<lock, row, written>>
    BY <1>12 DEF EditNothing
  <2>2. lock # r
    BY <1>0, <2>1 DEF Doing, Holder
  <2> QED BY <1>1, <1>3, <2>1, <2>2
<1>13. CASE Commit(r)
  <2>1. req[r].pc = "told" /\ Goto(r, Idle)
    BY <1>13 DEF Commit
  <2>2. CASE lock = r
    <3>1. row' = written /\ lock' = Nobody
      BY <1>13, <2>2 DEF Commit, Unlock
    <3>2. Known'[c] = Known[c]
      BY <1>0, <2>1, <2>2, <3>1 DEF Known
    <3> QED BY <1>1, <2>1, <3>2
  <2>3. CASE lock # r
    <3>1. UNCHANGED <<row, lock, written>>
      BY <1>13, <2>3 DEF Commit
    <3> QED BY <1>1, <1>3, <2>1, <2>3, <3>1
  <2> QED BY <2>2, <2>3
<1>14. CASE Rollback(r)
  <2>1. req[r].pc # "idle" /\ Goto(r, Idle) /\ row' = row /\ Late({req[r].id} \ {Nobody})
        /\ IF lock = r THEN lock' = Nobody /\ written' = row ELSE UNCHANGED <<lock, written>>
    BY <1>14 DEF Rollback
  <2>2. CASE c = req[r].id
    <3>1. c \in {req[r].id} \ {Nobody}
      BY <2>2, RequestAssumption
    <3> QED BY <2>1, <3>1 DEF Late
  <2>3. CASE c # req[r].id /\ lock = r
    <3>1. Holder(r) /\ lock' = Nobody
      BY <1>0, <2>1, <2>3 DEF Doing
    <3>2. Known'[c] = Known[c]
      BY <1>0, <2>1, <2>3, <3>1 DEF Known, Holder
    <3> QED BY <1>1, <2>1, <2>3, <3>2
  <2>4. CASE c # req[r].id /\ lock # r
    <3>1. Known'[c] = Known[c]
      BY <1>3, <2>1, <2>4
    <3> QED BY <1>1, <2>1, <2>4, <3>1
  <2> QED BY <2>2, <2>3, <2>4
<1> QED BY <1>4, <1>5, <1>6, <1>7, <1>8, <1>9, <1>10, <1>11, <1>12, <1>13, <1>14 DEF RequestStep

\* What a request does to the pages before it tells them of its change, and after.
LEMMA RequestSpares ==
  ASSUME Types, NEW r \in Requests, RequestStep(r), ~Tell(r)
  PROVE  /\ queue' = queue
         /\ \A p \in Pages : late[p] \subseteq late'[p]
         /\ (page' = page /\ row' = row) \/ page' = Torn
         /\ \A s \in Requests : req'[s].pc = "told" => req[s].pc = "told"
<1>0. /\ req \in [Requests -> Doings] /\ late \in [Pages -> SUBSET Cards]
  BY DEF Types, Asked, Sent
<1>1. ASSUME NEW state, Goto(r, state), state.pc # "told"
      PROVE  \A s \in Requests : req'[s].pc = "told" => req[s].pc = "told"
  BY <1>0, <1>1 DEF Goto
<1>2. \A S : Late(S) => \A p \in Pages : late[p] \subseteq late'[p]
  BY DEF Late
<1>3. ASSUME NEW c \in Cards, NEW k \in Columns, NEW p \in Pages \union {Nobody},
             CreateCard(r, c, k, p) \/ MoveCard(r, c, k, p)
      PROVE  /\ UNCHANGED <<row, page, queue, late>>
             /\ \A s \in Requests : req'[s].pc = "told" => req[s].pc = "told"
  BY <1>1, <1>3 DEF CreateCard, MoveCard
<1>4. ASSUME NEW c \in Cards, NEW data \in Contents, EditCard(r, c, data)
      PROVE  /\ UNCHANGED <<row, page, queue, late>>
             /\ \A s \in Requests : req'[s].pc = "told" => req[s].pc = "told"
  BY <1>1, <1>4 DEF EditCard
<1>5. ASSUME NEW c \in Cards, AddComment(r, c)
      PROVE  /\ UNCHANGED <<row, page, queue, late>>
             /\ \A s \in Requests : req'[s].pc = "told" => req[s].pc = "told"
  BY <1>1, <1>5 DEF AddComment
<1>6. [req[r] EXCEPT !.pc = "tell"].pc # "told" /\ [req[r] EXCEPT !.pc = "flow"].pc # "told"
  BY <1>0 DEF Doings
<1>7. CASE MoveOnly(r)
  BY <1>1, <1>6, <1>7 DEF MoveOnly
<1>8. CASE MoveStarts(r)
  BY <1>1, <1>6, <1>8 DEF MoveStarts
<1>9. CASE FlowEnds(r)
  BY <1>1, <1>6, <1>9 DEF FlowEnds
<1>10. CASE WriteEdit(r)
  <2> DEFINE state == [req[r] EXCEPT !.pc = "tell", !.copy = [Sees(r)[req[r].id] EXCEPT !.data = req[r].copy.data]]
  <2>1. Goto(r, state) /\ UNCHANGED <<row, page, queue, late>>
    BY <1>10 DEF WriteEdit
  <2>2. state.pc # "told"
    BY <1>0 DEF Doings
  <2> HIDE DEF state
  <2> QED BY <1>1, <2>1, <2>2
<1>11. CASE EditNothing(r)
  <2> DEFINE state == [req[r] EXCEPT !.pc = "tell", !.copy = row[req[r].id]]
  <2>1. Goto(r, state) /\ UNCHANGED <<row, page, queue, late>>
    BY <1>11 DEF EditNothing
  <2>2. state.pc # "told"
    BY <1>0 DEF Doings
  <2> HIDE DEF state
  <2> QED BY <1>1, <2>1, <2>2
<1>12. CASE Commit(r)
  <2>1. Idle.pc # "told"
    BY DEF Idle
  <2> QED BY <1>1, <1>12, <2>1 DEF Commit
<1>13. CASE Rollback(r)
  <2>1. Idle.pc # "told"
    BY DEF Idle
  <2> QED BY <1>1, <1>2, <1>13, <2>1 DEF Rollback
<1> QED BY <1>3, <1>4, <1>5, <1>7, <1>8, <1>9, <1>10, <1>11, <1>12, <1>13 DEF RequestStep

LEMMA RequestKeepsPages ==
  ASSUME Types, Types', Work, NEW r \in Requests, RequestStep(r), ~Tell(r),
         NEW p \in Pages, Follows(p), Quiet(p)
  PROVE  Follows(p)' /\ Quiet(p)'
<1>1. /\ queue' = queue /\ late[p] \subseteq late'[p]
      /\ (page' = page /\ row' = row) \/ page' = Torn
      /\ \A s \in Requests : req'[s].pc = "told" => req[s].pc = "told"
  BY RequestSpares
<1>2. page[p] \in Sheets
  BY DEF Types, Seen
<1>3. \/ page'[p] = page[p] /\ row' = row
      \/ page[p].pc # "fetch" /\ page'[p] = page[p]
      \/ page[p].pc = "fetch" /\ page'[p] = [page[p] EXCEPT !.whole = FALSE]
  BY <1>1 DEF Torn
<1>4. \A c \in Cards \ late'[p] : Undisturbed(c)
  BY RequestDisturbsNothing
<1>5. Follows(p)'
  <2>1. page[p].pc = "fetch" /\ page'[p] = [page[p] EXCEPT !.whole = FALSE] => ~page'[p].whole
    BY <1>2 DEF Sheets
  <2> QED BY <1>1, <1>3, <1>4, <2>1, FollowsStill
<1>6. ASSUME page'[p] = page[p] /\ row' = row PROVE Quiet(p)'
  BY <1>1, <1>6 DEF Quiet, Board, Fragment
<1>7. ASSUME page[p].pc # "fetch" /\ page'[p] = page[p] PROVE Quiet(p)'
  BY <1>1, <1>7 DEF Quiet
<1>8. ASSUME page[p].pc = "fetch" /\ page'[p] = [page[p] EXCEPT !.whole = FALSE] PROVE Quiet(p)'
  <2>1. page'[p].on = page[p].on /\ page'[p].pc = page[p].pc /\ page'[p].resp = page[p].resp /\ ~page'[p].whole
    BY <1>2, <1>8 DEF Sheets
  <2> QED BY <1>1, <2>1 DEF Quiet
<1> QED BY <1>3, <1>5, <1>6, <1>7, <1>8

\* What is told of a card is what the pages know of it from then on, or the card is
\* one they are told something outdated of.
LEMMA TellIs ==
  ASSUME Types, Work, NEW r \in Requests, Tell(r)
  PROVE  LET id == req[r].id IN
         /\ id \in Cards /\ req[r].kind \in Kinds /\ req[r].copy \in Row
         /\ \A c \in Cards : c # id => Known'[c] = Known[c]
         /\ \A c \in Cards : c # id => (Behind(c)' <=> Behind(c))
         /\ req[r].kind # "moved" => \A c \in Cards : Behind(c) => Behind(c)'
         /\ Known'[id].there
         /\ Known[id].there <=> req[r].kind # "created"
         /\ Announced(r, id) = Known'[id]
         /\ req[r].kind = "updated" /\ req[r].copy = Known'[id] => req[r].copy.at = Known[id].at
         /\ req[r].kind = "comment" =>
              /\ req[r].copy.at = Known[id].at /\ req[r].copy.data = Known[id].data
              /\ Known[id].notes \subseteq req[r].copy.notes
         /\ req[r].by # Nobody => lock = r
         /\ lock = r => Known' = written
<1> DEFINE id == req[r].id
           state == [req[r] EXCEPT !.pc = "told"]
<1>1. /\ req[r].pc = "tell" /\ Goto(r, state) /\ UNCHANGED <<row, lock, written>>
  BY DEF Tell
<1>2. /\ req \in [Requests -> Doings] /\ req[r] \in Doings
      /\ id \in Cards /\ req[r].kind \in Kinds /\ req[r].copy \in Row
      /\ lock \in Requests \union {Nobody} /\ r # Nobody /\ Doing(r)
  BY <1>1, RequestAssumption DEF Types, Stored, Asked, Work, Doings
<1>3. state.pc = "told"
  BY <1>2 DEF Doings
<1>4. req'[r] = state /\ \A s \in Requests : s # r => req'[s] = req[s]
  BY <1>1, <1>2 DEF Goto
<1> HIDE DEF state
<1>5. lock = r => Known = row /\ Known' = written
  BY <1>1, <1>2, <1>3, <1>4 DEF Known
<1>6. lock # r => Known' = Known /\ req[r].kind = "updated"
  <2>1. lock # r => Known' = Known
    BY <1>1, <1>2, <1>4 DEF Known
  <2> QED BY <1>1, <1>2, <2>1 DEF Doing
<1>7. lock = r => Holder(r)
  BY <1>2 DEF Doing
<1>8. \A c \in Cards : c # id => Known'[c] = Known[c]
  BY <1>5, <1>6, <1>7 DEF Holder
<1>9. \A c \in Cards : c # id => (Behind(c)' <=> Behind(c))
  <2>1. state.id = id
    BY <1>2 DEF state, Doings
  <2> QED BY <1>4, <2>1 DEF Behind
<1>10. req[r].kind # "moved" => \A c \in Cards : Behind(c) => Behind(c)'
  BY <1>4 DEF Behind
<1>11. req[r].kind # "created" => row[id].there
  BY <1>1, <1>2 DEF Doing
<1>12. lock # r => Known[id].there
  <2>1. CASE lock = Nobody \/ req[lock].pc # "told"
    BY <1>6, <1>11, <2>1 DEF Known
  <2>2. CASE lock # Nobody /\ req[lock].pc = "told" /\ lock # r
    <3>1. Known = written /\ Holder(lock)
      BY <1>2, <2>2 DEF Known, Work, Doing
    <3> QED BY <1>2, <1>6, <1>11, <2>2, <3>1 DEF Holder
  <2> QED BY <2>1, <2>2
<1>13. Known'[id].there
  BY <1>5, <1>6, <1>7, <1>12 DEF Holder
<1>14. Known[id].there <=> req[r].kind # "created"
  BY <1>1, <1>5, <1>6, <1>7, <1>11, <1>12 DEF Holder
<1>15. Announced(r, id) = Known'[id]
  BY <1>1, <1>5, <1>6 DEF Announced, Known
<1>16. req[r].kind = "updated" /\ req[r].copy = Known'[id] => req[r].copy.at = Known[id].at
  BY <1>1, <1>5, <1>6, <1>7 DEF Holder
<1>17. req[r].kind = "comment" =>
         /\ req[r].copy.at = Known[id].at /\ req[r].copy.data = Known[id].data
         /\ Known[id].notes \subseteq req[r].copy.notes
  <2>1. req[r].kind = "comment" => lock = r
    BY <1>6
  <2> QED BY <1>1, <1>5, <1>7, <2>1 DEF Holder
<1>18. req[r].by # Nobody => lock = r
  BY <1>1, <1>2, <1>6 DEF Doing
<1> QED BY <1>2, <1>5, <1>8, <1>9, <1>10, <1>13, <1>14, <1>15, <1>16, <1>17, <1>18

LEMMA NotesAdded ==
  ASSUME NEW y \in Shape, NEW N
  PROVE  [y EXCEPT !.notes = @ \union N] =
           [id |-> y.id, at |-> y.at, data |-> y.data, notes |-> y.notes \union N]
<1>1. y = [id |-> y.id, at |-> y.at, data |-> y.data, notes |-> y.notes]
  BY DEF Shape
<1> QED BY <1>1 DEF Shape

\* The change that is told, when it comes in, makes of a card what it should be.
LEMMA TellSettles ==
  ASSUME Types, Types', Work, NEW r \in Requests, Tell(r), NEW X \in SUBSET Shape, Right(req[r].id, X),
         req[r].copy = Announced(r, req[r].id),
         NEW d \in Delta, d = [kind |-> req[r].kind, card |-> Fragment(req[r].id, req[r].copy)],
         NEW c, c = req[r].id
  PROVE  /\ Right(c, Took(X, d, c))'
         /\ d.kind # "created" => X # {}
<1> DEFINE Y == Took(X, d, c)
           x == d.card
<1>1. /\ c \in Cards /\ req[r].kind \in Kinds /\ req[r].copy \in Row
      /\ req[r].kind # "moved" => (Behind(c) => Behind(c)')
      /\ Known'[c].there
      /\ Known[c].there <=> req[r].kind # "created"
      /\ req[r].copy = Known'[c]
      /\ req[r].kind = "updated" => req[r].copy.at = Known[c].at
      /\ req[r].kind = "comment" =>
           /\ req[r].copy.at = Known[c].at /\ req[r].copy.data = Known[c].data
           /\ Known[c].notes \subseteq req[r].copy.notes
  <2>1. Announced(r, c) = Known'[c] /\ req[r].copy = Known'[c]
    BY TellIs
  <2> QED BY <2>1, TellIs
<1>2. /\ x = Fragment(c, req[r].copy) /\ d.kind = req[r].kind /\ x \in Shape
      /\ x.id = c /\ x.at = req[r].copy.at /\ x.data = req[r].copy.data /\ x.notes = req[r].copy.notes
  BY <1>1, FragmentIs DEF Fragment
<1>3. Known \in Rows /\ Known' \in Rows
  <2>1. Known \in Rows /\ (Known \in Rows)'
    BY KnownIs, PTL
  <2>2. Rows' = Rows
    BY DEF Rows, Row
  <2> QED BY <2>1, <2>2
<1>4. Of(Board(Known'), c) = {x}
  BY <1>1, <1>2, <1>3, BoardIs
<1>5. AtMostOne(X, c) /\ (Known[c].there <=> X # {}) /\ (X = Of(Board(Known), c) \/ Behind(c))
  BY DEF Right
<1>6. d.kind # "created" <=> X # {}
  BY <1>1, <1>2, <1>5
<1>7. AtMostOne(Y, c) /\ Made(Y, X, d)
  BY <1>2, <1>5, TookOne, TookStaysOne
<1> HIDE DEF Y
<1>8. Y # {}
  <2>1. \A y : X = {y} => Y # {}
    BY <1>2, <1>6, <1>7 DEF Made, Delta
  <2> QED BY <1>5, <1>6, <1>7, <2>1 DEF Made, AtMostOne
<1>9. Y = {x} \/ Behind(c)'
  <2>1. CASE d.kind = "created"
    BY <1>6, <1>7, <2>1 DEF Made
  <2>2. CASE d.kind = "moved"
    <3>1. PICK y \in Shape : X = {y}
      BY <1>5, <1>6, <2>2 DEF AtMostOne
    <3> QED BY <1>7, <2>2, <3>1 DEF Made
  <2>3. CASE d.kind \in {"updated", "comment"} /\ Behind(c)
    BY <1>1, <1>2, <2>3
  <2>4. CASE d.kind \in {"updated", "comment"} /\ ~Behind(c)
    <3> DEFINE y == Fragment(c, Known[c])
    <3>1. X = {y}
      BY <1>1, <1>2, <1>3, <1>5, <2>4, BoardIs
    <3>2. Known[c] \in Row
      BY <1>1, <1>3 DEF Rows
    <3>3. /\ y \in Shape /\ y.id = c /\ y.at = Known[c].at /\ y.data = Known[c].data /\ y.notes = Known[c].notes
      BY <1>1, <3>2, FragmentIs DEF Fragment
    <3> HIDE DEF y, x
    <3>4. CASE d.kind = "updated"
      <4>1. Y = {[x EXCEPT !.at = y.at]}
        BY <1>7, <3>1, <3>4 DEF Made, x
      <4>2. x.at = y.at
        BY <1>1, <1>2, <3>3, <3>4
      <4>3. [x EXCEPT !.at = y.at] = x
        BY <1>2, <4>2 DEF Shape
      <4> QED BY <4>1, <4>3
    <3>5. CASE d.kind = "comment"
      <4>1. Y = {[y EXCEPT !.notes = @ \union x.notes]}
        BY <1>7, <3>1, <3>5 DEF Made, x
      <4>2. x.at = y.at /\ x.data = y.data /\ y.notes \union x.notes = x.notes /\ x.id = y.id
        BY <1>1, <1>2, <3>3, <3>5
      <4>3. [y EXCEPT !.notes = @ \union x.notes] = [id |-> x.id, at |-> x.at, data |-> x.data, notes |-> x.notes]
        <5>1. [y EXCEPT !.notes = @ \union x.notes] = [id |-> y.id, at |-> y.at, data |-> y.data, notes |-> y.notes \union x.notes]
          BY <3>3, NotesAdded
        <5> QED BY <4>2, <5>1
      <4>4. x = [id |-> x.id, at |-> x.at, data |-> x.data, notes |-> x.notes]
        BY <1>2 DEF Shape
      <4> QED BY <4>1, <4>3, <4>4
    <3> QED BY <2>4, <3>4, <3>5
  <2> QED BY <1>1, <1>2, <2>1, <2>2, <2>3, <2>4 DEF Kinds
<1>10. Of(Board(Known), c)' = {x}
  BY <1>4 DEF Of, Board, Fragment
<1>11. Right(c, Y)'
  <2>1. AtMostOne(Y, c)'
    BY <1>7 DEF AtMostOne, Shape
  <2>2. (Known[c].there <=> Y # {})'
    BY <1>1, <1>8
  <2>3. (Y = Of(Board(Known), c) \/ Behind(c))'
    BY <1>9, <1>10
  <2> QED BY <2>1, <2>2, <2>3 DEF Right
<1> QED BY <1>6, <1>11 DEF Y

\* The board a request gives back with its change on its way.
LEMMA BoardComes ==
  ASSUME NEW S \in SUBSET Shape, NEW q \in Seq(Delta), NEW c \in Cards, NEW rows \in Rows, NEW X \in SUBSET Shape,
         AtMostOne(Of(S, c), c), Leads(S, q, c, X),
         rows[c].there <=> X # {}
  PROVE  /\ AtMostOne(Of(Board(rows), c), c)
         /\ X = Of(Board(rows), c) => Leads(Board(rows), q, c, X)
         /\ \E Z \in SUBSET Shape : /\ Leads(Board(rows), q, c, Z) /\ AtMostOne(Z, c)
                                    /\ rows[c].there <=> Z # {}
<1> DEFINE B == Board(rows)
           x == Fragment(c, rows[c])
<1>1. B \in SUBSET Shape /\ Of(B, c) = IF rows[c].there THEN {x} ELSE {}
  BY BoardIs
<1>2. x \in Shape /\ x.id = c
  BY FragmentIs DEF Rows
<1> HIDE DEF x, B
<1>3. AtMostOne(Of(B, c), c)
  BY <1>1, <1>2 DEF AtMostOne
<1>4. CASE rows[c].there
  <2>1. Of(B, c) = {x}
    BY <1>1, <1>4
  <2>2. X = Of(B, c) => Leads(B, q, c, X)
    <3> SUFFICES ASSUME X = {x} PROVE Leads(B, q, x.id, {x})
      BY <1>2, <2>1
    <3>1. AtMostOne(Of(S, x.id), x.id) /\ Leads(S, q, x.id, {x}) /\ Of(B, x.id) = {x}
      BY <1>2, <2>1
    <3> QED BY <1>1, <1>2, <3>1, LeadsLikewise
  <2>3. PICK Z : Leads(B, q, c, Z) /\ Z # {} /\ AtMostOne(Z, c)
    BY <1>3, <2>1, LeadsSomewhere
  <2>4. Z \in SUBSET Shape
    BY <2>3 DEF AtMostOne
  <2> QED BY <1>3, <1>4, <2>2, <2>3, <2>4 DEF B
<1>5. CASE ~rows[c].there
  <2>1. Of(B, c) = {} /\ X = {}
    BY <1>1, <1>5
  <2>2. Leads(B, q, c, {})
    BY <1>1, <2>1, LeadsToNothing
  <2> QED BY <1>3, <1>5, <2>1, <2>2 DEF B, AtMostOne
<1> QED BY <1>4, <1>5

LEMMA TellKeepsPages ==
  ASSUME Types, Types', Work, NEW r \in Requests, Tell(r), NEW p \in Pages, Follows(p), Quiet(p)
  PROVE  Follows(p)' /\ Quiet(p)'
<1> DEFINE id == req[r].id
           d == [kind |-> req[r].kind, card |-> Fragment(id, req[r].copy)]
           mine == p = req[r].by /\ page[p].pc = "shown"
           sheet == [page[p] EXCEPT !.whole = @ /\ page[p].on,
                                    !.resp = IF mine THEN {Board(Sees(r))} ELSE @,
                                    !.over = IF p = req[r].by THEN {} ELSE @]
<1>1. /\ id \in Cards /\ req[r].kind \in Kinds /\ req[r].copy \in Row
      /\ \A c \in Cards : c # id => Known'[c] = Known[c]
      /\ \A c \in Cards : c # id => (Behind(c)' <=> Behind(c))
      /\ req[r].by # Nobody => lock = r
      /\ lock = r => Known' = written
  BY TellIs
<1>2. /\ page[p].pc = "closed" => page'[p] = page[p]
      /\ page[p].pc # "closed" => page'[p] = sheet
      /\ queue'[p] = IF page[p].on THEN Append(queue[p], d) ELSE queue[p]
      /\ late[p] \subseteq late'[p]
      /\ req[r].copy # Announced(r, id) => id \in late'[p]
      /\ row' = row
  <2>1. late \in [Pages -> SUBSET Cards]
    BY DEF Types, Sent
  <2>2. row' = row /\ queue' = [q \in Pages |-> IF page[q].on THEN Append(queue[q], d) ELSE queue[q]]
    BY DEF Tell
  <2>3. IF req[r].copy = Announced(r, id) THEN UNCHANGED late ELSE Late({id})
    BY DEF Tell
  <2>4. late[p] \subseteq late'[p] /\ (req[r].copy # Announced(r, id) => id \in late'[p])
    BY <2>1, <2>3 DEF Late
  <2>5. /\ page[p].pc = "closed" => page'[p] = page[p]
        /\ page[p].pc # "closed" => page'[p] = sheet
    BY DEF Tell
  <2> QED BY <2>2, <2>4, <2>5
<1>3. page[p] \in Sheets /\ queue[p] \in Seq(Delta)
  BY DEF Types, Seen, Sent
<1>4. d \in Delta /\ d.card.id = id
  BY <1>1, FragmentIs DEF Delta, Kinds
<1>5. /\ page[p].pc # "closed" =>
           /\ sheet.pc = page[p].pc /\ sheet.on = page[p].on /\ sheet.shows = page[p].shows
           /\ sheet.whole <=> page[p].whole /\ page[p].on
           /\ sheet.resp = IF mine THEN {Board(Sees(r))} ELSE page[p].resp
           /\ sheet.over = IF p = req[r].by THEN {} ELSE page[p].over
  BY <1>3 DEF Sheets
<1> HIDE DEF sheet
<1>6. Quiet(p)'
  <2>1. CASE page[p].pc = "closed"
    BY <1>2, <2>1 DEF Quiet
  <2>2. CASE page[p].pc # "closed"
    BY <1>2, <1>5, <2>2 DEF Quiet
  <2> QED BY <2>1, <2>2
<1>7. ASSUME page'[p].pc = "shown", page'[p].whole, NEW c \in Cards \ late'[p]
      PROVE  /\ Comes(page[p].shows, queue[p], c)'
             /\ (c \notin page[p].over)' => \A board \in page'[p].resp : Comes(board, queue[p], c)'
  <2>1. /\ page[p].pc = "shown" /\ page[p].whole /\ page[p].on /\ page'[p].shows = page[p].shows
        /\ page'[p].resp = IF mine THEN {Board(Sees(r))} ELSE page[p].resp
        /\ page'[p].over = IF p = req[r].by THEN {} ELSE page[p].over
        /\ c \notin late[p] /\ queue'[p] = Append(queue[p], d)
    <3>1. page[p].pc # "closed"
      BY <1>2, <1>7
    <3> QED BY <1>2, <1>5, <1>7, <3>1
  <2>2. ASSUME NEW S, Comes(S, queue[p], c)
        PROVE  /\ AtMostOne(Of(S, c), c)
               /\ \E X \in SUBSET Shape : Leads(S, queue'[p], c, X) /\ Right(c, X)'
    <3>1. AtMostOne(Of(S, c), c)
      BY <2>2 DEF Comes
    <3>2. PICK X \in SUBSET Shape : Leads(S, queue[p], c, X) /\ Right(c, X)
      BY <2>2 DEF Comes
    <3>3. PICK e \in Delta : e = d
      BY <1>4
    <3>4. PICK Y : Y = Took(X, e, c)
      OBVIOUS
    <3>5. Y \in SUBSET Shape
      BY <3>4, TookIs
    <3>6. Right(c, Y)' /\ (e.card.id = c /\ e.kind # "created" => X # {})
      <4>1. CASE c = id
        <5>1. req[r].copy = Announced(r, id) /\ Right(id, X)
          BY <1>2, <3>2, <4>1
        <5>2. /\ Right(c, Took(X, e, c))'
              /\ e.kind # "created" => X # {}
          BY <3>3, <4>1, <5>1, TellSettles
        <5> QED BY <3>4, <5>2 DEF Right, AtMostOne, Shape
      <4>2. CASE c # id
        <5>1. Y = X /\ e.card.id # c
          BY <1>4, <3>3, <3>4, <4>2 DEF Took
        <5>2. Undisturbed(c)
          BY <1>1, <4>2 DEF Undisturbed
        <5>3. Right(c, X)'
          BY <3>2, <5>2, RightStays
        <5> QED BY <5>1, <5>3
      <4> QED BY <4>1, <4>2
    <3>7. Leads(S, Append(queue[p], e), c, Y)
      BY <1>3, <3>2, <3>4, <3>6, LeadsOn
    <3> HIDE DEF d
    <3> QED BY <2>1, <3>1, <3>3, <3>5, <3>6, <3>7
  <2>3. Comes(page[p].shows, queue[p], c)
    BY <2>1 DEF Follows
  <2>4. /\ AtMostOne(Of(page[p].shows, c), c)
        /\ \E X \in SUBSET Shape : Leads(page[p].shows, queue'[p], c, X) /\ Right(c, X)'
    BY <2>2, <2>3
  <2>5. Comes(page[p].shows, queue[p], c)'
    <3>1. /\ AtMostOne(Of(page'[p].shows, c), c)
          /\ \E X \in SUBSET Shape : Leads(page'[p].shows, queue'[p], c, X) /\ Right(c, X)'
      BY <2>1, <2>4
    <3> QED BY <3>1 DEF Comes, AtMostOne, Of, Shape
  <2>6. ASSUME c \notin page'[p].over, NEW board \in page'[p].resp PROVE Comes(board, queue[p], c)'
    <3>1. CASE mine
      <4>1. lock = r /\ board = Board(written) /\ Known' = written
        <5>1. req[r].by # Nobody
          BY <3>1, RequestAssumption
        <5> QED BY <1>1, <2>1, <2>6, <3>1, <5>1 DEF Sees
      <4>2. PICK X \in SUBSET Shape : Leads(page[p].shows, queue'[p], c, X) /\ Right(c, X)'
        BY <2>4
      <4>3. /\ written \in Rows /\ page[p].shows \in SUBSET Shape /\ queue'[p] \in Seq(Delta)
        BY <1>3 DEF Types, Stored, Sent, Sheets
      <4>4. /\ AtMostOne(X, c) /\ (written[c].there <=> X # {})
            /\ X = Of(board, c) \/ Behind(c)'
        <5>1. /\ AtMostOne(X, c)' /\ (Known'[c].there <=> X # {})
              /\ X = Of(Board(Known), c)' \/ Behind(c)'
          BY <4>2 DEF Right
        <5>2. AtMostOne(X, c)
          BY <5>1 DEF AtMostOne, Shape
        <5>3. Of(Board(Known), c)' = Of(Board(Known'), c)
          BY DEF Of, Board, Fragment
        <5> QED BY <4>1, <5>1, <5>2, <5>3
      <4>5. /\ AtMostOne(Of(board, c), c)
            /\ X = Of(board, c) => Leads(board, queue'[p], c, X)
            /\ \E Z \in SUBSET Shape : /\ Leads(board, queue'[p], c, Z) /\ AtMostOne(Z, c)
                                       /\ written[c].there <=> Z # {}
        BY <2>4, <4>1, <4>2, <4>3, <4>4, BoardComes
      <4>6. \E Z \in SUBSET Shape : Leads(board, queue'[p], c, Z) /\ Right(c, Z)'
        <5>1. CASE X = Of(board, c)
          BY <4>2, <4>5, <5>1
        <5>2. CASE Behind(c)'
          <6>1. PICK Z \in SUBSET Shape : /\ Leads(board, queue'[p], c, Z) /\ AtMostOne(Z, c)
                                          /\ written[c].there <=> Z # {}
            BY <4>5
          <6>2. AtMostOne(Z, c)'
            BY <6>1 DEF AtMostOne, Shape
          <6>3. Right(c, Z)'
            BY <4>1, <5>2, <6>1, <6>2 DEF Right
          <6> QED BY <6>1, <6>3
        <5> QED BY <4>4, <5>1, <5>2
      <4> QED BY <4>5, <4>6 DEF Comes, AtMostOne, Of, Shape
    <3>2. CASE ~mine
      <4>1. board \in page[p].resp /\ c \notin page[p].over
        BY <2>1, <2>6, <3>2
      <4>2. Comes(board, queue[p], c)
        BY <2>1, <4>1 DEF Follows
      <4>3. /\ AtMostOne(Of(board, c), c)
            /\ \E X \in SUBSET Shape : Leads(board, queue'[p], c, X) /\ Right(c, X)'
        BY <2>2, <4>2
      <4> QED BY <4>3 DEF Comes, AtMostOne, Of, Shape
    <3> QED BY <3>1, <3>2
  <2> QED BY <2>5, <2>6
<1>8. Follows(p)'
  BY <1>7 DEF Follows
<1> QED BY <1>6, <1>8

\* What happens on a page is no news to the board, and none to other pages.
LEMMA PageDisturbsNothing ==
  ASSUME UNCHANGED <<row, lock, written, req>>
  PROVE  /\ Work => Work'
         /\ \A c \in Cards : Undisturbed(c)
         /\ Known' = Known
<1>1. Known' = Known
  BY DEF Known
<1>2. \A c \in Cards : Behind(c)' <=> Behind(c)
  BY DEF Behind
<1>3. Work => Work'
  BY DEF Work, Doing, Holder
<1> QED BY <1>1, <1>2, <1>3 DEF Undisturbed

LEMMA PageSparesOthers ==
  ASSUME Types, Types', UNCHANGED <<row, lock, written, req>>, NEW p \in Pages, Follows(p), Quiet(p),
         page'[p] = page[p], queue'[p] = queue[p], late'[p] = late[p]
  PROVE  Follows(p)' /\ Quiet(p)'
<1>1. Follows(p)'
  BY PageDisturbsNothing, FollowsStill
<1>2. Board(row)' = Board(row)
  BY DEF Board, Fragment
<1> QED BY <1>1, <1>2 DEF Quiet

LEMMA LoadStartsAfresh ==
  ASSUME Types, UNCHANGED <<row, req>>, NEW p \in Pages, NEW set, Load(p, set), queue'[p] = <<>>
  PROVE  Follows(p)' /\ Quiet(p)'
<1>1. page'[p] = [Closed EXCEPT !.pc = "fetch", !.left = Columns, !.set = Shown(set),
                    !.whole = \A r \in Requests : req[r].pc # "told"]
  BY DEF Load, Types, Seen
<1>2. /\ page'[p].pc = "fetch" /\ ~page'[p].on /\ page'[p].resp = {} /\ page'[p].got = {}
      /\ page'[p].left = Columns
      /\ page'[p].whole <=> \A r \in Requests : req[r].pc # "told"
  BY <1>1 DEF Closed
<1>3. {card \in Board(row) : card.at \notin Columns} = {}
  BY BoardIs DEF Types, Stored, Shape
<1>4. Board(row)' = Board(row)
  BY DEF Board, Fragment
<1> QED BY <1>2, <1>3, <1>4 DEF Follows, Quiet

LEMMA ReadKeepsPage ==
  ASSUME Types, NEW p \in Pages, Quiet(p), NEW k \in Columns, ReadColumn(p, k)
  PROVE  Follows(p)' /\ Quiet(p)'
<1>1. page[p] \in Sheets
  BY DEF Types, Seen
<1>2. /\ page'[p].pc = "fetch" /\ page'[p].on = page[p].on /\ page'[p].resp = page[p].resp
      /\ page'[p].left = page[p].left \ {k}
      /\ page'[p].got = page[p].got \union {card \in Board(row) : card.at = k}
      /\ page'[p].whole = page[p].whole
      /\ page[p].pc = "fetch" /\ k \in page[p].left
  BY <1>1 DEF ReadColumn, Types, Seen, Sheets
<1>3. queue' = queue /\ row' = row /\ req' = req
  BY DEF ReadColumn
<1>4. Board(row)' = Board(row)
  BY <1>3 DEF Board, Fragment
<1>5. page[p].got = {card \in Board(row) : card.at \notin page[p].left} =>
        page'[p].got = {card \in Board(row) : card.at \notin page'[p].left}
  BY <1>2
<1> QED BY <1>2, <1>3, <1>4, <1>5 DEF Follows, Quiet

LEMMA RenderKeepsPage ==
  ASSUME Types, Types', NEW p \in Pages, Quiet(p), Render(p)
  PROVE  Follows(p)' /\ Quiet(p)'
<1>1. page[p] \in Sheets
  BY DEF Types, Seen
<1>2. /\ page'[p].pc = "shown" /\ page'[p].on = page[p].on /\ page'[p].resp = page[p].resp
      /\ page'[p].shows = page[p].got /\ page'[p].whole = page[p].whole
      /\ page[p].pc = "fetch" /\ page[p].left = {}
  BY <1>1 DEF Render, Types, Seen, Sheets
<1>3. queue' = queue /\ UNCHANGED <<row, lock, written, req>>
  BY DEF Render
<1>4. queue'[p] = <<>> /\ page'[p].resp = {}
  BY <1>2, <1>3 DEF Quiet
<1>5. Quiet(p)'
  BY <1>2, <1>3, <1>4 DEF Quiet
<1>6. ASSUME page'[p].whole, NEW c \in Cards PROVE Comes(page[p].shows, queue[p], c)'
  <2>1. page[p].got = Board(row) /\ \A r \in Requests : req[r].pc # "told"
    BY <1>2, <1>6 DEF Quiet
  <2>2. row \in Rows /\ lock \in Requests \union {Nobody}
    BY DEF Types, Stored
  <2>3. Known = row /\ Known' = row
    BY <1>3, <2>1, <2>2 DEF Known
  <2> DEFINE X == Of(Board(row), c)
  <2>4. X = (IF row[c].there THEN {Fragment(c, row[c])} ELSE {}) /\ Board(row) \in SUBSET Shape
    BY <2>2, BoardIs
  <2>5. Fragment(c, row[c]) \in Shape /\ Fragment(c, row[c]).id = c
    BY <2>2, FragmentIs DEF Rows
  <2>6. AtMostOne(X, c) /\ (row[c].there <=> X # {}) /\ X \in SUBSET Shape
    BY <2>4, <2>5 DEF AtMostOne
  <2>7. Leads(page'[p].shows, queue'[p], c, X)
    BY <1>2, <1>4, <2>1, <2>4, LeadsNowhere
  <2>8. Of(page'[p].shows, c) = X
    BY <1>2, <2>1
  <2>9. PICK Y \in SUBSET Shape : Y = X
    BY <2>6
  <2>10. Right(c, Y)'
    <3>1. Of(Board(Known), c)' = Y
      <4>1. Of(Board(Known), c)' = Of(Board(Known'), c)
        BY DEF Of, Board, Fragment
      <4> QED BY <2>3, <2>9, <4>1
    <3>2. AtMostOne(Y, c)'
      BY <2>6, <2>9 DEF AtMostOne, Shape
    <3>3. (Known[c].there <=> Y # {})'
      BY <2>3, <2>6, <2>9
    <3> QED BY <3>1, <3>2, <3>3 DEF Right
  <2>11. AtMostOne(Of(page'[p].shows, c), c) /\ Leads(page'[p].shows, queue'[p], c, Y)
    BY <2>6, <2>7, <2>8, <2>9
  <2> QED BY <2>10, <2>11 DEF Comes, AtMostOne, Of, Shape
<1>7. Follows(p)'
  BY <1>2, <1>4, <1>6 DEF Follows
<1> QED BY <1>5, <1>7

LEMMA DeliverKeepsPage ==
  ASSUME Types, Types', NEW p \in Pages, Follows(p), Quiet(p), Deliver(p)
  PROVE  Follows(p)' /\ Quiet(p)'
<1>1. page[p] \in Sheets /\ queue[p] \in Seq(Delta) /\ page[p].on /\ queue[p] # <<>>
  BY DEF Types, Seen, Sent, Deliver
<1>2. PICK e \in Delta : e = Head(queue[p])
  BY <1>1, HeadTailProperties
<1> DEFINE known == \A board \in page[p].resp : e.card \in board
<1>3. /\ page'[p].pc = page[p].pc /\ page'[p].on = page[p].on /\ page'[p].resp = page[p].resp
      /\ page'[p].shows = Applied(page[p].shows, e) /\ page'[p].whole = page[p].whole
      /\ page'[p].over = IF known THEN page[p].over ELSE page[p].over \union {e.card.id}
  BY <1>1, <1>2 DEF Deliver, Types, Seen, Sheets
<1>4. queue'[p] = Tail(queue[p]) /\ late' = late /\ UNCHANGED <<row, lock, written, req>>
  BY DEF Deliver, Types, Sent
<1>5. page[p].pc = "shown"
  BY <1>1 DEF Quiet
<1>6. Quiet(p)'
  BY <1>1, <1>3, <1>5 DEF Quiet
<1>7. ASSUME page'[p].whole, NEW c \in Cards \ late'[p]
      PROVE  /\ Comes(page[p].shows, queue[p], c)'
             /\ (c \notin page[p].over)' => \A board \in page'[p].resp : Comes(board, queue[p], c)'
  <2>1. Undisturbed(c) /\ c \in Cards \ late[p] /\ page[p].whole
    BY <1>3, <1>4, <1>7, PageDisturbsNothing
  <2>2. ASSUME NEW S, NEW T, Comes(S, queue[p], c), Of(T, c) = Took(Of(S, c), e, c)
        PROVE  /\ AtMostOne(Of(T, c), c)
               /\ \E X \in SUBSET Shape : Leads(T, queue'[p], c, X) /\ Right(c, X)'
    <3>1. AtMostOne(Of(T, c), c)
      BY <2>2, TookStaysOne DEF Comes
    <3>2. PICK X \in SUBSET Shape : Leads(S, queue[p], c, X) /\ Right(c, X)
      BY <2>2 DEF Comes
    <3>3. Right(c, X)'
      BY <2>1, <3>2, RightStays
    <3>4. Leads(T, Tail(queue[p]), c, X)
      BY <1>1, <1>2, <2>2, <3>2, LeadsPast
    <3> QED BY <1>4, <3>1, <3>3, <3>4
  <2>3. Comes(page[p].shows, queue[p], c)'
    <3>1. Comes(page[p].shows, queue[p], c)
      BY <1>5, <2>1 DEF Follows
    <3>2. page[p].shows \in SUBSET Shape
      BY <1>1 DEF Sheets
    <3>3. Of(page'[p].shows, c) = Took(Of(page[p].shows, c), e, c)
      BY <1>3, <3>2, AppliedTo
    <3>4. /\ AtMostOne(Of(page'[p].shows, c), c)
          /\ \E X \in SUBSET Shape : Leads(page'[p].shows, queue'[p], c, X) /\ Right(c, X)'
      BY <2>2, <3>1, <3>3
    <3> QED BY <3>4 DEF Comes, AtMostOne, Of, Shape
  <2>4. ASSUME c \notin page'[p].over, NEW board \in page'[p].resp PROVE Comes(board, queue[p], c)'
    <3>1. c \notin page[p].over /\ board \in page[p].resp /\ (known \/ c # e.card.id)
      BY <1>3, <2>4
    <3>2. Comes(board, queue[p], c)
      BY <1>5, <2>1, <3>1 DEF Follows
    <3>3. Of(board, c) = Took(Of(board, c), e, c)
      <4>1. CASE c # e.card.id
        BY <4>1 DEF Took
      <4>2. CASE c = e.card.id
        <5>1. e.card \in board
          BY <3>1, <4>2
        <5>2. Of(board, c) = {e.card}
          <6>1. AtMostOne(Of(board, c), c)
            BY <3>2 DEF Comes
          <6>2. e.card \in Of(board, c)
            BY <4>2, <5>1 DEF Of
          <6> QED BY <6>1, <6>2 DEF AtMostOne
        <5>3. Made(Took({e.card}, e, c), {e.card}, e)
          <6>1. AtMostOne({e.card}, c)
            BY <4>2 DEF AtMostOne, Delta
          <6> QED BY <4>2, <6>1, TookOne
        <5>4. [e.card EXCEPT !.at = e.card.at] = e.card /\ [e.card EXCEPT !.notes = @ \union e.card.notes] = e.card
          BY DEF Delta, Shape
        <5>5. Took({e.card}, e, c) = {e.card}
          BY <5>3, <5>4 DEF Made, Delta
        <5> QED BY <5>2, <5>5
      <4> QED BY <4>1, <4>2
    <3>4. /\ AtMostOne(Of(board, c), c)
          /\ \E X \in SUBSET Shape : Leads(board, queue'[p], c, X) /\ Right(c, X)'
      BY <2>2, <3>2, <3>3
    <3> QED BY <3>4 DEF Comes, AtMostOne, Of, Shape
  <2> QED BY <2>3, <2>4
<1>8. Follows(p)'
  BY <1>7 DEF Follows
<1> QED BY <1>6, <1>8

LEMMA SwapKeepsPage ==
  ASSUME Types, Types', NEW p \in Pages, Follows(p), Quiet(p), Swap(p)
  PROVE  Follows(p)' /\ Quiet(p)'
<1>1. page[p] \in Sheets /\ page \in [Pages -> Sheets] /\ late \in [Pages -> SUBSET Cards]
  BY DEF Types, Seen, Sent
<1>2. PICK board \in page[p].resp :
        /\ page' = [page EXCEPT ![p].shows = board, ![p].resp = {}, ![p].over = {}]
        /\ late' = [late EXCEPT ![p] = @ \union page[p].over]
        /\ UNCHANGED <<row, lock, written, req, queue, saved, reach, today, ops>>
  BY DEF Swap
<1>3. /\ page'[p].pc = page[p].pc /\ page'[p].on = page[p].on /\ page'[p].resp = {}
      /\ page'[p].shows = board /\ page'[p].whole = page[p].whole
      /\ late'[p] = late[p] \union page[p].over
  BY <1>1, <1>2 DEF Sheets
<1>4. page[p].pc = "shown"
  BY DEF Quiet
<1>5. Quiet(p)'
  BY <1>2, <1>3, <1>4 DEF Quiet
<1>6. ASSUME page'[p].whole, NEW c \in Cards \ late'[p] PROVE Comes(page[p].shows, queue[p], c)'
  <2>1. Comes(board, queue[p], c)
    BY <1>3, <1>4, <1>6 DEF Follows
  <2>2. Undisturbed(c)
    BY <1>2, PageDisturbsNothing
  <2>3. /\ AtMostOne(Of(board, c), c)
        /\ \E X \in SUBSET Shape : Leads(board, queue[p], c, X) /\ Right(c, X)'
    BY <2>1, <2>2, ComesStill
  <2>4. page'[p].shows = board /\ queue'[p] = queue[p]
    BY <1>2, <1>3
  <2>5. /\ AtMostOne(Of(page'[p].shows, c), c)
        /\ \E X \in SUBSET Shape : Leads(page'[p].shows, queue'[p], c, X) /\ Right(c, X)'
    BY <2>3, <2>4
  <2> QED BY <2>5 DEF Comes, AtMostOne, Of, Shape
<1>7. Follows(p)'
  BY <1>3, <1>6 DEF Follows
<1> QED BY <1>5, <1>7

LEMMA PageKeepsPages ==
  ASSUME Types, Types', Work, NEW p \in Pages, PageStep(p), \A q \in Pages : Follows(q) /\ Quiet(q)
  PROVE  Work' /\ \A q \in Pages : Follows(q)' /\ Quiet(q)'
<1>0. page \in [Pages -> Sheets] /\ page[p] \in Sheets /\ queue \in [Pages -> Seq(Delta)] /\ late \in [Pages -> SUBSET Cards]
  BY DEF Types, Seen, Sent
<1>1. /\ UNCHANGED <<row, lock, written, req>>
      /\ \A q \in Pages \ {p} : page'[q] = page[q] /\ queue'[q] = queue[q] /\ late'[q] = late[q]
  BY <1>0 DEF PageStep, OpenPage, ReadColumn, Render, Join, Cut, Deliver, Swap, SaveView, OpenView, Load
<1>2. Follows(p)' /\ Quiet(p)'
  <2>1. ASSUME NEW raw \in Raw, OpenPage(p, raw) PROVE Follows(p)' /\ Quiet(p)'
    <3>1. Load(p, raw) /\ queue'[p] = <<>>
      BY <1>0, <2>1 DEF OpenPage
    <3> QED BY <1>1, <3>1, LoadStartsAfresh
  <2>2. ASSUME NEW v \in saved, OpenView(p, v) PROVE Follows(p)' /\ Quiet(p)'
    <3>1. Load(p, Params(v.view)) /\ queue'[p] = <<>>
      BY <1>0, <2>2 DEF OpenView
    <3> QED BY <1>1, <3>1, LoadStartsAfresh
  <2>3. ASSUME NEW k \in Columns, ReadColumn(p, k) PROVE Follows(p)' /\ Quiet(p)'
    BY <2>3, ReadKeepsPage
  <2>4. CASE Render(p)
    BY <2>4, RenderKeepsPage
  <2>5. CASE Join(p)
    <3>1. /\ page[p].pc = "shown" /\ page'[p] = [page[p] EXCEPT !.on = TRUE] /\ queue' = queue /\ late' = late
      BY <1>0, <2>5 DEF Join
    <3>2. /\ page'[p].pc = "shown" /\ page'[p].on /\ page'[p].resp = page[p].resp /\ page'[p].over = page[p].over
          /\ page'[p].shows = page[p].shows /\ page'[p].whole = page[p].whole
      BY <1>0, <3>1 DEF Sheets
    <3>3. Follows(p)'
      BY <1>1, <3>1, <3>2, PageDisturbsNothing, FollowsStill
    <3> QED BY <3>2, <3>3 DEF Quiet
  <2>6. CASE Cut(p)
    <3>1. /\ page[p].on /\ page'[p] = [page[p] EXCEPT !.on = FALSE, !.whole = FALSE] /\ queue'[p] = <<>>
      BY <1>0, <2>6 DEF Cut
    <3>2. /\ page'[p].pc = page[p].pc /\ ~page'[p].on /\ ~page'[p].whole /\ page'[p].resp = page[p].resp
      BY <1>0, <3>1 DEF Sheets
    <3> QED BY <3>1, <3>2 DEF Quiet, Follows
  <2>7. CASE Deliver(p)
    BY <2>7, DeliverKeepsPage
  <2>8. CASE Swap(p)
    BY <2>8, SwapKeepsPage
  <2>9. CASE SaveView(p)
    <3>1. page'[p] = page[p] /\ queue'[p] = queue[p] /\ late'[p] = late[p]
      BY <2>9 DEF SaveView
    <3> QED BY <1>1, <3>1, PageSparesOthers
  <2> QED BY <2>1, <2>2, <2>3, <2>4, <2>5, <2>6, <2>7, <2>8, <2>9 DEF PageStep
<1>3. ASSUME NEW q \in Pages PROVE Follows(q)' /\ Quiet(q)'
  <2>1. CASE q = p
    BY <1>2, <2>1
  <2>2. CASE q # p
    BY <1>1, <2>2, PageSparesOthers
  <2> QED BY <2>1, <2>2
<1> QED BY <1>1, <1>3, PageDisturbsNothing

LEMMA FollowAtFirst ==
  ASSUME Init
  PROVE  Follow
<1>1. Types
  BY TypesAtFirst
<1>2. Work
  BY RequestAssumption DEF Init, Work, Doing, Holder, Idle
<1>3. \A p \in Pages : Follows(p) /\ Quiet(p)
  BY DEF Init, Follows, Quiet, Closed
<1> QED BY <1>1, <1>2, <1>3 DEF Follow

LEMMA FollowStays ==
  ASSUME Follow, [Next]_vars
  PROVE  Follow'
<1>1. Types /\ Work /\ \A p \in Pages : Follows(p) /\ Quiet(p)
  BY DEF Follow
<1>2. ASSUME NEW r \in Requests, RequestStep(r) PROVE Follow'
  <2>1. Types' /\ Work'
    BY <1>1, <1>2, RequestKeepsTypes, RequestKeepsWork
  <2>2. \A p \in Pages : Follows(p)' /\ Quiet(p)'
    BY <1>1, <1>2, <2>1, RequestKeepsPages, TellKeepsPages
  <2> QED BY <2>1, <2>2 DEF Follow
<1>3. ASSUME NEW p \in Pages, PageStep(p) PROVE Follow'
  <2>1. Types'
    BY <1>1, <1>3, PageKeepsTypes
  <2> QED BY <1>1, <1>3, <2>1, PageKeepsPages DEF Follow
<1>4. ASSUME UNCHANGED <<row, lock, written, req, page, queue, late>>, Types' PROVE Follow'
  <2>1. \A p \in Pages : Follows(p)' /\ Quiet(p)'
    BY <1>1, <1>4, PageSparesOthers
  <2> QED BY <1>1, <1>4, <2>1, PageDisturbsNothing DEF Follow
<1>5. Types'
  BY <1>1, TypesGoOn
<1>6. ASSUME NEW v \in saved, DeleteView(v) PROVE Follow'
  BY <1>4, <1>5, <1>6 DEF DeleteView
<1>7. CASE ReachChanges
  BY <1>4, <1>5, <1>7 DEF ReachChanges
<1>8. CASE NextDay
  BY <1>4, <1>5, <1>8 DEF NextDay
<1>9. CASE UNCHANGED vars
  BY <1>4, <1>5, <1>9 DEF vars
<1> QED BY <1>2, <1>3, <1>6, <1>7, <1>8, <1>9 DEF Next

\* Whatever order moves, edits, comments, answers and changes come in, and however
\* many pages, requests and cards there are, a page that has joined before anything
\* changed shows a card once, where and as it is (board_live.py, boards.py,
\* cards.py, applyBoardDelta).
THEOREM PagesShowTheBoard == Spec => []LiveTrue
<1>1. ASSUME Follow PROVE LiveTrue
  <2> SUFFICES ASSUME NEW p \in Pages,
                      page[p].pc = "shown" /\ page[p].whole /\ page[p].resp = {} /\ queue[p] = <<>>,
                      NEW c \in Cards, Open(c) = {} /\ c \notin late[p]
               PROVE  Of(page[p].shows, c) = Of(Board(row), c)
    BY DEF LiveTrue, Of
  <2>1. Types /\ Work /\ Follows(p)
    BY <1>1 DEF Follow
  <2>2. Comes(page[p].shows, <<>>, c)
    BY <2>1 DEF Follows
  <2>3. PICK X \in SUBSET Shape : Leads(page[p].shows, <<>>, c, X) /\ Right(c, X)
    BY <2>2 DEF Comes
  <2>4. X = Of(page[p].shows, c)
    BY <2>3 DEF Leads, Walk
  <2>5. ~Behind(c)
    BY DEF Open, Behind
  <2>6. X = Of(Board(Known), c)
    BY <2>3, <2>5 DEF Right
  <2>7. Known[c] = row[c]
    <3>1. CASE lock = Nobody \/ req[lock].pc # "told"
      BY <3>1 DEF Known
    <3>2. CASE lock # Nobody /\ req[lock].pc = "told"
      <4>1. lock \in Requests /\ Holder(lock)
        BY <2>1, <3>2 DEF Types, Stored, Work, Doing
      <4>2. c # req[lock].id
        BY <3>2, <4>1 DEF Open
      <4> QED BY <3>2, <4>1, <4>2 DEF Known, Holder
    <3> QED BY <3>1, <3>2
  <2>8. row \in Rows /\ Known \in Rows
    BY <2>1, KnownIs DEF Types, Stored
  <2> QED BY <2>4, <2>6, <2>7, <2>8, BoardIs
<1>2. Follow => LiveTrue
  BY <1>1
<1>3. Init => Follow
  BY FollowAtFirst
<1>4. Follow /\ [Next]_vars => Follow'
  BY FollowStays
<1> QED BY <1>2, <1>3, <1>4, PTL DEF Spec

=============================================================================
