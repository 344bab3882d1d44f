----------------------------- MODULE CardProofs -----------------------------
(***************************************************************************)
(* Proofs about module Cards, for every set of cards, columns, fields,     *)
(* values, people and requests: the cards of a column have an order        *)
(* (CardsOrdered), and the activity of a card ends in what the card shows  *)
(* (TrailExplains).                                                        *)
(*                                                                         *)
(* Both are inductive over the types.  The order rests on TopIs: some      *)
(* number bounds all positions (it grows with each card put behind the     *)
(* others), so a column has a highest one and a card put behind it has a   *)
(* place of its own.  The trail rests on its rows being about live cards   *)
(* only, so that a new card has none, and on what an edit appends: one row *)
(* for each field it changes, and the assignee's behind them.              *)
(***************************************************************************)
EXTENDS Cards, FiniteSetTheorems, WellFoundedInduction, TLAPS

USE ValueAssumption, CardAssumption, OpsAssumption

-----------------------------------------------------------------------------
\* The types.

Places == Columns \union {Absent.at}
CardRow == [live : BOOLEAN, at : Places, pos : Nat, new : Entries,
            field : [Fields -> Entries], who : People \union {NoValue}]
TrailRow == [id : Cards, field : Fields \union {"assignee"},
             old : Entries \union People, new : Entries \union People]
Request == [pc : {"idle", "create", "edit", "spawned"}, id : Cards \union {NoValue},
            copy : CardRow, patch : [Fields -> Entries \union {Keep}],
            who : People \union {NoValue, Keep}, top : Int]

\* What the tables and the requests hold, whatever the columns are called.
Held ==
  /\ card \in [Cards -> CardRow]
  /\ req \in [Requests -> Request]
  /\ trail \in Seq(TrailRow)
  /\ \A r \in Requests : -1 <= req[r].top

\* An edit is of a card there is, and so is every row of the trail.
OfLive ==
  /\ \A r \in Requests : req[r].pc = "edit" => req[r].id \in Live
  /\ \A i \in DOMAIN trail : trail[i].id \in Live

\* No card is lower than some number.
Bounded == \E m \in Nat : \A c \in Cards : card[c].pos <= m

CardsBase == Held /\ OfLive /\ Bounded

LEMMA IdleIs == /\ Idle \in Request /\ Absent \in CardRow /\ NoPatch \in [Fields -> Entries \union {Keep}]
                /\ Idle.pc = "idle" /\ Idle.top = -1
<1>1. Absent \in CardRow
  BY DEF Absent, CardRow, Places, Entries
<1>2. NoPatch \in [Fields -> Entries \union {Keep}]
  BY DEF NoPatch
<1> QED BY <1>1, <1>2 DEF Idle, Request

-----------------------------------------------------------------------------
\* The highest position of a column.

\* A bounded set of numbers that is not empty has a highest one: its least bound.
LEMMA Highest ==
  ASSUME NEW S \in SUBSET Nat, S # {}, NEW n \in Nat, \A s \in S : s <= n
  PROVE  \E p \in S : \A s \in S : s <= p
<1> DEFINE Bounds == {k \in Nat : \A s \in S : s <= k}
           Less == OpToRel(<, Nat)
<1>1. PICK p \in Bounds : \A k \in Bounds : <<k, p>> \notin Less
  <2>1. IsWellFoundedOn(Less, Nat)
    BY NatLessThanWellFounded
  <2>2. Bounds \subseteq Nat /\ Bounds # {}
    OBVIOUS
  <2> HIDE DEF Bounds, Less
  <2> QED BY <2>1, <2>2, WFMin
<1>2. \A k \in Bounds : ~(k < p)
  BY <1>1 DEF OpToRel
<1>3. p \in S
  <2> SUFFICES ASSUME p \notin S PROVE FALSE
    OBVIOUS
  <2>1. PICK s \in S : TRUE
    OBVIOUS
  <2>2. s \in Nat /\ s <= p /\ s # p
    BY <2>1
  <2>3. p - 1 \in Nat /\ \A q \in S : q \in Nat /\ q <= p - 1
    BY <2>2
  <2> QED BY <1>2, <2>3
<1> QED BY <1>3

LEMMA TopIs ==
  ASSUME CardsBase, NEW k
  PROVE  Top(k) \in Int /\ -1 <= Top(k) /\ \A c \in In(k) : card[c].pos <= Top(k)
<1>1. CASE In(k) = {}
  BY <1>1 DEF Top
<1>2. CASE In(k) # {}
  <2> DEFINE S == {card[c].pos : c \in In(k)}
  <2>0. \A c \in In(k) : c \in Cards /\ card[c].pos \in Nat
    BY DEF In, Live, CardsBase, Held, CardRow
  <2>1. S \in SUBSET Nat /\ S # {}
    BY <1>2, <2>0
  <2>2. PICK m \in Nat : \A s \in S : s <= m
    BY <2>0 DEF CardsBase, Bounded
  <2>3. PICK p \in S : \A s \in S : s <= p
    BY <2>1, <2>2, Highest
  <2>4. Top(k) = CHOOSE q \in S : \A c \in In(k) : card[c].pos <= q
    BY <1>2 DEF Top
  <2>5. \A c \in In(k) : card[c].pos <= p
    BY <2>3
  <2>6. Top(k) \in S /\ \A c \in In(k) : card[c].pos <= Top(k)
    BY <2>3, <2>4, <2>5
  <2> QED BY <2>1, <2>6
<1> QED BY <1>1, <1>2

-----------------------------------------------------------------------------
\* The sequence of a finite set: each element of it, and nothing else.

LEMMA SeqOfSet ==
  ASSUME NEW S, IsFiniteSet(S)
  PROVE  /\ SetToSeq(S) \in Seq(S)
         /\ \A s \in S : \E i \in DOMAIN SetToSeq(S) : SetToSeq(S)[i] = s
<1> DEFINE n == Cardinality(S)
           f == SetToSeq(S)
<1>1. n \in Nat /\ ExistsBijection(1..n, S)
  BY FS_CardinalityType
<1>2. \E g \in [1..n -> S] : IsInjective(g)
  BY <1>1 DEF ExistsBijection, Bijection, Injection, IsInjective
<1>3. f \in [1..n -> S] /\ IsInjective(f)
  BY <1>2 DEF SetToSeq
<1>4. f \in Injection(1..n, S)
  BY <1>3 DEF Injection, IsInjective
<1>5. IsFiniteSet(1..n) /\ Cardinality(1..n) = n
  BY <1>1, FS_Interval
<1>6. f \in Surjection(1..n, S)
  BY <1>4, <1>5, FS_Injection
<1> HIDE DEF f
<1>7. f \in Seq(S) /\ DOMAIN f = 1..n
  BY <1>1, <1>3
<1>8. \A s \in S : \E i \in DOMAIN f : f[i] = s
  BY <1>6, <1>7 DEF Surjection
<1> QED BY <1>7, <1>8 DEF f
-----------------------------------------------------------------------------
\* What a step appends to the trail.

\* new is old with the members of S behind it, in some order.
Extends(new, old, S) ==
  /\ new \in Seq(TrailRow) /\ Len(old) <= Len(new)
  /\ \A i \in 1..Len(old) : new[i] = old[i]
  /\ \A i \in Len(old) + 1..Len(new) : new[i] \in S
  /\ \A row \in S : \E i \in Len(old) + 1..Len(new) : new[i] = row

LEMMA AppendSet ==
  ASSUME NEW t \in Seq(TrailRow), NEW S \in SUBSET TrailRow, IsFiniteSet(S)
  PROVE  Extends(t \o SetToSeq(S), t, S)
<1> DEFINE u == SetToSeq(S)
<1>1. u \in Seq(S) /\ \A row \in S : \E i \in DOMAIN u : u[i] = row
  BY SeqOfSet
<1> HIDE DEF u
<1>2. u \in Seq(TrailRow) /\ Len(u) \in Nat /\ DOMAIN u = 1..Len(u) /\ \A i \in 1..Len(u) : u[i] \in S
  BY <1>1
<1> DEFINE v == t \o u
<1>3. v \in Seq(TrailRow) /\ Len(v) = Len(t) + Len(u) /\ Len(t) \in Nat
  BY <1>2
<1>4. /\ \A i \in 1..Len(t) : v[i] = t[i]
      /\ \A i \in Len(t) + 1..Len(v) : v[i] = u[i - Len(t)]
  BY <1>2, <1>3
<1>5. ASSUME NEW i \in Len(t) + 1..Len(v) PROVE v[i] \in S
  BY <1>2, <1>3, <1>4, <1>5
<1>6. ASSUME NEW row \in S PROVE \E i \in Len(t) + 1..Len(v) : v[i] = row
  <2>1. PICK i \in 1..Len(u) : u[i] = row
    BY <1>1, <1>2
  <2>2. Len(t) + i \in Len(t) + 1..Len(v) /\ (Len(t) + i) - Len(t) = i
    BY <1>2, <1>3
  <2> QED BY <1>4, <2>1, <2>2
<1> HIDE DEF v
<1>7. Extends(v, t, S)
  <2>1. v \in Seq(TrailRow) /\ Len(t) <= Len(v)
    BY <1>2, <1>3
  <2> QED BY ONLY <2>1, <1>4, <1>5, <1>6 DEF Extends
<1> QED BY <1>7 DEF u, v

LEMMA AppendOne ==
  ASSUME NEW old, NEW t \in Seq(TrailRow), NEW S, NEW row \in TrailRow, Extends(t, old, S),
         old \in Seq(TrailRow)
  PROVE  Extends(t \o <<row>>, old, S \union {row})
<1> DEFINE v == t \o <<row>>
<1>1. v \in Seq(TrailRow) /\ Len(v) = Len(t) + 1 /\ Len(t) \in Nat /\ Len(old) \in Nat
  OBVIOUS
<1>2. v[Len(t) + 1] = row /\ \A i \in 1..Len(t) : v[i] = t[i]
  OBVIOUS
<1> HIDE DEF v
<1>3. Len(old) <= Len(t)
  BY DEF Extends
<1>4. \A i \in 1..Len(old) : v[i] = old[i]
  BY <1>1, <1>2, <1>3 DEF Extends
<1>5. \A i \in Len(old) + 1..Len(v) : v[i] \in S \union {row}
  <2> TAKE i \in Len(old) + 1..Len(v)
  <2>1. i = Len(t) + 1 \/ (i \in Len(old) + 1..Len(t) /\ i \in 1..Len(t))
    BY <1>1, <1>3
  <2> QED BY <1>2, <2>1 DEF Extends
<1>6. ASSUME NEW x \in S \union {row} PROVE \E i \in Len(old) + 1..Len(v) : v[i] = x
  <2>1. CASE x = row
    BY <1>1, <1>2, <1>3, <2>1
  <2>2. CASE x \in S
    <3>1. PICK i \in Len(old) + 1..Len(t) : t[i] = x
      BY <2>2 DEF Extends
    <3>2. i \in 1..Len(t) /\ i \in Len(old) + 1..Len(v)
      BY <1>1, <1>3
    <3> QED BY <1>2, <3>1, <3>2
  <2> QED BY <1>6, <2>1, <2>2
<1>7. Extends(v, old, S \union {row})
  <2>1. v \in Seq(TrailRow) /\ Len(old) <= Len(v)
    BY <1>1, <1>3
  <2> QED BY ONLY <2>1, <1>4, <1>5, <1>6 DEF Extends
<1> QED BY <1>7 DEF v

\* A field nothing is said of keeps its last word.
LEMMA NothingSaid ==
  ASSUME trail \in Seq(TrailRow), NEW S, Extends(trail', trail, S), NEW c, NEW f,
         \A row \in S : ~(row.id = c /\ row.field = f), NEW value, NEW first
  PROVE  Explained(c, f, value, first)' <=> Explained(c, f, value, first)
<1>1. DOMAIN trail = 1..Len(trail) /\ DOMAIN trail' = 1..Len(trail') /\ Len(trail) \in Nat /\ Len(trail') \in Nat
      /\ Len(trail) <= Len(trail')
  BY DEF Extends
<1>2. \A i \in DOMAIN trail' : i \in DOMAIN trail \/ i \in Len(trail) + 1..Len(trail')
  BY <1>1
<1>3. Rows(c, f)' = Rows(c, f) /\ \A i \in Rows(c, f) : trail'[i] = trail[i]
  BY <1>1, <1>2 DEF Extends, Rows
<1> HIDE DEF Rows
<1> QED BY <1>3 DEF Explained

\* A field something is said of has that for its last word.
LEMMA LastWord ==
  ASSUME trail \in Seq(TrailRow), NEW S, Extends(trail', trail, S), NEW c, NEW f, NEW value, NEW first,
         \E row \in S : row.id = c /\ row.field = f,
         \A row \in S : row.id = c /\ row.field = f => row.new = value
  PROVE  Explained(c, f, value, first)'
<1> DEFINE R == {i \in DOMAIN trail' : trail'[i].id = c /\ trail'[i].field = f}
<1>1. DOMAIN trail' = 1..Len(trail') /\ Len(trail) \in Nat /\ Len(trail') \in Nat /\ Len(trail) <= Len(trail')
  BY DEF Extends
<1>2. PICK i \in Len(trail) + 1..Len(trail') : trail'[i] \in S /\ i \in R
  <2>1. PICK row \in S : row.id = c /\ row.field = f
    OBVIOUS
  <2>2. PICK i \in Len(trail) + 1..Len(trail') : trail'[i] = row
    BY DEF Extends
  <2> QED BY <1>1, <2>1, <2>2
<1>3. R \in SUBSET Nat /\ \A j \in R : j <= Len(trail')
  BY <1>1
<1>4. PICK last \in R : \A j \in R : j <= last
  <2> HIDE DEF R
  <2> QED BY <1>1, <1>2, <1>3, Highest
<1>5. last \in Len(trail) + 1..Len(trail')
  BY <1>1, <1>2, <1>4
<1>6. trail'[last].new = value
  BY <1>4, <1>5 DEF Extends
<1>7. Rows(c, f)' = R
  BY DEF Rows
<1> HIDE DEF R
<1> QED BY <1>2, <1>4, <1>6, <1>7 DEF Explained

-----------------------------------------------------------------------------
\* What each step does to the cards and the trail.

\* A request that reads, goes on or is over.
LEMMA RequestMoves ==
  ASSUME CardsBase, NEW r \in Requests, NEW s \in Request, Goto(r, s), -1 <= s.top,
         s.pc = "edit" => s.id \in Live, UNCHANGED <<card, trail>>
  PROVE  CardsBase'
<1>1. req' \in [Requests -> Request] /\ req'[r] = s /\ \A q \in Requests \ {r} : req'[q] = req[q]
  BY DEF Goto, CardsBase, Held
<1>2. Held'
  BY <1>1 DEF CardsBase, Held
<1>3. OfLive'
  BY <1>1 DEF CardsBase, OfLive, Live
<1> QED BY <1>2, <1>3 DEF CardsBase, Bounded

\* A request that writes the cards and is over.
LEMMA CardsWritten ==
  ASSUME CardsBase, NEW r \in Requests, Goto(r, Idle) \/ req' = req,
         card' \in [Cards -> CardRow], Live \subseteq Live', trail' \in Seq(TrailRow),
         \A i \in DOMAIN trail' : trail'[i].id \in Live',
         NEW top \in Nat, \A c \in Cards : card'[c].pos = card[c].pos \/ card'[c].pos <= top
  PROVE  CardsBase'
<1>1. /\ req' \in [Requests -> Request]
      /\ \A q \in Requests : req'[q] = req[q] \/ req'[q] = Idle
  BY IdleIs DEF Goto, CardsBase, Held
<1>2. Held'
  BY <1>1, IdleIs DEF CardsBase, Held
<1>3. OfLive'
  BY <1>1, IdleIs DEF CardsBase, OfLive
<1>4. Bounded'
  <2>1. PICK m \in Nat : \A c \in Cards : card[c].pos <= m
    BY DEF CardsBase, Bounded
  <2>2. \A c \in Cards : card[c].pos \in Nat /\ card'[c].pos \in Nat
    BY DEF CardsBase, Held, CardRow
  <2>3. \A c \in Cards : card'[c].pos <= m + top
    BY <2>1, <2>2
  <2>4. m + top \in Nat
    OBVIOUS
  <2> QED BY <2>3, <2>4 DEF Bounded
<1> QED BY <1>2, <1>3, <1>4 DEF CardsBase

\* A card is added: nobody else's row changes.
LEMMA AddIs ==
  ASSUME CardsBase, NEW r \in Requests, NEW c \in Cards, NEW given \in Entries, AddCard(r, c, given)
  PROVE  /\ card' \in [Cards -> CardRow] /\ \A d \in Cards \ {c} : card'[d] = card[d]
         /\ c \notin Live /\ Live' = Live \union {c}
         /\ card'[c].new = given /\ card'[c].field = [f \in Fields |-> given] /\ card'[c].who = NoValue
         /\ card'[c].at = req[r].copy.at /\ card'[c].pos = req[r].top + 1
         /\ req[r].top \in Int /\ req[r].top + 1 \in Nat
<1> DEFINE row == [live |-> TRUE, at |-> req[r].copy.at, pos |-> req[r].top + 1, new |-> given,
                   field |-> [f \in Fields |-> given], who |-> NoValue]
<1>1. /\ req[r].copy.at \in Places /\ req[r].top \in Int /\ -1 <= req[r].top /\ req[r].top + 1 \in Nat
      /\ card \in [Cards -> CardRow]
  BY DEF CardsBase, Held, Request, CardRow
<1>2. row \in CardRow
  BY <1>1 DEF CardRow
<1>3. ~card[c].live /\ card' = [card EXCEPT ![c] = row]
  BY DEF AddCard
<1>4. row.live /\ row.at = req[r].copy.at /\ row.pos = req[r].top + 1 /\ row.new = given
      /\ row.field = [f \in Fields |-> given] /\ row.who = NoValue
  OBVIOUS
<1> HIDE DEF row
<1>5. card' \in [Cards -> CardRow] /\ card'[c] = row /\ \A d \in Cards \ {c} : card'[d] = card[d]
  BY <1>1, <1>2, <1>3
<1>6. c \notin Live /\ Live' = Live \union {c}
  BY <1>3, <1>4, <1>5 DEF Live
<1> QED BY <1>1, <1>4, <1>5, <1>6

\* A card is moved: it keeps what it shows.
LEMMA MoveIs ==
  ASSUME CardsBase, NEW r \in Requests, NEW c \in Cards, NEW k \in Columns, MoveCard(r, c, k)
  PROVE  /\ card' \in [Cards -> CardRow] /\ \A d \in Cards \ {c} : card'[d] = card[d]
         /\ c \in Live /\ Live' = Live
         /\ card'[c].new = card[c].new /\ card'[c].field = card[c].field /\ card'[c].who = card[c].who
         /\ card'[c].at = k /\ card'[c].pos = Top(k) + 1 /\ Top(k) + 1 \in Nat
<1>1. c \in Live /\ card' = [card EXCEPT ![c].at = k, ![c].pos = Top(k) + 1]
  BY DEF MoveCard, Place
<1>2. Top(k) + 1 \in Nat
  BY TopIs
<1> PICK top : top = Top(k) + 1
  OBVIOUS
<1>3. card[c] \in CardRow /\ card \in [Cards -> CardRow] /\ k \in Places /\ top \in Nat
  BY <1>2 DEF CardsBase, Held, Places
<1>4. card' = [card EXCEPT ![c] = [card[c] EXCEPT !.at = k, !.pos = top]]
  BY <1>1, <1>3
<1> PICK row : row = [card[c] EXCEPT !.at = k, !.pos = top]
  OBVIOUS
<1>5. /\ row \in CardRow /\ row.live = card[c].live /\ row.new = card[c].new /\ row.field = card[c].field
      /\ row.who = card[c].who /\ row.at = k /\ row.pos = top
  BY <1>3 DEF CardRow
<1>6. card' \in [Cards -> CardRow] /\ card'[c] = row /\ \A d \in Cards \ {c} : card'[d] = card[d]
  BY <1>3, <1>4, <1>5
<1>7. Live' = Live
  BY <1>5, <1>6 DEF Live
<1> QED BY <1>1, <1>2, <1>5, <1>6, <1>7

\* The rows an edit appends: one for each change, and the assignee's.
EditRows(r) ==
  LET copy == req[r].copy patch == req[r].patch
  IN  {Row(req[r].id, f, copy.field[f], patch[f]) : f \in Changes(copy, patch)}

Seen(r) == IF Changes(req[r].copy, req[r].patch) = {} THEN req[r].copy.who ELSE card[req[r].id].who

WhoRows(r) ==
  IF Assigns(Seen(r), req[r].who) THEN {Row(req[r].id, "assignee", Seen(r), req[r].who)} ELSE {}

After(r) ==
  IF Changes(req[r].copy, req[r].patch) = {} THEN card[req[r].id].field
  ELSE Applied(req[r].copy, req[r].patch)

LEMMA EditRowsAre ==
  ASSUME CardsBase, NEW r \in Requests, req[r].id \in Cards
  PROVE  /\ EditRows(r) \in SUBSET TrailRow /\ IsFiniteSet(EditRows(r))
         /\ Seen(r) \in People \union {NoValue}
         /\ Assigns(Seen(r), req[r].who) =>
              req[r].who \in People \union {NoValue} /\ Row(req[r].id, "assignee", Seen(r), req[r].who) \in TrailRow
         /\ After(r) \in [Fields -> Entries]
<1> DEFINE copy == req[r].copy
           patch == req[r].patch
           changes == Changes(copy, patch)
<1>1. /\ copy \in CardRow /\ patch \in [Fields -> Entries \union {Keep}] /\ card[req[r].id] \in CardRow
      /\ req[r].who \in People \union {NoValue, Keep}
  BY DEF CardsBase, Held, Request
<1>2. copy.field \in [Fields -> Entries] /\ copy.who \in People \union {NoValue}
      /\ card[req[r].id].who \in People \union {NoValue} /\ card[req[r].id].field \in [Fields -> Entries]
  BY <1>1 DEF CardRow
<1>3. ASSUME NEW f \in changes PROVE Row(req[r].id, f, copy.field[f], patch[f]) \in TrailRow
  <2>1. f \in Fields /\ copy.field[f] \in Entries /\ patch[f] \in Entries
    BY <1>1, <1>2 DEF Changes
  <2> QED BY <2>1 DEF Row, TrailRow
<1>4. IsFiniteSet(changes)
  BY FS_Subset DEF Changes
<1>5. EditRows(r) \in SUBSET TrailRow
  BY <1>3 DEF EditRows
<1>6. IsFiniteSet(EditRows(r))
  <2> DEFINE g == [f \in changes |-> Row(req[r].id, f, copy.field[f], patch[f])]
  <2>1. g \in Surjection(changes, EditRows(r))
    BY DEF Surjection, EditRows
  <2> QED BY <1>4, <2>1, FS_Surjection
<1>7. Seen(r) \in People \union {NoValue}
  BY <1>2 DEF Seen
<1>8. ASSUME Assigns(Seen(r), req[r].who)
      PROVE  req[r].who \in People \union {NoValue} /\ Row(req[r].id, "assignee", Seen(r), req[r].who) \in TrailRow
  <2>1. req[r].who \in People \union {NoValue}
    BY <1>1, <1>8 DEF Assigns
  <2> QED BY <1>7, <2>1 DEF Row, TrailRow, Entries
<1>9. After(r) \in [Fields -> Entries]
  BY <1>1, <1>2 DEF After, Applied
<1> QED BY <1>5, <1>6, <1>7, <1>8, <1>9

\* An edit writes one card and says in the trail what it changed.
LEMMA EditIs ==
  ASSUME CardsBase, NEW r \in Requests, WriteEdit(r)
  PROVE  LET c == req[r].id IN
         /\ c \in Live /\ c \in Cards
         /\ card' \in [Cards -> CardRow] /\ \A d \in Cards \ {c} : card'[d] = card[d]
         /\ card'[c].live /\ card'[c].at = card[c].at /\ card'[c].pos = card[c].pos
         /\ card'[c].new = card[c].new /\ card'[c].field = After(r)
         /\ card'[c].who = IF Assigns(Seen(r), req[r].who) THEN req[r].who ELSE card[c].who
         /\ Extends(trail', trail, EditRows(r) \union WhoRows(r))
<1> DEFINE c == req[r].id
           after == After(r)
           assigns == Assigns(Seen(r), req[r].who)
           who == IF assigns THEN req[r].who ELSE card[c].who
<1>1. c \in Live /\ c \in Cards
  BY DEF WriteEdit, CardsBase, OfLive, Live
<1>2. card' = [card EXCEPT ![c].field = after, ![c].who = who]
  <2>1. card' = [card EXCEPT ![c].field = after, ![c].who = IF assigns THEN req[r].who ELSE @]
    BY DEF WriteEdit, After, Seen
  <2> HIDE DEF after, assigns
  <2> QED BY <1>1, <2>1 DEF CardsBase, Held, CardRow
<1>3. trail' = trail \o SetToSeq(EditRows(r)) \o
                (IF assigns THEN <<Row(c, "assignee", Seen(r), req[r].who)>> ELSE <<>>)
  BY DEF WriteEdit, EditRows, Seen
<1>4. trail \in Seq(TrailRow) /\ card[c] \in CardRow /\ card \in [Cards -> CardRow]
  BY <1>1 DEF CardsBase, Held
<1>5. after \in [Fields -> Entries] /\ who \in People \union {NoValue}
  <2>1. card[c].who \in People \union {NoValue}
    BY <1>4 DEF CardRow
  <2> QED BY <1>1, <2>1, EditRowsAre
<1>6. Extends(trail', trail, EditRows(r) \union WhoRows(r))
  <2>1. Extends(trail \o SetToSeq(EditRows(r)), trail, EditRows(r))
    BY <1>1, <1>4, EditRowsAre, AppendSet
  <2> PICK t : t = trail \o SetToSeq(EditRows(r))
    OBVIOUS
  <2>2. Extends(t, trail, EditRows(r)) /\ t \in Seq(TrailRow)
    BY <2>1 DEF Extends
  <2>3. CASE assigns
    <3> DEFINE row == Row(c, "assignee", Seen(r), req[r].who)
    <3>1. row \in TrailRow /\ WhoRows(r) = {row} /\ trail' = t \o <<row>>
      BY <1>1, <1>3, <2>3, EditRowsAre DEF WhoRows
    <3> HIDE DEF row
    <3>2. Extends(t \o <<row>>, trail, EditRows(r) \union {row})
      BY <1>4, <2>2, <3>1, AppendOne
    <3> QED BY <3>1, <3>2
  <2>4. CASE ~assigns
    <3>1. WhoRows(r) = {} /\ trail' = t \o <<>>
      BY <1>3, <2>4 DEF WhoRows
    <3>2. t \o <<>> = t
      BY <2>2
    <3> QED BY <2>2, <3>1, <3>2
  <2> QED BY <2>3, <2>4
<1> HIDE DEF after, assigns, who
<1>7. card' = [card EXCEPT ![c] = [card[c] EXCEPT !.field = after, !.who = who]]
  BY <1>1, <1>2, <1>4
<1> PICK row : row = [card[c] EXCEPT !.field = after, !.who = who]
  OBVIOUS
<1>8. /\ row \in CardRow /\ row.live = card[c].live /\ row.at = card[c].at /\ row.pos = card[c].pos
      /\ row.new = card[c].new /\ row.field = after /\ row.who = who
  BY <1>4, <1>5 DEF CardRow
<1>9. card' \in [Cards -> CardRow] /\ card'[c] = row /\ \A d \in Cards \ {c} : card'[d] = card[d]
  BY <1>1, <1>4, <1>7, <1>8
<1>10. card[c].live
  BY <1>1 DEF Live
<1> QED BY <1>1, <1>6, <1>8, <1>9, <1>10 DEF after, assigns, who

\* Steps that are neither of these leave cards and trail alone.
LEMMA OthersQuiet ==
  ASSUME CardsBase, NEW r \in Requests,
         \/ \E k \in Columns : CreateCard(r, k)
         \/ \E c \in Cards, patch \in Patches, who \in People \union {NoValue, Keep} :
              UpdateCard(r, c, patch, who)
         \/ \E c \in Cards : SpawnRun(r, c) \/ \E run \in runs : LinkCardToRun(r, c, run)
         \/ LinkCardRun(r) \/ Dies(r)
  PROVE  CardsBase' /\ UNCHANGED <<card, trail, tied, stale>>
<1> USE IdleIs
<1>1. ASSUME NEW k \in Columns, CreateCard(r, k) PROVE CardsBase' /\ UNCHANGED <<card, trail, tied, stale>>
  <2>1. PICK top : top = Top(k) /\ top \in Int /\ -1 <= top
    BY TopIs
  <2>2. PICK s : s = [Idle EXCEPT !.pc = "create", !.top = top, !.copy.at = k]
    OBVIOUS
  <2>3. Idle.copy = Absent
    BY DEF Idle
  <2>4. s = [Idle EXCEPT !.pc = "create", !.top = top, !.copy = [Absent EXCEPT !.at = k]]
    BY <2>2, <2>3 DEF Idle
  <2>5. [Absent EXCEPT !.at = k] \in CardRow
    BY DEF CardRow, Places
  <2>6. s \in Request /\ s.pc = "create" /\ s.top = top
    BY <2>1, <2>4, <2>5 DEF Request
  <2>7. Goto(r, s) /\ UNCHANGED <<card, trail, tied, stale>>
    BY <1>1, <2>1, <2>2 DEF CreateCard, history
  <2> QED BY <2>1, <2>6, <2>7, RequestMoves
<1>2. ASSUME NEW c \in Cards, NEW patch \in Patches, NEW who \in People \union {NoValue, Keep},
             UpdateCard(r, c, patch, who)
      PROVE  CardsBase' /\ UNCHANGED <<card, trail, tied, stale>>
  <2>1. PICK row : row = card[c] /\ row \in CardRow
    BY DEF CardsBase, Held
  <2>2. PICK s : s = [Idle EXCEPT !.pc = "edit", !.id = c, !.copy = row, !.patch = patch, !.who = who]
    OBVIOUS
  <2>3. s \in Request /\ s.id = c /\ s.top = -1
    BY <2>1, <2>2 DEF Request, Patches
  <2>4. Goto(r, s) /\ c \in Live /\ UNCHANGED <<card, trail, tied, stale>>
    BY <1>2, <2>1, <2>2 DEF UpdateCard, history
  <2> QED BY <2>3, <2>4, RequestMoves
<1>3. ASSUME NEW c \in Cards, SpawnRun(r, c) PROVE CardsBase' /\ UNCHANGED <<card, trail, tied, stale>>
  <2>1. PICK s : s = [Idle EXCEPT !.pc = "spawned", !.id = c]
    OBVIOUS
  <2>2. s \in Request /\ s.pc = "spawned" /\ s.top = -1
    BY <2>1 DEF Request
  <2>3. Goto(r, s) /\ UNCHANGED <<card, trail, tied, stale>>
    BY <1>3, <2>1 DEF SpawnRun, history
  <2> QED BY <2>2, <2>3, RequestMoves
<1>4. ASSUME NEW c \in Cards, NEW run \in runs, LinkCardToRun(r, c, run)
      PROVE  CardsBase' /\ UNCHANGED <<card, trail, tied, stale>>
  BY <1>4 DEF LinkCardToRun, history, CardsBase, Held, OfLive, Bounded, Live
<1>5. ASSUME LinkCardRun(r) \/ Dies(r) PROVE CardsBase' /\ UNCHANGED <<card, trail, tied, stale>>
  <2>1. Goto(r, Idle) /\ UNCHANGED <<card, trail, tied, stale>>
    BY <1>5 DEF LinkCardRun, Dies, history
  <2> QED BY <2>1, RequestMoves
<1> QED BY <1>1, <1>2, <1>3, <1>4, <1>5

LEMMA BaseInit == Init => CardsBase
<1> SUFFICES ASSUME Init PROVE CardsBase
  OBVIOUS
<1>1. card = [c \in Cards |-> Absent] /\ req = [r \in Requests |-> Idle] /\ trail = <<>>
  BY DEF Init
<1>2. Absent.pos = 0
  BY DEF Absent
<1>3. Held
  BY <1>1, IdleIs DEF Held
<1>4. OfLive
  BY <1>1, IdleIs DEF OfLive
<1>5. Bounded
  BY <1>1, <1>2 DEF Bounded
<1> QED BY <1>3, <1>4, <1>5 DEF CardsBase

-----------------------------------------------------------------------------
\* What the steps preserve.

CardsInv == CardsBase /\ CardsOrdered /\ TrailExplains

\* A trail that is not written explains what it explained.
LEMMA SameTrail ==
  ASSUME UNCHANGED trail, NEW c, NEW f, NEW value, NEW first
  PROVE  Explained(c, f, value, first)' <=> Explained(c, f, value, first)
BY DEF Explained, Rows

LEMMA AddStep ==
  ASSUME CardsInv, NEW r \in Requests, NEW c \in Cards, NEW given \in Entries, AddCard(r, c, given)
  PROVE  CardsInv'
<1> DEFINE k == req[r].copy.at
<1>0. CardsBase /\ CardsOrdered /\ TrailExplains
  BY DEF CardsInv
<1>1. /\ card' \in [Cards -> CardRow] /\ \A d \in Cards \ {c} : card'[d] = card[d]
      /\ c \notin Live /\ Live' = Live \union {c}
      /\ card'[c].new = given /\ card'[c].field = [f \in Fields |-> given] /\ card'[c].who = NoValue
      /\ card'[c].at = k /\ card'[c].pos = req[r].top + 1
      /\ req[r].top \in Int /\ req[r].top + 1 \in Nat
  BY <1>0, AddIs
<1>2. /\ trail' = trail /\ stale' = stale /\ Goto(r, Idle)
      /\ tied' = IF req[r].top = Top(k) THEN tied ELSE tied \union {c}
  BY DEF AddCard
<1>3. CardsBase'
  <2>1. trail' \in Seq(TrailRow) /\ \A i \in DOMAIN trail' : trail'[i].id \in Live'
    BY <1>0, <1>1, <1>2 DEF CardsBase, Held, OfLive
  <2>2. \A d \in Cards : card'[d].pos = card[d].pos \/ card'[d].pos <= req[r].top + 1
    BY <1>1
  <2> QED BY <1>0, <1>1, <1>2, <2>1, <2>2, CardsWritten
<1>4. CardsOrdered'
  <2> SUFFICES ASSUME NEW d \in Live, d \notin tied', c \notin tied', card[d].at = k
               PROVE  card[d].pos # card'[c].pos
    BY <1>0, <1>1, <1>2 DEF CardsOrdered, Live
  <2>1. req[r].top = Top(k) /\ d \in In(k)
    BY <1>2 DEF In
  <2>2. card[d].pos <= Top(k) /\ card[d].pos \in Nat
    BY <1>0, <2>1, TopIs DEF CardsBase, Held, CardRow, Live
  <2> QED BY <1>1, <2>1, <2>2
<1>5. TrailExplains'
  <2>1. ASSUME NEW d \in Live, d # c
        PROVE  /\ \A f \in Fields : <<d, f>> \notin stale => Explained(d, f, card[d].field[f], card[d].new)'
               /\ Explained(d, "assignee", card[d].who, NoValue)'
    <3>1. card'[d] = card[d] /\ d \in Cards
      BY <1>1, <2>1 DEF Live
    <3> PICK v : v = card[d]
      OBVIOUS
    <3>2. ASSUME NEW f \in Fields, <<d, f>> \notin stale PROVE Explained(d, f, v.field[f], v.new)'
      BY <1>0, <1>2, <3>2, SameTrail DEF TrailExplains
    <3>3. Explained(d, "assignee", v.who, NoValue)'
      BY <1>0, <1>2, SameTrail DEF TrailExplains
    <3> QED BY <3>1, <3>2, <3>3 DEF Explained
  <2>2. \A f : Rows(c, f)' = {}
    BY <1>0, <1>1, <1>2 DEF Rows, CardsBase, OfLive
  <2>3. /\ \A f \in Fields : Explained(c, f, card[c].field[f], card[c].new)'
        /\ Explained(c, "assignee", card[c].who, NoValue)'
    BY <1>1, <2>2 DEF Explained
  <2> QED BY <1>1, <1>2, <2>1, <2>3 DEF TrailExplains
<1> QED BY <1>3, <1>4, <1>5 DEF CardsInv

LEMMA MoveStep ==
  ASSUME CardsInv, NEW r \in Requests, NEW c \in Cards, NEW k \in Columns, MoveCard(r, c, k)
  PROVE  CardsInv'
<1>0. CardsBase /\ CardsOrdered /\ TrailExplains
  BY DEF CardsInv
<1>1. /\ card' \in [Cards -> CardRow] /\ \A d \in Cards \ {c} : card'[d] = card[d]
      /\ c \in Live /\ Live' = Live
      /\ card'[c].new = card[c].new /\ card'[c].field = card[c].field /\ card'[c].who = card[c].who
      /\ card'[c].at = k /\ card'[c].pos = Top(k) + 1 /\ Top(k) + 1 \in Nat
  BY <1>0, MoveIs
<1>2. UNCHANGED <<trail, req, stale>> /\ tied' = tied \ {c}
  BY DEF MoveCard
<1>3. CardsBase'
  <2>1. trail' \in Seq(TrailRow) /\ \A i \in DOMAIN trail' : trail'[i].id \in Live'
    BY <1>0, <1>1, <1>2 DEF CardsBase, Held, OfLive
  <2>2. \A d \in Cards : card'[d].pos = card[d].pos \/ card'[d].pos <= Top(k) + 1
    BY <1>1
  <2> QED BY <1>0, <1>1, <1>2, <2>1, <2>2, CardsWritten
<1>4. CardsOrdered'
  <2> SUFFICES ASSUME NEW d \in Live, d # c, card[d].at = k
               PROVE  card[d].pos # card'[c].pos
    BY <1>0, <1>1, <1>2 DEF CardsOrdered, Live
  <2>1. d \in In(k)
    BY DEF In
  <2>2. card[d].pos <= Top(k) /\ card[d].pos \in Nat /\ Top(k) \in Int
    BY <1>0, <2>1, TopIs DEF CardsBase, Held, CardRow, Live
  <2> QED BY <1>1, <2>2
<1>5. TrailExplains'
  <2>1. \A d \in Live : card'[d].new = card[d].new /\ card'[d].field = card[d].field /\ card'[d].who = card[d].who
    BY <1>1 DEF Live
  <2> QED BY <1>0, <1>1, <1>2, <2>1, SameTrail DEF TrailExplains, Explained, Rows
<1> QED BY <1>3, <1>4, <1>5 DEF CardsInv

\* After an edit every field of its card has the value its last row gives it,
\* unless the edit has set it back.
LEMMA EditStep ==
  ASSUME CardsInv, NEW r \in Requests, WriteEdit(r)
  PROVE  CardsInv'
<1> PICK c : c = req[r].id
  OBVIOUS
<1> PICK copy : copy = req[r].copy
  OBVIOUS
<1> PICK patch : patch = req[r].patch
  OBVIOUS
<1> PICK changes : changes = Changes(copy, patch)
  OBVIOUS
<1> PICK S : S = EditRows(r) \union WhoRows(r)
  OBVIOUS
<1>0. CardsBase /\ CardsOrdered /\ TrailExplains
  BY DEF CardsInv
<1>1. /\ c \in Live /\ c \in Cards
      /\ card' \in [Cards -> CardRow] /\ \A d \in Cards \ {c} : card'[d] = card[d]
      /\ card'[c].live /\ card'[c].at = card[c].at /\ card'[c].pos = card[c].pos
      /\ card'[c].new = card[c].new /\ card'[c].field = After(r)
      /\ card'[c].who = IF Assigns(Seen(r), req[r].who) THEN req[r].who ELSE card[c].who
      /\ Extends(trail', trail, S)
  BY <1>0, EditIs
<1>2. /\ Goto(r, Idle) /\ tied' = tied
      /\ stale' = (stale \ {<<c, f>> : f \in changes})
                    \union {<<c, f>> : f \in {g \in Fields \ changes :
                              After(r)[g] # card[c].field[g] /\ copy.field[g] # card[c].field[g]}}
  BY DEF WriteEdit, After
<1>3. Live' = Live
  BY <1>1 DEF Live
<1>4. /\ copy \in CardRow /\ patch \in [Fields -> Entries \union {Keep}] /\ trail \in Seq(TrailRow)
      /\ copy.field \in [Fields -> Entries] /\ changes \subseteq Fields
  BY <1>0 DEF CardsBase, Held, Request, CardRow, Changes
<1>5. \A row \in S : row.id = c
  BY DEF EditRows, WhoRows, Row
<1>6. CardsBase'
  <2>1. trail' \in Seq(TrailRow)
    BY <1>1 DEF Extends
  <2>2. ASSUME NEW i \in DOMAIN trail' PROVE trail'[i].id \in Live'
    <3>1. /\ DOMAIN trail = 1..Len(trail) /\ DOMAIN trail' = 1..Len(trail')
          /\ Len(trail) \in Nat /\ Len(trail') \in Nat
      BY <1>4, <2>1
    <3>2. i \in 1..Len(trail) \/ i \in Len(trail) + 1..Len(trail')
      BY <3>1
    <3>3. CASE i \in 1..Len(trail)
      BY <1>0, <1>1, <1>3, <3>1, <3>3 DEF Extends, CardsBase, OfLive
    <3>4. CASE i \in Len(trail) + 1..Len(trail')
      BY <1>1, <1>3, <1>5, <3>4 DEF Extends
    <3> QED BY <3>2, <3>3, <3>4
  <2>3. \A d \in Cards : card'[d].pos = card[d].pos
    BY <1>1
  <2> QED BY <1>0, <1>1, <1>2, <1>3, <2>1, <2>2, <2>3, CardsWritten
<1>7. CardsOrdered'
  <2>1. \A d \in Live : card'[d].at = card[d].at /\ card'[d].pos = card[d].pos
    BY <1>1 DEF Live
  <2> QED BY <1>0, <1>2, <1>3, <2>1 DEF CardsOrdered
<1>8. ASSUME NEW d \in Live, d # c
      PROVE  /\ \A f \in Fields : <<d, f>> \notin stale' => Explained(d, f, card[d].field[f], card[d].new)'
             /\ Explained(d, "assignee", card[d].who, NoValue)'
  <2>1. card'[d] = card[d] /\ \A f : <<d, f>> \notin stale' => <<d, f>> \notin stale
    BY <1>1, <1>2, <1>8 DEF Live
  <2>2. \A f : \A row \in S : ~(row.id = d /\ row.field = f)
    BY <1>5, <1>8
  <2> PICK v : v = card[d]
    OBVIOUS
  <2>3. ASSUME NEW f \in Fields, <<d, f>> \notin stale' PROVE Explained(d, f, v.field[f], v.new)'
    <3>1. Explained(d, f, v.field[f], v.new)
      BY <1>0, <2>1, <2>3 DEF TrailExplains
    <3> QED BY <1>1, <1>4, <2>2, <3>1, NothingSaid
  <2>4. Explained(d, "assignee", v.who, NoValue)'
    <3>1. Explained(d, "assignee", v.who, NoValue)
      BY <1>0 DEF TrailExplains
    <3> QED BY <1>1, <1>4, <2>2, <3>1, NothingSaid
  <2> QED BY <2>1, <2>3, <2>4 DEF Explained
<1>9. ASSUME NEW f \in Fields, <<c, f>> \notin stale'
      PROVE  Explained(c, f, card[c].field[f], card[c].new)'
  <2> PICK v : v = After(r)[f]
    OBVIOUS
  <2> PICK first : first = card[c].new
    OBVIOUS
  <2>1. f # "assignee"
    OBVIOUS
  <2>2. CASE f \in changes
    <3>1. v = patch[f]
      BY <2>2 DEF After, Applied, Changes
    <3>2. Row(c, f, copy.field[f], patch[f]) \in S
      BY <2>2 DEF EditRows
    <3>3. \E row \in S : row.id = c /\ row.field = f
      BY <3>2 DEF Row
    <3>4. \A row \in S : row.id = c /\ row.field = f => row.new = v
      BY <2>1, <3>1 DEF EditRows, WhoRows, Row
    <3>5. Explained(c, f, v, first)'
      BY <1>1, <1>4, <3>3, <3>4, LastWord
    <3> QED BY <1>1, <3>5 DEF Explained
  <2>3. CASE f \notin changes
    <3>1. \A row \in S : ~(row.id = c /\ row.field = f)
      BY <2>1, <2>3 DEF EditRows, WhoRows, Row
    <3>2. changes # {} => v = copy.field[f]
      BY <2>3, <1>4 DEF After, Applied, Changes
    <3>3. changes = {} => v = card[c].field[f]
      BY DEF After
    <3>4. v = card[c].field[f]
      BY <1>2, <1>9, <2>3, <3>2, <3>3
    <3>5. <<c, f>> \notin stale
      BY <1>2, <1>9, <2>3
    <3>6. Explained(c, f, v, first)
      BY <1>0, <1>1, <3>4, <3>5 DEF TrailExplains
    <3>7. Explained(c, f, v, first)'
      BY <1>1, <1>4, <3>1, <3>6, NothingSaid
    <3> QED BY <1>1, <3>7 DEF Explained
  <2> QED BY <2>2, <2>3
<1>10. Explained(c, "assignee", card[c].who, NoValue)'
  <2> PICK v : v = card'[c].who
    OBVIOUS
  <2>1. CASE Assigns(Seen(r), req[r].who)
    <3>1. v = req[r].who
      BY <1>1, <2>1
    <3>2. Row(c, "assignee", Seen(r), v) \in S
      BY <2>1, <3>1 DEF WhoRows
    <3>3. \E row \in S : row.id = c /\ row.field = "assignee"
      BY <3>2 DEF Row
    <3>4. \A row \in S : row.id = c /\ row.field = "assignee" => row.new = v
      BY <1>4, <3>1 DEF EditRows, WhoRows, Row
    <3>5. Explained(c, "assignee", v, NoValue)'
      BY <1>1, <1>4, <3>3, <3>4, LastWord
    <3> QED BY <3>5 DEF Explained
  <2>2. CASE ~Assigns(Seen(r), req[r].who)
    <3>1. v = card[c].who
      BY <1>1, <2>2
    <3>2. \A row \in S : ~(row.id = c /\ row.field = "assignee")
      BY <1>4, <2>2 DEF EditRows, WhoRows, Row
    <3>3. Explained(c, "assignee", v, NoValue)
      BY <1>0, <1>1, <3>1 DEF TrailExplains
    <3>4. Explained(c, "assignee", v, NoValue)'
      BY <1>1, <1>4, <3>2, <3>3, NothingSaid
    <3> QED BY <3>4 DEF Explained
  <2> QED BY <2>1, <2>2
<1>11. TrailExplains'
  BY <1>3, <1>8, <1>9, <1>10 DEF TrailExplains
<1> QED BY <1>6, <1>7, <1>11 DEF CardsInv

LEMMA StillStep ==
  ASSUME CardsInv, CardsBase', UNCHANGED <<card, trail, tied, stale>>
  PROVE  CardsInv'
BY DEF CardsInv, CardsOrdered, TrailExplains, Explained, Rows, Live

LEMMA CardsInvStep == CardsInv /\ [Next]_vars => CardsInv'
<1> SUFFICES ASSUME CardsInv, [Next]_vars PROVE CardsInv'
  OBVIOUS
<1>0. CardsBase
  BY DEF CardsInv
<1>1. ASSUME NEW r \in Requests, NEW c \in Cards, NEW given \in Entries, AddCard(r, c, given)
      PROVE  CardsInv'
  BY <1>1, AddStep
<1>2. ASSUME NEW r \in Requests, NEW c \in Cards, NEW k \in Columns, MoveCard(r, c, k)
      PROVE  CardsInv'
  BY <1>2, MoveStep
<1>3. ASSUME NEW r \in Requests, WriteEdit(r) PROVE CardsInv'
  BY <1>3, EditStep
<1>4. ASSUME NEW r \in Requests,
             \/ \E k \in Columns : CreateCard(r, k)
             \/ \E c \in Cards, patch \in Patches, who \in People \union {NoValue, Keep} :
                  UpdateCard(r, c, patch, who)
             \/ \E c \in Cards : SpawnRun(r, c) \/ \E run \in runs : LinkCardToRun(r, c, run)
             \/ LinkCardRun(r) \/ Dies(r)
      PROVE  CardsInv'
  BY <1>0, <1>4, OthersQuiet, StillStep
<1>5. CASE UNCHANGED vars
  BY <1>5 DEF vars, history, CardsInv, CardsBase, Held, OfLive, Bounded, CardsOrdered, TrailExplains,
     Explained, Rows, Live
<1> QED BY <1>1, <1>2, <1>3, <1>4, <1>5 DEF Next, CardStep

LEMMA CardsInvariant == Spec => []CardsInv
<1>1. Init => CardsInv
  <2> SUFFICES ASSUME Init PROVE CardsInv
    OBVIOUS
  <2>1. Live = {}
    BY DEF Init, Live, Absent
  <2> QED BY <2>1, BaseInit DEF CardsInv, CardsOrdered, TrailExplains
<1> QED BY <1>1, CardsInvStep, PTL DEF Spec

-----------------------------------------------------------------------------

\* The cards of a column have an order of their own, whoever creates and moves
\* them and from however old a read: two of them share a place only if one was
\* created over a column that had changed since its highest position was read
\* (SqlAlchemyBoardRepository.add_card and move_card).
THEOREM CardsHaveAnOrder == Spec => []CardsOrdered
<1>1. CardsInv => CardsOrdered
  BY DEF CardsInv
<1> QED BY <1>1, CardsInvariant, PTL

\* The activity of a card ends in what the card shows, however edits, moves,
\* assignments and failed requests overlap; only a field that an edit of another
\* one has set back to the value it had read is not explained
\* (BoardService.update_card over SqlAlchemyBoardRepository.update_card).
THEOREM ActivityExplains == Spec => []TrailExplains
<1>1. CardsInv => TrailExplains
  BY DEF CardsInv
<1> QED BY <1>1, CardsInvariant, PTL

=============================================================================
