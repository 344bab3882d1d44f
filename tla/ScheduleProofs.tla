--------------------------- MODULE ScheduleProofs ---------------------------
(***************************************************************************)
(* Proofs about module Schedule: its types; that two loops never believe  *)
(* in a lease on the same row unless somebody else removed the claim of    *)
(* the first (LeaseExclusive); that what a person wrote stands unless      *)
(* somebody worked on an older copy (WordStands); that a one-time job      *)
(* posts once per arming (OncePosts).                                      *)
(*                                                                         *)
(* The claim in the row and the age of the copy are not written together:  *)
(* LeaseInv says that a loop whose copy is younger than the lease has its  *)
(* claim on the row for at least the time that is left, and that a row it  *)
(* has done with is not in its batch again.  WordInv says the same of the  *)
(* copies as of the rows: a copy nobody has written under is as it was     *)
(* asked.  PostsInv is about the stages of a run: a copy that is not       *)
(* posted yet, and a row that is due and that nobody has a copy of, mean   *)
(* that nothing was posted; it needs WordInv where the end of a run turns  *)
(* the job off by the plan of the copy.                                    *)
(***************************************************************************)
EXTENDS Schedule, TLAPS

WorkerStates ==
  [pc : Pcs, at : Items \union {NoItem}, left : SUBSET Items,
   copy : [Items -> Copies], age : 0..Limit, ran : 0..Horizon]

\* A run and an edit are of a row; a worker that is at nothing holds nothing.
At == \A w \in Workers : /\ wk[w].pc \in {"run", "answer", "edit"} => wk[w].at \in Items
                         /\ wk[w].pc \in {"idle", "dead"} => wk[w].at = NoItem /\ wk[w].left = {}
                         /\ wk[w].at \notin wk[w].left

TInv == TypeOK /\ At

LEMMA Times ==
  /\ Horizon \in Nat \ {0} /\ Periods \subseteq 1..Horizon /\ Plans \subseteq 0..Horizon
  /\ Lease \in Nat \ {0} /\ Limit \in Nat /\ Lease <= Limit /\ Horizon <= Limit
<1>1. PICK p \in Periods : \A q \in Periods : q <= p
  BY TimeAssumption
<1>2. Horizon \in Periods /\ \A q \in Periods : q <= Horizon
  BY <1>1 DEF Horizon
<1> QED BY <1>2, TimeAssumption DEF Limit, Plans, Once

LEMMA LeftType ==
  ASSUME NEW n \in Nat, NEW date \in 0..n, NEW time \in Nat
  PROVE  Left(date, time) \in 0..n
BY DEF Left

LEMMA IdleType == Idle \in WorkerStates
BY Times DEF Idle, WorkerStates, Pcs, NoCopy, Copies, Plans, Once

\* The values a worker or a row is given.
LEMMA States ==
  ASSUME TInv
  PROVE  /\ \A w \in Workers : wk[w] \in WorkerStates
         /\ \A i \in Items : row[i] \in Rows /\ ToCopy(i) \in Copies
         /\ \A w \in Workers, i \in Items : wk[w].copy[i] \in Copies
BY DEF TInv, TypeOK, WorkerStates, Rows, Copies, ToCopy

\* After the end of a run.
LEMMA GoOnType ==
  ASSUME TInv, NEW w \in Workers, GoOn(w)
  PROVE  /\ wk' \in [Workers -> WorkerStates] /\ At'
         /\ \A v \in Workers \ {w} : wk'[v] = wk[v]
         /\ wk'[w].at = NoItem /\ wk'[w].left = wk[w].left /\ wk'[w].age \in {wk[w].age, 0}
         /\ wk[w].left # {} => wk'[w].age = wk[w].age
<1> DEFINE s == [wk[w] EXCEPT !.pc = "batch", !.at = NoItem, !.ran = 0]
<1>1. wk[w] \in WorkerStates /\ wk \in [Workers -> WorkerStates]
  BY States DEF TInv, TypeOK, WorkerStates
<1>2. s \in WorkerStates /\ s.at = NoItem /\ s.left = wk[w].left /\ s.age = wk[w].age /\ s.pc = "batch"
  <2>1. 0 \in 0..Horizon /\ "batch" \in Pcs /\ NoItem \in Items \union {NoItem}
    BY Times DEF Pcs
  <2> QED BY <1>1, <2>1 DEF WorkerStates
<1>3. Idle.at = NoItem /\ Idle.left = {} /\ Idle.age = 0 /\ Idle.pc = "idle"
  BY DEF Idle
<1>4. NoItem \notin wk[w].left
  BY <1>1, ItemAssumption DEF WorkerStates
<1>5. wk' = [wk EXCEPT ![w] = IF wk[w].left = {} THEN Idle ELSE s]
  BY DEF GoOn, Enter
<1> HIDE DEF s
<1>6. wk'[w] = (IF wk[w].left = {} THEN Idle ELSE s) /\ \A v \in Workers \ {w} : wk'[v] = wk[v]
  BY <1>1, <1>5
<1>7. wk' \in [Workers -> WorkerStates]
  BY <1>1, <1>2, <1>5, IdleType
<1>8. At'
  BY <1>2, <1>3, <1>4, <1>6 DEF At, TInv
<1> QED BY <1>2, <1>3, <1>6, <1>7, <1>8

\* One worker enters a state that is well formed.
LEMMA EnterType ==
  ASSUME TInv, NEW w \in Workers, NEW s \in WorkerStates, Enter(w, s),
         s.pc \in {"run", "answer", "edit"} => s.at \in Items, s.at \notin s.left,
         s.pc \in {"idle", "dead"} => s.at = NoItem /\ s.left = {}
  PROVE  /\ wk' \in [Workers -> WorkerStates] /\ At'
         /\ wk'[w] = s /\ \A v \in Workers \ {w} : wk'[v] = wk[v]
<1>1. wk \in [Workers -> WorkerStates] /\ wk' = [wk EXCEPT ![w] = s]
  BY DEF TInv, TypeOK, WorkerStates, Enter
<1> QED BY <1>1 DEF TInv, At

LEMMA EnterIdle ==
  ASSUME TInv, NEW w \in Workers, Enter(w, Idle)
  PROVE  /\ wk' \in [Workers -> WorkerStates] /\ At'
         /\ wk'[w] = Idle /\ \A v \in Workers \ {w} : wk'[v] = wk[v]
<1>1. Idle.pc = "idle" /\ Idle.at \notin Idle.left /\ Idle.at = NoItem /\ Idle.left = {}
  BY DEF Idle
<1> QED BY <1>1, IdleType, EnterType

-----------------------------------------------------------------------------
\* The rows.

LEMMA RecordRunType ==
  ASSUME TInv, NEW w \in Workers, NEW i \in Items, NEW on \in BOOLEAN, NEW due \in 0..Horizon,
         RecordRun(w, i, on, due)
  PROVE  /\ row' \in [Items -> Rows] /\ cleared' \in SUBSET Items
         /\ \A j \in Items \ {i} : row'[j] = row[j]
         /\ row'[i].live = row[i].live
<1>1. row \in [Items -> Rows] /\ cleared \subseteq Items /\ row[i] \in Rows
  BY DEF TInv, TypeOK
<1>2. 0 \in 0..Lease
  BY Times
<1> DEFINE s == IF row[i].live THEN [row[i] EXCEPT !.on = on, !.due = due, !.claim = 0] ELSE row[i]
<1>3. s \in Rows /\ s.live = row[i].live
  BY <1>1, <1>2 DEF Rows
<1>4. row' = [row EXCEPT ![i] = s]
  BY DEF RecordRun
<1> HIDE DEF s
<1> QED BY <1>1, <1>3, <1>4 DEF RecordRun, Unclaim

LEMMA WriteFlowType ==
  ASSUME TInv, NEW w \in Workers, NEW i \in Items, NEW on \in BOOLEAN, NEW plan \in Plans,
         NEW due \in 0..Horizon, WriteFlow(w, i, on, plan, due)
  PROVE  /\ row' \in [Items -> Rows] /\ cleared' \in SUBSET Items
         /\ \A j \in Items \ {i} : row'[j] = row[j]
         /\ row'[i].live = row[i].live
<1>1. row \in [Items -> Rows] /\ cleared \subseteq Items /\ row[i] \in Rows
  BY DEF TInv, TypeOK
<1>2. 0 \in 0..Lease
  BY Times
<1> DEFINE s == IF row[i].live
                THEN [live |-> TRUE, on |-> on, plan |-> plan, due |-> due, claim |-> 0] ELSE row[i]
<1>3. s \in Rows /\ s.live = row[i].live
  BY <1>1, <1>2 DEF Rows
<1>4. row' = [row EXCEPT ![i] = s]
  BY DEF WriteFlow
<1> HIDE DEF s
<1> QED BY <1>1, <1>3, <1>4 DEF WriteFlow, Unclaim

LEMMA DeleteType ==
  ASSUME TInv, NEW i \in Items, Delete(i)
  PROVE  /\ row' \in [Items -> Rows]
         /\ \A j \in Items \ {i} : row'[j] = row[j]
         /\ row'[i].live = FALSE
<1>1. row \in [Items -> Rows] /\ row[i] \in Rows
  BY DEF TInv, TypeOK
<1>2. 0 \in 0..Lease
  BY Times
<1> QED BY <1>1, <1>2 DEF Delete, Rows

\* A write of a page that leaves the claim alone.
LEMMA PageType ==
  ASSUME TInv, NEW i \in Items, NEW on \in BOOLEAN, NEW plan \in Plans, NEW due \in 0..Horizon,
         SetEnabled(i, on, due) \/ WriteJob(i, plan, due)
  PROVE  /\ row' \in [Items -> Rows]
         /\ \A j \in Items : row'[j].live = row[j].live /\ row'[j].claim = row[j].claim
<1>1. row \in [Items -> Rows] /\ row[i] \in Rows
  BY DEF TInv, TypeOK
<1>2. CASE SetEnabled(i, on, due)
  BY <1>1, <1>2 DEF SetEnabled, Rows
<1>3. CASE WriteJob(i, plan, due)
  BY <1>1, <1>3 DEF WriteJob, Rows
<1> QED BY <1>2, <1>3

LEMMA AskType ==
  ASSUME TInv, NEW w \in Workers, NEW i \in Items, NEW on \in BOOLEAN, NEW plan \in Plans,
         Ask(w, i, on, plan)
  PROVE  asked' \in [Items -> [on : BOOLEAN, plan : Plans]] /\ raced' \in SUBSET Items
BY DEF TInv, TypeOK, Ask

-----------------------------------------------------------------------------
\* What a step of one worker, but for a poll, does to claims and copies: it takes
\* none, and removes a claim only from a row it is done with.
Tidy(w) ==
  /\ \A v \in Workers \ {w} : wk'[v] = wk[v]
  /\ cleared \subseteq cleared'
  /\ \A i \in Items :
       /\ Leased(w, i)' => Leased(w, i) /\ wk'[w].age = wk[w].age
       /\ row'[i].live => row[i].live
       /\ \/ row'[i].claim = row[i].claim
          \/ ~row'[i].live
          \/ /\ ~Leased(w, i)'
             /\ i \in cleared' \/ \A v \in Workers \ {w} : ~Leased(v, i)

\* A worker that does not touch the rows and holds no more than before.
LEMMA TidyCopies ==
  ASSUME TInv, NEW w \in Workers, \A v \in Workers \ {w} : wk'[v] = wk[v], row' = row, cleared' = cleared,
         \/ w \notin Loops
         \/ Held(w)' = {}
         \/ Held(w)' \subseteq Held(w) /\ wk'[w].age = wk[w].age
  PROVE  Tidy(w)
BY DEF Tidy, Leased

\* A run is recorded, and the worker goes on.
LEMMA TidyRecord ==
  ASSUME TInv, NEW w \in Workers, NEW i \in Items, i = wk[w].at, Unclaim(w, i),
         \A j \in Items \ {i} : row'[j] = row[j], row'[i].live = row[i].live, GoOn(w)
  PROVE  Tidy(w)
<1>1. /\ \A v \in Workers \ {w} : wk'[v] = wk[v]
      /\ wk'[w].at = NoItem /\ wk'[w].left = wk[w].left
      /\ wk[w].left # {} => wk'[w].age = wk[w].age
  BY GoOnType
<1>2. i \notin wk[w].left
  BY DEF TInv, At
<1>3. ASSUME NEW j \in Items, Leased(w, j)'
      PROVE  j \in wk[w].left /\ Leased(w, j) /\ wk'[w].age = wk[w].age
  BY <1>1, <1>3 DEF Leased, Held
<1>4. i \in cleared' \/ \A v \in Workers \ {w} : ~Leased(v, i)
  BY DEF Unclaim
<1>5. cleared \subseteq cleared'
  BY DEF Unclaim
<1> QED BY <1>1, <1>2, <1>3, <1>4, <1>5 DEF Tidy

LEMMA GoOnTidy ==
  ASSUME TInv, NEW w \in Workers, GoOn(w), row' = row, cleared' = cleared
  PROVE  Tidy(w)
<1>1. /\ \A v \in Workers \ {w} : wk'[v] = wk[v]
      /\ wk'[w].at = NoItem /\ wk'[w].left = wk[w].left
      /\ wk[w].left # {} => wk'[w].age = wk[w].age
  BY GoOnType
<1>2. Held(w)' = {} \/ (Held(w)' \subseteq Held(w) /\ wk'[w].age = wk[w].age)
  BY <1>1 DEF Held
<1> QED BY <1>1, <1>2, TidyCopies

\* What a date that was read, or is counted from a start, has become.
LEMMA Dates ==
  ASSUME TInv, NEW w \in Workers, NEW i \in Items
  PROVE  LET copy == wk[w].copy[i] IN
         /\ copy.on \in BOOLEAN /\ copy.plan \in Plans
         /\ Left(copy.due, wk[w].age) \in 0..Horizon
         /\ Left(copy.plan, wk[w].age) \in 0..Horizon
         /\ Left(copy.plan, wk[w].ran) \in 0..Horizon
<1>1. /\ wk[w].copy[i] \in Copies /\ wk[w].age \in Nat /\ wk[w].ran \in Nat
  BY States, Times DEF WorkerStates
<1>2. wk[w].copy[i].due \in 0..Horizon /\ wk[w].copy[i].plan \in 0..Horizon
  BY <1>1, Times DEF Copies
<1> QED BY <1>1, <1>2, LeftType, Times DEF Copies

\* The steps of the workers.
LEMMA WorkerTidy ==
  ASSUME TInv, NEW w \in Workers,
         \/ \E i \in Items : Begin(w, i)
         \/ Post(w) \/ JobSucceeds(w) \/ JobFails(w) \/ FlowReturns(w) \/ Breaks(w) \/ Crash(w)
  PROVE  TInv' /\ Tidy(w)
<1> USE DEF TInv
<1>0. wk[w] \in WorkerStates
  BY States
<1>1. ASSUME NEW i \in Items, Begin(w, i) PROVE TInv' /\ Tidy(w)
  <2> DEFINE s == [wk[w] EXCEPT !.pc = "run", !.at = i, !.left = wk[w].left \ {i}, !.ran = 0]
  <2>1. 0 \in 0..Horizon /\ "run" \in Pcs
    BY Times DEF Pcs
  <2>2. /\ s \in WorkerStates /\ s.pc = "run"
        /\ s.at = i /\ s.left = wk[w].left \ {i} /\ s.age = wk[w].age
    BY <1>0, <2>1 DEF WorkerStates
  <2>3. Enter(w, s) /\ i \in wk[w].left /\ UNCHANGED <<family, row, archived, upsets, history>>
    BY <1>1 DEF Begin
  <2> HIDE DEF s
  <2>4. /\ wk' \in [Workers -> WorkerStates] /\ At'
        /\ wk'[w] = s /\ \A v \in Workers \ {w} : wk'[v] = wk[v]
    BY <2>2, <2>3, EnterType
  <2>5. Held(w)' \subseteq Held(w) /\ wk'[w].age = wk[w].age
    BY <2>2, <2>3, <2>4 DEF Held
  <2>6. Tidy(w)
    BY <2>3, <2>4, <2>5, TidyCopies DEF history
  <2> QED BY <2>3, <2>4, <2>6 DEF TypeOK, WorkerStates, history
<1>2. ASSUME Post(w) PROVE TInv' /\ Tidy(w)
  <2> DEFINE s == [wk[w] EXCEPT !.pc = "answer"]
  <2>1. /\ s \in WorkerStates /\ s.pc = "answer"
        /\ s.at = wk[w].at /\ s.left = wk[w].left /\ s.age = wk[w].age
    BY <1>0 DEF WorkerStates, Pcs
  <2>2. Enter(w, s) /\ wk[w].at \in Items /\ wk[w].at \notin wk[w].left
    BY <1>2 DEF Post, At
  <2> HIDE DEF s
  <2>3. /\ wk' \in [Workers -> WorkerStates] /\ At'
        /\ wk'[w] = s /\ \A v \in Workers \ {w} : wk'[v] = wk[v]
    BY <2>1, <2>2, EnterType
  <2>4. Held(w)' \subseteq Held(w) /\ wk'[w].age = wk[w].age
    BY <2>1, <2>3 DEF Held
  <2>5. Tidy(w)
    BY <1>2, <2>3, <2>4, TidyCopies DEF Post
  <2>6. posts' \in [Items -> 0..2]
    BY <1>2, <2>2 DEF Post, TypeOK
  <2> QED BY <1>2, <2>3, <2>5, <2>6 DEF Post, TypeOK, WorkerStates
<1>3. ASSUME JobSucceeds(w) PROVE TInv' /\ Tidy(w)
  <2>1. wk[w].at \in Items /\ GoOn(w)
    BY <1>3 DEF JobSucceeds, At
  <2>2. PICK on \in BOOLEAN, due \in 0..Horizon : RecordRun(w, wk[w].at, on, due)
    BY <1>3, <2>1, Dates DEF JobSucceeds
  <2>3. /\ row' \in [Items -> Rows] /\ cleared' \in SUBSET Items
        /\ \A j \in Items \ {wk[w].at} : row'[j] = row[j]
        /\ row'[wk[w].at].live = row[wk[w].at].live
    BY <2>1, <2>2, RecordRunType
  <2>4. Tidy(w)
    BY <2>1, <2>2, <2>3, TidyRecord DEF RecordRun
  <2>5. wk' \in [Workers -> WorkerStates] /\ At'
    BY <2>1, GoOnType
  <2> QED BY <1>3, <2>3, <2>4, <2>5 DEF JobSucceeds, TypeOK, WorkerStates
<1>4. ASSUME JobFails(w) PROVE TInv' /\ Tidy(w)
  <2>1. wk[w].at \in Items /\ GoOn(w)
    BY <1>4 DEF JobFails, At
  <2>2. PICK on \in BOOLEAN, due \in 0..Horizon : RecordRun(w, wk[w].at, on, due)
    BY <1>4, <2>1, Dates DEF JobFails
  <2>3. /\ row' \in [Items -> Rows] /\ cleared' \in SUBSET Items
        /\ \A j \in Items \ {wk[w].at} : row'[j] = row[j]
        /\ row'[wk[w].at].live = row[wk[w].at].live
    BY <2>1, <2>2, RecordRunType
  <2>4. Tidy(w)
    BY <2>1, <2>2, <2>3, TidyRecord DEF RecordRun
  <2>5. wk' \in [Workers -> WorkerStates] /\ At'
    BY <2>1, GoOnType
  <2> QED BY <1>4, <2>1, <2>3, <2>4, <2>5 DEF JobFails, TypeOK, WorkerStates
<1>5. ASSUME FlowReturns(w) PROVE TInv' /\ Tidy(w)
  <2>1. wk[w].at \in Items /\ GoOn(w)
    BY <1>5 DEF FlowReturns, At
  <2>2. PICK on \in BOOLEAN, plan \in Plans, due \in 0..Horizon : WriteFlow(w, wk[w].at, on, plan, due)
    BY <1>5, <2>1, Dates DEF FlowReturns
  <2>3. /\ row' \in [Items -> Rows] /\ cleared' \in SUBSET Items
        /\ \A j \in Items \ {wk[w].at} : row'[j] = row[j]
        /\ row'[wk[w].at].live = row[wk[w].at].live
    BY <2>1, <2>2, WriteFlowType
  <2>4. Tidy(w)
    BY <2>1, <2>2, <2>3, TidyRecord DEF WriteFlow
  <2>5. wk' \in [Workers -> WorkerStates] /\ At'
    BY <2>1, GoOnType
  <2> QED BY <1>5, <2>3, <2>4, <2>5 DEF FlowReturns, TypeOK, WorkerStates
<1>6. ASSUME Breaks(w) PROVE TInv' /\ Tidy(w)
  <2>1. /\ wk[w].at \in Items
        /\ UNCHANGED <<family, row, archived, asked, posts, raced, cleared>>
        /\ marred' = marred \union {wk[w].at}
        /\ upsets' = upsets + 1 /\ upsets < MaxUpsets
    BY <1>6 DEF Breaks, At, Upset
  <2>2. wk' \in [Workers -> WorkerStates] /\ At' /\ Tidy(w)
    <3>1. CASE Flow
      <4> DEFINE s == [Idle EXCEPT !.pc = "dead"]
      <4>1. s \in WorkerStates /\ s.pc = "dead" /\ s.at = NoItem /\ s.left = {}
        BY IdleType DEF WorkerStates, Pcs, Idle
      <4>2. Enter(w, s)
        BY <1>6, <3>1 DEF Breaks
      <4> HIDE DEF s
      <4>3. /\ wk' \in [Workers -> WorkerStates] /\ At'
            /\ wk'[w] = s /\ \A v \in Workers \ {w} : wk'[v] = wk[v]
        BY <4>1, <4>2, EnterType
      <4>4. Held(w)' = {}
        BY <4>1, <4>3 DEF Held
      <4> QED BY <2>1, <4>3, <4>4, TidyCopies
    <3>2. CASE ~Flow
      <4>1. GoOn(w)
        BY <1>6, <3>2 DEF Breaks
      <4> QED BY <2>1, <4>1, GoOnType, GoOnTidy
    <3> QED BY <3>1, <3>2
  <2> QED BY <2>1, <2>2, TimeAssumption DEF TypeOK, WorkerStates
<1>7. ASSUME Crash(w) PROVE TInv' /\ Tidy(w)
  <2>1. /\ Enter(w, Idle)
        /\ UNCHANGED <<family, row, archived, asked, posts, raced, cleared>>
        /\ marred' = marred \union Held(w)
        /\ upsets' = upsets + 1 /\ upsets < MaxUpsets
    BY <1>7 DEF Crash, Upset
  <2>2. /\ wk' \in [Workers -> WorkerStates] /\ At'
        /\ wk'[w] = Idle /\ \A v \in Workers \ {w} : wk'[v] = wk[v]
    BY <2>1, EnterIdle
  <2>3. Held(w)' = {}
    BY <2>2 DEF Held, Idle
  <2>4. Tidy(w)
    BY <2>1, <2>2, <2>3, TidyCopies
  <2>5. Held(w) \subseteq Items
    BY <1>0 DEF Held, WorkerStates
  <2> QED BY <2>1, <2>2, <2>4, <2>5, TimeAssumption DEF TypeOK, WorkerStates
<1> QED BY <1>1, <1>2, <1>3, <1>4, <1>5, <1>6, <1>7

-----------------------------------------------------------------------------
\* The steps of the requests.

\* A request holds no lease: what it does to the claims is what counts.
LEMMA TidyRequest ==
  ASSUME NEW w \in Requests, \A v \in Workers \ {w} : wk'[v] = wk[v], cleared \subseteq cleared',
         \A i \in Items :
           /\ row'[i].live => row[i].live
           /\ \/ row'[i].claim = row[i].claim
              \/ ~row'[i].live
              \/ i \in cleared' \/ \A v \in Workers \ {w} : ~Leased(v, i)
  PROVE  Tidy(w)
<1>1. w \notin Loops
  BY WorkerAssumption
<1> QED BY <1>1 DEF Tidy, Leased

\* The state of a request that has read row i.
LEMMA ReadType ==
  ASSUME TInv, NEW i \in Items, NEW pc \in {"run", "edit"}
  PROVE  LET s == [Idle EXCEPT !.pc = pc, !.at = i, !.copy = [Idle.copy EXCEPT ![i] = ToCopy(i)]]
         IN  s \in WorkerStates /\ s.at = i /\ s.left = {} /\ s.pc = pc
<1> DEFINE copy == [Idle.copy EXCEPT ![i] = ToCopy(i)]
<1>1. Idle \in WorkerStates /\ ToCopy(i) \in Copies
  BY IdleType, States
<1>2. copy \in [Items -> Copies]
  BY <1>1 DEF WorkerStates
<1>3. Idle.left = {}
  BY DEF Idle
<1> HIDE DEF copy
<1> QED BY <1>1, <1>2, <1>3 DEF WorkerStates, Pcs

LEMMA RequestTidy ==
  ASSUME TInv, NEW w \in Requests, RequestStep(w)
  PROVE  TInv' /\ Tidy(w)
<1> USE DEF TInv
<1>w. w \in Workers /\ wk[w] \in WorkerStates /\ wk \in [Workers -> WorkerStates]
  BY States DEF Workers, TypeOK, WorkerStates
\* A request that reads, writes and commits, and keeps nothing.
<1>a. ASSUME wk' = wk, row' \in [Items -> Rows], UNCHANGED <<family, archived, cleared, marred>>,
             Upset, asked' \in [Items -> [on : BOOLEAN, plan : Plans]], raced' \in SUBSET Items,
             posts' \in [Items -> 0..2],
             \A j \in Items : \/ row'[j].live = row[j].live /\ row'[j].claim = row[j].claim
                             \/ ~row'[j].live
      PROVE  TInv' /\ Tidy(w)
  <2>1. Tidy(w)
    BY <1>a, TidyRequest
  <2>2. upsets' \in 0..MaxUpsets
    BY <1>a, TimeAssumption DEF Upset, TypeOK
  <2> QED BY <1>a, <2>1, <2>2 DEF TypeOK, At
<1>1. ASSUME NEW i \in Items, RunJob(w, i) PROVE TInv' /\ Tidy(w)
  <2> DEFINE s == [Idle EXCEPT !.pc = "run", !.at = i, !.copy = [Idle.copy EXCEPT ![i] = ToCopy(i)]]
  <2>1. s \in WorkerStates /\ s.at = i /\ s.left = {} /\ s.pc \notin {"idle", "dead"}
    BY ReadType
  <2>2. /\ Enter(w, s) /\ UNCHANGED <<family, row, archived, asked, posts, cleared>>
        /\ marred' = marred \union {i} /\ (raced' = raced \/ raced' = raced \union {i})
        /\ upsets' = upsets + 1 /\ upsets < MaxUpsets
    BY <1>1 DEF RunJob, Upset
  <2> HIDE DEF s
  <2>3. /\ wk' \in [Workers -> WorkerStates] /\ At'
        /\ \A v \in Workers \ {w} : wk'[v] = wk[v]
    BY <1>w, <2>1, <2>2, EnterType
  <2>4. Tidy(w)
    BY <2>2, <2>3, TidyRequest
  <2> QED BY <2>2, <2>3, <2>4, TimeAssumption DEF TypeOK, WorkerStates
<1>2. ASSUME NEW i \in Items, NEW plan \in Plans, UpdateJob(w, i, plan) PROVE TInv' /\ Tidy(w)
  <2>1. PICK date \in 0..Horizon : WriteJob(i, plan, NextRunFor(plan, date))
    BY <1>2 DEF UpdateJob
  <2>2. NextRunFor(plan, date) \in 0..Horizon
    BY Times DEF NextRunFor
  <2>3. /\ row' \in [Items -> Rows]
        /\ \A j \in Items : row'[j].live = row[j].live /\ row'[j].claim = row[j].claim
    BY <2>1, <2>2, PageType
  <2>4. asked[i].on \in BOOLEAN /\ Ask(w, i, asked[i].on, plan)
    BY <1>2 DEF UpdateJob, TypeOK
  <2>5. asked' \in [Items -> [on : BOOLEAN, plan : Plans]] /\ raced' \in SUBSET Items
    BY <1>w, <2>4, AskType
  <2>6. posts' \in [Items -> 0..2]
    BY <1>2 DEF UpdateJob, TypeOK
  <2> QED BY <1>2, <1>a, <2>3, <2>5, <2>6 DEF UpdateJob
<1>3. ASSUME NEW i \in Items, PauseJob(w, i) PROVE TInv' /\ Tidy(w)
  <2>1. row[i].due \in 0..Horizon /\ asked[i].plan \in Plans
    BY DEF TypeOK, Rows
  <2>2. SetEnabled(i, FALSE, row[i].due) /\ Ask(w, i, FALSE, asked[i].plan)
    BY <1>3 DEF PauseJob
  <2>3. /\ row' \in [Items -> Rows]
        /\ \A j \in Items : row'[j].live = row[j].live /\ row'[j].claim = row[j].claim
    BY <2>1, <2>2, PageType
  <2>4. asked' \in [Items -> [on : BOOLEAN, plan : Plans]] /\ raced' \in SUBSET Items
    BY <1>w, <2>1, <2>2, AskType
  <2> QED BY <1>3, <1>a, <2>3, <2>4 DEF PauseJob, TypeOK
<1>4. ASSUME NEW i \in Items, ResumeJob(w, i) PROVE TInv' /\ Tidy(w)
  <2>1. /\ row[i].due \in 0..Horizon /\ row[i].plan \in Plans /\ asked[i].plan \in Plans
    BY DEF TypeOK, Rows
  <2>2. NextRunFor(row[i].plan, row[i].due) \in 0..Horizon
    BY <2>1, Times DEF NextRunFor
  <2>3. SetEnabled(i, TRUE, NextRunFor(row[i].plan, row[i].due)) /\ Ask(w, i, TRUE, asked[i].plan)
    BY <1>4 DEF ResumeJob
  <2>4. /\ row' \in [Items -> Rows]
        /\ \A j \in Items : row'[j].live = row[j].live /\ row'[j].claim = row[j].claim
    BY <2>1, <2>2, <2>3, PageType
  <2>5. asked' \in [Items -> [on : BOOLEAN, plan : Plans]] /\ raced' \in SUBSET Items
    BY <1>w, <2>1, <2>3, AskType
  <2>6. posts' \in [Items -> 0..2]
    BY <1>4 DEF ResumeJob, TypeOK
  <2> QED BY <1>4, <1>a, <2>4, <2>5, <2>6 DEF ResumeJob
<1>5. ASSUME NEW i \in Items, DeleteJob(w, i) PROVE TInv' /\ Tidy(w)
  <2>1. /\ row' \in [Items -> Rows]
        /\ \A j \in Items \ {i} : row'[j] = row[j]
        /\ row'[i].live = FALSE
    BY <1>5, DeleteType DEF DeleteJob
  <2>2. \A j \in Items : \/ row'[j].live = row[j].live /\ row'[j].claim = row[j].claim
                        \/ ~row'[j].live
    BY <2>1
  <2> QED BY <1>5, <1>a, <2>1, <2>2 DEF DeleteJob, TypeOK, history
<1>6. ASSUME NEW i \in Items, ReadFlow(w, i) PROVE TInv' /\ Tidy(w)
  <2> DEFINE s == [Idle EXCEPT !.pc = "edit", !.at = i, !.copy = [Idle.copy EXCEPT ![i] = ToCopy(i)]]
  <2>1. s \in WorkerStates /\ s.at = i /\ s.left = {} /\ s.pc \notin {"idle", "dead"}
    BY ReadType
  <2>2. /\ Enter(w, s) /\ UNCHANGED <<family, row, archived, history>>
        /\ upsets' = upsets + 1 /\ upsets < MaxUpsets
    BY <1>6 DEF ReadFlow, Upset
  <2> HIDE DEF s
  <2>3. /\ wk' \in [Workers -> WorkerStates] /\ At'
        /\ \A v \in Workers \ {w} : wk'[v] = wk[v]
    BY <1>w, <2>1, <2>2, EnterType
  <2>4. Tidy(w)
    BY <2>2, <2>3, TidyRequest DEF history
  <2> QED BY <2>2, <2>3, <2>4, TimeAssumption DEF TypeOK, WorkerStates, history
\* A page of the workflows that writes.
<1>b. ASSUME wk[w].pc = "edit", NEW on \in BOOLEAN, NEW plan \in Plans, NEW due \in 0..Horizon,
             NEW word \in Plans, WriteFlow(w, wk[w].at, on, plan, due), Ask(w, wk[w].at, on, word),
             Enter(w, Idle), UNCHANGED <<family, archived, upsets, posts, marred>>
      PROVE  TInv' /\ Tidy(w)
  <2>1. wk[w].at \in Items
    BY <1>w, <1>b DEF At
  <2>2. /\ row' \in [Items -> Rows] /\ cleared' \in SUBSET Items
        /\ \A j \in Items \ {wk[w].at} : row'[j] = row[j]
        /\ row'[wk[w].at].live = row[wk[w].at].live
    BY <1>b, <1>w, <2>1, WriteFlowType
  <2>3. /\ wk' \in [Workers -> WorkerStates] /\ At'
        /\ \A v \in Workers \ {w} : wk'[v] = wk[v]
    BY <1>b, <1>w, EnterIdle
  <2>4. asked' \in [Items -> [on : BOOLEAN, plan : Plans]] /\ raced' \in SUBSET Items
    BY <1>b, <1>w, <2>1, AskType
  <2>5. /\ cleared \subseteq cleared'
        /\ wk[w].at \in cleared' \/ \A v \in Workers \ {w} : ~Leased(v, wk[w].at)
    BY <1>b DEF WriteFlow, Unclaim
  <2>6. Tidy(w)
    BY <2>1, <2>2, <2>3, <2>5, TidyRequest
  <2> QED BY <1>b, <2>2, <2>3, <2>4, <2>6 DEF TypeOK, WorkerStates
<1>7. ASSUME NEW on \in BOOLEAN, NEW plan \in Periods, UpdateFlow(w, on, plan) PROVE TInv' /\ Tidy(w)
  <2>1. plan \in Plans /\ plan \in 0..Horizon
    BY Times DEF Plans
  <2> QED BY <1>7, <1>b, <2>1 DEF UpdateFlow
<1>8. ASSUME NEW on \in BOOLEAN, EnableFlow(w, on) PROVE TInv' /\ Tidy(w)
  <2>1. wk[w].at \in Items /\ wk[w].pc = "edit"
    BY <1>8, <1>w DEF EnableFlow, At
  <2>2. /\ wk[w].copy[wk[w].at].plan \in Plans /\ asked[wk[w].at].plan \in Plans
        /\ Left(wk[w].copy[wk[w].at].due, wk[w].age) \in 0..Horizon
    BY <1>w, <2>1, Dates DEF TypeOK
  <2> QED BY <1>8, <1>b, <2>1, <2>2 DEF EnableFlow
<1>9. ASSUME DeleteFlow(w) PROVE TInv' /\ Tidy(w)
  <2>1. wk[w].at \in Items
    BY <1>9, <1>w DEF DeleteFlow, At
  <2>2. /\ row' \in [Items -> Rows]
        /\ \A j \in Items \ {wk[w].at} : row'[j] = row[j]
        /\ row'[wk[w].at].live = FALSE
    BY <1>9, <2>1, DeleteType DEF DeleteFlow
  <2>3. /\ wk' \in [Workers -> WorkerStates] /\ At'
        /\ \A v \in Workers \ {w} : wk'[v] = wk[v]
    BY <1>9, <1>w, EnterIdle DEF DeleteFlow
  <2>4. UNCHANGED <<family, archived, upsets, asked, posts, raced, cleared, marred>>
    BY <1>9 DEF DeleteFlow, history
  <2>5. Tidy(w)
    BY <2>1, <2>2, <2>3, <2>4, TidyRequest
  <2> QED BY <2>2, <2>3, <2>4, <2>5 DEF TypeOK, WorkerStates
<1> QED BY <1>1, <1>2, <1>3, <1>4, <1>5, <1>6, <1>7, <1>8, <1>9 DEF RequestStep

-----------------------------------------------------------------------------
\* Polls, and time.

\* What a poll does: it claims rows that nobody claims, and holds just those.
PollDoes(w) ==
  \E due \in SUBSET Items :
    /\ \A i \in due : row[i].live /\ row[i].claim = 0 /\ row'[i].claim = Lease
    /\ \A i \in Items : row'[i].live = row[i].live
    /\ \A i \in Items \ due : row'[i].claim = row[i].claim
    /\ \A v \in Workers \ {w} : wk'[v] = wk[v]
    /\ wk'[w].at = NoItem /\ wk'[w].left = due /\ wk'[w].age = 0
    /\ cleared' = cleared

LEMMA PollStep ==
  ASSUME TInv, NEW w \in Loops, Poll(w)
  PROVE  TInv' /\ PollDoes(w)
<1> DEFINE due == {i \in Items : Claimable(i)}
           copy == [i \in Items |-> IF i \in due THEN ToCopy(i) ELSE NoCopy]
           s == [Idle EXCEPT !.pc = "batch", !.left = due, !.copy = copy]
<1>0. w \in Workers
  BY DEF Workers
<1>1. copy \in [Items -> Copies]
  BY States, Times DEF NoCopy, Copies, Plans, Once
<1>2. Idle \in WorkerStates /\ due \in SUBSET Items
  BY IdleType
<1> HIDE DEF copy
<1>3. s \in WorkerStates /\ s.at = NoItem /\ s.left = due /\ s.age = 0 /\ s.pc = "batch"
  BY <1>1, <1>2 DEF WorkerStates, Pcs, Idle
<1>4. Enter(w, s) /\ ClaimDue(due) /\ UNCHANGED <<family, archived, upsets, asked, posts, raced, cleared>>
  BY DEF Poll, copy
<1>5. marred' \in SUBSET Items
  BY DEF Poll, TInv, TypeOK
<1>6. /\ row' \in [Items -> Rows]
      /\ \A i \in due : row[i].live /\ row[i].claim = 0 /\ row'[i].claim = Lease
      /\ \A i \in Items : row'[i].live = row[i].live
      /\ \A i \in Items \ due : row'[i].claim = row[i].claim
  <2>1. row \in [Items -> Rows] /\ Lease \in 0..Lease
    BY Times DEF TInv, TypeOK
  <2>2. \A i \in due : row[i].live /\ row[i].claim = 0
    BY DEF Claimable
  <2> HIDE DEF due
  <2> QED BY <1>2, <1>4, <2>1, <2>2 DEF ClaimDue, Rows
<1> HIDE DEF due, s
<1>7. NoItem \notin due
  BY <1>2, ItemAssumption
<1>8. /\ wk' \in [Workers -> WorkerStates] /\ At'
      /\ wk'[w] = s /\ \A v \in Workers \ {w} : wk'[v] = wk[v]
  BY <1>0, <1>3, <1>4, <1>7, EnterType
<1>9. PollDoes(w)
  BY <1>2, <1>3, <1>4, <1>6, <1>8 DEF PollDoes
<1> QED BY <1>4, <1>5, <1>6, <1>8, <1>9 DEF TInv, TypeOK, WorkerStates

\* What time does: a claim has one unit less, a copy is one unit older.
TickDoes ==
  /\ \A i \in Items : row'[i].live = row[i].live /\ row'[i].claim = Left(row[i].claim, 1)
  /\ \A w \in Workers :
       /\ wk'[w].at = wk[w].at /\ wk'[w].left = wk[w].left
       /\ wk[w].pc \notin {"idle", "dead"} =>
            wk'[w].age = IF wk[w].age < Limit THEN wk[w].age + 1 ELSE wk[w].age
       /\ wk[w].pc \in {"idle", "dead"} => wk'[w] = wk[w]
  /\ cleared' = cleared

LEMMA TickStep ==
  ASSUME TInv, Tick
  PROVE  TInv' /\ TickDoes
<1>1. /\ row' \in [Items -> Rows]
      /\ \A i \in Items : row'[i].live = row[i].live /\ row'[i].claim = Left(row[i].claim, 1)
  <2>1. \A i \in Items : /\ row[i] \in Rows
                        /\ Left(row[i].due, 1) \in 0..Horizon /\ Left(row[i].claim, 1) \in 0..Lease
    BY LeftType, Times DEF TInv, TypeOK, Rows
  <2> QED BY <2>1 DEF Tick, Rows
<1> DEFINE old(w) == IF wk[w].age < Limit THEN wk[w].age + 1 ELSE wk[w].age
           ran(w) == IF wk[w].pc \in {"run", "answer"} /\ wk[w].ran < Horizon
                     THEN wk[w].ran + 1 ELSE wk[w].ran
           s(w) == [wk[w] EXCEPT !.age = old(w), !.ran = ran(w)]
<1>2. ASSUME NEW w \in Workers
      PROVE  /\ s(w) \in WorkerStates /\ s(w).at = wk[w].at /\ s(w).left = wk[w].left
             /\ s(w).age = old(w) /\ s(w).pc = wk[w].pc /\ wk[w] \in WorkerStates
  <2>1. wk[w] \in WorkerStates
    BY States
  <2>2. old(w) \in 0..Limit /\ ran(w) \in 0..Horizon
    BY <2>1, Times DEF WorkerStates
  <2> HIDE DEF old, ran
  <2> QED BY <2>1, <2>2 DEF WorkerStates
<1>3. wk' = [w \in Workers |-> IF wk[w].pc \in {"idle", "dead"} THEN wk[w] ELSE s(w)]
  BY DEF Tick
<1> HIDE DEF s
<1>4. \A w \in Workers : wk'[w] = IF wk[w].pc \in {"idle", "dead"} THEN wk[w] ELSE s(w)
  BY <1>3
<1>5. wk' \in [Workers -> WorkerStates]
  BY <1>2, <1>3
<1>6. \A w \in Workers : wk'[w].at = wk[w].at /\ wk'[w].left = wk[w].left /\ wk'[w].pc = wk[w].pc
  BY <1>2, <1>4
<1>7. At'
  BY <1>6 DEF TInv, At
<1>8. TickDoes
  <2>1. \A w \in Workers :
          /\ wk[w].pc \notin {"idle", "dead"} => wk'[w].age = old(w)
          /\ wk[w].pc \in {"idle", "dead"} => wk'[w] = wk[w]
    BY <1>2, <1>4
  <2>2. cleared' = cleared
    BY DEF Tick, history
  <2> QED BY <1>1, <1>6, <2>1, <2>2 DEF TickDoes
<1> QED BY <1>1, <1>5, <1>7, <1>8 DEF Tick, TInv, TypeOK, WorkerStates, history

-----------------------------------------------------------------------------
\* The types, and the leases.

LEMMA InitTypes == Init => TInv
<1> SUFFICES ASSUME Init PROVE TInv
  OBVIOUS
<1>1. /\ \A date \in 0..Horizon, plan \in Plans : NextRunFor(plan, date) \in 0..Horizon
      /\ Periods \subseteq Plans
  BY Times DEF NextRunFor, Plans
<1>2. \E plan \in [Items -> Plans], date \in 0..Horizon :
        /\ row = [i \in Items |-> [live |-> TRUE, on |-> TRUE, plan |-> plan[i],
                                   due |-> NextRunFor(plan[i], date), claim |-> 0]]
        /\ asked = [i \in Items |-> [on |-> TRUE, plan |-> plan[i]]]
  <2>1. \A f \in [Items -> IF family = "job" THEN Plans ELSE Periods] : f \in [Items -> Plans]
    BY <1>1
  <2> QED BY <2>1 DEF Init
<1>p. PICK plan \in [Items -> Plans], date \in 0..Horizon :
        /\ row = [i \in Items |-> [live |-> TRUE, on |-> TRUE, plan |-> plan[i],
                                   due |-> NextRunFor(plan[i], date), claim |-> 0]]
        /\ asked = [i \in Items |-> [on |-> TRUE, plan |-> plan[i]]]
  BY <1>2
<1>3. row \in [Items -> Rows]
  <2>1. 0 \in 0..Lease /\ \A i \in Items : plan[i] \in Plans /\ NextRunFor(plan[i], date) \in 0..Horizon
    <3>1. 0 \in 0..Lease
      BY Times
    <3>2. \A i \in Items : plan[i] \in Plans
      OBVIOUS
    <3> QED BY <1>1, <3>1, <3>2
  <2> QED BY <1>p, <2>1 DEF Rows
<1>4. wk \in [Workers -> WorkerStates] /\ At
  BY IdleType DEF Init, At, Idle
<1>5. /\ asked \in [Items -> [on : BOOLEAN, plan : Plans]]
      /\ posts \in [Items -> 0..2] /\ upsets \in 0..MaxUpsets
  BY <1>p, TimeAssumption DEF Init
<1> QED BY <1>3, <1>4, <1>5 DEF Init, TInv, TypeOK, WorkerStates

\* What every step is.
LEMMA NextDoes ==
  ASSUME TInv, [Next]_vars
  PROVE  /\ TInv'
         /\ \/ \E w \in Workers : Tidy(w)
            \/ \E w \in Loops : PollDoes(w)
            \/ TickDoes
            \/ row' = row /\ wk' = wk /\ cleared' = cleared
<1>1. ASSUME NEW w \in Workers, WorkerStep(w) \/ Breaks(w) \/ Crash(w)
      PROVE  TInv' /\ (Tidy(w) \/ (w \in Loops /\ PollDoes(w)))
  BY <1>1, WorkerTidy, PollStep DEF WorkerStep
<1>2. ASSUME NEW w \in Requests, RequestStep(w) PROVE TInv' /\ Tidy(w) /\ w \in Workers
  BY <1>2, RequestTidy DEF Workers
<1>3. ASSUME Archive PROVE TInv' /\ row' = row /\ wk' = wk /\ cleared' = cleared
  BY <1>3, TimeAssumption DEF Archive, Upset, TInv, TypeOK, At, history
<1>4. CASE UNCHANGED vars
  BY <1>4 DEF vars, history, TInv, TypeOK, At
<1> QED BY <1>1, <1>2, <1>3, <1>4, TickStep DEF Next

\* The values rows, workers and histories range over, for any number of rows,
\* processes and requests.
THEOREM TypeCorrect == Spec => []TypeOK
<1>1. TInv /\ [Next]_vars => TInv'
  BY NextDoes
<1>2. TInv => TypeOK
  BY DEF TInv
<1> QED BY <1>1, <1>2, InitTypes, PTL DEF Spec

\* A loop whose copy is younger than the lease has a claim on the row for the
\* rest of it.
LeaseInv ==
  /\ LeaseExclusive
  /\ \A i \in Items \ cleared, w \in Loops :
       Leased(w, i) /\ row[i].live => Lease <= row[i].claim + wk[w].age

LEMMA LeaseStep == ASSUME TInv, LeaseInv, [Next]_vars PROVE LeaseInv'
<1>0. /\ \A w \in Workers : wk[w].age \in Nat /\ wk[w].age <= Limit
      /\ \A i \in Items : row[i].claim \in Nat
      /\ Lease \in Nat \ {0} /\ Limit \in Nat /\ Lease <= Limit /\ Loops \subseteq Workers
  BY States, Times DEF WorkerStates, Rows, Workers
<1>1. ASSUME NEW w \in Workers, Tidy(w) PROVE LeaseInv'
  <2>1. ASSUME NEW i \in Items, i \notin cleared', NEW v \in Loops, Leased(v, i)'
        PROVE  i \in Items \ cleared /\ Leased(v, i) /\ wk'[v].age = wk[v].age
    BY <1>1, <2>1 DEF Tidy, Leased, Held, Workers
  <2>2. LeaseExclusive'
    BY <2>1 DEF LeaseInv, LeaseExclusive
  <2>3. ASSUME NEW i \in Items, i \notin cleared', NEW v \in Loops, Leased(v, i)', row'[i].live
        PROVE  Lease <= row'[i].claim + wk'[v].age
    <3>1. /\ i \in Items \ cleared /\ Leased(v, i) /\ wk'[v].age = wk[v].age
          /\ Lease <= row[i].claim + wk[v].age
      BY <1>1, <2>1, <2>3 DEF LeaseInv, Tidy
    <3>2. row'[i].claim = row[i].claim
      BY <1>0, <1>1, <2>3, <3>1 DEF Tidy
    <3> QED BY <3>1, <3>2
  <2> QED BY <2>2, <2>3 DEF LeaseInv
<1>2. ASSUME NEW w \in Loops, PollDoes(w) PROVE LeaseInv'
  <2>1. PICK due \in SUBSET Items :
          /\ \A i \in due : row[i].live /\ row[i].claim = 0 /\ row'[i].claim = Lease
          /\ \A i \in Items : row'[i].live = row[i].live
          /\ \A i \in Items \ due : row'[i].claim = row[i].claim
          /\ \A v \in Workers \ {w} : wk'[v] = wk[v]
          /\ wk'[w].at = NoItem /\ wk'[w].left = due /\ wk'[w].age = 0
          /\ cleared' = cleared
    BY <1>2 DEF PollDoes
  <2>2. ASSUME NEW i \in due, i \notin cleared, NEW v \in Loops PROVE ~Leased(v, i)
    <3>1. row[i].live /\ row[i].claim = 0 /\ i \in Items
      BY <2>1
    <3>2. Leased(v, i) => Lease <= row[i].claim + wk[v].age
      BY <2>2, <3>1 DEF LeaseInv
    <3> QED BY <1>0, <3>1, <3>2 DEF Leased
  <2>3. ASSUME NEW i \in Items, i \notin cleared', NEW v \in Loops, Leased(v, i)'
        PROVE  IF v = w THEN i \in due ELSE wk'[v] = wk[v] /\ Leased(v, i) /\ i \notin due
    <3>1. CASE v = w
      BY <2>1, <2>3, <3>1 DEF Leased, Held
    <3>2. CASE v # w
      BY <1>0, <2>1, <2>2, <2>3, <3>2 DEF Leased, Held
    <3> QED BY <3>1, <3>2
  <2>4. LeaseExclusive'
    <3> SUFFICES ASSUME NEW i \in Items, i \notin cleared', NEW u \in Loops, NEW v \in Loops,
                        Leased(u, i)', Leased(v, i)'
                 PROVE  u = v
      BY DEF LeaseExclusive
    <3> QED BY <2>1, <2>3 DEF LeaseInv, LeaseExclusive
  <2>5. ASSUME NEW i \in Items, i \notin cleared', NEW v \in Loops, Leased(v, i)', row'[i].live
        PROVE  Lease <= row'[i].claim + wk'[v].age
    <3>1. CASE v = w
      <4>1. i \in due
        BY <2>3, <2>5, <3>1
      <4> QED BY <1>0, <2>1, <3>1, <4>1
    <3>2. CASE v # w
      <4>1. wk'[v] = wk[v] /\ Leased(v, i) /\ i \notin due
        BY <2>3, <2>5, <3>2
      <4> QED BY <2>1, <2>5, <4>1 DEF LeaseInv
    <3> QED BY <3>1, <3>2
  <2> QED BY <2>4, <2>5 DEF LeaseInv
<1>3. ASSUME TickDoes PROVE LeaseInv'
  <2>1. ASSUME NEW i \in Items, i \notin cleared', NEW v \in Loops, Leased(v, i)'
        PROVE  /\ i \in Items \ cleared /\ Leased(v, i)
               /\ wk[v].age < Lease /\ wk'[v].age = wk[v].age + 1
    <3>1. i \in Held(v) /\ wk'[v].age < Lease /\ v \in Workers
      BY <1>0, <1>3, <2>1 DEF TickDoes, Leased, Held
    <3>2. wk[v].pc \notin {"idle", "dead"}
      BY <3>1 DEF TInv, At, Held
    <3>3. wk'[v].age = IF wk[v].age < Limit THEN wk[v].age + 1 ELSE wk[v].age
      BY <1>3, <3>1, <3>2 DEF TickDoes
    <3>4. wk[v].age < Lease /\ wk'[v].age = wk[v].age + 1
      BY <1>0, <3>1, <3>3
    <3> QED BY <1>3, <2>1, <3>1, <3>4 DEF TickDoes, Leased
  <2>2. LeaseExclusive'
    BY <2>1 DEF LeaseInv, LeaseExclusive
  <2>3. ASSUME NEW i \in Items, i \notin cleared', NEW v \in Loops, Leased(v, i)', row'[i].live
        PROVE  Lease <= row'[i].claim + wk'[v].age
    <3>1. Lease <= row[i].claim + wk[v].age
      BY <1>3, <2>1, <2>3 DEF LeaseInv, TickDoes
    <3>2. row'[i].claim = Left(row[i].claim, 1)
      BY <1>3 DEF TickDoes
    <3> QED BY <1>0, <2>1, <2>3, <3>1, <3>2 DEF Left
  <2> QED BY <2>2, <2>3 DEF LeaseInv
<1>4. ASSUME row' = row, wk' = wk, cleared' = cleared PROVE LeaseInv'
  BY <1>4 DEF LeaseInv, LeaseExclusive, Leased, Held
<1> QED BY <1>1, <1>2, <1>3, <1>4, NextDoes

\* Two loops never believe in a lease on one row, with any number of processes,
\* rows and requests and any length of the lease, unless the claim of the first
\* was removed by a third.
THEOREM LeasesExclude == Spec => []LeaseExclusive
<1>1. Init => LeaseInv
  BY DEF Init, LeaseInv, LeaseExclusive, Leased, Held, Idle, Workers
<1>2. TInv /\ LeaseInv /\ [Next]_vars => (TInv /\ LeaseInv)'
  BY NextDoes, LeaseStep
<1>3. LeaseInv => LeaseExclusive
  BY DEF LeaseInv
<1> QED BY <1>1, <1>2, <1>3, InitTypes, PTL DEF Spec

-----------------------------------------------------------------------------
\* What people have written last.

\* What is held, of the rows and of a copy in hand, against what was asked.
WordHeld(w, i) ==
  i \in Held(w) /\ i \notin raced =>
    /\ wk[w].copy[i].plan = asked[i].plan
    /\ Job => asked[i].on
    /\ Flow => wk[w].copy[i].on = asked[i].on

WordOf(i) ==
  row[i].live =>
    /\ Job \/ i \notin raced => row[i].plan = asked[i].plan
    /\ i \notin raced => (row[i].on => asked[i].on) /\ (Flow => row[i].on = asked[i].on)

WordInv ==
  /\ \A i \in Items : WordOf(i)
  /\ \A w \in Workers, i \in Items : WordHeld(w, i)

\* A step in which w takes no copy, and drops some perhaps.
Keeps(w) ==
  /\ \A v \in Workers \ {w} : wk'[v] = wk[v]
  /\ \A i \in Held(w)' : i \in Held(w) /\ wk'[w].copy[i] = wk[w].copy[i]

LEMMA GoOnKeeps ==
  ASSUME TInv, NEW w \in Workers, GoOn(w)
  PROVE  Keeps(w) /\ Held(w)' = wk[w].left /\ wk'[w].at = NoItem
<1> DEFINE s == [wk[w] EXCEPT !.pc = "batch", !.at = NoItem, !.ran = 0]
<1>1. wk[w] \in WorkerStates /\ wk \in [Workers -> WorkerStates] /\ NoItem \notin wk[w].left
  BY States, ItemAssumption DEF TInv, TypeOK, WorkerStates
<1>2. s.at = NoItem /\ s.left = wk[w].left /\ s.copy = wk[w].copy
  BY <1>1 DEF WorkerStates
<1>3. Idle.at = NoItem /\ Idle.left = {}
  BY DEF Idle
<1>4. wk' = [wk EXCEPT ![w] = IF wk[w].left = {} THEN Idle ELSE s]
  BY DEF GoOn, Enter
<1> HIDE DEF s
<1>5. wk'[w] = (IF wk[w].left = {} THEN Idle ELSE s) /\ \A v \in Workers \ {w} : wk'[v] = wk[v]
  BY <1>1, <1>4
<1>6. Held(w)' = wk[w].left /\ wk'[w].at = NoItem
  BY <1>2, <1>3, <1>5 DEF Held
<1> QED BY <1>1, <1>2, <1>5, <1>6 DEF Keeps, Held

\* A worker that drops all it has.
LEMMA IdleKeeps ==
  ASSUME TInv, NEW w \in Workers, NEW s, Enter(w, s), s.at = NoItem, s.left = {}
  PROVE  Keeps(w) /\ Held(w)' = {}
<1>1. wk'[w] = s /\ \A v \in Workers \ {w} : wk'[v] = wk[v]
  BY DEF Enter, TInv, TypeOK
<1>2. Held(w)' = {}
  BY <1>1 DEF Held
<1> QED BY <1>1, <1>2 DEF Keeps

LEMMA IdleHolds ==
  ASSUME TInv, NEW w \in Workers, wk[w].pc \in {"idle", "dead"}
  PROVE  Held(w) = {}
BY DEF TInv, At, Held

\* A step that asks for nothing and takes no copy, but may write the row of a
\* copy it has.
LEMMA WordKept ==
  ASSUME TInv, WordInv, NEW w \in Workers, Keeps(w), UNCHANGED <<family, asked, raced>>,
         \A i \in Items : \/ /\ row'[i].live => row[i].live
                             /\ row'[i].on = row[i].on /\ row'[i].plan = row[i].plan
                          \/ ~row'[i].live
                          \/ WordOf(i)'
  PROVE  WordInv'
<1>1. ASSUME NEW i \in Items PROVE WordOf(i)'
  BY <1>1 DEF WordInv, WordOf, Job, Flow
<1>2. ASSUME NEW v \in Workers, NEW i \in Items PROVE WordHeld(v, i)'
  <2>1. i \in Held(v)' => i \in Held(v) /\ wk'[v].copy[i] = wk[v].copy[i]
    BY DEF Keeps, Held
  <2> QED BY <2>1 DEF WordInv, WordHeld, Job, Flow
<1> QED BY <1>1, <1>2 DEF WordInv

\* A person writes i, and w holds nothing afterwards.
LEMMA WordAsked ==
  ASSUME TInv, WordInv, NEW w \in Workers, NEW i \in Items, NEW on, NEW plan, Ask(w, i, on, plan),
         Keeps(w), Held(w)' = {}, family' = family, \A j \in Items \ {i} : row'[j] = row[j],
         WordOf(i)'
  PROVE  WordInv'
<1>1. /\ asked'[i] = [on |-> on, plan |-> plan] /\ \A j \in Items \ {i} : asked'[j] = asked[j]
      /\ raced \subseteq raced' /\ \A j \in Items \ {i} : j \in raced' => j \in raced
      /\ \A v \in Workers \ {w} : i \in Held(v) => i \in raced'
  <2>1. asked \in [Items -> [on : BOOLEAN, plan : Plans]]
    BY DEF TInv, TypeOK
  <2> QED BY <2>1 DEF Ask, Copied
<1>2. ASSUME NEW j \in Items PROVE WordOf(j)'
  <2>1. CASE j = i
    BY <2>1
  <2>2. CASE j # i
    BY <1>1, <2>2 DEF WordInv, WordOf, Job, Flow
  <2> QED BY <2>1, <2>2
<1>3. ASSUME NEW v \in Workers, NEW j \in Items PROVE WordHeld(v, j)'
  <2>1. j \in Held(v)' => v # w /\ j \in Held(v) /\ wk'[v].copy[j] = wk[v].copy[j]
    BY DEF Keeps, Held
  <2>2. CASE j = i
    BY <1>1, <2>1, <2>2 DEF WordHeld
  <2>3. CASE j # i
    BY <1>1, <2>1, <2>3 DEF WordInv, WordHeld, Job, Flow
  <2> QED BY <2>2, <2>3
<1> QED BY <1>2, <1>3 DEF WordInv

\* A row is read by a worker that holds nothing.
LEMMA WordRead ==
  ASSUME TInv, WordInv, NEW w \in Workers, NEW due \in SUBSET Items,
         \A v \in Workers \ {w} : wk'[v] = wk[v], Held(w)' = due,
         \A i \in due : row[i].live /\ wk'[w].copy[i] = ToCopy(i),
         \A i \in due : Job => asked[i].on \/ i \in raced',
         UNCHANGED <<family, asked>>, raced \subseteq raced',
         \A i \in Items : /\ row'[i].live = row[i].live
                          /\ row'[i].on = row[i].on /\ row'[i].plan = row[i].plan
  PROVE  WordInv'
<1>1. ASSUME NEW i \in Items PROVE WordOf(i)'
  BY <1>1 DEF WordInv, WordOf, Job, Flow
<1>2. ASSUME NEW v \in Workers, NEW i \in Items PROVE WordHeld(v, i)'
  <2>1. CASE v = w
    <3>1. CASE i \in due
      <4>1. wk'[w].copy[i].plan = row[i].plan /\ wk'[w].copy[i].on = row[i].on /\ row[i].live
        <5>1. /\ wk'[w].copy[i] = ToCopy(i) /\ row[i].live
              /\ ToCopy(i).plan = row[i].plan /\ ToCopy(i).on = row[i].on
          BY <3>1 DEF ToCopy
        <5> QED BY <5>1
      <4>2. WordOf(i)
        BY DEF WordInv
      <4>3. i \notin raced' => /\ row[i].plan = asked[i].plan
                               /\ Job => asked[i].on
                               /\ Flow => row[i].on = asked[i].on
        BY <3>1, <4>1, <4>2 DEF WordOf
      <4> QED BY <2>1, <4>1, <4>3 DEF WordHeld, Job, Flow
    <3>2. CASE i \notin due
      BY <2>1, <3>2 DEF WordHeld
    <3> QED BY <3>1, <3>2
  <2>2. CASE v # w
    <3>1. Held(v)' = Held(v) /\ wk'[v] = wk[v]
      BY <2>2 DEF Held
    <3> QED BY <3>1 DEF WordInv, WordHeld, Job, Flow
  <2> QED BY <2>1, <2>2
<1> QED BY <1>1, <1>2 DEF WordInv

\* What is in a row after a write.
LEMMA RecordRow ==
  ASSUME TInv, NEW w \in Workers, NEW i \in Items, NEW on, NEW due, RecordRun(w, i, on, due)
  PROVE  /\ \A j \in Items \ {i} : row'[j] = row[j]
         /\ row'[i].live = row[i].live
         /\ row[i].live => row'[i].on = on /\ row'[i].plan = row[i].plan
<1>1. row \in [Items -> Rows] /\ row[i] \in Rows
  BY DEF TInv, TypeOK
<1>2. row'[i] = (IF row[i].live THEN [row[i] EXCEPT !.on = on, !.due = due, !.claim = 0] ELSE row[i])
      /\ \A j \in Items \ {i} : row'[j] = row[j]
  BY <1>1 DEF RecordRun
<1> QED BY <1>1, <1>2 DEF Rows

LEMMA WriteRow ==
  ASSUME TInv, NEW w \in Workers, NEW i \in Items, NEW on, NEW plan, NEW due,
         WriteFlow(w, i, on, plan, due)
  PROVE  /\ \A j \in Items \ {i} : row'[j] = row[j]
         /\ row'[i].live = row[i].live
         /\ row[i].live => row'[i].on = on /\ row'[i].plan = plan
<1>1. row \in [Items -> Rows] /\ row[i] \in Rows
  BY DEF TInv, TypeOK
<1>2. row'[i] = (IF row[i].live THEN [live |-> TRUE, on |-> on, plan |-> plan, due |-> due, claim |-> 0]
                 ELSE row[i])
      /\ \A j \in Items \ {i} : row'[j] = row[j]
  BY <1>1 DEF WriteFlow
<1>3. CASE row[i].live
  <2>1. row'[i] = [live |-> TRUE, on |-> on, plan |-> plan, due |-> due, claim |-> 0]
    BY <1>2, <1>3, Zenon
  <2>2. row'[i].live = TRUE /\ row'[i].on = on /\ row'[i].plan = plan
    BY <2>1
  <2>3. row[i].live = TRUE
    BY <1>1, <1>3 DEF Rows
  <2> QED BY <1>2, <2>2, <2>3
<1>4. CASE ~row[i].live
  <2>1. row'[i] = row[i]
    BY <1>2, <1>4, Zenon
  <2> QED BY <1>2, <1>4, <2>1
<1> QED BY <1>3, <1>4

LEMMA DeleteRow ==
  ASSUME TInv, NEW i \in Items, Delete(i)
  PROVE  ~row'[i].live /\ \A j \in Items \ {i} : row'[j] = row[j]
BY DeleteType

LEMMA SetRow ==
  ASSUME TInv, NEW i \in Items, NEW on, NEW due, SetEnabled(i, on, due)
  PROVE  /\ \A j \in Items \ {i} : row'[j] = row[j]
         /\ row'[i].live = row[i].live /\ row'[i].on = on /\ row'[i].plan = row[i].plan
<1>1. row \in [Items -> Rows] /\ row[i] \in Rows
  BY DEF TInv, TypeOK
<1> QED BY <1>1 DEF SetEnabled, Rows

LEMMA PlanRow ==
  ASSUME TInv, NEW i \in Items, NEW plan, NEW due, WriteJob(i, plan, due)
  PROVE  /\ \A j \in Items \ {i} : row'[j] = row[j]
         /\ row'[i].live = row[i].live /\ row'[i].on = row[i].on /\ row'[i].plan = plan
<1>1. row \in [Items -> Rows] /\ row[i] \in Rows
  BY DEF TInv, TypeOK
<1> QED BY <1>1 DEF WriteJob, Rows

\* What a poll leaves of on and plan, and what it holds.
LEMMA PollRow ==
  ASSUME TInv, NEW w \in Workers, Poll(w)
  PROVE  \E due \in SUBSET Items :
           /\ due = {i \in Items : Claimable(i)}
           /\ \A v \in Workers \ {w} : wk'[v] = wk[v]
           /\ Held(w)' = due /\ wk'[w].at = NoItem
           /\ \A i \in due : wk'[w].copy[i] = ToCopy(i)
           /\ \A i \in Items : /\ row'[i].live = row[i].live
                               /\ row'[i].on = row[i].on /\ row'[i].plan = row[i].plan
<1> DEFINE due == {i \in Items : Claimable(i)}
           copy == [i \in Items |-> IF i \in due THEN ToCopy(i) ELSE NoCopy]
           s == [Idle EXCEPT !.pc = "batch", !.left = due, !.copy = copy]
<1>1. s.at = NoItem /\ s.left = due /\ s.copy = copy
  BY DEF Idle
<1>2. wk \in [Workers -> WorkerStates] /\ row \in [Items -> Rows] /\ NoItem \notin due
  BY ItemAssumption DEF TInv, TypeOK, WorkerStates
<1>3. wk' = [wk EXCEPT ![w] = s] /\ ClaimDue(due)
  BY DEF Poll, Enter
<1>4. \A i \in due : copy[i] = ToCopy(i)
  OBVIOUS
<1> HIDE DEF copy, s
<1>5. wk'[w] = s /\ \A v \in Workers \ {w} : wk'[v] = wk[v]
  BY <1>2, <1>3
<1>6. Held(w)' = due
  BY <1>1, <1>5 DEF Held
<1>7. \A i \in Items : /\ row'[i].live = row[i].live
                       /\ row'[i].on = row[i].on /\ row'[i].plan = row[i].plan
  <2> HIDE DEF due
  <2> QED BY <1>2, <1>3 DEF ClaimDue, Rows
<1> QED BY <1>1, <1>4, <1>5, <1>6, <1>7

\* Begin and Post keep the copies that are held.
LEMMA BeginKeeps ==
  ASSUME TInv, NEW w \in Workers, NEW i \in Items, Begin(w, i)
  PROVE  /\ Keeps(w) /\ Held(w)' = wk[w].left /\ wk'[w].at = i /\ wk'[w].pc = "run"
         /\ wk[w].at \notin Items => Held(w)' = Held(w)
<1> DEFINE s == [wk[w] EXCEPT !.pc = "run", !.at = i, !.left = wk[w].left \ {i}, !.ran = 0]
<1>1. wk[w] \in WorkerStates /\ wk \in [Workers -> WorkerStates] /\ NoItem \notin Items
  BY States, ItemAssumption DEF TInv, TypeOK, WorkerStates
<1>2. s.at = i /\ s.left = wk[w].left \ {i} /\ s.copy = wk[w].copy /\ s.pc = "run"
  BY <1>1 DEF WorkerStates
<1>3. wk' = [wk EXCEPT ![w] = s] /\ i \in wk[w].left
  BY DEF Begin, Enter
<1> HIDE DEF s
<1>4. wk'[w] = s /\ \A v \in Workers \ {w} : wk'[v] = wk[v]
  BY <1>1, <1>3
<1>5. Held(w)' = wk[w].left
  BY <1>1, <1>2, <1>3, <1>4 DEF Held
<1>6. wk[w].at \notin Items => Held(w) = wk[w].left
  BY <1>1 DEF Held, WorkerStates
<1> QED BY <1>2, <1>4, <1>5, <1>6 DEF Keeps, Held

LEMMA PostKeeps ==
  ASSUME TInv, NEW w \in Workers, Post(w)
  PROVE  /\ Keeps(w) /\ Held(w)' = Held(w) /\ wk[w].at \in Held(w)
         /\ wk'[w].at = wk[w].at /\ wk'[w].pc = "answer"
<1> DEFINE s == [wk[w] EXCEPT !.pc = "answer"]
<1>1. wk[w] \in WorkerStates /\ wk \in [Workers -> WorkerStates] /\ NoItem \notin Items
  BY States, ItemAssumption DEF TInv, TypeOK, WorkerStates
<1>2. s.at = wk[w].at /\ s.left = wk[w].left /\ s.copy = wk[w].copy /\ s.pc = "answer"
  BY <1>1 DEF WorkerStates
<1>3. wk' = [wk EXCEPT ![w] = s] /\ wk[w].at \in Items
  BY DEF Post, Enter, TInv, At
<1> HIDE DEF s
<1>4. wk'[w] = s /\ \A v \in Workers \ {w} : wk'[v] = wk[v]
  BY <1>1, <1>3
<1>5. Held(w)' = Held(w)
  BY <1>2, <1>4 DEF Held
<1> QED BY <1>1, <1>2, <1>3, <1>4, <1>5 DEF Keeps, Held

\* A request takes up one row.
LEMMA TakeOne ==
  ASSUME TInv, NEW w \in Workers, NEW i \in Items, NEW pc,
         Enter(w, [Idle EXCEPT !.pc = pc, !.at = i, !.copy = [Idle.copy EXCEPT ![i] = ToCopy(i)]])
  PROVE  /\ \A v \in Workers \ {w} : wk'[v] = wk[v]
         /\ Held(w)' = {i} /\ wk'[w].copy[i] = ToCopy(i) /\ wk'[w].pc = pc /\ wk'[w].at = i
<1> DEFINE copy == [Idle.copy EXCEPT ![i] = ToCopy(i)]
           s == [Idle EXCEPT !.pc = pc, !.at = i, !.copy = copy]
<1>1. s.at = i /\ s.left = {} /\ s.copy = copy /\ s.pc = pc
  BY DEF Idle
<1>2. copy[i] = ToCopy(i)
  BY DEF Idle
<1>3. wk' = [wk EXCEPT ![w] = s] /\ wk \in [Workers -> WorkerStates]
  BY DEF Enter, TInv, TypeOK, WorkerStates
<1> HIDE DEF copy, s
<1>4. wk'[w] = s /\ \A v \in Workers \ {w} : wk'[v] = wk[v]
  BY <1>3
<1>5. Held(w)' = {i}
  BY <1>1, <1>4, ItemAssumption DEF Held
<1> QED BY <1>1, <1>2, <1>4, <1>5

\* What people wrote, through every step.
LEMMA WordWorker ==
  ASSUME TInv, WordInv, NEW w \in Workers,
         \/ \E i \in Items : Begin(w, i)
         \/ Post(w) \/ JobSucceeds(w) \/ JobFails(w) \/ FlowReturns(w) \/ Breaks(w) \/ Crash(w)
  PROVE  WordInv'
<1>1. ASSUME NEW i \in Items, Begin(w, i) PROVE WordInv'
  BY <1>1, BeginKeeps, WordKept DEF Begin, history
<1>2. CASE Post(w)
  BY <1>2, PostKeeps, WordKept DEF Post
<1>3. ASSUME NEW on, NEW due, RecordRun(w, wk[w].at, on, due), GoOn(w), wk[w].at \in Items, Job,
             \/ on = wk[w].copy[wk[w].at].on
             \/ on = (wk[w].copy[wk[w].at].plan # Once),
             UNCHANGED <<family, asked, raced>>
      PROVE  WordInv'
  <2>i. PICK i \in Items : i = wk[w].at
    BY <1>3
  <2>1. Keeps(w) /\ i \in Held(w)
    BY <1>3, <2>i, GoOnKeeps, ItemAssumption DEF Held
  <2>2. /\ \A j \in Items \ {i} : row'[j] = row[j]
        /\ row'[i].live = row[i].live
        /\ row[i].live => row'[i].on = on /\ row'[i].plan = row[i].plan
    BY <1>3, <2>i, RecordRow
  <2>3. row[i].live => WordOf(i)'
    <3>1. i \notin raced => asked[i].on
      BY <1>3, <2>1 DEF WordInv, WordHeld
    <3>2. row[i].live => row[i].plan = asked[i].plan /\ ~Flow
      BY <1>3 DEF WordInv, WordOf, Job, Flow
    <3> QED BY <1>3, <2>2, <3>1, <3>2 DEF WordOf, Job, Flow
  <2> QED BY <1>3, <2>1, <2>2, <2>3, WordKept
<1>4. CASE JobSucceeds(w)
  BY <1>3, <1>4 DEF JobSucceeds, TInv, At
<1>5. CASE JobFails(w)
  BY <1>3, <1>5 DEF JobFails, TInv, At
<1>6. CASE FlowReturns(w)
  <2>i. PICK i \in Items : i = wk[w].at
    BY <1>6 DEF FlowReturns, TInv, At
  <2>1. GoOn(w) /\ Flow /\ UNCHANGED <<family, asked, raced>>
    BY <1>6 DEF FlowReturns
  <2>2. Keeps(w) /\ i \in Held(w)
    BY <2>i, <2>1, GoOnKeeps, ItemAssumption DEF Held
  <2>3. /\ \A j \in Items \ {i} : row'[j] = row[j]
        /\ row'[i].live = row[i].live
        /\ row[i].live => row'[i].on = wk[w].copy[i].on /\ row'[i].plan = wk[w].copy[i].plan
    BY <1>6, <2>i, WriteRow DEF FlowReturns
  <2>4. row[i].live => WordOf(i)'
    <3>1. i \notin raced => wk[w].copy[i].on = asked[i].on /\ wk[w].copy[i].plan = asked[i].plan
      BY <2>1, <2>2 DEF WordInv, WordHeld
    <3>2. ~Job /\ Flow /\ ~Job'
      BY <2>1 DEF Job, Flow
    <3> QED BY <2>1, <2>3, <3>1, <3>2 DEF WordOf, Flow
  <2> QED BY <2>1, <2>2, <2>3, <2>4, WordKept
<1>7. CASE Breaks(w)
  <2>1. Keeps(w)
    <3>1. CASE Flow
      <4> DEFINE s == [Idle EXCEPT !.pc = "dead"]
      <4>1. s.at = NoItem /\ s.left = {} /\ Enter(w, s)
        BY <1>7, <3>1 DEF Breaks, Idle
      <4> QED BY <4>1, IdleKeeps
    <3>2. CASE ~Flow
      BY <1>7, <3>2, GoOnKeeps DEF Breaks
    <3> QED BY <3>1, <3>2
  <2> QED BY <1>7, <2>1, WordKept DEF Breaks
<1>8. CASE Crash(w)
  <2>1. Keeps(w)
    BY <1>8, IdleKeeps DEF Crash, Idle
  <2> QED BY <1>8, <2>1, WordKept DEF Crash
<1> QED BY <1>1, <1>2, <1>4, <1>5, <1>6, <1>7, <1>8

LEMMA WordRequest ==
  ASSUME TInv, WordInv, NEW w \in Requests, RequestStep(w)
  PROVE  WordInv'
<1>w. w \in Workers
  BY DEF Workers
<1>s. wk' = wk /\ Held(w) = {} => Keeps(w) /\ Held(w)' = {}
  BY DEF Keeps, Held
<1>1. ASSUME NEW i \in Items, RunJob(w, i) PROVE WordInv'
  <2>1. /\ \A v \in Workers \ {w} : wk'[v] = wk[v]
        /\ Held(w)' = {i} /\ wk'[w].copy[i] = ToCopy(i)
    BY <1>1, <1>w, TakeOne DEF RunJob
  <2>2. row[i].live /\ (asked[i].on \/ i \in raced') /\ raced \subseteq raced'
        /\ UNCHANGED <<family, row, asked>>
    BY <1>1 DEF RunJob
  <2> QED BY <1>w, <2>1, <2>2, WordRead
<1>2. ASSUME NEW i \in Items, NEW plan \in Plans, UpdateJob(w, i, plan) PROVE WordInv'
  <2>1. PICK due : WriteJob(i, plan, due)
    BY <1>2 DEF UpdateJob
  <2>2. /\ Job /\ Ask(w, i, asked[i].on, plan) /\ family' = family
        /\ Keeps(w) /\ Held(w)' = {} /\ row[i].live
    BY <1>2, <1>w, <1>s, IdleHolds DEF UpdateJob
  <2>3. /\ \A j \in Items \ {i} : row'[j] = row[j]
        /\ row'[i].live = row[i].live /\ row'[i].on = row[i].on /\ row'[i].plan = plan
    BY <2>1, PlanRow
  <2>4. asked'[i] = [on |-> asked[i].on, plan |-> plan] /\ raced \subseteq raced'
    BY <2>2 DEF Ask, TInv, TypeOK
  <2>5. WordOf(i)'
    BY <2>2, <2>3, <2>4 DEF WordInv, WordOf, Job, Flow
  <2> QED BY <1>w, <2>2, <2>3, <2>5, WordAsked
<1>3. ASSUME NEW i \in Items, NEW on \in BOOLEAN, NEW due, SetEnabled(i, on, due),
             Ask(w, i, on, asked[i].plan), Job, family' = family, wk' = wk, wk[w].pc = "idle"
      PROVE  WordInv'
  <2>1. Keeps(w) /\ Held(w)' = {}
    BY <1>3, <1>w, <1>s, IdleHolds
  <2>2. /\ \A j \in Items \ {i} : row'[j] = row[j]
        /\ row'[i].live = row[i].live /\ row'[i].on = on /\ row'[i].plan = row[i].plan
    BY <1>3, SetRow
  <2>3. asked'[i] = [on |-> on, plan |-> asked[i].plan] /\ raced \subseteq raced'
    BY <1>3 DEF Ask, TInv, TypeOK
  <2>4. WordOf(i)'
    <3>1. row[i].live => row[i].plan = asked[i].plan
      BY <1>3 DEF WordInv, WordOf
    <3>2. ~Flow /\ ~Flow' /\ asked'[i].on = on /\ asked'[i].plan = asked[i].plan
      BY <1>3, <2>3 DEF Job, Flow
    <3> QED BY <2>2, <3>1, <3>2 DEF WordOf
  <2> QED BY <1>3, <1>w, <2>1, <2>2, <2>4, WordAsked
<1>4. ASSUME NEW i \in Items, PauseJob(w, i) PROVE WordInv'
  BY <1>3, <1>4 DEF PauseJob
<1>5. ASSUME NEW i \in Items, ResumeJob(w, i) PROVE WordInv'
  BY <1>3, <1>5 DEF ResumeJob
<1>6. ASSUME NEW i \in Items, Delete(i), Keeps(w), UNCHANGED <<family, asked, raced>> PROVE WordInv'
  BY <1>6, <1>w, DeleteRow, WordKept
<1>7. ASSUME NEW i \in Items, DeleteJob(w, i) PROVE WordInv'
  BY <1>6, <1>7 DEF DeleteJob, Keeps, Held, history
<1>8. ASSUME NEW i \in Items, ReadFlow(w, i) PROVE WordInv'
  <2>1. /\ \A v \in Workers \ {w} : wk'[v] = wk[v]
        /\ Held(w)' = {i} /\ wk'[w].copy[i] = ToCopy(i)
    BY <1>8, <1>w, TakeOne DEF ReadFlow
  <2>2. row[i].live /\ ~Job /\ raced \subseteq raced' /\ UNCHANGED <<family, row, asked>>
    BY <1>8 DEF ReadFlow, history, Job, Flow
  <2> QED BY <1>w, <2>1, <2>2, WordRead
<1>9. ASSUME NEW on \in BOOLEAN, NEW plan, NEW askedPlan, NEW due, wk[w].at \in Items,
             WriteFlow(w, wk[w].at, on, plan, due), Ask(w, wk[w].at, on, askedPlan), Enter(w, Idle),
             wk[w].at \notin raced => plan = askedPlan,
             Flow, family' = family
      PROVE  WordInv'
  <2>i. PICK i \in Items : i = wk[w].at
    BY <1>9
  <2>1. Keeps(w) /\ Held(w)' = {}
    BY <1>9, <1>w, IdleKeeps DEF Idle
  <2>2. /\ \A j \in Items \ {i} : row'[j] = row[j]
        /\ row'[i].live = row[i].live
        /\ row[i].live => row'[i].on = on /\ row'[i].plan = plan
    BY <1>9, <1>w, <2>i, WriteRow
  <2>3. asked'[i] = [on |-> on, plan |-> askedPlan] /\ raced \subseteq raced'
    BY <1>9, <2>i DEF Ask, TInv, TypeOK
  <2>4. ~Job' /\ Flow'
    BY <1>9 DEF Job, Flow
  <2>5. WordOf(i)'
    BY <1>9, <2>i, <2>2, <2>3, <2>4 DEF WordOf
  <2> QED BY <1>9, <1>w, <2>i, <2>1, <2>2, <2>5, WordAsked
<1>10. ASSUME NEW on \in BOOLEAN, NEW plan \in Periods, UpdateFlow(w, on, plan) PROVE WordInv'
  BY <1>9, <1>10, <1>w DEF UpdateFlow, TInv, At
<1>11. ASSUME NEW on \in BOOLEAN, EnableFlow(w, on) PROVE WordInv'
  <2>1. wk[w].at \in Items /\ wk[w].at \in Held(w)
    BY <1>11, <1>w, ItemAssumption DEF EnableFlow, TInv, At, Held
  <2>2. wk[w].at \notin raced => wk[w].copy[wk[w].at].plan = asked[wk[w].at].plan
    BY <1>w, <2>1 DEF WordInv, WordHeld
  <2> QED BY <1>9, <1>11, <2>1, <2>2 DEF EnableFlow
<1>12. CASE DeleteFlow(w)
  <2>1. wk[w].at \in Items /\ Keeps(w)
    BY <1>12, <1>w, IdleKeeps DEF DeleteFlow, Idle, TInv, At
  <2> QED BY <1>6, <1>12, <2>1 DEF DeleteFlow, history
<1> QED BY <1>1, <1>2, <1>4, <1>5, <1>7, <1>8, <1>10, <1>11, <1>12 DEF RequestStep

\* Time, the archive and a stutter leave copies and rows as they are.
LEMMA TickRow ==
  ASSUME TInv, Tick
  PROVE  /\ \A i \in Items : /\ row'[i].live = row[i].live
                             /\ row'[i].on = row[i].on /\ row'[i].plan = row[i].plan
         /\ \A w \in Workers : /\ wk'[w].at = wk[w].at /\ wk'[w].pc = wk[w].pc
                               /\ wk'[w].copy = wk[w].copy /\ Held(w)' = Held(w)
         /\ UNCHANGED <<family, asked, posts, raced, marred>>
<1>1. \A i \in Items : row[i] \in Rows /\ row'[i] = [row[i] EXCEPT !.due = Left(@, 1), !.claim = Left(@, 1)]
  BY DEF Tick, TInv, TypeOK
<1>2. \A i \in Items : /\ row'[i].live = row[i].live
                       /\ row'[i].on = row[i].on /\ row'[i].plan = row[i].plan
  BY <1>1 DEF Rows
<1>3. ASSUME NEW w \in Workers
      PROVE  /\ wk'[w].at = wk[w].at /\ wk'[w].left = wk[w].left
             /\ wk'[w].pc = wk[w].pc /\ wk'[w].copy = wk[w].copy
  <2>1. wk[w] \in WorkerStates
    BY States
  <2>2. \/ wk'[w] = wk[w]
        \/ \E age, ran : wk'[w] = [wk[w] EXCEPT !.age = age, !.ran = ran]
    BY DEF Tick
  <2> QED BY <2>1, <2>2 DEF WorkerStates
<1> QED BY <1>2, <1>3 DEF Tick, history, Held

LEMMA WordStep == ASSUME TInv, WordInv, [Next]_vars PROVE WordInv'
<1>1. ASSUME NEW w \in Loops, Poll(w) PROVE WordInv'
  <2>w. w \in Workers
    BY DEF Workers
  <2>1. PICK due \in SUBSET Items :
          /\ due = {i \in Items : Claimable(i)}
          /\ \A v \in Workers \ {w} : wk'[v] = wk[v]
          /\ Held(w)' = due /\ wk'[w].at = NoItem
          /\ \A i \in due : wk'[w].copy[i] = ToCopy(i)
          /\ \A i \in Items : /\ row'[i].live = row[i].live
                              /\ row'[i].on = row[i].on /\ row'[i].plan = row[i].plan
    BY <1>1, <2>w, PollRow
  <2>2. UNCHANGED <<family, asked, raced>>
    BY <1>1 DEF Poll
  <2>3. \A i \in due : row[i].live /\ (asked[i].on \/ i \in raced')
    BY <2>1, <2>2 DEF Claimable, WordInv, WordOf
  <2> QED BY <2>w, <2>1, <2>2, <2>3, WordRead
<1>2. ASSUME NEW w \in Workers, WorkerStep(w) \/ Breaks(w) \/ Crash(w) PROVE WordInv'
  BY <1>1, <1>2, WordWorker DEF WorkerStep
<1>3. CASE Tick
  BY <1>3, TickRow DEF WordInv, WordOf, WordHeld, Job, Flow
<1>4. CASE Archive
  BY <1>4 DEF Archive, history, WordInv, WordOf, WordHeld, Held, Job, Flow
<1>5. CASE UNCHANGED vars
  BY <1>5 DEF vars, history, WordInv, WordOf, WordHeld, Held, Job, Flow
<1> QED BY <1>2, <1>3, <1>4, <1>5, WordRequest DEF Next

LEMMA WordInit == Init => WordInv
<1> SUFFICES ASSUME Init PROVE WordInv
  OBVIOUS
<1>1. PICK plan \in [Items -> IF family = "job" THEN Plans ELSE Periods], date \in 0..Horizon :
        /\ row = [i \in Items |-> [live |-> TRUE, on |-> TRUE, plan |-> plan[i],
                                   due |-> NextRunFor(plan[i], date), claim |-> 0]]
        /\ asked = [i \in Items |-> [on |-> TRUE, plan |-> plan[i]]]
  BY DEF Init
<1> DEFINE r(i) == [live |-> TRUE, on |-> TRUE, plan |-> plan[i],
                    due |-> NextRunFor(plan[i], date), claim |-> 0]
           a(i) == [on |-> TRUE, plan |-> plan[i]]
<1>2. \A i \in Items : row[i].on = asked[i].on /\ row[i].plan = asked[i].plan
  <2>1. \A i : r(i).on = a(i).on /\ r(i).plan = a(i).plan
    OBVIOUS
  <2>2. row = [i \in Items |-> r(i)] /\ asked = [i \in Items |-> a(i)]
    BY <1>1
  <2> HIDE DEF r, a
  <2>3. \A i \in Items : row[i] = r(i) /\ asked[i] = a(i)
    BY <2>2
  <2> QED BY <2>1, <2>3
<1>3. \A w \in Workers : Held(w) = {}
  BY DEF Init, Idle, Held
<1> QED BY <1>2, <1>3 DEF WordInv, WordOf, WordHeld

\* What a person wrote last of a row stands, for any number of rows, loops and
\* requests, unless somebody had an older copy in hand.
THEOREM WordsStand == Spec => []WordStands
<1>1. TInv /\ WordInv /\ [Next]_vars => (TInv /\ WordInv)'
  BY NextDoes, WordStep
<1>2. WordInv => WordStands
  BY DEF WordInv, WordOf, WordStands
<1> QED BY <1>1, <1>2, InitTypes, WordInit, PTL DEF Spec

-----------------------------------------------------------------------------
\* What is posted.

\* w has a copy of i and has not posted it.
Unposted(w, i) == i \in Held(w) /\ (wk[w].at = i => wk[w].pc = "run")

\* One copy at a time; no post before there is a copy, one until the next arming.
Armed(i) ==
  /\ \A v, w \in Workers : i \in Held(v) /\ i \in Held(w) => v = w
  /\ row[i].live /\ asked[i].plan = Once =>
       /\ posts[i] \in {0, 1}
       /\ row[i].on /\ Copied(i) = {} => posts[i] = 0
       /\ \A w \in Workers : Unposted(w, i) => posts[i] = 0

Batch == \A w \in Workers : wk[w].pc = "batch" => wk[w].at = NoItem

PostsInv == Batch /\ (Job => \A i \in Items \ (marred \union raced) : Armed(i))

LEMMA PostsGrow ==
  ASSUME TInv, [Next]_vars
  PROVE  marred \subseteq marred' /\ raced \subseteq raced' /\ family' = family
BY DEF Next, WorkerStep, RequestStep, Poll, Begin, Post, JobSucceeds, JobFails, FlowReturns,
       Breaks, Crash, RunJob, UpdateJob, PauseJob, ResumeJob, DeleteJob, ReadFlow, UpdateFlow,
       EnableFlow, DeleteFlow, Archive, Tick, Ask, vars, history

\* A step that arms nothing and posts nothing of i.
LEMMA ArmedKept ==
  ASSUME TInv, NEW w \in Workers, NEW i \in Items, Armed(i), Keeps(w),
         asked'[i] = asked[i], posts'[i] = posts[i], row'[i].live => row[i].live,
         Unposted(w, i)' => Unposted(w, i),
         row'[i].live /\ asked[i].plan = Once /\ row'[i].on /\ Copied(i)' = {} => posts[i] = 0
  PROVE  Armed(i)'
<1>1. ASSUME NEW v \in Workers
      PROVE  (i \in Held(v)' => i \in Held(v)) /\ (Unposted(v, i)' => Unposted(v, i))
  BY DEF Keeps, Held, Unposted
<1>2. \A u, v \in Workers : i \in Held(u)' /\ i \in Held(v)' => u = v
  BY <1>1 DEF Armed
<1>3. ASSUME row'[i].live, asked'[i].plan = Once
      PROVE  /\ posts'[i] \in {0, 1}
             /\ row'[i].on /\ Copied(i)' = {} => posts'[i] = 0
             /\ \A v \in Workers : Unposted(v, i)' => posts'[i] = 0
  BY <1>1, <1>3 DEF Armed
<1> QED BY <1>2, <1>3 DEF Armed

\* ... because the row and the copies of i stay.
LEMMA ArmedSame ==
  ASSUME TInv, NEW w \in Workers, NEW i \in Items, Armed(i), Keeps(w),
         asked'[i] = asked[i], posts'[i] = posts[i],
         row'[i].live => row[i].live, row'[i].live => row'[i].on = row[i].on,
         i \in Held(w)' <=> i \in Held(w),
         Unposted(w, i)' => Unposted(w, i)
  PROVE  Armed(i)'
<1>1. Copied(i)' = Copied(i)
  BY DEF Keeps, Copied, Held
<1>2. row'[i].live /\ asked[i].plan = Once /\ row'[i].on /\ Copied(i)' = {} => posts[i] = 0
  BY <1>1 DEF Armed
<1> QED BY <1>2, ArmedKept

\* A page arms i again, turns it off or deletes it.
LEMMA ArmedAgain ==
  ASSUME TInv, NEW i \in Items, Armed(i), wk' = wk, row'[i].live => row[i].live,
         \/ posts'[i] = 0
         \/ ~row'[i].live
         \/ row'[i].on = FALSE /\ posts'[i] = posts[i] /\ asked'[i].plan = asked[i].plan
  PROVE  Armed(i)'
<1>1. \A v \in Workers : Held(v)' = Held(v) /\ (Unposted(v, i)' <=> Unposted(v, i))
  BY DEF Held, Unposted
<1>2. \A u, v \in Workers : i \in Held(u)' /\ i \in Held(v)' => u = v
  BY <1>1 DEF Armed
<1>3. ASSUME row'[i].live, asked'[i].plan = Once
      PROVE  /\ posts'[i] \in {0, 1}
             /\ row'[i].on /\ Copied(i)' = {} => posts'[i] = 0
             /\ \A v \in Workers : Unposted(v, i)' => posts'[i] = 0
  BY <1>1, <1>3 DEF Armed
<1> QED BY <1>2, <1>3 DEF Armed

\* The end of the run of one row, of whatever kind.
LEMMA ArmedOn ==
  ASSUME TInv, NEW w \in Workers, GoOn(w), NEW i \in Items, i # wk[w].at, Armed(i),
         asked'[i] = asked[i], posts'[i] = posts[i], row'[i] = row[i]
  PROVE  Armed(i)'
<1>1. Keeps(w) /\ Held(w)' = wk[w].left /\ wk'[w].at = NoItem
  BY GoOnKeeps
<1>2. i \in Held(w)' <=> i \in Held(w)
  BY <1>1 DEF Held
<1>3. Unposted(w, i)' => Unposted(w, i)
  BY <1>2 DEF Unposted
<1> QED BY <1>1, <1>2, <1>3, ArmedSame

LEMMA BatchStep == ASSUME TInv, Batch, [Next]_vars PROVE Batch'
<1>e. ASSUME NEW w \in Workers, NEW s, Enter(w, s), s.pc = "batch" => s.at = NoItem
      PROVE  Batch'
  <2>1. wk'[w] = s /\ \A v \in Workers \ {w} : wk'[v] = wk[v]
    BY <1>e DEF Enter, TInv, TypeOK
  <2> QED BY <1>e, <2>1 DEF Batch
<1>g. ASSUME NEW w \in Workers, GoOn(w) PROVE Batch'
  <2>1. wk'[w].at = NoItem /\ \A v \in Workers \ {w} : wk'[v] = wk[v]
    BY <1>g, GoOnType
  <2> QED BY <2>1 DEF Batch
<1>s. wk' = wk => Batch'
  BY DEF Batch
<1>1. ASSUME NEW w \in Workers, WorkerStep(w) \/ Breaks(w) \/ Crash(w) PROVE Batch'
  <2>1. CASE Poll(w)
    <3>1. wk'[w].at = NoItem /\ \A v \in Workers \ {w} : wk'[v] = wk[v]
      BY <2>1, PollRow
    <3> QED BY <3>1 DEF Batch
  <2>2. ASSUME NEW i \in Items, Begin(w, i) PROVE Batch'
    <3>1. wk'[w].pc = "run" /\ \A v \in Workers \ {w} : wk'[v] = wk[v]
      BY <2>2, BeginKeeps DEF Keeps
    <3> QED BY <3>1 DEF Batch
  <2>3. CASE Post(w)
    <3>1. wk'[w].pc = "answer" /\ \A v \in Workers \ {w} : wk'[v] = wk[v]
      BY <2>3, PostKeeps DEF Keeps
    <3> QED BY <3>1 DEF Batch
  <2>4. CASE JobSucceeds(w) \/ JobFails(w) \/ FlowReturns(w)
    BY <1>g, <2>4 DEF JobSucceeds, JobFails, FlowReturns
  <2>5. CASE Breaks(w)
    <3>1. CASE Flow
      <4> DEFINE s == [Idle EXCEPT !.pc = "dead"]
      <4>1. s.at = NoItem /\ Enter(w, s)
        BY <2>5, <3>1 DEF Breaks, Idle
      <4> QED BY <1>e, <4>1
    <3> QED BY <1>g, <2>5, <3>1 DEF Breaks
  <2>6. CASE Crash(w)
    BY <1>e, <2>6 DEF Crash, Idle
  <2> QED BY <1>1, <2>1, <2>2, <2>3, <2>4, <2>5, <2>6 DEF WorkerStep
<1>2. ASSUME NEW w \in Requests, RequestStep(w) PROVE Batch'
  <2>w. w \in Workers
    BY DEF Workers
  <2>1. ASSUME NEW i \in Items, RunJob(w, i) \/ ReadFlow(w, i) PROVE Batch'
    <3>1. PICK pc \in {"run", "edit"} :
            Enter(w, [Idle EXCEPT !.pc = pc, !.at = i, !.copy = [Idle.copy EXCEPT ![i] = ToCopy(i)]])
      BY <2>1 DEF RunJob, ReadFlow
    <3>2. wk'[w].pc = pc /\ \A v \in Workers \ {w} : wk'[v] = wk[v]
      BY <2>w, <3>1, TakeOne
    <3> QED BY <3>2 DEF Batch
  <2>2. Idle.at = NoItem
    BY DEF Idle
  <2>3. ASSUME NEW i \in Items,
               \/ \E plan \in Plans : UpdateJob(w, i, plan)
               \/ PauseJob(w, i) \/ ResumeJob(w, i) \/ DeleteJob(w, i)
        PROVE  Batch'
    BY <1>s, <2>3 DEF UpdateJob, PauseJob, ResumeJob, DeleteJob
  <2>4. ASSUME \/ \E on \in BOOLEAN, plan \in Periods : UpdateFlow(w, on, plan)
               \/ \E on \in BOOLEAN : EnableFlow(w, on)
               \/ DeleteFlow(w)
        PROVE  Batch'
    BY <1>e, <2>w, <2>2, <2>4 DEF UpdateFlow, EnableFlow, DeleteFlow
  <2> QED BY <1>2, <2>1, <2>3, <2>4 DEF RequestStep
<1>3. CASE Tick
  BY <1>3, TickRow DEF Batch
<1>4. CASE Archive \/ UNCHANGED vars
  BY <1>s, <1>4 DEF Archive, vars
<1> QED BY <1>1, <1>2, <1>3, <1>4 DEF Next

LEMMA PostsWorker ==
  ASSUME TInv, WordInv, PostsInv, NEW w \in Workers, WorkerStep(w) \/ Breaks(w) \/ Crash(w),
         NEW i \in Items, Armed(i), Job, i \notin marred', i \notin raced
  PROVE  Armed(i)'
<1>1. CASE Poll(w)
  <2>1. PICK due \in SUBSET Items :
          /\ due = {j \in Items : Claimable(j)}
          /\ \A v \in Workers \ {w} : wk'[v] = wk[v]
          /\ Held(w)' = due /\ wk'[w].at = NoItem
          /\ \A j \in due : wk'[w].copy[j] = ToCopy(j)
          /\ \A j \in Items : /\ row'[j].live = row[j].live
                              /\ row'[j].on = row[j].on /\ row'[j].plan = row[j].plan
    BY <1>1, PollRow
  <2>2. Held(w) = {} /\ UNCHANGED <<asked, posts>>
    BY <1>1, IdleHolds DEF Poll
  <2>3. \A v \in Workers \ {w} : Held(v)' = Held(v) /\ (Unposted(v, i)' <=> Unposted(v, i))
    BY <2>1 DEF Held, Unposted
  <2>4. CASE i \in due
    <3>1. Copied(i) = {} /\ row[i].live /\ row[i].on
      BY <1>1, <2>1, <2>4 DEF Poll, Claimable
    <3>2. \A v \in Workers \ {w} : i \notin Held(v)'
      BY <2>3, <3>1 DEF Copied
    <3>3. \A u, v \in Workers : i \in Held(u)' /\ i \in Held(v)' => u = v
      BY <3>2
    <3>4. asked[i].plan = Once => posts[i] = 0
      BY <3>1 DEF Armed
    <3> QED BY <2>2, <3>3, <3>4 DEF Armed
  <2>5. CASE i \notin due
    <3>1. i \notin Held(w)' /\ i \notin Held(w)
      BY <2>1, <2>2, <2>5
    <3>2. Copied(i)' = Copied(i)
      BY <2>3, <3>1 DEF Copied
    <3>3. ~Unposted(w, i)'
      BY <3>1 DEF Unposted
    <3>4. \A v \in Workers : /\ i \in Held(v)' => i \in Held(v)
                             /\ Unposted(v, i)' => Unposted(v, i)
      BY <2>3, <3>1, <3>3
    <3> QED BY <2>1, <2>2, <3>2, <3>4 DEF Armed
  <2> QED BY <2>4, <2>5
<1>2. ASSUME NEW j \in Items, Begin(w, j) PROVE Armed(i)'
  <2>1. wk[w].at = NoItem /\ NoItem \notin Items
    BY <1>2, ItemAssumption DEF Begin, PostsInv, Batch
  <2>2. Keeps(w) /\ Held(w)' = Held(w)
    BY <1>2, <2>1, BeginKeeps
  <2>3. Unposted(w, i)' => Unposted(w, i)
    BY <2>1, <2>2 DEF Unposted
  <2> QED BY <1>2, <2>2, <2>3, ArmedSame DEF Begin, history
<1>3. CASE Post(w)
  <2>1. /\ Keeps(w) /\ Held(w)' = Held(w) /\ wk[w].at \in Held(w) /\ wk[w].pc = "run"
        /\ wk'[w].at = wk[w].at /\ wk'[w].pc = "answer" /\ wk[w].at \in Items
    BY <1>3, PostKeeps DEF Post, TInv, At
  <2>2. posts' = [posts EXCEPT ![wk[w].at] = IF @ < 2 THEN @ + 1 ELSE @] /\ UNCHANGED <<row, asked>>
    BY <1>3 DEF Post
  <2>3. CASE i = wk[w].at
    <3>1. \A v \in Workers : (i \in Held(v)' => i \in Held(v)) /\ (Unposted(v, i)' => Unposted(v, i))
      BY <2>1 DEF Keeps, Held, Unposted
    <3>2. \A v \in Workers : i \in Held(v) => v = w
      BY <2>1, <2>3 DEF Armed
    <3>3. ~Unposted(w, i)'
      BY <2>1, <2>3 DEF Unposted
    <3>4. w \in Copied(i)' /\ Unposted(w, i)
      BY <2>1, <2>3 DEF Copied, Unposted
    <3>5. posts'[i] = IF posts[i] < 2 THEN posts[i] + 1 ELSE posts[i]
      BY <2>2, <2>3 DEF TInv, TypeOK
    <3>6. ASSUME row'[i].live, asked'[i].plan = Once
          PROVE  posts'[i] = 1 /\ \A v \in Workers : ~Unposted(v, i)'
      <4>1. posts[i] = 0
        BY <2>2, <3>4, <3>6 DEF Armed
      <4>2. \A v \in Workers : ~Unposted(v, i)'
        BY <3>1, <3>2, <3>3 DEF Unposted
      <4> QED BY <3>5, <4>1, <4>2
    <3>7. \A u, v \in Workers : i \in Held(u)' /\ i \in Held(v)' => u = v
      BY <3>1, <3>2
    <3> QED BY <3>4, <3>6, <3>7 DEF Armed
  <2>4. CASE i # wk[w].at
    <3>1. posts'[i] = posts[i] /\ (Unposted(w, i)' => Unposted(w, i))
      BY <2>1, <2>2, <2>4 DEF TInv, TypeOK, Unposted
    <3> QED BY <2>1, <2>2, <3>1, ArmedSame
  <2> QED BY <2>3, <2>4
<1>4. CASE JobSucceeds(w)
  <2>1. wk[w].at \in Items /\ GoOn(w) /\ UNCHANGED <<asked, posts>>
    BY <1>4 DEF JobSucceeds, TInv, At
  <2>2. PICK due : RecordRun(w, wk[w].at, wk[w].copy[wk[w].at].plan # Once, due)
    BY <1>4 DEF JobSucceeds
  <2>3. CASE i = wk[w].at
    <3>1. Keeps(w) /\ Held(w)' = wk[w].left /\ i \in Held(w) /\ i \notin wk[w].left
      BY <2>1, <2>3, GoOnKeeps, ItemAssumption DEF Held, TInv, At
    <3>2. wk[w].copy[i].plan = asked[i].plan
      BY <3>1 DEF WordInv, WordHeld
    <3>3. /\ row'[i].live = row[i].live
          /\ row[i].live => row'[i].on = (wk[w].copy[i].plan # Once)
      BY <2>2, <2>3, RecordRow
    <3>4. ~Unposted(w, i)'
      BY <3>1 DEF Unposted
    <3> QED BY <2>1, <3>1, <3>2, <3>3, <3>4, ArmedKept
  <2>4. CASE i # wk[w].at
    <3>1. row'[i] = row[i]
      BY <2>1, <2>2, <2>4, RecordRow
    <3> QED BY <2>1, <2>4, <3>1, ArmedOn
  <2> QED BY <2>3, <2>4
<1>5. CASE JobFails(w)
  <2>1. wk[w].at \in Items /\ GoOn(w) /\ UNCHANGED <<asked, posts>> /\ i # wk[w].at
    BY <1>5 DEF JobFails, TInv, At
  <2>2. PICK on, due : RecordRun(w, wk[w].at, on, due)
    BY <1>5 DEF JobFails
  <2>3. row'[i] = row[i]
    BY <2>1, <2>2, RecordRow
  <2> QED BY <2>1, <2>3, ArmedOn
<1>6. CASE Breaks(w)
  <2>1. GoOn(w) /\ UNCHANGED <<row, asked, posts>> /\ i # wk[w].at
    BY <1>6 DEF Breaks, Job, Flow
  <2> QED BY <2>1, ArmedOn
<1>7. CASE Crash(w)
  <2>1. Keeps(w) /\ Held(w)' = {} /\ i \notin Held(w) /\ UNCHANGED <<row, asked, posts>>
    BY <1>7, IdleKeeps DEF Crash, Idle
  <2> QED BY <2>1, ArmedSame DEF Unposted
<1>8. ~FlowReturns(w)
  BY DEF FlowReturns, Job, Flow
<1> QED BY <1>1, <1>2, <1>3, <1>4, <1>5, <1>6, <1>7, <1>8 DEF WorkerStep

LEMMA PostsRequest ==
  ASSUME TInv, PostsInv, NEW w \in Requests, RequestStep(w),
         NEW i \in Items, Armed(i), Job, i \notin marred'
  PROVE  Armed(i)'
<1>w. w \in Workers
  BY DEF Workers
<1>a. asked \in [Items -> [on : BOOLEAN, plan : Plans]] /\ posts \in [Items -> 0..2]
  BY DEF TInv, TypeOK
<1>k. wk' = wk => Keeps(w) /\ Held(w)' = Held(w) /\ (Unposted(w, i)' <=> Unposted(w, i))
  BY DEF Keeps, Held, Unposted
<1>1. ASSUME NEW j \in Items, RunJob(w, j) PROVE Armed(i)'
  <2>1. i # j /\ Held(w) = {} /\ UNCHANGED <<row, asked, posts>>
    BY <1>1, <1>w, IdleHolds DEF RunJob
  <2>2. \A v \in Workers \ {w} : wk'[v] = wk[v]
    BY <1>1, <1>w, TakeOne DEF RunJob
  <2>3. i \notin Held(w)' /\ i \notin Held(w)
    BY <1>1, <1>w, <2>1, TakeOne DEF RunJob
  <2>4. \A v \in Workers : (i \in Held(v)' <=> i \in Held(v)) /\ (Unposted(v, i)' <=> Unposted(v, i))
    BY <2>2, <2>3 DEF Held, Unposted
  <2>5. Copied(i)' = Copied(i)
    BY <2>4 DEF Copied
  <2> QED BY <2>1, <2>4, <2>5 DEF Armed
<1>2. ASSUME NEW j \in Items, NEW plan \in Plans, UpdateJob(w, j, plan) PROVE Armed(i)'
  <2>1. PICK due : WriteJob(j, plan, due)
    BY <1>2 DEF UpdateJob
  <2>2. /\ \A k \in Items \ {j} : row'[k] = row[k] /\ asked'[k] = asked[k] /\ posts'[k] = posts[k]
        /\ row'[j].live = row[j].live /\ posts'[j] = 0 /\ wk' = wk
    BY <1>2, <1>a, <2>1, PlanRow DEF UpdateJob, Ask
  <2>3. CASE i = j
    BY <2>2, <2>3, ArmedAgain
  <2>4. CASE i # j
    BY <1>w, <1>k, <2>2, <2>4, ArmedSame
  <2> QED BY <2>3, <2>4
<1>3. ASSUME NEW j \in Items, PauseJob(w, j) PROVE Armed(i)'
  <2>1. /\ \A k \in Items \ {j} : row'[k] = row[k] /\ asked'[k] = asked[k]
        /\ row'[j].live = row[j].live /\ row'[j].on = FALSE
        /\ asked'[j].plan = asked[j].plan /\ posts' = posts /\ wk' = wk
    BY <1>3, <1>a, SetRow DEF PauseJob, Ask
  <2>2. CASE i = j
    BY <2>1, <2>2, ArmedAgain
  <2>3. CASE i # j
    BY <1>w, <1>k, <2>1, <2>3, ArmedSame
  <2> QED BY <2>2, <2>3
<1>4. ASSUME NEW j \in Items, ResumeJob(w, j) PROVE Armed(i)'
  <2>1. SetEnabled(j, TRUE, NextRunFor(row[j].plan, row[j].due))
    BY <1>4 DEF ResumeJob
  <2>2. /\ \A k \in Items \ {j} : row'[k] = row[k] /\ asked'[k] = asked[k] /\ posts'[k] = posts[k]
        /\ row'[j].live = row[j].live /\ posts'[j] = 0 /\ wk' = wk
    BY <1>4, <1>a, <2>1, SetRow DEF ResumeJob, Ask
  <2>3. CASE i = j
    BY <2>2, <2>3, ArmedAgain
  <2>4. CASE i # j
    BY <1>w, <1>k, <2>2, <2>4, ArmedSame
  <2> QED BY <2>3, <2>4
<1>5. ASSUME NEW j \in Items, DeleteJob(w, j) PROVE Armed(i)'
  <2>1. /\ \A k \in Items \ {j} : row'[k] = row[k]
        /\ ~row'[j].live /\ asked' = asked /\ posts' = posts /\ wk' = wk
    BY <1>5, DeleteRow DEF DeleteJob, history
  <2>2. CASE i = j
    BY <2>1, <2>2, ArmedAgain
  <2>3. CASE i # j
    BY <1>w, <1>k, <2>1, <2>3, ArmedSame
  <2> QED BY <2>2, <2>3
<1>6. ~Flow
  BY DEF Job, Flow
<1> QED BY <1>1, <1>2, <1>3, <1>4, <1>5, <1>6 DEF RequestStep, ReadFlow, UpdateFlow, EnableFlow, DeleteFlow

LEMMA PostsStep == ASSUME TInv, WordInv, PostsInv, [Next]_vars PROVE PostsInv'
<1>1. ASSUME Job, NEW i \in Items, i \notin marred', i \notin raced' PROVE Armed(i)'
  <2>1. i \notin marred /\ i \notin raced /\ Armed(i)
    BY <1>1, PostsGrow DEF PostsInv
  <2>2. ASSUME NEW w \in Workers, WorkerStep(w) \/ Breaks(w) \/ Crash(w) PROVE Armed(i)'
    BY <1>1, <2>1, <2>2, PostsWorker
  <2>3. ASSUME NEW w \in Requests, RequestStep(w) PROVE Armed(i)'
    BY <1>1, <2>1, <2>3, PostsRequest
  <2>4. CASE Tick
    <3>1. /\ row'[i].live = row[i].live /\ row'[i].on = row[i].on
          /\ UNCHANGED <<asked, posts>>
          /\ \A w \in Workers : Held(w)' = Held(w) /\ (Unposted(w, i)' <=> Unposted(w, i))
      BY <2>4, TickRow DEF Unposted
    <3>2. Copied(i)' = Copied(i)
      BY <3>1 DEF Copied
    <3> QED BY <2>1, <3>1, <3>2 DEF Armed
  <2>5. CASE Archive \/ UNCHANGED vars
    <3>1. UNCHANGED <<row, wk, asked, posts>>
      BY <2>5 DEF Archive, vars, history
    <3> QED BY <2>1, <3>1 DEF Armed, Held, Unposted, Copied
  <2> QED BY <2>2, <2>3, <2>4, <2>5 DEF Next
<1>2. Job' = Job
  BY PostsGrow DEF Job
<1> QED BY <1>1, <1>2, BatchStep DEF PostsInv

\* A one-time job posts its instruction once per arming, for any number of jobs,
\* loops and requests, unless a run of it failed or two were at work at once.
THEOREM PostsOnce == Spec => []OncePosts
<1>1. Init => PostsInv
  <2>1. ASSUME Init, NEW w \in Workers PROVE Held(w) = {} /\ wk[w].at = NoItem
    BY <2>1 DEF Init, Idle, Held
  <2>2. ASSUME Init, NEW i \in Items PROVE posts[i] = 0
    BY <2>2 DEF Init
  <2> QED BY <2>1, <2>2 DEF PostsInv, Batch, Armed
<1>2. TInv /\ WordInv /\ PostsInv /\ [Next]_vars => (TInv /\ WordInv /\ PostsInv)'
  BY NextDoes, WordStep, PostsStep
<1>3. TInv /\ PostsInv => OncePosts
  BY DEF TInv, TypeOK, PostsInv, Armed, OncePosts
<1> QED BY <1>1, <1>2, <1>3, InitTypes, WordInit, PTL DEF Spec

=============================================================================
