# Crewspace: TLA+ models, model checking and proofs

Crewspace is a chat and board application in which people and agents work
together. Remote agents connect by WebSocket, negotiate capabilities, take
chat requests and coding runs, and hand in change sets that people review;
workflows, schedules, column triggers and delivery pipelines drive longer work
with human approvals. This directory models the stateful core of the control
plane and of the reference agent host, checks the models with TLC on small
instances and proves the main safety properties with TLAPS for every value of
the constants.

Paths below are relative to the repository root; `app/` stands for
`src/crewspace/`.

## 1. The system

| Component | Source | State | Operations | Modelled by |
|---|---|---|---|---|
| Agent connection manager | `app/api/connection.py` | active socket, capability profile, reserved slots, frame sessions, waiters and progress bookkeeping, all in memory | connect, disconnect, close, reset, negotiate, report activity, send (chat, coding run, workspace action, cancel), deliver (reply, progress, change set, failure, result) | `AgentConn` |
| Agent endpoint | `app/api/routers/agents.py` | one receive loop per socket | gate each frame (stale socket, signature, sequence), dispatch to a handler | `AgentConn`, `CodingRun`, `Members`, `Chat` |
| Coding runs | `app/application/coding_runs.py`, `app/api/routers/coding_runs.py`, the reconcilers in `app/main.py` | rows of `coding_run` | dispatch, cancel, fail, capture, reconcile | `CodingRun`, `RunLedger` |
| Run events | `app/dto/events.py` | none of their own: events are derived from the row at each read | derive, order, resume behind a cursor, deduplicate, export | `RunStream` |
| Change sets | `app/application/change_sets.py`, `app/api/routers/change_sets.py` | rows of `stored_change_set` | capture, review, decide, complete, roll back | `ChangeSet` |
| Agent host | `examples/remote_coding_workspace.py`, `examples/claude_code_agent.py` | worktrees, branches, ownership tables, a state file | allocate, retain, discard, persist, load | `Workspace`, `ChangeSet` |
| Workflow engine | `app/application/workflows.py`, `app/api/routers/workflows.py` | rows of `workflow_run` | start, execute a step, wait, approve, reject, retry | `Workflow` |
| Workflow and cron schedulers | `app/application/workflows.py`, `app/application/scheduling.py`, `app/api/routers/cronjobs.py` | claims and next run times on rows | claim due rows, run, record, write back, edit, pause, run by hand, delete | `Schedule` |
| Delivery pipeline | `app/application/pipeline.py`, `app/dto/handoffs.py` | stage states, attempts, artifacts, approval | begin, complete, fail, retry, attach, grant, lock, cancel | `Pipeline` |
| Boards and column triggers | `app/application/services.py`, `app/application/column_triggers.py`, `app/api/routers/boards.py`, `cards.py` | columns and positions, rules, trigger claims | create, reorder, archive, restore, move, claim, start, bind | `Board` |
| Cards | the card part of the board repository, pages and tools | position, fields, assignee, activity, linked runs | create, move, edit, assign, start a run, link | `Cards` |
| Planning views and live pages | `app/application/board_views.py`, `app/api/board_live.py`, `static/board_live.js` | filters, saved views, open pages, deltas in flight | filter, group, save, reopen, broadcast, apply | `Planning`, `BoardLive` |
| Operational inbox | `app/application/inbox*.py`, `app/api/routers/inbox.py` | items and a change stream in memory, open pages with cursors | project, reconcile, acknowledge, assign, resolve, replay | `Inbox` |
| Tools and MCP connections | `app/application/tools.py`, `mcp_*.py`, `agent_tool_policy.py`, `app/infrastructure/db.py` | grants, connections, discovered tools, call audit | grant, connect, discover, approve, call, record | `Tools` |
| Members, channels and life cycle | `app/api/routers/teams.py`, `app/infrastructure/lifecycle.py` | teams, workspaces, channels, memberships, assignments, an agent's connection | join, leave, assign, archive, restore, delete, open a direct channel | `Members` |
| Chat and in-process agents | `app/application/services.py`, `app/api/routers/chat.py` | messages, reactions, live sockets | post, answer, call a tool, react, join, load, broadcast | `Chat` |
| Everything else | authentication, rendering, metrics, benchmarks, backup, migrations | files and rows | pure functions and I/O | not modelled, see section 7 |

**How they interact.** A user's request dispatches a coding run: the row is
committed as `running`, then the frame goes out on the agent's active socket
and the request waits on a future kept by the connection manager. Answers come
in on the receive loop; its handlers change rows in a unit of work and settle
the future. A disconnect fails the futures and schedules a reconciler. A
captured run has a change set whose review ends in a decision: the row is
claimed (`retain_requested`, `discard_requested`), an action frame goes to the
agent host, and the answer, or its absence, decides the row. Workflows are
started by messages, webhooks, card moves, the scheduler and people; each run
executes inside the request that started, approved or retried it. Pages show
boards, channels and the inbox from reads of their own and are then fed by
broadcasts; agents act on all of it through tools whose grants people change
meanwhile.

**What is hard.** There is one event loop, so code between two awaits is atomic
and everything else interleaves: handlers of a replaced socket run beside those
of its successor, `finally` blocks run after their slot has been dropped,
reconcilers run after the agent has come back. Memory is lost in a restart and
rows are not; a unit of work commits when it is left by return. Requests read
in one transaction and write in a later one, and pages read outside any. The
agent host dies between a Git command and its state file. Two people answer one
approval; two loops poll one table. `PROJECT.json` lists these hazards at their
lines.

**What correctness means here.** Slots and waiters belong to the active socket
and are always given back; a run has one terminal status and nobody is told
anything else; a change set says what the host has; no step, approval or stage
is left out; finished work stays finished; a schedule is worked by one loop at
a time and a person's last word on it stands; a move starts its workflow once;
what a page shows is what the rows say, or the page will be told; what was revoked, archived
or deleted has no effect any more; and whoever waits is eventually answered.

## 2. Modules

`AgentConn` is the connection manager, sliced to one agent (every table is
keyed by agent id and no operation reads a second agent's entry). `conn`,
`profile`, `reported`, `slots`, `lastSeq` are its dictionaries; `phase`,
`owner`, `result` place the caller of each request before, at and after its
future; `handlers`, `usage`, `tasks` are the progress tables. Each sender is
split at its awaits into `Issue`, the delivery or expiry, and `Finish` (the
`finally` block).

`CodingRun` is the life of coding runs over the rows `status` and `changeSets`.
Each handler is a program counter per socket (`hpc`), per cancel request
(`cpc`) and per reconciler (`rpc`), split at its awaits. An update with an
expected status is one atomic step (`Transition`). `Restart` loses all memory
and runs the reconciliation of `lifespan()`. `RunLedger` is its abstract
specification: a run starts, gets one terminal status, and the requester is
told nothing the record contradicts; `CodingRun` refines it with the identity
mapping on `status` and `answer`. `RunStream` extends `CodingRun` with the
events a reader derives from a row: two total orders (of a run's life, and of
the identifiers, which is the one for resuming), the cursor, the deduplication
and the export. `Ordering` is Python's `sorted()` for members with different
keys, by what it promises and not by how it is found, for `RunStream` and
`Planning`.

`Workspace` is the Git worktree allocator of the agent host: in-memory tables,
the state file `disk`, and what exists on the host (`tree`, `branch`). A
discard is three steps (worktree, branch, tables); each may fail before or
after it took effect, `Persist` may leave the file as it was, and
`AgentRestart` may come at any point, with a readable state file or without. A
load owns an entry again only when its repository is still configured, its path
lies under the root and the Git reads of its identity succeed; every other entry
becomes a tombstone, its worktree there (`forsaken`) or not.
`ChangeSet` extends it and composes it with the rows, the decisions (`qpc`, one
member of `Requests` per call of `execute_workspace_decision`) and the two
directions of the socket. Frames keep their order and are lost when the socket
breaks; a late answer reaches a request that has given up.

`Workflow` is the engine over the committed rows `row`. An executor holds its own
copy of the row and writes the whole copy back. As in the code, an approval is
in memory until the step behind it has been executed, while the row a retry
inserts is committed as running before its first step. A write that raises inside
the loop makes a failed run of the copy (`WriteFails`; behind a pause that could
not be written nobody was asked, `unasked`); a cancelled request, a last write
that raises and the death of the process leave the row as it is (`Stop`).

`Schedule` is both pollers. Their tables and loops differ in what a write-back
covers and in what an exception does to the loop, so a behaviour is about one
of them, chosen in `Init` (`family`). Dates are relative: `Tick` lets the time
left until a due date or the end of a claim pass, together with the age of every
copy in hand. A worker claims a batch, works its copies off one after the other
and writes each back; `upsets` counts what may go wrong or be changed meanwhile.

`Pipeline` is `DeliveryPipeline` over an arbitrary contract graph (`Required`,
`Produces`) that `validate_pipeline_graph` accepts.

`Board` is one board's columns with their places, the rules, and one card on its
way through them. Requests read in a transaction of their own and write in a
last one (a reorder numbers the columns in the order it read); the version of the
card is its `updated_at`, from which the key of a trigger's claim is made. What the started workflow does is `Workflow`.
`Cards` looks at the cards themselves: places, fields, the activity, assignees
and the runs an agent starts from a card. `Planning` holds the pure planning
views (buckets of due dates, filters, lanes, timeline, counts, the settings of a
view); `BoardLive` extends it with requests under SQLite's one write lock, pages
that read column by column, and deltas that are sent before the commit.

`Inbox` is the store and the stream of one team over the sources' statuses, and
the pages that are open on it. A page reads runs, then change sets, then
reconciles, shows the store and asks the stream what came behind its cursor
(`Answer`, `Handle`). The answer says what kind of events there were and never
the item: the page takes the count, and loads again when an item came, changed or
went. Pages stay open over a restart, which resets store and stream.

`Tools` is one external tool (its connection, discovered definition, approval
and grant) and one native tool, the turns of agents that call them and the
administrators that change all of it, with the audit each call leaves behind its
unit of work. A turn is bound to a snapshot and a call checks the conditions one
read after another.

`Members` is who belongs to a team, its workspace and its channels, the
assignments, and an agent's connection, with archiving, restoring and deleting
spread over the reads and writes they are made of. `Chat` extends it with
messages, the turn of a person's socket (post, broadcast, the agent's answer),
the tool frames of an agent, reactions and pages. A page joins the room and loads
the history in either order; the rows are read (`Load`) and drawn later
(`Render`), beside what was told meanwhile. Of replies a page shows numbers, which
are counted one message after the other once the rows have been read; the model
leaves these numbers out and keeps who was told of a reply.

`MC*` modules give the constants values and symmetry; only requests, executors,
retries, pages and interchangeable cards or columns are permuted, no module with
a liveness property has a symmetry. `*Proofs` modules hold the theorems, of the
modules they extend. An
operator whose comment begins with "Mutant" is a plausible bug of the definition
that follows it; it is used by no specification, and putting it in that
definition's place violates the property `PROJECT.json` pairs it with.

## 3. Runs

| Run | Checks | Instance |
|---|---|---|
| `MCAgentConn` | `SlotAccounting`, `NoOrphanWaiter`, `RequestsEnd` | 2 sockets, a chat request and a workspace action, concurrency up to 2, 1 progress frame, frame numbers up to 2 |
| `MCCodingRun` | `SuccessIsDurable`, `CaptureExclusive`, `CancelFailClosed`, `DroppedRunsSettle`, `ImplementsLedger`, `ResumeTellsAll` | 1 run, 2 sockets, 2 cancel requests |
| `MCChangeSet` | `RetainedKept`, `DecisionOwned`, `OutcomeTrue`, `DecisionSettles` | 1 change set, 3 decisions |
| `MCWorkflow` | `StepsInOrder`, `ApprovalGate`, `RetryReconstructs`, `RunningIsDriven`, `FinishedStays` | work, approval, skipped step, work; 2 executors; a run and 2 retries |
| `MCPipeline` | `StagesInOrder`, `DeliveryApproved` | planner, coder, approval; 2 attempts, 4 begins per stage |
| `MCSchedule` | `LeaseExclusive`, `OncePosts`, `WordStands`, `DueRuns` | 1 row, 2 loops, 1 request, lease and period of 1, 2 upsets |
| `MCBoard` | `OrderDeterministic`, `ClaimedOnce`, `FreshMoveStarts` | 3 columns of which 2 are seeded, 2 requests, 3 writes |
| `MCCards` | `TrailExplains`, `CardsOrdered` | 2 cards, 2 columns, title and description, 2 requests at a time, 4 in all |
| `MCInbox` | `PageCurrent`, `LocalStateKept` | 1 run, 1 change set, 2 pages, 1 owner, 3 changes of the store, 1 restart |
| `MCTools` | `RevocationHonoured`, `ApprovedAsSigned`, `AuditTrue` | 1 turn, 2 administrators, 2 definitions, 1 audit row kept, 3 operations |
| `MCChat` | `ArchivedIsOffline`, `NothingDangles`, `ShownIsDurable`, `PageComplete` | 1 room, 2 people (one with a page), 1 agent, 2 requests, 4 operations, 3 messages |
| `MCBoardLive` | `LiveTrue`, `PlanningAgrees` | 2 cards, 2 columns, 1 page, 2 requests, 3 operations, 2 days |

What each run shows:

* `MCAgentConn`: through every order of reconnects, answers, timeouts and late
  `finally` blocks, slots belong to the requests of the active socket, nobody
  waits on another one and every sender returns.
* `MCCodingRun`: terminal frames, cancels, disconnects and restarts race for a
  row; nobody is told what it contradicts, a dropped run settles, and whoever
  resumes its events behind a cursor gets the rest once.
* `MCChangeSet`: the row never contradicts the host, but for worktrees the agent
  gave up at a load and branches of removals cut short, and what was retained is
  kept, through lost frames, late answers, killed Git commands and restarts.
* `MCWorkflow`: two coroutines that start, resume, reject and retry, whose writes
  fail and which are stopped anywhere, leave out no step or approval.
* `MCPipeline`: stages rest on finished stages and delivery on a grant, in
  whatever order the methods are called.
* `MCSchedule`: one loop at a time believes in a lease, a one-time job posts
  once, an edit or a pause survives the write-backs of older copies (and the
  exceptions are named), and what is due runs.
* `MCBoard`, `MCCards`: the read-then-write requests keep the order of columns
  and cards well defined, start a column's workflow exactly once per fresh move,
  and leave an activity that explains every field.
* `MCInbox`: an open page shows the store or will be told to load again, in
  whatever order loads, actions and answers come, and a reconciliation keeps what
  people added.
* `MCTools`: an approval is of what was there to approve, a call heeds what was
  revoked before it began, and the audit tells the truth through rollbacks,
  failures and pruning.
* `MCChat`: what is archived is offline; no row of workspaces, channels,
  memberships, direct channels, messages and reactions refers to what was deleted
  (the read states of channels, workflows and agents' tool permissions are not in
  the model); what is shown is durable; and a page that joined before it loaded
  misses nothing of the main line.
* `MCBoardLive`: a page at rest shows the board although changes reach it before
  their commit, and the planning views agree under every filter.

**Why these bounds are enough.** Two sockets give a replacement, a reconnect and
a handler of the old socket beside one of the new. A coding run takes the steps
of a workspace action, without its test of the socket, so one of the two will do;
two frame numbers let a session deliver progress and then the answer, and
distinguish a repeat from an advance. Concurrency 2 lets one
request hold a slot while another is refused or admitted. One run and two
cancellers, beside handlers and reconcilers, give every pair of racing writers
of a row (no operation reads a second run's row to decide); restarts are
unlimited. Three decisions are a late answer to the first, a failed second and a
successful third; allocator and rows keep nothing per change set that another
one reads. Two executors are the race; a retry of a retry is the longest lineage
in which "the outputs of every attempt" and "of the last attempt" differ. Four
begins exceed the two attempts, so a stage is begun again past the retry cap.
Two loops and a request are a claim that lapses under a loop, another loop that
takes over and an edit between them; a lease no longer than the period makes
claims lapse before and after the next due date. Three columns give a column
between two others and one created meanwhile; two requests at a time are the
read and the write that comes in between, and three or four in all let the
second undo, repeat or overtake the first. Two days put a due date before, on
and after today. Two definitions and two discoveries give an approval of the one
while the other is written; one audit row makes every later call prune. Two
messages of a conversation and one behind it are a root, its answer and one that
is late.

The bounds of the models themselves stand in guards or ranges of inputs:
`SeqBound` (largest frame number), `ProgressFrames` (256 in the code),
`MaxConcurrency` (64), `Begins`, `Lease` (five minutes) and `Periods` in units of
one tick, `MaxUpsets` (crashes, database errors and page requests), `MaxOps`
(requests, or writes, all told), `MaxRestarts`, `MaxMsgs`, `MaxToday`, `Readers`
(the people whose pages are followed) and `Keep` (retained audit rows).

`CHECK_DEADLOCK FALSE` is set everywhere but in `MCInbox`: the other systems may
stop (all requests served and all sockets used up; the run, decision or pipeline
over; no operation left under `MaxOps`). In `MCInbox` a page can always be loaded
again, and TLC confirms that some step is always possible.

## 4. Fairness

Weak fairness is assumed for what the event loop does by itself and for nothing
else. `AgentConn`: each wait is bounded by `wait_for`, and a settled future
resumes its caller (`Expire`, `Finish`). `CodingRun`: handlers, reconcilers and
cancel requests that have begun go on; a dispatch is sent or refused, and
times out. `ChangeSet`: a request is sent or gives up, and its outcome is
committed. `Schedule`: time passes, and each worker goes on, for its loop polls
again after every sleep and a run it started is awaited. `DroppedRunsSettle` rests
on one thing more: the reconciler's own write succeeds (a database error there ends
the task, and nothing but a restart looks at its runs again). Agents need not answer,
users need not act, sockets need not drop. The other modules have no liveness
property and no fairness: nothing in the code obliges a step to end, a
participant to call or a page to be loaded again.

## 5. Proofs

The proofs hold for arbitrary sets of sockets, requests, runs, workspaces,
columns, cards, fields, members, channels, pages, records, turns and artifacts,
arbitrary limits, lists of steps and an arbitrary valid contract graph. They rest
on the named assumptions of the modules only: the "no such" values are not
members of the sets (no due date filter is called like a bucket, no request like
a card or a page), the sets that are counted, sorted or listed are finite
(`Cards`, `Columns`, `Fields`, the inbox's sources), a team, a workspace, a
channel and a member never share an id (`IdAssumption` of `Members`), a filter
that comes in has the fields of a filter (`RawAssumption` of `BoardLive`), the
bounds are naturals, the graph is valid. TLC evaluates each of them on its
instance.

* `SessionProofs`, part I, the connection manager - types, `SlotAccounting`,
  `CapacityRespected`, `NoOrphanWaiter`, `FramesAppliedOnce`, `ProgressBounded`.
  Slots count a set (`Held`), so each step that changes `phase` or `owner` needs
  a cardinality lemma. `ConnInv` adds to the first invariants that a request
  beyond "idle" has an owner among the sockets seen, which is why a fresh socket
  holds nothing; `SessionInv` bounds every accepted number by the `lastSeq` of
  the active session.
* `SessionProofs`, part II, the inbox - `LocalStateKept` and `PageCurrent`. A
  publication that changes the store appends an event of an item, whatever the
  order of its events (`PublishIs`, from `Differ`: items that differ differ at one
  of them), and leaves what was in the stream (`Grows`). So a page that goes by a
  cursor of this process shows the store or has such an event behind it
  (`Follows`), and an answer passes none without telling. `LogInv` adds that a
  store with items has one behind the beginning, for the pages left open by an
  earlier process.
* `DeliveryProofs`, part I, coding runs - types, `TerminalIsFinal`, the four
  invariants and the refinement of `RunLedger`. `RunInv` ties handlers to rows:
  at "complete" the change set is durable and the run succeeded, at "tell" the
  run is failed, at a cancel's "write" the frame was sent, and a run that is
  waited for is waited for on the active socket, which is what makes captures
  exclusive. `ResumeTellsAll`, an action property, follows from the two ways in
  which a status changes (`StatusStep`): a run has no events, or two, or three,
  and `ActivitiesAre` and `ExportsAre` say what the activity and the export make
  of them. No code of the application resumes with a cursor yet: the theorem is
  about the functions of `dto/events.py` together, as their docstrings use them.
* `DeliveryProofs`, part II, change sets - types, `DecisionOwned`,
  `RetainedKept`, `TombstonesGone`, `OutcomeTrue`, and that the composition
  implements `WsSpec`, so the allocator's invariant `WsInv` is proved once for
  the allocator and carried over. `WsInv` relates each step of an operation to
  what exists on the host and in the file; `FlightInv` says that every frame in
  flight belongs to a decision that was made; `OutcomeInv` adds to `OutcomeTrue`
  what a positive answer promises about the host while it travels and once it
  has arrived.
* `DeliveryProofs`, part III, the pipeline - types, `StagesInOrder`,
  `DeliveryApproved`, `OverIsOver`. `PInv` adds that only succeeded stages emit
  (so a purge takes away nothing a begun stage rests on), that an approved
  decision excludes a lock, and that in a finished pipeline no stage is running.
* `WorkflowProofs`, part I, workflows - all five properties of the run, and
  types. Every action is first reduced to its effect on rows and copies (one
  lemma each, collected in `NextDoes`), so the invariants are proved from the
  effects. `Owned` says that two executors on one run mean a contested
  approval; `InOrder` and `GateInv` carry "every step before this one is done"
  and "every approval before it was answered" along rows, copies and the
  lineage of a run (the sets `Cover`, `Gate` and `Answered` of pairs of a run
  and a place); `LInv` adds that an executor knows every output its row has
  (`Holds`) and that the outputs before its place are in its copy or in an
  earlier attempt's row (`KnownInv`). Attempts are numbered by a maximum, which
  is why the module cites the well-foundedness of `<`.
* `WorkflowProofs`, part II, the board whose moves start them - `ClaimedOnce`,
  `FreshMoveStarts`, `OrderDeterministic`.
  `VersionsInv`: every claim was made for a version older than the card's, so a
  fresh copy has a key nobody has used. `OrderInv` says of a reorder only that it
  gives the columns it read places of their own: a write to a list that changed
  since marks its places in `tied`, and any other write numbers a list that is the
  present one.
* `ScheduleProofs` - types, `LeaseExclusive`, `WordStands`, `OncePosts`. The
  claim in the row and the age of the copy are not written together: `LeaseInv`
  says that a loop whose copy is younger than the lease has its claim on the row
  for at least the time that is left, and that a row it has done with is not in
  its batch again. `WordInv` says the same of a person's last word: whoever
  holds a copy of an unraced row holds the word that is in it. `PostsInv` says
  that a one-time job is armed, held by somebody who has not posted it yet, or
  posted, and never two of these (`Armed`). All three are carried by the same
  reduction of a loop's step to its effects (`PollDoes`, `TickDoes`).
* `ToolsProofs` - `ApprovedAsSigned`, `RevocationHonoured`, `AuditTrue`.
  `SignedInv` adds the rows a discovery has read and will write over; `HeldInv`
  ties what a turn has seen to what was in force since its call began;
  `AuditInv` follows the record of a call from the unit of work into the audit,
  where a prune may take only records that `Keep` newer ones displace.
* `CardProofs` - `CardsOrdered` and `TrailExplains`. `CardsInv` gives what a
  request holds its type and bounds every place, so that the maximum behind which
  a created card is put exists; the bound is found by induction over the finite
  set of cards, as well-foundedness of strict inclusion. An edit writes one
  activity row per changed field (`EditRows`, `WhoRows`); the trail explains the
  new values because the rows added are exactly of the fields that changed.
* `ChatProofs` - `ArchivedIsOffline`, `NothingDangles`, `ShownIsDurable`,
  `PageComplete`, over `Members` and `Chat` together. `LinkInv` says when a
  connected agent of an archived row is about to be closed; `HangInv` says of
  each thing that refers to something deleted whether a deletion under way will
  still take it or it was written after the deletion had listed its victims
  (`strays`). The victims are a least fixed point over replies (`Doomed`).
  `TurnInv` relates the step of a turn to the message it has drafted, kept or
  broadcast, `KeptInv` and `PageInv` what pages have to what is kept; `Complete`
  says that what a page has been told and what its load has read make up the main
  line, also while the rows are on their way.
* `LiveProofs` - types, `PlanningAgrees` and `LiveTrue`, over `Planning` and
  `BoardLive`. The planning views need only the types: sorting a finite set of
  dates gives each of them one place (`SortedDates`, by ranks), so every card is
  in one lane, one bucket of the timeline and one count. `LiveTrue` is about
  pages at rest, which says nothing of the next step; its invariant `Follow` is
  about all. For every card, what a page shows of it, taken through the changes
  in the page's queue, becomes what the pages were last told of (`Comes`, with
  `Known`: the row, or what a request has written, told and not committed), or
  a place that a request has not told of yet (`Behind`). A queue is followed by
  a `Walk` of the values a card takes, one step for each change, so a delivery
  drops the first of them and a broadcast adds one; the walk also keeps every
  change but the first creation from meeting an absent card. `Doing` says what
  each request has in hand while it holds the write lock, and `Quiet` that a
  page that has not joined has no queue and one that is being loaded has missed
  nothing. TLC checked `Follow` on the instance of `MCBoardLive` first.

Some formulas are proved but are no property of a run: the `TypeOK`s,
`CapacityRespected`, `FramesAppliedOnce`, `ProgressBounded`, `FailureIsDurable`,
`TerminalIsFinal`, `TombstonesGone` and `OverIsOver`.

**Model-checked only**: the liveness properties (`RequestsEnd`,
`DroppedRunsSettle`, `DecisionSettles`, `DueRuns`), since liveness under fairness
and ENABLED are outside the prover's reach. Every other property of a run is a
theorem.

## 6. Where the code and its documents disagree

The models follow the code. Where a document or a comment says otherwise, no
property states what it says:

* A dispatch that times out leaves its run `running`; nothing writes `timed_out`
  (`docs/AGENT_PROTOCOL.md:459`).
* A capture that loses its race leaves a change set of a cancelled, failed or
  interrupted run, because the rejection is caught inside the unit of work that
  holds the insert (`docs/AGENT_PROTOCOL.md:444`).
* Runs on a replaced or closed socket are not reconciled
  (`docs/AGENT_PROTOCOL.md:447`).
* Two answers to one approval are both accepted until the step behind it has
  been executed (`app/application/workflows.py:535`), against the refusal at
  `:523`.
* An unrecognised prior decision clears a lock (`app/application/pipeline.py:207`)
  that should not be overridden (`:182`) and be ignored (`:201`).
* A retry of a rejected run starts behind the approval, so whoever retries
  overrides the rejection; `ApprovalGate` counts that as an answer.
* A reconciliation drops the resolution of an item, which
  `app/application/inbox_store.py:3` counts among what the store retains; the
  model keeps acknowledgement and owner (`LocalStateKept`).
* A move over a stale copy of a card has a trigger key of its own: when the card
  was edited between two reads, two moves into a column both start its workflow
  although the card has not left it, where the docstring of
  `app/application/column_triggers.py` excludes a double enqueue. `ClaimedOnce`
  is about keys, `FreshMoveStarts` about fresh copies.
* `read_after` of both transports returns as new tail the length of the log,
  which is one past the last position (`app/dto/events.py:659` and `:689`):
  passed back as the position to go on from, it skips an event. `ResumeTellsAll`
  passes the position of the last event read, as the docstring says.
* The export orders the events of one instant by type (`app/dto/events.py`,
  `export_events_json`), the activity by life cycle, though both are said to be
  the same stream. `ResumeTellsAll` asks for the same events, and the same order
  between instants.
* The chat page fetches history once, where its comment says after every
  (re)connect, and beside the handshake of its socket, so a page may have read
  before it joined; the board page never fetches again (`static/board_live.js`).
  The properties of pages are about pages that joined first and were never cut
  (`whole`).
* The number of replies of a message can be missed or counted twice: the rows are
  read first and counted afterwards (`app/application/services.py:74-78`), and the
  page raises the number of a thread it is told of, or drops the reply when its
  root is not drawn yet (`app/templates/chat.html:142`).
* An inbox page starts at cursor 0 after each load (`app/templates/inbox.html:10`),
  so once the stream has had an item every load is followed by another, against
  "reconnects from its cursor" (`docs/RELEASE_M6.8.md`) and "without duplicates"
  (`app/application/inbox_events.py:25`). A page whose cursor has moved, on an
  empty inbox, may pass over the first events after a restart (`lapsed`).
* A load of the agent host's state tombstones a workspace whose worktree still
  exists when its repository is not configured any more or a Git read of its
  identity fails, where the docstring of `_load_durable_state` speaks of a "path
  [that] no longer exists"; a discard is then answered `already_removed` and the
  row says discarded (`forsaken`).
* A run whose pause could not be written has failed behind its approval step, and
  a retry goes on there unasked (`unasked`).
* `migrations/versions/20260820_04_agent_tool_audit.py` returns early when the
  table exists; migrations are not modelled.

The passing properties are stated around what the code leaves open, by name.
These history variables are read by properties only:

| Variable | Marks |
|---|---|
| `contested`, `unasked`, `orphaned` (`Workflow`) | runs whose approval was answered twice; approval steps whose pause was not written; runs an executor was stopped on |
| `abandoned` (`ChangeSet`), `cut`, `forsaken` (`Workspace`) | decisions a restart cut off; removals that were cut short; worktrees a load gave up |
| `cleared`, `marred`, `raced` (`Schedule`) | a claim removed under a loop; a run that failed or broke off; a row written, or run by hand, under somebody's copy |
| `tied` (`Board`, `Cards`) | a place written over a list that had changed since it was read |
| `stale` (`Cards`) | a field an edit of another field has set back |
| `lapsed` (`Inbox`) | pages left open by an earlier process |
| `lost` (`Tools`) | calls whose record a crash or an error has cost |
| `slipped`, `strays` (`Members`), `stale` (`Chat`) | agents that came on while they were being archived; rows written over what was deleted |
| `late` (`BoardLive`) | cards of which pages were told something outdated |

## 7. Not modelled, and why

* Signatures, connect claims beyond when they are verified, cookies: the models
  take authenticated frames and authorised calls as inputs.
* Content: instructions, diffs, templates, conditions, validation of
  definitions, mention parsing, the language model. A step or frame is good or
  bad, nothing more; a message is who wrote it, where, and under what.
* The identity, reflog and cleanliness tests of the allocator are one reason to
  refuse (`ApplyFails`); the capture of a diff only reads.
* `AgentRuntime` of the reference agent (generations, cancelled subprocesses).
* The audit rows of coding runs and decisions, presence broadcasts: written, or
  sent, and never decided on.
* Crewspace's own MCP server: each call is one native tool in a unit of work of
  its own, which `Tools` has for turns. Run policies: no caller of the
  application passes one.
* The Redis transports and the in-memory event transport: used by no code of the
  application; of their interface `RunStream` has `read_after`.
* Rendering, names and invitations, metrics, scorecards, benchmarks, fixtures,
  backup and restore (offline copies), migrations: pure functions, I/O or rows
  without a protocol of their own.

## 8. Plan

What remains, in the order of what matters most:

1. `AgentRuntime`: generations, completed ids and cancellation of the reference
   agent, composed with `AgentConn`'s sequence numbers.
2. Larger instances: two rows in `MCSchedule` (a batch whose first run outlives
   the lease of the second), a second page in `MCBoardLive`.
