----------------------------- MODULE Workspace -----------------------------
(***************************************************************************)
(* GitWorktreeAllocator (examples/remote_coding_workspace.py): the agent   *)
(* host's Git worktrees, the in-memory ownership tables, the durable state *)
(* file, and the death of the agent process at any point.                  *)
(*                                                                         *)
(* The reference agent applies one governed action at a time (its receive  *)
(* pump awaits asyncio.to_thread), so there is one operation register.  A  *)
(* branch name carries a random suffix, hence a workspace is allocated     *)
(* once.  Every Git command may fail or be killed by its timeout, before   *)
(* or after it took effect; identity, reflog and cleanliness tests are     *)
(* further reasons to refuse and are not told apart.                       *)
(***************************************************************************)
EXTENDS Naturals, FiniteSets

CONSTANTS Workspaces, NoWorkspace

ASSUME WorkspaceAssumption == NoWorkspace \notin Workspaces

VARIABLES
  allocated,  \* _allocated_workspaces
  retained,   \* _retained_workspaces
  removed,    \* _removed_workspaces (tombstones)
  pending,    \* _pending_branch_cleanup
  disk,       \* the durable state file
  tree,       \* worktrees that exist on the host
  branch,     \* branches that exist in the repository
  names,      \* history: workspaces whose name has been used
  op,         \* the action being applied
  cut,        \* history: workspaces whose removal a failed or killed command cut short
  forsaken    \* history: workspaces a load tombstoned with their worktree still there

memVars == <<allocated, retained, removed, pending>>
gitVars == <<tree, branch>>
wsVars  == <<memVars, disk, gitVars, names, op, cut, forsaken>>

Actions == {"retain", "discard"}

NoOp == [w |-> NoWorkspace, action |-> "none", step |-> "idle", ok |-> FALSE]

Ops == [w : Workspaces \union {NoWorkspace}, action : Actions \union {"none"},
        step : {"idle", "start", "branch", "forget", "done"}, ok : BOOLEAN]

Files == [allocated : SUBSET Workspaces, retained : SUBSET Workspaces,
          removed : SUBSET Workspaces]

-----------------------------------------------------------------------------

\* _persist_durable_state: best effort, so the file may keep its old contents.
Persist ==
  \/ disk' = [allocated |-> allocated', retained |-> retained', removed |-> removed']
  \/ disk' = disk

Reply(ok) == op' = [op EXCEPT !.step = "done", !.ok = ok]

\* git worktree add -b on a fresh random name.
AddWorktree(w) ==
  /\ w \notin names
  /\ names' = names \union {w}
  /\ tree' = tree \union {w}
  /\ branch' = branch \union {w}

\* allocate(): the worktree, the ownership entry, the state file.
Allocate(w) ==
  /\ AddWorktree(w)
  /\ allocated' = allocated \union {w}
  /\ UNCHANGED <<retained, removed, pending, op, cut, forsaken>>
  /\ Persist

\* allocate() that ends after git worktree add: the rollback commands fail too,
\* or the process is about to die (AgentRestart).
AllocateOrphan(w) ==
  /\ AddWorktree(w)
  /\ UNCHANGED <<memVars, disk, op, cut, forsaken>>

\* apply_workspace_action is called.
Begin(w, a) ==
  /\ op = NoOp
  /\ op' = [w |-> w, action |-> a, step |-> "start", ok |-> FALSE]
  /\ UNCHANGED <<memVars, disk, gitVars, names, cut, forsaken>>

\* Not ours: a tombstone answers a discard, everything else is an error.
ApplyUnowned ==
  /\ op.step = "start"
  /\ op.w \notin allocated
  /\ Reply(op.action = "discard" /\ op.w \in removed)
  /\ UNCHANGED <<memVars, disk, gitVars, names, cut, forsaken>>

\* retain().
ApplyRetain ==
  /\ op.step = "start"
  /\ op.action = "retain"
  /\ op.w \in allocated
  /\ op.w \in tree
  /\ retained' = retained \union {op.w}
  /\ Reply(TRUE)
  /\ UNCHANGED <<allocated, removed, pending, gitVars, names, cut, forsaken>>
  /\ Persist

\* Mutant: a retained worktree is not exempt from a later discard.
ApplyRemoveTreeRetained ==
  /\ op.step = "start"
  /\ op.action = "discard"
  /\ op.w \in allocated \intersect tree
  /\ tree' = tree \ {op.w}
  /\ pending' = pending \union {op.w}
  /\ op' = [op EXCEPT !.step = "branch"]
  /\ UNCHANGED <<allocated, retained, removed, disk, branch, names, cut, forsaken>>

\* cleanup(discard=True) up to the pending entry; a removal that is already
\* pending goes on with the branch.
ApplyRemoveTree ==
  /\ op.step = "start"
  /\ op.action = "discard"
  /\ op.w \in allocated
  /\ \/ /\ op.w \in pending
        /\ UNCHANGED <<tree, pending>>
     \/ /\ op.w \notin pending
        /\ op.w \notin retained
        /\ op.w \in tree
        /\ tree' = tree \ {op.w}
        /\ pending' = pending \union {op.w}
  /\ op' = [op EXCEPT !.step = "branch"]
  /\ UNCHANGED <<allocated, retained, removed, disk, branch, names, cut, forsaken>>

\* _finish_branch_cleanup: git branch -D ...
ApplyRemoveBranch ==
  /\ op.step = "branch"
  /\ op.w \in branch
  /\ branch' = branch \ {op.w}
  /\ op' = [op EXCEPT !.step = "forget"]
  /\ UNCHANGED <<memVars, disk, tree, names, cut, forsaken>>

\* ... then the tables and the state file.
ApplyForget ==
  /\ op.step = "forget"
  /\ pending' = pending \ {op.w}
  /\ allocated' = allocated \ {op.w}
  /\ retained' = retained \ {op.w}
  /\ removed' = removed \union {op.w}
  /\ Reply(TRUE)
  /\ UNCHANGED <<gitVars, names, cut, forsaken>>
  /\ Persist

\* A validation or a Git command raises.
ApplyFails ==
  /\ op.step \in {"start", "branch"}
  /\ op.w \in allocated
  /\ Reply(FALSE)
  /\ UNCHANGED <<memVars, disk, gitVars, names, cut, forsaken>>

\* Git is killed by its timeout after it took effect.
ApplyCut ==
  /\ op.action = "discard"
  /\ op.w \in allocated
  /\ \/ /\ op.step = "start"
        /\ op.w \in tree
        /\ op.w \notin retained
        /\ tree' = tree \ {op.w}
        /\ UNCHANGED branch
     \/ /\ op.step = "branch"
        /\ branch' = branch \ {op.w}
        /\ UNCHANGED tree
  /\ cut' = cut \union {op.w}
  /\ Reply(FALSE)
  /\ UNCHANGED <<memVars, disk, names, forsaken>>

\* A new allocator over the state file (_load_durable_state).  An unreadable
\* file, or none, is ignored.  An entry is owned again only when its repository
\* is still configured, its path is a directory under the worktree root and the
\* four Git reads of its identity succeed; every other entry becomes a
\* tombstone, its worktree and branch there or not.
Load(readable) ==
  \E owned \in SUBSET (disk.allocated \intersect tree \intersect branch) :
    /\ allocated' = IF readable THEN owned ELSE {}
    /\ retained' = IF readable THEN disk.retained ELSE {}
    /\ removed' = IF readable THEN disk.removed \union (disk.allocated \ owned) ELSE {}
    /\ forsaken' = IF readable THEN forsaken \union ((disk.allocated \ owned) \intersect tree)
                               ELSE forsaken

\* The agent process dies, whatever it was doing, and starts again.
AgentRestart(readable) ==
  /\ Load(readable)
  /\ pending' = {}
  /\ op' = NoOp
  /\ cut' = cut \union (pending \ removed)
  /\ UNCHANGED <<disk, gitVars, names>>

-----------------------------------------------------------------------------

WsInit ==
  /\ allocated = {}
  /\ retained = {}
  /\ removed = {}
  /\ pending = {}
  /\ disk = [allocated |-> {}, retained |-> {}, removed |-> {}]
  /\ tree = {}
  /\ branch = {}
  /\ names = {}
  /\ op = NoOp
  /\ cut = {}
  /\ forsaken = {}

Apply ==
  \/ ApplyUnowned
  \/ ApplyRetain
  \/ ApplyRemoveTree
  \/ ApplyRemoveBranch
  \/ ApplyForget
  \/ ApplyFails
  \/ ApplyCut

\* The answer has been sent.
End ==
  /\ op.step = "done"
  /\ op' = NoOp
  /\ UNCHANGED <<memVars, disk, gitVars, names, cut, forsaken>>

WsNext ==
  \/ \E w \in Workspaces : Allocate(w) \/ AllocateOrphan(w)
  \/ \E w \in Workspaces, a \in Actions : Begin(w, a)
  \/ Apply
  \/ End
  \/ \E readable \in BOOLEAN : AgentRestart(readable)

WsSpec == WsInit /\ [][WsNext]_wsVars

-----------------------------------------------------------------------------

\* The values the allocator's tables, its state file and the host range over.
WsTypeOK ==
  /\ allocated \subseteq Workspaces
  /\ retained \subseteq Workspaces
  /\ removed \subseteq Workspaces
  /\ pending \subseteq Workspaces
  /\ disk \in Files
  /\ tree \subseteq Workspaces
  /\ branch \subseteq Workspaces
  /\ names \subseteq Workspaces
  /\ op \in Ops
  /\ cut \subseteq Workspaces
  /\ forsaken \subseteq Workspaces

\* "A retained marker or tombstone persisted on disk is authoritative": a
\* workspace that is marked, in memory or in the file, is still there, whatever
\* crashed, failed to persist or was discarded around it.
RetainedKept ==
  \A w \in retained \union disk.retained : w \in tree \intersect branch

\* A tombstoned workspace is not owned, and it is gone: only a load that gave it
\* up leaves its worktree behind, and only that or a removal that was cut short
\* its branch.
TombstonesGone ==
  \A w \in removed \union disk.removed :
    /\ w \notin allocated
    /\ w \in tree => w \in forsaken
    /\ w \in branch => w \in cut \union forsaken

=============================================================================
