# A verification project for the local coding agent

The program under `src/` is a command line tool in which a planner, a coder, a
reviewer and a fixer, all of them prompts to a local language model, change the
files of a workspace. What can go wrong in it is hardly ever one line: it is the
order in which an executor, a loop controller, a graph of subtasks, a file guard,
checkpoints and a session call each other, and what each of them still holds
after a pause, an exception or a second task. This project models that.

All source paths below are relative to `src/src/`.

## 1. Inventory

| Component | State | Operations | Talks to |
|---|---|---|---|
| Task graph, `orchestration/task_graph.py` | nodes with a status, dependency lists, `dependents` lists | `add_task`, `from_subtasks`, `topological_sort`, `get_ready_tasks`, `mark_*`, `propagate_failure`, `reset` | executor |
| Loop controller, `orchestration/loop_controller.py` | state, iteration, fix and planning counters, limit in force, pause flag, termination reason, start time | `start`, `begin_iteration`, `end_iteration`, `reset_fix_counter`, `reset_for_new_task`, `extend_iterations`, `decline_continue`, `complete_*`, `abort` | executor |
| Executor, `orchestration/executor.py` | the components of one run, the graph, the client | `execute`, `continue_execution`, `execute_additional_task`, `preview_plan`, `rollback_to_checkpoint`; inside: planning loop, code-review-fix cycle, `_apply_changes` | everything below |
| Rollback manager, `orchestration/rollback.py` | ordered checkpoints in memory and on disk, snapshots of files | `create_checkpoint`, `rollback_to`, pruning | file guard, disk |
| File guard, `core/file_guard.py` | sets of created, modified, deleted files, rate counter | `read`, `write`, `delete`, `move`, `create_backup` | file system |
| Diff engine, `core/diff_engine.py` | stack of applied diffs | `apply`, `apply_multiple`, `rollback_last`, `rollback_all` | file guard |
| File locks, `core/file_lock.py` | lock files, descriptors, lock table | `write_lock`, `read_lock`, `release_all`, `cleanup_stale_locks`, atomic writes | other processes |
| LLM client, `core/llm_client.py` | resident model, HTTP client | `load_model`, `unload_model`, `complete`, `close` | Ollama |
| Agents, `agents/` | statistics | `execute` with retries, validation, parsing | LLM client |
| Tools, `core/agent_tools.py`, `core/pty_shell.py`, `core/hitl.py`, `core/mcp_client.py`, `tools/` | one persistent shell per run, approvals | `execute_call` | shell, user, servers |
| Memory, `core/memory.py` | two JSON files | load, modify, save | other processes |
| Run state and its checkpoints, `state/` | run files, checkpoint directories, index | create, advance, save, prune | disk |
| Session and application, `cli/session.py`, `cli/app.py`, `cli/repl.py`, `main.py` | session, executor of the project, executor thread | process a task, ask to continue, interrupt | executor, user |
| Context, telemetry, configuration | text, counters, limits | | |

What is hard in it:

- **Sequences of calls.** A run pauses in the middle of a task, is continued, ends
  with an exception, is followed by another task in the same session, or is rolled
  back. Every one of these leaves state behind that the next call relies on.
- **Shared budgets.** Four agents draw on one iteration budget, through nested
  loops that have no bound of their own.
- **Order and propagation.** A task runs when the iteration gets to it; nobody
  asks whether it is ready.
- **Partial failure.** Checkpoints, applied diffs and rollbacks are sequences of
  writes any of which may fail.
- **Concurrency.** The run itself is one thread; the interactive loop
  (`cli/repl.py`) starts a second one, and locks, memory and run files are shared
  between processes.

`PROJECT.json` lists every component with its status, and the hazards by line.

## 2. Modules

| Module | Models | Kind |
|---|---|---|
| `TaskGraph` | statuses, order and propagation; its operations under a scheduler that uses `get_ready_tasks` | component |
| `TopologicalSort` | `add_task` and Kahn's algorithm step by step, on lists | algorithm, checked against `TaskGraph` |
| `LoopController` | the controller, its methods in any order | component |
| `Executor` | the executor with its controller, its graphs and its caller | composition: EXTENDS `TaskGraph`, `LoopController` |
| `TaskRun` | what one run promises about its subtasks | abstract specification |
| `FileGuard` | what the guard does to files, what it counts, its backups | component: operations, no `Next` of its own |
| `DiffEngine` | making, validating, applying and undoing diffs | component: EXTENDS `FileGuard` |
| `Rollback` | checkpoints, snapshots, pruning, restoring | component: EXTENDS `FileGuard` |
| `Workspace` | a run's work on files: `_apply_changes`, `apply_multiple`, `_checkpoint`, `rollback_to_checkpoint`, and edits behind the guard | composition: EXTENDS `DiffEngine`, `Rollback` |
| `FileLock` | processes, lock files and their inodes, `flock`, and the writer of one file with its backups | component |
| `LLMClient` | the models in the server's memory and what the client believes of them | component: operations, no `Next` of its own |
| `AgentAnswers` | what each agent makes of the model's answer | pure operators |
| `AgentRun` | `BaseAgent.execute` over a client, for the four agents | composition: EXTENDS `LLMClient`, `AgentAnswers` |
| `MemoryData` | the memory file as data, and each operation as a function of it | pure operators |
| `Memory` | load, change and write by several managers | component: EXTENDS `MemoryData` |
| `CheckpointStore` | checkpoints on disk, part by part, and their index | component |
| `RunStateStore` | run states in memory and on disk, and the summary of one | component |
| `PTYShell` | the shell of a run, its input, its terminal | component: operations, with bash as the environment |
| `MCPClient` | tool servers, requests line by line, the schema cache | component: operations, with the servers as the environment |
| `AgentTools` | `execute_call` with profile, gate, file tools, shell and servers | composition: EXTENDS `PTYShell`, `MCPClient` |
| `Session` | a session and the files it is saved to | component: operations |
| `Terminal` | the interactive application and its commands around a session | composition: EXTENDS `Session` |
| `Repl` | the conversational prompt, its threads and their shared result | component |
| `MCTaskGraph`, `MCExecutor`, `MCWorkspace`, `MCFileLock`, `MCAgentRun`, `MCPersistence`, `MCTools`, `MCFront` | the instances TLC checks | instances |
| `TaskGraphProofs`, `TaskRunProofs`, `ExecutorProofs`, `WorkspaceProofs`, `PersistenceProofs`, `AgentRunProofs`, `AgentToolsProofs`, `FrontProofs` | theorems | proofs |

`Executor` and `Workspace` are two views of one run. The first keeps the control of a
run and lets every change of files succeed or fail; the second keeps the files and lets
the run decide freely when to change, to checkpoint and to roll back. They meet at
`_checkpoint`, `_apply_changes` and `rollback_to_checkpoint`, which are actions of both.

### TaskGraph

`deps` is each node's dependency list as a set, `status` its `TaskStatus`. The
edge list `dependents` is derived (that this is right is what `TopologicalSort`
shows). `AllowedTransitions` is the table of the code, and every `mark_*` is a
`Transition` guarded by it. `ComesNext(t, emitted)` is the step of Kahn's
algorithm with its sorted queue; the executor iterates with it. `BlockedBy` is
the recursive walk of `propagate_failure` as a least fixed point.

### TopologicalSort

`add_task` adds one subtask and extends the `dependents` lists exactly as the two
loops of the code do, which for a dependency listed twice gives two entries when
the dependency is already there and one when it comes later. `begin_sort` computes
the in-degrees, `pop_queue` is one turn of the loop, `finish_sort` compares the
length of the result with the number of nodes.

### LoopController

One action per method. `begin_iteration` has three outcomes, which are three
actions: the timeout, the pause and the grant. The clock is the Boolean `expired`,
which `ClockExpires` sets at any moment after `start`; only `start` and
`reset_for_new_task` restart it, and `extend_iterations` does not.

### Executor

`call` is the public method in progress and `pc` the statement it is at:
`check` (health, validation, routing), `plan`, `order`, `next` (the top of the
`for` over the execution order), `tools`, `code`, `review`, `fix` (inside
`_execute_task`), `settle` (after it), `plan_failed`, `raised` (the exception
handlers). Between two values of `pc` the code asks an agent, so a step of the
model is everything from one answer to the next question. The pairs
`begin_iteration` and what follows from the answer are one action
(`ReviewerApproves`, `ReviewerRequestsChanges`, ...); `TimesOut` and `Pauses` are
the two other outcomes of the same call.

`active` and `kept` tell the two graphs of a session apart. `execute` stores its
graph in `_task_graph`; `execute_additional_task` iterates a local one while
`_task_graph` keeps the old. `client` is `none`, `open` or `closed`; a closed
client makes every answer a failure. `changes` and `previous` hold fingerprints,
as model values, because the stagnation test only compares them; the similarity
threshold, which may hold for different fingerprints too, is a free Boolean.
`checkpoints` holds the graphs the rollback manager has seen.

`wait` says whether a tool of the step under way is kept waiting. The tools run in three
places: a tool plan, the tools the coder asks for, and those the planner asks for
(`RunsTools`). Two waits inside them have no timeout, `input()` for an approval
(`core/hitl.py:245`) and `readline()` of a tool server (`core/mcp_client.py:146`). `ToolWaits`
enters such a wait from any of the three places, `Answered` ends it, and `Proceeds` is a step of
the call that waits for nothing or has waited. While a tool waits neither the caller nor anything else of
the run takes a step, since it is one thread.

The caller follows `cli/app.py`: `execute` once, `continue_execution` when the
result asks for it and the user agrees, `execute_additional_task` in project mode,
and `rollback_to_checkpoint`, which is public and which no command of the
application calls at present, between two calls.

Assumed: writing telemetry and logs does not fail (a failed write between
`mark_failed` and `propagate_failure` would skip the propagation); errors of the
learning memory are swallowed by the code itself; agents and tools turn their
exceptions into results. What does raise is modelled: checkpoint writes, the
timeout, the planner's input contract, ids given twice, cycles, refused
transitions, health and validation errors.

### TaskRun

Begin, adopt one plan, start a PENDING task whose dependencies are COMPLETED while
no other is RUNNING, end it, block tasks that depend on a failed or blocked one,
conclude or pause, resume. Success may only be concluded with every task
COMPLETED. `Executor!ImplementsTaskRun` maps `verdict` from `call`, `client` and
`result`.

### FileGuard, DiffEngine, Rollback and Workspace

`files` maps each path to its content or to `Absent`. A content is a model value and stands
for the bytes of a file. `AsText` gives the text that is read of it: `read_text` turns every newline
into `\n` (`core/file_guard.py:316`), so that what is kept of a file to undo a diff, and what a snapshot
holds, is its text (`read`), and writing that back is not the identity: the file has the text it
had, with other newlines perhaps. `Torn` is what a write leaves that fails after `write_text` has truncated the file, `Large` are the
texts a snapshot does not hold but backs up. `modified`, `created` and `deleted` are the
three sets of `FileGuardState`: a file once counted stays counted, and the limit
compares their union. The rate limit, the path policy, the size limits and the
operating system may refuse any call; the callers choose that freely (every
`..._Fails` and `..._Raises`, and the set `refused` of a checkpoint). A backup is
named by the stem of the file and the second, and written whole or not at all.

A diff is its path, its type, the content it makes and the content its
hash was taken of; hunks are the content they produce. Two ways lead to a diff with
hunks, `create_hunks` and `modify_hunks`, and neither carries a hash. `applied` is the
stack of `_applied_diffs`; its entries also hold `before`, which is history: what
the file really was when the diff was applied. `base`, the workspace the engine began with, and `touched`, the
files that anything but a completed apply or undo has written to since, or that an ADD has
overwritten, are history too.

`create_checkpoint` includes `_cleanup_old_checkpoints`, which takes the oldest out one by one, from
the list, from memory and from disk, and may stop at any of them because the file cannot be
unlinked (`orchestration/rollback.py:309`); `create_checkpoint_Raises` is the
failed save, after which the checkpoint is in memory and nothing is cleaned up. `finish_rollback` may
stop in the same way (`orchestration/rollback.py:378`): the memory is then without the checkpoints it came
to, the last of their files is still there, and the list has all of them. `stuck` is history: the ids
whose file stayed. `disk` maps an id to what can be read of its file, and `get_checkpoint` finds a
checkpoint in memory or there, so that one whose file stayed can be rolled back to. In a
checkpoint `truth` (the workspace when it was taken) and `refused` are history. A
rollback is `rollback_to`, one `restore_file` per snapshot in any order, since the
order is that of a set, and `finish_rollback`; a file that cannot be restored ends it
with the rest left alone.

`pc` is `idle`, `changes` (in the loop of `_apply_changes`) and `changes_failed` (it is
about to return False), `multiple` (in the loop of `apply_multiple`), `undo` (its inner
loop) and `multiple_raised` (the exception leaves it), or `restore`. The checkpoint and
the batch are the executor's; `apply_multiple`, `rollback_last` and `rollback_all` are
public and are called by no component of this repository, so that `Workspace` calls
them whenever nothing else is under way. `Edit` is a command an agent runs or a user with an
editor; it may come between any two steps, but not within a step: one `apply`, from the validation to the
write, is atomic in the model.

### FileLock

A lock file is an inode with a name; `open` follows the name or makes a new inode, and
`unlink` removes the name, whatever inode it stands for by then. `pc` is the place of a
process in `write_lock` or `read_lock`: `waiting` (the polling loop), `held` and the steps of
one update (the `with` block), `leaving` (the `finally` clause up to the close), `unlinking`.
A timeout goes through the same `finally` clause, as in the code, and so unlinks a lock
that somebody else holds. `release_all` may be the last call of a block. `Age` makes a lock
file old enough for `cleanup_stale_locks`, and only a write to it makes it young.
The updates are those of `AtomicFileWriter`: a copy, a temporary file, a
rename; each truncation and each completion is a step. The writer never takes the lock it
is given, so a caller that wants one takes it, as `Updates` does. `Die` is a process
that dies anywhere.

### LLMClient, AgentAnswers and AgentRun

`resident` is what the server has in memory, `current` what the client believes. `complete`,
`stream`, `load_model` and `unload_model` are series of requests: `step` is the request under way and
`use` the method it belongs to. Each may fail on the way there (the server did not
see it) or on the way back (it did), hence `MayDo`. The failures of an unloading are caught when
the transport fails and end the series when the status is an error, as in the code.
`failed` is history.

An answer is a record of what the parsers tell apart: the shape of its root, whether it
fits the schema, its items in order with ids and dependencies, its issues with severity, file
and blocking flag, how many lines a fix changes. `ParsePlan`, `ParseCode`, `ParseReview` and
`ParseFix` follow `_parse_response` of each agent to its result, including the salvage of a plan
and the `ValidationError` that the coder does not catch.

`execute` begins an execution; `attempt_calls` is the call of the model, `completion_proceeds`
the client at work, and `attempt_concludes` what follows from the answer: a success, the
last attempt, another one, a rejection by `_validate_output` (which may come or not), a timeout.
`named` is the agent telemetry believes to be running.

### MemoryData and Memory

Texts are sets of words and tags; the similarity of two patterns is computed from them as
in the code, in fractions. `WithPattern` merges a pattern into the first it is like, `Deduped` does so
with one after the other, and `dedupe_patterns` sorts the result as `list.sort` does, which leaves equals as
they are (`Sorted`: a stable sort is a strict order on the places of a list, `InOrder`). `Upserted` adds what is new to
a list of nodes or edges; `Trimmed` and `Cut` are the ends of the two record operations. `Memory` performs one operation as `begin_update` (load and change),
`open_for_writing` (which empties the file) and `write_file`. A file that is torn loads as empty
memory. `fresh`, `done` and `disturbed` are history: whether updates overlapped or were cut short.

### CheckpointStore and RunStateStore

A checkpoint is the set of parts written so far: state, files, metadata. `stage` is where the
operation under way is, and `queue` what it still has to delete, the oldest first; creation, deletion
and `cleanup_run` share the deletion of one checkpoint. Ids count up, so the list of a run in the
index, to which ids are appended, and its order by time are that of the ids, and the list is a set.
`written` is history: the checkpoints whose last part was written, which are those that count when
it is asked whether a checkpoint was superseded. A
failure anywhere ends a creation and is
caught in a deletion; `reopen` is a new process that loads the index from disk. `indexLost` and
`runLost` are history: that an index cut short was loaded, and that a cleanup could not save an index
without its run.

The run state is a record with the phase, the tasks, the files and the result; each `mark_*`,
`add_*` and `update_*` is an operator, and `change` applies one of them. Saving is
`open_state` (the file is empty) and `write_state`. A cleanup is `cleanup_old_runs`, which sorts the files by
time and leaves those to go in `doomed`, and one `unlink_old_run` for each, the newest first; an
unlink that fails is passed over, as in the code, and the process may end between two. `from_run_state` is the summary made of a state.

### PTYShell, MCPClient and AgentTools

A command is the number of its call. `input` holds lines nobody has read, `busy` what bash
runs, `output` what the terminal holds. `sentinel_found` takes everything before the sentinel of the
command; a timeout leaves input, command and output where they are. Bash goes on meanwhile: idle, it reads
a line and starts the command in it (`bash_reads`); and the command that runs, which may have timed
out long ago, reads the next line as its own input and may print it, with the sentinel that stands in
it (`command_reads`: `cat`, an interpreter, or a line that is not complete). A command may set the terminal to echo
(`command_sets_echo`), may leave a process behind that prints later (`process_prints`), and may end the shell.
`mirrored` is history: the commands whose line was printed instead of run, or before it ran. Whatever the shell raises, the command goes to
`_subprocess_fallback`.

The output of a server is a sequence of lines, each the number of the request it answers or
0 for a line nobody asked for. `readline` takes the next, whatever it is. `register_server` greets
the process and enters it, answered or not.

`refused` has the four checks of `execute_call` in their order. `gate` is the configuration of the
human in the loop and whether there is a terminal; `check` gives the decisions it may come to.

### Session, Terminal and Repl

The directory of a session is its state, its context and one file per pending change; `SavedUpTo(s, n,
begun)` is what is there when `n` files were written, for a crash in the middle. The diffs of an
earlier save that had more of them stay, and `Loaded` brings all of them back.

`at` is where the application is: at the head of its loop, at the prompt, at the question about
pending changes, or in `_cleanup`. Each command of `cli/commands.py` that changes state is an
action, with the way back to the loop or out of it. `save_fails` is the save of `/pause` or `/exit` that fails
at one of its files: the exception ends the loop, the session becomes an error, and `_cleanup`
saves it once more, over what the first save left (`cli/app.py:266-272`). `_process_task` is what a run of the
executor may do to the session and to files; no run of the executor of this repository
adds pending changes, but the session, the commands and the tests are made for them, so a task
of the model may.

In `Repl` a thread is the number of its task; `executors` counts the executors built, `uses`
says which one a thread has, and `loop_event` whose controller was given the event.
`grace_ends` is the end of the ten seconds' wait. Nothing in the code looks at
the event, so `execute_ends` does not depend on it.

## 3. Runs

| Run | Question | Bounds | Distinct states |
|---|---|---|---|
| `task_graph` | is a cycle reported exactly when there is one, do the incremental lists and Kahn's loop give the order `TaskGraph` describes, can a node be handed out early, does a failure reach all dependents? | a behaviour is about one of two halves: scheduling all dependency functions over 3 nodes and one unknown id, or building and sorting all plans of up to 3 subtasks, any ids (repeated ones too), up to 2 dependencies each, none repeated | 119 772 |
| `executor` | one run with all its properties, liveness and refinement | 9 iterations, 2 fixes, 2 planning rounds, one extension by 2: enough for a full diamond with reviews, for a fix limit reached, for a strategy shift, and for a pause anywhere in a task | 37 863 |
| `executor_session` | does a session of three tasks overdraw the budget, ask with budget left, or come back to a statement without having spent anything? | two more tasks, continuations, one rollback; 2 iterations, so that every call pauses; 3 planning rounds so that planning itself pauses | 107 273 |
| `executor_zero` | do calls still end when nothing is allowed? | all limits 0, which nothing forbids | 2 498 |
| `workspace_diffs` | is a failed batch undone exactly, does the stack lead every file back? | one batch of up to three, both kinds of diffs with hunks, a content with two kinds of newlines, two seconds, one edit from outside | 3 838 666 |
| `workspace_rollback` | what has a snapshot, does a rollback restore it? are numbers given twice? do the list, the memory and the disk agree? | three checkpoints of which two are kept, saves and unlinks that fail, one change, file limit 2; begins with the other newlines in one file or more (`NewlinesInit`) | 2 727 335 |
| `file_lock` | when is a writer alone, and what does a death leave of the file? | 2 processes, 3 lock calls: a third call meets a lock file that was removed under the second; symmetric processes | 400 886 |
| `agents` | is one model in memory at most, is an approval clean, can a plan be run, whom does telemetry name? | 2 models, 2 executions, one retry, plans of up to 3 items cut off after 2, each review with one issue of every kind, a budget of 4 tokens with prompts below, at and above it | 263 725 |
| `persistence` | what do the three stores keep, whatever fails? is an update of the memory one step to the others? | a behaviour is about one store: 2 managers, which are alike (symmetric), 3 updates, with two tools and two values of a preference among them, lists of 2, one reflection kept of each class, a crash; 2 runs, 3 checkpoints of which 2 are kept, one crash or failed write (the theorems are about any number); 3 run states, 4 saves, one kept | 1 083 261 |
| `tools` | which commands run, whose output and whose answer is returned? | a behaviour is about the shell or about the servers: 2 commands of 3 kinds, one of them denied and harmless by its prefix; 2 servers, 2 processes, one line nobody asked for; every configuration of the gate that makes a difference (a terminal is not looked at when the mode is autonomous, nor the rule for CI when there is one) | 1 613 169 |
| `front` | is a pending change ever lost, does undo lead back, is the profile obeyed, whose result does a turn record? | a behaviour is about the terminal or the conversational prompt: 2 starts, 2 changes of one file, two tasks, or a task and a fault; 3 tasks at the prompt | 618 656 |
| `front_interrupt` | has the interrupted run stopped when the next one starts? violated | as `front` | |

The checks of more than one store, or front end, in one run are unions and not products: the
components share nothing, and a variable says which of them a behaviour is about.

Statements of the repository that the model refutes are kept as definitions of the modules. One
has a run, `front_interrupt`; these have a cfg:

| Instance | Module | Property |
|---|---|---|
| `MCExecutorResume.cfg` | `MCExecutor` | `ResumesRunningTask` |
| `MCExecutorBlocked.cfg` | `MCExecutor` | `BlockedTaskIsPassedOver` |
| `MCExecutorClient.cfg` | `MCExecutor` | `SessionKeepsClient` |
| `MCWorkspaceRefused.cfg` | `MCWorkspace` | `KeepsExistingFiles` |
| `MCWorkspaceLatest.cfg` | `MCWorkspace` | `LatestIsKept` |
| `MCToolsOnce.cfg` | `MCTools` | `FallbackMeansNoPexpect` |
| `MCFileLockExclusive.cfg` | `MCFileLock` | `ExclusiveWriteLocks` |

The others are found by naming them in the cfg of their component: `NoFalseCycle` in
`MCTaskGraph.cfg` with `RepeatedDeps = TRUE`, `ContinuesSameGraph` and `ContinueHasGraph` in
`MCExecutorSession.cfg`, `RollbackRestoresState` in `MCWorkspaceRollback.cfg`, `ChangesApplyAtomically`, `MultipleIsAtomic`
and `EditsAreReversible` in `MCWorkspaceDiffs.cfg`, `LimitSparesRollback` in `MCWorkspaceRollback.cfg` with
a file limit of 1, `LatestIsMostRecent` in `MCPersistence.cfg`, and `FreshFixBudget` in `MCExecutorSession.cfg`
with 4 iterations, 2 fixes and an extension of 3. With `c1` in `Large`, a limit of 3 files, two batches and
one checkpoint in `MCWorkspaceRollback.cfg`, `RollbackRestoresTracked` is one of them.

The plans of `MCExecutor` are the fallback plan, a diamond, a chain beside an
independent task, a task with an unknown dependency, and a cycle: with one failure
in a chain there is a BLOCKED task before an independent one, which is the
interesting case of the iteration.

The instances of `Workspace` have two files of one name in two directories, and
contents `empty`, `c1` and `c2`, of which `empty` is also what a torn write leaves, and `c2` is `c1`
with other newlines: a file that was lost, one that was emptied, one that was kept and one that kept its
text only are all told apart. The paths are symmetric. `Large` is empty. A batch of three has up to two diffs to undo
when the third fails, and two of them about one file; that the stack may also hold the entries of earlier
batches is left to the theorem, which has no bound. Three checkpoints with two kept are the fewest with a pruning
before and after a rollback.

The commands of `MCTools` are three: one that is denied although it begins like a listing, a
listing, and one that has to be asked for. In `MCAgentRun` the items of a plan are those that
are coerced differently (a dict with and without an id, a text, something else, an invalid
one), in every order up to three, so that the cut after two meets ids that collide
and dependencies on what is gone. In `MCPersistence` two failures are alike
and the third is not, so lists of two are merged, re-sorted and cut; graph lists of six nodes and four
edges are cut by the second link. In `MCFront` both changes are to one file, the only way
in which an undoing could go wrong by its order.

Deadlock is not checked in any instance: every component waits for calls, and with the
bounds used up, or with nothing left to do, it really stops.

**Fairness.** `FairSpec` has weak fairness of `Proceeds`, the steps of a call under
way that are not kept waiting. A run is one thread, and what a step waits for has a timeout
(the HTTP client, the shell, the subprocesses), with the two exceptions of `ToolWaits`: the user asked for
an approval and a tool server asked for an answer may take for ever. `Answered` is therefore not
fair, and neither are the caller and the clock. A call may hang in a tool, and `CallsEnd` says that
this is the only way in which it does not end: the termination argument is about the loops of the code.

### What the runs show

The order of execution, the budgets and the truthfulness of `success` hold in every session
explored. `CallsEnd` says that a call ends or has a tool waiting for ever, and `EveryStepNearsTheEnd`
why: the budget only shrinks, and on one budget a call leaves the planning once, has fewer tasks to come, or
is at a later statement of the same task. The planning rounds, the coder's tool rounds, the reviews and fixes and
the strategy shift, which the agents may prolong as they like, share that one measure.
For files: a batch that was undone leaves every file with the text it had, and the stack of applied
diffs leads each file back through the texts it had, entry by entry, to the one the engine found (`UndoRetraces`);
a completed rollback restores the text of every file it has a snapshot of (by the theorem below, also
one changed behind the guard). Of the bytes none of this holds: a file with `\r\n` comes back
with `\n`, or the platform's. No checkpoint is in memory without being listed, and a file whose checkpoint
is not in memory is one that could not be unlinked: a removal that stops half-way
leaves one file behind and no other (`CheckpointsListed`).

For what surrounds a run:

- Two writers hold one lock only after a lock file was removed while a process had it open, which a
  release, a timeout and the cleaning of old locks all do (`ExclusiveUntilDisplaced`). A
  death in the middle of an update leaves the content in the file or a backup, and no write
  shows a torn file; a restore does.
- As long as no request fails and no client is replaced, the server has the current model in memory and no
  other. No approval carries an issue that blocks. A plan that was in order stays in order when
  it is cut off. Telemetry names an agent that is not running after a timeout and after a rejection, and in no
  other case.
- As long as updates do not overlap and none is cut short, the memory keeps every fact, the last value of each preference,
  the reflections of high quality, each tool's successes and failures, and, through merging and cutting, the number of
  failures. That of the tools holds only while there are no more tools than signals are kept: a tool that was cut off the list and is
  used again is counted from one again.
  Nothing is claimed of an update that another manager overlaps: what it recorded may be lost, since nobody compares what is on disk
  with what was loaded (`core/memory.py:120`).
  In every memory there ever is the ids of the patterns are distinct, and as long as its list of nodes is not full its
  graph has no edge to a missing one. Although there is no lock
  an update has the effect of one step on the memory until a manager writes over what it has not seen or a write
  fails, and only a manager that stops between emptying and writing loses the memory (`StoreIsAtomic`). A listed checkpoint is complete, whatever crashed, unless a
  cleanup of its run could not save the index.
- A cleanup of run states unlinks none of the runs saved last, as many as it is to keep, whichever unlinks fail
  (`CleanupKeepsRecent`). It goes from the newest to the oldest, so that one whose unlink fails, or that is broken off,
  may be without a run and still have an older one.
- No command that is denied is ever started, late or by the fallback either; what the shell returns
  has the command's own output, though what processes left behind and commands that were given up have printed
  may stand beside it (`OutputIsOwn`). There is one exception, and without it TLC refutes the statement: a command
  that timed out and still runs may read the next line and print it (`core/pty_shell.py:151-166`), or a
  command may have turned the echo of the terminal on; the sentinel in the line then ends the wait before
  the command has run, and what its caller is told is not the "combined stdout+stderr of the command"
  (`core/pty_shell.py:139`);
  an MCP answer is that of another request only after a line nobody asked for.
- No pending change is lost on any way out of the terminal but a crash, and undoing all leads back to the original texts.
  That holds through a save that fails on the way out, since the session is saved once more.
  A turn of the conversational prompt records its own result, or that of a thread left behind.

Statements of the repository that do not hold:

1. A continued run cannot resume the task it paused in: the node is RUNNING, and
   the transition to RUNNING is refused (`MCExecutorResume.cfg`). Since a pause always
   leaves a node RUNNING, `FinishContinue` is only reached after a rollback.
2. After a failure with dependents the run dies at the first BLOCKED one instead of
   going on to the independent tasks (`MCExecutorBlocked.cfg`).
3. The second task of a session uses a closed client (`MCExecutorClient.cfg`).
4. A file that could not be read for a checkpoint is deleted by a rollback to it
   (`MCWorkspaceRefused.cfg`).
5. After pruning, ids are given again, and pruning an old checkpoint removes the newest
   (`MCWorkspaceLatest.cfg`).
6. A dependency listed twice, before the node it names, makes an acyclic plan a cycle:
   `add_task` records it once and `topological_sort` counts it twice.
7. Continuing an additional task iterates the first task's graph, while
   `docs/execution_flow.md` says that "graph state is preserved across continuation".
8. Pausing during planning asks for a continuation that can only fail its
   assertion.
9. A file first changed after a checkpoint is not restored by a rollback to it:
   `_checkpoint` snapshots what the guard has written so far.
10. Changes that fail half-way stay, although `docs/architecture.md` promises "atomic
    application with rollback".
11. `apply_multiple` with `atomic` does not undo when a diff is not valid: the exception
    passes it by.
12. A creating change with hunks overwrites a file that exists, without a backup, and
    its undoing deletes that file.
13. At the file limit a rollback cannot write back files that are counted already.
14. A backup of the same name and second replaces the one a snapshot refers to.
15. An interrupt does not stop the run (`front_interrupt`): `_patch_loop_interrupt` sets an attribute nobody
    reads, on the controller of the run before; the method is to make it stop "cleanly when the user
    presses Ctrl+C" (`cli/repl.py:198-199`).
16. A command that times out in the shell is started again by `subprocess`, while "graceful fallback to
    subprocess if pexpect unavailable" (`core/agent_tools.py:485`) says when that should be (`MCToolsOnce.cfg`).
17. "Exclusive write locks" (`core/file_lock.py`) are not, once a lock file is removed from under a
    holder (`MCFileLockExclusive.cfg`).
18. The fixes of one task may be charged to another: a task that is paused after a fix and then
    rolled back leaves its count, which `continue_execution` does not reset before it starts the
    first task again (`orchestration/executor.py:1303`), though "moving to new task" is what
    `reset_fix_counter` is for (`orchestration/loop_controller.py:283`).
19. `get_latest`, "the most recent run state" (`state/run_state.py:368`), is the last by name.

The inductive invariant of the checkpoints met one more case that no text speaks of: when a
`cleanup_run` has taken a run out of the index and cannot save it, the index on disk still names
the run; `delete_checkpoint` then leaves the index alone, because the run is not in it
(`state/checkpoints.py:269`), and if it is interrupted while it removes the directory, the next process
lists a checkpoint that is not complete. It takes three failures; `CheckpointsUsable` excepts it (`runLost`).

Also visible in the model, and not contradicted by any text: extending the
iterations does not extend the clock; a timeout of `execute` is reported as
`FATAL_ERROR`; a successful additional task leaves the controller in a running
state; the checkpoint of an additional task stores the graph of the first.

## 4. Proofs

All theorems hold for every value of the constants that satisfies the named assumptions of
the modules: limits are natural numbers, plans map ids to sets of ids and none is empty
(`LimitsAssumption`, `PlansAssumption`, `ExecutorAssumption`, `SubtasksAssumption`), special values
differ from ordinary ones (`FilesAssumption`, `CheckpointsAssumption`, `WorkspaceAssumption`,
`LockAssumption`, `ModelAssumption`, `MCPAssumption`, `CheckpointAssumption`, which also wants a run to
exist), and a planner's answer has finitely many items (`RunAssumption`, `AnswersAssumption`). Run ids are numbers, which
is how their names sort (`RunStateAssumption`). The limits of the memory are positive (`MemoryAssumption`); the id of
a pattern is made of its kind and its summary, which has words, since it begins with the kind (`UpdateAssumption`). All the properties the runs check, apart from
liveness, are theorems; each bullet names what makes the property inductive.

- `TaskGraphProofs`: `ReadyMeansDependenciesDone` is inductive with the types,
  because COMPLETED is final. `FailureReachesEveryDependent` needs that a node
  downstream of a FAILED one is PENDING or BLOCKED, which follows from it, and a
  lemma that the least fixed point of the walk is the whole downstream set.
- `TaskRunProofs`: the abstract run keeps its promise. The second half is Kahn's algorithm:
  `SortInv` says that a counter is the number of the node's known dependencies that are
  not out, that the queue is the nodes with none, and that the `dependents` lists built one
  subtask at a time are the inverse of the dependency lists. What is left when the queue
  is empty is then a set in which every node waits for another one, so a cycle is reported
  exactly when there is one (`CyclesAreReported`); and the order is the canonical one (`OrderIsCanonical`).
  Both assume `NoRepeats`, that no list names a dependency twice: without it the statement is false of the code (6
  above).
- `ExecutorProofs`: first the controller alone. `IterationBudget` and
  `PauseMeansBudgetSpent` need each other's companions: the pause is earned
  because the limit in force never falls below the configured one. Then the executor,
  with the invariant `ExecInv == GraphsInv /\ IterationInv`. `GraphsInv` says
  that every graph a session holds, the active one, the kept one and those in
  checkpoints, is one a call may have left: what was started has its dependencies
  COMPLETED, a RUNNING node comes next in an iteration all of whose emitted nodes are
  terminal, and no PENDING node waits for one that was given up, except, between
  `mark_failed` and `propagate_failure`, for the task being settled. `IterationInv` ties
  `pc` to what is known there: `visited` is a prefix of the order and all of it is
  terminal, the task in hand comes next and is RUNNING until it is settled.
  `TasksRunInOrder`, `OneTaskAtATime` and `SuccessIsTrue` follow. Neither part is
  inductive alone: without the prefixes a continued iteration could meet a RUNNING
  node anywhere, and without the propagation nothing says that the dependencies of
  the next PENDING node did not fail.
  `CallInv` is what a call may rely on when it begins: which graph is active, which plans it can
  hold, what a closed client means. With it every step of the controller inside a call is
  one of `LoopNext`, so that its budget carries over to whole sessions (`SessionKeepsBudget`), a
  call asks for a continuation exactly when the controller is paused (`NeedsIsEarned`), and the
  controller runs wherever a statement of a call relies on it (`CallsRunTheLoop`). That a controller is built and
  started once needs `ControllerInv`: without a client it is as it was built, and the call that starts it finds it new; with it a
  session implements the whole specification of the controller (`ControllerIsObeyed`), in which `start` is called on a new controller
  only; the method itself does not ask for that.
  `EveryStepCounts` is the safety part of termination: each step makes the measure of `NearerToItsEnd` smaller, and its
  first component is a natural number. It needs that the task being settled was not visited before, which is
  `IterationInv`; what it does not say, that a call can always go on, is in `CallsEnd`. `WorkInv` is about the
  task in hand and what was proposed for it; with the others it gives the types (`ExecutorTypeCorrect`).
  `FixInv` is about the fix counter, which survives a pause or an exception: with it survives a
  RUNNING task, which no continuation gets past, and that alone keeps the stale count from the next
  task. A rollback takes the RUNNING task away, and so the second half of `FixesInBudget` has the hypothesis
  `rollbacks = 0`; without it TLC finds a counterexample (18 above).
  The limits themselves need none. `ExecutorImplementsTaskRun` is the refinement: under `OneRun`, no additional task and no
  rollback, each action is a step of `TaskRun` under the mapping of `verdict`, or changes nothing
  in it. That the next node of the iteration is PENDING with its dependencies COMPLETED, which
  `TaskRun` demands of a start, is `ExecInv` again.
- `WorkspaceProofs`: `ListInv` says that as long as nothing was pruned the list numbers its own
  places, so that the next id is new; memory is within the list and the disk, but for what is `stuck`, within
  memory throughout. `RestoreInv`: a snapshot that was not refused tells the truth, and
  the files of a rollback under way that are not in `left` are as their snapshots say.
  The theorem `RollbackRestores` assumes that no content is too large for a snapshot, and it
  must: with one that is too large TLC finds `RollbackRestoresTracked` violated. `DataInv` has the types of the stack and the batches and says that no backup a snapshot names, in memory or on disk, is
  ever missing; `WorkspaceTypeCorrect` follows. With it `UndoRetraces` is inductive, as it relates every entry about a file
  to the one before: applying a diff extends the trace of its file by one entry and leaves those of the
  others (`RetraceGrows`), and undoing takes the last one away (`RetraceShrinks`). Since only text is written back,
  it needs that reading a text again does not change it (`FilesAssumption`). `UndoLeadsBack` is the theorem. `BatchInv` adds what `apply_multiple` needs: for each
  path, the first of the batch's entries about it leads back to the file as the batch found it, or the file is untouched,
  and every ADD that is still to come is about a file that was not there. `BatchesAreUndone` follows when the batch
  has no entry left.
- `PersistenceProofs`, locks: `LockInv` is type correctness with `FlocksCompatible` (an exclusive lock on an inode
  excludes every other one on it) and `OneLockFile` (until a lock file is displaced, every open
  one is the one that has the name). Neither `FlocksCompatible` nor the promise is
  enough alone: it is by the name that two processes have the same inode. `DataInv` says what the writer that is
  alone finds at each place of an update: which of target, temporary file and backups hold what the
  update began with. When a lock file was displaced nothing is claimed of two writers but that a content is somewhere,
  and `UpdatesLoseNothing` says just that; `OnlyRestoresTear` needs that a temporary file is complete when it is renamed.
- `PersistenceProofs`, checkpoints: `StoreInv`. What an index names, in memory or on disk, and has its metadata, has everything
  (`CompleteInv`), because metadata is the last part to be written and because a checkpoint loses its parts only
  when neither index names it (`DeletionInv`); that in turn needs that a run gone from memory is gone
  from the disk (`RunsInv`). Only what was written has its metadata (`WrittenInv`). What was returned is in both indexes unless the one on disk is torn (`KeptInv`), which the creation
  (`CreationInv`) has to bring about; and the number kept is counted without what pruning will take (`SoundInv`). A lemma shows
  that what pruning leaves of a finite set is no more than `max_checkpoints_per_run`.
- `PersistenceProofs`, run states: `DiskInv` says that each file a cleanup has still to unlink has as many later ones
  that are not to go as are to be kept. No unlink of the cleanup touches those, and nothing else happens between.
- `PersistenceProofs`, memory: `StoreIsAtomic` says that what the next reader will find (`Stored`: what is being written counts as
  written) changes by one update of all there was. `MemoryInv` needs that a manager that is fresh has made its data of
  what the file still holds, and that until the disturbance one manager writes at most, with nobody else
  fresh. The update takes effect at the opening, which is where the manager gives up what the file holds.
- `PersistenceProofs`, what the memory keeps: `RememberedInv` adds to `MemoryInv` that every memory there is, in the file or
  in the hands of a manager, is well made (`DataOK`), and that until the disturbance the file, and what a fresh manager is
  about to write, hold what is `Kept` of the updates done. `DataOK` has what the three properties need and do not state: the patterns
  are made of failures or changes there are, with frequencies of at least one, and no tool has two signals.
  The proof goes from what each operator makes of a list, over each operation of `Applied`, to the steps of the
  managers. Sorting is a permutation (`InOrderPermutes`); the number of occurrences, a sum, is taken as the
  size of the set of pairs of a place and a number up to its frequency, so that what merging and sorting do to it are bijections
  (`OccurrencesPermuted`) and facts about cardinalities. Ids are distinct after the merging because two patterns of
  one id have one kind and one text, and are merged (`WithPatternIs`). The recursive functions (merging pattern by pattern,
  entering change by change) are shown to exist, and to preserve what matters, by `UpTo`, an induction over the numbers in a
  set, which is provable here: the least number that is missing would have a predecessor that is not.
- `AgentRunProofs`: `ClientInv` ties each request of a series to what the server may hold (`KnowsServer`): unless something
  failed, nothing but the current model, and before the chat the one that is wanted. `RunInv` is what an execution has come to, with
  the name telemetry was given. `ApprovalsAreClean` and `PlansAreRunnable` are about the functions that read an
  answer, for answers of any size: an approval is weighed after the issues were filtered, a coerced plan has
  distinct ids because they are filled in from those that are free, and what is left of an ordered plan after the cut refers only to
  what is left.
- `AgentToolsProofs`: `ApprovalInv` follows a command from its call to its start. Every log entry that
  lets a command run obeys the gate and the profile of its time, and whatever may still be started
  belongs to such an entry: the lines bash has not read, the command it is at, and the call that is
  waiting or has gone over to subprocess. A timeout forgets nothing of this, so a command that starts
  late, or a second time, is one that was let through. `ResultsInv` and `PipeInv` are about output: lines are read in the order of the calls, and
  everything in the input, in bash and on the terminal belongs to the latest call, to one that has given up, or to one whose line was
  printed (`mirrored`); and when the line of the call that is waited for was not printed, its output stands before its
  sentinel and none of it can come after that (`Awaited`). Hence `OutputsAreOwn`. `AnswerInv` says that a line of a
  server nobody has read answers the request under way, as long as there are no unasked lines.
- `FrontProofs`: `ReplInv` says which threads may still write to the result holder, the one waited for and those that
  outlived an interrupt. For the terminal, `UndoInv` traces a stack back to the original file of each path, and
  `SaveInv` says where the undecided changes are at each place of the application: in the session while it runs, on disk
  wherever it may stop, in a directory that can be read.

A comment in each proof module states its invariant in words. TLC has checked the invariants, as invariants of an instance, before they were proved.

Only model-checked: `CallsEnd`, because liveness and ENABLED are out of the prover's reach; its measure is a theorem (`EveryStepCounts`). The statements that do not hold (`InterruptStopsTheRun` and the table in section 3) are counterexamples of TLC. `Workspace` has no
fairness and no liveness property: it leaves to the executor when a batch goes on.

## 5. Plan

Done: the graph, the controller, the executor and its abstract run; the workspace; the locks; the
client and the agents; the three stores; the tools with the shell and the servers; the session, the
terminal and the conversational prompt; proofs about all of them, with the
refinement of `TaskRun`.
Next:

1. An abstract checkpoint store that `CheckpointStore` implements: a set per run that loses
   only what was deleted or superseded.
2. Type correctness of the front ends, the tools and the run states as theorems of their own (their invariants contain it).

## 6. Not modelled

Of the workspace: an edit from outside in the middle of one `apply`, a crash
in the middle of a checkpoint (checkpoints are read back only by id, and a new process starts
an empty list), `copy`, `move` and `reset_state` of the guard, `clear_history` and `clear_all`,
which nothing calls.

Of the client: `health_check` and generation options. Of the memory: the queries that rank entries for a
prompt. Of the tools: those that only read, represented by one, and plugins from outside. Of the
terminal: model selection, display and the prompts of `/model` and `/rollback`; the plan preview is the choice of
declining a task. Of telemetry: everything but the agent it names; writing it is assumed not to fail.

`core/context_manager.py`, `core/contracts.py`, `orchestration/context_pipeline.py` and
`core/semantic_search.py` rank and cut texts and keep no state between two calls;
`orchestration/large_project.py` has no caller, `orchestration/meta_agent.py` reflects on finished runs and
does not feed back into one, and `orchestration/workspace_manager.py` gives each workspace an executor of
its own; `config` is loaded once and gives the constants their
values; `main.py` and `cli/display.py` parse and print. The notes in `PROJECT.json` say why for each
component.
