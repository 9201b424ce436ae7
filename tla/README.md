# AgentGear in TLA+

This directory models AgentGear (`src/src/agentgear/`): how a task is analysed,
routed and planned, the watchdog that supervises one execution of a plan, the
budget it charges, the two files it leaves behind for other processes, and the
context a task may ask for. TLC checks the models on small instances,
TLAPS proves theorems about them for every value of their constants.

Paths below are relative to `src/src/agentgear/` unless they start with `src/`.

## 1. The system

AgentGear is a library. A task becomes a plan (analysis, routing, planning), and
`ExecutionWatchdog.from_plan` supervises its execution under the same policy. An
external runtime drives one execution by calling the watchdog; other processes
(`agentgear status`, a restarted runtime) see only the files under its `state_dir`.

| component | state it keeps | operations | uses |
|---|---|---|---|
| coordinator, `watchdog/coordinator.py` | everything about one execution | start, advance, record_activity, record_progress, evaluate, begin_recovery, record_recovery_result, record_escalation, checkpoint, complete, sync_heartbeat | all below |
| state machine, `watchdog/state_machine.py` | current state, transition history | transition | - |
| stall detection, `watchdog/stall_detection.py`, `progress.py` | progress events | evaluate (pure), record | policy |
| recovery engine and loop guard, `watchdog/recovery.py` | five counters | next_strategy (pure), counters, exceeded | policy |
| escalation, `escalation.py` | none | decide_escalation | budget ledger, `routing.estimate_cost` |
| budget ledger, `budget.py` | reservations, dispatch count | reserve, commit, release, can_afford | - |
| blocked report, `watchdog/blocked.py` | none | build | - |
| heartbeat, `watchdog/heartbeat.py` | one file per execution | write, read | document store |
| checkpoints, `checkpoints.py` | a directory of segment files per execution | append, all, latest | document store, file lock |
| document store, `safe_json_store.py` | a file, its lock file, its quarantined copies | read, update, write_atomic, quarantine | path security |
| path security, `path_security.py` | the pinned root | containment checks | - |
| analysis, `analysis.py` | none | assess_complexity, assess_risk (pure) | - |
| routing, `routing.py` | none | select_model_tier, select_reasoning_effort, estimate_cost (pure) | policy |
| planning, `planning.py` | none | build_execution_strategy, build_execution_plan (pure; may refuse) | routing, policy |
| context provider, `context_provider.py` | none | request: in-process calls of an optional memory, with a fallback | a memory object outside the package |
| policy and records, `config.py`, `models.py` | immutable values | validation | - |
| CLI and package surface, `cli.py`, `api.py` | none | plan, analyze, simulate, status; printing | all |

What makes it hard:

- one public call of the coordinator is a chain of internal calls: a
  `record_activity` can count, detect a stall, open an episode, charge the budget,
  begin an attempt or block, and write the heartbeat three times;
- any of these heartbeat writes may raise, and cuts the chain at that point;
- counters with different scopes (episode, execution) and different comparisons
  (`>`, `>=`) bound the same thing;
- checkpoints and heartbeats are shared by processes that synchronise with file
  locks only; readers take no lock; anyone who finds a file damaged, or whose
  reads of it keep failing, renames it away; a process may end at any point;
- `status` reads two files that nobody updates together, one of which mirrors part
  of the other;
- a plan's budgets are checked by planning and charged by the watchdog, with
  expressions of their own;
- scores, floors, overrides and staffing rules in three files must point the same
  way for every task and policy;
- the context memory may raise at any point, before it is asked or after, and its
  iterable may never end.

`PROJECT.json` lists under `hazards` each place where this bites, with the
properties that would show it going wrong.

What makes each component correct, in short: the coordinator closes every episode
once, accounts for every charge, lets no late event change a finished or blocked
execution and always knows whether its heartbeat is stale; the ladder is walked in
order and within its bound; the ledger is one pool with hard ceilings; the
checkpoint directory is an append-only log, whoever appends, reads or crashes, and
the heartbeat document always readable, as long as no file is damaged and no read
fails for good; the heartbeat is never ahead of the checkpoints; a harder task never
gets the smaller plan, and every plan that is returned can be started; a context
package is what its source says.

## 2. The modules

    WatchdogPolicy  <--  StallDetection, Recovery, Escalation
    BudgetPool, ModelTiers  <--  Escalation
    ExecutionStates, StallDetection, Recovery, Escalation
        <--  ExecutionWatchdog  <--  ExecutionWatchdogProperties
                                         <--  ExecutionWatchdogProofs
                                         <--  MCWatchdog, WatchdogClaims <-- MCWatchdogClaims
    ModelTiers  <--  PlanningPolicy  <--  Analysis  <--  Routing  <--  Planning
    Planning  <--  PlanningSession  <--  MCPlanning
    Planning, ExecutionWatchdogProperties
        <--  PlannedWatchdog  <--  MCPlannedWatchdog
    PlanningSession, PlannedWatchdog, ExecutionWatchdogProofs
        <--  PlanningProofs
    BudgetPool  <--(implements)--  BudgetLedger  <--  MCBudgetLedger, BudgetLedgerProofs
    SafeJsonStore  <--  CheckpointStore  <--  CheckpointProperties  <--  MCCheckpoint
    CheckpointLog  <--(implements)--  CheckpointProperties
    SafeJsonStore  <--  HeartbeatFile  <--  MCHeartbeatFile
    HeartbeatFile  <--  StatusCommand  <--  MCStatusCommand
    SafeJsonStore  <--  SafeJsonStoreProofs
    StatusCommand, SafeJsonStoreProofs  <--  StatusCommandProofs
    CheckpointProperties, SafeJsonStoreProofs  <--  CheckpointProofs
    ContextProvider  <--  MCContextProvider, ContextProviderProofs
    SumTheorems  <--  the proofs that add up sequences

Two modules are abstract specifications. `BudgetPool` is what any user of a
ledger relies on: one pool, two ceilings, charges admitted whole, only refunds
give back. `BudgetLedger` (reservations, whose sum is recomputed on each call) and
`ExecutionWatchdog` (which only charges) are both checked to implement it.
`CheckpointLog` is an append-only log whose queries answer as of one moment
between their call and their return; the segment files are checked to implement
it.

### The watchdog

`ExecutionWatchdog` has one action per public method, as large as the method: a
`RecordActivity` step that detects a stall also contains the new episode and the
first recovery attempt, or the blocked report. `Stall` is `evaluate()` after its
verdict, `AttemptRecovery` is `begin_recovery()` with its three reasons to
block (`RecoveryBlocker`), `TransitionToBlocked` and `CloseEpisode` are the private
methods of these names. Calls that the code refuses change nothing, and are not
steps; so is a `checkpoint()` whose durable append fails, which comes before any
change in memory.

How the variables relate to the attributes:

- `recent` is the suffix of `_activities` after the progress boundary and `last`
  is its last element. The detector and `is_repeat` read nothing else. The
  boundary (`last_progress_at`, or `_started_at`) never moves back, so what has
  fallen behind it never counts again. The total count is the guard's
  `total_attempts`.
- `guard` is the `LoopGuard`; its methods are the operators of `Recovery`.
- `used` is what the ledger has not released. The coordinator commits each
  reservation as soon as it is made, so the sum is all it depends on.
- `history`, `attempts`, `tried`, `report` are the audit trail, the current
  episode and the blocked report.
- `heartbeat` is the file's content, as the projection that `build_heartbeat`
  computes, and `dirty` is `_heartbeat_dirty`. An action with a parameter `io`
  writes the file: `io` is how many writes succeed before one fails.

- `setup` is how the watchdog was made: the arguments of its constructor and, if
  `from_plan` made it, the estimate that `start()` has to charge.

Data is abstracted as follows: timestamps are small numbers; a slow trivial command
is a flag; costs are integers (thousandths of a unit where tokens are counted in
thousands, millionths where they are counted one by one); `elapsed_seconds` of the
escalation signals is left out, because no code reads it; error texts are classes.

### The files

`SafeJsonStore` has one action per access to the file system: taking a lock (or
timing out on it), `exists()`, reading, the check and the rename of
`_quarantine_and_raise`, the atomic replacement (or its failure), releasing the
lock. A read whose attempts all end in an `OSError` (`ReadFails`) sends whatever the
document holds into quarantine, a valid document too; attempts that fail before one
succeeds are no steps. The rename may fail as well. Each process is in at most one
call, whose record keeps what it has read. Temporary files are private until the
rename and are left out. A document may also hold text that is not valid (`corrupt`)
or bytes that are not UTF-8 (`undecodable`).

`CheckpointStore` composes these steps into `append()` (execution lock, newest
segment, capacity, segment lock, read, write), `all()` and `latest()` (a list of
segments, then one unlocked read each). `HeartbeatFile` composes them into
`HeartbeatWriter.write` and `read`. Processes may end at any step and lose their
locks with it (`flock`), files may be damaged from outside, and reads may fail for
good: the causes of these steps are external to the program. `faults` counts the
damages and the reads that fail for good, and `MaxFaults` bounds them; what holds
only without them says `Undisturbed`, or that `faults` is 0.

Waiting for the execution lock is not a step: until `append()` holds it, it has
done nothing, and its timeout leaves nothing behind. `quarantine_invalid` after a
successful `read()` cannot be reached, because both use the same validator, and
is left out.

`StatusCommand` puts `agentgear status` beside the supervisors of an execution. Of
the checkpoint store it knows how many checkpoints were appended and which of them
are gone with a damaged or quarantined segment. `latest()` takes time there: it
misses no checkpoint that was there when it began, unless that has gone before it
answers, and it may raise. Without losses this is what `CheckpointLog` promises;
with them it is read off the code (`latest` goes through the segments from the newest
down and skips one that is missing), and is an assumption of this module.
`checkpoint()` is cut at its two
effects outside the process: the append, with the note in memory, and then the
write of the heartbeat, which is `HeartbeatFile`'s, step by step. A supervisor that
ends is replaced by one with an empty memory, because nothing loads the
checkpoints of an earlier process.

### From a task to a plan

`Analysis`, `Routing` and `Planning` are the pure functions of the files of these
names, in whole numbers. `Precision` is the number of steps that a twentieth of a
signal is divided into, a constant: weights and documented thresholds are multiples
of a twentieth, so that scores are whole numbers of steps as well. TLC takes
hundredths (`Precision = 5`); the theorems hold for every precision. `saturating`
cuts its quotient off to a step, so that a score may be less than one in a hundred
too low in the instances, and less at a greater precision; the one comparison that
the code makes with such a signal is with 0.5, where this changes nothing. Costs are
in millionths. A refused plan is a record with the budget that refuses it.

`PlanningSession` turns them into steps: each is one `agentgear plan` command, for
another task or under another policy than the one before, so that an action
property compares two plans. `PlannedWatchdog` is `ExecutionWatchdog.from_plan`: the
watchdog's setups are those of the plans that one policy returns for some tasks,
and the same policy's budgets are the ledger's ceilings.

### The context provider

`ContextProvider` is one `request()` after another. The memory it asks is the
environment: it may be missing, raise from its attributes, from `search()`, from the
iteration or from an entry's text, or deliver entries for ever. Its attributes are
read before the `try` of `request()`, so that the exception of a property leaves the
call (`RequestRaises`); all else ends in the fallback. An entry is its length. `served`
records what the memory did, for the properties to compare the package with.

## 3. The runs

Names in `MC*.tla` give the instances. All state spaces are explored completely.

| run | what it shows | distinct states |
|---|---|---|
| `wd_recovery` | episodes, ladder, blocked reports, loop guard, late events, what opens a stall | 97 000 |
| `wd_budget` | watchdogs of three plans (one agent, a team of three, a critical task) and a bare one: a returned plan can be started; budget, escalation limit, types, with three signals (none, one-step, critical) and charges until a ceiling stops them | 126 000 |
| `wd_mirror` | heartbeat freshness and the end of episodes while any write may fail | 139 000 |
| `ledger` | four reservations in every interleaving of commit and release | 203 000 |
| `cp_log` | two appenders and a reader, crashes anywhere, capacity 2, three appends, up to two faults, damage or reads that fail: until the first fault the log is implemented, filled in order, and keeps what was acknowledged; always: capacity, lock order, and every call ends | 250 000 |
| `status` | two supervisors that may end and be replaced, two checkpoints that may be lost, a viewer and one fault of the heartbeat: mutual exclusion, no heartbeat lost before the fault, and a status whose checkpoint is behind its heartbeat only when that checkpoint was lost | 2 876 000 |
| `plan` | 290 tasks under 9 policies, all pairs: monotone plans, thrift, critical signals and blends | 2 600 |
| `context` | budgets of 1, 2 and 4 tokens, entries of 0, 3 and 7 characters, at most three looked at: truthful packages, and every request that asks the memory ends | 340 |

Each run's properties, and the faulty variant of the model that each of them
detects, are in `PROJECT.json`. Faulty variants stand in the modules right before
the definition they vary, and are used by nothing else.

Why the bounds suffice:

- `ActivityBound` (4, 4 and 2): with `MaxIdenticalFailures = 1` one failure already
  stalls, so four activities give up to four episodes: enough for an episode
  after a success, and for `MaxTotalAttempts = 3` to trip. With two fingerprints
  every stall signal can be the one that fires.
- The ladder has two rungs (`wd_recovery`, attempt bound 3: the last resort comes
  first) or three (the others, attempt bound 2: the bound comes first). What
  happens at the top of the ladder depends on which comes first, not on its
  length; `LadderIsWalked` is proved for every length.
- Times `0..3` with a no-progress bound of 2 give activity before, at and after
  the boundary and a stall by time.
- Capacity 2 with three appends fills a segment and rolls over. The store compares a
  count with its capacity and looks at the newest segment only. Four appends
  (`MaxAppends = 4`, two rollovers) with one fault give 404 000 states and the same
  results, but take more than twice the time.
- The four tasks of `wd_budget` are one agent (four more charges fit), a team of
  three that leaves less than one recovery, a critical task that reaches the cost
  ceiling before the token ceiling, and one whose plan is refused for its tokens.
- The tasks of `plan` lie on both sides of every staffing threshold and reach all
  four refusals, all tiers and teams of one to six; the policies differ from the
  default in one choice each (weights, team size, token budget, review, critical
  thresholds, leniency). With the critical thresholds at 1.0 some risk scores reach
  the override of 0.85 without a critical signal. One task is CRITICAL without any
  signal of 0.85 (three at 0.84, architecture at 1.0 and twenty failures: 0.859), one
  only just with all three at 0.99 and no other reason for a team.
- One fault is enough for everything that is said until a fault; with two, one
  process can act on a segment that another has quarantined meanwhile.
- In `context` two entries of seven characters cost one token each and four when
  joined, so that rounding and separators decide; three entries suffice to have
  one taken, one skipped and one that does not fit.
- Two writers and one reader: every race in the store is between two processes,
  or between two and the file that a third has renamed.

### Fairness

- `SupervisedSpec` (`wd_mirror`): `evaluate()` and the recovery methods run only when
  called, so `EpisodesEnd` assumes of the supervisor exactly that it calls
  `begin_recovery()` while STALLED and reports a result while RECOVERING. It
  assumes nothing of heartbeat writes, and nothing of which result it is.
- `RunningSpec` (`cp_log`): each process inside a call keeps running (weak
  fairness of its steps, of which a crash is not one). Nothing is assumed of
  starting calls, of damage or of crashes. Locks need no fairness: the inner lock
  is never contended (`SegmentLockUncontended`) and taking the outer one is where
  the call starts. A read that fails for good is no step of it either, but ends the
  call no less than a read that succeeds.

- `ContextProvider`'s `Spec`: the code inside a request keeps running and the memory
  answers each call in the end, if only with one more entry. There is no timeout:
  a memory that blocks in `search()` blocks the caller.

### Where the code and its documents disagree

Four runs expect a violation, and `PROJECT.json` lists them as findings.

| run | statement | what the code does |
|---|---|---|
| `claim_quarantine` | only corrupt segments are quarantined | check and rename are apart: a reader can rename away a healthy segment, with an acknowledged checkpoint in it |
| `claim_unreadable` | an unreadable file is caught | bytes that are not UTF-8 raise `UnicodeDecodeError`, and the file stays in place for good |
| `claim_quiet` | an execution never goes quiet | a recovery resumed to PLANNING ends where no method takes it further |
| `claim_resume` | a BLOCKED execution may be resumed by `begin_recovery()` | `begin_recovery()` requires STALLED, and nothing else leaves BLOCKED |

`claim_quarantine` is run without reads that fail (`ReadsMayFail = FALSE`), because
the tests mean those to quarantine a healthy document
(`src/tests/test_safe_json_store.py:168`). Together the two mean that
`AcknowledgedOnce`, `SegmentsFillInOrder` and `ImplementsLog` hold only as long as
no segment is damaged and every read succeeds in the end: one process that cannot
read a segment, for want of permission or of a file handle, takes its checkpoints
away from all others. `cp_log` states them so, and `HeartbeatStaysReadable` and
`StatusNeverBehind` say the same of their files.

`LateEventsChangeNothing` is about the other half of what `_require_active` says: it
leaves the way from BLOCKED into RECOVERING open, and would hold as well of a code
that had it.

Reading the code for the model also showed, without a run of its own:

- the attributes `memory` and `search` of a context memory are read before the `try`
  (`context_provider.py:157`): one that raises makes `request()` raise
  (`RequestRaises`), although `src/README.md:252` says that the provider "never raises";
- `routing.py:36-38` says that a risk score of 0.85 forces a review: routing forces
  the tier only, and a policy whose critical and multi-agent thresholds are 1.0 has a
  task of that score (all three signals at 0.99, architecture at 0.49, two failures)
  built by a lone builder (`CriticalRiskIsHonoured` says what holds);
- a risk that is CRITICAL by the blended score alone gets no floor under its
  reasoning effort (`routing.py:193-200` asks for a critical signal), whatever
  `min_reasoning` says (`CriticalRiskIsHonoured` says what holds);
- the Nth identical failure opens a stall (`stall_detection.py:142`), where
  `src/docs/audits/index.md:68` has N tolerated;
- under the default budget of 4 agents every task with an ambiguity of 0.75 or
  more is refused: two researchers, a judge, a builder and a reviewer are five;
- after a restart the heartbeat shows no pending work until the next checkpoint,
  beside a latest checkpoint that may have some;
- a heartbeat write that fails inside `evaluate()` (`coordinator.py:713`) leaves
  the execution in STALLED with no attempt; nothing in the watchdog will call
  `begin_recovery()` again, so the supervisor has to (`EpisodesEnd` assumes it);
- `max_total_attempts` is consulted only in a recovery, so an execution that does
  not stall passes it (`src/docs/audits/index.md:71` says attempt N+1 trips it);
- at FRONTIER/HIGH a critical trigger is refused as `ceiling_reached`, although a
  weaker one would still raise the effort (`escalation.py:220`);
- `max_no_progress_cycles` can never trip (`OneNoProgressCycle`);
- "no recovery strategy available" can never be the blocker (`LadderNeverRunsOut`);
- segment numbers beyond 999999 would be written and not found again
  (`checkpoints.py:97`).

## 4. The proofs

Every safety property that a passing run checks, invariant or action property, is
also a theorem, and so are the three refinements (`BudgetPool` by `BudgetLedger` and by
`ExecutionWatchdog`, `CheckpointLog` by the segment files). The theorems hold for
every value of the constants: any policy the code accepts, any precision of the
signals, any number of processes, any capacity, any inputs, any bound that a run sets.

| module | about | inductive invariant |
|---|---|---|
| `ExecutionWatchdogProofs` | 17 theorems on the watchdog | `WatchdogInv` |
| `BudgetLedgerProofs` | types, settlement, dispatches, `BudgetPool` | `LedgerTypeOK`, `DispatchesCounted` |
| `CheckpointProofs` | types, bounds, locks; order, acknowledgement, `CheckpointLog` | `StoreInv`, `LogInv` |
| `StatusCommandProofs` | the heartbeat file and the status command | `FileInv`, `StatusInv` |
| `ContextProviderProofs` | truthful packages | `GatheringInv` |
| `PlanningProofs` | plans, and the watchdogs made from them | `PlanIsCurrent`, `WatchdogInv` |

`SumTheorems` (sums) and `SafeJsonStoreProofs` (the steps of a file access) hold the
lemmas that several of these share. None of the properties is inductive alone;
what each of them rests on is this.

**Watchdog.** `WalkInv` (types, and `IsWalk`: attempts, tried strategies and guard
follow the ladder) carries `TypeOK` and `LadderWalk`. The lemma `NextRung` shows that
when the tried strategies are the first k rungs, `next_strategy` returns rung k+1 or
is exhausted. `EpisodeInv` needs all the properties of an episode at once: that a
blocked report is about the episode just closed rests on the numbers of the
episodes, that closed episodes are resolved rests on the results of the open one
(`AttemptsResolved`: all but the last attempt have failed), and that the ladder never
runs out rests on a rung being left whenever the state is STALLED. `StartInv` says
what holds before `start()`. For the budget, every step of `Next` is sorted into four
kinds (`AccountStep`: it charges nothing, a start, an escalation or a recovery);
`BudgetAccounted`, the ceilings and the refinement of `BudgetPool` follow from that
alone. `HeartbeatFresh` needs no more than what each action writes last.

**Ledger.** The dispatches are a set of positions to which only a new reservation
adds one; commits and releases leave its kinds alone. The refinement maps `used` to
a sum over the reservations that are not released: a reservation appends one addend,
a commit leaves the sum, a release takes one addend out.

**Files.** `FileInv` says what has been read by whoever holds the lock, or is about
to release it: that a lock is released only by its holder rests on which calls get
that far. `StatusInv` is the same invariant with only the heartbeats of checkpoints
that were appended (`LogInv`), and with what a viewer between its two reads knows:
the heartbeat it has read is of a checkpoint that was appended before its `latest()`
began (`SeenInv`), so that `latest()` can only miss it when it is gone (`ShownInv`).
`StatusUsesTheFile` shows that every step of the status command is a step of the
heartbeat file, so that its theorems carry over. `StoreInv` adds to the types which
locks each call holds, that an appender about to write has found room (`Room`), and
that no segment is newer than the newest call (`Growth`). `LogInv` adds, until a
segment is damaged or a read fails for good, that segments are readable and full up
to the last (`Whole`), that what is stored is in the order of the calls (`InOrder`),
and for each query where it is in the log (`Answers`): what it has read is what the
log held at some moment since the call, up to the segment it is at. The proof that
every step maps to a step of `CheckpointLog`, or to a stutter, reads the witness off
`Answers`. After a fault they fail, as `claim_quarantine` shows, so the theorems on
order, acknowledgement and the log carry the same condition as the properties in
`cp_log`; bounds, locks and types need none.

**Context.** `GatheringInv` relates, step by step, what was delivered to what was taken
and to the entry being measured.

**Planning.** The invariant is only that the plan is the one of the task and the
policy; the work is in the functions. Quotients, saturated counts, clipped
thresholds and the highest cleared breakpoint are shown monotone one by one
(`QuotientMonotone`, `SaturatingMonotone`, `ClipMonotone`, `ClearedMonotone`), then the
assessment (`HarderIsAssessedHigher`), the route (`RoutingMonotone`), the staffing
(`StaffingMonotone`) and any sum over the team (`TeamMonotone`, used for the number of
agents and for the cost). `ThriftNeverRaisesTier` adds that the weights move every
threshold the same way (`ShiftMonotone`). The second half of `CriticalRiskIsHonoured`
rests on `CriticalBlend`: with every signal below 0.85 the blend reaches 0.85 only if
architecture or failures are at 0.5 at least, and each of these staffs a team, with
its reviewer, whatever the policy says. For the watchdogs of plans,
`PlannedStartIsAdmitted` follows from `StartInv` and from what a returned plan was
compared with, `PlannedWorkIsNotFree` from `BudgetAccounted` and the ceilings.

Two inductions were needed, over the length of a sum (`SumAppended`,
`SumConcatenated`) and of a concatenation of segments. They are done on the set of
lengths at which the claim fails, which would have a least element. The models use
`SumFunction` and `FlattenSeq` of the community modules for this reason.

Each of these invariants also holds as an invariant of TLC on the instances of the
runs: `WatchdogInv` on `wd_recovery`, `LogInv` on `cp_log`, `StatusInv` on
`status` and `GatheringInv` on `context`. The `MC` module and the module of the proofs,
extended together, give TLC what it needs to repeat this.

Assumptions: those the modules name, which TLC evaluates on each run. Worth knowing
of them: strategies are distinct (`StrategyLadderAssumption`); a policy's ladders
ascend, its weights are not all zero and its numbers are in range (`ValidPolicy`, as
the `__post_init__` methods enforce); one process of the checkpoint model either
appends or reads (`CheckpointAssumption`: the calls of one process come one after
another, and a program that does both is two processes of the model); only
`from_plan()` makes a planned watchdog, and one policy gives planning its budgets
and the ledger its ceilings (`OnePolicyAssumption`).

Only model-checked: `EpisodesEnd`, `CallsEnd` and `RequestsEnd`, because liveness under
fairness (and `ENABLED`) is beyond the prover; and the four runs that expect a
violation.

## 5. Not modelled

- Path containment and root identity (`path_security.py`), retried reads and
  renames that succeed in the end, `fsync` and power loss.
- The text of reports, rationales and recommendations; validation of argument
  types, which refuses a call before it changes anything.
- The rounding of float costs.
- The rounding of float scores: signals, thresholds and weights are fractions with
  a common denominator, of any size (Section 2).
- The levels that only name a range of a score, summaries, the model names of the
  tiers, and reading policies from files (`config.py`).
- `agentgear simulate` (one escalation decision without a ledger) and the parsing
  and printing of the command line; the interfaces to sibling packages, which
  hold no state (`benchmark_interface.py`, `_sibling_utils.py`).

## 6. Plan

1. Done: the core (watchdog, budget, stores), the decisions (analysis, routing,
   planning), the context provider, and two compositions: planning with the
   watchdog, and the supervisor's two files with the status command.
2. Done: every safety property of the runs as a theorem, with its invariant.
3. Left: the functions of `Recovery`, `Escalation` and `StallDetection` against
   reference definitions, and lemmas about the numeric edges of `hazards` that no
   property covers.
