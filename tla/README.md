# rtmlib in TLA+

A verification project for rtmlib 2, the runtime monitoring library under
`src/`: a shared ring buffer of time-stamped events, lock-free writers, readers
that detect what they lost, periodic monitor threads, and the evaluation of
RMTLD3 formulas over what a reader has seen.  This directory holds the TLA+
modules that model its parts, TLC configurations that check them on small
instances, and proofs, checked by TLAPS, for every instance.

`PROJECT.json` lists the components, the runs, a mutant for every property, the
source lines every definition stands for, the findings, the hazards the
properties aim at, and the theorems.

## The system

| Part | State | Operations | Uses |
|---|---|---|---|
| `RTML_buffer` (`circularbuffer.h`) | `array[N+2]`, the state_t (`top`, `bottom`, `pos`, `event`) that `page` points to, `writer` | `push`, `pull`, `pop`, `read`, `write`, `state`, `length`, `increment_writer`, `operator=` | the macros of `atomic_compat.h` |
| `RTML_writer` (`writer.h`, `ATOMIC_PUSH` in `atomic_compat.h`) | its own `state`, `stateref` | `push`, `push_all` | compare-and-swap on the buffer's `page`, `read` and `write` of slots, the clock |
| `RTML_reader` (`reader.h`) | `top`, `bottom`, `timestamp` | `synchronize`, `pull`, `pop`, `gap`, `length` | the buffer's `state` and `read` |
| `Event` (`event.h`), clock (`time_compat.h`) | data and time | construction, copy, comparison, `clockgettime` | |
| `task` (`task_compat.h`) | `st`, `period`, a thread | creation, trap, period loop | pthreads |
| `RTML_monitor` (`periodicmonitor.h`) | a `task` | constructor, `enable`, `disable`, `isRunning`, `setPeriod`, `join` | writes the task's `st` without a lock |
| `RMTLD3_reader` (`rmtld3/reader.h`) | `cursor` over a reader's window | `reset`, `set`, `set_cursor`, cursor moves, `read_next`, `read_previous`, `pull`, `consumed` | a reader that is its base class |
| formulas and terms (`rmtld3/`) | none: a three-valued result | until, since, eventually, always, historically, durations | an `RMTLD3_reader`, whose cursor they move and restore |
| generated monitors (`tests/custom-rtm-monitor/`) | `_out`, `tzero` | `run`: synchronize, set, compute | an `RMTLD3_reader` and a formula |

How they interact: writers and readers share only the buffer.  A writer prepares
a state_t aside, publishes it by compare-and-swap of `page` and then fills the
slot; readers load `page`, then fields of the state it points to, then slots,
without any synchronisation with the writer; what they lost they infer from
timestamps.  A monitor is a thread that calls a job every period; the job
synchronises a reader, pulls events and evaluates a formula.  Its owner talks
to the thread through one plain field.  A formula walks over the reader's
window with a cursor of its own; the window follows the buffer only at
`synchronize`, while pushes go on overwriting the slots it names.

What is hard about it: the interleaving of several pushes, of a push with a
reader's loads, and of the owner's calls with the thread; publication before
the slot is filled; indices that are out of the ring for a moment; the wraps of
the ring; losses that must be noticed; and that a push, a disabled monitor and a
join end at all.

What makes each part correct: the buffer is a bounded deque that forgets its
oldest event and says so; a push is one push of that deque, takes a bounded
number of steps and never changes a state that readers may be reading; a
reader's events only move forward and what it misses is reported; a monitor runs
jobs exactly between enable and disable and its status tells the truth; a
cursor stays in the window and `set` finds what is there; a verdict that rests on
events is right of everything that was ever pushed, and is never taken back.

## Modules

| Module | Models |
|---|---|
| `RingIndex` | the index helpers every class carries a copy of; `Held`, the sequence of events a ring holds |
| `BoundedDeque` | the abstract specification: what the buffer promises |
| `CircularBuffer` | `RTML_buffer` as one thread uses it, with the `uint8_t` writer counter |
| `AtomicPush` | `push` and `push_all` of any number of writers |
| `ReaderWriter` | one reader composed with `AtomicPush` |
| `Task` | `struct task`, its thread and its creation |
| `PeriodicMonitor` | `RTML_monitor` and its owner composed with `Task` |
| `RMTLD3Reader` | the cursor of `RMTLD3_reader` over a window, with the buffer it looks at |
| `RMTLD3Formulas` | the operators of `formulas.h`, `terms.h` and `rmtld3.h` over what that cursor sees |
| `MonitorJob`, `MCMonitorJob` | a generated monitor's job, what formulas mean, and the monitors of the run |
| `RingIndexProofs`, `CircularBufferProofs`, `AtomicPushProofs`, `ReaderWriterProofs`, `PeriodicMonitorProofs`, `RMTLD3ReaderProofs`, `RMTLD3FormulasProofs` | lemmas and theorems |

**CircularBuffer.**  `push`, `pull`, `pop`, `read`, `write` and
`increment_writer` are one action each: the class is meant for one thread
(`UNSAFE` warns of more).  `read` and `write` are tried with every index up to
the first one that is out of range.

**AtomicPush.**  One action per store to shared memory, together with the load
that feeds it, and per load that decides something; `pc` names the place.  A
copy into the private `evt` and into the prepared state is one step, and the
slot, which others read while it is filled, is written field by field.  `page`
is the pair of the published state and the counter; `CounterMod = 1` is the
layout without counter (ARM, RISC-V); elsewhere the runs give it more values
than there are pushes, as 2^64 does.  A `complete` that re-reads the slot and
a compare-and-swap that fails are the actions `Wait` and `Retry`.  A writer's
own `state` is not initialised by the constructor; the model starts it at zero,
which is sound because every field is written before it is read.  `Overlap`
says whether pushes of different writers may overlap.  `moves` and `seen` are
history variables for `NoABA`.  On `__HW__`, `push_all` is `CircularBuffer`'s
`push`.  The clock advances by a member of `Ticks` at each call and never goes
back.

**ReaderWriter.**  `synchronize` loads `page`, `bottom`, `top` and the times of
two slots, one step each, then branches as the code does.  `pull` reads the
slot, moves `bottom`, reads the next slot's time and calls `gap`.  The error
branch of `reader.h:182-185` is dead (bottom has just been wrapped) and so is
`pop`'s `READ_ERROR` (top has just been decremented from at most `size`).  The
writer numbers its events, so that `last` and `warned` can record what the reader
was told.  `Interleaving` says where pushes may come: between calls, or anywhere
between single loads.  `mixed` is history: it records that a push and a job were
ever under way at once.

**Task and PeriodicMonitor.**  `st` is a plain field, so every test of it and
the assignment that follows are two steps.  `Uninit` is what it may hold before
`create_task` assigns it: the thread is started first, and `ACTIVATE` is 0, the
value of zeroed memory.  Time is kept as `left`, the time until the thread's next
release; `Tick` lowers it and `MaxLate` bounds how late a thread may get, so
behaviours are infinite and liveness is meaningful.  `Faults` are the library
calls that may fail: a call up to `pthread_create` (there is no thread then),
`pthread_attr_destroy` (the thread is there, `st` is not assigned), the thread's
own initialisations, and the wait, which may return early.  A thread that an
error ended is `"broken"`, one that was aborted `"ended"`.  `Owner` is the order in
which the owner calls: any, or that of the tests.  The other variables of the
owner are history: how often `enable` was called, whether the owner has assigned
`st`, whether the thread left the trap before that (`early`), and whether a
`disable` came after `isRunning()` had returned true (`stopping`).

**RMTLD3Reader.**  The buffer (slots, top, bottom), the reader's window and the
cursor.  A push is one action and so is `synchronize` (their single steps are
`AtomicPush`'s and `ReaderWriter`'s business); `set` is one step per turn of its
two loops, with pushes in between.  The operators take the cursor as a
parameter, because a formula saves, moves and restores it many times within one
call.  `SizeT` is the width of `size_t`, for the subtraction in `consumed`.
`from` and `calm` are history: where the cursor was when `set` was called, and
whether anything was pushed since.  `set_cursor` is called with cursors of the
same window, as every caller in the library does.

**RMTLD3Formulas.**  One operator per template of `formulas.h`, as a function of
the cursor and the time: every template restores the cursor around each
evaluation and before it returns, so nothing else can change.  A loop that pulls
until a condition holds is described by the number of pulls after which it
stops.  Times are signed, as `timespan` is on x86.

**MonitorJob.**  `run()` in three actions, with pushes before, between and during
the first two and before the third; the evaluation is one step, on the slots as
they then are, whatever was pushed since `set` returned.  A formula is a tree
(`Eval` is what `rmtld3synth` composes of classes and lambdas).  `Means` is the
reference: the three-valued meaning of a formula over `log`, all events ever
pushed, where an event tells what holds until the next one and after the last
event nothing is known.  It quantifies over all times of an interval, not over
events, cursors or loops, and owes nothing to how the code evaluates.  The code
disagrees with it in some verdicts (see below); `Claims` says which verdicts of a
formula the properties speak of, and `Intact` and `Counted` in which windows.

## Runs

Passing runs:

| Run | Bounds | Shows |
|---|---|---|
| `buffer` | N = 3, two events, up to 255 writers (the documented limit) | `ImplementsDeque`: every order of operations through several wraps is a behaviour of the deque; `OkMeansSingleWriter` |
| `push_serial` | two writers, N = 2, four pushes: the ring overflows and wraps | serialised pushes are pushes of the deque (`ImplementsDeque`), leave the published state alone, never wait nor retry, and return |
| `push_overlap` | two writers, N = 1, four pushes: each writer can publish both its states and lap the ring | `OwnStateIsolated`; `NoABA` with the counter of x86 |
| `reader` | N = 3, eight pushes, two laps of the ring's four slots; loads and stores interleave in every way | `RTypeOK`, also when the reader loads an index that is not wrapped yet; `PullsInOrder` and `SkipsReported` as long as jobs and pushes have excluded each other |
| `monitor` | any calls, any fault, any value in the memory of `st` | `TrapBlocks`: no job before `enable` except after an early start; what `isRunning` tells of the thread; jobs go on; after a `disable` that follows a true `isRunning` at most one job runs and the thread ends; no wait is longer than a period |
| `cursor` | N = 3, clock to 4 with steps of 0 or 1 and any number of pushes, `set` with every time | the cursor leaves the window only when `synchronize` moves it; `consumed() > 0` is right although it wraps; `set` always returns, gets where its loops should (`SetPlaces`), misses nothing in a straight window and, called as monitors do, lands on the event in force |
| `job` | N = 3, five pushes with steps of 0, 1 or 2, ten formulas, bounds up to 3, at time 2 and, for the past, also at 4 | `Sound`: a verdict that rests on events is what the formula means of everything pushed; `Final`: one about the future stays; `Exact`: it comes as soon as the events decide |

Runs with an expected violation, each a disagreement between the code and what
the repository says of it (`findings` in `PROJECT.json` quotes the lines):

- `push_hang`: `ATOMIC_PUSH` waits at `complete` for the slot of a state it never
  reloads.  Two overlapping first pushes are enough: both start from slot 0 and
  the writer that loses goes on finding another event there (only a further push
  that prepares the same state anew could release it).  The documentation says
  wait-free.
- `push_aba`: without the counter (ARM, RISC-V) two pushes of the other writer
  bring `page` back, and a stale compare-and-swap succeeds.  The comment at
  `atomic_compat.h:33-36` has it the other way round: ARM "ensures that any
  inter-living is detected from any source", x86 "suffers from the ABA problem".
  With the counter of x86 there is none: `push_overlap`, and
  `CounterPreventsABA` for any number of writers.
- `reader_calls`: events overwritten between `synchronize` and `pull` are not
  reported by `pull`, because it adopts the new timestamp before it looks for a
  gap; it returns AVAILABLE with an event that is not the next one.  A later
  `synchronize` may still return GAP, after the event was handed on.
- `monitor_disable`: a `disable` before the thread has left its trap is never
  noticed, or is overwritten by `RUNNING`; `join` then waits for ever.
- `cursor_wrap`: `read_previous` is never AVAILABLE at slot 0, since
  `(cursor - 1) < 0` is false of a `size_t`; in a window that reaches past the
  last slot `set` therefore misses the events before slot 0, and the job skips
  its evaluation.  TODO.md:10 says as much: "test a trace that overlaps (current
  unittests formulas fail)".

Other disagreements met while modelling, which no run is spent on:

- In zeroed memory `st` reads as `ACTIVATE` (0) until its creator assigns it, and
  the thread, which is started first, can leave the "trap to block task start"
  (`task_compat.h:193`) before `enable`.  The run `monitor` includes this case;
  `TrapBlocks` says that it is the only one, and without its `early` it fails.
  The creator may then overwrite `RUNNING` with `UNACTIVATE` while jobs go on.
- If `pthread_attr_destroy` fails (`task_compat.h:167`) the thread has been
  started, `st` is never assigned, and the constructor ignores the error.
- `synchronize` can take over `bottom == size`, which the writer stores for a
  moment (`writer.h:65`) in a state it prepares for the second time; `gap` then
  takes the branch that "should not happen" (`reader.h:285`).  `RTypeOK` shows
  that this is as far as the index gets.
- Until the ring wraps, the slot at top is empty, so `timestamp < ts_t`
  (`reader.h:243`) is false and every `synchronize` returns `GAP`; the assertion
  `gap <= 1` of `examples/simplemonitor/simplemonitor.h:27` counts those.
- A spurious wake-up ends the monitor's thread with `fmtx` locked and `st` left
  at `RUNNING` (`task_compat.h:243`): the exception in `RunningMeansAlive`.
- A second `enable` replaces `RUNNING` by `ACTIVATE` for good, and `isRunning`
  is false while jobs go on: why `AliveMeansRunning` is stated for one `enable`.
- The 256th writer wraps the counter (`circularbuffer.h:170`), and attached
  writers are never counted down.
- If exactly one lap was pushed since the last `synchronize`, the window is empty
  although the buffer is full, and the cursor may be outside it.
- A `set` that succeeds on its way back leaves the cursor on the event after the
  one in force.  The in-between check of `until_less` makes up for it with a
  `decrement_cursor`; a caller that does not would evaluate at the wrong event,
  which is why `SetLands` is stated for calls from an event not after t.
- The event that `set` found may be overwritten before the evaluation, which then
  reads a later one in its place and can decide wrongly: with N = 3, events at 2,
  3 and 4, `synchronize` and `set(2)`, which finds slot 0, two pushes at 5
  overwrite slot 0, and until or always with bound 3 takes its first event, now
  at 5, for proof that 2 + 3 was reached.  `Sound` and `Final` exclude exactly the
  evaluations on such a window (`Intact`, `torn`); without that both fail.
- `since_less` (`formulas.h:389`) says UNKNOWN when an event older than t - b was
  seen, which shows that nothing was lost, and FALSE when none was seen and the
  events that decide may have been overwritten.  It also says FALSE if the last
  event looked at is exactly at t - b, although that event is in force after
  t - b.  So a T_FALSE of since, and a T_TRUE of historically, may be wrong;
  `Sound` speaks of the other verdict, which one event is enough for.
- An operator over operators evaluates them at the times of events only.  A
  T_FALSE of a nested until may be wrong because the inner formula holds between
  two events; `Sound` speaks of its T_TRUE.
- `pasteventually_equal` gives the verdict at the first event after t - b, not of
  what was in force at t - b ("the evaluation at one single point",
  `formulas.h:438`).  It is modelled, and no property speaks of its verdicts.
- `duration_term`, if t and t + u lie between the same two events, counts on to
  the last event (`Counted` excludes this); and it is unknown if an event lies exactly at t + u (the
  "[TODO: < or <= ?]" of `terms.h:91`).
- The in-between times are not compared with t + b: with events a at 2, a at 4, b
  at 6 and a at 7, `true U[3] (a U[2] b)` with in-between is true at 2 because
  of a time that is not before 5.
- If events share a time, the earlier one is in force at no time, so `prop` is
  UNKNOWN there and until stops (TODO.md:9: "a trace with repetitive values").
  `Sound` and `Final` hold, `Exact` is stated for distinct times.

Why the bounds are enough: an index can be 0, in the middle, at the last slot or
just past it, and a state can be a writer's own, the other's or the global one;
two writers, a ring of two or three slots and enough pushes to lap it twice
reach every combination.  The theorems cover the other sizes.  In the job's run
five pushes onto three slots lose events and wrap, and bounds up to 3 with
clock steps up to 2 put events before, at and after both ends of an interval;
`tzero` is 2 where only the bound ahead matters, because a formula sees only
differences of times; the past operators, with bound 3, are checked at 2, before
the bound, and at 4, after it, where events can be too old.

Deadlock checking is off where clients may stop: nobody has to push again, a
monitor's owner may stop calling.  `CircularBuffer` never stops.

Fairness: `AtomicPush` assumes that a thread inside a push keeps being scheduled
(weak fairness of each writer's steps; the code yields instead of blocking, so
this is what the scheduler gives), and nothing about when pushes begin.
`PeriodicMonitor` assumes that the thread is scheduled, that time passes and
that a call the owner is in goes on; the owner need not call anything.
`RMTLD3Reader` assumes that a thread inside `set` keeps being scheduled (weak
fairness of its turns), and nothing about pushes, which may go on for ever.

## Proofs

All theorems hold for every value of the constants that satisfies the named
assumptions (capacity at least 1, time bounds natural numbers, ...); a theorem
that needs more says so in its statement.

- *Index lemmas* (`RingIndexProofs`): what `Inc`, `Dec` and `Length` return, and
  how `Held` changes when a slot is filled and top or bottom moves.  `Held` is a
  function over positions, so no induction is needed.
- *The buffer is a deque* (`BufferImplementsDeque`): the type invariant (top and
  bottom are in the ring) is inductive and is all the refinement needs; each
  operation maps to an action of `BoundedDeque` by the lemmas on `Held`.
- *A plain OK means one writer* (`OkOnlyForSingleWriter`), from the invariant
  that the counter equals the number of writers, which is where the limit of 255
  comes in.
- *Own states are isolated, however pushes overlap* (`OwnStateIsolation`), from
  `OwnStateInv`: a writer prepares its own state only while another is
  published, because only the writer itself can publish it.
- *The counter of page* (`SwapsAfterWholeTurns`, `CounterPreventsABA`): that page
  equals the copy a writer loaded says nothing by itself, so `CounterInv` relates
  the counters to the swaps made: page's counter, and that of every copy still
  in use, is the number of swaps modulo the counter's range.  A compare-and-swap
  thus succeeds only after a whole number of turns, however pushes overlap and
  whatever the width; without a counter (`CounterMod = 1`) this allows any
  number of swaps.  That the number of turns is 0 needs a bound on the swaps: `SwapsBegun`
  counts them against the pushes begun, with a cardinality because a push under
  way still has its swap to make.  The hypothesis of `CounterPreventsABA`, no more
  pushes than the counter has values (2^64 on x86), excludes a full turn.
- *Serialised pushes* (`Serialised`: pushes do not overlap, or there is one
  writer).  That a push is a push of the deque is not inductive: it needs to
  know, at every place, how far the prepared state has got and that `page` has
  not moved.  `SerialInv` says that (`PreparedSoFar`, `FillsPublished`), with
  `LastPushComplete` (between pushes the last event is in its slot), which makes
  `complete` succeed at once.  From it follow `SerialFixedSteps`,
  `SerialPublishedIsolated` and `SerialPushImplementsDeque`.  The refinement
  reads the newest event off the published state, since its slot is filled later.
- *The monitor* (`PeriodicMonitorProofs`): `TrapHolds`, `RunningIsAlive`,
  `AliveIsRunning` and `FewLateJobs`, for every owner, every set of faults and
  whatever the memory of `st` holds; none has a hypothesis, the properties
  themselves name the cases in which the code fails.  Each needs an invariant
  that ties the place of the thread to the status and to what the owner has
  called.  `TrapInv`: before `enable`, an assigned `st` is not `ACTIVATE`, and a
  thread that is past the trap left it early.  `SureInv`: a true `isRunning` of
  an assigned `st` shows that the thread is past the trap for good, so that
  nothing but `enable` and the thread's own `ABORTED` can replace `ABORT`.
  `OneEnableInv`: after one `enable` and no early start, `RUNNING` is assigned after
  everything the owner assigned.  The types come with the bound on the wait.

- *The reader's indices* (`ReaderTypeCorrect`): for every capacity and however
  the reader's loads interleave with serialised pushes, every slot index the
  reader uses exists.  `SerialInv` does not say what a reader sees of a state that
  is prepared a second time, so the invariant adds that the indices of every
  state, published or not, are at most `size`: the index that is not yet wrapped
  falls on the spare slot.
- *What a reader gets* (`JobsPullInOrder`, `JobsReportSkips`), for every capacity,
  however many pushes lie between two jobs.  Neither property is inductive, since
  a reader decides by timestamps alone.  `RingInv` says what is in the ring: each
  slot holds the latest of the events that fall on it (`Numbered`, by the slot's
  age), in the order of times (`Timed`), and the event under way is newer than all (`Fresh`).
  `ReaderInv` relates that to what the reader knows; its core is `Upcoming`: the
  slot at bottom holds the next event to pull, or a gap was reported, or the
  timestamp there is newer than the reader's and `gap` will report one.
  Both properties speak of the time before a push and a job first overlap
  (`mixed`; the run `reader_calls` shows a silent skip after it), so the
  invariants have to hold only until then.  Hypotheses: pushes are serialised, and
  the clock tells any two pushes
  apart.  The last one is needed: with `Ticks = {0, 1}` in `Reader.cfg` TLC
  finds a reader that skips events of equal times without a gap.
- *The cursor* (`RMTLD3ReaderProofs`): `ConsumedIsRight` is arithmetic on the type
  invariant, for every width of `size_t`.  `CursorInWindow` needs that a move of
  a cursor between bottom and top leaves it there.  `StraightSearch` needs
  `Searched`: on its way forward `set` has no event in force behind it.
  `SetLandsInForce` needs `Sorted` (the buffer's events are in the order of their
  times, because the clock does not go back) and `Landing`: on its way back from
  an event that is not after t every event is not after t, so nothing is found
  there, and what is found on the way forward is in force.  `LoopsPlace` (every
  undisturbed `set` ends where `Placed` says, the expression by which the
  formulas stand for a whole `set`) needs `Walked`: no place either loop has left
  was one to stop at, and the forward loop began where the backward one ends,
  which no longer shows in the cursor once it has moved on.
- *Verdicts* (`RMTLD3FormulasProofs`): `UntilRestsOnEvents`, `AlwaysRestsOnEvents`,
  `SinceRestsOnEvents` and `HistoricallyRestsOnEvents` say which events of the
  window every definite verdict of the operator rests on, for all windows, bounds
  and subformulas.  They rest on the existence of a least number of moves at
  which the loop stops.  The two about the past also say where a verdict rests on
  the end of the buffer instead of an event: `since_less` may be T_FALSE, and
  `historically_less` T_TRUE, because bottom was reached and bottom's event is not
  older than t - b.

Only model-checked: the liveness properties (`PushCompletes`, `DisableStops`,
`JobsGoOn`, `SetReturns`), which are out of the prover's reach; and `Sound`,
`Exact` and `Final`, whose reference meaning is recursive over formulas (a module
that reaches a RECURSIVE operator cannot be proved about).

## Not modelled

- The evaluation of a formula is one step: pushes during it, which may overwrite
  what it reads, are not interleaved, nor are the single stores of a push with
  the cursor's reads.
- `operator=` of the buffer, which copies the page pointer of its source: nothing
  in the repository copies a buffer.
- A clock that is set back (`CLOCK_REALTIME`): order and verdicts have then no
  meaning to check against.  Other widths and the unsigned `timespan` of other
  platforms: the subtraction t - b of the past operators is only right if signed.
- `join` of a monitor whose thread could not be created (undefined in pthreads).
- `sum_dur` and `mult_dur` (one addition, one multiplication) and the ordering
  operators of `Event`: no code of the library uses them.
- `pattern.h`: tables for dynamic programming that nothing includes.
- `debug()` and the printing macros: output only.
- Hardware memory orders weaker than sequential consistency (the macros use the
  default, sequentially consistent, atomics on `page`; the other fields are
  plain).
- `RTML_buffer::push` and `RTML_writer::push` on the same buffer are not combined:
  the former does not maintain `pos` and `event`, and the tests keep them apart.
- The examples, the board support and the vendored CMSIS and FreeRTOS headers,
  which are three quarters of the repository's lines of C and have no part in
  monitoring: register definitions, start-up code, demo tasks.  The library
  itself is the 3300 lines of `src/src/`, and of those everything that changes
  state is modelled but for the points above.

What could come next: that a verdict stays when events are pushed, for each
operator by itself; what `eventually_equal` and `duration_term` rest on; pushes
between the evaluations of a formula's subformulas.
