# A TLA+ model of Marslander AI

Marslander AI trains neural networks that land a shuttle on Mars. A *trainer*
process keeps a population of genomes, hands them out over TCP, collects the
ratings that *runner* processes compute by simulation, and breeds the next
generation when every genome has been rated for every landing case. The session
survives restarts in the file `training.dat`.

This directory holds TLA+ modules that model the program, TLC configurations that
check them on small instances, and proofs that TLAPS checks. All paths below are
relative to `src/`.

## 1. Inventory

### Looper: `shared/internal/looper.{h,cpp}`

*State.* An atomic counter `_c` of the posts under way, two buffers of callbacks
that are swapped, a mutex and a condition variable.
*Operations.* `post` (any thread) pushes to the front buffer and notifies if
`_c == 1` or 64 callbacks wait. `run` (one thread) waits for the front buffer to be
non-empty, swaps, calls the callbacks of the back buffer without the mutex and clears
it.
*Interactions.* Both programs run on it: the trainer's server threads post one
callback for each message; the runner's callbacks post themselves.
*Hard.* `_c` is incremented before the mutex is taken and decremented after it is
released; two posters may both see 2.
*Correct if* callbacks run once each in the order of the pushes; the swap never gives
old callbacks back; nothing sleeps on queued work (this one fails, see section 6).

### Trainer core: `trainer/internal/trainer_app_server_outcomes.cpp`, `trainer_app_state.cpp`

*State.* `app_state`: population with uids, generation, uid source, a table of ratings,
a timeout for each genome, and a cursor into the population.
*Operations.* The outcomes handler records what a runner reports, marks complete
genomes, breeds the next generation and has it written when all are complete, and
answers with genomes whose timeout (30 s) has passed.
*Interactions.* Called by the looper; joins the thread that writes the file; its
response is sent by a server thread after it has returned.
*Hard.* Reports are late, repeated, from an older generation or never come; the process
is killed while the file is written; ids are drawn again after a restart.
*Correct if* a row of the table only ever holds ratings of the genome it stands for,
complete genomes leave circulation and no other, ids are never used twice for
genomes that a runner knows, the elite survives, and what a runner sees is on disk.

### Session file: `trainer/internal/trainer_app_persistency.cpp`

*State.* The stream with its buffer, and `training.dat`: a checksum word and the data.
*Operations.* `persist_state` truncates the file, writes a placeholder and the data,
reads the data back, and writes the checksum; `check_integrity`, `app_state::read`.
*Hard.* The file is replaced in place; a kill may fall between any two steps.
*Correct if* a start finds a whole snapshot or knows the file to be torn.

### Trainer start-up: `trainer/internal/trainer_app_init.cpp`, `trainer_app.cpp`

*State.* The future `_state_future`, which gates every handler.
*Operations.* `do_init` decides between a new session and the file; a new session asks
for its parameters, draws population and cases from one uid source concurrently,
and is written before it serves.
*Hard.* Overwriting an existing session; parameters that exclude each other.

### Server: `trainer/internal/server.cpp`

*State.* The acceptor, `threads_count`, and on the stack of each thread a
`response_wait_state` that the sinks of its callbacks point into.
*Operations.* Accept, hand the acceptor to a new thread, read, post, wait, write.
*Hard.* Lifetime of the wait state, the number of threads, the loss of the acceptor,
waiting without a timeout.
*Correct if* never more threads than allowed, one acceptor, no dangling sink, complete
responses, and every request settled.

### Runner: `runner/internal/`

*State.* Landing cases, the population it was given, the request it will send next.
*Operations.* `do_init` fetches the cases; `do_simulation` sends the last outcomes,
fetches genomes, simulates each of them on each case.
*Hard.* Transfer errors drop the outcomes; an empty response repeats a request; a
runner outlives a session.

### The rest

These parts meet the others only through what they leave behind: a session, a new
population, a case, a text, a packet, a file.

| Component | State and operations | Hard | Correct if |
|---|---|---|---|
| Set-up: `trainer_app_init.cpp`, `trainer_app_init_algo_fac.icc`, `user_input.h`, `trainer_input.h` | the prompt and the parameters; questions asked again until a reply converts; validated, completed, stored by name, made again at a later start | aliases, missing and surplus values, rounding, parameters that exclude each other | what is accepted can breed and is accepted again |
| Breeding: `trainer_app_server_outcomes.cpp`, `ga.h` | the new population, filled slot by slot | moved-from parents, a surplus child, ids drawn in parallel, division by zero | the generation `Trainer` takes it for; parents whole and in order; weights within bounds |
| Random engine: `concurrent_random_engine.h` | one engine, a buffer for each thread, listed in both | threads and engine end in any order | no output drawn twice, each buffer freed once, nothing used after its end |
| Session export: `trainer_main.cpp`, `trainer_app_session_export.cpp` | options; the replay of one genome on one case; a sampled dump | ids taken in the other order and swapped | the pair asked for is the pair replayed; no row dumped twice |
| Landing cases: `landing_case_randomize.h` | a case drawn at random | noise, a flat anywhere, its ends replacing points | a case that can be played |
| Landing simulation: `shared/marslander/marslander.cpp`, `runner_app_simulation.cpp` | position, velocity, fuel, controls; one turn; the rating | landing and crash told apart in whole metres | landings rank before crashes; the rules of the game (this one fails, see section 6) |
| Replay exporter: `runner/internal/replay_exporter.cpp` | a chain of asynchronous savers over a directory | any number at once, any call failing | at most N files, the latest ones |
| State codec: `state_base64.cpp`, `base64.cpp` | text form of a state | tails of one and two bytes; text next to raw bytes | decoding inverts encoding |
| Data transfer: `data_transfer.{h,cpp}`, `protobuf_streams.*` | packets of messages on a stream | a stream that ends anywhere, headers read unchecked | what is accepted was sent |
| Network: `nn.h`, `linalg.h`, `nn_randomize.h` | weights to controls | floating point | outputs in range |
| Visualizer: `MarslanderViz/` | playback cursor | a frame longer than a turn | indices in range |

## 2. Plan

Order of the modules, the most important behaviour first. "Done" is what this
directory holds; the rest is the plan.

| | Module | About | State |
|---|---|---|---|
| 1 | `WorkQueue`, `Looper`, `LooperProofs` | abstract queue, the double buffer, theorems | done |
| 2 | `Trainer`, `TrainerProofs` | the outcomes handler, breeding, crashes, theorems | done |
| 3 | `SessionFile`, `Persistence`, `PersistenceProofs` | abstract file, `training.dat`, theorems | done |
| 4 | `Server`, `ServerProofs` | server threads composed with `Looper`, theorems | done |
| 5 | `Fleet`, `FleetProofs` | runners composed with the trainer's handlers over connections that break; a generation completes; theorems | done |
| 6 | `Breeding` | `next_generation` step by step; implements the choice in `Trainer!NextGenerations` | done |
| 7 | `Setup`, `SessionExport` | the start-up dialogue with factories and conversions; options, replay and dump | done |
| 8 | `RandomEngine`, `RandomEngineProofs`, `ReplayExporter`, `ReplayExporterProofs` | the buffers of threads; the chain of savers; theorems | done |
| 9 | `LandingCase`, `Simulation`, `PartsProofs` | cases drawn; a game and its rating; theorems about them, `Setup`, `SessionExport`, `Codec`, `Breeding` and `Framing` | done |
| 10 | `Codec`, `Framing` | text form of a state; packets | done |
| 11 | `Player`, sessions one after another for `Fleet` | playback; a runner that outlives a session | not done |

Composition: `Server` takes its looper from `Looper` by `INSTANCE` and joins actions;
`Fleet` extends `Trainer` and joins its actions with those of the runners. Refinements:
`Looper` implements `WorkQueue`, `Persistence` implements `SessionFile`, `Fleet` implements
`Trainer`, `Breeding` implements the breeding step of `Trainer` (`ImplementsNextGeneration`).

## 3. Modules and the code

`PROJECT.json` gives the lines each definition translates.

**`Looper`.** `Enter`, `Enqueue` and `Leave` are the three parts of `post`: the increment,
the critical section with the condition for `notify_one`, the sentry's decrement.
`CheckPredicate` is one evaluation of the wait predicate under the mutex: swap or
sleep. `StartCallback`, `EndCallback`, `ClearBatch` are the loop. `SpuriousWakeUp` is
the licence of the standard. `front` and `todo`/`spent` are the two buffers: a callback
that has been called stays alive in `spent` until `bbuf.clear()`, which is what destroys
the sinks in `Server`. A callback that throws ends the process (`noexcept`) and is
not modelled.

**`Trainer`.** `s` is `app_state`. `OnOutcomes` is the handler as a whole: `Recorded`,
`MarkedReady`, then `HandedOut`/`Response`, or, with every row complete, a member of
`NextGenerations`, `GenerationChanged`, the start of the writer, and then the response.
The writer is a thread of its own, so `Truncate` and `Backfill` are actions;
`Deliver` needs the writer to have ended because the handler joins it. Handlers run one
after another; the model also keeps the next handler waiting until the response of the last has
been sent or lost, which the code does not. That a response is sent later than a following handler runs
changes nothing for the properties: they speak of `handed` as a set and `seen` as a maximum,
and a genome of a later response is on file before any response of its generation leaves. A lost response needs no
action: a genome that was delivered need never be reported. `timeouts` is kept as
an age in ticks, capped where it stops mattering. A genome carries the ratings its
simulation yields (`fit`): they are a function of its weights and the cases.
`FreshStates` lets the population draw any distinct uids of the shared source, in the
order of its rows, as `do_init_from_scratch` draws them beside the cases.
`Children` lets crossover and mutation make any genome with any new uid, and `Sorted`
is every order `sort` may leave.

**`Persistence`.** `DoInit` holds the decisions of `do_init`; `Open`, `PutBlock`,
`Flush`, `ReadBack` and `Seal` are `persist_state` as the file system sees it. A checksum is
the sequence of blocks it was computed from: it tells any two contents apart. An
empty file is refused, because the failed read leaves the failbit set. The first
flush carries at least one block of data, the header of the state being written in
one piece. The stream's errors (a full disk) are ignored by the code and not modelled.

**`Server`.** One variable for the place of each thread in `server_thread`, one for the
acceptor, the looper's variables, and the callbacks `<<client, message>>`. `Handle` is
the start of a callback and includes the handler's only effect on the connection, that
it appends to its sink; `ReleaseSinks` is `bbuf.clear()`. A client is one
connection; what it sends has arrived when `Read` runs, or the connection breaks:
a client that keeps a connection open and neither sends nor closes would hold its
thread, as `read` has no timeout, and is not modelled. The handlers themselves are those of
`Trainer`.

**`Fleet`.** `mode` is where a runner is in `do_init` and `do_simulation`; `held` is the population
it has to simulate and, after `Simulate`, the outcomes in `s.req.data`; `gen` is `s.req.generation`.
`Ask` is a request that has reached the trainer together with `Trainer!OnOutcomes`; `Receive`
is `Trainer!Deliver` to the runner that waits, `Unread` the same to nobody. A broken connection is
`EmptyResponse` (nothing came: a `logic_error`, the request is sent again with its outcomes) or `TransferError`
(anything else: `do_init`, the outcomes are dropped). That a request fails is said
when the trainer could take one; before that it waits in the backlog.
Restarting a runner is free, restarting the trainer is bounded by `MaxKills`.

**`Setup`.** `phase` is the prompt that is waited at, `setup` the fields of `app_state` it fills. A
reply is a number in hundredths, nothing, or what `stod` and `stoul` throw on; `Convertible`
and `Converted` are `cvt_num`, `UnitAccepted` and `UnitCount` are `cvt_unit` and `unit_value`. `ValidArgs` and
`Validated` are `validate_args` (alias, validator, normalizer), `XvrInstance` and `MtnInstance` are `instantiate`, which
takes the name as it is. `Reopen` is a later start from the file, which stores names and values.

**`Breeding`.** `Select`, `Crossover`, `CutOff`, `Mutate`, `Replace` are the steps of `next_generation`. The loop over
crossovers is sequential (its iterator offers no random access), mutations come in any order.
A genome is one gene, the draws of the random engine are chosen; `Offspring` and `Mutations` are the operators of
`ga.h` on that gene. `ImplementsNextGeneration` takes the end of it as a step of `Trainer`, by an `INSTANCE` of
`Trainer` that has the same population.

**`RandomEngine`.** One action for what a thread or the engine does between two places where another can come
in: the insertion under the mutex and the link without it, the end of a buffer before and after it takes the
lock. `~concurrent_random_engine` holds the lock from entry to entry. `drawn`, `freed`, `stale` and `overlap` are
history.

**`SessionExport`.** `Start` is `parse_options` with the decision of `do_init`; the prompts, `Swapped` and
`Find` are `do_make_replay` up to the game, `Play` a turn of it; `AskSample`, `Sample` and `WriteDump` are
`do_dump_session`.

**`LandingCase`.** `GetFlat`, one `FillSurface` for each turn of the loop, `FillPosition` for each draw of a start. A
draw is any value of its range; the real-valued noise becomes any abscissa it can round to. After `tie_break` draws in vain a
start is drawn above the flat, to the end of it; `surface_level` has no point behind the surface to read for the last
abscissa of the zone, so that `Above` is asked of the others only.

**`Simulation`.** `Simulate` is one turn of the runner's loop: `Moved` is `apply_state_changes`, `Outcome` and `Touchdown` are
the rest of `simulate`. `Rate` is `eval_outcome_rating`. The network's answer is any of `outputs`. Velocities and sines
are in thousandths and tilts multiples of 15 degrees, positions are whole metres as in the code. `SimulationAssumption` asks for a case like those
`LandingCase` makes: a surface that rises in x, a flat of two points of one altitude, a start above it with fuel.

**`ReplayExporter`.** `DoExport` makes a saver, which then takes its own steps: `CreateDirectories`, `Enumerate`
(after `LastSaveOver`), `RemoveOldest` for each entry, `SaveReplay`; each system call may fail, the listing too. `faults` and `held` are history.

**`Codec`.** `Encoded` and `Decoded` give each character and byte from the bits they are made of; `Stored` is how many bytes
`decode` writes, one more than `Required` after a tail. `DigitsRead` and `NumberRead` are `is >> n`.

**`Framing`.** A stream is a sequence of counts, headers and fields. `Cut` ends it anywhere, with a part of a token: numbers are
little-endian and read into zeroed headers, so that a part of a header is itself, has no size, or is
nothing; a part of a count is the count's lowest bytes, some other count perhaps. Ids fit into one byte and counts into four. `LimitOf` is
the limit pushed for a message, `ReadUpTo[n]` the loop of `read` after n messages (a function, so that it can be proved about).

**`MCParts`** puts these side by side: a behaviour is a behaviour of one of them (`part`) while the others rest. They share no state
in the code either; where one uses another it is by a value (`Setup` makes the algorithms
`Breeding` runs, `LandingCase` the cases `Simulation` plays, `Codec` writes for `ReplayExporter`).

## 4. Runs

Sizes are distinct states; every run ends within a minute, `parts` in a little more.

| Run | Bounds | Shows |
|---|---|---|
| `looper_pair` | 2 posters, 3 callbacks, `buf_sz` 2; 2400 | the counter is exact, fewer than `buf_sz` callbacks can be stranded, swaps are safe; implements `WorkQueue`; what an awake looper can see is started |
| `looper_single` | 1 poster, 4 callbacks; 7963 | no lost wake-up, implements `WorkQueue` with its liveness |
| `trainer_pair` | 2 rows, 1 elite, 1 case, 2 ratings and NaN, 3 generations, kills anywhere; 34128 | the six invariants of the trainer and survival of the best |
| `trainer_skip` | `elite_count = population_size = 2`, 2 cases; violation | the fault when a session that is all elite has completed a generation |
| `persistence` | 3 sessions, 3 generations, 3 blocks; 394 | implements `SessionFile`, refusals are justified, rest is on disk, no session is overwritten unasked |
| `persistence_dir` | the same with `-d`; violation | the overwritten session |
| `server_pair` | 2 of 3 thread slots, 2 connections, 2 messages each; 67776 | threads, acceptor, wait states, complete responses; only a looper asleep on queued work keeps a request waiting |
| `server_lost_wakeup` | 2 threads, 1 message each; violation | the request that is never answered |
| `fleet_alone` | 1 runner, 2 rows, 1 elite, 1 kill, any losses; 21414 | a generation completes, with partial hand-outs and breeding |
| `fleet_race` | 2 runners, 1 row, 1 kill; 9092 | a response is a receipt for the outcomes sent; a current label is about the current population; implements `Trainer`; a generation completes though runners take a genome from each other |
| `parts` | each part on a small instance, see below; 404564 | one invariant for each part |
| `landing_sideways` | one surface, 48 first turns, 4 turns; violation | a legal touchdown that is a crash |

What the invariants of `parts` say: `SetupUsable`, what the dialogue accepts can breed and is accepted again by a later start.
`BreedingSound`, breeding ends in a generation `Trainer` allows, parents are never
genomes that were moved away and come in the order the algorithms rely on, weights stay within their bounds. `EngineSound`,
no output is drawn twice and every buffer is freed once. `ExportSound`, what is replayed was asked for and is
whole, no row is dumped twice. `CaseIsPlayable`, the surface spans the zone without
turning back, the safe area is one flat segment, the ship starts above ground and never flies away from the flat. `LandingsRankFirst`, a landing from above puts the ship down
on the flat and ranks before every crash. `LastReplaysKept`, one saver at a time works in the directory, which keeps the last N. `StateComesBack`,
decoding inverts encoding exactly when the first raw byte is no digit. `CutIsNoticed`, a reader never accepts a message that was not
sent, though the last one may have lost its last fields.

*Why the bounds are enough.* The looper: the interesting overlap is two posters in the window around
the critical section with the run thread on either side of its check; a `buf_sz` of 2,
reached with a third callback to come, covers the notification by size. The trainer:
ids can only collide across a generation that is bred again after a kill, which takes two generations and
one kill; two rows with capacities 0 to 2 give
partial hand-outs and a cursor that wraps; equal ratings give ties, and `TheBestSurvive` is proved for any
number of rows. The file: one
block is torn or not, two can be mixed, three leave a strict prefix that ends inside
the data. The server: two threads pass the acceptor and reuse a slot that has ended.
The fleet: one kill is enough to breed a generation twice and to forget ratings, one
row and two runners to report a genome twice, two rows to lose one and keep the other.
The parts: populations of 1 and 30 around the 5% question, all kinds of values for each algorithm; three genomes with none, one and two elite, an odd and an even
number of children for the crossover that makes two; two threads and three fillings of a buffer of
two; populations of 4 sampled at a threshold of 2; zones of 24 metres with 5 points (noise) and 13 (none), flats at every place; a slope, a
flat and a drop, four turns; two files kept, three savers, none to three files to begin with; tails of no, one and two bytes;
three messages where two are allowed. Two constants go beyond the program so that every branch is taken: a start may lie below the highest ground (in the program
the lowest start is above it and `fill_position` never draws twice; `tie_break` is 1 for the same reason), and every second landing may be saved (the program saves each).
The bounds `MaxCapacity`, `MaxBatch`, `MaxGeneration`, `MaxSession`, `MaxMessages`, `MaxKills`, `MaxOutputs`, `MaxSaves`, `MaxFields` and the sets of callbacks and
clients are the only ones; they appear in guards or in the sets inputs are taken from.

*Deadlock* is checked in the looper's runs, where a spurious wake-up is always possible.
The other systems stop where the code does (a refused start, the last bounded
generation, all clients served, a part that is done) and their configurations say so.

*Fairness* (`looper_pair`, `looper_single`, `server_pair`, `server_lost_wakeup`): a thread
inside `post` completes it, the run thread and the server threads take the steps they can,
which is what a preemptive scheduler gives. Nobody has to post or to connect, and no
spurious wake-up is promised. In `fleet_alone` and `fleet_race` time passes, the trainer writes
its file and sends its responses, and a wait ends once its response is made or cannot come (weak
fairness); fetching the cases, asking, taking work, simulating and reporting are strongly fair for each
runner: connections and runners may fail infinitely often, but what a runner can do again and again it does at
some time. Without that no protocol would complete anything; the code's part is that
every failure leads back to a state in which it can be tried again. A generation with a genome
that has no rating (0/0 for a case without fuel) is excepted by the property, and is never completed. The trainer and
the file alone are checked for safety only.

## 5. Proofs

TLAPS proves the following for every value of the constants that satisfies the named
assumptions, which TLC evaluates in the runs.

**`LooperProofs`** (`LooperAssumption`: finitely many posters, the run thread not one of them, `BufSz` at least 1).
`TypeCorrect`, `CounterCountsPosts`, `SwapIsSafe`,
`StrandingIsBounded`, `LonePosterAlwaysWakes` (one posting thread), `LooperIsQueue` (the refinement).
`_c` is a natural number only because it counts the threads inside `post`, so the
inductive invariant joins types (with `_c` an integer) and the count. With one poster
and the run thread asleep the count says that the poster's push reads 1, and notifies.

**`TrainerProofs`** (`TrainerAssumption`: sizes, finite cases, `NaN` no number, distinct markers).
`TypeCorrect`, `IdsAreForGood`, `RowsHoldOwnRatings`,
`ReadyRowsAreComplete`, `RestIsOnDisk`, `GenerationsAdvance`, `TheBestSurvive`.
None of these is inductive alone. `Inv` adds `Sound(s)` (ids distinct and below the uid
source, each row empty or its genome's ratings, ready exactly if complete), and what is
known of the file, of the response under way and of what has been handed out: the ids
handed out are spent in memory *and in the file*, and where either population has such
an id too it names the same genome, so that breeding again from the file cannot give it
to another. That holds because a response leaves only after the file is complete. `TheBestSurvive` also
takes that a sort is a permutation, and that an injection of a finite set into itself
is onto.

**`PersistenceProofs`** (`PersistenceAssumption`, and `DataDir = Cwd`).
`TypeCorrect`, `RefusalIsJustified`, `RestIsOnDisk`,
`OverwriteIsAsked`, `FileIsSessionFile` (the refinement). `Inv` says that a file is unsealed or whole, how far the
write has come in each phase, and that an unsealed file at rest was cut by a kill.
Without `DataDir = Cwd` the last but one is false: `persistence_dir`.

**`ServerProofs`** (`ServerAssumption`: finitely many thread slots, at least as many as the limit, `MaxThreads` at least 1).
`TypeCorrect`, `ThreadsStayBounded`, `AcceptorStaysHeld`, `SinksPointToLife`, `ResponsesAreComplete`. `Inv` needs the
bookkeeping of three parties at once: the count of the threads that have begun, which the decision to make another
one reads; who serves which connection, and that a connection waits in the backlog or is served and by one thread;
and how far a thread is in posting its request, so that a callback the looper holds belongs to a message of a
thread that waits. A wait ends when every sink is released (`ReadyMeansReleased`), and sinks are
released only of callbacks that ran: hence no dangling sink, and no incomplete response. None of it uses that the looper wakes up.

**`FleetProofs`** (`FleetAssumption`: a request has room for what it was given, `MaxCapacity <= MaxBatch`, and `TrainerAssumption`).
`FleetImplementsTrainer` (the refinement: every step of a runner or of the network is a step of `Trainer` or
stutters), with which `FleetKeepsTrainer` takes over the theorems of `Trainer`; `ReportsAreRecorded`,
`LabelsTellPopulation`. For the last two the invariant says that what a runner holds is labelled with a generation the trainer has
shown (so it is on file), and it says of the file what `LabelTellsPopulation` says of memory: a restart makes the
file's generation current, and whoever holds its label holds its genomes.

**`RandomEngineProofs`** (`RandomEngineAssumption`). `EngineIsSound`: for any threads and sizes of buffers. `EngineInv` says what
a thread's buffer and its entry in the list know of each other at each place a thread can be at,
as long as no thread made or ended its buffer while the engine was destroyed, and that what waits in buffers was
made, waits once and was not drawn.

**`ReplayExporterProofs`** (`ReplayExporterAssumption`). `ReplaysAreKept`: a saver past its wait has all earlier ones
behind it, and what its loop still has to look at is the end of the directory as it is now
(`ListIsTail`), so that removing by a listing made before removes the oldest; the room it makes is there when it writes.

**`PartsProofs`** holds the theorems about seven more of the parts.
`ExportsAreSound` (`ExportAssumption`: ids of genomes, of cases and of nobody are apart): the lower bound in the sorted sample is an insertion
without repetition, and the ids looked up are those asked for, perhaps swapped.
`CasesArePlayable` (`LandingCaseAssumption`: no more points than metres): the noise leaves the abscissas in order because the last
one a point may get is not beyond the first of the next (`AbscissasAscend`); the invariant `CaseInv` follows the loop
before, over and behind the flat, also when one point is both its ends or the last turn has yet to place one.
`LandingsAreFirst` (`SimulationAssumption`): over the flat `surface_level` is its altitude, whatever the rest of the surface
(`SegmentOverFlat`); the way from above it to below meets it between the two ends of the way, and rounding does not
leave the flat (`TouchdownOnFlat`, `RoundedBetween`); each term of the rating is bounded by its weight (`Ratings`). That fuel is only spent
makes the theorem inductive.
`SetupsAreUsable` (`SetupAssumption`: amounts are natural numbers, the largest of them stand for those of `unsigned long`,
and a reply that is no number is none): `SetupInv` says at each prompt what the answers before it have settled. What a
validator accepts need not be what the session's file holds, which is the resolved name with the missing values filled in;
`CompletedIsUsable` says that this passes the validator again, under that name, and is not changed by a second completion.
`StatesComeBack` (`CodecAssumption`: bytes, and a count of points of one or two digits): `DecodeInverts` says that `decode`
undoes `encode` for every text that is not empty, group by group (`SextetsOfGroup`, `OctetsComeBack`) and at the padded end, and that the byte
it writes too many is zero. `DigitsReadToTheLast` finds the end of the digits as a least natural number, without induction;
if the first raw byte is a digit, it is read with the count, and the bytes run out before the fields are filled.
`BreedingIsSound` (`BreedingAssumption`: sessions the start-up makes, with a child to breed and a tournament of one at least;
the old weights within the bounds): `BreedInv` says that slots of the elite hold the genomes moved over, that a bred slot has two
parents behind the elite in order, that the loop stands at a whole number of turns from its end (`AlignedFits`), and that
the ids drawn are as many as the children that have one, each its own. At the end it gives the witness for
`Trainer!NextGenerations` (`DoneIsNextGeneration`). Weights stay inside because each of the bounded operators is a
point between two others (`LerpStaysBetween`), `mutation_power` with any outcome of its two comparisons too.
`CutsAreNoticed` (`FramingAssumption`: zero is no id, ids fit into a byte and counts into four): `Framed` and `ReadUpTo` are built
turn by turn, and facts about every turn are proved with `UpToLast`, which is induction said of a set of numbers (the
least one missing cannot be). `FlattenLayout` and `PacketsAreLaidOut` say where each message of a packet begins; `FramingInv` says that each
token that arrived is the one sent there, but the last perhaps a part of it. Then `LoopReads`: after n messages without an
exception the loop holds the first n of the packet, and is where the next one begins or behind the end of the stream, where
the zeroed header has an id the factory does not know (`EndIsNoticed`). A torn count may be any number, but nothing
follows it: the first turn throws, or there is none (`LoopStops`).

*Only model-checked*: liveness (`AwakeDrains`, `ImplementsFairQueue`,
`OnlyLostWakeUpsHang`, `GenerationCompletes`), which fairness and `ENABLED` put out of the
prover's reach. Every invariant, action property and safety refinement of the passing runs has a theorem.

## 6. Disagreements found

1. **The crossover is not skipped** (`trainer_skip`). `trainer_app_init.cpp:234` accepts
   `elite_count = population_size` with "Crossover pass is skipped."; `next_generation`
   dereferences the crossover that was never set up when the first generation is
   complete (`trainer_app_server_outcomes.cpp:120`), and a restart refuses the session.
2. **`-d` is for reading only** (`persistence_dir`). `trainer_main.cpp:64` says the directory is
   where session data is located; `persist_state` writes to the working directory
   (`trainer_app_persistency.cpp:232`). The next start with the same `-d` begins a new session over the old one
   and does not ask.
3. **A lost wake-up** (`server_lost_wakeup`). Two server threads inside `post` at once both
   read `_c == 2`; neither notifies (`looper.cpp:54`), and both then wait for responses without a
   timeout. If they are all the threads there are, the trainer answers nobody from
   then on. `OnlyLostWakeUpsHang` says that nothing else keeps a request waiting, and
   `LonePosterAlwaysWakes` that a single server thread is never affected.

4. **A legal touchdown is a crash** (`landing_sideways`). The landing test adds half of the
   horizontal velocity to the altitude where the vertical one is meant (`marslander.cpp:48`): a ship
   that comes down through the flat upright and within both limits (`!rules/rules.md:15`), but drifts to the right faster than twice the metres it ended
   below it, crashes; one that drifts to the left is not held to the test at all.

Seen while modelling and not counted as a disagreement with a statement of the
repository: an empty request (a connection dropped before anything was sent) that reaches
a thread which could not pass the acceptor on closes the listening socket for good
(`server.cpp:140`); `AcceptorHeld` says that nothing else does. Others:

- The rate of `uniform` is checked only if there are more than three values (`trainer_app_init_algo_fac.icc:222`), a `scattered` threshold
  that is not a number passes, and a sway of 0 is accepted.
- At the end of the input a prompt without a default repeats for ever (`user_input.h:18`).
- `landing_case_randomize.h:231` takes the larger of the drawn fuel and `fuel_amount_max`, not the smaller.
- `--replay` reads the genome first where the help says case first; `Swapped` hides it for ids that exist (`ExportSound`).
- `do_export` is called with the case before the genome and declared the other way round.
- `--keep-replays` removes the oldest files of the directory, whoever wrote them.
- A saver that cannot make the directory is over before it has waited, so that the next one may overlap an older one; `LastReplaysKept` excepts it.
- A state whose first abscissa has a digit as its low byte is not read back (`StateComesBack` says exactly when); `decode` writes one byte behind
  its result after a tail, which is the zero that ends the string, and `encode` reads words behind its end.
- A message that was cut at the end of a field is accepted short, if it is the last (`CutIsNoticed`).
- A landing from beside or below the flat puts the ship where the lines would meet, perhaps outside; a level step makes it 0/0.
- A start at the altitude of the flat or without fuel divides the rating by zero; `Simulation` assumes neither.
- `fill_position` asks `surface_level` for the last abscissa of the zone, which looks for a point behind the last one (`landing_case_randomize.h:76`); only
  the draw after `tie_break` draws in vain can be there, and the program's constants never get so far.
- A saver that cannot list the directory, or not remove the last file of its list, throws in its future and writes no replay; nobody looks at the exception.

## 7. Not modelled

The network: layers, activation functions and `check_obstacle` are floating-point arithmetic, of which the rest uses only that the outputs
are in range; a genome in `Breeding` is one weight. The SIMD checksum and the compensated sums: numeric.
Logging, wording, JSON. The runner's options. Protobuf's parsing and the standard library: external. The build files, shell scripts, the
reference runner (another program's recorded turns) and the Unity scene. A runner that outlives a session. `PROJECT.json` lists
every component with its status.
