# Verification of HYDRA-UMC-SWARM-SYNC

TLA+ models of the swarm state service in `src/src/*.rs`, checked with TLC and
proved in part with TLAPS. Line numbers are those of the Rust sources.

## 1. The system

A *node* is a process that keeps one replicated map: for each key an entry
(value or tombstone) with a stamp (generation, time, writer). Callers post
*scenarios* (`POST /reconcile`: cells, each with its writes), peers exchange
whole maps (`POST /merge`, `GET /state?full=1`). A per-key "highest rank wins"
merge makes all of it converge.

| Component | State it keeps | Operations | What makes it correct |
|---|---|---|---|
| Replicated map, `crdt.rs` | entries with stamps | `set_checked`, `remove`, `restore_entry`, `merge_report`, `max_time`, `generation_of` | merge is a least upper bound; commutative but for refused collisions; generations fit |
| Lamport clock, `lamport.rs` | a time | `tick`, `observe` | never wraps; refuses instead |
| Reconcile, `reconcile.rs` | none (works on a clone) | `check_stamps`, `build_cell_map`, `reconcile_with_prior` | retry changes nothing; order of requests does not matter; a cell ends as written |
| Stamped entries, `entries.rs` | none | `state_entries`, `check_entries`, `merge_entries` | the exchange loses nothing; times move a bounded step |
| Typed records, `typed.rs` | none | `check_value`, `required_generation`, `check_generation` | the attempt of a mission or a zone reservation fences earlier attempts |
| Persistence, `store.rs` | the state file | `load`, `save` | a 200 survives kills and power cuts; never a torn file |
| Merging requests, `server.rs` | `Shared.state` under a mutex | `reconcile_request`, `merge_request` | one at a time; memory and file agree; every request answered |
| Sync evidence, `server.rs` | counts and the ring of the newest conflicts, under a second mutex | `record_conflicts` | counts what was published, once; count and ring tell of the same conflicts |
| Gossip, `server.rs` and `gossip.rs` | position in the round, what was pulled, the last error with each peer | `gossip_round`: pull, merge, push | no write lost or taken back; nodes converge; no error told means that all was exchanged |
| HTTP client, `gossip.rs` | the bytes read of one answer | `exchange`, `parse_response`, `decode_chunked` | a cut answer is noticed, a whole one taken, and the exchange ends |
| Routes, body limits, worker pool, `server.rs` | four threads, a listener | `serve` | a read is never older than an earlier answer; a slow upload holds one worker |
| Clock measurement, `clocksync.rs`, `server.rs`, `gossip.rs` | a window of samples per peer | `time_probe`, `compute`, `record`, `stats` | the offset told is as close as the round trip allows; no peer keeps the others from being probed |
| Metrics, `service_metrics.rs` | counters by class | `count`, `render` | counts every answer given before, and its own |
| Startup, `main.rs`, `clocksync.rs`, `server.rs`, the unit file | the command line and environment, the state file, the port | `run_serve`: flags, configuration, refusal of an open address, load, bind; restart by the supervisor | what was answered is served again; who listens stays; no node is open by mistake; a node that can serve does |

How they interact. Four worker threads and one gossip thread share one
`Shared`. A merging request takes the state mutex, checks the request against the
map, merges into a clone, saves the clone, replaces the map, releases the mutex,
and only then takes the evidence mutex. The gossip thread pulls from a peer with
no lock held, merges what it got through `merge_request` like any request, and
may push its own state. Nodes share nothing but these messages.

What is hard here: two threads between check and publication; a kill or a power
cut inside `save`; a save that fails after the merge succeeded; requests retried,
reordered and overlapping; an exchange that is merged long after it was read; a
peer too far behind to accept what would bring it up to date; the ends of the
64-bit ranges; two presence rules; fencing tokens that share the generation with
deletions. `PROJECT.json` lists each at its line under `hazards`.

## 2. Modules

    LwwMap           crdt.rs: entries, ranks, joins, the operations on one map
      NodeRequests   reconcile.rs, entries.rs, typed.rs, lamport.rs: requests, checks, one step of each loop
        Handlers     the loops run to their end: Handle(r, m), what a whole request makes of a map
          AtomicNode abstract node: one variable, one accepted request per step
          Swarm      nodes, gossip threads, messages, kills (EXTENDS Handlers)
        SwarmNode    detailed node: threads, mutex, save steps, crashes, evidence
                     (Atomic == INSTANCE AtomicNode WITH state <- mem)
    HttpAnswer       gossip.rs: one exchange, byte by byte
    Startup          main.rs: the processes of one node, from the command line to serving
    ClockSync        clocksync.rs: the clock thread, its peers, and clocks that may be set
    WorkerPool       server.rs: the routes, the threads that serve them, and what they wait for
    Loops               induction over the rounds of a loop, for the proofs
      HandlersProofs    the laws of the map, and what a request of any length does to one
        AtomicNodeProofs, SwarmNodeProofs, SwarmProofs
      ClientProofs      what is made of the answers of peers: ClockSync and HttpAnswer
    StartupProofs, WorkerPoolProofs
    MCAtomicNode, MCSwarmNode, MCSwarm, MCHttpAnswer, MCStartup, MCClockSync,
    MCWorkerPool        instances for TLC

`ClockSync` shares nothing with the others: the measurements touch neither the map
nor its Lamport times. `WorkerPool` looks at the same locks as `SwarmNode` from the
other side: there the map is in full and only the merging requests are served, here
the map is no more than the set of the merges published, and every route is served.
`Startup` is around all of them: a merge with its save is one step, and what is looked at is
which process serves which map after which start. `HttpAnswer` is below `Swarm` and
`ClockSync`: what they take as an answer or a failure of a peer is what it makes of the
bytes that came.

The loops of the code are written twice. `SwarmNode` makes each iteration an action, with
the locals of the loop in `frame`, so that other threads and crashes come between any two.
`Handlers` makes a loop the function from the number of its rounds to what they built
(`CellMaps`, `MergedCells`, `EntryMaps`), which is what proofs can reason about: no module a
theorem reaches has a recursive operator. That the two agree is the refinement
`ServesAtomically` of `SwarmNode` (it implements `AtomicNode` with `state <- mem`), checked
and proved. `Swarm` then lets a node serve a request in one step.

### How state and actions correspond to the code

*LwwMap.* A map is a total function; `NoEntry` is a key without an entry, the
value `Tombstone` a deleted key. `NextGeneration` wraps modulo `MaxU64 + 1`: the
addition at `crdt.rs:193` is unchecked and a release build wraps. `Rank` has both
presence rules. `set_checked` is a pair: `SetCollides` (its error) and
`SetChecked` (its effect); likewise `MergeCollides` and `Merge` for
`merge_report`, whose conflicts are `Contested` and `Conflict`.

*NodeRequests.* Checks in the order of the code do not matter to the state, so
`PassesChecks` is their conjunction. A deletion is not checked against the type
of its key, a record must state `attempt + 1` (saturating) as its generation, and
only `/merge` bounds generations and keys: all as in the code. `NextLocalTime` is
`observe` then `tick` of a new clock.

*SwarmNode.* `Receive` is `serve` up to the call of a handler. `Begin`/`Refuse` take
the lock and check. `BuildWrite`, `FinishCell`, `BuildEntry`, `FinishEntries`,
`MergePart`, `TickClock` are the loops. `WriteTemp`, `SyncTemp`, `Rename`,
`SyncDir` are `store::save`, `SaveFails` its `?`s. `Publish` replaces the map and
releases the lock, `Record` is the evidence, `Answer` the response. `Kill` keeps
what the kernel has, `PowerCut` keeps either side of the last rename that was not
forced to disk, `Restart` is `run_serve` loading before it binds. The file is
three variables: what it reads as now, whether those data were synced, and what
it reads as if the last rename is lost. A merge reports its conflicts in the order of
the keys (`Reports`); `Record` appends those of the whole request to `evidence.history`,
dropping the oldest beyond `ConflictHistory` (`Remembered`), and counts them in
`evidence.resolved`. `published`, `recorded` and `promised` are kept by the model: the
conflicts in the order of the publications and in that of the records, and the newest entry
of each key a 200 was answered for.

*Swarm.* `round[n]` is the gossip thread of `n`: the peer it is at, the stage, what
it pulled. `Pull` reads the peer's state; `MergePulled` merges it later and decides
whether to push; `SendPush` puts the state of the node in `inFlight` and waits for the
answer. `Deliver` is the peer reading, merging and answering; a body that does not fit
(`MaxPush` stands for 1 MiB) is refused before it is read. `Lose` is a request that never
arrives, `GiveUp` the time limit of `exchange`: the sender goes on while the push, no
longer awaited, may be merged at any later time. `failing[n]` is which peers have a
`lastError` in `/stats`. A node that is killed keeps its map, which is what `SwarmNode`
shows of it: between requests the file and the memory agree. `PostTo` is the handler itself on
the map of the node; `known` is joined with the map the post makes of nothing (`Posted`).
That the one is the merge of the other, as `reconcile_with_prior` merges its prior state
"like one more real cell", is the theorem `RequestIsOneMap`. A push is handled as the map it
carries (`AcceptsState`), which is the theorem `FullState`. `StampsAreOwn` and
`PostsAreModest` say what callers are asked for; TLC evaluates them on the posts of the
instance (`PostsAreProper` in `MCSwarm`).

*HttpAnswer.* `ByteArrives`, `Close`, `TimesOut` are the outcomes of one `read` in `exchange`
(a byte, the end, an error or the time limit), `Finish` is the return: too long, or
`parse_response` of what is there. A status line, a header field and the size of a chunk
are one byte each, for nothing in the code looks at a part of one; the line ends and the
text are what they are, as the code searches and slices them. `Readable` is
`serde_json::from_str` as far as it matters: an object that is cut off is none. The servers
are outside: `Framed` says what they may send for a text (chunks of any sizes, a stated
length, or neither and a close) and is asked of all `Answers`, as is that no text begins
another, which JSON objects do not. `Decodes` is the loop of `decode_chunked` as a function
of the place it has reached, so that one can prove about it.

*Startup.* `proc[p]` is a process, at the stage it is at: `Launch` reads the first
argument, `Flags` is everything up to `store::load` that can end the process with 2 (in
any order, for they all end it alike), `Load` and `Bind` what they say, `Merge` a whole
merging request with its save, `Answer` the 200s that followed. A command line is the
sequence of its texts, so that a flag that is last, repeated or followed by an empty text
is found as `find_flag` finds it. The supervisor launches what did not end with 0. `ByHand`
are processes started beside the service.

*ClockSync.* `probe` is the exchange under way: `Send` takes `t0` (`time_probe`),
`Arrive` and `Reply` are `GET /time` at the peer (`t1`, `t2`), `Receive` takes `t3` and
is `compute`, `record` and the step to the next peer; `Fail` is every error of
`exchange`. The module keeps `window` and derives from it what `stats` tells: `IsBest`
and `Jitter`. `Pass` moves all clocks, `SetClock` sets one, also during a probe. An
instant is a microsecond of the code and a unit of the model; `max_rtt_ms` is
configured in milliseconds and compared in microseconds, which the unit hides.
Division is Rust's, towards zero, and the cast of the offset to 64 bits keeps the low
bits (`AsI64`). `clean` and `probe.steady` are kept by the model: which samples were
taken with the clocks as they are set now.

*WorkerPool.* `Take` is the loop over `incoming_requests`, `Route` the chain of ifs. A
merging request reads its body first (`body`), and only then locks the state
(`LockState`), merges and saves (`merging`), publishes (`Publish`) or refuses (`Refuse`),
and records the evidence (`record`). `GET /state` waits for the same lock
(`ReadState`); `GET /stats` and `/conflicts` read the evidence, whose lock is never
held across anything slow and is therefore one step. `Count` and `Respond` are
`write_json` and `METRICS.respond`. A request that is refused before it needs
anything of the node is `plain`. `before` and `told` are kept by the model: what had
been answered when a read was sent, and what each answer told.

## 3. Runs

| Run | Distinct states | Shows |
|---|---|---|
| `AtomicNode` | 182 | the handlers as functions of the map: retries, order, lossless exchange, time step, fencing, each quantified over all pairs or triples of requests in every state |
| `SwarmNode` | 219,896 | two threads, four requests, failed saves, kills, power cuts: promises, durability, memory and file, count and ring of conflicts (the ring is the end of the list of those recorded) |
| `SwarmNodeAtomic` | 8,905 | implements `AtomicNode`; never goes back; everybody is answered |
| `Swarm` | 23,725 | ring of three nodes that pull, one of which may fall too far behind: no write lost, stamps agree, peers accept each other, and only a node too far behind is left out |
| `SwarmConverges` | 21,945 | two nodes that pull and push, add-wins: a node that tells of no error did exchange; convergence |
| `Startup` | 349,294 | 33 command lines, a supervisor, a second process, a damaged file, a taken port: what was answered is served, no start that fails had listened, no node is open by mistake, the service comes back |
| `HttpAnswer` | 3,576 | every framing of a text, cut or silent at every byte: noticed, or taken in full, and the exchange ends |
| `ClockSync` | 511,543 | two peers, one out of reach, any clock set at any instant: the estimate, the jitter, and that every peer is probed |
| `WorkerPool` | 491,774 | two workers and the gossip thread, every route, an upload that never ends: no read is stale, nobody waits for a slow client |
| `AtomicNodeDelete`, `SwarmNodeBareFile`, `SwarmBadKey` | | each refutes one sentence of the documentation (section 6) |

Bounds, all of them constants of a module or sets of an MC module:

* Two keys, two writers, two plain values. Two of each is what a tie, a conflict
  and an independent key need; the orders compare naturals field by field, so
  more of them give no new case of a comparison.
* `MaxU64` is 5 (9 in `Swarm`): the ends of the ranges are reached by times and by
  the generation of the last attempt, with room below for three lives of a key.
* `MaxTimeJump`, `MaxGenerationJump`: small enough to be hit from both sides in
  `AtomicNode` and `SwarmNode`. In the ring of `Swarm` both are 2: a node that has taken
  nothing is too far behind one whose time is 3, refuses its state, and takes it once a post
  has moved its own time; times and generations exactly at the limits occur too. In
  `SwarmConverges` and `SwarmBadKey` the time jump is 9, above every time, so that no node
  is a straggler: `Convergence` is claimed, and refuted, without one.
* `MaxEntries` is the number of keys (2), so that a full state is never over the cap, and
  a request at the cap occurs; in `AtomicNode` it is 3, so that a list may hold two
  entries of a key with one of another between them.
* Requests: the sets `MCRequests`, `MCPosts` and, for the ring, `MCRingPosts`. They hold one of every
  branch of the handlers: each kind of write, a delete alone and after its add, a
  rewrite, collisions inside a cell, between cells, in a list and with the map, a
  record with a right, wrong and last generation, entries at and past each limit,
  and requests with nothing to do.
* `MaxRequests` (how many requests arrive at a node) is 4 in `SwarmNode`, so that two are
  in flight while earlier ones are on disk and three conflicts fill a ring of two
  (`ConflictHistory`) and go past its end, and 2 in the liveness run. Kills, power cuts
  and failed saves are not bounded.
* `MaxPosts` (posts to the swarm) 3 or 2, `MaxFailures` (failed exchanges and
  kills) 1. `MaxPush` 1: of the two keys, a state of one fits a push and a state of both
  does not. Pushes under way are not bounded, except by the states there are to push.
* `Startup`: `MaxTrouble` 3 is a kill, a damaged file and a taken port in one run, or one
  of them after another; three writes, from this machine, from another without the secret
  and with it. `MCSetups` has one command line for each way to get a flag, a variable or
  the configuration file wrong, those the repository shows, and those that do not serve.
* `HttpAnswer`: texts of two to four bytes in every division into chunks, two statuses.
  `MaxResponse` 27 is the length of the answer in two chunks of the longest text: some
  answers are exactly as long as the limit and some are longer.
* `ClockSync`: `Window` 2 is the least that has a jitter and drops samples; `MaxRtt` 2
  accepts and rejects probes on a clock of four instants (`MaxInstant` 3), on which
  asymmetric ways, an odd sum to halve towards zero from both sides, and clocks apart
  in both directions all occur. `I64Limit` is above every difference of instants, as
  2^63 is for any date. Clocks are set any number of times, and probes never end.
* `WorkerPool`: two threads, of which a slow upload may hold one; three more requests,
  which is a merge, a read that sees it and a read that has to see it too (one of
  `GET /state` and then of the evidence, or two of the evidence); `MaxQueue` 2
  lets them overtake each other. `MCMixes` has the combinations of routes that the
  properties relate.

Three systems may really stop, and their runs do not check deadlock: `AtomicNode` (on a
map on which nothing is accepted any more), `HttpAnswer` (an exchange is over once it has
returned) and `Startup` (a process that ended with success is left alone by the
supervisor). All others do.

### Fairness

`FairSpec` of `SwarmNode`: each step of a thread that has started on a request is
weakly fair, as threads of the operating system are; the arrival of requests,
failures of a save, kills and power cuts are not obliged to happen. Weak fairness
of `Begin` is enough because at most as many requests contend as arrive
(`MaxRequests`); the mutex of the standard library makes no promise of order
under endless contention, and the property is not claimed there. `Restart` is
weakly fair because of `Restart=on-failure` in the unit file.

`FairSpec` of `Swarm`: `gossip_loop` never ends and every step of it has a timeout
(`gossip.rs:23`), so the gossip of a running node is weakly fair, and an awaited push is
answered, lost or given up (`PushEnds`): that an exchange ends whatever the peer does is
`EndsInTime` of `HttpAnswer`. Nothing is asked of a push nobody awaits. A killed node is
restarted. Failures are bounded, which is the premise of convergence: the network works
in the end. Both liveness properties need it, `Convergence` of two nodes and
`NearPeersConverge` of the ring.

`HttpSpec`: the limits on connecting, reading and writing run out, and the
code goes on after a read. Nothing is asked of the peer.

`FairSpec` of `Startup`: the supervisor starts the service after each failure
(`Restart=on-failure`; `RestartSec=5` keeps the restarts below the start limit of systemd,
after which it would give up), a start that has begun goes on, somebody repairs the file,
and a program that took the port gives it back.

`FairSpec` of `ClockSync`: the clock thread is a loop and every exchange has a timeout.
Time need not pass and clocks need not be set.

`FairSpec` of `WorkerPool`: threads run. A client need never finish its upload. A worker
that waits for the state lock gets it, which needs strong fairness: the gossip thread
may take the lock again and again, but it sleeps a second or more between its rounds
(`main.rs:125`) while a waiter needs the lock once, and every caller is served once.
Under a stream of new callers without end the mutex promises nothing, and no claim
is made.

Each property of a passing run is paired, under `mutants`, with a bug of the code
(the `Bug:` operators beside the definitions) that TLC shows to violate it.

## 4. Proofs

The only assumptions on constants are those named in the modules that declare them
(`MapAssumption`, `RequestAssumption`, `RequestsAssumption`, `NodeAssumption`,
`ClockAssumption`, ...), which give their types and ranges; a theorem that
needs more states it (the columns "Assumes" below).

**Loops.** The induction theorems of the library take a predicate, which none of the provers
can give them. `Loops` states induction with a *set* in place of the predicate
(`Induction`: what holds before the first round and after each round before which it held
holds throughout), from the well-foundedness of finite sets, and that a recursive definition
over `0 .. n` has a function that satisfies it (`Recursion`). A loop of `Handlers` is thus
shown to be `IsLoop`, once each (`CellLoop`, `CellsLoop`, `EntryLoop`), and every statement
about it is the set of the rounds after which it holds.

**HandlersProofs**, for every set of keys, values and writers, every `MaxU64` above 1, both
presence rules, and requests of any length:

| Theorem | States |
|---|---|
| `MergeIsLeastUpperBound` | the merge of two maps covers both, and every map that does covers it |
| `MergeIsAssociative` | of three maps it does not matter which two are merged first |
| `MergeCommutes` | maps that do not collide and hold no generation 0 merge alike in either order |
| `RequestIsOneMap` | a request leaves a node with the merge of what it held and of one map, `After(r, Empty)` |
| `RetryChangesNothing` | handled again, a request leaves the map as it is |
| `RetryAccepted` | under delete-wins it is accepted again, unless the newest time fell |
| `RequestsCommute` | two requests accepted in either order leave the same map |
| `FullState` | a map sent as entries is accepted just when `AcceptsState` says, and merged as that map |
| `InOrderEndsAsWritten` | a cell that reports new keys in order of time leaves each as it wrote it last |

The premise of `MergeCommutes` is needed under add-wins, where a tombstone of generation 0
and one of generation 1 have the same rank. `/merge` refuses generation 0, and `/reconcile`
cannot state one, but the generation after the last wraps to it. That no node ever holds one
is part of `SoundMaps` (`WellStamped`): an entry with a wrapped generation is computed only
over one of the last generation, which outranks it (`WrapLoses`). `SoundMaps` also says
that a record carries the generation of its attempt and that no time is beyond a limit;
what any accepted request brings is sound (`RequestSound`, `AcceptedSound`).

**AtomicNodeProofs**, for any set of requests: `TypeCorrect`, `Retries`
(`RetryIsHarmless`), `Order` (`OrderDoesNotMatter`), `Lossless` (`FullStateIsLossless`),
`EndsAsWritten` (`CellsEndAsWritten`), `TimeSteps` (`TimeStepBounded`) and `Fenced`
(`AttemptsAreFenced`). The inductive invariant `Inv` is that
the map is sound and the clock can pass it; the properties follow from it and from the
theorem of `HandlersProofs` each is an instance of. `Fenced` is where soundness is needed
most: a record can only be replaced by one of no lower generation, and the generation says
what the attempt is, but for the last two attempts of 64 bits (section 6).

**SwarmNodeProofs**, for any number of threads, any set of requests and any number of
requests, failures and crashes:

| Theorem | Assumes | States |
|---|---|---|
| `TypeCorrect` | | `Spec => []TypeOK` |
| `Exclusive` | | `Spec => []OneAtATime` |
| `Agreement` | | `Spec => []MemoryIsOnDisk` |
| `Durability` | `HasParent`, `~DirSyncFails` | `Spec => []PromisedIsDurable` |
| `Faithfulness` | `HasParent`, `~DirSyncFails` | `Spec => []PromisesKept` |
| `Advance` | `~PowerCuts` | `Spec => NeverRegresses` |
| `Refinement` | `~PowerCuts` | `Spec => ServesAtomically` |
| `Evidenced` | | `Spec => []EvidenceAddsUp` |

The first six rest on one inductive invariant, `Inv` (`Invariance`), a conjunction of named parts:

* `TInv`: types, and that the positions in `frame` lie inside what the loop iterates
  over. Without the positions a step could read outside a sequence, and nothing about
  types would follow.
* `LockInv`: whoever is between check and publication holds the lock. Every other
  part is stable against other threads only because of this.
* `Ahead`: what the holder is building covers the memory; this is what makes
  `Publish` and `Rename` an advance, and is where the least upper bound is used.
* `NeverTorn`: only a synced temporary file is renamed.
* `FileAndMemory`: file and memory differ only between rename and publication, and
  there the file is what is about to be published.
* `Promises` (under `Forced`, the directory always synced): memory, file and the file
  after a power cut cover everything promised and everything about to be.

The steps that leave memory, file and promises alone are handled once (`QuietSteps`,
`QuietData`); `Rename`, `SyncDir`, `Publish`, `Answer`, `Restart` and the crashes have
a lemma each.

`Refinement` adds the invariant `Progress`: each thread is where the loops of the handler would
be had they been run in one go on the map in memory (`OnTrack`: the rounds done, what they
built, and from the save on `Handle(f.req, mem) = Attempted(TRUE, f.merged)`), and the file is
that of the memory or one accepted request ahead of it (`OneAhead`), which is what a restart
after a kill between rename and publication turns into a step of `AtomicNode`. The lemmas
`TrackBuildWrite` to `TrackPublish` are one per action; `StepServes` is the step
simulation. `Atomic` is an instance and has copies of the operators of `Handlers`; the
lemmas `Same...` show each copy to be the original. With power cuts the refinement is false, for
memory may go back to a file that was not forced to disk: promises are then what is kept
(`Durability`, `Faithfulness`).

`Evidenced` is an argument about accounts (`Tally`): every published conflict stands in exactly
one of them, at one place: in the list `recorded`, or in the locals of one thread that
has published and not yet recorded (`Settled`, a one-to-one map from the places of
`published` to the places of the accounts). `Publish` opens an account (`SettledGrows`), `Record`
moves one to the end of `recorded` (`SettledMoves`), a kill starts anew. The ring is the end of
`recorded` however it was filled (`RememberedAdds`, `RememberedIsTheEnd`), so it tells of the
newest; nothing is recorded more often than it was published (`RecordedWasPublished`), and when
no account is open `recorded` is a permutation of `published` (`AllRecorded`).

`Exclusive` states no property of a run: the runs check what it is for.

**SwarmProofs**, for any nodes, lists of peers, posts, limit on pushes and number of
failures, under either presence rule:

| Theorem | Assumes | States |
|---|---|---|
| `TypeCorrect` | | `Spec => []TypeOK` |
| `NothingLost` | | `Spec => []NoWriteLost` |
| `Advance` | | `Spec => EntriesOnlyAdvance` |
| `NoSilentLoss` | | `Spec => SilenceMeansExchanged` |
| `Agreement` | `StampsAreOwn` | `Spec => []StampsAgree` |
| `Acceptance` | `StampsAreOwn`, `PostsAreModest` | `Spec => []PeersAcceptEachOther` |
| `RestIsConvergence` | `StampsAreOwn`, `AllHearOfAll` | `Spec => [](Settled => Converged)` |
| `ConvergedStays` | | nodes that have converged hold what they hold until somebody posts |

`TypeOK` is inductive: it says besides the types that a thread is at a peer it has, that it
awaits a push exactly at the stage for it and never more than one (without which the answer
to one push could end the exchange of another), and that it tells only of peers it has. The
argument about the maps is one lemma, `StepReaches`: whatever a step does, either the maps
stay or one map is merged into one node and into `known`. From it and from the least upper
bound follow `Advance` and the half of `NoWriteLost` that bounds nodes by `known`; the other
half (`StepKept`) is that who takes an entry newer than all known ones holds it, and that who
held the newest one keeps it. `Agreement` and `Acceptance` rest on the invariant that every map held, pulled or on its way
is `Legal` (`StaysLegal`): sound, with every entry one that some post made, and with no
time that would leave the clock of a node no room. A map becomes no less legal by a merge
(`MergeLegal`), nor by a post (`PostLegal`); threads and messages only carry what nodes hold
(`CarriedStays`). Legal maps do not contradict each other if each write has a stamp of its
own (`LegalAgree`), and one passes the checks of every node it is not too far ahead of
(`LegalAccepted`). The two conditions are on the callers and cannot be dropped: two values under
one stamp collide wherever they meet, and `SwarmBadKey` is what becomes of a key that
`/merge` does not take.

The last two are the part of `Convergence` that needs no fairness, and state no property of a
run. Gossip has nothing left to do when each node holds what its peers hold (`Settled`).
`RestIsConvergence` is that this is so only where all hold the newest entry of each key: the
nodes that hold it are asked by nobody else, for who holds what one of them holds has that
very entry (`NewestIsOne`, by `Legal` and `Agreement`), so they are all nodes. It needs a
graph of peers in which every node asks every other through others; TLC evaluates
`AllHearOfAll` on the instances (`PeersAreProper` in `MCSwarm`). `ConvergedStays` is that what
is still on its way, however old, was accepted by some node (`CarriedIsKnown`) and so adds
nothing. With `Advance` and `NoSilentLoss`, what is left to TLC is that the fair steps get there.

**StartupProofs**, for any command lines, writes, processes and any number of troubles:
`TypeCorrect` (which says that exactly the process that listens serves), `AnsweredServed`
(`AnsweredIsServed`), `OpenByChoice` (`OpenOnlyOnPurpose`) and `ListenerKept`
(`ListenerIsKept`). The inductive invariant `IInv` (`Invariance`) adds that a process past
its flags has a command line that is not fatal (`Vetted`), that a write that was merged was
let in (`Admitted`), and that file, map of the service, what is to be answered and what was
answered are in step as long as no other process was started (`Remembered`).

**ClientProofs**, of `ClockSync`, for any number of peers, any window and limit, and clocks
that may be set at any step: `TypeCorrect`, `Accuracy` (`EstimateIsClose`)
and `Jittery` (`JitterIsOfTheNetwork`). The inductive invariant
`Inv` adds to the types that the instants of a probe agree with the clocks (`t0` is not
ahead of our clock, `t1` and `t2` in order), as long as none was set since, and that the
newest `clean` samples of each peer are within half their round trip (and a half for the
division) of how far its clock is ahead now. The lemma `SteadySampleIsClose` is the
arithmetic of one probe, `RecordedWindow` that of the window. It needs the instants to
be below 2^63 (`ClockAssumption`), so that the cast keeps the offset (`CastKeeps`). For the
jitter, offsets that are all that close to one number are close to each other, and the sum of
the jumps is bounded by induction over the window (`JumpsAreSummed`, `MeanOfJumps`).

Of `HttpAnswer`, for any answers of any length that are framed, any limit, and a connection
that ends after any byte: `CutNoticed` (`CutIsNoticed`) and `WholeTaken` (`WholeIsTaken`).
The inductive invariant `HttpInv` is that what was read and what is unsent make up the
answer, and that a response that is no error is what `ParseResponse` makes of all that was
read before the peer closed. The rest is about the parser alone: `PrefixUnderstood` says
what it may make of the first bytes of an answer, cut anywhere: an error, the answer, or, if
neither a length nor chunks were stated, a beginning of the text, which is not read as JSON
because no text begins another. It rests on

* `FindInPrefix`: a pattern is found in the first bytes where it is found in the whole, or
  not at all, so that head and fields are read alike (`HeadOfWire`, `FieldsOfHead`);
* `DecodesIsDefined`: the recursion of `Decodes` has a solution, by induction from the end of
  the bytes backwards, for each place needs only later ones;
* `ChunkDecoded` and `ChunksDecoded`: what is decoded from the beginning of a chunk on is all
  that is left of the text or an error, by induction from the last chunk to the first, and
  no error if nothing is missing. The hard case is a cut inside a chunk, where the text may
  itself hold line ends: it is the stated size that tells.

**WorkerPoolProofs**, for any requests and any number of threads: `TypeCorrect`,
`StateReads` (`StateIsCurrent`), `StatsReads` (`StatsAreCurrent`) and `MetricsReads`
(`MetricsAreCurrent`). The invariant says who may hold the lock, that whoever merges
started from what is published now, that `published`, `recorded` and `counted` cover what
each thread is about to tell, and that a read that is sent or served will tell at least
what was answered before it was sent.

Only model-checked: liveness (`EveryoneAnswered`, `Convergence`, `NearPeersConverge`,
`EveryPeerProbed`, `EveryRequestAnswered`, `ServesInTheEnd`, `EndsInTime`), which is out of the prover's reach.
All invariants and all other action properties of the passing runs are proved.

## 5. Not modelled, and why

* Text: JSON, the syntax of keys, values and addresses. A key is a number, a
  value a model value; `InvalidKeys`, `Malformed` and `Attempt` say what the checks tell
  apart. In `Swarm` and `ClockSync` a response of a peer is a state or a failure;
  `HttpAnswer` says when it is which.
* The server's side of HTTP (tiny_http), and the parsing of paths: a request that is refused
  is a `plain` one of `WorkerPool`. Body sizes are in `Swarm` where they decide (a push),
  authorization in `Startup`. In `SwarmNode` "everybody is answered" starts when a request
  was read; before that `WorkerPool` says it.
* What the flags of a running node mean is a constant of the module that needs it.
* What `/stats` tells of the peers (`peers_json`, and all of `clock_json` but the offset
  and the jitter), the classes and the text of `/metrics`, the health checks.
* Memory-only mode: a node that loses its map on restart by design.
* The file being edited or truncated from outside; a parse error at start is reached
  only through `Torn`, which then keeps the node from starting.
* Temporary files left by a kill: they are named with the process id and never read.
* A panic under the lock (debug builds only).
* Clocks that run at different rates: `Pass` moves all clocks together, and only `SetClock`
  sets one apart. What is said of the estimate is said of clocks that are set, not of drift.

## 6. What the checks found

Each has a run that refutes the quoted sentence (`findings` in `PROJECT.json`).

1. A delete posted without the write it deletes gets generation 1 and loses to a later
   add of the same life (`reconcile.rs:129`, against `docs/CLI_REFERENCE.md:265`).
2. A state file named without a directory is not durable at the 200 (`store.rs:129`).
3. A key or value that `/reconcile` accepts and `/merge` refuses cuts a node off from
   its peers (`entries.rs:93`, against `gossip.rs:7-8`).

Also seen while translating, without a run:

* A write at `next_local_time` may lose: generations are compared first
  (compare `docs/CLI_REFERENCE.md:110-114`).
* A node further behind than `--max-time-jump` refuses the state of its peers
  (`entries.rs:118`, compare `gossip.rs:7-8`) until a post or another peer moves its own
  time: the limit is measured from what it holds. `PeersAcceptEachOther` has the condition
  under which that cannot happen, and `NearPeersConverge` says that nobody else is left out
  for ever.
* A state beyond 1 MiB is pushed, refused and pushed again at every round (`server.rs:47`);
  `SilenceMeansExchanged` says that `lastError` tells of it.
* `size + 2` in `decode_chunked` is not checked (`gossip.rs:80`): a chunk that states a size
  at the end of `usize` ends in a panic. No node says one.
* `/reconcile` does not bound generations (compare `README.md:127`): a record states its
  attempt, and the map follows.
* The last conflict told may not be the last one resolved: the evidence is recorded
  after the state lock is released, by whoever gets there first (`server.rs:659`).
* `GET /state` may show a merge that `GET /stats` does not count yet, for the same
  reason; `StatsAreCurrent` therefore claims nothing of what `/state` showed.
* A clock set back during a probe by less than the probe took is not noticed
  (compare `clocksync.rs:16`, "time going backwards"): the sample gets too small a round
  trip, is preferred for it, and stays until a window of probes has driven it out.
  Only accepted probes do: while all are rejected, the old offset is told.
* A second process started while the first serves loads the state and then fails to
  bind, unless the first ends in between; then it serves, and saves, a map that may be old
  (`main.rs:182`, `main.rs:193`). `AnsweredIsServed` is about a node nobody did that to.
* A state file named by an empty text is accepted at the start, as no file is there, and
  then no save to it succeeds: every merging request is answered with an error.
* A kill between the rename and the sync of the directory, then a restart, shows
  entries that a power cut can still take back; nobody was answered 200 for them.
  This is why `NeverRegresses` is checked and proved without power cuts.
* The generation after `u64::MAX` is 0 in a release build and a panic under the state
  lock in a debug build (`crdt.rs:193`). It takes a record of the last attempt and a
  deletion in the same cell.
* The attempts `u64::MAX - 1` and `u64::MAX` share a generation (`typed.rs:128`) and do not
  fence each other: the later time wins. `AttemptsAreFenced` excepts them.
* Comments at `crdt.rs:182-185` and `crdt.rs:246-253` say a delete cannot be expressed
  in a request; it can. The comment at `server.rs:838-840` says a collision is a 409; it
  is a 400.
* Two records of a cell with one stamp and two values keep the first silently
  (`reconcile.rs:135`); `merge_entries` compares only with the last entry of the same
  key (`entries.rs:165`, compare `docs/CLI_REFERENCE.md:267`). Neither changes what a retry or
  another order leaves in the map (`RetryChangesNothing`, `RequestsCommute`).
* A retry of an accepted request may be refused, though it would change nothing: where the
  request replaced the newest entry by one of a later generation and an earlier time, the
  newest time of the map falls, and the limit on times (`reconcile.rs:173`, `entries.rs:118`)
  with it; and under add-wins, where two cells give a deletion and a value one stamp and what
  the node held ranked between the two, so that they met only the second time. The proof of `RetryIsHarmless` met both; the property names them.
* A state that was merged already is counted as conflicts again when a newer entry of
  the same key is held.

## 7. Plan

Done: `LwwMap`, `NodeRequests`, `Handlers`, `AtomicNode`, `SwarmNode`, `Swarm`, `HttpAnswer`,
`Startup`, `ClockSync`, `WorkerPool`, their runs, the proofs above. Left, in this order:

1. Missions and zone reservations in `Swarm`: take-over with a higher attempt while the
   old holder is partitioned (`AttemptsAreFenced` per node, and convergence on the
   newest attempt).
2. Memory-only mode as an instance of `SwarmNode`, and what `Swarm` still keeps then.
