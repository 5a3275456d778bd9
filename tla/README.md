# TLA+ models of the CS 350 systems

This directory holds a verification development for the Go programs under
`ALL_CODE_350/starter-1`: a concurrent bank (`bank`), two weather station
aggregators (`ws`), a distributed MapReduce (`mr`, `mr-main`), the Raft consensus
library (`raft`) on a simulated network (`labrpc`), and a replicated lock service
built on Raft (`raft-lock`), with the harnesses that crash, restart and partition
their servers. The modules are TLA+ specifications translated from
the code, TLC checks them on small instances, and TLAPS proves their safety
properties for every number of servers, goroutines, tasks, stations and calls.

`PROJECT.json` lists the components, the runs with their configurations, the
source lines behind every definition, the hazards of the code with the properties
that watch them, the findings, and the theorems.

## Inventory

### Raft (`raft/raft.go`, `raft/persister.go`)

* State, per server, under `rf.mu`: `currentTerm`, `votedFor`, `role`, `log`,
  `commitIndex`, `lastApplied`, `nextIndex`, `matchIndex`, two timers, the `Commit`
  channel. `persist()` writes term, vote and log to the `Persister`.
* Operations: `ticker` with `requestHeartbeats` and `go election()`, the handlers
  `RequestVote` and `AppendEntries`, the goroutines `election` (asks the peers one
  after the other) and `heartbeat` (sends, and sends again with another `next` on
  a conflict), `Start` for clients, `CommitLog` that moves committed entries to
  `applyCh`, `Make` and a crash by the test harness (`config.go`).
* Interactions: peers call each other through `labrpc`, which loses requests and
  replies, delays and reorders them, reports a failure while a handler has still to
  run, and gives no reply to an incarnation that was replaced.
* What is hard: every RPC is made without the lock, so each reply is applied to a
  state that may have moved on; the result of `Call` is ignored; what is persisted,
  and when, decides what a restart may forget.
* Correct means: never two leaders of a term at the same time, one vote per server and
  term, logs that match, a leader that keeps its log, entries that are never applied
  differently, no index out of range, a log that is on disk.

### Bank (`bank/bank.go`)

* State: the map of accounts under `bankLock`, a balance and a lock per account.
* Operations: `CreateAccount`, `Deposit`, `Withdraw`, `Transfer`,
  `DepositAndCompare`, `GetBalance`, called from any number of goroutines.
* What is hard: two locks per transfer, a lookup whose result is used after its
  lock was released, early returns between `Lock` and `Unlock`.
* Correct means: each call takes effect at one moment, gives back the locks it took, and
  returns.

### MapReduce (`mr/*.go`, `mr-main/*.go`)

* State: the task tables of the coordinator under `c.mu`, the task each worker
  works on, the intermediate files `mr-X-Y.json` and the outputs `mr-out-Y`.
* Operations: the RPCs `RequestTask` and `ReportTaskDone`, `Done` polled by
  `mrcoordinator.go`, `doMap` and `doReduce` in the workers, worker crashes
  (`mrapps/crash.go`) and restarts (`test-mr.sh`).
* Correct means: the output of a finished job is that of `mrsequential.go`; a
  completed map task is listed once for each reduce task; nobody reads a file that is not complete; the job ends.

### Weather station aggregators (`ws/*.go`)

* State: `sum`, `count`, `batch` under a mutex in one version; one collector
  goroutine per batch with its own channel in the other. Each station's answer
  comes early, late or never.
* Correct means: late answers are ignored, no answer counts twice, every period is
  reported, goroutines do not pile up, and `quit` ends the loop.

### RPC simulator and harness (`labrpc/labrpc.go`, `raft/config.go`, `raft/persister.go`)

* State: the client ends that are enabled, the server registered under each name,
  a persister per server that is replaced by a copy at each crash and start, and the
  instances of servers made so far. An instance that was crashed goes on running.
* Operations: `Call` with the goroutine of `processReq` and the one of the handler,
  `Enable`, `AddServer`, `DeleteServer`, `Cleanup`; `crash1`, `start1`, `connect`,
  `disconnect`, `cleanup` of the harness.
* What is hard: a handler of an instance that is gone still returns, a reply is checked
  and sent in different steps, ends are switched one by one, a listener stops while
  calls are being made.
* Correct means: a positive reply is on the persister the next instance reads, an old
  instance is not heard, a partition is what the test asked for, every call returns,
  and no goroutine is left behind.

### Lock service (`raft-lock/*.go`)

* State: under `ls.mu` the result channel of each log index and the last request id
  of each client; the clerk's guess of the leader and its request counter;
  `LockStore`, a queue of owners per key.
* Operations: `Mutex` with `waitForApplied`, `applyOpsLoop`, `StartLockServer`; `SendMutex`
  of the clerk, which retries for ever; `lock`, `unlock`, `getLockOwner` of the store.
* What is hard: a handler waits for an index, not for its operation, and gives up
  after 20 ms while the operation may still be committed (the README of `raft-lock`
  speaks of 600 ms); the clerk sends it again elsewhere; results are sent with `ls.mu`
  held; a new instance applies the log from the start.
* Correct means: a request is applied exactly once on each server, whatever is
  retried; an answered request is not lost and comes before all that follow it; the
  apply loop, on which Raft waits with its own lock held, never waits.
* `applyToStateMachine` is an empty stub at this commit, and `giveLockToOwner`, the
  clerk's `ReceiveLock` and the operations of the store have no caller.

### Not modelled

`labgob` (a wrapper of `encoding/gob` without state the other parts depend on), the text
processing of `mrapps`, plugin loading, sockets, the test drivers and their
statistics, and the data files. Inside the modelled parts: the capacity of Raft's
`Commit` channel, the torn encoding of entries that are sent without the lock, real
durations, dispatch by name in `labrpc`, and clerks that are used by several
goroutines at once. Such a clerk would lose requests: one with a lower id that is
committed after one with a higher id is dropped as a duplicate (`server.go:116`);
the tests use a clerk from one goroutine at a time.

## Modules

| Module | Models | Uses |
|---|---|---|
| `Raft` | `raft.go`, `persister.go`, the effects of `labrpc.go`, `crash1`/`start1` of `config.go` | `Bags`, `BagsExt`, `Functions` |
| `MCRaft` | small instances of `Raft` | `Raft` |
| `RaftProofs` | types, elections, and the invariants of a single log | `Raft`, `TLAPS` |
| `RaftMatchProofs` | that logs match and leaders only append | `RaftProofs` |
| `BankCalls` | the calls and results of the bank | |
| `AtomicBank` | what the bank promises (abstract) | `BankCalls` |
| `Bank` | `bank.go`, lock by lock | `BankCalls`, instance of `AtomicBank` |
| `MCBank` | request sets for TLC | `Bank` |
| `BankProofs` | types, and the refinement of `AtomicBank` | `Bank`, `TLAPS` |
| `MapReduce` | `coordinator.go`, `worker.go`, `mrcoordinator.go`, reference from `mrsequential.go` | `Functions` |
| `MCMapReduce` | input files and a hash for TLC | `MapReduce` |
| `MapReduceProofs` | the output and the invariants behind it | `MapReduce`, `TLAPS` |
| `MutexAggregator` | `mutex_aggregator.go` | `Functions` |
| `MutexAggregatorProofs` | what a report is the average of | `MutexAggregator`, `TLAPS` |
| `ChannelAggregator` | `channel_aggregator.go` | `Functions` |
| `ChannelAggregatorProofs` | reports, and room in the channels | `ChannelAggregator`, `TLAPS` |
| `LabRpc` | `labrpc.go`, `persister.go`, crash, start and partition of `config.go` | |
| `MCLabRpc` | a small instance of `LabRpc` | `LabRpc` |
| `LabRpcProofs` | durable replies, partitions, old instances | `LabRpc`, `TLAPS` |
| `ReplicatedLog` | what Raft promises a service (abstract) | |
| `LockService` | `server.go` and `clerk.go` of `raft-lock` on a replicated log | `ReplicatedLog`, `Functions` |
| `LockStore` | `lockStore.go` as functions, and a reference | `SequencesExt` |
| `MCLockService` | a small instance of `LockService`, histories for `LockStore` | `LockService`, `LockStore` |
| `LockServiceProofs` | exactly once, order of answers, room for results | `LockService`, `TLAPS` |

An operator whose name starts with `Slip_` is a variant of the definition after it
with a likely mistake. It is used in no specification; it is put in place of that
definition to confirm that a property notices the mistake.

### How `Raft` corresponds to the code

Every critical section of `rf.mu` is one action. The goroutines that wait for an
RPC without the lock are represented by their call: `voteReq` and `voteRep` hold the
calls of election goroutines with the votes counted so far, `beat`, `appReq` and
`appRep` those of heartbeat goroutines. `spawned` counts `go rf.election()` that
have not taken the lock. The code's `log[0]` is a dummy of term 0; the model's log
starts at index 1, and indices mean the same.

| Code | Actions |
|---|---|
| `ticker`, `shouldStartElection` | `ElectionTimeout`, `LeaderTimeout` |
| `resetElectionTimer` | `ResetElectionTimer`, part of the actions that call it |
| `election` up to the first call | `ElectionStart` |
| loop and end of `election` | `HandleVoteReply` (`VoteGranted`, `VoteRefused`), `WinElection` |
| `RequestVote` | `RequestVoteStale`, `RequestVoteSameTerm`, `RequestVoteNewTerm` |
| `requestHeartbeats` | `HeartbeatTick`, one per peer as in the code |
| `heartbeat`, `initiateAppendEntries` | `SendAppend` |
| `AppendEntries` and its helpers | `AppendEntriesStale`, `...Behind`, `...Match`, `...Conflict` |
| `handleAppendEntriesResponse` and its helpers | `AppendRefused`, `AppendNewTerm`, `AppendSucceeded`, `AppendConflicted` |
| `Start` | `Start` |
| `CommitLog`, `applyCommits` | `ApplyCommits` |
| `labrpc` failures | `LoseVoteReq`, `LoseVoteRep`, `LoseAppReq`, `LoseAppRep` |
| `crash1`, `start1`, `Make` | `Restart` |

Durations are abstracted: a timer may expire whenever it runs. `armed` holds the
servers whose election timer runs or whose signal has yet to be taken. A slice index
out of range stops the server (`panicked`), until it is restarted. `epoch` tells
apart the incarnations of a server, since a new one has fresh client ends. `ballots`
and `applied` are history variables.

Abstractions to know of: `ApplyCommits` sends all that is committed in one step,
while the code sends message by message with `rf.mu` held; the capacity of the
`Commit` channel is not modelled; the entries of a call are copied under the lock,
while the code encodes them after it released the lock.

### How `Bank` corresponds to the code

A call is `Lookup` (the critical section of `bankLock`), `Acquire` and, for a
transfer, `AcquireSecond` in the order of the account ids, `Read`, `Write`, `Credit`,
`ReleaseSecond`, `Release`, `Return`, with the early exits of each method. Panics are
outcomes: a caller may recover, as the tests do. `AtomicBank` gives each call one step,
`Effect`, between its call and its return. The refinement mapping counts a transfer
as done when the sender has been debited: the pending credit is added to the
receiver's balance, and the outcome is already decided.

`Withdraw` returns in the middle of its critical section if it finds the balance
negative (`bank.go:114`); the history variable `leaked` holds the accounts it left
locked there, and nothing else adds to it. `TypeOK` says that every other lock that is
taken is one its goroutine will give back (`LocksOwned`). `Lost` is the closure of
`leaked` under transfers that hold one lock and wait for a lost one, and
`EveryCallReturns` excepts the calls that come to wait for one of these, no others.

### How `MapReduce` corresponds to the code

The RPC handlers hold `c.mu` from start to end and the worker waits for the reply,
so `RequestTask` and `ReportTaskDone` are one action each. `doMap` writes one file
per step, `doReduceRead` reads one file per step, `doReduceWrite` writes the output.
A key-value pair is identified by the input file it comes from and its position, so
that `OutputCorrect` can say that each one is reduced exactly once. What a file
holds is the set of its pairs: the order inside a file reaches the output only as
the order of the values given to `reducef`. A file is written in one step: a crash leaves whole files, not parts of one; since the task
of a crashed worker is never handed out again, no one reads either. `mapDone`,
`reduceDone` and `StartTime` never decide anything and are left out. A job in
which the holder of a task crashed does not end, so what `OutputCorrect` says of crashes is
about workers that held none. The documents want a
task that takes longer than ten seconds to be given to another worker
(`mr/README.md:36`, `:192`); the code never does, which `mapreduce_crash` shows.
`FilesListedOnce` is a property that such a coordinator has to have as well:
`ReportTaskDone` appends the files of a map task without asking whether it was reported
before, so that handing a task out twice, with nothing else changed, breaks it.

### How the aggregators correspond to the code

A temperature is named by the station and batch it was asked for, a sum by the
sequence of what was added. In `MutexAggregator` the loop, `newBatch` and the critical
section of each `retrieveData` goroutine are actions, and the loop holds the mutex
from `Tick` to `Send`. In `ChannelAggregator` every case of every `select` is an
action. `quit` and `out` are unbuffered: a send and its receive are one step.

### How `LabRpc` corresponds to the code

| Code | Actions |
|---|---|
| `ClientEnd.Call` | `Call`, `CallAfterCleanup` |
| `MakeNetwork`'s goroutine, `readEndnameInfo` | `Accept`, `NetworkStops` |
| `processReq` | `Drop`, `Dispatch`, `TakeReply`, `Poll`, `FinalCheck`, `Deliver`, `Drain` |
| `Server.dispatch`, `Service.dispatch`, the handler | `Handle` |
| `connect`, `disconnect` | `Connect`, `Disconnect`, one `Enable` per end |
| `crash1` | `disconnect`, `DeleteServer`, `CopyPersister` |
| `start1` | `crash1`, then `Make`, `AddServer` |
| `cleanup` | `Cleanup` |

`script` holds the steps that are left of the harness function under way; calls go on
between them. A handler is abstracted to what those of `raft.go` have in common: it
changes the memory of its instance, saves it, and returns, or never returns. `memory`
and `persister` hold the calls whose effect they contain. `Poll` is the check every
100 ms: a failed check is its only effect. The ends of a clerk stay enabled when a server
is shut down, so that `TypeOK`, which says that a request is only handled by an instance
that exists, rests on the test of `server` against nil (`labrpc.go:223`). What a call
meets that is made while `connect` or `disconnect` is switching ends is in the model, but
`PartitionRespected` only speaks of the time between functions of the harness.

### How `LockService` corresponds to the code

`ReplicatedLog` is the promise of Raft to its service: entries that were agreed on stay
and are handed to everyone in order, others may vanish, several servers may believe
that they lead. `Raft` is the model of the library, and `raft_apply` shows where it
breaks the promise; the results about `LockService` hold where it is kept.

| Code | Actions |
|---|---|
| `SendMutex` up to the first call | `SendMutex` |
| its loop | `TryNext`, part of every action that ends a call |
| `labrpc` failures | `CallFails`: the request is lost, or goes on as an orphan |
| `waitForApplied` | `MutexWrongLeader`, `MutexStart`, `MutexApplied`, `MutexTimeout` |
| `applyOpsLoop` | `applyOpsLoop`, one message per step |
| `ShutdownServer`, `StartServer`, `StartLockServer` | `Restart` |

A call is a record with the index that `Start` gave it. A result channel is a sequence,
and one that is not made yet is empty: handler and loop make it on demand. `exec`,
`answered` and `precedes` are history variables. `LockStore` is compared with a
reference by the assumption `LockStoreIsFair` of `MCLockService`, which TLC evaluates
before it runs: over all histories of four operations a key is in the map if and only
if somebody wants it, and its queue is in the order of asking.

## Runs

| Run | Property | Bounds | Result |
|---|---|---|---|
| `raft_crash` | `TypeOK`, `ElectionSafety`, `VoteOnce`, `LogDurable`, `LogTermsOrdered` | 3 servers, 2 candidates, 2 terms, 1 entry, 1 restart or 1 orphaned call | holds |
| `raft_log` | `LogMatching`, `LeaderAppendOnly` | 3 servers, 3 terms, 2 entries, 1 heartbeat goroutine | holds |
| `raft_apply` | `StateMachineSafety` | 2 heartbeat goroutines, 2 terms, 1 entry | violated |
| `raft_amnesia` | `LogMatching` | 1 term, 1 restart, 2 heartbeat goroutines | violated |
| `raft_timer` | `TimerRuns` | 2 terms, 1 entry, 1 heartbeat goroutine, no restart | violated |
| `bank` | `TypeOK`, `Atomic`, `EveryCallReturns` | 2 goroutines, 2 accounts, 3 calls each, 9 requests | holds |
| `mapreduce` | `TypeOK`, `OutputCorrect`, `FilesListedOnce`, `NoReadBeforeWrite`, `JobFinishes` | 3 workers, 2+2 tasks, 2 crashes, restarts | holds |
| `mapreduce_crash` | `CrashesTolerated` | 2 workers, 1 crash, restarts | violated |
| `ws_mutex` | `TypeOK`, `AverageOfBatch`, `EveryBatchReported` | 2 stations, 3 batches | holds |
| `ws_channel` | `TypeOK`, `BatchesDontMix`, `RoomForAnswer`, `NoGoroutineLeak`, `EveryBatchReported` | 2 stations, 2 batches, with quit | holds |
| `labrpc` | `TypeOK`, `PositiveReplyDurable`, `PartitionRespected`, `OldInstanceIsolated`, `CallReturns`, `DispatchEnds` | 2 servers, 1 clerk, 2 calls, 2 harness functions | holds |
| `lock_service` | `TypeOK`, `ExactlyOnce`, `Linearizable`, `ApplyNeverBlocks` | 2 servers, 2 clerks, 2 requests, 3 log entries, 2 elections, 1 orphan, 1 restart | holds |

Why the bounds are enough to be of interest:

* Raft's interesting cases need a second term and a majority of two out of three
  servers. `raft_crash` lets two servers compete in two terms with every loss and
  one crash at any point, before or after a vote is answered or an entry is
  appended. `raft_log` needs
  three terms for logs that diverge and are repaired by another leader; it keeps one
  election and one heartbeat goroutine at a time and lets the two candidates take
  turns, so that the third server just votes. Those scenarios are the `CONSTRAINT`s
  of `MCRaft` (`TwoCandidates`, `Rota`, `Chain`, `Reelected`); they cut behaviours
  off and add none. With two heartbeat goroutines at a time the delayed heartbeat of
  `raft_apply` becomes possible, which is why the safety runs have one. Calls out of
  order to one follower are therefore not in `raft_log`; `LogMatching` under these is
  the theorem `LogsMatch`, and `raft_amnesia` has them.
* Two goroutines and two accounts have all pairs of calls that can meet, opposite
  transfers included; the third call is there because two go into creating accounts.
  The requests include a withdrawal of a negative amount, which nothing refuses: on an
  overdrawn account it reaches the early return of `Withdraw`, and there are calls left
  for a transfer and another call to wait behind the lock that is lost then.
* Two map and two reduce tasks with three workers leave a worker without a task,
  a task without a worker, and a worker between two files while another asks.
* Two or three batches are enough for an answer to be late, for collectors to
  overlap, and for a report to wait while the next period begins.

* `labrpc` lets two calls, of a server, of an instance that was superseded or of the
  clerk, be anywhere in `processReq` while two of `crash1`, `start1`, `connect` and
  `disconnect` are executed step by step, and the network is cleaned up at any
  point. Two functions are enough for a server to be replaced while a call to its
  old instance is under way, and for a partition of a server that was restarted.
  One server is crashed and cut off while calls are made (`OneCrasher`).
* `lock_service` has room for a request, its retry and another request in the log. A
  clerk that is alone meets changes of leader, an orphaned call and a restart in one
  behaviour; with both clerks active the sum of these is bounded (`BoundedFaults`).
  Servers and clerks are interchangeable, and the properties are invariants, so that
  symmetry is sound.

Deadlock checking is off in all runs: each system stops by design, when the bound
on terms, calls or batches is used up or the job has ended.

### Fairness

* `Bank`: a goroutine inside a call keeps running (weak fairness of its steps), and
  a waiter for a `sync.Mutex` that is unlocked again and again gets it in the end
  (strong fairness of `Acquire`): Go's mutex hands over to a waiter after 1 ms.
  Nobody has to make a call.
* `MapReduce`: a worker that lives and the polling coordinator keep running. A crash
  is never forced. `RestartSpec` adds that workers are started again while the
  coordinator runs, which is what the crash test of `test-mr.sh` does.
* Aggregators: the ticker fires, goroutines with an answer run, a `select` that finds
  a case ready again and again takes it (strong fairness; Go chooses at random). A
  station need not answer. The consumer receives; after it has sent on `quit` it is
  not required to receive in `MutexAggregator`, as in `ws_test.go`.
* `LabRpc`: the goroutines of the network run, and the one that drains the channel of
  a late handler. A handler need not return: `CallReturns` excepts calls whose handler
  hangs for ever on a server that stays up and connected. The harness need not act.
* `Raft` and `LockService` state no fairness: elections by randomised timers and clerks
  that retry for ever need probability, not fairness, to get ahead. `TimerRuns` is
  the state in which an election could never start.

## What the runs found

Four runs show that the code does not do what a comment, a document or a test of
the repository says; `PROJECT.json` quotes it.

* `raft_apply`: a delayed empty heartbeat truncates the log of a follower
  (`raft.go:467`), a committed entry is lost and another one applied at its index.
* `raft_amnesia`: a term and vote that `election` did not save (`raft.go:548`) let one
  term have two leaders one after the other, and an old heartbeat of the first then
  leads to two entries with the same index and term.
* `raft_timer`: the expired election timer of a leader is not reset (`raft.go:392`), and
  a vote request that it refuses makes it a follower that never campaigns.
* `mapreduce_crash`: the task of a crashed worker is never handed out again
  (`coordinator.go:56`); nor is that of a slow one.

The models also have these behaviours, which no run singles out: the commit index of
a follower can be one above its last entry, and its log is read out of range
(`raft.go:441`, the variable `panicked`); `Withdraw` of a negative amount from an
overdrawn account returns with the account locked (`bank.go:114`), and only calls that
come to wait for that lock are excepted in `EveryCallReturns`; another goroutine of the channel aggregator can take
the only signal on `quit`, and the loop goes on (`channel_aggregator.go:56`); an election
goroutine that waited for the lock turns a leader into a candidate (`raft.go:388`);
`Withdraw` panics on a missing account (`bank.go:134`), where the next lines mean to
return false; a worker is told `AllDone`
while tasks are in progress (`coordinator.go:109`); the mutex aggregator does not look
at `quit` while it offers a report nobody receives (`mutex_aggregator.go:75`).

## Proofs

The theorems hold for all values of the constants that satisfy the assumptions of the
modules: `N >= 2` servers in `Raft`, finite sets of stations, a finite cluster that
is not empty in `LockService`, clerks that are not servers in `LabRpc`, account ids
that are integers, and a value `Free` that is no goroutine. Bounds (terms, log
lengths, calls, crashes, batches) are arbitrary natural numbers. None of these says
more than the code does: bounds only cut behaviours off, and the rest is true of
every configuration that the programs are started in.

Each proof is by an inductive invariant, which TLC checked on the instance of the
run (and often on a larger one) before it was proved. Type correctness is a part of
it; each action has a lemma or a step of its own.

| Module | Theorem | Statement |
|---|---|---|
| `RaftProofs` | `TypeCorrect` | `Spec => []TypeOK` |
| | `LogOnDisk` | `Spec => []LogDurable` |
| | `LogInTermOrder` | `Spec => []LogTermsOrdered` |
| | `VoteInvariant` | `Spec => []VoteInv` |
| | `OneVotePerTerm` | `Spec => []VoteOnce` |
| | `OneLeaderPerTerm` | `Spec => []ElectionSafety` |
| `RaftMatchProofs` | `LogsMatch` | `Spec /\ NoRestart => []LogMatching` |
| | `LeadersAppendOnly` | `Spec /\ NoRestart => LeaderAppendOnly`, an action property |
| `BankProofs` | `TypeCorrect` | `Spec => []TypeOK` |
| | `Implements` | `Spec => Atomic`, the refinement of `AtomicBank` |
| `MapReduceProofs` | `TypeCorrect` | `Spec => []TypeOK` |
| | `FilesOnce` | `Spec => []FilesListedOnce` |
| | `ReadsFollowWrites` | `Spec => []NoReadBeforeWrite` |
| | `JobOutput` | `Spec => []OutputCorrect` |
| `MutexAggregatorProofs` | `TypeCorrect` | `Spec => []TypeOK` |
| | `AverageCorrect` | `Spec => []AverageOfBatch` |
| `ChannelAggregatorProofs` | `TypeCorrect` | `Spec => []TypeOK` |
| | `BatchesSeparate` | `Spec => []BatchesDontMix` |
| | `RespondNeverBlocks` | `Spec => []RoomForAnswer` |
| `LabRpcProofs` | `TypeCorrect` | `Spec => []TypeOK` |
| | `RepliesDurable` | `Spec => []PositiveReplyDurable` |
| | `PartitionHolds` | `Spec => []PartitionRespected` |
| | `OldIsolated` | `Spec => OldInstanceIsolated`, an action property |
| `LockServiceProofs` | `TypeCorrect` | `Spec => []TypeOK` |
| | `AppliedExactlyOnce` | `Spec => []ExactlyOnce` |
| | `AnswersLinearizable` | `Spec => []Linearizable` |
| | `RoomForResult` | `Spec => []ApplyNeverBlocks` |

### Raft: elections

`ElectionSafety` alone is not inductive, and the usual reason, that a
server saves its vote before it asks for others, does not hold here: `election()`
saves neither term nor vote. What does hold is about votes granted to *others*,
which `RequestVote` saves before it answers. `VoteInv` therefore goes through the
history of granted votes:

* `BallotsBind`: whoever granted a vote in term t is, in memory and on disk, in a
  later term or in t with that vote. This survives a crash, and a vote for oneself
  is not among the ballots.
* `VotesRecorded`: conversely, a vote for another server in memory or on disk is one
  of the ballots, so that answering a repeated request grants nothing new.
* `OwnVote`: candidates and leaders have voted for themselves; a server that forgot
  its candidacy in a crash is a follower.
* `CallsBacked`: the votes an election goroutine has counted are its own and
  granted ones.
* `LeaderBacked`: a leader has a majority of itself and of granted votes.

Two leaders of one term have a voter in common, because two majorities of a finite
set meet (lemma on cardinalities). If the voter is neither of the two, it granted
two votes in one term, against `VoteOnce`; if it is one of the leaders, it granted
the other a vote in the term in which `OwnVote` says it voted for itself.

### Raft: logs

A single log (`LogInv`): terms do not decrease along it and do not exceed the server's
term, in memory or on disk. The invariant has to say the same of every
`AppendEntries` call that is still to be handled: its entries are in order, none is
above the term of the call, none below `prevTerm`. Then an append in the leader's
term, and a splice of a call's entries onto a log that has `prevTerm` at the place,
keep the order, whoever sent the call and however late it is handled.

Several logs (`MatchInv`, module `RaftMatchProofs`): `NoRestart` says that no step changes
`epoch`. The hypothesis is needed: `raft_amnesia` violates `LogMatching` with one restart,
because a restarted server may lead a term again that it had led. Calls
that are lost, late, or handled after they were reported as failed are all included.

* A log and the entries of a call are both *segments*, with the index and the term
  before the first entry. `SegmentsAgree`: two segments with the same term at an index
  are the same up to it, as far as both reach back. This is `LogMatching` when both
  are logs; it has to include pairs of calls, since each of them can become a log.
* `SendersWon`, `TermsWon`: whoever sends a call, or made an entry, won the election of that
  term, with a majority of the granted votes and without having voted for another
  (`Won`). Unlike leadership this is never lost, and by the argument of the elections a
  term has one winner.
* `LeaderLongest`: no segment has an entry of a leader's term behind the end of the
  leader's log. It holds when the leader wins, as any entry of the term would have
  an author who had won before. So `Start` appends an entry that agrees with every
  segment (`AgreeExtended`), a call is a part of its sender's log (`AgreePart`), and
  `AppendEntries` joins two segments at an index where both have the same term
  (`AgreeSplice`).
* A server that handles a call of its own term does not lead it, since the caller is
  the winner and nobody calls itself (`NotTheLeader`). This is what `LeadersAppendOnly`
  rests on, and the reason why the code needs no such test.

### Bank

The invariant says of each goroutine, by its program counter: its accounts exist
(`Found`), it holds the locks it has taken (`Locked`), and the balance it read is still
the balance (`ReadIsFresh`), and every lock that is its own is one it will give back or
was left by `Withdraw` (`Owned`, from which `TypeOK` has the owners of locks). From `Locked` it follows that at most one transfer is
between its debit and its credit on an account, and that nobody else is reading
that account then (lemma `Settled`). With this every step of `Bank` maps to one
`Effect` of `AtomicBank`, a call, a return, or a stutter.

### MapReduce

Who holds a task holds one in progress (`Holding`), which is never handed out again, so
that this code has one holder per task (`OneWorkerPerTask`, a lemma and not a requirement);
mappers have written the files up to the one they are at (`Mapped`), reducers have read
those up to theirs (`HasRead`); a reduce task has exactly one file of each completed
map task (`NamesRight`, which is `FilesListedOnce` with more detail), whose contents are right (`DiskRight`); the reduce phase starts
when all map tasks are completed (`Phases`). Files that a crashed mapper left are in
no reduce task, since only its report would put them there.

### Aggregators

`MutexAggregator`: sum and count are those of the answers marked as counted in the
current batch, from the moment `newBatch` has reset them, and a call of a batch that
is over can no longer be counted. `ChannelAggregator`: what is in a channel or in a sum
belongs to its batch, is there once, and its goroutine is over. So the answers in a
channel and the one about to be sent are of different stations, and the channel,
with room for all stations, is not full (`RoomForAnswer`, by cardinality).

### RPC simulator

An instance and the persister it was made with belong together and hold the same
effects; a registered instance is the latest, with the latest persister
(`StoreRight`). The harness unregisters a server before it copies its persister, and a
disconnected server is the only one it crashes (`HarnessRight`). Enabled ends have the
names of the latest instances (`NamesRight`), and are those between connected servers,
but for the ones `connect` or `disconnect` has still to switch (`EndsRight`). A reply
that passed the final check was produced by the instance still registered
(`CallRight`), so its effect is on the persister that the next instance will read.

### Lock service

A clerk sends a request only after the one before it was answered, and an answer is
given only for an entry that was agreed on. So whatever is in any log, of a leader
or of a server that wrongly believes to lead, has its client's earlier requests
among the entries that stay, and before it. Hence the highest request id of a client
tells exactly whether a request was applied before, although requests are repeated.
A result is in a channel only for an index that this instance has applied, so the
channel of the next index is empty.

### What stays with TLC

* Liveness under fairness (`EveryCallReturns`, `JobFinishes`, `EveryBatchReported`,
  `NoGoroutineLeak`, `CallReturns`, `DispatchEnds`), which is out of the prover's reach.
* The lock store, whose queue is a fold over a history: induction over data.
* What the code does not do: `StateMachineSafety` and `TimerRuns` of Raft, and `CrashesTolerated`
  of MapReduce, are violated, and no theorem states them. `LogMatching` is violated
  by behaviours with a restart, and proved for the others.
* Whether followers catch up, an election succeeds or a clerk is answered: neither
  runs nor theorems say so, see the fairness of `Raft` and `LockService`.

## Plan

Done: `Raft` with its election, log and timer runs; `BankCalls`, `AtomicBank`, `Bank`;
`MapReduce`; `MutexAggregator`, `ChannelAggregator`; `LabRpc`; `ReplicatedLog`,
`LockService`, `LockStore`; the theorems above.

Next:

1. Raft: what a majority's `matchIndex` implies while at most one heartbeat goroutine per
   peer is alive, the condition under which the violation of `raft_apply` cannot occur.
2. Raft: how far log matching survives restarts of servers that never campaigned.
3. `ReplicatedLog` stated as what `Raft` would have to refine, and which part of it holds.

## Running

`tlc -config <file>.cfg <MC module>` in this directory for a run, with the community
modules on the library path. `tlapm <module>.tla` for the proofs, where `<module>` is
`RaftProofs`, `RaftMatchProofs`, `BankProofs`, `MapReduceProofs`,
`MutexAggregatorProofs`, `ChannelAggregatorProofs`, `LabRpcProofs` or
`LockServiceProofs`.
