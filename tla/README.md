# TLA+ models of cpp_workspace_example

This directory holds models of the programs of the repository that keep state,
run concurrently or have to survive failures, the TLC runs that check them on
small instances, and TLAPS proofs for the parts where an answer for every
instance matters most. Paths below are relative to the repository.

The repository is a collection of independent C++ projects. They share no code
and do not talk to each other, so every project has models of its own:

| project | what it is | models |
|---|---|---|
| `raft-rpc` | a replicated counter on NuRaft: server, client, log store, state files, state machine | `MemLogStore*`, `LogStore`, `FileStateMgr*`, `CounterStateMachineOps`, `Replication*`, `CounterCluster*`, `CounterServer*`, `CounterClient*` |
| `delegate-example` | single- and multicast delegates in the style of Unreal | `Delegate`, `MulticastDelegate*` |
| `stackless-coroutine` | `task<T>` and a single-threaded scheduler | `Coroutines*` |
| `boost-asio-example`, `cobalt-example` | CSP programs on channels, echo servers, timers | `ChannelKit`, `ChannelPrograms`, `ThreadPrograms`, `Channels*` |
| `asio-call-tokio`, jthread module of `cpp-20-exmaple`, `folly_task_example`, oneTBB demo | threads, stop requests, locks and posted results | `ThreadPrograms`, `Channels` |
| `caf-example`, `actor_*` modules of `boost-asio-example` | actors with mailboxes | `ActorKit`, `CafActors`, `AsioActors`, `Actors` |

## Inventory

### raft-rpc

**Log store** (`source/mem_log_store.hxx`). State: `logs_`, a map from index to
entry with a dummy at 0, and `start_idx_`. Operations: `append`, `write_at`,
`entry_at`, `term_at`, `last_entry`, `log_entries`, `pack`, `apply_pack`,
`compact`. NuRaft calls it from its RPC and commit threads, under one mutex.
Hard: `next_slot()` counts keys instead of reading the last one, so one hole
corrupts the log; `apply_pack()` guesses `start_idx_`; a missing entry is
answered with the dummy. Correct when: it behaves as a sequence with a
compacted prefix.

**State files** (`source/file_state_mgr.hxx`). State: two files, term and vote,
and cluster configuration. `save_state`, `save_config`, `read_state`,
`load_config`, `write_file` (write `path.tmp`, rename it over `path`). Hard: a
kill between two steps, an ignored write error, a power loss without `fsync`.
Correct when: a node never votes twice in a term and never forgets its cluster.

**State machine** (`source/counter_state_machine.hxx`). State: `value_`,
`last_committed_idx_`, at most `kMaxSnapshots` snapshots. `commit`,
`commit_config`, `create_snapshot`, `read_logical_snp_obj`,
`save_logical_snp_obj`, `apply_snapshot`. Hard: two separate stores in
`commit()`, garbage collection of a snapshot that is being shipped, late
joiners. Correct when: the counter is the sum of the adds up to the commit
index on every path by which a node can get there.

**Server** (`source/counter_server.cpp`). The line protocol (`get`, `add`, ...),
`replicate()`, a listener, a worker thread per connection, a signal handler
that closes the listening socket. Correct when: `get` never misses an
acknowledged `add`, a line is lost only to a client that left before it was
answered, `main()` outlives its workers. Hard: a write to such a client, which
may fail or raise SIGPIPE; a signal at any point of the accept loop.

**Client** (`source/counter_client.cpp`). `request()` tries endpoints in turn,
follows `REDIRECT` hints and backs off; `bench` sends a number of adds and reads
the counter. Hard: the list is rebuilt inside the loop over it, a request has no
identity, and an add the client gave up may be applied all the same. Correct
when: it ends, and what it prints brackets the counter: at least the adds it was
told OK for, at most those it sent.

The log store, the state files and the state machine are called by NuRaft;
server and client talk over TCP; server and NuRaft share the state machine.

### delegate-example

`source/delegate.hpp`: a `Delegate` holds one binding (function, lambda, raw
pointer, `shared_ptr`, weak lambda), a `MulticastDelegate` an ordered list.
`Broadcast()` takes a snapshot of the list and calls what is still bound. No
threads; the hard part is reentrancy: callbacks add, remove, clear, destroy
targets, throw and broadcast again; and a delegate has four fields that have to
stay those of one binding. Correct when: what a delegate answers about itself
agrees with what a call does, no callback runs on a dead object, nobody is
skipped, called twice or out of order.

### stackless-coroutine

`source/coro/task.hpp`: lazy tasks, symmetric transfer to the awaited task and
back. `source/coro/scheduler.hpp`: a ready queue, a priority queue of timers,
`run()`. A task object owns its frame. Hard: a handle registered nowhere is
forgotten, one registered twice is resumed after its end, an exception ends
bodies that hold tasks of their own. Correct when: each suspended coroutine is
registered once, no frame outlives its owner, `run()` leaves nobody behind.
Generator and examples are sequential.

### Channel and thread programs

The `csp_*` modules, `actor_pool`, `actor_pipeline`, `actor_pingpong`, the echo
servers, `timer`, `coroutine` and `strand` of boost-asio-example, and
`spawn_channel.cpp` and `main.cpp` of cobalt-example are small concurrent
programs: coroutines that send, receive, close, cancel and wait for each other.
The jthread demos, `folly_task_example`, `run_flow_pipeline()` and
`asio-call-tokio` do the same with threads, stop requests, plain and atomic
counters and locks. Hard: who may close a channel several coroutines write to,
capacities that prevent a deadlock, counting instead of closing, selects that
cancel, increments that are lost, a server that stops while sessions wait.

### Actors

Each actor has a private state and a mailbox and takes one message at a time.
`caf-example` has fifteen demos: requests with timeouts, changing behaviours,
delayed messages, monitors, delegation, fan-out, flow control, a game room and
a published server. `actor_chat` has a room, an accept loop and two coroutines
per session over bounded mailboxes; `actor_genserver` a counter that is cast to
and called; `actor_supervisor` a restart loop. Hard: messages that overtake each
other, an actor that ends while it is talked to or before it is watched.
Correct when: the scripts get the answers the demos print, a room has the
members it should, everybody ends.

### The rest

`PROJECT.json` lists every part with its status. Left out are demonstrations of
one language or library feature that keep no state beyond a call (lambdas,
casts, templates, pointers, engine containers), the Raft logger, module
registries, `rust-ffi`, CMake projects, CI and scripts.

## Plan

1. *Done.* The replicated counter from the bottom: log store, state files, state
   machine; then replication, the cluster, server threads, client. Proofs for
   log store, state files and elections.
2. *Done.* Delegates, coroutines, channel programs.
3. *Done.* Actors, echo servers, threads, the bridge to tokio; what is promised
   of an `add` that is sent again; frames and exceptions of coroutines; the
   single-cast delegate. Proofs for client, delegates and coroutines.
4. *Done.* Proofs: what clusters that lose no log promise, the replicated state
   machine, the server threads, broadcasts, `run()`, the remembered config.
5. *Done.* Proofs about `Channels`: what channels keep to, the order of what is
   received, and that nobody meets a closed channel, in each of its programs.
6. *Done.* Proofs about the game room of `Actors`: one order for all players, and
   the members of the room.
7. *Left.* `AllDelivered` and `ResultsExact` of `Channels`, which need an account
   of every value a program has made, and the answers of the scripts of `Actors`.

## Modules and how they correspond to the code

`MemLogStoreOps` has one operator per method of `mem_log_store`, on a record
with the fields of the class (`logs`, `start`). `MemLogStore` is the state
machine around it: one action per method that changes the store, with the calls
NuRaft may make. `LogStore` is what a log store promises, a sequence and the
number of compacted entries; `MemLogStore` instantiates it with a refinement
mapping and is checked and proved to implement it. Both remember the last call,
so that a step is compared with the step of the same method: `write_at` has to
discard what is above its index, `apply_pack` has to keep it.

`FileStateMgr` splits `write_file()` where a kill makes a difference: truncate
the temporary file, write it, rename it. Around it is the node that votes: it
updates its term, grants a vote or stands itself, saves, and only then answers.
A kill can come between any two steps; `Boot` reads the files again.
`FileStateMgrFaults` adds what `FileStateMgr` assumes away: a write that fails,
a page cache that is written back late, a power loss. `RaftStorageProofs` has
the proofs about the log store and the state files, which do not know each other
and have names of their own for what both have (`FilesInit`, `FilesNext`, ...).

`CounterStateMachineOps` has one operator per method of the state machine; the
two stores of `commit()` are two operators. `Replication` extends it and
`MemLogStoreOps`: a leader and one follower that joins late, lags and restarts
with nothing. The leader's commit thread and the follower's run `ApplyEntry`,
`StoreIndex` and `SnapshotAndCompact` apart, so a snapshot transfer can fall
between any two of them. What NuRaft does with the calls is external: packs
while a server joins, batches of entries, snapshots when the entries it needs
are compacted.

`CounterCluster` is the cluster as its users see it: elections, commands,
commits, timeouts, restarts. Logs and votes are what the classes above keep:
term and vote survive a restart, log and counter do not. One request and its
answer are one step; both can be lost. A value of the counter is the set of adds
in it, so that two different sums never look alike.

`CounterServer` has the threads of the server: `main`, signal handler, workers.
`recv()` returns any number of the lines sent, and perhaps the beginning of
another one, which the worker keeps for the next `recv()`. The signal handler
runs at any time and any number of times, and the listener may fail before it
accepts anybody. An answer to a client that is gone is taken by the socket, or
fails and ends the worker, or raises SIGPIPE and kills the process
(`BrokenPipe`).

`CounterClient` is `bench` and `request()`, action by action, against
`replicate()`: an attempt is sent, logged, applied, and can be given up at each
of these points, by a timeout of the client, by the `REDIRECT` of a server
whose commit did not come in time, or by an ERR. What is given up before it was
applied is counted in `loose` and may be applied at any later time.

`Delegate` has the single-cast delegate as a record with the fields of the
class and an operator per method. `MulticastDelegate` extends it. Handle `Own`
is a delegate of the program that is bound anew, unbound, executed and copied
into the list; the other handles are those of the list. The module keeps the
frames of nested broadcasts as a stack, each with its snapshot and position;
whenever no callback runs, or one does, user code may do anything the interface
allows.

`Coroutines` keeps the stack of `resume()` calls, the ready queue, the
timers (a due time is kept as the time left) and, per task, the state of its
frame, the body or ordinary code that owns it, its outcome and its
continuation. What a body does is open: it creates tasks, starts or awaits
them, destroys them, yields, sleeps, returns or throws; a body that ends takes
the tasks it holds with it, and an exception goes to whoever awaits. What the
header leaves to its user, that a task is started or awaited once, is the named
condition `FirstUse`.

`ChannelKit` describes a program by data: each coroutine or thread is a sequence
of phases (a loop of sends and receives, close, stop, join, spawn, an atomic or
a plain step on a shared variable), and `Channels` interprets them with one set
of actions over channels with capacity, waiting senders and waiting receivers.
`ChannelPrograms` has the programs that talk through channels and sockets only,
`ThreadPrograms` those that share variables, wait for or poll stop requests or
are cancelled: forty-four in all, one per demo. A client of the echo server may
hang up at any time, which ends its session's reads and writes, and `accept()`
may fail, which ends the server. `Race` is `cobalt::race`, which
interrupts the losing read safely; `Select` is `operator||`, which cancels it in
a later step.

`Actors` does the same for actors. A handler is an operator from the state and a
message to the new state and a list of things to do (`ActorKit` names them:
tell, ask, reply, monitor, set a timer, quit, ...); `CafActors` and `AsioActors`
have the handlers and scripts of the demos. Between any two things an actor
does, any other may go on. Mailboxes of Asio actors are bounded and can be
closed, a socket is the mailbox of who reads it, and a request of CAF can
time out, its late answer is then dropped. `co_spawn` with `use_awaitable`
starts a worker and watches it in one step (`SpawnLink`); `spawn` and `monitor`
of CAF are two.

`PROJECT.json` maps every definition to the lines it models.

## Runs

Ten runs pass, two show a disagreement between a comment and the code.

| run | module | checks |
|---|---|---|
| `log_store` | MCMemLogStore | `Contiguous`, `ImplementsLogStore` |
| `state_files` | MCFileStateMgr | `VoteOnce`, `CrashAtomic`, `ConfigRemembered` |
| `disk_faults` | MCFileStateMgrFaults | `VoteOnce` *is violated* |
| `replication` | MCReplication | `ValueIsExact`, `SnapshotsExact`, `CommitsRealEntries`, `CanServeFollower`, `CommitOnlyGrows`, `FollowerCatchesUp` |
| `cluster` | MCCounterCluster | `ElectionSafety`, `CommittedAgree`, `NeverStaleWithLogs` |
| `server_threads` | MCCounterServer | `NoWorkerOutlivesMain`, `ReceivedIsHandled`, `StopsOnSignal` |
| `client_request` | MCCounterClient | `BenchReport`, `Returns` |
| `delegate` | MCMulticastDelegate | `QueriesAgree`, `NoDanglingCall`, `CalledInOrder`, `NobodyMissed`, `NobodyForgotten` |
| `coroutines` | MCCoroutines | `OnePlace`, `FramesOwned`, `RunDrains`, `InTurn`, `NobodyStarves` |
| `channels` | MCChannels | type and channel discipline, `NobodyFails`, `InOrder`, `AllDelivered`, `ResultsExact`, `EverybodyReturns` |
| `select_lost` | MCChannels | `NothingLost` *is violated* |
| `actors` | MCActors | `AnswersRight`, `SameOrder`, `MembersAlive`, `SessionsInRoom`, `EverybodyEnds` |

What the two violations show:

* `disk_faults`: `write_file()` has no `fsync()`. A vote is saved and sent, the
  machine loses power, the file is the older one, the node votes again in the
  same term. `file_state_mgr.hxx` lines 61-62 say this cannot happen; it cannot
  when only the process is killed (`state_files`, and proved).
* `select_lost`: `csp_select.cpp` lines 145-146 say that with unbuffered
  channels there is no window in which both sides are ready. There is: the
  receive of the loser stays registered until the winner has run, and the
  second sender hands its value to it.

More behaviours a reader should know of, which no run is spent on:

* The log is in memory. A restarted server has an empty one, keeps its term, and
  can elect, together with a server that lagged, a leader that never had an
  acknowledged `add`. `NeverStaleWithLogs` therefore speaks of clusters in which
  no server restarted; `NeverStale` without that condition does not hold. The
  documentation of the example names the in-memory log as a simplification.
* `counter_server.cpp` line 212 calls `send()` without `MSG_NOSIGNAL`, and nobody
  ignores SIGPIPE. A client that leaves before it has its answers can thereby
  kill the server, and lines that other workers have received are lost. The
  model has this; `ReceivedIsHandled` says that nothing else loses a line.
* The signal handler closes the number in `g_listen_fd` each time it runs, and
  leaves it set. A second signal may therefore close a descriptor
  that was given the same number since. The model repeats the handler, but has
  no descriptors that are given out again.
* A client that stays connected and silent keeps a signalled server from
  stopping (its worker is blocked in `recv()`, which `main` joins;
  `StopsOnSignal` assumes that clients leave), and redirects can use up all
  rounds of `request()` before every endpoint was asked.
* `getB()` of `folly_task_example` awaits `getA()` with the lock in its hand
  that `getA()` takes, so `main()` does not return. `EverybodyReturns` names
  this program as its one exception.
* The plain counter of `folly_task_example` loses increments on a pool of
  threads; `ResultsExact` allows every number of them there.
* In `actor_chat` either client may be the first to join; both orders are
  checked.

### Bounds, and why they are enough

* `log_store`: indices to 5, two entries, packs of two: every order of compact,
  overwrite and pack on both sides of `start_idx_`.
* `state_files`, `disk_faults`: two candidates, terms to 2: double votes need
  two candidates and one term, forgetting needs a second term.
* `replication`: an index of 3, a snapshot at every index with two kept, one
  reserved entry, batches of two, one restart, counters from -2 to 1: snapshots
  are collected while one is shipped, entries compacted while the follower
  needs them, and the counter overflows. (`HalfRange` is 2 here, 2^63 in the
  code; the theorems have no bounds.)
* `cluster`: three servers, two terms, two log entries or restarts together.
  Two terms suffice for two leaders at once; a stale read needs an add, a get
  and an election; the violation is found with one restart.
* `server_threads`: two clients with two lines each: one worker can be in any
  state while the other ends; two lines let a `recv()` return one or both, or one
  and the beginning of the other. A line is cut once at most.
* `client_request`: two given endpoints, a third known only from redirects and
  dead, three rounds of the eight, two adds and the final get; `MaxSent` bounds
  what is sent by two adds times three rounds times three endpoints, which a
  list without duplicates never exceeds. The list can be reordered more often
  than it has members, and an add given up in the first request can be applied
  after the last. The theorem `BenchReportsRight` has no bounds.
* `delegate`: two objects, three bindings beside the delegate of the program,
  two nested calls: a callback in the inner broadcast can change what the outer
  one has before and behind it.
* `coroutines`: three tasks, sleeps of one or two: a chain of awaits of length
  three, two of them beside a sleeper or a task held but never started, ties and
  overtaking among timers.
* `channels`: three items per producer: more than any modelled capacity that
  should fill up, and more than there are workers where that decides between
  progress and deadlock. Two workers or sessions or threads of a kind; numbers
  to 7 (`SieveLimit`) through the sieve, which grows four filters; a flow graph
  with a limit of two (`FlowCapacity`) and three messages. Capacities are the
  code's where they are small; credits come in batches of two, producers of
  `csp_mpsc` are two. `MaxCount` only bounds the values TLC tries for a counter,
  above what any program reaches.
* `actors`: mailboxes of two (16 in the code): three members or casts fill them
  up. Two players and one tick of the clock: one can leave while the other is
  told what it said. Three casts per client, the first get between them. The
  supervisor has the code's numbers, five restarts and a third attempt that
  succeeds.

`CHECK_DEADLOCK FALSE` is used only where the system really stops: a program is
over, a client has its answer, a server has exited, a bound is reached.

### Fairness

* `Replication`: commit threads run and both nodes handle what they receive;
  heartbeats make the leader send. Nobody has to add or restart.
* `CounterServer`: threads run and `handle_command()` returns, since NuRaft's
  `client_req_timeout_` bounds it. Clients leave some day (see above).
* `CounterClient`: every call the client blocks in has a timeout, so some step
  of the client happens. The servers owe nothing.
* `Coroutines`: ordinary code calls `run()`, the loop goes on, time passes, an
  exception is caught or leaves the body, and the body that executes suspends or
  ends some day (it may yield for ever). The last is strong fairness: a body
  may create and destroy tasks, throw and catch between two suspensions, and
  whether it can leave now changes with that.
* `Channels`, `Actors`: while anybody can go on, the event loop, the thread
  pool or the actor system lets somebody (`WF_vars(Next)`). That is enough
  since the programs end; which one goes on is open. Timers only delay: any
  interleaving is possible.

No other specification states fairness and only safety is checked of it.

## Proofs

`RaftStorageProofs`, of the log store: for every set of entries and every bound, `TypeOK` (no run
spends a property on it) and `Contiguous` are invariants. Assumptions: the
dummy is not an entry and the bounds are naturals. `Contiguous` counts keys,
which is not what an induction can use; the inductive invariant `HasShape`
names the last index: keys are the dummy and `start .. last`. One lemma says
that in this shape the count of keys gives the next index, one lemma per method
carries the shape over a call.

The same module: `MemLogStore` implements `LogStore`, for every set of
entries and every bound. In a store of the shape `start .. last` the abstract
sequence is the entries from `start` on. One lemma per method computes the
sequence it leaves behind (`apply_pack` has two, within the log and on an empty
store), and each action is then the abstract action of the same name.

The same module, of the state files: for every set of nodes, configurations and
every bound on terms, `FilesTypeOK` (no run checks it), `VoteOnce`,
`CrashAtomic` and `ConfigRemembered`. Assumptions: the markers for absent, empty
and torn files differ from each other and from contents, and "no vote" is not a
node. `VoteOnce` alone is not inductive: it has to be known that every vote ever
sent is bounded by what is on disk (`VotesOnFile`), that what is in memory is on
disk unless a save is under way, and is then newer (`Fresh`), and that the
temporary file is complete before the rename (`Complete`). For
`ConfigRemembered` the config in memory is followed through a save (`ConfInv`):
it is the one on file, or the one being written.

`CounterClusterProofs`: for every finite set of servers and every bound,
`ElectionSafety`: no term has two leaders, whoever is killed and restarted
between two votes. A server that goes to a later term forgets whom it voted for,
so the state of the disks alone does not show that an old majority was one. The
inductive invariant keeps the consequences instead: a voter of a candidate is in
a later term or still has that vote on disk (`VotesHeld`), two candidates of a
term share no voter (`NoSharedVoter`), and each leader ever elected has a
majority no other candidate of its term has a vote from (`ElectedByMajority`).
Each action is shown to be a `VoteStep` (a vote is given up only for a later
term, a new vote is cast by a server free to cast it), and the invariant is
carried over a `VoteStep` once. `Restart` is one only because term and vote come
back from the file, which is what `FileStateMgr` is about.

The same module, for clusters in which no server has lost its log yet:
`CommittedAgree`, `NeverStaleWithLogs`, and that a committed entry stays
(`CommittedForever`). The invariant (`ClusterInv`) claims everything about logs
only while `restarts = 0`, as the properties do. Its heart is a notion the model
does not have: a prefix of a log is `Secured` by a set of servers when each of
them has it and has voted, in the terms after it, only for servers that have it,
and when all entries and leaders of later terms come after it. Elections aside
no step can undo that, and an election only if the winner got no vote from the
set, so what a majority secures stays. Then `CommitSecured` (each committed
prefix is secured by a majority) gives `CommittedAgree`, and each `get`
contains the prefixes acknowledged before it since it commits after them. The
commit itself is the hard step: the servers whose acknowledgements a leader
counts must secure its entry (`AckedSecured`), although some may have voted
again since; if a majority of them has, the leader is `Overtaken` and can commit
no more. All of it rests on `Matching`: logs with an entry of one term at one
index agree up to it.

`ReplicationProofs`: for every set of adds, width of the counter, snapshot
distance, batch size, and number of snapshots and reserved entries (each
positive where the code needs it to be), `ValueIsExact`, `SnapshotsExact`,
`CommitsRealEntries`, `CanServeFollower` and `CommitOnlyGrows`. The inductive
invariant `ReplInv` says of each server that it is a `Node`: a log without holes
whose entries are those the leader gave the index, a counter that has the sum up
to what is applied, snapshots of the same kind, and a commit thread that has in
its log what it must apply next. One lemma per method (`append`, `pack` and
`apply_pack`, `commit`, `create_snapshot` with `compact`, `apply_snapshot`)
carries a `Node` over a call. `LeaderLog` says the leader has a snapshot of what
it compacted. `Talk` is what makes the messages fit: a request carries the
leader's own entries at their indices, `next_log_idx` is never below the end of
the follower's log except while an answer is on its way, and a snapshot is only
shipped to a follower whose log ends before it. The sum the properties compare
with is a history the model keeps (`expected`): the counter after each entry of
the leader's log, wrapped at every add as in the code.

`CounterProcessProofs`, of the server: for every set of clients and any number
of lines, `NoWorkerOutlivesMain` and `ReceivedIsHandled`. Per client what is
handled, what is received and what is sent are in that order; the first two
differ only while the worker is at a line, or when its client left before its
answers, or when the process was killed, which takes such a client as well
(`LinesCount`). No worker starts
outside the accept loop, which `main` never goes back to.

The same module, of the client: for every number of adds and rounds and every
set of endpoints, `BenchReport`. Of `Given` only that its members are endpoints
and that there is one. The inductive invariant is an account of the adds:
applied, loose and awaited ones together are at most those sent (`Account`),
and those answered OK, with the one about to be, at most those applied
(`Honest`). No step may count an add in two places, which is what an answer that
is given after the add became loose would do.

`ChannelsProofs`: for every number of items and workers, every set of the
forty-four programs and every interleaving, `TypeOK` (with the discipline of
channels), `InOrder` and `NobodyFails`. Assumption (`ChannelConstants`): a
producer has at least two items, there is a worker, and the programs are
programs. TLC looks at three items and two workers; the code has up to 250.

The proof is about programs of a kind, and shows afterwards that all are of that
kind. A program is `Tidy` when each process can be given a role: the channels it
reads from, writes to and closes, and whether it sends on what it receives. No
process reads two channels that one other process writes to, and who sends on
has one source only. `InOrder` needs both, since a value that was made earlier
could otherwise overtake on a second way. The inductive invariant (`Inv`) says of
a process that what it received is sorted (`Procs`), of a channel that its buffer
is (`Chans`), that who is registered in a channel waits there (`Waiting`,
`Suspending`), that what somebody has received precedes what is still in a
buffer he reads (`Ahead`), and that each value in circulation was sent by the
process it names, and was received by it first if it only sends on (`Accounts`).
One lemma per action carries it over. The hard ones are those in which two
processes move: a value that goes straight to a waiting receiver, and a receive
that frees a place for a suspended sender.

`NobodyFails` is about the order of phases. A program is `Orderly` when who
closes a channel does so after all that write to it and all that count on a
number of values from it: they are phases of his own that are over, or of a
process he has joined (`Awaited`), or of one that had to close another channel
later, which he has drained (`Exhausted`, as `pong` does). The invariant
(`Closing`) remembers what that order is worth: a closed channel was closed by a
phase that is behind (`Shut`), who joined somebody finds him returned (`Joined`),
who left a loop without a count finds its channel closed (`Drained`, unless a
stop message can end the loop). One lemma per action shows that it ends at most
one phase of each process, and no phase before it is over (`Moves`).

All forty-four programs are tidy and orderly, whatever the constants: one lemma
for each that has channels, one for those that have none. For the sieve, the flow
graph, the bridge and the echo server, whose processes and channels are as many
as the constants say, links, lines and replies have to be shown different.

`MulticastDelegateProofs`: for every set of objects, any number of bindings and
any nesting, all five properties of the run. Assumption: `nullptr` is not an
object. First `QueriesAgree`: `IsBound()` and `IsBoundToObject()` look at
`uses_weak_`, `weak_` and `owner_`, a call at the closure. They agree because
the four fields are always those of one bind (`OneBinding`), which every
`Bind...`, `Unbind` and copy has to preserve whatever the delegate was bound to
before. Then the calls in progress (`CallInv`): handles ascend in `slots_` and
in each snapshot, all frames below the top are inside a callback, and each frame
is `Fine`: the handles it called ascend and lie behind its position (`Shape`),
what lies behind was called or is no longer bound (`Behind`), and the object of
a running callback is owned by the program or by the call (`Live`). User code in
a callback can neither give out a handle twice nor revive what died (`Ages`), so
it keeps every frame fine, at any depth. `NoDanglingCall`, `CalledInOrder` and
`NobodyMissed` follow.

`NobodyForgotten` is about the list in the long run: whatever callbacks do, and
wherever an exception skips the cleanup, a binding that was made and never taken
out is in the list unless its object is dead. Every handle given out is in
`slots_`, was removed, or has a dead object (`Accounted`), and what is dead
stays dead (`DeadStaysDead`). The step that could lose a binding is the cleanup
at the end of a broadcast, inside other broadcasts or not: it has to look at the
list as callbacks left it, not at its snapshot. What it leaves is given by
`SelectSelects` (of an ascending sequence exactly the elements of the set, in
their order), an induction along the function that `Select` is written with.

`CoroutinesProofs`: for every set of tasks and every length of sleep, `TypeOK`
(no run spends a property on it), `OnePlace`, `FramesOwned`, `RunDrains` and
`InTurn`. Assumptions: "no task" is not a task,
and there is a sleep. `OnePlace` and `FramesOwned` hang together: what the
scheduler or a final awaiter resumes must be a frame that exists, and a frame
may go only when nobody is to resume it. The inductive invariant lays the ready
queue and the timers end to end (`Line`): no task stands in it twice, no two
tasks are awaited by the same one, and nobody who awaits stands in the line
(`Once`); suspended are those in the line or awaiting something (`Placed`);
nobody awaits what has not begun (`Fresh`). Then `yield()` and `sleep_for()`
each insert one task into the line, wherever the timer belongs, and an iteration
of `run()` takes away its head, whatever it moves from the timers to the queue;
one lemma for each carries the invariant over. `RunDrains` needs more
(`Chains`): in every set of tasks one waits for none of the others (`NoLoop`:
chains of awaits have no cycle), who is not suspended and has begun is on the
stack (`ActiveOnStack`), and the timers are sorted. If the stack, the queue and
the timers are empty, all suspended tasks await one another, and `NoLoop` says
there are none.

`InTurn` says that no step lets a task overtake another that is due no later,
and that of two timers due at the same time the one registered first comes
first. `yield()` and `sleep_for()` insert one task, behind all that are due no
later because the timers are sorted, and an iteration takes the head of the
line; nobody else's order changes.

`ActorsProofs`: for the game room of `caf-example` with any finite set of players
and any number of ticks, `SameOrder` and `MembersAlive`. Assumptions:
`PlayersAreNamed` (there are at least two, one to leave and one to talk, and none
is called like the script, the room or the clock) and `ActorConstants`. Script,
players, monitors and clock tell the room at once, and between any two things an
actor does any other may go on; the demo has three players and two ticks.

`SameOrder` speaks of what players have printed. That is not inductive: who has
printed less has the rest in the mailbox, and the room has more to tell. The
inductive invariant (`IInv`) follows each line that will ever be told. Until it is
told, it is in one place only (`OnePlace`): on somebody's list of things to do, in a
mailbox, with a monitor that will report an end, or with the clock; and
within a list or a mailbox no two entries stand for the same line (`Apart`). Nobody
has it before his eyes then, printed or in the mailbox (`Unseen`). So the room tells
it after all that its members have been told, to all of them in one step, and what
two players have before their eyes, printed first and then the mailbox, is never in
opposite orders (`OneOrder`). A player that printed what it says before it is told
(the mutant `Player_Echo`) would break `Unseen`.

`MembersAlive` follows a player through its life (`Member`): it joins with a message
that is on its list, then in the mailbox of the room, then it is a member, never
two of these; and a member is one the room is about to watch, or watches, or whose
end is reported in the mailbox. One lemma per action and kind of actor carries the
parts of `IInv` over, and the script is shown to say each line once, whatever the
number of players (`TheScript`, `InitInv`).

All are checked by TLAPS without any unproved leaf; TLC checked the invariants
first, the inductive ones included.

Only model-checked: `AllDelivered` and `ResultsExact` of `Channels`, and
`AnswersRight` and `SessionsInRoom` of `Actors`. The first two compare counts at
the end of a program, of values and of increments: each program needs an argument
of its own why its numbers fit, by an induction over what is sent. `AnswersRight`
speaks of what eighteen given scripts compute, and the chat of `SessionsInRoom` has
two given clients; their numbers are part of the script, so an instance is nearly
the whole answer.
Out of the prover's reach: liveness under fairness (`FollowerCatchesUp`,
`StopsOnSignal`, `Returns`, `NobodyStarves`, `EverybodyReturns`,
`EverybodyEnds`), and theorems about all values of a recursive definition beyond
what an induction over a set of naturals gives (`UpTo` in
`MulticastDelegateProofs`).

## Not modelled, and what is assumed

* NuRaft, Boost.Asio, Boost.Cobalt, the file system and the sockets are
  external: they are modelled from how the code uses them and marked so in
  `PROJECT.json`.
* Byte formats (operations, packs, snapshots, srv_state): a value is what is
  written and read back; files are torn as a whole.
* `local`, `status`, `addsrv` and `rmsrv` of the line protocol read or forward;
  membership changes other than the first joining of a server are left out.
* The signal is assumed to reach the main thread.
* How often a worker of `coordinated_shutdown()` ticks depends on the clock: it
  polls its stop token any number of times, and no property speaks of the total.
* A request of the client has no identity, so an add that is sent again can be
  counted twice. `BenchReport` says how far: what is read lies between the adds
  answered OK and those sent.
* Delegates are assumed to be used as the header asks: an object bound raw is
  removed before it dies, and a callback does not bind the very delegate it is
  called through, which would destroy the closure it runs in. The demo classes
  of `delegate-example/source/main.cpp` are not modelled; `TakeDamage()` there
  reads `health_` after a broadcast, in which a callback could deal damage
  again, so `OnDeath` may be broadcast twice.
* A task that was started is assumed to be kept until it is done, and to be
  started or awaited once (`FirstUse`): `start()` and `co_await` only ask whether
  it is done (`task.hpp` line 185), so a second one would resume a frame that is
  registered elsewhere. The header leaves both to its user.
* The pauses of the demos (in the game room, the chat, before a player leaves)
  promise nothing and any order is possible without them. A session of
  `actor_chat` that ends by another error than end of file (lines 168-172) does
  not tell the room, which would then wait for ever; with the two scripts of the
  demo no connection ends that way, since the one who joined first always leaves
  first and nobody writes to him afterwards.
* Left out because nothing concurrent happens in them: the generator and the
  examples of `stackless-coroutine`, `hello`, `resolver` and `post_dispatch` of
  boost-asio-example, `standalone_stop_source()`, `parallel_sum()`, the other
  C++20, lambda, cast, template and pointer demos, `rust-ffi`, the registries
  and the Raft logger.
