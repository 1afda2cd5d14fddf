# Nero: specification and proofs

TLA+ modules, TLC configurations and TLAPS proofs for nero_consensus (`src/`): its
consensus core, the network and storage it runs on, and its round simulator. Paths below are relative to the repository; line
numbers refer to the commit the modules were written from.

The program decides, for every transaction a client submits, one of two values,
`Zero` or `One`. Each of the 3F + 1 primaries (`F = 1` in
`primary/src/general.rs`) casts one vote per round; a vote of round r + 1 is
made, by a fixed rule, of a quorum of 2F + 1 votes of round r, which it names in
its proof; a node that receives it recomputes the rule before it counts it. A
vote is an `InitialVote`, a `Commit` or a `Decide`; a node that casts a `Decide`
has decided.

## Inventory

Status: M modelled here, m in part, - left out.

| Part | Source | State | Operations | St. |
|---|---|---|---|---|
| Votes and the decision rule | `primary/src/{general,vote,election}.rs`, `core.rs:513` | none: pure functions on votes and tallies | `tally_vote`, `from_votes`, `make_decision`, `digest`, `random` | M |
| Core | `primary/src/core.rs` | `elections` (per election and round: tally, `voted`, validated and parked votes; `is_decided`), `decided` | `handle_transaction`, `handle_vote` (`validate_vote`, `validate_pending_votes`, casting) | M |
| Receiving side of a primary | `primary/src/primary.rs`, `network/src/receiver.rs` | two channels of bounded size to the core | one task per connection, `dispatch`, `Core::run` | M |
| Reliable sender | `network/src/reliable_sender.rs` | per peer: channel, `buffer`, `pending_replies`, retry number | `send`, `broadcast`, `run`, `keep_alive`, cancel handlers | M |
| Store | `store/src/lib.rs` | map on disk, `obligations` | `write`, `read`, `notify_read`, the command loop | M |
| Committee thresholds | `config/src/lib.rs` | authorities and stakes, constant | `total_stake`, `quorum_threshold`, `validity_threshold`, `others_primaries` | M |
| Round simulator | `node/src/consensus.rs` | its own rule, rounds and delays | one loop, with an assertion on its outcome | M |
| Node binary, benchmark client | `node/src/{main,benchmark_client}.rs` | what the client reached | `wait`, `send`; command lines | m |
| Simple sender | `network/src/simple_sender.rs` | per peer: channel | `send`, `run` | - |
| Signature service | `crypto/src/lib.rs` | request channel | `request_signature` | - |
| Legacy in-memory node | `primary/src/node.rs` | | | - |
| Messages, errors | `primary/src/{messages,error}.rs` | none | digests, encoding | - |
| Benchmark scripts | `benchmark/` | | | - |

**How the parts interact.** A client waits until it reached every primary, connects to
one and sends `Transactions`. The receiver has one task for each connection; it decodes a
message and puts it into `tx_transactions` or `tx_votes`, waiting when the channel is
full. `Core::run` selects over the two channels and handles one item to the end.
What a handler broadcasts goes, through a channel for each peer (a node is a peer of
itself: `others_primaries` filters nothing), to a connection task that writes it
and keeps it until an ACK comes. The receiver of a primary never writes one
(`primary.rs:139`), so on every reconnection all of history is sent again.
Nothing of the core is stored: the store is opened and not used.

**What is hard here.** The hazards are in `PROJECT.json`, each at its line. In
groups:

- *Different quorums.* Four nodes commit, adopt and decide in different rounds
  from different sets of three votes; agreement rests on how quorums meet and on
  the order of the branches of `make_decision`.
- *Two places that cast the first vote*, each drawing at random
  (`core.rs:303`, `core.rs:357`); as the digest of a vote is its signer, two votes
  of a node in a round could not be told apart.
- *Two ways to compute a tally*, one incremental and one from a proof, that
  differ (`election.rs:98`).
- *Advancing on arrival*: only a vote of the round makes a node look whether it
  can go on (`core.rs:372`).
- *Delivery*: in the order of each connection, out of order between connections,
  and all of history again after a reconnection.
- *Lost pending and early votes* (`core.rs:411`, `core.rs:510`), *restarts with
  no memory*, *buffers that only grow*.
- *Waiting for room*: cores, connection tasks and runners wait for each other's
  channels; a task that writes does not read (`reliable_sender.rs:193-212`).
- *Replies by position*: an ACK carries no identity, a `notify_read` is answered by a
  later write, and callers of both may be dropped while they wait.

**What makes each part correct.** Core: agreement, support of the decided value,
one vote per round, exact proofs, tallies that match, no missed advance, the
last vote of a node is its Decide; over connections, that no first vote is lost and that
nodes decide. Reliable sender: a message arrives or is cancelled; ACKs resolve the
right handlers; history is replayed in order. Receiving side: nothing accepted is
lost or doubled by waiting, channels do not block in a circle. Store: a reader that
waits is answered by the write, once. Simulator: its assertion. Thresholds: two
quorums meet in more than f.

## Modules

| Module | What it is |
|---|---|
| `NeroVotes` | votes, tallies, `make_decision`; no state |
| `NeroCore` | the state machine of the cores and the network between them; the safety properties |
| `Consensus` | what the cores promise together: each node decides an election at most once, and all alike |
| `NeroInvariant` | the inductive invariant `Inv` of `NeroCore`, and `ViewInv`, the part of it that restarts preserve |
| `NeroCoreProofs` | lemmas on tallies and the rule, for every F; what each operation does to the state; type correctness; every step is a stutter or has one shape |
| `NeroSafetyProofs` | `Inv` is inductive, the safety properties follow, and `NeroCore` implements `Consensus` |
| `MCNeroCore` | instances for TLC |
| `NeroFifo`, `MCNeroFifo` | `NeroCore` over connections that deliver in order, break and replay; liveness |
| `NeroFifoProofs` | first votes are not lost, second votes not Invalid |
| `NeroRestart`, `MCNeroRestart` | `NeroCore` with primaries that restart with nothing |
| `NeroRestartProofs` | decisions agree through restarts; what holds of each node by itself, whoever restarts |
| `ReliableSender` | one connection of the reliable sender, its caller and its peer |
| `ReliableLink` | what it promises: in order, from the start on every connection, until answered |
| `ReliableSenderProofs` | nothing is lost, answers match, and it implements `ReliableLink` |
| `Pipeline`, `MCPipeline` | client, receivers, cores and connections joined by bounded channels |
| `Committee` | stakes, thresholds, addresses |
| `PipelineProofs` | the thresholds; votes are not doubled or lost on their way, and find listeners |
| `Simulation`, `MCSimulation` | one instance of the round simulator |
| `SimulationProofs` | no opposed quorums, no ones out of zeros, agreement while byzantine nodes are silent, for any 3B + 1 nodes |
| `Store` | the store's task and its callers |
| `Register` | what it promises: a memory with waiting readers |
| `StoreProofs` | its type, and no reader left behind |

`NeroFifo` and `NeroRestart` extend `NeroCore`; `Pipeline` extends `Committee`.
`NeroCore` implements `Consensus`; `NeroFifo` has, by its definition, only steps of `NeroCore`;
`ReliableSender` implements `ReliableLink` (what `NeroFifo` takes a connection
with a peer that never answers to be) and `Store` implements `Register`.

### NeroVotes

A vote hash names a signer, because `PrimaryVote::digest` feeds nothing else to
the hasher (`vote.rs:138`). A proof is therefore a set of nodes.
`TallyVote` is the incremental tally, with the branch for a Decide for Zero that
repeats the test of the branch before it (`election.rs:95,98`) and so counts nothing;
`FromVotes` is the tally of a proof; `Seen(S)` is what `TallyVote` makes of the
votes of S one by one. `MakeDecision` tries the branches of
`Core::make_decision` in the order of the code, the two that only log included.

### NeroCore

`elections[n][e]`, `decided[n][e]` and the set `msgs` of all votes broadcast. The
maps of the code are total here: an entry that is missing is a new election or a new
round state, which is what the code puts in its place.

| Action or operator | Code |
|---|---|
| `HandleTransaction(n, e)` | `handle_transaction`, for one transaction |
| `HandleVote(n, v)` | `handle_vote`: ignored if known, else `ValidateVote` and one of its outcomes |
| `ValidateVote(n, v)` | `validate_vote`: the set of outcomes it may have, more than one only at a byzantine node |
| `Stay`, `Advance` | the valid branch, without and with a vote of the next round |
| `ParkVote`, `RejectVote`, `IgnoreVote` | the branches that leave the election as it was |
| `Draws`, `OwnVotes`, `Joined` | the vote of its own a node adds in round 0 |
| `Decisions(n, t)` | `make_decision`: the rule, or a random decision at a byzantine node that saw no Decide for One |

`Core::run` handles one item at a time and no other task writes the core's
state, so a handler is one step. The `await`s inside a handler only wait for
room in a channel.

*The network* is a set: a node may handle any vote ever broadcast, any number of
times, in any order. That includes the echo of its own votes, replays and votes that
overtake each other. It also includes votes of one sender that overtake each other on
one connection, which the code does not do; safety shown here holds a fortiori there. What
does not carry over is progress, which is checked in `NeroFifo`.

*Byzantine* nodes are those started with the byzantine flag. They draw decisions
and verdicts at random and otherwise run the same code (`core.rs:516`); so they
cast one vote per round and their proofs name real votes. The model has this
node and not an arbitrary adversary, which the code does not contain.

*Left out, because it has no effect:* the second broadcast of `handle_vote`
(`core.rs:327`) is a future nobody awaits and never runs, and `sent_votes` only
guards it; `timed_out` and the timer are never set; `byzantine_votes` is never
called; `validate_pending_votes` writes an election that its caller overwrites
(`core.rs:415`).

*Bounds.* `MaxRound` (votes of that round are cast and not handled), `Coin` (the
initial values a node may draw; all of them in the code) and `Hears` (whose votes
reach a node; all in the code; a restriction stands for votes that are late beyond the
horizon). The proofs hold for all values of the three, in particular for none
of them restricting anything, with any `MaxRound`.

### NeroFifo

The network of `NeroCore` replaced by what `ReliableSender` makes of it where a peer
answers nothing: the connection from m to n hands over m's votes in the order of
casting, `taken[n][m][e]` counts those that n took from the connection that is up, and
`Reconnect` starts again from the first. `Deliver` is `HandleVote` of the next
vote. `SteadySpec` has no `Reconnect`.

### NeroRestart

`Restart(n)` is `Primary::spawn` of a node that ran before: `Core::spawn` starts
from empty maps, so n draws again and votes again in rounds it voted in. `earlier`
remembers, for the properties only, what it decided before. Old votes stay in
`msgs`: peers still have them in their channels, and send theirs again.

### ReliableSender

| Action | Code |
|---|---|
| `Send`, `SendPanics`, `Cancel` | `send`, with room in the channel, or to a task that is gone; the `CancelHandler` dropped |
| `Connect`, `ConnectFails`, `TimerFires`, `Drain` | `Connection::run` |
| `TimerPanics` | the end of the task of `Connection::spawn`, and of all it owns |
| `SkipCancelled`, `Write`, `WriteFails`, `Written` | the loop that writes the buffer |
| `Accept`, `TakeAck`, `ReadFails` | the `select!` |
| `PutBack` | the pending messages in front of the buffer again, in order |
| `PeerReads`, `PeerAnswers` | a `Receiver` runner whose handler answers each message, or, with `acking` false, none (as that of a primary) |
| `Break` | the connection breaks; what was on the way to the peer is lost, answers may be |

The retry number is a u16 (`network/src/error.rs:9`), named by `MaxRetry`. Past it the
addition wraps (`TimerFires`) or, where the build checks overflows, panics (`TimerPanics`).
The panic drops the `Connection`: its buffer and its end of the channel are gone, every
handler that waits resolves with an error (`"lost"`), and the next `send` panics its
caller (`expect`, line 70). `ReliableLink` has this as `GiveUp`.

### Pipeline

The channels of `primary.rs` and of the senders with their bounds, the wire between
them, and the cores as far as they decide who sends what: an initial vote, then a vote
for each quorum, no values. `Send` is one address of a broadcast: it waits for
room in the channel of that connection, and until the last address the core takes nothing else.
`TakeTransactions` and `HandleTransaction` go through a batch without taking
a vote in between, as `Core::run` does. A client passes through `Reach`,
`JoinAll` (`Client::wait`) and `Submit` (`Client::send`). The transactions of the
benchmark client are all equal; other clients of the port may send different ones,
which is the harder case and the one checked. `VotesUnderWay` counts the copies of a vote
of n that are in `todo`, `channel`, `wire` and `rx_votes` on the way to m. With two primaries
exactly one copy is there or the vote is counted; with three, a vote of a later round may come
before a vote its proof names, when the core puts it away for good (`core.rs:411`), so
of those the property says only that none is there twice.

### Simulation

The loop of `node/src/consensus.rs`: `Visit(i)` is one pass for node i, with the four
branches of a node that saw a quorum and the arrival of late votes otherwise;
`Conclude` and `NewByzantineVotes` end a turn of the loop. Instances are
independent and one is modelled. A byzantine node sends all nodes the same vote,
so none is ever excluded.

### Store

`Submit` puts a command into the channel, `Serve` is the task's next command, `Take` and
`GiveUp` end a call: any future may be dropped. The one-shot channel of a call is
named by its caller and number, so a reply to a call that was given up is told from
the reply to the next. A put may fail at any time (the error is ignored,
`store/src/lib.rs:36`); `put_failed` remembers that for the refinement, under which a
command takes effect when it is handed over, and which promises nothing once a put failed.

### Committee

Pure operators on a constant committee, with stakes in a type of `MaxStake + 1` values.
`Pipeline` broadcasts to its `others_primaries`.

## Runs

For the cores, four primaries (`F = 1`, the constants of the code) and one election;
elections share no state. In the core runs deadlock is checked: the
behaviour never stops, since any vote of a round below `MaxRound` may be handled again.

| Run | Instance | Checks | Shows |
|---|---|---|---|
| `core_open` | every initial value, every delivery, `MaxRound = 1`, symmetry of the nodes | `TypeOK`, `NoEquivocation`, `TallyMatchesVotes` | both places that cast the first vote race, echoes included, and each node casts one; nothing is counted twice |
| `core_split` | n3 and n4 do not hear each other; two against two or one against three; `MaxRound = 4` | `ProofsAreQuorums`, `NoMissedAdvance`, `DecisionSupported`, `ProvenVotesAccepted` | proofs name votes others lack (Pending), nodes run ahead and wait, and still agree on what a proof says; decisions of Zero occur |
| `core_late` | n2, n3 do not hear n4; mostly One; `MaxRound = 3` | `DecideIsLastVote`, `ImplementsConsensus` | nodes decide One in two different rounds; refinement |
| `core_byzantine` | the same delivery, mostly Zero, n4 byzantine, `MaxRound = 3` | `Inv`, `Agreement`, `DecisionLocks`, `NoCommitClash` | random votes and verdicts, Invalid and Pending outcomes; the values stay locked; the invariant of the proofs holds |
| `core_own_vote` | as `core_late`, mostly Zero | `OwnVoteNotInvalid` | violated: see the findings |
| `fifo` | n1, n2, n3 run and start from One, n4 was never started; `MaxRound = 2`; connections break at any time | `FirstVotesCounted`, `SecondVotesAccepted`, `FirstRoundPassed`, `DecidedAfterReplays` | the order of connections keeps first and second votes; all get through round 0, and decide where connections replay |
| `fifo_pending` | the same, no connection breaks | `PendingVotesCounted` | violated: see the findings |
| `restart` | n4 restarts once at any time and draws anything; n1 starts from One, n2 and n3 from Zero; n1 and n3 do not hear each other; `MaxRound = 4` | `AgreementOverTime`, `OneVoteCounted`, `NoCommitClash` | either value is committed to and decided, in one behaviour commits for both are cast; the two faces of n4 do not reach enough quorums to make decisions differ or commits meet |
| `sender` | four messages, two of which may be cancelled, two breaks, sockets of two frames, a retry number of one bit that wraps or panics, a peer that answers or one that does not | `TypeOK`, `NothingLost`, `AcksMatch`, `ImplementsLink`, `EveryMessageAnswered`, `EveryMessageArrives` | order and handlers survive every break and cancellation; everything arrives and is answered, or is lost with the task and its caller told |
| `pipe` | two primaries, a batch of two, room for two in each channel and one on the wire, one round after the first | `TypeOK`, `VotesUnderWay`, `VotesFindListeners`, `EveryoneDecides` | full channels delay votes, lose no first vote and double none; nobody waits for ever |
| `sim` | four nodes, any votes of the three honest ones late at any node, any byzantine votes, `MaxRound = 4` | `TypeOK`, `NoOpposedQuorums`, `OnesAreGrounded`, `AgreedInSilence`, `ConcludesInSilence` | what the rule of the simulator guarantees with and without byzantine votes |
| `store` | three callers of two calls each, one key, two values, a channel of two | `TypeOK`, `NobodyForgotten`, `ReadersAreTold`, `ImplementsRegister` | readers are told, given up or not, put or not; a register until a put fails |

Why the bounds are enough. *Core:* with four nodes and three rounds after the initial
one, commits appear in round 1, decides in round 2 and late adoptions in round 3,
which is every kind of step the rule has; `core_split` adds a round to let a split of
values persist for one. The symmetry of `core_open` is sound: its constants
treat the nodes alike and it checks no temporal property. The other runs restrict delivery
to keep the number of states within a few hundred thousand; the proofs cover
what they leave out. *Fifo:* with one node away every quorum needs all three others, so
no vote is spare; Pending votes occur from round 1 and a decision takes round 2. *Restart:*
F nodes are restarted, as many as may be faulty. The two Zeros and the One leave it to n4 which
way n3 and the others commit: with a Zero before the restart and a One after it, commits for Zero
and for One are cast in one behaviour, and decisions for Zero and for One in others.
The mutant of `NoCommitClash`, a `ValidateVote` that does not apply the rule to the
proof, needs the restart: with `MaxRestarts = 0` the property still holds under it. For `AgreementOverTime` the mutant is a quorum of
2F, which needs no restart; one that does takes rounds and deliveries beyond
what TLC finishes in minutes, so that the number of restarted nodes matters is
shown by the proof, where it is the only assumption on restarts. *Sender:* two
breaks and four messages let a message be written, put back and written again while others
wait in the channel, the buffer and the socket, and let a cancelled one be at each of these
places. *Pipe:* every channel fills, in both directions. *Sim:* every instance with a
silent byzantine node ends before the last round, which `ConcludesInSilence` shows.
*Store:* two readers wait for one writer, on one key; `StoreTyped` and `NobodyLeftBehind` hold
for any number of keys, the refinement of `Register` is checked with one key (with two keys and two callers it
was tried and holds). Each property has a mutant in `PROJECT.json`: a
plausible slip in the code (a threshold off by one, the order of two
branches, a flag not set) under which TLC finds it violated.

### Fairness

None in the runs of the core, as its set `msgs` lets a lost vote come back. Elsewhere:

- `fifo`: weak fairness of each `Deliver`. The tasks of a connection, its runner and
  the core are scheduled again and again by the runtime. Nothing makes a transaction arrive or
  a connection break; that connections break again and again, each time after its
  votes were taken, is a premise of `DecidedAfterReplays` and written in it.
- `sender`: weak fairness of the task and of the peer's runner; strong fairness of
  `Connect` (a peer tried again and again is up at some time) and of `TakeAck`
  (`select!` polls its branches in random order). `Send`, `Cancel` and `Break` have none.
- `pipe`: weak fairness of every task; strong fairness of the two inputs of a core (again
  `select!`) and of `Dispatch`, which competes with other runners for room (tokio's
  channels serve those who wait in order). Each primary comes up.
- `sim`: the program is one thread and goes on. `store`: the task goes on; callers need
  not do anything.

### Findings

*A tally that misses Decides for Zero.* `RoundState::tally_vote` tests for a Decide for
One twice and never for a
Decide for Zero (`election.rs:95,98`). A node that has received a Decide for Zero does not
see it in the tally it votes by, and casts a Commit for Zero; `validate_vote`, whose
tally does count it, demands a Decide. Its vote is then Invalid to every node that
follows the rule, itself included, against the expectation left as an assertion
in a comment at `core.rs:444`. Agreement does not suffer (the theorems below
are about the code as it is); a late node cannot decide Zero.

*Pending votes are lost.* `handle_vote` parks a Pending vote in a clone of the round state
that it does not put back (`core.rs:411,415`). `validate_vote6` of
`primary/src/node.rs:581-583` expects the vote to be valid once its proof is there. In
`fifo_pending` two nodes decide while the third, which holds every vote of the proof by
then, never counts the vote and stays undecided. It recovers only if a connection breaks and
replays, which is what `DecidedAfterReplays` shows.

### What the bounds of the runs keep out

Some properties hold in the runs because their instances have room or quiet that the
code does not guarantee. Instances without it were tried with TLC and fail:

- *`EveryMessageAnswered` with sockets of one frame and no break.* `keep_alive` writes
  the whole buffer before it reads (`reliable_sender.rs:193-212`). A peer that waits for room
  for its ACK and a task that waits for room for its message wait for each other
  until the connection breaks.
- *The retry number* (`reliable_sender.rs:167`). Where the build checks overflows the
  65,536th failed attempt in a row ends the task and its messages with it; both liveness
  properties of the sender therefore allow a message to be `"lost"`.
- *`EveryoneDecides` with a batch of four and room for one in every channel.* Cores wait
  for connections, connections for runners and runners for cores, which work on their
  batch to the end before they take a vote (`core.rs:568-573`). In the code it takes a batch larger than
  channels of 1,000 and the sockets together hold.
- *`AgreedInSilence` without the silence.* With byzantine votes the assertion of
  `node/src/consensus.rs:165` can fail: a node one round behind sees four votes
  of a round where the others saw three, decides 1 on its second quorum of ones, and the
  others, which voted 0 by default, decide 0.

Smaller differences between code and comments met on the way: `others_primaries` keeps the
caller (`config/src/lib.rs:176,180`), so a primary is its own peer; a vote for 1 that is late
at every recipient arrives as a vote for 0 (`node/src/consensus.rs:144`), so that in an instance of
`sim` where every node drew 1 and every vote was late all decide 0; the size
test that should make all transactions of a client differ (`benchmark_client.rs:93`) does
not, as every one is `Transaction::default()` (line 124).

## Proofs

Everything in `*Proofs.tla` is checked by TLAPS. What is about the core holds
for every `F > 0`, every
committee of 3F + 1 nodes, every set of nodes with the byzantine flag, every set of
elections, and every `Coin`, `Hears` and `MaxRound`; what is about the sender and the
pipeline for any messages, batches, committee and room. The assumptions are the
named ones of the modules (`FAssumption`, `CommitteeAssumption`, `InputAssumption`,
`BoundAssumption`, `RestartAssumption`, `SenderAssumption`,
`PipelineAssumption`, `StoreAssumption`, `SimulationAssumption`) and those a theorem states.

| Theorem | States |
|---|---|
| `TypeCorrect` | `[]TypeOK` |
| `Invariant` | `[]Inv` |
| `AgreementHolds` | `[]Agreement` |
| `DecisionsSupported` | `[]DecisionSupported` |
| `DecisionsLock` | `[]DecisionLocks` |
| `CommitsNeverClash` | `[]NoCommitClash` |
| `OneVotePerRound`, `ProofsNameQuorums`, `AdvancesNeverMissed`, `TalliesMatch`, `NothingAfterDecide`, `ProvenVotesNeverInvalid` | the other safety properties of the runs |
| `CoreImplementsConsensus` | `Spec => Abstract!Spec` |
| `FifoTyped`, `FirstVotesNeverLost`, `SecondVotesNeverInvalid` | `[]FifoTypeOK`, `[]FirstVotesCounted`, `[]SecondVotesAccepted` of `NeroFifo` |
| `RestartInvariant` | `RestartSpec => []RestartInv` |
| `AgreementThroughRestarts` | `[]AgreementOverTime` of `NeroRestart`, if at most F nodes are ever restarted |
| `OneVoteCountedHolds`, `NoClashThroughRestarts` | `[]OneVoteCounted`, `[]NoCommitClash` of `NeroRestart`, whoever is restarted |
| `SenderTyped`, `NothingIsLost`, `AnswersMatch` | `[]TypeOK`, `[]NothingLost`, `[]AcksMatch` of `ReliableSender` |
| `SenderImplementsLink` | `Spec => Link!Spec` of `ReliableSender` |
| `PipelineTyped`, `ListenersFound`, `NoVoteDoubledOrLost` | `[]TypeOK`, `[]VotesFindListeners`, `[]VotesUnderWay` of `Pipeline` |
| `ThresholdValues`, `QuorumOverlap` | the thresholds are N - f and f + 1, and two quorums share an available stake, for every total whose sums fit the stake type |
| `QuorumsNeverOpposed`, `OnesDrawn`, `SilentAgreement` | `[]NoOpposedQuorums`, `[]OnesAreGrounded`, `[]AgreedInSilence` of `Simulation`, for any 3B + 1 nodes |
| `SimulationTyped` | `[]TypeOK` of `Simulation`, for any 3B + 1 nodes with B > 0 |
| `StoreTyped`, `NobodyLeftBehind` | `[]TypeOK`, `[]NobodyForgotten` of `Store`, for any clients, keys and capacity |

*The invariant of the core.* None of the agreement properties is inductive: that two nodes
decided alike says nothing of the votes still on their way. `ViewInv` says what any vote
a node holds may be, and speaks of that node alone:

- `VotesInv`: what a node holds in a round are votes broadcast for it, one of each
  signer, and a round is marked as voted just when a vote of its own is among them. So a
  proof, a set of signers, names votes without ambiguity, and what it names never changes
  once the node holds it (`ProofVotesKept`).
- `RoundsInv`: nodes vote in one round after the other, hold votes of a round only
  after voting there, advance at the vote that completes the quorum, and are decided
  by a Decide of their own. So a proof names exactly a quorum, its maker's own vote
  in it, and that vote is not a Decide.
- `RuleInv`: a vote cast by a node that follows the rule is what the rule makes of
  the incremental tally of its proof; a vote validated by one is what it makes of
  the full tally. The two tallies differ (the finding), and the lemmas on the
  rule (`TallyOf` in `NeroCoreProofs`) hold for both.

`Inv` adds what ties the nodes to each other: the signer of a vote holds it, nobody casts two
votes in a round, and the Decide of a node is its last vote. A restart breaks these three
and leaves `ViewInv` alone, which is why the two are kept apart.

`NeroCoreProofs` shows that a step of either handler has one shape (a node hears
at most one vote, adds at most one of its own, casts at most one of the
next round), so that each part of the invariant needs one argument rather than one for
every branch.

*Agreement.* A world (`World`) is a set of votes for each round, one of each node, those
of round 0 initial, and every vote of round r + 1 what the rule makes of a quorum of
the votes of round r. `Settled`: the votes of a round agree with any
commit among them, and no initial vote stands beside a Decide. It passes
from round to round (`SettledNext`): if all votes of the round are initial, a commit
takes 2F + 1 of one value and leaves at most F of the other, so the rule
gives that value to everyone; if not, the round has one value and the rule keeps it,
and a Decide takes a quorum of commits, one of which is in every other
quorum. Then a Decide fixes the value of all later rounds (`ValueFixed`). The steps
from round to round are made with a least counterexample (`LeastElement`), and no step of
the argument mentions a state. Two worlds are found in a state: what one
node that follows the rule validated, by `ViewInv` alone (`ViewWorld`), which gives
`NoCommitClash`; and what all such nodes validated together, by `Inv` (`GoodWorld`), which
gives `Agreement`, `DecisionLocks` and `DecisionSupported`.

As byzantine nodes in this code cast at most one vote per round, `Agreement`
needs no bound on their number; it is stated for the nodes that follow the
rule.

*Verdicts.* `ProvenVotesAccepted` says when two nodes that follow the rule judge a vote alike.
Its signer holds it (`OwnVotesKept`) and made it of its own tally of the votes the proof names
(`HonestJustified`); as nobody casts two votes in a round, the validator finds the very same
votes, and the two tallies of them differ in a Decide for Zero only. So a right vote is turned down
either there (the finding) or where `validate_vote` has nothing of the round before
(`core.rs:510`), in any round.

*Over connections.* What is on a connection is known from `taken`. `FirstVotesCounted`
is inductive with the type invariant and `Inv` of the core, which carries over
because every step of `NeroFifo` is, by definition, one of `NeroCore` or leaves its variables
alone (`FifoRefines`): the first vote of a signer finds either no election, which it then makes,
or a round 0 in which it is valid. `SecondVotesAccepted` follows: a vote of round 1
comes after the vote of round 0 that its signer sent on the same connection, so
round 0 is not empty, and no vote there is a Decide.

*Restarts.* A node that restarted may have one vote in the view of one node and another in
the view of a second, so two views no longer fit in one world; and a decision may outlive
the view it was made in. `RestartInv` therefore keeps, beside `ViewInv`, a certificate of
every decision (`Certified`): in some round the steady members (those never restarted) of a
quorum committed to the value, and in every round before, the steady members of a quorum voted, by
no commit or Decide for anything else. It speaks of `msgs`, which only grows, so it stays true
(`StaysCertified`), and a node that decides has it in its view (`DecisionCertified`). Of
two certificates take the one with the earlier round of commits: its quorum of commits
and the quorum the other names in that round share, as at most F nodes restart, a steady
node, which votes once per round. Hence one value. This is the only place where the number of
restarted nodes counts, and the number of times each restarts counts nowhere.

*The sender.* `SenderInv` says of the sequences what the two invariants only imply
together. `HeldInv`: `pending`, `buffer` and `channel` are each in the order of sending, each
before the next, and hold all that waits for an answer. `WireInv`, for a connection that is sound:
`pending` is, in this order, what is answered on the way back, the message the peer is
answering, and what is on the wire; with a peer that does not answer, what it read and
what is on the wire. A break keeps a prefix of the answers and empties the wire, hence
only `AnswersInv` then. `Drain` takes what is not cancelled out of the
buffer by places (`Retained`), since a filter that is defined by recursion could not be reasoned
about; `RetainedFacts` shows that it keeps the elements and their order. A task that panicked
holds nothing and leaves no handler waiting (`PanicStep`); no other step loses a message
(`LossInvariant`). The refinement of
`ReliableLink` follows step by step: what the peer reads next is the first of
all that is neither answered nor cancelled and that it has not read on this connection, because
what it read comes before all it has still to read.

*The pipeline.* `Known`: a vote that is anywhere was counted by its signer, and what a core
has to send and its connections hold are its own. So a vote that is cast is new everywhere,
a broadcast puts one copy for each address into `todo`, and each step after that takes a
copy from the front of one queue to the end of the next (`TimesTail`, `TimesAppend`). A core that takes
it counts it, or has counted it, or, not in round 0, puts it away. `Awake`: either everybody listens
or nothing was sent at all.

*The simulator.* `NoOpposedQuorums` speaks of quorums seen at different times, so the
invariant `SimInv` follows votes from round to round: a vote that a node shows somebody
is late, or the same for everybody it shows it to (`HistoryInv`); a late vote may be filled in, but what was
seen stays, so a round that was noted keeps its quorum (`QuorumInv`). Two quorums of
2B + 1 out of 3B + 1 nodes share an honest one, which would show both values. Ones need
a quorum of ones, hence B + 1 honest ones of the round before (`GroundInv`).

While byzantine nodes are silent a quorum is all the honest nodes (`SilentInv`): nobody leaves a
round before it has heard every honest vote of it, so a value they all vote is all they ever
vote again (`FollowInv`), and who decides has seen such a round (`DecidedInv`). The
types need `PaceInv`: no honest node is more than a round ahead of the byzantine ones, which go on
with the loop, so no round noted is beyond its last. `SimulationTyped` needs a byzantine node for that.

The theorems assume `NUMBER_OF_NODES % 3 = 1`. With six nodes `QUORUM` is 3
(`node/src/consensus.rs:9`), two disjoint quorums exist, and TLC finds
`NoOpposedQuorums` violated.

*The store.* `NobodyForgotten` is inductive with the type invariant: a sender joins the
obligations of a key only while the database does not hold the key, and the
command that may change that clears them, put or not.

*Only model-checked:* the liveness properties (`FirstRoundPassed`,
`DecidedAfterReplays`, `EveryMessageAnswered`, `EveryMessageArrives`,
`EveryoneDecides`, `ConcludesInSilence`, `ReadersAreTold`), which are out of the
prover's reach; `ImplementsRegister`, whose refinement mapping applies the commands in the
channel one after the other with a fold, so that a step of it is an induction over that
sequence; the violations.

## Not modelled

- *Simple sender:* nothing in the primary or the node calls it. It is best effort:
  a send puts the message into the channel of a task that drops what it cannot write.
- *Signature service:* created by the primary and handed to the core, which signs and
  verifies no vote.
- *Node binary:* command lines, logging and process set-up. Its `tx_output` is
  never fed, so the loop that analyses output only waits (`node/src/main.rs:90,119`).
- *Legacy in-memory node:* its `mod` line is a comment (`primary/src/lib.rs:10`); its tests
  are read as documentation.
- *Messages, errors, key files, benchmark scripts:* data, encodings, input and output.
- In the core, because it has no effect: see `NeroCore`. In the sender
  `lucky_broadcast`, in the committee `others_stake`, in the core `byzantine_votes`:
  nobody calls them. In the store a failing get.

## Plan

Every safety invariant a passing run checks is proved, and so are two of the three refinements. What
is left, in the order of importance:

1. Lemmas on `NeroFifo` that its liveness rests on, as safety facts: what a node needs in order to
   advance is on its connections or in its view.
2. `ImplementsRegister` for a channel of any capacity, with the mapping stated by the place of the
   last write of a key in the channel rather than by a fold over the commands.
3. The signature service and the simple sender, if the primary comes to use them.
