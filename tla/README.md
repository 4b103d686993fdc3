# A TLA+ model of committee-mvp

`committee-mvp` (under `src/committee-mvp/`) is a threshold-signature service:
N processes, each configured with the full list of static nodes, generate a
committee key among themselves when they start; after that a fixed coordinator
collects signature shares on a message, combines any threshold of them into one
BLS signature and broadcasts it. Nothing is persisted. The whole protocol is in
`internal/committee/service.go`, the transport in `internal/p2p/static.go`, the
arithmetic in `internal/share/shamir.go` and `internal/crypto/bls.go`.

## 1. Inventory

| Part | State | Operations | Interacts with | What is hard | What makes it correct |
|---|---|---|---|---|---|
| Transport (`p2p/static.go`) | `writers` (one per peer), `inCh` (512), `closed` | `Publish`, `pushInbound`, `readLoop`, `dialLoop`, `acceptLoop`, `isConnAlive`, `Stop` | called by every goroutine of the service; feeds its main loop | fire and forget: no connection, no frame; `inCh` full, frame dropped; redials; the heartbeat breaking what it watches; `Stop` against everybody | an envelope reaches only its addressees, each at most once; connections do not leak; running nodes find each other again; nothing outlives `Stop` |
| Key generation (`startDKG` ... `finalizeDKG`) | `dkgShares`, `dealerPubKeys`, `bls`, `committeePubKey`, `dkgReady` | deal one share per member 2 s after the start; first value of each dealer wins; finalize when complete | transport; gates the signing rounds | a share is sent once; late or restarted processes; key set before `dkgReady` is closed | one committee key; each signing key is a share of it; it never changes |
| Signing rounds (`SubmitSignRequest` ... `onAggResult`) | `sessions`, `pending`, `autoSign`, `aggResults`, `lastAggSessionID`, `nonce` | submit, answer or queue, sign by hand, collect, aggregate, store, broadcast | main loop, control goroutines, transport | mutex released around aggregation and before every `Publish`; sessions replaced in the middle; overrides; echoes of results | only requested messages, signed by a threshold; one result per request; no request lost; every request eventually signed |
| Share arithmetic (`shamir.go`, `bls.go`) | none | `Split`, `Recover`, `evalPoly`, `AggregateThresholdSignatures`, `lagrangeCoeffAtZero` | both protocols | indices shifted by one, signs, inverses, more than a threshold of points | any threshold gives the committee signature; a wrong share is noticed; fewer reveal nothing |
| BLS and bitmaps (`bls.go`, `makeBitmap`) | private key | `SignShare`, `VerifyShare`, `VerifyAggregate`, `AggregateSignatures`, `AggregatePublicKeys`, bitmaps | both protocols | bit count against list length; sizes that are no multiple of eight; duplicates | the bitmap of an aggregate names its signers, each once |
| Configuration, `add-peer` (`config.go`, `main.go`, `committee-cli`, `addPeer.sh`, `gen.sh`) | one configuration file per node | `Load`, `Validate`, `runAddPeer`, the script's `jq` and `mv` | fixes every constant of the others: a process reads its file when it starts | files are edited one after the other, without a lock, by truncating and writing; files of different nodes that disagree; threshold 1; unknown node id | running processes have the same members at the same indices; a file that decodes is valid |
| Control server and console (`service.go`, `main.go`, `committee-cli`) | listener, one goroutine per connection; the goroutine that submits the request given on the command line | five actions, one JSON line each; three of them change something | calls into the signing rounds | clients that time out; connections without a deadline on the server's side; `Stop` in the middle of a request | what a command reports is true; an interrupted process ends; its own request is made |
| Service start and stop | wait groups, contexts | `Start`, `Stop` | all | shutdown order: listener, network, then wait | `Stop` ends; nobody sends on a closed channel unnoticed |

Everything a main loop, a control goroutine and a `readLoop` share is under
`s.mu`, an atomic, or a channel, with one exception: `s.bls` is written under
the lock by `finalizeDKG` and read without it by `publishSignResponse`,
`onAggResult` and the verification in `onSignResponse`. The main loop is both
the writer and the reader in the last two. A control goroutine that signs by
hand reads the pointer and may see the old signer or the new one; before the key
generation the old signer has no private key and signing fails. The model reads
the key once, at the moment of `publishSignResponse`, and can read it before or
after `LearnKey`, which are the two outcomes.

## 2. Modules

| Module | Models | Relation to the code |
|---|---|---|
| `Transport` | `Publish`, `pushInbound`, `readLoop`, the inbound channel, start and end of a process | `up` = process running; `net` = frames written to a connection and not read; `inCh` = the channel. Operators only, with no `Next`: the protocols build their actions from them |
| `LossyTransport` | what the transport promises | the operators of `Transport` as a specification |
| `StaticNetwork` | the connections: `dialLoop`, `writers`, `isConnAlive`, `acceptLoop`, `readLoop`, `Publish` under its lock, `Stop`, process end and restart | `dial[l]`, `watched[l]`, `writers[l]` for each dial loop, `conn[l][c]` with its two ends and the frames on it; implements `LossyTransport` (`ImplementsTransport`) |
| `CommitteeKey` | what key generation promises the rest of the service | abstract specification: `Learn`, `Announce`, `Forget` |
| `DKG` | the key generation | extends `Transport`; implements `CommitteeKey` (`ImplementsCommitteeKey`) |
| `Signing` | the signing rounds | extends `Transport`; key generation enters as `LearnKey` / `BecomeReady`, the steps of `CommitteeKey` |
| `SigningRound` | what an operator is promised about a signing round | abstract specification: `Ask`, `GiveUp`, `Sign`, `Store`, `Lose`, `End`; `Signing` implements it (`ImplementsSigningRound`), and with it the service |
| `Committee` | the whole service: `DKG` and `Signing` on one transport and one main loop per node | `INSTANCE`s of both; `ready` of the rounds is `dkgReady`, their `key` is read off the key generation's state; implements `Signing` and `CommitteeKey` (`ImplementsSigning`, `ImplementsCommitteeKey`) |
| `ThresholdShares` | shares, interpolation and bitmaps over a prime field | `EvalPoly`, `LagrangeCoeffAtZero`, `MakeBitmap`, ... are the functions of the same names |
| `NodeConfigs` | the configuration files, `add-peer` of both binaries and of `addPeer.sh`, and the processes that load the files | `file[n]` = content of a node's file, `job[c]` = where a command is in its loop over the files, `process[n]` = the configuration a process has started with |
| `ControlServer` | the control server, its clients, the request a process submits by itself, `Service.Stop` | `handler[k]` = the goroutine of connection `k`, `client[k]` = what the client does or has reported, `phase` = how far `Stop` is |
| `Transport_proofs`, `DKG_proofs`, `Signing_proofs`, `ThresholdShares_proofs`, `StaticNetwork_proofs`, `Committee_proofs`, `NodeConfigs_proofs`, `ControlServer_proofs` | | theorems (section 5) |
| `MCDKG`, `MCSigning`, `MCStaticNetwork`, `MCNodeConfigs`, `MCControlServer` | | the instances TLC checks |

The modules meet in four places. `DKG` and `Signing` are each checked against
`Transport` alone and then put together in `Committee`, which shows that the
composition is still `Signing` (with the shares filtered out of the channels)
and still `CommitteeKey`: what was shown of the halves holds of the service.
`Transport` is what `LossyTransport` states as a specification, and
`StaticNetwork` implements that. What the rounds come to, without envelopes, queues
and locks, is `SigningRound`: `Open` and `Results` of `Signing` give its `open` and
`results`. `ControlServer` and `NodeConfigs` stand beside
them: of a request to the service the first keeps only whether it was accepted,
executed and published; the second yields what the constants of the others
assume, that all processes have the same list.

### Atomic steps

A step of the model is what one goroutine does between two places where another
can intervene: a section under `s.mu`, an atomic load or store, a call of
`Publish`. Where a handler releases the lock in the middle, the rest of it is
kept as state:

* `DKG`: `OnDealShare` is `onDealShare` with `finalizeDKG` up to its unlock
  (the main loop is the only caller, so the unlock in between changes nothing);
  `MarkReady` is the `close(readyCh)` after it.
* `Signing`: `loop[n]` says what is left of the handler the main loop of `n` is
  in. `OnSignRequest` reads `autoSign`, then `QueueRequest` or
  `RespondToRequest` happens. `OnSignResponse` goes to the unlock with a copy of
  the responses, then `Aggregate`, `StoreResult`, `BroadcastResult`. For the
  control goroutines, `submitting` and `signing[n]` hold the calls that have left
  the lock and not yet called `Publish`.
* `Publish` is one step that adds all its frames. Frames in flight are an
  unordered set, because two goroutines can be inside `Publish` at once, walking
  over the writers in random order, and because after a redial two connections
  may drain at the same time. This allows more orders than TCP does on a single
  connection between two sends by the same goroutine. The only property that
  notices is the part of `SubmittedRequestIsSigned` about messages at peers: see
  `KnownEverywhere`, which asks for the message of the last request only at the
  coordinator.
* In `DKG` and `Signing` every frame lost or delayed by dialling, back-off, the
  heartbeat and `Stop` is `LoseFrame`, or `up[n] = FALSE` when it was sent.
* `ControlServer` has one step for each blocking call of a control goroutine or
  client. `Execute` is the call into the service up to its unlock; the check of
  `n.closed` and the push that follow it in `Publish` are steps of their own,
  because `Stop` may close the network between them. `net.Stop` is two steps:
  `BeginStopNetwork` closes `n.closed`, the listener and the connections it dialled,
  and `EndStopNetwork` closes `inCh` when the goroutines are gone, among them those
  that read from accepted connections. Of the peers the module keeps only whether
  any such connection is there (`accepted`: `PeersConnect`, `PeersLeave`), of the
  channel how many envelopes are in it (`waiting`: `Arrive`, `TakeEnvelope`).
* `NodeConfigs` has one step for each system call: `os.ReadFile` with the edit in
  memory (`LoadConfig`), the truncation and the write of `os.WriteFile`, and those of
  the script's `mv`. `mktemp` makes the new file in the directory for temporary files.
  If that is on the file system of the configurations, `mv` is one rename
  (`MoveConfig`); if not, it removes the old file, creates a new one and copies
  (`RemoveConfig`, `CreateConfig`, `WriteConfig`), and can be interrupted, overtaken
  or read between these. The model takes either, each time.
* In `Committee` a main loop that is in the middle of a signing handler
  (`loop[n]`) takes no share, as there is one loop for both.
* `StaticNetwork` splits `Publish` at the check of `n.closed`, the local copy, and
  each write (`n.mu` is held for reading from the second to the last, so dial loops
  and `Stop` wait: `Unlocked`). That the protocols may use one step is part of
  `ImplementsTransport`: a frame counts as in flight from the moment its `Publish`
  holds the lock, if it will find a writer.
* A dial loop looks at its connection every 500 ms. `SetReadDeadline(now)` followed
  by its withdrawal may or may not be noticed by the goroutine that reads the same
  connection; `HeartbeatInterrupts` is the case in which it is, and a healthy
  connection is closed.

### Data

* `DKG`: a dealing (one secret with its polynomial) is the pair of its dealer and
  the number of the process start that sampled it. Share and dealer key of a
  dealing carry that number. A sum over dealers is the function from dealer to
  number: two sums are equal when they sum the same dealings. Coincidences of
  random 254-bit values (equal dealer keys, which `AggregatePublicKeys` would
  refuse, or a sum that is zero) are left out.
* `Signing`: the key of a node is one number per committee key. A share is the
  message it signs together with that key; `VerifyShare` compares only the
  message, because the code verifies a response against the public key which that
  response carries; `VerifyAggregate` holds when every response belongs to the
  coordinator's committee key. That this is the right abstraction of the
  interpolation is what `ThresholdShares` shows (`AnyThresholdCombines`,
  `ForeignShareIsNoticed`).
* `NodeConfigs` names a node by the rank of its name in the order of strings, which
  is what `sort` and `jq`'s `unique` use. What a truncating write leaves behind of a
  longer content is `Garbage`, which no decoder accepts; a truncated file is `Empty`,
  and one that is not there is `Missing`. An address is one of those that `gen.sh` and
  the commands give, or none (`NoAddr`, the empty string).
* `Signing` names a request by its nonce and carries the number in the envelopes
  it leads to. The code never reads it there; it serves the properties, and keeps
  two equal envelopes apart. `requestNonce` is likewise written and never read.
* Key generation gives node `n` the key `KeyOf[n]`. `OneKey` is the normal
  outcome; `SplitKey`, where one node has another key, is the outcome that
  `dkg_fixed_key` shows to be reachable.
* Logs, JSON, hex, epochs (always 1), versions and timestamps are left out.
  Decoding never fails, because only the code's own encodings arrive.

### Properties

`DKG`: `SigningKeyMatchesCommitteeKey`, `OnlyRestartedDealerSplitsKey`,
`AcceptedIsFinal` (action), `FixedCommitteeKey` (refuted); its
`KeyGenerationCompletes` and `ImplementsCommitteeKey` are checked in `Committee`.
`Signing`: `ResultsAreRequestedAndSigned`, `OneResultPerRequest`,
`NoRequestIsForgotten`, `QuietCoordinatorIsCurrent`, `ImplementsSigningRound`
(refinement), `SubmittedRequestIsSigned` (liveness), `LatestResultMovesForward` (refuted). `Committee`:
`OnlyUnreadyMembersMissRequests`, `ReadyCommitteeHasSigned`,
`KeyGenerationCompletes` (liveness), `ImplementsSigning` and
`ImplementsCommitteeKey` (refinements). `StaticNetwork`:
`ImplementsTransport` (refinement), `OpenConnIsWatched`,
`NoLoopSendsOnClosedChannel`, `EverybodyStops` and `Reconnects` (liveness).
`ThresholdShares`:
`AnyThresholdCombines`, `ForeignShareIsNoticed`, `FewerSharesHideTheSecret`,
`RecoverIsExact`, `BitmapNamesSigners`. `NodeConfigs`: `MembersAgree`,
`DecodableFilesAreValid`, `OrderlyCommandsAdd`. `ControlServer`: `ReportsAreTrue`,
`InterruptedProcessEnds` and `AutoRequestIsSubmitted` (liveness). Each is stated in words above its definition.

## 3. Runs

Constants are in the `.cfg` of the same name; run `tlc -config X.cfg M`.

| Run | Module | Instance | Shows |
|---|---|---|---|
| `dkg_restart` | MCDKG | 3 members, `QueueCap` 1, lossy, node 0 may end and start again once, any node may be late | type, keys consistent, keys split only through a restart, accepted values final |
| `committee` | Committee | 3 nodes, T = 2, reliable, one node may end at any moment, one request at any moment | a request is lost only to nodes that were not ready; with a threshold of ready members it is signed and everybody gets the result; the service is `Signing` and `CommitteeKey`; key generation ends everywhere |
| `dkg_fixed_key` | MCDKG | 2 members, node 0 may restart | **violated**: two ready nodes with different committee keys |
| `signing_unreliable` | MCSigning | 3 members, T = 2, `QueueCap` 1, lossy, the coordinator may end, one session submitted twice, one override, one member with a foreign key that is not ready yet | results are requested, and signed by a threshold with the right key |
| `signing_manual` | MCSigning | 3 members, T = 2, reliable, one operator switching auto-sign and signing, one session submitted twice, the coordinator may end | implements `SigningRound`; one result per request; no request is forgotten; the quiet coordinator has the current result |
| `signing_live` | MCSigning | 2 members, T = 2, two sessions, two requests with equal, different or empty messages | every request that is not replaced is signed, whatever state the one before had reached |
| `signing_latest` | MCSigning | 3 members, 2 sessions | **violated**: an older session becomes the latest again |
| `static_network` | MCStaticNetwork | 2 nodes, one link, 2 envelopes, channel of 1; signals, crash, restart, heartbeat interrupts | type; implements `LossyTransport` |
| `static_live` | MCStaticNetwork | 2 nodes that dial each other, no envelopes; signals, crash, restart, interrupts | no leaked connection, nothing outlives `Stop`, all can stop together, running nodes reconnect |
| `shares` | ThresholdShares | 3 members, T = 2, field of 5, 2 bits to a byte | all polynomials, all orders of arrival, all sets of signers |
| `node_configs` | MCNodeConfigs | 2 members, the file of a third one left over, `add-peer` for all files, for one, and by the script without an address, one interruption | running processes agree on their members; decodable files are valid but for an address the script was not given; commands that do not overlap do what they say |
| `control_server` | MCControlServer | a request of the process itself, a `submit_sign_request` and a `sign_session` by command, `QueueCap` 1, peers that come and go, an interrupt | reports are true but for an own signature that finds the channel full; the process ends or waits for peers alone; its own request is made |

Bounds, and why they are enough for what is asked:

* `QueueCap` replaces 512. 1 makes the drop of a full channel happen in every
  position; 12 is never filled in the runs that assume reliable delivery, since fewer envelopes than that are ever addressed to
  one node in them.
* `MaxStarts` = 2 gives a dealer two dealings, the least that can be mixed up. The
  theorems of section 5 hold for every value.
* `MaxRequests` = 2 gives a replaced session and two sessions in flight, the least
  that races need. `MaxOverrides` bounds how often an operator gives a message of
  his own.
* `ImplementsSigningRound` is checked in `signing_manual` only, where a session is
  replaced in the middle of its aggregation and the coordinator may end at every
  point. With loss, overflow, overrides and foreign keys it is proved.
* 3 members with T = 2 have a member that is not needed and two different
  quorums; 2 with T = 2 need everybody.
* `MaxConns` = 2 lets a link have the current connection and one that is still
  drained. Two nodes are enough for what concerns one link; `static_live` has both
  directions, because `Stop` at one node waits for the other. A second envelope
  fills the channel and follows the first onto another connection.
* In `committee` the order of things is what matters: one request, made before, in
  the middle of and after the key generation, among three nodes of which two are
  enough and one may end. Two requests in one session are a matter of the
  `signing_*` runs.
* `node_configs`: the names are <<2, 4>>, the left-over file lists <<2, 4, 6>>, and
  the new peers 3 and 8 come in the middle and at the end of the order: the
  script's sort moves members for one and not for the other, and for the second it
  is given no address, which a command of the CLI for the same peer may repair. Two files are the
  least that can disagree, the third is one that no `gen.sh` call of the present
  committee has written. One interruption, at any step of any command; a command
  may be tried again.
* `control_server`: one connection for each action that publishes, opened, sent,
  timed out and answered in any order, beside the request of the process itself.
  `set_auto_sign` publishes nothing and takes the same way otherwise (the theorem has
  it). With `QueueCap` 1 the channel is full whenever any envelope waits.
* 2 bits to a byte give bitmaps of two bytes, one of them in part, for three members.
* The field of 5 is the least prime field with room for three members at
  different non-zero points and one spare point.

Every run has `CHECK_DEADLOCK FALSE`: when all requests have been handled, or a
share has been lost, the system really has nothing to do.

## 4. Fairness

`FairSpec` assumes weak fairness of what a goroutine of a running process does by
itself: the dealing goroutine, the main loop, control calls that have been
accepted, and the `readLoop`s together (`Transfer`); in `StaticNetwork` the dial loops, the
loops of each connection, calls of `Publish`, and `Stop` once a signal has come.
There it is also assumed that dialling a node that listens succeeds, and that a
write never blocks for ever. The Go scheduler justifies
it, as no such step waits for anything but the lock, which every holder releases
after finite work. Nothing is assumed of operators (they may never submit, sign
or switch), of starts, of ends of processes, or of losses. `KeyGenerationCompletes`
is conditional on all nodes running from the beginning, with their connections,
because the code sends each share once; the 2-second delay before dealing is the
only thing that makes this likely in practice. `SubmittedRequestIsSigned` is
checked where frames are not lost.

`Committee` assumes weak fairness of `Progress`, the disjunction of all steps that
goroutines make by themselves. No such step can be taken for ever in the bounded
model (each consumes a frame, a queue entry, a dealing or a piece of a handler),
so a behaviour comes to rest, and only when none of them can go on.

`ControlServer` assumes that control goroutines, the goroutine of `runNode` that
submits, and `Stop` go on, and that a client gives up when its deadline comes
(`GiveUp`); not that operators give commands or interrupt the process, nor that
the key becomes ready. `net.Stop` waits for connections it has accepted
(`EndStopNetwork` needs `~accepted`), and no peer has to close one: so
`InterruptedProcessEnds` says that the process ends or, from some moment on, waits
in `net.Stop` for such connections and for nothing else (see also `EverybodyStops`).
`NodeConfigs` has safety properties only.

## 5. Proofs

The theorems hold for every value of the constants: any number of nodes,
threshold, capacity, sets of nodes that end, number of requests and restarts,
with or without loss. They rest on the assumptions named in the modules
(`TransportAssumption`, `DKGAssumption`, `SigningAssumption`,
`NoneIsNoSession`, `NoneIsNoJob`, `CommitteeAssumption`, `NoneIsNoData`, `SharesAssumption`,
`StaticNetworkAssumption`, `NodeConfigsAssumption`, `NoConfigAssumption`, `ControlAssumption`), which are what
`config.Validate` guarantees, what `gen.sh` writes and the CLI checks of its arguments
(an `add-peer` of the binaries has an address, one of the script need not), or say
that a model value differs from data.
(`Validate` does not relate `committee_size` to the length of `static_nodes`, so
neither do they.)

| Module | Theorem | Statement |
|---|---|---|
| `DKG_proofs` | `IInvIsInvariant`, `TypeCorrect` | `Spec => []IInv`, `Spec => []TypeOK` |
| | `KeyMatches` | `Spec => []SigningKeyMatchesCommitteeKey` |
| | `OnlyRestartSplitsKey` | `Spec => []OnlyRestartedDealerSplitsKey` |
| | `AcceptedStays` | `Spec => AcceptedIsFinal` |
| | `LearnsOneKey` | `MaxStarts = 1 => (Spec => ImplementsCommitteeKey)` |
| `Signing_proofs` | `IInvIsInvariant`, `TypeCorrect` | `Spec => []IInv`, `Spec => []TypeOK` |
| | `ResultsAreGood` | `Spec => []ResultsAreRequestedAndSigned` |
| | `OneResult` | `Spec => []OneResultPerRequest` |
| | `QuietCoordinator` | `Spec /\ [](HasRoom(Coordinator)) => []QuietCoordinatorIsCurrent` |
| | `NothingForgotten` | `Reliable => (Spec /\ [](\A n \in Node : HasRoom(n)) => []NoRequestIsForgotten)` |
| | `RoundIsImplemented` | `Spec => ImplementsSigningRound` |
| `Committee_proofs` | `CInvIsInvariant` | `Spec => []CInv` |
| | `LearnsOneKey` | `Spec => ImplementsCommitteeKey` |
| | `ActsAsSigning` | `Spec /\ []EveryoneHasRoom => ImplementsSigning` |
| | `ServiceResultsAreGood`, `ServiceOneResult`, `ServiceQuietCoordinator` | `Spec /\ []EveryoneHasRoom => []P` for the three properties of the rounds, of the whole service |
| | `ServiceImplementsRound` | `Spec /\ []EveryoneHasRoom => Rounds!ImplementsSigningRound` |
| | `NoReadyMemberMissesRequests` | `~Lossy => (Spec /\ []EveryoneHasRoom => []OnlyUnreadyMembersMissRequests)` |
| | `RestingServiceHasSigned` | `~Lossy => (Spec /\ []EveryoneHasRoom => []ReadyCommitteeHasSigned)` |
| `StaticNetwork_proofs` | `IInvIsInvariant`, `TypeCorrect` | `Spec => []IInv`, `Spec => []TypeOK` |
| | `NoConnectionLeaks` | `Spec => []OpenConnIsWatched` |
| | `LoopsEndBeforeStop` | `Spec => []NoLoopSendsOnClosedChannel` |
| | `EachEnvelopeOnce` | `Spec => []RInv` |
| | `ConnectionsAreATransport` | `Spec => ImplementsTransport` |
| `NodeConfigs_proofs` | `ConfigsAreGood` | `Spec => []IInv` |
| | `FilesAreValid` | `Spec => []DecodableFilesAreValid` |
| | `ProcessesAgree` | `Spec => []MembersAgree` |
| | `OrderlyCommands` | `Spec => []OrderlyCommandsAdd` |
| `ThresholdShares_proofs` | `SharesOKHolds` | `Spec => []SharesOK` |
| | `RecoverExact` | `Spec => []RecoverIsExact` |
| | `SharesCombineToKey` | `Spec => []AnyThresholdCombines` |
| | `ForeignShareNoticed` | `Spec => []ForeignShareIsNoticed` |
| | `FewSharesHideTheSecret` | `Spec => []FewerSharesHideTheSecret` |
| | `BitmapIsExact` | `Spec => []BitmapNamesSigners` |
| `ControlServer_proofs` | `ReportsTrue` | `Spec => []ReportsAreTrue` |

`Transport_proofs` has what the protocols share: `ChannelsCarry(M)` says that only
envelopes of `M` are in flight or queued and no queue is over capacity, for any
set `M`, and there is one lemma for each operator of `Transport`.

**DKG.** None of the properties is inductive: a node's keys agree because of what
is in the channels, and the first keys of two nodes agree because a dealer dealt
once. `IInv` has three parts.

* `ChannelsCarry(DealtMessage)`: every envelope stands for a dealing that took
  place, that is, one whose number is at most the dealer's number of starts.
* `CountersOK`: the counters are typed, and a running process has been started.
* `KeysOK`: a node's two maps are equal and hold dealings that took place; a
  committee key is complete, equals the signing key and equals the maps; a ready
  node has a key.

`OnlyRestartSplitsKey` follows because a dealer with one start has only the
dealing 1. `AcceptedStays` and `LearnsOneKey` go through the actions once more,
with `IInv` before and after the step: `OnDealShare` maps to `Learn` or stutters,
`MarkReady` to `Announce`, `Crash` to `Forget`, everything else stutters. For the
refinement `MaxStarts = 1` makes the key of every complete node the constant
`FirstKey`; without it the statement is false, as `dkg_fixed_key` shows.

**Signing.** A result is right because of everything it came through, so `IInv`
follows a request on its whole way: `RequestsOK`, `KeysOK`, `ChannelsCarry` of the
envelopes that stem from a request and, if they are responses, carry their
signer's key, `QueuesOK` (requests queued for a manual signature), `SessionsOK`
(the responses collected for a session signed its message or an override),
`LoopsOK` (the copy an unlocked main loop holds) and `ResultsOK`.
`ResultsAreGood` is read off `ResultsOK`. `OneResult` needs more (`OnceInv`): a
session that has a result of its request is marked aggregated, and a copy that is
still being aggregated has no result yet, although its session may have been
replaced meanwhile. Both are needed because `onSignResponse` releases the lock
between the mark and the store.

**Signing implements SigningRound.** `Open` maps the requests that may still be signed:
those of the sessions that are not aggregated, and the one of which the main loop
holds a copy it has yet to aggregate. `SubmitSignRequest` maps to `Ask`, `Aggregate`
to `Sign` when the aggregate verifies, a main loop that stores a result to `Store`, a
process that ends to `End`; everything else loses results or stutters. `RoundInv` is
what `IInv` does not say: `OnceInv` (an open request has no result), `SessionsCurrent` (a
session is of the latest request for it), `IdleWhenDown` (nothing is in the hands
of a process that has ended) and `CopyIsOpen` (the copy that is being aggregated, if
its session was not replaced, is of a session that is not aggregated). The hard
step is `AggregateIsRound`. `onSignResponse` releases the lock while it aggregates, so
the session it then marks may be another one than it copied: the copied request was
open because of the copy, and is signed (`Sign`) although a later one has replaced it,
or given up (`GiveUp`) if its aggregate does not verify; and the later one stays open.
A copy whose session was not replaced and whose aggregate does not verify stays
open (`Lose`). No premise on loss, room or overrides is needed. In the service the
theorem follows by `ActsAsSigning`, hence with `EveryoneHasRoom`: `Open` is the same
in the instance of the proofs and in the one of `Committee` (`SameOpen`).

**What is not lost in Signing.** Two properties say that something is *not* lost, and need that
the transport does not lose it. `pushInbound` drops an envelope when the channel
is full and nothing sends it again, so both hold only while the channels have
room: `HasRoom(n)` says that fewer than `QueueCap` envelopes wait at `n`. The
condition is part of the statement (`Spec /\ []...`), because the model bounds the
channel as the code does and nothing in the code keeps it from filling up.
`signing_live` and `signing_manual` meet it, as their capacity is more than is
ever sent to one node.

* `QuietCoordinatorIsCurrent` is about what the coordinator stores of its own
  results, which come back to it through its own channel (a local push, never
  lost). `CurrentInv` says which result of a session the coordinator will have
  stored in the end (`LastResultIs`): the one its main loop is storing or
  broadcasting, else the last one in its channel, else the one it has stored. Of
  an aggregated session that is the result of the session's own request. It also
  says that results reach the coordinator by its local copy only, and that a copy
  still to be aggregated is of a session without a result.
* `NoRequestIsForgotten` follows one request to one member. `StemInv` says where a
  session, a queued request and a job of the main loop come from; it holds of
  every behaviour. On top of it the member is *expected* to answer (it was ready
  and able to sign when the request was submitted, `StaysReady`: readiness is
  never taken back), and then the request is under way to it, waits in its
  queue, is being answered, or its answer is under way to the coordinator,
  counted, or needed no more. The proof takes each step of `Next` and shows where
  it moves the request, with a lemma for each place it can be. It needs `Reliable`:
  no loss, and no operator who signs something else.
* `ConcludesInv` is for the theorem about rest in `Committee_proofs`, and holds
  where all members have one key (`OneCommitteeKey`). `ResponsesFit`: a session of
  a running coordinator holds responses to its own message, and the coordinator
  has a key; so their aggregate verifies (`ResponsesVerify`).
  `EnoughAreAggregated`: a session with enough responses and no result is being
  aggregated, as it is, by the main loop; nothing would look at it again later.
  `ResultsArrive`: every running node has a result of an aggregated session, or one
  is in flight, in its channel, or in the hands of the coordinator's main loop. The
  lemma `SessionChanges` gives the three ways a session can change, each of which is
  a case in every one of the three proofs.

**Committee.** What was proved of the halves is carried over to the whole, so that
nothing is proved twice.

* `CInv` has what is true of both protocols together: `ChannelsOK` (a share
  in flight is of a first dealing, everything else is of the rounds; no queue is
  over capacity), `LoopsOK` (what a main loop has to broadcast is no share) and
  `KeysOK` (a node holds first dealings only, and its key, if it has one, is
  `FirstKey`: here every process is started once). `LearnsOneKey` maps the actions to `CommitteeKey` with it.
* `ActsAsSigning` takes the shares out: `roundNet` are the frames of the rounds,
  and `roundCh[n]` is the queue of `n` without shares (`RoundsOnly`, which keeps the
  k-th of the others at place k). Appending an envelope of the rounds appends it
  there, appending or taking a share changes nothing, and taking one of the rounds
  from the head takes the head there (lemmas on `RoundsAmong`, by cardinalities).
  `EveryoneHasRoom` is needed: in the service a channel full of shares drops an
  envelope for which `Signing` has room. `NoneIsNoData` says that the model value
  `None` is none of the data.
* `RoundProofs` is `Signing_proofs` instantiated with that mapping. Its
  theorems hold of every behaviour of the service by `ActsAsSigning`
  (`RunsAsRounds`); what they say of the filtered channels is what the properties say
  of the real ones, because no property of the rounds looks at a share
  (`ResultsMap`, `InboundMaps`, `UnderwayMaps`). That gives the three `Service...`
  theorems.
* `NoReadyMemberMissesRequests` starts an answer when the request is submitted, not in
  the initial state as `NothingForgotten` does: `SubmissionsOK` says that who was ready
  at that moment still is while it runs, and `AnswersOK` that its answer is underway
  or settled. The step lemma `KeptStays` of the rounds does the rest.
* `RestingServiceHasSigned` puts them together. At rest no channel holds anything
  (`RestIsQuiet`), so the answers of the members that were ready are counted, unless
  the session has its result already; a threshold of them would be in aggregation
  (`EnoughAreAggregated`), but the main loop has nothing to do; so there is a result,
  the coordinator has stored the one of the latest request
  (`ServiceQuietCoordinator`), which is of its message (`ServiceResultsAreGood`), and
  every running node has one (`ResultsArrive`). That the service comes to rest at
  all is liveness and only model-checked. The `committee` run meets the hypotheses:
  it is reliable, and its channels are larger than all that is sent to one node.

**StaticNetwork.** `IInv` is `TypeOK` with, for each link, `DialerOK` (the dial loop
watches a connection exactly when it says so, a registered writer is the one it
watches, an end that is open is watched and has its `readLoop`, a process that
has waited for its loops has none) and `AcceptorOK` (connections wait to be
accepted only where somebody listens; a process that has waited has closed its
ends). `LoopsEndBeforeStop` is not inductive because `Stop` waits for loops that
may still dial or be accepted meanwhile; `AcceptorOK` gives that the ones in the
listener's backlog have been reset when it does.

The refinement needs to know where an envelope is, so `RInv`
adds three things to `IInv`. `CallsOK`: the calls of `Publish` that are going on
carry different envelopes, belong to running processes, and count as sent once
they are past the closed check. `SentOK`: what is sent has been published.
`PlacesOK`: the frames of a link were sent by its dialler, no two of them, on
whichever connections, are the same, and none is still to be written to that
peer. `PublishPush` maps to `Send` and `AcceptorReads` to `Read`, or to `Lose` when the
process that would have read has ended; taking an envelope, starting and ending
a process map to their namesakes; every other step loses a set of envelopes or
stutters. That nothing appears in flight outside `Send` depends on the lock: a
writer becomes usable only under it (`Unlocked`), so not between the two halves of
a `Publish` that would then write to it.

**NodeConfigs.** Each step of a command reads a configuration, edits it in memory,
or writes one, so `IInv` is about all configurations that are in a file or in the
hands of a command or process of node `n` (`Contents(n)`): each has the members of
the node's committee and names nobody twice (`GoodConfig`), and a name without an
address in it is one that some call of `addPeer.sh` was told to add to this file
without one (`AddressInv`, which needs that commands are at files they were told to
edit, `TargetsInv`). `DecodableFilesAreValid` is read off it: a file in which every
name has its address is one that `Validate` accepts. `MembersAgree` needs to know
that commands only add. `MembersInv` says that every configuration in the hands
of anybody begins with the list `gen.sh` wrote, followed by names somebody has
asked to add (`KeepsMembers`, `NamesInv`); appending keeps that beginning, and
the script's sort keeps it when no name in use comes before a member
(`~Resorted`). That `Resorted`, once true, stays true is a lemma about sorted
prefixes (`SortedPrefix`). `OrderlyCommandsAdd` is by `OrderInv`, which adds to
`IInv` what holds of an orderly past (`~overlap /\ kills = 0 => Orderly`): at most
one command is between reading and writing, a file that is empty or missing is the
one it is at, the files before its place in its loop have the new peer, with an
address that a command was told for it (`AddrsTold`), and what it holds is the file
it read with its peer added.
`Sorted` is defined in the module, by ranks, because the prover cannot expand the
`SortSeq` of the standard module `TLC`.

**ControlServer.** `IInv` relates the two ends of each connection: which client
states go with which handler states (`HandlerOK`), and what the response
underway says of `executed`, `published` and `overflowed` (`AnswerOK`).

**ThresholdShares.** `SharesAssumption` asks that P is a prime above the committee
size, which `frModulus` is; everything else is proved from that. The invariant
`SharesOK` is small; the work is in the arithmetic, for a prime, a degree and a
committee of any size.

* *Induction.* A sum over members, a product of differences and a polynomial of any
  degree need induction over data. It is done in the form of a set: `NaturalsBySteps`
  and `SetBySteps` say that a set that holds the base case, and with every case the
  next one, holds all of them (by the library's `WFMin`, on the least exception).
  The property is then the set of the cases in which it holds. `FoldExists` and
  `FoldAnyFirst` say so of a fold, which the library defines with a `CHOOSE` of the
  element that comes next: for an operation that commutes any element may come
  first. From them follow the laws of sums (`SumSteps`, `SumPlus`, `SumTimes`,
  `SumRenamed`, `SumSwap`) and of products modulo P (`ProductSteps`).
* *Inverses.* `InverseExists`: what P does not divide has an inverse. The least number
  without one would leave a smaller remainder of P, whose inverse gives its own. So
  `ModInverse` never fails in an interpolation, and a product is divided by P only if a factor is (`DividesFactor`).
* *Interpolation.* `LagrangeAdd` and `MomentStep` lead to `MomentsVanish`: for more
  points than j, the weights times the j-th powers of the points add up to 0, and to 1
  for j = 0. It adds one point at a time. `InterpolateSecret` is that, with the two sums exchanged, for a
  polynomial of lower degree than there are points. `RecoverExact` applies it to one
  dealer's polynomial and `SharesCombineToKey` to the sum of all of them
  (`SharesCombine`), whose secret is the committee's (`KeyIsSecret`).
* `ForeignShareNoticed` needs that no weight is zero (`WeightType`): the aggregate
  changes by the difference of the shares times the weight.
* `FewSharesHideTheSecret` needs a polynomial that is zero at the points of the
  signers and not at 0 (`MaskExists`, one signer after the other: the polynomial times
  the difference of its variable from the new point), a multiple of which takes the
  secret to any other and leaves the shares.
* `BitmapIsExact`: a member's byte is within the bitmap (`ByteInRange`), byte and bit
  together determine the member (`BitIsOne`), and one more signer sets one bit more
  (`OneMoreBit`), so the count is the number of signers (`BitmapCounts`).

Only model-checked: liveness and the fairness it needs, which are out of the
prover's reach. They are `KeyGenerationCompletes`, `SubmittedRequestIsSigned`,
`EverybodyStops`, `Reconnects`, `InterruptedProcessEnds` and `AutoRequestIsSubmitted`; of the
second, `RestingServiceHasSigned` proves the part that is safety. Every other
property of the runs that pass is stated by a theorem.

## 6. Where the code and its documents disagree

* `dkg_fixed_key`. `CommitteePublicKey` is documented as "the fixed
  committee-level public key" (service.go:462, README.md:36). A process that
  restarts while others are still collecting shares samples a new secret
  (service.go:318). A node that already held its first share keeps it; one that
  did not takes the second. Both become ready, with different keys.
  `OnlyRestartedDealerSplitsKey` says that this is the only way.
* `signing_latest`. `result` without a session is documented to return the newest
  result (README.md:37). The coordinator stores a result when it aggregates it and
  again when its own broadcast comes back; with another session aggregated in
  between, `lastAggSessionID` goes back to the older one (service.go:506).

More observations, stated where they matter in the models. No run is about them,
because no document contradicts them or the document is a plan for tests.

* A response is verified against the key it carries (service.go:656), so a share
  of another committee key is counted and takes part in every interpolation; the
  aggregate never verifies and the session does not end although enough good
  shares arrive. devPlan.md:31 asks only that invalid signatures be handled. There
  is no wrong result (`ResultsAreRequestedAndSigned`, checked with such a member).
* `VerifyAggregate` checks the length of a bitmap and not its content: the bitmap
  of an aggregate that was made by somebody else is not tied to the signature.
* A coordinator that is ready before another member loses that member's answer
  to early requests, because `onSignRequest` drops them
  (`OnlyUnreadyMembersMissRequests` says that only this loses one).
* `SubmitSignRequest` publishes after the unlock, so an older request of a session
  submitted twice may come last and replace the newer one in `pending` of a node
  with auto-sign off (see `NoRequestIsForgotten`).
* `Service.Stop` closes the network before it waits for the control goroutines: a
  request that arrives in between is answered with ok and published to nobody
  (`ReportsAreTrue` exempts it), and one that passed the check of `n.closed` may
  send on the closed channel and panic (`PanicOnClosedChannel`; `PushInbound` of
  `ControlServer`). `Stop` of the network may wait for a peer that keeps running:
  it closes the connections it dialled, not those it accepted, so one node that is
  interrupted alone may never end (`InterruptedProcessEnds` says for this reason
  only; `EverybodyStops` that all nodes together do).
* A `sign_session` at the coordinator is answered with ok although its signature
  found the inbound channel full and was dropped (static.go:145): it is addressed to
  the coordinator alone, there is no other copy, and the queued request is gone
  (service.go:597). `ReportsAreTrue` names the case (`overflowed`); of a sign request
  only the coordinator's own copy is lost, and the peers still get theirs.
* `addPeer.sh` counts its arguments and accepts an empty address (addPeer.sh:4, 34),
  which the `add-peer` of the binaries refuses (main.go:415). It leaves a file that
  `Validate` refuses (config.go:60), until a later command gives the peer an address
  (`DecodableFilesAreValid`).
* Two `add-peer` commands that overlap can undo each other in some files
  (`OrderlyCommandsAdd` is about commands that do not), and one that is killed
  between the truncation and the write leaves an empty file, at which the next
  one stops. An `addPeer.sh` that is killed in the middle of an `mv` from another file
  system leaves no file, or an empty one. `addPeer.sh` sorts `static_nodes` as
  strings, node-10 before node-2: once it has been used in a committee of ten,
  members have other indices (`Resorted`, exempted in `MembersAgree`).
* `Validate` accepts a threshold of 1, with which `share.Split` fails: nobody deals.

## 7. Not modelled, and why

* Restart in `Signing` and `Committee`: a restarted process has no key unless every
  member deals again, so it takes no part in signing; what it does to keys is in
  `DKG`.
* Network failures between two running nodes other than the heartbeat's own, and
  writes that block on a full TCP buffer, as at a peer that runs and does not read
  (a `Publish` that is blocked there keeps `Stop` waiting, too). A client that
  vanishes without its connection being closed, for which `Service.Stop` would wait.
* The wire format (`wire/message.go`): two calls of `encoding/json`. The fields are
  the records of the models. Queries of the control server, and the console's
  dialogue: they change no state.
* `run.sh` and `demo-shamir.sh`: they start processes. Elliptic-curve arithmetic:
  external; used through linearity only.
* `AggregateSignatures` is called by tests only; it treats bitmaps and keys as
  `AggregateThresholdSignatures` does.

## 8. Plan

Written, in this order: `Transport`, `CommitteeKey` and `DKG` (the key is what
everything depends on), `DKG_proofs`, `Signing`, `ThresholdShares`,
`LossyTransport` and `StaticNetwork`, `Committee`, `NodeConfigs`, `ControlServer`,
`Signing_proofs`, `ControlServer_proofs`, `StaticNetwork_proofs` with the
refinement of `LossyTransport`, `NodeConfigs_proofs`, the second half of
`Signing_proofs`, `Committee_proofs`, `ThresholdShares_proofs`, `SigningRound`
with the proof that `Signing` and `Committee` implement it. Nothing is left of the plan; the six liveness properties
stay with TLC.
