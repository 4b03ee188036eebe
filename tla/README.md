# Joystream: TLA+ specifications and proofs

This directory specifies three cores of Joystream. The first is the governance of
the chain: how a council is elected, paid and replaced, and how proposals are
staked, voted on, confirmed and executed, translated from the Rust pallets under
`src/runtime-modules`, together with what the query node shows of an election
(`src/query-node/mappings`). The second is the asset cache of the distributor node
(`src/distributor-node`), the third the uploads, the files and the
synchronization of the storage node (`src/storage-node`). All models are checked
with TLC on small instances; the safety properties of the passing runs are also
proved with TLAPS, for every instance, two of them under a hypothesis that section 5
states.

`PROJECT.json` maps every definition to the lines it models, and lists runs,
mutants (faults that the properties must detect), findings, hazards and theorems.

## 1. The system

| Part | State | Operations | Talks to |
|---|---|---|---|
| Staking handler (`staking-handler`) | none of its own: the locks in `pallet_balances` | `lock`, `unlock`, `slash`, `set_stake`, conflict and balance checks | called by every pallet that takes stakes; the runtime's `LockComparator` decides what conflicts |
| Referendum (`referendum`) | `Stage`, `Votes` | `vote`, `reveal_vote`, `release_vote_stake`, `force_start`, `on_initialize` | started by the council, calls it back with the winners and for the power of an option |
| Council (`council`) | `Stage`, `Candidates`, `CouncilMembers`, `AnnouncementPeriodNr`, budget values | `announce_candidacy`, `release_candidacy_stake`, `withdraw_candidacy`, `set_candidacy_note`, budget calls, `on_initialize` | starts the referendum, notifies the proposals engine of a new council |
| Proposals engine (`proposals/engine`) | `Proposals`, `DispatchableCallCode`, `VoteExistsByProposalByVoter`, two counters | `create_proposal`, `vote`, `cancel_proposal`, `veto_proposal`, `on_initialize`, runtime upgrade | executes arbitrary calls as root, its own veto among them |
| Proposals codex and discussion | `ThreadIdByProposalId`, `ThreadById`, posts with their bonds | `create_proposal`, `add_post`, `update_post`, `delete_post`, `change_thread_mode`, `proposal_removed` | wraps the engine, is told of removed proposals |
| Working groups, bounty, content, project token, storage, forum, membership | see section 6 | | |
| Distributor node (Argus): `StateCacheService`, `ContentService`, `NetworkingService`, the public API | files and their total size, LRU groups, pending downloads, download queue, `cache.json` | serve, proxy or download an asset; evict, clean up, save, restart | asks the query node what it has to distribute and the storage nodes for data |
| Storage node (Colossus): the files API, `acceptPendingDataObjects`, `performSync`, `WorkingStack`, `TaskProcessor` | the uploads directory, its index `idCache`, temporary files, the nonce lock, a stack of tasks, cached answers of providers | receive, verify and accept an upload; find, fetch and verify missing objects; restart | accepts objects on the chain, asks the query node what it has to store and other providers for data |
| Query node: mappings of the council (`council.ts`) | election rounds, stage updates, candidates, cast votes, council members | one handler per event of `council` and `referendum` | reads the chain's events in order, is read by applications and by the nodes |

### Where it is hard

* Two pallets keep one election cycle in two `Stage` values and advance them in
  the hooks of the same block, by equality tests on block numbers. A mismatch or
  a missed block wedges the chain's governance.
* Stakes live in a lock table shared by all pallets. A record (candidacy,
  councilor, vote, proposal) and its lock are changed by different calls, in
  different cycles, on accounts that are reused.
* `process_proposals` iterates over a snapshot while the proposals it executes
  change the storage underneath it.
* Long lives: candidacies, votes and proposals survive into later cycles and
  meet records of the new one.
* The distributor node reads the status of an object, awaits the query node, the
  download queue, a storage node, space and the end of a stream, and acts on what
  it knew before. Requests, evictions and cleanups of the same object run in
  between, and all of them refer to downloads by object id.
* Used space is a counter kept next to the directory, and the cache state is a
  map that is saved now and then. A crash leaves the three at different times.
* An upload to the storage node awaits the verification, the move of the file, a
  lock, the chain and a timer, while other uploads, a synchronization and the
  chain itself concern the same object. Files are known by name only, and the
  extrinsic of an upload outlives the upload.
* The workers of a synchronization share a stack on which tasks put tasks, and a
  worker that finds it empty leaves for good.
* A handler of the query node that misses a record stops it for every
  application. The records are looked up by "the last one", not by the ids of the
  chain.

## 2. Modules

| Module | Models | State |
|---|---|---|
| `StakingHandler` | `staking-handler`, the lock comparator of the runtime | none: operators on lock tables |
| `Referendum` | `referendum` | `refStage`, `votes`, `locks`, `now` |
| `CouncilBudget` | the treasury half of `council` | budget, refill, rewards, `councilMembers`, `totalIssuance` |
| `Council` | the election half of `council`, composed with both | `stage`, `candidates`, `announcementPeriodNr`, `hook` |
| `CouncilView` | the query node's mappings of the council, composed with `Council` | `db` |
| `MCCouncil`, `MCCouncilView` | instances for TLC | |
| `Council_proofs` | types, stages and deadlines of `Council`, proved | |
| `CouncilElection_proofs` | stakes, candidates, ranking and votes of `Council`, proved | |
| `CouncilBudget_proofs` | payments and the budget, proved | |
| `CouncilView_proofs` | the query node's picture of the council, proved | |
| `Sums_proofs` | lemmas about sums over finite sets, which the other proofs share | |
| `ProposalsEngine` | `proposals/engine`, the codex' checks of a veto | proposals, votes, counters, stakes, `todo` |
| `MCProposals` | instances for TLC | |
| `ProposalsEngine_proofs` | theorems about `ProposalsEngine` | |
| `DistributorCache` | the asset cache of the distributor node | directory, space counter, LRU groups, pending downloads, queue, one handler per request, `cache.json`; the history variables `refetched` and `unverified` |
| `MCDistributor` | instances for TLC | |
| `DistributorCache_proofs` | downloads, cache state, directory, space and content, proved | |
| `StorageNode` | the storage node; chain, query node and other providers as its environment | objects on the chain, extrinsics, directory, `idCache`, uploads, round, stack, workers, cached answers |
| `SyncRound` | what a synchronization promises, abstractly | `running`, `todo` |
| `MCStorage` | instances for TLC | |
| `StorageNode_proofs` | theorems about `StorageNode`, refinement of `SyncRound` | |

How the models correspond to the code:

* **A block** is `CouncilOnInitialize`, then `ReferendumOnInitialize`, then any
  number of extrinsics, the order in which `construct_runtime!` lists the
  pallets. The variable `hook` says which hook is still to run; extrinsics wait
  for it. In `ProposalsEngine` the hook is a loop: `todo` holds the rest of the
  snapshot, and any of its entries may be next, because the storage map iterates
  in the order of hashed keys.
* **An extrinsic** is atomic (a failing call leaves no trace): its guard is the
  conjunction of its `ensure!`s, and it includes everything the call does
  (locks, counters, callbacks into the other pallet).
* **Stakes** are amounts in `locks[id][account]`. `SetLock` overwrites and ignores
  zero, `RemoveLock` of an absent lock does nothing, as in `pallet_balances`.
* **Commitments** to a vote are represented by the option they open to; `None` is
  a commitment that opens to nothing. `RevealVote` requires that they agree. The
  hash, the salt and its length are left out.
* **The list of winners** is kept as the code keeps it, by insertion and
  swapping (`TryWinnerInsert`); `WinnersAreTheTop` compares it with the ranking
  by definition.
* **Payments** (`pay_elected_member_rewards`) are a fold over the council with
  the budget as accumulator. It is written as a sequence of remaining budgets
  `rem` that satisfies the recurrence at each index (`PaysInOrder`); there is
  exactly one, and the form keeps the module open to proof.
* **What a proposal executes** is a call without effect on this pallet (0), or
  `veto_proposal` of a given id.
* **Quorums and thresholds** compare `Perbill` fractions. Percentages are
  multiples of the resolution, so that the rounded comparison equals the exact one
  used in `FractionReaches`.

For the distributor node:

* **The event loop.** An action is what runs between two awaits, callbacks or
  timers of a request's handler. `evictCacheUntilFreeSpaceReached` does not yield
  between its rounds; while it runs (`evicting`) no other action is enabled. Its
  check for space and the reservation that follows are part of that same run. It
  sleeps only when there is nothing to evict.
* **A request** is one handler: it asks the query node, joins a download or
  starts one, and then performs the download that it started, to its end. Each
  request is made once.
* **Data** is a sequence of chunks. A file is its size and the set of offsets at
  which it holds the right chunk, so that a file that is partly written, or
  written by two downloads, is distinguished from a verified one. Opening a file
  for writing empties it at once; a file that is deleted while it is written is
  unlinked, and the writer goes on without a name (`linked`).
* **Sources** send the right data or wrong data, too little, one chunk too
  many, or break off, also while the download waits for space. The search for a
  source among the storage nodes is one choice, found or not found.
* **Eviction candidates** are the oldest items of the groups. Which of them costs
  most depends on times; the model takes any.
* **Background tasks.** One cleanup and one save are in flight at a time, as long
  as their intervals exceed the time they take.

For the storage node:

* **The event loop.** As above: an action is what runs between two awaits of an
  upload, of the synchronization or of a worker. The temporary file belongs to the
  request or task that writes it and is its `content`.
* **Content** is good (the size and hash the chain has for the object) or bad. An
  answer of a provider that does not have the file is bad content: it is written
  like a file.
* **An upload** is `UploadStart` (the validation, and the file is received),
  `UploadVerify` (which lists the id before the file is there), `UploadRename`,
  and then its extrinsic: the lock and the nonce (`lockAndGetNonce`), the pool
  (`signAndSend`), a block (`TxIncluded`). The extrinsic has its own state `tx`,
  because the timeout of `extrinsicWrapper` ends the upload and not the extrinsic.
  What the chain does with an object (`TxIncluded`, `ObjectDeleted`, `BagRemoved`) is
  translated from the storage pallet. That the node's bucket exists and its key is the
  bucket's transactor is taken for granted, and an extrinsic that the pool drops after
  it has taken it is left out: for the upload both are what `UploadTimeout` is, but
  in the model a nonce is never given out again.
* **A synchronization** reads the index, the bags, and then the objects, at three
  moments. Its tasks go to the stack in any order, since it depends on the order
  of the query node's answers. A prepare task asks the providers in
  random order, as the code does, and leaves a download task on the stack.
* **A failed call** is an action of its own that spends one of `MaxFaults`.
* **A restart** may fall between any two actions. What was in the pool of the
  chain's node stays there, and what was being sent may or may not have left.

For the query node:

* Each event of the chain is given to its handler in the step that emits it, in
  the order of emission. Handlers never write to the chain, so that a query node
  that lags behind passes through the same states later.
* Of each table `db` keeps the records that a handler or a query for the present can
  return. A handler whose record is missing sets `halted`.
* The events that pay rewards are computed from the chain's budget at that point
  (`Payments`), with what was paid and what was put off.
* The composition has every step of the chain. Of the budget's calls the mappings
  record only the events, which `db` does not keep.

Left out on purpose: remarks, the records of events, the texts of titles, descriptions and
notes, transaction fees, `start_referendum` (only `force_start` is called), and
arithmetic overflow of 128-bit balances. `u32` counters saturate or fail long
after the bounds of any chain; no property depends on it.

## 3. Properties and runs

Council, referendum and the query node (`MCCouncil`, `MCCouncilView`):

| Run | Bounds | What it shows |
|---|---|---|
| `elections` | 2 members, 4 accounts, 1 seat, all periods 1, 8 blocks: two complete cycles, with the query node | the pallets' stages agree (`StagesAgree`), ends are never missed (`DeadlinesAhead`), candidates are counted (`CandidatesCounted`), records and locks match (`StakesMatchRecords`, `StakesExclusive`), nobody backs out of an election (`ElectionBinding`), winning votes stay locked (`WinningVotesStay`); no handler of the query node misses a record (`ProcessorRuns`), and it shows the stage and round (`StageShown`), the candidates and votes (`ElectionShown`) and the council with what it is owed (`CouncilShown`) as they are |
| `ranking` | 3 candidates, 4 interchangeable voters, stakes 1 and 2, 2 seats, one election | the incremental winners list is the top of the ranking after every order of reveals, with ties and overtaking (`WinnersAreTheTop`); power is revealed stake (`PowerIsRevealedStake`); the elected council is complete (`CouncilComplete`) |
| `council_progress` | 2 seats, rewards 1 or 2, every budget call, fairness of the two hooks, 6 blocks | every stage ends whatever users do (`EveryStageEnds`); arrears and partial payments add up (`RewardsPaidInFull`); tokens are created by refill and root only (`FundsConserved`); types (`TypeOK`) |

One seat and two cycles are enough to meet re-election, a candidacy kept from a
lost cycle, an account that votes and stands, and a replaced vote. Two out of
three with four voters is the smallest ranking in which an entry falls out of a
full list and comes back. The period of one block makes each deadline a boundary.

`CouncilShown` compares debts under one reward: `elections` has `RewardChoices = {1}`,
the initial one, and no transfers from or to the budget. When the budget is empty,
the chain leaves a councilor's record as it was but emits the event of a payment of
nothing, and the handler moves `lastPaymentBlock` to that block. The chain then
counts the put-off blocks at the reward of the day they are paid, the query node
at the reward of the day they were put off. If root sets another reward in
between, what is shown as owed is not what is owed, until the next payment that is
made. (TLC finds such a behaviour with `RewardChoices = {0, 1}`.)

Proposals (`MCProposals`):

| Run | Bounds | What it shows |
|---|---|---|
| `proposals_lifecycle` | 2 proposals, 3 members, 2 councils of two, one reused account, 4 blocks; one kind needs two confirmations, a stake and a grace period, the other executes at once; exact execution block or none; vetoes and runtime upgrades at any moment | counter (`ActiveCountExact`), tallies of the sitting council's votes (`TallyMatchesVotes`), stakes (`NoOrphanStake`, `LossesAreStakes`), timing (`DecidedInTime`), confirmations (`ConfirmationsCounted`), early rejection is final (`EarlyRejectionFinal`), types (`TypeOK`) |
| `proposals_stake_unlock`, `proposals_limit` | | violations: findings, see below |

No proposal of `proposals_lifecycle` executes a veto (`Calls = {0}`); `proposals_limit`
shows what goes wrong when one does. `OpenProposalsStaked`, that a proposal under
vote has its stake locked, fails with interventions and is left to its own run.

Distributor cache (`MCDistributor`):

| Run | Bounds | What it shows |
|---|---|---|
| `distributor_cache` | 3 requests, objects of 1 and 2 KB of which only one fits (the one is in group 0 from the start, the other once it is used again), 2 slots, sources that lie, stale answers of the query node, changing obligations, cleanups, crashes at any moment, also within a save | no entry of a download is left behind (`PendingHasDownload`), types (`TypeOK`); of an object that was not fetched again, cache state and directory agree (`CacheMatchesFiles`) and a hit is verified (`AvailableVerified`); while none was fetched again, the space counter is right (`SpaceAccountedWhenFresh`) and the files stay within the limit (`LimitKept`) |
| `distributor_progress` | 4 requests, 2 objects that do not fit together and one that is only proxied, 1 slot, sources that lie, stale answers, fairness | every request is answered, but for three named cases (`RequestsAnswered`) |
| `distributor_stale_answer` | 2 requests, 1 object | violation: a finding, see below |

Two objects that do not fit together make every second download evict, wait or be
evicted. Three requests are enough for a download, one that joins it or evicts it, and one
whose answer is stale; a fourth, in `distributor_progress`, for a request that
joins the second download of an object.

The properties hold under conditions which they state themselves, because the code does
break them otherwise; no constraint of the runs hides the cases.

* An object is *fetched again* (`refetched`) when a request downloads it although the
  cache has an item for it. It happens in two ways: the answer of the query node
  was stale, the object having become available while it was awaited (the finding
  `distributor_stale_answer`), or the item was left behind in group 0 when the file
  was dropped (section 4). Two downloads of the object, or an eviction and a
  download, then work on one file. The space counter goes wrong, with it the storage
  limit (a counter that is too small by a chunk lets the files exceed it from then on), a
  partial file becomes a hit, and files and items of the object disagree. For the space,
  which is one number, the properties ask that no object was fetched again since the
  last start; the others speak of the objects one by one. A start sets everything right.
* A start takes over a complete file by its size alone. `unverified` has the objects whose
  file then had other data; `AvailableVerified` leaves out these and no others.
* An item of group 0 whose file was dropped is `LeftBehind`. `CacheMatchesFiles` admits
  that one case and says what else holds of it: it is in group 0 only, which is where
  `groupNumberByObjectId` says it is.
* A request may wait for ever in three cases, which `RequestsAnswered` names. `Orphaned`: it
  joined a download of an object that was fetched again, and another download
  completed the entry; `Completed` releases nobody. `Spinning`: the eviction loop has come
  upon an item without a file, frees nothing by dropping it and may do so
  for ever, without giving up the event loop. `~SpaceAccounted`: the counter is wrong, and the space
  that a download waits for may not exist. TLC reaches all three in the run.

Storage node (`MCStorage`):

| Run | Bounds | What it shows |
|---|---|---|
| `storage_uploads` | 1 object, 2 uploads of good or bad data, 1 worker, 2 providers, deletion and loss of the bag, 1 failed call or timeout, 1 restart | stored files are verified (`FilesVerified`) and listed (`FilesListed`), accepted objects are stored unless an upload failed (`AcceptedHeld`), nonces are distinct (`NoncesDistinct`), types (`TypeOK`) |
| `storage_sync` | 2 objects, 1 upload, 2 workers, 1 provider, 1 failed call, 1 restart, fairness | the rounds implement `SyncRound` with its liveness (`SyncIsRound`); an accepted object that a provider has is stored in the end (`Replicated`) |
| `storage_timeout` | 1 object, 1 upload | violation: a finding, see below |

Two uploads of one object are enough to meet the shared name, the lock and a
late extrinsic, with a download of the object in between; the theorems lift the
bounds of that run. Two workers and two objects are the smallest round in which a
worker leaves while the other still puts a task on the stack.

**Fairness.** `council_progress`: weak fairness of the two hooks, that is, blocks
keep being produced. Nothing is assumed of users. Time is bounded by `MaxBlock`;
the property speaks of stages whose end lies within the bound.
`distributor_progress`: weak fairness of a request's handler and of the download
queue. Answers of the query node and of storage nodes come or time out
(`outboundRequestsTimeoutMs`), a download is aborted after
`pendingDownloadTimeoutSec`, a sleeping eviction has a timer of one second, and the
queue starts its jobs itself.
`storage_sync`: weak fairness of each upload, extrinsic and worker, of the
synchronization (an endless loop with a timer), of the expiry of cached answers
(timers of three minutes), of block production and of the query node. Nothing is
assumed of clients or of the other providers. Calls fail at most `MaxFaults` times:
if they always fail nothing is replicated.

**Deadlock** is checked in the governance runs, where `Horizon` stutters at the
last block, and in the storage runs, where the synchronization never stops. In the
distributor runs it is off: a node whose requests are all
answered waits for the next one. That nobody waits in vain is `RequestsAnswered`.

## 4. Findings

Each is a run in which TLC finds what the documentation says violated:

* `proposals_stake_unlock`: the stake is released at approval, but the account
  stays in the record. A veto or runtime upgrade during the grace period unlocks
  the account again and with it the stake of a newer proposal that is still open.
* `proposals_limit`: a veto that executes inside `process_proposals` removes a
  proposal that is still in the snapshot. Its second removal decrements
  `ActiveProposalCount` again, and the limit on active proposals can be exceeded.
* `distributor_stale_answer`: a request that learns too late that the object was
  missing downloads it again over the cached file and counts its size twice.
* `storage_timeout`: an upload stops waiting for its extrinsic after 25 seconds
  and removes the file, and the extrinsic is included later. The object is
  accepted on the chain and not stored. Its id is still in `idCache`, so that the
  next synchronizations do not fetch it either, until the node is restarted.

Met while modelling, and not the subject of a run:

* `dropById` takes group 0 for no group (`StateCacheService.ts:185`; `InLaterGroup`
  in the model). An object of 1 KB, or one requested as often as it has KB, stays in
  the cache state when its file is dropped, against the documentation of the
  cleanup (`docs/node/index.md:388`). It is then offered for eviction again: while it
  is the cheapest item the eviction loop drops it again and again and never yields, and
  if the object is downloaded again its space can be given back twice.
  `CacheMatchesFiles` fails without its case `LeftBehind`, `RequestsAnswered` without
  `Spinning`.
* `startupInit` trusts a file by its name and size. One that was complete but not
  yet compared with its hash when the process died becomes a cache hit:
  `AvailableVerified` fails if the objects in `unverified` are not left out.
* The comment and the test of `can_announce_candidacy` say that the locked stake
  of an earlier candidacy is reused. The runtime's lock comparator reports it as a
  conflict; only the mock of the tests does not.
* The mappings of the council do not maintain everything that
  `query-node/schemas/council.graphql` says. `candidatesCount` (line 26) is not
  counted down by a withdrawal. `stakeLocked` of a candidate (line 73) stays true
  after a withdrawal and after the candidate was elected; that of a vote stays
  true when the account's next vote replaces it. `lastPaymentBlock` (line 111) is
  set also when nothing could be paid. `ElectionShown` and `CouncilShown` state
  what is maintained.
* The weight of proposals executed at approval is computed by `process_proposals`
  and dropped (`lib.rs:1055`).

## 5. Proofs

The theorems hold for every value of the constants that satisfies the modules'
assumptions, which ask for no more than types, durations of at least one block
and a `None` that is no record; further hypotheses are stated where there are any.

### Council and referendum

`Council_proofs`, for all sets of members and accounts, all stakes, durations,
council sizes and budgets:

* `TypeCorrect`: `Spec => []TypeOK`;
* `StagesNeverDisagree`: `Spec => []StagesAgree`;
* `DeadlinesNeverMissed`: `Spec => []DeadlinesAhead`.

The inductive invariant is
`IndInv == TypeOK /\ StagesAgree /\ DeadlinesAhead /\ WinnersCurrent`.
None of the three is inductive alone. Deadlines need the stages to agree (a
referendum that ends while the council is not in its election would start an
announcing period over a running one). Types need `WinnersCurrent`: during the
reveal, the winners are distinct, are candidates of the current cycle, and there
are no more than the seats, so that the election turns each of them into exactly one well-typed
councilor. That in turn rests on `WinnerInsert`, the lemma about inserting
into the ranking: each entry of the new list is the new result or an old entry of
another option. The step is proved hook by hook and extrinsic by extrinsic
(`CouncilHookStep`, `ReferendumHookStep`, `ExtrinsicStep`), then joined by
`NextIndInv`; `StageMachine` is the temporal conclusion.

`CouncilElection_proofs` builds four invariants on top of it:

* `StakeInv`, for `StakesAreJustified` (`StakesMatchRecords`), `StakesNeverShared`
  (`StakesExclusive`) and `CouncilAlwaysComplete` (`CouncilComplete`). The first two
  need each other: if candidacies or seats shared an account, a release would
  unlock a stake that another record still needs. That the council is complete follows from the
  records and from `IndInv`. The hard step is the election (`ElectionLocks`), which unlocks the old council, turns
  the winners' candidacies into seats and leaves the other candidacies locked.
* `CountInv`, for `CandidatesAreCounted` (`CandidatesCounted`): the cycle of a
  candidacy is never a future one, so that a new cycle starts from none, and there
  are finitely many current ones.
* `TopInv`, for `RankingIsRight` (`WinnersAreTheTop`): besides the property itself,
  nobody has power before votes are revealed. A revealed vote raises one option; the entries between its old and its
  new place move down by one, and what falls out of a full list is no more than
  its last entry.
* `PowerInv`, for `PowerIsTheStake` (`PowerIsRevealedStake`): votes have no later
  cycle than the present one and no option before the reveal, and the power is a
  sum over a finite set of backers, to which a reveal adds one and which no other
  step of an election changes.

`ElectionsBind` (`ElectionBinding`) and `WinningVotesKept` (`WinningVotesStay`) are
action properties that follow from these, step by step.

`CouncilBudget_proofs` proves `FundsAreConserved` (`FundsConserved`) and
`RewardsArePaid` (`RewardsPaidInFull`). The recurrence `PaysInOrder` that defines a
payment is a sequence of remaining budgets, so that the sum of what is paid
telescopes to the difference of the first and the last (`SumTelescopes`), each payment
being balanced by itself (`PaymentBalance`). The invariant `PaymentsPast` (no
councilor was last paid in a later block) keeps what is owed from being negative.

### The query node's picture

`CouncilView_proofs`, for any number of members, accounts, seats and rounds and
every sequence of calls, those of the budget included:

* `ProcessorNeverHalts` (`ProcessorRuns`), `StagesShownRight` (`StageShown`),
  `ElectionsShownRight` (`ElectionShown`);
* `CouncilorsShownRight`: the members marked as councilors are the council, in their
  current term of office and with their stakes;
* `CouncilShownRight`: `ViewSpec /\ SteadyRewards => []CouncilShown`. `SteadyRewards`
  says that no call changes the reward of a block or the total issuance. Section 3
  says why the debts need the first; the second is needed because `CouncilShown`
  takes all that is minted for rewards.

That no handler misses a record is not inductive: a record is found because the
chain's guards admit the call only when the chain has its own record, and because
the two agree. So `ViewInv` has all of it at once: `Runs` (the
tables are typed and the processor is not halted), `StageRight`, `ElectionRight`
and `OfficeRight`, together with the chain's invariants (`ChainInv`; every step of
the composition is one of the chain, `ViewStepIsChainStep`). The stages need two
facts more than `StageShown` says: the last update is not in the future, and
lies before the end of the running stage of the referendum, so that the update
that ends it has a higher block and is taken for the last. That all active candidacies are of
the current round (`ActiveInRound`) is what makes an election convert exactly the
winners, and a failed one end exactly the losers. `OfficeRight` says that each
councilor has a term of office, so that every payment has a record to go to, the last payment
of a council that is being replaced included (`RewardsShown`, `ElectionView`).

The handlers have a lemma each (`RoundStart` to `CouncilElected`) that says what
the database is after the event when the records are there. The payments of a
block are unique (`PaymentsUnique`), so the events are those of the payment that the
chain makes; by `PaymentEvents` what is shown as missing is what the chain still
owes after it, whether or not the chain has changed the councilor's record. `DebtRight`, the debts,
follows from that for a payment, and from `OneMoreBlock` for a block without one.

### Sums

`Sums_proofs` has what the proofs need about `MapThenSumSet` over a
finite set: taking an element out, changing one term, splitting a set, comparing
two sums. Induction over finite sets is not available (see below). Each lemma is
instead proved by a smallest counterexample: among the subsets of a finite set for
which it fails there is one without a smaller one (`SmallestSubset`, from the
well-foundedness of the naturals), and one element less leads to a contradiction.
The groups of the distributor's cache (`OnlyIdsItems`) are treated likewise.

### Proposals

`ProposalsEngine_proofs`, for all parameters of proposals, sequences of
councils and calls, a veto of a proposal of the same snapshot among them:

* `ProposalsIndInv`, `ProposalsTypes`: the inductive invariant, and
  `Spec => []TypeOK`;
* `ProposalsConfirmations` (`ConfirmationsCounted`), `ProposalsTally`
  (`TallyMatchesVotes`), `ProposalsEarlyRejection` (`EarlyRejectionFinal`);
* `ProposalsStakesFreed` (`NoOrphanStake`), `ProposalsDecided` (`DecidedInTime`), and
  the action property `ProposalsLosses` (`LossesAreStakes`);
* `ProposalsCounted` (`ActiveCountExact`), under the hypothesis `Calls \subseteq {0}`:
  no executed call vetoes a proposal. Without it the property is false, see
  `proposals_limit`.

`process_proposals` finalizes what it finds in its snapshot, and stores it again
when it is approved. So `IndInv` speaks of the table in storage and of the snapshot
(`todo`) alike: both hold only proposals whose confirmations agree with their
status (`GoodProposal`). `SnapshotInv`: an entry still to be processed is in
storage as the snapshot has it, or a veto has removed it and freed its account; so
the loop never frees the stake of something else. `DueInv`: whatever is due is
still to be processed, so that nothing due is left when the loop
ends. `ExactInv`: without vetoing calls the rest of the snapshot is stored.
Tallies need in addition that ids not yet given out have
no votes, and that removed proposals have none (`TallyInv`); a reactivated
proposal starts from none by `EmptyTally`. Early rejection is arithmetic: the
thresholds compare `100 * approvals` with a percentage of the votes, and one more
vote raises the left side by at least as much as the right, so that the votes that
are still missing achieve most when all of them approve.

### Distributor cache

`DistributorCache_proofs`, under `DistributorAssumption` alone, with stale answers,
lying sources and crashes:

* `PendingDownloadsProgress` (`PendingHasDownload`);
* `NodeTypes` (`TypeOK`): no file grows by more than a chunk beyond its object;
* `CacheMatchesDirectory` (`CacheMatchesFiles`);
* `SpaceIsAccounted` (`SpaceAccountedWhenFresh`);
* `StorageLimitIsKept` (`LimitKept`);
* `AvailableIsVerified` (`AvailableVerified`).

Nothing is assumed about sizes and popularity: objects are in any group, group 0
included, stale answers and restarts happen, and the conditions are those of the
properties (section 3).

`PendingHasDownload` is inductive once entries, handlers and
the queue are typed (`DownloadTypes`) and obligations are objects
(`SupportedType`). The argument is in three lemmas. `EntriesDropped`: whenever
handlers end, those among them that have a download lose their entry in the same
step. `FailedAreJoined`: the handlers that a failed download releases are not
downloading themselves. `HandlerMoves`: a handler with a download only moves
between the places of one. Each action is an instance of one of them.

`NodeInv` extends this to all of the state: what each handler has written
(`PlaceInv`), that a file that is written and still has its name exists
(`FileInv`), and that cache, saved state and the rest are typed (`CacheTypes`,
`RestTypes`). It holds whatever happens, and survives a restart from any saved state.

The agreement of cache and directory is stronger, and is lost for an object that is
fetched again. So it is an invariant per object, `Fresh(o)`, for every object outside
`refetched`: whoever downloads it has its entry (`OwnEntry`), and it is in one of four
states (`Consistent`): nowhere; being written by its own download; complete, in one
group, with no download; or left behind in group 0, without a file. `SpaceInv`: if all objects are
fresh, the counter is the sum of what they count for, and within the limit while
anything is being written. `DataInv`: the file of a fresh object holds the right
chunks as far as a good source has written it, unless the last start took it over.
Instead of one proof per action and object there is one per form of step
(`StepShapes`): a step is a restart, concerns no object (`Quiet`), one (`Touches`), or
some that are dropped (`Drops`), and leaves the others alone (`LocalFrame`). `RestartFresh` shows that
`startupInit` makes every object fresh again, whatever it finds: it keeps files only of
objects with an item, and of the items without a file only those of group 0.

`LimitKept` is stated of steps: once an object was fetched again the files may exceed the
limit, and the next start may find and keep them so; from then on they do not grow.

### Storage node

`StorageNode_proofs`, for any number of objects, uploads, workers and
providers and any bounds on failures and restarts:

* `StorageTypes`, `StorageFilesVerified`, `StorageFilesListed`, `StorageNonces`,
  `StorageAcceptedHeld`: the invariants of `storage_uploads`;
* `StorageSyncRefines`: `Spec => Round!Init /\ [][Round!Next]_(Round!vars)`, the
  safety part of `SyncIsRound`.

`IndInv` adds four parts to the invariants. `UploadsSound`: a request
names an object, what it is about to store has been verified and listed, and it
has an extrinsic only once its file has been stored. `WorkersSound`: a worker is active
only within a round and has a task while it works on one. `DownloadsVerified`:
what is downloaded without a hash belongs to a deleted object, and deletion is
final. `NoncesSound`: one upload holds the lock, its nonce is the number of
extrinsics sent, and all those sent have smaller ones. `AcceptedHeld` is strengthened to
`ObjectsHeld`: an object is held (stored, deleted, or an upload of it has failed)
as soon as an extrinsic for it exists, and `HeldForGood` shows that no step
ends that. For the refinement, `RoundInv` says that tasks on the stack
have a worker that has not left, which is why a round cannot end too soon;
`WorkersDealWithOne` that a worker's step moves an object within the round or
finishes one.

### Only model-checked

* Liveness (`EveryStageEnds`, `RequestsAnswered`, `Replicated`, the fairness of
  `SyncIsRound`): outside the prover's reach, as are `ENABLED` and the induction
  theorems of the library, which take an operator as a parameter.
* The properties whose runs expect a violation: they are false.

## 6. Not modelled, and the plan

Order of the next steps:

1. `ProposalsView`: the query node's `proposals.ts`, composed with the engine like
   `CouncilView` with the council; `ProposalsDiscussion`: codex and discussion,
   the removal of threads.
2. `Governance`: council and proposals composed, so that proposals are decided by
   the council that the referendum elected.
3. Working groups (openings, applications, rewards owed, unstaking periods), then
   the bounty's stages, NFT auctions and project token sales.
4. Proofs: the refinement of the lock table by the records, for the pallets still
   to be modelled.

Not modelled of the storage node: the commands that submit one extrinsic each and
the one that synchronizes from a single source; upload tokens, which the server
switches off; `DeleteLocalFileTask` and the id lists of new uploads, which nothing
uses; errors of the disk when a file is moved; the pages in which the query node
answers. Not modelled of the council's mappings: the handlers that only record an
event (budget calls, notes) and the history of replaced records.

Not modelled of the distributor node: an object larger than `limits.storage` when
`maxCachedItemSize` is not set (it evicts everything and waits for ever, holding a
slot), the choice among storage nodes by response time, range requests, the
private API and the operator's commands.

Not planned: forum, constitution and utility (single assignments or sequential
bookkeeping), the storage pallet beyond what the nodes see of it, CLI, types and
schemas (generated or without state), consensus and networking (Substrate).
