# Verification of cascade-playground

cascade-playground is a collection of small C++ (and some Python) programs that
exercise Cascade, a distributed key/value store with user-defined logic (UDLs)
running inside its servers: benchmarks, reproductions of problems, and tests of
new features. Cascade and Derecho themselves are not in the repository; where a
program relies on them they are modelled as the program uses them and marked
external.

This directory holds TLA+ models of the programs' own logic, TLC runs that check
them on small instances, and TLAPS proofs for every value of the parameters.
`PROJECT.json` ties every definition to the source lines it stands for.

## 1. Inventory

| Component | State it keeps | Operations | Interacts with | What is hard |
|---|---|---|---|---|
| **cbdc** workload generator (`src/cbdc`) | wallets, transfers, expected values; list of wallets, two iterators, transfer being built | `generate()`, `to_file()`, `from_file()` | a benchmark that executes the transfers, possibly concurrently | iterator invalidation, termination, sums over long sequences of picks, 32-bit values, truncated files |
| **affinity_sets_generic** client (`pipeline_client.cpp`) | configuration objects, data parts, four arrays of results | `setup`, `benchmark`, `listen_notifications`, `measurements` | store, UDLs, UDP, other client runs on the same servers | check-then-act on shared configuration, crash between two puts, listener thread, UDP loss, late notifications of an earlier run |
| **affinity_sets_generic** UDLs (`entry`, `category`, `return`) | none of their own; they read configuration and data parts | one handler each, run by a pool of workers on a server | each other through puts, the client through UDP | missing parts, reads of freed memory, the node that runs the handler must hold the data |
| **affinity logic** (`common.hpp`) | none | `affinity_logic(key)` | decides the shard of every object | objects used together must map to the same affinity key |
| **multishard_tx** | versions of six keys, five transactions in flight | `main`, `poll_tx_completion` | store with 3 shards | validation order, atomic commit over shards |
| **multiple_object** | version of the last write | `main`, `write_objects` | store | previous-version checks |
| **cache_test** | the server's cache | client commands, `ocdpo_handler` | store, worker pool | a check may be handled before the caching it follows |
| **shortcut_test** | one object | client commands, `ocdpo_handler` | store | a get inside the handler may see an older version |
| **p2p_send_debug** | lines in cerr | `debug_setup`, `debug_experiment`, UDL handler | store, 4 workers, scripts | lines of concurrent workers mix |
| **udl_get_debug** | timestamp log | UDL handler, `get_latencies.py` | store, 4 workers | entries of concurrent workers are paired by position |
| **udl_microbenchmark** | timestamp log | client, UDL handler, `get_latencies.py` | store | pairing by object id, ids that start again in every run |
| **new_blob_generator** | none | source and destination UDL, client script | store, pools | pools created in quick succession |
| **objpool_bug**, **timestamping_test**, scripts, configuration | none | command lines | Cascade's own tools | - |

For each component, what makes it correct:

* **cbdc**: every transfer is between distinct wallets, funded in whatever order
  the transfers are executed, and the expected values are what the transfers
  yield; generation ends; a saved workload loads as the same workload.
* **affinity client and UDLs**: a UDL finds every part the configuration
  announces; a run measures the configuration it is labelled with; a latency that
  is reported belongs to an object of that run; the client ends even when
  notifications are lost; a handler that groups by category finds the category's
  data on its own shard.
* **multishard_tx / multiple_object**: exactly the transactions that the comments
  of `main` name commit, and a transaction commits on all its shards or on none.
* **cache_test / shortcut_test**: what a check or a get may observe, given the
  order in which workers run.
* **latency logs**: a latency is the difference of two timestamps of one object.

## 2. Plan

1. `CBDCWorkload` (done): `generate()`; `CBDCLedger`, the abstract ledger it
   implements; `CBDCWorkloadProofs`, `CBDCMoneyProofs` (which begins with what is
   needed of sums), `CBDCAccountsProofs`.
2. `AffinityLogic` (done): `affinity_logic` on keys as pool, category and name;
   co-location of what the category UDL touches for every hash, as a theorem.
3. `PipelineSetup` (done): configuration and data puts of consecutive, overlapping
   and crashing client runs; `PipelineSetupProofs`.
4. `AffinityPipeline` (done): a client run with its listener thread, the three
   UDLs, UDP and late notifications of an earlier run, on top of `PipelineSetup`,
   whose specification it implements; `AffinityPipelineProofs`.
5. `CBDCWorkloadFile` (done): `generate_workload` as a whole: `generate()`,
   `to_file()`, a write cut short, `from_file()`; `CBDCWorkloadFileProofs`.
6. `MultiShardTx` (done): the two tests of atomic writes, on a store that is shown
   to implement the abstract `SerialStore`; `MultiShardTxProofs`.
7. `UDLWorkers` (done): handlers of one server run by several workers; what
   cache_test and shortcut_test observe, and what the scripts of udl_get_debug,
   udl_microbenchmark and p2p_send_debug conclude from the log entries;
   `UDLWorkersProofs`.
8. More proofs (done): `MultiShardTx` implements `SerialStore`, and the
   outcomes that follow; clients of `PipelineSetup` in turn; the sums of `CBDCWorkload`
   and that it implements `CBDCLedger`; what may be concluded from the logs of
   `UDLWorkers`; that a saved workload loads as the same, and a cut one as the same up
   to the cut. What TLC checks and no theorem states is liveness.

## 3. `CBDCWorkload`: generating transfers

`generate()` builds a `std::list` in which every wallet appears
`TransfersPerWallet` times, shuffles it, and walks it in a circle: for each
transfer it picks `SendersPerTransfer` and then `ReceiversPerTransfer` wallets,
skipping wallets already picked and erasing the nodes it picks, while it updates
the expected value of every coin.

| Code | Model |
|---|---|
| list node; `wallet_list`; `next_wallet_it`; `started` | number in `Nodes`; set `live`; `cursor`; `started` (`End` is `end()`) |
| shuffled contents | `owner`, chosen in `Init` (the seed fixes it); every arrangement is considered |
| `picked`, `transfer`, `transfers` | `picked`, `senders`/`receivers`, `transfers` |
| `expected_final_values` | `expected`, a total function; an entry the map does not have is 0 |
| `wallets` | `Minted` and `CoinsOf`: it never changes after minting |
| lines 16-51 | `Prepare` |
| loop guard, new transfer | `StartTransfer`, `Finish` |
| one circular increment | `SkipPicked`, or `GiveUp` when the comparison with `started` holds |
| pick, debit or credit, erase | `PickSender`, `PickReceiver` |
| throw | `NotEnoughFunds`: `pc = "failed"`, debits stay |
| `transfers.push_back` | `PushTransfer` |

`coin_value_t` is 32 bits wide; the models use `ValueModulus` in its place, and the
proofs hold for every width. Coin values and ids are numbers; wallet ids are
numbers because coin ids are dealt in their order.

**The comparison with `started`.** The first wallet a transfer picks is the one
under `started` (nothing is picked yet, so nothing is skipped) and its node is
erased. Every later comparison is therefore with an invalidated iterator
(`StartedIsErased`, proved). The language leaves its outcome open; in a libstdc++
release build it compares node addresses, no node is allocated meanwhile, and it is
always false. `DanglingCompare` is the set of outcomes: `{FALSE}` for that build,
`{TRUE, FALSE}` for what must hold in any case.

**The abstract ledger** `CBDCLedger` executes whole transfers in one step each,
every one funded and between distinct wallets. The refinement mapping takes the
transfer under construction back out of the expected values (`Settled`), so that
a transfer takes effect on the ledger when it is pushed.

Properties:

* `CursorLive`, `StartedIsErased`: iterators. The first is what makes lines 61, 74,
  115 and 128 safe, and rests on the loop guard counting enough nodes.
* `TransfersWellFormed`: distinct wallets, right numbers, coins of the senders.
* `AppearancesAccounted`: an erased node is a part in a transfer, no more no less.
* `ExpectedMatchesTransfers`: the expected values equal executing the transfers,
  also in the middle of one.
* `NoMoneyCreated`, `NoMoneyLost`: what all wallets hold of a coin.
* `FundedInAnyOrder`: a benchmark that reorders the transfers overdraws nothing.
* `NeverShortOfFunds`: `coins * (initial / (value * receivers)) >= transfers` is
  enough for `generate()` never to throw.
* `TransferCompletes`: a transfer started with enough different wallets in the list
  completes; `StuckForever`: once no candidate is left it never does. Together they
  say exactly when `generate()` hangs.
* `ImplementsLedger`.

Runs:

| Run | Instance | Shows |
|---|---|---|
| `cbdc_repeats` | 4 wallets twice each, 2 coins each worth one transfer, 1 sender, 1 receiver, `{FALSE}` | all of the above that depends on the build; every one of the 2520 shuffles, stuck searches included |
| `cbdc_any_compare` | 4 wallets twice, 2 senders, 2 receivers, product wraps (5*2 mod 8), funds run out, `{TRUE,FALSE}`; the file as in section 4 | what holds whatever the comparison yields; `GiveUp` and `NotEnoughFunds` fire |
| `cbdc_hangs` (violation) | 3 wallets twice | `Terminates` fails: two nodes of one wallet are left, one is picked, and the search skips the other for ever. `generate_workload -w 3 -t 2 -g 8` does hang |
| `cbdc_amount` (violation) | 2 senders, 1 receiver | a receiver gets `-v` from every sender, not `-v` |

Bounds: three or four wallets with two nodes each are the smallest lists where a
wallet's second node is skipped, left over, or the only one left, on either side
of the cursor; two coins make the choice of the first coin that is worth enough
matter; the modulus 8 wraps with the values used.

Fairness: `generate()` runs in one thread without blocking, so it keeps taking
steps: `WF_vars(Next)`.

**What is proved**, for all parameters that satisfy the named assumptions:

* `CBDCWorkloadProofs`: type correctness, `CursorLive`, `StartedIsErased`,
  `TransfersWellFormed`, and, when `DanglingCompare = {FALSE}`, `StuckForever`.
  `TypeOK` is not inductive: `PickSender` reads the owner of the cursor's node, so
  the cursor must be in the list, which needs the list to be long enough for what
  the transfer still picks. `IInv` adds that (`ListInv`) and what is known of
  `started` (`StartInv`); `PartsInv` adds the shape of the transfer being built, for
  `TransfersWellFormed`. That a non-empty set of naturals has a least element
  (`MinInSet`) comes from the library's well-founded ordering of finite sets.
* `CBDCMoneyProofs`: `NoMoneyCreated` without further assumption; `NoMoneyLost` assuming
  `NeverGivesUp` (`DanglingCompare = {FALSE}`) and that `-v` times `-r` does not wrap
  around (`ValueIn * ReceiversPerTransfer = TransferValuePerWallet`); the run
  `cbdc_repeats` satisfies both. `PaymentsInv` says what the transfer being built has
  taken and given, and with which coins; `Held` is what it has taken of a coin and not
  given yet, so that worth and what is held are at most (`WorthInv`), or exactly
  (`ExactWorthInv`), what was minted. Neither property is inductive without it: between a
  debit and its credits the money is in nobody's account.
* `CBDCAccountsProofs`: `ExpectedMatchesTransfers`, `AppearancesAccounted` and
  `ImplementsLedger` assuming `NeverGivesUp` (a search that is given up leaves its
  debits behind without a transfer); `FundedInAnyOrder` without further assumption:
  a wallet pays only with coins minted to it, and these it never receives (`FundsInv`),
  so what it pays of one in all transfers is at most what was minted, which does not
  depend on an order; `NeverShortOfFunds` assuming `TransferValuePerWallet > 0 \/
  CoinsPerWallet > 0` (with neither, `EnoughFunds` divides nothing by nothing): a wallet
  takes whole payments from its coins, at most one for each of its erased nodes
  (`SpendingInv`), so if every coin were too small all its appearances would be used up.
  For `ImplementsLedger` a step is shown to be a step of the ledger (`PushTransfer`,
  `Prepare`) or to leave `Settled` alone (all others).
* The lemmas on sums at the start of `CBDCMoneyProofs`: the value of a sum with an element more or less, of equal terms, of
  zeros; order does not matter. The sums of `CBDCWorkload` are `SumFunction`s, which
  the community modules define through a function chosen by its recursive equation, and
  the induction is by a smallest counterexample among the subsets of a finite set, which
  exists because strict inclusion is well founded there: that is a fact about a set, not
  about an operator, so the provers can use it.

**Only model-checked**: `TransferCompletes`, which is liveness.

**Abstracted**: whether an entry of `expected_final_values` with value 0 exists in
the map; the random generator (every shuffle is possible); the case that no
transfer has any wallet (`-s 0 -r 0`), which the assumption excludes: it appends
empty transfers for ever.

## 4. `CBDCWorkloadFile`: saving and loading a workload

The main program of `generate_workload` generates, saves and ends; a benchmark
loads the file. The module extends `CBDCWorkload` with both, so that what is saved
is what `generate()` really made. Nothing runs beside `to_file()` and `from_file()`:
they are functions, from the workload to the files it may leave, and from a file to
what is loaded.

| Code | Model |
|---|---|
| options of `generate_workload` | the constants |
| the zipped text file | the sequence of the numbers in it |
| `to_file()` | `ToFile`: the set of `Text` and of what fits of it (`Fitting`) |
| `from_file()`, its loops | `FromFile`; `ReadWallet`, `ReadTransfer`, `ReadParty`, `ReadCoin`, `ReadExpected`, each an iteration, under `Repeat` |
| `fin >> ...` | `Read` |
| `m[key] = value` | `Put` |
| local variables, the object returned | the fields of the record that is passed on |

`to_file()` never looks at its stream: with a full disk the file ends anywhere,
inside a number too (which then has fewer digits: `Radix`), and the program prints
"done". `from_file()` does not look either. Behind the end of the file `>>` leaves
its variable untouched; the variables are declared anew in each iteration, so
reading them is undefined. They are taken to hold what the last read of that
statement put there, and before that any of `Leftovers`.

* `LoadsWhatWasGenerated`: a complete file loads as the workload generated, to the
  last number. The file has no field names, so this says that the two functions
  agree on every count.
* `BeforeTheCutAsGenerated`: a truncated file loads without an error, with as many
  transfers as the header promises, and the transfers before the cut are as
  generated: a benchmark finds out only when it reaches the cut.

Both are in the run `cbdc_any_compare`: two senders and two receivers, change in the
receivers' coins, all shuffles. `FullAt` has a cut in a wallet and between two, in a
sender, in a receiver, between transfers, in the last transfer and in the expected
values. A file cut inside its header loads with parameters and counts that nobody wrote:
nothing is claimed of it.

**Abstracted**: an entry of `expected_final_values` that is 0 in an account nothing was
minted to (see section 3); compression, whose own framing may lose more of the end.

**What is proved** (`CBDCWorkloadFileProofs`, for all parameters, every shuffle, every
width of a value and every content of variables that were never written): both
properties, `LoadsWhatWasGenerated` and `BeforeTheCutAsGenerated`, the latter for every
place where the disk may be full and every radix. The assumptions are those on the
constants.

* They are not consequences of the types. The file does not delimit the parties of a
  transfer, so it can be read back only if every transfer has as many as the header
  says: `LengthsInv`, which is inductive with `IInv` and `PartsInv` of
  `CBDCWorkloadProofs` (`LengthsHold`).
* A loop of `from_file()` is a fold of an iteration over `1..n`. A fold passes through
  states (`FoldReaches`), each the iteration applied to the one before
  (`ReadCoinRepeated` and the like), and what holds for all of them is shown along
  these states. This is induction over a set of numbers (`NatInductionInSet`), never
  over an operator, which is why the prover can do it.
* Each iteration has a lemma on its effect: what it touches, whatever the file has
  (`CoinFrame` to `ExpectedFrame`), and what it reads when the text of one thing lies
  ahead of the reader (`Ahead`). The second does not depend on what the variables held
  before: that is where `parties` and `coins`, declared anew in each iteration, matter.
* Each text is put together from pieces, one for each thing (`Joins`, `FlattenJoins`).
  Iterations that each read one piece read the pieces one after the other, as far as
  they lie in the file (`PiecesRead`), so `CoinsRead`, `PartiesRead`, `TransfersRead`,
  `WalletsRead` and `ExpectedRead` follow from the effect of one iteration.
* A cut file is the text up to some number, with at most one shorter number behind it
  (`CutAt`, `FileAgrees`). What lies before the cut lies in the file (`LiesInFile`) and is
  read as it was written; what is read behind it leaves it alone, by the frames
  (`FileIsLoaded`). A complete file is the case without a cut (`WholeFile`), where the
  readers arrive at the end with everything: coins dealt in order of their ids are those
  minted in each wallet (`AllCoinsDealt`), and the entries of the accounts listed are a map
  of them.

**Only model-checked**: nothing.

## 5. `PipelineSetup`: preparing the store

Every run of `pipeline_client` compares its command line to the configuration
objects in the store, updates them, and puts the data parts it takes to be missing.
Several runs, in turn or at the same time, share the store, and the UDLs of all of
them read it.

| Code (`pipeline_client.cpp`) | Model |
|---|---|
| objects under `/config` | `config[<<kind, "size" or "num">>]`, `Absent` for none; `registered` for `/config/client_` |
| parts under `/entry/data_` and `/category/data` | `parts[<<kind, category, index>>]`: the size put last, or `Absent` |
| command line | `want[c]`, chosen in `Init` |
| `entry_parts_to_put`, `parts_to_put` | `toPut[c]` |
| `list_keys`, line 94 | `ListConfig` |
| lines 96-99 | `PublishField`, a put per step |
| lines 103-113 and 116-126 | `CompareSize`, `PutSize`, `CompareNumber`, `PutNumber`, with `kind[c]` first `"entry"`, then `"data"` |
| line 128 | `Register` |
| lines 134-145 | `PutPart`, `NextCategory` |
| rest of `main` | `RunBenchmark` (refined by `AffinityPipeline`) |
| `get_config_int` on a missing object | `Fail`: the process is dead |

The assignment to `toPut` after the put of a number (lines 106-107) is made in the
step before it: nothing outside the client reads it, and if the client dies between
the two it never puts anything.

How clients overlap is the environment's choice, `Overlap`: `"never"` is
`cloudlab-client-all.sh`, which waits for each run; `"configured"` lets clients
start while others run as soon as the configuration is complete; `"always"` lets
them start at any time. `MaxCrashes` clients may be killed during setup.

Left out: object pools (every client makes sure that all exist before it lists the
configuration, and nothing removes one); the bytes of the parts.

Properties:

* `MissingPartHasPutter`, whatever the overlap and the deaths: a part that is
  announced and missing is one that some client is about to put, or was when it
  died. It says exactly what the code relies on when a client skips parts because
  the configuration says that they exist.
* `PartsComplete`, for `"configured"` overlap without deaths: no client dies of a
  missing configuration object, and no part is missing once no client is in setup.
* `ReadyToServe`, `OneSizeServed`, `NumbersGrow`, for clients in turn: what a
  client leaves setup with. `OneSizeServed` needs all clients to want one size: after
  a change of size the code puts as many parts as the command line asks for and
  leaves the number alone, so parts of the earlier size may remain.
* `MeasuresWhatItReports` fails, see the findings.

| Run | Instance | Shows |
|---|---|---|
| `setup_any` | 2 clients, overlap `"always"`, 1 death, four command lines | `TypeOK`, `MissingPartHasPutter` |
| `setup_in_turn` | 3 clients in turn, every pair of numbers of parts 0..2, and two sizes | `NumbersGrow`, `ReadyToServe`, `OneSizeServed` |
| `setup_labels` (violation) | 2 clients in turn | a client is served with numbers of parts other than those it heads its results with |

Bounds: two clients show every conflict between two; the third in turn is the one
that meets what two earlier ones left. Two categories make the loop over categories
take both its branches. The numbers 0, 1, 2 are fewer, equal and more.

**What is proved** (`PipelineSetupProofs`, any numbers of clients, categories and
parts, any `Wants`): `TypeOK` and `MissingPartHasPutter` without further
assumption; `PartsComplete` assuming `Overlap # "always"` and `MaxCrashes = 0`;
`ReadyToServe`, `OneSizeServed` and `NumbersGrow` assuming `Overlap = "never"` and
`MaxCrashes = 0`.
`TypeOK` is not inductive: the loop indices stay in range because of where a client
is, which is `ShapeInv` (one predicate `ClientOK` per client). For
`MissingPartHasPutter` the invariant is `AccountInv`: every announced part is
accounted for (there, or upcoming), and so is every part that a client that has
decided what to put skips (`SkippedInv`): the latter is what carries the argument
over `PutNumber`, which announces parts the client does not put. `StaysAccounted` says
that accounted parts remain so through every step of every client. `ConfigInv` says
that the configuration is complete, or that a single client is publishing it, field
by field. For clients in turn, `TurnInv` says that one at most is under way and what it has
made of the configuration by where it is (`PastSize`): the others wait, so what it
compared is still so when it puts. `OneSizeInv` adds that with one size no part is of
another and no number below what was asked for is passed over (`PastNumber`).

**Only model-checked**: nothing; no liveness is stated here.

## 6. `AffinityLogic` and `AffinityPipeline`: the benchmark

`AffinityLogic` maps a key (pool, category, name) to its affinity key, for each of
the three values of `AFFINITY_LOGIC`. Cascade's hash of affinity keys is the
constant operator `Home`: a theorem that does not mention it holds for every hash.

`AffinityPipeline` extends `PipelineSetup` with the rest of the program:

| Code | Model |
|---|---|
| `main`, `benchmark` | `run`, `sent`; `StartBenchmark`, `PutObject`, `StampObject`, `StopListening`, `Join` |
| `put_object`: put, then take the time | `PutObject` and `StampObject` are two steps: an answer may come in between |
| `listen_notifications` | `listener`; `Bind`, `CheckStop`, `Receive`, `ReceiveTimeout` |
| `stop_listen` | `stop` |
| `obj_cat`, `obj_node_id`, `rcv_timestamps` | `received[c][id]`; `positive` when the send timestamp was taken first |
| `EntryObserver`, `CategoryObserver` | `EntryHandler`, `CategoryHandler` (read the number, send the gets), `GetPart` (a get is answered), `PutInCategory`, `PutOutput` |
| `ReturnObserver`, `notify_client` | `ReturnHandler`, which adds a message to `net` |
| UDP | `net`, a set; `Lose`; a message may stay in it for any time, past the end of its run |
| `get_my_id` | `NodeId[c]`: consecutive runs from one node share it |
| `scripts/common.py` line 57 | `Counted` |

Every object has its handlers in a worker of its own: handlers of different objects
interleave freely, which includes every number of workers. `PipelineImplementsSetup`
(a theorem) says that the pipeline does to the store only what `PipelineSetup` does.

External, as the source uses it: a get of a key without an object returns an object
without bytes, so a handler that misses a part goes on with a hash of nothing, and
`get_config_int` brings its process down; `put_and_forget` triggers the next UDL
exactly once; a message arrives at most once, at a socket of the node it was sent to.
The category an entry handler computes may be any: it is a hash of the object's and
the parts' bytes, and those of the parts are read after the object that held them
is destroyed (`entry_udl.cpp:47`).

Left out: a `bind` that fails (two clients with one node id at the same time); a
client that is killed after setup; what a server that has crashed does to other
objects (the object's stage is `"crashed"`; `NoHandlerCrashes` says when it never
is); rates and waiting times, so a client may stop waiting at any moment after its last
put, which includes both `CLIENT_SHORT_WAIT` and `CLIENT_LONG_WAIT`.

Properties:

* `ReportsItsOwnObjects`: what a run counts for id *i* is about the object *i* it put
  and has the category computed for it. It holds when node ids differ and fails
  for consecutive runs from one node, see the findings.
* `ReportsNodeWithData`, `ReadsAreLocal`: what grouping by affinity key is for.
* `MissesOnlyDuringSetup`: handlers may read a number of parts that a client in
  setup has raised before it put the parts; once no client is in setup, no get
  misses, not even one sent earlier.
* `NoHandlerCrashes`.
* `EveryRunEnds`, `EveryObjectReturns`: liveness.

| Run | Instance | Shows |
|---|---|---|
| `pipeline_overlap` | 2 clients with node ids of their own that want fewer parts, more, or another size, overlap `"configured"`, 2 categories on 2 shards, 1 object each | the safety properties, `PartsComplete` included |
| `pipeline_in_turn` | 2 runs from one node in turn, one of which may be killed in setup, 1 category | liveness |
| `pipeline_late` (violation) | 2 runs from one node in turn | a late notification is counted by the wrong run |

Bounds: an object per client suffices for every interleaving of two objects'
handlers with the other client's setup; ids beyond the first only repeat `benchmark`'s
loop, which the proofs cover for any number. Categories 0 and 1 live on different
shards and the entry parts on another than some of the data.

Fairness (`FairPipelineSpec`): weak fairness of each client's main thread, of its
listener, and of the handlers of each object. The first two are threads that are
never blocked for ever (`recvfrom` has a timeout, `ReceiveTimeout`); handlers run in
Cascade's workers, and gets are answered. Nothing makes a message arrive. `Kill` is
not fair: no client needs to die. A death in setup can bring a server down
later: when the client died after putting a size and before putting the number, a
client that wants another size replaces the size without looking at the number, and
its objects meet a configuration without it. `EveryObjectReturns` allows that case
and no other, and the run reaches it.

**What is proved** (`AffinityPipelineProofs`, any numbers of clients, objects,
categories and parts, any `Home` and `Wants`): `PipelineTypeOK`, `ReadsAreLocal`,
`ReportsNodeWithData`, `CategoryOnOneShard` and `PipelineImplementsSetup` without further
assumption; `ReportsItsOwnObjects` assuming that node ids differ; `NoHandlerCrashes` and
`MissesOnlyDuringSetup` assuming `Overlap # "always"` and `MaxCrashes = 0`. The invariants: `MainInv`
(objects are put in order, after setup: only an unsent object is put), `ObjectInv`
(a handler asks for parts of its own kind and category), `BoundInv`, the invariants of
`PipelineSetupProofs`, all of them together `PipeInv`; `AskedInv` (the parts a handler waits
for are accounted for, by `StaysAccounted`, whatever the configuration says by now);
`ReportInv` (a message or result agrees with the object it is about, which has
returned and does not change any more).

**Only model-checked**: liveness, which is out of the prover's reach.

## 7. `SerialStore` and `MultiShardTx`: atomic writes

`tx_test.cpp` puts six keys on three shards twice, sends five transactions without
waiting between them, and polls for each outcome. `multiobj_test.cpp` writes the
objects of one shard four times and waits for each write. A comment in each says
which of them are to fail, and nothing in the program checks it.

| Code | Model |
|---|---|
| `version_map`, `version` | `versions`, `Written` |
| `put_object`, called twice per key | `PutObject` (`puts`, `PutsPerKey`) |
| `tx1_objects` to `tx4_readonly_objects`, `key_list` | `Writes`, `ReadOnly`, `Named`: the version a transaction names for a key; `INVALID_VERSION` is -1 and means any |
| `capi.put_objects(...)` | `SendTx`; `WaitsForEach` for `write_objects`, which waits |
| `poll_tx_completion` and the line printed | `Report` |

The store is external. A transaction goes along the chain of its shards (`Prepare`):
each compares versions, keeps conflicting transactions waiting until it is decided
(`HeldBack`), and passes it on; the last one decides, and the decision comes back
(`Learn`). That is as much as the test's use of `PENDING`, `COMMIT` and `ABORT` and of
versions tells. What it does not tell is whether conflicting transactions are handled
in the order they were sent, so `inOrder` is chosen in `Init`.

`SerialStore` is what a client may expect: a transaction is decided at once, on all
its shards; it commits if every version it names is current and fails only if one is
not. The refinement counts a transaction as done when its last shard commits it, and
takes its keys as written (`SerialVersion`) although other shards do so later.

* `AnnouncedOutcomes`: abort, commit, abort, abort, commit, as the comment says, if
  the store keeps the order. `PutsPerKey` is why that holds on a fresh log too:
  with one put the wrong version of TX1 would be -1, which is accepted.
* `OneOfEachPair`: what is left of it on any store.
* `OnlyWrongUpdateFails`: the failed write of `multiobj_test.cpp` leaves no trace.
* `EveryTestEnds`: transactions that wait for each other on several shards do not
  wait in a circle: every chain has the same direction.
* `ImplementsSerialStore`.

The run `transactions` checks all of them for both tests, both kinds of store, and logs
that start empty or not. `multiple_object` writes two keys here, three in the code: the
second key already shows that a write is not partly applied.

Fairness (`FairSpec`): the client is one thread that only waits for the store, and every
shard gets to what it may decide: weak fairness of the client and of each `Prepare`
and `Learn`. Nothing fails in these tests, so no crash of a shard is modelled.

**What is proved** (`MultiShardTxProofs`, for both tests, both kinds of store and every
log a store may start with): `TypeOK`, `ImplementsSerialStore`, `OneOfEachPair`,
`AnnouncedOutcomes`, `OnlyWrongUpdateFails`. The invariant of the store is `IInv`:

* `OnePassInv`: a transaction goes along its chain once, and its decision comes back the
  same way, so that at any shard before it is known further on;
* `LockInv`: a transaction that is not decided keeps conflicting ones out: what was
  compared is still so, and what it is to write is newer than what is there;
* `VersionInv`: every version is one the log has given out.

For the refinement every step is one of three: it commits a transaction on its last
shard (`Commits`: every version named is current in `SerialVersion`, on all the shards,
because of `LockInv`), it aborts one at a shard that has found a version out of date,
or it changes nothing that `SerialStore` sees (`Learn`: the keys that a shard installs
late already counted as written).

The outcomes rest on this view of a step more than on what shards do: `PutInv`
(a key has its put's version until a writer of it commits), `NamesInv` (what the
transactions name), `PairsInv` (what they decide for each other); `OrderInv` for a store
that keeps the order; `ReportInv` (what is printed is the decision and does not change).
`ObjectsInv` goes through the four writes of the other test.

**Only model-checked**: `EveryTestEnds`, which is liveness.

## 8. `UDLWorkers`: handlers that run at the same time

Five small programs have the same structure: a client puts an object and waits for the
reply; the put triggers a UDL, which one of several workers of the server runs some
time later, possibly beside others. `program` is the one that runs.

| Code | Model |
|---|---|
| commands, requests, runs of the client | `commands`; `CacheCommand`, `StoreCommand`, `NextRequest`, `StartRun` |
| `put_object` waits for the replies | `WaitsForReply`, `flight` |
| store, triggers, workers (external) | `Apply`, `queue`, `Take`, `running`. Which worker gets a trigger is open, as Cascade's choice is not in the repository |
| `dfgs.json`: which pools have a UDL | `Triggers` |
| `cache_udl.cpp` | `CachePut`, `IsCached` |
| `shortcut_udl.cpp` | `LocalGet`, `PrintObject` |
| the `log` calls of `debug_udl.cpp` and `requester_udl.cpp`, the lines of p2p_send_debug | `Log`, an entry of `Entries` per step; the handler returns in `EndRequest`, at once when `Total` is 0 |
| `get_latencies.py`, by position | `Timestamps`: the positions in the log of the entries in one array; `Row`: where in the array one is; `Count`: its length; `Subtractable`: numpy takes arrays of one length, and broadcasts one of length 1; `Subtracts`: the script gets to its output |
| `get_latencies.py`, by id | `Kept` |

Times are left out: an entry carries the request it is of (`by`), so a latency is right
when its two entries are of the same request. The server is one node, as in the layout
files; its cache is large enough for the objects of the test.

* `MissesOnlyWhileCaching`: when a check says "not cached" of an object that was to be
  cached before, the handler for that has not finished. It needs every put to trigger
  its handler and the client to wait for its puts.
* `LocalGetCorrect`, what the description of the UDL calls a test of: a check prints what the
  last store before it put, or a later one.
* `MeansAreTrue`: udl_get_debug pairs entries by position and with several workers
  subtracts times of different requests. The two means it prints are right all the
  same, at nearly every moment the log may be dumped, because every handler logs its
  tags in one order: arrays of one length hold the same requests, and numpy refuses to
  subtract arrays of different lengths (lines 31-32) unless one has a single element,
  which it subtracts from, or by, each element of the other. That is the exception the
  property names: a single request has finished its get, others are under way (entries
  per tag 2/1/1 or 2/2/1), and the script prints one mean that is wrong, never
  two. TLC finds the property violated without the exception, so the program does
  print such a mean; nothing in the repository says it should not, so this is no
  finding. (Standard deviations are not right whenever handlers overlapped.)
* `AloneIsMeasuredRight`: a request that was handled alone is paired with itself by
  position, whatever was handled before and after; so is a run of udl_microbenchmark
  that was handled last, by id, once no run goes on; and the lines of
  p2p_send_debug are whole.

A line of p2p_send_debug is three entries, its head, its numbers and its end, so
handlers that overlap mix within a line as well. In the code (lines 55-66) the id and
each of the 100 numbers have a `<<` of their own; what comes between two of these
mixes lines just as what comes between head and numbers does, and
`AloneIsMeasuredRight` is about handlers that nothing comes between.

The run `workers` has two workers and three requests: two that overlap and one that
does not, in every order. udl_get_debug has a third worker, for three requests that
overlap in a chain, and `Total` is 2, so that runs of udl_microbenchmark overlap in
different iterations. p2p_send_debug has two requests, whose nine entries each are
interleaved in every way; that two which overlap leave the lines of a third alone is
left to the proof. The interactive programs have four commands on two keys. In the code
two or four workers are configured.

No liveness: a handler waits for a get that Cascade answers, and nothing in these
programs waits for a handler.

**What is proved** (`UDLWorkersProofs`, any numbers of workers, commands, keys and gets):
all five properties, without further assumption. `FlowInv` says that a command is in one
place (on its way, in one queue, with one worker, or done) and that only the last one is
on its way, which is what `WaitsForReply` is for. On it rest

* `CheckInv`: what is cached and stored are the latest that was applied, a handler that
  has got an object has one no older than the last store before its check, and so have
  the answers (`LocalGetCorrect`, `MissesOnlyWhileCaching`);
* `EntriesInv`: the entries a request has in the log are the first of its `Entries`, in
  their order (`Placed`), whatever comes between them. A request that has the last tag
  has those before it, and has each once, so each array has as many entries as
  requests; the requests of a later tag are among those of an earlier one, and two
  finite sets of one size, one of which is part of the other, are the same. Sizes that
  differ are subtracted only when the later tag has one entry, and then the last tag
  has one too; when no handler runs all sizes are equal (`MeansAreTrue`);
* `AloneInv`: while a handler runs that no other has run beside, its entries are the
  last of the log, and what precedes them is of finished requests only and ends one
  (`Solo`). Entries are only appended, so this remains (`AloneIsMeasuredRight`): what
  precedes has as many entries of one tag as of another, those of the request are in the
  next row of each array; those of a last run are the last of their ids; the lines come
  after a whole line.

**Only model-checked**: nothing.

## 9. Definitions named `...Slip`

A definition whose name ends in `Slip` is the definition after it with one
plausible mistake. It is not part of the specification; replacing the definition
by it makes TLC report the property listed under "mutants" in `PROJECT.json`.

## 10. Not modelled

See "components" in `PROJECT.json` for the reason in each case.

* `new_blob_generator`, `objpool_bug`, `timestamping_test`: one call each into Cascade,
  or command lines of its tools; what could go wrong in them is inside Cascade.
* Times: rates, sleeps, timestamps as numbers, hence throughputs and standard deviations.
* `local_get.py`, `tag_latency.py` and the plotting scripts: statistics over files that are
  written elsewhere.
* Random buffers, CPU affinity, shell scripts, CMake files, configuration.
