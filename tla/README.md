# PyPPS: specifications, model checking and proofs

PyPPS (`src/docx/Script`) is the Python framework in which validation patterns
for UFS storage devices are written. A pattern runs on a host, builds packages
of commands, and hands them to a *tester*, a hardware box reached through a
closed SDK (`Script.lib.sdk_lib`), which talks UFS to the device under test.
The same repository holds a retriever (`src/auto_pattern_gen`) that searches a
wiki of patterns and keeps an index of embeddings on disk.

The framework has one thread per pattern, but nearly all its state is
module-global and outlives the call that changed it, every call may raise
half-way, the tester answers out of order, and the books it keeps (which blocks
were written with what, which response belongs to which command, what speed the
link has, which counter the RPMB expects) are what a pattern's verdict rests on.
A wrong book is a wrong verdict about a device. The specifications aim there.

Contents: 1 inventory, 2 the modules and how they correspond to the code,
3 the runs, 4 assumptions and fairness, 5 the proofs, 6 findings and
observations, 7 what is not modelled, 8 what is left.

## 1. Inventory

Paths are below `src/docx/Script/api` unless they start with `src/`.

| Component | Source | State it keeps | Operations | What makes it correct |
|---|---|---|---|---|
| Command-sequence executor | `cmd_seq/executor.py`, `_buffer_manager.py`, `_cycle_tracker.py`, `protocols.py` | the package (`_cmd_list`), running totals, the task-tag counter, data and pattern mode, three content flags, the sent flag, cycle numbers, the buffer with its pointers, the depth limit | `enqueue`, `send`, `read_response`, `clear`, `set_qd_limit` | what is accepted can be sent; the tester parses what was listed; each command reads its own response; a sent package is frozen until cleared |
| Write record | `util/write_record` | per unit a sorted list of written extents and their data | save, lookup | the list agrees with the device, block by block |
| Task management | `ufs_api/task_management.py` | none; the index of the request and of its target | push abort, push query, two checks | requests hit the command meant; verdicts are the device's |
| Read/write helpers | `ufs_api/rw_functions.py`, `spor_functions.py` | none; drive executor and record | sequential and random write, read, compare, erase; writes cut by a reset | what was written is recorded, whatever raises; commands keep to the unit and the range; a comparison fails only for a reason |
| Link speed | `unipro_api/power_change.py`, `debug_cmd/dcmd5.py` | the cached speed and start-up mode | push a change, change, set the start-up mode | the cache is what the link runs at; no change is pushed that the link must refuse |
| Device initialisation | `ufs_api/initial_device.py` | cached number and capacities of the units | first init, init to unit ready | the caches are of the device that is attached |
| Attributes and flags | `ufs_api/attr_flag_functions.py` | none; one-command packages | read, write, set, clear, toggle | the executor is left clear |
| Tester firmware update | `util/mp.py`, `ufs_api/_mp.py` | tester and drive number of the process; files shared by processes | update firmware, rescan, run the production tool | results are of the process's own run; the drive is its own tester's |
| RPMB | `ufs_api/rpmb`, `adv_rpmb`, `perf_api/rpmb_perf.py` | a copy of the device's write counter, twice, and of its key | program key, authenticated write and read, performance runs | the copies follow the device |
| Persistent embedding index | `src/auto_pattern_gen/llm_wiki/retriever.py` | four files, no lock | build, load, query | an answer never uses embeddings of other texts |
| Retriever scoring | `src/auto_pattern_gen/llm_wiki/retriever.py` | none | tokenise, score, fuse | arithmetic |
| Commands, responses, layouts | `cmd_seq/cmds.py`, `response.py`, `ufs_api/upiu`, `descriptors`, `defines` | none | byte encodings | encodings |
| Vendor, debug, FFU, timeouts, device selection, performance | `vendor_cmd`, `debug_cmd`, `ffu.py`, `util/timeout`, `dut.py`, `perf_api` | argument structures, a singleton | single SDK calls and one-command packages | encodings |
| Patterns, self tests, project API | `src/docx/Script/pattern`, `self_test`, `project_api` | none that outlives a run | clients | - |

How they interact. Every helper enqueues commands into the one global package,
sends it, reads responses by *cycle indicator* (task tag and how often it was
used) and clears it. A helper that raises in between leaves the package to
whoever runs next. The write record is asked before reads are built and
updated after writes were sent, with nothing that ties the two together. The
initialisation sends, with its own commands, whatever a pattern left pending,
and fills caches (capacities, speed) that other helpers read much later. An
RPMB object is not alone with its device: a performance object has another one
inside and a counter of its own, and vendor commands change keys and counters
behind all of them. Processes of different testers meet in the files of the
update tool and in the drive numbers; builds and queries of the retriever in
the index files.

What is hard in it: answers in any order with task tags used more than once;
limits computed twice, from totals when a command is accepted and from
pointers when it is written; exceptions after half the assignments; an
in-place interval list edited while it is walked by index; a bisection that
uses 0 both as an index and as "nothing found"; a bound lowered for one unit
and still in force for the next; files replaced one by one under a reader;
caches written before the operation they describe; counters predicted for a
whole run. `PROJECT.json` lists each hazard at its line, with the properties
that would notice it.

## 2. Modules

`Executor` is the ground: `TaskManagement` extends it, `ExecutorRefinement`
shows that it implements `CommandPackage`, and `RwFunctions` is shown to use
the executor as `CommandPackage` allows. In the same way `WriteRecord`
implements the map `LbaMap`, and `RwFunctions` keeps the record as the set of
extents that `WriteRecord`'s list stands for. `DeviceSetup` and `Rpmb` take a
package as commands that are executed in any order but for the barriers the
code sets, and may fail after any part of them: what the executor leaves open.

### Executor

- `BufferLayout`: the address arithmetic of `_buffer_manager.py` as pure
  operators: entries of fixed size packed into groups they may not cross,
  payloads from a group boundary on, EHS in a buffer of its own. `EarlyFull` is
  the check of `enqueue`, `HasRoom` the one of the push loop.
- `Executor`: the state machine. `Enqueue(c)` is the whole of `enqueue` with
  `_auto_tune_param` and `increment_cycle`, including what each exception leaves
  behind: the modes fixed by a command refused later, the tag counter advanced,
  the command appended before its tag is rejected. `send` is several steps
  (`pc`): `Send` (checks, sent flag, data area), one `PushCmd` per command,
  `Transmit`, and the monitor, which ends in `MonitorSuccess`,
  `MonitorErrorWithInfo` (responses were returned) or `MonitorError` (none).
  `Clear` and `SetQdLimit` are the other calls. `read_response` changes nothing
  and is the pair `HasResponse`, `ReadResponse`. The tester and device are
  external (`TesterIssue`, `TesterFunction`, `TesterComplete`, `TesterAbort`):
  they start entries in order, keep at most the queue depth outstanding, never
  two with one tag, complete in any order, and answer a tester command's own or
  an aborted command's reply under a function code instead of a tag.
  Bytes are abstracted: an entry is the key it carries and the number of its
  command, so that a response can be compared with the command it answers.
- `CommandPackage`: what a pattern may rely on, without tags, cycles or
  buffers: a package is open, running or ended, nothing joins it once it runs,
  it ends, and the answer read for command *i* is the answer to *i*.
- `ExecutorRefinement`: the mapping, and `PackageSpec`. It covers packages with
  aborts, but for the answers behind an aborted command of the same tag, which
  move up (the map leaves the answers of that tag out).
- `TaskManagement`: extends the executor with `push_abort_task` and
  `push_query_task` (which turn an index into a tag) and a device that aborts,
  answers or refuses; the two checks of responses are operators.

### Write record

- `WriteRecord`: one unit. `SaveWrite` and `SaveUnmap` are
  `save_write_info_by_cmd`, together with what the command did to the device
  (external); then `save_write_info` runs step by step: `SearchStep` is one
  round of the bisection, and `ReplaceOld`, `RemoveOld`, `SplitOld`, `CutTail`,
  `CutHead`, `PutApart` are one round of its loop, case by case, with Python's
  indices and the `insert` flag. `Find`, `FindHit`, `FindMiss`, `FindEnd` are
  `find_record_to_gen_data_crc`; the CRC is abstracted to the pieces of extents
  it runs over.
- `LbaMap`: what the record promises, a map from blocks to data.
- `WriteRecordRefinement`: the list implements the map. While a save runs, the
  extents still to put overlay what the list says, so a loop round that
  disturbs any other block is a step the map does not have.

### Read and write helpers

- `RwFunctions`: all six helpers of `rw_functions.py` and `random_write_spor`,
  one call after another over several units. A call is `Call(r)` (the checks of
  its arguments, or the exception they raise), then `Draw` once per command of a
  random helper (the unit, the capped length, the bound that follows the unit,
  the start and its correction, the lookup of a read), `Chunk` once per command
  of a sequential one, or `CompareUnit`, `CompareNode`, `CompareSend` for
  `read_compare`, which goes through the recorded extents of every unit in up to
  four packages. `Execute` is the device (external): any order, and a comparing
  read may fail (`ComparisonFails`). `SendFails` and `PowerCycle` end a package
  part of which was executed; `SaveCommand` records one command of a package
  that went well. `Raise` leaves the package as it is, and `PatternClears` is
  the except block of a pattern, which may run or not.
  Three history variables serve the properties: `doubt` (blocks a package wrote
  that failed, was never recorded, or wrote them twice), `blame` (blocks on
  which a comparison failed), `verdict` (what `read_compare` said of a block).
  A read that expects nothing compares nothing; a hardware reset loses only the
  commands of the package, since what the device did before is durable.

### Link speed, initialisation, attributes and flags

- `DeviceSetup`: `PushSpeedChange` is `push_speed_change` (with the way through
  slow mode and gear 1 to another rate, and the refusal to leave high speed),
  `PushSwitchRefClk` the clock, sent at once or left pending. An initialisation
  is `InitTesterToUnitReady` (the link reset that is outside the package, the
  debug command with its timing of the speed change), then `ReadDeviceDescriptors`,
  `ReadUnitDescriptors` and `TestUnitsReady`, each sent with what is pending;
  `FirstInit`, `LinkStartup` and `ChangeToMaxGear` are
  `first_init_to_max_hs_gear`. `Query`, `QueryMatches` and `QueryMismatch` are
  the functions of `attr_flag_functions.py`, which differ in whether they clear
  the package before they check the response. The device (`Execute`, external)
  refuses what its link must refuse. `cache` and `known` are the module's
  globals, `hw` is the truth. `SetLinkStartupModeAndCheck` sets the mode in the
  tester and reads it back; the read may raise with the mode already taken.
  `doubt` is a history variable that names the caches the library leaves
  unconfirmed and goes on with (a failed or dropped package, a failed
  initialisation, a change pending across a reset, a start-up mode whose reading
  back raised), and `blind` marks a command pushed on such a cache or overtaken
  by a reset. Nothing in the code tracks either.
  `update_cache=False`, which nothing in the repository passes, is left out, a
  new configuration is pushed only into an empty package, and lanes go the way
  of the gear.

### Tester firmware update

- `TesterUpdate`: `MP.execute` in every process of a host, one per tester.
  `StartLoader` takes the lock of the directory and removes the old
  `SlotState.ini`; `LockTimeout`; `LoaderEnds` (with or without a record of
  success) and `LoaderFails`; the tester leaves the bus and `Reattach` gives it
  any free number; `CheckLoader` reads the record and releases the lock; `Scan`
  looks for the port; `CreateFolder`, `StartTool`, `ToolEnds`, `CheckResult` and
  `Retry` are the production tool in the folder of its port.

### RPMB

- `Rpmb`: the classes `RPMB` and `AdvRPMB` (a device is configured for one of
  the two, fixed in a behaviour) and `RpmbPerformanceClass`, as three users of
  one region: the pattern's object (`copy["rpmb"]`, `key["rpmb"]`), the
  performance object's own counter (`copy["perf"]`), and the object inside it
  (`key["inner"]`), whose counter is never used for a write. A call
  sends a package of request, result request and result (`RequestSent`,
  `Execute`), and takes the answer as the code does: `DataWritten` keeps any
  answer's counter, `KeyProgrammed` and `KeyNotProgrammed` differ in what they
  keep. A performance run draws its chunks (`DrawNext`, `DrawRandom`: the drawn
  block replaced by the last, a list that shrinks), and issues them with
  counters computed beforehand (`Issue`, `SdkFails`, `Executed`). `RpmbReset`
  makes the class's counter 0, and `ProgramKey` replaces the object's key,
  before the device is asked, as the code does. The history variables `told` and
  `taken` keep what the device said last (a counter) or took last (a key) of
  each object until somebody else may have changed it, and `lost` which of them
  the code has overwritten itself. Data and MACs are abstracted: a MAC is right when key and counter are. Lengths are in the
  blocks of 256 bytes.

### Embedding index

- `EmbeddingIndex`: a build (`build_persistent_embedding_index`) loads the
  chunks, opens (truncates) and writes the four files one after the other,
  hashes `chunks.jsonl` before the last of them (`HashChunks`), and may be
  killed at any point. It takes no lock, so any number of builds (`Builders`)
  may be under way at once and write into each other's files (`Mixtures`). A
  query (`from_chunks_file`, `PersistentEmbeddingIndex.load`,
  `LLMWikiRetriever.__init__`) reads chunks, manifest, hash, embeddings and ids
  in steps of their own and makes the checks where the code makes them.
  Contents are abstracted to the contents of `chunks.jsonl` they were made of.
  `chunks.jsonl` may be rewritten at any time with any contents, also with
  earlier ones (`Ingest`). The history variable `unseen` and the fields
  `rewritten` record the three things no check of a query can see.

Each `MC*` module defines the values of the constants for the runs. Operators
that differ from one of the model in the way a plausible slip would (named for
the difference, like `DataBeginRoundedDown`) stand next to the operator they
vary; nothing uses them, and each shows that some property notices that slip.

## 3. Runs

| Run | Shows |
|---|---|
| `executor_packages` | packages of one of two kinds. At the limits of the buffer and of the EHS buffer: what `enqueue` accepts always fits when pushed (`AcceptedFits`), entries, payloads and EHS do not overlap (`RegionsDisjoint`), and a tester that parses by the offset formula gets the list (`TesterSeesTheList`). With mixtures of data modes, pattern modes, HPB reads, READ BUFFER, EHS mismatches: sent packages are uniform (`PackageUniform`), and their option bits are right (`OptionsMatchPackage`) |
| `executor_attribution` | two tags for up to four commands, aborts, packages that fail after some answers, a tag out of range: each response read is the command's own (`OwnResponse`), success leaves one for every command (`SuccessAnswersAll`), a refused command is never sent (`RefusedNeverSent`), no answer survives into the next package (`FreshDoneQueue`), and the executor implements `CommandPackage`, liveness included (`PackageSpec`) |
| `task_management` | an abort hits the command at the index it was pushed for (`AbortHitsItsTarget`); the verdicts are about that command whatever raced (`VerdictMatchesAnswers`, `QueriedInFlight`) |
| `write_record` | any sequence of writes, unmaps of one or two descriptors, and lookups: the list is sorted and disjoint (`SortedDisjoint`), agrees with the device between calls (`RecordMatchesDevice`), lookups run over exactly the device's data (`LookupExact`), and the list implements `LbaMap`, whose calls return (`MapSpec`) |
| `rw_functions` | every helper, failing everywhere: commands keep to unit and range (`CommandsInRange`), the record is the device outside the blocks in doubt (`RecordMatchesDevice`), a comparison fails only on those (`FailsOnlyInDoubt`), what `read_compare` calls equal is, and it skips no recorded block (`VerifiedMeansEqual`), the executor is used as it allows (`UsesPackage`), and calls return (`CallsReturn`) |
| `device_setup` | changes sent or left pending, initialisations, configurations, queries, failures at every step: the caches are the link but for what a failure or a reset has left unconfirmed (`CacheIsLink`), no command pushed on a confirmed cache meets a link that must refuse it (`CommandsAreLegal`), capacities are of the device (`CapacitiesAreCached`), a first initialisation that returns has settled everything (`FirstInitSettles`), a call that has sent and ends leaves the package clear, but for failing sends and flag functions that raise (`ReturnsClear`) |
| `tester_update` | two processes, loads and production runs that fail, time out or leave no record, testers that come back under each other's number: the record read is the process's own (`VerdictIsOwn`), the tool runs on its tester (`DriveIsOwn`), the report is of its last run (`ResultIsOwn`), the firmware is the one loaded (`FirmwareAsLoaded`), calls end (`CallsEnd`) |
| `rpmb` | several objects, vendor commands, failing packages, stopping runs: what an object was last told and the device took of it is the device's, and the object has it but for two copies the code overwrites (`CopiesAreDevice`), no write is refused for a counter or key that is still as told and taken (`RefusedOnlyInDoubt`), the chunks of a run are in its range and apart (`ChunksAsAsked`) |
| `embedding_index` | builds at once, kills, rewrites in any direction and queries interleaved at every file: a query that passes its checks uses the embeddings of its chunks, but for three histories that leave nothing to check (`EmbeddingsAreOfTheChunks`): the chunks rewritten within the query or within the build of its manifest, two builds under way at once, the chunks back at what the manifest was made for, the last two until a build has come through alone |
| `task_management_doc`, `write_record_zero`, `embedding_index_doc` | counterexamples, see section 6 |

`TypeOK` is checked in the runs whose module has the most local state
(`executor_attribution`, `rw_functions`, `tester_update`).

### Bounds

- Sizes of the buffer (entry 72, block 512, group 8192, 62 MB) are scaled to
  entry 3, block 2, group 8, so that a group holds two entries and two bytes of
  padding and packages of up to six commands reach the second and third group.
  `executor_packages` has a buffer of four groups of which three are the
  minimum, so that the payload limit, the EHS limit and the entry limit are
  each reached first by some package of its capacity kind. Its packages of mixed
  modes are of up to three commands (`MaxModeCommands`). The other executor
  runs have room to spare and leave capacity alone. The proofs of section 5 hold
  for all sizes.
- `MaxCommands` (3 to 6) bounds the package. With two tags, four commands give
  a tag used twice next to one used twice; capacity needs six to pass a group.
- Tags: `TagCount` of 1, 2 or 4 instead of 256, so that the counter wraps. In
  `task_management` there are as many as commands: with a tag used twice the
  answer of an aborted command is taken from its successor (the exception
  written into `OwnResponse`), and a verdict by tag cannot be right.
- Five blocks give the write record every relative position of a new extent
  with neighbours on both sides; the list grows to five extents, so bisections
  take three rounds. One data value and the erased one tell a new extent from
  an old one of the other kind; the search and the loop do not read the data.
- `rw_functions`: two enabled units of three blocks and one, a disabled unit
  between them; requests whose ranges end below, at and beyond a unit, with
  lengths above the unit, and a wrong range. `MaxTransfer` (blocks per command)
  and `MaxChunk` are 2, so that a range takes several commands. `MaxCommands`
  bounds what failed calls may leave in a package; the executor's own limits are
  far beyond the 256 commands of a helper's package and are not modelled here.
  `MaxTag` bounds how often new data can be written.
- `device_setup`: two gears, two clocks, two configurations of up to two units,
  changes to high speed and to slow mode, initialisations with the change after
  the link start-up and without one; one command may be pending
  (`MaxPending`) besides those of the calls.
- `tester_update`: two testers of one generation and two drive numbers, so that
  they compete for the directories and can swap numbers; two scans and one retry
  take both branches of each loop.
- `rpmb`: two keys, counters to 4, a region of five blocks, runs of up to four
  entries (one request has more); eight requests: sequential and random, with
  and without overlap and alignment, one that fills its range exactly, one that
  runs out of blocks, one beyond the region. A run writes several entries,
  so predicted counters go wrong in the middle of it.
- `embedding_index`: two builders and two contents of the chunks with the same
  ids, so that the checks of ids and counts help least and everything rests on
  the hash; the contents may alternate for ever. The theorem is for any number
  of builders and any contents, also with different ids.

## 4. Assumptions and fairness

- Between calls a pattern may do anything: call in any order, also after an
  exception, with any of the run's commands. One pattern is one thread, so
  calls do not interleave; within a call the device does.
- The tester's behaviour is read off how `executor.py` uses the SDK. Its
  possible errors are all enabled whenever it runs.
- The refinement of the executor assumes weak fairness of the steps of a running
  `send` and of the tester (`Fairness`). The first is Python executing a
  function. The second is the tester making progress or the uniform timeout of
  `send` ending the wait: without a timeout argument `send` uses 30 s, so the
  monitor cannot wait for ever.
- `WriteRecord` assumes fairness of the steps of a running call, `RwFunctions`
  of `Steps` (a function being executed, and a `send` that ends, which the
  executor's refinement shows), `TesterUpdate` of `Step(t)` for each process:
  every step is code that runs on or a wait with a timeout. Calls, a missing
  folder and the return of a tester to the bus are not owed to anyone.
- Commands of different classes are reduced to what the executor branches on;
  the tester command has no payload and no EHS (`ExecutorAssumption`).
- `TesterUpdate`: ports of testers differ; a tester leaves the bus when its
  loader starts and only its own loads renumber it; processes are not killed;
  an exception in `communicate()` that leaves a loader running is not modelled;
  "no record" and "a record that is not Pass" are one value, as in the code.
- `Rpmb`: an answer to a write carries the device's counter also when it refuses
  (the code stores it in either case), and the SDK stops a run at the first
  entry that fails.
- `DeviceSetup`: a clock change outside LS-MODE is the pattern's to avoid; the
  run's patterns do.
- `EmbeddingIndex`: a file is torn from its opening to its closing, and
  reading a torn file raises (a truncated JSON document or array does). Two
  builds that write one file at once leave the content of one of them, a torn
  file, or, in the array of numbers, a mixture that loads. A half-written
  `chunks.jsonl` counts as one of its contents. An index directory is used with
  one backend and one model. There is one query at a time; queries write
  nothing.

## 5. Proofs

Eight modules hold proofs. They hold for every value of the constants that the
assumptions of the modules admit: every size of entry, block and group, every
number of tags, every set of commands, units, capacities and requests, any
number of testers, scans and retries, any keys, counter limits and runs, any
gears, clocks, configurations and number of pending commands, any contents of
`chunks.jsonl`.

| Module | Theorem | States |
|---|---|---|
| `ExecutorProofs` | `TypeCorrect` | `Spec => []TypeOK` |
| | `EntryOffsetStep` | the running entry pointer of `_push_entry` and the offset formula of `gen_rsp_cycle_indicator` agree at every entry, across groups |
| | `EntriesBeforeData` | all entries of a package and the ending one end before the data area |
| | `AcceptedAlwaysFits` | `Spec => []AcceptedFits`: the exception the code calls fatal in the push loop cannot be raised |
| | `PackagesAreUniform` | `Spec => []PackageUniform` |
| | `RefusedIsNeverSent` | `Spec => []RefusedNeverSent` |
| | `DoneQueueIsFresh` | `Spec => FreshDoneQueue`, an action property |
| | `OptionsFollowPackage` | `Spec => []OptionsMatchPackage` |
| | `RegionsStayApart` | `Spec => []RegionsDisjoint`: entries, payloads and EHS lie in their areas and apart |
| `ResponseProofs` | `TesterGetsTheList` | `Spec => []TesterSeesTheList`: the tester parses the commands of the list, all and in order |
| | `ResponsesAreOwn` | `Spec => []OwnResponse`: a response read is that of the command it is read for |
| | `SuccessIsComplete` | `Spec => SuccessAnswersAll`, an action property |
| | `ExecutorStepsArePackageSteps` | `Spec => PackageSteps`: the safety part of the refinement of `CommandPackage` |
| | `AbortsHitTheirTargets`, `VerdictsMatchAnswers`, `QueriesSeeTheTarget` | `TmSpec /\ []TagsDistinct => []AbortHitsItsTarget`, and so on |
| `WriteRecordProofs` | `RecordIsSorted` | `Spec => []SortedDisjoint`, for commands that are not empty (`NoEmptyWrite`), as in the next three |
| | `RecordIsTrue` | `Spec => []RecordMatchesDevice` |
| | `LookupsAreExact` | `Spec => []LookupExact` |
| | `RecordIsAMap` | `Spec => MapSteps`: the safety part of the refinement of `LbaMap` |
| `RwFunctionsProofs` | `HelpersTyped` | `Spec => []TypeOK` |
| | `CommandsStayInUnit` | no command of any helper reaches beyond its unit |
| | `DrawnCommandsInRange` | `Spec => CommandsInRange`: a drawn command keeps to the caller's range |
| | `RecordIsRight` | `Spec => []RecordMatchesDevice` |
| | `ComparisonsAreRight` | `Spec => []FailsOnlyInDoubt` |
| | `ComparisonsAreComplete` | `Spec => []VerifiedMeansEqual` |
| | `HelpersUsePackage` | `Spec => UsesPackage`: every step of a helper is a step of `CommandPackage` or none |
| `TesterUpdateProofs` | `UpdateTyped`, `VerdictsAreOwn`, `DrivesAreOwn`, `ResultsAreOwn`, `FirmwareIsAsLoaded` | `Spec => []TypeOK`, `[]VerdictIsOwn`, `[]DriveIsOwn`, `[]ResultIsOwn`, `[]FirmwareAsLoaded` |
| `DeviceSetupProofs` | `CacheFollowsLink` | `Spec => []CacheIsLink` |
| | `CommandsMeetTheirLink` | `Spec => []CommandsAreLegal` |
| | `CapacitiesFollowDevice` | `Spec => CapacitiesAreCached` |
| | `FirstInitIsSettled` | `Spec => FirstInitSettles` |
| | `ReturnsAreClear` | `Spec => ReturnsClear` |
| `RpmbProofs` | `CopiesFollow`, `ChunksAreAsAsked`, `RefusalsAreInDoubt` | `Spec => []CopiesAreDevice`, `[]ChunksAsAsked`, `RefusedOnlyInDoubt` |
| `EmbeddingIndexProofs` | `QueriesScoreTheirChunks` | `Spec => []EmbeddingsAreOfTheChunks` |

**Executor.** `AcceptedFits` speaks of pointers at push time, and the check
that must imply it was made on totals at enqueue time, so it is not inductive.
`FitInv` connects the two: `TotalsInv` (the totals are the sum of the commands'
shares; each element of the list remembers the totals it was appended at),
`CapacityInv` (the last accepted command was accepted with one entry to spare),
`OpenInv` (an open package has untouched pointers; a running one is marked sent,
so nothing joins it) and `PushInv` (after *k* pushes every pointer is where *k*
shares put it). With these the late check follows from the early one by
arithmetic about rounding up, proved of the layout first: padding by
`NextEntryPtr` never outruns the rounded group count. `PackagesAreUniform`
rests on `ModesInv` (every read or write in the list has the modes the module
remembers; the clause needs no promise about a remembered mode without such a
command, which does occur, see section 6). `RefusedIsNeverSent` rests on
`EncodedInv`: a command refused after the append has a tag that cannot be
packed into a byte, so the push loop stops at it. `DoneQueueIsFresh` rests on
`QueueInv`.

What the tester is given is proved on top of `FitInv`. `PlaceInv` says where
each pushed command was put, in terms of the totals it was appended at. The
totals only grow and a command's share holds its payload (`ShareHolds`), so two
payloads are as far apart as their totals, and by `FitInv` the last of them ends
within the buffer. `BufferInv` says that after *k* pushes the buffer holds the
first *k* commands at the first *k* offsets and nothing else. Offsets increase
(`OffsetsIncrease`), across the padding of a group too, so a new entry overwrites
none, and the tester, which stops at the first offset without an entry, stops
after the last command (`ParsedAreAll`). `OptionsInv` says that the flags follow
the list and that a package sent with hardware compare had passed the checks.

**Responses.** `OwnResponse` joins two counts: the tracker numbers commands per
tag as they are enqueued, and `gen_rsp_cycle_indicator` numbers answers per tag as
they arrived. `CycleInv` says that a command's indicator is the number of
commands of its tag in front of it (`Before`). `AnswersInv` says of the answers
that no command has two and that one with a given tag comes after those of all
commands of this tag in front of it, unless they were aborted (`InOrder`).
It is kept because the tester starts entries in order and never two of a tag at a
time (`TesterInv`). `FoundInv` says that what `read_response` looks in was
generated from the answers of this package. A counting lemma then turns the
order into equality of numbers: the answers of a tag in front of that to command
*i* and the commands of the tag in front of *i* are in bijection, by the ids of
the answers, so the slot numbered like *i* holds *i*'s answer (`ReadsItsOwn`).
`SuccessIsComplete` needs the other direction, that an answer for every command
leaves no number out. `PackageInv` is the conjunction of everything inductive
that is known of a package. From it each action of the executor, the device's
among them, is a step of `CommandPackage` under the mapping of
`ExecutorRefinement`, or leaves the mapped variables unchanged: what is found is
one's own and only in an ended package (`OwnFound`), so an end maps to an end,
and a call that raises maps to a stutter.

**Task management.** A request is a command like any other (`TmNextIsAny`), so
`PackageInv` holds of packages with requests. `RequestsInv` follows a request
from `push_abort_task` to its answer: it stands behind its target and carries the
target's tag (`RequestInv`), an aborted command is the target of some request
(`AbortedInv`), and a request that was answered with success was answered before
its target (`ServiceInv`). The theorems have the hypothesis `[]TagsDistinct`, that
no two commands of a package share a tag. The code does not enforce it: a package
with more commands than tags, or with tags chosen by the pattern, may repeat one.
Then the device may abort another command of the tag, and the answer of an
aborted command is taken from its successor: without it the three statements
are false, as TLC shows at once when `TaskManagement.cfg` is given two tags for
its four commands. As it stands the run has as many tags as commands, and no
package of it repeats one.

**Write record.** `Inv` is one conjunct per part of the program's state.
`ControlInv` is the control flow, `DataInv` says that the device has what the
extents still to be recorded say. `ListInv` is the heart: the list is ordered
(outside the loop's repair) and `Truthful` of the device for every block but
those of extents still to be recorded. `SearchInv` is the invariant of the
bisection, with what its three remembered indices mean, among them the 0 that
stands for "nothing found": where it stands for the first extent, the window has
closed at the left end and the other index is 0 as well. It yields `Placed`:
everything left of where the search ends lies before the new extent. `SaveInv` is the
invariant of the loop: before the new extent is put, the index is `Placed`;
afterwards the list is `Settled`, that is ordered but for what the new extent
still overlaps on its right. Each case of the loop is a lemma about lists
(`SplitFacts` and its neighbours): the list `Repairs` the one before, its
extents are pieces of old ones or the new one and no block of another extent is
lost. `FindInv` says that the pieces met are consecutive and true and that
the lookup stops at a block nobody wrote only if nobody did.
For the refinement, `MapIsDevice` shows from `Inv` that the mapped map equals the
device all the time, also in the middle of a repair, so only the calls change it.
All four theorems assume `NoEmptyWrite`: no length of zero, for a WRITE (6) or
any other command. This is the one thing the code cannot do without, and the
run `write_record_zero` shows what happens when it is not so (section 6).

**Helpers.** That the record is the device is broken by every executed write
until it is recorded. `World` and `Progress` of `IInv` say where in between the
two are: the commands served so far are what the device has and the record has
not, and while `SaveCommand` runs, the record has the first of them; blocks of a
package with two writers are in doubt from the moment it fails or is recorded.
`Expectations` ties each comparing command in the package to the record at the
time it was built, `PackageOk` keeps every command in its unit, and `Blame`
follows, because an expectation that differs from the device is one of a block
in doubt. The lemmas `CutFacts` and `SaveFacts` say of the record, for any set of
disjoint extents, what `WriteRecord` shows of the list.

`ComparisonsAreComplete` needs to know, in the middle of `read_compare`, where
each recorded block of the unit at hand is: already judged, put off to a later
stage, among the extents still to be looked at, or in the package
(`Accounted`, `UnitAtHand`). With it, leaving a unit means that nothing is left
unread (`LeftBehind`). `EqualIsEqual` survives the package because only reads are
in it (`CommandIn`) and a comparison is over all blocks of its command.

**Tester update.** `IInv` is `TypeOK` and, for each process, `Own(t)`: while it
loads it holds the lock of its directory and the record there is its own, from
the scan on it knows its number, and while it produces, the reports in its
folder are its own. The lemma `Frame` shows that a step of one process leaves
`Own` of another alone, which is where the lock and the distinct ports are used.
`FirmwareInv` follows, on top of `IInv`, what a process loaded last: whose load
passed runs it until the call ends, since no other process loads that tester.

**Device setup.** What is cached concerns the link after the package, while the
tester takes the link there one command at a time. `CacheInv` therefore ties the
cache to the last speed and the last clock command still to come, and to the link
when there is none. Legality of a command is decided when it is pushed and needed
when it runs, with the package executed in a partial order: `LegalInv` says that a
command fits the speed of the last change before it that is still to come, which
stays true when a change is executed, because speed changes wait for all before
them (`CommandInv`, the lemma `WaitingFirst`). A command pushed on an unconfirmed
cache is marked blind, and so is everything that waits when the link is reset
(`Blind`). The start-up mode a change is checked against is the tester's unless
its reading back raised, and is never high speed when the tester's is not. `DescriptorInv` says that in the package with the geometry read the
read is executed last and that no configuration is left behind it; `SettledInv`
follows a first initialisation with nothing carried into it; `PackageInv` makes
`Waiting` of the property and `Open` of the invariant the same set. For
`ReturnsAreClear` every other way a running call could end is excluded by what
`CallInv` says of its step.

**RPMB.** `CopiesAreDevice` is not inductive, as between the write and the
answer the device is ahead. `PackageInv` says what a package holds and that the
request is executed first, `AnswerInv` that the register and the answer are
those of the call once it was, `CallInv` what the call knew before, `RunInv`
that in a performance run the device is ahead by the entries issued, `ChunkInv`
that the blocks still in the list and those drawn are in range and apart. The
theorem excuses no object whose copy the code spoils: it says which copies that
can be (`lost`), and that it is these two and no others.

**Embedding index.** The files are written one after the other, so a manifest
can stand next to the embeddings of another build, finished or not. `Vouches`
says when a manifest can be relied on: while `chunks.jsonl` is what it was made
for, the embeddings in place and those every running build is about to write are
made of it. It holds of the manifest in place unless something happened unseen,
and of the one a query has read until the query has its embeddings; a step of a
build cannot break it, since a build that starts loads what is there. `BuildInv`
says that a build that is alone has its file to itself and its embeddings in
place, which is why its manifest vouches again; `QueryInv` what a query has read
and checked.

Only model-checked: all liveness, that is, that a
package ends and a call of the record returns (the fairness parts of `PackageSpec`
and `MapSpec`, whose steps are proved), `CallsReturn` and `CallsEnd`. Liveness and
anything that needs ENABLED or induction over data is out of the prover's reach
and stays with TLC. No proof uses recursion: counts are cardinalities, and the
loops of the code are steps of a behaviour.

## 6. Findings and observations

Three runs end in a counterexample; `PROJECT.json` has the quotations.

1. `task_management_doc`: `check_if_target_is_aborted` returns TRUE for a target
   that was not aborted and FALSE for one that was, against its docstring.
   `VerdictMatchesAnswers` is therefore stated for the value the code returns.
2. `write_record_zero`: a WRITE (10) of length 0 writes nothing and turns an
   extent of the record inside out. The passing runs have no lengths of zero.
3. `embedding_index_doc`: the hash in the manifest is that of the chunks at the
   end of a build (`retriever.py:455`), not of those that were embedded (`:416`).
   Chunks rewritten during a build leave embeddings under a manifest that
   matches other chunks, and a query uses them, although
   `src/llm_wiki_agent_gen_pypps.md:614` promises that such an index is refused.
   Two builds at once, and old chunks put back after a build that was killed,
   lead to the same; `EmbeddingsAreOfTheChunks` holds outside of these three.

What else came up while modelling. These are in the models, or are the reason
for an assumption of section 4, and have no run of their own:

- A lookup in a record that has never been written raises UnboundLocalError
  (`functions.py:363`), where its caller (`rw_functions.py:229`) waits for -1.
- A WRITE (6) of length 0 writes 256 blocks and is recorded as none
  (`functions.py:197`).
- `_auto_tune_param` fixes the modes of a package (`executor.py:486`) before the
  EHS checks and the capacity check; a command refused by those leaves them
  fixed, and the next one is refused for mixing with a command that is not in
  the list. `PackageUniform` holds all the same.
- A write that was executed but not recorded (the helper raised, or the pattern
  cleared the package) makes a later comparison fail on a good device. That is
  what `doubt` measures in `RwFunctions`; nothing in the code tracks it.
- After a first initialisation to high speed has failed, a default
  initialisation asks for slow mode while the tester starts in high speed and is
  refused; `first_init` to low speed does not set a tester back that starts in
  high speed. Both need another first initialisation to high speed.
- Commands a pattern left pending are sent by the descriptor reads of an
  initialisation. That is why `CapacitiesAreCached` needs the reads to wait for
  what is before them.
- The flag functions leave a sent package behind when the flag is not what was
  expected, and the next call is refused; the attribute functions clear first.
- The timing AFTER_LINK_AND_INIT of the debug command sets neither of the two
  bits (`dcmd5.py:436-437`), though `_print_step` logs the change for both.
- `rpmb_write_data` and `rpmb_read_data` return normally when the device answered
  with an authentication, counter, address or write failure (`rpmb.py:244-252`).
  `key_programming` stores the key before it knows that it was programmed
  (`:97`). Where the classes `raise 'text'`, Python raises a TypeError.
- `rpmb_reset` takes the counter as 0 (`rpmb_perf.py:113`) and clears nothing:
  the method that should is empty. After it, a performance object that knew the
  device's counter has the next write run refused with COUNTER_FAILURE. In the
  same way a key the device refuses to take replaces the one it had taken
  (`rpmb.py:97`), and the next write is refused with AUTHENTICATION_FAILURE. Both
  are faults of the code, and the only exceptions of `CopiesAreDevice` and
  `RefusedOnlyInDoubt` for what an object once knew.
- When the start-up mode was set and its reading back raises
  (`power_change.py:103-104`), the tester starts in high speed and the cache says
  low. A later initialisation sets speed and clock right but not this, so
  `push_speed_change` (`:66`) lets a slow change through and the link refuses it.
  Only another first initialisation to high speed mends it. `CacheIsLink` and
  `CommandsAreLegal` name it as an exception.
- The unaligned list of a random performance run never offers the last possible
  start, and chunks of an unaligned run can overlap although overlap was
  excluded; `ChunksAsAsked` asks for disjointness of aligned runs only. The
  advanced performance write always raises a TypeError
  (`adv_rpmb_perf.py:270`).

## 7. Not modelled

The repository has 2165 files; most of them are patterns (`pattern`,
`self_test`), tables of fields (`ufs_api/upiu`, `descriptors`,
`vendor_cmd/structs.py`, `project_api`, `fw_value`), encodings and the documents
the retriever searches. They keep no state, take no decision that depends on an
order of events, and a model of them would repeat their tables. The modules
above cover the code that keeps state between calls or is used by several
actors, which is a small share of the lines. In particular:

- Byte layouts (commands, descriptors, responses, RPMB frames), CRC and MAC
  computation, logging, scoring arithmetic, and the single SDK calls of the debug
  and performance commands.
- The executor's debugging switches that print packages, mark tags, and the
  alternative buffer manager (`_buffer_manager_push_payload_from_end.py`), which
  nothing imports.
- In the write record, the generation of the data a CRC runs over.
- In `DeviceSetup`, boot and data reads of the debug command, the tester's own
  initialisation (`legacy_api`), lanes and DME reads.
- In `TesterUpdate`, the SDK calls that end an update (`mp.py:78-87`) and how a
  scan asks each drive.
- In `Rpmb`, block addresses above 65535, which `struct.pack(">H")` refuses, and
  the conversion of a result into MB/s.
- Firmware download (`ffu.py`): a loop over an offset, and a search of a file
  share. Device selection and timeouts: tables read once.

## 8. What is left

1. Proofs: what task management can promise of packages that
   repeat a tag.
2. `RwFunctions` over the record's list itself instead of its set of extents,
   which would need the two state spaces multiplied.
3. Firmware download, as a loop of WRITE BUFFER packages that may be cut by a
   reset.
