# Verification of embedul.ar

embedul.ar is a framework for bare-metal and RTOS applications on
microcontrollers. This directory models the parts of it that keep state over
time and that other parts rely on: the mirror of slot files kept on a raw
partition (the *linear cache*), the ring buffer that most drivers share, the
interrupt-driven UART stream that uses two of them from two contexts at once,
the linked queues, the synchronisation of the board with FreeRTOS tasks, and the
sequences of stages that splash themes are played with.
Paths below are relative to `src/source/`.

## Inventory

### Linear cache (`core/manager/storage/cache.c`)

*State.* On the media: sector 0 (head: signature, versions, number of elements,
CRC), data sectors from sector 1 up, one info sector per element from the last
sector down. In memory: `struct STORAGE_CACHE_State` (the stage, element number,
first, last and current data sector, `fno` of the slot, whether sector 0 is to be
written) and `cachedElementsCount`, the number of elements that readers see.

*Operations.* `STORAGE_CACHE_Init`, `STORAGE_CACHE_ProcessNextTask` (one of eleven
stages), `STORAGE_CACHE_ElementInfo`, `STORAGE_CACHE_ElementData`.

*Interactions.* The boot sequence (`checkCache` in `core/device/board/run.c`) calls
`ProcessNextTask` until it is done. The cache reads slot directories through
FatFs and reads and writes sectors through `STORAGE_LinearRead/Write`.

*Hard behaviours.* The next boot relies on what an interrupted one left on the
media; a file that changes size moves all the data after it over elements that
are still sealed; data and info sectors grow towards each other; a count is
published before the elements it counts are checked.

*Correct when* an element that a full check went past can be read back, and stays
so while later ones are written; sealed info sectors never stand for incomplete
data; data never meets info sectors when the slots fit; the check ends; and after
it rebuilt sector 0 the elements are the files of the slots, in order.

### Linear volume access (`core/manager/storage.c`)

State: the volumes registered per role. Operations: registering (MBR, raw or FAT
volumes), `STORAGE_LinearRead`, `STORAGE_LinearWrite` with retries and bounds
checks. Correct when an access stays in the partition and reports what the media
did.

### Cyclic buffer (`core/cyclic.c`)

State: octets, `inIndex`, `outIndex`, `elements`, `lastIn` and statistics.
Operations: insert (from a buffer, stream or formatted string), consume (to a
buffer or stream), peek, overwrite, replace, discard, reset. Used by the UART streams
of STM32 and LPC boards, the status record of raw storage, text variants and the
console of desktop builds. Correct when it is
a queue: the three counters are updated separately by every operation.

### UART stream (`arch/arm-cortex/stm32/drivers/stream_uart.c`) and stream transfers (`core/device/stream.c`)

State: two cyclic buffers, TXEIE, the data registers, and the locals of the
transfer. A task calls `STREAM_IN_FromBuffer` and `STREAM_OUT_ToBuffer`, which call
`dataIn` and `dataOut` in a loop until done or timed out; `uartIrq` runs between any
two instructions of the task. There is no lock: TXEIE off keeps the handler out of
the send buffer, nothing keeps it out of the receive buffer. Correct when octets
keep their order, none is lost or repeated, what was accepted is transmitted, and
no transfer or interrupt spins for ever.

### Raw storage device (`core/device/rawstor.c`)

State: media status, a cyclic buffer with the last status changes. Every read or
write initialises the media first if needed. Correct when no media operation runs
on a media that is not initialised, and the status record keeps the newest entries.

### Queue (`core/queue.c`)

*State.* Doubly linked nodes owned by their users; of each queue its two ends and a
count; a cursor for each traversal. *Operations*: push and pop at both ends, detach
of any node, and a traversal in either direction, started, reset and stepped.
*Hard behaviours.* Ends, count and links are updated by different branches for the
only node, the front, the back and a middle one; nodes move between queues and take
their links with them if a branch forgets them; a traversal goes on while nodes come
and go. Correct when ends, links and count are those of one sequence, also when the
node a traversal returned is detached before the next one is asked for.

### Sequence (`core/sequence.c`)

*State.* The current stage and its action (Entry, Run or Exit), a pending request to
exit, the time the stage was entered and the time its next period is due.
*Operations*: `SEQUENCE_Update`, called in a loop, which calls the function of the
stage with the action; `SEQUENCE_ExitStage` and `SEQUENCE_Restart`, which that
function may call too. *Hard behaviours.* Timeouts, inputs and the stage function
ask for the same exit; updates come late and miss periods; a function changes the
state of the update that called it. Correct when every stage is entered and left
once, in order, periods are kept and a timeout ends its stage.

### Board synchronisation (`core/device/oswrap.c`, `boot/oswrap_freertos.c`, `core/device/board.c`)

*State.* With FreeRTOS: where RunTask is, the period of the updates (none in manual
mode), whether the board is to exit, and the tasks of the application. *Operations*:
the loop of RunTask, parked between two syncs by a delay (auto) or by suspending
itself (manual); `BOARD_Sync` by a task, which wakes it; changes of the period; exit.
*Hard behaviours.* Tasks are switched between any two steps; a wake-up that comes
before RunTask is parked is lost; the period is read to choose how to park, again
for the delay, and again by the task that wakes. Correct when updates go on in both
modes and an exit ends the board.

### RetrOS (`core/retros/`) and state machines (`core/fsm.c`)

RetrOS is a small cooperative kernel: tasks, semaphores, mutexes. It is not built at
this commit: the scheduler uses names that `core/queue.h` does not declare. A state
machine is a function pointer and its counters.

### The rest

Log, I/O profiles, screens, video, sound, mixer, containers, values and the other
drivers: formatting, pixel and sample processing, sequential conversion, or the
command sequence of one chip. They are listed, with reasons, in `PROJECT.json`.

## Modules

| Module | Models |
|---|---|
| `LinearVolume` | a partition, its bounds check, every outcome of a linear read or write |
| `StorageCache` | the cache check as one action per stage, power loss, edits of the slots, firmware upgrades; EXTENDS `LinearVolume` |
| `SlotMirror` | abstract: while a boot checks, the slots' files are mirrored one after the other and stay mirrored |
| `Cyclic` | operators on a `struct CYCLIC`, shared by the next two |
| `CyclicBuffer` | one instance and a caller of the whole API |
| `Fifo` | abstract: a bounded queue that drops its oldest elements |
| `UartStream` | task, interrupt handler and line; two instances of `Cyclic` |
| `Queue` | several linked queues that exchange nodes and one traversal over them |
| `Deque` | abstract: double-ended queues, and the nodes a traversal has still to return |
| `BoardSync` | RunTask, application tasks, the tick and exit under FreeRTOS |
| `Sequence` | one sequence, its stage functions and inputs, and time |
| `StorageCacheProofs`, `StorageCacheMirrorProofs` | theorems about `StorageCache`, the second over the first |
| `CyclicLemmas`, `CyclicProofs`, `UartStreamProofs` | lemmas about the operators of `Cyclic`, and the theorems of the two modules that use them |
| `QueueProofs`, `SequenceProofs`, `BoardSyncProofs` | theorems about `Queue`, `Sequence` and `BoardSync` |
| `MCStorageCache`, `MCStorageCacheMoved`, `MCCyclicBuffer`, `MCSequence` | small instances |

### From the code to the actions

*StorageCache.* `cs` is `struct STORAGE_CACHE_State`, field by field, without the
progress counters and file handles, which live within one stage or decide nothing.
`cs.nextTask` is the stage; each function of `cache.c` that serves a stage is the action
of that name. A stage that loops over data sectors (`slotToElementData`,
`checkElementData`) is one step per sector plus the code after the loop (`SealElement`,
`CheckElementCrc`), since power can fail between two writes. CRC-32C is taken to be free
of collisions: the CRC of data is the data it was computed from, and a sector passes
`checkSectorCrc32` exactly when both CRCs were filled in. Files are identified by what
`checkElementInfo` compares: equal path, date, time and size mean the same file with the
same contents (`MetricsMatch`), so a file changed with all of them equal, which the code
cannot notice, is not expressed. `Mangled` is the odd case of octets that are not an
info sector, to which `slotToElementData` adds checksums after it read them back.
Assertions (`BOARD_AssertParams` and the like) lead to `board = "Halted"`. `unread` is a
history variable of the model. The build modelled has `LIB_EMBEDULAR_HAS_FILESYSTEM`;
without a FAT volume in a boot, `hasSlots` is false.

The readers change nothing, so they are operators: `ElementInfo(e)` says whether
`STORAGE_CACHE_ElementInfo` accepts an element, and `SectorsRead` which sectors
`STORAGE_CACHE_ElementData` copies for an offset and a number of sectors.
`RebuiltCountUsable` is stated with them, as an application reads: every sector of
every counted element, and nothing past its end.

The world: `PowerOn(boot)` starts from `STORAGE_CACHE_Init` with any of the volumes
registered; `PowerOff` happens at any time and may tear the sector being written;
`EditSlot` and `UpgradeFirmware` happen with the power off; `SlotFiles` says which files
may ever be in each slot. Files may fail to open or
read (`FilesMayFail`), sector writes may fail (`WritesMayFail`), leaving the old
contents, the new ones or junk; reads may fail (`ReadsMayFail`).

*CyclicBuffer.* Each action is an entry point of the API with its assertion as a
guard. `call` records the operation and the octets it took or gave so that the
refinement of `Fifo` is also about what callers get.

*UartStream.* The task's program counter has one value per stretch of code between
two accesses to memory that the handler uses. Read-modify-write of `elements` is
split in its load and store (`LoadSend`/`CountSend`, `LoadRecv`/`CountRecv`). The
handler is one step: it is not interrupted by the task. `Arrive` assumes that the
other end uses flow control; a receive buffer that overflows is the subject of the
run `cyclic_overflow`.

*Queue.* One action per function of the API; `NodeEnqueue` and `NodeDequeue` are
aliases. The two directions are the same code with `next` and `prev` swapped, so the
links are parameters of `Beyond`, `Behind` and `Bypassed`. An assertion that fails leads
to `call.op = "Halt"`; a pop of an empty queue detaches no node and fails the check of
the parameters of `QUEUE_NodeDetach` (`DetachesNone`). `Deque` has a step for that
(`PopNone`), after which no operation is called. `holder` (the queue a node is in) and
`call` (the last operation and its node) are histories: the first is what callers must
know to use the API at all, since no code checks that a node is detached from the queue
it is in; the second lets the refinement of `Deque` speak of the nodes callers get.
Callers keep to one rule more: the node that a traversal would return next is not
detached.

*BoardSync.* One step per stretch that FreeRTOS may not interrupt: each read of
`autoSyncPeriod_ms` is a step of its own, `RunDelay` reads it once more as the C code
allows, and `SyncCall`/`SyncUnlock` are the read and the wake-up of a task that called
`BOARD_Sync`. The update itself (`BoardSync` to `BoardSyncEnd`) runs with the scheduler
suspended: no task moves. `xTaskAbortDelay` and `vTaskResume` (external) do nothing to
a task that is not parked in their way: `Unparked`. The period is abstracted to whether
there is one.

*Sequence.* One update is one step, with what the stage function does during it
(`Behaviour`: ask for an exit, restart, both in either order, or neither). An exit asked
for outside of Run, or after a restart, fails an assertion (`ExitFails`). Times are relative:
`elapsed` since the stage was entered and `due` until its next period, so that no
absolute clock grows; `MaxLag` stands for "long ago" where a restart clears the
period, and bounds how late the updates are. An update before the next period does
nothing and is a stuttering step. `served`, `restarted` and `runs` are histories of
the calls.

## What the runs check

| Run | Shows |
|---|---|
| `cache` | With every kind of boot, slot edits, upgrades, file errors, failed writes and power loss at any time: data stays clear of info sectors; what a full check passed can be read back; readable elements are in order on the media; CRCs are filled in only over complete data; once sector 0 is rebuilt, readers get the file of its slot for every element that is counted; every stage leaves less to do (`CheckAdvances`); a full check implements `SlotMirror`. |
| `cyclic` | With a caller that checks `CYCLIC_Available`, the buffer implements `Fifo`. |
| `uart` | Octets sent keep their order and are all transmitted; octets delivered keep theirs; the interrupt is never left on with nothing to send; a send ends with no need of its timeout. |
| `queue` | Links, ends and counts stay those of one chain per queue; no assertion fails but that of a pop of an empty queue (`HaltsOnEmptyOnly`); the cursor stays in its queue; the whole implements `Deque`: a traversal returns every node that is still there to return, once and in order. |
| `sync` | Updates go on in auto mode whatever tasks do, and in manual mode if the main task keeps asking; an exit that does not find RunTask suspended, or bound to be, shuts the board down (`ExitShutsDown`), in that turn of its loop (`ExitGetsNearer`). |
| `sequence` | Stages are entered and left once and in order; late updates do not run a stage more often than its period; a timeout ends its stage. |
| `cache_moved` | finding, below |
| `cache_reads` | finding, below |
| `cache_count` | finding, below |
| `cyclic_overflow` | finding, below |
| `uart_receive` | finding, below |
| `sync_exit` | finding, below |

`SentInOrder` also says that after a timeout the reported count is exactly what was
taken, so that a caller can go on from there.

### Bounds, and why they are enough

* *Two slots* (`MaxSlots = 2`), *two files*, of one and two sectors. Two is the
  least number of elements in which one element's data can damage another's; files
  of different sizes make the second element move when the first is replaced. The
  same file may be in both slots. In `cache` one of them lacks the archive
  attribute, so that its element is written again, unchanged, at every boot.
* *Why two slots are not enough for everything.* With more slots
  `CheckedElementsIntact`, `IntactDataInOrder` and `RebuiltCountUsable` do not hold of
  every use of the program: see `cache_moved` below. They hold when the files of
  different slots are different (`SlotsStayApart`), which is what the proofs assume
  for any number of slots; with two slots they hold without it, and `cache` checks
  that case, a file copied from a slot to the other included.
* *Seven sectors* (`LastSector = 6`): head, four data sectors and two info sectors.
  It is the smallest partition in which the largest files fit (the assumption
  `SlotsFit(2)` of the proof), so any creep of the data reaches an info sector.
* *Two versions* in `cache`, model values compared only with each other, hence the
  symmetry set. It would not be sound with liveness, and the run checks none.
* *Boots* in `cache`: with a cache volume, with or without a FAT volume and the data
  check; and one without a cache volume, which the stage `Start` ends at once whatever
  else it has.
* *`GarbageRange`*: octets that are not an info sector are read as an empty range,
  a range of one sector, or one past the end: one value for each branch they can take.
* *`cache_moved`*: five slots, with just the files that the counterexample
  needs, and room for all of them.
* *Ring buffer*: capacity 4 and two octet values, insertions of up to 2 octets,
  all initial contents; every pair of indices and every wrap happens. `MaxLastIn`
  bounds the only field that grows, which nothing reads back.
* *UART*: buffers of 2, transfers of up to 3 octets (more than a buffer), 4 octets
  sent and 3 received: a send blocks on a full buffer, both buffers wrap, and a
  second transfer starts while octets of the first are queued.
* *Queues*: four nodes in two queues. A node can be the only one, at the front, at
  the back and in the middle (with a neighbour to spare), and move to the other queue,
  empty or not, with the traversal anywhere in either.
* *Board*: the main task and one other. The properties are about RunTask, the task
  that wakes it and a second one that races with both.
* *Sequence*: three stages, for the ways of leaving one: periodic with an input and no
  timeout; a timeout and no function; all of them. `MaxElapsed` is more than twice the
  longest timeout, `MaxLag` several periods.

`CHECK_DEADLOCK` is off in `sync` and `sync_exit`, where the board may end; in `sequence`,
where a stage function that asks for an exit outside of Run fails an assertion and halts
the board; and in `queue`, where a pop of an empty queue does. It is on in all other runs.

### Fairness

* `WF(ProcessNextTask)`: `checkCache` calls it in a loop with nothing to wait for. No run
  needs it: that the loop ends is argued from `CheckAdvances`, below.
* `WF(Task)`: the task is running code; `WF(Transmit)`: the UART shifts octets out
  by itself.
* `SF(UartIrq)`: the task disables the interrupt again and again while it waits
  for room. The processor serves a pending interrupt before it executes the
  instruction after the one that enabled it, so one that is enabled infinitely
  often is served. With weak fairness `SendEnds` would not hold.
* `WF(RunTask)` and `WF(SyncUnlock(MainTask))`: both have the highest priority and
  share the processor in time slices; `WF(DelayEnds)`: the tick interrupt always comes.
  Other tasks may never run.
* `WF(Tick)`, `WF(UpdateEntry)`, `WF(UpdateRun)` of periodic stages and
  `WF(UpdateExit(FALSE))`: time passes and the application updates the sequence in a
  loop. Inputs may never come.

Nothing is assumed of `PowerOff`, edits, starting transfers, timeouts, arrivals,
application calls or what stage functions do.

## What is proved

Theorems hold for every value of the constants that meets the named assumptions
of the modules (`VolumeAssumption`, `CacheAssumption`, `CyclicAssumption`,
`BatchesAssumption`, `UartAssumption` and those of `Queue` and `Sequence`), and the
hypotheses that a theorem states.

**Cyclic buffer.** `CyclicLemmas` says what each operator of `Cyclic` does to the type,
the counters and `Contents` of a buffer. `CyclicProofs` uses them for:

* `TypeCorrect`: indices stay inside the buffer.
* `CountersAgree`: `inIndex = (outIndex + elements) % Capacity`, for callers that check
  the room left (`ChecksAvailable`). It is inductive together with `TypeOK`, and is what
  makes an insertion land behind the last element.
* `ImplementsFifo`: under the same condition, for any capacity (powers of two or not)
  and any octets, each operation maps to the step of `Fifo` that its name says.

**UART stream** (`UartStreamProofs`), for buffers of any capacities and any number of
octets, with the same lemmas instantiated for each of the two buffers:

* `TypeCorrect`. `TypeOK` needs `TransferOK`: what is known at each value of the program
  counter of the transfer's counts, of what was loaded from `elements`, and of TXEIE,
  which is off from `Store` to `EnableTxe` (`Quiet`).
* `SentOctetsInOrder` and `InterruptNotIdle`. While octets are stored and not counted
  yet, the buffer holds more than `elements` says: `Filled` is the buffer as if they
  were. `SendInv` says that `Filled` has the octets that follow those transmitted, up to
  the last one taken from a caller, and that the interrupt is on only with an octet to
  take. The handler disturbs `Filled` only when it takes an octet, and then the task is
  not between a load and a store, because TXEIE was on.
* `ReceivedOctetsInOrder`. Here nothing keeps the handler out, and `elements` may lose
  octets (the finding `uart_receive`). `InRing` is the buffer with as many elements as
  arrived and were not delivered; `RecvInv` says that they are in it and in order, and
  that what `elements` and the transfer in course account for is never more than that.
  It relies on the other end's flow control (`Arrive`).

**Linear cache**:

* `StorageCacheProofs!CacheTypeCorrect`: types are kept under any faults and edits.
  `TypeOK` alone is not inductive: `element <= MaxSlots` holds because a stage that
  works on an element is only entered with `element < MaxSlots`. `StagesOK` says so,
  stage by stage; `TypeInv == TypeOK /\ StagesOK` is inductive.
* `StorageCacheProofs!CheckAlwaysAdvances`: under any faults each call of
  `STORAGE_CACHE_ProcessNextTask` leaves fewer elements to do, or as many and fewer
  stages of the current one (`StagesToGo`), or as many of both and fewer sectors, or
  halts the board. `AdvancesIsWellFounded` says that this order, a lexicographic one on
  triples of natural numbers, has no infinite descent: the loop of `checkCache`, which
  has no bound of its own, takes finitely many turns. That the check of a boot ends
  unless power is lost follows with the fairness of that loop. The point that matters is
  `checkElementData`: a failed data check goes on to an earlier-looking stage,
  `SlotToElementInfo`, or to the end, never to one that reads the element again.
* `StorageCacheProofs!DataStaysClear`: if no file takes more than `m` sectors
  and the partition has room for `MaxSlots` of them and as many info sectors
  (`SlotsFit(m)`), data and info sectors never overlap. The strengthening is
  `DiskFits(m)`, the info sector of element `e`, sealed or not, names sectors up to
  `(e + 1) * m` at most, and `CheckFits(m)`, the check's own `sectorEnd` is within what
  the elements before the current one may use. This is where `checkElementInfo`
  restoring `sectorEnd` matters: without it each edit would move data up.
* `StorageCacheMirrorProofs`, under `SlotsFit(m)` and `SlotsStayApart` (reads of the
  media succeed, no file is empty, slots' files are different, and a boot that skips the
  data check has no FAT volume): `CheckedStayIntact`, `IntactStayInOrder`,
  `RebuiltCountIsUsable`, `SealedWhenComplete` and `DataIsPlacedAfterLast`, for any
  number of slots, with power lost at any time. `MirrorInv(m)` adds to the invariants
  above what sectors hold (`DiskOK`, `SlotsOK`), that elements which can be read back are
  in order, even those of earlier boots (`Ordered`), and what each stage knows
  (`CheckOK`): the elements gone past mirror their slots (`GonePast`), the one being
  copied or checked is good so far (`CopyOK`, `ReadOK`) and lies behind them
  (`BeforeOK`, `PastOK`).
* `CheckImplementsMirror`: under the same hypotheses each step of the check is a step of
  `SlotMirror` or a stutter. A power loss ends the abstract check, and the element
  becomes part of the mirror when its CRCs are filled in or found right.

**Queue** (`QueueProofs`): for any nodes and queues, `TypeCorrect`, `AlwaysWellLinked`,
`FreeNodesAreUnlinked`, `TraversalSafe` and `AssertionsHold` (`HaltsOnEmptyOnly`), from
one inductive invariant `IInv`: they hold together or not at all. `WellLinked` says of
each queue that *some* sequence of as many nodes as it counts agrees with ends and
links; every action's lemma gives the sequence for the next state (one more at an end,
or one less anywhere).

`QueuesAreDeques` shows that `Queue` implements `Deque`: every operation, seen through the
refinement mapping, is the one that `Deque` gives its name to. The mapping reads the
links: `Chain` follows them from an end, as many times as the queue counts. Three things
make it tractable:

* `Chain` takes from `Found` the node at each place. `Found` is a recursive function, and
  no installed prover can do induction over it; so `FoundIs` is proved by the least
  counterexample. The places where a node of the sequence that `WellLinked` speaks of is
  not the one found are a set of natural numbers; if there were one there would be a least
  one (`LeastMember`, from the well-foundedness of `<`), and the place before it, which is
  right, gives a contradiction through the links.
* `ChainIs`: hence the chain *is* the sequence of `WellLinked`, in either direction. That
  invariant is the strengthening that the refinement needs; nothing is added to it.
* One lemma per operation says what becomes of the sequences: `PushedIs`, `PrecededIs`,
  `DroppedIs` for the queues, `RestPushed`, `RestPreceded`, `RestDropped` and `RestTail`
  for the nodes a traversal has still to return, which are a part of a chain from the
  cursor on. Operations on one queue leave the other chains alone because their nodes
  are others (`UntouchedListed`, `UntouchedRemaining`).

**Sequence** (`SequenceProofs`): for any table of stages, `TypeCorrect` (the current
stage is in the table until the end), `RunsAtTheirPace` and `StagesInOrder`. `OrderInv`
says what was served last for each action that may come next and that an exit is only
pending in Run; `PaceInv` that, since the Entry, `due = period * runs - elapsed`.

**Board synchronisation** (`BoardSyncProofs`), for any set of application tasks:

* `TypeCorrect`, from `IInv`, which adds to `TypeOK` that a deleted task is not within
  `BOARD_Sync` (`DeadNotInSync`) and that after an exit no task but the main one is alive,
  and none, the main one included, is within `BOARD_Sync` (`QuietAfterExit`).
* `OnlyNearerAfterExit` (`ExitGetsNearer`): once the board is to exit, RunTask, if it is
  not suspended then, is not suspended again, and each move it makes goes down in
  `Distance`, so at most seven remain. It is all of `ExitShutsDown` but the fairness. It
  rests on `QuietAfterExit`: a task that is alive could change the period of RunTask or
  wake it; it is the rule that the main task destroys the tasks it created before it exits
  (`core/device/oswrap.h:97`) that forbids both. What happens when RunTask is suspended at
  the exit is the finding `sync_exit`.

Invariants and their strengthenings were model-checked before they were proved.

Every invariant and action property that a passing run checks, and every refinement, is
stated by a theorem. The assumptions are those named above: `SlotsFit` and
`SlotsStayApart` for the cache, `ChecksAvailable` for the cyclic buffer.

*Only model-checked*: the liveness properties, out of the prover's reach because fairness
needs ENABLED: `EverythingSent`, `SendEnds`, `TimeoutEndsStage`, `AutoSyncGoesOn`,
`ManualSyncGoesOn` and `ExitShutsDown`. Of `ExitShutsDown` the safety part is proved, as
said above.

## Findings

* `cache_moved`. `checkElementInfo` accepts an info sector whose path, date, time and
  size match, wherever its data is. In the run, the small file of slot 0 is replaced by
  a large one and a copy of the file of slot 3 comes into slot 1, so that element 1 is
  written to the very sectors of the old element 3, with the same octets. Element 2 is
  written behind it; the old element 3 is then found intact, with its data in front of
  element 2, and `sectorEnd` goes back there. Element 4 is placed after it, over element
  2, which the same boot had checked.
* `cache_reads`. `STORAGE_LinearRead` does not keep the result of `drvRead`: a failed
  read is not repeated and returns Ok. The flag `CheckFlags_Read` is then set for
  elements with unread sectors. In the other runs reads do not fail.
* `cache_count`. `readSector0` publishes the count of sector 0 before anything is
  checked, and only `writeSector0` ever changes it. When the iteration stops early and
  sector 0 need not be rewritten, elements that were found bad, or were never looked
  at, are still counted: the count does not tell readers what is available.
* `cyclic_overflow`. Inserting over the capacity caps `elements` and leaves
  `outIndex` alone, so the newest octets come out first.
* `uart_receive`. `elements -= Count` in `CYCLIC_OUT_ToBuffer` runs with the receive
  interrupt enabled; an octet inserted between its load and its store is stored
  but not counted.
* `sync_exit`. In manual mode RunTask suspends itself between two syncs, and
  `BOARD_Exit` sets a flag that only RunTask looks at. The main task calls it and is
  deleted; nothing resumes RunTask, and the board is never shut down. The header says
  that the loop runs until `BOARD_Exit` is called and the framework is then shut down
  (`core/device/oswrap.h:45` and 82); the TODO at `boot/oswrap_freertos.c:354` is only
  about a call that comes just before RunTask is parked. `ExitShutsDown` and
  `ExitGetsNearer` say what does hold.

Observations that no document contradicts, and are no findings:

* `nextIteration` increments `element` and then goes on while
  `element + 1 < elementCount`: in a boot with no slots the last cached element is not
  checked (`MoreElements` is modelled as it is).
* A boot that skips the data check accepts elements whose data may be stale, and a later
  one may place data in front of them: `CheckedElementsIntact` is about full checks.
* A change from manual to auto mode while RunTask is suspended leaves it suspended, since
  `syncUnlock` then uses `xTaskAbortDelay`: the liveness properties of `BoardSync` are
  about periods that do not change.
* An exit that is pending when a sequence is restarted, or a restart from a stage
  function, makes the next stage begin without its Entry. `ServedInOrder` excepts both, so no
  property is about the Entry of a stage after such a restart.

One divergence was seen outside of the modules: `mempool.c:107` asserts the opposite of the
comment above it, so a block that fits halts the board. It is a single condition on a straight
path and no run models it.

## Not modelled

* Registering volumes, the MBR and FatFs (external): any subset of the two roles may
  be registered in a boot.
* Empty slot files: `FileSectors` may be 0 in the model and the proofs cover it, but
  no run has an empty file, since the properties about elements would have to
  be restated for elements with no data (on cores where division by zero traps the
  board halts, `DivByZeroTraps`).
* Statistics of cyclic buffers. Baud rate and flow control changes of a UART, which
  reinitialise the peripheral through the vendor's library. Log text, progress and
  summaries.
* Stream to stream transfers (`streamToStream`, `S2SRetry`, `STREAM_EXCHANGE`): nothing
  in the repository calls them, so what their callers must do is not in the source.
  Their hazards are listed in `PROJECT.json`.
* Components with no module: see `PROJECT.json`.

## Plan

What is left, in order:

1. *Stream transfers*: `streamToStream` with `S2SRetry`, `STREAM_EXCHANGE` and
   `STREAM_OUT_ToOctet` over streams that take or give any number of octets, and their
   timeouts; abstract specification: a lossless pipe.
2. *Raw storage*: media state and the status record, over `Cyclic`.
3. *ESP32 AT*: the parser of messages (`getNextDataSize`) over octets that come in pieces.
4. *Empty slot files*: the properties of the cache restated for elements with no data,
   and a run with one.
5. *Proofs*: what must decrease for `TimeoutEndsStage` and `SendEnds`, in the way of
   `CheckAdvances`; an abstract line of octets that `UartStream` implements; and the
   modules of 1 to 3 when they exist.
6. *RetrOS*, once it is built again: one owner of a mutex, no lost wake-ups.
