# cache-memory-simulator: models and proofs

TLA+ modules for the memory simulator under `src/src/`: the configuration of a
DRAM, the controller process with its dispatcher, banks, subarrays and clients,
and the cache with its FIFO replacement policy. TLC checks small instances of
all of them; TLAPS proves the main safety properties for every value of the
constants. Line numbers below are those of the files under `src/src/`.

## 1. The system

The repository has no tests and its own README is empty, so what the code is
meant to do is taken from its comments and from its names.

| Component | Source | State | Operations |
|---|---|---|---|
| DRAM subarray | `dram/dram_array.*` | cells, sense amplifiers (`row_buffer`), the open row | `activate`, `precharge`, `write`, `read` |
| DRAM bank | `dram/dram_bank.*` 22-70 | one subarray per data pin | `open_row`, `transfer_data` |
| Bank equivalence class | `dram/dram_bank.*` 72-130 | the banks with one number, one per chip | `open_row`, `transfer_data` |
| Dispatcher | `dram/dram_controller.cpp` 128-198 | request queue, `expected_seq`, one future per bank, the clock, `dispatcher_stop` | the loop, the `std::async` transfers |
| Controller server | `dram/dram_controller.cpp` 46-113, 200-235 | `server_stop`, the listening socket, detached handler threads | `start`, `stop`, `handle_request`, the destructor |
| DRAM client | `dram/dram.*` | nothing between calls | `access`: connect, send, receive |
| FIFO policy | `cache/replacement_policy.*` | `order` of each way, `counter` | `onInsert`, `getVictim`, `reset` |
| Cache | `cache/cache.*`, `cache/cache_block.hpp`, `common/utility.hpp` | sets of blocks, a policy per set, statistics | `access` |
| System configuration | `common/system_config.hpp` | four numbers, fixed | `validate`, derived sizes |
| DRAM configuration | `dram/dram_config.*` | chip width and bit masks, fixed | the constructor with `validate`, `extract`, derived sizes |
| Errors, memory interface | `common/error.hpp`, `common/memory.hpp` | none | none |

How they interact. A client process connects to the Unix socket of the
controller. The thread in `start()` accepts and hands each connection to a
detached thread in `handle_request`, which reads the request, numbers it and
pushes it under `dispatcher_mtx`. The dispatcher thread takes requests up by
number, waits for the transfer in flight on the same bank, opens the row and
starts the transfer as a `std::async` task, which works on the bank and on the
clock while the dispatcher goes on with the next request. `stop()` runs on
another thread again. An equivalence class calls its banks, a bank its
subarrays, and each lets the first exception through. All of these take their
sizes, and the bank, row and column of an address, from one `DRAMConfig`, which
exists only if its constructor has found it valid. The cache is sequential,
owns a policy per set, and could call a next memory level, which no code sets.

What is hard, and what makes each part correct:

* **Subarray**: data lives in two places; `precharge` moves it back. Whatever is
  called in whatever order, refused calls included, it must behave as an array.
* **Bank and class**: loops that may throw half way, on objects that are used
  afterwards. A word is written whole or not at all and the parts stay in step.
* **Dispatcher**: five kinds of threads, a condition variable notified outside
  its lock, and a clock that is loaded and stored without one. A transfer must
  find its own row; requests go in order; nobody sleeps through a wakeup; a
  stop drains what is in flight and returns.
* **Server and clients**: a shutdown that races `accept`, handlers that outlive
  it and the controller, clients that leave early, controllers that die under
  their clients, descriptors that run out, and numbers that two threads must
  agree on.
* **Configurations**: two dozen tests on numbers of 8, 32 and 64 bits, in an
  order that matters because some divide by what others test, with products
  that wrap; what they let through must describe a memory that exists and a
  mapping of its addresses.
* **Policy and cache**: a counter that wraps and whose largest value is special;
  a geometry of quotients; a block that is worked on as a copy.

`PROJECT.json` lists every such hazard at its line with the properties that
cover it, or the reason why none does.

## 2. The modules

| Module | Models | Notes |
|---|---|---|
| `SystemConfig` | `system_config.hpp` | `validate` and the derived sizes as operators, with widths |
| `DRAMConfig` | `dram_config.cpp`, decoding in `dram_controller.cpp` | construction, then addresses taken apart |
| `SubarrayOps` | `dram_array.cpp` | methods as operators on a subarray record |
| `DRAMSubarray` | one subarray under any calls | implements `CellArray` |
| `CellArray` | what a subarray, and a bank, promises | abstract: cells, a selected row, store and load |
| `BankOps` | loops of `DRAMBank` | how far a loop gets, and what it leaves behind |
| `DRAMBank` | one bank under any calls | implements `CellArray` with words for cells |
| `DRAMBankEqClass` | one equivalence class | includes the endless loop of `open_row` |
| `DRAMDispatcher` | dispatcher, tasks, pushing handlers, the end of `stop()` | open: any numbers, any way for the calls to end |
| `InOrderService` | what the dispatcher promises | abstract: absent, queued, taken, finished |
| `DRAMController` | the process from `start()` to its destruction, and its clients | extends `DRAMDispatcher`, implements its `Spec` |
| `FIFOOps`, `FIFOPolicy` | the policy | operators, and one policy with the history of its insertions |
| `Cache` | constructor and `access` | uses `FIFOOps` for the policies of its sets |
| `*Proofs` | theorems | one module beside each component's, eight in all |
| `MC*` | instances for TLC | the sets and symmetries the `.cfg` files use |

```
SubarrayOps <- DRAMSubarray   => CellArray
     ^
  BankOps   <- DRAMBank       => CellArray (of words)
     ^
     +------- DRAMBankEqClass .. how its calls end ..> OpenRow, Transfer
                                                          |
DRAMController --extends, implements--> DRAMDispatcher => InOrderService
SystemConfig <- DRAMConfig,  FIFOOps <- FIFOPolicy,  FIFOOps <- Cache
```

The arrow from the equivalence class is not a formal composition: the
dispatcher has constants for the ways in which `open_row`, `transfer_data` and
`send` may end, and the controller's instances give them the values that
`DRAMBankEqClass` shows to be the only ones. Likewise the constants of the
other modules (rows, columns, pins, chips, ids of banks and rows) are sizes for
any configuration; `EqClassAssumption` is what `DRAMConfig` guarantees of them.

### State and actions

* `DRAMSubarray.arr` is the object (`storage`, `row_buffer`, `open_row`,
  `is_word_open`), `ret` the last call and its result; one action per method,
  with the refusals of the code as results, not as missing steps.
* `DRAMBank.arrays` are the subarrays. One action per method, with the whole loop
  in it, as a bank is used by one thread at a time (that is what `RowServed` and
  the waiting of the dispatcher are about). The span that a read fills is part
  of `ret`, for it is changed before a later subarray throws.
* `DRAMDispatcher`: `disp` is the program counter of the dispatcher, `task[c]`,
  `handler[c]` and `stopper` those of the other threads. A step goes to the
  thread's next access to shared state. A critical section is one step, as its
  only blocking point is the wait that releases the mutex; notifying, which the
  code does after unlocking, is a step of its own. `BeginOpenRow` loads the
  clock and starts changing the row, `OpenRowReturns` ends that,
  `StoreOpenRowEnd` stores the clock, so that any step of a task can fall in
  between; a task loads and stores the clock in two steps likewise. `future[b]`
  is `last_transfer`; `Drain` is what the destructors of the futures wait for.
  A task that throws ends as `failed`, a future that is ready.
* `DRAMConfig.config` holds the arguments of the constructor and then the object,
  `verdict` whether it exists, `asked` and `ids` the last address and what
  `get_bank_id`, `get_row_id` and `get_col_id` say of it. A mask or an address is
  the set of the positions of its ones, so that `popcount` is `Cardinality` and
  `first_one_position` is `Min`; only `extract`, which divides, needs its value,
  which `Value` adds up over the positions. `pow2` is the shift of a one, a recursive
  function, so that proofs can use what it computes.
  Products and casts are cut to the width they have in the code, and a shift or
  product that is undefined gives any of the results of a build.
* `DRAMController` adds `server` (the thread in `start()`), `closer` (the first
  half of `stop()`), `handling[c]`, `destroyed`, and the client side `conn[c]`,
  `wire[c]`. `late` remembers who was accepted after the stop. The data a request
  brings is its size, since that is all that decides how the copy to an empty
  vector ends. A controller is destroyed after `start()` and `stop()` have returned;
  a handler that is still at work goes on with whatever the memory holds, any
  number included, or the process dies (`NumbersRead`, `UseAfterDestroy`).
* The kernel's part in `DRAMController` is what Linux does: `close()` wakes nobody
  in `accept()` and leaves the socket to that call; `accept()` takes a descriptor
  before it blocks and fails when there is none; a connection whose other end is
  gone kills a sender (SIGPIPE), gives a receiver an error if that end left data
  unread, and 0 bytes else. `Outcomes` combines this with what `access()` makes of
  it; it has the answer of a dispatched request too, which no behaviour reaches.
* `FIFOPolicy.policy` is the object; `inserted` and `inserts` remember when each way
  was filled, unbounded, for the property to compare with.
* `Cache`: sizes and addresses are in bytes, the data of a block is one value.
  `BlockAfter` is the identity on the old block, because `access()` never stores
  its copy back; it is an operator of its own so that this is visible.

Assumptions that a model takes over from its environment: `rows * cols` fits
in a `uint32` (`MemoryIsThere` says for which configurations it does); data passed
to the cache has the length of a block; the assertions of `CacheConfig` are
compiled in (with `NDEBUG` a geometry they would refuse gets through); `stop()` is
called after `start()` has created the dispatcher.

## 3. What TLC checks

| Run | Properties | Instance | Shows |
|---|---|---|---|
| `subarray` | `TypeOK`, `ClosedBufferMatchesRow`, `ImplementsCellArray` | 3 rows, 2 columns, addresses up to one too many | a subarray is an array of cells |
| `bank` | `TypeOK`, `Lockstep`, `ThrowingReadKeepsRest`, `NothingReadBack`, `ImplementsWordArray` | 3 subarrays, 2 rows, 1 column | words are written whole or not at all, the bank stays usable after it threw, and what is written is never read |
| `eq_class` | `TypeOK`, `AliveMeansBlank`, `CrashedWithRowOpen` | 2 chips of 2 pins, data 0, 3, 4 and 5 long | no `open_row` of a valid row returns |
| `config` | `TypeOK`, `AcceptedExactly`, `NoMappingWorks`, `TopIndexOutOfRange`, `FieldsToldApart`, `MemoryIsThere`, `DerivedSizes` | words of 13 and 10 bits, configurations at the edge of each test | what `validate` lets through, what memory that is, and what becomes of an address |
| `dispatcher` | `TypeOK`, `RowServed`, `NoLostWakeup`, `StopDrains`, `ClockBound`, `ImplementsInOrderService` | 3 requests with any of 3 numbers, 2 banks, 2 rows | every interleaving of the threads |
| `dispatcher_live` | `StopReturns`, `ExpectedIsDispatched` | 2 requests, 2 banks, fairness | nothing blocks for ever |
| `controller` | `ControllerTypeOK`, `NothingIsDispatched`, `AtMostOneLate`, `EarlyEndIsFull`, `EndsWithController`, `ImplementsDispatcher`, `StopCompletes`, `LateEndsStart`, `RequestArrives` | 2 clients, 2 descriptors, 1 bank, fairness | the process around the dispatcher, its shutdown, and what its clients see |
| `fifo` | `TypeOK`, `FIFOBelowReserved` | 3 ways, 3 bit counter, 9 insertions | first in first out up to the reserved value |
| `cache` | `TypeOK`, `NothingKept`, `GeometryFits` | 2 to 12 bytes in blocks of 2 or 4, by 1 to 4 ways, refused numbers too, 4 accesses, 2 bit counter | a cache keeps nothing |
| `dispatcher_clock` | `SameBankCyclesDisjoint` (violated) | 3 requests, 2 banks | finding 4 |
| `controller_start` | `StartReturns` (violated) | 1 client | finding 5 |
| `controller_destroy` | `ShutdownIsGraceful` (violated) | 1 client | finding 7 |

Bounds, and why they do. Three requests on two banks are the least with two on
one bank and one on another, which is what it takes for a bank to be waited
for while a transfer of another bank touches the clock; two rows let a wrong
row be seen; three numbers allow gaps, repeats and stale numbers. The clock
needs no bound, as every request is served once. Liveness needs two requests:
one that holds a bank and one that waits for it. Two clients are enough for one
to be accepted before and one after the stop, and two descriptors for the server
to run out of them with both. `config` keeps the order of the widths of the
code: 13 bits stand for 64 and 10 for 32, so that there are addresses of the
full width, numbers of banks and cells that are cut to 0, block sizes whose
bits wrap, and undefined shifts, each reached and each next to a configuration
that just escapes it; the bus widths and word sizes are those of the code.
Rows and columns one too many
make every call fail in every state. A counter of three bits wraps within nine
insertions, and the bound `inserts <= Modulus - 2` is tight: one more insertion
gives a block the reserved number. `MaxAccesses` and `MaxInserts` are the only
caps on behaviour; `Modulus`, 2^32 in the code, is a constant of `FIFOOps`.
The reset of the policy is the reason why `fifo` has no deadlock; the other runs
that switch the deadlock check off reach states where the process has died,
has stopped, or has used up its accesses.

Symmetry (clients, banks, rows) is used only in `dispatcher`, whose properties
are invariants and a refinement without liveness; no operator of it uses
`CHOOSE` over the permuted values.

### Fairness

`FairSpec` and `FairControllerSpec` assume that the operating system goes on running
every thread that can run, and that calls of the banks and `send` end somehow,
which the model leaves open. They are weak conditions: no thread competes for
a resource that is taken and given back again and again, as the mutex guards
single steps. Nobody has to send a request, to connect, to call `stop()`, or to
wake the dispatcher spuriously. `ExpectedIsDispatched` has the premise
`[]NoStale`: `SeqCmp` keeps the smallest number on top, so one request with a
number already passed blocks the queue for good, in the code as in the model.
`RequestArrives` asks for a handler that is scheduled and a server that is; which
of two waiting connections `accept` takes first is left open.

### Findings

1. `dram_array.cpp:73`: `read` refuses exactly the subarrays whose row is open,
   so a read transfer after `open_row` throws, and a bank of two pins or more
   reads nothing but zeros (`bank`, `NothingReadBack`).
2. `dram_bank.cpp:83`: the loop of `open_row` has no bound; a class all of whose
   banks open the row runs off its vector (`eq_class`, `AliveMeansBlank`).
3. `dram_controller.cpp:213`: every request is number 1, the dispatcher starts
   with 0, nothing is ever dispatched (`controller`, `NothingIsDispatched`).
4. `dram_controller.cpp:161`: a plain store undoes what transfers have put into the
   clock, so requests of one bank overlap in it (`dispatcher_clock`).
5. `dram_controller.cpp:78`: `close()` does not wake the thread in `accept`, so
   `start()` may not return after `stop()` (`controller_start`). `LateEndsStart` and
   `AtMostOneLate` say what does hold: the next connection is taken, and is the last.
6. `cache.cpp:73`: `access` changes a copy of the block; no access ever hits
   (`cache`, `NothingKept`, for all geometries).
7. `dram_controller.cpp:69`: handlers are detached and use the controller after its
   destruction (`controller_destroy`).
8. `dram_controller.cpp:64`: accepted connections are never closed, so `accept`
   fails in the end for want of a descriptor; `start()` returns, clients go on
   connecting and wait for ever (`controller`, `EarlyEndIsFull`).
9. `dram.cpp:91`: an `access()` that returns without an exception has taken the
   end of the controller for a success (`controller`, `EndsWithController`).
10. `dram_config.cpp:120`: `extract` divides by a position instead of shifting by
    it. No accepted mapping decodes every address, and different ones differently
    (`config`, `NoMappingWorks`), and the top bank is none that exists
    (`TopIndexOutOfRange`). One thing is left of it: addresses that differ in a
    field get different numbers for that field (`FieldsToldApart`), so the
    mixing up comes from fields that overlap or miss bits of the address.
11. `system_config.hpp:107`, `110`: a bus or a word of 0 dies of the remainder in
    front of its test (`config`, `AcceptedExactly`).
12. `dram_config.cpp:156`: 32 bank bits or more pass and make no bank (`config`,
    `MemoryIsThere`).

## 4. What TLAPS proves

All for every value of the constants that meets the `ASSUME`s of the modules,
which say no more than that sizes are natural numbers, that `None` is not a client or a
row, that the addresses are natural numbers, that the bus of a class is a
multiple of the width of a chip (`dram_config.cpp:71`, used by the class; `ObjectsMeetAssumptions`
proves it of every configuration), and that the wide integers have three bits more than
the narrow ones and at most 255 (64 and 32 in the code). Each invariant is
proved from an inductive one:

| Theorems | Inductive invariant | Why the property alone is not inductive |
|---|---|---|
| `SubarrayTyped`, `SubarrayBufferCoherent`, `SubarrayImplementsCellArray` | `TypeOK /\ ClosedBufferMatchesRow` | reading from a closed subarray is a load only if the amplifiers still equal the row |
| `BankTyped`, `BankReadsNothingBack`, `BankLockstep`, `BankThrowingRead`, `BankImplementsWordArray` | subarray types, `Lockstep`, `Coherent` | a loop is all or nothing only because all subarrays are in the same state before it |
| `EqClassTyped`, `EqClassBlank`, `EqClassCrash`, `EqClassCallsFail` | types, every bank blank while alive, or with its row open after | the loop over the banks opens the row of each only because none has one open before |
| `ConfigTyped`, `AcceptsExactly`, `NoMappingEverWorks`, `TopIndexIsOut`, `DifferentFieldsDiffer`, `MemoryAlwaysThere`, `SizesDivide`, `ObjectsMeetAssumptions` | `Constructed` | an object exists only if `validate` has passed for some outcome of the undefined shifts, and the fields are those of the last address; see below |
| `DispatcherTyped`, `DispatcherServesRow`, `StopDrainsAll`, `NoWakeupLost`, `DispatcherIsInOrder` | `TypeOK /\ Placed /\ Tracked /\ Opened /\ Stopping /\ Ordered` | see below |
| `NumbersServedOnce`, `BanksFinishInOrder` | the above with `EveryNumberOnce`, `InFlightIsNewest` | the smaller number of the finished request follows from that of the one the dispatcher holds, which is the newest of all only if no number is taken twice |
| `StopWaitsForTransfers` | the above and `Woken` | after the notification of `stop()` the dispatcher sees the flag before it could sleep again |
| `EndlessOpenRowServesNobody` | `Held` | the number expected next moves with the one request that is held for good |
| `OneBankCyclesDisjoint` | the above and `Serial` | see below |
| `ClockStaysBounded` | the above and `Costed` | what tasks have loaded but not stored yet must be bounded too |
| `ControllerTyped`, `ControllerImplementsDispatcher`, `ControllerServesAndStops` | `ControllerTypeOK` | the steps of the server are steps of an environment the dispatcher allows, or stutter |
| `NothingEverDispatched` | `Blocked` | the queue holds only ones, and whoever has pushed is in it; numbers read from a destroyed controller come after the dispatcher has returned |
| `OneLateAtMost` | `Closing` | after the late connection the server is at the loop test, with the flag up |
| `EarlyEndMeansFull` | `Accepting` | only `stop()` closes the socket, and it raises its flag first |
| `ServesAsManyAsDescriptors`, `OutOfServiceForGood` | `Accepting`, `Blocked`, `Fits` | a blocked `accept` has its descriptor already; the queue holds requests of accepted clients because each handler pushes its own once |
| `HandlersAloneOutlive` | `Gone`, `Blocked` and `StopDrains` | a server that has returned does not come back |
| `AccessEndsWithController` | the property, nothing dispatched, no handler for a client that is out | a peer that is gone after its accept is a dead process |
| `PolicyTyped`, `PolicyIsFIFO` | `Faithful` | up to the wrap the counter is the number of insertions |
| `PolicyBeyondWrap` | `Wrapped` | beyond it the numbers are remainders, and what that leaves of the order is a statement about division |
| `CacheTyped`, `CacheKeepsNothing`, `CacheGeometryFits` | `TypeOK /\ NothingKept /\ GeometryFits` | way 0 is chosen only because all blocks are invalid |

The argument for the dispatcher: every request is in exactly one place (`Placed`);
a task in flight is the future of its bank, and no other is (`Tracked`), so
a bank has at most one; the dispatcher touches a row only after the future of
the bank is ready, so the row of a task in flight stays (`Opened`); what has been
taken up has a smaller number than what comes next (`Ordered`), which with one
task per bank gives the order of finishing; and the dispatcher returns with
no future left (`Stopping`), so that nothing is in flight then.

The clock with one bank. `SameBankCyclesDisjoint` is violated with two banks
(finding 4). With one, no transfer is in flight while the dispatcher opens a row, since it has
waited for the future of the only bank; so what it loads from the clock
is not below the end of any finished transfer, and what it stores undoes none.
`Serial` adds that a transfer in flight is the newest request started, which is
what keeps its own store harmless. The theorem so says where the error comes from.

Out of service. `NothingEverDispatched`, `AccessEndsWithController`, `EarlyEndMeansFull` and the
two theorems on descriptors add up: a controller accepts at most as many
connections in its life as it may have descriptors, answers none of them, and
when they are used up it accepts nobody for good.

How the dispatcher would fare with agreeing numbers: `EqClassCallsFail` shows that of the
two calls it makes to a class neither ever returns, and `EndlessOpenRowServesNobody` that it
then dispatches one request at most and starts no transfer. This is the way in
which the two modules are composed: the first theorem gives the values of `OpenRow` and
`Transfer` for which the second is about this code.

The arguments for the configurations are about numbers. Statements about all natural numbers
are shown as properties of sets of them: a set with 0 and every successor
is `Nat`, which `SetInduction` gets from the library's theorem that the strict subsets of
finite sets are well founded, with no operator as a parameter. On this rest
the laws of `pow2` (sums of exponents, divisors, order), and what `Value` spells: a number
below the power of the width, the positions recovered from it, the least position its largest
power of two. `ValidIsStated` and `StatedIsValid` then go through `validate` in exponents:
everything accepted is a power of two, quotients and remainders are differences
of exponents, and a cast keeps a power or makes it 0. `DifferentFields` needs
that positions which divide are smaller than the powers they stand for: numbers spelled in
the same mask differ by at least the power of its least position, more than that position.

The refinements are the step by step kind: initial states map to initial states,
and each action maps to an abstract action or a stutter (`NextRefines` in each module).

Every invariant, refinement and action property of the passing runs is proved. Only
model-checked are the liveness properties (`StopReturns`, `ExpectedIsDispatched`,
`StopCompletes`, `LateEndsStart`, `RequestArrives`), which with `ENABLED` are out of the
prover's reach; `StopWaitsForTransfers` is the part of the first that is a safety property.
Of the violated properties TLC shows the counterexamples; `OneBankCyclesDisjoint` and
`HandlersAloneOutlive` say what is left of two of them. `ServesFew`, `FullForGood`,
`OnlyHandlersOutlive`, `EveryNumberOnce`, `BankFinishesInOrder`, `WaitsForTransfers`,
`OneDispatched`, `CallsFail`, `SizesAsAssumed`, `FIFOModulo` and `FIFOBetweenWraps` are stated beside their theorems in the proof modules and not
repeated in a run.

## 5. What is not modelled

* The values of `calculate_timings`: it returns an uninitialised local, so the cycle
  counts are indeterminate; they are arbitrary constants in the dispatcher.
* Requests over 64 bytes (`dram.cpp:81` writes past the wire struct) and the raw
  `std::vector` in a `DRAMResponse`: undefined, and the latter never sent.
* The descriptors of client processes: a client calls `access()` once.
* Failures of `socket`, `bind`, `listen`, of creating threads; a full backlog.
* `stop()` before or during the first two steps of `start()`, and two calls of
  `stop()` at a time: data races on the members they share. A second `stop()` after
  the first, as in the destructor, changes nothing.
* The wrap of the 64 bit clock and counters.
* The next memory level of a cache (never set), latencies and time stamps
  (never read), data of a length other than a block's.
* `common/error.hpp`, `common/memory.hpp`: no state and no behaviour.

## 6. Plan

Done, in this order: subarray, bank, dispatcher, controller, equivalence class,
policy, cache; then the two configurations, the lifecycle of the controller and
the whole of its clients; each with its runs, and the theorems of section 4.

Then the proofs about the configurations, and the theorems that put results
together or go beyond a run: out of service, one bank, no circle of waits, the
policy beyond its wraps.

Next, most important first:

1. A formal instance of the dispatcher with the equivalence classes as its banks, so
   that `OpenRow` and `Transfer` are no longer constants.
2. The other side of `OneBankCyclesDisjoint`: for more banks, how far the cycles of two
   requests can overlap.
