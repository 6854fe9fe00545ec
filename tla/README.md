# A verification project for evm-bend

evm-bend is an EVM for the Amsterdam fork written in Bend, a pure language with
affine data. The repository carries the Bend toolchain it is built with
(`toolchain-debug`): loader, kernel, compiler, and the runtimes its programs run
on. This directory holds TLA+ models of both, TLC runs on small instances of
them, and proofs checked by TLAPS of what the EVM's core keeps true for every
gas schedule, program and state.

Paths below are relative to the repository; `call-enter.bend:60` without a
directory is in `full/`; `bend.ts`, `main.ts`, `comp.ts` and `effs/` are in
`toolchain-debug/`.

## 1. The system

| part | files | state | operations |
|---|---|---|---|
| gas meter | `gas.bend` | gas of the frame; reservoir, state_used, state_spilled of the engine | charge, spend_state, refill, rollback, settle, absorb |
| world journal | `world.bend`, `model.bend` | accounts with storage, original and transient storage, warmth; logs; refund; accounts up for deletion | read, write, transfer, warm, log |
| state opcodes | `state-ops.bend` | - | SLOAD, SSTORE, TSTORE, LOGn, BALANCE, EXTCODE* |
| message calls | `call-common.bend`, `call-enter.bend`, `call-finish.bend` | stack of suspended parents, each with a snapshot of the world | enter, refuse, fault, return |
| creation | `create-enter.bend`, `create-finish.bend`, `create-address.bend` | - | enter, collide, refuse, deposit |
| selfdestruct | `call-selfdestruct.bend` | - | transfer, mark |
| vm step | `vm.bend` | the machine: engine and parents | one transition by the action of the running frame |
| run loop | `runtime.bend`, the loop of `transaction-wide.bend` | fuel | iterate, ask the precompile host, cut off |
| frame control flow | `opcodes.bend`, `opcode-common.bend`, `opcode-stack.bend` | program counter, stack | decode, jump, immediates |
| memory | `memory.bend`, `input.bend`, `bytes.bend` | sparse radix tree | read, write, copy, expand |
| words, Keccak | `evmword.bend`, `word-ops.bend`, `keccak.bend` | - | 256-bit arithmetic on eight limbs |
| transactions | `transaction*.bend` | prepared engine and metadata | validate, debit, authorize, dispatch, settle, refund, pay, delete |
| precompile adapter | `precompile.bend/.c/.js`, `precompile-host/` | - | a request and a reply over a pipe |
| codecs, entry points | `codec.bend`, `render.bend`, `main.bend`, `evm.py` | - | parse and print |
| legacy Shanghai subset | root `*.bend` | - | superseded by `full/` |
| conformance runner | `conformance/*.py` | journal of results | run, resume |
| oracles | `envelope-host`, `revm-adapter`, `evm2-adapter` | - | wrappers of third-party EVMs |
| loader | `bend.ts` (book_load, parse_book) | the book, the files seen, the store of packages | load, fetch, declare |
| kernel and checker | `bend.ts` (term_*, book_valid) | the book so far, laws still open | normalise, compare, infer, check, one event of a book |
| matches | `bend.ts` (match_flatten) | - | clauses to case trees |
| command line | `main.ts` | - | run, check, check past a base, publish; build, bundle, mine |
| code generator | `comp.ts` 610-2892 | - | terms to C, CUDA, Metal, JavaScript |
| allocator, values | `comp.ts` (heap_*, bank_*, rfc_*, term_drop, blk_*) | slots, rows per lane, banks, counts | allocate, free, share, take, drop, copy |
| scheduler | `comp.ts` (ring_*, task_*, monk_*, pool_*, cube_run) | rings, joins, counters of a turn | fork, deliver, grow, work |
| native I/O loop | `comp.ts` (io_*, chan_*) | runnable, parked and blocked computations, helper threads, channel rows | step, park, poll, send, receive, close |
| JavaScript loop | `comp.ts` (RUNTIME), `effs/*.js` | the same, on one thread | the same |

How they interact. `transaction*.bend` (or `main.bend`, for a prepared frame)
builds an engine and hands it to the run loop. The loop calls `vm.step` once per
unit of fuel. A running frame executes one opcode; a call, a creation or a
selfdestruct only leaves a *request* in the frame's action, and the next
transition serves it, which suspends the frame on the stack of parents and
starts a child. A frame that ended is settled and merged into the innermost
parent by the transition after that. A precompile is a request too, answered by
the loop through the host. Nothing runs in parallel: what is hard there is a long
sequence of transitions over shared counters (the reservoir travels down and up
the call stack while `state_used` and `state_spilled` are kept per frame) and
the failures in the middle of it, where a journal snapshot and a meter must be
restored together.

What makes each part correct: the meter never makes gas and a rollback restores
the reservoir the frame was entered with; state gas is paid once for the state
there is; ether is conserved and explained by the logs; a failed frame leaves
nothing but the warmth and the nonce spent before it; a static frame changes
nothing; existing contracts survive; the machine stops, and before its fuel
does; a jump lands on an instruction; a transaction is charged for what it
used, between its floor and its limit, all the state it leaves is in the state
gas it reports, and a failed one leaves its fees, its nonce and the
authorizations it paid for.

The toolchain is the other way round. The loader reads files into a book, the
checker walks the book one declaration at a time, and a book that passed is
evaluated or compiled. A compiled program runs its computations on one loop
thread, hands blocking file calls to helper threads and pure work to a pool of
workers, and all of them allocate from one heap without a lock. A program for
JavaScript has one thread and the same effects. Hard here are interleavings
(rings, joins, counts, wakeups), reuse (freed rows and slots), imports that
break off, and rules whose point only shows over many calls (descent,
quantities, the order of clauses and of declarations).

What makes each part correct: an accepted program runs to a value, the one its
clauses say, and duplicates nothing; a book holds every file once, behind what
it imports, and a package is read as it was checked; every task runs once and
every join resumes once, when all is there; no count, slot, wakeup or
computation is lost or doubled; a channel is a queue that keeps its promises to
senders and receivers on both runtimes; finite programs end.

## 2. The modules

| module | models | extends |
|---|---|---|
| `Meter` | `gas.bend`: a record `[gas, reservoir, used, spilled]` and one operator per operation | - |
| `World` | `world.bend`: accounts as a total function, journals as records | - |
| `Vm` | the machine: one action per handler of `vm.bend`, `state-ops`, `call-*`, `create-*`, `runtime.bend`'s precompile answers | `Meter`, `World` |
| `Ledger` | the abstract promise of calls and creations: nested transactions over balances, nonces, code and storage | - |
| `VmProperties` | the invariants, the refinement of `Ledger` and termination | `Vm` |
| `Runtime` | the run loop of `runtime.bend` and `transaction-wide.bend` around the machine: fuel, escrow window, result | `VmProperties` |
| `Transaction` | a whole transaction around the machine: `transaction.bend`, `transaction-auth.bend`, `transaction-finish.bend`, `transaction-wide.bend` | `VmProperties` |
| `Jumps` | program counter, immediates and jump-destination scan of one frame | - |
| `Channel` | the abstract promise of a channel: offers in order, each received once, the truth told to senders | - |
| `Picks` | how both loops divide the activations they park | - |
| `Fibers` | the JavaScript loop and its effects | `Picks`; `Channel` by INSTANCE |
| `NativeIo` | the native loop, helper threads, wake pipe and channel rows | `Picks`; `Channel` by INSTANCE |
| `Sched` | rings, joins, workers and the main thread | - |
| `Heap` | the allocator: one operator per operation | - |
| `Terms` | nodes, count cells and arrays in that heap, shared by lanes of cores and of a GPU | `Heap` |
| `Kernel` | evaluation, conversion, inference and checking | - |
| `Matches` | clauses to case trees | `Kernel` |
| `Loader` | files to a book, a book to a package | `Matches` |
| `Checker` | the walk over a book, evaluation of main, publishing and importing | `Loader` |
| `MCWorlds`, `MCVm`, `MCRuntime`, `MCTransaction`, `MCJumps` | instances for TLC: up to five accounts (a contract with ether, one without, one that delegates, an absent one, a precompile; for transactions a sender and an absent coinbase), nine byte values | the above |
| `MCFibers`, `MCNativeIo`, `MCSched`, `MCTerms`, `MCChecker` | small programs, heaps, books and trees of files for TLC | the above |
| `VmProofs` | lemmas on meters, journals and steps of the machine; gas, static frames, contracts; the machine refines `Ledger`; ether | `VmProperties`, `InductionProofs` |
| `InductionProofs` | sums over finite sets, recursive functions on numbers, least counterexamples, sequences of any values | `Picks` |
| `JournalProofs` | refunds, warmth, logs, the price of state | `VmProofs` |
| `JumpProofs` | execution follows the scan | `Jumps`, `InductionProofs` |
| `RuntimeProofs` | result and window of the run loop | `Runtime`, `JournalProofs` |
| `TransactionProofs` | ether, charge and failure of a transaction | `Transaction`, `JournalProofs` |
| `FiberProofs` | the JavaScript loop: its channels, where its computations are, what is open | `Fibers`, `InductionProofs` |
| `NativeIoProofs` | the native loop: where its computations are, whichever thread holds them, and which rows are free | `NativeIo`, `InductionProofs` |

### How the state corresponds

* `frame` is the engine's frame without stack, memory, pc, input and return
  data. `frame.action` is `M.Action` with the operands of a request.
* `meter` joins the frame's gas with the engine's reservoir, state_used and
  state_spilled. Two more fields, `grant` and `entry`, are history: the gas and
  the reservoir the frame was entered with. No action reads them.
* `world` is the engine's journal, `parents` the list of suspended frames, the
  innermost last. A parent's `meter` holds what the code keeps in `Parent` and
  its frame; its reservoir is 0 while it waits, as `merge` rebuilds it.
  `Parent.kind` is split into `creation` and `charged` (bit 8).
* Code is a record: its length, whether it starts with 0xEF, and the account it
  delegates to. That is all that calls, deposits and emptiness look at.
* The program is arbitrary. A running frame may execute any instruction of
  `Instructions` with any operand of the constant sets, so what is checked holds
  for every program over them, and every re-entrance. Instructions that fail
  (out of gas, stack, invalid opcode, static violation) all do the same, fault
  the frame and leave the world alone; `Throw` stands for all of them and may
  happen at any time, which includes each case where the code faults. An
  instruction that succeeds has its guard from the code.
* A memory charge is an element of `MemoryCost`, so an out-of-gas in the middle
  of a request is reached as the code reaches it, with what was warmed so far.
* `Compute` covers all opcodes that touch only the frame.
* Refunds are integers where the code has two's-complement words;
  `RefundNonNegative` is why they do not differ.
* Balances and state_used are integers where the code has words of 256 bits:
  the total ether is conserved (`EtherConserved`) and state gas is bounded by
  gas of at most 2^24 + 2^44, so neither wraps. The code's `Nat` of 48 bits is
  `Nat`, its truncating subtraction is `ToNat` where it can bite (`rollback`).

### Runtime

`Tick` is one iteration, whatever the machine does. `Decided` and `Returned`
are the code's decision and what is handed back: the engine as it is when the
machine ended, marked HostLimit when the fuel is spent or the window left.
`finish_action` (`transaction-wide.bend:128`) turns that into Incomplete.

### Transaction

The code prepares, executes and settles in three function calls; the model has
one action per point where something can fail. `phase` says which part is left.

* `TxInit` is `accepted`: any transaction that passes `Valid` with its nonce
  spent and its gas paid. Calldata, access list and signatures count through
  what they cost (`IntrinsicCost`), what they warm (`AccessLists`) and whether
  an authorization passes the checks that need no state (`valid`). Validation is
  cut down to the conditions that later steps rely on; a rejected transaction
  changes nothing and is not modelled. There are no blob fees.
* `Authorize` is one round of `Auth.sequence`: skipped (its authority warmed if
  the signature was good), applied and charged, or the end of preparation.
* `Dispatch` and `DispatchFails` are `after_auth`, `dispatch` and
  `dispatch_ready`, with `adjusted`, which pays for the escrow from the world
  and from the snapshot. The counters of the authorizations move to `committed`.
* `Run` is any transition of `Vm`. Deposit, rollback, receipt, fees and
  deletions are one action, `Finish`; a HostLimit is `Abandon`. When the run
  loop cuts a machine is the matter of `Runtime`; here only a broken
  precompile host does.
* `receipt` is the code's `Settlement` with the gas used before refunds and
  whether the message succeeded. Wei are integers: validation bounds the fees
  and the value by the sender's balance.

### Jumps

`Skip` is the state of the tail-recursive scan at each position, a recursive
function over positions. Stack and gas are left out, so a jump may ask for any
target and any instruction may fault.

### JavaScript loop (`Fibers`)

`cur` is the computation inside the inner loop of `io_run`, `runs`, `live` and
`waits` are the fields of `BEND_IO`. An entry of `runs` is a continuation with
its argument, or a parked effect to be tried again (`Retry`), as `io_wake` does.
A row's `ring` and `wait` are the code's arrays. `Attempt` is the part of an
effect that may find the system unready: its answer, and that of `poll`, are the
system's choice. A text is its length; a partial send leaves any rest. A
program is arbitrary: a computation asks for any effect of `Effects` and may
emit, halt or throw at any time. `owns` is which computation holds a descriptor,
which affine handles make unique. `sent`, `refused`, `heard` and `asking` are
history, read by the refinement alone.

### Native loop (`NativeIo`)

`Run`, `Poll`, `Finish` and `Deadlock` are the iterations of `io_loop`, `Effect`
and `Emit` what a computation does inside `io_step`. `Fetch` and `Reply` are the
two critical sections of a helper thread in `io_help`, with condition variable
and pipe; the loop reads the pipe in `io_take`. A row's `gen`, `live`, `shut`,
`wait`, the ring with `head` and `size`, and the list of idle rows are those of
`chan_rows`. A handle is a generation and an index. Which descriptors are ready,
and whether a socket then blocks again, is the system's choice.

### Scheduler (`Sched`)

A program is a tree of tasks: `Kids` are what a fork deals, `Then` the task its
join continues as. A `bang` or a `cut` is a fork without kids. Rings have slots
with a lap bit; pushing is two steps, `Reserve` and `Publish`, since another
thread may empty the ring between them. Growing a row is done by one thread
alone, so a whole task is one step there. The pool's mutex sections are steps
(`Wait`, `Finish`, `Turn`, `TurnEnds`); a condition variable may wake early only
by a broadcast. Atomics are sequentially consistent in the model. The code's
acquire and release pairs order exactly the accesses the model orders, which is
an argument and not a check. Spinning on an unpublished slot is not a step.

### Heap and terms (`Heap`, `Terms`)

`Heap` has one operator per function of the allocator, from heap to heap. A
free slot holds the link to the one freed before it. `Terms` adds what programs
do: make a node, share a value (`Keep`), give one to another lane, take a node
apart, drop, fill, halve, join, read and clone arrays. Reads and updates of a
count that lanes share are steps of their own; the walk of `term_drop` is one
step a word, with its way back in word 0 and, in arrays, its index in word 1.
Constructors are hot, as `facts_hot` leaves those whose values are shared.
Arrays have one holder, as in the code. On a device only the lanes of a kernel
run, and its end cuts and packs their free rows.

### Kernel, matches, loader, checker

Terms are locally nameless records; higher-order abstract syntax becomes `Open`
and `Close`. Evaluation is call by name: the share cells of the code only spare
work. It is bounded by `Fuel`, and a term that runs out of it is `Lost`, which is
no value. `Infer` and `Check` are the bidirectional rules with the uses of each
variable, quantities and the left-hand side that descent is judged by; native
definitions of Base are opaque. Error texts and the elaborated term are left
out.

A path is a sequence of names. Every directory exists, nothing is a link, and
the suffix `.bend` is left out. A text is its imports and declarations, with
names as written. The hub gives a chosen number of answers (`net`) and then
none; a fetch that breaks off keeps what it wrote (`Rested`). The hash of a
package is a name. `seen` maps a file to nothing while it is read and to its
namespace after, as the code's map to null and a string.

`Checker` is the sequence a command runs: read the book, check one declaration
after another (`ValidAdt`, `ValidDef`), say whether laws are open (`Finish`),
evaluate main, or publish and be read by another user (`ImportIt`).

## 3. Runs

All runs finish within two minutes on two workers. Gas prices are small numbers
in the order of the real ones (a cold access costs more than a warm one, a value
call more than its stipend, a fresh slot or account more state gas than
execution gas); `WarmAccess = 1`, one unit of gas, is the hardest case for
termination. For fuel it is out of bounds: a call that costs one unit can take five
transitions, and `Fuel` grants four for each unit. The run of the loop lets it cost
two, the hardest case that `Metered` admits (the code's price is 100).
The depth limit 2 gives three nested frames, which is what it takes for a
grandchild's refill to meet a parent's spill and a grandparent's charge.

| run | instance | question |
|---|---|---|
| `calls` | re-entrant and static calls, SSTORE on an empty and a full slot, logs, transient storage; gas 9, reservoir 0 and 4 | `TypeOK`; `ReservoirBaseline`: a rollback would restore the entry reservoir at every moment; `SpillRepaired`; `RefundNonNegative`; `StaticIsReadOnly`; `Termination` |
| `access` | value calls in all four kinds to a contract, an account that delegates, an absent one and a precompile; refusals; reads; self-destructs, also to oneself; gas 7 | `ChangedIsWarm`, `NoGasMinted`, `EtherConserved`, `LogsExplainBalances` |
| `create` | nested creations with endowments, colliding addresses, deposits that are refused or too dear, writes and self-destructs in init code; gas 12 | `StateGasMatchesState`, `ExistingContractsSurvive`, `ImplementsLedger` |
| `runtime` | both loops around recursive calls that cost two units, writes and self-destructs; gas 0 and 9, reservoir 0 and 10 | `FuelSuffices`, `WindowKept`, `ResultIsFinal` |
| `transaction` | a message to a contract, an absent account, a precompile or the sender, with lists of up to two authorizations that apply, are skipped, clear each other or run out of gas, with an access list; or a creation at an absent address, at a contract's, at the coinbase's, with deposits that fail and deletions; gas with and without escrow, a low and a high floor. No calls: nested frames are the matter of the runs above | `EtherSettled`, `ChargeBounded`, `GasAccounted`, `StatePaid`, `FailureLeavesOnlyFees` |
| `jumps` | every code up to five bytes over STOP, ADD, JUMP, JUMPI, JUMPDEST, PUSH1, PUSH2, DUPN, EXCHANGE | `FlowFollowsScan` |
| `jumps_documented` | the same up to four bytes; TLC finds the violation | `JumpsSkipImmediates` |
| `fibers` | three computations with up to three effects each, one channel without and with room, one descriptor, one instant | `EachInOnePlace`, `WaitersMustWait`, `DescriptorsOwned`, `ImplementsChannel`, `Ends` |
| `native_io` | three computations, two rows used twice, two helper threads, a pipe for two, a look at it every second iteration; programs of channels, of everything, of file calls | `Accounted`, `RowsKept`, `ImplementsChannel`, `Finishes` |
| `sched` | four programs (a nested fork and a chain of joins, a call that forks, one that does not fork, one that deals nine tasks at once) on three workers and sixteen rings of two slots | `RunsOnce`, `NothingLost`, `Completes` |
| `memory` | two lanes of cores and one of a GPU, pages of two words, generations of two words, a heap of twenty pages; six programs that share, race, fill, copy, pass generations and run a kernel, each followed by any three operations | `CountsMatch`, `SlotsAccounted` |
| `kernel` | families of books: every one or two clauses of a function of a number, and families of two; what a function may do with two tokens under every choice of quantities; a book for each rule of the checker; trees of four files and a package, read past Base or not, fetched with every number of answers | `AcceptedRuns`, `TokensOnce`, `LoadedInOrder`, `PublishedReads` |

Each property also has a mutant (a definition marked "Mutant", next to the one it
replaces) under which its run fails: a dropped repair, a bell not rung, a row that
comes back in its old generation, a static flag that is not handed down, and so
on. They show that the property depends on the code.

### Bounds

* `runtime` has a slack of 12 where the code has 4096 = 4 * 1024: what calls spend
  without gas is up to four transitions for each open frame, and the instance has
  three frames, the machine 1025 at most.
* `native_io`: two generations are what reuse takes, a full pipe and a look at it
  every second iteration are the code's 64 KiB and 64 made reachable, and two
  helpers are what it takes for one to sleep while another works.
* `sched`: `RING_LEN` 2 makes laps and full rings reachable. The code stops a
  process whose ring is full ("ring"); the fourth program does that, the others
  never may.
* `memory`: a generation of two words is one node or two cells, so every bank and
  every handing over is reached with six values.
* `kernel`: two clauses over one argument and three over two include every
  combination of growing and shrinking columns that the descent rule tells apart;
  `Fuel` is far above what the accepted mains need, so `Lost` is an endless one.

### Fairness and deadlock

`Termination` is checked under `WF_vars(Next)`: the run loop is sequential and
takes the next transition as long as there is one. No action has fairness of
its own: which instruction comes next is the program's choice, and a
program may always choose another. `Ends` and `Finishes` assume that the loop's
thread goes on while it can (weak fairness of its steps), that each helper thread
does, that time passes while somebody sleeps, and that a descriptor which poll
reports ready again and again answers at last (strong fairness): the code
re-parks such an effect, so nothing less ends it. `Completes` assumes only
`WF(Next)`: some thread that can go on does, because every step is progress and a
spinning thread takes none. The other runs check safety alone. Deadlock is
checked where the end is an explicit stuttering step (`Halt`, `RunHalt`,
`TxHalt`); a process that exited, a finished book or a spent bound really stops,
and those configurations say `CHECK_DEADLOCK FALSE`.

### Disagreements

`jumps_documented` records a divergence. `AMSTERDAM-SPEC.md:105` says that the
analysis skips the immediate of DUPN, SWAPN and EXCHANGE; the code skips PUSH
data only and says so. `FlowFollowsScan` shows why the code's choice is
consistent: every immediate byte that those instructions accept is one byte
wide for the scan, so execution and scan never disagree on a boundary.

Met while modelling, and kept out of the instances or the properties so that the
rest can be checked:

* `main.ts:369-373` refuses to publish "an absolute import". When another path
  of the book climbs with `..`, the absolute path is joined below an ancestor
  first and passes the check, and the package names a path nobody else has.
  `Slips` in `MCChecker` marks these trees; they are read but not shared.
* `bend.ts:85-87` says that a package is "fetched from BEND_HUB on a miss". Only
  a missing Bend file is such a miss (`bend.ts:997`). A foreign file that was not
  written when an earlier fetch broke off is never asked for again.
  `PublishedReads` therefore only demands that foreign files are in the package.
* A write into the store (`bend.ts:1004`) that is cut short leaves a file that no
  later import compares with the hash. A write is one step in the model.
* A law of another package that a user's foreign definition fills has a key that
  begins with `0x`, and `main.ts:361` leaves its file out of the package.
  No such book is among the instances.
* In JavaScript a sender whose value is `null` looks like a receiver to
  `chan_send` and `chan_shut` (`comp.ts:6244`). `js_expr` compiles erased terms to
  `null` (`comp.ts:3008`); values in the model are never null.
* Sleepers and descriptors are polled only when nothing is runnable
  (`comp.ts:6173`), so computations that keep each other runnable hold them up.
  `Ends` and `Finishes` are about finite computations.

## 4. Proofs

`tlapm` on each of the eight modules named `...Proofs`. The assumptions are those
declared with the constants: prices are naturals, a warm access costs at most a
cold one, the stipend at most the value charge, the start is a world, rooms are
naturals. Some theorems have hypotheses on the start besides, which
`StartAssumption` evaluates on the instances. `FreshStart` and `FreshJournal` hold
of every transaction that `transaction-world.bend` prepares:

* `FreshStart`: no contract begins marked as created by this transaction or up
  for deletion. A prepared frame that `main.bend` reads may carry both marks,
  and then a self-destruct may delete the contract.
* `TidyStart`: an account without code has no remains of one, and one without
  nonce and code has no storage. This is a hypothesis on the state of the chain,
  which the code does not check: `collision` (`create-enter.bend:12`) does not
  look at storage, so an account with storage alone would lose it to a
  creation or to pruning. It also says that an empty output is the empty code, and
  one that reads as a delegation begins with 0xEF.
* `PrunedStart`, for `StateIsPaid` alone: no account of the start is empty and exists
  (EIP-161), and the sender has a nonce or ether. The input does not have to be like
  that: `evm.py:75` takes an account for existing unless told otherwise, and
  `full/transaction-audit.md:26` speaks of pre-existing empty accounts. The fees or
  an authorization bring such an account, or a sender that is new, to life without a
  charge.
* `FreshJournal`: the journal begins without logs, without refund, with the
  original storage equal to the present one, and with the callee warm.
* `IsFiniteSet(Address)`: where a sum over all accounts is meant.
* `Metered`, for the fuel alone: the loop grants at least four transitions for each
  unit of gas and two besides (`full/runtime.bend:104`), every instruction that does
  not end its frame costs gas, and a call or a creation costs two units or more.

Nothing else is assumed: addresses, depth, program, prices, fuel, computations,
channels and codes are arbitrary.

| module | theorem | states | under |
|---|---|---|---|
| `VmProofs` | `TypeCorrect` | `[]TypeOK` | |
| | `RollbackRestores` | `[]ReservoirBaseline` | |
| | `GasNotMinted` | `[]NoGasMinted` | |
| | `SpillAlwaysRepaired` | `[]SpillRepaired` | |
| | `StaticFramesAreReadOnly` | `[]StaticIsReadOnly` | |
| | `ContractsOutlive` | `[]ExistingContractsSurvive` | `FreshStart` |
| | `CallsAreTransactions` | `ImplementsLedger` | `TidyStart` |
| | `NoEtherMadeOrLost` | `[]EtherConserved` | finite, `TidyStart` |
| `JournalProofs` | `RefundsAreCovered` | `[]RefundNonNegative` | `TidyStart`, `FreshJournal` |
| | `ChangesWerePaidFor` | `[]ChangedIsWarm` | `TidyStart`, `FreshJournal` |
| | `LogsTellBalances` | `[]LogsExplainBalances` | `TidyStart`, `FreshJournal` |
| | `StateIsPaidFor` | `[]StateGasMatchesState` | finite, `TidyStart`, `FreshJournal` |
| `JumpProofs` | `ExecutionFollowsScan` | `[]FlowFollowsScan` | |
| `RuntimeProofs` | `ResultIsTheOutermost` | `RunSpec => []ResultIsFinal` | |
| | `WindowIsNotLeft` | `RunSpec => [](InReach => WindowKept)` | finite, `TidyStart`, `FreshJournal` |
| | `FuelOutlasts` | `RunSpec => []FuelSuffices` | finite, `TidyStart`, `FreshJournal`, `Metered` |
| `TransactionProofs` | `EtherIsSettled` | `TxSpec => []EtherSettled` | finite, `TidyStart` |
| | `ChargesAreBounded` | `TxSpec => []ChargeBounded` | finite, `TidyStart` |
| | `FailuresLeaveFees` | `TxSpec => []FailureLeavesOnlyFees` | finite, `TidyStart` |
| | `GasIsAccounted` | `TxSpec => []GasAccounted` | finite, `TidyStart` |
| | `StateIsPaid` | `TxSpec => []StatePaid` | finite, `TidyStart`, `PrunedStart` |
| `FiberProofs` | `NobodyWaitsInVain` | `[]WaitersMustWait` | |
| | `NobodyIsLost` | `[]EachInOnePlace` | |
| | `NothingLeaks` | `[]DescriptorsOwned` | |
| `NativeIoProofs` | `EverybodyIsAccounted` | `[]Accounted` | |
| | `RowsAreKept` | `[]RowsKept` | |

Gas. The inductive invariant is `IInv == TypeOK /\ MeterInv`, where `MeterInv` says
three things. `Sound(meter)`: reservoir + used - spilled is the reservoir at
entry, and gas + spilled is at most the grant, so spilling never hides gas.
`SpillsLast(meter)`: a spill leaves no reservoir. `Linked`: every parent with
the meter of the frame above it satisfies the same two equations once the
child's entry reservoir is put back in the parent, the child's grant, stipend
included, fits in what the parent was charged, and a parent that has spilled had
no reservoir to hand down. The properties alone are not inductive: what a frame
returns is bounded only through its grant, and what a parent gets back only
through the child's entry reservoir. The steps that change gas are lemmas on
meters alone: charging, spending state, refilling, settling and merging preserve
soundness (`RollbackSound` and `MergedSound` carry the argument about failure).
There is one lemma per group of actions, and `NextInv` joins them.

Static frames. `StepShape` shows once that every step of the machine is quiet, a
push or a pop of the stack of parents, with what each does to the flag, the
depth and the state that counts; `SInv` is kept by the three shapes alone. It
adds to `IInv` that a child of a static frame is static and that nothing
persistent has changed anywhere above one (`StaticBelow`: the property only
speaks of the running frame, but a frame that returns needs it of every
snapshot), that no creation waits below a static frame (a failed creation would
otherwise put back another world), and that a frame's depth is the height of the
stack.

Contracts. `KInv` says of the journal and of every snapshot that the contracts
of the start are what they were (`Kept`), and of every creation that waits for
its code that it is not at such an address, unless it has collided and its frame
is a fault (`CreationsElsewhere`).

The ledger. `LInv` adds to `IInv` three facts without which steps of the machine
are not steps of `Ledger`. `OrderlyBooks`: in the journal and every snapshot an
account without code has no remains of one, and one without nonce has no
storage, so pruning an emptied account is invisible in the ledger; a frame that
returns nothing returns the empty code. `Housed`: code runs at the address of a
contract, which lasts as long as the frame. `Awaited`: a creation that waits for
code started where there was no contract, and has a nonce and no code until its
own end, so a deposit is what the ledger calls a commit. `NextBooks` shows for
every action that it keeps `LInv` and is a step or a stutter of the ledger. Ether
then needs the ledger only: `Solvent` says that the journal and all snapshots
are worth the same, and each step of the ledger keeps it.

The journal. Almost every operation on a world is careful: it takes no warmth
away, warms what it changes and leaves refund and storage alone. `JInv` adds to
`LInv` that the journal and every snapshot are `Good`: `Owed` (a refund for each
cleared slot), `Warmth`, `Explained` (logs against balances) and `Rooted` (only a
contract has original storage, so clearing a new account's forgets nothing); and
`Hot`, which says from when on which addresses are warm. A store is the one
operation that is not careful, and its cases are gone through for `Owed`.

State gas. `GInv` adds the books. What all open frames have booked is the price
of the state in the journal, and what the frames below a snapshot have booked is
the price of the state in it, with the account its child was charged for
(`Due`), since that account is paid before the snapshot is taken and given back
if the child fails. So a rollback takes back both the state and its price. Most
operations add no state that has a price; a birth, a store and a deposit are
paid for as they happen. `InductionProofs` has what is needed about sums.

The loop. The result follows from `SInv`: the loop looks at the depth of the
frame that ended, and depth is the height of the stack. For the window each
frame's entry reservoir is the one below less what was used and not spilled
(`EnteredStep`), so by induction over the stack it strays from the root's by no
more than the books say (`EnteredNear`). `WindowKept` holds under `InReach`, which
bounds the price of the state in every journal by the code's `Drift`; that gas
bounds that price is an argument on the real prices
(`transaction-wide.bend:144`) and checked on the instance.

Fuel. The variant is over all frames. `Purse` is the gas, the reservoir and the net
state gas used of every frame that is open; a call moves gas between purses, and
what state gas takes from the pools it adds to what is used. The books show that the
purses are never overdrawn: all state gas used is the price of the state that is
there, which is not negative. Four times the purses, a rank of the action that is
due (a call that was asked for takes more transitions than a running frame) and three
for each suspended frame are together at most the fuel that is left, and each turn
of the loop takes at least one from them. With no fuel nothing is left to do.

Jumps. `FlowFollowsScan` is inductive as it stands once the scan is unrolled:
over the data of a PUSH `Skip` counts down to zero, and a valid immediate is one
byte wide. That `Skip` is what its equation says follows from the existence of
a recursive function on numbers, and that is shown in `InductionProofs` by a
least counterexample, which needs no induction theorem with an operator.

Transactions. `Prepaid` says of the world before the message that nothing has
been taken but the price of some gas from the sender, and nothing changed but
its nonce and accounts that authorized. While the message runs, the machine is
in order (`LInv`, which does not depend on how it began), the rollback world is
`Prepaid`, and every journal is worth as much as it (`Solvent`). `Concluded` is
what the end adds up to: a completed message has kept the ether, a failed one is
back in the rollback world, and the receipt is bounded by the soundness of the
outermost meter.

What gas is left and what state was paid for. The books of `GInv` are kept against
a world that is a parameter, so that they apply to a message that starts in the
middle of a transaction: that world is the journal when the message is dispatched,
and the payment for the escrow moves both sides alike. `Enlisted` says that nothing was written
before and what authorizations have used, `Backed` that this and what the first
frame got are together what was bought; with the books, what a message hands back, in gas, in reservoir and in state
gas, adds up. A transaction whose message is never dispatched is the other case.
For the state, `Billed` says of the world before the message that every account that
authorizations brought to life and every first designation is on a bill, and the
bill is in the meter; applying an authorization and the dispatch extend it, nothing
else moves it. `OutcomeShown` says that a message ends with a journal whose slots,
births and code are in its price; settling only clears code and storage and brings
the coinbase to life (`Fewer`). So a slot that the transaction filled the message
filled, an account it brought to life an authorization or the message did, and the
code it added the message deposited (`Chain...`).

Channels. `RowOk` is judged of one row: who waits is all receivers on an empty
ring or all senders on a full one, nobody in a closed row, and the ring is within
its room. Each operation of a row (`Wake`, `TakeRow`, a value stored, a waiter
added, `ShutRow`) keeps it, and every other step leaves the rows alone. Values
and waiters have no type: `IsSeq` says only that rings and waits are sequences.

The loop's computations. `PInv` adds to the rows where everybody is. The
runnable, those that wait on the loop, each row's waiters and the one inside the
loop have nobody in common and nobody twice (`Apart`), and `live` is how many
they are (`Crowd`). An effect, a turn of the loop or a poll moves somebody from
one of these places to another: `Parks`, `Enters`, `Wakes`, `Queues`, `Shuts` and
`Polls` are lemmas about places alone. Only a spawn adds one, with an id that
nobody has had, and only `Emit` takes one away. `Picked`, which a poll divides
the waiters with, is a recursive function, so what it returns
(`PickedLine`) is shown by a least counterexample as for `Skip`.

Descriptors. `OInv` adds `Books`: the connects that are interrupted (`Dials`), the
hands and the open descriptors agree, and no two computations connect on one
descriptor. When a connect ends, it must be gone from the books whatever its
end is: its computation is in one place (`PInv`), so the entry the loop took out
was the only one. Everything else adds entries that connect to nothing (`Tame`).
A send in parts is written back as a send (`WellSent`), or its next attempt could
be another effect.

The native loop. Here two kinds of thread move the computations, so `NInv` counts
instead: `Everywhere` is the sum, over the queues of the loop, the jobs, the hands of
the helpers, the pipe, the rows and the loop itself, of how often a computation is
there. Each step takes somebody from one place and puts him in another, which keeps
every sum (`Kept`); a spawn starts one with an id that had none, and `Emit` ends one
(`SpawnKept`, `EmitKept`). The steps of a helper only move between jobs, hand and
pipe (`HelperKept`), those of the loop's turn only between pipe, parked and runnable
(`ReadiedKept`), so that the two kinds of thread do not disturb each other. `Away`
follows with the lengths. The rows rest on the sums: `RowOk` is about what a waiter
waits with, which is in the computation's own item, and a computation that waits in a
row is nowhere else (`WaitsNowhere`), so nothing else writes its item. `IdleOk` says
which rows are free; it holds because a row is freed once only, being live before.

Only model-checked: liveness (`Termination`, `Ends`, `Finishes`, `Completes`: out
of the prover's reach); `Kernel`, `Matches`, `Loader` and `Checker` (RECURSIVE
operators); and, so far, both refinements of `Channel` and the properties of
`Sched` and `Terms`.


## 5. What is left

Modelled apart that could be composed: `Transaction` runs the machine without
`Runtime`'s loop around it, and the loops of `Fibers` and `NativeIo` run programs
that are arbitrary rather than terms of `Kernel`.

Worth proving next: that both loops implement `Channel`.

### Not modelled

* Memory's radix tree, 256-bit arithmetic, Keccak: functions over data without
  control of their own; unit and differential tests reach them, and TLC would
  only enumerate a sliver. `Vm` takes a memory charge as an input.
* Codecs, rendering, entry points, the transaction environment and the oracle
  adapters: text in, text out.
* The pipe protocol of the precompile host: `Vm` models its three outcomes.
* The legacy Shanghai subset at the root: superseded by `full/`.
* The conformance runner: its journal of results is a log read back by one
  process; a broken line at its end stops the resumed run by an exception.
* The parser and printer of terms (`bend.ts` 1485-2450 but for the parts mapped):
  no state beyond a position.
* The code generator (`comp.ts` 610-2892): that compiled code computes what the
  term does is a statement about C; what its output does at run time is modelled
  in `Heap`, `Terms`, `Sched`, `NativeIo` and `Fibers`.
* The GPU back end's kernels and dispatch: only what a kernel does to the heap is
  in `Terms`.
* Building, bundling and mining of `main.ts`: files and subprocesses in sequence.
