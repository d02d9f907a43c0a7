# TLA+ specifications of MAPS

MAPS is a simulated computer with a matrix accelerator: an RV32I machine
(`maps-sim`), an NPU behind memory-mapped registers, a small operating system
(`maps-os`), a compiler that prints C for it (`maps-compiler`) and the
documents that hold them together (`maps-abi`). These modules specify its core
logic; TLC checks them on small instances, and TLAPS proves for every value of
the parameters what TLC finds to hold, except for the two liveness properties
and with a hypothesis for one invariant (section 5).

Paths below are relative to the repository root.

## 1. The system

    host / tests          user program (user/, or C from TensorC)
         |                      | ecall, trap.S, dispatch, drivers
         |                CPU -> Bus -> DRAM, console
         |                      | stores to DESC_ADDR and CMD
         +------------> NpuDevice
                           | submit, run
                        Controller --- Scheduler (the plan of tiles)
                           |  for each tile: A, B, C in; product; C out
                        DmaEngine <-> Buffers <-> Array of PEs
                           |
                          DRAM (the same memory)

| component | state | operations | talks to |
| --- | --- | --- | --- |
| Descriptor (`npu/descriptor.cpp`) | ten fields | validate, load from memory, store to memory | Memory |
| Scheduler (`npu/schedule.cpp`) | three loop counters, the plan | build_plan | called by Controller |
| DmaEngine (`npu/dma.cpp`) | bindings, one request, has_request, state, error, stats | bind_memory, bind_buffer, submit, run_sync, reset | Memory, Buffer |
| Array, PE (`npu/array.cpp`, `pe.cpp`) | per element: mode, two outputs, stationary register, partial sum | run_gemm_tile, tick | called by Controller |
| Controller (`npu/controller.cpp`) | current descriptor, state, error, counters, buffers, plan | submit, run, load_*, read_output_data, bind_memory, reset | all of the above |
| NpuDevice (`npu/device.cpp`) | desc_addr | write32, read32, bind_memory, reset | Controller, Memory |
| Bus, Memory (`common/`) | DRAM words, console text | byte, halfword and word accesses | NpuDevice |
| CPU (`cpu/cpu.cpp`) | registers, pc, CSRs, halted, faulted, ecall_pending | step, run, reset | Bus |
| Machine (`system/machine.cpp`) | exit code, console | run, handle_syscall, reset | all |
| Loader (`system/loader.cpp`) | none | load bytes, binary, ELF | Bus |
| maps-os | trap frame, static descriptors, .bss | boot, dispatch, console and NPU drivers, exit | CPU, devices |
| bare-metal runtime (`maps-sim/src/runtime`) | none | NPU driver, machine calls | CPU, devices |
| TensorC (`maps-compiler/tensorc`) | symbol tables | lex, parse, analyse, print C | user runtime API |

Everything is sequential: one thread, no callback, and the NPU runs to the end
inside the store that starts it. What is hard is not concurrency but

* **the order of calls**: the DMA engine, the controller and the device are
  objects whose operations a host calls in any order, with failures between
  them (a request cancelled but kept, a descriptor rejected with the old one
  still there, storage rebound under a pending request);
* **numbers at a boundary**: UINT32 loop counters and byte offsets next to
  UINT64 checks, clipped edge tiles, the cycle at which a result leaves the
  array;
* **state left behind**: buffers that are not cleared, pipes of the last tile,
  partial sums parked in the result matrix;
* **failure half way**: a transfer, a run, a text on the console, and two
  status fields that many paths set separately;
* **the trap path**: argument registers moved through one another and a return
  address that must survive a function call nobody sees;
* **two readers of one text**: the front end of TensorC decides what a name
  means, and the C compiler that gets its output decides again.

What makes each component correct, in a line:

* Scheduler: the plan covers every term of the product once, inside the
  matrices, in the order that lets sums accumulate; and it ends.
* DmaEngine: DONE means the rectangle moved and nothing else; an accepted
  request cannot fail; a cancelled one cannot run.
* Array: the tile returned is `C + A B`, in every dataflow, whatever ran before.
* Controller: a run is the whole product or no effect; STATUS and ERROR agree.
* NpuDevice: START answers for the descriptor in memory now; refusal is inert.
* Bus, CPU: an access is done whole or not at all; a step that faults has no
  effect but the link of a jump.
* Machine: `run` answers for the program since the last reset.
* Loader: an image arrives byte by byte, the last segment on top.
* Bare-metal runtime: a GEMM that returns 0 has been run, and the three reports
  of `main` agree.
* maps-os: a system call gets what its caller passed and returns to it; the
  host learns what the program returned.
* TensorC: a name means the same in the C text as in the program.

`PROJECT.json` lists the components, the hazards at the line where each bites,
and the properties that watch it.

## 2. Modules

| module | models | length of a behaviour |
| --- | --- | --- |
| `Descriptor` | descriptor record, validation, memory image | operators |
| `Tiling` | the plan in closed form (`PlanOf`), tile algebra | operators |
| `Schedule` | `build_plan`, one action per turn of a loop | one call |
| `ScheduleProofs` | theorems about `Schedule` | |
| `Transfer` | a DMA request, its checks, its effect in closed form | operators |
| `Dma` | `DmaEngine`, `run_sync` word by word | `MaxCalls` calls |
| `SystolicArray` | the PE grid, one action per cycle | `MaxTiles` tiles |
| `UnitProofs` | theorems about `Dma` and `SystolicArray` | |
| `GemmOps` | matrix regions, product, range and capacity checks, the controller's registers as one record | operators |
| `GemmOpsProofs` | lemmas about `Descriptor`, `Tiling` and `GemmOps` for the proofs below and those of `Schedule` | |
| `Gemm` | abstract NPU: every operation, `run` included, is one step | |
| `Controller` | the real controller: `run` tile by tile through the buffers | `MaxCalls` calls |
| `ControllerProofs` | theorems about `Controller`, the refinement of `Gemm` among them | |
| `Device` | registers, START, over the controller of `GemmOps` | `MaxCalls` accesses |
| `DeviceProofs` | theorems about `Device` | |
| `MapsOs` | boot, trap path, drivers, exit | `MaxCalls` system calls |
| `MapsOsProofs` | theorems about `MapsOs` | |
| `Bus` | address map, accesses of three sizes, the NPU's registers behind it | operators |
| `Cpu` | one instruction, as the set of what it may leave | operators |
| `Loader` | words, bytes, files, segments | operators |
| `Machine` | `run`, the machine's system calls, the host around it | `MaxCalls` calls of the host |
| `MachineProofs` | theorems about `Machine` | |
| `Baremetal` | crt0, NPU driver, `main`, exit | `MaxCalls` calls of the driver |
| `TensorC` | names in `sema.py` and in the C of `codegen_c.py` | `MaxStatements` statements |
| `ProgramProofs` | theorems about `Baremetal` and `TensorC` | |

How they compose: `Controller` uses the plan of `Tiling` (which `Schedule`
computes: `ReturnsPlan`), the effect of `Transfer` (which `Dma` leaves:
`DoneMovesRectangle`) and the sum of products (which `SystolicArray` returns:
`ReturnsProduct`). It is shown to implement `Gemm`; `Device`, `Bus`, `MapsOs`
and `Baremetal` are built on that interface, the operators of `GemmOps`. Each
level thus uses of the one below only what a theorem of section 5 states. `Machine` puts
`Bus`, `Cpu` and `Loader` together; `MapsOs` and `Baremetal` are the two kinds
of program that run on it, written one label of their code at a time instead of
one instruction. The specification of `SystolicArray` is `ArraySpec` and that of
`TensorC` `TCSpec`, so that a module can extend two of them.

### State and code

* `Schedule`: `m0 n0 k0 plan` are the locals of `build_plan`. `Enter` is lines
  6-19 of `schedule.cpp`, `PushTile` a turn of the innermost loop, `NextN` and
  `NextM` its exit and that of the middle one with the increments of `n0` and
  `m0`. `Add` is UINT32 addition.
* `Dma`: a variable per member of `DmaEngine`, plus `row` and `col` of
  `run_sync`'s loops. `running` separates the words of a transfer, and no call
  of the host comes between them. `atSubmit` and `atRun` are history.
* `SystolicArray`: `out0 out1 held psum` are the registers of every `PE`;
  `held` is `weight_reg_` in WS and `input_reg_` in IS, of which a tile loads
  one only. `Call` is `run_gemm_tile` up to the loop over cycles; `Tick` is a
  turn of that loop with feeding, `tick_grid` and, in WS and IS, the capture
  of outputs; `Return` is what follows.
* `Controller`: `desc state error perf` and the buffers are the members of the
  same name. `todo` is the part of `plan_` that the loop of `run` has not done
  and `phase` where in `run_tile` it is. `mem0` to `error0` remember what
  `run` found.
* `Device`: `descAddr` is `desc_addr_`; `reply` is what the last access
  returned. `StoreImage` is any program that writes ten words where a
  descriptor will be read.
* `MapsOs`: `pc` is a label of the code and one action runs from one label to
  the next; `regs` holds the registers the trap path touches, `csr` the two
  CSRs, `saved` the word of the trap frame, `asked` what the caller passed
  (history). The user program is any sequence of up to `MaxCalls` runtime
  calls.

* `Machine`: `cpu` and `bus` are records of the members of `Cpu` and of what is
  bound to the `Bus`. `Step(cpu, bus)` is the set of what `Cpu::step` may leave:
  more than one only where a store starts an NPU whose C overlaps A or B. `loop`
  is the loop of `run` the host waits for, with the turns it has left, and no
  host acts while there is one. `stop` is history.
* `Loader`: a file is what its header and its program headers say. The writes
  of a load are a fold, which the first one refused ends.
* `Baremetal`: as in `MapsOs`, `pc` is a label. `back` is where the driver
  returns to: the program may make other calls of the driver before `main`'s
  GEMM, as an example other than `main.c` would. `asked` is history.
* `TensorC`: `scopes` is the stack of `symbols` that `analyze` copies, each with
  the names the C block it becomes declares; `file` and `emitted` are the file
  scope of the C text. An action is a statement; `Close` ends a block and
  `Finish` the program, where names the blocks did not have are looked up in the
  file. A symbol carries which declaration it is, so that a name C finds can be
  compared with the one `sema.py` found.

### What is abstracted

* Words are mathematical integers in matrices and buffers: overflow of
  `int32_t` is outside the ABI (`maps-abi/npu.md`). Addresses, dimensions and
  counters that the code computes in UINT32 keep their width, with `Word`
  standing for 2^32 (a parameter, so that an instance can reach it).
* `Buffer`'s access counters are left out: nothing reads them. So is the
  `array_.reset()` of `Controller::run` and `Controller::reset`, whose effect
  `run_gemm_tile` repeats.
* The checks that a pointer handed to the array is not null are left out of
  `SystolicArray`: its one caller passes vectors.
* The result of a GEMM whose C overlaps A or B is left open: the code does not
  check for it and the ABI promises nothing. Everything outside C is still
  specified.
* In `MapsOs` an instruction of straight-line code is not a step of its own.
  Nothing can come between two of them: there are no interrupts.
* The million polls of `npu_submit` and of `maps_npu_gemm` are one: the NPU is
  never busy when the CPU runs, so all of them read the same.
* In `Cpu` the fields of an instruction word come from the table `Decode`; what
  is not in it is what `execute` refuses. The register file has the registers an
  instance uses. A word has four bytes of `Byte` values each, `Word = Byte^4`.
* A bus, a CPU or a device with something not bound to it is left out of
  `Machine`: its constructor binds everything. `e_entry` is too: it goes to the
  host, which may pass it to `reset` or not.
* In `Loader` the checks of the ELF header are one truth value, those of the
  table another and the place of a segment in the file a third. An address is
  taken modulo the word, as the code's addition does.
* `maps_runtime_init` and `maps_runtime_fini` are weak and absent.
* In `TensorC` an expression is the int32 names it is made of, a literal or an
  operator over them, or a variable, element or call. `print` has no names. A
  name that is a keyword of C or one of the runtime's is left out, and so is a
  function defined twice, which `analyze` rejects first of all. A `for` without
  a declaration is a `while` as far as names go.

## 3. Runs

Every run has its configuration in the `.cfg` of its name; the `MC` modules
hold the values that do not fit there.

| run | question | instance |
| --- | --- | --- |
| `schedule` | is the plan an exact partition, in order, without wrap, and does it end? | `Word = 32`, dimensions 1, 3, 4 with tiles 1 to 3, dimensions just below half the word with tiles up to it, invalid descriptors |
| `dma` | any order of calls and bindings | two memories and two buffers of different sizes, requests that fit both, one, none, overlap, are malformed; 9 calls |
| `array` | three dataflows, reused array | 3 x 2 elements, full and clipped tiles, deep ones, ones that do not fit; two tiles in a row |
| `controller` | tiled run against `Gemm` | 2 x 2 array, 20 words of memory, `Word = 128`, every dataflow and edge shape, overlapping, invalid, out-of-range and too-large ones; 4 calls |
| `device` | registers and START | 28 words, descriptors stored properly and raw images, misaligned and out-of-range DESC_ADDR; 5 accesses |
| `maps_os` | whole programs | three system calls, each good, bad, null, faulting or unknown; both results of `user_main` |
| `npu_submit_returns`, `write_returns` | two findings below | as `maps_os` |
| `machine` | instructions, traps, system calls, loads and resets in any order | `Word = 256` with bytes of 4 values, 24 words of memory, 44 instruction words, 29 programs, five ELF images; 3 calls of the host |
| `baremetal` | the driver, in any order, and what `main` reports | 32 words, 12 GEMMs the driver or the device refuse or accept; 3 calls before `main`'s own |
| `tensorc` | names in the program and in its C | two names, 13 expressions, 8 declarations of a tensor; 4 statements, blocks 3 deep |
| `tensorc_declares` | the third finding below | as `tensorc` |

### What they check

`schedule`: `Partition` (every term once), `TilesInside`, `AccumulatesInOrder`
(a tile not at depth 0 follows the one that ends there), `ReturnsPlan` (the
closed form used elsewhere), `CountersAdvance` (no counter wraps), `Returns`.

`dma`: `DoneMovesRectangle`, `AcceptedNeverFails` (a request run with the
storage it was checked against), `OnlyPendingMoves` (a request that was
cancelled by another submit, a null binding or a failure is never run).

`array`: `OperandsMeet` states for every element and cycle which operands are
in its pipes and how much of the sum it holds; `ReturnsProduct` is the result.

`controller`: `ImplementsGemm` is the refinement: outside a run the abstract
state is the controller's, during one it is what `run` found, so that the last
store, or the failure, is the one step `Gemm` takes. It covers memory, status,
the counters in closed form and what the host reads back. `PartialSums` says
what C holds between tiles. `ChecksSuffice` says that after the checks of `run`
no DMA request of a tile is refused, and `FailureLeavesMemory` that a run
refused later, by the capacity of a buffer, has stored nothing yet: the first
tile of a plan is the largest. `StatusConsistent` relates STATUS and ERROR.

`device`: `StartAnswers` (which descriptor a START is about),
`RefusedStartIsInert` (memory and counters), `StoredReadsBack`.

`maps_os`: `DispatchGetsCall`, `ReturnsToCaller`, `SubmitDelivers` (0 means the
product is in C and nothing else changed), `HaltReportsResult` (exit code,
console and `user_main` agree), `ProgramEnds`.

`machine`: `StepIsPrecise` (a step that faults has left memory, console, CSRs,
pc and registers alone, but for the link register of a jump), `StoreHitsItsBytes`
(a store seen byte by byte), `RunReports` (`run` returns true only for a program
that ended since the last reset, with its exit code), `WriteAnswers` (length or
-1, and what is on the console in each case), `LoadedImage`. `TypeOK` includes
that trap addresses are aligned and that x0 is 0 unless the CPU has stopped.

`baremetal`: `GemmDelivers` (0 means that the descriptor at `desc_addr` has been
run, which is the one the driver built if the two addresses are one), and
`HaltReportsStatus` (exit code, status word and console agree, and .bss was
clear when they were written).

`tensorc`: `NoSilentCapture` (C never takes another variable of the same type),
`CompilesUnlessGap`, which names the five features of a program for which C
finds no declaration, or another kind of thing: a function that uses a scalar of
the top level, a function that calls one printed after it, a variable with the
name of a function that is called in its scope, a tensor of the top level with
the name of any function, and an assignment to something that is not a place.

### Bounds

* `Word` is 32 in `schedule`, 128 in `controller`, so that sums and byte sizes
  near 2^32 are reached with small numbers. `schedule` admits dimensions up to
  half the word and tile sides up to the word: the range check before
  `build_plan` bounds the dimensions by the words of memory, which is addressed
  by bytes, and nothing bounds the tile side a dataflow does not pin to the
  array.
* Two tiles per call of the array show what one leaves to the next; all state a
  tile reads is set by the call before or by the call itself.
* Nine DMA calls are two bindings, a submit that is cancelled, two bindings
  more, a submit, a run and one after it. Four controller calls are two
  descriptors and two runs, or a load and a reading around them. Three system
  calls put any call between two others.
* Three calls of the host put a reset, a load or a register between a run that
  ended in every way a program can and the run after it; a run of nine turns
  outlasts every program, one of two stops in the middle. The probes are
  generated: stores and loads of a byte and a halfword, aligned and not, at the
  console and at the last word of memory.
* Twelve GEMMs cover every clause of `maps_npu_desc_valid` that a 32-word
  memory can meet and one of each refusal of the device.
* With two names a scope has a name, hides it or does not, and a function has
  another one to call. Every one of the five features needs three statements at
  most, a captured name two and a block.
* Matrices have sides of up to 3 with tiles of 1 to 3, so that each dimension
  has one tile, several, and a clipped last one.

### Fairness

Only `Schedule` and `MapsOs` have liveness properties, under weak fairness of
the whole next-state relation: code that is running takes its next step. It
justifies nothing else. In `Dma`, `Controller`, `Device` and `Machine` the host need not
call anything, so there is no fairness and no liveness; `Baremetal` and
`TensorC` have finite behaviours by their bounds.

`ProgramEnds` counts a program in the endless loop of `user_exit` as ended:
that loop is what `user_exit` does after its system call returned, since `exit`
is a call that returns its argument. No exit code reaches the host in this
case.

Deadlock is checked for `maps_os` and `baremetal`, which name the states in
which a program has stopped. In the other runs the host stops calling after
`MaxCalls`, `build_plan` has returned, or the program that is compiled ends.

## 4. Findings

1. A descriptor the NPU refuses never makes `npu_submit` return
   (`npu_submit_returns`). `NpuDevice::write32` answers a refused START with
   `false`, the bus passes it on, and the CPU faults on the store
   (`maps-os/drivers/npu.c:44`). The driver's `return
   -(i32)NPU_REG(NPU_ERROR)` at lines 51-53 and "`0` on success" in
   `maps-abi/syscall.md:24` expect it to return. The tests look at STATUS and
   ERROR after a refused START through the bus, without a CPU.
2. `write` returns its length argument, not the "bytes written" of
   `maps-abi/syscall.md:23` (`write_returns`): with a null pointer nothing is
   written (`maps-os/kernel/syscall.c:13-15`, `drivers/console.c:16-18`).

3. The TensorC front end accepts programs whose C has an undeclared name
   (`tensorc_declares`). A function's body is analysed with the scalars declared
   so far at the top level (`sema.py:49`), which `codegen_c.py:37-39` prints as
   locals of `user_main`, after the functions:
   `int32 x = 1; fn f() -> int32 { return x; }`. The ABI asks the compiler to
   "Generate RV32I-compatible C or assembly." (`maps-abi/compiler-target.md:21`).
   The tests have one function, of its parameter. The other four features that
   `CompilesUnlessGap` names are of the same kind.

Noted while modelling, without a document that says otherwise:

* `maps_npu_wait_done` has a `return -2` for STATUS = ERROR that `maps_npu_gemm`
  cannot reach, for the reason of finding 1.
* `Cpu::step` of a halted CPU clears `faulted_` (`cpu.cpp:37`).
* An ecall inside the trap handler overwrites `mepc` (`cpu.cpp:409`), so that
  the handler's `mret` returns to itself. maps-os makes none.

## 5. Proofs

Eight modules hold proofs: `GemmOpsProofs` has the lemmas that several of them
need, `UnitProofs` and `ProgramProofs` are about two components each, the others
about one. Each theorem is about a property that a run checks on an instance and
holds for every value of the constants that the named assumptions admit, but for
those named `Invariance`, `ArrayInvariance` and `TCInvariance`, which state the
inductive invariants.

| module | theorem | property |
| --- | --- | --- |
| `ScheduleProofs` | `TypeCorrect` | `TypeOK` |
| | `PlanIsPartition` | `Partition` |
| | `TilesStayInside` | `TilesInside` |
| | `SumsInOrder` | `AccumulatesInOrder` |
| | `CountersNeverWrap` | `CountersAdvance` |
| | `LoopsMakeThePlan` | `ReturnsPlan` |
| `UnitProofs` (`Dma`) | `TypeCorrect` | `TypeOK` |
| | `CancelledNeverMoves` | `OnlyPendingMoves` |
| | `AcceptedRunsToEnd` | `AcceptedNeverFails` |
| | `TransferIsRectangle` | `DoneMovesRectangle` |
| `UnitProofs` (`SystolicArray`) | `ArrayTypeCorrect` | `ArrayTypeOK` |
| | `OperandsAlwaysMeet` | `OperandsMeet` |
| | `ArrayMultiplies` | `ReturnsProduct` |
| `ControllerProofs` | `TypeCorrect` | `TypeOK` |
| | `StatusTellsOneStory` | `StatusConsistent` |
| | `MemoryHoldsPartialSums` | `PartialSums` |
| | `RunsPassTheirChecks` | `ChecksSuffice` |
| | `FailedRunsChangeNothing` | `FailureLeavesMemory` |
| | `Refinement` | `ImplementsGemm` |
| `DeviceProofs` | `TypeCorrect` | `TypeOK` |
| | `AcknowledgedStartMultiplies` | `StartAnswers` |
| | `RefusedStartLeavesNoTrace` | `RefusedStartIsInert` |
| | `StoredDescriptorsReadBack` | `StoredReadsBack` |
| `MapsOsProofs` | `TypeCorrect` | `TypeOK` |
| | `ArgumentsArrive` | `DispatchGetsCall` |
| | `CallReturns` | `ReturnsToCaller` |
| | `ZeroMeansDelivered` | `SubmitDelivers` |
| | `HostLearnsResult` | `HaltReportsResult` |
| `MachineProofs` | `TypeCorrect` | `TypeOK` |
| | `FaultsArePrecise` | `StepIsPrecise` |
| | `WriteAnswersTruly` | `WriteAnswers` |
| | `StoresHitTheirBytes` | `StoreHitsItsBytes` |
| | `ImagesAreLoaded` | `LoadedImage` |
| | `RunReportsProgram` | `RunReports` |
| `ProgramProofs` (`Baremetal`) | `GemmsDeliver` | `GemmDelivers` |
| | `HaltedProgramsReport`, `LinkedProgramsReport` | `HaltReportsStatus` (with a hypothesis) |
| `ProgramProofs` (`TensorC`) | `NamesKeepTheirMeaning` | `NoSilentCapture` |
| | `AcceptedIsC` | `CompilesUnlessGap` |

The assumptions on constants are those the code's types and configuration give:
the array and the buffers have a size (`ArrayAssumption`, `MemoryAssumption`,
`TileAssumption`), memory is addressed by bytes below the word
(`MemoryAssumption`, `WordAssumption`), and what the environment may pass is of
the type of the parameter it is passed to (`ControllerAssumption`,
`DeviceAssumption`, `MapsOsAssumption`, `MachineAssumption`,
`BaremetalAssumption`, `TensorCAssumption`). Those that say
more are named below.

**Sums and folds.** Products, counters and the writes of the loader are folds
over sets or sequences. In the community modules a fold is a recursive function,
and the library's induction theorems take a predicate as a parameter, which the
provers cannot instantiate. `GemmOpsProofs` states induction without one
(`NatSetInduction`: a set of naturals that has 0 and is closed under + 1 is
`Nat`), with the set of the sizes for which the fact at hand is true. From it
come, for every size, how `SumFunction` is built up and split (`SumRemove`,
`SumAppend`, `SumSplit`), that a product grows by the depth a tile adds, and
the closed form of the counters.

**Schedule.** Assumptions: the array has rows and columns, `Word` is positive,
and `DescriptorsAssumption`: dimensions are less than half the word and tile
sides less than the word. The first is what `check_matrix_range` leaves of
dimensions when memory is addressed by bytes, the second that a tile side is a
UINT32. `Partition` speaks of a returned plan only, so the inductive invariant
`IInv` says of every state of the loops which terms are in the plan: exactly
those the loops have passed (`CoversPassed`), each in one tile
(`TilesDisjoint`). `Position` relates the counters to each other. It holds the
fact that makes the arithmetic safe: a counter that is not 0 is at least one
tile side, so that adding the side again stays below twice the dimension and
does not wrap, even for a side near 2^32 (lemma `AddExact`). `LastTileBefore`
ties a depth in the middle to the tile before it, which `AccumulatesInOrder`
needs for the tile to come. Each action has a lemma; `PushTile`, the only one
that grows the plan, has lemmas about the sides of the new tile, the cells it
covers and their absence from the tiles before. `ReturnsPlan` compares the loops
with a closed form that divides, so a second invariant, `Indexed`, counts the
turns of the three loops: the counters are multiples of the tile sides, and the
place of the next tile in the plan is the number those turns make.

**Dma.** Assumptions: memories and buffers are different things with sizes, and
requests have the fields of `DmaRequest`. The invariant says what BUSY means
(`Busy`: a request that is well formed and in range of the storage bound when it
was accepted, and neither cancelled nor run since) and what the destination
holds in the middle of a transfer (`Progress`: each word is what the last row
that has reached it so far has written, `RowsDone`). `TransferIsRectangle` is
`Progress` at the end of the loop, where the rows done are all that reach a word.
`AcceptedRunsToEnd` rests on `InRangeCovers`: the last word of a rectangle being
in range puts every word in range, whatever the strides.

**SystolicArray.** `OperandsMeet` is about all elements and cycles already, and
almost inductive. `ArrayIInv` adds that the tile in the grid passed the checks and
that the stationary registers are its own (`Loaded`), and that every result that
has left the grid is in the output (`Delivered`), without which the end of the
loop over cycles says nothing about the output. A step of an element is a case
of three: its operands arrive, have passed, or are still to come, and the skew
of its row and column decides which (`LaneSlot`). The reference sum is a
constant operator, `PartialSum`, that `PartialSumAssumption` fixes by its two
equations; an instance gives it a fold, on which TLC evaluates the assumption.

**Controller.** `IInv` is nine named parts. What the refinement needs, and no
property said, is where the run is: `InRun` (the checks of `run` held, and what is
left is the plan from tile `At` on), `Found` (what `run` found), `Checked` (a
tile after the first check is one of a plan all of whose tiles fit), `OnlyC` (a
run writes C and nothing before its first store), `Counting` (the counters are
those found, the closed form of the tiles done, and what this tile has added up
to its phase), and `Buffers`: the A and B blocks of the tile are in their
buffers from their load on, and before a store the output is the sum C is to
get. `PartialSums`, that C holds exactly the depths done, is inductive with
these for a C apart from A and B. TLC checked the conjunction on the instance of
`controller` first. Three arguments carry the proof:

* the checks: the first tile of a plan is its largest (`FirstTileFits`), so that
  a run is refused for capacity at its first tile or not at all, which is
  `FailureLeavesMemory`; the checked ranges in words bound every byte address
  of a tile below the word, so that cutting it to UINT32 changes nothing, which
  is `ChecksSuffice`;
* the data: a transfer with rows apart copies cell by cell both ways, addresses
  of cells are unique, and a block's store leaves other blocks' sums alone;
* the refinement: inside a run the abstract variables are what `run` found
  (`mem0` to `error0`), so that `LoadA` to `Compute` and all stores but the last
  stutter. The last store, where every cell has the depth `k` (`DepthLast`) and
  the counters are the closed form, and the refused first `LoadA` are `Run` of
  `Gemm`. The other operations map to themselves.

**Device.** The types are invariant by themselves, and the three action
properties follow from them and two lemmas: `StartVerdict` for what submit and
run do to the registers of the controller, `StartOutcome` for memory and reply.
The word that `WordAssumption` allows need not be 2^32, but bounds `descAddr`,
of which the ten reads of a descriptor take the remainder as the code does.

**MapsOs.** Assumption: texts and arguments are numbers of the machine; nothing
about the memory or the programs. `IInv` says for each label what the caller's
registers, the trap frame and the CSRs hold, and where the memory is still the
one the caller had; `HInv` adds the console and the way out. `DoneIsOfSubmitted`
is the one fact about the device: it answers DONE for the descriptor just
submitted only. The types take `HInv` and `Typed`: the stack pointer is back at
its top outside the kernel, so that the trap frame stays below it, and the
pointer of a submit is an address.

**Machine.** Assumptions: `BusAssumption` (DRAM, NPU and console do not overlap
and end below the word, and the console has room for its two registers),
`CpuAssumption` (the word is a power of two, what `Decode` gives are
instructions, and a store takes its value from a register). `Stopped` is that
the CPU is halted exactly when someone has halted it since the reset;
`ExecuteKeeps` goes through the kinds of instruction for what none of them does.
The types are inductive with `Settled`: trap addresses are aligned (`mret` and a
trap take them as pc), and x0 is 0 on a CPU that goes on. The action properties
follow from the types:

* `Ends` lists the seven ways an instruction ends, each from the CPU and bus it
  found (`ExecuteEnds`). One that faults has them as they were, but for the link
  of a jump and what a refused write leaves, which is at most an NPU in ERROR
  (`WriteKeeps`): the second byte of a halfword is in the word of the first, so
  it cannot be refused after that one was written (`HalfWord`).
* A word is its four bytes and back (`Digit`, `Scale`, for any `Byte`): a
  store that replaces some bytes of a word shows these and the old ones.
* WRITE stops at the first byte the bus refuses; the bytes before it are a
  prefix, which is appended to the console and answered with -1.
* A fold of the loader is a chain of writes (`FoldExists`), with what the bytes
  reached so far hold (`BytesPut` within a segment, `SegmentsPut` across them).
  Load addresses do not wrap at the end of the address space within a load that
  goes on: the console, which takes no byte but its first register's, is in
  between.

**Baremetal.** Assumptions: what a program passes to the driver are UINT32
numbers, with a descriptor that is null or at a word of DRAM, and the texts are
texts. `IInv` holds what the labels between the call of a GEMM and its return
know: before START the memory is the one with the descriptor the driver built
(`Holds`) and DESC_ADDR is the second argument; after it the memory is what the
GEMM of the descriptor *found* there leaves (`Started`). That this is the one
that was built, if the two addresses are one, is `BuiltReadsBack`, the ten words
read back. `Reported` ties console and exit code to what `main` was told.

`HaltReportsStatus` does not hold of every program. `main` reads
`maps_baremetal_bss_value` after its GEMM, and a program that gives the driver a
descriptor or a C on top of that word makes `main` report bad for a GEMM that was
good. In the instance of `baremetal` no program does. `HaltedProgramsReport`
therefore has `BssKept` as a hypothesis, no store of a driver call changes that
word, and the strengthening it needs is that the word is 0 from `_start` on and
that the status word is stored before the exit. `LinkedProgramsReport` derives
`BssKept` from where things are linked (`LinkedApart`): every GEMM starts its
own descriptor, which like its C is apart from .bss, as the linker script and
the sections of `main.c` place them, and the program starts no other address.

**TensorC.** Assumption: the names are finitely many, none of them is `None`,
and shapes and expressions are of their types. `NoSilentCapture` and
`CompilesUnlessGap` are about flaws the C text has once it is complete, so
`TCIInv` must say what the scopes are while it is being written:

* `Nested`: the symbols of a scope are those of the scopes around it and those
  its own C block declares, and none of these is ever changed. This is where
  sema's rule counts that a name in sight cannot be declared again;
* `Homes`: each symbol has a C block that declares it or is a tensor of the file
  with this very declaration. A name C looks up thus finds the declaration sema
  found or, if the block is not around it in C, nothing;
* `Printed`: the order of the functions in the text;
* `Pending`: what a name left to the file means is in the file, or one of the
  gaps is on record; `Excused`: a flaw so far has a gap on record.

A declaration, a block opened and one closed keep `Good` (`DeclaredInBlock`,
`DeclaredInFile`, `Pushed`, `Popped`). A name is looked up in the blocks when it is
printed (`EmitKeeps`), and `FinishKeeps` looks up in the file those the blocks did
not have, where `Homes` and `Pending` meet. `MayDeclare` is what
`Nested` rests on: without its check, the mutant of `NoSilentCapture`, a block
may change a symbol of the scope around it and `Nested` is lost.

### Only model-checked

* Liveness under fairness: `Returns` of `Schedule`, `ProgramEnds` of `MapsOs`.
  TLAPS does not reason about fairness.
* `HaltReportsStatus` without the hypothesis of its two theorems: the instance
  has no program that writes over .bss, and for such a one it is false.
* That `Dma` leaves `Transferred`, `SystolicArray` the product and `Schedule` the
  plan is proved; that `Controller` uses these closed forms in their place is a
  reading of the code, as section 2 says.

## 6. Not modelled, and the plan

Not modelled, and why:

* the bit fields of instruction words and of ELF headers, the lexer and the
  parser of TensorC and the formatting of C text: functions on bits and text
  with no state, which the tests reach;
* `machine_putchar`, `machine_write` and the kernel's `npu_gemm`, which nothing
  calls, `maps_sys_putchar`, and `user/demo.c`, one instance of the user program
  of `MapsOs`;
* what the C compiler keeps in registers across an `asm` statement;
* the build files, documents and tests.

Order of work:

1. done: `Descriptor`, `Tiling`, `Schedule`, `Dma`, `SystolicArray`,
   `Controller` against `Gemm`, `Device`, `MapsOs`; `ScheduleProofs`.
2. done: `Bus`, `Cpu`, `Loader`, `Machine`, `Baremetal`, `TensorC`.
3. done: the proofs of `Dma`, `MapsOsProofs`, `MachineProofs`.
4. done: `GemmOpsProofs`, `ControllerProofs` with the refinement of `Gemm`,
   `DeviceProofs`, the proofs of `SystolicArray`; `ReturnsPlan` of `Schedule`, the type
   invariants of `MapsOs` and `Machine`, and what instructions, WRITE and the
   loader leave in `Machine`.
5. done: `ProgramProofs`, that is `Baremetal` and `TensorC`.
6. Worth doing next: the refinement of `Transfer` and of one call of the array
   as steps of `Controller`, in place of the closed forms; the refinement of the
   instructions of `Machine` by the labels of `MapsOs`, for which the text of the
   compiled kernel would be needed.
