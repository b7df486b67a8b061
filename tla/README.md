# AsmKit in TLA+

AsmKit is a C library that decodes, analyses, encodes and relocates machine code
for x86 (16, 32, 64 bits), ARM (A32, Thumb), AArch64, BPF and WebAssembly. It
allocates nothing and runs no threads of its own: every call reads the caller's
bytes and fills the caller's buffers. What can go wrong is what a *sequence* of
instructions, emissions or calls does together: the offset one emitter leaves
for the next, a displacement computed for an address that depends on every
expansion before it, a plan made from bounds and carried out later by other
functions, an instruction written by one table and read back by another, an
effect reported for one instruction and relied on after the next, and code that
is written correctly and does the wrong thing when it runs. The project models
that, checks it with TLC on small instances and proves with TLAPS, for every
instance, what blocks, relocation, detours, transfers, the following of
successors and engines promise.

## Inventory

| Component | Source (`src/src/`) | State and operations | What makes it correct |
|---|---|---|---|
| Block decoder | `decode/asmkit_decode.c` | `count`, `total` of one loop over `asmkit_decode_one` | the block tiles the bytes, stops at a terminator, says why it stopped |
| Native overlays | `target/{x86,arm,aarch64}`, `emit_rel` of `generated/*_encode.c` | pure: analyse, emit jump or call, smallest patch, bound of a jump back, relocate one instruction | size reported = bytes written, capacity respected, clobbers named, target kept, expansions jump where they should |
| Prologue relocation | `relocate/asmkit_relocate.c:118` | `offset`, records, clobbers, hazards of one loop over the block, then a jump back | no overrun, no overlap, records map old to new, targets kept, the run is that of the original |
| Detour planning | `relocate/asmkit_relocate.c:32` | sizes, clobbers, distances computed before the trampoline has an address | the calls that carry the plan out stay within it |
| Control transfers | `encode/asmkit_emit.c` | emit jump, emit call, padding, plan a transfer | a plan can be emitted as planned; a retry with the reported size settles |
| Control state analysis | `analysis/asmkit_analysis.c:478` | a decode state (mode, Thumb IT state) handed from call to call by a client | following the successors finds the code that can run and no data; the condition reported is the one executed under |
| Engine and features | `core/asmkit_engine.c`, `asmkit_target.c`, `asmkit_workspace.c` | feature set and configuration of eight words and two flags; enable, read back, initialise an engine | an engine has the features asked for, for good, and dispatches to its own target |
| Easy API | `core/asmkit_easy.c` | decoder and encoder objects that hold an engine; one-shot wrappers | a failed initialisation leaves no mixture of two targets |
| Value analysis | `analysis/asmkit_analysis.c:225` | pure: the effects of one instruction on registers and memory, the condition it defines or consumes | a client that follows the effects knows only true values, and loses none that are described |
| BPF, WebAssembly overlays | `target/{bpf,wasm}` | pure: analyse; everything native is refused | a refusal writes nothing and is the same in plan, emission and relocation |
| Single-instruction decoders and structured encoders | `generated/{bpf,wasm,x86,aarch64,arm}/*_{decode,encode}.c`, `*_encode_inst` of the overlays | pure: tables of records, each direction with a table, an order and operand rules of its own | what is written is read back; a prefix of it is refused; a verdict on size or features can be acted on |
| Text, metadata | `text/`, `core/asmkit_metadata.c`, `generated/*_text.c` | stateless formatting and table lookups | not modelled |

The components call downwards: relocation and planning call the block decoder
and, through the table `asmkit_target_ops_t` of the engine, the overlays;
`emit.c` puts the clobber policy on top of the overlays' emitters. Engines are
read only after their creation, so calls on different threads share nothing
that changes; there is no concurrency to model. The interleaving that matters
is between the caller's calls: plan, place a trampoline, relocate, patch;
analyse, move on to a successor, analyse again; decode, encode, grow the buffer
or enable a feature, encode again, read back; enable, initialise, enable.

The hazards, each at its line, and the properties that cover them are listed
in `PROJECT.json`; those no property covers carry a note.

## Modules

Machine code is abstracted to *items*, one per instruction or literal
emitted, with its offset, length, operation, displacement (or literal value)
and source instruction. An instruction is what the decoder reports (class,
size, flags, target) and, apart from the code, `does`: what a processor does
with it. The representative encodings in `MCForms` carry the values the library
reports for them, the wrong ones included (a conditional A32 `B` reported as
unconditional, a Thumb literal load without its flag).

| Module | Models | Correspondence |
|---|---|---|
| `Asmkit` | shared vocabulary | statuses, branch modes, `Inst` = `asmkit_inst_t`, `Written` = the size / capacity / write order in which all emitters end, `EmitAny` = the direct-then-absolute choice of the `*_emit_any` functions |
| `X86Target`, `ArmTarget`, `A64Target` | the overlays | one operator per C function: `X86Relocate` = `x86_relocate` ... |
| `TargetOps` | `asmkit_target_ops_t`, the overlays of BPF and WebAssembly, and `emit.c` | the bytecode targets' analyses and their refusals of emission, patch size and relocation (`Vm*`, `Bpf*`, `Wasm*`); dispatch by mode, clobber policy, padding, `PlanControlTransfer` |
| `Cpu` | external | where a displacement points, what an item reaches, how execution goes on |
| `BlockOracle` | abstract specification | the block as the shortest prefix with a reason to stop; no loop |
| `BlockDecode` | `asmkit_decode_block_until` | `insts`, `total`, `dstatus`; one action per turn and exit of the loop; implements `BlockOracle` |
| `Relocate` | `asmkit_relocate_prologue` | extends `BlockDecode` by the second loop; one action per outcome of a turn and of the jump back, and one for the targets that relocate nothing |
| `OriginalRun` | abstract specification | a processor running the overwritten instructions where they were |
| `Trampoline` | the relocated code executed | extends `Relocate` by a processor that enters through the patched function; implements `OriginalRun` |
| `Detour` | `asmkit_plan_detour` and its use | the planning loop, a caller that places a trampoline of the planned size, relocation, entry jump, padding |
| `Transfer` | a caller of the plan / emit functions | plan, emit as planned, emit into a guessed buffer, retry, use an island |
| `ControlState` | `asmkit_analyze_inst_with_state` | pure: predicate, next state, target state, successors, each an operator of its block of the function |
| `Explore` | external | a client with a worklist (`seen`, `pending`) that decodes each place in the state reported for it, then a processor that runs the code, with IT blocks as lists of conditions |
| `FeatureOracle` | abstract specification | the features supplied and those of the engine, as sets |
| `EngineConfig` | `asmkit_engine.c`, object initialisation of `asmkit_easy.c` | `fs`, `config`, `engine`; one action per function; implements `FeatureOracle` |
| `Values` | `asmkit_analyze_inst_values` | pure: one operator per helper, the effects in the order they are appended |
| `ValueTrack` | external | a processor with registers, a memory cell and flags, and a client that keeps what the effects say (`know`, `kcells`, `compared`) and predicts branches |
| `CodecBase` | what the generated code of the targets shares | statuses, the first record that fits, its features |
| `BpfCodec`, `WasmCodec` | `generated/{bpf,wasm}/*_decode.c`, `*_encode.c` | both directions in one module: the form of a record says which field holds which operand |
| `X86Decode`, `X86Encode` | `generated/x86/*_decode.c`, `*_encode.c`, encoding in `asmkit_x86_overlay.c` | prefixes, opcode maps, ModRM and SIB, VEX/EVEX/XOP/REX2, immediates; then the records in the encoder's order |
| `A64Decode`, `A64Encode` | `generated/aarch64/*_decode.c`, `*_encode.c`, encoding in `asmkit_a64_overlay.c` | fixed bits, operands put together from pieces of the word, their transformations and the way back |
| `Codec` | a caller of `asmkit_encode_inst` and `asmkit_decode_one` | `Ask` or `Receive` and `Copy`, `EncodeInst`, `Grow`, `Enable`, `ReadBack` |
| `CodecTables` | rows of the generated tables | in their order, each form and way to hold an operand at least once |
| `EmitterContracts`, `RelocateProofs`, `TrampolineProofs`, `DetourProofs`, `CallProofs`, `ExploreProofs`, `ValueTrackProofs`, `CodecProofs` | proofs | below |
| `MC*` | TLC instances | below |

Three refinements relate abstract to detailed: `BlockDecode` implements
`BlockOracle` with the verdict taken from the loop's status, count and total;
`EngineConfig` implements `FeatureOracle`, where words and flags become a set of
features or "not supplied";
`Trampoline` implements `OriginalRun` with `OriginalPc`, which maps a program
counter inside an expansion back to the instruction expanded, as the refinement
mapping. The last one is the central correctness statement of a relocator:
what is observable (effects on addresses, calls, their order and number) of a
run of the trampoline is what is observable of the original.

What the data abstraction leaves out: the bytes of an instruction apart from
the fields the relocators read or rewrite (`enc`), register operands, the
32-bit wrap of sizes (a block has at most 32 instructions of 16 bytes), the
null-pointer checks, and address arithmetic modulo 2^64 (addresses are integers;
the code compares signed differences, which agree while addresses are less than
2^63 apart). Literals hold the target as an integer; in A32 that is the low
word of it.

The codecs are modelled with the code in full: a WebAssembly or x86 instruction
is a sequence of bytes, an AArch64 word the set of its bits, a BPF word the
record of its fields. Prefixes, opcodes, ModRM and SIB bytes, LEB128
continuation bits and fixed bits are those of the library; displacements,
immediates and addresses have fewer bits (below), which changes no branch of
either direction. The operand flags that come from the metadata tables, names
and the text of an instruction are left out.

### Reading an analysis of values

The library documents the effects one by one and leaves their composition to
the client. `ValueTrack` reads them so: effects happen in order; the operands of
a condition are those *before* the instruction; an extension extends what has
just been copied or loaded; an operand that is written and that no effect names
becomes unknown, as does anything written under a condition; a condition that is
defined and consumed by one instruction concerns that instruction only. A
client that reads otherwise needs properties of its own.

### Targets without native operations

`VmAnalyze` (in `TargetOps`) analyses BPF and WebAssembly like any target. Their jump and call
emitters, the patch size, the jump back and the relocation of an instruction
return UNSUPPORTED_TARGET_OPERATION, and padding refuses the mode. So `Relocate`
ends in `RelocateUnsupported` before anything is decoded, `Detour` in
`PlanRefused`, and `Transfer` never plans; the contract of an emitter, proved for
these too, says that nothing is written and nothing is clobbered.


## Runs

`I32Max` replaces 2^31 - 1 by 127 or 100000: TLC's integers are 32 bits wide,
and an x86 displacement has to be able to overflow. The other field widths of
the emitters and relocators are those of the code.

| Run | Question | Instance |
|---|---|---|
| `block` | Does the loop compute the block the declarative specification gives, with its status, for every order of its exits? Does it return? | all codes of up to four instructions over two plain ones and two terminators, needs 0..6, capacities 1..3, block bound 3: every pair of exits meets |
| `relocate` | Layout, records, clobbers and targets, at every step and every exit | per target a handful of forms: plain, PC-relative data, conditional, call, jump and one the relocator refuses; codes of up to two, so that the second sees an offset an expansion has moved; five distances, so that each immediate field is in range and out of range; buffers of 9 (some instruction does not fit, or the jump back does not) and 36 bytes; a BPF and a WebAssembly program, refused |
| `trampoline` | Is the trampoline the original? | codes of up to two instructions with every choice of conditions met, near and far, all continuations that can follow the block |
| `detour` | Is a plan kept? | replacements in and out of reach, overrides, placements at and beyond both edges of every distance a plan can name; the targets that plan nothing |
| `transfer` | Are planner and emitter consistent, and does a retry settle? | destinations at, just inside and just outside every limit, all branch modes, all grants, no options |
| `explore` | Does a client that follows the reported successors see exactly the code that can run, in the right state? | six kinds of IT instruction (all lengths, then and else, the always condition) in front of every four-instruction body, so blocks end inside, at and beyond the body; lines with branches over and back; Thumb and A32 parts that switch to each other; x86-64 and AArch64 codes of three; BPF and WebAssembly codes |
| `codecs` | Is an instruction read back as it was written, is a truncated one refused, and are the answers on size and features ones a caller can act on? | 52 rows of the x86 table and 56 of the AArch64 one, 22 and 18 of the small ones, every form among them; per mode, requests for each form, edge of a field and refusal, and code no encoder writes; a small and a full feature set; a buffer of three bytes that the caller has to grow; every prefix of what was written |
| `values` | Does a client that follows the effects know only what is true, and all that is described? | every program of up to three instructions from the forms of x86 (32, 64), A32, Thumb and AArch64: registers under all their names, memory, extensions, comparisons, branches, table branches, predicated instructions, and instructions the analysis does not describe |
| `engine` | Is an engine what the calls on its configuration asked for, in every order of calls? | two words of two bits, so that a feature has a word and a bit of it and there is an identifier too large; an architecture with several modes and one with one; CPUs with features, none, and one that does not fit. State is finite: no bound on the number of calls |

Bounds of `codecs`: a byte of an x86 displacement or immediate has 2 bits (of
8) and an address 10; WebAssembly groups have 3 bits (7), a word two bytes and a
long four; BPF offsets have 4 bits (16), immediates 6 (32); AArch64 addresses
have 30 bits and pages 16 bytes, the fields of the word their real width. Every
sign, wrap and last-byte case of the routines is reached, since these depend on a
field being at its edge and not on how far that is. In `values` widths 8, 16, 32
and 64 keep 2, 3, 4 and 5 bits, all different, so a wrong width shows; three
instructions allow a comparison, a write to its operands and a branch.

Each checks one type invariant (`trampoline` only runs what `relocate` has typed);
the others were chosen to need several steps to violate. Those worth knowing by
name:

- `ImplementsOracle`, `BlockTiles`: overwriting the block cuts no instruction in
  two and moves nothing behind the function's end.
- `LayoutSound`: each emitter only sees the remaining capacity, and the size it
  reports is what the next one starts from, so nothing overruns (`NoOverrun`) or
  overlaps (`NoOverlap`).
- `RecordsMapPrologue`: the records account for every overwritten byte.
- `TargetsKept`: each PC-relative instruction still refers to its target and
  the jump back reaches the continuation.
- `NeverDerails`, `RunsAsOriginal`, `Leaves`: execution.
- `PlannedSizeSuffices`, `PlanHonoured`, `PatchCovers`, `NearEnough`: bounds
  against results.
- `PlanIsKept`, `PlanPredicts`, `RetrySettles`, `IslandReachable`: planner
  against emitter.
- `ExplorerCovers`, `NothingInvented`: the explored places and the reachable
  ones are the same, position in the IT block included; `PredicatesHold`,
  `StatesAccepted`.
- `ReadsBack`, `TruncatedIsRefused`, `FeatureVerdict`, `RetrySettles` (of
  `Codec`): two directions, two tables, one instruction.
- `KnowledgeHolds`, `PredictionsHold`, `NothingForgotten`: effects and conditions
  composed.
- `ImplementsPromise`, `ReadBack`: engines and configurations; `ReadBack` also says
  what becomes of a configuration no features were given to, which reads as empty
  and whose engine has them all.

Where the code is known to depart from a property, the passing run names the
exception (`Excepted` in `Relocate`, the constant `Exempt` in `Trampoline`,
`Underestimated` in `Detour`, `Steady` and the forms of `MCExplore`, `Lossy` and
`Twins` in `Codec`, the forms of `MCValues`) and, where something in the
repository promises otherwise and the defect bears on a property no other run
refutes, a run of its own shows the violation:

| Run | Shows |
|---|---|
| `trampoline_calls` | the x86-64 absolute call returns into its literal |
| `explore_wide` | the condition of Thumb `b<cond>.w` is read from the wrong bits: the sign of the displacement and the upper half of the condition |
| `codec_vector_displacement` | the short displacement of an EVEX memory operand is written without the scale it is read with |

The other departures have a set of programs or a property that shows them when
it is named in the configuration of a run above:

| To reproduce | Shows |
|---|---|
| `MCTrampolineCalls.cfg`, `Programs <- FarArmCalls` | the A32 absolute call (`ldr ip, [pc, #4]`, `blx ip`, literal) loads the word behind its literal: `docs/target-support.md:26` lists A32 absolute stubs as supported |
| the same, `Programs <- ArmConditions`, `PROPERTY RunsAsOriginal` in place of the invariant | a relocated A32 `B<cond>` is always taken; the same line lists direct branch relocation |
| the same as for `FarArmCalls`, `Programs <- MisreadRips` | a RIP displacement behind a VEX prefix or in a three-byte opcode is written over the opcode or the ModRM byte, and the relocation succeeds; `docs/target-support.md:25` lists RIP-relative adjustment |
| the same, `Programs <- SixteenBit` | x86-16 conditional jumps get the 32-bit form |
| the same, `Programs <- ThumbLiterals`, `PROPERTY RunsAsOriginal` in place of the invariant | a 16-bit Thumb literal load has no PC-relative flag and is copied verbatim |
| `MCExplore.cfg`, `Codes <- Conditional` | a branch made conditional by an IT block has no fall-through successor |
| the same, `Codes <- Compares` | the target of a Thumb `cbz` is taken from operand 0, its register, and is reported as 0 |
| the same, `Codes <- StructuredCodes` | WebAssembly's `end` counts as a terminator and `if` has one successor |
| `MCCodecVector.cfg`, `Streams <- MCLongStreams`, `INVARIANT AnswersAreWritten` | a branch of more than 15 bytes is answered with OK and an instruction that was not written |

`x86_find_rip_disp` looks for the displacement behind the first or the second
opcode byte. Of the instructions it was not written for, most are refused; but
`c5 1d 54 0d` (`vandpd ymm9, ymm12, [rip + d]`) loses its opcode and `66 0f 38 35
05` (`pmovzxdq xmm0, [rip + d]`) its ModRM byte. `MCForms` has such an instruction
(`MisreadRip`), and every run of `relocate` and `trampoline` has it in its codes.

A further exemption, *target in patch*, is a branch of the prologue to another
overwritten instruction: the relocator keeps its address, which now holds the
patch. The code makes no attempt at it and the library promises nothing.

Two are matters of size. A RIP-relative instruction of 15 bytes is moved with its
length where the analysis counts 14. And some instructions have a branch's class
and an operand but not the flag PC_RELATIVE: x86 `fsubr st(i)`, `jmpabs` and the
far call `9a`, the ARM `svc #imm`. The analysis counts them as copies while the
relocators, which go by the class, emit a branch to the number in the operand.
`Underestimated` names both; the programs of `MCDetour` contain such
instructions, and the other properties hold for these too.

### What the comparison of the parts turned up

The forms and requests of the instances leave out what follows, because the code
does something a property would have to deny; no run is spent on it.

*Flow of the bytecode targets.* BPF `jx` is reported as a trap and `callx` is
decoded as a plain unknown instruction; WebAssembly's `br_table`, `try_table`,
`unreachable` and a short `br` are plain one-byte unknowns.

*Values.* x86 `cmp [m], r` is reported as a store; `add`/`sub` with a memory
operand report a load or store and an operation on the same operands; `neg`,
`adc`, `sbb` and `not` change the flags and leave an older comparison standing,
as ARM `adds`, `subs`, `movs` do; `test` is reported as a comparison of its
operands; AArch64 `subs`, `cmp` and `b.cond` define and consume nothing and
`tbz`/`tbnz` compare the whole register; shifted operands (`mov ..., lsl`,
`movz ..., lsl #16`) lose the shift and `movn` its inversion; ARM `adr` gets the
address 0, `ldrsb` and `ldrsh` no extension, `tbb`/`tbh` a base that is aligned
when the instruction is at 2 modulo 4.

*x86.* `ret imm16` is encoded as `c3`; a repeat prefix of `movs` is dropped; an
address-size prefix makes a RIP operand absolute; a negative 16-bit
displacement is not encoded again; `loop`, `setcc`, `cmov` and some others are
decoded and not encoded; a short `jmp` comes back as the long one; `r12` is
refused as an index.

*BPF, WebAssembly.* The BPF decoder numbers registers `2n + 1` and `2n + 2`, the
encoder takes the bare number; both know codes with two identities (`Twins`), of
which the decoder delivers the first. High bits of an over-long LEB128 and of a
32-bit float immediate are dropped.

*AArch64.* `ret xN` is written as `ret`; `br` and `blr` take any register class;
a memory operand is decoded and never encoded, its parts are; `blr` has the class
of a direct call.

*Features.* The encoders of x86 and AArch64 report an instruction that misses a
feature as unsupported when another record of the name has its features and does
not take the operands: `vaddps` with `ymm17`, an EVEX register, on an engine with
AVX. `FeatureVerdict` excepts these requests by name (`Overlooked`).

### Fairness and deadlock

The calls are synchronous: once entered, only their own thread can stop them, so
`BlockSpec` and `FairSpec` assume weak fairness of the call's next step and
nothing of the caller. `DetourSpec` also assumes a caller that goes on after
each call returns; `RunSpec` that the hooked function is called once the
relocation has returned and that a processor executes the next instruction.
`Codec` assumes that a call returns and that the caller retries with what it was
told, which is what its `RetrySettles` is about; of a first request it assumes
nothing. `Transfer`, `Explore`, `ValueTrack` and `EngineConfig` have no liveness
property and no fairness: what a client does next is its own business. All
systems but `EngineConfig` come to an end (a call returned, a session ended, the
processor has left the code given, the program is at its last step), hence their
`CHECK_DEADLOCK FALSE`; that they do not stop earlier is what the liveness
properties say.

## Proofs

| Module | Theorem | Says |
|---|---|---|
| `EmitterContracts` | `RelocateInstContract`, `EmitTransferContract` | the layout contract of every relocator and emitter of every target, for every instruction, address, branch mode and capacity |
| | `RelocateInstAims`, `EmitJumpAims` | what they emit refers to the target given, from wherever it is written |
| | `RelocateInstCarries`, `EmitJumpCarries` | and a processor that runs it does what the instruction does |
| `RelocateProofs` | `DecodeTypeCorrect`, `TerminatorEndsBlock`, `BlockAlwaysTiles` | the block decoder's safety invariants, for codes and bounds of any size |
| | `BlockImplementsOracle` | the loop implements the loop-free `BlockOracle` |
| | `TypeCorrect`, `LayoutAlwaysSound`, `RecordsAlwaysMap`, `ClobbersAlwaysAccounted`, `TargetsAlwaysKept` | the relocator's safety invariants |
| `TrampolineProofs` | `CodeAlwaysFollows` | so does the code in the buffer, around each instruction and the jump back |
| | `NeverDerailed`, `TrampolineIsOriginal` | a processor in the trampoline is always at an instruction, and its run implements `OriginalRun` |
| `DetourProofs` | `DetourTypeCorrect`, `PlannedSizeAlwaysSuffices`, `PlanAlwaysHonoured`, `PatchAlwaysCovers`, `NearAlwaysEnough` | a plan made without an address is kept at every address |
| `CallProofs` | `TransferTypeCorrect`, `PlanAlwaysKept`, `RetryAlwaysSettles`, `PlanAlwaysPredicts`, `IslandsAlwaysReachable` | planner and emitter agree, whatever the buffer |
| | `EngineTypeCorrect`, `DispatchAlwaysFits`, `ReadBackAlways`, `EngineKeepsPromise` | the invariants of engines, and the refinement of `FeatureOracle` |
| `ExploreProofs` | `ExploreTypeCorrect`, `StatesAlwaysAccepted` | for code of any kind |
| | `NothingEverInvented`, `ExplorerAlwaysCovers`, `PredicatesAlwaysHold` | for code whose classes and flags say what it does |
| `ValueTrackProofs` | `TrackTyped`, `TrackKnows`, `TrackForgetsNothing` | a client that follows a program by the effects reported is right, and misses nothing |
| | `TrackCompares`, `TrackPredicts` | so are the comparison it remembers and the branches it predicts |
| `CodecProofs` | `VerdictAlwaysHolds` | for tables of any length: enabling every feature settles a refusal for a feature, and no other refusal |
| | `CodecTyped` | no encoder writes past the buffer, and the size reported is the one written, also after any number of retries |

Every invariant of the runs `block`, `relocate`, `trampoline`, `detour`,
`transfer`, `explore`, `values` and `engine` is thus proved for every value of the
constants, of `codecs` `CodecTypeOK` and `FeatureVerdict`, and all three
refinements. `NothingAfterTerminator` (`TerminatorEndsBlock`),
`DispatchFits` (`DispatchAlwaysFits`) and `ComparisonHolds` (`TrackCompares`) are
proved and not named in a run; a violation of the first would also be one of
`ImplementsOracle`, one of the last leads to a violation of `PredictionsHold`.

### Assumptions

Those of the modules: `I32Max` is a natural number, addresses are integers,
capacities and needs naturals, the programs are sequences of `Inst`; there is at
least one word of at least one bit, and the CPU table lists natural numbers.
Five say what instructions and tables are beyond types, and TLC evaluates them for
every instance:

- `DecoderAssumption` (`Decodable` in `BlockDecode`): instructions of the fixed
  length sets have their sizes, PC-relative ones an operand, AArch64 branches a
  target that is a whole number of words away, `ADRP` a page. The generated
  decoders construct them so.
- `FormsAssumption` (in `ValueTrack`), see below: the instructions a client may
  meet are `Proper`.
- `CodecAssumption` (in `Codec`): the modes are those of the four targets, the
  records need features their target has, and the order in which the x86 encoder
  tries them names records of the table. The tables are generated so.
- `RangesAssumption` (in `Codec`): a long is wider than a word; the sizes in the
  tables are natural numbers, an opcode of WebAssembly has 32 bits and its operands
  the codes of the table generator; the immediate of a WebAssembly operand is an
  `int64_t`, the type the API gives it; code from elsewhere is a sequence of bytes
  that is at least as long as the caller says.
- `ItAssumption` (in `Explore`): an IT instruction has a mask that is not zero,
  the others of its encoding space being hints.

Hypotheses of theorems, as opposed to assumptions, are the exceptions the
properties name themselves, and for `ExploreProofs` three conditions on the code:
`RegularCode` (the class and flags an instruction is reported with agree with what
a processor does with it), `ConditionsRead` (so does the condition field read)
and `Steadily` (no branch is made conditional by an IT block). The instructions
for which they fail are those listed above: the wide conditional branch, branches
in IT blocks, `cbz`, WebAssembly's structured ones. `MCExplore` assumes the first
two of all its codes (`MCRegular`) and builds them so that the third holds: the
hypotheses are those under which TLC finds the properties to hold, and the runs
named above show that without them they do not.
`TargetsKept` speaks of AArch64 trampolines at whole words (`WordsStayWords`):
elsewhere the word distances of a copied branch cannot be written down, and the
processor would not fetch the code.

The theorems of `TrampolineProofs` have two hypotheses. `ProperCall` says of the
initial state what the call is given: a branch or call with an operand does
what its class says (`Honest`, which an A32 conditional `B`, reported as an
unconditional one, satisfies as it is), addresses are naturals, and neither
the entry nor the continuation nor a target lies in the buffer, where nothing
has been written yet. `MCTrampoline` assumes it of all its calls (`MCProper`), so
TLC evaluates it. And `Exempt` contains the five `Faults`: the absolute call, the A32
condition, the 16-bit conditional jump, the reference without its flag and the RIP
displacement that is looked for in the wrong place.
Each is a defect of the code under which the property is false: the run
`trampoline_calls` shows it for the first, and for the others the codes
`FarArmCalls`, `ArmConditions`, `SixteenBit`, `ThumbLiterals` and `MisreadRips` of
`MCTrampoline`, run as the table above says. A fault is
exempted for the runs it shows in, and for nothing else: the proof turns
`~Shows(...)` into what is known of the code in the buffer (`Spotless`).
The sixth name in `Exempt`, a target among the overwritten bytes, is not needed:
what happens there happens after the trampoline has been left, and
the refinement promises no progress.

`Proper` is what `asmkit_analyze_inst_values` is measured by: for each kind of
instruction (`Operates`, `Copies`, `Widens`, `Loads`, `Stores`, `NamesAddress`,
`Keeps`, and `Alters` for those that are not described), the mnemonics, the
operands, which of them are written and read, and what the manuals say of it.
`Forms` may hold any number of such instructions with any operands, and a
mnemonic the analysis has no case for (`Plain`) may be a load, a store, a branch
or an operation of its own. The bits per width are any that do not shrink with
the width, the real ones among them. What it leaves out is what the analysis
reports wrongly, listed under *Values* above: shifted operands, `test`, `movn`,
what changes the flags without a condition (x86 `neg`, `adc`, `sbb`, ARM `adds`
and the like), `ldrsb`/`ldrsh` of ARM, `tbz`/`tbnz`, table branches at 2 modulo
4, x86 operations and `cmp` on memory that are classed as loads or stores, and ARM
`adr` unless the target it is given is right; and loads of literals, whose
operand is no memory operand, which `MCValues` has none of either. `MCValues`
assumes `Proper` of all its forms, so the hypotheses are those under which TLC
finds the properties to hold.

### Arguments

*Contracts.* An emission's items lie within the size it reports and do not
overlap, there are none unless the status says something was written, the size is
within the capacity then, and a load item means that its scratch register is
among the clobbers. This is proved once per target function by case analysis.
`EmitFinish` keeps the items of an emission it refuses, so the contract covers
`FORBIDDEN_CLOBBER` as well as `OK`.

*Relocation.* None of the invariants is inductive alone. `NoOverrun` after a step
needs to know that the emission fitted in `cap - offset`, that is the contract
*and* `offset <= cap`; `NoOverlap` needs that everything written so far lies below
`offset` as long as the loop runs (`LayoutSound` is the two together), and
`RecordsMapPrologue` needs `BlockTiles` for the block that has been decoded and,
after success, that all its instructions have records. The invariants of
`RelocateProofs` conjoin these facts, per phase of the
call; one step per action shows that they are preserved. For `TargetsKept` a
second contract, `Aims`, says of a successful emission that one of its items,
where it is written, points at the target, or jumps through a literal of the same
emission that holds it; page and word arithmetic are in its lemmas. The
invariant carries it from the step that wrote an instruction to the end: later
items lie behind and leave earlier ones alone (`AllEarlierKept`).

*Trampolines.* The contract `Aims` is not enough to execute code: it says that
*some* item leads to the target. `Follows` says of *every* item in a piece of code
that it is data or `Runs` for the instruction the piece stands for: it has the
whole effect and ends where the piece ends (`Stands`), is the inverted condition
that hops to the end and falls into the jump or load (`Hops`), jumps through or
loads a literal that holds the target (`Finds`), or branches through the register
so loaded (`Through`); and that there is such an item at the start. It is proved
once per relocator and emitter. `CodeInv` carries it through the relocation:
pieces lie one behind the other, in order and disjoint (`OrderInv`), so code
written later changes nothing of what earlier pieces do (`FollowsMore`), and code
placed at an offset does there what it did at its own zero (`FollowsPlaced`).
The invariant of the processor, `CpuInv`, is that in the buffer it stands at an
item that `Runs` for its slot, with the target in the register if that item is
the branch through it. By it the item fetched is unique (`Fetch`, from the items'
disjointness), and each step is one of three (`StepIs`): it `Stays` in its slot,
`Passes` on with the whole effect, or `Arrives` at the target of a condition met
before. Under the refinement mapping these are a stutter or a taken branch, a step
of the original or, for the jump back, a stutter, and a stutter. That the
addresses of `OriginalRun`, a recursive function of the code, are those the
records map is one more set induction (`AddressIs`).

*Detours.* The plan's sizes are sums over the block, the relocator's offset is one
over a prefix of it. `DetourInv` relates the two at every turn of both loops:
what the planning loop has added bounds what the relocation of the same prefix
writes, because no relocation costs more than the analysis says
(`RelocationCosts`, per target). The rest is agreement of functions written
apart: the smallest patch with the entry jump's size (`PatchCovers`), the bound
for a jump back with the one emitted, and the distances of a near trampoline with
the range of the branch, which is where the slack and the alignment come in.

*Transfers.* Plan and emission use different buffers. Their results are `Alike`:
the capacity decides between `OK` and `OUTPUT_TOO_SMALL` and nothing else, and
every sequence fits the scratch buffer of the planner (`Steady`).

*Successors.* Two facts carry the proofs. The byte of a Thumb decode state stands
for a list of conditions, as long as its lowest bit is high; the shift in
`asmkit_analyze_inst_with_state` takes the head off that list and an IT
instruction starts the list the manual gives (`NextStateIs`), so client and
processor are at the same position of the same block. And the places visited are
closed under successors up to those pending (`ClosedInv`), which makes the
processor's place a visited one once nothing is pending (`CoverInv`).

*Values.* The invariant is about one step of a client, and most of the proof is
about one instruction: `Right(p)` says that following the effects reported leads
to what the processor writes (`Truthful`) and, for an instruction that is
described, that nothing is lost (`Complete`). It is proved kind by kind. First what
is reported: which operand `destination_operand`, `memory_operand` and
`source_operand` find (`DestinationIs`, `MemoryIs`, `SourceIs`) and hence the list
of effects (`OperatesEffects` and the like, one per kind). Then what following that
list gives, which is arithmetic: the client sees an operand's low bits, and sums,
products and bitwise operations need no more (`ComputeLow`), the parts of a
register are put together as the processor does (`MergeFacts`), and a copy that is
extended afterwards is the extension (`TwoEffects`). Effects are folded by a
recursive function; that it exists, and that `2 ^ n` and the bitwise sums do what
they should, are inductions over sets as above. For predictions the invariant needs
more than the properties say: `ComparedIs`, that the comparison remembered is of
values of some width *and* that the flags are those of its difference. A step keeps
it because what sets the flags defines a condition (`X86ConditionIs`,
`ArmConditionIs`), one without operands if it is no comparison; and `RelationsRead`
shows, for each condition of x86 and ARM, that the relation the analysis names for
it, evaluated on the operands, is the condition evaluated on the flags, the signed
ones through overflow (`SignedOrder`). `ComparisonHolds` is its part that speaks
of the flags alone. An instruction under a condition may not be executed; then the client keeps
only what has not changed (`KeptFacts`), which is true either way.

*Engines.* `EngineInv` adds to the types that the two flags exclude each other,
that a configuration without a flag has empty words and one with `ALL` full ones,
and that an engine always has a flag. `FeaturesAreWords` then reads the features
of either off the words alone, and `FeaturePosition` (no two identifiers share
word and bit) turns setting a bit into adding a feature; `PromiseStep` goes
through the calls.

*Block oracle.* The specification sums sizes with a recursive function over
prefixes, the loop with a running total. That the function exists and is the one
that satisfies its equation is shown by induction over a set of numbers that has
no least counterexample (`SetInduction`, from the well-foundedness of `<`), which
needs no theorem with an operator parameter. The running total is then the size of
the prefix decoded, and each exit of the loop is the verdict on the shortest
prefix with a reason to stop.

*Features of instructions.* `AnswerInv` keeps that the answer of the encoder is the
one to what was asked last; the rest is about the searches. Each finds the least
of the rows that fit and are not ruled out (`FoundIs`, `PickIs`) and remembers
whether one was passed over; with every feature enabled none is, and what is found
missing without having passed over any is missing for any features. The searches
for a record in the decoder of x86 are repeated with all features, which makes the
same of them (`AllowedIs`). For the encoders of x86 and AArch64, which take any
record that can be written and not the first, the attempt failed, and with it an
earlier form of `FeatureVerdict` that had held on the instance: hence `Overlooked`,
and a row and a request in the instance that show it.

*Sizes.* The encoders compute the size they report before they write, and
WebAssembly's apart from what it writes: `CodecTypeOK` says the two agree. For
BPF and AArch64 the size is a field of the record or the word; for x86 it is the
length of what the pieces are joined to, once each piece is known to be a sequence
(`X86HeadIs`, `X86BytesIs`). For WebAssembly the sum of sizes and the
concatenation of pieces are two recursive functions over the operands, compared by
set induction (`WasmFits`); a piece has the length computed for it because a number
of `n` payload groups ends within the bytes its type may have (`UlebSizeIs`,
`SlebSizeIs`), which is where `WasmOperands` is needed. An instruction that was
received keeps to it because what is read fits its type: a number that ends within
`MaxLeb` groups, cut to its width (`ReadLebIs`), or a sum of bytes
(`ReadBytesIs`). `CodecTypeOK` is not inductive by itself: the buffer of a retry
has the size that was asked for, so `SizesInv` adds that such a size is a number,
and, for the operands of WebAssembly, that they stay what the API gives them.

### Model-checked only

Of the safety invariants `ReadsBack` and `TruncatedIsRefused` of `Codec`, which
relate what the folds of the encoder write to what those of the decoder read: for
the variable part of x86 and the bit fields of AArch64 they depend on the rows of
the tables, which the theorems leave open; for BPF and LEB128 it has not been
attempted. And all liveness (`DecodeReturns`, `Returns`, `Leaves`), which this prover
does not do under fairness.

## Not modelled

- *ARM decoder and encoder.* Some 3500 records over bit fields with shared
  identities; a selection small enough to check does not represent them, and the
  encoder chooses by the order of all. What the overlay analyses, emits and
  relocates is modelled (`ArmTarget`). Known from comparing them by hand: A32 data
  processing with the program counter loses its condition and its `s` on the way
  back, and the 16-bit conditional branch of Thumb comes back unconditional.
- *Text and metadata.* Formatting and lookups without state. The operand flags
  (read, write) that the decoders take from the metadata tables are inputs of
  `Values`, given by its forms.
- *Capability query and error record* (`asmkit_target.c`, `asmkit_workspace.c`).
  The first is a table; no modelled operation reads the second.
- *The rest of the tables.* The rows taken over are those in the modules; a typing
  error in another row is beyond this project.
- *BPF bytes.* Fields are not packed into bytes: the code copies them one by one.

## Plan

1. *Done*: vocabulary and targets, block decoder with its oracle, relocation,
   execution of trampolines, detours, transfers, control states, engines, the
   bytecode overlays, the codecs of four targets, values and their client; the
   proofs of the layout and of engines.
2. Models to come: the Thumb IT state in `Cpu`, as in `Explore`; for which
   encodings `x86_find_rip_disp` goes wrong, by the bytes of `X86Decode` (its
   outcomes are in `X86Target`); the capability query of `asmkit_target.c`
   against what the emitters accept; a selection of the ARM tables.
3. *Done*: proofs of targets kept, detours, transfers, the following of
   successors, the execution of trampolines, values and predictions, the verdicts
   and sizes of the codecs, and the three refinements.
4. Proofs to come: `ReadsBack` for BPF and for LEB128, by the set induction of
   `RelocateProofs` and `CodecProofs`; and the theorems about values without the exemptions of
   `Proper`, when the analysis reports those instructions rightly.
