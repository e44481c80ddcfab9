# A verification project for risc-vm

risc-vm simulates a RISC-V processor with a five-stage pipeline, data
forwarding and an n-bit branch predictor, and lets clients load programs into
it and step them over HTTP. This directory holds TLA+ models of the processor,
the assembler, the sessions and the server, the TLC runs that check them and
theorems checked by TLAPS. The models are translated from the Go source; a
definition that models code bears the name it has there.

The first question behind the project is the one `vm/test.go` asks of eight sample
programs: *does every combination of forwarding and branch prediction compute
the same registers and the same memory?* The answer is "yes, until one of four
situations occurs". The runs show each of the four, show on several thousand
programs that nothing else goes wrong, and a theorem says which feature brings
in which situation.

Three more questions follow from how the processor is used. *Does the assembler
give the processor what the source says?* *Is a machine that was reset as good
as a new one, whatever happened to it before?* *Can a client tell that others
use the server at the same time?* The runs `parser`, `sessions` and `server`
answer "yes", "yes, except for what it reads from memory and from stale
forwarding paths" and "no".

## The system

| Part | Source | State | Operations |
|---|---|---|---|
| Instruction set | `vm/instruction.go`, switches in `vm/core.go` | none | formats, source registers, what each op computes |
| Branch predictor | `vm/predictor.go` | 32 entries (tag, counter, target, valid), counter width | `predict`, `getTarget`, `update`, `Reset` |
| Pipeline core | `vm/core.go` | Pc, registers with a busy count, memory, four double-buffered pipeline registers, a control buffer, stall flags, halt flags | `ExecuteCycle`: control, write-back, memory, execute, decode, fetch, shift |
| Session lifecycle | `vm/core.go` (`Reset`, `SetProgram`, `LoadProgramFromStr`), `rest/handlers.go` | the machine above, reused; the count of a step request | load, update_config, step, recovered panic |
| Parser | `vm/parser.go` | cursor, symbol table, instructions waiting for a label | tokens to instructions, labels, pseudo instructions |
| Diagnostics | `vm/diagnostic.go`, `vm/interface.go` | counters, lists of changed cells, a record per cycle | counting in the stages, `GetState`, accuracy |
| REST server | `rest/` | session table behind one mutex | new, get, load_program, update_config, step |
| Command line, test harness | `main.go`, `vm/test.go` | none | run a file; compare with saved states |

How they interact. `ExecuteCycle` calls the stages from the last to the first
on shared state, so that the order of calls within a cycle is the concurrency
of this program: execute and fetch write the same control signal, write-back,
decode and flush count the same busy register, decode and control redirect the
same Pc. Stages talk to the *next cycle* through the write sides of the
buffers. Fetch asks the predictor (`predict`, `getTarget`); execute, two cycles
later and with other branches in between, tells it the outcome (`update`) and
decides from its answer whether to flush. A REST handler owns a machine for the
length of a request and calls `Reset`, `LoadProgramFromStr` and
`ExecuteCycle`; net/http recovers its panics.

What is hard here: a stage reads what another stage has written earlier in the
same cycle; a table entry changes between fetch and execute; a flush meets
stalls, multi-cycle instructions and the end of the program; several
instructions in flight write one register; a fault must be precise. A unit test
reaches few of these orders. `PROJECT.json` lists them at their lines.

What makes each part correct:

- *predictor*: counters saturate; branches that share a slot never mix their
  targets; a settled branch is learnt; `update` never takes a wrong path for a
  right one;
- *pipeline*: busy counts exactly the pending writers; no instruction in flight
  is overwritten; a branch stall always has somebody who will resolve it; the
  machine executes the program, with precise faults; it ends or goes on;
- *session*: after `Reset` the machine computes what a new one computes; a
  panic half way through a cycle damages nothing that a reset cannot mend;
- *parser*: a label means the same address from every use, a pseudo instruction
  does what it stands for, no good source is refused;
- *diagnostics*: the counters add up, and a client that applies the reported
  changes has the machine's registers and memory;
- *server*: every request takes effect at one moment, and is answered.

## Modules

| Module | Models | Notes |
|---|---|---|
| `Words` | machine words | the size of a byte is a constant, so that wrap-arounds are within reach of TLC |
| `Instructions` | formats, operands, decode, execute, memory access as operators | arithmetic is the constant operator `Alu` |
| `Alu` | the arithmetic of `run_execute` | uses `Bitwise`, hence only for runs |
| `BranchPredictor` | `predictor.go` as operators on the buffer | used by both of the next two |
| `Predictor` | the predictor under any sequence of calls | history variable `resolved`: the last use of each slot |
| `Pipeline` | `core.go`: one action per call of `ExecuteCycle` | `phase` says which call comes next |
| `Isa` | the sequential machine: one instruction per step | the promise, built from the same operators |
| `PipelineRefinement` | Pipeline implements Isa | refinement mapping, the four anomalies |
| `Parser` | `ParseProgramFromString`: one action per kind of token, then one per missing label | the lexer is reduced to tokens and its look-ahead |
| `Assembly` | what a source means, line by line | the promise of the parser |
| `Diagnostics` | the actions of `Pipeline`, each with what it counts and reports | `view`: a client that applies every state |
| `VmSession` | a machine used by request after request, with panics | composes `Diagnostics` with the handlers |
| `SessionPromise` | the session's machine next to a new one (`New == INSTANCE Pipeline`) | history variables `filled`, `written`, `tainted` |
| `SessionTable` | the server's table, requests and answers | a machine is reduced to how the run it is in will end |
| `Service` | the atomic service | the promise of the server |
| `RestServer` | clients, handlers, the mutex, late bodies, unread answers, panics | refines `Service` |
| `MCPredictor`, `MCPipeline`, `MCClaims`, `MCParser`, `MCSession`, `MCServer` | instances for TLC | programs, settings, sources; claims of comments and tests |
| `MachineLemmas` | lemmas on words, conversions, memory, formats, the predictor's update | |
| `PredictorProofs`, `PipelineProofs`, `RefinementProofs`, `SessionProofs`, `PromiseProofs`, `ServerProofs`, `ParserProofs` | theorems | see below |

Correspondence of state. A `Pipeline_Buffer` pair is a function on `{W, R}`,
the write and the read side (indexes 0 and 1 in the code). Bit flags are sets
of names. `Registers[i].Data` and `.Busy` are `RegData[i]` and `RegBusy[i]`.
`_fmt` is determined by the op and is not stored. `_ex_total` and
`_ex_remaining` are `ExTotal(inst)` and `remaining`. `Runtime_error` is the
kind of error. What no stage reads is not in `Pipeline`: the counters `Dm`
and the diff lists are in `Diagnostics`; `cycle_info` and `Stack_size` are left
out, `Program_size` is the length of `program`.

Correspondence of steps. `RunControl` is the head of `ExecuteCycle` and
`run_control` with the whole of `flush`; `RunWriteback`, `RunMemory`,
`RunFetch` are the stages; `run_execute` and `run_decode` have one action per
early return (`RunExecuteCycle`, `RunDecodeStall`), `run_execute` one more for
a Go panic; `RunFetchEnd` is fetch at the end of the program; `Bubble` is a
stage that is not called; `ShiftPipelineBuffers` is the rest of `ExecuteCycle`.
`Finished` is where `RunPipelined` stops.

An instruction takes effect, for the refinement, when it passes `run_memory`:
until then it can be flushed, after that only its write-back is due. So the
mapping adds the writes of MEM/WB to the register file and computes the next
program counter from the youngest instruction there.

Programs are parsed programs as the parser lays them out (an `end` at index 0,
entry 1). `ProgramsAssumption` says that register fields name registers; the
parser does not check that, and `FeedsPipeline` shows that sources which write
registers where registers belong satisfy it.

*Parser.* A source is a sequence of lines of tokens; `line` and `num` are the
cursor, and `next` is what `peekNextToken` sees, across the line end. Each
iteration of the first loop is one action (`DeclareLabel`, `SkipColon`,
`FillOpcode`, `FillOperand`, `RejectToken`, `PanicInLexer`) that ends, as the
loop does, by pushing a complete line (`FinishToken`). `FillMissingLabel` is an
iteration of the second loop, in any order, because Go's order of a map is any.
The instruction with index n is `Program[n + 1]`. What the model shows of odd
input, and no property forbids: `a: 5` on one line pushes a nop; an operand of
32 or more is taken as a register; a label used behind a declaration on the same
line is recorded for whatever instruction comes next.

*Sessions.* `VmSession` takes every step of `Pipeline` together with its report
(`ReportedStep`). A request other than step is one action, since its handler
holds the mutex throughout; `StepRequest`, `ExecuteCycle` and `Answer` are the
loop of `stepProgramHandler`, with its variable i in `left`. A Go panic leaves
`phase = "panicked"`; `Recover` is what net/http does about it, and the next
cycle starts at control again, on the buffers of the unfinished one.
`IndexPanics` is the access that passes the bound check of new settings and
runs off the memory of the old ones. `damage` remembers panics, and tells those
in a cycle that began with a flush (`broken`) from the others (`stuck`). In
`Diagnostics`, `flushed` is the length of `Flushed_pcs`, and the order and
repetition in the diff lists are dropped.

*Server.* `at[c]` says what happens next to the request of client c; the points
between `lock` and `reply` are those with the mutex held. A body may arrive at
any later moment (`Receive`), or never. The handlers behind the mutex write
their answers before the deferred unlock runs (point `write`; only
`newSessionHandler` has released the mutex by then). `ListenAndServe` is used
without a time limit, so that an answer too long for the buffers of net/http
and the connection waits for a client that reads: `Long` says which answers
have no bound in their size, and `Deliver` of such a one may never happen.

A machine of the table has a program, settings, an error flag, and the run it
is in: it will halt, fault or panic after so many cycles (`toGo`, `ends`), or go
on for ever. A run is not a function of program and settings, since memory and
pipeline buffers survive a reset (`core.go:156-169`); it is chosen from a set
`Run` when the machine is reset or gets a program. A panic leaves half a cycle
behind, and what the next request makes of it is chosen from a set `Rerun`:
usually the cycle panics again, but after a flush that took back the halt
(`core.go:305`) the machine can run on. That is all the server can depend on;
`VmSession` looks inside. `load_program` resets the machine before it parses:
a text that is refused leaves it reset, and so does one on which the parser
panics (`Crashing`), whose answer is dropped.

## What a reset leaves behind

`Reset` says "Clear the memory" (`core.go:156`) and clears the list of changed
addresses; it does not touch `Runtime_error`; and "shifting twice totally
empties" the buffers (`core.go:167`) clears `valid` and keeps the instructions,
which the forwarding checks read without looking at `valid`. `AsNew` states
what is left of the promise, with these exceptions and no others: the session's
machine is in step with a new one until it loads bytes that an old run stored
and this one did not, takes a forwarded value from an instruction of an old
run, or runs off a memory that has the old size. The comparison begins with the
first cycle, which sets `Runtime_error` again. A step request with n = 0 before
it reports an old error (`core.go:163`); `AsNew` does not speak of that.

## The four anomalies

`PipelineRefinement` names, as predicates on the state before a call, the
situations in which the control logic goes wrong; the history variable
`anomalies` collects those that occurred.

| Anomaly | Cause | Run |
|---|---|---|
| `lost_redirect` | fetch overwrites the target that execute asked for in the same cycle (`core.go:382`) | `claim_redirect` |
| `swallowed_flush` | a flush that meets `_halt` leaves the decoded wrong-path instruction (`core.go:305`) | `claim_flush` |
| `load_shadow` | the forwarding check looks past a load in ID/EX (`core.go:221`) | `claim_forwarding` |
| `foreign_stall` | a predicted jalr takes the stall of a younger branch (`core.go:640`) | `claim_jalr` |

Two more situations stop the machine instead of giving a wrong result:
`Wedged` (a flush leaves `STALL_RAW` set, `core.go:323`; run `claim_ends`) and
`Lost` (a jump beyond the end, where fetch is not even called,
`core.go:850`).

## Runs

| Run | Checks | Size |
|---|---|---|
| `predictor` | `TypeOK`, `TargetOfLastResolution`, `TrainedByStreak`, `UpdateSound`, `Hysteresis` | 3 branches (two in one slot), 3 targets, widths 0 to 3, counters modulo 8 |
| `programs_short` | `TypeOK`, `Scoreboard`, `BranchStallHasOwner`, `AnomaliesNeedFeatures`, `NoOverwrite`, `RefinesIsa` | 2197 programs of three instructions, 4 settings |
| `programs_long` | `Scoreboard`, `RefinesIsa`, `Progress` | 296 programs with loops, calls and changing jump targets, 5 settings |
| `parser` | `TypeOK`, `LabelsResolve`, `AcceptsWellFormed`, `PseudoMeaning`, `FeedsPipeline`, `PanicsExplained` | 6318 sources of up to five lines |
| `sessions` | `SessionTypeOK`, `InstructionsAccounted`, `AccuracyInRange`, `ReportsComplete`, `AsNew`, `PanicFreezes` | up to 5 requests, 8 programs, 3 settings, steps of 0, 3 and all cycles |
| `server` | `ServerTypeOK`, `MutexHeldInside`, `ServesAtomically`, `Answered` | 2 clients, one session, two programs with every way to end, a text the parser panics on |
| `predictor_exact` | refutes "returns if the prediction was correct or not" (`predictor.go:67`) | |
| `claim_flush` | refutes "flushes the IF/ID and ID/EX pipeline buffers" (`core.go:301`) | one program |
| `claim_redirect` | refutes "If our prediction was not correct do the correct branch" (`core.go:623`) | one program |
| `claim_forwarding` | refutes the RAW check (`core.go:272`) and the demand of `test.go:101-140` | one program |
| `claim_ends` | refutes "so that execution stops when the pipeline is drained" (`core.go:334`) | one program |
| `claim_jalr` | refutes "If there was a stall, dissolve the stall" (`core.go:636-638`) without prediction or forwarding | one program |

Why the bounds are enough. The pipeline holds four instructions, and every
hazard is a relation between at most three neighbouring ones and what fetch
brings in behind them: the menu of `programs_short` has every kind of
producer, consumer, fault, branch and jump, and takes all triples. What three
instructions cannot show is a predictor that has learnt something; for that
`programs_long` iterates loops of up to four instructions and calls one
indirect jump from two places, with targets that include another branch. The
table there has 8 entries, of which the addresses of instructions use two
(multiples of 4 index it), so that branches two instructions apart share an
entry, as branches eight apart do in the table of 32. A byte has 4 values and a word 256: addresses still
wrap, memory of 8 bytes has aligned, unaligned and out-of-bounds addresses. The
predictor run bounds the recorded streak at 8, above the largest counter. A
program either ends or runs on in a cycle of states, so both runs are
exhaustive: there is no bound on their length.

*Parser.* A line is parsed from nothing but the table and the lines before it,
and what two lines can do to each other is declare and use a label, in either
order. The menu has a line of every format and pseudo instruction and one for
every error; all pairs of good and bad lines, all triples of good ones, bad
lines in front of two others, and five lines with a label used across
two others. Registers are the first four, so that words of two bits per byte
suffice; `PseudoMeaning` compares meanings on nine register files.

*Sessions.* `MaxRequests` = 5 is enough for a load, a run, a change of settings
or a second load, and a run of that, with a panic in between; `MaxCycles` = 32
is above the longest run that ends. Each program leaves something behind (a
register, a trained predictor, a stored word, a larger memory) or would
notice (reads a register, memory, or the predictor first). A session that
reaches a bound stutters (`Quiet`).

*Server.* Two clients are what mutual exclusion is about. One session
(`MaxSessions`) is what the run can afford with two clients that never stop;
the theorem below has no such bound. Of its two programs, `reader` divides by
what it finds in memory: it halts or panics, and after a panic it panics again
at once or runs into a memory fault; `loop` never ends. These are all four
ends, each reached in the middle of a step of any length (1, or until it
halts) and at its border.

`CHECK_DEADLOCK` stays on; `Stopped` and `Quiet` are the stuttering of a
machine or a session that has finished.

Fairness. `FairSpec` and `FairObservedSpec` have weak fairness of `Step`: the
loop of `RunPipelined` calls `ExecuteCycle` until `Halted`, and within a cycle
the stages follow each other without waiting. No fairness is assumed of any
single stage, of branches or of stalls. Under it `Progress` says that the
machine finishes, commits instructions again and again, or is `Wedged` or
`Lost`. `FairServerSpec` has weak fairness of what a handler does without
waiting, since goroutines are scheduled, and strong fairness of `Lock`, since
`sync.Mutex` hands itself to a waiter that has waited for a millisecond. Clients
need not send, a body need not arrive, and a long answer need not be read; an
answer that is not `Long` fits the buffers of net/http, and writing it is
something the handler does without waiting. `Answered` names exactly these
delays, and programs stepped without end, as reasons for a request to hang, be
it the request that suffers them or one that waits for the mutex behind it.

## How sensitive the checks are

Definitions introduced as a slip are never used by the models. Each is a
mistake the following definition could plausibly contain; put in its place it
violates the property named here.

| Slip | In place of | Noticed by |
|---|---|---|
| `MovedUnbounded` | `Moved` | `TypeOK` (predictor) |
| `MovedShort` | `Moved` | `TrainedByStreak` |
| `HitNoTag` | `Hit` | `TargetOfLastResolution` |
| `DirectionCorrect` | `UpdateCorrect` | `UpdateSound` |
| `ThresholdHigh` | `Threshold` | `Hysteresis` |
| `BranchTargetUnwrapped` | `BranchTarget` | `TypeOK` (pipeline) |
| `flushForgetsBusy` | `flush` | `Scoreboard` |
| `FetchUnlessBranch` | `FetchEnabled` | `NoOverwrite` |
| `ResolveJalrSilently` | `ResolveJalr` | `BranchStallHasOwner` |
| `forwardsInEverySetting` | `checkRegisterForwardDecode` | `AnomaliesNeedFeatures` |
| `oldestFromBypass` | `getRegValueFromBypass` | `RefinesIsa` (short) |
| `shouldStallOnRegisters` | `shouldStallDecode` | `Scoreboard` (long) |
| `ResolveJalrTrusting` | `ResolveJalr` | `RefinesIsa` (long) |
| `ResolveTakenBranch` | `ResolveBranch` | `Progress` |
| `DeclareLine` | `DeclareLabel` | `TypeOK` (parser) |
| `OffsetFromNext` | `Offset` | `LabelsResolve` |
| `TakesLabelOnBranch` | `TakesLabel` | `AcceptsWellFormed` |
| `Straight` | `Exchanged` | `PseudoMeaning` |
| `LinkedLikeJal` | `Linked` | `FeedsPipeline` |
| `MissingAfter` | `MissingAt` | `PanicsExplained` |
| `StoredUnchecked` | `Stored` | `SessionTypeOK` |
| `DiscardedAnyway` | `Discarded` | `InstructionsAccounted` |
| `BranchesTaken` | `Branches` | `AccuracyInRange` |
| `StoredFirst` | `Stored` | `ReportsComplete` |
| `resetControlLightly` | `ResetControl` | `AsNew` |
| `RecoverDropping` | `Recover` | `PanicFreezes` |
| `GoesOnBlindly` | `GoesOn` | `ServerTypeOK` |
| `StepPanicLocked` | `StepPanic` | `MutexHeldInside` |
| `LockShared` | `Lock` | `ServesAtomically` |
| `StepPanicCaught` | `StepPanic` | `Answered` |

## Theorems

All are about every value of the constants: every set of well-formed programs
and configurations, every word size, register count, table size and ALU that
maps words to words, every number of clients and sessions. Their assumptions
are the named `ASSUME`s of `Words`, `Instructions`, `BranchPredictor`,
`Predictor`, `Pipeline`, `VmSession`, `SessionTable`, `RestServer`, `Parser` and
`Assembly`, which TLC evaluates on the constants of the runs. Those on the
parser's constants: a source is any sequence of lines of 1 to 255 tokens
(`SourcesAssumption`), the register names it uses name registers of the machine
(`RegisterNamesAssumption`, void with 32 registers), the register files on which
meanings are compared hold words and zero in register 0 (`RegFilesAssumption`),
and `addi`, `sub` and `xori` with -1 compute what Go computes
(`ArithmeticAssumption`; without it the ALU is any function and "not" could not
mean anything). Those on the server's: `Run` and `Rerun` give every program and
setting at least one run (`TableAssumption`). `ParserProofs` takes the predictor's constants along with
`MachineLemmas` and uses nothing of them.

| Theorem | States |
|---|---|
| `PredictorProofs!TypeCorrect` | `Spec => []TypeOK` |
| `PredictorProofs!TargetsAreNotMixed` | `Spec => []TargetOfLastResolution` |
| `PredictorProofs!PredictorLearns` | `Spec => []TrainedByStreak` |
| `PredictorProofs!CorrectMeansRight` | `Spec => []UpdateSound` |
| `PredictorProofs!OneOutcomeIsNotEnough` | `Spec => Hysteresis` |
| `PipelineProofs!TypeCorrect` | `Spec => []TypeOK` |
| `PipelineProofs!NothingIsOverwritten` | `Spec => NoOverwrite` |
| `PipelineProofs!StallsAreOwned` | `Spec => []BranchStallHasOwner` |
| `RefinementProofs!ScoreboardExact` | without jalr, busy = pending writers, always |
| `RefinementProofs!ScoreboardCorrect` | without jalr, `Spec => []Scoreboard` |
| `RefinementProofs!AnomaliesNeedTheirFeature` | without jalr, `ObservedSpec => []AnomaliesNeedFeatures` |
| `RefinementProofs!RefinementTheorem` | without jalr, `ObservedSpec => RefinesIsa` |
| `RefinementProofs!PlainTheorem` | without jalr, prediction and forwarding, `ObservedSpec => SameInEveryConfiguration` |
| `SessionProofs!AccountTheorem` | `SessionSpec => []InstructionsAccounted` |
| `SessionProofs!AccuracyTheorem` | `SessionSpec => []AccuracyInRange` |
| `SessionProofs!ReportTheorem` | `SessionSpec => []ReportsComplete` |
| `SessionProofs!SessionTypesCorrect` | `SessionSpec => []SessionTypeOK` |
| `SessionProofs!FreezeTheorem` | `SessionSpec => PanicFreezes` |
| `PromiseProofs!ResetTheorem` | `PromiseSpec => []AsNew` |
| `ServerProofs!MutexTheorem` | `ServerSpec => []MutexHeldInside` |
| `ServerProofs!ServerRefinesService` | `ServerSpec => ServesAtomically` |
| `ServerProofs!ServerTypesCorrect` | `ServerSpec => []ServerTypeOK` |
| `ParserProofs!ParserTypeTheorem` | `Spec => []TypeOK` |
| `ParserProofs!PanicsTheorem` | `Spec => []PanicsExplained` |
| `ParserProofs!LabelsTheorem` | `Spec => []LabelsResolve` |
| `ParserProofs!AcceptsTheorem` | `Spec => []AcceptsWellFormed` |
| `ParserProofs!PseudoTheorem` | `Spec => []PseudoMeaning` |
| `ParserProofs!FeedsTheorem` | `Spec => []FeedsPipeline` |

The arguments.

*Predictor.* The invariant relates each entry to the history of its slot: the
entry is valid exactly when the slot has been used, its tag and target are
those of the last use, its counter is within the width. Without the tag part
`TargetOfLastResolution` is not inductive: a claim by another branch must reset
the tag and the target together.

*Types.* `IInv` adds to `TypeOK` that a valid instruction in IF/ID or ID/EX
has cycles left to execute; without it `remaining - 1` could leave its range.

*Overwriting.* `Sides` says which write sides can be full in which phase. The
interesting one: in fetch, IF/ID is full only if decode has stalled, and then
the stall flag keeps fetch from running.

*Stalls.* `Owned` follows the branch that owns a stall from the write side of
IF/ID to the signal it sends from execute. It is a jalr, or a conditional
branch in a setting without prediction; that is why nothing else can flush it
before it resolves.

*Scoreboard.* `Exact` alone is not inductive, because a flush decrements Busy
for whatever ID/EX shows, valid or not. `FlushTarget` says that what it shows
is either the valid instruction behind the branch or the branch itself, which
writes nothing. A jalr does write a register, so with jalr a flush that finds
ID/EX empty takes back the count of the jalr itself. TLC confirms it: dropping
the exception for `Wedged` from `Scoreboard` is refuted by short programs with a
jalr. The theorem therefore assumes that programs have no jalr.

*Anomalies.* A load that decode overlooks has left ID/EX for EX/MEM by the time
decode runs (`Passed`), so by the scoreboard its register is busy, and decode
lets the instruction pass only if the forwarding check says so, which it never
does with forwarding off. Only a misprediction sends a flush
(`FlushesPredict`).

*Refinement.* The invariant is `OrderInv`: as long as there was no anomaly, no
error and no panic, what is in flight is `InOrder`. `ToMemory`, `ToExecute` and
`ToDecode` are the instructions in front of memory, execute and decode, on
whichever side of their buffer the phase has them; `Regs` and
`PcAfterCommitted` are what the sequential machine has. `InOrder` follows the
program from there: the instruction in front of memory is the one at
`PcAfterCommitted`, with the operands and the result that `Regs` give it
(`Done`); the one in front of execute is at the next address, and each of its
operands is right as it stands, or will be what bypass then finds in EX/MEM or
MEM/WB, or is due from no load ahead of it (`Ready`); the one in front of decode
is as fetched (`AsFetched`); and `Pc`, or the target that is on its way to it, is
the address after that, where the address after a branch that has not been
executed is the one the predictor gives (`Path`). A pending flush suspends all
this but for the instruction that asked for it: its target is where the
sequential machine goes on.

Each call keeps `InOrder`. For this it takes the scoreboard (decode reads a
register only when nobody ahead still has to write it, or bypass can supply it),
and `ShInv`, which is about what is left in a buffer after its instruction has
moved on. Bypass and the forwarding check of decode look at that: `Shadows` says
that it is an instruction that still is in flight or has just been committed,
so that a value found there is the one that was asked for. The three anomalies
that a program without jalr can meet are used in one place each: `LoadShadow`
in decode (`DecodeOrder`), `LostRedirect` in fetch (`FetchOrder`) and
`SwallowedFlush` in `run_control` (`ControlOrder`). Training the predictor must
not change the guess that the next instruction was fetched on (`GuessStable`).
That needs two instructions in a row to use different entries
(`SeparateSlots`): true of the 32 entries of the code and of the runs, and of any
number above four that divides the number of words, which is what the theorem
assumes.

Then a call of `run_memory` is `Retire` or `Fault` of the sequential machine
(`MemoryStep`), a panic in execute is its `Panic`, the shift that halts the
machine is its `End`, and every other call changes nothing of it
(`OtherSteps`). That a fault is precise takes two facts: an aligned store that
is in error stores no byte (`FaultStoresNothing`), and `RunWriteback` has already
been called in the cycle of the fault, while the next cycle does not begin
(`Errors`).

With prediction and forwarding off there is nothing to excuse:
`AnomaliesNeedTheirFeature` says that no anomaly happens, so that `PlainTheorem`
turns the refinement into `SameInEveryConfiguration` itself, the claim that the
runs refute in other settings.

*Sessions.* `InstructionsAccounted` and `ReportsComplete` speak of the moments
between cycles; `SessionInv` says what they become inside one. `Pending` counts
an instruction on the read side of its buffer until the stage there has run and
on the write side of the next one afterwards; that no instruction is
overwritten on the way is `Room`, the same argument as for `NoOverwrite`.
`Known` says that outside the lists of changes the client's copy is right. Both
are conditional on no unmended panic: a panic leaves write sides full at the
beginning of a cycle, and `Latches`, `CountersType` and `Cellwise` are what
survives it and lets `Reset` establish the rest again. For `SessionTypeOK` the
argument of `TypeOK` is split: `Core` is all of it but the memory, and each
stage keeps `Core` if a load returns a word (`LoadsWord`). In a session the
memory may be shorter than the bound that is checked, so that this holds for
another reason than in `Pipeline`: what would run off the memory panics
(`IndexPanics`), and an aligned access that begins below the end also ends there
(`AlignedFits`, `StoredCells`).

*Panics.* After a panic, the first stages of the same cycle run again.
`CycleSoFar` says what they have done by the time of the panic: the jump has
been taken (`Redirected`), the register holds what MEM/WB writes
(`WrittenBack`), memory what EX/MEM stores (`StoreDone`). Doing it again changes
nothing, and the panic, in `run_memory` (`RunsOffMemory`) or in execute
(`PanicsInExecute`), is in front of everything else (`Stuck`). This needs that
the cycle has no flush: a flush that finds `_halt` set takes it back and drains
nothing, so that the next attempt finds it clear, drains the instruction that
panicked, and the machine runs on. One of the programs of `sessions` does
that; for it the claim that a panicked machine stands still until it is reset is
false, and `PanicFreezes` makes none for a machine that is `broken`.

*Reset.* `PromiseProofs` runs the session's machine and a new one side by side.
The operators that `New` gets from the second instance of `Pipeline` are shown
to be the session's own (`SameWords` to `SameBuffers`). The invariant `Matched`
relates the states: control state and registers agree; a buffer agrees where it
is valid, and also where it is not if it has held an instruction of this run
(`Traced`), while one that has not is an empty slot in the new machine
(`BuffersMatched`); memory agrees on what this run has written, and the new
machine has zeros elsewhere (`MemoryMatched`); the error agrees from the first
cycle on. That the forwarding paths read invalid slots is why `AsNew` alone is
not inductive. `FlushIsOwn` is needed because a flush takes the busy count of
whatever ID/EX shows: in either machine the slot it reads has held an
instruction of this run. Each stage then has a `Twin` lemma: under `Matched` and without a leak, the
step of one machine is the step of the other, and `Matched` holds again. A leak
sets `tainted`, which ends the comparison.

*Server.* `AtPoint` says, for each point a handler can be at, how the table
differs from what it was when the mutex was taken (`before`): not at all before
the handler changes it, by one of the possible resets in front of `parse`, by
some cycles of one machine in `loop`. There `SameStep` says that the cycles done and those left
together are the whole step, so that the atomic `ServeStep` of the service gives
the same machine and the same answer. The refinement mapping shows clients the
table as it was before until the answer is settled (`Through`); the steps that settle
the answer are the steps of the service, every other one is a call, a return or
a stutter. `ServerTypeOK` bounds the table although several clients may have
been let in to create a session and none of them has yet: `TableInv` counts the
sessions that are there together with those that are on their way (`Room`).

*Parser.* `ParserTypes` is the type invariant; the panics need `Following`
besides: a label noted for an instruction that is not in the program yet is on
the line of an instruction, which is coming, or behind a declaration with no
instruction after it.
Everything else is `Followed`, about sources without mixed lines that have not
been refused so far. It relates the cursor to the source: the program has one
instruction for each instruction line passed (`Counted`); the table holds
exactly the declarations passed, each with the index of the next instruction
(`Declared`); each complete line that was passed is in the program as
`Assembled` from its tokens, with its label's offset either in place or noted
as missing (`Encoded`); so is the part of the current line that was read
(`Filling`); and each noted label belongs to the line that uses it (`Noted`).
At the end nothing is noted, hence all offsets are in place (`Finished`). That
the two passes give one address is then a matter of conversions: adding an
offset that was wrapped to 32 bits is adding the offset (`Uint32OfInt32`), and
the field the second pass writes is the one the expansion has left the label in
(`LinkedAssembled`). For `AcceptsWellFormed`, `Accepted` says that no error
branch is enabled on a well-formed source. For `FeedsPipeline` one needs that
every index below the length of the program belongs to a line. As a fact about
counting lines this is induction over the length of the source, which the
prover cannot do; but the parser goes through the source itself, so that it can
be an invariant of its steps instead (`Covered`). `PseudoMeaning` computes the
effect of each expansion (`AluEffect`, `BranchEffect`, `JumpEffect`,
`ReturnEffect`) and compares it with what the operands are read as
(`OperandMeaning`).

## Only model-checked

- `RefinesIsa` for programs with jalr, where the scoreboard of the proof does not
  hold. `SameInEveryConfiguration`, which makes no exception for the anomalies,
  is refuted with forwarding and with jalr; without jalr, prediction and
  forwarding it is proved.
- `Progress` and `Ends`: liveness under fairness is out of the prover's reach.
- `Scoreboard` for programs with jalr.
- `Answered`: liveness.
- `UpdateExact`, `FlushEmptiesBuffers`, `FlushGoesToOutcome`: refuted.

## Not modelled

- The meaning of single instructions is taken from the code, for Isa and for
  `Assembly` as well: that `srai` shifts left (`core.go:567`) and `jalr` stores
  its own address (`core.go:559`) is invisible here. The repository states no
  other meaning to compare it with.
- Characters: which of them form a token, number syntax, what counts as space.
  The parser decides by the type and value of a token alone. Kept of the lexer
  are token numbers, the look-ahead and the read past the end.
- Operands of 32 and more, which index past the registers and make decode
  panic: `Parser` accepts them as the code does, but no run feeds them to the
  machine.
- `Cycle_Info`, CPI, dumps and the layout of states: they show what the
  modelled state holds. Limits of memory and of the session table: the code has
  none.
- CORS headers and the static list of instructions of the server.
- The command line and the test harness: input and output only.

## Plan

1. `Scoreboard` with jalr, with `Wedged` states excepted, and with it the
   refinement of Isa for all programs.
2. Composition of `RestServer` with `VmSession`: the sets `Run` and `Rerun`, which
   are parameters here, derived from the machine.
3. Instruction results against an instruction set reference, should the
   repository adopt one.
