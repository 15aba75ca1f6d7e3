# A verification project for Saad

Saad is a programming language: a compiler in C (`src/src`, from the lexer to its own x64 assembler and linker, with an
LLVM backend beside it), a standard library in Saad itself (`src/std`: threads, HTTP server, database access, JSON,
collections) and a language server (`src/lsp`). This directory holds TLA+ specifications of the parts where being right
is hard and testing says little: the code that runs on several threads, and the passes of the compiler where a mistake
silently makes wrong programs: reading the text, lowering it to the IR, allocating registers, moving arguments,
assembling and linking.

Every definition is translated from the code; `PROJECT.json` ("map") names the lines of each one. TLC checks the
specifications on small instances, TLAPS proves what matters most for all of them.

## Inventory

For each part: its state, what changes it, with whom it interacts, and what makes it correct. "Modelled" parts have a
module below; the others are in the plan or listed at the end with a reason.

| part | state | operations | interacts with | hard because | correct when |
|---|---|---|---|---|---|
| thread.Mutex, Condition (modelled) | who holds the lock, who waits | lock, unlock, wait, signal, broadcast | the system's threads | any interleaving, spurious wakeups | waiting gives up the lock and blocks in one step |
| thread.WaitGroup | count | add, done, wait | Mutex, Condition | reuse while others wake up | wait returns when all is done, and always then |
| dbms.Pool (modelled) | idle stack, open, closed | get, put, close | Mutex, Condition, connect of a driver | connects outside the lock, connect fails, close at any time | one user per connection, never more than size, nobody sleeps over a free place |
| net.http.Server (modelled) | idle list of the poller, queue, returned list, wake byte, stopping; a buffer per connection | serve (poll, give, collect, accept, expire), work, serveRequests, shutdown | clients, sockets, threads | a connection goes from thread to thread without a lock; pipelining; shutdown at any time | one owner per connection, no request lost or repeated, every request answered or its connection closed, serve returns |
| net.http messages | the unread bytes of a buffer | readHead, readBody, readChunks | Buffer, sockets | data comes in any portions, limits | the same request for every portioning |
| net.http Router | routes | handle, serve, matchScore | handlers | overlapping patterns | the most specific route wins, whatever the order |
| dbms.Context | changes, tracked rows with snapshots | create, update, delete, saveChanges, discardChanges | Connection, a transaction | one of several statements fails; retry | all or nothing; rows and snapshots agree with the database |
| web | the session of a request | onStart, endpoint, onFinish, error handlers | Server, Pool | errors in each of them | what onStart took is given back |
| bytes.Buffer, mem.Arena, Map | data, position, length; chunks; slots | reserve, compact, read, write; alloc, clear; add, remove | allocators | growth, overlap, wrap around | bytes come out as they went in; no live allocation is reused |
| register allocator (modelled) | intervals, locations, active, free registers | one pass per function | liveness, x64 backend | eviction, loops, calls | no value is overwritten while it is still read |
| IR liveness (modelled) | live_in, live_out | sweeps until nothing changes | verifier, allocator | loops | exactly the vregs that are read later |
| x64 parallel moves (modelled) | pending moves, scratch registers | one call per call and prologue | allocator, calling convention | chains, cycles, one scratch per class | as if all moves happened at once |
| IR lowering (modelled but for what is listed below) | functions, blocks, slots, globals; the stacks of defers, loops and tries; pending functions | one function per statement and expression | typer, IR, std/prelude/errors.sd | exits through defers and try, errors in flags and in a thread-local, slots that are not cleared | the program does what its tree means |
| IR: building, finalize, verify (modelled) | instructions, blocks, vregs | emit, terminate, finalize, verify | lowering, allocator | unreachable blocks, names, every type rule | each function it lets through is well formed |
| typer, scopes, namespaces | state of each declaration, scopes, files | resolve in any order | parser, compiler driver | cycles, shadowing, order independence | a name means the same whatever the order of files |
| lexer (modelled) | position, tokens | lex_file | parser, errors, language server | any text must be taken; positions are counted along | the tokens cover the text, at their true places, with their true values |
| parser (modelled) | token index, flags, scopes, poisoned names | one function per construct, skip_failed_statement, #if | lexer, typer, language server | looking ahead to tell constructs apart, flags outside of the calls, recovery | a file has the trees it is the text of; a mistake stays in its statement |
| assembler (modelled) | items, labels, sections, relocations | one line at a time, layout, finish | x64 backend, object writer | encodings by register and number, short and long jumps that depend on each other | the processor reads what was written; jumps reach their labels |
| object writer (modelled) | sections, symbols, relocations of files and of the program | coff_write, coff_read, elf_write, pe_write | assembler, LLVM, a linker, the loader | four layouts of the same program, addends, symbols with equal names | each reference holds the address of what it names |
| debug information | tables for a debugger | dwarf.c | assembler | | |
| language server | documents, versions, diagnostics | open, change, close, request | editor, compiler | messages out of order | diagnostics belong to the newest text |

The hazards (what can go wrong there and a test hardly reaches) are listed in `PROJECT.json`, each at its line with the
properties that would catch it.

## Modules

| module | models | extends |
|---|---|---|
| `Condition` | Condition of `std/thread/thread.sd` | |
| `ThreadSync` | Mutex with a Condition | `Condition` |
| `Pool` | `std/dbms/pool.sd` | `ThreadSync` |
| `ConnectionLife` | abstract: what a connection of the server may go through | |
| `HttpServer` | `std/net/http/server.sd` from the Server struct on | `Condition`; implements `ConnectionLife` |
| `AllocState`, `Liveness` | `ir_compute_liveness`, the entry check of `ir_verify_function` | |
| `LinearScan` | step 4 of `regalloc_function` | `AllocState` |
| `RegAlloc` | `regalloc_function` as a whole | `Liveness`, `LinearScan` |
| `ParallelMove` | `x64_parallel_move`, `x64_emit_move`, and what the code they emit does | |
| `CallMoves` | the lists of moves of a call and of a prologue | `ParallelMove` |
| `Characters`, `Lexer` | what `lex_file` knows of characters and words; `lex_file` over characters | |
| `IfPass` | the `#if` pass of `parser.c` over the tokens | |
| `Tokens` | the looks ahead of `parser.c` | |
| `Parser` | `parse_file`, every parse function, recovery | `Tokens`, `IfPass` |
| `Syntax` | reference: the text of a tree | |
| `ReadBack` | the parser on texts of trees, whole and with a mistake | `Parser`, `Syntax` |
| `Ir` | building a function, `ir_function_finalize`, `ir_verify_function` | |
| `Lower` | `ir_lower.c` | `Ir` |
| `Meaning` | reference: an interpreter of the tree | `Lower` (for its types) |
| `Lowering` | a program is lowered and its IR is run, on two threads | `Meaning` |
| `X64Asm`, `Assembler` | `x64_asm.c`: the encoder; the lines, layout and relocations | |
| `X64Manual`, `X64Decode` | reference: what lines, jumps and other bytes mean to the processor | `X64Asm` |
| `ObjectWriter` | `object_writer.c` | |
| `Assembling` | text to program, through COFF, ELF or directly | `Assembler`, `ObjectWriter` |
| `AssembledProgram` | the properties of the program | `Assembling`, `X64Manual` |
| `PoolProofs`, `HttpServerProofs`, `RegAllocProofs`, `ParallelMoveProofs`, `LexerProofs` | theorems | the module they are about, `TLAPS` |
| `AssemblerProofs` | theorems about the sizes of jumps | `Assembling` |
| `TextProofs` | theorems about the code of the finished text and the texts that are refused | `AssembledProgram`, `AssemblerProofs` |
| `Extremes` | the least and the greatest number of a set, which the proofs go by | |
| `MC*` | instances for TLC | the module they are about |

### Pool

A thread is in one of the places of `Places`; the lock is explicit, so a thread can be interrupted wherever it does not
hold it, and while it waits for it. `get` is `getLock`, then one of `getClosed`, `getIdle`, `getOpen`, `getWait`;
connecting is outside the lock (`connected` or `connectFailed`, then `undoLock` and `undoOpen`). `put` and `close` are
alike. `alive` is the set of connections that exist; an address that was freed can be given out again, so a
connection that is used after it was freed would be seen. A thread uses the pool as its documentation says: it
calls `get` when it has no connection and gives back what it got. `close` may be called by any thread, several times.

### HttpServer

What runs under `server.mutex` never blocks in it, so a critical section is one step; everything outside is a step of its
own. The poller has the places of the loop of `serve()`, each worker those of `work()` and `serveRequests()`, and
`shutdown()` two steps, as it closes the listener without the lock. What `poll` saw (`seen`) is kept until it is used,
so it is as stale as in the code. A request is two halves on the wire: it comes in parts or after another, `conn.read`
gives any portion, and a half may hold the end of a head or not (`headCame`). `wakeBytes` counts the bytes in the wake
socket. The contents of requests, routing and handlers are left out: a handler returns. Clients (`connect`, `send`,
`hangUp`) are external. Timeouts may strike whenever the code lets them: `expire` closes any idle connection but the ones
whose `lastUsed` was set in the same round, `gone` and `badRequest` cover read timeouts.

### Liveness, LinearScan, RegAlloc

A bitset is a set of vregs, an instruction is what it reads and writes and if it calls. A step of `Liveness` is one block
of one sweep. `sweepDone` includes the entry check of the verifier: a function it rejects gets to no backend. `touched`
is the set of positions `interval_extend` is called with. A step of `LinearScan` is one round of its loop; which of
several active intervals with the same last end is evicted depends on the order of an array that is shuffled by
expiring, and is left open.

### ParallelMove, CallMoves

The emitter and the emitted code are modelled together: a step that emits an instruction also performs it on `holds`,
where each place first holds a value named like itself. So "the destination holds what the source held before" is simply
`holds[dst(k)] = moves[k].src`. `isMoveList` is what the callers give: different destinations, reserved scratch
registers, and memory that is written is not read (outgoing arguments are at rsp, spill slots and incoming arguments at
rbp). `CallMoves` builds the lists of the two callers; TLC evaluates the assumption that they all are `isMoveList`.

### Lexer, Tokens, IfPass, Parser

A text is a sequence of characters; a character of several bytes counts as its bytes, as in the code. A round of the loop
of `lex_file` is a step. The classes of characters are constants, so a few letters and two digits stand for all. The
width of integers is `Bits`.

The parser is recursive descent, so its functions are operators from a parser state to one, with the names of the code,
and a step is one statement of the file. Types, expressions, blocks and statements nest in each other through one
operator, `parse`. The state has what the code keeps in `Parser`: the index, the flags
(`header`, `params`, `args`, `extern`), the half-eaten `>>` (`split`), the scopes with their names, the enclosing
functions. A syntax error is the node `Fail`; in the code it is NULL or a longjmp, which both end at the block or file the
statement is in, where `skip_failed_statement` is modelled with all it looks at (braces, lines, columns, what starts a
statement). `IfPass` takes the branches of `#if` out before. The trees keep what tells programs apart and not
their C structs. `Syntax` is written from the documentation of the language and knows nothing of the parser: it puts
parentheses where precedences need them, and lays out lines.

### Ir, Lower, Meaning, Lowering

`Lower` has an operator per function of `ir_lower.c`, from a Lowerer to a Lowerer, for a typed tree as the typer leaves it. What is
emitted is a real function of `Ir`: blocks, vregs, slots with offsets and sizes, globals with bytes and
relocations. `Lowering` lowers the functions one by one, as they are found to be called, and then runs the program an instruction
at a time on a machine with a memory of objects and bytes, where a byte may be undefined and a slot of a frame that is
gone may not be used. Two threads may run. Functions of C and of `std/prelude/errors.sd` are steps of the machine
(external), and a function of C leaves anything in eax. `pick()` of a program gives 0 or 1, so each program has all its
branches run. `Meaning` interprets the same tree with variables, places and exceptions, knowing nothing of blocks or bytes; it is
compared by what the program calls. The compiler, what it verifies and the language are constants of the machine (`Compile`,
`Verified`, `Means`), which the configurations give `lower_function`, `ir_verify_function` and `Did`.

Left out: floats (the same code with other opcodes), the contents of type descriptors (`any` is boxed with the address of one),
expression trees, and thunks. Integers have 4, 6, 8 and 12 bits for the four widths, so that TLC's
arithmetic holds them and conversions still cut and extend.

### X64Asm, Assembler, ObjectWriter, Assembling

A line of assembly is a record of its tokens; a number is its eight bytes, so that 64-bit immediates are exact. `asm_encode`
gives bytes as the code does, and a step of the assembler is a line, a round of `asm_layout`, or the end. `ObjectWriter` gives the
three kinds of files and the program as their tables and the bytes that matter: the import tables and thunks are bytes, since
code refers to their addresses; magic numbers and headers are not. `Assembling` composes them as the compiler does: assemble and
`pe_write`; assemble, `elf_write` and a linker (external: it places sections apart and applies relocations as ELF defines); assemble,
`coff_write`, `coff_read` and `pe_write`; or read a COFF file as LLVM makes it and write the program. A text that has an error ends in
`failed`; an object that cannot be written, or read, in `unwritten`. `X64Manual` and `X64Decode` read
bytes by the processor's manual, written independently of the encoder, and `AssembledProgram` says with it what the
finished program must be. The table of instructions and the processor are constants (`Encode`, `Executed`), which the
configuration gives `asm_encode` and `Decode`.

## Runs

| run | instance | shows |
|---|---|---|
| pool | 3 threads, size 2, 3 addresses, fair | `TypeOK`, `ExclusiveUse`, `OpenIsCounted`, `NoLostWakeup`, `ClosedDrains` |
| http | 2 workers, 2 connections, 2 halves each, shutdown and failures | `OneOwner`, `NoForgottenReturn`, `NoWorkerSleepsOverWork`; `FollowsLife`: refinement of `ConnectionLife` |
| http_live | 2 workers, 1 connection, 4 halves, shutdown and failures, fair | `RequestsConserved`, `Served`, `Stops` |
| http_left_open | as http | violation, see below |
| regalloc | all functions of 3 blocks with an instruction each; and all intervals of 4 vregs over 5 positions with a call; fair | `EquationsHold`, `LivenessExact`, `ValuesSurvive`, `NoSharedRegister`, `RegisterFits`, `SpillSlotsApart`, `Allocates` |
| moves | calls of 4 and 5 arguments, prologues of 5 parameters, fair | `AtTheSameTime`, `OnlyCyclesRemain`, `Ends` |
| callee_saved | the calls | violation, see below |
| front_end | all texts of up to three of 20 pieces; trees of every expression, type and statement form to depth 2; files with one token left out or doubled in each declaration or statement | `TokensExact`, `PrefixedExact`, `MovesOn`; `ReadsBack`; `MistakeContained`, `DeclaredOrPoisoned`, `CleanBetween` |
| parser_hidden | three declarations, a token of the second missing or doubled | violation, see below |
| lower | every nesting of two of try, loop, defer and if around every way out, and programs for each part of the language | `SameEffects`, `LoweredVerifies`, `NothingUndefined`, `ErrorParked`, `SymbolsRight` |
| lower_defer | a defer that throws outside of a try that returns | violation, see below |
| assemble | every instruction with operands of each kind of encoding, jumps around 127 and 128 bytes, programs with a line left out or put in, COFF objects | `EncodedRight`, `JumpsLand`, `LayoutEnds`, `ReferencesReach`, `ObjectKept`, `RefusedRightly` |

Why the bounds are enough. The pool: with three threads and two places one can wait while two use, connect, fail
or close; `NoLostWakeup` needs no more than one sleeper, one on its way and one that gives back. The server: two workers
race for one queue, two connections can be in two different places at once, and two halves are a request that comes in parts;
four are two pipelined requests. The allocator: three blocks make a loop with an exit, a branch and a
join; one instruction per block and one operand suffice to define, use and call, as further ones only make intervals
longer. Two registers of one class, one of them callee-saved, and one of the other run out with four vregs. The
moves: four argument registers allow two cycles that share a scratch register, cycles in both classes and a vararg that
reads a source twice. The lexer decides by at most two characters ahead, and no state but the position is kept between
tokens, so three pieces hold every transition; `Bits` = 6 lets two digits overflow. The parser: depth 2 has every operator as each operand
of every other, and each statement in each other. The lowering: two nested ways of catching a way out are every pair of
stacks (defers, loops, tries) that are cut together. Jumps: paddings of 115 and 119 to 128 bytes put two jumps on either side of the
limit, so that one becoming long makes the other long. `NameSize` = 3 makes names that the buffer cuts.
An operand that is a word is a register or a name (`asm_parse_operand`, x64_asm.c:351), so `mov rax, rzx` is an instruction that is not in the
table, and `call rzx` a reference to what is not defined. `EncodedRight` compares with the processor also what is refused: `Unsupported` lists
lines that are no instructions, and no other line may be refused as one, nor one of them taken.
The mistakes of `RefusedRightly` are those of texts; that a program is refused for want of a `main` or for too many
libraries only is part of `ReferencesReach`, and that an object file is refused only for what is wrong in it of `ObjectKept`.
Deadlock is checked for the pool, the compiler's passes and the assembler; the server may stop after shutdown, and an
allocation or a list of moves is over at its end.

Fairness. A thread that can run is run in the end (weak fairness of each thread's own steps: `Get`, `Put`, `close` in
`Pool`, the poller and each worker in `HttpServer`). A thread that waits for a mutex gets it if it is free again and again
(strong fairness of the lock steps of `Pool`), which SRW locks and futex-based mutexes give in practice though not in
writing; only `ClosedDrains` depends on it. The users of a pool give back what they got (`putLock`). Clients, `shutdown`
and timeouts are under no obligation. `wait(2)` and `wait(1000)` return, so the poller always goes on. The
compiler's passes are sequential: a step that can be taken is taken. `LayoutEnds` assumes it of the rounds of `asm_layout`;
that the lexer, the parser and lowered programs end is checked without fairness, by steps that move on (`MovesOn`) and a bound
on instructions (`MaxSteps` in `SameEffects`).

### What the code does not keep

* **http_left_open** (`NothingLeftOpen`). `serve()` looks at `stopping` after `poll` and then gives the connections that
  `poll` saw to the queue. If `shutdown()` comes between the two, the workers find the queue empty and end; the
  connection is queued for nobody. `serve()` then closes the idle and the returned connections, but not the queued
  ones, and returns with a request unanswered and the connection open, against the comment of `shutdown` (server.sd:439). Closing the
  queue's connections after the join, or giving under the lock only when not stopping, would mend it.
* **callee_saved** (`CalleeSavedKept`). A call whose float arguments form a cycle, such as `f(b, a)` with a in xmm0 and b
  in xmm1, saves one of them in xmm15. The Win64 convention lets a caller keep values in xmm15, `x64_target` says
  so too, but the prologue saves only what was allocated. Saad code never keeps values in xmm15, so it is only seen by a C
  function that calls back into Saad.
* **parser_hidden** (`MistakeHidesNothing`). The recovery at the top of a file stops before the next declaration at the start of a
  line only when it is inside of braces. When the `;` of a declaration is missing, the error is at the first token of the next one, which is
  then skipped too. `MistakeContained` is what does hold: mistakes found before the end of their declaration.
* **lower_defer** (`DeferRunsOnce`). A deferred statement that is run on the way out of a try it is not in, and throws, throws to
  that try, because `emit_defers` restricts the defers and not the tries. The catch then goes on in the block of the defer,
  whose end runs it again. `WaysOut` leaves this combination out, so that `SameEffects` is about the rest.

Further disagreements, confirmed with the compiler and kept out of the programs the passing runs use:

* A function type with two parameters of function type is a syntax error: `inside_parameter_list` is set to that of the parent
  function after the first (parser.c:1804, against the comment at 1838).
* `if f(g(1), P{1}) {`: after the call `g(1)` the parser no longer knows it is in arguments (parser.c:3507), so `P {` is the block.
* A struct literal that is the value of a global has no defaults (ir_lower.c:776), against README.md:909 (`LiteralGlobals` in
  `MCLowering`).
* A `for` to and including the largest value of its type never ends (ir_lower.c:2886).
* `main` with a result of its own crashes the compiler (ir_lower.c:3235).
* Names of more than 150 characters or so are cut, and refused as defined twice (x64_emit.c:170, x64_asm.c:265).
* A decimal literal of more than 64 bits becomes the largest number without an error (lexer.c:610), one in hex is an error; a short lambda drops its
  parameters from the 33rd on (parser.c:4690).
* Numbers of more than 32 bits in `add` to `cmp` are cut (x64_asm.c:538-550), a COFF section holds 65535 relocations
  (object_writer.c:173), and `elf_write` aligns sections to 16 whatever the text asked (object_writer.c:291). The compiler emits none of these.

## Proofs

All for any value of the constants (any number of threads, workers, connections, vregs, blocks, registers and moves, any text and
any program). Where a run checks the same property, its name is in parentheses.

`Pool` (`PoolProofs`)

* `TypeCorrect` (`TypeOK`) and `Exclusive` (`ExclusiveUse`). The invariant adds that threads in `put` hold a connection
  and that those connecting hold none: without it `put` could append a null, and `connected` overwrite a connection.
* `Counted` (`OpenIsCounted`). `CountInv` says that `open` is what is idle plus the threads that are counted, and that those
  which close a connection outside of the lock, after `open` went down, still fit under `size`: there are some only when
  the pool is closed, and then nobody gets their place.
* `WakeupNotLost` (`NoLostWakeup`). It is inductive once who is in the condition's queue is known to be in `get`. What a step gives to take
  is given together with a thread on its way.

`HttpServer` (`HttpServerProofs`)

* `OneOwnerAlways` (`OneOwner`). `OneOwner` alone is not inductive: a worker that gives back or closes must
  be known to hold a connection, so `HoldsWhileServing` ties a worker's place to its connection, and `OwnershipTypes` gives the types
  of the lists. One step per action; the ones that move a connection show that it leaves one place for another.
* `ReturnNotForgotten` (`NoForgottenReturn`) and `WorkNotSleptOver` (`NoWorkerSleepsOverWork`), each on top of that invariant. The
  second counts the workers that will look at the queue before they wait, which is why they must be finitely many.
* `NoRequestLost` (`RequestsConserved`), with `TypeCorrect` (`TypeOK`). `Conserved` counts halves of requests: twice the answered ones and
  those being written, what is in the buffer and in the socket is what was sent. It also bounds the types.
* `ImplementsLife` (`FollowsLife`): `HttpServer` implements `ConnectionLife`. `OwnersArePlaces` says which place of the
  code each state of a connection's life is, and every step is then a step of one or more lives or a stutter.

Register allocation (`RegAllocProofs`)

* The scan from any intervals (`ScanSpec`): `NoSharedRegisterAlways`, `RegisterFitsAlways`, `SpillSlotsApartAlways`. `ScanInv` adds
  `ActiveHold` (active vregs hold different registers, none of them free), `OverIsOver` (who
  lost its register by expiring is over before all still to come) and `TodoIsNone`. `AfterExpiring` states once what a
  round knows after expiring; the three ways to give v a place follow from it.
* `EquationsHoldAlways` (`EquationsHold`). `NotTooMuch` (the sets never exceed the right-hand
  sides) and `SettledSoFar` (while nothing changed in this sweep, the blocks behind it satisfy the equations) are the strengthening.
* `LivenessExactAlways` (`LivenessExact`): live_in is what some path reads before it is written. One half is an invariant of
  the sweeps, `Grounded` (whatever is in live_in has a path), where a path that became longer than there are blocks visits one twice and is cut
  (`PathCut`, a pigeonhole). The other half follows from the equations, backwards along the path.
* `ValuesSurviveAlways` (`ValuesSurvive`): no value is overwritten while it is still read, by an instruction, a call or the arrival of
  parameters. It composes all of the above: the numbering of the blocks (`BlocksInOrder`), what an interval of a vreg covers (`TouchedAfter`: every
  instruction after which it is live; `TouchedEarlier`: and it was touched before, or is a parameter, which needs that the verifier let
  the function through and that blocks are in an order in which each but the first comes after a predecessor), so that two
  vregs live at the same time have intervals that overlap, and then the scan's theorems.

Parallel moves (`ParallelMoveProofs`)

* `MovesAtTheSameTime` (`AtTheSameTime`) and `OnlyCyclesRemainAlways` (`OnlyCyclesRemain`). The invariant says that what is done is
  right and what is left can still be read. The hard step is breaking a cycle: `PassSoFar` gives that each move
  that is left is blocked by another; as destinations differ, "who reads my destination" is an injection of a finite set into
  itself, hence onto (`ReadersAreCycles`, by `FS_Injection`), so no move that is left reads the scratch register.

Assembler (`AssemblerProofs`, `TextProofs`), for any text and any table of instructions

* `ShortAlwaysReach`: when `asm_layout` ends, the offsets are those of the final sizes and short jumps reach with them.
  `ShortestAlways`: and each jump that is short in any choice of sizes that reaches is short, so none is long in vain. The invariant
  `NoneTooLong` says the second at any time: a choice that reaches is within the jumps that are
  still short, as distances only grow (`Distances`, `StillReaches`).
* `EveryRoundGrows`: a round makes a short jump long or is the last, so `asm_layout`, which has no bound on its rounds, ends.
* `JumpsLandAlways` (`JumpsLand`), on top of both: in the finished text, the bytes at the offset of the line of a jump are read by the processor as
  that jump, with its condition and its length, and its displacement leads to the offset of the label that is named, a local one in
  its own function. The property counts offsets from the lines and reads bytes, while the assembler keeps items and label numbers; the
  invariant `TextRead` says how these belong together. While lines are read (`Reading`, `LinesRead`): section and scope are those of the text so far, line k
  of code has item `ItemOf(k)` with the target it names or the bytes of the table, and a label is the number of the next item. `LineStep` has one
  case per kind of line, with a lemma for what each does to the symbols. Later the items stay those of the lines while a round
  changes sizes (`RoundStep`), and `asm_finish_text` puts the bytes of each item at its offset (`TextPlaced`). Then `LineAt` shows that the offset
  counted along the lines is the one of the item, and `JumpTarget` that the label of an item is a line with the name; of two labels with one name the assembler
  stopped at the second. `Displacements` and `SignedWord` are the arithmetic: a displacement that fits 8 or 32 bits is read back from its bytes, with its sign.
* `RefusedRightlyAlways` (`RefusedRightly`): whatever error the assembler stops with, the text has that mistake, and a text that it
  makes an object of has none of the nine mistakes there are. The second half is what a missed check would break, and it needs to know
  what was checked when: the invariant `Checked` says that every line that was read is `Faultless` on its own, that the targets of the jumps are the
  names in their lines, and, of the table of symbols (`Table`), that it has each name of the lines read once, as an extern exactly if a line declares it, and in a section
  exactly if a label gave it one. So a label that is defined twice was found at its line, a jump to what is not in the code when the
  text is finished (`CheckedFinish`), and a name that is nowhere defined at the end (`CheckedSymbols`). One lemma per kind of line says what it
  does to the table (`LabelChecked`, `DataChecked`, `InstructionChecked` and others), on top of what `asm_symbol` and
  `asm_finish_text` do to it (`TableSymbol`, `TablePlaced`). `OperandOk` says that `asm_parse_operand` takes every operand but an
  address with what is no register for it, `OperandSymbol` that a word that is no register is a name like any other, and `Unknown` that an instruction is
  one that is neither a jump to a name nor in the table: the theorem is for every table, and that the table of the code has the right
  instructions in it is what `EncodedRight` says of the lines of the run.

Lexer (`LexerProofs`), for any text

* `TokensExactAlways` (`TokensExact`). `LexInv` says that the lexer is where its position says (`PositionLater`: counting along
  the characters is counting in the text), that tokens are one after another on what was read, and that, if nothing was reported, each
  character before it is in a token, blank or in a comment. `Round` shows once for each kind of token that a round gets to a later
  place of the text: wherever a character, a string or a number ends there is such a place, also when the file ends in it.
* `PrefixedExactAlways` (`PrefixedExact`): along the digits, the value that wraps around is the true one as long as `overflow` is not set
  (`PrefixedValue`), since the test is made before the multiplication and its division rounds down (`NoWrap`).
* `EveryRoundMovesOn`: each round takes a character or is the last, the first half of `MovesOn`.

Assumptions are the named `ASSUME`s of the modules; TLC evaluates each on the instances. What they say of the code:
texts have no NUL before their end, and operators do not start with a digit (`CharactersAssumption`, `WordsAssumption`);
`asm_encode` gives at most 15 bytes per instruction and does not know the jumps to labels, a text has less than 2 GB of code, and
data is not put in the text section, as in what `x64_emit.c` writes (1229-1247), and what is encoded has a relocation for each name
in the line and for no other (`SourcesAssumption`); the encoder's registers are those of the manual (`RegistersAssumption`); `ir_lower.c` puts blocks in an order in
which each comes after a predecessor (`LayoutAssumption`); the moves are those that calls and prologues make (`MovesAssumption`);
threads and workers are finitely many, and names of nothing are no threads, vregs or registers (the others).

The prover has no induction over data, so what holds of every number, path or position is proved by the least one for which it
does not (`LeastNat` of `Extremes`). That also gives that a function defined by recursion exists (`ReadOn`, `OffsetsExist`,
`StartsExist`).

Only model-checked: everything under fairness (`ClosedDrains`, `Served`, `Stops`, `Allocates`, `Ends`, `LayoutEnds`), which is out of
this prover's reach. The parser and the lowering (`ReadsBack`, `MistakeContained`, `DeclaredOrPoisoned`, `CleanBetween`,
`LoweredVerifies`, `SameEffects`, `NothingUndefined`, `ErrorParked`, `SymbolsRight`) are recursive over trees, with RECURSIVE operators,
which the prover does not take. `EncodedRight` compares two tables, the encoder and the processor, which are constants of the modules that are
proved about: that they agree is a matter of their entries, and the run goes through those. `ReferencesReach` and `ObjectKept` are about all
sections, symbols and relocations of a program or a file in the layouts of `object_writer.c`; there is no inductive invariant for them yet.

## What the models rely on

* The test for crossing a call (regalloc.c:164) is right because `ir_lower.c` places blocks in the order it emits them, so a
  value is defined before its uses in the layout. The verifier does not check it; `LayoutAssumption` of `RegAlloc` states it, and
  `ValuesSurviveAlways` needs it.
* The check that an evicted register suits a value that crosses a call (regalloc.c:226) can never fail there: a victim ends
  after the new value does, and began before it, so it crosses the same call.
* A cycle of moves never comes up in a prologue: parameters get registers in the order of preference, so
  `PrologueLists` has only chains. Cycles come from calls.
* A worker answers one connection as long as its client pipelines. With `MaxHalves` every client stops, so `Served`
  does not show that such clients cannot starve others.
* A failing `thread.spawn` in `serve()` (server.sd:315) leaves the workers that were started; no property is stated of such a server.
* A connection that is idle for too long may be closed although a request came on it in the same round (server.sd:377), as in any server that
  closes idle connections; `Served` allows it.
* A name is looked up after it is cut. Labels that are cut alike are refused, but a name that is defined nowhere, or an extern, would go to the label
  that begins like it (`CutTo` and `CutLabels` of `AssembledProgram` say so). `x64_emit.c` writes a label or an extern for each name it uses,
  and the functions of C that are externs have short names.
* `Lower` takes trees as the typer leaves them: constants folded, overloads chosen, a switch made into ifs.
* The linker of ELF objects is external.

## Plan

1. done: `Pool`; `HttpServer` with `ConnectionLife`; `Liveness`, `LinearScan`, `RegAlloc`; `ParallelMove`.
2. done: `Lexer`, `Parser` with recovery; `Lower` against `Meaning`, `Ir`; `Assembler`, `ObjectWriter` and the program they make.
3. The typer: `Resolve` (the states of a declaration, cycles), const_expr.c with widths; then `Namespaces` (compiler.c, scope.c: every
   import order gives the same program).
4. `x64_layout_frame` and instruction selection: the printed assembly of `Ir` functions, to close the chain from `Lowering` to `Assembling`.
5. `WaitGroup` on `ThreadSync`; `Buffer` (`std/bytes.sd`; an overlapping `mem.copy` is a choice of outcomes) and `Arena` (`std/mem.sd`).
6. `HttpMessage` on `Buffer`: `readHead`, `readBody`, `readChunks` in all portionings, against reading at once; `Router`.
7. `SaveChanges` (`std/dbms/context.sd`): an abstract store with all-or-nothing commits, refined by BEGIN, statements
   that fail, ROLLBACK, the tracked rows and the retry; then `WebSession` with `Pool`.
8. The thunks and type descriptors of ir_lower.c; the documents of the language server.

Theorems to come: `ReferencesReach` of `ObjectWriter`, relocation by relocation; that `ir_function_finalize` leaves what
`ir_verify_function` asks for; each component of the plan with its safety invariants.

Not modelled and not planned: the LLVM backend (calls into a library), DWARF, html templates, the raylib binding, the
editor extension, examples and tools: pure output, generated or third-party code.
