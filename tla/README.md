# A verification project for the Lox implementations in this repository

The repository holds two implementations of the language Lox, written along the
book *Crafting Interpreters*:

* `src/clox`, about 3400 lines of C: a single-pass compiler to bytecode, a stack
  machine, a hash table and a mark-and-sweep collector;
* `src/jlox`, about 2600 lines of Java: a parser, a static resolver and a tree-walking
  interpreter.

`src/craftinginterpreters` is a third-party copy of the book with the book's own
implementations and tests. It is not modelled, but some of its tests are quoted
as statements of what a Lox program does. `src/testData` and `src/clox/test` hold the
Lox programs both are tested with.

## Inventory

### clox

Everything runs in one thread. What makes the system hard is re-entrancy: any
allocation may run a whole garbage collection, which calls back into the virtual
machine, the compiler and the hash table at that point. The second difficulty is
that the compiler and the machine agree on where things are only by convention:
nothing checks that the slot the compiler counted is the slot the value is in.

| Part | State | Operations | Interacts with | What makes it correct | Modules |
|---|---|---|---|---|---|
| Hash table, `table.c` | `count`, `capacity`, `entries` (key, value; a tombstone has no key and a non-nil value) | get, set, delete, find by text, add all, free, remove unmarked | `adjustCapacity` allocates, so a set may run a collection, which deletes from the same table | it is a map; probes end; no key is lost or kept too long | `Table`, `Dictionary` |
| Memory manager, `memory.c` | list of all objects, mark bits, gray stack, list of components with `markRoots` and `handleWeakReferences` callbacks | collect: mark roots, trace, handle weak references, sweep | the VM registers itself for good, `compile` registers the compiler while it runs | what is in use survives, what is not is freed, marks do not outlive a collection | `Collector`, `Heap` |
| Allocation, `object.c`, `chunk.c`, `value.c` and the callers | the C locals of a routine that allocates, the byte count | make strings, closures, functions, instances, grow arrays and tables | every allocation may collect | nothing that only a C local holds is freed; strings stay unique; the bytes balance | `Allocation` |
| VM: calls and variables, `vm.c` | value stack, frames, open upvalues, globals | locals, globals, upvalues, closures, call, return, runtime error, repl | the compiler decides which slots are variables and which are captured | a closure shares the variable it captured for as long as either lives | `Upvalues`, `LexicalScope`, `Machine` |
| VM: classes, `vm.c` | method tables, field tables, bound methods | class, inherit, method, property get and set, invoke, super | the hash table, calls | a method runs on its receiver; invoke and get-then-call agree | `Machine` |
| Compiler: variables, `compiler.c` | chain of compilation contexts with locals and upvalues, global slots, variable states | declare, resolve, add upvalue, end scope, global slot | interns strings, allocates functions and constants while it runs | a name denotes the variable lexical scoping says it does | `Compiler` |
| Compiler: grammar, `compiler.c` | current and previous token, error flags | precedence climbing, statements, jumps | the scanner | jumps land on instructions, with one height of the stack | `Compiler`, `Bytecode`, `Verifier` |
| Scanner, `scanner.c` | position in the text, line | next token | the compiler asks until the end | longest match, keywords, progress | `Scanner`, `LexicalGrammar` |
| Values, `value.h` | | boxing, equality, truth | the collector follows what reads as an object | distinct values stay distinct | `Values` |
| Driver, `main.c`, `file.c` | the input | repl, run file | compiles and runs line by line in one VM | a line cannot damage the next | `Machine`, `Allocation` |
| Debug output, `debug.c` | | disassemble | | it walks the instructions that were written | `Bytecode` |

### jlox

| Part | State | Operations | What makes it correct | Modules |
|---|---|---|---|---|
| Scanner, `Scanner.java` | position | next token | | |
| Parser, `Parser.java` | position in the tokens, loop depth | statements, expressions | grammar and precedence | (`SyntaxTree`: the levels and nodes of operators; `Resolver`: the desugaring of `for`) |
| Resolver, `Resolver.java` | stack of scopes, current function and class | declare, define, resolve | the distance it computes finds the same variable at run time | `Resolver` |
| Interpreter and environments, `Interpreter.java`, `Environment.java` | chain of environments, resolved distances | define, get, assign, at a distance too | closures see the variable that was in scope | `TreeWalk` |
| Runtime objects, `LoxFunction.java`, `LoxClass.java`, `LoxInstance.java` | closure environment, methods, fields | call, bind, find method | methods see `this` and `super` of their class | `TreeWalk` |

### Hard behaviours

The complete list, with places in the source, is `hazards` in `PROJECT.json`. In short:

1. a collection in the middle of a table's growth, or of any routine that
   allocates, with objects that only C locals hold;
2. unbounded probe loops that end only because of the load factor, tombstones included;
3. mark bits, weak references and sweep in the right order, over several collections
   and with two components to ask for roots;
4. the sorted list of open upvalues, whose order two loops rely on, and captured
   variables across calls, returns, scope exits and runtime errors;
5. the balance of the stack over every path through compiled code, and the limits of
   one-byte and two-byte operands;
6. the state one line of a session leaves to the next, after errors of either kind;
7. classes: methods copied at inheritance, `super` as a hidden captured local, invocation
   without a bound method.

## Plan

Done:

1. `Table` against `Dictionary`; `Collector` against `Heap`; `Upvalues` against
   `LexicalScope`.
2. Proofs about `Collector`, the core of memory safety.
3. `Allocation`: the sites, over a collection in one step.
4. `Compiler` and `Bytecode`, first for themselves (`Verifier`), then composed with
   `Machine` and compared with jlox (`Resolver`, `TreeWalk`) through `LoxSemantics`.
5. `Scanner` against `LexicalGrammar`, `Values` against the tagged union, with proofs
   about `Values`.
6. Proofs about `Table`, `Allocation` and `Upvalues`: each inductive invariant first, then the
   safety properties, then that `Table` implements `Dictionary` and `Upvalues` implements
   `LexicalScope`.
7. Proofs that need induction over numbers or finite sets: the memory that `Allocation`
   counts, the capacities of `Table`, the progress of `Scanner`.

Left:

1. The rest of the parser of jlox, with `break` and lambdas.

## Modules and runs

### `Table`, `Dictionary`, `TableProofs`, `NaturalFacts`, `MCTable`

`Table` is `clox/table.c` for one table. `count`, `capacity` and `entries` are the fields
of the struct. `tableSet` is a sequence of steps, kept apart by `pc`: the load check
(`TableSet`), the allocation inside `adjustCapacity`, clearing the new array
(`BeginRehash`), one action per entry copied (`Rehash`), installing the array
(`FinishRehash`) and the insertion (`Insert`). Between the load check and the new array,
`Collect` may run once: it chooses a set of unmarked strings and
`RemoveUnmarked` walks the old array entry by entry, deleting them. That is how
`vm->strings` is used. The other operations allocate nothing and are one step each.
`FindEntry` is the probe loop without the loop: the nearest slot, by distance modulo the
capacity, where it would stop, and the first tombstone before it. A probe that would
never stop disables its action, so that "the probe ends" is something to check
(`ProbesEnd`) and to expect (`SetReturns`).

`Dictionary` is the map the table promises to be; the mapping reads the live entries.
Only keys chosen by a collection may disappear by themselves.

`table` checks three strings, with hashes 3, 3 and 6. In arrays of 2 and 4 their home slots
are the last two, so probes wrap around, and two strings always collide. The first
capacity is 2 instead of 8, so that a table grows three times, fills with tombstones and
reuses them with three keys only; `MaxCapacity` 8 stops it there, and the load check is then
only taken when no growth past 8 follows. Two values are enough because the table never
looks at the values of live entries, and they are the two that mark empty entries and
tombstones: a live key may hold `nil`.

### `Collector`, `Heap`, `CollectorProofs`, `MCCollector`

`Collector` is `collectGarbage` and the program around it. The list of objects, the mark
bits, the gray stack and the list of components are those of `MemoryManager`. `refs[o]` is
what `blackenObject` marks for `o`, `roots[c]` what the `markRoots` callback of component
`c` marks, `strings` the keys of the weak intern table. A collection is one step per
component that marks its roots (`MarkRoots`), per object blackened (`TraceReferences`), per
component that handles weak references, and per object swept. The gray stack is a set:
any gray object may be next. While no collection runs the program allocates objects in
front of the list, links and unlinks what it can reach, roots and drops objects, finds
interned strings again, and enters and leaves `compile`.

`Heap` is the same heap with a collection of one step. In the mapping the collection
happens when tracing ends: from then on unmarked objects no longer count as live,
swept or not.

`collector` has three objects with at most one reference out of each, with symmetry:
chains, cycles and sharing of three, garbage before, between and after survivors in
the list, all combinations of roots in the two components, and any number of
collections one after the other. `collector_ends` has two objects and any references
between them. Its fairness is weak fairness of the collector's own steps: one thread runs
`collectGarbage`, and nothing interrupts it.

A collection here may start at any time between operations of the program, a superset
of what the byte counts allow, and an object is rooted when it is allocated; `Allocation`
is about the moments where the code does not root it at once.

### `Allocation`, `AllocationProofs`, `MCAllocation`

Each routine of clox that allocates is cut at its allocations: `local` is the routine in
progress, the step it is at, and what its C locals hold. At each of those steps
`collectGarbage` may run first, over the roots that `markVMRoots` and `markCompilerRoots`
mark, and nothing else; that a collection is one step is what `Collector` implements.
`kept` are the slots of the VM that `markVMRoots` marks, with the list of open upvalues,
`stack` the values pushed only for the time of an allocation, `contexts` the functions under
compilation. The routines are `copyString`,
`takeString` and `allocateString`; the compiler's names, constants, nested functions and
global slots; `interpret`; closures with their upvalues, classes, instances, bound
methods, fields and natives; the arrays of a chunk, whose capacity is set before they
grow. At the end `freeVM` and `freeMemoryManager` release everything, and the next run
starts on the same model.

What the program can use is more than what the collector looks at. `location[u]` is what
is in the slot an open upvalue points to: `OP_GET_UPVALUE` reads it (`Follow`, `Reach`), while
`blackenObject` marks only what is closed (`From`). An upvalue in the list of the VM is safe
because its slot is on the stack until `closeUpvalues` has copied it (`Captured`, `Drop`);
`runtimeError` empties the stack and the list without closing, and later lines reuse the
slots (`Forgotten`, `ReuseSlot`). `count` is the byte `globals->count`; when it wraps,
what the globals past it hold is no longer marked (`uncounted`), but can be read and set.

Memory is counted twice: `bytesAllocated` with the sizes the code states, and `blocks`
with what `malloc` has handed out. `Balanced` compares them, `NoLeak` says who owns each
block, `InternedOnce` that no two live strings have one content although a collection may
come between the search and the insertion, and `LocalsSurvive` that what the C locals of the
routine in progress hold is live, with all that the collector marks from there.
`NothingInUseIsFreed` says it of whatever the program gets at, through open upvalues too, as
long as none was forgotten and no global is past the count; `ReachableIsSpared` says it
without these conditions, and is false.

`allocation` has three addresses, two contents of strings, two nested compilations, a count
of globals that wraps at 2, arrays of up to 8 entries and three marked slots; three
addresses are enough for a routine that holds two objects while it makes a third, which is
the most any holds. That an array grows a second time is left to the proofs, which have no
bound. The threshold `nextGC` is left out: which allocation passes it depends on sizes, so
any may.

`allocation_prompt` checks `ReachableIsSpared` and fails as it should. It has the real width
of the byte and four addresses, for the script, a closure, its upvalue and what the slot of
the upvalue holds, and fails on the line after a runtime error. Its arrays have no room for
constants or code, which keeps the run small and only leaves out collections at their
growth. With the bounds of `allocation`, `ReachableIsSpared` fails where the count wraps.

### `Upvalues`, `LexicalScope`, `UpvaluesProofs`, `UpvaluesRefinement`, `MCUpvalues`

`Upvalues` is the part of `vm.c` behind variables: stack, frames, open upvalues, closures,
globals, and the instructions that work on them. Which instructions may come next is what
the compiler can have emitted, and the three history variables `owner`, `captures` and
`declared` remember which source variable each slot and each upvalue stands for. No
action uses them to decide what the machine does. `Interactive` chooses between the repl,
where an error returns to the prompt with the heap intact, and a file, where it ends the
process.

`LexicalScope` says what closures mean: a variable is a cell, shared by the activation that
declared it and by every closure that captured it.

* `upvalues`: a file run; one global, two functions, two variables, two frames, two
  upvalues per closure, stacks of five. Two closures that share one variable, a closure
  that captures two in either order, capture through an enclosing function, self capture
  of a local function, capture of a parameter and closures kept in the global all fit. The
  values are `nil` and the closures themselves. The program may simply end, so deadlock
  is not checked.
* `upvalues_repl` finds the first disagreement below.

### `Bytecode`, `Compiler`, `Verifier`, `MCCompiler`

`Bytecode` is the instruction set, how a chunk is written and how it is read.
`Compiler` is `compiler.c` from tokens to functions. The state of the compiler is a
record, and each routine an operator that returns the record after it: the token
consumed, the code emitted, the scope changed, `hadError`. So a rule of the table of
precedences, a statement or a helper is one definition, and calls in the code are
applications here. `rest` is what the scanner has still to give. Token texts are
names; what they are made of is the scanner's. `globals` lives on in the VM, and
`garbage` is what `globalStates` and `classContext` happen to hold, since `initCompiler`
clears neither. `synchronize` is not modelled: `panicMode` is never set.

`Verifier` is an independent reading of a chunk, in the manner of a bytecode verifier: from
the first instruction, along every jump, each instruction has one height of the stack,
takes no more than is there, and indexes what exists.

`compiler` grows sources phrase by phrase: up to four phrases of statements, up to six
of classes, and three more after each of six preludes that bring the compiler to the
limit of locals, globals, constants, upvalues and both kinds of jumps. A byte has twelve
values there, so that limits are near; each phrase is one a statement or a
class can be made of, and open braces are closed. `AcceptsOnlyVerified` is checked of the
compiled source in every state.

### `Machine`, `Programs`, `LoxSemantics`, `SyntaxTree`, `Resolver`, `TreeWalk`, `MCPrograms`

`Machine` is `run` with one action per instruction, `callValue`, `invoke`, `bindMethod`,
`captureUpvalue` and the rest, and `interpret`, which compiles the next source with
`Compiler`. Slots keep their values when they are popped, as in the array. Objects are
never collected here; `Collector` and `Allocation` are about that. A number is an integer.

The promise is the interpreter of jlox. `Resolver` and `TreeWalk` are `Resolver.java`,
`Interpreter.java`, `Environment.java` and the runtime objects, on the syntax trees of
`SyntaxTree`, which also writes a tree as the tokens clox reads, with the levels of the
grammar of `Parser.java`: there `or` binds tighter than `and`. `TreeWalk!interpret` gives, for
each line of a session, what has been printed by its end and how it ends. `LoxSemantics` turns that into
a specification: outputs come one by one in that order, then the result, and the next
line starts. `ImplementsLox` says that clox implements it, with its liveness: a line that
should end does.

`Programs` holds the families:

* expressions of two operators over leaves that are falsey, truthy, numbers or strings,
  without `==`, `!=` and `and`;
* expressions with those three, on other trees (see below);
* statements: conditions, `while` and `for` loops in each other, blocks with shadowing
  variables, over globals and over locals;
* closures: functions that capture and change variables of an enclosing function or
  block, with further captures after that, called inside and outside, twice, and from
  a second activation;
* classes: three levels that each have or lack a method and an initializer, with
  methods called, taken as values, kept in fields and called through `super`;
* runtime errors of every kind at three depths of calls;
* sessions: a first line of declarations and any three of ten lines, two of which fail to
  compile and two while they run.

`programs` runs them all: 4402 programs of one line, 5285 expressions of the second family,
and 1000 sessions, with every content of what the compiler leaves
uninitialised. `HeightAsCompiled` compares the
height of the stack at run time, at every return and every jump back, with the one height
the verifier finds in the code, and `OpenListSorted` looks at the list of upvalues in real
programs. `Neat` says that no line leaves anything on the stack.

Fairness: one thread runs, so an instruction that can be executed is (weak fairness of
`run`), and a line that waits is compiled in the end; both together are weak fairness of
the next step.

The parser of jlox builds an `Expr.Logical` of `==` and `!=`, which the interpreter takes for
`and`, and an `Expr.Binary` of `and`, for which it has no case (`Infix`): what jlox prints for
them is not what clox prints, and `tests` shows it on tests of the book. So all families but
one do without the three; their trees are those that the parser makes of their tokens
(`AsParsed`, `ReplSessions`), and of them `ImplementsLox` says that clox prints what jlox
prints. `OperatorPrograms` has the three, on the nodes for which the interpreter has cases
(`Interpreter.java:78` and `152`), with parentheses where the two grammars group in different
ways. Of these `ImplementsLox` says that clox gives the operators the meaning that the
interpreter of jlox has for them, and nothing of what jlox prints.

The other operators keep to what both implementations accept and mean alike. Left out, each
after the code of the two was compared: a string added to something else, division by
zero, fractions, a global without initializer, `const`, assignment to parameters or to a
function's own name inside it, globals mentioned before their declaration, `var a = a`
for a global, a global declared twice with a use between, closures that capture the
variable of a `for` loop (clox copies it for each turn), a local class named like a global,
arguments that change the field that is invoked, a property set on what is no instance
with side effects after it, equality of functions, comparison mixed with equality but for
parentheses, `for` with a clause missing, a return at top level, assignment to a global of an earlier line,
and a runtime error in the repl with upvalues open. Several of these are findings below.

### `MCTests`

Six tests of the book as token sequences, with the output and the result their comments
expect, on `Compiler` and `Machine`, then five on operators for jlox, as the trees that its
parser makes of them. `failed` collects those that go another way; the run ends with the six
and all but one of the five in it. The sixth fails for some contents of the uninitialised
`classContext`, of which the run takes one.

### `Scanner`, `LexicalGrammar`, `ScannerProofs`, `MCScanner`

`scanToken` is one step, with `current` and `line` as in the code; loops over characters
are stated as where they stop. `LexicalGrammar` says which lexemes there are and takes the
longest one at each place; it knows nothing of peeking. `scanner` gives it every text of up
to four characters out of eleven, one for each class that the code tells apart, and every
prefix, extension, single change and pair of keywords. Only characters that occur in
these texts are in the alphabets. The grammar gives the tokens (`MatchesGrammar`); that the
scanner never has a position past the NUL, also after an unfinished string, a comment or a
number at the end, is `WithinText`; that no call reads a character twice and none but the
last returns a token of no characters is `ReadsOn`. The fairness is that `compile` calls
`scanToken` until it has the end of the text (`ReachesEnd`).

### `Values`, `ValuesProofs`, `MCValues`

A word is the set of its bits that are 1, so the masks of `value.h` are set operations. Each
word stands beside the tagged value it is meant to be; the layout (which bits are the
exponent, quiet bits, sign and tags) is constant. `values` has words of eight bits, all
doubles and addresses that fit, and two slots.

## Findings

1. `runtimeError` resets the stack and forgets the open upvalues without closing them. In
   the repl a closure that was stored in a global before the error keeps an upvalue that
   points into the stack, and reads or overwrites whatever later lines put there.
   `ClosureReachesItsVariables` fails in `upvalues_repl`; it is not a problem in a file
   run, where `ImplementsLexicalScope` holds.
2. What such a slot holds is not marked either, since it is above `stackTop` and the upvalue is
   not closed: a collection on a later line frees an object that the closure still gets at
   (`ReachableIsSpared` in `allocation_prompt`).
3. In jlox, `==` and `!=` evaluate like `and`, and `and` evaluates to nil, because the parser
   builds each under the other's class: `tests` fails for the tests of the book on them.
   Also `or` binds tighter than `and` there, which no test in the repository mentions.
4. `tests` fails for six tests of the book: comparisons bind like equalities; a `for` with
   a missing clause does not compile; mutually recursive functions do not compile; the
   initializer of a redeclared global reads nil; a return at top level is accepted (the
   type of a token is compared with `TYPE_SCRIPT`); `this` at top level may be accepted,
   because `classContext` is not initialised.

Seen while modelling, without a run of its own: the count of globals is a byte that wraps
without an error, and the globals past it are used but no longer marked, so that a
collection frees what they hold (`uncounted` in `Allocation`);
`infixRule` is always called with `canAssign`, so `a + b.c = 3` compiles; a local class
takes a global slot and hides a global of its name; `makeConstant` answers 0 for too many constants; parameters and
a function's own name cannot be assigned inside it; a line that does not compile has still
reset the globals it declares; `push` never looks at `STACK_MAX`; with NaN boxing, NaN
equals itself and 0 differs from -0; tombstones alone can double a table. In jlox lambdas
are not resolved.

## Proofs

Every theorem holds for all values of the constants that meet the assumptions named
below. TLC checked each inductive invariant on a run's instance before it was proved. No
proof assumes that a bound of a run is small: where a module has bounds, they are numbers.

### `CollectorProofs`

For every set of objects and every graph of references,

* `TypeCorrect`: the variables keep their types, and the list of objects has no repetition;
* `NothingDangles`: nothing in use and no interned string is freed;
* `NothingStaysMarked` and `BlackStaysDone`, the invariants of marking;
* `GarbageIsFreed`: at the end of a collection the heap is what the roots reach;
* `ImplementsAtomicCollection`: `Collector` implements `Heap`.

The assumptions are that the VM and the compiler are different components and that the
bound on references is a number. `Obj` may be infinite.

None of the four safety invariants is inductive by itself. `IInv` adds what the phases know of
each other: the heap is closed outside a sweep (`HeapIsClosed`); a component that is not
registered has no roots (`UnregisteredHasNoRoots`, without which a collection during
execution would miss roots the mutator could later find); only reachable objects are
marked (`MarkedIsReachable`); the components before `position` have marked their roots;
tracing ends with nothing gray; the weak table holds only marked strings once the VM has
handled it; and in the middle of a sweep the reachable objects are exactly those already
passed together with those still marked ahead (`SweepIsPartial`). Reachability is the least
closed set above the roots, so the proof needs no induction over paths: at the end of
tracing the marked objects form a closed set that contains the roots (`TracedIsReachable`),
and so they contain all that is reachable. The lemmas on lists (`ListAfterAllocation`,
`ListAfterRemoval`, `RemovalKeepsDistinct`) say what linking and unlinking do to the list of
objects.

### `TableProofs`

For every set of keys, every hash function, every first capacity that is a power of two
greater than 1, and growth up to any bound that an `int` holds as a power of two (2^30),

* `TypeCorrect`;
* `ProbesTerminate`: every probe meets an empty slot, also in an array half rehashed;
* `KeysAreFound`: each live entry is where `findEntry` looks for its key;
* `WeakTableForgets`: `tableRemoveUnmarked` leaves no unmarked key;
* `CapacitiesArePowers`: the capacity is 0 or a power of two;
* `TableImplementsDictionary`: `Table` implements `Dictionary`.

That each key is found says nothing of the slots before the one it is in, which is what a
deletion or a growth disturbs. The invariant that does is `Reached`: every slot that the
probe of a live key meets before its own is taken, by a tombstone or by another key.
A deletion keeps it because it leaves a tombstone; an insertion into the first tombstone
keeps it because the whole probe was walked and the key not found (`InsertKeepsReached`);
growth keeps it in the new array, entry by entry (`RehashIsPartial`). That a slot is left
empty follows from `CountIsOccupancy` (the count is the number of entries and tombstones)
and `LoadKept` (it is three quarters of the capacity at most), by counting
(`RoomIsEmptySlot`). The order of a probe is the distance from the home slot modulo the
capacity, a total order on the slots (`BeforeIsOrder`); that there is a nearest slot is the
only induction (`NaturalFacts!LeastNumber`). The refinement goes from the entries to the
map: under the invariant no key is in two slots (`LandingIsUnique`), so what a slot holds is
what the map holds (`ReadContents`), and rehashing changes nothing of it. Capacities are
powers by a recursive function, one unfolding for each growth (`Doubling`); the invariant
carries the bound from the load check to the new array (`GrowthIsPower`), between which a
collection may come.

### `AllocationProofs`

For every finite number of objects, any contents and any nesting of compilations,

* `TypeCorrect`;
* `LocalsAreSafe`: a collection at any allocation frees nothing that the C locals of the
  routine in progress hold;
* `CollectionIsSafe`: nor anything that the program gets at, through open upvalues too, as
  long as none was forgotten by a runtime error and no global is past a wrapped count. The
  run `allocation_prompt` shows that the first is needed, and with a count that wraps at 2
  that the second is;
* `StringsAreInterned`: no two live strings have the same contents;
* `BytesAreCounted`: at each allocation the bytes counted are those of the blocks handed out;
* `NothingLeaks`: each block has an owner, and none is left at exit.

The assumptions are that an address space is finite, that the VM and the C stack are no
objects (`ObjAssumption`), that the byte of the globals counts something (`ByteAssumption`),
and that the bounds are numbers.

The first needs to know, at each step of each routine, what is on the stack and what only C
locals hold: `InPlace` is that table, and `Protected` says that what the locals hold is
reachable from the roots, which is what the pushes and pops around allocations in the code
are for. `Present` says that the roots are live and that live objects refer to live
ones; then what is marked is live, since it is the least set closed above the roots.
For the second theorem, what the program reaches has to be what is marked. `Slots` says that
the slot of an upvalue in the list of the VM holds a root, and that nothing but an upvalue
has a slot; with no upvalue forgotten, every object that is reached through a location is a
root then, and the live objects are closed under `Follow`. That only upvalues are open needs
to know where names come from (`Named`): a wrapped count drops slots, and must not drop an
upvalue with them. For the interned strings, `Distinct` adds that from the search of the intern table to the insertion
no string with the wanted contents exists: collections in between only remove.

The last two have an invariant of their own, `Accounted`, beside the first. A sum that is right
does not stay right by itself: `free` is told a size that the code computes again from
the object, so the invariant says of every object what each of its blocks measures
(`Exact`). The hard part is an array of a chunk in the middle of growing:
its capacity is set first, and a collection before the array follows would free the wrong
size. That does not happen because the function being grown is a root, which is
`LocalsAreSafe` again; until the array follows, its block has the old size, which a C
local keeps (`InHand` is what such locals own). From the exact sizes both theorems follow:
a block that is not empty is one of a live object, a table or a local. The lemmas about sums
hold for any finite set: `SubsetInduction` is induction over finite sets as a statement about
sets of sets, `FoldExists` shows that the recursive fold of the library is defined on every
finite set, `TotalUpdated` that changing one block changes the sum by the difference, and
`FreedAll` that a sweep, which frees many objects at once, is a sequence of such changes.

### `UpvaluesProofs`

For every sequence of instructions the compiler can emit and every bound, on the stack,
the frames, the closures and the upvalues,

* `TypeCorrect`;
* `OpenListStaysSorted`, in the repl too, runtime errors included;
* `VariablesShareOneLocation` and `ClosuresReachTheirVariables`, under the assumption that
  the program is run once (`~Interactive`). The run `upvalues_repl` shows that without it
  the second is false, so the assumption is needed.

The order of the list alone is not inductive: a pop is only harmless because no open
upvalue is on a slot without a variable (`OpenOnVariables`), and a scope exit because one on
the variable popped makes the variable a captured one, for which the compiler emits
`OP_CLOSE_UPVALUE`. `OneLocation` needs that a variable is in one slot and was declared
(`VariablesDistinct`), and that frames are stacked
(`FramesStacked`), so that a return closes the slots of its frame and no others. Most steps leave
every variable in its slot and every upvalue at its location; they share one lemma
(`SteadyStep`), and so do the steps that end variables (`LeavingStep`). `captureUpvalue`
inserts into the list where the order says (`CaptureWorks`). The loop of `OP_CLOSURE` is a
recursive function over the operands, which is unfolded turn by turn (`CapturesAll`):
a turn keeps what the turns before it captured and what lists they left.

### `UpvaluesRefinement`

`UpvaluesImplementLexicalScope`: for every sequence of instructions and every bound, a program
that is run once (`~Interactive`) implements `LexicalScope`. In the repl the first finding
stands in the way.

The mapping reads the variables of a frame off the slots above its first one, so the proof
needs to know that they are there, without a gap (`Blocks`), and that no slot outside a
frame has a variable (`NamedInFrames`); both were checked by TLC before. The proof then has
two halves. The first is about activations: a step gives the top frame another block of
variables (`TopGrows`, `TopShrinks`), adds a frame (`FramePushed`) or takes one away
(`FramePopped`), and the frames below keep theirs. The second is about cells: `Kept(X)` says
what a step may do to slots and upvalues so that no variable but those of `X` changes
its value, in particular that an upvalue which closes takes the value of its slot;
`CellsKept` shows that this is `Preserved(X)` of `LexicalScope`, and the place where a value
is held is right because of `OneLocation` (`StoreIsHeld`). That a new variable is not
reachable yet is `FreshVariable`. One lemma for each instruction puts the two together
(`DeclareLocalMaps`, `MakeClosureMaps`, `EntersMaps`, `ReturnMaps` and so on).

### `ValuesProofs`

`FaithfulWords` and `WordsEqualAsValues` hold for every layout whose sign
and tag bits lie outside the quiet NaN bits (`LayoutAssumption`), doubles that are not
quiet NaNs with all of those bits (`DoubleAssumption`: hardware gives one NaN, without bit
50) and addresses clear of them and of the sign (`AddressAssumption`: 48 bits). The
inductive invariant is that every slot holds the word its tagged value is boxed as; the
lemmas say that the macros read each kind of boxed value back (`ReadBoxed`), and that
boxing is one-to-one (`BoxedOnce`).

### `ScannerProofs`

For any texts of any length in which no character is NUL, which a C string is by
definition (`SourcesAssumption`), of any characters,

* `NeverPastTheEnd`: no position is past the NUL that ends the text;
* `CallsReadOn`: a call starts where the last one stopped or later, and consumes a
  character or is at the end.

The loops over characters are stated as where they stop, the least position from which
something holds, so each needs that there is one, and it is the NUL at the latest
(`PastRunEnds`, `UntilEnds`). `skipWhitespace` is a recursive function, whose value at a
position depends on those at later ones. That it has one, and one within the text, is an
induction from the end of the text downwards (`WhitespaceEnds`), which works because a
turn of the loop that is not the last moves on (`TurnsMoveOn`). `TokensEnd` then goes through the
kinds of tokens. `compile` ends because of `CallsReadOn` and the finite text; that last step is
liveness (`ReachesEnd`), which stays with TLC.

### `NaturalFacts`

A set of numbers that is not empty has a least one, and what holds at 0 and passes from
each turn to the next holds after every turn. Both are stated about sets of numbers
rather than predicates.

### Only model-checked

* `ImplementsLox`, `HeightAsCompiled`, `Neat` and the list of upvalues in `MCPrograms`,
  `AcceptsOnlyVerified` and `MatchesGrammar`: the compiler, the interpreter of jlox and the
  grammar are recursive over programs and texts, and so out of the prover's reach.
* Liveness: that a set returns, a collection ends, a program ends and a text is scanned to
  its end.

## Not modelled

* Reading files and the command line, exit codes, printing, messages and line numbers of
  errors: input and output.
* `synchronize`, which never runs, and messages that would cascade.
* The scanner of jlox, and of its parser all but the levels and nodes of operators and the
  `for` statement; its `break`, comma operator and lambdas. Programs reach jlox as trees.
* In `Allocation`, what is read at an address that was freed: `Keep` takes live objects only.
* Numbers other than integers in programs, overflow of `STACK_MAX`, failure of `malloc`
  (the process exits).
* The order of the gray stack and the threshold of collections, which the models leave
  open.
* The book, its code and its other tests: not this project's.

## Running

`tlc -config MCTable.cfg MCTable` and so on for each run in `PROJECT.json`;
`tlapm` on `NaturalFacts.tla`, `CollectorProofs.tla`, `TableProofs.tla`,
`AllocationProofs.tla`, `UpvaluesProofs.tla`, `UpvaluesRefinement.tla`, `ScannerProofs.tla` and
`ValuesProofs.tla` for the proofs. The longest, `UpvaluesProofs` and `AllocationProofs`, take a
few minutes each.
