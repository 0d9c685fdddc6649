# A verification of clocks

`clocks` is a bytecode interpreter in C, derived from clox: a scanner and a
one-pass compiler that emit bytecode, a stack machine that runs it, and under
both a hash table, a heap of objects and a mark-and-sweep collector. This
directory holds TLA+ modules for the parts that carry state from one call to
the next, the TLC configurations that check them, and TLAPS proofs.

## 1. The system

All code is in `src/src/`; state is in three globals, `vm` (vm.c), `parser` and
`current` (compiler.c). There is one thread: what interleaves is the
collector, which any allocation may run in the middle of another operation, and
in the REPL one line after another over the same globals. The compiler's
functions depend on each other in their own way: they share the current token,
the code and the table of locals, and after an error each of them goes on.

| component | state | operations | hard behaviour | what makes it correct |
|---|---|---|---|---|
| hash table, table.c | count, capacity (the index mask), entries | tableGet, tableSet, tableDelete, tableAddAll, tableFindString, tableRemoveWhite, markTable, init, free | tombstones, wrap-around, growth in the middle of a set, no bound on the probe but the load | it is a map; every probe ends; every stored key is found |
| collector, memory.c | list of objects, marks, gray stack, bytesAllocated, nextGC | reallocate, collectGarbage (markRoots, traceReferences, tableRemoveWhite, sweep), freeObjects | runs inside any allocation; weak table of strings; cycles | nothing the program can reach is freed, everything else is |
| objects, object.c | the heap objects | the constructors, takeString, copyString | strings are unique, by interning in a weak table, while the collector runs in between | equal strings are one object; a new object is rooted before the next allocation |
| machine, vm.c | stack, frames, openUpvalues, globals | the instructions, call, captureUpvalue, closeUpvalues, runtimeError, interpret | slots are reused while closures still refer to them; errors abandon all frames at once | lexical scope; one upvalue per variable |
| classes, vm.c | tables of methods and fields, the receiver in slot 0 | OP_CLASS, inheritance, OP_METHOD, bindMethod, invoke, super, initializers | methods are copied once; an invocation skips the bound method; slot 0 of a call is written by whoever calls | lookup along the chain of superclasses; a call of a property is a call of its value |
| compiler, compiler.c | chain of compilers, locals, upvalues, scope depth, panic mode | declarations, statements, expressions | slots must agree with the run-time stack on every path; byte-wide limits; recovery after an error | the code can be run without checks; names mean the variables of their scopes; the parser always ends and leaves nothing behind |
| scanner, scanner.c | start, current, line | scanToken | one and two characters of lookahead at the end of the text; lines counted inside strings | the tokens are the longest lexemes of the text, with their lines |
| chunks and values, chunk.c, value.c | growing arrays; NaN boxing | writeChunk, addConstant, writeValueArray | addConstant may collect | what is being added survives the growth |
| disassembler, debug.c | none | output | it must know the width of every instruction | it finds the instructions that are executed |
| command line, main.c | none | repl, runFile | the REPL goes on after an error | |

The table serves the machine (globals, fields, methods) and the objects
(`vm.strings`). Every array and object comes from `reallocate`, which calls the
collector, which calls back into the machine and the compiler for their roots.
The compiler allocates objects, and decides which slot and which upvalue an
instruction of the machine names.

## 2. The modules

    Map        Reach --- GC     Lexical     Values --- Objects     what is promised
     |           |       |         |           |          |
    Table        +-- Collector  Closures       +----- Classes      what the code does
     |  |              |           |                     |
     | Strings     MCCollector  MCClosures       MCClasses         instances for TLC
     |  |          CollectorProofs               ClassesProofs     proofs
     | MCStrings                ClosuresProofs
     | StringsProofs
    MCTable
    TableProofs

    Instructions --- Verifier   Grammar        Lexemes             what is promised
         |               |         |              |
         +--- Compiler   |         |           Scanner             what the code does
                 |       |         |              |
              (CompilerProofs)     |              |                proofs
                 |       |         |              |
                 +--- Compiled ----+           Scanned             the two compared
                         |                        |
             MCCompiler, MCErrors, MCLimits    MCScanner           instances for TLC
                                               ScannerProofs       proofs

    Rooting --- MCRooting, RootingProofs    the allocations of all, with their C variables

The modules meet where the code does. Strings is Table with the allocations of
object.c around it. The tokens that Scanner makes are the texts that Compiler
reads, and the code that Compiler makes satisfies what Closures and Classes take
for granted of theirs: locals in their slots, and every way out of a scope
closing what was captured. Collector assumes that every caller of `reallocate`
keeps what it uses in a root, which is what Rooting checks.

**Table** (table.c). `table` is the C structure, with `capacity` the mask as in
the source. `tableSet` is one action when the array has room. When it has not,
`tableSetGrowing` allocates, `moveEntry` is one turn of `adjustCapacity`'s loop
and `finishSet` installs the array and stores. Every other operation is one
action; `ret` is what the last call returned. `findEntry` is defined by what its
loop arrives at (the key's slot, else the first tombstone on the way, else the
free slot that ended it), and MCTable checks it against the loop itself
(`ProbeArrives`). A collection in `adjustCapacity`'s allocation comes before
`table->count = 0`, so it is `tableRemoveWhite` followed by `tableSetGrowing`.
`tableAddAll` is a sequence of `tableSet` on the receiving table. `tableFindString` is
in Strings; `markTable` only reads.

**Map** is the finite map that Table implements, results included
(`ImplementsMap`).

**Collector** (memory.c, and the allocations of object.c). Objects are
addresses with a set of references. `reallocate` asks for memory, either with a
collection first (`markRoots`, then `blackenObject` per turn of
`traceReferences`, `tableRemoveWhite`, `sweepObject` per turn of `sweep`,
`endSweep`) or without, and the allocation is then served: `allocateObject`,
`internString` (whose table may have to grow, hence ask again) or `growArray`.
That references of an object under construction are reachable from a root while
it asks is the guard of `reallocate`: it is the duty of each caller, and whether
each caller keeps it is the subject of Rooting. When to collect is left
open (any allocation may), which covers the byte threshold and the stress build;
so are the orders of the gray stack and of the object list.

**GC** is the collector as its clients may think of it: one step that frees
what is unreachable. **Reach** defines reachability without recursion, as the
least closed set.

**Strings** (object.c's interning, composed with Table). It extends Table, which
is `vm.strings`. `copyString` and `takeString` look the characters up
(`tableFindString`) and, if they are not there, go on in steps: `allocateChars`,
`allocateString`, and the `tableSet` that puts the new object in the table, with
Table's own actions for its growth. `collectGarbage` may come before each step
that allocates: it buries the entries of the strings nobody holds and frees
them, in one step, as `CollectsAtOnce` allows. The characters of an address are
fixed, two addresses for each text.

**Closures** (vm.c, and from compiler.c what fixes slots and captures). `stack`
keeps what was popped, as the C array does. A frame carries, besides closure
and slots, its local variables in order of declaration and whether some
function of the program captures each: what the compiler knows at that
instruction. The instructions of the program are left open: after any
instruction any other may come that the compiler could have put there, e.g.
`OP_RETURN` with one operand, from inside of any number of blocks. Loops are
turns: `OP_CLOSURE` pushes the closure and sets `filling`, and each upvalue is a
`captureUpvalue` (of a local, shared if its slot has an open upvalue) or an
`inheritUpvalue`. `closeUpvalues` is one step, its loop having no other effect
than a prefix of the list. `runtimeError` ends all frames; with `Repl` a new
script may then run on what is left, without it the process ends. One global
variable stands for the globals. Variables have identities (`Variable`), which
exist to state the properties and which the program does not see.

**Lexical** is the language: a variable is a new one at each declaration and
lives as long as its scope or a function that captured it. Closures implements
it (`ImplementsLexical`): slots, their reuse, upvalues and closing are invisible.

**Classes** (vm.c). One stack and frames that each see a part of it; a value is
what a class, an instance, a bound method, a closure or something else is to
`callValue`. The code is any that the compiler makes, so operands come in any
order, and a class is declared as `classDeclaration` lays it out: `class`, perhaps
`inherit`, then `method`s, then `endClass`, with the superclass in the variable
`super` meanwhile. `own` is a history variable: what a class declares itself. A
script that fails or returns is followed by the next one, as in the REPL, over
the same classes and instances. Code stands for its method, so a class has at
most one method of a name.

**Objects** (over **Values**) is the language: a class knows what it declares and
its superclass, a method is looked for along the chain each time, every call has
its own `this`, and `a.m()` is `a.m` followed by a call of it. Classes implements
it (`DispatchesAsPromised`).

**Compiler** (compiler.c). The functions of the source call each other; here
`todo` is what is left to do of all the functions on the C stack, an item being a
function, or a point in one where it goes on, with its C locals. A step takes the
first item, does what the function does up to its next call, and puts that call
and the rest in its place. `compilers` is the chain that ends in `current`, each
with its function's code and constants, locals, upvalues and scope depth;
`classes` is the chain of ClassCompilers. The text is open: a kind of text says
which tokens may stand at each place, and `advance` chooses one when it scans it,
so that TLC follows all texts of a kind at once. An error token, `?`, may
stand before any other. `UINT8_MAX` is the constant `ByteMax`, since only a small
limit is reached by small programs.

**Instructions** is the instruction set as its two readers know it: `run()` and the
disassembler. **Verifier** states what `run()` takes for granted of a chunk and
does not check: operands in range, jumps that land on instructions, one
height of the stack at each instruction, by whichever path it is reached.
**Grammar** derives the expressions, with the instructions that evaluate them, by
levels of precedence, without looking at the compiler's rules table. **Compiled**
states by these what the compiler promises of its code; that names mean the variables of
their scopes, and that `compile()` leaves what it entered, is stated in Compiler.

**Scanner** (scanner.c). A round of `skipWhitespace`'s loop is a step
(`blank`, `comment`), and so is each way in which `scanToken` can return. Positions
are indices in the text, with NUL after its end. The trie of `identifierType` is
modelled by its branches, not as a set of keywords. **Lexemes** says
what the words of the language are, and **Scanned** compares.

**Rooting** (all that allocates, in object.c, vm.c, compiler.c, chunk.c,
value.c). A function is a sequence of steps in the order of the source: allocate,
grow an array, push, pop, store in an object, a table or a root. `todo` is what is
left of the functions on the C stack, and `locals` are the C variables that it
still reads, which the collector does not see. `collectGarbage` may come before
every allocation. Between two functions the compiler or the machine begins any
that the program allows at that place and the state admits. Objects have types
and references by field; the keys of a table are objects too, and are among them.
After a return, an error of the compiler or a runtime error the REPL may read the
next line (main.c:22-31), with the heap and the globals as they are. `runtimeError`
includes `resetStack`: the upvalues that were open are on no list any more, and
`abandoned` keeps them with the values of their slots, which stay in the array of
the stack above `stackTop` until it grows over them (`remain`). An instruction
that reads such a value, which no root leads to, sets the history variable `strayed`.

## 3. What is checked

| run | bounds | what it shows |
|---|---|---|
| table | 4 keys, two values (one of them the value that marks a tombstone), arrays of 4 and 8 slots; hashes chosen so that three keys collide at the last slot of 4 and two at the last of 8 | the table is a map in every state: tombstones, reuse of them, wrap-around, two growths and burials by the collector in any order; `SetCompletes` |
| collector | 3 addresses: every graph of three objects | safety in each step of a collection, exactness, one step to the program; `CollectionEnds` |
| strings | 3 texts, 2 addresses each, arrays of 4 and 8 slots; two of the texts have the same home slot, and it is the last | no two objects with the same characters, and no entry of a freed string, whatever is collected between lookup and store |
| closures | 2 closures, 3 living variables, 2 upvalues, 2 frames, 4 slots | sharing, capture from a capture, recursion by name, closing at scope end and return, overflow of the frames, arity errors |
| closures_deep | 2 closures, 2 living variables, 2 upvalues, 5 slots | a return that closes several variables at once: the parameter and an inner function that captured both |
| closures_repl | Repl, 1 closure | the violation of section 5 |
| compiler | bytes below 32, jumps below 1024; nine families of texts and four of classes: nested and sibling functions, branches, returns, loops, captures in loops, classes with and without superclass, every operator; for expressions, all texts of up to 8 tokens over 12 | the code can be run (`CodeVerifies`), slots are where the compiler thinks (`StackMatchesLocals`), captured slots are closed (`NoCapturedSlotIsPopped`), names are bound lexically (`ResolvesLexically`), exactly the grammar is accepted and evaluated by it, the disassembler does not lose its place |
| compiler_errors | any of 24 tokens at three places from the start, or at two after 14 beginnings in the middle of constructs; the 11 tokens that open and close at four | `compile()` ends, and leaves `current` and `currentClass` as it found them |
| compiler_limits | bytes below 4, jumps below 16: texts at and beyond each limit | a program beyond a limit is refused, else its code can be run and its names are right |
| scanner | all texts of up to 5 characters over 11, the sixteen keywords with a letter missing, changed or added, and pairs of brackets and operators | the longest lexeme each time, nothing lost between two tokens, the right line, an end |
| classes | 2 names, one of them `init`, 2 classes, 2 instances, 3 frames, 2 operands in each, and together no more than `Small` | inheritance by copy is lookup; every method runs on an instance of its class or of a subclass; fields shadow methods in invocations; errors in all of them |
| rooting | start-up, then programs that lead to each instruction, open at the end for any of 16 instructions or of 3 functions of the compiler, or going on with further lines after a return or an error of any kind; 2 upvalues | no object is used after it was freed, and none in use is freed, whichever allocations collect (`NothingUsedIsFreed`), but for what is read through an upvalue that an error left open (section 5) |

Array sizes: the source starts at 8 slots and doubles; the model starts at 4, so
that a table that has grown once is still small. A third growth would repeat the
second. With four keys and 6 of 8 slots as the load limit, an array of 8 can
hold every key and two tombstones.

Three objects are enough for a cycle beside garbage, a chain, and a string
that only the weak table refers to.

In closures, slots above `stackTop` are left out of TLC's view: a file's script
never reads one before it is written again. `closures_repl` keeps them.

Texts of the compiler that have an error are followed to the point where it is
found (`NoError`): `compile()` returns NULL for them, and no code is run. What
happens after an error is the business of compiler_errors, which follows
every text to its end, with bytes as wide as the source's, so that no limit
interferes. In compiler, bytes below 32 are more than its programs use. At the
limits themselves, compiler_limits has a byte of two bits: four locals, upvalues,
constants and arguments, and each family of its texts passes one of these.

In classes, the constraint `Small` keeps a second instance from coming with more
than three values on the stack, or with fields set. Two classes are a chain;
chains of any length are what the proof adds.

In rooting one program after another, of sixteen places at most, stands for all:
what a collection frees depends on the roots before an instruction and on what the
instruction does to them, not on what came long ago. Heaps are small because
programs are, and have no bound of their own. The last program is the one of section 5:
a line fails with the upvalue of a global's closure open, and the lines after it
collect and call that closure. Without `strayed` in the property, TLC finds there
that the class it captured is read after it was freed.

Deadlock is checked in table, collector, strings, the three runs of the compiler,
scanner and classes. Elsewhere programs end: the script of closures, and the
programs of rooting.

Fairness. The interpreter has one thread and calls run to their end, so a step
of `adjustCapacity` or of `collectGarbage` that can be taken is taken: weak
fairness of `Growing` and of `Collect`. For the same reason Compiler
and Scanner have weak fairness of their next step: `compile()` goes on as long as
a function it called has something to do, and asks for tokens until it is given
the end. No fairness is assumed of the program that runs.

## 4. What is proved

For every set of keys and hash function, every number of slots and any values
(`TableProofs`): `TypeCorrect`, `LoadIsBounded`, `LookupFinds`,
`TableImplementsMap`. The assumptions are those of `TableAssumption`: NULL is no
key, NIL and TRUE_VAL are different values, hash codes are naturals, and the
first array has at least four slots. The inductive invariant says that
the array is *sound*: on the way from a key's home slot to the slot that holds
it no slot is free. With the load bound (a free slot exists, so probes end) it
gives that `findEntry` arrives at a stored key; alone, `LookupFindsEveryKey` is
not inductive, since it does not say what a deletion must leave on the way.
`StoreKeepsSound` and `BuryKeepsSound` are the two ways an array changes.

For every set of objects and every graph (`CollectorProofs`): `TypeCorrect`,
`CollectorIsSafe`, `SweepLeavesTheReachable`, `CollectorImplementsGC`. The
invariant is the tri-colour one: during the trace every reachable object is
marked or can be reached through a gray one, marked objects are reachable, and
a marked object that is not gray refers to marked ones only. The object set is
not assumed to be finite.

For every text, and every set of letters and digits that has none of the
characters the scanner treats apart (`ScannerProofs`): `TypeCorrect`, by which the
scanner never passes the NUL, though it looks two characters ahead and no loop
knows the length of the text; and `CountsLines`: `line` is one more than the
number of line ends before `current`, and so each token has the line it ends in,
strings over several lines included. The invariant relates `line` to the
position; `NewlinesAdd` splits a text in two, and there is a lemma for each step.
On top of it, `FindsLongestLexemes` (`LongestLexeme`): of the kind that Lexemes says,
and the longest, or an error where no lexeme begins. A word's first character
settles which kinds it can be of (`KindsByFirst`), for each kind there is a
description by characters (`NumberParts`, `PunctuationIs`), by which one character
more than the scanner took is wrong, and `TrieIsKeywords` shows the branches of
`identifierType` to know exactly the keywords. Last, `LosesNothing` (`NothingIsLost`):
the tokens lie one after the other, with whole blanks in between. What "over blanks"
means is the least set of places closed under them, so that no recursion is needed.

For every set of texts, any number of addresses for each, and every number of
slots (`StringsProofs`): `StringsTypeCorrect`, `StringsAreUnique`
(`OneObjectPerString`), `StringsAreFound` (`EveryStringIsFound`) and
`StringsUseTable`, that the steps of `vm.strings` are steps of Table, by which
whatever TableProofs shows of a table is true of this one. Uniqueness is not
inductive: between the lookup that finds nothing and the `tableSet` that stores,
the table may grow and the collector may bury entries. The invariant (`SInv`)
adds to TableProofs' that each entry is a live object (`Indexed`), that
characters looked up and not found are still in no entry while their object is
under construction (`Missing`), and that what is under construction cannot be
collected (`Rooted`). The last is what `push(OBJ_VAL(string))` in
`allocateString` is there for.

For every set of variables and values and every bound of frames, slots, closures
and upvalues (`ClosuresProofs`): `ClosuresTypeCorrect` and `UpvaluesAreShared`
(`OneUpvaluePerVariable`), in the REPL too, and `UpvaluesPointAtTheirVariables`
(`OpenUpvaluesAreLocals`) for a file's script, since in the REPL it is false:
that is the finding of section 5. The invariant (`IInv`) says that frames lie one
above the other (`Stacked`), that no two local variables are the same
(`Distinct`), that the list has open upvalues by descending slot (`Listed`,
`Descending`), that while a program runs an upvalue is open iff it is listed and
then points at its variable (`Found`), and that an upvalue and a local stand for
the same variable only if one points at the other (`Shared`). For this
invariant all instructions are of five kinds, a lemma for each: they leave the
variables alone (`Quiet`), declare some (`Declared`), drop uncaptured ones
(`Dropped`), close and drop (`Closed`), or make an upvalue (`Opened`).

For every set of names and every bound of classes, instances, operands and frames
(`ClassesProofs`): `Inherits`, that a table filled once has, at any later time,
the methods of the superclass. It is not inductive as it stands: that a table can
be relied upon after it was copied needs that the superclass was complete by
then. The invariant adds that a class is older than its subclasses (`Older`) and
that only the last class can be under declaration (`Tables`). On top of it,
`ClassesTypeCorrect` and `MethodsReceiveInstances` (`ThisIsAnInstance`): every
method that runs has in its slot 0 an instance of its class or of a subclass.
The invariant (`RInv`) carries this along the ways by which a receiver gets to
slot 0. Methods in a table, or in a bound method, belong to the class of the
receiver or to an ancestor (`Owned`), every value refers to what exists
(`Valued`), and so each frame is right when it is made (`Framed`). Ancestry is
defined by sets that are closed upward, not by induction; that classes never
change their superclass once they are complete gives that it only grows.

`ClassesProofs` then proves the refinement: `DispatchesLikeThePromise`, that Classes
implements Objects (`DispatchesAsPromised`), step by step, errors and the REPL's
next scripts included. That a lookup along the chain of superclasses is what the
one copied table says (`LookupIs`) follows from `Inherits`, by the first class
where it would not. That the one stack of the machine is a stack of values for each
call needs that the frames cut it in parts; a lemma says what becomes of the
parts for each kind of step: it replaces operands (`ReplacesOperands`), drops one
(`DropsOperand`), enters a call (`EntersCall`), returns (`ReturnsCall`), or starts
afresh (`Restarts`). A lemma for each action then names the step of Objects that
it is.

`ClosuresProofs` then proves the refinement that the upvalues are for, on a file's script:
`ClosuresImplementLexical`, that Closures implements Lexical (`ImplementsLexical`).
Scopes are read off the frames (`Scopes`), the captured variables off the closures
(`Captures`), and the value of a variable is in its slot if it has one, else in its
upvalue (`Contents`). The invariant `IInv` makes these well defined:
a variable that is on the stack and in an upvalue reads the same by both
(`ValuesAre`), since an open upvalue points at the slot. It needs one part more
(`LInv`): every upvalue is in some closure (`Used`), so that what lives in the
machine is what lives in the language (`LivingAsPromised`). Then there is a lemma
for each instruction, on what it does to the operands, the variables and the
values; the longest are `NewVariable`, `ReturnPromised` and `CallPromised`, where the stack
is cut anew, and that closing moves a value without changing it is
`ClosingReads`. The theorem assumes `~Repl`: with the REPL it is false, by the
finding of section 5.

For whatever is compiled and run, however long, line after line and whether a line
fails or not, and any number of upvalues (`RootingProofs`): `FreesNothingUsed`
(`NothingUsedIsFreed`), that no function goes on with an object that an allocation in
the midst of it collected, and that nothing that stays refers to one. It has one
exception, which is not of the model but of the code: once an instruction reads a
slot above `stackTop` through an upvalue that a runtime error left open (`strayed`),
nothing is said, and the finding of section 5 is why. A script from a file never comes to
that, nor does a line of the REPL before the first that fails. Except for this the
theorem is what Collector takes for granted of its clients.
To be used later is not enough of an invariant: it must be known which root keeps
what a C variable holds, and which function put it there. So the invariant
(`IInv`) lists the places of each function (`InBind`, `InInherit`, `InClosure`, ...),
and says at each what its variables hold, that it is reachable (`Kept`) unless
the function allocates nothing more, and how much of the stack is the function's own
(`Level`, in which the machine is alone, compiling or running: `pop` must not take
what a caller of it keeps there). With it goes what holds at any place
(`Consistent`): every reference is to an object that is there (`HeapOK`,
`RootsOK`), a closure has a function and a method is a closure (`ObjectOK`). A variable
that is read through an upvalue is a root or is kept by one if the upvalue is open or closed,
or if the stack has its slot in use (`UpvalueIs`, `IsRooted`); what is left is `strayed`,
which is never undone (`StrayedStays`), so that `IInv` or `strayed` is what every step
keeps. An error leads from any place to the beginning of a line (`ErrorEnds`).
`Collects` is the collection: where all
that the variables hold is reachable, it leaves that as it was. To be reachable is
to be in every set closed under references (`Reaches`), which needs no induction.
There is a lemma for each kind of step (`AllocateStep`, `PushStep`, `PopStep`, ...),
whatever follows it, and on top one for each function, that the next step
leads to its next place or out of it. `OP_INHERIT` and `OP_CLOSURE` allocate in a
loop: what is left of their code after each turn is named by `Rest`, and the
invariant counts the turns. Between the functions any may begin that the machine
admits, and a lemma for each says that its first place is one of those.

For all kinds of text, of any length, with any names, and for any width of a byte
(`CompilerProofs`): `CompilerTypeCorrect`, by which no function has more locals or
upvalues than a byte can name; and `Unwinds` (`CompilerUnwinds`), that when `compile()`
returns, whatever errors it met, every function, scope and class that it entered is
left. `CompilerUnwinds` speaks of the end alone, and what leads there is in `todo`,
which has no bound, since functions nest as the text does. The invariant (`IInv`)
goes by what an item of `todo` does from its beginning to the end of all that it leads to
(`Effect`): nothing to compilers and classes (`Inside`), or it ends at rest in the scope
where it began (`Around`), or it leaves a function, a class or a scope (`OfFunction`,
`OfClass`, `endScope`). That depends on the item and on a few things about the innermost
compiler (`Shape`: its type, its scope depth, whether it has locals, whether
the last of them is not yet initialized). `IInv` says that the items, one after the
other, lead from where the parser is to the end (`Runs`), and that the locals of each
compiler lie in the order of their scopes (`Scoped`), so that `endScope` removes those
of its scope and no others. There is a lemma for each action, that what it puts in the
place of its item has the same effect; all that a statement can begin with an error
included. The longest are about resolution: `Captured`, `UpvalueAdded` and `Resolved`,
that marking a local as captured and adding an upvalue to each function on the way
leaves all the shapes as they are. With it goes `ResolvesRight` (`ResolvesLexically`), that
a name means the variable of the innermost scope that declares it. The searches begin at
the end, so that they find the innermost (`InnermostIs`); the upvalues lead there one
function at a time (`Leads`, `LeadsOn`), for functions nested to any depth, and an index
that a byte cannot hold is an error. For this `IInv` needs that there has been an error whenever
the parser is in panic mode: an error that is not reported then is still not forgotten.

Only model-checked: liveness (`SetCompletes`, `CollectionEnds`, `Terminates`,
`ReachesTheEnd`), which the prover does not reach; and what is stated by recursion, likewise:
`ProbeArrives`, and what Compiled says of the code by Verifier and Grammar
(`CodeVerifies`, `StackMatchesLocals`, `NoCapturedSlotIsPopped`, `DisassemblerAgrees`,
`CompilesExactlyTheGrammar`). `StillClosesOver` is false.

## 5. Finding

`runtimeError` calls `resetStack` (vm.c:38-42), which sets `vm.openUpvalues` to
NULL and closes nothing. A file's script ends there. The REPL goes on: a closure
that a global names keeps an upvalue that points at its old slot, and a local
variable of a later line takes that slot over, so that the closure reads and
writes it. `closure/reuse_closure_slot.lox:11-12` says what should happen: "Since
a is out of scope, the local slot will be reused by b. Make sure that f still
closes over a." Run closures_repl shows twelve steps that lead there.

The same upvalue can lead to a freed object. Until a later line uses the slot, it is above
`stackTop`, where `markRoots` (memory.c:216) does not look, so a collection may
free the object in it, and `OP_GET_UPVALUE` (vm.c:481) in a call of the closure
reads it then. That is the exception `strayed` of `NothingUsedIsFreed`; everything
else that a failed line leaves behind is safe from that, by the theorem of section 4.

## 6. Not modelled, and what remains

Not modelled:

- output: printing, the text of messages, what the disassembler prints; reading
  files and exit codes;
- the overflow of the stack by temporaries (`push` has no check; in Closures and
  Classes bounds are guards), and running out of memory (no caller of
  `realloc` checks): the code has no behaviour for either;
- the values of numbers and their operators, and NaN boxing, which are pure
  functions of floating point;
- the count of bytes that decides when to collect (any allocation may collect,
  which covers every decision), and `freeObjects` at the end of the process;
- the capacities of chunks and arrays, the lines of instructions, the values of
  constants;
- native functions, beyond their objects and that they can be called;
- in Rooting, `OP_SET_LOCAL`, `OP_SET_UPVALUE` and `OP_SUPER_INVOKE`, which allocate
  nothing; the errors of an instruction before its first allocation are one
  action, `operandError`, at any place of a running program;
- in Closures, the capture of slot 0, which only a method has as a variable (`this`,
  compiler.c:212-221): methods are the subject of Classes. A return that closed from the
  slot above slot 0 would not show there. In Rooting slot 0 is captured like any other;
- in Closures the table of globals is one variable: that an assignment to an
  undefined global leaves none is seen by `ImplementsMap` of the table alone;
- in Scanner, which of the operators and brackets a token is: they are one kind, and only
  their lengths are checked.

What would come next:

1. Of the compiled code, that the height of the stack is that of the locals, by an
   invariant over `todo` like that of CompilerProofs, which needs a Verifier without recursion.
2. The byte count: that `bytesAllocated` is the sum of what is allocated; chunks
   with their lines.
