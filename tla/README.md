# Cript in TLA+

A verification development of [cript](../src/README.md), a small script language: a parser that
emits an SSA-like IR, a linker that turns it into instruction lists, and a single-threaded register
machine with a copying collector. The program is sequential, so the hard behaviours are not
interleavings of threads. They are *long histories*: an open-addressing table after many removals, an
object that moves while C code or an old header still holds its address, an instruction interrupted
by a collection, a block that is almost full, a search that must end.

Everything is written in plain TLA+, model-checked with TLC and proved with TLAPS. The source is
the reference: each definition is a translation of the lines that `PROJECT.json` ("map") names.
The build is `-m32` (`CMakeLists.txt`), which fixes the size of a word.

## The system

| component | state | operations | what makes it hard | what makes it correct |
|---|---|---|---|---|
| hash tables (`hash.c`) | capacity, size, slots | find, set, rehash, expand, shrink | deleted slots, reuse of slots, probe cycles, resizing in the middle of a call | no key twice, exact size, unbroken probe chains, behaves as a map, searches end |
| objects and collector (`cvm.c`, `young_gen.c`) | two blocks of tables, registers of all frames of all scenes, `vm->global` | the instructions, allocation, growth with REDIRECT headers, marking, swap | raw pointers that a collection or a growth makes stale; a collection inside any allocation; objects that lie past the end of their block | scripts find what a machine without addresses would give them; no dangling pointer, nothing copied twice, the replacement block never overflows |
| blocks and userdata (`young_gen.c`) | allocated counter, bitmap, headers | allocate, mark, destruct, swap | bit arithmetic on word and byte offsets, the end of a block | a destructor runs once, when its userdata is unreachable |
| callbacks and libraries (`libs.c`, `cvm_state_call_function`) | C locals with raw addresses, a new scene per callback and per import, its external array | foreach, import, and the calls that only read: typeof, sizeof, concat, print | addresses held over collections; a script that runs in the middle of a C function and may start another | a library call goes on as if nothing had moved while the script ran |
| string pool (`string_pool.c`) | table of nodes, pages of characters | find, insert, expand | page arithmetic with unsigned remainders | same text, same address; different text, different address; strings do not overlap |
| IR builder, linker (`ir_builder.c`, `inst_list.c`) | basic blocks, constants, dominators, jumps to patch | emit, fold, link | constants shared across blocks, back-patching | every jump lands on the first instruction of its block; a register read sees the last write that dominates it |
| parser and scopes (`parse.c`) | scope stack, symbol tables, captured variables | declare, assign, look up, merge after `if` and `while` | assignments made in one branch only, captures of outer scopes | a name denotes the register its last assignment on the path wrote |
| linked lists (`list.h`) | `next`, `prev` and `list` of nodes; head, tail and size of lists | append, prepend, before, after, unlink, move | back pointers to locations, not to nodes; the tail of a list that became empty; lists moved between owners | a list reads from both ends as its users ordered it; no node in two lists |
| lexer, printing, command line, errors | text | | pure I/O | |

How they interact: objects *are* tables of `hash.c`; the machine allocates them in the blocks of
`young_gen.c` and passes the collector the addresses of its roots (`vm->global`, each scene's
`external`, each register of each frame). Libraries call back into the machine through
`cvm_state_call_function`. Keys of objects are addresses of the string pool. The parser uses the
same tables for its scopes, and hands functions, strings and instruction lists to the machine.

`PROJECT.json` lists every hazard with its line; those without a property are named at the end.

## The modules

**`HashMap`** is what `hash.h` promises: a map that is read and written as a whole, one call at a
time.

**`HashTable`** is `hash.c`, one iteration of a loop per step. Its variables are the caller's table,
the table a resize is filling (`ret`) and the locals of the running call. `Find` and `Set` enter a
call, `Probe` is an iteration of the probing loop, `FindDone`, `SetDone` and `InsertDone` what
follows it, `Expand`, `Shrink`, `Rehash` and `RehashDone` the macro `hash_set_and_update`. A slot
whose value is `Null` was never used and ends a chain; one whose value is `Undefined` was deleted
and does not. The masks of the code are remainders, and the multiplier is reduced modulo 2^16,
which gives the same index for capacities up to 2^16. A call with `Null` removes its key, as in the
code.

**`HashTableProofs`** holds the proofs about it.

**`Frames`** is what the next two share: values, the registers of a frame, how a call fills them.

**`Machine`** is what the virtual machine promises to the scripts it runs, and knows nothing of
`young_gen.c`: an object has an identity and no address, a table holds any number of fields, memory
does not end, and what no path leads to is gone. Its state is one record, `machine`, of the objects a
program can reach, the global object, the scenes with their frames, and the C function that has
control. Each operation (`Load` ... `Return`, `Import`, `ForeachCall`, `ForeachNext`, `ForeachDone`,
`Leave`) relates the record before it to the record after it.

**`ObjectHeap`** is the machine's heap. An object has a type, a capacity in units of
`HASH_MIN_CAPACITY` slots, its fields (what `HashMap` says of its table), and the forwarding address
that `size` holds in a REDIRECT or GC_LEFT header. `Load` ... `Return` are the instructions that move
pointers. An instruction that allocates does what precedes the allocation and becomes `pending`; the
block being full, `StartGC` runs a collection, one marked cell per `Mark` step in the order of
`cvm_young_gc` (depth first through the fields of the copy just made, as the recursion does), `EndGC`
swaps the blocks, and `NewServed` or `GrowServed` completes the instruction from the state it finds
then. A second failure is `OutOfMemory`. `Zero` stands for every integer and string. Fields of closures
are not assigned: a closure's table has as many slots as captures, rounded up, and the search for
another key in a full table does not end, which is a matter of `HashTable`. A closure captures one
register and the arguments of a call are the fields of any object; the code captures lists and has
the compiler build an array.

`allocated` starts at the size of the block's header and `_young_gen_allocate` adds it to `content`, which
is behind the header: the header is counted twice, and the last `sizeof(YoungGenBlock)` bytes a block
hands out (1 MB of 32) lie past its end (`BlockEnd`; `header` is that size in words). `inside` counts the
objects of each block that begin before its end. An object that does not is taken for one of another
block by `young_gen_gc_mark`: the pointer to it stays as it is, and its fields are not marked (`PastEnd`,
in `Mark`). Copies get past the end of the replacement block in the same way. What lies past the end of a
block is taken to be memory that nobody else uses; the code has no such guarantee, and with another
owner there is nothing left to say. `CollectPastEnd = FALSE` restricts the *runs* to those whose collections
come to no such object: it may be there, and be garbage, and `Edge` and the other programs have blocks
where it is. The code is wrong without that restriction too (`heap_past_end`).

The program is *any* sequence of instructions whose operands have the types the instruction is for,
out of the kinds of instructions that one of `Programs` names. Each of these also says how small its
machine is: when tables grow and shrink, the size of the block, how many objects and frames there may
be. Kinds of instructions that do not meet in the code need not meet in one run, which keeps each
of them small. `StaleFields = FALSE` restricts the programs to those where only registers ever point at a
REDIRECT header. The code is wrong without that restriction (`heap_stale_redirect`). Everything
the passing run shows is about programs and runs within both.

The refinement `ImplementsMachine` says that this is `Machine`. The mapping (`MachineState`) follows
headers from the registers, the global object and the C functions that wait, and reads the objects it
comes to. Identities are history: each object is given one when it is made, copies and larger
tables take over that of the table they replace, and a header left behind keeps it. So a growth and
every step of a collection must map to no step at all, whichever header a pointer is at just then, and
each instruction to the same instruction of `Machine`. External arrays, and arrays that C code has made
and not yet passed on, have no identity.

**`Callbacks`** adds scripts that are run by C functions that scripts call. `Import` and `foreach` each
push a scene (`_cvm_push_scene`, which allocates its external array before the scene is linked), and
`Leave` is the end of `cvm_state_run` in it: its last frame returns, or any frame meets a `halt` and
all are dropped. `native` is the C function that runs, the `caller` of a scene the one that waits for
it; the array and the callback that `foreach` remembers, and the arguments it is making, are raw
addresses. An iteration of its loop is `ForeachNext`, `CbArgServed` (the array of arguments is made and
put into the external array), `ExternalServed` if that had to grow, `SceneServed` (the callback's frame
is filled and it begins). Reading the elements at every iteration from where the array was is the
code's; `LocalsLive` says when that is wrong. A closure that is called back may do anything, another
`foreach` and `import` too. `CollectInForeach = FALSE` leaves out the behaviours with a collection
while a `foreach` runs, which the code gets wrong (`foreach_collected`). The light functions themselves
are left out: what register holds `foreach` changes nothing. `ForeachCall` reads its arguments without
following REDIRECT headers, as the code does, and only if they are tables, and its length is the
number of fields, holes or not.

**`CallbacksProofs`** and **`MachineProofs`** hold the proofs about these two: the first about the steps
of scripts and C functions, about what a heap shows of a machine, about the collector, and the theorems
about the invariants; the second the refinement.

**`YoungGen`** is the same allocator by words, without the fields: what `allocated` and the bitmap do
at every alignment, and which destructors a collection runs. `GCMark` is called on the caller's
handles in any order. A table may be copied into a smaller one (`CopySizes`), as `hash_need_shrink`
decides from its fields. An object that lies past the end of its block is not copied and not
forgotten: the code compares its address with the end of the block.

**`YoungGenProofs`** holds the proofs about it.

**`LinkedList`** is `list.h`, pointer by pointer. What a node's `prev` and a list's `tail` point at is
a location, either the head of a list or the `next` pointer of a node, and `memory` holds what each
location contains. `order` is history: each list as a sequence. The operations act on both, and nothing
in what they do to `memory` looks at `order`. Callers insert nodes that are in no list and unlink
nodes that are in one, which is what `list_node_linked` tells; every caller in `src/` does, and no
function of `list.h` checks it. `list_move` first initializes its destination, whatever is in it: the
nodes that were there are `lost`. They still name a list they are not in, and nobody may unlink them. `list_tail` of an empty list and `list_prev` of
nothing compute the address of no node (`ContainerOf`).

**`LinkedListProofs`** holds the proofs about it.

**`Interner`** is what the users of the string pool rely on: a text gets an address of its own and
keeps it. **`StringPool`** is `string_pool.c`, a call per step: `Insert` compares, expands the table,
finds room in the newest page or makes a new one, writes the characters and adds the node. What a
write leaves unharmed is part of the state (`strings`), so an address that is handed out twice shows.
A write behind a page may be overwritten at any later time. The hash and the length of each text are
inputs; a length of `MAX_SHORT_STRING_LENGTH` or more is the caller's error, which the code asserts.
Pages are numbered from the oldest; the page that `_string_pool_construct` makes for an expanded
table is dropped by `list_move` and never used. The assumption on the sizes (`PoolAssumption`) is what
the code has: page, header and word divide each other, and a page holds a text of any admitted length
with a word to spare (4096 bytes, 255 at most).

**`StringPoolProofs`** holds the proofs about `StringPool`. It begins with what they need about numbers
and no library has in a form the provers can use: induction over a set of numbers, division, powers of
two, and that a linear congruence whose multiplier is 1 modulo 4 and whose increment is odd visits every
residue modulo a power of two (`FullPeriod`).

**`IRLinker`** is `ir_builder_destroy`: the outer loop over the basic blocks and its two inner loops,
an iteration per step, with `_ir_builder_bnr_else` (`BnrElse`) and `_ir_builder_jump_to`
(`FallThrough`, `Jump`, `ReturnUndefined`, `Return`). The input is any control flow graph that
`ir_builder_br` and `ir_builder_j` can leave behind. An entry point is either the end of a chain of
jumps or a place; the code tells them apart by the tag of a `Value`. The instructions of a block are
numbered, and each instruction carries, for the properties only, the block it belongs to and the block
it is meant to lead to. Operands are integers: with 32 bits, of which a chain uses 30, a list would
have to hold 2^29 instructions to overflow one.

**`IRLinkerProofs`** holds the proofs about it.

**`IRBuilder`** is the rest of `ir_builder.c`, for the instructions on numbers. Its operators are the
functions of the code; each takes the builder (the blocks with their instructions, ends and two
tables, and the register counter) to the builder after the call, with what the function returns in
`reg`. `Li` shares constants along dominators, `Binary` folds, `Mov` and `MovUpper` record what is
known of the register they write. `Cached` is what both lookups do on their way: copy what they find
into the blocks they passed.

**`Parser`** is `parse.c` for one function, from its parameters to its closing brace. The program is
any sequence of statements, so an action is a simple statement (`Let`, `Declare`, `Assign`,
`Return`, `ReturnNothing`) or the beginning (`OpenBlock`, `If`, `While`), the middle (`Else`) or the end (`CloseBlock`,
`EndThen`, `EndElse`, `EndWhile`) of one that holds others. `open` is the C stack of the recursive
descent: the locals of each statement being parsed. `scopes` is the list of scopes with `symbol_table`
and `upper_table`. An expression is the sequence of what the functions that read it meet (a number, a
name, after its operands an operator, the operands of a chain of `&&` or `||` one by one), and `Compile`
goes through it with `Step`, keeping what the C functions that are still active keep: the registers of
their operands (`operands`), and `temp_reg` and `expr_end` of each chain (`chains`). The moves at the end
of a statement are emitted in the order of the slots of a hash table, which depends on
addresses: `order` is any order of the names. `if` with an else branch and `while` go through a second
table after the first, in an order of its own (`later`).

A function may use the variables of the function around it, whose registers are `Enclosing`. `Capture`
is what `_parse_capture_variable` does in each function between the variable and its use: it
allocates a register, adds the pair of registers to `capture_list`, and enters the name in the base
scope and the innermost one. An action compiles its expressions first and then enters what they have
captured (`Captured`), since no lookup in between can tell. In the other direction, `NewClosure` is a
function literal seen from the function that contains it: an expression that reads the names the literal
uses, captures those that are further out, and emits `NEW_CLS` with the list of registers. So a chain of
nested functions is a `capture_list` here, filled from the function around, and one of a literal, filled
from here. The assignments of a function also look up `global` (`parse.c:1217`), and the first one
captures it, in a register of its own that is moved at most to itself: that is left out.

The instructions of a block are interleaved with two kinds of claims, which are no part of the code.
`IS` says that a register now holds the value of an expression and which variable is given it; `WHEN`
says that the block runs only if a condition is true, or is not. They are derived from the text of the
program alone: a variable is a `let`, and which one a name means follows the nesting of scopes and
nothing the parser computes.

**`CompiledFunction`** calls what `Parser` compiled and runs it, one basic block per step, on the
registers of a frame. Next to them it keeps `values`, what the variables of the source should hold by
the claims met so far. The linker is left out, since `IRLinkerProofs` shows that the list it makes
runs as the blocks do. `Call` enters a closure whose captured registers had any of the values `Outer`
when it was made: they are copied by `NEW_CLS` into the closure and by `_cvm_setup_function_frame` into
the frame, so what the two functions assign later is their own. Numbers are integers here; the
code has 30 bits, and no property is about large numbers.

`Careful = TRUE` restricts the programs to those that avoid what `parse.c` and `ir_builder.c` are
known to get wrong. The history field `doubtful` of the builder is set by

- a value that is folded to a constant whose register already was somebody's, or that is a name
  captured just now, and gets no register of its own because the counter has moved (`Owned`);
- two variables of the function around that share a register for that reason: the second to be captured
  takes the entry of the first in `capture_list`, and the first is undefined (`EnclosingAssumption`);
- an operand of `&&` or `||`, not the last, that is a known number (`ShortCircuit`);
- an else branch that reads, or a merge that moves from, a register only the then branch wrote
  (`Stale`);
- a name that only the then branch assigns, in a statement with an else branch, and a name that only
  the else branch assigns and the scope around the statement defines (`EndElse`);
- a loop in a branch of an `if` that assigns to a register known in a block before the branch
  (`EndWhile`);
- a division by 0 that is folded (`Binary`).

Each has its line in the hazards. Within the restriction everything below holds, which is what says
that the list is complete for programs of that size.

**`MC...`** modules and their `.cfg` files are the instances for TLC. A definition named `Bad...`
stands before the definition it deviates from; it is a plausible mistake that the property named in
`PROJECT.json` ("mutants") finds, and no specification uses it.

## What the runs check

| run | shows | bounds |
|---|---|---|
| `hash_table` | keys unique, size exact, chains unbroken, a running search is on its chain and has not passed its key, a running rehash holds exactly the live nodes it has passed, and every step refines `HashMap`; a search ends if its table has a never-used slot, and every resize comes back | minimum capacity 4; keys 0 (the key of an unused slot), 1, 4 and 8, three with one home slot in a table of 4; two values; tables made with 1, 2 and 4 slots; they expand to 8 and shrink back; all 4 keys fill a table of 4 |
| `hash_lookup_stuck` | a lookup may probe forever (expected violation) | five keys, so that one is looked for that is not in a full table of 4 |
| `heap_programs` | type invariant; outside collections no pointer leaves the block in use; the replacement block never holds more than the old; each object copied once; only what is reachable copied; every step refines `Machine` | six kinds of programs with 2 registers, 2 keys, 2 fields set at a time. The last one or two units of each block lie past its end. `Tables`: a block of 9 units holds the global object, the external array, a table with 1 unit of slots and the larger table it grows into; tables grow at 2 fields and a collection shrinks them again, as 13 to 15 fields do in the code (expanded above 12 of 16, shrunk below 16 of 32). `Edge`: integers instead of moves, and two units past the end, so that a whole object lies there, is met by a collection (these runs are cut) or has become garbage before it. `Calls`: closures, two frames, room for 3 objects, so that every allocation may collect. `Imports`: three frames, hence imports in calls in imports. `Twice`: a block of 17, where a `foreach` in a callback of another has room, and collections come before and after. `Often`: a block of 21, where an external array gets the three arguments that make it grow |
| `foreach_collected` | what `foreach` remembers may be gone (expected violation) | a block of 10, which the second argument array does not fit into |
| `heap_stale_redirect` | `typeof` may meet a GC_LEFT header (expected violation) | as the `Tables` programs, with the restriction lifted |
| `heap_past_end` | a collection leaves behind what lies past the end of its block (expected violation) | as the `Edge` programs, but for their kinds of instructions, with that restriction lifted |
| `userdata_bitmap` | the bitmap names exactly the userdata; destructors run once, and all that are due run | 4 objects at a time of 5, 7 and 9 words, hence every alignment modulo 8; tables stay as they are or shrink when copied; the block is large enough never to fill |
| `string_pool` | searches end, strings do not overlap, and every call refines `Interner` | six texts in every order, two with the same hash, more that meet; the table starts with 2 slots and grows to 4, of which 3 are used, and to 8; pages of 68 bytes hold four strings or so; no combination of the lengths fits exactly |
| `string_exact_fit` | after an exact fit, strings are written behind the page and lost (expected violation) | pages of 64 bytes, which lengths 3 and 7 fill exactly, as they do 4096 |
| `ir_link` | every jump that waits is on its chain, once; a chain is followed downwards; the finished list runs as the graph does | all 17,576 graphs of three blocks with no or one instruction each: branches with equal targets, self-loops, jumps forwards and backwards, ends without successor |
| `compiled_function` | instructions and tables name what exists; registers hold what names should; shared constants and known numbers are right in every block that may use them; each block ends once | a function with a local `x` that captures `a`, or has an `a` of its own: every program of up to 5 statements nested 3 deep, values `2` and `x + 1`, the condition `a && !(3 <= x)`, `return;` and `return function() { ... }` with `a` and `x` in it; `a` was 0 or 2 when the closure was made. Parameters, which are registers like the captured one, and a condition that is a name are in `if_else_merge`; a loop need not end, so a call is followed for 12 blocks, which is the first two rounds of any loop and what follows it |
| `if_else_merge` | what an else branch assigns may be lost (expected violation) | 4 statements, value `2`, condition `a`, without the restriction |

Smaller bounds would miss the cases: fewer keys never fill a table with deleted slots while a chain
passes over them; one register cannot alias; a smaller block cannot hold a table and its replacement.
Larger ones repeat them: slots, objects and frames are alike except for their order, and the proofs
below remove the bounds for the hash table, the heap, the string pool, the linker and the blocks. Five statements hold two nested branching
statements with an assignment before, in and after them, in any order.

Deadlock is not checked in the runs of `ObjectHeap` and `Callbacks`, where `OutOfMemory` traps and the program stops,
nor in `ir_link`, where the linker returns, nor in `compiled_function`, where the call does.

**Fairness.** Only `FairSpec` of `HashTable` has any: weak fairness of `Step`, the next iteration of
a loop that has been entered. The program is sequential and runs a call to its end, so an enabled
iteration is taken. No fairness is assumed of the caller.

## What the expected violations say

1. *A lookup that never returns* (`hash.c:50`). A slot, once used, is never unused again while the
   capacity stays; the table is resized by its number of live keys only. Store and remove enough
   different keys, and no search for another key ends. A script reaches it with an object whose fields
   are set and removed.
2. *Stale REDIRECT headers* (`young_gen.c:185`, `cvm.c:288`). When a table grows, fields and
   `vm->global` keep pointing at the REDIRECT header. The next collection copies the header, whose
   forwarding address still names the old block. After it, the table behind the pointer is a GC_LEFT
   header, against the assertions of `libs.c:134` and `libs.c:160`, or is memory about to be reused.
   The shortest run stores two globals (thirteen in the code) and collects.
3. *The header counted twice* (`young_gen.c:90`). The last `sizeof(YoungGenBlock)` bytes that a block
   hands out lie past its end, and a collection begins when the block is full. An object there is not
   copied and its fields are not marked (`young_gen.c:141`): the pointers to it stay, its fields lead to
   GC_LEFT headers of the old block, and after the next collection to whatever has been allocated there.
   The shortest run makes tables until the last one begins past the end, stores another in a field of
   it, collects, and reads the field. Userdata
   past the end has no bit in the bitmap and is never destructed either.
4. *A page filled to the last byte* (`string_pool.c:174`). The check asks for `size + sizeof(CString)`
   bytes, the rounding takes up to a word more. After an exact fit `allocated` is larger than the page,
   the difference at line 169 wraps around, and no new page is made any more. Three strings of length 3
   and 253 of length 7 do it with the code's page of 4096 bytes.

5. *An assignment that disappears* (`parse.c:1467`). What only the else branch assigns is put into
   `upper_table` of the scope around the statement. If that scope defines the name itself, its
   `symbol_table` is read first and names the register from before: `if (a) let x = 2; else a = 2;`
   leaves `a` as it was.
6. *A collection during `foreach`* (`libs.c:64`). The array, the callback and the array of arguments are
   C variables of `_lib_foreach` and `cvm_state_call_function`, and no roots. `cvm_create_array`,
   `_cvm_push_scene` and the callback may all collect; afterwards they are GC_LEFT headers, then memory
   that is handed out again. The shortest run stores the array and a closure in an object, calls
   `foreach`, and fills the block with the arguments of the second element.

`string_pool` also shows why a slip is harmless: `_string_expand_pool` does not carry `size` over, so
a table is filled far beyond half before it expands. As many slots stay free each time as the first
table had when it expanded (8 of 16), and `SearchEnds` holds.

The bit that `_young_gen_unset_bitmap` clears (`young_gen.c:33`) is also wrong, but `userdata_bitmap`
shows that it is never another userdata's: bits 0 and 4 are the only ones it clears, and a neighbour 5
words away has neither. With 8-byte words it would be (`BadUnsetBit`).

## What is proved

`HashTableProofs` proves, for every set of keys, every value, every minimum capacity and every initial
capacity (`KeyAssumption`, `ValAssumption`, `CapacityAssumption`, which say that keys and capacities
are naturals, and that `Null` and `Undefined` are distinct and no proper values):

- `TypeCorrect`, `KeysStayUnique`, `SizeIsExact`, `ChainsStayUnbroken`, `SearchesStayOnChain`,
  `RehashKeepsPrefix`: the invariants of `hash_table`, all six;
- `TableImplementsMap`: `Spec => ImplementsMap`, the refinement.

None of them is inductive alone. A store that ends on a deleted slot keeps keys unique only because
the search has passed the whole chain of its key, and it has only because chains are unbroken. So the
invariant `IInv` joins `TypeOK`, the uniqueness, the size and the chains of both tables with
`SearchOnChain` (where a running search is) and `RehashCopiesPrefix` (what a running rehash has
done). Reachability along the probe sequence is stated without recursion: `j` is reached from `i` if it
is in every set that holds `i` and that the step of the loop does not leave. That form makes induction
along a chain the choice of a set, which the provers can do. The refinement uses `IInv` for the two
facts that are not syntactic: what `hash_find` returns is the map's value of its key (uniqueness and
chains), and a finished rehash stands for the same map (`RehashCopiesPrefix` at the end of the table).

`IRLinkerProofs` proves, for any number of basic blocks of any sizes (`LinkerAssumption`), that is for
every function the parser can produce:

- `TypeCorrect`, `ChainsStayComplete`, `LinkerBuildsGraph`: the invariants of `ir_link`;
- `ChainsDescend`: the action property, from which it follows that the loop over a chain ends.

`LinkedAsBuilt` speaks of the finished list only. Its invariant `IInv` adds what holds on the way:
`ControlOK` (a block has its place exactly when the outer loop has passed its beginning), `ChainEnds`
(where each chain begins), `JumpsMarked`, and `Layout` (what of each block has been copied, and which
block each jump is meant for). `ChainsComplete` turns "meant for" into the operand once the block has
its place. The proof separates the two: `Kept` and `Settled` say what no step does to what is already
in the list, so each part of `Layout` is proved once for all actions that leave it alone.

`YoungGenProofs` proves, for any number of objects, blocks of any size that is a multiple of 8 words,
headers of any size below that, and tables of any sizes above 5 words (`YoungGenAssumption`; the header
of a table is 5 words of 4 bytes, which is what makes the bitmap right):

- `TypeCorrect`, `BitmapIsRight`, `DestructorsRunOnce`: the invariants of `userdata_bitmap`;
- `AllDueAreDestructed`: `UserdataManaged` of every behaviour in which no object lies past the end of
  its block (`NoneAtEnd`). One that does has no bit (`InBlock`) and is never destructed.

`IInv` has a part for each thing that could go wrong. `LaidOut`: two headers are 5 words apart, or at
least 10. That is why clearing bit 0 or 4 of a byte clears no neighbour's bit: a bit further on in the
same byte is at most 7 away, and 5 words from 0 or 4 is neither. `BitsSet` says what the bitmap then
holds. `NamesUnique`, `LeftAreCopied` and `HandlesPoint` say who is where in the middle of a
collection. `CopiesCounted` is the argument that the replacement block never fills, which `GCMark`
does not test: the words of what has been left behind are at least as many as have been handed out
for copies, and they all lie within the old block.

`LinkedListProofs` proves, for any nodes and lists, none of which is `NULL` (`Distinct`, a hypothesis of
each theorem):

- `TypeCorrect`: no size goes below zero, no pointer leaves the nodes and heads;
- `ListsReadAsOrdered`: head, tail, next, prev and size of each list are those of the sequence its users
  made, at all times, also half-way through a move;
- `NodesStayInOneList`: the list a node names is the one it is in, except for nodes in a list that was
  initialized again;
- `MovesKeepOrder`: a move keeps the order.

Its invariant (`Holds`, for each list) ties the pointers to the sequence: the location before each node contains
it and is its `prev`, the tail is the location behind the last. All four ways to insert are one,
`Spliced`: after a location, at an index; so the effect on the sequence is proved once.

`StringPoolProofs` proves, for any texts with any hashes and lengths, any page, and any default capacity
that is a power of two from 2 to 64 (`PoolAssumption`):

- `EverySlotVisited`: from any slot, as many probes as a table has slots visit all of them;
- `SearchesEnd`: the invariant `SearchEnds` of `string_pool`, whatever is inserted;
- `TypeCorrect`, `StringsStayIntact`, `PoolInterns`: its other invariants, and the refinement
  `Spec => Interns`, for every behaviour in which no string fits its page to the last byte
  (`[][~FitsExactly]_vars`). `string_exact_fit` shows that this cannot be left out, and these theorems
  that it is the only way to go wrong. The run `string_pool` satisfies it: none of its lengths fits
  exactly.

`GrowthInv` is the argument of `SearchesEnd`. The count of the nodes is wrong after an expansion, so the
invariant counts free slots instead: twice the free slots and twice `size` are at least the capacity and
the default capacity together, while `size` is at most half of the capacity. An insertion takes one
from the slots and gives one to `size`; an expansion at least doubles the free slots (`RehashedIs`)
when `size` starts at 0 again. It also says that every node is on the probe chain of its hash
(`Chained`), which is what makes a node found. `StringsInv` adds where the strings lie: in their page,
apart from each other, and on the newest page before what is still free (`Placed`); whose text a node
has (`Intact`); and that no text has two nodes (`OneEach`).

`Visited` and `Rehashed` are recursive functions. What they compute is proved by induction on how far
they are defined (`NatInd`, on the set of the numbers for which it holds), which the provers can do
although they cannot use the library's induction theorems.

`CallbacksProofs` and `MachineProofs` prove, for any programs on blocks of any size from
4 words, any registers, keys and numbers of fields (`HeapAssumption`; the global object and the external array that
`cvm_state_new` makes take 4), of every behaviour of `CallbacksSpec`:

- `TypeCorrect`, `Dangling`, `Replacement`, `Injective`, `NoGarbage`: the invariants of `heap_programs`;
- `LocalsKept`, `TypeofSafe`: what `foreach_collected`, and `heap_stale_redirect` and `heap_past_end`, violate;
- `KeepsPromises`: they implement `Machine`, the property `ImplementsMachine` of `heap_programs`.

All have the hypotheses `~StaleFields`, `~CollectPastEnd` and `~CollectInForeach`, as the run has: only
registers ever point at a REDIRECT header, no collection comes to an object that lies past the end of the
block, and none runs while C code holds raw pointers. None of the three can be left out: there is a violation
for each (`heap_stale_redirect`, `heap_past_end`, `foreach_collected`). The first is a restriction of
programs. The other two are restrictions of runs, on what has happened and not on what the machine
does: until a collection meets such an object, or begins in a `foreach`, the theorems hold of any run. The
second is a strong one for the code as it is, where a program that goes on using what it allocated last
before a collection breaks it; with addresses counted from the block instead of
from `content` it would be none (no object would begin past the end). Scripts, growths, nested calls, imports and callbacks are those of the run.

The invariant `Inv` is `Calm` outside of a collection and `Busy` in one. `Calm` has `World` (what the
block in use contains: every REDIRECT header points to a later place with the same identity, so
following headers ends; no field points to one; nothing is in the other block), `RootsIn` (what registers, the
global and the external arrays point at, and that nothing else points to an external array, so it may
be replaced), `CallsIn` (the C functions that wait) and `PendingIn` (what an interrupted instruction
will need, once the collection is over). `Busy` is about *cells*, the places that hold a value: every
cell outside the old block that still points into it is one `todo` has (`ToMark`), so when nothing is
left to mark, nothing points there; `Forwarding` has the copies and the GC_LEFT headers one to one;
`Reached` is `NoGarbage` for the whole collection. `Room` is the argument of `Replacement`. The words of a
block are counted as a set (`Units`, the header and the slots of each object that has not been left), so
that moving an object takes its units from one block and gives at most as many to the other. It is
needed because `cvm_young_gc` allocates in the replacement without a test.

`CallbacksProofs` has a lemma for each action of a script and of a C function (`...Step`), and shows
first what the few ways to change a heap keep (`WorldGrown`, `WorldFields`, `WorldRedirected`) and what
rewriting registers keeps (`RootsRewritten`), which those lemmas cite. After them come the collector
and the theorems. The loops that follow headers, `Resolve` and `Denote`, are recursive functions; that
they end at a table with the same identity is proved by induction on the places left in the block
(`Following`).

`KeepsPromises` is proved from `Init => M!Initial` and, for each action, a lemma `...Matched`: the step is
one of `Machine` or leaves `MachineState` as it is. The state of the machine is defined by what can be
reached, and neither the heap nor the machine has a name for a table that the other knows; so the
argument is about sets of places.

- `Ends` leads each pointer through its headers to a table. `Visible` is what the roots and then the
  fields of its own members end at. The model computes it in half as many rounds as a block has words;
  `VisibleLeast` shows that this is the least set that has what the roots lead to and what follows
  from its members, and `ReachesIs` says the same of `Machine`'s `Reachable`. From there on only leastness
  is used.
- `View` says that a machine's state is what a heap shows, with a given set of visible tables;
  `Pictures`, that a set of objects has a picture of each of these. A step is matched by giving some set
  that is closed after the step and the objects that it shows (`Standing`, `Stepped`): the visible tables
  are among them, because they are the least such set, and what is dropped on the heap's side is what
  is not reachable on the machine's. No step needs to be told what became garbage in it.
- Steps of a script that leave the heap alone are those of `Machine` because every value they move leads
  to a visible table (`RootsLead`, `FramesStep`, `LeaveImportSeen`); those that make a table add one to
  the closed set (`GrowingStep`); a store changes one table's fields in both (`SetObjSeen`).
- A growth changes where pointers lead, but the larger table has the fields and the identity of the
  smaller (`GrowServedSeen`). A marked cell leads to the copy instead of the original, which has become a
  header to it, and the copy's fields lead where those of the original did (`MarkSeen`). The end of a
  collection drops a block that nothing leads to (`EndGCSeen`). All of these are stutters.

The invariant is `MI`, which adds five things to `Inv`. `Faithful`: no two visible tables have the same
identity, and the machine's objects are their pictures. `Solid`: a table has slots, hence takes two words
at least, so that half as many rounds as a block has words reach every table. `Serving`: while a
callback is being prepared, the array that `foreach` walks is still a table with an element there,
and the arguments that were made have that element. `Ready`: only scripts ask for the tables
they see, and what `SETOBJ` has sent to grow is an object in the machine. `Closures`: what a waiting
`foreach` calls is a closure. None of them follows from `Inv`, and each is needed: `Inv` says where
pointers may point and not what is found there.

`CompiledFunctionProofs` proves `BlocksEnd` and `TypesHold`. The first is for any program: any names, statements in any nesting and
expressions of any length. The assumptions are that an expression is one of the grammar, its operators
having operands and its chains nesting (`WellFormed`, in `ExpressionsAssumption`), and that there are finitely many names (`NamesAssumption`). A block is *open*
while it has no end. The invariant `EndsInv` says which blocks are: the one that is being filled, and for
each statement that has been begun the one it will come back to (`Pending`: where an `if` branched from or
its first branch ended, where a `while` will test), all different (`Nested`). Each function of `IRBuilder`
either leaves the open blocks as they are (`Like`) or ends one of them (`Less`), or adds one; an expression
with `&&` or `||` leaves the block it began in ended, ends those of its operands, and takes the block after
it for the current one instead, so the others stay as they were (`CompileReads`, by induction on what `Compile`
has read, with the end of each chain that is being read open meanwhile). Moves, copies of constants and
claims never end a block, however many there are, in any order of the names.

`TypesHold` is `TypeOK` of the same programs, within `Careful`: its invariant does not survive a merge that enters a name into `upper_table` of a scope
that defines it (5 above), or a `let` that shares a register, whatever may be true of `TypeOK` there. The
invariant `TypesInv` says of the builder that every instruction, branch and table entry names a register
or block that exists (`Typed`); of the scopes that their tables do (`Scoped`), and that a name some scope has
assigned is one a scope further out defines, in another register, but for what is captured (`Tied`), which
the base scope defines (`Based`); and of each statement that is being parsed that its scope is where
the code expects it and that the names its first branch assigned are defined further out (`Opened`). `Tied`
is why the lookups of a merge find a register at all. An expression allocates registers and may capture names
that no scope has (`Met`); what it has on its stack are registers that exist (by the same induction over
`Compile`, where `WellFormed` says that no operator finds the stack too short).

Only model-checked:

- `MeansAsWritten`, `SharedConstantsHold` and `KnownNumbersHold` of `CompiledFunction`: that the tables of constants and of known numbers, and the
  function as a whole, say what the program does when it is run is an induction over the paths of runs
  through the blocks, against a meaning of programs, which these proofs do not attempt;
- the two liveness properties of `HashTable` (TLAPS has no ENABLED here).

`LinkedList` has no run of its own: there is nothing about it that TLC could show and the proofs do not.

## Plan

1. *(done)* `HashMap`, `HashTable`, proofs.
2. *(done)* `ObjectHeap`, `YoungGen`; proofs about `YoungGen`.
3. *(done)* `Interner`, `StringPool`, proofs.
4. *(done)* `Machine`, `Callbacks`: scripts that C functions run, refining a machine without addresses.
5. *(done)* `IRLinker`, proofs.
6. *(done)* `IRBuilder`, `Parser` with captures, composed in `CompiledFunction`. Next: fields and calls.
7. *(done)* `LinkedList`, proofs.
8. *(done)* Proofs of all invariants of `ObjectHeap` and `Callbacks`.
9. *(done)* Proof that `ObjectHeap` and `Callbacks` implement `Machine`.
10. *(done)* Proof that the parser ends each block once, and that what it emits names what exists.
11. *(done)* Objects past the end of a block, in `ObjectHeap` and in the proofs about it.

## Not modelled

The lexer, syntax errors and the printing of instructions (pure functions on text); compiling object
and array literals, fields, calls and `halt`; branches in `ObjectHeap`
(its program is any sequence of instructions, which subsumes them); the tag bits of values; the
library functions that neither allocate nor run a script, and `concat`; what the other light functions
return; the recursion depth of `young_gen_gc_mark`, which is the C stack's; `free` at exit.

Hazards that no property covers:

- `hash_normalize_capacity(0)` (`hash.h:103`), which a closure without captures reaches, is undefined in C.
- `foreach` and others take the forwarding address in a REDIRECT header for the number of fields
  (`libs.c:61`): a fault of one line, without any history.
- An external array keeps all that C code made until its scene is left (`cvm.c:396`). `Machine` does not
  end for lack of memory, and `ObjectHeap` may at any allocation.
- The number of fields is taken for the length of an array with holes (`libs.c:23`). `Machine` counts as
  the code does.
- One page is lost per expansion of the string pool (`string_pool.c:106`). Nothing can observe it;
  `NodesStayInOneList` says which nodes such a move loses.
- Texts of 256 bytes and more (`string_pool.c:181`): lengths are inputs of the model.
- A folded division by 0 stops the compiler (`ir_builder.c:328`): there is no state after it to check.

## Running

    tlc -workers 2 -config MCHashTable_table.cfg MCHashTable.tla
    tlapm HashTableProofs.tla
    tlapm IRLinkerProofs.tla
    tlapm YoungGenProofs.tla
    tlapm LinkedListProofs.tla
    tlapm StringPoolProofs.tla
    tlapm CallbacksProofs.tla
    tlapm MachineProofs.tla
    tlapm CompiledFunctionProofs.tla
    tlc -workers 2 -config MCCallbacks_programs.cfg MCCallbacks.tla
