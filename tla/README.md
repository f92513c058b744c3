# A TLA+ development of Canon-C

Canon-C is a header-only C99 library of allocators, containers and value types that
makes ownership, bounds and lifetimes explicit.  It starts no threads and its only global
state is a contract handler.  What is hard in it is sequential state that many calls share
(an arena under several pools, a table under displacements), arithmetic at the ends of
`usize`, and tokens that stand in for history.  Threads matter in one place, the generator
of lifetime tokens.

## 1. Inventory

| part | source | state | operations | correct when |
|---|---|---|---|---|
| lifetime tokens | `core/primitives/lifetime.h`, `semantics/borrow.h` | one `counter_` per translation unit; `lt = (id, open)` in each owner; `(source_lt, captured_id)` in each borrow | draw, open, restamp, close, swap, capture, inherit, check | a borrow of an opened owner is accepted exactly while the storage it points to is in the incarnation that was borrowed |
| arena | `core/arena.h` | buffer, capacity, offset | alloc (aligned, zeroed, try), mark, reset_to, reset, reset_secure | blocks aligned, inside the buffer and disjoint; rollback separates; secure reset wipes |
| pool | `core/pool.h` | an arena region `[base_mark, end_mark)`, `used` | init, alloc (zeroed, try), get, reset, reset_secure | slots disjoint; a reset reserves the same region again |
| region | `core/region.h` | id, open, arena, parent, up to 8 hooks | begin, end, register, attach_arena, set_parent, asserts | hooks run once each, last first; the arena is reset after them |
| hashmap | `data/hashmap/` | slots with cached hash and probe length, `len` | insert, get, remove, clear, iterate | behaves as a map; Robin Hood order |
| deque, queue | `data/deque/`, `data/queue.h` | ring buffer, `head`, `tail`, `size` | push, pop and peek at both ends, clear, swap | behaves as a sequence |
| vec, array, stack, priority_queue | `data/` | a buffer and `len` | push, pop, insert, remove, ... | behaves as a sequence (a bag with a minimum) |
| dynvec, smallvec, dynstring | `data/convenience/` | heap or inline buffer | the same, with growth | a failed growth changes nothing |
| bitset, stringbuf, range | `data/` | words; characters; bounds | bit and set operations; append; next, skip | padding bits stay 0; a call that does not fit changes nothing; a range yields its values and no others |
| borrow, option, result, error, diag | `semantics/` | tagged values, frames | constructors and accessors | |
| algorithms | `algo/` | none | sort, search, unique, filter, ... | agree with their definitions |
| checked, bits, ptr, compare, memory, slice | `core/` | none | arithmetic, alignment, copying | agree with unbounded arithmetic where they do not report failure |
| util | `util/` | an intern table; streams | interning, parsing, splitting, logging, files | pointers to interned texts are equal exactly for equal texts |

How they interact: a pool calls its arena (`arena_alloc`, `arena_reset_to`) and several pools
share one; a region resets its arena at `region_end`; every owner draws tokens from
`canon_lifetime_next_id_`; every borrow reads its owner's `lt` through a pointer; containers
take their buffers from callers and never allocate, except the convenience ones.

What is hard: ids compared where histories are meant (swap, reopen, restamp from another
translation unit, an unlocked counter); offsets, padding and sizes whose sum wraps; a reset
that must land where the first reservation did; operations that write before they fail;
pointers that outlive the slots they point to; a container extended by a part of itself while
its buffer moves; an element that another branch's removal displaced.  `PROJECT.json` lists each hazard at its line.

## 2. Modules

| module | what it models |
|---|---|
| `Lifetime` | the counters, tokens, stamping helpers and borrow check, with threads inside the stamping helpers |
| `MCLifetime`, `MCLifetimeSafe` | instances: the hardware's xor and chosen addresses; the second also evaluates the hypotheses of the theorem |
| `LifetimeProofs` | the check is exact |
| `ArenaOps` | wrapping sums and products, padding, the fit test and placement, shared by `Arena` and `Pool` |
| `Allocator` | abstract: a set of held blocks, each aligned, inside the buffer, apart from the others |
| `Arena` | the arena, the bytes that may be other than zero, and one borrow |
| `ArenaOpsProofs` | an accepted request does not wrap, padding aligns, slots follow one another |
| `ArenaProofs` | the arena's invariants and that it implements `Allocator` |
| `Pool` | pools and plain blocks on one arena; implements `Allocator` too |
| `PoolProofs` | a reset lands where the pool was, zeroed and wiped bytes are zero, and pools implement `Allocator` |
| `MapSpec` | abstract: a map with one call in progress, which takes effect once |
| `HashMap` | the table, one loop iteration a step; implements `MapSpec` |
| `MCHashMap` | the symmetry of keys |
| `HashMapProofs` | the Robin Hood order, the length, borrows, iteration, and that the table implements `MapSpec` |
| `DequeSpec` | abstract: bounded sequences pushed and popped at both ends |
| `Deque` | the ring buffer and every answer of its calls; implements `DequeSpec` |
| `PQSpec` | abstract: a bag that gives back a least element first |
| `PriorityQueue` | the binary heap, one iteration of a sift loop a step; implements `PQSpec` |
| `VecSpec` | abstract: a sequence with room for so many elements; one operator per call, with its arguments |
| `Vec` | the vector of fixed capacity; implements `VecSpec` |
| `DynVec` | the vector that grows by `realloc`, with a borrow of its buffer; implements `VecSpec` |
| `SmallVec` | the vector that spills from its struct once; implements `VecSpec` |
| `DynString` | the growing string, grown in place or detached; implements `VecSpec` over characters |
| `StringBuf` | the string of fixed capacity; implements `VecSpec` over characters |
| `BitsetSpec` | abstract: sets of indices; one operator per call and query |
| `Bitset` | words, padding and searches; implements `BitsetSpec` |
| `MCBitset` | two bitsets with the same number of words |
| `Range` | ranges in two's complement against the values they stand for |
| `Checked` | checked arithmetic against unbounded arithmetic |
| `SortSearch` | insertion and merge sort with the recursion on a stack, and the binary searches |
| `Intern` | the interning pool |
| `StructureProofs` | the deque, the heap and the interning pool, their invariants and refinements; checked arithmetic, sort and search, ranges and bitsets, in the composition below |
| `Structures` | the deque and the other containers and functions from `PriorityQueue` to `Intern`, side by side |
| `MCStructures` | a small instance of it |
| `ContainerProofs` | vectors and strings, in the composition above |
| `Region` | regions, their hooks and arenas, with the calls of `region_end` as a stack |
| `RegionProofs` | hooks are called once and in reverse, and arenas outlive them |

### Lifetime

`counter[u]` is the `counter_` of translation unit `u`: the counter is a static local of a
`static inline` function, so each unit has its own.  A stamping helper is two or three steps of a
thread: draw the counter (`FetchAdd`, or `LoadCounter` then `StoreCounter` in a unit of
`PlainTUs`, compiled at level 4 of the ladder, where the increment is a plain C object and may be
torn), then write `lt` (`Stamp`).  The library leaves each owner to one thread at a time
(`docs/thread-safety.md`), which is the guard `Busy`.  `births` is a ghost history of draws, and
`inc` in an owner and a borrow the incarnation it belongs to; `Stale` is about `inc`, `Validates`
about ids.  An init that refuses returns a struct of zeroes (`OpenRefused`); a borrow of one, or of
a struct only declared, captures the static id and is accepted whatever becomes of the owner.
`Tracked` tells it from the others and section 5 quotes the comments that say otherwise.  The addresses an owner is stamped at are a set, since an owner built in one frame and
swapped into another carries a token made from the first one's address.  The counter is capped by
`MaxDraws`; a counter that wraps 2^64 is out of scope.

### Arena and Pool

Offsets and sizes live in `0 .. UsizeMax`, and sums and products wrap.  `Base` is the buffer's address, because
padding depends on it; it is odd in the instances so that the buffer is misaligned.  `live` is
the set of blocks in callers' hands, `marks` the marks they hold with the blocks each protects,
`dirty` the bytes that may be other than zero, `abandoned` the bytes given up without zeroing.
The callers modelled follow the headers: they use a mark only while it is not ahead of the
offset, and no block after the rollback that gave it up.  `padding_accum` and the debug counters
are read by no operation and are left out.

In `Pool` a pool is `live` while its region is its own.  `PoolReset` contains the rollback and
the reservation that follows it; what lies above the pool goes with it, as the header says.
`InitPoolFails` is the failure after the writes; callers do not go on using a pool whose
`pool_init` returned false.

### HashMap

An operation runs from `Call` to `Return` and each loop iteration is a step.  The caller's choice,
`given`, is made in `Init`: a capacity of `Caps` and any function from keys to `HashValues`.
`& (capacity - 1)` is `%` because `hashmap_init` accepts powers of two only.  The refinement says
when an operation takes effect: an insert with its first write (the entry it displaced then counts
through the local it sits in), a removal when it finds its key (the slot being shifted into does
not count).  `MapSpec` refuses an insert at its `limit`, which is any number in its `Init` and the
table's own limit under the refinement.  The return after the insert loop is not an action: were
the loop to run out, the run would end in a deadlock.  Iteration is by callers that do not mutate
meanwhile; `iter` remembers the keys returned and whether one came `again`, so that complete means each key once.

### Refinement, call by call

An abstract `Next` allows whatever some call may do, so that refining it does not say which call did
it: a front call that behaves as the matching back call, or a search that answers another one's
question, would be a step of it too.  The deque, the vectors, the strings and the bitsets therefore state a
second conjunct in `Implements`, the box action `Calls`: a step that is a call of the code is the
abstract call of that name with the same arguments (`PushFront(d, v) => Abstract!PushFront(d, v)`, and so
for every call of the module).  `Calls` is about steps that change something, `vars' # vars`: two different calls may
both leave everything as it is, answer included, and no observer tells them apart.

### Deque

`dq[d]` is the struct and `mem[d]` the buffer its caller provided, so that a swap moves the
pointer and not the elements.  A buffer arrives with anything in it.  The result, `try_` and
unchecked forms of a push differ in what they return, and `ret` is the answer of the most
informative one.  `queue.h` defines a queue as a deque under another name, each of whose
operations calls one of the deque's.  An empty deque has no buffer and becomes one with a buffer
only by a swap.

### PriorityQueue

`heap` is the buffer, `len` the length and `step` the loop in progress, if any, which is at `idx`:
a call writes and starts its loop, each iteration is a step, and the next call begins when the
loop has ended.  `base` is where `remove_at` goes on sifting down after it sifted up, and
`heapify`'s own index.  An element's rank is what the comparator sees; two elements may share one.
The abstract queue takes effect with the call, and a loop only changes the order in the buffer.
`clear` is `heapify` of nothing.

### Vectors and strings

`VecSpec` is the one promise behind five modules.  `room` says how many elements fit without more
storage (`cap - 1` in the strings, -1 without a block).  `Adds` refuses only if `Len(items) + Len(s) > room`, and then
changes nothing; what fits is done and leaves the room as it is.  `Reserve(n)`, `Shrink`, `Fill`, `Insert`,
`Remove`, `Truncate` and `Open` say as exactly when they answer what.  Two calls are loose.  `Swap` is for any other
contents, as the other operand is a value the caller chose.  `FormatFails` may leave more room than there was: a `dynstring_append_fmt`
whose second `vsnprintf` fails has by then replaced the block (section 5).  The text is what it was in either string.

A call names why it failed: "full" is a buffer without room for more, "refused" an allocator
that gave none, and the abstract specification tells the two apart.

Memory is `Junk` where nobody wrote and where a block was given back, so that a read from a block
that `realloc` moved shows as a wrong element.  `DynVec` and `DynString` let the allocator place a
block at any address that the instance has, the one it is at included; growth in place is the case
in which the code does not restamp.  `loan` is a borrow's two truths: whether the id it captured is
still the owner's, and whether the storage it points at is still the buffer.  Extending a container
by a part of itself is an action of its own in `DynVec`, `SmallVec` and the strings, where the code keeps an offset, grows
detached or moves for it; `vec_append_array` and `vec_extend` forbid it (`vec_impl.h:1346-1349`, `1423-1426`), so `Vec` has none.
`StringBuf` is given any view into its buffer that was once written, also one behind the end of a text that was cut: its
bytes may be the terminator of an earlier text, so the elements of its sequence are characters and `Nul` (`TextBytes` in the
proofs), and source and destination may overlap, which is what `mem_move` is there for (`stringbuf.h:580-582`).  `SmallVec` counts the blocks it has from the heap; its inline buffer
keeps its contents after a spill, and `spill` copies the length it has.  `DynString` and
`StringBuf` carry the terminator as the character `Nul`, and `FormatFails` is the `vsnprintf` that
reports an error after it wrote.

### Bitset, Range, Checked

A word is the set of positions of its ones, all `Width` of them, so that a complement reaches past
the capacity as it does in C.  `ret` is the number a search or count returned.  The two operands of and, or and xor may have any capacities; `OrPairs`
are the pairs that `bitset_or` is called with, kept apart because it is the one call that leaves the last word dirty.  `Range` and
`Checked` compute in the widths of the code, with two's complement made explicit, and their
properties compare with sets of integers and with sums and products that do not wrap.
Of the fixed-width forms in `checked.h`, which are not modelled, those of 64 bits repeat the guards of `usize` and
`isize`; those of 8, 16 and 32 bits compute in a wider type and compare (`checked.h:258-260`, `282-284`, `306-308`).

### SortSearch, Intern

`calls` are the calls of the sort and of the searches that have not returned, innermost first.  An
element carries the index it came from, which the comparison does not see, so that stability is a
statement about the final array.  The searches run when the sort has ended.  In `Intern` the hash
of each text is any slot (the table stores no hash, so only where a probe starts matters), and `handed` remembers the first pointer a text was given.

### Structures

None of the containers and functions it instantiates shares state with another.  One instance with
a `part` chosen in `Init` therefore checks each of them alone, in one run, with the variables of
the others at rest (`MCStructures` gives the constants); its properties are the modules' own, joined where two of them say the same
thing of different containers.

### Region

`ends` is the stack of the calls of `region_end` in progress: a hook runs inside one and may
call the library, another `region_end` included.  A step is one call by the program (or by the
hook on top), or one step of the loop on top.  `owed` and `late` are ghosts: the hooks registered
before `region_end` began and those registered since.  Hooks keep the rule of `region.h:417-427`:
they do not end or begin the region that runs them.  That a caller pairs `region_begin` with
`region_end` is the caller's part and a guard of `Begin`.  An arena is its `fill`, since a region
only resets it.  A running hook may register itself again: it is no longer pending.

## 3. Runs

| run | instance | shows |
|---|---|---|
| `Lifetime_exact` | 2 threads, 2 swappable vecs, 1 arena, 2 borrows, 3 draws, one atomic and one plain unit, inits that refuse | the check is exact |
| `Lifetime_shared_tu` | an arena stamped from two units | **violation** of "uniqueness across consecutive restamps" |
| `Arena_blocks` | 7-byte buffer, 4-bit usize, sizes 1, 3 and 15, alignments 2 and 4, 2 marks | all invariants and the refinement |
| `Arena_empty_secure` | tokens on | **violation** of "arena_reset_secure re-stamps" on an empty arena |
| `Pool_shared` | 2 pools and plain blocks, 5-bit usize | resets land home, zeroed slots, secure reset, refinement |
| `Pool_failed_init` | same | **violation** of "On failure: pool is untouched" |
| `Pool_use_after_reset` | same | **violation** of "detects use-after-reset" |
| `HashMap_caps` | 4 keys, 2 values, capacities 2 and 4, all 256 hash functions on 4 values, one of them 0 | map behaviour, order, length, borrows, iteration, also in a table that fills up |
| `Structures` | deques on rings of 3 and 1; a heap of capacity 6 over 2 ranks; vectors, strings, bitsets, ranges, arithmetic, sorting, interning | each container serves its abstract structure, each function agrees with its definition |
| `Bitset_or` | capacities 4 and 5, words of 3 bits | **violation** of "Bits beyond capacity are always kept zero" |
| `Region_nested` | 2 regions, 2 arenas, 3 hooks, 2 slots | hooks in reverse order, the arena reset after them, the saved arena emptied, every `region_end` returns |
| `Region_late_hook` | 1 region, 3 hooks, 2 slots | **violation** of "called LIFO on region_end()" for a hook registered by a hook |

Why the bounds suffice.  Three draws are enough for two incarnations of one owner and one of
another, with a swap between them: every pair of births the check can confuse.  The arena's 7
bytes hold three blocks with padding between them, size 15 makes `offset + pad + size` pass
`UsizeMax`, and both alignments pad differently at the odd base.  Four slots at the limit of three
entries give clusters that wrap, displacement chains of two and shifts of two; two slots are the
capacity at which the limit leaves no vacant slot.  A ring of three wraps in both directions with
room between head and tail, and in one of one head and tail are always the same.  Six slots are the
least in which a removal can move an element to another branch and have it rise, and two ranks with
repetition are enough to order wrongly.  `DynVec` has two addresses and a usize of 3: every
doubling beyond 2 wraps, and a block can move and come back.  `SmallVec`
has one slot inline, so the second element spills and a third and fourth find the spilled buffer full.  `Vec`
has capacity 0 and 3.  `DynString` starts at 2 bytes of 5, `StringBuf` has 2 and 5: an append
fits, fills up or is refused, and text cut from five bytes leaves a view to append.  The bitsets have 3 and 5 bits in words of 2: both with
padding, in different numbers of words, and the word in which the shorter one ends is full in the longer, so that xor has
padding to clear; the pair the violation is about, the longer or-ed into the shorter, is not in `OrPairs` and is left to `Bitset_or`.  `Range` takes every start, end and step of
`-4 .. 3`, and `Checked` every pair of operands of `-8 .. 7` and of `0 .. 15`.  Arrays of up to five
elements with a cut-off of 3 (16 in the code) recurse to both kinds of leaf, with and without a
temporary buffer.  Four texts, three slots and five bytes let the table and the arena each fill
first, with any two texts colliding.  Two regions are enough to end one inside a hook of the other,
two slots to have a hook pending under one that runs, and three hooks to register one more from
within (`REGION_MAX_CLEANUP` is 8 by default and no code depends on the number).  `MaxFill` is the
model's bound on allocations.  Symmetry is over keys, which no
action tells apart except through the hash function, and that is quantified over all functions.

Fairness is assumed for what the processor does alone.  `Region`'s specification has weak fairness of the loop
steps of `region_end`, and of the return of a hook strong fairness at each depth of
nesting: a hook is a C function that ends, but between its steps it may end another region,
whose hooks run at the depth above, so its return is enabled again and again rather than
always.  Nothing obliges a caller or a hook to call anything.  `EndReturns` then says that every
`region_end` comes to its end.  `StructuresSpec` has weak fairness of the heap's sift loops, for
`CallsReturn`.  The other modules wait for nothing: their loops end because their counters are
bounded, which is the absence of deadlock, checked in every run.

Every property of a passing run has a mutant in its module (a definition whose name
extends another's by an underscore), a plausible bug that TLC finds with it.

## 4. Proofs

`LifetimeProofs` proves `Ladder /\ OneCounter /\ TokensApart => (Spec => []CheckIsExact)`.
The hypotheses are what the library asks of its users: increments are atomic or serialised; the
owners that can exchange their structs are stamped by one unit; different counter values mix to
different tokens over the addresses of such a family.  The third is about the xor and an address
layout; `MCLifetimeSafe` evaluates all three on the real xor.  What is proved is about borrows of owners that were
opened: one captured from a zero struct is accepted always, and `CheckIsExact` says that too.  It fails when the counter
reaches an address: at address 8 the counter values 8 and 9 both give token 1, because a result of
0 is replaced by 1.  `CheckIsExact` is not inductive, since
it says nothing of where ids come from.  The invariant `IInv` adds that counters are ahead of all
births drawn from them, that births of one unit have distinct counter values, that a
thread between load and store is alone, and that every id in an owner or a borrow is the token of
a recorded birth of its own family.

`ArenaProofs` proves `TypeOK`, `MarkSeparates`, `ZeroBlocksClean`, `NoResidue`, `BorrowsSurviveRollback` and `Implements`
for every buffer, capacity, width and set of sizes and alignments.  The inductive invariant adds
that blocks lie below the offset, that they are apart and that they are aligned; the lemmas
of `ArenaOpsProofs` say that an accepted request does not wrap and that padding aligns.

`PoolProofs` proves `TypeOK`, `ResetLandsHome`, `ZeroSlotsClean`, `SecureResetWipes` and `Implements` for any
number of pools on one arena.  `ResetLandsHome` is about one pool and not inductive: a pool lower in the arena may
roll back and reserve again.  The invariant that carries it is the layout: regions of live pools are
apart, aligned, below the offset and as long as their slots, and plain blocks are apart from them.  A rollback to one
region then keeps those below it whole, and as a region starts aligned, reserving it again needs no padding.

`HashMapProofs` proves all that the run checks of the table: `RobinHood`, `LenIsCount`, `BorrowFindsKey`,
`IterationComplete` and the refinement `HashMapImplements`, and that the return after insert's loop, which would drop the
entry in flight, is never reached (`HashMapInsertNeverDrops`).  It does so for every capacity, key, hash function and sequence of
calls; of capacities it assumes only that those above 2 are multiples of 4, which powers of two are, so that 75% leaves a
slot vacant.  `RobinHood` holds in the middle of an operation only with exceptions, and the inductive invariant says
which.  An insert in flight has walked a window of occupied slots from its home, none holding its key and none poorer than
it was there; writing over a slot swaps the entry in flight for one that fits where the walk goes on.  A removal in progress
has one slot whose entry counts twice or not at all, and everything from the next slot on is one step too far from home until
it is shifted.  `get` finds a key because no key sits behind a slot whose probe length is below the key's own distance,
which is what the order gives and `SeekAbsent` relies on.  That the loops end is an argument about the vacant
slot: it is at some distance ahead, and each step comes one nearer.

`StructureProofs` proves `QueueTypeOK`, `HeapOrdered`, the refinement `QueueServes` and that what `pop` and `peek` answer ranks
below or with everything held (`QueueAnswersLeast`), for every capacity and every ranking.  `priority_queue.h:465-466` calls the
ordering the part its own contracts cannot specify.  The
inductive invariant says which element may be out of order while a loop runs, and that its parent
and its children agree all the same, which is what a swap with either relies on.  The
root is least by the least counterexample: of the elements that rank below it, the one with the
smallest index would have a parent that ranks below it too.  For the refinement the buffer is read as a bag, which counts the
slots of each element: a swap of two slots leaves it as it is, and a removal takes one slot from one count.

It proves the type invariant of the deque, `RingAgrees` and the refinement `DequeImplements`, for any number of
deques of any capacities.  `RingAgrees` is inductive with the type invariant; the refinement needs it for the
index arithmetic (an offset from `head` that wraps is injective on the ring) and for
buffers that no two deques share, since a push into one must leave the other's sequence alone.  Each action of the ring is
shown to be the abstract call of its name, from which both conjuncts of `Implements` follow.
And it proves `InternedOnce` for every set of texts, hash, table and arena.  The invariant
that carries it is that between a text's first slot and the one it sits in every slot is taken by another text:
no later insertion opens a gap, as nothing is ever removed, so a search finds what was put there.

The rest is about `StructuresSpec`, each part of which takes its own steps only: vectors and strings in
`ContainerProofs`, the others in `StructureProofs`.

- Vectors and strings (`VectorsImplement`, `StringsImplement`, `StringsEndInNul`, `SmallVecOneBlock`, `BorrowsAreTold`,
  `PartsTyped`): for every capacity, width and set of addresses, and an allocator that may refuse, stay or move at
  will.  What a call does to the buffer it does to the sequence: lemmas about the first `len` bytes of a buffer (`First`, `Splice`,
  `Written`) say so once, and each operation cites them.  A lemma for each call says that it is the abstract call of its
  name; from these follow the steps of the abstract specification and `Calls`.  The invariant says that those bytes are elements and never `Junk`,
  which is where a read from a block that moved would show, and that a loan's two truths agree (`Tells`).
- Checked arithmetic (`ChecksAreExact`): for every `IsizeMax`, of which it is not even assumed that it is a power of two less 1.
  A quotient compared before the multiplication decides whether the product fits; for the signed product, in each of the four
  combinations of signs.
- Ranges (`RangesCount`): what is left is an arithmetic progression, and a call moves its start `n` terms on.  The term at
  place `k` is before the end exactly if `k` is less than the quotient `range_len` computes, terms at different places
  differ, and so there are as many values as places.  The span over both signs and the offset of a skip beyond `ISIZE_MAX`
  are summed in two parts that each stay in their width.
- Bitsets (`BitsetsAreSets`): an index is a word and a position, in order, for every width.  The invariant is the padding: no
  word has a one beyond the capacity, which is why complement and xor clear it, and count and the
  searches need not.  The theorem has a hypothesis, `NoOverhang`, about the pairs `bitset_or` is called with and no other call: its
  second operand is not longer than a first one whose last word is not full.  Without it `bitset_or` breaks the invariant,
  which is what `Bitset_or` shows; and, xor and the queries are proved for operands of any sizes.
- Sort and search (`SortIsStable`, `SearchesFindBounds`): for every array, cut-off and set of keys.  The invariant is about the stack of
  calls: ranges nested in one another and worked on from left to right, nothing moved yet behind the innermost, the left half
  of a merge that waits for its right one in order, and a range that is in order holding what came there.  In insertion sort the
  sinking element is the only one out of order; in a merge the output is in order, before all that either half still has,
  and the elements of the left half were in front of those of the right.  A binary search keeps everything below
  `low` on one side of the key and everything from `high` on the other.

`RegionProofs` proves `TypeOK`, `HooksInReverse`, `ArenaOutlivesHooks` and `EndEmptiesArena`, for any number of
regions, arenas and hooks and any depth of `region_end` inside hooks.  The invariant says that what a
region owes is its table below the number the loop counts down from: a hook that registers writes above that
number, as the count never falls while the region is ending.  It also says that no two calls of `region_end`
are for the same region, so a frame's saved arena is the one its region had.

Only model-checked: liveness (`EndReturns`, `CallsReturn`), which is out of the prover's reach.  Every other property of a
passing run is stated by a theorem.

## 5. Divergences

Six runs end in a violation; each quotes the line it contradicts under "findings".  They are
disagreements of a comment or a document with the code: a failed `pool_init` leaves its writes
behind; `pool_get` compares with the pool's own end mark and cannot see that its arena was
reset; `arena_reset_secure` of an arena that was rolled back to 0 does not restamp; an owner
restamped from two translation units may draw the same token twice; a hook registered by a
running hook on the region being ended is accepted and then dropped; and a union with a longer bitset of as many
words sets bits beyond the capacity.  Five more were seen and have
no run of their own.  A borrow of the zeroes that a refused `vec_init` returns has the static id, which
`region.h:329` accepts at once, where `vec_impl.h:293-294` says the struct "correctly trips any borrow" and
`stringbuf.h:441-445` the same of its own.  A `dynstring_append_fmt` that fails as it writes has replaced the block, the capacity and the
token (`dynstring.h:663-673`), where `dynstring.h:637` says "On false: s is unchanged".  Then: insert's limit is the whole capacity for capacities 1 and 2, where
`hashmap_impl.h:36` says 75%; and live owners at near addresses may hold equal tokens
(64 and 72 with counter values that differ in the same bit), where `docs/thread-safety.md:177`
rests distinctness on the address alone.  This is harmless to the check, which compares a
borrow with its own owner only.  And `intern_pool_init` ignores the answer for the empty string
(`intern.h:218`), so a pool made on an arena without a byte to spare reports success without it.

## 6. Not modelled, and the plan

Left out, with the reason:

- `core/slice.h`, `semantics/option`, `result`, `compare.h`: one expression each; a model would restate it.
- `core/primitives/bits.h`: population counts and scans by masks and multiplications; `Bitset` takes them
  by what they compute, and the masks themselves are about 64-bit constants that do not scale down.
- `algo/` other than sort and search (`filter`, `unique`, `reverse`, `fold`, `map`, `find`): a single loop over a slice.
- `util/str` other than the interning pool: loops over characters; parsing and formats in `util/` likewise.
- `util/file.h`, `log`, `time`, `random`: the operating system's side.
- `semantics/diag`: a chain of frames that stops growing at a limit, which no other part reads.
- `dynstring_to_cstr` and `smallvec_as_vec`: both copy the fields out and give the caller the rest.
- `queue.h`, `stack.h`, `array.h`: the deque and the vector under other names.
- Of the region, the parent pointer, which nothing reads, and the asserts that compare its id, which
  is its address, with one the caller kept.
- The preprocessor's name mangling, and contracts that abort: they are guards here.

The lines a definition maps are the code it stands for; the headers are mostly
documentation and contracts in comments, which nothing maps.

What would come next: the general results behind the hypotheses that are left (live owners whose tokens need not be apart), and models of the string functions that scan and split.
