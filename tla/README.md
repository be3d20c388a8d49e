# A TLA+ model of zopfleech

zopfleech is a compressor for the deflate format, derived from Zopfli, with a
command line tool (`zopgz`) that reads and writes gzip and zlib files. This
directory holds TLA+ modules of its control logic, TLC configurations that
check them on small instances, and theorems about them whose proofs TLAPS
checks for all instances. Paths below are relative to `src/src/` of the
repository; `zopfli/` is left out where it is clear.

    tlc -config SqueezeRuns.cfg MCSqueeze    # any run, see PROJECT.json
    tlapm SqueezeProofs.tla                  # any module named *Proofs

## 1. The system

| Part | State | Operations | Correct when |
|---|---|---|---|
| Command (`zopgz.c`, `zopfli_gz.c`, `zopfli_io.c`) | option globals, one `z_stream_ex`, the files | `parse_args`, `main`'s loop, `process_one`: probe, name the output, remove what is there, convert, remove the input | no data is lost without consent; a stream is released once; operands are what `parse_args` took for operands |
| Decompression (`ungzlib.c`) | input buffer (`buffer_fetch`), zlib's inflate, the name of the header | `ungzlib_parse_header`, `ungzlib_process_member`, `ungzlib_process_all` | writes the content of the whole members and reports what the file is |
| Deflate driver (`deflate.c`) | position of the part, pass (`twiceMode`), kept LZ77 stores, split points | `ZopfliDeflate`, `DeflateSplittingFirst`, `DeflateDynamicBlock` | the blocks are a deflate stream of the input |
| Coding of a block (`deflate.c`) | counts and code lengths, the entries and what replaced them, the output with its bit pointer | `GetDynamicLengths`, `OptimizeHuffmanForRle`, `AddDynamicTree`, `ReplaceBadCodes`, `AddLZ77Block`, `AddBits` | a decoder reads the data; the memory is enough and cleared |
| Block splitting (`blocksplitter.c`) | split points, `done`, the range of `FindMinimum` | `ZopfliBlockSplit`, `ZopfliBlockSplitLZ77`, `FindMinimum`, `AddSorted` | points cut the part into non-empty blocks; a split pays; the search ends |
| Shortest-path search (`squeeze.c`) | costs and lengths per position, the match cache, the finder in the globals `mf` and `right`, the statistics `st` | `GetBestLengths`, `GetBestLengths2`, `ZopfliLZ77Optimal`, `ZopfliLZ77Optimal2` | finder, cache and costs stay in step with the position; the iterations end |
| Match finder (`LzFind.c`) | hash heads, the cyclic buffer of tree nodes | `GetMatches`, `GetMatches2`, `GetMatches3`, `Skip`, `Skip2`, `CopyMF` | reports the nearest match of every length |
| Code lengths (`katajainen.c`) | the sorted leaves, lists of chains, a pool of nodes, the stack of lists to be renewed | `ZopfliLengthLimitedCodeLengths` | optimal lengths within the limit, within the pool |
| Greedy and lazy parsing (`lz77.c`) | two pairs of hash and chain tables, the match held back, the store | `ZopfliLZ77Lazy`, store functions | the store reproduces the input; loads end near its end |
| Tables (`symbols.h`) | none | symbols and extra bits | agree with RFC 1951 |
| Containers (`gzip_container.c`, `zlib_container.c`) | none | header and trailer | their bytes fit around the stream |
| Options (`zopfli_lib.c`, `util.c`) | none | `ZopfliInitOptions` and wrappers | |

How they interact: `zopgz` loads a file and calls a container, which calls
`ZopfliDeflate`. That takes the input part by part; for each part block
splitting chooses where to cut (with a first parse of `lz77.c`), and every piece
is searched by `squeeze.c`, which drives the match finder. The interfaces are
calls, two globals (`mf`, `right`) that hand the match finder from block to
block, one set of statistics (`st`) carried from block to block, and the LZ77
stores that one pass keeps for the next. The program has one thread. What makes
it hard is not interleaving but long sequences: state that is handed on, replayed,
kept or skipped, with fast paths that assume what an earlier call has left.
Outside the library, the command works on files that fail, are cut, or are
named twice. `PROJECT.json` lists these hazards with their lines.

## 2. Modules

### Squeeze: `squeeze.c`, the search of the blocks of one part

One behaviour is the search of all blocks of a part, in the order of
`DeflateSplittingFirst`. `call` is the run in progress: which function (fixed
tree, optimal, ultra, static), its iteration, whether it uses or fills the
cache, and bits 0 and 1 of `x` (take, leave a finder). `BeginSearch` is the
prologue of `GetBestLengths` (create or import the finder), `SkipRepetition` and
`SearchPosition` are the two halves of its loop body, `BeginReplay` and
`ReplayPosition` those of `GetBestLengths2`, `EndRun` the epilogue; `SingleDone`
to `StaticDone` are the decisions of `ZopfliLZ77Optimal`, `ZopfliLZ77Optimal2`
and `DeflateDynamicBlock` after a run.

`BeginOwn`, `OwnPosition` and `EndRun` are the walk of `GetBestLengthsultra2`, which
neither takes nor leaves the finder of the others.

Abstractions: the input is the length of the repetition that starts at each
position; a cost is only set or not (`reach`); the price of a run is any of
`Costs`; which matches a call finds is open, within what its function can return.
`GetBestLengths` does not write the lengths of a match that costs six bits more
than what is there (`squeeze.c:692`): as costs have no values, any match whose end
has a cost may be one of these (`Prunable`), and then its lengths that no nearer
match writes stay as they are (`Offered`). `GetBestLengths2` and
`GetBestLengthsultra2` write all of them. The finder `p` is its position, its end,
the first position it holds and whether some position was entered with a
comparison cut short. The finder of `GetBestLengthsultra2`
(`LZ4HC_InsertAndFindBestMatch3`, `squeeze.c:203-251`), hash chains of its own
that start anew in every run, is not modelled: `OwnPosition` takes any length
within the block for what it finds.

### PathTrace: `TraceBackwards` and `FollowPath` of `squeeze.c`

What a run leaves, a step for each position, becomes the entries of a store. The
steps are packed in numbers as `GetBestLengths` packs them. `WriteChunk` and
`WriteSingle` are the two loops of `TraceBackwards` that copy a step, with and
without a block of `Chunk` entries being sure to fit; `Grow` is the end of its
outer loop and relies on `space` having passed zero (`Decremented`). `FollowPath`
is one turn of the loop that unpacks. The memory of `path` is its length
`allocsize`; allocation never fails. That every position has a step is what
Squeeze shows (`EndReached`): here it is an assumption on the blocks. Its names
are not those of Squeeze (`TraceInit`, `loop`, `block`), so that MCSqueeze and
SqueezeProofs can be about both; `MatchSizes` has the two constants they share.
MCSqueeze lets a trace follow a search, as in the program; what the search found
and what is traced are chosen apart, since a search leaves open which steps are
cheapest.

### LzFind: `LzFind.c`

The binary tree in the cyclic buffer, one action for each way through the body
of the search loop (`Leave`, `Replace`, `Descend`, `DescendRepeated`), shared by
the five functions; the functions' prologues are actions of their own, guarded
by the assumptions their comments state. The hash is a constant operator; the
runs use one with collisions. Squeeze models the finder as a position; LzFind
is what it stands for.

### BlockSplit: `blocksplitter.c`; Partition

A part is a sequence of LZ77 entries with their offsets. `Round` is a round of
`FindMinimum` with all its samples, `Last` its end, `Decide` the comparison and
`AddSorted`, `NextBlock` is `FindLargestSplittableBlock`, `ConvertEntry` one step
of the conversion from entries to offsets. A cost is drawn from `Costs` when
`SplitCost` is first asked for it, and remembered in `known`, so that the model
knows which costs the code has seen. `Partition` says what split points are, for
this module and for Deflate.

### Deflate and DeflateStream: `deflate.c`

`DeflateStream` is the promise: the blocks written cover the input once and in
order, the final bit is on the last block, if asked for, and the call returns when
all is written. `Deflate` is the code: the parts of `ZopfliDeflate`, the passes of
option `twice` with the stores they keep, take, join and free, the pieces of
`DeflateSplittingFirst`, and for each piece what `DeflateDynamicBlock` encodes.
Its split points are any that are proper for the store (what BlockSplit shows). Of
the statistics `st` it keeps which block has left them: a block of at most
`skipdynamic` bytes leaves none, although it clears the flag `costmodelnotinited`
like any other (`Statistics`). `Deflate` implements `DeflateStream`
(`WritesStream`, an INSTANCE with the blocks out mapped to the stream).

### Trees, Block and Inflate: `deflate.c`, the bits of a block; the containers

`Trees` has the pure part: counts of the symbols, the smoothing of counts, the
lengths, how these are written in runs and what the tree costs. `Block` is the
rest of `AddLZ77Block`: the first prediction (`Fixed`, `Dynamic`), the turns that
replace dear matches and measure again (`Replace`, `Remeasure`), the memory for
what was predicted (`Alloc`), the header, the entries, the end, one action for
each of them, for several blocks after one another between the header and the
trailer of a container. The output is the memory itself: cells that `realloc` has
not cleared are told from zeros, and bits are or-ed in. `Inflate` is the
reference: it reads the bits by RFC 1951 and shares no definition with the writing
side. Entries are given by the jobs; which entries a search chooses does not
matter here. CodeLengths stands for `katajainen.c`, an abstraction that the run
`katajainen` justifies.

### CodeLengths and Katajainen: `katajainen.c`

`CodeLengths` says what optimal limited code lengths are, and has package-merge as
the reference. `Katajainen` is the code, one action for a turn of each of its
loops: the count of the symbols (`Count`), the sort with its three methods
(`Insert` is a turn of insertion; `Build`, `Sink`, `Extract` are those of the heap;
`Exchange` and `EndPartition` those of the partition) on its stack of segments, and
the merge, where a turn of the loop over `stackspace` makes a leaf (`NewLeaf`) or a
package (`NewPackage`, `LowestPackage`), the recursion of the algorithm's paper.
The pool of nodes is a count; a node holds what it points to, as nodes do not
change when they are pointed to.

### LazyParse and Symbols: `lz77.c`, `symbols.h`

`LazyParse` is `ZopfliLZ77Lazy` with both finders, an action for each turn of each
loop. `Insert` to `Searched` are the finder for four bytes and more, `TryThree` to
`NotThree` the one for three, `HoldBack` to `Greedy` the decision to keep, defer
or drop the match of the byte before. `Stray` is what an uninitialised pointer may
make of a distance. `LoadsWord` says how far the loads of `GetMatch` reach, which
compares words of eight bytes and goes back (`EndsAgree`). Entries are kept as
`lz77.c` stores them, with the symbol of the distance and not the distance.
`Symbols` has the symbols and extra bits as the code computes them.

### Ungzlib: `ungzlib.c`

A file is a sequence of bytes with roles (magic, flags, length of the extra
field, end of the name, content, last byte of a member, garbage). The buffer is
what was read (`got`), the position (`rd`) and where in the buffer that is
(`off`). Every call of `buffer_fetch` is part of the action that makes it
(`Fetch`: enough there, or move and read). inflate is external: it takes some of
the bytes it is given, tells the end of a member, and rejects garbage.

### Zopgz and ZopgzArgs: `zopgz.c`

`ZopgzArgs` has the two loops over the arguments, in `parse_args` and in `main`,
each with its own idea of which argument is the value of an option. `Zopgz` takes
its steps and adds what `main` calls for each operand: each call of `process_one`
is an action, in the order of the code, with its failure as a disjunct. A file
holds a text and the layers around it (compressed, with other data behind, cut
short). `tty` says that the user agrees when asked, `closefails` and `nomemory`
that closing the output or allocating it may fail. Three history variables say
what became of data: `fault` is what went wrong with the output in hand without an
effect on `ret`, `over` what was replaced with the user's consent, and `lost` what
was removed although nothing complete was made of it. They are for the properties;
no action looks at them except to keep them.

### MC modules

`MC<M>` extends `<M>` with its jobs: the inputs and options of the runs, as sets
that the .cfg picks by name.

Definitions marked `slip` are deliberate mistakes. They are used by no
specification, only to see that a property notices when the definition behind
them is replaced (`mutants` in `PROJECT.json`).

## 3. Runs

Runs that pass:

| Run | Bounds | Shows |
|---|---|---|
| `squeeze` | Search: `MaxMatch` 4, `MinMatch` 2 (two apart, so that `squeeze.c:677` is reached), `Window` 4. One iteration: sizes 5 and 8 with every pattern of repetitions, size 11 with one repetition broken at most once, up to three blocks cut anywhere, with and without the fixed tree, and size 14 with one repetition in one block, whose skip writes more than two matches of `MaxMatch` ahead; every choice of pruned matches. Two or three iterations, with and without ultra: sizes 5 and 8, up to two blocks. Trace, after a search: `Chunk` 4, `Spare` 2; blocks of 8 bytes with every choice of a step for each position, blocks of 1 to 60 bytes with one length as far as it fits | finder in step (`InStep`), handed over in place, whole and never lost (`HandOver`), fast paths called as they assume (`FastPathPromise`), end of the block reached (`EndReached`), cache replayed in step (`ReplayInStep`), statistics written when the flag says so, and exactly then in the cases named below (`StSeeded`), the iterations end (`Terminates`); nothing is written outside the memory or the block (`InBuffer`), the entries are the path in order (`Reproduces`), the trace ends (`TraceEnds`) |
| `lzfind` | `Window` 8, `MaxMatch` 5; all inputs of ten bytes of two kinds, and repetitions broken twice of up to 21 bytes; every order of calls | exactly the nearest matches are reported (`ReportsNearest`), `GetMatches3` meets its match (`KnownAhead`), and links go back (`GoesBack`), which ends every search |
| `split` | three samples: stores of 3, 5, 9, 12 entries; nine samples: 3, 12, 15 entries, with and without the final scan; costs from two values | split points are proper (`ProperSplit`), statistics belong to their blocks (`StatsOfBlock`), the search stays in range (`InRange`), what is split pays (`FineSplitPays`), what is done is justified (`DoneJustified`), splitting ends (`Terminates`) |
| `deflate_parts` | parts of 5 bytes, inputs of 0, 1, 5, 7, every proper split, `twice` 0 to 2, final or not | refinement of `DeflateStream` (`WritesStream`), kept entries are those of the part (`KeptIsPart`), the statistics a block starts from were left by a large block of this input that lies before it, or by none while there was none, but for the start of a later pass (`SeededInOrder`) |
| `block` | the constants of the code; blocks written by hand: dear and cheap matches, rows of equal lengths of 6 to 9 and of zeros over 138, the borders of the symbols, no and one distance, nearly equal counts; every `hq`, replacement off and after 1 to 1001 turns, one block and two, each container and none | an RFC 1951 decoder reads the data (`Decodes`), in the size predicted (`Predicted`), within memory that is there and cleared (`Fits`), and arrays are freed once (`FreedOnce`) |
| `katajainen` | all frequencies of five symbols from 0, 1, 2, 5 with limits 3 and 4; Fibonacci numbers with limits 3 to 5; up to 13 symbols with `Cutoff` 3 and `DepthFactor` 1, so that all three methods of the sort are used | leaves keep the order of their symbols (`StableOrder`), pool and stack suffice (`MemorySuffices`), lengths are optimal and those of package-merge (`Optimal`) |
| `lazy` | `MaxD` 32, `MaxD3` 16, 5 attempts, the real `MaxMatch`; all parts of seven bytes of two kinds, parts behind other bytes, repetitions of up to 777 bytes, matches that lose to the one behind them; a hash with collisions | the store reproduces the part (`Reproduces`), chains lead back (`ChainsGoBack`), the parse ends (`Terminates`) |
| `ungz` | buffer of 6 bytes, fixed header of 4; up to two whole members and then nothing, garbage, a broken or a cut member; names and extra fields below and above the buffer; errors of reads and writes | the result and the bytes written agree with the file (`Honest`, `NoFalseAlarmPlain`), inflate and the buffer stay in step while the name is copied (`InStep`), reading ends (`Terminates`) |
| `zopgz` | command lines of up to four arguments of six kinds; five names, one without suffix that holds compressed data, one or two operands, the same twice among them; all options for compression and expansion, with and without `-k`; names in headers, also the operand's own; inputs whole, cut or with data behind; output missing, a file, a link, a directory; errors of every call, of `malloc` and of `fclose` | what a file held is lost in the known ways only (`LossesKnown`), streams are released, and twice only after one known return (`ReleasedOnce`), both loops over the arguments agree unless a cluster ends in `S` (`LoopsAgree`) |

Why the bounds are enough: the sizes are chosen around the constants of the code,
scaled down: blocks shorter and longer than `MaxMatch` and `Window`, repetitions
shorter and longer than both; an input of less than a part, exactly a part, and
more; headers that end inside, at and beyond the buffer; ranges below and above
the number of samples. `block` scales nothing down and takes blocks that each
reach one of the ways through the code instead. Every action is taken, and for
every property a plausible mistake in the code is shown to violate it within these
bounds.

Where a property is restricted, the code breaks the unrestricted one, and a run or
section 5 shows how: `FineSplitPays` is about nine samples and leaves out what
`blocksplitter.c:144` does with three, `DoneJustified` is about three samples and
leaves out what `blocksplitter.c:159` does with nine (both bugs are in section 5,
and no property of this project catches either); `NoFalseAlarmPlain` is about
files that are not asked for a name they have; `StSeeded` is about parts without a
small block and, with one iteration, about blocks behind the first; `LoopsAgree`
about command lines without such a cluster; `Decodes` about inputs that are not
empty; `squeeze` uses the cache when it iterates. `SeededInOrder`, `LossesKnown`
and `ReleasedOnce` leave nothing out: they name the cases in which the code does
what it should not (stale statistics at the start of a pass; the losses of section
5; the stream released twice) and say that these are all. Where an input is
iterated without `reuse_costmodel`, blocks start from statistics of their own, and
`SeededInOrder` says nothing of them.

Runs that end in a violation, each of what a comment or the usage text says:

| Run | Violates | What happens |
|---|---|---|
| `ungz_header` | `NoFalseAlarm` | a valid header with a name is reported as an error whenever the name is asked for (`ungzlib.c:76`) |
| `lazy_loads` | `LoadsAsDocumented` | `GetMatch` loads up to seventeen bytes behind the end, `match.h:29` says fifteen and `deflate.c:1160` asks for eight (`match.h:50`) |
| `zopgz_delete` | `Survives` | an input cut short is decompressed in part and removed (`zopgz.c:546`) |

The deadlock check stays on in all of them: the end of a behaviour is the action
`Stopped` or `Exited` (`AtEnd` in LzFind, whose caller stops at the end of the input).

### Fairness

Where a run checks a liveness property its specification is `FairSpec` (`RunSpec` in
MCSqueeze, of search and trace together), that is `Spec /\ WF_vars(Next)`: a program of one thread that is able to go
on does go on. Nothing is assumed about which alternative it takes: costs, results
of inflate and errors stay open. A process that is killed is a prefix of a
behaviour; `LossesKnown` holds in every state, so in those as well.

## 4. Theorems

All are of the form `Spec => []P`, or of an action property or a refinement,
for every value of the constants that satisfies the named assumptions. Where a
theorem needs more than those, it says so in its statement. The modules with
proofs are apart from the modules they are about, which TLC reads without them.

**SqueezeProofs**: `TypeCorrect`, `FinderInStep`, `HandOverInPlace`, `FastPaths`,
`EndHasCost`, `ReplayReadsItsEntry`, `StatisticsWritten`. Those about the finder
assume `OneSearch`: every job has one iteration or uses the cache, which
`ZopfliInitOptions` guarantees (section 5 says what happens without it). The
invariant `IInv` joins the type invariant with where the block lies (`BlkInv`),
which calls may take or leave a finder (`CallInv`: only the first of a block),
what waits in `mf` and for whom (`HandInv`), and the position of the finder in
each state of the loop (`WalkInv`). `InStep` alone is not inductive: after a
handover it rests on where the finder was left, and that on the count skipped
before the copy. The lemmas `RunLengthBound` and those about moves of the finder
give that a repetition stays in its block and that moving is additive.
`EndHasCost` needs that one of the next `MaxMatch` positions always has a cost
(`ReachInv`), `ReplayReadsItsEntry` that each entry of the cache lies where the
one before it ends (`CacheInv`), `StatisticsWritten` that the flag for the
statistics is cleared by blocks that wrote them (`StInv`); like `StSeeded` it says
nothing of parts with a block of at most `skipdynamic` bytes, nor of the first
block of a part that is searched once, where statistics are missing (section 5).
`EndHasCost` holds whatever matches are pruned, as a match is only pruned where
its end has a cost.

The second half is about **PathTrace**: `TraceTypeCorrect`, `WritesInBuffer`,
`PathReproduces`, for blocks of every size and every choice of steps. `TraceInv`
adds to the type invariant that `space` is what is left of the memory, and that
inside a chunk what is left of the block exceeds the longest steps the rest of the
chunk can take, and the memory its entries (`MemInv`); that each step ends where the
one copied after it starts (`PathInv`); and that the store holds the entries from
the end of `path` on (`StoreInv`). `InBuffer` is not inductive alone, as the chunk is
written without a look at the memory. The lemma `Packed` says that a step is read
back as it was packed; it needs `MaxMatch` below 512, distances up to a whole window
and shorts of 16 bits.

**LzFindProofs**: `SortedTrees`, `MeetsItsMatch`, `NearestReported`, `OlderBelow`,
`SearchGoesBack`, for every input, hash, window, length of a match and order of
calls. The invariant `JInv` has five parts. `IInv`: the sons of every node still in
the window are older than it, and both open places of a search belong to newer
nodes, whose slots are not reused before the window passes them; the search goes
back because of this alone. `RootInv`: the head of a bucket is its newest
position. `OrderInv`: the trees are sorted. By what, is the point of the proof. The
bytes do not order the positions once and for all: two that agree up to the end
of the buffer are not told apart, a third one may lie between them for all that
is compared, and which of them is in the tree depends on which came last.
So `OrderInv` says that there *is* a rank for every position, which follows the
bytes wherever two positions are told apart. A call keeps the ranks; when it
begins, the new position shares the rank of those it cannot be told from, or
gets one of its own (`RankExists`). `FastInv` is what `GetMatches2` and `GetMatches3`
are promised, and `RleInv` that the nodes passed without comparing lie in one
repetition, which ends on the same side of the new position for all of them.
`KnownAhead` follows, as the match that was promised cannot be told from the new
position: it or a newer one of the same rank is still ahead, and the search
stops there. `ReportInv` follows a call: what
lies off its way agrees with the new position no longer than what is known at
the two open places, so that up to each node exactly the matches longer than
all nearer ones are reported.

**BlockSplitProofs**: `TypeCorrect`, `SearchInRange`, `RoundsShrink`,
`SplitProper`, `StatsBelong`, `SplitsPay`, `DoneIsJustified`. `IInv` adds to the
type invariant that points are sorted and none lies inside the block being
searched (`BlockInv`), that the range and the position are strictly inside it
(`SearchInv`), and how far the conversion has come (`ConvertInv`). `Samples` is
the arithmetic of the rounds, for three and for nine samples: samples lie
strictly inside the range and so do the new borders around them. From it follows
that a round always shrinks the range, which is why `FindMinimum` ends.
`CostInv`, for the two theorems about costs, says which costs are known: with
three samples the best is the least of all seen in the block, with nine the
position that is chosen has a cost of its own, no higher than the best.
`DoneIsJustified` is about three samples only and `SplitsPay` about nine, as are their
properties: for the other number the code breaks them (section 5).

**DeflateProofs**: `TypeCorrect`, `WritesDeflateStream`, `Decodable`,
`KeptEntries`, `StatisticsInOrder`. The refinement is proved step by step: writing
a block is `Emit` of the promise, the end of the loop over the parts is `Return`,
everything else is a stutter. `IInv` says where the loops over parts and passes
are (`LoopInv`), that pieces tile the part (`PieceInv`), that the output covers
the input up to the piece (`OutInv`), that the kept entries are those of the part
(`KeptInv`), and what the flag says (`FlagInv`). `StatisticsInOrder` adds
`SeedInv`: where the block that has left the statistics lies among the blocks out
and in hand, which is not where the flag says.  `Decodable` says what a
`DeflateStream` is good for, and so does the code, by the refinement: blocks in
order without a byte twice, the final bit at the end only, and the whole input
when the call returns.

**LazyParseProofs**: `TypeCorrect`, `StoreReproduces`, `LoadsBehindPart`,
`ChainsLeadBack`, for every part, hash, number of attempts and any sizes of the
tables. `LoadsBehindPart` gives the bound the code does keep where it breaks the
documented one (`lazy_loads`): no load ends more than seventeen bytes behind the
part. The match that is held back is valid for the byte before (`HeldInv`), what
the finder gives is valid or no longer than what it was given (`FoundInv`), what
is scored is one of these (`ScoreInv`), what is stored reproduces the part up to
the position (`TurnInv`, `StoreInv`), and heads and chains of both finders lead to
older positions (`FourInv`, `ThreeInv`). The point of the argument is `matchpos`:
where it was not set, the length is the one given, which a match held back has set
before, so that the stray value is only used to score.

**UngzlibProofs**: `StaysWithin`, `InflateInStep`, `Written`, `HonestResult`,
`NoFalseAlarmWithoutName`, for every file and every size of the buffer. Inflate
stands behind what was taken out of the buffer, except for the name, which it is
given when all of it was copied (`FedInv`), and what the parser of the header
knows agrees with the bytes there (`HeaderInv`). `Honest` speaks of the end only;
`OutInv` says the same of every state: what was put out is the content up to
where inflate is, the last member was whole when the next one is looked at
(`BetweenInv`), nothing is put out while the name is copied (`NamedInv`), and
what each result was given for (`DoneInv`). It needs `IsFormat`, an assumption
on the files that both RFCs make: a member begins with its magic bytes, and
what comes before the end of its header is no content.

**ZopgzProofs**: `OperandsAgree`, `StreamsReleased`, `NothingElseLost`, for any
directory, command line and number of operands, any names in headers, and any
failing calls; nothing is assumed of them. `OperandsAgree` follows both loops
through the least set of places that either can reach from the start of the line,
which is the same for both unless a cluster ends in `S`. `StreamsReleased` says
where the stream can be released twice, and that it never stays open: `StreamInv`
follows it through the one return of `decide_outpath` that releases it itself.
`NothingElseLost` gives each file of the start a refuge, a file that holds it,
compressed more often or expanded, or finds it in `over` or `lost` (`KeptInv`).
Prepare may remove a refuge, and records it; an output in hand is nobody's refuge;
and when an input is removed, its output takes its place unless the removal is
recorded. `LossesKnown` alone is not inductive: nothing in it tells that the file
that is removed was the input of the output that was just closed (`OutInv`,
`SrcInv`).

**KatajainenProofs**: `SortIsInvariant`, `SortIsStable`, `ScansStayInside`,
`PoolIsAccounted`, `PoolSuffices`, `LengthsAreInvariant`, `LengthsWithinLimit`,
`HeavierHasNoLonger`, for all frequencies of up to 512 symbols, limits up to 15
and every `Cutoff` and `DepthFactor`, so for every way in which the three methods
come to be combined. `SortInv`: the array has one leaf for each symbol that occurs
(`LeavesInv`); any two leaves out of order lie in one segment that is still on the
stack, and segments do not overlap (`SegmentsInv`); what each method has done
inside its segment (`InsertionInv`, `HeapInv`, `PartitionInv`). Heap and partition
are not stable. They are only used above `Cutoff`, where weights are packed, and
packed weights tell the symbols: there are no ties, so that there is one order,
and it is the stable one. `ScansStayInside` says that both inner loops of
`sort_partition`, which have no look at the borders, stop within the segment; the
pivot stops them first, and what was exchanged afterwards (`PartitionInv`).
`PoolSuffices` is the "theoretical maximum" of `katajainen.c:228`, twice the
number of symbols for each list, and sixteen places for the stack. The code counts
no packages, so `PoolInv` says that there *are* numbers of packages, one for each
list, which agree with the leaves the lists have come to, with what waits on the
stack, with the turns of the loop and with the nodes taken (`IsUsed`), and that
each list has more leaves than packages until it has all leaves (`Accounts`). This
bounds a list by twice the leaves, and it is so because of the weights
(`ListInv`): a chain is no heavier than the next leaf of its list, nor than the
two chains below that the next package takes up, so a list that has come to a leaf
has a list below that came further. Two parts of `Optimal` are proved,
`WithinLimit` and `HeavierNotLonger`: every symbol that occurs gets a code, and no
other symbol does, no code is longer than the limit, and none is longer than that
of a less frequent symbol. A tail is no longer than the lists below
(`LengthsInv`), so the final chain has a node for each list at most; and after the
last turn the highest list has all leaves, or lacks one that `BoundaryPMfinal`
adds, since by the accounts of `PoolInv` the list below then has all
(`AccountsAtEnd`, `FinalChainIs`). The code relies on both without a test: it
writes the final chain into sixteen places, and a leaf that the chain left out
would keep the length 0.

Only model-checked: termination (liveness is out of the prover's reach); the rest of
`Optimal`, that the code is complete and none is shorter, which sums over all symbols
and compares with all other codes, an induction over data; and what is about
Block (`Decodes`, `Predicted`, `Fits`, `FreedOnce`), which uses the recursive
definitions of Trees and Inflate and is about what they compute for whole rows of
entries and lengths. `RoundsShrink` is proved and not checked by a run of its
own, nor are `LoadsBehindPart`, `ScansStayInside` and the invariants;
`WithinLimit` and `HeavierNotLonger` are checked as parts of `Optimal`.

## 5. Observations

Seen while modelling, without a run of their own. Those marked (*) were
also seen on the program itself:

- `squeeze.c:567`: without `useCache` the second iteration of a middle block takes
  the finder that its first one has left for the next block, and the assertion at
  `squeeze.c:573` fails. `ZopfliInitOptions` always sets the option.
- `squeeze.c:1279` (*): with one iteration the first block is searched with the
  statistics in the global `st`, which are zero or those of the file before. With
  `-2` and `-3` a file named second is coded differently than alone, and larger.
- `deflate.c:1059`: a first block of at most `skipdynamic` bytes writes no
  statistics but counts as one that did; the next block starts from statistics
  nobody has written (`StSeeded` without its condition; `SeededInOrder` says which
  these are: none of this input, so those of the file before or zeros).
- `squeeze.c`, `ZopfliLZ77Optimal`: the best statistics are smoothed in place
  before they may be copied to `st`.
- `blocksplitter.c:144`: with three samples the middle one takes its cost from the
  round before, although the range may have moved off that position: a block is
  split where nothing was priced (`FineSplitPays` without its condition, on
  stores of 14 entries).
- `blocksplitter.c:159`: a round without gain overwrites the best cost before the
  search gives up, so that with nine samples a block can be marked as done
  although a cheaper split was computed (`DoneJustified` with nine samples, on
  stores of 80 entries).
- The last block that `FindLargestSplittableBlock` looks at ends at the last
  entry, not behind it; the model keeps this (`BlockEnd`).
- `lz77.c:242`: what lets the finder pass over candidates that cannot be longer is
  a heuristic where a match overlaps itself: a longer match may be missed. The
  entries are right all the same.
- `lz77.c:343`: `matchpos` may be uninitialised when it is used; the value only
  enters `lengthscore`.
- With `advanced` the tree may be added twice to the first prediction. The
  default options give an odd number of turns, after which the last one is a
  replacement, so that the assertion on the size predicted is never evaluated.
- An empty input adds bits to memory that `realloc` has not cleared
  (`deflate.c:1164`).
- `deflate.c:1160` asks for eight bytes behind the input and `match.h:29` for
  fifteen; `GetMatch` loads up to seventeen, as a search may start at the last
  byte and compare from two bytes further on (run `lazy_loads`). `ZopfliLoadFile`
  allocates the size of the file. What is loaded there decides nothing.
- `zlib_container.c:66`: three of the four bytes of the trailer are the highest
  byte of the checksum.
- `zopgz.c:359` (*): the old output is removed before the input is opened. With
  `-f` and a name that is given twice (`zopgz -f a a`), the second turn finds no
  input and removes the output of the first: neither is left, and the status is 0
  (`lost` in Zopgz).
- `zopgz.c:462` (*): with `-1`, when memory for the output cannot be had, `ret` is
  still the `Z_OK` of `deflateInit2`: the status is 0, the output is empty and the
  input removed (`lost` with `fault` at `malloc` in Zopgz).
- `zopfli_gz.c:35` (*): `SaveFile` looks at the error flag before `fclose`. An output
  that cannot be completed when it is closed counts as a success and the input
    is removed (`lost` with `fault` at `fclose`).
- `zopgz.c:522` (*): for a name without a known suffix, when the header can be
  read and gives no other, `decide_outpath` releases the stream and
  `ungzlib_close` does so again, with the structure freed (`strm` is `twice`;
  `ReleasedOnce` says that this is the only case).
- `zopgz.c:607` (*): `main` skips the value of `-S` only behind an argument that is
  exactly `-S`; behind `-kS` the value is processed as a file.
- `zopgz.c:614` (*): errors are negative and the exit status is the largest result,
  so that a failure can end with status 0.
- `zopgz.c:385`: a header that names the input as the output would have the input
  removed with `-f` (`lost` in Zopgz, where headers with a name may be read); as
  it is they are not read, see the run `ungz_header`.
- `squeeze.c:388` and `squeeze.c:409`: the AVX2 branch and the branch without
  SSE4.1 do not compile; the model follows the SSE4.1 branch.
- `mf` and `right` are globals: two threads that compress would share them.
  The program has one.

## 6. Not modelled, and the plan

Not modelled: the values of cost tables, entropies and statistics of `squeeze.c`
(floating point: where they decide, the decision is open); the finder of
`GetBestLengthsultra2`; the entry points and options of the library (pure
initialisation); copying and freeing of stores; the build, Windows branches, file
permissions and times, standard input.

What is left of the plan, in the order in which it is to be done:

1. Squeeze's finder implemented by LzFind: `buf` and `low` from its tree.
2. The steps that a search chooses as the block of its trace, for which Squeeze
   needs the order of the costs and not only whether they are set.
3. `FreedOnce` from a version of Trees without recursive operators, which the
   control of Block would not notice.
