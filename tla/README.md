# TIDE streaming container: TLA+ models and proofs

TIDE is a C library for a streaming media container: a 72-byte header followed by
framed, CRC-protected records, some of them groups that nest.  This directory models
the library, checks it with TLC, and proves with TLAPS that the incremental decoder and the
reorder queue implement what they promise, that jobs leave no resource open and no
incomplete file that looks complete, and that the time arithmetic is exact.  Paths below
are relative to the repository root.

## Inventory

| Part | Source | State | Operations | What is hard |
|---|---|---|---|---|
| Incremental decoder | `src/format/decoder.c` | byte buffer, `parse_offset`, `valid_prefix`, flags, error, track table | `tide_decoder_init`, `feed`, `cancel`, `destroy` | any split of the input; recursion over groups that shares one `valid_prefix`; callbacks that fail or cancel half way; failing allocations |
| One-shot parser | `src/format/decoder.c` | none | `tide_parse_tide_bytes` | must agree with the incremental decoder |
| Record format | `decoder.c`, `reader.c` | none | framing, limits and body checks of twelve kinds of record, ULEB128 | order of the checks; overflow of sizes |
| Buffer, checked arithmetic | `src/common/checked.c` | size, capacity | reserve, append, align, gcd | limit and overflow edges |
| Writer, muxer | `writer.c`, `mux.c` | output buffer, sequence, open file | create, add_stream, write_packet, close, abort | a record is appended in four pieces; the footer's length is computed from a trial footer; close after a failure |
| Demuxer | `demux.c` | streams, packets, cursor | open, next, close | a parse that fails after some packets were copied |
| Repair scanner | `scanner.c` | plan | scan, write | two parses that must agree; a half-written output |
| Command line | `cli/main.c` | none | inspect, remux, repair | failures between opening and closing the output |
| Sources | `source/*.c` | bytes | from file, from memory, destroy | failing I/O |
| Reorder queue | `index/reorder.c` | sorted array, capacity, limit | init, push, pop_ready, destroy | a full queue, ties, late packets |
| Leases, packets | `model/lease.c`, `model/packet.c` | atomic reference counts | create, retain, release, move, reset | several owners on several threads |
| Time, edits, index builder | `model/time.c`, `model/edit.c`, `index/index_builder.c` | none | conversion, projection, appending | rounding, integer edges |
| Checksums | `crc32c.c` | none | CRC-32C, digest | a pure function of bytes |

The parts interact in one direction.  The demuxer and the repair scanner call the
one-shot parser, which calls back.  The muxer calls the writer.  The command line reads
through the former and writes through the latter.  The queue, the index builder, the
projection and the time conversion are called by users of the library only.  No part
starts a thread; the reference count of a payload is atomic because users may share one.

## Modules

| Module | Models |
|---|---|
| `TideFormat` | what the parser checks in the bytes, in which order, with which status |
| `ByteBuffer` | the growable buffer: its limit, its doubling, when an append may fail |
| `Decoder` | the incremental decoder as a state machine, and its properties |
| `ParseBytes` | `tide_parse_tide_bytes` and the C recursion it makes, as recursive functions |
| `DecoderReference` | the incremental decoder compared with a single parse of the same bytes |
| `DecoderContract` | what the decoder promises, without buffer, offsets or parser |
| `Varint` | reading and writing ULEB128 integers |
| `Mux` | the record writer and the muxer, and the files they leave on disk |
| `Demux` | the demuxer on top of `ParseBytes` |
| `Workflow` | jobs over files, composed of `Mux` and `Demux`: the commands, the repair, a reader and a writer; and their properties |
| `PacketRefs` | payload leases and packet references |
| `ReorderQueue` | the reorder queue over `PacketRefs`, and its properties |
| `ReorderContract` | what the queue promises: a stable priority queue with a limit |
| `Timeline` | rationals, rounding, time conversion, edit projection |
| `Algorithms` | calls of the pure functions, the index builder, and reference definitions |
| `MediaSamples` | layout of sample byte streams from lists of records (TLC only) |
| `MCDecoder`, `MCWorkflow`, `MCReorder`, `MCAlgorithms` | the instances TLC checks |
| `MCRelease` | the queue with a history of the packets it released, for the run `reorder_release` |
| `ParseProofs` | TLAPS: sequences and arrays, well-founded recursion, what the one-shot parser returns and what its activations lead to |
| `DecoderProofs` | TLAPS: the inductive invariant of `Decoder`; prefix, depth, track table, buffer and order of the callbacks |
| `DecoderStepProofs` | TLAPS: each step of the incremental parser as a step of the one-shot parser |
| `SplitProofs` | TLAPS: splits do not matter, and the decoder implements `DecoderContract` |
| `ReorderProofs` | TLAPS: reference counts, bounds and order of the queue, and that it implements `ReorderContract` |
| `TimelineProofs` | TLAPS: gcd, reduction, rounding, conversion and projection |
| `WorkflowProofs` | TLAPS: control, types and resources of jobs, and how records lie in a file |
| `StorageProofs` | TLAPS: what the files on disk hold, and what is read back from them |

### Bytes

A byte stream is abstracted to what reading it gives: `Media[m].frame[o]` is the frame
the reader finds at offset `o` of stream `m` (type, sizes, alignment, whether the varints
are canonical, what the padding and CRC check finds, and the body's fields), and
`Media[m].size` the bytes there are.  Sizes and offsets are numbers, because framing is
arithmetic on them; contents are not bytes, because nothing but the checks reads them.
The checks themselves are kept one by one, each with its status, in the order of the
code, since the status and the recorded error are visible to the caller.  The fixed sizes
(72, 20, 8, 4) and widths (2^64, 2^63, 2^32, 2^8) are constants.

### Decoder

The variables are the fields of `tide_decoder_impl` and the call in progress: `pc`
(`idle` between calls, `parse` in the record loop, `return` after it), `stack` (one
`[cursor, end]` for each activation of the recursive `tide_parse_records`), `final` (the
`end` argument), `status`, and `events`, the callbacks made.  `FeedXxx` actions enter a
feed and include its early returns; each record is then one step (`SkipRecord`,
`SimpleRecord`, `EnterGroup`, `StreamAdded`, `PacketEmitted`, ... and one for each way it
fails); `LevelDone` ends an activation and moves the one around it past its group;
`FeedReturn` is the tail of `tide_decoder_feed`.  A record's step contains its callbacks,
the status they return (any member of `CallbackStatus`) and whether they called
`tide_decoder_cancel`.  The capacity of the buffer is a function of its size, so only
the moment at which an append reallocates, and may fail, is modelled.

Not modelled in the decoder: callbacks that are not set (they act like ones that return OK),
the `NULL` argument checks other than a destroyed decoder,
callbacks that feed or destroy the decoder they are called from, and the message, offset
and severity in `tide_error`.  The accessors of a destroyed decoder report 0 and `NULL`; the
model leaves its variables as they were, so what `Sealed` and `PrefixGrows` say of accessors
is about a decoder that lives.  The depth in `ParseBytes` is a natural where `decoder.c:659`
casts to `uint8_t`, which is the same for a `max_depth` below 256.  Sums of sizes are compared
with `SIZE_MAX` and `U64_MAX` as in the code and do not wrap.

### Files, muxer and demuxer

`disk` maps a path to a file: absent, one of the samples, or what a muxer wrote, which is
the list of its records with their offsets and how many bytes of them are on disk.
`tide_write_record` appends a prefix, a payload, a padding and a CRC, and returns at the
first append that fails; a record in the buffer therefore says how many of its four parts
are there, and a torn one reads back with a wrong CRC.  Sizes are computed as the code
computes them, varints included, because the footer's `file_length` depends on them.
`FileBytes` turns a file into the bytes of `TideFormat`, so that `ParseBytes` reads what
`Mux` wrote.  `holds` and `accepted` are histories of what the muxer was given.

A job of `Workflow` is a process with a location `pc`; one step is one library call with
the code around it up to the next.  `remux`, `repair` and `inspect` are the commands of
`src/cli/main.c` (`demux` and `index` are the same command as `inspect`); `read` is the
loop of `examples/stream_demux.c` for any options; `write` makes any calls on a muxer in
any order, going on after the ones that fail, which includes what
`examples/write_capture.c` does.  Every allocation, read and write may fail, and `Kill`
ends a job between two calls or inside the write of its output.  The jobs of a behaviour
run one after another.

### References and the queue

`Holder` are the `tide_packet_ref` variables of threads (`Ref`) and of the items of the
queue (`Cell`).  A shift of the items array moves an item with its packet, so the queue is
a sequence of cells.  One step is an atomic operation on a count with the private work
around it; the `free` that follows a count of zero is a step of its own, and so is each
reset of the loop in `tide_reorder_queue_destroy`.  `pop_ready` overwrites the reference
it is given without releasing it; `careful` says whether the caller always passes an empty
one, and `lost` counts the references that were overwritten.  The epoch, which callers
pass to `push`, is kept with the packet.  The queue has no watermark: `pop_ready` returns its
first packet whenever there is one.

### Pure functions

`Timeline` follows the code with the widths of the integers as constants; each action of
`Algorithms` makes one call with arguments from a given set and records arguments and result,
which the invariants compare with definitions that do not compute like the code: the rounded
quotient by its distance from the exact one, a projected piece by the instants it shows,
a ULEB128 integer by the digits it stands for.

## Runs

| Run | Expected | Shows |
|---|---|---|
| `decoder_split` | pass | 47 streams, every split: `SplitIndependent`, `PrefixIsComplete`, `ErrorRecorded`, the refinement `ImplementsContract`, and `FeedReturns` |
| `decoder_faults` | pass | 8 streams, every split, callbacks that return `IO` or `PARTIAL` or cancel, allocations that fail: type, windows, depth, track table, buffer, order of callbacks, `Sealed`, `PrefixGrows` |
| `workflow` | pass | two jobs, with failing allocations and I/O and kills: a command that exits with 0 is faithful to its source, a footer only stands in a file that holds all its muxer accepted, what `close` reports as written reads back, a failed repair publishes nothing short, a repair recovers all whole records, readers get their track, nothing leaks, jobs end |
| `reorder` | pass | two threads: exact counts, no dangling or leaked lease, bounds and order of the queue, the refinement `ImplementsContract`, and `DestroyEnds` |
| `algorithms` | pass | conversion, projection, ULEB128, seek index and index builder against their references |
| `decoder_prefix` | violation | the valid prefix may end inside a rejected group |
| `decoder_footer` | violation | data after a footer is accepted |
| `decoder_report` | violation | `on_error` for a bad header depends on the split |
| `decoder_memory` | violation | a failed allocation of the track table drops a descriptor and returns OK |
| `reorder_release` | violation | a packet that is pushed after a later one of its epoch was popped is released after it |
| `remux_published` | violation | a remux that fails at a packet still closes its muxer and leaves a complete-looking file |
| `mux_torn` | violation | a packet refused in the middle of its record leaves a torn record in a file that `tide_mux_close` returns OK for |

Two properties of `workflow` carry the conditions that the findings require.  A failed
allocation of the track table drops a descriptor silently (`decoder_memory`), so
faithfulness is stated for jobs whose parses dropped none; and `ClosedReadsBack` is stated
for files without a torn record, and for callers that declare each track once before its
packets, which the muxer does not check.

**Other disagreements with the documents.**  Where the code does less than a document says and
no run shows it, the property is stated for what the code does:

- `04_tide_streaming_media_container.md:377` has the projection "scale by rational edit rate";
  `tide_edit_project_one` validates the rate and does not apply it.  `PieceInsideEdit` is about
  edits of rate 1/1.
- `04_tide_streaming_media_container.md:207` has "sorted descriptors/index entries", and
  `decoder.c:487` reports an "unsorted seek index".  The key at `decoder.c:485` takes negative
  timestamps for 0, so entries before time 0 may stand in any order, and from a timestamp of
  2^32 on the timestamp reaches the bits of the track.  `IndexesOrdered` says which indexes are
  accepted for timestamps below that.
- `04_tide_streaming_media_container.md:469` has "no duplicate callback".  A callback that
  returns `TRUNCATED` is taken for an incomplete record (`decoder.c:839`), and the next feed
  reports the record to it again.  `NoDuplicateCallback` is checked and proved for callbacks
  that do not return it.

**Bounds of the decoder runs.**  The sizes are scaled down (header 2, group fields 1,
prefix 2, CRC 1 bytes) so
that every split of every stream is explored: a feed of any length from 0 bytes to all
that is left, at each point.  The streams hold up to six records in up to three nested
groups, with paddings, empty groups, a truncated tail, and malformed records of every type,
some inside groups and some outside; the track table holds two tracks and its first
capacity is one, so its growth, its limit and a duplicate all occur; the buffer's first
capacity is four bytes; the aggregate limit is below the longest stream, so a feed runs
into it.  `DEPTH_SPAN` stands for 2^8 and is 4, above `max_depth` as in the library's
default limits (16 and 32 against 256); `DepthBounded` needs this, since the depth the code
compares is a `uint8_t`.

**Bounds of the workflow runs.**  `MAX_JOBS` is 2: one job on a sample or on nothing, one
on what it left, which has every kind of file a muxer leaves behind.  `MAX_CALLS` is 3, enough for a
descriptor, a packet that fails and one that follows it.  A varint digit is base 4, so
that varints of one and two bytes occur; the single limit (9) is below a packet of the
samples and the aggregate limit (33) below a file, so both refuse something, at every part
of a record.  Sources include groups, unselected tracks, a torn record, a partial tail and
a header cut short; outputs include the source path itself.  Where inside a part of a
record a write stops makes no difference to a reader, so `StopPoints` has the ends of
parts.  Deadlock is not checked in these runs, because behaviours stop when the jobs
are used up.

**Bounds of the queue run.**  Two threads, three references, two leases and three cells:
a lease can be shared by both threads and the queue, and equal keys occur.  Limits are 0, 1
and 3 and the first capacity 2, so that a doubling is cut at the limit.  `MAX_REFCOUNT`
bounds the references taken to one lease; the count of the code is an `unsigned`.
`reorder_release` has one thread that always passes empty references, two packets of one
epoch and a limit of 2.

**Bounds of the algorithms run.**  6-bit integers in the place of `int64_t`, 3-bit ones
for `uint32_t` and ULEB128 integers of up to three 2-bit digits; every value of the former
is converted between twenty time bases, and edits lie at both ends of the range.

**Fairness.**  `FairSpec` of `Decoder` assumes weak fairness of `Parse`, the steps the
library takes inside a feed once it has been called: callbacks return and nothing in the
parser waits.  `Workflow` assumes it of `Work`, the calls of a job, none of which waits for
anything; a job may be killed instead.  `ReorderQueue` assumes it, for each thread, of the
rest of a release or of a destroy that was begun.  Nothing is assumed of callers, who may
stop calling at any time.

**The contracts.**  `DecoderContract` says that the decoder accepts bytes only when the
callbacks owed for the earlier ones have been made, that callbacks follow the script of a
single parse of the bytes accepted, and that the verdict is that of the single parse.
`DecoderReference` maps `given` to the buffer's size, `delivered` to the callbacks other than
`on_error`, and `verdict` to what the recorded error and the valid prefix say.
`ReorderContract` says that a pop takes the least of the pending packets and the first
among its equals; `pending` is mapped to the packets in the order they were pushed.

## Proofs

All theorems hold for every value of the constants that the named assumptions allow.  These
only say that sizes, limits and widths are naturals in the relation the format gives them
(a header, the fields of a group and a CRC are not empty), that frames and items have the
fields and types the readers produce, that callbacks return a status, and that the commands
pass the options that `src/cli/main.c` passes (`SizesAssumption`, `LimitsAssumption`,
`MediaAssumption`, `BufferAssumption`, `DecoderAssumption`, `VarintAssumption`,
`MuxAssumption`, `WorkflowAssumption`, `CommandsAssumption`, `ItemsAssumption`,
`RefsAssumption`, `QueueAssumption`, `WidthAssumption`, `ConversionsAssumption`,
`ProjectionsAssumption`).  Every run evaluates those of its modules.

**Recursion.**  `tide_parse_records` is a recursive function of the call, the gcd one of a
pair, `tide_uleb128_size` one of a number, and `Kept` one of a length.  TLAPS does not know that
such a definition has a solution.  `RecursiveFunction` of `ParseProofs` supplies this: if every
use of the function in its own body is at an argument of smaller measure, the definition may
be unfolded.  For the parser the measure counts bytes: `ParseUnfolds` shows that a record and
the bytes of a group lie ahead of the call that reads them, since a record that passes its
checks has a CRC and a group has fields.  Facts about every call of the parser
(`ParseSound`, `ParseExtends`) take a call of least measure at which they fail, with
`LeastNumber` in the place of an induction scheme.

**Decoder.**

| Theorem | Establishes |
|---|---|
| `TypeCorrect` | `Spec => []TypeOK` |
| `StaysInParent` | `Spec => []CursorInParent`: no activation of the recursive parser leaves its window, and the window of a nested one is the payload of a complete group of the one around it |
| `Resumes` | `Spec => []ResumesAtPrefix`: between feeds no byte is skipped or parsed twice |
| `PrefixNeverShrinks` | `Spec => PrefixGrows`: the valid prefix of a live decoder only grows, also on the way out of nested groups |
| `SealedForever` | `Spec => Sealed`: no call changes what a finished or cancelled decoder reports, and neither it nor a destroyed one calls back |
| `DepthIsBounded` | `limits.max_depth < DEPTH_SPAN` implies `Spec => []DepthBounded` |
| `TracksAreDistinct` | `Spec => []TrackTable` |
| `BufferIsBounded` | `Spec => []BufferBounded`: the buffer never exceeds a nonzero aggregate limit |
| `ErrorEndsCallbacks` | `Spec => []ErrorIsLast` |
| `PacketsFollowStreams` | `Spec => []PacketAfterStream` |
| `RecordsReportedOnce` | `"TRUNCATED" \notin CallbackStatus` implies `Spec => []NoDuplicateCallback` |
| `SplitsDoNotMatter` | `WellBehaved` implies `Spec => []SplitIndependent` |
| `PrefixIsAlwaysComplete` | `WellBehaved` implies `Spec => []PrefixIsComplete` |
| `ErrorIsRecorded` | `WellBehaved` implies `Spec => []ErrorRecorded` |
| `DecoderImplementsContract` | `WellBehaved` implies `Spec => ImplementsContract` |

`CursorInParent` is not inductive alone.  When the children of a group are done the outer
activation moves to the end of the group's CRC, and only the fact that the group passed
its checks in the outer window (`Encloses`) keeps it inside; and the next feed starts at
`parse_offset`, which is in the buffer only because it equals `valid_prefix` between feeds.
The inductive invariant is `IInv == TypeOK /\ CursorInParent /\ PrefixTracksCursor`, where
`PrefixTracksCursor` says where `valid_prefix` stands in each phase of a feed.  The lemma
`IInvStep` has one step for each action of `Next`; actions that fail, advance or leave the
parser alone share the lemmas `FailKeeps`, `AdvanceKeeps`, `SettleKeeps` and `IdleKeeps`.

The other theorems use `IInv` and, where needed, a strengthening of their own.  That a
packet follows its stream needs `TracksAnnounced` (every entry of the table was announced
by `on_stream`).  That no record is reported twice needs `RecordsBehind`: the records
reported lie before the cursor, and before the valid prefix whenever the decoder may be fed
again, which also needs that no error is recorded then, because a failed allocation of the
track table returns the recorded error.  The hypotheses of `DepthIsBounded` and
`RecordsReportedOnce` cannot be dropped: a `max_depth` of 256 or more never stops a depth
that is a `uint8_t`, and a record whose callback returns `TRUNCATED` is reported again by the
next feed.

*Any split, one parse.*  The invariant `SplitInv` compares the decoder with a parse that is
not over.  `LeadsTo(data, st, n, p, whole)` says that the activations `st`, of which the
innermost goes on after `p`, return `whole` when `n` bytes are there: the innermost by its
call of `tide_parse_records`, each other one by what the code does after the call of the
nested one returns.  While the decoder is in its record loop, its stack leads to the single
parse of *every* part of the stream that has at least the bytes given so far (`Goes`); between
feeds the same is true of a call that starts at `valid_prefix` (`GoesOnLater`).  Quantifying
over the longer parts is what makes this inductive: a record that passes its checks passes
them in every larger window (`CheckGrows`), and one that is cut off ends the parse of the bytes
given so far without any change, so that the next feed starts from the same point.
`DecoderStepProofs` has one lemma for each kind of step, and `SplitStep` collects them.
`WellBehaved` says that `max_depth` is below `DEPTH_SPAN`, that callbacks return OK (they may
cancel) and that allocations succeed; the single parse has no callbacks that fail, and
`decoder_memory` shows what a failed allocation does.

`DecoderImplementsContract` maps the steps of the record loop to deliveries: what the
activations lead to begins with the callbacks made so far (`LeadsToExtends`), so the next ones
are the next of the script; that nothing is owed when bytes are accepted, and that the verdict
is that of the single parse, is `SplitInv` at the end of a feed.

**Jobs and files.**  `JobsTypeCorrect` (`Spec => []TypeOK`) and `NothingIsLeaked`
(`Spec => []NothingLeaked`): on every path through the error handling of every command, with any
allocation or I/O failing and with kills anywhere, a muxer is open exactly between its creation
and its close, and nothing is open when the job has ended.  The inductive invariant is
`Sane == Control /\ Typed`; `Typed` includes what the parser puts into the demuxer's arrays,
which is `ParseSound`.

`SequencesAlwaysIncrease` (`Spec => []SequencesIncrease`) and `SealedFilesAreWhole`
(`Spec => []FooterSeals`) add `Stored`: the records of a file lie one after another in the order
of their sequence numbers (`LaidOut`, `InOrder`), a footer is only the last of them, whole and with
the length of the file in it, a file may lack bytes at its end only, and `holds` is what the whole
records hold.  That a sealed file *reads back* as what it holds is an argument about the
parser.  `Walked(data, rs, k, q)` says that a parse has come to record `k` of `rs` with all before
it whole and called back in order; `WalkStep` takes it over a record that passes its checks,
which only a whole one does, since a torn one has a wrong CRC; `WalkStops` finds the last record
it comes to, and a parse that returns OK there is at the end of the bytes.

**Queue and leases.**  For any threads, any finite set of references, any leases and
packets, and any limits: `QueueTypeCorrect`, `RefcountIsExact`,
`NoLeaseDangles`, `NoLeaseLeaks`, `QueueIsBounded` and `QueueIsSorted`,
each `Spec => []` of the invariant the run checks, and `QueueImplementsContract`.  The inductive
invariant `Inv` has two
halves.  `RefInv` counts: `Exact` (a count is the number of references, `lost` ones
included), `CountedIsAllocated` (what is not allocated has no references), `OneFrees`
(a lease being freed has count zero and one thread that frees it) and `Reclaimed` (an
allocated lease of count zero is being freed).  `NoDanglingLease` follows: a reference makes
the count positive.  `QueueInv` adds `SpareCells` (cells outside the queue hold nothing, so
that a push overwrites no lease) and `NothingLost` to the queue's own
properties.  How a step moves one reference from holder to holder and what that does to
the cardinalities is in the lemmas `OverwriteOne` and `MoveOne`; where a push inserts is in
`PositionIsRight` and `InsertedItems`, which rest on the keys being a weak order
(`LessIsWeakOrder`).  The refinement needs `HistoryInv`: the cells in the order of their arrival
are those of the queue, and among equal keys the queue keeps that order, so that its head
is the first arrival among the least (`HeadIsFirst`).

**Timeline.**  `RoundingIsRight`, for every numerator, denominator and mode, shows the
quotient corrected from C's truncating division to be the floor, the ceiling or the nearest
with ties to even; `RoundingIsMonotone` shows that the order of timestamps survives;
`RoundDivIsExact` that the function fails only if the quotient is no `int64_t`.
`ConversionsAreExact` (`Spec => []ConvertExact`) is about the whole of `tide_time_convert`, which
cancels the common factors of the two time bases before it multiplies: the gcd divides both
of its arguments and every common factor of them divides it (`GcdDivides`, `GcdScales`), and
multiplying both terms does not change the rounded quotient (`RoundedScales`).  `NothingOverflows`
(`Spec => []NoOverflow`) and `ProjectionsInRange` show, for integers of every width, that no value
formed on the way leaves its type, the output time of a projected piece included, and
`PiecesInsideEdits` that with edits of rate 1/1 a projected piece shows only instants that are both
in the packet and in the edit, in the edit's output time.  The loop over
the edits is handled by `FirstStop`: the first edit at which it stops is the least of a
nonempty set of naturals.

**Only model-checked.**  Liveness (`FeedReturns`, `JobEnds`, `DestroyEnds`), which is out of the
reach of the prover.  `VarintCanonical` and `IndexesOrdered`, whose reference definitions are
functions of two arguments, for which the prover has no rules.  Of `Workflow`:
`ExitZeroFaithful`, `RepairPublishesWhole`, `RepairRecovers`, `ClosedReadsBack` and
`ReaderGetsTrack`.  The last rests on what a demuxer collects from a parse in which allocations
may fail; the others also need that a file made of the items of another parses without
error, which is the converse of the argument for `FooterSeals`: not that a whole record is the only
one that passes its checks, but that it passes all of them, limits and track table included.

## Not modelled

- CRC-32C and the digest: pure functions of the bytes; the models keep whether they match.
- The fixed-width readers and writers of `reader.c`, which move fields between bytes and
  integers, and the defaults in `limits.c`.
- Wording of diagnostics, `tide_error` apart from its code, the `last_error` accessors,
  and what commands print.
- `NULL` arguments, except where a handle may really be `NULL` on an error path.
- The dump tools, which make the calls of `inspect`, and the exit codes of the examples.
- Two jobs on the same files at once: the library takes no locks and promises nothing then.
- What should be on disk when the output path is the source path and the job fails: the
  runs reach this case, since `tide_mux_create` truncates its path first, but nothing in
  the repository states a requirement to check.
