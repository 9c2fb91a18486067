------------------------------ MODULE Workflow ------------------------------
(****************************************************************************)
(* Whole jobs over files: the commands of src/cli/main.c, the repair of     *)
(* src/repair/scanner.c, and two callers of the library, one that reads     *)
(* packets with the demuxer and one that writes a file with the muxer, in   *)
(* any order of calls.  A job is a process that may be killed between any   *)
(* two library calls and inside the write of its output; the files stay.    *)
(****************************************************************************)
EXTENDS Mux, Demux, FiniteSets

CONSTANTS
  FirstJobs,    \* the jobs that may be started on the input
  LaterJobs,    \* and on what the jobs before them left
  Descriptors,  \* what a "write" job may pass to tide_mux_add_stream
  Packets,      \* what it may pass to tide_mux_write_packet
  MAX_JOBS,     \* bound on the jobs of a behaviour
  MAX_CALLS,    \* bound on the calls of a "write" job
  INPUT         \* the path that may hold a file at first

Job == [command: {"inspect", "remux", "repair", "read", "write"},
        in: Path, out: Path,
        strict: BOOLEAN, selected_track: Nat,  \* tide_demux_options of "read"
        write_footer: BOOLEAN, base_valid: BOOLEAN]  \* tide_mux_options of "write"

Jobs == FirstJobs \cup LaterJobs

ASSUME WorkflowAssumption ==
  /\ FirstJobs # {} /\ Jobs \subseteq Job /\ INPUT \in Path
  /\ MAX_JOBS \in Nat /\ MAX_CALLS \in Nat

\* The options that the commands pass.
ASSUME CommandsAssumption ==
  \A j \in Jobs : j.command \in {"inspect", "remux", "repair"} =>
    ~j.strict /\ j.selected_track = 0 /\ j.write_footer /\ j.base_valid

\* The fields of tide_stream_info and tide_packet_info that sizes are computed from
\* and tracks looked up with, in what a caller passes and in what a reader extracts.
\* Only a tide_stream_info has a time base.
Declares(item) == "time_base_valid" \in DOMAIN item
IsStreamInfo(item) ==
  item.bytes \in Nat /\ item.track \in Track /\ Declares(item) /\ item.time_base_valid \in BOOLEAN
IsPacketInfo(item) ==
  item.bytes \in Nat /\ item.track \in Track /\ ~Declares(item) /\ item.duration \in Int

ASSUME ItemsAssumption ==
  /\ \A item \in Descriptors : IsStreamInfo(item) /\ item.layout
  /\ \A item \in Packets : IsPacketInfo(item) /\ item.layout
  /\ \A m \in DOMAIN Media : \A o \in 0..Media[m].size :
       /\ Media[m].frame[o].type = "STREAM_DESC" => IsStreamInfo(Media[m].frame[o].body)
       /\ Media[m].frame[o].type = "PACKET" => IsPacketInfo(Media[m].frame[o].body)
  /\ DOMAIN Media \cap {"written", "absent"} = {}

VARIABLES
  job,           \* the job that runs, or ran last
  pc,            \* "idle" or the next call of the job
  jobs, calls,   \* how many there were
  source,        \* tide_source; its file is remembered when it is destroyed
  valid_prefix,  \* of the repair plan
  index,         \* the stream the loop of a job is at
  status,        \* the job's status variable
  exit,          \* its exit code, KILLED or RUNNING
  got,           \* the packets it took from the demuxer
  dropped,       \* whether a parse passed over a descriptor for want of memory
  before         \* the file at its output path when it was started

jobVars == <<job, pc, jobs, calls, source, valid_prefix, index, status, exit, got,
             dropped, before>>
vars == <<muxVars, demux, jobVars>>

RUNNING == -1
KILLED == -2
NoSource == [open |-> FALSE, file |-> NoFile]

Init ==
  /\ \E file \in {Sample(m) : m \in DOMAIN Media} \cup {NoFile} :
       disk = [p \in Path |-> IF p = INPUT THEN file ELSE NoFile]
  /\ mux = NoMux /\ demux = NoDemux /\ returned = "OK" /\ accepted = <<>>
  /\ job = CHOOSE j \in Jobs : TRUE
  /\ pc = "idle" /\ jobs = 0 /\ calls = 0
  /\ source = NoSource /\ valid_prefix = 0 /\ index = 0
  /\ status = "OK" /\ exit = RUNNING /\ got = <<>> /\ dropped = FALSE /\ before = NoFile

\* main dispatches the command.  A "write" job reads no file, so it is only started
\* where there is none.
Start(j) ==
  /\ pc = "idle" /\ jobs < MAX_JOBS
  /\ j \in IF jobs = 0 THEN FirstJobs ELSE LaterJobs
  /\ j.command = "write" => \A p \in Path : disk[p] = NoFile
  /\ job' = j /\ jobs' = jobs + 1
  /\ pc' = IF j.command = "write" THEN "create" ELSE "source"
  /\ source' = NoSource /\ valid_prefix' = 0 /\ index' = 0 /\ calls' = 0
  /\ status' = "OK" /\ exit' = RUNNING /\ got' = <<>>
  /\ dropped' = FALSE /\ before' = disk[j.out]
  /\ returned' = "OK" /\ accepted' = <<>>
  /\ UNCHANGED <<disk, mux, demux>>

\* The job goes on at location l with status s.
Goes(l, s) ==
  /\ pc' = l /\ status' = s
  /\ UNCHANGED <<job, jobs, exit, before>>

AfterSource == IF job.command = "repair" THEN "scan" ELSE "demux"

tide_source_from_file ==
  /\ pc = "source"
  /\ \/ /\ disk[job.in] # NoFile
        /\ source' = [open |-> TRUE, file |-> disk[job.in]]
        /\ Goes(AfterSource, "OK")
     \/ /\ IoFails \/ disk[job.in] = NoFile
        /\ Goes("finish", "IO") /\ UNCHANGED source
     \/ /\ AllocationsFail
        /\ Goes("finish", "RESOURCE") /\ UNCHANGED source
  /\ UNCHANGED <<muxVars, demux, calls, valid_prefix, index, got, dropped>>

------------------------------------------------------------------------------
(* src/repair/scanner.c *)

\* A plan is made whatever the parse returns; repair_cmd goes on after OK and PARTIAL.
tide_repair_scan ==
  /\ pc = "scan"
  /\ \/ /\ AllocationsFail
        /\ Goes("finish", "RESOURCE") /\ UNCHANGED <<valid_prefix, dropped>>
     \/ LET bytes == FileBytes(source.file)
        IN  \E lost \in MayLose(bytes) :
              LET p == ParseLosing(bytes, bytes.size, lost)
              IN  /\ valid_prefix' = p.valid_prefix /\ dropped' = Dropped(bytes, p)
                  /\ Goes(IF p.status \in {"OK", "PARTIAL"} THEN "prefix" ELSE "finish",
                          p.status)
  /\ UNCHANGED <<muxVars, demux, calls, source, index, got>>

\* tide_repair_write up to the source it makes of the valid prefix.
RepairPrefix ==
  /\ pc = "prefix"
  /\ \/ /\ valid_prefix = 0
        /\ Goes("finish", "INVALID_ARGUMENT")
     \/ /\ valid_prefix # 0 /\ AllocationsFail
        /\ Goes("finish", "RESOURCE")
     \/ /\ valid_prefix # 0
        /\ Goes("demux", "OK")
  /\ UNCHANGED <<muxVars, demux, calls, source, valid_prefix, index, got, dropped>>

\* Mutant: the prefix a repair demuxes is one byte short.
DemuxSizeShort == IF job.command = "repair" THEN valid_prefix - 1 ELSE source.file.size

\* How much of the source a job demuxes.
DemuxSize == IF job.command = "repair" THEN valid_prefix ELSE source.file.size

\* Mutant: a remux goes on with what it could read of a partial source.
AfterDemuxPartial(s) ==
  IF job.command \in {"remux", "repair"} /\ s \in {"OK", "PARTIAL"} THEN <<"create", "OK">>
  ELSE IF job.command = "read" /\ demux'.open THEN <<"packets", s>>
  ELSE <<"finish", s>>

\* Where a job goes and its status when tide_demux_open returned s: a repair takes
\* PARTIAL for OK, a remux stops at it.
AfterDemux(s) ==
  IF \/ job.command = "remux" /\ s = "OK"
     \/ job.command = "repair" /\ s \in {"OK", "PARTIAL"}
  THEN <<"create", "OK">>
  ELSE IF job.command = "read" /\ demux'.open THEN <<"packets", s>>
  ELSE <<"finish", s>>

OpenDemux ==
  /\ pc = "demux"
  /\ \/ /\ tide_demux_open_fails
        /\ Goes("finish", "RESOURCE") /\ UNCHANGED dropped
     \/ LET bytes == FileBytes([source.file EXCEPT !.size = DemuxSize])
        IN  \E lost \in MayLose(bytes) :
              LET p == ParseLosing(bytes, bytes.size, lost)
              IN  /\ tide_demux_open(bytes, p, job.strict, job.selected_track)
                  /\ dropped' = (dropped \/ Dropped(bytes, p))
                  /\ Goes(AfterDemux(p.status)[1], AfterDemux(p.status)[2])
  /\ UNCHANGED <<muxVars, calls, source, valid_prefix, index, got>>

------------------------------------------------------------------------------
(* The loops of remux_cmd, tide_repair_write and the library callers *)

CreateMux ==
  /\ pc = "create"
  /\ tide_mux_create(job.out, job.write_footer, job.base_valid)
  /\ Goes(IF returned' # "OK" THEN "finish"
          ELSE IF job.command = "write" THEN "calls" ELSE "streams", returned')
  /\ UNCHANGED <<demux, calls, source, valid_prefix, index, got, dropped>>

CopyStream ==
  /\ pc = "streams" /\ index < Len(demux.streams)
  /\ tide_mux_add_stream(demux.streams[index + 1])
  /\ index' = index + 1
  /\ Goes(IF returned' = "OK" THEN "streams" ELSE "close", returned')
  /\ UNCHANGED <<demux, calls, source, valid_prefix, got, dropped>>

StreamsDone ==
  /\ pc = "streams" /\ index >= Len(demux.streams)
  /\ Goes("packets", "OK")
  /\ UNCHANGED <<muxVars, demux, calls, source, valid_prefix, index, got, dropped>>

CopyPacket ==
  /\ pc = "packets" /\ job.command # "read"
  /\ tide_demux_next
  /\ tide_mux_write_packet(NextPacket)
  /\ got' = Append(got, NextPacket)
  /\ Goes(IF returned' = "OK" THEN "packets" ELSE "close", returned')
  /\ UNCHANGED <<calls, source, valid_prefix, index, dropped>>

ReadPacket ==
  /\ pc = "packets" /\ job.command = "read"
  /\ tide_demux_next
  /\ got' = Append(got, NextPacket)
  /\ Goes("packets", status)
  /\ UNCHANGED <<muxVars, calls, source, valid_prefix, index, dropped>>

\* Mutant: the loop tries again at the end of the packets.
PacketsAwaited ==
  /\ pc = "packets" /\ AtEnd
  /\ Goes("packets", status)
  /\ UNCHANGED <<muxVars, demux, calls, source, valid_prefix, index, got, dropped>>

\* tide_demux_next returned WOULD_BLOCK.
PacketsDone ==
  /\ pc = "packets" /\ AtEnd
  /\ Goes(IF job.command = "read" THEN "finish" ELSE "close", status)
  /\ UNCHANGED <<muxVars, demux, calls, source, valid_prefix, index, got, dropped>>

\* A "write" job makes its next call whatever the ones before returned.
WriteCall ==
  /\ pc = "calls" /\ calls < MAX_CALLS
  /\ calls' = calls + 1
  /\ \/ \E s \in Descriptors : tide_mux_add_stream(s)
     \/ \E p \in Packets : tide_mux_write_packet(p)
  /\ Goes("calls", "OK")
  /\ UNCHANGED <<demux, source, valid_prefix, index, got, dropped>>

WriteDone ==
  /\ pc = "calls"
  /\ Goes("close", "OK")
  /\ UNCHANGED <<muxVars, demux, calls, source, valid_prefix, index, got, dropped>>

\* Mutant: a repair that failed closes its muxer too.
ClosesAlways == TRUE

\* tide_repair_write aborts the muxer of a copy that failed, remux_cmd closes it.
Closes == job.command # "repair" \/ status = "OK"

CloseMux ==
  /\ pc = "close" /\ Closes
  /\ tide_mux_close
  /\ Goes("finish", IF status = "OK" THEN returned' ELSE status)
  /\ UNCHANGED <<demux, calls, source, valid_prefix, index, got, dropped>>

\* Mutant: the muxer of a repair that failed is left open.
AbortForgotten ==
  /\ pc = "close" /\ (~Closes \/ job.command = "write")
  /\ Goes("finish", IF status = "OK" THEN "CANCELLED" ELSE status)
  /\ UNCHANGED <<muxVars, demux, calls, source, valid_prefix, index, got, dropped>>

\* A "write" job may give up before it closes.
AbortMux ==
  /\ pc = "close" /\ (~Closes \/ job.command = "write")
  /\ tide_mux_abort
  /\ Goes("finish", IF status = "OK" THEN "CANCELLED" ELSE status)
  /\ UNCHANGED <<demux, calls, source, valid_prefix, index, got, dropped>>

\* The exit code of a command.
status_to_exit(s) ==
  CASE s = "OK" -> 0
    [] s = "INVALID_ARGUMENT" -> 2
    [] s \in {"FORMAT", "UNSUPPORTED", "INTEGRITY", "TIMELINE", "INDEX"} -> 3
    [] s = "RESOURCE" -> 4
    [] s = "CANCELLED" -> 5
    [] s = "PARTIAL" -> 6
    [] OTHER -> 10

\* Mutant: a job that failed does not close its demuxer.
FinishLeaky ==
  /\ pc = "finish"
  /\ IF status = "OK" THEN tide_demux_close ELSE UNCHANGED demux
  /\ source' = [source EXCEPT !.open = FALSE]
  /\ pc' = "idle" /\ exit' = status_to_exit(status)
  /\ valid_prefix' = 0 /\ index' = 0 /\ calls' = 0
  /\ UNCHANGED <<muxVars, job, jobs, status, got, dropped, before>>

\* The cleanup: tide_demux_close, tide_source_destroy, tide_repair_plan_destroy.
Finish ==
  /\ pc = "finish"
  /\ tide_demux_close
  /\ source' = [source EXCEPT !.open = FALSE]
  /\ pc' = "idle" /\ exit' = status_to_exit(status)
  /\ valid_prefix' = 0 /\ index' = 0 /\ calls' = 0
  /\ UNCHANGED <<muxVars, job, jobs, status, got, dropped, before>>

\* The process dies: its memory is gone, its output is what had been written.
Kill ==
  /\ pc # "idle"
  /\ \/ UNCHANGED disk
     \/ /\ pc = "close" /\ Closes /\ (mux.write_footer => FooterFits)
        /\ PartlyFlushed(Finished)
  /\ mux' = NoMux /\ demux' = NoDemux /\ returned' = "OK" /\ accepted' = <<>>
  /\ source' = [source EXCEPT !.open = FALSE]
  /\ valid_prefix' = 0 /\ index' = 0 /\ calls' = 0 /\ got' = <<>>
  /\ pc' = "idle" /\ status' = "OK" /\ exit' = KILLED
  /\ UNCHANGED <<job, jobs, dropped, before>>

Work ==
  \/ tide_source_from_file \/ tide_repair_scan \/ RepairPrefix \/ OpenDemux
  \/ CreateMux \/ CopyStream \/ StreamsDone \/ CopyPacket \/ ReadPacket
  \/ PacketsDone \/ WriteCall \/ WriteDone \/ CloseMux \/ AbortMux \/ Finish

Next == (\E j \in Jobs : Start(j)) \/ Work \/ Kill

\* A job runs on unless it is killed: no library call waits for anything.
Spec == Init /\ [][Next]_vars /\ WF_vars(Work)

------------------------------------------------------------------------------
(* What is on disk, read with tide_parse_tide_bytes *)

ParseOf(f) == tide_parse_tide_bytes(FileBytes(f), f.size)
StreamsOf(f) == Delivered(FileBytes(f), ParseOf(f), "stream")
PacketsOf(f) == Delivered(FileBytes(f), ParseOf(f), "packet")

\* The descriptors and packets of f in the order of the file.
ItemsOf(f) ==
  LET events == ParseOf(f).events
      items == Kept(events, {i \in DOMAIN events : events[i].cb # "record"})
  IN  [i \in DOMAIN items |-> FileBytes(f).frame[items[i].at].body]

\* f is accepted as a whole and ends with a footer.
IsSealed(f) ==
  /\ f.media = "written" /\ f.records # <<>>
  /\ f.records[Len(f.records)].record.type = "FOOTER"
  /\ f.size = f.records[Len(f.records)].at + CrcEnd(f.records[Len(f.records)].record, 0)
  /\ ParseOf(f).status = "OK"

\* No track is declared twice, a packet follows the descriptor of its track and
\* there are not too many tracks: what a "write" job has to see to itself.
Declarations(items) == {i \in DOMAIN items : Declares(items[i])}
WellOrdered(items) ==
  LET declared(i) == \E j \in 1..(i-1) :
                       Declares(items[j]) /\ items[j].track = items[i].track
  IN  /\ \A i \in DOMAIN items : declared(i) = ~Declares(items[i])
      /\ Cardinality(Declarations(items)) <= limits.max_tracks

Torn(f) == \E i \in DOMAIN f.records : f.records[i].parts < 4

------------------------------------------------------------------------------
(* Properties *)

\* Every variable has its type, and a muxer is open only between the calls that
\* create and close it.
TypeOK ==
  /\ job \in Jobs /\ jobs \in 0..MAX_JOBS /\ calls \in 0..MAX_CALLS
  /\ pc \in {"idle", "source", "scan", "prefix", "demux", "create", "streams",
             "packets", "calls", "close", "finish"}
  /\ status \in Status /\ returned \in Status
  /\ DOMAIN disk = Path /\ source.open \in BOOLEAN
  /\ mux.open = \/ pc \in {"streams", "calls", "close"}
                \/ pc = "packets" /\ job.command # "read"
  /\ demux.open \in BOOLEAN

\* A remux or a repair that exits with 0 leaves a file that decodes to the end, with
\* a footer, and holds exactly the descriptors and packets of the complete records
\* of its source, in their order and unchanged, unless the parser passed over a
\* descriptor for want of memory.  The source of a remux decodes to its end.
ExitZeroFaithful ==
  pc = "idle" /\ exit = 0 /\ job.command \in {"remux", "repair"} /\ ~dropped =>
    /\ job.command = "remux" => ParseOf(source.file).status = "OK"
    /\ IsSealed(disk[job.out])
    /\ StreamsOf(disk[job.out]) = StreamsOf(source.file)
    /\ PacketsOf(disk[job.out]) = PacketsOf(source.file)

\* A footer is only ever found at the end of a file that holds everything its
\* muxer had accepted, in order: no failed allocation, write error or kill leaves
\* a shorter file that looks complete.
FooterSeals ==
  pc = "idle" => \A p \in Path : IsSealed(disk[p]) => ItemsOf(disk[p]) = disk[p].holds

\* What tide_mux_close reports as written can be read back, with or without a
\* footer, if its caller declared each track once before its packets and no record
\* was torn by a call that failed.
ClosedReadsBack ==
  /\ pc = "idle" /\ exit = 0 /\ job.command = "write"
  /\ ~Torn(disk[job.out]) /\ WellOrdered(accepted)
  => ParseOf(disk[job.out]).status = "OK" /\ ItemsOf(disk[job.out]) = accepted

\* No two records of a file have the same sequence number, and they increase.
SequencesIncrease ==
  \A p \in Path : \A i, j \in DOMAIN disk[p].records :
    i < j => disk[p].records[i].record.sequence < disk[p].records[j].record.sequence

\* A repair that fails, in whatever call, or is killed leaves no file that looks
\* complete but lacks a descriptor or a packet of its source.
RepairPublishesWhole ==
  /\ pc = "idle" /\ job.command = "repair" /\ ~dropped
  /\ disk[job.out] # before /\ IsSealed(disk[job.out])
  => /\ StreamsOf(disk[job.out]) = StreamsOf(source.file)
     /\ PacketsOf(disk[job.out]) = PacketsOf(source.file)

\* A repair of the file a muxer left on disk, whatever stopped it, that exits with 0
\* recovers exactly the descriptors and packets before the first record that is torn
\* or cut off.
RepairRecovers ==
  LET left == source.file
      whole == {i \in DOMAIN left.records :
                  /\ left.records[i].record.type # "FOOTER"
                  /\ \A j \in 1..i :
                       /\ left.records[j].parts = 4
                       /\ left.records[j].at + CrcEnd(left.records[j].record, 0) <= left.size}
      safe == SubSeq(left.holds, 1, Cardinality(whole))
  IN  pc = "idle" /\ exit = 0 /\ job.command = "repair" /\ ~dropped
        /\ left.media = "written" =>
        /\ StreamsOf(disk[job.out]) = Kept(safe, Declarations(safe))
        /\ PacketsOf(disk[job.out]) = Kept(safe, DOMAIN safe \ Declarations(safe))

\* When a job has ended its muxer, its demuxer and its source have been freed, on
\* every path through its error handling.
NothingLeaked == pc = "idle" => ~mux.open /\ ~demux.open /\ ~source.open

\* A reader that reached the end of the demuxer got every packet of the track it
\* selected, in the order of the file, and no other.
ReaderGetsTrack ==
  LET all == PacketsOf(source.file)
      wanted == {i \in DOMAIN all : job.selected_track \in {0, all[i].track[1]}}
  IN  pc = "idle" /\ job.command = "read" /\ exit \in {0, 6} /\ ~dropped
        /\ (job.strict => exit = 0) =>
        /\ Len(got) = Cardinality(wanted)
        /\ \A i \in wanted : got[Cardinality({j \in wanted : j <= i})] = all[i]

\* Every job that was started ends.
JobEnds == (pc # "idle") ~> (pc = "idle")

(* What the documents say and the code does not do *)

\* "accepted output validates; ... failed output unpublished"
\* (04_tide_streaming_media_container.md): a remux that was not killed leaves no file that looks
\* complete but lacks a descriptor or a packet of its source.
RemuxPublishesWhole ==
  /\ pc = "idle" /\ exit # KILLED /\ job.command = "remux" /\ ~dropped
  /\ disk[job.out] # before /\ IsSealed(disk[job.out])
  => /\ StreamsOf(disk[job.out]) = StreamsOf(source.file)
     /\ PacketsOf(disk[job.out]) = PacketsOf(source.file)

\* "accepted output validates" (04_tide_streaming_media_container.md): a file that
\* tide_mux_close returned OK for decodes to the end, if its caller declared each
\* track once before its packets.
AcceptedValidates ==
  pc = "idle" /\ exit = 0 /\ job.command = "write" /\ WellOrdered(accepted)
  => ParseOf(disk[job.out]).status = "OK"

=============================================================================
