------------------------------ MODULE Listener ------------------------------
(***************************************************************************)
(* The pre-processor's packet loop, src/rtrace/listener.c: it reads the    *)
(* packets of a traced process from a pipe, forwards them to the log file  *)
(* or the post-processor, and adds a memory mapping packet for every       *)
(* executable mapping of the process that is new or has changed.           *)
(*                                                                         *)
(* The traced process writes at most BufferSize cells at a time, in whole  *)
(* packets, and a write to a pipe of that size is atomic.  A packet of     *)
(* kind k has Size[k] cells; its header is in the first.                   *)
(***************************************************************************)
EXTENDS Integers, Sequences, SequencesExt

CONSTANTS
    BufferSize,     \* BUFFER_SIZE; both buffers are twice as large
    Size,           \* the number of cells of a packet, by its kind
    Writes,         \* the writes of the process: sequences of packet kinds
    Layouts,        \* the contents /proc/<pid>/maps may have, see mapping
    Buffered,       \* ~rtrace_options.disable_packet_buffering
    Outputs,        \* what the user may have asked for: "file", "postproc"
    OpenMayFail,    \* environment: the log file cannot be created, and the
                    \* post-processor not be started
    WriteMayFail,   \* environment: a write to the output may fail
    RequestStop,    \* REQUEST_STOP
    MaxInterrupts   \* bound: SIGINT signals delivered

(* FC stands for every packet that is only forwarded.                      *)
Kinds == {"HS", "OS", "PI", "NL", "AT", "FC", "MM"}

ASSUME SizeAssumption ==
    /\ BufferSize \in Nat \ {0}
    /\ Size \in [Kinds -> 1 .. BufferSize]
    /\ Size["HS"] < BufferSize
    /\ RequestStop \in Nat \ {0}
    /\ Outputs \subseteq {"file", "postproc"}
    /\ {Buffered, OpenMayFail, WriteMayFail} \subseteq BOOLEAN
    /\ Layouts \in Seq(Seq([from : Nat, to : Nat, module : STRING]))
    /\ Layouts # <<>>

(* The process writes the handshake first and the output settings second,  *)
(* see MainModule; the memory mapping packets are the pre-processor's.     *)
ASSUME WritesAssumption ==
    /\ Writes \in Seq(Seq(Kinds \ {"MM"}))
    /\ Len(Writes) > 0 => Len(Writes[1]) > 1
    /\ \A w \in DOMAIN Writes : \A k \in DOMAIN Writes[w] :
          /\ Writes[w][k] = "HS" <=> w = 1 /\ k = 1
          /\ Writes[w][k] = "OS" <=> w = 1 /\ k = 2

VARIABLES
    written,        \* how many of the Writes are done
    closed,         \* the process has closed its end of the pipe
    layout,         \* the layout of its memory, 0 when it has exited
    pipe,           \* the cells in the pipe
    buffer,         \* the input buffer of process_data
    ptr_in,         \* ptr_in - buffer
    n,              \* the number of cells at ptr_in
    pc,             \* where process_data is
    rc,             \* what it returns
    hs_buffer,      \* the cached handshake packet
    fd_out,         \* 0 before the output is connected, -1 when that failed
    output_buffer,  \* the cells up to output_buffer_head
    out,            \* what the output has received
    s_mmaps,        \* the memory mapping cache
    scanned,        \* history: the layout the last scan found
    stops           \* rtrace_stop_requests

vars == <<written, closed, layout, pipe, buffer, ptr_in, n, pc, rc, hs_buffer,
          fd_out, output_buffer, out, s_mmaps, scanned, stops>>
targetVars == <<written, closed, layout>>
outputVars == <<fd_out, output_buffer, out>>

(* A mapping is [from, to, module]; to is the first address behind it.     *)
NoMap == [from |-> 0, to |-> 0, module |-> ""]
Cells(kind, p, map) ==
    [i \in 1 .. Size[kind] |-> [kind |-> kind, p |-> p, i |-> i, map |-> map]]
Blank == [kind |-> "FC", p |-> <<0, 0>>, i |-> 0, map |-> NoMap]

(* The cells of write w, whose packet k is packet <<w, k>>, and those of   *)
(* the first w writes.                                                     *)
WriteCells(w) ==
    FlattenSeq([k \in DOMAIN Writes[w] |-> Cells(Writes[w][k], <<w, k>>, NoMap)])
Sent[w \in 0 .. Len(Writes)] ==
    IF w = 0 THEN <<>> ELSE Sent[w - 1] \o WriteCells(w)

-----------------------------------------------------------------------------
Init ==
    /\ written = 0
    /\ closed = FALSE
    /\ layout = 1
    /\ pipe = <<>>
    /\ buffer = [j \in 0 .. 2 * BufferSize - 1 |-> Blank]
    /\ ptr_in = 0
    /\ n = 0
    /\ pc = "handshake"
    /\ rc = 0
    /\ hs_buffer = <<>>
    /\ fd_out = 0
    /\ output_buffer = <<>>
    /\ out = <<>>
    /\ s_mmaps = <<>>
    /\ scanned = 0
    /\ stops = 0

-----------------------------------------------------------------------------
(* The traced process, external to this component.                         *)

WriteToPipe ==
    /\ ~closed
    /\ written < Len(Writes)
    /\ written' = written + 1
    /\ pipe' = pipe \o WriteCells(written + 1)
    /\ UNCHANGED <<closed, layout, buffer, ptr_in, n, pc, rc, hs_buffer,
                   outputVars, s_mmaps, scanned, stops>>

CloseWriter ==
    /\ ~closed
    /\ closed' = TRUE
    /\ UNCHANGED <<written, layout, pipe, buffer, ptr_in, n, pc, rc, hs_buffer,
                   outputVars, s_mmaps, scanned, stops>>

(* Libraries are loaded and unloaded; the process exits.                   *)
ChangeLayout ==
    /\ layout # 0
    /\ layout' \in (DOMAIN Layouts \ {layout}) \cup (IF closed THEN {0} ELSE {})
    /\ UNCHANGED <<written, closed, pipe, buffer, ptr_in, n, pc, rc, hs_buffer,
                   outputVars, s_mmaps, scanned, stops>>

-----------------------------------------------------------------------------
(* The output.  w is the state of the output buffer, with ok saying that   *)
(* nothing failed; fd is fd_out and works tells whether write() succeeds.  *)

FlushData(w, fd, works) ==
    CASE ~(fd > 0 /\ w.buf # <<>>) -> [w EXCEPT !.buf = <<>>]
      [] fd > 0 /\ w.buf # <<>> /\ works ->
            [buf |-> <<>>, out |-> w.out \o w.buf, ok |-> TRUE]
      [] OTHER -> [w EXCEPT !.ok = FALSE]

(* Mutant: flushing when the whole buffer, not its first half, is full.    *)
WriteDataLate(w, data, fd, works) ==
    LET stored == [w EXCEPT !.buf = @ \o data]
    IN  IF ~Buffered
        THEN IF fd > 0 /\ works THEN [w EXCEPT !.out = @ \o data]
                                ELSE [w EXCEPT !.ok = FALSE]
        ELSE IF Len(stored.buf) >= 2 * BufferSize
             THEN FlushData(stored, fd, works)
             ELSE stored

WriteData(w, data, fd, works) ==
    LET stored == [w EXCEPT !.buf = @ \o data]
    IN  IF ~Buffered
        THEN IF fd > 0 /\ works THEN [w EXCEPT !.out = @ \o data]
                                ELSE [w EXCEPT !.ok = FALSE]
        ELSE IF Len(stored.buf) >= BufferSize
             THEN FlushData(stored, fd, works)
             ELSE stored

Output == [buf |-> output_buffer, out |-> out, ok |-> TRUE]
Works == IF WriteMayFail THEN BOOLEAN ELSE {TRUE}
SetOutput(w) == output_buffer' = w.buf /\ out' = w.out

-----------------------------------------------------------------------------
(* scan_mmap_data.  A mapping that touches the next one counts as          *)
(* overlapping it.                                                         *)

(* Mutant: the module is not compared.                                     *)
SameRange(map1, map2) == map1.from = map2.from /\ map1.to = map2.to
SameMapping(map1, map2) == map1 = map2

RangeCompare(map1, map2) == ~(map1.to < map2.from) /\ ~(map1.from > map2.to)

ScanMapping(s, map, works) ==
    LET first == SelectInSeq(s.maps, LAMBDA m : RangeCompare(m, map))
    IN  IF ~s.w.ok \/ (first # 0 /\ SameMapping(s.maps[first], map))
        THEN s
        ELSE [maps |-> Append(IF first = 0 THEN s.maps
                              ELSE RemoveAt(s.maps, first), map),
              w |-> WriteData(s.w, Cells("MM", <<0, 0>>, map), fd_out, works)]

ScanMmapData(works) ==
    LET maps == IF layout = 0 THEN <<>> ELSE Layouts[layout]
        scan[k \in 0 .. Len(maps)] ==
            IF k = 0 THEN [maps |-> s_mmaps, w |-> Output]
            ELSE ScanMapping(scan[k - 1], maps[k], works)
    IN  scan[Len(maps)]

-----------------------------------------------------------------------------
(* process_data.                                                           *)

MinOf(a, b) == IF a < b THEN a ELSE b
Drop(s, k) == SubSeq(s, k + 1, Len(s))
(* The input buffer with the cells data stored from position from on.      *)
Stored(from, data) ==
    [j \in DOMAIN buffer |->
        IF j \in from .. from + Len(data) - 1 THEN data[j - from + 1]
        ELSE buffer[j]]
Available(from, count) == [j \in 1 .. count |-> buffer[from + j - 1]]

Finish(code) ==
    /\ pc' = "done"
    /\ rc' = code
    /\ \E works \in Works : SetOutput(FlushData(Output, fd_out, works))
Abort(code) ==
    /\ pc' = "done"
    /\ rc' = code
    /\ UNCHANGED <<output_buffer, out>>

(* The first read and process_handshake.                                   *)
ReadHandshake ==
    /\ pc = "handshake"
    /\ pipe # <<>>
    /\ LET nbytes == MinOf(Len(pipe), BufferSize - 1)
           len == Size[pipe[1].kind]
       IN  /\ buffer' = Stored(0, SubSeq(pipe, 1, nbytes))
           /\ pipe' = Drop(pipe, nbytes)
           /\ IF len > nbytes
              THEN /\ Abort(-1)
                   /\ UNCHANGED <<hs_buffer, ptr_in, n>>
              ELSE /\ hs_buffer' = SubSeq(pipe, 1, len)
                   /\ ptr_in' = len
                   /\ n' = nbytes - len
                   /\ pc' = "packets"
                   /\ UNCHANGED <<rc, output_buffer, out>>
    /\ UNCHANGED <<targetVars, fd_out, s_mmaps, scanned, stops>>

NothingWritten ==
    /\ pc = "handshake"
    /\ pipe = <<>>
    /\ closed
    /\ Abort(0)
    /\ UNCHANGED <<targetVars, pipe, buffer, ptr_in, n, hs_buffer, fd_out,
                   s_mmaps, scanned, stops>>

(* The type and length that process_packet finds at ptr_in: those of the   *)
(* packet, or anything when ptr_in is not at the start of one.             *)
Header(cell) ==
    IF cell.i = 1 THEN {<<cell.kind, Size[cell.kind]>>}
    ELSE Kinds \X (1 .. BufferSize)
Consume(len) == ptr_in' = ptr_in + len /\ n' = n - len
Kept == UNCHANGED <<ptr_in, n>> /\ pc' = "move"

(* The descriptors rtrace_connect_output may return: that of a new log     *)
(* file, -1 when it cannot be created, or that of a pipe to a process that *)
(* becomes the post-processor (-P).  Without the pipe or the process the   *)
(* pre-processor exits at once, see NoPostproc.                            *)
OpenOutputFile == {1} \cup (IF OpenMayFail THEN {-1} ELSE {})
OpenPostprocPipe == {1}
ConnectOutput ==
    UNION {IF o = "postproc" THEN OpenPostprocPipe ELSE OpenOutputFile : o \in Outputs}

(* rtrace_connect_output, then the cached handshake and the packet itself. *)
OutputSettings(len, works) ==
    /\ fd_out' \in ConnectOutput
    /\ LET connected == [buf |-> output_buffer, out |-> <<>>, ok |-> TRUE]
           w == WriteData(connected, hs_buffer, fd_out', works)
       IN  IF w.ok
           THEN /\ SetOutput(WriteData(w, Available(ptr_in, len), fd_out',
                                       works))
                /\ Consume(len)
                /\ UNCHANGED pc
           ELSE SetOutput(w) /\ Kept
    /\ UNCHANGED <<s_mmaps, scanned>>

(* open_postproc_pipe: pipe() or fork() fails, exit(-1).                   *)
NoPostproc ==
    /\ pc = "packets"
    /\ "postproc" \in Outputs /\ OpenMayFail
    /\ n >= 1
    /\ <<"OS", Size["OS"]>> \in Header(buffer[ptr_in])
    /\ Size["OS"] <= n
    /\ Abort(-1)
    /\ UNCHANGED <<targetVars, pipe, buffer, ptr_in, n, hs_buffer, fd_out,
                   s_mmaps, scanned, stops>>

(* Mutant: the new library packet is forwarded as well.                    *)
NewLibraryForwarded(len, works) ==
    /\ LET s == ScanMmapData(works)
       IN  /\ s_mmaps' = s.maps
           /\ SetOutput(WriteData(s.w, Available(ptr_in, len), fd_out, works))
    /\ scanned' = IF layout = 0 THEN scanned ELSE layout
    /\ Consume(len)
    /\ UNCHANGED <<fd_out, pc>>
NewLibrary(len, works) ==
    /\ LET s == ScanMmapData(works)
       IN  s_mmaps' = s.maps /\ SetOutput(s.w)
    /\ scanned' = IF layout = 0 THEN scanned ELSE layout
    /\ Consume(len)
    /\ UNCHANGED <<fd_out, pc>>

(* What write_data returns is ignored.  The zero timestamp of a process    *)
(* info packet is replaced in the buffer, an attachment is checked: both   *)
(* packets are forwarded like the others.                                  *)
Forward(len, works) ==
    /\ SetOutput(WriteData(Output, Available(ptr_in, len), fd_out, works))
    /\ Consume(len)
    /\ UNCHANGED <<fd_out, s_mmaps, scanned, pc>>

ProcessPacket ==
    /\ pc = "packets"
    /\ n >= 1
    /\ \E header \in Header(buffer[ptr_in]), works \in Works :
          LET len == header[2]
          IN  /\ len <= n
              /\ CASE header[1] = "OS" -> OutputSettings(len, works)
                   [] header[1] = "NL" -> NewLibrary(len, works)
                   [] OTHER -> Forward(len, works)
    /\ UNCHANGED <<targetVars, pipe, buffer, rc, hs_buffer, stops>>

(* process_packet returns -1: what is left is not a whole packet.          *)
LastPacket ==
    /\ pc = "packets"
    /\ n = 0 \/ \E header \in Header(buffer[ptr_in]) : header[2] > n
    /\ pc' = "move"
    /\ UNCHANGED <<targetVars, pipe, buffer, ptr_in, n, rc, hs_buffer,
                   outputVars, s_mmaps, scanned, stops>>

(* Mutant: the incomplete packet is left where it is.                      *)
MoveRemainderNot ==
    /\ pc = "move"
    /\ pc' = "read"
    /\ UNCHANGED <<targetVars, pipe, buffer, ptr_in, n, rc, hs_buffer,
                   outputVars, s_mmaps, scanned, stops>>
MoveRemainder ==
    /\ pc = "move"
    /\ buffer' = Stored(0, Available(ptr_in, n))
    /\ pc' = "read"
    /\ UNCHANGED <<targetVars, pipe, ptr_in, n, rc, hs_buffer, outputVars,
                   s_mmaps, scanned, stops>>

ReadPipe ==
    /\ pc = "read"
    /\ pipe # <<>>
    /\ LET nbytes == MinOf(Len(pipe), BufferSize)
       IN  /\ buffer' = Stored(n, SubSeq(pipe, 1, nbytes))
           /\ pipe' = Drop(pipe, nbytes)
           /\ IF stops >= RequestStop
              THEN Finish(0) /\ UNCHANGED <<ptr_in, n>>
              ELSE /\ n' = n + nbytes
                   /\ ptr_in' = 0
                   /\ pc' = "packets"
                   /\ UNCHANGED <<rc, output_buffer, out>>
    /\ UNCHANGED <<targetVars, hs_buffer, fd_out, s_mmaps, scanned, stops>>

(* Mutants: the end of the pipe is taken for a read to be repeated, or     *)
(* what is in the output buffer is left there.                             *)
EndOfPipeRetries ==
    /\ pc = "read"
    /\ pipe = <<>>
    /\ closed
    /\ pc' = "packets"
    /\ UNCHANGED <<targetVars, pipe, buffer, ptr_in, n, rc, hs_buffer,
                   outputVars, s_mmaps, scanned, stops>>
EndOfPipeNoFlush ==
    /\ pc = "read"
    /\ pipe = <<>>
    /\ closed
    /\ Abort(0)
    /\ UNCHANGED <<targetVars, pipe, buffer, ptr_in, n, hs_buffer, fd_out,
                   s_mmaps, scanned, stops>>
EndOfPipe ==
    /\ pc = "read"
    /\ pipe = <<>>
    /\ closed
    /\ Finish(0)
    /\ UNCHANGED <<targetVars, pipe, buffer, ptr_in, n, hs_buffer, fd_out,
                   s_mmaps, scanned, stops>>

(* SIGINT: sigint_handler counts it (and asks the process to stop tracing, *)
(* which is CloseWriter).  A read that waits fails with EINTR; a read that *)
(* finds data returns them.                                                *)
Waiting == pipe = <<>> /\ ~closed

Interrupt ==
    /\ pc # "done"
    /\ stops < MaxInterrupts
    /\ stops' = stops + 1
    /\ CASE pc = "handshake" /\ Waiting -> Abort(-1)
         [] pc = "read" /\ Waiting /\ stops' >= RequestStop -> Finish(0)
         [] pc = "read" /\ Waiting /\ stops' < RequestStop ->
              pc' = "packets" /\ UNCHANGED <<rc, output_buffer, out>>
         [] OTHER -> UNCHANGED <<pc, rc, output_buffer, out>>
    /\ UNCHANGED <<targetVars, pipe, buffer, ptr_in, n, hs_buffer, fd_out,
                   s_mmaps, scanned>>

-----------------------------------------------------------------------------
ProcessData ==
    \/ ReadHandshake \/ NothingWritten
    \/ ProcessPacket \/ NoPostproc \/ LastPacket
    \/ MoveRemainder \/ ReadPipe \/ EndOfPipe

Next ==
    \/ WriteToPipe \/ CloseWriter \/ ChangeLayout
    \/ ProcessData
    \/ Interrupt

Spec == Init /\ [][Next]_vars

(* The pre-processor runs; nothing is assumed about the process.           *)
FairSpec == Spec /\ WF_vars(ProcessData)

-----------------------------------------------------------------------------
(* Properties.                                                             *)

(* How many cells the process's packets handled so far had: those read     *)
(* less those still in the input buffer.                                   *)
SentCells == Sent[written]
Handled == Len(SentCells) - Len(pipe) - n

(* process_packet is never given the middle of a packet: the packets stay  *)
(* aligned over reads that end inside one and reads that are interrupted   *)
(* (where ptr_in still points behind the packets handled before).          *)
Synchronized == pc = "packets" /\ n > 0 => buffer[ptr_in].i = 1

(* Neither buffer can overflow: a read of BUFFER_SIZE fits behind the      *)
(* incomplete packet, and the largest packet fits behind what waits in the *)
(* output buffer, wherever reads and flushes have cut the stream.          *)
BuffersFit ==
    /\ pc = "read" => n + BufferSize <= 2 * BufferSize
    /\ Len(output_buffer) + BufferSize <= 2 * BufferSize

(* The cells of s except those of packets of a kind.                       *)
Without(s, kind) ==
    LET kept[k \in 0 .. Len(s)] ==
            IF k = 0 THEN <<>>
            ELSE kept[k - 1] \o (IF s[k].kind = kind THEN <<>> ELSE <<s[k]>>)
    IN  kept[Len(s)]

(* The packets of the process are forwarded in their order and each once,  *)
(* the handshake first, however the reads cut the stream; only the new     *)
(* library packets are not.                                                *)
ForwardedInOrder ==
    fd_out = 1 /\ pc # "done" =>
        Without(out \o output_buffer, "MM") =
            Without(SubSeq(SentCells, 1, Handled), "NL")

(* When the process closes the pipe, whatever it wrote is in the output,   *)
(* unless the user has insisted on stopping at once.                       *)
DrainedAtEnd ==
    pc = "done" /\ rc = 0 /\ stops < RequestStop /\ fd_out = 1 =>
        /\ output_buffer = <<>>
        /\ Without(out, "MM") = Without(SentCells, "NL")

(* Whoever follows the memory mapping packets knows what is mapped where:  *)
(* of those that share an address with a mapping the last scan found, the  *)
(* last one written is for that mapping.                                   *)
Shares(map1, map2) == map1.from < map2.to /\ map2.from < map1.to
MapsAnnounced ==
    scanned # 0 /\ fd_out = 1 /\ pc # "done" =>
        \A map \in ToSet(Layouts[scanned]) :
            LET all == out \o output_buffer
                last == SelectLastInSeq(all, LAMBDA c : /\ c.kind = "MM"
                                                        /\ Shares(c.map, map))
            IN  last # 0 /\ all[last].map = map

(* Once the process has closed the pipe the pre-processor comes to an end. *)
Terminates == closed ~> pc = "done"
=============================================================================
