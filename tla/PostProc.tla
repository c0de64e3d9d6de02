------------------------------ MODULE PostProc ------------------------------
(***************************************************************************)
(* sp-rtrace-postproc: the binary packets of a trace are read into the     *)
(* trace data, the filters the options ask for are applied in a fixed      *)
(* order, and the result is written as text, plain or compressed, with the *)
(* leak summary.  The text may be post-processed again: the model reads    *)
(* back what it wrote.                                                     *)
(*                                                                         *)
(* The trace data is the log of calls and backtraces of CallLog; calls     *)
(* with equal frames share one backtrace.                                  *)
(***************************************************************************)
EXTENDS Integers, Sequences, FiniteSets, SequencesExt

CONSTANTS TypeName,    \* TypeName[id]: the type of the id-th resource
          RefCounted,  \* types with the reference count flag
          Ids,         \* resource ids (addresses, descriptors)
          Contexts,    \* context masks of calls: the sets of their bits
          Texts,       \* paths and names, each the sequence of its words; an
                       \* empty first word stands for a leading blank
          ArgLists,    \* lists of argument values, which are texts
          Backtraces,  \* sequences of frames
          Options,     \* the option sets the post-processor is run with
          MaxCalls,    \* bound on the calls and other records in the trace
          MaxMarked,   \* bound on the contexts and arguments of the calls
                       \* and on the other records
          Day          \* timestamps are taken modulo a day

VARIABLES
    stage,      \* the step of main()
    opts,       \* postproc_options, chosen when the data has been read
    rd,         \* the trace data: resources, calls, other records, and the
                \* filters its header names
    prev,       \* index of fcall_prev in rd.calls, 0: NULL
    clock,      \* the traced program's clock
    input,      \* the calls that were read, before any filter
    written,    \* the trace data as it was when it was written
    lines,      \* the text log
    totals      \* what the leak summary prints, by resource type

vars == <<stage, opts, rd, prev, clock, input, written, lines, totals>>

\* Of the options only the filters matter, and they run after the reader.
Unset == [leaks |-> FALSE]

Init ==
    /\ stage = "read"
    /\ opts = Unset
    /\ rd = [resources |-> << >>, calls |-> << >>, records |-> << >>, filter |-> {}]
    /\ prev = 0
    /\ clock = 0
    /\ input = << >>
    /\ written = rd
    /\ lines = << >>
    /\ totals = << >>

-----------------------------------------------------------------------------
(***************************************************************************)
(* The binary reader.                                                      *)
(***************************************************************************)
Read == stage = "read" /\ UNCHANGED <<stage, opts, written, lines, totals>>

Marks == Len(SelectSeq(rd.calls, LAMBDA c : c.context # {}))
         + Len(SelectSeq(rd.calls, LAMBDA c : c.args # << >>))
         + Len(rd.records)
Room == Len(rd.calls) + Len(rd.records) < MaxCalls

\* RR: res_index[id] = res.  The packets come with the initial data.
ReadResource ==
    LET id == Len(rd.resources) + 1
    IN /\ Read
       /\ id \in DOMAIN TypeName
       /\ rd.calls = << >>
       /\ rd' = [rd EXCEPT !.resources = Append(@, [type |-> TypeName[id], id |-> id, hide |-> FALSE])]
       /\ prev' = 0
       /\ UNCHANGED <<clock, input>>

\* FC: the call refers to its resource record; it has no backtrace yet.
ReadCall(type, res, id, context) ==
    LET call == [index |-> Len(rd.calls) + 1, type |-> type, res |-> res, id |-> id,
                 context |-> context, stamp |-> clock % Day, args |-> << >>,
                 traced |-> FALSE, trace |-> << >>, depth |-> 0]
    IN /\ Read
       /\ Room
       /\ context # {} => Marks < MaxMarked
       /\ prev = 0    \* the tracer ends every call with a backtrace packet
       /\ rd' = [rd EXCEPT !.calls = Append(@, call)]
       /\ prev' = Len(rd.calls) + 1
       /\ UNCHANGED <<clock, input>>

\* FA: the list of the argument values, as the program passed them.
ReadArgs(args) ==
    /\ Read
    /\ prev # 0
    /\ Marks < MaxMarked
    /\ rd' = [rd EXCEPT !.calls[prev].args = args]
    /\ UNCHANGED <<prev, clock, input>>

Traced(c, bt) == [c EXCEPT !.traced = TRUE, !.trace = bt, !.depth = Len(bt)]

\* BT: a backtrace that no call precedes is dropped.
ReadBacktrace(bt) ==
    /\ Read
    /\ prev # 0
    /\ rd' = [rd EXCEPT !.calls[prev] = Traced(@, bt)]
    /\ prev' = 0
    /\ UNCHANGED <<clock, input>>

\* The other packets are kept in the lists of their kinds: memory mappings (MM)
\* by the path of the file, tracing modules (MI) by their names, attachments
\* (FILE) by their paths.  PI sets the process data, which every trace has.
Stored(records) ==
    /\ Read
    /\ prev = 0    \* as above
    /\ Room /\ Marks < MaxMarked
    /\ rd' = [rd EXCEPT !.records = records]
    /\ prev' = 0
    /\ UNCHANGED <<clock, input>>

ReadRecord(kind, text) ==
    Stored(Append(rd.records, [kind |-> kind, id |-> 0, text |-> text]))

\* CR: a context is one bit of the masks.
ReadContext(id, text) ==
    Stored(Append(rd.records, [kind |-> "context", id |-> id, text |-> text]))

\* HI: the last one counts.
ReadHeapInfo ==
    Stored(Append(SelectSeq(rd.records, LAMBDA rec : rec.kind # "heap"),
                  [kind |-> "heap", id |-> 0, text |-> << >>]))

\* Time passes between two calls.
Tick ==
    /\ Read
    /\ clock < Day
    /\ Len(rd.calls) \in 1..(MaxCalls - 1) /\ prev = 0
    /\ Last(rd.calls).stamp = clock
    /\ clock' = clock + 1
    /\ UNCHANGED <<rd, prev, input>>

\* The end of the data, or a packet of an unknown type.  The trace of a process
\* that was killed may end before the backtrace of its last call.
EndOfData ==
    /\ stage = "read"
    /\ stage' = "trim"
    /\ opts' \in Options
    /\ input' = rd.calls
    /\ UNCHANGED <<rd, prev, clock, written, lines, totals>>

-----------------------------------------------------------------------------
(***************************************************************************)
(* The filters, in the order of main().                                    *)
(***************************************************************************)
Then(from, to, data) ==
    /\ stage = from
    /\ stage' = to
    /\ rd' = data
    /\ UNCHANGED <<opts, prev, clock, input, written, lines, totals>>

Keep(data, kept) == [data EXCEPT !.calls = SelectSeq(@, LAMBDA c : c \in kept)]
CallsOf(data) == ToSet(data.calls)

Lower(m, n) == IF m < n THEN m ELSE n

\* Only the number of frames changes, not the shared backtrace itself.
filter_trim_backtraces ==
    Then("trim", "resource",
         IF opts.depth = -1 THEN rd
         ELSE [rd EXCEPT !.calls = [i \in DOMAIN @ |->
                  [@[i] EXCEPT !.depth = Lower(@, opts.depth)]]])

\* The position of a type's record in rd.resources, 0 if it has none.
Record(data, type) ==
    LET at == {r \in DOMAIN data.resources : data.resources[r].type = type}
    IN IF at = {} THEN 0 ELSE CHOOSE r \in at : \A s \in at : r <= s

\* Mutant: the calls of the other types stay.
filter_resource_records ==
    Then("resource", "range",
         IF opts.resource = {} THEN rd
         ELSE [rd EXCEPT !.resources = SelectSeq(@, LAMBDA r : r.id \in opts.resource)])

\* The mask is of 1 << (id - 1); a call without a resource record is kept.
filter_resource ==
    LET Selected(type) ==
            Record(rd, type) # 0 => rd.resources[Record(rd, type)].id \in opts.resource
    IN Then("resource", "range",
            IF opts.resource = {} THEN rd
            ELSE [rd EXCEPT !.resources = SelectSeq(@, LAMBDA r : r.id \in opts.resource),
                            !.calls = SelectSeq(@, LAMBDA c : Selected(c.res))])

\* Nothing is filtered when the target of the range is not mapped.  A call
\* without a backtrace ends the program: call->trace is NULL.
filter_call_address_range ==
    /\ stage = "range"
    /\ IF opts.range = {} \/ ~opts.mapped
       THEN Then("range", "include", rd)
       ELSE Then("range",
                 IF \A i \in DOMAIN rd.calls : rd.calls[i].traced THEN "include" ELSE "crashed",
                 Keep(rd, {c \in CallsOf(rd) : \E i \in 1..c.depth : c.trace[i] \in opts.range}))

\* The events are those listed in a file.
fcall_filter_index(include, events) ==
    Keep(rd, {c \in CallsOf(rd) : (c.index \in events) = include})
filter_include ==
    Then("include", "exclude",
         IF opts.include = {} THEN rd ELSE fcall_filter_index(TRUE, opts.include))
filter_exclude ==
    Then("exclude", "context",
         IF opts.exclude = {} THEN rd ELSE fcall_filter_index(FALSE, opts.exclude))

\* The bits that are asked for; none: the calls outside of all contexts.  No
\* context record has a bit of the empty mask.
context_filter_mask(rec) == rec.kind = "context" => rec.id \in opts.context
fcall_filter_context(c) ==
    IF opts.context = {} THEN c.context = {} ELSE c.context \cap opts.context # {}

filter_context ==
    Then("context", "leaks",
         IF ~opts.by_context THEN rd
         ELSE [rd EXCEPT !.records = SelectSeq(@, context_filter_mask),
                         !.calls = SelectSeq(@, fcall_filter_context)])

\* fcall_remove_freed, for one call: the index table maps a resource to the
\* last allocation that is not freed, and its references.
fcall_remove_freed(acc, call) ==
    LET key == <<call.res, call.id>>
        known == key \in DOMAIN acc.table
        counted == call.res \in RefCounted
        With(rec) == [k \in DOMAIN acc.table \cup {key} |-> IF k = key THEN rec ELSE acc.table[k]]
        Without == [k \in DOMAIN acc.table \ {key} |-> acc.table[k]]
        Plus(d) == With([acc.table[key] EXCEPT !.ref_count = @ + d])
    IN CASE call.type = "alloc" /\ known /\ counted ->
              [table |-> Plus(1), removed |-> acc.removed \cup {call.index}]
         [] call.type = "alloc" /\ ~(known /\ counted) ->
              [table |-> With([call |-> call.index, ref_count |-> 1]), removed |-> acc.removed]
         [] call.type = "free" /\ known /\ (~counted \/ acc.table[key].ref_count = 1) ->
              [table |-> Without,
               removed |-> acc.removed \cup {call.index, acc.table[key].call}]
         [] call.type = "free" /\ known /\ counted /\ acc.table[key].ref_count # 1 ->
              [table |-> Plus(-1), removed |-> acc.removed \cup {call.index}]
         [] OTHER ->
              [table |-> acc.table, removed |-> acc.removed \cup {call.index}]

LeaksOf(calls) ==
    LET end == FoldLeft(fcall_remove_freed, [table |-> << >>, removed |-> {}], calls)
    IN SelectSeq(calls, LAMBDA c : c.index \notin end.removed)

filter_leaks ==
    Then("leaks", "visibility", IF opts.leaks THEN [rd EXCEPT !.calls = LeaksOf(@)] ELSE rd)

\* A single resource type is given the id 1 and is not printed with the calls.
filter_update_resource_visibility ==
    Then("visibility", "write",
         IF Len(rd.resources) # 1 THEN rd
         ELSE [rd EXCEPT !.resources[1].hide = TRUE, !.resources[1].id = 1])

-----------------------------------------------------------------------------
(***************************************************************************)
(* The writer.                                                             *)
(***************************************************************************)
Ffs(mask) == CHOOSE b \in 1..32 : mask % 2^b # 0 /\ mask % 2^(b - 1) = 0

print_resource(r) == [line |-> "resource", mask |-> 2^(r.id - 1), type |-> r.type]

\* Texts are printed as they are, one argument a line.
print_args(args) == [i \in DOMAIN args |-> [line |-> "arg", text |-> args[i]]]

\* The type is left out when it is hidden or unknown, the time when it is 0.
print_call(c) ==
    LET r == Record(rd, c.res)
    IN <<[line |-> "call", index |-> c.index, type |-> c.type, id |-> c.id,
          context |-> c.context, stamp |-> c.stamp,
          res |-> IF r = 0 \/ rd.resources[r].hide THEN "" ELSE c.res]>>
       \o print_args(c.args)

\* One line for each frame and an empty one; nothing without a backtrace.
print_trace(c) ==
    IF ~c.traced THEN << >>
    ELSE [i \in 1..c.depth |-> [line |-> "frame", frame |-> c.trace[i]]]
         \o <<[line |-> "empty"]>>

Flat(seqs) == FoldLeft(LAMBDA s, t : s \o t, << >>, seqs)
Mapped(Op(_), seq) == [i \in DOMAIN seq |-> Op(seq[i])]

\* write_compressed_backtrace: the calls of a backtrace, a comment, the trace.
Group(calls) ==
    Flat(Mapped(print_call, calls)) \o <<[line |-> "summary"]>> \o print_trace(calls[1])

\* leak_size: the block sizes, 1 for an allocation and 0 for a release.
GroupSize(calls) == Len(SelectSeq(calls, LAMBDA c : c.type = "alloc"))

\* leaks_sort: the backtraces in the order of their size.  The order of the
\* table they come from is that of their hashes, hence any.  A call without a
\* backtrace is not in the table.
Sorted(groups) == \A i \in 1..(Len(groups) - 1) : GroupSize(groups[i]) <= GroupSize(groups[i + 1])

CompressedCalls ==
    LET traced == SelectSeq(rd.calls, LAMBDA c : c.traced)
        Of(bt) == SelectSeq(traced, LAMBDA c : c.trace = bt)
        groups == {Of(traced[i].trace) : i \in DOMAIN traced}
    IN {Flat(Mapped(Group, order)) : order \in {s \in SetToSeqs(groups) : Sorted(s)}}

PlainCalls == Flat(Mapped(LAMBDA c : print_call(c) \o print_trace(c), rd.calls))

\* Mutant: added up at id.
LeakTotalsAtId ==
    LET Sum(index) == Len(SelectSeq(rd.calls, LAMBDA c :
                /\ c.type = "alloc"
                /\ LET r == Record(rd, c.res)
                   IN index = IF r = 0 THEN 0 ELSE rd.resources[r].id))
    IN [r \in DOMAIN rd.resources |-> Sum(Ffs(rd.resources[r].id) - 1)]

\* filter_sum_leaks adds up at id - 1, write_leaks prints from ffs(id) - 1.
LeakTotals ==
    LET Sum(index) == Len(SelectSeq(rd.calls, LAMBDA c :
                /\ c.type = "alloc"
                /\ LET r == Record(rd, c.res)
                   IN index = IF r = 0 THEN 0 ELSE rd.resources[r].id - 1))
    IN [r \in DOMAIN rd.resources |-> Sum(Ffs(rd.resources[r].id) - 1)]

\* The permanent filters of the input's header, and those applied now.
header_set_filter ==
    (rd.filter \ {"compress"})
    \cup (IF opts.compress THEN {"compress"} ELSE {})
    \cup (IF opts.leaks THEN {"leaks"} ELSE {})

\* The header line has the filters; the other fields are the process data.
print_header(filter) == [line |-> "header", filter |-> filter]

print_record(rec) == [line |-> rec.kind, id |-> rec.id, text |-> rec.text]

write_trace_environment ==
    LET Lines(kind) == Mapped(print_record, SelectSeq(rd.records, LAMBDA rec : rec.kind = kind))
    IN <<print_header(header_set_filter)>> \o Lines("file") \o Lines("heap") \o Lines("module") \o Lines("context")
       \o Mapped(print_resource, rd.resources) \o Lines("mmap")

write_rtrace_log ==
    /\ stage = "write"
    /\ stage' = "reread"
    /\ \E calls \in IF opts.compress THEN CompressedCalls ELSE {PlainCalls} :
          lines' = write_trace_environment \o calls
    /\ written' = rd
    /\ totals' = IF opts.leaks THEN LeakTotals ELSE << >>
    /\ UNCHANGED <<opts, rd, prev, clock, input>>

-----------------------------------------------------------------------------
(***************************************************************************)
(* The text reader, a line at a time.  `last` has the calls whose          *)
(* backtrace has not come yet, `bt` the frames since the last call line.   *)
(***************************************************************************)
\* scanf's %s skips blanks and reads up to the next one.
Words(text) == SelectSeq(text, LAMBDA w : w # "")
FirstWord(text) == <<Head(Words(text))>>

\* What sp_rtrace_parser_parse_record takes a line for: an argument or a path
\* must have a word, a mapping has exactly one between its ":" and "=>", and
\* what fits no format is a comment, like the "##" lines of heap and modules.
parse_record(line) ==
    CASE line.line \in {"arg", "file", "context"} ->
              IF Words(line.text) = << >> THEN "comment" ELSE line.line
      [] line.line = "mmap" -> IF Len(Words(line.text)) = 1 THEN "mmap" ELSE "comment"
      [] line.line \in {"heap", "module"} -> "comment"
      [] OTHER -> line.line

\* Flushing arguments and backtrace before a line that is neither.
store_call_arguments(t) ==
    IF t.args = << >> THEN t
    ELSE [t EXCEPT !.calls[Len(t.calls)].args = t.args, !.args = << >>]

\* Mutant: only the last call gets the backtrace.
store_backtrace_last(t) ==
    [t EXCEPT !.calls = [i \in DOMAIN @ |->
                            IF i = Len(t.calls) THEN Traced(@[i], t.bt) ELSE @[i]],
              !.last = {}, !.bt = << >>]

store_backtrace(t) ==
    [t EXCEPT !.calls = [i \in DOMAIN @ |->
                            IF i \in t.last THEN Traced(@[i], t.bt) ELSE @[i]],
              !.last = {}, !.bt = << >>]

Flushed(t, line) ==
    LET u == store_call_arguments(t)
    IN IF (u.bt # << >> \/ line.line = "empty") /\ u.last # {} THEN store_backtrace(u) ELSE u

\* A call line without a type means the first resource.
ParsedCall(t, line) ==
    [index |-> line.index, type |-> line.type, id |-> line.id, context |-> line.context,
     stamp |-> line.stamp, args |-> << >>, traced |-> FALSE, trace |-> << >>, depth |-> 0,
     res |-> IF line.res # "" THEN line.res
             ELSE IF t.resources = << >> THEN "none" ELSE t.resources[1].type]

AddResource(t, line) ==
    IF \E r \in DOMAIN t.resources : t.resources[r].type = line.type THEN t
    ELSE [t EXCEPT !.resources = Append(@, [type |-> line.type, id |-> Ffs(line.mask), hide |-> FALSE])]

\* A call that has neither frames nor an empty line gets an empty backtrace.
Ended(t, line) ==
    LET u == Flushed(t, line) IN IF u.last # {} THEN store_backtrace(u) ELSE u

\* A path is read as its first word.  The data of a context record is parsed
\* but not kept: the new record stays uninitialized.  A comment is kept as it
\* is, with the index of the call before it.
AddRecord(t, line) ==
    LET kind == parse_record(line)
        index == IF t.calls = << >> THEN 0 ELSE Last(t.calls).index
    IN [t EXCEPT !.records = Append(@,
        CASE kind = "comment" -> [kind |-> "comment", id |-> index, text |-> line.text]
          [] kind = "context" -> [kind |-> "context", id |-> -1, text |-> << >>]
          [] OTHER            -> [kind |-> kind, id |-> 0, text |-> FirstWord(line.text)])]

\* The first line, whatever it is.
parse_header(line) ==
    [resources |-> << >>, calls |-> << >>, records |-> << >>, filter |-> line.filter,
     last |-> {}, bt |-> << >>, args |-> << >>]

\* Frames and arguments without a call before them are dropped.
ReadLine(t, line) ==
    LET type == parse_record(line)
    IN CASE type = "summary"  -> t    \* a temporary comment: "# "
         [] type = "frame"    -> IF t.last = {} THEN t ELSE [t EXCEPT !.bt = Append(@, line.frame)]
         [] type = "arg"      ->
              IF t.last = {} THEN t ELSE [t EXCEPT !.args = Append(@, FirstWord(line.text))]
         [] type = "empty"    -> Flushed(t, line)
         [] type = "resource" -> AddResource(Ended(t, line), line)
         [] type = "call"     ->
              LET u == Flushed(t, line)
              IN [u EXCEPT !.calls = Append(@, ParsedCall(u, line)), !.last = @ \cup {Len(u.calls) + 1}]
         [] OTHER             -> AddRecord(Ended(t, line), line)

compare_calls(c, d) ==
    IF c.stamp = d.stamp THEN c.index - d.index ELSE c.stamp - d.stamp

\* What is left over at the end of the file, and dlist_sort.
EndOfText(t) ==
    LET u == store_call_arguments(t)
        v == IF u.last = {} THEN u ELSE store_backtrace(u)
    IN [resources |-> v.resources,
        records |-> v.records,
        filter |-> v.filter,
        calls |-> SortSeq(v.calls, LAMBDA c, d : compare_calls(c, d) < 0)]

\* An interrupt (SIGINT) ends the reading early, as if the text were shorter.
process_text_data ==
    /\ stage = "reread"
    /\ stage' = "done"
    /\ rd' = EndOfText(FoldLeft(ReadLine, parse_header(Head(lines)), Tail(lines)))
    /\ UNCHANGED <<opts, prev, clock, input, written, lines, totals>>

Next ==
    \/ ReadResource
    \/ \E type \in {"alloc", "free"}, r \in DOMAIN rd.resources, id \in Ids, context \in Contexts :
          ReadCall(type, rd.resources[r].type, id, context)
    \/ \E args \in ArgLists : ReadArgs(args)
    \/ \E bt \in Backtraces : ReadBacktrace(bt)
    \/ \E kind \in {"mmap", "module", "file"}, text \in Texts : ReadRecord(kind, text)
    \/ \E id \in UNION Contexts, text \in Texts : ReadContext(id, text)
    \/ ReadHeapInfo
    \/ Tick
    \/ EndOfData
    \/ filter_trim_backtraces \/ filter_resource \/ filter_call_address_range
    \/ filter_include \/ filter_exclude \/ filter_context \/ filter_leaks
    \/ filter_update_resource_visibility
    \/ write_rtrace_log
    \/ process_text_data

Spec == Init /\ [][Next]_vars

-----------------------------------------------------------------------------
(***************************************************************************)
(* Properties                                                              *)
(***************************************************************************)
\* The clock passed midnight while the trace was taken.
Wrapped == clock >= Day

\* An argument value that has no word makes the reader take its line for a
\* comment.
Unread(c) == {i \in DOMAIN c.args : Words(c.args[i]) = << >>}

\* The values that come before the first such one, cut at the first blank.
ReadableArgs(c) ==
    [i \in {j \in DOMAIN c.args : \A k \in Unread(c) : j < k} |-> FirstWord(c.args[i])]

\* The calls as the reader must see them in the text.  A comment between a call
\* and its frames costs the call its backtrace, in the compressed form also the
\* calls that are printed before it with the same backtrace.
ShownCalls ==
    LET kept == SelectSeq(written.calls, LAMBDA c : opts.compress => c.traced)
        Cut(c) == \E d \in ToSet(kept) :
                      /\ Unread(d) # {}
                      /\ d = c \/ (opts.compress /\ d.trace = c.trace /\ d.index > c.index)
        Frames(c) == IF Cut(c) THEN << >> ELSE SubSeq(c.trace, 1, c.depth)
    IN Mapped(LAMBDA c : [Traced(c, Frames(c)) EXCEPT !.args = ReadableArgs(c)], kept)

\* The mappings and attachments that the reader can recognize, as it reads them.
ShownRecords(kind) ==
    LET Readable(rec) == /\ rec.kind = kind
                         /\ Words(rec.text) # << >>
                         /\ kind = "mmap" => Len(Words(rec.text)) = 1
    IN Mapped(LAMBDA rec : [rec EXCEPT !.text = FirstWord(@)],
              SelectSeq(written.records, Readable))

\* What the text log loses is exactly this.  Read back, it has the same calls in
\* the same order with the same types, arguments and backtraces, and the same
\* resource ids, mappings and attachments, though the compressed form regroups
\* the calls, single types are not printed and empty backtraces have no line of
\* their own; but
\*  - argument values and attached paths are cut at their first blank, and a
\*    mapping whose name has a blank becomes a comment;
\*  - an argument value without a word becomes a comment: the arguments after it
\*    and the backtrace are lost, for the call and, in the compressed form, for
\*    the calls before it in its group;
\*  - timestamps that wrapped at midnight make the reader sort the calls anew;
\*  - the compressed form leaves out the call of a killed process whose
\*    backtrace is missing.
\* Context records are left out: the reader does not keep their data.
TextReadsBack ==
    stage = "done" =>
        /\ ~Wrapped => rd.calls = ShownCalls
        /\ ToSet(rd.calls) = ToSet(ShownCalls)
        /\ Mapped(LAMBDA r : <<r.id, r.type>>, rd.resources) =
               Mapped(LAMBDA r : <<r.id, r.type>>, written.resources)
        /\ \A kind \in {"mmap", "file"} :
               SelectSeq(rd.records, LAMBDA rec : rec.kind = kind) = ShownRecords(kind)

\* What -l means for the trace: the allocation i has no release.  For a plain
\* resource the next call on it is not a release; of a counted one the first
\* call is reported whose references are never all given up.
Leaked(calls, i) ==
    LET Same(j) == calls[j].res = calls[i].res /\ calls[j].id = calls[i].id
        later == {j \in (i + 1)..Len(calls) : Same(j)}
        Count(type, from, to) == Cardinality({j \in from..to : Same(j) /\ calls[j].type = type})
        Open(from) == /\ calls[from].type = "alloc"
                      /\ \A k \in from..Len(calls) : Count("alloc", from, k) > Count("free", from, k)
    IN IF calls[i].res \in RefCounted
       THEN Open(i) /\ ~\E j \in 1..(i - 1) : Same(j) /\ Open(j)
       ELSE /\ calls[i].type = "alloc"
            /\ later # {} => calls[CHOOSE j \in later : \A k \in later : j <= k].type = "alloc"

\* The leak report has exactly the leaks of the whole trace, of the selected
\* resource types: the resource filter that runs first does not disturb it.
\* The context, range and event filters do, as they may drop a release.
LeakReportIsExact ==
    (/\ stage = "visibility" /\ opts.leaks
     /\ ~opts.by_context /\ opts.include = {} /\ opts.exclude = {}
     /\ opts.range = {} \/ ~opts.mapped) =>
        {c.index : c \in ToSet(rd.calls)} =
            {i \in DOMAIN input :
                /\ Leaked(input, i)
                /\ opts.resource # {} =>
                      \E r \in opts.resource : TypeName[r] = input[i].res}

\* The leak summary prints for a resource type the number of its calls in the
\* report, whichever filters were applied: for a single type and for the first
\* two.  From the third on the index it is printed from is another one.
TotalsAreOfTheirType ==
    stage \in {"reread", "done"} /\ opts.leaks =>
        \A r \in DOMAIN written.resources :
            written.resources[r].id <= 2 =>
                totals[r] = Len(SelectSeq(written.calls, LAMBDA c :
                                    c.res = written.resources[r].type))
=============================================================================
