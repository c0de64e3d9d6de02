------------------------------ MODULE Resolver ------------------------------
(***************************************************************************)
(* sp-rtrace-resolve: the frames of a text log are given the names of the  *)
(* functions they are in.  A line is resolved as it is read, with symbols  *)
(* kept for every module ("full") or for the last one ("single"), or the   *)
(* log is split into one file per module, these are resolved one by one,   *)
(* and the log is put together again ("multi").                            *)
(*                                                                         *)
(* The post-processor writes the memory mappings before the calls.  The    *)
(* mappings of the model are of different modules and do not overlap; they *)
(* may touch.  Names already in the input are not in the parentheses that  *)
(* the resolver expects, so that keep_resolved has nothing to keep.        *)
(***************************************************************************)
EXTENDS Integers, Sequences, FiniteSets, SequencesExt

CONSTANTS Maps,       \* the memory mappings: records module, from, to
          Missing,    \* modules whose file cannot be opened
          Absolute,   \* modules linked at the address they are loaded at
          Stripped,   \* modules without symbols for bfd
          Symbols, \* Symbols[module]: records name, value, size
          Frames,     \* frame addresses
          Named,      \* those that come with a name
          HashOf,     \* calc_hash of each
          Slots,      \* CACHE_SLOT_COUNT
          MaxMaps,    \* bound on the mappings in the log
          MaxFrames   \* bound on the frames in the log

VARIABLES
    step,     \* "header", "read", "resolve", "assemble", "ended"
    options,  \* mode and method
    abort,    \* resolver_abort
    mmaps,    \* rs.mmaps, the sorted array
    cache,    \* the module whose symbols a cache record holds
    names,    \* the name cache: an address and its text in each slot
    files,    \* findex, and fin and fout of each module
    turn,     \* the position of sarray_foreach2 in mmaps
    log, out  \* the lines read and written

vars == <<step, options, abort, mmaps, cache, names, files, turn, log, out>>

-----------------------------------------------------------------------------
Line(kind, addr, text) == [kind |-> kind, addr |-> addr, text |-> text]
Frame(a, text) == Line("frame", a, text)
Modules == {m.module : m \in Maps}
MapOf(module) == CHOOSE m \in Maps : m.module = module

Empty == [addr |-> 0, text |-> <<"NULL">>]
Window(a) == HashOf[a] .. HashOf[a] + Slots - 1

\* -m and -t; full cache and bfd are the defaults.
Options == [mode : {"full", "single", "multi"}, method : {"bfd", "elf"}]

Init ==
    /\ step = "header"
    /\ options \in Options
    /\ abort = FALSE
    /\ mmaps = << >>
    /\ cache = [c \in Modules \cup {"shared"} |-> "none"]
    /\ names = [i \in UNION {Window(a) : a \in Frames} |-> Empty]
    /\ files = [index |-> << >>, fin |-> [m \in Modules |-> << >>],
                fout |-> [m \in Modules |-> << >>]]
    /\ turn = 0
    /\ log = << >>
    /\ out = << >>

-----------------------------------------------------------------------------
(***************************************************************************)
(* The mappings, in a sorted array.                                        *)
(***************************************************************************)
\* 0 inside the mapping, its last address included; else the difference.
mmap_compare(a, m) == IF a >= m.from /\ a <= m.to THEN 0 ELSE a - m.from

\* Insertion from the end of the array.
sarray_add(array, m) ==
    LET Before == {i \in 1..Len(array) : mmap_compare(m.from, array[i]) >= 0}
        at == IF Before = {} THEN 1 ELSE Max(Before) + 1
    IN InsertAt(array, at, m)

\* Bisection: the mapping of the address, as a set of at most one.
sarray_find(array, a) ==
    LET Find[low \in 1..Len(array) + 1, high \in 0..Len(array)] ==
            IF low > high THEN {}
            ELSE LET half == (low + high) \div 2
                     rc == mmap_compare(a, array[half])
                 IN CASE rc = 0 -> {array[half]}
                      [] rc < 0 -> Find[low, half - 1]
                      [] OTHER  -> Find[half + 1, high]
    IN Find[1, Len(array)]

rs_mmap_find_module(a) == sarray_find(mmaps, a)

\* From the program header; negative when the file cannot be read.
rs_mmap_is_absolute(module) ==
    CASE module \in Missing -> -1
      [] module \in Absolute -> 1
      [] OTHER -> 0

rs_mmap_add_module(m) ==
    IF rs_mmap_is_absolute(m.module) >= 0 THEN sarray_add(mmaps, m) ELSE mmaps

-----------------------------------------------------------------------------
(***************************************************************************)
(* Names.                                                                  *)
(***************************************************************************)
\* The record of the cache that a mapping uses.
CacheOf(m) == IF options.mode = "full" THEN m.module ELSE "shared"

\* rs_load_symbols: bfd needs a file with symbols, elf only maps it.
Loadable(m) == options.method = "elf" \/ m.module \notin Stripped

\* The functions of m that hold the address, at most one.  Elf looks for the
\* address, bfd for the instruction before it: a frame is where a call returns.
InFile(m, a) == IF rs_mmap_is_absolute(m.module) = 1 THEN a ELSE a - m.from
Holding(m, pc) == {f \in Symbols[m.module] : f.value <= pc /\ pc < f.value + f.size}
elf_get_address_info(m, a) == Holding(m, InFile(m, a))
bfd_get_address_info(m, a) == Holding(m, InFile(m, a) - 1)

\* A frame outside every function gets the name of the module.
get_address_info(m, a) ==
    LET Found == IF options.method = "elf" THEN elf_get_address_info(m, a)
                 ELSE bfd_get_address_info(m, a)
    IN IF Found = {} THEN <<"from", m.module>>
       ELSE <<(CHOOSE f \in Found : TRUE).name, m.module>>

\* Mutant: the symbols loaded first are used for every mapping.
LoadOnce(m) ==
    [cache EXCEPT ![CacheOf(m)] =
        IF @ # "none" THEN @ ELSE IF Loadable(m) THEN m.module ELSE "none"]

\* The symbols are loaded unless the record holds those of this mapping.
Load(m) ==
    [cache EXCEPT ![CacheOf(m)] =
        IF @ = m.module THEN @ ELSE IF Loadable(m) THEN m.module ELSE "none"]

\* The first slot of the window with this address.  A free slot has address 0.
namecache_get_data(a) ==
    LET Hits == {i \in Window(a) : names[i].addr = a}
    IN IF Hits = {} THEN {} ELSE {names[Min(Hits)].text}

\* hits is never raised, so the first slot of the window is always taken.
namecache_add(a, text) == [names EXCEPT ![HashOf[a]] = [addr |-> a, text |-> text]]

Unknown == <<"in ??">>

\* The text for an address, with what it leaves in the caches.
rs_resolve_address(a) ==
    LET maps == rs_mmap_find_module(a)
        m == CHOOSE m \in maps : TRUE
        loaded == IF maps = {} THEN cache ELSE Load(m)
        text == IF maps = {} THEN Unknown
                ELSE IF loaded[CacheOf(m)] = "none" THEN <<"from", m.module>>
                ELSE get_address_info(MapOf(loaded[CacheOf(m)]), a)
    IN IF namecache_get_data(a) # {}
       THEN [text |-> CHOOSE t \in namecache_get_data(a) : TRUE,
             cache |-> cache, names |-> names]
       ELSE [text |-> text, cache |-> loaded, names |-> namecache_add(a, text)]

-----------------------------------------------------------------------------
(***************************************************************************)
(* Reading the log.                                                        *)
(***************************************************************************)
\* A log of another architecture needs the guest root path.
read_header(native, root) ==
    /\ step = "header"
    /\ step' = IF native \/ root THEN "read" ELSE "ended"
    /\ UNCHANGED <<options, abort, mmaps, cache, names, files, turn, log, out>>

Reading == step = "read" /\ ~abort /\ UNCHANGED <<step, options, abort, turn>>

\* A line that is passed on goes to the output, or to the index.
PassOn(line) ==
    IF options.mode = "multi"
    THEN files' = [files EXCEPT !.index = Append(@, line)] /\ UNCHANGED out
    ELSE out' = Append(out, line) /\ UNCHANGED files

\* The text an address has in the input.
FrameLine(a) == Frame(a, IF a \in Named THEN <<"old">> ELSE << >>)

FrameCount == Len(SelectSeq(log, LAMBDA l : l.kind = "frame"))

\* A mapping is remembered when its file can be read; the line is passed on.
parse_mmap_record(m) ==
    LET line == Line("map", m.from, <<m.module>>)
    IN /\ Reading
       /\ FrameCount = 0
       /\ line \notin Range(log)
       /\ Len(log) < MaxMaps
       /\ log' = Append(log, line)
       /\ mmaps' = rs_mmap_add_module(m)
       /\ PassOn(line)
       /\ UNCHANGED <<cache, names>>

\* A call, or any other line that is neither mapping nor frame; one, after the
\* first frame, is enough.
ParseOther ==
    /\ Reading
    /\ FrameCount = 1
    /\ Line("other", 0, << >>) \notin Range(log)
    /\ log' = Append(log, Line("other", 0, << >>))
    /\ PassOn(Line("other", 0, << >>))
    /\ UNCHANGED <<mmaps, cache, names>>

\* One pass: the frame is resolved at once.  For a text that is NULL the line
\* is written as it was.
parse_backtrace_record(a) ==
    LET r == rs_resolve_address(a)
        line == FrameLine(a)
    IN /\ Reading
       /\ options.mode # "multi"
       /\ FrameCount < MaxFrames
       /\ log' = Append(log, line)
       /\ out' = Append(out, IF r.text = <<"NULL">> THEN line ELSE Frame(a, r.text))
       /\ cache' = r.cache
       /\ names' = r.names
       /\ UNCHANGED <<mmaps, files>>

\* Several passes: the frame goes to the file of its module and the module to
\* the index; a frame of no module is passed on.
parse_backtrace_index(a) ==
    LET maps == rs_mmap_find_module(a)
        line == FrameLine(a)
    IN /\ Reading
       /\ options.mode = "multi"
       /\ FrameCount < MaxFrames
       /\ log' = Append(log, line)
       /\ \/ /\ maps = {}
             /\ PassOn(line)
          \/ \E m \in maps :
                /\ files' = [files EXCEPT
                       !.fin[m.module] = Append(@, line),
                       !.index = Append(@, Line("module", 0, <<m.module>>))]
                /\ UNCHANGED out
       /\ UNCHANGED <<mmaps, cache, names>>

EndOfInput ==
    /\ step = "read"
    /\ step' = IF options.mode = "multi" THEN "resolve" ELSE "ended"
    /\ turn' = 1
    /\ UNCHANGED <<options, abort, mmaps, cache, names, files, log, out>>

-----------------------------------------------------------------------------
(***************************************************************************)
(* The second and the third pass.                                          *)
(***************************************************************************)
\* The next line of the file of the module at turn; at its end, or after an
\* interrupt, the next module.
mmap_resolve_address_file ==
    /\ step = "resolve"
    /\ turn <= Len(mmaps)
    /\ LET module == mmaps[turn].module
           fin == files.fin[module]
           r == rs_resolve_address(Head(fin).addr)
       IN \/ /\ fin # << >>
             /\ ~abort
             /\ files' = [files EXCEPT
                    !.fin[module] = Tail(fin),
                    !.fout[module] = Append(@, Frame(Head(fin).addr, r.text))]
             /\ cache' = r.cache
             /\ names' = r.names
             /\ UNCHANGED turn
          \/ /\ fin = << >> \/ abort
             /\ turn' = turn + 1
             /\ UNCHANGED <<files, cache, names>>
    /\ UNCHANGED <<step, options, abort, mmaps, log, out>>

Resolved ==
    /\ step = "resolve"
    /\ turn > Len(mmaps)
    /\ step' = "assemble"
    /\ UNCHANGED <<options, abort, mmaps, cache, names, files, turn, log, out>>

\* A module in the index stands for the next line of its resolved file.
parse_index_record ==
    /\ step = "assemble"
    /\ ~abort
    /\ files.index # << >>
    /\ LET line == Head(files.index)
           rest == [files EXCEPT !.index = Tail(@)]
       IN IF line.kind = "module"
          THEN /\ files.fout[line.text[1]] # << >>
               /\ out' = Append(out, Head(files.fout[line.text[1]]))
               /\ files' = [rest EXCEPT !.fout[line.text[1]] = Tail(@)]
          ELSE out' = Append(out, line) /\ files' = rest
    /\ UNCHANGED <<step, options, abort, mmaps, cache, names, turn, log>>

Assembled ==
    /\ step = "assemble"
    /\ files.index = << >>
    /\ step' = "ended"
    /\ UNCHANGED <<options, abort, mmaps, cache, names, files, turn, log, out>>

\* SIGINT: the reading and the assembling loop return at their next line.
sigint_handler ==
    /\ step \notin {"header", "ended"}
    /\ ~abort
    /\ abort' = TRUE
    /\ UNCHANGED <<step, options, mmaps, cache, names, files, turn, log, out>>

Abandon ==
    /\ abort
    /\ step = "read" \/ (step = "assemble" /\ files.index # << >>)
    /\ step' = "ended"
    /\ UNCHANGED <<options, abort, mmaps, cache, names, files, turn, log, out>>

Next ==
    \/ \E native, root \in BOOLEAN : read_header(native, root)
    \/ \E m \in Maps : parse_mmap_record(m)
    \/ ParseOther
    \/ \E a \in Frames : parse_backtrace_record(a) \/ parse_backtrace_index(a)
    \/ EndOfInput
    \/ mmap_resolve_address_file
    \/ Resolved
    \/ parse_index_record
    \/ Assembled
    \/ sigint_handler
    \/ Abandon

Spec == Init /\ [][Next]_vars

-----------------------------------------------------------------------------
\* The line that a line of the log must become: a frame gets the name that the
\* symbols of its own mapping give it.  Where two mappings touch it may be that
\* of either.  A frame of no mapping is marked as unknown, or left alone by the
\* multi-pass mode; the address 0 looks like a free slot of the name cache.
Expected(line) ==
    LET Owners == {m \in Maps :
                      /\ m.module \notin Missing
                      /\ Line("map", m.from, <<m.module>>) \in Range(log)
                      /\ m.from <= line.addr /\ line.addr <= m.to}
        Name(m) == IF Loadable(m) THEN get_address_info(m, line.addr) ELSE <<"from", m.module>>
    IN IF line.kind # "frame" THEN {line}
       ELSE IF Owners # {} THEN {Frame(line.addr, Name(m)) : m \in Owners}
       ELSE (IF options.mode # "multi" THEN {Frame(line.addr, Unknown)} ELSE {})
            \cup (IF options.mode = "multi" \/ line.addr = 0 THEN {line} ELSE {})

\* Whatever the mode keeps in its caches and temporary files, the output is the
\* log, line by line in its order, with every frame named from its own mapping;
\* a run that is not interrupted writes it to the end, and one that is writes
\* a beginning of it.
ResolvedInPlace ==
    /\ Len(out) <= Len(log)
    /\ \A i \in 1..Len(out) : out[i] \in Expected(log[i])
    /\ (step = "ended" /\ ~abort) => Len(out) = Len(log)
=============================================================================
