------------------------------- MODULE EmuHeap -------------------------------
(***************************************************************************)
(* The emulation heap of the memory module (src/modules/sp_rtrace_memory.c)*)
(* that serves malloc, calloc, realloc, posix_memalign and free until the  *)
(* module is registered, and what happens to its chunks after that.        *)
(* A chunk is preceded by a 4 byte word with its size; only the last chunk *)
(* can be given back.  Addresses count from the start of a region that     *)
(* holds the heap at `base`.  Sizes are small enough that the address      *)
(* arithmetic does not wrap.                                               *)
(***************************************************************************)
EXTENDS Naturals, Sequences, FiniteSets

CONSTANTS HeapSize,    \* EMU_HEAP_SIZE
          Bases,       \* where the heap may begin
          Sizes,       \* the sizes that are asked for
          Alignments,  \* what posix_memalign is asked for
          Ids          \* the chunks the program tells apart

VARIABLES
    base,       \* emu_heap
    tail,       \* emu_heap_tail
    word,       \* the size words written, by address
    byte,       \* what the program stored, by address
    chunk,      \* the program's chunks: [at, size, align] or none
    moved,      \* the bytes of the chunks that live in the real heap
    ready,      \* trace_rt is no longer trace_emu
    exited      \* the heap was exceeded

vars == <<base, tail, word, byte, chunk, moved, ready, exited>>

EMU_HEAP_ALIGN == 8
INT  == 4
None == [at |-> 0, size |-> 0, align |-> 0]
End  == base + HeapSize
Smaller(m, n) == IF m < n THEN m ELSE n

TypeOK ==
    /\ base \in Bases
    /\ tail \in base..End
    /\ DOMAIN word = base..End /\ DOMAIN byte = base..End
    /\ DOMAIN chunk = Ids /\ DOMAIN moved = Ids
    /\ {ready, exited} \subseteq BOOLEAN

Init ==
    /\ base \in Bases
    /\ tail = base
    /\ word = [a \in base..End |-> 0]
    /\ byte = [a \in base..End |-> 0]
    /\ chunk = [i \in Ids |-> None]
    /\ moved = [i \in Ids |-> << >>]
    /\ ready = FALSE
    /\ exited = FALSE

emu_free_any(ptr) == [word EXCEPT ![tail] = 0]   \* mutant: for any chunk

\* What emu_free does to the size words.
emu_free(ptr) == IF tail + INT = ptr THEN [word EXCEPT ![tail] = 0] ELSE word

\* The address emu_alloc_mem returns, given the size words.
NewPtr(words, align) ==
    LET ptr == tail + words[tail] + INT
        offset == ptr % align
    IN IF offset = 0 THEN ptr ELSE ptr + (align - offset)

Addresses(c) == c.at..(c.at + c.size - 1)

\* The bytes, without those that are in no chunk any more: nobody reads them.
Kept(bytes) ==
    [a \in DOMAIN byte |-> IF \E i \in Ids : chunk'[i] # None /\ a \in Addresses(chunk'[i])
                           THEN bytes[a] ELSE 0]

\* The program owns `size` bytes at ptr and fills all of them with i.
Owned(i, ptr, size, align) ==
    /\ chunk' = [chunk EXCEPT ![i] = [at |-> ptr, size |-> size, align |-> align]]
    /\ byte' = Kept([a \in DOMAIN byte |-> IF a \in Addresses(chunk'[i]) THEN i ELSE byte[a]])

emu_alloc_mem(words, size, align) ==
    LET ptr == NewPtr(words, align)
    IN IF ptr + size >= End
       THEN exited' = TRUE /\ UNCHANGED <<tail, word>>
       ELSE /\ tail' = ptr - INT
            /\ word' = [a \in DOMAIN word |->
                           IF a = ptr - INT THEN size + INT
                           ELSE IF \E i \in Ids : chunk[i].at = a + INT THEN words[a] ELSE 0]
            /\ UNCHANGED exited

\* malloc and calloc; calloc's zeroes are overwritten by the program.
emu_malloc(i, size) ==
    /\ ~exited /\ ~ready /\ chunk[i] = None /\ moved[i] = << >>
    /\ emu_alloc_mem(word, size, EMU_HEAP_ALIGN)
    /\ IF exited' THEN UNCHANGED <<chunk, byte>>
       ELSE Owned(i, NewPtr(word, EMU_HEAP_ALIGN), size, EMU_HEAP_ALIGN)
    /\ UNCHANGED <<base, moved, ready>>

\* EINVAL, unless the alignment is a power of two and a multiple of a pointer.
emu_posix_memalign(i, alignment, size) ==
    LET align == IF alignment < EMU_HEAP_ALIGN THEN EMU_HEAP_ALIGN ELSE alignment
    IN /\ ~exited /\ ~ready /\ chunk[i] = None /\ moved[i] = << >>
       /\ alignment \in {4, 8, 16, 32, 64}
       /\ emu_alloc_mem(word, size, align)
       /\ IF exited' THEN UNCHANGED <<chunk, byte>>
          ELSE Owned(i, NewPtr(word, align), size, align)
       /\ UNCHANGED <<base, moved, ready>>

\* The target free() comes here for every chunk of this heap, before and
\* after the original functions are known.
free(i) ==
    /\ ~exited
    /\ chunk[i] # None
    /\ word' = emu_free(chunk[i].at)
    /\ chunk' = [chunk EXCEPT ![i] = None]
    /\ byte' = Kept(byte)
    /\ UNCHANGED <<base, tail, moved, ready, exited>>

\* A chunk of this heap never gets here (see realloc), so ptr is NULL: nothing
\* is given back and nothing is copied.
emu_realloc(i, size) ==
    /\ ~exited /\ ~ready /\ chunk[i] = None /\ moved[i] = << >>
    /\ emu_alloc_mem(emu_free(0), size, EMU_HEAP_ALIGN)
    /\ IF exited' THEN UNCHANGED <<chunk, byte>>
       ELSE Owned(i, NewPtr(emu_free(0), EMU_HEAP_ALIGN), size, EMU_HEAP_ALIGN)
    /\ UNCHANGED <<base, moved, ready>>

\* enable_tracing: trace_rt is no longer trace_emu.
Initialized ==
    /\ ~exited /\ ~ready
    /\ ready' = TRUE
    /\ UNCHANGED <<base, tail, word, byte, chunk, moved, exited>>

\* How much the target realloc() copies: a size word counts itself, so up to 4
\* bytes behind the chunk are copied too.
Copied(i, size) == Smaller(size, word[chunk[i].at - INT])

\* The target realloc() gets the new block from trace_rt->malloc: while the
\* functions are emulated it is a chunk of this heap, which lies behind the old
\* one, so that emu_free does not give the old one back.
ReallocEmulated(i, size) ==
    LET old  == chunk[i].at
        ptr  == NewPtr(word, EMU_HEAP_ALIGN)
        kept == Smaller(size, chunk[i].size)
    IN /\ ~exited /\ ~ready /\ chunk[i] # None
       /\ emu_alloc_mem(word, size, EMU_HEAP_ALIGN)
       /\ IF exited' THEN UNCHANGED <<chunk, byte>>
          ELSE /\ chunk' = [chunk EXCEPT ![i] = [at |-> ptr, size |-> size,
                                                 align |-> EMU_HEAP_ALIGN]]
               /\ byte' = Kept([a \in DOMAIN byte |->
                    CASE a \in (ptr + kept)..(ptr + size - 1)           -> i
                      [] a \in ptr..(ptr + kept - 1)
                         /\ a \in ptr..(ptr + Copied(i, size) - 1)      -> byte[old + (a - ptr)]
                      [] OTHER                                          -> byte[a]])
       /\ UNCHANGED <<base, moved, ready>>

\* After that it moves the chunk to the real heap.
realloc(i, size) ==
    LET old == chunk[i].at
    IN /\ ~exited /\ ready /\ chunk[i] # None
       /\ moved' = [moved EXCEPT ![i] =
                       [k \in 1..Smaller(chunk[i].size, Copied(i, size)) |-> byte[old + k - 1]]]
       /\ word' = emu_free(old)
       /\ chunk' = [chunk EXCEPT ![i] = None]
       /\ byte' = Kept(byte)
       /\ UNCHANGED <<base, tail, ready, exited>>

Next ==
    \/ \E i \in Ids, size \in Sizes :
          \/ emu_malloc(i, size) \/ emu_realloc(i, size)
          \/ ReallocEmulated(i, size) \/ realloc(i, size)
          \/ \E a \in Alignments : emu_posix_memalign(i, a, size)
    \/ \E i \in Ids : free(i)
    \/ Initialized

Spec == Init /\ [][Next]_vars

-----------------------------------------------------------------------------
\* No chunk leaves the heap, overlaps another one or loses what the program
\* stored in it: not through the size word of a neighbour, not when the last
\* chunk is given back and its place is taken by a chunk with another
\* alignment, not when realloc moves it within the heap or out of it.
ChunksIntact ==
    /\ \A i \in Ids : chunk[i] # None =>
          /\ chunk[i].at % chunk[i].align = 0
          /\ chunk[i].at - INT >= base /\ chunk[i].at + chunk[i].size < End
          /\ word[chunk[i].at - INT] >= chunk[i].size
          /\ \A a \in Addresses(chunk[i]) :
                /\ byte[a] = i
                /\ a \notin tail..(tail + INT - 1)
    /\ \A i, j \in Ids : i # j /\ chunk[i] # None /\ chunk[j] # None =>
          \/ chunk[i].at + chunk[i].size <= chunk[j].at - INT
          \/ chunk[j].at + chunk[j].size <= chunk[i].at - INT
    /\ \A i \in Ids : \A k \in DOMAIN moved[i] : moved[i][k] = i
=============================================================================
