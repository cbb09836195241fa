------------------------------- MODULE Arena -------------------------------
(***************************************************************************)
(* arena.c: an arena is a list of chunks of one page each, from which      *)
(* blocks are cut off one after the other and never given back singly.     *)
(* All the data of the compiler lives in arenas: syntax tree, strings,     *)
(* types, symbol table, both intermediate codes.                           *)
(*                                                                         *)
(* A chunk keeps its fill index; its region starts at a page boundary, or  *)
(* is NULL when the system had no memory: alloc_chunk stores whatever      *)
(* os_alloc returns.  The blocks handed out since the last clear_arena are *)
(* kept in blocks, with the bytes of their chunk they span.                *)
(*                                                                         *)
(* This is the interface of arena.h: any element size and alignment that   *)
(* init_arena takes.  The arenas of the compiler have the sizeof and the   *)
(* alignof of a type, which never need padding, and are never cleared.     *)
(***************************************************************************)
EXTENDS Integers, Sequences

CONSTANTS
  ChunkSize,    \* the page size
  ElSize,       \* sizeof and alignof the element type of the arena
  ElAlign,
  MaxCount,     \* bound on the elements of one arena_alloc_arr
  MaxChunks,    \* bound on the chunks of the arena
  OsMayFail     \* os_alloc may return NULL

ASSUME ArenaAssumption ==
  /\ ChunkSize \in Nat \ {0}
  /\ ElSize \in Nat \ {0}
  /\ ElAlign \in {1, 2, 4, 8, 16}
  /\ MaxCount \in Nat
  /\ MaxChunks \in Nat
  /\ OsMayFail \in BOOLEAN

VARIABLES
  chunks,   \* from head on: [region, index]
  curr,     \* the position of a->curr in chunks
  blocks,   \* the blocks in use: [chunk, from, to), to exclusive
  result,   \* what the last call returned
  array     \* the array of the last vec_move_into_arena: "none", "moved",
            \* or "fault" after its memcpy to NULL

vars == <<chunks, curr, blocks, result, array>>

-----------------------------------------------------------------------------

Chunk(region, index) == [region |-> region, index |-> index]
Block(c, from, to)   == [chunk |-> c, from |-> from, to |-> to]
Null                 == [chunk |-> 0]
Pointer(c, from)     == [chunk |-> c, from |-> from]

\* bug: the block starts before the aligned address
AlignedDown(index) == index - (index % ElAlign)

\* where a block can start: the region is aligned, so index + offset is
AlignedUp(index) ==
  IF index % ElAlign = 0 THEN index ELSE index + (ElAlign - (index % ElAlign))

\* bug: the last byte may lie past the chunk
FitsLoosely(index, size) == AlignedUp(index) + size <= ChunkSize + 1

Fits(index, size) == AlignedUp(index) + size <= ChunkSize

\* what os_alloc returns
Regions == IF OsMayFail THEN {"page", "NULL"} ELSE {"page"}

\* bug: the padding is not counted in the index
GiveUnpadded(chs, c, size) ==
  LET from == AlignedUp(chs[c].index)
  IN  /\ chunks' = [chs EXCEPT ![c].index = @ + size]
      /\ curr' = c
      /\ blocks' = blocks \cup {Block(c, from, from + size)}
      /\ result' = Pointer(c, from)

\* the return of a block of size bytes in chunk c of chs
Give(chs, c, size) ==
  LET from == AlignedUp(chs[c].index)
      to   == from + size
  IN  /\ chunks' = [chs EXCEPT ![c].index = to]
      /\ curr' = c
      /\ blocks' = blocks \cup {Block(c, from, to)}
      /\ result' = IF chs[c].region = "NULL" /\ from = 0 THEN Null ELSE Pointer(c, from)

-----------------------------------------------------------------------------

\* init_arena
Init ==
  /\ \E region \in Regions : chunks = <<Chunk(region, 0)>>
  /\ curr = 1
  /\ blocks = {}
  /\ result = Null
  /\ array = "none"

\* _arena_alloc: nothing is returned for an empty block or one that no chunk
\* can hold ...
AllocNothing(n) ==
  /\ n = 0 \/ n * ElSize > ChunkSize
  /\ result' = Null
  /\ UNCHANGED <<chunks, curr, blocks>>

\* ... else the first chunk from a->curr on that has room ...
AllocFrom(n, c) ==
  /\ n > 0
  /\ n * ElSize <= ChunkSize
  /\ c >= curr
  /\ Fits(chunks[c].index, n * ElSize)
  /\ \A d \in curr .. c - 1 : ~Fits(chunks[d].index, n * ElSize)
  /\ Give(chunks, c, n * ElSize)

\* ... and a new chunk when there is none
AllocExpand(n) ==
  /\ n > 0
  /\ n * ElSize <= ChunkSize
  /\ Len(chunks) < MaxChunks
  /\ \A d \in curr .. Len(chunks) : ~Fits(chunks[d].index, n * ElSize)
  /\ \E region \in Regions :
       Give(Append(chunks, Chunk(region, 0)), Len(chunks) + 1, n * ElSize)

\* arena_alloc_arr, and arena_alloc when n is 1
AllocArr(n) ==
  /\ \/ AllocNothing(n)
     \/ \E c \in DOMAIN chunks : AllocFrom(n, c)
     \/ AllocExpand(n)
  /\ UNCHANGED array

\* vec_move_into_arena of a vector with n items: the array is allocated and
\* the items are copied to it, whatever the allocation returned
MoveVec(n) ==
  /\ \/ AllocNothing(n)
     \/ \E c \in DOMAIN chunks : AllocFrom(n, c)
     \/ AllocExpand(n)
  /\ array' = IF n > 0 /\ result' = Null THEN "fault" ELSE "moved"

\* clear_arena
Clear ==
  /\ chunks' = [c \in DOMAIN chunks |-> Chunk(chunks[c].region, 0)]
  /\ curr' = 1
  /\ blocks' = {}
  /\ UNCHANGED <<result, array>>

Next ==
  /\ array # "fault"
  /\ \/ \E n \in 0 .. MaxCount : AllocArr(n) \/ MoveVec(n)
     \/ Clear

Spec == Init /\ [][Next]_vars

-----------------------------------------------------------------------------

\* No chunk is filled past its end, and curr is one of them.
TypeOK ==
  /\ chunks \in Seq([region : {"page", "NULL"}, index : 0 .. ChunkSize])
  /\ curr \in DOMAIN chunks
  /\ \A b \in blocks : b.chunk \in DOMAIN chunks
  /\ array \in {"none", "moved", "fault"}

\* Two blocks never share a byte: the list may be walked past chunks with
\* room left, and rewound, but what was handed out stays handed out.
NoOverlap ==
  \A a, b \in blocks :
    a # b /\ a.chunk = b.chunk => a.to <= b.from \/ b.to <= a.from

\* Every block lies in the part of its chunk the index counts as used, is
\* aligned for the element type, and is not past a->curr, where the walk of
\* _arena_alloc begins.
BlocksInside ==
  \A b \in blocks :
    /\ b.to <= chunks[b.chunk].index
    /\ b.from % ElAlign = 0
    /\ b.chunk <= curr

=============================================================================
