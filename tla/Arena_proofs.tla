---------------------------- MODULE Arena_proofs ----------------------------
(***************************************************************************)
(* The blocks of an arena are disjoint, aligned and inside their chunks,   *)
(* for every page size, element type and sequence of calls, also when the  *)
(* system refuses memory.                                                  *)
(*                                                                         *)
(* Blocks of one chunk are disjoint because a new one starts at or after   *)
(* the index of its chunk and every older one ends at or before it; this   *)
(* and the order of the chunks make up the inductive invariant.            *)
(***************************************************************************)
EXTENDS Arena, SequenceTheorems, TLAPS

USE ArenaAssumption

ChunkType == [region : {"page", "NULL"}, index : 0 .. ChunkSize]

\* What holds of one block, given the chunks and the current one.
BlockOK(b, chs, cur) ==
  /\ b = Block(b.chunk, b.from, b.to)
  /\ b.chunk \in 1 .. cur
  /\ b.from \in Nat
  /\ b.to \in Nat
  /\ b.from % ElAlign = 0
  /\ b.to <= chs[b.chunk].index

IInv ==
  /\ chunks \in Seq(ChunkType)
  /\ curr \in 1 .. Len(chunks)
  /\ \A b \in blocks : BlockOK(b, chunks, curr)
  /\ NoOverlap
  /\ array \in {"none", "moved", "fault"}

-----------------------------------------------------------------------------

\* A block starts at or after the index, at a multiple of the alignment.
LEMMA AlignLemma ==
  ASSUME NEW index \in Nat
  PROVE  /\ AlignedUp(index) \in Nat
         /\ index <= AlignedUp(index)
         /\ AlignedUp(index) % ElAlign = 0
<1>1. CASE ElAlign = 1
  BY <1>1 DEF AlignedUp
<1>2. CASE ElAlign = 2
  BY <1>2 DEF AlignedUp
<1>3. CASE ElAlign = 4
  BY <1>3 DEF AlignedUp
<1>4. CASE ElAlign = 8
  BY <1>4 DEF AlignedUp
<1>5. CASE ElAlign = 16
  BY <1>5 DEF AlignedUp
<1> QED
  BY <1>1, <1>2, <1>3, <1>4, <1>5

\* Cutting a block that fits off a chunk at or after the current one keeps
\* the invariant.  chs is the list of chunks, a new one included.
LEMMA GiveLemma ==
  ASSUME IInv,
         NEW chs \in Seq(ChunkType),
         Len(chunks) <= Len(chs),
         \A k \in 1 .. Len(chunks) : chs[k] = chunks[k],
         NEW c \in 1 .. Len(chs),
         curr <= c,
         NEW size \in Nat,
         Fits(chs[c].index, size),
         Give(chs, c, size),
         array' \in {"none", "moved", "fault"}
  PROVE  IInv'
<1> DEFINE from == AlignedUp(chs[c].index)
           new  == Block(c, from, from + size)
<1>1. chs[c] \in ChunkType
  OBVIOUS
<1>2. /\ from \in Nat
      /\ chs[c].index <= from
      /\ from % ElAlign = 0
      /\ from + size <= ChunkSize
  <2>1. chs[c].index \in Nat
    BY <1>1 DEF ChunkType
  <2> QED
    BY <2>1, AlignLemma DEF Fits
<1>3. /\ chunks' = [chs EXCEPT ![c].index = from + size]
      /\ curr' = c
      /\ blocks' = blocks \cup {new}
  BY DEF Give
<1> HIDE DEF from
<1>4. /\ chunks' \in Seq(ChunkType)
      /\ Len(chunks') = Len(chs)
      /\ chunks'[c].index = from + size
      /\ \A k \in 1 .. Len(chs) : k # c => chunks'[k] = chs[k]
  <2> DEFINE filled == [chs[c] EXCEPT !.index = from + size]
  <2>1. filled \in ChunkType /\ filled.index = from + size
    <3>1. /\ chs[c].region \in {"page", "NULL"}
          /\ filled = [region |-> chs[c].region, index |-> from + size]
      BY <1>1 DEF ChunkType
    <3>2. from + size \in 0 .. ChunkSize
      BY <1>2
    <3> QED
      BY <3>1, <3>2 DEF ChunkType
  <2>2. chunks' = [chs EXCEPT ![c] = filled]
    BY <1>3
  <2> HIDE DEF filled
  <2> QED
    BY <2>1, <2>2, ExceptSeq
<1>5. new = Block(new.chunk, new.from, new.to) /\ BlockOK(new, chunks', curr')
  BY <1>2, <1>3, <1>4 DEF BlockOK, Block
<1>6. ASSUME NEW b \in blocks
      PROVE  /\ BlockOK(b, chunks', curr')
             /\ b.chunk = c => b.to <= from
  <2>1. /\ BlockOK(b, chunks, curr)
        /\ b.chunk \in 1 .. Len(chunks)
        /\ chs[b.chunk] = chunks[b.chunk]
    BY DEF IInv, BlockOK
  <2>2. b.chunk = c => b.to <= chs[c].index
    BY <2>1 DEF BlockOK
  <2>3. b.to <= chunks'[b.chunk].index
    <3>1. CASE b.chunk = c
      BY <1>1, <1>2, <1>4, <2>1, <2>2, <3>1 DEF BlockOK, ChunkType
    <3>2. CASE b.chunk # c
      BY <1>4, <2>1, <3>2 DEF BlockOK
    <3> QED
      BY <3>1, <3>2
  <2>4. b.chunk \in 1 .. c
    BY <2>1 DEF BlockOK, IInv
  <2> QED
    BY <1>1, <1>2, <1>3, <2>1, <2>2, <2>3, <2>4 DEF BlockOK, ChunkType
<1>7. NoOverlap'
  <2> SUFFICES ASSUME NEW a \in blocks', NEW b \in blocks', a # b, a.chunk = b.chunk
               PROVE  a.to <= b.from \/ b.to <= a.from
    BY DEF NoOverlap
  <2>1. new.chunk = c /\ new.from = from
    BY DEF Block
  <2>2. CASE a \in blocks /\ b \in blocks
    BY <2>2 DEF IInv, NoOverlap
  <2>3. CASE a = new /\ b \in blocks
    BY <1>6, <2>1, <2>3
  <2>4. CASE a \in blocks /\ b = new
    BY <1>6, <2>1, <2>4
  <2> QED
    BY <1>3, <2>2, <2>3, <2>4
<1>8. \A b \in blocks' : BlockOK(b, chunks', curr')
  BY <1>3, <1>5, <1>6
<1> QED
  BY <1>3, <1>4, <1>7, <1>8 DEF IInv

-----------------------------------------------------------------------------

\* The invariant holds before any page is asked for.
LEMMA InitIInv == Init => IInv
<1> SUFFICES ASSUME Init PROVE IInv
  OBVIOUS
<1>1. PICK region \in Regions : chunks = <<Chunk(region, 0)>>
  BY DEF Init
<1>2. Chunk(region, 0) \in ChunkType
  BY DEF Regions, Chunk, ChunkType
<1>3. chunks \in Seq(ChunkType) /\ Len(chunks) = 1
  BY <1>1, <1>2
<1> QED
  BY <1>3 DEF Init, IInv, NoOverlap

\* One call of _arena_alloc, whoever makes it.
LEMMA AllocLemma ==
  ASSUME IInv,
         NEW n \in 0 .. MaxCount,
         \/ AllocNothing(n)
         \/ \E c \in DOMAIN chunks : AllocFrom(n, c)
         \/ AllocExpand(n),
         array' \in {"none", "moved", "fault"}
  PROVE  IInv'
<1>0. n * ElSize \in Nat
  OBVIOUS
<1>1. CASE AllocNothing(n)
  BY <1>1 DEF AllocNothing, IInv, NoOverlap
<1>2. ASSUME NEW c \in DOMAIN chunks, AllocFrom(n, c) PROVE IInv'
  <2>1. /\ chunks \in Seq(ChunkType)
        /\ c \in 1 .. Len(chunks)
        /\ curr <= c
        /\ Fits(chunks[c].index, n * ElSize)
        /\ Give(chunks, c, n * ElSize)
        /\ Len(chunks) <= Len(chunks)
    BY <1>2 DEF AllocFrom, IInv
  <2> QED
    BY <1>0, <2>1, GiveLemma
<1>3. CASE AllocExpand(n)
  <2>1. PICK region \in Regions :
          Give(Append(chunks, Chunk(region, 0)), Len(chunks) + 1, n * ElSize)
    BY <1>3 DEF AllocExpand
  <2> DEFINE chs == Append(chunks, Chunk(region, 0))
  <2>2. region \in {"page", "NULL"}
    BY DEF Regions
  <2>3. /\ chunks \in Seq(ChunkType)
        /\ curr \in 1 .. Len(chunks)
        /\ Chunk(region, 0) \in ChunkType
    BY <2>2 DEF IInv, Chunk, ChunkType
  <2>4. /\ chs \in Seq(ChunkType)
        /\ Len(chs) = Len(chunks) + 1
        /\ chs[Len(chunks) + 1] = Chunk(region, 0)
        /\ \A k \in 1 .. Len(chunks) : chs[k] = chunks[k]
    BY <2>3
  <2>5. Fits(chs[Len(chunks) + 1].index, n * ElSize)
    BY <1>0, <1>3, <2>4 DEF AllocExpand, Chunk, Fits, AlignedUp
  <2>6. Give(chs, Len(chunks) + 1, n * ElSize)
    BY <2>1
  <2> HIDE DEF chs
  <2>7. Len(chunks) + 1 \in 1 .. Len(chs) /\ curr <= Len(chunks) + 1
    BY <2>3, <2>4
  <2> QED
    BY <1>0, <2>3, <2>4, <2>5, <2>6, <2>7, GiveLemma
<1> QED
  BY <1>1, <1>2, <1>3

\* Allocation, refusal, moving a vector and clearing keep the invariant.
LEMMA NextIInv == IInv /\ [Next]_vars => IInv'
<1> SUFFICES ASSUME IInv, [Next]_vars PROVE IInv'
  OBVIOUS
<1>1. ASSUME NEW n \in 0 .. MaxCount, AllocArr(n) PROVE IInv'
  BY <1>1, AllocLemma DEF AllocArr, IInv
<1>2. ASSUME NEW n \in 0 .. MaxCount, MoveVec(n) PROVE IInv'
  BY <1>2, AllocLemma DEF MoveVec
<1>3. CASE Clear
  <2>1. /\ chunks' \in Seq(ChunkType)
        /\ Len(chunks') = Len(chunks)
    <3>1. /\ chunks \in Seq(ChunkType)
          /\ Len(chunks) \in Nat
          /\ DOMAIN chunks = 1 .. Len(chunks)
      BY LenProperties DEF IInv
    <3>2. ASSUME NEW c \in 1 .. Len(chunks)
          PROVE  Chunk(chunks[c].region, 0) \in ChunkType
      <4>1. chunks[c] \in ChunkType
        BY <3>1, ElementOfSeq
      <4>2. chunks[c].region \in {"page", "NULL"}
        BY <4>1 DEF ChunkType
      <4> QED
        BY <4>2 DEF Chunk, ChunkType
    <3>3. chunks' \in [1 .. Len(chunks) -> ChunkType]
      BY <1>3, <3>1, <3>2 DEF Clear
    <3>4. chunks' \in Seq(ChunkType)
      BY <3>1, <3>3, SeqDef
    <3> QED
      BY <3>1, <3>3, <3>4, LenProperties
  <2> QED
    BY <1>3, <2>1 DEF Clear, IInv, NoOverlap
<1>4. CASE UNCHANGED vars
  BY <1>4 DEF vars, IInv, NoOverlap
<1> QED
  BY <1>1, <1>2, <1>3, <1>4 DEF Next

\* The inductive invariant of the arena.
THEOREM Invariance == Spec => []IInv
  BY InitIInv, NextIInv, PTL DEF Spec

\* No chunk is filled past its end.
THEOREM TypeCorrect == Spec => []TypeOK
<1>1. IInv => TypeOK
  BY DEF IInv, BlockOK, ChunkType, TypeOK
<1> QED
  BY <1>1, Invariance, PTL

\* Two blocks handed out by an arena never share a byte.
THEOREM NoOverlapAlways == Spec => []NoOverlap
<1>1. IInv => NoOverlap
  BY DEF IInv
<1> QED
  BY <1>1, Invariance, PTL

\* Every block is aligned for its type, inside the used part of its chunk,
\* and no chunk after the current one holds any.
THEOREM BlocksAlways == Spec => []BlocksInside
<1>1. IInv => BlocksInside
  BY DEF IInv, BlockOK, BlocksInside
<1> QED
  BY <1>1, Invariance, PTL

=============================================================================
