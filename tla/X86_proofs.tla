----------------------------- MODULE X86_proofs -----------------------------
(***************************************************************************)
(* The passes over the instructions of a function: the frame layout of     *)
(* x86_fix_pseudo.c is correct for every set of variables, widths and      *)
(* order of uses, and what x86.c selects for any intermediate code becomes *)
(* legal code in x86_fix_instrs.c, whatever the largest immediate operand. *)
(*                                                                         *)
(* The argument for the frame is about the offset table, not about the     *)
(* operands: Packed says that the slots handed out so far are disjoint,    *)
(* aligned and above the running offset, and Told that the operands        *)
(* written so far are the table's.  One lemma shows that placing a         *)
(* variable keeps Packed and never moves a slot already given out; the     *)
(* rest follows.                                                           *)
(*                                                                         *)
(* For legal operands, an instruction is taken apart into the moves before *)
(* it, itself and the moves after it.  Around says that the moves are      *)
(* legal; every helper keeps it, so each kind of instruction only has to   *)
(* be looked at itself.  At the end the passes are put together: each      *)
(* instruction of the intermediate code is followed through them, and a    *)
(* pass over the code does to each what it does to one.                    *)
(*                                                                         *)
(* The last part runs the code.  Inside says of an instruction that it     *)
(* writes no more bytes than its destination has, by the types of the      *)
(* objects; selection makes such instructions of code in which every       *)
(* object has one type, the other passes keep it, and a machine that only  *)
(* meets such instructions never writes past an object.                    *)
(***************************************************************************)
EXTENDS FrameLayout, Backend, SequenceTheorems, WellFoundedInduction, TLAPS

-----------------------------------------------------------------------------

\* What holds of the statics of the file between two operands.
Packed(l) ==
  /\ l = [offset |-> l.offset, maxOffset |-> l.maxOffset, table |-> l.table]
  /\ l.offset \in Nat
  /\ l.maxOffset \in Nat
  /\ l.offset <= l.maxOffset
  /\ l.offset % 4 = 0
  /\ l.table \in [DOMAIN l.table -> Nat]
  /\ DOMAIN l.table \subseteq Vars \ Statics
  /\ \A n \in DOMAIN l.table :
       /\ SlotBytes(n) <= l.table[n]
       /\ l.table[n] <= l.offset
       /\ l.table[n] % SlotBytes(n) = 0
  /\ \A n, k \in DOMAIN l.table :
       n # k => \/ l.table[n] <= l.table[k] - SlotBytes(k)
                \/ l.table[k] <= l.table[n] - SlotBytes(n)

\* l2 comes after l1: slots are added, never moved.
Extends(l1, l2) ==
  /\ DOMAIN l1.table \subseteq DOMAIN l2.table
  /\ \A n \in DOMAIN l1.table : l2.table[n] = l1.table[n]

\* The pair p of homes is what the statics l would give again.
Told(l, p) ==
  /\ p = <<p[1], p[2]>>
  /\ p[1] \in Vars
  /\ p[1] \notin Statics => p[1] \in DOMAIN l.table
  /\ p[2] = Home(l, p[1])

IInv ==
  /\ phase \in {"idle", "body"}
  /\ Packed(lay)
  /\ \A p \in homes : Told(lay, p)
  /\ frame \in Nat
  /\ frame % 16 = 0
  /\ phase = "idle" => lay.maxOffset <= frame

-----------------------------------------------------------------------------

\* The next slot starts past the running offset, ends at a multiple of its
\* size and leaves the offset a multiple of 4.
LEMMA BumpLemma ==
  ASSUME NEW off \in Nat, off % 4 = 0, NEW n
  PROVE  /\ BumpOffset(off, n) \in Nat
         /\ BumpOffset(off, n) % 4 = 0
         /\ BumpOffset(off, n) % SlotBytes(n) = 0
         /\ off <= BumpOffset(off, n) - SlotBytes(n)
<1>1. CASE n \in Quads
  BY <1>1 DEF BumpOffset, SlotBytes, RoundUp
<1>2. CASE n \notin Quads
  BY <1>2 DEF BumpOffset, SlotBytes
<1> QED
  BY <1>1, <1>2

\* Rounding up to 16 gives a multiple of 16 that is no smaller.
LEMMA RoundLemma ==
  ASSUME NEW x \in Nat
  PROVE  /\ RoundUp(x, 16) \in Nat
         /\ RoundUp(x, 16) % 16 = 0
         /\ x <= RoundUp(x, 16)
  BY DEF RoundUp

\* A new slot keeps the layout packed and leaves the others where they are.
LEMMA NewSlotLemma ==
  ASSUME NEW l, Packed(l), NEW n \in Vars \ Statics, n \notin DOMAIN l.table
  PROVE  /\ Packed(NewSlot(l, n))
         /\ Extends(l, NewSlot(l, n))
         /\ n \in DOMAIN NewSlot(l, n).table
<1> DEFINE off == BumpOffset(l.offset, n)
           l2  == NewSlot(l, n)
<1>1. /\ off \in Nat
      /\ off % 4 = 0
      /\ off % SlotBytes(n) = 0
      /\ l.offset <= off - SlotBytes(n)
  BY BumpLemma DEF Packed
<1>2. SlotBytes(n) \in {4, 8}
  BY DEF SlotBytes
<1>3. /\ DOMAIN l2.table = DOMAIN l.table \cup {n}
      /\ l2.table[n] = off
      /\ \A k \in DOMAIN l.table : l2.table[k] = l.table[k]
      /\ l2.offset = off
      /\ l2.maxOffset = IntMax(l.maxOffset, off)
      /\ l2 = [offset |-> l2.offset, maxOffset |-> l2.maxOffset, table |-> l2.table]
      /\ l2.table = [k \in DOMAIN l2.table |-> l2.table[k]]
  BY DEF NewSlot
<1> HIDE DEF off, l2
<1>4. l2.maxOffset \in Nat /\ off <= l2.maxOffset
  BY <1>1, <1>3 DEF IntMax, Packed
<1>5. \A k \in DOMAIN l2.table :
        /\ l2.table[k] \in Nat
        /\ SlotBytes(k) <= l2.table[k]
        /\ l2.table[k] <= l2.offset
        /\ l2.table[k] % SlotBytes(k) = 0
  BY <1>1, <1>2, <1>3 DEF Packed
<1>6. ASSUME NEW k \in DOMAIN l.table
      PROVE  l2.table[k] <= l2.table[n] - SlotBytes(n)
  BY <1>1, <1>2, <1>3 DEF Packed
<1>7. \A k, m \in DOMAIN l2.table :
        k # m => \/ l2.table[k] <= l2.table[m] - SlotBytes(m)
                 \/ l2.table[m] <= l2.table[k] - SlotBytes(k)
  BY <1>3, <1>6 DEF Packed
<1>8. l2.table \in [DOMAIN l2.table -> Nat] /\ DOMAIN l2.table \subseteq Vars \ Statics
  BY <1>3, <1>5 DEF Packed
<1>9. Packed(l2) /\ Extends(l, l2) /\ n \in DOMAIN l2.table
  BY <1>1, <1>3, <1>4, <1>5, <1>7, <1>8 DEF Packed, Extends
<1> QED
  BY <1>9 DEF l2

\* fix_pseudo_op keeps the layout packed, moves no slot, and what it wrote
\* is what it would write again.
LEMMA PlaceLemma ==
  ASSUME NEW l, Packed(l), NEW n \in Vars
  PROVE  /\ Packed(PlaceVar(l, n))
         /\ Extends(l, PlaceVar(l, n))
         /\ Told(PlaceVar(l, n), <<n, Home(PlaceVar(l, n), n)>>)
<1>1. CASE n \in Statics
  BY <1>1 DEF PlaceVar, Extends, Told
<1>2. CASE n \notin Statics /\ n \in DOMAIN l.table
  <2>1. IntMax(l.maxOffset, l.table[n]) = l.maxOffset
    BY <1>2 DEF IntMax, Packed
  <2>2. PlaceVar(l, n) = l
    BY <1>2, <2>1 DEF PlaceVar, Packed
  <2> QED
    BY <1>2, <2>2 DEF Extends, Told
<1>3. CASE n \notin Statics /\ n \notin DOMAIN l.table
  BY <1>3, NewSlotLemma DEF PlaceVar, Told
<1> QED
  BY <1>1, <1>2, <1>3

\* An operand written earlier is still the table's after more placements.
LEMMA ToldStays ==
  ASSUME NEW l1, NEW l2, Extends(l1, l2), NEW p, Told(l1, p)
  PROVE  Told(l2, p)
  BY DEF Extends, Told, Home

-----------------------------------------------------------------------------

\* The invariant holds before the first function.
LEMMA InitIInv == Init => IInv
<1> SUFFICES ASSUME Init PROVE IInv
  OBVIOUS
<1>1. Packed(EmptyLayout)
  BY DEF Packed, EmptyLayout
<1>2. lay.maxOffset = 0
  BY DEF Init, EmptyLayout
<1> QED
  BY <1>1, <1>2 DEF Init, IInv

\* Placing an operand and going to the next function keep the invariant.
LEMMA NextIInv == IInv /\ [Next]_vars => IInv'
<1> SUFFICES ASSUME IInv, [Next]_vars PROVE IInv'
  OBVIOUS
<1> USE DEF IInv
<1>1. CASE Enter
  <2>1. Packed(EmptyLayout)
    BY DEF Packed, EmptyLayout
  <2> QED
    BY <1>1, <2>1 DEF Enter
<1>2. ASSUME NEW n \in Vars, FixOne(n) PROVE IInv'
  <2>1. /\ Packed(lay')
        /\ Extends(lay, lay')
        /\ Told(lay', <<n, Home(lay', n)>>)
    BY <1>2, PlaceLemma DEF FixOne
  <2>2. \A p \in homes' : Told(lay', p)
    BY <1>2, <2>1, ToldStays DEF FixOne
  <2> QED
    BY <1>2, <2>1, <2>2 DEF FixOne
<1>3. ASSUME NEW src \in Vars, NEW dst \in Vars, FixTwo(src, dst) PROVE IInv'
  <2> DEFINE l1 == PlaceVar(lay, src)
  <2>1. /\ Packed(l1)
        /\ Extends(lay, l1)
        /\ Told(l1, <<src, Home(l1, src)>>)
    BY PlaceLemma
  <2>2. /\ Packed(lay')
        /\ Extends(l1, lay')
        /\ Told(lay', <<dst, Home(lay', dst)>>)
    <3>1. lay' = PlaceVar(l1, dst)
      BY <1>3 DEF FixTwo
    <3> QED
      BY <2>1, <3>1, PlaceLemma
  <2>3. homes' = homes \cup {<<src, Home(l1, src)>>, <<dst, Home(lay', dst)>>}
    BY <1>3 DEF FixTwo
  <2> HIDE DEF l1
  <2>4. Told(lay', <<src, Home(l1, src)>>)
    BY <2>1, <2>2, ToldStays
  <2>5. \A p \in homes : Told(lay', p)
    BY <2>1, <2>2, ToldStays
  <2>6. \A p \in homes' : Told(lay', p)
    BY <2>2, <2>3, <2>4, <2>5
  <2> QED
    BY <1>3, <2>2, <2>6 DEF FixTwo
<1>4. CASE Leave
  <2>1. /\ frame' \in Nat
        /\ frame' % 16 = 0
        /\ lay.maxOffset <= frame'
    BY <1>4, RoundLemma DEF Leave, Packed
  <2> QED
    BY <1>4, <2>1 DEF Leave
<1>5. CASE UNCHANGED vars
  BY <1>5 DEF vars
<1> QED
  BY <1>1, <1>2, <1>3, <1>4, <1>5 DEF Next

\* The inductive invariant of the pass.
THEOREM Invariance == Spec => []IInv
<1>1. Init => IInv
  BY InitIInv
<1>2. IInv /\ [Next]_vars => IInv'
  BY NextIInv
<1> QED
  BY <1>1, <1>2, PTL DEF Spec

-----------------------------------------------------------------------------

\* A slot the table handed out: where it is.
LEMMA StackHome ==
  ASSUME IInv, NEW p \in homes, p[2].t = "stack"
  PROVE  /\ p[1] \in DOMAIN lay.table
         /\ p[2].v = lay.table[p[1]]
         /\ p[2].v \in Nat
         /\ SlotBytes(p[1]) <= p[2].v
         /\ p[2].v <= lay.offset
<1>1. Told(lay, p) /\ Packed(lay)
  BY DEF IInv
<1>2. p[1] \notin Statics
  BY <1>1 DEF Told, Home
<1>3. p[2] = [t |-> "stack", v |-> lay.table[p[1]]]
  BY <1>1, <1>2 DEF Told, Home
<1> QED
  BY <1>1, <1>2, <1>3 DEF Told, Packed

\* The invariant contains the type invariant.
LEMMA IInvTypeOK == IInv => TypeOK
<1> SUFFICES ASSUME IInv PROVE TypeOK
  OBVIOUS
<1>1. ASSUME NEW p \in homes PROVE p \in Vars \X HomeSet
  <2>1. Told(lay, p) /\ Packed(lay)
    BY DEF IInv
  <2>2. p[2] \in HomeSet
    BY <2>1 DEF Told, Packed, Home, HomeSet
  <2> QED
    BY <2>1, <2>2 DEF Told
<1> QED
  BY <1>1 DEF IInv, Packed, TypeOK

\* Slots of different variables in the table are disjoint, so those told are.
LEMMA IInvNoOverlap == IInv => NoOverlap
<1> SUFFICES ASSUME IInv, NEW p \in homes, NEW q \in homes,
                    p[1] # q[1], p[2].t = "stack", q[2].t = "stack"
             PROVE  Bytes(p[1], p[2]) \cap Bytes(q[1], q[2]) = {}
  BY DEF NoOverlap
<1>1. \/ p[2].v <= q[2].v - SlotBytes(q[1])
      \/ q[2].v <= p[2].v - SlotBytes(p[1])
  BY StackHome DEF IInv, Packed
<1>2. SlotBytes(p[1]) \in {4, 8} /\ SlotBytes(q[1]) \in {4, 8}
  BY DEF SlotBytes
<1>3. p[2].v \in Nat /\ q[2].v \in Nat
  BY StackHome
<1> QED
  BY <1>1, <1>2, <1>3 DEF Bytes

\* Slots are aligned and inside the frame, since the deepest offset is.
LEMMA IInvFrame == IInv => SlotsAligned /\ FrameCovers
<1> SUFFICES ASSUME IInv PROVE SlotsAligned /\ FrameCovers
  OBVIOUS
<1>1. SlotsAligned
  BY StackHome DEF IInv, Packed, SlotsAligned
<1>2. ASSUME phase = "idle", NEW p \in homes, p[2].t = "stack"
      PROVE  Bytes(p[1], p[2]) \subseteq 1 .. frame
  <2>1. /\ p[2].v \in Nat
        /\ SlotBytes(p[1]) <= p[2].v
        /\ p[2].v <= frame
    BY <1>2, StackHome DEF IInv, Packed
  <2>2. SlotBytes(p[1]) \in {4, 8} /\ frame \in Nat
    BY DEF SlotBytes, IInv
  <2> QED
    BY <2>1, <2>2 DEF Bytes
<1>3. FrameCovers
  BY <1>2 DEF IInv, FrameCovers
<1> QED
  BY <1>1, <1>3

\* The state of the pass is well typed; in particular no static object ever
\* has an entry in the offset table.
THEOREM TypeCorrect == Spec => []TypeOK
  BY Invariance, IInvTypeOK, PTL

\* All mentions of a variable in a function are rewritten alike.
THEOREM OneHomeAlways == Spec => []OneHome
<1>1. IInv => OneHome
  BY DEF IInv, Told, OneHome
<1> QED
  BY <1>1, Invariance, PTL

\* Two variables of a function never share a byte of its frame.
THEOREM NoOverlapAlways == Spec => []NoOverlap
  BY Invariance, IInvNoOverlap, PTL

\* Every slot is naturally aligned, and the frame that gen_asm subtracts from
\* the stack pointer covers all of them and is a multiple of 16.
THEOREM FrameAlways == Spec => [](SlotsAligned /\ FrameCovers)
  BY Invariance, IInvFrame, PTL

-----------------------------------------------------------------------------

AllLegal(s) == s \in Seq(Instructions) /\ \A k \in DOMAIN s : Legal(s[k])

Around(r) ==
  /\ r = [before |-> r.before, i |-> r.i, after |-> r.after]
  /\ r.i \in Instructions
  /\ AllLegal(r.before)
  /\ AllLegal(r.after)

-----------------------------------------------------------------------------

\* One legal instruction is legal code.
LEMMA OneLegal ==
  ASSUME NEW i \in Instructions, Legal(i)
  PROVE  AllLegal(<<i>>)
  BY DEF AllLegal

\* Legal code after legal code is legal.
LEMMA CatLegal ==
  ASSUME NEW s, NEW u, AllLegal(s), AllLegal(u)
  PROVE  AllLegal(s \o u)
  BY DEF AllLegal

\* No code is legal code.
LEMMA NoneLegal == AllLegal(<< >>)
  BY DEF AllLegal

\* Legal code goes on being legal with one legal instruction more.
LEMMA AppendLegal ==
  ASSUME NEW s, NEW i \in Instructions, AllLegal(s), Legal(i)
  PROVE  AllLegal(Append(s, i))
  BY DEF AllLegal

\* A result whose moves and instruction are legal is legal code (insert_before_x86_instr).
LEMMA FlatLegal ==
  ASSUME NEW r, Around(r), Legal(r.i)
  PROVE  AllLegal(Flat(r))
  BY OneLegal, CatLegal DEF Flat, Around

-----------------------------------------------------------------------------

\* The scratch registers are operands, and registers.
LEMMA ScratchRegisters ==
  /\ R10 \in Operands /\ R11 \in Operands /\ CX \in Operands
  /\ \A r \in {R10, R11, CX} : r.t = "reg"
<1>1. R10 = [t |-> "reg", v |-> 0, name |-> "R10"]
  BY DEF R10, Reg
<1>2. R11 = [t |-> "reg", v |-> 0, name |-> "R11"]
  BY DEF R11, Reg
<1>3. CX = [t |-> "reg", v |-> 0, name |-> "CX"]
  BY DEF CX, Reg
<1>4. "R10" \in Names /\ "R11" \in Names /\ "CX" \in Names
  BY NamesAssumption
<1> QED
  BY <1>1, <1>2, <1>3, <1>4 DEF Operands

\* A move of an operand is an instruction with that operand.
LEMMA MovType ==
  ASSUME NEW type \in Names, NEW src \in Operands, NEW dst \in Operands
  PROVE  /\ Mov(type, src, dst) \in Instructions
         /\ Mov(type, src, dst).op = "MOV"
         /\ Mov(type, src, dst).type = type
         /\ Mov(type, src, dst).src = src
         /\ Mov(type, src, dst).dst = dst
<1> QED
  BY NamesAssumption DEF Mov, X, Instructions

\* An instruction with nothing around it has legal moves around it.
LEMMA AloneAround ==
  ASSUME NEW i \in Instructions
  PROVE  Around(Alone(i)) /\ Alone(i).i = i
  BY NoneLegal DEF Alone, Among, Around

\* So is an instruction with one legal move before it.
LEMMA MovedAround ==
  ASSUME NEW i \in Instructions, NEW mov \in Instructions, Legal(mov)
  PROVE  /\ Around(Among(<<mov>>, i, << >>))
         /\ Among(<<mov>>, i, << >>).i = i
  BY NoneLegal, OneLegal DEF Among, Around

\* Legal for a move.
LEMMA LegalMov ==
  ASSUME NEW i \in Instructions, i.op = "MOV", Located(i.dst), ~(IsMem(i.dst) /\ IsMem(i.src)),
         Encodable(i)
  PROVE  Legal(i)
  BY DEF Legal

\* fix_mov changes nothing but the source.
LEMMA WithR10 ==
  ASSUME NEW i \in Instructions
  PROVE  /\ [i EXCEPT !.src = R10] \in Instructions
         /\ [i EXCEPT !.src = R10].op = i.op
         /\ [i EXCEPT !.src = R10].type = i.type
         /\ [i EXCEPT !.src = R10].src = R10
         /\ [i EXCEPT !.src = R10].dst = i.dst
  BY ScratchRegisters DEF Instructions

\* LongSize is positive, so masked constants are numbers below it.
LEMMA MaskedFits ==
  ASSUME NEW i \in Instructions
  PROVE  /\ MovMasked(i) \in Instructions
         /\ MovMasked(i).op = i.op
         /\ MovMasked(i).type = i.type
         /\ MovMasked(i).dst = i.dst
         /\ MovMasked(i).src.t = i.src.t
         /\ i.src.t = "imm" =>
              \/ MovMasked(i).src.v <= INT32_MAX
              \/ i.type = "long" /\ MovMasked(i).src.v < LongSize
              \/ i.type # "long"
<1>1. LongSize \in Nat /\ LongSize > 0
  BY ImmediateAssumption DEF LongSize
<1>2. i.src \in Operands /\ i.src.v \in Nat
  BY DEF Instructions, Operands
<1>3. i.src.v % LongSize \in 0 .. LongSize - 1
  BY <1>1, <1>2
<1>4. CASE TooBig(i.src) /\ i.type = "long"
  <2>1. MovMasked(i) = [i EXCEPT !.src = [i.src EXCEPT !.v = i.src.v % LongSize]]
    BY <1>4 DEF MovMasked, Instructions, Operands
  <2>2. [i.src EXCEPT !.v = i.src.v % LongSize] \in Operands
    BY <1>1, <1>2, <1>3 DEF Operands
  <2> QED
    BY <1>1, <1>2, <1>3, <1>4, <2>1, <2>2 DEF Instructions, Operands
<1>5. CASE ~(TooBig(i.src) /\ i.type = "long")
  BY <1>2, <1>5, ImmediateAssumption DEF MovMasked, TooBig
<1> QED
  BY <1>4, <1>5

\* A move into a register or memory becomes legal code.
LEMMA FixMovLegal ==
  ASSUME NEW i \in Instructions, i.op = "MOV", i.type \in {"long", "quad"},
         i.src.t # "none", Located(i.dst)
  PROVE  Around(FixMov(i)) /\ Legal(FixMov(i).i)
<1> DEFINE load(m) == Mov(m.type, m.src, R10)
           store(m) == [m EXCEPT !.src = R10]
<1>1. R10.t = "reg" /\ ~IsMem(R10)
  BY ScratchRegisters DEF IsMem
<1>2. ASSUME NEW m \in Instructions, m.op = "MOV", m.type \in {"long", "quad"}, Located(m.dst),
             m.src.t = "imm" /\ m.type = "long" => m.src.v < LongSize \/ m.src.v <= INT32_MAX
      PROVE  /\ load(m) \in Instructions /\ Legal(load(m))
             /\ store(m) \in Instructions /\ Legal(store(m))
  <2>1. m.type \in Names /\ m.src \in Operands
    BY <1>2 DEF Instructions
  <2>2. /\ load(m) \in Instructions /\ load(m).op = "MOV" /\ load(m).type = m.type
        /\ load(m).src = m.src /\ load(m).dst = R10
    BY <2>1, MovType, ScratchRegisters
  <2>3. Encodable(load(m)) /\ Located(load(m).dst) /\ ~IsMem(load(m).dst)
    BY <1>1, <1>2, <2>2 DEF Encodable, Located
  <2>4. /\ store(m) \in Instructions /\ store(m).op = "MOV"
        /\ store(m).src = R10 /\ store(m).dst = m.dst
    BY <1>2, WithR10
  <2>5. Encodable(store(m)) /\ Located(store(m).dst) /\ ~IsMem(store(m).src)
    BY <1>1, <1>2, <2>4 DEF Encodable
  <2> HIDE DEF load, store
  <2> QED
    BY <2>2, <2>3, <2>4, <2>5, LegalMov
<1>3. CASE IsMem(i.dst) /\ IsMem(i.src)
  <2>1. i.src.t # "imm"
    BY <1>3 DEF IsMem
  <2>2. FixMov(i) = Among(<<load(i)>>, store(i), << >>)
    BY <1>3 DEF FixMov
  <2> HIDE DEF load, store
  <2> QED
    BY <1>2, <2>1, <2>2, MovedAround
<1>4. CASE ~(IsMem(i.dst) /\ IsMem(i.src))
  <2> DEFINE m == MovMasked(i)
  <2>1. /\ m \in Instructions /\ m.op = "MOV" /\ m.type = i.type /\ m.dst = i.dst
        /\ m.src.t = i.src.t
        /\ m.src.t = "imm" /\ m.type = "long" =>
             m.src.v < LongSize \/ m.src.v <= INT32_MAX
    BY MaskedFits
  <2>2. FixMov(i) = MovBig(m)
    BY <1>4 DEF FixMov
  <2> HIDE DEF m
  <2>3. CASE TooBig(m.src) /\ m.dst.t # "reg"
    <3>1. FixMov(i) = Among(<<load(m)>>, store(m), << >>)
      BY <2>2, <2>3 DEF MovBig
    <3>2. /\ load(m) \in Instructions /\ Legal(load(m))
          /\ store(m) \in Instructions /\ Legal(store(m))
      BY <1>2, <2>1
    <3> HIDE DEF load, store
    <3> QED
      BY <3>1, <3>2, MovedAround
  <2>4. CASE ~(TooBig(m.src) /\ m.dst.t # "reg")
    <3>1. FixMov(i) = Alone(m)
      BY <2>2, <2>4 DEF MovBig
    <3>2. Encodable(m)
      <4>1. m.src.t = "imm" => m.src.v \in Nat
        BY <2>1 DEF Instructions, Operands
      <4> QED
        BY <2>1, <2>4, <4>1, ImmediateAssumption DEF Encodable, TooBig
    <3>3. Legal(m)
      <4>1. ~(IsMem(m.dst) /\ IsMem(m.src))
        BY <1>4, <2>1 DEF IsMem
      <4> QED
        BY <2>1, <3>2, <4>1, LegalMov
    <3> QED
      BY <2>1, <3>1, <3>3, AloneAround
  <2> QED
    BY <2>3, <2>4
<1> QED
  BY <1>3, <1>4

-----------------------------------------------------------------------------

\* A result stays well formed when a move into a scratch register is inserted
\* before it, and its instruction is the same.
LEMMA InsertBeforeAround ==
  ASSUME NEW r, Around(r),
         NEW type \in {"long", "quad"}, type \in Names,
         NEW src \in Operands, src.t # "none",
         NEW reg \in {R10, R11, CX}
  PROVE  /\ Around(InsertBefore(r, Mov(type, src, reg)))
         /\ InsertBefore(r, Mov(type, src, reg)).i = r.i
         /\ InsertBefore(r, Mov(type, src, reg)).after = r.after
<1> DEFINE mov == Mov(type, src, reg)
<1>1. /\ mov \in Instructions /\ mov.op = "MOV" /\ mov.type = type
      /\ mov.src = src /\ mov.dst = reg
  BY MovType, ScratchRegisters
<1>2. Located(mov.dst)
  BY <1>1, ScratchRegisters DEF Located
<1> HIDE DEF mov
<1>3. Around(FixMov(mov)) /\ Legal(FixMov(mov).i)
  BY <1>1, <1>2, FixMovLegal
<1>4. AllLegal(Flat(FixMov(mov)))
  BY <1>3, FlatLegal
<1>5. AllLegal(r.before \o Flat(FixMov(mov)))
  BY <1>4, CatLegal DEF Around
<1>6. /\ Around(InsertBefore(r, mov)) /\ InsertBefore(r, mov).i = r.i
      /\ InsertBefore(r, mov).after = r.after
  BY <1>5 DEF InsertBefore, Among, Around
<1> QED
  BY <1>6 DEF mov

\* New operands for the instruction of a result.
LEMMA WithSrcAround ==
  ASSUME NEW r, Around(r), NEW o \in Operands
  PROVE  /\ Around(WithSrc(r, o))
         /\ WithSrc(r, o).i.op = r.i.op /\ WithSrc(r, o).i.type = r.i.type
         /\ WithSrc(r, o).i.src = o /\ WithSrc(r, o).i.dst = r.i.dst
<1> DEFINE j == [r.i EXCEPT !.src = o]
<1>1. j \in Instructions /\ j.op = r.i.op /\ j.type = r.i.type /\ j.src = o /\ j.dst = r.i.dst
  BY DEF Around, Instructions
<1>2. WithSrc(r, o) = [before |-> r.before, i |-> j, after |-> r.after]
  BY DEF WithSrc, Among
<1> HIDE DEF j
<1> QED
  BY <1>1, <1>2 DEF Around

\* Another destination leaves the moves as they are.
LEMMA WithDstAround ==
  ASSUME NEW r, Around(r), NEW o \in Operands
  PROVE  /\ Around(WithDst(r, o))
         /\ WithDst(r, o).i.op = r.i.op /\ WithDst(r, o).i.type = r.i.type
         /\ WithDst(r, o).i.dst = o /\ WithDst(r, o).i.src = r.i.src
<1> DEFINE j == [r.i EXCEPT !.dst = o]
<1>1. j \in Instructions /\ j.op = r.i.op /\ j.type = r.i.type /\ j.dst = o /\ j.src = r.i.src
  BY DEF Around, Instructions
<1>2. WithDst(r, o) = [before |-> r.before, i |-> j, after |-> r.after]
  BY DEF WithDst, Among
<1> HIDE DEF j
<1> QED
  BY <1>1, <1>2 DEF Around

\* A legal move before or after an instruction.
LEMMA MoveAround ==
  ASSUME NEW r, Around(r), NEW mov \in Instructions, Legal(mov)
  PROVE  /\ Around(MoveBefore(r, mov)) /\ MoveBefore(r, mov).i = r.i
         /\ Around(InsertAfter(r, mov)) /\ InsertAfter(r, mov).i = r.i
  BY AppendLegal, OneLegal DEF MoveBefore, InsertAfter, Among, Around

\* The instruction of a result after its source has gone into a register:
\* nothing else about it has changed.
LEMMA SourceMoved ==
  ASSUME NEW r, Around(r), r.i.type \in {"long", "quad"}, r.i.src.t # "none",
         NEW reg \in {R10, R11, CX},
         NEW q, q = WithSrc(InsertBefore(r, Mov(r.i.type, r.i.src, reg)), reg)
  PROVE  /\ Around(q) /\ q.i.op = r.i.op /\ q.i.type = r.i.type
         /\ q.i.src = reg /\ q.i.dst = r.i.dst
<1> DEFINE b == InsertBefore(r, Mov(r.i.type, r.i.src, reg))
<1>1. r.i.type \in Names /\ r.i.src \in Operands /\ reg \in Operands
  BY ScratchRegisters DEF Around, Instructions
<1>2. Around(b) /\ b.i = r.i
  BY <1>1, InsertBeforeAround
<1>3. q = WithSrc(b, reg)
  OBVIOUS
<1> HIDE DEF b
<1>4. /\ Around(WithSrc(b, reg))
      /\ WithSrc(b, reg).i.op = b.i.op /\ WithSrc(b, reg).i.type = b.i.type
      /\ WithSrc(b, reg).i.src = reg /\ WithSrc(b, reg).i.dst = b.i.dst
  BY ONLY <1>1, <1>2, WithSrcAround
<1> QED
  BY ONLY <1>2, <1>3, <1>4

\* After fix_..._too_big_const the constant fits, after fix_both_ops_mem not
\* both operands are in memory.
LEMMA FixTooBigAround ==
  ASSUME NEW r, Around(r), r.i.type \in {"long", "quad"}, r.i.src.t # "none",
         NEW q, q = FixTooBig(r)
  PROVE  /\ Around(q) /\ q.i.op = r.i.op /\ q.i.type = r.i.type /\ q.i.dst = r.i.dst
         /\ q.i.src = R10 \/ (q.i.src = r.i.src /\ ~TooBig(r.i.src))
<1>1. CASE TooBig(r.i.src)
  <2>1. q = WithSrc(InsertBefore(r, Mov(r.i.type, r.i.src, R10)), R10)
    BY <1>1 DEF FixTooBig, SourceInR10
  <2> QED
    BY <2>1, SourceMoved
<1>2. CASE ~TooBig(r.i.src)
  BY <1>2 DEF FixTooBig
<1> QED
  BY <1>1, <1>2

\* fix_both_ops_mem leaves at most one operand in memory.
LEMMA FixBothMemAround ==
  ASSUME NEW r, Around(r), r.i.type \in {"long", "quad"}, r.i.src.t # "none",
         NEW q, q = FixBothMem(r)
  PROVE  /\ Around(q) /\ q.i.op = r.i.op /\ q.i.type = r.i.type /\ q.i.dst = r.i.dst
         /\ q.i.src = R10 \/ q.i.src = r.i.src
         /\ ~(IsMem(q.i.dst) /\ IsMem(q.i.src))
<1>1. CASE IsMem(r.i.dst) /\ IsMem(r.i.src)
  <2>1. q = WithSrc(InsertBefore(r, Mov(r.i.type, r.i.src, R10)), R10)
    BY <1>1 DEF FixBothMem, SourceInR10
  <2>2. ~IsMem(R10)
    BY ScratchRegisters DEF IsMem
  <2> QED
    BY <2>1, <2>2, SourceMoved
<1>2. CASE ~(IsMem(r.i.dst) /\ IsMem(r.i.src))
  BY <1>2 DEF FixBothMem
<1> QED
  BY <1>1, <1>2

\* The registers are none of the operands the pass looks for.
LEMMA RegisterOperands ==
  ASSUME NEW o \in {R10, R11, CX}
  PROVE  /\ o \in Operands /\ o.t = "reg" /\ o.t # "none" /\ Located(o)
         /\ ~IsMem(o) /\ ~TooBig(o)
  BY ScratchRegisters DEF Located, IsMem, TooBig

-----------------------------------------------------------------------------

\* A result is legal if what is around its instruction is, and its
\* instruction is.
Legalised(r) == Around(r) /\ Legal(r.i)

\* fix_add_sub: sums, differences and bitwise operators.
LEMMA ArithmeticLegal ==
  ASSUME NEW i \in Instructions, Produced(i), i.op \in {"ADD", "SUB", "AND", "OR", "XOR"}
  PROVE  Legalised(FixAddSub(Alone(i)))
<1> DEFINE r == Alone(i)
           b == FixBothMem(r)
           q == FixTooBig(b)
<1>1. Around(r) /\ r.i = i
  BY AloneAround
<1>2. i.type \in {"long", "quad"} /\ i.src.t # "none" /\ Located(i.dst)
  BY DEF Produced
<1> HIDE DEF r
<1>3. /\ Around(b) /\ b.i.op = i.op /\ b.i.type = i.type /\ b.i.dst = i.dst
      /\ b.i.src = R10 \/ b.i.src = i.src
      /\ ~(IsMem(b.i.dst) /\ IsMem(b.i.src))
  BY <1>1, <1>2, FixBothMemAround
<1>4. b.i.src.t # "none"
  BY <1>2, <1>3, RegisterOperands
<1> HIDE DEF b
<1>5. /\ Around(q) /\ q.i.op = i.op /\ q.i.type = i.type /\ q.i.dst = i.dst
      /\ q.i.src = R10 \/ (q.i.src = b.i.src /\ ~TooBig(b.i.src))
  BY <1>2, <1>3, <1>4, FixTooBigAround
<1> HIDE DEF q
<1>6. ~(IsMem(q.i.dst) /\ IsMem(q.i.src)) /\ ~TooBig(q.i.src)
  BY <1>3, <1>5, RegisterOperands
<1>7. Encodable(q.i)
  BY <1>5, <1>6, ImmediateAssumption DEF Encodable, TooBig, Around, Instructions, Operands
<1>8. Legal(q.i)
  BY <1>2, <1>5, <1>6, <1>7 DEF Legal
<1> QED
  BY <1>5, <1>8 DEF Legalised, FixAddSub, q, b, r

\* fix_mult: the product is made in r11 and stored.
LEMMA MultLegal ==
  ASSUME NEW i \in Instructions, Produced(i), i.op = "MULT"
  PROVE  Legalised(FixMult(Alone(i)))
<1> DEFINE r == Alone(i)
           before == Mov(i.type, i.dst, R11)
           after == Mov(i.type, R11, i.dst)
           stored == WithDst(InsertAfter(InsertBefore(r, before), after), R11)
           d == IF IsMem(i.dst) THEN stored ELSE r
           q == FixTooBig(d)
<1>1. Around(r) /\ r.i = i
  BY AloneAround
<1>2. /\ i.type \in {"long", "quad"} /\ i.src.t # "none" /\ Located(i.dst)
      /\ i.dst.t # "none"
  BY DEF Produced, Located, IsMem
<1>3. i.type \in Names /\ i.dst \in Operands
  BY DEF Instructions
<1>4. /\ after \in Instructions /\ after.op = "MOV" /\ after.src = R11
      /\ after.dst = i.dst
  BY <1>3, MovType, RegisterOperands
<1>5. Legal(after)
  <2>1. Encodable(after) /\ ~IsMem(after.src)
    BY <1>4, RegisterOperands DEF Encodable
  <2> HIDE DEF after
  <2> QED
    BY <1>2, <1>4, <2>1, LegalMov
<1> HIDE DEF r
<1>6. /\ Around(d) /\ d.i.op = "MULT" /\ d.i.type = i.type /\ d.i.src = i.src
      /\ d.i.dst.t = "reg"
  <2>1. CASE IsMem(i.dst)
    <3> DEFINE b == InsertBefore(r, before)
               c == InsertAfter(b, after)
    <3>1. Around(b) /\ b.i = i
      BY <1>1, <1>2, <1>3, InsertBeforeAround
    <3> HIDE DEF b, after
    <3>2. Around(c) /\ c.i = i
      BY <1>4, <1>5, <3>1, MoveAround
    <3> HIDE DEF c
    <3>3. /\ Around(WithDst(c, R11)) /\ WithDst(c, R11).i.op = i.op
          /\ WithDst(c, R11).i.type = i.type /\ WithDst(c, R11).i.src = i.src
          /\ WithDst(c, R11).i.dst = R11
      BY <3>2, WithDstAround, RegisterOperands
    <3>4. d = WithDst(c, R11)
      BY <2>1 DEF b, c, after
    <3> QED
      BY <3>3, <3>4, RegisterOperands
  <2>2. CASE ~IsMem(i.dst)
    BY <1>1, <1>2, <2>2 DEF Located
  <2> QED
    BY <2>1, <2>2
<1>7. FixMult(r) = q
  BY <1>1 DEF FixMult
<1> HIDE DEF d
<1>8. /\ Around(q) /\ q.i.op = "MULT" /\ q.i.dst = d.i.dst
      /\ q.i.src = R10 \/ (q.i.src = d.i.src /\ ~TooBig(d.i.src))
  BY <1>2, <1>6, FixTooBigAround
<1> HIDE DEF q
<1>9. ~TooBig(q.i.src)
  BY <1>8, RegisterOperands
<1>10. Encodable(q.i)
  BY <1>8, <1>9, ImmediateAssumption DEF Encodable, TooBig, Around, Instructions, Operands
<1>11. Legal(q.i)
  BY <1>6, <1>8, <1>10 DEF Legal
<1> QED
  BY <1>7, <1>8, <1>11 DEF Legalised, r

\* fix_div: no constant divides.
LEMMA DivLegal ==
  ASSUME NEW i \in Instructions, Produced(i), i.op \in {"IDIV", "DIV"}
  PROVE  Legalised(FixDiv(Alone(i)))
<1> DEFINE r == Alone(i)
           q == FixDiv(r)
<1>1. Around(r) /\ r.i = i /\ i.type \in {"long", "quad"} /\ i.src.t # "none"
  BY AloneAround DEF Produced
<1> HIDE DEF r
<1>2. CASE i.src.t = "imm"
  <2>1. q = WithSrc(InsertBefore(r, Mov(r.i.type, r.i.src, R11)), R11)
    BY <1>1, <1>2 DEF FixDiv
  <2>2. Around(q) /\ q.i.op = i.op /\ q.i.src = R11
    BY <1>1, <2>1, SourceMoved
  <2>3. Legal(q.i)
    BY <2>2, RegisterOperands DEF Legal
  <2> QED
    BY <2>2, <2>3 DEF Legalised, r
<1>3. CASE i.src.t # "imm"
  <2>1. Located(i.src)
    BY <1>1, <1>3 DEF Located, IsMem, Instructions, Operands
  <2>2. q = r
    BY <1>1, <1>3 DEF FixDiv
  <2>3. Legal(i)
    BY <2>1 DEF Legal
  <2> QED
    BY <1>1, <2>2, <2>3 DEF Legalised, r
<1> QED
  BY <1>2, <1>3

\* fix_shifts: a count that is no constant is in cl, and one that is stays.
LEMMA ShiftLegal ==
  ASSUME NEW i \in Instructions, Produced(i), i.op \in {"SHL", "SAR", "SHR"},
         ~TooFar(i)
  PROVE  Legalised(FixShifts(Alone(i)))
<1> DEFINE r == Alone(i)
           q == FixShifts(r)
<1>1. /\ Around(r) /\ r.i = i /\ i.type \in {"long", "quad"} /\ i.src.t # "none"
      /\ Located(i.dst)
  BY AloneAround DEF Produced
<1> HIDE DEF r
<1>2. CASE i.src.t # "imm" /\ i.src # CX
  <2>1. q = WithSrc(InsertBefore(r, Mov(r.i.type, r.i.src, CX)), CX)
    BY <1>1, <1>2 DEF FixShifts
  <2>2. Around(q) /\ q.i.op = i.op /\ q.i.src = CX /\ q.i.dst = i.dst
    BY <1>1, <2>1, SourceMoved
  <2>3. Legal(q.i)
    BY <1>1, <2>2 DEF Legal
  <2> QED
    BY <2>2, <2>3 DEF Legalised, r
<1>3. CASE ~(i.src.t # "imm" /\ i.src # CX)
  <2>1. q = r
    BY <1>1, <1>3 DEF FixShifts
  <2>2. Legal(i)
    BY <1>1, <1>3, ImmediateAssumption DEF Legal, TooFar, Instructions, Operands
  <2> QED
    BY <1>1, <2>1, <2>2 DEF Legalised, r
<1> QED
  BY <1>2, <1>3

\* Pushes only have to avoid large constants.
LEMMA PushLegal ==
  ASSUME NEW i \in Instructions, Produced(i), i.op = "PUSH"
  PROVE  Legalised(FixTooBig(Alone(i)))
<1> DEFINE r == Alone(i)
           q == FixTooBig(r)
<1>1. Around(r) /\ r.i = i /\ i.type \in {"long", "quad"} /\ i.src.t # "none"
  BY AloneAround DEF Produced
<1> HIDE DEF r
<1>2. /\ Around(q) /\ q.i.op = i.op
      /\ q.i.src = R10 \/ (q.i.src = i.src /\ ~TooBig(i.src))
  BY <1>1, FixTooBigAround
<1> HIDE DEF q
<1>3. ~TooBig(q.i.src)
  BY <1>2, RegisterOperands
<1>4. q.i.src.t = "imm" => q.i.src.v <= INT32_MAX
  BY <1>2, <1>3, ImmediateAssumption DEF TooBig, Around, Instructions, Operands
<1>5. Legal(q.i)
  BY <1>2, <1>4 DEF Legal
<1> QED
  BY <1>2, <1>5 DEF Legalised, q, r

\* fix_cmp: a comparison has no constant as destination.
LEMMA CmpLegal ==
  ASSUME NEW i \in Instructions, Produced(i), i.op = "CMP"
  PROVE  Legalised(FixCmp(i))
<1> DEFINE r == Alone(i)
           t == FixTooBig(r)
           b == FixBothMem(t)
           mov == Mov(i.type, i.dst, R11)
           c == MoveBefore(b, mov)
           d == WithDst(c, R11)
<1>1. /\ Around(r) /\ r.i = i /\ i.type \in {"long", "quad"}
      /\ i.src.t # "none" /\ i.dst.t # "none"
      /\ i.dst.t = "imm" /\ i.type = "long" => i.dst.v < LongSize
  BY AloneAround DEF Produced
<1> HIDE DEF r
<1>2. /\ Around(t) /\ t.i.op = "CMP" /\ t.i.type = i.type /\ t.i.dst = i.dst
      /\ t.i.src = R10 \/ (t.i.src = i.src /\ ~TooBig(i.src))
  BY <1>1, FixTooBigAround
<1>3. t.i.src.t # "none" /\ ~TooBig(t.i.src)
  BY <1>1, <1>2, RegisterOperands
<1> HIDE DEF t
<1>4. /\ Around(b) /\ b.i.op = "CMP" /\ b.i.type = i.type /\ b.i.dst = i.dst
      /\ b.i.src = R10 \/ b.i.src = t.i.src
      /\ ~(IsMem(b.i.dst) /\ IsMem(b.i.src))
  BY <1>1, <1>2, <1>3, FixBothMemAround
<1> HIDE DEF b
<1>5. ~TooBig(b.i.src)
  BY <1>3, <1>4, RegisterOperands
<1>6. CASE i.dst.t = "imm"
  <2>1. i.type \in Names /\ i.dst \in Operands
    BY DEF Instructions
  <2>2. /\ mov \in Instructions /\ mov.op = "MOV" /\ mov.type = i.type
        /\ mov.src = i.dst /\ mov.dst = R11
    BY <2>1, MovType, RegisterOperands
  <2> HIDE DEF mov
  <2>3. Encodable(mov)
    BY <1>1, <1>6, <2>2, RegisterOperands DEF Encodable
  <2>4. Legal(mov)
    BY <2>2, <2>3, RegisterOperands, LegalMov
  <2>5. Around(c) /\ c.i = b.i
    BY <1>4, <2>2, <2>4, MoveAround
  <2>6. FixCmp(i) = d
    BY <1>1, <1>4, <1>6 DEF FixCmp, mov, b, t, r
  <2> HIDE DEF c
  <2>7. /\ Around(d) /\ d.i.op = "CMP" /\ d.i.src = b.i.src /\ d.i.dst = R11
    BY <1>4, <2>5, WithDstAround, RegisterOperands
  <2> HIDE DEF d
  <2>8. Encodable(d.i)
    BY <1>5, <2>7, ImmediateAssumption DEF Encodable, TooBig, Around, Instructions, Operands
  <2>9. Legal(d.i)
    BY <2>7, <2>8, RegisterOperands DEF Legal
  <2> QED
    BY <2>6, <2>7, <2>9 DEF Legalised
<1>7. CASE i.dst.t # "imm"
  <2>1. Located(b.i.dst)
    BY <1>1, <1>4, <1>7 DEF Located, IsMem, Instructions, Operands
  <2>2. Encodable(b.i)
    BY <1>4, <1>5, ImmediateAssumption DEF Encodable, TooBig, Around, Instructions, Operands
  <2>3. Legal(b.i)
    BY <1>4, <2>1, <2>2 DEF Legal
  <2>4. FixCmp(i) = b
    BY <1>1, <1>4, <1>7 DEF FixCmp, b, t, r
  <2> QED
    BY <1>4, <2>3, <2>4 DEF Legalised
<1> QED
  BY <1>6, <1>7

\* A destination in memory is stored to from r11 afterwards.
LEMMA ThroughR11Around ==
  ASSUME NEW r, Around(r), Located(r.i.dst), NEW q, q = ThroughR11(r)
  PROVE  /\ Around(q) /\ q.i.op = r.i.op /\ q.i.type = r.i.type /\ q.i.src = r.i.src
         /\ q.i.dst.t = "reg"
<1> DEFINE mov == Mov("quad", R11, r.i.dst)
           a == InsertAfter(r, mov)
<1>1. CASE IsMem(r.i.dst)
  <2>1. r.i.dst \in Operands
    BY DEF Around, Instructions
  <2>2. /\ mov \in Instructions /\ mov.op = "MOV" /\ mov.src = R11 /\ mov.dst = r.i.dst
    <3>1. "quad" \in Names
      BY NamesAssumption
    <3> QED
      BY <2>1, <3>1, MovType, RegisterOperands
  <2> HIDE DEF mov
  <2>3. Encodable(mov) /\ ~IsMem(mov.src)
    BY <2>2, RegisterOperands DEF Encodable
  <2>4. Legal(mov)
    BY <2>2, <2>3, LegalMov
  <2>5. Around(a) /\ a.i = r.i
    BY <2>2, <2>4, MoveAround
  <2>6. q = WithDst(a, R11)
    BY <1>1 DEF ThroughR11, mov
  <2> HIDE DEF a
  <2>7. /\ Around(WithDst(a, R11)) /\ WithDst(a, R11).i.op = r.i.op
        /\ WithDst(a, R11).i.type = r.i.type /\ WithDst(a, R11).i.src = r.i.src
        /\ WithDst(a, R11).i.dst = R11
    BY ONLY <2>5, WithDstAround, RegisterOperands
  <2> QED
    BY ONLY <2>6, <2>7, RegisterOperands
<1>2. CASE ~IsMem(r.i.dst)
  BY <1>2 DEF ThroughR11, Located
<1> QED
  BY <1>1, <1>2

\* fix_movsx: no constant is extended, and the result is made in r11.
LEMMA MovsxLegal ==
  ASSUME NEW i \in Instructions, Produced(i), i.op = "MOVSX"
  PROVE  Legalised(FixMovsx(Alone(i)))
<1> DEFINE r == Alone(i)
           mov == Mov("long", i.src, R10)
           m == MoveBefore(r, mov)
           s == IF i.src.t = "imm" THEN WithSrc(m, R10) ELSE r
           q == ThroughR11(s)
<1>1. /\ Around(r) /\ r.i = i /\ i.src.t # "none" /\ Located(i.dst)
      /\ i.src.t = "imm" => i.src.v < LongSize
  BY AloneAround DEF Produced
<1>2. i.src \in Operands
  BY DEF Instructions
<1> HIDE DEF r
<1>3. /\ Around(s) /\ s.i.op = "MOVSX" /\ s.i.dst = i.dst /\ Located(s.i.src)
  <2>1. CASE i.src.t = "imm"
    <3>1. /\ mov \in Instructions /\ mov.op = "MOV" /\ mov.type = "long"
          /\ mov.src = i.src /\ mov.dst = R10
      <4>1. "long" \in Names
        BY NamesAssumption
      <4> QED
        BY <1>2, <4>1, MovType, RegisterOperands
    <3> HIDE DEF mov
    <3>2. Encodable(mov)
      BY <1>1, <2>1, <3>1 DEF Encodable
    <3>3. Legal(mov)
      BY <3>1, <3>2, RegisterOperands, LegalMov
    <3>4. Around(m) /\ m.i = i
      BY <1>1, <3>1, <3>3, MoveAround
    <3> HIDE DEF m
    <3> QED
      BY <2>1, <3>4, WithSrcAround, RegisterOperands
  <2>2. CASE i.src.t # "imm"
    BY <1>1, <1>2, <2>2 DEF Located, IsMem, Operands
  <2> QED
    BY <2>1, <2>2
<1>4. FixMovsx(r) = q
  BY <1>1 DEF FixMovsx
<1> HIDE DEF s
<1>5. Around(q) /\ q.i.op = "MOVSX" /\ q.i.src = s.i.src /\ q.i.dst.t = "reg"
  BY <1>1, <1>3, ThroughR11Around
<1> HIDE DEF q
<1>6. Legal(q.i)
  BY <1>3, <1>5 DEF Legal
<1> QED
  BY <1>4, <1>5, <1>6 DEF Legalised, r

\* fix_movzext: the extension becomes the move of a longword.
LEMMA MovzextLegal ==
  ASSUME NEW i \in Instructions, Produced(i), i.op = "MOVZEXT"
  PROVE  Legalised(FixMovzext(i))
<1> DEFINE mov == [i EXCEPT !.op = "MOV", !.type = "long"]
           r == Alone(mov)
           q == ThroughR11(r)
<1>1. /\ mov \in Instructions /\ mov.op = "MOV" /\ mov.type = "long"
      /\ mov.src = i.src /\ mov.dst = i.dst
  BY NamesAssumption DEF Instructions
<1>2. /\ i.src.t # "none" /\ Located(i.dst)
      /\ i.src.t = "imm" => i.src.v < LongSize
  BY DEF Produced
<1> HIDE DEF mov
<1>3. Around(r) /\ r.i = mov
  BY <1>1, AloneAround
<1> HIDE DEF r
<1>4. /\ Around(q) /\ q.i.op = "MOV" /\ q.i.type = "long" /\ q.i.src = i.src
      /\ q.i.dst.t = "reg"
  BY <1>1, <1>2, <1>3, ThroughR11Around
<1> HIDE DEF q
<1>5. Legal(q.i)
  BY <1>2, <1>4 DEF Legal, Encodable, Located, IsMem
<1> QED
  BY <1>4, <1>5 DEF Legalised, FixMovzext, q, r, mov

\* Instructions fix_instr leaves alone.
LEMMA OtherLegal ==
  ASSUME NEW i \in Instructions, Produced(i),
         i.op \notin {"PUSH", "ADD", "SUB", "AND", "OR", "XOR", "MOV", "IDIV", "DIV",
                     "MULT", "SHL", "SAR", "SHR", "CMP", "MOVSX", "MOVZEXT"}
  PROVE  Legalised(Alone(i))
<1>1. Legal(i)
  BY DEF Legal, Produced
<1> QED
  BY <1>1, AloneAround DEF Legalised

-----------------------------------------------------------------------------

\* fix_instr looks at the kind of the instruction and leaves legal code
\* of all but a shift that is too far.
LEMMA FixedAllLegal ==
  ASSUME NEW i \in Instructions, Produced(i), ~TooFar(i)
  PROVE  AllLegal(Fixed(i))
<1>1. Legalised(Fix(i))
  <2>1. CASE i.op = "PUSH"
    BY <2>1, PushLegal DEF Fix
  <2>2. CASE i.op \in {"ADD", "SUB", "AND", "OR", "XOR"}
    BY <2>2, ArithmeticLegal DEF Fix
  <2>3. CASE i.op = "MOV"
    <3>1. i.type \in {"long", "quad"} /\ i.src.t # "none" /\ Located(i.dst)
      BY <2>3 DEF Produced
    <3> QED
      BY <2>3, <3>1, FixMovLegal DEF Fix, Legalised
  <2>4. CASE i.op \in {"IDIV", "DIV"}
    BY <2>4, DivLegal DEF Fix
  <2>5. CASE i.op = "MULT"
    BY <2>5, MultLegal DEF Fix
  <2>6. CASE i.op \in {"SHL", "SAR", "SHR"}
    BY <2>6, ShiftLegal DEF Fix
  <2>7. CASE i.op = "CMP"
    BY <2>7, CmpLegal DEF Fix
  <2>8. CASE i.op = "MOVSX"
    BY <2>8, MovsxLegal DEF Fix
  <2>9. CASE i.op = "MOVZEXT"
    BY <2>9, MovzextLegal DEF Fix
  <2>10. CASE i.op \notin {"PUSH", "ADD", "SUB", "AND", "OR", "XOR", "MOV", "IDIV", "DIV",
                          "MULT", "SHL", "SAR", "SHR", "CMP", "MOVSX", "MOVZEXT"}
    BY <2>10, OtherLegal DEF Fix
  <2> QED
    BY <2>1, <2>2, <2>3, <2>4, <2>5, <2>6, <2>7, <2>8, <2>9, <2>10
<1> QED
  BY <1>1, FlatLegal DEF Legalised, Fixed

\* Of every instruction the selection leaves, the pass makes code the
\* assembler accepts, shifts by a constant that no byte holds apart: no two
\* operands in memory, no constant too large for its place, products in
\* registers, counts in cl or in a byte (x86_fix_instrs.c).
THEOREM FixedLegal ==
  ASSUME NEW i \in Instructions, Produced(i), ~TooFar(i), NEW k \in DOMAIN Fixed(i)
  PROVE  Legal(Fixed(i)[k])
BY FixedAllLegal DEF AllLegal

-----------------------------------------------------------------------------

\* instructions and operands before objects are placed
RawOperands == [t : {"imm", "reg", "pseudo", "none"}, v : Nat, name : Names]

RawInstructions ==
  [op : Names, type : Names, src : RawOperands, dst : RawOperands, cc : Names, label : Nat]

\* an operand that is not a constant
Assignable(o) == o.t \in {"reg", "pseudo"}

\* Produced, of the instructions as the selection chooses them
Chosen(i) ==
  /\ i \in RawInstructions
  /\ i.op # "SETCC" => i.type \in {"long", "quad"}
  /\ i.op \in {"MOV", "ADD", "SUB", "AND", "OR", "XOR", "MULT", "SHL", "SAR", "SHR",
              "MOVSX", "MOVZEXT"} => i.src.t # "none" /\ Assignable(i.dst)
  /\ i.op \in {"NOT", "NEG", "INC", "DEC"} => Assignable(i.src)
  /\ i.op \in {"IDIV", "DIV", "PUSH"} => i.src.t # "none"
  /\ i.op = "CMP" =>
       /\ i.src.t # "none" /\ i.dst.t # "none"
       /\ i.dst.t = "imm" /\ i.type = "long" => i.dst.v < LongSize
  /\ i.op \in {"MOVSX", "MOVZEXT"} /\ i.src.t = "imm" => i.src.v < LongSize

ChosenInstructions == {i \in RawInstructions : Chosen(i)}
ProducedInstructions == {i \in Instructions : Produced(i)}
LegalInstructions == {i \in Instructions : Legal(i) \/ TooFar(i)}

\* Operands stay what they are, but for the objects, which get into memory.
LEMMA PlacedIs ==
  ASSUME NEW o \in RawOperands
  PROVE  /\ Placed(o) \in Operands
         /\ Placed(o).v = o.v
         /\ o.t # "pseudo" => Placed(o).t = o.t
         /\ o.t = "pseudo" => IsMem(Placed(o))
<1>1. CASE o.t # "pseudo"
  <2>1. Placed(o) = o
    BY <1>1 DEF Placed
  <2> QED
    BY <1>1, <2>1 DEF RawOperands, Operands
<1>2. CASE o.t = "pseudo"
  <2>1. PICK t \in {"data", "stack"} : Placed(o) = [o EXCEPT !.t = t]
    BY <1>2 DEF Placed
  <2>2. Placed(o) = [t |-> t, v |-> o.v, name |-> o.name]
    BY <2>1 DEF RawOperands
  <2> QED
    BY <1>2, <2>2 DEF RawOperands, Operands, IsMem
<1> QED
  BY <1>1, <1>2

\* With its objects in memory a chosen instruction is one the last pass can
\* make legal.
LEMMA ChosenPlaced ==
  ASSUME NEW i, Chosen(i)
  PROVE  [i EXCEPT !.src = Placed(@), !.dst = Placed(@)] \in ProducedInstructions
<1>1. PICK s : s = Placed(i.src)
  OBVIOUS
<1>2. PICK d : d = Placed(i.dst)
  OBVIOUS
<1>3. PICK j : j = [i EXCEPT !.src = Placed(@), !.dst = Placed(@)]
  OBVIOUS
<1>4. i \in RawInstructions /\ i.src \in RawOperands /\ i.dst \in RawOperands
  BY DEF Chosen, RawInstructions
<1>5. /\ s \in Operands /\ s.v = i.src.v
      /\ i.src.t # "pseudo" => s.t = i.src.t
      /\ i.src.t = "pseudo" => IsMem(s)
  BY <1>1, <1>4, PlacedIs
<1>6. /\ d \in Operands /\ d.v = i.dst.v
      /\ i.dst.t # "pseudo" => d.t = i.dst.t
      /\ i.dst.t = "pseudo" => IsMem(d)
  BY <1>2, <1>4, PlacedIs
<1>7. /\ j \in Instructions
      /\ j.op = i.op /\ j.type = i.type /\ j.src = s /\ j.dst = d
  <2>1. j = [op |-> i.op, type |-> i.type, src |-> s, dst |-> d, cc |-> i.cc, label |-> i.label]
    BY <1>1, <1>2, <1>3, <1>4 DEF RawInstructions
  <2> QED
    BY <1>4, <1>5, <1>6, <2>1 DEF RawInstructions, Instructions
<1>8. /\ i.src.t # "none" => s.t # "none"
      /\ i.dst.t # "none" => d.t # "none"
      /\ Assignable(i.src) => Located(s)
      /\ Assignable(i.dst) => Located(d)
      /\ s.t = "imm" => i.src.t = "imm"
      /\ d.t = "imm" => i.dst.t = "imm"
  BY <1>5, <1>6 DEF IsMem, Located, Assignable
<1>9. Produced(j)
  BY <1>5, <1>6, <1>7, <1>8 DEF Chosen, Produced
<1> QED
  BY <1>3, <1>7, <1>9 DEF ProducedInstructions

\* Sequences of up to four instructions.
LEMMA FewChosen ==
  ASSUME NEW a \in ChosenInstructions
  PROVE  /\ <<a>> \in Seq(ChosenInstructions)
         /\ \A b \in ChosenInstructions : <<a, b>> \in Seq(ChosenInstructions)
         /\ \A b, c \in ChosenInstructions : <<a, b, c>> \in Seq(ChosenInstructions)
         /\ \A b, c, d \in ChosenInstructions : <<a, b, c, d>> \in Seq(ChosenInstructions)
  OBVIOUS

\* The fields of an instruction the selection makes.
LEMMA XIs ==
  ASSUME NEW op \in Names, NEW type \in Names,
         NEW src \in RawOperands, NEW dst \in RawOperands,
         NEW x, x = X(op, type, src, dst)
  PROVE  /\ x \in RawInstructions
         /\ x.op = op /\ x.type = type /\ x.src = src /\ x.dst = dst
<1>1. "" \in Names
  BY NamesAssumption
<1> QED
  BY <1>1 DEF X, RawInstructions

\* The instructions the selection makes, by the operands they take: two
\* operands, the second of them written ...
LEMMA TwoChosen ==
  ASSUME NEW op \in {"MOV", "ADD", "SUB", "AND", "OR", "XOR", "MULT", "SHL", "SAR", "SHR"},
         NEW type \in {"long", "quad"},
         NEW src \in RawOperands, src.t # "none",
         NEW dst \in RawOperands, Assignable(dst)
  PROVE  X(op, type, src, dst) \in ChosenInstructions
<1>1. PICK x : x = X(op, type, src, dst)
  OBVIOUS
<1>2. op \in Names /\ type \in Names
  BY NamesAssumption, OpNamesAssumption
<1>3. /\ x \in RawInstructions
      /\ x.op = op /\ x.type = type /\ x.src = src /\ x.dst = dst
  BY <1>1, <1>2, XIs
<1>4. Chosen(x)
  BY <1>3 DEF Chosen
<1> QED
  BY <1>1, <1>3, <1>4 DEF ChosenInstructions

\* ... an extension, whose source is narrow ...
LEMMA ExtensionChosen ==
  ASSUME NEW op \in {"MOVSX", "MOVZEXT"},
         NEW src \in RawOperands, src.t # "none", src.t = "imm" => src.v < LongSize,
         NEW dst \in RawOperands, Assignable(dst)
  PROVE  X(op, "quad", src, dst) \in ChosenInstructions
<1>1. PICK x : x = X(op, "quad", src, dst)
  OBVIOUS
<1>2. op \in Names /\ "quad" \in Names
  BY NamesAssumption, OpNamesAssumption
<1>3. /\ x \in RawInstructions
      /\ x.op = op /\ x.type = "quad" /\ x.src = src /\ x.dst = dst
  BY <1>1, <1>2, XIs
<1>4. Chosen(x)
  BY <1>3 DEF Chosen
<1> QED
  BY <1>1, <1>3, <1>4 DEF ChosenInstructions

\* ... a comparison, of a constant that fits as the second operand ...
LEMMA CmpChosen ==
  ASSUME NEW type \in {"long", "quad"},
         NEW src \in RawOperands, src.t # "none",
         NEW dst \in RawOperands, dst.t # "none",
         dst.t = "imm" /\ type = "long" => dst.v < LongSize
  PROVE  X("CMP", type, src, dst) \in ChosenInstructions
<1>1. PICK x : x = X("CMP", type, src, dst)
  OBVIOUS
<1>2. "CMP" \in Names /\ type \in Names
  BY NamesAssumption, OpNamesAssumption
<1>3. /\ x \in RawInstructions
      /\ x.op = "CMP" /\ x.type = type /\ x.src = src /\ x.dst = dst
  BY <1>1, <1>2, XIs
<1>4. Chosen(x)
  BY <1>3 DEF Chosen
<1> QED
  BY <1>1, <1>3, <1>4 DEF ChosenInstructions

\* ... one operand, written or, of a division, only read ...
LEMMA OneChosen ==
  ASSUME NEW op \in {"NOT", "NEG", "INC", "DEC", "IDIV", "DIV"},
         NEW type \in {"long", "quad"},
         NEW src \in RawOperands, src.t # "none",
         op \notin {"IDIV", "DIV"} => Assignable(src)
  PROVE  X(op, type, src, NoOp) \in ChosenInstructions
<1>1. PICK x : x = X(op, type, src, NoOp)
  OBVIOUS
<1>2. op \in Names /\ type \in Names /\ NoOp \in RawOperands
  BY NamesAssumption, OpNamesAssumption DEF NoOp, RawOperands
<1>3. /\ x \in RawInstructions
      /\ x.op = op /\ x.type = type /\ x.src = src
  BY <1>1, <1>2, XIs
<1>4. Chosen(x)
  BY <1>3 DEF Chosen
<1> QED
  BY <1>1, <1>3, <1>4 DEF ChosenInstructions

\* ... or none, and a condition or a label.
LEMMA NoneChosen ==
  ASSUME NEW op \in {"RET", "CDQ", "JMP", "JMPCC", "LABEL"}, NEW type \in {"long", "quad"},
         NEW cc \in Names, NEW label \in Nat
  PROVE  /\ X(op, type, NoOp, NoOp) \in ChosenInstructions
         /\ [X(op, type, NoOp, NoOp) EXCEPT !.label = label] \in ChosenInstructions
         /\ [X(op, type, NoOp, NoOp) EXCEPT !.cc = cc, !.label = label] \in ChosenInstructions
<1>1. PICK x : x = X(op, type, NoOp, NoOp)
  OBVIOUS
<1>2. op \in Names /\ type \in Names /\ NoOp \in RawOperands
  BY NamesAssumption, OpNamesAssumption DEF NoOp, RawOperands
<1>3. x \in RawInstructions /\ x.op = op /\ x.type = type
  BY <1>1, <1>2, XIs
<1>4. ASSUME NEW y \in {x, [x EXCEPT !.label = label], [x EXCEPT !.cc = cc, !.label = label]}
      PROVE  y \in ChosenInstructions
  <2>1. y \in RawInstructions /\ y.op = op /\ y.type = type
    BY <1>3 DEF RawInstructions
  <2>2. Chosen(y)
    BY <2>1 DEF Chosen
  <2> QED
    BY <2>1, <2>2 DEF ChosenInstructions
<1> QED
  BY <1>1, <1>4

\* The flag of a comparison is put into an object.
LEMMA SetccChosen ==
  ASSUME NEW dst \in RawOperands, NEW cc \in Names
  PROVE  [X("SETCC", "byte", NoOp, dst) EXCEPT !.cc = cc] \in ChosenInstructions
<1>1. PICK x : x = X("SETCC", "byte", NoOp, dst)
  OBVIOUS
<1>2. "SETCC" \in Names /\ "byte" \in Names /\ NoOp \in RawOperands
  BY NamesAssumption, OpNamesAssumption DEF NoOp, RawOperands
<1>3. x \in RawInstructions /\ x.op = "SETCC"
  BY <1>1, <1>2, XIs
<1>4. PICK y : y = [x EXCEPT !.cc = cc]
  OBVIOUS
<1>5. y \in RawInstructions /\ y.op = "SETCC"
  BY <1>3, <1>4 DEF RawInstructions
<1>6. Chosen(y)
  BY <1>5 DEF Chosen
<1> QED
  BY <1>1, <1>4, <1>5, <1>6 DEF ChosenInstructions

\* What the operands of the intermediate code become.
LEMMA OperandIs ==
  ASSUME NEW v \in TacValues
  PROVE  /\ Operand(v) \in RawOperands
         /\ Operand(v).t # "none"
         /\ v.k = "var" => Assignable(Operand(v))
         /\ Operand(v).t = "imm" => v.k = "const" /\ Operand(v).v = v.v
<1>1. /\ v.k \in {"var", "const"} /\ v.v \in Nat /\ v.name \in Names
  BY DEF TacValues
<1>2. "" \in Names
  BY NamesAssumption
<1>3. CASE v.k = "const"
  <2>1. PICK n \in Nat : n = v.v
    BY <1>1
  <2>2. PICK o : o = [t |-> "imm", v |-> n, name |-> ""]
    OBVIOUS
  <2>3. Operand(v) = o
    BY <1>3, <2>1, <2>2 DEF Operand, Imm
  <2>4. o \in RawOperands /\ o.t = "imm" /\ o.v = n
    BY <1>2, <2>2 DEF RawOperands
  <2> QED
    BY <1>3, <2>1, <2>3, <2>4
<1>4. CASE v.k = "var"
  <2>1. Operand(v) = [t |-> "pseudo", v |-> 0, name |-> v.name]
    BY <1>4 DEF Operand, Pseudo
  <2> QED
    BY <1>1, <1>4, <2>1 DEF RawOperands, Assignable
<1> QED
  BY <1>1, <1>3, <1>4

\* The registers and constants the selection uses itself, and types.
LEMMA GivenOperands ==
  /\ \A r \in {"AX", "DX"} : Reg(r) \in RawOperands /\ Assignable(Reg(r)) /\ Reg(r).t # "none"
  /\ Zero \in RawOperands /\ Zero.t = "imm" /\ Zero.v = 0
  /\ \A v : AsmType(v) \in {"long", "quad"}
<1>1. {"AX", "DX", ""} \subseteq Names
  BY NamesAssumption, OpNamesAssumption
<1>2. \A r : Reg(r) = [t |-> "reg", v |-> 0, name |-> r]
  BY DEF Reg
<1>3. Zero = [t |-> "imm", v |-> 0, name |-> ""]
  BY DEF Zero, Imm
<1>4. \A v : AsmType(v) \in {"long", "quad"}
  BY DEF AsmType
<1> QED
  BY <1>1, <1>2, <1>3, <1>4 DEF RawOperands, Assignable

\* The first operand of an instruction that has one, as a destination of cmp
\* or the source of an extension, fits its type.
LEMMA FirstOperand ==
  ASSUME NEW i \in TacInstrs, i.op \notin Bare
  PROVE  /\ i.src1 \in TacValues
         /\ Operand(i.src1) \in RawOperands
         /\ Operand(i.src1).t # "none"
         /\ i.src1.k = "var" => Assignable(Operand(i.src1))
         /\ Operand(i.src1).t = "imm" /\ AsmType(i.src1) = "long" => Operand(i.src1).v < LongSize
         /\ Operand(i.src1).t = "imm" /\ i.op \in Extensions => Operand(i.src1).v < LongSize
<1>1. /\ i.src1 \in TacValues
      /\ i.op \in Extensions => i.src1.tp \in {"int", "uint"}
      /\ i.src1.k = "const" /\ i.src1.tp \in {"int", "uint"} => i.src1.v < LongSize
  BY DEF TacInstrs
<1>2. i.src1.tp \in {"int", "uint", "long", "ulong"}
  BY <1>1 DEF TacValues, Types
<1>3. AsmType(i.src1) = "long" => i.src1.tp \in {"int", "uint"}
  BY <1>2 DEF AsmType
<1>4. /\ Operand(i.src1) \in RawOperands
      /\ Operand(i.src1).t # "none"
      /\ i.src1.k = "var" => Assignable(Operand(i.src1))
      /\ Operand(i.src1).t = "imm" => i.src1.k = "const" /\ Operand(i.src1).v = i.src1.v
  BY <1>1, OperandIs
<1> QED
  BY ONLY <1>1, <1>3, <1>4

\* The second operand, of those that have one.
LEMMA SecondOperand ==
  ASSUME NEW i \in TacInstrs, i.op \in Binaries \cup {"JE"}
  PROVE  Operand(i.src2) \in RawOperands /\ Operand(i.src2).t # "none"
<1>1. i.src2 \in TacValues
  BY DEF TacInstrs
<1> QED
  BY <1>1, OperandIs

\* The destination is an object.
LEMMA DstOperand ==
  ASSUME NEW i \in TacInstrs, i.op \in Binaries \cup Assigning \cup Unaries \cup Extensions
  PROVE  /\ Operand(i.dst) \in RawOperands
         /\ Operand(i.dst).t # "none"
         /\ Assignable(Operand(i.dst))
<1>1. i.dst \in TacValues \cup {None} /\ i.dst.k = "var"
  BY DEF TacInstrs
<1>2. None.k = "none"
  BY DEF None, Expr
<1>3. i.dst \in TacValues
  BY <1>1, <1>2
<1> QED
  BY <1>1, <1>3, OperandIs

\* A return moves its operand into ax (gen_asm_from_ret_instr).
LEMMA RetChosen ==
  ASSUME NEW i \in TacInstrs, i.op = "RET"
  PROVE  SelectRet(i) \in Seq(ChosenInstructions)
<1>1. /\ Operand(i.src1) \in RawOperands /\ Operand(i.src1).t # "none"
      /\ AsmType(i.src1) \in {"long", "quad"}
      /\ Reg("AX") \in RawOperands /\ Assignable(Reg("AX"))
  BY FirstOperand, GivenOperands DEF Bare
<1>2. Mov(AsmType(i.src1), Operand(i.src1), Reg("AX")) \in ChosenInstructions
  BY <1>1, TwoChosen DEF Mov
<1>3. X("RET", "quad", NoOp, NoOp) \in ChosenInstructions
  BY NamesAssumption, NoneChosen
<1> QED
  BY <1>2, <1>3, FewChosen DEF SelectRet

\* A unary operator is a move and the operator on the destination ...
LEMMA UnaryChosen ==
  ASSUME NEW i \in TacInstrs, i.op \in {"NEGATE", "COMPLEMENT"}
  PROVE  SelectUnary(i) \in Seq(ChosenInstructions)
<1>1. /\ Operand(i.src1) \in RawOperands /\ Operand(i.src1).t # "none"
      /\ AsmType(i.dst) \in {"long", "quad"}
      /\ Operand(i.dst) \in RawOperands /\ Operand(i.dst).t # "none" /\ Assignable(Operand(i.dst))
  BY FirstOperand, DstOperand, GivenOperands DEF Bare, Unaries
<1>2. Mov(AsmType(i.dst), Operand(i.src1), Operand(i.dst)) \in ChosenInstructions
  BY <1>1, TwoChosen DEF Mov
<1>3. PICK op \in {"NEG", "NOT"} : op = IF i.op = "NEGATE" THEN "NEG" ELSE "NOT"
  OBVIOUS
<1>4. X(op, AsmType(i.dst), Operand(i.dst), NoOp) \in ChosenInstructions
  BY <1>1, OneChosen
<1> QED
  BY <1>2, <1>3, <1>4, FewChosen DEF SelectUnary

\* ... like a binary one, whose kind depends on the sign of a shift.
LEMMA MachineOpIs ==
  ASSUME NEW op \in {"ADD", "SUB", "MUL", "AND", "OR", "XOR", "LSHIFT", "RSHIFT"}, NEW left
  PROVE  MachineOp(op, left) \in {"ADD", "SUB", "AND", "OR", "XOR", "MULT", "SHL", "SAR", "SHR"}
<1>1. CASE op = "RSHIFT"
  BY <1>1 DEF MachineOp
<1>2. CASE op = "LSHIFT"
  BY <1>2 DEF MachineOp
<1>3. CASE op = "MUL"
  BY <1>3 DEF MachineOp
<1>4. CASE op \notin {"MUL", "LSHIFT", "RSHIFT"}
  BY <1>4 DEF MachineOp
<1> QED
  BY <1>1, <1>2, <1>3, <1>4

\* The operators of two operands that are one instruction.
LEMMA BinaryChosen ==
  ASSUME NEW i \in TacInstrs,
         i.op \in {"ADD", "SUB", "MUL", "AND", "OR", "XOR", "LSHIFT", "RSHIFT"}
  PROVE  SelectBinary(i) \in Seq(ChosenInstructions)
<1>1. /\ Operand(i.src1) \in RawOperands /\ Operand(i.src1).t # "none"
      /\ Operand(i.src2) \in RawOperands /\ Operand(i.src2).t # "none"
      /\ AsmType(i.dst) \in {"long", "quad"}
      /\ Operand(i.dst) \in RawOperands /\ Assignable(Operand(i.dst))
  BY FirstOperand, SecondOperand, DstOperand, GivenOperands DEF Bare, Binaries
<1>2. Mov(AsmType(i.dst), Operand(i.src1), Operand(i.dst)) \in ChosenInstructions
  BY <1>1, TwoChosen DEF Mov
<1>3. X(MachineOp(i.op, i.src1), AsmType(i.dst), Operand(i.src2), Operand(i.dst))
        \in ChosenInstructions
  BY <1>1, MachineOpIs, TwoChosen
<1> QED
  BY <1>2, <1>3, FewChosen DEF SelectBinary

\* A division goes through ax and dx ...
LEMMA DivChosen ==
  ASSUME NEW i \in TacInstrs, i.op \in {"DIV", "MOD"}
  PROVE  SelectDiv(i) \in Seq(ChosenInstructions)
<1>1. PICK type \in {"long", "quad"} : type = AsmType(i.src1)
  BY GivenOperands
<1>2. PICK r \in {"AX", "DX"} : r = IF i.op = "DIV" THEN "AX" ELSE "DX"
  OBVIOUS
<1>3. PICK op \in {"IDIV", "DIV"} : op = IF IsSigned(i.src1.tp) THEN "IDIV" ELSE "DIV"
  OBVIOUS
<1>4. /\ Operand(i.src1) \in RawOperands /\ Operand(i.src1).t # "none"
      /\ Operand(i.src2) \in RawOperands /\ Operand(i.src2).t # "none"
      /\ Operand(i.dst) \in RawOperands /\ Assignable(Operand(i.dst))
  BY FirstOperand, SecondOperand, DstOperand DEF Bare, Binaries
<1>5. /\ Reg("AX") \in RawOperands /\ Assignable(Reg("AX"))
      /\ Reg("DX") \in RawOperands /\ Assignable(Reg("DX"))
      /\ Reg(r) \in RawOperands /\ Reg(r).t # "none"
      /\ Zero \in RawOperands /\ Zero.t # "none"
  BY GivenOperands
<1>6. Mov(type, Operand(i.src1), Reg("AX")) \in ChosenInstructions
  BY <1>4, <1>5, TwoChosen DEF Mov
<1>7. PICK e \in ChosenInstructions :
        e = IF IsSigned(i.src1.tp) THEN X("CDQ", type, NoOp, NoOp) ELSE Mov(type, Zero, Reg("DX"))
  <2>1. X("CDQ", type, NoOp, NoOp) \in ChosenInstructions
    BY NamesAssumption, NoneChosen
  <2>2. Mov(type, Zero, Reg("DX")) \in ChosenInstructions
    BY <1>5, TwoChosen DEF Mov
  <2> QED
    BY <2>1, <2>2
<1>8. X(op, type, Operand(i.src2), NoOp) \in ChosenInstructions
  BY <1>4, OneChosen
<1>9. Mov(type, Reg(r), Operand(i.dst)) \in ChosenInstructions
  BY <1>4, <1>5, TwoChosen DEF Mov
<1>10. SelectDiv(i) = <<Mov(type, Operand(i.src1), Reg("AX")), e,
                        X(op, type, Operand(i.src2), NoOp), Mov(type, Reg(r), Operand(i.dst))>>
  BY <1>1, <1>2, <1>3, <1>7 DEF SelectDiv
<1> QED
  BY <1>6, <1>7, <1>8, <1>9, <1>10, FewChosen

\* ... and so does a compound one.
LEMMA AssignDivChosen ==
  ASSUME NEW i \in TacInstrs, i.op \in {"ASDIV", "ASMOD"}
  PROVE  SelectAssignDiv(i) \in Seq(ChosenInstructions)
<1>1. PICK r \in {"AX", "DX"} : r = IF i.op = "ASDIV" THEN "AX" ELSE "DX"
  OBVIOUS
<1>2. /\ Operand(i.src1) \in RawOperands /\ Operand(i.src1).t # "none"
      /\ Operand(i.dst) \in RawOperands /\ Operand(i.dst).t # "none" /\ Assignable(Operand(i.dst))
      /\ \A v : AsmType(v) \in {"long", "quad"}
  BY FirstOperand, DstOperand, GivenOperands DEF Bare, Assigning
<1>3. /\ Reg("AX") \in RawOperands /\ Assignable(Reg("AX"))
      /\ Reg(r) \in RawOperands /\ Reg(r).t # "none"
  BY GivenOperands
<1>4. Mov(AsmType(i.src1), Operand(i.dst), Reg("AX")) \in ChosenInstructions
  BY <1>2, <1>3, TwoChosen DEF Mov
<1>5. X("CDQ", AsmType(i.dst), NoOp, NoOp) \in ChosenInstructions
  BY <1>2, NamesAssumption, NoneChosen
<1>6. X("IDIV", AsmType(i.src2), Operand(i.src1), NoOp) \in ChosenInstructions
  BY <1>2, OneChosen
<1>7. Mov(AsmType(i.dst), Reg(r), Operand(i.dst)) \in ChosenInstructions
  BY <1>2, <1>3, TwoChosen DEF Mov
<1> QED
  BY <1>1, <1>4, <1>5, <1>6, <1>7, FewChosen DEF SelectAssignDiv

\* A comparison leaves its outcome in an object.
LEMMA FlaggedChosen ==
  ASSUME NEW i \in TacInstrs, i.op \in Comparisons \cup {"NOT"},
         NEW cmp \in ChosenInstructions, NEW cc \in Names
  PROVE  Flagged(cmp, cc, i.dst) \in Seq(ChosenInstructions)
<1>1. /\ Operand(i.dst) \in RawOperands /\ Assignable(Operand(i.dst))
      /\ AsmType(i.dst) \in {"long", "quad"}
      /\ Zero \in RawOperands /\ Zero.t # "none"
  BY DstOperand, GivenOperands DEF Binaries, Unaries
<1>2. Mov(AsmType(i.dst), Zero, Operand(i.dst)) \in ChosenInstructions
  BY <1>1, TwoChosen DEF Mov
<1>3. [X("SETCC", "byte", NoOp, Operand(i.dst)) EXCEPT !.cc = cc] \in ChosenInstructions
  BY <1>1, SetccChosen
<1> QED
  BY <1>2, <1>3, FewChosen DEF Flagged

\* What is compared with zero, or with another operand.
LEMMA CmpOfChosen ==
  ASSUME NEW i \in TacInstrs, i.op \notin Bare,
         NEW src \in RawOperands, src.t # "none"
  PROVE  X("CMP", AsmType(i.src1), src, Operand(i.src1)) \in ChosenInstructions
<1>1. /\ Operand(i.src1) \in RawOperands /\ Operand(i.src1).t # "none"
      /\ Operand(i.src1).t = "imm" /\ AsmType(i.src1) = "long" => Operand(i.src1).v < LongSize
      /\ AsmType(i.src1) \in {"long", "quad"}
  BY FirstOperand, GivenOperands
<1> QED
  BY <1>1, CmpChosen

\* The logical not is a comparison with zero ...
LEMMA NotChosen ==
  ASSUME NEW i \in TacInstrs, i.op = "NOT"
  PROVE  SelectNot(i) \in Seq(ChosenInstructions)
<1>1. X("CMP", AsmType(i.src1), Zero, Operand(i.src1)) \in ChosenInstructions
  BY CmpOfChosen, GivenOperands DEF Bare
<1>2. "E" \in Names
  BY OpNamesAssumption
<1> QED
  BY <1>1, <1>2, FlaggedChosen DEF SelectNot

\* ... and a relation one of its operands, with the code of the relation.
LEMMA ComparingChosen ==
  ASSUME NEW i \in TacInstrs, i.op \in Comparisons
  PROVE  SelectComparing(i) \in Seq(ChosenInstructions)
<1>1. i.op \notin Bare /\ i.op \in Binaries
  BY DEF Bare, Binaries, Comparisons
<1>2. PICK cc : cc = ConditionCode(i.op, IsSigned(i.src1.tp))
  OBVIOUS
<1>3. cc \in {"E", "NE", "L", "LE", "G", "GE", "B", "BE", "A", "AE"}
  <2>1. CASE i.op = "EQ"
    BY <1>2, <2>1 DEF ConditionCode
  <2>2. CASE i.op = "NE"
    BY <1>2, <2>2 DEF ConditionCode
  <2>3. CASE i.op = "LT"
    BY <1>2, <2>3 DEF ConditionCode
  <2>4. CASE i.op = "LE"
    BY <1>2, <2>4 DEF ConditionCode
  <2>5. CASE i.op = "GT"
    BY <1>2, <2>5 DEF ConditionCode
  <2>6. CASE i.op = "GE"
    BY <1>2, <2>6 DEF ConditionCode
  <2> QED
    BY <2>1, <2>2, <2>3, <2>4, <2>5, <2>6 DEF Comparisons
<1>4. cc \in Names
  BY <1>3, OpNamesAssumption
<1>5. X("CMP", AsmType(i.src1), Operand(i.src2), Operand(i.src1)) \in ChosenInstructions
  BY <1>1, SecondOperand, CmpOfChosen
<1> QED
  BY <1>2, <1>4, <1>5, FlaggedChosen DEF SelectComparing

\* A jump with a condition compares with zero, or of a switch with a case.
LEMMA JumpChosen ==
  ASSUME NEW i \in TacInstrs, i.op \in {"JMP", "JZ", "JNZ", "JE"}
  PROVE  SelectJump(i) \in Seq(ChosenInstructions)
<1>1. i.label \in Nat
  BY DEF TacInstrs
<1>2. CASE i.op = "JMP"
  <2>1. [X("JMP", "quad", NoOp, NoOp) EXCEPT !.label = i.label] \in ChosenInstructions
    BY <1>1, NamesAssumption, NoneChosen
  <2> QED
    BY <1>2, <2>1, FewChosen DEF SelectJump
<1>3. CASE i.op # "JMP"
  <2>1. PICK s : s = IF i.op = "JE" THEN Operand(i.src2) ELSE Zero
    OBVIOUS
  <2>2. s \in RawOperands /\ s.t # "none"
    BY <2>1, SecondOperand, GivenOperands
  <2>3. PICK cc \in {"E", "NE"} : cc = IF i.op \in {"JZ", "JE"} THEN "E" ELSE "NE"
    OBVIOUS
  <2>4. cc \in Names
    BY OpNamesAssumption
  <2>5. X("CMP", AsmType(i.src1), s, Operand(i.src1)) \in ChosenInstructions
    BY <1>3, <2>2, CmpOfChosen DEF Bare
  <2>6. [X("JMPCC", "quad", NoOp, NoOp) EXCEPT !.cc = cc, !.label = i.label]
          \in ChosenInstructions
    BY <1>1, <2>4, NoneChosen
  <2> QED
    BY <1>3, <2>1, <2>3, <2>5, <2>6, FewChosen DEF SelectJump
<1> QED
  BY <1>2, <1>3

\* The instructions chosen as one.
LEMMA SingleChosen ==
  ASSUME NEW i \in TacInstrs
  PROVE  /\ i.op = "LABEL" => SelectLabel(i) \in Seq(ChosenInstructions)
         /\ i.op \in Stepping => SelectIncDec(i) \in Seq(ChosenInstructions)
         /\ i.op = "CPY" => SelectCpy(i) \in Seq(ChosenInstructions)
         /\ i.op = "TRUNCATE" => SelectTruncate(i) \in Seq(ChosenInstructions)
<1>1. CASE i.op = "LABEL"
  <2>1. i.label \in Nat
    BY DEF TacInstrs
  <2>2. [X("LABEL", "quad", NoOp, NoOp) EXCEPT !.label = i.label] \in ChosenInstructions
    BY <2>1, NamesAssumption, NoneChosen
  <2> QED
    BY <1>1, <2>2, FewChosen DEF SelectLabel, Stepping
<1>2. CASE i.op \in Stepping
  <2>1. i.op \notin Bare /\ i.op \in {"INC", "DEC"}
    BY <1>2 DEF Bare, Stepping
  <2>2. i.src1.k = "var"
    BY <1>2 DEF TacInstrs
  <2>3. X(i.op, AsmType(i.src1), Operand(i.src1), NoOp) \in ChosenInstructions
    BY <2>1, <2>2, FirstOperand, GivenOperands, OneChosen
  <2> QED
    BY <2>1, <2>3, FewChosen DEF SelectIncDec
<1>3. CASE i.op \in {"CPY", "TRUNCATE"}
  <2>1. /\ Operand(i.src1) \in RawOperands /\ Operand(i.src1).t # "none"
        /\ Operand(i.dst) \in RawOperands /\ Assignable(Operand(i.dst))
        /\ AsmType(i.dst) \in {"long", "quad"}
    BY <1>3, FirstOperand, DstOperand, GivenOperands DEF Bare, Assigning, Unaries
  <2>2. /\ Mov(AsmType(i.dst), Operand(i.src1), Operand(i.dst)) \in ChosenInstructions
        /\ Mov("long", Operand(i.src1), Operand(i.dst)) \in ChosenInstructions
    BY <2>1, TwoChosen DEF Mov
  <2> QED
    BY <1>3, <2>2, FewChosen DEF SelectCpy, SelectTruncate, Stepping
<1> QED
  BY <1>1, <1>2, <1>3

\* The extensions, of a narrow source ...
LEMMA ExtendingChosen ==
  ASSUME NEW i \in TacInstrs, i.op \in Extensions
  PROVE  SelectSextend(i) \in Seq(ChosenInstructions) /\ SelectZextend(i) \in Seq(ChosenInstructions)
<1>1. i.op \notin Bare
  BY DEF Bare, Extensions
<1>2. /\ Operand(i.src1) \in RawOperands /\ Operand(i.src1).t # "none"
      /\ Operand(i.src1).t = "imm" => Operand(i.src1).v < LongSize
      /\ Operand(i.dst) \in RawOperands /\ Assignable(Operand(i.dst))
  BY <1>1, FirstOperand, DstOperand
<1>3. /\ X("MOVSX", "quad", Operand(i.src1), Operand(i.dst)) \in ChosenInstructions
      /\ X("MOVZEXT", "quad", Operand(i.src1), Operand(i.dst)) \in ChosenInstructions
  BY <1>2, ExtensionChosen
<1> QED
  BY <1>3, FewChosen DEF SelectSextend, SelectZextend

\* ... and the compound assignments, whose operator works on the destination.
LEMMA AssignChosen ==
  ASSUME NEW i \in TacInstrs, i.op \in DOMAIN AssignOps
  PROVE  SelectAssign(i) \in Seq(ChosenInstructions)
<1>1. /\ i.op \notin Bare /\ i.op \in Assigning
      /\ AssignOps[i.op] \in {"ADD", "SUB", "MUL", "AND", "OR", "XOR", "LSHIFT", "RSHIFT"}
  BY DEF AssignOps, Bare, Assigning
<1>2. /\ Operand(i.src1) \in RawOperands /\ Operand(i.src1).t # "none"
      /\ Operand(i.dst) \in RawOperands /\ Assignable(Operand(i.dst))
      /\ AsmType(i.dst) \in {"long", "quad"}
  BY <1>1, FirstOperand, DstOperand, GivenOperands
<1>3. MachineOp(AssignOps[i.op], i.src1)
        \in {"ADD", "SUB", "AND", "OR", "XOR", "MULT", "SHL", "SAR", "SHR"}
  BY <1>1, MachineOpIs
<1>4. X(MachineOp(AssignOps[i.op], i.src1), AsmType(i.dst), Operand(i.src1), Operand(i.dst))
        \in ChosenInstructions
  BY <1>2, <1>3, TwoChosen
<1> QED
  BY <1>4, FewChosen DEF SelectAssign

\* Of whatever intermediate code the selection chooses instructions with the
\* operands they need (gen_asm_from_instr).
LEMMA SelectChosen ==
  ASSUME NEW i \in TacInstrs
  PROVE  Select(i) \in Seq(ChosenInstructions)
<1>1. i.op \in TacOps
  BY DEF TacInstrs
<1>2. CASE i.op = "RET"
  BY <1>2, RetChosen DEF Select, Comparisons, AssignOps
<1>3. CASE i.op \in {"NEGATE", "COMPLEMENT"}
  BY <1>3, UnaryChosen DEF Select, Comparisons, AssignOps
<1>4. CASE i.op = "NOT"
  BY <1>4, NotChosen DEF Select, Comparisons, AssignOps
<1>5. CASE i.op = "CPY"
  BY <1>5, SingleChosen DEF Select, Comparisons, AssignOps
<1>6. CASE i.op \in {"DIV", "MOD"}
  BY <1>6, DivChosen DEF Select, Comparisons, AssignOps
<1>7. CASE i.op \in Comparisons
  BY <1>7, ComparingChosen DEF Select, Comparisons, AssignOps
<1>8. CASE i.op \in {"JMP", "JZ", "JNZ", "JE"}
  BY <1>8, JumpChosen DEF Select, Comparisons, AssignOps
<1>9. CASE i.op = "LABEL"
  BY <1>9, SingleChosen DEF Select, Comparisons, AssignOps
<1>10. CASE i.op \in {"INC", "DEC"}
  BY <1>10, SingleChosen DEF Select, Comparisons, AssignOps, Stepping
<1>11. CASE i.op \in {"ASDIV", "ASMOD"}
  BY <1>11, AssignDivChosen DEF Select, Comparisons, AssignOps
<1>12. CASE i.op \in DOMAIN AssignOps
  BY <1>12, AssignChosen DEF Select, Comparisons, AssignOps
<1>13. CASE i.op = "SIGN_EXTEND"
  BY <1>13, ExtendingChosen DEF Select, Comparisons, AssignOps, Extensions
<1>14. CASE i.op = "ZERO_EXTEND"
  BY <1>14, ExtendingChosen DEF Select, Comparisons, AssignOps, Extensions
<1>15. CASE i.op = "TRUNCATE"
  BY <1>15, SingleChosen DEF Select, Comparisons, AssignOps
<1>16. CASE i.op \in {"ADD", "SUB", "MUL", "AND", "OR", "XOR", "LSHIFT", "RSHIFT"}
  BY <1>16, BinaryChosen DEF Select, Comparisons, AssignOps
<1>17. TacOps \subseteq
         {"RET", "NEGATE", "COMPLEMENT", "NOT", "CPY", "DIV", "MOD", "JMP", "JZ", "JNZ", "JE",
          "LABEL", "INC", "DEC", "ASDIV", "ASMOD", "SIGN_EXTEND", "ZERO_EXTEND", "TRUNCATE",
          "ADD", "SUB", "MUL", "AND", "OR", "XOR", "LSHIFT", "RSHIFT"}
         \cup Comparisons \cup DOMAIN AssignOps
  BY DEF TacOps, Binaries, Assigning, Unaries, Extensions, Stepping, OnlyRead, Bare, AssignOps
<1> QED
  BY <1>1, <1>2, <1>3, <1>4, <1>5, <1>6, <1>7, <1>8, <1>9, <1>10, <1>11, <1>12, <1>13, <1>14,
     <1>15, <1>16, <1>17

-----------------------------------------------------------------------------

\* A set of numbers has a least one.
LEMMA Least ==
  ASSUME NEW T, T \subseteq Nat, T # {}
  PROVE  \E x \in T : \A y \in T : x <= y
<1> DEFINE R == {p \in Nat \X Nat : p[1] < p[2]}
<1>1. OpToRel(<, Nat) = R
  BY DEF OpToRel
<1>2. IsWellFoundedOn(R, Nat)
  BY <1>1, NatLessThanWellFounded
<1>3. \A a, b \in Nat : a < b => <<a, b>> \in R
  OBVIOUS
<1> HIDE DEF R
<1>4. PICK x \in T : \A y \in T : ~(<<y, x>> \in R)
  BY <1>2, WFMin
<1>5. ASSUME NEW y \in T
      PROVE  x <= y
  <2>1. x \in Nat /\ y \in Nat
    OBVIOUS
  <2>2. ~(y < x)
    BY <1>3, <1>4, <2>1
  <2> QED
    BY <2>1, <2>2
<1> QED
  BY <1>5

\* f gives the sequences up to every place one after the other.
Flattening(f, s, k) == f = [i \in 1 .. k |-> IF i = 1 THEN s[i] ELSE f[i - 1] \o s[i]]

\* There is such a function, and it gives sequences of the same things.
LEMMA FlatteningExists ==
  ASSUME NEW S, NEW n \in Nat \ {0}, NEW s \in [1 .. n -> Seq(S)]
  PROVE  \E f : Flattening(f, s, n)
<1> DEFINE T == {k \in 1 .. n : ~ \E f \in [1 .. k -> Seq(S)] : Flattening(f, s, k)}
<1>1. \A k \in T : k \in 1 .. n /\ ~ \E f \in [1 .. k -> Seq(S)] : Flattening(f, s, k)
  OBVIOUS
<1>2. \A k \in (1 .. n) \ T : \E f \in [1 .. k -> Seq(S)] : Flattening(f, s, k)
  OBVIOUS
<1> HIDE DEF T
<1>3. T = {}
  <2> SUFFICES ASSUME T # {} PROVE FALSE
    OBVIOUS
  <2>1. T \subseteq Nat
    BY <1>1
  <2>2. PICK k \in T : \A m \in T : k <= m
    BY <2>1, Least
  <2>3. k \in 1 .. n /\ ~ \E f \in [1 .. k -> Seq(S)] : Flattening(f, s, k)
    BY <1>1
  <2>4. k # 1
    <3>1. PICK f : f = [i \in 1 .. 1 |-> s[1]]
      OBVIOUS
    <3>2. s[1] \in Seq(S)
      OBVIOUS
    <3>3. f \in [1 .. 1 -> Seq(S)] /\ Flattening(f, s, 1)
      BY <3>1, <3>2 DEF Flattening
    <3> QED
      BY <2>3, <3>3
  <2>5. k - 1 \in 1 .. n /\ ~(k <= k - 1) /\ k - 1 \in 1 .. k - 1
    BY <2>3, <2>4
  <2>6. k - 1 \notin T
    BY <2>2, <2>5
  <2>7. PICK f \in [1 .. k - 1 -> Seq(S)] : Flattening(f, s, k - 1)
    BY <1>2, <2>5, <2>6
  <2>8. f[k - 1] \o s[k] \in Seq(S)
    <3>1. f[k - 1] \in Seq(S) /\ s[k] \in Seq(S)
      BY <2>3, <2>5
    <3> QED
      BY <3>1, ConcatProperties
  <2>9. PICK g : g = [i \in 1 .. k |-> IF i = k THEN f[k - 1] \o s[k] ELSE f[i]]
    OBVIOUS
  <2>10. g \in [1 .. k -> Seq(S)]
    BY <2>3, <2>8, <2>9
  <2>11. ASSUME NEW i \in 1 .. k
         PROVE  g[i] = IF i = 1 THEN s[i] ELSE g[i - 1] \o s[i]
    <3>1. CASE i = k
      <4>1. g[k] = f[k - 1] \o s[k] /\ g[k - 1] = f[k - 1]
        BY <2>3, <2>5, <2>9
      <4> QED
        BY <2>4, <3>1, <4>1
    <3>2. CASE i # k
      <4>1. i \in 1 .. k - 1 /\ (i # 1 => i - 1 \in 1 .. k /\ i - 1 # k)
        BY <2>3, <3>2
      <4>2. f[i] = IF i = 1 THEN s[i] ELSE f[i - 1] \o s[i]
        BY <2>7, <4>1 DEF Flattening
      <4>3. g[i] = f[i] /\ (i # 1 => g[i - 1] = f[i - 1])
        BY <2>9, <3>2, <4>1
      <4> QED
        BY <4>2, <4>3
    <3> QED
      BY <3>1, <3>2
  <2>12. Flattening(g, s, k)
    BY <2>9, <2>11 DEF Flattening
  <2> QED
    BY <2>3, <2>10, <2>12
<1> QED
  BY <1>2, <1>3

\* The sequences one after the other are a sequence of the same things.
LEMMA FlatIs ==
  ASSUME NEW S, NEW n \in Nat, NEW s \in [1 .. n -> Seq(S)]
  PROVE  FlattenSeq(s) \in Seq(S)
<1>1. s \in Seq(Seq(S)) /\ Len(s) = n
  OBVIOUS
<1>2. CASE n = 0
  <2>1. FlattenSeq(s) = s
    BY <1>1, <1>2 DEF FlattenSeq
  <2>2. s \in Seq(S)
    BY <1>2
  <2> QED
    BY <2>1, <2>2
<1>3. CASE n # 0
  <2>1. PICK h : h = CHOOSE g : Flattening(g, s, n)
    OBVIOUS
  <2>2. Flattening(h, s, n)
    BY <1>3, <2>1, FlatteningExists
  <2>3. FlattenSeq(s) = h[n]
    BY <1>1, <1>3, <2>1 DEF FlattenSeq, Flattening
  <2> DEFINE U == {k \in 1 .. n : h[k] \notin Seq(S)}
  <2>4. \A k \in 1 .. n : k \in U <=> h[k] \notin Seq(S)
    OBVIOUS
  <2>5. U \subseteq 1 .. n
    OBVIOUS
  <2> HIDE DEF U
  <2>6. U = {}
    <3> SUFFICES ASSUME U # {} PROVE FALSE
      OBVIOUS
    <3>1. U \subseteq Nat
      BY <2>5
    <3>2. PICK k \in U : \A m \in U : k <= m
      BY <3>1, Least
    <3>3. k \in 1 .. n /\ s[k] \in Seq(S)
      BY <2>5
    <3>4. h[k] = IF k = 1 THEN s[k] ELSE h[k - 1] \o s[k]
      BY <2>2, <3>3 DEF Flattening
    <3>5. k # 1
      BY <2>4, <3>3, <3>4
    <3>6. k - 1 \in 1 .. n /\ ~(k <= k - 1)
      BY <3>3, <3>5
    <3>7. h[k - 1] \in Seq(S)
      BY <2>4, <3>2, <3>6
    <3>8. h[k] \in Seq(S)
      BY <3>3, <3>4, <3>5, <3>7, ConcatProperties
    <3> QED
      BY <2>4, <3>3, <3>8
  <2> QED
    BY <1>3, <2>3, <2>4, <2>6
<1> QED
  BY <1>2, <1>3

-----------------------------------------------------------------------------

\* The code is, at every stage, made of what the next pass can take.
BackInv ==
  /\ stage \in {"tac", "selected", "placed", "legal"}
  /\ stage = "tac" => code \in Seq(TacInstrs)
  /\ stage = "selected" => code \in Seq(ChosenInstructions)
  /\ stage = "placed" => code \in Seq(ProducedInstructions)
  /\ stage = "legal" => code \in Seq(LegalInstructions)

\* What is fixed is a sequence of instructions that are legal or too far.
LEMMA FixedIs ==
  ASSUME NEW i \in ProducedInstructions
  PROVE  Fixed(i) \in Seq(LegalInstructions)
<1>1. PICK s : s = Fixed(i)
  OBVIOUS
<1>2. CASE TooFar(i)
  <2>1. i.op \in {"SHL", "SAR", "SHR"} /\ i.src.t = "imm"
    BY <1>2 DEF TooFar
  <2>2. Fix(i) = FixShifts(Alone(i))
    BY <2>1 DEF Fix
  <2>3. FixShifts(Alone(i)) = Alone(i)
    BY <2>1 DEF FixShifts, Alone, Among
  <2>4. Fixed(i) = << >> \o <<i>> \o << >>
    <3>1. Fixed(i) = Flat([before |-> << >>, i |-> i, after |-> << >>])
      BY <2>2, <2>3 DEF Fixed, Alone, Among
    <3> QED
      BY <3>1 DEF Flat
  <2>5. i \in LegalInstructions
    BY <1>2 DEF ProducedInstructions, LegalInstructions
  <2> QED
    BY <2>4, <2>5
<1>3. CASE ~TooFar(i)
  <2>1. AllLegal(s)
    BY <1>1, <1>3, FixedAllLegal DEF ProducedInstructions
  <2>2. s \in Seq(LegalInstructions)
    BY <2>1 DEF AllLegal, LegalInstructions
  <2> QED
    BY <1>1, <2>2
<1> QED
  BY <1>2, <1>3

\* Each pass takes the code as the one before has left it.
LEMMA BackStep ==
  ASSUME BackInv, BackNext
  PROVE  BackInv'
<1>1. CASE SelectAll
  <2>1. stage = "tac" /\ code \in Seq(TacInstrs)
    BY <1>1 DEF SelectAll, BackInv
  <2>2. PICK n \in Nat : n = Len(code) /\ DOMAIN code = 1 .. n
    BY <2>1
  <2>3. [k \in DOMAIN code |-> Select(code[k])] \in [1 .. n -> Seq(ChosenInstructions)]
    <3>1. \A k \in 1 .. n : Select(code[k]) \in Seq(ChosenInstructions)
      BY <2>1, <2>2, SelectChosen
    <3> QED
      BY <2>2, <3>1
  <2>4. FlattenSeq([k \in DOMAIN code |-> Select(code[k])]) \in Seq(ChosenInstructions)
    BY <2>3, FlatIs
  <2> QED
    BY <1>1, <2>4 DEF SelectAll, BackInv
<1>2. CASE PlaceAll
  <2>1. stage = "selected" /\ code \in Seq(ChosenInstructions)
    BY <1>2 DEF PlaceAll, BackInv
  <2>2. \A k \in DOMAIN code :
          [code[k] EXCEPT !.src = Placed(@), !.dst = Placed(@)] \in ProducedInstructions
    <3> TAKE k \in DOMAIN code
    <3>1. code[k] \in ChosenInstructions
      BY <2>1
    <3>2. Chosen(code[k])
      BY <3>1 DEF ChosenInstructions
    <3> QED
      BY <3>2, ChosenPlaced
  <2>3. [k \in DOMAIN code |-> [code[k] EXCEPT !.src = Placed(@), !.dst = Placed(@)]]
          \in Seq(ProducedInstructions)
    <3>1. PICK n \in Nat : DOMAIN code = 1 .. n
      BY <2>1
    <3> DEFINE F(k) == [code[k] EXCEPT !.src = Placed(@), !.dst = Placed(@)]
    <3>2. \A k \in 1 .. n : F(k) \in ProducedInstructions
      BY <2>2, <3>1
    <3> HIDE DEF F
    <3>3. [k \in 1 .. n |-> F(k)] \in Seq(ProducedInstructions)
      BY <3>2
    <3> QED
      BY <3>1, <3>3 DEF F
  <2> QED
    BY <1>2, <2>3 DEF PlaceAll, BackInv
<1>3. CASE LegaliseAll
  <2>1. stage = "placed" /\ code \in Seq(ProducedInstructions)
    BY <1>3 DEF LegaliseAll, BackInv
  <2>2. PICK n \in Nat : n = Len(code) /\ DOMAIN code = 1 .. n
    BY <2>1
  <2>3. [k \in DOMAIN code |-> Fixed(code[k])] \in [1 .. n -> Seq(LegalInstructions)]
    <3>1. \A k \in 1 .. n : Fixed(code[k]) \in Seq(LegalInstructions)
      BY <2>1, <2>2, FixedIs
    <3> QED
      BY <2>2, <3>1
  <2>4. FlattenSeq([k \in DOMAIN code |-> Fixed(code[k])]) \in Seq(LegalInstructions)
    BY <2>3, FlatIs
  <2> QED
    BY <1>3, <2>4 DEF LegaliseAll, BackInv
<1> QED
  BY <1>1, <1>2, <1>3 DEF BackNext

\* The property is the invariant, of the instructions of the code.
LEMMA BackForms == BackInv => LegalForms
<1> SUFFICES ASSUME BackInv PROVE LegalForms
  OBVIOUS
<1>1. ASSUME NEW S, code \in Seq(S)
      PROVE  \A i \in Range(code) : i \in S
  BY <1>1 DEF Range
<1>2. stage = "tac" => \A i \in Range(code) : i \in TacInstrs
  BY <1>1 DEF BackInv
<1>3. stage = "placed" => \A i \in Range(code) : i \in ProducedInstructions
  BY <1>1 DEF BackInv
<1>4. stage = "legal" => \A i \in Range(code) : i \in LegalInstructions
  BY <1>1 DEF BackInv
<1> QED
  BY <1>2, <1>3, <1>4 DEF LegalForms, ProducedInstructions, LegalInstructions

\* Of any intermediate code the typed expressions are turned into, selection,
\* placing and the last pass make code the assembler accepts but for shifts by
\* a constant that no byte holds, and each pass gives the next what that one can
\* do with (gen_asm, fix_pseudo_for_prog, fix_instructions).
THEOREM LegalFormsAlways == BackSpec => []LegalForms
<1>1. BackInit => BackInv
  BY DEF BackInit, BackInv
<1>2. BackInv /\ UNCHANGED backVars => BackInv'
  BY DEF BackInv, backVars
<1> QED
  BY <1>1, <1>2, BackStep, BackForms, PTL DEF BackSpec

-----------------------------------------------------------------------------

\* Instructions by what they write: nothing in memory, their only operand, or
\* their second.
Quiet    == {"CMP", "JMPCC", "RET", "CDQ", "IDIV", "DIV"}
Updating == {"NOT", "NEG", "INC", "DEC"}
Binary2Ops == {"MOV", "ADD", "SUB", "AND", "OR", "XOR", "MULT", "SHL", "SAR", "SHR"}
Extending  == {"MOVSX", "MOVZEXT"}
Writing  == Binary2Ops \cup Extending \cup {"SETCC"}

\* A write of a width to the operand stays inside it; room has the widths of
\* the objects.
HasRoom(o, width, room) ==
  \/ o.t = "reg"
  \/ /\ o.t \in {"pseudo", "stack", "data"}
     /\ o.name \in DOMAIN room
     /\ room[o.name] \in {"long", "quad"}
     /\ ~Wider(width, room[o.name])

WrittenWidth(i) ==
  IF i.op \in Extending THEN "quad" ELSE IF i.op = "SETCC" THEN "byte" ELSE i.type

\* An instruction the processor has, that writes inside its operand.
Inside(i, room) ==
  \/ i.op \in Quiet
  \/ i.op \in Updating /\ HasRoom(i.src, i.type, room)
  \/ i.op \in Writing /\ HasRoom(i.dst, WrittenWidth(i), room)

ChosenInside(room) == {i \in ChosenInstructions : Inside(i, room)}

\* room has the objects of an instruction with the widths of their types.
Furnished(i, room) ==
  \A v \in Mentioned(i) : v.name \in DOMAIN room /\ room[v.name] = Width(v.tp)

\* A width is not wider than itself, and the longword is between the others.
LEMMA Narrow ==
  /\ \A w \in {"byte", "long", "quad"} : ~Wider(w, w) /\ ~Wider("byte", w) /\ ~Wider(w, "quad")
  /\ \A w \in {"long", "quad"} : ~Wider("long", w)
  /\ \A t \in Types : Width(t) \in {"long", "quad"} /\ ~Wider("long", Width(t))
  /\ \A t \in Types : t \in {"long", "ulong"} => Width(t) = "quad"
<1>1. Bits("byte") = ByteBits /\ Bits("long") = LongBits /\ Bits("quad") = QuadBits
  BY DEF Bits
<1>2. /\ ByteBits \in Nat /\ LongBits \in Nat /\ QuadBits \in Nat
      /\ ByteBits < LongBits /\ LongBits < QuadBits
  BY WidthAssumption
<1>3. \A w, x \in {"byte", "long", "quad"} : Wider(w, x) <=> Bits(w) > Bits(x)
  BY DEF Wider
<1>4. \A w \in {"byte", "long", "quad"} : ~Wider(w, w) /\ ~Wider("byte", w) /\ ~Wider(w, "quad")
  BY <1>1, <1>2, <1>3
<1>5. ~Wider("long", "long") /\ ~Wider("long", "quad")
  BY <1>4
<1>6. \A t \in Types : Width(t) \in {"long", "quad"}
  BY DEF Width
<1>7. \A t \in Types : t \in {"long", "ulong"} => Width(t) = "quad"
  BY DEF Width, Types
<1> QED
  BY <1>4, <1>5, <1>6, <1>7

\* The width of an operand's instruction is that of its type.
LEMMA AsmTypeIs ==
  ASSUME NEW v \in TacValues
  PROVE  AsmType(v) = Width(v.tp)
<1>1. v.tp \in {"int", "uint", "long", "ulong"}
  BY DEF TacValues, Types
<1> QED
  BY <1>1 DEF AsmType, Width

\* The destination has room for what has the width of its type, for a
\* longword and for a byte.
LEMMA DstRoom ==
  ASSUME NEW i \in TacInstrs, i.op \in Binaries \cup Assigning \cup Unaries \cup Extensions,
         NEW room, Furnished(i, room)
  PROVE  /\ HasRoom(Operand(i.dst), AsmType(i.dst), room)
         /\ HasRoom(Operand(i.dst), Width(i.dst.tp), room)
         /\ HasRoom(Operand(i.dst), "long", room)
         /\ HasRoom(Operand(i.dst), "byte", room)
         /\ i.op \in Extensions => HasRoom(Operand(i.dst), "quad", room)
<1>1. i.dst \in TacValues \cup {None} /\ i.dst.k = "var"
  BY DEF TacInstrs
<1>2. None.k = "none"
  BY DEF None, Expr
<1>3. i.dst \in TacValues /\ i.dst.tp \in Types
  BY <1>1, <1>2 DEF TacValues
<1>4. i.dst \in Mentioned(i)
  BY <1>1 DEF Mentioned
<1>5. i.dst.name \in DOMAIN room /\ room[i.dst.name] = Width(i.dst.tp)
  BY <1>4 DEF Furnished
<1>6. Operand(i.dst).t = "pseudo" /\ Operand(i.dst).name = i.dst.name
  BY <1>1 DEF Operand, Pseudo
<1>7. i.op \in Extensions => i.dst.tp \in {"long", "ulong"}
  BY DEF TacInstrs
<1>8. Width(i.dst.tp) \in {"long", "quad"}
  BY <1>3, Narrow
<1>9. /\ ~Wider(Width(i.dst.tp), room[i.dst.name])
      /\ ~Wider("long", room[i.dst.name])
      /\ ~Wider("byte", room[i.dst.name])
      /\ i.op \in Extensions => ~Wider("quad", room[i.dst.name])
  BY <1>3, <1>5, <1>7, <1>8, Narrow
<1>10. AsmType(i.dst) = Width(i.dst.tp)
  BY <1>3, AsmTypeIs
<1> QED
  BY <1>5, <1>6, <1>8, <1>9, <1>10 DEF HasRoom

\* Instructions that write inside, by what they write: a register, ...
LEMMA ToRegister ==
  ASSUME NEW op \in Binary2Ops, NEW type, NEW src, NEW r, NEW room
  PROVE  Inside(X(op, type, src, Reg(r)), room)
<1>1. X(op, type, src, Reg(r)).op = op /\ X(op, type, src, Reg(r)).dst.t = "reg"
  BY DEF X, Reg
<1> QED
  BY <1>1 DEF Inside, HasRoom, Writing

\* ... an object with room, ...
LEMMA ToObject ==
  ASSUME NEW op \in Binary2Ops \cup Extending, NEW type, NEW src, NEW dst, NEW room,
         HasRoom(dst, IF op \in Extending THEN "quad" ELSE type, room)
  PROVE  Inside(X(op, type, src, dst), room)
<1>1. PICK x : x = X(op, type, src, dst)
  OBVIOUS
<1>2. x.op = op /\ x.dst = dst /\ x.type = type
  BY <1>1 DEF X
<1>3. op # "SETCC"
  BY DEF Binary2Ops, Extending
<1>4. HasRoom(x.dst, WrittenWidth(x), room)
  BY <1>2, <1>3 DEF WrittenWidth
<1> QED
  BY <1>1, <1>2, <1>4 DEF Inside, Writing

\* ... their only operand, or nothing.
LEMMA ToOperand ==
  ASSUME NEW op, NEW type, NEW src, NEW dst, NEW room,
         op \in Quiet \/ (op \in Updating /\ HasRoom(src, type, room))
  PROVE  Inside(X(op, type, src, dst), room)
<1>1. PICK x : x = X(op, type, src, dst)
  OBVIOUS
<1>2. x.op = op /\ x.src = src /\ x.type = type
  BY <1>1 DEF X
<1> QED
  BY <1>1, <1>2 DEF Inside

\* A comparison whose outcome becomes a number writes a byte of it, after all
\* of it.
LEMMA FlaggedInside ==
  ASSUME NEW i \in TacInstrs, i.op \in Comparisons \cup {"NOT"},
         NEW room, Furnished(i, room),
         NEW cmp, Inside(cmp, room), NEW cc, NEW k \in 1 .. 3
  PROVE  Inside(Flagged(cmp, cc, i.dst)[k], room)
<1>1. /\ HasRoom(Operand(i.dst), AsmType(i.dst), room)
      /\ HasRoom(Operand(i.dst), "byte", room)
  BY DstRoom DEF Binaries, Unaries
<1>2. Inside(Mov(AsmType(i.dst), Zero, Operand(i.dst)), room)
  BY <1>1, ToObject DEF Mov, Binary2Ops, Extending
<1>3. Inside([X("SETCC", "byte", NoOp, Operand(i.dst)) EXCEPT !.cc = cc], room)
  <2>1. PICK x : x = [X("SETCC", "byte", NoOp, Operand(i.dst)) EXCEPT !.cc = cc]
    OBVIOUS
  <2>2. x.op = "SETCC" /\ x.dst = Operand(i.dst)
    BY <2>1 DEF X
  <2>3. WrittenWidth(x) = "byte"
    BY <2>2 DEF WrittenWidth, Extending
  <2> QED
    BY <1>1, <2>1, <2>2, <2>3 DEF Inside, Writing
<1>4. k \in {1, 2, 3}
  OBVIOUS
<1> QED
  BY <1>2, <1>3, <1>4 DEF Flagged

\* Code whose instructions all write inside.
AllInside(s, room) == \A k \in DOMAIN s : Inside(s[k], room)

\* It may have up to four instructions.
LEMMA FewInside ==
  ASSUME NEW room, NEW a, Inside(a, room)
  PROVE  /\ AllInside(<<a>>, room)
         /\ \A b : Inside(b, room) => AllInside(<<a, b>>, room)
         /\ \A b, c : Inside(b, room) /\ Inside(c, room) => AllInside(<<a, b, c>>, room)
         /\ \A b, c, d : Inside(b, room) /\ Inside(c, room) /\ Inside(d, room) =>
              AllInside(<<a, b, c, d>>, room)
<1>1. AllInside(<<a>>, room)
  BY DEF AllInside
<1>2. \A b : Inside(b, room) => AllInside(<<a, b>>, room)
  BY DEF AllInside
<1>3. \A b, c : Inside(b, room) /\ Inside(c, room) => AllInside(<<a, b, c>>, room)
  BY DEF AllInside
<1>4. \A b, c, d : Inside(b, room) /\ Inside(c, room) /\ Inside(d, room) =>
              AllInside(<<a, b, c, d>>, room)
  BY DEF AllInside
<1> QED
  BY <1>1, <1>2, <1>3, <1>4

\* What is selected for an operator that gives a value writes its destination,
\* as far as it goes, and registers ...
LEMMA ValueInside ==
  ASSUME NEW i \in TacInstrs, NEW room, Furnished(i, room)
  PROVE  /\ i.op \in {"NEGATE", "COMPLEMENT"} => AllInside(SelectUnary(i), room)
         /\ i.op \in {"ADD", "SUB", "MUL", "AND", "OR", "XOR", "LSHIFT", "RSHIFT"} =>
              AllInside(SelectBinary(i), room)
         /\ i.op \in {"DIV", "MOD"} => AllInside(SelectDiv(i), room)
         /\ i.op = "CPY" => AllInside(SelectCpy(i), room)
         /\ i.op = "TRUNCATE" => AllInside(SelectTruncate(i), room)
<1>1. CASE i.op \in {"NEGATE", "COMPLEMENT"}
  <2>1. HasRoom(Operand(i.dst), AsmType(i.dst), room)
    BY <1>1, DstRoom DEF Unaries
  <2>2. Inside(Mov(AsmType(i.dst), Operand(i.src1), Operand(i.dst)), room)
    BY <2>1, ToObject DEF Mov, Binary2Ops, Extending
  <2>3. PICK op \in Updating : op = IF i.op = "NEGATE" THEN "NEG" ELSE "NOT"
    BY DEF Updating
  <2>4. Inside(X(op, AsmType(i.dst), Operand(i.dst), NoOp), room)
    BY <2>1, ToOperand
  <2> QED
    BY <1>1, <2>2, <2>3, <2>4, FewInside DEF SelectUnary
<1>2. CASE i.op \in {"ADD", "SUB", "MUL", "AND", "OR", "XOR", "LSHIFT", "RSHIFT"}
  <2>1. HasRoom(Operand(i.dst), AsmType(i.dst), room)
    BY <1>2, DstRoom DEF Binaries
  <2>2. Inside(Mov(AsmType(i.dst), Operand(i.src1), Operand(i.dst)), room)
    BY <2>1, ToObject DEF Mov, Binary2Ops, Extending
  <2>3. PICK op \in Binary2Ops : op = MachineOp(i.op, i.src1) /\ op \notin Extending
    BY <1>2, MachineOpIs DEF Binary2Ops, Extending
  <2>4. Inside(X(op, AsmType(i.dst), Operand(i.src2), Operand(i.dst)), room)
    BY <2>1, <2>3, ToObject
  <2> QED
    BY <1>2, <2>2, <2>3, <2>4, FewInside DEF SelectBinary
<1>3. CASE i.op \in {"DIV", "MOD"}
  <2>1. PICK type : type = AsmType(i.src1)
    OBVIOUS
  <2>2. HasRoom(Operand(i.dst), type, room)
    <3>1. i.src1 \in TacValues /\ Width(i.src1.tp) = Width(i.dst.tp)
      BY <1>3 DEF TacInstrs, Bare
    <3>2. HasRoom(Operand(i.dst), Width(i.dst.tp), room)
      BY <1>3, DstRoom DEF Binaries
    <3> QED
      BY <2>1, <3>1, <3>2, AsmTypeIs
  <2>3. PICK r \in {"AX", "DX"} : r = IF i.op = "DIV" THEN "AX" ELSE "DX"
    OBVIOUS
  <2>4. PICK op \in Quiet : op = IF IsSigned(i.src1.tp) THEN "IDIV" ELSE "DIV"
    BY DEF Quiet
  <2>5. PICK e : e = IF IsSigned(i.src1.tp) THEN X("CDQ", type, NoOp, NoOp)
                     ELSE Mov(type, Zero, Reg("DX"))
    OBVIOUS
  <2>6. Inside(Mov(type, Operand(i.src1), Reg("AX")), room)
    BY ToRegister DEF Mov, Binary2Ops
  <2>7. Inside(e, room)
    <3>1. Inside(X("CDQ", type, NoOp, NoOp), room)
      BY ToOperand DEF Quiet
    <3>2. Inside(Mov(type, Zero, Reg("DX")), room)
      BY ToRegister DEF Mov, Binary2Ops
    <3> QED
      BY <2>5, <3>1, <3>2
  <2>8. Inside(X(op, type, Operand(i.src2), NoOp), room)
    BY ToOperand
  <2>9. Inside(Mov(type, Reg(r), Operand(i.dst)), room)
    BY <2>2, ToObject DEF Mov, Binary2Ops, Extending
  <2>10. SelectDiv(i) = <<Mov(type, Operand(i.src1), Reg("AX")), e,
                          X(op, type, Operand(i.src2), NoOp), Mov(type, Reg(r), Operand(i.dst))>>
    BY <2>1, <2>3, <2>4, <2>5 DEF SelectDiv
  <2> QED
    BY <1>3, <2>6, <2>7, <2>8, <2>9, <2>10, FewInside
<1>4. CASE i.op \in {"CPY", "TRUNCATE"}
  <2>1. /\ HasRoom(Operand(i.dst), AsmType(i.dst), room)
        /\ HasRoom(Operand(i.dst), "long", room)
    BY <1>4, DstRoom DEF Assigning, Unaries
  <2>2. /\ Inside(Mov(AsmType(i.dst), Operand(i.src1), Operand(i.dst)), room)
        /\ Inside(Mov("long", Operand(i.src1), Operand(i.dst)), room)
    BY <2>1, ToObject DEF Mov, Binary2Ops, Extending
  <2> QED
    BY <1>4, <2>2, FewInside DEF SelectCpy, SelectTruncate
<1> QED
  BY <1>1, <1>2, <1>3, <1>4

\* ... one that compares writes nothing else, ...
LEMMA CompareInside ==
  ASSUME NEW i \in TacInstrs, NEW room, Furnished(i, room)
  PROVE  /\ i.op = "NOT" => AllInside(SelectNot(i), room)
         /\ i.op \in Comparisons => AllInside(SelectComparing(i), room)
         /\ i.op \in {"JZ", "JNZ", "JE"} => AllInside(SelectJump(i), room)
         /\ i.op = "RET" => AllInside(SelectRet(i), room)
<1>1. \A type, s, d : Inside(X("CMP", type, s, d), room)
  BY ToOperand DEF Quiet
<1>2. \A cmp, cc : i.op \in Comparisons \cup {"NOT"} /\ Inside(cmp, room) =>
        AllInside(Flagged(cmp, cc, i.dst), room)
  <2> TAKE cmp, cc
  <2> HAVE i.op \in Comparisons \cup {"NOT"} /\ Inside(cmp, room)
  <2>1. DOMAIN Flagged(cmp, cc, i.dst) = 1 .. 3
    BY DEF Flagged
  <2> QED
    BY <2>1, FlaggedInside DEF AllInside
<1>3. CASE i.op = "NOT"
  BY <1>1, <1>2, <1>3 DEF SelectNot, Comparisons
<1>4. CASE i.op \in Comparisons
  BY <1>1, <1>2, <1>4 DEF SelectComparing, Comparisons
<1>5. CASE i.op \in {"JZ", "JNZ", "JE"}
  <2>1. PICK s : s = IF i.op = "JE" THEN Operand(i.src2) ELSE Zero
    OBVIOUS
  <2>2. PICK x : x = [X("JMPCC", "quad", NoOp, NoOp) EXCEPT
                        !.cc = IF i.op \in {"JZ", "JE"} THEN "E" ELSE "NE", !.label = i.label]
    OBVIOUS
  <2>3. x.op = "JMPCC"
    BY <2>2 DEF X
  <2>4. Inside(x, room)
    BY <2>3 DEF Inside, Quiet
  <2>5. SelectJump(i) = <<X("CMP", AsmType(i.src1), s, Operand(i.src1)), x>>
    BY <1>5, <2>1, <2>2 DEF SelectJump
  <2> QED
    BY <1>1, <1>5, <2>4, <2>5, FewInside DEF Comparisons
<1>6. CASE i.op = "RET"
  <2>1. Inside(Mov(AsmType(i.src1), Operand(i.src1), Reg("AX")), room)
    BY ToRegister DEF Mov, Binary2Ops
  <2>2. Inside(X("RET", "quad", NoOp, NoOp), room)
    BY ToOperand DEF Quiet
  <2> QED
    BY <1>6, <2>1, <2>2, FewInside DEF SelectRet, Comparisons
<1> QED
  BY <1>3, <1>4, <1>5, <1>6

\* ... and one that changes an object, or extends a value, has that object's
\* type.
LEMMA ChangeInside ==
  ASSUME NEW i \in TacInstrs, NEW room, Furnished(i, room)
  PROVE  /\ i.op \in Stepping => AllInside(SelectIncDec(i), room)
         /\ i.op \in {"ASDIV", "ASMOD"} => AllInside(SelectAssignDiv(i), room)
         /\ i.op \in DOMAIN AssignOps => AllInside(SelectAssign(i), room)
         /\ i.op \in Extensions => AllInside(SelectSextend(i), room) /\ AllInside(SelectZextend(i), room)
<1>1. ASSUME i.op \in Stepping
      PROVE  AllInside(SelectIncDec(i), room)
  <2>1. i.src1 \in TacValues /\ i.src1.k = "var" /\ i.op \in Updating
    BY <1>1 DEF TacInstrs, Stepping, Bare, Updating
  <2>2. i.src1 \in Mentioned(i)
    BY <2>1 DEF Mentioned
  <2>3. i.src1.name \in DOMAIN room /\ room[i.src1.name] = AsmType(i.src1)
    BY <2>1, <2>2, AsmTypeIs DEF Furnished
  <2>4. AsmType(i.src1) \in {"long", "quad"}
    BY DEF AsmType
  <2>5. ~Wider(AsmType(i.src1), room[i.src1.name])
    BY <2>3, <2>4, Narrow
  <2>6. HasRoom(Operand(i.src1), AsmType(i.src1), room)
    BY <2>1, <2>3, <2>4, <2>5 DEF HasRoom, Operand, Pseudo
  <2>7. Inside(X(i.op, AsmType(i.src1), Operand(i.src1), NoOp), room)
    BY <2>1, <2>6, ToOperand
  <2> QED
    BY <2>7, FewInside DEF SelectIncDec
<1>2. ASSUME i.op \in {"ASDIV", "ASMOD"}
      PROVE  AllInside(SelectAssignDiv(i), room)
  <2>1. HasRoom(Operand(i.dst), AsmType(i.dst), room)
    BY <1>2, DstRoom DEF Assigning
  <2>2. PICK r \in {"AX", "DX"} : r = IF i.op = "ASDIV" THEN "AX" ELSE "DX"
    OBVIOUS
  <2>3. Inside(Mov(AsmType(i.src1), Operand(i.dst), Reg("AX")), room)
    BY ToRegister DEF Mov, Binary2Ops
  <2>4. /\ Inside(X("CDQ", AsmType(i.dst), NoOp, NoOp), room)
        /\ Inside(X("IDIV", AsmType(i.src2), Operand(i.src1), NoOp), room)
    BY ToOperand DEF Quiet
  <2>5. Inside(Mov(AsmType(i.dst), Reg(r), Operand(i.dst)), room)
    BY <2>1, ToObject DEF Mov, Binary2Ops, Extending
  <2> QED
    BY <2>2, <2>3, <2>4, <2>5, FewInside DEF SelectAssignDiv
<1>3. ASSUME i.op \in DOMAIN AssignOps
      PROVE  AllInside(SelectAssign(i), room)
  <2>1. HasRoom(Operand(i.dst), AsmType(i.dst), room)
    BY <1>3, DstRoom DEF Assigning, AssignOps
  <2>2. AssignOps[i.op] \in {"ADD", "SUB", "MUL", "AND", "OR", "XOR", "LSHIFT", "RSHIFT"}
    BY <1>3 DEF AssignOps
  <2>3. PICK op \in Binary2Ops : op = MachineOp(AssignOps[i.op], i.src1) /\ op \notin Extending
    BY <2>2, MachineOpIs DEF Binary2Ops, Extending
  <2>4. Inside(X(op, AsmType(i.dst), Operand(i.src1), Operand(i.dst)), room)
    BY <2>1, <2>3, ToObject
  <2> QED
    BY <2>3, <2>4, FewInside DEF SelectAssign
<1>4. ASSUME i.op \in Extensions
      PROVE  AllInside(SelectSextend(i), room) /\ AllInside(SelectZextend(i), room)
  <2>1. HasRoom(Operand(i.dst), "quad", room)
    BY <1>4, DstRoom
  <2>2. /\ Inside(X("MOVSX", "quad", Operand(i.src1), Operand(i.dst)), room)
        /\ Inside(X("MOVZEXT", "quad", Operand(i.src1), Operand(i.dst)), room)
    BY <2>1, ToObject DEF Extending
  <2> QED
    BY <2>2, FewInside DEF SelectSextend, SelectZextend
<1> QED
  BY <1>1, <1>2, <1>3, <1>4

\* Whatever is selected for an instruction but a jump or a label writes inside
\* (gen_asm_from_instr).
LEMMA SelectInside ==
  ASSUME NEW i \in TacInstrs, i.op \notin Bare, NEW room, Furnished(i, room)
  PROVE  Select(i) \in Seq(ChosenInside(room))
<1>1. AllInside(Select(i), room)
  <2>1. i.op \in TacOps
    BY DEF TacInstrs
  <2>2. CASE i.op = "RET"
    BY <2>2, CompareInside DEF Select, Comparisons, AssignOps
  <2>3. CASE i.op \in {"NEGATE", "COMPLEMENT"}
    BY <2>3, ValueInside DEF Select, Comparisons, AssignOps
  <2>4. CASE i.op = "NOT"
    BY <2>4, CompareInside DEF Select, Comparisons, AssignOps
  <2>5. CASE i.op = "CPY"
    BY <2>5, ValueInside DEF Select, Comparisons, AssignOps
  <2>6. CASE i.op \in {"DIV", "MOD"}
    BY <2>6, ValueInside DEF Select, Comparisons, AssignOps
  <2>7. CASE i.op \in Comparisons
    BY <2>7, CompareInside DEF Select, Comparisons, AssignOps
  <2>8. CASE i.op \in {"JZ", "JNZ", "JE"}
    BY <2>8, CompareInside DEF Select, Comparisons, AssignOps
  <2>9. CASE i.op \in {"INC", "DEC"}
    BY <2>9, ChangeInside DEF Select, Comparisons, AssignOps, Stepping
  <2>10. CASE i.op \in {"ASDIV", "ASMOD"}
    BY <2>10, ChangeInside DEF Select, Comparisons, AssignOps
  <2>11. CASE i.op \in DOMAIN AssignOps
    BY <2>11, ChangeInside DEF Select, Comparisons, AssignOps
  <2>12. CASE i.op = "SIGN_EXTEND"
    BY <2>12, ChangeInside DEF Select, Comparisons, AssignOps, Extensions
  <2>13. CASE i.op = "ZERO_EXTEND"
    BY <2>13, ChangeInside DEF Select, Comparisons, AssignOps, Extensions
  <2>14. CASE i.op = "TRUNCATE"
    BY <2>14, ValueInside DEF Select, Comparisons, AssignOps
  <2>15. CASE i.op \in {"ADD", "SUB", "MUL", "AND", "OR", "XOR", "LSHIFT", "RSHIFT"}
    BY <2>15, ValueInside DEF Select, Comparisons, AssignOps
  <2>16. TacOps \ Bare \subseteq
           {"RET", "NEGATE", "COMPLEMENT", "NOT", "CPY", "DIV", "MOD", "JZ", "JNZ", "JE",
            "INC", "DEC", "ASDIV", "ASMOD", "SIGN_EXTEND", "ZERO_EXTEND", "TRUNCATE",
            "ADD", "SUB", "MUL", "AND", "OR", "XOR", "LSHIFT", "RSHIFT"}
           \cup Comparisons \cup DOMAIN AssignOps
    BY DEF TacOps, Binaries, Assigning, Unaries, Extensions, Stepping, OnlyRead, Bare, AssignOps
  <2> QED
    BY <2>1, <2>2, <2>3, <2>4, <2>5, <2>6, <2>7, <2>8, <2>9, <2>10, <2>11, <2>12, <2>13, <2>14,
       <2>15, <2>16
<1>2. PICK s \in Seq(ChosenInstructions) : s = Select(i)
  BY SelectChosen
<1>3. \A k \in 1 .. Len(s) : s[k] \in ChosenInside(room)
  BY <1>1, <1>2 DEF AllInside, ChosenInside
<1> QED
  BY <1>2, <1>3

-----------------------------------------------------------------------------

Insiders(room) == {i \in Instructions : Inside(i, room)}

\* Placing objects in memory changes nothing about it.
LEMMA PlacedInside ==
  ASSUME NEW room, NEW i \in ChosenInside(room)
  PROVE  [i EXCEPT !.src = Placed(@), !.dst = Placed(@)] \in ProducedInstructions \cap Insiders(room)
<1>1. PICK j : j = [i EXCEPT !.src = Placed(@), !.dst = Placed(@)]
  OBVIOUS
<1>2. i \in RawInstructions /\ Chosen(i) /\ Inside(i, room)
  BY DEF ChosenInside, ChosenInstructions
<1>3. j \in ProducedInstructions
  BY <1>1, <1>2, ChosenPlaced
<1>4. j.op = i.op /\ j.type = i.type /\ j.src = Placed(i.src) /\ j.dst = Placed(i.dst)
  BY <1>1, <1>2 DEF RawInstructions
<1>5. ASSUME NEW o \in {i.src, i.dst}, NEW width, HasRoom(o, width, room)
      PROVE  HasRoom(Placed(o), width, room)
  <2>1. o \in RawOperands
    BY <1>2 DEF RawInstructions
  <2>2. Placed(o).name = o.name
    BY <2>1 DEF Placed, RawOperands
  <2>3. o.t # "pseudo" => Placed(o).t = o.t
    BY DEF Placed
  <2>4. o.t = "pseudo" => Placed(o).t \in {"stack", "data"}
    BY <2>1, PlacedIs DEF IsMem
  <2> QED
    BY <1>5, <2>2, <2>3, <2>4 DEF HasRoom
<1>6. WrittenWidth(j) = WrittenWidth(i)
  BY <1>4 DEF WrittenWidth
<1>7. Inside(j, room)
  BY <1>2, <1>4, <1>5, <1>6 DEF Inside
<1> QED
  BY <1>1, <1>3, <1>7 DEF Insiders, ProducedInstructions

-----------------------------------------------------------------------------

\* An instruction of the last pass with the moves around it, all of which write
\* inside; it has two operands.
Kept(r, room) ==
  /\ r = [before |-> r.before, i |-> r.i, after |-> r.after]
  /\ r.i \in Insiders(room)
  /\ r.i.op \notin Updating
  /\ r.before \in Seq(Insiders(room))
  /\ r.after \in Seq(Insiders(room))

\* A move into a scratch register writes inside.
LEMMA MovRegister ==
  ASSUME NEW room, NEW type \in Names, NEW src \in Operands, NEW reg \in {R10, R11, CX}
  PROVE  Mov(type, src, reg) \in Insiders(room)
<1>1. reg \in Operands /\ reg.t = "reg"
  BY RegisterOperands
<1>2. PICK m : m = Mov(type, src, reg)
  OBVIOUS
<1>3. m \in Instructions /\ m.op = "MOV" /\ m.dst = reg
  BY <1>1, <1>2, MovType
<1>4. Inside(m, room)
  BY <1>1, <1>3 DEF Inside, HasRoom, Writing, Binary2Ops
<1> QED
  BY <1>2, <1>3, <1>4 DEF Insiders

\* A move to an operand with room for its type does.
LEMMA MovInside ==
  ASSUME NEW room, NEW type \in Names, NEW src \in Operands, NEW dst \in Operands,
         HasRoom(dst, type, room)
  PROVE  Mov(type, src, dst) \in Insiders(room)
<1>1. PICK m : m = Mov(type, src, dst)
  OBVIOUS
<1>2. m \in Instructions /\ m.op = "MOV" /\ m.dst = dst /\ m.type = type
  BY <1>1, MovType
<1>3. WrittenWidth(m) = type
  BY <1>2 DEF WrittenWidth, Extending
<1>4. Inside(m, room)
  BY <1>2, <1>3 DEF Inside, Writing, Binary2Ops
<1> QED
  BY <1>1, <1>2, <1>4 DEF Insiders

\* An instruction that has nothing around it.
LEMMA AloneKept ==
  ASSUME NEW room, NEW i \in Insiders(room), i.op \notin Updating
  PROVE  Kept(Alone(i), room) /\ Alone(i).i = i
  BY DEF Alone, Among, Kept

\* The code of a result.
LEMMA FlatKept ==
  ASSUME NEW room, NEW r, Kept(r, room)
  PROVE  Flat(r) \in Seq(Insiders(room))
<1>1. <<r.i>> \in Seq(Insiders(room))
  BY DEF Kept
<1>2. /\ r.before \in Seq(Insiders(room))
      /\ r.after \in Seq(Insiders(room))
  BY DEF Kept
<1>3. r.before \o <<r.i>> \in Seq(Insiders(room))
  BY <1>1, <1>2, ConcatProperties
<1> QED
  BY <1>2, <1>3, ConcatProperties DEF Flat

\* Another source does not change what an instruction writes ...
LEMMA SrcKept ==
  ASSUME NEW room, NEW i \in Insiders(room), i.op \notin Updating, NEW o \in Operands,
         NEW j, j = [i EXCEPT !.src = o]
  PROVE  j \in Insiders(room) /\ j.op = i.op /\ j.type = i.type /\ j.dst = i.dst
<1>1. /\ j \in Instructions /\ j.op = i.op /\ j.type = i.type /\ j.dst = i.dst
  BY DEF Insiders, Instructions
<1>2. WrittenWidth(j) = WrittenWidth(i)
  BY <1>1 DEF WrittenWidth
<1>3. Inside(j, room)
  BY <1>1, <1>2 DEF Insiders, Inside
<1> QED
  BY <1>1, <1>3 DEF Insiders

\* ... and into a register it may write whatever it does.
LEMMA DstKept ==
  ASSUME NEW room, NEW i \in Insiders(room), i.op \notin Updating, NEW o \in Operands, o.t = "reg",
         NEW j, j = [i EXCEPT !.dst = o]
  PROVE  j \in Insiders(room) /\ j.op = i.op /\ j.type = i.type /\ j.src = i.src
<1>1. /\ j \in Instructions /\ j.op = i.op /\ j.type = i.type /\ j.dst = o /\ j.src = i.src
  BY DEF Insiders, Instructions
<1>2. Inside(j, room)
  BY <1>1 DEF Insiders, Inside, HasRoom
<1> QED
  BY <1>1, <1>2 DEF Insiders

\* fix_mov: the destination is written by the same instruction.
LEMMA FixMovKept ==
  ASSUME NEW room, NEW i \in Insiders(room), i.op = "MOV"
  PROVE  Kept(FixMov(i), room)
<1>1. i \in Instructions /\ i.op \notin Updating
  BY DEF Insiders, Updating
<1>2. ASSUME NEW m \in Insiders(room), m.op = "MOV"
      PROVE  Kept(Among(<<Mov(m.type, m.src, R10)>>, [m EXCEPT !.src = R10], << >>), room)
  <2>1. m \in Instructions /\ m.op \notin Updating /\ m.type \in Names /\ m.src \in Operands
    BY <1>2 DEF Insiders, Updating, Instructions
  <2>2. PICK a : a = Mov(m.type, m.src, R10)
    OBVIOUS
  <2>3. a \in Insiders(room)
    BY <2>1, <2>2, MovRegister
  <2>4. PICK b : b = [m EXCEPT !.src = R10]
    OBVIOUS
  <2>5. b \in Insiders(room) /\ b.op \notin Updating
    BY <2>1, <2>4, SrcKept, RegisterOperands
  <2>6. Kept(Among(<<a>>, b, << >>), room)
    BY <2>3, <2>5 DEF Kept, Among
  <2> QED
    BY <2>2, <2>4, <2>6
<1>3. CASE IsMem(i.dst) /\ IsMem(i.src)
  BY <1>2, <1>3 DEF FixMov
<1>4. CASE ~(IsMem(i.dst) /\ IsMem(i.src))
  <2>1. PICK m : m = MovMasked(i)
    OBVIOUS
  <2>2. /\ m \in Instructions /\ m.op = "MOV" /\ m.type = i.type /\ m.dst = i.dst
    BY <1>1, <2>1, MaskedFits
  <2>3. m \in Insiders(room) /\ m.op \notin Updating
    <3>1. WrittenWidth(m) = WrittenWidth(i)
      BY <2>2 DEF WrittenWidth
    <3>2. Inside(m, room)
      BY <1>1, <2>2, <3>1 DEF Insiders, Inside, Quiet
    <3> QED
      BY <1>1, <2>2, <3>2 DEF Insiders
  <2>4. FixMov(i) = MovBig(m)
    BY <1>4, <2>1 DEF FixMov
  <2>5. CASE TooBig(m.src) /\ m.dst.t # "reg"
    BY <1>2, <2>2, <2>3, <2>4, <2>5 DEF MovBig
  <2>6. CASE ~(TooBig(m.src) /\ m.dst.t # "reg")
    BY <2>3, <2>4, <2>6, AloneKept DEF MovBig
  <2> QED
    BY <2>5, <2>6
<1> QED
  BY <1>3, <1>4

\* insert_before_x86_instr of a move into a scratch register.
LEMMA InsertBeforeKept ==
  ASSUME NEW room, NEW r, Kept(r, room), NEW type \in Names, NEW src \in Operands,
         NEW reg \in {R10, R11, CX}, NEW q, q = InsertBefore(r, Mov(type, src, reg))
  PROVE  Kept(q, room) /\ q.i = r.i
<1>1. PICK m : m = Mov(type, src, reg)
  OBVIOUS
<1>2. m \in Insiders(room) /\ m.op = "MOV"
  <2>1. reg \in Operands
    BY RegisterOperands
  <2> QED
    BY <1>1, <2>1, MovRegister, MovType
<1>3. PICK f : f = Flat(FixMov(m))
  OBVIOUS
<1>4. f \in Seq(Insiders(room))
  BY <1>2, <1>3, FixMovKept, FlatKept
<1>5. r.before \o f \in Seq(Insiders(room))
  BY <1>4, ConcatProperties DEF Kept
<1>6. q = [before |-> r.before \o f, i |-> r.i, after |-> r.after]
  BY <1>1, <1>3 DEF InsertBefore, Among
<1> QED
  BY <1>5, <1>6 DEF Kept

\* New operands for the instruction of a result.
LEMMA WithKept ==
  ASSUME NEW room, NEW r, Kept(r, room), NEW o \in Operands
  PROVE  /\ Kept(WithSrc(r, o), room)
         /\ WithSrc(r, o).i.op = r.i.op /\ WithSrc(r, o).i.type = r.i.type
         /\ WithSrc(r, o).i.dst = r.i.dst
         /\ o.t = "reg" => Kept(WithDst(r, o), room)
<1>1. r.i \in Insiders(room) /\ r.i.op \notin Updating
  BY DEF Kept
<1>2. PICK j : j = [r.i EXCEPT !.src = o]
  OBVIOUS
<1>3. j \in Insiders(room) /\ j.op = r.i.op /\ j.type = r.i.type /\ j.dst = r.i.dst
  BY <1>1, <1>2, SrcKept
<1>4. WithSrc(r, o) = [before |-> r.before, i |-> j, after |-> r.after]
  BY <1>2 DEF WithSrc, Among
<1>5. ASSUME o.t = "reg"
      PROVE  Kept(WithDst(r, o), room)
  <2>1. PICK d : d = [r.i EXCEPT !.dst = o]
    OBVIOUS
  <2>2. d \in Insiders(room) /\ d.op = r.i.op
    BY <1>1, <1>5, <2>1, DstKept
  <2>3. WithDst(r, o) = [before |-> r.before, i |-> d, after |-> r.after]
    BY <2>1 DEF WithDst, Among
  <2> QED
    BY <1>1, <2>2, <2>3 DEF Kept
<1> QED
  BY <1>1, <1>3, <1>4, <1>5 DEF Kept

\* the source of an instruction, moved into a register
SourceIn(r, reg) == WithSrc(InsertBefore(r, Mov(r.i.type, r.i.src, reg)), reg)

\* Where the source is moved does not change where the instruction writes.
LEMMA SourceKept ==
  ASSUME NEW room, NEW r, Kept(r, room), NEW reg \in {R10, R11, CX}
  PROVE  /\ Kept(SourceIn(r, reg), room)
         /\ SourceIn(r, reg).i.op = r.i.op
         /\ SourceIn(r, reg).i.type = r.i.type
         /\ SourceIn(r, reg).i.dst = r.i.dst
<1>1. r.i.type \in Names /\ r.i.src \in Operands
  BY DEF Kept, Insiders, Instructions
<1>2. PICK b : b = InsertBefore(r, Mov(r.i.type, r.i.src, reg))
  OBVIOUS
<1>3. Kept(b, room) /\ b.i = r.i
  BY <1>1, <1>2, InsertBeforeKept
<1>4. reg \in Operands
  BY RegisterOperands
<1> QED
  BY <1>2, <1>3, <1>4, WithKept DEF SourceIn

\* fix_..._too_big_const and fix_both_ops_mem.
LEMMA FixSourceKept ==
  ASSUME NEW room, NEW r, Kept(r, room), NEW q, q = FixTooBig(r) \/ q = FixBothMem(r)
  PROVE  Kept(q, room) /\ q.i.op = r.i.op /\ q.i.type = r.i.type /\ q.i.dst = r.i.dst
<1>1. CASE q = r
  BY <1>1
<1>2. CASE q = SourceInR10(r)
  <2>1. q = SourceIn(r, R10)
    BY <1>2 DEF SourceInR10, SourceIn
  <2> QED
    BY <2>1, SourceKept
<1> QED
  BY <1>1, <1>2 DEF FixTooBig, FixBothMem

\* A move before an instruction that writes a register, or after it.
LEMMA MoveKept ==
  ASSUME NEW room, NEW r, Kept(r, room), NEW m \in Insiders(room)
  PROVE  /\ Kept(MoveBefore(r, m), room) /\ MoveBefore(r, m).i = r.i
         /\ Kept(InsertAfter(r, m), room) /\ InsertAfter(r, m).i = r.i
<1>1. Append(r.before, m) \in Seq(Insiders(room)) /\ <<m>> \in Seq(Insiders(room))
  BY DEF Kept
<1>2. /\ MoveBefore(r, m) = [before |-> Append(r.before, m), i |-> r.i, after |-> r.after]
      /\ InsertAfter(r, m) = [before |-> r.before, i |-> r.i, after |-> <<m>>]
  BY DEF MoveBefore, InsertAfter, Among
<1> QED
  BY <1>1, <1>2 DEF Kept

\* The result is made in r11, and stored with the width of the destination.
LEMMA ThroughR11Kept ==
  ASSUME NEW room, NEW r, Kept(r, room), HasRoom(r.i.dst, "quad", room)
  PROVE  Kept(ThroughR11(r), room)
<1>1. CASE IsMem(r.i.dst)
  <2>1. "quad" \in Names /\ R11 \in Operands /\ R11.t = "reg" /\ r.i.dst \in Operands
    BY NamesAssumption, RegisterOperands DEF Kept, Insiders, Instructions
  <2>2. Mov("quad", R11, r.i.dst) \in Insiders(room)
    BY <2>1, MovInside
  <2>3. PICK a : a = InsertAfter(r, Mov("quad", R11, r.i.dst))
    OBVIOUS
  <2>4. Kept(a, room)
    BY <2>2, <2>3, MoveKept
  <2> QED
    BY <1>1, <2>1, <2>3, <2>4, WithKept DEF ThroughR11
<1>2. CASE ~IsMem(r.i.dst)
  BY <1>2 DEF ThroughR11
<1> QED
  BY <1>1, <1>2

\* fix_mult: the product is made in r11 and stored with the type of the
\* instruction.
LEMMA FixMultKept ==
  ASSUME NEW room, NEW i \in Insiders(room), i.op = "MULT"
  PROVE  Kept(FixMult(Alone(i)), room)
<1>1. PICK r : r = Alone(i)
  OBVIOUS
<1>2. i.op \notin Updating
  BY DEF Updating
<1>3. Kept(r, room) /\ r.i = i
  BY <1>1, <1>2, AloneKept
<1>4. /\ i.type \in Names /\ i.dst \in Operands /\ R11 \in Operands /\ R11.t = "reg"
  BY RegisterOperands DEF Insiders, Instructions
<1>5. HasRoom(i.dst, i.type, room)
  BY DEF Insiders, Inside, Quiet, Updating, WrittenWidth, Extending
<1>6. CASE IsMem(i.dst)
  <2>1. PICK b : b = InsertBefore(r, Mov(i.type, i.dst, R11))
    OBVIOUS
  <2>2. Kept(b, room) /\ b.i = i
    BY <1>3, <1>4, <2>1, InsertBeforeKept
  <2>3. Mov(i.type, R11, i.dst) \in Insiders(room)
    BY <1>4, <1>5, MovInside
  <2>4. PICK a : a = InsertAfter(b, Mov(i.type, R11, i.dst))
    OBVIOUS
  <2>5. Kept(a, room)
    BY <2>2, <2>3, <2>4, MoveKept
  <2>6. PICK d : d = WithDst(a, R11)
    OBVIOUS
  <2>7. Kept(d, room)
    BY <1>4, <2>5, <2>6, WithKept
  <2>8. FixMult(r) = FixTooBig(d)
    BY <1>3, <1>6, <2>1, <2>4, <2>6 DEF FixMult
  <2> QED
    BY <1>1, <2>7, <2>8, FixSourceKept
<1>7. CASE ~IsMem(i.dst)
  <2>1. FixMult(r) = FixTooBig(r)
    BY <1>3, <1>7 DEF FixMult
  <2> QED
    BY <1>1, <1>3, <2>1, FixSourceKept
<1> QED
  BY <1>6, <1>7

\* fix_cmp: a comparison writes nothing, and moves a constant into r11.
LEMMA FixCmpKept ==
  ASSUME NEW room, NEW i \in Insiders(room), i.op = "CMP"
  PROVE  Kept(FixCmp(i), room)
<1>1. i.op \notin Updating
  BY DEF Updating
<1>2. PICK a : a = FixTooBig(Alone(i))
  OBVIOUS
<1>3. Kept(a, room) /\ a.i.dst = i.dst
  BY <1>1, <1>2, AloneKept, FixSourceKept
<1>4. PICK r : r = FixBothMem(a)
  OBVIOUS
<1>5. Kept(r, room) /\ r.i.dst = i.dst
  BY <1>3, <1>4, FixSourceKept
<1>6. CASE i.dst.t = "imm"
  <2>1. i.type \in Names /\ i.dst \in Operands /\ R11 \in Operands /\ R11.t = "reg"
    BY RegisterOperands DEF Insiders, Instructions
  <2>2. PICK m : m = MoveBefore(r, Mov(i.type, i.dst, R11))
    OBVIOUS
  <2>3. Kept(m, room)
    BY <1>5, <2>1, <2>2, MovRegister, MoveKept
  <2>4. FixCmp(i) = WithDst(m, R11)
    BY <1>2, <1>4, <1>5, <1>6, <2>2 DEF FixCmp
  <2> QED
    BY <2>1, <2>3, <2>4, WithKept
<1>7. CASE i.dst.t # "imm"
  <2>1. FixCmp(i) = r
    BY <1>2, <1>4, <1>5, <1>7 DEF FixCmp
  <2> QED
    BY <1>5, <2>1
<1> QED
  BY <1>6, <1>7

\* fix_movsx and fix_movzext.
LEMMA FixExtensionKept ==
  ASSUME NEW room, NEW i \in Insiders(room)
  PROVE  /\ i.op = "MOVSX" => Kept(FixMovsx(Alone(i)), room)
         /\ i.op = "MOVZEXT" => Kept(FixMovzext(i), room)
<1>1. i \in Instructions /\ i.src \in Operands /\ i.dst \in Operands
  BY DEF Insiders, Instructions
<1>2. i.op \in Extending => HasRoom(i.dst, "quad", room)
  BY DEF Insiders, Inside, WrittenWidth, Extending, Quiet, Updating
<1>3. CASE i.op = "MOVSX"
  <2>1. PICK r : r = Alone(i)
    OBVIOUS
  <2>2. Kept(r, room) /\ r.i = i
    BY <1>3, <2>1, AloneKept DEF Updating
  <2>3. PICK s : s = IF r.i.src.t = "imm"
                     THEN WithSrc(MoveBefore(r, Mov("long", r.i.src, R10)), R10) ELSE r
    OBVIOUS
  <2>4. Kept(s, room) /\ s.i.dst = i.dst
    <3>1. CASE i.src.t = "imm"
      <4>1. "long" \in Names /\ R10 \in Operands
        BY NamesAssumption, RegisterOperands
      <4>2. PICK m : m = MoveBefore(r, Mov("long", i.src, R10))
        OBVIOUS
      <4>3. Kept(m, room) /\ m.i = i
        BY <1>1, <2>2, <4>1, <4>2, MovRegister, MoveKept
      <4>4. s = WithSrc(m, R10)
        BY <2>2, <2>3, <3>1, <4>2
      <4> QED
        BY <4>1, <4>3, <4>4, WithKept
    <3>2. CASE i.src.t # "imm"
      BY <2>2, <2>3, <3>2
    <3> QED
      BY <3>1, <3>2
  <2>5. Kept(ThroughR11(s), room)
    BY <1>2, <1>3, <2>4, ThroughR11Kept DEF Extending
  <2> QED
    BY <1>3, <2>1, <2>3, <2>5 DEF FixMovsx
<1>4. CASE i.op = "MOVZEXT"
  <2>1. PICK m : m = [i EXCEPT !.op = "MOV", !.type = "long"]
    OBVIOUS
  <2>2. m \in Instructions /\ m.op = "MOV" /\ m.type = "long" /\ m.dst = i.dst
    BY <1>1, <2>1, NamesAssumption DEF Instructions
  <2>3. HasRoom(i.dst, "quad", room)
    BY <1>2, <1>4 DEF Extending
  <2>4. HasRoom(i.dst, "long", room)
    <3>1. \A w \in {"long", "quad"} : ~Wider("long", w)
      BY Narrow
    <3> QED
      BY <2>3, <3>1 DEF HasRoom
  <2>5. m \in Insiders(room) /\ m.op \notin Updating
    <3>1. WrittenWidth(m) = "long"
      BY <2>2 DEF WrittenWidth, Extending
    <3>2. Inside(m, room)
      BY <2>2, <2>4, <3>1 DEF Inside, Writing, Binary2Ops
    <3> QED
      BY <2>2, <3>2 DEF Insiders, Updating
  <2>6. Kept(Alone(m), room) /\ Alone(m).i = m
    BY <2>5, AloneKept
  <2>7. Kept(ThroughR11(Alone(m)), room)
    BY <2>2, <2>3, <2>6, ThroughR11Kept
  <2> QED
    BY <1>4, <2>1, <2>7 DEF FixMovzext
<1> QED
  BY <1>3, <1>4

\* fix_instr: whatever an instruction becomes writes where it did, no wider,
\* and registers.
LEMMA FixedInside ==
  ASSUME NEW room, NEW i \in ProducedInstructions \cap Insiders(room)
  PROVE  Fixed(i) \in Seq(LegalInstructions \cap Insiders(room))
<1>1. i \in Insiders(room) /\ i \in ProducedInstructions
  OBVIOUS
<1>2. i.op \in Quiet \cup Updating \cup Writing
  BY <1>1 DEF Insiders, Inside
<1>3. Fixed(i) \in Seq(Insiders(room))
  <2>1. CASE i.op \in {"ADD", "SUB", "AND", "OR", "XOR"}
    <3>1. i.op \notin Updating
      BY <2>1 DEF Updating
    <3>2. PICK b : b = FixBothMem(Alone(i))
      OBVIOUS
    <3>3. Kept(b, room)
      BY <1>1, <3>1, <3>2, AloneKept, FixSourceKept
    <3>4. PICK q : q = FixTooBig(b)
      OBVIOUS
    <3>5. Kept(q, room)
      BY <3>3, <3>4, FixSourceKept
    <3>6. Fixed(i) = Flat(q)
      BY <2>1, <3>2, <3>4 DEF Fixed, Fix, FixAddSub
    <3> QED
      BY <3>5, <3>6, FlatKept
  <2>2. CASE i.op = "MOV"
    <3>1. Fixed(i) = Flat(FixMov(i))
      BY <2>2 DEF Fixed, Fix
    <3> QED
      BY <1>1, <2>2, <3>1, FixMovKept, FlatKept
  <2>3. CASE i.op \in {"IDIV", "DIV"}
    <3>1. Kept(Alone(i), room)
      BY <1>1, <2>3, AloneKept DEF Updating
    <3>2. PICK r : r = Alone(i)
      OBVIOUS
    <3>3. PICK q : q = SourceIn(r, R11)
      OBVIOUS
    <3>4. Kept(q, room)
      BY <3>1, <3>2, <3>3, SourceKept
    <3>5. Fixed(i) \in {Flat(q), Flat(r)}
      BY <2>3, <3>2, <3>3 DEF Fixed, Fix, FixDiv, SourceIn
    <3> QED
      BY <3>1, <3>2, <3>4, <3>5, FlatKept
  <2>4. CASE i.op = "MULT"
    <3>1. Fixed(i) = Flat(FixMult(Alone(i)))
      BY <2>4 DEF Fixed, Fix
    <3> QED
      BY <1>1, <2>4, <3>1, FixMultKept, FlatKept
  <2>5. CASE i.op \in {"SHL", "SAR", "SHR"}
    <3>1. Kept(Alone(i), room)
      BY <1>1, <2>5, AloneKept DEF Updating
    <3>2. PICK r : r = Alone(i)
      OBVIOUS
    <3>3. PICK q : q = SourceIn(r, CX)
      OBVIOUS
    <3>4. Kept(q, room)
      BY <3>1, <3>2, <3>3, SourceKept
    <3>5. Fixed(i) \in {Flat(q), Flat(r)}
      BY <2>5, <3>2, <3>3 DEF Fixed, Fix, FixShifts, SourceIn
    <3> QED
      BY <3>1, <3>2, <3>4, <3>5, FlatKept
  <2>6. CASE i.op = "CMP"
    <3>1. Fixed(i) = Flat(FixCmp(i))
      BY <2>6 DEF Fixed, Fix
    <3> QED
      BY <1>1, <2>6, <3>1, FixCmpKept, FlatKept
  <2>7. CASE i.op = "MOVSX"
    <3>1. Fixed(i) = Flat(FixMovsx(Alone(i)))
      BY <2>7 DEF Fixed, Fix
    <3> QED
      BY <1>1, <2>7, <3>1, FixExtensionKept, FlatKept
  <2>8. CASE i.op = "MOVZEXT"
    <3>1. Fixed(i) = Flat(FixMovzext(i))
      BY <2>8 DEF Fixed, Fix
    <3> QED
      BY <1>1, <2>8, <3>1, FixExtensionKept, FlatKept
  <2>9. CASE i.op \in {"JMPCC", "RET", "CDQ", "SETCC", "NOT", "NEG", "INC", "DEC"}
    <3>1. Fix(i) = Alone(i)
      BY <2>9 DEF Fix
    <3>2. Fixed(i) = <<i>>
      BY <3>1 DEF Fixed, Flat, Alone, Among
    <3> QED
      BY <1>1, <3>2
  <2>10. Quiet \cup Updating \cup Writing \subseteq
           {"ADD", "SUB", "AND", "OR", "XOR", "MOV", "IDIV", "DIV", "MULT", "SHL", "SAR", "SHR",
            "CMP", "MOVSX", "MOVZEXT", "JMPCC", "RET", "CDQ", "SETCC", "NOT", "NEG", "INC", "DEC"}
    BY DEF Quiet, Updating, Writing, Binary2Ops, Extending
  <2> QED
    BY <1>2, <2>1, <2>2, <2>3, <2>4, <2>5, <2>6, <2>7, <2>8, <2>9, <2>10
<1>4. Fixed(i) \in Seq(LegalInstructions)
  BY <1>1, FixedIs
<1>5. PICK s : s = Fixed(i)
  OBVIOUS
<1>6. \A k \in 1 .. Len(s) : s[k] \in LegalInstructions \cap Insiders(room)
  BY <1>3, <1>4, <1>5
<1>7. s \in Seq(LegalInstructions)
  BY <1>4, <1>5
<1> QED
  BY <1>5, <1>6, <1>7

-----------------------------------------------------------------------------

\* A processor with the objects of room, none of which has been written past
\* its end.
Whole(m, room) ==
  /\ {"size", "smashed"} \subseteq DOMAIN m
  /\ m.size = room
  /\ m.smashed = FALSE

\* What else is known of it may change.
LEMMA WholeButFor ==
  ASSUME NEW room, NEW m, Whole(m, room), NEW x,
         NEW field \in {"reg", "mem", "flags", "taken", "trapped", "done"}
  PROVE  Whole([m EXCEPT ![field] = x], room)
<1>1. PICK n : n = [m EXCEPT ![field] = x]
  OBVIOUS
<1>2. DOMAIN n = DOMAIN m
  BY <1>1
<1>3. n["size"] = m["size"] /\ n["smashed"] = m["smashed"]
  BY <1>1 DEF Whole
<1> QED
  BY <1>1, <1>2, <1>3 DEF Whole

\* The same of every field.
LEMMA WholeReg ==
  ASSUME NEW room, NEW m, Whole(m, room), NEW x
  PROVE  /\ Whole([m EXCEPT !.reg = x], room) /\ Whole([m EXCEPT !.mem = x], room)
         /\ Whole([m EXCEPT !.flags = x], room) /\ Whole([m EXCEPT !.taken = x], room)
         /\ Whole([m EXCEPT !.trapped = x], room) /\ Whole([m EXCEPT !.done = x], room)
<1>1. \A field \in {"reg", "mem", "flags", "taken", "trapped", "done"} :
        Whole([m EXCEPT ![field] = x], room)
  BY WholeButFor
<1> QED
  BY <1>1

\* A write for which there is room leaves it so.
LEMMA WriteWhole ==
  ASSUME NEW room, NEW m, Whole(m, room), NEW o \in Operands, NEW width, NEW v,
         HasRoom(o, width, room)
  PROVE  Whole(Write(m, o, width, v), room)
<1>1. CASE o.t = "reg"
  <2>1. ~IsMem(o)
    BY <1>1 DEF IsMem
  <2>2. PICK w : w = [m.reg EXCEPT ![o.name] =
                        IF width = "byte" THEN Merge(@, v, width) ELSE Low(v, width)]
    OBVIOUS
  <2>3. Write(m, o, width, v) = [m EXCEPT !.reg = w]
    BY <1>1, <2>1, <2>2 DEF Write
  <2>4. Whole([m EXCEPT !.reg = w], room)
    BY WholeReg
  <2> QED
    BY <2>3, <2>4
<1>2. CASE o.t # "reg"
  <2>1. IsMem(o) /\ ~Wider(width, room[o.name])
    BY <1>2 DEF HasRoom, IsMem, Operands
  <2>2. PICK w : w = [m.mem EXCEPT ![o.name] = Merge(@, v, width)]
    OBVIOUS
  <2>3. m.size = room
    BY DEF Whole
  <2>4. Write(m, o, width, v) = [m EXCEPT !.mem = w]
    BY <1>2, <2>1, <2>2, <2>3 DEF Write
  <2>5. Whole([m EXCEPT !.mem = w], room)
    BY WholeReg
  <2> QED
    BY <2>4, <2>5
<1> QED
  BY <1>1, <1>2

\* A legal instruction that writes inside its operand does (emit_x86_instr).
LEMMA ExecWhole ==
  ASSUME NEW room, NEW m, Whole(m, room), NEW i \in LegalInstructions \cap Insiders(room)
  PROVE  Whole(Exec(m, i), room)
<1>1. /\ i \in Instructions /\ (Legal(i) \/ TooFar(i)) /\ Inside(i, room)
      /\ i.src \in Operands /\ i.dst \in Operands
  BY DEF LegalInstructions, Insiders, Instructions
<1>2. \A n : Whole(n, room) => Whole(Clobber(n), room)
  BY WholeReg DEF Clobber
<1>3. ASSUME i.op \in Writing
      PROVE  \A v : Whole(Write(m, i.dst, WrittenWidth(i), v), room)
  <2>1. HasRoom(i.dst, WrittenWidth(i), room)
    BY <1>1, <1>3 DEF Inside, Writing, Binary2Ops, Extending, Quiet, Updating
  <2> QED
    BY <1>1, <2>1, WriteWhole
<1>4. ASSUME NEW r \in {"AX", "DX"}
      PROVE  \A n, w, v : Whole(n, room) => Whole(Write(n, Reg(r), w, v), room)
  <2>1. Reg(r) \in Operands
    BY OpNamesAssumption DEF Reg, Operands
  <2>2. \A w : HasRoom(Reg(r), w, room)
    BY DEF Reg, HasRoom
  <2> QED
    BY <2>1, <2>2, WriteWhole
<1>5. CASE i.op = "MOV"
  <2>1. WrittenWidth(i) = i.type
    BY <1>5 DEF WrittenWidth, Extending
  <2>2. Exec(m, i) = Write(m, i.dst, i.type, Read(m, i.src, i.type))
    BY <1>5 DEF Exec
  <2> QED
    BY <1>3, <1>5, <2>1, <2>2 DEF Writing, Binary2Ops
<1>6. CASE i.op \in {"ADD", "SUB", "MULT", "AND", "OR", "XOR"}
  <2>1. WrittenWidth(i) = i.type
    BY <1>6 DEF WrittenWidth, Extending
  <2>2. PICK v : v = Alu(i.op, Read(m, i.dst, i.type), Read(m, i.src, i.type), i.type)
    OBVIOUS
  <2>3. Exec(m, i) = Clobber(Write(m, i.dst, i.type, v))
    BY <1>6, <2>2 DEF Exec, Binary2
  <2> QED
    BY <1>2, <1>3, <1>6, <2>1, <2>3 DEF Writing, Binary2Ops
<1>7. CASE i.op \in {"SHL", "SHR", "SAR"}
  <2>1. WrittenWidth(i) = i.type
    BY <1>7 DEF WrittenWidth, Extending
  <2>2. PICK v : v = Shifted(i.op, Read(m, i.dst, i.type), Read(m, i.src, "byte"), i.type)
    OBVIOUS
  <2>3. Exec(m, i) = Clobber(Write(m, i.dst, i.type, v))
    BY <1>7, <2>2 DEF Exec, Shift
  <2> QED
    BY <1>2, <1>3, <1>7, <2>1, <2>3 DEF Writing, Binary2Ops
<1>8. CASE i.op \in {"NEG", "NOT", "INC", "DEC"}
  <2>1. HasRoom(i.src, i.type, room)
    BY <1>1, <1>8 DEF Inside, Writing, Binary2Ops, Extending, Quiet
  <2>2. PICK n : n = IF i.op = "NOT" THEN m ELSE Clobber(m)
    OBVIOUS
  <2>3. Whole(n, room)
    BY <1>2, <2>2
  <2>4. \A v : Whole(Write(n, i.src, i.type, v), room)
    BY <1>1, <2>1, <2>3, WriteWhole
  <2>5. PICK v : Exec(m, i) = Write(n, i.src, i.type, v)
    BY <1>8, <2>2 DEF Exec, Unary1
  <2> QED
    BY <2>4, <2>5
<1>9. CASE i.op = "CDQ"
  <2>1. PICK v : Exec(m, i) = Write(m, Reg("DX"), i.type, v)
    BY <1>9 DEF Exec, Extend
  <2> QED
    BY <1>4, <2>1
<1>10. CASE i.op \in {"IDIV", "DIV"}
  <2>1. Exec(m, i) = Divide(m, i)
    BY <1>10 DEF Exec
  <2>2. \/ Divide(m, i) = [m EXCEPT !.trapped = TRUE]
        \/ \E q, r : Divide(m, i) = Clobber(Write(Write(m, Reg("AX"), i.type, q), Reg("DX"), i.type, r))
    BY DEF Divide
  <2>3. \A q, r : Whole(Clobber(Write(Write(m, Reg("AX"), i.type, q), Reg("DX"), i.type, r)), room)
    BY <1>2, <1>4
  <2>4. Whole([m EXCEPT !.trapped = TRUE], room)
    BY WholeReg
  <2> QED
    BY <2>1, <2>2, <2>3, <2>4
<1>11. CASE i.op = "CMP"
  <2>1. PICK x : Exec(m, i) = [m EXCEPT !.flags = x]
    BY <1>11 DEF Exec, Compare
  <2>2. Whole([m EXCEPT !.flags = x], room)
    BY WholeReg
  <2> QED
    BY <2>1, <2>2
<1>12. CASE i.op = "SETCC"
  <2>1. WrittenWidth(i) = "byte"
    BY <1>12 DEF WrittenWidth, Extending
  <2>2. Exec(m, i) = Conditional(m, i)
    BY <1>12 DEF Exec
  <2>3. \/ Conditional(m, i) = [m EXCEPT !.trapped = TRUE]
        \/ \E v : Conditional(m, i) = Write(m, i.dst, "byte", v)
    BY <1>12 DEF Conditional
  <2>4. Whole([m EXCEPT !.trapped = TRUE], room)
    BY WholeReg
  <2> QED
    BY <1>3, <1>12, <2>1, <2>2, <2>3, <2>4 DEF Writing
<1>13. CASE i.op = "JMPCC"
  <2>1. Exec(m, i) = Conditional(m, i)
    BY <1>13 DEF Exec
  <2>2. PICK x : \/ Conditional(m, i) = [m EXCEPT !.trapped = TRUE]
                 \/ Conditional(m, i) = [m EXCEPT !.taken = x]
    BY <1>13 DEF Conditional
  <2>3. Whole([m EXCEPT !.trapped = TRUE], room) /\ Whole([m EXCEPT !.taken = x], room)
    BY WholeReg
  <2> QED
    BY <2>1, <2>2, <2>3
<1>14. CASE i.op = "MOVSX"
  <2>1. WrittenWidth(i) = "quad"
    BY <1>14 DEF WrittenWidth, Extending
  <2>2. PICK v : Exec(m, i) = Write(m, i.dst, "quad", v)
    BY <1>14 DEF Exec
  <2> QED
    BY <1>3, <1>14, <2>1, <2>2 DEF Writing, Extending
<1>15. CASE i.op = "RET"
  <2>1. Exec(m, i) = [m EXCEPT !.done = TRUE]
    BY <1>15 DEF Exec
  <2>2. Whole([m EXCEPT !.done = TRUE], room)
    BY WholeReg
  <2> QED
    BY <2>1, <2>2
<1>16. i.op # "MOVZEXT"
  BY <1>1 DEF Legal, TooFar
<1>17. i.op \in Quiet \cup Updating \cup Writing
  BY <1>1 DEF Inside
<1> QED
  BY <1>5, <1>6, <1>7, <1>8, <1>9, <1>10, <1>11, <1>12, <1>13, <1>14, <1>15, <1>16, <1>17
     DEF Quiet, Updating, Writing, Binary2Ops, Extending

\* The states of the processor before and after each instruction.
Running(f, m, s, n) == f = [k \in 0 .. n |-> IF k = 0 THEN m ELSE Continue(f[k - 1], s[k])]

\* There are such states, for code of any length.
LEMMA RunningExists ==
  ASSUME NEW m, NEW s, NEW n \in Nat
  PROVE  \E f : Running(f, m, s, n)
<1> DEFINE T == {k \in Nat : ~ \E f : Running(f, m, s, k)}
<1>1. \A k \in Nat : k \in T <=> ~ \E f : Running(f, m, s, k)
  OBVIOUS
<1>2. T \subseteq Nat
  OBVIOUS
<1> HIDE DEF T
<1>3. T = {}
  <2> SUFFICES ASSUME T # {} PROVE FALSE
    OBVIOUS
  <2>1. PICK k \in T : \A j \in T : k <= j
    BY <1>2, Least
  <2>2. k \in Nat /\ ~ \E f : Running(f, m, s, k)
    BY <1>1, <1>2
  <2>3. k # 0
    <3>1. PICK f : f = [j \in 0 .. 0 |-> m]
      OBVIOUS
    <3>2. Running(f, m, s, 0)
      BY <3>1 DEF Running
    <3> QED
      BY <2>2, <3>2
  <2>4. k - 1 \in Nat /\ ~(k <= k - 1)
    BY <2>2, <2>3
  <2>5. PICK f : Running(f, m, s, k - 1)
    BY <1>1, <2>1, <2>4
  <2>6. PICK g : g = [j \in 0 .. k |-> IF j = k THEN Continue(f[k - 1], s[k]) ELSE f[j]]
    OBVIOUS
  <2>7. ASSUME NEW j \in 0 .. k
        PROVE  g[j] = IF j = 0 THEN m ELSE Continue(g[j - 1], s[j])
    <3>1. CASE j = k
      <4>1. g[k] = Continue(f[k - 1], s[k]) /\ g[k - 1] = f[k - 1]
        BY <2>2, <2>4, <2>6
      <4> QED
        BY <2>3, <3>1, <4>1
    <3>2. CASE j # k
      <4>1. j \in 0 .. k - 1 /\ (j # 0 => j - 1 \in 0 .. k /\ j - 1 # k)
        BY <2>2, <3>2
      <4>2. f[j] = IF j = 0 THEN m ELSE Continue(f[j - 1], s[j])
        BY <2>5, <4>1 DEF Running
      <4>3. g[j] = f[j] /\ (j # 0 => g[j - 1] = f[j - 1])
        BY <2>6, <3>2, <4>1
      <4> QED
        BY <4>2, <4>3
    <3> QED
      BY <3>1, <3>2
  <2>8. Running(g, m, s, k)
    BY <2>6, <2>7 DEF Running
  <2> QED
    BY <2>2, <2>8
<1> QED
  BY <1>1, <1>3

\* A run of such code leaves every object whole.
LEMMA RunWhole ==
  ASSUME NEW room, NEW m, Whole(m, room), NEW s \in Seq(LegalInstructions \cap Insiders(room))
  PROVE  Whole(Run(m, s), room)
<1>1. PICK n \in Nat : n = Len(s)
  OBVIOUS
<1>2. PICK f : f = CHOOSE g : Running(g, m, s, n)
  OBVIOUS
<1>3. Running(f, m, s, n)
  BY <1>2, RunningExists
<1>4. Run(m, s) = f[n]
  BY <1>1, <1>2 DEF Run, Running
<1> DEFINE T == {k \in 0 .. n : ~Whole(f[k], room)}
<1>5. \A k \in 0 .. n : k \in T <=> ~Whole(f[k], room)
  OBVIOUS
<1>6. T \subseteq 0 .. n
  OBVIOUS
<1> HIDE DEF T
<1>7. T = {}
  <2> SUFFICES ASSUME T # {} PROVE FALSE
    OBVIOUS
  <2>1. T \subseteq Nat
    BY <1>6
  <2>2. PICK k \in T : \A j \in T : k <= j
    BY <2>1, Least
  <2>3. k \in 0 .. n
    BY <1>6
  <2>4. f[k] = IF k = 0 THEN m ELSE Continue(f[k - 1], s[k])
    BY <1>3, <2>3 DEF Running
  <2>5. k # 0
    BY <1>5, <2>3, <2>4
  <2>6. k - 1 \in 0 .. n /\ ~(k <= k - 1) /\ k \in 1 .. n
    BY <2>3, <2>5
  <2>7. Whole(f[k - 1], room)
    BY <1>5, <2>2, <2>6
  <2>8. s[k] \in LegalInstructions \cap Insiders(room)
    BY <1>1, <2>6
  <2>9. Whole(Exec(f[k - 1], s[k]), room)
    BY <2>7, <2>8, ExecWhole
  <2>10. Whole(f[k], room)
    BY <2>4, <2>5, <2>7, <2>9 DEF Continue
  <2> QED
    BY <1>5, <2>3, <2>10
<1> QED
  BY <1>1, <1>4, <1>5, <1>7

-----------------------------------------------------------------------------

\* Every object has one type, the code mentions it with that type or writes
\* no more than it has room for, and nothing has been written past an end.
ExecInv ==
  /\ stage \in {"tac", "selected", "placed", "legal", "ran"}
  /\ objects \subseteq TacValues
  /\ \A v, w \in objects : v.name = w.name => v.tp = w.tp
  /\ stage = "tac" => ExpressionCode
  /\ stage = "selected" => code \in Seq(ChosenInside(Rooms))
  /\ stage = "placed" => code \in Seq(ProducedInstructions \cap Insiders(Rooms))
  /\ stage = "legal" => code \in Seq(LegalInstructions \cap Insiders(Rooms))
  /\ machine.smashed = FALSE

\* The rooms are those of the types.
LEMMA RoomsFurnish ==
  ASSUME ExecInv, NEW i, Mentioned(i) \subseteq objects
  PROVE  Furnished(i, Rooms)
<1>1. ASSUME NEW v \in objects
      PROVE  v.name \in DOMAIN Rooms /\ Rooms[v.name] = Width(v.tp)
  <2>1. PICK w : w = CHOOSE x \in objects : x.name = v.name
    OBVIOUS
  <2>2. w \in objects /\ w.name = v.name
    BY <2>1
  <2>3. w.tp = v.tp
    BY <2>2 DEF ExecInv
  <2>4. TypeOf(v.name) = v.tp
    BY <2>1, <2>3 DEF TypeOf
  <2> QED
    BY <2>4 DEF Rooms
<1> QED
  BY <1>1 DEF Furnished

\* The passes keep the types of the objects, ...
LEMMA BackExecStep ==
  ASSUME ExecInv, BackNext, UNCHANGED <<objects, start, machine>>
  PROVE  ExecInv'
<1>1. Rooms' = Rooms
  BY DEF Rooms, TypeOf
<1>2. /\ (objects \subseteq TacValues)'
      /\ (\A v, w \in objects : v.name = w.name => v.tp = w.tp)'
      /\ (machine.smashed = FALSE)'
  BY DEF ExecInv
<1>3. CASE SelectAll
  <2>1. ExpressionCode
    BY <1>3 DEF SelectAll, ExecInv
  <2>2. code \in Seq({i \in TacInstrs : i.op \notin Bare})
    BY <2>1 DEF ExpressionCode
  <2>3. PICK n \in Nat : n = Len(code) /\ DOMAIN code = 1 .. n
    BY <2>2
  <2>4. ASSUME NEW k \in 1 .. n
        PROVE  Select(code[k]) \in Seq(ChosenInside(Rooms))
    <3>1. code[k] \in TacInstrs /\ code[k].op \notin Bare
      BY <2>2, <2>3
    <3>2. Mentioned(code[k]) \subseteq objects
      BY <2>1, <2>3 DEF ExpressionCode, Range
    <3>3. Furnished(code[k], Rooms)
      BY <3>2, RoomsFurnish
    <3> QED
      BY <3>1, <3>3, SelectInside
  <2>5. [k \in DOMAIN code |-> Select(code[k])] \in [1 .. n -> Seq(ChosenInside(Rooms))]
    BY <2>3, <2>4
  <2>6. FlattenSeq([k \in DOMAIN code |-> Select(code[k])]) \in Seq(ChosenInside(Rooms))
    BY <2>5, FlatIs
  <2>7. code' \in Seq(ChosenInside(Rooms)) /\ stage' = "selected"
    BY <1>3, <2>6 DEF SelectAll
  <2> QED
    BY <1>1, <1>2, <2>7 DEF ExecInv
<1>4. CASE PlaceAll
  <2>1. code \in Seq(ChosenInside(Rooms))
    BY <1>4 DEF PlaceAll, ExecInv
  <2>2. PICK n \in Nat : DOMAIN code = 1 .. n
    BY <2>1
  <2> DEFINE F(k) == [code[k] EXCEPT !.src = Placed(@), !.dst = Placed(@)]
  <2>3. \A k \in 1 .. n : F(k) \in ProducedInstructions \cap Insiders(Rooms)
    <3> TAKE k \in 1 .. n
    <3>1. code[k] \in ChosenInside(Rooms)
      BY <2>1, <2>2
    <3> QED
      BY <3>1, PlacedInside
  <2>4. code' = [k \in 1 .. n |-> F(k)] /\ stage' = "placed"
    BY <1>4, <2>2 DEF PlaceAll
  <2> HIDE DEF F
  <2>5. [k \in 1 .. n |-> F(k)] \in Seq(ProducedInstructions \cap Insiders(Rooms))
    BY <2>3
  <2> QED
    BY <1>1, <1>2, <2>4, <2>5 DEF ExecInv
<1>5. CASE LegaliseAll
  <2>1. code \in Seq(ProducedInstructions \cap Insiders(Rooms))
    BY <1>5 DEF LegaliseAll, ExecInv
  <2>2. PICK n \in Nat : n = Len(code) /\ DOMAIN code = 1 .. n
    BY <2>1
  <2>3. \A k \in 1 .. n : Fixed(code[k]) \in Seq(LegalInstructions \cap Insiders(Rooms))
    <3> TAKE k \in 1 .. n
    <3>1. code[k] \in ProducedInstructions \cap Insiders(Rooms)
      BY <2>1, <2>2
    <3> QED
      BY <3>1, FixedInside
  <2>4. [k \in DOMAIN code |-> Fixed(code[k])]
          \in [1 .. n -> Seq(LegalInstructions \cap Insiders(Rooms))]
    BY <2>2, <2>3
  <2>5. FlattenSeq([k \in DOMAIN code |-> Fixed(code[k])])
          \in Seq(LegalInstructions \cap Insiders(Rooms))
    BY <2>4, FlatIs
  <2>6. code' \in Seq(LegalInstructions \cap Insiders(Rooms)) /\ stage' = "legal"
    BY <1>5, <2>5 DEF LegaliseAll
  <2> QED
    BY <1>1, <1>2, <2>6 DEF ExecInv
<1> QED
  BY <1>3, <1>4, <1>5 DEF BackNext

\* ... and so does the run, whatever the objects start with.
LEMMA ExecuteStep ==
  ASSUME ExecInv, NEW inits, Execute(inits)
  PROVE  ExecInv'
<1>1. stage = "legal" /\ stage' = "ran" /\ objects' = objects
  BY DEF Execute
<1>2. code \in Seq(LegalInstructions \cap Insiders(Rooms))
  BY <1>1 DEF ExecInv
<1>3. PICK mem : machine' = Run(PowerOn(mem, Rooms), code)
  BY DEF Execute
<1>4. Whole(PowerOn(mem, Rooms), Rooms)
  BY DEF PowerOn, Whole
<1>5. machine'.smashed = FALSE
  BY <1>2, <1>3, <1>4, RunWhole DEF Whole
<1> QED
  BY <1>1, <1>5 DEF ExecInv

\* No code made of the intermediate code of an expression writes past the end
\* of an object, whatever its instructions, its objects, their types and the
\* values they start with: widths survive selection, the last pass and the run
\* (gen_asm, fix_pseudo_for_prog, fix_instructions, emit_x86).
THEOREM WritesInsideAlways == ExecSpec => []WritesInside
<1>1. ExecInit => ExecInv
  <2> SUFFICES ASSUME ExecInit PROVE ExecInv
    OBVIOUS
  <2>1. stage = "tac" /\ ExpressionCode
    BY DEF ExecInit, BackInit
  <2>2. objects \subseteq TacValues
    BY DEF ExecInit
  <2>3. machine.smashed = FALSE
    BY DEF ExecInit, PowerOn
  <2> QED
    BY <2>1, <2>2, <2>3 DEF ExecInv, ExpressionCode
<1>2. ExecInv /\ [ExecNext]_execVars => ExecInv'
  <2> SUFFICES ASSUME ExecInv, [ExecNext]_execVars PROVE ExecInv'
    OBVIOUS
  <2>1. CASE BackNext /\ UNCHANGED <<objects, start, machine>>
    BY <2>1, BackExecStep
  <2>2. ASSUME NEW names \in SUBSET Names, Execute([names -> Int])
        PROVE  ExecInv'
    BY <2>2, ExecuteStep
  <2>3. CASE UNCHANGED execVars
    BY <2>3 DEF ExecInv, ExpressionCode, Rooms, TypeOf, execVars, backVars
  <2> QED
    BY <2>1, <2>2, <2>3 DEF ExecNext
<1>3. ExecInv => WritesInside
  BY DEF ExecInv, WritesInside
<1> QED
  BY <1>1, <1>2, <1>3, PTL DEF ExecSpec

=============================================================================
