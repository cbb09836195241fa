--------------------------- MODULE CallConv_proofs ---------------------------
(***************************************************************************)
(* The calling sequence of x86.c keeps the stack, for any numbers of       *)
(* parameters and any depth of calls: a function finds its operands where  *)
(* its caller put them, every frame stays as it was while the functions it *)
(* called run, and a return leaves the stack pointer where the prologue    *)
(* put it.                                                                 *)
(*                                                                         *)
(* The invariant names the frame pointers of all active functions: a       *)
(* sequence b with b[k] = %rbp of the k-th one.  Two neighbours are as far *)
(* apart as the frame, the operands and the two saved words between them,  *)
(* so the frames do not overlap, and the chain of saved frame pointers in  *)
(* memory is b read backwards.                                             *)
(***************************************************************************)
EXTENDS CallConv, SequenceTheorems, WellFoundedInduction, TLAPS

-----------------------------------------------------------------------------

Counts == 0 .. MaxParams

\* what one call takes of the stack at most
Level == 24 + FrameBytes(MaxParams) + Release(MaxParams) + 8

Shape ==
  /\ pc \in {"entry", "body", "call"}
  /\ rsp \in Int /\ rbp \in Int
  /\ DOMAIN mem = Words
  /\ active \in Seq(Counts) /\ Len(active) \in 1 .. MaxDepth + 1
  /\ args \in Seq(Value)
  /\ calls \in 0 .. MaxCalls
  /\ pc = "entry" => Len(args) = Arity
  /\ pc = "call" => Len(args) \in Counts /\ Len(active) < MaxDepth

\* the bottom of the frame of the k-th active function
Bottom(b, k) == b[k] - FrameBytes(active[k])

\* b holds the frame pointers the active functions have or will have.
Placed(b) ==
  /\ b \in Seq(Int) /\ Len(b) = Len(active)
  /\ b[1] = 0 - 16
  /\ \A k \in 1 .. Len(active) :
       b[k] % 8 = 0 /\ b[k] <= 0 - 16 /\ 0 - k * Level <= Bottom(b, k)
  /\ \A j, k \in 1 .. Len(active) : j < k => b[k] + 16 <= Bottom(b, j)
  /\ \A k \in 1 .. Len(active) - 1 : b[k + 1] + 16 + Release(active[k + 1]) = Bottom(b, k)

\* The frame pointers are saved, each in the frame of the function called.
Linked(b) == \A k \in 2 .. Depth : mem[b[k]] = Saved(b[k - 1])

\* the registers, at each place of the code
Pointers(b) ==
  LET n == Len(active)
  IN  /\ pc = "entry" => rsp = b[n] + 8 /\ (n > 1 => rbp = b[n - 1])
      /\ pc # "entry" => rbp = b[n]
      /\ pc = "body" => rsp = Bottom(b, n)
      /\ pc = "call" => rsp = Bottom(b, n) - Release(Len(args))

Frames(b) == Placed(b) /\ Linked(b) /\ Pointers(b)

\* the lowest of the words the operands past the sixth were pushed to
Pushed == IF pc = "call" THEN rsp ELSE rsp + 8

\* The operands of the call being made are in place.
Passed ==
  pc # "body" => \A i \in 0 .. Len(args) - 1 :
    IF i \in ArgRegs THEN regs[i] = args[i + 1] ELSE mem[Pushed + 8 * (i - 6)] = args[i + 1]

CInv == Shape /\ Passed /\ \E b : Frames(b)

-----------------------------------------------------------------------------

\* A nonempty set of numbers has a least one.
LEMMA LeastNumber ==
  ASSUME NEW T, T \subseteq Nat, T # {}
  PROVE  \E x \in T : \A y \in T : x <= y
<1> DEFINE R == {p \in Nat \X Nat : p[1] < p[2]}
<1>1. OpToRel(<, Nat) = R
  BY DEF OpToRel
<1>2. IsWellFoundedOn(R, Nat)
  BY <1>1, NatLessThanWellFounded
<1>3. \A a, b \in Nat : a < b => <<a, b>> \in R
  OBVIOUS
<1> HIDE DEF R
<1>4. PICK x \in T : \A y \in T : ~(<<y, x>> \in R)
  BY <1>2, WFMin
<1>5. ASSUME NEW y \in T
      PROVE  x <= y
  <2>1. x \in Nat /\ y \in Nat
    OBVIOUS
  <2>2. ~(y < x)
    BY <1>3, <1>4, <2>1
  <2> QED
    BY <2>1, <2>2
<1> QED
  BY <1>5

\* The sizes of frames and of operands.
LEMMA Sizes ==
  ASSUME NEW n \in Counts
  PROVE  /\ n \in Nat
         /\ FrameBytes(n) \in Nat /\ FrameBytes(n) % 16 = 0 /\ FrameBytes(n) % 8 = 0
         /\ 8 * (n + 1) <= FrameBytes(n) /\ FrameBytes(n) <= FrameBytes(MaxParams)
         /\ Padding(n) \in {0, 8} /\ StackArgs(n) \in Nat
         /\ n > 6 => StackArgs(n) = n - 6
         /\ Release(n) = Padding(n) + 8 * StackArgs(n)
         /\ Release(n) \in Nat /\ Release(n) % 8 = 0
         /\ Release(n) <= Release(MaxParams) + 8
<1>1. n \in Nat /\ MaxParams \in Nat /\ n <= MaxParams
  BY CallAssumption DEF Counts
<1>2. /\ FrameBytes(n) \in Nat /\ FrameBytes(n) % 16 = 0 /\ FrameBytes(n) % 8 = 0
      /\ 8 * (n + 1) <= FrameBytes(n)
  BY <1>1 DEF FrameBytes
<1>3. FrameBytes(n) <= FrameBytes(MaxParams)
  BY <1>1 DEF FrameBytes
<1>4. Padding(n) \in {0, 8} /\ StackArgs(n) \in Nat /\ (n > 6 => StackArgs(n) = n - 6)
  BY <1>1 DEF Padding, StackArgs, Most
<1>5. Release(n) = Padding(n) + 8 * StackArgs(n)
  BY DEF Release
<1>6. Release(n) \in Nat /\ Release(n) % 8 = 0
  BY <1>4, <1>5
<1>7. Release(n) <= Release(MaxParams) + 8
  BY <1>1 DEF Release, Padding, StackArgs, Most
<1> QED
  BY <1>1, <1>2, <1>3, <1>4, <1>5, <1>6, <1>7

\* A level has room for the frame, the operands and the saved words of a
\* call, and the memory has room for a level per activation and one more.
LEMMA LevelIs ==
  /\ Level \in Nat /\ Level % 8 = 0 /\ MaxParams \in Counts
  /\ StackEnd = (MaxDepth + 1) * Level
  /\ \A n, m \in Counts : 16 + FrameBytes(n) + Release(m) <= Level
<1>1. MaxParams \in Counts
  BY CallAssumption DEF Counts
<1>2. /\ FrameBytes(MaxParams) \in Nat /\ FrameBytes(MaxParams) % 8 = 0
      /\ Release(MaxParams) \in Nat /\ Release(MaxParams) % 8 = 0
  BY <1>1, Sizes
<1>3. Level \in Nat /\ Level % 8 = 0
  BY <1>2 DEF Level
<1>4. StackEnd = (MaxDepth + 1) * Level
  BY DEF StackEnd, Level
<1>5. ASSUME NEW n \in Counts, NEW m \in Counts
      PROVE  16 + FrameBytes(n) + Release(m) <= Level
  <2>1. FrameBytes(n) \in Nat /\ FrameBytes(n) <= FrameBytes(MaxParams)
    BY Sizes
  <2>2. Release(m) \in Nat /\ Release(m) <= Release(MaxParams) + 8
    BY Sizes
  <2> QED
    BY <1>2, <2>1, <2>2 DEF Level
<1> QED
  BY <1>1, <1>3, <1>4, <1>5

\* Every aligned word down to the level of a call in the bounds is memory.
LEMMA InWords ==
  ASSUME NEW a \in Int, a % 8 = 0, a <= 0, NEW k \in 0 .. MaxDepth + 1, 0 - k * Level <= a
  PROVE  a \in Words
<1>1. MaxDepth \in Nat /\ Level \in Nat
  BY CallAssumption, LevelIs
<1>2. k * Level <= (MaxDepth + 1) * Level
  <2>1. PICK j \in Nat : MaxDepth + 1 = k + j
    <3>1. (MaxDepth + 1) - k \in Nat /\ MaxDepth + 1 = k + ((MaxDepth + 1) - k)
      BY <1>1
    <3> QED
      BY <3>1
  <2>2. (k + j) * Level = k * Level + j * Level
    BY <1>1
  <2>3. j * Level \in Nat /\ k * Level \in Nat
    BY <1>1
  <2> QED
    BY <2>1, <2>2, <2>3
<1>3. StackEnd \in Nat /\ 0 - StackEnd <= a
  <2>1. StackEnd = (MaxDepth + 1) * Level
    BY LevelIs
  <2>2. (MaxDepth + 1) * Level \in Nat /\ k * Level \in Nat
    BY <1>1
  <2> QED
    BY <1>2, <2>1, <2>2
<1> DEFINE q == (0 - a) \div 8
<1>4. q \in Nat /\ a = 0 - 8 * q /\ q <= StackEnd \div 8
  BY <1>3
<1> QED
  BY <1>3, <1>4 DEF Words

\* The frame pointers found in memory are those of b.
LEMMA ChainIs ==
  ASSUME NEW d \in Nat, NEW b, NEW r, NEW m,
         d > 0 => r = b[d],
         \A k \in 2 .. d : m[b[k]].addr = b[k - 1]
  PROVE  (CHOOSE B : B = [k \in 1 .. d |-> IF k = d THEN r ELSE m[B[k + 1]].addr])
           = [k \in 1 .. d |-> b[k]]
<1> DEFINE Is(B) == B = [k \in 1 .. d |-> IF k = d THEN r ELSE m[B[k + 1]].addr]
           g == [k \in 1 .. d |-> b[k]]
           h == CHOOSE B : Is(B)
<1>1. Is(g)
  <2>1. \A k \in 1 .. d : b[k] = IF k = d THEN r ELSE m[g[k + 1]].addr
    <3> TAKE k \in 1 .. d
    <3>1. CASE k = d
      BY <3>1
    <3>2. CASE k # d
      <4>1. k + 1 \in 2 .. d /\ k + 1 \in 1 .. d /\ (k + 1) - 1 = k
        BY <3>2
      <4>2. g[k + 1] = b[k + 1]
        BY <4>1
      <4> QED
        BY <3>2, <4>1, <4>2
    <3> QED
      BY <3>1, <3>2
  <2> QED
    BY <2>1
<1>2. Is(h)
  BY <1>1
<1> HIDE DEF h
<1> DEFINE R == {j \in Nat : j < d /\ h[d - j] # b[d - j]}
<1>3. R = {}
  <2> SUFFICES ASSUME R # {} PROVE FALSE
    OBVIOUS
  <2>1. R \subseteq Nat
    OBVIOUS
  <2>2. PICK j \in R : \A i \in R : j <= i
    <3> HIDE DEF R
    <3> QED
      BY <2>1, LeastNumber
  <2> DEFINE k == d - j
  <2>3. k \in 1 .. d /\ h[k] # b[k] /\ j \in Nat
    BY <2>2
  <2>4. h[k] = IF k = d THEN r ELSE m[h[k + 1]].addr
    BY <1>2, <2>3
  <2>5. k # d
    BY <2>3, <2>4
  <2>6. j - 1 \in Nat /\ d - (j - 1) = k + 1 /\ j - 1 < d
    BY <2>3, <2>5
  <2>7. j - 1 \notin R
    <3> HIDE DEF R
    <3> QED
      BY <2>2, <2>3, <2>6
  <2>8. h[k + 1] = b[k + 1]
    BY <2>6, <2>7
  <2>9. k + 1 \in 2 .. d /\ (k + 1) - 1 = k
    BY <2>3, <2>5
  <2>10. m[b[k + 1]].addr = b[k]
    BY <2>9
  <2> QED
    BY <2>3, <2>4, <2>5, <2>8, <2>10
<1>4. \A k \in 1 .. d : h[k] = b[k]
  <2> TAKE k \in 1 .. d
  <2>1. d - k \in Nat /\ d - (d - k) = k /\ d - k < d
    OBVIOUS
  <2>2. d - k \notin R
    BY <1>3
  <2> QED
    BY <2>1, <2>2
<1>5. h = [k \in 1 .. d |-> h[k]]
  BY <1>2
<1>6. h = g
  BY <1>4, <1>5
<1> QED
  BY <1>6 DEF h

-----------------------------------------------------------------------------

\* what the frames of d functions hold, in memory m
ActsIn(d, b, m, a) ==
  [k \in 1 .. d |->
     [params |-> [i \in 1 .. a[k] |-> m[ParamSlot(b[k], i - 1)]],
      result |-> m[ResultSlot(b[k], a[k])]]]

\* There are as many activations as frames are looked at.
LEMMA LenOfActs ==
  ASSUME NEW d \in Nat, NEW b, NEW m, NEW a
  PROVE  Len(ActsIn(d, b, m, a)) = d /\ DOMAIN ActsIn(d, b, m, a) = 1 .. d
<1> DEFINE s == ActsIn(d, b, m, a)
<1>1. DOMAIN s = 1 .. d /\ s = [k \in 1 .. d |-> s[k]]
  BY DEF ActsIn
<1> HIDE DEF s
<1> DEFINE S == {s[k] : k \in 1 .. d}
<1>2. s \in [1 .. d -> S]
  BY <1>1
<1>3. s \in Seq(S)
  BY <1>2
<1> QED
  BY <1>1, <1>3 DEF s

\* The address in a saved word is the one that was saved.
LEMMA AddrOfSaved == \A a : Saved(a).addr = a
<1> TAKE a
<1> QED
  BY DEF Saved

\* What is found in memory is what the frames of b hold.
LEMMA ActsAre ==
  ASSUME Shape, NEW b, Linked(b), Pointers(b)
  PROVE  ActsInMemory = ActsIn(Depth, b, mem, active)
<1>1. Len(active) \in Nat \ {0}
  BY DEF Shape
<1>2. Depth \in Nat /\ (Depth > 0 => rbp = b[Depth])
  BY <1>1 DEF Depth, Pointers, Shape
<1>3. \A k \in 2 .. Depth : mem[b[k]].addr = b[k - 1]
  BY AddrOfSaved DEF Linked
<1>4. Base = [k \in 1 .. Depth |-> b[k]]
  BY <1>2, <1>3, ChainIs DEF Base
<1> QED
  BY <1>4 DEF ActsInMemory, ActsIn

\* The same after a step.
LEMMA ActsAreNext ==
  ASSUME Shape', NEW b, Linked(b)', Pointers(b)'
  PROVE  ActsInMemory' = ActsIn(Depth', b, mem', active')
<1>1. Len(active') \in Nat \ {0}
  BY DEF Shape
<1>2. Depth' \in Nat /\ (Depth' > 0 => rbp' = b[Depth'])
  BY <1>1 DEF Depth, Pointers, Shape
<1>3. \A k \in 2 .. Depth' : mem'[b[k]].addr = b[k - 1]
  BY AddrOfSaved DEF Linked
<1>4. Base' = [k \in 1 .. Depth' |-> b[k]]
  BY <1>2, <1>3, ChainIs DEF Base
<1> QED
  BY <1>4 DEF ActsInMemory, ActsIn

\* The words of a frame are memory, between the frame pointer and the bottom.
LEMMA WordsOfFrame ==
  ASSUME Shape, NEW b, Placed(b), NEW k \in 1 .. Len(active)
  PROVE  /\ active[k] \in Counts /\ b[k] \in Int /\ b[k] % 8 = 0 /\ b[k] <= 0 - 16
         /\ Bottom(b, k) \in Int /\ Bottom(b, k) % 8 = 0
         /\ b[k] \in Words /\ Bottom(b, k) <= b[k]
         /\ \A i \in 0 .. active[k] - 1 :
              /\ ParamSlot(b[k], i) \in Words
              /\ Bottom(b, k) <= ParamSlot(b[k], i) /\ ParamSlot(b[k], i) < b[k]
              /\ ResultSlot(b[k], active[k]) < ParamSlot(b[k], i)
         /\ ResultSlot(b[k], active[k]) \in Words
         /\ Bottom(b, k) <= ResultSlot(b[k], active[k]) /\ ResultSlot(b[k], active[k]) < b[k]
<1> DEFINE n == active[k]
           x == b[k]
           l == Bottom(b, k)
           F == FrameBytes(n)
<1>1. n \in Counts /\ x \in Int /\ k \in 0 .. MaxDepth + 1
  <2>1. active \in Seq(Counts) /\ Len(active) \in 1 .. MaxDepth + 1
    BY DEF Shape
  <2>2. b \in Seq(Int) /\ Len(b) = Len(active)
    BY DEF Placed
  <2>3. MaxDepth \in Nat
    BY CallAssumption
  <2> QED
    BY <2>1, <2>2, <2>3
<1>2. x % 8 = 0 /\ x <= 0 - 16 /\ 0 - k * Level <= l
  BY DEF Placed
<1>3. F \in Nat /\ F % 8 = 0 /\ 8 * (n + 1) <= F /\ n \in Nat
  BY <1>1, Sizes
<1>4. l = x - F
  BY DEF Bottom
<1> HIDE DEF n, x, l, F
<1>5. l \in Int /\ l % 8 = 0 /\ l <= x
  BY <1>1, <1>2, <1>3, <1>4
<1>6. \A a \in Int : a % 8 = 0 /\ l <= a /\ a <= x => a \in Words
  <2> SUFFICES ASSUME NEW a \in Int, a % 8 = 0, l <= a, a <= x PROVE a \in Words
    OBVIOUS
  <2>1. k * Level \in Int
    BY <1>1, LevelIs
  <2>2. 0 - k * Level <= a /\ a <= 0
    BY <1>1, <1>2, <1>5, <2>1
  <2> QED
    BY <1>1, <2>2, InWords
<1>7. x \in Words
  BY <1>1, <1>2, <1>5, <1>6
<1>8. ASSUME NEW i \in 0 .. n
      PROVE  x - 8 * (i + 1) \in Words /\ l <= x - 8 * (i + 1) /\ x - 8 * (i + 1) < x
  <2> DEFINE a == x - 8 * (i + 1)
  <2>1. a \in Int /\ a % 8 = 0 /\ a < x
    BY <1>1, <1>2, <1>3
  <2>2. l <= a
    BY <1>1, <1>3, <1>4
  <2> HIDE DEF a
  <2>3. a \in Words /\ l <= a /\ a < x
    BY <1>1, <1>6, <2>1, <2>2
  <2> QED
    BY <2>3 DEF a
<1>9. \A i \in 0 .. n - 1 : ParamSlot(x, i) \in Words /\ l <= ParamSlot(x, i) /\ ParamSlot(x, i) < x
                           /\ ResultSlot(x, n) < ParamSlot(x, i)
  BY <1>1, <1>3, <1>8 DEF ParamSlot, ResultSlot
<1>10. ResultSlot(x, n) \in Words /\ l <= ResultSlot(x, n) /\ ResultSlot(x, n) < x
  BY <1>3, <1>8 DEF ResultSlot
<1> QED
  BY <1>1, <1>2, <1>5, <1>7, <1>9, <1>10 DEF n, x, l

\* Writing below the frames of d functions leaves them alone.
LEMMA Kept ==
  ASSUME Shape, NEW b, Placed(b), NEW d \in 1 .. Len(active), NEW m,
         \A a \in Words : a >= Bottom(b, d) => m[a] = mem[a]
  PROVE  /\ ActsIn(d, b, m, active) = ActsIn(d, b, mem, active)
         /\ \A k \in 1 .. d : m[b[k]] = mem[b[k]]
<1>1. ASSUME NEW k \in 1 .. d
      PROVE  /\ \A a \in Words : a >= Bottom(b, k) => m[a] = mem[a]
             /\ k \in 1 .. Len(active)
  <2>1. k \in 1 .. Len(active) /\ Len(active) \in Nat
    BY DEF Shape
  <2>2. Bottom(b, d) <= Bottom(b, k) /\ Bottom(b, d) \in Int /\ Bottom(b, k) \in Int
    <3>1. /\ b[d] \in Int /\ Bottom(b, d) <= b[d]
          /\ Bottom(b, d) \in Int /\ Bottom(b, k) \in Int
      BY <2>1, WordsOfFrame
    <3>2. CASE k = d
      BY <3>1, <3>2
    <3>3. CASE k < d
      <4>1. b[d] + 16 <= Bottom(b, k)
        BY <2>1, <3>3 DEF Placed
      <4> QED
        BY <3>1, <4>1
    <3> QED
      BY <3>2, <3>3
  <2>3. Words \subseteq Int
    BY DEF Words
  <2>4. ASSUME NEW a \in Words, a >= Bottom(b, k)
        PROVE  m[a] = mem[a]
    <3>1. a >= Bottom(b, d)
      BY <2>2, <2>3, <2>4
    <3> QED
      BY <3>1
  <2> QED
    BY <2>1, <2>4
<1>2. Words \subseteq Int
  BY DEF Words
<1>3. ASSUME NEW k \in 1 .. d
      PROVE  /\ m[b[k]] = mem[b[k]]
             /\ \A i \in 0 .. active[k] - 1 : m[ParamSlot(b[k], i)] = mem[ParamSlot(b[k], i)]
             /\ m[ResultSlot(b[k], active[k])] = mem[ResultSlot(b[k], active[k])]
  BY <1>1, <1>2, WordsOfFrame
<1>4. ASSUME NEW k \in 1 .. d
      PROVE  [i \in 1 .. active[k] |-> m[ParamSlot(b[k], i - 1)]]
               = [i \in 1 .. active[k] |-> mem[ParamSlot(b[k], i - 1)]]
  <2>1. active[k] \in Nat
    BY <1>1, WordsOfFrame, Sizes
  <2>2. \A i \in 1 .. active[k] : i - 1 \in 0 .. active[k] - 1
    BY <2>1
  <2> QED
    BY <1>3, <2>2
<1> QED
  BY <1>3, <1>4 DEF ActsIn

-----------------------------------------------------------------------------

\* A sequence over S has its elements in S.
LEMMA Elements ==
  ASSUME NEW S, NEW s \in Seq(S)
  PROVE  /\ Len(s) \in Nat /\ DOMAIN s = 1 .. Len(s)
         /\ \A n \in 1 .. Len(s) : s[n] \in S
  OBVIOUS

\* Appending leaves what was there and adds one element at the end.
LEMMA AppendedTo ==
  ASSUME NEW S, NEW s \in Seq(S), NEW x \in S
  PROVE  /\ Append(s, x) \in Seq(S)
         /\ Len(Append(s, x)) = Len(s) + 1
         /\ Append(s, x)[Len(s) + 1] = x
         /\ \A n \in 1 .. Len(s) : Append(s, x)[n] = s[n]
  OBVIOUS

\* Dropping the last element leaves the others.
LEMMA LastRemoved ==
  ASSUME NEW S, NEW s \in Seq(S), Len(s) > 0
  PROVE  /\ SubSeq(s, 1, Len(s) - 1) \in Seq(S)
         /\ Len(SubSeq(s, 1, Len(s) - 1)) = Len(s) - 1
         /\ \A n \in 1 .. Len(s) - 1 : SubSeq(s, 1, Len(s) - 1)[n] = s[n]
<1> DEFINE l == Len(s) - 1
<1>1. Len(s) \in Nat /\ l \in Int /\ l >= 0 /\ \A n \in 1 .. l : s[n] \in S
  OBVIOUS
<1> HIDE DEF l
<1>2. /\ SubSeq(s, 1, l) \in Seq(S)
      /\ Len(SubSeq(s, 1, l)) = IF 1 <= l THEN l - 1 + 1 ELSE 0
      /\ \A n \in 1 .. l - 1 + 1 : SubSeq(s, 1, l)[n] = s[1 + n - 1]
  BY <1>1, SubSeqProperties
<1>3. Len(SubSeq(s, 1, l)) = l /\ \A n \in 1 .. l : SubSeq(s, 1, l)[n] = s[n]
  BY <1>1, <1>2
<1> QED
  BY <1>2, <1>3 DEF l

\* The runtime's call of main is in order.
LEMMA InitInv == Init => CInv /\ Language!Init
<1> SUFFICES ASSUME Init PROVE CInv /\ Language!Init
  OBVIOUS
<1>1. MaxDepth \in Nat /\ MaxCalls \in Nat /\ 0 \in Counts
  BY CallAssumption DEF Counts
<1>2. active = <<0>> /\ Len(active) = 1 /\ active[1] = 0 /\ active \in Seq(Counts)
  BY <1>1 DEF Init
<1>3. Shape
  BY <1>1, <1>2 DEF Init, Shape, Arity
<1>4. Passed
  BY DEF Init, Passed
<1> DEFINE b == <<0 - 16>>
<1>5. b \in Seq(Int) /\ Len(b) = 1 /\ b[1] = 0 - 16
  OBVIOUS
<1> HIDE DEF b
<1>6. Placed(b)
  <2>1. 16 + FrameBytes(0) + Release(0) <= Level /\ Level \in Nat
    BY <1>1, LevelIs
  <2>2. FrameBytes(0) \in Nat /\ Release(0) \in Nat
    BY <1>1, Sizes
  <2>3. 0 - 1 * Level <= Bottom(b, 1)
    BY <1>2, <1>5, <2>1, <2>2 DEF Bottom
  <2> QED
    BY <1>2, <1>5, <2>3 DEF Placed
<1>7. Linked(b) /\ Pointers(b)
  BY <1>2, <1>5 DEF Init, Linked, Depth, Pointers
<1>8. Language!Init
  <2>1. Depth = 0
    BY <1>2 DEF Init, Depth
  <2>2. ActsInMemory = << >>
    BY <2>1 DEF ActsInMemory
  <2> QED
    BY <2>2 DEF Init, Language!Init, Language!NoOperands
<1> QED
  BY <1>3, <1>4, <1>6, <1>7, <1>8 DEF CInv, Frames

\* Storing words changes these words and no others.
LEMMA Stored ==
  ASSUME NEW m, NEW new
  PROVE  /\ DOMAIN Store(m, new) = DOMAIN m
         /\ \A a \in DOMAIN m : Store(m, new)[a] = IF a \in DOMAIN new THEN new[a] ELSE m[a]
  BY DEF Store

\* The operand slots differ, and the words of pushed operands do.
LEMMA SlotsDiffer ==
  ASSUME NEW x \in Int
  PROVE  /\ \A i, j \in Nat : ParamSlot(x, i) = ParamSlot(x, j) => i = j
         /\ \A n, i, j \in Nat : PushedAt(x, n, i) = PushedAt(x, n, j) => i = j
  BY DEF ParamSlot, PushedAt

\* The prologue saves the frame pointer and moves the parameters to slots.
LEMMA EnterStores ==
  ASSUME Shape, NEW b, Frames(b), Enter
  PROVE  LET n == Len(active)
         IN  /\ rbp' = b[n] /\ DOMAIN mem' = Words
             /\ mem'[b[n]] = Saved(rbp)
             /\ \A a \in Words : a > b[n] => mem'[a] = mem[a]
             /\ \A i \in 0 .. active[n] - 1 :
                  mem'[ParamSlot(b[n], i)]
                    = IF i \in ArgRegs THEN regs[i] ELSE mem[StackParam(b[n], i)]
<1> DEFINE n == Len(active)
           x == b[n]
           N == active[n]
<1>1. n \in Nat /\ n \in 1 .. Len(active) /\ DOMAIN mem = Words
  BY DEF Shape
<1>2. /\ N \in Counts /\ N \in Nat /\ x \in Int /\ x \in Words
      /\ \A i \in 0 .. N - 1 : ParamSlot(x, i) \in Words /\ ParamSlot(x, i) < x
  <2>1. N \in Counts /\ N \in Nat
    BY <1>1, WordsOfFrame, Sizes DEF Frames
  <2> QED
    BY <1>1, <2>1, WordsOfFrame DEF Frames
<1>3. rsp = x + 8
  BY DEF Frames, Pointers, Enter
<1>4. rbp' = x
  BY <1>2, <1>3 DEF Enter
<1> DEFINE slots == {ParamSlot(x, i) : i \in 0 .. N - 1}
           Source(i) == IF i \in ArgRegs THEN regs[i] ELSE mem[StackParam(x, i)]
           copied == [a \in slots |-> Source(CHOOSE i \in 0 .. N - 1 : ParamSlot(x, i) = a)]
           pushed == [a \in {x} |-> Saved(rbp)]
           first == Store(mem, pushed)
<1>5. mem' = Store(first, copied)
  <2> DEFINE At(y) == Store(Store(mem, [a \in {y} |-> Saved(rbp)]),
                            [a \in {ParamSlot(y, i) : i \in 0 .. active[Len(active)] - 1} |->
                               LET i == CHOOSE i \in 0 .. active[Len(active)] - 1 :
                                          ParamSlot(y, i) = a
                               IN  IF i \in ArgRegs THEN regs[i] ELSE mem[StackParam(y, i)]])
  <2>1. mem' = At(rbp')
    BY DEF Enter, Arity
  <2>2. At(x) = Store(first, copied)
    OBVIOUS
  <2> HIDE DEF At, x
  <2>3. mem' = At(x)
    BY <1>4, <2>1
  <2> QED
    BY <2>2, <2>3
<1>6. /\ DOMAIN first = Words
      /\ first[x] = Saved(rbp)
      /\ \A a \in Words : a # x => first[a] = mem[a]
  BY <1>1, <1>2, Stored
<1> HIDE DEF first
<1>7. /\ DOMAIN mem' = Words
      /\ \A a \in Words : mem'[a] = IF a \in DOMAIN copied THEN copied[a] ELSE first[a]
  BY <1>5, <1>6, Stored
<1>8. \A a \in slots : a < x
  BY <1>2
<1>9. DOMAIN copied = slots
  OBVIOUS
<1>10. ASSUME NEW i \in 0 .. N - 1
       PROVE  mem'[ParamSlot(x, i)] = Source(i)
  <2> DEFINE c == CHOOSE j \in 0 .. N - 1 : ParamSlot(x, j) = ParamSlot(x, i)
  <2>1. c \in 0 .. N - 1 /\ ParamSlot(x, c) = ParamSlot(x, i)
    OBVIOUS
  <2>2. c = i
    <3> HIDE DEF c, x, N
    <3> QED
      BY <1>2, <2>1, SlotsDiffer
  <2>3. ParamSlot(x, i) \in slots
    OBVIOUS
  <2>4. copied[ParamSlot(x, i)] = Source(c)
    BY <2>3
  <2> HIDE DEF copied, c, slots
  <2> QED
    BY <1>2, <1>7, <1>9, <2>2, <2>3, <2>4
<1> HIDE DEF copied, slots
<1>11. mem'[x] = Saved(rbp)
  <2>1. x \notin slots
    BY <1>2, <1>8
  <2> QED
    BY <1>2, <1>6, <1>7, <1>9, <2>1
<1>12. ASSUME NEW a \in Words, a > x
       PROVE  mem'[a] = mem[a]
  <2>1. a \in Int
    BY DEF Words
  <2>2. a # x /\ a \notin slots
    BY <1>2, <1>8, <1>12, <2>1
  <2> QED
    BY <1>6, <1>7, <1>9, <2>2
<1> QED
  BY <1>4, <1>7, <1>10, <1>11, <1>12

\* The words above a frame hold the frames below it in the chain: what
\* Kept says, when every word from a given one on is kept.
LEMMA KeptAbove ==
  ASSUME Shape, NEW b, Placed(b), NEW d \in 1 .. Len(active) - 1, NEW m,
         \A a \in Words : a > b[d + 1] => m[a] = mem[a]
  PROVE  /\ ActsIn(d, b, m, active) = ActsIn(d, b, mem, active)
         /\ \A k \in 1 .. d : m[b[k]] = mem[b[k]]
<1>1. d \in 1 .. Len(active) /\ d + 1 \in 1 .. Len(active) /\ d < d + 1 /\ d \in Nat
  BY DEF Shape
<1>2. b[d + 1] + 16 <= Bottom(b, d)
  BY <1>1 DEF Placed
<1>3. b[d + 1] \in Int /\ Bottom(b, d) \in Int
  BY <1>1, WordsOfFrame
<1>4. ASSUME NEW a \in Words, a >= Bottom(b, d)
      PROVE  m[a] = mem[a]
  <2>1. a \in Int
    BY DEF Words
  <2>2. a > b[d + 1]
    BY <1>2, <1>3, <1>4, <2>1
  <2> QED
    BY <2>2
<1> QED
  BY <1>1, <1>4, Kept

\* The prologue of a function starts an activation whose parameters are the
\* operands of the call.
LEMMA EnterInv ==
  ASSUME CInv, Enter
  PROVE  CInv' /\ Language!Start
<1>1. Shape /\ Passed
  BY DEF CInv
<1>2. PICK b : Frames(b)
  BY DEF CInv
<1> DEFINE n == Len(active)
           x == b[n]
           N == active[n]
<1>3. n \in Nat /\ n > 0 /\ n \in 1 .. Len(active) /\ N \in Counts /\ N \in Nat
  <2>1. n \in Nat /\ n > 0 /\ n \in 1 .. Len(active)
    BY <1>1 DEF Shape
  <2>2. N \in Counts /\ N \in Nat
    BY <1>1, <1>2, <2>1, WordsOfFrame, Sizes DEF Frames
  <2> QED
    BY <2>1, <2>2
<1>4. /\ x \in Int /\ x \in Words
      /\ \A i \in 0 .. N - 1 : ParamSlot(x, i) \in Words
  BY <1>1, <1>2, <1>3, WordsOfFrame DEF Frames
<1>5. /\ rbp' = x /\ DOMAIN mem' = Words
      /\ mem'[x] = Saved(rbp)
      /\ \A a \in Words : a > x => mem'[a] = mem[a]
      /\ \A i \in 0 .. N - 1 :
           mem'[ParamSlot(x, i)] = IF i \in ArgRegs THEN regs[i] ELSE mem[StackParam(x, i)]
  BY <1>1, <1>2, EnterStores
<1>6. rsp = x + 8 /\ (n > 1 => rbp = b[n - 1])
  BY <1>2 DEF Frames, Pointers, Enter
<1>7. rsp' = x - FrameBytes(N)
  BY <1>5 DEF Enter, Arity
<1>8. pc = "entry" /\ pc' = "body" /\ args' = << >> /\ active' = active /\ calls' = calls
      /\ regs' = regs
  BY DEF Enter
<1>9. Depth = n - 1 /\ Depth' = n
  BY <1>8 DEF Depth
<1>10. Shape'
  <2>1. FrameBytes(N) \in Nat
    BY <1>3, Sizes
  <2> QED
    BY <1>1, <1>4, <1>5, <1>7, <1>8, <2>1 DEF Shape
<1>11. Passed'
  BY <1>8 DEF Passed
<1>12. Placed(b)'
  BY <1>2, <1>8 DEF Frames, Placed, Bottom
<1>13. Pointers(b)'
  BY <1>5, <1>7, <1>8 DEF Pointers, Bottom
<1>14. n > 1 => /\ ActsIn(n - 1, b, mem', active) = ActsIn(n - 1, b, mem, active)
                /\ \A k \in 1 .. n - 1 : mem'[b[k]] = mem[b[k]]
  <2> SUFFICES ASSUME n > 1
               PROVE  /\ ActsIn(n - 1, b, mem', active) = ActsIn(n - 1, b, mem, active)
                      /\ \A k \in 1 .. n - 1 : mem'[b[k]] = mem[b[k]]
    OBVIOUS
  <2> DEFINE d == n - 1
  <2>1. d \in 1 .. Len(active) - 1 /\ d + 1 = n
    BY <1>3
  <2>2. \A a \in Words : a > b[d + 1] => mem'[a] = mem[a]
    BY <1>5, <2>1
  <2> HIDE DEF d
  <2>3. /\ ActsIn(d, b, mem', active) = ActsIn(d, b, mem, active)
        /\ \A k \in 1 .. d : mem'[b[k]] = mem[b[k]]
    BY <1>1, <1>2, <2>1, <2>2, KeptAbove DEF Frames
  <2> QED
    BY <2>3 DEF d
<1>15. Linked(b)'
  <2> SUFFICES ASSUME NEW k \in 2 .. n PROVE mem'[b[k]] = Saved(b[k - 1])
    BY <1>9 DEF Linked
  <2>1. CASE k = n
    BY <1>5, <1>6, <2>1
  <2>2. CASE k # n
    <3>1. n > 1 /\ k \in 1 .. n - 1 /\ k \in 2 .. Depth
      BY <1>3, <1>9, <2>2
    <3>2. mem[b[k]] = Saved(b[k - 1])
      BY <1>2, <3>1 DEF Frames, Linked
    <3> QED
      BY <1>14, <3>1, <3>2
  <2> QED
    BY <2>1, <2>2
<1>16. CInv'
  BY <1>10, <1>11, <1>12, <1>13, <1>15 DEF CInv, Frames
<1>17. ActsInMemory = ActsIn(n - 1, b, mem, active)
  BY <1>1, <1>2, <1>9, ActsAre DEF Frames
<1>18. ActsInMemory' = ActsIn(n, b, mem', active)
  BY <1>8, <1>9, <1>10, <1>13, <1>15, ActsAreNext
<1>19. \A i \in 1 .. N : mem'[ParamSlot(x, i - 1)] = args[i]
  <2> TAKE i \in 1 .. N
  <2>1. i - 1 \in 0 .. N - 1 /\ (i - 1) + 1 = i
    BY <1>3
  <2>2. Len(args) = N
    BY <1>1, <1>8 DEF Shape, Arity
  <2>3. IF i - 1 \in ArgRegs THEN regs[i - 1] = args[i] ELSE mem[Pushed + 8 * ((i - 1) - 6)] = args[i]
    BY <1>1, <1>8, <2>1, <2>2 DEF Passed
  <2>4. Pushed + 8 * ((i - 1) - 6) = StackParam(x, i - 1)
    BY <1>4, <1>6, <1>8 DEF Pushed, StackParam
  <2> QED
    BY <1>5, <2>1, <2>3, <2>4
<1>20. [i \in 1 .. N |-> mem'[ParamSlot(x, i - 1)]] = args
  <2>1. args \in Seq(Value) /\ Len(args) = N
    BY <1>1, <1>8 DEF Shape, Arity
  <2>2. args = [i \in 1 .. N |-> args[i]]
    BY <2>1
  <2> QED
    BY <1>19, <2>2
<1>21. Language!Start
  <2> DEFINE A == ActsIn(n - 1, b, mem, active)
             B == ActsIn(n, b, mem', active)
  <2>1. Len(A) = n - 1 /\ DOMAIN A = 1 .. n - 1 /\ Len(B) = n
    BY <1>3, LenOfActs
  <2>2. \A k \in 1 .. n - 1 : B[k] = A[k]
    <3> TAKE k \in 1 .. n - 1
    <3>1. n > 1 /\ k \in 1 .. n
      BY <1>3
    <3>2. A = ActsIn(n - 1, b, mem', active)
      BY <1>14, <3>1
    <3> QED
      BY <3>1, <3>2 DEF ActsIn
  <2>3. B[n].params = args
    BY <1>3, <1>20 DEF ActsIn
  <2> HIDE DEF A, B
  <2>4. (n - 1) + 1 = n
    BY <1>3
  <2>5. (pc = "body") = FALSE /\ (pc' = "body") = TRUE
    BY <1>8
  <2>6. ActsInMemory = A /\ ActsInMemory' = B
    BY <1>17, <1>18 DEF A, B
  <2> QED
    BY <1>8, <2>1, <2>2, <2>3, <2>4, <2>5, <2>6 DEF Language!Start, Language!NoOperands
<1> QED
  BY <1>16, <1>21

\* A word at most one call below a frame is memory, if the bound on the
\* depth admits the call.
LEMMA RoomForCall ==
  ASSUME Shape, NEW b, Placed(b), Len(active) < MaxDepth,
         NEW m \in Counts, NEW a \in Int, a % 8 = 0,
         Bottom(b, Len(active)) - Release(m) - 16 <= a, a <= 0
  PROVE  a \in Words
<1> DEFINE n == Len(active)
           l == Bottom(b, n)
<1>1. n \in Nat /\ n \in 1 .. Len(active) /\ n + 1 \in 0 .. MaxDepth + 1
  BY CallAssumption DEF Shape
<1>2. 0 - n * Level <= l
  BY <1>1 DEF Placed
<1>3. l \in Int
  BY <1>1, WordsOfFrame
<1>4. Release(m) \in Nat /\ FrameBytes(m) \in Nat
  BY Sizes
<1>5. 16 + FrameBytes(m) + Release(m) <= Level /\ Level \in Nat
  BY LevelIs
<1>6. n * Level \in Int /\ (n + 1) * Level = n * Level + Level
  BY <1>1, <1>5
<1> HIDE DEF n, l
<1>7. 0 - (n + 1) * Level <= a
  <2>1. l - Release(m) - 16 <= a
    BY DEF n, l
  <2> QED
    BY <1>2, <1>3, <1>4, <1>5, <1>6, <2>1
<1> QED
  BY <1>1, <1>7, InWords

\* What gen_asm_from_call does before the call instruction.
LEMMA PlaceStores ==
  ASSUME Shape, NEW b, Frames(b), NEW n \in Counts, Place(n)
  PROVE  /\ args' = [k \in 1 .. n |-> Arg(calls + 1, k - 1)]
         /\ rsp' = rsp - Release(n)
         /\ DOMAIN mem' = Words
         /\ \A a \in Words : a >= rsp => mem'[a] = mem[a]
         /\ \A i \in 6 .. n - 1 : mem'[rsp' + 8 * (i - 6)] = args'[i + 1]
<1> DEFINE sp == rsp - Padding(n)
           places == {PushedAt(sp, n, j) : j \in 6 .. n - 1}
           pushed == [a \in places |->
                        args'[1 + CHOOSE j \in 6 .. n - 1 : PushedAt(sp, n, j) = a]]
<1>1. /\ n \in Nat /\ Padding(n) \in {0, 8} /\ StackArgs(n) \in Nat
      /\ (n > 6 => StackArgs(n) = n - 6) /\ Release(n) = Padding(n) + 8 * StackArgs(n)
  BY Sizes
<1>2. rsp \in Int /\ DOMAIN mem = Words /\ Len(active) \in 1 .. Len(active)
  BY DEF Shape
<1>3. args' = [k \in 1 .. n |-> Arg(calls + 1, k - 1)]
  BY DEF Place
<1>4. mem' = Store(mem, pushed) /\ rsp' = sp - 8 * StackArgs(n) /\ Len(active) < MaxDepth
  BY DEF Place
<1>5. rsp' = rsp - Release(n)
  BY <1>1, <1>2, <1>4
<1>6. /\ DOMAIN mem' = Words
      /\ \A a \in Words : mem'[a] = IF a \in places THEN pushed[a] ELSE mem[a]
  BY <1>2, <1>4, Stored
<1>7. \A j \in 6 .. n - 1 : PushedAt(sp, n, j) < rsp
  BY <1>1, <1>2 DEF PushedAt
<1>8. ASSUME NEW a \in Words, a >= rsp
      PROVE  mem'[a] = mem[a]
  <2>1. a \in Int
    BY DEF Words
  <2>2. a \notin places
    BY <1>1, <1>2, <1>7, <1>8, <2>1 DEF PushedAt
  <2> QED
    BY <1>6, <2>2
<1>9. rsp = Bottom(b, Len(active)) /\ Bottom(b, Len(active)) % 8 = 0 /\ rsp <= 0
  <2>1. rsp = Bottom(b, Len(active))
    BY DEF Frames, Pointers, Place
  <2>2. /\ Bottom(b, Len(active)) % 8 = 0 /\ Bottom(b, Len(active)) <= b[Len(active)]
        /\ b[Len(active)] \in Int /\ b[Len(active)] <= 0 - 16 /\ Bottom(b, Len(active)) \in Int
    BY <1>2, WordsOfFrame DEF Frames
  <2> QED
    BY <2>1, <2>2
<1>10. ASSUME NEW i \in 6 .. n - 1
       PROVE  mem'[rsp' + 8 * (i - 6)] = args'[i + 1]
  <2> DEFINE a == PushedAt(sp, n, i)
             c == CHOOSE j \in 6 .. n - 1 : PushedAt(sp, n, j) = a
  <2>1. a = rsp' + 8 * (i - 6)
    BY <1>1, <1>2, <1>4 DEF PushedAt
  <2>2. a \in Words
    <3>1. a \in Int /\ a < rsp
      BY <1>1, <1>2, <1>7, <2>1 DEF PushedAt
    <3>2. a = rsp - Padding(n) - 8 * (n - i)
      BY <1>1, <1>2 DEF PushedAt
    <3>3. a % 8 = 0
      BY <1>1, <1>2, <1>9, <3>2
    <3>4. a >= rsp - Release(n) /\ a <= 0
      BY <1>1, <1>2, <1>9, <3>1, <3>2
    <3> HIDE DEF a
    <3>5. Bottom(b, Len(active)) - Release(n) - 16 <= a
      BY <1>1, <1>2, <1>9, <3>1, <3>4
    <3> QED
      BY <1>4, <3>1, <3>3, <3>4, <3>5, RoomForCall DEF Frames
  <2>3. c \in 6 .. n - 1 /\ PushedAt(sp, n, c) = PushedAt(sp, n, i)
    OBVIOUS
  <2>4. c = i
    <3> HIDE DEF c
    <3>1. c \in Nat /\ i \in Nat /\ sp \in Int
      BY <1>1, <1>2, <2>3
    <3> HIDE DEF sp
    <3> QED
      BY <1>1, <2>3, <3>1, SlotsDiffer
  <2>5. a \in places
    OBVIOUS
  <2>6. pushed[a] = args'[1 + c]
    BY <2>5
  <2>7. 1 + i = i + 1
    BY <1>1
  <2> HIDE DEF pushed, c, a, places
  <2> QED
    BY <1>6, <2>1, <2>2, <2>4, <2>5, <2>6, <2>7
<1> QED
  BY <1>3, <1>5, <1>6, <1>8, <1>10

\* Placing the operands of a call disturbs no active function.
LEMMA PlaceInv ==
  ASSUME CInv, NEW n \in Arities, Place(n)
  PROVE  CInv' /\ Language!Evaluate
<1>1. Shape
  BY DEF CInv
<1>2. PICK b : Frames(b)
  BY DEF CInv
<1> DEFINE d == Len(active)
<1>3. d \in Nat /\ d > 0 /\ d \in 1 .. Len(active)
  BY <1>1 DEF Shape
<1>4. n \in Counts /\ n \in Nat /\ Release(n) \in Nat
  <2>1. n \in Counts
    BY CallAssumption DEF Counts
  <2> QED
    BY <2>1, Sizes
<1>5. /\ args' = [k \in 1 .. n |-> Arg(calls + 1, k - 1)]
      /\ rsp' = rsp - Release(n)
      /\ DOMAIN mem' = Words
      /\ \A a \in Words : a >= rsp => mem'[a] = mem[a]
      /\ \A i \in 6 .. n - 1 : mem'[rsp' + 8 * (i - 6)] = args'[i + 1]
  BY <1>1, <1>2, <1>4, PlaceStores
<1>6. /\ pc = "body" /\ pc' = "call" /\ active' = active /\ rbp' = rbp /\ calls' = calls + 1
      /\ d < MaxDepth /\ calls < MaxCalls
      /\ regs' = [r \in ArgRegs |-> IF r < n THEN args'[r + 1] ELSE Junk]
  BY DEF Place
<1>7. Depth = d /\ Depth' = d
  BY <1>6 DEF Depth
<1>8. args' \in Seq(Value) /\ Len(args') = n
  <2>1. calls + 1 \in 0 .. MaxCalls
    BY <1>1, <1>6, CallAssumption DEF Shape
  <2>2. \A k \in 1 .. n : k - 1 \in 0 .. MaxParams
    BY <1>4, CallAssumption DEF Counts
  <2>3. \A k \in 1 .. n : Arg(calls + 1, k - 1) \in Value
    BY <2>1, <2>2 DEF Value
  <2> QED
    BY <1>4, <1>5, <2>3
<1>9. Shape'
  <2>1. calls' \in 0 .. MaxCalls
    BY <1>1, <1>6, CallAssumption DEF Shape
  <2> QED
    BY <1>1, <1>4, <1>5, <1>6, <1>8, <2>1 DEF Shape
<1>10. Passed'
  <2> SUFFICES ASSUME NEW i \in 0 .. n - 1
               PROVE  IF i \in ArgRegs THEN regs'[i] = args'[i + 1]
                                       ELSE mem'[Pushed' + 8 * (i - 6)] = args'[i + 1]
    BY <1>8 DEF Passed
  <2>1. Pushed' = rsp'
    BY <1>6 DEF Pushed
  <2>2. i < n
    BY <1>4
  <2>3. i \notin ArgRegs => i \in 6 .. n - 1
    BY <1>4 DEF ArgRegs
  <2> QED
    BY <1>5, <1>6, <2>1, <2>2, <2>3
<1>11. Placed(b)'
  BY <1>2, <1>6 DEF Frames, Placed, Bottom
<1>12. rsp = Bottom(b, d) /\ rbp = b[d]
  BY <1>2, <1>6 DEF Frames, Pointers
<1>13. Pointers(b)'
  BY <1>5, <1>6, <1>8, <1>12 DEF Pointers, Bottom
<1>14. /\ ActsIn(d, b, mem', active) = ActsIn(d, b, mem, active)
       /\ \A k \in 1 .. d : mem'[b[k]] = mem[b[k]]
  BY <1>1, <1>2, <1>3, <1>5, <1>12, Kept DEF Frames
<1>15. Linked(b)'
  <2> SUFFICES ASSUME NEW k \in 2 .. d PROVE mem'[b[k]] = Saved(b[k - 1])
    BY <1>7 DEF Linked
  <2>1. mem[b[k]] = Saved(b[k - 1])
    BY <1>2, <1>7 DEF Frames, Linked
  <2> QED
    BY <1>3, <1>14, <2>1
<1>16. CInv'
  BY <1>9, <1>10, <1>11, <1>13, <1>15 DEF CInv, Frames
<1>17. ActsInMemory = ActsIn(d, b, mem, active) /\ ActsInMemory' = ActsIn(d, b, mem', active)
  <2>1. ActsInMemory = ActsIn(d, b, mem, active)
    BY <1>1, <1>2, <1>7, ActsAre DEF Frames
  <2>2. ActsInMemory' = ActsIn(d, b, mem', active)
    BY <1>6, <1>7, <1>9, <1>13, <1>15, ActsAreNext
  <2> QED
    BY <2>1, <2>2
<1>18. Language!Evaluate
  <2>1. (pc = "body") = TRUE /\ (pc' = "body") = FALSE
    BY <1>6
  <2> QED
    BY <1>8, <1>14, <1>17, <2>1 DEF Language!Evaluate
<1> QED
  BY <1>16, <1>18

\* The call instruction opens the next frame, below the operands.
LEMMA CallInv ==
  ASSUME CInv, Call
  PROVE  CInv' /\ UNCHANGED Language!vars
<1>1. Shape /\ Passed
  BY DEF CInv
<1>2. PICK b : Frames(b)
  BY DEF CInv
<1> PICK d : d = Len(active)
  OBVIOUS
<1> PICK m : m = Len(args)
  OBVIOUS
<1> PICK y : y = rsp - 16
  OBVIOUS
<1> PICK c : c = Append(b, y)
  OBVIOUS
<1>3. d \in Nat /\ d > 0 /\ d \in 1 .. Len(active) /\ rsp \in Int
  BY <1>1 DEF Shape
<1>4. /\ pc = "call" /\ pc' = "entry" /\ rsp' = rsp - 8
      /\ mem' = [mem EXCEPT ![rsp - 8] = Saved(0)]
      /\ active' = Append(active, m)
      /\ rbp' = rbp /\ regs' = regs /\ args' = args /\ calls' = calls
  BY DEF Call
<1>5. m \in Counts /\ d < MaxDepth /\ active \in Seq(Counts)
  BY <1>1, <1>4 DEF Shape
<1>6. /\ Release(m) \in Nat /\ Release(m) % 8 = 0 /\ FrameBytes(m) \in Nat
      /\ 16 + FrameBytes(m) + Release(m) <= Level /\ Level \in Nat
  BY <1>5, Sizes, LevelIs
<1>7. /\ active' \in Seq(Counts) /\ Len(active') = d + 1 /\ active'[d + 1] = m
      /\ \A k \in 1 .. d : active'[k] = active[k]
  BY <1>4, <1>5, AppendedTo
<1>8. y \in Int /\ b \in Seq(Int) /\ Len(b) = d
  BY <1>2, <1>3 DEF Frames, Placed
<1>9. /\ c \in Seq(Int) /\ Len(c) = d + 1 /\ c[d + 1] = y
      /\ \A k \in 1 .. d : c[k] = b[k]
  BY <1>8, AppendedTo
<1>10. /\ rsp = Bottom(b, d) - Release(m) /\ rbp = b[d]
       /\ Bottom(b, d) \in Int /\ Bottom(b, d) % 8 = 0 /\ Bottom(b, d) <= b[d] /\ b[d] \in Int
       /\ b[d] <= 0 - 16
  <2>1. rsp = Bottom(b, d) - Release(m) /\ rbp = b[d]
    BY <1>2, <1>4 DEF Frames, Pointers
  <2>2. /\ Bottom(b, d) \in Int /\ Bottom(b, d) % 8 = 0 /\ Bottom(b, d) <= b[d] /\ b[d] \in Int
        /\ b[d] <= 0 - 16
    BY <1>1, <1>2, <1>3, WordsOfFrame DEF Frames
  <2> QED
    BY <2>1, <2>2
<1>11. /\ Bottom(c, d + 1)' = y - FrameBytes(m)
       /\ \A k \in 1 .. d : Bottom(c, k)' = Bottom(b, k)
  BY <1>7, <1>9 DEF Bottom
<1> DEFINE l == Bottom(b, d)
           R == Release(m)
           F == FrameBytes(m)
<1>12. y = l - R - 16 /\ l \in Int /\ l % 8 = 0 /\ l <= 0 - 16
  BY <1>3, <1>10
<1>13. Placed(c)'
  <2>1. y % 8 = 0 /\ y <= 0 - 16
    <3> HIDE DEF l, R
    <3>1. R \in Nat /\ R % 8 = 0
      BY <1>6 DEF R
    <3> QED
      BY <1>12, <3>1
  <2>2. 0 - (d + 1) * Level <= y - F
    <3>1. 0 - d * Level <= l
      BY <1>2, <1>3 DEF Frames, Placed
    <3>2. d * Level \in Int /\ (d + 1) * Level = d * Level + Level
      BY <1>3, <1>6
    <3>3. R \in Nat /\ F \in Nat /\ 16 + F + R <= Level /\ Level \in Nat
      BY <1>6
    <3> HIDE DEF l, R, F
    <3> QED
      BY <1>12, <3>1, <3>2, <3>3
  <2>3. \A k \in 1 .. d + 1 : /\ c[k] % 8 = 0 /\ c[k] <= 0 - 16
                              /\ 0 - k * Level <= Bottom(c, k)'
    <3> TAKE k \in 1 .. d + 1
    <3>1. CASE k = d + 1
      BY <1>9, <1>11, <2>1, <2>2, <3>1
    <3>2. CASE k # d + 1
      <4>1. k \in 1 .. d
        BY <1>3, <3>2
      <4>2. b[k] % 8 = 0 /\ b[k] <= 0 - 16 /\ 0 - k * Level <= Bottom(b, k)
        BY <1>2, <4>1 DEF Frames, Placed
      <4> QED
        BY <1>9, <1>11, <4>1, <4>2
    <3> QED
      BY <3>1, <3>2
  <2>4. \A j, k \in 1 .. d + 1 : j < k => c[k] + 16 <= Bottom(c, j)'
    <3> SUFFICES ASSUME NEW j \in 1 .. d + 1, NEW k \in 1 .. d + 1, j < k
                 PROVE  c[k] + 16 <= Bottom(c, j)'
      OBVIOUS
    <3>1. j \in 1 .. d /\ j \in Nat
      BY <1>3
    <3>2. Bottom(c, j)' = Bottom(b, j)
      BY <1>11, <3>1
    <3>3. CASE k = d + 1
      <4>1. c[k] = l - R - 16
        BY <1>9, <1>12, <3>3
      <4>2. l <= Bottom(b, j)
        <5>1. CASE j = d
          BY <1>10, <5>1
        <5>2. CASE j # d
          <6>1. j < d /\ d \in 1 .. d
            BY <1>3, <3>1, <5>2
          <6>2. b[d] + 16 <= Bottom(b, j)
            BY <1>2, <1>3, <3>1, <6>1 DEF Frames, Placed
          <6>3. Bottom(b, j) \in Int
            BY <1>1, <1>2, <3>1, WordsOfFrame DEF Frames
          <6> QED
            BY <1>10, <6>2, <6>3
        <5> QED
          BY <5>1, <5>2
      <4>3. Bottom(b, j) \in Int
        BY <1>1, <1>2, <3>1, WordsOfFrame DEF Frames
      <4>4. R \in Nat
        BY <1>6
      <4>5. l \in Int
        BY <1>12
      <4> HIDE DEF l, R
      <4>6. (l - R - 16) + 16 <= Bottom(b, j)
        BY <4>2, <4>3, <4>4, <4>5
      <4> QED
        BY <3>2, <4>1, <4>6
    <3>4. CASE k # d + 1
      <4>1. k \in 1 .. d
        BY <1>3, <3>4
      <4>2. b[k] + 16 <= Bottom(b, j)
        BY <1>2, <3>1, <4>1 DEF Frames, Placed
      <4> QED
        BY <1>9, <3>2, <4>1, <4>2
    <3> QED
      BY <3>3, <3>4
  <2>5. \A k \in 1 .. d : c[k + 1] + 16 + Release(active'[k + 1]) = Bottom(c, k)'
    <3> TAKE k \in 1 .. d
    <3>1. CASE k = d
      <4>1. Bottom(c, d)' = l /\ c[d + 1] = y /\ active'[d + 1] = m
        BY <1>3, <1>7, <1>9, <1>11
      <4>2. R \in Nat
        BY <1>6
      <4> HIDE DEF l, R
      <4>3. y + 16 + R = l
        BY <1>12, <4>2
      <4> QED
        BY <3>1, <4>1, <4>3 DEF R
    <3>2. CASE k # d
      <4>1. k \in 1 .. d - 1 /\ k + 1 \in 1 .. d
        BY <1>3, <3>2
      <4>2. b[k + 1] + 16 + Release(active[k + 1]) = Bottom(b, k)
        BY <1>2, <4>1 DEF Frames, Placed
      <4> QED
        BY <1>7, <1>9, <1>11, <4>1, <4>2
    <3> QED
      BY <3>1, <3>2
  <2>6. (d + 1) - 1 = d
    BY <1>3
  <2>7. c[1] = 0 - 16
    BY <1>2, <1>3, <1>9 DEF Frames, Placed
  <2> QED
    BY <1>7, <1>9, <2>3, <2>4, <2>5, <2>6, <2>7 DEF Placed
<1>14. y + 8 = rsp - 8 /\ (d + 1) - 1 = d
  BY <1>3
<1>15. Pointers(c)'
  <2>1. d \in 1 .. d
    BY <1>3
  <2> QED
    BY <1>4, <1>7, <1>9, <1>10, <1>14, <2>1 DEF Pointers
<1>16. Shape'
  <2>1. d + 1 \in 1 .. MaxDepth + 1
    BY <1>3, <1>5, CallAssumption
  <2>2. DOMAIN mem' = DOMAIN mem /\ rsp - 8 \in Int
    BY <1>3, <1>4
  <2> QED
    BY <1>1, <1>4, <1>7, <2>1, <2>2 DEF Shape, Arity
<1>17. \A a \in Words : a >= rsp => mem'[a] = mem[a]
  <2> SUFFICES ASSUME NEW a \in Words, a >= rsp PROVE mem'[a] = mem[a]
    OBVIOUS
  <2>1. a \in Int
    BY DEF Words
  <2>2. a # rsp - 8 /\ a \in DOMAIN mem
    BY <1>1, <1>3, <2>1 DEF Shape
  <2> QED
    BY <1>4, <2>2
<1>18. /\ ActsIn(d, b, mem', active) = ActsIn(d, b, mem, active)
       /\ \A k \in 1 .. d : mem'[b[k]] = mem[b[k]]
  <2>1. \A a \in Words : a >= Bottom(b, d) => mem'[a] = mem[a]
    <3> SUFFICES ASSUME NEW a \in Words, a >= Bottom(b, d) PROVE mem'[a] = mem[a]
      OBVIOUS
    <3>1. a \in Int
      BY DEF Words
    <3>2. a >= rsp
      BY <1>3, <1>6, <1>10, <3>1
    <3> QED
      BY <1>17, <3>2
  <2> QED
    BY <1>1, <1>2, <1>3, <2>1, Kept DEF Frames
<1>19. Depth = d /\ Depth' = d
  BY <1>3, <1>4, <1>7 DEF Depth
<1>20. Linked(c)'
  <2> SUFFICES ASSUME NEW k \in 2 .. d PROVE mem'[c[k]] = Saved(c[k - 1])
    BY <1>19 DEF Linked
  <2>1. mem[b[k]] = Saved(b[k - 1])
    BY <1>2, <1>19 DEF Frames, Linked
  <2>2. k \in 1 .. d /\ k - 1 \in 1 .. d
    BY <1>3
  <2> QED
    BY <1>9, <1>18, <2>1, <2>2
<1>21. Passed'
  <2>1. Pushed' = Pushed
    BY <1>3, <1>4 DEF Pushed
  <2>2. Pushed = rsp
    BY <1>4 DEF Pushed
  <2> SUFFICES ASSUME NEW i \in 0 .. m - 1
               PROVE  IF i \in ArgRegs THEN regs[i] = args[i + 1]
                                       ELSE mem'[rsp + 8 * (i - 6)] = args[i + 1]
    BY <1>4, <2>1, <2>2 DEF Passed
  <2>3. IF i \in ArgRegs THEN regs[i] = args[i + 1] ELSE mem[rsp + 8 * (i - 6)] = args[i + 1]
    BY <1>1, <1>4, <2>2 DEF Passed
  <2>4. CASE i \in ArgRegs
    BY <2>3, <2>4
  <2>5. CASE i \notin ArgRegs
    <3> DEFINE a == rsp + 8 * (i - 6)
    <3>1. m \in Nat /\ i \in Nat /\ i >= 6 /\ m > 6
      BY <1>5, <2>5, Sizes DEF ArgRegs
    <3>2. a \in Int /\ a >= rsp
      BY <1>3, <3>1
    <3>3. Release(m) >= 8 * (m - 6)
      <4>1. Release(m) = Padding(m) + 8 * StackArgs(m) /\ Padding(m) \in {0, 8}
        BY <1>5, Sizes
      <4>2. StackArgs(m) = m - 6
        BY <1>5, <3>1, Sizes
      <4> QED
        BY <3>1, <4>1, <4>2
    <3>4. a <= l
      <4>1. rsp = l - R /\ l \in Int /\ R \in Nat /\ R >= 8 * (m - 6)
        BY <1>6, <1>10, <3>3
      <4>2. m \in Nat /\ i \in Nat /\ i <= m - 1
        BY <1>5, <3>1
      <4> HIDE DEF l, R
      <4> QED
        BY <4>1, <4>2
    <3>5. a # rsp - 8
      BY <1>3, <3>2
    <3>6. a \in Words
      <4>1. a = l - R + 8 * (i - 6)
        BY <1>10
      <4>2. R \in Nat /\ R % 8 = 0
        BY <1>6
      <4> HIDE DEF l, R
      <4>3. a % 8 = 0
        <5>1. l \in Int /\ l % 8 = 0 /\ i \in Nat
          BY <1>12, <3>1
        <5> HIDE DEF a
        <5> QED
          BY <4>1, <4>2, <5>1
      <4> HIDE DEF a
      <4>4. l - R - 16 <= a /\ a <= 0
        BY <1>12, <3>1, <3>2, <3>4, <4>1, <4>2
      <4> QED
        BY <1>1, <1>2, <1>5, <3>2, <4>3, <4>4, RoomForCall DEF Frames, l, R
    <3> HIDE DEF a
    <3>7. mem'[a] = mem[a]
      BY <1>17, <3>2, <3>6
    <3> QED
      BY <2>3, <2>5, <3>7 DEF a
  <2> QED
    BY <2>4, <2>5
<1>22. CInv'
  BY <1>13, <1>15, <1>16, <1>20, <1>21 DEF CInv, Frames
<1>23. ActsIn(d, c, mem', active') = ActsIn(d, b, mem', active)
  BY <1>7, <1>9 DEF ActsIn
<1>24. ActsInMemory = ActsIn(d, b, mem, active)
  BY <1>1, <1>2, <1>19, ActsAre DEF Frames
<1>25. ActsInMemory' = ActsIn(d, c, mem', active')
  BY <1>15, <1>16, <1>19, <1>20, ActsAreNext
<1>26. (pc = "body") = (pc' = "body")
  BY <1>4
<1> QED
  BY <1>4, <1>18, <1>22, <1>23, <1>24, <1>25, <1>26 DEF Language!vars

\* RET and what follows the call leave one frame less, and change nothing
\* else but the object that receives the result.
LEMMA ReturnInv ==
  ASSUME CInv, Return
  PROVE  CInv' /\ Language!Return(Result(calls)) /\ Result(calls) \in Value
<1>1. Shape
  BY DEF CInv
<1>2. PICK b : Frames(b)
  BY DEF CInv
<1> PICK n : n = Len(active)
  OBVIOUS
<1> PICK d : d = n - 1
  OBVIOUS
<1> PICK c : c = SubSeq(b, 1, d)
  OBVIOUS
<1>3. /\ pc = "body" /\ n > 1 /\ pc' = "body" /\ args' = args /\ calls' = calls
      /\ rbp' = mem[rbp].addr
      /\ rsp' = rbp + 16 + Release(active[n])
      /\ active' = SubSeq(active, 1, d)
      /\ mem' = [mem EXCEPT ![ResultSlot(rbp', active[d])] = Result(calls)]
  BY DEF Return, Arity
<1>4. /\ n \in Nat /\ n > 1 /\ n \in 1 .. n /\ n <= MaxDepth + 1 /\ d \in Nat /\ d >= 1
      /\ d \in 1 .. n /\ d \in 1 .. d /\ d + 1 = n /\ d < n
      /\ \A k \in 1 .. d : k \in 1 .. n
  BY <1>1, <1>3, CallAssumption DEF Shape
<1>5. /\ b \in Seq(Int) /\ Len(b) = n /\ active \in Seq(Counts)
      /\ \A k \in 1 .. n : b[k] % 8 = 0 /\ b[k] <= 0 - 16 /\ 0 - k * Level <= Bottom(b, k)
      /\ \A j, k \in 1 .. n : j < k => b[k] + 16 <= Bottom(b, j)
      /\ \A k \in 1 .. n - 1 : b[k + 1] + 16 + Release(active[k + 1]) = Bottom(b, k)
  BY <1>1, <1>2 DEF Frames, Placed, Shape
<1>6. /\ c \in Seq(Int) /\ Len(c) = d /\ \A k \in 1 .. d : c[k] = b[k]
  BY <1>4, <1>5, LastRemoved
<1>7. /\ active' \in Seq(Counts) /\ Len(active') = d /\ \A k \in 1 .. d : active'[k] = active[k]
  BY <1>3, <1>4, <1>5, LastRemoved
<1>8. \A k \in 1 .. d : Bottom(c, k)' = Bottom(b, k)
  BY <1>6, <1>7 DEF Bottom
<1>9. Placed(c)'
  <2>1. \A k \in 1 .. d : /\ c[k] % 8 = 0 /\ c[k] <= 0 - 16
                          /\ 0 - k * Level <= Bottom(c, k)'
    BY <1>4, <1>5, <1>6, <1>8
  <2>2. \A j, k \in 1 .. d : j < k => c[k] + 16 <= Bottom(c, j)'
    BY <1>4, <1>5, <1>6, <1>8
  <2>3. \A k \in 1 .. d - 1 : c[k + 1] + 16 + Release(active'[k + 1]) = Bottom(c, k)'
    <3> TAKE k \in 1 .. d - 1
    <3>1. k \in 1 .. d /\ k + 1 \in 1 .. d /\ k \in 1 .. n - 1
      BY <1>4
    <3>2. b[k + 1] + 16 + Release(active[k + 1]) = Bottom(b, k)
      BY <1>5, <3>1
    <3> QED
      BY <1>6, <1>7, <1>8, <3>1, <3>2
  <2>4. c[1] = 0 - 16
    BY <1>2, <1>4, <1>6 DEF Frames, Placed
  <2> QED
    BY <1>6, <1>7, <2>1, <2>2, <2>3, <2>4 DEF Placed
<1>10. Depth = n /\ Depth' = d
  BY <1>3, <1>7 DEF Depth
<1>11. rbp = b[n] /\ mem[b[n]] = Saved(b[d])
  <2>1. rbp = b[n]
    BY <1>2, <1>3 DEF Frames, Pointers
  <2>2. n \in 2 .. n /\ n - 1 = d
    BY <1>4
  <2> QED
    BY <1>2, <1>10, <2>1, <2>2 DEF Frames, Linked
<1>12. rbp' = b[d]
  BY <1>3, <1>11, AddrOfSaved
<1>13. rsp' = Bottom(b, d)
  <2>1. d \in 1 .. n - 1 /\ active[d + 1] = active[n] /\ b[d + 1] = b[n]
    BY <1>4
  <2>2. b[d + 1] + 16 + Release(active[d + 1]) = Bottom(b, d)
    BY <1>5, <2>1
  <2> QED
    BY <1>3, <1>11, <2>1, <2>2
<1>14. Pointers(c)'
  <2>1. Bottom(c, d)' = Bottom(b, d) /\ c[d] = b[d]
    BY <1>4, <1>6, <1>8
  <2> QED
    BY <1>3, <1>7, <1>12, <1>13, <2>1 DEF Pointers
<1> PICK r : r = ResultSlot(b[d], active[d])
  OBVIOUS
<1>15. /\ r \in Words /\ r \in Int /\ r < b[d] /\ b[d] \in Int /\ b[d] \in Words
       /\ Bottom(b, d) \in Int /\ active[d] \in Nat
       /\ \A i \in 0 .. active[d] - 1 : ParamSlot(b[d], i) \in Words /\ r # ParamSlot(b[d], i)
  <2>1. d \in 1 .. Len(active)
    BY <1>4
  <2>2. Words \subseteq Int
    BY DEF Words
  <2>3. active[d] \in Counts /\ active[d] \in Nat
    BY <1>1, <1>2, <2>1, WordsOfFrame, Sizes DEF Frames
  <2>4. /\ r \in Words /\ r < b[d] /\ b[d] \in Int /\ b[d] \in Words /\ Bottom(b, d) \in Int
        /\ \A i \in 0 .. active[d] - 1 : ParamSlot(b[d], i) \in Words /\ r < ParamSlot(b[d], i)
    BY <1>1, <1>2, <2>1, WordsOfFrame DEF Frames
  <2>5. \A i \in 0 .. active[d] - 1 : r # ParamSlot(b[d], i)
    BY <2>2, <2>4
  <2> QED
    BY <2>2, <2>3, <2>4, <2>5
<1>16. mem' = [mem EXCEPT ![r] = Result(calls)] /\ DOMAIN mem = Words
  BY <1>1, <1>3, <1>12 DEF Shape
<1>17. \A a \in Words : a # r => mem'[a] = mem[a]
  BY <1>16
<1>18. mem'[r] = Result(calls) /\ DOMAIN mem' = Words
  BY <1>15, <1>16
<1>19. Result(calls) \in Value
  BY <1>1 DEF Value, Shape
<1>20. Shape'
  <2>1. d \in 1 .. MaxDepth + 1
    BY <1>4, CallAssumption
  <2> QED
    BY <1>1, <1>3, <1>7, <1>12, <1>13, <1>15, <1>18, <2>1 DEF Shape
<1>21. Passed'
  BY <1>3 DEF Passed
<1>22. \A k \in 1 .. d : k # d => mem'[b[k]] = mem[b[k]] /\ r < Bottom(b, k)
  <2> SUFFICES ASSUME NEW k \in 1 .. d, k # d PROVE mem'[b[k]] = mem[b[k]] /\ r < Bottom(b, k)
    OBVIOUS
  <2>1. k < d /\ k \in 1 .. n /\ k \in 1 .. Len(active)
    BY <1>4
  <2>2. b[d] + 16 <= Bottom(b, k)
    BY <1>4, <1>5, <2>1
  <2>3. b[k] \in Words /\ b[k] \in Int /\ Bottom(b, k) \in Int /\ Bottom(b, k) <= b[k]
    BY <1>1, <1>2, <2>1, WordsOfFrame DEF Frames
  <2>4. r < Bottom(b, k) /\ b[k] # r
    BY <1>15, <2>2, <2>3
  <2> QED
    BY <1>17, <2>3, <2>4
<1>23. \A k \in 1 .. d : mem'[b[k]] = mem[b[k]]
  <2>1. mem'[b[d]] = mem[b[d]]
    BY <1>15, <1>17
  <2> QED
    BY <1>22, <2>1
<1>24. Linked(c)'
  <2> SUFFICES ASSUME NEW k \in 2 .. d PROVE mem'[c[k]] = Saved(c[k - 1])
    BY <1>10 DEF Linked
  <2>1. k \in 1 .. d /\ k - 1 \in 1 .. d /\ k \in 2 .. n
    BY <1>4
  <2>2. mem[b[k]] = Saved(b[k - 1])
    BY <1>2, <1>10, <2>1 DEF Frames, Linked
  <2> QED
    BY <1>6, <1>23, <2>1, <2>2
<1>25. CInv'
  BY <1>9, <1>14, <1>20, <1>21, <1>24 DEF CInv, Frames
<1> PICK A : A = ActsIn(n, b, mem, active)
  OBVIOUS
<1> PICK B : B = ActsIn(d, b, mem', active)
  OBVIOUS
<1>26. ActsInMemory = A
  BY <1>1, <1>2, <1>10, ActsAre DEF Frames
<1>27. ActsInMemory' = B
  <2>1. ActsInMemory' = ActsIn(d, c, mem', active')
    BY <1>10, <1>14, <1>20, <1>24, ActsAreNext
  <2>2. ActsIn(d, c, mem', active') = ActsIn(d, b, mem', active)
    BY <1>6, <1>7 DEF ActsIn
  <2> QED
    BY <2>1, <2>2
<1>28. Language!Return(Result(calls))
  <2> PICK S : S = {A[k] : k \in 1 .. n}
    OBVIOUS
  <2>1. Len(A) = n /\ DOMAIN A = 1 .. n /\ Len(B) = d /\ DOMAIN B = 1 .. d
    BY <1>4, LenOfActs
  <2>2. A \in Seq(S)
    <3>1. A = [k \in 1 .. n |-> A[k]]
      BY DEF ActsIn
    <3> QED
      BY <1>4, <3>1
  <2> PICK P : P = SubSeq(A, 1, d)
    OBVIOUS
  <2>3. P \in Seq(S) /\ Len(P) = d /\ \A k \in 1 .. d : P[k] = A[k]
    BY <1>4, <2>1, <2>2, LastRemoved
  <2>4. DOMAIN P = 1 .. d
    BY <2>3, Elements
  <2>5. \A k \in 1 .. d : k # d => B[k] = A[k]
    <3> SUFFICES ASSUME NEW k \in 1 .. d, k # d PROVE B[k] = A[k]
      OBVIOUS
    <3>1. k \in 1 .. Len(active) /\ k \in 1 .. n /\ r < Bottom(b, k)
      BY <1>4, <1>22
    <3>2. /\ Bottom(b, k) \in Int
          /\ \A i \in 0 .. active[k] - 1 :
               ParamSlot(b[k], i) \in Words /\ Bottom(b, k) <= ParamSlot(b[k], i)
          /\ ResultSlot(b[k], active[k]) \in Words
          /\ Bottom(b, k) <= ResultSlot(b[k], active[k])
      BY <1>1, <1>2, <3>1, WordsOfFrame DEF Frames
    <3>3. active[k] \in Nat
      BY <1>1, <1>2, <3>1, WordsOfFrame, Sizes DEF Frames
    <3>4. \A a \in Words : Bottom(b, k) <= a => mem'[a] = mem[a]
      <4> SUFFICES ASSUME NEW a \in Words, Bottom(b, k) <= a PROVE mem'[a] = mem[a]
        OBVIOUS
      <4>1. a \in Int
        BY DEF Words
      <4>2. a # r
        BY <1>15, <3>1, <3>2, <4>1
      <4> QED
        BY <1>17, <4>2
    <3>5. \A i \in 1 .. active[k] : i - 1 \in 0 .. active[k] - 1
      BY <3>3
    <3>6. [i \in 1 .. active[k] |-> mem'[ParamSlot(b[k], i - 1)]]
            = [i \in 1 .. active[k] |-> mem[ParamSlot(b[k], i - 1)]]
      BY <3>2, <3>4, <3>5
    <3>7. mem'[ResultSlot(b[k], active[k])] = mem[ResultSlot(b[k], active[k])]
      BY <3>2, <3>4
    <3> QED
      BY <3>1, <3>6, <3>7 DEF ActsIn
  <2>6. B[d] = [A[d] EXCEPT !.result = Result(calls)]
    <3>1. \A i \in 1 .. active[d] : i - 1 \in 0 .. active[d] - 1
      BY <1>15
    <3>2. [i \in 1 .. active[d] |-> mem'[ParamSlot(b[d], i - 1)]]
            = [i \in 1 .. active[d] |-> mem[ParamSlot(b[d], i - 1)]]
      BY <1>15, <1>17, <3>1
    <3>3. A[d] = [params |-> [i \in 1 .. active[d] |-> mem[ParamSlot(b[d], i - 1)]],
                  result |-> mem[r]]
      BY <1>4 DEF ActsIn
    <3>4. B[d] = [params |-> [i \in 1 .. active[d] |-> mem'[ParamSlot(b[d], i - 1)]],
                  result |-> mem'[r]]
      BY <1>4 DEF ActsIn
    <3> PICK p : p = [i \in 1 .. active[d] |-> mem[ParamSlot(b[d], i - 1)]]
      OBVIOUS
    <3> PICK q : q = mem[r]
      OBVIOUS
    <3> PICK v : v = Result(calls)
      OBVIOUS
    <3>5. A[d] = [params |-> p, result |-> q]
      BY <3>3
    <3>6. B[d] = [params |-> p, result |-> v]
      BY <1>18, <3>2, <3>4
    <3>7. [A[d] EXCEPT !.result = v] = [params |-> p, result |-> v]
      BY ONLY <3>5
    <3> QED
      BY <3>6, <3>7
  <2>7. B = [P EXCEPT ![d].result = Result(calls)]
    <3> PICK Q : Q = [P EXCEPT ![d].result = Result(calls)]
      OBVIOUS
    <3>1. DOMAIN Q = 1 .. d /\ Q = [k \in 1 .. d |-> Q[k]]
      BY <2>4
    <3>2. \A k \in 1 .. d : Q[k] = B[k]
      BY <1>4, <2>3, <2>4, <2>5, <2>6
    <3>3. B = [k \in 1 .. d |-> B[k]]
      BY DEF ActsIn
    <3> QED
      BY <3>1, <3>2, <3>3
  <2>8. (pc = "body") = TRUE /\ (pc' = "body") = (pc = "body")
    BY <1>3
  <2>9. Len(ActsInMemory) > 1 /\ Len(ActsInMemory) - 1 = d
    BY <1>4, <1>26, <2>1
  <2> QED
    BY <1>3, <1>26, <1>27, <2>7, <2>8, <2>9 DEF Language!Return
<1> QED
  BY <1>19, <1>25, <1>28

-----------------------------------------------------------------------------

\* Every reachable state is in order, and every step is a call of the
\* language, a part of one or no step of it.
LEMMA StepInv ==
  ASSUME CInv, [Next]_vars
  PROVE  CInv' /\ [Language!Next]_Language!vars
<1>1. CASE Enter
  BY <1>1, EnterInv DEF Language!Next
<1>2. ASSUME NEW n \in Arities, Place(n)
      PROVE  CInv' /\ [Language!Next]_Language!vars
  BY <1>2, PlaceInv DEF Language!Next
<1>3. CASE Call
  BY <1>3, CallInv
<1>4. CASE Return
  BY <1>4, ReturnInv DEF Language!Next
<1>5. CASE UNCHANGED vars
  <2>1. CInv'
    BY <1>5 DEF vars, CInv, Shape, Passed, Pushed, Arity, Frames, Placed, Linked, Pointers, Bottom,
               Depth
  <2>2. UNCHANGED Language!vars
    <3>1. UNCHANGED <<pc, rbp, mem, active, args>>
      BY <1>5 DEF vars
    <3>2. Base' = Base
      BY <3>1 DEF Base, Depth
    <3> QED
      BY <3>1, <3>2 DEF Language!vars, ActsInMemory, Depth
  <2> QED
    BY <2>1, <2>2
<1> QED
  BY <1>1, <1>2, <1>3, <1>4, <1>5 DEF Next

\* The frames of the active functions are where the invariant says.
LEMMA Invariance == Spec => []CInv
<1>1. CInv /\ [Next]_vars => CInv'
  BY StepInv
<1> QED
  BY InitInv, <1>1, PTL DEF Spec

\* Whenever a function's own code runs the stack pointer is where its
\* prologue left it, however many calls it has made and with however many
\* operands: gen_asm_from_call releases exactly what it took.
THEOREM AlwaysBalanced == Spec => []StackBalanced
<1>1. CInv => StackBalanced
  <2> SUFFICES ASSUME CInv, pc = "body" PROVE rsp = rbp - FrameBytes(Arity)
    BY DEF StackBalanced
  <2>1. PICK b : Frames(b)
    BY DEF CInv
  <2> QED
    BY <2>1 DEF Frames, Pointers, Bottom, Arity
<1> QED
  BY <1>1, Invariance, PTL

\* The difference of two multiples of 16 is one.
LEMMA Sixteens ==
  ASSUME NEW x \in Int, NEW y \in Int, x % 16 = 0, y % 16 = 0
  PROVE  (x - y) % 16 = 0
<1>1. x = 16 * (x \div 16) /\ x \div 16 \in Int
  OBVIOUS
<1>2. y = 16 * (y \div 16) /\ y \div 16 \in Int
  OBVIOUS
<1>3. PICK p \in Int : x = 16 * p
  BY <1>1
<1>4. PICK q \in Int : y = 16 * q
  BY <1>2
<1>5. x - y = 16 * (p - q) /\ p - q \in Int
  BY <1>3, <1>4
<1> QED
  BY <1>5

\* What a call with an even number of operands, or with some on the stack,
\* takes of the stack is a multiple of 16.
LEMMA EvenRelease ==
  ASSUME NEW n \in Counts, EvenOrPushed(n)
  PROVE  Release(n) \in Nat /\ Release(n) % 16 = 0
<1>1. n \in Nat
  BY Sizes
<1>2. CASE n <= 6
  <2>1. StackArgs(n) = 0 /\ n % 2 = 0
    BY <1>1, <1>2 DEF StackArgs, Most, EvenOrPushed
  <2> QED
    BY <2>1 DEF Release, Padding
<1>3. CASE n > 6
  <2> DEFINE q == n \div 2
  <2>1. q \in Nat /\ (n = 2 * q \/ n = 2 * q + 1)
    BY <1>1
  <2>2. StackArgs(n) = n - 6
    BY <1>1, <1>3 DEF StackArgs, Most
  <2> HIDE DEF q
  <2>3. CASE n = 2 * q
    <3>1. n % 2 = 0
      BY <2>1, <2>3
    <3>2. Release(n) = 16 * (q - 3) /\ q - 3 \in Nat
      BY <1>3, <2>1, <2>2, <2>3, <3>1 DEF Release, Padding
    <3> QED
      BY <3>2
  <2>4. CASE n = 2 * q + 1
    <3>1. n % 2 = 1
      BY <2>1, <2>4
    <3>2. Release(n) = 16 * (q - 2) /\ q - 2 \in Nat
      BY <1>3, <2>1, <2>2, <2>4, <3>1 DEF Release, Padding
    <3> QED
      BY <3>2
  <2> QED
    BY <2>1, <2>3, <2>4
<1> QED
  BY <1>1, <1>2, <1>3

\* The frame pointers are at multiples of 16 if every active function was
\* called with such a number of operands.
LEMMA FramesAligned ==
  ASSUME Shape, NEW b, Placed(b), \A k \in DOMAIN active : EvenOrPushed(active[k])
  PROVE  \A k \in 1 .. Len(active) : b[k] \in Int /\ b[k] % 16 = 0 /\ Bottom(b, k) % 16 = 0
<1>1. \A k \in 1 .. Len(active) :
        active[k] \in Counts /\ EvenOrPushed(active[k]) /\ b[k] \in Int
  <2>1. active \in Seq(Counts) /\ DOMAIN active = 1 .. Len(active)
    BY DEF Shape
  <2>2. b \in Seq(Int) /\ Len(b) = Len(active)
    BY DEF Placed
  <2> QED
    BY <2>1, <2>2
<1>2. ASSUME NEW k \in 1 .. Len(active), b[k] % 16 = 0
      PROVE  Bottom(b, k) \in Int /\ Bottom(b, k) % 16 = 0
  <2>1. FrameBytes(active[k]) \in Int /\ FrameBytes(active[k]) % 16 = 0
    BY <1>1, Sizes
  <2>2. b[k] \in Int
    BY <1>1
  <2>3. (b[k] - FrameBytes(active[k])) % 16 = 0
    BY <1>2, <2>1, <2>2, Sixteens
  <2> QED
    BY <2>1, <2>2, <2>3 DEF Bottom
<1> DEFINE T == {k \in 1 .. Len(active) : b[k] % 16 # 0}
<1>3. T = {}
  <2> SUFFICES ASSUME T # {} PROVE FALSE
    OBVIOUS
  <2>1. T \subseteq Nat
    BY DEF Shape
  <2>2. PICK x \in T : \A y \in T : x <= y
    BY <2>1, LeastNumber
  <2>3. b[1] % 16 = 0
    BY DEF Placed
  <2>4. x # 1 /\ x \in 1 .. Len(active) /\ x \in Nat /\ x - 1 \in 1 .. Len(active) - 1
        /\ x - 1 \in 1 .. Len(active) /\ x - 1 < x
    BY <2>3 DEF Shape
  <2>5. b[x - 1] % 16 = 0
    <3>1. x - 1 \notin T
      BY <2>2, <2>4
    <3> QED
      BY <2>4, <3>1
  <2> DEFINE l == Bottom(b, x - 1)
             R == Release(active[x])
  <2>6. l \in Int /\ l % 16 = 0
    BY <1>2, <2>4, <2>5
  <2>7. R \in Int /\ R % 16 = 0
    BY <1>1, <2>4, EvenRelease
  <2>8. b[x] + 16 + R = l
    <3>1. (x - 1) + 1 = x
      BY <2>4
    <3> QED
      BY <2>4, <3>1 DEF Placed
  <2> HIDE DEF l, R
  <2>9. b[x] \in Int
    BY <1>1, <2>4
  <2>10. b[x] = (l - R) - 16
    BY <2>6, <2>7, <2>8, <2>9
  <2>11. l - R \in Int /\ (l - R) % 16 = 0
    BY <2>6, <2>7, Sixteens
  <2>12. ((l - R) - 16) % 16 = 0
    BY <2>11, Sixteens
  <2> QED
    BY <2>2, <2>10, <2>12
<1> QED
  BY <1>1, <1>2, <1>3

\* Every call instruction finds the stack pointer at a multiple of 16 if the
\* call and those it is nested in have an even number of operands or some on
\* the stack, for any numbers of parameters and any depth (x86.c:434-481,
\* x86_fix_pseudo.c:186).
THEOREM CallsAligned == Spec => []CallAlignment
<1>1. CInv => CallAlignment
  <2> SUFFICES ASSUME CInv, pc = "call", EvenOrPushed(Len(args)),
                      \A k \in DOMAIN active : EvenOrPushed(active[k])
               PROVE  rsp % 16 = 0
    BY DEF CallAlignment
  <2>1. PICK b : Frames(b)
    BY DEF CInv
  <2>2. Shape /\ Len(args) \in Counts /\ Len(active) \in 1 .. Len(active)
    BY DEF CInv, Shape
  <2> DEFINE l == Bottom(b, Len(active))
             R == Release(Len(args))
  <2>3. l \in Int /\ l % 16 = 0
    BY <2>1, <2>2, FramesAligned, WordsOfFrame DEF Frames
  <2>4. R \in Int /\ R % 16 = 0
    BY <2>2, EvenRelease
  <2>5. rsp = l - R
    BY <2>1 DEF Frames, Pointers
  <2> HIDE DEF l, R
  <2> QED
    BY <2>3, <2>4, <2>5, Sixteens
<1> QED
  BY <1>1, Invariance, PTL

\* The generated code implements the calls of the language, for any numbers
\* of parameters and any depth: a called function sees its operands as its
\* parameters, and a return changes nothing of the caller but the object
\* that receives the result.
THEOREM CallsImplemented == Spec => ImplementsCalls
<1>1. Init => Language!Init
  BY InitInv
<1>2. CInv /\ [Next]_vars => [Language!Next]_Language!vars
  BY StepInv
<1> QED
  BY <1>1, <1>2, Invariance, PTL DEF Spec, ImplementsCalls, Language!Spec

=============================================================================
