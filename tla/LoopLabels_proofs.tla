-------------------------- MODULE LoopLabels_proofs --------------------------
(***************************************************************************)
(* The label walk of loop_labeling.c, for bodies of any size and shape:    *)
(* every finished switch has exactly its own cases, each value once, every *)
(* break and continue the label of the construct it belongs to, and no     *)
(* label is given out twice.                                               *)
(*                                                                         *)
(* The walk keeps a stack and never sees where a statement stands; the     *)
(* properties speak of where it stands and never of the stack.  The        *)
(* invariant ties the two together: the stack holds the constructs around  *)
(* the next statement, an open switch has collected what stands in it so   *)
(* far, and a closed one what it will ever have.                           *)
(***************************************************************************)
EXTENDS LoopLabels, SequenceTheorems, WellFoundedInduction, TLAPS

-----------------------------------------------------------------------------

Constructs == {"loop", "switch"}

NodeSet ==
  [kind : {"loop", "switch", "break", "continue", "case", "default"},
   within : Seq(Nat), idx : Nat, brk : Nat, cont : Nat, value : Nat,
   type : SwitchTypes \cup {"none"}, cases : SUBSET Nat, dflt : Nat]

StackSet ==
  [t : {"loop"}, s : Nat, brk : Nat, cont : Nat] \cup
  [t : {"switch"}, s : Nat, brk : Nat, type : SwitchTypes, cases : SUBSET Nat, dflt : Nat]

\* what the statement that is met next stands in
Standing(st) == [k \in DOMAIN st |-> st[k].s]

\* Around, for given nodes
AroundIn(ns, n, kinds) ==
  LET w  == ns[n].within
      at == {k \in DOMAIN w : ns[w[k]].kind \in kinds}
  IN  IF at = {} THEN NoNode ELSE w[Latest(at)]

\* the statements of a kind that belong to switch n
Belonging(ns, n, kind) ==
  {m \in DOMAIN ns : ns[m].kind = kind /\ AroundIn(ns, m, {"switch"}) = n}

\* A switch n on a type has been given its cases and its default, and the
\* cases have different values of the type.
Collected(ns, n, cases, dflt, type) ==
  /\ cases = Belonging(ns, n, "case")
  /\ Belonging(ns, n, "default") = {dflt} \ {NoNode}
  /\ \A p \in cases : ns[p].value = ConvertConst(ns[p].value, type)
  /\ \A p, q \in cases : ns[p].value = ns[q].value => p = q

\* A statement stands in earlier ones.
Earlier(ns) ==
  \A n \in DOMAIN ns : \A k \in DOMAIN ns[n].within : ns[n].within[k] \in 1 .. n - 1

\* The stack is that of the constructs being walked, from the outside inwards.
Stacked(st, ns) ==
  /\ \A k \in DOMAIN st :
       /\ st[k].s \in DOMAIN ns
       /\ ns[st[k].s].kind = st[k].t
       /\ ns[st[k].s].brk = st[k].brk
       /\ st[k].t = "loop" => ns[st[k].s].cont = st[k].cont
       /\ st[k].t = "switch" => ns[st[k].s].type = st[k].type
  /\ \A j, k \in DOMAIN st : j < k => st[j].s < st[k].s

\* Open switches have collected so far, closed ones for good.
Collects(st, ns) ==
  /\ \A k \in DOMAIN st :
       st[k].t = "switch" =>
         Collected(ns, st[k].s, st[k].cases, st[k].dflt, st[k].type)
  /\ \A n \in DOMAIN ns :
       ns[n].kind = "switch" /\ (\A k \in DOMAIN st : st[k].s # n) =>
         Collected(ns, n, ns[n].cases, ns[n].dflt, ns[n].type)

\* the labels a statement marks in the code
Own(x) ==
  CASE x.kind = "loop" -> {x.brk, x.cont}
    [] x.kind = "switch" -> {x.brk}
    [] x.kind \in {"case", "default"} -> {x.idx}
    [] OTHER -> {}

\* Every label of the walk is new in the file and has one place.
GivenOnce(ns, c) ==
  /\ \A n \in DOMAIN ns :
       /\ Own(ns[n]) \subseteq Resolved + 1 .. c
       /\ ns[n].kind = "loop" => ns[n].brk # ns[n].cont
  /\ \A n, m \in DOMAIN ns : n # m => Own(ns[n]) \cap Own(ns[m]) = {}

\* A break leaves the innermost loop or switch around it, a continue goes on
\* with the innermost loop.
Jumps(ns) ==
  \A n \in DOMAIN ns :
    /\ ns[n].kind = "break" =>
         LET c == AroundIn(ns, n, Constructs) IN c \in DOMAIN ns /\ ns[n].idx = ns[c].brk
    /\ ns[n].kind = "continue" =>
         LET c == AroundIn(ns, n, {"loop"}) IN c \in DOMAIN ns /\ ns[n].idx = ns[c].cont

\* What the walk keeps: its stack, counter and nodes fit each other.
Good(st, c, ns) ==
  /\ st \in Seq(StackSet)
  /\ c \in Nat /\ Resolved <= c
  /\ ns \in Seq(NodeSet)
  /\ Earlier(ns)
  /\ Stacked(st, ns)
  /\ Collects(st, ns)
  /\ GivenOnce(ns, c)
  /\ Jumps(ns)

IInv ==
  /\ status \in {"outside", "walking", "error"}
  /\ status = "outside" => stack = << >>
  /\ Good(stack, counter, nodes)

\* The labels of the statements of a file are different from each other and
\* from those resolve.c has given out, as label_idx_counter counts them.
LabelsOnce == GivenOnce(nodes, counter)

\* break and continue have the labels of the constructs C ties them to, found
\* by looking at where they stand and not at the stack of the walk.
JumpsInnermost == Jumps(nodes)

-----------------------------------------------------------------------------

\* A set of natural numbers that is not empty has a least element.
LEMMA Least ==
  ASSUME NEW T, T \subseteq Nat, T # {}
  PROVE  \E x \in T : \A y \in T : x <= y
<1> DEFINE R == {p \in Nat \X Nat : p[1] < p[2]}
<1>1. OpToRel(<, Nat) = R
  BY DEF OpToRel
<1>2. IsWellFoundedOn(R, Nat)
  BY <1>1, NatLessThanWellFounded
<1>3. \A a, b \in Nat : a < b => <<a, b>> \in R
  OBVIOUS
<1> HIDE DEF R
<1>4. PICK x \in T : \A y \in T : ~(<<y, x>> \in R)
  BY <1>2, WFMin
<1>5. ASSUME NEW y \in T
      PROVE  x <= y
  <2>1. x \in Nat /\ y \in Nat
    OBVIOUS
  <2>2. ~(y < x)
    BY <1>3, <1>4, <2>1
  <2> QED
    BY <2>1, <2>2
<1> QED
  BY <1>5

\* The innermost of some places of a stack is one of them.
LEMMA LatestIs ==
  ASSUME NEW n \in Nat, NEW S, S \subseteq 1 .. n, S # {}
  PROVE  Latest(S) \in S /\ \A m \in S : m <= Latest(S)
<1> DEFINE T == {j \in Nat : \E k \in S : j = n - k}
<1>1. T \subseteq Nat /\ T # {}
  <2>1. PICK k \in S : TRUE
    OBVIOUS
  <2>2. n - k \in T
    OBVIOUS
  <2> QED
    BY <2>2
<1>2. PICK x \in T : \A y \in T : x <= y
  BY <1>1, Least
<1>3. PICK k \in S : x = n - k
  OBVIOUS
<1>4. \A m \in S : m <= k
  <2> TAKE m \in S
  <2>1. m \in 1 .. n /\ n - m \in Nat
    OBVIOUS
  <2>2. n - m \in T
    BY <2>1
  <2>3. x <= n - m
    BY <1>2, <2>2
  <2> QED
    BY <1>3, <2>1, <2>3
<1> QED
  BY <1>4 DEF Latest

\* The elements of a sequence.
LEMMA Elements ==
  ASSUME NEW S, NEW s \in Seq(S)
  PROVE  /\ Len(s) \in Nat /\ DOMAIN s = 1 .. Len(s)
         /\ \A n \in 1 .. Len(s) : s[n] \in S
  OBVIOUS

\* Appending leaves what was there and adds one element at the end.
LEMMA AppendedTo ==
  ASSUME NEW S, NEW s \in Seq(S), NEW x \in S
  PROVE  /\ Append(s, x) \in Seq(S)
         /\ Len(Append(s, x)) = Len(s) + 1
         /\ DOMAIN Append(s, x) = 1 .. Len(s) + 1
         /\ Append(s, x)[Len(s) + 1] = x
         /\ \A n \in 1 .. Len(s) : Append(s, x)[n] = s[n]
  OBVIOUS

\* Dropping the last element leaves the others.
LEMMA LastRemoved ==
  ASSUME NEW S, NEW s \in Seq(S), Len(s) > 0
  PROVE  /\ SubSeq(s, 1, Len(s) - 1) \in Seq(S)
         /\ DOMAIN SubSeq(s, 1, Len(s) - 1) = 1 .. Len(s) - 1
         /\ \A n \in 1 .. Len(s) - 1 : SubSeq(s, 1, Len(s) - 1)[n] = s[n]
<1> DEFINE l == Len(s) - 1
<1>1. Len(s) \in Nat /\ l \in Int /\ l >= 0 /\ \A n \in 1 .. l : s[n] \in S
  OBVIOUS
<1> HIDE DEF l
<1>2. /\ SubSeq(s, 1, l) \in Seq(S)
      /\ Len(SubSeq(s, 1, l)) = IF 1 <= l THEN l - 1 + 1 ELSE 0
      /\ \A n \in 1 .. l - 1 + 1 : SubSeq(s, 1, l)[n] = s[1 + n - 1]
  BY <1>1, SubSeqProperties
<1>3. Len(SubSeq(s, 1, l)) = l /\ \A n \in 1 .. l : SubSeq(s, 1, l)[n] = s[n]
  BY <1>1, <1>2
<1>4. DOMAIN SubSeq(s, 1, l) = 1 .. l
  BY <1>2, <1>3
<1> QED
  BY <1>2, <1>3, <1>4 DEF l

-----------------------------------------------------------------------------

\* g has the powers of 2 up to 2^n.
UpTo(g, n) ==
  /\ g \in [0 .. n -> Nat]
  /\ g[0] = 1
  /\ \A k \in 1 .. n : g[k] = 2 * g[k - 1]

\* There is one such table for every n ...
LEMMA PowersExist ==
  ASSUME NEW n \in Nat
  PROVE  \E g : UpTo(g, n)
<1> DEFINE T == {k \in Nat : ~ \E g : UpTo(g, k)}
<1> SUFFICES ASSUME T # {} PROVE FALSE
  OBVIOUS
<1>1. PICK k \in T : \A m \in T : k <= m
  <2>1. T \subseteq Nat
    OBVIOUS
  <2> HIDE DEF T
  <2> QED
    BY <2>1, Least
<1>2. UpTo([j \in 0 .. 0 |-> 1], 0)
  BY DEF UpTo
<1>3. k # 0 /\ k \in Nat
  BY <1>2
<1>4. PICK g : UpTo(g, k - 1)
  <2>1. k - 1 \in Nat /\ ~(k <= k - 1)
    BY <1>3
  <2>2. k - 1 \notin T
    BY <1>1, <2>1
  <2> QED
    BY <2>1, <2>2
<1> DEFINE h == [j \in 0 .. k |-> IF j = k THEN 2 * g[k - 1] ELSE g[j]]
<1>5. UpTo(h, k)
  <2>1. /\ g \in [0 .. k - 1 -> Nat]
        /\ g[0] = 1
        /\ \A j \in 1 .. k - 1 : g[j] = 2 * g[j - 1]
    BY <1>4 DEF UpTo
  <2>2. \A j \in 0 .. k : h[j] \in Nat
    BY <1>3, <2>1
  <2>3. h[0] = 1
    BY <1>3, <2>1
  <2>4. ASSUME NEW j \in 1 .. k PROVE h[j] = 2 * h[j - 1]
    <3>1. CASE j = k
      BY <1>3, <3>1
    <3>2. CASE j # k
      BY <1>3, <2>1, <3>2
    <3> QED
      BY <3>1, <3>2
  <2>5. h \in [0 .. k -> Nat]
    BY <2>2
  <2> HIDE DEF h
  <2> QED
    BY <2>3, <2>4, <2>5 DEF UpTo
<1> QED
  BY <1>1, <1>5

\* ... and they agree.
LEMMA PowersAgree ==
  ASSUME NEW n \in Nat, NEW m \in Nat, NEW g, UpTo(g, n), NEW h, UpTo(h, m),
         NEW i \in Nat, i <= n, i <= m
  PROVE  g[i] = h[i]
<1> DEFINE T == {k \in Nat : k <= n /\ k <= m /\ g[k] # h[k]}
<1> SUFFICES ASSUME T # {} PROVE FALSE
  OBVIOUS
<1>1. PICK k \in T : \A j \in T : k <= j
  <2>1. T \subseteq Nat
    OBVIOUS
  <2> HIDE DEF T
  <2> QED
    BY <2>1, Least
<1>2. k # 0
  BY DEF UpTo
<1>3. k - 1 \in Nat /\ ~(k <= k - 1) /\ k \in 1 .. n /\ k \in 1 .. m
  BY <1>2
<1>4. g[k - 1] = h[k - 1]
  BY <1>1, <1>3
<1> QED
  BY <1>3, <1>4 DEF UpTo

\* PowerOf2 is the function its definition describes.
LEMMA PowerDef ==
  PowerOf2 = [n \in Nat |-> IF n = 0 THEN 1 ELSE 2 * PowerOf2[n - 1]]
<1> DEFINE Is(f) == f = [n \in Nat |-> IF n = 0 THEN 1 ELSE 2 * f[n - 1]]
           Table(n) == CHOOSE g : UpTo(g, n)
           p == [n \in Nat |-> Table(n)[n]]
<1>1. \A n \in Nat : UpTo(Table(n), n)
  BY PowersExist
<1> HIDE DEF Table
<1>2. Is(p)
  <2>1. ASSUME NEW n \in Nat
        PROVE  p[n] = IF n = 0 THEN 1 ELSE 2 * p[n - 1]
    <3>1. CASE n = 0
      BY <1>1, <3>1 DEF UpTo
    <3>2. CASE n # 0
      <4>1. n - 1 \in Nat /\ n \in 1 .. n /\ n - 1 <= n /\ n - 1 <= n - 1
        BY <3>2
      <4>2. Table(n)[n] = 2 * Table(n)[n - 1]
        BY <1>1, <4>1 DEF UpTo
      <4>3. Table(n)[n - 1] = Table(n - 1)[n - 1]
        BY <1>1, <4>1, PowersAgree
      <4> QED
        BY <3>2, <4>1, <4>2, <4>3
    <3> QED
      BY <3>1, <3>2
  <2> QED
    BY <2>1
<1> HIDE DEF p
<1>3. Is(CHOOSE f : Is(f))
  BY <1>2
<1> QED
  BY <1>3 DEF PowerOf2

\* The powers of 2 are positive numbers.
LEMMA PowerIs ==
  ASSUME NEW n \in Nat
  PROVE  PowerOf2[n] \in Nat \ {0}
<1> DEFINE T == {k \in Nat : ~(PowerOf2[k] \in Nat \ {0})}
<1> SUFFICES ASSUME T # {} PROVE FALSE
  OBVIOUS
<1>1. PICK k \in T : \A m \in T : k <= m
  <2>1. T \subseteq Nat
    OBVIOUS
  <2> HIDE DEF T
  <2> QED
    BY <2>1, Least
<1>2. PowerOf2[k] = IF k = 0 THEN 1 ELSE 2 * PowerOf2[k - 1]
  <2> k \in Nat
    OBVIOUS
  <2> QED
    BY PowerDef
<1>3. k # 0 /\ k - 1 \in Nat /\ ~(k <= k - 1)
  BY <1>2
<1>4. PowerOf2[k - 1] \in Nat \ {0}
  BY <1>1, <1>3
<1> QED
  BY <1>2, <1>3, <1>4

\* The smaller power of two divides the larger.
LEMMA PowerDivides ==
  ASSUME NEW a \in Nat, NEW b \in Nat, a <= b
  PROVE  \E d \in Nat \ {0} : PowerOf2[b] = d * PowerOf2[a]
<1> DEFINE T == {k \in Nat : a <= k /\ ~ \E d \in Nat \ {0} : PowerOf2[k] = d * PowerOf2[a]}
<1> SUFFICES ASSUME T # {} PROVE FALSE
  OBVIOUS
<1>1. PICK k \in T : \A m \in T : k <= m
  <2>1. T \subseteq Nat
    OBVIOUS
  <2> HIDE DEF T
  <2> QED
    BY <2>1, Least
<1>2. PowerOf2[a] \in Nat \ {0}
  BY PowerIs
<1>3. k # a
  <2>1. PowerOf2[a] = 1 * PowerOf2[a]
    BY <1>2
  <2> QED
    BY <2>1
<1>4. k - 1 \in Nat /\ a <= k - 1 /\ ~(k <= k - 1) /\ k # 0
  BY <1>3
<1>5. PICK d \in Nat \ {0} : PowerOf2[k - 1] = d * PowerOf2[a]
  BY <1>1, <1>4
<1>6. PowerOf2[k] = 2 * PowerOf2[k - 1]
  BY <1>4, PowerDef
<1>7. PowerOf2[k] = (2 * d) * PowerOf2[a]
  BY <1>2, <1>5, <1>6
<1>8. 2 * d \in Nat \ {0}
  OBVIOUS
<1> QED
  BY <1>7, <1>8

\* The sizes of the widths are positive, and a quadword has a whole number of
\* longwords' sizes.
LEMMA Sizes ==
  /\ \A width \in {"byte", "long", "quad"} : Size[width] \in Nat \ {0}
  /\ \E d \in Nat \ {0} : Size["quad"] = d * Size["long"]
<1>1. /\ Size["byte"] = PowerOf2[ByteBits]
      /\ Size["long"] = PowerOf2[LongBits]
      /\ Size["quad"] = PowerOf2[QuadBits]
  BY DEF Size, Bits
<1>2. ByteBits \in Nat /\ LongBits \in Nat /\ QuadBits \in Nat /\ LongBits <= QuadBits
  BY WidthAssumption
<1> QED
  BY <1>1, <1>2, PowerIs, PowerDivides

\* A number between 0 and m that differs from x by a multiple of m is x % m.
LEMMA Remainder ==
  ASSUME NEW m \in Nat \ {0}, NEW k \in Int, NEW r \in 0 .. m - 1
  PROVE  (k * m + r) % m = r
<1> DEFINE x == k * m + r
           q == x \div m
           s == x % m
<1>1. k * m \in Int /\ x \in Int
  OBVIOUS
<1> HIDE DEF x
<1>2. q \in Int /\ s \in 0 .. m - 1 /\ x = m * q + s
  BY <1>1
<1>3. x = k * m + r
  BY DEF x
<1> HIDE DEF q, s
<1>4. k - q \in Int /\ (k - q) * m = s - r
  BY <1>2, <1>3
<1>5. k - q = 0
  <2> DEFINE t == k - q
  <2>1. t \in Int /\ t * m = s - r
    BY <1>4
  <2> HIDE DEF t
  <2>2. ~(t >= 1)
    <3> SUFFICES ASSUME t >= 1 PROVE FALSE
      OBVIOUS
    <3>1. t * m >= m
      BY <2>1
    <3> QED
      BY <1>2, <2>1, <3>1
  <2>3. ~(t <= -1)
    <3> SUFFICES ASSUME t <= -1 PROVE FALSE
      OBVIOUS
    <3>1. t * m <= -m
      BY <2>1
    <3> QED
      BY <1>2, <2>1, <3>1
  <2> QED
    BY <2>1, <2>2, <2>3 DEF t
<1>6. s = r
  <2>1. (k - q) * m = 0
    BY <1>5
  <2> QED
    BY <1>2, <1>4, <2>1
<1> QED
  BY <1>6 DEF x, s

\* Multiples of m do not change a remainder.
LEMMA SameRemainder ==
  ASSUME NEW m \in Nat \ {0}, NEW k \in Int, NEW x \in Int
  PROVE  (k * m + x) % m = x % m
<1> DEFINE q == x \div m
           s == x % m
<1>1. q \in Int /\ s \in 0 .. m - 1 /\ x = q * m + s
  OBVIOUS
<1> HIDE DEF q, s
<1>2. k + q \in Int /\ k * m + x = (k + q) * m + s
  BY <1>1
<1>3. ((k + q) * m + s) % m = s
  BY <1>1, <1>2, Remainder
<1> QED
  BY <1>2, <1>3 DEF s

\* A constant is converted to a natural number, and converting it again to
\* the same type does not change it.
LEMMA ConvertTwice ==
  ASSUME NEW v \in Nat, NEW t
  PROVE  /\ ConvertConst(v, t) \in Nat
         /\ ConvertConst(ConvertConst(v, t), t) = ConvertConst(v, t)
<1> DEFINE M == Size["long"]
           Q == Size["quad"]
           l == v % M
           s == IF 2 * l < M THEN l ELSE l - M
<1>1. M \in Nat \ {0} /\ Q \in Nat \ {0}
  BY Sizes
<1>2. PICK d \in Nat \ {0} : Q = d * M
  BY Sizes
<1>3. Low(v, "long") = l /\ Signed(v, "long") = s
  BY DEF Low, Signed
<1> HIDE DEF M, Q
<1>4. l \in 0 .. M - 1
  BY <1>1
<1> HIDE DEF l
<1>5. l % M = l
  <2>1. (0 * M + l) % M = l
    BY <1>1, <1>4, Remainder
  <2> QED
    BY <1>1, <1>4, <2>1
<1>6. CASE t = "uint"
  BY <1>1, <1>3, <1>4, <1>5, <1>6 DEF ConvertConst, Low, M
<1>7. CASE t = "int"
  <2> DEFINE c == s % Q
  <2>1. s \in Int /\ s % M = l
    <3>1. CASE 2 * l < M
      BY <1>4, <1>5, <3>1
    <3>2. CASE ~(2 * l < M)
      <4>1. s = (-1) * M + l
        BY <1>1, <1>4, <3>2
      <4> QED
        BY <1>1, <1>4, <4>1, Remainder
    <3> QED
      BY <3>1, <3>2
  <2> HIDE DEF s
  <2>2. c \in Nat
    BY <1>1, <2>1
  <2>3. c % M = l
    <3> DEFINE q == s \div Q
    <3>1. q \in Int /\ s = Q * q + c
      BY <1>1, <2>1
    <3> HIDE DEF q, c
    <3>2. d * q \in Int /\ s = (d * q) * M + c
      <4>1. (d * q) * M = (d * M) * q
        BY <1>1, <3>1
      <4> QED
        BY <1>1, <1>2, <3>1, <4>1
    <3>3. PICK k \in Int : s = k * M + c
      BY <3>2
    <3>4. (k * M + c) % M = c % M
      <4>1. c \in Int
        BY <2>2
      <4> QED
        BY <1>1, <4>1, SameRemainder
    <3> QED
      BY <2>1, <3>3, <3>4
  <2>4. ConvertConst(v, t) = c
    BY <1>3, <1>7 DEF ConvertConst, Low, Q
  <2>5. Signed(c, "long") = s
    BY <2>3 DEF Signed, Low, s, M
  <2>6. ConvertConst(c, t) = c
    BY <1>7, <2>5 DEF ConvertConst, Low, Q
  <2> QED
    BY <2>2, <2>4, <2>6
<1>8. CASE t # "uint" /\ t # "int"
  BY <1>8 DEF ConvertConst
<1> QED
  BY <1>6, <1>7, <1>8

-----------------------------------------------------------------------------

\* Where a statement stands depends on nothing but the kinds of what it
\* stands in.
LEMMA AroundKept ==
  ASSUME NEW ns, NEW ns2, NEW m, NEW kinds,
         ns2[m].within = ns[m].within,
         \A k \in DOMAIN ns[m].within :
           ns2[ns[m].within[k]].kind = ns[ns[m].within[k]].kind
  PROVE  AroundIn(ns2, m, kinds) = AroundIn(ns, m, kinds)
<1>1. {k \in DOMAIN ns2[m].within : ns2[ns2[m].within[k]].kind \in kinds}
        = {k \in DOMAIN ns[m].within : ns[ns[m].within[k]].kind \in kinds}
  OBVIOUS
<1> QED
  BY <1>1 DEF AroundIn

\* It is an earlier statement of one of the kinds, or none.
LEMMA AroundIs ==
  ASSUME NEW ns \in Seq(NodeSet), Earlier(ns), NEW m \in DOMAIN ns, NEW kinds
  PROVE  /\ AroundIn(ns, m, kinds) \in 0 .. m - 1
         /\ AroundIn(ns, m, kinds) # NoNode => ns[AroundIn(ns, m, kinds)].kind \in kinds
<1> DEFINE w  == ns[m].within
           at == {k \in DOMAIN w : ns[w[k]].kind \in kinds}
<1>1. m \in Nat \ {0} /\ w \in Seq(Nat)
  <2>1. m \in 1 .. Len(ns) /\ Len(ns) \in Nat /\ ns[m] \in NodeSet
    BY Elements
  <2> QED
    BY <2>1 DEF NodeSet
<1>2. \A k \in DOMAIN w : w[k] \in 1 .. m - 1
  BY DEF Earlier
<1>3. AroundIn(ns, m, kinds) = IF at = {} THEN NoNode ELSE w[Latest(at)]
  BY DEF AroundIn
<1>4. CASE at = {}
  BY <1>1, <1>3, <1>4 DEF NoNode
<1>5. CASE at # {}
  <2>1. Len(w) \in Nat /\ at \subseteq 1 .. Len(w)
    BY <1>1
  <2> HIDE DEF w
  <2>2. Latest(at) \in at
    BY <1>5, <2>1, LatestIs
  <2> QED
    BY <1>2, <1>3, <1>5, <2>2 DEF NoNode
<1> QED
  BY <1>4, <1>5

\* The next statement stands in the constructs of the stack.
LEMMA AroundNext ==
  ASSUME NEW st \in Seq(StackSet), NEW ns, NEW m, NEW kinds,
         ns[m].within = Standing(st),
         \A k \in DOMAIN st : ns[st[k].s].kind = st[k].t
  PROVE  AroundIn(ns, m, kinds)
           = LET at == {k \in DOMAIN st : st[k].t \in kinds}
             IN  IF at = {} THEN NoNode ELSE st[Latest(at)].s
<1> DEFINE at == {k \in DOMAIN st : st[k].t \in kinds}
<1>0. DOMAIN ns[m].within = DOMAIN st /\ \A k \in DOMAIN st : ns[m].within[k] = st[k].s
  BY DEF Standing
<1>1. {k \in DOMAIN ns[m].within : ns[ns[m].within[k]].kind \in kinds} = at
  BY <1>0
<1>2. AroundIn(ns, m, kinds) = IF at = {} THEN NoNode ELSE ns[m].within[Latest(at)]
  BY <1>1 DEF AroundIn
<1>3. CASE at = {}
  BY <1>2, <1>3
<1>4. CASE at # {}
  <2>1. Len(st) \in Nat /\ at \subseteq 1 .. Len(st)
    BY Elements
  <2>2. Latest(at) \in at
    BY <1>4, <2>1, LatestIs
  <2> QED
    BY <1>0, <1>2, <1>4, <2>2
<1> QED
  BY <1>3, <1>4

\* ns2 is ns with a new node x at the end: it changes nothing of the others,
\* and belongs to the innermost switch around it.
Grown(st, ns, x, ns2, new) ==
  /\ ns2 \in Seq(NodeSet) /\ DOMAIN ns = 1 .. Len(ns) /\ DOMAIN ns2 = 1 .. new
  /\ Len(ns) \in Nat /\ new = Len(ns) + 1 /\ new \notin DOMAIN ns
  /\ ns2[new] = x
  /\ \A n \in DOMAIN ns : ns2[n] = ns[n]
  /\ Earlier(ns2)
  /\ \A m \in DOMAIN ns : \A kinds : AroundIn(ns2, m, kinds) = AroundIn(ns, m, kinds)
  /\ \A k \in DOMAIN st : ns2[st[k].s].kind = st[k].t
  /\ \A n, kind : Belonging(ns2, n, kind) =
       IF x.kind = kind /\ AroundIn(ns2, new, {"switch"}) = n
       THEN Belonging(ns, n, kind) \cup {new} ELSE Belonging(ns, n, kind)

\* That is how the walk adds nodes.
LEMMA Added ==
  ASSUME NEW st \in Seq(StackSet), NEW ns \in Seq(NodeSet), Earlier(ns), Stacked(st, ns),
         NEW x \in NodeSet, x.within = Standing(st)
  PROVE  Grown(st, ns, x, Append(ns, x), Len(ns) + 1)
<1> DEFINE new == Len(ns) + 1
           ns2 == Append(ns, x)
<1>1. /\ ns2 \in Seq(NodeSet) /\ DOMAIN ns = 1 .. Len(ns) /\ DOMAIN ns2 = 1 .. new
      /\ Len(ns) \in Nat /\ new = Len(ns) + 1 /\ new \notin DOMAIN ns
      /\ ns2[new] = x
      /\ \A n \in DOMAIN ns : ns2[n] = ns[n]
  BY AppendedTo, Elements
<1> HIDE DEF ns2, new
<1>2. \A k \in DOMAIN st : st[k].s \in DOMAIN ns /\ ns[st[k].s].kind = st[k].t
  BY DEF Stacked
<1>3. Earlier(ns2)
  <2> SUFFICES ASSUME NEW n \in DOMAIN ns2, NEW k \in DOMAIN ns2[n].within
               PROVE  ns2[n].within[k] \in 1 .. n - 1
    BY DEF Earlier
  <2>1. CASE n = new
    BY <1>1, <1>2, <2>1 DEF Standing
  <2>2. CASE n # new
    BY <1>1, <2>2 DEF Earlier
  <2> QED
    BY <2>1, <2>2
<1>4. ASSUME NEW m \in DOMAIN ns, NEW kinds
      PROVE  AroundIn(ns2, m, kinds) = AroundIn(ns, m, kinds)
  <2>1. \A k \in DOMAIN ns[m].within : ns[m].within[k] \in DOMAIN ns
    BY <1>1 DEF Earlier
  <2>2. ns2[m] = ns[m] /\ \A k \in DOMAIN ns : ns2[k] = ns[k]
    BY <1>1
  <2>3. /\ ns2[m].within = ns[m].within
        /\ \A k \in DOMAIN ns[m].within :
             ns2[ns[m].within[k]].kind = ns[ns[m].within[k]].kind
    BY <2>1, <2>2
  <2> QED
    BY ONLY <2>3, AroundKept
<1>5. \A k \in DOMAIN st : ns2[st[k].s].kind = st[k].t
  BY <1>1, <1>2
<1>6. ASSUME NEW n, NEW kind
      PROVE  Belonging(ns2, n, kind) =
               IF x.kind = kind /\ AroundIn(ns2, new, {"switch"}) = n
               THEN Belonging(ns, n, kind) \cup {new} ELSE Belonging(ns, n, kind)
  <2>1. DOMAIN ns2 = DOMAIN ns \cup {new}
    BY <1>1
  <2> QED
    BY <1>1, <1>4, <2>1 DEF Belonging
<1>7. Grown(st, ns, x, ns2, new)
  BY <1>1, <1>3, <1>4, <1>5, <1>6 DEF Grown
<1> QED
  BY <1>7 DEF ns2, new

\* A switch keeps what it has when a node is added that does not belong to it.
LEMMA CollectedStays ==
  ASSUME NEW ns, NEW ns2, NEW n, NEW cases, NEW dflt, NEW type,
         Collected(ns, n, cases, dflt, type),
         \A m \in DOMAIN ns : ns2[m] = ns[m],
         \A kind \in {"case", "default"} : Belonging(ns2, n, kind) = Belonging(ns, n, kind)
  PROVE  Collected(ns2, n, cases, dflt, type)
<1>1. cases \subseteq DOMAIN ns
  BY DEF Collected, Belonging
<1> QED
  BY <1>1 DEF Collected

\* New labels are past all the labels given out.
LEMMA GivenOnceStays ==
  ASSUME NEW ns, NEW c \in Nat, Resolved \in Nat, Resolved <= c, GivenOnce(ns, c),
         NEW x, NEW ns2, NEW new, NEW c2 \in Nat, c <= c2,
         DOMAIN ns2 = DOMAIN ns \cup {new}, new \notin DOMAIN ns, ns2[new] = x,
         \A n \in DOMAIN ns : ns2[n] = ns[n],
         Own(x) \subseteq c + 1 .. c2,
         x.kind = "loop" => x.brk # x.cont
  PROVE  GivenOnce(ns2, c2)
<1> HIDE DEF Own
<1>1. ASSUME NEW n \in DOMAIN ns2
      PROVE  /\ Own(ns2[n]) \subseteq Resolved + 1 .. c2
             /\ ns2[n].kind = "loop" => ns2[n].brk # ns2[n].cont
  <2>1. CASE n = new
    BY <2>1
  <2>2. CASE n # new
    <3>1. Own(ns[n]) \subseteq Resolved + 1 .. c /\ n \in DOMAIN ns
      BY <2>2 DEF GivenOnce
    <3>2. Resolved + 1 .. c \subseteq Resolved + 1 .. c2
      OBVIOUS
    <3> QED
      BY <2>2, <3>1, <3>2 DEF GivenOnce
  <2> QED
    BY <2>1, <2>2
<1>2. \A n \in DOMAIN ns : Own(ns[n]) \cap Own(x) = {}
  <2>1. \A n \in DOMAIN ns : Own(ns[n]) \subseteq Resolved + 1 .. c
    BY DEF GivenOnce
  <2>2. (Resolved + 1 .. c) \cap (c + 1 .. c2) = {}
    OBVIOUS
  <2> QED
    BY <2>1, <2>2
<1>3. \A n, m \in DOMAIN ns2 : n # m => Own(ns2[n]) \cap Own(ns2[m]) = {}
  BY <1>2 DEF GivenOnce
<1> QED
  BY <1>1, <1>3 DEF GivenOnce

\* Jumps met before a node was added still have their labels.
LEMMA JumpsStay ==
  ASSUME NEW ns, Jumps(ns), NEW ns2, NEW new,
         DOMAIN ns2 = DOMAIN ns \cup {new}, new \notin DOMAIN ns,
         \A n \in DOMAIN ns : ns2[n] = ns[n],
         \A m \in DOMAIN ns : \A kinds : AroundIn(ns2, m, kinds) = AroundIn(ns, m, kinds),
         ns2[new].kind = "break" =>
           LET c == AroundIn(ns2, new, Constructs) IN c \in DOMAIN ns /\ ns2[new].idx = ns[c].brk,
         ns2[new].kind = "continue" =>
           LET c == AroundIn(ns2, new, {"loop"}) IN c \in DOMAIN ns /\ ns2[new].idx = ns[c].cont
  PROVE  Jumps(ns2)
<1> SUFFICES ASSUME NEW n \in DOMAIN ns2
             PROVE  /\ ns2[n].kind = "break" =>
                         LET c == AroundIn(ns2, n, Constructs)
                         IN  c \in DOMAIN ns2 /\ ns2[n].idx = ns2[c].brk
                    /\ ns2[n].kind = "continue" =>
                         LET c == AroundIn(ns2, n, {"loop"})
                         IN  c \in DOMAIN ns2 /\ ns2[n].idx = ns2[c].cont
  BY DEF Jumps
<1>1. CASE n = new
  <2>1. PICK c, d : c = AroundIn(ns2, new, Constructs) /\ d = AroundIn(ns2, new, {"loop"})
    OBVIOUS
  <2>2. /\ ns2[n].kind = "break" => c \in DOMAIN ns2 /\ ns2[n].idx = ns2[c].brk
        /\ ns2[n].kind = "continue" => d \in DOMAIN ns2 /\ ns2[n].idx = ns2[d].cont
    BY <1>1, <2>1
  <2> QED
    BY <1>1, <2>1, <2>2
<1>2. CASE n # new
  <2>1. n \in DOMAIN ns /\ ns2[n] = ns[n]
    BY <1>2
  <2>2. /\ AroundIn(ns2, n, Constructs) = AroundIn(ns, n, Constructs)
        /\ AroundIn(ns2, n, {"loop"}) = AroundIn(ns, n, {"loop"})
    BY <2>1
  <2>3. /\ ns[n].kind = "break" =>
             LET c == AroundIn(ns, n, Constructs) IN c \in DOMAIN ns /\ ns[n].idx = ns[c].brk
        /\ ns[n].kind = "continue" =>
             LET c == AroundIn(ns, n, {"loop"}) IN c \in DOMAIN ns /\ ns[n].idx = ns[c].cont
    BY <2>1 DEF Jumps
  <2> QED
    BY <2>1, <2>2, <2>3
<1> QED
  BY <1>1, <1>2

\* A new construct has collected nothing, and the others keep what they have.
LEMMA PushGood ==
  ASSUME NEW st, NEW c, NEW ns, Good(st, c, ns), Resolved \in Nat,
         NEW c2 \in Nat, c <= c2,
         NEW x \in NodeSet, x.within = Standing(st),
         NEW f \in StackSet, x.kind = f.t, f.s = Len(ns) + 1, f.brk = x.brk,
         f.t = "loop" => f.cont = x.cont /\ x.brk # x.cont,
         f.t = "switch" => f.type = x.type /\ f.cases = {} /\ f.dflt = NoNode,
         Own(x) \subseteq c + 1 .. c2
  PROVE  Good(Append(st, f), c2, Append(ns, x))
<1> DEFINE new == Len(ns) + 1
           ns2 == Append(ns, x)
           st2 == Append(st, f)
           top == Len(st) + 1
<1>0. ns2 = Append(ns, x) /\ st2 = Append(st, f) /\ new = Len(ns) + 1 /\ top = Len(st) + 1
  OBVIOUS
<1> HIDE DEF ns2, st2, new, top
<1>1. /\ st \in Seq(StackSet) /\ c \in Nat /\ Resolved <= c /\ ns \in Seq(NodeSet)
      /\ Earlier(ns) /\ Stacked(st, ns) /\ Collects(st, ns) /\ GivenOnce(ns, c) /\ Jumps(ns)
  BY DEF Good
<1>2. Grown(st, ns, x, ns2, new)
  BY <1>0, <1>1, Added
<1>3. /\ st2 \in Seq(StackSet) /\ DOMAIN st = 1 .. Len(st) /\ DOMAIN st2 = 1 .. top
      /\ Len(st) \in Nat /\ st2[top] = f
      /\ \A k \in DOMAIN st : st2[k] = st[k]
  BY <1>0, <1>1, AppendedTo, Elements
<1>4. f.t \in {"loop", "switch"} /\ f.s = new
  BY <1>0 DEF StackSet
<1>5. /\ DOMAIN ns2 = DOMAIN ns \cup {new} /\ \A n \in DOMAIN ns : n < new
      /\ DOMAIN st2 = DOMAIN st \cup {top} /\ \A k \in DOMAIN st : k < top
      /\ top \in Nat /\ DOMAIN st2 \subseteq Nat
  BY <1>0, <1>2, <1>3 DEF Grown
<1>6. Stacked(st2, ns2)
  <2>1. ASSUME NEW k \in DOMAIN st2
        PROVE  /\ st2[k].s \in DOMAIN ns2
               /\ ns2[st2[k].s].kind = st2[k].t
               /\ ns2[st2[k].s].brk = st2[k].brk
               /\ st2[k].t = "loop" => ns2[st2[k].s].cont = st2[k].cont
               /\ st2[k].t = "switch" => ns2[st2[k].s].type = st2[k].type
    <3>1. CASE k = top
      BY <1>2, <1>3, <1>4, <1>5, <3>1 DEF Grown
    <3>2. CASE k # top
      <4>1. k \in DOMAIN st /\ st2[k] = st[k]
        BY <1>3, <1>5, <3>2
      <4>2. st[k].s \in DOMAIN ns /\ ns2[st[k].s] = ns[st[k].s]
        BY <1>1, <1>2, <4>1 DEF Stacked, Grown
      <4> QED
        BY <1>1, <1>5, <4>1, <4>2 DEF Stacked
    <3> QED
      BY <3>1, <3>2
  <2>2. ASSUME NEW j \in DOMAIN st2, NEW k \in DOMAIN st2, j < k
        PROVE  st2[j].s < st2[k].s
    <3>1. j \in DOMAIN st /\ st2[j] = st[j]
      <4>1. k <= top /\ j \in Nat
        BY <1>3, <1>5
      <4>2. j # top
        BY <1>5, <2>2, <4>1
      <4> QED
        BY <1>3, <1>5, <4>2
    <3>2. CASE k = top
      <4>1. st[j].s \in DOMAIN ns
        BY <1>1, <3>1 DEF Stacked
      <4> QED
        BY <1>3, <1>4, <1>5, <3>1, <3>2, <4>1
    <3>3. CASE k # top
      BY <1>1, <1>3, <1>5, <2>2, <3>1, <3>3 DEF Stacked
    <3> QED
      BY <3>2, <3>3
  <2> QED
    BY <2>1, <2>2 DEF Stacked
<1>7. \A n : \A kind \in {"case", "default"} : Belonging(ns2, n, kind) = Belonging(ns, n, kind)
  <2> TAKE n
  <2> TAKE kind \in {"case", "default"}
  <2>1. x.kind # kind
    BY <1>4
  <2> QED
    BY <1>2, <2>1 DEF Grown
<1>8. \A kind : Belonging(ns, new, kind) = {}
  <2> SUFFICES ASSUME NEW kind, NEW m \in DOMAIN ns PROVE AroundIn(ns, m, {"switch"}) # new
    BY DEF Belonging
  <2>1. AroundIn(ns, m, {"switch"}) \in 0 .. m - 1
    BY <1>1, AroundIs
  <2> QED
    BY <1>2, <1>5, <2>1 DEF Grown
<1>9. Collects(st2, ns2)
  <2>1. ASSUME NEW k \in DOMAIN st2, st2[k].t = "switch"
        PROVE  Collected(ns2, st2[k].s, st2[k].cases, st2[k].dflt, st2[k].type)
    <3>1. CASE k = top
      <4>1. st2[k] = f /\ f.cases = {} /\ f.dflt = NoNode
        BY <1>3, <2>1, <3>1
      <4>2. Belonging(ns2, new, "case") = {} /\ Belonging(ns2, new, "default") = {}
        BY <1>7, <1>8
      <4> QED
        BY <1>4, <4>1, <4>2 DEF Collected
    <3>2. CASE k # top
      <4>1. k \in DOMAIN st /\ st2[k] = st[k]
        BY <1>3, <1>5, <3>2
      <4>2. Collected(ns, st[k].s, st[k].cases, st[k].dflt, st[k].type)
        BY <1>1, <2>1, <4>1 DEF Collects
      <4> QED
        BY <1>2, <1>7, <4>1, <4>2, CollectedStays DEF Grown
    <3> QED
      BY <3>1, <3>2
  <2>2. ASSUME NEW n \in DOMAIN ns2, ns2[n].kind = "switch", \A k \in DOMAIN st2 : st2[k].s # n
        PROVE  Collected(ns2, n, ns2[n].cases, ns2[n].dflt, ns2[n].type)
    <3>1. n # new
      BY <1>3, <1>4, <1>5, <2>2
    <3>2. n \in DOMAIN ns /\ ns2[n] = ns[n]
      BY <1>2, <1>5, <3>1 DEF Grown
    <3>3. \A k \in DOMAIN st : st[k].s # n
      BY <1>3, <1>5, <2>2
    <3>4. Collected(ns, n, ns[n].cases, ns[n].dflt, ns[n].type)
      BY <1>1, <2>2, <3>2, <3>3 DEF Collects
    <3> QED
      BY <1>2, <1>7, <3>2, <3>4, CollectedStays DEF Grown
  <2> QED
    BY <2>1, <2>2 DEF Collects
<1>10. GivenOnce(ns2, c2)
  BY <1>1, <1>2, <1>5, GivenOnceStays DEF Grown
<1>11. Jumps(ns2)
  <2>1. ns2[new].kind # "break" /\ ns2[new].kind # "continue"
    BY <1>2, <1>4 DEF Grown
  <2> QED
    BY <1>1, <1>2, <1>5, <2>1, JumpsStay DEF Grown
<1>12. Resolved <= c2
  BY <1>1
<1>13. Good(st2, c2, ns2)
  BY <1>2, <1>3, <1>6, <1>9, <1>10, <1>11, <1>12 DEF Good, Grown
<1> QED
  BY <1>0, <1>13

\* The stack without its last construct.
LEMMA Popped ==
  ASSUME NEW st \in Seq(StackSet), st # << >>,
         NEW ns, Stacked(st, ns), NEW st2, st2 = SubSeq(st, 1, Len(st) - 1)
  PROVE  /\ Len(st) \in DOMAIN st /\ st2 \in Seq(StackSet)
         /\ DOMAIN st = DOMAIN st2 \cup {Len(st)}
         /\ \A k \in DOMAIN st2 : st2[k] = st[k] /\ k < Len(st)
         /\ Stacked(st2, ns)
<1>1. Len(st) \in Nat /\ Len(st) > 0 /\ DOMAIN st = 1 .. Len(st)
  BY Elements
<1>2. /\ st2 \in Seq(StackSet)
      /\ DOMAIN st2 = 1 .. Len(st) - 1
      /\ \A k \in 1 .. Len(st) - 1 : st2[k] = st[k]
  BY <1>1, LastRemoved
<1>3. /\ Len(st) \in DOMAIN st
      /\ DOMAIN st = DOMAIN st2 \cup {Len(st)}
      /\ \A k \in DOMAIN st2 : st2[k] = st[k] /\ k < Len(st)
  BY <1>1, <1>2
<1>4. \A k \in DOMAIN st2 : k \in DOMAIN st /\ st2[k] = st[k]
  BY <1>3
<1>5. \A j, k \in DOMAIN st2 : j < k => st2[j].s < st2[k].s
  BY <1>4 DEF Stacked
<1>6. Stacked(st2, ns)
  <2> SUFFICES ASSUME NEW k \in DOMAIN st2
               PROVE  /\ st2[k].s \in DOMAIN ns
                      /\ ns[st2[k].s].kind = st2[k].t
                      /\ ns[st2[k].s].brk = st2[k].brk
                      /\ st2[k].t = "loop" => ns[st2[k].s].cont = st2[k].cont
                      /\ st2[k].t = "switch" => ns[st2[k].s].type = st2[k].type
    BY <1>5 DEF Stacked
  <2>1. k \in DOMAIN st /\ st2[k] = st[k]
    BY <1>4
  <2> QED
    BY <2>1 DEF Stacked
<1> QED
  BY <1>2, <1>3, <1>6

\* The end of a loop closes no switch.
LEMMA PopLoopGood ==
  ASSUME NEW st, NEW c, NEW ns, Good(st, c, ns), st # << >>, st[Len(st)].t = "loop"
  PROVE  Good(SubSeq(st, 1, Len(st) - 1), c, ns)
<1> DEFINE st2 == SubSeq(st, 1, Len(st) - 1)
<1>1. /\ st \in Seq(StackSet) /\ c \in Nat /\ Resolved <= c /\ ns \in Seq(NodeSet)
      /\ Earlier(ns) /\ Stacked(st, ns) /\ Collects(st, ns) /\ GivenOnce(ns, c) /\ Jumps(ns)
  BY DEF Good
<1>2. /\ Len(st) \in DOMAIN st /\ st2 \in Seq(StackSet)
      /\ DOMAIN st = DOMAIN st2 \cup {Len(st)}
      /\ \A k \in DOMAIN st2 : st2[k] = st[k]
      /\ Stacked(st2, ns)
  BY <1>1, Popped
<1> HIDE DEF st2
<1>3. Collects(st2, ns)
  <2>1. ASSUME NEW k \in DOMAIN st2, st2[k].t = "switch"
        PROVE  Collected(ns, st2[k].s, st2[k].cases, st2[k].dflt, st2[k].type)
    BY <1>1, <1>2, <2>1 DEF Collects
  <2>2. ASSUME NEW n \in DOMAIN ns, ns[n].kind = "switch", \A k \in DOMAIN st2 : st2[k].s # n
        PROVE  Collected(ns, n, ns[n].cases, ns[n].dflt, ns[n].type)
    <3>1. st[Len(st)].s # n
      BY <1>1, <1>2, <2>2 DEF Stacked
    <3>2. \A k \in DOMAIN st : st[k].s # n
      BY <1>2, <2>2, <3>1
    <3> QED
      BY <1>1, <2>2, <3>2 DEF Collects
  <2> QED
    BY <2>1, <2>2 DEF Collects
<1>4. Good(st2, c, ns)
  BY <1>1, <1>2, <1>3 DEF Good
<1> QED
  BY <1>4 DEF st2

\* Nodes that differ in their cases and defaults stand where they stood.
LEMMA SameStanding ==
  ASSUME NEW ns \in Seq(NodeSet), Earlier(ns), NEW ns2, DOMAIN ns2 = DOMAIN ns,
         \A n \in DOMAIN ns : ns2[n].kind = ns[n].kind /\ ns2[n].within = ns[n].within
  PROVE  /\ \A m \in DOMAIN ns : \A kinds : AroundIn(ns2, m, kinds) = AroundIn(ns, m, kinds)
         /\ \A n, kind : Belonging(ns2, n, kind) = Belonging(ns, n, kind)
         /\ Earlier(ns2)
<1>1. ASSUME NEW m \in DOMAIN ns, NEW kinds
      PROVE  AroundIn(ns2, m, kinds) = AroundIn(ns, m, kinds)
  <2>1. \A k \in DOMAIN ns[m].within : ns[m].within[k] \in DOMAIN ns
    <3>1. m \in 1 .. Len(ns) /\ Len(ns) \in Nat /\ DOMAIN ns = 1 .. Len(ns)
      BY Elements
    <3>2. \A k \in DOMAIN ns[m].within : ns[m].within[k] \in 1 .. m - 1
      BY DEF Earlier
    <3> QED
      BY <3>1, <3>2
  <2>2. /\ ns2[m].within = ns[m].within
        /\ \A k \in DOMAIN ns[m].within :
             ns2[ns[m].within[k]].kind = ns[ns[m].within[k]].kind
    BY <2>1
  <2> QED
    BY ONLY <2>2, AroundKept
<1>2. ASSUME NEW n, NEW kind
      PROVE  Belonging(ns2, n, kind) = Belonging(ns, n, kind)
  BY <1>1 DEF Belonging
<1>3. Earlier(ns2)
  BY DEF Earlier
<1> QED
  BY <1>1, <1>2, <1>3

\* At its end a switch keeps what it has collected.
LEMMA PopSwitchGood ==
  ASSUME NEW st, NEW c, NEW ns, Good(st, c, ns), st # << >>,
         NEW top, top = st[Len(st)], top.t = "switch",
         NEW ns2, ns2 \in Seq(NodeSet), DOMAIN ns2 = DOMAIN ns,
         \A n \in DOMAIN ns :
           /\ ns2[n].kind = ns[n].kind /\ ns2[n].within = ns[n].within
           /\ ns2[n].idx = ns[n].idx /\ ns2[n].brk = ns[n].brk /\ ns2[n].cont = ns[n].cont
           /\ ns2[n].value = ns[n].value /\ ns2[n].type = ns[n].type
           /\ n # top.s => ns2[n].cases = ns[n].cases /\ ns2[n].dflt = ns[n].dflt,
         ns2[top.s].cases = top.cases, ns2[top.s].dflt = top.dflt
  PROVE  Good(SubSeq(st, 1, Len(st) - 1), c, ns2)
<1> DEFINE st2 == SubSeq(st, 1, Len(st) - 1)
<1>1. /\ st \in Seq(StackSet) /\ c \in Nat /\ Resolved <= c /\ ns \in Seq(NodeSet)
      /\ Earlier(ns) /\ Stacked(st, ns) /\ Collects(st, ns) /\ GivenOnce(ns, c) /\ Jumps(ns)
  BY DEF Good
<1>2. /\ Len(st) \in DOMAIN st /\ st2 \in Seq(StackSet)
      /\ DOMAIN st = DOMAIN st2 \cup {Len(st)}
      /\ \A k \in DOMAIN st2 : st2[k] = st[k]
      /\ Stacked(st2, ns)
  BY <1>1, Popped
<1> HIDE DEF st2
<1>3. /\ \A m \in DOMAIN ns : \A kinds : AroundIn(ns2, m, kinds) = AroundIn(ns, m, kinds)
      /\ \A n, kind : Belonging(ns2, n, kind) = Belonging(ns, n, kind)
      /\ Earlier(ns2)
  BY <1>1, SameStanding
<1>4. ASSUME NEW n, NEW cases, NEW dflt, NEW type, Collected(ns, n, cases, dflt, type)
      PROVE  Collected(ns2, n, cases, dflt, type)
  <2>1. cases \subseteq DOMAIN ns
    BY <1>4 DEF Collected, Belonging
  <2>2. \A p \in cases : ns2[p].value = ns[p].value
    BY <2>1
  <2> QED
    BY <1>3, <1>4, <2>2 DEF Collected
<1>5. Stacked(st2, ns2)
  BY <1>2 DEF Stacked
<1>6. Collects(st2, ns2)
  <2>1. ASSUME NEW k \in DOMAIN st2, st2[k].t = "switch"
        PROVE  Collected(ns2, st2[k].s, st2[k].cases, st2[k].dflt, st2[k].type)
    <3>1. Collected(ns, st[k].s, st[k].cases, st[k].dflt, st[k].type)
      BY <1>1, <1>2, <2>1 DEF Collects
    <3> QED
      BY <1>2, <1>4, <3>1
  <2>2. ASSUME NEW n \in DOMAIN ns2, ns2[n].kind = "switch", \A k \in DOMAIN st2 : st2[k].s # n
        PROVE  Collected(ns2, n, ns2[n].cases, ns2[n].dflt, ns2[n].type)
    <3>1. CASE n = top.s
      <4>1. Collected(ns, top.s, top.cases, top.dflt, top.type)
        BY <1>1, <1>2 DEF Collects
      <4>2. ns2[n].type = top.type
        <5>1. top.s \in DOMAIN ns /\ ns[top.s].type = top.type
          BY <1>1, <1>2 DEF Stacked
        <5> QED
          BY <3>1, <5>1
      <4> QED
        BY <1>4, <3>1, <4>1, <4>2
    <3>2. CASE n # top.s
      <4>1. \A k \in DOMAIN st : st[k].s # n
        BY <1>2, <2>2, <3>2
      <4>2. Collected(ns, n, ns[n].cases, ns[n].dflt, ns[n].type)
        BY <1>1, <2>2, <4>1 DEF Collects
      <4>3. ns2[n].cases = ns[n].cases /\ ns2[n].dflt = ns[n].dflt /\ ns2[n].type = ns[n].type
        BY <3>2
      <4> QED
        BY <1>4, <4>2, <4>3
    <3> QED
      BY <3>1, <3>2
  <2> QED
    BY <2>1, <2>2 DEF Collects
<1>7. GivenOnce(ns2, c)
  <2>1. \A n \in DOMAIN ns : Own(ns2[n]) = Own(ns[n])
    BY DEF Own
  <2> HIDE DEF Own
  <2> QED
    BY <1>1, <2>1 DEF GivenOnce
<1>8. Jumps(ns2)
  <2> SUFFICES ASSUME NEW n \in DOMAIN ns2
               PROVE  /\ ns2[n].kind = "break" =>
                           LET b == AroundIn(ns2, n, Constructs)
                           IN  b \in DOMAIN ns2 /\ ns2[n].idx = ns2[b].brk
                      /\ ns2[n].kind = "continue" =>
                           LET b == AroundIn(ns2, n, {"loop"})
                           IN  b \in DOMAIN ns2 /\ ns2[n].idx = ns2[b].cont
    BY DEF Jumps
  <2>1. /\ AroundIn(ns2, n, Constructs) = AroundIn(ns, n, Constructs)
        /\ AroundIn(ns2, n, {"loop"}) = AroundIn(ns, n, {"loop"})
    BY <1>3
  <2>2. /\ ns[n].kind = "break" =>
             LET b == AroundIn(ns, n, Constructs) IN b \in DOMAIN ns /\ ns[n].idx = ns[b].brk
        /\ ns[n].kind = "continue" =>
             LET b == AroundIn(ns, n, {"loop"}) IN b \in DOMAIN ns /\ ns[n].idx = ns[b].cont
    BY <1>1 DEF Jumps
  <2> QED
    BY <2>1, <2>2
<1>9. Good(st2, c, ns2)
  BY <1>1, <1>2, <1>3, <1>5, <1>6, <1>7, <1>8 DEF Good
<1> QED
  BY <1>9 DEF st2

\* A break or continue changes nothing but the nodes.
LEMMA JumpGood ==
  ASSUME NEW st, NEW c, NEW ns, Good(st, c, ns), Resolved \in Nat,
         NEW x \in NodeSet, x.within = Standing(st), x.kind \in {"break", "continue"},
         x.kind = "break" => st # << >> /\ x.idx = st[Len(st)].brk,
         x.kind = "continue" =>
           LET at == {k \in DOMAIN st : st[k].t = "loop"}
           IN  at # {} /\ x.idx = st[Latest(at)].cont
  PROVE  Good(st, c, Append(ns, x))
<1> DEFINE new == Len(ns) + 1
           ns2 == Append(ns, x)
<1>0. ns2 = Append(ns, x) /\ new = Len(ns) + 1
  OBVIOUS
<1> HIDE DEF ns2, new
<1>1. /\ st \in Seq(StackSet) /\ c \in Nat /\ Resolved <= c /\ ns \in Seq(NodeSet)
      /\ Earlier(ns) /\ Stacked(st, ns) /\ Collects(st, ns) /\ GivenOnce(ns, c) /\ Jumps(ns)
  BY DEF Good
<1>2. Grown(st, ns, x, ns2, new)
  BY <1>0, <1>1, Added
<1>3. /\ DOMAIN ns2 = DOMAIN ns \cup {new} /\ new \notin DOMAIN ns /\ ns2[new] = x
      /\ \A n \in DOMAIN ns : ns2[n] = ns[n]
      /\ \A m \in DOMAIN ns : \A kinds : AroundIn(ns2, m, kinds) = AroundIn(ns, m, kinds)
  BY <1>2 DEF Grown
<1>4. \A n : \A kind \in {"case", "default"} : Belonging(ns2, n, kind) = Belonging(ns, n, kind)
  <2> TAKE n
  <2> TAKE kind \in {"case", "default"}
  <2>1. x.kind # kind
    OBVIOUS
  <2> QED
    BY <1>2, <2>1 DEF Grown
<1>5. /\ Len(st) \in Nat /\ DOMAIN st = 1 .. Len(st)
      /\ \A k \in DOMAIN st : st[k].t \in {"loop", "switch"}
      /\ \A k \in DOMAIN st : st[k].s \in DOMAIN ns /\ ns[st[k].s].brk = st[k].brk
      /\ \A k \in DOMAIN st : st[k].t = "loop" => ns[st[k].s].cont = st[k].cont
  <2>1. \A k \in DOMAIN st : st[k] \in StackSet
    BY <1>1, Elements
  <2>2. \A k \in DOMAIN st : st[k].t \in {"loop", "switch"}
    BY <2>1 DEF StackSet
  <2> QED
    BY <1>1, <2>2, Elements DEF Stacked
<1>6. Stacked(st, ns2)
  <2>1. \A k \in DOMAIN st : st[k].s \in DOMAIN ns2 /\ ns2[st[k].s] = ns[st[k].s]
    BY <1>3, <1>5
  <2> QED
    BY <1>1, <2>1 DEF Stacked
<1>7. Collects(st, ns2)
  <2>1. ASSUME NEW k \in DOMAIN st, st[k].t = "switch"
        PROVE  Collected(ns2, st[k].s, st[k].cases, st[k].dflt, st[k].type)
    <3>1. Collected(ns, st[k].s, st[k].cases, st[k].dflt, st[k].type)
      BY <1>1, <2>1 DEF Collects
    <3> QED
      BY <1>3, <1>4, <3>1, CollectedStays
  <2>2. ASSUME NEW n \in DOMAIN ns2, ns2[n].kind = "switch", \A k \in DOMAIN st : st[k].s # n
        PROVE  Collected(ns2, n, ns2[n].cases, ns2[n].dflt, ns2[n].type)
    <3>1. n \in DOMAIN ns /\ ns2[n] = ns[n]
      BY <1>3, <2>2
    <3>2. Collected(ns, n, ns[n].cases, ns[n].dflt, ns[n].type)
      BY <1>1, <2>2, <3>1 DEF Collects
    <3> QED
      BY <1>3, <1>4, <3>1, <3>2, CollectedStays
  <2> QED
    BY <2>1, <2>2 DEF Collects
<1>8. GivenOnce(ns2, c)
  <2>1. Own(x) = {} /\ x.kind # "loop"
    BY DEF Own
  <2>2. Own(x) \subseteq c + 1 .. c /\ c <= c
    BY <1>1, <2>1
  <2> QED
    BY ONLY <1>1, <1>3, <2>1, <2>2, Resolved \in Nat, GivenOnceStays
<1>9. Jumps(ns2)
  <2>1. \A kinds : AroundIn(ns2, new, kinds)
                     = LET at == {k \in DOMAIN st : st[k].t \in kinds}
                       IN  IF at = {} THEN NoNode ELSE st[Latest(at)].s
    <3>1. ns2[new].within = Standing(st) /\ \A k \in DOMAIN st : ns2[st[k].s].kind = st[k].t
      BY <1>2 DEF Grown
    <3> QED
      BY <1>1, <3>1, AroundNext
  <2>2. ASSUME x.kind = "break"
        PROVE  LET b == AroundIn(ns2, new, Constructs)
               IN  b \in DOMAIN ns /\ ns2[new].idx = ns[b].brk
    <3> DEFINE at == {k \in DOMAIN st : st[k].t \in Constructs}
    <3>1. at = 1 .. Len(st)
      BY <1>5 DEF Constructs
    <3>2. Len(st) > 0
      BY <1>1, <1>5, <2>2
    <3>3. Latest(at) = Len(st)
      <4>1. at \subseteq 1 .. Len(st) /\ at # {} /\ Len(st) \in at
        BY <1>5, <3>1, <3>2
      <4> HIDE DEF at
      <4>2. Latest(at) \in at /\ Len(st) <= Latest(at)
        BY <1>5, <4>1, LatestIs
      <4>3. Latest(at) \in 1 .. Len(st)
        BY <4>1, <4>2
      <4> QED
        BY <1>5, <4>2, <4>3
    <3>4. AroundIn(ns2, new, Constructs) = st[Len(st)].s
      <4>1. at # {}
        BY <1>5, <3>1, <3>2
      <4> QED
        BY <2>1, <3>3, <4>1
    <3> QED
      BY <1>3, <1>5, <2>2, <3>2, <3>4
  <2>3. ASSUME x.kind = "continue"
        PROVE  LET b == AroundIn(ns2, new, {"loop"})
               IN  b \in DOMAIN ns /\ ns2[new].idx = ns[b].cont
    <3> DEFINE at == {k \in DOMAIN st : st[k].t = "loop"}
    <3>1. at = {k \in DOMAIN st : st[k].t \in {"loop"}}
      OBVIOUS
    <3>2. at # {} /\ x.idx = st[Latest(at)].cont /\ at \subseteq 1 .. Len(st)
      BY <1>5, <2>3
    <3>3. AroundIn(ns2, new, {"loop"}) = st[Latest(at)].s
      BY <2>1, <3>1, <3>2
    <3>4. Latest(at) \in at
      <4> HIDE DEF at
      <4> QED
        BY <1>5, <3>2, LatestIs
    <3> QED
      BY <1>3, <1>5, <3>2, <3>3, <3>4
  <2> QED
    BY <1>1, <1>3, <2>2, <2>3, JumpsStay
<1>10. Good(st, c, ns2)
  BY <1>1, <1>2, <1>6, <1>7, <1>8, <1>9 DEF Good, Grown
<1> QED
  BY <1>0, <1>10

\* A case or default goes to the innermost switch, which has none like it.
LEMMA LabelGood ==
  ASSUME NEW st, NEW c, NEW ns, Good(st, c, ns), Resolved \in Nat,
         NEW x \in NodeSet, x.within = Standing(st), x.kind \in {"case", "default"},
         x.idx = c + 1,
         NEW j \in DOMAIN st, st[j].t = "switch",
         \A k \in DOMAIN st : st[k].t = "switch" => k <= j,
         NEW st2 \in Seq(StackSet), DOMAIN st2 = DOMAIN st,
         \A k \in DOMAIN st : k # j => st2[k] = st[k],
         st2[j].t = "switch", st2[j].s = st[j].s, st2[j].brk = st[j].brk,
         st2[j].type = st[j].type,
         x.kind = "case" =>
           /\ st2[j].cases = st[j].cases \cup {Len(ns) + 1}
           /\ st2[j].dflt = st[j].dflt
           /\ x.value = ConvertConst(x.value, st[j].type)
           /\ \A n \in st[j].cases : ns[n].value # x.value,
         x.kind = "default" =>
           /\ st2[j].cases = st[j].cases
           /\ st[j].dflt = NoNode
           /\ st2[j].dflt = Len(ns) + 1
  PROVE  Good(st2, c + 1, Append(ns, x))
<1> DEFINE new == Len(ns) + 1
           ns2 == Append(ns, x)
<1>0. ns2 = Append(ns, x) /\ new = Len(ns) + 1
  OBVIOUS
<1> HIDE DEF ns2, new
<1>1. /\ st \in Seq(StackSet) /\ c \in Nat /\ Resolved <= c /\ ns \in Seq(NodeSet)
      /\ Earlier(ns) /\ Stacked(st, ns) /\ Collects(st, ns) /\ GivenOnce(ns, c) /\ Jumps(ns)
  BY DEF Good
<1>2. Grown(st, ns, x, ns2, new)
  BY <1>0, <1>1, Added
<1>3. /\ DOMAIN ns2 = DOMAIN ns \cup {new} /\ new \notin DOMAIN ns /\ ns2[new] = x
      /\ \A n \in DOMAIN ns : ns2[n] = ns[n]
      /\ \A m \in DOMAIN ns : \A kinds : AroundIn(ns2, m, kinds) = AroundIn(ns, m, kinds)
      /\ new \in Nat \ {0}
  BY <1>2 DEF Grown
<1>4. /\ Len(st) \in Nat /\ DOMAIN st = 1 .. Len(st)
      /\ \A k \in DOMAIN st : st[k].s \in DOMAIN ns
  BY <1>1, Elements DEF Stacked
<1>5. AroundIn(ns2, new, {"switch"}) = st[j].s
  <2>0. \A kinds : AroundIn(ns2, new, kinds)
                     = LET at == {k \in DOMAIN st : st[k].t \in kinds}
                       IN  IF at = {} THEN NoNode ELSE st[Latest(at)].s
    <3>1. ns2[new].within = Standing(st) /\ \A k \in DOMAIN st : ns2[st[k].s].kind = st[k].t
      BY <1>2 DEF Grown
    <3> QED
      BY <1>1, <3>1, AroundNext
  <2> DEFINE at == {k \in DOMAIN st : st[k].t \in {"switch"}}
  <2>1. j \in at /\ at \subseteq 1 .. Len(st) /\ \A k \in at : k <= j
    BY <1>4
  <2>2. AroundIn(ns2, new, {"switch"}) = IF at = {} THEN NoNode ELSE st[Latest(at)].s
    BY <2>0
  <2> HIDE DEF at
  <2>3. Latest(at) \in at /\ j <= Latest(at)
    BY <1>4, <2>1, LatestIs
  <2>4. Latest(at) = j
    <3>1. Latest(at) \in 1 .. Len(st) /\ Latest(at) <= j /\ j \in 1 .. Len(st)
      BY <2>1, <2>3
    <3> QED
      BY <1>4, <2>3, <3>1
  <2> QED
    BY <2>1, <2>2, <2>4
<1>6. \A n, kind : Belonging(ns2, n, kind) =
        IF x.kind = kind /\ st[j].s = n
        THEN Belonging(ns, n, kind) \cup {new} ELSE Belonging(ns, n, kind)
  BY <1>2, <1>5 DEF Grown
<1>7. \A k \in DOMAIN st : k # j => st[k].s # st[j].s
  <2> SUFFICES ASSUME NEW k \in DOMAIN st, k # j PROVE st[k].s # st[j].s
    OBVIOUS
  <2>1. \A m \in DOMAIN st : st[m].s \in Nat
    <3>1. DOMAIN ns \subseteq Nat
      BY <1>1
    <3> QED
      BY <1>4, <3>1
  <2>2. k < j \/ j < k
    BY <1>4
  <2>3. st[k].s < st[j].s \/ st[j].s < st[k].s
    BY <1>1, <2>2 DEF Stacked
  <2> QED
    BY <2>1, <2>3
<1>8. Stacked(st2, ns2)
  <2>1. \A k \in DOMAIN st : ns2[st[k].s] = ns[st[k].s] /\ st[k].s \in DOMAIN ns2
    BY <1>3, <1>4
  <2>2. ASSUME NEW k \in DOMAIN st2
        PROVE  /\ st2[k].s = st[k].s /\ st2[k].t = st[k].t /\ st2[k].brk = st[k].brk
               /\ st2[k].t = "loop" => st2[k].cont = st[k].cont
               /\ st2[k].t = "switch" => st2[k].type = st[k].type
    BY st2[j].t = "switch"
  <2>3. ASSUME NEW k \in DOMAIN st2
        PROVE  /\ st2[k].s \in DOMAIN ns2
               /\ ns2[st2[k].s].kind = st2[k].t
               /\ ns2[st2[k].s].brk = st2[k].brk
               /\ st2[k].t = "loop" => ns2[st2[k].s].cont = st2[k].cont
               /\ st2[k].t = "switch" => ns2[st2[k].s].type = st2[k].type
    <3>1. /\ ns[st[k].s].kind = st[k].t
          /\ ns[st[k].s].brk = st[k].brk
          /\ st[k].t = "loop" => ns[st[k].s].cont = st[k].cont
          /\ st[k].t = "switch" => ns[st[k].s].type = st[k].type
      BY <1>1 DEF Stacked
    <3> QED
      BY <2>1, <2>2, <3>1
  <2>4. \A i, k \in DOMAIN st2 : i < k => st2[i].s < st2[k].s
    BY <1>1, <2>2 DEF Stacked
  <2> QED
    BY <2>3, <2>4 DEF Stacked
<1>9. Collects(st2, ns2)
  <2>1. ASSUME NEW k \in DOMAIN st2, st2[k].t = "switch"
        PROVE  Collected(ns2, st2[k].s, st2[k].cases, st2[k].dflt, st2[k].type)
    <3>1. CASE k = j
      <4> DEFINE s == st[j].s
      <4>1. Collected(ns, s, st[j].cases, st[j].dflt, st[j].type)
        BY <1>1, <3>1 DEF Collects
      <4>2. /\ st[j].cases \subseteq DOMAIN ns
            /\ \A n \in st[j].cases : ns2[n] = ns[n]
        BY <1>3, <4>1 DEF Collected, Belonging
      <4>3. CASE x.kind = "case"
        <5>1. /\ st2[j].cases = st[j].cases \cup {new} /\ st2[j].dflt = st[j].dflt
              /\ Belonging(ns2, s, "case") = Belonging(ns, s, "case") \cup {new}
              /\ Belonging(ns2, s, "default") = Belonging(ns, s, "default")
          BY <1>0, <1>6, <4>3
        <5>2. \A p \in st2[j].cases : ns2[p].value = ConvertConst(ns2[p].value, st[j].type)
          BY <1>3, <4>1, <4>2, <4>3, <5>1 DEF Collected
        <5>3. \A p, q \in st2[j].cases : ns2[p].value = ns2[q].value => p = q
          BY <1>3, <4>1, <4>2, <4>3, <5>1 DEF Collected
        <5>4. Collected(ns2, s, st2[j].cases, st2[j].dflt, st[j].type)
          BY <4>1, <5>1, <5>2, <5>3 DEF Collected
        <5> QED
          BY <3>1, <5>4
      <4>4. CASE x.kind = "default"
        <5>1. /\ st2[j].cases = st[j].cases /\ st[j].dflt = NoNode /\ st2[j].dflt = new
              /\ Belonging(ns2, s, "case") = Belonging(ns, s, "case")
              /\ Belonging(ns2, s, "default") = Belonging(ns, s, "default") \cup {new}
          BY <1>0, <1>6, <4>4
        <5>2. Belonging(ns2, s, "default") = {new} \ {NoNode}
          BY <1>3, <4>1, <5>1 DEF Collected, NoNode
        <5>3. Collected(ns2, s, st2[j].cases, st2[j].dflt, st[j].type)
          BY <4>1, <4>2, <5>1, <5>2 DEF Collected
        <5> QED
          BY <3>1, <5>3
      <4> QED
        BY <4>3, <4>4
    <3>2. CASE k # j
      <4>1. st2[k] = st[k] /\ st[k].s # st[j].s
        BY <1>7, <3>2
      <4>2. Collected(ns, st[k].s, st[k].cases, st[k].dflt, st[k].type)
        BY <1>1, <2>1, <4>1 DEF Collects
      <4>3. \A kind : Belonging(ns2, st[k].s, kind) = Belonging(ns, st[k].s, kind)
        BY <1>6, <4>1
      <4> QED
        BY <1>3, <4>1, <4>2, <4>3, CollectedStays
    <3> QED
      BY <3>1, <3>2
  <2>2. ASSUME NEW n \in DOMAIN ns2, ns2[n].kind = "switch", \A k \in DOMAIN st2 : st2[k].s # n
        PROVE  Collected(ns2, n, ns2[n].cases, ns2[n].dflt, ns2[n].type)
    <3>1. n \in DOMAIN ns /\ ns2[n] = ns[n]
      BY <1>3, <2>2
    <3>2. \A k \in DOMAIN st : st[k].s # n
      BY <2>2
    <3>3. Collected(ns, n, ns[n].cases, ns[n].dflt, ns[n].type)
      BY <1>1, <2>2, <3>1, <3>2 DEF Collects
    <3>4. \A kind : Belonging(ns2, n, kind) = Belonging(ns, n, kind)
      BY <1>6, <3>2
    <3> QED
      BY <1>3, <3>1, <3>3, <3>4, CollectedStays
  <2> QED
    BY <2>1, <2>2 DEF Collects
<1>10. GivenOnce(ns2, c + 1)
  <2>1. Own(x) = {c + 1} /\ x.kind # "loop"
    BY DEF Own
  <2>2. Own(x) \subseteq c + 1 .. c + 1 /\ c <= c + 1 /\ c + 1 \in Nat
    BY <1>1, <2>1
  <2> QED
    BY ONLY <1>1, <1>3, <2>1, <2>2, Resolved \in Nat, GivenOnceStays
<1>11. Jumps(ns2)
  <2>1. ns2[new].kind # "break" /\ ns2[new].kind # "continue"
    BY <1>3
  <2> QED
    BY <1>1, <1>3, <2>1, JumpsStay
<1>12. c + 1 \in Nat /\ Resolved <= c + 1
  BY <1>1
<1>13. Good(st2, c + 1, ns2)
  BY <1>2, <1>8, <1>9, <1>10, <1>11, <1>12 DEF Good, Grown
<1> QED
  BY <1>0, <1>13

-----------------------------------------------------------------------------

Kinds == {"loop", "switch", "break", "continue", "case", "default"}

\* x is a node of a kind with labels, made where the walk stands.
Made(x, kind, idx, brk, cont) ==
  /\ x \in NodeSet
  /\ x.within = Standing(stack)
  /\ x.kind = kind /\ x.idx = idx /\ x.brk = brk /\ x.cont = cont

\* The node of a statement that is met ...
LEMMA NodeMade ==
  ASSUME stack \in Seq(StackSet), NEW kind \in Kinds,
         NEW idx \in Nat, NEW brk \in Nat, NEW cont \in Nat,
         NEW x, x = Node(kind, idx, brk, cont)
  PROVE  Made(x, kind, idx, brk, cont)
<1>1. Standing(stack) \in Seq(Nat)
  <2>1. \A k \in 1 .. Len(stack) : stack[k] \in StackSet
    BY Elements
  <2>2. \A k \in 1 .. Len(stack) : stack[k].s \in Nat
    BY <2>1 DEF StackSet
  <2>3. DOMAIN stack = 1 .. Len(stack) /\ Len(stack) \in Nat
    BY Elements
  <2> QED
    BY <2>2, <2>3 DEF Standing
<1>2. PICK w \in Seq(Nat) : w = Standing(stack)
  BY <1>1
<1>3. x = [kind |-> kind, within |-> w, idx |-> idx, brk |-> brk, cont |-> cont,
           value |-> 0, type |-> "none", cases |-> {}, dflt |-> 0]
  BY <1>2 DEF Node, Standing, NoNode
<1>4. x \in NodeSet
  BY <1>3 DEF NodeSet, Kinds
<1> QED
  BY <1>2, <1>3, <1>4 DEF Made

\* ... is given the type of its condition, if it is a switch ...
LEMMA TypeMade ==
  ASSUME NEW kind, NEW idx, NEW brk, NEW cont, NEW x, Made(x, kind, idx, brk, cont),
         NEW type \in SwitchTypes, NEW y, y = [x EXCEPT !.type = type]
  PROVE  Made(y, kind, idx, brk, cont) /\ y.type = type
BY DEF Made, NodeSet

\* ... and its value, if it is a case.
LEMMA ValueMade ==
  ASSUME NEW kind, NEW idx, NEW brk, NEW cont, NEW x, Made(x, kind, idx, brk, cont),
         NEW v \in Nat, NEW y, y = [x EXCEPT !.value = v]
  PROVE  Made(y, kind, idx, brk, cont) /\ y.value = v
BY DEF Made, NodeSet

\* The walk starts with nothing to keep.
LEMMA InitIInv == Init => IInv
<1> SUFFICES ASSUME Init PROVE IInv
  OBVIOUS
<1>1. /\ stack = << >> /\ nodes = << >> /\ status = "outside" /\ counter = Resolved
      /\ Resolved \in Nat
  BY NumbersAssumption DEF Init
<1>2. DOMAIN stack = {} /\ DOMAIN nodes = {} /\ stack \in Seq(StackSet) /\ nodes \in Seq(NodeSet)
  BY <1>1
<1>3. Earlier(nodes) /\ Stacked(stack, nodes) /\ Jumps(nodes) /\ GivenOnce(nodes, counter)
  BY <1>2 DEF Earlier, Stacked, Jumps, GivenOnce
<1>4. Collects(stack, nodes)
  BY <1>2 DEF Collects
<1> QED
  BY <1>1, <1>2, <1>3, <1>4 DEF IInv, Good

\* what the invariant says of the numbers of the walk
Numbers ==
  /\ stack \in Seq(StackSet)
  /\ Resolved \in Nat /\ counter \in Nat /\ Len(nodes) \in Nat
  /\ Good(stack, counter, nodes)

\* The invariant has these numbers in it.
LEMMA NumbersKept ==
  ASSUME IInv
  PROVE  Numbers
<1>1. Good(stack, counter, nodes)
  BY DEF IInv
<1>2. stack \in Seq(StackSet) /\ counter \in Nat /\ nodes \in Seq(NodeSet)
  BY <1>1 DEF Good
<1>3. Len(nodes) \in Nat
  BY <1>2, Elements
<1> QED
  BY <1>1, <1>2, <1>3, NumbersAssumption DEF Numbers

\* Walking into a loop ...
LEMMA EnterLoopIInv ==
  ASSUME IInv, EnterLoop
  PROVE  IInv'
<1>1. Numbers
  BY NumbersKept
<1>2. PICK x : x = Node("loop", 0, counter + 1, counter + 2)
  OBVIOUS
<1>3. PICK f : f = Loop(Len(nodes) + 1, counter + 1, counter + 2)
  OBVIOUS
<1>4. /\ x \in NodeSet /\ x.within = Standing(stack) /\ x.kind = "loop"
      /\ x.brk = counter + 1 /\ x.cont = counter + 2
  <2>1. "loop" \in Kinds /\ 0 \in Nat /\ counter + 1 \in Nat /\ counter + 2 \in Nat
        /\ stack \in Seq(StackSet)
    BY <1>1 DEF Numbers, Kinds
  <2>2. Made(x, "loop", 0, counter + 1, counter + 2)
    BY <1>2, <2>1, NodeMade
  <2> QED
    BY <2>2 DEF Made
<1>5. /\ f \in StackSet /\ f.t = "loop" /\ f.s = Len(nodes) + 1
      /\ f.brk = counter + 1 /\ f.cont = counter + 2
  BY <1>1, <1>3 DEF Loop, StackSet, Numbers
<1>6. Own(x) \subseteq counter + 1 .. counter + 2 /\ counter <= counter + 2 /\ counter + 2 \in Nat
      /\ x.brk # x.cont
  BY <1>1, <1>4 DEF Own, Numbers
<1>7. Good(Append(stack, f), counter + 2, Append(nodes, x))
  BY <1>1, <1>4, <1>5, <1>6, PushGood DEF Numbers
<1>8. /\ status = "walking" /\ status' = status /\ counter' = counter + 2
      /\ stack' = Append(stack, f) /\ nodes' = Append(nodes, x)
  BY <1>2, <1>3 DEF EnterLoop, New
<1> QED
  BY <1>7, <1>8 DEF IInv

\* ... and into a switch.
LEMMA EnterSwitchIInv ==
  ASSUME IInv, NEW type \in SwitchTypes, EnterSwitch(type)
  PROVE  IInv'
<1>1. Numbers
  BY NumbersKept
<1>2. PICK y : y = Node("switch", 0, counter + 1, 0)
  OBVIOUS
<1>3. PICK x : x = [y EXCEPT !.type = type]
  OBVIOUS
<1>4. PICK f : f = Switch(Len(nodes) + 1, counter + 1, type)
  OBVIOUS
<1>5. /\ x \in NodeSet /\ x.within = Standing(stack) /\ x.kind = "switch"
      /\ x.brk = counter + 1 /\ x.type = type
  <2>1. Made(x, "switch", 0, counter + 1, 0) /\ x.type = type
    <3>1. "switch" \in Kinds /\ 0 \in Nat /\ counter + 1 \in Nat /\ stack \in Seq(StackSet)
      BY <1>1 DEF Numbers, Kinds
    <3>2. Made(y, "switch", 0, counter + 1, 0)
      BY ONLY <1>2, <3>1, NodeMade
    <3> QED
      BY ONLY <1>3, <3>2, type \in SwitchTypes, TypeMade
  <2> QED
    BY <2>1 DEF Made
<1>6. /\ f \in StackSet /\ f.t = "switch" /\ f.s = Len(nodes) + 1
      /\ f.brk = counter + 1 /\ f.type = type /\ f.cases = {} /\ f.dflt = NoNode
  BY <1>1, <1>4 DEF Switch, StackSet, Numbers, NoNode
<1>7. Own(x) \subseteq counter + 1 .. counter + 1 /\ counter <= counter + 1 /\ counter + 1 \in Nat
  BY <1>1, <1>5 DEF Own, Numbers
<1>8. Good(Append(stack, f), counter + 1, Append(nodes, x))
  BY <1>1, <1>5, <1>6, <1>7, PushGood DEF Numbers
<1>9. /\ status = "walking" /\ status' = status /\ counter' = counter + 1
      /\ stack' = Append(stack, f) /\ nodes' = Append(nodes, x)
  BY <1>2, <1>3, <1>4 DEF EnterSwitch, New
<1> QED
  BY <1>8, <1>9 DEF IInv

\* Walking out of a loop ...
LEMMA ExitLoopIInv ==
  ASSUME IInv, ExitLoop
  PROVE  IInv'
<1>1. Numbers
  BY NumbersKept
<1>2. /\ status = "walking" /\ status' = status /\ counter' = counter /\ nodes' = nodes
      /\ stack # << >> /\ stack[Len(stack)].t = "loop"
      /\ stack' = SubSeq(stack, 1, Len(stack) - 1)
  BY DEF ExitLoop, Top
<1>3. Good(SubSeq(stack, 1, Len(stack) - 1), counter, nodes)
  BY <1>1, <1>2, PopLoopGood DEF Numbers
<1> QED
  BY <1>2, <1>3 DEF IInv

\* ... and out of a switch, which is given what was collected.
LEMMA ExitSwitchIInv ==
  ASSUME IInv, ExitSwitch
  PROVE  IInv'
<1>1. Numbers
  BY NumbersKept
<1>2. PICK top : top = stack[Len(stack)]
  OBVIOUS
<1>3. PICK ns2 : ns2 = [nodes EXCEPT ![top.s].cases = top.cases, ![top.s].dflt = top.dflt]
  OBVIOUS
<1>4. /\ status = "walking" /\ status' = status /\ counter' = counter /\ nodes' = ns2
      /\ stack # << >> /\ top.t = "switch"
      /\ stack' = SubSeq(stack, 1, Len(stack) - 1)
  BY <1>2, <1>3 DEF ExitSwitch, Top
<1>5. nodes \in Seq(NodeSet) /\ Stacked(stack, nodes) /\ stack \in Seq(StackSet)
  BY <1>1 DEF Numbers, Good
<1>6. Len(stack) \in DOMAIN stack /\ top \in StackSet
  BY <1>2, <1>4, <1>5
<1>7. top.s \in DOMAIN nodes
  BY <1>2, <1>5, <1>6 DEF Stacked
<1>8. top.cases \in SUBSET Nat /\ top.dflt \in Nat
  BY <1>4, <1>6 DEF StackSet
<1>9. DOMAIN nodes = 1 .. Len(nodes) /\ Len(nodes) \in Nat /\ \A n \in DOMAIN nodes : nodes[n] \in NodeSet
  BY <1>5, Elements
<1>10. DOMAIN ns2 = DOMAIN nodes
  BY <1>3
<1>11. ASSUME NEW n \in DOMAIN nodes
       PROVE  /\ ns2[n] \in NodeSet
              /\ ns2[n].kind = nodes[n].kind /\ ns2[n].within = nodes[n].within
              /\ ns2[n].idx = nodes[n].idx /\ ns2[n].brk = nodes[n].brk /\ ns2[n].cont = nodes[n].cont
              /\ ns2[n].value = nodes[n].value /\ ns2[n].type = nodes[n].type
              /\ n # top.s => ns2[n].cases = nodes[n].cases /\ ns2[n].dflt = nodes[n].dflt
              /\ n = top.s => ns2[n].cases = top.cases /\ ns2[n].dflt = top.dflt
  <2>1. PICK a : a = nodes[n]
    OBVIOUS
  <2>2. a \in NodeSet
    BY <1>9, <2>1
  <2>3. CASE n = top.s
    <3>1. ns2[n] = [a EXCEPT !.cases = top.cases, !.dflt = top.dflt]
      BY <1>3, <1>7, <2>1, <2>3
    <3> QED
      BY <1>8, <2>1, <2>2, <2>3, <3>1 DEF NodeSet
  <2>4. CASE n # top.s
    <3>1. ns2[n] = a
      BY <1>3, <2>1, <2>4
    <3> QED
      BY <2>1, <2>2, <2>4, <3>1
  <2> QED
    BY <2>3, <2>4
<1>12. ns2 \in Seq(NodeSet)
  <2>1. \E len \in Nat : DOMAIN ns2 = 1 .. len
    BY <1>9, <1>10
  <2>2. ns2 = [n \in 1 .. Len(nodes) |-> ns2[n]]
    BY <1>3, <1>9, <1>10
  <2>3. ns2 \in [1 .. Len(nodes) -> NodeSet]
    BY <1>9, <1>11, <2>2
  <2> QED
    BY <1>9, <2>3, SeqDef
<1>13. Good(SubSeq(stack, 1, Len(stack) - 1), counter, ns2)
  <2>1. \A n \in DOMAIN nodes :
          /\ ns2[n].kind = nodes[n].kind /\ ns2[n].within = nodes[n].within
          /\ ns2[n].idx = nodes[n].idx /\ ns2[n].brk = nodes[n].brk /\ ns2[n].cont = nodes[n].cont
          /\ ns2[n].value = nodes[n].value /\ ns2[n].type = nodes[n].type
          /\ n # top.s => ns2[n].cases = nodes[n].cases /\ ns2[n].dflt = nodes[n].dflt
    BY <1>11
  <2>2. ns2[top.s].cases = top.cases /\ ns2[top.s].dflt = top.dflt
    BY <1>7, <1>11
  <2>3. Good(stack, counter, nodes)
    BY <1>1 DEF Numbers
  <2> QED
    BY ONLY <1>2, <1>4, <1>10, <1>12, <2>1, <2>2, <2>3, PopSwitchGood
<1> QED
  BY <1>4, <1>13 DEF IInv

\* A statement the walk refuses changes nothing but the status.
LEMMA FailIInv ==
  ASSUME IInv, status = "walking", Fail
  PROVE  IInv'
<1>1. status' = "error" /\ stack' = stack /\ counter' = counter /\ nodes' = nodes
  BY DEF Fail
<1>2. Good(stack, counter, nodes)
  BY DEF IInv
<1> QED
  BY <1>1, <1>2 DEF IInv

\* A break is given the label of the construct on top of the stack ...
LEMMA BreakIInv ==
  ASSUME IInv, Break
  PROVE  IInv'
<1>1. Numbers /\ status = "walking"
  BY NumbersKept DEF Break
<1>2. CASE stack = << >>
  BY <1>1, <1>2, FailIInv DEF Break
<1>3. CASE stack # << >>
  <2>1. PICK b : b = Top.brk
    OBVIOUS
  <2>2. b \in Nat /\ b = stack[Len(stack)].brk
    <3>1. stack[Len(stack)] \in StackSet
      BY <1>1, <1>3 DEF Numbers
    <3> QED
      BY <2>1, <3>1 DEF Top, StackSet
  <2>3. PICK x : x = Node("break", b, 0, 0)
    OBVIOUS
  <2>4. Made(x, "break", b, 0, 0)
    <3>1. "break" \in Kinds /\ 0 \in Nat /\ stack \in Seq(StackSet)
      BY <1>1 DEF Numbers, Kinds
    <3> QED
      BY <2>2, <2>3, <3>1, NodeMade
  <2>5. x \in NodeSet /\ x.within = Standing(stack) /\ x.kind = "break" /\ x.idx = b
    BY <2>4 DEF Made
  <2>6. Good(stack, counter, Append(nodes, x))
    <3>1. Good(stack, counter, nodes) /\ Resolved \in Nat
      BY <1>1 DEF Numbers
    <3>2. /\ x.kind \in {"break", "continue"} /\ x.kind # "continue"
          /\ x.idx = stack[Len(stack)].brk
      BY <2>2, <2>5
    <3> QED
      BY ONLY <1>3, <2>5, <3>1, <3>2, JumpGood
  <2>7. /\ status' = status /\ stack' = stack /\ counter' = counter
        /\ nodes' = Append(nodes, x)
    BY <1>3, <2>1, <2>3 DEF Break
  <2> QED
    BY <1>1, <2>6, <2>7 DEF IInv
<1> QED
  BY <1>2, <1>3

\* ... and a continue that of the topmost loop.
LEMMA ContinueIInv ==
  ASSUME IInv, Continue
  PROVE  IInv'
<1>1. Numbers /\ status = "walking"
  BY NumbersKept DEF Continue
<1>2. CASE Open("loop") = {}
  BY <1>1, <1>2, FailIInv DEF Continue
<1>3. CASE Open("loop") # {}
  <2>1. PICK at : at = {k \in DOMAIN stack : stack[k].t = "loop"}
    OBVIOUS
  <2>2. Open("loop") = at /\ at # {}
    BY <1>3, <2>1 DEF Open
  <2>3. Latest(at) \in at
    <3>1. at \subseteq 1 .. Len(stack) /\ Len(stack) \in Nat
      BY <1>1, <2>1, Elements DEF Numbers
    <3> QED
      BY <2>2, <3>1, LatestIs
  <2>4. PICK l : l = stack[Latest(at)].cont
    OBVIOUS
  <2>5. l \in Nat
    <3>1. stack[Latest(at)] \in StackSet /\ stack[Latest(at)].t = "loop"
      BY <1>1, <2>1, <2>3, Elements DEF Numbers
    <3> QED
      BY <2>4, <3>1 DEF StackSet
  <2>6. PICK x : x = Node("continue", l, 0, 0)
    OBVIOUS
  <2>7. Made(x, "continue", l, 0, 0)
    <3>1. "continue" \in Kinds /\ 0 \in Nat /\ stack \in Seq(StackSet)
      BY <1>1 DEF Numbers, Kinds
    <3> QED
      BY <2>5, <2>6, <3>1, NodeMade
  <2>8. x \in NodeSet /\ x.within = Standing(stack) /\ x.kind = "continue" /\ x.idx = l
    BY <2>7 DEF Made
  <2>9. Good(stack, counter, Append(nodes, x))
    <3>1. Good(stack, counter, nodes) /\ Resolved \in Nat
      BY <1>1 DEF Numbers
    <3>2. x.kind \in {"break", "continue"} /\ x.kind # "break"
      BY <2>8
    <3>3. LET at1 == {k \in DOMAIN stack : stack[k].t = "loop"}
          IN  at1 # {} /\ x.idx = stack[Latest(at1)].cont
      BY ONLY <2>1, <2>2, <2>4, <2>8
    <3> QED
      BY ONLY <2>8, <3>1, <3>2, <3>3, JumpGood
  <2>10. /\ status' = status /\ stack' = stack /\ counter' = counter
         /\ nodes' = Append(nodes, x)
    BY <1>3, <2>2, <2>4, <2>6 DEF Continue, LastOf
  <2> QED
    BY <1>1, <2>9, <2>10 DEF IInv
<1> QED
  BY <1>2, <1>3

\* The topmost switch of the stack, when there is one.
LEMMA TopSwitch ==
  ASSUME Numbers, Open("switch") # {}, NEW j, j = LastOf("switch")
  PROVE  /\ j \in DOMAIN stack /\ stack[j] \in StackSet /\ stack[j].t = "switch"
         /\ \A k \in DOMAIN stack : stack[k].t = "switch" => k <= j
<1>1. Open("switch") \subseteq 1 .. Len(stack) /\ Len(stack) \in Nat /\ DOMAIN stack = 1 .. Len(stack)
  BY Elements DEF Numbers, Open
<1>2. j \in Open("switch") /\ \A m \in Open("switch") : m <= j
  BY <1>1, LatestIs DEF LastOf
<1>3. \A k \in 1 .. Len(stack) : stack[k] \in StackSet
  BY Elements DEF Numbers
<1> QED
  BY <1>1, <1>2, <1>3 DEF Open

\* A default is taken down by the topmost switch, unless it has one ...
LEMMA DefaultIInv ==
  ASSUME IInv, Default
  PROVE  IInv'
<1>1. Numbers /\ status = "walking"
  BY NumbersKept DEF Default
<1>2. CASE Open("switch") = {} \/ stack[LastOf("switch")].dflt # NoNode
  BY <1>1, <1>2, FailIInv DEF Default
<1>3. CASE Open("switch") # {} /\ stack[LastOf("switch")].dflt = NoNode
  <2>1. PICK j : j = LastOf("switch")
    OBVIOUS
  <2>2. /\ j \in DOMAIN stack /\ stack[j] \in StackSet /\ stack[j].t = "switch"
        /\ \A k \in DOMAIN stack : stack[k].t = "switch" => k <= j
    BY <1>1, <1>3, <2>1, TopSwitch
  <2>3. PICK a : a = stack[j]
    OBVIOUS
  <2>4. PICK b : b = [a EXCEPT !.dflt = Len(nodes) + 1]
    OBVIOUS
  <2>5. /\ b \in StackSet /\ b.t = "switch" /\ b.s = a.s /\ b.brk = a.brk /\ b.type = a.type
        /\ b.cases = a.cases /\ b.dflt = Len(nodes) + 1
    <3>1. a \in [t : {"switch"}, s : Nat, brk : Nat, type : SwitchTypes, cases : SUBSET Nat, dflt : Nat]
      BY <2>2, <2>3 DEF StackSet
    <3>2. Len(nodes) + 1 \in Nat
      BY <1>1 DEF Numbers
    <3> QED
      BY ONLY <2>4, <3>1, <3>2 DEF StackSet
  <2>6. PICK st2 : st2 = [stack EXCEPT ![j] = b]
    OBVIOUS
  <2>7. /\ st2 \in Seq(StackSet) /\ DOMAIN st2 = DOMAIN stack /\ st2[j] = b
        /\ \A k \in DOMAIN stack : k # j => st2[k] = stack[k]
    <3>1. j \in 1 .. Len(stack) /\ stack \in Seq(StackSet)
      BY <1>1, <2>2, Elements DEF Numbers
    <3> QED
      BY <2>2, <2>5, <2>6, <3>1, ExceptSeq
  <2>8. PICK x : x = Node("default", counter + 1, 0, 0)
    OBVIOUS
  <2>9. Made(x, "default", counter + 1, 0, 0)
    <3>1. "default" \in Kinds /\ 0 \in Nat /\ counter + 1 \in Nat /\ stack \in Seq(StackSet)
      BY <1>1 DEF Numbers, Kinds
    <3> QED
      BY <2>8, <3>1, NodeMade
  <2>10. x \in NodeSet /\ x.within = Standing(stack) /\ x.kind = "default" /\ x.idx = counter + 1
    BY <2>9 DEF Made
  <2>11. Good(st2, counter + 1, Append(nodes, x))
    <3>1. Good(stack, counter, nodes) /\ Resolved \in Nat
      BY <1>1 DEF Numbers
    <3>2. x.kind \in {"case", "default"} /\ x.kind # "case"
      BY <2>10
    <3>3. /\ st2[j].t = "switch" /\ st2[j].s = stack[j].s /\ st2[j].brk = stack[j].brk
          /\ st2[j].type = stack[j].type /\ st2[j].cases = stack[j].cases
          /\ stack[j].dflt = NoNode /\ st2[j].dflt = Len(nodes) + 1
      BY <1>3, <2>1, <2>3, <2>5, <2>7
    <3> QED
      BY ONLY <2>2, <2>7, <2>10, <3>1, <3>2, <3>3, LabelGood
  <2>12. /\ status' = status /\ stack' = st2 /\ counter' = counter + 1
         /\ nodes' = Append(nodes, x)
    <3>1. stack' = [stack EXCEPT ![j].dflt = Len(nodes) + 1]
      BY <1>3, <2>1 DEF Default, New
    <3>2. stack' = st2
      BY ONLY <2>2, <2>3, <2>4, <2>6, <3>1
    <3> QED
      BY <1>3, <2>8, <3>2 DEF Default
  <2> QED
    BY <1>1, <2>11, <2>12 DEF IInv
<1> QED
  BY <1>2, <1>3

\* ... and so is a case, unless it has the value, which is compared and kept
\* as one of the switch's type.
LEMMA CaseIInv ==
  ASSUME IInv, NEW v \in Constants, Case(v)
  PROVE  IInv'
<1>1. Numbers /\ status = "walking" /\ v \in Nat
  BY NumbersKept, NumbersAssumption DEF Case
<1>2. CASE Open("switch") = {}
  BY <1>1, <1>2, FailIInv DEF Case
<1>3. CASE Open("switch") # {}
  <2>1. PICK j : j = LastOf("switch")
    OBVIOUS
  <2>2. /\ j \in DOMAIN stack /\ stack[j] \in StackSet /\ stack[j].t = "switch"
        /\ \A k \in DOMAIN stack : stack[k].t = "switch" => k <= j
    BY <1>1, <1>3, <2>1, TopSwitch
  <2>3. PICK a : a = stack[j]
    OBVIOUS
  <2>4. PICK c : c = ConvertConst(v, a.type)
    OBVIOUS
  <2>5. c \in Nat /\ ConvertConst(c, a.type) = c
    BY <1>1, <2>4, ConvertTwice
  <2>6. CASE \E n \in a.cases : nodes[n].value = c
    <3>1. Fail
      BY <1>3, <2>1, <2>3, <2>4, <2>6 DEF Case
    <3> QED
      BY <1>1, <3>1, FailIInv
  <2>7. CASE \A n \in a.cases : nodes[n].value # c
    <3>1. PICK b : b = [a EXCEPT !.cases = a.cases \cup {Len(nodes) + 1}]
      OBVIOUS
    <3>2. /\ b \in StackSet /\ b.t = "switch" /\ b.s = a.s /\ b.brk = a.brk /\ b.type = a.type
          /\ b.cases = a.cases \cup {Len(nodes) + 1} /\ b.dflt = a.dflt
      <4>1. a \in [t : {"switch"}, s : Nat, brk : Nat, type : SwitchTypes, cases : SUBSET Nat, dflt : Nat]
        BY <2>2, <2>3 DEF StackSet
      <4>2. a.cases \cup {Len(nodes) + 1} \in SUBSET Nat
        BY <1>1, <4>1 DEF Numbers
      <4> QED
        BY <3>1, <4>1, <4>2 DEF StackSet
    <3>3. PICK st2 : st2 = [stack EXCEPT ![j] = b]
      OBVIOUS
    <3>4. /\ st2 \in Seq(StackSet) /\ DOMAIN st2 = DOMAIN stack /\ st2[j] = b
          /\ \A k \in DOMAIN stack : k # j => st2[k] = stack[k]
      <4>1. j \in 1 .. Len(stack) /\ stack \in Seq(StackSet)
        BY <1>1, <2>2, Elements DEF Numbers
      <4> QED
        BY <2>2, <3>2, <3>3, <4>1, ExceptSeq
    <3>5. PICK y : y = Node("case", counter + 1, 0, 0)
      OBVIOUS
    <3>6. PICK x : x = [y EXCEPT !.value = c]
      OBVIOUS
    <3>7. Made(x, "case", counter + 1, 0, 0) /\ x.value = c
      <4>1. "case" \in Kinds /\ 0 \in Nat /\ counter + 1 \in Nat /\ stack \in Seq(StackSet)
        BY <1>1 DEF Numbers, Kinds
      <4>2. Made(y, "case", counter + 1, 0, 0)
        BY ONLY <3>5, <4>1, NodeMade
      <4>3. c \in Nat
        BY <2>5
      <4> QED
        BY ONLY <3>6, <4>2, <4>3, ValueMade
    <3>8. /\ x \in NodeSet /\ x.within = Standing(stack) /\ x.kind = "case"
          /\ x.idx = counter + 1 /\ x.value = c
      BY <3>7 DEF Made
    <3>9. Good(st2, counter + 1, Append(nodes, x))
      <4>1. Good(stack, counter, nodes) /\ Resolved \in Nat
        BY <1>1 DEF Numbers
      <4>2. x.kind \in {"case", "default"} /\ x.kind # "default"
        BY <3>8
      <4>3. /\ st2[j].t = "switch" /\ st2[j].s = stack[j].s /\ st2[j].brk = stack[j].brk
            /\ st2[j].type = stack[j].type
            /\ st2[j].cases = stack[j].cases \cup {Len(nodes) + 1}
            /\ st2[j].dflt = stack[j].dflt
        BY <2>3, <3>2, <3>4
      <4>4. /\ x.value = ConvertConst(x.value, stack[j].type)
            /\ \A n \in stack[j].cases : nodes[n].value # x.value
        BY <2>3, <2>5, <2>7, <3>8
      <4> QED
        BY ONLY <2>2, <3>4, <3>8, <4>1, <4>2, <4>3, <4>4, LabelGood
    <3>10. /\ status' = status /\ stack' = st2 /\ counter' = counter + 1
           /\ nodes' = Append(nodes, x)
      <4>1. /\ status' = status /\ counter' = counter + 1
            /\ stack' = [stack EXCEPT ![j].cases = @ \cup {Len(nodes) + 1}]
            /\ nodes' = Append(nodes, [Node("case", counter', 0, 0) EXCEPT !.value = c])
        BY <1>3, <2>1, <2>3, <2>4, <2>7 DEF Case, New
      <4>2. stack' = st2
        BY ONLY <2>2, <2>3, <3>1, <3>3, <4>1
      <4> QED
        BY ONLY <3>5, <3>6, <4>1, <4>2
    <3> QED
      BY <1>1, <3>9, <3>10 DEF IInv
  <2> QED
    BY <2>6, <2>7
<1> QED
  BY <1>2, <1>3

\* Every step of the walk keeps the invariant.
LEMMA NextIInv ==
  ASSUME IInv, [Next]_vars
  PROVE  IInv'
<1>1. CASE EnterFunc
  <2>1. /\ status' = "walking" /\ stack' = stack /\ counter' = counter /\ nodes' = nodes
    BY <1>1 DEF EnterFunc, IInv
  <2> QED
    BY <2>1 DEF IInv
<1>2. CASE LeaveFunc
  <2>1. /\ status' = "outside" /\ stack = << >>
        /\ stack' = stack /\ counter' = counter /\ nodes' = nodes
    BY <1>2 DEF LeaveFunc
  <2> QED
    BY <2>1 DEF IInv
<1>3. CASE EnterLoop
  BY <1>3, EnterLoopIInv
<1>4. CASE ExitLoop
  BY <1>4, ExitLoopIInv
<1>5. ASSUME NEW type \in SwitchTypes, EnterSwitch(type)
      PROVE  IInv'
  BY <1>5, EnterSwitchIInv
<1>6. CASE ExitSwitch
  BY <1>6, ExitSwitchIInv
<1>7. CASE Break
  BY <1>7, BreakIInv
<1>8. CASE Continue
  BY <1>8, ContinueIInv
<1>9. CASE Default
  BY <1>9, DefaultIInv
<1>10. ASSUME NEW v \in Constants, Case(v)
       PROVE  IInv'
  BY <1>10, CaseIInv
<1>11. CASE UNCHANGED vars
  BY <1>11 DEF vars, IInv
<1> QED
  BY <1>1, <1>2, <1>3, <1>4, <1>5, <1>6, <1>7, <1>8, <1>9, <1>10, <1>11 DEF Next

\* Through every walk the stack is that of the constructs being walked, and
\* the switches, labels and jumps of the statements walked so far are right.
THEOREM Invariance == Spec => []IInv
<1>1. Init => IInv
  BY InitIInv
<1>2. IInv /\ [Next]_vars => IInv'
  BY NextIInv
<1> QED
  BY <1>1, <1>2, PTL DEF Spec

\* The invariant says of the closed switches what CasesCollected does: the
\* kept values are of the switch's type, so they are the same converted or not.
LEMMA CollectedIs ==
  IInv => CasesCollected
<1> SUFFICES ASSUME IInv,
                    NEW n \in OfKind("switch"),
                    \A k \in DOMAIN stack : stack[k].s # n
             PROVE  /\ nodes[n].cases = {m \in OfKind("case") : Around(m, {"switch"}) = n}
                    /\ \A p, q \in nodes[n].cases :
                         ConvertConst(nodes[p].value, nodes[n].type) = ConvertConst(nodes[q].value, nodes[n].type)
                           => p = q
                    /\ {m \in OfKind("default") : Around(m, {"switch"}) = n}
                         = {nodes[n].dflt} \ {NoNode}
  BY DEF CasesCollected
<1>1. n \in DOMAIN nodes /\ nodes[n].kind = "switch"
  BY DEF OfKind
<1>2. Collected(nodes, n, nodes[n].cases, nodes[n].dflt, nodes[n].type)
  <2>1. Collects(stack, nodes)
    BY DEF IInv, Good
  <2> QED
    BY <1>1, <2>1 DEF Collects
<1>3. \A m : Around(m, {"switch"}) = AroundIn(nodes, m, {"switch"})
  BY DEF Around, AroundIn
<1>4. \A kind : {m \in OfKind(kind) : Around(m, {"switch"}) = n} = Belonging(nodes, n, kind)
  BY <1>3 DEF OfKind, Belonging
<1>5. /\ nodes[n].cases = Belonging(nodes, n, "case")
      /\ Belonging(nodes, n, "default") = {nodes[n].dflt} \ {NoNode}
      /\ \A p \in nodes[n].cases : nodes[p].value = ConvertConst(nodes[p].value, nodes[n].type)
      /\ \A p, q \in nodes[n].cases : nodes[p].value = nodes[q].value => p = q
  BY <1>2 DEF Collected
<1>6. \A p, q \in nodes[n].cases :
        ConvertConst(nodes[p].value, nodes[n].type) = ConvertConst(nodes[q].value, nodes[n].type)
          => p = q
  BY ONLY <1>5
<1> QED
  BY <1>4, <1>5, <1>6

\* A finished switch dispatches to exactly the cases and the default whose
\* innermost switch it is, and to no value twice: loop_resolve_case_stmt looks
\* a case up after its conversion, among those of the topmost switch, and the
\* stack it finds that switch on is the nesting of the statements.
THEOREM CasesCollectedAlways == Spec => []CasesCollected
BY Invariance, CollectedIs, PTL

\* No label of a loop, a switch, a case or a default is another's, nor one of
\* those resolve.c gave out before: label_idx_counter is moved past every label
\* that is given, by two for a loop.
THEOREM LabelsOnceAlways == Spec => []LabelsOnce
<1>1. IInv => LabelsOnce
  BY DEF IInv, Good, LabelsOnce
<1> QED
  BY <1>1, Invariance, PTL

\* Every break has the label at the end of the innermost loop or switch around
\* it and every continue that of the innermost loop, with any number of
\* switches between: top_loop_resolve_info and find_last_loop agree with where
\* the statements stand.
THEOREM JumpsInnermostAlways == Spec => []JumpsInnermost
<1>1. IInv => JumpsInnermost
  BY DEF IInv, Good, JumpsInnermost
<1> QED
  BY <1>1, Invariance, PTL

=============================================================================
