------------------------------ MODULE Meaning -------------------------------
(***************************************************************************)
(* What C says an integer expression does, independent of the compiler:    *)
(* values are numbers, operands are converted by the usual arithmetic      *)
(* conversions (C99 6.3.1.8), and ok tells that the behaviour is defined.  *)
(* Where C leaves it to the implementation, conversions to signed types    *)
(* reduce modulo 2^N (readme.md:13) and right shifts keep the sign.        *)
(***************************************************************************)
EXTENDS Expressions, Bitwise

Smallest(t) == IF t \in {"int", "long"} THEN -(2^(Bits(Width(t)) - 1)) ELSE 0
Largest(t)  == Smallest(t) + 2^Bits(Width(t)) - 1

\* v as a value of type t
Converted(v, t) ==
  IF t \in {"int", "long"} THEN Signed(v, Width(t)) ELSE Low(v, Width(t))

\* the usual arithmetic conversions
Usual(t, u) ==
  IF "ulong" \in {t, u} THEN "ulong"
  ELSE IF "long" \in {t, u} THEN "long"
  ELSE IF "uint" \in {t, u} THEN "uint"
  ELSE "int"

\* the result of arithmetic in type t: only unsigned types wrap round
Arithmetical(r, v, t) ==
  IF t \in {"uint", "ulong"} \/ v \in Smallest(t) .. Largest(t)
  THEN [r EXCEPT !.v = Converted(v, t), !.tp = t]
  ELSE [r EXCEPT !.ok = FALSE, !.tp = t]

Absolute(v) == IF v < 0 THEN -v ELSE v
TowardsZero(a, b) ==
  IF (a < 0) = (b < 0) THEN Absolute(a) \div Absolute(b) ELSE -(Absolute(a) \div Absolute(b))

Bitwise2(op, a, b, t) ==
  LET x == Low(a, Width(t))
      y == Low(b, Width(t))
  IN  CASE op = "AND" -> x & y [] op = "OR" -> x | y [] op = "XOR" -> x ^^ y

Related(op, a, b) ==
  CASE op = "EQ" -> a = b [] op = "NE" -> a # b [] op = "LT" -> a < b
    [] op = "LE" -> a <= b [] op = "GT" -> a > b [] op = "GE" -> a >= b

\* a op b for values of types t and u, in the outcome r of evaluating both
Operate(r, op, a, t, b, u) ==
  LET c == Usual(t, u)
      x == Converted(a, c)
      y == Converted(b, c)
      Bad == [r EXCEPT !.ok = FALSE, !.tp = IF op \in Shifts THEN t ELSE c]
  IN  CASE op \in Comparisons -> [r EXCEPT !.v = IF Related(op, x, y) THEN 1 ELSE 0, !.tp = "int"]
        [] op = "ADD" -> Arithmetical(r, x + y, c)
        [] op = "SUB" -> Arithmetical(r, x - y, c)
        [] op = "MUL" -> Arithmetical(r, x * y, c)
        [] op \in {"DIV", "MOD"} ->
             IF y = 0 \/ TowardsZero(x, y) \notin Smallest(c) .. Largest(c)
             THEN Bad
             ELSE Arithmetical(r, IF op = "DIV" THEN TowardsZero(x, y)
                                  ELSE x - y * TowardsZero(x, y), c)
        [] op \in {"AND", "OR", "XOR"} ->
             [r EXCEPT !.v = Converted(Bitwise2(op, x, y, c), c), !.tp = c]
        [] op \in Shifts ->
             IF b < 0 \/ b >= Bits(Width(t)) \/ (op = "LSHIFT" /\ a < 0) THEN Bad
             ELSE IF op = "LSHIFT" THEN Arithmetical(r, a * 2^b, t)
             ELSE [r EXCEPT !.v = a \div 2^b, !.tp = t]

Store(r, x, v) == [r EXCEPT !.v = Converted(v, x.tp), !.tp = x.tp,
                            !.env[x.name] = Converted(v, x.tp)]

\* the outcome of an expression in env: its value v of type tp, the variables
\* afterwards, and whether the behaviour is defined
RECURSIVE Evaluate(_, _)
Evaluate(x, env) ==
  LET Outcome(v, tp) == [v |-> v, tp |-> tp, env |-> env, ok |-> TRUE]
      One == Evaluate(x.a[1], env)
      Two == [Evaluate(x.a[2], One.env) EXCEPT !.ok = @ /\ One.ok]
  IN  CASE x.k = "const" -> Outcome(x.v, x.tp)
        [] x.k = "var" -> Outcome(env[x.name], x.tp)
        [] x.k = "cast" -> [One EXCEPT !.v = Converted(@, x.tp), !.tp = x.tp]
        [] x.k = "unary" /\ x.op = "NOT" -> [One EXCEPT !.v = IF @ = 0 THEN 1 ELSE 0, !.tp = "int"]
        [] x.k = "unary" /\ x.op = "NEGATE" -> Arithmetical(One, -One.v, One.tp)
        [] x.k = "unary" /\ x.op = "COMPLEMENT" -> [One EXCEPT !.v = Converted(-@ - 1, One.tp)]
        [] x.k = "unary" /\ x.op \in {"INC", "DEC", "POSTINC", "POSTDEC"} ->
             LET new == Arithmetical(One, IF x.op \in {"INC", "POSTINC"} THEN One.v + 1 ELSE One.v - 1, One.tp)
             IN  [Store(new, x.a[1], new.v) EXCEPT
                    !.v = IF x.op \in {"INC", "DEC"} THEN @ ELSE One.v]
        [] x.k = "binary" -> Operate(Two, x.op, One.v, One.tp, Two.v, Two.tp)
        [] x.k = "assign" /\ x.op = "ASSIGN" -> Store(Two, x.a[1], Two.v)
        [] x.k = "assign" /\ x.op # "ASSIGN" ->
             LET new == Operate(Two, x.op, One.v, One.tp, Two.v, Two.tp)
             IN  Store(new, x.a[1], new.v)

=============================================================================
