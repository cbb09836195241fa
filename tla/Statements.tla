----------------------------- MODULE Statements -----------------------------
(***************************************************************************)
(* What C says statements do (C99 6.8), independent of labels: the rest of *)
(* a function is a list of frames, what break and continue do is found in  *)
(* that list, where goto and switch lead is found in the tree.             *)
(*                                                                         *)
(* A frame is something still to be done: execute a statement, evaluate an *)
(* expression, or go on with one of them after the value of a part of it.  *)
(* The frame "next" of a loop and "end" of a switch stand below what their *)
(* bodies still do.  Calls and the return are events: others see them and  *)
(* determine the value of a call.  Bound: a call has one operand at most.   *)
(***************************************************************************)
EXTENDS Tac

Frame(t, s, e) == [t |-> t, s |-> s, e |-> e]
NullStmt == Stmt("null", None, <<None, None>>, << >>)

Do(s)    == Frame("do", s, None)
Eval(e)  == Frame("eval", NullStmt, e)
Then(t, e) == Frame(t, NullStmt, e)

\* a function about to run: frames, the value of the last expression, variables
Entered(body, store) == [body |-> body, k |-> <<Do(body)>>, v |-> 0, store |-> store]

-----------------------------------------------------------------------------

\* where a jump leads: a label, a default, or the case for a value v of type tp
Hit(s, to) ==
  /\ s.k = to.k
  /\ s.k = "case" =>
       LET c == ConvertConst(s.e.v, to.tp)
       IN  Low(c, "quad") = Low(ConvertConst(Low(to.v, "quad"), to.tp), "quad")

RECURSIVE Has(_, _), Enter(_, _)

\* cases belong to the innermost switch
Has(s, to) ==
  \/ Hit(s, to)
  \/ /\ s.k = "switch" => to.k = "label"
     /\ \E k \in DOMAIN s.body : Has(s.body[k], to)

\* what is to be done from there on in s
Enter(s, to) ==
  LET at   == CHOOSE k \in DOMAIN s.body : Has(s.body[k], to)
      part == Enter(s.body[at], to)
  IN  CASE Hit(s, to) -> <<Do(s)>>
        [] s.k = "block" ->
             part \o [k \in 1 .. Len(s.body) - at |-> Do(s.body[at + k])]
        [] s.k \in {"while", "do", "for"} -> Append(part, Frame("next", s, None))
        [] s.k = "switch" -> Append(part, Frame("end", s, None))
        [] OTHER -> part

To(k) == [k |-> k, v |-> 0, tp |-> ""]

Dispatch(s, v) ==
  LET to == [k |-> "case", v |-> v, tp |-> s.e.tp]
  IN  CASE Has(s.body[1], to) -> Append(Enter(s.body[1], to), Frame("end", s, None))
        [] ~Has(s.body[1], to) /\ Has(s.body[1], To("default")) ->
             Append(Enter(s.body[1], To("default")), Frame("end", s, None))
        [] OTHER -> << >>

\* the frames from the first one of a kind in kinds on
RECURSIVE From(_, _)
From(k, kinds) == IF Head(k).t \in kinds THEN k ELSE From(Tail(k), kinds)

-----------------------------------------------------------------------------

\* the body of a loop with a condition, or of one without
Round(s) ==
  IF s.e = None
  THEN <<Do(s.body[1]), Frame("next", s, None)>>
  ELSE <<Eval(s.e), Frame("test", s, None)>>

\* what executing a statement leaves to be done before and instead of rest
Executed(m, s, rest) ==
  CASE s.k = "block"    -> [k \in DOMAIN s.body |-> Do(s.body[k])] \o rest
    [] s.k = "expr"     -> <<Eval(s.e)>> \o rest
    [] s.k = "decl"     -> <<Eval(s.e), Then("store", s.x[1])>> \o rest
    [] s.k = "return"   -> <<Eval(s.e), Then("return", None)>> \o rest
    [] s.k = "if"       -> <<Eval(s.e), Frame("choose", s, None)>> \o rest
    [] s.k = "while"    -> Round(s) \o rest
    [] s.k = "do"       -> <<Do(s.body[1]), Frame("next", s, None)>> \o rest
    [] s.k = "for"      -> <<Eval(s.x[1])>> \o Round(s) \o rest
    [] s.k = "switch"   -> <<Eval(s.e), Frame("dispatch", s, None)>> \o rest
    [] s.k = "break"    -> Tail(From(rest, {"next", "end"}))
    [] s.k = "continue" -> From(rest, {"next"})
    [] s.k = "goto"     -> Enter(m.body, To("label"))
    [] s.k \in {"label", "case", "default"} -> <<Do(s.body[1])>> \o rest
    [] OTHER -> rest

Evaluated(m, e, rest) ==
  CASE e.k = "const"   -> [m EXCEPT !.v = e.v, !.k = rest]
    [] e.k = "var"     -> [m EXCEPT !.v = m.store[e.name], !.k = rest]
    [] e.k = "call"    -> [m EXCEPT !.k = [k \in DOMAIN e.a |-> Eval(e.a[k])] \o <<Then("call", e)>> \o rest]
    [] e.k = "binary"  -> [m EXCEPT !.k = <<Eval(e.a[1]), Then("logic", e)>> \o rest]
    [] e.k = "ternary" -> [m EXCEPT !.k = <<Eval(e.a[1]), Then("ternary", e)>> \o rest]
    [] e.k = "assign"  -> [m EXCEPT !.k = <<Eval(e.a[2]), Then("store", e.a[1])>> \o rest]
    [] OTHER           -> [m EXCEPT !.k = rest]

\* the first frame of m is done, which is no event
Proceed(m) ==
  LET f     == Head(m.k)
      rest  == Tail(m.k)
      On(k) == [m EXCEPT !.k = k \o rest]
      Truth(b) == [m EXCEPT !.v = IF b THEN 1 ELSE 0, !.k = rest]
  IN  CASE f.t = "do"       -> [m EXCEPT !.k = Executed(m, f.s, rest)]
        [] f.t = "eval"     -> Evaluated(m, f.e, rest)
        [] f.t = "test"     ->
             IF m.v # 0 THEN On(<<Do(f.s.body[1]), Frame("next", f.s, None)>>) ELSE On(<< >>)
        [] f.t = "next"     ->
             On((IF f.s.k = "for" THEN <<Eval(f.s.x[2])>> ELSE << >>) \o Round(f.s))
        [] f.t = "choose"   ->
             On(IF m.v # 0 THEN <<Do(f.s.body[1])>>
                ELSE [k \in 1 .. Len(f.s.body) - 1 |-> Do(f.s.body[2])])
        [] f.t = "dispatch" -> On(Dispatch(f.s, m.v))
        [] f.t = "end"      -> On(<< >>)
        [] f.t = "store"    -> [m EXCEPT !.store[f.e.name] = m.v, !.k = rest]
        [] f.t = "ternary"  -> On(<<Eval(f.e.a[IF m.v # 0 THEN 2 ELSE 3])>>)
        [] f.t = "truth"    -> Truth(m.v # 0)
        [] f.t = "logic"    ->
             IF (f.e.op = "LOR") = (m.v # 0)
             THEN Truth(m.v # 0)
             ELSE On(<<Eval(f.e.a[2]), Then("truth", None)>>)

\* a function without a return statement at its end returns 0 here
Return(v) == [name |-> "return", args |-> <<v>>]

AtSourceEvent(m) == m.k # << >> => Head(m.k).t \in {"call", "return"}

SourceEvent(m) ==
  CASE m.k = << >> -> Return(0)
    [] m.k # << >> /\ Head(m.k).t = "return" -> Return(m.v)
    [] OTHER ->
         LET e == Head(m.k).e
         IN  [name |-> e.name, args |-> [k \in DOMAIN e.a |-> m.v]]

\* the call has returned v
Resumed(m, v) == [m EXCEPT !.v = v, !.k = Tail(@)]

=============================================================================
