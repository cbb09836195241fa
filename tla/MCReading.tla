----------------------------- MODULE MCReading ------------------------------
(* Texts with identifiers a and b, suffixes u and l and digits 1 and 3, with *)
(* longwords of 4 and quadwords of 6 bits, so that constants of two digits   *)
(* need every type.  Bounds: the texts are all those of a few characters up  *)
(* to length 6, all pairs of operators with and without parentheses, and     *)
(* statements nested to depth three.                                         *)
EXTENDS Reading, SequencesExt

MCLetters == {"a", "b", "u", "l"}
MCDigits == ("1" :> 1) @@ ("3" :> 3)

\* all texts of some characters up to a length
Over(chars, len) == UNION {[1 .. n -> chars] : n \in 0 .. len}

\* an operator as its characters
Chars(op) ==
  CASE op \in Singles \cup DOMAIN Goes \cup {"<", ">"} -> <<op>>
    [] op \in {"<<=", ">>="} -> <<IF op = "<<=" THEN "<" ELSE ">",
                                 IF op = "<<=" THEN "<" ELSE ">", "=">>
    [] OTHER -> CHOOSE cs \in [1 .. 2 -> {"+", "-", "*", "/", "%", "&", "|", "^", "!", "=", "<", ">"}] :
                  cs[1] \o cs[2] = op

Infix == DOMAIN BinaryOps \cup DOMAIN AssignOps

\* two operators in every combination, with the parentheses that change it
Pairs ==
  UNION {LET m == Chars(op)
             n == Chars(oq)
         IN  {<<"a">> \o m \o <<"b">> \o n \o <<"a", ";">>,
              <<"(", "a">> \o m \o <<"b", ")">> \o n \o <<"a", ";">>,
              <<"a">> \o m \o <<"(", "b">> \o n \o <<"a", ")", ";">>} :
         op \in Infix, oq \in Infix}

\* an operator around, in and between the parts of a conditional
Ternaries ==
  UNION {LET m == Chars(op)
         IN  {<<"a">> \o m \o <<"a", "?", "b", ":", "a", ";">>,
              <<"a", "?", "b">> \o m \o <<"a", ":", "b", ";">>,
              <<"a", "?", "b", ":", "a">> \o m \o <<"b", ";">>,
              <<"a", "?", "b", ":", "a", "?", "b">> \o m \o <<"a", ":", "b", ";">>,
              <<"a", "?", "b", "?", "a", ":", "b", ":", "a">> \o m \o <<"b", ";">>} : op \in Infix}

Conds == {<<"if", "(", "a", ")">>, <<"while", "(", "a", ")">>, <<"switch", "(", "b", ")">>,
          <<"for", "(", ";", ";", ")">>, <<"for", "(", "a", ";", "b", ";", "a", ")">>,
          <<"a", ":">>, <<"case", " ", "1", ":">>, <<"default", ":">>, <<"do">>, <<"else">>}
Leaves == {<<"b", ";">>, <<";">>, <<"return", " ", "a", ";">>, <<"goto", " ", "a", ";">>,
           <<"break", ";">>, <<"continue", ";">>, <<"{", "a", ";", "b", ";", "}">>,
           <<"else", ";">>, <<"while", "(", "a", ")", ";">>}

Statements ==
  {c \o l : c \in Conds, l \in Leaves}
  \cup {c \o d \o l : c \in Conds, d \in Conds, l \in Leaves}
  \cup {c \o d \o l \o m : c \in Conds, d \in Conds, l \in Leaves, m \in Leaves}
  \cup {<<"if", "(", "a", ")">> \o c \o l \o m \o n :
          c \in Conds, l \in Leaves, m \in {<<"else">>, <<"else", "if", "(", "b", ")">>}, n \in Leaves}

Types5 == {"int", "long", "signed", "unsigned"}

MCTexts ==
  Pairs \cup Ternaries \cup Statements
  \cup Over({"a", "+", "=", ";"}, 6)
  \cup Over({"a", "-", "(", ")", ",", ";"}, 6)
  \cup Over({"a", "/", "*", "\n", ";"}, 6)
  \cup Over({"1", "3", "u", "l", "a", " ", ";"}, 4)
  \cup Over({"if", "a", "1", "(", ")", ";"}, 5)
  \cup {<<"(">> \o ts \o <<")", "a", ";">> :
          ts \in {FlattenSeq([k \in DOMAIN w |-> <<w[k], " ">>]) : w \in Over(Types5, 4)}}

=============================================================================
