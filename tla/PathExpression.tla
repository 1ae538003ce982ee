-------------------------- MODULE PathExpression ---------------------------
(***************************************************************************)
(* fsa_traits::to_postfix (json_path/parser.hpp): the regular expression   *)
(* of a path, in infix tokens, as postfix tokens, by a stack of operators. *)
(* It is given no text that another part has checked.                      *)
(***************************************************************************)
EXTENDS Naturals, FiniteSets, SequencesExt

CONSTANTS Symbols, Expressions    \* sequences of tokens

VARIABLES infix, taken, operators, postfix

vars == <<infix, taken, operators, postfix>>

Precedence == [x \in {"*", "+", "|", "("} |->
                 CASE x = "*" -> 3 [] x = "+" -> 2 [] x = "|" -> 1 [] x = "(" -> 0]
Operators == {"*", "+", "|"}

Popped(n) == SubSeq(operators, 1, Len(operators) - n)
Topmost(n) == [i \in 1..n |-> operators[Len(operators) + 1 - i]]

Yields(top, op) == Precedence[op] < Precedence[top]

\* how many operators on top are among tops
Run(tops) ==
  Max({n \in 0..Len(operators) : \A i \in 1..n : operators[Len(operators) + 1 - i] \in tops})
-----------------------------------------------------------------------------
Init == infix \in Expressions /\ taken = 0 /\ operators = <<>> /\ postfix = <<>>

Token == infix[taken + 1]
Take == taken < Len(infix) /\ taken' = taken + 1 /\ UNCHANGED infix

Operator ==
  LET before == {top \in DOMAIN Precedence : Yields(top, Token)} IN
  /\ Take /\ Token \in Operators
  /\ postfix' = postfix \o Topmost(Run(before)) /\ operators' = Append(Popped(Run(before)), Token)

OpenParen == Take /\ Token = "(" /\ operators' = Append(operators, "(") /\ UNCHANGED postfix

\* without an open one every operator is taken
CloseParen ==
  LET inner == DOMAIN Precedence \ {"("} IN
  /\ Take /\ Token = ")"
  /\ postfix' = postfix \o Topmost(Run(inner))
  /\ operators' = IF Run(inner) = Len(operators) THEN <<>> ELSE Popped(Run(inner) + 1)

Symbol == Take /\ Token \in Symbols /\ postfix' = Append(postfix, Token) /\ UNCHANGED operators

\* open parentheses that are left go with the operators
End ==
  /\ taken = Len(infix) /\ operators # <<>>
  /\ postfix' = postfix \o Topmost(Len(operators)) /\ operators' = <<>>
  /\ UNCHANGED <<infix, taken>>

Next == Operator \/ OpenParen \/ CloseParen \/ Symbol \/ End

Spec == Init /\ [][Next]_vars
-----------------------------------------------------------------------------
None == <<"none">>

\* The operands of a node: "|" and "+" are associative, so a node of the same
\* operator stands for its operands.
Operands(op, tree) == IF op # "*" /\ tree[1] = op THEN Tail(tree) ELSE <<tree>>
Node(op, args) == IF None \in {args[i] : i \in DOMAIN args} THEN None
                  ELSE <<op>> \o FlattenSeq([i \in DOMAIN args |-> Operands(op, args[i])])

Depth(s, i) == Cardinality({j \in 1..i : s[j] = "("}) - Cardinality({j \in 1..i : s[j] = ")"})
Outer(s, op) == {i \in 1..Len(s) : s[i] = op /\ Depth(s, i) = 0}

\* The tree of an infix expression, None if it has none: the weakest operator
\* outside of parentheses first, and the operands of a row of the same one together.
RECURSIVE Tree(_)
Tree(s) ==
  LET Split(op) == Node(op, <<Tree(SubSeq(s, 1, Min(Outer(s, op)) - 1)), Tree(SubSeq(s, Min(Outer(s, op)) + 1, Len(s)))>>)
  IN CASE s = <<>> \/ \E i \in 1..Len(s) : Depth(s, i) < 0 -> None
       [] OTHER ->
          IF Outer(s, "|") # {} THEN Split("|") ELSE IF Outer(s, "+") # {} THEN Split("+")
          ELSE IF s[Len(s)] = "*" THEN Node("*", <<Tree(SubSeq(s, 1, Len(s) - 1))>>)
          ELSE IF Len(s) = 1 THEN IF s[1] \in Symbols THEN s ELSE None
          ELSE IF s[1] = "(" /\ Outer(s, ")") = {Len(s)} THEN Tree(SubSeq(s, 2, Len(s) - 1)) ELSE None

\* The trees that postfix tokens leave on the stack of their evaluation.
RECURSIVE Evaluated(_, _)
Evaluated(s, stack) ==
  LET n == Len(stack)
      args == IF s[1] = "*" THEN 1 ELSE 2
  IN IF s = <<>> THEN stack
     ELSE IF s[1] \in Symbols THEN Evaluated(Tail(s), Append(stack, <<s[1]>>))
     ELSE IF s[1] = "(" \/ n < args THEN <<>>
     ELSE Evaluated(Tail(s), Append(SubSeq(stack, 1, n - args),
                                    Node(s[1], SubSeq(stack, n - args + 1, n))))

Opened == Cardinality({i \in 1..Len(infix) : infix[i] = "("})
Closed == Cardinality({i \in 1..Len(infix) : infix[i] = ")"})

TypeOK == taken \in 0..Len(infix) /\ \A i \in 1..Len(operators) : operators[i] \in DOMAIN Precedence

\* The postfix tokens of a well-formed expression evaluate to its tree, however the
\* operands of an associative operator are grouped; one with more parentheses
\* opened than closed keeps one among its tokens.
Converts ==
  taken = Len(infix) /\ operators = <<>> =>
    /\ Tree(infix) # None => Evaluated(postfix, <<>>) = <<Tree(infix)>>
    /\ Opened > Closed => \E i \in 1..Len(postfix) : postfix[i] = "("
=============================================================================
