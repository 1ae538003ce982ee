------------------------------ MODULE TypeLists ------------------------------
(***************************************************************************)
(* utility/mpl.hpp: the algorithms on lists of types that the compiler     *)
(* evaluates for variant and value.  A type is any value and void is none; *)
(* the templates recurse from the head of a list to its tail, and so they  *)
(* are folds from the right.  An empty list is given only to those that    *)
(* have a specialization for it.                                           *)
(***************************************************************************)
EXTENDS Integers, SequencesExt

CONSTANT void

first(list) == IF list = <<>> THEN void ELSE Head(list)
last(list) == FoldLeft(LAMBDA before, type : type, void, list)

and_(list) == FoldRight(LAMBDA head, tail : head /\ tail, list, TRUE)
or_(list) == FoldRight(LAMBDA head, tail : head \/ tail, list, FALSE)

\* from the last element on, which has a specialization of its own; op is a function of two elements
reduce(op, list) == FoldRight(LAMBDA head, tail : op[head, tail], Front(list), Last(list))
any_of(list) == reduce([head, tail \in BOOLEAN |-> head \/ tail], list)
all_of(list) == reduce([head, tail \in BOOLEAN |-> head /\ tail], list)
max_(list) == reduce([head, tail \in Int |-> IF head >= tail THEN head ELSE tail], list)
min_(list) == reduce([head, tail \in Int |-> IF head <= tail THEN head ELSE tail], list)

is_homogenous(list) ==
  FoldRightDomain(LAMBDA n, tail : n = Len(list) \/ (list[n] = list[n + 1] /\ tail), list, TRUE)

join(lists) == FoldLeft(LAMBDA one, other : one \o other, Head(lists), Tail(lists))

\* _At and _Index_of count from 0; the index of a type that is not there is that of the end
at(I, list) == FoldRightDomain(LAMBDA n, tail : IF n - 1 = I THEN list[n] ELSE tail, list, void)
index_of(T, list) == FoldRightDomain(LAMBDA n, tail : IF list[n] = T THEN n - 1 ELSE tail, list, Len(list))

\* Pred: the types that it is true for
find_first(Pred, list) == FoldRight(LAMBDA head, tail : IF head \in Pred THEN head ELSE tail, list, void)
count_if(Pred, list) == FoldRight(LAMBDA head, tail : IF head \in Pred THEN 1 + tail ELSE tail, list, 0)
count(T, list) == count_if({T}, list)

\* Constructible: the types with a constructor for the arguments in question
find_first_constructible(Constructible, list) == find_first(Constructible, list)
is_any_constructible(Constructible, list) == find_first_constructible(Constructible, list) # void
-----------------------------------------------------------------------------
\* What each of them is meant to be, over all the lists of these types: of two
\* ways to write an algorithm that the compiler runs, the one without a recursion.
MeansOn(types, maxLength) ==
  \A n \in 0..maxLength : \A list \in [1..n -> types] :
    LET places(T) == {i \in 1..n : list[i] = T}
        least(S) == CHOOSE i \in S : \A j \in S : i <= j
    IN  /\ first(list) = (IF n = 0 THEN void ELSE list[1])
        /\ last(list) = (IF n = 0 THEN void ELSE list[n])
        /\ \A I \in 0..(n + 1) : at(I, list) = (IF I < n THEN list[I + 1] ELSE void)
        /\ \A T \in types :
             LET differs == types \ {T}
             IN  /\ index_of(T, list) = (IF places(T) = {} THEN n ELSE least(places(T)) - 1)
                 /\ places(T) # {} => at(index_of(T, list), list) = T
                 /\ count(T, list) = Cardinality(places(T))
                 /\ count_if(differs, list) = n - Cardinality(places(T))
                 /\ find_first(differs, list) = (IF places(T) = 1..n THEN void
                                                 ELSE list[least((1..n) \ places(T))])
                 /\ is_any_constructible(differs, list) <=> places(T) # 1..n
                 /\ LET isT == [i \in 1..n |-> list[i] = T]
                    IN  /\ and_(isT) <=> places(T) = 1..n
                        /\ or_(isT) <=> places(T) # {}
                        /\ n > 0 => (all_of(isT) <=> and_(isT)) /\ (any_of(isT) <=> or_(isT))
                 /\ n > 0 => (is_homogenous(list) <=> \E type \in types : places(type) = 1..n)
        /\ \A m \in 0..n : n > 0 => join(<<SubSeq(list, 1, m), SubSeq(list, m + 1, n), list>>) = list \o list

\* The same for the greatest and the least of numbers.
OrdersOn(numbers, maxLength) ==
  \A n \in 1..maxLength : \A list \in [1..n -> numbers] :
    /\ \A i \in 1..n : list[i] <= max_(list) /\ list[i] >= min_(list)
    /\ {max_(list), min_(list)} \subseteq {list[i] : i \in 1..n}

\* The static_asserts that stand beside the templates.
FirstLastTest ==
  /\ first(<<>>) = void /\ \A list \in {<<"int">>, <<"int", "short">>, <<"int", "short", "double">>} : first(list) = "int"
  /\ last(<<>>) = void /\ last(<<"int">>) = "int" /\ last(<<"int", "short">>) = "short"
  /\ last(<<"int", "short", "double">>) = "double"
Digits == {<<0, 1, 2, 3, 4, 5, 6, 7, 8, 9>>, <<9, 0, 1, 2, 3, 4, 5, 6, 7, 8>>, <<0, 1, 2, 3, 4, 9, 5, 6, 7, 8>>,
           <<0, 9, 1, 8, 2, 7, 3, 6, 4, 5>>, <<5, 4, 6, 3, 7, 2, 8, 1, 9, 0>>}
sizeof == [char |-> 1, short |-> 2, int |-> 4, long |-> 8, double |-> 8]
sizes(list) == [i \in 1..Len(list) |-> sizeof[list[i]]]
MaxTest == (\A list \in Digits : max_(list) = 9) /\ max_(sizes(<<"char", "short", "int", "long">>)) = sizeof["long"]
MinTest == (\A list \in Digits : min_(list) = 0) /\ min_(sizes(<<"char", "short", "int", "long">>)) = sizeof["char"]
AtTest ==
  /\ at(0, <<>>) = void /\ at(1, <<"int">>) = void /\ at(2, <<"int", "short">>) = void
  /\ at(0, <<"int">>) = "int" /\ at(0, <<"int", "short">>) = "int" /\ at(1, <<"int", "short">>) = "short"
FindFirstTest ==
  LET is_size_1 == {T \in DOMAIN sizeof : sizeof[T] = 1}
  IN  /\ find_first(is_size_1, <<>>) = void
      /\ \A list \in {<<"char">>, <<"char", "int", "long">>, <<"int", "long", "char">>, <<"int", "char", "long">>} :
           find_first(is_size_1, list) = "char"
ReduceTest == reduce([one, other \in Int |-> one + other], <<1, 1>>) = 2
CountTest ==
  /\ count("int", <<"char">>) = 0 /\ count("int", <<"int">>) = 1 /\ count("int", <<"char", "int">>) = 1
  /\ count("int", <<"int", "char", "int">>) = 2 /\ count("int", <<"float", "char", "double">>) = 0
AnyAllTest ==
  /\ any_of(<<TRUE>>) /\ ~any_of(<<FALSE>>) /\ any_of(<<TRUE, FALSE>>) /\ any_of(<<FALSE, TRUE>>)
  /\ ~any_of(<<FALSE, FALSE, FALSE>>) /\ any_of(<<TRUE, TRUE, TRUE>>)
  /\ all_of(<<TRUE>>) /\ ~all_of(<<FALSE>>) /\ ~all_of(<<TRUE, FALSE>>) /\ ~all_of(<<FALSE, TRUE>>)
  /\ ~all_of(<<FALSE, FALSE, FALSE>>) /\ all_of(<<TRUE, TRUE, TRUE>>)
ConstructibleTest ==
  LET fromChars == {"string", "const char*"}
      fromA == {"A"}
  IN  /\ \A list \in {<<"string">>, <<"string", "A", "B">>, <<"A", "B", "string">>} :
           find_first_constructible(fromChars, list) = "string"
      /\ find_first_constructible(fromChars, <<"int", "long", "double">>) = void
      /\ find_first_constructible(fromA, <<"A", "B", "string">>) = "A"
      /\ ~is_any_constructible(fromA, <<"string", "int">>) /\ is_any_constructible(fromA, <<"A", "B", "int">>)
  /\ \A n \in 1..4 : is_homogenous([i \in 1..n |-> "int"])
StaticAsserts == /\ FirstLastTest /\ MaxTest /\ MinTest /\ AtTest /\ FindFirstTest /\ ReduceTest /\ CountTest
                 /\ AnyAllTest /\ ConstructibleTest
=============================================================================
