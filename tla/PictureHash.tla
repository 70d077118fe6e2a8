------------------------------ MODULE PictureHash ------------------------------
(***************************************************************************)
(* deterministic_hash (src/src/draw/painter.py): what is fed to the digest *)
(* that stands for a list of drawing operations.  A value is a record of   *)
(* its kind, its data, the values it holds, and the rank of the text it is *)
(* sorted by; a dict and an object hold names and values in turn, and an   *)
(* object without attributes that is iterable its items.  The machine      *)
(* takes two values and feeds both.                                        *)
(*                                                                         *)
(* Where the order is that of the iteration of a set, any order may come   *)
(* out, so what is fed is a set of sequences; it is empty for a dict whose *)
(* keys do not compare, which is not hashed at all.  Values are trees: the *)
(* mark of a value that contains itself is left out.                       *)
(***************************************************************************)
EXTENDS Integers, SequencesExt

CONSTANTS
    Values,         \* what may be hashed
    Word            \* -Word \div 2 .. Word - 1: the integers that fit eight bytes

VARIABLES value, other, fed, otherFed

vars == <<value, other, fed, otherFed>>

Kinds == {"none", "bool", "int", "float", "str", "bytes", "list", "tuple", "dict",
          "set", "image", "array", "record", "object", "iterable"}

\* The invariant on types: what each variable may hold.
TypeOK ==
    /\ {value, other} \subseteq Values
    /\ {value.kind, other.kind} \subseteq Kinds
    /\ \A s \in fed \cup otherFed : Len(s) > 0

\* Eight bytes for an integer, signed or not, or its digits when they do not hold it.
Packed(i) ==
    IF i \in (-(Word \div 2))..(Word - 1) THEN << i % Word >>
    ELSE (IF i < 0 THEN <<"-">> ELSE << >>) \o << "0", "x", IF i < 0 THEN -i ELSE i >>

\* A text is preceded by its length.
TextAlone(s) == s
LengthThen(s) == << Len(s) >> \o s

Names(v) == {k \in DOMAIN v.holds : k % 2 = 1}
Public(v) == {k \in Names(v) : v.holds[k].data[1] # "_"}

\* The orders of a sort by text; equal texts stay in the order of the iteration.
Sorted(v, places) ==
    {p \in SetToSeqs(places) :
        \A j, k \in 1..Len(p) : j < k => v.holds[p[j]].rank <= v.holds[p[k]].rank}

\* Every way to write one of each of the sets of sequences, in their order.
InTurn(head, sets) ==
    FoldLeft(LAMBDA done, s : {d \o t : d \in done, t \in s}, {head}, sets)

RECURSIVE Serialize(_)
Pairs(v, places) ==
    UNION {InTurn(<< >>, FlattenSeq([j \in DOMAIN p |->
               << Serialize(v.holds[p[j]]), Serialize(v.holds[p[j] + 1]) >>])) :
           p \in Sorted(v, places)}
\* A sort of keys raises where a string meets a number.
Comparable(v) == \A j, k \in Names(v) : (v.holds[j].kind = "str") = (v.holds[k].kind = "str")
Serialize(v) ==
    CASE v.kind = "none" -> { <<"N">> }
      [] v.kind = "bool" -> { <<"B">> \o v.data }
      [] v.kind = "int" -> { <<"I">> \o Packed(v.data[1]) }
      [] v.kind = "float" -> { <<"F">> \o v.data }
      [] v.kind = "str" -> { <<"S">> \o LengthThen(v.data) }
      [] v.kind = "bytes" -> { <<"Y">> \o LengthThen(v.data) }
      [] v.kind \in {"list", "tuple"} ->
           InTurn(<< IF v.kind = "list" THEN "L" ELSE "T", Len(v.holds) >>,
                  [k \in DOMAIN v.holds |-> Serialize(v.holds[k])])
      [] v.kind = "dict" ->
           IF Comparable(v)
           THEN {<< "D", Len(v.holds) \div 2 >> \o s : s \in Pairs(v, Names(v))} ELSE {}
      [] v.kind = "set" ->
           UNION {InTurn(<< "E", Len(v.holds) >>, [j \in DOMAIN p |-> Serialize(v.holds[p[j]])]) :
                  p \in Sorted(v, DOMAIN v.holds)}
      [] v.kind = "image" -> { <<"P">> \o LengthThen(<< v.data[1] >>) \o LengthThen(Tail(v.data)) }
      [] v.kind = "array" -> { <<"A">> \o LengthThen(<< v.data[1] >>) \o Tail(v.data) }
      [] v.kind = "record" ->
           InTurn(<<"C">> \o LengthThen(v.data), [k \in DOMAIN v.holds |-> Serialize(v.holds[k])])
      [] v.kind = "object" ->
           IF Public(v) = {} THEN { <<"O">> \o LengthThen(v.data) \o <<"UNKNOWN">> }
           ELSE {<<"O">> \o LengthThen(v.data) \o s : s \in Pairs(v, Public(v))}
      [] v.kind = "iterable" ->
           InTurn(<<"O">> \o LengthThen(v.data) \o <<"ITER">>,
                  [k \in DOMAIN v.holds |-> Serialize(v.holds[k])])

Init ==
    /\ value \in Values
    /\ other \in Values
    /\ fed = {}
    /\ otherFed = {}

Hash ==
    /\ fed = {} /\ otherFed = {}
    /\ fed' = Serialize(value)
    /\ otherFed' = Serialize(other)
    /\ UNCHANGED <<value, other>>

Next == Hash

Spec == Init /\ [][Next]_vars

-------------------------------------------------------------------------------

\* What a value means: an order of names or of the items of a set is none of it, nor is
\* what an object keeps to itself.  As bytes, a negative integer is a large one.
RECURSIVE Meaning(_, _)
Meaning(v, asBytes) ==
    LET M(k) == Meaning(v.holds[k], asBytes)
    IN  CASE v.kind = "int" /\ asBytes -> << "int", Packed(v.data[1]) >>
          [] v.kind = "set" -> << "set", Len(v.holds), {M(k) : k \in DOMAIN v.holds} >>
          [] v.kind = "dict" -> << "dict", {<<M(k), M(k + 1)>> : k \in Names(v)} >>
          [] v.kind = "object" -> << "object", v.data, {<<M(k), M(k + 1)>> : k \in Public(v)} >>
          [] OTHER -> << v.kind, v.data, [k \in DOMAIN v.holds |-> M(k)] >>

\* How many values of a value end nowhere: attributes and the items of an iterable are
\* fed without their number.
RECURSIVE OpenEnds(_)
OpenEnds(v) ==
    (IF v.kind \in {"object", "iterable"} THEN 1 ELSE 0)
        + FoldLeft(+, 0, [k \in DOMAIN v.holds |-> OpenEnds(v.holds[k])])

\* Two values are fed alike only if they mean the same, whatever they are nested in:
\* types are told apart and a text ends where it ends.  The exceptions are a negative
\* integer and the one 2^64 above, and values with an object next to or in another,
\* where what follows the one may as well be part of the other.  And two that mean the
\* same can always be fed alike: an order that means nothing changes nothing (the
\* comments of painter.py:69-96).
FedAlike ==
    fed # {} /\ otherFed # {} =>
        /\ fed \cap otherFed # {} /\ OpenEnds(value) < 2 /\ OpenEnds(other) < 2 =>
               Meaning(value, TRUE) = Meaning(other, TRUE)
        /\ Meaning(value, FALSE) = Meaning(other, FALSE) => fed \cap otherFed # {}

===============================================================================
