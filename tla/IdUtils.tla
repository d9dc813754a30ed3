------------------------------ MODULE IdUtils ------------------------------
(***************************************************************************)
(* Arithmetic on the Chord circle (utils/id_utils.C).  An identifier is a  *)
(* number of NBIT bits; NBIT is 160 in the program and small here.         *)
(***************************************************************************)
EXTENDS Integers, Sequences, FiniteSets

CONSTANT NBIT

Size == 2^NBIT
ID == 0 .. Size - 1

incID(x) == (x + 1) % Size
decID(x) == IF x = 0 THEN Size - 1 ELSE x - 1
(* The start of finger p: 2^p past x.                                      *)
successorID(x, p) == (x + 2^p) % Size
(* Is x inside the arc from a to b?  (a, a) is everything but a, and the   *)
(* three closed forms of the arc from a to a are everything.               *)
between(a, b, x) ==
    IF a = b THEN x # a
    ELSE IF a < b THEN x > a /\ x < b
    ELSE x > a \/ x < b
betweenleftincl(a, b, x) ==
    IF a = b /\ x = a THEN TRUE
    ELSE IF a < b THEN x >= a /\ x < b
    ELSE x >= a \/ x < b
betweenrightincl(a, b, x) ==
    IF a = b /\ x = a THEN TRUE
    ELSE IF a < b THEN x > a /\ x <= b
    ELSE x > a \/ x <= b
betweenbothincl(a, b, x) ==
    IF a = b /\ x = a THEN TRUE
    ELSE IF a < b THEN x >= a /\ x <= b
    ELSE x >= a \/ x <= b

(* The way from a to b going up; all the way round when a = b.             *)
distance(a, b) == IF a < b THEN b - a ELSE Size - a + b
(* The code's diff: on a wrap it subtracts the negative difference.        *)
diff(a, b) == IF b - a > 0 THEN b - a ELSE Size - (b - a)
=============================================================================
