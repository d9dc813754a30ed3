--------------------------------- MODULE Sums ---------------------------------
(* Sums of integer functions over 1..n.  Both the exec phases (over the      *)
(* peers) and mergelists (over the lists of a team) add such functions up.   *)
EXTENDS Integers

\* f[1] + ... + f[n], by the partial sums s[0] .. s[n].
SumTo(n, f) ==
    LET s[i \in 0..n] == IF i = 0 THEN 0 ELSE s[i - 1] + f[i]
    IN  s[n]
===============================================================================
