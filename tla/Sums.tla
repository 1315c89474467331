--------------------------------- MODULE Sums ---------------------------------
(***************************************************************************)
(* The sum of a function into the natural numbers, as the number of its    *)
(* units: a row worth n stands for n units.  Properties that compare a     *)
(* stored total with its rows use it instead of a fold, because what a     *)
(* change of one row does to a cardinality can be proved (SumsProofs) and  *)
(* what it does to a recursive definition cannot.                          *)
(***************************************************************************)
EXTENDS Naturals, FiniteSets

UnitsAt(f, x) == {x} \X (1 .. f[x])
Units(f) == UNION {UnitsAt(f, x) : x \in DOMAIN f}
UnitSum(f) == Cardinality(Units(f))
===============================================================================
