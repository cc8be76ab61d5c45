------------------------------- MODULE Rounding -------------------------------
(***************************************************************************)
(* Rounding as math.Round and the type DECIMAL do it for numbers that are  *)
(* not negative: to the nearest integer, halves up.                        *)
(***************************************************************************)
EXTENDS Integers

\* a / b rounded, for natural a and b > 0.
Rounded(a, b) == (2 * a + b) \div (2 * b)
===============================================================================
