------------------------------- MODULE MaxMin -------------------------------
(* Zig's @max and @min of two numbers.                                     *)
EXTENDS Integers

Larger(a, b) == IF a > b THEN a ELSE b
Smaller(a, b) == IF a < b THEN a ELSE b
=============================================================================
