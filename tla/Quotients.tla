------------------------------ MODULE Quotients ------------------------------
(***************************************************************************)
(* What Python's round() makes of a power or a register value.             *)
(***************************************************************************)
EXTENDS Integers

\* round(a / b): to the nearest integer, and of two equally near to the even one.
RoundedQuotient(a, b) ==
    LET q == a \div b
        rest == 2 * (a % b)
    IN  IF rest < b \/ (rest = b /\ q % 2 = 0) THEN q ELSE q + 1
=============================================================================
