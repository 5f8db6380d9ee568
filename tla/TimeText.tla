------------------------------ MODULE TimeText ------------------------------
(***************************************************************************)
(* Timestamps are stored as RFC 3339 text and SQL compares them as text.   *)
(* formatTime drops the trailing zeros of the fraction, and the fraction   *)
(* itself when it is zero, so within one second "...00Z" sorts after       *)
(* "...00.5Z": 'Z' is greater than '.'.                                    *)
(*                                                                         *)
(* Instants here are counted in half seconds, the coarsest unit in which   *)
(* the two orders differ: an even instant is written without a fraction,   *)
(* an odd one with ".5".                                                   *)
(***************************************************************************)
EXTENDS Naturals

second(t) == t \div 2
hasFraction(t) == t % 2 = 1

(* formatTime(a) < formatTime(b), as SQLite compares TEXT.                 *)
TextLess(a, b) ==
    \/ second(a) < second(b)
    \/ second(a) = second(b) /\ hasFraction(a) /\ ~hasFraction(b)

TextLeq(a, b) == a = b \/ TextLess(a, b)
=============================================================================
