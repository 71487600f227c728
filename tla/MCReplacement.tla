---------------------------- MODULE MCReplacement ----------------------------
(* Constants for checking Replacement with TLC. *)
EXTENDS Replacement, TLC

CONSTANTS x1, x2, y1, y2

ByX(x, s) == [by |-> "x", key |-> x, list |-> s]
ByY(y, s) == [by |-> "y", key |-> y, list |-> s]

GroupLists == {ByX(x1, <<y1, y2>>), ByX(x1, <<>>), ByX(x2, <<y1>>),
               ByY(y1, <<x1, x2>>), ByY(y1, <<x2, x1>>)}
ZoneLists == {ByY(y1, <<x1, x2>>), ByY(y1, <<x2, x1>>), ByY(y1, <<x1>>),
              ByY(y2, <<x2, x1>>), ByY(y2, <<>>)}
MCLists == [c \in Tables |-> IF c = "error" THEN GroupLists ELSE ZoneLists]
=============================================================================
