----------------------------- MODULE PointerPath -----------------------------
(***************************************************************************)
(* The tables the pointing rigs of emu/main.c share: the circle's steps and *)
(* the scroll bursts, and where a pointer that follows them is.            *)
(***************************************************************************)
EXTENDS Integers, Sequences, Functions

XY(a, b) == [x |-> a, y |-> b]
XYs == [x : Int, y : Int]
Zero == XY(0, 0)
Plus(a, b) == XY(a.x + b.x, a.y + b.y)

CircleSteps == 48
Circle == <<
    XY(-1, 8), XY(-1, 8), XY(-3, 7), XY(-3, 7), XY(-4, 7), XY(-6, 5), XY(-5, 6), XY(-7, 4),
    XY(-7, 3), XY(-7, 3), XY(-8, 1), XY(-8, 1), XY(-8, -1), XY(-8, -1), XY(-7, -3), XY(-7, -3),
    XY(-7, -4), XY(-5, -6), XY(-6, -5), XY(-4, -7), XY(-3, -7), XY(-3, -7), XY(-1, -8), XY(-1, -8),
    XY(1, -8), XY(1, -8), XY(3, -7), XY(3, -7), XY(4, -7), XY(6, -5), XY(5, -6), XY(7, -4),
    XY(7, -3), XY(7, -3), XY(8, -1), XY(8, -1), XY(8, 1), XY(8, 1), XY(7, 3), XY(7, 3),
    XY(7, 4), XY(5, 6), XY(6, 5), XY(4, 7), XY(3, 7), XY(3, 7), XY(1, 8), XY(1, 8) >>

\* {wheel, pan}, as x and y
Scroll == << XY(3, 0), XY(-3, 0), XY(0, 3), XY(0, -3) >>
ScrollSteps == Len(Scroll)

Along(table) ==
    LET after[n \in 0..Len(table)] == IF n = 0 THEN Zero ELSE Plus(after[n - 1], table[n])
    IN after

\* Where the first n steps of the table lead.
OnCircle == Along(Circle)
OnScroll == Along(Scroll)
==============================================================================
