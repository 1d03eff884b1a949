--------------------------- MODULE PictureRegister --------------------------
(***************************************************************************)
(* What the transport of pictures promises a window: it shows the picture  *)
(* that was finished last when it looked, whole and in its own size, or    *)
(* nothing.  Publishing a picture and showing one are single steps, rows   *)
(* and locks do not exist.                                                 *)
(***************************************************************************)
EXTENDS Integers

CONSTANTS
    Sizes,   \* picture sizes
    Rows     \* rows of a picture

VARIABLES
    held,    \* the picture finished last
    shown    \* the picture in the window

rvars == <<held, shown>>

\* Frame n in size s, the same frame in every row; frame -1 is no picture.
Picture(n, s) == [size |-> s, rows |-> [r \in 1..Rows |-> [no |-> n, size |-> s]]]
Blank(s) == Picture(-1, s)
Number(p) == p.rows[1].no

Init == \E s, t \in Sizes : held = Blank(s) /\ shown = Blank(t)

\* Frames are numbered from 1.
Publish(s) ==
    /\ held' = Picture(IF Number(held) = -1 THEN 1 ELSE Number(held) + 1, s)
    /\ UNCHANGED shown

Show == shown' = held /\ UNCHANGED held

\* A texture of another size is created and its lock fails.
Lose(s) == shown' = Blank(s) /\ UNCHANGED held

Next == Show \/ \E s \in Sizes : Publish(s) \/ Lose(s)

Spec == Init /\ [][Next]_rvars

\* A window never goes back to an older picture.
NeverOlder == [][Number(shown') >= Number(shown) \/ Number(shown') = -1]_rvars
=============================================================================
