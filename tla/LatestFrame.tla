----------------------------- MODULE LatestFrame -----------------------------
(***************************************************************************)
(* What the presentation worker of src/src/arcade_video_worker.cpp         *)
(* promises the board that draws and the player who looks: every picture   *)
(* is shown as the board built it, none after a newer one, one is skipped  *)
(* only for a newer one or because its game ends, and no game begins with  *)
(* a picture of another.  Mailbox, uploads, task queue and fence are how   *)
(* the worker keeps that promise.                                          *)
(***************************************************************************)
EXTENDS Naturals

CONSTANT Blank  \* what a window shows before its first picture

VARIABLES
    last,   \* the number of the newest picture the board has built
    left,   \* pictures left for the window: their numbers and what they hold
    shown,  \* the picture on the screen
    open    \* a game runs in a window that is there

vars == <<last, left, shown, open>>

Init == last = 0 /\ left = {} /\ shown = Blank /\ open = FALSE

(* Any older picture may go for a new one.  Without a window none is left. *)
Submit ==
    /\ last' = last + 1
    /\ IF open
       THEN \E new \in left' : new.number = last' /\ left' \ {new} \subseteq left
       ELSE UNCHANGED left
    /\ UNCHANGED <<shown, open>>

Show ==
    /\ \E picture \in left :
        /\ picture.number > shown.number
        /\ shown' = picture
        /\ left' = {p \in left : p.number > picture.number}
    /\ UNCHANGED <<last, open>>

(* The game ends or the window closes; only then may a picture be lost.    *)
Close == open /\ open' = FALSE /\ UNCHANGED <<last, left, shown>>
Drop == ~open /\ left' \subseteq left /\ UNCHANGED <<last, shown, open>>

(* A game begins with nothing left over, in a new window or the old one.   *)
Open == ~open /\ left = {} /\ open' = TRUE /\ UNCHANGED <<last, left, shown>>
NewWindow ==
    /\ ~open /\ left = {}
    /\ shown' = Blank
    /\ UNCHANGED <<last, left, open>>

Next == Submit \/ Show \/ Close \/ Drop \/ Open \/ NewWindow

Spec == Init /\ [][Next]_vars
(* While the game runs and its window is there, what is left is shown.     *)
FairSpec == Spec /\ WF_vars(open /\ Show)
=============================================================================
