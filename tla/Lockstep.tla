------------------------------- MODULE Lockstep -------------------------------
(***************************************************************************)
(* What the netplay link of src/src/arcade_input.cpp promises the two      *)
(* boards: each player's inputs form one log, a cabinet may commit its     *)
(* input up to Delay frames ahead of its board, and a board runs a frame   *)
(* only once both logs hold it, with exactly the two inputs they hold.     *)
(***************************************************************************)
EXTENDS Naturals, Sequences

CONSTANTS
    Inputs,   \* the values of input_state
    Neutral,  \* input_state{}
    Delay,    \* netplay_delay_frames
    MaxFrame  \* bound: frames a board runs

Node == 1..2

VARIABLES
    log,   \* the inputs each player has committed, frame by frame
    board  \* the pairs of inputs each board has run, frame by frame

vars == <<log, board>>

TypeOK ==
    /\ log \in [Node -> Seq(Inputs)]
    /\ board \in [Node -> Seq(Inputs \X Inputs)]

(* The first Delay frames precede any action of a player. *)
Init ==
    /\ log = [n \in Node |-> [k \in 1..Delay |-> Neutral]]
    /\ board = [n \in Node |-> <<>>]

(* The log of n reaches Delay frames past its board. *)
AtFront(n) == Len(log[n]) = Len(board[n]) + Delay

(* The two inputs of the k-th frame. *)
Pair(k) == <<log[1][k], log[2][k]>>

Commit(n) ==
    /\ Len(board[n]) < MaxFrame
    /\ AtFront(n)
    /\ \E input \in Inputs : log' = [log EXCEPT ![n] = Append(@, input)]
    /\ UNCHANGED board

Step(n) ==
    LET k == Len(board[n]) + 1
    IN  /\ \A m \in Node : k <= Len(log[m])
        /\ ~AtFront(n)
        /\ board' = [board EXCEPT ![n] = Append(@, Pair(k))]
        /\ UNCHANGED log

(* The bound is reached. *)
Done ==
    /\ \A n \in Node : Len(board[n]) = MaxFrame
    /\ UNCHANGED vars

Next == (\E n \in Node : Commit(n) \/ Step(n)) \/ Done

Spec == Init /\ [][Next]_vars
FairSpec == Spec /\ \A n \in Node : WF_vars(Commit(n)) /\ WF_vars(Step(n))
=============================================================================
