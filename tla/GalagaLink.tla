----------------------------- MODULE GalagaLink -----------------------------
(* Galaga on two linked computers.  Each runs a board of its own on the       *)
(* merged controls of both; the session of the first computer also works the  *)
(* coin and start lines until the board's 51xx credit chip has accepted the   *)
(* two-player start.                                                          *)
EXTENDS Integers, FiniteSets

CONSTANTS
    GlBootFrames, GlStartFrames,    \* 240 and 300: no coin, no start before
    GlCoinEvery, GlCoinFrames,      \* 30 and 4: an automatic coin is on for 4 of 30 frames
    GlPulseFrames,                  \* 8: length of the start pulse
    GlRetryEvery, GlRetryAt,        \* 120 and 30: the pulse comes again 30 frames into 120
    GlCoinage,                      \* possible coins per credit, from the switches
    GlMaxCredits                    \* bound: players insert no coin past it (the chip stops at 99)

ASSUME GalagaLinkAssumption ==
    /\ GlBootFrames \in Nat /\ GlStartFrames \in Nat /\ GlBootFrames <= GlStartFrames
    /\ GlCoinEvery \in Nat \ {0} /\ GlCoinFrames \in 1..GlCoinEvery - 1 /\ GlPulseFrames \in Nat \ {0}
    /\ GlRetryEvery \in Nat /\ GlRetryAt \in Nat
    /\ GlRetryEvery % GlCoinEvery = 0 /\ GlRetryAt + GlPulseFrames <= GlRetryEvery
    /\ GlCoinage \subseteq Nat \ {0} /\ GlMaxCredits \in Nat

VARIABLES
    glFrames,       \* m_link_start_frames, in step with the coin cycle once past GlStartFrames
    glRequested,    \* m_start_requested
    glPulse,        \* m_start2_pulse_frames
    glConfirm,      \* m_start_confirmation_frames modulo GlRetryEvery
    glStarted,      \* m_two_player_started
    glChip,         \* of either board: mode, credits, coins, lines seen and players selected
    glCoinsPer,     \* coins_per_credit
    glHeld,         \* a player's coin pulse in the frame before
    glOver,         \* the partner is gone: the application closes
    glListened      \* history: frames without a start in which the board read its credits

glHost == << glFrames, glRequested, glPulse, glConfirm, glStarted >>
glvars == << glHost, glChip, glCoinsPer, glHeld, glOver, glListened >>

(* Frames of a listening board that a start may take.  Each turn of the coin   *)
(* brings an edge, of its line or of a player's; two credits need three times  *)
(* their coins less one, the last short of a credit in the other slot.  A      *)
(* start that was asked for comes back after the off time of the retry.       *)
Longer(a, b) == IF a >= b THEN a ELSE b
Late == Longer(GlBootFrames - GlCoinEvery, 0)
CoinsTake == Late + (3 * glCoinsPer - 1) * GlCoinEvery
GlPatience == Longer(CoinsTake, Longer(GlStartFrames, GlRetryEvery - GlPulseFrames))

Boards == {1, 2}
CoinLines == {"coin1", "coin2"}
NewChip == [mode |-> "switch", credits |-> 0, coins |-> [l \in CoinLines |-> 0], seen |-> {}, players |-> 0]

GlInit ==
    /\ glFrames = 0 /\ glRequested = FALSE /\ glPulse = 0 /\ glConfirm = 0 /\ glStarted = FALSE
    /\ glChip = [b \in Boards |-> NewChip] /\ glCoinsPer \in GlCoinage
    /\ glHeld = FALSE /\ glOver = FALSE /\ glListened = 0

-----------------------------------------------------------------------------
(* The 51xx: commands from the program, and credit_status.                    *)

Inserted(chip, lines) ==            \* insert_coin for every new edge of a coin line
    LET edge(l) == IF l \in lines \ chip.seen THEN 1 ELSE 0
        coins == [l \in CoinLines |-> chip.coins[l] + edge(l)]
        full == {l \in CoinLines : coins[l] >= glCoinsPer}
    IN  [chip EXCEPT !.credits = @ + Cardinality(full),
                     !.coins = [l \in CoinLines |-> IF l \in full THEN coins[l] - glCoinsPer ELSE coins[l]]]
CreditStatus(chip, lines) ==
    LET paid == [Inserted(chip, lines) EXCEPT !.seen = lines]
        two == chip.mode = "credit" /\ "start2" \in lines \ chip.seen /\ paid.credits >= 2
    IN  IF two THEN [paid EXCEPT !.credits = @ - 2, !.players = 2, !.mode = "play"] ELSE paid

(* What the program does with its chip in a frame: nothing, a read, the       *)
(* command that opens credit mode after its tests or a game, or the one that  *)
(* goes back to plain switches.                                               *)
Programs == {"busy", "read", "credit", "switch"}
May(program, chip) ==
    /\ program = "credit" => chip.mode \in {"switch", "play"}
    /\ program = "switch" => chip.mode = "credit"
Ran(program, chip, lines) ==
    CASE program = "busy"   -> chip
      [] program = "read"   -> IF chip.mode = "switch" THEN chip ELSE CreditStatus(chip, lines)
      [] program = "credit" -> [chip EXCEPT !.mode = "credit", !.players = 0]
      [] program = "switch" -> [chip EXCEPT !.mode = "switch"]

-----------------------------------------------------------------------------
(* The host's run_frame.                                                      *)

Next30(frames) == IF frames < GlStartFrames + GlCoinEvery - 1 THEN frames + 1 ELSE GlStartFrames
CoinTurn(frames) ==
    frames >= GlBootFrames /\ (frames - GlBootFrames) % GlCoinEvery < GlCoinFrames
RetryTurnSlip(confirm) == FALSE
\* The retry repeats only the two-player start.
RetryTurn(confirm) == confirm >= GlRetryAt /\ confirm < GlRetryAt + GlPulseFrames
(* The lines of the host's board and what the session remembers of them.      *)
HostLines(lines) ==
    LET credits == glChip[1].credits
        waits == ~glStarted /\ ~glRequested
        frames == IF waits THEN Next30(glFrames) ELSE glFrames
        ready == waits /\ frames >= GlStartFrames /\ credits >= 2
        asked == ~glStarted /\ (glRequested \/ ready)
        confirm == IF asked THEN ((IF ready THEN 0 ELSE glConfirm) + 1) % GlRetryEvery ELSE glConfirm
        pulse == IF ready THEN GlPulseFrames ELSE glPulse
        start == asked /\ (pulse > 0 \/ (credits >= 2 /\ RetryTurn(confirm)))
        coin == \/ waits /\ CoinTurn(frames) /\ credits < 2
                \/ asked /\ pulse = 0 /\ credits < 2 /\ confirm % GlCoinEvery < GlCoinFrames
    IN  [lines |-> (IF glStarted THEN lines ELSE lines \ {"start2"})
                    \cup (IF start THEN {"start2"} ELSE {}) \cup (IF coin THEN {"coin1"} ELSE {}),
         frames |-> frames, requested |-> glRequested \/ ready, confirm |-> confirm,
         pulse |-> IF asked /\ pulse > 0 THEN pulse - 1 ELSE pulse]
(* A start of either player is the two-player start, a coin credits both slots. *)
Merged(coin, start) == (IF coin THEN CoinLines ELSE {}) \cup (IF start THEN {"start2"} ELSE {})

(* One frame of both boards.  The boards and their programs are the same:     *)
(* while the chips agree they do the same.                                    *)
BothRun(coin, start, first, second) ==
    LET lines == Merged(coin, start)
        host == HostLines(lines)
        one == Ran(first, glChip[1], host.lines)
    IN  /\ ~glOver
        /\ coin => ~glHeld /\ glChip[1].credits < GlMaxCredits /\ glChip[2].credits < GlMaxCredits
        /\ May(first, glChip[1]) /\ May(second, glChip[2])
        /\ glChip[1] = glChip[2] => first = second
        /\ glChip' = [b \in Boards |-> IF b = 1 THEN one ELSE Ran(second, glChip[2], lines)]
        /\ glFrames' = host.frames /\ glRequested' = host.requested
        /\ glConfirm' = host.confirm /\ glPulse' = host.pulse
        /\ glStarted' = (glStarted \/ (host.requested /\ one.players = 2))
        /\ glHeld' = coin
        /\ glListened' = IF glStarted' THEN 0
                         ELSE IF first = "read" /\ glChip[1].mode = "credit"
                              THEN (IF glListened > GlPatience THEN glListened ELSE glListened + 1) ELSE 0
        /\ UNCHANGED << glCoinsPer, glOver >>
PartnerGone ==              \* the host's clock starts over and the application closes
    /\ ~glOver /\ glOver' = TRUE /\ glFrames' = 0
    /\ UNCHANGED << glRequested, glPulse, glConfirm, glStarted, glChip, glCoinsPer, glHeld, glListened >>

GlNext ==
    \/ \E coin, start \in BOOLEAN, first, second \in Programs : BothRun(coin, start, first, second)
    \/ PartnerGone
GlSpec == GlInit /\ [][GlNext]_glvars

-----------------------------------------------------------------------------
\* However the coins fall and wherever in its attract mode the board is, the
\* two-player start is accepted once the program has listened long enough.
StartedInTime == glListened <= GlPatience

=============================================================================
