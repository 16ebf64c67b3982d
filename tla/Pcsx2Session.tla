---------------------------- MODULE Pcsx2Session ----------------------------
(* The System 246 session over the PCSX2 module.  The host thread starts the *)
(* machine's CPU thread, sends it controls, coins and pauses and fetches the *)
(* pictures the GS thread captured.  The module stays loaded: what it keeps  *)
(* in statics is there in the next game.                                     *)
EXTENDS Naturals, Sequences

CONSTANTS
    MaxGames,       \* bound: games played one after the other
    MaxCoins,       \* bound: coins inserted
    MaxCaptures,    \* bound: pictures captured
    MaxPauses       \* bound: pauses waiting for the CPU thread

ASSUME Pcsx2Assumption == /\ MaxGames \in Nat /\ MaxCoins \in Nat
                          /\ MaxCaptures \in Nat
                          /\ MaxPauses \in Nat

VARIABLES
    phost,          \* where the session is
    pgame,          \* number of the game
    pcpu,           \* where the CPU thread is
    pvm,            \* external: the state VMManager is in
    prunning,       \* g_vm_running
    pqueue,         \* s_wa_cpu_queue: pauses for the CPU thread
    ppaused,        \* m_paused of the session
    pcoins,         \* s_in_pending_coins
    pcoinline,      \* m_prev_coin
    pinserted,      \* coins the players inserted
    pcredited,      \* coins the board was given
    pboot,          \* s_boot_stage
    pframe,         \* s_wa_frame_sequence and the game in the picture
    phostseq,       \* g_host_frame_seq
    pscreen,        \* what is on the screen: loading, or a game's picture
    pdrawn          \* m_game_has_drawn

pvars == << phost, pgame, pcpu, pvm, prunning, pqueue, ppaused, pcoins, pcoinline,
            pinserted, pcredited, pboot, pframe, phostseq, pscreen, pdrawn >>

(* Starting, Configuring, StartingMachine, LoadingGame, Drawing. *)
Starting == 0
Configuring == 1
StartingMachine == 2
LoadingGame == 3
Drawing == 4
Loading == 0    \* in pscreen: no game's picture

(* SetBootStage: only ever forward. *)
SetBootStage(now, wanted) == IF wanted > now THEN wanted ELSE now

Pcsx2Init ==
    /\ phost = "new" /\ pgame = 1 /\ pcpu = "none" /\ pvm = "shutdown" /\ prunning = FALSE
    /\ pqueue = << >> /\ ppaused = FALSE
    /\ pcoins = 0 /\ pcoinline = FALSE /\ pinserted = 0 /\ pcredited = 0
    /\ pboot = Starting /\ pframe = [sequence |-> 0, game |-> 0] /\ phostseq = 0
    /\ pscreen = Loading /\ pdrawn = FALSE

pinput == << pcoins, pcoinline, pinserted, pcredited >>
ppicture == << pframe, phostseq, pscreen, pdrawn >>

-----------------------------------------------------------------------------
(* The session, on the host thread. *)

(* initialize: the module may be missing or refuse to start.  Configuring    *)
(* may fail only in the first game: its success is remembered.               *)
Initialize ==
    /\ phost = "new"
    /\ \/ /\ phost' = "playing" /\ pcpu' = "start"
          /\ pboot' = SetBootStage(SetBootStage(pboot, Configuring), StartingMachine)
       \/ phost' = "closing" /\ UNCHANGED << pcpu, pboot >>
    /\ UNCHANGED << pgame, pvm, prunning, pqueue, ppaused >>
    /\ UNCHANGED pinput /\ UNCHANGED ppicture

(* update_input: one coin per rising edge of the coin switch. *)
CoinsOf(closed) == IF closed /\ ~pcoinline THEN 1 ELSE 0
UpdateInput(closed) ==
    /\ phost = "playing" /\ pinserted + CoinsOf(closed) <= MaxCoins
    /\ closed # pcoinline
    /\ pcoinline' = closed
    /\ pinserted' = pinserted + CoinsOf(closed) /\ pcoins' = pcoins + CoinsOf(closed)
    /\ UNCHANGED << phost, pgame, pcpu, pvm, prunning, pqueue, ppaused, pboot, pcredited >>
    /\ UNCHANGED ppicture

(* GetLatestFrame and the choice of run_frame: a new picture, or the loading *)
(* screen as long as the game has not drawn.                                 *)
NewPicture == pframe.sequence # 0 /\ pframe.sequence # phostseq
ShowPicture ==
    /\ phost = "playing"
    /\ IF NewPicture
       THEN /\ phostseq' = pframe.sequence /\ pscreen' = pframe.game /\ pdrawn' = TRUE
       ELSE /\ ~pdrawn /\ pscreen' = Loading /\ UNCHANGED << phostseq, pdrawn >>
    /\ UNCHANGED << phost, pgame, pcpu, pvm, prunning, pqueue, ppaused, pboot, pframe >>
    /\ UNCHANGED pinput

(* set_audio_paused forwards a change only; the module ignores it unless the *)
(* machine runs, and otherwise leaves it to the CPU thread.                  *)
Pause(paused) ==
    /\ phost = "playing" /\ paused # ppaused /\ Len(pqueue) < MaxPauses
    /\ ppaused' = paused
    /\ pqueue' = IF prunning THEN Append(pqueue, paused) ELSE pqueue
    /\ UNCHANGED << phost, pgame, pcpu, pvm, prunning, pboot >>
    /\ UNCHANGED pinput /\ UNCHANGED ppicture

(* The destructor: wa_pcsx2_stop does nothing without a thread to join. *)
Stop ==
    /\ phost \in {"playing", "closing"}
    /\ IF pcpu = "none" THEN phost' = "closed" /\ UNCHANGED pvm
       ELSE phost' = "joining" /\ pvm' = "stopping"
    /\ UNCHANGED << pgame, pcpu, prunning, pqueue, ppaused, pboot >>
    /\ UNCHANGED pinput /\ UNCHANGED ppicture
Join ==
    /\ phost = "joining" /\ pcpu = "ended"
    /\ phost' = "closed" /\ pcpu' = "none" /\ prunning' = FALSE
    /\ UNCHANGED << pgame, pvm, pqueue, ppaused, pboot >>
    /\ UNCHANGED pinput /\ UNCHANGED ppicture

(* The next game: a new session over the module as it was left. *)
NextGame ==
    /\ phost = "closed" /\ pgame < MaxGames
    /\ phost' = "new" /\ pgame' = pgame + 1
    /\ ppaused' = FALSE /\ pcoinline' = FALSE /\ pscreen' = Loading /\ pdrawn' = FALSE
    /\ UNCHANGED << pcpu, pvm, prunning, pqueue, pcoins, pinserted, pcredited,
                    pboot, pframe, phostseq >>

-----------------------------------------------------------------------------
(* The CPU thread. *)

phostOwn == << phost, pgame, ppaused >>

(* CPUThreadInitialize and VMManager::Initialize, each of which may fail. *)
Boot ==
    /\ pcpu = "start"
    /\ \/ pcpu' = "ended" /\ UNCHANGED << pvm, pboot >>
       \/ /\ pcpu' = "initialized" /\ pvm' = "paused"
          /\ pboot' = SetBootStage(pboot, LoadingGame)
    /\ UNCHANGED << prunning, pqueue >> /\ UNCHANGED phostOwn
    /\ UNCHANGED pinput /\ UNCHANGED ppicture
MarkRunning ==
    /\ pcpu = "initialized" /\ pcpu' = "marked" /\ prunning' = TRUE
    /\ UNCHANGED << pvm, pqueue, pboot >> /\ UNCHANGED phostOwn
    /\ UNCHANGED pinput /\ UNCHANGED ppicture
SetRunning ==
    /\ pcpu = "marked" /\ pcpu' = "executing" /\ pvm' = "running"
    /\ UNCHANGED << prunning, pqueue, pboot >> /\ UNCHANGED phostOwn
    /\ UNCHANGED pinput /\ UNCHANGED ppicture

(* The pump of a vertical sync: what is queued for this thread, then the     *)
(* controls; coins are taken out of the counter as they are given.           *)
TakenSlip(coins) == coins
Taken(coins) == 0
Pump ==
    /\ pcpu = "executing" /\ pvm = "running"
    /\ pvm' = IF pqueue # << >> /\ pqueue[Len(pqueue)] THEN "paused" ELSE pvm
    /\ pqueue' = << >>
    /\ pcredited' = pcredited + pcoins /\ pcoins' = Taken(pcoins)
    /\ UNCHANGED << pcpu, prunning, pboot, pcoinline, pinserted >>
    /\ UNCHANGED phostOwn /\ UNCHANGED ppicture

(* Any state but "running" ends the loop and shuts the machine down. *)
LeaveLoop ==
    /\ pcpu = "executing" /\ pvm # "running"
    /\ pcpu' = "shutting down" /\ pvm' = "shutdown"
    /\ UNCHANGED << prunning, pqueue, pboot >> /\ UNCHANGED phostOwn
    /\ UNCHANGED pinput /\ UNCHANGED ppicture
EndThread ==
    /\ pcpu = "shutting down" /\ pcpu' = "ended" /\ prunning' = FALSE
    /\ UNCHANGED << pvm, pqueue, pboot >> /\ UNCHANGED phostOwn
    /\ UNCHANGED pinput /\ UNCHANGED ppicture

(* The GS thread captures a picture of the running machine, blank or not. *)
Capture ==
    /\ pcpu \in {"executing", "shutting down"} /\ pframe.sequence < MaxCaptures
    /\ pframe' = [sequence |-> pframe.sequence + 1, game |-> pgame]
    /\ \/ pboot' = SetBootStage(pboot, Drawing) \/ UNCHANGED pboot
    /\ UNCHANGED << pcpu, pvm, prunning, pqueue, phostseq, pscreen, pdrawn >>
    /\ UNCHANGED phostOwn /\ UNCHANGED pinput

Pcsx2Host ==
    \/ Initialize \/ ShowPicture \/ Stop \/ Join \/ NextGame
    \/ \E closed \in BOOLEAN : UpdateInput(closed)
    \/ \E paused \in BOOLEAN : Pause(paused)
Pcsx2Cpu == Boot \/ MarkRunning \/ SetRunning \/ Pump \/ LeaveLoop \/ EndThread
Pcsx2Next == Pcsx2Host \/ Pcsx2Cpu \/ Capture
Pcsx2Spec == Pcsx2Init /\ [][Pcsx2Next]_pvars

-----------------------------------------------------------------------------
(* Every coin inserted is either waiting in the counter or was given to the  *)
(* board, once, whichever thread was at the counter and whatever game runs.  *)
CoinsKept == pcredited + pcoins = pinserted
=============================================================================
