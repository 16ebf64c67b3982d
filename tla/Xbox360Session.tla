--------------------------- MODULE Xbox360Session ---------------------------
(* Two ways to play an Xbox 360 title: as a module and as a child process.   *)
(* An Xbox 360 title in the process: the loader of the runtime module, the   *)
(* runtime with its audio mailbox between the title's audio drivers and the  *)
(* host, the pause, the achievements, and the audio output the host feeds.   *)
(* A packet of sound is its driver, its number and the parts still unread.   *)
EXTENDS Naturals, Sequences, FiniteSets, FiniteSetsExt

CONSTANTS
    Drivers,        \* audio drivers the title creates
    Credits,        \* external: what a driver's semaphore holds at first
    MaxAudioPackets,     \* kMaximumAudioPackets: 48
    PacketParts,    \* parts of a packet a read can stop between
    MaxSamples,     \* what the audio output keeps, in parts: 250 ms
    MaxSubmits,     \* bound: packets submitted
    MaxUnlocks      \* bound: achievements unlocked

ASSUME X360Assumption ==
    /\ Credits \in Nat /\ MaxSubmits \in Nat /\ MaxUnlocks \in Nat
    /\ MaxAudioPackets \in Nat \ {0} /\ PacketParts \in Nat \ {0} /\ MaxSamples \in Nat \ {0}

VARIABLES
    xstage,         \* how far initialize has come, or where the session is
    xlibrary,       \* the module is loaded
    xruntime,       \* runtime is set up
    xlistener,      \* the achievement callback is registered
    xalive,         \* drivers that exist
    xcredit,        \* the count of each driver's semaphore
    xpackets,       \* packets_, oldest first
    xsubmitted,     \* packets submitted
    xsamples,       \* m_samples of the audio output, as <<packet, part>>
    xheard,         \* what the device took last
    xpaused,        \* paused
    xsuspended,     \* suspend count of the title's main thread
    xevents,        \* achievement_events
    xreported,      \* achievements the host has reported
    xunlocked       \* achievements the title has unlocked

xvars == << xstage, xlibrary, xruntime, xlistener, xalive, xcredit, xpackets, xsubmitted,
            xsamples, xheard, xpaused, xsuspended, xevents, xreported, xunlocked >>

X360Init ==
    /\ xstage = "new" /\ xlibrary = FALSE /\ xruntime = FALSE /\ xlistener = FALSE
    /\ xalive = {} /\ xcredit = [d \in Drivers |-> 0]
    /\ xpackets = << >> /\ xsubmitted = 0 /\ xsamples = << >> /\ xheard = << 0, 0 >>
    /\ xpaused = FALSE /\ xsuspended = 0
    /\ xevents = << >> /\ xreported = << >> /\ xunlocked = 0

-----------------------------------------------------------------------------
(* Loading: each step may fail, and a failure takes down what is up.  *)

xsound == << xalive, xcredit, xpackets, xsubmitted, xsamples, xheard >>
xtitle == << xpaused, xsuspended, xevents, xreported, xunlocked >>

Steps == << "new", "loaded", "set up", "listening", "prepared", "running" >>
StepNumber(stage) == CHOOSE i \in 1..Len(Steps) : Steps[i] = stage
AfterStep(stage) == Steps[StepNumber(stage) + 1]

(* The next step of the loader and of whitty_xbox360_runtime::initialize;    *)
(* Resume of the prepared main thread starts the title.                      *)
Advance ==
    /\ xstage \in {"new", "loaded", "set up", "listening", "prepared"}
    /\ xstage' = AfterStep(xstage)
    /\ xlibrary' = TRUE
    /\ xruntime' = (xruntime \/ xstage' = "set up")
    /\ xlistener' = (xlistener \/ xstage' = "listening")
    /\ UNCHANGED xsound /\ UNCHANGED xtitle

(* whitty_xbox360_runtime::shutdown, then the loader's: sound still in the   *)
(* mailbox is dropped without a word to its driver, and the title's drivers  *)
(* go with the runtime.                                                      *)
TakenDown == xlibrary' = FALSE /\ xruntime' = FALSE /\ xlistener' = FALSE
Drop == /\ xpackets' = << >> /\ xalive' = {}
        /\ xcredit' = [d \in Drivers |-> 0] /\ UNCHANGED << xsubmitted, xheard >>

Fail ==
    /\ xstage \in {"new", "loaded", "set up", "listening", "prepared"}
    /\ xstage' = "failed"
    /\ TakenDown /\ UNCHANGED xsound /\ UNCHANGED xtitle

(* Closing the session: the runtime first, then the audio output. *)
CloseSession ==
    /\ xstage = "running"
    /\ xstage' = "closed"
    /\ TakenDown /\ Drop /\ xsamples' = << >>
    /\ UNCHANGED xtitle

-----------------------------------------------------------------------------
(* The title's threads. *)

xloader == << xstage, xlibrary, xruntime, xlistener >>
TitleRuns == xstage = "running" /\ xsuspended = 0

CreateDriver(d) ==
    /\ TitleRuns /\ d \notin xalive /\ xsubmitted < MaxSubmits
    /\ xalive' = xalive \cup {d} /\ xcredit' = [xcredit EXCEPT ![d] = Credits]
    /\ UNCHANGED << xpackets, xsubmitted, xsamples, xheard >>
    /\ UNCHANGED xloader /\ UNCHANGED xtitle

(* The destructor of the driver takes its packets out of the mailbox, so     *)
(* that its semaphore is not touched again.  The others stay in their order: *)
(* there is one way to number their places upwards.                          *)
DiscardedSlip(packets, d) == {packets}
Discarded(packets, d) ==
    LET kept == { i \in DOMAIN packets : packets[i].driver # d }
        upwards == { place \in [1..Cardinality(kept) -> kept] :
                         \A i, j \in DOMAIN place : i < j => place[i] < place[j] }
    IN { [i \in DOMAIN place |-> packets[place[i]]] : place \in upwards }
DestroyDriver(d) ==
    /\ TitleRuns /\ d \in xalive
    /\ xalive' = xalive \ {d} /\ xcredit' = [xcredit EXCEPT ![d] = 0]
    /\ xpackets' \in Discarded(xpackets, d)
    /\ UNCHANGED << xsubmitted, xsamples, xheard >>
    /\ UNCHANGED xloader /\ UNCHANGED xtitle

(* The packets a full mailbox drops, oldest first, are given back as read. *)
Dropped == IF Len(xpackets) >= MaxAudioPackets
           THEN SubSeq(xpackets, 1, Len(xpackets) - MaxAudioPackets + 1) ELSE << >>
ReleasedSlip(credit, gone) == credit
Released(credit, gone) ==
    [d \in Drivers |-> credit[d] + Cardinality({i \in DOMAIN gone : gone[i].driver = d})]
Submit(d) ==
    /\ TitleRuns /\ d \in xalive /\ xcredit[d] > 0 /\ xsubmitted < MaxSubmits
    /\ xsubmitted' = xsubmitted + 1
    /\ xpackets' = Append(SubSeq(xpackets, Len(Dropped) + 1, Len(xpackets)),
                          [driver |-> d, number |-> xsubmitted + 1, read |-> 0])
    /\ xcredit' = Released([xcredit EXCEPT ![d] = @ - 1], Dropped)
    /\ UNCHANGED << xalive, xsamples, xheard >> /\ UNCHANGED xloader /\ UNCHANGED xtitle

Unlock ==
    /\ TitleRuns /\ xlistener /\ xunlocked < MaxUnlocks
    /\ xunlocked' = xunlocked + 1 /\ xevents' = Append(xevents, xunlocked + 1)
    /\ UNCHANGED << xpaused, xsuspended, xreported >> /\ UNCHANGED xloader /\ UNCHANGED xsound

-----------------------------------------------------------------------------
(* The host's frame. *)

(* A read that ends with the first k unread parts of packet i has read all    *)
(* the packets before it; the finished ones are released, and one read in     *)
(* part goes on where the read stopped.                                      *)
Finished(packets, i, k) == IF packets[i].read + k = PacketParts THEN i ELSE i - 1
Unfinished(packets, i, k) == SubSeq(packets, Finished(packets, i, k) + 1, Len(packets))
AfterReadSlip(packets, i, k) == Unfinished(packets, i, k)
AfterRead(packets, i, k) ==
    IF Finished(packets, i, k) = i THEN Unfinished(packets, i, k)
    ELSE [Unfinished(packets, i, k) EXCEPT ![1].read = @ + k]

(* The parts it read, oldest packet first: only the oldest can be one of which  *)
(* a part has been read before.                                               *)
PartsRead(packets, i, k) ==
    LET place(m) == packets[1].read + m - 1
        packet(m) == packets[1 + place(m) \div PacketParts]
        count == (i - 1) * PacketParts + packets[i].read + k - packets[1].read
    IN [m \in 1..count |-> << packet(m).number, 1 + (place(m) % PacketParts) >>]

(* enqueue: what would be too much is dropped from the front of the queue. *)
Enqueued(samples, parts) ==
    LET excess == Len(samples) + Len(parts) - MaxSamples
    IN IF excess > 0
       THEN SubSeq(samples, Min({excess, Len(samples)}) + 1, Len(samples)) \o parts
       ELSE samples \o parts

(* One read_audio of the drain loop with the enqueue that follows it; the    *)
(* scratch buffer may be shorter than what is there, and is never empty.     *)
DrainSound ==
    /\ xstage = "running"
    /\ \E i \in DOMAIN xpackets : \E k \in 1..(PacketParts - xpackets[i].read) :
         /\ xpackets' = AfterRead(xpackets, i, k)
         /\ xcredit' = Released(xcredit, SubSeq(xpackets, 1, Finished(xpackets, i, k)))
         /\ xsamples' = Enqueued(xsamples, PartsRead(xpackets, i, k))
    /\ UNCHANGED << xalive, xsubmitted, xheard >> /\ UNCHANGED xloader /\ UNCHANGED xtitle

Report ==
    /\ xstage = "running" /\ xevents # << >>
    /\ xreported' = Append(xreported, Head(xevents)) /\ xevents' = Tail(xevents)
    /\ UNCHANGED << xpaused, xsuspended, xunlocked >> /\ UNCHANGED xloader /\ UNCHANGED xsound

(* set_paused, called in every iteration of the host loop with the state of  *)
(* the pause menu; only a change reaches the main thread.                    *)
SetPaused(paused) ==
    /\ xstage = "running" /\ paused # xpaused
    /\ xpaused' = paused
    /\ xsuspended' = IF paused THEN xsuspended + 1 ELSE xsuspended - 1
    /\ UNCHANGED << xevents, xreported, xunlocked >> /\ UNCHANGED xloader /\ UNCHANGED xsound

(* The audio thread of the output: fill_buffer takes what there is. *)
Fill ==
    /\ xstage = "running" /\ ~xpaused /\ xsamples # << >>
    /\ xheard' = Head(xsamples) /\ xsamples' = Tail(xsamples)
    /\ UNCHANGED << xalive, xcredit, xpackets, xsubmitted >>
    /\ UNCHANGED xloader /\ UNCHANGED xtitle

X360Next ==
    \/ Advance \/ Fail \/ CloseSession
    \/ \E d \in Drivers : CreateDriver(d) \/ DestroyDriver(d) \/ Submit(d)
    \/ Unlock \/ DrainSound \/ Report \/ Fill
    \/ \E paused \in BOOLEAN : SetPaused(paused)
X360Spec == X360Init /\ [][X360Next]_xvars

-----------------------------------------------------------------------------
(* A driver that exists has every packet it submitted either in the mailbox  *)
(* or given back: no overflow, partial read or discard of another driver     *)
(* loses a credit, and none is given twice.  A lost credit is sound the      *)
(* title can never submit again.                                             *)
InMailbox(d) == Cardinality({i \in DOMAIN xpackets : xpackets[i].driver = d})
CreditsKept == \A d \in xalive : xcredit[d] + InMailbox(d) = Credits

(* No packet in the mailbox belongs to a driver that is gone: its semaphore  *)
(* is freed with it and a release would touch freed memory.                  *)
NoPacketOfTheDead == \A i \in DOMAIN xpackets : xpackets[i].driver \in xalive

(* The device never plays a part of sound twice, nor an older one after a    *)
(* newer: dropping at either end of the way leaves the order intact.         *)
Later(a, b) == a[1] > b[1] \/ (a[1] = b[1] /\ a[2] > b[2])
SoundInOrder == [][Fill => Later(xheard', xheard)]_xvars

-----------------------------------------------------------------------------
(* An Xbox 360 title that is a program of its own: the session starts it as  *)
(* a child process, polls for its end while it plays, and stops it when the  *)
(* session is closed.                                                        *)

CONSTANT Polls      \* how often stop looks after it has asked the child: 40

ASSUME NativeAssumption == Polls \in Nat \ {0}

VARIABLES
    nhost,          \* where the session is
    nprocess,       \* m_process is the child, and not -1
    nstarted,       \* m_started
    npolls,         \* polls since the child was asked to end
    nchild          \* external: the child as the system has it

nvars == << nhost, nprocess, nstarted, npolls, nchild >>

NativeInit ==
    /\ nhost = "new" /\ nprocess = FALSE /\ nstarted = FALSE /\ npolls = 0
    /\ nchild = "none"

Alive == nchild \in {"running", "leaving"}

(* waitpid without waiting: it reaps a child that has ended. *)
Ended == nchild = "zombie"

(* The plan may find no runtime and the fork may fail. *)
NativeStart ==
    /\ nhost = "new"
    /\ \/ /\ nhost' = "playing" /\ nprocess' = TRUE /\ nstarted' = TRUE /\ nchild' = "running"
       \/ /\ nhost' = "stop" /\ UNCHANGED << nprocess, nstarted, nchild >>
    /\ UNCHANGED npolls

(* process_events: a child that has ended sends the player to the menu. *)
NativeEvents ==
    /\ nhost = "playing" /\ Ended
    /\ nchild' = "reaped" /\ nprocess' = FALSE /\ nstarted' = FALSE
    /\ nhost' = "stop" /\ UNCHANGED npolls

(* The session is closed while the child plays: the launcher asked for it. *)
NativeLeave ==
    /\ nhost = "playing" /\ nhost' = "stop"
    /\ UNCHANGED << nprocess, nstarted, npolls, nchild >>

(* stop: nothing to do without a process; else look once, then SIGTERM. *)
NativeStop ==
    /\ nhost = "stop"
    /\ \/ /\ ~nprocess /\ nhost' = "gone" /\ UNCHANGED << nprocess, nchild >>
       \/ /\ nprocess /\ Ended
          /\ nchild' = "reaped" /\ nprocess' = FALSE /\ nhost' = "gone"
       \/ /\ nprocess /\ ~Ended
          /\ nhost' = "polling" /\ UNCHANGED << nprocess, nchild >>
    /\ npolls' = 0 /\ UNCHANGED nstarted

NativePoll ==
    /\ nhost = "polling" /\ npolls < Polls
    /\ IF Ended
       THEN nchild' = "reaped" /\ nprocess' = FALSE /\ nhost' = "gone" /\ UNCHANGED npolls
       ELSE npolls' = npolls + 1 /\ UNCHANGED << nhost, nprocess, nchild >>
    /\ UNCHANGED nstarted

(* SIGKILL, which no child survives, and a wait for the end. *)
KilledSlip == nchild
Killed == IF Alive THEN "leaving" ELSE nchild
NativeKill ==
    /\ nhost = "polling" /\ npolls = Polls
    /\ nhost' = "killing" /\ nchild' = Killed
    /\ UNCHANGED << nprocess, nstarted, npolls >>
NativeWait ==
    /\ nhost = "killing" /\ Ended
    /\ nchild' = "reaped" /\ nprocess' = FALSE /\ nhost' = "gone"
    /\ UNCHANGED << nstarted, npolls >>

(* The child may end at any time, on SIGTERM or by itself, and need not. *)
ChildLeaves ==
    /\ nchild = "running" /\ nchild' = "leaving"
    /\ UNCHANGED << nhost, nprocess, nstarted, npolls >>
ChildEnds ==
    /\ nchild = "leaving" /\ nchild' = "zombie"
    /\ UNCHANGED << nhost, nprocess, nstarted, npolls >>

NativeNext ==
    \/ NativeStart \/ NativeEvents \/ NativeLeave
    \/ NativeStop \/ NativePoll \/ NativeKill \/ NativeWait
    \/ ChildLeaves \/ ChildEnds
NativeFairness ==
    /\ WF_nvars(NativeStop \/ NativePoll \/ NativeKill \/ NativeWait)
    /\ WF_nvars(ChildEnds)
NativeSpec == NativeInit /\ [][NativeNext]_nvars

-----------------------------------------------------------------------------
(* A session that is being closed comes to its end with the child ended and  *)
(* reaped, also when the title ignores SIGTERM: no program plays on, and no   *)
(* zombie stays, behind the launcher.                                        *)
NoChildLeft == nhost = "stop" ~> nhost = "gone" /\ nchild \in {"none", "reaped"}
=============================================================================
