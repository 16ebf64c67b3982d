------------------------------- MODULE Artwork -------------------------------
(* The three libraries that fetch pictures in the background, each with a     *)
(* thread of its own: covers from IGDB, bezels from The Bezel Project, banners *)
(* from Wikimedia.  What they keep on disk outlives the program, which can be *)
(* told to stop, or be killed, while a transfer or a file is half done.       *)
EXTENDS Naturals, Sequences

CONSTANTS
    Names,          \* games asked for
    Published,      \* those the other side has a picture of
    ByShortTitle,   \* those of them found by their short title only
    FailureLimit,   \* transport_failure_limit: 3
    MaxRuns         \* bound: runs of the program

ASSUME ArtworkAssumption ==
    ByShortTitle \subseteq Published /\ Published \subseteq Names /\ FailureLimit \in Nat /\ MaxRuns \in Nat

VARIABLES
    awKind,             \* the library: "cover", "bezel" or "banner"
    awRun, awStop,      \* number of the run; the destructor has been entered
    awSeen, awQueue,    \* requested, pending
    awStep, awName,     \* what the thread does, and for which game
    awReady,            \* finished and not yet taken
    awMissing, awLoaded,\* misses in memory, and whether the file has been read
    awFailures,         \* transport_failures
    awToken,            \* token_usable: the one stored by an earlier run may be
    awCached, awBroken, \* files under their own names: whole ones and others
    awPart,             \* the file beside them: "none", "part" or "whole"
    awMissFile          \* the file of misses

awDisk == << awCached, awBroken, awPart, awMissFile >>
awMemory == << awStop, awSeen, awQueue, awReady, awMissing, awLoaded, awFailures, awToken >>
awvars == << awKind, awRun, awDisk, awMemory, awStep, awName >>

Forget(run) ==
    /\ awRun' = run /\ awStop' = FALSE /\ awSeen' = {} /\ awQueue' = << >> /\ awReady' = {}
    /\ awMissing' = {} /\ awLoaded' = FALSE /\ awFailures' = 0 /\ awToken' \in BOOLEAN
    /\ awStep' = "idle" /\ UNCHANGED awName
AwInit ==
    /\ awKind \in {"cover", "bezel", "banner"} /\ awRun = 1 /\ awStop = FALSE
    /\ awSeen = {} /\ awQueue = << >> /\ awReady = {} /\ awMissing = {} /\ awLoaded = FALSE
    /\ awFailures = 0 /\ awToken \in BOOLEAN /\ awStep = "idle" /\ awName \in Names
    /\ awCached = {} /\ \E name \in Names : awBroken \in {{}, {name}}
    /\ awPart = "none" /\ awMissFile = {}

-----------------------------------------------------------------------------
(* The program's side. *)

Request(name) ==
    /\ ~awStop /\ name \notin awSeen
    /\ awSeen' = awSeen \cup {name} /\ awQueue' = Append(awQueue, name)
    /\ UNCHANGED << awKind, awRun, awDisk, awStop, awReady, awMissing, awLoaded, awFailures, awToken,
                    awStep, awName >>
TakeReady ==
    /\ awReady # {} /\ awReady' = {}
    /\ UNCHANGED << awKind, awRun, awDisk, awStop, awSeen, awQueue, awMissing, awLoaded, awFailures,
                    awToken, awStep, awName >>
(* The destructor lets the thread finish; a killed program finishes nothing.  *)
StopThread ==
    /\ ~awStop /\ awStop' = TRUE
    /\ UNCHANGED << awKind, awRun, awDisk, awSeen, awQueue, awReady, awMissing, awLoaded, awFailures,
                    awToken, awStep, awName >>
NextRun ==
    /\ awRun < MaxRuns /\ (awStop => awStep = "idle")
    /\ Forget(awRun + 1) /\ UNCHANGED << awKind, awDisk >>

-----------------------------------------------------------------------------
(* One job of the thread. *)

Goes(step) == awStep' = step /\ UNCHANGED << awKind, awRun, awName, awStop, awSeen, awQueue >>
Job == UNCHANGED << awReady, awMissing, awLoaded, awFailures, awToken, awDisk >>
Miss ==                             \* record_miss, remember_miss
    /\ awMissing' = awMissing \cup {awName}
    /\ awMissFile' = IF awKind = "cover" THEN awMissing' ELSE awMissFile \cup {awName}
Publish == awReady' = awReady \cup {awName}
NoteFailure == awFailures' = awFailures + 1     \* at FailureLimit: network_unreachable

TakeJob ==
    /\ awStep = "idle" /\ ~awStop /\ awQueue # << >>
    /\ awName' = Head(awQueue) /\ awQueue' = Tail(awQueue) /\ awStep' = "cache"
    /\ IF awKind = "bezel" /\ ~awLoaded THEN awLoaded' = TRUE /\ awMissing' = awMissFile
       ELSE UNCHANGED << awLoaded, awMissing >>
    /\ UNCHANGED << awKind, awRun, awDisk, awStop, awSeen, awReady, awFailures, awToken >>

FromCache ==
    /\ awStep = "cache" /\ awName \in awCached /\ (awKind = "bezel" => awName \notin awMissing)
    /\ Publish /\ Goes("idle")
    /\ UNCHANGED << awMissing, awLoaded, awFailures, awToken, awDisk >>
(* A file that does not decode: a cover is fetched anew, a bezel is missing   *)
(* from then on, a banner is left as it is.                                   *)
BrokenFile ==
    /\ awStep = "cache" /\ awName \in awBroken /\ (awKind = "bezel" => awName \notin awMissing)
    /\ \/ /\ awKind = "cover" /\ awBroken' = awBroken \ {awName} /\ Goes("gate")
          /\ UNCHANGED << awReady, awMissing, awMissFile >>
       \/ awKind = "bezel" /\ Miss /\ Publish /\ Goes("idle") /\ UNCHANGED awBroken
       \/ awKind = "banner" /\ Goes("idle") /\ UNCHANGED << awReady, awMissing, awMissFile, awBroken >>
    /\ UNCHANGED << awLoaded, awFailures, awToken, awCached, awPart >>
NoFile ==
    /\ awStep = "cache" /\ awName \notin awCached \cup awBroken /\ ~(awKind = "bezel" /\ awName \in awMissing)
    /\ Goes(CASE awKind = "cover" -> "gate" [] awKind = "bezel" -> "art" [] OTHER -> "search") /\ Job
KnownMissing ==                     \* a generated surround
    /\ awStep = "cache" /\ awKind = "bezel" /\ awName \in awMissing /\ Publish /\ Goes("idle")
    /\ UNCHANGED << awMissing, awLoaded, awFailures, awToken, awDisk >>

(* Covers: nothing is asked while the network is out of reach or the game is  *)
(* a recorded miss; then a token is needed.                                   *)
Gate ==
    /\ awStep = "gate"
    /\ IF awFailures >= FailureLimit THEN Goes("idle") /\ Job
       ELSE LET misses == IF awLoaded THEN awMissing ELSE awMissFile
            IN /\ awLoaded' = TRUE /\ awMissing' = misses
               /\ Goes(IF awName \in misses THEN "idle" ELSE IF awToken THEN "search" ELSE "token")
               /\ UNCHANGED << awReady, awFailures, awToken, awDisk >>
Token ==
    /\ awStep = "token"
    /\ \/ awToken' = TRUE /\ awFailures' = 0 /\ Goes("search")
       \/ awFailures' = 0 /\ Goes("idle") /\ UNCHANGED awToken
       \/ NoteFailure /\ Goes("idle") /\ UNCHANGED awToken
    /\ UNCHANGED << awReady, awMissing, awLoaded, awDisk >>

(* 401: the token was revoked.  One more is asked for, and the search made    *)
(* once more with it; without one the first answer stands.                    *)
Refused ==
    /\ awStep = "search" /\ awKind = "cover" /\ awToken' = FALSE /\ Goes("retoken")
    /\ UNCHANGED << awReady, awMissing, awLoaded, awFailures, awDisk >>
Retoken ==
    /\ awStep = "retoken"
    /\ \/ awToken' = TRUE /\ awFailures' = 0 /\ Goes("again")
       \/ awFailures' = 0 /\ Goes("idle") /\ UNCHANGED awToken
       \/ /\ awFailures' = IF awFailures + 1 >= FailureLimit THEN FailureLimit ELSE 0
          /\ Goes("idle") /\ UNCHANGED awToken
    /\ UNCHANGED << awReady, awMissing, awLoaded, awDisk >>

Searching == awStep \in {"search", "again"}
Unreached ==
    /\ Searching \/ awStep = "art"
    /\ awKind # "bezel" /\ Goes("idle")
    /\ IF awKind = "cover" THEN NoteFailure ELSE UNCHANGED awFailures
    /\ UNCHANGED << awReady, awMissing, awLoaded, awToken, awDisk >>
SearchOutage ==                     \* not 200: says nothing of the game
    /\ Searching /\ awFailures' = 0 /\ Goes("idle")
    /\ UNCHANGED << awReady, awMissing, awLoaded, awToken, awDisk >>
FoundByTitle == awName \in Published /\ (awKind = "cover" => awName \notin ByShortTitle)
Found ==
    /\ Searching /\ FoundByTitle /\ (awKind = "banner" => ~awStop) /\ awFailures' = 0 /\ Goes("art")
    /\ UNCHANGED << awReady, awMissing, awLoaded, awToken, awDisk >>
NotFound ==
    /\ Searching /\ ~FoundByTitle
    /\ awFailures' = 0 /\ Goes(IF awKind = "cover" THEN "shorter" ELSE "idle")
    /\ UNCHANGED << awReady, awMissing, awLoaded, awToken, awDisk >>
FoundShorter ==
    /\ awStep = "shorter" /\ awName \in ByShortTitle /\ Goes("art") /\ Job
(* ... or IGDB has nothing under the short title, or there is none, or the    *)
(* second search did not come through.                                        *)
NothingShorter ==
    /\ awStep = "shorter" /\ Miss /\ Goes("idle")
    /\ UNCHANGED << awReady, awLoaded, awFailures, awToken, awCached, awBroken, awPart >>

Download ==
    /\ awStep = "art" /\ awName \in Published /\ (awKind # "cover" => ~awStop)
    /\ awFailures' = 0 /\ Goes("open")
    /\ UNCHANGED << awReady, awMissing, awLoaded, awToken, awDisk >>
(* Not 200, or no picture.  A bezel's transfer that fails is no different from *)
(* one there is none of, unless the thread is to stop.  (What a bezel's server *)
(* sent instead of a picture is written too, but being missing it is not read *)
(* again.)                                                                    *)
NoPictureThere ==
    /\ awStep = "art" /\ ~awStop /\ awKind # "banner" /\ Miss /\ Goes("idle")
    /\ IF awKind = "bezel" THEN Publish ELSE UNCHANGED awReady
    /\ UNCHANGED << awLoaded, awFailures, awToken, awCached, awBroken, awPart >>
BezelStopped ==
    /\ awStep = "art" /\ awKind = "bezel" /\ awStop /\ Goes("idle") /\ Job

(* The file is written beside its place and renamed; a banner in place.       *)
BesideSlip == FALSE
Beside == awKind # "banner"
OpenFile ==
    /\ awStep = "open" /\ Goes("write")
    /\ IF Beside THEN awPart' = "part" /\ UNCHANGED << awBroken, awCached >>
       ELSE awBroken' = awBroken \cup {awName} /\ awCached' = awCached \ {awName} /\ UNCHANGED awPart
    /\ UNCHANGED << awReady, awMissing, awLoaded, awFailures, awToken, awMissFile >>
WriteFile ==
    /\ awStep = "write" /\ Goes("rename")
    /\ IF Beside THEN awPart' = "whole" /\ UNCHANGED << awBroken, awCached >>
       ELSE awBroken' = awBroken \ {awName} /\ awCached' = awCached \cup {awName} /\ UNCHANGED awPart
    /\ UNCHANGED << awReady, awMissing, awLoaded, awFailures, awToken, awMissFile >>
RenameFile ==
    /\ awStep = "rename" /\ Goes("idle") /\ Publish
    /\ IF Beside
       THEN awPart' = "none" /\ awCached' = awCached \cup {awName} /\ awBroken' = awBroken \ {awName}
       ELSE UNCHANGED << awPart, awCached, awBroken >>
    /\ UNCHANGED << awMissing, awLoaded, awFailures, awToken, awMissFile >>

AwNext ==
    \/ (\E name \in Names : Request(name)) \/ TakeReady \/ StopThread \/ NextRun
    \/ TakeJob \/ FromCache \/ BrokenFile \/ NoFile \/ KnownMissing
    \/ Gate \/ Token \/ Refused \/ Retoken \/ Unreached \/ SearchOutage \/ Found \/ NotFound
    \/ FoundShorter \/ NothingShorter \/ Download \/ NoPictureThere \/ BezelStopped
    \/ OpenFile \/ WriteFile \/ RenameFile
AwSpec == AwInit /\ [][AwNext]_awvars

-----------------------------------------------------------------------------
(* Whenever the program is killed or told to stop, no cover or bezel is left  *)
(* half written under its own name: a truncated one would be "treated as a    *)
(* valid cache hit on every later launch", or, a bezel, as missing from then  *)
(* on.                                                                        *)
CachedIsWhole == [][awKind # "banner" => awBroken' \subseteq awBroken]_awvars

(* "The request never reached IGDB" must never be recorded as "IGDB has no    *)
(* cover for this game": whatever fails on the way, a game is a recorded miss *)
(* only if there is no picture of it.                                         *)
MissesAreAnswers == awKind = "cover" => awMissFile \cap Published = {}
=============================================================================
