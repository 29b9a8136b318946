----------------------------- MODULE GameServer -----------------------------
(***************************************************************************)
(* The zones of a game server (servjuego): the table mZones of the         *)
(* GameServer singleton and, for every zone in it, the ZoneHandler whose   *)
(* thread steps the zone's game until it is told to stop.                  *)
(*                                                                         *)
(* Callers are the threads that use the interface of GameServer: listener  *)
(* threads of the control link and main.  startZone, SendZoneLoads and     *)
(* stopAll are called by the program; nothing calls stopZone and           *)
(* markForDetach yet, and they are here as the header offers them.         *)
(* mGameMutex is not here: besides the zone's own thread only doBackup     *)
(* takes it, and nothing calls that.                                       *)
(***************************************************************************)
EXTENDS Integers, FiniteSets

CONSTANTS
    Zones,          \* zone ids, integers as in the code: mZones is ordered
    Callers,        \* the threads that call GameServer
    Nobody,         \* mZonesMutex is free
    InitMayFail,    \* may the game's init() return false?
    GameMayEnd      \* may the game's step() return false?

ASSUME ZonesAssumption == Zones \subseteq Nat
ASSUME NobodyAssumption == Nobody \notin Callers
ASSUME FlagsAssumption == InitMayFail \in BOOLEAN /\ GameMayEnd \in BOOLEAN

VARIABLES
    mZones,         \* the zones the server manages
    mZonesMutex,    \* the caller that holds it, or Nobody
    mGame,          \* mGame[z]: does the game object of z exist?
    mRun,           \* mRun[z]: the flag the thread of z runs by
    detachable,     \* detachable[z]: mDetachableZone # -1
    at,             \* at[z]: where the thread of z is
    doing           \* doing[k]: the call caller k is in, and its local state

server   == <<mZones, mZonesMutex>>
handlers == <<mGame, mRun, detachable, at>>
vars     == <<server, handlers, doing>>

Points == {"none", "init", "started", "test", "check", "step", "store",
           "measure", "ended"}
Steps  == {"idle", "wait", "destroy", "stop", "join", "next"}
Calls  == {"none", "loads", "stopZone", "forceStop", "stopAll"}
Idle   == [op |-> "none", step |-> "idle", zones |-> {}]

Init ==
    /\ mZones = {}
    /\ mZonesMutex = Nobody
    /\ mGame = [z \in Zones |-> FALSE]
    /\ mRun = [z \in Zones |-> FALSE]
    /\ detachable = [z \in Zones |-> FALSE]
    /\ at = [z \in Zones |-> "none"]
    /\ doing = [k \in Callers |-> Idle]

-----------------------------------------------------------------------------
(* ZoneHandler::startThread. *)

Go(z, point) == at' = [at EXCEPT ![z] = point]

(* A failed init ends the thread, with mGameMutex still locked. *)
InitGame(z) ==
    /\ at[z] = "init"
    /\ \/ Go(z, "started")
       \/ InitMayFail /\ Go(z, "ended")
    /\ UNCHANGED <<server, mGame, mRun, detachable, doing>>

RunTrue(z) ==
    /\ at[z] = "started"
    /\ mRun' = [mRun EXCEPT ![z] = TRUE]
    /\ Go(z, "test")
    /\ UNCHANGED <<server, mGame, detachable, doing>>

(* Variant of TestRun, for a mutant: a loop that does not end. *)
TestRunAlways(z) ==
    /\ at[z] = "test"
    /\ Go(z, "check")
    /\ UNCHANGED <<server, mGame, mRun, detachable, doing>>

(* while (run()) *)
TestRun(z) ==
    /\ at[z] = "test"
    /\ Go(z, IF mRun[z] THEN "check" ELSE "ended")
    /\ UNCHANGED <<server, mGame, mRun, detachable, doing>>

(* if (run()) run(mGame->step(...)): the flag is read here, ... *)
CheckRun(z) ==
    /\ at[z] = "check"
    /\ Go(z, IF mRun[z] THEN "step" ELSE "measure")
    /\ UNCHANGED <<server, mGame, mRun, detachable, doing>>

(* ... and what step() returns is written to it afterwards. *)
StoreRun(z) ==
    /\ at[z] = "step"
    /\ \/ mRun' = [mRun EXCEPT ![z] = TRUE]
       \/ GameMayEnd /\ mRun' = [mRun EXCEPT ![z] = FALSE]
    /\ Go(z, "measure")
    /\ UNCHANGED <<server, mGame, detachable, doing>>

(* Time keeping and the load; nothing here changes what is modelled. *)
Measure(z) ==
    /\ at[z] = "measure"
    /\ Go(z, "test")
    /\ UNCHANGED <<server, mGame, mRun, detachable, doing>>

ZoneThread(z) ==
    \/ InitGame(z) \/ RunTrue(z) \/ TestRun(z)
    \/ CheckRun(z) \/ StoreRun(z) \/ Measure(z)

-----------------------------------------------------------------------------
(* The interface.  startZone and markForDetach hold mZonesMutex for the    *)
(* whole of a body that never waits.                                       *)

(* Variant of StartZone, for a mutant: it enters the zone under the next   *)
(* id.                                                                     *)
StartZoneShifted(k, z) ==
    /\ doing[k] = Idle
    /\ mZonesMutex = Nobody
    /\ z \notin mZones
    /\ mZones' = mZones \cup {z + 1}
    /\ mGame' = [mGame EXCEPT ![z] = TRUE]
    /\ Go(z, "init")
    /\ UNCHANGED <<mZonesMutex, mRun, detachable, doing>>

StartZone(k, z) ==
    /\ doing[k] = Idle
    /\ mZonesMutex = Nobody
    /\ z \notin mZones
    /\ mZones' = mZones \cup {z}
    /\ mGame' = [mGame EXCEPT ![z] = TRUE]
    /\ mRun' = [mRun EXCEPT ![z] = FALSE]
    /\ detachable' = [detachable EXCEPT ![z] = FALSE]
    /\ Go(z, "init")
    /\ UNCHANGED <<mZonesMutex, doing>>

MarkForDetach(k, z) ==
    /\ doing[k] = Idle
    /\ mZonesMutex = Nobody
    /\ z \in mZones
    /\ detachable' = [detachable EXCEPT ![z] = TRUE]
    /\ UNCHANGED <<server, mGame, mRun, at, doing>>

(* The other calls may have to wait for the mutex. *)
Call(k, op, z) ==
    /\ doing[k] = Idle
    /\ doing' = [doing EXCEPT ![k] = [op |-> op, step |-> "wait", zones |-> {z}]]
    /\ UNCHANGED <<server, handlers>>

Continue(k, step) == doing' = [doing EXCEPT ![k].step = step]

Return(k) ==
    /\ mZonesMutex' = Nobody
    /\ doing' = [doing EXCEPT ![k] = Idle]

(* SendZoneLoads answers for every zone it finds, under the mutex. *)
SendZoneLoads(k) ==
    /\ doing[k].op = "loads" /\ doing[k].step = "wait"
    /\ mZonesMutex = Nobody
    /\ Return(k)
    /\ UNCHANGED <<mZones, handlers>>

(* Variant of StopZone: the mark is not looked at. *)
StopZoneUnmarked(k) ==
    /\ doing[k].op \in {"stopZone", "forceStop"} /\ doing[k].step = "wait"
    /\ mZonesMutex = Nobody
    /\ IF doing[k].zones \subseteq mZones
          THEN mZonesMutex' = k /\ Continue(k, "destroy")
          ELSE Return(k)
    /\ UNCHANGED <<mZones, handlers>>

(* stopZone: the handler of a zone is deleted if the stop is forced or the *)
(* zone was marked; otherwise the call does nothing.                       *)
StopZone(k) ==
    /\ doing[k].op \in {"stopZone", "forceStop"} /\ doing[k].step = "wait"
    /\ mZonesMutex = Nobody
    /\ LET stops(z) == z \in mZones /\ (doing[k].op = "forceStop" \/ detachable[z])
       IN  \/ /\ \A z \in doing[k].zones : stops(z)
              /\ mZonesMutex' = k
              /\ Continue(k, "destroy")
           \/ /\ \E z \in doing[k].zones : ~stops(z)
              /\ Return(k)
    /\ UNCHANGED <<mZones, handlers>>

StopAll(k) ==
    /\ doing[k].op = "stopAll" /\ doing[k].step = "wait"
    /\ mZonesMutex = Nobody
    /\ mZonesMutex' = k
    /\ doing' = [doing EXCEPT ![k].step = "next", ![k].zones = mZones]
    /\ UNCHANGED <<mZones, handlers>>

First(S) == CHOOSE z \in S : \A y \in S : z <= y
Target(k) == First(doing[k].zones)

(* stopAll takes the handlers in the order of the map, and stops each      *)
(* before it deletes it.                                                   *)
NextHandler(k) ==
    /\ doing[k].step = "next"
    /\ doing[k].zones # {}
    /\ Continue(k, "stop")
    /\ UNCHANGED <<server, handlers>>

AllStopped(k) ==
    /\ doing[k].step = "next"
    /\ doing[k].zones = {}
    /\ mZones' = {}
    /\ Return(k)
    /\ UNCHANGED handlers

(* ~ZoneHandler writes run(false), and then so does stop(). *)
Destroy(k) ==
    /\ doing[k].step = "destroy"
    /\ mRun' = [mRun EXCEPT ![Target(k)] = FALSE]
    /\ Continue(k, "stop")
    /\ UNCHANGED <<server, mGame, detachable, at>>

Stop(k) ==
    /\ doing[k].step = "stop"
    /\ mRun' = [mRun EXCEPT ![Target(k)] = FALSE]
    /\ Continue(k, "join")
    /\ UNCHANGED <<server, mGame, detachable, at>>

(* Variants of Join: it does not wait; the entry of the zone stays. *)
JoinAtOnce(k) ==
    LET z == Target(k) IN
    /\ doing[k].step = "join"
    /\ mGame' = [mGame EXCEPT ![z] = FALSE]
    /\ IF doing[k].op = "stopAll"
          THEN /\ doing' = [doing EXCEPT ![k].step = "next", ![k].zones = @ \ {z}]
               /\ UNCHANGED server
          ELSE /\ mZones' = mZones \ {z}
               /\ Return(k)
    /\ UNCHANGED <<mRun, detachable, at>>

JoinKeepsEntry(k) ==
    LET z == Target(k) IN
    /\ doing[k].step = "join"
    /\ at[z] = "ended"
    /\ Go(z, "none")
    /\ mGame' = [mGame EXCEPT ![z] = FALSE]
    /\ IF doing[k].op = "stopAll"
          THEN /\ doing' = [doing EXCEPT ![k].step = "next", ![k].zones = @ \ {z}]
               /\ UNCHANGED server
          ELSE Return(k) /\ UNCHANGED mZones
    /\ UNCHANGED <<mRun, detachable>>

(* join returns when the thread has ended; then the thread and the game    *)
(* are deleted, and stopZone erases the entry.                             *)
Join(k) ==
    LET z == Target(k) IN
    /\ doing[k].step = "join"
    /\ at[z] = "ended"
    /\ Go(z, "none")
    /\ mGame' = [mGame EXCEPT ![z] = FALSE]
    /\ IF doing[k].op = "stopAll"
          THEN /\ doing' = [doing EXCEPT ![k].step = "next", ![k].zones = @ \ {z}]
               /\ UNCHANGED server
          ELSE /\ mZones' = mZones \ {z}
               /\ Return(k)
    /\ UNCHANGED <<mRun, detachable>>

Working(k) ==
    \/ SendZoneLoads(k) \/ StopZone(k) \/ StopAll(k) \/ NextHandler(k)
    \/ AllStopped(k) \/ Destroy(k) \/ Stop(k) \/ Join(k)

Calling(k) ==
    \/ \E z \in Zones : StartZone(k, z) \/ MarkForDetach(k, z)
    \/ \E op \in Calls \ {"none"}, z \in Zones : Call(k, op, z)

Next ==
    \/ \E z \in Zones : ZoneThread(z)
    \/ \E k \in Callers : Working(k) \/ Calling(k)

Spec == Init /\ [][Next]_vars

(* Threads run, and a caller that is in a call goes on with it. *)
FairSpec ==
    /\ Spec
    /\ \A z \in Zones : WF_vars(ZoneThread(z))
    /\ \A k \in Callers : WF_vars(Working(k))

-----------------------------------------------------------------------------
(* Properties. *)

TypeOK ==
    /\ mZones \subseteq Zones
    /\ mZonesMutex \in Callers \cup {Nobody}
    /\ mGame \in [Zones -> BOOLEAN]
    /\ mRun \in [Zones -> BOOLEAN]
    /\ detachable \in [Zones -> BOOLEAN]
    /\ at \in [Zones -> Points]
    /\ doing \in [Callers -> [op : Calls, step : Steps, zones : SUBSET Zones]]

Active(z) == at[z] \notin {"none", "ended"}

(* The game of a zone is not deleted under the thread that steps it.       *)
GameOutlivesThread == \A z \in Zones : Active(z) => mGame[z]

(* Outside the calls that are changing it the table is exact: the zones in *)
(* mZones have a game and a thread, the others have neither.               *)
TableIsExact ==
    mZonesMutex = Nobody =>
        \A z \in Zones : /\ z \in mZones <=> mGame[z]
                         /\ z \in mZones <=> at[z] # "none"

(* Unless the stop is forced, a running zone goes only if it was marked    *)
(* for detach first, whatever else happens meanwhile.                      *)
OnlyDetachedZonesGo ==
    [][\A z \in Zones : z \in mZones /\ z \notin mZones' =>
          \/ detachable[z]
          \/ \E k \in Callers : doing[k].op \in {"forceStop", "stopAll"}
                                /\ mZonesMutex = k]_vars

(* A stop that comes between two steps of the game ends the thread. *)
StopBetweenStepsEnds ==
    \A z \in Zones :
        at[z] \in {"test", "check", "measure"} /\ ~mRun[z]
            ~> at[z] \in {"none", "ended"}

(* A call that has begun to stop a zone returns, with the zone gone        *)
(* (GameServer.h:64, "totally stop managing a zone, destroying all its     *)
(* related objects", and :67 for stopAll).                                 *)
StopReturns ==
    \A k \in Callers : doing[k].step = "stop" ~> doing[k] = Idle
=============================================================================
