-------------------------- MODULE GameServer_proofs --------------------------
(***************************************************************************)
(* The safety properties of GameServer, for any zones, callers and failure *)
(* flags, from an inductive invariant: who holds mZonesMutex, what the     *)
(* call that holds it still has to stop, and which zones have a game.      *)
(***************************************************************************)
EXTENDS GameServer, WellFoundedInduction, TLAPS

(* The calls at these points hold mZonesMutex. *)
Holding(k) == doing[k].step \in {"destroy", "stop", "join", "next"}

(* Whoever is in the middle of a stopZone or stopAll holds mZonesMutex,    *)
(* and nobody else.                                                        *)
MutexInv == \A k \in Callers : Holding(k) <=> mZonesMutex = k

(* A call that holds the mutex has zones to stop that are in the table and *)
(* have a game; stopZone has one, and that is marked unless it is forced.  *)
CallInv ==
    \A k \in Callers :
        /\ doing[k].step = "wait" => \E z \in Zones : doing[k].zones = {z}
        /\ doing[k].step = "next" => doing[k].op = "stopAll"
        /\ doing[k].step = "destroy" => doing[k].op # "stopAll"
        /\ doing[k].step \in {"destroy", "stop", "join"} => doing[k].zones # {}
        /\ Holding(k) =>
              /\ doing[k].op \in {"stopZone", "forceStop", "stopAll"}
              /\ doing[k].op # "stopAll" => \E z \in Zones : doing[k].zones = {z}
              /\ \A z \in doing[k].zones :
                    /\ z \in mZones /\ at[z] # "none"
                    /\ doing[k].op = "stopZone" => detachable[z]
              /\ doing[k].op = "stopAll" =>
                    \A z \in Zones : at[z] # "none" => z \in doing[k].zones

(* A game is there as long as its thread, and its zone is in the table;    *)
(* only stopAll leaves zones in the table whose game it has deleted.       *)
TableInv ==
    \A z \in Zones :
        /\ mGame[z] = (at[z] # "none")
        /\ at[z] # "none" => z \in mZones
        /\ z \in mZones /\ at[z] = "none" =>
              \E k \in Callers : /\ mZonesMutex = k
                                 /\ doing[k].op = "stopAll"
                                 /\ z \notin doing[k].zones

IInv == TypeOK /\ MutexInv /\ CallInv /\ TableInv

-----------------------------------------------------------------------------
(* A set of zone ids has a least one, so stopAll's next handler is one of  *)
(* the handlers it has left (the order of a std::map<int, ...>).           *)
LEMMA FirstIsMember == ASSUME NEW S \in SUBSET Zones, S # {} PROVE First(S) \in S
<1> DEFINE R == OpToRel(<, Nat)
<1>1. R = {ss \in Nat \X Nat : ss[1] < ss[2]}
  BY Zenon DEF OpToRel
<1>2. IsWellFoundedOn(R, Nat)
  BY NatLessThanWellFounded
<1> HIDE DEF R
<1>3. \A a, b \in Nat : a < b => <<a, b>> \in R
  <2> SUFFICES ASSUME NEW a \in Nat, NEW b \in Nat, a < b PROVE <<a, b>> \in R
    OBVIOUS
  <2>1. <<a, b>> \in {ss \in Nat \X Nat : ss[1] < ss[2]}
    OBVIOUS
  <2> QED
    BY <2>1, <1>1, Zenon
<1>4. S \subseteq Nat
  BY ZonesAssumption
<1>5. PICK x \in S : \A y \in S : <<y, x>> \notin R
  BY <1>2, <1>4, WFMin
<1>6. \A y \in S : ~(y < x)
  BY <1>3, <1>4, <1>5, Zenon
<1>7. \A a, b \in Nat : ~(a < b) => b <= a
  OBVIOUS
<1>8. \A y \in S : x <= y
  BY <1>4, <1>6, <1>7, Zenon
<1> QED
  BY <1>8, Zenon DEF First

(* A new game server has no zones and nobody calls it. *)
LEMMA InitIInv == Init => IInv
<1> SUFFICES ASSUME Init PROVE IInv
  OBVIOUS
<1>1. TypeOK
  BY DEF Init, TypeOK, Points, Calls, Steps, Idle
<1>2. MutexInv
  BY NobodyAssumption DEF Init, MutexInv, Holding, Idle
<1>3. CallInv
  BY DEF Init, CallInv, Holding, Idle
<1>4. TableInv
  BY DEF Init, TableInv
<1> QED
  BY <1>1, <1>2, <1>3, <1>4 DEF IInv

(* The thread of a zone moves, and touches nothing but its place and mRun. *)
LEMMA ThreadSteps ==
    ASSUME TypeOK, NEW z \in Zones, ZoneThread(z)
    PROVE  /\ UNCHANGED <<mZones, mZonesMutex, mGame, detachable, doing>>
           /\ mRun' \in [Zones -> BOOLEAN]
           /\ at[z] # "none"
           /\ \E p \in Points \ {"none"} : at' = [at EXCEPT ![z] = p]
<1> USE DEF TypeOK, Points, Go, server
<1>1. CASE InitGame(z)
  BY <1>1 DEF InitGame
<1>2. CASE RunTrue(z)
  BY <1>2 DEF RunTrue
<1>3. CASE TestRun(z)
  BY <1>3 DEF TestRun
<1>4. CASE CheckRun(z)
  BY <1>4 DEF CheckRun
<1>5. CASE StoreRun(z)
  BY <1>5 DEF StoreRun
<1>6. CASE Measure(z)
  BY <1>6 DEF Measure
<1> QED
  BY <1>1, <1>2, <1>3, <1>4, <1>5, <1>6 DEF ZoneThread

LEMMA ThreadStep == ASSUME IInv, NEW z \in Zones, ZoneThread(z) PROVE IInv'
<1>1. TypeOK
  BY DEF IInv
<1>2. PICK p \in Points \ {"none"} : at' = [at EXCEPT ![z] = p]
  BY <1>1, ThreadSteps
<1>3. /\ UNCHANGED <<mZones, mZonesMutex, mGame, detachable, doing>>
      /\ mRun' \in [Zones -> BOOLEAN]
      /\ at[z] # "none"
  BY <1>1, ThreadSteps
<1>4. \A y \in Zones : (at'[y] # "none") = (at[y] # "none")
  BY <1>1, <1>2, <1>3 DEF TypeOK
<1>5. TypeOK'
  BY <1>1, <1>2, <1>3 DEF TypeOK
<1>6. MutexInv'
  BY <1>3 DEF IInv, MutexInv, Holding
<1>7. CallInv'
  <2>1. \A k \in Callers : doing[k].zones \subseteq Zones
    BY <1>1 DEF TypeOK
  <2> QED
    BY <1>3, <1>4, <2>1 DEF IInv, CallInv, Holding
<1>8. TableInv'
  BY <1>3, <1>4 DEF IInv, TableInv
<1> QED
  BY <1>5, <1>6, <1>7, <1>8 DEF IInv

-----------------------------------------------------------------------------
(* What the calls do to doing[k]. *)

Records == [op : Calls, step : Steps, zones : SUBSET Zones]

(* A step within a call changes the step only. *)
LEMMA Continues ==
    ASSUME TypeOK, NEW k \in Callers, NEW s \in Steps, Continue(k, s)
    PROVE  /\ doing' \in [Callers -> Records]
           /\ doing'[k] = [op |-> doing[k].op, step |-> s, zones |-> doing[k].zones]
           /\ \A j \in Callers : j # k => doing'[j] = doing[j]
<1>1. doing \in [Callers -> Records]
  BY DEF TypeOK, Records
<1>2. doing[k] \in Records
  BY <1>1
<1>3. doing' = [doing EXCEPT ![k] = [doing[k] EXCEPT !.step = s]]
  BY DEF Continue
<1>4. [doing[k] EXCEPT !.step = s]
          = [op |-> doing[k].op, step |-> s, zones |-> doing[k].zones]
  BY <1>2 DEF Records
<1>5. [op |-> doing[k].op, step |-> s, zones |-> doing[k].zones] \in Records
  BY <1>2 DEF Records
<1> QED
  BY <1>1, <1>3, <1>4, <1>5

(* The end of a call leaves its caller idle, and the mutex free. *)
LEMMA Returns ==
    ASSUME TypeOK, NEW k \in Callers, Return(k)
    PROVE  /\ doing' \in [Callers -> Records]
           /\ doing'[k] = Idle
           /\ \A j \in Callers : j # k => doing'[j] = doing[j]
           /\ mZonesMutex' = Nobody
<1>1. Idle \in Records
  BY DEF Idle, Records, Calls, Steps
<1> QED
  BY <1>1 DEF TypeOK, Records, Return

(* While the mutex is free nobody holds it, and while k holds it nobody    *)
(* else does.                                                              *)
LEMMA FreeMutex ==
    ASSUME MutexInv, mZonesMutex = Nobody
    PROVE  \A j \in Callers : ~Holding(j)
BY NobodyAssumption DEF MutexInv

LEMMA OneHolder ==
    ASSUME MutexInv, NEW k \in Callers, Holding(k)
    PROVE  mZonesMutex = k /\ \A j \in Callers : j # k => ~Holding(j)
BY DEF MutexInv


(* The calls that only wait, or write mRun of the zone they stop.          *)

(* A call that goes on with one step, or ends, and leaves the tables.      *)
LEMMA QuietStep ==
    ASSUME IInv, NEW k \in Callers,
           UNCHANGED <<mZones, mGame, at, detachable>>,
           mRun' \in [Zones -> BOOLEAN],
           mZonesMutex' \in Callers \cup {Nobody},
           doing' \in [Callers -> Records],
           \A j \in Callers : j # k => doing'[j] = doing[j],
           MutexInv', CallInv',
           \A z \in Zones :
               doing[k].op = "stopAll" /\ mZonesMutex = k /\ z \notin doing[k].zones
                   => \/ z \notin mZones
                      \/ doing'[k].op = "stopAll" /\ mZonesMutex' = k
                            /\ z \notin doing'[k].zones,
           \A j \in Callers : j # k /\ mZonesMutex = j => mZonesMutex' = j
    PROVE  IInv'
<1>1. TypeOK'
  BY DEF IInv, TypeOK, Records
<1>2. TableInv'
  BY DEF IInv, TableInv
<1> QED
  BY <1>1, <1>2 DEF IInv

LEMMA LoadsStep == ASSUME IInv, NEW k \in Callers, SendZoneLoads(k) PROVE IInv'
<1>1. /\ doing' \in [Callers -> Records]
      /\ doing'[k] = Idle
      /\ \A j \in Callers : j # k => doing'[j] = doing[j]
      /\ mZonesMutex' = Nobody
  BY Returns DEF SendZoneLoads, IInv
<1>2. UNCHANGED <<mZones, mGame, mRun, at, detachable>> /\ mZonesMutex = Nobody
  BY DEF SendZoneLoads, handlers
<1>3. \A j \in Callers : ~Holding(j)
  BY <1>2, FreeMutex DEF IInv
<1>4. MutexInv'
  BY <1>1, <1>3, NobodyAssumption DEF MutexInv, Holding, Idle
<1>5. CallInv'
  BY <1>1, <1>2, <1>3 DEF IInv, CallInv, Holding, Idle
<1> QED
  BY <1>1, <1>2, <1>4, <1>5, NobodyAssumption, QuietStep DEF IInv, TypeOK

LEMMA StopZoneStep == ASSUME IInv, NEW k \in Callers, StopZone(k) PROVE IInv'
<1>1. UNCHANGED <<mZones, mGame, mRun, at, detachable>> /\ mZonesMutex = Nobody
  BY DEF StopZone, handlers
<1>2. \A j \in Callers : ~Holding(j)
  BY <1>1, FreeMutex DEF IInv
<1>3. CASE Return(k)
  <2>1. /\ doing' \in [Callers -> Records]
        /\ doing'[k] = Idle
        /\ \A j \in Callers : j # k => doing'[j] = doing[j]
        /\ mZonesMutex' = Nobody
    BY <1>3, Returns DEF IInv
  <2>2. MutexInv'
    BY <2>1, <1>2, NobodyAssumption DEF MutexInv, Holding, Idle
  <2>3. CallInv'
    BY <2>1, <1>1, <1>2 DEF IInv, CallInv, Holding, Idle
  <2> QED
    BY <1>1, <2>1, <2>2, <2>3, NobodyAssumption, QuietStep DEF IInv, TypeOK
<1>4. CASE mZonesMutex' = k /\ Continue(k, "destroy")
  <2>1. /\ doing' \in [Callers -> Records]
        /\ doing'[k] = [op |-> doing[k].op, step |-> "destroy", zones |-> doing[k].zones]
        /\ \A j \in Callers : j # k => doing'[j] = doing[j]
    BY <1>4, Continues DEF IInv, Steps
  <2>2. MutexInv'
    BY <2>1, <1>2, <1>4 DEF MutexInv, Holding
  <2>3. /\ doing[k].op \in {"stopZone", "forceStop"} /\ doing[k].step = "wait"
        /\ \A z \in doing[k].zones : z \in mZones /\ (doing[k].op = "forceStop" \/ detachable[z])
    <3>1. ~Return(k)
      BY <1>4, NobodyAssumption DEF Return
    <3> QED
      BY <3>1 DEF StopZone
  <2>4. PICK y \in Zones : doing[k].zones = {y}
    BY <2>3 DEF IInv, CallInv
  <2>5. at[y] # "none"
    <3>1. y \in mZones
      BY <2>3, <2>4
    <3> QED
      BY <3>1, <1>1, NobodyAssumption DEF IInv, TableInv
  <2>6. CallInv'
    BY <1>1, <1>2, <2>1, <2>3, <2>4, <2>5 DEF IInv, CallInv, Holding
  <2> QED
    BY <1>1, <1>4, <2>1, <2>2, <2>6, NobodyAssumption, QuietStep DEF IInv, TypeOK
<1> QED
  BY <1>3, <1>4 DEF StopZone


LEMMA StopAllStep == ASSUME IInv, NEW k \in Callers, StopAll(k) PROVE IInv'
<1>1. /\ UNCHANGED <<mZones, mGame, mRun, at, detachable>>
      /\ mZonesMutex = Nobody /\ mZonesMutex' = k
      /\ doing[k].op = "stopAll"
  BY DEF StopAll, handlers
<1>2. \A j \in Callers : ~Holding(j)
  BY <1>1, FreeMutex DEF IInv
<1>3. /\ doing' \in [Callers -> Records]
      /\ doing'[k] = [op |-> doing[k].op, step |-> "next", zones |-> mZones]
      /\ \A j \in Callers : j # k => doing'[j] = doing[j]
  <2>1. doing \in [Callers -> Records] /\ mZones \in SUBSET Zones
    BY DEF IInv, TypeOK, Records
  <2>2. doing' = [doing EXCEPT ![k].step = "next", ![k].zones = mZones]
    BY DEF StopAll
  <2>3. [op |-> doing[k].op, step |-> "next", zones |-> mZones] \in Records
    BY <2>1 DEF Records, Steps
  <2>4. doing'[k] = [op |-> doing[k].op, step |-> "next", zones |-> mZones]
    BY <2>1, <2>2 DEF Records
  <2> QED
    BY <2>1, <2>2, <2>3, <2>4
<1>4. MutexInv'
  BY <1>1, <1>2, <1>3 DEF MutexInv, Holding
<1>5. \A z \in Zones : z \in mZones <=> at[z] # "none"
  BY <1>1, NobodyAssumption DEF IInv, TableInv
<1>6. CallInv'
  <2>1. mZones \subseteq Zones
    BY DEF IInv, TypeOK
  <2> QED
    BY <1>1, <1>2, <1>3, <1>5, <2>1 DEF IInv, CallInv, Holding
<1> QED
  BY <1>1, <1>3, <1>4, <1>6, NobodyAssumption, QuietStep DEF IInv, TypeOK

(* The next handler stopAll stops is one of those it has left. *)
LEMMA NextHandlerStep == ASSUME IInv, NEW k \in Callers, NextHandler(k) PROVE IInv'
<1>1. /\ UNCHANGED <<mZones, mZonesMutex, mGame, mRun, at, detachable>>
      /\ doing[k].step = "next" /\ doing[k].zones # {}
      /\ Continue(k, "stop")
  BY DEF NextHandler, handlers, server
<1>2. /\ doing' \in [Callers -> Records]
      /\ doing'[k] = [op |-> doing[k].op, step |-> "stop", zones |-> doing[k].zones]
      /\ \A j \in Callers : j # k => doing'[j] = doing[j]
  BY <1>1, Continues DEF IInv, Steps
<1>3. mZonesMutex = k /\ \A j \in Callers : j # k => ~Holding(j)
  BY <1>1, OneHolder DEF IInv, Holding
<1>4. MutexInv'
  BY <1>1, <1>2, <1>3 DEF MutexInv, Holding
<1>5. CallInv'
  BY <1>1, <1>2, <1>3 DEF IInv, CallInv, Holding
<1> QED
  BY <1>1, <1>2, <1>3, <1>4, <1>5, QuietStep DEF IInv, TypeOK

(* Destroy and Stop write mRun of the zone that is stopped. *)
LEMMA TargetIsZone ==
    ASSUME IInv, NEW k \in Callers, doing[k].step \in {"destroy", "stop", "join"}
    PROVE  Target(k) \in Zones /\ Target(k) \in doing[k].zones
<1>1. doing[k].zones \in SUBSET Zones
  BY DEF IInv, TypeOK
<1>2. doing[k].zones # {}
  BY DEF IInv, CallInv
<1> QED
  BY <1>1, <1>2, FirstIsMember DEF Target

LEMMA WritingStep ==
    ASSUME IInv, NEW k \in Callers, Destroy(k) \/ Stop(k) PROVE IInv'
<1>1. PICK s \in {"stop", "join"} : Continue(k, s)
  BY DEF Destroy, Stop
<1>2. /\ UNCHANGED <<mZones, mZonesMutex, mGame, at, detachable>>
      /\ doing[k].step \in {"destroy", "stop"}
      /\ mRun' = [mRun EXCEPT ![Target(k)] = FALSE]
  BY DEF Destroy, Stop, server
<1>3. mRun' \in [Zones -> BOOLEAN]
  BY <1>2 DEF IInv, TypeOK
<1>4. /\ doing' \in [Callers -> Records]
      /\ doing'[k] = [op |-> doing[k].op, step |-> s, zones |-> doing[k].zones]
      /\ \A j \in Callers : j # k => doing'[j] = doing[j]
  BY <1>1, Continues DEF IInv, Steps
<1>5. mZonesMutex = k /\ \A j \in Callers : j # k => ~Holding(j)
  BY <1>2, OneHolder DEF IInv, Holding
<1>6. MutexInv'
  BY <1>2, <1>4, <1>5 DEF MutexInv, Holding
<1>7. CallInv'
  BY <1>2, <1>4, <1>5 DEF IInv, CallInv, Holding
<1> QED
  BY <1>2, <1>3, <1>4, <1>5, <1>6, <1>7, QuietStep DEF IInv, TypeOK

(* stopAll returns when no zone has a game any more. *)
LEMMA AllStoppedStep == ASSUME IInv, NEW k \in Callers, AllStopped(k) PROVE IInv'
<1>1. /\ UNCHANGED <<mGame, mRun, at, detachable>> /\ mZones' = {}
      /\ doing[k].step = "next" /\ doing[k].zones = {}
  BY DEF AllStopped, handlers
<1>2. /\ doing' \in [Callers -> Records]
      /\ doing'[k] = Idle
      /\ \A j \in Callers : j # k => doing'[j] = doing[j]
      /\ mZonesMutex' = Nobody
  BY Returns DEF AllStopped, IInv
<1>3. mZonesMutex = k /\ \A j \in Callers : j # k => ~Holding(j)
  BY <1>1, OneHolder DEF IInv, Holding
<1>4. \A z \in Zones : at[z] = "none"
  BY <1>1 DEF IInv, CallInv, Holding
<1>5. TypeOK'
  BY <1>1, <1>2 DEF IInv, TypeOK, Records
<1>6. MutexInv'
  BY <1>2, <1>3, NobodyAssumption DEF MutexInv, Holding, Idle
<1>7. CallInv'
  BY <1>1, <1>2, <1>3 DEF IInv, CallInv, Holding, Idle
<1>8. TableInv'
  BY <1>1, <1>4 DEF IInv, TableInv
<1> QED
  BY <1>5, <1>6, <1>7, <1>8 DEF IInv


(* join returns: the thread and the game of one zone go together, and with *)
(* stopZone the entry; stopAll has one zone less to stop.                  *)
LEMMA JoinStep == ASSUME IInv, NEW k \in Callers, Join(k) PROVE IInv'
<1> DEFINE z == Target(k)
<1>1. z \in Zones /\ z \in doing[k].zones
  BY TargetIsZone DEF Join
<1>2. /\ doing[k].step = "join"
      /\ at' = [at EXCEPT ![z] = "none"]
      /\ mGame' = [mGame EXCEPT ![z] = FALSE]
      /\ UNCHANGED <<mRun, detachable>>
  BY DEF Join, Go
<1> HIDE DEF z
<1>3. mZonesMutex = k /\ \A j \in Callers : j # k => ~Holding(j)
  BY <1>2, OneHolder DEF IInv, Holding
<1>4. at'[z] = "none" /\ \A y \in Zones : y # z => at'[y] = at[y]
  BY <1>1, <1>2 DEF IInv, TypeOK
<1>5. mGame'[z] = FALSE /\ \A y \in Zones : y # z => mGame'[y] = mGame[y]
  BY <1>1, <1>2 DEF IInv, TypeOK
<1>6. at' \in [Zones -> Points] /\ mGame' \in [Zones -> BOOLEAN]
  BY <1>1, <1>2 DEF IInv, TypeOK, Points
<1>7. doing[k].zones \subseteq Zones
  BY DEF IInv, TypeOK
<1>8. CASE doing[k].op = "stopAll"
  <2>1. /\ UNCHANGED <<mZones, mZonesMutex>>
        /\ doing' = [doing EXCEPT ![k].step = "next", ![k].zones = @ \ {z}]
    BY <1>8 DEF Join, server, z
  <2>2. /\ doing' \in [Callers -> Records]
        /\ doing'[k] = [op |-> "stopAll", step |-> "next", zones |-> doing[k].zones \ {z}]
        /\ \A j \in Callers : j # k => doing'[j] = doing[j]
    <3>1. doing \in [Callers -> Records]
      BY DEF IInv, TypeOK, Records
    <3>2. doing'[k] = [op |-> "stopAll", step |-> "next", zones |-> doing[k].zones \ {z}]
      BY <1>8, <2>1, <3>1 DEF Records
    <3>3. [op |-> "stopAll", step |-> "next", zones |-> doing[k].zones \ {z}] \in Records
      BY <1>7 DEF Records, Calls, Steps
    <3> QED
      BY <2>1, <3>1, <3>2, <3>3
  <2>3. TypeOK'
    BY <1>2, <1>6, <2>1, <2>2 DEF IInv, TypeOK, Records
  <2>4. MutexInv'
    BY <1>3, <2>1, <2>2 DEF MutexInv, Holding
  <2>5. CallInv'
    <3>1. \A y \in doing[k].zones \ {z} : y \in mZones /\ at'[y] # "none"
      BY <1>2, <1>4, <1>7 DEF IInv, CallInv, Holding
    <3>2. \A y \in Zones : at'[y] # "none" => y \in doing[k].zones \ {z}
      BY <1>2, <1>4, <1>8 DEF IInv, CallInv, Holding
    <3>3. doing'[k].zones = doing[k].zones \ {z} /\ doing'[k].op = "stopAll"
             /\ doing'[k].step = "next"
      BY <2>2
    <3>4. UNCHANGED mZones
      BY <2>1
    <3> QED
      BY <1>3, <2>2, <3>1, <3>2, <3>3, <3>4 DEF IInv, CallInv, Holding
  <2>6. TableInv'
    <3> SUFFICES ASSUME NEW y \in Zones
                 PROVE  /\ mGame'[y] = (at'[y] # "none")
                        /\ at'[y] # "none" => y \in mZones'
                        /\ y \in mZones' /\ at'[y] = "none" =>
                              \E j \in Callers : /\ mZonesMutex' = j
                                                 /\ doing'[j].op = "stopAll"
                                                 /\ y \notin doing'[j].zones
      BY DEF TableInv
    <3>1. CASE y = z
      <4>1. mZonesMutex' = k /\ doing'[k].op = "stopAll" /\ z \notin doing'[k].zones
        BY <1>3, <2>1, <2>2
      <4>2. mGame'[z] = (at'[z] # "none")
        BY <1>4, <1>5
      <4> QED
        BY <1>4, <3>1, <4>1, <4>2
    <3>2. CASE y # z
      BY <1>3, <1>4, <1>5, <2>1, <2>2, <3>2 DEF IInv, TableInv
    <3> QED
      BY <3>1, <3>2
  <2> QED
    BY <2>3, <2>4, <2>5, <2>6 DEF IInv
<1>9. CASE doing[k].op # "stopAll"
  <2>1. mZones' = mZones \ {z} /\ Return(k)
    BY <1>9 DEF Join, z
  <2>2. /\ doing' \in [Callers -> Records]
        /\ doing'[k] = Idle
        /\ \A j \in Callers : j # k => doing'[j] = doing[j]
        /\ mZonesMutex' = Nobody
    BY <2>1, Returns DEF IInv
  <2>3. TypeOK'
    BY <1>2, <1>6, <2>1, <2>2 DEF IInv, TypeOK, Records
  <2>4. MutexInv'
    BY <1>3, <2>2, NobodyAssumption DEF MutexInv, Holding, Idle
  <2>5. CallInv'
    BY <1>3, <2>1, <2>2 DEF IInv, CallInv, Holding, Idle
  <2>6. TableInv'
    <3>1. \A y \in Zones : y \in mZones => at[y] # "none"
      BY <1>3, <1>9 DEF IInv, TableInv
    <3>2. \A y \in Zones : y # z => mGame'[y] = (at'[y] # "none")
      BY <1>4, <1>5 DEF IInv, TableInv
    <3>3. \A y \in Zones : at'[y] # "none" => y \in mZones'
      BY <1>4, <2>1 DEF IInv, TableInv
    <3> QED
      BY <1>4, <1>5, <2>1, <3>1, <3>2, <3>3 DEF TableInv
  <2> QED
    BY <2>3, <2>4, <2>5, <2>6 DEF IInv
<1> QED
  BY <1>8, <1>9

(* A call of the interface that has begun goes on. *)
LEMMA WorkingStep == ASSUME IInv, NEW k \in Callers, Working(k) PROVE IInv'
BY LoadsStep, StopZoneStep, StopAllStep, NextHandlerStep, WritingStep,
   AllStoppedStep, JoinStep DEF Working


(* The calls that take the mutex and give it back in one step, and the     *)
(* beginning of the others.                                                *)
LEMMA StartZoneStep ==
    ASSUME IInv, NEW k \in Callers, NEW z \in Zones, StartZone(k, z) PROVE IInv'
<1>1. /\ mZonesMutex = Nobody /\ mZonesMutex' = Nobody
      /\ z \notin mZones /\ mZones' = mZones \cup {z}
      /\ mGame' = [mGame EXCEPT ![z] = TRUE]
      /\ mRun' = [mRun EXCEPT ![z] = FALSE]
      /\ detachable' = [detachable EXCEPT ![z] = FALSE]
      /\ at' = [at EXCEPT ![z] = "init"]
      /\ UNCHANGED doing
  BY DEF StartZone, Go
<1>2. \A j \in Callers : ~Holding(j)
  BY <1>1, FreeMutex DEF IInv
<1>3. TypeOK'
  BY <1>1 DEF IInv, TypeOK, Points
<1>4. MutexInv'
  BY <1>1 DEF IInv, MutexInv, Holding
<1>5. CallInv'
  BY <1>1, <1>2 DEF IInv, CallInv, Holding
<1>6. at'[z] = "init" /\ \A y \in Zones : y # z => at'[y] = at[y]
  BY <1>1 DEF IInv, TypeOK
<1>7. mGame'[z] = TRUE /\ \A y \in Zones : y # z => mGame'[y] = mGame[y]
  BY <1>1 DEF IInv, TypeOK
<1>8. TableInv'
  <2>1. mGame'[z] = (at'[z] # "none")
    BY <1>6, <1>7
  <2>2. \A y \in Zones : y # z => mGame'[y] = (at'[y] # "none")
    BY <1>6, <1>7 DEF IInv, TableInv
  <2>3. \A y \in Zones : at'[y] # "none" => y \in mZones'
    BY <1>1, <1>6 DEF IInv, TableInv
  <2>4. \A y \in Zones : y \in mZones' => at'[y] # "none"
    BY <1>1, <1>6, NobodyAssumption DEF IInv, TableInv
  <2> QED
    BY <2>1, <2>2, <2>3, <2>4 DEF TableInv
<1> QED
  BY <1>3, <1>4, <1>5, <1>8 DEF IInv

LEMMA MarkStep ==
    ASSUME IInv, NEW k \in Callers, NEW z \in Zones, MarkForDetach(k, z) PROVE IInv'
<1>1. /\ UNCHANGED <<mZones, mZonesMutex, mGame, mRun, at, doing>>
      /\ detachable' = [detachable EXCEPT ![z] = TRUE]
      /\ mZonesMutex = Nobody
  BY DEF MarkForDetach, server
<1>2. \A j \in Callers : ~Holding(j)
  BY <1>1, FreeMutex DEF IInv
<1>3. TypeOK'
  BY <1>1 DEF IInv, TypeOK
<1>4. MutexInv'
  BY <1>1 DEF IInv, MutexInv, Holding
<1>5. CallInv'
  BY <1>1, <1>2 DEF IInv, CallInv, Holding
<1>6. TableInv'
  BY <1>1 DEF IInv, TableInv
<1> QED
  BY <1>3, <1>4, <1>5, <1>6 DEF IInv

LEMMA CallStep ==
    ASSUME IInv, NEW k \in Callers, NEW op \in Calls, NEW z \in Zones, Call(k, op, z)
    PROVE  IInv'
<1> DEFINE r == [op |-> op, step |-> "wait", zones |-> {z}]
<1>1. /\ UNCHANGED <<mZones, mZonesMutex, mGame, mRun, at, detachable>>
      /\ doing[k] = Idle
      /\ doing' = [doing EXCEPT ![k] = r]
  BY DEF Call, server, handlers
<1>2. r \in Records
  BY DEF Records, Steps
<1>3. /\ doing' \in [Callers -> Records]
      /\ doing'[k] = r
      /\ \A j \in Callers : j # k => doing'[j] = doing[j]
  BY <1>1, <1>2 DEF IInv, TypeOK, Records
<1>4. mZonesMutex # k
  BY <1>1 DEF IInv, MutexInv, Holding, Idle
<1>5. MutexInv'
  BY <1>1, <1>3, <1>4 DEF IInv, MutexInv, Holding
<1>6. CallInv'
  BY <1>1, <1>3 DEF IInv, CallInv, Holding
<1> QED
  BY <1>1, <1>3, <1>4, <1>5, <1>6, QuietStep DEF IInv, TypeOK

(* Every step keeps the invariant. *)
LEMMA Inductive == IInv /\ [Next]_vars => IInv'
<1> SUFFICES ASSUME IInv, [Next]_vars PROVE IInv'
  OBVIOUS
<1>1. CASE \E z \in Zones : ZoneThread(z)
  BY <1>1, ThreadStep
<1>2. CASE \E k \in Callers : Working(k)
  BY <1>2, WorkingStep
<1>3. CASE \E k \in Callers : Calling(k)
  BY <1>3, StartZoneStep, MarkStep, CallStep DEF Calling
<1>4. CASE UNCHANGED vars
  BY <1>4 DEF vars, server, handlers, IInv, TypeOK, MutexInv, CallInv, TableInv, Holding
<1> QED
  BY <1>1, <1>2, <1>3, <1>4 DEF Next

(* The invariant holds in every state of every game server. *)
LEMMA IInvAlways == Spec => []IInv
BY InitIInv, Inductive, PTL DEF Spec

-----------------------------------------------------------------------------
(* Every variable keeps its kind of value. *)
THEOREM TypeCorrect == Spec => []TypeOK
<1>1. IInv => TypeOK
  BY DEF IInv
<1> QED
  BY IInvAlways, <1>1, PTL

(* No game is deleted while its thread may still step it: ~ZoneHandler     *)
(* joins before it deletes (ZoneHandler.cpp:68-75), and no other caller    *)
(* gets at the handler meanwhile.                                          *)
THEOREM GameAlwaysOutlivesThread == Spec => []GameOutlivesThread
<1>1. IInv => GameOutlivesThread
  BY DEF IInv, TableInv, GameOutlivesThread, Active
<1> QED
  BY IInvAlways, <1>1, PTL

(* Whenever mZonesMutex is free the zones in mZones are those with a game  *)
(* and a thread (GameServer.cpp:80-122).                                   *)
THEOREM TableAlwaysExact == Spec => []TableIsExact
<1>1. IInv => TableIsExact
  BY NobodyAssumption DEF IInv, TableInv, TableIsExact
<1> QED
  BY IInvAlways, <1>1, PTL

(* A zone whose stop is not forced leaves the table only when it was       *)
(* marked: the mark that stopZone read still stands when the thread has    *)
(* been joined (GameServer.cpp:93-109).                                    *)
THEOREM OnlyDetachedGo == Spec => OnlyDetachedZonesGo
<1> DEFINE MayGo ==
      \A z \in Zones : z \in mZones /\ z \notin mZones' =>
          \/ detachable[z]
          \/ \E k \in Callers : doing[k].op \in {"forceStop", "stopAll"}
                                /\ mZonesMutex = k
<1>1. IInv /\ [Next]_vars => [MayGo]_vars
  <2> SUFFICES ASSUME IInv, [Next]_vars, NEW z \in Zones, z \in mZones, z \notin mZones'
               PROVE  \/ detachable[z]
                      \/ \E k \in Callers : doing[k].op \in {"forceStop", "stopAll"}
                                            /\ mZonesMutex = k
    OBVIOUS
  <2>1. PICK k \in Callers : Join(k) \/ AllStopped(k)
    <3>1. CASE \E y \in Zones : ZoneThread(y)
      BY <3>1, ThreadSteps DEF IInv
    <3>2. CASE \E k \in Callers : Calling(k)
      BY <3>2 DEF Calling, StartZone, MarkForDetach, Call, server
    <3>3. CASE \E k \in Callers : Working(k)
      BY <3>3 DEF Working, SendZoneLoads, StopZone, StopAll, NextHandler, Destroy, Stop,
                  server
    <3>4. CASE UNCHANGED vars
      BY <3>4 DEF vars, server
    <3> QED
      BY <3>1, <3>2, <3>3, <3>4 DEF Next
  <2>2. doing[k].step \in {"join", "next"} /\ Holding(k) /\ mZonesMutex = k
    BY <2>1, OneHolder DEF Join, AllStopped, Holding, IInv
  <2>3. CASE doing[k].op \in {"forceStop", "stopAll"}
    BY <2>2, <2>3
  <2>4. CASE doing[k].op = "stopZone"
    <3>1. Join(k)
      BY <2>1, <2>4 DEF AllStopped, IInv, CallInv
    <3>2. z = Target(k) /\ Target(k) \in doing[k].zones
      BY <3>1, <2>4, TargetIsZone DEF Join, server
    <3> QED
      BY <2>2, <2>4, <3>2 DEF IInv, CallInv
  <2> QED
    BY <2>2, <2>3, <2>4 DEF IInv, CallInv
<1> QED
  BY IInvAlways, <1>1, PTL DEF Spec, OnlyDetachedZonesGo
=============================================================================
