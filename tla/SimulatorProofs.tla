-------------------------- MODULE SimulatorProofs ---------------------------
(* The simulator for any number of objects and any angles and speeds the     *)
(* sliders can set.                                                          *)
EXTENDS Scene, Robots, TLAPS

(***************************************************************************)
(* A turn after an obstacle.                                               *)
(***************************************************************************)

RobotInv ==
  /\ m_dAngle \in Nat /\ m_omega \in Nat
  /\ to_rotate \in Nat /\ turned \in Nat /\ meant \in Nat
  /\ TurnsAsMeant

\* Every tick and every change of a slider keeps the account of the turn.
LEMMA RobotStep == RobotInv /\ [robot_Next \/ controlled_Next]_robotVars => RobotInv'
<1> SUFFICES ASSUME RobotInv, [robot_Next \/ controlled_Next]_robotVars PROVE RobotInv'
  OBVIOUS
<1> USE DEF RobotInv, TurnsAsMeant
<1>1. CASE Rotate
  <2>1. PICK step \in Nat : /\ step <= to_rotate
                            /\ to_rotate' = to_rotate - step
                            /\ turned' = turned + step
    BY <1>1 DEF Rotate
  <2>2. UNCHANGED <<m_dAngle, m_omega, meant>>
    BY <1>1 DEF Rotate
  <2> QED BY <2>1, <2>2
<1>2. ASSUME NEW inSight \in BOOLEAN, updatePosition(inSight) PROVE RobotInv'
  BY <1>2 DEF updatePosition, turning
<1>3. CASE SetRobot
  <2>1. Angles \subseteq Nat
    <3>1. \A angle \in 0 .. FullTurn : angle \in Nat
      BY RobotsAssumption
    <3> QED BY <3>1, RobotsAssumption
  <2>2. m_dAngle' \in Angles \/ m_dAngle' = m_dAngle
    BY <1>3 DEF SetRobot
  <2>3. m_omega' \in AngularSpeeds \/ m_omega' = m_omega
    BY <1>3 DEF SetRobot
  <2>4. UNCHANGED <<to_rotate, turned, meant>>
    BY <1>3 DEF SetRobot, turning
  <2> QED BY <2>1, <2>2, <2>3, <2>4, RobotsAssumption
<1>4. CASE controlled_Next
  BY <1>4 DEF controlled_Next, keyPressEvent, SetControlled, updateControlled,
     KeepsRobot, turning
<1>5. CASE UNCHANGED robotVars
  BY <1>5 DEF robotVars
<1> QED BY <1>1, <1>2, <1>3, <1>4, <1>5 DEF robot_Next

\* A robot turns by the dAngle it had when it met the obstacle, whatever omega,
\* angle, dAngle and direction are set to on the way (updatePosition in robot.cpp).
THEOREM TurnIsMeant == robotsSpec => []TurnsAsMeant
<1>1. robots_init => RobotInv
  BY RobotsAssumption DEF robots_init, RobotInv, TurnsAsMeant
<1>2. RobotInv => TurnsAsMeant
  BY DEF RobotInv
<1>3. robotsSpec => []RobotInv
  BY <1>1, RobotStep, PTL DEF robotsSpec
<1> QED BY <1>2, <1>3, PTL

(***************************************************************************)
(* The vectors and the items.                                              *)
(***************************************************************************)

SceneInv ==
  /\ selection \subseteq Live
  /\ \A a \in Live : sceneItems[a] \in Types
  /\ DOMAIN vectors = Types
  /\ VectorsAreScene

\* Every operation keeps the vectors in line with the scene.
LEMMA SceneStep == SceneInv /\ [sceneNext]_sceneVars => SceneInv'
<1> SUFFICES ASSUME SceneInv, [sceneNext]_sceneVars PROVE SceneInv'
  OBVIOUS
<1> USE DEF SceneInv, VectorsAreScene, Live
<1>1. ASSUME NEW chosen \in SUBSET Live, changeSelection(chosen) PROVE SceneInv'
  BY <1>1 DEF changeSelection
<1>2. ASSUME NEW type \in Types, add(type) PROVE SceneInv'
  <2>1. PICK a \in Addresses \ Live :
          /\ sceneItems' = [b \in Live \cup {a} |-> IF b = a THEN type ELSE sceneItems[b]]
          /\ vectors' = [vectors EXCEPT ![type] = @ \cup {a}]
          /\ selection' = selection
    BY <1>2 DEF add
  <2>2. /\ DOMAIN sceneItems' = Live \cup {a}
        /\ \A b \in Live \cup {a} : sceneItems'[b] = IF b = a THEN type ELSE sceneItems[b]
    BY <2>1
  <2>3. ASSUME NEW t \in Types
        PROVE  vectors'[t] = {b \in DOMAIN sceneItems' : sceneItems'[b] = t}
    <3>1. vectors'[t] = IF t = type THEN vectors[t] \cup {a} ELSE vectors[t]
      BY <2>1
    <3>2. vectors[t] = {b \in Live : sceneItems[b] = t} /\ a \notin Live
      OBVIOUS
    <3> QED BY <3>1, <3>2, <2>2
  <2>4. DOMAIN vectors' = Types
    BY <2>1
  <2> QED BY <2>1, <2>2, <2>3, <2>4
<1>3. ASSUME NEW type \in Types, delete(type) PROVE SceneInv'
  <2> DEFINE leaving == {a \in selection : sceneItems[a] = type}
  <2>1. /\ sceneItems' = [a \in Live \ leaving |-> sceneItems[a]]
        /\ vectors' = [vectors EXCEPT ![type] = @ \ leaving]
        /\ selection' = selection \ leaving
    BY <1>3 DEF delete, DeselectsAll
  <2>2. ASSUME NEW t \in Types
        PROVE  vectors'[t] = {b \in DOMAIN sceneItems' : sceneItems'[b] = t}
    <3>1. vectors'[t] = IF t = type THEN vectors[t] \ leaving ELSE vectors[t]
      BY <2>1
    <3>2. vectors[t] = {b \in Live : sceneItems[b] = t}
      OBVIOUS
    <3> QED BY <3>1, <3>2, <2>1
  <2>3. DOMAIN vectors' = Types
    BY <2>1
  <2> QED BY <2>1, <2>2, <2>3
<1>4. CASE loadScene
  <2> DEFINE leaving == UNION {vectors[t] : t \in Types}
  <2>1. leaving = Live
    OBVIOUS
  <2>2. CASE UNCHANGED <<sceneItems, vectors, selection>>
    BY <2>2
  <2>3. ASSUME NEW loaded \in SUBSET Addresses, NEW type \in [loaded -> Types],
               sceneItems' = [a \in (Live \ leaving) \cup loaded |->
                                IF a \in loaded THEN type[a] ELSE sceneItems[a]],
               vectors' = [t \in Types |-> {a \in loaded : type[a] = t}],
               selection' = {}
        PROVE  SceneInv'
    <3>1. sceneItems' = [a \in loaded |-> type[a]]
      BY <2>1, <2>3
    <3> QED BY <3>1, <2>3
  <2>4. \/ UNCHANGED <<sceneItems, vectors, selection>>
        \/ \E loaded \in SUBSET Addresses : \E type \in [loaded -> Types] :
             /\ sceneItems' = [a \in (Live \ leaving) \cup loaded |->
                                 IF a \in loaded THEN type[a] ELSE sceneItems[a]]
             /\ vectors' = [t \in Types |-> {a \in loaded : type[a] = t}]
             /\ selection' = {}
    <3> DEFINE ofType(t) == {a \in selection : sceneItems[a] = t}
               lastOnes == IF ofType("Controlled_Robot") # {} THEN ofType("Controlled_Robot")
                           ELSE IF ofType("Obstacle") # {} THEN ofType("Obstacle")
                           ELSE ofType("Robot")
    <3>1. lastOnes = {} => selection = {}
      <4>1. \A a \in selection : sceneItems[a] \in {"Robot", "Obstacle", "Controlled_Robot"}
        BY DEF Types
      <4> QED BY <4>1
    <3>2. \A last : DeselectsAll(leaving, last) => selection' = {}
      BY <2>1 DEF DeselectsAll
    <3> HIDE DEF lastOnes
    <3>3. lastOnes = {} /\ UNCHANGED <<selection, pointers>> => selection' = {}
      BY <3>1
    <3> QED BY <1>4, <3>2, <3>3 DEF loadScene, lastOnes
  <2> QED BY <2>2, <2>3, <2>4
<1>5. CASE startSim \/ stopSim \/ updateSlider \/ UNCHANGED sceneVars
  BY <1>5 DEF startSim, stopSim, updateSlider, sceneVars
<1> QED BY <1>1, <1>2, <1>3, <1>4, <1>5 DEF sceneNext

\* saveScene writes exactly the objects on the scene and loadScene frees each of
\* them once, for any number of objects and any sequence of adding, selecting,
\* deleting and loading, freed addresses that are used again included.
THEOREM VectorsMatchScene == sceneSpec => []VectorsAreScene
<1>1. initScene => SceneInv
  BY DEF initScene, SceneInv, VectorsAreScene, Live
<1>2. SceneInv => VectorsAreScene
  BY DEF SceneInv
<1>3. sceneSpec => []SceneInv
  BY <1>1, SceneStep, PTL DEF sceneSpec
<1> QED BY <1>2, <1>3, PTL
=============================================================================
