------------------------------- MODULE Robots -------------------------------
(***************************************************************************)
(* How a robot (ICP/src/robot.cpp) and a controlled robot                  *)
(* (controlledrobot.cpp) of the simulator turn.  The unit of every angle   *)
(* is what an angular speed of 1 turns in one tick.  Where they stand is   *)
(* left out: whether something is in sight is any value.                   *)
(***************************************************************************)
EXTENDS Integers

CONSTANTS
  FullTurn,      \* 360 degrees
  Angles,        \* what the sliders set angles and dAngle to
  AngularSpeeds  \* and omega, 0 included

\* The sliders' ranges.
ASSUME RobotsAssumption ==
  FullTurn \in Nat \ {0} /\ Angles \subseteq 0 .. FullTurn /\ AngularSpeeds \subseteq Nat

VARIABLES
  m_angle, m_dAngle, m_omega, m_direction, to_rotate,
  turned, meant,  \* history: turned since the last obstacle, and m_dAngle at it
  con_angle, con_omega, con_state

robotVars == <<m_angle, m_dAngle, m_omega, m_direction, to_rotate, turned, meant,
               con_angle, con_omega, con_state>>
controlled == <<con_angle, con_omega, con_state>>
turning == <<to_rotate, turned, meant>>

robots_init ==
  /\ m_angle \in Angles /\ m_dAngle \in Angles /\ m_omega \in AngularSpeeds
  /\ m_direction \in {1, -1} /\ to_rotate = 0 /\ turned = 0 /\ meant = 0
  /\ con_angle = 0 /\ con_omega \in AngularSpeeds /\ con_state = 0

alignAngle(angle) == angle % FullTurn
da == m_omega * m_direction

\* Mutant: the last step of a turn is a whole one.
RotateWhole ==
  /\ to_rotate # 0 /\ m_omega # 0
  /\ LET step == m_omega IN
     /\ m_angle' = m_angle + m_direction * step
     /\ to_rotate' = IF to_rotate <= m_omega THEN 0 ELSE to_rotate - m_omega
     /\ turned' = turned + step
  /\ UNCHANGED <<m_dAngle, m_omega, m_direction, meant, controlled>>

\* A robot that meets an obstacle turns and does nothing else.  With an angular
\* speed of 0 it does nothing at all.
Rotate ==
  /\ to_rotate # 0 /\ da # 0
  /\ LET step == IF to_rotate <= m_omega THEN to_rotate ELSE m_omega IN
     /\ m_angle' = IF da > 0 THEN m_angle + step ELSE m_angle - step
     /\ to_rotate' = to_rotate - step
     /\ turned' = turned + step
  /\ UNCHANGED <<m_dAngle, m_omega, m_direction, meant, controlled>>

updatePosition(inSight) ==
  /\ to_rotate = 0
  /\ IF inSight THEN to_rotate' = m_dAngle /\ turned' = 0 /\ meant' = m_dAngle
     ELSE UNCHANGED turning
  /\ m_angle' = alignAngle(m_angle)
  /\ UNCHANGED <<m_dAngle, m_omega, m_direction, controlled>>

\* updateAngle, updateRotate, updateOmega and the buttons, at any time.
SetRobot ==
  /\ \/ m_angle' \in Angles /\ UNCHANGED <<m_dAngle, m_omega, m_direction>>
     \/ m_dAngle' \in Angles /\ UNCHANGED <<m_angle, m_omega, m_direction>>
     \/ m_omega' \in AngularSpeeds /\ UNCHANGED <<m_angle, m_dAngle, m_direction>>
     \/ m_direction' = -m_direction /\ UNCHANGED <<m_angle, m_dAngle, m_omega>>
  /\ UNCHANGED <<turning, controlled>>

KeepsRobot == UNCHANGED <<m_angle, m_dAngle, m_omega, m_direction, turning>>

\* S, W, A, D.
keyPressEvent ==
  con_state' \in 0 .. 3 /\ UNCHANGED <<con_angle, con_omega>> /\ KeepsRobot

SetControlled ==
  /\ \/ con_angle' \in Angles /\ UNCHANGED con_omega
     \/ con_omega' \in AngularSpeeds /\ UNCHANGED con_angle
  /\ UNCHANGED con_state /\ KeepsRobot

updateControlled(inSight) ==
  /\ con_angle' = alignAngle(CASE con_state = 2 -> con_angle - con_omega
                               [] con_state = 3 -> con_angle + con_omega
                               [] OTHER -> con_angle)
  /\ con_state' = IF con_state = 1 /\ inSight THEN 0 ELSE con_state
  /\ UNCHANGED con_omega /\ KeepsRobot

robot_Next == Rotate \/ SetRobot \/ \E inSight \in BOOLEAN : updatePosition(inSight)
controlled_Next ==
  keyPressEvent \/ SetControlled \/ \E inSight \in BOOLEAN : updateControlled(inSight)

robotsSpec == robots_init /\ [][robot_Next \/ controlled_Next]_robotVars

-----------------------------------------------------------------------------
(* Properties.                                                             *)

\* A robot that met an obstacle turns by the dAngle of that moment, no more and no
\* less, whatever the sliders set and the buttons turn round on the way.
TurnsAsMeant == turned + to_rotate = meant
=============================================================================
