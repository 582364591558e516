------------------------------- MODULE Scene --------------------------------
(***************************************************************************)
(* The population of the ICP simulator: the items of the QGraphicsScene    *)
(* (simscene.cpp), the three vectors beside them that mainwindow.cpp saves *)
(* and clears, and the pointers the sliders write through.  What moves is  *)
(* in Robots.  Qt keeps the items and the selection, and calls             *)
(* changeSelection every time the selection changes.                       *)
(***************************************************************************)
EXTENDS FiniteSets, FiniteSetsExt

CONSTANTS
  Addresses,  \* of objects: a freed one may be given out again
  NullItem

Types == {"Robot", "Obstacle", "Controlled_Robot"}

VARIABLES
  sceneItems,  \* the live objects in the scene, each with its type
  vectors,     \* robots, obstacles and controllRobots, by type
  selection,   \* selectedItems()
  selectedRobot, selectedConRobot,
  timerRuns,
  sceneCrashed

sceneVars == <<sceneItems, vectors, selection, selectedRobot, selectedConRobot,
               timerRuns, sceneCrashed>>
pointers == <<selectedRobot, selectedConRobot>>

initScene ==
  /\ sceneItems = [a \in {} |-> "Robot"] /\ vectors = [t \in Types |-> {}]
  /\ selection = {}
  /\ selectedRobot = NullItem /\ selectedConRobot = NullItem
  /\ timerRuns = FALSE /\ sceneCrashed = FALSE

Live == DOMAIN sceneItems

\* changeSelection with one item selected: an obstacle leaves both pointers alone.
PointTo(item) ==
  CASE sceneItems[item] = "Robot" -> selectedRobot' = item /\ selectedConRobot' = NullItem
    [] sceneItems[item] = "Controlled_Robot" ->
         selectedConRobot' = item /\ selectedRobot' = NullItem
    [] OTHER -> UNCHANGED pointers

\* With none or several it returns early.
changeSelection(chosen) ==
  /\ chosen # selection /\ selection' = chosen
  /\ IF Cardinality(chosen) = 1 THEN \E item \in chosen : PointTo(item)
     ELSE UNCHANGED pointers
  /\ UNCHANGED <<sceneItems, vectors, timerRuns, sceneCrashed>>

\* addRobot, addObstacle, addcontrolledRobot.
add(type) ==
  \E a \in Addresses \ Live :
    /\ sceneItems' = [b \in Live \cup {a} |-> IF b = a THEN type ELSE sceneItems[b]]
    /\ vectors' = [vectors EXCEPT ![type] = @ \cup {a}]
    /\ UNCHANGED <<selection, pointers, timerRuns, sceneCrashed>>

\* Items leave the scene one by one, `last` the last of them that was selected, and
\* changeSelection runs with what is still selected: with one item before the end
\* when all of several go, after it when one stays.
DeselectsAll(leaving, last) ==
  LET staying == selection \ leaving
      pointed == IF Cardinality(staying) = 1 /\ staying # selection THEN staying
                 ELSE IF staying = {} /\ Cardinality(selection) > 1 THEN {last}
                 ELSE {}
  IN /\ selection' = staying
     /\ IF pointed = {} THEN UNCHANGED pointers
        ELSE \E item \in pointed : PointTo(item)

\* Mutant: the vectors keep the items that are deleted.
deleteFromScene(type) ==
  LET leaving == {a \in selection : sceneItems[a] = type} IN
  /\ leaving # {}
  /\ sceneItems' = [a \in Live \ leaving |-> sceneItems[a]]
  /\ \E last \in leaving : DeselectsAll(leaving, last)
  /\ UNCHANGED <<vectors, timerRuns, sceneCrashed>>

\* deleteRobot, deleteObstacle, deletecontrolledRobot.
delete(type) ==
  LET leaving == {a \in selection : sceneItems[a] = type} IN
  /\ leaving # {}
  /\ sceneItems' = [a \in Live \ leaving |-> sceneItems[a]]
  /\ vectors' = [vectors EXCEPT ![type] = @ \ leaving]
  /\ \E last \in leaving : DeselectsAll(leaving, last)
  /\ UNCHANGED <<timerRuns, sceneCrashed>>

\* What the vectors name is deleted, robots first and controlled robots last, and
\* the lines of the file become objects.
loadScene ==
  LET leaving == UNION {vectors[t] : t \in Types}
      ofType(t) == {a \in selection : sceneItems[a] = t}
      lastOnes == IF ofType("Controlled_Robot") # {} THEN ofType("Controlled_Robot")
                  ELSE IF ofType("Obstacle") # {} THEN ofType("Obstacle")
                  ELSE ofType("Robot")
  IN /\ timerRuns' = FALSE
     /\ \/ UNCHANGED <<sceneItems, vectors, selection, pointers>>  \* no file
        \/ \E loaded \in SUBSET Addresses : \E type \in [loaded -> Types] :
             /\ sceneItems' = [a \in (Live \ leaving) \cup loaded |->
                                 IF a \in loaded THEN type[a] ELSE sceneItems[a]]
             /\ vectors' = [t \in Types |-> {a \in loaded : type[a] = t}]
             /\ IF lastOnes = {} THEN UNCHANGED <<selection, pointers>>
                ELSE \E last \in lastOnes : DeselectsAll(leaving, last)
     /\ UNCHANGED sceneCrashed

startSim == timerRuns' = TRUE /\ UNCHANGED <<sceneItems, vectors, selection, pointers, sceneCrashed>>
stopSim == timerRuns' = FALSE /\ UNCHANGED <<sceneItems, vectors, selection, pointers, sceneCrashed>>

\* updateSpeed and its like write through selectedRobot, or else selectedConRobot:
\* what becomes of a write to an object that was deleted is undefined.
updateSlider ==
  /\ \/ selectedRobot # NullItem /\ selectedRobot \notin Live
     \/ selectedRobot = NullItem /\ selectedConRobot # NullItem /\ selectedConRobot \notin Live
  /\ sceneCrashed' \in BOOLEAN
  /\ UNCHANGED <<sceneItems, vectors, selection, pointers, timerRuns>>

sceneNext ==
  /\ ~sceneCrashed
  /\ \/ \E chosen \in SUBSET Live : changeSelection(chosen)
     \/ \E type \in Types : add(type) \/ delete(type)
     \/ loadScene \/ startSim \/ stopSim \/ updateSlider

sceneSpec == initScene /\ [][sceneNext]_sceneVars

-----------------------------------------------------------------------------
(* Properties.                                                             *)

\* saveScene writes what is on the scene, each object once and under its type, and
\* loadScene frees each once: the vectors agree with the items whatever is added,
\* deleted, loaded and put at an address that was freed.
VectorsAreScene ==
  \A t \in Types : vectors[t] = {a \in Live : sceneItems[a] = t}
=============================================================================
